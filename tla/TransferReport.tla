--------------------------- MODULE TransferReport ---------------------------
(***************************************************************************)
(* What the list of outgoing transfers promises to whoever reads it,       *)
(* without requests, permits, guards, sessions at targets or files: a      *)
(* transfer is concluded once, and as sent only after it has arrived; what *)
(* runs is shown; an entry changes only when its transfer is concluded and *)
(* goes only when it is concluded; and after a restart the list says of a  *)
(* transfer what it said before, or nothing.                               *)
(* OutgoingSend is shown to implement this.                                *)
(***************************************************************************)
CONSTANT Transfer

VARIABLES stage,    \* how far each transfer is, and how it was concluded
          arrived,  \* those whose files are all at the target
          list,     \* [Transfer, status] pairs that are shown
          kept      \* those whose end is on record

reportVars == <<stage, arrived, list, kept>>

Verdict == {"Completed", "Failed"}

Running == {x \in Transfer : stage[x] = "Running"}

ReportInit ==
  /\ stage = [x \in Transfer |-> "New"]
  /\ arrived = {} /\ list = {} /\ kept = {}

\* At most one concluded entry makes room for that of x.
Begin(x) ==
  /\ stage[x] = "New"
  /\ stage' = [stage EXCEPT ![x] = "Running"]
  /\ \E gone \in {{}} \union {{entry} : entry \in {e \in list : e[2] \in Verdict}} :
       list' = (list \ gone) \union {<<x, "Open">>}
  /\ UNCHANGED <<arrived, kept>>

Arrive(x) ==
  /\ stage[x] = "Running"
  /\ x \notin arrived
  /\ arrived' = arrived \union {x}
  /\ UNCHANGED <<stage, list, kept>>

\* An answer may be lost, or the record of the end refused.
Conclude(x, verdict) ==
  /\ stage[x] = "Running"
  /\ <<x, "Open">> \in list
  /\ verdict = "Completed" => x \in arrived
  /\ stage' = [stage EXCEPT ![x] = verdict]
  /\ list' = (list \ {<<x, "Open">>}) \union {<<x, verdict>>}
  /\ kept' \in {kept, kept \union {x}}
  /\ UNCHANGED arrived

\* Nobody will conclude them any more: they stay open in the list.
Lose ==
  /\ UNCHANGED <<arrived, list, kept>>
  /\ \E lost \in SUBSET Running :
       stage' = [x \in Transfer |-> IF x \in lost THEN "Lost" ELSE stage[x]]

Restarted ==
  /\ UNCHANGED <<arrived, kept>>
  /\ stage' = [x \in Transfer |-> IF x \in Running THEN "Lost" ELSE stage[x]]
  /\ \E restored \in SUBSET kept : list' = {<<x, stage[x]>> : x \in restored}

ReportNext ==
  \/ Lose
  \/ Restarted
  \/ \E x \in Transfer : Begin(x) \/ Arrive(x) \/ \E verdict \in Verdict : Conclude(x, verdict)

ReportSpec == ReportInit /\ [][ReportNext]_reportVars
=============================================================================
