----------------------------- MODULE ShareAccess -----------------------------
(***************************************************************************)
(* What a link share promises about who may have its files, without        *)
(* handlers, requests, drop guards, PIN attempts or files on a disk: one   *)
(* share is open at a time and none opens twice; an address is let in by   *)
(* the user, or by the share's own terms; with another PIN, another share  *)
(* or a restart everybody is out again; lists and files go to those who    *)
(* are in at that very moment, and to nobody else.                         *)
(* LinkShare is shown to implement this.                                   *)
(***************************************************************************)
CONSTANTS Share, NoShare,
          Address,     \* of browsers
          Terms        \* [auto, pin]: whether all who ask are let in, and the PIN

VARIABLES open,        \* the share that is open
          past,        \* shares that have opened or never will
          terms,       \* the terms of the open share
          asking,      \* addresses the user is asked about
          admitted,    \* addresses that are let in
          given,       \* [Share, Address] pairs: to whom a list was given
          reading      \* [Address -> the share whose file is looked up for it]

accessVars == <<open, past, terms, asking, admitted, given, reading>>

NobodyIn == asking' = {} /\ admitted' = {}

AccessInit ==
  /\ open = NoShare /\ past = {}
  /\ terms \in Terms
  /\ asking = {} /\ admitted = {} /\ given = {}
  /\ reading = [a \in Address |-> NoShare]

Open(s, new) ==
  /\ s \notin past
  /\ open' = s /\ past' = past \union {s} /\ terms' = new
  /\ NobodyIn
  /\ UNCHANGED <<given, reading>>

\* The upload of a share fails.
Forgo(s) ==
  /\ s \notin past
  /\ past' = past \union {s}
  /\ UNCHANGED <<open, terms, asking, admitted, given, reading>>

Close ==
  /\ open # NoShare /\ open' = NoShare
  /\ NobodyIn
  /\ UNCHANGED <<past, terms, given, reading>>

Adjust(new) ==
  /\ open # NoShare
  /\ terms' = new
  /\ IF new.pin = terms.pin THEN UNCHANGED <<asking, admitted>> ELSE NobodyIn
  /\ UNCHANGED <<open, past, given, reading>>

\* Whoever asks anew has to be let in anew.
Ask(a) ==
  /\ open # NoShare
  /\ IF terms.auto
     THEN asking' = asking \ {a} /\ admitted' = admitted \union {a}
     ELSE asking' = asking \union {a} /\ admitted' = admitted \ {a}
  /\ UNCHANGED <<open, past, terms, given, reading>>

Admit(a) ==
  /\ a \in asking \union admitted
  /\ asking' = asking \ {a} /\ admitted' = admitted \union {a}
  /\ UNCHANGED <<open, past, terms, given, reading>>

\* By the user, or because the browser has left.
Dismiss(a) ==
  /\ a \in asking \union admitted
  /\ asking' = asking \ {a} /\ admitted' = admitted \ {a}
  /\ UNCHANGED <<open, past, terms, given, reading>>

List(a) ==
  /\ a \in admitted
  /\ given' = given \union {<<open, a>>}
  /\ UNCHANGED <<open, past, terms, asking, admitted, reading>>

\* A file is looked up for an address, and opened afterwards.
Read(a) ==
  /\ a \in admitted
  /\ reading[a] = NoShare
  /\ reading' = [reading EXCEPT ![a] = open]
  /\ UNCHANGED <<open, past, terms, asking, admitted, given>>

Finish(a) ==
  /\ reading[a] # NoShare
  /\ reading' = [reading EXCEPT ![a] = NoShare]
  /\ UNCHANGED <<open, past, terms, asking, admitted, given>>

\* The program starts again, without a share.
Restarted ==
  /\ open' = NoShare
  /\ past' \in {set \in SUBSET Share : past \subseteq set}
  /\ NobodyIn
  /\ reading' = [a \in Address |-> NoShare]
  /\ UNCHANGED <<terms, given>>

AccessNext ==
  \/ \E s \in Share : Forgo(s) \/ \E new \in Terms : Open(s, new)
  \/ \E new \in Terms : Adjust(new)
  \/ \E a \in Address : Ask(a) \/ Admit(a) \/ Dismiss(a) \/ List(a) \/ Read(a) \/ Finish(a)
  \/ Close \/ Restarted

AccessSpec == AccessInit /\ [][AccessNext]_accessVars
=============================================================================
