---------------------------- MODULE SessionSlot ----------------------------
(***************************************************************************)
(* What the LocalSend v2 server promises about its single upload session   *)
(* slot, without handlers, guards, tasks or channels: one session at a     *)
(* time holds the slot, it is promoted only by itself, it is released      *)
(* only while it holds the slot, and a session identifier never returns.   *)
(* UploadServer is shown to implement this.                                *)
(***************************************************************************)
CONSTANTS Session,     \* session identifiers (one fresh UUID per request)
          NoSession    \* the identifier of a free slot

VARIABLES slot,        \* [phase, id]: who holds the slot, and how far it is
          past         \* the sessions that have ever claimed it

slotVars == <<slot, past>>

Free       == [phase |-> "Free", id |-> NoSession]
Pending(s) == [phase |-> "Pending", id |-> s]
Active(s)  == [phase |-> "Active", id |-> s]

SlotInit == slot = Free /\ past = {}

Claim(s) ==
  /\ slot = Free
  /\ s \notin past
  /\ slot' = Pending(s)
  /\ past' = past \union {s}

Promote(s) ==
  /\ slot = Pending(s)
  /\ slot' = Active(s)
  /\ UNCHANGED past

Release(s) ==
  /\ slot \in {Pending(s), Active(s)}
  /\ slot' = Free
  /\ UNCHANGED past

SlotNext == \E s \in Session : Claim(s) \/ Promote(s) \/ Release(s)

SlotSpec == SlotInit /\ [][SlotNext]_slotVars
=============================================================================
