------------------------------ MODULE MCReceiver ------------------------------
(***************************************************************************)
(* Instances of Receiver for TLC.                                          *)
(***************************************************************************)
EXTENDS Receiver

CONSTANTS s1, s2, p1, p2, f1, f2

\* One sender per request.
Senders == [s \in Session |-> IF s = s1 THEN p1 ELSE p2]

\* The first request offers every file, the other one file.
Offers == [s \in Session |-> IF s = s1 THEN File ELSE {f1}]

\* Requests of one sender that offer one file each are interchangeable.
OneSender == [s \in Session |-> p1]
Requests  == Permutations(Session)
=============================================================================
