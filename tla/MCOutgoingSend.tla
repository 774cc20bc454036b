---------------------------- MODULE MCOutgoingSend ----------------------------
(***************************************************************************)
(* Instances of OutgoingSend for TLC.                                      *)
(***************************************************************************)
EXTENDS OutgoingSend

CONSTANTS b1, b2, t1, t2, f1, f2

\* The first request goes to the first target, the second one to all of them.
Targets == [b \in Batch |-> IF b = b1 THEN {t1} ELSE Target]

\* Of files one or all are accepted, which may be too many; of a text, the text.
Answers == [b \in Batch |-> IF b \in Text THEN {{TextUpload}} ELSE {{f1}, File}]
=============================================================================
