--------------------------- MODULE MCUploadServer ---------------------------
(***************************************************************************)
(* Instances of UploadServer for TLC.                                      *)
(***************************************************************************)
EXTENDS UploadServer, TLC

CONSTANTS s1, s2, s3, p1, p2, f1, f2

\* Requests of one sender, and with three of them one of another sender.
Senders == [s \in Session |-> IF s = s3 THEN p2 ELSE p1]

\* The second and third request offer one file, the first one every file.
Offers == [s \in Session |-> IF s = s1 THEN File ELSE {f1}]

=============================================================================
