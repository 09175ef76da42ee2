----------------------------- MODULE MCAdmission ----------------------------
(* Admission for TLC.  A client whose first command still waits in the Engine  *)
(* after its timeout sends the second, so that the two share a batch.          *)
EXTENDS Admission
=============================================================================
