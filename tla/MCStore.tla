------------------------------- MODULE MCStore ------------------------------
(* Store for TLC.  Two epochs suffice: the predecessor is gone before the next *)
(* candidate is built.                                                         *)
EXTENDS Store
=============================================================================
