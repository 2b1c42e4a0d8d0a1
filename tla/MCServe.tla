------------------------------ MODULE MCServe ------------------------------
(* Serve with a keyed submit and a keyed control operation: each retried,   *)
(* and the two enough to push each other out of a ring of one.              *)
EXTENDS Serve, TLC

CONSTANTS k1, k2

MCKindOf == (k1 :> "submit") @@ (k2 :> "control")

=============================================================================
