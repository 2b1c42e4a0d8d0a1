----------------------------- MODULE MCLiveMCP -----------------------------
(* LiveMCP with one server of the boot and two more: the least with a       *)
(* command on each side of a name somebody has mounted.                     *)
EXTENDS LiveMCP, TLC

CONSTANTS boot, docs, files, t0, t1, t2

MCBootOwner == (t0 :> boot) @@ (t1 :> NoServer) @@ (t2 :> NoServer)
MCHidden == [t \in Tools |-> NoServer]
MCOffers == {<<t1>>, <<t1, t2>>, <<t2, t0>>}
MCSymmetry == Permutations({docs, files}) \cup Permutations(Specs)

=============================================================================
