-------------------------- MODULE MCSessionControl --------------------------
(* SessionControl on two people, a bot and the anonymous default: the least *)
(* that has every comparison of precedence and a force between equals.      *)
EXTENDS SessionControl

MCPerson == [id |-> "mj", kind |-> "human"]
MCOther == [id |-> "ann", kind |-> "human"]
MCBot1 == [id |-> "bot1", kind |-> "automation"]
MCBot2 == [id |-> "bot2", kind |-> "automation"]
MCAnonymous == [id |-> "anonymous", kind |-> "unknown"]
MCActors == {MCPerson, MCOther, MCBot1, MCAnonymous}
MCTwoBots == {MCPerson, MCBot1, MCBot2, MCAnonymous}

\* No ttl, and one below the minimum: between them all the code makes of one here.
MCRawTtls == {NoTtl, 0}

=============================================================================
