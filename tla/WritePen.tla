------------------------------ MODULE WritePen ------------------------------
(***************************************************************************)
(* What the session control plane promises, and nothing about how: there   *)
(* is one pen.  Every grant mints a newer token, a token that lost the pen *)
(* never gets it back, and a write is served only under the token that     *)
(* holds the pen at that moment (or freely, while nobody holds it), and    *)
(* never while the session is parked.  SessionControl implements this with *)
(* leases, time, precedence and handoffs.                                  *)
(***************************************************************************)
EXTENDS Integers

VARIABLES pen,     \* the token that holds the pen, or 0
          minted,  \* the newest token handed out
          parked,  \* nobody may write until somebody lifts it
          served   \* the token of the last write served (0: a free write)

vars == <<pen, minted, parked, served>>

Init == pen = 0 /\ minted = 0 /\ parked = FALSE /\ served = 0

\* A new holder, whoever held the pen before.  The grant may lift a park.
Grant ==
  /\ minted' = minted + 1
  /\ pen' = minted + 1
  /\ parked' \in {parked, FALSE}
  /\ UNCHANGED served

\* The holder gives the pen up, or its time runs out.
Drop == pen # 0 /\ pen' = 0 /\ UNCHANGED <<minted, parked, served>>

Park == pen' = 0 /\ parked' = TRUE /\ UNCHANGED <<minted, served>>

Unpark == parked /\ parked' = FALSE /\ UNCHANGED <<pen, minted, served>>

Serve == ~parked /\ served' = pen /\ UNCHANGED <<pen, minted, parked>>

Next == Grant \/ Drop \/ Park \/ Unpark \/ Serve

Spec == Init /\ [][Next]_vars

=============================================================================
