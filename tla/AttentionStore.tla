--------------------------- MODULE AttentionStore ---------------------------
(***************************************************************************)
(* The contents of attention.json (kernel/attention_store.py) and what its *)
(* transactions make of them.  The file belongs to one session: of each    *)
(* event a row, open or acknowledged, and the event that counts as the     *)
(* session's current one.  An event's id is made of the session, the       *)
(* reason and the occasion and of nothing else: a decision's is its        *)
(* number, a turn's the turn.                                              *)
(***************************************************************************)
EXTENDS Integers

CONSTANTS MaxAsked,  \* bound: decisions one process defers
          Turns,     \* the turns that end
          NoEvent

Decisions == 1 .. MaxAsked
Events == Decisions \cup Turns

ASSUME StoreAssumption == MaxAsked \in Nat /\ NoEvent \notin Events /\ Turns \cap Int = {}

Stores == [row : [Events -> {"none", "open", "acked"}], current : Events \cup {NoEvent}]
Empty == [row |-> [e \in Events |-> "none"], current |-> NoEvent]

IsNew(s, e) == s.row[e] = "none"

\* record, and what a center that cannot use the file does in memory.
Recorded(s, e) == IF IsNew(s, e) THEN [row |-> [s.row EXCEPT ![e] = "open"], current |-> e] ELSE s

\* What there is to acknowledge: only the current event counts.
Ackable(s) == IF s.current # NoEvent /\ s.row[s.current] = "open" THEN s.current ELSE NoEvent
Acknowledged(s) == IF Ackable(s) = NoEvent THEN s ELSE [s EXCEPT !.row[s.current] = "acked"]
=============================================================================
