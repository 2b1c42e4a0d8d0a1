----------------------------- MODULE Approvals -----------------------------
(***************************************************************************)
(* Approvals: the broker's tickets (kernel/approval.py), which live on the *)
(* runtime's event loop, and the bar that asks the user (ui/app.py), which *)
(* lives on the interface's, with the adapter's callbacks between the two. *)
(*                                                                         *)
(* `ready' is the runtime loop's queue of callbacks and `messages' the     *)
(* interface's queue of messages; each runs its head to the end.  What the *)
(* user presses is queued like everything else, so that it may be looked   *)
(* at when the bar it was meant for is gone.  A ticket that is due wakes   *)
(* its asker like an answer does; the asker runs later.                    *)
(***************************************************************************)
EXTENDS Integers, FiniteSetsExt, SequencesExt

CONSTANTS Asks,         \* the calls of request_approval
          NoAsk,
          MaxPresses,   \* bound: keys pressed on the bar
          MaxModes      \* bound: switches of the posture to auto and back

ASSUME ApprovalAssumption == NoAsk \notin Asks /\ {MaxPresses, MaxModes} \subseteq Nat

VARIABLES
  ask,        \* each call: its ticket's future, whether it is due, its outcome
  tickets,    \* ApprovalBroker._tickets
  ready,      \* callbacks of the runtime's loop
  presented,  \* the adapter's _presented
  messages,   \* messages of the interface
  bar,        \* the ticket of the bar on the screen
  auto,       \* the interface is in the auto posture
  presses, modes,   \* how much of the bounds is used
  denials,    \* the denial log: entries per call
  parked,     \* decisions put into the needs-you queue
  allowed,    \* history: calls the user pressed an Allow for
  refused,    \* history: calls the user pressed Deny for
  hidden,     \* history: calls whose bar was taken down by a key
  strayed     \* history: a key pressed on one bar took down another

loop == <<ask, tickets, ready, presented>>
screen == <<messages, bar, auto>>
bounds == <<presses, modes>>
records == <<denials, parked>>
history == <<allowed, refused, hidden, strayed>>
vars == <<loop, screen, bounds, records, history>>

Options == {"allow", "deny"}
Futures == {"open", "cancelled"} \cup Options
Waiting(k) == ask[k].st = "waiting"
Tickets == [st : {"new", "waiting", "done"}, fut : Futures, due : BOOLEAN,
            expired : BOOLEAN, deferred : BOOLEAN, result : {"none"} \cup Options]
Callbacks == [do : {"answer"}, ask : Asks, choice : Options]
        \cup [do : {"defer", "timer", "wake"}, ask : Asks]
Messages == [do : {"present", "mount", "deferred"}, ask : Asks]
       \cup [do : {"resolved"}, ask : Asks, choice : Options]

TypeOK ==
  /\ ask \in [Asks -> Tickets]
  /\ tickets \in Seq(Asks) /\ IsInjective(tickets)
  /\ Range(tickets) = {k \in Asks : Waiting(k)}
  /\ ready \in Seq(Callbacks) /\ messages \in Seq(Messages)
  /\ presented \in Asks \cup {NoAsk} /\ bar \in Asks \cup {NoAsk}
  /\ \A k \in Asks : Waiting(k) /\ ask[k].fut # "open" =>
       [do |-> "wake", ask |-> k] \in Range(ready)

Init ==
  /\ ask = [k \in Asks |-> [st |-> "new", fut |-> "open", due |-> FALSE, expired |-> FALSE,
                            deferred |-> FALSE, result |-> "none"]]
  /\ tickets = << >> /\ ready = << >> /\ presented = NoAsk
  /\ messages = << >> /\ bar = NoAsk /\ auto = FALSE
  /\ presses = 0 /\ modes = 0
  /\ denials = [k \in Asks |-> 0] /\ parked = {}
  /\ allowed = {} /\ refused = {} /\ hidden = {} /\ strayed = FALSE

-----------------------------------------------------------------------------
(* The runtime's loop *)

\* The oldest ticket that is still open.
OpenAt(q, a) == {i \in DOMAIN q : ~a[q[i]].deferred /\ a[q[i]].fut = "open"}
HeadOf(q, a) == IF OpenAt(q, a) = {} THEN NoAsk ELSE q[Min(OpenAt(q, a))]

\* Every change of the queue is told to the adapter, which presents a new head.
Notified ==
  LET head == HeadOf(tickets', ask') IN
  /\ presented' = head
  /\ messages' = IF head # NoAsk /\ head # presented
                 THEN Append(messages, [do |-> "present", ask |-> head]) ELSE messages

Request(k) ==
  /\ ask[k].st = "new"
  /\ ask' = [ask EXCEPT ![k].st = "waiting"]
  /\ tickets' = Append(tickets, k)
  /\ Notified
  /\ UNCHANGED <<ready, bar, auto, bounds, records, history>>

\* The asker's timeout is due.
Due(k) ==
  /\ Waiting(k) /\ ~ask[k].due
  /\ ask' = [ask EXCEPT ![k].due = TRUE]
  /\ ready' = Append(ready, [do |-> "timer", ask |-> k])
  /\ UNCHANGED <<tickets, presented, screen, bounds, records, history>>

Woken(k) == Append(Tail(ready), [do |-> "wake", ask |-> k])
Ran(do) == ready # << >> /\ Head(ready).do = do

\* answer(): whoever is not there any more, or has an answer, is left alone.
Answer ==
  /\ Ran("answer")
  /\ LET k == Head(ready).ask IN
     IF k \in Range(tickets) /\ ask[k].fut = "open"
     THEN ask' = [ask EXCEPT ![k].fut = Head(ready).choice] /\ ready' = Woken(k)
     ELSE ready' = Tail(ready) /\ UNCHANGED ask
  /\ UNCHANGED <<tickets, presented, screen, bounds, records, history>>

\* Mutant: the decision is parked and the call goes on waiting for it.
DeferWaiting ==
  /\ Ran("defer")
  /\ LET k == Head(ready).ask IN
     IF k \in Range(tickets) /\ ~ask[k].deferred
     THEN /\ parked' = parked \cup {k} /\ denials' = [denials EXCEPT ![k] = @ + 1]
          /\ ask' = [ask EXCEPT ![k].deferred = TRUE]
          /\ UNCHANGED tickets /\ Notified
     ELSE UNCHANGED <<ask, tickets, records, presented, messages>>
  /\ ready' = Tail(ready)
  /\ UNCHANGED <<bar, auto, bounds, history>>

\* defer(): the decision is parked if there is room, and the call denied.
Defer ==
  /\ Ran("defer")
  /\ LET k == Head(ready).ask IN
     IF k \in Range(tickets) /\ ~ask[k].deferred
     THEN /\ parked' \in {parked, parked \cup {k}}
          /\ denials' = [denials EXCEPT ![k] = @ + 1]
          /\ ask' = [ask EXCEPT ![k].deferred = TRUE, ![k].fut = IF @ = "open" THEN "deny" ELSE @]
          /\ ready' = IF ask[k].fut = "open" THEN Woken(k) ELSE Tail(ready)
          /\ UNCHANGED tickets /\ Notified
     ELSE ready' = Tail(ready) /\ UNCHANGED <<ask, tickets, records, presented, messages>>
  /\ UNCHANGED <<bar, auto, bounds, history>>

\* The timeout cancels the asker: also one that has its answer and has not run
\* yet.
Timer ==
  /\ Ran("timer")
  /\ LET k == Head(ready).ask IN
     IF Waiting(k)
     THEN /\ ask' = [ask EXCEPT ![k].expired = TRUE, ![k].fut = IF @ = "open" THEN "cancelled" ELSE @]
          /\ ready' = IF ask[k].fut = "open" THEN Woken(k) ELSE Tail(ready)
     ELSE ready' = Tail(ready) /\ UNCHANGED ask
  /\ UNCHANGED <<tickets, presented, screen, bounds, records, history>>

\* The asker goes on, with the default when it was cancelled.
Outcome(k) == IF ask[k].expired THEN "deny" ELSE ask[k].fut

\* Mutant: nobody is told that the queue has moved on.
WakeQuiet ==
  /\ Ran("wake")
  /\ LET k == Head(ready).ask IN
     /\ ask' = [ask EXCEPT ![k].st = "done", ![k].result = Outcome(k)]
     /\ denials' = IF ask[k].expired THEN [denials EXCEPT ![k] = @ + 1] ELSE denials
     /\ tickets' = RemoveFirst(tickets, k)
  /\ ready' = Tail(ready)
  /\ UNCHANGED <<presented, screen, parked, bounds, history>>

\* The asker leaves the queue and writes a timeout down.
Wake ==
  /\ Ran("wake")
  /\ LET k == Head(ready).ask IN
     /\ ask' = [ask EXCEPT ![k].st = "done", ![k].result = Outcome(k)]
     /\ denials' = IF ask[k].expired THEN [denials EXCEPT ![k] = @ + 1] ELSE denials
     /\ tickets' = RemoveFirst(tickets, k)
  /\ ready' = Tail(ready)
  /\ Notified
  /\ UNCHANGED <<bar, auto, parked, bounds, history>>

-----------------------------------------------------------------------------
(* The interface *)

Got(do) == messages # << >> /\ Head(messages).do = do
Post(c) == ready' = Append(ready, c)

\* In the auto posture nobody is asked: the decision is parked at once.
Present ==
  /\ Got("present")
  /\ LET k == Head(messages).ask IN
     IF auto THEN Post([do |-> "defer", ask |-> k]) /\ messages' = Tail(messages)
     ELSE messages' = Append(Tail(messages), [do |-> "mount", ask |-> k]) /\ UNCHANGED ready
  /\ UNCHANGED <<ask, tickets, presented, bar, auto, bounds, records, history>>

\* The bar of another ticket makes way.
Mount ==
  /\ Got("mount")
  /\ bar' = Head(messages).ask /\ messages' = Tail(messages)
  /\ UNCHANGED <<loop, auto, bounds, records, history>>

\* Whatever bar is there is taken down.
TakeDown(k) ==
  /\ bar' = NoAsk
  /\ hidden' = hidden \cup ({bar} \ {NoAsk})
  /\ strayed' = (strayed \/ bar \notin {k, NoAsk})

\* Mutant: the ticket of the bar that is there is answered.
ResolvedShown ==
  /\ Got("resolved")
  /\ TakeDown(Head(messages).ask)
  /\ IF bar = NoAsk THEN UNCHANGED ready
     ELSE Post([do |-> "answer", ask |-> bar, choice |-> Head(messages).choice])
  /\ messages' = Tail(messages)
  /\ UNCHANGED <<ask, tickets, presented, auto, bounds, records, allowed, refused>>

Resolved ==
  /\ Got("resolved")
  /\ LET m == Head(messages) IN
     /\ TakeDown(m.ask)
     /\ Post([do |-> "answer", ask |-> m.ask, choice |-> m.choice])
  /\ messages' = Tail(messages)
  /\ UNCHANGED <<ask, tickets, presented, auto, bounds, records, allowed, refused>>

Deferred ==
  /\ Got("deferred")
  /\ IF bar = NoAsk THEN UNCHANGED <<ready, bar, hidden, strayed>>
     ELSE TakeDown(Head(messages).ask) /\ Post([do |-> "defer", ask |-> Head(messages).ask])
  /\ messages' = Tail(messages)
  /\ UNCHANGED <<ask, tickets, presented, auto, bounds, records, allowed, refused>>

\* Keys on the bar: enter, escape, a click; ctrl-y.  The bar stays until the
\* message has been handled, so a second key may follow.
Press(c) ==
  /\ bar # NoAsk /\ presses < MaxPresses
  /\ presses' = presses + 1
  /\ messages' = Append(messages, [do |-> "resolved", ask |-> bar, choice |-> c])
  /\ allowed' = IF c = "allow" THEN allowed \cup {bar} ELSE allowed
  /\ refused' = IF c = "deny" THEN refused \cup {bar} ELSE refused
  /\ UNCHANGED <<loop, bar, auto, modes, records, hidden, strayed>>

PressDefer ==
  /\ bar # NoAsk /\ presses < MaxPresses
  /\ presses' = presses + 1
  /\ messages' = Append(messages, [do |-> "deferred", ask |-> bar])
  /\ UNCHANGED <<loop, bar, auto, modes, records, history>>

SwitchMode ==
  /\ modes < MaxModes
  /\ auto' = ~auto /\ modes' = modes + 1
  /\ UNCHANGED <<loop, messages, bar, presses, records, history>>

-----------------------------------------------------------------------------
Loop == Answer \/ Defer \/ Timer \/ Wake
Interface == Present \/ Mount \/ Resolved \/ Deferred
User == (\E c \in Options : Press(c)) \/ PressDefer \/ SwitchMode
Next == Loop \/ Interface \/ User \/ \E k \in Asks : Request(k) \/ Due(k)

\* Both loops run what is in their queues; nobody has to ask, to press, or to
\* wait for a timeout.
Spec == Init /\ [][Next]_vars /\ WF_vars(Loop) /\ WF_vars(Interface)

-----------------------------------------------------------------------------
(* Properties *)

\* When both queues are empty the bar shows the ticket whose turn it is, so that
\* nobody waits unseen, unless a key took down a bar it was not pressed on.
HeadShown ==
  ready = << >> /\ messages = << >> /\ ~strayed /\ HeadOf(tickets, ask) # NoAsk
    => bar = HeadOf(tickets, ask)

\* A call is let through only if the user pressed an Allow on its own bar: not
\* by a key meant for another ticket, a timeout, the queue or the posture.
AllowedOnlyByKey == \A k \in Asks : ask[k].result = "allow" => k \in allowed

\* "timeout resolves to the default (deny) and lands in the DenialLog", and so
\* does a deferral: a denial the user did not press himself is in the log.
DenialsLogged == \A k \in Asks : ask[k].result = "deny" /\ k \notin refused => denials[k] > 0

\* "Deferral must never leave the live tool call waiting": the call whose bar a
\* key has taken down goes on, whatever the user does next and without a timeout.
HiddenGoesOn == \A k \in Asks : k \in hidden ~> (ask[k].st = "done" \/ strayed)

\* The same of every bar: "hiding the bar must never leave a future waiting".
HidingNeverWaits == \A k \in Asks : k \in hidden ~> ask[k].st = "done"
=============================================================================
