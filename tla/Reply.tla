------------------------------- MODULE Reply -------------------------------
(***************************************************************************)
(* A reply to a notification, sent from another device                     *)
(* (kernel/ambient/reply.py).  Every process that has the session open     *)
(* listens (kernel/ambient/reply_listener.py) and runs ReplyChannel.accept *)
(* in a thread for each request; the threads share, over all processes,    *)
(* the ring of nonces, the table of correlations and attention.json, each  *)
(* written under its own lock.  The questions are those of one process:    *)
(* its NeedsYouQueue counts them from 1.                                   *)
(*                                                                         *)
(* An envelope is signed and has a nonce of its own, and may be delivered  *)
(* any number of times to any listener.  No correlation has a handoff in   *)
(* this program, so the branch that claims one is left out.                *)
(***************************************************************************)
EXTENDS AttentionStore, SequencesExt

CONSTANTS Procs,     \* runs of the program on the session
          Handlers,  \* threads that serve a request
          Envelopes, \* replies
          MaxNonces  \* MAX_NONCES

ASSUME ReplyAssumption == MaxNonces \in Nat \ {0}

VARIABLES
  store,    \* attention.json
  up,       \* where each process is: it listens while it is up
  queue,    \* of each process, what became of its questions
  bound,    \* the correlation table: events it knows
  about,    \* the event each envelope replies to, once it is sent
  fresh,    \* envelopes sent less than DEFAULT_FRESHNESS ago
  revoked,  \* the device has been revoked
  ring,     \* ReplyDeliveryStore: the nonces kept
  outcomes, \* ReplyDeliveryStore: envelopes whose outcome was recorded, its limit left out
  handler,  \* the threads
  answers,  \* history: questions each envelope has answered
  pushed,   \* history: envelopes that could still pass when the ring forgot them
  looked,   \* history: events acknowledged at a terminal
  cut,      \* history: envelopes whose thread was killed
  asker     \* history: the process whose question an event stands for

session == <<store, bound, up, queue, looked, asker>>
device == <<about, fresh, revoked>>
ledger == <<ring, outcomes, pushed>>
vars == <<session, device, ledger, handler, answers, cut>>

None == 0
Idle == [st |-> "idle"]
Threads == {Idle}
      \cup [st : {"reserve", "submit"}, e : Envelopes, p : Procs]
      \cup [st : {"record", "load"}, e : Envelopes, p : Procs, ok : BOOLEAN]
      \cup [st : {"save"}, e : Envelopes, p : Procs, read : Stores]

TypeOK ==
  /\ store \in Stores /\ bound \subseteq Decisions /\ looked \subseteq Events
  /\ asker \in [Decisions -> Procs \cup {NoEvent}]
  /\ up \in [Procs -> {"new", "up", "closed", "gone"}]
  /\ queue \in [Procs -> [Decisions -> {"none", "pending", "answered"}]]
  /\ about \in [Envelopes -> Decisions \cup {None}]
  /\ fresh \subseteq Envelopes /\ revoked \in BOOLEAN
  /\ ring \in Seq(Envelopes) /\ IsInjective(ring) /\ Len(ring) <= MaxNonces
  /\ outcomes \cup pushed \cup cut \subseteq Envelopes /\ answers \in [Envelopes -> Nat]
  /\ handler \in [Handlers -> Threads]
  /\ \A h \in Handlers : handler[h] # Idle =>
       up[handler[h].p] \in {"up", "closed"} /\ about[handler[h].e] # None

Init ==
  /\ store = Empty /\ up = [p \in Procs |-> "new"]
  /\ queue = [p \in Procs |-> [d \in Decisions |-> "none"]]
  /\ bound = {} /\ about = [e \in Envelopes |-> None] /\ fresh = {} /\ revoked = FALSE
  /\ ring = << >> /\ outcomes = {} /\ handler = [h \in Handlers |-> Idle]
  /\ answers = [e \in Envelopes |-> 0] /\ pushed = {} /\ looked = {} /\ cut = {}
  /\ asker = [d \in Decisions |-> NoEvent]

-----------------------------------------------------------------------------
(* The session, its interface and the device *)

Start(p) ==
  /\ up[p] = "new" /\ up' = [up EXCEPT ![p] = "up"]
  /\ UNCHANGED <<store, bound, queue, looked, asker, device, ledger, handler, answers, cut>>

\* A question is parked and noted: a new row is bound to its decision.
Ask(p, d) ==
  /\ up[p] = "up" /\ queue[p][d] = "none" /\ \A c \in 1 .. d - 1 : queue[p][c] # "none"
  /\ queue' = [queue EXCEPT ![p][d] = "pending"]
  /\ store' = Recorded(store, d)
  /\ IF IsNew(store, d) THEN bound' = bound \cup {d} /\ asker' = [asker EXCEPT ![d] = p]
     ELSE UNCHANGED <<bound, asker>>
  /\ UNCHANGED <<up, looked, device, ledger, handler, answers, cut>>

\* What the user does at a terminal acknowledges the current event.
LookedAt == /\ store' = Acknowledged(store)
            /\ looked' = looked \cup ({Ackable(store)} \ {NoEvent})

AnswerHere(p, d) ==
  /\ up[p] = "up" /\ queue[p][d] = "pending"
  /\ queue' = [queue EXCEPT ![p][d] = "answered"] /\ LookedAt
  /\ UNCHANGED <<up, bound, asker, device, ledger, handler, answers, cut>>

Look(p) ==
  /\ up[p] = "up" /\ Ackable(store) # NoEvent /\ LookedAt
  /\ UNCHANGED <<up, queue, bound, asker, device, ledger, handler, answers, cut>>

\* No request is taken any more; the threads at work are not waited for.
Close(p) ==
  /\ up[p] = "up" /\ up' = [up EXCEPT ![p] = "closed"]
  /\ UNCHANGED <<store, bound, queue, looked, asker, device, ledger, handler, answers, cut>>

\* The process ends, of itself or not, and its threads with it.
Exit(p) ==
  /\ up[p] \in {"up", "closed"} /\ up' = [up EXCEPT ![p] = "gone"]
  /\ LET killed == {h \in Handlers : handler[h] # Idle /\ handler[h].p = p} IN
     /\ handler' = [h \in Handlers |-> IF h \in killed THEN Idle ELSE handler[h]]
     /\ cut' = cut \cup {handler[h].e : h \in killed}
  /\ UNCHANGED <<store, bound, queue, looked, asker, device, ledger, answers>>

\* The user replies to a notification.
Sign(e, d) ==
  /\ about[e] = None /\ ~revoked /\ store.row[d] # "none"
  /\ about' = [about EXCEPT ![e] = d] /\ fresh' = fresh \cup {e}
  /\ UNCHANGED <<revoked, session, ledger, handler, answers, cut>>

Age(e) == /\ e \in fresh /\ fresh' = fresh \ {e}
          /\ UNCHANGED <<about, revoked, session, ledger, handler, answers, cut>>

Revoke == /\ ~revoked /\ revoked' = TRUE
          /\ UNCHANGED <<about, fresh, session, ledger, handler, answers, cut>>

-----------------------------------------------------------------------------
(* accept *)

At(h, s) == handler[h].st = s
Goes(h, s) == handler' = [handler EXCEPT ![h].st = s]
Ends(h) == handler' = [handler EXCEPT ![h] = Idle]

\* Mutant: how old the envelope is does not matter.
PassesOld(e) == ~revoked /\ e \notin Range(ring)

\* verify: the device, the signature, the age and the nonce.
Passes(e) == ~revoked /\ e \in fresh /\ e \notin Range(ring)

\* A request that is not turned away at once: it verifies and its event is known.
Deliver(h, e, p) ==
  /\ handler[h] = Idle /\ up[p] = "up" /\ about[e] \in bound /\ Passes(e)
  /\ handler' = [handler EXCEPT ![h] = [st |-> "reserve", e |-> e, p |-> p]]
  /\ UNCHANGED <<session, device, ledger, answers, cut>>

\* The ring after a nonce was put into it: the oldest goes when it is full.
Put(r, e) ==
  LET kept == Append(r, e) IN SubSeq(kept, 1 + (IF Len(kept) > MaxNonces THEN 1 ELSE 0), Len(kept))

\* reserve: of several threads that verified one envelope, one goes on.
Reserve(h) ==
  /\ At(h, "reserve")
  /\ LET e == handler[h].e IN
     IF e \in Range(ring) THEN Ends(h) /\ UNCHANGED <<ring, pushed>>
     ELSE /\ ring' = Put(ring, e)
          /\ pushed' = pushed \cup {f \in Range(ring) \ Range(ring') :
                                      f \in fresh \/ \E g \in Handlers : At(g, "reserve") /\ handler[g].e = f}
          /\ Goes(h, "submit")
  /\ UNCHANGED <<session, device, outcomes, answers, cut>>

Decided(h, b) == handler' = [handler EXCEPT ![h] = [st |-> "record", e |-> @.e, p |-> @.p, ok |-> b]]

\* The device is still there, and the question of that number in this process
\* is pending.
Accepts(h) == ~revoked /\ queue[handler[h].p][about[handler[h].e]] = "pending"

\* Mutant: the notification is settled before the question is answered.
SubmitSettles(h) ==
  /\ At(h, "submit") /\ Decided(h, Accepts(h))
  /\ store' = [store EXCEPT !.row[about[handler[h].e]] = "acked"]
  /\ IF Accepts(h)
     THEN /\ queue' = [queue EXCEPT ![handler[h].p][about[handler[h].e]] = "answered"]
          /\ answers' = [answers EXCEPT ![handler[h].e] = @ + 1]
     ELSE UNCHANGED <<queue, answers>>
  /\ UNCHANGED <<bound, up, looked, asker, device, ledger, cut>>

\* Mutant: what is refused is left without an outcome.
SubmitQuietly(h) ==
  /\ At(h, "submit")
  /\ IF Accepts(h)
     THEN /\ queue' = [queue EXCEPT ![handler[h].p][about[handler[h].e]] = "answered"]
          /\ answers' = [answers EXCEPT ![handler[h].e] = @ + 1] /\ Decided(h, TRUE)
     ELSE Ends(h) /\ UNCHANGED <<queue, answers>>
  /\ UNCHANGED <<store, bound, up, looked, asker, device, ledger, cut>>

\* principal_for and submit_reply.
Submit(h) ==
  /\ At(h, "submit") /\ Decided(h, Accepts(h))
  /\ IF Accepts(h)
     THEN /\ queue' = [queue EXCEPT ![handler[h].p][about[handler[h].e]] = "answered"]
          /\ answers' = [answers EXCEPT ![handler[h].e] = @ + 1]
     ELSE UNCHANGED <<queue, answers>>
  /\ UNCHANGED <<store, bound, up, looked, asker, device, ledger, cut>>

Record(h) ==
  /\ At(h, "record") /\ outcomes' = outcomes \cup {handler[h].e}
  /\ IF handler[h].ok THEN Goes(h, "load") ELSE Ends(h)
  /\ UNCHANGED <<session, device, ring, pushed, answers, cut>>

\* _acknowledge_attention: the file is read without its lock ...
Load(h) ==
  /\ At(h, "load")
  /\ IF store.row[about[handler[h].e]] # "open" THEN Ends(h)
     ELSE handler' = [handler EXCEPT ![h] = [st |-> "save", e |-> @.e, p |-> @.p, read |-> store]]
  /\ UNCHANGED <<session, device, ledger, answers, cut>>

\* ... and replaced, if the lock is to be had, by what was read.
Save(h) ==
  /\ At(h, "save") /\ Ends(h)
  /\ LET d == about[handler[h].e]  s == handler[h].read IN
     store' \in {store, [row |-> [s.row EXCEPT ![d] = "acked"],
                         current |-> IF s.current = NoEvent THEN d ELSE s.current]}
  /\ UNCHANGED <<bound, up, queue, looked, asker, device, ledger, answers, cut>>

Serve(h) == Reserve(h) \/ Submit(h) \/ Record(h) \/ Load(h) \/ Save(h)

-----------------------------------------------------------------------------
Next ==
  \/ \E p \in Procs : Start(p) \/ Look(p) \/ Close(p) \/ Exit(p)
  \/ \E p \in Procs, d \in Decisions : Ask(p, d) \/ AnswerHere(p, d)
  \/ \E e \in Envelopes : Age(e) \/ \E d \in Decisions : Sign(e, d)
  \/ Revoke
  \/ \E h \in Handlers : Serve(h) \/ \E e \in Envelopes, p \in Procs : Deliver(h, e, p)

Spec == Init /\ [][Next]_vars

-----------------------------------------------------------------------------
(* Properties *)

\* However often it is delivered, to whichever process and over any restart, an
\* envelope answers one question at most; only the nonces the ring has forgotten
\* too early may be used again (reserve, verify).
EnvelopeOnce == \A e \in Envelopes : e \notin pushed => answers[e] <= 1

\* "Only then is the attention record acknowledged, so a transport/queue failure
\* never makes an unanswered question disappear": a row is acknowledged because
\* the user looked, or because a reply to it has answered a question.
NothingDisappears ==
  \A d \in Decisions : store.row[d] = "acked" =>
    d \in looked \/ \E e \in Envelopes : about[e] = d /\ answers[e] > 0

\* "operational evidence needs to know whether a nonce/event was delivered": a
\* nonce that is spent has an outcome, or a thread still to decide it, or one that
\* ended with its process.
OutcomeRecorded ==
  \A e \in Range(ring) :
    e \in outcomes \cup cut \/ \E h \in Handlers : handler[h].st \in {"submit", "record"} /\ handler[h].e = e

\* "an acknowledgement cannot move backward when a stale writer arrives later".
AcksMonotonic ==
  [][\A d \in Decisions : /\ store.row[d] = "acked" => store'.row[d] = "acked"
                          /\ store.row[d] = "open" => store'.row[d] # "none"]_store

\* A reply answers "the exact pending clarification" its notification was about.
ReachesItsQuestion ==
  [][\A h \in Handlers : At(h, "submit") /\ answers' # answers
       /\ handler'[h] # handler[h] => asker[about[handler[h].e]] = handler[h].p]_vars
=============================================================================
