----------------------------- MODULE Attention -----------------------------
(***************************************************************************)
(* How the user is told that he is needed: the centers of the processes    *)
(* that have the session open (ui/notifications.py), the file they share   *)
(* (AttentionStore), and each one's off-machine destination                *)
(* (kernel/attention_push.py), whose worker sends one request at a time.   *)
(*                                                                         *)
(* A center lives on the interface's thread, which runs one handler after  *)
(* the other; what it publishes is emitted by tasks of the runtime's loop, *)
(* which the hooks of others may hold up, so that one overtakes another.   *)
(* The other writer of the file is in Reply.                               *)
(***************************************************************************)
EXTENDS AttentionStore, SequencesExt

CONSTANTS Procs,      \* runs of the program on the session
          Together,   \* whether two of them may run at the same time
          Pushing,    \* those of them that have a destination off the machine
          QueueLimit, \* _QUEUE_LIMIT
          MaxMisses   \* bound: times the file's lock is not to be had

ASSUME AttentionAssumption == Together \in BOOLEAN /\ Pushing \subseteq Procs /\ QueueLimit \in Nat \ {0} /\ MaxMisses \in Nat

VARIABLES
  store,     \* attention.json
  up,        \* where each process is
  asked,     \* NeedsYouQueue._next_id - 1: it starts afresh in each process
  ended,     \* turns that have ended
  center,    \* AttentionCenter._by_id and _current
  telling,   \* the new event whose handler goes on to the ladder
  emitting,  \* tasks that emit to the hooks
  push,      \* NtfyAttentionDestination
  misses,
  noted, rang,  \* history: events each process has noted, times it rang for one
  acked, sent,  \* history: events it acknowledged, events whose clear it sent
  cut        \* history: events whose process was killed before it rang

machine == <<store, up, asked, ended, center, telling, misses>>
remote == <<emitting, push>>
history == <<noted, rang, acked, sent, cut>>
vars == <<machine, remote, history>>

Idle == [op |-> "none", event |-> NoEvent]
Deliveries == [op : {"publish", "clear"}, event : Events]
NoPush == [pending |-> << >>, clears |-> << >>, cleared |-> {}, inflight |-> Idle, closed |-> FALSE]

Pushes == [pending : Seq(Events), clears : Seq(Events), cleared : SUBSET Events,
           inflight : Deliveries \cup {Idle}, closed : BOOLEAN]

TypeOK ==
  /\ store \in Stores /\ center \in [Procs -> Stores]
  /\ up \in [Procs -> {"new", "up", "gone"}] /\ asked \in [Procs -> 0 .. MaxAsked]
  /\ ended \subseteq Turns /\ telling \in [Procs -> Events \cup {NoEvent}]
  /\ emitting \in [Procs -> SUBSET Deliveries] /\ push \in [Procs -> Pushes]
  /\ \A p \in Procs : Len(push[p].pending) <= QueueLimit /\ IsInjective(push[p].clears)
  /\ misses \in 0 .. MaxMisses
  /\ noted \in [Procs -> SUBSET Events] /\ rang \in [Procs -> [Events -> Nat]]
  /\ {acked, sent} \subseteq [Procs -> SUBSET Events] /\ cut \subseteq Events

Init ==
  /\ store = Empty /\ up = [p \in Procs |-> "new"] /\ asked = [p \in Procs |-> 0]
  /\ ended = {} /\ center = [p \in Procs |-> Empty] /\ telling = [p \in Procs |-> NoEvent]
  /\ emitting = [p \in Procs |-> {}] /\ push = [p \in Procs |-> NoPush]
  /\ misses = 0
  /\ noted = [p \in Procs |-> {}] /\ rang = [p \in Procs |-> [e \in Events |-> 0]]
  /\ acked = [p \in Procs |-> {}] /\ sent = [p \in Procs |-> {}] /\ cut = {}

-----------------------------------------------------------------------------
(* The interface *)

\* The center is bound to the file when the process has booted.
Start(p) ==
  /\ up[p] = "new" /\ (Together \/ \A q \in Procs : up[q] # "up")
  /\ up' = [up EXCEPT ![p] = "up"] /\ center' = [center EXCEPT ![p] = store]
  /\ UNCHANGED <<store, asked, ended, telling, misses, remote, history>>

\* The interface of p runs no handler.
AtRest(p) == up[p] = "up" /\ telling[p] = NoEvent

\* A transaction of the center, on the file and the center's copy becoming the
\* file's; or, where another has or left the lock, on the copy alone.
Transact(p, ofFile, ofCopy) ==
  \/ /\ store' = ofFile /\ center' = [center EXCEPT ![p] = ofFile] /\ UNCHANGED misses
  \/ /\ misses < MaxMisses /\ misses' = misses + 1 /\ \E q \in Procs \ {p} : up[q] # "new"
     /\ center' = [center EXCEPT ![p] = ofCopy] /\ UNCHANGED store

\* Mutant: the center trusts its copy.
NoteFromCopy(p, e) ==
  /\ Transact(p, Recorded(store, e), Recorded(center[p], e))
  /\ telling' = [telling EXCEPT ![p] = IF IsNew(center[p], e) THEN e ELSE NoEvent]
  /\ noted' = [noted EXCEPT ![p] = @ \cup {e}]

\* note: the transition is told of by whoever put it into the file.
Note(p, e) ==
  /\ Transact(p, Recorded(store, e), Recorded(center[p], e))
  /\ telling' = [telling EXCEPT ![p] = IF IsNew(IF misses' = misses THEN store ELSE center[p], e)
                                       THEN e ELSE NoEvent]
  /\ noted' = [noted EXCEPT ![p] = @ \cup {e}]

\* The runtime parks a decision under the next number.
Defer(p) ==
  /\ up[p] = "up" /\ asked[p] < MaxAsked
  /\ asked' = [asked EXCEPT ![p] = @ + 1]
  /\ UNCHANGED <<store, up, ended, center, telling, misses, remote, history>>

\* The interface is told of it, and again for every call that depends on it.
DecisionDeferred(p, d) ==
  /\ AtRest(p) /\ d <= asked[p] /\ Note(p, d)
  /\ UNCHANGED <<up, asked, ended, remote, rang, acked, sent, cut>>

TurnFinished(p, t) ==
  /\ AtRest(p) /\ t \notin ended /\ ended' = ended \cup {t} /\ Note(p, t)
  /\ UNCHANGED <<up, asked, remote, rang, acked, sent, cut>>

\* publish_attention, publish_attention_acknowledged: nobody else listens to it.
Publish(p, m) == emitting' = IF p \in Pushing THEN [emitting EXCEPT ![p] = @ \cup {m}] ELSE emitting

\* The ladder, and the event for the destination.
NotifyAttention(p) ==
  /\ up[p] = "up" /\ telling[p] # NoEvent
  /\ rang' = [rang EXCEPT ![p][telling[p]] = @ + 1]
  /\ Publish(p, [op |-> "publish", event |-> telling[p]])
  /\ telling' = [telling EXCEPT ![p] = NoEvent]
  /\ UNCHANGED <<store, up, asked, ended, center, misses, push, noted, acked, sent, cut>>

\* The user answers a decision, or looks at the window.
Acknowledge(p) ==
  /\ AtRest(p) /\ Transact(p, Acknowledged(store), Acknowledged(center[p]))
  /\ LET e == Ackable(IF misses' = misses THEN store ELSE center[p]) IN
     IF e = NoEvent THEN UNCHANGED <<emitting, acked>>
     ELSE /\ Publish(p, [op |-> "clear", event |-> e])
          /\ acked' = [acked EXCEPT ![p] = @ \cup {e}]
  /\ UNCHANGED <<up, asked, ended, telling, push, noted, rang, sent, cut>>

-----------------------------------------------------------------------------
(* The destination *)

Queued(s, e) == e \in Range(s)
Without(s, e) == FlattenSeq([i \in DOMAIN s |-> IF s[i] = e THEN << >> ELSE <<s[i]>>])

\* Mutant: a publish that comes late is queued all the same.
EnqueueLate(q, m) ==
  IF m.op = "clear"
  THEN [q EXCEPT !.cleared = @ \cup {m.event},
                 !.pending = Without(@, m.event),
                 !.clears = IF Queued(@, m.event) THEN @ ELSE Append(@, m.event)]
  ELSE IF q.closed \/ Len(q.pending) >= QueueLimit THEN q
  ELSE [q EXCEPT !.pending = Append(@, m.event)]

\* Mutant: one limit for both.
EnqueueOneLane(q, m) ==
  IF q.closed \/ Len(q.pending) + Len(q.clears) >= QueueLimit THEN q
  ELSE IF m.op = "clear"
  THEN [q EXCEPT !.cleared = @ \cup {m.event},
                 !.pending = Without(@, m.event),
                 !.clears = IF Queued(@, m.event) THEN @ ELSE Append(@, m.event)]
  ELSE IF m.event \in q.cleared THEN q
  ELSE [q EXCEPT !.pending = Append(@, m.event)]

\* _enqueue: a clear is final and never dropped; a publish may be.
Enqueue(q, m) ==
  IF q.closed THEN q
  ELSE IF m.op = "clear"
  THEN [q EXCEPT !.cleared = @ \cup {m.event},
                 !.pending = Without(@, m.event),
                 !.clears = IF Queued(@, m.event) THEN @ ELSE Append(@, m.event)]
  ELSE IF m.event \in q.cleared \/ Len(q.pending) >= QueueLimit THEN q
  ELSE [q EXCEPT !.pending = Append(@, m.event)]

Emit(p, m) ==
  /\ up[p] = "up" /\ m \in emitting[p]
  /\ emitting' = [emitting EXCEPT ![p] = @ \ {m}]
  /\ push' = [push EXCEPT ![p] = Enqueue(@, m)]
  /\ UNCHANGED <<machine, history>>

\* _run: clears first.
Send(p) ==
  /\ up[p] = "up" /\ push[p].inflight = Idle
  /\ \/ /\ push[p].clears # << >>
        /\ push' = [push EXCEPT ![p].clears = Tail(@),
                                ![p].inflight = [op |-> "clear", event |-> Head(push[p].clears)]]
        /\ sent' = [sent EXCEPT ![p] = @ \cup {Head(push[p].clears)}]
     \/ /\ push[p].clears = << >> /\ push[p].pending # << >>
        /\ push' = [push EXCEPT ![p].pending = Tail(@),
                                ![p].inflight = [op |-> "publish", event |-> Head(push[p].pending)]]
        /\ UNCHANGED sent
  /\ UNCHANGED <<machine, emitting, noted, rang, acked, cut>>

\* The request is answered or not, which the worker takes alike.
Land(p) ==
  /\ push[p].inflight # Idle /\ push' = [push EXCEPT ![p].inflight = Idle]
  /\ UNCHANGED <<machine, emitting, history>>

\* cleanup: nothing more is taken in, what is queued has a second.
Close(p) ==
  /\ p \in Pushing /\ up[p] = "up" /\ telling[p] = NoEvent /\ ~push[p].closed
  /\ push' = [push EXCEPT ![p].closed = TRUE]
  /\ UNCHANGED <<machine, emitting, history>>

\* The process ends, of itself or not.
Exit(p) ==
  /\ up[p] = "up"
  /\ up' = [up EXCEPT ![p] = "gone"] /\ cut' = cut \cup ({telling[p]} \ {NoEvent})
  /\ telling' = [telling EXCEPT ![p] = NoEvent]
  /\ emitting' = [emitting EXCEPT ![p] = {}]
  /\ push' = [push EXCEPT ![p] = NoPush]
  /\ UNCHANGED <<store, asked, ended, center, misses, noted, rang, acked, sent>>

-----------------------------------------------------------------------------
Next == \E p \in Procs :
  \/ Start(p) \/ Defer(p) \/ NotifyAttention(p) \/ Acknowledge(p)
  \/ (\E d \in Decisions : DecisionDeferred(p, d)) \/ (\E t \in Turns : TurnFinished(p, t))
  \/ (\E m \in Deliveries : Emit(p, m)) \/ Send(p) \/ Land(p) \/ Close(p) \/ Exit(p)

\* The event loop runs its tasks, and a request has a timeout.
Spec == /\ Init /\ [][Next]_vars
        /\ \A p \in Procs : /\ \A m \in Deliveries : WF_vars(Emit(p, m))
                            /\ WF_vars(Send(p)) /\ WF_vars(Land(p))

-----------------------------------------------------------------------------
(* Properties *)

Told(e) == e \notin {telling[p] : p \in Procs}

\* However many processes have the session open and however often they hear of
\* it: as long as they get at the file, a transition is told of once; at least
\* once even if they do not, unless the process is killed in between.
NotifiedOnce ==
  \A e \in UNION {noted[p] : p \in Procs} : Told(e) =>
    /\ e \notin cut => \E p \in Procs : rang[p][e] > 0
    /\ misses = 0 => \A p, q \in Procs :
         rang[p][e] > 0 /\ rang[q][e] > 0 => p = q /\ rang[p][e] = 1

\* "a stale attention:recorded event cannot resurrect a cleared notification":
\* no process publishes what it has cleared, in whatever order the tasks run.
NoResurrection ==
  [][\A p \in Procs : push'[p].inflight.op = "publish" /\ push[p].inflight = Idle
       => push'[p].inflight.event \notin sent[p]]_vars

\* "Distinct clears are retained even when the publish FIFO is saturated": what a
\* process acknowledges it clears, if it is not closed first.
ClearsSent ==
  \A p \in Pushing : \A e \in Events :
    e \in acked[p] ~> (e \in sent[p] \/ up[p] # "up" \/ push[p].closed)

\* "minted exactly once when the app transitions into needing you": a process that
\* is told of a new decision tells the user.
NewQuestionNotifies ==
  \A p \in Procs : \A d \in noted[p] \cap Decisions :
    Told(d) /\ d \notin cut /\ misses = 0 => rang[p][d] = 1
=============================================================================
