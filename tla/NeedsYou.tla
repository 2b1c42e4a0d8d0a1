------------------------------ MODULE NeedsYou ------------------------------
(***************************************************************************)
(* NeedsYou: the queue of deferred decisions (model/queues.py) and its     *)
(* users: the question tool (kernel/question.py), which waits for its      *)
(* answers or, in the auto posture, leaves them in the queue; the          *)
(* governance hook (kernel/governance_hook.py), which parks what its       *)
(* classifier refuses and denies whatever depends on it; and the bridge    *)
(* (kernel/steering.py), which gives the model the answers nobody else has *)
(* delivered.                                                              *)
(*                                                                         *)
(* The tools run as tasks of the runtime's loop (`running' has it for as   *)
(* long as it does not await); the user answers from another thread, which *)
(* tells the listeners after it has let go of the queue's lock.            *)
(***************************************************************************)
EXTENDS Integers, SequencesExt

CONSTANTS Questions,  \* calls of the question tool
          Gated,      \* calls whose tool the classifier has to allow; all of
                      \* them depend on the same key
          NoCall,
          Parts,      \* questions asked by one call
          Limit,      \* _MAX_DECISIONS
          MaxModes    \* bound: switches of the posture to auto and back

Calls == Questions \cup Gated

ASSUME NeedsYouAssumption ==
  /\ Questions \cap Gated = {} /\ NoCall \notin Calls
  /\ {Parts, Limit} \subseteq Nat \ {0} /\ MaxModes \in Nat

VARIABLES
  items,    \* NeedsYouQueue._items, and for each how often the model was told
  call,     \* each call: where its task stands, what it has noted of its items
  running,  \* the call that has the runtime's loop
  telling,  \* the user's thread has changed an item and not told anybody yet
  auto, modes

needsYouVars == <<items, call, running, telling, auto, modes>>

Stages == {"new", "begun", "asking", "listening", "woken", "judging",
           "returned", "left", "refused", "ran", "denied", "cancelled"}
InProgress(c) == call[c].st \in {"begun", "asking", "listening", "woken", "judging"}
Subscribed(c) == call[c].st \in {"listening", "woken"}
Own(c) == {i \in DOMAIN items : items[i].call = c}
Active(q) == {i \in DOMAIN q : q[i].st \in {"pending", "answered"}}

Items == [call : Calls, st : {"pending", "answered", "consumed", "dismissed"}, told : Nat]
Tasks == [st : Stages, auto : BOOLEAN, heard : SUBSET Nat, void : SUBSET Nat]

NeedsYouTypeOK ==
  /\ items \in Seq(Items)
  /\ Cardinality(Active(items)) <= Limit
  /\ call \in [Calls -> Tasks]
  /\ \A c \in Calls : call[c].heard \cup call[c].void \subseteq Own(c)
  /\ running \in Calls \cup {NoCall} /\ telling \in BOOLEAN /\ auto \in BOOLEAN
  /\ modes \in 0 .. MaxModes

NeedsYouInit ==
  /\ items = << >>
  /\ call = [c \in Calls |-> [st |-> "new", auto |-> FALSE, heard |-> {}, void |-> {}]]
  /\ running = NoCall /\ telling = FALSE /\ auto = FALSE /\ modes = 0

-----------------------------------------------------------------------------
(* The queue *)

Room(q) == Cardinality(Active(q)) < Limit
Parked(c) == Append(items, [call |-> c, st |-> "pending", told |-> 0])

\* Those of the items in S that are answered are consumed.
Consumed(S) == [i \in DOMAIN items |->
                  IF i \in S /\ items[i].st = "answered" THEN [items[i] EXCEPT !.st = "consumed"] ELSE items[i]]

\* The items in S are put before the model.
Told(q, S) == [i \in DOMAIN q |-> IF i \in S THEN [q[i] EXCEPT !.told = @ + 1] ELSE q[i]]

\* _resolve: a question notes what has become of its items and wakes up when it
\* has noted all of them.
Noted(r, c, q) ==
  LET fresh == {i \in DOMAIN q : q[i].call = c /\ q[i].st # "pending"} \ (r.heard \cup r.void)
      heard == r.heard \cup {i \in fresh : q[i].st = "answered"}
      void  == r.void \cup {i \in fresh : q[i].st # "answered"}
  IN [r EXCEPT !.heard = heard, !.void = void,
               !.st = IF Cardinality(heard \cup void) = Parts THEN "woken" ELSE @]

\* _notify: every listener looks at the queue as it is then.
Notified(table, q) == [c \in Calls |-> IF table[c].st \in {"listening", "woken"}
                                       THEN Noted(table[c], c, q) ELSE table[c]]

-----------------------------------------------------------------------------
(* The runtime's loop *)

\* A provider request of the root, while none of its calls is in progress: the
\* bridge injects what was answered; the response begins the calls B together.
Boundary(B) ==
  /\ running = NoCall /\ \A c \in Calls : ~InProgress(c)
  /\ B \subseteq {c \in Calls : call[c].st = "new"}
  /\ items' = LET S == {i \in DOMAIN items : items[i].st = "answered"} IN Told(Consumed(S), S)
  /\ call' = [c \in Calls |-> IF c \in B THEN [call[c] EXCEPT !.st = "begun"] ELSE call[c]]
  /\ UNCHANGED <<running, telling, auto, modes>>

\* The posture counts as it is when the question starts.
BeginAsking(c) ==
  /\ running = NoCall /\ call[c].st = "begun" /\ c \in Questions
  /\ call' = [call EXCEPT ![c].st = "asking", ![c].auto = auto]
  /\ running' = c
  /\ UNCHANGED <<items, telling, auto, modes>>

AskNext(c) ==
  /\ running = c /\ call[c].st = "asking" /\ Cardinality(Own(c)) < Parts
  /\ Room(items)
  /\ items' = Parked(c) /\ call' = Notified(call, items')
  /\ UNCHANGED <<running, telling, auto, modes>>

\* The queue is full half way: what is still pending of this call is dismissed.
AskFull(c) ==
  /\ running = c /\ call[c].st = "asking" /\ Cardinality(Own(c)) < Parts
  /\ ~Room(items)
  /\ items' = [i \in DOMAIN items |->
                 IF i \in Own(c) /\ items[i].st = "pending" THEN [items[i] EXCEPT !.st = "dismissed"] ELSE items[i]]
  /\ call' = [Notified(call, items') EXCEPT ![c].st = "refused"]
  /\ running' = NoCall
  /\ UNCHANGED <<telling, auto, modes>>

\* Mutant: the call that does not wait consumes like one that has.
AskDoneConsumes(c) ==
  /\ running = c /\ call[c].st = "asking" /\ Cardinality(Own(c)) = Parts
  /\ IF call[c].auto
     THEN /\ call' = [call EXCEPT ![c].st = "left"] /\ running' = NoCall
          /\ items' = Consumed(Own(c))
     ELSE call' = [call EXCEPT ![c].st = "listening"] /\ UNCHANGED <<items, running>>
  /\ UNCHANGED <<telling, auto, modes>>

\* In the auto posture the call returns at once, its items stay in the queue.
\* Otherwise it listens.
AskDone(c) ==
  /\ running = c /\ call[c].st = "asking" /\ Cardinality(Own(c)) = Parts
  /\ IF call[c].auto
     THEN call' = [call EXCEPT ![c].st = "left"] /\ running' = NoCall
     ELSE call' = [call EXCEPT ![c].st = "listening"] /\ UNCHANGED running
  /\ UNCHANGED <<items, telling, auto, modes>>

\* Mutant: the call waits without a look of its own.
FirstLookNever(c) ==
  /\ running = c /\ Subscribed(c)
  /\ running' = NoCall
  /\ UNCHANGED <<items, call, telling, auto, modes>>

\* "an answer may have raced in before we subscribed"
FirstLook(c) ==
  /\ running = c /\ Subscribed(c)
  /\ call' = [call EXCEPT ![c] = Noted(@, c, items)]
  /\ running' = NoCall
  /\ UNCHANGED <<items, telling, auto, modes>>

\* Mutant: the answers are left to the bridge as well.
ReturnUnconsumed(c) ==
  /\ running = NoCall /\ call[c].st = "woken"
  /\ items' = Told(items, call[c].heard)
  /\ call' = [Notified(call, items') EXCEPT ![c] = [call[c] EXCEPT !.st = "returned"]]
  /\ UNCHANGED <<running, telling, auto, modes>>

\* The tool's result has the answers, so nobody else may deliver them.
Return(c) ==
  /\ running = NoCall /\ call[c].st = "woken"
  /\ items' = Told(Consumed(Own(c)), call[c].heard)
  /\ call' = [Notified(call, items') EXCEPT ![c] = [call[c] EXCEPT !.st = "returned"]]
  /\ UNCHANGED <<running, telling, auto, modes>>

\* The dependency gate, and then the classifier, which is awaited.
Check(c) ==
  /\ running = NoCall /\ call[c].st = "begun" /\ c \in Gated
  /\ call' = [call EXCEPT ![c].st = IF \E i \in DOMAIN items : items[i].call \in Gated /\ items[i].st = "pending"
                                    THEN "denied" ELSE "judging"]
  /\ UNCHANGED <<items, running, telling, auto, modes>>

Allowed(c) ==
  /\ running = NoCall /\ call[c].st = "judging"
  /\ call' = [call EXCEPT ![c].st = "ran"]
  /\ UNCHANGED <<items, running, telling, auto, modes>>

Refused(c) ==
  /\ running = NoCall /\ call[c].st = "judging"
  /\ items' = IF Room(items) THEN Parked(c) ELSE items
  /\ call' = [Notified(call, items') EXCEPT ![c].st = "denied"]
  /\ UNCHANGED <<running, telling, auto, modes>>

\* The turn is interrupted: every task is cancelled where it awaits; a question
\* that waits consumes what was answered.
Interrupt ==
  LET cut == {c \in Calls : InProgress(c)}
  IN /\ running = NoCall /\ cut # {}
     /\ items' = Consumed(UNION {Own(c) : c \in {d \in cut : Subscribed(d)}})
     /\ call' = [c \in Calls |-> IF c \in cut THEN [call[c] EXCEPT !.st = "cancelled"] ELSE call[c]]
     /\ UNCHANGED <<running, telling, auto, modes>>

-----------------------------------------------------------------------------
(* The user's thread *)

Answer(i) ==
  /\ ~telling /\ items[i].st = "pending"
  /\ items' = [items EXCEPT ![i].st = "answered"]
  /\ telling' = TRUE
  /\ UNCHANGED <<call, running, auto, modes>>

Tell ==
  /\ telling
  /\ call' = Notified(call, items) /\ telling' = FALSE
  /\ UNCHANGED <<items, running, auto, modes>>

SwitchMode ==
  /\ modes < MaxModes
  /\ auto' = ~auto /\ modes' = modes + 1
  /\ UNCHANGED <<items, call, running, telling>>

-----------------------------------------------------------------------------
Question(c) == BeginAsking(c) \/ AskNext(c) \/ AskFull(c) \/ AskDone(c) \/ FirstLook(c) \/ Return(c)
NeedsYouNext == \/ \E B \in SUBSET Calls : Boundary(B)
                \/ \E c \in Questions : Question(c)
                \/ \E c \in Gated : Check(c) \/ Allowed(c) \/ Refused(c)
                \/ Interrupt \/ (\E i \in DOMAIN items : Answer(i)) \/ Tell \/ SwitchMode

\* The loop runs the tasks that can go on and a thread that has the lock goes
\* on to its listeners.  Nobody has to answer.
NeedsYouSpec == /\ NeedsYouInit /\ [][NeedsYouNext]_needsYouVars
                /\ (\A c \in Questions : WF_needsYouVars(Question(c))) /\ WF_needsYouVars(Tell)

-----------------------------------------------------------------------------
(* Properties *)

\* The model is told an answer at most once, by the tool that asked or by the
\* bridge, whichever way the two race; and nothing it was told is left to be
\* told again.
AnsweredOnce ==
  \A i \in DOMAIN items : items[i].told <= 1 /\ (items[i].told = 1 => items[i].st = "consumed")

\* What the user has answered stands until the model is told of it, also when
\* its call found the queue full, left it there or was called off by another;
\* only a call that is cancelled itself takes an answer with it.
AnswersKept ==
  [][\A i \in DOMAIN items : items[i].st = "answered" =>
       \/ items'[i].st = "answered"
       \/ items'[i].st = "consumed" /\ (items'[i].told = 1 \/ call'[items[i].call].st = "cancelled")]_needsYouVars

\* A call none of whose questions is pending any more returns: the answer that
\* came before it listened, or while it did, wakes it.
QuestionsReturn ==
  \A c \in Questions :
    (Subscribed(c) /\ \A i \in Own(c) : items[i].st # "pending") ~> ~InProgress(c)

\* "so nothing is lost": what the user has answered reaches the model.
NothingLost == \A i \in DOMAIN items : items[i].st = "consumed" => items[i].told > 0

\* "must be answered before the dependent step runs -- the step is NOT executed"
DependentsWait ==
  [][\A c \in Gated : call'[c].st = "ran" /\ call[c].st # "ran"
       => \A i \in DOMAIN items : items[i].call \in Gated => items[i].st # "pending"]_needsYouVars
=============================================================================
