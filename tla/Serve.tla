------------------------------- MODULE Serve -------------------------------
(***************************************************************************)
(* One process serving one session (kernel/serve.py, serve_loop): the      *)
(* queue that stdin and every attached peer feed, the two doors into the   *)
(* control plane, the idempotency ring, and the tasks that share the event *)
(* loop with it: the turn and the event pump.                              *)
(*                                                                         *)
(* What a control operation does to the pen is any step of WritePen, which *)
(* SessionControl implements.  The pen and the ring are on disk and        *)
(* outlive the process; everything else dies with it.  Tasks switch only   *)
(* where the loop awaits the next operation; a kill, and the expiry of a   *)
(* lease, come between any two steps.                                      *)
(***************************************************************************)
EXTENDS Integers, Sequences

CONSTANTS Keys,        \* idempotency keys
          KindOf,      \* the operation each key is used for
          NoKey,       \* an operation without a key
          RingCap,     \* MAX_IDEMPOTENCY_ENTRIES
          SteerCap,    \* MAX_QUEUE_ITEMS of the steering queue
          MaxSends,    \* bound: operations sent
          QueueCap,    \* bound: operations waiting
          MaxTurns,    \* bound: turns
          MaxEvents,   \* bound: events waiting
          MaxAsks,     \* bound: approval tickets of one process
          MaxGrants,   \* bound: leases granted
          MaxStarts    \* bound: processes that serve the session, in turn

\* "other": decision, interrupt, tag.* and effort.*, gated alike; only what a
\* decision answers is state of this module.  "read": status, history, context.
Writes == {"submit", "steer", "approve", "other"}
Kinds == Writes \cup {"control", "read", "quit"}

ASSUME ServeAssumption ==
  /\ KindOf \in [Keys -> Writes \cup {"control"}] /\ NoKey \notin Keys
  /\ RingCap \in Nat \ {0} /\ SteerCap \in Nat
  /\ {MaxSends, QueueCap, MaxTurns, MaxEvents, MaxAsks, MaxGrants} \subseteq Nat
  /\ MaxStarts \in Nat \ {0}

VARIABLES pen, minted, parked,  \* control.json, as WritePen sees it
          ring,     \* control.json: the keys remembered, oldest first
          status,   \* "up"; past the loop, "awaiting" a turn or "closing"; "down"
          tokens,   \* the project has issued control tokens (_policy, cached)
          opened,   \* this process has materialized the control plane
          ops,      \* the queue of operations
          stage,    \* what the loop still has to do for the one it took
          turn,     \* the number of the running turn, or 0
          turns,    \* turns started
          steers,   \* the steering queue
          ask,      \* the ticket at the head of the approval broker, or 0
          asks,     \* tickets this process has issued
          settled,  \* the head has its answer, and the turn has not read it
          asking,   \* the turn's question tool waits for a decision
          writer,   \* the name `records` is still bound to the record writer
          pump,     \* the event pump runs
          events,   \* events it has not read
          sends, starts,  \* how much of two bounds is used
          acted,    \* history: how often each key's operation took effect
          newer,    \* history: answers remembered since each key's own
          torn      \* history: keys whose last effect no answer recorded

penVars == <<pen, minted, parked>>
procVars == <<tokens, starts>>
loopVars == <<opened, ops, stage>>
askVars == <<ask, asks, settled, asking>>
turnVars == <<turn, turns, steers, askVars>>
pumpVars == <<writer, pump, events>>
history == <<acted, newer, torn>>
vars == <<penVars, ring, status, procVars, loopVars, turnVars, pumpVars, sends, history>>

\* Which token was served last is of no interest here.
Pen == INSTANCE WritePen WITH served <- 0

Free == [at |-> "free"]
\* `for` is the turn a steer was sent in, or the ticket an approve names; or 0.
Ops == [kind : {"steer"}, key : Keys \cup {NoKey}, lease : 0 .. MaxGrants, for : 0 .. MaxTurns]
       \cup [kind : Kinds \ {"steer"}, key : Keys \cup {NoKey}, lease : 0 .. MaxGrants, for : 0 .. MaxAsks]
\* A steer that waits: the turn it was sent in, and the turn it was queued in.
Steers == [during : 0 .. MaxTurns, queued : 0 .. MaxTurns]
Stages == {Free} \cup [at : {"act"}, op : Ops]
          \cup [at : {"remember"}, op : {op \in Ops : op.key \in Keys}]

TypeOK ==
  /\ pen \in 0 .. MaxGrants /\ minted \in 0 .. MaxGrants
  /\ \A b \in {parked, tokens, opened, settled, asking, writer, pump} : b \in BOOLEAN
  /\ ring \in Seq(Keys) /\ Len(ring) <= RingCap
  /\ status \in {"up", "awaiting", "closing", "down"}
  /\ ops \in Seq(Ops) /\ Len(ops) <= QueueCap
  /\ stage \in Stages
  /\ turn \in {0, turns} /\ turns \in 0 .. MaxTurns
  /\ steers \in Seq(Steers) /\ Len(steers) <= SteerCap
  /\ ask \in {0, asks} /\ asks \in 0 .. MaxAsks
  /\ (settled => ask # 0) /\ (ask # 0 \/ asking => turn # 0)
  /\ events \in 0 .. MaxEvents
  /\ sends \in 0 .. MaxSends /\ starts \in 1 .. MaxStarts
  /\ acted \in [Keys -> Nat] /\ newer \in [Keys -> 0 .. RingCap]
  /\ torn \subseteq Keys

\* A process as it enters serve_loop; with --attach-handoff it opens the control
\* plane, unless that fails, and claims.
Fresh ==
  /\ tokens' \in {tokens, TRUE}   \* a store stays one, whatever is revoked
  /\ status' = "up" /\ ops' = << >> /\ stage' = Free
  /\ \/ opened' \in BOOLEAN /\ UNCHANGED penVars
     \/ opened' = TRUE /\ minted < MaxGrants /\ Pen!Grant
  /\ turn' = 0 /\ steers' = << >> /\ ask' = 0 /\ asks' = 0 /\ settled' = FALSE /\ asking' = FALSE
  /\ writer' = TRUE /\ pump' = TRUE /\ events' = 0

Init ==
  /\ Pen!Init /\ ring = << >>
  /\ tokens \in BOOLEAN
  /\ status = "up" /\ opened \in BOOLEAN /\ ops = << >> /\ stage = Free
  /\ turn = 0 /\ turns = 0 /\ steers = << >>
  /\ ask = 0 /\ asks = 0 /\ settled = FALSE /\ asking = FALSE
  /\ writer = TRUE /\ pump = TRUE /\ events = 0
  /\ sends = 0 /\ starts = 1
  /\ acted = [k \in Keys |-> 0] /\ newer = [k \in Keys |-> 0]
  /\ torn = {}

-----------------------------------------------------------------------------
(* Clients: a keyed operation may be sent again and again *)

\* The head is surfaced when it becomes one; ids start anew in each process, and
\* a client may name one it has seen in the last.
Aims(kind) ==
  CASE kind = "steer" -> {turn} [] kind = "approve" -> 0 .. MaxAsks [] OTHER -> {0}

Send(kind, key, lease, for) ==
  /\ status = "up" /\ sends < MaxSends /\ Len(ops) < QueueCap
  /\ key # NoKey => kind = KindOf[key]
  /\ ops' = Append(ops, [kind |-> kind, key |-> key, lease |-> lease, for |-> for])
  /\ sends' = sends + 1
  /\ UNCHANGED <<penVars, ring, status, opened, stage, turnVars, pumpVars, procVars, history>>

-----------------------------------------------------------------------------
(* The loop: one operation, up to its next durable effect *)

\* The two doors: once anybody opts in (_wants_control), or once the project
\* has issued tokens, the plane stands for everybody, until this process ends.
OptsIn(op) == tokens \/ op.kind = "control" \/ op.key # NoKey \/ op.lease # 0

InRing(k) == \E i \in DOMAIN ring : ring[i] = k

\* Take the operation at the head of the queue and go on to `next`.  An attempt
\* to open the plane may fail; the operation is then served without it.
Take(op, next) ==
  /\ status = "up" /\ stage = Free /\ ops # << >> /\ op = Head(ops)
  /\ ops' = Tail(ops)
  /\ opened' \in {opened, opened \/ (op.kind # "quit" /\ OptsIn(op))}
  /\ stage' = next
  /\ UNCHANGED <<sends, procVars, turnVars, newer>>

\* quit, or the end of stdin, whatever peers are still attached.
Quit(op) ==
  /\ op.kind = "quit"
  /\ Take(op, Free)
  /\ status' = IF turn # 0 THEN "awaiting" ELSE "closing"
  /\ UNCHANGED <<penVars, ring, pumpVars, acted, torn>>

\* No credential that names a principal, or one without the permission or the
\* identity it claims; without tokens every claim is taken at its word.
Unauthenticated(op) ==
  /\ op.kind # "quit" /\ tokens
  /\ Take(op, Free) /\ opened'
  /\ UNCHANGED <<penVars, ring, status, pumpVars, acted, torn>>

\* Answered whether or not anybody has opted in.
Read(op) ==
  /\ op.kind = "read"
  /\ Take(op, Free)
  /\ UNCHANGED <<penVars, ring, status, pumpVars, acted, torn>>

Replay(op) ==
  /\ op.kind \in Writes \cup {"control"} /\ InRing(op.key)
  /\ Take(op, Free) /\ opened'
  /\ UNCHANGED <<penVars, ring, status, pumpVars, acted, torn>>

CountAct(op) ==
  acted' = IF op.key \in Keys THEN [acted EXCEPT ![op.key] = @ + 1] ELSE acted

\* The pen steps a control operation may take, or none when it is refused or
\* only reads.  The answer is bound to the name the pump's closure reads.
Control(op) ==
  /\ op.kind = "control" /\ ~InRing(op.key)
  /\ Take(op, IF op.key = NoKey THEN Free ELSE [at |-> "remember", op |-> op])
  /\ opened'
  /\ \/ minted < MaxGrants /\ Pen!Grant
     \/ Pen!Drop \/ Pen!Park \/ Pen!Unpark
     \/ UNCHANGED penVars
  /\ writer' = FALSE
  /\ CountAct(op)
  /\ UNCHANGED <<ring, status, pump, events, torn>>

\* Without a plane no arm of the loop knows the operation.
Unheard(op) ==
  /\ op.kind = "control"
  /\ Take(op, Free) /\ ~opened'
  /\ UNCHANGED <<penVars, ring, status, pumpVars, acted, torn>>

\* Mutant: the gate does not look at the pause.
MayWriteParked(op) == op.lease = pen

MayWrite(op) == ~parked /\ op.lease = pen

\* A refusal is not remembered.
Reject(op) ==
  /\ op.kind \in Writes /\ ~InRing(op.key) /\ ~MayWrite(op)
  /\ Take(op, Free) /\ opened'
  /\ UNCHANGED <<penVars, ring, status, pumpVars, acted, torn>>

Accept(op) ==
  /\ op.kind \in Writes /\ ~InRing(op.key) /\ MayWrite(op)
  /\ Take(op, [at |-> IF op.key = NoKey THEN "act" ELSE "remember", op |-> op])
  /\ opened'
  /\ UNCHANGED <<penVars, ring, status, pumpVars, acted, torn>>

\* Nobody has opted in yet, or the plane did not open: no gate, no trail, no
\* ring, and no look at the tokens.
Legacy(op) ==
  /\ op.kind \in Writes
  /\ Take(op, [at |-> "act", op |-> op]) /\ ~opened'
  /\ torn' = torn \cup ({op.key} \cap Keys)
  /\ UNCHANGED <<penVars, ring, status, pumpVars, acted>>

\* The ring without a key it may remember.
Without(k) ==
  LET i == CHOOSE i \in DOMAIN ring : ring[i] = k
  IN IF InRing(k) THEN SubSeq(ring, 1, i - 1) \o SubSeq(ring, i + 1, Len(ring)) ELSE ring

\* Mutant: the ring is cut at the wrong end.
RememberedFirst(k) ==
  LET all == Append(Without(k), k)
  IN IF Len(all) > RingCap THEN SubSeq(all, 1, RingCap) ELSE all

Remembered(k) ==
  LET all == Append(Without(k), k)
  IN IF Len(all) > RingCap THEN Tail(all) ELSE all

CountTo(n, cap) == IF n < cap THEN n + 1 ELSE n

Remember ==
  /\ stage # Free /\ stage.at = "remember"
  /\ ring' = Remembered(stage.op.key)
  /\ newer' = [k \in Keys |-> IF k = stage.op.key THEN 0 ELSE CountTo(newer[k], RingCap)]
  /\ torn' = torn \ {stage.op.key}
  /\ stage' = IF stage.op.kind = "control" THEN Free ELSE [stage EXCEPT !.at = "act"]
  /\ UNCHANGED <<penVars, status, opened, ops, turnVars, pumpVars, sends, procVars, acted>>

Acting(kind) == stage # Free /\ stage.at = "act" /\ stage.op.kind = kind

Done ==
  /\ stage' = Free
  /\ UNCHANGED <<penVars, ring, status, opened, ops, pumpVars, sends, procVars,
                 newer, torn>>

StartTurn ==
  /\ Acting("submit") /\ turn = 0 /\ turns < MaxTurns
  /\ turn' = turns + 1 /\ turns' = turns + 1
  /\ CountAct(stage.op)
  /\ Done /\ UNCHANGED <<steers, askVars>>

\* A turn is running: the submit, acknowledged perhaps, is ignored.
IgnoreSubmit ==
  /\ Acting("submit") /\ turn # 0
  /\ Done /\ UNCHANGED <<turnVars, acted>>

\* A full queue drops the steer.
Steered(op) ==
  IF Len(steers) < SteerCap
  THEN Append(steers, [during |-> op.for, queued |-> turn])
  ELSE steers

\* Whether a turn is running is not looked at.
EnqueueSteer ==
  /\ Acting("steer")
  /\ steers' = Steered(stage.op)
  /\ CountAct(stage.op)
  /\ Done /\ UNCHANGED <<turn, turns, askVars>>

\* An approve without a ticket is for whatever ticket is the head by now.
Reaches(op) == ask # 0 /\ op.for \in {0, ask}

\* An answer already given stays.
Answer ==
  /\ Acting("approve") /\ Reaches(stage.op)
  /\ settled' = TRUE
  /\ CountAct(stage.op)
  /\ Done /\ UNCHANGED <<turn, turns, steers, ask, asks, asking>>

\* No ticket, or one that was resolved or timed out: KeyError, caught.
AnswerNobody ==
  /\ Acting("approve") /\ ~Reaches(stage.op)
  /\ Done /\ UNCHANGED <<turnVars, acted>>

\* A choice the ticket does not offer: ValueError, not caught, ends the loop.
AnswerAmiss ==
  /\ Acting("approve") /\ Reaches(stage.op)
  /\ status' = "awaiting" /\ stage' = Free
  /\ UNCHANGED <<penVars, ring, opened, ops, turnVars, pumpVars, sends, procVars, history>>

\* The decision the question waits for, and its listener lets the tool go on.
Decide ==
  /\ Acting("other") /\ asking
  /\ asking' = FALSE
  /\ CountAct(stage.op)
  /\ Done /\ UNCHANGED <<turn, turns, steers, ask, asks, settled>>

\* Any other operation, or a decision that names another question.
ActElsewhere ==
  /\ Acting("other")
  /\ CountAct(stage.op)
  /\ Done /\ UNCHANGED turnVars

-----------------------------------------------------------------------------
(* The turn and the pump *)

Scheduled == status # "down" /\ stage = Free

\* The turn reports something on the runtime's queue.
Emit ==
  /\ Scheduled /\ turn # 0 /\ events < MaxEvents
  /\ events' = events + 1
  /\ UNCHANGED <<penVars, ring, status, loopVars, turnVars, writer, pump, sends, procVars, history>>

\* StepBoundaryBridge: the oldest steer goes into the next provider request.
ConsumeSteer ==
  /\ Scheduled /\ turn # 0 /\ steers # << >>
  /\ steers' = Tail(steers)
  /\ UNCHANGED <<penVars, ring, status, loopVars, turn, turns, askVars, pumpVars, sends, procVars, history>>

\* A tool of the turn asks: a ticket comes to the head of the broker.
Ask ==
  /\ Scheduled /\ turn # 0 /\ ask = 0 /\ asks < MaxAsks
  /\ ask' = asks + 1 /\ asks' = asks + 1
  /\ UNCHANGED <<penVars, ring, status, loopVars, turn, turns, steers, settled, asking, pumpVars, sends, procVars, history>>

\* Mutant: a ticket waits for its answer however long that takes.
ResolveAnswered ==
  /\ Scheduled /\ ask # 0 /\ settled
  /\ ask' = 0 /\ settled' = FALSE
  /\ UNCHANGED <<penVars, ring, status, loopVars, turn, turns, steers, asks, asking, pumpVars, sends, procVars, history>>

\* The asker takes the answer or, after the timeout, the default.
Resolve ==
  /\ Scheduled /\ ask # 0
  /\ ask' = 0 /\ settled' = FALSE
  /\ UNCHANGED <<penVars, ring, status, loopVars, turn, turns, steers, asks, asking, pumpVars, sends, procVars, history>>

\* The question tool, outside Auto: no time-out, and an interrupt, which is read
\* at a step boundary, does not end it.
AskUser ==
  /\ Scheduled /\ turn # 0 /\ ~asking
  /\ asking' = TRUE
  /\ UNCHANGED <<penVars, ring, status, loopVars, turn, turns, steers, ask, asks, settled, pumpVars, sends, procVars, history>>

\* The finally clause of _run_turn, and its terminal record; an interrupt may
\* make it come sooner, at a step boundary.
EndTurn ==
  /\ Scheduled /\ turn # 0 /\ ask = 0 /\ ~asking
  /\ turn' = 0 /\ steers' = << >>
  /\ UNCHANGED <<penVars, ring, status, loopVars, turns, askVars, pumpVars, sends, procVars, history>>

\* The pump writes the event, or finds a list where the writer was and dies.
Pump ==
  /\ Scheduled /\ pump /\ events > 0
  /\ events' = events - 1
  /\ pump' = writer
  /\ UNCHANGED <<penVars, ring, status, loopVars, turnVars, writer, sends, procVars, history>>

-----------------------------------------------------------------------------
(* The end of a process *)

Ending == status \in {"awaiting", "closing"}

\* A turn that is awaited leaves a pump that runs the time to read what it put
\* on the queue; one that had just ended when the loop did may not.
PumpDone == status = "awaiting" /\ pump => events = 0

\* The finally clause of serve_loop: the turn in flight is awaited, the pump
\* is cancelled.
Exit ==
  /\ Ending /\ turn = 0 /\ PumpDone
  /\ status' = "down"
  /\ UNCHANGED <<penVars, ring, loopVars, turnVars, pumpVars, sends, procVars, history>>

Kill ==
  /\ status # "down"
  /\ status' = "down" /\ stage' = Free
  /\ torn' = IF stage # Free /\ stage.at = "remember" /\ stage.op.kind = "control"
             THEN torn \cup {stage.op.key} ELSE torn
  /\ UNCHANGED <<penVars, ring, opened, ops, turnVars, pumpVars, sends, procVars, acted, newer>>

\* The session is resumed in a new process.
Restart ==
  /\ status = "down" /\ starts < MaxStarts
  /\ starts' = starts + 1
  /\ Fresh
  /\ UNCHANGED <<ring, turns, sends, acted, newer, torn>>

Expire ==
  /\ Pen!Drop
  /\ UNCHANGED <<ring, status, loopVars, turnVars, pumpVars, sends, procVars, history>>

Handle(op) ==
  \/ Quit(op) \/ Unauthenticated(op) \/ Read(op) \/ Replay(op)
  \/ Control(op) \/ Unheard(op) \/ Reject(op) \/ Accept(op) \/ Legacy(op)

Loop ==
  \/ ops # << >> /\ Handle(Head(ops))
  \/ Remember \/ StartTurn \/ IgnoreSubmit \/ EnqueueSteer
  \/ Answer \/ AnswerNobody \/ AnswerAmiss \/ Decide \/ ActElsewhere

Next ==
  \/ \E kind \in Kinds, key \in Keys \cup {NoKey}, lease \in 0 .. minted :
       \E for \in Aims(kind) : Send(kind, key, lease, for)
  \/ Loop
  \/ Emit \/ ConsumeSteer \/ Ask \/ Resolve \/ AskUser \/ EndTurn \/ Pump
  \/ Exit \/ Kill \/ Restart \/ Expire

Spec == Init /\ [][Next]_vars

\* The event loop runs every task that is ready, and a turn that waits for no
\* ticket and no question ends: model calls have deadlines, and so have tickets.
\* Nothing is owed by clients, a decision least of all, and nobody owes a kill.
FairSpec ==
  /\ Spec
  /\ WF_vars(Loop) /\ WF_vars(Resolve) /\ WF_vars(EndTurn) /\ WF_vars(Pump) /\ WF_vars(Exit)

-----------------------------------------------------------------------------
(* Properties *)

\* A keyed operation takes effect once, across retries, duplicates, kills and
\* restarts: with a plane open, one that took effect is let in again only after
\* RingCap younger answers were remembered, or when its last effect had no answer
\* to remember: the plane had not opened, or a kill came between a control
\* operation and remember() ("do NOT act twice", replay branch).
LetIn(k) == stage = Free /\ stage' # Free /\ stage'.op.key = k /\ opened'
ActedOnce ==
  [][\A k \in Keys :
       LetIn(k) /\ acted[k] > 0 => newer[k] >= RingCap \/ k \in torn]_vars

\* While the session is parked the runtime starts no turn, takes no steer and is
\* given no approval, except in a process without a plane (the two doors, then
\* authorize): the loop handles one operation to its end.
Acts == turns' # turns \/ Len(steers') > Len(steers) \/ (settled' /\ ~settled)
ParkHolds == [][Acts /\ opened => ~parked]_vars

\* A steer queued while a turn ran is injected into that turn or into none:
\* what the turn left over never reaches a later one (_run_turn, finally).
LeftoverSteersDiscarded == \A i \in DOMAIN steers : steers[i].queued \in {0, turn}

\* "An unconsumed steer must never inject into a later turn the user never
\* aimed it at" (_run_turn): what a running turn may consume was sent in it, or
\* in no turn.
SteersOnlyTheirTurn ==
  turn # 0 => \A i \in DOMAIN steers : steers[i].during \in {0, turn}

\* A process told to end, or ended by an answer no ticket offers, goes down,
\* whatever is still queued for it and though nobody is left to answer the ticket
\* its turn may wait on; unless that turn comes to wait for a decision, which
\* nobody is left to read either and which has no time-out.
Exits == Ending ~> status = "down" \/ asking

\* "Let an in-flight turn finish [..] so a piped one-shot `submit' completes
\* cleanly on stdin EOF" (serve_loop, finally): without that exception.
ExitsCleanly == Ending ~> status = "down"

\* "One pump drains normalized events for the whole session" (serve_loop).
EventsStream == events > 0 ~> events = 0 \/ status = "down"

=============================================================================
