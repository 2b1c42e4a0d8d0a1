------------------------------- MODULE Turns -------------------------------
(***************************************************************************)
(* Turns: one conversation of the terminal interface, from the key to the  *)
(* end of the turn.                                                        *)
(*                                                                         *)
(* Two event loops share it.  The interface (ui/app.py, ui/app_support.py, *)
(* ui/session_ops_controller.py) decides what may start, by looking at     *)
(* fences it raises and lowers itself.  The runtime (kernel/runtime.py)    *)
(* works on the conversation's context in tasks that take turns at every   *)
(* await.  Calls go one way and events and results the other, each through *)
(* a FIFO of callbacks (ui/runtime_adapter.py), so that what a fence is    *)
(* raised on is what the interface has heard so far.                       *)
(*                                                                         *)
(* A text is the set of the pieces the user wrote that are in it: a draft  *)
(* may be merged with another.  {} is no text.                             *)
(***************************************************************************)
EXTENDS Integers, FiniteSets, SequencesExt

CONSTANTS Goal,       \* the text of a goal's condition
          MaxMsgs,    \* bound: pieces of text written
          MaxOps,     \* bound: clears, copies and restores
          MaxGoals    \* bound: goals started

ASSUME TurnsAssumption == {MaxMsgs, MaxOps, MaxGoals} \subseteq Nat /\ Goal \notin Nat

VARIABLES
  composer,     \* the visible draft
  stashed,      \* drafts moved into the Up-arrow history
  posted,       \* a message of the composer on its way to the application
  slot,         \* SteeringQueue: the queued next-turn message
  steer,        \* SteeringQueue: the pending steer
  admission,    \* _submit_admission: the prompt being submitted
  turnActive,   \* turn_active
  drainDue,     \* _turn_queues_pending
  goalPending,  \* _goal_pending
  operation,    \* _clear_pending, _compact_pending, _snapshot_pending: each excludes the others
  restore,      \* fork_pending, and where its worker is
  target,       \* the selected checkpoint, by its position in the ledger
  ledger,       \* OutcomeLedger: the texts of its checkpoints
  toRuntime, toApp,   \* the callbacks posted to either loop
  tasks,        \* the runtime's tasks, with the phase each awaits in
  executing,    \* _executing
  restoring,    \* _restoring_checkpoint
  recovery,     \* _rewind_recovery_pending
  interrupted,  \* _interrupt_requested
  written, ops, goals,   \* how much of the bounds is used
  runs,         \* history: the turns a piece has in the conversation
  ended,        \* history: pieces that were used as a steer, discarded or replaced
  stale         \* history: the turn the pending steer was meant for is over

drafts == <<composer, stashed>>
queues == <<slot, steer>>
fences == <<admission, turnActive, drainDue, goalPending, operation, restore, target>>
channels == <<toRuntime, toApp>>
runtime == <<tasks, executing, restoring, recovery, interrupted>>
caps == <<written, ops, goals>>
past == <<runs, ended, stale>>
turnsVars == <<drafts, posted, queues, fences, ledger, channels, runtime, caps, past>>

Msgs == 1..MaxMsgs
Texts == SUBSET (Msgs \cup {Goal})
TurnKinds == {"prompt", "queued", "goal"}
OpKinds == {"clear", "copy"}   \* copy: a compaction, or the snapshot of /branch and /fork
Phases == {"configure", "retry", "begin", "run", "finish", "work"}
Tasks == [kind : TurnKinds \cup OpKinds \cup {"restore"}, text : Texts, phase : Phases]
Calls == [do : TurnKinds \cup OpKinds \cup {"restore", "interrupt", "cancel"}, text : Texts, op : OpKinds \cup {"no"}]
Events == [do : {"submitted", "complete"}, text : Texts]
     \cup [do : TurnKinds \cup OpKinds, text : Texts, ok : BOOLEAN, begun : BOOLEAN]
     \cup [do : {"restore"}, conversation : BOOLEAN, ok : BOOLEAN]

TurnsTypeOK ==
  /\ {composer, slot, steer, admission} \cup stashed \subseteq Texts /\ ledger \in Seq(Texts)
  /\ posted \in Seq([key : {"submit", "steer", "queue"}, text : Texts, late : BOOLEAN]) /\ Len(posted) <= 1
  /\ {turnActive, drainDue, goalPending, executing, restoring, recovery, interrupted, stale} \subseteq BOOLEAN
  /\ operation \in {"no", "waiting"} \cup OpKinds
  /\ restore \in {"no", "scheduled", "waiting", "called"} /\ target \in Nat
  /\ toRuntime \in Seq(Calls) /\ toApp \in Seq(Events)
  /\ tasks \subseteq Tasks
  /\ written \in 0..MaxMsgs /\ ops \in 0..MaxOps /\ goals \in 0..MaxGoals
  /\ runs \in [Msgs -> Nat] /\ ended \subseteq Msgs

TurnsInit ==
  /\ composer = {} /\ stashed = {} /\ posted = << >> /\ slot = {} /\ steer = {}
  /\ admission = {} /\ turnActive = FALSE /\ drainDue = FALSE /\ goalPending = FALSE
  /\ operation = "no" /\ restore = "no" /\ target = 0 /\ ledger = << >>
  /\ toRuntime = << >> /\ toApp = << >>
  /\ tasks = {} /\ executing = FALSE /\ restoring = FALSE /\ recovery = FALSE
  /\ interrupted = FALSE
  /\ written = 0 /\ ops = 0 /\ goals = 0
  /\ runs = [m \in Msgs |-> 0] /\ ended = {} /\ stale = FALSE

-----------------------------------------------------------------------------
(* What a prompt may meet *)

ContextOp == operation # "no" \/ goalPending
Restoring == restore # "no"

Call(kind, t) == [do |-> kind, text |-> t, op |-> "no"]
Posts(c) == toRuntime' = Append(toRuntime, c)

\* A refused prompt goes back into the composer; what was typed there since is stashed.
RestorePrompt(t) ==
  /\ stashed' = IF composer = {} THEN stashed ELSE stashed \cup {composer}
  /\ composer' = t

SubmitPrompt(t) ==
  \/ /\ ContextOp \/ (~Restoring /\ (admission # {} \/ turnActive))
     /\ RestorePrompt(t)
     /\ UNCHANGED <<admission, toRuntime>>
  \/ /\ ~ContextOp /\ Restoring
     /\ composer' = composer \cup t
     /\ UNCHANGED <<stashed, admission, toRuntime>>
  \/ /\ ~ContextOp /\ ~Restoring /\ admission = {} /\ ~turnActive
     /\ admission' = t
     /\ Posts(Call("prompt", t))
     /\ UNCHANGED drafts

\* The slot holds one message: a second one replaces it.
QueueMessage(t) == slot' = t /\ ended' = ended \cup (slot \cap Msgs)

\* The duties of a turn's end: leftover steers go, the queued message becomes a turn
\* (submit_queued_message), unless there is a draft or the submission is refused.
FinishTurnQueues(draft, busy) ==
  /\ drainDue' = FALSE
  /\ steer' = {} /\ stale' = FALSE
  /\ ended' = ended \cup (steer \cap Msgs)
  /\ IF slot = {} \/ draft # {} \/ busy \/ ContextOp \/ admission # {}
     THEN UNCHANGED <<slot, admission, toRuntime>>
     ELSE slot' = {} /\ admission' = slot /\ Posts(Call("queued", slot))

-----------------------------------------------------------------------------
(* The user *)

Write == /\ written < MaxMsgs /\ composer = {}
         /\ written' = written + 1
         /\ composer' = {written + 1}
         /\ UNCHANGED <<stashed, posted, queues, fences, ledger, channels, runtime, ops, goals, past>>

Recall(t) == /\ composer = {} /\ t \in stashed
             /\ composer' = t /\ stashed' = stashed \ {t}
             /\ UNCHANGED <<posted, queues, fences, ledger, channels, runtime, caps, past>>

RecallQueued == /\ composer = {} /\ steer = {} /\ slot # {}
                /\ composer' = slot /\ slot' = {}
                /\ UNCHANGED <<stashed, posted, steer, fences, ledger, channels, runtime, caps, past>>

\* Enter and the queue chord: the composer looks at running now, the application acts later.
PressKey(key) == /\ composer # {} /\ posted = << >> /\ ~Restoring
                 /\ posted' = <<[key |-> key, text |-> composer, late |-> FALSE]>>
                 /\ composer' = {}
                 /\ UNCHANGED <<stashed, queues, fences, ledger, channels, runtime, caps, past>>
Enter == PressKey(IF turnActive THEN "steer" ELSE "submit")
Chord == PressKey("queue")

\* Esc, while a turn runs.
Interrupt == /\ turnActive /\ ~interrupted
             /\ \A i \in DOMAIN toRuntime : toRuntime[i].do # "interrupt"
             /\ Posts(Call("interrupt", {}))
             /\ UNCHANGED <<drafts, posted, queues, fences, ledger, toApp, runtime, caps, past>>

Posting == posted # << >> /\ posted' = << >>

OnSubmit == /\ Posting /\ posted[1].key = "submit"
            /\ SubmitPrompt(posted[1].text)
            /\ UNCHANGED <<queues, turnActive, drainDue, goalPending, operation, restore, target,
                           ledger, toApp, runtime, caps, past>>

OnSteer == /\ Posting /\ posted[1].key = "steer"
           /\ \/ ContextOp /\ RestorePrompt(posted[1].text) /\ UNCHANGED <<queues, ended, stale>>
              \/ ~ContextOp /\ steer # {} /\ QueueMessage(posted[1].text) /\ UNCHANGED <<drafts, steer, stale>>
              \/ /\ ~ContextOp /\ steer = {}
                 /\ steer' = posted[1].text
                 /\ stale' = (posted[1].late \/ ~turnActive)
                 /\ UNCHANGED <<drafts, slot, ended>>
           /\ UNCHANGED <<fences, ledger, channels, runtime, caps, runs>>

OnQueueMessage ==
  /\ Posting /\ posted[1].key = "queue"
  /\ \/ ContextOp /\ RestorePrompt(posted[1].text) /\ UNCHANGED <<slot, admission, toRuntime, ended>>
     \/ ~ContextOp /\ ~turnActive /\ SubmitPrompt(posted[1].text) /\ UNCHANGED <<slot, ended>>
     \/ ~ContextOp /\ turnActive /\ QueueMessage(posted[1].text) /\ UNCHANGED <<drafts, admission, toRuntime>>
  /\ UNCHANGED <<steer, turnActive, drainDue, goalPending, operation, restore, target,
                 ledger, toApp, runtime, caps, runs, stale>>

\* A prompt an MCP server or a skill has generated.
Generated == /\ written < MaxMsgs
             /\ written' = written + 1
             /\ IF admission # {} \/ turnActive
                THEN QueueMessage({written + 1}) /\ UNCHANGED <<drafts, admission, toRuntime>>
                ELSE SubmitPrompt({written + 1}) /\ UNCHANGED <<slot, ended>>
             /\ UNCHANGED <<posted, steer, turnActive, drainDue, goalPending, operation, restore, target,
                            ledger, toApp, runtime, ops, goals, runs, stale>>

-----------------------------------------------------------------------------
(* Commands that touch the conversation *)

Counted == ops < MaxOps /\ ops' = ops + 1
Commanded == UNCHANGED <<drafts, posted, queues, admission, turnActive, drainDue, ledger, toApp, runtime,
                         written, past>>

\* /clear without waiting for the turn (mutant).
ClearContextAtOnce ==
  /\ Counted
  /\ operation = "no" /\ admission = {} /\ ~Restoring
  /\ operation' = "clear" /\ Posts(Call("clear", {}))
  /\ Commanded /\ UNCHANGED <<goalPending, restore, target, goals>>

\* /clear, which interrupts a turn first.
ClearContext ==
  /\ Counted
  /\ operation = "no" /\ admission = {} /\ ~Restoring
  /\ operation' = IF turnActive THEN "waiting" ELSE "clear"
  /\ Posts(Call(IF turnActive THEN "interrupt" ELSE "clear", {}))
  /\ Commanded /\ UNCHANGED <<goalPending, restore, target, goals>>

\* The turn that was in the way is over.
ClearProceeds ==
  /\ operation = "waiting" /\ ~turnActive
  /\ operation' = "clear" /\ Posts(Call("clear", {}))
  /\ Commanded /\ UNCHANGED <<goalPending, restore, target, ops, goals>>

\* Thirty seconds are over before the turn is.
ClearGivesUp ==
  /\ operation = "waiting" /\ operation' = "no"
  /\ Commanded /\ UNCHANGED <<goalPending, restore, target, toRuntime, ops, goals>>

\* /compact, and the snapshot of /branch and /fork.
Copy ==
  /\ Counted
  /\ operation = "no" /\ admission = {} /\ ~turnActive /\ ~Restoring
  /\ operation' = "copy" /\ Posts(Call("copy", {}))
  /\ Commanded /\ UNCHANGED <<goalPending, restore, target, goals>>

\* A call that has not answered within thirty seconds is cancelled: its answer is not
\* looked at any more, and the runtime's task hears of it in its turn.
TimesOut ==
  /\ operation \in OpKinds /\ operation' = "no"
  /\ Posts([Call("cancel", {}) EXCEPT !.op = operation])
  /\ \/ UNCHANGED toApp /\ \A i \in DOMAIN toApp : toApp[i].do # operation
     \/ \E i \in DOMAIN toApp : toApp[i].do = operation /\ toApp' = RemoveAt(toApp, i)
  /\ UNCHANGED <<drafts, posted, queues, admission, turnActive, drainDue, goalPending, restore, target,
                 ledger, runtime, caps, past>>

ManageGoal ==
  /\ goals < MaxGoals /\ goals' = goals + 1
  /\ ~ContextOp /\ admission = {} /\ ~turnActive /\ ~Restoring
  /\ goalPending' = TRUE /\ Posts(Call("goal", {Goal}))
  /\ Commanded /\ UNCHANGED <<operation, restore, target, ops>>

HandleRestore(i) ==
  /\ Counted
  /\ ~ContextOp /\ ~Restoring /\ i \in DOMAIN ledger
  /\ restore' = "scheduled" /\ target' = i
  /\ Commanded /\ UNCHANGED <<goalPending, operation, toRuntime, goals>>

\* The worker of the restore starts: a turn is interrupted and waited for.
RestoreWaits ==
  /\ restore = "scheduled" /\ turnActive
  /\ restore' = "waiting" /\ Posts(Call("interrupt", {}))
  /\ Commanded /\ UNCHANGED <<goalPending, operation, target, ops, goals>>

RestoreProceeds ==
  /\ restore \in {"scheduled", "waiting"} /\ ~turnActive
  /\ restore' = "called" /\ Posts(Call("restore", {}))
  /\ Commanded /\ UNCHANGED <<goalPending, operation, target, ops, goals>>

-----------------------------------------------------------------------------
(* The runtime *)

Says(es) == toApp' = toApp \o es
\* (begun is history: the turn was announced.)
Result(k, ok) == [do |-> k.kind, text |-> k.text, ok |-> ok, begun |-> k.phase = "finish"]
RestoreResult(conversation, ok) == [do |-> "restore", conversation |-> conversation, ok |-> ok]
In(k, phase) == [k EXCEPT !.phase = phase]
Moves(k, phase) == tasks' = (tasks \ {k}) \cup {In(k, phase)}

Refused(k) ==
  /\ tasks' = tasks \ {k}
  /\ Says(<<IF k.kind = "restore" THEN RestoreResult(FALSE, FALSE) ELSE Result(k, FALSE)>>)

\* submit and restore_checkpoint, past the recovery.
Admit(k) ==
  \/ /\ restoring \/ executing
     /\ Refused(k)
     /\ UNCHANGED <<executing, restoring, interrupted>>
  \/ /\ ~restoring /\ ~executing
     /\ tasks' = (tasks \ {k}) \cup {In(k, IF k.kind = "restore" THEN "work" ELSE "begin")}
     /\ IF k.kind = "restore"
        THEN restoring' = TRUE /\ UNCHANGED <<executing, interrupted>>
        ELSE executing' = TRUE /\ interrupted' = FALSE /\ UNCHANGED restoring
     /\ UNCHANGED toApp

Enters(k) ==
  \/ /\ recovery
     /\ tasks' = (tasks \ {k}) \cup {In(k, "retry")}
     /\ UNCHANGED <<executing, restoring, interrupted, toApp>>
  \/ ~recovery /\ Admit(k)

\* The runtime's loop runs its oldest callback.
Receives ==
  /\ toRuntime # << >> /\ toRuntime' = Tail(toRuntime)
  /\ LET c == Head(toRuntime)  k == [kind |-> c.do, text |-> c.text, phase |-> "work"]
     IN \/ c.do \in {"prompt", "queued", "restore"} /\ Enters(k)
        \/ /\ c.do \in OpKinds \cup {"goal"}
           /\ tasks' = tasks \cup {IF c.do = "goal" THEN In(k, "configure") ELSE k}
           /\ UNCHANGED <<executing, restoring, interrupted, toApp>>
        \/ /\ c.do = "interrupt" /\ interrupted' = (interrupted \/ executing)
           /\ UNCHANGED <<tasks, executing, restoring, toApp>>
        \/ /\ c.do = "cancel" /\ tasks' = {j \in tasks : j.kind # c.op}
           /\ UNCHANGED <<executing, restoring, interrupted, toApp>>
  /\ UNCHANGED <<drafts, posted, queues, fences, ledger, recovery, caps, past>>

Runs == UNCHANGED <<drafts, posted, fences, ledger, toRuntime, caps>>

\* configure_goal arms the goal, and its first turn is submitted in one go.
GoalConfigured(k) ==
  /\ k.phase = "configure"
  /\ \/ Refused(k) /\ UNCHANGED <<executing, restoring, interrupted>>
     \/ Enters(k)
  /\ Runs /\ UNCHANGED <<queues, recovery, past>>

\* _retry_rewind_recovery: the context is replaced by what is on disk.
RecoveryEnds(k) ==
  /\ k.phase = "retry"
  /\ \/ Refused(k) /\ UNCHANGED <<executing, restoring, interrupted, recovery>>
     \/ recovery' = FALSE /\ Admit(k)
  /\ Runs /\ UNCHANGED <<queues, past>>

\* The workspace checkpoint is cut, and the prompt is announced.
TurnBegins(k) ==
  /\ k.phase = "begin"
  /\ \/ executing' = FALSE /\ Refused(k) /\ UNCHANGED runs
     \/ /\ Moves(k, "run")
        /\ runs' = [m \in Msgs |-> IF m \in k.text THEN runs[m] + 1 ELSE runs[m]]
        /\ Says(<<[do |-> "submitted", text |-> k.text]>>)
        /\ UNCHANGED executing
  /\ Runs /\ UNCHANGED <<queues, restoring, interrupted, recovery, ended, stale>>

\* provider:request: one steer is put into the context.
StepBoundary(k) ==
  /\ k.phase = "run" /\ steer # {}
  /\ ended' = ended \cup (steer \cap Msgs)
  /\ steer' = {} /\ stale' = FALSE
  /\ Runs /\ UNCHANGED <<slot, toApp, runtime, runs>>

TurnEnds(k) ==
  /\ k.phase = "run"
  /\ executing' = FALSE /\ Moves(k, "finish")
  /\ Runs /\ UNCHANGED <<queues, toApp, restoring, recovery, interrupted, past>>

\* The checkpoint is finished, the marker written and the conversation saved: only then
\* is the turn reported as complete, and the call returns or raises.
TurnCloses(k) ==
  /\ k.phase = "finish"
  /\ tasks' = tasks \ {k} /\ interrupted' = FALSE
  /\ \E ok \in BOOLEAN : Says(<<[do |-> "complete", text |-> k.text], Result(k, ok)>>)
  /\ Runs /\ UNCHANGED <<queues, executing, restoring, recovery, past>>

\* A clear, a compaction or a snapshot; nobody is told when it was cancelled meanwhile.
OpEnds(k) ==
  /\ k.phase = "work" /\ k.kind \in OpKinds
  /\ tasks' = tasks \ {k}
  /\ \E ok \in IF k.kind = "clear" THEN BOOLEAN ELSE {TRUE} :
       Says(IF \E i \in DOMAIN toRuntime : toRuntime[i].do = "cancel" /\ toRuntime[i].op = k.kind
            THEN << >> ELSE <<Result(k, ok)>>)
  /\ Runs /\ UNCHANGED <<queues, executing, restoring, recovery, interrupted, past>>

\* A restore fails, is partial, or succeeds; a partial one may leave a recovery to do.
RestoreEnds(k) ==
  /\ k.phase = "work" /\ k.kind = "restore"
  /\ tasks' = tasks \ {k} /\ restoring' = FALSE
  /\ \E conversation, ok \in BOOLEAN :
       /\ Says(<<RestoreResult(conversation, ok)>>)
       /\ recovery' \in IF conversation /\ ~ok THEN BOOLEAN ELSE {recovery}
  /\ Runs /\ UNCHANGED <<queues, executing, interrupted, past>>

-----------------------------------------------------------------------------
(* The interface hears of it *)

Hears(what) == toApp # << >> /\ Head(toApp).do \in what /\ toApp' = Tail(toApp)
Heard == UNCHANGED <<runtime, caps, target>>

TurnStarted ==
  /\ Hears({"submitted"})
  /\ admission' = {} /\ goalPending' = FALSE /\ turnActive' = TRUE
  /\ ledger' = Append(ledger, Head(toApp).text)
  /\ Heard /\ UNCHANGED <<drafts, posted, queues, drainDue, operation, restore, toRuntime, past>>

\* A restore in progress puts the duties off.
TurnFinished ==
  /\ Hears({"complete"})
  /\ turnActive' = FALSE
  /\ posted' = [i \in DOMAIN posted |-> [posted[i] EXCEPT !.late = TRUE]]
  /\ \/ ~Restoring /\ FinishTurnQueues(composer, FALSE)
     \/ /\ Restoring /\ drainDue' = TRUE /\ stale' = (steer # {})
        /\ UNCHANGED <<queues, admission, toRuntime, ended>>
  /\ Heard /\ UNCHANGED <<drafts, goalPending, operation, restore, ledger, runs>>

\* Any failure gives the prompt back (mutant).
UnacceptedAlways(r) == ~r.ok

\* The call failed and its prompt was never announced: a failure of any other belongs to
\* an accepted turn.
Unaccepted(r) == ~r.ok /\ admission = r.text

\* _submit_prompt and _submit_queued_message after the call: what was not accepted is
\* given back.
Submitted ==
  /\ Hears({"prompt", "queued"})
  /\ LET r == Head(toApp)  back == Unaccepted(r)
     IN /\ admission' = IF admission = r.text THEN {} ELSE admission
        /\ \/ ~back /\ UNCHANGED <<drafts, slot, ended>>
           \/ back /\ r.do = "prompt" /\ RestorePrompt(r.text) /\ UNCHANGED <<slot, ended>>
           \/ back /\ r.do = "queued" /\ slot = {} /\ slot' = r.text /\ UNCHANGED <<drafts, ended>>
           \/ /\ back /\ r.do = "queued" /\ slot # {} /\ composer = {}
              /\ composer' = r.text /\ UNCHANGED <<stashed, slot, ended>>
           \/ /\ back /\ r.do = "queued" /\ slot # {} /\ composer # {}
              /\ ended' = ended \cup (r.text \cap Msgs) /\ UNCHANGED <<drafts, slot>>
  /\ Heard /\ UNCHANGED <<posted, steer, turnActive, drainDue, goalPending, operation, restore, ledger,
                          toRuntime, runs, stale>>

\* The fence is lowered after a success only (mutant).
GoalReturnsOk ==
  /\ Hears({"goal"})
  /\ goalPending' = (goalPending /\ ~Head(toApp).ok)
  /\ Heard /\ UNCHANGED <<drafts, posted, queues, admission, turnActive, drainDue, operation, restore, ledger,
                          toRuntime, past>>

\* _manage_goal's finally.
GoalReturns ==
  /\ Hears({"goal"})
  /\ goalPending' = FALSE
  /\ Heard /\ UNCHANGED <<drafts, posted, queues, admission, turnActive, drainDue, operation, restore, ledger,
                          toRuntime, past>>

\* The finally of the worker of a clear, a compaction or a snapshot.
Answered ==
  /\ Hears(OpKinds)
  /\ operation' = "no"
  /\ ledger' = IF Head(toApp).do = "clear" /\ Head(toApp).ok THEN << >> ELSE ledger
  /\ Heard /\ UNCHANGED <<drafts, posted, queues, admission, turnActive, drainDue, goalPending, restore,
                          toRuntime, past>>

\* confirm_restore: the conversation's selected prompt comes back as the draft; the
\* duties that were put off are done after a success and dropped after anything else.
Restored ==
  /\ Hears({"restore"})
  /\ restore' = "no"
  /\ LET r == Head(toApp)  t == ledger[target]
     IN /\ IF r.conversation
           THEN /\ RestorePrompt(t)
                /\ ledger' = SubSeq(ledger, 1, target - 1)
                /\ runs' = [m \in Msgs |-> IF m \in t THEN runs[m] - 1 ELSE runs[m]]
           ELSE UNCHANGED <<drafts, ledger, runs>>
        /\ \/ r.ok /\ drainDue /\ FinishTurnQueues(composer', turnActive)
           \/ /\ ~(r.ok /\ drainDue)
              /\ drainDue' = FALSE
              /\ UNCHANGED <<queues, admission, toRuntime, ended, stale>>
  /\ Heard /\ UNCHANGED <<posted, turnActive, goalPending, operation>>

-----------------------------------------------------------------------------
UserActs == \/ Write \/ RecallQueued \/ Enter \/ Chord \/ Interrupt \/ Generated
            \/ \E t \in stashed : Recall(t)
            \/ ClearContext \/ Copy \/ ManageGoal
            \/ \E i \in DOMAIN ledger : HandleRestore(i)

Works(k) == \/ GoalConfigured(k) \/ RecoveryEnds(k) \/ TurnBegins(k) \/ TurnCloses(k) \/ RestoreEnds(k)
            \/ interrupted /\ TurnEnds(k)

Handles == OnSubmit \/ OnSteer \/ OnQueueMessage
Waits == ClearProceeds \/ ClearGivesUp \/ TimesOut
RestoreMoves == RestoreWaits \/ RestoreProceeds
Learns == TurnStarted \/ TurnFinished \/ Submitted \/ GoalReturns \/ Answered \/ Restored

TurnsNext == \/ UserActs \/ Handles \/ Waits \/ RestoreMoves \/ Learns \/ Receives
             \/ \E k \in tasks : Works(k) \/ StepBoundary(k) \/ TurnEnds(k) \/ OpEnds(k)

\* Both loops go on, file work ends, clocks run, and a turn that was asked to stop stops at
\* a step boundary.  Neither a turn of its own accord nor an operation of the context
\* module has to end.
Fairness == /\ WF_turnsVars(Handles) /\ WF_turnsVars(Waits) /\ WF_turnsVars(RestoreMoves) /\ WF_turnsVars(Learns)
            /\ WF_turnsVars(Receives)
            /\ \A kind \in TurnKinds \cup {"restore"} :
                 WF_turnsVars(\E k \in tasks : k.kind = kind /\ Works(k))

TurnsSpec == TurnsInit /\ [][TurnsNext]_turnsVars /\ Fairness

-----------------------------------------------------------------------------
(* Properties *)

OnContext == {k \in tasks : k.phase \in {"run", "finish", "work"}}

\* A clear, a compaction, a snapshot, a restore and a prompt's turn until it is saved never
\* work on the context together; a restore beside a turn that is being saved, and anything
\* beside a goal's turn, are the overlaps the fences let through (see Exclusive).
OneAtTheContext ==
  \A j, k \in OnContext : \/ j = k \/ "goal" \in {j.kind, k.kind}
                          \/ "restore" \in {j.kind, k.kind} /\ "finish" \in {j.phase, k.phase}

\* Nobody works on the context beside anybody else (not so: see the README).
Exclusive == Cardinality(OnContext) <= 1

InFlight(t) ==
  \/ \E i \in DOMAIN toRuntime : toRuntime[i].do \in {"prompt", "queued"} /\ t \in toRuntime[i].text
  \/ \E k \in tasks : k.phase \in {"retry", "begin"} /\ t \in k.text
  \/ \E i \in DOMAIN toApp : toApp[i].do \in {"prompt", "queued"} /\ ~toApp[i].begun /\ t \in toApp[i].text

Places(m) ==
  LET B(b) == IF b THEN 1 ELSE 0
  IN B(m \in composer) + Cardinality({t \in stashed : m \in t}) + B(posted # << >> /\ m \in posted[1].text)
     + B(m \in slot) + B(m \in steer) + B(InFlight(m)) + runs[m] + B(m \in ended)

\* Whatever the user wrote is in exactly one place: visible or recallable, on its way, the
\* prompt of one turn, or used up as a steer, by a second queued message or with a word
\* of it in the log.
MessagesKept == \A m \in Msgs : Places(m) = IF m <= written THEN 1 ELSE 0

\* Again and again no fence is up: no failure, refusal, cancelled call or interrupted turn
\* leaves one that keeps the user from ever prompting again.
FencesLift == []<>(admission = {} /\ ~goalPending /\ operation = "no" /\ ~Restoring)

\* A steer is heard by the turn it was meant for (not so: see the README).
SteersKeepTurn == [][\A k \in tasks : StepBoundary(k) => ~stale]_turnsVars
=============================================================================
