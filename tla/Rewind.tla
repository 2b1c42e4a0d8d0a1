------------------------------- MODULE Rewind -------------------------------
(***************************************************************************)
(* Rewind: restoring a conversation to before one of its turns             *)
(* (kernel/runtime.py) over the files of the session (kernel/persistence): *)
(* the transcript, the event log, the intent of a restore; over the        *)
(* lineage of the code checkpoints and its own intent (kernel/checkpoints) *)
(* and over the ledger of the interface (ui/reducer.py, model/turn.py),    *)
(* which only lives in memory and is replayed from the log.                *)
(*                                                                         *)
(* The process may be killed between any two steps and started again; the  *)
(* disk may refuse a write of a restore or of its recovery. What the       *)
(* checkpoints do to the files of the workspace is the module Checkpoints. *)
(***************************************************************************)
EXTENDS Integers, SequencesExt, FiniteSetsExt

CONSTANTS MaxTurns,     \* bound: turns ever begun
          MaxRestores,  \* bound: restores ever confirmed
          MaxKills,     \* bound: kills of the process
          MaxFaults     \* bound: writes the disk refuses

ASSUME RewindAssumption == {MaxTurns, MaxRestores, MaxKills, MaxFaults} \subseteq Nat

VARIABLES
  saved,     \* transcript.jsonl: the turns it holds, in order
  log,       \* ui-events.jsonl: turns and rewind markers
  intent,    \* rewind-intent.json, at most one
  branch,    \* the staged visible branch of the checkpoint store, at most one
  order,     \* the checkpoints that are active, one for each turn
  ctx,       \* the live context: its turns
  ledger,    \* OutcomeLedger: checkpoints and their boundaries in the context
  base,      \* turn_base: where the context ends if the ledger is empty
  mark,      \* IncrementalSaver._last_message_count
  gate,      \* _rewind_recovery_pending, .._disk_reconciled, _workspace_reconcile_pending
  pc, plan,  \* what the process is doing, and the restore it is doing
  told,      \* the conversations the user may find, after what he was told
  cutShort,  \* some turn was killed
  apart,     \* the context was changed behind the saver: a rollback was refused, or /clear
  warned,    \* the start said that history and scrollback may differ
  next, restores, kills, faults

disk   == <<saved, log, intent, branch, order>>
memory == <<ctx, ledger, base, mark, gate>>
counts == <<next, restores, kills>>
seen   == <<told, cutShort, apart, warned>>
vars   == <<disk, memory, pc, plan, seen, counts, faults>>

Turns == 1 .. MaxTurns
Open  == [pending |-> FALSE, written |-> FALSE, branch |-> FALSE]
NoPlan == [scope |-> "none", cut |-> 0, kept |-> 0, orig |-> << >>, id |-> 0]
Scopes == {"none", "both", "conversation", "start", "retry"}
Restoring == plan.scope \in {"both", "conversation"}

TypeOK ==
  /\ {saved, ctx, order} \subseteq Seq(Turns)
  /\ log \in Seq([turn : Turns, closed : BOOLEAN] \cup [marker : Nat, kept : Nat])
  /\ Cardinality(intent) <= 1 /\ Cardinality(branch) <= 1
  /\ \A i \in intent : i.turns \in Seq(Turns) /\ i.kept \in Nat /\ i.ready \in BOOLEAN
  /\ \A b \in branch : b.visible \subseteq Turns /\ b.marker \in 1 .. restores
  /\ ledger \in Seq([turn : Turns, before : Nat]) /\ base \in Nat
  /\ mark \in 0 .. 2 * MaxTurns
  /\ gate \in [pending : BOOLEAN, written : BOOLEAN, branch : BOOLEAN]
  /\ plan.scope \in Scopes /\ plan.cut \in 0 .. Len(plan.orig)
  /\ told # {} /\ told \subseteq Seq(Turns)
  /\ pc \in {"idle", "down", "failed", "begun", "running", "ended", "stage", "set", "abort",
             "unstage", "apply", "code", "undo", "arm", "save", "write", "mark", "unlink",
             "branch", "open"}

Init ==
  /\ saved = << >> /\ log = << >> /\ intent = {} /\ branch = {} /\ order = << >>
  /\ ctx = << >> /\ ledger = << >> /\ base = 0 /\ mark = 0 /\ gate = Open
  /\ pc = "idle" /\ plan = NoPlan
  /\ told = {<< >>} /\ cutShort = FALSE /\ apart = FALSE /\ warned = FALSE
  /\ next = 1 /\ restores = 0 /\ kills = 0 /\ faults = 0

\* The disk refuses a write.
Fault == faults < MaxFaults /\ faults' = faults + 1

-----------------------------------------------------------------------------
(* Turns *)

\* Where the next turn begins in the context.
Boundary == IF ledger = << >> THEN base ELSE Last(ledger).before + 1

\* maybe_save: a turn in progress is its prompt, a finished one also its answer.
SaveIfGrown(count) ==
  IF count > mark THEN saved' = ctx /\ mark' = count ELSE UNCHANGED <<saved, mark>>

\* Mutant: the prompt is sent although a restore has to be recovered.
BeginUngated ==
  /\ pc = "idle" /\ next <= MaxTurns
  /\ order' = Append(order, next) /\ next' = next + 1 /\ pc' = "begun"
  /\ UNCHANGED <<saved, log, intent, branch, memory, plan, seen, restores, kills, faults>>

\* The code checkpoint is cut before the prompt is echoed.
Begin ==
  /\ pc = "idle" /\ ~gate.pending /\ next <= MaxTurns
  /\ order' = Append(order, next) /\ next' = next + 1 /\ pc' = "begun"
  /\ UNCHANGED <<saved, log, intent, branch, memory, plan, seen, restores, kills, faults>>

\* PromptSubmit, and execute appends the prompt to the context.
Submit ==
  /\ pc = "begun"
  /\ log' = Append(log, [turn |-> next - 1, closed |-> FALSE])
  /\ ctx' = Append(ctx, next - 1) /\ pc' = "running"
  /\ UNCHANGED <<saved, intent, branch, order, ledger, base, mark, gate, plan, seen, counts, faults>>

ToolPost ==
  /\ pc = "running" /\ SaveIfGrown(2 * Len(ctx) - 1)
  /\ UNCHANGED <<log, intent, branch, order, ctx, ledger, base, gate, pc, plan, seen, counts, faults>>

\* The end of the turn, by itself or interrupted.
Finish ==
  /\ pc = "running" /\ SaveIfGrown(2 * Len(ctx)) /\ pc' = "ended"
  /\ UNCHANGED <<log, intent, branch, order, ctx, ledger, base, gate, plan, seen, counts, faults>>

\* PromptComplete: the interface records the turn.
CloseOut ==
  /\ pc = "ended"
  /\ log' = [log EXCEPT ![Len(log)].closed = TRUE]
  /\ ledger' = Append(ledger, [turn |-> next - 1, before |-> Boundary])
  /\ told' = {ctx} /\ pc' = "idle"
  /\ UNCHANGED <<saved, intent, branch, order, ctx, base, mark, gate, plan, cutShort, apart, warned, counts, faults>>

\* /clear: the context and the restore points, but not the saver's watermark.
Clear ==
  /\ pc = "idle"
  /\ ctx' = << >> /\ ledger' = << >> /\ base' = 0
  /\ told' = {<< >>} /\ apart' = TRUE
  /\ UNCHANGED <<disk, mark, gate, pc, plan, cutShort, warned, counts, faults>>

-----------------------------------------------------------------------------
(* A restore *)

Sliced == SubSeq(plan.orig, 1, plan.cut)
VisibleBefore == {ledger[i].turn : i \in 1 .. plan.kept}

\* Back to idle with the conversation the user is told of.
Settle(conv) == pc' = "idle" /\ plan' = NoPlan /\ told' = {conv}

\* The user confirms a checkpoint: the intent is on disk before anything changes.
Restore(i, scope) ==
  /\ pc = "idle" /\ ~gate.pending /\ restores < MaxRestores
  /\ i \in DOMAIN ledger /\ ledger[i].before <= Len(ctx)
  /\ restores' = restores + 1
  /\ plan' = [scope |-> scope, cut |-> ledger[i].before, kept |-> i - 1, orig |-> ctx, id |-> restores']
  /\ intent' = {[marker |-> restores', kept |-> i - 1, turns |-> SubSeq(ctx, 1, ledger[i].before),
                 ready |-> scope = "conversation"]}
  /\ pc' = IF scope = "conversation" THEN "stage" ELSE "apply"
  /\ UNCHANGED <<saved, log, branch, order, memory, seen, next, kills, faults>>

\* Conversation only: the branch to keep is staged too, before the context changes.
Stage ==
  /\ pc = "stage"
  /\ \/ /\ branch' = {[marker |-> plan.id, visible |-> VisibleBefore]}
        /\ gate' = [gate EXCEPT !.branch = TRUE]
        /\ pc' = "set" /\ UNCHANGED faults
     \/ /\ Fault /\ pc' = "abort" /\ UNCHANGED <<branch, gate>>
  /\ UNCHANGED <<saved, log, intent, order, ctx, ledger, base, mark, plan, seen, counts>>

\* set_messages; the module may refuse.
SetMessages ==
  /\ pc \in {"set", "apply"}
  /\ \/ /\ ctx' = Sliced /\ pc' = IF pc = "set" THEN "save" ELSE "code"
        /\ UNCHANGED faults
     \/ /\ Fault /\ pc' = "abort" /\ UNCHANGED ctx
  /\ UNCHANGED <<disk, ledger, base, mark, gate, plan, seen, counts>>

\* cancel_rewind_intent, after a restore that did not begin.
Abort ==
  /\ pc = "abort"
  /\ \/ /\ intent' = {} /\ UNCHANGED faults
        /\ IF branch # {} THEN pc' = "unstage" /\ UNCHANGED <<plan, told>> ELSE Settle(plan.orig)
     \/ /\ Fault /\ Settle(plan.orig) /\ UNCHANGED intent
  /\ UNCHANGED <<saved, log, branch, order, memory, cutShort, apart, warned, counts>>

\* cancel_visible_reconcile.
Unstage ==
  /\ pc = "unstage" /\ Settle(plan.orig)
  /\ \/ branch' = {} /\ gate' = [gate EXCEPT !.branch = FALSE] /\ UNCHANGED faults
     \/ Fault /\ UNCHANGED <<branch, gate>>
  /\ UNCHANGED <<saved, log, intent, order, ctx, ledger, base, mark, cutShort, apart, warned, counts>>

\* Both: the files are restored, or had been before, or only some of them are.
Code ==
  /\ pc = "code"
  /\ \/ /\ pc' = "arm"
        /\ LET target == ledger[plan.kept + 1].turn
           IN order' = IF Contains(order, target)
                       THEN SubSeq(order, 1, SelectInSeq(order, LAMBDA t : t = target) - 1) ELSE order
     \/ pc' = "undo" /\ UNCHANGED order
  /\ UNCHANGED <<saved, log, intent, branch, memory, plan, seen, counts, faults>>

\* rollback_combined_conversation.
Undo ==
  /\ pc = "undo" /\ ctx' = plan.orig /\ Settle(plan.orig)
  /\ \/ intent' = {} /\ UNCHANGED faults
     \/ Fault /\ UNCHANGED intent
  /\ UNCHANGED <<saved, log, branch, order, ledger, base, mark, gate, cutShort, apart, warned, counts>>

\* Its set_messages may refuse too: the context stays cut off, and nothing else
\* is taken back or followed up.
UndoRefused ==
  /\ pc = "undo" /\ Fault
  /\ pc' = "idle" /\ plan' = NoPlan
  /\ told' = {plan.orig, Sliced} /\ apart' = TRUE
  /\ UNCHANGED <<disk, memory, cutShort, warned, counts>>

\* The files are restored: from here on a start completes the restore.
Arm ==
  /\ pc = "arm"
  /\ \/ intent' = {[i EXCEPT !.ready = TRUE] : i \in intent} /\ pc' = "save" /\ UNCHANGED faults
     \/ Fault /\ pc' = "undo" /\ UNCHANGED intent
  /\ UNCHANGED <<saved, log, branch, order, memory, plan, seen, counts>>

\* force_save; a failure is left to the reconciliation.
ForceSave ==
  /\ pc = "save" /\ pc' = "write"
  /\ \/ saved' = ctx /\ mark' = 2 * Len(ctx) /\ UNCHANGED faults
     \/ Fault /\ UNCHANGED <<saved, mark>>
  /\ UNCHANGED <<log, intent, branch, order, ctx, ledger, base, gate, plan, seen, counts>>

-----------------------------------------------------------------------------
(* reconcile_rewind_intent: after a restore, at a start, before a retry.   *)

Durable(id) == \E k \in DOMAIN log : "marker" \in DOMAIN log[k] /\ log[k].marker = id

\* A write of the reconciliation fails: the gate closes, or stays closed.
Deferred ==
  /\ Fault
  /\ gate' = [gate EXCEPT !.pending = TRUE]
  /\ CASE Restoring -> IF plan.scope = "conversation"
                       THEN /\ Settle(Sliced) /\ UNCHANGED warned
                            /\ ledger' = SubSeq(ledger, 1, plan.kept) /\ base' = plan.cut
                       ELSE pc' = "branch" /\ UNCHANGED <<plan, told, warned, ledger, base>>
       [] plan.scope = "start" -> pc' = "open" /\ warned' = TRUE /\ UNCHANGED <<plan, told, ledger, base>>
       [] plan.scope = "retry" -> /\ pc' = "idle" /\ plan' = NoPlan
                                  /\ UNCHANGED <<told, warned, ledger, base>>
  /\ UNCHANGED <<disk, ctx, mark, cutShort, apart, counts>>

WriteTranscript ==
  /\ pc = "write" /\ intent # {}
  /\ \/ saved' = (CHOOSE i \in intent : TRUE).turns /\ pc' = "mark"
        /\ UNCHANGED <<log, intent, branch, order, memory, plan, seen, counts, faults>>
     \/ Deferred

AppendMarker ==
  /\ pc = "mark"
  /\ \/ /\ log' = LET i == CHOOSE x \in intent : TRUE
                  IN IF Durable(i.marker) THEN log ELSE Append(log, [marker |-> i.marker, kept |-> i.kept])
        /\ pc' = "unlink"
        /\ UNCHANGED <<saved, intent, branch, order, memory, plan, seen, counts, faults>>
     \/ Deferred

\* Only now is the restore complete on disk.
Unlink ==
  /\ pc = "unlink"
  /\ \/ /\ intent' = {}
        /\ pc' = IF plan.scope = "start" THEN "open" ELSE "branch"
        /\ mark' = IF Restoring THEN 2 * plan.cut ELSE mark
        /\ gate' = [gate EXCEPT !.pending = @ /\ ~Restoring, !.written = plan.scope = "retry"]
        /\ UNCHANGED <<saved, log, branch, order, ctx, ledger, base, plan, seen, counts, faults>>
     \/ Deferred

-----------------------------------------------------------------------------
(* reconcile_visible: the checkpoints of the turns that are gone are folded *)
(* into the last one that is left.                                         *)

\* The branch must be a contiguous prefix of what is left of it.
Fits(visible) == \A j \in DOMAIN order : order[j] \in visible => \A i \in 1 .. j : order[i] \in visible
KeptOf(visible) == SelectSeq(order, LAMBDA t : t \in visible)

\* reconcile_staged_visible succeeds.
BranchCommitted ==
  /\ branch # {}
  /\ \A b \in branch : Durable(b.marker) /\ Fits(b.visible) /\ order' = KeptOf(b.visible)
  /\ branch' = {}

BranchRefused == \A b \in branch : ~Durable(b.marker) \/ ~Fits(b.visible)

\* The end of a restore; then the interface trims its ledger.
Reconcile ==
  /\ pc = "branch" /\ Restoring
  /\ IF plan.scope = "conversation"
     THEN \/ BranchCommitted /\ gate' = [gate EXCEPT !.branch = FALSE] /\ UNCHANGED faults
          \/ /\ (BranchRefused /\ UNCHANGED faults) \/ Fault
             /\ gate' = [gate EXCEPT !.pending = TRUE, !.written = TRUE]
             /\ UNCHANGED <<order, branch>>
     ELSE /\ UNCHANGED <<branch, gate>>
          /\ \/ Fits(VisibleBefore) /\ order' = KeptOf(VisibleBefore) /\ UNCHANGED faults
             \/ (~Fits(VisibleBefore) /\ UNCHANGED faults) /\ UNCHANGED order
             \/ Fault /\ UNCHANGED order
  /\ ledger' = SubSeq(ledger, 1, plan.kept) /\ base' = plan.cut
  /\ Settle(Sliced)
  /\ UNCHANGED <<saved, log, intent, ctx, mark, cutShort, apart, warned, counts>>

\* _retry_rewind_recovery, at the next submit or restore.
Retry ==
  /\ pc = "idle" /\ gate.pending
  /\ \/ gate.written /\ pc' = "branch"
     \/ ~gate.written /\ intent # {} /\ pc' = "write"
  /\ plan' = [NoPlan EXCEPT !.scope = "retry"]
  /\ UNCHANGED <<disk, memory, seen, counts, faults>>

\* The live context is replaced by what is on disk, then the branch committed.
RetryBranch ==
  /\ pc = "branch" /\ plan.scope = "retry"
  /\ ctx' = saved
  /\ \/ /\ IF gate.branch THEN BranchCommitted ELSE UNCHANGED <<order, branch>>
        /\ gate' = Open /\ mark' = 2 * Len(saved) /\ UNCHANGED faults
     \/ /\ (gate.branch /\ BranchRefused /\ UNCHANGED faults) \/ Fault
        /\ UNCHANGED <<order, branch, gate, mark>>
  /\ pc' = "idle" /\ plan' = NoPlan
  /\ UNCHANGED <<saved, log, intent, ledger, base, seen, counts>>

-----------------------------------------------------------------------------
(* Kills and starts *)

Kill ==
  /\ pc \notin {"down", "failed"} /\ kills < MaxKills
  /\ kills' = kills + 1 /\ pc' = "down" /\ plan' = NoPlan
  /\ told' = CASE pc \in {"running", "ended"} -> {ctx, Front(ctx)}
               [] Restoring -> {plan.orig, Sliced}
               [] OTHER -> told
  /\ cutShort' = (cutShort \/ pc \in {"begun", "running", "ended"})
  /\ ctx' = << >> /\ ledger' = << >> /\ base' = 0 /\ mark' = 0 /\ gate' = Open
  /\ UNCHANGED <<disk, apart, warned, next, restores, faults>>

\* Mutant: an intent that was not armed is completed too.
StartArmed ==
  /\ pc = "down"
  /\ pc' = IF intent = {} THEN "open" ELSE "write"
  /\ plan' = [NoPlan EXCEPT !.scope = "start"]
  /\ UNCHANGED <<disk, memory, seen, counts, faults>>

\* load: an intent that is ready is completed, any other one dropped.
Start ==
  /\ pc = "down"
  /\ intent' = {i \in intent : i.ready}
  /\ pc' = IF intent' = {} THEN "open" ELSE "write"
  /\ plan' = [NoPlan EXCEPT !.scope = "start"]
  /\ UNCHANGED <<saved, log, branch, order, memory, seen, counts, faults>>

\* Mutant: the turns a restore has removed are replayed like the others.
ReplayedGhosts == SelectSeq(log, LAMBDA r : "turn" \in DOMAIN r)

\* drop_rewound_events: the turns the markers leave.
Replayed == FoldLeft(LAMBDA turns, r : IF "marker" \in DOMAIN r
                                       THEN SubSeq(turns, 1, IF r.kept < Len(turns) THEN r.kept ELSE Len(turns))
                                       ELSE Append(turns, r),
                     << >>, log)

\* replay: a turn that begins while another one is open raises.
Raises(turns) == \E k \in 1 .. Len(turns) - 1 : ~turns[k].closed
\* replay: a ledger that does not end where the transcript does is cleared.
LedgerOf(turns) == IF Len(turns) # Len(saved) THEN << >>
                   ELSE [k \in 1 .. Len(saved) |-> [turn |-> turns[k].turn, before |-> k - 1]]

\* The checkpoint store is opened, then the interface replays the log.
Opened ==
  /\ pc = "open"
  /\ \/ branch # {} /\ Fault /\ pc' = "down" /\ UNCHANGED <<order, branch, memory>>
     \/ /\ UNCHANGED faults
        /\ \/ BranchCommitted
           \/ BranchRefused /\ UNCHANGED <<order, branch>>
        /\ IF (\E b \in branch' : Durable(b.marker)) \/ Raises(Replayed)
           THEN pc' = "failed" /\ UNCHANGED memory
           ELSE /\ pc' = "idle" /\ ctx' = saved /\ mark' = 0
                /\ base' = Len(saved) /\ ledger' = LedgerOf(Replayed)
                /\ gate' = [pending |-> gate.pending \/ branch' # {},
                            written |-> branch' # {} /\ ~gate.pending, branch |-> branch' # {}]
  /\ plan' = NoPlan
  /\ UNCHANGED <<saved, log, intent, seen, counts>>

Next ==
  \/ Begin \/ Submit \/ ToolPost \/ Finish \/ CloseOut \/ Clear
  \/ \E i \in DOMAIN ledger, scope \in {"both", "conversation"} : Restore(i, scope)
  \/ Stage \/ SetMessages \/ Abort \/ Unstage \/ Code \/ Undo \/ UndoRefused \/ Arm \/ ForceSave
  \/ WriteTranscript \/ AppendMarker \/ Unlink \/ Reconcile
  \/ Retry \/ RetryBranch \/ Kill \/ Start \/ Opened

Spec == Init /\ [][Next]_vars

-----------------------------------------------------------------------------
(* Properties *)

Quiet == pc = "idle" /\ ~gate.pending

\* A restore the user is told of has happened and stays, one he is told has
\* failed never does, at no later start either; one that is cut off by a kill
\* happens wholly or not at all, and no other turn is lost with it. Once the
\* context was changed behind the saver its watermark is ahead, and what is said
\* from there on may not be saved.
ConversationAsTold == Quiet /\ ~apart => ctx \in told

\* No turn runs while the record of a restore waits on disk for a start to
\* complete it: that start would cut the turn off.
TurnsAfterRecovery ==
  pc \in {"begun", "running", "ended"} => branch = {} /\ \A i \in intent : ~i.ready

\* As long as no turn was killed and the context not changed behind the saver, the
\* restore points of the interface are those of the conversation, each with its
\* boundary, over restores, kills and starts.
RestorePoints ==
  Quiet /\ ~cutShort /\ ~apart /\ ~warned =>
    ledger = [k \in DOMAIN ctx |-> [turn |-> ctx[k], before |-> k - 1]]

\* As they would be were the watermark lowered with the context.
AlwaysAsTold == Quiet => ctx \in told
AlwaysRestorable ==
  Quiet /\ ~cutShort /\ ~warned => ledger = [k \in DOMAIN ctx |-> [turn |-> ctx[k], before |-> k - 1]]

\* docs/USER-GUIDE.md:574: "Saving is incremental (after every tool call), so
\* even a crash loses almost nothing. [..] `resume SESSION_ID' picks one back up
\* with history, cost, and the newest 100 restore points intact".
Resumes == pc # "failed"

=============================================================================
