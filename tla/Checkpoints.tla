---------------------------- MODULE Checkpoints ----------------------------
(***************************************************************************)
(* The private undo of one session (kernel/checkpoints.py): a checkpoint   *)
(* before every prompt, the files' states around each tool call, and a     *)
(* restore that puts back what a file held before a prompt, comparing and  *)
(* renaming file by file under a journal.                                  *)
(*                                                                         *)
(* One process at a time owns the store; `pc' is where it is in an         *)
(* operation, one action per durable write, since the process may be       *)
(* killed and the disk may fill up between any two.  The user edits files  *)
(* whenever he likes.  A state is what the store compares: a content and   *)
(* an inode.                                                               *)
(***************************************************************************)
EXTENDS Integers, SequencesExt

CONSTANTS Paths, Ids,      \* files, checkpoint ids
          Calls,           \* tool calls in flight
          NoId,
          Present,         \* the files that are there at first
          Inclusions,      \* values of include_target (the runtime gives TRUE)
          MaxCheckpoints,  \* max_checkpoints
          MaxCalls,        \* bound: tool calls made
          MaxJournals,     \* bound: restores begun
          MaxRetries,      \* bound: restores beyond them, begun while one must be retried
          MaxEdits,        \* bound: edits by the user
          MaxKills,        \* bound: kills
          MaxFulls,        \* bound: times the disk fills up
          MaxMishaps       \* bound: edits and full disks together

ASSUME CheckpointAssumption ==
  /\ NoId \notin Ids /\ Present \subseteq Paths /\ Inclusions \subseteq BOOLEAN
  /\ MaxCheckpoints \in Nat \ {0}
  /\ {MaxCalls, MaxJournals, MaxRetries, MaxEdits, MaxKills, MaxFulls, MaxMishaps} \subseteq Nat

VARIABLES
  file,      \* the workspace
  order, used, manifest,   \* index.json and the manifests
  pending,   \* the records of tool calls that have not ended
  txn,       \* restore-transaction.json, or NoTxn
  journals,  \* the restore journals, oldest first
  up, active, gate,        \* the process; its open checkpoint; _recovery_required
  calls,     \* the tool calls of the turn
  pc, op, scan,            \* the operation in progress; journals still to look at
  run,       \* the restore in progress
  full,      \* the disk is full
  clock,     \* contents and inodes made so far
  made, edits, kills, fulls,   \* how much of the bounds is used
  mine,      \* history: the contents the user wrote
  windowed,  \* history: files written inside a window nothing can see
  blessed,   \* history: files whose trail was moved over a gap
  strange,   \* history: files touched by others than one tool at a time
  missed,    \* history: files a tool wrote without record
  origin     \* history: what a file held before the turn's first write to it

disk == <<order, used, manifest, pending, txn, journals>>
memory == <<up, active, gate, calls>>
work == <<pc, op, scan, run>>
bounds == <<clock, made, edits, kills, fulls>>
history == <<mine, windowed, blessed, strange, missed, origin>>
vars == <<file, disk, memory, work, full, bounds, history>>

Absent == [data |-> 0, ino |-> 0]
States == {Absent} \cup [data : Nat \ {0}, ino : Nat \ {0}]
Unsafe == [data |-> -1, ino |-> 0]   \* kind "skipped"
Never == Unsafe
Changes == [before : States, after : States]
NoOps == [p \in Paths |-> << >>]
Manifests == [st : {"none", "open", "done", "retired"}, ops : [Paths -> Seq(Changes)],
              warn : SUBSET Paths, blind : BOOLEAN]
Blank(st) == [st |-> st, ops |-> NoOps, warn |-> {}, blind |-> FALSE]
NoTxn == [order |-> << >>, manifest |-> << >>]
NoRun == [id |-> NoId]
NoOp == [kind |-> "none"]
Idle == [st |-> "idle"]
Updates == [order : Seq(Ids), manifest : [Ids -> Manifests]]
Journals == [id : Ids, incl : BOOLEAN, ret : BOOLEAN, fin : BOOLEAN, rr : BOOLEAN]
Runs == [id : Ids, incl : BOOLEAN, ret : BOOLEAN, from : Nat, jr : Nat, todo : SUBSET Paths, cur : SUBSET Paths,
         got : [Paths -> States \cup {Never}], jok : BOOLEAN, clean : BOOLEAN, rr : BOOLEAN]

TypeOK ==
  /\ file \in [Paths -> States] /\ {clock, made} \subseteq Nat /\ {up, full} \subseteq BOOLEAN
  /\ order \in Seq(Ids) /\ used \subseteq Ids /\ IsInjective(order) /\ Range(order) \subseteq used
  /\ manifest \in [Ids -> Manifests]
  /\ pending \subseteq [id : Ids, call : 1 .. made, path : Paths, before : States \cup {Unsafe}]
  /\ txn \in Updates \cup {NoTxn} /\ journals \in Seq(Journals)
  /\ active \in Range(order) \cup {NoId} /\ gate \subseteq Ids
  /\ calls \in [Calls -> [st : {"pre", "ran", "posted", "lost"}, path : Paths, call : 1 .. made] \cup {Idle}]
  /\ run \in Runs \cup {NoRun} /\ scan \subseteq DOMAIN journals
  /\ op.kind \in {"begin", "restore"} => op.id \in Ids
  /\ op.kind = "restore" => {op.incl, op.ret} \subseteq BOOLEAN
  /\ op.kind = "reconcile" => op.keep \in Nat
  /\ active # NoId => up /\ pc = "idle"
  /\ pc = "idle" => run = NoRun /\ op = NoOp /\ scan = {}
  /\ \A j \in DOMAIN journals : journals[j].rr => journals[j].fin

Init ==
  /\ file = [p \in Paths |-> IF p \in Present THEN [data |-> 1, ino |-> 1] ELSE Absent]
  /\ order = << >> /\ used = {} /\ manifest = [c \in Ids |-> Blank("none")]
  /\ pending = {} /\ txn = NoTxn /\ journals = << >>
  /\ up = TRUE /\ active = NoId /\ gate = {} /\ calls = [k \in Calls |-> Idle]
  /\ pc = "idle" /\ op = NoOp /\ scan = {} /\ run = NoRun
  /\ full = FALSE /\ clock = 1 /\ made = 0 /\ edits = 0 /\ kills = 0 /\ fulls = 0
  /\ mine = {} /\ windowed = {} /\ blessed = {} /\ strange = {} /\ missed = {}
  /\ origin = [c \in Ids |-> [p \in Paths |-> Never]]

-----------------------------------------------------------------------------
(* The turn: begun under "go" below, its tool calls, its end *)

InTurn == up /\ active # NoId
Record(k) == {r \in pending : r.call = calls[k].call}   \* call ids are unique
Became(k, c) == calls' = [calls EXCEPT ![k] = c]
Save(c, m) == manifest' = [manifest EXCEPT ![c] = m]

\* tool:pre, before the tool runs: the state of its target, on disk.  A hook
\* that cannot write cannot warn either, and never stops the tool.
Pre(k, p) ==
  /\ InTurn /\ calls[k] = Idle /\ made < MaxCalls /\ made' = made + 1
  /\ \/ ~full /\ \E before \in {file[p], Unsafe} :
          pending' = pending \cup {[id |-> active, call |-> made', path |-> p, before |-> before]}
     \/ full /\ UNCHANGED pending
  /\ Became(k, [st |-> IF full THEN "lost" ELSE "pre", path |-> p, call |-> made'])
  /\ strange' = strange \cup {q \in {p} : \E l \in Calls : calls[l] # Idle /\ calls[l].path = q}
  /\ UNCHANGED <<file, order, used, manifest, txn, journals, up, active, gate, work, full, clock, edits, kills, fulls,
                 mine, windowed, blessed, missed, origin>>

\* A call without an id, or whose target nobody can tell: a warning for all.
PreUnknown(k, p) ==
  /\ InTurn /\ calls[k] = Idle /\ ~full /\ made < MaxCalls /\ made' = made + 1
  /\ Save(active, [manifest[active] EXCEPT !.blind = TRUE])
  /\ Became(k, [st |-> "pre", path |-> p, call |-> made'])
  /\ strange' = strange \cup {p}
  /\ UNCHANGED <<file, order, used, pending, txn, journals, up, active, gate, work, full, clock, edits, kills, fulls,
                 mine, windowed, blessed, missed, origin>>

\* The tool itself: a new content in place, a new file, or none.
ToolWrite(k) ==
  /\ InTurn /\ calls[k] # Idle /\ calls[k].st \in {"pre", "lost"}
  /\ LET p == calls[k].path IN
       /\ \E new \in {[data |-> clock + 1, ino |-> IF file[p] = Absent THEN clock + 1 ELSE file[p].ino],
                      Absent} : new # file[p] /\ file' = [file EXCEPT ![p] = new]
       /\ origin' = [origin EXCEPT ![active][p] = IF @ = Never THEN file[p] ELSE @]
       /\ missed' = IF calls[k].st = "lost" THEN missed \cup {p} ELSE missed
       /\ windowed' = windowed \cup {q \in {p} : \E l \in Calls \ {k} : calls[l] # Idle /\ calls[l].path = q}
       /\ Became(k, IF calls[k].st = "lost" THEN Idle ELSE [calls[k] EXCEPT !.st = "ran"])
  /\ clock' = IF file'[calls[k].path] = Absent THEN clock ELSE clock + 1
  /\ UNCHANGED <<disk, up, active, gate, work, full, made, edits, kills, fulls, mine, blessed, strange>>

\* tool:post or tool:error: the state after, a change if it differs; then the
\* record goes.  When the manifest cannot be written the record stays.
Post(k) ==
  /\ InTurn /\ calls[k] # Idle /\ calls[k].st \in {"pre", "ran"}
  /\ IF full \/ Record(k) = {}
     THEN Became(k, Idle) /\ UNCHANGED manifest
     ELSE \E r \in Record(k) :
       /\ Became(k, [calls[k] EXCEPT !.st = "posted"])
       /\ LET m == manifest[active]
              change == [before |-> r.before, after |-> file[r.path]] IN
          Save(active, CASE r.before = Unsafe -> [m EXCEPT !.warn = @ \cup {r.path}]
                         [] r.before.data = file[r.path].data -> m
                         [] OTHER -> [m EXCEPT !.ops[r.path] = Append(@, change)])
  /\ UNCHANGED <<file, order, used, pending, txn, journals, up, active, gate, work, full, bounds, history>>

Discard(k) ==
  /\ InTurn /\ calls[k] # Idle /\ calls[k].st = "posted"
  /\ pending' = pending \ Record(k) /\ Became(k, Idle)
  /\ UNCHANGED <<file, order, used, manifest, txn, journals, up, active, gate, work, full, bounds, history>>

\* Mutant: the calls that never ended leave no warning.
FinalizedSilently(c) == [manifest[c] EXCEPT !.st = "done"]

\* A manifest closed over the calls that never ended: their targets are not
\* restorable any more.
Finalized(c) ==
  [manifest[c] EXCEPT !.st = "done", !.warn = @ \cup {r.path : r \in {x \in pending : x.id = c}}]

Finish ==
  /\ InTurn
  /\ active' = NoId /\ calls' = [k \in Calls |-> Idle]
  /\ IF full THEN UNCHANGED <<manifest, pending>>
     ELSE Save(active, Finalized(active)) /\ pending' = {r \in pending : r.id # active}
  /\ UNCHANGED <<file, order, used, txn, journals, up, gate, work, full, bounds, history>>

-----------------------------------------------------------------------------
(* _acquire_storage: what an earlier owner left is completed first *)

\* The runtime mints a new id for every prompt.
Fresh == {c \in Ids : c \notin used /\ manifest[c].st = "none"}
Ops == {[kind |-> "begin", id |-> CHOOSE c \in Fresh : TRUE] : x \in {c \in {1} : Fresh # {}}}
  \cup [kind : {"restore"}, id : Ids, incl : Inclusions, ret : BOOLEAN]
  \cup [kind : {"reconcile"}, keep : 0 .. MaxCheckpoints]

\* The journals whose restore must be retried.
HalfDone == {j \in DOMAIN journals : journals[j].rr}

\* Finished journals that ask for nothing are passed over.
Recover ==
  /\ scan' = {j \in DOMAIN journals : ~journals[j].fin} \cup HalfDone
  /\ pc' = IF txn # NoTxn THEN "txn" ELSE IF scan' # {} THEN "scan" ELSE "go"

Acquire(o) ==
  /\ up /\ active = NoId /\ pc = "idle"
  /\ o.kind = "restore" => Len(journals) < MaxJournals + (IF HalfDone # {} THEN MaxRetries ELSE 0)
  /\ op' = o /\ Recover /\ run' = NoRun
  /\ UNCHANGED <<file, disk, memory, full, bounds, history>>

Restart ==
  /\ ~up
  /\ up' = TRUE /\ op' = [kind |-> "init"] /\ Recover
  /\ UNCHANGED <<file, disk, active, gate, calls, run, full, bounds, history>>

\* The operation is over, or was refused; a store that could not be opened is
\* no store.
End ==
  /\ pc' = "idle" /\ op' = NoOp /\ scan' = {} /\ run' = NoRun
Refuse == End /\ up' = (op.kind # "init")

\* A branch update, begun here or by the owner before: manifests in the order of
\* the branch, then index, then the transaction is forgotten.
Place(id) == CHOOSE i \in DOMAIN order : order[i] = id
Unapplied == {c \in DOMAIN txn.manifest : txn.manifest[c] # manifest[c]}
ApplyManifest ==
  /\ pc \in {"txn", "apply"} /\ txn # NoTxn /\ ~full
  /\ \E c \in Unapplied :
       /\ \A d \in Unapplied : Place(c) <= Place(d)
       /\ Save(c, txn.manifest[c])
  /\ UNCHANGED <<file, order, used, pending, txn, journals, memory, work, full, bounds, history>>

ApplyIndex ==
  /\ pc \in {"txn", "apply"} /\ txn # NoTxn /\ ~full /\ Unapplied = {} /\ order # txn.order
  /\ order' = txn.order
  /\ UNCHANGED <<file, used, manifest, pending, txn, journals, memory, work, full, bounds, history>>

ApplyDone ==
  /\ pc \in {"txn", "apply"} /\ txn # NoTxn /\ Unapplied = {} /\ order = txn.order
  /\ txn' = NoTxn
  /\ IF run # NoRun
     THEN pc' = "close" /\ UNCHANGED <<op, scan, run, pending>>
     ELSE IF pc = "apply"
     THEN End /\ pending' = {r \in pending : r.id \in Range(order)}
     ELSE pc' = "scan" /\ UNCHANGED <<op, scan, run, pending>>
  /\ UNCHANGED <<file, order, used, manifest, journals, memory, full, bounds, history>>

ApplyError ==
  /\ pc \in {"txn", "apply"} /\ full /\ txn # NoTxn /\ (Unapplied # {} \/ order # txn.order)
  /\ IF run # NoRun
     THEN /\ pc' = "close" /\ run' = [run EXCEPT !.clean = FALSE, !.rr = TRUE]
          /\ gate' = gate \cup {run.id} /\ UNCHANGED <<op, scan, up>>
     ELSE Refuse /\ UNCHANGED gate
  /\ UNCHANGED <<file, disk, active, calls, full, bounds, history>>

Journal(j, f) == journals' = [journals EXCEPT ![j] = f]
Settled(j) == [journals[j] EXCEPT !.fin = TRUE, !.rr = FALSE]
NewRun(id, incl, ret, from) ==
  [id |-> id, incl |-> incl, ret |-> ret, from |-> from, jr |-> 0, todo |-> {}, cur |-> {},
   got |-> [p \in Paths |-> Never], jok |-> TRUE, clean |-> TRUE, rr |-> FALSE]

\* The next journal: settled, still gating, committed already, or to be resumed.
Scan ==
  /\ pc = "scan" /\ scan # {}
  /\ LET j == CHOOSE i \in scan : \A k \in scan : i <= k
         J == journals[j]
         gone == J.id \notin Range(order) IN
     /\ \/ /\ J.fin /\ ~(J.rr /\ gone)
           /\ gate' = IF J.rr THEN gate \cup {J.id} ELSE gate
           /\ scan' = scan \ {j} /\ UNCHANGED <<journals, up, pc, op, run>>
        \/ /\ gone /\ (J.rr \/ ~J.fin) /\ ~full
           /\ Journal(j, Settled(j))
           /\ gate' = IF J.fin THEN gate \ {J.id} ELSE gate
           /\ scan' = scan \ {j} /\ UNCHANGED <<up, pc, op, run>>
        \/ /\ gone /\ (J.rr \/ ~J.fin) /\ full
           /\ Refuse /\ UNCHANGED <<journals, gate>>
        \/ /\ ~J.fin /\ ~gone
           /\ run' = NewRun(J.id, J.incl, J.ret, j) /\ pc' = "plan"
           /\ scan' = scan \ {j} /\ UNCHANGED <<journals, gate, up, op>>
  /\ UNCHANGED <<file, order, used, manifest, pending, txn, active, calls, full, bounds, history>>

ScanDone ==
  /\ pc = "scan" /\ scan = {}
  /\ pc' = "go"
  /\ UNCHANGED <<file, disk, memory, op, scan, run, full, bounds, history>>

-----------------------------------------------------------------------------
(* restore *)

Start == IF run.incl THEN Place(run.id) ELSE Place(run.id) + 1
Selected == SubSeq(order, Start, Len(order))
Earlier == SubSeq(order, 1, Start - 1)
Chain(p, ids) == FlattenSeq([i \in DOMAIN ids |-> manifest[ids[i]].ops[p]])
Continuous(chain) == \A i \in 1 .. Len(chain) - 1 : chain[i].after = chain[i + 1].before
Expected(p) == Last(Chain(p, Selected)).after
Desired(p) == Head(Chain(p, Selected)).before
Warned(ids) == UNION {manifest[c].warn : c \in ids}
Blinded(ids) == \E c \in ids : manifest[c].blind

\* A turn that did not finish is closed first, before any file is touched.
Unfinished ==
  IF run # NoRun THEN {c \in Range(Selected) : manifest[c].st = "open"}
  ELSE IF op.kind = "reconcile" /\ op.keep > 0
       THEN {c \in Range(SubSeq(order, op.keep, Len(order))) : manifest[c].st = "open"}
       ELSE {}
CloseTurn ==
  /\ pc \in {"plan", "go"} /\ ~full
  /\ \E c \in Unfinished :
       Save(c, Finalized(c)) /\ pending' = {r \in pending : r.id # c}
  /\ UNCHANGED <<file, order, used, txn, journals, memory, work, full, bounds, history>>

\* The first write fails: nothing has been touched.
PlanError ==
  /\ pc = "plan" /\ full
  /\ IF run.from = 0 THEN End ELSE /\ pc' = "mark" /\ run' = [run EXCEPT !.clean = FALSE]
                                   /\ UNCHANGED <<op, scan>>
  /\ UNCHANGED <<file, disk, memory, full, bounds, history>>

\* The files the selected turns changed; those that can be put back; and of these,
\* the ones that are back already and the ones to be swapped.
Traced == {p \in Paths : Chain(p, Selected) # << >>}
Fit == IF Blinded(Range(Selected)) THEN {}
       ELSE {p \in Traced \ Warned(Range(Selected)) : Continuous(Chain(p, Selected))}
There == {p \in Fit : file[p].data = Desired(p).data}
ToSwap == {p \in Fit \ There : file[p] = Expected(p)}

Plan ==
  /\ pc = "plan" /\ ~full /\ Unfinished = {}
  /\ run' = [run EXCEPT !.jr = Len(journals) + 1, !.todo = ToSwap,
                        !.got = [p \in Paths |-> IF p \in There THEN file[p] ELSE Never],
                        !.clean = /\ ~Blinded(Range(Selected)) /\ Warned(Range(Selected)) = {}
                                  /\ Traced = There \cup ToSwap]
  /\ journals' = Append(journals, [id |-> run.id, incl |-> run.incl, ret |-> run.ret,
                                   fin |-> FALSE, rr |-> FALSE])
  /\ pc' = "files"
  /\ UNCHANGED <<file, order, used, manifest, pending, txn, memory, op, scan, full, bounds, history>>

\* Mutant: the last comparison before the rename is left out.
CompareBlindly(p) ==
  /\ pc = "files" /\ p \in run.todo
  /\ run' = [run EXCEPT !.todo = @ \ {p}, !.cur = {p}] /\ pc' = "swap"
  /\ UNCHANGED <<file, disk, memory, op, scan, full, bounds, history>>

\* _apply_restore up to its last comparison, the new content staged beside.
Compare(p) ==
  /\ pc = "files" /\ p \in run.todo
  /\ IF full
     THEN run' = [run EXCEPT !.todo = {}, !.clean = FALSE, !.jok = FALSE] /\ UNCHANGED pc
     ELSE IF file[p] # Expected(p)
     THEN run' = [run EXCEPT !.todo = @ \ {p}, !.clean = FALSE] /\ UNCHANGED pc
     ELSE run' = [run EXCEPT !.todo = @ \ {p}, !.cur = {p}] /\ pc' = "swap"
  /\ UNCHANGED <<file, disk, memory, op, scan, full, bounds, history>>

Swap ==
  /\ pc = "swap" /\ pc' = "files"
  /\ \E p \in run.cur :
       LET new == IF Desired(p) = Absent THEN Absent
                  ELSE [data |-> Desired(p).data, ino |-> clock + 1] IN
       /\ file' = [file EXCEPT ![p] = new]
       /\ run' = [run EXCEPT !.cur = {}, !.got[p] = new,
                             !.jok = @ /\ ~full, !.clean = @ /\ ~full,
                             !.todo = IF full THEN {} ELSE @]
  /\ clock' = IF file' = [file EXCEPT ![CHOOSE p \in run.cur : TRUE] = Absent] THEN clock ELSE clock + 1
  /\ UNCHANGED <<disk, memory, op, scan, full, made, edits, kills, fulls, history>>

\* Mutant: the turns that stay do not learn of the new file.
RebasedNever(c, kept) == manifest[c]

\* The last change of each restored file in the turns that stay: what it left
\* is now the file the restore has just made.
LastTouch(p) == {c \in Range(Earlier) : manifest[c].ops[p] # << >>
                   /\ \A d \in Range(Earlier) : manifest[d].ops[p] # << >> => Place(d) <= Place(c)}
Rebased(c, kept) ==
  LET ops == manifest[c].ops IN
  [manifest[c] EXCEPT !.ops = [p \in Paths |->
     IF p \in kept /\ c \in LastTouch(p)
     THEN [ops[p] EXCEPT ![Len(ops[p])].after = file[p]] ELSE ops[p]]]

Done == {p \in Paths : run.got[p] # Never}
Kept == {p \in Done : file[p] = run.got[p]}   \* still as they were restored
Clean == run.clean /\ Kept = Done
\* The manifests as the restore leaves them.
Restored(c) ==
  IF c \in Range(Earlier) THEN Rebased(c, Kept)
  ELSE IF c \notin Range(Selected) THEN manifest[c]
  ELSE IF ~Clean THEN [manifest[c] EXCEPT !.ops = [p \in Paths |-> IF p \in Kept THEN << >> ELSE @[p]]]
  ELSE Blank(IF run.ret THEN "done" ELSE "retired")

Commit ==
  /\ pc = "files" /\ run.todo = {}
  /\ IF full
     THEN /\ run' = [run EXCEPT !.clean = FALSE, !.rr = TRUE] /\ pc' = "close"
          /\ gate' = gate \cup {run.id} /\ UNCHANGED <<txn, origin, blessed>>
     ELSE /\ txn' = [order |-> IF Clean /\ ~run.ret THEN Earlier ELSE order,
                     manifest |-> [c \in Ids |-> Restored(c)]]
          /\ run' = [run EXCEPT !.clean = Clean] /\ pc' = "apply"
          /\ origin' = [c \in Ids |-> [p \in Paths |->
                          IF c \in Range(Selected) /\ p \in Kept THEN Never ELSE origin[c][p]]]
          /\ blessed' = blessed \cup {p \in Kept : \E c \in LastTouch(p) :
                                        Last(manifest[c].ops[p]).after.data # file[p].data}
          /\ UNCHANGED gate
  /\ UNCHANGED <<file, order, used, manifest, pending, journals, up, active, calls, op, scan, full, bounds,
                 mine, windowed, strange, missed>>

\* The journal is finished only now; a restore without a warning then opens
\* the gate its id may have closed.
Close ==
  /\ pc = "close"
  /\ LET written == run.jok /\ ~full
         clean == run.clean /\ written IN
     /\ IF written THEN Journal(run.jr, [journals[run.jr] EXCEPT !.fin = TRUE, !.rr = run.rr])
        ELSE UNCHANGED journals
     /\ IF run.from # 0 THEN pc' = "mark" /\ run' = [run EXCEPT !.clean = clean] /\ UNCHANGED <<op, scan>>
        ELSE IF clean /\ run.id \in gate THEN pc' = "clear" /\ UNCHANGED <<op, scan, run>>
        ELSE End
  /\ UNCHANGED <<file, order, used, manifest, pending, txn, memory, full, bounds, history>>

Clear ==
  /\ pc = "clear"
  /\ IF full THEN UNCHANGED <<journals, gate>>
     ELSE /\ journals' = [j \in DOMAIN journals |->
                            IF journals[j].id = run.id /\ journals[j].rr THEN Settled(j) ELSE journals[j]]
          /\ gate' = gate \ {run.id}
  /\ End
  /\ UNCHANGED <<file, order, used, manifest, pending, txn, up, active, calls, full, bounds, history>>

\* The journal whose restore was resumed.
Mark ==
  /\ pc = "mark"
  /\ gate' = IF run.clean THEN gate ELSE gate \cup {run.id}
  /\ IF full THEN Refuse /\ UNCHANGED journals
     ELSE /\ Journal(run.from, [journals[run.from] EXCEPT !.fin = TRUE, !.rr = ~run.clean])
          /\ pc' = "scan" /\ run' = NoRun /\ UNCHANGED <<op, scan, up>>
  /\ UNCHANGED <<file, order, used, manifest, pending, txn, active, calls, full, bounds, history>>

-----------------------------------------------------------------------------
(* The operations, once the store is owned *)

\* Opened, or an id that is not on the branch.
GoNowhere ==
  /\ pc = "go"
  /\ op.kind = "init" \/ (op.kind = "restore" /\ op.id \notin Range(order))
       \/ (op.kind = "reconcile" /\ op.keep >= Len(order))
  /\ End
  /\ UNCHANGED <<file, disk, memory, full, bounds, history>>

GoRestore ==
  /\ pc = "go" /\ op.kind = "restore" /\ op.id \in Range(order)
  /\ run' = NewRun(op.id, op.incl, op.ret, 0) /\ pc' = "plan"
  /\ UNCHANGED <<file, disk, memory, op, scan, full, bounds, history>>

BeginRefused ==
  /\ pc = "go" /\ op.kind = "begin"
  /\ gate # {} \/ full
  /\ End
  /\ UNCHANGED <<file, disk, memory, full, bounds, history>>

\* Mutant: a turn begins whatever still needs recovery.
BeginManifestUngated ==
  /\ pc = "go" /\ op.kind = "begin" /\ ~full
  /\ Save(op.id, Blank("open")) /\ pc' = "index"
  /\ UNCHANGED <<file, order, used, pending, txn, journals, memory, op, scan, run, full, bounds, history>>

BeginManifest ==
  /\ pc = "go" /\ op.kind = "begin" /\ ~full /\ gate = {}
  /\ Save(op.id, Blank("open")) /\ pc' = "index"
  /\ UNCHANGED <<file, order, used, pending, txn, journals, memory, op, scan, run, full, bounds, history>>

\* With the index the checkpoint is open; the oldest beyond the cap go.
BeginIndex ==
  /\ pc = "index"
  /\ IF full THEN UNCHANGED <<order, used, manifest, pending, active>>
     ELSE LET longer == Append(order, op.id)
              drop == IF Len(longer) > MaxCheckpoints THEN Len(longer) - MaxCheckpoints ELSE 0
              cut == Range(SubSeq(longer, 1, drop)) IN
          /\ order' = SubSeq(longer, drop + 1, Len(longer))
          /\ used' = used \cup {op.id} /\ active' = op.id
          /\ manifest' = [c \in Ids |-> IF c \in cut THEN Blank("none") ELSE manifest[c]]
          /\ pending' = {r \in pending : r.id \notin cut}
  /\ End
  /\ UNCHANGED <<file, txn, journals, up, gate, calls, full, bounds, history>>

\* reconcile_visible: the turns the conversation no longer shows are folded
\* into the last it shows, for their edits are still in the files.
Fold ==
  /\ pc = "go" /\ op.kind = "reconcile" /\ op.keep < Len(order) /\ Unfinished = {}
  /\ LET kept == SubSeq(order, 1, op.keep)
         removed == SubSeq(order, op.keep + 1, Len(order))
         tail == SubSeq(order, op.keep, Len(order))
         folded(c) == [manifest[c] EXCEPT !.ops = [p \in Paths |-> Chain(p, tail)],
                         !.warn = Warned(Range(tail)), !.blind = Blinded(Range(tail))]
         after(c) == IF c \in Range(removed) THEN Blank("retired")
                     ELSE IF op.keep > 0 /\ c = order[op.keep] THEN folded(c) ELSE manifest[c]
         first(p) == LET known == SelectSeq(tail, LAMBDA c : origin[c][p] # Never)
                     IN IF known = << >> THEN Never ELSE origin[Head(known)][p] IN
     IF full THEN End /\ UNCHANGED <<txn, origin, strange>>
     ELSE /\ strange' = strange \cup {p \in Paths : gate \cap Range(removed) # {}}   \* a restore half done
          /\ txn' = [order |-> kept, manifest |-> [c \in Ids |-> after(c)]]
          /\ origin' = IF op.keep = 0 THEN origin
                       ELSE [origin EXCEPT ![order[op.keep]] = [p \in Paths |-> first(p)]]
          /\ pc' = "apply" /\ UNCHANGED <<op, scan, run>>
  /\ UNCHANGED <<file, order, used, manifest, pending, journals, memory, full, bounds,
                 mine, windowed, blessed, missed>>

GoError ==   \* CloseTurn failed
  /\ pc = "go" /\ full /\ Unfinished # {}
  /\ End
  /\ UNCHANGED <<file, disk, memory, full, bounds, history>>

-----------------------------------------------------------------------------
(* Everybody else *)

\* The user saves a file, in place or as a new one, or removes it.  Between a
\* call's two hooks, or between compare and rename, nothing can tell.
UserEdit(p) ==
  /\ edits < MaxEdits /\ edits + fulls < MaxMishaps
  /\ \E new \in {[data |-> clock + 1, ino |-> i] : i \in {clock + 1, file[p].ino} \ {0}} \cup {Absent} :
       new # file[p] /\ file' = [file EXCEPT ![p] = new]
  /\ clock' = clock + 1 /\ edits' = edits + 1
  /\ mine' = mine \cup ({file'[p].data} \ {0})
  /\ strange' = strange \cup {p}
  /\ windowed' = IF (pc = "swap" /\ p \in run.cur) \/ \E k \in Calls : calls[k] # Idle /\ calls[k].path = p
                 THEN windowed \cup {p} ELSE windowed
  /\ UNCHANGED <<disk, memory, work, full, made, kills, fulls, blessed, missed, origin>>

\* An idle process whose gate is open has nothing to lose.
Kill ==
  /\ up /\ kills < MaxKills /\ (pc # "idle" \/ active # NoId \/ gate # {})
  /\ up' = FALSE /\ active' = NoId /\ gate' = {} /\ calls' = [k \in Calls |-> Idle]
  /\ End
  /\ kills' = kills + 1
  /\ UNCHANGED <<file, disk, full, clock, made, edits, fulls, history>>

FillUp ==
  /\ ~full /\ fulls < MaxFulls /\ edits + fulls < MaxMishaps
  /\ full' = TRUE /\ fulls' = fulls + 1
  /\ UNCHANGED <<file, disk, memory, work, clock, made, edits, kills, history>>
FreeUp ==
  /\ full /\ full' = FALSE
  /\ UNCHANGED <<file, disk, memory, work, bounds, history>>

-----------------------------------------------------------------------------
Turn ==
  \/ Finish
  \/ \E k \in Calls : ToolWrite(k) \/ Post(k) \/ Discard(k) \/ \E p \in Paths : Pre(k, p) \/ PreUnknown(k, p)
Step ==
  \/ ApplyManifest \/ ApplyIndex \/ ApplyDone \/ ApplyError \/ Scan \/ ScanDone
  \/ CloseTurn \/ PlanError \/ Plan \/ (\E p \in Paths : Compare(p)) \/ Swap \/ Commit
  \/ Close \/ Clear \/ Mark
  \/ GoNowhere \/ GoRestore \/ BeginRefused \/ BeginManifest \/ BeginIndex \/ Fold \/ GoError
Next ==
  \/ Turn \/ Step \/ Restart
  \/ \E o \in Ops : Acquire(o)
  \/ (\E p \in Paths : UserEdit(p)) \/ Kill \/ FillUp \/ FreeUp

Spec == Init /\ [][Next]_vars

-----------------------------------------------------------------------------
(* Properties *)

Swapping(p) == pc = "swap" /\ pc' = "files" /\ p \in run.cur

\* A restore never replaces what the user wrote, whatever he edits and when,
\* and whatever is interrupted and resumed: not unless the edit fell into a
\* window (between a call's hooks, between compare and rename), or an earlier
\* restore had moved the trail over a gap.
SparesUserEdits ==
  [][\A p \in Paths : Swapping(p) /\ file[p].data \in mine => p \in windowed \cup blessed]_vars

\* The same without the last proviso, as the module's own description has it:
\* "manual ... changes therefore turn into explicit skips".
ManualChangesSkipped ==
  [][\A p \in Paths : Swapping(p) /\ file[p].data \in mine => p \in windowed]_vars

\* "Restoring an intermediate state is worse than leaving a file untouched":
\* what a restore puts into a file is what it held before the first write of
\* the first selected turn that wrote it; unless a branch update lies half done.
NoIntermediate ==
  [][\A p \in Paths : Swapping(p) /\ p \notin missed \cup windowed /\ txn = NoTxn =>
       LET wrote == SelectSeq(Selected, LAMBDA c : origin[c][p] # Never) IN
       wrote # << >> /\ Desired(p).data = origin[Head(wrote)][p].data]_vars

\* "A later owner completes these idempotent writes before doing work": nothing is
\* restored over a branch update that is half done.
UpdatesCompleted == [][\A p \in Paths : Swapping(p) => txn = NoTxn]_vars

\* Between operations, with no restore left to settle, the trail of a file that
\* only tools have touched, one at a time, is unbroken and ends in the file as
\* it is: after any restores, prunings, foldings and kills the next restore can
\* still undo it.
Quiet == /\ up /\ pc = "idle" /\ active = NoId /\ gate = {} /\ txn = NoTxn
         /\ \A j \in DOMAIN journals : journals[j].fin
Tracked(p) == /\ p \notin strange \cup missed \cup Warned(Range(order))
              /\ \A r \in pending : r.path = p => r.id \notin Range(order)
TrailUnbroken ==
  Quiet => \A p \in Paths : Tracked(p) /\ Chain(p, order) # << >> =>
             Continuous(Chain(p, order)) /\ Last(Chain(p, order)).after = file[p]

\* "unresolved recovery keeps the send gate closed": no turn runs while a restore
\* is half done, whether a kill or a full disk left it so, and however often.  A
\* checkpoint that is off the branch has nothing left to restore.
TurnsOnlySettled ==
  active # NoId => /\ txn = NoTxn
                   /\ \A j \in DOMAIN journals :
                        journals[j].id \in Range(order) => journals[j].fin /\ ~journals[j].rr

\* "retry that checkpoint before sending": a retry after which nothing is left to
\* undo opens the gate.
RetryOpensGate ==
  [][pc = "close" /\ pc' = "idle" /\ up' /\ run.from = 0 /\ run.jok /\ ~full
     /\ (\A c \in Range(order) : manifest[c].ops = NoOps) => run.id \notin gate']_vars
=============================================================================
