# Verification of amplifier-app-tui

TLA+ models of the parts of amplifier-app-tui in which processes, threads, event
loops and kills meet: who may write to a session, what is asked of the user and
what becomes of his answers, and what a restore leaves of conversation and files.
TLC checks small instances, TLAPS proves what is proved for every instance.
Source paths below are relative to `src/amplifier_app_tui/`.

## Reading order

| module | models | source |
|---|---|---|
| `FileLock` | the inter-process lock and the read-modify-write inside it | `kernel/file_lock.py`, `_transaction` of `kernel/session_control.py` |
| `WritePen` | what the control plane promises, abstractly | - |
| `SessionControl` | leases, takeover, pause, handoff, the gate, the trail | `kernel/session_control.py` |
| `MCSessionControl` | actors and ttls for TLC | - |
| `Serve` | the loop of one serving process over `WritePen` | `kernel/serve.py` |
| `MCServe` | which operation each idempotency key is used for | - |
| `SessionAttach` | which process owns a session: advert, socket, claim | `kernel/session_attach.py`, boot and claim in `kernel/serve.py` |
| `Approvals` | an approval from its ticket to the bar and back, over two event loops | `kernel/approval.py`, `ui/runtime_adapter.py`, `ui/app.py`, `ui/approval_bar.py` |
| `NeedsYou` | questions and parked actions, and how answers reach the model | `kernel/question.py`, `kernel/steering.py`, `kernel/governance_hook.py`, `model/queues.py` |
| `Checkpoints` | the trail of one file's states and how a restore walks it back | `kernel/checkpoints.py` |
| `Rewind` | the conversation in memory, on disk, in the ledger and in the log | `kernel/persistence.py`, `kernel/runtime.py`, `kernel/rewind.py`, `model/turn.py`, `ui/reducer.py` |
| `AttentionStore` | what `attention.json` holds and its transactions | `kernel/attention_store.py` |
| `Attention` | when the user is told that he is needed, here and on his phone | `ui/notifications.py`, `kernel/attention_push.py`, `ui/app.py` |
| `Reply` | a reply from the phone, into the right question, once | `kernel/ambient/reply.py`, `kernel/ambient/reply_listener.py` |
| `LiveMCP` | MCP servers connected and disconnected in a running session | `kernel/live_mcp.py`, `kernel/runtime.py` |
| `MCLiveMCP` | the boot's tool and what servers offer | - |
| `Turns` | one conversation from the key to the end of the turn, and what keeps its workers apart | `ui/app.py`, `ui/app_support.py`, `ui/session_ops_controller.py`, `ui/composer.py`, `model/queues.py`, `kernel/runtime.py` |
| `SessionControlProofs` | theorems about `FileLock` and `SessionControl`: who may write | - |
| `ServeProofs` | theorems about `Serve` and `SessionAttach`: what the loop lets in and acts on, and who runs one | - |
| `ApprovalsProofs` | theorems: what becomes of the user's keys | - |
| `ReplyProofs` | theorems about `NeedsYou` and `Reply`: what becomes of the user's answers | - |
| `AttentionProofs` | theorems: who tells the user, and what reaches his phone | - |
| `CheckpointsProofs` | theorems: what a restore may touch, and when a turn may begin | - |
| `RewindProofs` | theorems about `Rewind` and `LiveMCP`: what is left when something fails half-way | - |
| `TurnsProofs` | theorems: who works on the conversation, and where what the user wrote is | - |

How they stack: every public method of `SessionControl` is atomic in
`SessionControl.tla` because it is one `_transaction` in the code; `FileLock`
says under which conditions that transaction really is atomic (and
`filelock_lost` when it is not). `SessionControl` refines `WritePen`. `Serve`
then uses only `WritePen`: a control operation is any step the pen may take, so
what is checked of the loop does not depend on precedence, ttls or handoffs.
`SessionAttach` is around that: how many processes run such a loop at all. It
takes the lock as `FileLock` shows it, and one process's loop as a place where
it serves.

The other modules are of one session in one or several runs of the program.
`Approvals` and `NeedsYou` are the two ways in which a turn waits for the user;
`Attention` and `Reply` are about the same decisions seen from outside the
process, and both extend `AttentionStore`, whose file they share. `Rewind` is the
conversation half of a restore and takes its code half as an outcome, which
`Checkpoints` models; what a restore of either scope stages for the trail is in
`Rewind` too. `LiveMCP` stands alone: the tools a session has are no concern of the
other modules. `Turns` is around `Rewind`: which of a prompt, a goal, a clear, a
copy and a restore may be at the conversation while another is; a restore is one
step of it that succeeds, is partial or fails.

## The system

amplifier-app-tui is a Python front end to the amplifier agent library: a
terminal interface, a headless `run`, and `serve`, a JSON-lines protocol over
stdin/stdout that a second process may join over a Unix socket. Several
processes and several people and bots can therefore be at one session.

| component | state | operations | hard because |
|---|---|---|---|
| file lock (`file_lock.py`) | a marker file and its age | enter, break a stale marker, leave | three system calls with anything between; entered unlocked after a timeout; killed holders |
| session control (`session_control.py`) | `control.json`: epoch, lease, paused, handoffs, idempotency ring; `control-audit.jsonl` | acquire, heartbeat, release, takeover, pause, claim, resume, authorize, note, replay, remember | any client sends anything in any order; time runs out lazily |
| session authorization (`session_authz.py`) | token store | issue, revoke, resolve | revocation races another process's write of the store |
| serve loop (`serve.py`) | operation queue, turn task, pump task, control plane opened or not | every protocol operation, boot, shutdown | tasks interleave at each await; retries; kills between effect and record |
| session attach (`session_attach.py`) | the advert file, the socket, the peers | start, live_endpoint, broadcast, stop | two owners; a stale advert broken by somebody who read it earlier |
| steering, needs-you, lanes (`model/queues.py`, `steering.py`) | bounded queues | enqueue, consume at a step boundary, drain, defer, answer | producer in another thread or before the turn ended; one answer delivered twice or never |
| approval broker, question tool (`approval.py`, `question.py`) | tickets with futures | request, answer, defer, time out | answer, deferral and timeout of one ticket in one moment |
| runtime (`runtime.py`) | executing, restoring, interrupt flags | start, submit, interrupt, restore, cleanup | a turn's teardown awaits after admission has reopened |
| interface (`ui/app.py`, `app_support.py`, `session_ops_controller.py`, `composer.py`) | the draft, the queued message and the steer, seven fences, the ledger of restore points | type, submit, steer, queue, recall, interrupt, clear, compact, branch, goal, restore | its fences follow events and results that arrive later; calls time out; a refused text must come back |
| persistence and rewind (`persistence.py`, `rewind.py`) | transcript, metadata, event log, rewind intent | save, begin/arm/cancel/reconcile intent, trim | a kill between any two durable writes |
| checkpoints (`checkpoints.py`) | blobs, manifests, index, restore journal | begin, pre/post tool, finish, restore, recover | compare, then rename; resumed after a kill over files edited since |
| ambient layer (`ambient/`) | grants, correlations, nonces, listener registrations | create/revoke, bind, accept a reply, publish/remove | read-modify-write by several processes; a nonce spent before the effect |
| attention store and push | rows of `attention.json`, each center's copy, two queues of requests | note, acknowledge, publish, clear | two processes note one transition; hooks overtake each other; the lock may be missed |
| live MCP (`live_mcp.py`) | connections owned and set aside, the coordinator's table of tools | add, reload, remove, close | a transaction over tools and a process, compensated step by step; configuration changed before it; cancelled at exit |
| spawner, trackers, lanes | child sessions, registries | spawn, track | hooks of a child that failed to start |
| governance, trust, directory permissions | none while deciding | decide on a tool call | a decision table, not a protocol |
| configuration, bundles, updater, setup, cost, history, ui, commands, CLI, SDK | mostly files and text | - | sequential, or inside a library |

They interact so: stdin and every attached peer put operations on one queue
(`serve_loop`); the loop passes them through `SessionControl.authenticate`,
`replay`, `authorize`, and `remember`, each a locked transaction on a file other
processes share; a submit becomes a task running `RealRuntime.submit`, whose
hooks put events on the queue the pump drains, read the steering queue at each
provider request, and create tickets the broker announces. A kill ends all of it
but the files.

What makes each correct: one holder at a time in the locked section and no lost update
(lock); one pen, never held by an older grant, never taken down the ranks, accounted for
in the trail, and never lost for good (control plane); keyed operations act once, a
parked session is left alone, a steer reaches the turn it was for, the event stream goes
on and shutdown ends (serve); one owner per session (attach), joined by whoever comes
later; nothing runs that the user did not allow, and no call he has dealt with waits on
(approvals); an answer reaches the model once and whoever waits for it (questions); a
restore happens wholly or not at all, whatever is killed, and what the user was told of
it stays true (rewind); only one of them is at the conversation, no text is lost or sent
twice, and no fence stays up (turns); no edit of the user and no intermediate state is
put over or back (checkpoints); a transition is told of once and what is cleared stays
cleared (attention); a reply answers one question, once (reply).

`PROJECT.json` lists every component with its status, and under `hazards` what
in this code is hard to test, each at its line and with the property that would
catch it.

## FileLock

**Correspondence.** `pc` is where a process is in `locked()`: `create` the `os.open`
with `O_EXCL`, `stat` the age test, `unlink` the breaking of a stale marker, `read`,
`write` and `exit` the caller's transaction and the `finally`. One action per system
call, since anything may happen between two. `owner` is whose marker is on disk,
`acquired` the boolean the context manager yields. `CreateError` is the `except OSError:
break`. `BreakError` and `ExitError` are the two unlinks when they fail, which the code
suppresses: the first goes round the loop again with no look at the deadline, the second
leaves a marker nobody holds (`left`). `Crash` kills a process and leaves its marker.
`disk` is the file as the number of updates of each process it contains, so that a lost
update is a number that went down. Age and waiting time saturate where no comparison can
tell a longer one.

**Assumption.** `MaxHold <= StaleAfter`: a live holder leaves the section within
30 seconds. The section reads and writes one small file; nothing in the code
enforces it, which is why it is an assumption with a name.

**Checked (`filelock`, 3 processes, one transaction each, stale after 2, timeout
1).** One process to die in the section and two to race for its marker: the
smallest instance in which a breaker can unlink a fresh marker. `Exclusion` and
`NoLostUpdateWhenLocked` have the proviso that no marker was left behind
(`NoneLeft`): nobody was killed and every exit unlinked its own. They say that the
lock works as designed while nothing is stale, and no more: after a marker was left
behind the double break (two processes judge the same old marker stale, the first
breaks it and re-creates its own, the second unlinks that) does let two in,
which the module's docstring accepts ("best-effort"). `NeverWedged` is liveness
with kills and with failing unlinks: whoever wants in gets in. It uses weak fairness
of time and of each running process, which is what an operating system gives, and
strong fairness of `Break`: a stale marker that is unlinked again and again goes in
the end. The second is no promise of the code. A directory that stays read-only,
or a marker of another user, keeps every caller in the loop for ever, since the
`continue` of `kernel/file_lock.py:56` passes the deadline by; `ScheduledLockSpec`
is the specification without that assumption, and there `NeverWedged` is violated
(Divergences). No kill and no I/O error is owed.

**Proved.** `TypeCorrect`, `MutualExclusion`, `NothingLost`, for any set of processes
and any times. `Exclusion` is not inductive. `LockInv` adds that a process that waits
has not acquired and that, as long as no marker was left behind, whoever holds is the
owner of the marker, no process is about to break one, and a marker on disk is that of a
holder no older than `MaxHold`. The last part is what `MaxHold <= StaleAfter` is for: no
marker is ever judged stale. `NothingLost` needs, beyond that, that what a holder read
is still what is on disk.

## SessionControl and WritePen

**Correspondence.** A variable per field of `_State` that decides anything. A lease id
is a fresh uuid, so the epoch of its grant stands for it, and 0 for the empty id; the
expiry is the time left. `handoffs` keeps who claimed each. `served` is the lease id of
the last write let through. Each public method is an operator with a disjunct per early
return; `Held` and `Reaped` are `_expire_if_due`, applied in those methods that call it
and in no other (`release`, `resume`, `note_ambient` and the claim of an unknown handoff
do not). Record contents, the durable handle, and the wording of the reports are left
out. Clients are arbitrary: any actor, any lease id ever minted, any handoff, in any
order.

**The trail.** A transaction appends its entries to `control-audit.jsonl` and then
replaces `control.json`, under the lock but not in one step. `Transact` has what may
become of the two. Any of the appends may fail, or leave half a line: `_audit`
swallows the error, and has counted `audit_seq` up all the same (`Appended`). Or the
process is killed, or the disk full, when some entries are in the trail and
`control.json` is as it was (`Torn`): their numbers are then used again. What the
trail is worth is a matter of who reads it, so that its state here is a reader:
somebody who read `control.json` once (`Fresh`, at any time, `Reread`), has applied
each entry since to what he took the session for (`Recount`), and went on while the
numbers did. A number that is missing, or comes twice, makes him `Unsure`. `at` is
how far ahead of `audit_seq`, or behind, the trail he has read ends; `lost` and
`torn` count the mishaps he does not know of.

**WritePen** is the promise: one pen; each grant newer than all before; a token
that lost the pen never has it again; writes only under the pen, or freely when
nobody holds it; none while parked. `ImplementsPen` is the refinement with the
pen mapped to the id of the *live* lease, so that expiry is where the pen drops
and the later reaping is a stutter.

**Checked (`sessioncontrol`: two people, a bot, the anonymous default; no ttl, and one
below the minimum, with 1 <= ttl <= 2; 3 grants; 2 handoffs; one mishap while somebody
follows the trail).** Two people are needed for a forced takeover between equals, the
bot and the anonymous client for each comparison of rank; three grants for a lease lost
and a later one lost again. The bounds cap grants, handoffs and mishaps only; time,
pauses and writes are unbounded, and each new reader may meet a mishap of his own. With
two mishaps all five properties hold as well (150,000 states, three and a half minutes,
by hand). `TrailAccounts`: a reader who finds the numbers complete up to `audit_seq`
knows who holds the lease and whether the session is paused, although he does not know
what went wrong. That is what the code gets from counting an entry before it is written
and never twice in one file: a lost entry leaves a gap, a torn transaction numbers he
has read already. It excludes one case, which is real: a failed append and a torn
transaction fill up one another's numbers, and nothing shows it (`TrailNumbers`,
Divergences). `VanishedHolderFrees` says that unless grants or heartbeats go on for
ever, the session ends with no live lease; its only fairness is that time passes. No
client owes anything.

**Proved.** `TypeCorrect`; `AlwaysNewest`: the lease in the file is the newest
grant; `Implementation`: the refinement of `WritePen`, initial state to initial
state and each operation to a pen step or a stutter; `SeizureByRank`: no live
lease goes down the ranks; `OneShotHandoffs`; `TrailTells`, which is `TrailAccounts`:
numbers that are complete tell the truth, after any number of failed appends or any
number of torn transactions. For any actors, ttls and bounds. `TypeOK
/\ NewestGrant` is inductive and the refinement rests on it: that a presented id
equals the lease's epoch means something only because epochs of leases are never
ahead of the counter. `TrailTells` needs more. `Abreast` says where the reader is:
with no mishap since he read the file he is at its `audit_seq` and right; with
failed appends only he is behind it, with torn transactions only ahead of it, and in
both he can never be level with it again. The rest is what entries say
(`Tells`, `ViewOf`): a piece of the trail, told to somebody who was right, leaves him
right about the file it was written for.

## Serve

**Correspondence.** `ops` is the queue of `serve_loop`. `Take` is its `get`, and with it
each arm up to the first durable effect; what is left of the operation is in `stage`:
`remember` the ring's transaction, `act` the arm that touches the runtime. Tasks of one
event loop switch only at an await, so `Emit`, `ConsumeSteer`, `Ask`, `Resolve`,
`AskUser`, `EndTurn` and `Pump` happen only while the loop is between operations, but
`Kill` and `Expire` happen between any two steps, since they do not wait for an event
loop. `opened` is whether this process has materialized the control plane, `tokens`
whether the project issued control tokens: the two doors. An attempt to open it may fail
(`_ensure_control`): the operation is then served as a legacy client's, keys, leases and
tokens notwithstanding, and the next one that opts in tries again. With
`--attach-handoff` a process opens it at once and claims, one more grant (`Fresh`).
`ask` is the ticket at the head of the approval broker, which the turn waits for and an
`approve` names or, without an id, takes as it finds it (`Reaches`); a queue of several
is `Approvals`'. An answer that is not among the ticket's options is an exception nobody
catches: `AnswerAmiss` goes to the `finally` clause, like `quit` with a turn in flight.
`decision`, `interrupt`, the tags and `effort.*` are one kind, `other`: gated,
remembered and acted on once, their effect elsewhere (`NeedsYou` has the decision in
full; an interrupt only lets a turn end sooner). `asking` is that the question tool of
the turn waits for a decision, which outside the auto posture it does without a time-out
(`AskUser`, `kernel/question.py:320-322`); `Decide` is the `decision` that lets it go
on. `writer` is whether the local name `records` is still the `JsonlRecords` it was:
`Control` binds it to a list. After `quit` the loop is `awaiting` the turn in flight or,
without one, already `closing`: only in the first does the pump get to run again. Pen
and ring survive a restart, everything else is fresh.

**Checked (`serve`: a keyed submit and a keyed control operation, a ring of one, a
steering queue of one, three sends, two turns, one ticket and one grant, two processes
one after the other).** A ring of one with two keys is the smallest in which an answer
is pushed out; three sends are what it takes to use a key, push it out with the other,
and retry it, or to start a turn, park the session and answer the turn's ticket. Four
sends, with a queue of one and one turn, hold as well (3.2 million states, by hand).
`ActedOnce`: where a plane is open, an operation whose key took effect is let in again
only after the ring forgot it, or when that effect had no answer to remember: it came
without a plane, or, of a control operation, before a kill between its transaction and
`remember`. `ParkHolds` has the proviso `opened`, because a process without a plane does
not look at `control.json` at all; that is the code's stated legacy contract. `Exits`
also covers the loop that a wrong answer ended: nobody is left to answer the ticket its
turn waits on, and it is the ticket's timeout that lets the process go. A question has
none: a turn that waits for a decision after `quit` or the end of stdin waits for an
operation nobody reads any more, and the process stays. `Exits` excludes that by name,
since it is what the code does, and `ExitsCleanly` has no such proviso (Divergences).
Deadlock is not checked: the session may end and nobody owes another operation.
Fairness: the event loop runs ready tasks, a ticket has a deadline (`Resolve`), and so
has a model call of the library, so that a turn which waits for no ticket and no
question ends (`EndTurn`); without those assumptions `Exits` would rightly fail,
shutdown awaits the turn. A decision is owed by nobody.

**Proved.** `TypeCorrect`; `KeyedOperationsActOnce`, which is `ActedOnce`;
`ParkedMeansIdle`, which is `ParkHolds`; `LeftoversAreDropped`: a steer in the queue
was queued in the turn that runs, or in none. For any keys, rings and queues of any
size, any number of sends, kills and starts. `ActedOnce` is about a key being let in,
and by then what happened since its effect is history: `RingInv` carries it. `StageInv`
says what is owed for the operation at work (an accepted write is not in the ring
before `remember` and is there after it, unless it was taken without a plane; at its
`act` the session is not parked); `RingOrder` that the place of a key in the ring
tells how many answers are younger; `Effects` that a key that took effect and is not
in the ring was pushed out by as many answers as the ring holds, or left none. A kill
is where these are easily lost: it empties the stage, and a control operation whose
transaction is done and whose answer is not remembered is `torn` from then on.

**Also met while modelling, with no run of its own.** A refused control operation is
remembered and replayed (`serve.py`, the ring is written whatever the answer), while
refused writes are not. An acknowledged and remembered submit is dropped if a turn runs.
A submit killed between acknowledgement and start is never run, and its retry is
answered from the ring. `release` with an empty id drops anybody's lease. The last
events of a turn that ended in the same round of the event loop as `quit` are not
written (`PumpDone`). A plane that fails to open switches off the tokens too, although a
project that issued them means every operation to be authenticated. An `approve` without
an id, or with one that an earlier process gave out, answers whatever ticket it finds.
`control.json` that cannot be parsed resets the epoch.

## SessionAttach

**Correspondence.** A member of `Proc` is one run of the program and `pc` where
it is: `look` to `join` in `_join_live_session` and `live_endpoint`, `lock` to
`publish` in `AttachServer.start`, `retract` to `cleanup` in the `finally` of
`serve_loop` and `stop`; one action per system call that another process can get
in between of. `advert` is the process `attach.json` names, `sock` the one that
bound the file at the socket's path, which all processes of a session share.
`Live` is `endpoint_live`: the pid is alive, or recycled, and whatever is at the
path accepts. `plan` is when a process claims: started with `--attach` or
`--attachable` before it serves, otherwise when a client opens the control plane
(once more then, if the first claim was refused). Peers are processes at `peer`;
what they send is `Serve`'s. Left out: a probe that fails because the listener's
backlog is full, a junk advert, platforms without `AF_UNIX`.

**Assumption on the lock.** A live holder is waited for: the section is a probe
of at most a second and a few file operations, the wait five seconds. The marker
of a killed one is broken, or entered without (`unlocked`), as in `FileLock`.

**Checked (`sessionattach`: three processes, each started once in any of the
three ways).** One to leave or be killed, one to take over, one to come in
between: two owners need no fourth. A restart is another member of `Proc`. No
bound is needed beyond that. `robbed` records that an unlink outside the lock hit
a file of a process that listens. `OneOwnerUndisturbed` and `AttachJoins` say
that this, and a claim without the lock after a kill, are the only ways to two
owners or to a rival runtime beside an owner that was there before.
`NothingLeftBehind` has no such proviso: whatever they do to each other's files,
those that end of themselves leave none. `NeverOccupied` needs each running
process to go on, and nothing of clients.

**Proved.** `TypeCorrect`, `CleanDetach`, `ExclusiveOwnership`,
`AttachJoinsOwner`, for any set of processes. `ClaimInv` is the strengthening: in
an undisturbed run one process is in the section, the files are those of whoever
listens, and the claim knows at each step what it has established (the advert it
read is the listener's; past the judgement nobody listens). `AttachInv` adds that
an owner somebody met never owns again once it has begun to leave, and that whoever
met it is on its way to it.

## Approvals

**Correspondence.** `ready` is the queue of callbacks of the runtime's loop and
`messages` the queue of the interface's messages; each runs its head to the end,
and a key pressed is one more message, looked at when its turn comes. `tickets`
is `ApprovalBroker._tickets`, `presented` the adapter's note of the ticket it has
announced, `bar` the ticket of the bar on the screen. `ask` is one call of
`request_approval`: its future, whether its timeout is due, whether it was
deferred. A future that is set, cancelled or due only *wakes* its asker
(`Woken`); the asker runs later and takes what it then finds (`Outcome`). The
default of an expired ticket is deny in everything this program mounts.
Left out: the policy that answers without a ticket, the wording and staging of
the detail, the floor under a timeout; whether the needs-you queue has room is a
choice; the `approve` arm of `serve.py` (`Serve`) and recipes.

**Checked (`approvals`: two calls, three keys, the posture switched once).** Two
calls are needed for a key pressed on one bar and handled on the other; three
keys answer both and leave one that comes too late. `HeadShown` has the proviso
that no key took down a bar it was not pressed on. `AllowedOnlyByKey` has none.
`HiddenGoesOn` is liveness: both loops run what is in their queues, which
asyncio and Textual do; nobody owes a key, and no timeout is needed.

**Proved.** `TypeCorrect`, with `Settled`; `AllowedByKeyAlone`; `DenialsInTheLog`: a
denial no key gave is one the audit of denials has; `NobodyWaitsUnseen`, which is
`HeadShown`. For any calls, keys and switches. Three invariants, one on the other.
`Settled`: a wake is posted for a future that is set, a cancelled future is one whose
time has run out, and an asker that has not asked has an open one. `Keyed` follows an
answer along its way: a message of a bar, a callback in the runtime's queue, a future;
each carries the choice of a key that was pressed on that very bar. `Heading` is the one
`HeadShown` needs: the adapter has announced the head of the broker, unless the one it
announced is settled and its asker about to leave; and the last message about a bar that
is under way, or the bar itself when there is none, shows what was announced, or its
answer is on its way back. That it looks at the *last* message is what makes it
inductive: bars are put up and taken down in order, and only the last word counts.

## NeedsYou

**Correspondence.** `items` is `NeedsYouQueue._items`, each with how often the
model was told of it. The tools are tasks of one loop: `running` is the call that
has it, so that `BeginAsking`, `AskNext`, `AskDone` and `FirstLook` of one call are not
interleaved with another's, but the user's thread (`Answer`, then `Tell` after
the queue's lock) is in between any two. `Boundary` is the bridge at a step
boundary, `Interrupt` the cancellation of whatever waits, `Check`, `Allowed` and
`Refused` the dependency gate of the auto posture around an awaited classifier.
Wording, limits on text and validation are left out.

**Checked (`needsyou`: two calls of two questions, one gated call, a queue of
three, the posture switched once).** Five decisions for three places: every call
may find the queue full at its first or its second question. `AnsweredOnce` and
`AnswersKept` are about the tool and the bridge racing for one answer;
`QuestionsReturn` is liveness under fairness of the loop and of the thread that
answered. `Limit` is three instead of 100.

**Proved** (in `ReplyProofs`). `NeedsYouTypeCorrect`: the queue keeps its limit;
`DeliveredOnce`, which is `AnsweredOnce`; `NoAnswerLost`, which is `AnswersKept`. For
any calls, numbers of questions and limits. `AnsweredOnce` is not inductive: `Delivery`
adds what each call has noted of its own items. An answer it has heard waits to be told
by it and by nobody else, since it has been taken off the queue; what it gave up is
given up; and a call that is awake has noted all of its questions, so that none can be
heard by tool and bridge both.

## Checkpoints

**Correspondence.** `pc` is where the owner of the store is in an operation, one
action per durable write (`Pre`, `Post`, `Discard`, `BeginManifest`,
`BeginIndex`, `Journal`, `Swap`, `Commit`, `ApplyManifest`, `ApplyIndex`, ...),
since a kill or a full disk may come between any two. A state is a content and an
inode, which is what `_states_equal` compares; `manifest[c].ops` is the trail of
one checkpoint, `txn` the branch update, `journals` the restores, `gate`
`_recovery_required`. `Compare` and `Swap` are two steps: the file is compared
by one call and renamed over by another. `UserEdit` happens at any time and
`Kill` whenever anything is under way. History variables record which contents
are the user's, which files were written inside a window no check can see, and
what each turn first found.

**Abstracted.** One target per tool call and include_target TRUE, as the runtime
has it; the ownership lock (contention by another process is refusal); limits on
size and number of snapshots are the outcome `Unsafe`; retention of journals and
of retired manifests; a recycled inode; the identity of parent directories; the
visible branch, which is in `Rewind`.

**Checked (`checkpoints`: one file, two checkpoints, two tool calls, a restore and one
more where the first must be retried (`MaxJournals`, `MaxRetries`), a kill, and either
an edit or a full disk: `MaxMishaps` bounds the two together).** The retry lets the
warnings of a restore be cleared by a later one. Two turns with a call each is the
smallest trail with a predecessor to rebase. `SparesUserEdits` (no swap over the user's
content except in a window or over a blessed gap), `NoIntermediate`, `TrailUnbroken` and
`TurnsOnlySettled` are each over interrupted and resumed restores. By hand: with two
kills all four hold (11.8 million states); `checkpoints_prune.cfg` adds a third prompt
and retention and passes. The manifests of a branch update are written in the order of
the branch, as `_apply_restore_transaction` does. `NoIntermediate` has a proviso: a swap
while a branch update lies half done is excluded (`UpdatesCompleted`, Divergences).

**Proved.** `TypeCorrect`; `NoTurnOverHalfARestore`, which is `TurnsOnlySettled`;
`UserEditsSpared`, which is `SparesUserEdits`. For any files, checkpoints, calls,
kills, full disks, retries and edits. `IndInv` is `TypeOK`, `GateInv` and `Chained`.
`GateInv` says, for each place an operation may be interrupted at, why what is half
done will be found: a restore that is not done is still to be looked at by this start,
or closes the gate, or is the one at work (`Covered`), whose two journals are of one
checkpoint (`Journalled`); a branch update that is not done only takes checkpoints away,
and one that was passed over has closed the gate (`Updating`). Without the last a turn
could begin over the remains of an update. `Chained`: what is to be restored has a
trail. `TrailInv` carries `SparesUserEdits` further back than one step. `Recorded` and
`Prepared`: a change in a trail, in that of a branch update too, is made of contents
there have been, and leaves what the user wrote only where he wrote inside a window or
a restore blessed the file; `Watched`: between the hooks of a call its file is as
recorded, or no content of the user's, or he wrote it while the call was open;
`Compared`: so with the file that was compared and is not yet renamed; `Written`: the
user's contents are new when he writes them.

`TrailsHoldWithRoom` is `TrailUnbroken` for a disk that never fills up, any number of
kills, edits, restores and turns; `TrailsHold` is the same for disks that do, under
`CompletedFirst`: no restore and no turn is planned over a branch update that is half
done. The code breaks that when a resumed restore fails to write its update
(`UpdatesCompleted`, Divergences), and with it the trail: by hand, with two kills and
two full disks, TLC finds it broken. Both take `include_target` TRUE, as the runtime
does: a restore that leaves its own turn alone settles one of the same checkpoint that
is half done and did not (by hand too). `UndoInv` is what is between the steps. The
trail is taken as a line of one entry a turn (`Line`), of the branch as a half-done
update will leave it (`Order`, `Mans`), so that the writes of an update change nothing.
`Tied` says of the entries from which on nothing was lost sight of (`Sure`) that each is
continuous and ends where the next begins, and the last in the file, or in what the tool
at work found there (`Ends`). It is claimed up to some place of `Breaks`, which is the
end of the branch or the checkpoint of a restore that is yet to finish: what that
restore has put back it will cut from there on when it commits (`Held`, `PutBack`).
`Gated` leaves no such place when nothing is left to settle. `Between` says what an open
call has recorded, `OpenRecords` that a record on the branch is of a turn that did not
finish, `Inside` what a restore at work relies on. The lemmas under "Trails" are about
lines alone: what keeps one tied when it grows, is cut at either end, loses a file or
has several entries folded into one.

## Rewind

**Correspondence.** A turn is one user message and its answer; `saved` is the
transcript, `log` the events with their rewind markers, `intent` and `branch` the
two records a restore stages, `ctx` the live context, `mark` the saver's
watermark (two messages a turn), `ledger` and `base` the interface's restore
points. `pc` goes through `_restore_checkpoint_impl` write by write; `Retry` and
`RetryBranch` are `_retry_rewind_recovery`, `Start` and `Opened` what `load` and
`start` do about what they find, with the replay of the log. `told` is the set of
conversations the user may find after what he was told. `Undo` is the rollback of the
conversation when the code half or the intent failed, `UndoRefused` the same when its
`set_messages` raises ("conversation rollback failed"): the context stays cut off, the
ledger does not, and neither does the saver's watermark. `Clear` is `/clear`, which
empties context and ledger and leaves the watermark where it was. Both set `apart`.

**Abstracted.** The save of a turn never fails; metadata and backups; the code half of a
restore is an outcome (restored, already, partial); a cancel of the intent, and commit
and unlink of the branch, are one step each; `set_messages` may refuse, in the restore
and in its rollback, and counts as a write. `/compact`, forks and loads by other
processes are not modelled; submits that overlap are in `Turns`.

**Checked (`rewind`: four turns, three restores of either scope, two kills, one refused
write or rollback, `/clear` at any time).** Three restores so that one is undone by
another and a third is over what they left; two kills so that a recovery may be killed.
Deadlock is not checked: a session that cannot be opened stops, and so does one at the
bounds. `ConversationAsTold` and `RestorePoints` have the proviso `~apart`: after a
refused rollback or `/clear` the watermark is ahead of the context, what is said from
there on is not saved until the context outgrows it, and the next start finds an old
conversation; after a refused rollback the ledger is not that of the context either
(`AlwaysAsTold`, `AlwaysRestorable`, Divergences). `TurnsAfterRecovery` has no such
proviso. `RestorePoints` has two more, that no turn was killed and that the start gave
no warning.

**Proved.** `NoTurnOverARestore`, which is `TurnsAfterRecovery`, and `FoundAsTold`,
which is `ConversationAsTold`, for any number of turns, restores, kills, clears and
refused writes and rollbacks, but for one: the write that takes the intent of a failed
restore back (`TakenBack`, a hypothesis about the steps). With that refused too the next
start performs the restore that was reported as failed ((b) under Rewind in
Divergences), so the theorem says which refusal it takes. `OneRefusal` is without the
hypothesis: as long as one write or rollback was refused at most, both hold, since a
restore is taken back only after a refusal. `FoundAsTold` and the second half of
`OneRefusal` are about conversations that were not changed behind the saver, as the
property says. The invariant goes along `pc`: `RestoreUndecided` and `RestoreDecided`
are what the intent, the transcript, the branch and the context are at each write of a
restore, before and after the one from which on a start would complete it; `Recovering`
is a start or a retry that completes one, towards a conversation the user was told of;
`Gates` that the gate is closed where one may be left to complete.

**`rewind_resume.cfg` (violated, by hand).** A killed turn leaves a prompt without its
end in the log. The first resume closes it in memory only; the next turn appends its own
prompt behind it; the resume after that replays two prompts in a row,
`OutcomeLedger.begin_turn` raises (`model/turn.py:247`), nothing in `replay` or
`announce_ready` catches it, and the session does not open any more.
`docs/USER-GUIDE.md:574`: "Saving is incremental (after every tool call), so even a
crash loses almost nothing".

## AttentionStore and Attention

**Correspondence.** `AttentionStore` is the file's contents and what `record` and
`acknowledge` make of them, as operators without state. `Attention` has the
centers of the processes that have the session open, each with its copy of the
file. `Transact` is a transaction: on the file, the copy becoming the file's, or,
when the lock is not to be had within its quarter of a second, on the copy alone.
`Note` decides who tells (`telling`), `NotifyAttention` is the ladder and the
event for the destinations. Emission is a task of its own (`Emit`), so that a
record and its acknowledgement may arrive in either order. `push` is
`NtfyAttentionDestination`: `pending` and `clears` its two lanes, `cleared` what
it must not publish again, `inflight` the request of its only worker, which goes
on whatever becomes of it (`Land`). `Close` is `cleanup`. A turn stands for every
event that happens once: completions of long turns and errors.

**Checked (`attention`: two processes, at the same time or one after the other, a
decision each and a turn, a queue of one, one missed lock).** Two centers are
what it takes to note one transition twice; a queue of one is full with one
publish. One process has a destination, `Pushing`: the two would not meet.
`NotifiedOnce` says at most once as long as no lock was missed, and at least once
even then, unless the process was killed between record and ladder.
`ClearsSent` is liveness under fairness of the event loop and of the worker,
whose requests have timeouts; it ends at `Close` and `Exit`, which drop what a
second does not flush.

**Proved.** `TypeCorrect`; `OnceNotified`, which is `NotifiedOnce`;
`NothingResurrected`, which is `NoResurrection`. For any processes, decisions, turns,
queue limit and number of missed locks. `Known` says where a transition is that somebody
noted: a process tells of it, or was killed before it could; any other is in the file
and in no copy. `Single`: as long as no lock was missed, what a process tells of is in
the file, no other tells of it, and it rang once or is about to. `Lanes`: what waits to
be published was not cleared, and what waits to be cleared, or was, is remembered, so
that a request in flight left the lanes before its clear.

**`attention_restart.cfg` (violated, by hand).** Decisions are numbered from 1 in every
process (`model/queues.py:364`), and session, reason and number are the identity
of a row that is never evicted. The first question after a resume is therefore
the first question before it: `note` returns that it is not new and the user is
not told, although `docs/SETTINGS.md:241` says a record is "minted exactly once when
the app transitions into needing you".

## Reply

**Correspondence.** `handler` are the threads of the listeners of all processes,
each in `ReplyChannel.accept`: a request that verifies and whose event is in the
correlation table gets to `reserve`, where of several that verified one envelope
one goes on; then `submit` (the device looked up again, the question of that
number answered in *this* process, if it is pending), `record`, and the
acknowledgement in two steps, `Load` and `Save`, because that is what
`_acknowledge_attention` does. `ring` is the bounded list of nonces; envelopes
age; the device may be revoked. `Ask`, `Look` and `AnswerHere` are what the
interface does with the same file and the same questions.

**Abstracted.** An envelope that does not verify changes nothing but the trail
(`SessionControl`'s `NoteAmbient`) and is not delivered; an entry without the
lock is `FileLock`'s; the registry of endpoints, since a delivery may go to any
listener; the limit on outcomes. The claim of a handoff is left out: the only
caller that binds a correlation (`ui/app.py:433`) gives none.

**Checked (`reply`: two processes, two envelopes, two threads, one question each,
a ring of one).** Two threads race for one envelope, or two envelopes for one
question; a ring of one forgets a nonce at the second envelope, and
`EnvelopeOnce` excludes those that could still pass when they were forgotten
(512 replies within five minutes). `NothingDisappears` and `OutcomeRecorded` hold
also where the device is revoked after the nonce is spent, and over kills.

**Proved.** `TypeCorrect`; `AnEnvelopeAnswersOnce`, which is `EnvelopeOnce`;
`EverySpentNonceIsAccountedFor`, which is `OutcomeRecorded`; `NoQuestionDisappears`,
which is `NothingDisappears`. For any processes, threads, envelopes and sizes of the
ring, `MaxNonces >= 1`. `EnvelopeOnce` needs `SpentOnce`: of an envelope the ring has
not forgotten too early at most one thread is about to submit, and none once it was
submitted; from then on either its nonce is in the ring, or it is too old to pass and
no thread verified it while it was not. `NothingDisappears` needs `Answering`: a
thread past the submission with success has answered, and the copy of
`attention.json` that `Load` took shows as acknowledged only what was looked at or
answered by then.

## LiveMCP

**Correspondence.** `config` is the user's `mcp.json`, written by the three commands of
the runtime before they ask for the lock (`AddServer`, `ReloadServer`, `RemoveServer`);
`waiting` is the queue of the reconciler's `asyncio.Lock`, `run` the command that has it
and `pc` where it is: `discover`, `unmount`, `mount`, `undo` and `remount` after a
failure, then the stop of the new (`discard`), the replaced (`stopold`) or the removed
connection (`stopowned`). `managers` are the connections made, `owned` and `stranded`
the reconciler's two tables, `tools` the coordinator's, `report` the last result.
`Decide` is what needs no connection at all. Each helper (`_mount_wrappers`,
`_unmount_names`, `_remount_subset`) is one action that gets as far as its first
failure, or loses any of its names in the last case: the coordinator's `mount` and
`unmount` do not suspend. Discovery and stops do, and there the commands of other
workers are issued and, while the program is left, cancelled. `Leave` is the cleanup:
`Close` comes behind whatever was issued.

**Abstracted.** Messages and backends of a result; definitions of higher priority
(project, environment, inline), with which a command ends before the lock; the
provider `mcp.reconcile`, which the pinned module does not have; whoever else
mounts tools. A mount, unmount or stop that raises has had no effect.

**Checked (`livemcp`: a server of the boot and two others, three tools, three
commands, one failure in each; 280 000 states).** Three commands are an add, a
reload or removal of it that fails, and one more of either server; three tools
let two servers want one name, or the boot's. By hand, four commands (6.7 million
states) show nothing else. With one failure a command every rollback succeeds,
and that is what `ReportTrue` and `OthersUntouched` are about; both hold until
the program is left, since a command cancelled then reports to nobody and `Close`
touches every server. `NothingOrphaned` names the one exception, a connection
whose stop was cancelled (`cut`). By hand, `livemcp.cfg` with `MaxFailures = 2` and
`Suspends = {"wait", "discover"}`: `NothingOrphaned` holds with two failures, and so does
`ClosedClean`, that a close in which nothing fails leaves nothing behind.

**Proved** (in `RewindProofs`). `NothingLost`, which is `NothingOrphaned`, and
`BootLeft`, the half of `OthersUntouched` about the tools of the boot: for any servers,
tools and commands and any number of failures. `OthersSpared`, which is the whole of
`OthersUntouched`, and `ToldTrue`, which is `ReportTrue`, assume `MaxFailures <= 1`, for
with two they are false (`livemcp_others`, `livemcp_report`). `Handled` is what a
command at work knows: `Matched`, `Making` and `Closing` relate `pc` to the connection
being made, the one being replaced and the tools of either; `Accounted` says of every
connection and tool under which of these, or in which of the reconciler's tables, it is
found. `Sound` is for the two others. With one failure a rollback succeeds: `Standing`,
an owned server not being changed has its connection up and all its tools; `Replacing`,
`Placing`, tool by tool, what a command under way has taken down and put up; `Telling`,
an answer decided before the last stop will be so after it.

## Turns

**Correspondence.** Two event loops and two queues of callbacks between them. The
interface's state is the draft (`composer`), the drafts `remember_and_clear_draft`
has moved away (`stashed`), a message of the composer on its way (`posted`), the
two places of the `SteeringQueue` it uses (`slot`, `steer`), and the fences:
`admission` is `_submit_admission`, `operation` the three flags of which each
handler looks at all, `goalPending` the fourth, `restore` is `fork_pending` with
where its worker is, `drainDue` is `_turn_queues_pending`. `toRuntime` is
`run_coroutine_threadsafe`, `toApp` the events of `_AppLoopQueue` and the results
that wake a worker, both in order. `tasks` are the coroutines of the runtime's
loop, each between two awaits: `begin` is the cut of the workspace checkpoint,
`run` the execution, `finish` the teardown after `_executing` is cleared,
`retry` the recovery, `work` an operation on the context. An action of the user or
of a message runs to the end of its handler, since nothing there awaits.

A text is the set of the pieces in it: a refused prompt may be appended to a draft
(`SubmitPrompt` during a restore). Where a piece is, is counted by `Places`.

**Abstracted.** Compaction and snapshots are one kind, `copy`: both wait for
nothing, time out alike and change nothing the interface keeps. What a clear does
to the context, images and pastes, slash commands and the palette, decision
capture, lane steers, the start-up screen, the limits on text and queue, the armed
state of a goal and `/goal stop`, `/recipes` resumed outside a turn. The
`interrupt` of a clear is taken to succeed; that it fails is `ClearGivesUp`. A
cancelled task is gone when it hears of it. History: `runs`, the turns a piece is
in; `ended`, the pieces used up as a steer, discarded with their turn, replaced in
the slot by a second queued message, or, where a refused queued message finds
slot and draft taken, written to the log only; `stale`.

**Checked (`turns`: two texts, two operations, one goal).** Two texts meet as draft and
queued message, steer and prompt, or refused and new; two operations are each pair of a
clear, a copy and a restore; three texts with one operation (1.8 million states, by
hand, without the liveness property) show nothing else. `OneAtTheContext` is what the
fences achieve together: the runtime itself only keeps turns and restores from each
other, and not past `_executing`. It names the overlaps they let through. `MessagesKept`
is over refusals by the interface and by the runtime, failures before and after the
announcement, and partial restores; with two goals it fails, and so does
`OneAtTheContext` (Divergences). `FencesLift` is liveness: both loops run what is in
their queues, clocks and file operations go on, and a turn that was asked to stop stops
at a step boundary. A turn that was not asked and an operation of the context module
need not end; the time-outs are what lifts the fence then. That all are lowered together
again and again implies that each is.

**Proved.** `TurnsTypeCorrect`; `OneAtATime`, which is `OneAtTheContext`, and
`NothingWrittenLost`, which is `MessagesKept`: for any number of texts and operations, and
`MaxGoals <= 1`, for with two goals both are false (`turns_goals`). Neither says anything
about the channels between the loops, on which everything depends; `Inv` does, in two
halves.

`Control` is about who has been asked for what and not yet heard of. `OneTurn`: at most one
turn is outstanding, as a call, a task, a refusal or the event of its end. `Fenced`: as
long as the interface has not heard how a turn fares, `admission` (or `goalPending`) is up
and holds its text; once it has heard, `turnActive` is, until the event of the end.
`Backed` is the converse, so that no fence stays up for nothing and a refusal always finds
its own text. `OneOp` is what lets an operation that timed out go without being waited
for: its cancellation is in the runtime's queue before whatever is called next, so that its
task is gone when the next one starts, and no answer comes from it. `OneRestore`, `Flags`
and `Alone` say the same of restores, of the two flags of the runtime, and of whom an
operation may find at work.

`Sorted`, `FiledApart` and `Tally` are about the pieces. Each is in one place (`Spread`),
where a message in flight is one place, whether call, task before the announcement, or
refusal, and a turn in progress or in the ledger is another; `LedgerApart` keeps the
checkpoint that is being restored apart from turns the interface is still to hear of, so
that its prompt comes back once; `Tally` ties the places to `runs`. One lemma per action:
first what a step does to `Control` and to the two channels (`Control...`), then what the
handler does to the text (`Inv...`).

## The runs

| run | property broken or kept | states |
|---|---|---|
| `filelock`, `sessioncontrol`, `serve`, `sessionattach` | see above; who may write | 10^4 to 10^7 |
| `approvals`, `needsyou` | see above; waiting for the user | 10^5 to 10^6 |
| `checkpoints`, `rewind` | see above; restoring | 4.2 and 3.2 million |
| `attention`, `reply` | see above; the user elsewhere | 0.5 and 5.5 million |
| `livemcp` | see above; what a session is connected to | 0.3 million |
| `turns` | see above; who is at the conversation | 0.75 million |

Every module states its `TypeOK` (`LockTypeOK`, `AttachTypeOK`, `NeedsYouTypeOK`,
`LiveTypeOK`, `TurnsTypeOK`). Ten have it proved; `Rewind` and `LiveMCP` have the types
their invariants need (`Typed`, `Formed`). It holds on each run's instance when it is
added to the cfg; the runs spend their time on the rest. So with the inductive
invariants of the proofs: they held on the runs' instances before they were proved.

## Divergences

Where the code does something else than a doc, a comment or a docstring of the
repository says. Those with a cfg of their own can be reproduced by hand (`tlc -config
X.cfg M` ends in the trace); the others were met by reading and are what the models say
of the code, or leave out and name. Where the first column has the name of a run, the
property takes the place of the run's properties, with the constants given.

| cfg | property | what happens |
|---|---|---|
| `rewind_resume` | `Rewind.Resumes` | above |
| `attention_restart` | `Attention.NewQuestionNotifies` | above |
| `filelock_lost` | `FileLock.NoLostUpdate` | `_transaction` (`kernel/session_control.py:510`) drops the boolean of `locked`, whose docstring tells read-modify-write callers to check it and fail closed: an update is lost although nobody was killed. `reserve` and the other tables of `ambient/` drop it too. |
| `filelock`, `SPECIFICATION ScheduledLockSpec` | `FileLock.NeverWedged` | an unlink of a stale marker that fails is suppressed, and the `continue` after it (`kernel/file_lock.py:53-56`) passes the deadline by: where it goes on failing, every caller spins for ever. The docstring (`file_lock.py:9-18`): "proceeds anyway rather than hang". |
| `sessioncontrol`, `INVARIANT TrailComplete` | `SessionControl.TrailComplete` | `_audit` swallows the error of its append (`kernel/session_control.py:814-819`), and appends before `control.json` is replaced (512-513): after a full disk or a kill the trail lacks an operation or has one that did not happen. `docs/SESSION-CONTROL.md:289`: "Every decision appends to `control-audit.jsonl`". |
| `sessioncontrol`, `INVARIANT TrailNumbers`, `MaxFaults = 2` | `SessionControl.TrailNumbers` | one of each: an append that failed is counted, a torn transaction uses numbers twice; together they leave a sequence without a gap that tells of a wrong holder. `audit_seq` shows either alone. |
| `serve`, `PROPERTY ExitsCleanly` | `Serve.ExitsCleanly` | outside the auto posture the question tool waits without a time-out (`kernel/question.py:320-322`), and after `quit` or the end of stdin the `finally` of `serve_loop` awaits the turn (`kernel/serve.py:1305-1307`) although nobody reads the `decision` that would end it. The comment there (1301-1304): "so a piped one-shot `submit` completes cleanly on stdin EOF". |
| `rewind`, `INVARIANT AlwaysAsTold` | `Rewind.AlwaysAsTold` | the rollback of a restore that failed may fail (`kernel/runtime.py:2723-2729`), and `/clear` may shrink the context (1850): the saver's watermark (`kernel/persistence.py:786`) stays where it was, and what is said next is lost at a kill or a resume, where the old transcript returns. |
| `rewind`, `INVARIANT AlwaysRestorable` | `Rewind.AlwaysRestorable` | after such a rollback the context is cut off and the ledger is not: the interface offers restore points of turns that are gone. |
| `sessioncontrol_paused` | `SessionControl.NobodyHoldsWhilePaused` | `acquire` does not look at `paused`: somebody holds the pen while the session waits for a human, contrary to the docstring of `pause`. |
| `sessioncontrol_bots` | `SessionControl.BotsNeverFight` | `claim_handoff` lets an equal take the live lease, so two bots do fight, contrary to `docs/SESSION-CONTROL.md`. |
| `serve` | `Serve.EventsStream` | a control operation rebinds the local `records` of the loop (`kernel/serve.py:1174`); the next event kills the pump task and the stream is over while turns go on. |
| `serve` | `Serve.SteersOnlyTheirTurn` | a steer is queued for whatever turn runs when the loop takes it; one sent in a turn that ends while it waits is injected into the next. |
| `sessionattach_owners` | `SessionAttach.OneOwner` | `stop` (`kernel/session_attach.py:336`) unlinks outside the lock, after the server is closed; it hits a successor's files and a third process becomes a second owner. `session_attach.py:246`: two processes "cannot both win." `live_endpoint` (205) has the same window. |
| `sessionattach` | `SessionAttach.OneRuntime` | a process that looked too early, or was not told to attach, boots first and claims afterwards; refused, it serves with a runtime of its own, so that two write to one ledger. |
| `approvals_bar` | `Approvals.HidingNeverWaits` | `ui/app.py:1574` and `1586` take down whatever bar is shown, without comparing tickets; the second call then waits unseen. `docs/DESIGN-SPEC.md:160`: "hiding the bar must never leave a future waiting". |
| `needsyou_lost` | `NeedsYou.NothingLost` | a call that is cancelled after it took an answer off the queue (`kernel/question.py:328`) takes the answer with it; `docs/USER-GUIDE.md:227`: "so nothing is lost". |
| `needsyou_dependents` | `NeedsYou.DependentsWait` | the gate is passed before the classifier is awaited (`kernel/governance_hook.py:526`): of two parallel calls with one key the second runs after the first was parked. |
| `checkpoints_edits` | `Checkpoints.ManualChangesSkipped` | `_rebased_predecessors` (`kernel/checkpoints.py:1150`) moves the trail over an edit made between two turns; restoring the second and then the first overwrites the edit, contrary to `checkpoints.py:8`. |
| `checkpoints`, `Present = {}`, `MaxEdits = 0`, `MaxKills = 2` | `Checkpoints.UpdatesCompleted` | two kills and a disk that fills up once: `_recover_incomplete_restore_journals` goes on with the next unfinished journal after a `_commit_restore_state` that failed (`kernel/checkpoints.py:1463-1525`), over a branch update that is half done. The trail is then read from manifests half of which are new, and a file that one turn created and the next deleted comes back with what it was in between, reported as restored. `checkpoints.py:1448`: "A later owner completes these idempotent writes before doing work"; `checkpoints.py:370`: "an intermediate state is worse than leaving a file untouched". |
| `checkpoints_gate` | `Checkpoints.RetryOpensGate` | warnings of a half-done restore are never cleared, so that the retry `checkpoints.py:168` asks for does not open the gate. |
| `reply_question`, `MaxAsked = 2` | `Reply.AcksMonotonic` | `_acknowledge_attention` (`kernel/ambient/reply.py:919`) loads outside the lock and saves that copy: a row recorded in between vanishes, an acknowledgement in between is taken back. `docs/audits/b7-b9-boundary-2026-08-05.md:17`: "an acknowledgement cannot move backward when a stale writer arrives later". |
| `livemcp_report` | `LiveMCP.ReportTrue` | two failures in one command (a failed unmount and a failed remount of the rollback): the server keeps its definition with a tool missing, and the next `/mcp add` of it answers "already connected with the requested configuration", what `live_mcp.py:41-45` calls "falsely reporting success". |
| `livemcp_others` | `LiveMCP.OthersUntouched` | after such a rollback another server may mount the name that was lost; a removal of the first unmounts it, contrary to "can therefore reload/remove them safely" (`live_mcp.py:12-13`). |
| `livemcp_retry` | `LiveMCP.RemovalRetried` | one failed stop: the reconciler keeps the server "for a retry" (`live_mcp.py:681`), but `mcp.json` has lost it and `/mcp remove` answers "no such server". A failed `/mcp add` cannot be repeated either: the name now is in `mcp.json`, which the second add takes for proof that the boot had it (`Insertion`). |
| `livemcp_hidden` | `LiveMCP.BootConnectedOnce` | the caller asserts that a name is new from what `mcp.json` says now, not from the boot (`live_mcp.py:119-122`): a server of the boot that shows no tool, removed and added, is connected twice. |
| `livemcp_cancel` | `LiveMCP.ClosedClean` | leaving the program while a manager is being stopped: `except Exception` does not catch the cancellation, and the manager is neither owned nor set aside. |
| `turns_exclusive` | `Turns.Exclusive` | a clear, a compaction or a snapshot starts between `/goal` and the announcement of its turn (`clear_context`, `compact_context` and `begin_context_snapshot` look at `submit_pending` but not at `_goal_pending`) and works on the context beside it. `session_ops_controller.py:179` defines `context_operation_pending`, which counts the goal, as "any serialized context read or mutation". The other overlap: `handle_restore` does not look at `submit_pending` either, and the runtime reopens admission before the teardown (`runtime.py:1506`), so that a restore may enter while a turn is being saved. |
| `turns_goals` | `Turns.MessagesKept` | `_manage_goal`'s `finally` (`session_ops_controller.py:401`) lowers the fence whoever raised it: the end of one goal opens the next one's, a prompt gets through, is refused by the runtime, and is not given back since the goal's announcement has cleared its admission. `app.py:624`: "without data loss". `OneAtTheContext` fails for the same reason (`MaxOps = 1`): a clear, a copy or a restore is let in beside the newer goal. |
| `turns_steers` | `Turns.SteersKeepTurn` | a steer posted as the turn ends is enqueued by `on_composer_steer` without a look at what runs (one left over also survives a restore that fails, `app_support.py:704`) and is injected into the next turn; `app_support.py:508`: "must not become a turn the user never sent". |
| `reply_question` | `Reply.ReachesItsQuestion` | by the same numbers as `attention_restart`, a reply to a notification of one process answers the question of that number in another; `reply.py:12`: "the exact pending clarification". |

Met without a cfg:

- Serve: a refused control operation is remembered and replayed while refused
  writes are not; an acknowledged submit is dropped if a turn runs, or never run
  after a kill, and its retry is answered from the ring; `broker.answer` raises
  `ValueError` for an unknown choice, which ends the loop (`serve.py:1240`); an
  `approve` without an id is for whatever ticket is the head by then; tokens do
  not bind a process whose control plane failed to open (`serve.py:1137-1153`);
  `release` with an empty id drops anybody's lease; the last events of a turn
  that ended in the same round as `quit` are not written (`PumpDone`);
  an unparsable `control.json` resets the epoch.
- Approvals: an answer that meets a due timer is dropped; a second answer is
  ignored silently; a deferral whose ticket also times out is two denials.
- NeedsYou: nothing in the interface dismisses, so that the pending items of a
  cancelled question stay and count towards the 100.
- Rewind: (a) after a killed turn or `/clear` a conversation-only restore stages
  a visible branch that is no prefix of the lineage: it can never be committed,
  the gate stays closed and the next start refuses the session; (b) with two
  refused writes, the stage's and its cancel's, the next start performs the
  restore that was reported as failed; (c) the saver's watermark is not lowered
  by `/compact` (`persistence.py:786`) either; (d) a kill between the cancel of the intent and the cancel
  of the branch leaves the gate closed for ever; (e) a recovery that fails at
  start and succeeds at retry leaves the un-cut ledger; (f) a restore of both
  killed between code and arm leaves a later one saying that nothing is left to
  do, over newer edits; (g) `session export` and `fork` of a live session
  reconcile or delete its intent.
- Checkpoints: a hook cannot record its warning on a full disk; a settled
  journal does not discard its checkpoint from `_recovery_required`, so `begin`
  is refused until a restart; overlapping calls on one file, and a file deleted
  and re-created between kill and recovery, can restore an intermediate state.
- Attention: what a center holds only in memory after a missed lock is forgotten
  at its next transaction, so that a repeated ping tells again.
- Reply: an acknowledgement by a reply emits no `attention:acknowledged`, so that
  the phone's notification of an answered question is not cleared
  (`docs/SETTINGS.md:271` says it is), and a later look finds nothing open.

## What is proved and what is only checked

Proved for every value of the constants: the theorems in `PROJECT.json`. They rest on
the assumptions on constants of the modules they are about (`LockAssumption`,
`ControlAssumption`, `AttachAssumption`, `ServeAssumption`, `ApprovalAssumption`,
`NeedsYouAssumption`, `ReplyAssumption`, `CheckpointAssumption`, `StoreAssumption`,
`AttentionAssumption`, `RewindAssumption`, `LiveMCPAssumption`, `TurnsAssumption`),
which TLC evaluates in the runs; only `MaxHold <= StaleAfter` of the first is about the
code's environment, the others say what kind of thing a constant is. Every safety
property of `filelock`, `sessioncontrol`, `sessionattach`, `approvals`, `needsyou`,
`serve`, `attention`, `reply`, `livemcp` and `turns`, two of the three of `rewind` and
three of the four of `checkpoints` are among them. Nine have a hypothesis of their own,
because the code breaks them without it: `NoTurnOverARestore` and `FoundAsTold` that the
write which takes a restore back is not refused, `OthersSpared` and `ToldTrue` that a
command meets one failure at most, the three of `Turns` that one goal is started at
most, `TrailsHoldWithRoom` and `TrailsHold` that the disk has room or that an update is
completed first, and that a restore includes its target.

One module of proofs may be about two that have nothing to do with each other
(`FileLock` with `SessionControl`, `SessionAttach` with `Serve`, `LiveMCP` with
`Rewind`, `NeedsYou` with `Reply`). The first of each pair has a prefix in the names the two
would share: `LockSpec`, `AttachSpec`, `LiveSpec`, `NeedsYouSpec`.

Only model-checked:

- what is temporal under fairness (`NeverWedged`, `VanishedHolderFrees`, `Exits`,
  `NeverOccupied`, `HiddenGoesOn`, `QuestionsReturn`, `ClearsSent`, `FencesLift`): the
  prover has no ENABLED;
- `Checkpoints.NoIntermediate`: it relates the head of a trail to what each turn found
  (`origin`), which holds of the turns that are not folded; `UndoInv` would have to
  carry both;
- `Rewind`: `RestorePoints` speaks of the replay of the whole log, a fold over a
  sequence without a bound.

Induction over data is out of the provers' reach as a rule of the library, since the
theorems of induction take an operator. `Climb` of `CheckpointsProofs` is a way around
it for what has a length: it takes the set of the counterexamples up to N, none of
which can be the least, and gets from the pigeonhole principle that there is none.
`Flattened`, the type of a flattened sequence, is proved with it. `NewestGrant` and
`LeftoverSteersDiscarded` are proved and no run spends its time on them.

## Not modelled

What `PROJECT.json` marks so is text, tables, device I/O, sequential file editing
or a thin layer over the amplifier library: no state of it is shared by actors
that do not wait for each other. Parts of modelled components that are left out
are named in their sections. The largest are the token store of
`session_authz.py`, `ambient/grants.py`, and the registries of delegated lanes.

## Plan

1. **Checkpoints, the rest.** `NoIntermediate`, from the lines of `UndoInv` and what
   each turn first found.
2. **Turns beside other goals**: the theorems for any number of goals of which no two are
   outstanding together; the texts of goals would then have to be told apart.
3. A broker queue of several tickets under `Serve`, and a decision whose `NeedsYou` is
   composed with it.
