------------------------------ MODULE LiveMCP ------------------------------
(***************************************************************************)
(* /mcp add, reload and remove on a running session: the user's mcp.json   *)
(* is changed first, then LiveMCPReconciler (kernel/live_mcp.py) connects  *)
(* or disconnects the one server, under a lock of its own, and takes back  *)
(* what it did when a mount, an unmount or a stop fails.  The servers the  *)
(* session booted with belong to the tool-mcp module and are left alone.   *)
(*                                                                         *)
(* The commands are workers of the interface that do not exclude each      *)
(* other (ui/session_ops_controller.py); leaving the program cancels those *)
(* at work and then closes the reconciler.                                 *)
(***************************************************************************)
EXTENDS Integers, SequencesExt

CONSTANTS Servers, Tools, NoServer,
          Specs, NoSpec,  \* definitions of a server in mcp.json
          Boot,           \* the servers the session booted with, connected
          BootOwner,      \* of each tool, the server of Boot that brings it
          Offers,         \* sequences of tools a server may turn out to have
          MaxCalls,       \* bound: commands
          MaxFailures,      \* bound: failures within one command
          Suspends        \* where the cancellation of a worker is delivered

ASSUME LiveMCPAssumption ==
  /\ NoServer \notin Servers /\ Boot \subseteq Servers
  /\ BootOwner \in [Tools -> Boot \cup {NoServer}]
  /\ Offers \subseteq Seq(Tools) /\ \A o \in Offers : IsInjective(o)
  /\ {MaxCalls, MaxFailures} \subseteq Nat /\ Suspends \subseteq {"wait", "discover", "stop"}

VARIABLES
  config,   \* mcp.json: the definition of each server
  tools,    \* the coordinator: whose wrapper is mounted under each name
  managers, \* the managers made, in order: [server, spec, caps, up]
  owned,    \* _owned: the manager of each server the reconciler connected
  stranded, \* _stranded: managers left to close(), with the names to unmount
  waiting,  \* the commands that wait for the lock, in order
  run,      \* the command that has it: where it is and what it knows
  report,   \* the last MCPReconcileResult
  leaving,  \* the program is being left
  calls,    \* history: commands issued
  cut       \* history: managers whose stop was cancelled

live == <<tools, managers, owned, stranded>>
liveVars == <<config, live, waiting, run, report, leaving, calls, cut>>

Nobody == 0
Booted == -1  \* the one manager of tool-mcp
NoReport == [op |-> "none"]
NoRun == [pc |-> "idle", op |-> "none", server |-> NoServer, m |-> Nobody, old |-> Nobody,
          names |-> << >>, missing |-> {}, clean |-> TRUE, faults |-> 0, say |-> NoReport,
          servers |-> {}, strays |-> {}]

Managers == DOMAIN managers
ServerOf(t) == CASE tools[t] = Nobody -> NoServer
                 [] tools[t] = Booted -> BootOwner[t]
                 [] OTHER             -> managers[tools[t]].server
Visible(s) == {t \in Tools : ServerOf(t) = s}
Free == run = NoRun

LiveTypeOK ==
  /\ config \in [Servers -> Specs \cup {NoSpec}]
  /\ tools \in [Tools -> Managers \cup {Nobody, Booted}]
  /\ Len(managers) <= calls /\ calls <= MaxCalls
  /\ \A m \in Managers : /\ managers[m].server \in Servers /\ managers[m].spec \in Specs
                         /\ managers[m].caps \in Offers \cup {<< >>} /\ managers[m].up \in BOOLEAN
  /\ owned \in [Servers -> Managers \cup {Nobody}]
  /\ \A s \in Servers : owned[s] # Nobody => managers[owned[s]].server = s
  /\ \A x \in stranded : x.m \in Managers
  /\ run.faults \in 0 .. MaxFailures /\ cut \subseteq Managers

LiveInit ==
  /\ config \in {[s \in Servers |-> IF s \in Boot THEN x ELSE NoSpec] : x \in Specs}
  /\ tools = [t \in Tools |-> IF BootOwner[t] = NoServer THEN Nobody ELSE Booted]
  /\ managers = << >> /\ owned = [s \in Servers |-> Nobody] /\ stranded = {}
  /\ waiting = << >> /\ run = NoRun /\ report = NoReport /\ leaving = FALSE /\ calls = 0 /\ cut = {}

-----------------------------------------------------------------------------
(* The commands of the runtime: mcp.json is written before the lock is asked for *)

Command(op, s, x) == [op |-> op, server |-> s, spec |-> x, known |-> config[s] # NoSpec]

Issue(c) == /\ ~leaving /\ calls < MaxCalls
            /\ calls' = calls + 1 /\ waiting' = Append(waiting, c)
            /\ UNCHANGED <<live, run, report, leaving, cut>>

AddServer(s, x) == Issue(Command("add", s, x)) /\ config' = [config EXCEPT ![s] = x]

ReloadServer(s) == config[s] # NoSpec /\ Issue(Command("reload", s, config[s])) /\ UNCHANGED config

RemoveServer(s) ==
  /\ config[s] # NoSpec
  /\ Issue(Command("remove", s, NoSpec)) /\ config' = [config EXCEPT ![s] = NoSpec]

\* The cleanup of the session, behind the commands already issued.
Leave == /\ ~leaving /\ leaving' = TRUE
         /\ waiting' = Append(waiting, [op |-> "close"])
         /\ UNCHANGED <<config, live, run, report, calls, cut>>

-----------------------------------------------------------------------------
(* reconcile: what is decided at once *)

Said(c, connected, ok) == [op |-> c.op, server |-> c.server, connected |-> connected, ok |-> ok]

Removal(c) == IF Visible(c.server) # {} THEN Said(c, "yes", FALSE)
              ELSE IF c.known THEN Said(c, "unknown", FALSE) ELSE Said(c, "no", TRUE)

\* A server seen nowhere may be connected if mcp.json did not have it before.
Insertion(c) == IF Visible(c.server) # {} THEN Said(c, "yes", FALSE)
                ELSE IF c.op = "reload" \/ c.known THEN Said(c, "unknown", FALSE) ELSE NoReport

Verdict(c) ==
  LET m == owned[c.server] IN
  IF m = Nobody THEN IF c.op = "remove" THEN Removal(c) ELSE Insertion(c)
  ELSE IF c.op # "remove" /\ managers[m].spec = c.spec THEN Said(c, "yes", TRUE) ELSE NoReport

First == Head(waiting)
Takes(ops) == Free /\ waiting # << >> /\ First.op \in ops /\ waiting' = Tail(waiting)

Job(c, pc, m) == [NoRun EXCEPT !.op = c.op, !.server = c.server, !.pc = pc, !.m = m,
                               !.old = owned[c.server]]

Decide ==
  /\ Takes({"add", "reload", "remove"}) /\ Verdict(First) # NoReport
  /\ report' = Verdict(First)
  /\ UNCHANGED <<config, live, run, leaving, calls, cut>>

Disconnect ==
  /\ Takes({"remove"}) /\ Verdict(First) = NoReport
  /\ run' = Job(First, "unmount", Nobody)
  /\ UNCHANGED <<config, live, report, leaving, calls, cut>>

\* A manager of its own, which starts the one server.
Connect ==
  /\ Takes({"add", "reload"}) /\ Verdict(First) = NoReport
  /\ managers' = Append(managers, [server |-> First.server, spec |-> First.spec,
                                   caps |-> << >>, up |-> TRUE])
  /\ run' = Job(First, "discover", Len(managers'))
  /\ UNCHANGED <<config, tools, owned, stranded, report, leaving, calls, cut>>

-----------------------------------------------------------------------------
(* The transaction *)

Answer(r) ==
  IF run.op = "close" THEN run' = [run EXCEPT !.pc = "close"] /\ UNCHANGED report
  ELSE run' = NoRun /\ report' = IF r = NoReport THEN report ELSE r

Caps(m) == managers[m].caps
Failing(n) == run.faults + n <= MaxFailures
Goes(pc) == [run EXCEPT !.pc = pc]
Fails(pc) == [Goes(pc) EXCEPT !.faults = @ + 1]
Prefix(s, k) == ToSet(SubSeq(s, 1, k))
Put(names, m) == tools' = [t \in Tools |-> IF t \in names THEN m ELSE tools[t]]
\* Mutant: what could not be cleaned up is forgotten.
StrandNever(m, names) == UNCHANGED stranded

Strand(m, names) == stranded' = stranded \cup {[m |-> m, names |-> names]}
Was == IF run.old = Nobody THEN "no" ELSE "yes"

\* Mutant: tools are mounted over those of others.
CollidesNever(o) == {}

\* Names that others have mounted.
Collides(o) == {t \in ToSet(o) : tools[t] # Nobody}
                 \ (IF run.old = Nobody THEN {} ELSE ToSet(Caps(run.old)))

Discovered(o) ==
  /\ run.pc = "discover"
  /\ managers' = [managers EXCEPT ![run.m].caps = o]
  /\ run' = IF Collides(o) # {} THEN [Goes("discard") EXCEPT !.say = Said(run, Was, FALSE)]
            ELSE Goes(IF run.old = Nobody THEN "mount" ELSE "unmount")
  /\ UNCHANGED <<config, tools, owned, stranded, waiting, report, leaving, calls, cut>>

Undiscovered ==
  /\ run.pc = "discover" /\ Failing(1)
  /\ run' = [Fails("discard") EXCEPT !.say = Said(run, Was, FALSE)]
  /\ UNCHANGED <<config, live, waiting, report, leaving, calls, cut>>

\* _mount_wrappers: in order, up to the first that fails.
Mount(k) ==
  /\ run.pc = "mount" /\ k \in 0 .. Len(Caps(run.m))
  /\ Put(Prefix(Caps(run.m), k), run.m)
  /\ IF k < Len(Caps(run.m))
     THEN /\ Failing(1) /\ run' = [Fails("undo") EXCEPT !.names = SubSeq(Caps(run.m), 1, k)]
          /\ UNCHANGED <<owned, report>>
     ELSE /\ owned' = [owned EXCEPT ![run.server] = run.m]
          /\ IF run.old = Nobody THEN Answer(Said(run, "yes", TRUE))
             ELSE run' = Goes("stopold") /\ UNCHANGED report
  /\ UNCHANGED <<config, managers, stranded, waiting, leaving, calls, cut>>

\* _unmount_names over what was mounted, the last first; the old tools that
\* are missing then come back.
UndoMounts(k) ==
  /\ run.pc = "undo" /\ k \in 0 .. Len(run.names)
  /\ Put(Prefix(Reverse(run.names), k), Nobody)
  /\ LET clean == k = Len(run.names) IN
     /\ ~clean => Failing(1)
     /\ IF clean THEN UNCHANGED stranded ELSE Strand(run.m, Caps(run.m))
     /\ LET next == IF clean THEN run ELSE [run EXCEPT !.clean = FALSE, !.faults = @ + 1] IN
        CASE run.old # Nobody ->
               /\ run' = [next EXCEPT !.pc = "remount",
                            !.missing = {t \in ToSet(Caps(run.old)) : tools'[t] = Nobody}]
               /\ UNCHANGED report
          [] run.old = Nobody /\ clean ->
               /\ run' = [next EXCEPT !.pc = "discard", !.say = Said(run, "no", FALSE)]
               /\ UNCHANGED report
          [] OTHER -> Answer(Said(run, "unknown", FALSE))
  /\ UNCHANGED <<config, managers, owned, waiting, leaving, calls, cut>>

\* Mutant: the last tool unmounted is not among those that come back.
UnmountShort(k) ==
  /\ run.pc = "unmount" /\ k \in 0 .. Len(Caps(run.old))
  /\ LET order == Reverse(Caps(run.old)) IN
     /\ Put(Prefix(order, k), Nobody)
     /\ IF k = Len(order) THEN run' = Goes(IF run.m = Nobody THEN "stopowned" ELSE "mount")
        ELSE Failing(1) /\ run' = [Fails("remount") EXCEPT !.missing = Prefix(order, k - 1)]
  /\ UNCHANGED <<config, managers, owned, stranded, waiting, report, leaving, calls, cut>>

\* _unmount_names over the tools of the connection to be replaced or removed.
Unmount(k) ==
  /\ run.pc = "unmount" /\ k \in 0 .. Len(Caps(run.old))
  /\ LET order == Reverse(Caps(run.old)) IN
     /\ Put(Prefix(order, k), Nobody)
     /\ IF k = Len(order) THEN run' = Goes(IF run.m = Nobody THEN "stopowned" ELSE "mount")
        ELSE Failing(1) /\ run' = [Fails("remount") EXCEPT !.missing = Prefix(order, k)]
  /\ UNCHANGED <<config, managers, owned, stranded, waiting, report, leaving, calls, cut>>

\* _remount_subset: each of the names, whatever happens to the others.
Remount(lost) ==
  /\ run.pc = "remount" /\ lost \subseteq run.missing /\ Failing(Cardinality(lost))
  /\ Put(run.missing \ lost, run.old)
  /\ LET r == Said(run, IF lost = {} /\ run.clean THEN "yes" ELSE "unknown", FALSE) IN
     IF run.m # Nobody /\ run.clean
     THEN run' = [Goes("discard") EXCEPT !.say = r, !.faults = @ + Cardinality(lost)] /\ UNCHANGED report
     ELSE IF run.op = "close"
          THEN run' = [Goes("close") EXCEPT !.faults = @ + Cardinality(lost)] /\ UNCHANGED report
          ELSE Answer(r)
  /\ UNCHANGED <<config, managers, owned, stranded, waiting, leaving, calls, cut>>

Down(m) == managers' = [managers EXCEPT ![m].up = FALSE]

\* A stop that fails leaves the connection up, to be stopped by close().
Discard ==
  /\ run.pc = "discard"
  /\ \/ Down(run.m) /\ UNCHANGED stranded
     \/ Failing(1) /\ Strand(run.m, << >>) /\ UNCHANGED managers
  /\ Answer(run.say)
  /\ UNCHANGED <<config, tools, owned, waiting, leaving, calls, cut>>

StopOld ==
  /\ run.pc = "stopold"
  /\ \/ Down(run.old) /\ UNCHANGED stranded
     \/ Failing(1) /\ Strand(run.old, << >>) /\ UNCHANGED managers
  /\ Answer(Said(run, "yes", TRUE))
  /\ UNCHANGED <<config, tools, owned, waiting, leaving, calls, cut>>

StopOwned ==
  /\ run.pc = "stopowned"
  /\ \/ /\ Down(run.old) /\ owned' = [owned EXCEPT ![run.server] = Nobody]
        /\ Answer(Said(run, "no", TRUE))
     \/ /\ Failing(1) /\ run' = [Fails("remount") EXCEPT !.missing = ToSet(Caps(run.old))]
        /\ UNCHANGED <<managers, owned, report>>
  /\ UNCHANGED <<config, tools, stranded, waiting, leaving, calls, cut>>

-----------------------------------------------------------------------------
(* close, and the workers cancelled before it *)

Owned == {s \in Servers : owned[s] # Nobody}

Close ==
  /\ Takes({"close"})
  /\ run' = [NoRun EXCEPT !.op = "close", !.pc = "close", !.servers = Owned]
  /\ UNCHANGED <<config, live, report, leaving, calls, cut>>

CloseServer(s) ==
  /\ run.pc = "close" /\ s \in run.servers
  /\ run' = [Goes("unmount") EXCEPT !.servers = @ \ {s}, !.server = s, !.old = owned[s]]
  /\ UNCHANGED <<config, live, waiting, report, leaving, calls, cut>>

CloseStranded ==
  /\ run.pc = "close" /\ run.servers = {}
  /\ run' = [Goes("strays") EXCEPT !.strays = stranded]
  /\ UNCHANGED <<config, live, waiting, report, leaving, calls, cut>>

\* A stray whose unmount or stop fails is kept and passed over.
Stray(x, k) ==
  /\ run.pc = "strays" /\ x \in run.strays /\ k \in 0 .. Len(x.names)
  /\ Put(Prefix(Reverse(x.names), k), Nobody)
  /\ \/ k = Len(x.names) /\ Down(x.m) /\ stranded' = stranded \ {x}
        /\ run' = [run EXCEPT !.strays = @ \ {x}]
     \/ /\ Failing(1) /\ run' = [run EXCEPT !.strays = @ \ {x}, !.faults = @ + 1]
        /\ UNCHANGED <<managers, stranded>>
  /\ UNCHANGED <<config, owned, waiting, report, leaving, calls, cut>>

Closed ==
  /\ run.pc = "strays" /\ run.strays = {}
  /\ run' = Goes("closed")
  /\ UNCHANGED <<config, live, waiting, report, leaving, calls, cut>>

CancelWaiting(i) ==
  /\ leaving /\ "wait" \in Suspends /\ waiting[i].op # "close"
  /\ waiting' = RemoveAt(waiting, i)
  /\ UNCHANGED <<config, live, run, report, leaving, calls, cut>>

\* The manager is stopped before the cancellation goes on.
CancelDiscover ==
  /\ leaving /\ "discover" \in Suspends /\ run.pc = "discover"
  /\ run' = Goes("discard")
  /\ UNCHANGED <<config, live, waiting, report, leaving, calls, cut>>

CancelStop ==
  /\ leaving /\ "stop" \in Suspends /\ run.pc \in {"discard", "stopold", "stopowned"}
  /\ run.op # "close" /\ run' = NoRun
  /\ cut' = cut \cup (CASE run.pc = "discard"   -> {run.m}
                      [] run.pc = "stopold"   -> {run.old}
                      [] run.pc = "stopowned" -> {})
  /\ UNCHANGED <<config, live, waiting, report, leaving, calls>>

LiveNext ==
  \/ \E s \in Servers : \/ \E x \in Specs : AddServer(s, x)
                        \/ ReloadServer(s) \/ RemoveServer(s) \/ CloseServer(s)
  \/ Decide \/ Disconnect \/ Connect
  \/ \E o \in Offers : Discovered(o)
  \/ Undiscovered
  \/ \E k \in 0 .. Cardinality(Tools) : Mount(k) \/ UndoMounts(k) \/ Unmount(k)
  \/ \E lost \in SUBSET Tools : Remount(lost)
  \/ Discard \/ StopOld \/ StopOwned
  \/ Leave \/ Close \/ CloseStranded \/ Closed
  \/ \E x \in stranded : \E k \in 0 .. Len(x.names) : Stray(x, k)
  \/ \E i \in DOMAIN waiting : CancelWaiting(i)
  \/ CancelDiscover \/ CancelStop

LiveSpec == LiveInit /\ [][LiveNext]_liveVars

-----------------------------------------------------------------------------
(* What must hold *)

Running == {m \in Managers : managers[m].up}
Strays == {x.m : x \in stranded}
InHand == IF run.pc \in {"idle", "close", "strays", "closed"} THEN {} ELSE {run.m, run.old} \ {Nobody}

\* Whatever fails, nothing is lost from sight: each connection that is up, and
\* each tool mounted for one, belongs to a server the reconciler owns, to what it
\* has set aside for close(), or to the command at work (live_mcp.py:10-13),
\* but for a connection whose stop was cancelled.
NothingOrphaned ==
  /\ \A m \in Running : \/ owned[managers[m].server] = m
                        \/ m \in Strays \cup InHand \cup cut
  /\ \A t \in Tools : tools[t] \in Managers =>
       \/ tools[t] \in InHand
       \/ owned[managers[tools[t]].server] = tools[t] /\ t \in ToSet(Caps(tools[t]))
       \/ \E x \in stranded : x.m = tools[t] /\ t \in ToSet(x.names)

Whole(s) == IF owned[s] = Nobody THEN Visible(s) # {}
            ELSE /\ managers[owned[s]].up
                 /\ {t \in Tools : tools[t] = owned[s]} = ToSet(Caps(owned[s]))
Gone(s) == /\ owned[s] = Nobody /\ Visible(s) = {}
           /\ \A m \in Running : managers[m].server = s => m \in Strays

\* What the user is told last of a server is so: connected with all its tools,
\* or with none of them left (live_mcp.py:19-21, :41-45).
ReportTrue ==
  (Free /\ ~leaving /\ report # NoReport) =>
    /\ report.connected = "yes" => Whole(report.server)
    /\ report.connected = "no" => Gone(report.server)

\* Until the program is left a command touches the tools of its own server only;
\* the tools of the servers of the boot are never unmounted or replaced
\* (live_mcp.py:9-14).
OthersUntouched ==
  [][\A t \in Tools : tools'[t] # tools[t] =>
       /\ tools[t] # Booted
       /\ ~leaving =>
            \A m \in {tools[t], tools'[t]} \ {Nobody} : managers[m].server = run.server]_liveVars

\* A server the session booted with is not connected a second time, also when
\* its definition is removed and added again (live_mcp.py:119-122).
BootConnectedOnce == \A m \in Managers : managers[m].server \notin Boot

\* When the session is closed and nothing failed while it was, no connection
\* and no tool of the reconciler is left.
ClosedClean ==
  (run.pc = "closed" /\ run.faults = 0) =>
    /\ Running = {} /\ owned = [s \in Servers |-> Nobody] /\ stranded = {}
    /\ \A t \in Tools : tools[t] \in {Nobody, Booted}

\* A removal that failed can be tried again: what the reconciler keeps is
\* something /mcp remove still finds (live_mcp.py:681 "preserve ownership for a retry").
RemovalRetried == (Free /\ waiting = << >>) => \A s \in Owned : config[s] # NoSpec
=============================================================================
