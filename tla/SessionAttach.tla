--------------------------- MODULE SessionAttach ---------------------------
(***************************************************************************)
(* Which process owns a session (kernel/session_attach.py, and serve,      *)
(* _join_live_session and _ensure_attach of kernel/serve.py): a process    *)
(* that runs the session listens on a socket and advertises itself in a    *)
(* file; one that is told to attach joins it instead of booting a runtime. *)
(*                                                                         *)
(* A member of Proc is one run of the program.  Every process of a session *)
(* uses the same two paths.  Claiming them is done under the file lock;    *)
(* breaking a stale advert before boot, and retracting one's own, are not. *)
(* The lock is as FileLock shows: it excludes while its holders live; the  *)
(* marker of a killed one is broken, or entered without when a wait ends.  *)
(***************************************************************************)
EXTENDS Integers

CONSTANTS Proc, None

ASSUME AttachAssumption == None \notin Proc

VARIABLES advert,    \* attach.json: the process it names, or None
          sock,      \* attach.sock: the process that bound it, or None
          lock,      \* who made the lock's marker, or None
          pc,        \* where each process is
          plan,      \* when each process claims next: before it serves (it was
                     \* started with --attach or --attachable), once a client
                     \* opens the control plane, or never again
          listening, \* its server accepts connections
          seen,      \* the advert it has read and not judged yet
          robbed,    \* history: somebody who held no lock unlinked a listener's file
          unlocked,  \* history: somebody claimed without the lock
          met        \* history: the owner there was when an attach began, or None

files == <<advert, sock>>
past == <<robbed, unlocked, met>>
attachVars == <<files, lock, pc, plan, listening, seen, past>>

Looking == {"look", "judge", "clear", "clearsock", "join"}
Claiming == {"reread", "rejudge", "reclear", "reclearsock", "bind", "publish"}
Leaving == {"retract", "retractsock", "cleanup"}
Ended == {"down", "dead"}
Steps == {"idle", "boot", "lock", "serving", "peer"}
         \cup Looking \cup Claiming \cup Leaving \cup Ended

AttachTypeOK ==
  /\ {advert, sock, lock} \subseteq Proc \cup {None}
  /\ pc \in [Proc -> Steps]
  /\ plan \in [Proc -> {"boot", "open", "never"}]
  /\ listening \in [Proc -> BOOLEAN]
  /\ \A p \in Proc : /\ listening[p] => pc[p] \in {"publish", "serving"}
                     /\ pc[p] = "publish" => listening[p]
  /\ seen \in [Proc -> Proc \cup {None}]
  /\ robbed \in BOOLEAN /\ unlocked \in BOOLEAN
  /\ met \in [Proc -> Proc \cup {None}]

AttachInit ==
  /\ advert = None /\ sock = None /\ lock = None
  /\ pc = [p \in Proc |-> "idle"]
  /\ plan = [p \in Proc |-> "open"]
  /\ listening = [p \in Proc |-> FALSE]
  /\ seen = [p \in Proc |-> None]
  /\ robbed = FALSE /\ unlocked = FALSE
  /\ met = [p \in Proc |-> None]

Goto(p, step) == pc' = [pc EXCEPT ![p] = step]
Plan(p, when) == plan' = [plan EXCEPT ![p] = when]
See(p, q) == seen' = [seen EXCEPT ![p] = q]

\* An owner: it accepts peers and believes that its advert is out.
Owner(p) == listening[p] /\ pc[p] = "serving"

\* It runs the session: it writes to the transcript and the ledger.
Runtime(p) == pc[p] \in {"serving", "lock"} \cup Claiming \cup Leaving

Up(p) == pc[p] \notin {"idle"} \cup Ended

\* endpoint_live: the pid is alive, or another process has it by now, and the
\* socket at the path accepts, whoever bound it.
Live(q, recycled) ==
  /\ Up(q) \/ recycled
  /\ sock # None /\ listening[sock]

-----------------------------------------------------------------------------
(* serve: boot, or join whom the advert names *)

Begin(p) ==
  /\ pc[p] = "idle"
  /\ \/ /\ \E w \in {"boot", "open"} : Plan(p, w)
        /\ Goto(p, "boot") /\ UNCHANGED met
     \/ /\ Plan(p, "boot")
        /\ Goto(p, "look")
        /\ \E q \in Proc \cup {None} :
             /\ IF q = None THEN \A r \in Proc : ~Owner(r) ELSE Owner(q)
             /\ met' = [met EXCEPT ![p] = q]
  /\ UNCHANGED <<files, lock, listening, seen, robbed, unlocked>>

Look(p) ==
  /\ pc[p] = "look"
  /\ See(p, advert)
  /\ Goto(p, IF advert = None THEN "boot" ELSE "judge")
  /\ UNCHANGED <<files, lock, plan, listening, past>>

Judge(p) ==
  /\ pc[p] = "judge"
  /\ \E recycled \in BOOLEAN :
       Goto(p, IF Live(seen[p], recycled) THEN "join" ELSE "clear")
  /\ See(p, None)
  /\ UNCHANGED <<files, lock, plan, listening, past>>

\* An unlink by a process that holds no lock, of what may be another's by now.
Robs(p, q) == q # p /\ q # None /\ listening[q]

UnlinkAdvert(p) ==
  /\ advert' = None /\ robbed' = (robbed \/ Robs(p, advert))
  /\ UNCHANGED sock

UnlinkSocket(p) ==
  /\ sock' = None /\ robbed' = (robbed \/ Robs(p, sock))
  /\ UNCHANGED advert

\* clear_endpoint, as live_endpoint calls it: outside the lock.
Clear(p) ==
  /\ pc[p] = "clear" /\ UnlinkAdvert(p) /\ Goto(p, "clearsock")
  /\ UNCHANGED <<lock, plan, listening, seen, unlocked, met>>

ClearSocket(p) ==
  /\ pc[p] = "clearsock" /\ UnlinkSocket(p) /\ Goto(p, "boot")
  /\ UNCHANGED <<lock, plan, listening, seen, unlocked, met>>

\* Another connection than the probe's: it may find nobody, and the process
\* ends with the error.
Join(p) ==
  /\ pc[p] = "join"
  /\ Goto(p, IF sock # None /\ listening[sock] THEN "peer" ELSE "down")
  /\ UNCHANGED <<files, lock, plan, listening, seen, past>>

\* Either side closes.
Detach(p) ==
  /\ pc[p] = "peer" /\ Goto(p, "down")
  /\ UNCHANGED <<files, lock, plan, listening, seen, past>>

\* runtime.start, which may fail.
Boot(p) ==
  /\ pc[p] = "boot"
  /\ \/ Goto(p, IF plan[p] = "boot" THEN "lock" ELSE "serving")
     \/ Goto(p, "down")
  /\ Plan(p, "open")
  /\ UNCHANGED <<files, lock, listening, seen, past>>

\* The first operation of a client that opts in (see Serve): claim, unless
\* that was done.
OpenControl(p) ==
  /\ pc[p] = "serving" /\ plan[p] = "open"
  /\ Plan(p, "never")
  /\ IF listening[p] THEN UNCHANGED pc ELSE Goto(p, "lock")
  /\ UNCHANGED <<files, lock, listening, seen, past>>

-----------------------------------------------------------------------------
(* AttachServer.start *)

\* Mutant: the marker of a killed process is waited for.
EnterWhenFree(p) ==
  /\ pc[p] = "lock" /\ lock = None /\ lock' = p
  /\ Goto(p, "reread")
  /\ UNCHANGED <<files, plan, listening, seen, past>>

Enter(p) ==
  /\ pc[p] = "lock"
  /\ lock # None => ~Up(lock)
  /\ \/ lock' = p /\ UNCHANGED unlocked
     \/ lock # None /\ unlocked' = TRUE /\ UNCHANGED lock
  /\ Goto(p, "reread")
  /\ UNCHANGED <<files, plan, listening, seen, robbed, met>>

\* Leave the section.
Leave(p, step) ==
  /\ Goto(p, step)
  /\ lock' = IF lock = p THEN None ELSE lock

Reread(p) ==
  /\ pc[p] = "reread"
  /\ See(p, advert)
  /\ Goto(p, IF advert = None THEN "reclearsock" ELSE "rejudge")
  /\ UNCHANGED <<files, lock, plan, listening, past>>

\* Mutant: a live owner is not looked for again under the lock.
RejudgeNever(p) ==
  /\ pc[p] = "rejudge"
  /\ Goto(p, "reclear") /\ See(p, None)
  /\ UNCHANGED <<files, lock, plan, listening, past>>

\* A live owner: do not advertise, and go on serving beside it.
Rejudge(p) ==
  /\ pc[p] = "rejudge"
  /\ \E recycled \in BOOLEAN :
       IF Live(seen[p], recycled) THEN Leave(p, "serving")
       ELSE Goto(p, "reclear") /\ UNCHANGED lock
  /\ See(p, None)
  /\ UNCHANGED <<files, plan, listening, past>>

Reclear(p) ==
  /\ pc[p] = "reclear"
  /\ advert' = None
  /\ Goto(p, "reclearsock")
  /\ UNCHANGED <<sock, lock, plan, listening, seen, past>>

\* Whatever socket is at the path, whether an advert was there or not.
ReclearSocket(p) ==
  /\ pc[p] = "reclearsock"
  /\ sock' = None
  /\ Goto(p, "bind")
  /\ UNCHANGED <<advert, lock, plan, listening, seen, past>>

\* The library removes a socket that came to the path meanwhile.
Bind(p) ==
  /\ pc[p] = "bind"
  /\ sock' = p /\ listening' = [listening EXCEPT ![p] = TRUE]
  /\ Goto(p, "publish")
  /\ UNCHANGED <<advert, lock, plan, seen, past>>

\* OSError: nothing is advertised, and the process goes on serving.
BindError(p) ==
  /\ pc[p] = "bind" /\ Leave(p, "serving")
  /\ UNCHANGED <<files, plan, listening, seen, past>>

\* Mutant: the advert is lost, say, for being written under another name.
PublishNothing(p) ==
  /\ pc[p] = "publish" /\ Leave(p, "serving")
  /\ UNCHANGED <<files, plan, listening, seen, past>>

Publish(p) ==
  /\ pc[p] = "publish"
  /\ advert' = p
  /\ Leave(p, "serving")
  /\ UNCHANGED <<sock, plan, listening, seen, past>>

\* OSError: it leaves serve_loop by way of its callers, past no stop().
PublishError(p) ==
  /\ pc[p] = "publish"
  /\ Leave(p, "dead")
  /\ listening' = [listening EXCEPT ![p] = FALSE]
  /\ UNCHANGED <<files, plan, seen, past>>

-----------------------------------------------------------------------------
(* The end of a process: the finally clause of serve_loop, and stop() *)

Stop(p) ==
  /\ pc[p] = "serving"
  /\ listening' = [listening EXCEPT ![p] = FALSE]
  /\ Goto(p, IF listening[p] THEN "retract" ELSE "cleanup")
  /\ UNCHANGED <<files, lock, plan, seen, past>>

\* clear_endpoint, as stop calls it: outside the lock, whosever they are now.
Retract(p) ==
  /\ pc[p] = "retract" /\ UnlinkAdvert(p) /\ Goto(p, "retractsock")
  /\ UNCHANGED <<lock, plan, listening, seen, unlocked, met>>

\* Mutant: the advert is retracted and the socket file left.
RetractAdvertOnly(p) ==
  /\ pc[p] = "retractsock" /\ Goto(p, "cleanup")
  /\ UNCHANGED <<files, lock, plan, listening, seen, past>>

RetractSocket(p) ==
  /\ pc[p] = "retractsock" /\ UnlinkSocket(p) /\ Goto(p, "cleanup")
  /\ UNCHANGED <<lock, plan, listening, seen, unlocked, met>>

Cleanup(p) ==
  /\ pc[p] = "cleanup" /\ Goto(p, "down")
  /\ Plan(p, "open") /\ met' = [met EXCEPT ![p] = None]
  /\ UNCHANGED <<files, lock, listening, seen, robbed, unlocked>>

\* The files and the lock's marker stay.
Die(p) ==
  /\ Up(p)
  /\ Goto(p, "dead") /\ listening' = [listening EXCEPT ![p] = FALSE]
  /\ Plan(p, "open") /\ See(p, None) /\ met' = [met EXCEPT ![p] = None]
  /\ UNCHANGED <<files, lock, robbed, unlocked>>

Arrive(p) == Look(p) \/ Judge(p) \/ Clear(p) \/ ClearSocket(p) \/ Join(p) \/ Boot(p)
Claim(p) ==
  \/ Enter(p) \/ Reread(p) \/ Rejudge(p) \/ Reclear(p) \/ ReclearSocket(p)
  \/ Bind(p) \/ BindError(p) \/ Publish(p) \/ PublishError(p)
Depart(p) == Retract(p) \/ RetractSocket(p) \/ Cleanup(p)

AttachNext ==
  \E p \in Proc :
    \/ Begin(p) \/ Arrive(p) \/ Detach(p) \/ OpenControl(p)
    \/ Claim(p) \/ Stop(p) \/ Depart(p) \/ Die(p)

AttachSpec == AttachInit /\ [][AttachNext]_attachVars

\* A process that runs goes on.  Nobody owes a client, an end or a kill.
FairAttachSpec ==
  AttachSpec /\ \A p \in Proc : WF_attachVars(Arrive(p)) /\ WF_attachVars(Claim(p)) /\ WF_attachVars(Depart(p))

-----------------------------------------------------------------------------
(* Properties *)

Owners == {p \in Proc : Owner(p)}

\* The lock did what FileLock promises while nobody is killed, and the unlinks
\* outside it (live_endpoint, stop) met no file of a process that listens.
Undisturbed == ~robbed /\ ~unlocked

\* The claim is exclusive: nothing but a late unlink outside the lock, or a
\* claim without it, lets two processes own the session (start).
OneOwnerUndisturbed == Undisturbed => \A p, q \in Owners : p = q

\* "two processes racing to own the same session cannot both win" (start), as
\* long as the lock holds.
OneOwner == ~unlocked => \A p, q \in Owners : p = q

\* A process told to attach, which began while there was an owner, joins it or
\* ends, and boots no runtime while that owner stays (serve, stage 1).
AttachJoins ==
  Undisturbed =>
    \A p, q \in Proc : met[p] = q /\ Owner(q) => pc[p] # "boot" /\ ~Runtime(p)

\* "Exactly one process owns the runtime" (module docstring, No double-writer):
\* beside an owner nobody else runs the session.
OneRuntime ==
  Undisturbed => \A p, q \in Proc : Runtime(p) /\ Owner(q) => p = q

\* A file on disk is that of a process that will remove it, or was stopped
\* short: when all have ended of themselves the next finds a clean slate
\* (module docstring, Clean detach), whatever they did to each other's files.
NothingLeftBehind ==
  \A p \in Proc :
    /\ advert = p => \/ pc[p] = "serving" /\ listening[p]
                     \/ pc[p] \in {"retract", "dead"}
    /\ sock = p => \/ pc[p] \in {"publish", "serving"} /\ listening[p]
                   \/ pc[p] \in {"retract", "retractsock", "dead"}

\* A process that arrives comes to serve the session or to join who does,
\* whoever was killed where ("never wedge a session", module docstring).
NeverOccupied ==
  \A p \in Proc :
    pc[p] \in {"look", "lock"} ~> pc[p] \in {"serving", "peer"} \cup Ended

=============================================================================
