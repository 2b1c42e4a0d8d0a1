--------------------------- MODULE SessionControl ---------------------------
(***************************************************************************)
(* The control plane of one session (kernel/session_control.py): the       *)
(* single-writer lease, takeover, pause and handoff, and the gate every    *)
(* write goes through.  Each public method is one transaction on           *)
(* control.json, under a lock; module FileLock says when it excludes.      *)
(*                                                                         *)
(* A transaction appends to control-audit.jsonl and then replaces          *)
(* control.json.  An append may fail, which nobody is told of, and the     *)
(* process may be killed, or the disk be full, between the two: what the   *)
(* trail is worth to somebody who reads it is the state `reader'.          *)
(*                                                                         *)
(* A lease id is a fresh uuid, so the epoch its grant bumps stands for it, *)
(* and 0 for the empty id.  The expiry is kept as the time left: the code  *)
(* never compares it with anything but the present.                        *)
(***************************************************************************)
EXTENDS Integers, SequencesExt

CONSTANTS Actors,        \* who may send an operation: records [id, kind]
          DefaultActor,  \* whom an operation that names nobody is put down to
          Nobody,        \* an operation that names no actor
          NoLease,       \* no lease in the file
          RawTtls,       \* values a client may send as ttl
          NoTtl,         \* no ttl, or one that is not a number
          DefaultTtl, MinTtl, MaxTtl,
          Unsure,        \* a reader who misses a piece of the trail
          MaxEpoch,      \* bound: grants
          MaxHandoffs,   \* bound: handoffs minted
          MaxFaults      \* bound: mishaps while somebody follows the trail

Kinds == {"unknown", "automation", "human"}

LeaseIds == 0 .. MaxEpoch

\* Who holds the lease, and whether the session is paused.
Views == [lease : LeaseIds, actor : Actors \cup {Nobody}, paused : BOOLEAN]

ASSUME ControlAssumption ==
  /\ \A a \in Actors : a.kind \in Kinds
  /\ DefaultActor \in Actors /\ Nobody \notin Actors
  /\ NoLease \notin [actor : Actors, epoch : Nat, left : Nat]
  /\ NoTtl \notin Int /\ RawTtls \subseteq Int \cup {NoTtl}
  /\ MinTtl \in Nat \ {0} /\ MaxTtl \in Nat /\ MinTtl <= MaxTtl
  /\ DefaultTtl \in MinTtl .. MaxTtl
  /\ MaxEpoch \in Nat /\ MaxHandoffs \in Nat /\ MaxFaults \in Nat
  /\ Unsure \notin [view : Views, at : Int, lost : Nat, torn : Nat]

VARIABLES epoch,     \* grants so far
          lease,     \* the lease in the file, perhaps past its expiry
          paused,    \* the write lane is parked
          handoffs,  \* per handoff minted: who claimed it, or Nobody
          served,    \* the lease id of the last write let through
          reader     \* somebody who read control.json and follows the trail since

vars == <<epoch, lease, paused, handoffs, served, reader>>

Leases == [actor : Actors, epoch : 1 .. MaxEpoch, left : 0 .. MaxTtl]
Actions ==
  {"lease.granted", "lease.renewed", "lease.takeover", "lease.released",
   "lease.revoked", "lease.expired", "lease.denied", "session.paused",
   "session.resumed", "handoff.created", "handoff.claimed",
   "write.accepted", "write.rejected", "auth.denied", "ambient"}
Entries == [action : Actions, actor : Actors, lease : LeaseIds]

TypeOK ==
  /\ epoch \in LeaseIds
  /\ lease \in Leases \cup {NoLease}
  /\ paused \in BOOLEAN
  /\ handoffs \in Seq(Actors \cup {Nobody}) /\ Len(handoffs) <= MaxHandoffs
  /\ served \in LeaseIds
  /\ reader \in {Unsure} \cup
                  [view : Views, at : Int, lost : 0 .. MaxFaults, torn : 0 .. MaxFaults]

\* Who has just read control.json.
Fresh(view) == [view |-> view, at |-> 0, lost |-> 0, torn |-> 0]

Init ==
  /\ epoch = 0 /\ lease = NoLease
  /\ paused = FALSE /\ handoffs = << >>
  /\ served = 0
  /\ reader = Fresh([lease |-> 0, actor |-> Nobody, paused |-> FALSE])

-----------------------------------------------------------------------------
(* Helpers *)

Precedence == [unknown |-> 0, automation |-> 1, human |-> 2]
Rank(a) == Precedence[a.kind]

\* Mutant: a person's lease never expires.
ExpiredUnlessHuman(l) == l.left = 0 /\ l.actor.kind # "human"

Expired(l) == l.left = 0
Live == lease # NoLease /\ ~Expired(lease)
LiveId == IF Live THEN lease.epoch ELSE 0

Or(a, fallback) == IF a = Nobody THEN fallback ELSE a

Ttl(raw) ==
  IF raw = NoTtl THEN DefaultTtl
  ELSE IF raw < MinTtl THEN MinTtl
  ELSE IF raw > MaxTtl THEN MaxTtl ELSE raw

\* An audit entry names the lease in force when it is written.
Entry(action, a, l) ==
  [action |-> action, actor |-> a, lease |-> IF l = NoLease THEN 0 ELSE l.epoch]

\* _expire_if_due: the first thing most operations do.
Held == IF Live THEN lease ELSE NoLease
Reaped ==
  IF lease # NoLease /\ Expired(lease)
  THEN <<Entry("lease.expired", lease.actor, NoLease)>> ELSE << >>

-----------------------------------------------------------------------------
(* Transactions, and what a reader of the trail makes of them *)

\* What an entry of control-audit.jsonl says of the lease and of the pause.
Recount(view, e) ==
  CASE e.action \in {"lease.released", "lease.revoked", "lease.expired"} ->
         [view EXCEPT !.lease = 0, !.actor = Nobody]
    [] e.action \in {"lease.granted", "lease.renewed", "lease.takeover"} ->
         [view EXCEPT !.lease = e.lease, !.actor = e.actor]
    [] e.action = "handoff.claimed" ->
         [lease |-> e.lease, actor |-> e.actor, paused |-> FALSE]
    [] e.action = "session.paused" -> [view EXCEPT !.paused = TRUE]
    [] e.action = "session.resumed" -> [view EXCEPT !.paused = FALSE]
    [] OTHER -> view

\* What somebody who took the session for `view' makes of a piece of the trail.
Retold(view, entries) == FoldLeft(Recount, view, entries)

\* A transaction numbers its entries from audit_seq on, and `kept' of them are in
\* the trail. The reader has read up to `at' beyond audit_seq, and goes on as
\* long as the numbers do, neither missing nor twice. The transaction counts
\* audit_seq up by `counted'; `lost' and `torn' count what went wrong with it.
Followed(entries, kept, counted, lost, torn) ==
  LET last == IF kept = {} THEN reader.at ELSE Max(kept)
  IN IF reader = Unsure \/ (kept # {} /\ kept # reader.at + 1 .. last) THEN Unsure
     ELSE [view |-> Retold(reader.view, SubSeq(entries, reader.at + 1, last)),
           at   |-> last - counted,
           lost |-> reader.lost + lost, torn |-> reader.torn + torn]

MoreMishaps == reader # Unsure => reader.lost + reader.torn < MaxFaults

\* Mutant: an entry is only counted once it is in the trail.
AppendedUncounted(entries, kept) ==
  IF kept = DOMAIN entries
  THEN reader' = Followed(entries, kept, Len(entries), 0, 0)
  ELSE /\ MoreMishaps
       /\ reader' = Followed(entries, 1 .. Cardinality(kept), Cardinality(kept), 1, 0)

\* _audit: an append that fails, or that goes on after half a line, is counted
\* in audit_seq like any other.
Appended(entries, kept) ==
  IF kept = DOMAIN entries
  THEN reader' = Followed(entries, kept, Len(entries), 0, 0)
  ELSE MoreMishaps /\ reader' = Followed(entries, kept, Len(entries), 1, 0)

\* Killed, or refused by the disk, before control.json is replaced: its entries
\* stay in the trail, and their numbers are used again.
Torn(entries, kept) ==
  kept # {} /\ MoreMishaps /\ reader' = Followed(entries, kept, 0, 0, 1)

Control == [epoch |-> epoch, lease |-> lease, paused |-> paused, handoffs |-> handoffs, served |-> served]

Replaced(c) ==
  /\ epoch' = c.epoch /\ lease' = c.lease /\ paused' = c.paused
  /\ handoffs' = c.handoffs /\ served' = c.served

\* _transaction
Transact(c, entries) ==
  \E kept \in SUBSET DOMAIN entries :
    \/ Replaced(c) /\ Appended(entries, kept)
    \/ Replaced(Control) /\ Torn(entries, kept)

\* _grant: a new epoch, a new lease id, whoever held the lease before.
Grant(c, a, raw, before, action) ==
  LET new == [actor |-> a, epoch |-> epoch + 1, left |-> Ttl(raw)]
  IN /\ epoch < MaxEpoch
     /\ Transact([c EXCEPT !.epoch = epoch + 1, !.lease = new], before \o <<Entry(action, a, new)>>)

\* A refusal: the expired lease, if any, has been dropped all the same.
Refuse(entries) == Transact([Control EXCEPT !.lease = Held], Reaped \o entries)

-----------------------------------------------------------------------------
(* The lease *)

AcquireNoActor(a) ==
  a = Nobody /\ Transact(Control, <<Entry("lease.denied", DefaultActor, lease)>>)

HeldByAnother(a) == Held # NoLease /\ Held.actor.id # a.id

AcquireHeld(a) ==
  /\ a # Nobody /\ HeldByAnother(a)
  /\ Refuse(<<Entry("lease.denied", a, Held)>>)

\* Free, expired or ours: ours is renewed under a NEW lease id.  Whether the
\* session is paused is not looked at.
AcquireGrant(a, raw) ==
  /\ a # Nobody /\ ~HeldByAnother(a)
  /\ Grant(Control, a, raw, Reaped,
           IF Held # NoLease THEN "lease.renewed" ELSE "lease.granted")

Acquire(a, raw) == AcquireNoActor(a) \/ AcquireHeld(a) \/ AcquireGrant(a, raw)

\* Mutant: a heartbeat that does not look at expiry revives a lease.
HeartbeatRevives(id, raw) ==
  IF lease = NoLease \/ lease.epoch # id
  THEN Refuse(<< >>)
  ELSE Transact([Control EXCEPT !.lease.left = Ttl(raw)], << >>)

Heartbeat(id, raw) ==
  IF Held = NoLease \/ Held.epoch # id
  THEN Refuse(<< >>)
  ELSE Transact([Control EXCEPT !.lease = [lease EXCEPT !.left = Ttl(raw)]], << >>)

\* Expiry is not looked at, and the empty id releases whatever is held.
Released(id) == lease # NoLease /\ id \in {0, lease.epoch}

Release(id, a) ==
  /\ Released(id)
  /\ Transact([Control EXCEPT !.lease = NoLease],
              <<Entry("lease.released", Or(a, lease.actor), lease)>>)

ReleaseAbsent(id) == ~Released(id) /\ UNCHANGED vars

\* Mutant: force is enough.
MaySeizeByForce(a, force, from) == Rank(a) > Rank(from) \/ force

MaySeize(a, force, from) ==
  \/ Rank(a) > Rank(from)
  \/ force /\ a.kind = "human" /\ Rank(a) = Rank(from)

TakeoverNoActor(a) == a = Nobody /\ UNCHANGED vars

TakeoverDenied(a, force) ==
  /\ a # Nobody /\ Held # NoLease /\ ~MaySeize(a, force, Held.actor)
  /\ Refuse(<<Entry("lease.denied", a, Held)>>)

TakeoverGrant(a, force, raw) ==
  /\ a # Nobody /\ (Held # NoLease => MaySeize(a, force, Held.actor))
  /\ Grant(Control, a, raw,
           IF Held # NoLease THEN <<Entry("lease.revoked", a, lease)>> ELSE Reaped,
           "lease.takeover")

Takeover(a, force, raw) ==
  TakeoverNoActor(a) \/ TakeoverDenied(a, force) \/ TakeoverGrant(a, force, raw)

-----------------------------------------------------------------------------
(* Pause and handoff *)

PauseByStranger(id) == Held # NoLease /\ id # 0 /\ Held.epoch # id

PauseConflict(id) == PauseByStranger(id) /\ Refuse(<< >>)

\* Mints a handoff, parks the lane and drops the lease.
PauseParks(a, id) ==
  LET who == Or(a, DefaultActor)
  IN /\ ~PauseByStranger(id)
     /\ Len(handoffs) < MaxHandoffs
     /\ Transact([Control EXCEPT !.handoffs = Append(handoffs, Nobody), !.paused = TRUE, !.lease = NoLease],
                 Reaped
                 \o (IF Held # NoLease THEN <<Entry("lease.released", who, lease)>> ELSE << >>)
                 \o <<Entry("session.paused", who, NoLease), Entry("handoff.created", who, NoLease)>>)

Pause(a, id) == PauseConflict(id) \/ PauseParks(a, id)

\* Mutant: a handoff may be claimed again.
OpenAgain(h) == h \in DOMAIN handoffs

Open(h) == h \in DOMAIN handoffs /\ handoffs[h] = Nobody

\* Unknown or claimed already: nothing is reaped and nothing is audited.
ClaimGone(h) == ~Open(h) /\ UNCHANGED vars

Outranked(a) == Held # NoLease /\ Rank(a) < Rank(Held.actor)

ClaimDenied(h, who) == Open(h) /\ Outranked(who) /\ Refuse(<< >>)

ClaimGrant(h, who, raw) ==
  /\ Open(h) /\ ~Outranked(who)
  /\ Grant([Control EXCEPT !.handoffs = [handoffs EXCEPT ![h] = who], !.paused = FALSE],
           who, raw, Reaped, "handoff.claimed")

ClaimHandoff(h, a, raw) ==
  LET who == Or(a, DefaultActor)
  IN ClaimGone(h) \/ ClaimDenied(h, who) \/ ClaimGrant(h, who, raw)

Resume(a) ==
  Transact([Control EXCEPT !.paused = FALSE],
           IF paused THEN <<Entry("session.resumed", Or(a, DefaultActor), lease)>> ELSE << >>)

-----------------------------------------------------------------------------
(* The gate *)

\* The one rule: not paused, and the lease presented IS the lease held.
MayWrite(id) == ~paused /\ id = IF Held = NoLease THEN 0 ELSE Held.epoch

\* A write that names nobody is the holder's when it presents its lease.
Author(id, a) ==
  Or(a, IF Held # NoLease /\ Held.epoch = id THEN Held.actor ELSE DefaultActor)

AuthorizeDenied(id, a) ==
  ~MayWrite(id) /\ Refuse(<<Entry("write.rejected", Author(id, a), Held)>>)

AuthorizeAllowed(id, a) ==
  /\ MayWrite(id)
  /\ Transact([Control EXCEPT !.served = id, !.lease = Held],
              Reaped \o <<Entry("write.accepted", Author(id, a), Held)>>)

Authorize(id, a) == AuthorizeDenied(id, a) \/ AuthorizeAllowed(id, a)

-----------------------------------------------------------------------------
(* Operations that only add to the trail, and time *)

Note(action, a) == Transact(Control, <<Entry(action, Or(a, DefaultActor), lease)>>)

NoteAmbient(a) == Note("ambient", a)
AuthRefusal(a) == Note("auth.denied", a)

Tick ==
  /\ lease # NoLease /\ lease.left > 0
  /\ lease' = [lease EXCEPT !.left = @ - 1]
  /\ UNCHANGED <<epoch, paused, handoffs, served, reader>>

View ==
  [lease |-> IF lease = NoLease THEN 0 ELSE lease.epoch,
   actor |-> IF lease = NoLease THEN Nobody ELSE lease.actor,
   paused |-> paused]

\* Somebody reads control.json: the lease, the pause and audit_seq.
Reread ==
  /\ reader' = Fresh(View)
  /\ UNCHANGED <<epoch, lease, paused, handoffs, served>>

\* Any client may send anything: ids of dead leases arrive late, ids of live
\* ones are in every reply, and handoff references travel by mail.
LeaseOperation(a, raw) ==
  \/ Acquire(a, raw)
  \/ \E force \in BOOLEAN : Takeover(a, force, raw)
  \/ \E h \in 1 .. MaxHandoffs : ClaimHandoff(h, a, raw)

Presenting(a, id) ==
  \/ Release(id, a) \/ ReleaseAbsent(id)
  \/ Pause(a, id)
  \/ Authorize(id, a)

Next ==
  \/ Tick \/ Reread
  \/ \E a \in Actors \cup {Nobody} :
       \/ \E raw \in RawTtls : LeaseOperation(a, raw)
       \/ \E id \in 0 .. epoch : Presenting(a, id)
       \/ Resume(a) \/ NoteAmbient(a) \/ AuthRefusal(a)
  \/ \E id \in 0 .. epoch, raw \in RawTtls : Heartbeat(id, raw)

Spec == Init /\ [][Next]_vars

\* Time passes.  No client owes an operation: a holder may simply vanish.
FairSpec == Spec /\ WF_vars(Tick)

-----------------------------------------------------------------------------
(* Properties *)

\* The lease in the file is always the newest grant, and no write ran ahead of
\* the grants: no path restores an older lease or mints one without an epoch.
NewestGrant == (lease # NoLease => lease.epoch = epoch) /\ served <= epoch

\* The control plane implements the single pen of WritePen: an expired lease
\* holds no pen although it is still in the file, and reaping it changes nothing.
Pen == INSTANCE WritePen
         WITH pen <- LiveId, minted <- epoch, parked <- paused, served <- served
ImplementsPen == Pen!Spec

\* A grant over somebody's live lease never goes to an actor of lower
\* precedence (acquire, takeover and claim_handoff together): "a bot can never
\* break in on a person".  A person may renew as their own automation.
Regrant == Live /\ lease' # NoLease /\ lease'.epoch # lease.epoch
Seizure == Regrant /\ lease'.actor.id # lease.actor.id
SeizureRespectsRank == [][Seizure => Rank(lease'.actor) >= Rank(lease.actor)]_vars

\* "Two bots never fight": no automation's live lease passes to another
\* automation (SESSION-CONTROL.md section 6).
BotsNeverFight ==
  [][Seizure => ~(lease.actor.kind = "automation" /\ lease'.actor.kind = "automation")]_vars

\* A handoff is one-shot: a claim is never taken over or undone, and each new
\* claim comes with a grant of its own to the claimer (claim_handoff).
HandoffOneShot ==
  [][\A h \in DOMAIN handoffs :
       /\ h \in DOMAIN handoffs'
       /\ handoffs[h] # Nobody => handoffs'[h] = handoffs[h]
       /\ handoffs'[h] # handoffs[h] =>
            epoch' = epoch + 1 /\ ~paused' /\ lease'.actor = handoffs'[h]]_vars

\* Whoever follows the audit trail, and finds its numbers without a gap or a
\* repetition up to audit_seq, knows who holds the lease and whether the session
\* is paused: also after an append that failed or a transaction that was torn,
\* though not after one of each, which may fill up one another's numbers.
TrailAccounts ==
  reader # Unsure /\ reader.at = 0 /\ 0 \in {reader.lost, reader.torn} => reader.view = View

\* The same after any mishaps.
TrailNumbers == reader # Unsure /\ reader.at = 0 => reader.view = View

\* docs/SESSION-CONTROL.md section 9: "Every decision appends to
\* control-audit.jsonl".
TrailComplete == reader # Unsure => reader.view = View

\* "Nobody holds the pen while the session waits for a human" (pause).
NobodyHoldsWhilePaused == paused => ~Live

\* The anti-lock guarantee: unless grants and heartbeats go on for ever, the
\* session ends up with no live lease, whatever happened to the holder.
Renewal ==
  /\ lease' # NoLease
  /\ lease # NoLease => lease'.epoch # lease.epoch \/ lease'.left > lease.left
VanishedHolderFrees == []<><<Renewal>>_vars \/ <>[](~Live)

=============================================================================
