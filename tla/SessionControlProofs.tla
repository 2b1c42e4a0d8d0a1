------------------------ MODULE SessionControlProofs ------------------------
(***************************************************************************)
(* Theorems about who may write: about SessionControl, for any actors, any *)
(* ttls and any bounds, and about FileLock, the lock its transactions take.*)
(***************************************************************************)
EXTENDS SessionControl, FileLock, TLAPS

-----------------------------------------------------------------------------
(* Lemmas about the helpers *)

\* _ttl clamps: whatever the client sent, the lease lasts MinTtl to MaxTtl.
LEMMA TtlClamped ==
  ASSUME NEW raw \in RawTtls \cup {NoTtl}
  PROVE  Ttl(raw) \in MinTtl .. MaxTtl
<1>1. CASE raw = NoTtl
  BY <1>1, ControlAssumption DEF Ttl
<1>2. CASE raw # NoTtl
  <2>1. raw \in Int
    BY <1>2, ControlAssumption
  <2>. QED
    BY <2>1, <1>2, ControlAssumption DEF Ttl
<1>. QED
  BY <1>1, <1>2

LEMMA NoLeaseIsNoLease == NoLease \notin Leases
<1>1. Leases \subseteq [actor : Actors, epoch : Nat, left : Nat]
  BY ControlAssumption DEF Leases
<1>. QED
  BY <1>1, ControlAssumption

\* An audit entry has its type whichever lease, or none, it is about.
LEMMA EntryType ==
  ASSUME NEW action \in Actions, NEW a \in Actors, NEW l \in Leases \cup {NoLease}
  PROVE  Entry(action, a, l) \in Entries
<1>1. CASE l = NoLease
  BY <1>1, ControlAssumption DEF Entry, Entries, LeaseIds
<1>2. CASE l # NoLease
  <2>1. l.epoch \in LeaseIds
    BY <1>2, ControlAssumption DEF Leases, LeaseIds
  <2>. QED
    BY <1>2, <2>1 DEF Entry, Entries
<1>. QED
  BY <1>1, <1>2

LEMMA ShortTrails ==
  << >> \in Seq(Entries) /\ \A e \in Entries : <<e>> \in Seq(Entries)
OBVIOUS

\* Reaping leaves a lease that has not expired, or none, and one entry at most.
LEMMA ReapType ==
  ASSUME TypeOK
  PROVE  /\ Held \in Leases \cup {NoLease}
         /\ Held # NoLease => Held = lease /\ lease.left > 0
         /\ Reaped \in Seq(Entries) /\ Len(Reaped) <= 1
<1>1. Held \in Leases \cup {NoLease} /\ (Held # NoLease => Held = lease /\ lease.left > 0)
  BY ControlAssumption DEF TypeOK, Held, Live, Expired, Leases
<1>2. Reaped \in Seq(Entries) /\ Len(Reaped) <= 1
  <2>1. CASE lease # NoLease /\ Expired(lease)
    <3>1. lease.actor \in Actors
      BY <2>1 DEF TypeOK, Leases
    <3>2. Entry("lease.expired", lease.actor, NoLease) \in Entries
      BY <3>1, EntryType DEF Actions
    <3>. QED
      BY <2>1, <3>2 DEF Reaped
  <2>2. CASE ~(lease # NoLease /\ Expired(lease))
    BY <2>2 DEF Reaped
  <2>. QED
    BY <2>1, <2>2
<1>. QED
  BY <1>1, <1>2

LEMMA OrType ==
  ASSUME NEW a \in Actors \cup {Nobody}, NEW fallback \in Actors
  PROVE  Or(a, fallback) \in Actors
BY DEF Or

\* Reading a piece of the trail is reading its entries one after the other; no
\* operation writes more than three.
LEMMA RetoldIs ==
  ASSUME NEW v, NEW s \in Seq(Entries), Len(s) \in 0 .. 3
  PROVE  /\ Len(s) = 0 => Retold(v, s) = v
         /\ Len(s) = 1 => Retold(v, s) = Recount(v, s[1])
         /\ Len(s) = 2 => Retold(v, s) = Recount(Recount(v, s[1]), s[2])
         /\ Len(s) = 3 => Retold(v, s) = Recount(Recount(Recount(v, s[1]), s[2]), s[3])
<1> DEFINE D == DOMAIN s
           G(g) == [t \in SUBSET D |->
                      IF t = {} THEN v ELSE Recount(g[t \ {Max(t)}], s[Max(t)])]
           A1(t) == IF 1 \in t THEN Recount(v, s[1]) ELSE v
           A2(t) == IF 2 \in t THEN Recount(A1(t), s[2]) ELSE A1(t)
           A3(t) == IF 3 \in t THEN Recount(A2(t), s[3]) ELSE A2(t)
           a == [t \in SUBSET D |-> A3(t)]
<1>1. D = 1 .. Len(s) /\ D \subseteq 1 .. 3
  OBVIOUS
<1>2. ASSUME NEW t \in SUBSET D, t # {}
      PROVE  /\ 3 \in t => Max(t) = 3
             /\ 3 \notin t /\ 2 \in t => Max(t) = 2
             /\ 3 \notin t /\ 2 \notin t => t = {1} /\ Max(t) = 1
  <2>1. \E x \in t : \A y \in t : x >= y
    BY <1>1, <1>2
  <2>2. Max(t) \in t /\ \A y \in t : Max(t) >= y
    BY <2>1 DEF Max
  <2>. QED
    BY <2>2, <1>1, <1>2
<1>3. A3({}) = v /\ \A t \in SUBSET D : t # {} => A3(t) = Recount(A3(t \ {Max(t)}), s[Max(t)])
  BY <1>1, <1>2
<1> HIDE DEF A3
<1>4. a = G(a)
  <2>1. \A t \in SUBSET D : t \ {Max(t)} \in SUBSET D
    OBVIOUS
  <2>2. \A t \in SUBSET D : t # {} => A3(t) = Recount(a[t \ {Max(t)}], s[Max(t)])
    BY <1>3, <2>1
  <2>. QED
    BY <1>3, <2>2, Zenon
<1> DEFINE f == CHOOSE g : g = G(g)
<1>5. f = G(f)
  BY <1>4
<1>6. Retold(v, s) = f[D]
  BY DEF Retold, FoldLeft, MapThenFoldSet
<1> HIDE DEF f
<1>7. /\ f[{}] = v
      /\ \A t \in SUBSET D : t # {} => f[t] = Recount(f[t \ {Max(t)}], s[Max(t)])
  BY <1>5
<1>8. Max({1}) = 1 /\ Max({1, 2}) = 2 /\ Max(1 .. 3) = 3
  <2>1. \A x \in {1} : x = 1 <=> \A y \in {1} : x >= y
    OBVIOUS
  <2>2. \A x \in {1, 2} : x = 2 <=> \A y \in {1, 2} : x >= y
    OBVIOUS
  <2>3. \A x \in 1 .. 3 : x = 3 <=> \A y \in 1 .. 3 : x >= y
    OBVIOUS
  <2>. QED
    BY <2>1, <2>2, <2>3 DEF Max
<1>9. {1} \ {1} = {} /\ {1, 2} \ {2} = {1} /\ (1 .. 3) \ {3} = {1, 2}
  OBVIOUS
<1>10. 1 \in D => f[{1}] = Recount(v, s[1])
  <2>1. 1 \in D => f[{1}] = Recount(f[{1} \ {Max({1})}], s[Max({1})])
    BY <1>7
  <2>. QED
    BY <2>1, <1>7, <1>8, <1>9
<1>11. 1 \in D /\ 2 \in D => f[{1, 2}] = Recount(Recount(v, s[1]), s[2])
  <2>1. 1 \in D /\ 2 \in D
          => f[{1, 2}] = Recount(f[{1, 2} \ {Max({1, 2})}], s[Max({1, 2})])
    BY <1>7
  <2>. QED
    BY <2>1, <1>8, <1>9, <1>10
<1>12. D = 1 .. 3 => f[1 .. 3] = Recount(Recount(Recount(v, s[1]), s[2]), s[3])
  <2>1. D = 1 .. 3 => f[1 .. 3] = Recount(f[(1 .. 3) \ {Max(1 .. 3)}], s[Max(1 .. 3)])
    <3>1. D = 1 .. 3 => 1 .. 3 \in SUBSET D /\ 1 .. 3 # {}
      OBVIOUS
    <3>. QED
      BY <3>1, <1>7
  <2>. QED
    BY <2>1, <1>8, <1>9, <1>11
<1>13. 1 .. 0 = {} /\ 1 .. 1 = {1} /\ 1 .. 2 = {1, 2}
  OBVIOUS
<1>. QED
  BY <1>1, <1>6, <1>7, <1>10, <1>11, <1>12, <1>13

LEMMA Joined ==
  ASSUME NEW a \in Entries, NEW b \in Entries
  PROVE  <<a>> \o <<b>> = <<a, b>>
<1> DEFINE s == <<a>> \o <<b>>
           t == <<a, b>>
<1>1. <<a>> \in Seq(Entries) /\ <<b>> \in Seq(Entries)
  OBVIOUS
<1>2. s \in Seq(Entries) /\ Len(s) = 2 /\ s[1] = a /\ s[2] = b
  BY <1>1
<1>3. t \in Seq(Entries) /\ Len(t) = 2 /\ t[1] = a /\ t[2] = b
  OBVIOUS
<1>. HIDE DEF s, t
<1>4. DOMAIN s = 1 .. 2 /\ DOMAIN t = 1 .. 2
  BY <1>2, <1>3
<1>5. s = [i \in 1 .. 2 |-> s[i]] /\ t = [i \in 1 .. 2 |-> t[i]]
  BY <1>2, <1>3, <1>4
<1>6. \A i \in 1 .. 2 : s[i] = t[i]
  BY <1>2, <1>3
<1>. QED
  BY <1>5, <1>6 DEF s, t

LEMMA JoinedTwo ==
  ASSUME NEW a \in Entries, NEW b \in Entries, NEW c \in Entries
  PROVE  <<a>> \o <<b, c>> = <<a, b, c>>
<1> DEFINE s == <<a>> \o <<b, c>>
           t == <<a, b, c>>
<1>1. <<a>> \in Seq(Entries) /\ <<b, c>> \in Seq(Entries)
  OBVIOUS
<1>2. s \in Seq(Entries) /\ Len(s) = 3 /\ s[1] = a /\ s[2] = b /\ s[3] = c
  BY <1>1
<1>3. t \in Seq(Entries) /\ Len(t) = 3 /\ t[1] = a /\ t[2] = b /\ t[3] = c
  OBVIOUS
<1>. HIDE DEF s, t
<1>4. DOMAIN s = 1 .. 3 /\ DOMAIN t = 1 .. 3
  BY <1>2, <1>3
<1>5. s = [i \in 1 .. 3 |-> s[i]] /\ t = [i \in 1 .. 3 |-> t[i]]
  BY <1>2, <1>3, <1>4
<1>6. \A i \in 1 .. 3 : s[i] = t[i]
  BY <1>2, <1>3
<1>. QED
  BY <1>5, <1>6 DEF s, t

LEMMA RetoldNone ==
  ASSUME NEW v
  PROVE  Retold(v, << >>) = v
<1>1. << >> \in Seq(Entries) /\ Len(<< >>) = 0 /\ Len(<< >>) \in 0 .. 3
  OBVIOUS
<1>. QED
  BY <1>1, RetoldIs, Zenon

LEMMA RetoldOne ==
  ASSUME NEW v, NEW a \in Entries
  PROVE  Retold(v, <<a>>) = Recount(v, a)
<1>1. <<a>> \in Seq(Entries) /\ Len(<<a>>) = 1 /\ Len(<<a>>) \in 0 .. 3 /\ <<a>>[1] = a
  OBVIOUS
<1>. QED
  BY <1>1, RetoldIs, Zenon

LEMMA RetoldTwo ==
  ASSUME NEW v, NEW a \in Entries, NEW b \in Entries
  PROVE  Retold(v, <<a, b>>) = Recount(Recount(v, a), b)
<1>1. /\ <<a, b>> \in Seq(Entries) /\ Len(<<a, b>>) = 2 /\ Len(<<a, b>>) \in 0 .. 3
      /\ <<a, b>>[1] = a /\ <<a, b>>[2] = b
  OBVIOUS
<1>. QED
  BY <1>1, RetoldIs, Zenon

-----------------------------------------------------------------------------
(* What an operation does: one transaction, whose entries tell of it *)

Controls ==
  [epoch : LeaseIds, lease : Leases \cup {NoLease}, paused : BOOLEAN,
   handoffs : Seq(Actors \cup {Nobody}), served : LeaseIds]

\* What a file says, read as View reads the one on disk.
ViewOf(c) ==
  [lease |-> IF c.lease = NoLease THEN 0 ELSE c.lease.epoch,
   actor |-> IF c.lease = NoLease THEN Nobody ELSE c.lease.actor,
   paused |-> c.paused]

\* No operation writes more than three entries.
Piece(entries) == entries \in Seq(Entries) /\ Len(entries) \in 0 .. 3

Tells(c, entries) == Piece(entries) /\ Retold(View, entries) = ViewOf(c)

Does(c, entries) ==
  /\ Transact(c, entries) /\ Tells(c, entries)
  /\ c \in Controls /\ Len(c.handoffs) <= MaxHandoffs

Done == UNCHANGED vars \/ \E c, entries : Does(c, entries)

\* Entries about neither lease nor pause.
Silent == {"lease.denied", "handoff.created", "write.accepted", "write.rejected",
           "auth.denied", "ambient"}

LEMMA ControlType == TypeOK => Control \in Controls /\ Len(Control.handoffs) <= MaxHandoffs
BY DEF TypeOK, Control, Controls

LEMMA ViewType ==
  ASSUME TypeOK
  PROVE  /\ View \in Views /\ View.paused = paused
         /\ lease # NoLease => View.lease = lease.epoch /\ View.actor = lease.actor
         /\ lease = NoLease => View.lease = 0 /\ View.actor = Nobody
<1>1. lease # NoLease => lease.epoch \in LeaseIds /\ lease.actor \in Actors
  BY ControlAssumption DEF TypeOK, Leases, LeaseIds
<1>2. 0 \in LeaseIds
  BY ControlAssumption DEF LeaseIds
<1>. QED
  BY <1>1, <1>2 DEF View, Views, TypeOK

\* What each entry makes of a view.
LEMMA RecountSays ==
  ASSUME NEW v \in Views, NEW e
  PROVE  /\ e.action \in Silent => Recount(v, e) = v
         /\ e.action \in {"lease.released", "lease.revoked", "lease.expired"}
              => Recount(v, e) = [lease |-> 0, actor |-> Nobody, paused |-> v.paused]
         /\ e.action \in {"lease.granted", "lease.renewed", "lease.takeover"}
              => Recount(v, e) = [lease |-> e.lease, actor |-> e.actor, paused |-> v.paused]
         /\ e.action = "handoff.claimed"
              => Recount(v, e) = [lease |-> e.lease, actor |-> e.actor, paused |-> FALSE]
         /\ e.action = "session.paused"
              => Recount(v, e) = [lease |-> v.lease, actor |-> v.actor, paused |-> TRUE]
         /\ e.action = "session.resumed"
              => Recount(v, e) = [lease |-> v.lease, actor |-> v.actor, paused |-> FALSE]
BY DEF Recount, Silent, Views

LEMMA RecountType ==
  ASSUME NEW v \in Views, NEW e \in Entries
  PROVE  Recount(v, e) \in Views
<1>1. 0 \in LeaseIds /\ e.lease \in LeaseIds /\ e.actor \in Actors
  BY ControlAssumption DEF LeaseIds, Entries
<1>. QED
  BY <1>1 DEF Recount, Views

LEMMA EntrySays ==
  ASSUME NEW action \in Actions, NEW a \in Actors, NEW l \in Leases \cup {NoLease}
  PROVE  /\ Entry(action, a, l) \in Entries /\ Entry(action, a, l).action = action
         /\ Entry(action, a, l).actor = a
         /\ l # NoLease => Entry(action, a, l).lease = l.epoch
<1>1. /\ Entry(action, a, l).action = action /\ Entry(action, a, l).actor = a
      /\ l # NoLease => Entry(action, a, l).lease = l.epoch
  BY DEF Entry
<1>. QED
  BY <1>1, EntryType

LEMMA SilentEntry ==
  ASSUME TypeOK, NEW action \in Silent, NEW a \in Actors
  PROVE  /\ Entry(action, a, lease) \in Entries /\ Entry(action, a, lease).action \in Silent
         /\ Entry(action, a, Held) \in Entries /\ Entry(action, a, Held).action \in Silent
<1>1. action \in Actions
  BY DEF Silent, Actions
<1>2. lease \in Leases \cup {NoLease} /\ Held \in Leases \cup {NoLease}
  BY ReapType DEF TypeOK
<1>. QED
  BY <1>1, <1>2, EntrySays

LEMMA SomeSilent ==
  ASSUME TypeOK
  PROVE  \E e \in Entries : e.action \in Silent
BY SilentEntry, ControlAssumption DEF Silent

\* A transaction that writes nothing, or nothing that tells, and leaves lease
\* and pause.
LEMMA TellsSilent ==
  ASSUME TypeOK, NEW e \in Entries, e.action \in Silent, NEW entries \in {<< >>, <<e>>},
         NEW c, c.lease = lease, c.paused = paused
  PROVE  Tells(c, entries)
<1>1. Retold(View, entries) = View
  <2>1. Recount(View, e) = View
    BY RecountSays, ViewType
  <2>. QED
    BY <2>1, RetoldNone, RetoldOne, Zenon
<1>2. ViewOf(c) = View
  BY DEF ViewOf, View
<1>3. Piece(<< >>) /\ Piece(<<e>>)
  BY DEF Piece
<1>. QED
  BY <1>1, <1>2, <1>3 DEF Tells

\* Reaping writes that the lease is gone just where it drops one.
LEMMA ReapedSays ==
  ASSUME TypeOK
  PROVE  \/ Reaped = << >> /\ Held = lease
         \/ /\ Held = NoLease
            /\ \E x \in Entries : x.action = "lease.expired" /\ Reaped = <<x>>
<1>1. CASE lease # NoLease /\ Expired(lease)
  <2>1. Held = NoLease /\ lease.actor \in Actors
    BY <1>1 DEF Held, Live, TypeOK, Leases
  <2>2. Entry("lease.expired", lease.actor, NoLease) \in Entries
    BY <2>1, EntryType DEF Actions
  <2>. QED
    BY <1>1, <2>1, <2>2 DEF Reaped, Entry
<1>2. CASE ~(lease # NoLease /\ Expired(lease))
  BY <1>2 DEF Reaped, Held, Live
<1>. QED
  BY <1>1, <1>2

LEMMA TellsRefusal ==
  ASSUME TypeOK, NEW e \in Entries, e.action \in Silent,
         NEW entries \in {Reaped \o << >>, Reaped \o <<e>>},
         NEW c, c.lease = Held, c.paused = paused
  PROVE  Tells(c, entries)
<1>1. CASE Reaped = << >> /\ Held = lease
  <2>1. entries \in {<< >>, <<e>>}
    BY <1>1
  <2>. QED
    BY <1>1, <2>1, TellsSilent
<1>2. ASSUME NEW x \in Entries, x.action = "lease.expired", Reaped = <<x>>, Held = NoLease
      PROVE  Tells(c, entries)
  <2> DEFINE gone == [lease |-> 0, actor |-> Nobody, paused |-> paused]
  <2>1. entries = <<x>> \/ entries = <<x, e>>
    <3>1. entries = <<x>> \o << >> \/ entries = <<x>> \o <<e>>
      BY <1>2
    <3>2. <<x>> \o << >> = <<x>>
      OBVIOUS
    <3>. QED
      BY <3>1, <3>2, <1>2, Joined, Zenon
  <2>2. Recount(View, x) = gone
    BY <1>2, RecountSays, ViewType
  <2>3. gone \in Views
    BY <2>2, ViewType, RecountType, <1>2
  <2>4. ViewOf(c) = gone
    BY <1>2 DEF ViewOf
  <2> HIDE DEF gone
  <2>5. Recount(gone, e) = gone
    BY <2>3, RecountSays
  <2>6. Retold(View, <<x>>) = gone /\ Retold(View, <<x, e>>) = gone
    BY <1>2, <2>2, <2>5, RetoldOne, RetoldTwo, Zenon
  <2>7. Piece(<<x>>) /\ Piece(<<x, e>>)
    BY <1>2 DEF Piece
  <2>. QED
    BY <2>1, <2>4, <2>6, <2>7, Zenon DEF Tells
<1>. QED
  BY <1>1, <1>2, ReapedSays

LEMMA RefuseDone ==
  ASSUME TypeOK, NEW e \in Entries, e.action \in Silent, Refuse(<< >>) \/ Refuse(<<e>>)
  PROVE  Done
<1> DEFINE c == [Control EXCEPT !.lease = Held]
<1>1. /\ c \in Controls /\ Len(c.handoffs) <= MaxHandoffs
      /\ c.lease = Held /\ c.paused = paused
  BY ControlType, ReapType DEF Controls, Control
<1>2. PICK entries \in {Reaped \o << >>, Reaped \o <<e>>} : Transact(c, entries)
  BY DEF Refuse
<1> HIDE DEF c
<1>3. Tells(c, entries)
  BY <1>1, TellsRefusal
<1>. QED
  BY <1>1, <1>2, <1>3 DEF Done, Does

\* A grant mints the next epoch, hands it to the actor, and is told of,
\* whatever became of the lease before it.
LEMMA GrantDone ==
  ASSUME TypeOK, NEW a \in Actors, NEW raw \in RawTtls \cup {NoTtl}, NEW before, NEW action,
         NEW c \in Controls, Len(c.handoffs) <= MaxHandoffs, Grant(c, a, raw, before, action),
         \/ before = << >>
         \/ \E x \in Entries : x.action \in {"lease.expired", "lease.revoked"} /\ before = <<x>>,
         \/ /\ action \in {"lease.granted", "lease.renewed", "lease.takeover"}
            /\ c.paused = paused
         \/ action = "handoff.claimed" /\ c.paused = FALSE
  PROVE  Done
<1> DEFINE new == [actor |-> a, epoch |-> epoch + 1, left |-> Ttl(raw)]
           e == Entry(action, a, new)
           d == [c EXCEPT !.epoch = epoch + 1, !.lease = new]
<1>1. epoch + 1 \in LeaseIds /\ new \in Leases /\ new # NoLease
  <2>1. Ttl(raw) \in 0 .. MaxTtl
    BY TtlClamped, ControlAssumption
  <2>2. epoch + 1 \in 1 .. MaxEpoch /\ epoch + 1 \in LeaseIds
    BY ControlAssumption DEF TypeOK, LeaseIds, Grant
  <2>3. new \in Leases
    BY <2>1, <2>2 DEF Leases
  <2>. QED
    BY <2>2, <2>3, NoLeaseIsNoLease
<1>2. Transact(d, before \o <<e>>)
  BY DEF Grant
<1>3. e \in Entries /\ e.action = action /\ e.actor = a /\ e.lease = epoch + 1
  <2>1. action \in Actions /\ new.epoch = epoch + 1
    BY DEF Actions
  <2> HIDE DEF new
  <2>. QED
    BY <1>1, <2>1, EntrySays
<1>4. d \in Controls /\ d.handoffs = c.handoffs
  BY <1>1 DEF Controls
<1>5. ViewOf(d) = [lease |-> epoch + 1, actor |-> a, paused |-> c.paused]
  <2>1. d.lease = new /\ d.paused = c.paused /\ new.epoch = epoch + 1 /\ new.actor = a
    BY DEF Controls
  <2>2. d.lease # NoLease
    BY <1>1, <2>1
  <2> HIDE DEF d, new
  <2>. QED
    BY <2>1, <2>2 DEF ViewOf
<1> HIDE DEF d, e, new
<1>6. ASSUME NEW v \in Views, v.paused = paused
      PROVE  Recount(v, e) = ViewOf(d)
  <2>1. CASE action \in {"lease.granted", "lease.renewed", "lease.takeover"} /\ c.paused = paused
    <3>1. Recount(v, e) = [lease |-> e.lease, actor |-> e.actor, paused |-> v.paused]
      BY <1>3, <2>1, RecountSays
    <3>. QED
      BY <3>1, <1>3, <1>5, <1>6, <2>1
  <2>2. CASE action = "handoff.claimed" /\ c.paused = FALSE
    <3>1. Recount(v, e) = [lease |-> e.lease, actor |-> e.actor, paused |-> FALSE]
      BY <1>3, <2>2, RecountSays
    <3>. QED
      BY <3>1, <1>3, <1>5, <2>2
  <2>. QED
    BY <2>1, <2>2
<1>7. Tells(d, before \o <<e>>)
  <2>1. CASE before = << >>
    <3>1. before \o <<e>> = <<e>>
      BY <2>1
    <3>2. Retold(View, <<e>>) = ViewOf(d)
      BY <1>3, <1>6, ViewType, RetoldOne, Zenon
    <3>3. Piece(<<e>>)
      BY <1>3 DEF Piece
    <3>. QED
      BY <3>1, <3>2, <3>3 DEF Tells
  <2>2. ASSUME NEW x \in Entries, x.action \in {"lease.expired", "lease.revoked"}, before = <<x>>
        PROVE  Tells(d, before \o <<e>>)
    <3> DEFINE gone == [lease |-> 0, actor |-> Nobody, paused |-> paused]
    <3>1. before \o <<e>> = <<x, e>>
      BY <1>3, <2>2, Joined, Zenon
    <3>2. Recount(View, x) = gone
      BY <2>2, RecountSays, ViewType
    <3>3. gone \in Views /\ gone.paused = paused
      BY <3>2, ViewType, RecountType, <2>2
    <3> HIDE DEF gone
    <3>4. Recount(gone, e) = ViewOf(d)
      BY <3>3, <1>6
    <3>5. Retold(View, <<x, e>>) = ViewOf(d)
      BY <1>3, <2>2, <3>2, <3>4, RetoldTwo, Zenon
    <3>6. Piece(<<x, e>>)
      BY <1>3, <2>2 DEF Piece
    <3>. QED
      BY <3>1, <3>5, <3>6 DEF Tells
  <2>. QED
    BY <2>1, <2>2
<1>. QED
  BY <1>2, <1>4, <1>7 DEF Done, Does

LEMMA AcquireDone ==
  ASSUME TypeOK, NEW a \in Actors \cup {Nobody}, NEW raw \in RawTtls \cup {NoTtl}, Acquire(a, raw)
  PROVE  Done
<1> USE ControlAssumption
<1>1. CASE AcquireNoActor(a)
  <2> DEFINE e == Entry("lease.denied", DefaultActor, lease)
  <2>1. e \in Entries /\ e.action \in Silent
    BY SilentEntry DEF Silent
  <2>2. Transact(Control, <<e>>)
    BY <1>1 DEF AcquireNoActor
  <2>3. Control.lease = lease /\ Control.paused = paused
    BY DEF Control
  <2> HIDE DEF e
  <2>4. Tells(Control, <<e>>)
    BY <2>1, <2>3, TellsSilent
  <2>. QED
    BY <2>2, <2>4, ControlType DEF Done, Does
<1>2. CASE AcquireHeld(a)
  <2> DEFINE e == Entry("lease.denied", a, Held)
  <2>1. e \in Entries /\ e.action \in Silent
    BY <1>2, SilentEntry DEF Silent, AcquireHeld
  <2>2. Refuse(<<e>>)
    BY <1>2 DEF AcquireHeld
  <2> HIDE DEF e
  <2>. QED
    BY <2>1, <2>2, RefuseDone
<1>3. CASE AcquireGrant(a, raw)
  <2>1. PICK action \in {"lease.granted", "lease.renewed"} :
          Grant(Control, a, raw, Reaped, action)
    BY <1>3 DEF AcquireGrant
  <2>2. a \in Actors /\ Control.paused = paused
    BY <1>3 DEF AcquireGrant, Control
  <2>3. \/ Reaped = << >>
        \/ \E x \in Entries : x.action \in {"lease.expired", "lease.revoked"} /\ Reaped = <<x>>
    BY ReapedSays
  <2>. QED
    BY <2>1, <2>2, <2>3, ControlType, GrantDone
<1>. QED
  BY <1>1, <1>2, <1>3 DEF Acquire

LEMMA TakeoverDone ==
  ASSUME TypeOK, NEW a \in Actors \cup {Nobody}, NEW raw \in RawTtls \cup {NoTtl},
         NEW force \in BOOLEAN, Takeover(a, force, raw)
  PROVE  Done
<1>1. CASE TakeoverNoActor(a)
  BY <1>1 DEF TakeoverNoActor, Done
<1>2. CASE TakeoverDenied(a, force)
  <2> DEFINE e == Entry("lease.denied", a, Held)
  <2>1. e \in Entries /\ e.action \in Silent
    BY <1>2, SilentEntry DEF Silent, TakeoverDenied
  <2>2. Refuse(<<e>>)
    BY <1>2 DEF TakeoverDenied
  <2> HIDE DEF e
  <2>. QED
    BY <2>1, <2>2, RefuseDone
<1>3. CASE TakeoverGrant(a, force, raw)
  <2>1. a \in Actors /\ Control.paused = paused
    BY <1>3 DEF TakeoverGrant, Control
  <2>2. CASE Held # NoLease
    <3> DEFINE x == Entry("lease.revoked", a, lease)
    <3>1. x \in Entries /\ x.action = "lease.revoked"
      BY <2>1, EntrySays DEF TypeOK, Actions
    <3>2. Grant(Control, a, raw, <<x>>, "lease.takeover")
      BY <1>3, <2>2 DEF TakeoverGrant
    <3> HIDE DEF x
    <3>. QED
      BY <2>1, <3>1, <3>2, ControlType, GrantDone
  <2>3. CASE Held = NoLease
    <3>1. Grant(Control, a, raw, Reaped, "lease.takeover")
      BY <1>3, <2>3 DEF TakeoverGrant
    <3>2. \/ Reaped = << >>
          \/ \E x \in Entries : x.action \in {"lease.expired", "lease.revoked"} /\ Reaped = <<x>>
      BY ReapedSays
    <3>. QED
      BY <2>1, <3>1, <3>2, ControlType, GrantDone
  <2>. QED
    BY <2>2, <2>3
<1>. QED
  BY <1>1, <1>2, <1>3 DEF Takeover

LEMMA ClaimDone ==
  ASSUME TypeOK, NEW a \in Actors \cup {Nobody}, NEW raw \in RawTtls \cup {NoTtl},
         NEW h, ClaimHandoff(h, a, raw)
  PROVE  Done
<1> DEFINE who == Or(a, DefaultActor)
<1>1. who \in Actors
  BY OrType, ControlAssumption
<1> HIDE DEF who
<1>2. CASE ClaimGone(h)
  BY <1>2 DEF ClaimGone, Done
<1>3. CASE ClaimDenied(h, who)
  BY <1>3, SomeSilent, RefuseDone DEF ClaimDenied
<1>4. CASE ClaimGrant(h, who, raw)
  <2> DEFINE c == [Control EXCEPT !.handoffs = [handoffs EXCEPT ![h] = who], !.paused = FALSE]
  <2>1. /\ [handoffs EXCEPT ![h] = who] \in Seq(Actors \cup {Nobody})
        /\ Len([handoffs EXCEPT ![h] = who]) = Len(handoffs)
    BY <1>1, <1>4 DEF ClaimGrant, Open, TypeOK
  <2>2. c \in Controls /\ Len(c.handoffs) <= MaxHandoffs /\ c.paused = FALSE
    BY <2>1, ControlType DEF Controls, Control
  <2>3. Grant(c, who, raw, Reaped, "handoff.claimed")
    BY <1>4 DEF ClaimGrant
  <2> HIDE DEF c
  <2>4. \/ Reaped = << >>
        \/ \E x \in Entries : x.action \in {"lease.expired", "lease.revoked"} /\ Reaped = <<x>>
    BY ReapedSays
  <2>. QED
    BY <1>1, <2>2, <2>3, <2>4, GrantDone
<1>. QED
  BY <1>2, <1>3, <1>4 DEF ClaimHandoff, who

\* A heartbeat, and what lets go of the lease.
LEMMA HoldingDone ==
  ASSUME TypeOK, NEW a \in Actors \cup {Nobody}, NEW id \in LeaseIds, NEW raw \in RawTtls \cup {NoTtl},
         Heartbeat(id, raw) \/ Release(id, a) \/ ReleaseAbsent(id)
  PROVE  Done
<1>1. CASE ReleaseAbsent(id)
  BY <1>1 DEF ReleaseAbsent, Done
<1>2. CASE Release(id, a)
  <2> DEFINE e == Entry("lease.released", Or(a, lease.actor), lease)
             c == [Control EXCEPT !.lease = NoLease]
  <2>1. lease \in Leases /\ lease.actor \in Actors
    BY <1>2 DEF Release, Released, TypeOK, Leases
  <2>2. e \in Entries /\ e.action = "lease.released"
    BY <2>1, OrType, EntrySays DEF Actions
  <2>3. Transact(c, <<e>>)
    BY <1>2 DEF Release
  <2>4. /\ c \in Controls /\ Len(c.handoffs) <= MaxHandoffs
        /\ c.lease = NoLease /\ c.paused = paused
    BY ControlType DEF Controls, Control
  <2> HIDE DEF e, c
  <2>5. Recount(View, e) = [lease |-> 0, actor |-> Nobody, paused |-> paused]
    BY <2>2, RecountSays, ViewType
  <2>6. Retold(View, <<e>>) = Recount(View, e)
    BY <2>2, RetoldOne, Zenon
  <2>7. ViewOf(c) = [lease |-> 0, actor |-> Nobody, paused |-> paused]
    BY <2>4 DEF ViewOf
  <2>8. Piece(<<e>>)
    BY <2>2 DEF Piece
  <2>. QED
    BY <2>3, <2>4, <2>5, <2>6, <2>7, <2>8 DEF Done, Does, Tells
<1>3. CASE Heartbeat(id, raw)
  <2>1. CASE Refuse(<< >>)
    BY <2>1, SomeSilent, RefuseDone
  <2>2. CASE ~(Held = NoLease \/ Held.epoch # id)
    <3> DEFINE l == [lease EXCEPT !.left = Ttl(raw)]
               c == [Control EXCEPT !.lease = l]
    <3>1. lease \in Leases
      BY <2>2, ReapType
    <3>2. Ttl(raw) \in 0 .. MaxTtl
      BY TtlClamped, ControlAssumption
    <3>3. l \in Leases /\ l.epoch = lease.epoch /\ l.actor = lease.actor
      BY <3>1, <3>2 DEF Leases
    <3>4. l # NoLease /\ lease # NoLease
      BY <3>1, <3>3, NoLeaseIsNoLease
    <3>5. Transact(c, << >>)
      BY <1>3, <2>2 DEF Heartbeat
    <3> HIDE DEF l
    <3>6. /\ c \in Controls /\ Len(c.handoffs) <= MaxHandoffs
          /\ c.lease = l /\ c.paused = paused
      BY <3>3, ControlType DEF Controls, Control
    <3> HIDE DEF c
    <3>7. ViewOf(c) = View
      BY <3>3, <3>4, <3>6 DEF ViewOf, View
    <3>8. Retold(View, << >>) = View
      BY RetoldNone, Zenon
    <3>9. Piece(<< >>)
      BY DEF Piece
    <3>. QED
      BY <3>5, <3>6, <3>7, <3>8, <3>9 DEF Done, Does, Tells
  <2>. QED
    BY <1>3, <2>1, <2>2 DEF Heartbeat
<1>. QED
  BY <1>1, <1>2, <1>3

LEMMA PauseDone ==
  ASSUME TypeOK, NEW a \in Actors \cup {Nobody}, NEW id \in LeaseIds, Pause(a, id)
  PROVE  Done
<1> DEFINE who == Or(a, DefaultActor)
           p == Entry("session.paused", who, NoLease)
           q == Entry("handoff.created", who, NoLease)
           r == Entry("lease.released", who, lease)
           c == [Control EXCEPT !.handoffs = Append(handoffs, Nobody), !.paused = TRUE,
                                !.lease = NoLease]
           parked == [lease |-> 0, actor |-> Nobody, paused |-> TRUE]
<1>1. who \in Actors
  BY OrType, ControlAssumption
<1>2. CASE PauseConflict(id)
  BY <1>2, SomeSilent, RefuseDone DEF PauseConflict
<1>3. CASE PauseParks(a, id)
  <2>1. /\ p \in Entries /\ p.action = "session.paused"
        /\ q \in Entries /\ q.action = "handoff.created"
        /\ r \in Entries /\ r.action = "lease.released"
    <3> HIDE DEF who
    <3>. QED
      BY <1>1, EntrySays DEF Actions, TypeOK
  <2>2. Transact(c, (Reaped \o (IF Held # NoLease THEN <<r>> ELSE << >>)) \o <<p, q>>)
    BY <1>3 DEF PauseParks
  <2>3. /\ Append(handoffs, Nobody) \in Seq(Actors \cup {Nobody})
        /\ Len(Append(handoffs, Nobody)) = Len(handoffs) + 1 /\ Len(handoffs) \in Nat
    BY DEF TypeOK
  <2>4. Len(Append(handoffs, Nobody)) <= MaxHandoffs
    BY <1>3, <2>3, ControlAssumption DEF PauseParks
  <2>5. /\ c \in Controls /\ Len(c.handoffs) <= MaxHandoffs
        /\ c.lease = NoLease /\ c.paused = TRUE
    BY <2>3, <2>4, ControlType DEF Controls, Control
  <2> HIDE DEF p, q, r, c
  <2>6. ViewOf(c) = parked
    BY <2>5 DEF ViewOf
  <2>7. ASSUME NEW v \in Views, v.lease = 0, v.actor = Nobody
        PROVE  Recount(Recount(v, p), q) = parked
    <3>1. Recount(v, p) = parked /\ Recount(v, p) \in Views
      BY <2>1, <2>7, RecountSays, RecountType
    <3>. QED
      BY <2>1, <3>1, RecountSays DEF Silent
  <2>8. ASSUME NEW x \in Entries, x.action \in {"lease.expired", "lease.released"},
               Transact(c, <<x, p, q>>)
        PROVE  Done
    <3> DEFINE s == <<x, p, q>>
               gone == [lease |-> 0, actor |-> Nobody, paused |-> paused]
    <3>1. Recount(View, x) = gone
      BY <2>8, RecountSays, ViewType
    <3>2. gone \in Views /\ gone.lease = 0 /\ gone.actor = Nobody
      BY <3>1, ViewType, RecountType, <2>8
    <3>3. /\ s \in Seq(Entries) /\ Len(s) = 3 /\ Len(s) \in 0 .. 3
          /\ s[1] = x /\ s[2] = p /\ s[3] = q
      BY <2>1
    <3>4. Transact(c, s)
      BY <2>8
    <3> HIDE DEF s, gone
    <3>5. Retold(View, s) = Recount(Recount(Recount(View, s[1]), s[2]), s[3])
      BY <3>3, RetoldIs, Zenon
    <3>6. Recount(Recount(gone, p), q) = ViewOf(c)
      BY <2>6, <2>7, <3>2
    <3>7. Retold(View, s) = ViewOf(c)
      BY <3>1, <3>3, <3>5, <3>6
    <3>. QED
      BY <2>5, <3>3, <3>4, <3>7 DEF Done, Does, Tells, Piece
  <2>9. CASE Held = NoLease /\ Reaped = << >> /\ lease = NoLease
    <3>1. (Reaped \o (IF Held # NoLease THEN <<r>> ELSE << >>)) \o <<p, q>> = <<p, q>>
      BY <2>1, <2>9
    <3>2. Retold(View, <<p, q>>) = Recount(Recount(View, p), q)
      BY <2>1, RetoldTwo, Zenon
    <3>3. Recount(Recount(View, p), q) = ViewOf(c)
      BY <2>6, <2>7, <2>9, ViewType
    <3>4. Piece(<<p, q>>)
      BY <2>1 DEF Piece
    <3>. QED
      BY <2>2, <2>5, <3>1, <3>2, <3>3, <3>4 DEF Done, Does, Tells
  <2>10. CASE Held # NoLease /\ Reaped = << >>
    <3>1. (Reaped \o (IF Held # NoLease THEN <<r>> ELSE << >>)) \o <<p, q>> = <<r>> \o <<p, q>>
      BY <2>1, <2>10
    <3>2. <<r>> \o <<p, q>> = <<r, p, q>>
      BY <2>1, JoinedTwo, Zenon
    <3>. QED
      BY <2>1, <2>2, <2>8, <3>1, <3>2
  <2>11. ASSUME NEW x \in Entries, x.action = "lease.expired", Reaped = <<x>>, Held = NoLease
         PROVE  Done
    <3>1. (Reaped \o (IF Held # NoLease THEN <<r>> ELSE << >>)) \o <<p, q>> = <<x>> \o <<p, q>>
      BY <2>1, <2>11
    <3>2. <<x>> \o <<p, q>> = <<x, p, q>>
      BY <2>1, JoinedTwo, Zenon
    <3>. QED
      BY <2>2, <2>8, <2>11, <3>1, <3>2
  <2>. QED
    BY <2>9, <2>10, <2>11, ReapedSays
<1>. QED
  BY <1>2, <1>3 DEF Pause

LEMMA ResumeDone ==
  ASSUME TypeOK, NEW a \in Actors \cup {Nobody}, Resume(a) \/ NoteAmbient(a) \/ AuthRefusal(a)
  PROVE  Done
<1> DEFINE who == Or(a, DefaultActor)
<1>1. who \in Actors
  BY OrType, ControlAssumption
<1> HIDE DEF who
<1>2. Control.lease = lease /\ Control.paused = paused
  BY DEF Control
<1>3. ASSUME NEW action \in Silent, Note(action, a)
      PROVE  Done
  <2> DEFINE e == Entry(action, who, lease)
  <2>1. e \in Entries /\ e.action \in Silent
    BY <1>1, SilentEntry
  <2>2. Transact(Control, <<e>>)
    BY <1>3 DEF Note, who
  <2> HIDE DEF e
  <2>3. Tells(Control, <<e>>)
    BY <1>2, <2>1, TellsSilent
  <2>. QED
    BY <2>2, <2>3, ControlType DEF Done, Does
<1>4. CASE NoteAmbient(a) \/ AuthRefusal(a)
  BY <1>3, <1>4 DEF NoteAmbient, AuthRefusal, Silent
<1>5. CASE Resume(a)
  <2> DEFINE e == Entry("session.resumed", who, lease)
             c == [Control EXCEPT !.paused = FALSE]
  <2>1. e \in Entries /\ e.action = "session.resumed"
    BY <1>1, EntrySays DEF Actions, TypeOK
  <2>2. Transact(c, IF paused THEN <<e>> ELSE << >>)
    BY <1>5 DEF Resume, who
  <2>3. /\ c \in Controls /\ Len(c.handoffs) <= MaxHandoffs
        /\ c.lease = lease /\ c.paused = FALSE
    BY ControlType DEF Controls, Control
  <2> HIDE DEF e, c
  <2>4. CASE paused
    <3>1. Retold(View, <<e>>) = Recount(View, e)
      BY <2>1, RetoldOne, Zenon
    <3>2. Recount(View, e) = [lease |-> View.lease, actor |-> View.actor, paused |-> FALSE]
      BY <2>1, RecountSays, ViewType
    <3>3. ViewOf(c) = [lease |-> View.lease, actor |-> View.actor, paused |-> FALSE]
      BY <2>3 DEF ViewOf, View
    <3>4. Piece(<<e>>)
      BY <2>1 DEF Piece
    <3>. QED
      BY <2>2, <2>3, <2>4, <3>1, <3>2, <3>3, <3>4 DEF Done, Does, Tells
  <2>5. CASE ~paused
    <3>1. c.paused = paused /\ Transact(c, << >>)
      BY <2>2, <2>3, <2>5 DEF TypeOK
    <3>2. Tells(c, << >>)
      BY <2>3, <3>1, SomeSilent, TellsSilent
    <3>. QED
      BY <2>3, <3>1, <3>2 DEF Done, Does
  <2>. QED
    BY <2>4, <2>5
<1>. QED
  BY <1>4, <1>5

LEMMA AuthorizeDone ==
  ASSUME TypeOK, NEW a \in Actors \cup {Nobody}, NEW id \in LeaseIds, Authorize(id, a)
  PROVE  Done
<1> DEFINE who == Author(id, a)
<1>1. who \in Actors
  BY OrType, ReapType, ControlAssumption DEF Author, Leases
<1> HIDE DEF who
<1>2. /\ Entry("write.rejected", who, Held) \in Entries
      /\ Entry("write.rejected", who, Held).action \in Silent
      /\ Entry("write.accepted", who, Held) \in Entries
      /\ Entry("write.accepted", who, Held).action \in Silent
  BY <1>1, SilentEntry DEF Silent
<1>3. CASE AuthorizeDenied(id, a)
  BY <1>2, <1>3, RefuseDone DEF AuthorizeDenied, who
<1>4. CASE AuthorizeAllowed(id, a)
  <2> DEFINE c == [Control EXCEPT !.served = id, !.lease = Held]
             e == Entry("write.accepted", who, Held)
  <2>1. Transact(c, Reaped \o <<e>>)
    BY <1>4 DEF AuthorizeAllowed, who
  <2>2. /\ c \in Controls /\ Len(c.handoffs) <= MaxHandoffs
        /\ c.lease = Held /\ c.paused = paused
    BY ControlType, ReapType DEF Controls, Control
  <2> HIDE DEF c, e
  <2>3. Tells(c, Reaped \o <<e>>)
    BY <1>2, <2>2, TellsRefusal DEF e
  <2>. QED
    BY <2>1, <2>2, <2>3 DEF Done, Does
<1>. QED
  BY <1>3, <1>4 DEF Authorize

LEMMA StepDone ==
  ASSUME TypeOK, [Next]_vars
  PROVE  Tick \/ Reread \/ Done
<1>1. 0 .. epoch \subseteq LeaseIds /\ 0 \in LeaseIds
  BY ControlAssumption DEF TypeOK, LeaseIds
<1>2. ASSUME NEW a \in Actors \cup {Nobody}, NEW raw \in RawTtls, LeaseOperation(a, raw)
      PROVE  Done
  BY <1>2, AcquireDone, TakeoverDone, ClaimDone DEF LeaseOperation
<1>3. ASSUME NEW a \in Actors \cup {Nobody}, NEW id \in LeaseIds, Presenting(a, id)
      PROVE  Done
  <2>1. NoTtl \in RawTtls \cup {NoTtl}
    OBVIOUS
  <2>. QED
    BY <1>3, <2>1, HoldingDone, PauseDone, AuthorizeDone DEF Presenting
<1>4. ASSUME NEW id \in LeaseIds, NEW raw \in RawTtls, Heartbeat(id, raw)
      PROVE  Done
  <2>1. Nobody \in Actors \cup {Nobody}
    OBVIOUS
  <2>. QED
    BY <1>4, <2>1, HoldingDone
<1>5. CASE UNCHANGED vars
  BY <1>5 DEF Done
<1>. QED
  BY <1>1, <1>2, <1>3, <1>4, <1>5, ResumeDone DEF Next

-----------------------------------------------------------------------------
(* Type correctness *)

\* What a reader of the trail is.
Readers ==
  {Unsure} \cup [view : Views, at : Int, lost : 0 .. MaxFaults, torn : 0 .. MaxFaults]

LEMMA FreshReader ==
  ASSUME NEW v \in Views
  PROVE  Fresh(v) \in Readers /\ Fresh(v) # Unsure
<1>1. Fresh(v) \in [view : Views, at : Int, lost : 0 .. MaxFaults, torn : 0 .. MaxFaults]
  BY ControlAssumption DEF Fresh
<1>2. Fresh(v) \in [view : Views, at : Int, lost : Nat, torn : Nat]
  BY DEF Fresh
<1>. QED
  BY <1>1, <1>2, ControlAssumption DEF Readers

\* Reading any piece of the trail that an operation writes.
LEMMA RetoldType ==
  ASSUME NEW v \in Views, NEW entries, Piece(entries),
         NEW m \in Int, NEW n \in Int, n < m \/ m \in 1 .. n, n <= Len(entries)
  PROVE  Retold(v, SubSeq(entries, m, n)) \in Views
<1> DEFINE s == SubSeq(entries, m, n)
<1>1. s \in Seq(Entries) /\ Len(s) \in 0 .. 3
  <2>1. CASE n < m
    <3>1. s = << >>
      BY <2>1
    <3>. QED
      BY <3>1
  <2>2. CASE m \in 1 .. n
    <3>1. n \in 1 .. Len(entries) /\ m \in 1 .. Len(entries) + 1 /\ n \in m - 1 .. Len(entries)
      BY <2>2 DEF Piece
    <3>2. s \in Seq(Entries) /\ Len(s) = n - m + 1
      BY <2>2, <3>1 DEF Piece
    <3>. QED
      BY <2>2, <3>1, <3>2 DEF Piece
  <2>. QED
    BY <2>1, <2>2
<1> SUFFICES Retold(v, s) \in Views
  OBVIOUS
<1> HIDE DEF s
<1>2. \A i \in 1 .. Len(s) : s[i] \in Entries
  BY <1>1
<1>3. CASE Len(s) = 0
  BY <1>1, <1>3, RetoldIs
<1>4. CASE Len(s) = 1
  <2>1. Retold(v, s) = Recount(v, s[1])
    BY <1>1, <1>4, RetoldIs
  <2>. QED
    BY <1>2, <1>4, <2>1, RecountType
<1>5. CASE Len(s) = 2
  <2>1. Retold(v, s) = Recount(Recount(v, s[1]), s[2])
    BY <1>1, <1>5, RetoldIs
  <2>. QED
    BY <1>2, <1>5, <2>1, RecountType
<1>6. CASE Len(s) = 3
  <2>1. Retold(v, s) = Recount(Recount(Recount(v, s[1]), s[2]), s[3])
    BY <1>1, <1>6, RetoldIs
  <2>. QED
    BY <1>2, <1>6, <2>1, RecountType
<1>. QED
  BY <1>1, <1>3, <1>4, <1>5, <1>6

\* A reader who goes on has read on from where the last piece ended.
LEMMA FollowedIs ==
  ASSUME TypeOK, NEW entries, Piece(entries), NEW kept \in SUBSET DOMAIN entries,
         NEW counted, NEW lost, NEW torn, Followed(entries, kept, counted, lost, torn) # Unsure
  PROVE  /\ reader # Unsure
         /\ \E last \in Int :
              /\ kept = {} => last = reader.at
              /\ kept # {} => /\ reader.at + 1 \in 1 .. last /\ last <= Len(entries)
                              /\ kept = reader.at + 1 .. last
              /\ Retold(reader.view, SubSeq(entries, reader.at + 1, last)) \in Views
              /\ Followed(entries, kept, counted, lost, torn)
                   = [view |-> Retold(reader.view, SubSeq(entries, reader.at + 1, last)),
                      at   |-> last - counted,
                      lost |-> reader.lost + lost, torn |-> reader.torn + torn]
<1>1. reader # Unsure /\ reader.at \in Int /\ reader.view \in Views
  BY DEF Followed, TypeOK
<1>2. DOMAIN entries = 1 .. Len(entries) /\ Len(entries) \in Nat
  BY DEF Piece
<1> DEFINE last == IF kept = {} THEN reader.at ELSE Max(kept)
<1>3. /\ kept # {} => kept = reader.at + 1 .. last
      /\ Followed(entries, kept, counted, lost, torn)
           = [view |-> Retold(reader.view, SubSeq(entries, reader.at + 1, last)),
              at   |-> last - counted,
              lost |-> reader.lost + lost, torn |-> reader.torn + torn]
  BY <1>1 DEF Followed
<1>4. CASE kept = {}
  <2>1. last = reader.at
    BY <1>4
  <2> HIDE DEF last
  <2>2. Retold(reader.view, SubSeq(entries, reader.at + 1, last)) \in Views
    <3>1. reader.at + 1 \in Int /\ last \in Int /\ last < reader.at + 1
      BY <1>1, <2>1
    <3>2. last <= Len(entries) \/ last > Len(entries)
      BY <1>1, <1>2, <2>1
    <3>3. SubSeq(entries, reader.at + 1, last) = SubSeq(entries, 1, 0)
      BY <3>1, <1>2 DEF Piece
    <3>4. Retold(reader.view, SubSeq(entries, 1, 0)) \in Views
      BY <1>1, <1>2, RetoldType
    <3>. QED
      BY <3>3, <3>4
  <2>. QED
    BY <1>1, <1>3, <1>4, <2>1, <2>2
<1>5. CASE kept # {}
  <2>1. kept = reader.at + 1 .. last
    BY <1>3, <1>5
  <2>2. PICK x \in kept : TRUE
    BY <1>5
  <2>3. last \in kept
    <3>1. \E y \in kept : \A z \in kept : y >= z
      <4>1. kept \subseteq 1 .. 3
        BY <1>2 DEF Piece
      <4>. QED
        BY <4>1, <2>2
    <3>. QED
      BY <1>5, <3>1 DEF Max
  <2> HIDE DEF last
  <2>4. last \in 1 .. Len(entries) /\ reader.at + 1 <= last
    BY <1>1, <1>2, <2>1, <2>3
  <2>5. reader.at + 1 \in kept
    BY <1>1, <2>1, <2>4
  <2>6. reader.at + 1 \in 1 .. last
    BY <1>1, <1>2, <2>4, <2>5
  <2>7. Retold(reader.view, SubSeq(entries, reader.at + 1, last)) \in Views
    BY <1>1, <2>4, <2>6, RetoldType
  <2>. QED
    BY <1>1, <1>3, <1>5, <2>1, <2>4, <2>6, <2>7
<1>. QED
  BY <1>4, <1>5

\* What a transaction does to the control file and to the reader.
LEMMA TransactSays ==
  ASSUME NEW c, NEW entries, Transact(c, entries)
  PROVE  \E kept \in SUBSET DOMAIN entries :
           \/ /\ Replaced(c) /\ kept = DOMAIN entries
              /\ reader' = Followed(entries, kept, Len(entries), 0, 0)
           \/ /\ Replaced(c) /\ kept # DOMAIN entries /\ MoreMishaps
              /\ reader' = Followed(entries, kept, Len(entries), 1, 0)
           \/ /\ Replaced(Control) /\ kept # {} /\ MoreMishaps
              /\ reader' = Followed(entries, kept, 0, 0, 1)
BY DEF Transact, Appended, Torn

LEMMA DoneType ==
  ASSUME TypeOK, NEW c, NEW entries, Does(c, entries)
  PROVE  TypeOK'
<1>1. Piece(entries) /\ Len(entries) \in Int
  BY DEF Does, Tells, Piece
<1>2. PICK kept \in SUBSET DOMAIN entries :
        \/ /\ Replaced(c) /\ kept = DOMAIN entries
           /\ reader' = Followed(entries, kept, Len(entries), 0, 0)
        \/ /\ Replaced(c) /\ kept # DOMAIN entries /\ MoreMishaps
           /\ reader' = Followed(entries, kept, Len(entries), 1, 0)
        \/ /\ Replaced(Control) /\ kept # {} /\ MoreMishaps
           /\ reader' = Followed(entries, kept, 0, 0, 1)
  BY TransactSays DEF Does
<1>3. PICK d \in Controls : Replaced(d) /\ Len(d.handoffs) <= MaxHandoffs
  BY <1>2, ControlType DEF Does
<1>4. ASSUME NEW counted \in Int, NEW lost \in {0, 1}, NEW torn \in {0, 1},
             reader' = Followed(entries, kept, counted, lost, torn),
             lost + torn = 1 => MoreMishaps, lost + torn \in {0, 1}
      PROVE  reader' \in Readers
  <2>1. CASE reader' = Unsure
    BY <2>1 DEF Readers
  <2>2. CASE reader' # Unsure
    <3>1. reader # Unsure
      BY <1>1, <1>4, <2>2, FollowedIs
    <3>2. reader.lost \in 0 .. MaxFaults /\ reader.torn \in 0 .. MaxFaults
      BY <3>1 DEF TypeOK
    <3>3. reader.lost + lost \in 0 .. MaxFaults /\ reader.torn + torn \in 0 .. MaxFaults
      BY <1>4, <3>1, <3>2, ControlAssumption DEF MoreMishaps
    <3>4. PICK last \in Int :
            /\ Retold(reader.view, SubSeq(entries, reader.at + 1, last)) \in Views
            /\ Followed(entries, kept, counted, lost, torn)
                 = [view |-> Retold(reader.view, SubSeq(entries, reader.at + 1, last)),
                    at   |-> last - counted,
                    lost |-> reader.lost + lost, torn |-> reader.torn + torn]
      BY <1>1, <1>4, <2>2, FollowedIs
    <3>. QED
      BY <1>4, <3>3, <3>4 DEF Readers
  <2>. QED
    BY <2>1, <2>2
<1>5. reader' \in Readers
  BY <1>1, <1>2, <1>4
<1>6. /\ epoch' \in LeaseIds /\ lease' \in Leases \cup {NoLease} /\ paused' \in BOOLEAN
      /\ handoffs' \in Seq(Actors \cup {Nobody}) /\ Len(handoffs') <= MaxHandoffs
      /\ served' \in LeaseIds
  BY <1>3 DEF Replaced, Controls
<1>. QED
  BY <1>5, <1>6 DEF TypeOK, Readers

LEMMA TickType == TypeOK /\ Tick => TypeOK'
<1> SUFFICES ASSUME TypeOK, Tick PROVE TypeOK'
  OBVIOUS
<1>1. lease \in Leases /\ lease.left - 1 \in 0 .. MaxTtl
  BY ControlAssumption DEF Tick, TypeOK, Leases
<1>2. [lease EXCEPT !.left = @ - 1] \in Leases
  BY <1>1 DEF Leases
<1>3. lease' \in Leases
  BY <1>2 DEF Tick
<1>. QED
  BY <1>3 DEF Tick, TypeOK

LEMMA StepType == TypeOK /\ [Next]_vars => TypeOK'
<1> SUFFICES ASSUME TypeOK, [Next]_vars PROVE TypeOK'
  OBVIOUS
<1>1. CASE Tick
  BY <1>1, TickType
<1>2. CASE Reread
  <2>1. reader' \in Readers
    BY <1>2, ViewType, FreshReader DEF Reread
  <2>. QED
    BY <1>2, <2>1 DEF Reread, TypeOK, Readers
<1>3. CASE Done
  <2>1. CASE UNCHANGED vars
    BY <2>1 DEF vars, TypeOK
  <2>. QED
    BY <1>3, <2>1, DoneType DEF Done
<1>. QED
  BY <1>1, <1>2, <1>3, StepDone

LEMMA InitType == Init => TypeOK
<1>1. 0 \in LeaseIds
  BY ControlAssumption DEF LeaseIds
<1>2. << >> \in Seq(Actors \cup {Nobody}) /\ Len(<< >>) = 0
  OBVIOUS
<1> SUFFICES ASSUME Init PROVE TypeOK
  OBVIOUS
<1>3. handoffs \in Seq(Actors \cup {Nobody}) /\ Len(handoffs) <= MaxHandoffs
  BY <1>2, ControlAssumption DEF Init
<1>4. epoch \in LeaseIds /\ served \in LeaseIds /\ paused \in BOOLEAN
  BY <1>1 DEF Init
<1>5. reader \in Readers
  <2>1. [lease |-> 0, actor |-> Nobody, paused |-> FALSE] \in Views
    BY <1>1 DEF Views
  <2>. QED
    BY <2>1, FreshReader DEF Init
<1>6. lease \in Leases \cup {NoLease}
  BY DEF Init
<1>. QED
  BY <1>3, <1>4, <1>5, <1>6 DEF TypeOK, Readers

\* Every operation of the control plane keeps the state well typed, also one
\* that is torn; in particular a lease never outlives the largest ttl.
THEOREM TypeCorrect == Spec => []TypeOK
BY InitType, StepType, PTL DEF Spec

-----------------------------------------------------------------------------
(* What a step makes of the control file, the trail left aside *)

\* Nothing: a torn transaction, a refusal, a note, a reader.
Stalled == UNCHANGED <<epoch, lease, paused, handoffs, served>>

Reaps == lease' = Held /\ UNCHANGED <<epoch, paused, handoffs, served>>

\* What entitles to a grant over a lease that has not expired.
Wins(a) ==
  Held # NoLease =>
    \/ Held.actor.id = a.id
    \/ \E force \in BOOLEAN : MaySeize(a, force, Held.actor)
    \/ ~(Rank(a) < Rank(Held.actor))

GrantedTo(a) ==
  /\ Wins(a) /\ epoch' = epoch + 1 /\ UNCHANGED served
  /\ \E n \in 1 .. MaxTtl : lease' = [actor |-> a, epoch |-> epoch + 1, left |-> n]

Takes(a) == GrantedTo(a) /\ UNCHANGED <<paused, handoffs>>

Claims(a, h) ==
  GrantedTo(a) /\ Open(h) /\ handoffs' = [handoffs EXCEPT ![h] = a] /\ paused' = FALSE

Renews ==
  /\ Held # NoLease /\ UNCHANGED <<epoch, paused, handoffs, served>>
  /\ \E n \in 1 .. MaxTtl : lease' = [lease EXCEPT !.left = n]

Drops == lease' = NoLease /\ UNCHANGED <<epoch, paused, handoffs, served>>

Parks ==
  /\ lease' = NoLease /\ paused' = TRUE /\ handoffs' = Append(handoffs, Nobody)
  /\ UNCHANGED <<epoch, served>>

Resumes == paused' = FALSE /\ UNCHANGED <<epoch, lease, handoffs, served>>

Serves == ~paused /\ served' = LiveId /\ lease' = Held /\ UNCHANGED <<epoch, paused, handoffs>>

Moves ==
  \/ Stalled \/ Reaps \/ Renews \/ Drops \/ Parks \/ Resumes \/ Serves \/ Tick
  \/ \E a \in Actors : Takes(a) \/ \E h : Claims(a, h)

LEMMA Committed ==
  ASSUME NEW c, NEW entries, Transact(c, entries)
  PROVE  Stalled \/ Replaced(c)
BY DEF Transact, Replaced, Control, Stalled

LEMMA RefuseMoves ==
  ASSUME NEW entries, Refuse(entries)
  PROVE  Stalled \/ Reaps
<1>1. Stalled \/ Replaced([Control EXCEPT !.lease = Held])
  BY Committed DEF Refuse
<1>. QED
  BY <1>1 DEF Replaced, Control, Reaps

LEMMA GrantMoves ==
  ASSUME TypeOK, NEW c \in Controls, NEW a, NEW raw \in RawTtls \cup {NoTtl}, NEW before, NEW action,
         Grant(c, a, raw, before, action), Wins(a), c.served = served
  PROVE  Stalled \/ (GrantedTo(a) /\ paused' = c.paused /\ handoffs' = c.handoffs)
<1> DEFINE new == [actor |-> a, epoch |-> epoch + 1, left |-> Ttl(raw)]
<1>1. Stalled \/ Replaced([c EXCEPT !.epoch = epoch + 1, !.lease = new])
  BY Committed DEF Grant
<1>2. Ttl(raw) \in 1 .. MaxTtl
  BY TtlClamped, ControlAssumption
<1>3. CASE Replaced([c EXCEPT !.epoch = epoch + 1, !.lease = new])
  <2> HIDE DEF new
  <2>1. /\ epoch' = epoch + 1 /\ lease' = new /\ paused' = c.paused
        /\ handoffs' = c.handoffs /\ served' = c.served
    BY <1>3 DEF Replaced, Controls
  <2>. QED
    BY <1>2, <2>1 DEF GrantedTo, new
<1>. QED
  BY <1>1, <1>3

LEMMA LeaseOperationMoves ==
  ASSUME TypeOK, NEW a \in Actors \cup {Nobody}, NEW raw \in RawTtls, LeaseOperation(a, raw)
  PROVE  Moves
<1>1. /\ Control \in Controls /\ Control.served = served
      /\ Control.paused = paused /\ Control.handoffs = handoffs
  BY ControlType DEF Control
<1>2. CASE Acquire(a, raw)
  <2>1. CASE AcquireNoActor(a)
    <3>1. Stalled \/ Replaced(Control)
      BY <2>1, Committed DEF AcquireNoActor
    <3>. QED
      BY <3>1 DEF Replaced, Control, Stalled, Moves
  <2>2. CASE AcquireHeld(a)
    BY <2>2, RefuseMoves DEF AcquireHeld, Moves
  <2>3. CASE AcquireGrant(a, raw)
    <3>1. a \in Actors /\ Wins(a)
      BY <2>3 DEF AcquireGrant, HeldByAnother, Wins
    <3>2. \E action : Grant(Control, a, raw, Reaped, action)
      BY <2>3 DEF AcquireGrant
    <3>. QED
      BY <1>1, <3>1, <3>2, GrantMoves DEF Moves, Takes
  <2>. QED
    BY <1>2, <2>1, <2>2, <2>3 DEF Acquire
<1>3. ASSUME NEW force \in BOOLEAN, Takeover(a, force, raw)
      PROVE  Moves
  <2>1. CASE TakeoverNoActor(a)
    BY <2>1 DEF TakeoverNoActor, vars, Moves, Stalled
  <2>2. CASE TakeoverDenied(a, force)
    BY <2>2, RefuseMoves DEF TakeoverDenied, Moves
  <2>3. CASE TakeoverGrant(a, force, raw)
    <3>1. a \in Actors /\ Wins(a)
      BY <2>3 DEF TakeoverGrant, Wins
    <3>2. \E before : Grant(Control, a, raw, before, "lease.takeover")
      BY <2>3 DEF TakeoverGrant
    <3>. QED
      BY <1>1, <3>1, <3>2, GrantMoves DEF Moves, Takes
  <2>. QED
    BY <1>3, <2>1, <2>2, <2>3 DEF Takeover
<1>4. ASSUME NEW h \in 1 .. MaxHandoffs, ClaimHandoff(h, a, raw)
      PROVE  Moves
  <2> DEFINE who == Or(a, DefaultActor)
  <2>0. who \in Actors
    BY OrType, ControlAssumption
  <2> HIDE DEF who
  <2>1. CASE ClaimGone(h)
    BY <2>1 DEF ClaimGone, vars, Moves, Stalled
  <2>2. CASE ClaimDenied(h, who)
    BY <2>2, RefuseMoves DEF ClaimDenied, Moves
  <2>3. CASE ClaimGrant(h, who, raw)
    <3> DEFINE claimed == [handoffs EXCEPT ![h] = who]
               c == [Control EXCEPT !.handoffs = claimed, !.paused = FALSE]
    <3>1. Open(h) /\ Wins(who) /\ claimed \in Seq(Actors \cup {Nobody})
      BY <2>0, <2>3 DEF ClaimGrant, Outranked, Wins, Open, TypeOK
    <3>2. Grant(c, who, raw, Reaped, "handoff.claimed")
      BY <2>3 DEF ClaimGrant
    <3> HIDE DEF claimed
    <3>3. c \in Controls /\ c.served = served /\ c.paused = FALSE /\ c.handoffs = claimed
      BY <3>1, <1>1 DEF Controls, Control
    <3> HIDE DEF c
    <3>4. Stalled \/ (GrantedTo(who) /\ paused' = FALSE /\ handoffs' = claimed)
      BY <3>1, <3>2, <3>3, GrantMoves
    <3>5. Stalled \/ Claims(who, h)
      BY <3>1, <3>4 DEF Claims, claimed
    <3>. QED
      BY <2>0, <3>5 DEF Moves
  <2>. QED
    BY <1>4, <2>1, <2>2, <2>3 DEF ClaimHandoff, who
<1>. QED
  BY <1>2, <1>3, <1>4 DEF LeaseOperation

LEMMA PresentingMoves ==
  ASSUME TypeOK, NEW a \in Actors \cup {Nobody}, NEW id, Presenting(a, id)
  PROVE  Moves
<1>1. CASE Release(id, a)
  <2>1. Stalled \/ Replaced([Control EXCEPT !.lease = NoLease])
    BY <1>1, Committed DEF Release
  <2>. QED
    BY <2>1 DEF Replaced, Control, Drops, Moves
<1>2. CASE ReleaseAbsent(id)
  BY <1>2 DEF ReleaseAbsent, vars, Moves, Stalled
<1>3. CASE PauseConflict(id)
  BY <1>3, RefuseMoves DEF PauseConflict, Moves
<1>4. CASE PauseParks(a, id)
  <2> DEFINE minted == Append(handoffs, Nobody)
  <2>1. Stalled \/ Replaced([Control EXCEPT !.handoffs = minted, !.paused = TRUE,
                                            !.lease = NoLease])
    BY <1>4, Committed DEF PauseParks
  <2> HIDE DEF minted
  <2>2. Stalled \/ (/\ lease' = NoLease /\ paused' = TRUE /\ handoffs' = minted
                    /\ UNCHANGED <<epoch, served>>)
    BY <2>1 DEF Replaced, Control
  <2>. QED
    BY <2>2 DEF Parks, Moves, minted
<1>5. CASE AuthorizeDenied(id, a)
  BY <1>5, RefuseMoves DEF AuthorizeDenied, Moves
<1>6. CASE AuthorizeAllowed(id, a)
  <2>1. Stalled \/ Replaced([Control EXCEPT !.served = id, !.lease = Held])
    BY <1>6, Committed DEF AuthorizeAllowed
  <2>2. ~paused /\ id = LiveId
    BY <1>6 DEF AuthorizeAllowed, MayWrite, Held, LiveId, Live
  <2>. QED
    BY <2>1, <2>2 DEF Replaced, Control, Serves, Moves
<1>. QED
  BY <1>1, <1>2, <1>3, <1>4, <1>5, <1>6 DEF Presenting, Pause, Authorize

LEMMA StepMoves == TypeOK /\ [Next]_vars => Moves
<1> SUFFICES ASSUME TypeOK, [Next]_vars PROVE Moves
  OBVIOUS
<1>1. ASSUME NEW a \in Actors \cup {Nobody}, Resume(a) \/ NoteAmbient(a) \/ AuthRefusal(a)
      PROVE  Moves
  <2>1. CASE Resume(a)
    <3>1. Stalled \/ Replaced([Control EXCEPT !.paused = FALSE])
      BY <2>1, Committed DEF Resume
    <3>. QED
      BY <3>1 DEF Replaced, Control, Resumes, Moves
  <2>2. CASE NoteAmbient(a) \/ AuthRefusal(a)
    <3>1. Stalled \/ Replaced(Control)
      BY <2>2, Committed DEF NoteAmbient, AuthRefusal, Note
    <3>. QED
      BY <3>1 DEF Replaced, Control, Stalled, Moves
  <2>. QED
    BY <1>1, <2>1, <2>2
<1>2. ASSUME NEW id \in 0 .. epoch, NEW raw \in RawTtls, Heartbeat(id, raw)
      PROVE  Moves
  <2>1. CASE Refuse(<< >>)
    BY <2>1, RefuseMoves DEF Moves
  <2>2. CASE ~(Held = NoLease \/ Held.epoch # id)
    <3> DEFINE l == [lease EXCEPT !.left = Ttl(raw)]
    <3>1. Stalled \/ Replaced([Control EXCEPT !.lease = l])
      BY <1>2, <2>2, Committed DEF Heartbeat
    <3>2. Ttl(raw) \in 1 .. MaxTtl
      BY TtlClamped, ControlAssumption
    <3> HIDE DEF l
    <3>3. Stalled \/ (lease' = l /\ UNCHANGED <<epoch, paused, handoffs, served>>)
      BY <3>1 DEF Replaced, Control
    <3>. QED
      BY <2>2, <3>2, <3>3 DEF Renews, Moves, l
  <2>. QED
    BY <1>2, <2>1, <2>2 DEF Heartbeat
<1>3. CASE Tick
  BY <1>3 DEF Moves
<1>4. CASE Reread \/ UNCHANGED vars
  BY <1>4 DEF Reread, vars, Moves, Stalled
<1>. QED
  BY <1>1, <1>2, <1>3, <1>4, LeaseOperationMoves, PresentingMoves DEF Next

-----------------------------------------------------------------------------
(* The control plane implements the single pen *)

IInv == TypeOK /\ NewestGrant

\* What a step of the control plane may be, seen as a pen.
PenStep == NewestGrant' /\ (Pen!Next \/ UNCHANGED Pen!vars)

\* Seen as a pen, dropping an expired lease changes nothing.
LEMMA HeldKeepsPen ==
  ASSUME IInv, lease' = Held
  PROVE  LiveId' = LiveId
BY ReapType DEF IInv, LiveId, Live, Expired, Held

\* A grant takes the pen with a token newer than any before.
LEMMA GrantTakesPen ==
  ASSUME IInv, NEW a \in Actors, GrantedTo(a), paused' \in {paused, FALSE}
  PROVE  PenStep
<1>1. epoch \in Nat
  BY DEF IInv, TypeOK, LeaseIds
<1>2. PICK n \in 1 .. MaxTtl : lease' = [actor |-> a, epoch |-> epoch + 1, left |-> n]
  BY DEF GrantedTo
<1>3. lease' # NoLease /\ lease'.epoch = epoch + 1 /\ lease'.left > 0
  <2>1. lease' \in [actor : Actors, epoch : Nat, left : Nat]
    BY <1>1, <1>2
  <2>. QED
    BY <1>2, <2>1, ControlAssumption
<1>4. LiveId' = epoch + 1
  BY <1>3, ControlAssumption DEF LiveId, Live, Expired, GrantedTo
<1>5. NewestGrant'
  BY <1>1, <1>3 DEF IInv, NewestGrant, GrantedTo, TypeOK, LeaseIds
<1>. QED
  BY <1>4, <1>5 DEF PenStep, Pen!Next, Pen!Grant, GrantedTo

\* A lease that goes on, with less time left or with more.
LEMMA RunningPen ==
  ASSUME IInv, lease # NoLease, lease.left > 0, UNCHANGED <<epoch, paused, served>>,
         NEW n \in 0 .. MaxTtl, lease' = [lease EXCEPT !.left = n]
  PROVE  PenStep
<1>1. lease \in Leases
  BY DEF IInv, TypeOK
<1>2. lease' \in Leases /\ lease'.epoch = lease.epoch /\ lease'.left = n
  BY <1>1 DEF Leases
<1>3. lease' # NoLease
  BY <1>2, NoLeaseIsNoLease
<1>4. LiveId = lease.epoch /\ LiveId # 0
  BY <1>1 DEF LiveId, Live, Expired, Leases
<1>5. LiveId' = LiveId \/ LiveId' = 0
  BY <1>2, <1>3, <1>4 DEF LiveId, Live, Expired
<1>6. NewestGrant'
  BY <1>2, <1>3 DEF IInv, NewestGrant
<1>. QED
  BY <1>4, <1>5, <1>6 DEF PenStep, Pen!Next, Pen!Drop, Pen!vars

LEMMA StepIsPenStep == IInv /\ [Next]_vars => PenStep
<1> SUFFICES ASSUME IInv, [Next]_vars PROVE PenStep
  OBVIOUS
<1>0. Moves
  BY StepMoves DEF IInv
<1>1. CASE Stalled
  BY <1>1 DEF Stalled, PenStep, IInv, NewestGrant, Pen!vars, LiveId, Live, Expired
<1>2. CASE Reaps
  BY <1>2, HeldKeepsPen, ReapType DEF Reaps, PenStep, IInv, NewestGrant, Pen!vars
<1>3. CASE Renews
  <2>1. PICK n \in 1 .. MaxTtl : lease' = [lease EXCEPT !.left = n]
    BY <1>3 DEF Renews
  <2>2. lease # NoLease /\ lease.left > 0 /\ n \in 0 .. MaxTtl
    BY <1>3, ReapType DEF Renews, IInv
  <2>. QED
    BY <1>3, <2>1, <2>2, RunningPen DEF Renews
<1>4. CASE Drops
  <2>1. LiveId' = 0 /\ NewestGrant'
    BY <1>4 DEF Drops, LiveId, Live, IInv, NewestGrant
  <2>. QED
    BY <1>4, <2>1 DEF Drops, PenStep, Pen!Next, Pen!Drop, Pen!vars
<1>5. CASE Parks
  <2>1. LiveId' = 0 /\ NewestGrant'
    BY <1>5 DEF Parks, LiveId, Live, IInv, NewestGrant
  <2>. QED
    BY <1>5, <2>1 DEF Parks, PenStep, Pen!Next, Pen!Park
<1>6. CASE Resumes
  <2>1. LiveId' = LiveId /\ NewestGrant'
    BY <1>6 DEF Resumes, LiveId, Live, Expired, IInv, NewestGrant
  <2>. QED
    BY <1>6, <2>1 DEF Resumes, PenStep, Pen!Next, Pen!Unpark, Pen!vars, IInv, TypeOK
<1>7. CASE Serves
  <2>1. LiveId' = LiveId
    BY <1>7, HeldKeepsPen DEF Serves
  <2>2. LiveId <= epoch
    BY ControlAssumption DEF IInv, NewestGrant, LiveId, Live, TypeOK, LeaseIds
  <2>3. NewestGrant'
    BY <1>7, <2>2, ReapType DEF Serves, IInv, NewestGrant
  <2>. QED
    BY <1>7, <2>1, <2>3 DEF Serves, PenStep, Pen!Next, Pen!Serve
<1>8. CASE Tick
  <2>1. lease \in Leases /\ lease.left > 0 /\ lease' = [lease EXCEPT !.left = lease.left - 1]
    BY <1>8 DEF Tick, IInv, TypeOK
  <2>2. lease.left - 1 \in 0 .. MaxTtl
    BY <2>1, ControlAssumption DEF Leases
  <2>. QED
    BY <1>8, <2>1, <2>2, RunningPen DEF Tick
<1>9. ASSUME NEW a \in Actors, Takes(a) \/ \E h : Claims(a, h)
      PROVE  PenStep
  BY <1>9, GrantTakesPen DEF Takes, Claims
<1>. QED
  BY <1>0, <1>1, <1>2, <1>3, <1>4, <1>5, <1>6, <1>7, <1>8, <1>9 DEF Moves

\* The lease in control.json is always the newest grant: no interleaving of
\* operations, expiries and torn transactions brings a superseded lease back.
THEOREM AlwaysNewest == Spec => []NewestGrant
<1>1. Init => NewestGrant
  BY DEF Init, NewestGrant
<1>2. TypeOK /\ NewestGrant /\ [Next]_vars => NewestGrant'
  BY StepIsPenStep DEF IInv, PenStep
<1>. QED
  BY <1>1, <1>2, TypeCorrect, PTL DEF Spec

\* The control plane implements WritePen: one pen, ever newer tokens, writes
\* served only under the pen and never while parked.
THEOREM Implementation == Spec => ImplementsPen
<1>1. Init => Pen!Init
  BY DEF Init, Pen!Init, LiveId, Live
<1>2. TypeOK /\ NewestGrant /\ [Next]_vars => [Pen!Next]_(Pen!vars)
  BY StepIsPenStep DEF IInv, PenStep
<1>. QED
  BY <1>1, <1>2, TypeCorrect, AlwaysNewest, PTL DEF Spec, ImplementsPen, Pen!Spec

-----------------------------------------------------------------------------
(* Action properties *)

LEMMA RankType ==
  ASSUME NEW a \in Actors
  PROVE  Rank(a) \in 0 .. 2
BY ControlAssumption DEF Rank, Precedence, Kinds

\* No grant over a live lease goes to an actor of lower precedence, whichever
\* of acquire, takeover and claim_handoff grants it.
THEOREM SeizureByRank == Spec => SeizureRespectsRank
<1>1. ASSUME TypeOK, [Next]_vars, Seizure
      PROVE  Rank(lease'.actor) >= Rank(lease.actor)
  <2>1. /\ lease # NoLease /\ lease' # NoLease /\ lease'.epoch # lease.epoch
        /\ lease'.actor.id # lease.actor.id
        /\ Held = lease /\ lease.actor \in Actors /\ lease \in Leases
    BY <1>1 DEF Seizure, Regrant, Live, Held, TypeOK, Leases
  <2>2. Moves
    BY <1>1, StepMoves
  <2>3. ASSUME NEW a \in Actors, GrantedTo(a)
        PROVE  Rank(lease'.actor) >= Rank(lease.actor)
    <3>1. lease'.actor = a
      BY <2>3 DEF GrantedTo
    <3>2. (\E force \in BOOLEAN : MaySeize(a, force, lease.actor)) \/ ~(Rank(a) < Rank(lease.actor))
      BY <2>1, <2>3, <3>1 DEF GrantedTo, Wins
    <3>3. Rank(a) \in Int /\ Rank(lease.actor) \in Int
      BY <2>1, RankType
    <3>. QED
      BY <3>1, <3>2, <3>3 DEF MaySeize
  <2>4. CASE Stalled \/ Reaps \/ Drops \/ Parks \/ Resumes \/ Serves
    BY <2>1, <2>4 DEF Stalled, Reaps, Drops, Parks, Resumes, Serves
  <2>5. CASE Renews \/ Tick
    BY <2>1, <2>5 DEF Renews, Tick, Leases
  <2>. QED
    BY <2>2, <2>3, <2>4, <2>5 DEF Moves, Takes, Claims
<1>. QED
  BY <1>1, TypeCorrect, PTL DEF Spec, SeizureRespectsRank

\* What one step may do to a handoff already minted.
KeepsHandoffs ==
  \A h \in DOMAIN handoffs :
    /\ h \in DOMAIN handoffs'
    /\ handoffs[h] # Nobody => handoffs'[h] = handoffs[h]
    /\ handoffs'[h] # handoffs[h] =>
         epoch' = epoch + 1 /\ ~paused' /\ lease'.actor = handoffs'[h]

\* A handoff is claimed once, by whoever the claim grants the lease to.
THEOREM OneShotHandoffs == Spec => HandoffOneShot
<1>1. ASSUME TypeOK, [Next]_vars
      PROVE  KeepsHandoffs
  <2>1. Moves
    BY <1>1, StepMoves
  <2>2. CASE UNCHANGED handoffs
    BY <2>2 DEF KeepsHandoffs
  <2>3. CASE Parks
    <3>1. handoffs' = Append(handoffs, Nobody) /\ handoffs \in Seq(Actors \cup {Nobody})
      BY <1>1, <2>3 DEF Parks, TypeOK
    <3>2. \A h \in DOMAIN handoffs : h \in DOMAIN handoffs' /\ handoffs'[h] = handoffs[h]
      BY <3>1
    <3>. QED
      BY <3>2 DEF KeepsHandoffs
  <2>4. ASSUME NEW a \in Actors, NEW h, Claims(a, h)
        PROVE  KeepsHandoffs
    <3>1. /\ handoffs' = [handoffs EXCEPT ![h] = a] /\ handoffs[h] = Nobody
          /\ epoch' = epoch + 1 /\ ~paused' /\ lease'.actor = a
      BY <2>4 DEF Claims, GrantedTo, Open
    <3>. QED
      BY <3>1 DEF KeepsHandoffs
  <2>. QED
    BY <2>1, <2>2, <2>3, <2>4
       DEF Moves, Stalled, Reaps, Renews, Drops, Resumes, Serves, Tick, Takes
<1>. QED
  BY <1>1, TypeCorrect, PTL DEF Spec, HandoffOneShot, KeepsHandoffs

-----------------------------------------------------------------------------
(* The trail accounts for the lease and the pause *)

\* How far somebody has read who was spared one kind of mishap, or both.
Abreast ==
  reader # Unsure =>
    /\ reader.lost = 0 /\ reader.torn = 0 => reader.at = 0 /\ reader.view = View
    /\ reader.lost # 0 /\ reader.torn = 0 => reader.at < 0
    /\ reader.lost = 0 /\ reader.torn # 0 => reader.at > 0

LEMMA DoesAbreast ==
  ASSUME TypeOK, Abreast, NEW c, NEW entries, Does(c, entries)
  PROVE  Abreast'
<1> SUFFICES ASSUME reader' # Unsure PROVE Abreast'
  BY DEF Abreast
<1> DEFINE n == Len(entries)
<1>1. Piece(entries) /\ n \in Nat /\ DOMAIN entries = 1 .. n
  BY DEF Does, Tells, Piece
<1>2. PICK kept \in SUBSET DOMAIN entries :
        \/ /\ Replaced(c) /\ kept = DOMAIN entries
           /\ reader' = Followed(entries, kept, n, 0, 0)
        \/ /\ Replaced(c) /\ kept # DOMAIN entries /\ MoreMishaps
           /\ reader' = Followed(entries, kept, n, 1, 0)
        \/ /\ Replaced(Control) /\ kept # {} /\ MoreMishaps
           /\ reader' = Followed(entries, kept, 0, 0, 1)
  BY TransactSays DEF Does
<1> HIDE DEF n
<1>3. reader # Unsure
  BY <1>1, <1>2, FollowedIs
<1>4. reader.at \in Int /\ reader.lost \in Nat /\ reader.torn \in Nat
  BY <1>3, ControlAssumption DEF TypeOK
<1>5. CASE Replaced(c) /\ kept = DOMAIN entries /\ reader' = Followed(entries, kept, n, 0, 0)
  <2>1. PICK last \in Int :
          /\ kept = {} => last = reader.at
          /\ kept # {} => /\ reader.at + 1 \in 1 .. last /\ last <= Len(entries)
                          /\ kept = reader.at + 1 .. last
          /\ reader' = [view |-> Retold(reader.view, SubSeq(entries, reader.at + 1, last)),
                        at |-> last - n, lost |-> reader.lost + 0, torn |-> reader.torn + 0]
    <3>1. reader' = Followed(entries, kept, n, 0, 0)
      BY <1>5
    <3>. QED
      BY <1>1, <3>1, FollowedIs
  <2>2. /\ reader'.at = last - n /\ reader'.lost = reader.lost /\ reader'.torn = reader.torn
        /\ reader'.view = Retold(reader.view, SubSeq(entries, reader.at + 1, last))
    BY <1>4, <2>1
  <2>3. reader'.at = reader.at /\ (n # 0 => reader.at = 0 /\ last = n)
    <3>1. CASE n = 0
      <4>1. kept = {}
        BY <1>1, <1>5, <3>1
      <4>. QED
        BY <1>4, <2>1, <2>2, <3>1, <4>1
    <3>2. CASE n # 0
      <4>1. 1 \in kept /\ n \in kept
        BY <1>1, <1>5, <3>2
      <4>2. reader.at + 1 <= 1 /\ n <= last /\ reader.at + 1 >= 1 /\ last <= n
        BY <1>1, <1>4, <2>1, <4>1 DEF n
      <4>. QED
        BY <1>1, <1>4, <2>1, <2>2, <4>2
    <3>. QED
      BY <3>1, <3>2
  <2>4. ASSUME reader.lost = 0, reader.torn = 0
        PROVE  reader'.view = View'
    <3>1. reader.view = View /\ reader.at = 0
      BY <1>3, <2>4 DEF Abreast
    <3>2. last = n
      <4>1. n = 0 => kept = {}
        BY <1>1, <1>5
      <4>. QED
        BY <2>1, <2>3, <3>1, <4>1
    <3>3. SubSeq(entries, reader.at + 1, last) = entries
      <4>1. SubSeq(entries, 1, n) = entries
        BY <1>1 DEF Piece, n
      <4>2. reader.at + 1 = 1
        BY <3>1
      <4>. QED
        BY <3>2, <4>1, <4>2
    <3>4. reader'.view = Retold(View, entries)
      BY <2>2, <3>1, <3>3, Zenon
    <3>5. View' = ViewOf(c)
      BY <1>5 DEF Replaced, View, ViewOf
    <3>. QED
      BY <3>4, <3>5 DEF Does, Tells
  <2>. QED
    BY <1>3, <2>2, <2>3, <2>4 DEF Abreast
<1>6. CASE kept # DOMAIN entries /\ reader' = Followed(entries, kept, n, 1, 0)
  <2>1. PICK last \in Int :
          /\ kept = {} => last = reader.at
          /\ kept # {} => /\ reader.at + 1 \in 1 .. last /\ last <= Len(entries)
                          /\ kept = reader.at + 1 .. last
          /\ reader' = [view |-> Retold(reader.view, SubSeq(entries, reader.at + 1, last)),
                        at |-> last - n, lost |-> reader.lost + 1, torn |-> reader.torn + 0]
    BY <1>1, <1>6, FollowedIs
  <2>2. reader'.at = last - n /\ reader'.lost = reader.lost + 1 /\ reader'.torn = reader.torn
    BY <1>4, <2>1
  <2>3. ASSUME reader.torn = 0
        PROVE  last < n
    <3>1. reader.at <= 0
      BY <1>3, <1>4, <2>3 DEF Abreast
    <3>2. CASE kept = {}
      BY <1>1, <1>6, <2>1, <3>1, <3>2
    <3>3. CASE kept # {}
      <4>1. reader.at = 0 /\ kept = 1 .. last /\ last <= n
        BY <1>4, <2>1, <3>1, <3>3 DEF n
      <4>. QED
        BY <1>1, <1>6, <4>1
    <3>. QED
      BY <3>2, <3>3
  <2>. QED
    BY <1>1, <1>4, <2>1, <2>2, <2>3 DEF Abreast
<1>7. CASE kept # {} /\ reader' = Followed(entries, kept, 0, 0, 1)
  <2>1. PICK last \in Int :
          /\ kept # {} => /\ reader.at + 1 \in 1 .. last /\ last <= Len(entries)
                          /\ kept = reader.at + 1 .. last
          /\ reader' = [view |-> Retold(reader.view, SubSeq(entries, reader.at + 1, last)),
                        at |-> last - 0, lost |-> reader.lost + 0, torn |-> reader.torn + 1]
    BY <1>1, <1>7, FollowedIs
  <2>2. reader'.at > 0 /\ reader'.torn # 0
    BY <1>4, <1>7, <2>1
  <2>. QED
    BY <2>2 DEF Abreast
<1>. QED
  BY <1>2, <1>5, <1>6, <1>7

\* Whoever follows the trail, sees every number once up to audit_seq and was
\* spared one of the two kinds of mishap, knows the lease and the pause.
THEOREM TrailTells == Spec => []TrailAccounts
<1>1. Init => Abreast
  <2> SUFFICES ASSUME Init PROVE Abreast
    OBVIOUS
  <2>1. View = [lease |-> 0, actor |-> Nobody, paused |-> FALSE]
    BY DEF Init, View
  <2>. QED
    BY <2>1 DEF Init, Abreast, Fresh
<1>2. TypeOK /\ Abreast /\ [Next]_vars => Abreast'
  <2> SUFFICES ASSUME TypeOK, Abreast, [Next]_vars PROVE Abreast'
    OBVIOUS
  <2>1. CASE Tick
    <3>1. lease \in Leases /\ lease.left - 1 \in 0 .. MaxTtl /\ lease' = [lease EXCEPT !.left = @ - 1]
      BY <2>1, ControlAssumption DEF Tick, TypeOK, Leases
    <3>2. lease' \in Leases /\ lease'.epoch = lease.epoch /\ lease'.actor = lease.actor
      BY <3>1 DEF Leases
    <3>3. View' = View
      BY <2>1, <3>1, <3>2, NoLeaseIsNoLease DEF View, Tick
    <3>. QED
      BY <2>1, <3>3 DEF Tick, Abreast
  <2>2. CASE Reread
    <3>1. View' = View
      BY <2>2 DEF Reread, View
    <3>. QED
      BY <2>2, <3>1 DEF Reread, Abreast, Fresh
  <2>3. CASE UNCHANGED vars
    <3>1. View' = View
      BY <2>3 DEF vars, View
    <3>. QED
      BY <2>3, <3>1 DEF vars, Abreast
  <2>. QED
    BY <2>1, <2>2, <2>3, StepDone, DoesAbreast DEF Done
<1>3. TypeOK /\ Abreast => TrailAccounts
  <2> SUFFICES ASSUME TypeOK, Abreast, reader # Unsure, reader.at = 0,
                      0 \in {reader.lost, reader.torn}
               PROVE  reader.view = View
    BY DEF TrailAccounts
  <2>. QED
    BY DEF Abreast
<1>. QED
  BY <1>1, <1>2, <1>3, TypeCorrect, PTL DEF Spec

-----------------------------------------------------------------------------
(* FileLock, the lock under which the control file is read and written, for *)
(* any processes, times and bounds.                                         *)

LEMMA CountToType ==
  ASSUME NEW cap \in Nat, NEW n \in 0 .. cap
  PROVE  CountTo(n, cap) \in 0 .. cap /\ CountTo(n, cap) <= n + 1
BY DEF CountTo

THEOREM LockTypeCorrect == LockSpec => []LockTypeOK
<1> USE LockAssumption
<1>1. LockInit => LockTypeOK
  <2> SUFFICES ASSUME LockInit PROVE LockTypeOK
    OBVIOUS
  <2>1. age \in 0 .. StaleAfter + 1 /\ waited \in [Proc -> 0 .. Timeout]
        /\ ops \in [Proc -> 0 .. MaxOps]
    BY DEF LockInit
  <2>2. pc \in [Proc -> Steps] /\ acquired \in [Proc -> BOOLEAN]
    BY DEF LockInit, Steps
  <2>3. disk \in [Proc -> Nat] /\ copy \in [Proc -> [Proc -> Nat]]
    BY DEF LockInit
  <2>. QED
    BY <2>1, <2>2, <2>3 DEF LockInit, LockTypeOK
<1>2. LockTypeOK /\ [LockNext]_lockVars => LockTypeOK'
  <2> SUFFICES ASSUME LockTypeOK, [LockNext]_lockVars PROVE LockTypeOK'
    OBVIOUS
  <2>1. CASE LockTick
    <3>1. age' \in 0 .. StaleAfter + 1 /\ waited' \in [Proc -> 0 .. Timeout]
      BY <2>1, CountToType DEF LockTick, LockTypeOK
    <3>. QED
      BY <2>1, <3>1 DEF LockTick, LockTypeOK
  <2>2. ASSUME NEW p \in Proc, Step(p) \/ Failure(p) PROVE LockTypeOK'
    <3>1. CASE Begin(p)
      BY <3>1 DEF Begin, Goto, LockTypeOK, Steps
    <3>2. CASE Create(p)
      BY <3>2 DEF Create, Goto, LockTypeOK, Steps, Section
    <3>3. CASE Exists(p) \/ Vanished(p) \/ JudgeStale(p) \/ Retry(p) \/ Crash(p)
      BY <3>3 DEF Exists, Vanished, JudgeStale, Retry, Crash, Goto, LockTypeOK, Steps
    <3>4. CASE GiveUp(p) \/ CreateError(p)
      BY <3>4 DEF GiveUp, CreateError, EnterUnlocked, Goto, LockTypeOK, Steps, Section
    <3>5. CASE Break(p) \/ BreakError(p) \/ Exit(p) \/ ExitError(p)
      BY <3>5 DEF Break, BreakError, Exit, ExitError, Goto, LockTypeOK, Steps
    <3>6. CASE Read(p)
      BY <3>6 DEF Read, Goto, LockTypeOK, Steps, Section
    <3>7. CASE Write(p)
      BY <3>7 DEF Write, Goto, LockTypeOK, Steps, Section
    <3>. QED
      BY <2>2, <3>1, <3>2, <3>3, <3>4, <3>5, <3>6, <3>7 DEF Step, Failure
  <2>3. CASE UNCHANGED lockVars
    BY <2>3 DEF lockVars, LockTypeOK
  <2>. QED
    BY <2>1, <2>2, <2>3 DEF LockNext
<1>. QED
  BY <1>1, <1>2, PTL DEF LockSpec

-----------------------------------------------------------------------------
(* Mutual exclusion of the processes that hold the marker *)

\* The flag is reset by every call and set only with the marker.
Waiting(p) == pc[p] \in {"create", "stat", "unlink"}

\* While no marker was left behind, the one on disk is the holder's own and too
\* young to be judged stale, so nobody is ever about to unlink it.
LockInv ==
  /\ \A p \in Proc : Waiting(p) => ~acquired[p]
  /\ NoneLeft =>
       /\ \A p \in Proc : Holds(p) => owner = p
       /\ \A p \in Proc : pc[p] # "unlink"
       /\ owner # None => Holds(owner) /\ age <= MaxHold

LEMMA LockInvInductive == LockTypeOK /\ LockInv /\ [LockNext]_lockVars => LockInv'
<1> USE LockAssumption
<1> SUFFICES ASSUME LockTypeOK, LockInv, [LockNext]_lockVars PROVE LockInv'
  OBVIOUS
<1>1. CASE LockTick
  <2>1. (NoneLeft' <=> NoneLeft) /\ UNCHANGED <<owner, pc, acquired>>
    BY <1>1 DEF LockTick, NoneLeft
  <2>2. (owner # None /\ Holds(owner)) => age' <= MaxHold
    BY <1>1, CountToType DEF LockTick, Holds, LockTypeOK
  <2>. QED
    BY <2>1, <2>2 DEF LockInv, Holds, Waiting
<1>2. ASSUME NEW p \in Proc, Step(p) \/ Failure(p) PROVE LockInv'
  <2>1. CASE Begin(p)
    BY <1>2, <2>1 DEF Begin, Goto, LockInv, NoneLeft, Holds, Waiting, Section, LockTypeOK
  <2>2. CASE Create(p)
    BY <1>2, <2>2 DEF Create, Goto, LockInv, NoneLeft, Holds, Waiting, Section, LockTypeOK
  <2>3. CASE Exists(p) \/ Vanished(p) \/ Retry(p)
    BY <1>2, <2>3 DEF Exists, Vanished, Retry, Goto, LockInv, NoneLeft, Holds, Waiting, Section, LockTypeOK
  <2>4. CASE JudgeStale(p)
    BY <1>2, <2>4 DEF JudgeStale, IsStale, Goto, LockInv, NoneLeft, Holds, Waiting, Section, LockTypeOK
  <2>5. CASE GiveUp(p) \/ CreateError(p)
    <3>1. ~acquired[p]
      BY <1>2, <2>5 DEF LockInv, Waiting, GiveUp, CreateError
    <3>. QED
      BY <1>2, <2>5, <3>1
         DEF GiveUp, CreateError, EnterUnlocked, Goto, LockInv, NoneLeft, Holds, Waiting, Section, LockTypeOK
  <2>6. CASE Break(p) \/ BreakError(p)
    BY <1>2, <2>6 DEF Break, BreakError, Goto, LockInv, NoneLeft, Holds, Waiting, Section, LockTypeOK
  <2>7. CASE Read(p) \/ Write(p)
    BY <1>2, <2>7 DEF Read, Write, Goto, LockInv, NoneLeft, Holds, Waiting, Section, LockTypeOK
  <2>8. CASE Exit(p)
    BY <1>2, <2>8 DEF Exit, Goto, LockInv, NoneLeft, Holds, Waiting, Section, LockTypeOK
  <2>9. CASE Crash(p) \/ ExitError(p)
    BY <1>2, <2>9 DEF Crash, ExitError, Goto, LockInv, NoneLeft, Waiting, LockTypeOK
  <2>. QED
    BY <1>2, <2>1, <2>2, <2>3, <2>4, <2>5, <2>6, <2>7, <2>8, <2>9 DEF Step, Failure
<1>3. CASE UNCHANGED lockVars
  BY <1>3 DEF lockVars, LockInv, NoneLeft, Holds, Waiting
<1>. QED
  BY <1>1, <1>2, <1>3 DEF LockNext

LEMMA LockInvInit == LockInit => LockInv
BY LockAssumption DEF LockInit, LockInv, Waiting, Holds, Section

LEMMA LockInvAlways == LockSpec => []LockInv
BY LockInvInit, LockInvInductive, LockTypeCorrect, PTL DEF LockSpec

\* Until a marker is left behind, it excludes: no two processes that
\* acquired it are in the section together.
THEOREM MutualExclusion == LockSpec => []Exclusion
<1>1. LockInv => Exclusion
  BY DEF LockInv, Exclusion
<1>. QED
  BY <1>1, LockInvAlways, PTL

-----------------------------------------------------------------------------
(* Lost updates *)

\* As long as nobody went ahead unlocked, whoever is in the section holds the
\* marker, and what a process read is still what is on disk when it writes.
CopyInv ==
  NoneLeft /\ ~unlocked =>
    \A p \in Proc : /\ pc[p] \in Section => acquired[p]
                    /\ pc[p] = "write" => copy[p] = disk

LEMMA CopyInvInductive ==
  LockTypeOK /\ LockInv /\ CopyInv /\ [LockNext]_lockVars => CopyInv'
<1> SUFFICES ASSUME LockTypeOK, LockInv, CopyInv, [LockNext]_lockVars PROVE CopyInv'
  OBVIOUS
<1>1. CASE LockTick \/ UNCHANGED lockVars
  BY <1>1 DEF LockTick, lockVars, CopyInv, NoneLeft
<1>2. ASSUME NEW p \in Proc, Step(p) \/ Failure(p) PROVE CopyInv'
  <2>1. CASE Begin(p) \/ Exists(p) \/ Vanished(p) \/ JudgeStale(p) \/ Retry(p)
    BY <1>2, <2>1 DEF Begin, Exists, Vanished, JudgeStale, Retry, Goto, CopyInv, NoneLeft,
                      Section, LockTypeOK
  <2>2. CASE Create(p)
    BY <1>2, <2>2 DEF Create, Goto, CopyInv, NoneLeft, Section, LockTypeOK
  <2>3. CASE GiveUp(p) \/ CreateError(p)
    BY <2>3 DEF GiveUp, CreateError, EnterUnlocked, CopyInv
  <2>4. CASE Break(p) \/ BreakError(p) \/ Exit(p)
    BY <1>2, <2>4 DEF Break, BreakError, Exit, Goto, CopyInv, NoneLeft, Section, LockTypeOK
  <2>5. CASE Read(p)
    BY <1>2, <2>5 DEF Read, Goto, CopyInv, NoneLeft, Section, LockTypeOK
  <2>6. CASE Write(p)
    <3>1. SUFFICES ASSUME NoneLeft', ~unlocked',
                          NEW q \in Proc, q # p, pc[q] = "write"
                   PROVE  FALSE
      BY <1>2, <2>6 DEF Write, Goto, CopyInv, NoneLeft, Section, LockTypeOK
    <3>2. NoneLeft /\ ~unlocked
      BY <1>2, <2>6, <3>1 DEF Write, Goto, NoneLeft, LockTypeOK
    <3>3. Holds(p) /\ Holds(q)
      BY <1>2, <2>6, <3>1, <3>2 DEF CopyInv, Write, Holds, Section
    <3>. QED
      BY <1>2, <3>1, <3>2, <3>3 DEF LockInv
  <2>7. CASE Crash(p) \/ ExitError(p)
    BY <1>2, <2>7 DEF Crash, ExitError, Goto, CopyInv, NoneLeft, LockTypeOK
  <2>. QED
    BY <1>2, <2>1, <2>2, <2>3, <2>4, <2>5, <2>6, <2>7 DEF Step, Failure
<1>. QED
  BY <1>1, <1>2 DEF LockNext

\* No committed update is erased, as long as no marker was left behind and
\* nobody went ahead without one.
THEOREM NothingLost == LockSpec => NoLostUpdateWhenLocked
<1>1. LockInit => CopyInv
  BY DEF LockInit, CopyInv, Section
<1>2. LockTypeOK /\ LockInv /\ CopyInv /\ [LockNext]_lockVars
        => ((NoneLeft /\ ~unlocked)' => \A q \in Proc : disk'[q] >= disk[q])
  <2> SUFFICES ASSUME LockTypeOK, CopyInv, [LockNext]_lockVars, NoneLeft', ~unlocked', NEW q \in Proc
               PROVE  disk'[q] >= disk[q]
    OBVIOUS
  <2>1. disk[q] \in Nat
    BY DEF LockTypeOK
  <2>2. CASE UNCHANGED disk
    BY <2>1, <2>2
  <2>3. ASSUME NEW p \in Proc, Write(p) PROVE disk'[q] >= disk[q]
    <3>1. NoneLeft /\ ~unlocked
      BY <2>3 DEF Write, Goto, NoneLeft, LockTypeOK
    <3>2. disk' = [disk EXCEPT ![p] = @ + 1]
      BY <2>3, <3>1 DEF Write, CopyInv
    <3>. QED
      BY <2>1, <3>2 DEF LockTypeOK
  <2>. QED
    BY <2>2, <2>3
       DEF LockNext, Step, Begin, Create, Exists, Vanished, JudgeStale, Retry, GiveUp, Break,
           Failure, BreakError, ExitError, Read, Exit, Crash, CreateError, EnterUnlocked, LockTick, lockVars
<1>. QED
  BY <1>1, <1>2, CopyInvInductive, LockInvAlways, LockTypeCorrect, PTL
     DEF LockSpec, NoLostUpdateWhenLocked


=============================================================================
