-------------------------- MODULE AttentionProofs --------------------------
(***************************************************************************)
(* Proofs about Attention, for any processes, decisions, turns, queues and *)
(* missed locks: its types, that a transition is told of once, and that a  *)
(* notification that was cleared stays cleared.                            *)
(***************************************************************************)
EXTENDS Attention, FiniteSetTheorems, SequenceTheorems, TLAPS

-----------------------------------------------------------------------------
(* Sequences *)

\* Induction up to N, as the pigeonhole principle has it: no part of 1 .. N has
\* of each of its members the one before.
LEMMA Climb ==
  ASSUME NEW N \in Nat, NEW B \in SUBSET (1 .. N), \A n \in B : n - 1 \in B
  PROVE  B = {}
<1> SUFFICES ASSUME NEW n \in B PROVE FALSE
  OBVIOUS
<1> DEFINE C == {i \in B : i <= n}
           D == C \ {n}
           f == [i \in C |-> i - 1]
<1>1. \A i \in B : i \in 1 .. N
  OBVIOUS
<1>2. C \in SUBSET (1 .. N) /\ n \in C
  <2>1. n <= n
    BY <1>1
  <2>2. n \in C
    BY <2>1
  <2>3. \A i \in C : i \in 1 .. N
    BY <1>1
  <2> HIDE DEF C
  <2> QED BY <2>2, <2>3
<1>3. ASSUME NEW i \in C PROVE i - 1 \in D
  <2>1. i \in B /\ i \in 1 .. N /\ i <= n
    BY <1>1
  <2>2. i - 1 \in B
    BY <2>1
  <2>3. i - 1 <= n /\ i - 1 # n
    BY <1>1, <2>1
  <2> QED BY <2>2, <2>3
<1>4. f \in [C -> D] /\ \A x, y \in C : x # y => f[x] # f[y]
  <2>1. f \in [C -> D]
    <3> HIDE DEF C, D
    <3> QED BY <1>3
  <2>2. \A x, y \in C : x # y => f[x] # f[y]
    BY <1>1
  <2> QED BY <2>1, <2>2
<1> HIDE DEF C, D, f
<1>5. IsFiniteSet(1 .. N)
  BY FS_Interval
<1>6. IsFiniteSet(C)
  BY <1>2, <1>5, FS_Subset
<1>7. IsFiniteSet(D) /\ Cardinality(D) = Cardinality(C) - 1
  BY <1>2, <1>6, FS_RemoveElement DEF D
<1>8. Cardinality(C) \in Nat
  BY <1>6, FS_CardinalityType
<1>9. Cardinality(D) < Cardinality(C)
  BY <1>7, <1>8
<1> QED BY <1>4, <1>6, <1>7, <1>9, FS_PigeonHole

\* Sequences of at most one element, put together.
LEMMA Flattened ==
  ASSUME NEW S, NEW s \in Seq(Seq(S)), \A i \in 1 .. Len(s) : Len(s[i]) <= 1
  PROVE  FlattenSeq(s) \in Seq(S) /\ Len(FlattenSeq(s)) <= Len(s)
<1> DEFINE G(g, n) == [i \in 1 .. n |-> IF i = 1 THEN s[i] ELSE g[i-1] \o s[i]]
           Bad == {n \in 1 .. Len(s) : ~ \E g \in [1 .. n -> Seq(S)] : g = G(g, n)}
<1>1. Bad = {}
  <2> SUFFICES ASSUME NEW n \in Bad PROVE n - 1 \in Bad
    <3>1. Len(s) \in Nat
      OBVIOUS
    <3>2. Bad \in SUBSET (1 .. Len(s))
      OBVIOUS
    <3> HIDE DEF Bad
    <3> QED BY <3>1, <3>2, Climb
  <2>1. n - 1 \in 1 .. Len(s) \/ n = 1
    OBVIOUS
  <2> SUFFICES ASSUME n - 1 \notin Bad PROVE FALSE
    OBVIOUS
  <2>3. n \in 1 .. Len(s) /\ s[n] \in Seq(S)
    OBVIOUS
  <2>4. CASE n = 1
    <3> DEFINE g == [i \in 1 .. n |-> s[n]]
    <3>1. g \in [1 .. n -> Seq(S)] /\ g = G(g, n)
      BY <2>3, <2>4
    <3> QED BY <3>1
  <2>5. CASE n # 1
    <3>1. n - 1 \in 1 .. Len(s) /\ n - 1 \notin Bad
      BY <2>1, <2>3, <2>5
    <3>2. PICK h \in [1 .. (n - 1) -> Seq(S)] : h = G(h, n - 1)
      BY <3>1
    <3>3. h[n - 1] \o s[n] \in Seq(S)
      <4>1. n - 1 \in 1 .. (n - 1)
        BY <3>1
      <4>2. h[n - 1] \in Seq(S)
        BY <3>2, <4>1
      <4> QED BY <4>2, <2>3, SMTT(30)
    <3> DEFINE g == [i \in 1 .. n |-> IF i = n THEN h[n - 1] \o s[n] ELSE h[i]]
    <3>4. g \in [1 .. n -> Seq(S)]
      <4>1. \A i \in 1 .. n : i # n => i \in 1 .. (n - 1)
        BY <2>3
      <4>2. \A i \in 1 .. n : i # n => h[i] \in Seq(S)
        BY <4>1, <3>2
      <4> QED BY <4>2, <3>3
    <3>5. ASSUME NEW i \in 1 .. n
          PROVE  g[i] = IF i = 1 THEN s[i] ELSE g[i - 1] \o s[i]
      <4>1. CASE i = n
        <5>1. g[i] = h[n - 1] \o s[n] BY <4>1
        <5>2. i - 1 \in 1 .. n /\ i - 1 # n BY <4>1, <2>5, <2>3
        <5>3. g[i - 1] = h[n - 1] BY <5>2, <4>1
        <5> QED BY <5>1, <5>3, <4>1, <2>5
      <4>2. CASE i # n
        <5>1. g[i] = h[i] /\ i \in 1 .. (n - 1) BY <4>2, <2>3
        <5>2. h[i] = IF i = 1 THEN s[i] ELSE h[i - 1] \o s[i] BY <5>1, <3>2
        <5>3. CASE i = 1 BY <5>1, <5>2, <5>3
        <5>4. CASE i # 1
          <6>1. i - 1 \in 1 .. n /\ i - 1 # n BY <5>4, <4>2, <2>3
          <6>2. g[i - 1] = h[i - 1] BY <6>1
          <6> QED BY <5>1, <5>2, <6>2, <5>4
        <5> QED BY <5>3, <5>4
      <4> QED BY <4>1, <4>2
    <3>6. g = G(g, n)
      BY <3>4, <3>5
    <3> QED BY <3>4, <3>6
  <2> QED BY <2>4, <2>5
<1>2. CASE Len(s) = 0
  <2>1. FlattenSeq(s) = << >>
    BY <1>2 DEF FlattenSeq
  <2> QED BY <2>1
<1>3. CASE Len(s) # 0
  <2> DEFINE f == CHOOSE g : g = G(g, Len(s))
  <2>1. Len(s) \in 1 .. Len(s)
    BY <1>3
  <2>2. \E g : g = G(g, Len(s))
    BY <1>1, <2>1
  <2>3. f = G(f, Len(s))
    BY <2>2
  <2> DEFINE Untyped == {n \in 1 .. Len(s) : ~(f[n] \in Seq(S) /\ Len(f[n]) <= n)}
  <2> HIDE DEF f
  <2>4. Untyped = {}
    <3>1. ASSUME NEW n \in Untyped PROVE n - 1 \in Untyped
      <4>1. n \in 1 .. Len(s) /\ s[n] \in Seq(S) /\ Len(s[n]) <= 1
        OBVIOUS
      <4>2. f[n] = IF n = 1 THEN s[n] ELSE f[n - 1] \o s[n]
        BY <2>3, <4>1
      <4>3. ~(f[n] \in Seq(S) /\ Len(f[n]) <= n)
        OBVIOUS
      <4>4. n # 1 /\ n - 1 \in 1 .. Len(s)
        BY <4>1, <4>2, <4>3
      <4>5. ASSUME f[n - 1] \in Seq(S), Len(f[n - 1]) <= n - 1 PROVE FALSE
        <5>1. /\ f[n - 1] \o s[n] \in Seq(S)
              /\ Len(f[n - 1] \o s[n]) = Len(f[n - 1]) + Len(s[n])
          BY <4>1, <4>5, ConcatProperties
        <5>2. Len(f[n - 1]) \in Nat /\ Len(s[n]) \in Nat
          BY <4>1, <4>5, LenProperties
        <5>3. f[n] = f[n - 1] \o s[n]
          BY <4>2, <4>4
        <5>4. f[n] \in Seq(S) /\ Len(f[n]) = Len(f[n - 1]) + Len(s[n])
          BY <5>1, <5>3, Zenon
        <5>5. Len(f[n - 1]) + Len(s[n]) <= n
          <6>1. \A a, b \in Nat, k \in Int : a <= k - 1 /\ b <= 1 => a + b <= k
            OBVIOUS
          <6>2. n \in Int
            BY <4>1
          <6> QED BY <4>1, <4>5, <5>2, <6>1, <6>2, Zenon
        <5> QED BY <4>3, <5>4, <5>5
      <4> QED BY <4>4, <4>5
    <3>2. Len(s) \in Nat /\ Untyped \in SUBSET (1 .. Len(s))
      OBVIOUS
    <3> HIDE DEF Untyped
    <3> QED BY <3>1, <3>2, Climb
  <2>5. FlattenSeq(s) = f[Len(s)]
    BY <1>3 DEF FlattenSeq, f
  <2> QED BY <2>1, <2>4, <2>5
<1> QED BY <1>2, <1>3

\* What is left of a lane without an event.
LEMMA WithoutIs ==
  ASSUME NEW S, NEW s \in Seq(S), NEW e
  PROVE  /\ Without(s, e) \in Seq(S) /\ Len(Without(s, e)) <= Len(s)
         /\ Range(Without(s, e)) \subseteq S \ {e}
<1>. DEFINE t == [i \in DOMAIN s |-> IF s[i] = e THEN << >> ELSE <<s[i]>>]
<1>1. Len(s) \in Nat /\ DOMAIN s = 1 .. Len(s) /\ \A i \in 1 .. Len(s) : s[i] \in S
  BY LenProperties, ElementOfSeq
<1>2. \A i \in 1 .. Len(s) : t[i] \in Seq(S \ {e}) /\ Len(t[i]) <= 1
  <2>. TAKE i \in 1 .. Len(s)
  <2>1. CASE s[i] = e
    BY <1>1, <2>1
  <2>2. CASE s[i] # e
    <3>1. s[i] \in S \ {e}
      BY <1>1, <2>2
    <3>2. <<s[i]>> \in Seq(S \ {e}) /\ Len(<<s[i]>>) = 1
      BY <3>1
    <3>. QED
      BY <1>1, <2>2, <3>2
  <2>. QED
    BY <2>1, <2>2
<1>3. t \in Seq(Seq(S \ {e})) /\ Len(t) = Len(s)
  BY <1>1, <1>2
<1>4. /\ FlattenSeq(t) \in Seq(S \ {e}) /\ Len(FlattenSeq(t)) <= Len(t)
  <2>. HIDE DEF t
  <2>. QED
    BY <1>2, <1>3, Flattened
<1>5. \A u \in Seq(S \ {e}) : u \in Seq(S) /\ Range(u) \subseteq S \ {e}
  <2>. TAKE u \in Seq(S \ {e})
  <2>1. u \in Seq(S)
    BY SeqMonotonic
  <2>2. DOMAIN u = 1 .. Len(u) /\ \A i \in 1 .. Len(u) : u[i] \in S \ {e}
    BY LenProperties, ElementOfSeq
  <2>. QED
    BY <2>1, <2>2 DEF Range
<1>. QED
  BY <1>3, <1>4, <1>5 DEF Without

\* A lane that grows by what is not in it, and one that loses its first.
LEMMA LaneGrows ==
  ASSUME NEW S, NEW s \in Seq(S), NEW e \in S
  PROVE  /\ Append(s, e) \in Seq(S) /\ Len(Append(s, e)) = Len(s) + 1
         /\ Range(Append(s, e)) = Range(s) \cup {e}
         /\ IsInjective(s) /\ e \notin Range(s) => IsInjective(Append(s, e))
<1>1. Len(s) \in Nat /\ DOMAIN s = 1 .. Len(s)
  BY LenProperties
<1>. PICK t : t = Append(s, e)
  OBVIOUS
<1>2. /\ t \in Seq(S) /\ Len(t) = Len(s) + 1
      /\ \A i \in 1 .. Len(s) : t[i] = s[i]
      /\ t[Len(s) + 1] = e
  BY <1>1
<1>3. DOMAIN t = 1 .. Len(s) + 1
  BY <1>2, LenProperties
<1>4. \A i \in 1 .. Len(s) + 1 : i \in 1 .. Len(s) \/ i = Len(s) + 1
  BY <1>1
<1>5. Range(t) = Range(s) \cup {e}
  <2>1. \A i \in 1 .. Len(s) : i \in 1 .. Len(s) + 1
    BY <1>1
  <2>2. Len(s) + 1 \in 1 .. Len(s) + 1
    BY <1>1
  <2>. QED
    BY <1>1, <1>2, <1>3, <1>4, <2>1, <2>2 DEF Range
<1>6. IsInjective(s) /\ e \notin Range(s) => IsInjective(t)
  BY <1>1, <1>2, <1>3, <1>4 DEF IsInjective, Range
<1>. QED
  BY <1>2, <1>5, <1>6

LEMMA LaneMoves ==
  ASSUME NEW S, NEW s \in Seq(S), s # << >>
  PROVE  /\ Tail(s) \in Seq(S) /\ Len(Tail(s)) <= Len(s)
         /\ Head(s) \in Range(s) /\ Head(s) \in S /\ Range(Tail(s)) \subseteq Range(s)
         /\ IsInjective(s) => IsInjective(Tail(s))
<1>1. Len(s) \in Nat \ {0} /\ DOMAIN s = 1 .. Len(s)
  BY LenProperties, EmptySeq
<1>. PICK t : t = Tail(s)
  OBVIOUS
<1>2. /\ t \in Seq(S) /\ Len(t) = Len(s) - 1 /\ Head(s) \in S
      /\ \A i \in 1 .. Len(t) : t[i] = s[i + 1]
  BY HeadTailProperties
<1>3. DOMAIN t = 1 .. Len(t)
  BY <1>2, LenProperties
<1>4. \A i \in 1 .. Len(t) : i + 1 \in 1 .. Len(s)
  BY <1>1, <1>2
<1>5. Range(t) \subseteq Range(s)
  BY <1>1, <1>2, <1>3, <1>4 DEF Range
<1>6. Head(s) \in Range(s)
  <2>1. Head(s) = s[1] /\ 1 \in 1 .. Len(s)
    BY <1>1
  <2>. QED
    BY <1>1, <2>1 DEF Range
<1>7. ASSUME IsInjective(s), NEW i \in DOMAIN t, NEW j \in DOMAIN t, t[i] = t[j]
      PROVE  i = j
  <2>1. i + 1 = j + 1
    BY <1>1, <1>2, <1>3, <1>4, <1>7 DEF IsInjective
  <2>2. i \in Int /\ j \in Int
    BY <1>3
  <2>. QED
    BY <2>1, <2>2
<1>. QED
  BY <1>1, <1>2, <1>5, <1>6, <1>7 DEF IsInjective

-----------------------------------------------------------------------------
(* What the proofs need to know: invariants, which TLC has checked *)

\* The process p is about to tell the user of e, or has.
Tells(p, e) == telling[p] = e \/ rang[p][e] > 0

\* Whoever knows of an event knows it from somebody who tells or was killed.
Known ==
  \A e \in Events :
    \/ e \in cut \/ \E p \in Procs : Tells(p, e)
    \/ store.row[e] = "none" /\ \A p \in Procs : center[p].row[e] = "none" /\ e \notin noted[p]

\* As long as no lock was missed: what somebody tells of is in the file, and he
\* is the only one to tell, once.
Single ==
  misses = 0 => \A e \in Events, p \in Procs : Tells(p, e) =>
    /\ store.row[e] # "none"
    /\ rang[p][e] = (IF telling[p] = e THEN 0 ELSE 1)
    /\ \A q \in Procs : Tells(q, e) => p = q

\* What waits to be published has not been cleared, what waits to be cleared or
\* was cleared is remembered; a process that has ended publishes nothing.
Lanes ==
  \A p \in Procs : up[p] # "gone" =>
    /\ Range(push[p].pending) \cap push[p].cleared = {}
    /\ Range(push[p].clears) \cup sent[p] \subseteq push[p].cleared

Inv == Known /\ Single /\ Lanes

-----------------------------------------------------------------------------
(* Types *)

LEMMA StoreTypes ==
  ASSUME NEW s \in Stores, NEW e \in Events
  PROVE  /\ Recorded(s, e) \in Stores /\ Acknowledged(s) \in Stores
         /\ Ackable(s) \in Events \cup {NoEvent}
         /\ \A f \in Events : Acknowledged(s).row[f] = "none" <=> s.row[f] = "none"
<1>1. Recorded(s, e) \in Stores
  BY DEF Stores, Recorded
<1>2. Ackable(s) \in Events \cup {NoEvent} /\ Acknowledged(s) \in Stores
  BY DEF Stores, Ackable, Acknowledged
<1>3. ASSUME NEW f \in Events
      PROVE  Acknowledged(s).row[f] = "none" <=> s.row[f] = "none"
  BY StoreAssumption DEF Stores, Acknowledged, Ackable
<1>. QED
  BY <1>1, <1>2, <1>3

\* A recorded event has a row, and no other has one that had none.
LEMMA RecordedIs ==
  \A s \in Stores, e, f \in Events :
    /\ s.row[f] # "none" => Recorded(s, e).row[f] # "none"
    /\ Recorded(s, e).row[f] # "none" => f = e \/ s.row[f] # "none"
    /\ Recorded(s, e).row[e] # "none"
BY DEF Stores, Recorded, IsNew

\* A lane of deliveries that takes one more.
LEMMA EnqueueIs ==
  ASSUME NEW q \in Pushes, NEW m \in Deliveries,
         Len(q.pending) <= QueueLimit, IsInjective(q.clears),
         NEW n, n = Enqueue(q, m)
  PROVE  /\ n \in Pushes /\ Len(n.pending) <= QueueLimit /\ IsInjective(n.clears)
         /\ n.inflight = q.inflight /\ q.cleared \subseteq n.cleared
         /\ Range(q.pending) \cap q.cleared = {} => Range(n.pending) \cap n.cleared = {}
         /\ Range(q.clears) \subseteq q.cleared => Range(n.clears) \subseteq n.cleared
<1>1. m.event \in Events /\ m.op \in {"publish", "clear"} /\ QueueLimit \in Nat
  BY AttentionAssumption DEF Deliveries
<1>2. /\ q.pending \in Seq(Events) /\ q.clears \in Seq(Events) /\ q.cleared \subseteq Events
      /\ q.inflight \in Deliveries \cup {Idle} /\ q.closed \in BOOLEAN
      /\ Len(q.pending) \in Nat
  BY LenProperties DEF Pushes
<1>3. CASE q.closed
  <2>1. n = q
    BY <1>3 DEF Enqueue
  <2>. QED
    BY <2>1
<1>4. CASE ~q.closed /\ m.op = "clear"
  <2>. PICK w : w = Without(q.pending, m.event)
    OBVIOUS
  <2>. PICK c : c = IF Queued(q.clears, m.event) THEN q.clears ELSE Append(q.clears, m.event)
    OBVIOUS
  <2>1. /\ w \in Seq(Events) /\ Len(w) <= QueueLimit /\ Range(w) \subseteq Events \ {m.event}
    <3>1. w \in Seq(Events) /\ Len(w) <= Len(q.pending) /\ Range(w) \subseteq Events \ {m.event}
      BY <1>2, WithoutIs
    <3>2. Len(w) \in Nat
      BY <3>1, LenProperties
    <3>. QED
      BY <1>1, <1>2, <3>1, <3>2
  <2>2. Range(w) \subseteq Range(q.pending)
    <3>1. q.pending \in Seq(Range(q.pending))
      <4>1. Len(q.pending) \in Nat /\ DOMAIN q.pending = 1 .. Len(q.pending)
        BY <1>2, LenProperties
      <4>2. \A i \in 1 .. Len(q.pending) : q.pending[i] \in Range(q.pending)
        BY <4>1 DEF Range
      <4>3. q.pending = [i \in 1 .. Len(q.pending) |-> q.pending[i]]
        BY <1>2, <4>1
      <4>. QED
        BY <4>1, <4>2, <4>3
    <3>. QED
      BY <3>1, WithoutIs
  <2>3. /\ c \in Seq(Events) /\ IsInjective(c) /\ Range(c) = Range(q.clears) \cup {m.event}
    BY <1>1, <1>2, LaneGrows DEF Queued
  <2>4. n = [q EXCEPT !.cleared = @ \cup {m.event}, !.pending = w, !.clears = c]
    BY <1>4 DEF Enqueue
  <2>5. /\ n.pending = w /\ n.clears = c /\ n.cleared = q.cleared \cup {m.event}
        /\ n.inflight = q.inflight /\ n.closed = q.closed
    BY <1>2, <2>4 DEF Pushes
  <2>6. n \in Pushes
    <3>1. q.cleared \cup {m.event} \in SUBSET Events
      BY <1>1, <1>2
    <3>2. w \in Seq(Events) /\ c \in Seq(Events)
      BY <2>1, <2>3
    <3>3. n = [pending |-> w, clears |-> c, cleared |-> q.cleared \cup {m.event},
               inflight |-> q.inflight, closed |-> q.closed]
      BY <2>4 DEF Pushes
    <3>. QED
      BY <1>2, <3>1, <3>2, <3>3 DEF Pushes
  <2>. QED
    BY <2>1, <2>2, <2>3, <2>5, <2>6
<1>5. CASE ~q.closed /\ m.op # "clear" /\ (m.event \in q.cleared \/ Len(q.pending) >= QueueLimit)
  <2>1. n = q
    BY <1>5 DEF Enqueue
  <2>. QED
    BY <2>1
<1>6. CASE ~q.closed /\ m.op # "clear" /\ m.event \notin q.cleared /\ ~(Len(q.pending) >= QueueLimit)
  <2>. PICK w : w = Append(q.pending, m.event)
    OBVIOUS
  <2>1. w \in Seq(Events) /\ Len(w) = Len(q.pending) + 1 /\ Range(w) = Range(q.pending) \cup {m.event}
    BY <1>1, <1>2, LaneGrows
  <2>2. Len(w) <= QueueLimit
    BY <1>1, <1>2, <1>6, <2>1
  <2>3. n = [q EXCEPT !.pending = w]
    BY <1>6 DEF Enqueue
  <2>4. /\ n.pending = w /\ n.clears = q.clears /\ n.cleared = q.cleared
        /\ n.inflight = q.inflight /\ n.closed = q.closed /\ n \in Pushes
    BY <1>2, <2>1, <2>3 DEF Pushes
  <2>. QED
    BY <1>6, <2>1, <2>2, <2>4
<1>. QED
  BY <1>3, <1>4, <1>5, <1>6

-----------------------------------------------------------------------------
LEMMA TypeInit ==
  Init => TypeOK
<1>. SUFFICES ASSUME Init PROVE TypeOK
  OBVIOUS
<1>1. Empty \in Stores
  BY DEF Empty, Stores
<1>2. << >> \in Seq(Events) /\ IsInjective(<< >>) /\ Len(<< >>) = 0
  BY DEF IsInjective
<1>3. NoPush \in Pushes
  BY <1>2 DEF NoPush, Pushes
<1>4. \A p \in Procs : push[p] = NoPush
  BY DEF Init
<1>5. \A p \in Procs : Len(push[p].pending) <= QueueLimit /\ IsInjective(push[p].clears)
  BY <1>2, <1>4, AttentionAssumption DEF NoPush
<1>. QED
  BY <1>1, <1>3, <1>5, AttentionAssumption, StoreAssumption DEF Init, TypeOK

\* A transaction keeps the file and the copy well-formed, and uses a miss or none.
LEMMA TransactIs ==
  ASSUME TypeOK, NEW p \in Procs, NEW f \in Stores, NEW g \in Stores, Transact(p, f, g)
  PROVE  /\ store' \in Stores /\ center' \in [Procs -> Stores] /\ misses' \in 0 .. MaxMisses
         /\ \A q \in Procs \ {p} : center'[q] = center[q]
         /\ \/ misses' = misses /\ store' = f /\ center'[p] = f
            \/ misses' # misses /\ misses' # 0 /\ store' = store /\ center'[p] = g
<1>1. center \in [Procs -> Stores] /\ store \in Stores /\ misses \in 0 .. MaxMisses /\ MaxMisses \in Nat
  BY AttentionAssumption DEF TypeOK
<1>2. CASE store' = f /\ center' = [center EXCEPT ![p] = f] /\ misses' = misses
  BY <1>1, <1>2
<1>3. CASE misses < MaxMisses /\ misses' = misses + 1 /\ center' = [center EXCEPT ![p] = g] /\ store' = store
  BY <1>1, <1>3
<1>. QED
  BY <1>2, <1>3 DEF Transact

\* note, as far as the file, the copies and who tells go.
LEMMA NoteIs ==
  ASSUME TypeOK, NEW p \in Procs, NEW e \in Events, Note(p, e)
  PROVE  /\ store' \in Stores /\ center' \in [Procs -> Stores] /\ misses' \in 0 .. MaxMisses
         /\ telling' \in [Procs -> Events \cup {NoEvent}] /\ noted' \in [Procs -> SUBSET Events]
         /\ \A q \in Procs \ {p} : center'[q] = center[q] /\ telling'[q] = telling[q] /\ noted'[q] = noted[q]
         /\ noted'[p] = noted[p] \cup {e}
         /\ \/ /\ misses' = misses /\ store' = Recorded(store, e) /\ center'[p] = store'
               /\ telling'[p] = IF IsNew(store, e) THEN e ELSE NoEvent
            \/ /\ misses' # misses /\ misses' # 0 /\ store' = store /\ center'[p] = Recorded(center[p], e)
               /\ telling'[p] = IF IsNew(center[p], e) THEN e ELSE NoEvent
<1>1. /\ center \in [Procs -> Stores] /\ store \in Stores /\ center[p] \in Stores
      /\ telling \in [Procs -> Events \cup {NoEvent}] /\ noted \in [Procs -> SUBSET Events]
  BY DEF TypeOK
<1>2. Recorded(store, e) \in Stores /\ Recorded(center[p], e) \in Stores
  BY <1>1, StoreTypes
<1>3. Transact(p, Recorded(store, e), Recorded(center[p], e))
  BY DEF Note
<1>4. /\ store' \in Stores /\ center' \in [Procs -> Stores] /\ misses' \in 0 .. MaxMisses
      /\ \A q \in Procs \ {p} : center'[q] = center[q]
      /\ \/ misses' = misses /\ store' = Recorded(store, e) /\ center'[p] = Recorded(store, e)
         \/ misses' # misses /\ misses' # 0 /\ store' = store /\ center'[p] = Recorded(center[p], e)
  BY <1>2, <1>3, TransactIs
<1>. PICK x : x = IF misses' = misses THEN store ELSE center[p]
  OBVIOUS
<1>5. /\ telling' = [telling EXCEPT ![p] = IF IsNew(x, e) THEN e ELSE NoEvent]
      /\ noted' = [noted EXCEPT ![p] = @ \cup {e}]
  BY DEF Note
<1>6. /\ telling' \in [Procs -> Events \cup {NoEvent}] /\ telling'[p] = IF IsNew(x, e) THEN e ELSE NoEvent
      /\ \A q \in Procs \ {p} : telling'[q] = telling[q]
  BY <1>1, <1>5
<1>7. /\ noted' \in [Procs -> SUBSET Events] /\ noted'[p] = noted[p] \cup {e}
      /\ \A q \in Procs \ {p} : noted'[q] = noted[q]
  BY <1>1, <1>5
<1>. QED
  BY <1>4, <1>6, <1>7

\* The destination's part of the types, one process at a time.
LEMMA PushTyped ==
  ASSUME TypeOK, NEW p \in Procs, NEW n \in Pushes, push' = [push EXCEPT ![p] = n],
         Len(n.pending) <= QueueLimit, IsInjective(n.clears)
  PROVE  /\ push' \in [Procs -> Pushes] /\ push'[p] = n
         /\ \A q \in Procs \ {p} : push'[q] = push[q]
         /\ \A q \in Procs : Len(push'[q].pending) <= QueueLimit /\ IsInjective(push'[q].clears)
<1>1. push \in [Procs -> Pushes]
  BY DEF TypeOK
<1>2. push' \in [Procs -> Pushes] /\ push'[p] = n /\ \A q \in Procs \ {p} : push'[q] = push[q]
  BY <1>1
<1>3. \A q \in Procs \ {p} : Len(push[q].pending) <= QueueLimit /\ IsInjective(push[q].clears)
  BY DEF TypeOK
<1>. QED
  BY <1>2, <1>3

\* What Emit, Send, Land and Close make of a destination.
LEMMA EmitIs ==
  ASSUME TypeOK, NEW p \in Procs, NEW m \in Deliveries, Emit(p, m)
  PROVE  \E n \in Pushes :
         /\ push' = [push EXCEPT ![p] = n] /\ n = Enqueue(push[p], m)
         /\ Len(n.pending) <= QueueLimit /\ IsInjective(n.clears) /\ n.inflight = push[p].inflight
         /\ push[p].cleared \subseteq n.cleared
         /\ Range(push[p].pending) \cap push[p].cleared = {} => Range(n.pending) \cap n.cleared = {}
         /\ Range(push[p].clears) \subseteq push[p].cleared => Range(n.clears) \subseteq n.cleared
<1>1. push \in [Procs -> Pushes] /\ push[p] \in Pushes
  BY DEF TypeOK
<1>2. Len(push[p].pending) <= QueueLimit /\ IsInjective(push[p].clears)
  BY DEF TypeOK
<1>. PICK n : n = Enqueue(push[p], m)
  OBVIOUS
<1>3. push' = [push EXCEPT ![p] = n]
  BY DEF Emit
<1>. QED
  BY <1>1, <1>2, <1>3, EnqueueIs

LEMMA SendIs ==
  ASSUME TypeOK, NEW p \in Procs, Send(p)
  PROVE  \E n \in Pushes :
         /\ push' = [push EXCEPT ![p] = n]
         /\ Len(n.pending) <= QueueLimit /\ IsInjective(n.clears)
         /\ n.cleared = push[p].cleared /\ push[p].inflight = Idle
         /\ Range(n.pending) \subseteq Range(push[p].pending) /\ Range(n.clears) \subseteq Range(push[p].clears)
         /\ \/ /\ n.inflight.op = "clear" /\ n.inflight.event \in Range(push[p].clears)
               /\ sent' = [sent EXCEPT ![p] = @ \cup {n.inflight.event}]
            \/ n.inflight.op = "publish" /\ n.inflight.event \in Range(push[p].pending) /\ sent' = sent
         /\ n.inflight.event \in Events
<1>. PICK q : q = push[p]
  OBVIOUS
<1>1. push \in [Procs -> Pushes] /\ q \in Pushes /\ Len(q.pending) <= QueueLimit /\ IsInjective(q.clears)
  BY DEF TypeOK
<1>2. /\ q.pending \in Seq(Events) /\ q.clears \in Seq(Events) /\ q.cleared \in SUBSET Events
      /\ q.closed \in BOOLEAN
  BY <1>1 DEF Pushes
<1>3. q.inflight = Idle
  BY DEF Send
<1>4. CASE /\ q.clears # << >>
           /\ push' = [push EXCEPT ![p].clears = Tail(@),
                                   ![p].inflight = [op |-> "clear", event |-> Head(push[p].clears)]]
           /\ sent' = [sent EXCEPT ![p] = @ \cup {Head(push[p].clears)}]
  <2>. PICK t : t = Tail(q.clears)
    OBVIOUS
  <2>. PICK h : h = Head(q.clears)
    OBVIOUS
  <2>1. /\ t \in Seq(Events) /\ h \in Range(q.clears) /\ h \in Events
        /\ Range(t) \subseteq Range(q.clears) /\ IsInjective(t)
    BY <1>1, <1>2, <1>4, LaneMoves
  <2>. PICK n : n = [q EXCEPT !.clears = t, !.inflight = [op |-> "clear", event |-> h]]
    OBVIOUS
  <2>2. n = [pending |-> q.pending, clears |-> t, cleared |-> q.cleared,
             inflight |-> [op |-> "clear", event |-> h], closed |-> q.closed]
    BY <1>1 DEF Pushes
  <2>3. n \in Pushes
    <3>1. [op |-> "clear", event |-> h] \in Deliveries \cup {Idle}
      BY <2>1 DEF Deliveries
    <3>. QED
      BY <1>2, <2>1, <2>2, <3>1 DEF Pushes
  <2>4. push' = [push EXCEPT ![p] = n]
    BY <1>1, <1>4
  <2>. QED
    <3>1. n.inflight.op = "clear" /\ n.inflight.event = h
      BY <2>2
    <3>2. sent' = [sent EXCEPT ![p] = @ \cup {n.inflight.event}]
      BY <1>4, <3>1
    <3>. QED
      BY <1>1, <1>3, <2>1, <2>2, <2>3, <2>4, <3>1, <3>2
<1>5. CASE /\ q.clears = << >> /\ q.pending # << >>
           /\ push' = [push EXCEPT ![p].pending = Tail(@),
                                   ![p].inflight = [op |-> "publish", event |-> Head(push[p].pending)]]
           /\ sent' = sent
  <2>. PICK t : t = Tail(q.pending)
    OBVIOUS
  <2>. PICK h : h = Head(q.pending)
    OBVIOUS
  <2>1. /\ t \in Seq(Events) /\ Len(t) <= Len(q.pending) /\ h \in Range(q.pending) /\ h \in Events
        /\ Range(t) \subseteq Range(q.pending)
    BY <1>2, <1>5, LaneMoves
  <2>2. Len(t) <= QueueLimit
    BY <1>1, <1>2, <2>1, AttentionAssumption, LenProperties
  <2>. PICK n : n = [q EXCEPT !.pending = t, !.inflight = [op |-> "publish", event |-> h]]
    OBVIOUS
  <2>3. n = [pending |-> t, clears |-> q.clears, cleared |-> q.cleared,
             inflight |-> [op |-> "publish", event |-> h], closed |-> q.closed]
    BY <1>1 DEF Pushes
  <2>4. n \in Pushes
    <3>1. [op |-> "publish", event |-> h] \in Deliveries \cup {Idle}
      BY <2>1 DEF Deliveries
    <3>. QED
      BY <1>2, <2>1, <2>3, <3>1 DEF Pushes
  <2>5. push' = [push EXCEPT ![p] = n]
    BY <1>1, <1>5
  <2>. QED
    <3>1. n.inflight.op = "publish" /\ n.inflight.event = h
      BY <2>3
    <3>. QED
      BY <1>1, <1>3, <1>5, <2>1, <2>2, <2>3, <2>4, <2>5, <3>1
<1>. QED
  BY <1>4, <1>5 DEF Send

\* Land and Close touch neither of the lanes.
LEMMA LanesLeft ==
  ASSUME TypeOK, NEW p \in Procs, Land(p) \/ Close(p)
  PROVE  \E n \in Pushes :
         /\ push' = [push EXCEPT ![p] = n]
         /\ Len(n.pending) <= QueueLimit /\ IsInjective(n.clears)
         /\ n.pending = push[p].pending /\ n.clears = push[p].clears /\ n.cleared = push[p].cleared
         /\ n.inflight = Idle \/ n.inflight = push[p].inflight
<1>. PICK q : q = push[p]
  OBVIOUS
<1>1. push \in [Procs -> Pushes] /\ q \in Pushes /\ Len(q.pending) <= QueueLimit /\ IsInjective(q.clears)
  BY DEF TypeOK
<1>2. CASE Land(p)
  <2>. PICK n : n = [q EXCEPT !.inflight = Idle]
    OBVIOUS
  <2>1. n \in Pushes /\ n.pending = q.pending /\ n.clears = q.clears /\ n.cleared = q.cleared /\ n.inflight = Idle
    BY <1>1 DEF Pushes
  <2>2. push' = [push EXCEPT ![p] = n]
    BY <1>1, <1>2 DEF Land
  <2>. QED
    BY <1>1, <2>1, <2>2
<1>3. CASE Close(p)
  <2>. PICK n : n = [q EXCEPT !.closed = TRUE]
    OBVIOUS
  <2>1. /\ n \in Pushes /\ n.pending = q.pending /\ n.clears = q.clears /\ n.cleared = q.cleared
        /\ n.inflight = q.inflight
    BY <1>1 DEF Pushes
  <2>2. push' = [push EXCEPT ![p] = n]
    BY <1>1, <1>3 DEF Close
  <2>. QED
    BY <1>1, <2>1, <2>2
<1>. QED
  BY <1>2, <1>3

LEMMA AcknowledgeIs ==
  ASSUME TypeOK, NEW p \in Procs, Acknowledge(p)
  PROVE  /\ store' \in Stores /\ center' \in [Procs -> Stores] /\ misses' \in 0 .. MaxMisses
         /\ \A q \in Procs \ {p} : center'[q] = center[q]
         /\ \/ misses' = misses /\ store' = Acknowledged(store) /\ center'[p] = Acknowledged(store)
            \/ misses' # misses /\ misses' # 0 /\ store' = store /\ center'[p] = Acknowledged(center[p])
         /\ emitting' \in [Procs -> SUBSET Deliveries] /\ acked' \in [Procs -> SUBSET Events]
<1>1. /\ center[p] \in Stores /\ store \in Stores /\ emitting \in [Procs -> SUBSET Deliveries]
      /\ acked \in [Procs -> SUBSET Events]
  BY DEF TypeOK
<1>. PICK x : x = IF misses' = misses THEN store ELSE center[p]
  OBVIOUS
<1>2. x \in Stores
  BY <1>1
<1>3. CASE Events = {}
  <2>1. store.current = NoEvent /\ center[p].current = NoEvent
    BY <1>1, <1>3 DEF Stores
  <2>2. Acknowledged(store) = store /\ Acknowledged(center[p]) = center[p] /\ Ackable(x) = NoEvent
    BY <2>1 DEF Acknowledged, Ackable
  <2>3. Transact(p, store, center[p])
    BY <2>2 DEF Acknowledge
  <2>. QED
    BY <1>1, <2>2, <2>3, TransactIs DEF Acknowledge
<1>4. CASE Events # {}
  <2>1. Acknowledged(store) \in Stores /\ Acknowledged(center[p]) \in Stores /\ Ackable(x) \in Events \cup {NoEvent}
    BY <1>1, <1>2, <1>4, StoreTypes
  <2>2. Transact(p, Acknowledged(store), Acknowledged(center[p]))
    BY DEF Acknowledge
  <2>3. emitting' \in [Procs -> SUBSET Deliveries] /\ acked' \in [Procs -> SUBSET Events]
    <3>1. CASE Ackable(x) = NoEvent
      BY <1>1, <3>1 DEF Acknowledge
    <3>2. CASE Ackable(x) \in Events
      <4>. PICK e \in Events : e = Ackable(x)
        BY <3>2
      <4>1. [op |-> "clear", event |-> e] \in Deliveries
        BY DEF Deliveries
      <4>2. e # NoEvent
        BY StoreAssumption
      <4>3. acked' = [acked EXCEPT ![p] = @ \cup {e}] /\ Publish(p, [op |-> "clear", event |-> e])
        BY <4>2 DEF Acknowledge
      <4>. QED
        BY <1>1, <4>1, <4>3 DEF Publish
    <3>. QED
      BY <2>1, <3>1, <3>2
  <2>. QED
    BY <2>1, <2>2, <2>3, TransactIs
<1>. QED
  BY <1>3, <1>4

LEMMA TypeNext ==
  ASSUME TypeOK, [Next]_vars
  PROVE  TypeOK'
<1>. USE StoreAssumption, AttentionAssumption
<1>. SUFFICES ASSUME Next PROVE TypeOK'
  BY DEF vars, machine, remote, history, TypeOK
<1>. PICK p \in Procs :
       \/ Start(p) \/ Defer(p) \/ NotifyAttention(p) \/ Acknowledge(p)
       \/ (\E d \in Decisions : DecisionDeferred(p, d)) \/ (\E t \in Turns : TurnFinished(p, t))
       \/ (\E m \in Deliveries : Emit(p, m)) \/ Send(p) \/ Land(p) \/ Close(p) \/ Exit(p)
  BY DEF Next
<1>1. CASE Start(p)
  BY <1>1 DEF TypeOK, Start, remote, history
<1>2. CASE Defer(p)
  <2>1. asked' \in [Procs -> 0 .. MaxAsked]
    BY <1>2 DEF TypeOK, Defer
  <2>. QED
    BY <1>2, <2>1 DEF TypeOK, Defer, remote, history
<1>3. ASSUME NEW d \in Decisions, DecisionDeferred(p, d) PROVE TypeOK'
  <2>1. Note(p, d) /\ d \in Events
    BY <1>3 DEF DecisionDeferred, Events
  <2>2. /\ store' \in Stores /\ center' \in [Procs -> Stores] /\ misses' \in 0 .. MaxMisses
        /\ telling' \in [Procs -> Events \cup {NoEvent}] /\ noted' \in [Procs -> SUBSET Events]
    BY <2>1, NoteIs
  <2>. QED
    BY <1>3, <2>2 DEF TypeOK, DecisionDeferred, remote
<1>4. ASSUME NEW t \in Turns, TurnFinished(p, t) PROVE TypeOK'
  <2>1. Note(p, t) /\ t \in Events
    BY <1>4 DEF TurnFinished, Events
  <2>2. /\ store' \in Stores /\ center' \in [Procs -> Stores] /\ misses' \in 0 .. MaxMisses
        /\ telling' \in [Procs -> Events \cup {NoEvent}] /\ noted' \in [Procs -> SUBSET Events]
    BY <2>1, NoteIs
  <2>. QED
    BY <1>4, <2>2 DEF TypeOK, TurnFinished, remote
<1>5. CASE NotifyAttention(p)
  <2>. PICK e : e = telling[p]
    OBVIOUS
  <2>1. e \in Events
    BY <1>5 DEF TypeOK, NotifyAttention
  <2>2. rang' \in [Procs -> [Events -> Nat]]
    <3>1. rang \in [Procs -> [Events -> Nat]] /\ rang[p][e] + 1 \in Nat
      BY <2>1 DEF TypeOK
    <3>2. rang' = [rang EXCEPT ![p][e] = @ + 1]
      BY <1>5 DEF NotifyAttention
    <3>. QED
      BY <2>1, <3>1, <3>2
  <2>3. emitting' \in [Procs -> SUBSET Deliveries]
    <3>1. [op |-> "publish", event |-> e] \in Deliveries
      BY <2>1 DEF Deliveries
    <3>2. Publish(p, [op |-> "publish", event |-> e])
      BY <1>5 DEF NotifyAttention
    <3>. QED
      BY <3>1, <3>2 DEF Publish, TypeOK
  <2>4. telling' \in [Procs -> Events \cup {NoEvent}]
    BY <1>5 DEF TypeOK, NotifyAttention
  <2>. QED
    BY <1>5, <2>2, <2>3, <2>4 DEF TypeOK, NotifyAttention
<1>6. CASE Acknowledge(p)
  <2>1. /\ store' \in Stores /\ center' \in [Procs -> Stores] /\ misses' \in 0 .. MaxMisses
        /\ emitting' \in [Procs -> SUBSET Deliveries] /\ acked' \in [Procs -> SUBSET Events]
    BY <1>6, AcknowledgeIs
  <2>. QED
    BY <1>6, <2>1 DEF TypeOK, Acknowledge
<1>7. ASSUME NEW m \in Deliveries, Emit(p, m) PROVE TypeOK'
  <2>1. PICK n \in Pushes : /\ push' = [push EXCEPT ![p] = n]
                            /\ Len(n.pending) <= QueueLimit /\ IsInjective(n.clears)
    BY <1>7, EmitIs
  <2>2. /\ push' \in [Procs -> Pushes]
        /\ \A q \in Procs : Len(push'[q].pending) <= QueueLimit /\ IsInjective(push'[q].clears)
    BY <2>1, PushTyped
  <2>3. emitting' \in [Procs -> SUBSET Deliveries]
    BY <1>7 DEF TypeOK, Emit
  <2>. QED
    BY <1>7, <2>2, <2>3 DEF TypeOK, Emit, machine, history
<1>8. CASE Send(p)
  <2>1. PICK n \in Pushes : /\ push' = [push EXCEPT ![p] = n]
                            /\ Len(n.pending) <= QueueLimit /\ IsInjective(n.clears)
                            /\ n.inflight.event \in Events
                            /\ sent' = [sent EXCEPT ![p] = @ \cup {n.inflight.event}] \/ sent' = sent
    BY <1>8, SendIs
  <2>2. /\ push' \in [Procs -> Pushes]
        /\ \A q \in Procs : Len(push'[q].pending) <= QueueLimit /\ IsInjective(push'[q].clears)
    BY <2>1, PushTyped
  <2>3. sent' \in [Procs -> SUBSET Events]
    <3>. PICK e \in Events : e = n.inflight.event
      BY <2>1
    <3>1. sent \in [Procs -> SUBSET Events]
      BY DEF TypeOK
    <3>2. sent[p] \cup {e} \in SUBSET Events
      BY <3>1
    <3>3. sent' = [sent EXCEPT ![p] = @ \cup {e}] \/ sent' = sent
      BY <2>1
    <3>. QED
      BY <3>1, <3>2, <3>3
  <2>. QED
    BY <1>8, <2>2, <2>3 DEF TypeOK, Send, machine
<1>9. CASE Land(p) \/ Close(p)
  <2>1. PICK n \in Pushes : /\ push' = [push EXCEPT ![p] = n]
                            /\ Len(n.pending) <= QueueLimit /\ IsInjective(n.clears)
    BY <1>9, LanesLeft
  <2>2. /\ push' \in [Procs -> Pushes]
        /\ \A q \in Procs : Len(push'[q].pending) <= QueueLimit /\ IsInjective(push'[q].clears)
    BY <2>1, PushTyped
  <2>. QED
    BY <1>9, <2>2 DEF TypeOK, Land, Close, machine, history
<1>10. CASE Exit(p)
  <2>1. << >> \in Seq(Events) /\ IsInjective(<< >>) /\ Len(<< >>) = 0
    BY DEF IsInjective
  <2>2. NoPush \in Pushes
    BY <2>1 DEF NoPush, Pushes
  <2>3. Len(NoPush.pending) <= QueueLimit /\ IsInjective(NoPush.clears)
    BY <2>1 DEF NoPush
  <2>4. push' = [push EXCEPT ![p] = NoPush]
    BY <1>10 DEF Exit
  <2>5. /\ push' \in [Procs -> Pushes]
        /\ \A q \in Procs : Len(push'[q].pending) <= QueueLimit /\ IsInjective(push'[q].clears)
    BY <2>2, <2>3, <2>4, PushTyped
  <2>6. cut' \subseteq Events /\ emitting' \in [Procs -> SUBSET Deliveries]
    <3>1. telling[p] \in Events \cup {NoEvent} /\ cut \subseteq Events
      BY DEF TypeOK
    <3>2. cut' \subseteq Events
      BY <1>10, <3>1 DEF Exit
    <3>3. emitting' \in [Procs -> SUBSET Deliveries]
      BY <1>10 DEF TypeOK, Exit
    <3>. QED
      BY <3>2, <3>3
  <2>7. telling' \in [Procs -> Events \cup {NoEvent}] /\ up' \in [Procs -> {"new", "up", "gone"}]
    BY <1>10 DEF TypeOK, Exit
  <2>. QED
    BY <1>10, <2>5, <2>6, <2>7 DEF TypeOK, Exit
<1>. QED
  BY <1>1, <1>2, <1>3, <1>4, <1>5, <1>6, <1>7, <1>8, <1>9, <1>10

\* Types: the files, the centers, the lanes of a destination and what is on its
\* way keep their shapes, the publish lane its limit, the clear lane no event
\* twice.
THEOREM TypeCorrect == Spec => []TypeOK
<1>1. Init => TypeOK
  BY TypeInit
<1>2. TypeOK /\ [Next]_vars => TypeOK'
  BY TypeNext
<1>. QED
  BY <1>1, <1>2, PTL DEF Spec

-----------------------------------------------------------------------------
(* The invariant *)

LEMMA KnownInit ==
  Init => Inv
<1>. SUFFICES ASSUME Init PROVE Inv
  OBVIOUS
<1>1. Known
  BY DEF Init, Known, Empty
<1>2. Single
  BY StoreAssumption DEF Init, Single, Tells
<1>3. Lanes
  BY DEF Init, Lanes, NoPush, Range
<1>. QED
  BY <1>1, <1>2, <1>3 DEF Inv

\* Nothing of what Known and Single speak of has changed.
LEMMA KnownLeft ==
  ASSUME Known, Single, UNCHANGED <<store, center, telling, misses, noted, rang, cut>>
  PROVE  Known' /\ Single'
BY DEF Known, Single, Tells

\* A new event has a teller, and no two; of the others all stays as it was.
LEMMA KnownNoted ==
  ASSUME TypeOK, Known, Single, NEW p \in Procs, NEW e \in Events, Note(p, e), telling[p] = NoEvent,
         UNCHANGED <<rang, cut>>
  PROVE  Known' /\ Single'
<1>1. /\ store \in Stores /\ center[p] \in Stores /\ e # NoEvent
      /\ \A q \in Procs, f \in Events : rang[q][f] \in Nat
  BY StoreAssumption DEF TypeOK
<1>. PICK s \in Stores : s = store
  BY <1>1
<1>. PICK c \in Stores : c = center[p]
  BY <1>1
<1>2. /\ \A q \in Procs \ {p} : center'[q] = center[q] /\ telling'[q] = telling[q] /\ noted'[q] = noted[q]
      /\ noted'[p] = noted[p] \cup {e}
      /\ \/ /\ misses' = misses /\ store' = Recorded(s, e) /\ center'[p] = Recorded(s, e)
            /\ telling'[p] = IF IsNew(s, e) THEN e ELSE NoEvent
         \/ /\ misses' # misses /\ misses' # 0 /\ store' = s /\ center'[p] = Recorded(c, e)
            /\ telling'[p] = IF IsNew(c, e) THEN e ELSE NoEvent
  BY NoteIs
<1>3. \A x \in Stores, f \in Events :
         /\ x.row[f] # "none" => Recorded(x, e).row[f] # "none"
         /\ Recorded(x, e).row[f] # "none" => f = e \/ x.row[f] # "none"
         /\ Recorded(x, e).row[e] # "none"
  BY RecordedIs
<1>4. \A q \in Procs, f \in Events : f # e => (Tells(q, f)' <=> Tells(q, f))
  <2>. SUFFICES ASSUME NEW q \in Procs, NEW f \in Events, f # e PROVE telling'[q] = f <=> telling[q] = f
    BY DEF Tells
  <2>1. f # NoEvent
    BY StoreAssumption
  <2>2. q = p => (telling'[q] = e \/ telling'[q] = NoEvent)
    BY <1>2
  <2>. QED
    BY <1>2, <2>1, <2>2
<1>5. \A q \in Procs : Tells(q, e) => Tells(q, e)'
  BY <1>1, <1>2 DEF Tells
<1>6. \A q \in Procs \ {p} : Tells(q, e)' => Tells(q, e)
  BY <1>1, <1>2 DEF Tells
<1>7. Known'
  <2>. SUFFICES ASSUME NEW f \in Events
                PROVE  \/ f \in cut \/ \E q \in Procs : Tells(q, f)'
                       \/ store'.row[f] = "none" /\ \A q \in Procs : center'[q].row[f] = "none" /\ f \notin noted'[q]
    BY DEF Known
  <2>1. \/ f \in cut \/ \E q \in Procs : Tells(q, f)
        \/ s.row[f] = "none" /\ \A q \in Procs : center[q].row[f] = "none" /\ f \notin noted[q]
    BY DEF Known
  <2>2. CASE f # e
    BY <1>2, <1>3, <1>4, <2>1, <2>2
  <2>3. CASE f = e /\ (f \in cut \/ \E q \in Procs : Tells(q, f))
    BY <1>5, <2>3
  <2>4. CASE f = e /\ s.row[f] = "none" /\ c.row[f] = "none"
    <3>1. telling'[p] = e
      BY <1>2, <2>4 DEF IsNew
    <3>. QED
      BY <2>4, <3>1 DEF Tells
  <2>. QED
    BY <2>1, <2>2, <2>3, <2>4
<1>8. Single'
  <2>. SUFFICES ASSUME misses' = 0, NEW f \in Events, NEW q \in Procs, Tells(q, f)'
                PROVE  /\ store'.row[f] # "none"
                       /\ rang[q][f] = (IF telling'[q] = f THEN 0 ELSE 1)
                       /\ \A r \in Procs : Tells(r, f)' => q = r
    BY DEF Single
  <2>1. /\ misses = 0 /\ store' = Recorded(s, e)
        /\ telling'[p] = IF IsNew(s, e) THEN e ELSE NoEvent
    BY <1>2
  <2>2. \A g \in Events, r \in Procs : Tells(r, g) =>
          /\ s.row[g] # "none"
          /\ rang[r][g] = (IF telling[r] = g THEN 0 ELSE 1)
          /\ \A t \in Procs : Tells(t, g) => r = t
    BY <2>1 DEF Single
  <2>3. CASE Tells(q, f)
    <3>1. f # e \/ ~IsNew(s, e)
      BY <2>2, <2>3 DEF IsNew
    <3>2. telling'[q] = f <=> telling[q] = f
      BY <1>1, <1>2, <2>1, <3>1, StoreAssumption
    <3>3. \A r \in Procs : Tells(r, f)' => Tells(r, f)
      BY <1>1, <1>2, <1>4, <1>6, <2>1, <3>1 DEF Tells
    <3>. QED
      BY <1>3, <2>1, <2>2, <2>3, <3>2, <3>3
  <2>4. CASE ~Tells(q, f)
    <3>1. f = e /\ q = p
      BY <1>4, <1>6, <2>4
    <3>2. IsNew(s, e) /\ telling'[p] = e /\ rang[p][e] = 0
      <4>1. ~(rang[p][e] > 0) /\ telling'[p] = e
        BY <2>4, <3>1 DEF Tells
      <4>. QED
        BY <1>1, <2>1, <4>1
    <3>3. \A r \in Procs : ~Tells(r, e)
      BY <2>2, <3>2 DEF IsNew
    <3>. QED
      BY <1>3, <1>6, <2>1, <3>1, <3>2, <3>3
  <2>. QED
    BY <2>3, <2>4
<1>. QED
  BY <1>7, <1>8

\* Who was about to tell tells, and it counts as one time.
LEMMA KnownRung ==
  ASSUME TypeOK, Known, Single, NEW p \in Procs, NotifyAttention(p)
  PROVE  Known' /\ Single'
<1>. PICK e \in Events : e = telling[p]
  BY DEF TypeOK, NotifyAttention
<1>1. /\ UNCHANGED <<store, center, misses, noted, cut>>
      /\ telling' = [telling EXCEPT ![p] = NoEvent] /\ rang' = [rang EXCEPT ![p][e] = @ + 1]
  BY DEF NotifyAttention
<1>2. /\ telling'[p] = NoEvent /\ \A q \in Procs \ {p} : telling'[q] = telling[q]
      /\ rang'[p][e] = rang[p][e] + 1
      /\ \A q \in Procs, f \in Events : q # p \/ f # e => rang'[q][f] = rang[q][f]
      /\ \A q \in Procs, f \in Events : rang[q][f] \in Nat
  BY <1>1 DEF TypeOK
<1>3. \A q \in Procs, f \in Events : Tells(q, f)' <=> Tells(q, f)
  <2>. SUFFICES ASSUME NEW q \in Procs, NEW f \in Events PROVE Tells(q, f)' <=> Tells(q, f)
    OBVIOUS
  <2>1. CASE q = p /\ f = e
    BY <1>2, <2>1 DEF Tells
  <2>2. CASE q = p /\ f # e
    BY <1>2, <2>2, StoreAssumption DEF Tells
  <2>3. CASE q # p
    BY <1>2, <2>3 DEF Tells
  <2>. QED
    BY <2>1, <2>2, <2>3
<1>4. Known'
  BY <1>1, <1>3 DEF Known
<1>5. Single'
  <2>. SUFFICES ASSUME misses' = 0, NEW f \in Events, NEW q \in Procs, Tells(q, f)'
                PROVE  /\ store'.row[f] # "none"
                       /\ rang'[q][f] = (IF telling'[q] = f THEN 0 ELSE 1)
                       /\ \A r \in Procs : Tells(r, f)' => q = r
    BY DEF Single
  <2>1. /\ store.row[f] # "none" /\ rang[q][f] = (IF telling[q] = f THEN 0 ELSE 1)
        /\ \A r \in Procs : Tells(r, f) => q = r
    BY <1>1, <1>3 DEF Single
  <2>2. rang'[q][f] = (IF telling'[q] = f THEN 0 ELSE 1)
    <3>1. CASE q = p /\ f = e
      BY <1>2, <2>1, <3>1, StoreAssumption
    <3>2. CASE q = p /\ f # e
      BY <1>2, <2>1, <3>2, StoreAssumption
    <3>3. CASE q # p
      BY <1>2, <2>1, <3>3
    <3>. QED
      BY <3>1, <3>2, <3>3
  <2>. QED
    BY <1>1, <1>3, <2>1, <2>2
<1>. QED
  BY <1>4, <1>5

\* An acknowledged event is known as before.
LEMMA KnownAcknowledged ==
  ASSUME TypeOK, Known, Single, NEW p \in Procs, Acknowledge(p)
  PROVE  Known' /\ Single'
<1>1. /\ \A q \in Procs \ {p} : center'[q] = center[q]
      /\ \/ misses' = misses /\ store' = Acknowledged(store) /\ center'[p] = Acknowledged(store)
         \/ misses' # misses /\ misses' # 0 /\ store' = store /\ center'[p] = Acknowledged(center[p])
      /\ UNCHANGED <<telling, noted, rang, cut>>
  BY AcknowledgeIs DEF Acknowledge
<1>2. store \in Stores /\ center[p] \in Stores
  BY DEF TypeOK
<1>3. \A s \in Stores, f \in Events : Acknowledged(s).row[f] = "none" <=> s.row[f] = "none"
  BY StoreTypes
<1>4. Known'
  BY <1>1, <1>2, <1>3 DEF Known, Tells
<1>5. Single'
  BY <1>1, <1>2, <1>3 DEF Single, Tells
<1>. QED
  BY <1>4, <1>5

\* Who is killed before he tells leaves the event to nobody.
LEMMA KnownExit ==
  ASSUME TypeOK, Known, Single, NEW p \in Procs, Exit(p)
  PROVE  Known' /\ Single'
<1>1. /\ UNCHANGED <<store, center, misses, noted, rang>>
      /\ telling' = [telling EXCEPT ![p] = NoEvent] /\ cut' = cut \cup ({telling[p]} \ {NoEvent})
  BY DEF Exit
<1>2. /\ telling'[p] = NoEvent /\ \A q \in Procs \ {p} : telling'[q] = telling[q]
      /\ \A q \in Procs, f \in Events : rang[q][f] \in Nat
  BY <1>1 DEF TypeOK
<1>3. \A q \in Procs, f \in Events :
        /\ Tells(q, f)' => Tells(q, f)
        /\ Tells(q, f) => Tells(q, f)' \/ f \in cut'
  BY <1>1, <1>2, StoreAssumption DEF Tells
<1>4. Known'
  BY <1>1, <1>3 DEF Known
<1>5. Single'
  <2>. SUFFICES ASSUME misses' = 0, NEW f \in Events, NEW q \in Procs, Tells(q, f)'
                PROVE  /\ store'.row[f] # "none"
                       /\ rang'[q][f] = (IF telling'[q] = f THEN 0 ELSE 1)
                       /\ \A r \in Procs : Tells(r, f)' => q = r
    BY DEF Single
  <2>1. /\ store.row[f] # "none" /\ rang[q][f] = (IF telling[q] = f THEN 0 ELSE 1)
        /\ \A r \in Procs : Tells(r, f) => q = r
    BY <1>1, <1>3 DEF Single
  <2>2. telling'[q] = f <=> telling[q] = f
    BY <1>1, <1>2, <2>1, StoreAssumption DEF Tells
  <2>. QED
    BY <1>1, <1>3, <2>1, <2>2
<1>. QED
  BY <1>4, <1>5

\* One destination's lanes.
LaneOf(q, e) == Range(q.pending) \cap q.cleared = {} /\ Range(q.clears) \cup e \subseteq q.cleared

LEMMA LanesNext ==
  ASSUME TypeOK, Lanes, [Next]_vars
  PROVE  Lanes'
<1>1. Lanes <=> \A p \in Procs : up[p] # "gone" => LaneOf(push[p], sent[p])
  BY DEF Lanes, LaneOf
<1>2. Lanes' <=> \A p \in Procs : up'[p] # "gone" => LaneOf(push'[p], sent'[p])
  BY DEF Lanes, LaneOf
<1>3. CASE UNCHANGED <<push, sent>> /\ \A p \in Procs : up'[p] # "gone" => up[p] # "gone"
  BY <1>1, <1>2, <1>3
<1>4. ASSUME NEW p \in Procs, up' = up, NEW n \in Pushes, push' = [push EXCEPT ![p] = n],
             \A q \in Procs \ {p} : sent'[q] = sent[q],
             LaneOf(push[p], sent[p]) => LaneOf(n, sent'[p])
      PROVE  Lanes'
  <2>1. push'[p] = n /\ \A q \in Procs \ {p} : push'[q] = push[q]
    BY <1>4 DEF TypeOK
  <2>. QED
    BY <1>1, <1>2, <1>4, <2>1
<1>5. CASE UNCHANGED vars
  BY <1>3, <1>5 DEF vars, machine, remote, history
<1>6. ASSUME NEW p \in Procs, Start(p) PROVE Lanes'
  <2>1. up[p] = "new" /\ up' = [up EXCEPT ![p] = "up"] /\ UNCHANGED <<push, sent>>
    BY <1>6 DEF Start, remote, history
  <2>2. \A q \in Procs : up'[q] # "gone" => up[q] # "gone"
    BY <2>1 DEF TypeOK
  <2>. QED
    BY <1>3, <2>1, <2>2
<1>7. ASSUME NEW p \in Procs,
             \/ Defer(p) \/ NotifyAttention(p) \/ Acknowledge(p)
             \/ (\E d \in Decisions : DecisionDeferred(p, d)) \/ (\E t \in Turns : TurnFinished(p, t))
      PROVE  Lanes'
  <2>1. UNCHANGED <<up, push, sent>>
    BY <1>7 DEF Defer, NotifyAttention, Acknowledge, DecisionDeferred, TurnFinished, remote, history
  <2>. QED
    BY <1>3, <2>1
<1>8. ASSUME NEW p \in Procs, NEW m \in Deliveries, Emit(p, m) PROVE Lanes'
  <2>1. PICK n \in Pushes :
          /\ push' = [push EXCEPT ![p] = n]
          /\ push[p].cleared \subseteq n.cleared
          /\ Range(push[p].pending) \cap push[p].cleared = {} => Range(n.pending) \cap n.cleared = {}
          /\ Range(push[p].clears) \subseteq push[p].cleared => Range(n.clears) \subseteq n.cleared
    BY <1>8, EmitIs
  <2>2. up' = up /\ sent' = sent
    BY <1>8 DEF Emit, machine, history
  <2>3. LaneOf(push[p], sent[p]) => LaneOf(n, sent'[p])
    BY <2>1, <2>2 DEF LaneOf
  <2>. QED
    BY <1>4, <2>1, <2>2, <2>3
<1>9. ASSUME NEW p \in Procs, Send(p) PROVE Lanes'
  <2>1. PICK n \in Pushes :
          /\ push' = [push EXCEPT ![p] = n]
          /\ n.cleared = push[p].cleared
          /\ Range(n.pending) \subseteq Range(push[p].pending) /\ Range(n.clears) \subseteq Range(push[p].clears)
          /\ \/ /\ n.inflight.op = "clear" /\ n.inflight.event \in Range(push[p].clears)
                /\ sent' = [sent EXCEPT ![p] = @ \cup {n.inflight.event}]
             \/ n.inflight.op = "publish" /\ n.inflight.event \in Range(push[p].pending) /\ sent' = sent
    BY <1>9, SendIs
  <2>2. up' = up
    BY <1>9 DEF Send, machine
  <2>3. /\ \A q \in Procs \ {p} : sent'[q] = sent[q]
        /\ sent'[p] \subseteq sent[p] \cup Range(push[p].clears)
    <3>1. sent \in [Procs -> SUBSET Events]
      BY DEF TypeOK
    <3>2. CASE sent' = sent
      BY <3>2
    <3>. PICK e : e = n.inflight.event
      OBVIOUS
    <3>3. CASE e \in Range(push[p].clears) /\ sent' = [sent EXCEPT ![p] = @ \cup {e}]
      BY <3>1, <3>3
    <3>. QED
      BY <2>1, <3>2, <3>3
  <2>4. LaneOf(push[p], sent[p]) => LaneOf(n, sent'[p])
    BY <2>1, <2>3 DEF LaneOf
  <2>. QED
    BY <1>4, <2>1, <2>2, <2>3, <2>4
<1>10. ASSUME NEW p \in Procs, Land(p) \/ Close(p) PROVE Lanes'
  <2>1. PICK n \in Pushes :
          /\ push' = [push EXCEPT ![p] = n]
          /\ n.pending = push[p].pending /\ n.clears = push[p].clears /\ n.cleared = push[p].cleared
    BY <1>10, LanesLeft
  <2>2. up' = up /\ sent' = sent
    BY <1>10 DEF Land, Close, machine, history
  <2>3. LaneOf(push[p], sent[p]) => LaneOf(n, sent'[p])
    BY <2>1, <2>2 DEF LaneOf
  <2>. QED
    BY <1>4, <2>1, <2>2, <2>3
<1>11. ASSUME NEW p \in Procs, Exit(p) PROVE Lanes'
  <2>1. /\ up' = [up EXCEPT ![p] = "gone"] /\ push' = [push EXCEPT ![p] = NoPush] /\ sent' = sent
    BY <1>11 DEF Exit
  <2>2. up'[p] = "gone" /\ \A q \in Procs \ {p} : up'[q] = up[q] /\ push'[q] = push[q]
    BY <2>1 DEF TypeOK
  <2>. QED
    BY <1>1, <1>2, <2>1, <2>2
<1>. QED
  BY <1>5, <1>6, <1>7, <1>8, <1>9, <1>10, <1>11 DEF Next

LEMMA KnownNext ==
  ASSUME TypeOK, Known, Single, [Next]_vars
  PROVE  Known' /\ Single'
<1>1. CASE UNCHANGED vars
  BY <1>1, KnownLeft DEF vars, machine, history
<1>2. ASSUME NEW p \in Procs, Start(p) PROVE Known' /\ Single'
  <2>1. /\ center' = [center EXCEPT ![p] = store]
        /\ UNCHANGED <<store, telling, misses, noted, rang, cut>>
    BY <1>2 DEF Start, history
  <2>2. center'[p] = store /\ \A q \in Procs \ {p} : center'[q] = center[q]
    BY <2>1 DEF TypeOK
  <2>. QED
    BY <2>1, <2>2 DEF Known, Single, Tells
<1>3. ASSUME NEW p \in Procs, NEW d \in Decisions, DecisionDeferred(p, d) PROVE Known' /\ Single'
  BY <1>3, KnownNoted DEF DecisionDeferred, AtRest, Events
<1>4. ASSUME NEW p \in Procs, NEW t \in Turns, TurnFinished(p, t) PROVE Known' /\ Single'
  BY <1>4, KnownNoted DEF TurnFinished, AtRest, Events
<1>5. ASSUME NEW p \in Procs, Defer(p) \/ (\E m \in Deliveries : Emit(p, m)) \/ Send(p) \/ Land(p) \/ Close(p)
      PROVE  Known' /\ Single'
  <2>1. UNCHANGED <<store, center, telling, misses, noted, rang, cut>>
    BY <1>5 DEF Defer, Emit, Send, Land, Close, machine, history
  <2>. QED
    BY <2>1, KnownLeft
<1>. QED
  BY <1>1, <1>2, <1>3, <1>4, <1>5, KnownRung, KnownAcknowledged, KnownExit DEF Next

LEMMA Invariant == Spec => [](TypeOK /\ Inv)
<1>1. Init => TypeOK /\ Inv
  BY TypeInit, KnownInit
<1>2. TypeOK /\ Inv /\ [Next]_vars => TypeOK' /\ Inv'
  BY TypeNext, KnownNext, LanesNext DEF Inv
<1>. QED
  BY <1>1, <1>2, PTL DEF Spec

-----------------------------------------------------------------------------
(* The properties of the run *)

\* However many processes have the session open, one that is told of a transition
\* tells the user unless it is killed first; and as long as the file's lock is
\* had, no second one does and none does twice.
THEOREM OnceNotified == Spec => []NotifiedOnce
<1>1. TypeOK /\ Inv => NotifiedOnce
  <2>. SUFFICES ASSUME TypeOK, Inv, NEW e \in UNION {noted[p] : p \in Procs}, Told(e)
                PROVE  /\ e \notin cut => \E p \in Procs : rang[p][e] > 0
                       /\ misses = 0 => \A p, q \in Procs :
                            rang[p][e] > 0 /\ rang[q][e] > 0 => p = q /\ rang[p][e] = 1
    BY DEF NotifiedOnce
  <2>1. e \in Events /\ \E p \in Procs : e \in noted[p]
    BY DEF TypeOK
  <2>2. \A p \in Procs : telling[p] # e
    BY DEF Told
  <2>3. e \notin cut => \E p \in Procs : rang[p][e] > 0
    BY <2>1, <2>2 DEF Inv, Known, Tells
  <2>4. misses = 0 => \A p, q \in Procs :
          rang[p][e] > 0 /\ rang[q][e] > 0 => p = q /\ rang[p][e] = 1
    BY <2>1, <2>2 DEF Inv, Single, Tells
  <2>. QED
    BY <2>3, <2>4
<1>. QED
  BY <1>1, Invariant, PTL

\* What a process has cleared it never publishes again, in whatever order its
\* events come to be emitted and its requests to be sent.
THEOREM NothingResurrected == Spec => NoResurrection
<1>1. ASSUME TypeOK, Inv, [Next]_vars, NEW r \in Procs,
             push'[r].inflight.op = "publish", push[r].inflight = Idle
      PROVE  push'[r].inflight.event \notin sent[r]
  <2>1. push[r].inflight.op # "publish" /\ NoPush.inflight.op # "publish"
    BY <1>1 DEF Idle, NoPush
  <2>2. push \in [Procs -> Pushes]
    BY <1>1 DEF TypeOK
  <2>3. ASSUME UNCHANGED push PROVE FALSE
    BY <1>1, <2>1, <2>3
  <2>4. ASSUME NEW p \in Procs, NEW n \in Pushes, push' = [push EXCEPT ![p] = n],
               n.inflight = Idle \/ n.inflight = push[p].inflight
        PROVE  FALSE
    <3>1. CASE r = p
      BY <1>1, <2>1, <2>2, <2>4, <3>1 DEF Idle
    <3>2. CASE r # p
      BY <1>1, <2>1, <2>2, <2>4, <3>2
    <3>. QED
      BY <3>1, <3>2
  <2>5. ASSUME NEW p \in Procs, Exit(p) PROVE FALSE
    <3>1. push' = [push EXCEPT ![p] = NoPush]
      BY <2>5 DEF Exit
    <3>. QED
      BY <1>1, <2>1, <2>2, <3>1
  <2>6. ASSUME NEW p \in Procs, Send(p) PROVE push'[r].inflight.event \notin sent[r]
    <3>1. PICK n \in Pushes :
            /\ push' = [push EXCEPT ![p] = n]
            /\ \/ n.inflight.op = "clear"
               \/ n.inflight.op = "publish" /\ n.inflight.event \in Range(push[p].pending)
      BY <1>1, <2>6, SendIs
    <3>2. r = p /\ push'[r] = n
      BY <1>1, <2>1, <2>2, <3>1
    <3>3. n.inflight.event \in Range(push[r].pending)
      BY <1>1, <3>1, <3>2
    <3>4. up[r] # "gone"
      BY <2>6, <3>2 DEF Send
    <3>. QED
      BY <1>1, <3>2, <3>3, <3>4 DEF Inv, Lanes
  <2>7. ASSUME NEW p \in Procs, NEW m \in Deliveries, Emit(p, m) PROVE FALSE
    BY <1>1, <2>4, <2>7, EmitIs
  <2>8. ASSUME NEW p \in Procs, Land(p) \/ Close(p) PROVE FALSE
    BY <1>1, <2>4, <2>8, LanesLeft
  <2>9. ASSUME NEW p \in Procs,
               \/ Start(p) \/ Defer(p) \/ NotifyAttention(p) \/ Acknowledge(p)
               \/ (\E d \in Decisions : DecisionDeferred(p, d)) \/ (\E t \in Turns : TurnFinished(p, t))
        PROVE  FALSE
    <3>1. UNCHANGED push
      BY <2>9 DEF Start, Defer, NotifyAttention, Acknowledge, DecisionDeferred, TurnFinished, remote
    <3>. QED
      BY <2>3, <3>1
  <2>10. CASE UNCHANGED vars
    BY <2>3, <2>10 DEF vars, remote
  <2>. QED
    BY <1>1, <2>5, <2>6, <2>7, <2>8, <2>9, <2>10 DEF Next
<1>2. TypeOK /\ Inv /\ [Next]_vars
        => [\A p \in Procs : push'[p].inflight.op = "publish" /\ push[p].inflight = Idle
              => push'[p].inflight.event \notin sent[p]]_vars
  <2>. SUFFICES ASSUME TypeOK, Inv, [Next]_vars
                PROVE  \A r \in Procs : push'[r].inflight.op = "publish" /\ push[r].inflight = Idle
                         => push'[r].inflight.event \notin sent[r]
    OBVIOUS
  <2>. QED
    BY <1>1
<1>. QED
  BY <1>2, Invariant, PTL DEF Spec, NoResurrection

=============================================================================
