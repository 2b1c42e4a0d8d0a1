-------------------------- MODULE CheckpointsProofs --------------------------
(***************************************************************************)
(* Proofs about Checkpoints, for any files, checkpoints, journals, kills   *)
(* and full disks: its types, that no turn begins over half a restore,     *)
(* that a restore spares the edits of the user, and that what it leaves    *)
(* can be undone again.                                                    *)
(***************************************************************************)
EXTENDS Checkpoints, FiniteSetTheorems, SequenceTheorems, TLAPS

-----------------------------------------------------------------------------
(* Sequences *)

\* Induction up to N, as the pigeonhole principle has it: no part of 1 .. N has
\* of each of its members the one before.
LEMMA Climb ==
  ASSUME NEW N \in Nat, NEW B \in SUBSET (1 .. N), \A n \in B : n - 1 \in B
  PROVE  B = {}
<1> SUFFICES ASSUME NEW n \in B PROVE FALSE
  OBVIOUS
<1> DEFINE C == {i \in B : i <= n}
           D == C \ {n}
           f == [i \in C |-> i - 1]
<1>1. \A i \in B : i \in 1 .. N
  OBVIOUS
<1>2. C \in SUBSET (1 .. N) /\ n \in C
  <2>1. n <= n
    BY <1>1
  <2>2. n \in C
    BY <2>1
  <2>3. \A i \in C : i \in 1 .. N
    BY <1>1
  <2> HIDE DEF C
  <2> QED BY <2>2, <2>3
<1>3. ASSUME NEW i \in C PROVE i - 1 \in D
  <2>1. i \in B /\ i \in 1 .. N /\ i <= n
    BY <1>1
  <2>2. i - 1 \in B
    BY <2>1
  <2>3. i - 1 <= n /\ i - 1 # n
    BY <1>1, <2>1
  <2> QED BY <2>2, <2>3
<1>4. f \in [C -> D] /\ \A x, y \in C : x # y => f[x] # f[y]
  <2>1. f \in [C -> D]
    <3> HIDE DEF C, D
    <3> QED BY <1>3
  <2>2. \A x, y \in C : x # y => f[x] # f[y]
    BY <1>1
  <2> QED BY <2>1, <2>2
<1> HIDE DEF C, D, f
<1>5. IsFiniteSet(1 .. N)
  BY FS_Interval
<1>6. IsFiniteSet(C)
  BY <1>2, <1>5, FS_Subset
<1>7. IsFiniteSet(D) /\ Cardinality(D) = Cardinality(C) - 1
  BY <1>2, <1>6, FS_RemoveElement DEF D
<1>8. Cardinality(C) \in Nat
  BY <1>6, FS_CardinalityType
<1>9. Cardinality(D) < Cardinality(C)
  BY <1>7, <1>8
<1> QED BY <1>4, <1>6, <1>7, <1>9, FS_PigeonHole

\* Among the places of a sequence there is a first.
LEMMA First ==
  ASSUME NEW N \in Nat, NEW A \in SUBSET (1 .. N), A # {}
  PROVE  \E i \in A : \A k \in A : i <= k
<1>. SUFFICES ASSUME \A i \in A : \E k \in A : ~(i <= k) PROVE FALSE
  OBVIOUS
<1>. DEFINE B == {n \in 1 .. N : \E i \in A : i <= n}
<1>1. ASSUME NEW n \in B PROVE n - 1 \in B
  <2>1. PICK i \in A : i <= n
    OBVIOUS
  <2>2. PICK k \in A : ~(i <= k)
    OBVIOUS
  <2>3. n \in 1 .. N /\ i \in 1 .. N /\ k \in 1 .. N
    OBVIOUS
  <2>4. k <= n - 1 /\ n - 1 \in 1 .. N
    BY <2>1, <2>2, <2>3
  <2>. QED
    BY <2>4
<1>2. B \in SUBSET (1 .. N)
  OBVIOUS
<1>3. PICK i \in A : TRUE
  OBVIOUS
<1>4. i \in B
  <2>1. i \in 1 .. N /\ i <= i
    OBVIOUS
  <2>. QED
    BY <2>1
<1>. HIDE DEF B
<1>. QED
  BY <1>1, <1>2, <1>4, Climb

\* What FlattenSeq computes, part by part.
LEMMA Flattening ==
  ASSUME NEW S, NEW s \in Seq(Seq(S)), Len(s) # 0
  PROVE  \E f : /\ \A n \in 1 .. Len(s) : f[n] \in Seq(S) /\ f[n] = IF n = 1 THEN s[n] ELSE f[n - 1] \o s[n]
               /\ FlattenSeq(s) = f[Len(s)]
<1> DEFINE G(g, n) == [i \in 1 .. n |-> IF i = 1 THEN s[i] ELSE g[i-1] \o s[i]]
           Bad == {n \in 1 .. Len(s) : ~ \E g \in [1 .. n -> Seq(S)] : g = G(g, n)}
<1>1. Bad = {}
  <2> SUFFICES ASSUME NEW n \in Bad PROVE n - 1 \in Bad
    <3>1. Len(s) \in Nat
      OBVIOUS
    <3>2. Bad \in SUBSET (1 .. Len(s))
      OBVIOUS
    <3> HIDE DEF Bad
    <3> QED BY <3>1, <3>2, Climb
  <2>1. n - 1 \in 1 .. Len(s) \/ n = 1
    OBVIOUS
  <2> SUFFICES ASSUME n - 1 \notin Bad PROVE FALSE
    OBVIOUS
  <2>3. n \in 1 .. Len(s) /\ s[n] \in Seq(S)
    OBVIOUS
  <2>4. CASE n = 1
    <3> DEFINE g == [i \in 1 .. n |-> s[n]]
    <3>1. g \in [1 .. n -> Seq(S)] /\ g = G(g, n)
      BY <2>3, <2>4
    <3> QED BY <3>1
  <2>5. CASE n # 1
    <3>1. n - 1 \in 1 .. Len(s) /\ n - 1 \notin Bad
      BY <2>1, <2>3, <2>5
    <3>2. PICK h \in [1 .. (n - 1) -> Seq(S)] : h = G(h, n - 1)
      BY <3>1
    <3>3. h[n - 1] \o s[n] \in Seq(S)
      <4>1. n - 1 \in 1 .. (n - 1)
        BY <3>1
      <4>2. h[n - 1] \in Seq(S)
        BY <3>2, <4>1
      <4> QED BY <4>2, <2>3, SMTT(30)
    <3> DEFINE g == [i \in 1 .. n |-> IF i = n THEN h[n - 1] \o s[n] ELSE h[i]]
    <3>4. g \in [1 .. n -> Seq(S)]
      <4>1. \A i \in 1 .. n : i # n => i \in 1 .. (n - 1)
        BY <2>3
      <4>2. \A i \in 1 .. n : i # n => h[i] \in Seq(S)
        BY <4>1, <3>2
      <4> QED BY <4>2, <3>3
    <3>5. ASSUME NEW i \in 1 .. n
          PROVE  g[i] = IF i = 1 THEN s[i] ELSE g[i - 1] \o s[i]
      <4>1. CASE i = n
        <5>1. g[i] = h[n - 1] \o s[n] BY <4>1
        <5>2. i - 1 \in 1 .. n /\ i - 1 # n BY <4>1, <2>5, <2>3
        <5>3. g[i - 1] = h[n - 1] BY <5>2, <4>1
        <5> QED BY <5>1, <5>3, <4>1, <2>5
      <4>2. CASE i # n
        <5>1. g[i] = h[i] /\ i \in 1 .. (n - 1) BY <4>2, <2>3
        <5>2. h[i] = IF i = 1 THEN s[i] ELSE h[i - 1] \o s[i] BY <5>1, <3>2
        <5>3. CASE i = 1 BY <5>1, <5>2, <5>3
        <5>4. CASE i # 1
          <6>1. i - 1 \in 1 .. n /\ i - 1 # n BY <5>4, <4>2, <2>3
          <6>2. g[i - 1] = h[i - 1] BY <6>1
          <6> QED BY <5>1, <5>2, <6>2, <5>4
        <5> QED BY <5>3, <5>4
      <4> QED BY <4>1, <4>2
    <3>6. g = G(g, n)
      BY <3>4, <3>5
    <3> QED BY <3>4, <3>6
  <2> QED BY <2>4, <2>5
<1> DEFINE f == CHOOSE g : g = G(g, Len(s))
<1>3. Len(s) \in 1 .. Len(s)
  OBVIOUS
<1>4. \E g : g = G(g, Len(s))
  BY <1>1, <1>3
<1>5. f = G(f, Len(s))
  BY <1>4
<1> DEFINE Untyped == {n \in 1 .. Len(s) : f[n] \notin Seq(S)}
<1> HIDE DEF f
<1>6. Untyped = {}
  <2>1. ASSUME NEW n \in Untyped PROVE n - 1 \in Untyped
    <3>1. n \in 1 .. Len(s) /\ f[n] \notin Seq(S) /\ s[n] \in Seq(S)
      OBVIOUS
    <3>2. f[n] = IF n = 1 THEN s[n] ELSE f[n - 1] \o s[n]
      BY <1>5, <3>1
    <3>3. n # 1 /\ n - 1 \in 1 .. Len(s)
      BY <3>1, <3>2
    <3>4. f[n - 1] \notin Seq(S)
      BY <3>1, <3>2, <3>3
    <3> QED BY <3>3, <3>4
  <2>2. Len(s) \in Nat /\ Untyped \in SUBSET (1 .. Len(s))
    OBVIOUS
  <2> HIDE DEF Untyped
  <2> QED BY <2>1, <2>2, Climb
<1>7. FlattenSeq(s) = f[Len(s)]
  BY DEF FlattenSeq, f
<1>8. \A n \in 1 .. Len(s) : f[n] \in Seq(S) /\ f[n] = IF n = 1 THEN s[n] ELSE f[n - 1] \o s[n]
  BY <1>5, <1>6
<1>. QED
  BY <1>7, <1>8

\* The flattening of sequences over S is one over S.
LEMMA Flattened ==
  ASSUME NEW S, NEW s \in Seq(Seq(S))
  PROVE  FlattenSeq(s) \in Seq(S)
<1>1. CASE Len(s) = 0
  <2>1. FlattenSeq(s) = << >>
    BY <1>1 DEF FlattenSeq
  <2>. QED
    BY <2>1
<1>2. CASE Len(s) # 0
  <2>1. Len(s) \in 1 .. Len(s)
    BY <1>2
  <2>. QED
    BY <1>2, <2>1, Flattening
<1>. QED
  BY <1>1, <1>2

\* A part of a sequence has some of its elements, none of them twice.
LEMMA Part ==
  ASSUME NEW S, NEW s \in Seq(S), NEW m \in Nat, NEW n \in Nat, 1 <= m, n <= Len(s)
  PROVE  /\ SubSeq(s, m, n) \in Seq(S) /\ Range(SubSeq(s, m, n)) \subseteq Range(s)
         /\ IsInjective(s) => IsInjective(SubSeq(s, m, n))
<1>1. Len(s) \in Nat /\ DOMAIN s = 1 .. Len(s) /\ \A i \in 1 .. Len(s) : s[i] \in S
  BY LenProperties, ElementOfSeq
<1>2. \A i \in m .. n : i \in 1 .. Len(s)
  BY <1>1
<1>. PICK t : t = SubSeq(s, m, n)
  OBVIOUS
<1>3. /\ t \in Seq(S) /\ Len(t) = IF m <= n THEN n - m + 1 ELSE 0
      /\ \A i \in 1 .. n - m + 1 : t[i] = s[m + i - 1]
  BY <1>1, <1>2, SubSeqProperties
<1>4. DOMAIN t = 1 .. Len(t) /\ \A i \in 1 .. Len(t) : i \in 1 .. n - m + 1 /\ m + i - 1 \in 1 .. Len(s)
  BY <1>1, <1>3, LenProperties
<1>5. \A i \in DOMAIN t : t[i] = s[m + i - 1] /\ m + i - 1 \in DOMAIN s
  BY <1>1, <1>3, <1>4
<1>6. Range(t) \subseteq Range(s)
  BY <1>5 DEF Range
<1>7. ASSUME IsInjective(s), NEW i \in DOMAIN t, NEW j \in DOMAIN t, t[i] = t[j]
      PROVE  i = j
  <2>1. m + i - 1 = m + j - 1
    BY <1>5, <1>7 DEF IsInjective
  <2>2. i \in Int /\ j \in Int
    BY <1>4
  <2>. QED
    BY <2>1, <2>2
<1>8. IsInjective(s) => IsInjective(t)
  BY <1>7 DEF IsInjective
<1>. QED
  BY <1>3, <1>6, <1>8

\* The last element is in what follows any place.
LEMMA Ending ==
  ASSUME NEW S, NEW s \in Seq(S), NEW m \in Nat, NEW e \in Nat, e = Len(s), 1 <= m, m <= e
  PROVE  s[e] \in Range(SubSeq(s, m, e))
<1>1. \A i \in 1 .. e : s[i] \in S
  BY ElementOfSeq
<1>2. \A i \in m .. e : s[i] \in S
  BY <1>1
<1>. PICK t : t = SubSeq(s, m, e)
  OBVIOUS
<1>3. /\ t \in Seq(S) /\ Len(t) = e - m + 1
      /\ \A i \in 1 .. e - m + 1 : t[i] = s[m + i - 1]
  BY <1>2, SubSeqProperties
<1>4. e - m + 1 \in 1 .. e - m + 1 /\ m + (e - m + 1) - 1 = e
  OBVIOUS
<1>5. DOMAIN t = 1 .. e - m + 1
  BY <1>3, LenProperties
<1>6. t[e - m + 1] = s[e]
  BY <1>3, <1>4
<1>. QED
  BY <1>4, <1>5, <1>6 DEF Range

\* One element more at the end, and none twice unless it was there.
LEMMA Longer ==
  ASSUME NEW S, NEW s \in Seq(S), NEW e \in S
  PROVE  /\ Append(s, e) \in Seq(S) /\ Len(Append(s, e)) = Len(s) + 1 /\ Append(s, e)[Len(s) + 1] = e
         /\ DOMAIN Append(s, e) = DOMAIN s \cup {Len(s) + 1} /\ Len(s) + 1 \notin DOMAIN s
         /\ \A i \in DOMAIN s : Append(s, e)[i] = s[i]
         /\ Range(Append(s, e)) = Range(s) \cup {e}
         /\ IsInjective(s) /\ e \notin Range(s) => IsInjective(Append(s, e))
<1>1. Len(s) \in Nat /\ DOMAIN s = 1 .. Len(s)
  BY LenProperties
<1>. PICK t : t = Append(s, e)
  OBVIOUS
<1>2. /\ t \in Seq(S) /\ Len(t) = Len(s) + 1 /\ \A i \in 1 .. Len(s) : t[i] = s[i]
      /\ t[Len(s) + 1] = e
  BY AppendProperties
<1>3. DOMAIN t = 1 .. Len(t)
  BY <1>2, LenProperties
<1>4. DOMAIN t = DOMAIN s \cup {Len(s) + 1} /\ Len(s) + 1 \notin DOMAIN s
  BY <1>1, <1>2, <1>3
<1>5. Range(t) = Range(s) \cup {e}
  <2>1. \A i \in DOMAIN s : t[i] = s[i]
    BY <1>1, <1>2
  <2>2. Range(t) = {t[i] : i \in DOMAIN s} \cup {t[Len(s) + 1]}
    BY <1>4 DEF Range
  <2>3. {t[i] : i \in DOMAIN s} = {s[i] : i \in DOMAIN s}
    BY <2>1
  <2>. QED
    BY <1>2, <2>2, <2>3 DEF Range
<1>6. IsInjective(s) /\ e \notin Range(s) => IsInjective(t)
  <2>. SUFFICES ASSUME IsInjective(s), e \notin Range(s), NEW i \in DOMAIN t, NEW j \in DOMAIN t, t[i] = t[j]
                PROVE  i = j
    BY DEF IsInjective
  <2>1. CASE i \in DOMAIN s /\ j \in DOMAIN s
    BY <1>1, <1>2, <2>1 DEF IsInjective
  <2>2. \A k \in DOMAIN s : t[k] # e
    BY <1>1, <1>2 DEF Range
  <2>. QED
    BY <1>2, <1>4, <2>1, <2>2
<1>. QED
  BY <1>1, <1>2, <1>4, <1>5, <1>6

-----------------------------------------------------------------------------
(* The inductive invariants *)

\* A journal whose restore is not done, of a checkpoint still on the branch.
Unsettled(j) == journals[j].id \in Range(order) /\ ~(journals[j].fin /\ ~journals[j].rr)

Restoring == {"plan", "files", "swap", "close", "mark"}

\* Where an operation is, and what it knows there.
Stage ==
  /\ up \/ pc = "idle"
  /\ pc \in {"idle", "txn", "scan", "go", "index"} => run = NoRun
  /\ pc \in Restoring \cup {"clear"} => run # NoRun
  /\ pc \in {"go", "index"} => scan = {}
  /\ op.kind = "begin" => op.id \notin used
  /\ pc = "index" => op.kind = "begin" /\ gate = {}
  /\ \A j \in DOMAIN journals : journals[j].id \in used

\* The journals a restore works for: the one it was resumed from and its own.
Journalled ==
  run # NoRun =>
    /\ run.from \in DOMAIN journals \cup {0} /\ run.jr \in DOMAIN journals \cup {0}
    /\ \A j \in {run.from, run.jr} \ {0} : journals[j].id = run.id
    /\ pc = "plan" => run.jr = 0
    /\ pc \in {"files", "swap", "apply", "close", "clear"} => run.jr # 0
    /\ pc = "mark" => run.from # 0
    /\ run.from # run.jr \/ run.from = 0
    /\ run.rr => run.id \in gate
    /\ pc \in {"plan", "files", "swap"} => run.id \in Range(order)
    /\ pc = "apply" => run.id \in Range(order) \/ (Unapplied = {} /\ order = txn.order)
    /\ pc = "mark" /\ run.jr # 0 => ~run.clean \/ run.id \in gate \/ ~Unsettled(run.jr)

\* A branch update that is not done takes nothing but checkpoints away, and one
\* that was passed over has closed the gate.
Updating ==
  txn # NoTxn =>
    /\ Range(txn.order) \subseteq Range(order) /\ IsInjective(txn.order)
    /\ pc \in Restoring \cup {"scan", "go", "index"} => gate \cap Range(order) # {}

\* Each restore that is not done is still to be looked at, closes the gate, or
\* is at work.
Covered ==
  /\ pc \in {"txn", "scan", "go", "index"} =>
       \A j \in DOMAIN journals : Unsettled(j) => j \in scan \/ journals[j].id \in gate
  /\ pc \in Restoring \cup {"apply"} /\ run # NoRun =>
       \A j \in DOMAIN journals : Unsettled(j) =>
         j \in scan \cup {run.from, run.jr} \/ journals[j].id \in gate

GateInv == Stage /\ Journalled /\ Updating /\ Covered /\ TurnsOnlySettled

\* What is to be restored has a trail.
Chained ==
  /\ pc = "plan" => run.cur = {}
  /\ pc \in {"files", "swap"} => \A p \in run.todo \cup run.cur : Chain(p, Selected) # << >>

IndInv == TypeOK /\ GateInv /\ Chained

-----------------------------------------------------------------------------
(* What is restored, and what stays *)

LEMMA PlaceIs ==
  ASSUME TypeOK, NEW c \in Range(order)
  PROVE  Place(c) \in 1 .. Len(order) /\ order[Place(c)] = c /\ c \in Ids
<1>1. \E i \in DOMAIN order : order[i] = c
  BY DEF Range
<1>2. Place(c) \in DOMAIN order /\ order[Place(c)] = c
  BY <1>1 DEF Place
<1>3. order \in Seq(Ids)
  BY DEF TypeOK
<1>4. DOMAIN order = 1 .. Len(order)
  BY <1>3, LenProperties
<1>5. Range(order) \in SUBSET Ids
  BY <1>3, RangeOfSeq
<1>. QED
  BY <1>2, <1>4, <1>5

LEMMA SelectedIs ==
  ASSUME TypeOK, run \in Runs, run.id \in Range(order)
  PROVE  /\ Selected \in Seq(Ids) /\ Range(Selected) \subseteq Range(order)
         /\ Earlier \in Seq(Ids) /\ Range(Earlier) \subseteq Range(order) /\ IsInjective(Earlier)
<1>1. order \in Seq(Ids) /\ IsInjective(order) /\ Len(order) \in Nat
  BY LenProperties DEF TypeOK
<1>2. Start \in Nat /\ 1 <= Start /\ Start - 1 \in Nat /\ Start - 1 <= Len(order)
  <2>1. Place(run.id) \in 1 .. Len(order)
    BY PlaceIs
  <2>2. Start = Place(run.id) \/ Start = Place(run.id) + 1
    BY DEF Start
  <2>. QED
    BY <1>1, <2>1, <2>2
<1>3. Selected \in Seq(Ids) /\ Range(Selected) \subseteq Range(order)
  BY <1>1, <1>2, Part DEF Selected
<1>4. Earlier \in Seq(Ids) /\ Range(Earlier) \subseteq Range(order) /\ IsInjective(Earlier)
  <2>1. 1 \in Nat /\ 1 <= 1
    OBVIOUS
  <2>. QED
    BY <1>1, <1>2, <2>1, Part DEF Earlier
<1>. QED
  BY <1>3, <1>4

LEMMA ChainIs ==
  ASSUME manifest \in [Ids -> Manifests], NEW p \in Paths, NEW ids \in Seq(Ids)
  PROVE  /\ Chain(p, ids) \in Seq(Changes)
         /\ Chain(p, ids) # << >> => Head(Chain(p, ids)) \in Changes /\ Last(Chain(p, ids)) \in Changes
<1>. DEFINE trails == [i \in DOMAIN ids |-> manifest[ids[i]].ops[p]]
<1>1. Len(ids) \in Nat /\ DOMAIN ids = 1 .. Len(ids) /\ \A i \in 1 .. Len(ids) : ids[i] \in Ids
  BY LenProperties, ElementOfSeq
<1>2. \A c \in Ids : manifest[c].ops[p] \in Seq(Changes)
  BY DEF Manifests
<1>3. trails \in [1 .. Len(ids) -> Seq(Changes)]
  BY <1>1, <1>2
<1>4. trails \in Seq(Seq(Changes))
  <2>. HIDE DEF trails
  <2>. QED
    BY <1>1, <1>3, SeqDef
<1>5. Chain(p, ids) \in Seq(Changes)
  BY <1>4, Flattened DEF Chain
<1>. PICK t : t = Chain(p, ids)
  OBVIOUS
<1>6. ASSUME t # << >> PROVE Head(t) \in Changes /\ Last(t) \in Changes
  <2>1. t \in Seq(Changes) /\ Len(t) \in Nat /\ Len(t) # 0
    BY <1>5, <1>6, EmptySeq
  <2>2. Head(t) \in Changes
    BY <1>6, <2>1
  <2>3. t[Len(t)] \in Changes
    BY <2>1, ElementOfSeq
  <2>. QED
    BY <2>2, <2>3 DEF Last
<1>. QED
  BY <1>5, <1>6

-----------------------------------------------------------------------------
(* Every step keeps the types: the turn *)

LEMMA ManifestIs ==
  ASSUME manifest \in [Ids -> Manifests], NEW c \in Ids
  PROVE  /\ \A w \in SUBSET Paths : [manifest[c] EXCEPT !.warn = w] \in Manifests
         /\ \A b \in BOOLEAN : [manifest[c] EXCEPT !.blind = b] \in Manifests
         /\ \A o \in [Paths -> Seq(Changes)] : [manifest[c] EXCEPT !.ops = o] \in Manifests
         /\ \A st \in {"none", "open", "done", "retired"} : [manifest[c] EXCEPT !.st = st] \in Manifests
         /\ manifest[c].ops \in [Paths -> Seq(Changes)] /\ manifest[c].warn \in SUBSET Paths
<1>1. manifest[c] \in Manifests
  OBVIOUS
<1>. QED
  BY <1>1 DEF Manifests

LEMMA BlankIs ==
  ASSUME NEW st \in {"none", "open", "done", "retired"}
  PROVE  Blank(st) \in Manifests
<1>1. NoOps \in [Paths -> Seq(Changes)]
  BY DEF NoOps
<1>. QED
  BY <1>1 DEF Blank, Manifests

LEMMA FinalizedIs ==
  ASSUME TypeOK, NEW c \in Ids
  PROVE  Finalized(c) \in Manifests
<1>. DEFINE w == manifest[c].warn \cup {r.path : r \in {x \in pending : x.id = c}}
<1>1. manifest \in [Ids -> Manifests] /\ \A r \in pending : r.path \in Paths
  BY DEF TypeOK
<1>2. manifest[c] \in Manifests /\ w \in SUBSET Paths
  BY <1>1 DEF Manifests
<1>3. Finalized(c) = [manifest[c] EXCEPT !.st = "done", !.warn = w]
  BY DEF Finalized
<1>. HIDE DEF w
<1>. QED
  BY <1>2, <1>3 DEF Manifests

LEMMA TypedFinish ==
  ASSUME TypeOK, Finish
  PROVE  TypeOK'
<1>1. active \in Ids
  BY RangeOfSeq DEF TypeOK, Finish, InTurn
<1>2. Finalized(active) \in Manifests
  BY <1>1, FinalizedIs
<1>3. manifest' \in [Ids -> Manifests] /\ pending' \subseteq pending
  BY <1>1, <1>2 DEF TypeOK, Finish, Save
<1>4. calls' \in [Calls -> {Idle}]
  BY DEF Finish
<1>. QED
  BY <1>3, <1>4 DEF TypeOK, Finish, InTurn, work, bounds, history

LEMMA TypedPre ==
  ASSUME TypeOK, NEW k \in Calls, NEW p \in Paths, Pre(k, p) \/ PreUnknown(k, p)
  PROVE  TypeOK'
<1>1. active \in Ids /\ made' = made + 1 /\ made \in Nat /\ made' \in 1 .. made'
  BY RangeOfSeq DEF TypeOK, Pre, PreUnknown, InTurn
<1>2. manifest' \in [Ids -> Manifests]
  <2>1. manifest \in [Ids -> Manifests]
    BY DEF TypeOK
  <2>2. [manifest[active] EXCEPT !.blind = TRUE] \in Manifests
    BY <1>1, <2>1, ManifestIs
  <2>. QED
    BY <2>1, <2>2 DEF Pre, PreUnknown, Save
<1>3. 1 .. made \subseteq 1 .. made'
  BY <1>1
<1>4. pending' \subseteq [id : Ids, call : 1 .. made', path : Paths, before : States \cup {Unsafe}]
  <2>1. file[p] \in States
    BY DEF TypeOK
  <2>2. pending \subseteq [id : Ids, call : 1 .. made', path : Paths, before : States \cup {Unsafe}]
    BY <1>3 DEF TypeOK
  <2>. QED
    BY <1>1, <2>1, <2>2 DEF Pre, PreUnknown
<1>5. calls' \in [Calls -> [st : {"pre", "ran", "posted", "lost"}, path : Paths, call : 1 .. made'] \cup {Idle}]
  <2>1. PICK x : x \in [st : {"pre", "ran", "posted", "lost"}, path : Paths, call : 1 .. made'] /\ Became(k, x)
    BY <1>1 DEF Pre, PreUnknown
  <2>2. calls \in [Calls -> [st : {"pre", "ran", "posted", "lost"}, path : Paths, call : 1 .. made'] \cup {Idle}]
    BY <1>3 DEF TypeOK
  <2>. QED
    BY <2>1, <2>2 DEF Became
<1>. QED
  BY <1>1, <1>2, <1>4, <1>5 DEF TypeOK, Pre, PreUnknown, InTurn, work

LEMMA TypedToolWrite ==
  ASSUME TypeOK, NEW k \in Calls, ToolWrite(k)
  PROVE  TypeOK'
<1>. DEFINE p == calls[k].path
            Slots == [st : {"pre", "ran", "posted", "lost"}, path : Paths, call : 1 .. made]
<1>1. /\ calls[k] \in Slots /\ calls[k] # Idle /\ p \in Paths /\ clock \in Nat
      /\ file \in [Paths -> States] /\ Absent \in States
  BY DEF TypeOK, ToolWrite, States, Absent
<1>. HIDE DEF p
<1>2. PICK new : /\ file' = [file EXCEPT ![p] = new]
                 /\ new \in {[data |-> clock + 1, ino |-> IF file[p] = Absent THEN clock + 1 ELSE file[p].ino], Absent}
  BY DEF ToolWrite, p
<1>3. new \in States
  BY <1>1, <1>2 DEF States, Absent
<1>4. file' \in [Paths -> States]
  BY <1>1, <1>2, <1>3
<1>5. clock' \in Nat
  BY <1>1 DEF ToolWrite
<1>6. calls' \in [Calls -> Slots \cup {Idle}]
  <2>1. [calls[k] EXCEPT !.st = "ran"] \in Slots
    BY <1>1
  <2>2. calls \in [Calls -> Slots \cup {Idle}]
    BY DEF TypeOK
  <2>. HIDE DEF Slots
  <2>. QED
    BY <2>1, <2>2 DEF ToolWrite, Became
<1>. QED
  BY <1>4, <1>5, <1>6 DEF TypeOK, ToolWrite, disk, work

LEMMA TypedPost ==
  ASSUME TypeOK, NEW k \in Calls, Post(k)
  PROVE  TypeOK'
<1>. DEFINE Slots == [st : {"pre", "ran", "posted", "lost"}, path : Paths, call : 1 .. made]
<1>1. active \in Ids /\ calls[k] \in Slots /\ calls \in [Calls -> Slots \cup {Idle}]
  BY RangeOfSeq DEF TypeOK, Post, InTurn
<1>2. calls' \in [Calls -> Slots \cup {Idle}]
  <2>1. [calls[k] EXCEPT !.st = "posted"] \in Slots
    BY <1>1
  <2>. HIDE DEF Slots
  <2>. QED
    BY <1>1, <2>1 DEF Post, Became
<1>3. manifest' \in [Ids -> Manifests]
  <2>1. CASE UNCHANGED manifest
    BY <2>1 DEF TypeOK
  <2>2. CASE ~ UNCHANGED manifest
    <3>1. PICK r \in Record(k) :
            LET m == manifest[active]
                change == [before |-> r.before, after |-> file[r.path]] IN
            Save(active, CASE r.before = Unsafe -> [m EXCEPT !.warn = @ \cup {r.path}]
                           [] r.before.data = file[r.path].data -> m
                           [] OTHER -> [m EXCEPT !.ops[r.path] = Append(@, change)])
      BY <2>2 DEF Post
    <3>. DEFINE m == manifest[active]
                change == [before |-> r.before, after |-> file[r.path]]
                ops == [m.ops EXCEPT ![r.path] = Append(m.ops[r.path], change)]
    <3>2. r.path \in Paths /\ r.before \in States \cup {Unsafe} /\ file \in [Paths -> States] /\ m \in Manifests
      BY <1>1 DEF Record, TypeOK
    <3>3. m.ops \in [Paths -> Seq(Changes)] /\ m.warn \in SUBSET Paths
      BY <3>2 DEF Manifests
    <3>4. r.before # Unsafe => [m EXCEPT !.ops[r.path] = Append(@, change)] \in Manifests
      <4>. SUFFICES ASSUME r.before # Unsafe
                    PROVE  [m EXCEPT !.ops[r.path] = Append(@, change)] \in Manifests
        OBVIOUS
      <4>1. change \in Changes
        BY <3>2 DEF Changes
      <4>2. Append(m.ops[r.path], change) \in Seq(Changes)
        BY <3>2, <3>3, <4>1, AppendProperties
      <4>3. ops \in [Paths -> Seq(Changes)]
        BY <3>3, <4>2
      <4>4. [m EXCEPT !.ops = ops] \in Manifests
        BY <3>2, <4>3 DEF Manifests
      <4>. QED
        BY <4>4, Zenon
    <3>5. [m EXCEPT !.warn = @ \cup {r.path}] \in Manifests
      BY <3>2, <3>3 DEF Manifests
    <3>6. \E n \in Manifests : Save(active, n)
      <4>1. \/ r.before = Unsafe /\ Save(active, [m EXCEPT !.warn = @ \cup {r.path}])
            \/ r.before # Unsafe /\ Save(active, m)
            \/ r.before # Unsafe /\ Save(active, [m EXCEPT !.ops[r.path] = Append(@, change)])
        <5>1. r.before = Unsafe => r.before.data # file[r.path].data
          BY <3>2 DEF Unsafe, States, Absent
        <5>. DEFINE v == CASE r.before = Unsafe -> [m EXCEPT !.warn = @ \cup {r.path}]
                           [] r.before.data = file[r.path].data -> m
                           [] OTHER -> [m EXCEPT !.ops[r.path] = Append(@, change)]
        <5>2. \/ r.before = Unsafe /\ v = [m EXCEPT !.warn = @ \cup {r.path}]
              \/ r.before # Unsafe /\ v = m
              \/ r.before # Unsafe /\ v = [m EXCEPT !.ops[r.path] = Append(@, change)]
          <6>. HIDE DEF m, change
          <6>. QED
            BY <5>1
        <5>. QED
          BY <3>1, <5>2, Zenon
      <4>. HIDE DEF m, change
      <4>. QED
        BY <3>2, <3>4, <3>5, <4>1, Zenon
    <3>7. PICK n \in Manifests : Save(active, n)
      BY <3>6
    <3>8. manifest \in [Ids -> Manifests]
      BY DEF TypeOK
    <3>. QED
      BY <1>1, <3>7, <3>8 DEF Save
  <2>. QED
    BY <2>1, <2>2
<1>. QED
  BY <1>2, <1>3 DEF TypeOK, Post, work, bounds, history

LEMMA TypedDiscard ==
  ASSUME TypeOK, NEW k \in Calls, Discard(k)
  PROVE  TypeOK'
<1>1. calls' \in [Calls -> [st : {"pre", "ran", "posted", "lost"}, path : Paths, call : 1 .. made] \cup {Idle}]
  BY DEF TypeOK, Discard, Became
<1>2. pending' \subseteq pending
  BY DEF Discard
<1>. QED
  BY <1>1, <1>2 DEF TypeOK, Discard, work, bounds, history

-----------------------------------------------------------------------------
(* The recovery of the store *)

LEMMA TypedUpdate ==
  ASSUME TypeOK, txn # NoTxn
  PROVE  txn \in Updates /\ DOMAIN txn.manifest = Ids
         /\ \A c \in Ids : txn.manifest[c] \in Manifests
<1>1. txn \in Updates
  BY DEF TypeOK
<1>. QED
  BY <1>1 DEF Updates

LEMMA RunFields ==
  ASSUME run \in Runs, NEW b \in BOOLEAN
  PROVE  /\ [run EXCEPT !.clean = b] \in Runs
         /\ \A c \in BOOLEAN : [run EXCEPT !.clean = b, !.rr = c] \in Runs
         /\ [run EXCEPT !.todo = {}, !.clean = b, !.jok = b] \in Runs
         /\ \A T \in SUBSET Paths : [run EXCEPT !.todo = T, !.clean = b] \in Runs
         /\ \A T \in SUBSET Paths, C \in SUBSET Paths : [run EXCEPT !.todo = T, !.cur = C] \in Runs
  BY DEF Runs

LEMMA TypedApply ==
  ASSUME IndInv, ApplyManifest \/ ApplyIndex \/ ApplyDone \/ ApplyError
  PROVE  TypeOK'
<1>1. TypeOK /\ txn # NoTxn /\ pc # "idle" /\ active = NoId
  BY DEF IndInv, TypeOK, ApplyManifest, ApplyIndex, ApplyDone, ApplyError
<1>2. txn \in Updates /\ DOMAIN txn.manifest = Ids /\ \A c \in Ids : txn.manifest[c] \in Manifests
  BY <1>1, TypedUpdate
<1>3. CASE ApplyManifest
  <2>1. manifest' \in [Ids -> Manifests]
    BY <1>1, <1>2, <1>3 DEF ApplyManifest, Unapplied, Save, TypeOK
  <2>. QED
    BY <1>1, <1>3, <2>1 DEF TypeOK, ApplyManifest, memory, work, bounds, history
<1>4. CASE ApplyIndex
  <2>1. order' \in Seq(Ids) /\ IsInjective(order') /\ Range(order') \subseteq Range(order)
    BY <1>1, <1>2, <1>4 DEF ApplyIndex, IndInv, GateInv, Updating, Updates
  <2>. QED
    BY <1>1, <1>4, <2>1 DEF TypeOK, ApplyIndex, memory, work, bounds, history
<1>5. CASE ApplyDone
  <2>1. CASE run # NoRun \/ pc # "apply"
    BY <1>1, <1>5, <2>1 DEF TypeOK, ApplyDone, memory, bounds, history
  <2>2. CASE run = NoRun /\ pc = "apply"
    <3>1. pc' = "idle" /\ op' = NoOp /\ scan' = {} /\ run' = NoRun /\ pending' \subseteq pending
      BY <1>5, <2>2 DEF ApplyDone, End
    <3>2. txn' = NoTxn /\ UNCHANGED <<file, order, used, manifest, journals, memory, full, bounds, history>>
      BY <1>5 DEF ApplyDone
    <3>. QED
      BY <1>1, <3>1, <3>2 DEF TypeOK, memory, bounds, history, NoOp
  <2>. QED
    BY <2>1, <2>2
<1>6. CASE ApplyError
  <2>1. CASE run # NoRun
    <3>1. run \in Runs /\ [run EXCEPT !.clean = FALSE, !.rr = TRUE] \in Runs /\ run.id \in Ids
      BY <1>1, <2>1, RunFields DEF TypeOK, Runs
    <3>. QED
      BY <1>1, <1>6, <2>1, <3>1 DEF TypeOK, ApplyError, disk, bounds, history
  <2>2. CASE run = NoRun
    <3>1. pc' = "idle" /\ op' = NoOp /\ scan' = {} /\ run' = NoRun /\ up' \in BOOLEAN /\ UNCHANGED gate
      BY <1>6, <2>2 DEF ApplyError, Refuse, End
    <3>2. UNCHANGED <<file, disk, active, calls, full, bounds, history>>
      BY <1>6 DEF ApplyError
    <3>. QED
      BY <1>1, <3>1, <3>2 DEF TypeOK, disk, bounds, history, NoOp
  <2>. QED
    BY <2>1, <2>2
<1>. QED
  BY <1>3, <1>4, <1>5, <1>6

LEMMA NewRunIs ==
  ASSUME NEW c \in Ids, NEW i \in BOOLEAN, NEW r \in BOOLEAN, NEW n \in Nat
  PROVE  NewRun(c, i, r, n) \in Runs
<1>1. [p \in Paths |-> Never] \in [Paths -> States \cup {Never}]
  OBVIOUS
<1>. QED
  BY <1>1 DEF NewRun, Runs

LEMMA JournalIs ==
  ASSUME journals \in Seq(Journals), NEW j \in DOMAIN journals
  PROVE  /\ j \in Nat \ {0} /\ journals[j] \in Journals
         /\ \A J \in Journals : /\ [journals EXCEPT ![j] = J] \in Seq(Journals)
                                /\ DOMAIN [journals EXCEPT ![j] = J] = DOMAIN journals
         /\ \A f, r \in BOOLEAN : [journals[j] EXCEPT !.fin = f, !.rr = r] \in Journals
<1>1. DOMAIN journals = 1 .. Len(journals) /\ Len(journals) \in Nat
  BY LenProperties
<1>2. journals[j] \in Journals
  BY <1>1, ElementOfSeq
<1>3. \A f, r \in BOOLEAN : [journals[j] EXCEPT !.fin = f, !.rr = r] \in Journals
  BY <1>2 DEF Journals
<1>4. ASSUME NEW J \in Journals
      PROVE  /\ [journals EXCEPT ![j] = J] \in Seq(Journals)
             /\ DOMAIN [journals EXCEPT ![j] = J] = DOMAIN journals
  BY <1>1, ExceptSeq
<1>5. j \in Nat \ {0}
  BY <1>1
<1>. QED
  BY <1>2, <1>3, <1>4, <1>5, Zenon

LEMMA LeastOf ==
  ASSUME TypeOK, scan # {}
  PROVE  (CHOOSE i \in scan : \A k \in scan : i <= k) \in scan
<1>1. Len(journals) \in Nat /\ scan \in SUBSET (1 .. Len(journals))
  BY LenProperties DEF TypeOK
<1>. QED
  BY <1>1, First

LEMMA TypedScan ==
  ASSUME IndInv, Scan \/ ScanDone
  PROVE  TypeOK'
<1>1. TypeOK /\ pc = "scan" /\ active = NoId /\ run = NoRun
  BY DEF IndInv, GateInv, Stage, TypeOK, Scan, ScanDone
<1>2. CASE ScanDone
  BY <1>1, <1>2 DEF TypeOK, ScanDone, disk, memory, bounds, history
<1>3. CASE Scan
  <2>. PICK j : j = CHOOSE i \in scan : \A k \in scan : i <= k
    OBVIOUS
  <2>1. j \in scan /\ j \in DOMAIN journals
    BY <1>1, <1>3, LeastOf DEF Scan, TypeOK
  <2>2. /\ journals \in Seq(Journals) /\ j \in Nat \ {0} /\ journals[j] \in Journals
        /\ [journals EXCEPT ![j] = Settled(j)] \in Seq(Journals)
        /\ DOMAIN [journals EXCEPT ![j] = Settled(j)] = DOMAIN journals
    BY <1>1, <2>1, JournalIs DEF TypeOK, Settled
  <2>3. /\ journals[j].id \in Ids /\ journals[j].incl \in BOOLEAN /\ journals[j].ret \in BOOLEAN
        /\ journals[j].fin \in BOOLEAN /\ journals[j].rr \in BOOLEAN
    BY <2>2 DEF Journals
  <2>4. NewRun(journals[j].id, journals[j].incl, journals[j].ret, j) \in Runs
    BY <2>2, <2>3, NewRunIs
  <2>5. UNCHANGED <<file, order, used, manifest, pending, txn, active, calls, full, bounds, history>>
    BY <1>3 DEF Scan
  <2>6. CASE /\ gate' = IF journals[j].rr THEN gate \cup {journals[j].id} ELSE gate
             /\ scan' = scan \ {j} /\ UNCHANGED <<journals, up, pc, op, run>>
    BY <1>1, <2>3, <2>5, <2>6 DEF TypeOK, bounds, history
  <2>7. CASE /\ Journal(j, Settled(j))
             /\ gate' = IF journals[j].fin THEN gate \ {journals[j].id} ELSE gate
             /\ scan' = scan \ {j} /\ UNCHANGED <<up, pc, op, run>>
    <3>1. \A i \in DOMAIN journals' : journals'[i].rr => journals'[i].fin
      BY <1>1, <2>1, <2>2, <2>7 DEF Journal, Settled, Journals, TypeOK
    <3>. QED
      BY <1>1, <2>2, <2>5, <2>7, <3>1 DEF TypeOK, bounds, history, Journal
  <2>8. CASE Refuse /\ UNCHANGED <<journals, gate>>
    BY <1>1, <2>5, <2>8 DEF TypeOK, bounds, history, Refuse, End, NoOp
  <2>9. CASE /\ run' = NewRun(journals[j].id, journals[j].incl, journals[j].ret, j) /\ pc' = "plan"
             /\ scan' = scan \ {j} /\ UNCHANGED <<journals, gate, up, op>>
    BY <1>1, <2>4, <2>5, <2>9 DEF TypeOK, bounds, history
  <2>10. \/ /\ gate' = IF journals[j].rr THEN gate \cup {journals[j].id} ELSE gate
            /\ scan' = scan \ {j} /\ UNCHANGED <<journals, up, pc, op, run>>
         \/ /\ Journal(j, Settled(j))
            /\ gate' = IF journals[j].fin THEN gate \ {journals[j].id} ELSE gate
            /\ scan' = scan \ {j} /\ UNCHANGED <<up, pc, op, run>>
         \/ Refuse /\ UNCHANGED <<journals, gate>>
         \/ /\ run' = NewRun(journals[j].id, journals[j].incl, journals[j].ret, j) /\ pc' = "plan"
            /\ scan' = scan \ {j} /\ UNCHANGED <<journals, gate, up, op>>
    BY <1>3 DEF Scan
  <2>. QED
    BY <2>6, <2>7, <2>8, <2>9, <2>10
<1>. QED
  BY <1>2, <1>3

-----------------------------------------------------------------------------
(* A restore *)

\* What a restore that is planned or at work is about.
LEMMA AtWork ==
  ASSUME IndInv, pc \in Restoring \cup {"clear"}
  PROVE  /\ TypeOK /\ run \in Runs /\ active = NoId /\ pc # "idle"
         /\ run.id \in Ids /\ run.incl \in BOOLEAN /\ run.ret \in BOOLEAN /\ run.clean \in BOOLEAN
         /\ run.rr \in BOOLEAN /\ run.jok \in BOOLEAN /\ run.from \in Nat /\ run.jr \in Nat
         /\ run.from # 0 => run.from \in DOMAIN journals
         /\ run.jr # 0 => run.jr \in DOMAIN journals
         /\ pc \in {"plan", "files", "swap"} => run.id \in Range(order)
<1>1. TypeOK /\ run # NoRun /\ run \in Runs /\ pc # "idle" /\ active = NoId
  BY DEF IndInv, GateInv, Stage, TypeOK, Restoring
<1>2. /\ run.id \in Ids /\ run.incl \in BOOLEAN /\ run.ret \in BOOLEAN /\ run.clean \in BOOLEAN
      /\ run.rr \in BOOLEAN /\ run.jok \in BOOLEAN /\ run.from \in Nat /\ run.jr \in Nat
  BY <1>1 DEF Runs
<1>3. /\ run.from # 0 => run.from \in DOMAIN journals
      /\ run.jr # 0 => run.jr \in DOMAIN journals
      /\ pc \in {"plan", "files", "swap"} => run.id \in Range(order)
  BY <1>1 DEF IndInv, GateInv, Journalled
<1>. QED
  BY <1>1, <1>2, <1>3

LEMMA UnfinishedIs ==
  ASSUME IndInv, pc \in {"plan", "go"}
  PROVE  Unfinished \subseteq Ids
<1>1. TypeOK /\ order \in Seq(Ids) /\ Range(order) \subseteq Ids /\ Len(order) \in Nat
  BY RangeOfSeq, LenProperties DEF IndInv, TypeOK
<1>2. CASE run # NoRun
  <2>1. pc = "plan"
    BY <1>2 DEF IndInv, GateInv, Stage
  <2>2. Range(Selected) \subseteq Ids
    BY <1>1, <2>1, AtWork, SelectedIs DEF Restoring
  <2>. QED
    BY <1>2, <2>2 DEF Unfinished
<1>3. CASE run = NoRun /\ op.kind = "reconcile" /\ op.keep > 0
  <2>1. op.keep \in Nat /\ 1 <= op.keep
    BY <1>1, <1>3 DEF TypeOK
  <2>2. Range(SubSeq(order, op.keep, Len(order))) \subseteq Range(order)
    BY <1>1, <2>1, Part
  <2>. QED
    BY <1>1, <1>3, <2>2 DEF Unfinished
<1>. QED
  BY <1>2, <1>3 DEF Unfinished

LEMMA TypedPlan ==
  ASSUME IndInv, CloseTurn \/ PlanError \/ Plan
  PROVE  TypeOK'
<1>1. TypeOK /\ pc \in {"plan", "go"}
  BY DEF IndInv, CloseTurn, PlanError, Plan
<1>2. CASE CloseTurn
  <2>1. PICK c \in Unfinished : Save(c, Finalized(c)) /\ pending' = {r \in pending : r.id # c}
    BY <1>2 DEF CloseTurn
  <2>2. c \in Ids
    BY <1>1, <2>1, UnfinishedIs
  <2>3. Finalized(c) \in Manifests /\ manifest \in [Ids -> Manifests]
    BY <1>1, <2>2, FinalizedIs DEF TypeOK
  <2>4. manifest' \in [Ids -> Manifests] /\ pending' \subseteq pending
    BY <2>1, <2>2, <2>3 DEF Save
  <2>. QED
    BY <1>1, <1>2, <2>4 DEF TypeOK, CloseTurn, memory, work, bounds, history
<1>3. CASE PlanError
  <2>1. pc = "plan" /\ run \in Runs /\ active = NoId /\ pc # "idle"
    BY <1>3, AtWork DEF PlanError, Restoring
  <2>2. [run EXCEPT !.clean = FALSE] \in Runs
    BY <2>1, RunFields
  <2>3. \/ pc' = "idle" /\ op' = NoOp /\ scan' = {} /\ run' = NoRun
        \/ pc' = "mark" /\ run' = [run EXCEPT !.clean = FALSE] /\ UNCHANGED <<op, scan>>
    BY <1>3 DEF PlanError, End
  <2>4. UNCHANGED <<file, disk, memory, full, bounds, history>>
    BY <1>3 DEF PlanError
  <2>5. CASE pc' = "idle" /\ op' = NoOp /\ scan' = {} /\ run' = NoRun
    BY <1>1, <2>1, <2>4, <2>5 DEF TypeOK, disk, memory, bounds, history, NoOp
  <2>6. CASE pc' = "mark" /\ run' = [run EXCEPT !.clean = FALSE] /\ UNCHANGED <<op, scan>>
    BY <1>1, <2>1, <2>2, <2>4, <2>6 DEF TypeOK, disk, memory, bounds, history
  <2>. QED
    BY <2>3, <2>5, <2>6
<1>4. CASE Plan
  <2>1. pc = "plan" /\ run \in Runs /\ active = NoId /\ pc # "idle" /\ run.id \in Range(order)
    BY <1>4, AtWork DEF Plan, Restoring
  <2>2. ToSwap \subseteq Paths /\ There \subseteq Paths
    BY DEF ToSwap, There, Fit, Traced
  <2>3. run' \in Runs
    <3>1. [p \in Paths |-> IF p \in There THEN file[p] ELSE Never] \in [Paths -> States \cup {Never}]
      BY <1>1 DEF TypeOK
    <3>2. Len(journals) + 1 \in Nat
      BY <1>1, LenProperties DEF TypeOK
    <3>. DEFINE clean == /\ ~Blinded(Range(Selected)) /\ Warned(Range(Selected)) = {}
                         /\ Traced = There \cup ToSwap
    <3>3. clean \in BOOLEAN
      BY Zenon DEF Blinded
    <3>4. run' = [run EXCEPT !.jr = Len(journals) + 1, !.todo = ToSwap,
                             !.got = [p \in Paths |-> IF p \in There THEN file[p] ELSE Never],
                             !.clean = clean]
      BY <1>4 DEF Plan
    <3>. HIDE DEF clean
    <3>. QED
      BY <2>1, <2>2, <3>1, <3>2, <3>3, <3>4 DEF Runs
  <2>4. /\ journals' \in Seq(Journals) /\ DOMAIN journals \subseteq DOMAIN journals'
        /\ \A j \in DOMAIN journals' : journals'[j].rr => journals'[j].fin
    <3>. DEFINE J == [id |-> run.id, incl |-> run.incl, ret |-> run.ret, fin |-> FALSE, rr |-> FALSE]
    <3>1. J \in Journals
      BY <2>1 DEF Runs, Journals
    <3>2. journals' = Append(journals, J) /\ journals \in Seq(Journals)
      BY <1>1, <1>4 DEF Plan, TypeOK
    <3>3. J.rr = FALSE
      OBVIOUS
    <3>. HIDE DEF J
    <3>4. \A j \in DOMAIN journals : journals[j].rr => journals[j].fin
      BY <1>1 DEF TypeOK
    <3>. QED
      BY <3>1, <3>2, <3>3, <3>4, Longer
  <2>. QED
    BY <1>1, <1>4, <2>1, <2>3, <2>4 DEF TypeOK, Plan, disk, memory, bounds, history
<1>. QED
  BY <1>2, <1>3, <1>4

LEMMA TypedEnd ==
  ASSUME TypeOK, End, UNCHANGED <<file, order, used, manifest, pending, txn, full, clock, made>>,
         up' \in BOOLEAN, gate' \subseteq Ids, active' = NoId,
         calls' = calls \/ calls' = [k \in Calls |-> Idle],
         journals' \in Seq(Journals), \A j \in DOMAIN journals' : journals'[j].rr => journals'[j].fin
  PROVE  TypeOK'
<1>1. pc' = "idle" /\ op' = NoOp /\ scan' = {} /\ run' = NoRun
  BY DEF End
<1>2. calls' \in [Calls -> [st : {"pre", "ran", "posted", "lost"}, path : Paths, call : 1 .. made] \cup {Idle}]
  BY DEF TypeOK
<1>. QED
  BY <1>1, <1>2 DEF TypeOK, NoOp

LEMMA TypedCompare ==
  ASSUME IndInv, NEW p \in Paths, Compare(p)
  PROVE  TypeOK'
<1>1. TypeOK /\ run \in Runs /\ active = NoId /\ pc # "idle"
  BY AtWork DEF Compare, Restoring
<1>2. run' \in Runs
  <2>1. \/ run' = [run EXCEPT !.todo = {}, !.clean = FALSE, !.jok = FALSE]
        \/ run' = [run EXCEPT !.todo = @ \ {p}, !.clean = FALSE]
        \/ run' = [run EXCEPT !.todo = @ \ {p}, !.cur = {p}]
    BY DEF Compare
  <2>2. run.todo \ {p} \in SUBSET Paths /\ {p} \in SUBSET Paths
    BY <1>1 DEF Runs
  <2>. QED
    BY <1>1, <2>1, <2>2, RunFields
<1>3. pc' \in {"files", "swap"}
  BY DEF Compare
<1>. QED
  BY <1>1, <1>2, <1>3 DEF TypeOK, Compare, disk, memory, bounds, history

\* What a file is to get.
LEMMA DesiredIs ==
  ASSUME IndInv, pc \in {"files", "swap"}, NEW p \in run.todo \cup run.cur
  PROVE  p \in Paths /\ Desired(p) \in States /\ Expected(p) \in States
<1>1. TypeOK /\ run \in Runs /\ run.id \in Range(order)
  BY AtWork DEF Restoring
<1>2. p \in Paths
  BY <1>1 DEF Runs
<1>3. Chain(p, Selected) # << >>
  BY DEF IndInv, Chained
<1>4. manifest \in [Ids -> Manifests] /\ Selected \in Seq(Ids)
  BY <1>1, SelectedIs DEF TypeOK
<1>5. Head(Chain(p, Selected)) \in Changes /\ Last(Chain(p, Selected)) \in Changes
  BY <1>2, <1>3, <1>4, ChainIs
<1>. QED
  BY <1>2, <1>5 DEF Desired, Expected, Changes

LEMMA TypedSwap ==
  ASSUME IndInv, Swap
  PROVE  TypeOK'
<1>1. TypeOK /\ run \in Runs /\ active = NoId /\ pc # "idle" /\ clock \in Nat /\ file \in [Paths -> States]
  BY AtWork DEF Swap, Restoring, TypeOK
<1>2. PICK p \in run.cur :
        LET new == IF Desired(p) = Absent THEN Absent
                   ELSE [data |-> Desired(p).data, ino |-> clock + 1] IN
        /\ file' = [file EXCEPT ![p] = new]
        /\ run' = [run EXCEPT !.cur = {}, !.got[p] = new,
                              !.jok = @ /\ ~full, !.clean = @ /\ ~full,
                              !.todo = IF full THEN {} ELSE @]
  BY DEF Swap
<1>. PICK new : new = IF Desired(p) = Absent THEN Absent
                      ELSE [data |-> Desired(p).data, ino |-> clock + 1]
  OBVIOUS
<1>3. p \in Paths /\ Desired(p) \in States
  BY DesiredIs DEF Swap
<1>4. new \in States
  BY <1>1, <1>3 DEF States, Absent
<1>5. file' \in [Paths -> States]
  BY <1>1, <1>2, <1>3, <1>4
<1>6. run' \in Runs
  <2>1. [run.got EXCEPT ![p] = new] \in [Paths -> States \cup {Never}]
    BY <1>1, <1>3, <1>4 DEF Runs
  <2>2. (run.jok /\ ~full) \in BOOLEAN /\ (run.clean /\ ~full) \in BOOLEAN
    OBVIOUS
  <2>3. run' = [run EXCEPT !.cur = {}, !.got = [run.got EXCEPT ![p] = new],
                           !.jok = run.jok /\ ~full, !.clean = run.clean /\ ~full,
                           !.todo = IF full THEN {} ELSE run.todo]
    BY <1>2, Zenon
  <2>. QED
    BY <1>1, <2>1, <2>2, <2>3, ZenonT(60) DEF Runs
<1>7. clock' \in Nat
  BY <1>1 DEF Swap
<1>. QED
  BY <1>1, <1>5, <1>6, <1>7 DEF TypeOK, Swap, disk, memory, history

LEMMA RestoredIs ==
  ASSUME IndInv, pc = "files", NEW c \in Ids
  PROVE  Restored(c) \in Manifests
<1>1. /\ TypeOK /\ run \in Runs /\ manifest \in [Ids -> Manifests] /\ manifest[c] \in Manifests
      /\ file \in [Paths -> States] /\ run.ret \in BOOLEAN
  BY AtWork DEF Restoring, TypeOK
<1>2. manifest[c].ops \in [Paths -> Seq(Changes)]
  BY <1>1 DEF Manifests
<1>3. Rebased(c, Kept) \in Manifests
  <2>. DEFINE ops == manifest[c].ops
              last(p) == [ops[p] EXCEPT ![Len(ops[p])].after = file[p]]
              new == [p \in Paths |-> IF p \in Kept /\ c \in LastTouch(p) THEN last(p) ELSE ops[p]]
  <2>1. ASSUME NEW p \in Paths, c \in LastTouch(p) PROVE last(p) \in Seq(Changes)
    <3>1. ops[p] # << >> /\ ops[p] \in Seq(Changes)
      BY <1>2, <2>1 DEF LastTouch
    <3>2. Len(ops[p]) \in 1 .. Len(ops[p])
      BY <3>1, EmptySeq
    <3>3. ops[p][Len(ops[p])] \in Changes
      BY <3>1, <3>2, ElementOfSeq
    <3>. DEFINE ch == [ops[p][Len(ops[p])] EXCEPT !.after = file[p]]
    <3>4. ch \in Changes
      BY <1>1, <3>3 DEF Changes
    <3>5. last(p) = [ops[p] EXCEPT ![Len(ops[p])] = ch]
      BY Zenon
    <3>. HIDE DEF ch, ops, last
    <3>. QED
      BY <3>1, <3>2, <3>4, <3>5, ExceptSeq
  <2>2. new \in [Paths -> Seq(Changes)]
    <3>. HIDE DEF last
    <3>. QED
      BY <1>2, <2>1
  <2>3. Rebased(c, Kept) = [manifest[c] EXCEPT !.ops = new]
    BY DEF Rebased
  <2>. HIDE DEF new
  <2>4. [manifest[c] EXCEPT !.ops = new] \in Manifests
    BY <1>1, <2>2, ManifestIs
  <2>. QED
    BY <2>3, <2>4, Zenon
<1>4. [manifest[c] EXCEPT !.ops = [p \in Paths |-> IF p \in Kept THEN << >> ELSE @[p]]] \in Manifests
  <2>. DEFINE new == [p \in Paths |-> IF p \in Kept THEN << >> ELSE manifest[c].ops[p]]
  <2>1. new \in [Paths -> Seq(Changes)]
    BY <1>2
  <2>2. [manifest[c] EXCEPT !.ops = [p \in Paths |-> IF p \in Kept THEN << >> ELSE @[p]]]
          = [manifest[c] EXCEPT !.ops = new]
    BY Zenon
  <2>. HIDE DEF new
  <2>. QED
    BY <1>1, <2>1, <2>2, ManifestIs
<1>5. Blank(IF run.ret THEN "done" ELSE "retired") \in Manifests
  BY BlankIs
<1>. QED
  BY <1>1, <1>3, <1>4, <1>5 DEF Restored

LEMMA TypedCommit ==
  ASSUME IndInv, Commit
  PROVE  TypeOK'
<1>1. /\ TypeOK /\ run \in Runs /\ active = NoId /\ pc # "idle" /\ run.id \in Ids /\ run.id \in Range(order)
      /\ run.clean \in BOOLEAN
  BY AtWork DEF Commit, Restoring
<1>2. run' \in Runs
  <2>1. Clean \in BOOLEAN
    BY <1>1, Zenon DEF Clean
  <2>2. \/ run' = [run EXCEPT !.clean = FALSE, !.rr = TRUE]
        \/ run' = [run EXCEPT !.clean = Clean]
    BY DEF Commit
  <2>3. [run EXCEPT !.clean = FALSE, !.rr = TRUE] \in Runs /\ [run EXCEPT !.clean = Clean] \in Runs
    BY <1>1, <2>1, RunFields
  <2>. QED
    BY <2>2, <2>3
<1>3. txn' \in Updates \cup {NoTxn}
  <2>1. CASE txn' = txn
    BY <1>1, <2>1 DEF TypeOK
  <2>2. CASE ~full
    <3>. PICK o : o = IF Clean /\ ~run.ret THEN Earlier ELSE order
      OBVIOUS
    <3>1. o \in Seq(Ids)
      BY <1>1, SelectedIs DEF TypeOK
    <3>2. [c \in Ids |-> Restored(c)] \in [Ids -> Manifests]
      BY RestoredIs DEF Commit
    <3>3. txn' = [order |-> o, manifest |-> [c \in Ids |-> Restored(c)]]
      BY <2>2 DEF Commit
    <3>. QED
      BY <3>1, <3>2, <3>3 DEF Updates
  <2>. QED
    BY <2>1, <2>2 DEF Commit
<1>4. gate' \subseteq Ids /\ pc' \in {"close", "apply"}
  BY <1>1 DEF Commit, TypeOK
<1>5. UNCHANGED <<file, order, used, manifest, pending, journals, up, active, calls, op, scan, full, clock, made>>
  BY DEF Commit, bounds
<1>. QED
  BY <1>1, <1>2, <1>3, <1>4, <1>5 DEF TypeOK

LEMMA TypedClose ==
  ASSUME IndInv, Close \/ Clear \/ Mark
  PROVE  TypeOK'
<1>1. /\ TypeOK /\ run \in Runs /\ active = NoId /\ pc # "idle" /\ run.id \in Ids
      /\ run.clean \in BOOLEAN /\ run.rr \in BOOLEAN /\ run.jok \in BOOLEAN
      /\ journals \in Seq(Journals) /\ up \in BOOLEAN /\ gate \subseteq Ids
      /\ \A j \in DOMAIN journals : journals[j].rr => journals[j].fin
  BY AtWork DEF Close, Clear, Mark, Restoring, TypeOK
<1>2. CASE Close
  <2>1. run.jr \in DOMAIN journals
    BY <1>2 DEF Close, IndInv, GateInv, Stage, Journalled, Restoring
  <2>2. journals' \in Seq(Journals) /\ DOMAIN journals' = DOMAIN journals
    <3>1. [journals[run.jr] EXCEPT !.fin = TRUE, !.rr = run.rr] \in Journals
      BY <1>1, <2>1, JournalIs
    <3>2. journals' = journals \/ journals' = [journals EXCEPT ![run.jr] = [journals[run.jr] EXCEPT !.fin = TRUE, !.rr = run.rr]]
      BY <1>2 DEF Close, Journal
    <3>3. /\ [journals EXCEPT ![run.jr] = [journals[run.jr] EXCEPT !.fin = TRUE, !.rr = run.rr]] \in Seq(Journals)
          /\ DOMAIN [journals EXCEPT ![run.jr] = [journals[run.jr] EXCEPT !.fin = TRUE, !.rr = run.rr]] = DOMAIN journals
      BY <1>1, <2>1, <3>1, JournalIs
    <3>. QED
      BY <1>1, <3>2, <3>3
  <2>3. \A j \in DOMAIN journals' : journals'[j].rr => journals'[j].fin
    <3>1. journals[run.jr] \in Journals
      BY <1>1, <2>1, JournalIs
    <3>2. [journals[run.jr] EXCEPT !.fin = TRUE, !.rr = run.rr].fin = TRUE
      BY <3>1 DEF Journals
    <3>3. journals' = journals \/ journals' = [journals EXCEPT ![run.jr] = [journals[run.jr] EXCEPT !.fin = TRUE, !.rr = run.rr]]
      BY <1>2 DEF Close, Journal
    <3>. QED
      BY <1>1, <2>1, <3>2, <3>3, Zenon
  <2>4. UNCHANGED <<file, order, used, manifest, pending, txn, memory, full, bounds>>
    BY <1>2 DEF Close
  <2>5. CASE End
    BY <1>1, <2>2, <2>3, <2>4, <2>5, TypedEnd DEF memory, bounds
  <2>6. CASE ~End
    <3>1. run' \in Runs /\ pc' \in {"mark", "clear"} /\ UNCHANGED <<op, scan>>
      BY <1>1, <1>2, <2>6, RunFields DEF Close
    <3>. QED
      BY <1>1, <2>2, <2>3, <2>4, <3>1 DEF TypeOK, memory, bounds
  <2>. QED
    BY <2>5, <2>6
<1>3. CASE Clear
  <2>1. journals' \in Seq(Journals) /\ \A j \in DOMAIN journals' : journals'[j].rr => journals'[j].fin
    <3>1. CASE full
      BY <1>1, <1>3, <3>1 DEF Clear
    <3>2. CASE ~full
      <4>1. \A j \in DOMAIN journals : journals[j] \in Journals /\ Settled(j) \in Journals
        BY <1>1, JournalIs DEF Settled
      <4>2. DOMAIN journals = 1 .. Len(journals) /\ Len(journals) \in Nat
        BY <1>1, LenProperties
      <4>3. journals' = [j \in DOMAIN journals |->
                           IF journals[j].id = run.id /\ journals[j].rr THEN Settled(j) ELSE journals[j]]
        BY <1>3, <3>2 DEF Clear
      <4>4. journals' \in [1 .. Len(journals) -> Journals]
        BY <4>1, <4>2, <4>3
      <4>5. journals' \in Seq(Journals)
        BY <4>2, <4>4, SeqDef
      <4>6. \A j \in DOMAIN journals : Settled(j).rr = FALSE
        BY <4>1 DEF Settled, Journals
      <4>. QED
        BY <1>1, <4>3, <4>5, <4>6
    <3>. QED
      BY <3>1, <3>2
  <2>2. UNCHANGED <<file, order, used, manifest, pending, txn, up, active, calls, full, bounds>>
    BY <1>3 DEF Clear
  <2>3. gate' \subseteq gate /\ End
    BY <1>3 DEF Clear
  <2>. QED
    BY <1>1, <2>1, <2>2, <2>3, TypedEnd DEF bounds
<1>4. CASE Mark
  <2>1. run.from \in DOMAIN journals
    BY <1>4 DEF Mark, IndInv, GateInv, Stage, Journalled, Restoring
  <2>2. gate' \subseteq Ids
    BY <1>1, <1>4 DEF Mark
  <2>3. UNCHANGED <<file, order, used, manifest, pending, txn, active, calls, full, bounds>>
    BY <1>4 DEF Mark
  <2>4. CASE full
    <3>1. End /\ up' \in BOOLEAN /\ UNCHANGED journals
      BY <1>4, <2>4 DEF Mark, Refuse
    <3>. QED
      BY <1>1, <2>2, <2>3, <3>1, TypedEnd DEF bounds
  <2>5. CASE ~full
    <3>1. /\ journals' = [journals EXCEPT ![run.from] = [journals[run.from] EXCEPT !.fin = TRUE, !.rr = ~run.clean]]
          /\ pc' = "scan" /\ run' = NoRun /\ UNCHANGED <<op, scan, up>>
      BY <1>4, <2>5 DEF Mark, Journal
    <3>2. journals' \in Seq(Journals) /\ DOMAIN journals' = DOMAIN journals
      BY <1>1, <2>1, <3>1, JournalIs
    <3>3. \A j \in DOMAIN journals' : journals'[j].rr => journals'[j].fin
      <4>1. journals[run.from] \in Journals
        BY <1>1, <2>1, JournalIs
      <4>. QED
        BY <1>1, <2>1, <3>1, <3>2, <4>1 DEF Journals
    <3>. QED
      BY <1>1, <2>2, <2>3, <3>1, <3>2, <3>3 DEF TypeOK, bounds
  <2>. QED
    BY <2>4, <2>5
<1>. QED
  BY <1>2, <1>3, <1>4

-----------------------------------------------------------------------------
(* The operations, and everybody else *)

\* What is owned: nothing but the operation itself is under way.
LEMMA Owned ==
  ASSUME IndInv, pc \in {"go", "index"}
  PROVE  /\ TypeOK /\ run = NoRun /\ scan = {} /\ active = NoId /\ up \in BOOLEAN /\ gate \subseteq Ids
         /\ order \in Seq(Ids) /\ IsInjective(order) /\ Len(order) \in Nat /\ Range(order) \subseteq Ids
         /\ journals \in Seq(Journals) /\ \A j \in DOMAIN journals : journals[j].rr => journals[j].fin
  BY RangeOfSeq, LenProperties DEF IndInv, GateInv, Stage, TypeOK

LEMMA TypedGo ==
  ASSUME IndInv, GoNowhere \/ GoRestore \/ BeginRefused \/ BeginManifest \/ GoError
  PROVE  TypeOK'
<1>1. /\ TypeOK /\ run = NoRun /\ scan = {} /\ active = NoId /\ up \in BOOLEAN /\ gate \subseteq Ids
      /\ journals \in Seq(Journals) /\ \A j \in DOMAIN journals : journals[j].rr => journals[j].fin
  BY Owned DEF GoNowhere, GoRestore, BeginRefused, BeginManifest, GoError
<1>2. CASE GoNowhere \/ BeginRefused \/ GoError
  <2>1. End /\ UNCHANGED <<file, disk, memory, full, bounds, history>>
    BY <1>2 DEF GoNowhere, BeginRefused, GoError
  <2>. QED
    BY <1>1, <2>1, TypedEnd DEF disk, memory, bounds
<1>3. CASE GoRestore
  <2>1. op.id \in Ids /\ op.incl \in BOOLEAN /\ op.ret \in BOOLEAN /\ 0 \in Nat
    BY <1>1, <1>3 DEF GoRestore, TypeOK
  <2>2. NewRun(op.id, op.incl, op.ret, 0) \in Runs
    BY <2>1, NewRunIs
  <2>. QED
    BY <1>1, <1>3, <2>2 DEF TypeOK, GoRestore, disk, memory, bounds
<1>4. CASE BeginManifest
  <2>1. op.id \in Ids
    BY <1>1, <1>4 DEF BeginManifest, TypeOK
  <2>2. Blank("open") \in Manifests
    BY BlankIs
  <2>3. manifest' \in [Ids -> Manifests]
    BY <1>1, <1>4, <2>1, <2>2 DEF BeginManifest, Save, TypeOK
  <2>. QED
    BY <1>1, <1>4, <2>3 DEF TypeOK, BeginManifest, memory, bounds
<1>. QED
  BY <1>2, <1>3, <1>4

\* The branch with the new checkpoint, without those that are pruned.
LEMMA BranchGrows ==
  ASSUME IndInv, BeginIndex, ~full
  PROVE  /\ order' \in Seq(Ids) /\ IsInjective(order') /\ Range(order') \subseteq Range(order) \cup {op.id}
         /\ op.id \in Range(order') /\ op.id \in Ids /\ op.id \notin used
<1>1. /\ TypeOK /\ order \in Seq(Ids) /\ IsInjective(order) /\ Len(order) \in Nat
      /\ Range(order) \subseteq used /\ op.id \in Ids /\ op.id \notin used /\ MaxCheckpoints \in Nat \ {0}
  BY Owned, CheckpointAssumption DEF BeginIndex, IndInv, GateInv, Stage, TypeOK
<1>. PICK longer : longer = Append(order, op.id)
  OBVIOUS
<1>. PICK drop : drop = IF Len(longer) > MaxCheckpoints THEN Len(longer) - MaxCheckpoints ELSE 0
  OBVIOUS
<1>2. /\ longer \in Seq(Ids) /\ Len(longer) = Len(order) + 1 /\ longer[Len(order) + 1] = op.id
      /\ Range(longer) = Range(order) \cup {op.id} /\ IsInjective(longer)
  BY <1>1, Longer
<1>3. order' = SubSeq(longer, drop + 1, Len(longer))
  BY DEF BeginIndex
<1>4. drop \in Nat /\ drop + 1 \in Nat /\ 1 <= drop + 1 /\ drop + 1 <= Len(longer) /\ Len(longer) \in Nat
  BY <1>1, <1>2
<1>5. /\ order' \in Seq(Ids) /\ Range(order') \subseteq Range(longer) /\ IsInjective(order')
  <2>1. Len(longer) <= Len(longer)
    BY <1>4
  <2>. QED
    BY <1>2, <1>3, <1>4, <2>1, Part
<1>6. op.id \in Range(order')
  BY <1>2, <1>3, <1>4, Ending
<1>. QED
  BY <1>1, <1>2, <1>5, <1>6

LEMMA TypedBegin ==
  ASSUME IndInv, BeginIndex
  PROVE  TypeOK'
<1>1. /\ TypeOK /\ run = NoRun /\ scan = {} /\ active = NoId /\ up \in BOOLEAN /\ gate \subseteq Ids
      /\ journals \in Seq(Journals) /\ \A j \in DOMAIN journals : journals[j].rr => journals[j].fin
      /\ manifest \in [Ids -> Manifests] /\ used \subseteq Ids /\ up
  BY Owned DEF BeginIndex, TypeOK, IndInv, GateInv, Stage
<1>2. CASE full
  <2>1. End /\ UNCHANGED <<file, order, used, manifest, pending, txn, journals, up, active, gate, calls, full, bounds>>
    BY <1>2 DEF BeginIndex
  <2>. QED
    BY <1>1, <2>1, TypedEnd DEF bounds
<1>3. CASE ~full
  <2>1. /\ order' \in Seq(Ids) /\ IsInjective(order') /\ Range(order') \subseteq Range(order) \cup {op.id}
        /\ op.id \in Range(order') /\ op.id \in Ids
    BY <1>3, BranchGrows
  <2>2. Blank("none") \in Manifests
    BY BlankIs
  <2>3. /\ manifest' \in [Ids -> Manifests] /\ pending' \subseteq pending
        /\ used' = used \cup {op.id} /\ active' = op.id
    BY <1>1, <1>3, <2>2 DEF BeginIndex
  <2>4. pc' = "idle" /\ op' = NoOp /\ scan' = {} /\ run' = NoRun
    BY DEF BeginIndex, End
  <2>5. UNCHANGED <<file, txn, journals, up, gate, calls, full, bounds>>
    BY DEF BeginIndex
  <2>. QED
    BY <1>1, <2>1, <2>3, <2>4, <2>5 DEF TypeOK, NoOp, bounds
<1>. QED
  BY <1>2, <1>3

LEMMA TypedFold ==
  ASSUME IndInv, Fold
  PROVE  TypeOK' /\ (~full => Range(txn'.order) \subseteq Range(order) /\ IsInjective(txn'.order))
<1>1. /\ TypeOK /\ run = NoRun /\ scan = {} /\ active = NoId /\ up \in BOOLEAN /\ gate \subseteq Ids
      /\ order \in Seq(Ids) /\ IsInjective(order) /\ Len(order) \in Nat /\ Range(order) \subseteq Ids
      /\ journals \in Seq(Journals) /\ \A j \in DOMAIN journals : journals[j].rr => journals[j].fin
      /\ manifest \in [Ids -> Manifests] /\ op.keep \in Nat /\ op.keep < Len(order)
  BY Owned DEF Fold, TypeOK
<1>2. UNCHANGED <<file, order, used, manifest, pending, journals, memory, full, bounds>>
  BY DEF Fold
<1>3. CASE full
  <2>1. End /\ txn' = txn
    BY <1>3 DEF Fold
  <2>. QED
    BY <1>1, <1>2, <1>3, <2>1, TypedEnd DEF memory, bounds
<1>4. CASE ~full
  <2>. DEFINE kept == SubSeq(order, 1, op.keep)
              removed == SubSeq(order, op.keep + 1, Len(order))
              tail == SubSeq(order, op.keep, Len(order))
              folded(c) == [manifest[c] EXCEPT !.ops = [p \in Paths |-> Chain(p, tail)],
                              !.warn = Warned(Range(tail)), !.blind = Blinded(Range(tail))]
              after(c) == IF c \in Range(removed) THEN Blank("retired")
                          ELSE IF op.keep > 0 /\ c = order[op.keep] THEN folded(c) ELSE manifest[c]
  <2>1. txn' = [order |-> kept, manifest |-> [c \in Ids |-> after(c)]] /\ pc' = "apply" /\ UNCHANGED <<op, scan, run>>
    BY <1>4, Zenon DEF Fold
  <2>2. kept \in Seq(Ids) /\ Range(kept) \subseteq Range(order) /\ IsInjective(kept)
    <3>1. 1 \in Nat /\ 1 <= 1 /\ op.keep <= Len(order)
      BY <1>1
    <3>. QED
      BY <1>1, <3>1, Part
  <2>3. ASSUME NEW c \in Ids, op.keep > 0 PROVE folded(c) \in Manifests
    <3>1. tail \in Seq(Ids) /\ Range(tail) \subseteq Ids
      <4>1. 1 <= op.keep /\ Len(order) <= Len(order)
        BY <1>1, <2>3
      <4>2. tail \in Seq(Ids)
        BY <1>1, <4>1, Part
      <4>. QED
        BY <4>2, RangeOfSeq
    <3>. HIDE DEF tail
    <3>2. [p \in Paths |-> Chain(p, tail)] \in [Paths -> Seq(Changes)]
      BY <1>1, <3>1, ChainIs
    <3>3. Warned(Range(tail)) \in SUBSET Paths
      BY <1>1, <3>1, ManifestIs DEF Warned
    <3>4. Blinded(Range(tail)) \in BOOLEAN
      BY Zenon DEF Blinded
    <3>5. manifest[c] \in Manifests
      BY <1>1
    <3>. QED
      BY <3>2, <3>3, <3>4, <3>5 DEF Manifests
  <2>4. [c \in Ids |-> after(c)] \in [Ids -> Manifests]
    <3>1. Blank("retired") \in Manifests
      BY BlankIs
    <3>. HIDE DEF folded, removed
    <3>. QED
      BY <1>1, <2>3, <3>1
  <2>5. txn' \in Updates
    <3>. HIDE DEF after, kept
    <3>. QED
      BY <2>1, <2>2, <2>4 DEF Updates
  <2>6. txn'.order = kept
    BY <2>1
  <2>. HIDE DEF after, kept
  <2>. QED
    BY <1>1, <1>2, <2>1, <2>2, <2>5, <2>6 DEF TypeOK, memory, bounds
<1>. QED
  BY <1>3, <1>4

\* A store that is not owned by anybody, and the operation that takes it.
LEMMA TypedAcquire ==
  ASSUME IndInv, Restart \/ \E o \in Ops : Acquire(o)
  PROVE  /\ TypeOK' /\ active = NoId /\ run' = NoRun /\ pc' \in {"txn", "scan", "go"} /\ up'
         /\ op'.kind = "begin" => op'.id \notin used
<1>1. TypeOK /\ active = NoId /\ run = NoRun /\ pc = "idle"
  BY DEF IndInv, GateInv, Stage, TypeOK, Restart, Acquire
<1>2. /\ scan' \subseteq DOMAIN journals' /\ pc' \in {"txn", "scan", "go"} /\ run' = NoRun
      /\ UNCHANGED <<file, disk, active, gate, calls, full, bounds>> /\ up' = TRUE
  BY <1>1 DEF Restart, Acquire, Recover, HalfDone, disk, memory, TypeOK
<1>3. /\ op'.kind \in {"begin", "restore"} => op'.id \in Ids
      /\ op'.kind = "restore" => {op'.incl, op'.ret} \subseteq BOOLEAN
      /\ op'.kind = "reconcile" => op'.keep \in Nat
      /\ op'.kind = "begin" => op'.id \notin used
  <2>1. CASE Restart
    BY <2>1 DEF Restart
  <2>2. ASSUME NEW o \in Ops, Acquire(o)
        PROVE  /\ op'.kind \in {"begin", "restore"} => op'.id \in Ids
               /\ op'.kind = "restore" => {op'.incl, op'.ret} \subseteq BOOLEAN
               /\ op'.kind = "reconcile" => op'.keep \in Nat
               /\ op'.kind = "begin" => op'.id \notin used
    <3>1. op' = o
      BY <2>2 DEF Acquire
    <3>2. CASE Fresh # {} /\ o = [kind |-> "begin", id |-> CHOOSE c \in Fresh : TRUE]
      <4>1. (CHOOSE c \in Fresh : TRUE) \in Fresh
        BY <3>2
      <4>. QED
        BY <3>1, <3>2, <4>1 DEF Fresh
    <3>3. CASE o \in [kind : {"restore"}, id : Ids, incl : Inclusions, ret : BOOLEAN]
      BY <3>1, <3>3, CheckpointAssumption
    <3>4. CASE o \in [kind : {"reconcile"}, keep : 0 .. MaxCheckpoints]
      BY <3>1, <3>4, CheckpointAssumption
    <3>. QED
      BY <2>2, <3>2, <3>3, <3>4 DEF Ops
  <2>. QED
    BY <2>1, <2>2
<1>. QED
  BY <1>1, <1>2, <1>3 DEF TypeOK, disk, bounds

LEMMA TypedOthers ==
  ASSUME IndInv, (\E p \in Paths : UserEdit(p)) \/ Kill \/ FillUp \/ FreeUp \/ UNCHANGED vars
  PROVE  TypeOK'
<1>1. TypeOK
  BY DEF IndInv
<1>2. ASSUME NEW p \in Paths, UserEdit(p) PROVE TypeOK'
  <2>1. file \in [Paths -> States] /\ clock \in Nat /\ file[p] \in States
    BY <1>1 DEF TypeOK
  <2>2. PICK new \in {[data |-> clock + 1, ino |-> i] : i \in {clock + 1, file[p].ino} \ {0}} \cup {Absent} :
          file' = [file EXCEPT ![p] = new]
    BY <1>2 DEF UserEdit
  <2>3. new \in States
    BY <2>1, <2>2 DEF States, Absent
  <2>4. file' \in [Paths -> States] /\ clock' \in Nat
    BY <1>2, <2>1, <2>2, <2>3 DEF UserEdit
  <2>. QED
    BY <1>1, <1>2, <2>4 DEF TypeOK, UserEdit, disk, memory, work
<1>3. CASE Kill
  <2>1. /\ End /\ up' = FALSE /\ active' = NoId /\ gate' = {} /\ calls' = [k \in Calls |-> Idle]
        /\ UNCHANGED <<file, disk, full, clock, made>>
    BY <1>3 DEF Kill
  <2>2. journals' \in Seq(Journals) /\ \A j \in DOMAIN journals' : journals'[j].rr => journals'[j].fin
    BY <1>1, <2>1 DEF TypeOK, disk
  <2>. QED
    BY <1>1, <2>1, <2>2, TypedEnd DEF disk
<1>4. CASE FillUp \/ FreeUp
  BY <1>1, <1>4 DEF TypeOK, FillUp, FreeUp, disk, memory, work, bounds
<1>5. CASE UNCHANGED vars
  BY <1>1, <1>5 DEF TypeOK, vars, disk, memory, work, bounds
<1>. QED
  BY <1>2, <1>3, <1>4, <1>5

LEMMA TypeStep ==
  ASSUME IndInv, [Next]_vars
  PROVE  TypeOK'
<1>1. TypeOK
  BY DEF IndInv
<1>2. CASE Turn
  BY <1>1, <1>2, TypedFinish, TypedPre, TypedToolWrite, TypedPost, TypedDiscard DEF Turn
<1>3. CASE Step
  <2>1. CASE ApplyManifest \/ ApplyIndex \/ ApplyDone \/ ApplyError
    BY <2>1, TypedApply
  <2>2. CASE Scan \/ ScanDone
    BY <2>2, TypedScan
  <2>3. CASE CloseTurn \/ PlanError \/ Plan
    BY <2>3, TypedPlan
  <2>4. CASE (\E p \in Paths : Compare(p)) \/ Swap \/ Commit
    BY <2>4, TypedCompare, TypedSwap, TypedCommit
  <2>5. CASE Close \/ Clear \/ Mark
    BY <2>5, TypedClose
  <2>6. CASE GoNowhere \/ GoRestore \/ BeginRefused \/ BeginManifest \/ GoError
    BY <2>6, TypedGo
  <2>7. CASE BeginIndex \/ Fold
    BY <2>7, TypedBegin, TypedFold
  <2>. QED
    BY <1>3, <2>1, <2>2, <2>3, <2>4, <2>5, <2>6, <2>7 DEF Step
<1>4. CASE Restart \/ \E o \in Ops : Acquire(o)
  BY <1>4, TypedAcquire
<1>5. CASE (\E p \in Paths : UserEdit(p)) \/ Kill \/ FillUp \/ FreeUp \/ UNCHANGED vars
  BY <1>5, TypedOthers
<1>. QED
  BY <1>2, <1>3, <1>4, <1>5 DEF Next

-----------------------------------------------------------------------------
(* Every step keeps the gate *)

LEMMA GateSame ==
  ASSUME IndInv, UNCHANGED <<order, used, txn, journals, up, gate, pc, op, scan, run>>,
         manifest' = manifest \/ pc # "apply", active' \in {active, NoId}
  PROVE  GateInv'
<1>1. GateInv
  BY DEF IndInv
<1>2. Stage'
  BY <1>1 DEF GateInv, Stage
<1>3. Journalled'
  <2>1. pc = "apply" => Unapplied' = Unapplied
    BY DEF Unapplied
  <2>2. \A j : Unsettled(j)' <=> Unsettled(j)
    BY DEF Unsettled
  <2>. QED
    BY <1>1, <2>1, <2>2 DEF GateInv, Journalled
<1>4. Updating'
  BY <1>1 DEF GateInv, Updating
<1>5. Covered'
  BY <1>1 DEF GateInv, Covered, Unsettled
<1>6. TurnsOnlySettled'
  BY <1>1 DEF GateInv, TurnsOnlySettled
<1>. QED
  BY <1>2, <1>3, <1>4, <1>5, <1>6 DEF GateInv

LEMMA GateEnd ==
  ASSUME IndInv, End, UNCHANGED <<order, used>>, txn' \in {txn, NoTxn}, active' = NoId,
         DOMAIN journals' = DOMAIN journals, \A j \in DOMAIN journals : journals'[j].id = journals[j].id
  PROVE  GateInv'
<1>1. GateInv /\ pc' = "idle" /\ op' = NoOp /\ scan' = {} /\ run' = NoRun
  BY DEF IndInv, End
<1>2. Stage'
  BY <1>1 DEF GateInv, Stage, NoOp, Restoring
<1>3. Journalled'
  BY <1>1 DEF Journalled
<1>4. Updating'
  BY <1>1 DEF GateInv, Updating, Restoring
<1>5. Covered'
  BY <1>1 DEF Covered, Restoring
<1>6. TurnsOnlySettled'
  BY DEF TurnsOnlySettled
<1>. QED
  BY <1>2, <1>3, <1>4, <1>5, <1>6 DEF GateInv

LEMMA GateTurn ==
  ASSUME IndInv, Turn
  PROVE  GateInv'
<1>1. active # NoId /\ pc # "apply"
  <2>1. active # NoId
    BY DEF Turn, Finish, ToolWrite, Post, Discard, Pre, PreUnknown, InTurn
  <2>. QED
    BY <2>1 DEF IndInv, TypeOK
<1>2. UNCHANGED <<order, used, txn, journals, up, gate, pc, op, scan, run>> /\ active' \in {active, NoId}
  <2>1. CASE Finish
    BY <2>1 DEF Finish, work
  <2>2. ASSUME NEW k \in Calls, ToolWrite(k) \/ Post(k) \/ Discard(k)
        PROVE  UNCHANGED <<order, used, txn, journals, up, gate, pc, op, scan, run, active>>
    BY <2>2 DEF ToolWrite, Post, Discard, work, disk
  <2>3. ASSUME NEW k \in Calls, NEW p \in Paths, Pre(k, p) \/ PreUnknown(k, p)
        PROVE  UNCHANGED <<order, used, txn, journals, up, gate, pc, op, scan, run, active>>
    BY <2>3 DEF Pre, PreUnknown, work
  <2>. QED
    BY <2>1, <2>2, <2>3 DEF Turn
<1>. QED
  BY <1>1, <1>2, GateSame

\* A branch update takes nothing but checkpoints away, whoever applies it.
LEMMA GateApply ==
  ASSUME IndInv, ApplyManifest \/ ApplyIndex \/ ApplyDone \/ ApplyError
  PROVE  GateInv'
<1>1. /\ TypeOK /\ GateInv /\ txn # NoTxn /\ pc \in {"txn", "apply"} /\ active = NoId
      /\ pc = "txn" => run = NoRun
  BY DEF IndInv, GateInv, Stage, TypeOK, ApplyManifest, ApplyIndex, ApplyDone, ApplyError
<1>2. Range(txn.order) \subseteq Range(order) /\ IsInjective(txn.order)
  BY <1>1 DEF GateInv, Updating
<1>3. CASE ApplyManifest
  <2>1. UNCHANGED <<order, used, txn, journals, up, active, gate, calls, pc, op, scan, run>> /\ Unapplied # {}
    BY <1>3 DEF ApplyManifest, memory, work
  <2>2. \A j : Unsettled(j)' <=> Unsettled(j)
    BY <2>1 DEF Unsettled
  <2>3. Journalled'
    BY <1>1, <2>1, <2>2 DEF GateInv, Journalled, Restoring
  <2>4. Stage' /\ Updating' /\ Covered' /\ TurnsOnlySettled'
    BY <1>1, <2>1, <2>2 DEF GateInv, Stage, Updating, Covered, TurnsOnlySettled
  <2>. QED
    BY <2>3, <2>4 DEF GateInv
<1>4. CASE ApplyIndex
  <2>1. UNCHANGED <<used, manifest, txn, journals, up, active, gate, calls, pc, op, scan, run>> /\ order' = txn.order
        /\ Unapplied' = {}
    BY <1>4 DEF ApplyIndex, memory, work, Unapplied
  <2>2. \A j : Unsettled(j)' => Unsettled(j)
    BY <1>2, <2>1 DEF Unsettled
  <2>3. Journalled'
    BY <1>1, <2>1, <2>2 DEF GateInv, Journalled, Restoring
  <2>4. Stage' /\ TurnsOnlySettled'
    BY <1>1, <2>1, <2>2 DEF GateInv, Stage, TurnsOnlySettled
  <2>5. Updating'
    BY <1>1, <1>2, <2>1 DEF Updating, Restoring
  <2>6. Covered'
    BY <1>1, <2>1, <2>2 DEF GateInv, Covered
  <2>. QED
    BY <2>3, <2>4, <2>5, <2>6 DEF GateInv
<1>5. CASE ApplyDone
  <2>1. UNCHANGED <<order, used, manifest, journals, memory>> /\ txn' = NoTxn
    BY <1>5 DEF ApplyDone
  <2>2. CASE run # NoRun
    <3>1. pc = "apply" /\ pc' = "close" /\ UNCHANGED <<op, scan, run>>
      BY <1>1, <1>5, <2>2 DEF ApplyDone
    <3>2. \A j : Unsettled(j)' <=> Unsettled(j)
      BY <2>1 DEF Unsettled
    <3>3. Journalled'
      BY <1>1, <2>1, <3>1, <3>2 DEF GateInv, Journalled, memory
    <3>4. Stage' /\ Updating' /\ TurnsOnlySettled'
      BY <1>1, <2>1, <2>2, <3>1, <3>2 DEF GateInv, Stage, Updating, TurnsOnlySettled, memory
    <3>5. Covered'
      BY <1>1, <2>1, <2>2, <3>1, <3>2 DEF GateInv, Covered, Restoring, memory
    <3>. QED
      BY <3>3, <3>4, <3>5 DEF GateInv
  <2>3. CASE run = NoRun /\ pc = "apply"
    <3>1. End
      BY <1>5, <2>3 DEF ApplyDone
    <3>. QED
      BY <1>1, <2>1, <3>1, GateEnd DEF memory
  <2>4. CASE run = NoRun /\ pc = "txn"
    <3>1. pc' = "scan" /\ UNCHANGED <<op, scan, run>>
      BY <1>5, <2>4 DEF ApplyDone
    <3>2. \A j : Unsettled(j)' <=> Unsettled(j)
      BY <2>1 DEF Unsettled
    <3>. QED
      BY <1>1, <2>1, <2>4, <3>1, <3>2
         DEF GateInv, Stage, Journalled, Updating, Covered, TurnsOnlySettled, Restoring, memory
  <2>. QED
    BY <1>1, <2>2, <2>3, <2>4
<1>6. CASE ApplyError
  <2>1. UNCHANGED <<file, disk, active, calls>> /\ (Unapplied # {} \/ order # txn.order)
    BY <1>6 DEF ApplyError
  <2>2. CASE run = NoRun
    <3>1. End /\ UNCHANGED gate
      BY <1>6, <2>2 DEF ApplyError, Refuse
    <3>. QED
      BY <1>1, <2>1, <3>1, GateEnd DEF disk
  <2>3. CASE run # NoRun
    <3>1. /\ pc = "apply" /\ pc' = "close" /\ run' = [run EXCEPT !.clean = FALSE, !.rr = TRUE]
          /\ gate' = gate \cup {run.id} /\ UNCHANGED <<op, scan, up>>
      BY <1>1, <1>6, <2>3 DEF ApplyError
    <3>2. run \in Runs
      BY <1>1, <2>3 DEF TypeOK
    <3>3. run'.id = run.id /\ run'.from = run.from /\ run'.jr = run.jr /\ run' # NoRun /\ run'.clean = FALSE
      BY <3>1, <3>2 DEF Runs, NoRun
    <3>4. run.id \in Range(order)
      BY <1>1, <2>1, <2>3, <3>1 DEF GateInv, Journalled
    <3>5. \A j : Unsettled(j)' <=> Unsettled(j)
      BY <2>1 DEF Unsettled, disk
    <3>6. Journalled'
      BY <1>1, <2>1, <2>3, <3>1, <3>3, <3>5 DEF GateInv, Journalled, disk
    <3>7. Stage' /\ TurnsOnlySettled'
      BY <1>1, <2>1, <2>3, <3>1, <3>3 DEF GateInv, Stage, TurnsOnlySettled, disk
    <3>8. Updating'
      BY <1>2, <2>1, <3>1, <3>4 DEF Updating, disk
    <3>9. Covered'
      BY <1>1, <2>1, <2>3, <3>1, <3>3, <3>5 DEF GateInv, Covered, Restoring, disk
    <3>. QED
      BY <3>6, <3>7, <3>8, <3>9 DEF GateInv
  <2>. QED
    BY <2>2, <2>3
<1>. QED
  BY <1>3, <1>4, <1>5, <1>6

\* A journal that is settled, or found to gate, is not lost sight of.
LEMMA GateScan ==
  ASSUME IndInv, Scan \/ ScanDone
  PROVE  GateInv'
<1>1. /\ TypeOK /\ GateInv /\ pc = "scan" /\ active = NoId /\ run = NoRun
      /\ \A i \in DOMAIN journals : Unsettled(i) => i \in scan \/ journals[i].id \in gate
  BY DEF IndInv, GateInv, Stage, Covered, TypeOK, Scan, ScanDone
<1>2. CASE ScanDone
  <2>1. scan = {} /\ pc' = "go" /\ UNCHANGED <<order, used, txn, journals, up, active, gate, op, scan, run>>
    BY <1>2 DEF ScanDone, disk, memory
  <2>. QED
    BY <1>1, <2>1 DEF GateInv, Stage, Journalled, Updating, Covered, TurnsOnlySettled, Unsettled, Restoring
<1>3. CASE Scan
  <2>. PICK j : j = CHOOSE i \in scan : \A k \in scan : i <= k
    OBVIOUS
  <2>1. j \in scan /\ j \in DOMAIN journals
    BY <1>1, <1>3, LeastOf DEF Scan, TypeOK
  <2>2. /\ journals \in Seq(Journals) /\ j \in Nat \ {0} /\ journals[j] \in Journals
    BY <1>1, <2>1, JournalIs DEF TypeOK
  <2>3. UNCHANGED <<order, used, manifest, txn, active>>
    BY <1>3 DEF Scan
  <2>. DEFINE gone == journals[j].id \notin Range(order)
  <2>4. \/ /\ journals[j].fin /\ ~(journals[j].rr /\ gone)
           /\ gate' = IF journals[j].rr THEN gate \cup {journals[j].id} ELSE gate
           /\ scan' = scan \ {j} /\ UNCHANGED <<journals, up, pc, op, run>>
        \/ /\ gone /\ Journal(j, Settled(j))
           /\ gate' = IF journals[j].fin THEN gate \ {journals[j].id} ELSE gate
           /\ scan' = scan \ {j} /\ UNCHANGED <<up, pc, op, run>>
        \/ Refuse /\ UNCHANGED <<journals, gate>>
        \/ /\ ~gone
           /\ run' = NewRun(journals[j].id, journals[j].incl, journals[j].ret, j) /\ pc' = "plan"
           /\ scan' = scan \ {j} /\ UNCHANGED <<journals, gate, up, op>>
    BY <1>3 DEF Scan
  <2>5. CASE /\ journals[j].fin /\ ~(journals[j].rr /\ gone)
             /\ gate' = IF journals[j].rr THEN gate \cup {journals[j].id} ELSE gate
             /\ scan' = scan \ {j} /\ UNCHANGED <<journals, up, pc, op, run>>
    <3>1. Covered'
      BY <1>1, <2>2, <2>3, <2>5 DEF Covered, Unsettled, Restoring
    <3>2. Stage' /\ Journalled' /\ Updating' /\ TurnsOnlySettled'
      BY <1>1, <2>1, <2>3, <2>5 DEF GateInv, Stage, Journalled, Updating, TurnsOnlySettled, Restoring
    <3>. QED
      BY <3>1, <3>2 DEF GateInv
  <2>6. CASE /\ gone /\ Journal(j, Settled(j))
             /\ gate' = IF journals[j].fin THEN gate \ {journals[j].id} ELSE gate
             /\ scan' = scan \ {j} /\ UNCHANGED <<up, pc, op, run>>
    <3>1. /\ DOMAIN journals' = DOMAIN journals /\ \A i \in DOMAIN journals : journals'[i].id = journals[i].id
          /\ \A i \in DOMAIN journals : i # j => journals'[i] = journals[i]
      BY <2>1, <2>2, <2>6 DEF Journal, Settled, Journals
    <3>2. Covered'
      BY <1>1, <2>1, <2>3, <2>6, <3>1 DEF Covered, Unsettled, Restoring
    <3>3. Updating'
      BY <1>1, <2>3, <2>6 DEF GateInv, Updating
    <3>4. Stage' /\ Journalled' /\ TurnsOnlySettled'
      BY <1>1, <2>1, <2>3, <2>6, <3>1 DEF GateInv, Stage, Journalled, TurnsOnlySettled, Restoring
    <3>. QED
      BY <3>2, <3>3, <3>4 DEF GateInv
  <2>7. CASE Refuse /\ UNCHANGED <<journals, gate>>
    BY <1>1, <2>3, <2>7, GateEnd DEF Refuse
  <2>8. CASE /\ ~gone
             /\ run' = NewRun(journals[j].id, journals[j].incl, journals[j].ret, j) /\ pc' = "plan"
             /\ scan' = scan \ {j} /\ UNCHANGED <<journals, gate, up, op>>
    <3>1. /\ run'.id = journals[j].id /\ run'.from = j /\ run'.jr = 0 /\ run'.rr = FALSE /\ run' # NoRun
      BY <2>8 DEF NewRun, NoRun
    <3>2. Covered'
      BY <1>1, <2>1, <2>3, <2>8, <3>1 DEF Covered, Unsettled, Restoring
    <3>3. Journalled'
      BY <1>1, <2>1, <2>2, <2>3, <2>8, <3>1 DEF Journalled
    <3>4. Updating'
      BY <1>1, <2>3, <2>8 DEF GateInv, Updating, Restoring
    <3>5. Stage' /\ TurnsOnlySettled'
      BY <1>1, <2>3, <2>8, <3>1 DEF GateInv, Stage, TurnsOnlySettled
    <3>. QED
      BY <3>2, <3>3, <3>4, <3>5 DEF GateInv
  <2>. QED
    BY <2>4, <2>5, <2>6, <2>7, <2>8
<1>. QED
  BY <1>2, <1>3

LEMMA GatePlan ==
  ASSUME IndInv, CloseTurn \/ PlanError \/ Plan
  PROVE  GateInv'
<1>1. TypeOK /\ GateInv /\ pc \in {"plan", "go"} /\ active = NoId
  BY DEF IndInv, TypeOK, CloseTurn, PlanError, Plan
<1>2. CASE CloseTurn
  BY <1>1, <1>2, GateSame DEF CloseTurn, memory, work
<1>3. CASE PlanError
  <2>1. pc = "plan" /\ run \in Runs /\ run # NoRun /\ UNCHANGED <<order, used, txn, journals, up, active, gate>>
    BY <1>3, AtWork DEF PlanError, Restoring, IndInv, GateInv, Stage, disk, memory
  <2>2. CASE End
    BY <1>1, <2>1, <2>2, GateEnd
  <2>3. CASE ~End
    <3>1. /\ run.from # 0 /\ pc' = "mark" /\ run' = [run EXCEPT !.clean = FALSE]
          /\ UNCHANGED <<op, scan>>
      BY <1>3, <2>3 DEF PlanError
    <3>2. /\ run'.id = run.id /\ run'.from = run.from /\ run'.jr = run.jr /\ run'.rr = run.rr /\ run' # NoRun
          /\ run'.clean = FALSE
      BY <2>1, <3>1 DEF Runs, NoRun
    <3>3. Journalled'
      BY <1>1, <2>1, <3>1, <3>2 DEF GateInv, Journalled
    <3>4. Covered'
      BY <1>1, <2>1, <3>1, <3>2 DEF GateInv, Covered, Unsettled, Restoring
    <3>5. Stage' /\ Updating' /\ TurnsOnlySettled'
      BY <1>1, <2>1, <3>1, <3>2 DEF GateInv, Stage, Updating, TurnsOnlySettled, Restoring
    <3>. QED
      BY <3>3, <3>4, <3>5 DEF GateInv
  <2>. QED
    BY <2>2, <2>3
<1>4. CASE Plan
  <2>1. /\ pc = "plan" /\ run \in Runs /\ run # NoRun /\ run.id \in Range(order) /\ run.id \in Ids
        /\ run.incl \in BOOLEAN /\ run.ret \in BOOLEAN /\ journals \in Seq(Journals)
    BY <1>4, AtWork DEF Plan, Restoring, IndInv, GateInv, Stage, TypeOK
  <2>2. /\ pc' = "files" /\ UNCHANGED <<order, used, txn, up, active, gate, op, scan>>
        /\ journals' = Append(journals, [id |-> run.id, incl |-> run.incl, ret |-> run.ret, fin |-> FALSE, rr |-> FALSE])
    BY <1>4 DEF Plan, memory
  <2>. PICK n : n = Len(journals) + 1
    OBVIOUS
  <2>3. /\ DOMAIN journals' = DOMAIN journals \cup {n} /\ n \notin DOMAIN journals
        /\ \A i \in DOMAIN journals : journals'[i] = journals[i]
        /\ journals'[n].id = run.id
    <3>. DEFINE J == [id |-> run.id, incl |-> run.incl, ret |-> run.ret, fin |-> FALSE, rr |-> FALSE]
    <3>1. J \in Journals /\ J.id = run.id
      BY <2>1 DEF Journals
    <3>. HIDE DEF J
    <3>2. journals' = Append(journals, J)
      BY <2>2 DEF J
    <3>. QED
      BY <2>1, <3>1, <3>2, Longer
  <2>4. /\ run'.id = run.id /\ run'.from = run.from /\ run'.jr = n /\ run'.rr = run.rr /\ run' # NoRun
    BY <1>4, <2>1 DEF Plan, Runs, NoRun
  <2>5. n \in Nat \ {0}
    BY <2>1, LenProperties
  <2>6. Journalled'
    BY <1>1, <2>1, <2>2, <2>3, <2>4, <2>5 DEF GateInv, Journalled
  <2>7. Covered'
    <3>1. \A i \in DOMAIN journals : Unsettled(i)' <=> Unsettled(i)
      BY <2>2, <2>3 DEF Unsettled
    <3>2. \A i \in DOMAIN journals :
            Unsettled(i) => i \in scan \cup {run.from, run.jr} \/ journals[i].id \in gate
      BY <1>1, <2>1 DEF GateInv, Covered, Restoring
    <3>3. run.jr = 0 /\ 0 \notin DOMAIN journals
      BY <1>1, <2>1, JournalIs DEF GateInv, Journalled
    <3>4. \A i \in DOMAIN journals' :
            Unsettled(i)' => i \in scan' \cup {run'.from, run'.jr} \/ journals'[i].id \in gate'
      BY <2>2, <2>3, <2>4, <3>1, <3>2, <3>3
    <3>. QED
      BY <2>2, <3>4 DEF Covered
  <2>8. Stage'
    BY <1>1, <2>1, <2>2, <2>3, <2>4 DEF GateInv, Stage, TypeOK
  <2>9. Updating' /\ TurnsOnlySettled'
    BY <1>1, <2>1, <2>2 DEF GateInv, Updating, TurnsOnlySettled, Restoring
  <2>. QED
    BY <2>6, <2>7, <2>8, <2>9 DEF GateInv
<1>. QED
  BY <1>2, <1>3, <1>4

LEMMA GateFiles ==
  ASSUME IndInv, (\E p \in Paths : Compare(p)) \/ Swap
  PROVE  GateInv'
<1>1. /\ TypeOK /\ GateInv /\ run \in Runs /\ run # NoRun /\ active = NoId /\ run.id \in Range(order)
      /\ pc \in {"files", "swap"}
  BY AtWork DEF Compare, Swap, Restoring, IndInv, GateInv, Stage
<1>2. /\ pc' \in {"files", "swap"}
      /\ UNCHANGED <<order, used, manifest, txn, journals, up, active, gate, op, scan>>
  BY DEF Compare, Swap, disk, memory
<1>3. /\ run'.id = run.id /\ run'.from = run.from /\ run'.jr = run.jr /\ run'.rr = run.rr /\ run' # NoRun
  <2>1. ASSUME NEW p \in Paths, Compare(p)
        PROVE  /\ run'.id = run.id /\ run'.from = run.from /\ run'.jr = run.jr /\ run'.rr = run.rr /\ run' # NoRun
    BY <1>1, <2>1 DEF Compare, Runs, NoRun
  <2>2. ASSUME Swap
        PROVE  /\ run'.id = run.id /\ run'.from = run.from /\ run'.jr = run.jr /\ run'.rr = run.rr /\ run' # NoRun
    BY <1>1, <2>2 DEF Swap, Runs, NoRun
  <2>. QED
    BY <2>1, <2>2
<1>4. Journalled'
  BY <1>1, <1>2, <1>3 DEF GateInv, Journalled
<1>5. Covered'
  BY <1>1, <1>2, <1>3 DEF GateInv, Covered, Unsettled, Restoring
<1>6. Stage' /\ Updating' /\ TurnsOnlySettled'
  BY <1>1, <1>2, <1>3 DEF GateInv, Stage, Updating, TurnsOnlySettled, Restoring
<1>. QED
  BY <1>4, <1>5, <1>6 DEF GateInv

LEMMA GateCommit ==
  ASSUME IndInv, Commit
  PROVE  GateInv'
<1>1. /\ TypeOK /\ GateInv /\ run \in Runs /\ run # NoRun /\ active = NoId /\ run.id \in Range(order)
      /\ pc = "files" /\ IsInjective(order)
  BY AtWork DEF Commit, Restoring, IndInv, GateInv, Stage, TypeOK
<1>2. UNCHANGED <<order, used, manifest, journals, up, active, op, scan>>
  BY DEF Commit
<1>3. \A j : Unsettled(j)' <=> Unsettled(j)
  BY <1>2 DEF Unsettled
<1>4. CASE full
  <2>1. /\ run' = [run EXCEPT !.clean = FALSE, !.rr = TRUE] /\ pc' = "close"
        /\ gate' = gate \cup {run.id} /\ txn' = txn
    BY <1>4 DEF Commit
  <2>2. /\ run'.id = run.id /\ run'.from = run.from /\ run'.jr = run.jr /\ run' # NoRun
    BY <1>1, <2>1 DEF Runs, NoRun
  <2>3. Journalled'
    BY <1>1, <1>2, <1>3, <2>1, <2>2 DEF GateInv, Journalled
  <2>4. Covered'
    BY <1>1, <1>2, <1>3, <2>1, <2>2 DEF GateInv, Covered, Restoring
  <2>5. Updating'
    BY <1>1, <1>2, <2>1 DEF GateInv, Updating, Restoring
  <2>6. Stage' /\ TurnsOnlySettled'
    BY <1>1, <1>2, <2>1, <2>2 DEF GateInv, Stage, TurnsOnlySettled
  <2>. QED
    BY <2>3, <2>4, <2>5, <2>6 DEF GateInv
<1>5. CASE ~full
  <2>1. /\ run' = [run EXCEPT !.clean = Clean] /\ pc' = "apply" /\ gate' = gate
        /\ txn' = [order |-> IF Clean /\ ~run.ret THEN Earlier ELSE order,
                   manifest |-> [c \in Ids |-> Restored(c)]]
    BY <1>5 DEF Commit
  <2>2. /\ run'.id = run.id /\ run'.from = run.from /\ run'.jr = run.jr /\ run'.rr = run.rr /\ run' # NoRun
    BY <1>1, <2>1 DEF Runs, NoRun
  <2>3. Journalled'
    BY <1>1, <1>2, <1>3, <2>1, <2>2 DEF GateInv, Journalled
  <2>4. Covered'
    BY <1>1, <1>2, <1>3, <2>1, <2>2 DEF GateInv, Covered, Restoring
  <2>5. Updating'
    <3>1. Range(Earlier) \subseteq Range(order) /\ IsInjective(Earlier)
      BY <1>1, SelectedIs
    <3>2. txn'.order = IF Clean /\ ~run.ret THEN Earlier ELSE order
      BY <2>1
    <3>3. Range(txn'.order) \subseteq Range(order) /\ IsInjective(txn'.order)
      BY <1>1, <3>1, <3>2
    <3>. QED
      BY <1>2, <2>1, <3>3 DEF Updating, Restoring
  <2>6. Stage' /\ TurnsOnlySettled'
    BY <1>1, <1>2, <2>1, <2>2 DEF GateInv, Stage, TurnsOnlySettled
  <2>. QED
    BY <2>3, <2>4, <2>5, <2>6 DEF GateInv
<1>. QED
  BY <1>4, <1>5

\* A journal is finished only as settled, or with its checkpoint in the gate.
LEMMA GateClose ==
  ASSUME IndInv, Close \/ Clear \/ Mark
  PROVE  GateInv'
<1>1. /\ TypeOK /\ GateInv /\ run \in Runs /\ run # NoRun /\ active = NoId /\ journals \in Seq(Journals)
      /\ run.clean \in BOOLEAN /\ run.rr \in BOOLEAN /\ run.jok \in BOOLEAN
      /\ UNCHANGED <<order, used, manifest, txn, active>>
  BY AtWork DEF Close, Clear, Mark, Restoring, IndInv, GateInv, Stage, TypeOK, memory
<1>2. CASE Close
  <2>1. pc = "close" /\ run.jr \in DOMAIN journals /\ journals[run.jr].id = run.id /\ run.jr # 0
    BY <1>1, <1>2 DEF Close, GateInv, Journalled
  <2>2. journals[run.jr] \in Journals
    BY <1>1, <2>1, JournalIs
  <2>. DEFINE J == [journals[run.jr] EXCEPT !.fin = TRUE, !.rr = run.rr]
              written == run.jok /\ ~full
  <2>3. J.id = run.id /\ J.fin = TRUE /\ J.rr = run.rr
    BY <2>1, <2>2 DEF Journals
  <2>4. /\ UNCHANGED <<up, gate>>
        /\ journals' = IF written THEN [journals EXCEPT ![run.jr] = J] ELSE journals
        /\ \/ /\ run.from # 0 /\ pc' = "mark" /\ run' = [run EXCEPT !.clean = run.clean /\ written]
              /\ UNCHANGED <<op, scan>>
           \/ run.id \in gate /\ pc' = "clear" /\ UNCHANGED <<op, scan, run>>
           \/ End
    BY <1>2 DEF Close, Journal, memory
  <2>. HIDE DEF J
  <2>5. /\ DOMAIN journals' = DOMAIN journals /\ \A i \in DOMAIN journals : journals'[i].id = journals[i].id
        /\ \A i \in DOMAIN journals : i # run.jr => journals'[i] = journals[i]
        /\ written => journals'[run.jr].fin = TRUE /\ journals'[run.jr].rr = run.rr
    BY <2>1, <2>3, <2>4
  <2>6. CASE End
    BY <1>1, <2>5, <2>6, GateEnd
  <2>7. CASE /\ run.from # 0 /\ pc' = "mark" /\ run' = [run EXCEPT !.clean = run.clean /\ written]
             /\ UNCHANGED <<op, scan>>
    <3>1. /\ run'.id = run.id /\ run'.from = run.from /\ run'.jr = run.jr /\ run'.rr = run.rr /\ run' # NoRun
          /\ run'.clean = (run.clean /\ written)
      BY <1>1, <2>7 DEF Runs, NoRun
    <3>2. run.rr => run.id \in gate
      BY <1>1 DEF GateInv, Journalled
    <3>3. ~run'.clean \/ run'.id \in gate' \/ ~Unsettled(run.jr)'
      <4>1. CASE written
        BY <2>1, <2>4, <2>5, <3>1, <3>2, <4>1 DEF Unsettled
      <4>2. CASE ~written
        BY <3>1, <4>2
      <4>. QED
        BY <4>1, <4>2
    <3>4. Journalled'
      BY <1>1, <2>1, <2>4, <2>5, <2>7, <3>1, <3>3 DEF GateInv, Journalled
    <3>5. Covered'
      <4>1. \A i \in DOMAIN journals : i # run.jr => (Unsettled(i)' <=> Unsettled(i))
        BY <1>1, <2>5 DEF Unsettled
      <4>2. \A i \in DOMAIN journals :
              Unsettled(i) => i \in scan \cup {run.from, run.jr} \/ journals[i].id \in gate
        BY <1>1, <2>1 DEF GateInv, Covered, Restoring
      <4>3. \A i \in DOMAIN journals' :
              Unsettled(i)' => i \in scan' \cup {run'.from, run'.jr} \/ journals'[i].id \in gate'
        BY <2>4, <2>5, <2>7, <3>1, <4>1, <4>2
      <4>. QED
        BY <2>7, <4>3 DEF Covered
    <3>6. Stage' /\ Updating' /\ TurnsOnlySettled'
      BY <1>1, <2>1, <2>4, <2>5, <2>7, <3>1 DEF GateInv, Stage, Updating, TurnsOnlySettled, Restoring
    <3>. QED
      BY <3>4, <3>5, <3>6 DEF GateInv
  <2>8. CASE run.id \in gate /\ pc' = "clear" /\ UNCHANGED <<op, scan, run>>
    <3>1. Journalled'
      BY <1>1, <2>1, <2>4, <2>5, <2>8 DEF GateInv, Journalled
    <3>2. Stage' /\ Updating' /\ Covered' /\ TurnsOnlySettled'
      BY <1>1, <2>1, <2>4, <2>5, <2>8 DEF GateInv, Stage, Updating, Covered, TurnsOnlySettled, Restoring
    <3>. QED
      BY <3>1, <3>2 DEF GateInv
  <2>. QED
    BY <2>4, <2>6, <2>7, <2>8
<1>3. CASE Clear
  <2>1. /\ DOMAIN journals' = DOMAIN journals /\ \A i \in DOMAIN journals : journals'[i].id = journals[i].id
    <3>1. \A i \in DOMAIN journals : journals[i] \in Journals
      BY <1>1, JournalIs
    <3>2. \A i \in DOMAIN journals : Settled(i).id = journals[i].id
      BY <3>1 DEF Settled, Journals
    <3>. QED
      BY <1>3, <3>2 DEF Clear
  <2>2. End
    BY <1>3 DEF Clear
  <2>. QED
    BY <1>1, <2>1, <2>2, GateEnd
<1>4. CASE Mark
  <2>1. pc = "mark" /\ run.from \in DOMAIN journals /\ journals[run.from].id = run.id /\ run.from # 0
    BY <1>1, <1>4 DEF Mark, GateInv, Journalled
  <2>2. journals[run.from] \in Journals
    BY <1>1, <2>1, JournalIs
  <2>3. gate' = IF run.clean THEN gate ELSE gate \cup {run.id}
    BY <1>4 DEF Mark
  <2>4. CASE full
    BY <1>1, <1>4, <2>4, GateEnd DEF Mark, Refuse
  <2>5. CASE ~full
    <3>. DEFINE J == [journals[run.from] EXCEPT !.fin = TRUE, !.rr = ~run.clean]
    <3>1. J.id = run.id /\ J.fin = TRUE /\ J.rr = ~run.clean
      BY <1>1, <2>1, <2>2 DEF Journals
    <3>2. journals' = [journals EXCEPT ![run.from] = J] /\ pc' = "scan" /\ run' = NoRun /\ UNCHANGED <<op, scan, up>>
      BY <1>4, <2>5 DEF Mark, Journal
    <3>. HIDE DEF J
    <3>3. /\ DOMAIN journals' = DOMAIN journals /\ \A i \in DOMAIN journals : journals'[i].id = journals[i].id
          /\ \A i \in DOMAIN journals : i # run.from => journals'[i] = journals[i]
          /\ journals'[run.from].rr = ~run.clean /\ journals'[run.from].fin = TRUE
      BY <2>1, <3>1, <3>2
    <3>4. \A i \in DOMAIN journals : i # run.from => (Unsettled(i)' <=> Unsettled(i))
      BY <1>1, <3>3 DEF Unsettled
    <3>5. ASSUME NEW i \in DOMAIN journals, Unsettled(i)' PROVE i \in scan \/ journals[i].id \in gate'
      <4>1. CASE i = run.from
        <5>1. ~run.clean
          BY <1>1, <3>3, <3>5, <4>1 DEF Unsettled
        <5>. QED
          BY <2>1, <2>3, <4>1, <5>1
      <4>2. CASE i # run.from
        <5>1. Unsettled(i)
          BY <3>4, <3>5, <4>2
        <5>2. i \in scan \cup {run.jr} \/ journals[i].id \in gate
          BY <1>1, <2>1, <4>2, <5>1 DEF GateInv, Covered, Restoring
        <5>3. CASE i = run.jr
          <6>1. i # 0
            BY <1>1, JournalIs
          <6>2. (~run.clean \/ run.id \in gate) /\ journals[i].id = run.id
            BY <1>1, <2>1, <5>1, <5>3, <6>1 DEF GateInv, Journalled
          <6>. QED
            BY <2>3, <6>2
        <5>. QED
          BY <2>3, <5>2, <5>3
      <4>. QED
        BY <4>1, <4>2
    <3>6. Covered'
      BY <3>2, <3>3, <3>5 DEF Covered, Restoring
    <3>7. Updating'
      BY <1>1, <2>1, <2>3, <3>2 DEF GateInv, Updating, Restoring
    <3>8. Stage' /\ Journalled' /\ TurnsOnlySettled'
      BY <1>1, <2>1, <3>2, <3>3 DEF GateInv, Stage, Journalled, TurnsOnlySettled, Restoring
    <3>. QED
      BY <3>6, <3>7, <3>8 DEF GateInv
  <2>. QED
    BY <2>4, <2>5
<1>. QED
  BY <1>2, <1>3, <1>4

LEMMA GateGo ==
  ASSUME IndInv, GoNowhere \/ GoRestore \/ BeginRefused \/ BeginManifest \/ GoError
  PROVE  GateInv'
<1>1. /\ TypeOK /\ GateInv /\ pc = "go" /\ run = NoRun /\ scan = {} /\ active = NoId
      /\ UNCHANGED <<order, used, txn, journals, up, active, gate>>
      /\ \A j \in DOMAIN journals : Unsettled(j) => journals[j].id \in gate
  <2>1. pc = "go" /\ UNCHANGED <<order, used, txn, journals, up, active, gate>>
    BY DEF GoNowhere, GoRestore, BeginRefused, BeginManifest, GoError, disk, memory
  <2>2. TypeOK /\ run = NoRun /\ scan = {} /\ active = NoId
    BY <2>1, Owned
  <2>. QED
    BY <2>1, <2>2 DEF IndInv, GateInv, Covered
<1>2. CASE GoNowhere \/ BeginRefused \/ GoError
  <2>1. End
    BY <1>2 DEF GoNowhere, BeginRefused, GoError
  <2>. QED
    BY <1>1, <2>1, GateEnd
<1>3. CASE GoRestore
  <2>1. /\ pc' = "plan" /\ run' = NewRun(op.id, op.incl, op.ret, 0) /\ UNCHANGED <<op, scan>>
        /\ op.id \in Range(order)
    BY <1>3 DEF GoRestore
  <2>2. /\ run'.id = op.id /\ run'.from = 0 /\ run'.jr = 0 /\ run'.rr = FALSE /\ run' # NoRun
    BY <2>1 DEF NewRun, NoRun
  <2>3. Journalled'
    BY <1>1, <2>1, <2>2 DEF Journalled
  <2>4. Covered'
    BY <1>1, <2>1, <2>2 DEF Covered, Unsettled, Restoring
  <2>5. Stage' /\ Updating' /\ TurnsOnlySettled'
    BY <1>1, <2>1, <2>2 DEF GateInv, Stage, Updating, TurnsOnlySettled, Restoring
  <2>. QED
    BY <2>3, <2>4, <2>5 DEF GateInv
<1>4. CASE BeginManifest
  <2>1. pc' = "index" /\ gate = {} /\ op.kind = "begin" /\ UNCHANGED <<op, scan, run>>
    BY <1>4 DEF BeginManifest
  <2>2. txn = NoTxn
    BY <1>1, <2>1 DEF GateInv, Updating
  <2>3. Stage' /\ Journalled' /\ Updating' /\ TurnsOnlySettled'
    BY <1>1, <2>1, <2>2 DEF GateInv, Stage, Journalled, Updating, TurnsOnlySettled, Restoring
  <2>4. Covered'
    BY <1>1, <2>1 DEF Covered, Unsettled, Restoring
  <2>. QED
    BY <2>3, <2>4 DEF GateInv
<1>. QED
  BY <1>2, <1>3, <1>4

\* A turn begins: nothing gates, so nothing is half done, and the new checkpoint
\* is none that any journal is about.
LEMMA GateBegin ==
  ASSUME IndInv, BeginIndex
  PROVE  GateInv'
<1>1. /\ TypeOK /\ GateInv /\ pc = "index" /\ run = NoRun /\ scan = {} /\ active = NoId /\ gate = {}
      /\ \A j \in DOMAIN journals : ~Unsettled(j) /\ journals[j].id \in used
  <2>1. pc = "index" /\ TypeOK /\ run = NoRun /\ scan = {} /\ active = NoId
    BY Owned DEF BeginIndex
  <2>. QED
    BY <2>1 DEF IndInv, GateInv, Stage, Covered
<1>2. End /\ UNCHANGED <<txn, journals, up, gate>>
  BY DEF BeginIndex
<1>3. txn = NoTxn
  BY <1>1 DEF GateInv, Updating
<1>4. CASE full
  <2>1. UNCHANGED <<order, used, active>>
    BY <1>4 DEF BeginIndex
  <2>. QED
    BY <1>1, <1>2, <2>1, GateEnd
<1>5. CASE ~full
  <2>1. Range(order') \subseteq Range(order) \cup {op.id} /\ op.id \notin used
    BY <1>5, BranchGrows
  <2>2. used' = used \cup {op.id}
    BY <1>5 DEF BeginIndex
  <2>3. \A j \in DOMAIN journals : journals[j].id \in Range(order') => journals[j].fin /\ ~journals[j].rr
    BY <1>1, <2>1 DEF Unsettled
  <2>4. TurnsOnlySettled'
    BY <1>2, <1>3, <2>3 DEF TurnsOnlySettled
  <2>5. Stage'
    BY <1>1, <1>2, <2>2 DEF Stage, End, NoOp, Restoring
  <2>6. Journalled' /\ Updating' /\ Covered'
    BY <1>2, <1>3 DEF Journalled, Updating, Covered, End, Restoring
  <2>. QED
    BY <2>4, <2>5, <2>6 DEF GateInv
<1>. QED
  BY <1>4, <1>5

LEMMA GateFold ==
  ASSUME IndInv, Fold
  PROVE  GateInv'
<1>1. /\ TypeOK /\ GateInv /\ pc = "go" /\ run = NoRun /\ scan = {} /\ active = NoId
      /\ UNCHANGED <<order, used, journals, up, active, gate>>
  BY Owned DEF Fold, memory, IndInv
<1>2. CASE full
  <2>1. End /\ txn' = txn
    BY <1>2 DEF Fold
  <2>. QED
    BY <1>1, <2>1, GateEnd
<1>3. CASE ~full
  <2>1. pc' = "apply" /\ UNCHANGED <<op, scan, run>>
    BY <1>3 DEF Fold
  <2>2. Range(txn'.order) \subseteq Range(order) /\ IsInjective(txn'.order)
    BY <1>3, TypedFold
  <2>3. Updating'
    BY <1>1, <2>1, <2>2 DEF Updating, Restoring
  <2>4. Stage' /\ Journalled' /\ Covered' /\ TurnsOnlySettled'
    BY <1>1, <2>1 DEF GateInv, Stage, Journalled, Covered, TurnsOnlySettled, Restoring
  <2>. QED
    BY <2>3, <2>4 DEF GateInv
<1>. QED
  BY <1>2, <1>3

\* The next owner looks at every journal whose restore is not done.
LEMMA GateAcquire ==
  ASSUME IndInv, Restart \/ \E o \in Ops : Acquire(o)
  PROVE  GateInv'
<1>1. /\ active = NoId /\ run' = NoRun /\ pc' \in {"txn", "scan", "go"} /\ up'
      /\ op'.kind = "begin" => op'.id \notin used
  BY TypedAcquire
<1>2. /\ TypeOK /\ GateInv /\ UNCHANGED <<order, used, txn, journals, active, gate>>
      /\ scan' = {j \in DOMAIN journals : ~journals[j].fin} \cup HalfDone
      /\ pc' = IF txn # NoTxn THEN "txn" ELSE IF scan' # {} THEN "scan" ELSE "go"
  BY DEF IndInv, Restart, Acquire, Recover, disk, memory
<1>3. Covered'
  BY <1>1, <1>2 DEF Covered, Unsettled, HalfDone, Restoring
<1>4. Stage'
  BY <1>1, <1>2 DEF GateInv, Stage, Restoring
<1>5. Updating' /\ Journalled' /\ TurnsOnlySettled'
  BY <1>1, <1>2 DEF GateInv, Updating, Journalled, TurnsOnlySettled, Restoring
<1>. QED
  BY <1>3, <1>4, <1>5 DEF GateInv

LEMMA GateStep ==
  ASSUME IndInv, [Next]_vars
  PROVE  GateInv'
<1>1. CASE Turn
  BY <1>1, GateTurn
<1>2. CASE Step
  <2>1. CASE ApplyManifest \/ ApplyIndex \/ ApplyDone \/ ApplyError
    BY <2>1, GateApply
  <2>2. CASE Scan \/ ScanDone
    BY <2>2, GateScan
  <2>3. CASE CloseTurn \/ PlanError \/ Plan
    BY <2>3, GatePlan
  <2>4. CASE (\E p \in Paths : Compare(p)) \/ Swap \/ Commit
    BY <2>4, GateFiles, GateCommit
  <2>5. CASE Close \/ Clear \/ Mark
    BY <2>5, GateClose
  <2>6. CASE GoNowhere \/ GoRestore \/ BeginRefused \/ BeginManifest \/ GoError
    BY <2>6, GateGo
  <2>7. CASE BeginIndex \/ Fold
    BY <2>7, GateBegin, GateFold
  <2>. QED
    BY <1>2, <2>1, <2>2, <2>3, <2>4, <2>5, <2>6, <2>7 DEF Step
<1>3. CASE Restart \/ \E o \in Ops : Acquire(o)
  BY <1>3, GateAcquire
<1>4. CASE (\E p \in Paths : UserEdit(p)) \/ FillUp \/ FreeUp \/ UNCHANGED vars
  <2>1. UNCHANGED <<order, used, manifest, txn, journals, up, active, gate, pc, op, scan, run>>
    BY <1>4 DEF UserEdit, FillUp, FreeUp, vars, disk, memory, work
  <2>. QED
    BY <2>1, GateSame
<1>5. CASE Kill
  <2>1. End /\ active' = NoId /\ UNCHANGED <<order, used, txn, journals>>
    BY <1>5 DEF Kill, disk
  <2>. QED
    BY <2>1, GateEnd
<1>. QED
  BY <1>1, <1>2, <1>3, <1>4, <1>5 DEF Next

-----------------------------------------------------------------------------
(* Every step keeps what is to be restored *)

LEMMA SameTrail ==
  ASSUME UNCHANGED <<order, manifest>>, run'.id = run.id, run'.incl = run.incl
  PROVE  \A p : Chain(p, Selected)' = Chain(p, Selected)
<1>1. Selected' = Selected
  BY DEF Selected, Start, Place
<1>. QED
  BY <1>1 DEF Chain

LEMMA ChainedStep ==
  ASSUME IndInv, [Next]_vars
  PROVE  Chained'
<1>1. TypeOK /\ Chained /\ Stage
  BY DEF IndInv, GateInv
<1>2. CASE pc' \notin {"plan", "files", "swap"}
  BY <1>2 DEF Chained
<1>3. CASE (\E p \in Paths : UserEdit(p)) \/ FillUp \/ FreeUp \/ UNCHANGED vars
  <2>1. UNCHANGED <<order, manifest, pc, run>>
    BY <1>3 DEF UserEdit, FillUp, FreeUp, vars, disk, work
  <2>2. \A p : Chain(p, Selected)' = Chain(p, Selected)
    BY <2>1, SameTrail
  <2>. QED
    BY <1>1, <2>1, <2>2 DEF Chained
<1>4. CASE Scan \/ GoRestore
  <2>1. pc \notin {"plan", "files", "swap"} /\ pc' \in {"plan", "files", "swap"} => pc' = "plan" /\ run'.cur = {}
    BY <1>4 DEF Scan, GoRestore, NewRun, Refuse, End
  <2>. QED
    BY <1>4, <2>1 DEF Chained, Scan, GoRestore
<1>5. CASE CloseTurn
  <2>1. UNCHANGED <<pc, run>> /\ pc \in {"plan", "go"}
    BY <1>5 DEF CloseTurn, work
  <2>. QED
    BY <1>1, <2>1 DEF Chained
<1>6. CASE Plan
  <2>1. run \in Runs /\ pc = "plan" /\ pc' = "files" /\ UNCHANGED <<order, manifest>>
    BY <1>6, AtWork DEF Plan, Restoring
  <2>2. run'.id = run.id /\ run'.incl = run.incl /\ run'.todo = ToSwap /\ run'.cur = {}
    BY <1>1, <1>6, <2>1 DEF Plan, Chained, Runs
  <2>3. \A p \in ToSwap : Chain(p, Selected) # << >>
    BY DEF ToSwap, Fit, Traced
  <2>4. \A p : Chain(p, Selected)' = Chain(p, Selected)
    BY <2>1, <2>2, SameTrail
  <2>. QED
    BY <2>1, <2>2, <2>3, <2>4 DEF Chained
<1>7. CASE (\E p \in Paths : Compare(p)) \/ Swap
  <2>1. run \in Runs /\ pc \in {"files", "swap"} /\ pc' \in {"files", "swap"} /\ UNCHANGED <<order, manifest>>
    BY <1>7, AtWork DEF Compare, Swap, disk, Restoring
  <2>2. run'.id = run.id /\ run'.incl = run.incl /\ run'.todo \cup run'.cur \subseteq run.todo \cup run.cur
    <3>1. ASSUME NEW p \in Paths, Compare(p)
          PROVE  run'.id = run.id /\ run'.incl = run.incl /\ run'.todo \cup run'.cur \subseteq run.todo \cup run.cur
      <4>1. \/ run' = [run EXCEPT !.todo = {}, !.clean = FALSE, !.jok = FALSE]
            \/ run' = [run EXCEPT !.todo = @ \ {p}, !.clean = FALSE]
            \/ run' = [run EXCEPT !.todo = @ \ {p}, !.cur = {p}]
        BY <3>1 DEF Compare
      <4>2. p \in run.todo
        BY <3>1 DEF Compare
      <4>3. \/ run'.todo = {} /\ run'.cur = run.cur
            \/ run'.todo = run.todo \ {p} /\ run'.cur = run.cur
            \/ run'.todo = run.todo \ {p} /\ run'.cur = {p}
        BY <2>1, <4>1 DEF Runs
      <4>4. run'.id = run.id /\ run'.incl = run.incl
        BY <2>1, <4>1 DEF Runs
      <4>. QED
        BY <4>2, <4>3, <4>4
    <3>2. ASSUME Swap
          PROVE  run'.id = run.id /\ run'.incl = run.incl /\ run'.todo \cup run'.cur \subseteq run.todo \cup run.cur
      BY <2>1, <3>2 DEF Swap, Runs
    <3>. QED
      BY <1>7, <3>1, <3>2
  <2>3. \A p : Chain(p, Selected)' = Chain(p, Selected)
    BY <2>1, <2>2, SameTrail
  <2>. QED
    BY <1>1, <2>1, <2>2, <2>3 DEF Chained
<1>8. CASE Turn
  <2>1. active # NoId /\ UNCHANGED pc
    BY <1>8 DEF Turn, Finish, ToolWrite, Post, Discard, Pre, PreUnknown, InTurn, work
  <2>2. pc = "idle"
    BY <1>1, <2>1 DEF TypeOK
  <2>. QED
    BY <2>1, <2>2 DEF Chained
<1>9. CASE \/ ApplyManifest \/ ApplyIndex \/ ApplyDone \/ ApplyError \/ ScanDone \/ PlanError
           \/ Commit \/ Close \/ Clear \/ Mark
           \/ GoNowhere \/ BeginRefused \/ BeginManifest \/ BeginIndex \/ Fold \/ GoError
           \/ Kill \/ Restart \/ \E o \in Ops : Acquire(o)
  <2>1. pc' \notin {"plan", "files", "swap"}
    BY <1>9 DEF ApplyManifest, ApplyIndex, ApplyDone, ApplyError, ScanDone, PlanError, Commit, Close, Clear, Mark,
          GoNowhere, BeginRefused, BeginManifest, BeginIndex, Fold, GoError, Kill, Restart, Acquire, Recover,
          Refuse, End, work
  <2>. QED
    BY <2>1, <1>2
<1>. QED
  BY <1>3, <1>4, <1>5, <1>6, <1>7, <1>8, <1>9 DEF Next, Step

-----------------------------------------------------------------------------
(* The theorems *)

LEMMA IndInit ==
  ASSUME Init
  PROVE  IndInv
<1>1. order = << >> /\ order \in Seq(Ids) /\ IsInjective(order) /\ Range(order) = {}
  BY DEF Init, IsInjective, Range
<1>2. journals = << >> /\ journals \in Seq(Journals) /\ DOMAIN journals = {}
  BY DEF Init
<1>3. file \in [Paths -> States]
  BY DEF Init, States, Absent
<1>4. manifest \in [Ids -> Manifests]
  BY BlankIs DEF Init
<1>8. calls \in [Calls -> [st : {"pre", "ran", "posted", "lost"}, path : Paths, call : 1 .. made] \cup {Idle}]
  BY DEF Init
<1>9. /\ clock = 1 /\ made = 0 /\ up = TRUE /\ full = FALSE /\ used = {} /\ pending = {} /\ txn = NoTxn
      /\ active = NoId /\ gate = {} /\ run = NoRun /\ scan = {} /\ op = NoOp /\ pc = "idle"
  BY DEF Init
<1>5. TypeOK
  <2>1. {clock, made} \subseteq Nat /\ {up, full} \subseteq BOOLEAN
    <3>1. clock \in Nat /\ made \in Nat
      BY <1>9
    <3>2. up \in BOOLEAN /\ full \in BOOLEAN
      BY <1>9, Zenon
    <3>. QED
      BY <3>1, <3>2
  <2>2. /\ order \in Seq(Ids) /\ used \subseteq Ids /\ IsInjective(order) /\ Range(order) \subseteq used
        /\ pending \subseteq [id : Ids, call : 1 .. made, path : Paths, before : States \cup {Unsafe}]
        /\ txn \in Updates \cup {NoTxn} /\ journals \in Seq(Journals)
        /\ active \in Range(order) \cup {NoId} /\ gate \subseteq Ids
    <3>1. order \in Seq(Ids) /\ IsInjective(order)
      BY <1>1, Zenon
    <3>2. used \subseteq Ids /\ Range(order) \subseteq used /\ gate \subseteq Ids
      BY <1>1, <1>9
    <3>3. pending \subseteq [id : Ids, call : 1 .. made, path : Paths, before : States \cup {Unsafe}]
      BY <1>9
    <3>4. txn \in Updates \cup {NoTxn} /\ active \in Range(order) \cup {NoId}
      BY <1>9
    <3>5. journals \in Seq(Journals)
      BY <1>2
    <3>. QED
      BY <3>1, <3>2, <3>3, <3>4, <3>5
  <2>3. op.kind = "none"
    BY <1>9 DEF NoOp
  <2>4. run \in Runs \cup {NoRun} /\ scan \subseteq DOMAIN journals
    BY <1>9
  <2>5. active # NoId => up /\ pc = "idle"
    BY <1>9
  <2>6. \A j \in DOMAIN journals : journals[j].rr => journals[j].fin
    BY <1>2
  <2>7. pc = "idle" => run = NoRun /\ op = NoOp /\ scan = {}
    BY <1>9
  <2>. HIDE DEF Init
  <2>. QED
    BY <1>3, <1>4, <1>8, <2>1, <2>2, <2>3, <2>4, <2>5, <2>6, <2>7 DEF TypeOK
<1>6. GateInv
  BY <1>1, <1>2 DEF Init, GateInv, Stage, Journalled, Updating, Covered, TurnsOnlySettled, NoOp, Restoring
<1>7. Chained
  BY DEF Init, Chained
<1>. QED
  BY <1>5, <1>6, <1>7 DEF IndInv

LEMMA IndAlways == Spec => []IndInv
<1>1. Init => IndInv
  BY IndInit
<1>2. IndInv /\ [Next]_vars => IndInv'
  BY TypeStep, GateStep, ChainedStep DEF IndInv
<1>. QED
  BY <1>1, <1>2, PTL DEF Spec

\* Index, manifests, journals, the transaction and the restore in progress keep
\* their types whatever is killed, edited or refused for lack of space; a branch
\* never names a checkpoint twice.
THEOREM TypeCorrect == Spec => []TypeOK
<1>1. IndInv => TypeOK
  BY DEF IndInv
<1>. QED
  BY <1>1, IndAlways, PTL

\* No turn runs while a restore is half done, for any number of kills, full
\* disks and retries.
THEOREM NoTurnOverHalfARestore == Spec => []TurnsOnlySettled
<1>1. IndInv => TurnsOnlySettled
  BY DEF IndInv, GateInv
<1>. QED
  BY <1>1, IndAlways, PTL

-----------------------------------------------------------------------------
(* What the user wrote *)

Open(p) == p \in windowed \cup blessed

\* A change as a trail may hold it: made of contents there have been, and leaving
\* what the user wrote only where he wrote inside a window or a restore blessed it.
Sound(p) == {ch \in Changes : /\ ch.before.data <= clock /\ ch.after.data <= clock
                              /\ ch.after.data \in mine => Open(p)}

Written == mine \subseteq 1 .. clock /\ \A p \in Paths : file[p].data <= clock

\* The trails, and those of a branch update that is not done.
Recorded == \A c \in Ids, p \in Paths : manifest[c].ops[p] \in Seq(Sound(p))
Prepared == txn # NoTxn => \A c \in Ids, p \in Paths : txn.manifest[c].ops[p] \in Seq(Sound(p))

\* Between the hooks of a call its file is as it was recorded, or no content of
\* the user's, or he wrote it while the call was open.
Watched ==
  /\ active = NoId => \A k \in Calls : calls[k] = Idle
  /\ \A r \in pending : r.before.data <= clock
  /\ \A k \in Calls : calls[k] # Idle /\ calls[k].st \in {"pre", "ran"} =>
       \A r \in Record(k) :
         /\ r.path = calls[k].path
         /\ file[r.path].data \in mine =>
              r.path \in windowed \/ r.before = Unsafe \/ r.before.data = file[r.path].data

\* What was compared and is not yet renamed.
Compared == pc = "swap" => \A p \in run.cur : file[p].data \in mine => Open(p)

TrailInv == Written /\ Recorded /\ Prepared /\ Watched /\ Compared

\* Contents are new, and what is a window or blessed stays so.
Grows ==
  /\ clock \in Nat /\ clock' \in Nat /\ clock <= clock'
  /\ windowed \subseteq windowed' /\ blessed \subseteq blessed'
  /\ \A n \in mine' : n \in mine \/ ~(n <= clock)

LEMMA SoundGrows ==
  ASSUME Grows, NEW p \in Paths
  PROVE  /\ Sound(p) \subseteq Sound(p)'
         /\ \A s : s \in Seq(Sound(p)) => s \in Seq(Sound(p)')
<1>1. ASSUME NEW ch \in Sound(p) PROVE ch \in Sound(p)'
  <2>1. ch \in Changes /\ ch.before.data \in Nat /\ ch.after.data \in Nat
    BY DEF Sound, Changes, States, Absent
  <2>. QED
    BY <1>1, <2>1 DEF Grows, Sound, Open
<1>. PICK S : S = Sound(p)
  OBVIOUS
<1>. PICK T : T = Sound(p)'
  OBVIOUS
<1>2. S \subseteq T
  BY <1>1
<1>3. \A s \in Seq(S) : s \in Seq(T)
  BY <1>2, SeqMonotonic
<1>. QED
  BY <1>2, <1>3

LEMMA GrowsStep ==
  ASSUME IndInv, TrailInv, [Next]_vars
  PROVE  Grows
<1>1. TypeOK /\ clock \in Nat /\ mine \subseteq 1 .. clock
  BY DEF IndInv, TypeOK, TrailInv, Written
<1>2. CASE UNCHANGED <<clock, mine, windowed, blessed>>
  BY <1>1, <1>2 DEF Grows
<1>3. ASSUME NEW p \in Paths, UserEdit(p) PROVE Grows
  <2>1. clock' = clock + 1 /\ blessed' = blessed /\ windowed \subseteq windowed'
    BY <1>3 DEF UserEdit
  <2>2. mine' \subseteq mine \cup {clock + 1}
    <3>1. file \in [Paths -> States]
      BY <1>1 DEF TypeOK
    <3>2. PICK new \in {[data |-> clock + 1, ino |-> i] : i \in {clock + 1, file[p].ino} \ {0}} \cup {Absent} :
            file' = [file EXCEPT ![p] = new]
      BY <1>3 DEF UserEdit
    <3>3. new.data \in {clock + 1, 0}
      BY <3>2 DEF Absent
    <3>4. file'[p] = new
      BY <3>1, <3>2
    <3>5. mine' = mine \cup ({file'[p].data} \ {0})
      BY <1>3 DEF UserEdit
    <3>. QED
      BY <3>3, <3>4, <3>5
  <2>. QED
    BY <1>1, <2>1, <2>2 DEF Grows
<1>4. ASSUME NEW k \in Calls, ToolWrite(k) PROVE Grows
  <2>1. mine' = mine /\ blessed' = blessed /\ windowed \subseteq windowed' /\ clock' \in {clock, clock + 1}
    BY <1>4 DEF ToolWrite
  <2>. QED
    BY <1>1, <2>1 DEF Grows
<1>5. CASE Swap
  <2>1. UNCHANGED <<mine, blessed, windowed>> /\ clock' \in {clock, clock + 1}
    BY <1>5 DEF Swap, history
  <2>. QED
    BY <1>1, <2>1 DEF Grows
<1>6. CASE Commit
  <2>1. UNCHANGED <<mine, clock, windowed>> /\ blessed \subseteq blessed'
    BY <1>6 DEF Commit, bounds
  <2>. QED
    BY <1>1, <2>1 DEF Grows
<1>7. CASE Turn
  <2>1. ASSUME NEW k \in Calls, NEW p \in Paths, Pre(k, p) \/ PreUnknown(k, p)
        PROVE  UNCHANGED <<clock, mine, windowed, blessed>>
    BY <2>1 DEF Pre, PreUnknown
  <2>2. ASSUME NEW k \in Calls, Post(k) \/ Discard(k) PROVE UNCHANGED <<clock, mine, windowed, blessed>>
    BY <2>2 DEF Post, Discard, bounds, history
  <2>3. Finish => UNCHANGED <<clock, mine, windowed, blessed>>
    BY DEF Finish, bounds, history
  <2>. QED
    BY <1>2, <1>4, <1>7, <2>1, <2>2, <2>3 DEF Turn
<1>8. CASE Step
  <2>1. CASE ApplyManifest \/ ApplyIndex \/ ApplyDone \/ ApplyError \/ Scan \/ ScanDone
    BY <1>2, <2>1 DEF ApplyManifest, ApplyIndex, ApplyDone, ApplyError, Scan, ScanDone, bounds, history
  <2>2. CASE CloseTurn \/ PlanError \/ Plan \/ \E p \in Paths : Compare(p)
    BY <1>2, <2>2 DEF CloseTurn, PlanError, Plan, Compare, bounds, history
  <2>3. CASE Close \/ Clear \/ Mark \/ GoNowhere \/ GoRestore \/ BeginRefused \/ BeginManifest
    BY <1>2, <2>3 DEF Close, Clear, Mark, GoNowhere, GoRestore, BeginRefused, BeginManifest, bounds, history
  <2>4. CASE BeginIndex \/ Fold \/ GoError
    BY <1>2, <2>4 DEF BeginIndex, Fold, GoError, bounds, history
  <2>. QED
    BY <1>5, <1>6, <1>8, <2>1, <2>2, <2>3, <2>4 DEF Step
<1>9. CASE Restart \/ (\E o \in Ops : Acquire(o)) \/ Kill \/ FillUp \/ FreeUp \/ UNCHANGED vars
  BY <1>2, <1>9 DEF Restart, Acquire, Kill, FillUp, FreeUp, vars, bounds, history
<1>. QED
  BY <1>3, <1>7, <1>8, <1>9 DEF Next

LEMMA SoundChain ==
  ASSUME manifest \in [Ids -> Manifests], Recorded, NEW p \in Paths, NEW ids \in Seq(Ids)
  PROVE  /\ Chain(p, ids) \in Seq(Sound(p))
         /\ Chain(p, ids) # << >> => Head(Chain(p, ids)) \in Sound(p) /\ Last(Chain(p, ids)) \in Sound(p)
<1>. DEFINE trails == [i \in DOMAIN ids |-> manifest[ids[i]].ops[p]]
<1>1. Len(ids) \in Nat /\ DOMAIN ids = 1 .. Len(ids) /\ \A i \in 1 .. Len(ids) : ids[i] \in Ids
  BY LenProperties, ElementOfSeq
<1>. PICK S : S = Sound(p)
  OBVIOUS
<1>2. \A c \in Ids : manifest[c].ops[p] \in Seq(S)
  BY DEF Recorded
<1>3. trails \in [1 .. Len(ids) -> Seq(S)]
  BY <1>1, <1>2
<1>4. trails \in Seq(Seq(S))
  <2>. HIDE DEF trails
  <2>. QED
    BY <1>1, <1>3, SeqDef
<1>5. Chain(p, ids) \in Seq(S)
  BY <1>4, Flattened DEF Chain
<1>. PICK t : t = Chain(p, ids)
  OBVIOUS
<1>6. ASSUME t # << >> PROVE Head(t) \in S /\ Last(t) \in S
  <2>1. t \in Seq(S) /\ Len(t) \in Nat /\ Len(t) # 0
    BY <1>5, <1>6, EmptySeq
  <2>2. Head(t) \in S
    BY <1>6, <2>1
  <2>3. t[Len(t)] \in S
    BY <2>1, ElementOfSeq
  <2>. QED
    BY <2>2, <2>3 DEF Last
<1>. QED
  BY <1>5, <1>6

LEMMA FileSteps ==
  ASSUME [Next]_vars
  PROVE  \/ UNCHANGED <<file, clock, mine>>
         \/ \E k \in Calls : ToolWrite(k)
         \/ Swap
         \/ \E p \in Paths : UserEdit(p)
<1>1. CASE Turn
  <2>1. ASSUME NEW k \in Calls, NEW p \in Paths, Pre(k, p) \/ PreUnknown(k, p)
        PROVE  UNCHANGED <<file, clock, mine>>
    BY <2>1 DEF Pre, PreUnknown
  <2>2. ASSUME NEW k \in Calls, Post(k) \/ Discard(k) PROVE UNCHANGED <<file, clock, mine>>
    BY <2>2 DEF Post, Discard, bounds, history
  <2>3. Finish => UNCHANGED <<file, clock, mine>>
    BY DEF Finish, bounds, history
  <2>. QED
    BY <1>1, <2>1, <2>2, <2>3 DEF Turn
<1>2. CASE Step
  <2>1. CASE ApplyManifest \/ ApplyIndex \/ ApplyDone \/ ApplyError \/ Scan \/ ScanDone
    BY <2>1 DEF ApplyManifest, ApplyIndex, ApplyDone, ApplyError, Scan, ScanDone, bounds, history
  <2>2. CASE CloseTurn \/ PlanError \/ Plan \/ \E p \in Paths : Compare(p)
    BY <2>2 DEF CloseTurn, PlanError, Plan, Compare, bounds, history
  <2>3. CASE Commit \/ Close \/ Clear \/ Mark \/ GoNowhere \/ GoRestore \/ BeginRefused \/ BeginManifest
    BY <2>3 DEF Commit, Close, Clear, Mark, GoNowhere, GoRestore, BeginRefused, BeginManifest, bounds, history
  <2>4. CASE BeginIndex \/ Fold \/ GoError
    BY <2>4 DEF BeginIndex, Fold, GoError, bounds, history
  <2>. QED
    BY <1>2, <2>1, <2>2, <2>3, <2>4 DEF Step
<1>3. CASE Restart \/ (\E o \in Ops : Acquire(o)) \/ Kill \/ FillUp \/ FreeUp \/ UNCHANGED vars
  BY <1>3 DEF Restart, Acquire, Kill, FillUp, FreeUp, vars, bounds, history
<1>. QED
  BY <1>1, <1>2, <1>3 DEF Next

\* What a tool writes is new, or the file is gone; so is what the user writes.
LEMMA Wrote ==
  ASSUME IndInv, TrailInv, NEW p \in Paths, UserEdit(p) \/ \E k \in Calls : ToolWrite(k) /\ p = calls[k].path
  PROVE  /\ \A q \in Paths : q # p => file'[q] = file[q]
         /\ file'[p].data \in {0, clock + 1}
         /\ file'[p].data <= clock' /\ clock' \in {clock, clock + 1} /\ clock \in Nat
<1>1. TypeOK /\ clock \in Nat /\ file \in [Paths -> States]
  BY DEF IndInv, TypeOK
<1>2. CASE UserEdit(p)
  <2>1. PICK new \in {[data |-> clock + 1, ino |-> i] : i \in {clock + 1, file[p].ino} \ {0}} \cup {Absent} :
          file' = [file EXCEPT ![p] = new]
    BY <1>2 DEF UserEdit
  <2>2. new.data \in {clock + 1, 0}
    BY <2>1 DEF Absent
  <2>3. file'[p] = new /\ clock' = clock + 1
    BY <1>1, <1>2, <2>1 DEF UserEdit
  <2>. QED
    BY <1>1, <2>1, <2>2, <2>3
<1>3. ASSUME NEW k \in Calls, ToolWrite(k), p = calls[k].path
      PROVE  /\ \A q \in Paths : q # p => file'[q] = file[q]
             /\ file'[p].data \in {0, clock + 1}
             /\ file'[p].data <= clock' /\ clock' \in {clock, clock + 1} /\ clock \in Nat
  <2>1. PICK new : /\ file' = [file EXCEPT ![p] = new]
                   /\ new \in {[data |-> clock + 1, ino |-> IF file[p] = Absent THEN clock + 1 ELSE file[p].ino], Absent}
    BY <1>3 DEF ToolWrite
  <2>2. file'[p] = new
    BY <1>1, <2>1
  <2>3. new.data \in {clock + 1, 0} /\ (new # Absent => new.data = clock + 1) /\ Absent.data = 0
    BY <2>1 DEF Absent
  <2>4. clock' = IF file'[p] = Absent THEN clock ELSE clock + 1
    BY <1>3 DEF ToolWrite
  <2>5. file'[p].data <= clock' /\ clock' \in {clock, clock + 1}
    BY <1>1, <2>2, <2>3, <2>4
  <2>6. \A q \in Paths : q # p => file'[q] = file[q]
    BY <1>1, <2>1
  <2>. QED
    BY <1>1, <2>2, <2>3, <2>5, <2>6
<1>. QED
  BY <1>2, <1>3

\* What a restore puts back is what there has been.
LEMMA Swapped ==
  ASSUME IndInv, TrailInv, Swap
  PROVE  \A q \in Paths : file'[q].data <= clock' /\ clock' \in {clock, clock + 1} /\ clock \in Nat
<1>1. TypeOK /\ clock \in Nat /\ file \in [Paths -> States] /\ run \in Runs /\ run.id \in Range(order)
  BY AtWork DEF IndInv, TypeOK, Swap, Restoring
<1>2. PICK p \in run.cur :
        file' = [file EXCEPT ![p] = IF Desired(p) = Absent THEN Absent
                                    ELSE [data |-> Desired(p).data, ino |-> clock + 1]]
  BY DEF Swap
<1>3. p \in Paths /\ Chain(p, Selected) # << >>
  BY DesiredIs DEF Swap, IndInv, Chained
<1>4. Chain(p, Selected) \in Seq(Sound(p))
  BY <1>1, <1>3, SelectedIs, SoundChain DEF TrailInv, TypeOK
<1>5. Head(Chain(p, Selected)) \in Sound(p)
  BY <1>1, <1>3, SelectedIs, SoundChain DEF TrailInv, TypeOK
<1>6. Desired(p).data <= clock
  BY <1>5 DEF Desired, Sound
<1>7. clock' \in {clock, clock + 1}
  BY DEF Swap
<1>8. file'[p].data \in {0, Desired(p).data} /\ \A q \in Paths : q # p => file'[q] = file[q]
  BY <1>1, <1>2, <1>3 DEF Absent
<1>9. \A q \in Paths : file[q].data <= clock
  BY DEF TrailInv, Written
<1>10. ASSUME NEW q \in Paths PROVE file'[q].data <= clock'
  <2>1. file'[q].data <= clock
    BY <1>1, <1>6, <1>8, <1>9
  <2>2. file'[q].data \in Nat
    BY <1>1, TypedSwap DEF TypeOK, States, Absent
  <2>. QED
    BY <1>1, <1>7, <2>1, <2>2
<1>. QED
  BY <1>1, <1>7, <1>10

LEMMA WrittenStep ==
  ASSUME IndInv, TrailInv, [Next]_vars
  PROVE  Written'
<1>1. /\ TypeOK /\ clock \in Nat /\ file \in [Paths -> States] /\ file' \in [Paths -> States] /\ clock' \in Nat
      /\ mine \subseteq 1 .. clock /\ \A p \in Paths : file[p].data <= clock
  BY TypeStep DEF TrailInv, Written, IndInv, TypeOK
<1>2. \A p \in Paths : file[p].data \in Nat /\ file'[p].data \in Nat
  BY <1>1 DEF States, Absent
<1>3. CASE UNCHANGED <<file, clock, mine>>
  BY <1>1, <1>3 DEF Written
<1>4. ASSUME NEW k \in Calls, ToolWrite(k) PROVE Written'
  <2>. PICK p : p = calls[k].path
    OBVIOUS
  <2>1. p \in Paths
    BY <1>1, <1>4 DEF ToolWrite, TypeOK
  <2>2. /\ \A q \in Paths : q # p => file'[q] = file[q]
        /\ file'[p].data <= clock' /\ clock' \in {clock, clock + 1}
    BY <1>4, <2>1, Wrote
  <2>3. mine' = mine
    BY <1>4 DEF ToolWrite
  <2>. QED
    BY <1>1, <1>2, <2>1, <2>2, <2>3 DEF Written
<1>5. ASSUME NEW p \in Paths, UserEdit(p) PROVE Written'
  <2>1. /\ \A q \in Paths : q # p => file'[q] = file[q]
        /\ file'[p].data <= clock' /\ file'[p].data \in {0, clock + 1}
    BY <1>5, Wrote
  <2>2. mine' = mine \cup ({file'[p].data} \ {0}) /\ clock' = clock + 1
    BY <1>5 DEF UserEdit
  <2>3. \A q \in Paths : file'[q].data <= clock'
    BY <1>1, <1>2, <2>1, <2>2
  <2>4. mine' \subseteq 1 .. clock'
    <3>1. clock + 1 \in 1 .. clock' /\ 1 .. clock \subseteq 1 .. clock'
      BY <1>1, <2>2
    <3>2. \A n \in mine' : n \in mine \/ n = clock + 1
      BY <2>1, <2>2
    <3>. QED
      BY <1>1, <3>1, <3>2
  <2>. QED
    BY <2>3, <2>4 DEF Written
<1>6. CASE Swap
  <2>1. \A q \in Paths : file'[q].data <= clock'
    BY <1>6, Swapped
  <2>2. mine' = mine /\ clock' \in {clock, clock + 1}
    BY <1>6 DEF Swap, history
  <2>3. mine' \subseteq 1 .. clock'
    BY <1>1, <2>2
  <2>. QED
    BY <2>1, <2>3 DEF Written
<1>. QED
  BY <1>3, <1>4, <1>5, <1>6, FileSteps

\* What becomes of a trail: a change more, none left, or the one a branch update has.
LEMMA Trails ==
  ASSUME IndInv, [Next]_vars, NEW c \in Ids, NEW p \in Paths
  PROVE  \/ manifest'[c].ops[p] = manifest[c].ops[p]
         \/ manifest'[c].ops[p] = << >>
         \/ txn # NoTxn /\ manifest'[c].ops[p] = txn.manifest[c].ops[p]
         \/ \E k \in Calls : \E r \in Record(k) :
              /\ calls[k] # Idle /\ calls[k].st \in {"pre", "ran"} /\ UNCHANGED <<clock, mine, windowed, blessed>>
              /\ r \in pending /\ r.path = p /\ r.before # Unsafe /\ r.before.data # file[p].data
              /\ manifest'[c].ops[p] = Append(manifest[c].ops[p], [before |-> r.before, after |-> file[p]])
<1>1. TypeOK /\ manifest \in [Ids -> Manifests] /\ manifest[c].ops \in [Paths -> Seq(Changes)]
  <2>1. TypeOK /\ manifest \in [Ids -> Manifests]
    BY DEF IndInv, TypeOK
  <2>. QED
    BY <2>1, ManifestIs
<1>2. CASE UNCHANGED manifest
  BY <1>2
<1>3. ASSUME NEW k \in Calls, NEW q \in Paths, PreUnknown(k, q) PROVE manifest'[c].ops[p] = manifest[c].ops[p]
  BY <1>1, <1>3 DEF PreUnknown, Save
<1>4. ASSUME NEW d \in Ids, Save(d, Finalized(d)) PROVE manifest'[c].ops[p] = manifest[c].ops[p]
  BY <1>1, <1>4 DEF Save, Finalized
<1>5. CASE BeginManifest
  BY <1>1, <1>5 DEF BeginManifest, Save, Blank, NoOps
<1>6. CASE BeginIndex
  BY <1>1, <1>6 DEF BeginIndex, Blank, NoOps
<1>7. CASE ApplyManifest
  BY <1>1, <1>7 DEF ApplyManifest, Save
<1>8. ASSUME NEW k \in Calls, Post(k), ~ UNCHANGED manifest
      PROVE  \/ manifest'[c].ops[p] = manifest[c].ops[p]
             \/ \E r \in Record(k) :
                  /\ calls[k] # Idle /\ calls[k].st \in {"pre", "ran"} /\ UNCHANGED <<clock, mine, windowed, blessed>>
                  /\ r \in pending /\ r.path = p /\ r.before # Unsafe /\ r.before.data # file[p].data
                  /\ manifest'[c].ops[p] = Append(manifest[c].ops[p], [before |-> r.before, after |-> file[p]])
  <2>. PICK m : m = manifest[active]
    OBVIOUS
  <2>1. PICK r \in Record(k) :
          LET change == [before |-> r.before, after |-> file[r.path]] IN
          Save(active, CASE r.before = Unsafe -> [m EXCEPT !.warn = @ \cup {r.path}]
                         [] r.before.data = file[r.path].data -> m
                         [] OTHER -> [m EXCEPT !.ops[r.path] = Append(@, change)])
    BY <1>8 DEF Post
  <2>. DEFINE change == [before |-> r.before, after |-> file[r.path]]
              v == CASE r.before = Unsafe -> [m EXCEPT !.warn = @ \cup {r.path}]
                     [] r.before.data = file[r.path].data -> m
                     [] OTHER -> [m EXCEPT !.ops[r.path] = Append(@, change)]
  <2>2. r \in pending /\ r.path \in Paths /\ r.before \in States \cup {Unsafe} /\ file \in [Paths -> States]
    BY <1>1 DEF Record, TypeOK
  <2>3. calls[k] # Idle /\ calls[k].st \in {"pre", "ran"} /\ UNCHANGED <<clock, mine, windowed, blessed>>
    BY <1>8 DEF Post, bounds, history
  <2>4. active \in Ids /\ m \in Manifests
    BY <1>1, <1>8, RangeOfSeq DEF TypeOK, Post, InTurn
  <2>5. r.before = Unsafe => r.before.data # file[r.path].data
    BY <2>2 DEF Unsafe, States, Absent
  <2>6. \/ v = [m EXCEPT !.warn = @ \cup {r.path}]
        \/ v = m
        \/ /\ r.before # Unsafe /\ r.before.data # file[r.path].data
           /\ v = [m EXCEPT !.ops[r.path] = Append(@, change)]
    BY <2>5
  <2>7. manifest' = [manifest EXCEPT ![active] = v]
    BY <2>1, Zenon DEF Save
  <2>8. \/ v.ops[p] = m.ops[p]
        \/ /\ r.path = p /\ r.before # Unsafe /\ r.before.data # file[p].data
           /\ v.ops[p] = Append(m.ops[p], change)
    <3>1. m.ops \in [Paths -> Seq(Changes)] /\ m \in Manifests
      BY <2>4 DEF Manifests
    <3>2. CASE v = [m EXCEPT !.warn = @ \cup {r.path}] \/ v = m
      <4>. HIDE DEF v
      <4>. QED
        BY <3>1, <3>2 DEF Manifests
    <3>3. CASE v = [m EXCEPT !.ops[r.path] = Append(@, change)] /\ r.before # Unsafe /\ r.before.data # file[r.path].data
      <4>. HIDE DEF v, change
      <4>1. v = [m EXCEPT !.ops = [m.ops EXCEPT ![r.path] = Append(m.ops[r.path], change)]]
        BY <3>3, Zenon
      <4>2. v.ops = [m.ops EXCEPT ![r.path] = Append(m.ops[r.path], change)]
        BY <3>1, <4>1 DEF Manifests
      <4>. QED
        BY <2>2, <3>1, <3>3, <4>2
    <3>. QED
      BY <2>6, <3>2, <3>3
  <2>. HIDE DEF v
  <2>9. manifest'[c] = IF c = active THEN v ELSE manifest[c]
    BY <1>1, <2>4, <2>7
  <2>10. CASE c # active
    BY <2>9, <2>10
  <2>11. CASE c = active
    <3>1. manifest'[c] = v /\ m = manifest[c]
      BY <2>9, <2>11
    <3>. QED
      BY <2>2, <2>3, <2>8, <3>1
  <2>. QED
    BY <2>10, <2>11
<1>9. CASE Turn
  <2>1. Finish => UNCHANGED manifest \/ (active \in Ids /\ Save(active, Finalized(active)))
    BY <1>1, RangeOfSeq DEF Finish, InTurn, TypeOK
  <2>2. ASSUME NEW k \in Calls, (\E q \in Paths : Pre(k, q)) \/ Discard(k) \/ ToolWrite(k) PROVE UNCHANGED manifest
    BY <2>2 DEF Pre, Discard, ToolWrite, disk
  <2>. QED
    BY <1>2, <1>3, <1>4, <1>8, <1>9, <2>1, <2>2 DEF Turn
<1>10. CASE Step
  <2>1. CASE ApplyIndex \/ ApplyDone \/ ApplyError \/ Scan \/ ScanDone
    BY <1>2, <2>1 DEF ApplyIndex, ApplyDone, ApplyError, Scan, ScanDone, disk
  <2>2. CASE CloseTurn
    <3>1. PICK d \in Unfinished : Save(d, Finalized(d))
      BY <2>2 DEF CloseTurn
    <3>2. d \in Ids
      BY <2>2, <3>1, UnfinishedIs DEF CloseTurn
    <3>. QED
      BY <1>4, <3>1, <3>2
  <2>3. CASE PlanError \/ Plan \/ (\E q \in Paths : Compare(q)) \/ Swap \/ Commit
    BY <1>2, <2>3 DEF PlanError, Plan, Compare, Swap, Commit, disk
  <2>4. CASE Close \/ Clear \/ Mark \/ GoNowhere \/ GoRestore \/ BeginRefused \/ Fold \/ GoError
    BY <1>2, <2>4 DEF Close, Clear, Mark, GoNowhere, GoRestore, BeginRefused, Fold, GoError, disk
  <2>. QED
    BY <1>5, <1>6, <1>7, <1>10, <2>1, <2>2, <2>3, <2>4 DEF Step
<1>11. CASE Restart \/ (\E o \in Ops : Acquire(o)) \/ (\E q \in Paths : UserEdit(q)) \/ Kill \/ FillUp \/ FreeUp
            \/ UNCHANGED vars
  BY <1>2, <1>11 DEF Restart, Acquire, UserEdit, Kill, FillUp, FreeUp, vars, disk
<1>. QED
  BY <1>9, <1>10, <1>11 DEF Next

LEMMA RecordedStep ==
  ASSUME IndInv, TrailInv, [Next]_vars
  PROVE  Recorded'
<1>. SUFFICES ASSUME NEW c \in Ids, NEW p \in Paths PROVE manifest'[c].ops[p] \in Seq(Sound(p)')
  BY DEF Recorded, Sound, Open
<1>1. Grows
  BY GrowsStep
<1>. PICK T : T = Sound(p)'
  OBVIOUS
<1>2. Sound(p) \subseteq T /\ \A s : s \in Seq(Sound(p)) => s \in Seq(T)
  BY <1>1, SoundGrows, Zenon
<1>. DEFINE old == manifest[c].ops[p]
            new == manifest'[c].ops[p]
<1>6. old \in Seq(T)
  BY <1>2 DEF TrailInv, Recorded
<1>7. \/ new = old \/ new = << >> \/ (txn # NoTxn /\ new = txn.manifest[c].ops[p])
      \/ \E k \in Calls : \E r \in Record(k) :
           /\ calls[k] # Idle /\ calls[k].st \in {"pre", "ran"} /\ UNCHANGED <<clock, mine, windowed, blessed>>
           /\ r \in pending /\ r.path = p /\ r.before # Unsafe /\ r.before.data # file[p].data
           /\ new = Append(old, [before |-> r.before, after |-> file[p]])
  BY Trails, Zenon
<1>. SUFFICES new \in Seq(T)
  BY Zenon
<1>. HIDE DEF old, new
<1>3. CASE new = old \/ new = << >>
  <2>1. << >> \in Seq(T)
    OBVIOUS
  <2>. QED
    BY <1>3, <1>6, <2>1, Zenon
<1>4. CASE txn # NoTxn /\ new = txn.manifest[c].ops[p]
  BY <1>2, <1>4 DEF TrailInv, Prepared
<1>5. ASSUME NEW k \in Calls, NEW r \in Record(k), calls[k] # Idle, calls[k].st \in {"pre", "ran"},
             UNCHANGED <<clock, mine, windowed, blessed>>,
             r \in pending, r.path = p, r.before # Unsafe, r.before.data # file[p].data,
             new = Append(old, [before |-> r.before, after |-> file[p]])
      PROVE  new \in Seq(T)
  <2>. DEFINE change == [before |-> r.before, after |-> file[p]]
  <2>1. TypeOK /\ file[p] \in States /\ r.before \in States
    BY <1>5 DEF IndInv, TypeOK
  <2>2. r.before.data <= clock /\ file[p].data <= clock /\ (file[p].data \in mine => p \in windowed)
    BY <1>5 DEF TrailInv, Watched, Written
  <2>3. change \in Sound(p)
    BY <2>1, <2>2 DEF Sound, Changes, Open
  <2>4. change \in T
    BY <1>2, <2>3
  <2>. HIDE DEF change
  <2>. QED
    BY <1>5, <1>6, <2>4, AppendProperties DEF change
<1>. QED
  BY <1>3, <1>4, <1>5, <1>7, Zenon

\* What a restore makes of a trail: what it leaves in the last change is the file
\* as it is now, and if that is not what the change had left, it is blessed.
LEMMA RestoredSound ==
  ASSUME IndInv, TrailInv, Commit, ~full, NEW c \in Ids, NEW p \in Paths
  PROVE  Restored(c).ops[p] \in Seq(Sound(p)')
<1>. PICK T : T = Sound(p)'
  OBVIOUS
<1>1. Grows
  BY GrowsStep DEF Next, Step
<1>2. Sound(p) \subseteq T /\ \A s : s \in Seq(Sound(p)) => s \in Seq(T)
  BY <1>1, SoundGrows, Zenon
<1>3. /\ TypeOK /\ manifest \in [Ids -> Manifests] /\ manifest[c] \in Manifests /\ file[p] \in States
      /\ manifest[c].ops \in [Paths -> Seq(Changes)]
  <2>1. TypeOK /\ manifest \in [Ids -> Manifests] /\ file \in [Paths -> States]
    BY DEF IndInv, TypeOK
  <2>. QED
    BY <2>1, ManifestIs
<1>. DEFINE s == manifest[c].ops[p]
<1>4. s \in Seq(T) /\ s \in Seq(Sound(p))
  BY <1>2 DEF TrailInv, Recorded
<1>5. << >> \in Seq(T)
  OBVIOUS
<1>6. CASE c \in Range(Earlier) /\ p \in Kept /\ c \in LastTouch(p)
  <2>. DEFINE n == Len(s)
              ch == [s[n] EXCEPT !.after = file[p]]
  <2>1. s # << >>
    BY <1>6 DEF LastTouch
  <2>2. n \in 1 .. n /\ s[n] \in Sound(p)
    <3>. HIDE DEF s
    <3>1. Len(s) \in Nat /\ Len(s) # 0
      BY <1>4, <2>1, EmptySeq
    <3>. QED
      BY <1>4, <3>1, ElementOfSeq
  <2>3. s[n] \in Changes /\ s[n].before.data <= clock /\ (s[n].after.data \in mine => Open(p))
    BY <2>2 DEF Sound
  <2>4. ch \in Changes /\ ch.before = s[n].before /\ ch.after = file[p]
    <3>. HIDE DEF s
    <3>. QED
      BY <1>3, <2>3 DEF Changes
  <2>5. UNCHANGED <<clock, mine, windowed>> /\ blessed \subseteq blessed' /\ file[p].data <= clock
    BY DEF Commit, bounds, TrailInv, Written
  <2>6. s[n].after.data # file[p].data => p \in blessed'
    <3>1. Last(manifest[c].ops[p]) = s[n]
      BY DEF Last
    <3>. QED
      BY <1>6, <3>1 DEF Commit
  <2>7. file[p].data \in mine => p \in windowed' \/ p \in blessed'
    BY <2>3, <2>5, <2>6 DEF Open
  <2>8. ch \in Sound(p)'
    <3>. HIDE DEF ch, s
    <3>. QED
      BY <2>3, <2>4, <2>5, <2>7 DEF Sound, Open
  <2>9. [s EXCEPT ![n] = ch] \in Seq(T)
    <3>1. ch \in T
      BY <2>8, Zenon
    <3>. HIDE DEF ch, s
    <3>. QED
      BY <1>4, <2>2, <3>1, ExceptSeq
  <2>10. Restored(c).ops[p] = [s EXCEPT ![n] = ch]
    <3>1. [s EXCEPT ![n] = ch] = [s EXCEPT ![n].after = file[p]]
      BY Zenon
    <3>2. Restored(c) = Rebased(c, Kept)
      BY <1>6 DEF Restored
    <3>. DEFINE o == [q \in Paths |-> IF q \in Kept /\ c \in LastTouch(q)
                        THEN [manifest[c].ops[q] EXCEPT ![Len(manifest[c].ops[q])].after = file[q]] ELSE manifest[c].ops[q]]
    <3>3. Rebased(c, Kept) = [manifest[c] EXCEPT !.ops = o]
      BY Zenon DEF Rebased
    <3>4. [manifest[c] EXCEPT !.ops = o].ops = o
      <4>. HIDE DEF o
      <4>. QED
        BY <1>3 DEF Manifests
    <3>5. o[p] = [s EXCEPT ![n].after = file[p]]
      BY <1>6, Zenon
    <3>. HIDE DEF o, ch, s
    <3>. QED
      BY <3>1, <3>2, <3>3, <3>4, <3>5
  <2>. QED
    BY <2>9, <2>10, Zenon
<1>7. ASSUME ~(c \in Range(Earlier) /\ p \in Kept /\ c \in LastTouch(p))
      PROVE  Restored(c).ops[p] = s \/ Restored(c).ops[p] = << >>
  <2>1. Restored(c) = Rebased(c, Kept) /\ c \in Range(Earlier) => Restored(c).ops[p] = s
    BY <1>3, <1>7 DEF Rebased, Manifests
  <2>2. Restored(c) = [manifest[c] EXCEPT !.ops = [q \in Paths |-> IF q \in Kept THEN << >> ELSE @[q]]]
          => Restored(c).ops[p] = s \/ Restored(c).ops[p] = << >>
    BY <1>3 DEF Manifests
  <2>3. Restored(c) = Blank(IF run.ret THEN "done" ELSE "retired") => Restored(c).ops[p] = << >>
    BY DEF Blank, NoOps
  <2>4. Restored(c) = manifest[c] => Restored(c).ops[p] = s
    OBVIOUS
  <2>5. \/ Restored(c) = Rebased(c, Kept) /\ c \in Range(Earlier)
        \/ Restored(c) = manifest[c]
        \/ Restored(c) = [manifest[c] EXCEPT !.ops = [q \in Paths |-> IF q \in Kept THEN << >> ELSE @[q]]]
        \/ Restored(c) = Blank(IF run.ret THEN "done" ELSE "retired")
    BY DEF Restored
  <2>. QED
    BY <2>1, <2>2, <2>3, <2>4, <2>5, Zenon
<1>. HIDE DEF s
<1>. QED
  BY <1>4, <1>5, <1>6, <1>7, Zenon

LEMMA PreparedStep ==
  ASSUME IndInv, TrailInv, [Next]_vars
  PROVE  Prepared'
<1>. SUFFICES ASSUME txn' # NoTxn, NEW c \in Ids, NEW p \in Paths
              PROVE  txn'.manifest[c].ops[p] \in Seq(Sound(p)')
  BY DEF Prepared, Sound, Open
<1>. PICK T : T = Sound(p)'
  OBVIOUS
<1>1. Grows
  BY GrowsStep
<1>2. \A s : s \in Seq(Sound(p)) => s \in Seq(T)
  BY <1>1, SoundGrows, Zenon
<1>. DEFINE new == txn'.manifest[c].ops[p]
<1>. SUFFICES new \in Seq(T)
  BY Zenon
<1>3. CASE UNCHANGED txn
  <2>1. new = txn.manifest[c].ops[p] /\ txn # NoTxn
    BY <1>3
  <2>. HIDE DEF new
  <2>. QED
    BY <1>2, <2>1 DEF TrailInv, Prepared
<1>4. CASE Commit /\ ~full
  <2>1. new = Restored(c).ops[p]
    BY <1>4 DEF Commit
  <2>. HIDE DEF new
  <2>. QED
    BY <1>4, <2>1, RestoredSound
<1>5. CASE Fold /\ ~full
  <2>. DEFINE kept == SubSeq(order, 1, op.keep)
              removed == SubSeq(order, op.keep + 1, Len(order))
              tail == SubSeq(order, op.keep, Len(order))
              folded(d) == [manifest[d] EXCEPT !.ops = [q \in Paths |-> Chain(q, tail)],
                              !.warn = Warned(Range(tail)), !.blind = Blinded(Range(tail))]
              after(d) == IF d \in Range(removed) THEN Blank("retired")
                          ELSE IF op.keep > 0 /\ d = order[op.keep] THEN folded(d) ELSE manifest[d]
  <2>1. /\ TypeOK /\ order \in Seq(Ids) /\ Len(order) \in Nat /\ op.keep \in Nat /\ manifest[c] \in Manifests
        /\ manifest \in [Ids -> Manifests]
    BY <1>5, LenProperties DEF IndInv, TypeOK, Fold
  <2>2. txn'.manifest[c] = IF c \in Range(removed) THEN Blank("retired")
                           ELSE IF op.keep > 0 /\ c = order[op.keep] THEN folded(c) ELSE manifest[c]
    <3>1. txn' = [order |-> kept, manifest |-> [d \in Ids |-> after(d)]]
      BY <1>5, Zenon DEF Fold
    <3>2. txn'.manifest[c] = after(c)
      <4>. HIDE DEF after, kept
      <4>. QED
        BY <3>1
    <3>. QED
      BY <3>2, Zenon
  <2>3. op.keep > 0 => Chain(p, tail) \in Seq(Sound(p))
    <3>1. op.keep > 0 => tail \in Seq(Ids)
      <4>1. op.keep > 0 => 1 <= op.keep
        BY <2>1
      <4>. HIDE DEF tail
      <4>. QED
        BY <2>1, <4>1, Part DEF tail
    <3>. HIDE DEF tail
    <3>. QED
      BY <2>1, <3>1, SoundChain DEF TrailInv
  <2>4. folded(c).ops[p] = Chain(p, tail)
    <3>. HIDE DEF tail
    <3>. QED
      BY <2>1 DEF Manifests
  <2>5. Blank("retired").ops[p] = << >> /\ << >> \in Seq(T)
    BY DEF Blank, NoOps
  <2>6. manifest[c].ops[p] \in Seq(T)
    BY <1>2 DEF TrailInv, Recorded
  <2>. HIDE DEF folded, tail, removed
  <2>7. new = << >> \/ (op.keep > 0 /\ new = Chain(p, tail)) \/ new = manifest[c].ops[p]
    BY <2>2, <2>4, <2>5
  <2>. HIDE DEF new
  <2>. QED
    BY <1>2, <2>3, <2>5, <2>6, <2>7, Zenon
<1>6. UNCHANGED txn \/ (Commit /\ ~full) \/ (Fold /\ ~full)
  <2>1. CASE Turn
    BY <2>1 DEF Turn, Finish, Pre, PreUnknown, ToolWrite, Post, Discard, disk
  <2>2. CASE Step
    <3>1. CASE ApplyManifest \/ ApplyIndex \/ ApplyDone \/ ApplyError \/ Scan \/ ScanDone
      BY <3>1 DEF ApplyManifest, ApplyIndex, ApplyDone, ApplyError, Scan, ScanDone, disk
    <3>2. CASE CloseTurn \/ PlanError \/ Plan \/ (\E q \in Paths : Compare(q)) \/ Swap
      BY <3>2 DEF CloseTurn, PlanError, Plan, Compare, Swap, disk
    <3>3. CASE Close \/ Clear \/ Mark \/ GoNowhere \/ GoRestore \/ BeginRefused \/ BeginManifest
      BY <3>3 DEF Close, Clear, Mark, GoNowhere, GoRestore, BeginRefused, BeginManifest, disk
    <3>4. CASE BeginIndex \/ GoError \/ Commit \/ Fold
      BY <3>4 DEF BeginIndex, GoError, Commit, Fold, disk
    <3>. QED
      BY <2>2, <3>1, <3>2, <3>3, <3>4 DEF Step
  <2>3. CASE Restart \/ (\E o \in Ops : Acquire(o)) \/ (\E q \in Paths : UserEdit(q)) \/ Kill \/ FillUp \/ FreeUp
             \/ UNCHANGED vars
    BY <2>3 DEF Restart, Acquire, UserEdit, Kill, FillUp, FreeUp, vars, disk
  <2>. QED
    BY <2>1, <2>2, <2>3 DEF Next
<1>. QED
  BY <1>3, <1>4, <1>5, <1>6, Zenon

LEMMA WatchedStep ==
  ASSUME IndInv, TrailInv, [Next]_vars
  PROVE  Watched'
<1>. DEFINE Slots == [st : {"pre", "ran", "posted", "lost"}, path : Paths, call : 1 .. made]
            Seen(k, r) == /\ r.path = calls[k].path
                          /\ file[r.path].data \in mine =>
                               r.path \in windowed \/ r.before = Unsafe \/ r.before.data = file[r.path].data
            Between(k) == calls[k] # Idle /\ calls[k].st \in {"pre", "ran"}
<1>1. /\ TypeOK /\ clock \in Nat /\ file \in [Paths -> States] /\ made \in Nat
      /\ calls \in [Calls -> Slots \cup {Idle}]
      /\ \A r \in pending : r.call \in 1 .. made /\ r.path \in Paths /\ r.before \in States \cup {Unsafe}
  BY DEF IndInv, TypeOK
<1>2. /\ active = NoId => \A k \in Calls : calls[k] = Idle
      /\ \A r \in pending : r.before.data <= clock
      /\ \A k \in Calls : Between(k) => \A r \in Record(k) : Seen(k, r)
      /\ mine \subseteq 1 .. clock /\ \A p \in Paths : file[p].data <= clock
  BY DEF TrailInv, Watched, Written
<1>3. clock' \in Nat /\ clock <= clock' /\ windowed \subseteq windowed'
  BY GrowsStep DEF Grows
<1>4. pending' \subseteq pending => \A r \in pending' : r.before.data <= clock'
  <2>1. \A r \in pending : r.before.data <= clock /\ (r.before.data \in Nat \/ r.before.data = -1)
    BY <1>1, <1>2 DEF States, Absent, Unsafe
  <2>. QED
    BY <1>1, <1>3, <2>1
<1>. HIDE DEF Slots
<1>5. CASE pending' \subseteq pending /\ \A k \in Calls : calls'[k] = Idle
  BY <1>4, <1>5 DEF Watched
<1>6. CASE pending' \subseteq pending /\ active = NoId /\ calls' = calls
  BY <1>2, <1>4, <1>6 DEF Watched
<1>7. CASE UNCHANGED <<file, pending, active, calls, mine, windowed>>
  BY <1>2, <1>4, <1>7 DEF Watched, Record
<1>8. ASSUME NEW k \in Calls, NEW p \in Paths, Pre(k, p) PROVE Watched'
  <2>1. /\ InTurn /\ active' = active /\ made' = made + 1 /\ UNCHANGED <<file, mine, windowed, clock>>
        /\ calls' = [calls EXCEPT ![k] = [st |-> IF full THEN "lost" ELSE "pre", path |-> p, call |-> made']]
    BY <1>8 DEF Pre, Became
  <2>2. CASE full
    <3>1. pending' = pending
      BY <1>8, <2>2 DEF Pre
    <3>2. calls'[k].st = "lost"
      BY <1>1, <2>1, <2>2
    <3>3. ASSUME NEW l \in Calls, l # k PROVE calls'[l] = calls[l]
      BY <1>1, <2>1, <3>3
    <3>. QED
      BY <1>2, <1>4, <2>1, <3>1, <3>2, <3>3 DEF Watched, Record, InTurn
  <2>3. CASE ~full
    <3>1. PICK before \in {file[p], Unsafe} :
            pending' = pending \cup {[id |-> active, call |-> made', path |-> p, before |-> before]}
      BY <1>8, <2>3 DEF Pre
    <3>. DEFINE new == [id |-> active, call |-> made', path |-> p, before |-> before]
    <3>2. calls'[k] = [st |-> "pre", path |-> p, call |-> made']
      BY <1>1, <2>1, <2>3
    <3>3. Record(k)' = {new}
      <4>1. Record(k)' = {r \in pending' : r.call = made'}
        BY <3>2 DEF Record
      <4>2. \A r \in pending : r.call # made'
        BY <1>1, <2>1
      <4>. QED
        BY <3>1, <4>1, <4>2
    <3>4. new.path = calls'[k].path /\ (new.before = file[p] \/ new.before = Unsafe) /\ new.path = p
      BY <3>1, <3>2
    <3>5. \A l \in Calls : l # k /\ calls[l] # Idle => calls'[l] = calls[l] /\ Record(l)' = Record(l)
      <4>1. ASSUME NEW l \in Calls, l # k PROVE calls'[l] = calls[l]
        BY <1>1, <2>1, <4>1
      <4>2. ASSUME NEW l \in Calls, l # k, calls[l] # Idle PROVE Record(l)' = Record(l)
        <5>1. calls[l].call # made'
          BY <1>1, <2>1, <4>2 DEF Slots
        <5>2. calls'[l] = calls[l]
          BY <4>1, <4>2
        <5>3. new.call = made'
          OBVIOUS
        <5>. HIDE DEF new
        <5>. QED
          BY <3>1, <5>1, <5>2, <5>3 DEF Record, new
      <4>. QED
        BY <4>1, <4>2
    <3>6. \A l \in Calls : l # k /\ calls[l] = Idle => calls'[l] = Idle
      BY <1>1, <2>1
    <3>7. \A r \in pending' : r.before.data <= clock'
      <4>1. before.data <= clock
        BY <1>1, <1>2, <3>1 DEF Unsafe
      <4>2. new.before.data <= clock' /\ \A r \in pending : r.before.data <= clock'
        BY <1>2, <2>1, <4>1
      <4>. QED
        BY <3>1, <4>2
    <3>8. \A l \in Calls : calls'[l] # Idle /\ calls'[l].st \in {"pre", "ran"} =>
            \A r \in Record(l)' :
              /\ r.path = calls'[l].path
              /\ file'[r.path].data \in mine' =>
                   r.path \in windowed' \/ r.before = Unsafe \/ r.before.data = file'[r.path].data
      <4>. HIDE DEF new
      <4>. QED
        BY <1>2, <2>1, <3>3, <3>4, <3>5, <3>6
    <3>. QED
      BY <2>1, <3>7, <3>8 DEF Watched, InTurn
  <2>. QED
    BY <2>2, <2>3
<1>9. ASSUME NEW k \in Calls, NEW p \in Paths, PreUnknown(k, p) PROVE Watched'
  <2>1. /\ InTurn /\ active' = active /\ made' = made + 1 /\ UNCHANGED <<file, mine, windowed, clock, pending>>
        /\ calls' = [calls EXCEPT ![k] = [st |-> "pre", path |-> p, call |-> made']]
    BY <1>9 DEF PreUnknown, Became
  <2>2. Record(k)' = {}
    <3>1. calls'[k].call = made'
      BY <1>1, <2>1
    <3>2. \A r \in pending : r.call # made'
      BY <1>1, <2>1
    <3>. QED
      BY <2>1, <3>1, <3>2 DEF Record
  <2>3. ASSUME NEW l \in Calls, l # k PROVE calls'[l] = calls[l]
    BY <1>1, <2>1, <2>3
  <2>. QED
    BY <1>2, <1>4, <2>1, <2>2, <2>3 DEF Watched, Record, InTurn
<1>10. ASSUME NEW k \in Calls, ToolWrite(k) PROVE Watched'
  <2>. PICK p : p = calls[k].path
    OBVIOUS
  <2>1. /\ InTurn /\ active' = active /\ UNCHANGED <<mine, pending>> /\ calls[k] # Idle /\ p \in Paths
        /\ calls[k].st \in {"pre", "lost"}
    BY <1>1, <1>10 DEF ToolWrite, disk, Slots
  <2>2. /\ \A q \in Paths : q # p => file'[q] = file[q]
        /\ file'[p].data \in {0, clock + 1}
    BY <1>10, <2>1, Wrote
  <2>3. file'[p].data \notin mine
    BY <1>1, <1>2, <2>2
  <2>4. \A l \in Calls : calls'[l] # Idle => /\ calls[l] # Idle /\ calls'[l].path = calls[l].path
                                             /\ calls'[l].call = calls[l].call
                                             /\ calls'[l].st \in {"pre", "ran"} => calls[l].st \in {"pre", "ran"}
    <3>1. calls' = [calls EXCEPT ![k] = IF calls[k].st = "lost" THEN Idle ELSE [calls[k] EXCEPT !.st = "ran"]]
      BY <1>10 DEF ToolWrite, Became
    <3>2. ASSUME NEW l \in Calls, l # k PROVE calls'[l] = calls[l]
      BY <1>1, <3>1, <3>2
    <3>3. calls'[k] = IF calls[k].st = "lost" THEN Idle ELSE [calls[k] EXCEPT !.st = "ran"]
      BY <1>1, <3>1
    <3>4. calls[k] \in Slots
      BY <1>1, <2>1
    <3>5. calls'[k] # Idle => /\ calls'[k].path = calls[k].path /\ calls'[k].call = calls[k].call
                              /\ calls[k].st = "pre"
      BY <2>1, <3>3, <3>4 DEF Slots
    <3>. QED
      BY <2>1, <3>2, <3>5
  <2>5. \A l \in Calls : calls'[l] # Idle => Record(l)' = Record(l)
    BY <2>1, <2>4 DEF Record
  <2>6. ASSUME NEW l \in Calls, calls'[l] # Idle, calls'[l].st \in {"pre", "ran"}, NEW r \in Record(l)'
        PROVE  /\ r.path = calls'[l].path
               /\ file'[r.path].data \in mine' =>
                    r.path \in windowed' \/ r.before = Unsafe \/ r.before.data = file'[r.path].data
    <3>1. r \in Record(l) /\ calls[l] # Idle /\ calls[l].st \in {"pre", "ran"} /\ calls'[l].path = calls[l].path
      BY <2>4, <2>5, <2>6
    <3>2. Seen(l, r) /\ r.path \in Paths
      BY <1>1, <1>2, <3>1 DEF Record
    <3>. QED
      BY <1>3, <2>1, <2>2, <2>3, <3>1, <3>2
  <2>. QED
    BY <1>4, <2>1, <2>6 DEF Watched, InTurn
<1>11. ASSUME NEW k \in Calls, Post(k) \/ Discard(k) PROVE Watched'
  <2>1. /\ InTurn /\ active' = active /\ UNCHANGED <<file, mine, windowed>> /\ pending' \subseteq pending
    BY <1>11 DEF Post, Discard, history
  <2>2. \/ calls' = [calls EXCEPT ![k] = Idle]
        \/ calls' = [calls EXCEPT ![k] = [calls[k] EXCEPT !.st = "posted"]]
    BY <1>11 DEF Post, Discard, Became
  <2>3. calls'[k] = Idle \/ ~ (calls'[k].st \in {"pre", "ran"})
    <3>1. calls[k] \in Slots
      BY <1>1, <1>11 DEF Post, Discard
    <3>2. [calls[k] EXCEPT !.st = "posted"].st = "posted"
      BY <3>1 DEF Slots
    <3>3. calls'[k] = Idle \/ calls'[k] = [calls[k] EXCEPT !.st = "posted"]
      BY <1>1, <2>2
    <3>. QED
      BY <3>2, <3>3
  <2>4. ASSUME NEW l \in Calls, l # k PROVE calls'[l] = calls[l]
    BY <1>1, <2>2, <2>4
  <2>. QED
    BY <1>2, <1>4, <2>1, <2>3, <2>4 DEF Watched, Record, InTurn
<1>12. ASSUME NEW p \in Paths, UserEdit(p) PROVE Watched'
  <2>1. UNCHANGED <<active, calls, pending>> /\ mine' = mine \cup ({file'[p].data} \ {0})
    BY <1>12 DEF UserEdit, memory, disk
  <2>2. /\ \A q \in Paths : q # p => file'[q] = file[q]
        /\ file'[p].data \in {0, clock + 1}
    BY <1>12, Wrote
  <2>3. ASSUME NEW l \in Calls, calls[l] # Idle, calls[l].st \in {"pre", "ran"}, NEW r \in Record(l)
        PROVE  /\ r.path = calls[l].path
               /\ file'[r.path].data \in mine' =>
                    r.path \in windowed' \/ r.before = Unsafe \/ r.before.data = file'[r.path].data
    <3>1. Seen(l, r) /\ r.path \in Paths
      BY <1>1, <1>2, <2>3 DEF Record
    <3>2. CASE r.path = p
      <4>1. p \in windowed'
        BY <1>12, <2>3, <3>1, <3>2 DEF UserEdit
      <4>. QED
        BY <3>1, <3>2, <4>1
    <3>3. CASE r.path # p
      <4>1. file'[r.path] = file[r.path] /\ file[r.path].data <= clock /\ file[r.path].data \in Nat
        BY <1>1, <1>2, <2>2, <3>1, <3>3 DEF States, Absent
      <4>2. file[r.path].data \in mine' => file[r.path].data \in mine
        BY <1>1, <2>1, <2>2, <4>1
      <4>. QED
        BY <1>3, <3>1, <4>1, <4>2
    <3>. QED
      BY <3>2, <3>3
  <2>4. \A l \in Calls : Record(l)' = Record(l)
    BY <2>1 DEF Record
  <2>. QED
    BY <1>2, <1>4, <2>1, <2>3, <2>4 DEF Watched
<1>. HIDE DEF Seen, Between
<1>13. CASE Turn
  <2>1. Finish => pending' \subseteq pending /\ \A k \in Calls : calls'[k] = Idle
    BY DEF Finish
  <2>. QED
    BY <1>5, <1>8, <1>9, <1>10, <1>11, <1>13, <2>1 DEF Turn
<1>14. CASE Step
  <2>1. pc # "idle"
    BY <1>14 DEF Step, ApplyManifest, ApplyIndex, ApplyDone, ApplyError, Scan, ScanDone, CloseTurn, PlanError, Plan,
          Compare, Swap, Commit, Close, Clear, Mark, GoNowhere, GoRestore, BeginRefused, BeginManifest, BeginIndex,
          Fold, GoError
  <2>2. active = NoId
    BY <1>1, <2>1 DEF TypeOK
  <2>3. CASE ApplyManifest \/ ApplyIndex \/ ApplyDone \/ ApplyError \/ Scan \/ ScanDone
    <3>1. pending' \subseteq pending /\ calls' = calls
      BY <2>3 DEF ApplyManifest, ApplyIndex, ApplyDone, ApplyError, Scan, ScanDone, disk, memory
    <3>. QED
      BY <1>6, <2>2, <3>1
  <2>4. CASE CloseTurn \/ PlanError \/ Plan \/ (\E q \in Paths : Compare(q)) \/ Swap \/ Commit
    <3>1. pending' \subseteq pending /\ calls' = calls
      BY <2>4 DEF CloseTurn, PlanError, Plan, Compare, Swap, Commit, disk, memory
    <3>. QED
      BY <1>6, <2>2, <3>1
  <2>5. CASE Close \/ Clear \/ Mark \/ GoNowhere \/ GoRestore \/ BeginRefused \/ BeginManifest
    <3>1. pending' \subseteq pending /\ calls' = calls
      BY <2>5 DEF Close, Clear, Mark, GoNowhere, GoRestore, BeginRefused, BeginManifest, disk, memory
    <3>. QED
      BY <1>6, <2>2, <3>1
  <2>6. CASE BeginIndex \/ GoError \/ Fold
    <3>1. pending' \subseteq pending /\ calls' = calls
      BY <2>6 DEF BeginIndex, GoError, Fold, disk, memory
    <3>. QED
      BY <1>6, <2>2, <3>1
  <2>. QED
    BY <1>14, <2>3, <2>4, <2>5, <2>6 DEF Step
<1>15. CASE Kill
  BY <1>5, <1>15 DEF Kill, disk
<1>16. CASE Restart \/ \E o \in Ops : Acquire(o)
  BY <1>1, <1>6, <1>16 DEF Restart, Acquire, disk, memory, TypeOK
<1>17. CASE FillUp \/ FreeUp \/ UNCHANGED vars
  BY <1>7, <1>17 DEF FillUp, FreeUp, vars, disk, memory, history
<1>. QED
  BY <1>12, <1>13, <1>14, <1>15, <1>16, <1>17 DEF Next

LEMMA ComparedStep ==
  ASSUME IndInv, TrailInv, [Next]_vars
  PROVE  Compared'
<1>1. TypeOK /\ clock \in Nat /\ file \in [Paths -> States] /\ Stage
  BY DEF IndInv, TypeOK, GateInv
<1>2. /\ mine \subseteq 1 .. clock /\ \A p \in Paths : file[p].data <= clock
      /\ pc = "swap" => \A p \in run.cur : file[p].data \in mine => Open(p)
  BY DEF TrailInv, Written, Compared
<1>3. CASE pc' # "swap"
  BY <1>3 DEF Compared
<1>4. CASE UNCHANGED <<file, run, pc, mine, windowed, blessed>>
  BY <1>2, <1>4 DEF Compared, Open
<1>5. ASSUME NEW p \in Paths, Compare(p), pc' = "swap" PROVE Compared'
  <2>1. /\ pc = "files" /\ p \in run.todo /\ file[p] = Expected(p)
        /\ run' = [run EXCEPT !.todo = @ \ {p}, !.cur = {p}] /\ UNCHANGED <<file, history>>
    BY <1>5 DEF Compare
  <2>2. run \in Runs /\ run.id \in Range(order) /\ Chain(p, Selected) # << >>
    BY <2>1, AtWork DEF Restoring, IndInv, Chained
  <2>3. Last(Chain(p, Selected)) \in Sound(p)
    BY <1>1, <2>2, SelectedIs, SoundChain DEF TrailInv, TypeOK
  <2>4. file[p].data \in mine => Open(p)
    BY <2>1, <2>3 DEF Expected, Sound
  <2>5. run'.cur = {p}
    BY <2>1, <2>2 DEF Runs
  <2>. QED
    BY <2>1, <2>4, <2>5 DEF Compared, history, Open
<1>6. ASSUME NEW p \in Paths, UserEdit(p), pc = "swap" PROVE Compared'
  <2>1. UNCHANGED <<run, pc, blessed>> /\ windowed \subseteq windowed' /\ mine' = mine \cup ({file'[p].data} \ {0})
    BY <1>6 DEF UserEdit, work
  <2>2. p \in run.cur => p \in windowed'
    BY <1>6 DEF UserEdit
  <2>3. /\ \A q \in Paths : q # p => file'[q] = file[q]
        /\ file'[p].data \in {0, clock + 1}
    BY <1>6, Wrote
  <2>4. ASSUME NEW q \in run.cur, q # p, file'[q].data \in mine' PROVE Open(q)
    <3>1. q \in Paths
      BY <1>1, <1>6, AtWork DEF Restoring, Runs
    <3>2. file'[q] = file[q] /\ file[q].data <= clock /\ file[q].data \in Nat
      BY <1>1, <1>2, <2>3, <2>4, <3>1 DEF States, Absent
    <3>3. file[q].data \in mine
      BY <1>1, <2>1, <2>3, <2>4, <3>2
    <3>. QED
      BY <1>2, <1>6, <3>3
  <2>. QED
    BY <2>1, <2>2, <2>4 DEF Compared, Open
<1>7. CASE Turn
  <2>1. active # NoId /\ UNCHANGED pc
    BY <1>7 DEF Turn, Finish, ToolWrite, Post, Discard, Pre, PreUnknown, InTurn, work
  <2>2. pc' # "swap"
    BY <1>1, <2>1 DEF TypeOK
  <2>. QED
    BY <1>3, <2>2
<1>8. CASE Step
  <2>1. CASE \/ ApplyManifest \/ ApplyIndex \/ ApplyDone \/ ApplyError \/ Scan \/ ScanDone
             \/ CloseTurn \/ PlanError \/ Plan
    <3>1. pc' # "swap"
      BY <2>1 DEF ApplyManifest, ApplyIndex, ApplyDone, ApplyError, Scan, ScanDone, CloseTurn, PlanError, Plan,
            Refuse, End, work
    <3>. QED
      BY <1>3, <3>1
  <2>2. CASE Swap \/ Commit \/ Close \/ Clear \/ Mark \/ GoNowhere \/ GoRestore \/ BeginRefused \/ BeginManifest
    <3>1. pc' # "swap"
      BY <2>2 DEF Swap, Commit, Close, Clear, Mark, GoNowhere, GoRestore, BeginRefused, BeginManifest, Refuse, End, work
    <3>. QED
      BY <1>3, <3>1
  <2>3. CASE BeginIndex \/ Fold \/ GoError
    <3>1. pc' # "swap"
      BY <2>3 DEF BeginIndex, Fold, GoError, End, work
    <3>. QED
      BY <1>3, <3>1
  <2>. QED
    BY <1>3, <1>5, <1>8, <2>1, <2>2, <2>3 DEF Step
<1>9. CASE Restart \/ (\E o \in Ops : Acquire(o)) \/ Kill
  <2>1. pc' # "swap"
    BY <1>9 DEF Restart, Acquire, Kill, Recover, End
  <2>. QED
    BY <1>3, <2>1
<1>10. CASE FillUp \/ FreeUp \/ UNCHANGED vars
  BY <1>4, <1>10 DEF FillUp, FreeUp, vars, work, history
<1>11. ASSUME NEW p \in Paths, UserEdit(p) PROVE Compared'
  <2>1. pc' = pc
    BY <1>11 DEF UserEdit, work
  <2>. QED
    BY <1>3, <1>6, <1>11, <2>1
<1>. QED
  BY <1>7, <1>8, <1>9, <1>10, <1>11 DEF Next

LEMMA TrailInit ==
  ASSUME Init
  PROVE  TrailInv
<1>1. Written
  BY DEF Init, Written, Absent
<1>2. Recorded
  <2>. SUFFICES ASSUME NEW c \in Ids, NEW p \in Paths PROVE manifest[c].ops[p] \in Seq(Sound(p))
    BY DEF Recorded
  <2>1. manifest[c].ops[p] = << >>
    BY DEF Init, Blank, NoOps
  <2>. QED
    BY <2>1
<1>3. Prepared /\ Compared
  BY DEF Init, Prepared, Compared
<1>4. Watched
  BY DEF Init, Watched
<1>. QED
  BY <1>1, <1>2, <1>3, <1>4 DEF TrailInv

\* A restore never replaces what the user wrote, but for the edits that fell into a
\* window and the files an earlier restore blessed.  What is in a file when it is
\* compared is the last content its trail knows; no trail knows what the user wrote
\* otherwise; and after the comparison only a window is left.
THEOREM UserEditsSpared == Spec => SparesUserEdits
<1>1. Init => IndInv /\ TrailInv
  BY IndInit, TrailInit
<1>2. IndInv /\ TrailInv /\ [Next]_vars => (IndInv /\ TrailInv)'
  <2>. SUFFICES ASSUME IndInv, TrailInv, [Next]_vars PROVE IndInv' /\ TrailInv'
    OBVIOUS
  <2>1. IndInv'
    BY TypeStep, GateStep, ChainedStep DEF IndInv
  <2>2. TrailInv'
    BY WrittenStep, RecordedStep, PreparedStep, WatchedStep, ComparedStep DEF TrailInv
  <2>. QED
    BY <2>1, <2>2
<1>3. IndInv /\ TrailInv => \A p \in Paths : Swapping(p) /\ file[p].data \in mine => p \in windowed \cup blessed
  BY DEF TrailInv, Compared, Swapping, Open
<1>. QED
  BY <1>1, <1>2, <1>3, PTL DEF Spec, SparesUserEdits
-----------------------------------------------------------------------------
(* Trails: the changes of several checkpoints strung together *)

\* Among the places of a sequence there is a last.
LEMMA Final ==
  ASSUME NEW N \in Nat, NEW A \in SUBSET (1 .. N), A # {}
  PROVE  \E i \in A : \A k \in A : k <= i
<1>. DEFINE B == {n \in 1 .. N : N + 1 - n \in A}
<1>1. \A i \in A : i \in 1 .. N /\ N + 1 - i \in 1 .. N /\ N + 1 - (N + 1 - i) = i
  OBVIOUS
<1>2. B \in SUBSET (1 .. N) /\ \A i \in A : N + 1 - i \in B
  BY <1>1
<1>3. \A n \in B : n \in 1 .. N /\ N + 1 - n \in A
  OBVIOUS
<1>. HIDE DEF B
<1>4. B # {}
  BY <1>2
<1>5. PICK n \in B : \A m \in B : n <= m
  BY <1>2, <1>4, First
<1>6. ASSUME NEW k \in A PROVE k <= N + 1 - n
  <2>1. n <= N + 1 - k
    BY <1>2, <1>5
  <2>2. n \in 1 .. N /\ k \in 1 .. N
    BY <1>1, <1>3, <1>5
  <2>. QED
    BY <2>1, <2>2
<1>. QED
  BY <1>3, <1>5, <1>6

LEMMA Glued ==
  ASSUME NEW t \in Seq(Changes), NEW u \in Seq(Changes), t # << >>, u # << >>, NEW q, q = t \o u
  PROVE  /\ q \in Seq(Changes) /\ q # << >> /\ q[1] = t[1] /\ q[Len(q)] = u[Len(u)]
         /\ (Continuous(t) /\ Continuous(u) /\ t[Len(t)].after = u[1].before) => Continuous(q)
<1>1. /\ q \in Seq(Changes) /\ Len(q) = Len(t) + Len(u)
      /\ \A i \in 1 .. Len(q) : q[i] = IF i <= Len(t) THEN t[i] ELSE u[i - Len(t)]
  BY ConcatProperties
<1>. PICK m : m = Len(t)
  OBVIOUS
<1>. PICK n : n = Len(u)
  OBVIOUS
<1>2. m \in Nat \ {0} /\ n \in Nat \ {0}
  BY EmptySeq, LenProperties
<1>3. q[1] = t[1] /\ q[m + n] = u[n]
  <2>1. 1 \in 1 .. m + n /\ 1 <= m /\ m + n \in 1 .. m + n /\ ~(m + n <= m) /\ (m + n) - m = n
    BY <1>2
  <2>. QED
    BY <1>1, <2>1
<1>4. ASSUME Continuous(t), Continuous(u), t[m].after = u[1].before, NEW i \in 1 .. (m + n) - 1
      PROVE  q[i].after = q[i + 1].before
  <2>0. i \in 1 .. m + n /\ i + 1 \in 1 .. m + n
    BY <1>2
  <2>1. CASE i < m
    <3>1. i <= m /\ i + 1 <= m /\ i \in 1 .. m - 1
      BY <1>2, <2>1
    <3>2. q[i] = t[i] /\ q[i + 1] = t[i + 1]
      BY <1>1, <2>0, <3>1
    <3>. QED
      BY <1>4, <3>1, <3>2 DEF Continuous
  <2>2. CASE i = m
    <3>1. i <= m /\ ~(i + 1 <= m) /\ (i + 1) - m = 1
      BY <1>2, <2>2
    <3>2. q[i] = t[i] /\ q[i + 1] = u[1]
      BY <1>1, <2>0, <3>1
    <3>. QED
      BY <1>4, <2>2, <3>2
  <2>3. CASE m < i
    <3>1. ~(i <= m) /\ ~(i + 1 <= m) /\ i - m \in 1 .. n - 1 /\ (i + 1) - m = (i - m) + 1
      BY <1>2, <2>0, <2>3
    <3>2. q[i] = u[i - m] /\ q[i + 1] = u[(i - m) + 1]
      BY <1>1, <2>0, <3>1
    <3>. QED
      BY <1>4, <3>1, <3>2 DEF Continuous
  <2>. QED
    BY <1>2, <2>1, <2>2, <2>3
<1>5. Continuous(t) /\ Continuous(u) /\ t[m].after = u[1].before => Continuous(q)
  BY <1>1, <1>4 DEF Continuous
<1>6. q # << >>
  BY <1>1, <1>2, EmptySeq
<1>. QED
  BY <1>1, <1>3, <1>5, <1>6

LEMMA GluedNone ==
  ASSUME NEW t \in Seq(Changes)
  PROVE  << >> \o t = t /\ t \o << >> = t
BY ConcatEmptySeq

\* What a sequence t of changes has to do with the sequences D[k], ..., D[n] it is
\* strung together from: its first and its last element, and when it is continuous.
Gathers(t, D, k, n) ==
  /\ t = << >> <=> \A b \in k .. n : D[b] = << >>
  /\ \A b \in k .. n : D[b] # << >> /\ (\A d \in k .. n : d < b => D[d] = << >>) => Head(t) = Head(D[b])
  /\ \A b \in k .. n : D[b] # << >> /\ (\A d \in k .. n : b < d => D[d] = << >>) => Last(t) = Last(D[b])
  /\ /\ \A b \in k .. n : Continuous(D[b])
     /\ \A a, b \in k .. n : /\ a < b /\ D[a] # << >> /\ D[b] # << >>
                             /\ \A d \in k .. n : a < d /\ d < b => D[d] = << >>
                             => Last(D[a]).after = Head(D[b]).before
     => Continuous(t)

LEMMA Strung ==
  ASSUME NEW s \in Seq(Seq(Changes))
  PROVE  FlattenSeq(s) \in Seq(Changes) /\ Gathers(FlattenSeq(s), s, 1, Len(s))
<1>. PICK t : t = FlattenSeq(s)
  OBVIOUS
<1>. PICK N : N = Len(s)
  OBVIOUS
<1>. SUFFICES t \in Seq(Changes) /\ Gathers(t, s, 1, N)
  OBVIOUS
<1>1. t \in Seq(Changes)
  BY Flattened
<1>2. N \in Nat /\ \A i \in 1 .. N : s[i] \in Seq(Changes)
  BY LenProperties, ElementOfSeq
<1>3. \A q \in Seq(Changes) : q # << >> => Head(q) = q[1] /\ Last(q) = q[Len(q)] /\ Len(q) \in Nat /\ Len(q) # 0
  BY EmptySeq, LenProperties DEF Last
<1>4. CASE N = 0
  <2>1. t = << >>
    <3>1. Len(s) = 0
      BY <1>4
    <3>2. FlattenSeq(s) = << >>
      BY <3>1 DEF FlattenSeq
    <3>. QED
      BY <3>2
  <2>2. Len(t) = 0
    BY <2>1
  <2>3. Continuous(t)
    BY <2>2 DEF Continuous
  <2>4. 1 .. N = {}
    BY <1>4
  <2>. QED
    BY <1>1, <2>1, <2>3, <2>4 DEF Gathers
<1>5. CASE N # 0
  <2>0. \E f : /\ \A n \in 1 .. Len(s) : f[n] \in Seq(Changes) /\ f[n] = IF n = 1 THEN s[n] ELSE f[n - 1] \o s[n]
               /\ FlattenSeq(s) = f[Len(s)]
    <3>1. Len(s) # 0
      BY <1>5
    <3>. QED
      BY <3>1, Flattening
  <2>1. PICK f : /\ \A n \in 1 .. N : f[n] \in Seq(Changes) /\ f[n] = IF n = 1 THEN s[n] ELSE f[n - 1] \o s[n]
                 /\ t = f[N]
    BY <2>0
  <2>. DEFINE E(n) == f[n] = << >> <=> \A i \in 1 .. n : s[i] = << >>
              H(n) == \A i \in 1 .. n : s[i] # << >> /\ (\A d \in 1 .. n : d < i => s[d] = << >>) => f[n][1] = s[i][1]
              L(n) == \A i \in 1 .. n : s[i] # << >> /\ (\A d \in 1 .. n : i < d => s[d] = << >>)
                                          => f[n][Len(f[n])] = s[i][Len(s[i])]
              Linked == /\ \A i \in 1 .. N : Continuous(s[i])
                        /\ \A a, b \in 1 .. N : /\ a < b /\ s[a] # << >> /\ s[b] # << >>
                                                /\ \A d \in 1 .. N : a < d /\ d < b => s[d] = << >>
                                                => s[a][Len(s[a])].after = s[b][1].before
              P(n) == E(n) /\ H(n) /\ L(n) /\ (Linked => Continuous(f[n]))
              Bad == {n \in 1 .. N : ~P(n)}
  <2>2. ASSUME NEW n \in 1 .. N, n = 1 PROVE P(n)
    <3>1. f[n] = s[1] /\ \A i \in 1 .. n : i = 1
      BY <2>1, <2>2
    <3>2. 1 \in 1 .. n /\ 1 \in 1 .. N
      BY <2>2
    <3>. QED
      BY <2>2, <3>1, <3>2
  <2>3. ASSUME NEW n \in 1 .. N, n # 1, P(n - 1) PROVE P(n)
    <3>0. N \in Nat /\ n \in 1 .. N /\ n # 1
      BY <1>2, <2>3
    <3>a. PICK m : m = n - 1
      OBVIOUS
    <3>1. m \in 1 .. N /\ n = m + 1 /\ \A i \in 1 .. n : i \in 1 .. N /\ (i = n \/ i \in 1 .. m)
      BY ONLY <3>0, <3>a
    <3>. USE <3>a
    <3>b. s[n] \in Seq(Changes) /\ f[n] = f[n - 1] \o s[n]
      BY <1>2, <2>1, <3>0
    <3>2. f[n] = f[m] \o s[n] /\ f[m] \in Seq(Changes) /\ f[n] \in Seq(Changes) /\ s[n] \in Seq(Changes)
      BY <2>1, <3>1, <3>b
    <3>3. E(m) /\ H(m) /\ L(m) /\ (Linked => Continuous(f[m]))
      BY <2>3
    <3>4. /\ n \in 1 .. n /\ \A i \in 1 .. m : i \in 1 .. n /\ i < n
          /\ \A i \in 1 .. n : ~(n < i)
      BY <3>1
    <3>5. CASE s[n] = << >>
      <4>1. f[n] = f[m]
        BY <3>2, <3>5, GluedNone
      <4>2. E(n)
        BY <3>1, <3>3, <3>4, <3>5, <4>1
      <4>3. H(n)
        BY <3>1, <3>3, <3>4, <3>5, <4>1
      <4>4. L(n)
        BY <3>1, <3>3, <3>4, <3>5, <4>1
      <4>. QED
        BY <3>3, <4>1, <4>2, <4>3, <4>4
    <3>6. CASE s[n] # << >> /\ f[m] = << >>
      <4>1. f[n] = s[n]
        BY <3>2, <3>6, GluedNone
      <4>2. \A i \in 1 .. m : s[i] = << >>
        BY <3>3, <3>6
      <4>3. E(n)
        BY <3>4, <3>6, <4>1
      <4>4. H(n)
        BY <3>1, <4>1, <4>2
      <4>5. L(n)
        BY <3>1, <4>1, <4>2
      <4>. QED
        BY <4>1, <4>3, <4>4, <4>5
    <3>7. CASE s[n] # << >> /\ f[m] # << >>
      <4>1. /\ f[n] # << >> /\ f[n][1] = f[m][1] /\ f[n][Len(f[n])] = s[n][Len(s[n])]
            /\ (Continuous(f[m]) /\ Continuous(s[n]) /\ f[m][Len(f[m])].after = s[n][1].before) => Continuous(f[n])
        <5>. PICK q : q = f[n]
          OBVIOUS
        <5>. PICK v : v = f[m]
          OBVIOUS
        <5>. PICK u : u = s[n]
          OBVIOUS
        <5>1. q = v \o u /\ v # << >> /\ u # << >> /\ v \in Seq(Changes) /\ u \in Seq(Changes)
          BY <3>2, <3>7
        <5>. HIDE DEF Linked
        <5>2. q \in Seq(Changes) /\ q # << >> /\ q[1] = v[1] /\ q[Len(q)] = u[Len(u)]
          BY ONLY <5>1, Glued
        <5>3. (Continuous(v) /\ Continuous(u) /\ v[Len(v)].after = u[1].before) => Continuous(q)
          BY ONLY <5>1, Glued, Zenon
        <5>. QED
          BY <5>2, <5>3
      <4>. DEFINE A == {i \in 1 .. m : s[i] # << >>}
      <4>2. A # {} /\ A \in SUBSET (1 .. m) /\ m \in Nat
        <5>1. ~ \A i \in 1 .. m : s[i] = << >>
          BY <3>3, <3>7
        <5>2. m \in Nat
          BY <3>1
        <5>. QED
          BY <5>1, <5>2
      <4>3. PICK a \in A : \A i \in A : i <= a
        <5>. HIDE DEF A
        <5>. QED
          BY <4>2, Final
      <4>4. a \in 1 .. m /\ s[a] # << >> /\ \A d \in 1 .. m : a < d => s[d] = << >>
        BY <3>1, <4>3
      <4>5. f[m][Len(f[m])] = s[a][Len(s[a])]
        BY <3>3, <4>4
      <4>6. ASSUME Linked PROVE f[m][Len(f[m])].after = s[n][1].before
        <5>1. a \in 1 .. N /\ n \in 1 .. N /\ a < n
          BY <3>1, <3>4, <4>4
        <5>2. \A d \in 1 .. N : a < d /\ d < n => s[d] = << >>
          <6>1. \A d \in 1 .. N : d < n => d \in 1 .. m
            BY <1>2, <3>1
          <6>. QED
            BY <4>4, <6>1
        <5>3. s[a] # << >> /\ s[n] # << >>
          BY <3>7, <4>4
        <5>4. s[a][Len(s[a])].after = s[n][1].before
          BY <4>6, <5>1, <5>2, <5>3
        <5>. QED
          BY <4>5, <5>4
      <4>7. E(n)
        BY <3>4, <3>7, <4>1
      <4>8. H(n)
        <5>. SUFFICES ASSUME NEW i \in 1 .. n, s[i] # << >>, \A d \in 1 .. n : d < i => s[d] = << >>
                      PROVE  f[n][1] = s[i][1]
          OBVIOUS
        <5>1. i \in 1 .. m
          BY <3>1, <3>4, <4>4
        <5>2. \A d \in 1 .. m : d < i => s[d] = << >>
          BY <3>4
        <5>. QED
          BY <3>3, <4>1, <5>1, <5>2
      <4>9. L(n)
        BY <3>1, <3>4, <3>7, <4>1
      <4>. QED
        BY <3>3, <4>1, <4>6, <4>7, <4>8, <4>9
    <3>. QED
      BY <3>5, <3>6, <3>7
  <2>4. ASSUME NEW n \in Bad PROVE n - 1 \in Bad
    <3>1. n \in 1 .. N /\ ~P(n)
      OBVIOUS
    <3>. HIDE DEF P
    <3>2. n # 1 /\ ~P(n - 1)
      BY <2>2, <2>3, <3>1
    <3>3. n - 1 \in 1 .. N
      BY <1>2, <3>1, <3>2
    <3>. QED
      BY <3>2, <3>3
  <2>5. Bad \in SUBSET (1 .. N)
    OBVIOUS
  <2>6. Bad = {}
    <3>. HIDE DEF Bad
    <3>. QED
      BY <1>2, <2>4, <2>5, Climb
  <2>7. P(N)
    <3>. HIDE DEF P
    <3>. QED
      BY <1>2, <1>5, <2>6
  <2>8. t = f[N] /\ E(N) /\ H(N) /\ L(N) /\ (Linked => Continuous(t))
    BY <2>1, <2>7
  <2>9. \A i \in 1 .. N : s[i] # << >> => t # << >> /\ Head(s[i]) = s[i][1] /\ Last(s[i]) = s[i][Len(s[i])]
    BY <1>2, <1>3, <2>8
  <2>10. t # << >> => Head(t) = t[1] /\ Last(t) = t[Len(t)]
    BY <1>1, <1>3
  <2>11. \A i \in 1 .. N : s[i] # << >> /\ (\A d \in 1 .. N : d < i => s[d] = << >>) => Head(t) = Head(s[i])
    BY <2>8, <2>9, <2>10
  <2>12. \A i \in 1 .. N : s[i] # << >> /\ (\A d \in 1 .. N : i < d => s[d] = << >>) => Last(t) = Last(s[i])
    BY <2>8, <2>9, <2>10
  <2>13. /\ \A i \in 1 .. N : Continuous(s[i])
         /\ \A a, b \in 1 .. N : /\ a < b /\ s[a] # << >> /\ s[b] # << >>
                                 /\ \A d \in 1 .. N : a < d /\ d < b => s[d] = << >>
                                 => Last(s[a]).after = Head(s[b]).before
         => Linked
    <3>. SUFFICES ASSUME \A i \in 1 .. N : Continuous(s[i]),
                         \A a, b \in 1 .. N : /\ a < b /\ s[a] # << >> /\ s[b] # << >>
                                              /\ \A d \in 1 .. N : a < d /\ d < b => s[d] = << >>
                                              => Last(s[a]).after = Head(s[b]).before,
                         NEW a \in 1 .. N, NEW b \in 1 .. N, a < b, s[a] # << >>, s[b] # << >>,
                         \A d \in 1 .. N : a < d /\ d < b => s[d] = << >>
                  PROVE  s[a][Len(s[a])].after = s[b][1].before
      OBVIOUS
    <3>1. Last(s[a]).after = Head(s[b]).before
      OBVIOUS
    <3>. QED
      BY <2>9, <3>1
  <2>14. t = << >> <=> \A i \in 1 .. N : s[i] = << >>
    BY <2>8
  <2>15. Linked => Continuous(t)
    BY <2>8
  <2>. HIDE DEF Linked, E, H, L
  <2>. QED
    BY <1>1, <2>11, <2>12, <2>13, <2>14, <2>15 DEF Gathers
<1>. QED
  BY <1>4, <1>5
-----------------------------------------------------------------------------
(* What the next restore can still undo *)

\* "A later owner completes these idempotent writes before doing work."
CompletedFirst == pc \in {"plan", "go"} => txn = NoTxn

\* The branch, as a branch update that is not done will leave it.
Order == IF txn = NoTxn THEN order ELSE txn.order
Mans == IF txn = NoTxn THEN manifest ELSE txn.manifest

\* The changes of a file, turn by turn.
Line(p) == [a \in DOMAIN Order |-> Mans[Order[a]].ops[p]]

\* No turn from a place on has lost sight of the file: no warning, and no record
\* of a call that will not end.
Live(r) == r.before # Unsafe /\ \E k \in Calls : calls[k] # Idle /\ calls[k].call = r.call
Spared(c, p) == p \notin Mans[c].warn /\ \A r \in pending : r.path = p /\ r.id = c => Live(r)
Sure(p) == {a \in DOMAIN Order : \A b \in DOMAIN Order : a <= b => Spared(Order[b], p)}

\* What the last change of a file left: the file, or what the tool at work found.
Running(p) == {r \in pending : /\ r.path = p
                               /\ \E k \in Calls : calls[k] # Idle /\ calls[k].st = "ran" /\ calls[k].call = r.call}
Ends(p) == {x \in States : IF Running(p) = {} THEN x = file[p] ELSE \A r \in Running(p) : x = r.before}

\* The turns of a line before place s, of those in V, are continuous, each with the
\* next turn before s that changed the file, and the last with what X allows.
Follows(D, a, b) == a < b /\ D[b] # << >> /\ \A d \in DOMAIN D : a < d /\ d < b => D[d] = << >>
Latest(D, a) == \A d \in DOMAIN D : a < d => D[d] = << >>
Tied(D, s, V, X) ==
  \A a \in V : a < s /\ D[a] # << >> =>
    /\ Continuous(D[a])
    /\ \A b \in DOMAIN D : b < s /\ Follows(D, a, b) => Last(D[a]).after = Head(D[b]).before
    /\ Latest(D, a) => Last(D[a]).after \in X

\* The restores not done that do not cover for the one at work, and the places from
\* which they will take the branch.
Undone(j) == ~(journals[j].fin /\ ~journals[j].rr)
Waiting ==
  IF pc \in {"files", "swap"} THEN DOMAIN journals \ {run.jr}
  ELSE IF pc \in {"close", "mark", "clear"} \/ (pc = "apply" /\ run # NoRun)
  THEN IF run.clean THEN {j \in DOMAIN journals : journals[j].id # run.id}
       ELSE IF run.rr THEN DOMAIN journals ELSE DOMAIN journals \ {run.jr}
  ELSE DOMAIN journals
Breaks == {Len(Order) + 1}
            \cup {s \in DOMAIN Order : \E j \in Waiting : Undone(j) /\ journals[j].id = Order[s]}

Astray(p) == p \in strange \cup missed

\* A line is tied up to its end or to the checkpoint of a restore not done; one
\* whose file has been put back, up to where it was cut or before.
Awaiting(p) == Astray(p) \/ \E s \in Breaks : Tied(Line(p), s, Sure(p), Ends(p))
PutBack(p) ==
  \/ Astray(p)
  \/ /\ file[p] = run.got[p] /\ Chain(p, Selected) # << >>
     /\ \E s \in {b \in Breaks : b < Start} \cup {Start} : Tied(Line(p), s, Sure(p), Ends(p))
Held == \A p \in Paths : IF pc \in {"files", "swap"} /\ p \in Done THEN PutBack(p) ELSE Awaiting(p)

\* Records are of calls of turns that did not finish.
OpenRecords == \A r \in pending : r.id \in Range(Order) => Mans[r.id].st = "open"

\* What a restore knows of what it selected, and when an update is under way.
Inside ==
  /\ pc \in {"files", "swap", "index", "clear"} => txn = NoTxn
  /\ pc = "index" => manifest[op.id] = Blank("open")
  /\ pc \in {"plan", "files", "swap"} => ~run.rr
  /\ pc \in {"files", "swap"} =>
       /\ \A c \in Range(Selected) : manifest[c].st # "open"
       /\ \A p \in run.todo \cup run.cur : p \notin Done
       /\ \A p \in run.cur : \A q \in run.cur \cup run.todo : q = p \/ q \notin run.cur
       /\ run.cur \cap run.todo = {}
       /\ run.clean => /\ Warned(Range(Selected)) = {}
                       /\ \A p \in Paths : Chain(p, Selected) # << >> => p \in Done \cup run.todo \cup run.cur
       /\ ~journals[run.jr].fin
  /\ pc = "files" => run.cur = {}
  /\ pc = "clear" => run.clean
  /\ pc = "apply" /\ run # NoRun => ~run.rr
  /\ pc \in {"close", "mark"} /\ txn # NoTxn => run.rr
  /\ run # NoRun => run.incl /\ ~(run.rr /\ run.clean)
  /\ \A j \in DOMAIN journals : journals[j].incl
  /\ op.kind = "restore" => op.incl
  /\ run # NoRun /\ (run.from = 0 \/ pc = "clear") => op.kind = "restore"
  /\ pc = "apply" /\ run = NoRun => op.kind = "reconcile"

\* A restore to be retried closes the gate.
Gated == up /\ op.kind # "init" =>
           \A j \in DOMAIN journals : journals[j].rr /\ journals[j].id \in Range(order) => journals[j].id \in gate

\* The calls of the turn and their records.
Between ==
  /\ active # NoId => order # << >> /\ active = order[Len(order)] /\ manifest[active].st = "open"
  /\ \A k, l \in Calls : calls[k] # Idle /\ calls[l] # Idle /\ calls[k].path = calls[l].path =>
       k = l \/ calls[k].path \in strange
  /\ \A r, q \in pending : r.call = q.call => r = q
  /\ \A k \in Calls : calls[k] # Idle => \A r \in Record(k) : r.path = calls[k].path /\ r.id = active
  /\ \A k \in Calls : calls[k] # Idle /\ ~Astray(calls[k].path) =>
       /\ calls[k].st \in {"pre", "ran"} => Record(k) # {}
       /\ calls[k].st = "lost" => Record(k) = {}
       /\ \A r \in Record(k) :
            /\ calls[k].st = "pre" => r.before \in {file[r.path], Unsafe}
            /\ calls[k].st = "ran" => r.before = Unsafe \/ r.before.data # file[r.path].data
            /\ calls[k].st = "posted" /\ r.before = Unsafe => r.path \in manifest[active].warn

UndoInv == Held /\ OpenRecords /\ Inside /\ Gated /\ Between
-----------------------------------------------------------------------------
(* What keeps a line tied *)

\* Less is asked: of fewer turns, up to an earlier place, with a weaker end.
LEMMA TiedLess ==
  ASSUME NEW D, NEW s \in Int, NEW r \in Int, NEW V, NEW W, NEW X, NEW Y, Tied(D, s, V, X),
         DOMAIN D \subseteq Int, W \subseteq V, V \subseteq DOMAIN D, r <= s, W = {} \/ X \subseteq Y
  PROVE  Tied(D, r, W, Y)
<1>. SUFFICES ASSUME NEW a \in W, a < r, D[a] # << >>
              PROVE  /\ Continuous(D[a])
                     /\ \A b \in DOMAIN D : b < r /\ Follows(D, a, b) => Last(D[a]).after = Head(D[b]).before
                     /\ Latest(D, a) => Last(D[a]).after \in Y
  BY DEF Tied
<1>1. a \in V /\ a \in Int /\ a < s /\ X \subseteq Y /\ \A b \in DOMAIN D : b < r => b < s
  OBVIOUS
<1>2. /\ Continuous(D[a])
      /\ \A b \in DOMAIN D : b < s /\ Follows(D, a, b) => Last(D[a]).after = Head(D[b]).before
      /\ Latest(D, a) => Last(D[a]).after \in X
  BY <1>1 DEF Tied
<1>. QED
  BY <1>1, <1>2

\* One more change at the end of a sequence of them.
LEMMA OneMore ==
  ASSUME NEW t \in Seq(Changes), NEW ch \in Changes, NEW u, u = Append(t, ch)
  PROVE  /\ u # << >> /\ Last(u) = ch
         /\ t = << >> => Head(u) = ch /\ Continuous(u)
         /\ t # << >> => Head(u) = Head(t)
         /\ t # << >> /\ Continuous(t) /\ Last(t).after = ch.before => Continuous(u)
<1>. PICK m : m = Len(t)
  OBVIOUS
<1>1. u \in Seq(Changes) /\ Len(u) = m + 1 /\ u[m + 1] = ch /\ \A i \in 1 .. m : u[i] = t[i]
  BY AppendProperties
<1>2. m \in Nat /\ (t = << >> <=> m = 0)
  BY EmptySeq, LenProperties
<1>3. u # << >> /\ Last(u) = ch
  BY <1>1, <1>2, EmptySeq DEF Last
<1>4. u[1] = Head(u) /\ (t # << >> => Head(t) = t[1])
  BY <1>1, <1>3
<1>5. ASSUME t = << >> PROVE Head(u) = ch /\ Continuous(u)
  BY <1>1, <1>2, <1>4, <1>5 DEF Continuous
<1>6. ASSUME t # << >> PROVE Head(u) = Head(t)
  <2>1. 1 \in 1 .. m
    BY <1>2, <1>6
  <2>. QED
    BY <1>1, <1>4, <1>6, <2>1
<1>7. ASSUME t # << >>, Continuous(t), Last(t).after = ch.before PROVE Continuous(u)
  <2>1. t[m].after = ch.before
    BY <1>7 DEF Last
  <2>2. ASSUME NEW i \in 1 .. m PROVE u[i].after = u[i + 1].before
    <3>1. CASE i = m
      BY <1>1, <1>2, <2>1, <3>1
    <3>2. CASE i # m
      <4>1. i \in 1 .. m - 1 /\ i + 1 \in 1 .. m
        BY <1>2, <3>2
      <4>2. t[i].after = t[i + 1].before
        BY <1>7, <4>1 DEF Continuous
      <4>. QED
        BY <1>1, <4>1, <4>2
    <3>. QED
      BY <3>1, <3>2
  <2>3. Len(u) - 1 = m
    BY <1>1, <1>2
  <2>. QED
    BY <2>2, <2>3 DEF Continuous
<1>. QED
  BY <1>1, <1>3, <1>5, <1>6, <1>7

\* The change of the tool at work, at the end of the last turn.
LEMMA TiedLonger ==
  ASSUME NEW D, NEW n \in Nat \ {0}, DOMAIN D = 1 .. n, \A a \in 1 .. n : D[a] \in Seq(Changes),
         NEW ch \in Changes, NEW E, DOMAIN E = 1 .. n, \A a \in 1 .. n : a # n => E[a] = D[a],
         E[n] = Append(D[n], ch),
         NEW s \in 1 .. n + 1, NEW V, V \subseteq 1 .. n, NEW X, \A x \in X : x = ch.before, Tied(D, s, V, X)
  PROVE  Tied(E, s, V, {ch.after})
<1>. SUFFICES ASSUME NEW a \in V, a < s, E[a] # << >>
              PROVE  /\ Continuous(E[a])
                     /\ \A b \in DOMAIN E : b < s /\ Follows(E, a, b) => Last(E[a]).after = Head(E[b]).before
                     /\ Latest(E, a) => Last(E[a]).after \in {ch.after}
  BY DEF Tied
<1>1. a \in 1 .. n /\ n \in 1 .. n /\ n \in Int
  <2>1. a \in 1 .. n
    OBVIOUS
  <2>2. n \in 1 .. n /\ n \in Int
    OBVIOUS
  <2>. QED
    BY <2>1, <2>2
<1>2. /\ E[n] # << >> /\ Last(E[n]) = ch
      /\ D[n] = << >> => Head(E[n]) = ch /\ Continuous(E[n])
      /\ D[n] # << >> => Head(E[n]) = Head(D[n])
      /\ D[n] # << >> /\ Continuous(D[n]) /\ Last(D[n]).after = ch.before => Continuous(E[n])
  <2>1. D[n] \in Seq(Changes)
    BY <1>1
  <2>. PICK t : t = D[n]
    OBVIOUS
  <2>. PICK u : u = E[n]
    OBVIOUS
  <2>2. t \in Seq(Changes) /\ u = Append(t, ch)
    BY <2>1
  <2>3. /\ u # << >> /\ Last(u) = ch
        /\ t = << >> => Head(u) = ch /\ Continuous(u)
        /\ t # << >> => Head(u) = Head(t)
        /\ t # << >> /\ Continuous(t) /\ Last(t).after = ch.before => Continuous(u)
    BY ONLY <2>2, ch \in Changes, OneMore
  <2>. QED
    BY <2>3
<1>3. CASE a = n
  <2>1. Latest(D, a) /\ \A b \in DOMAIN E : ~Follows(E, a, b)
    BY <1>1, <1>3 DEF Latest, Follows
  <2>2. D[n] # << >> => Continuous(D[n]) /\ Last(D[n]).after \in X
    BY <1>3, <2>1 DEF Tied
  <2>3. Continuous(E[n])
    BY <1>2, <2>2
  <2>. QED
    BY <1>2, <1>3, <2>1, <2>3
<1>4. CASE a # n
  <2>1. a < n /\ E[a] = D[a] /\ D[a] # << >>
    BY <1>1, <1>4
  <2>2. /\ Continuous(D[a])
        /\ \A b \in DOMAIN D : b < s /\ Follows(D, a, b) => Last(D[a]).after = Head(D[b]).before
        /\ Latest(D, a) => Last(D[a]).after \in X
    BY <2>1 DEF Tied
  <2>3. ~Latest(E, a)
    BY <1>1, <1>2, <2>1 DEF Latest
  <2>4. ASSUME NEW b \in 1 .. n, b < s, Follows(E, a, b) PROVE Last(D[a]).after = Head(E[b]).before
    <3>1. a < b /\ \A d \in 1 .. n : a < d /\ d < b => D[d] = << >>
      <4>1. a < b /\ \A d \in 1 .. n : a < d /\ d < b => E[d] = << >>
        BY <2>4 DEF Follows
      <4>2. \A d \in 1 .. n : d < b => d # n
        OBVIOUS
      <4>. QED
        BY <4>1, <4>2
    <3>2. CASE D[b] # << >>
      <4>1. Follows(D, a, b)
        BY <3>1, <3>2 DEF Follows
      <4>2. Last(D[a]).after = Head(D[b]).before
        BY <2>2, <2>4, <4>1
      <4>3. Head(E[b]) = Head(D[b])
        BY <1>2, <3>2
      <4>. QED
        BY <4>2, <4>3
    <3>3. CASE D[b] = << >>
      <4>1. b = n
        BY <2>4, <3>3 DEF Follows
      <4>2. Latest(D, a)
        BY <1>1, <3>1, <3>3, <4>1 DEF Latest
      <4>3. Last(D[a]).after = ch.before
        BY <2>2, <4>2
      <4>. QED
        BY <1>2, <3>3, <4>1, <4>3
    <3>. QED
      BY <3>2, <3>3
  <2>. QED
    BY <2>1, <2>2, <2>3, <2>4
<1>. QED
  BY <1>3, <1>4

\* A line with an empty turn at the end, and the first k turns gone.
Shifting(D, E, n, k, V, W) ==
  /\ n \in Nat /\ k \in 0 .. n + 1 /\ DOMAIN D = 1 .. n /\ DOMAIN E = 1 .. (n + 1) - k
  /\ \A a \in 1 .. (n + 1) - k : E[a] = IF a + k = n + 1 THEN << >> ELSE D[a + k]
  /\ W \subseteq DOMAIN E /\ \A a \in W : a + k # n + 1 => a + k \in V

LEMMA TiedShifted ==
  ASSUME NEW D, NEW E, NEW n, NEW k, NEW V, NEW W, Shifting(D, E, n, k, V, W), NEW X, Tied(D, n + 1, V, X)
  PROVE  Tied(E, (n + 2) - k, W, X)
<1>. USE DEF Shifting
<1>. SUFFICES ASSUME NEW a \in W, a < (n + 2) - k, E[a] # << >>
              PROVE  /\ Continuous(E[a])
                     /\ \A b \in DOMAIN E : b < (n + 2) - k /\ Follows(E, a, b) => Last(E[a]).after = Head(E[b]).before
                     /\ Latest(E, a) => Last(E[a]).after \in X
  BY DEF Tied
<1>. PICK c : c = a + k
  OBVIOUS
<1>1. a \in 1 .. (n + 1) - k /\ c \in 1 .. n /\ c # n + 1 /\ E[a] = D[c] /\ c < n + 1 /\ c \in V
  OBVIOUS
<1>2. /\ Continuous(D[c])
      /\ \A b \in DOMAIN D : b < n + 1 /\ Follows(D, c, b) => Last(D[c]).after = Head(D[b]).before
      /\ Latest(D, c) => Last(D[c]).after \in X
  BY <1>1 DEF Tied
<1>3. \A d \in 1 .. n : c < d => d - k \in 1 .. (n + 1) - k /\ a < d - k /\ (d - k) + k = d /\ E[d - k] = D[d]
  <2>. SUFFICES ASSUME NEW d \in 1 .. n, c < d
                PROVE  d - k \in 1 .. (n + 1) - k /\ a < d - k /\ (d - k) + k = d /\ E[d - k] = D[d]
    OBVIOUS
  <2>1. d - k \in 1 .. (n + 1) - k /\ a < d - k /\ (d - k) + k = d /\ d # n + 1
    BY <1>1
  <2>. QED
    BY <2>1
<1>4. ASSUME NEW b \in DOMAIN E, Follows(E, a, b) PROVE Last(E[a]).after = Head(E[b]).before
  <2>. PICK e : e = b + k
    OBVIOUS
  <2>1. b \in 1 .. (n + 1) - k /\ E[b] # << >> /\ a < b /\ \A d \in 1 .. (n + 1) - k : a < d /\ d < b => E[d] = << >>
    BY <1>4 DEF Follows
  <2>2. e # n + 1 /\ E[b] = D[e]
    BY <2>1
  <2>3. e \in 1 .. n /\ c < e /\ e < n + 1 /\ e - k = b
    BY <1>1, <2>1, <2>2
  <2>4. \A d \in 1 .. n : c < d /\ d < e => D[d] = << >>
    <3>1. \A d \in 1 .. n : d < e => d - k < b
      BY <2>3
    <3>. QED
      BY <1>3, <2>1, <3>1
  <2>5. Follows(D, c, e)
    BY <2>1, <2>2, <2>3, <2>4 DEF Follows
  <2>. QED
    BY <1>1, <1>2, <2>2, <2>3, <2>5
<1>5. ASSUME Latest(E, a) PROVE Latest(D, c)
  BY <1>3, <1>5 DEF Latest
<1>. QED
  BY <1>1, <1>2, <1>4, <1>5

\* The last change of a sequence leaves something else.
Retouch(t, x) == [t EXCEPT ![Len(t)].after = x]

LEMMA Retouched ==
  ASSUME NEW t \in Seq(Changes), t # << >>, NEW x \in States, NEW u, u = Retouch(t, x)
  PROVE  /\ u # << >> /\ Head(u).before = Head(t).before /\ Last(u).after = x
         /\ Continuous(t) => Continuous(u)
<1>. USE DEF Retouch
<1>. PICK m : m = Len(t)
  OBVIOUS
<1>1. m \in Nat /\ m # 0 /\ DOMAIN t = 1 .. m /\ \A i \in 1 .. m : t[i] \in Changes
  BY EmptySeq, LenProperties, ElementOfSeq
<1>2. DOMAIN u = 1 .. m /\ u[m] = [t[m] EXCEPT !.after = x] /\ \A i \in 1 .. m : i # m => u[i] = t[i]
  BY <1>1
<1>3. t[m] \in Changes
  BY <1>1
<1>4. u[m].before = t[m].before /\ u[m].after = x /\ u[m] \in Changes
  BY <1>2, <1>3 DEF Changes
<1>5. \A i \in 1 .. m : u[i].before = t[i].before /\ u[i] \in Changes
  BY <1>1, <1>2, <1>4
<1>6. u \in Seq(Changes) /\ Len(u) = m
  <2>1. u \in [1 .. m -> Changes]
    BY <1>2, <1>5
  <2>2. u \in Seq(Changes)
    BY <1>1, <2>1, SeqDef
  <2>3. Len(u) \in Nat /\ DOMAIN u = 1 .. Len(u)
    BY <2>2, LenProperties
  <2>. QED
    BY <1>1, <1>2, <2>2, <2>3
<1>7. u # << >> /\ Head(u) = u[1] /\ Head(t) = t[1] /\ Last(u) = u[m]
  BY <1>1, <1>6, EmptySeq DEF Last
<1>8. ASSUME Continuous(t) PROVE Continuous(u)
  <2>1. ASSUME NEW i \in 1 .. m - 1 PROVE u[i].after = u[i + 1].before
    <3>1. i \in 1 .. m /\ i # m /\ i + 1 \in 1 .. m
      BY <1>1
    <3>2. t[i].after = t[i + 1].before
      BY <1>8 DEF Continuous
    <3>. QED
      BY <1>2, <1>5, <3>1, <3>2
  <2>. QED
    BY <1>6, <2>1 DEF Continuous
<1>9. 1 \in 1 .. m
  BY <1>1
<1>. QED
  BY <1>4, <1>5, <1>7, <1>8, <1>9

\* A line cut at place m, with nothing from there on: D before and E after, of n and
\* of e turns; it was tied up to s and is to be up to r.
Cutting(D, E, n, m, e, V, W, s, r) ==
  /\ n \in Nat /\ m \in 1 .. n + 1 /\ e \in Nat /\ e <= n /\ m - 1 <= e /\ DOMAIN D = 1 .. n /\ DOMAIN E = 1 .. e
  /\ \A a \in m .. e : E[a] = << >>
  /\ W \subseteq 1 .. e /\ \A a \in W : a < m => a \in V
  /\ s \in 1 .. m /\ r \in Int /\ (r = s \/ (s = m /\ r = e + 1))

\* Up to place m the lines D and E differ only in what the last change leaves.
Relast(D, E, m, x) ==
  \A a \in 1 .. m - 1 : E[a] = IF D[a] # << >> /\ \A d \in 1 .. m - 1 : a < d => D[d] = << >>
                               THEN Retouch(D[a], x) ELSE D[a]

\* The line of a file that was put back: before the place of the restore the last
\* change leaves what the file is now.
LEMMA TiedCut ==
  ASSUME NEW D, NEW E, NEW n, NEW m, NEW e, NEW V, NEW W, NEW s, NEW r, Cutting(D, E, n, m, e, V, W, s, r),
         NEW x \in States, Relast(D, E, m, x), \A a \in 1 .. n : D[a] \in Seq(Changes), NEW X, Tied(D, s, V, X)
  PROVE  Tied(E, r, W, {x})
<1>. USE DEF Cutting, Relast
<1>. SUFFICES ASSUME NEW a \in W, a < r, E[a] # << >>
              PROVE  /\ Continuous(E[a])
                     /\ \A b \in DOMAIN E : b < r /\ Follows(E, a, b) => Last(E[a]).after = Head(E[b]).before
                     /\ Latest(E, a) => Last(E[a]).after \in {x}
  BY DEF Tied
<1>1. a \in 1 .. e
  OBVIOUS
<1>2. a \in 1 .. m - 1 /\ a < s /\ a \in 1 .. n /\ a < m
  <2>1. ~(a \in m .. e)
    OBVIOUS
  <2>. QED
    BY <1>1, <2>1
<1>3. a \in V /\ D[a] \in Seq(Changes)
  BY <1>2
<1>4. ASSUME NEW b \in 1 .. m - 1 PROVE E[b] = << >> <=> D[b] = << >>
  <2>1. CASE D[b] # << >> /\ \A d \in 1 .. m - 1 : b < d => D[d] = << >>
    <3>0. b \in 1 .. n
      OBVIOUS
    <3>1. D[b] \in Seq(Changes) /\ E[b] = Retouch(D[b], x)
      BY <2>1, <3>0
    <3>2. E[b] # << >>
      BY <2>1, <3>1, Retouched
    <3>. QED
      BY <2>1, <3>2
  <2>2. CASE ~(D[b] # << >> /\ \A d \in 1 .. m - 1 : b < d => D[d] = << >>)
    BY <2>2
  <2>. QED
    BY <2>1, <2>2
<1>5. D[a] # << >>
  BY <1>2, <1>4
<1>6. /\ Continuous(D[a])
      /\ \A b \in DOMAIN D : b < s /\ Follows(D, a, b) => Last(D[a]).after = Head(D[b]).before
  BY <1>2, <1>3, <1>5 DEF Tied
<1>7. \A b \in 1 .. e : b \in 1 .. m - 1 \/ b \in m .. e
  OBVIOUS
<1>8. CASE \A d \in 1 .. m - 1 : a < d => D[d] = << >>
  <2>1. E[a] = Retouch(D[a], x)
    BY <1>2, <1>5, <1>8
  <2>2. Last(E[a]).after = x /\ Continuous(E[a])
    <3>. PICK t : t = D[a]
      OBVIOUS
    <3>. PICK u : u = E[a]
      OBVIOUS
    <3>1. t \in Seq(Changes) /\ t # << >> /\ Continuous(t) /\ x \in States /\ u = Retouch(t, x)
      BY <1>3, <1>5, <1>6, <2>1
    <3>2. Last(u).after = x /\ Continuous(u)
      BY ONLY <3>1, Retouched
    <3>. QED
      BY <3>2
  <2>3. \A b \in 1 .. e : a < b => E[b] = << >>
    BY <1>4, <1>7, <1>8
  <2>. QED
    BY <2>2, <2>3 DEF Follows
<1>9. CASE ~ \A d \in 1 .. m - 1 : a < d => D[d] = << >>
  <2>1. E[a] = D[a]
    BY <1>2, <1>9
  <2>2. PICK d \in 1 .. m - 1 : a < d /\ D[d] # << >>
    BY <1>9
  <2>3. d \in 1 .. e /\ E[d] # << >>
    BY <1>4, <2>2
  <2>4. ~Latest(E, a)
    BY <2>2, <2>3 DEF Latest
  <2>5. ASSUME NEW b \in 1 .. e, b < r, Follows(E, a, b) PROVE Last(E[a]).after = Head(E[b]).before
    <3>1. E[b] # << >> /\ a < b /\ \A c \in 1 .. e : a < c /\ c < b => E[c] = << >>
      BY <2>5 DEF Follows
    <3>2. b \in 1 .. m - 1
      BY <1>7, <3>1
    <3>3. b \in 1 .. n /\ b < s /\ b < m /\ D[b] # << >> /\ D[b] \in Seq(Changes)
      <4>1. b \in 1 .. n /\ b < s /\ b < m
        BY <2>5, <3>2
      <4>. QED
        BY <1>4, <3>1, <3>2, <4>1
    <3>4. \A c \in 1 .. n : a < c /\ c < b => D[c] = << >>
      <4>. SUFFICES ASSUME NEW c \in 1 .. n, a < c, c < b PROVE D[c] = << >>
        OBVIOUS
      <4>1. c \in 1 .. e /\ c \in 1 .. m - 1
        BY <3>2
      <4>. QED
        BY <1>4, <3>1, <4>1
    <3>5. Last(D[a]).after = Head(D[b]).before
      BY <1>6, <3>1, <3>3, <3>4 DEF Follows
    <3>6. Head(E[b]).before = Head(D[b]).before
      <4>1. CASE \A c \in 1 .. m - 1 : b < c => D[c] = << >>
        <5>1. E[b] = Retouch(D[b], x)
          BY <3>2, <3>3, <4>1
        <5>. PICK t : t = D[b]
          OBVIOUS
        <5>. PICK u : u = E[b]
          OBVIOUS
        <5>2. t \in Seq(Changes) /\ t # << >> /\ u = Retouch(t, x)
          BY <3>3, <5>1
        <5>3. Head(u).before = Head(t).before
          BY ONLY <5>2, x \in States, Retouched
        <5>. QED
          BY <5>3
      <4>2. CASE ~ \A c \in 1 .. m - 1 : b < c => D[c] = << >>
        BY <3>2, <4>2
      <4>. QED
        BY <4>1, <4>2
    <3>. QED
      BY <2>1, <3>5, <3>6
  <2>. QED
    BY <1>6, <2>1, <2>4, <2>5
<1>. QED
  BY <1>8, <1>9

\* The line of a file the turns from a place on did not change.
LEMMA TiedBare ==
  ASSUME NEW D, NEW E, NEW n, NEW m, NEW e, NEW V, NEW W, NEW s, NEW r, Cutting(D, E, n, m, e, V, W, s, r),
         \A a \in 1 .. m - 1 : E[a] = D[a], \A a \in m .. n : D[a] = << >>, NEW X, Tied(D, s, V, X)
  PROVE  Tied(E, r, W, X)
<1>. USE DEF Cutting
<1>. SUFFICES ASSUME NEW a \in W, a < r, E[a] # << >>
              PROVE  /\ Continuous(E[a])
                     /\ \A b \in DOMAIN E : b < r /\ Follows(E, a, b) => Last(E[a]).after = Head(E[b]).before
                     /\ Latest(E, a) => Last(E[a]).after \in X
  BY DEF Tied
<1>1. a \in 1 .. e
  OBVIOUS
<1>2. a \in 1 .. m - 1 /\ a < s /\ a \in 1 .. n /\ a < m
  <2>1. ~(a \in m .. e)
    OBVIOUS
  <2>. QED
    BY <1>1, <2>1
<1>3. a \in V /\ E[a] = D[a]
  BY <1>2
<1>4. /\ Continuous(D[a])
      /\ \A b \in DOMAIN D : b < s /\ Follows(D, a, b) => Last(D[a]).after = Head(D[b]).before
      /\ Latest(D, a) => Last(D[a]).after \in X
  BY <1>2, <1>3 DEF Tied
<1>5. \A b \in 1 .. n : b \in 1 .. m - 1 \/ b \in m .. n
  OBVIOUS
<1>6. \A b \in 1 .. m - 1 : b \in 1 .. e /\ b \in 1 .. n
  OBVIOUS
<1>7. \A b \in 1 .. e : b \in 1 .. n /\ (b \in 1 .. m - 1 \/ b \in m .. e)
  OBVIOUS
<1>8. Latest(E, a) => Latest(D, a)
  BY <1>5, <1>6 DEF Latest
<1>9. ASSUME NEW b \in 1 .. e, b < r, Follows(E, a, b) PROVE Last(E[a]).after = Head(E[b]).before
  <2>1. E[b] # << >> /\ a < b /\ \A c \in 1 .. e : a < c /\ c < b => E[c] = << >>
    BY <1>9 DEF Follows
  <2>2. b \in 1 .. m - 1 /\ E[b] = D[b] /\ b \in 1 .. n
    BY <1>7, <2>1
  <2>3. b < s
    BY <1>9, <2>2
  <2>4. \A c \in 1 .. n : a < c /\ c < b => D[c] = << >>
    <3>1. \A c \in 1 .. n : c < b => c \in 1 .. m - 1
      BY <2>2
    <3>. QED
      BY <1>6, <2>1, <3>1
  <2>. QED
    BY <1>3, <1>4, <2>1, <2>2, <2>3, <2>4 DEF Follows
<1>. QED
  BY <1>3, <1>4, <1>8, <1>9

\* The turns from a place on, strung together.
LEMMA StrungTail ==
  ASSUME NEW D, NEW n \in Nat, DOMAIN D = 1 .. n, \A a \in 1 .. n : D[a] \in Seq(Changes),
         NEW k \in 1 .. n + 1, NEW T \in [1 .. (n + 1) - k -> Seq(Changes)], \A i \in 1 .. (n + 1) - k : T[i] = D[(k + i) - 1]
  PROVE  FlattenSeq(T) \in Seq(Changes) /\ Gathers(FlattenSeq(T), D, k, n)
<1>. PICK t : t = FlattenSeq(T)
  OBVIOUS
<1>. PICK N : N = (n + 1) - k
  OBVIOUS
<1>1. N \in Nat /\ \A i \in 1 .. N : (k + i) - 1 \in k .. n /\ (k + i) - 1 \in 1 .. n
  OBVIOUS
<1>2. \A b \in k .. n : (b - k) + 1 \in 1 .. N /\ (k + ((b - k) + 1)) - 1 = b
  OBVIOUS
<1>3. T \in Seq(Seq(Changes)) /\ Len(T) = N
  <2>1. T \in [1 .. N -> Seq(Changes)]
    OBVIOUS
  <2>2. T \in Seq(Seq(Changes))
    BY <1>1, <2>1, SeqDef
  <2>3. Len(T) \in Nat /\ DOMAIN T = 1 .. Len(T)
    BY <2>2, LenProperties
  <2>. QED
    BY <1>1, <2>2, <2>3
<1>4. t \in Seq(Changes) /\ Gathers(t, T, 1, N)
  BY <1>3, Strung
<1>5. ASSUME NEW b \in k .. n
      PROVE  \E i \in 1 .. N : i = (b - k) + 1 /\ (k + i) - 1 = b /\ T[i] = D[b]
  BY <1>2
<1>6. \A i \in 1 .. N : T[i] = D[(k + i) - 1]
  OBVIOUS
<1>7. t = << >> <=> \A b \in k .. n : D[b] = << >>
  BY <1>1, <1>4, <1>5, <1>6 DEF Gathers
<1>8. ASSUME NEW b \in k .. n, D[b] # << >>, \A d \in k .. n : d < b => D[d] = << >> PROVE Head(t) = Head(D[b])
  <2>1. PICK i \in 1 .. N : i = (b - k) + 1 /\ (k + i) - 1 = b /\ T[i] = D[b]
    BY <1>5
  <2>2. \A d \in 1 .. N : d < i => (k + d) - 1 < b
    BY <2>1
  <2>. QED
    BY <1>1, <1>4, <1>6, <1>8, <2>1, <2>2 DEF Gathers
<1>9. ASSUME NEW b \in k .. n, D[b] # << >>, \A d \in k .. n : b < d => D[d] = << >> PROVE Last(t) = Last(D[b])
  <2>1. PICK i \in 1 .. N : i = (b - k) + 1 /\ (k + i) - 1 = b /\ T[i] = D[b]
    BY <1>5
  <2>2. \A d \in 1 .. N : i < d => b < (k + d) - 1
    BY <2>1
  <2>. QED
    BY <1>1, <1>4, <1>6, <1>9, <2>1, <2>2 DEF Gathers
<1>10. ASSUME \A b \in k .. n : Continuous(D[b]),
              \A a, b \in k .. n : /\ a < b /\ D[a] # << >> /\ D[b] # << >>
                                   /\ \A d \in k .. n : a < d /\ d < b => D[d] = << >>
                                   => Last(D[a]).after = Head(D[b]).before
       PROVE  Continuous(t)
  <2>1. \A i \in 1 .. N : Continuous(T[i])
    BY <1>1, <1>6, <1>10
  <2>2. ASSUME NEW a \in 1 .. N, NEW b \in 1 .. N, a < b, T[a] # << >>, T[b] # << >>,
               \A d \in 1 .. N : a < d /\ d < b => T[d] = << >>
        PROVE  Last(T[a]).after = Head(T[b]).before
    <3>. PICK u : u = (k + a) - 1
      OBVIOUS
    <3>. PICK v : v = (k + b) - 1
      OBVIOUS
    <3>1. u \in k .. n /\ v \in k .. n /\ u < v /\ T[a] = D[u] /\ T[b] = D[v]
      BY <1>1, <1>6, <2>2
    <3>2. ASSUME NEW d \in k .. n, u < d, d < v PROVE D[d] = << >>
      <4>2. PICK i \in 1 .. N : i = (d - k) + 1 /\ (k + i) - 1 = d /\ T[i] = D[d]
        BY <1>5
      <4>3. a < i /\ i < b
        <5>1. d \in Int /\ k \in Int /\ a \in Int /\ b \in Int
          OBVIOUS
        <5>2. u = (k + a) - 1 /\ v = (k + b) - 1 /\ u < d /\ d < v
          BY <3>2
        <5>3. i = (d - k) + 1
          BY <4>2
        <5>. QED
          BY ONLY <5>1, <5>2, <5>3
      <4>. QED
        BY <2>2, <4>2, <4>3
    <3>. QED
      BY <1>10, <2>2, <3>1, <3>2
  <2>. QED
    BY <1>4, <2>1, <2>2 DEF Gathers
<1>. QED
  BY <1>4, <1>7, <1>8, <1>9, <1>10 DEF Gathers

\* A tied line is unbroken.
LEMMA TiedWhole ==
  ASSUME NEW n \in Nat, NEW D \in [1 .. n -> Seq(Changes)], NEW X, Tied(D, n + 1, 1 .. n, X), NEW t, t = FlattenSeq(D), t # << >>
  PROVE  Continuous(t) /\ Last(t).after \in X
<1>1. Gathers(t, D, 1, n)
  <2>1. 1 \in 1 .. n + 1 /\ (n + 1) - 1 = n /\ \A i \in 1 .. n : (1 + i) - 1 = i
    OBVIOUS
  <2>2. /\ D \in [1 .. (n + 1) - 1 -> Seq(Changes)] /\ \A i \in 1 .. (n + 1) - 1 : D[i] = D[(1 + i) - 1]
        /\ DOMAIN D = 1 .. n /\ \A a \in 1 .. n : D[a] \in Seq(Changes)
    BY <2>1
  <2>. QED
    BY <2>1, <2>2, StrungTail
<1>2. \A a \in 1 .. n : a < n + 1 /\ a \in Int
  OBVIOUS
<1>3. \A a \in 1 .. n : D[a] # << >> =>
        /\ Continuous(D[a])
        /\ \A b \in 1 .. n : Follows(D, a, b) => Last(D[a]).after = Head(D[b]).before
        /\ Latest(D, a) => Last(D[a]).after \in X
  BY <1>2 DEF Tied
<1>4. \A a \in 1 .. n : D[a] = << >> => Continuous(D[a])
  <2>1. Continuous(<< >>)
    BY DEF Continuous
  <2>. QED
    BY <2>1
<1>5. Continuous(t)
  <2>1. ASSUME NEW a \in 1 .. n, NEW b \in 1 .. n, a < b, D[a] # << >>, D[b] # << >>,
               \A d \in 1 .. n : a < d /\ d < b => D[d] = << >>
        PROVE  Last(D[a]).after = Head(D[b]).before
    <3>1. Follows(D, a, b)
      BY <2>1 DEF Follows
    <3>. QED
      BY <1>3, <2>1, <3>1
  <2>2. \A b \in 1 .. n : Continuous(D[b])
    BY <1>3, <1>4
  <2>. QED
    BY <1>1, <2>1, <2>2 DEF Gathers
<1>. DEFINE A == {i \in 1 .. n : D[i] # << >>}
<1>6. PICK a \in A : \A i \in A : i <= a
  <2>1. A # {} /\ A \in SUBSET (1 .. n)
    BY <1>1 DEF Gathers
  <2>. HIDE DEF A
  <2>. QED
    BY <2>1, Final
<1>7. a \in 1 .. n /\ D[a] # << >> /\ \A d \in 1 .. n : a < d => D[d] = << >>
  BY <1>2, <1>6
<1>8. Last(t) = Last(D[a]) /\ Latest(D, a)
  BY <1>1, <1>7 DEF Latest, Gathers
<1>. QED
  BY <1>3, <1>5, <1>7, <1>8

\* A line whose turns from the k-th of n on, those of T, are made one; it was tied up
\* to s and is to be up to r.
Folding(D, E, T, n, k, V, W, s, r) ==
  /\ n \in Nat /\ k \in 1 .. n /\ DOMAIN D = 1 .. n /\ DOMAIN E = 1 .. k
  /\ \A a \in 1 .. n : D[a] \in Seq(Changes)
  /\ T \in [1 .. (n + 1) - k -> Seq(Changes)] /\ \A i \in 1 .. (n + 1) - k : T[i] = D[(k + i) - 1]
  /\ E[k] = FlattenSeq(T) /\ \A a \in 1 .. k : a # k => E[a] = D[a]
  /\ W \subseteq 1 .. k /\ \A a \in W : \A b \in a .. n : b \in V
  /\ s \in 1 .. n + 1 /\ r \in Int /\ ((s = r /\ r <= k) \/ (s = n + 1 /\ r = k + 1))

LEMMA TiedFolded ==
  ASSUME NEW D, NEW E, NEW T, NEW n, NEW k, NEW V, NEW W, NEW s, NEW r, Folding(D, E, T, n, k, V, W, s, r),
         NEW X, Tied(D, s, V, X)
  PROVE  Tied(E, r, W, X)
<1>. USE DEF Folding
<1>1. Gathers(E[k], D, k, n)
  <2>1. k \in 1 .. n + 1
    OBVIOUS
  <2>. QED
    BY <2>1, StrungTail
<1>2. /\ \A b \in k .. n : b \in 1 .. n
      /\ \A a \in 1 .. n : a < n + 1 /\ a \in Int /\ (a < k \/ a \in k .. n)
      /\ \A a \in 1 .. k : a \in 1 .. n /\ (a = k \/ a < k)
      /\ k \in 1 .. n /\ k \in 1 .. k
  OBVIOUS
<1>. SUFFICES ASSUME NEW a \in W, a < r, E[a] # << >>
              PROVE  /\ Continuous(E[a])
                     /\ \A b \in DOMAIN E : b < r /\ Follows(E, a, b) => Last(E[a]).after = Head(E[b]).before
                     /\ Latest(E, a) => Last(E[a]).after \in X
  BY DEF Tied
<1>3. a \in 1 .. k
  OBVIOUS
<1>4. \A b \in V : b < s /\ D[b] # << >> =>
        /\ Continuous(D[b])
        /\ \A c \in DOMAIN D : c < s /\ Follows(D, b, c) => Last(D[b]).after = Head(D[c]).before
        /\ Latest(D, b) => Last(D[b]).after \in X
  BY DEF Tied
<1>5. CASE a = k
  <2>1. s = n + 1 /\ \A b \in k .. n : b \in V /\ b < s
    BY <1>2, <1>5
  <2>2. \A b \in k .. n : D[b] # << >> =>
          /\ Continuous(D[b])
          /\ \A c \in 1 .. n : Follows(D, b, c) => Last(D[b]).after = Head(D[c]).before
          /\ Latest(D, b) => Last(D[b]).after \in X
    BY <1>2, <1>4, <2>1
  <2>3. Continuous(<< >>)
    BY DEF Continuous
  <2>4. Continuous(E[k])
    <3>1. ASSUME NEW b \in k .. n, NEW c \in k .. n, b < c, D[b] # << >>, D[c] # << >>,
                 \A d \in k .. n : b < d /\ d < c => D[d] = << >>
          PROVE  Last(D[b]).after = Head(D[c]).before
      <4>1. c \in 1 .. n /\ \A d \in 1 .. n : b < d => d \in k .. n
        BY <1>2
      <4>2. Follows(D, b, c)
        BY <3>1, <4>1 DEF Follows
      <4>. QED
        BY <2>2, <3>1, <4>1, <4>2
    <3>2. \A b \in k .. n : Continuous(D[b])
      BY <2>2, <2>3
    <3>. QED
      BY <1>1, <3>1, <3>2 DEF Gathers
  <2>5. \A b \in DOMAIN E : ~Follows(E, a, b)
    BY <1>2, <1>5 DEF Follows
  <2>. DEFINE A == {i \in k .. n : D[i] # << >>}
  <2>6. PICK c \in A : \A i \in A : i <= c
    <3>1. A # {} /\ A \in SUBSET (1 .. n)
      BY <1>1, <1>2, <1>5 DEF Gathers
    <3>. HIDE DEF A
    <3>. QED
      BY <3>1, Final
  <2>7. c \in k .. n /\ D[c] # << >> /\ \A d \in k .. n : c < d => D[d] = << >>
    BY <1>2, <2>6
  <2>8. Latest(D, c)
    <3>1. \A d \in 1 .. n : c < d => d \in k .. n
      BY <2>7
    <3>. QED
      BY <2>7, <3>1 DEF Latest
  <2>9. Last(E[k]).after \in X
    BY <1>1, <2>2, <2>7, <2>8 DEF Gathers
  <2>. QED
    BY <1>5, <2>4, <2>5, <2>9
<1>6. CASE a # k
  <2>1. a < k /\ E[a] = D[a] /\ a \in 1 .. n /\ a < s
    BY <1>2, <1>3, <1>6
  <2>2. a \in V
    <3>1. a \in a .. n
      BY <2>1
    <3>. QED
      BY <3>1
  <2>3. /\ Continuous(D[a])
        /\ \A b \in 1 .. n : b < s /\ Follows(D, a, b) => Last(D[a]).after = Head(D[b]).before
        /\ Latest(D, a) => Last(D[a]).after \in X
    BY <1>4, <2>1, <2>2
  <2>4. ASSUME Latest(E, a) PROVE Latest(D, a)
    <3>1. E[k] = << >> /\ \A d \in 1 .. k : a < d => E[d] = << >>
      BY <1>2, <2>1, <2>4 DEF Latest
    <3>2. \A d \in 1 .. n : a < d /\ d < k => D[d] = << >>
      <4>1. \A d \in 1 .. n : d < k => d \in 1 .. k /\ d # k
        OBVIOUS
      <4>. QED
        BY <3>1, <4>1
    <3>. QED
      BY <1>1, <1>2, <3>1, <3>2 DEF Latest, Gathers
  <2>5. ASSUME NEW b \in 1 .. k, b < r, Follows(E, a, b) PROVE Last(E[a]).after = Head(E[b]).before
    <3>1. E[b] # << >> /\ a < b /\ \A c \in 1 .. k : a < c /\ c < b => E[c] = << >>
      BY <2>5 DEF Follows
    <3>2. \A d \in 1 .. n : a < d /\ d < b => D[d] = << >>
      <4>1. \A d \in 1 .. n : d < b => d \in 1 .. k /\ d # k
        OBVIOUS
      <4>. QED
        BY <3>1, <4>1
    <3>3. CASE b # k
      <4>1. E[b] = D[b] /\ b \in 1 .. n /\ b < s
        BY <1>2, <2>5, <3>3
      <4>2. Follows(D, a, b)
        BY <3>1, <3>2, <4>1 DEF Follows
      <4>. QED
        BY <2>1, <2>3, <4>1, <4>2
    <3>4. CASE b = k
      <4>. DEFINE A == {i \in k .. n : D[i] # << >>}
      <4>1. PICK c \in A : \A i \in A : c <= i
        <5>1. A # {} /\ A \in SUBSET (1 .. n)
          BY <1>1, <1>2, <3>1, <3>4 DEF Gathers
        <5>. HIDE DEF A
        <5>. QED
          BY <5>1, First
      <4>2. c \in k .. n /\ D[c] # << >> /\ \A d \in k .. n : d < c => D[d] = << >>
        BY <1>2, <4>1
      <4>3. Head(E[k]) = Head(D[c])
        BY <1>1, <4>2 DEF Gathers
      <4>4. s = n + 1 /\ c < s /\ c \in 1 .. n /\ a < c
        BY <1>2, <2>1, <2>5, <3>4, <4>2
      <4>5. \A d \in 1 .. n : a < d /\ d < c => D[d] = << >>
        <5>1. \A d \in 1 .. n : d < b \/ d \in k .. n
          BY <3>4
        <5>. QED
          BY <3>2, <4>2, <5>1
      <4>6. Follows(D, a, c)
        BY <4>2, <4>4, <4>5 DEF Follows
      <4>. QED
        BY <2>1, <2>3, <3>4, <4>3, <4>4, <4>6
    <3>. QED
      BY <3>3, <3>4
  <2>. QED
    BY <2>1, <2>3, <2>4, <2>5
<1>. QED
  BY <1>5, <1>6
-----------------------------------------------------------------------------
(* The branch as it will be *)

LEMMA Branches ==
  ASSUME TypeOK
  PROVE  /\ Order \in Seq(Ids) /\ Len(Order) \in Nat /\ DOMAIN Order = 1 .. Len(Order)
         /\ \A a \in 1 .. Len(Order) : Order[a] \in Ids /\ Order[a] \in Range(Order)
         /\ Mans \in [Ids -> Manifests] /\ Range(Order) \subseteq Ids
<1>1. Order \in Seq(Ids) /\ Mans \in [Ids -> Manifests]
  <2>1. CASE txn = NoTxn
    BY <2>1 DEF TypeOK, Order, Mans
  <2>2. CASE txn # NoTxn
    <3>1. txn \in Updates
      BY <2>2 DEF TypeOK
    <3>. QED
      BY <2>2, <3>1 DEF Order, Mans, Updates
  <2>. QED
    BY <2>1, <2>2
<1>. PICK o : o = Order
  OBVIOUS
<1>2. o \in Seq(Ids)
  BY <1>1
<1>3. Len(o) \in Nat /\ DOMAIN o = 1 .. Len(o) /\ Range(o) \subseteq Ids
  BY <1>2, LenProperties, RangeOfSeq
<1>4. \A a \in 1 .. Len(o) : o[a] \in Range(o)
  BY <1>3 DEF Range
<1>. QED
  BY <1>1, <1>2, <1>3, <1>4

LEMMA Lines ==
  ASSUME TypeOK, NEW p \in Paths
  PROVE  /\ Line(p) \in [1 .. Len(Order) -> Seq(Changes)] /\ Sure(p) \subseteq 1 .. Len(Order)
         /\ \A a \in 1 .. Len(Order) : Line(p)[a] = Mans[Order[a]].ops[p]
<1>1. /\ DOMAIN Order = 1 .. Len(Order) /\ \A a \in 1 .. Len(Order) : Order[a] \in Ids
      /\ Mans \in [Ids -> Manifests]
  BY Branches
<1>2. \A c \in Ids : Mans[c].ops[p] \in Seq(Changes)
  BY <1>1 DEF Manifests
<1>3. Sure(p) \subseteq 1 .. Len(Order)
  BY <1>1 DEF Sure
<1>. QED
  BY <1>1, <1>2, <1>3 DEF Line

\* With no tool at work the trail ends in the file.
LEMMA EndsIdle ==
  ASSUME TypeOK, \A k \in Calls : calls[k] = Idle, NEW p \in Paths
  PROVE  Ends(p) = {file[p]} /\ \A r : ~Live(r)
<1>1. Running(p) = {} /\ file[p] \in States
  BY DEF Running, TypeOK
<1>. QED
  BY <1>1 DEF Ends, Live

LEMMA SureLess ==
  ASSUME Order' = Order, NEW p, \A c \in Range(Order) : Spared(c, p)' => Spared(c, p)
  PROVE  Sure(p)' \subseteq Sure(p)
<1>1. \A b \in DOMAIN Order : Order[b] \in Range(Order)
  BY DEF Range
<1>2. ASSUME NEW a \in Sure(p)' PROVE a \in Sure(p)
  <2>1. a \in DOMAIN Order /\ \A b \in DOMAIN Order : a <= b => Spared(Order[b], p)'
    BY <1>2 DEF Sure
  <2>. QED
    BY <1>1, <2>1 DEF Sure
<1>. QED
  BY <1>2

\* The warning of the last turn is one for all before it.
LEMMA SureNone ==
  ASSUME Order' \in Seq(Ids), NEW p, Order' # << >>, ~Spared(Order[Len(Order)], p)'
  PROVE  Sure(p)' = {}
<1>. PICK o : o = Order'
  OBVIOUS
<1>1. o # << >> /\ o \in Seq(Ids)
  OBVIOUS
<1>2. DOMAIN o = 1 .. Len(o) /\ Len(o) \in Nat /\ Len(o) # 0
  BY <1>1, EmptySeq, LenProperties
<1>3. \A a \in 1 .. Len(o) : a <= Len(o) /\ Len(o) \in 1 .. Len(o)
  BY <1>2
<1>. QED
  BY <1>2, <1>3 DEF Sure

LEMMA BreaksKept ==
  ASSUME Order' = Order,
         \A j \in Waiting : Undone(j) /\ journals[j].id \in Range(Order) =>
           j \in Waiting' /\ Undone(j)' /\ journals'[j].id = journals[j].id
  PROVE  Breaks \subseteq Breaks'
<1>1. ASSUME NEW s \in DOMAIN Order, NEW j \in Waiting, Undone(j), journals[j].id = Order[s] PROVE s \in Breaks'
  <2>1. journals[j].id \in Range(Order)
    BY <1>1 DEF Range
  <2>. QED
    BY <1>1, <2>1 DEF Breaks
<1>. QED
  BY <1>1 DEF Breaks

LEMMA BreaksAre ==
  ASSUME TypeOK
  PROVE  Breaks \subseteq 1 .. Len(Order) + 1 /\ Len(Order) + 1 \in Breaks
<1>1. DOMAIN Order = 1 .. Len(Order) /\ Len(Order) \in Nat
  BY Branches
<1>2. 1 .. Len(Order) \subseteq 1 .. Len(Order) + 1 /\ Len(Order) + 1 \in 1 .. Len(Order) + 1
  BY <1>1
<1>. QED
  BY <1>1, <1>2 DEF Breaks

\* A step that leaves a line as it is, makes no turn of it surer, and keeps its end
\* unless no turn is sure any more.
LEMMA AwaitingSame ==
  ASSUME TypeOK, NEW p \in Paths, Awaiting(p), Line(p)' = Line(p), Breaks \subseteq Breaks',
         strange \subseteq strange', missed \subseteq missed',
         Sure(p)' \subseteq Sure(p), Sure(p)' = {} \/ Ends(p) \subseteq Ends(p)'
  PROVE  Awaiting(p)'
<1>1. CASE Astray(p)
  BY <1>1 DEF Awaiting, Astray
<1>2. ASSUME NEW s \in Breaks, Tied(Line(p), s, Sure(p), Ends(p)) PROVE Awaiting(p)'
  <2>. PICK D : D = Line(p)
    OBVIOUS
  <2>. PICK W : W = Sure(p)'
    OBVIOUS
  <2>. PICK Y : Y = Ends(p)'
    OBVIOUS
  <2>1. Len(Order) \in Nat /\ DOMAIN D = 1 .. Len(Order) /\ Sure(p) \subseteq DOMAIN D
    BY Branches, Lines
  <2>2. s \in Int /\ s <= s /\ DOMAIN D \subseteq Int
    BY <2>1, BreaksAre
  <2>3. Tied(D, s, W, Y)
    BY <1>2, <2>1, <2>2, TiedLess
  <2>. QED
    BY <1>2, <2>3 DEF Awaiting
<1>. QED
  BY <1>1, <1>2 DEF Awaiting
-----------------------------------------------------------------------------
(* The lines through the steps that leave the files and the branch alone *)

LEMMA CalmSame ==
  ASSUME UNCHANGED <<file, pending, calls>>, Order' = Order, Mans' = Mans, NEW p
  PROVE  Line(p)' = Line(p) /\ Sure(p)' = Sure(p) /\ Ends(p)' = Ends(p)
<1>1. Line(p)' = Line(p)
  BY DEF Line
<1>2. \A r : Live(r)' <=> Live(r)
  BY DEF Live
<1>3. \A c : Spared(c, p)' <=> Spared(c, p)
  BY <1>2 DEF Spared
<1>4. Sure(p)' = Sure(p)
  BY <1>3 DEF Sure
<1>5. Running(p)' = Running(p)
  BY DEF Running
<1>6. Ends(p)' = Ends(p)
  BY <1>5 DEF Ends
<1>. QED
  BY <1>1, <1>4, <1>6

LEMMA HeldCalm ==
  ASSUME TypeOK, Held, UNCHANGED <<file, pending, calls, strange, missed>>, Order' = Order, Mans' = Mans,
         Breaks \subseteq Breaks', pc \notin {"files", "swap"}, pc' \notin {"files", "swap"}
  PROVE  Held'
<1>1. ASSUME NEW p \in Paths PROVE Awaiting(p)'
  <2>1. Awaiting(p)
    BY DEF Held
  <2>2. Line(p)' = Line(p) /\ Sure(p)' = Sure(p) /\ Ends(p)' = Ends(p)
    BY CalmSame
  <2>. QED
    BY <2>1, <2>2, AwaitingSame
<1>. QED
  BY <1>1 DEF Held

LEMMA BranchSame ==
  ASSUME UNCHANGED <<order, manifest, txn>>
  PROVE  Order' = Order /\ Mans' = Mans
BY DEF Order, Mans

LEMMA WaitingIs ==
  /\ Waiting \subseteq DOMAIN journals
  /\ pc \notin {"files", "swap", "close", "mark", "clear"} /\ (pc # "apply" \/ run = NoRun)
       => Waiting = DOMAIN journals
BY DEF Waiting

\* What is on the branch to come is on the branch.
LEMMA OrderRange ==
  ASSUME IndInv
  PROVE  Range(Order) \subseteq Range(order) /\ IsInjective(Order)
<1>1. CASE txn = NoTxn
  BY <1>1 DEF Order, IndInv, TypeOK
<1>2. CASE txn # NoTxn
  BY <1>2 DEF Order, IndInv, GateInv, Updating
<1>. QED
  BY <1>1, <1>2

LEMMA HeldScan ==
  ASSUME IndInv, Held, Scan \/ ScanDone \/ (\E o \in Ops : Acquire(o)) \/ Restart
  PROVE  Held'
<1>1. /\ TypeOK /\ UNCHANGED <<file, pending, calls, strange, missed, order, manifest, txn>>
      /\ pc \in {"idle", "scan"} /\ pc' \notin {"files", "swap", "close", "mark", "clear", "apply"}
  BY DEF IndInv, GateInv, Stage, Scan, ScanDone, Acquire, Restart, Recover, Refuse, End, disk, memory, history
<1>2. Order' = Order /\ Mans' = Mans
  BY <1>1, BranchSame
<1>3. Waiting = DOMAIN journals /\ Waiting' = DOMAIN journals'
  BY <1>1 DEF Waiting
<1>4. ASSUME NEW j \in DOMAIN journals, Undone(j), journals[j].id \in Range(Order)
      PROVE  j \in DOMAIN journals' /\ Undone(j)' /\ journals'[j].id = journals[j].id
  <2>1. CASE UNCHANGED journals
    BY <1>4, <2>1 DEF Undone
  <2>2. CASE Scan /\ journals' # journals
    <3>. PICK i : i = CHOOSE h \in scan : \A k \in scan : h <= k
      OBVIOUS
    <3>1. journals[i].id \notin Range(order) /\ journals' = [journals EXCEPT ![i] = Settled(i)]
      BY <2>2 DEF Scan, Journal
    <3>2. i # j
      BY <1>4, <3>1, OrderRange
    <3>. QED
      BY <1>4, <3>1, <3>2 DEF Undone
  <2>. QED
    BY <2>1, <2>2 DEF ScanDone, Acquire, Restart, disk
<1>5. Breaks \subseteq Breaks'
  BY <1>2, <1>3, <1>4, BreaksKept
<1>. QED
  BY <1>1, <1>2, <1>5, HeldCalm

\* Of the update that was done the branch is what it would be.
LEMMA ApplySame ==
  ASSUME TypeOK, ApplyManifest \/ ApplyIndex \/ ApplyDone \/ ApplyError
  PROVE  Order' = Order /\ Mans' = Mans
<1>1. TypeOK /\ txn # NoTxn
  BY DEF ApplyManifest, ApplyIndex, ApplyDone, ApplyError
<1>2. CASE ApplyManifest \/ ApplyIndex \/ ApplyError
  <2>1. txn' = txn
    BY <1>2 DEF ApplyManifest, ApplyIndex, ApplyError, disk
  <2>. QED
    BY <1>1, <2>1 DEF Order, Mans
<1>3. CASE ApplyDone
  <2>1. txn' = NoTxn /\ Unapplied = {} /\ order = txn.order /\ UNCHANGED <<order, manifest>>
    BY <1>3 DEF ApplyDone
  <2>2. txn \in Updates /\ DOMAIN txn.manifest = Ids /\ manifest \in [Ids -> Manifests]
    BY <1>1, TypedUpdate DEF TypeOK
  <2>3. \A c \in Ids : txn.manifest[c] = manifest[c]
    BY <2>1, <2>2 DEF Unapplied
  <2>4. txn.manifest \in [Ids -> Manifests]
    BY <2>2 DEF Updates
  <2>5. txn.manifest = manifest
    BY <2>2, <2>3, <2>4
  <2>. QED
    BY <1>1, <2>1, <2>5 DEF Order, Mans
<1>. QED
  BY <1>2, <1>3

LEMMA HeldApply ==
  ASSUME IndInv, Watched, UndoInv, ApplyManifest \/ ApplyIndex \/ ApplyDone \/ ApplyError
  PROVE  Held'
<1>1. /\ TypeOK /\ pc \in {"txn", "apply"} /\ txn # NoTxn /\ active = NoId /\ Held
      /\ UNCHANGED <<file, calls, journals, strange, missed>>
  BY DEF UndoInv, IndInv, TypeOK, ApplyManifest, ApplyIndex, ApplyDone, ApplyError, disk, memory, history
<1>2. pc = "txn" => run = NoRun
  BY <1>1 DEF IndInv, GateInv, Stage
<1>3. Order' = Order /\ Mans' = Mans
  BY <1>1, ApplySame
<1>4. Waiting \subseteq Waiting'
  <2>1. CASE ApplyManifest \/ ApplyIndex
    BY <1>1, <2>1 DEF ApplyManifest, ApplyIndex, Waiting, work
  <2>2. CASE ApplyDone /\ run # NoRun
    <3>1. pc = "apply" /\ pc' = "close" /\ run' = run
      BY <1>1, <1>2, <2>2 DEF ApplyDone
    <3>. QED
      BY <1>1, <2>2, <3>1 DEF Waiting
  <2>3. CASE ApplyError /\ run # NoRun
    <3>1. pc' = "close" /\ run' = [run EXCEPT !.clean = FALSE, !.rr = TRUE] /\ run \in Runs
      BY <1>1, <2>3 DEF ApplyError, TypeOK
    <3>2. ~run'.clean /\ run'.rr
      BY <3>1 DEF Runs
    <3>3. Waiting' = DOMAIN journals
      BY <1>1, <3>1, <3>2 DEF Waiting
    <3>. QED
      BY <3>3, WaitingIs
  <2>4. CASE (ApplyDone \/ ApplyError) /\ run = NoRun
    <3>1. pc' \in {"idle", "scan"}
      BY <2>4 DEF ApplyDone, ApplyError, Refuse, End
    <3>2. Waiting' = DOMAIN journals
      BY <1>1, <3>1 DEF Waiting
    <3>. QED
      BY <3>2, WaitingIs
  <2>. QED
    BY <2>1, <2>2, <2>3, <2>4
<1>5. Breaks \subseteq Breaks'
  <2>1. \A j \in Waiting : Undone(j) => j \in Waiting' /\ Undone(j)' /\ journals'[j].id = journals[j].id
    BY <1>1, <1>4 DEF Undone
  <2>. QED
    BY <1>3, <2>1, BreaksKept
<1>6. pc' \notin {"files", "swap"}
  BY <1>1 DEF ApplyManifest, ApplyIndex, ApplyDone, ApplyError, Refuse, End, work
<1>7. CASE UNCHANGED pending
  BY <1>1, <1>3, <1>5, <1>6, <1>7, HeldCalm
<1>8. CASE pending' = {r \in pending : r.id \in Range(order)} /\ order = txn.order
  <2>1. \A k \in Calls : calls[k] = Idle /\ calls'[k] = Idle
    BY <1>1 DEF Watched
  <2>2. ASSUME NEW p \in Paths PROVE Awaiting(p)'
    <3>1. Awaiting(p) /\ Line(p)' = Line(p)
      BY <1>1, <1>3, <2>2 DEF Held, Line
    <3>2. Ends(p)' = Ends(p)
      BY <1>1, <2>1 DEF Ends, Running
    <3>3. \A r : ~Live(r) /\ ~Live(r)'
      BY <2>1 DEF Live
    <3>4. ASSUME NEW c \in Range(Order), Spared(c, p)' PROVE Spared(c, p)
      <4>1. Order = order
        BY <1>1, <1>8 DEF Order
      <4>. QED
        BY <1>3, <1>8, <3>3, <3>4, <4>1 DEF Spared
    <3>5. Sure(p)' \subseteq Sure(p)
      BY <1>3, <3>4, SureLess
    <3>. QED
      BY <1>1, <1>5, <3>1, <3>2, <3>5, AwaitingSame
  <2>. QED
    BY <1>6, <2>2 DEF Held
<1>. QED
  BY <1>7, <1>8 DEF ApplyManifest, ApplyIndex, ApplyDone, ApplyError, disk

LEMMA HeldGo ==
  ASSUME IndInv, Held, PlanError \/ GoNowhere \/ GoRestore \/ BeginRefused \/ GoError
  PROVE  Held'
<1>1. /\ TypeOK /\ pc \in {"plan", "go"} /\ UNCHANGED <<file, calls, strange, missed, disk>>
      /\ pc' \in {"idle", "mark", "plan"}
  BY DEF IndInv, PlanError, GoNowhere, GoRestore, BeginRefused, GoError, End, memory, history
<1>2. UNCHANGED <<order, manifest, txn, pending, journals>>
  BY <1>1 DEF disk
<1>3. Order' = Order /\ Mans' = Mans
  BY <1>2, BranchSame
<1>4. Waiting' = DOMAIN journals
  <2>1. CASE pc' # "mark"
    BY <1>1, <1>2, <2>1 DEF Waiting
  <2>2. CASE pc' = "mark"
    <3>1. PlanError /\ pc = "plan"
      BY <2>2 DEF PlanError, GoNowhere, GoRestore, BeginRefused, GoError, End
    <3>2. run \in Runs /\ run.jr = 0 /\ run' = [run EXCEPT !.clean = FALSE]
      BY <2>2, <3>1, AtWork DEF PlanError, Restoring, IndInv, GateInv, Journalled, Stage, End
    <3>3. ~run'.clean /\ run'.jr = 0
      BY <3>2 DEF Runs
    <3>4. 0 \notin DOMAIN journals
      BY <1>1, JournalIs DEF TypeOK
    <3>. QED
      BY <1>2, <2>2, <3>3, <3>4 DEF Waiting
  <2>. QED
    BY <2>1, <2>2
<1>5. Breaks \subseteq Breaks'
  BY <1>2, <1>3, <1>4, WaitingIs, BreaksKept DEF Undone
<1>. QED
  BY <1>1, <1>2, <1>3, <1>5, HeldCalm

\* Finishing the journal of a restore takes no break away that its line still needs.
LEMMA HeldClose ==
  ASSUME IndInv, Held, Inside, Close \/ Clear \/ Mark
  PROVE  Held'
<1>1. /\ TypeOK /\ pc \in {"close", "clear", "mark"} /\ pc' \notin {"files", "swap"}
      /\ UNCHANGED <<file, pending, calls, strange, missed, order, manifest, txn>>
  BY DEF IndInv, Close, Clear, Mark, Refuse, End, memory, history
<1>2. Order' = Order /\ Mans' = Mans
  BY <1>1, BranchSame
<1>3. run \in Runs /\ (run.jr # 0 => run.jr \in DOMAIN journals) /\ (run.from # 0 => run.from \in DOMAIN journals)
  BY <1>1, AtWork DEF Restoring
<1>4. \A j \in {run.from, run.jr} \ {0} : journals[j].id = run.id
  BY <1>1 DEF IndInv, GateInv, Journalled, Stage, Restoring
<1>5. Waiting = IF run.clean THEN {j \in DOMAIN journals : journals[j].id # run.id}
                ELSE IF run.rr THEN DOMAIN journals ELSE DOMAIN journals \ {run.jr}
  BY <1>1 DEF Waiting
<1>6. ASSUME NEW j \in Waiting, Undone(j), journals[j].id \in Range(Order)
      PROVE  j \in Waiting' /\ Undone(j)' /\ journals'[j].id = journals[j].id
  <2>1. j \in DOMAIN journals /\ journals \in Seq(Journals)
    BY <1>1, <1>5, <1>6 DEF TypeOK
  <2>2. CASE Close
    <3>1. run.jr \in DOMAIN journals /\ journals[run.jr].id = run.id
      BY <1>1, <1>3, <1>4, <2>2 DEF Close, IndInv, GateInv, Journalled, Stage, Restoring
    <3>2. journals[run.jr] \in Journals
      BY <2>1, <3>1, JournalIs
    <3>3. \/ journals' = journals
          \/ journals' = [journals EXCEPT ![run.jr] = [journals[run.jr] EXCEPT !.fin = TRUE, !.rr = run.rr]]
      BY <2>2 DEF Close, Journal
    <3>4. DOMAIN journals' = DOMAIN journals /\ journals'[j].id = journals[j].id
      BY <2>1, <3>1, <3>2, <3>3 DEF Journals
    <3>5. Undone(j)'
      <4>1. CASE j # run.jr
        BY <1>6, <2>1, <3>3, <4>1 DEF Undone
      <4>2. CASE j = run.jr
        <5>1. run.rr
          BY <1>5, <1>6, <3>1, <4>2
        <5>2. journals' = journals \/ journals'[j].rr
          <6>1. journals' = journals \/ journals'[j] = [journals[j] EXCEPT !.fin = TRUE, !.rr = TRUE]
            BY <2>1, <3>3, <4>2, <5>1
          <6>2. [journals[j] EXCEPT !.fin = TRUE, !.rr = TRUE].rr
            BY <3>2, <4>2 DEF Journals
          <6>. QED
            BY <6>1, <6>2
        <5>3. CASE journals' = journals
          BY <1>6, <5>3 DEF Undone
        <5>4. CASE journals'[j].rr
          BY <5>4 DEF Undone
        <5>. QED
          BY <5>2, <5>3, <5>4
      <4>. QED
        BY <4>1, <4>2
    <3>6. j \in Waiting'
      <4>1. CASE pc' = "mark"
        <5>1. run' = [run EXCEPT !.clean = run.clean /\ run.jok /\ ~full]
          BY <2>2, <4>1 DEF Close, End
        <5>2. run'.clean = (run.clean /\ run.jok /\ ~full) /\ run'.rr = run.rr /\ run'.jr = run.jr /\ run'.id = run.id
          BY <1>3, <5>1 DEF Runs
        <5>3. CASE run.clean
          <6>1. journals[j].id # run.id
            BY <1>5, <1>6, <5>3
          <6>2. j # run.jr
            BY <3>1, <6>1
          <6>. QED
            BY <2>1, <3>4, <4>1, <5>2, <6>1, <6>2 DEF Waiting
        <5>4. CASE ~run.clean
          BY <1>5, <1>6, <3>4, <4>1, <5>2, <5>4 DEF Waiting
        <5>. QED
          BY <5>3, <5>4
      <4>2. CASE pc' = "clear"
        <5>1. run' = run
          BY <2>2, <4>2 DEF Close, End
        <5>. QED
          BY <1>5, <1>6, <3>4, <4>2, <5>1 DEF Waiting
      <4>3. CASE pc' = "idle"
        BY <2>1, <3>4, <4>3 DEF Waiting
      <4>. QED
        BY <2>2, <4>1, <4>2, <4>3 DEF Close, End
    <3>. QED
      BY <3>4, <3>5, <3>6
  <2>3. CASE Clear
    <3>1. journals[j].id # run.id
      BY <1>5, <1>6, <2>3 DEF Clear, Inside
    <3>2. DOMAIN journals' = DOMAIN journals /\ journals'[j] = journals[j]
      BY <2>1, <2>3, <3>1 DEF Clear
    <3>3. pc' = "idle"
      BY <2>3 DEF Clear, End
    <3>. QED
      BY <1>6, <2>1, <3>2, <3>3 DEF Undone, Waiting
  <2>4. CASE Mark
    <3>1. run.from \in DOMAIN journals /\ journals[run.from].id = run.id
      BY <1>1, <1>3, <1>4, <2>4 DEF Mark, IndInv, GateInv, Journalled, Stage, Restoring
    <3>2. journals[run.from] \in Journals
      BY <2>1, <3>1, JournalIs
    <3>3. \/ journals' = journals
          \/ journals' = [journals EXCEPT ![run.from] = [journals[run.from] EXCEPT !.fin = TRUE, !.rr = ~run.clean]]
      BY <2>4 DEF Mark, Journal
    <3>4. DOMAIN journals' = DOMAIN journals /\ journals'[j].id = journals[j].id
      <4>1. DOMAIN journals' = DOMAIN journals
        BY <3>3
      <4>2. [journals[run.from] EXCEPT !.fin = TRUE, !.rr = ~run.clean].id = journals[run.from].id
        BY <3>2 DEF Journals
      <4>3. CASE j = run.from
        BY <2>1, <3>1, <3>3, <4>2, <4>3
      <4>4. CASE j # run.from
        BY <2>1, <3>3, <4>4
      <4>. QED
        BY <4>1, <4>3, <4>4
    <3>5. Undone(j)'
      <4>1. CASE j # run.from
        BY <1>6, <2>1, <3>3, <4>1 DEF Undone
      <4>2. CASE j = run.from
        <5>1. ~run.clean
          BY <1>5, <1>6, <3>1, <4>2
        <5>2. journals' = journals \/ journals'[j].rr
          BY <2>1, <3>2, <3>3, <4>2, <5>1 DEF Journals
        <5>3. CASE journals' = journals
          BY <1>6, <5>3 DEF Undone
        <5>4. CASE journals'[j].rr
          BY <5>4 DEF Undone
        <5>. QED
          BY <5>2, <5>3, <5>4
      <4>. QED
        BY <4>1, <4>2
    <3>6. pc' \in {"idle", "scan"}
      BY <2>4 DEF Mark, Refuse, End
    <3>. QED
      BY <2>1, <3>4, <3>5, <3>6 DEF Waiting
  <2>. QED
    BY <2>2, <2>3, <2>4
<1>7. Breaks \subseteq Breaks'
  BY <1>2, <1>6, BreaksKept
<1>. QED
  BY <1>1, <1>2, <1>7, HeldCalm

\* A restore at work, as long as no file moves.
LEMMA HeldWork ==
  ASSUME Held, UNCHANGED <<file, pending, calls, journals, strange, missed, order, manifest, txn>>,
         pc \in {"files", "swap"}, pc' \in {"files", "swap"},
         run'.id = run.id, run'.incl = run.incl, run'.jr = run.jr, run'.got = run.got
  PROVE  Held'
<1>1. Order' = Order /\ Mans' = Mans
  BY BranchSame
<1>2. Waiting' = Waiting
  BY DEF Waiting
<1>3. Breaks' = Breaks
  BY <1>1, <1>2 DEF Breaks, Undone
<1>4. Done' = Done
  BY DEF Done
<1>5. Start' = Start
  BY DEF Start, Place
<1>6. ASSUME NEW p \in Paths PROVE (PutBack(p) => PutBack(p)') /\ (Awaiting(p) => Awaiting(p)')
  <2>1. Line(p)' = Line(p) /\ Sure(p)' = Sure(p) /\ Ends(p)' = Ends(p)
    BY <1>1, CalmSame
  <2>2. Chain(p, Selected)' = Chain(p, Selected)
    BY SameTrail
  <2>3. (Astray(p))' = Astray(p)
    BY DEF Astray
  <2>. QED
    BY <1>3, <1>5, <2>1, <2>2, <2>3 DEF PutBack, Awaiting
<1>. QED
  BY <1>4, <1>6 DEF Held

LEMMA HeldRest ==
  ASSUME IndInv, Held, (\E p \in Paths : Compare(p)) \/ FillUp \/ FreeUp \/ UNCHANGED vars
  PROVE  Held'
<1>1. /\ TypeOK /\ UNCHANGED <<file, pending, calls, journals, strange, missed, order, manifest, txn>>
      /\ pc' = pc \/ (pc = "files" /\ pc' = "swap")
  BY DEF IndInv, Compare, FillUp, FreeUp, vars, disk, memory, work, history
<1>2. CASE pc \in {"files", "swap"}
  <2>1. run \in Runs
    BY <1>2, AtWork DEF Restoring
  <2>2. run'.id = run.id /\ run'.incl = run.incl /\ run'.jr = run.jr /\ run'.got = run.got
    <3>1. CASE run' = run
      BY <3>1
    <3>2. CASE \E p \in Paths : Compare(p)
      BY <2>1, <3>2 DEF Compare, Runs
    <3>. QED
      BY <3>1, <3>2 DEF FillUp, FreeUp, vars, work
  <2>3. pc' \in {"files", "swap"}
    BY <1>1, <1>2
  <2>. QED
    BY <1>1, <1>2, <2>2, <2>3, HeldWork
<1>3. CASE pc \notin {"files", "swap"}
  <2>1. run' = run /\ pc' = pc
    BY <1>3 DEF Compare, FillUp, FreeUp, vars, work
  <2>2. Order' = Order /\ Mans' = Mans
    BY <1>1, BranchSame
  <2>3. Breaks' = Breaks
    BY <1>1, <2>1, <2>2 DEF Breaks, Undone, Waiting
  <2>. QED
    BY <1>1, <1>3, <2>1, <2>2, <2>3, HeldCalm
<1>. QED
  BY <1>2, <1>3

\* Where the turns begin that a restore is to undo.
LEMMA StartIs ==
  ASSUME IndInv, Inside, pc \in {"plan", "files", "swap"}
  PROVE  /\ TypeOK /\ run \in Runs /\ active = NoId /\ run.incl /\ Start \in 1 .. Len(order) /\ order[Start] = run.id
         /\ order \in Seq(Ids) /\ IsInjective(order) /\ Len(order) \in Nat /\ DOMAIN order = 1 .. Len(order)
<1>1. TypeOK /\ run \in Runs /\ active = NoId /\ run.id \in Range(order)
  BY AtWork DEF Restoring
<1>2. run # NoRun
  BY DEF IndInv, GateInv, Stage, Restoring
<1>3. run.incl
  BY <1>2 DEF Inside
<1>4. Start = Place(run.id)
  BY <1>3 DEF Start
<1>5. order \in Seq(Ids) /\ IsInjective(order)
  BY <1>1 DEF TypeOK
<1>. QED
  BY <1>1, <1>3, <1>4, <1>5, PlaceIs, LenProperties

\* A file that the turns to be undone changed.
LEMMA ChainLine ==
  ASSUME IndInv, Inside, txn = NoTxn, pc \in {"plan", "files", "swap"}, NEW p \in Paths
  PROVE  Chain(p, Selected) # << >> <=> \E b \in Start .. Len(order) : Line(p)[b] # << >>
<1>. PICK n : n = Len(order)
  OBVIOUS
<1>. PICK k : k = Start
  OBVIOUS
<1>. PICK D : D = Line(p)
  OBVIOUS
<1>. PICK T : T = [i \in DOMAIN Selected |-> manifest[Selected[i]].ops[p]]
  OBVIOUS
<1>1. /\ TypeOK /\ n \in Nat /\ k \in 1 .. n /\ order \in Seq(Ids) /\ Order = order /\ Mans = manifest
      /\ D \in [1 .. n -> Seq(Changes)] /\ \A a \in 1 .. n : D[a] = manifest[order[a]].ops[p]
  BY StartIs, Lines DEF Order, Mans
<1>2. Selected = SubSeq(order, k, n)
  BY DEF Selected
<1>3. Len(Selected) = (n + 1) - k /\ \A i \in 1 .. (n + 1) - k : Selected[i] = order[(k + i) - 1]
  <2>1. (n + 1) - k = n - k + 1 /\ k <= n + 1 /\ \A i \in Int : (k + i) - 1 = k + i - 1
    BY <1>1
  <2>2. \A i \in k .. n : order[i] \in Ids
    BY <1>1
  <2>3. /\ Len(SubSeq(order, k, n)) = IF k <= n THEN n - k + 1 ELSE 0
        /\ \A i \in 1 .. n - k + 1 : SubSeq(order, k, n)[i] = order[k + i - 1]
    BY <1>1, <2>2, SubSeqProperties
  <2>. QED
    BY <1>1, <1>2, <2>1, <2>3
<1>4. DOMAIN Selected = 1 .. (n + 1) - k
  BY <1>1, <1>2, <1>3
<1>5. \A i \in 1 .. (n + 1) - k : (k + i) - 1 \in 1 .. n
  BY <1>1
<1>6. \A i \in 1 .. (n + 1) - k : T[i] = D[(k + i) - 1]
  <2>. TAKE i \in 1 .. (n + 1) - k
  <2>. PICK h : h = (k + i) - 1
    OBVIOUS
  <2>1. T[i] = manifest[Selected[i]].ops[p]
    BY <1>4
  <2>2. Selected[i] = order[h] /\ h \in 1 .. n
    BY <1>3, <1>5
  <2>. QED
    BY <1>1, <2>1, <2>2
<1>7. T \in [1 .. (n + 1) - k -> Seq(Changes)]
  <2>1. \A i \in 1 .. (n + 1) - k : T[i] \in Seq(Changes)
    <3>. TAKE i \in 1 .. (n + 1) - k
    <3>. PICK j : j = (k + i) - 1
      OBVIOUS
    <3>1. j \in 1 .. n /\ T[i] = D[j]
      BY <1>5, <1>6
    <3>2. D[j] \in Seq(Changes)
      BY <1>1, <3>1
    <3>. QED
      BY <3>1, <3>2
  <2>2. T = [i \in 1 .. (n + 1) - k |-> T[i]]
    BY <1>4
  <2>. QED
    BY <2>1, <2>2
<1>8. Gathers(FlattenSeq(T), D, k, n)
  <2>1. k \in 1 .. n + 1 /\ DOMAIN D = 1 .. n /\ \A a \in 1 .. n : D[a] \in Seq(Changes)
    BY <1>1
  <2>. QED
    BY <1>1, <1>6, <1>7, <2>1, StrungTail
<1>9. FlattenSeq(T) = Chain(p, Selected)
  BY DEF Chain
<1>. QED
  BY <1>8, <1>9 DEF Gathers

\* Where a later turn has changed the file, an earlier one's end is not the file's.
LEMMA TiedEnds ==
  ASSUME NEW D, NEW n \in Nat, DOMAIN D = 1 .. n, NEW m \in 1 .. n, NEW b \in m .. n, D[b] # << >>,
         NEW s \in Int, s <= m, NEW V, V \subseteq 1 .. n, NEW X, NEW Y, Tied(D, s, V, X)
  PROVE  Tied(D, s, V, Y)
<1>1. \A a \in V : a < s => ~Latest(D, a)
  BY DEF Latest
<1>. QED
  BY <1>1 DEF Tied

LEMMA HeldPlan ==
  ASSUME IndInv, Held, Inside, CompletedFirst, Plan
  PROVE  Held'
<1>1. /\ TypeOK /\ pc = "plan" /\ pc' = "files" /\ txn = NoTxn
      /\ UNCHANGED <<file, pending, calls, strange, missed, order, manifest, txn>>
  BY DEF IndInv, Plan, CompletedFirst, memory, history
<1>2. Order' = Order /\ Mans' = Mans
  BY <1>1, BranchSame
<1>3. run \in Runs /\ Start \in 1 .. Len(order) /\ Len(order) \in Nat /\ journals \in Seq(Journals)
  BY <1>1, StartIs DEF TypeOK
<1>. DEFINE got == [p \in Paths |-> IF p \in There THEN file[p] ELSE Never]
<1>4. run'.id = run.id /\ run'.incl = run.incl /\ run'.jr = Len(journals) + 1 /\ run'.got = got
  BY <1>3 DEF Plan, Runs
<1>5. DOMAIN journals' = DOMAIN journals \cup {run'.jr} /\ run'.jr \notin DOMAIN journals
      /\ \A j \in DOMAIN journals : journals'[j] = journals[j]
  <2>. PICK e : e = [id |-> run.id, incl |-> run.incl, ret |-> run.ret, fin |-> FALSE, rr |-> FALSE]
    OBVIOUS
  <2>1. journals' = Append(journals, e)
    BY DEF Plan
  <2>2. e \in Journals
    BY <1>3 DEF Runs, Journals
  <2>. QED
    BY <1>3, <1>4, <2>1, <2>2, Longer
<1>6. Waiting = DOMAIN journals /\ Waiting' = DOMAIN journals
  BY <1>1, <1>5 DEF Waiting
<1>7. Breaks \subseteq Breaks'
  BY <1>2, <1>5, <1>6, BreaksKept DEF Undone
<1>8. Start' = Start
  BY <1>1, <1>4 DEF Start, Place
<1>9. ASSUME NEW p \in Paths PROVE IF p \in Done' THEN PutBack(p)' ELSE Awaiting(p)'
  <2>1. Awaiting(p)
    BY <1>1 DEF Held
  <2>2. Line(p)' = Line(p) /\ Sure(p)' = Sure(p) /\ Ends(p)' = Ends(p) /\ (Astray(p) => Astray(p)')
    BY <1>1, <1>2, CalmSame DEF Astray
  <2>3. CASE p \notin Done'
    BY <1>7, <2>1, <2>2, <2>3 DEF Awaiting
  <2>4. CASE p \in Done'
    <3>1. p \in There
      BY <1>4, <2>4 DEF Done
    <3>2. file'[p] = run'.got[p] /\ Chain(p, Selected) # << >>
      BY <1>1, <1>4, <3>1 DEF There, Fit, Traced
    <3>3. Chain(p, Selected)' # << >>
      BY <1>1, <1>4, <3>2, SameTrail
    <3>4. ASSUME ~Astray(p)
          PROVE  \E s \in {b \in Breaks : b < Start} \cup {Start} : Tied(Line(p), s, Sure(p), Ends(p))
      <4>. PICK s \in Breaks : Tied(Line(p), s, Sure(p), Ends(p))
        BY <2>1, <3>4 DEF Awaiting
      <4>1. s \in Int /\ Start \in Int
        BY <1>1, <1>3, Branches, BreaksAre
      <4>2. CASE s < Start
        BY <4>2
      <4>3. CASE ~(s < Start)
        <5>. PICK D : D = Line(p)
          OBVIOUS
        <5>. PICK V : V = Sure(p)
          OBVIOUS
        <5>1. DOMAIN D \subseteq Int /\ V \subseteq DOMAIN D /\ Start <= s
          BY <1>1, <4>1, <4>3, Branches, Lines
        <5>2. Tied(D, Start, V, Ends(p))
          BY <4>1, <5>1, TiedLess
        <5>. QED
          BY <5>2
      <4>. QED
        BY <4>2, <4>3
    <3>. QED
      BY <1>7, <1>8, <2>2, <2>4, <3>2, <3>3, <3>4 DEF PutBack
  <2>. QED
    BY <2>3, <2>4
<1>. QED
  BY <1>1, <1>9 DEF Held

\* A file is put back: what its line had last goes with the turns to be undone.
LEMMA HeldSwap ==
  ASSUME IndInv, Watched, Held, Inside, Swap
  PROVE  Held'
<1>1. /\ TypeOK /\ pc = "swap" /\ pc' = "files" /\ txn = NoTxn /\ run \in Runs /\ active = NoId
      /\ UNCHANGED <<pending, calls, journals, strange, missed, order, manifest, txn>>
      /\ Start \in 1 .. Len(order) /\ Len(order) \in Nat
  BY StartIs DEF Swap, Inside, disk, memory, history
<1>. DEFINE put(q) == IF Desired(q) = Absent THEN Absent ELSE [data |-> Desired(q).data, ino |-> clock + 1]
<1>. PICK p \in run.cur : /\ file' = [file EXCEPT ![p] = put(p)]
                         /\ run' = [run EXCEPT !.cur = {}, !.got[p] = put(p),
                                      !.jok = @ /\ ~full, !.clean = @ /\ ~full,
                                      !.todo = IF full THEN {} ELSE @]
  BY Zenon DEF Swap
<1>. PICK new : new = put(p)
  OBVIOUS
<1>2. p \in Paths /\ p \notin Done /\ new # Never
  <2>1. p \in Paths /\ Desired(p) \in States
    BY <1>1, DesiredIs
  <2>2. new.data # -1
    <3>1. Desired(p).data \in Nat
      BY <2>1 DEF States, Absent
    <3>. QED
      BY <3>1 DEF Absent
  <2>3. p \notin Done
    BY <1>1 DEF Inside
  <2>. QED
    BY <2>1, <2>2, <2>3 DEF Never, Unsafe
<1>3. /\ run'.id = run.id /\ run'.incl = run.incl /\ run'.jr = run.jr
      /\ run'.got = [run.got EXCEPT ![p] = new] /\ run.got \in [Paths -> States \cup {Never}]
  BY <1>1 DEF Runs
<1>4. run'.got[p] = new /\ \A q \in Paths \ {p} : run'.got[q] = run.got[q]
  BY <1>2, <1>3
<1>5. Done' = Done \cup {p}
  BY <1>2, <1>4 DEF Done
<1>6. file'[p] = new /\ \A q \in Paths \ {p} : file'[q] = file[q]
  BY <1>1, <1>2 DEF TypeOK
<1>7. Order' = Order /\ Mans' = Mans /\ Order = order /\ Mans = manifest
  BY <1>1, BranchSame DEF Order, Mans
<1>8. Waiting' = Waiting
  BY <1>1, <1>3 DEF Waiting
<1>9. Breaks' = Breaks
  BY <1>1, <1>7, <1>8 DEF Breaks, Undone
<1>10. Start' = Start
  BY <1>1, <1>3 DEF Start, Place
<1>11. \A k \in Calls : calls[k] = Idle
  BY <1>1 DEF Watched
<1>12. ASSUME NEW q \in Paths
       PROVE  /\ Line(q)' = Line(q) /\ Sure(q)' = Sure(q) /\ (Astray(q))' = Astray(q)
              /\ Chain(q, Selected)' = Chain(q, Selected)
  <2>1. \A r : Live(r)' <=> Live(r)
    BY <1>1 DEF Live
  <2>2. \A c : Spared(c, q)' <=> Spared(c, q)
    BY <1>1, <1>7, <2>1 DEF Spared
  <2>3. Sure(q)' = Sure(q) /\ Line(q)' = Line(q) /\ (Astray(q))' = Astray(q)
    BY <1>1, <1>7, <2>2 DEF Sure, Line, Astray
  <2>4. Chain(q, Selected)' = Chain(q, Selected)
    BY <1>1, <1>3, SameTrail
  <2>. QED
    BY <2>3, <2>4
<1>13. ASSUME NEW q \in Paths \ {p} PROVE IF q \in Done' THEN PutBack(q)' ELSE Awaiting(q)'
  <2>1. Ends(q)' = Ends(q)
    <3>1. Running(q)' = Running(q)
      BY <1>1 DEF Running
    <3>. QED
      BY <1>6, <3>1 DEF Ends
  <2>2. IF q \in Done THEN PutBack(q) ELSE Awaiting(q)
    BY <1>1 DEF Held
  <2>3. (PutBack(q) => PutBack(q)') /\ (Awaiting(q) => Awaiting(q)')
    BY <1>4, <1>6, <1>9, <1>10, <1>12, <2>1 DEF PutBack, Awaiting
  <2>. QED
    BY <1>5, <2>2, <2>3
<1>14. PutBack(p)'
  <2>1. Awaiting(p) /\ Chain(p, Selected) # << >>
    BY <1>1, <1>2 DEF Held, IndInv, Chained
  <2>2. ASSUME ~Astray(p)
        PROVE  \E s \in {b \in Breaks : b < Start} \cup {Start} : Tied(Line(p), s, Sure(p), Ends(p)')
    <3>. PICK s \in Breaks : Tied(Line(p), s, Sure(p), Ends(p))
      BY <2>1, <2>2 DEF Awaiting
    <3>. PICK D : D = Line(p)
      OBVIOUS
    <3>. PICK V : V = Sure(p)
      OBVIOUS
    <3>. PICK m : m = Start
      OBVIOUS
    <3>. PICK n : n = Len(order)
      OBVIOUS
    <3>. PICK Y : Y = Ends(p)'
      OBVIOUS
    <3>1. n \in Nat /\ m \in 1 .. n /\ DOMAIN D = 1 .. n /\ V \subseteq 1 .. n /\ s \in Int
      BY <1>1, <1>2, <1>7, Branches, BreaksAre, Lines
    <3>2. \E b \in m .. n : D[b] # << >>
      BY <1>1, <1>2, <2>1, ChainLine
    <3>. DEFINE r == IF s < m THEN s ELSE m
    <3>3. r \in Int /\ r <= m /\ r <= s
      BY <3>1
    <3>4. Tied(D, r, V, Ends(p))
      <4>1. DOMAIN D \subseteq Int /\ V \subseteq DOMAIN D
        BY <3>1
      <4>. QED
        BY <3>1, <3>3, <4>1, TiedLess
    <3>5. Tied(D, r, V, Y)
      BY <3>1, <3>2, <3>3, <3>4, TiedEnds
    <3>6. r \in {b \in Breaks : b < m} \cup {m}
      OBVIOUS
    <3>. QED
      BY <3>5, <3>6
  <2>3. Chain(p, Selected)' # << >> /\ Line(p)' = Line(p) /\ Sure(p)' = Sure(p) /\ (Astray(p))' = Astray(p)
    BY <1>2, <1>12, <2>1
  <2>4. file'[p] = run'.got[p]
    BY <1>4, <1>6
  <2>. QED
    BY <1>9, <1>10, <2>2, <2>3, <2>4 DEF PutBack
<1>. QED
  BY <1>1, <1>5, <1>13, <1>14 DEF Held

\* The user's edit makes its file strange and leaves the others alone.
LEMMA HeldEdit ==
  ASSUME IndInv, Held, NEW p \in Paths, UserEdit(p)
  PROVE  Held'
<1>1. /\ UNCHANGED <<pending, calls, journals, missed, order, manifest, txn, pc, run>> /\ strange' = strange \cup {p}
      /\ \A q \in Paths \ {p} : file'[q] = file[q]
  BY DEF UserEdit, disk, memory, work, IndInv, TypeOK
<1>2. Order' = Order /\ Mans' = Mans /\ Breaks' = Breaks /\ Start' = Start /\ Done' = Done
  BY <1>1, BranchSame DEF Breaks, Undone, Waiting, Start, Place, Done
<1>3. Astray(p)'
  BY <1>1 DEF Astray
<1>4. ASSUME NEW q \in Paths \ {p} PROVE (PutBack(q) => PutBack(q)') /\ (Awaiting(q) => Awaiting(q)')
  <2>1. Running(q)' = Running(q)
    BY <1>1 DEF Running
  <2>2. Ends(q)' = Ends(q)
    BY <1>1, <2>1 DEF Ends
  <2>3. \A r : Live(r)' <=> Live(r)
    BY <1>1 DEF Live
  <2>4. \A c : Spared(c, q)' <=> Spared(c, q)
    BY <1>1, <1>2, <2>3 DEF Spared
  <2>5. Sure(q)' = Sure(q) /\ Line(q)' = Line(q) /\ (Astray(q) => Astray(q)')
    BY <1>1, <1>2, <2>4 DEF Sure, Line, Astray
  <2>6. Chain(q, Selected)' = Chain(q, Selected)
    BY <1>1, SameTrail
  <2>7. PutBack(q) => PutBack(q)'
    BY <1>1, <1>2, <2>2, <2>5, <2>6 DEF PutBack
  <2>8. Awaiting(q) => Awaiting(q)'
    BY <1>2, <2>2, <2>5 DEF Awaiting
  <2>. QED
    BY <2>7, <2>8
<1>. QED
  BY <1>1, <1>2, <1>3, <1>4 DEF Held, PutBack, Awaiting

\* The calls of a turn are given up: a tool that had written and not reported leaves
\* a record, and with it no turn of the line is sure.
LEMMA AwaitingEnds ==
  ASSUME TypeOK, NEW p \in Paths, Awaiting(p), Order' = Order, \A c \in Ids : Mans'[c].ops = Mans[c].ops,
         \A k \in Calls : calls'[k] = Idle, UNCHANGED <<file, strange, missed>>, Breaks \subseteq Breaks',
         \A c \in Range(Order) : Spared(c, p)' => Spared(c, p),
         Running(p) = {} \/ (Order # << >> /\ ~Spared(Order[Len(Order)], p)')
  PROVE  Awaiting(p)'
<1>1. /\ Order \in Seq(Ids) /\ \A a \in DOMAIN Order : Order[a] \in Ids
  BY Branches
<1>2. Line(p)' = Line(p)
  BY <1>1 DEF Line
<1>3. Sure(p)' \subseteq Sure(p)
  BY SureLess
<1>4. Running(p)' = {}
  BY DEF Running
<1>5. Sure(p)' = {} \/ Ends(p) \subseteq Ends(p)'
  <2>1. CASE Running(p) = {}
    BY <1>4, <2>1 DEF Ends
  <2>2. CASE Running(p) # {}
    BY <1>1, <2>2, SureNone
  <2>. QED
    BY <2>1, <2>2
<1>. QED
  BY <1>2, <1>3, <1>5, AwaitingSame

\* What a tool at work has recorded is of the turn that is open.
LEMMA RunningIs ==
  ASSUME IndInv, Watched, Between, NEW p, Running(p) # {}
  PROVE  /\ txn = NoTxn /\ active # NoId /\ Order # << >> /\ Order[Len(Order)] = active
         /\ \E r \in pending : r.path = p /\ r.id = active
<1>. PICK r \in Running(p) : TRUE
  OBVIOUS
<1>. PICK k \in Calls : calls[k] # Idle /\ calls[k].call = r.call
  BY DEF Running
<1>1. r \in pending /\ r.path = p /\ r \in Record(k)
  BY DEF Running, Record
<1>2. r.id = active
  BY <1>1 DEF Between
<1>3. active # NoId
  BY DEF Watched
<1>4. txn = NoTxn
  BY <1>3 DEF IndInv, GateInv, TurnsOnlySettled
<1>. QED
  BY <1>1, <1>2, <1>3, <1>4 DEF Between, Order

\* After a kill the restore at work is one that is not done.
LEMMA HeldKill ==
  ASSUME IndInv, Watched, UndoInv, Kill
  PROVE  Held'
<1>1. /\ TypeOK /\ UNCHANGED <<file, pending, journals, strange, missed, order, manifest, txn>>
      /\ pc' = "idle" /\ \A k \in Calls : calls'[k] = Idle
  BY DEF IndInv, Kill, End, disk, history
<1>2. Order' = Order /\ Mans' = Mans
  BY <1>1, BranchSame
<1>3. Waiting' = DOMAIN journals
  BY <1>1 DEF Waiting
<1>4. Breaks \subseteq Breaks'
  BY <1>1, <1>2, <1>3, WaitingIs, BreaksKept DEF Undone
<1>5. \A r : ~Live(r)'
  BY <1>1 DEF Live
<1>6. ASSUME NEW p, NEW c, Spared(c, p)' PROVE Spared(c, p)
  BY <1>1, <1>2, <1>5, <1>6 DEF Spared
<1>7. ASSUME NEW p \in Paths, Awaiting(p) PROVE Awaiting(p)'
  <2>1. Running(p) = {} \/ (Order # << >> /\ ~Spared(Order[Len(Order)], p)')
    <3>1. CASE Running(p) # {}
      <4>1. /\ Order # << >> /\ Order[Len(Order)] = active
            /\ \E r \in pending : r.path = p /\ r.id = active
        BY <3>1, RunningIs DEF UndoInv
      <4>. QED
        BY <1>1, <1>2, <1>5, <4>1 DEF Spared
    <3>. QED
      BY <3>1
  <2>. QED
    BY <1>1, <1>2, <1>4, <1>6, <1>7, <2>1, AwaitingEnds
<1>8. ASSUME NEW p \in Paths, pc \in {"files", "swap"}, PutBack(p) PROVE Awaiting(p)'
  <2>1. CASE Astray(p)
    BY <1>1, <2>1 DEF Awaiting, Astray
  <2>2. CASE ~Astray(p)
    <3>1. Inside /\ Held
      BY DEF UndoInv
    <3>2. /\ Order = order /\ Start \in DOMAIN order /\ order[Start] = run.id /\ active = NoId
      BY <1>8, <3>1, StartIs DEF Order, Inside
    <3>3. run.jr \in DOMAIN journals /\ journals[run.jr].id = run.id /\ ~journals[run.jr].fin
      BY <1>8, <3>1, AtWork DEF Inside, IndInv, GateInv, Journalled, Stage, Restoring
    <3>4. Start \in Breaks'
      BY <1>1, <1>2, <1>3, <3>2, <3>3 DEF Breaks, Undone
    <3>5. \A k \in Calls : calls[k] = Idle
      BY <3>2 DEF Watched
    <3>6. Line(p)' = Line(p) /\ Sure(p)' = Sure(p) /\ Ends(p)' = Ends(p)
      <4>1. calls' = calls
        BY <1>1, <3>5 DEF Kill, TypeOK
      <4>. QED
        BY <1>1, <1>2, <4>1, CalmSame
    <3>. QED
      BY <1>4, <1>8, <2>2, <3>4, <3>6 DEF PutBack, Awaiting
  <2>. QED
    BY <2>1, <2>2
<1>. QED
  BY <1>1, <1>7, <1>8 DEF Held, UndoInv

\* A turn that is closed over its calls warns of their files.
LEMMA SparedFinal ==
  ASSUME TypeOK, NEW c \in Ids, NEW p, txn = NoTxn, txn' = NoTxn, \A k \in Calls : calls'[k] = Idle,
         manifest' = [manifest EXCEPT ![c] = Finalized(c)], pending' = {r \in pending : r.id # c}
  PROVE  /\ \A d \in Ids : Spared(d, p)' => Spared(d, p)
         /\ (\E r \in pending : r.path = p /\ r.id = c) => ~Spared(c, p)'
         /\ \A d \in Ids : Mans'[d].ops = Mans[d].ops
<1>1. manifest \in [Ids -> Manifests] /\ manifest[c] \in Manifests /\ Mans = manifest /\ Mans' = manifest'
  BY DEF TypeOK, Mans
<1>2. /\ Finalized(c).ops = manifest[c].ops
      /\ Finalized(c).warn = manifest[c].warn \cup {r.path : r \in {x \in pending : x.id = c}}
  BY <1>1 DEF Finalized, Manifests
<1>3. manifest'[c] = Finalized(c) /\ \A d \in Ids \ {c} : manifest'[d] = manifest[d]
  BY <1>1
<1>4. \A r : ~Live(r)'
  BY DEF Live
<1>5. ASSUME NEW d \in Ids, Spared(d, p)' PROVE Spared(d, p)
  <2>1. p \notin manifest'[d].warn /\ \A r \in pending' : r.path = p => r.id # d
    BY <1>1, <1>4, <1>5 DEF Spared
  <2>2. CASE d # c
    BY <1>1, <1>3, <2>1, <2>2 DEF Spared
  <2>3. CASE d = c
    <3>1. p \notin manifest[c].warn /\ \A r \in pending : r.id = c => r.path # p
      BY <1>2, <1>3, <2>1, <2>3
    <3>. QED
      BY <1>1, <2>3, <3>1 DEF Spared
  <2>. QED
    BY <2>2, <2>3
<1>6. ASSUME NEW r \in pending, r.path = p, r.id = c PROVE ~Spared(c, p)'
  <2>1. p \in manifest'[c].warn
    BY <1>2, <1>3, <1>6
  <2>. QED
    BY <1>1, <2>1 DEF Spared
<1>7. \A d \in Ids : manifest'[d].ops = manifest[d].ops
  BY <1>2, <1>3
<1>. QED
  BY <1>1, <1>5, <1>6, <1>7

LEMMA HeldFinish ==
  ASSUME IndInv, Watched, UndoInv, Finish
  PROVE  Held'
<1>. PICK c : c = active
  OBVIOUS
<1>1. /\ TypeOK /\ UNCHANGED <<file, journals, strange, missed, order, txn, pc, run>>
      /\ pc = "idle" /\ Held /\ txn = NoTxn /\ c \in Ids /\ \A k \in Calls : calls'[k] = Idle
  <2>1. active # NoId /\ active \in Ids
    BY RangeOfSeq DEF IndInv, TypeOK, Finish, InTurn
  <2>. QED
    BY <2>1 DEF IndInv, TypeOK, Finish, work, history, GateInv, TurnsOnlySettled, UndoInv
<1>2. Order' = Order /\ Order = order /\ Order \in Seq(Ids) /\ Mans = manifest /\ Mans' = manifest'
  BY <1>1, Branches DEF Order, Mans
<1>3. Breaks' = Breaks
  BY <1>1, <1>2 DEF Breaks, Undone, Waiting
<1>4. \A r : ~Live(r)'
  BY <1>1 DEF Live
<1>5. ASSUME NEW p \in Paths
      PROVE  /\ \A d \in Ids : Spared(d, p)' => Spared(d, p)
             /\ (\E r \in pending : r.path = p /\ r.id = c) => ~Spared(c, p)'
             /\ \A d \in Ids : Mans'[d].ops = Mans[d].ops
  <2>1. CASE full
    <3>1. UNCHANGED <<manifest, pending>>
      BY <2>1 DEF Finish
    <3>. QED
      BY <1>2, <1>4, <3>1 DEF Spared
  <2>2. CASE ~full
    <3>1. manifest' = [manifest EXCEPT ![c] = Finalized(c)] /\ pending' = {r \in pending : r.id # c}
      BY <2>2 DEF Finish, Save
    <3>2. txn' = NoTxn
      BY <1>1
    <3>. QED
      BY <1>1, <3>1, <3>2, SparedFinal
  <2>. QED
    BY <2>1, <2>2
<1>6. Range(Order) \subseteq Ids
  BY <1>1, Branches
<1>7. ASSUME NEW p \in Paths PROVE Awaiting(p)'
  <2>1. Awaiting(p)
    <3>1. pc = "idle" /\ Held
      BY <1>1
    <3>. QED
      BY <3>1, <1>7 DEF Held
  <2>2. Running(p) = {} \/ (Order # << >> /\ ~Spared(Order[Len(Order)], p)')
    <3>1. CASE Running(p) # {}
      <4>1. /\ Order # << >> /\ Order[Len(Order)] = c
            /\ \E r \in pending : r.path = p /\ r.id = c
        BY <3>1, RunningIs DEF UndoInv
      <4>. QED
        BY <1>2, <1>5, <4>1
    <3>. QED
      BY <3>1
  <2>. QED
    BY <1>1, <1>2, <1>3, <1>5, <1>6, <2>1, <2>2, AwaitingEnds
<1>. QED
  BY <1>1, <1>7 DEF Held

LEMMA HeldCloseTurn ==
  ASSUME IndInv, Watched, UndoInv, CompletedFirst, CloseTurn
  PROVE  Held'
<1>1. /\ TypeOK /\ UNCHANGED <<file, journals, strange, missed, order, txn, pc, run, calls>>
      /\ pc \in {"plan", "go"} /\ txn = NoTxn /\ active = NoId /\ Held
  BY DEF IndInv, TypeOK, CloseTurn, CompletedFirst, memory, work, history, UndoInv
<1>. PICK c \in Unfinished : manifest' = [manifest EXCEPT ![c] = Finalized(c)] /\ pending' = {r \in pending : r.id # c}
  BY DEF CloseTurn, Save
<1>2. c \in Ids
  BY <1>1, UnfinishedIs
<1>3. \A k \in Calls : calls'[k] = Idle /\ calls[k] = Idle
  BY <1>1 DEF Watched
<1>4. Order' = Order /\ Breaks' = Breaks /\ Range(Order) \subseteq Ids
  BY <1>1, Branches DEF Order, Breaks, Undone, Waiting
<1>5. ASSUME NEW p \in Paths PROVE Awaiting(p)'
  <2>1. Awaiting(p) /\ Running(p) = {}
    BY <1>1, <1>3, EndsIdle DEF Held, Running
  <2>2. txn' = NoTxn
    BY <1>1
  <2>3. /\ \A d \in Ids : Spared(d, p)' => Spared(d, p)
        /\ \A d \in Ids : Mans'[d].ops = Mans[d].ops
    BY <1>1, <1>2, <1>3, <2>2, SparedFinal
  <2>. QED
    BY <1>1, <1>3, <1>4, <2>1, <2>3, AwaitingEnds
<1>. QED
  BY <1>1, <1>5 DEF Held

\* The branch before and from the turn a restore begins with.
LEMMA Parts ==
  ASSUME IndInv, Inside, pc \in {"plan", "files", "swap"}
  PROVE  /\ Earlier \in Seq(Ids) /\ Len(Earlier) = Start - 1 /\ DOMAIN Earlier = 1 .. Start - 1
         /\ \A a \in 1 .. Start - 1 : Earlier[a] = order[a]
         /\ \A a \in 1 .. Len(order) : /\ order[a] \in Range(Earlier) <=> a < Start
                                       /\ order[a] \in Range(Selected) <=> Start <= a
                                       /\ Place(order[a]) = a /\ order[a] \in Ids
         /\ \A c \in Range(Earlier) : \E a \in 1 .. Start - 1 : c = order[a]
         /\ \A c \in Range(Selected) : \E a \in Start .. Len(order) : c = order[a]
<1>. PICK n : n = Len(order)
  OBVIOUS
<1>. PICK m : m = Start
  OBVIOUS
<1>. PICK e : e = Earlier
  OBVIOUS
<1>. PICK f : f = Selected
  OBVIOUS
<1>1. n \in Nat /\ m \in 1 .. n /\ order \in Seq(Ids) /\ IsInjective(order) /\ DOMAIN order = 1 .. n
  BY StartIs
<1>2. (\A i \in 1 .. m - 1 : order[i] \in Ids) /\ (\A i \in m .. n : order[i] \in Ids) /\ m - 1 \in Int
  BY <1>1
<1>3. /\ e \in Seq(Ids) /\ Len(e) = (IF 1 <= m - 1 THEN m - 1 - 1 + 1 ELSE 0)
      /\ \A i \in 1 .. m - 1 - 1 + 1 : e[i] = order[1 + i - 1]
  <2>1. e = SubSeq(order, 1, m - 1)
    BY DEF Earlier
  <2>. QED
    BY <1>2, <2>1, SubSeqProperties
<1>4. Len(e) = m - 1 /\ DOMAIN e = 1 .. m - 1 /\ \A a \in 1 .. m - 1 : e[a] = order[a]
  <2>1. (IF 1 <= m - 1 THEN m - 1 - 1 + 1 ELSE 0) = m - 1 /\ m - 1 - 1 + 1 = m - 1 /\ \A a \in Int : 1 + a - 1 = a
    BY <1>1
  <2>2. Len(e) = m - 1 /\ \A a \in 1 .. m - 1 : e[a] = order[a]
    BY <1>3, <2>1
  <2>. QED
    BY <1>3, <2>2, LenProperties
<1>5. /\ f \in Seq(Ids) /\ Len(f) = (IF m <= n THEN n - m + 1 ELSE 0)
      /\ \A i \in 1 .. n - m + 1 : f[i] = order[m + i - 1]
  <2>1. f = SubSeq(order, m, n)
    BY DEF Selected
  <2>2. m \in Int /\ n \in Int
    BY <1>1
  <2>. QED
    BY <1>2, <2>1, <2>2, SubSeqProperties
<1>6. DOMAIN f = 1 .. n - m + 1
  BY <1>1, <1>5, LenProperties
<1>7. \A c \in Range(e) : \E a \in 1 .. m - 1 : c = order[a]
  BY <1>4 DEF Range
<1>8. ASSUME NEW c \in Range(f) PROVE \E a \in m .. n : c = order[a]
  <2>. PICK i \in DOMAIN f : f[i] = c
    BY <1>8 DEF Range
  <2>. PICK a : a = m + i - 1
    OBVIOUS
  <2>1. i \in 1 .. n - m + 1 /\ f[i] = order[a]
    BY <1>5, <1>6
  <2>2. a \in m .. n
    BY <1>1, <2>1
  <2>. QED
    BY <2>1, <2>2
<1>9. ASSUME NEW a \in 1 .. n
      PROVE  /\ order[a] \in Range(e) <=> a < m
             /\ order[a] \in Range(f) <=> m <= a
             /\ Place(order[a]) = a /\ order[a] \in Ids
  <2>1. \A b \in 1 .. n : order[b] = order[a] => b = a
    BY <1>1, <1>9 DEF IsInjective
  <2>2. order[a] \in Range(e) => a < m
    <3>1. \A b \in 1 .. m - 1 : b \in 1 .. n /\ b < m
      BY <1>1
    <3>. QED
      BY <1>7, <2>1, <3>1
  <2>3. a < m => order[a] \in Range(e)
    <3>1. a < m => a \in 1 .. m - 1
      BY <1>1, <1>9
    <3>. QED
      BY <1>4, <3>1 DEF Range
  <2>4. order[a] \in Range(f) => m <= a
    <3>1. \A b \in m .. n : b \in 1 .. n /\ m <= b
      BY <1>1
    <3>. QED
      BY <1>8, <2>1, <3>1
  <2>5. m <= a => order[a] \in Range(f)
    <3>. PICK i : i = a - m + 1
      OBVIOUS
    <3>1. m <= a => i \in 1 .. n - m + 1 /\ m + i - 1 = a
      BY <1>1, <1>9
    <3>. QED
      BY <1>5, <1>6, <3>1 DEF Range
  <2>6. Place(order[a]) = a
    BY <1>1, <1>9, <2>1 DEF Place
  <2>. QED
    BY <1>1, <1>9, <2>2, <2>3, <2>4, <2>5, <2>6
<1>. QED
  BY <1>3, <1>4, <1>7, <1>8, <1>9

\* What a restore makes of a turn of a line.
LEMMA RestoredOps ==
  ASSUME IndInv, Inside, pc = "files", txn = NoTxn, NEW p \in Paths, NEW a \in 1 .. Len(order)
  PROVE  /\ a < Start => /\ Restored(order[a]).warn = manifest[order[a]].warn
                         /\ Restored(order[a]).ops[p] =
                              IF p \in Kept /\ Line(p)[a] # << >>
                                 /\ (\A d \in 1 .. Start - 1 : a < d => Line(p)[d] = << >>)
                              THEN [Line(p)[a] EXCEPT ![Len(Line(p)[a])].after = file[p]] ELSE Line(p)[a]
         /\ Start <= a => /\ ~Clean => Restored(order[a]).warn = manifest[order[a]].warn
                          /\ Clean \/ p \in Kept => Restored(order[a]).ops[p] = << >>
                          /\ ~Clean /\ p \notin Kept => Restored(order[a]).ops[p] = Line(p)[a]
<1>. PICK D : D = Line(p)
  OBVIOUS
<1>. PICK c : c = order[a]
  OBVIOUS
<1>1. /\ TypeOK /\ Len(order) \in Nat /\ Start \in 1 .. Len(order) /\ manifest \in [Ids -> Manifests]
      /\ \A b \in 1 .. Len(order) : D[b] = manifest[order[b]].ops[p]
  BY StartIs, Lines DEF TypeOK, Order, Mans
<1>2. c \in Ids /\ (c \in Range(Earlier) <=> a < Start) /\ (c \in Range(Selected) <=> Start <= a) /\ Place(c) = a
  BY Parts
<1>3. manifest[c] \in Manifests /\ manifest[c].ops[p] = D[a]
  BY <1>1, <1>2
<1>4. CASE a < Start
  <2>1. Restored(c) = Rebased(c, Kept)
    BY <1>2, <1>4 DEF Restored
  <2>2. /\ Restored(c).warn = manifest[c].warn
        /\ Restored(c).ops[p] = IF p \in Kept /\ c \in LastTouch(p)
                                THEN [D[a] EXCEPT ![Len(D[a])].after = file[p]] ELSE D[a]
    <3>1. /\ Rebased(c, Kept).warn = manifest[c].warn
          /\ Rebased(c, Kept).ops = [q \in Paths |->
               IF q \in Kept /\ c \in LastTouch(q)
               THEN [manifest[c].ops[q] EXCEPT ![Len(manifest[c].ops[q])].after = file[q]] ELSE manifest[c].ops[q]]
      BY <1>3 DEF Rebased, Manifests
    <3>2. Rebased(c, Kept).ops[p] = IF p \in Kept /\ c \in LastTouch(p)
                                    THEN [manifest[c].ops[p] EXCEPT ![Len(manifest[c].ops[p])].after = file[p]]
                                    ELSE manifest[c].ops[p]
      BY <3>1
    <3>3. manifest[c].ops[p] = D[a]
      BY <1>3
    <3>. QED
      BY <2>1, <3>1, <3>2, <3>3
  <2>3. c \in LastTouch(p) <=> D[a] # << >> /\ \A d \in 1 .. Start - 1 : a < d => D[d] = << >>
    <3>1. \A d \in 1 .. Start - 1 : /\ d \in 1 .. Len(order) /\ order[d] \in Range(Earlier) /\ Place(order[d]) = d
                                    /\ D[d] = manifest[order[d]].ops[p]
      <4>1. \A d \in 1 .. Start - 1 : d \in 1 .. Len(order) /\ d < Start
        BY <1>1
      <4>. QED
        BY <1>1, <4>1, Parts
    <3>2. \A d \in Range(Earlier) : \E b \in 1 .. Start - 1 : d = order[b]
      BY Parts
    <3>3. c \in LastTouch(p) => \A d \in 1 .. Start - 1 : a < d => D[d] = << >>
      <4>1. ASSUME c \in LastTouch(p), NEW d \in 1 .. Start - 1, a < d, D[d] # << >> PROVE FALSE
        <5>1. Place(order[d]) <= Place(c)
          BY <3>1, <4>1 DEF LastTouch
        <5>2. d <= a
          BY <1>2, <3>1, <5>1
        <5>. QED
          BY <1>1, <4>1, <5>2
      <4>. QED
        BY <4>1
    <3>4. (\A d \in 1 .. Start - 1 : a < d => D[d] = << >>) /\ D[a] # << >> => c \in LastTouch(p)
      <4>1. ASSUME \A d \in 1 .. Start - 1 : a < d => D[d] = << >>, D[a] # << >>, NEW d \in Range(Earlier),
                   manifest[d].ops[p] # << >> PROVE Place(d) <= Place(c)
        <5>. PICK b \in 1 .. Start - 1 : d = order[b]
          BY <3>2
        <5>1. ~(a < b)
          BY <3>1, <4>1
        <5>2. b <= a
          BY <1>1, <5>1
        <5>. QED
          BY <1>2, <3>1, <5>2
      <4>. QED
        BY <1>2, <1>3, <1>4, <4>1 DEF LastTouch
    <3>. QED
      BY <1>3, <3>3, <3>4 DEF LastTouch
  <2>. QED
    BY <1>1, <1>4, <2>2, <2>3
<1>5. CASE Start <= a
  <2>1. c \notin Range(Earlier) /\ c \in Range(Selected)
    BY <1>1, <1>2, <1>5
  <2>2. CASE Clean
    BY <2>1, <2>2, <1>1, <1>5 DEF Restored, Blank, NoOps
  <2>3. CASE ~Clean
    <3>1. Restored(c) = [manifest[c] EXCEPT !.ops = [q \in Paths |-> IF q \in Kept THEN << >> ELSE @[q]]]
      BY <2>1, <2>3 DEF Restored
    <3>2. /\ Restored(c).warn = manifest[c].warn
          /\ Restored(c).ops = [q \in Paths |-> IF q \in Kept THEN << >> ELSE manifest[c].ops[q]]
      BY <1>3, <3>1 DEF Manifests
    <3>. QED
      BY <1>1, <1>3, <1>5, <2>3, <3>2
  <2>. QED
    BY <2>2, <2>3
<1>. QED
  BY <1>1, <1>4, <1>5

\* A restore that could not write what it did is one that is not done.
LEMMA HeldCommitFull ==
  ASSUME IndInv, Held, Inside, Commit, full
  PROVE  Held'
<1>1. /\ TypeOK /\ UNCHANGED <<file, pending, calls, journals, strange, missed, order, manifest, txn>>
      /\ pc = "files" /\ pc' = "close" /\ run \in Runs /\ run' = [run EXCEPT !.clean = FALSE, !.rr = TRUE] /\ txn = NoTxn
  BY StartIs DEF Commit, Inside
<1>2. Order' = Order /\ Mans' = Mans /\ Order = order
  BY <1>1, BranchSame DEF Order
<1>3. ~run'.clean /\ run'.rr
  BY <1>1 DEF Runs
<1>4. Waiting' = DOMAIN journals
  BY <1>1, <1>3 DEF Waiting
<1>5. Breaks \subseteq Breaks'
  BY <1>1, <1>2, <1>4, WaitingIs, BreaksKept DEF Undone
<1>6. Start \in DOMAIN order /\ order[Start] = run.id
  BY <1>1, StartIs
<1>7. run.jr \in DOMAIN journals /\ journals[run.jr].id = run.id /\ ~journals[run.jr].fin
  BY <1>1, AtWork DEF Inside, IndInv, GateInv, Journalled, Stage, Restoring
<1>8. Start \in Breaks'
  BY <1>1, <1>2, <1>4, <1>6, <1>7 DEF Breaks, Undone
<1>9. ASSUME NEW p \in Paths PROVE Awaiting(p)'
  <2>1. Line(p)' = Line(p) /\ Sure(p)' = Sure(p) /\ Ends(p)' = Ends(p) /\ (Astray(p) => Astray(p)')
    BY <1>1, <1>2, CalmSame DEF Astray
  <2>2. PutBack(p) \/ Awaiting(p)
    BY DEF Held
  <2>. QED
    BY <1>5, <1>8, <2>1, <2>2 DEF PutBack, Awaiting
<1>. QED
  BY <1>1, <1>9 DEF Held

\* What the branch update of a restore will make of the branch.
LEMMA CommitIs ==
  ASSUME IndInv, Watched, UndoInv, Commit, ~full
  PROVE  /\ TypeOK /\ pc = "files" /\ pc' = "apply" /\ txn = NoTxn /\ txn' # NoTxn /\ run' # NoRun
         /\ run \in Runs /\ run.todo = {} /\ run.cur = {} /\ run'.clean = Clean /\ ~run'.rr /\ run'.jr = run.jr /\ run'.id = run.id
         /\ UNCHANGED <<file, pending, calls, journals, strange, missed>>
         /\ (\A k \in Calls : calls[k] = Idle)
         /\ Order = order /\ Mans = manifest /\ Mans' = [c \in Ids |-> Restored(c)]
         /\ Order' = IF Clean /\ ~run.ret THEN Earlier ELSE order
<1>1. Inside /\ pc = "files" /\ txn = NoTxn /\ pc' = "apply" /\ run.todo = {} /\ run.cur = {} /\ ~run.rr
  BY DEF UndoInv, Inside, Commit
<1>2. TypeOK /\ run \in Runs /\ active = NoId
  BY <1>1, StartIs
<1>3. /\ txn' = [order |-> IF Clean /\ ~run.ret THEN Earlier ELSE order, manifest |-> [c \in Ids |-> Restored(c)]]
      /\ run' = [run EXCEPT !.clean = Clean]
  BY DEF Commit
<1>4. run'.clean = Clean /\ run'.rr = run.rr /\ run'.jr = run.jr /\ run'.id = run.id
  BY <1>2, <1>3 DEF Runs
<1>5. run.id \in Ids
  BY <1>2 DEF Runs
<1>6. run' # NoRun
  <2>1. run'.id \in Ids
    BY <1>4, <1>5
  <2>. QED
    BY <2>1, CheckpointAssumption DEF NoRun
<1>7. txn' # NoTxn
  <2>1. DOMAIN txn'.manifest = Ids /\ DOMAIN NoTxn.manifest = {}
    BY <1>3 DEF NoTxn
  <2>. QED
    BY <1>5, <2>1
<1>8. Order = order /\ Mans = manifest
  BY <1>1 DEF Order, Mans
<1>9. Order' = (IF Clean /\ ~run.ret THEN Earlier ELSE order) /\ Mans' = [c \in Ids |-> Restored(c)]
  BY <1>3, <1>7 DEF Order, Mans
<1>10. \A k \in Calls : calls[k] = Idle
  BY <1>2 DEF Watched
<1>11. UNCHANGED <<file, pending, calls, journals, strange, missed>>
  BY DEF Commit
<1>. QED
  BY <1>1, <1>2, <1>4, <1>6, <1>7, <1>8, <1>9, <1>10, <1>11

LEMMA CommitBreaks ==
  ASSUME IndInv, Watched, UndoInv, Commit, ~full
  PROVE  /\ \A s \in Breaks : s < Start \/ ~Clean => s \in Breaks'
         /\ Len(Order') + 1 \in Breaks'
         /\ Len(Order') \in Nat /\ Len(Order') <= Len(order) /\ Start - 1 <= Len(Order') /\ DOMAIN Order' = 1 .. Len(Order')
         /\ (~(Clean /\ ~run.ret) => Order' = order)
         /\ \A a \in 1 .. Len(Order') : Order'[a] = order[a]
<1>. PICK m : m = Start
  OBVIOUS
<1>1. Inside /\ pc = "files" /\ m \in 1 .. Len(order) /\ Len(order) \in Nat /\ DOMAIN order = 1 .. Len(order)
      /\ order[m] = run.id /\ IsInjective(order)
  BY CommitIs, StartIs DEF UndoInv
<1>2. Order' = IF Clean /\ ~run.ret THEN Earlier ELSE order
  BY CommitIs
<1>3. /\ Len(Order') \in Nat /\ Len(Order') <= Len(order) /\ m - 1 <= Len(Order') /\ DOMAIN Order' = 1 .. Len(Order')
      /\ \A a \in 1 .. Len(Order') : Order'[a] = order[a]
  <2>1. CASE Clean /\ ~run.ret
    <3>1. Order' = Earlier /\ Len(Earlier) = m - 1 /\ DOMAIN Earlier = 1 .. m - 1
          /\ \A a \in 1 .. m - 1 : Earlier[a] = order[a]
      BY <1>1, <1>2, <2>1, Parts
    <3>. QED
      BY <1>1, <3>1
  <2>2. CASE ~(Clean /\ ~run.ret)
    BY <1>1, <1>2, <2>2
  <2>. QED
    BY <2>1, <2>2
<1>4. Len(Order') + 1 \in Breaks'
  BY DEF Breaks
<1>5. /\ Order = order /\ Waiting = DOMAIN journals \ {run.jr}
      /\ Waiting' = IF Clean THEN {j \in DOMAIN journals : journals[j].id # run.id} ELSE DOMAIN journals \ {run.jr}
  BY CommitIs DEF Waiting
<1>6. ASSUME NEW s \in Breaks, s < m \/ ~Clean PROVE s \in Breaks'
  <2>1. CASE s = Len(order) + 1
    <3>1. ~Clean
      BY <1>1, <1>6, <2>1
    <3>. QED
      BY <1>2, <1>4, <2>1, <3>1
  <2>2. CASE s # Len(order) + 1
    <3>. PICK j \in Waiting : s \in DOMAIN order /\ Undone(j) /\ journals[j].id = order[s]
      BY <1>5, <2>2 DEF Breaks
    <3>1. j \in Waiting'
      <4>1. CASE Clean
        <5>1. s < m /\ s \in 1 .. Len(order)
          BY <1>1, <1>6, <4>1
        <5>2. order[s] # order[m]
          BY <1>1, <5>1 DEF IsInjective
        <5>. QED
          BY <1>1, <1>5, <4>1, <5>2
      <4>2. CASE ~Clean
        BY <1>5, <4>2
      <4>. QED
        BY <4>1, <4>2
    <3>2. s \in DOMAIN Order' /\ Order'[s] = order[s]
      <4>1. CASE Clean
        BY <1>1, <1>3, <1>6, <4>1
      <4>2. CASE ~Clean
        BY <1>2, <4>2
      <4>. QED
        BY <4>1, <4>2
    <3>3. Undone(j)' /\ journals'[j].id = Order'[s]
      BY <3>2, CommitIs DEF Undone
    <3>. QED
      BY <3>1, <3>2, <3>3 DEF Breaks
  <2>. QED
    BY <2>1, <2>2
<1>. QED
  BY <1>2, <1>3, <1>4, <1>6

\* What was selected without a warning is spared as it was.
LEMMA CommitSure ==
  ASSUME IndInv, Watched, UndoInv, Commit, ~full, NEW p \in Paths
  PROVE  Sure(p)' \subseteq 1 .. Len(Order') /\ Sure(p)' \subseteq Sure(p)
<1>. PICK m : m = Start
  OBVIOUS
<1>. PICK n : n = Len(order)
  OBVIOUS
<1>. PICK o : o = order
  OBVIOUS
<1>. PICK e : e = Len(Order')
  OBVIOUS
<1>1. Inside /\ OpenRecords /\ pc = "files" /\ txn = NoTxn /\ m \in 1 .. n /\ n \in Nat
      /\ DOMAIN order = 1 .. n /\ Order = order /\ Mans = manifest
      /\ UNCHANGED <<pending, calls>> /\ \A k \in Calls : calls[k] = Idle
  BY CommitIs, StartIs DEF UndoInv
<1>2. /\ e \in Nat /\ e <= n /\ m - 1 <= e /\ DOMAIN Order' = 1 .. e /\ \A a \in 1 .. e : Order'[a] = order[a]
      /\ ~Clean => Order' = order
  BY CommitBreaks
<1>3. \A r : ~Live(r) /\ ~Live(r)'
  BY <1>1 DEF Live
<1>4. \A a \in 1 .. n : order[a] \in Ids /\ Mans'[order[a]] = Restored(order[a])
  BY <1>1, CommitIs, Parts
<1>5. ASSUME NEW b \in 1 .. n, b <= e => Spared(o[b], p)' PROVE Spared(order[b], p)
  <2>1. CASE b < m \/ ~Clean
    <3>1. b <= e
      <4>1. CASE ~Clean
        BY <1>1, <1>2, <4>1
      <4>2. CASE b < m
        BY <1>1, <1>2, <4>2
      <4>. QED
        BY <2>1, <4>1, <4>2
    <3>2. p \notin Mans'[o[b]].warn /\ \A r \in pending' : r.path = p => r.id # o[b]
      BY <1>3, <1>5, <3>1 DEF Spared
    <3>3. Restored(order[b]).warn = manifest[order[b]].warn
      <4>1. b \in 1 .. Len(order) /\ (b < Start \/ Start <= b)
        BY <1>1
      <4>. QED
        BY <1>1, <2>1, <4>1, RestoredOps
    <3>. QED
      BY <1>1, <1>4, <3>2, <3>3 DEF Spared
  <2>2. CASE m <= b /\ Clean
    <3>1. order[b] \in Range(Selected) /\ order[b] \in Range(order)
      BY <1>1, <2>2, Parts DEF Range
    <3>2. run.clean
      BY <2>2 DEF Clean
    <3>3. p \notin manifest[order[b]].warn
      BY <1>1, <3>1, <3>2 DEF Inside, Warned
    <3>4. manifest[order[b]].st # "open"
      BY <1>1, <3>1 DEF Inside
    <3>5. \A r \in pending : r.id # order[b]
      BY <1>1, <3>1, <3>4 DEF OpenRecords
    <3>. QED
      BY <1>1, <3>3, <3>5 DEF Spared
  <2>. QED
    BY <1>1, <2>1, <2>2
<1>6. ASSUME NEW a \in Sure(p)' PROVE a \in 1 .. e /\ a \in Sure(p)
  <2>1. a \in 1 .. e /\ \A b \in 1 .. e : a <= b => Spared(Order[b], p)'
    BY <1>2, <1>6 DEF Sure
  <2>2. a \in 1 .. n
    BY <1>1, <1>2, <2>1
  <2>3. ASSUME NEW b \in 1 .. n, a <= b PROVE Spared(order[b], p)
    <3>1. b <= e => Spared(o[b], p)'
      <4>1. ASSUME b <= e PROVE Spared(Order[b], p)' /\ Order'[b] = o[b]
        <5>1. b \in 1 .. e
          BY <1>2, <2>3, <4>1
        <5>. QED
          BY <1>2, <2>1, <2>3, <5>1
      <4>. QED
        BY <4>1
    <3>. QED
      BY <1>5, <3>1
  <2>. QED
    BY <1>1, <2>1, <2>2, <2>3 DEF Sure
<1>. QED
  BY <1>6

\* A restore is over: the files put back are tied up to where it began.
LEMMA HeldCommit ==
  ASSUME IndInv, Watched, UndoInv, Commit
  PROVE  Held'
<1>1. CASE full
  BY <1>1, HeldCommitFull DEF UndoInv
<1>2. ASSUME ~full, NEW p \in Paths PROVE Awaiting(p)'
  <2>. PICK m : m = Start
    OBVIOUS
  <2>. PICK n : n = Len(order)
    OBVIOUS
  <2>. PICK e : e = Len(Order')
    OBVIOUS
  <2>. PICK D : D = Line(p)
    OBVIOUS
  <2>. PICK E : E = Line(p)'
    OBVIOUS
  <2>. PICK V : V = Sure(p)
    OBVIOUS
  <2>. PICK W : W = Sure(p)'
    OBVIOUS
  <2>. PICK x : x = file[p]
    OBVIOUS
  <2>1. /\ TypeOK /\ Inside /\ Held /\ pc = "files" /\ txn = NoTxn /\ Order = order /\ UNCHANGED <<file, pending, calls, strange, missed>>
        /\ Mans' = [c \in Ids |-> Restored(c)] /\ n \in Nat /\ m \in 1 .. n
        /\ \A k \in Calls : calls[k] = Idle
    BY <1>2, CommitIs, StartIs DEF UndoInv
  <2>2. /\ e \in Nat /\ e <= n /\ m - 1 <= e /\ DOMAIN Order' = 1 .. e /\ \A a \in 1 .. e : Order'[a] = order[a]
        /\ ~Clean => Order' = order
    BY <1>2, CommitBreaks
  <2>3. e + 1 \in Breaks' /\ \A s \in Breaks : s < m \/ ~Clean => s \in Breaks'
    BY <1>2, CommitBreaks
  <2>4. W \subseteq 1 .. e /\ W \subseteq V
    BY <1>2, CommitSure
  <2>5. Ends(p) = {x} /\ Ends(p)' = {x} /\ x \in States
    <3>1. Ends(p) = {x} /\ x \in States
      BY <1>2, <2>1, EndsIdle DEF TypeOK
    <3>2. Ends(p)' = Ends(p)
      BY <2>1 DEF Ends, Running
    <3>. QED
      BY <3>1, <3>2
  <2>6. D \in [1 .. n -> Seq(Changes)] /\ V \subseteq 1 .. n
    BY <1>2, <2>1, Lines
  <2>7. DOMAIN E = 1 .. e /\ \A a \in 1 .. e : E[a] = Restored(order[a]).ops[p]
    <3>1. \A a \in 1 .. e : order[a] \in Ids
      <4>1. \A a \in 1 .. e : a \in 1 .. Len(order)
        BY <2>1, <2>2
      <4>. QED
        BY <2>1, <4>1, Parts
    <3>. QED
      BY <2>1, <2>2, <3>1 DEF Line
  <2>8. \A a \in 1 .. m - 1 : E[a] = IF p \in Kept /\ D[a] # << >> /\ \A d \in 1 .. m - 1 : a < d => D[d] = << >>
                                     THEN [D[a] EXCEPT ![Len(D[a])].after = x] ELSE D[a]
    <3>. TAKE a \in 1 .. m - 1
    <3>1. a \in 1 .. Len(order) /\ a < Start /\ a \in 1 .. e
      BY <2>1, <2>2
    <3>. QED
      BY <1>2, <2>1, <2>7, <3>1, RestoredOps
  <2>9. \A a \in m .. e : /\ Clean \/ p \in Kept => E[a] = << >>
                          /\ ~Clean /\ p \notin Kept => E[a] = D[a]
    <3>. TAKE a \in m .. e
    <3>1. a \in 1 .. Len(order) /\ Start <= a /\ a \in 1 .. e
      BY <2>1, <2>2
    <3>. QED
      BY <1>2, <2>1, <2>7, <3>1, RestoredOps
  <2>10. CASE Astray(p)
    BY <2>1, <2>10 DEF Awaiting, Astray
  <2>11. CASE p \in Kept /\ ~Astray(p)
    <3>. PICK s \in {b \in Breaks : b < m} \cup {m} : Tied(D, s, V, {x})
      BY <1>2, <2>1, <2>5, <2>11 DEF Held, Kept, PutBack
    <3>1. s \in 1 .. m
      BY <1>2, <2>1, BreaksAre, Branches
    <3>. DEFINE r == IF s = m THEN e + 1 ELSE s
    <3>2. r \in Int /\ (r = s \/ (s = m /\ r = e + 1)) /\ r \in Breaks'
      BY <2>1, <2>2, <2>3, <3>1
    <3>3. Tied(E, r, W, {x})
      <4>1. DOMAIN D = 1 .. n /\ (\A a \in 1 .. n : D[a] \in Seq(Changes)) /\ m \in 1 .. n + 1
        BY <2>1, <2>6
      <4>2. Relast(D, E, m, x)
        BY <2>8, <2>11 DEF Relast, Retouch
      <4>3. \A a \in m .. e : E[a] = << >>
        BY <2>9, <2>11
      <4>4. \A a \in W : a < m => a \in V
        BY <2>4
      <4>. HIDE DEF r
      <4>5. n \in Nat /\ e \in Nat /\ e <= n /\ m - 1 <= e /\ DOMAIN E = 1 .. e /\ x \in States /\ W \subseteq 1 .. e
        BY <2>1, <2>2, <2>4, <2>5, <2>7
      <4>6. Tied(D, s, V, {x}) /\ s \in 1 .. m /\ r \in Int /\ (r = s \/ (s = m /\ r = e + 1))
        BY <3>1, <3>2
      <4>7. Cutting(D, E, n, m, e, V, W, s, r)
        BY <4>1, <4>3, <4>4, <4>5, <4>6 DEF Cutting
      <4>. QED
        BY ONLY <4>1, <4>2, <4>5, <4>6, <4>7, TiedCut
    <3>. QED
      BY <2>5, <3>2, <3>3 DEF Awaiting
  <2>12. ASSUME p \notin Kept, ~Astray(p) PROVE Awaiting(p) /\ p \notin Done
    BY <1>2, <2>1, <2>12 DEF Held, PutBack, Kept
  <2>13. CASE p \notin Kept /\ ~Astray(p) /\ ~Clean
    <3>1. e = n /\ E = D
      <4>1. e = n /\ DOMAIN E = 1 .. n /\ DOMAIN D = 1 .. n
        BY <2>2, <2>6, <2>7, <2>13
      <4>2. \A a \in 1 .. n : E[a] = D[a]
        <5>1. \A a \in 1 .. n : a \in 1 .. m - 1 \/ a \in m .. e
          BY <2>1, <4>1
        <5>. QED
          BY <2>8, <2>9, <2>13, <5>1
      <4>3. E = [a \in 1 .. n |-> E[a]]
        BY <4>1 DEF Line
      <4>4. D = [a \in 1 .. n |-> D[a]]
        BY <2>6
      <4>5. [a \in 1 .. n |-> E[a]] = [a \in 1 .. n |-> D[a]]
        BY <4>2
      <4>. QED
        BY <4>1, <4>3, <4>4, <4>5
    <3>2. Breaks \subseteq Breaks'
      BY <2>3, <2>13
    <3>. QED
      BY <1>2, <2>1, <2>4, <2>5, <2>12, <2>13, <3>1, <3>2, AwaitingSame
  <2>14. CASE p \notin Kept /\ ~Astray(p) /\ Clean
    <3>. PICK s \in Breaks : Tied(D, s, V, {x})
      BY <2>5, <2>12, <2>14 DEF Awaiting
    <3>1. Chain(p, Selected) = << >>
      <4>1. p \notin Done \cup run.todo \cup run.cur /\ run.clean
        BY <1>2, <2>12, <2>14, CommitIs DEF Clean
      <4>. QED
        BY <1>2, <2>1, <4>1 DEF Inside
    <3>2. \A a \in m .. n : D[a] = << >>
      BY <1>2, <2>1, <3>1, ChainLine
    <3>3. s \in 1 .. n + 1
      BY <2>1, BreaksAre
    <3>. DEFINE b == IF s < m THEN s ELSE m
    <3>. DEFINE r == IF s < m THEN s ELSE e + 1
    <3>4. b \in 1 .. m /\ b \in Int /\ b <= s /\ r \in Int /\ (r = b \/ (b = m /\ r = e + 1)) /\ r \in Breaks'
      BY <2>1, <2>2, <2>3, <3>3
    <3>. HIDE DEF r, b
    <3>5. Tied(D, b, V, {x})
      <4>1. s \in Int /\ DOMAIN D \subseteq Int /\ V \subseteq DOMAIN D
        BY <2>6, <3>3
      <4>. QED
        BY <3>4, <4>1, TiedLess
    <3>6. Tied(E, r, W, {x})
      <4>1. DOMAIN D = 1 .. n /\ m \in 1 .. n + 1
        BY <2>1, <2>6
      <4>2. \A a \in 1 .. m - 1 : E[a] = D[a]
        BY <2>8, <2>14
      <4>3. \A a \in m .. e : E[a] = << >>
        BY <2>9, <2>14
      <4>4. \A a \in W : a < m => a \in V
        BY <2>4
      <4>5. n \in Nat /\ e \in Nat /\ e <= n /\ m - 1 <= e /\ DOMAIN E = 1 .. e /\ W \subseteq 1 .. e
        BY <2>1, <2>2, <2>4, <2>7
      <4>6. b \in 1 .. m /\ r \in Int /\ (r = b \/ (b = m /\ r = e + 1))
        BY <3>4
      <4>7. Cutting(D, E, n, m, e, V, W, b, r)
        BY <4>1, <4>3, <4>4, <4>5, <4>6 DEF Cutting
      <4>. QED
        BY ONLY <3>2, <3>5, <4>2, <4>7, TiedBare
    <3>. QED
      BY <2>5, <3>4, <3>6 DEF Awaiting
  <2>. QED
    BY <2>10, <2>11, <2>13, <2>14
<1>3. ~full => pc' \notin {"files", "swap"}
  BY CommitIs
<1>. QED
  BY <1>1, <1>2, <1>3 DEF Held
-----------------------------------------------------------------------------
(* The lines through the steps of a turn *)

LEMMA TurnIs ==
  ASSUME IndInv, Between, active # NoId
  PROVE  /\ TypeOK /\ pc = "idle" /\ txn = NoTxn /\ Order = order /\ Mans = manifest
         /\ order \in Seq(Ids) /\ order # << >> /\ Len(order) \in Nat \ {0} /\ DOMAIN order = 1 .. Len(order)
         /\ active = order[Len(order)] /\ active \in Ids /\ manifest[active] \in Manifests
<1>1. TypeOK /\ pc = "idle" /\ txn = NoTxn
  BY DEF IndInv, TypeOK, GateInv, TurnsOnlySettled
<1>2. order \in Seq(Ids) /\ order # << >> /\ active = order[Len(order)] /\ manifest \in [Ids -> Manifests]
  BY <1>1 DEF TypeOK, Between
<1>3. Len(order) \in Nat /\ Len(order) # 0 /\ DOMAIN order = 1 .. Len(order)
  BY <1>2, LenProperties, EmptySeq
<1>4. active \in Ids
  BY <1>2, <1>3, ElementOfSeq
<1>. QED
  BY <1>1, <1>2, <1>3, <1>4 DEF Order, Mans

LEMMA TurnSame ==
  ASSUME txn = NoTxn, UNCHANGED <<order, txn, journals, pc, run>>
  PROVE  Order' = order /\ Order = order /\ Mans = manifest /\ Mans' = manifest' /\ Breaks' = Breaks
<1>1. Order' = order /\ Order = order /\ Mans = manifest /\ Mans' = manifest'
  BY DEF Order, Mans
<1>2. Waiting' = Waiting
  BY DEF Waiting
<1>. QED
  BY <1>1, <1>2 DEF Breaks, Undone

\* Whose record a record is.
LEMMA RecordIs ==
  ASSUME Between, NEW r \in pending, NEW k \in Calls, calls[k] # Idle, calls[k].call = r.call
  PROVE  r \in Record(k) /\ r.path = calls[k].path /\ r.id = active
<1>1. r \in Record(k)
  BY DEF Record
<1>. QED
  BY <1>1 DEF Between

\* A call that begins is live, and has not run.
LEMMA HeldPre ==
  ASSUME IndInv, Between, Held, NEW k \in Calls, NEW p \in Paths, Pre(k, p) \/ PreUnknown(k, p)
  PROVE  Held'
<1>1. /\ active # NoId /\ calls[k] = Idle /\ made' = made + 1
      /\ UNCHANGED <<file, order, txn, journals, pc, run, missed, active>> /\ strange \subseteq strange'
  BY DEF Pre, PreUnknown, InTurn, work
<1>2. /\ TypeOK /\ pc = "idle" /\ txn = NoTxn /\ active \in Ids /\ manifest[active] \in Manifests
      /\ manifest \in [Ids -> Manifests] /\ made \in Nat
      /\ \A r \in pending : r.call \in 1 .. made
      /\ \A l \in Calls : calls[l] # Idle => calls[l].call \in 1 .. made
  <2>1. TypeOK
    BY <1>1, TurnIs
  <2>2. \A r \in pending : r.call \in 1 .. made
    BY <2>1 DEF TypeOK
  <2>3. \A l \in Calls : calls[l] # Idle => calls[l].call \in 1 .. made
    BY <2>1 DEF TypeOK
  <2>. QED
    BY <1>1, <2>1, <2>2, <2>3, TurnIs DEF TypeOK
<1>3. Order' = order /\ Order = order /\ Mans = manifest /\ Mans' = manifest' /\ Breaks' = Breaks
  BY <1>1, <1>2, TurnSame
<1>4. /\ \A l \in Calls \ {k} : calls'[l] = calls[l]
      /\ calls'[k].st \in {"pre", "lost"} /\ calls'[k].call = made + 1 /\ calls'[k] # Idle
  <2>1. calls' = [calls EXCEPT ![k] = [st |-> IF full THEN "lost" ELSE "pre", path |-> p, call |-> made + 1]]
        \/ calls' = [calls EXCEPT ![k] = [st |-> "pre", path |-> p, call |-> made + 1]]
    BY <1>1 DEF Pre, PreUnknown, Became
  <2>2. calls \in [Calls -> [st : {"pre", "ran", "posted", "lost"}, path : Paths, call : 1 .. made] \cup {Idle}]
    BY <1>2 DEF TypeOK
  <2>. QED
    BY <2>1, <2>2 DEF Idle
<1>5. pending \subseteq pending' /\ \A r \in pending' : r \in pending \/ r.call = made + 1
  BY <1>1 DEF Pre, PreUnknown
<1>6. \A c \in Ids : manifest'[c].ops = manifest[c].ops /\ manifest'[c].warn = manifest[c].warn
  <2>1. CASE manifest' = manifest
    BY <2>1
  <2>2. CASE manifest' = [manifest EXCEPT ![active] = [manifest[active] EXCEPT !.blind = TRUE]]
    <3>1. /\ [manifest[active] EXCEPT !.blind = TRUE].ops = manifest[active].ops
          /\ [manifest[active] EXCEPT !.blind = TRUE].warn = manifest[active].warn
      BY <1>2 DEF Manifests
    <3>. QED
      BY <1>2, <2>2, <3>1
  <2>. QED
    BY <2>1, <2>2 DEF Pre, PreUnknown, Save
<1>7. ASSUME NEW q \in Paths PROVE Awaiting(q)'
  <2>1. Awaiting(q)
    BY <1>2 DEF Held
  <2>2. Line(q)' = Line(q)
    <3>1. Range(order) \subseteq Ids /\ DOMAIN order = 1 .. Len(order) /\ \A a \in 1 .. Len(order) : order[a] \in Ids
      BY <1>2, <1>3, Branches
    <3>. QED
      BY <1>3, <1>6, <3>1 DEF Line
  <2>3. ASSUME NEW r \in pending, Live(r)' PROVE Live(r)
    <3>. PICK l \in Calls : calls'[l] # Idle /\ calls'[l].call = r.call
      BY <2>3 DEF Live
    <3>1. l # k
      BY <1>2, <1>4
    <3>. QED
      BY <1>4, <2>3, <3>1 DEF Live
  <2>4. ASSUME NEW c \in Range(Order), Spared(c, q)' PROVE Spared(c, q)
    <3>1. c \in Ids
      BY <1>2, <2>4, Branches
    <3>. QED
      BY <1>3, <1>5, <1>6, <2>3, <2>4, <3>1 DEF Spared
  <2>5. Sure(q)' \subseteq Sure(q)
    BY <1>3, <2>4, SureLess
  <2>6. Running(q)' = Running(q)
    <3>1. ASSUME NEW r \in Running(q)' PROVE r \in Running(q)
      <4>. PICK l \in Calls : calls'[l] # Idle /\ calls'[l].st = "ran" /\ calls'[l].call = r.call
        BY <3>1 DEF Running
      <4>1. l # k /\ calls[l] = calls'[l]
        BY <1>4
      <4>2. r \in pending /\ r.path = q
        BY <1>2, <1>5, <3>1, <4>1 DEF Running
      <4>. QED
        BY <4>1, <4>2 DEF Running
    <3>2. ASSUME NEW r \in Running(q) PROVE r \in Running(q)'
      <4>. PICK l \in Calls : calls[l] # Idle /\ calls[l].st = "ran" /\ calls[l].call = r.call
        BY <3>2 DEF Running
      <4>1. l # k /\ calls[l] = calls'[l]
        BY <1>1, <1>4
      <4>2. r \in pending' /\ r.path = q
        BY <1>5, <3>2 DEF Running
      <4>. QED
        BY <4>1, <4>2 DEF Running
    <3>. QED
      BY <3>1, <3>2
  <2>7. Ends(q)' = Ends(q)
    BY <1>1, <2>6 DEF Ends
  <2>8. missed \subseteq missed' /\ Breaks \subseteq Breaks' /\ strange \subseteq strange'
    BY <1>1, <1>3
  <2>. QED
    BY <1>2, <2>1, <2>2, <2>5, <2>7, <2>8, AwaitingSame
<1>8. pc' = "idle"
  BY <1>1, <1>2
<1>. QED
  BY <1>7, <1>8 DEF Held

\* A tool that writes takes what was recorded of its file as the end of the line.
LEMMA HeldToolWrite ==
  ASSUME IndInv, Between, Held, NEW k \in Calls, ToolWrite(k)
  PROVE  Held'
<1>. PICK p : p = calls[k].path
  OBVIOUS
<1>. PICK act : act = active
  OBVIOUS
<1>1. /\ active # NoId /\ calls[k] # Idle /\ calls[k].st \in {"pre", "lost"}
      /\ UNCHANGED <<order, manifest, pending, txn, journals, pc, run, active, strange>>
      /\ (calls[k].st = "lost" => missed' = missed \cup {p}) /\ (calls[k].st # "lost" => missed' = missed)
      /\ calls' = [calls EXCEPT ![k] = IF calls[k].st = "lost" THEN Idle ELSE [calls[k] EXCEPT !.st = "ran"]]
  BY DEF ToolWrite, InTurn, work, disk, Became
<1>2. /\ TypeOK /\ pc = "idle" /\ txn = NoTxn /\ order \in Seq(Ids) /\ order # << >> /\ act = order[Len(order)]
      /\ \A q \in Paths \ {p} : file'[q] = file[q]
  <2>1. TypeOK /\ pc = "idle" /\ txn = NoTxn /\ order \in Seq(Ids) /\ order # << >> /\ act = order[Len(order)]
    BY <1>1, TurnIs
  <2>2. \A q \in Paths \ {p} : file'[q] = file[q]
    BY <2>1 DEF ToolWrite, TypeOK
  <2>. QED
    BY <2>1, <2>2
<1>3. Order' = order /\ Order = order /\ Mans = manifest /\ Mans' = manifest' /\ Breaks' = Breaks
  BY <1>1, <1>2, TurnSame
<1>4. /\ \A l \in Calls \ {k} : calls'[l] = calls[l]
      /\ calls[k].st = "lost" => calls'[k] = Idle
      /\ calls[k].st = "pre" => calls'[k] # Idle /\ calls'[k].st = "ran" /\ calls'[k].call = calls[k].call
      /\ p \in Paths
  <2>1. calls \in [Calls -> [st : {"pre", "ran", "posted", "lost"}, path : Paths, call : 1 .. made] \cup {Idle}]
    BY <1>2 DEF TypeOK
  <2>2. calls[k] \in [st : {"pre", "ran", "posted", "lost"}, path : Paths, call : 1 .. made]
    BY <1>1, <2>1
  <2>3. [calls[k] EXCEPT !.st = "ran"].st = "ran" /\ [calls[k] EXCEPT !.st = "ran"].call = calls[k].call
    BY <2>2
  <2>4. [calls[k] EXCEPT !.st = "ran"] # Idle
    BY <2>3 DEF Idle
  <2>. QED
    BY <1>1, <2>1, <2>2, <2>3, <2>4
<1>5. ASSUME NEW r, Live(r)' PROVE Live(r)
  BY <1>1, <1>4, <1>5 DEF Live
<1>6. ASSUME NEW q \in Paths PROVE Line(q)' = Line(q) /\ Sure(q)' \subseteq Sure(q)
  <2>1. \A c \in Range(Order) : Spared(c, q)' => Spared(c, q)
    BY <1>1, <1>3, <1>5 DEF Spared
  <2>. QED
    BY <1>1, <1>3, <2>1, SureLess DEF Line
<1>7. ASSUME NEW q \in Paths, ~Astray(q)' PROVE Sure(q)' = {} \/ Ends(q) \subseteq Ends(q)'
  <2>1. CASE q # p
    <3>1. ASSUME NEW r \in pending, r.path = q, NEW l \in Calls, calls[l] # Idle, calls[l].call = r.call
          PROVE  l # k
      BY <2>1, <3>1, RecordIs
    <3>2. Running(q)' = Running(q)
      <4>1. ASSUME NEW r \in Running(q)' PROVE r \in Running(q)
        <5>. PICK l \in Calls : calls'[l] # Idle /\ calls'[l].st = "ran" /\ calls'[l].call = r.call
          BY <4>1 DEF Running
        <5>1. r \in pending /\ r.path = q
          BY <1>1, <4>1 DEF Running
        <5>2. calls[l] # Idle /\ calls[l].call = r.call
          BY <1>1, <1>4
        <5>3. l # k
          BY <3>1, <5>1, <5>2
        <5>. QED
          BY <1>4, <5>1, <5>3 DEF Running
      <4>2. ASSUME NEW r \in Running(q) PROVE r \in Running(q)'
        <5>. PICK l \in Calls : calls[l] # Idle /\ calls[l].st = "ran" /\ calls[l].call = r.call
          BY <4>2 DEF Running
        <5>1. r \in pending /\ r.path = q
          BY <4>2 DEF Running
        <5>2. l # k
          BY <3>1, <5>1
        <5>. QED
          BY <1>1, <1>4, <5>1, <5>2 DEF Running
      <4>. QED
        BY <4>1, <4>2
    <3>3. Ends(q)' = Ends(q)
      BY <1>2, <2>1, <3>2 DEF Ends
    <3>. QED
      BY <3>3
  <2>2. CASE q = p
    <3>1. calls[k].st = "pre" /\ ~Astray(p) /\ p \notin strange
      BY <1>1, <1>7, <2>2 DEF Astray
    <3>2. \A l \in Calls : calls[l] # Idle /\ calls[l].path = p => l = k
      BY <1>1, <3>1 DEF Between
    <3>3. Running(p) = {}
      <4>1. ASSUME NEW r \in Running(p) PROVE FALSE
        <5>. PICK l \in Calls : calls[l] # Idle /\ calls[l].st = "ran" /\ calls[l].call = r.call
          BY <4>1 DEF Running
        <5>1. r \in pending /\ r.path = p
          BY <4>1 DEF Running
        <5>2. l = k
          BY <3>2, <5>1, RecordIs
        <5>. QED
          BY <3>1, <5>2
      <4>. QED
        BY <4>1
    <3>4. Record(k) # {} /\ \A r \in Record(k) : r.before \in {file[r.path], Unsafe} /\ r.path = p /\ r.id = active
      BY <1>1, <3>1 DEF Between
    <3>5. \A r \in Running(p)' : r \in Record(k)
      <4>. TAKE r \in Running(p)'
      <4>. PICK l \in Calls : calls'[l] # Idle /\ calls'[l].st = "ran" /\ calls'[l].call = r.call
        BY DEF Running
      <4>1. r \in pending /\ r.path = p
        BY <1>1 DEF Running
      <4>2. calls[l] # Idle /\ calls[l].call = r.call
        BY <1>1, <1>4
      <4>3. l = k
        BY <3>2, <4>1, <4>2, RecordIs
      <4>. QED
        BY <4>1, <4>2, <4>3 DEF Record
    <3>6. Record(k) \subseteq Running(p)'
      BY <1>1, <1>4, <3>1, <3>4 DEF Record, Running
    <3>7. CASE \E r \in Record(k) : r.before = Unsafe
      <4>. PICK r \in Record(k) : r.before = Unsafe
        BY <3>7
      <4>1. r \in pending' /\ r.path = p /\ r.id = act /\ ~Live(r)'
        BY <1>1, <3>4 DEF Record, Live
      <4>2. ~Spared(act, p)'
        BY <4>1 DEF Spared
      <4>3. Sure(p)' = {}
        <5>1. ~Spared(Order[Len(Order)], p)'
          BY <1>1, <1>2, <1>3, <4>2
        <5>. QED
          BY <1>2, <1>3, <5>1, SureNone
      <4>. QED
        BY <2>2, <4>3
    <3>8. CASE \A r \in Record(k) : r.before # Unsafe
      <4>1. \A r \in Running(p)' : r.before = file[p]
        BY <3>4, <3>5, <3>8
      <4>2. Ends(p) \subseteq Ends(p)'
        BY <3>3, <3>4, <3>6, <4>1 DEF Ends
      <4>. QED
        BY <2>2, <4>2
    <3>. QED
      BY <3>7, <3>8
  <2>. QED
    BY <2>1, <2>2
<1>8. ASSUME NEW q \in Paths PROVE Awaiting(q)'
  <2>1. Awaiting(q)
    BY <1>2 DEF Held
  <2>2. missed \subseteq missed' /\ Breaks \subseteq Breaks' /\ strange \subseteq strange' /\ Order' = Order
    BY <1>1, <1>3
  <2>3. CASE Astray(q)'
    BY <2>3 DEF Awaiting
  <2>4. CASE ~Astray(q)'
    BY <1>2, <1>6, <1>7, <2>1, <2>2, <2>4, AwaitingSame
  <2>. QED
    BY <2>3, <2>4
<1>. QED
  <2>1. pc' = "idle"
    BY <1>1, <1>2
  <2>. QED
    BY <1>8, <2>1 DEF Held

\* What the report of a call changes.
LEMMA PostIs ==
  ASSUME IndInv, Between, NEW k \in Calls, Post(k)
  PROVE  /\ active # NoId /\ calls[k] # Idle /\ calls[k].st \in {"pre", "ran"} /\ calls[k].path \in Paths
         /\ UNCHANGED <<file, order, pending, txn, journals, pc, run, active, strange, missed>>
         /\ \A l \in Calls \ {k} : calls'[l] = calls[l]
         /\ \/ (full \/ Record(k) = {}) /\ manifest' = manifest /\ calls'[k] = Idle
            \/ \E r \in Record(k) :
                 /\ calls'[k] # Idle /\ calls'[k].st = "posted" /\ calls'[k].call = calls[k].call /\ calls'[k].path = calls[k].path
                 /\ r.path \in Paths /\ r.before \in States \cup {Unsafe}
                 /\ LET m == manifest[active] IN
                    \/ r.before = Unsafe /\ manifest' = [manifest EXCEPT ![active] = [m EXCEPT !.warn = @ \cup {r.path}]]
                    \/ r.before # Unsafe /\ r.before.data = file[r.path].data /\ manifest' = manifest
                    \/ /\ r.before # Unsafe /\ r.before.data # file[r.path].data
                       /\ manifest' = [manifest EXCEPT ![active] = [m EXCEPT !.ops[r.path] =
                                         Append(@, [before |-> r.before, after |-> file[r.path]])]]
<1>1. /\ active # NoId /\ calls[k] # Idle /\ calls[k].st \in {"pre", "ran"}
      /\ UNCHANGED <<file, order, pending, txn, journals, pc, run, active, strange, missed>>
  BY DEF Post, InTurn, work, history
<1>2. calls \in [Calls -> [st : {"pre", "ran", "posted", "lost"}, path : Paths, call : 1 .. made] \cup {Idle}] /\ TypeOK
  BY <1>1, TurnIs DEF TypeOK
<1>3. calls[k] \in [st : {"pre", "ran", "posted", "lost"}, path : Paths, call : 1 .. made]
  BY <1>1, <1>2
<1>4. CASE full \/ Record(k) = {}
  <2>1. calls' = [calls EXCEPT ![k] = Idle] /\ manifest' = manifest
    BY <1>4 DEF Post, Became
  <2>. QED
    BY <1>1, <1>2, <1>3, <1>4, <2>1
<1>5. CASE ~(full \/ Record(k) = {})
  <2>. PICK r \in Record(k) :
         /\ calls' = [calls EXCEPT ![k] = [calls[k] EXCEPT !.st = "posted"]]
         /\ manifest' = [manifest EXCEPT ![active] =
                CASE r.before = Unsafe -> [manifest[active] EXCEPT !.warn = @ \cup {r.path}]
                  [] r.before.data = file[r.path].data -> manifest[active]
                  [] OTHER -> [manifest[active] EXCEPT !.ops[r.path] =
                                 Append(@, [before |-> r.before, after |-> file[r.path]])]]
    BY <1>5 DEF Post, Became, Save
  <2>1. r.path \in Paths /\ r.before \in States \cup {Unsafe}
    BY <1>2 DEF Record, TypeOK
  <2>2. /\ [calls[k] EXCEPT !.st = "posted"].st = "posted" /\ [calls[k] EXCEPT !.st = "posted"].call = calls[k].call
        /\ [calls[k] EXCEPT !.st = "posted"].path = calls[k].path
    BY <1>3
  <2>3. [calls[k] EXCEPT !.st = "posted"] # Idle
    BY <2>2 DEF Idle
  <2>4. calls'[k] # Idle /\ calls'[k].st = "posted" /\ calls'[k].call = calls[k].call /\ calls'[k].path = calls[k].path
        /\ \A l \in Calls \ {k} : calls'[l] = calls[l]
    BY <1>2, <2>2, <2>3
  <2>5. LET m == manifest[active] IN
        \/ r.before = Unsafe /\ manifest' = [manifest EXCEPT ![active] = [m EXCEPT !.warn = @ \cup {r.path}]]
        \/ r.before # Unsafe /\ r.before.data = file[r.path].data /\ manifest' = manifest
        \/ /\ r.before # Unsafe /\ r.before.data # file[r.path].data
           /\ manifest' = [manifest EXCEPT ![active] = [m EXCEPT !.ops[r.path] =
                             Append(@, [before |-> r.before, after |-> file[r.path]])]]
    <3>1. CASE r.before = Unsafe
      <4>1. file[r.path] \in States
        BY <1>2, <2>1 DEF TypeOK
      <4>2. file[r.path].data \in Nat
        BY <4>1 DEF States, Absent
      <4>3. r.before.data # file[r.path].data
        BY <3>1, <4>2 DEF Unsafe
      <4>. QED
        BY <3>1, <4>3
    <3>2. CASE r.before # Unsafe /\ r.before.data = file[r.path].data
      <4>1. manifest' = [manifest EXCEPT ![active] = manifest[active]]
        BY <3>2
      <4>2. manifest' = manifest
        BY <1>2, <4>1 DEF TypeOK
      <4>. QED
        BY <3>2, <4>2
    <3>3. CASE r.before # Unsafe /\ r.before.data # file[r.path].data
      BY <3>3
    <3>. QED
      BY <3>1, <3>2, <3>3
  <2>. QED
    BY <1>1, <1>3, <2>1, <2>4, <2>5
<1>. QED
  BY <1>4, <1>5

\* What a manifest keeps when one turn of it changes.
Resaves(act, q) ==
  \/ manifest' = manifest
  \/ manifest' = [manifest EXCEPT ![act] = [manifest[act] EXCEPT !.warn = @ \cup {q}]]
  \/ \E ch : manifest' = [manifest EXCEPT ![act] = [manifest[act] EXCEPT !.ops[q] = Append(@, ch)]]

LEMMA PostSaves ==
  ASSUME IndInv, Between, NEW k \in Calls, Post(k)
  PROVE  \E q \in Paths : Resaves(active, q)
<1>1. calls[k].path \in Paths
  BY PostIs
<1>2. CASE manifest' = manifest
  BY <1>1, <1>2 DEF Resaves
<1>3. ASSUME NEW r \in Record(k), r.path \in Paths, NEW m, m = manifest[active],
             \/ manifest' = [manifest EXCEPT ![active] = [m EXCEPT !.warn = @ \cup {r.path}]]
             \/ manifest' = [manifest EXCEPT ![active] =
                               [m EXCEPT !.ops[r.path] = Append(@, [before |-> r.before, after |-> file[r.path]])]]
      PROVE  Resaves(active, r.path)
  BY <1>3 DEF Resaves
<1>. QED
  BY <1>2, <1>3, PostIs

LEMMA Resaved ==
  ASSUME manifest \in [Ids -> Manifests], NEW act \in Ids, NEW q \in Paths, Resaves(act, q)
  PROVE  /\ \A c \in Ids : manifest[c].warn \subseteq manifest'[c].warn /\ manifest'[c].st = manifest[c].st
         /\ \A c \in Ids, p \in Paths : c # act \/ p # q => manifest'[c].ops[p] = manifest[c].ops[p]
<1>1. manifest[act] \in Manifests /\ manifest[act].ops \in [Paths -> Seq(Changes)]
  BY DEF Manifests
<1>2. CASE manifest' = manifest
  BY <1>2
<1>3. CASE manifest' = [manifest EXCEPT ![act] = [manifest[act] EXCEPT !.warn = @ \cup {q}]]
  <2>1. /\ [manifest[act] EXCEPT !.warn = @ \cup {q}].warn = manifest[act].warn \cup {q}
        /\ [manifest[act] EXCEPT !.warn = @ \cup {q}].ops = manifest[act].ops
        /\ [manifest[act] EXCEPT !.warn = @ \cup {q}].st = manifest[act].st
    BY <1>1 DEF Manifests
  <2>. QED
    BY <1>3, <2>1
<1>4. ASSUME NEW ch, manifest' = [manifest EXCEPT ![act] = [manifest[act] EXCEPT !.ops[q] = Append(@, ch)]]
      PROVE  /\ \A c \in Ids : manifest[c].warn \subseteq manifest'[c].warn /\ manifest'[c].st = manifest[c].st
             /\ \A c \in Ids, p \in Paths : c # act \/ p # q => manifest'[c].ops[p] = manifest[c].ops[p]
  <2>. PICK m : m = [manifest[act] EXCEPT !.ops[q] = Append(@, ch)]
    OBVIOUS
  <2>1. m.warn = manifest[act].warn /\ m.st = manifest[act].st /\ m.ops = [manifest[act].ops EXCEPT ![q] = Append(@, ch)]
    BY <1>1 DEF Manifests
  <2>2. \A p \in Paths : p # q => m.ops[p] = manifest[act].ops[p]
    BY <1>1, <2>1
  <2>. QED
    BY <1>4, <2>1, <2>2
<1>. QED
  BY <1>2, <1>3, <1>4 DEF Resaves

\* A report makes one change of what was recorded and what the tool left, and the
\* line ends in the file again; or it warns.
LEMMA HeldPost ==
  ASSUME IndInv, Between, Held, NEW k \in Calls, Post(k)
  PROVE  Held'
<1>. PICK p : p = calls[k].path
  OBVIOUS
<1>. PICK act : act = active
  OBVIOUS
<1>. PICK n : n = Len(order)
  OBVIOUS
<1>1. /\ active # NoId /\ calls[k] # Idle /\ calls[k].st \in {"pre", "ran"} /\ p \in Paths
      /\ UNCHANGED <<file, order, pending, txn, journals, pc, run, active, strange, missed>>
      /\ \A l \in Calls \ {k} : calls'[l] = calls[l]
  BY PostIs
<1>2. /\ TypeOK /\ pc = "idle" /\ txn = NoTxn /\ order \in Seq(Ids) /\ order # << >> /\ act = order[n]
      /\ n \in Nat \ {0} /\ DOMAIN order = 1 .. n /\ act \in Ids /\ manifest[act] \in Manifests
      /\ manifest \in [Ids -> Manifests] /\ IsInjective(order) /\ file \in [Paths -> States]
  BY <1>1, TurnIs DEF TypeOK
<1>3. Order' = order /\ Order = order /\ Mans = manifest /\ Mans' = manifest' /\ Breaks' = Breaks
  BY <1>1, <1>2, TurnSame
<1>4. \A r \in Record(k) : r \in pending /\ r.path = p /\ r.id = act
  BY <1>1 DEF Between, Record
<1>5. calls'[k] = Idle \/ (calls'[k] # Idle /\ calls'[k].st = "posted" /\ calls'[k].call = calls[k].call)
  BY PostIs
<1>0. \/ (full \/ Record(k) = {}) /\ manifest' = manifest /\ calls'[k] = Idle
     \/ \E r \in Record(k) :
          \/ r.before = Unsafe /\ manifest' = [manifest EXCEPT ![act] = [manifest[act] EXCEPT !.warn = @ \cup {p}]]
          \/ r.before # Unsafe /\ r.before.data = file[p].data /\ manifest' = manifest
          \/ /\ r.before # Unsafe /\ r.before.data # file[p].data /\ r.before \in States \cup {Unsafe}
             /\ manifest' = [manifest EXCEPT ![act] = [manifest[act] EXCEPT !.ops[p] =
                               Append(@, [before |-> r.before, after |-> file[p]])]]
  <2>1. CASE (full \/ Record(k) = {}) /\ manifest' = manifest /\ calls'[k] = Idle
    BY <2>1
  <2>2. CASE ~((full \/ Record(k) = {}) /\ manifest' = manifest /\ calls'[k] = Idle)
    <3>. PICK r \in Record(k) :
           /\ r.before \in States \cup {Unsafe}
           /\ LET m == manifest[active] IN
              \/ r.before = Unsafe /\ manifest' = [manifest EXCEPT ![active] = [m EXCEPT !.warn = @ \cup {r.path}]]
              \/ r.before # Unsafe /\ r.before.data = file[r.path].data /\ manifest' = manifest
              \/ /\ r.before # Unsafe /\ r.before.data # file[r.path].data
                 /\ manifest' = [manifest EXCEPT ![active] = [m EXCEPT !.ops[r.path] =
                                   Append(@, [before |-> r.before, after |-> file[r.path]])]]
      BY <2>2, PostIs, Zenon
    <3>1. r.path = p /\ active = act
      BY <1>4
    <3>. QED
      BY <3>1
  <2>. QED
    BY <2>1, <2>2
<1>6. ASSUME NEW r, Live(r)' PROVE Live(r)
  BY <1>1, <1>5, <1>6 DEF Live
<1>7. /\ \A c \in Ids : manifest[c].warn \subseteq manifest'[c].warn
      /\ \A c \in Ids, q \in Paths : c # act \/ q # p => manifest'[c].ops[q] = manifest[c].ops[q]
  <2>1. Resaves(act, p)
    BY <1>0 DEF Resaves
  <2>2. manifest \in [Ids -> Manifests] /\ act \in Ids /\ p \in Paths
    BY <1>1, <1>2
  <2>. QED
    BY ONLY <2>1, <2>2, Resaved
<1>8. ASSUME NEW q \in Paths PROVE Sure(q)' \subseteq Sure(q)
  <2>1. Range(Order) \subseteq Ids
    BY <1>2, Branches
  <2>2. \A c \in Range(Order) : Spared(c, q)' => Spared(c, q)
    BY <1>1, <1>3, <1>6, <1>7, <2>1 DEF Spared
  <2>. QED
    BY <1>3, <2>2, SureLess
<1>9. \A a \in 1 .. n : order[a] \in Ids
  BY <1>2, <1>3, Branches
<1>10. ASSUME NEW q \in Paths, q # p PROVE Awaiting(q)'
  <2>1. Awaiting(q)
    BY <1>2 DEF Held
  <2>2. Line(q)' = Line(q)
    BY <1>2, <1>3, <1>7, <1>9, <1>10 DEF Line
  <2>3. ASSUME NEW r \in pending, r.path = q, NEW l \in Calls, calls[l] # Idle, calls[l].call = r.call
        PROVE  l # k
    BY <1>10, <2>3, RecordIs
  <2>4. \A l \in Calls : calls'[l] # Idle /\ calls'[l].st = "ran" => l # k
    BY <1>5
  <2>5. Running(q)' = Running(q)
    BY <1>1, <2>3, <2>4 DEF Running
  <2>6. Ends(q)' = Ends(q)
    BY <1>1, <2>5 DEF Ends
  <2>7. missed \subseteq missed' /\ Breaks \subseteq Breaks' /\ strange \subseteq strange'
    BY <1>1, <1>3
  <2>. QED
    BY <1>2, <1>8, <2>1, <2>2, <2>6, <2>7, AwaitingSame
<1>11. ASSUME ~Astray(p) PROVE Awaiting(p)'
  <2>1. Awaiting(p)
    BY <1>1, <1>2 DEF Held
  <2>2. missed \subseteq missed' /\ Breaks \subseteq Breaks' /\ strange \subseteq strange' /\ Order' = Order
    BY <1>1, <1>3
  <2>3. ASSUME NEW r \in pending, r.path = p, NEW l \in Calls, calls[l] # Idle, calls[l].call = r.call
        PROVE  l = k
    <3>1. calls[l].path = calls[k].path
      BY <2>3, RecordIs
    <3>. QED
      BY <1>1, <1>11, <2>3, <3>1 DEF Between, Astray
  <2>4. Running(p)' = {}
    <3>1. ASSUME NEW r \in Running(p)' PROVE FALSE
      <4>. PICK l \in Calls : calls'[l] # Idle /\ calls'[l].st = "ran" /\ calls'[l].call = r.call
        BY <3>1 DEF Running
      <4>1. r \in pending /\ r.path = p
        BY <1>1, <3>1 DEF Running
      <4>2. l # k
        BY <1>5
      <4>. QED
        BY <1>1, <2>3, <4>1, <4>2
    <3>. QED
      BY <3>1
  <2>5. \A r \in Running(p) : r \in Record(k) /\ calls[k].st = "ran"
    BY <2>3 DEF Running, Record
  <2>6. Ends(p)' = {file[p]}
    BY <1>1, <1>2, <2>4 DEF Ends
  <2>7. ASSUME Line(p)' = Line(p), Sure(p)' = {} \/ Running(p) = {} PROVE Awaiting(p)'
    <3>1. Running(p) = {} => Ends(p) = {file[p]}
      BY <1>1, <1>2 DEF Ends
    <3>. QED
      BY <1>1, <1>2, <1>8, <2>1, <2>2, <2>6, <2>7, <3>1, AwaitingSame
  <2>8. ASSUME manifest' = manifest PROVE Line(p)' = Line(p)
    BY <1>3, <2>8 DEF Line
  <2>9. ASSUME ~Spared(act, p)' PROVE Sure(p)' = {}
    <3>1. ~Spared(Order[Len(Order)], p)'
      BY <1>1, <1>2, <1>3, <2>9
    <3>. QED
      BY <1>2, <1>3, <3>1, SureNone
  <2>10. CASE (full \/ Record(k) = {}) /\ manifest' = manifest /\ calls'[k] = Idle
    <3>1. CASE Record(k) = {}
      BY <2>5, <2>7, <2>8, <2>10, <3>1
    <3>2. CASE Record(k) # {}
      <4>. PICK r \in Record(k) : TRUE
        BY <3>2
      <4>1. r \in pending' /\ r.path = p /\ r.id = act
        BY <1>1, <1>4
      <4>2. ~Live(r)'
        <5>1. ASSUME NEW l \in Calls, calls'[l] # Idle, calls'[l].call = r.call PROVE FALSE
          <6>1. l # k /\ calls[l] = calls'[l]
            BY <1>1, <2>10, <5>1
          <6>. QED
            BY <1>4, <2>3, <5>1, <6>1
        <5>. QED
          BY <5>1 DEF Live
      <4>3. ~Spared(act, p)'
        BY <4>1, <4>2 DEF Spared
      <4>. QED
        BY <2>7, <2>8, <2>9, <2>10, <4>3
    <3>. QED
      BY <3>1, <3>2
  <2>11. ASSUME NEW r \in Record(k), r.before = Unsafe,
                manifest' = [manifest EXCEPT ![act] = [manifest[act] EXCEPT !.warn = @ \cup {p}]]
         PROVE  Awaiting(p)'
    <3>1. /\ [manifest[act] EXCEPT !.warn = @ \cup {p}].warn = manifest[act].warn \cup {p}
          /\ [manifest[act] EXCEPT !.warn = @ \cup {p}].ops = manifest[act].ops
      BY <1>2 DEF Manifests
    <3>2. p \in manifest'[act].warn /\ \A c \in Ids : manifest'[c].ops = manifest[c].ops
      BY <1>2, <2>11, <3>1
    <3>3. Line(p)' = Line(p)
      BY <1>2, <1>3, <1>9, <3>2 DEF Line
    <3>4. ~Spared(act, p)'
      BY <1>3, <3>2 DEF Spared
    <3>. QED
      BY <2>7, <2>9, <3>3, <3>4
  <2>12. ASSUME NEW r \in Record(k), r.before # Unsafe, r.before.data = file[p].data, manifest' = manifest
         PROVE  Awaiting(p)'
    <3>1. calls[k].st # "ran"
      BY <1>1, <1>4, <1>11, <2>12 DEF Between
    <3>2. Running(p) = {}
      BY <2>5, <3>1
    <3>. QED
      BY <2>7, <2>8, <2>12, <3>2
  <2>13. ASSUME NEW r \in Record(k), r.before # Unsafe, r.before \in States \cup {Unsafe}, r.before.data # file[p].data,
                manifest' = [manifest EXCEPT ![act] = [manifest[act] EXCEPT !.ops[p] =
                               Append(@, [before |-> r.before, after |-> file[p]])]]
         PROVE  Awaiting(p)'
    <3>. PICK D : D = Line(p)
      OBVIOUS
    <3>. PICK E : E = Line(p)'
      OBVIOUS
    <3>. PICK ch : ch = [before |-> r.before, after |-> file[p]]
      OBVIOUS
    <3>1. calls[k].st = "ran"
      BY <1>1, <1>4, <1>11, <2>13 DEF Between
    <3>2. r \in Running(p)
      BY <1>1, <1>4, <3>1 DEF Running, Record
    <3>3. \A x \in Ends(p) : x = ch.before
      BY <3>2 DEF Ends
    <3>4. ch \in Changes /\ ch.after = file[p]
      BY <1>1, <1>2, <2>13 DEF Changes
    <3>5. D \in [1 .. n -> Seq(Changes)] /\ \A a \in 1 .. n : D[a] = manifest[order[a]].ops[p]
      BY <1>1, <1>2, <1>3, Lines
    <3>6. manifest'[act].ops[p] = Append(manifest[act].ops[p], ch)
      <4>1. manifest[act].ops \in [Paths -> Seq(Changes)]
        BY <1>2 DEF Manifests
      <4>2. [manifest[act] EXCEPT !.ops[p] = Append(@, ch)].ops = [manifest[act].ops EXCEPT ![p] = Append(@, ch)]
        BY <1>2 DEF Manifests
      <4>3. manifest'[act] = [manifest[act] EXCEPT !.ops[p] = Append(@, ch)]
        BY <1>2, <2>13
      <4>. PICK o : o = manifest[act].ops
        OBVIOUS
      <4>4. manifest'[act].ops = [o EXCEPT ![p] = Append(@, ch)]
        BY <4>2, <4>3
      <4>5. o \in [Paths -> Seq(Changes)] /\ p \in Paths
        BY <1>1, <4>1
      <4>. QED
        BY <4>4, <4>5
    <3>7. DOMAIN E = 1 .. n /\ \A a \in 1 .. n : E[a] = manifest'[order[a]].ops[p]
      BY <1>1, <1>2, <1>3 DEF Line
    <3>8. \A a \in 1 .. n : a # n => E[a] = D[a]
      <4>1. \A a \in 1 .. n : a # n => order[a] # act
        BY <1>2 DEF IsInjective
      <4>. QED
        BY <1>1, <1>7, <1>9, <3>5, <3>7, <4>1
    <3>9. E[n] = Append(D[n], ch)
      <4>1. n \in 1 .. n
        BY <1>2
      <4>. QED
        BY <1>2, <3>5, <3>6, <3>7, <4>1
    <3>. PICK s \in Breaks : Tied(D, s, Sure(p), Ends(p))
      BY <1>11, <2>1 DEF Awaiting
    <3>. PICK V : V = Sure(p)
      OBVIOUS
    <3>. PICK W : W = Sure(p)'
      OBVIOUS
    <3>. PICK X : X = Ends(p)
      OBVIOUS
    <3>10. V \subseteq 1 .. n /\ W \subseteq V /\ s \in 1 .. n + 1 /\ s \in Int /\ s <= s
      BY <1>1, <1>2, <1>3, <1>8, Lines, BreaksAre
    <3>11. Tied(E, s, V, {ch.after})
      <4>1. (\A x \in X : x = ch.before) /\ Tied(D, s, V, X) /\ DOMAIN D = 1 .. n /\ \A a \in 1 .. n : D[a] \in Seq(Changes)
        BY <3>3, <3>5
      <4>2. n \in Nat \ {0} /\ ch \in Changes /\ DOMAIN E = 1 .. n
        BY <1>2, <3>4, <3>7
      <4>. QED
        BY ONLY <3>8, <3>9, <3>10, <4>1, <4>2, TiedLonger
    <3>12. Tied(E, s, W, {ch.after})
      <4>1. DOMAIN E \subseteq Int /\ V \subseteq DOMAIN E
        BY <3>7, <3>10
      <4>. QED
        BY <3>10, <3>11, <4>1, TiedLess
    <3>. QED
      BY <1>3, <2>6, <3>4, <3>12 DEF Awaiting
  <2>. QED
    BY <1>0, <2>10, <2>11, <2>12, <2>13
<1>12. ASSUME Astray(p) PROVE Awaiting(p)'
  BY <1>1, <1>12 DEF Awaiting, Astray
<1>. QED
  <2>1. pc' = "idle"
    BY <1>1, <1>2
  <2>. QED
    BY <1>10, <1>11, <1>12, <2>1 DEF Held

\* The record of a call that has reported is no longer needed.
LEMMA HeldDiscard ==
  ASSUME IndInv, Between, Held, NEW k \in Calls, Discard(k)
  PROVE  Held'
<1>. PICK act : act = active
  OBVIOUS
<1>1. /\ active # NoId /\ calls[k] # Idle /\ calls[k].st = "posted"
      /\ UNCHANGED <<file, order, manifest, txn, journals, pc, run, active, strange, missed>>
      /\ pending' = pending \ Record(k) /\ calls' = [calls EXCEPT ![k] = Idle]
  BY DEF Discard, InTurn, work, history, Became
<1>2. /\ TypeOK /\ pc = "idle" /\ txn = NoTxn /\ act \in Ids
      /\ calls'[k] = Idle /\ \A l \in Calls \ {k} : calls'[l] = calls[l]
  BY <1>1, TurnIs DEF TypeOK
<1>3. Order' = order /\ Order = order /\ Mans = manifest /\ Mans' = manifest' /\ Breaks' = Breaks
  BY <1>1, <1>2, TurnSame
<1>4. ASSUME NEW r, Live(r)' PROVE Live(r)
  BY <1>1, <1>2, <1>4 DEF Live
<1>5. ASSUME NEW q \in Paths, ~Astray(q) PROVE Awaiting(q)'
  <2>1. Awaiting(q)
    BY <1>2 DEF Held
  <2>2. Line(q)' = Line(q) /\ missed \subseteq missed' /\ Breaks \subseteq Breaks' /\ strange \subseteq strange'
    BY <1>1, <1>3 DEF Line
  <2>3. ASSUME NEW r \in Record(k), r.path = q
        PROVE  /\ r \in pending /\ r.id = act /\ r.call = calls[k].call
               /\ r.before = Unsafe => q \in manifest[act].warn
               /\ \A l \in Calls : calls[l] # Idle /\ calls[l].call = r.call => l = k
    <3>1. r \in pending /\ r.call = calls[k].call /\ r.path = calls[k].path /\ r.id = act
      BY <1>1 DEF Between, Record
    <3>2. r.before = Unsafe => q \in manifest[act].warn
      BY <1>1, <1>5, <2>3, <3>1 DEF Between
    <3>3. ASSUME NEW l \in Calls, calls[l] # Idle, calls[l].call = r.call PROVE l = k
      <4>1. calls[l].path = calls[k].path
        BY <3>1, <3>3, RecordIs
      <4>. QED
        BY <1>1, <1>5, <2>3, <3>1, <3>3, <4>1 DEF Between, Astray
    <3>. QED
      BY <3>1, <3>2, <3>3
  <2>4. ASSUME NEW c \in Range(Order), Spared(c, q)' PROVE Spared(c, q)
    <3>1. q \notin manifest[c].warn
      BY <1>1, <1>3, <2>4 DEF Spared
    <3>2. ASSUME NEW r \in pending, r.path = q, r.id = c PROVE Live(r)
      <4>1. CASE r \in pending'
        BY <1>4, <2>4, <3>2, <4>1 DEF Spared
      <4>2. CASE r \in Record(k)
        BY <1>1, <2>3, <3>1, <3>2, <4>2 DEF Live
      <4>. QED
        BY <1>1, <3>2, <4>1, <4>2
    <3>. QED
      BY <1>3, <3>1, <3>2 DEF Spared
  <2>5. Sure(q)' \subseteq Sure(q)
    BY <1>3, <2>4, SureLess
  <2>6. Running(q)' = Running(q)
    <3>1. ASSUME NEW r \in Running(q)' PROVE r \in Running(q)
      BY <1>1, <1>2, <3>1 DEF Running
    <3>2. ASSUME NEW r \in Running(q) PROVE r \in Running(q)'
      <4>. PICK l \in Calls : calls[l] # Idle /\ calls[l].st = "ran" /\ calls[l].call = r.call
        BY <3>2 DEF Running
      <4>1. r \in pending /\ r.path = q /\ l # k
        BY <1>1, <3>2 DEF Running
      <4>2. r \notin Record(k)
        BY <2>3, <4>1
      <4>. QED
        BY <1>1, <1>2, <4>1, <4>2 DEF Running
    <3>. QED
      BY <3>1, <3>2
  <2>7. Ends(q)' = Ends(q)
    BY <1>1, <2>6 DEF Ends
  <2>. QED
    BY <1>2, <2>1, <2>2, <2>5, <2>7, AwaitingSame
<1>6. ASSUME NEW q \in Paths, Astray(q) PROVE Awaiting(q)'
  BY <1>1, <1>6 DEF Awaiting, Astray
<1>. QED
  <2>1. pc' = "idle"
    BY <1>1, <1>2
  <2>. QED
    BY <1>5, <1>6, <2>1 DEF Held

-----------------------------------------------------------------------------
(* The lines when a turn begins, and when turns are folded *)

\* When an operation has the store, every restore not done closes the gate.
LEMMA BreaksGate ==
  ASSUME IndInv, pc \in {"go", "index"}
  PROVE  /\ Waiting = DOMAIN journals
         /\ \A s \in Breaks : s = Len(Order) + 1 \/ (s \in DOMAIN Order /\ Order[s] \in gate)
<1>1. scan = {} /\ Waiting = DOMAIN journals
  BY Owned DEF Waiting
<1>2. ASSUME NEW s \in Breaks, s # Len(Order) + 1 PROVE s \in DOMAIN Order /\ Order[s] \in gate
  <2>. PICK j \in DOMAIN journals : s \in DOMAIN Order /\ Undone(j) /\ journals[j].id = Order[s]
    BY <1>1, <1>2 DEF Breaks
  <2>1. Order[s] \in Range(order)
    BY OrderRange DEF Range
  <2>2. Unsettled(j)
    BY <2>1 DEF Unsettled, Undone
  <2>. QED
    BY <1>1, <2>2 DEF IndInv, GateInv, Covered
<1>. QED
  BY <1>1, <1>2

LEMMA HeldBeginManifest ==
  ASSUME IndInv, Held, CompletedFirst, BeginManifest
  PROVE  Held'
<1>1. /\ TypeOK /\ pc = "go" /\ pc' = "index" /\ txn = NoTxn /\ manifest' = [manifest EXCEPT ![op.id] = Blank("open")]
      /\ UNCHANGED <<file, order, pending, txn, journals, calls, strange, missed>>
  BY DEF IndInv, BeginManifest, CompletedFirst, Save, memory, history
<1>2. op.id \notin Range(order) /\ manifest \in [Ids -> Manifests]
  BY <1>1, Owned DEF IndInv, GateInv, Stage, BeginManifest, TypeOK
<1>3. Order' = Order /\ Order = order /\ Mans = manifest /\ Mans' = manifest'
  BY <1>1 DEF Order, Mans
<1>4. Range(order) \subseteq Ids /\ \A a \in DOMAIN order : order[a] \in Range(order)
  BY <1>1, <1>3, Branches
<1>5. \A c \in Range(order) : Mans'[c] = Mans[c]
  BY <1>1, <1>2, <1>3, <1>4
<1>6. Waiting = DOMAIN journals /\ Waiting' = DOMAIN journals
  BY <1>1 DEF Waiting
<1>7. Breaks \subseteq Breaks'
  BY <1>1, <1>3, <1>6, BreaksKept DEF Undone
<1>8. ASSUME NEW p \in Paths PROVE Awaiting(p)'
  <2>1. Awaiting(p)
    BY <1>1 DEF Held
  <2>2. Line(p)' = Line(p)
    BY <1>3, <1>4, <1>5 DEF Line
  <2>3. Ends(p)' = Ends(p)
    BY <1>1 DEF Ends, Running
  <2>4. \A c \in Range(Order) : Spared(c, p)' => Spared(c, p)
    BY <1>1, <1>3, <1>5 DEF Spared, Live
  <2>5. Sure(p)' \subseteq Sure(p)
    BY <1>3, <2>4, SureLess
  <2>. QED
    BY <1>1, <1>7, <2>1, <2>2, <2>3, <2>5, AwaitingSame
<1>. QED
  BY <1>1, <1>8 DEF Held

\* The places of a part of a sequence.
LEMMA Pieces ==
  ASSUME NEW S, NEW s \in Seq(S), NEW m \in Nat, NEW n \in Nat, 1 <= m, m <= n + 1, n <= Len(s)
  PROVE  /\ Len(SubSeq(s, m, n)) = (n + 1) - m /\ DOMAIN SubSeq(s, m, n) = 1 .. (n + 1) - m
         /\ \A i \in 1 .. (n + 1) - m : SubSeq(s, m, n)[i] = s[(m + i) - 1] /\ (m + i) - 1 \in m .. n
<1>1. Len(s) \in Nat /\ DOMAIN s = 1 .. Len(s) /\ \A i \in 1 .. Len(s) : s[i] \in S
  BY LenProperties, ElementOfSeq
<1>2. \A i \in m .. n : s[i] \in S
  BY <1>1
<1>. PICK t : t = SubSeq(s, m, n)
  OBVIOUS
<1>3. /\ t \in Seq(S) /\ Len(t) = IF m <= n THEN n - m + 1 ELSE 0
      /\ \A i \in 1 .. n - m + 1 : t[i] = s[m + i - 1]
  BY <1>2, SubSeqProperties
<1>4. (IF m <= n THEN n - m + 1 ELSE 0) = (n + 1) - m /\ n - m + 1 = (n + 1) - m
      /\ \A i \in 1 .. (n + 1) - m : m + i - 1 = (m + i) - 1 /\ (m + i) - 1 \in m .. n
  OBVIOUS
<1>5. Len(t) = (n + 1) - m /\ DOMAIN t = 1 .. (n + 1) - m
  BY <1>3, <1>4, LenProperties
<1>. QED
  BY <1>3, <1>4, <1>5

\* What becomes of the branch when a turn begins.
LEMMA BeginIs ==
  ASSUME IndInv, Inside, BeginIndex, ~full
  PROVE  /\ TypeOK /\ txn = NoTxn /\ active = NoId /\ pc' = "idle" /\ Len(order) \in Nat /\ manifest[op.id].ops = NoOps
         /\ UNCHANGED <<file, txn, journals, calls, strange, missed>>
         /\ \E k \in 0 .. Len(order) :
              /\ Len(order') = (Len(order) + 1) - k /\ DOMAIN order' = 1 .. (Len(order) + 1) - k
              /\ \A a \in 1 .. (Len(order) + 1) - k :
                   /\ order'[a] = IF a + k = Len(order) + 1 THEN op.id ELSE order[a + k]
                   /\ order'[a] \in Ids /\ manifest'[order'[a]] = manifest[order'[a]]
                   /\ \A r : r.id = order'[a] => (r \in pending' <=> r \in pending)
<1>. PICK n : n = Len(order)
  OBVIOUS
<1>1. /\ TypeOK /\ order \in Seq(Ids) /\ IsInjective(order) /\ n \in Nat /\ active = NoId
      /\ Range(order) \subseteq used /\ op.id \in Ids /\ op.id \notin used /\ MaxCheckpoints \in Nat \ {0}
      /\ manifest \in [Ids -> Manifests]
  BY Owned, CheckpointAssumption DEF BeginIndex, IndInv, GateInv, Stage, TypeOK
<1>. PICK longer : longer = Append(order, op.id)
  OBVIOUS
<1>. PICK k : k = IF Len(longer) > MaxCheckpoints THEN Len(longer) - MaxCheckpoints ELSE 0
  OBVIOUS
<1>. PICK cut : cut = Range(SubSeq(longer, 1, k))
  OBVIOUS
<1>2. /\ longer \in Seq(Ids) /\ Len(longer) = n + 1 /\ longer[n + 1] = op.id /\ DOMAIN longer = 1 .. n + 1
      /\ IsInjective(longer) /\ \A i \in 1 .. n : longer[i] = order[i]
  BY <1>1, Longer, LenProperties
<1>3. k \in 0 .. n
  BY <1>1, <1>2
<1>4. /\ order' = SubSeq(longer, k + 1, n + 1)
      /\ manifest' = [c \in Ids |-> IF c \in cut THEN Blank("none") ELSE manifest[c]]
      /\ pending' = {r \in pending : r.id \notin cut}
  BY <1>2 DEF BeginIndex
<1>5. /\ Len(order') = (n + 1) - k /\ DOMAIN order' = 1 .. (n + 1) - k
      /\ \A a \in 1 .. (n + 1) - k : order'[a] = longer[a + k] /\ a + k \in k + 1 .. n + 1
  <2>. PICK m : m = k + 1
    OBVIOUS
  <2>. PICK e : e = n + 1
    OBVIOUS
  <2>1. m \in Nat /\ e \in Nat /\ 1 <= m /\ m <= e + 1 /\ e <= Len(longer)
    BY <1>1, <1>2, <1>3
  <2>2. /\ Len(order') = (e + 1) - m /\ DOMAIN order' = 1 .. (e + 1) - m
        /\ \A i \in 1 .. (e + 1) - m : order'[i] = longer[(m + i) - 1] /\ (m + i) - 1 \in m .. e
    <3>. PICK s : s = order'
      OBVIOUS
    <3>1. longer \in Seq(Ids) /\ s = SubSeq(longer, m, e)
      BY <1>2, <1>4
    <3>2. /\ Len(s) = (e + 1) - m /\ DOMAIN s = 1 .. (e + 1) - m
          /\ \A i \in 1 .. (e + 1) - m : s[i] = longer[(m + i) - 1] /\ (m + i) - 1 \in m .. e
      BY ONLY <2>1, <3>1, Pieces
    <3>. QED
      BY <3>2
  <2>3. \A i \in 1 .. (e + 1) - m : (m + i) - 1 = i + k
    BY <1>1, <1>3
  <2>4. ASSUME NEW i \in 1 .. (e + 1) - m PROVE order'[i] = longer[i + k] /\ i + k \in m .. e
    <3>. PICK j : j = (m + i) - 1
      OBVIOUS
    <3>1. j = i + k
      BY <2>3
    <3>2. order'[i] = longer[j] /\ j \in m .. e
      BY <2>2
    <3>. QED
      BY <3>1, <3>2
  <2>5. (e + 1) - m = (n + 1) - k
    BY <1>1, <1>3
  <2>. QED
    BY <2>2, <2>4, <2>5
<1>6. \A c \in cut : \E b \in 1 .. k : c = longer[b]
  <2>1. 1 \in Nat /\ k \in Nat /\ 1 <= 1 /\ 1 <= k + 1 /\ k <= Len(longer) /\ (k + 1) - 1 = k
        /\ \A i \in Int : (1 + i) - 1 = i
    BY <1>1, <1>2, <1>3
  <2>2. /\ DOMAIN SubSeq(longer, 1, k) = 1 .. (k + 1) - 1
        /\ \A i \in 1 .. (k + 1) - 1 : SubSeq(longer, 1, k)[i] = longer[(1 + i) - 1]
    BY <1>2, <2>1, Pieces
  <2>. QED
    BY <2>1, <2>2 DEF Range
<1>7. ASSUME NEW a \in 1 .. (n + 1) - k
      PROVE  /\ order'[a] = IF a + k = n + 1 THEN op.id ELSE order[a + k]
             /\ order'[a] \in Ids /\ order'[a] \notin cut
  <2>. PICK b : b = a + k
    OBVIOUS
  <2>1. b \in 1 .. n + 1 /\ k < b /\ order'[a] = longer[b]
    <3>1. order'[a] = longer[b] /\ b \in k + 1 .. n + 1
      BY <1>5
    <3>. QED
      BY <1>1, <1>3, <3>1
  <2>2. b # n + 1 => b \in 1 .. n
    <3>1. n \in Nat /\ b \in 1 .. n + 1
      BY <1>1, <2>1
    <3>. QED
      BY ONLY <3>1
  <2>3. longer[b] = IF b = n + 1 THEN op.id ELSE order[b]
    BY <1>2, <2>2
  <2>4. \A d \in 1 .. k : d \in 1 .. n + 1 /\ d # b
    BY <1>1, <1>3, <2>1
  <2>5. longer[b] \notin cut
    BY <1>2, <1>6, <2>1, <2>4 DEF IsInjective
  <2>6. longer[b] \in Ids
    BY <1>2, <2>1, ElementOfSeq
  <2>. QED
    BY <2>1, <2>3, <2>5, <2>6
<1>8. \A a \in 1 .. (n + 1) - k : /\ manifest'[order'[a]] = manifest[order'[a]]
                                  /\ \A r : r.id = order'[a] => (r \in pending' <=> r \in pending)
  <2>. TAKE a \in 1 .. (n + 1) - k
  <2>. PICK c : c = order'[a]
    OBVIOUS
  <2>1. c \in Ids /\ c \notin cut
    BY <1>7
  <2>. QED
    BY <1>4, <2>1
<1>9. txn = NoTxn /\ pc' = "idle" /\ manifest[op.id].ops = NoOps /\ UNCHANGED <<file, txn, journals, calls, strange, missed>>
  BY DEF Inside, BeginIndex, End, Blank, history
<1>10. \E d \in 0 .. Len(order) :
         /\ Len(order') = (Len(order) + 1) - d /\ DOMAIN order' = 1 .. (Len(order) + 1) - d
         /\ \A a \in 1 .. (Len(order) + 1) - d :
              /\ order'[a] = IF a + d = Len(order) + 1 THEN op.id ELSE order[a + d]
              /\ order'[a] \in Ids /\ manifest'[order'[a]] = manifest[order'[a]]
              /\ \A r : r.id = order'[a] => (r \in pending' <=> r \in pending)
  <2>1. k \in 0 .. Len(order)
    BY <1>3
  <2>. USE <2>1
  <2>. WITNESS k \in 0 .. Len(order)
  <2>. QED
    BY <1>5, <1>7, <1>8
<1>. QED
  BY <1>1, <1>9, <1>10

\* A turn begins where nothing gates: every line is tied up to its end, and so it is
\* with the new turn.
LEMMA HeldBeginIndex ==
  ASSUME IndInv, Watched, UndoInv, BeginIndex
  PROVE  Held'
<1>1. CASE full
  <2>1. /\ TypeOK /\ Held /\ UNCHANGED <<file, order, manifest, txn, pending, calls, journals, strange, missed>>
        /\ pc = "index" /\ pc' = "idle"
    BY <1>1 DEF BeginIndex, IndInv, UndoInv, End, history
  <2>2. Order' = Order /\ Mans' = Mans
    BY <2>1, BranchSame
  <2>3. Breaks \subseteq Breaks'
    BY <2>1, <2>2 DEF Breaks, Undone, Waiting
  <2>. QED
    BY <2>1, <2>2, <2>3, HeldCalm
<1>2. CASE ~full
  <2>. PICK n : n = Len(order)
    OBVIOUS
  <2>. PICK id : id = op.id
    OBVIOUS
  <2>1. /\ TypeOK /\ txn = NoTxn /\ active = NoId /\ pc = "index" /\ pc' = "idle" /\ n \in Nat /\ manifest[id].ops = NoOps
        /\ UNCHANGED <<file, txn, journals, calls, strange, missed>> /\ Held /\ gate = {}
    BY <1>2, BeginIs DEF UndoInv, BeginIndex, IndInv, GateInv, Stage
  <2>. PICK k \in 0 .. n :
         /\ Len(order') = (n + 1) - k /\ DOMAIN order' = 1 .. (n + 1) - k
         /\ \A a \in 1 .. (n + 1) - k :
              /\ order'[a] = IF a + k = n + 1 THEN id ELSE order[a + k]
              /\ order'[a] \in Ids /\ manifest'[order'[a]] = manifest[order'[a]]
              /\ \A r : r.id = order'[a] => (r \in pending' <=> r \in pending)
    BY <1>2, BeginIs DEF UndoInv
  <2>2. Order = order /\ Mans = manifest /\ Order' = order' /\ Mans' = manifest'
    BY <2>1 DEF Order, Mans
  <2>3. Breaks = {n + 1}
    <3>1. \A s \in Breaks : s = n + 1
      BY <2>1, <2>2, BreaksGate
    <3>2. n + 1 \in Breaks
      BY <2>2 DEF Breaks
    <3>. QED
      BY <3>1, <3>2
  <2>4. (n + 2) - k \in Breaks'
    <3>1. (n + 2) - k = ((n + 1) - k) + 1
      BY <2>1
    <3>. QED
      BY <2>2, <3>1 DEF Breaks
  <2>5. \A l \in Calls : calls[l] = Idle
    BY <2>1 DEF UndoInv, Watched
  <2>6. \A r : ~Live(r) /\ ~Live(r)'
    BY <2>1, <2>5 DEF Live
  <2>7. ASSUME NEW p \in Paths, ~Astray(p) PROVE Awaiting(p)'
    <3>. PICK D : D = Line(p)
      OBVIOUS
    <3>. PICK E : E = Line(p)'
      OBVIOUS
    <3>. PICK V : V = Sure(p)
      OBVIOUS
    <3>. PICK W : W = Sure(p)'
      OBVIOUS
    <3>. PICK X : X = Ends(p)
      OBVIOUS
    <3>1. Tied(D, n + 1, V, X)
      BY <2>1, <2>3, <2>7 DEF Held, Awaiting
    <3>2. Ends(p)' = X
      BY <2>1, <2>5 DEF Ends, Running
    <3>3. D \in [1 .. n -> Seq(Changes)] /\ \A a \in 1 .. n : D[a] = manifest[order[a]].ops[p]
      BY <2>1, <2>2, Lines
    <3>4. DOMAIN E = 1 .. (n + 1) - k /\ \A a \in 1 .. (n + 1) - k : E[a] = manifest[order'[a]].ops[p]
      BY <2>2 DEF Line
    <3>5. \A a \in 1 .. (n + 1) - k : E[a] = IF a + k = n + 1 THEN << >> ELSE D[a + k]
      <4>. TAKE a \in 1 .. (n + 1) - k
      <4>1. CASE a + k = n + 1
        BY <2>1, <3>4, <4>1 DEF NoOps
      <4>2. CASE a + k # n + 1
        <5>1. a + k \in 1 .. n
          BY <2>1, <4>2
        <5>. QED
          BY <3>3, <3>4, <4>2, <5>1
      <4>. QED
        BY <4>1, <4>2
    <3>6. W \subseteq 1 .. (n + 1) - k
      BY <2>2 DEF Sure
    <3>7. ASSUME NEW a \in W, a + k # n + 1 PROVE a + k \in V
      <4>1. a \in 1 .. (n + 1) - k /\ \A b \in 1 .. (n + 1) - k : a <= b => Spared(Order[b], p)'
        BY <2>2, <3>6, <3>7 DEF Sure
      <4>2. ASSUME NEW b \in 1 .. n, a + k <= b PROVE Spared(Order[b], p)
        <5>. PICK d : d = b - k
          OBVIOUS
        <5>1. d \in 1 .. (n + 1) - k /\ a <= d /\ d + k = b /\ d + k # n + 1
          BY <2>1, <4>1, <4>2
        <5>2. Spared(Order[d], p)' /\ order'[d] = order[b]
          BY <4>1, <5>1
        <5>3. p \notin manifest'[order'[d]].warn /\ \A r \in pending' : r.path = p => r.id # order'[d]
          BY <2>2, <2>6, <5>2 DEF Spared
        <5>4. p \notin manifest[order[b]].warn
          BY <5>1, <5>2, <5>3
        <5>5. \A r \in pending : r.path = p => r.id # order[b]
          BY <5>1, <5>2, <5>3
        <5>. QED
          BY <2>2, <5>4, <5>5 DEF Spared
      <4>3. DOMAIN Order = 1 .. n /\ a + k \in 1 .. n
        <5>1. DOMAIN Order = 1 .. n
          BY <2>1, <2>2, Branches
        <5>2. a + k \in 1 .. n
          BY <2>1, <3>7, <4>1
        <5>. QED
          BY <5>1, <5>2
      <4>. QED
        BY <4>2, <4>3 DEF Sure
    <3>8. Shifting(D, E, n, k, V, W)
      <4>1. k \in 0 .. n + 1
        BY <2>1
      <4>. QED
        BY <2>1, <3>3, <3>4, <3>5, <3>6, <3>7, <4>1 DEF Shifting
    <3>9. Tied(E, (n + 2) - k, W, X)
      BY ONLY <3>1, <3>8, TiedShifted
    <3>. QED
      BY <2>4, <3>2, <3>9 DEF Awaiting
  <2>8. ASSUME NEW p \in Paths, Astray(p) PROVE Awaiting(p)'
    BY <2>1, <2>8 DEF Awaiting, Astray
  <2>. QED
    BY <2>1, <2>7, <2>8 DEF Held
<1>. QED
  BY <1>1, <1>2

\* What becomes of the branch when its last turns are folded into one that stays.
LEMMA FoldIs ==
  ASSUME IndInv, CompletedFirst, Fold, ~full
  PROVE  /\ TypeOK /\ txn = NoTxn /\ txn' # NoTxn /\ run = NoRun /\ run' = NoRun /\ active = NoId /\ pc = "go" /\ pc' = "apply"
         /\ Len(order) \in Nat /\ op.keep \in Nat /\ op.keep < Len(order)
         /\ UNCHANGED <<file, pending, calls, journals, missed>>
         /\ strange' = strange \cup {p \in Paths : gate \cap Range(SubSeq(order, op.keep + 1, Len(order))) # {}}
         /\ Len(Order') = op.keep /\ DOMAIN Order' = 1 .. op.keep
         /\ \A a \in 1 .. op.keep : /\ Order'[a] = order[a] /\ order[a] \in Ids
                                    /\ a # op.keep => Mans'[order[a]] = manifest[order[a]]
         /\ op.keep # 0 =>
              \E tail : /\ tail = SubSeq(order, op.keep, Len(order))
                        /\ \A p \in Paths : Mans'[order[op.keep]].ops[p] = Chain(p, tail)
                        /\ Mans'[order[op.keep]].warn = Warned(Range(tail))
                        /\ \A c \in Range(tail) : manifest[c].st # "open"
<1>. DEFINE kept == SubSeq(order, 1, op.keep)
            removed == SubSeq(order, op.keep + 1, Len(order))
            tail == SubSeq(order, op.keep, Len(order))
            folded(c) == [manifest[c] EXCEPT !.ops = [p \in Paths |-> Chain(p, tail)],
                            !.warn = Warned(Range(tail)), !.blind = Blinded(Range(tail))]
            after(c) == IF c \in Range(removed) THEN Blank("retired")
                        ELSE IF op.keep > 0 /\ c = order[op.keep] THEN folded(c) ELSE manifest[c]
<1>1. /\ TypeOK /\ run = NoRun /\ active = NoId /\ order \in Seq(Ids) /\ IsInjective(order) /\ Len(order) \in Nat
      /\ pc = "go" /\ op.kind = "reconcile" /\ op.keep \in Nat /\ op.keep < Len(order) /\ Unfinished = {}
      /\ txn = NoTxn /\ manifest \in [Ids -> Manifests]
  BY Owned DEF Fold, TypeOK, CompletedFirst
<1>2. UNCHANGED <<file, pending, calls, journals, missed>>
  BY DEF Fold, memory
<1>3. txn' = [order |-> kept, manifest |-> [c \in Ids |-> after(c)]] /\ pc' = "apply" /\ UNCHANGED <<op, scan, run>>
  BY Zenon DEF Fold
<1>4. strange' = strange \cup {p \in Paths : gate \cap Range(removed) # {}}
  BY Zenon DEF Fold
<1>. PICK n : n = Len(order)
  OBVIOUS
<1>. PICK k : k = op.keep
  OBVIOUS
<1>5. n \in Nat /\ k \in 0 .. n /\ k < n /\ DOMAIN order = 1 .. n /\ \A a \in 1 .. n : order[a] \in Ids
  BY <1>1, LenProperties, ElementOfSeq
<1>6. txn' # NoTxn
  <2>1. DOMAIN txn'.manifest = Ids /\ DOMAIN NoTxn.manifest = {}
    <3>. HIDE DEF after, kept
    <3>. QED
      BY <1>3 DEF NoTxn
  <2>2. n \in 1 .. n
    BY <1>5
  <2>3. Ids # {}
    BY <1>5, <2>2
  <2>. QED
    BY <2>1, <2>3
<1>7. Order' = kept /\ Mans' = [c \in Ids |-> after(c)]
  BY <1>3, <1>6 DEF Order, Mans
<1>8. Len(kept) = k /\ DOMAIN kept = 1 .. k /\ \A a \in 1 .. k : kept[a] = order[a]
  <2>1. 1 \in Nat /\ 1 <= 1 /\ 1 <= k + 1 /\ k <= Len(order) /\ (k + 1) - 1 = k /\ k \in Nat
        /\ \A a \in 1 .. k : (1 + a) - 1 = a
    BY <1>5
  <2>2. /\ Len(kept) = (k + 1) - 1 /\ DOMAIN kept = 1 .. (k + 1) - 1
        /\ \A a \in 1 .. (k + 1) - 1 : kept[a] = order[(1 + a) - 1]
    BY <1>1, <2>1, Pieces
  <2>. QED
    BY <2>1, <2>2
<1>9. ASSUME NEW a \in 1 .. k PROVE order[a] \notin Range(removed)
  <2>. PICK m : m = k + 1
    OBVIOUS
  <2>. PICK r : r = removed
    OBVIOUS
  <2>1. m \in Nat /\ 1 <= m /\ m <= n + 1 /\ n <= Len(order) /\ r = SubSeq(order, m, n)
    BY <1>5
  <2>a. order \in Seq(Ids) /\ n \in Nat
    BY <1>1, <1>5
  <2>2. DOMAIN r = 1 .. (n + 1) - m /\ \A i \in 1 .. (n + 1) - m : r[i] = order[(m + i) - 1] /\ (m + i) - 1 \in m .. n
    BY ONLY <2>1, <2>a, Pieces
  <2>3. \A b \in m .. n : b \in 1 .. n /\ a \in 1 .. n /\ a # b
    BY <1>5
  <2>4. ASSUME NEW i \in DOMAIN r PROVE r[i] # order[a]
    <3>. PICK b : b = (m + i) - 1
      OBVIOUS
    <3>1. b \in m .. n /\ r[i] = order[b]
      BY <2>2
    <3>. QED
      BY <1>1, <1>5, <2>3, <3>1 DEF IsInjective
  <2>. QED
    BY <2>4 DEF Range
<1>10. \A a \in 1 .. k : a # k => a \in 1 .. n /\ k \in 1 .. n /\ k > 0
  BY <1>5
<1>11. \A a \in 1 .. k : a # k => order[a] # order[k]
  BY <1>1, <1>5, <1>10 DEF IsInjective
<1>12. \A a \in 1 .. k : order[a] \in Ids
  BY <1>5
<1>13. ASSUME k # 0
       PROVE  \E t : /\ t = tail
                     /\ \A p \in Paths : Mans'[order[k]].ops[p] = Chain(p, t)
                     /\ Mans'[order[k]].warn = Warned(Range(t))
                     /\ \A c \in Range(t) : manifest[c].st # "open"
  <2>1. k > 0 /\ k \in 1 .. k /\ order[k] \in Ids
    BY <1>5, <1>13
  <2>2. manifest[order[k]] \in Manifests
    BY <1>1, <2>1
  <2>3. after(order[k]) = folded(order[k])
    BY <1>9, <2>1
  <2>4. Mans'[order[k]] = folded(order[k])
    BY <1>7, <2>1, <2>3
  <2>5. /\ \A p \in Paths : folded(order[k]).ops[p] = Chain(p, tail)
        /\ folded(order[k]).warn = Warned(Range(tail))
    <3>. HIDE DEF tail
    <3>. QED
      BY <2>2 DEF Manifests
  <2>6. \A c \in Range(tail) : manifest[c].st # "open"
    BY <1>1, <2>1 DEF Unfinished
  <2>. HIDE DEF tail, folded, after
  <2>. WITNESS tail
  <2>. QED
    BY <2>4, <2>5, <2>6
<1>14. ASSUME NEW a \in 1 .. k, a # k PROVE Mans'[order[a]] = manifest[order[a]]
  BY <1>7, <1>9, <1>11, <1>12, <1>14
<1>15. /\ UNCHANGED <<file, pending, calls, journals, missed>> /\ run' = NoRun
       /\ strange' = strange \cup {p \in Paths : gate \cap Range(SubSeq(order, op.keep + 1, Len(order))) # {}}
  BY <1>1, <1>2, <1>3, <1>4
<1>16. \A a \in 1 .. k : /\ Order'[a] = order[a] /\ order[a] \in Ids
                         /\ a # k => Mans'[order[a]] = manifest[order[a]]
  BY <1>7, <1>8, <1>12, <1>14
<1>. HIDE DEF kept, removed, folded, after
<1>. QED
  BY <1>1, <1>3, <1>5, <1>6, <1>7, <1>8, <1>13, <1>15, <1>16

\* Turns are folded where no restore not done lies among them: their changes are
\* then the changes of the one they become.
LEMMA HeldFold ==
  ASSUME IndInv, Watched, UndoInv, CompletedFirst, Fold
  PROVE  Held'
<1>1. CASE full
  <2>1. /\ TypeOK /\ Held /\ UNCHANGED <<file, order, manifest, txn, pending, calls, journals, strange, missed>>
        /\ pc = "go" /\ pc' = "idle"
    BY <1>1 DEF Fold, IndInv, UndoInv, End, memory
  <2>2. Order' = Order /\ Mans' = Mans
    BY <2>1, BranchSame
  <2>3. Breaks \subseteq Breaks'
    BY <2>1, <2>2 DEF Breaks, Undone, Waiting
  <2>. QED
    BY <2>1, <2>2, <2>3, HeldCalm
<1>2. CASE ~full
  <2>. PICK n : n = Len(order)
    OBVIOUS
  <2>. PICK k : k = op.keep
    OBVIOUS
  <2>. PICK removed : removed = SubSeq(order, k + 1, n)
    OBVIOUS
  <2>1. /\ TypeOK /\ txn = NoTxn /\ run' = NoRun /\ active = NoId /\ pc = "go" /\ pc' = "apply"
        /\ n \in Nat /\ k \in Nat /\ k < n /\ Held
        /\ UNCHANGED <<file, pending, calls, journals, missed>>
        /\ strange' = strange \cup {p \in Paths : gate \cap Range(removed) # {}}
        /\ Len(Order') = k /\ DOMAIN Order' = 1 .. k
        /\ \A a \in 1 .. k : /\ Order'[a] = order[a] /\ order[a] \in Ids
                             /\ a # k => Mans'[order[a]] = manifest[order[a]]
    BY <1>2, FoldIs DEF UndoInv
  <2>2. k # 0 => \E tail : /\ tail = SubSeq(order, k, n)
                           /\ \A p \in Paths : Mans'[order[k]].ops[p] = Chain(p, tail)
                           /\ Mans'[order[k]].warn = Warned(Range(tail))
                           /\ \A c \in Range(tail) : manifest[c].st # "open"
    BY <1>2, FoldIs
  <2>3. Order = order /\ Mans = manifest /\ order \in Seq(Ids) /\ DOMAIN order = 1 .. n /\ manifest \in [Ids -> Manifests]
    BY <2>1, Branches DEF Order, Mans
  <2>4. CASE gate \cap Range(removed) # {}
    <3>1. \A p \in Paths : Astray(p)'
      BY <2>1, <2>4 DEF Astray
    <3>. QED
      BY <2>1, <3>1 DEF Held, Awaiting
  <2>5. CASE gate \cap Range(removed) = {}
    <3>1. \A s \in k + 1 .. n : order[s] \notin gate
      <4>. PICK m : m = k + 1
        OBVIOUS
      <4>1. m \in Nat /\ 1 <= m /\ m <= n + 1 /\ n <= Len(order)
        BY <2>1
      <4>2. DOMAIN removed = 1 .. (n + 1) - m /\ \A i \in 1 .. (n + 1) - m : removed[i] = order[(m + i) - 1]
        BY <2>1, <2>3, <4>1, Pieces
      <4>3. ASSUME NEW s \in m .. n PROVE order[s] \in Range(removed)
        <5>1. PICK i : i = (s + 1) - m
          OBVIOUS
        <5>2. m \in Int /\ n \in Int /\ s \in m .. n
          BY <2>1, <4>1
        <5>3. i \in 1 .. (n + 1) - m /\ (m + i) - 1 = s
          BY ONLY <5>1, <5>2
        <5>4. i \in DOMAIN removed /\ removed[i] = order[s]
          BY <4>2, <5>3
        <5>. QED
          BY <5>4 DEF Range
      <4>. QED
        BY <2>5, <4>3
    <3>2. \A s \in Breaks : s = n + 1 \/ (s \in 1 .. k /\ s \in Breaks')
      <4>. TAKE s \in Breaks
      <4>1. s = n + 1 \/ (s \in 1 .. n /\ order[s] \in gate)
        BY <2>1, <2>3, BreaksGate
      <4>2. s \in 1 .. n /\ s \notin k + 1 .. n => s \in 1 .. k
        BY <2>1
      <4>3. ASSUME s # n + 1 PROVE s \in 1 .. k
        BY <3>1, <4>1, <4>2, <4>3
      <4>4. ASSUME s # n + 1 PROVE s \in Breaks'
        <5>1. Order'[s] = Order[s] /\ s \in DOMAIN Order'
          BY <2>1, <2>3, <4>3, <4>4
        <5>2. Waiting' = DOMAIN journals /\ Waiting = DOMAIN journals
          BY <2>1, BreaksGate DEF Waiting
        <5>3. PICK j \in DOMAIN journals : Undone(j) /\ journals[j].id = Order[s]
          BY <2>3, <4>4, <5>2 DEF Breaks
        <5>4. Undone(j)' /\ journals'[j].id = Order'[s]
          BY <2>1, <5>1, <5>3 DEF Undone
        <5>. QED
          BY <5>1, <5>2, <5>3, <5>4 DEF Breaks
      <4>. QED
        BY <4>3, <4>4
    <3>3. k + 1 \in Breaks'
      BY <2>1 DEF Breaks
    <3>4. \A l \in Calls : calls[l] = Idle
      BY <2>1 DEF UndoInv, Watched
    <3>5. \A r : ~Live(r) /\ ~Live(r)'
      BY <2>1, <3>4 DEF Live
    <3>6. ASSUME NEW p \in Paths, ~Astray(p) PROVE Awaiting(p)'
      <4>. PICK D : D = Line(p)
        OBVIOUS
      <4>. PICK E : E = Line(p)'
        OBVIOUS
      <4>. PICK V : V = Sure(p)
        OBVIOUS
      <4>. PICK W : W = Sure(p)'
        OBVIOUS
      <4>. PICK X : X = Ends(p)
        OBVIOUS
      <4>1. PICK s \in Breaks : Tied(D, s, V, X)
        BY <2>1, <3>6 DEF Held, Awaiting
      <4>2. Ends(p)' = X
        BY <2>1, <3>4 DEF Ends, Running
      <4>3. W \subseteq 1 .. k
        BY <2>1 DEF Sure
      <4>4. CASE k = 0
        <5>1. W = {}
          BY <4>3, <4>4
        <5>2. Tied(E, k + 1, W, X)
          BY <5>1 DEF Tied
        <5>. QED
          BY <3>3, <4>2, <5>2 DEF Awaiting
      <4>5. CASE k # 0
        <5>. PICK tail : /\ tail = SubSeq(order, k, n)
                         /\ \A q \in Paths : Mans'[order[k]].ops[q] = Chain(q, tail)
                         /\ Mans'[order[k]].warn = Warned(Range(tail))
                         /\ \A c \in Range(tail) : manifest[c].st # "open"
          BY <2>2, <4>5
        <5>1. /\ k \in 1 .. n /\ k \in 1 .. k /\ 1 <= k /\ k <= n + 1 /\ n <= Len(order) /\ (n + 1) - k \in Nat
              /\ \A i \in 1 .. (n + 1) - k : (k + i) - 1 \in 1 .. n
          <6>1. k \in 1 .. n /\ n \in Nat /\ n <= Len(order)
            BY <2>1, <4>5
          <6>. QED
            BY ONLY <6>1
        <5>2. /\ DOMAIN tail = 1 .. (n + 1) - k
              /\ \A i \in 1 .. (n + 1) - k : tail[i] = order[(k + i) - 1] /\ (k + i) - 1 \in k .. n
          BY <2>1, <2>3, <5>1, Pieces
        <5>3. D \in [1 .. n -> Seq(Changes)] /\ \A a \in 1 .. n : D[a] = manifest[order[a]].ops[p]
          BY <2>1, <2>3, Lines
        <5>. PICK T : T = [i \in DOMAIN tail |-> manifest[tail[i]].ops[p]]
          OBVIOUS
        <5>4. ASSUME NEW i \in 1 .. (n + 1) - k PROVE manifest[tail[i]].ops[p] = D[(k + i) - 1] /\ D[(k + i) - 1] \in Seq(Changes)
          <6>. PICK j : j = (k + i) - 1
            OBVIOUS
          <6>1. j \in 1 .. n /\ tail[i] = order[j]
            BY <5>1, <5>2
          <6>2. manifest[order[j]].ops[p] = D[j] /\ D[j] \in Seq(Changes)
            BY <5>3, <6>1
          <6>. QED
            BY <6>1, <6>2
        <5>5. T \in [1 .. (n + 1) - k -> Seq(Changes)] /\ \A i \in 1 .. (n + 1) - k : T[i] = D[(k + i) - 1]
          BY <5>2, <5>4
        <5>6. DOMAIN E = 1 .. k /\ \A a \in 1 .. k : E[a] = Mans'[order[a]].ops[p]
          BY <2>1 DEF Line
        <5>7. E[k] = FlattenSeq(T)
          BY <5>1, <5>6 DEF Chain
        <5>8. \A a \in 1 .. k : a # k => E[a] = D[a]
          <6>. TAKE a \in 1 .. k
          <6>1. a \in 1 .. n
            BY <2>1
          <6>. QED
            BY <2>1, <5>3, <5>6, <6>1
        <5>9. ASSUME NEW a \in W, NEW b \in a .. n PROVE b \in V
          <6>1. a \in 1 .. k /\ \A d \in 1 .. k : a <= d => Spared(Order[d], p)'
            BY <2>1, <4>3, <5>9 DEF Sure
          <6>2. ASSUME NEW d \in 1 .. n, b <= d PROVE Spared(Order[d], p)
            <7>1. CASE d < k
              <8>1. d \in 1 .. k /\ a <= d /\ d # k
                BY <2>1, <5>9, <6>1, <6>2, <7>1
              <8>2. Spared(Order[d], p)' /\ Order'[d] = order[d] /\ Mans'[order[d]] = manifest[order[d]]
                BY <2>1, <6>1, <8>1
              <8>3. p \notin manifest[order[d]].warn /\ \A r \in pending : r.path = p => r.id # order[d]
                BY <2>1, <3>5, <8>2 DEF Spared
              <8>. QED
                BY <2>3, <8>3 DEF Spared
            <7>2. CASE ~(d < k)
              <8>1. a <= k /\ k \in 1 .. k
                BY <5>1, <6>1
              <8>2. Spared(Order[k], p)' /\ Order'[k] = order[k]
                BY <2>1, <6>1, <8>1
              <8>3. p \notin Warned(Range(tail))
                BY <8>2 DEF Spared
              <8>4. order[d] \in Range(tail)
                <9>1. PICK i : i = (d + 1) - k
                  OBVIOUS
                <9>2. k \in Int /\ n \in Int /\ d \in 1 .. n /\ ~(d < k)
                  BY <2>1, <7>2
                <9>3. i \in 1 .. (n + 1) - k /\ (k + i) - 1 = d
                  BY ONLY <9>1, <9>2
                <9>4. i \in DOMAIN tail /\ tail[i] = order[d]
                  BY <5>2, <9>3
                <9>. QED
                  BY <9>4 DEF Range
              <8>5. p \notin manifest[order[d]].warn /\ manifest[order[d]].st # "open"
                BY <8>3, <8>4 DEF Warned
              <8>6. order[d] \in Range(order)
                BY <2>3 DEF Range
              <8>7. \A r \in pending : r.id # order[d]
                BY <2>3, <8>5, <8>6 DEF UndoInv, OpenRecords
              <8>. QED
                BY <2>3, <8>5, <8>7 DEF Spared
            <7>. QED
              BY <7>1, <7>2
          <6>3. b \in 1 .. n
            BY <2>1, <5>9, <6>1
          <6>. QED
            BY <2>3, <6>2, <6>3 DEF Sure
        <5>. PICK r : r = IF s = n + 1 THEN k + 1 ELSE s
          OBVIOUS
        <5>10. /\ r \in Breaks' /\ s \in 1 .. n + 1 /\ r \in Int
               /\ ((s = r /\ r <= k) \/ (s = n + 1 /\ r = k + 1))
          <6>1. CASE s = n + 1
            BY <2>1, <3>3, <6>1
          <6>2. CASE s # n + 1
            BY <2>1, <3>2, <6>2
          <6>. QED
            BY <6>1, <6>2
        <5>11. Folding(D, E, T, n, k, V, W, s, r)
          BY <2>1, <4>3, <5>1, <5>3, <5>5, <5>6, <5>7, <5>8, <5>9, <5>10 DEF Folding
        <5>12. Tied(E, r, W, X)
          BY ONLY <4>1, <5>11, TiedFolded
        <5>. QED
          BY <4>2, <5>10, <5>12 DEF Awaiting
      <4>. QED
        BY <4>4, <4>5
    <3>7. ASSUME NEW p \in Paths, Astray(p) PROVE Awaiting(p)'
      BY <2>1, <3>7 DEF Awaiting, Astray
    <3>. QED
      BY <2>1, <3>6, <3>7 DEF Held
  <2>. QED
    BY <2>4, <2>5
<1>. QED
  BY <1>1, <1>2

LEMMA HeldStep ==
  ASSUME IndInv, Watched, UndoInv, CompletedFirst, [Next]_vars
  PROVE  Held'
<1>1. Held /\ Inside /\ Between
  BY DEF UndoInv
<1>2. CASE Turn
  BY <1>1, <1>2, HeldFinish, HeldPre, HeldToolWrite, HeldPost, HeldDiscard DEF Turn
<1>3. CASE Step
  <2>1. CASE ApplyManifest \/ ApplyIndex \/ ApplyDone \/ ApplyError
    BY <2>1, HeldApply
  <2>2. CASE Scan \/ ScanDone
    BY <1>1, <2>2, HeldScan
  <2>3. CASE CloseTurn \/ Plan
    BY <1>1, <2>3, HeldCloseTurn, HeldPlan
  <2>4. CASE (\E p \in Paths : Compare(p)) \/ Swap \/ Commit
    BY <1>1, <2>4, HeldRest, HeldSwap, HeldCommitFull, HeldCommit
  <2>5. CASE Close \/ Clear \/ Mark
    BY <1>1, <2>5, HeldClose
  <2>6. CASE PlanError \/ GoNowhere \/ GoRestore \/ BeginRefused \/ GoError
    BY <1>1, <2>6, HeldGo
  <2>7. CASE BeginManifest \/ BeginIndex \/ Fold
    BY <1>1, <2>7, HeldBeginManifest, HeldBeginIndex, HeldFold
  <2>. QED
    BY <1>3, <2>1, <2>2, <2>3, <2>4, <2>5, <2>6, <2>7 DEF Step
<1>4. CASE Restart \/ \E o \in Ops : Acquire(o)
  BY <1>1, <1>4, HeldScan
<1>5. CASE (\E p \in Paths : UserEdit(p)) \/ Kill \/ FillUp \/ FreeUp \/ UNCHANGED vars
  BY <1>1, <1>5, HeldEdit, HeldKill, HeldRest
<1>. QED
  BY <1>2, <1>3, <1>4, <1>5 DEF Next
-----------------------------------------------------------------------------
(* Every step keeps the rest *)

LEMMA OpenSame ==
  ASSUME OpenRecords, Order' = Order, \A c \in Range(Order) : Mans'[c].st = Mans[c].st, pending' \subseteq pending
  PROVE  OpenRecords'
BY DEF OpenRecords

LEMMA OpenStep ==
  ASSUME IndInv, UndoInv, CompletedFirst, [Next]_vars
  PROVE  OpenRecords'
<1>1. TypeOK /\ OpenRecords /\ Inside /\ Between /\ manifest \in [Ids -> Manifests] /\ Range(Order) \subseteq Ids
  BY Branches DEF UndoInv, IndInv, TypeOK
<1>2. CASE Turn
  <2>1. active # NoId
    BY <1>2 DEF Turn, Finish, Pre, PreUnknown, ToolWrite, Post, Discard, InTurn
  <2>2. /\ txn = NoTxn /\ Order = order /\ Mans = manifest /\ active \in Ids /\ manifest[active] \in Manifests
        /\ manifest[active].st = "open"
    BY <1>1, <2>1, TurnIs DEF Between
  <2>3. UNCHANGED <<order, txn>>
    BY <1>2 DEF Turn, Finish, Pre, PreUnknown, ToolWrite, Post, Discard, disk
  <2>4. Order' = Order /\ Mans' = manifest'
    BY <2>2, <2>3 DEF Order, Mans
  <2>5. CASE Finish
    <3>1. CASE full
      <4>1. UNCHANGED <<manifest, pending>>
        BY <2>5, <3>1 DEF Finish
      <4>. QED
        BY <1>1, <2>2, <2>4, <4>1, OpenSame
    <3>2. CASE ~full
      <4>1. manifest' = [manifest EXCEPT ![active] = Finalized(active)] /\ pending' = {r \in pending : r.id # active}
        BY <2>5, <3>2 DEF Finish, Save
      <4>. QED
        BY <1>1, <2>2, <2>4, <4>1 DEF OpenRecords
    <3>. QED
      BY <3>1, <3>2
  <2>6. ASSUME NEW k \in Calls, NEW p \in Paths, Pre(k, p) PROVE OpenRecords'
    <3>1. UNCHANGED manifest /\ \A r \in pending' : r \in pending \/ r.id = active
      BY <2>6 DEF Pre
    <3>. QED
      BY <1>1, <2>2, <2>4, <3>1 DEF OpenRecords
  <2>7. ASSUME NEW k \in Calls, NEW p \in Paths, PreUnknown(k, p) PROVE OpenRecords'
    <3>1. manifest' = [manifest EXCEPT ![active] = [manifest[active] EXCEPT !.blind = TRUE]] /\ UNCHANGED pending
      BY <2>7 DEF PreUnknown, Save
    <3>2. \A c \in Ids : manifest'[c].st = manifest[c].st
      BY <1>1, <2>2, <3>1 DEF Manifests
    <3>. QED
      BY <1>1, <2>2, <2>4, <3>1, <3>2, OpenSame
  <2>8. ASSUME NEW k \in Calls, Post(k) PROVE OpenRecords'
    <3>1. UNCHANGED pending
      BY <2>8 DEF Post
    <3>2. PICK q \in Paths : Resaves(active, q)
      BY <1>1, <2>8, PostSaves
    <3>3. manifest \in [Ids -> Manifests] /\ active \in Ids
      BY <1>1, <2>2 DEF TypeOK
    <3>4. \A c \in Ids : manifest'[c].st = manifest[c].st
      BY <3>2, <3>3, Resaved
    <3>. QED
      BY <1>1, <2>2, <2>4, <3>1, <3>4, OpenSame
  <2>9. ASSUME NEW k \in Calls, ToolWrite(k) \/ Discard(k) PROVE OpenRecords'
    <3>1. UNCHANGED manifest /\ pending' \subseteq pending
      BY <2>9 DEF ToolWrite, Discard, disk
    <3>. QED
      BY <1>1, <2>2, <2>4, <3>1, OpenSame
  <2>. QED
    BY <1>2, <2>5, <2>6, <2>7, <2>8, <2>9 DEF Turn
<1>3. CASE ApplyManifest \/ ApplyIndex \/ ApplyDone \/ ApplyError
  <2>1. pending' \subseteq pending
    BY <1>3 DEF ApplyManifest, ApplyIndex, ApplyDone, ApplyError, disk
  <2>. QED
    BY <1>1, <1>3, <2>1, ApplySame, OpenSame
<1>4. CASE UNCHANGED <<order, manifest, txn, pending>>
  BY <1>1, <1>4, BranchSame, OpenSame
<1>5. CASE CloseTurn
  <2>1. txn = NoTxn /\ UNCHANGED <<order, txn>> /\ pc \in {"plan", "go"}
    BY <1>5 DEF CloseTurn, CompletedFirst
  <2>2. PICK c \in Unfinished : manifest' = [manifest EXCEPT ![c] = Finalized(c)] /\ pending' = {r \in pending : r.id # c}
    BY <1>5 DEF CloseTurn, Save
  <2>3. Order' = Order /\ Mans' = manifest' /\ Mans = manifest /\ c \in Ids
    BY <2>1, UnfinishedIs DEF Order, Mans
  <2>. QED
    BY <1>1, <2>2, <2>3 DEF OpenRecords
<1>6. CASE Commit /\ ~full
  <2>1. /\ pc = "files" /\ pending' = pending /\ txn = NoTxn /\ order \in Seq(Ids)
        /\ txn' = [order |-> IF Clean /\ ~run.ret THEN Earlier ELSE order, manifest |-> [c \in Ids |-> Restored(c)]]
    BY <1>1, <1>6 DEF Commit, Inside, TypeOK
  <2>2. txn' # NoTxn /\ Mans' = [c \in Ids |-> Restored(c)] /\ Order = order /\ Mans = manifest
        /\ Order' = IF Clean /\ ~run.ret THEN Earlier ELSE order
    <3>1. DOMAIN txn'.manifest = Ids /\ DOMAIN NoTxn.manifest = {} /\ Ids # {}
      BY <1>1, <2>1, AtWork DEF NoTxn, Restoring, IndInv
    <3>2. txn' # NoTxn
      BY <3>1
    <3>. QED
      BY <2>1, <3>2 DEF Order, Mans
  <2>3. Len(order) \in Nat /\ DOMAIN order = 1 .. Len(order) /\ Start \in 1 .. Len(order)
    BY <1>1, <2>1, LenProperties, StartIs
  <2>4. \A a \in 1 .. Start - 1 : a \in DOMAIN order
    BY <2>3
  <2>5. Range(Order') \subseteq Range(order)
    BY <1>1, <2>1, <2>2, <2>4, Parts DEF Range
  <2>6. ASSUME NEW r \in pending, r.id \in Range(Order') PROVE Mans'[r.id].st = "open"
    <3>1. r.id \in Range(order) /\ r.id \in Ids /\ manifest[r.id].st = "open"
      BY <1>1, <2>2, <2>5, <2>6 DEF OpenRecords
    <3>2. PICK a \in 1 .. Len(order) : r.id = order[a]
      BY <2>3, <3>1 DEF Range
    <3>3. r.id \notin Range(Selected)
      BY <1>1, <2>1, <3>1 DEF Inside
    <3>4. r.id \in Range(Earlier)
      <4>1. a < Start \/ Start <= a
        BY <2>3
      <4>. QED
        BY <1>1, <2>1, <3>2, <3>3, <4>1, Parts
    <3>5. Restored(r.id) = Rebased(r.id, Kept) /\ manifest[r.id] \in Manifests
      BY <1>1, <3>1, <3>4 DEF Restored
    <3>6. Rebased(r.id, Kept).st = manifest[r.id].st
      BY <3>5 DEF Rebased, Manifests
    <3>. QED
      BY <2>2, <3>1, <3>5, <3>6
  <2>. QED
    BY <2>1, <2>6 DEF OpenRecords
<1>7. CASE BeginManifest
  <2>1. txn = NoTxn /\ UNCHANGED <<order, txn, pending>> /\ manifest' = [manifest EXCEPT ![op.id] = Blank("open")] /\ op.id \in Ids
    BY <1>1, <1>7 DEF BeginManifest, CompletedFirst, Save, TypeOK
  <2>2. Order' = Order /\ Mans' = manifest' /\ Mans = manifest
    BY <2>1 DEF Order, Mans
  <2>3. Blank("open").st = "open"
    BY DEF Blank
  <2>. QED
    BY <1>1, <2>1, <2>2, <2>3 DEF OpenRecords
<1>8. CASE BeginIndex /\ ~full
  <2>. PICK id : id = op.id
    OBVIOUS
  <2>. PICK n : n = Len(order)
    OBVIOUS
  <2>1. txn = NoTxn /\ UNCHANGED txn /\ manifest[id].st = "open" /\ n \in Nat /\ pending' \subseteq pending
    BY <1>1, <1>8, Owned DEF BeginIndex, Inside, Blank
  <2>2. Order = order /\ Mans = manifest /\ Order' = order' /\ Mans' = manifest'
    BY <2>1 DEF Order, Mans
  <2>3. PICK k \in 0 .. n :
          /\ DOMAIN order' = 1 .. (n + 1) - k
          /\ \A a \in 1 .. (n + 1) - k :
               /\ order'[a] = IF a + k = n + 1 THEN id ELSE order[a + k]
               /\ manifest'[order'[a]] = manifest[order'[a]]
    BY <1>1, <1>8, BeginIs
  <2>4. DOMAIN order = 1 .. n
    BY <1>1, <2>1, LenProperties DEF TypeOK
  <2>5. ASSUME NEW a \in 1 .. (n + 1) - k PROVE order'[a] = id \/ order'[a] \in Range(order)
    <3>1. CASE a + k = n + 1
      BY <2>3, <3>1
    <3>2. CASE a + k # n + 1
      <4>. PICK b : b = a + k
        OBVIOUS
      <4>1. b \in 1 .. n
        BY <2>1, <3>2
      <4>. QED
        BY <2>3, <2>4, <3>2, <4>1 DEF Range
    <3>. QED
      BY <3>1, <3>2
  <2>6. ASSUME NEW r \in pending', r.id \in Range(order') PROVE manifest'[r.id].st = "open"
    <3>1. PICK a \in 1 .. (n + 1) - k : r.id = order'[a]
      BY <2>3, <2>6 DEF Range
    <3>2. manifest'[r.id] = manifest[r.id]
      BY <2>3, <3>1
    <3>3. r.id = id \/ r.id \in Range(order)
      BY <2>5, <3>1
    <3>. QED
      BY <1>1, <2>1, <2>2, <3>2, <3>3 DEF OpenRecords
  <2>. QED
    BY <2>2, <2>6 DEF OpenRecords
<1>9. CASE Fold /\ ~full
  <2>. PICK k : k = op.keep
    OBVIOUS
  <2>. PICK n : n = Len(order)
    OBVIOUS
  <2>1. /\ txn = NoTxn /\ n \in Nat /\ k \in Nat /\ k < n /\ UNCHANGED pending
        /\ DOMAIN Order' = 1 .. k /\ \A a \in 1 .. k : /\ Order'[a] = order[a]
                                                       /\ a # k => Mans'[order[a]] = manifest[order[a]]
    BY <1>9, FoldIs
  <2>2. k # 0 => \A c \in Range(SubSeq(order, k, n)) : manifest[c].st # "open"
    BY <1>9, FoldIs
  <2>3. Order = order /\ Mans = manifest /\ order \in Seq(Ids) /\ DOMAIN order = 1 .. n
    BY <1>1, <2>1, LenProperties DEF Order, Mans, TypeOK
  <2>4. ASSUME NEW r \in pending, r.id \in Range(Order') PROVE Mans'[r.id].st = "open"
    <3>1. PICK a \in 1 .. k : r.id = order[a]
      BY <2>1, <2>4 DEF Range
    <3>2. a \in 1 .. n /\ k # 0
      BY <2>1
    <3>3. manifest[r.id].st = "open"
      BY <1>1, <2>3, <3>1, <3>2 DEF OpenRecords, Range
    <3>4. ASSUME a = k PROVE FALSE
      <4>1. k \in Nat /\ n \in Nat /\ 1 <= k /\ k <= n + 1 /\ n <= Len(order) /\ 1 \in 1 .. (n + 1) - k /\ (k + 1) - 1 = k
        BY <2>1, <3>2
      <4>2. DOMAIN SubSeq(order, k, n) = 1 .. (n + 1) - k /\ SubSeq(order, k, n)[1] = order[(k + 1) - 1]
        BY <2>3, <4>1, Pieces
      <4>3. order[k] \in Range(SubSeq(order, k, n))
        BY <4>1, <4>2 DEF Range
      <4>. QED
        BY <2>2, <3>1, <3>2, <3>3, <3>4, <4>3
    <3>. QED
      BY <2>1, <3>1, <3>3, <3>4
  <2>. QED
    BY <2>1, <2>4 DEF OpenRecords
<1>10. CASE (BeginIndex \/ Fold \/ Commit) /\ full
  <2>1. UNCHANGED <<order, manifest, txn, pending>>
    BY <1>10 DEF BeginIndex, Fold, Commit
  <2>. QED
    BY <1>4, <2>1
<1>11. CASE Scan \/ ScanDone \/ PlanError \/ Plan \/ (\E p \in Paths : Compare(p)) \/ Swap \/ Close \/ Clear \/ Mark
  <2>1. UNCHANGED <<order, manifest, txn, pending>>
    BY <1>11 DEF Scan, ScanDone, PlanError, Plan, Compare, Swap, Close, Clear, Mark, disk
  <2>. QED
    BY <1>4, <2>1
<1>12. CASE \/ GoNowhere \/ GoRestore \/ BeginRefused \/ GoError \/ Restart \/ (\E o \in Ops : Acquire(o))
            \/ (\E p \in Paths : UserEdit(p)) \/ Kill \/ FillUp \/ FreeUp \/ UNCHANGED vars
  <2>1. UNCHANGED <<order, manifest, txn, pending>>
    BY <1>12 DEF GoNowhere, GoRestore, BeginRefused, GoError, Restart, Acquire, UserEdit, Kill, FillUp, FreeUp, vars, disk
  <2>. QED
    BY <1>4, <2>1
<1>. QED
  BY <1>2, <1>3, <1>5, <1>6, <1>7, <1>8, <1>9, <1>10, <1>11, <1>12 DEF Next, Step

LEMMA GatedSame ==
  ASSUME Gated, DOMAIN journals' = DOMAIN journals, Range(order') \subseteq Range(order), gate \subseteq gate',
         \A j \in DOMAIN journals : journals'[j].id = journals[j].id /\ (journals'[j].rr => journals[j].rr),
         up' /\ op'.kind # "init" => up /\ op.kind # "init"
  PROVE  Gated'
BY DEF Gated

\* A restore to be retried closes the gate, whatever was done about it.
LEMMA GatedStep ==
  ASSUME IndInv, UndoInv, [Next]_vars
  PROVE  Gated'
<1>1. TypeOK /\ Gated /\ Inside
  BY DEF UndoInv, IndInv
<1>. USE <1>1
<1>2. CASE Turn
  <2>1. UNCHANGED <<order, journals, gate, up, op>>
    BY <1>2 DEF Turn, Finish, Pre, PreUnknown, ToolWrite, Post, Discard, disk, work
  <2>. QED
    BY <2>1, GatedSame
<1>3. CASE ApplyManifest \/ ApplyIndex \/ ApplyDone \/ ApplyError
  <2>1. UNCHANGED journals /\ gate \subseteq gate'
    BY <1>3 DEF ApplyManifest, ApplyIndex, ApplyDone, ApplyError, disk, memory
  <2>2. Range(order') \subseteq Range(order)
    BY <1>3 DEF ApplyManifest, ApplyIndex, ApplyDone, ApplyError, disk, memory, IndInv, GateInv, Updating
  <2>3. up' /\ op'.kind # "init" => up /\ op.kind # "init"
    <3>1. CASE ApplyManifest \/ ApplyIndex
      BY <3>1 DEF ApplyManifest, ApplyIndex, memory, work
    <3>2. CASE ApplyDone
      BY <3>2 DEF ApplyDone, Inside, memory
    <3>3. CASE ApplyError
      BY <3>3 DEF ApplyError, Refuse, IndInv, GateInv, Stage
    <3>. QED
      BY <1>3, <3>1, <3>2, <3>3
  <2>. QED
    BY <2>1, <2>2, <2>3, GatedSame
<1>4. CASE Scan
  <2>. PICK i : i = CHOOSE h \in scan : \A k \in scan : h <= k
    OBVIOUS
  <2>1. i \in DOMAIN journals /\ journals \in Seq(Journals) /\ journals[i] \in Journals /\ up
    BY <1>4, LeastOf, JournalIs DEF Scan, TypeOK, IndInv, GateInv, Stage
  <2>2. UNCHANGED order
    BY <1>4 DEF Scan
  <2>3. up' /\ op'.kind # "init" => up /\ op.kind # "init"
    BY <1>4, <2>1 DEF Scan, Refuse
  <2>4. CASE journals' = journals /\ gate \subseteq gate'
    BY <2>2, <2>3, <2>4, GatedSame
  <2>5. CASE journals' = [journals EXCEPT ![i] = Settled(i)] /\ journals[i].id \notin Range(order) /\ gate \ {journals[i].id} \subseteq gate'
    <3>1. Settled(i).id = journals[i].id /\ Settled(i).rr = FALSE
      BY <2>1 DEF Settled, Journals
    <3>2. DOMAIN journals' = DOMAIN journals /\ \A j \in DOMAIN journals : journals'[j].id = journals[j].id /\ (journals'[j].rr => journals[j].rr)
      BY <2>1, <2>5, <3>1
    <3>. QED
      BY <2>2, <2>3, <2>5, <3>2 DEF Gated
  <2>. QED
    BY <1>4, <2>4, <2>5 DEF Scan, Journal
<1>5. CASE Close
  <2>1. /\ pc = "close" /\ up /\ run # NoRun /\ run.jr \in DOMAIN journals /\ journals[run.jr].id = run.id
        /\ (run.rr => run.id \in gate) /\ journals \in Seq(Journals) /\ journals[run.jr] \in Journals
        /\ run.rr \in BOOLEAN
    BY <1>5, AtWork, JournalIs DEF Close, IndInv, GateInv, Journalled, Stage, Restoring, TypeOK
  <2>2. UNCHANGED <<order, gate, up>> /\ (op'.kind # "init" => op.kind # "init")
    <3>1. UNCHANGED <<order, gate, up>>
      BY <1>5 DEF Close, memory
    <3>2. op' = op \/ run.from = 0
      BY <1>5 DEF Close
    <3>. QED
      BY <2>1, <3>1, <3>2 DEF Inside
  <2>3. CASE UNCHANGED journals
    BY <2>2, <2>3, GatedSame
  <2>4. CASE journals' = [journals EXCEPT ![run.jr] = [journals[run.jr] EXCEPT !.fin = TRUE, !.rr = run.rr]]
    <3>1. /\ [journals[run.jr] EXCEPT !.fin = TRUE, !.rr = run.rr].id = run.id
          /\ [journals[run.jr] EXCEPT !.fin = TRUE, !.rr = run.rr].rr = run.rr
      BY <2>1 DEF Journals
    <3>2. DOMAIN journals' = DOMAIN journals /\ journals'[run.jr].id = run.id /\ journals'[run.jr].rr = run.rr
          /\ \A j \in DOMAIN journals \ {run.jr} : journals'[j] = journals[j]
      BY <2>1, <2>4, <3>1
    <3>. QED
      BY <2>1, <2>2, <3>2 DEF Gated
  <2>. QED
    BY <1>5, <2>3, <2>4 DEF Close, Journal
<1>6. CASE Clear
  <2>1. UNCHANGED <<order, up>> /\ up /\ op.kind = "restore"
    BY <1>6 DEF Clear, IndInv, GateInv, Stage, Inside
  <2>2. CASE full
    <3>1. UNCHANGED <<journals, gate>>
      BY <1>6, <2>2 DEF Clear
    <3>. QED
      BY <2>1, <3>1, GatedSame
  <2>3. CASE ~full
    <3>1. /\ gate' = gate \ {run.id}
          /\ journals' = [j \in DOMAIN journals |->
                            IF journals[j].id = run.id /\ journals[j].rr THEN Settled(j) ELSE journals[j]]
      BY <1>6, <2>3 DEF Clear
    <3>2. \A j \in DOMAIN journals : journals[j] \in Journals
      BY JournalIs DEF TypeOK
    <3>3. \A j \in DOMAIN journals : Settled(j).id = journals[j].id /\ Settled(j).rr = FALSE
      BY <3>2 DEF Settled, Journals
    <3>4. \A j \in DOMAIN journals' : /\ j \in DOMAIN journals /\ journals'[j].id = journals[j].id
                                      /\ journals'[j].rr => journals[j].rr /\ journals[j].id # run.id
      BY <3>1, <3>3
    <3>. QED
      BY <2>1, <3>1, <3>4 DEF Gated
  <2>. QED
    BY <2>2, <2>3
<1>7. CASE Mark
  <2>1. /\ pc = "mark" /\ up /\ run # NoRun /\ run.from \in DOMAIN journals /\ journals[run.from].id = run.id
        /\ journals \in Seq(Journals) /\ journals[run.from] \in Journals /\ run.clean \in BOOLEAN
    BY <1>7, AtWork, JournalIs DEF Mark, IndInv, GateInv, Journalled, Stage, Restoring, TypeOK
  <2>2. UNCHANGED order /\ gate' = (IF run.clean THEN gate ELSE gate \cup {run.id}) /\ (up' /\ op'.kind # "init" => op.kind # "init")
    BY <1>7 DEF Mark, Refuse
  <2>3. CASE UNCHANGED journals
    BY <2>1, <2>2, <2>3, GatedSame
  <2>4. CASE journals' = [journals EXCEPT ![run.from] = [journals[run.from] EXCEPT !.fin = TRUE, !.rr = ~run.clean]]
    <3>1. /\ [journals[run.from] EXCEPT !.fin = TRUE, !.rr = ~run.clean].id = run.id
          /\ [journals[run.from] EXCEPT !.fin = TRUE, !.rr = ~run.clean].rr = ~run.clean
      BY <2>1 DEF Journals
    <3>2. DOMAIN journals' = DOMAIN journals /\ journals'[run.from].id = run.id /\ journals'[run.from].rr = ~run.clean
          /\ \A j \in DOMAIN journals \ {run.from} : journals'[j] = journals[j]
      BY <2>1, <2>4, <3>1
    <3>. QED
      BY <2>1, <2>2, <3>2 DEF Gated
  <2>. QED
    BY <1>7, <2>3, <2>4 DEF Mark, Journal
<1>8. CASE Plan
  <2>1. UNCHANGED <<order, gate, up, op>>
    BY <1>8 DEF Plan, memory
  <2>. DEFINE J == [id |-> run.id, incl |-> run.incl, ret |-> run.ret, fin |-> FALSE, rr |-> FALSE]
  <2>2. J \in Journals /\ J.rr = FALSE
    BY <1>8, AtWork DEF Plan, Restoring, Journals
  <2>3. journals' = Append(journals, J) /\ journals \in Seq(Journals)
    BY <1>8 DEF Plan, TypeOK
  <2>. HIDE DEF J
  <2>4. /\ DOMAIN journals = 1 .. Len(journals) /\ DOMAIN journals' = 1 .. Len(journals) + 1 /\ Len(journals) \in Nat
        /\ journals'[Len(journals) + 1] = J /\ \A j \in 1 .. Len(journals) : journals'[j] = journals[j]
    <3>1. /\ journals' \in Seq(Journals) /\ Len(journals') = Len(journals) + 1
          /\ journals'[Len(journals) + 1] = J /\ \A j \in 1 .. Len(journals) : journals'[j] = journals[j]
      BY <2>2, <2>3, AppendProperties
    <3>. QED
      BY <2>3, <3>1, LenProperties
  <2>5. \A j \in 1 .. Len(journals) + 1 : j \in 1 .. Len(journals) \/ j = Len(journals) + 1
    BY <2>4
  <2>. QED
    BY <2>1, <2>2, <2>4, <2>5 DEF Gated
<1>9. CASE GoNowhere \/ GoError
  <2>1. UNCHANGED <<order, journals, gate>> /\ pc = "go"
    BY <1>9 DEF GoNowhere, GoError, disk, memory
  <2>2. \A j \in DOMAIN journals : journals[j].rr /\ journals[j].id \in Range(order) => journals[j].id \in gate
    BY <2>1 DEF IndInv, GateInv, Covered, Stage, Unsettled
  <2>. QED
    BY <2>1, <2>2 DEF Gated
<1>10. CASE BeginIndex /\ ~full
  <2>1. Range(order') \subseteq Range(order) \cup {op.id} /\ op.id \notin used
    BY <1>10, BranchGrows
  <2>2. op.kind = "begin" /\ \A j \in DOMAIN journals : journals[j].id \in used
    BY <1>10 DEF BeginIndex, IndInv, GateInv, Stage
  <2>3. UNCHANGED <<journals, gate, up>>
    BY <1>10 DEF BeginIndex
  <2>. QED
    BY <2>1, <2>2, <2>3 DEF Gated
<1>11. CASE BeginIndex /\ full
  <2>1. UNCHANGED <<order, journals, gate, up>> /\ op.kind = "begin"
    BY <1>11 DEF BeginIndex, IndInv, GateInv, Stage
  <2>. QED
    BY <2>1, GatedSame
<1>12. CASE BeginRefused \/ (Fold /\ full)
  <2>1. UNCHANGED <<order, journals, gate, up>> /\ op.kind # "init"
    BY <1>12 DEF BeginRefused, Fold, disk, memory
  <2>. QED
    BY <2>1, GatedSame
<1>13. CASE ScanDone \/ CloseTurn \/ (\E p \in Paths : Compare(p)) \/ Swap \/ GoRestore \/ BeginManifest \/ (Fold /\ ~full)
            \/ (\E p \in Paths : UserEdit(p)) \/ FillUp \/ FreeUp \/ UNCHANGED vars
  <2>1. UNCHANGED <<order, journals, gate, up, op>>
    BY <1>13 DEF ScanDone, CloseTurn, Compare, Swap, GoRestore, BeginManifest, Fold, UserEdit, FillUp, FreeUp, vars, disk, memory, work
  <2>. QED
    BY <2>1, GatedSame
<1>14. CASE Commit
  <2>1. UNCHANGED <<order, journals, up, op>> /\ gate \subseteq gate'
    BY <1>14 DEF Commit
  <2>. QED
    BY <2>1, GatedSame
<1>15. CASE PlanError
  <2>1. UNCHANGED <<order, journals, gate, up>>
    BY <1>15 DEF PlanError, disk, memory
  <2>2. op'.kind # "init" => op.kind # "init"
    <3>1. pc = "plan" /\ (run.from = 0 => run # NoRun)
      BY <1>15 DEF PlanError, IndInv, GateInv, Stage, Restoring
    <3>. QED
      BY <1>15, <3>1 DEF PlanError, Inside
  <2>. QED
    BY <2>1, <2>2, GatedSame
<1>16. CASE Restart \/ Kill
  BY <1>16 DEF Restart, Kill, Gated
<1>17. ASSUME NEW o \in Ops, Acquire(o) PROVE Gated'
  <2>1. UNCHANGED <<order, journals, gate, up>> /\ op = NoOp
    BY <1>17 DEF Acquire, disk, memory, TypeOK
  <2>2. op.kind # "init"
    BY <2>1 DEF NoOp
  <2>. QED
    BY <2>1, <2>2, GatedSame
<1>. QED
  BY <1>2, <1>3, <1>4, <1>5, <1>6, <1>7, <1>8, <1>9, <1>10, <1>11, <1>12, <1>13, <1>14, <1>15, <1>16, <1>17 DEF Next, Step

LEMMA InsideSame ==
  ASSUME Inside, UNCHANGED <<order, manifest, txn, journals, pc, op, run>>
  PROVE  Inside'
<1>1. Selected' = Selected /\ Done' = Done
  BY DEF Selected, Start, Place, Done
<1>2. \A p : Chain(p, Selected)' = Chain(p, Selected)
  BY <1>1 DEF Chain
<1>3. Warned(Range(Selected))' = Warned(Range(Selected))
  BY <1>1 DEF Warned
<1>. QED
  BY <1>1, <1>2, <1>3 DEF Inside

LEMMA InsideIdle ==
  ASSUME pc' \notin {"plan", "files", "swap", "index", "clear", "apply"}, run' = NoRun, txn' = NoTxn \/ pc' \notin {"close", "mark"},
         \A j \in DOMAIN journals' : journals'[j].incl, op'.kind = "restore" => op'.incl
  PROVE  Inside'
BY DEF Inside

LEMMA InsideEnd ==
  ASSUME End, \A j \in DOMAIN journals' : journals'[j].incl
  PROVE  Inside'
<1>1. pc' = "idle" /\ run' = NoRun /\ op'.kind # "restore"
  BY DEF End, NoOp
<1>. QED
  BY <1>1, InsideIdle

\* What a restore that is planned knows, when its journal is written.
LEMMA InsidePlan ==
  ASSUME IndInv, Inside, CompletedFirst, Plan
  PROVE  Inside'
<1>1. /\ TypeOK /\ run \in Runs /\ pc = "plan" /\ pc' = "files" /\ txn = NoTxn /\ run # NoRun /\ ~run.rr /\ run.cur = {}
      /\ run.incl /\ op' = op /\ UNCHANGED <<order, manifest, txn, file>> /\ Unfinished = {} /\ (run.from = 0 => op.kind = "restore")
      /\ (op.kind = "restore" => op.incl)
  BY AtWork DEF Plan, Restoring, CompletedFirst, Inside, IndInv, GateInv, Stage, Chained
<1>. DEFINE got == [p \in Paths |-> IF p \in There THEN file[p] ELSE Never]
            clean == /\ ~Blinded(Range(Selected)) /\ Warned(Range(Selected)) = {}
                     /\ Traced = There \cup ToSwap
            J == [id |-> run.id, incl |-> run.incl, ret |-> run.ret, fin |-> FALSE, rr |-> FALSE]
<1>2. run' = [run EXCEPT !.jr = Len(journals) + 1, !.todo = ToSwap, !.got = got, !.clean = clean]
  BY DEF Plan
<1>. HIDE DEF clean
<1>3. /\ run'.jr = Len(journals) + 1 /\ run'.todo = ToSwap /\ run'.got = got /\ run'.clean = clean
      /\ run'.id = run.id /\ run'.incl = run.incl /\ run'.cur = run.cur /\ run'.rr = run.rr /\ run'.from = run.from
  BY <1>1, <1>2 DEF Runs
<1>4. J \in Journals /\ J.fin = FALSE /\ J.incl = run.incl
  BY <1>1 DEF Runs, Journals
<1>5. journals' = Append(journals, J) /\ journals \in Seq(Journals)
  BY <1>1 DEF Plan, TypeOK
<1>. HIDE DEF J
<1>6. /\ DOMAIN journals = 1 .. Len(journals) /\ DOMAIN journals' = 1 .. Len(journals) + 1 /\ Len(journals) \in Nat
      /\ journals'[Len(journals) + 1] = J /\ \A j \in 1 .. Len(journals) : journals'[j] = journals[j]
  <2>1. /\ journals' \in Seq(Journals) /\ Len(journals') = Len(journals) + 1
        /\ journals'[Len(journals) + 1] = J /\ \A j \in 1 .. Len(journals) : journals'[j] = journals[j]
    BY <1>4, <1>5, AppendProperties
  <2>. QED
    BY <1>5, <2>1, LenProperties
<1>7. \A j \in DOMAIN journals' : journals'[j].incl
  <2>1. \A j \in 1 .. Len(journals) + 1 : j \in 1 .. Len(journals) \/ j = Len(journals) + 1
    BY <1>6
  <2>. QED
    BY <1>1, <1>4, <1>6, <2>1 DEF Inside
<1>8. Selected' = Selected
  BY <1>1, <1>3 DEF Selected, Start, Place
<1>9. \A p : Chain(p, Selected)' = Chain(p, Selected)
  BY <1>1, <1>8 DEF Chain
<1>10. Warned(Range(Selected))' = Warned(Range(Selected))
  BY <1>1, <1>8 DEF Warned
<1>11. Done' = There
  <2>1. \A p \in Paths : file[p] # Never
    BY <1>1 DEF TypeOK, States, Absent, Never, Unsafe
  <2>2. There \subseteq Paths
    BY DEF There, Fit, Traced
  <2>. QED
    BY <1>3, <2>1, <2>2 DEF Done
<1>12. \A c \in Range(Selected) : manifest[c].st # "open"
  BY <1>1 DEF Unfinished
<1>13. ToSwap \cap There = {}
  BY DEF ToSwap
<1>14. clean => /\ Warned(Range(Selected)) = {}
                /\ \A p \in Paths : Chain(p, Selected) # << >> => p \in There \cup ToSwap
  BY DEF clean, Traced
<1>15. run' # NoRun
  <2>1. run'.id \in Ids
    BY <1>1, <1>3 DEF Runs
  <2>. QED
    BY <2>1, CheckpointAssumption DEF NoRun
<1>. QED
  BY <1>1, <1>3, <1>4, <1>6, <1>7, <1>8, <1>9, <1>10, <1>11, <1>12, <1>13, <1>14, <1>15 DEF Inside

\* What a restore that is at work knows.
LEMMA InsideWork ==
  ASSUME IndInv, Inside, Swap \/ \E p \in Paths : Compare(p)
  PROVE  Inside'
<1>1. /\ TypeOK /\ run \in Runs /\ run # NoRun /\ pc \in {"files", "swap"} /\ pc' \in {"files", "swap"}
      /\ op' = op /\ UNCHANGED <<order, manifest, txn, journals>>
  BY AtWork DEF Swap, Compare, Restoring, IndInv, GateInv, Stage, disk
<1>2. ASSUME run'.jr = run.jr, run'.id = run.id, run'.incl = run.incl, run'.rr = run.rr, run'.from = run.from,
             \A p \in run'.todo \cup run'.cur : p \notin Done', \A p, q \in run'.cur : p = q, run'.cur \cap run'.todo = {},
             run'.clean => run.clean /\ Done \cup run.todo \cup run.cur \subseteq Done' \cup run'.todo \cup run'.cur,
             pc' = "files" => run'.cur = {}
      PROVE  Inside'
  <2>1. Selected' = Selected
    BY <1>1, <1>2 DEF Selected, Start, Place
  <2>2. \A p : Chain(p, Selected)' = Chain(p, Selected)
    BY <1>1, <2>1 DEF Chain
  <2>3. Warned(Range(Selected))' = Warned(Range(Selected))
    BY <1>1, <2>1 DEF Warned
  <2>. QED
    BY <1>1, <1>2, <2>1, <2>2, <2>3 DEF Inside
<1>3. ASSUME NEW p \in Paths, Compare(p) PROVE Inside'
  <2>1. pc = "files" /\ run.cur = {} /\ p \in run.todo /\ \A q \in run.todo : q \notin Done
    BY <1>3 DEF Compare, Inside
  <2>2. CASE run' = [run EXCEPT !.todo = {}, !.clean = FALSE, !.jok = FALSE]
    <3>1. /\ run'.jr = run.jr /\ run'.id = run.id /\ run'.incl = run.incl /\ run'.rr = run.rr /\ run'.from = run.from
          /\ run'.todo = {} /\ run'.cur = {} /\ run'.clean = FALSE /\ run'.got = run.got
      BY <1>1, <2>1, <2>2 DEF Runs
    <3>. QED
      BY <1>2, <3>1
  <2>3. CASE run' = [run EXCEPT !.todo = @ \ {p}, !.clean = FALSE]
    <3>1. /\ run'.jr = run.jr /\ run'.id = run.id /\ run'.incl = run.incl /\ run'.rr = run.rr /\ run'.from = run.from
          /\ run'.todo = run.todo \ {p} /\ run'.cur = {} /\ run'.clean = FALSE /\ run'.got = run.got
      BY <1>1, <2>1, <2>3 DEF Runs
    <3>2. Done' = Done
      BY <3>1 DEF Done
    <3>. QED
      BY <1>2, <2>1, <3>1, <3>2
  <2>4. CASE run' = [run EXCEPT !.todo = @ \ {p}, !.cur = {p}] /\ pc' = "swap"
    <3>1. /\ run'.jr = run.jr /\ run'.id = run.id /\ run'.incl = run.incl /\ run'.rr = run.rr /\ run'.from = run.from
          /\ run'.todo = run.todo \ {p} /\ run'.cur = {p} /\ run'.clean = run.clean /\ run'.got = run.got
      BY <1>1, <2>1, <2>4 DEF Runs
    <3>2. Done' = Done
      BY <3>1 DEF Done
    <3>. QED
      BY <1>2, <2>1, <2>4, <3>1, <3>2
  <2>. QED
    BY <1>3, <2>2, <2>3, <2>4 DEF Compare
<1>4. CASE Swap
  <2>1. /\ pc = "swap" /\ pc' = "files" /\ run.cur \cap run.todo = {} /\ \A q \in run.todo : q \notin Done
        /\ \A q \in run.cur : \A d \in run.cur : q = d
        /\ run.cur \subseteq Paths /\ run.todo \subseteq Paths /\ run.got \in [Paths -> States \cup {Never}] /\ clock \in Nat
    BY <1>1, <1>4 DEF Swap, Inside, Runs, TypeOK
  <2>a. PICK p \in run.cur :
          run' = [run EXCEPT !.cur = {}, !.got[p] = IF Desired(p) = Absent THEN Absent ELSE [data |-> Desired(p).data, ino |-> clock + 1],
                             !.jok = @ /\ ~full, !.clean = @ /\ ~full, !.todo = IF full THEN {} ELSE @]
    BY <1>4 DEF Swap
  <2>b. PICK new : new = IF Desired(p) = Absent THEN Absent ELSE [data |-> Desired(p).data, ino |-> clock + 1]
    OBVIOUS
  <2>2. run' = [run EXCEPT !.cur = {}, !.got[p] = new, !.jok = @ /\ ~full, !.clean = @ /\ ~full,
                           !.todo = IF full THEN {} ELSE @]
    BY <2>a, <2>b
  <2>3. /\ run'.jr = run.jr /\ run'.id = run.id /\ run'.incl = run.incl /\ run'.rr = run.rr /\ run'.from = run.from
        /\ run'.todo = (IF full THEN {} ELSE run.todo) /\ run'.cur = {} /\ run'.clean = (run.clean /\ ~full)
        /\ run'.got = [run.got EXCEPT ![p] = new]
    BY <1>1, <2>2 DEF Runs
  <2>4. new # Never
    <3>1. clock + 1 # 0
      BY <2>1
    <3>2. Never.ino = 0 /\ Never.data = -1 /\ Absent.data = 0 /\ -1 # 0
      BY DEF Never, Unsafe, Absent
    <3>3. CASE Desired(p) = Absent
      BY <2>b, <3>2, <3>3
    <3>4. CASE Desired(p) # Absent
      <4>1. new.ino = clock + 1
        BY <2>b, <3>4
      <4>. QED
        BY <3>1, <3>2, <4>1
    <3>. QED
      BY <3>3, <3>4
  <2>5. Done' = Done \cup {p}
    <3>1. p \in Paths
      BY <2>1, <2>2
    <3>. QED
      BY <2>1, <2>3, <2>4, <3>1 DEF Done
  <2>6. \A q \in run'.todo : q \in run.todo /\ q # p
    BY <2>1, <2>2, <2>3
  <2>7. run.cur = {p}
    BY <2>1, <2>2
  <2>. QED
    BY <1>2, <2>1, <2>3, <2>5, <2>6, <2>7
<1>. QED
  BY <1>3, <1>4

LEMMA InsideStep ==
  ASSUME Inclusions \subseteq {TRUE}, IndInv, UndoInv, CompletedFirst, [Next]_vars
  PROVE  Inside'
<1>1. TypeOK /\ Inside /\ journals \in Seq(Journals) /\ \A j \in DOMAIN journals : journals[j].incl
  BY DEF UndoInv, IndInv, TypeOK, Inside
<1>. USE <1>1
<1>2. CASE Turn
  <2>1. UNCHANGED <<pc, op, run, journals>> /\ active # NoId
    BY <1>2 DEF Turn, Finish, Pre, PreUnknown, ToolWrite, Post, Discard, InTurn, disk, work
  <2>2. pc' = "idle" /\ run' = NoRun /\ op' = NoOp /\ op'.kind # "restore"
    BY <2>1 DEF TypeOK, NoOp
  <2>. QED
    BY <2>1, <2>2, InsideIdle
<1>3. CASE (\E p \in Paths : UserEdit(p)) \/ FillUp \/ FreeUp \/ UNCHANGED vars
  <2>1. UNCHANGED <<order, manifest, txn, journals, pc, op, run>>
    BY <1>3 DEF UserEdit, FillUp, FreeUp, vars, disk, work
  <2>. QED
    BY <2>1, InsideSame
<1>4. CASE Kill \/ GoNowhere \/ BeginRefused \/ GoError \/ BeginIndex \/ (Fold /\ full)
  <2>1. End /\ UNCHANGED journals
    BY <1>4 DEF Kill, GoNowhere, BeginRefused, GoError, BeginIndex, Fold, disk
  <2>. QED
    BY <2>1, InsideEnd
<1>5. CASE Restart
  <2>1. run' = run /\ pc = "idle" /\ run = NoRun /\ op'.kind = "init" /\ pc' \in {"txn", "scan", "go"} /\ UNCHANGED journals
    BY <1>5, TypedAcquire DEF Restart, TypeOK, IndInv, GateInv, Stage, disk
  <2>. QED
    BY <2>1, InsideIdle
<1>6. ASSUME NEW o \in Ops, Acquire(o) PROVE Inside'
  <2>1. run' = NoRun /\ pc' \in {"txn", "scan", "go"} /\ UNCHANGED journals /\ op' = o
    BY <1>6 DEF Acquire, Recover, disk
  <2>2. o.kind = "restore" => o.incl
    <3>1. CASE o \in [kind : {"restore"}, id : Ids, incl : Inclusions, ret : BOOLEAN]
      <4>1. o.incl \in Inclusions
        BY <3>1
      <4>2. o.incl = TRUE
        BY <4>1
      <4>. QED
        BY <4>2
    <3>2. CASE o.kind # "restore"
      BY <3>2
    <3>3. o.kind = "restore" => o \in [kind : {"restore"}, id : Ids, incl : Inclusions, ret : BOOLEAN]
      BY <1>6 DEF Ops
    <3>. QED
      BY <3>1, <3>2, <3>3
  <2>. QED
    BY <2>1, <2>2, InsideIdle
<1>7. CASE ApplyManifest \/ ApplyIndex
  <2>1. pc \in {"txn", "apply"} /\ UNCHANGED <<pc, op, run, journals>>
    BY <1>7 DEF ApplyManifest, ApplyIndex, work
  <2>. QED
    BY <2>1 DEF Inside
<1>8. CASE ApplyDone
  <2>1. pc \in {"txn", "apply"} /\ UNCHANGED journals /\ txn' = NoTxn
    BY <1>8 DEF ApplyDone
  <2>2. CASE pc' = "close" /\ UNCHANGED <<op, scan, run>> /\ run # NoRun
    BY <2>1, <2>2 DEF Inside
  <2>3. CASE pc' = "scan" /\ UNCHANGED <<op, scan, run>> /\ run = NoRun
    BY <2>1, <2>3, InsideIdle DEF Inside
  <2>4. CASE End
    BY <2>1, <2>4, InsideEnd
  <2>. QED
    BY <1>8, <2>2, <2>3, <2>4 DEF ApplyDone
<1>9. CASE ApplyError
  <2>1. pc \in {"txn", "apply"} /\ UNCHANGED journals
    BY <1>9 DEF ApplyError, disk
  <2>2. CASE Refuse
    BY <2>1, <2>2, InsideEnd DEF Refuse
  <2>3. CASE run # NoRun /\ pc' = "close" /\ run' = [run EXCEPT !.clean = FALSE, !.rr = TRUE] /\ op' = op
    <3>1. run'.rr = TRUE /\ run'.clean = FALSE /\ run'.incl = run.incl /\ run'.from = run.from
      BY <2>3 DEF TypeOK, Runs
    <3>. QED
      BY <2>1, <2>3, <3>1 DEF Inside
  <2>. QED
    BY <1>9, <2>2, <2>3 DEF ApplyError
<1>10. CASE Scan
  <2>. PICK i : i = CHOOSE h \in scan : \A k \in scan : h <= k
    OBVIOUS
  <2>1. i \in DOMAIN journals /\ i \in Nat \ {0} /\ journals[i] \in Journals /\ pc = "scan" /\ run = NoRun
    BY <1>10, LeastOf, JournalIs DEF Scan, TypeOK, IndInv, GateInv, Stage
  <2>2. \A j \in DOMAIN journals' : journals'[j].incl
    <3>1. CASE journals' = journals
      BY <3>1
    <3>2. CASE journals' = [journals EXCEPT ![i] = Settled(i)]
      <4>1. Settled(i).incl = journals[i].incl
        BY <2>1 DEF Settled, Journals
      <4>. QED
        BY <2>1, <3>2, <4>1
    <3>. QED
      BY <1>10, <3>1, <3>2 DEF Scan, Journal
  <2>3. CASE pc' = pc /\ UNCHANGED <<op, run>>
    BY <2>1, <2>2, <2>3, InsideIdle DEF Inside
  <2>4. CASE Refuse
    BY <2>2, <2>4, InsideEnd DEF Refuse
  <2>5. CASE run' = NewRun(journals[i].id, journals[i].incl, journals[i].ret, i) /\ pc' = "plan" /\ op' = op
    <3>1. run'.rr = FALSE /\ run'.incl = journals[i].incl /\ run'.from = i
      BY <2>5 DEF NewRun
    <3>. QED
      BY <2>1, <2>2, <2>5, <3>1 DEF Inside
  <2>. QED
    BY <1>10, <2>3, <2>4, <2>5 DEF Scan
<1>11. CASE ScanDone
  <2>1. pc' = "go" /\ run' = NoRun /\ UNCHANGED <<op, journals>>
    BY <1>11 DEF ScanDone, IndInv, GateInv, Stage, disk
  <2>. QED
    BY <2>1, InsideIdle DEF Inside
<1>12. CASE CloseTurn
  <2>1. pc \in {"plan", "go"} /\ UNCHANGED <<pc, op, run, journals>>
    BY <1>12 DEF CloseTurn, work
  <2>. QED
    BY <2>1 DEF Inside
<1>13. CASE PlanError
  <2>1. pc = "plan" /\ UNCHANGED <<journals, txn>> /\ txn = NoTxn /\ run \in Runs /\ run # NoRun
    BY <1>13, AtWork DEF PlanError, CompletedFirst, Restoring, IndInv, GateInv, Stage, disk
  <2>2. CASE End
    BY <2>1, <2>2, InsideEnd
  <2>3. CASE run.from # 0 /\ pc' = "mark" /\ run' = [run EXCEPT !.clean = FALSE] /\ op' = op
    <3>1. run'.rr = run.rr /\ run'.clean = FALSE /\ run'.incl = run.incl /\ run'.from = run.from
      BY <2>1, <2>3 DEF Runs
    <3>. QED
      BY <2>1, <2>3, <3>1 DEF Inside
  <2>. QED
    BY <1>13, <2>2, <2>3 DEF PlanError
<1>14. CASE Commit
  <2>1. pc = "files" /\ UNCHANGED <<op, journals>> /\ txn = NoTxn /\ run \in Runs /\ run # NoRun /\ ~run.rr /\ run.incl
    BY <1>14, AtWork DEF Commit, Restoring, IndInv, GateInv, Stage, Inside
  <2>2. CASE run' = [run EXCEPT !.clean = FALSE, !.rr = TRUE] /\ pc' = "close" /\ txn' = txn
    <3>1. run'.rr = TRUE /\ run'.clean = FALSE /\ run'.incl = run.incl /\ run'.from = run.from
      BY <2>1, <2>2 DEF Runs
    <3>. QED
      BY <2>1, <2>2, <3>1 DEF Inside
  <2>3. CASE run' = [run EXCEPT !.clean = Clean] /\ pc' = "apply"
    <3>1. run'.rr = run.rr /\ run'.incl = run.incl /\ run'.from = run.from /\ run'.id = run.id
      BY <2>1, <2>3 DEF Runs
    <3>2. run' # NoRun
      <4>1. run'.id \in Ids
        BY <2>1, <3>1 DEF Runs
      <4>. QED
        BY <4>1, CheckpointAssumption DEF NoRun
    <3>. QED
      BY <2>1, <2>3, <3>1, <3>2 DEF Inside
  <2>. QED
    BY <1>14, <2>2, <2>3 DEF Commit
<1>15. CASE Close
  <2>1. /\ pc = "close" /\ UNCHANGED txn /\ run \in Runs /\ run # NoRun /\ run.incl /\ (txn # NoTxn => run.rr) /\ ~(run.rr /\ run.clean)
        /\ run.jr \in DOMAIN journals
    BY <1>15, AtWork DEF Close, Restoring, IndInv, GateInv, Stage, Inside, Journalled
  <2>2. \A j \in DOMAIN journals' : journals'[j].incl
    <3>1. CASE journals' = journals
      BY <3>1
    <3>2. CASE journals' = [journals EXCEPT ![run.jr] = [journals[run.jr] EXCEPT !.fin = TRUE, !.rr = run.rr]]
      <4>1. journals[run.jr] \in Journals
        BY <2>1, JournalIs
      <4>2. [journals[run.jr] EXCEPT !.fin = TRUE, !.rr = run.rr].incl = journals[run.jr].incl
        BY <4>1 DEF Journals
      <4>. QED
        BY <2>1, <3>2, <4>2
    <3>. QED
      BY <1>15, <3>1, <3>2 DEF Close, Journal
  <2>3. CASE run.from # 0
    <3>1. pc' = "mark" /\ run' = [run EXCEPT !.clean = run.clean /\ (run.jok /\ ~full)] /\ op' = op
      BY <1>15, <2>3 DEF Close
    <3>2. /\ run'.rr = run.rr /\ run'.clean = (run.clean /\ (run.jok /\ ~full)) /\ run'.incl = run.incl /\ run'.from = run.from
      BY <2>1, <3>1 DEF Runs
    <3>. QED
      BY <2>1, <2>2, <2>3, <3>1, <3>2 DEF Inside
  <2>4. CASE run.from = 0 /\ run.clean /\ pc' = "clear" /\ UNCHANGED <<op, run>>
    BY <2>1, <2>2, <2>4 DEF Inside
  <2>5. CASE End
    BY <2>2, <2>5, InsideEnd
  <2>. QED
    BY <1>15, <2>3, <2>4, <2>5 DEF Close
<1>16. CASE Clear
  <2>1. End
    BY <1>16 DEF Clear
  <2>2. \A j \in DOMAIN journals' : journals'[j].incl
    <3>1. CASE journals' = journals
      BY <3>1
    <3>2. CASE journals' = [j \in DOMAIN journals |->
                              IF journals[j].id = run.id /\ journals[j].rr THEN Settled(j) ELSE journals[j]]
      <4>1. \A j \in DOMAIN journals : journals[j] \in Journals
        BY JournalIs
      <4>2. \A j \in DOMAIN journals : Settled(j).incl = journals[j].incl
        BY <4>1 DEF Settled, Journals
      <4>. QED
        BY <3>2, <4>2
    <3>. QED
      BY <1>16, <3>1, <3>2 DEF Clear
  <2>. QED
    BY <2>1, <2>2, InsideEnd
<1>17. CASE Mark
  <2>1. \A j \in DOMAIN journals' : journals'[j].incl
    <3>1. CASE journals' = journals
      BY <3>1
    <3>2. CASE journals' = [journals EXCEPT ![run.from] = [journals[run.from] EXCEPT !.fin = TRUE, !.rr = ~run.clean]]
      <4>1. run.from \in DOMAIN journals
        BY <1>17, AtWork DEF Mark, IndInv, GateInv, Journalled, Stage, Restoring
      <4>2. journals[run.from] \in Journals
        BY <4>1, JournalIs
      <4>3. [journals[run.from] EXCEPT !.fin = TRUE, !.rr = ~run.clean].incl = journals[run.from].incl
        BY <4>2 DEF Journals
      <4>. QED
        BY <3>2, <4>1, <4>3
    <3>. QED
      BY <1>17, <3>1, <3>2 DEF Mark, Journal
  <2>2. CASE Refuse
    BY <2>1, <2>2, InsideEnd DEF Refuse
  <2>3. CASE pc' = "scan" /\ run' = NoRun /\ op' = op
    BY <2>1, <2>3, InsideIdle DEF Inside
  <2>. QED
    BY <1>17, <2>2, <2>3 DEF Mark
<1>18. CASE GoRestore
  <2>1. run' = NewRun(op.id, op.incl, op.ret, 0) /\ pc' = "plan" /\ op.kind = "restore" /\ UNCHANGED <<op, journals>>
    BY <1>18 DEF GoRestore, disk
  <2>2. run'.rr = FALSE /\ run'.incl = op.incl /\ run'.from = 0
    BY <2>1 DEF NewRun
  <2>. QED
    BY <2>1, <2>2 DEF Inside
<1>19. CASE BeginManifest
  <2>1. /\ txn' = NoTxn /\ run' = NoRun /\ pc' = "index" /\ op' = op /\ UNCHANGED journals /\ op.id \in Ids
        /\ manifest' = [manifest EXCEPT ![op.id] = Blank("open")] /\ op.kind = "begin" /\ manifest \in [Ids -> Manifests]
    BY <1>19, Owned DEF BeginManifest, CompletedFirst, Save, TypeOK
  <2>2. manifest'[op'.id] = Blank("open")'
    BY <2>1 DEF Blank
  <2>. QED
    BY <2>1, <2>2 DEF Inside
<1>20. CASE Fold /\ ~full
  <2>1. pc' = "apply" /\ run' = NoRun /\ op' = op /\ op.kind = "reconcile" /\ UNCHANGED journals
    BY <1>20, Owned DEF Fold
  <2>. QED
    BY <2>1 DEF Inside
<1>21. CASE Plan \/ Swap \/ \E p \in Paths : Compare(p)
  BY <1>21, InsidePlan, InsideWork
<1>. QED
  BY <1>2, <1>3, <1>4, <1>5, <1>6, <1>7, <1>8, <1>9, <1>10, <1>11, <1>12, <1>13, <1>14, <1>15, <1>16, <1>17, <1>18, <1>19, <1>20,
     <1>21 DEF Next, Step

LEMMA BetweenNone ==
  ASSUME Between, active' = NoId, pending' \subseteq pending, \A k \in Calls : calls'[k] = Idle
  PROVE  Between'
BY DEF Between

\* What there is of calls and records in a turn.
LEMMA TurnTypes ==
  ASSUME IndInv, Written, Between
  PROVE  /\ TypeOK /\ made \in Nat /\ made + 1 \notin 1 .. made
         /\ \A r \in pending : r.call \in 1 .. made /\ r.path \in Paths /\ r.before \in States \cup {Unsafe}
         /\ \A k \in Calls : calls[k] # Idle => calls[k].call \in 1 .. made /\ calls[k].path \in Paths
         /\ \A p \in Paths : file[p] \in States /\ file[p].data \in Nat /\ file[p].data <= clock /\ file[p] # Unsafe
         /\ clock \in Nat
<1>1. TypeOK
  BY DEF IndInv
<1>2. \A r \in pending : r.call \in 1 .. made /\ r.path \in Paths /\ r.before \in States \cup {Unsafe}
  BY <1>1 DEF TypeOK
<1>3. \A k \in Calls : calls[k] # Idle => calls[k].call \in 1 .. made /\ calls[k].path \in Paths
  BY <1>1 DEF TypeOK
<1>4. \A p \in Paths : file[p] \in States
  BY <1>1 DEF TypeOK
<1>5. \A x \in States : x.data \in Nat /\ x # Unsafe
  BY DEF States, Absent, Unsafe
<1>6. made \in Nat /\ clock \in Nat /\ made + 1 \notin 1 .. made
  BY <1>1 DEF TypeOK
<1>. QED
  BY <1>1, <1>2, <1>3, <1>4, <1>5, <1>6 DEF Written

LEMMA BetweenPre ==
  ASSUME IndInv, Written, Between, NEW k \in Calls, NEW p \in Paths, Pre(k, p) \/ PreUnknown(k, p)
  PROVE  Between'
<1>1. /\ active # NoId /\ calls[k] = Idle /\ made' = made + 1 /\ UNCHANGED <<file, order, active, missed>>
      /\ strange \subseteq strange' /\ \A l \in Calls : calls[l] # Idle /\ calls[l].path = p => p \in strange'
  BY DEF Pre, PreUnknown, InTurn
<1>2. /\ TypeOK /\ made \in Nat /\ made + 1 \notin 1 .. made
      /\ \A r \in pending : r.call \in 1 .. made
      /\ \A l \in Calls : calls[l] # Idle => calls[l].call \in 1 .. made
  BY TurnTypes
<1>3. PICK c : c = [st |-> IF Pre(k, p) /\ full THEN "lost" ELSE "pre", path |-> p, call |-> made + 1]
  OBVIOUS
<1>4. /\ calls'[k] = c /\ c # Idle /\ c.path = p /\ c.call = made + 1 /\ \A l \in Calls \ {k} : calls'[l] = calls[l]
  BY <1>1, <1>2, <1>3 DEF Pre, PreUnknown, Became, TypeOK, Idle
<1>5. ASSUME NEW N, pending' = pending \cup N, \A r, q \in N : r = q,
             \A r \in N : r.call = made + 1 /\ r.path = p /\ r.id = active /\ r.before \in {file[p], Unsafe},
             manifest'[active].st = manifest[active].st, manifest'[active].warn = manifest[active].warn,
             p \in strange' \/ (c.st = "pre" /\ N # {}) \/ (c.st = "lost" /\ N = {})
      PROVE  Between'
  <2>1. \A l \in Calls \ {k} : calls[l] # Idle => Record(l)' = Record(l)
    BY <1>2, <1>4, <1>5 DEF Record
  <2>2. Record(k)' = N
    BY <1>2, <1>4, <1>5 DEF Record
  <2>3. active' # NoId => order' # << >> /\ active' = order'[Len(order')] /\ manifest'[active'].st = "open"
    BY <1>1, <1>5 DEF Between
  <2>4. \A l, m \in Calls : calls'[l] # Idle /\ calls'[m] # Idle /\ calls'[l].path = calls'[m].path =>
          l = m \/ calls'[l].path \in strange'
    BY <1>1, <1>4 DEF Between
  <2>5. \A r, q \in pending' : r.call = q.call => r = q
    BY <1>2, <1>5 DEF Between
  <2>6. \A l \in Calls : calls'[l] # Idle => \A r \in Record(l)' : r.path = calls'[l].path /\ r.id = active'
    BY <1>1, <1>4, <1>5, <2>1, <2>2 DEF Between
  <2>7. ASSUME NEW l \in Calls, calls'[l] # Idle, calls'[l].path \notin strange' \cup missed'
        PROVE  /\ calls'[l].st \in {"pre", "ran"} => Record(l)' # {}
               /\ calls'[l].st = "lost" => Record(l)' = {}
               /\ \A r \in Record(l)' :
                    /\ calls'[l].st = "pre" => r.before \in {file'[r.path], Unsafe}
                    /\ calls'[l].st = "ran" => r.before = Unsafe \/ r.before.data # file'[r.path].data
                    /\ calls'[l].st = "posted" /\ r.before = Unsafe => r.path \in manifest'[active'].warn
    <3>1. CASE l = k
      <4>1. p \notin strange' /\ c.st \in {"pre", "lost"}
        BY <1>3, <1>4, <2>7, <3>1 DEF Astray
      <4>. QED
        BY <1>1, <1>4, <1>5, <2>2, <3>1, <4>1
    <3>2. CASE l # k
      <4>1. calls[l] # Idle /\ calls'[l] = calls[l] /\ ~Astray(calls[l].path) /\ Record(l)' = Record(l)
        BY <1>1, <1>4, <2>1, <2>7, <3>2 DEF Astray
      <4>. QED
        BY <1>1, <1>5, <4>1 DEF Between
    <3>. QED
      BY <3>1, <3>2
  <2>. QED
    BY <2>3, <2>4, <2>5, <2>6, <2>7 DEF Between, Astray
<1>6. CASE Pre(k, p) /\ ~full
  <2>1. PICK b \in {file[p], Unsafe} : pending' = pending \cup {[id |-> active, call |-> made + 1, path |-> p, before |-> b]}
    BY <1>1, <1>6 DEF Pre
  <2>. PICK N : N = {[id |-> active, call |-> made + 1, path |-> p, before |-> b]}
    OBVIOUS
  <2>2. UNCHANGED manifest /\ c.st = "pre"
    BY <1>3, <1>6 DEF Pre
  <2>3. /\ pending' = pending \cup N /\ N # {} /\ \A r, q \in N : r = q
        /\ \A r \in N : r.call = made + 1 /\ r.path = p /\ r.id = active /\ r.before \in {file[p], Unsafe}
    BY <2>1
  <2>. QED
    BY <1>5, <2>2, <2>3
<1>7. CASE Pre(k, p) /\ full
  <2>. PICK N : N = {}
    OBVIOUS
  <2>1. UNCHANGED <<manifest, pending>> /\ c.st = "lost" /\ pending' = pending \cup N
    BY <1>3, <1>7 DEF Pre
  <2>. QED
    BY <1>5, <2>1
<1>8. CASE PreUnknown(k, p)
  <2>. PICK N : N = {}
    OBVIOUS
  <2>1. p \in strange' /\ pending' = pending \cup N /\ manifest' = [manifest EXCEPT ![active] = [manifest[active] EXCEPT !.blind = TRUE]]
    BY <1>8 DEF PreUnknown, Save
  <2>2. active \in Ids /\ manifest \in [Ids -> Manifests]
    BY <1>1, TurnIs DEF TypeOK
  <2>3. manifest'[active].st = manifest[active].st /\ manifest'[active].warn = manifest[active].warn
    BY <2>1, <2>2 DEF Manifests
  <2>. QED
    BY <1>5, <2>1, <2>3
<1>. QED
  BY <1>6, <1>7, <1>8

LEMMA BetweenToolWrite ==
  ASSUME IndInv, Written, Between, NEW k \in Calls, ToolWrite(k)
  PROVE  Between'
<1>. PICK p : p = calls[k].path
  OBVIOUS
<1>1. /\ active # NoId /\ calls[k] # Idle /\ calls[k].st \in {"pre", "lost"} /\ p \in Paths
      /\ UNCHANGED <<order, manifest, pending, active, strange>> /\ missed \subseteq missed'
      /\ (calls[k].st = "lost" => p \in missed' /\ calls' = [calls EXCEPT ![k] = Idle])
      /\ (calls[k].st # "lost" => calls' = [calls EXCEPT ![k] = [calls[k] EXCEPT !.st = "ran"]])
      /\ TypeOK /\ \A l \in Calls : calls[l] # Idle => calls[l].path \in Paths
  BY TurnTypes DEF ToolWrite, InTurn, Became, disk
<1>2. /\ \A q \in Paths \ {p} : file'[q] = file[q]
      /\ file'[p].data # file[p].data
  <2>1. PICK new \in {[data |-> clock + 1, ino |-> IF file[p] = Absent THEN clock + 1 ELSE file[p].ino], Absent} :
          new # file[p] /\ file' = [file EXCEPT ![p] = new]
    BY DEF ToolWrite
  <2>2. file[p] \in States /\ file[p].data \in Nat /\ file[p].data <= clock /\ clock \in Nat /\ file \in [Paths -> States]
    BY <1>1, TurnTypes DEF TypeOK
  <2>3. file'[p] = new /\ \A q \in Paths \ {p} : file'[q] = file[q]
    BY <1>1, <2>1, <2>2
  <2>4. new.data # file[p].data
    <3>1. CASE new = Absent
      BY <2>1, <2>2, <3>1 DEF States, Absent
    <3>2. CASE new # Absent
      <4>1. new.data = clock + 1
        BY <2>1, <3>2
      <4>. QED
        BY <2>2, <4>1
    <3>. QED
      BY <3>1, <3>2
  <2>. QED
    BY <2>3, <2>4
<1>3. /\ \A l \in Calls \ {k} : calls'[l] = calls[l]
      /\ calls'[k] # Idle => /\ calls[k].st = "pre" /\ calls'[k].st = "ran" /\ calls'[k].path = p /\ calls'[k].call = calls[k].call
  BY <1>1 DEF TypeOK
<1>4. \A l \in Calls : calls'[l] # Idle => calls[l] # Idle /\ calls'[l].path = calls[l].path /\ Record(l)' = Record(l)
  BY <1>1, <1>3 DEF Record
<1>5. ASSUME NEW l \in Calls, calls'[l] # Idle, calls'[l].path \notin strange' \cup missed'
      PROVE  /\ calls'[l].st \in {"pre", "ran"} => Record(l)' # {}
             /\ calls'[l].st = "lost" => Record(l)' = {}
             /\ \A r \in Record(l)' :
                  /\ calls'[l].st = "pre" => r.before \in {file'[r.path], Unsafe}
                  /\ calls'[l].st = "ran" => r.before = Unsafe \/ r.before.data # file'[r.path].data
                  /\ calls'[l].st = "posted" /\ r.before = Unsafe => r.path \in manifest'[active'].warn
  <2>1. calls[l] # Idle /\ ~Astray(calls[l].path) /\ Record(l)' = Record(l) /\ \A r \in Record(l) : r.path = calls[l].path
    BY <1>1, <1>4, <1>5 DEF Astray, Between
  <2>2. CASE l = k
    <3>1. calls[k].st = "pre" /\ calls'[k].st = "ran"
      BY <1>3, <1>5, <2>2
    <3>2. Record(k) # {} /\ \A r \in Record(k) : r.path = p /\ r.before \in {file[p], Unsafe}
      BY <1>1, <2>1, <2>2, <3>1 DEF Between
    <3>. QED
      BY <1>2, <2>1, <2>2, <3>1, <3>2
  <2>3. CASE l # k
    <3>1. calls[l].path # p
      BY <1>1, <2>1, <2>3 DEF Between, Astray
    <3>2. file'[calls[l].path] = file[calls[l].path] /\ calls'[l] = calls[l]
      BY <1>1, <1>2, <1>3, <2>1, <2>3, <3>1
    <3>. QED
      BY <1>1, <2>1, <3>2 DEF Between
  <2>. QED
    BY <2>2, <2>3
<1>. QED
  BY <1>1, <1>4, <1>5 DEF Between, Astray

LEMMA BetweenPost ==
  ASSUME IndInv, Written, Between, NEW k \in Calls, Post(k)
  PROVE  Between'
<1>1. /\ active # NoId /\ calls[k] # Idle /\ UNCHANGED <<file, order, pending, active, strange, missed>>
      /\ \A l \in Calls \ {k} : calls'[l] = calls[l]
      /\ calls'[k] # Idle => calls'[k].st = "posted" /\ calls'[k].call = calls[k].call /\ calls'[k].path = calls[k].path
  BY PostIs
<1>2. active \in Ids /\ manifest \in [Ids -> Manifests]
  BY <1>1, TurnIs DEF TypeOK
<1>3. manifest[active].warn \subseteq manifest'[active].warn /\ manifest'[active].st = manifest[active].st
  <2>1. PICK q \in Paths : Resaves(active, q)
    BY PostSaves
  <2>. QED
    BY <1>2, <2>1, Resaved
<1>4. calls'[k] # Idle => \A r \in Record(k) : r.before = Unsafe => r.path \in manifest'[active].warn
  <2>1. \A r, q \in Record(k) : r = q
    BY DEF Between, Record
  <2>2. ASSUME NEW r \in Record(k), r.before = Unsafe,
               manifest' = [manifest EXCEPT ![active] = [manifest[active] EXCEPT !.warn = @ \cup {r.path}]]
        PROVE  r.path \in manifest'[active].warn
    BY <1>2, <2>2 DEF Manifests
  <2>. QED
    BY <2>1, <2>2, PostIs
<1>5. \A l \in Calls : calls'[l] # Idle => calls[l] # Idle /\ calls'[l].path = calls[l].path /\ Record(l)' = Record(l)
  BY <1>1 DEF Record
<1>6. ASSUME NEW l \in Calls, calls'[l] # Idle, calls'[l].path \notin strange' \cup missed'
      PROVE  /\ calls'[l].st \in {"pre", "ran"} => Record(l)' # {}
             /\ calls'[l].st = "lost" => Record(l)' = {}
             /\ \A r \in Record(l)' :
                  /\ calls'[l].st = "pre" => r.before \in {file'[r.path], Unsafe}
                  /\ calls'[l].st = "ran" => r.before = Unsafe \/ r.before.data # file'[r.path].data
                  /\ calls'[l].st = "posted" /\ r.before = Unsafe => r.path \in manifest'[active'].warn
  <2>1. calls[l] # Idle /\ ~Astray(calls[l].path) /\ Record(l)' = Record(l)
    BY <1>1, <1>5, <1>6 DEF Astray
  <2>2. CASE l = k
    BY <1>1, <1>4, <1>6, <2>1, <2>2
  <2>3. CASE l # k
    BY <1>1, <1>3, <2>1, <2>3 DEF Between
  <2>. QED
    BY <2>2, <2>3
<1>. QED
  BY <1>1, <1>3, <1>5, <1>6 DEF Between, Astray

LEMMA BetweenDiscard ==
  ASSUME IndInv, Written, Between, NEW k \in Calls, Discard(k)
  PROVE  Between'
<1>1. /\ active # NoId /\ calls[k] # Idle /\ UNCHANGED <<file, order, manifest, active, strange, missed>>
      /\ \A l \in Calls \ {k} : calls'[l] = calls[l]
      /\ pending' = pending \ Record(k) /\ calls'[k] = Idle
  BY TurnTypes DEF Discard, InTurn, Became, TypeOK, history
<1>2. \A l \in Calls : calls'[l] # Idle => l # k /\ calls[l] # Idle /\ calls'[l] = calls[l] /\ Record(l)' = Record(l) \ Record(k)
  BY <1>1 DEF Record
<1>3. ASSUME NEW l \in Calls, calls'[l] # Idle, calls'[l].path \notin strange' \cup missed' PROVE Record(l)' = Record(l)
  <2>1. l # k /\ calls[l] # Idle /\ calls'[l] = calls[l] /\ Record(l)' = Record(l) \ Record(k) /\ calls[l].path \notin strange
    BY <1>1, <1>2, <1>3 DEF Astray
  <2>2. ASSUME NEW r \in Record(l), r \in Record(k) PROVE FALSE
    BY <1>1, <2>1, <2>2 DEF Between
  <2>. QED
    BY <2>1, <2>2
<1>4. ASSUME NEW l \in Calls, calls'[l] # Idle, calls'[l].path \notin strange' \cup missed'
      PROVE  /\ calls'[l].st \in {"pre", "ran"} => Record(l)' # {}
             /\ calls'[l].st = "lost" => Record(l)' = {}
             /\ \A r \in Record(l)' :
                  /\ calls'[l].st = "pre" => r.before \in {file'[r.path], Unsafe}
                  /\ calls'[l].st = "ran" => r.before = Unsafe \/ r.before.data # file'[r.path].data
                  /\ calls'[l].st = "posted" /\ r.before = Unsafe => r.path \in manifest'[active'].warn
  <2>1. calls[l] # Idle /\ calls'[l] = calls[l] /\ ~Astray(calls[l].path) /\ Record(l)' = Record(l)
    BY <1>1, <1>2, <1>3, <1>4 DEF Astray
  <2>. QED
    BY <1>1, <2>1 DEF Between
<1>. QED
  BY <1>1, <1>2, <1>4 DEF Between, Astray

LEMMA BetweenBegin ==
  ASSUME IndInv, Watched, Inside, Between, BeginIndex, ~full
  PROVE  Between'
<1>. PICK id : id = op.id
  OBVIOUS
<1>. PICK n : n = Len(order)
  OBVIOUS
<1>1. /\ active = NoId /\ active' = id /\ UNCHANGED calls /\ n \in Nat /\ pending' \subseteq pending
      /\ manifest[id] = Blank("open")
  BY Owned DEF BeginIndex, Inside
<1>2. \A k \in Calls : calls'[k] = Idle
  BY <1>1 DEF Watched
<1>3. PICK k \in 0 .. n :
        /\ Len(order') = (n + 1) - k
        /\ \A a \in 1 .. (n + 1) - k :
             /\ order'[a] = IF a + k = n + 1 THEN id ELSE order[a + k]
             /\ manifest'[order'[a]] = manifest[order'[a]]
  BY BeginIs
<1>. PICK a : a = (n + 1) - k
  OBVIOUS
<1>4. a \in 1 .. (n + 1) - k /\ a + k = n + 1
  BY <1>1
<1>5. order'[Len(order')] = id /\ manifest'[id].st = "open"
  <2>1. Len(order') = a
    BY <1>3
  <2>2. order'[a] = id /\ manifest'[order'[a]] = manifest[order'[a]]
    BY <1>3, <1>4
  <2>3. manifest[id].st = "open"
    BY <1>1 DEF Blank
  <2>. QED
    BY <2>1, <2>2, <2>3
<1>6. order' # << >>
  <2>1. Len(order') # 0
    BY <1>1, <1>3
  <2>2. Len(<< >>) = 0
    OBVIOUS
  <2>. QED
    BY <2>1, <2>2
<1>. QED
  BY <1>1, <1>2, <1>5, <1>6 DEF Between

LEMMA BetweenStep ==
  ASSUME IndInv, Written, Watched, UndoInv, [Next]_vars
  PROVE  Between'
<1>1. TypeOK /\ Between /\ Inside /\ (active = NoId => \A k \in Calls : calls[k] = Idle)
  BY DEF UndoInv, IndInv, Watched
<1>. USE <1>1
<1>2. CASE Finish \/ Kill
  <2>1. active' = NoId /\ calls' = [k \in Calls |-> Idle] /\ pending' \subseteq pending
    BY <1>2 DEF Finish, Kill, disk
  <2>. QED
    BY <2>1, BetweenNone
<1>3. CASE Turn /\ ~Finish
  BY <1>3, BetweenPre, BetweenToolWrite, BetweenPost, BetweenDiscard DEF Turn
<1>4. ASSUME UNCHANGED <<active, calls>>, pending' \subseteq pending, pc # "idle" PROVE Between'
  BY <1>4, BetweenNone DEF TypeOK
<1>5. CASE ApplyManifest \/ ApplyIndex \/ ApplyDone \/ ApplyError \/ Scan \/ ScanDone
  <2>1. UNCHANGED <<active, calls>> /\ pending' \subseteq pending /\ pc # "idle"
    BY <1>5 DEF ApplyManifest, ApplyIndex, ApplyDone, ApplyError, Scan, ScanDone, disk, memory
  <2>. QED
    BY <1>4, <2>1
<1>6. CASE CloseTurn \/ PlanError \/ Plan \/ (\E p \in Paths : Compare(p)) \/ Swap \/ Commit
  <2>1. UNCHANGED <<active, calls>> /\ pending' \subseteq pending /\ pc # "idle"
    BY <1>6 DEF CloseTurn, PlanError, Plan, Compare, Swap, Commit, disk, memory
  <2>. QED
    BY <1>4, <2>1
<1>7. CASE Close \/ Clear \/ Mark \/ GoNowhere \/ GoRestore \/ BeginRefused \/ BeginManifest \/ Fold \/ GoError \/ (BeginIndex /\ full)
  <2>1. UNCHANGED <<active, calls>> /\ pending' \subseteq pending /\ pc # "idle"
    BY <1>7 DEF Close, Clear, Mark, GoNowhere, GoRestore, BeginRefused, BeginManifest, Fold, GoError, BeginIndex, disk, memory
  <2>. QED
    BY <1>4, <2>1
<1>8. CASE Restart \/ \E o \in Ops : Acquire(o)
  <2>1. active = NoId /\ UNCHANGED <<active, calls, pending>>
    BY <1>8, TypedAcquire DEF Restart, Acquire, disk, memory
  <2>. QED
    BY <2>1, BetweenNone
<1>9. ASSUME NEW p \in Paths, UserEdit(p) PROVE Between'
  <2>1. /\ UNCHANGED <<order, manifest, pending, active, calls, missed>> /\ strange' = strange \cup {p}
        /\ \A q \in Paths \ {p} : file'[q] = file[q]
    BY <1>9 DEF UserEdit, disk, memory, TypeOK
  <2>2. \A k \in Calls : calls[k] # Idle => calls[k].path \in Paths
    BY DEF TypeOK
  <2>3. \A k \in Calls : Record(k)' = Record(k)
    BY <2>1 DEF Record
  <2>4. ASSUME NEW k \in Calls, calls[k] # Idle, calls[k].path \notin strange' \cup missed'
        PROVE  ~Astray(calls[k].path) /\ file'[calls[k].path] = file[calls[k].path]
    BY <2>1, <2>2, <2>4 DEF Astray
  <2>5. ASSUME NEW l \in Calls, calls'[l] # Idle, calls'[l].path \notin strange' \cup missed'
        PROVE  /\ calls'[l].st \in {"pre", "ran"} => Record(l)' # {}
               /\ calls'[l].st = "lost" => Record(l)' = {}
               /\ \A r \in Record(l)' :
                    /\ calls'[l].st = "pre" => r.before \in {file'[r.path], Unsafe}
                    /\ calls'[l].st = "ran" => r.before = Unsafe \/ r.before.data # file'[r.path].data
                    /\ calls'[l].st = "posted" /\ r.before = Unsafe => r.path \in manifest'[active'].warn
    BY <2>1, <2>3, <2>4, <2>5 DEF Between
  <2>. QED
    BY <2>1, <2>3, <2>5 DEF Between, Astray
<1>10. CASE FillUp \/ FreeUp \/ UNCHANGED vars
  <2>1. UNCHANGED <<file, order, manifest, pending, active, calls, strange, missed>>
    BY <1>10 DEF FillUp, FreeUp, vars, disk, memory, history
  <2>. QED
    BY <2>1 DEF Between, Record, Astray
<1>11. CASE BeginIndex /\ ~full
  BY <1>11, BetweenBegin
<1>. QED
  BY <1>2, <1>3, <1>5, <1>6, <1>7, <1>8, <1>9, <1>10, <1>11 DEF Next, Step, Turn
-----------------------------------------------------------------------------
(* The trail of a file between operations *)

LEMMA UndoInit ==
  ASSUME Init
  PROVE  UndoInv
<1>1. /\ pc = "idle" /\ txn = NoTxn /\ run = NoRun /\ op.kind = "none" /\ pending = {} /\ DOMAIN journals = {}
      /\ active = NoId /\ \A k \in Calls : calls[k] = Idle
  BY DEF Init, NoOp
<1>2. Order = << >> /\ order = << >>
  BY DEF Init, Order
<1>3. ASSUME NEW p \in Paths PROVE Awaiting(p)
  <2>1. Sure(p) = {} /\ Len(Order) + 1 \in Breaks
    BY <1>2 DEF Sure, Breaks
  <2>2. Tied(Line(p), Len(Order) + 1, {}, Ends(p))
    BY DEF Tied
  <2>. QED
    BY <2>1, <2>2 DEF Awaiting
<1>4. Held
  BY <1>1, <1>3 DEF Held
<1>5. OpenRecords /\ Gated
  BY <1>1 DEF OpenRecords, Gated
<1>6. Inside
  BY <1>1 DEF Inside
<1>7. Between
  BY <1>1 DEF Between
<1>. QED
  BY <1>4, <1>5, <1>6, <1>7 DEF UndoInv

LEMMA UndoStep ==
  ASSUME Inclusions \subseteq {TRUE}, IndInv, TrailInv, UndoInv, CompletedFirst, [Next]_vars
  PROVE  UndoInv'
<1>1. Written /\ Watched /\ Between /\ Held
  BY DEF TrailInv, UndoInv
<1>. QED
  BY <1>1, HeldStep, OpenStep, InsideStep, GatedStep, BetweenStep DEF UndoInv

\* A tied line that every turn is sure of, with no restore to settle, is the trail.
LEMMA QuietTrail ==
  ASSUME IndInv, TrailInv, UndoInv, Quiet, NEW p \in Paths, Tracked(p), Chain(p, order) # << >>
  PROVE  Continuous(Chain(p, order)) /\ Last(Chain(p, order)).after = file[p]
<1>. PICK n : n = Len(order)
  OBVIOUS
<1>. PICK D : D = Line(p)
  OBVIOUS
<1>1. /\ TypeOK /\ up /\ pc = "idle" /\ active = NoId /\ gate = {} /\ txn = NoTxn /\ Order = order /\ Mans = manifest
      /\ \A j \in DOMAIN journals : journals[j].fin
  BY DEF IndInv, Quiet, Order, Mans
<1>2. n \in Nat /\ DOMAIN order = 1 .. n /\ \A a \in 1 .. n : order[a] \in Range(order) /\ order[a] \in Ids
  BY <1>1, Branches
<1>3. D \in [1 .. n -> Seq(Changes)]
  BY <1>1, Lines
<1>4. Breaks = {n + 1}
  <2>1. op.kind # "init"
    BY <1>1 DEF TypeOK, NoOp
  <2>2. \A j \in DOMAIN journals : journals[j].id \in Range(order) => ~Undone(j)
    BY <1>1, <2>1 DEF UndoInv, Gated, Undone
  <2>3. Waiting = DOMAIN journals
    BY <1>1 DEF Waiting
  <2>. QED
    BY <1>1, <1>2, <2>2, <2>3 DEF Breaks
<1>5. Sure(p) = 1 .. n
  <2>1. \A c \in Range(order) : Spared(c, p)
    <3>1. \A c \in Range(order) : p \notin manifest[c].warn
      BY DEF Tracked, Warned
    <3>. QED
      BY <1>1, <3>1 DEF Tracked, Spared
  <2>. QED
    BY <1>1, <1>2, <2>1 DEF Sure
<1>6. Ends(p) = {file[p]}
  <2>1. \A k \in Calls : calls[k] = Idle
    BY <1>1 DEF TrailInv, Watched
  <2>. QED
    BY <1>1, <2>1, EndsIdle
<1>7. Tied(D, n + 1, 1 .. n, {file[p]})
  <2>1. Awaiting(p) /\ ~Astray(p)
    BY <1>1 DEF UndoInv, Held, Tracked, Astray
  <2>. QED
    BY <1>4, <1>5, <1>6, <2>1 DEF Awaiting
<1>8. Chain(p, order) = FlattenSeq(D)
  BY <1>1 DEF Chain, Line
<1>. PICK t : t = Chain(p, order)
  OBVIOUS
<1>. PICK X : X = {file[p]}
  OBVIOUS
<1>9. n \in Nat /\ D \in [1 .. n -> Seq(Changes)] /\ Tied(D, n + 1, 1 .. n, X) /\ t = FlattenSeq(D) /\ t # << >>
  BY <1>2, <1>3, <1>7, <1>8
<1>10. Continuous(t) /\ Last(t).after \in X
  BY ONLY <1>9, TiedWhole
<1>. QED
  BY <1>10

\* With the target always included, as the runtime does, and every branch update
\* completed before a restore or a turn is planned on it: between operations, with
\* no restore left to settle, the trail of a file that only tools have touched, one
\* at a time, is unbroken and ends in the file.  A line of changes holds together
\* up to the checkpoint of the first restore that has yet to finish; what that
\* restore has put back already is cut from there on when it commits.
THEOREM TrailsHold ==
  ASSUME Inclusions \subseteq {TRUE}
  PROVE  Spec /\ []CompletedFirst => []TrailUnbroken
<1>1. Init => IndInv /\ TrailInv /\ UndoInv
  BY IndInit, TrailInit, UndoInit
<1>2. IndInv /\ TrailInv /\ UndoInv /\ CompletedFirst /\ [Next]_vars => (IndInv /\ TrailInv /\ UndoInv)'
  <2>. SUFFICES ASSUME IndInv, TrailInv, UndoInv, CompletedFirst, [Next]_vars PROVE IndInv' /\ TrailInv' /\ UndoInv'
    OBVIOUS
  <2>1. IndInv'
    BY TypeStep, GateStep, ChainedStep DEF IndInv
  <2>2. TrailInv'
    BY WrittenStep, RecordedStep, PreparedStep, WatchedStep, ComparedStep DEF TrailInv
  <2>3. UndoInv'
    BY UndoStep
  <2>. QED
    BY <2>1, <2>2, <2>3
<1>3. IndInv /\ TrailInv /\ UndoInv => TrailUnbroken
  BY QuietTrail DEF TrailUnbroken
<1>. QED
  BY <1>1, <1>2, <1>3, PTL DEF Spec

\* On a disk that never fills up a branch update is over before the operation is.
Roomy == ~full /\ fulls = 0 /\ (pc \notin {"idle", "txn", "apply"} => txn = NoTxn)

LEMMA RoomyStep ==
  ASSUME MaxFulls = 0, Roomy, [Next]_vars
  PROVE  Roomy'
<1>1. UNCHANGED <<full, fulls>>
  <2>1. CASE Turn
    BY <2>1 DEF Turn, Finish, ToolWrite, Post, Discard, Pre, PreUnknown, bounds
  <2>2. CASE Step \/ Restart \/ \E o \in Ops : Acquire(o)
    <3>1. UNCHANGED full
      BY <2>2 DEF Step, Restart, Acquire, ApplyManifest, ApplyIndex, ApplyDone, ApplyError, Scan, ScanDone, CloseTurn,
         PlanError, Plan, Compare, Swap, Commit, Close, Clear, Mark, GoNowhere, GoRestore, BeginRefused, BeginManifest,
         BeginIndex, Fold, GoError
    <3>2. UNCHANGED fulls
      BY <2>2 DEF Step, Restart, Acquire, ApplyManifest, ApplyIndex, ApplyDone, ApplyError, Scan, ScanDone, CloseTurn,
         PlanError, Plan, Compare, Swap, Commit, Close, Clear, Mark, GoNowhere, GoRestore, BeginRefused, BeginManifest,
         BeginIndex, Fold, GoError, bounds
    <3>. QED
      BY <3>1, <3>2
  <2>3. CASE Kill \/ FillUp \/ FreeUp \/ UNCHANGED vars \/ \E p \in Paths : UserEdit(p)
    BY <2>3 DEF Kill, FillUp, FreeUp, UserEdit, Roomy, vars, bounds
  <2>. QED
    BY <2>1, <2>2, <2>3 DEF Next
<1>2. pc' \notin {"idle", "txn", "apply"} => txn' = NoTxn
  <2>1. CASE Turn
    <3>1. UNCHANGED pc
      BY <2>1 DEF Turn, Finish, ToolWrite, Post, Discard, Pre, PreUnknown, work
    <3>2. UNCHANGED txn
      BY <2>1 DEF Turn, Finish, ToolWrite, Post, Discard, Pre, PreUnknown, disk
    <3>. QED
      BY <3>1, <3>2 DEF Roomy
  <2>2. CASE ApplyManifest \/ ApplyIndex \/ ApplyDone \/ ApplyError
    BY <2>2 DEF ApplyManifest, ApplyIndex, ApplyDone, ApplyError, Roomy, work
  <2>3. CASE Commit \/ Fold
    BY <2>3 DEF Commit, Fold, Roomy, End
  <2>4. CASE Scan \/ ScanDone \/ CloseTurn \/ PlanError \/ Plan \/ (\E p \in Paths : Compare(p)) \/ Swap \/ Close \/ Clear
             \/ Mark \/ GoNowhere \/ GoRestore \/ BeginRefused \/ BeginManifest \/ BeginIndex \/ GoError
    <3>1. UNCHANGED txn /\ pc \notin {"idle", "txn", "apply"}
      BY <2>4 DEF Scan, ScanDone, CloseTurn, PlanError, Plan, Compare, Swap, Close, Clear, Mark, GoNowhere, GoRestore,
         BeginRefused, BeginManifest, BeginIndex, GoError, disk
    <3>. QED
      BY <3>1 DEF Roomy
  <2>5. CASE Restart \/ \E o \in Ops : Acquire(o)
    BY <2>5 DEF Restart, Acquire, Recover, disk
  <2>6. CASE Kill \/ FillUp \/ FreeUp \/ UNCHANGED vars \/ \E p \in Paths : UserEdit(p)
    BY <2>6 DEF Kill, End, FillUp, FreeUp, UserEdit, Roomy, vars, disk, work
  <2>. QED
    BY <2>1, <2>2, <2>3, <2>4, <2>5, <2>6 DEF Next, Step
<1>. QED
  BY <1>1, <1>2 DEF Roomy

\* The same on a disk that never fills up, whatever the user edits and however often
\* the process is killed, with no branch update to assume anything of.
THEOREM TrailsHoldWithRoom ==
  ASSUME Inclusions \subseteq {TRUE}, MaxFulls = 0
  PROVE  Spec => []TrailUnbroken
<1>1. Init => Roomy
  BY DEF Init, Roomy
<1>2. Roomy /\ [Next]_vars => Roomy'
  BY RoomyStep
<1>3. Roomy => CompletedFirst
  BY DEF Roomy, CompletedFirst
<1>. QED
  BY <1>1, <1>2, <1>3, TrailsHold, PTL DEF Spec
=============================================================================
