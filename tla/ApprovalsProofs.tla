-------------------------- MODULE ApprovalsProofs --------------------------
(* Theorems about Approvals, for any calls, keys and switches of posture.  *)
EXTENDS Approvals, SequenceTheorems, WellFoundedInduction, TLAPS

-----------------------------------------------------------------------------
(* Lemmas about numbers and sequences *)

LEMMA MinOf ==
  ASSUME NEW S \in SUBSET Nat, S # {}
  PROVE  Min(S) \in S /\ \A y \in S : Min(S) <= y
<1> DEFINE Less == {ss \in Nat \X Nat : ss[1] < ss[2]}
<1>1. OpToRel(<, Nat) = Less
  BY Zenon DEF OpToRel
<1>2. IsWellFoundedOn(Less, Nat)
  BY <1>1, NatLessThanWellFounded, Zenon
<1>3. \E x \in S : \A y \in S : ~(<<y, x>> \in Less)
  <2>. HIDE DEF Less
  <2>. QED
    BY <1>2, WFMin, Zenon
<1>4. PICK x \in S : \A y \in S : ~(<<y, x>> \in Less)
  BY <1>3
<1>5. \A y \in S : x <= y
  <2>. SUFFICES ASSUME NEW y \in S, ~(x <= y) PROVE FALSE
    OBVIOUS
  <2>1. y \in Nat /\ x \in Nat /\ y < x
    OBVIOUS
  <2>2. <<y, x>> \in Less
    BY <2>1
  <2>. QED
    BY <1>4, <2>2
<1>. QED
  BY <1>5 DEF Min

\* Two halves of a sequence, without the element between them.
LEMMA Spliced ==
  ASSUME NEW S, NEW q \in Seq(S), NEW i \in 1 .. Len(q),
         NEW r, r = SubSeq(q, 1, i - 1) \o SubSeq(q, i + 1, Len(q))
  PROVE  /\ r \in Seq(S) /\ DOMAIN r = 1 .. Len(q) - 1
         /\ \A j \in 1 .. Len(q) - 1 : r[j] = IF j < i THEN q[j] ELSE q[j + 1]
<1>. PICK n : n = Len(q)
  OBVIOUS
<1>1. n \in Nat /\ i \in Nat /\ 1 <= i /\ i <= n /\ DOMAIN q = 1 .. n
  BY LenProperties
<1>8. \A j \in 1 .. n : q[j] \in S
  BY ElementOfSeq
<1>. PICK a : a = SubSeq(q, 1, i - 1)
  OBVIOUS
<1>. PICK b : b = SubSeq(q, i + 1, n)
  OBVIOUS
<1>2. /\ a \in Seq(S) /\ Len(a) = i - 1 /\ \A j \in 1 .. i - 1 : a[j] = q[j]
  <2>1. 1 \in Int /\ i - 1 \in Int /\ \A m \in 1 .. i - 1 : q[m] \in S
    BY <1>1, <1>8
  <2>2. /\ a \in Seq(S) /\ Len(a) = (IF 1 <= i - 1 THEN (i - 1) - 1 + 1 ELSE 0)
        /\ \A j \in 1 .. (i - 1) - 1 + 1 : a[j] = q[1 + j - 1]
    BY <2>1, SubSeqProperties
  <2>3. (IF 1 <= i - 1 THEN (i - 1) - 1 + 1 ELSE 0) = i - 1
    BY <1>1
  <2>4. (i - 1) - 1 + 1 = i - 1 /\ \A j \in 1 .. i - 1 : 1 + j - 1 = j
    BY <1>1
  <2>. QED
    BY <2>2, <2>3, <2>4
<1>3. /\ b \in Seq(S) /\ Len(b) = n - i /\ \A j \in 1 .. n - i : b[j] = q[i + j]
  <2>1. i + 1 \in Int /\ n \in Int /\ \A m \in i + 1 .. n : q[m] \in S
    BY <1>1, <1>8
  <2>2. /\ b \in Seq(S) /\ Len(b) = (IF i + 1 <= n THEN n - (i + 1) + 1 ELSE 0)
        /\ \A j \in 1 .. n - (i + 1) + 1 : b[j] = q[(i + 1) + j - 1]
    BY <2>1, SubSeqProperties
  <2>3. (IF i + 1 <= n THEN n - (i + 1) + 1 ELSE 0) = n - i
    BY <1>1
  <2>4. n - (i + 1) + 1 = n - i /\ \A j \in 1 .. n - i : (i + 1) + j - 1 = i + j
    BY <1>1
  <2>. QED
    BY <2>2, <2>3, <2>4
<1>4. /\ r \in Seq(S) /\ Len(r) = (i - 1) + (n - i)
      /\ \A j \in 1 .. (i - 1) + (n - i) : r[j] = IF j <= i - 1 THEN a[j] ELSE b[j - (i - 1)]
  <2>1. r = a \o b
    OBVIOUS
  <2>2. /\ r \in Seq(S) /\ Len(r) = Len(a) + Len(b)
        /\ \A j \in 1 .. Len(a) + Len(b) : r[j] = IF j <= Len(a) THEN a[j] ELSE b[j - Len(a)]
    <3>1. a \in Seq(S) /\ b \in Seq(S)
      BY <1>2, <1>3, Zenon
    <3>2. /\ a \o b \in Seq(S) /\ Len(a \o b) = Len(a) + Len(b)
          /\ \A j \in 1 .. Len(a) + Len(b) : (a \o b)[j] = IF j <= Len(a) THEN a[j] ELSE b[j - Len(a)]
      BY <3>1, ConcatProperties, ZenonT(30)
    <3>. QED
      BY <2>1, <3>2, ZenonT(60)
  <2>. QED
    BY <1>2, <1>3, <2>2, Zenon
<1>5. (i - 1) + (n - i) = n - 1 /\ DOMAIN r = 1 .. n - 1
  <2>1. (i - 1) + (n - i) = n - 1
    BY <1>1
  <2>. QED
    BY <1>4, <2>1, LenProperties
<1>6. ASSUME NEW j \in 1 .. n - 1 PROVE r[j] = IF j < i THEN q[j] ELSE q[j + 1]
  <2>1. r[j] = IF j <= i - 1 THEN a[j] ELSE b[j - (i - 1)]
    BY <1>4, <1>5, Zenon
  <2>2. CASE j < i
    <3>1. j \in 1 .. i - 1 /\ j <= i - 1
      BY <1>1, <2>2
    <3>. QED
      BY <1>2, <2>1, <2>2, <3>1
  <2>3. CASE ~(j < i)
    <3>1. j - (i - 1) \in 1 .. n - i /\ ~(j <= i - 1) /\ i + (j - (i - 1)) = j + 1
      BY <1>1, <2>3
    <3>. QED
      BY <1>3, <2>1, <2>3, <3>1
  <2>. QED
    BY <2>2, <2>3
<1>. QED
  BY <1>4, <1>5, <1>6

\* list.remove
LEMMA RemoveDoes ==
  ASSUME NEW S, NEW q \in Seq(S), IsInjective(q), NEW e, e \in Range(q),
         NEW r, r = RemoveFirst(q, e)
  PROVE  r \in Seq(S) /\ IsInjective(r) /\ Range(r) = Range(q) \ {e}
<1>1. Len(q) \in Nat /\ DOMAIN q = 1 .. Len(q)
  BY LenProperties
<1>2. PICK i \in 1 .. Len(q) : q[i] = e
  BY <1>1 DEF Range
<1>3. \A j, m \in 1 .. Len(q) : q[j] = q[m] => j = m
  BY <1>1 DEF IsInjective
<1>4. r = SubSeq(q, 1, i - 1) \o SubSeq(q, i + 1, Len(q))
  <2>1. {j \in 1 .. Len(q) : q[j] = e} = {i}
    BY <1>2, <1>3
  <2>2. Min({i}) = i
    <3>1. {i} \in SUBSET Nat /\ {i} # {}
      BY <1>1
    <3>. QED
      BY <3>1, MinOf
  <2>3. SelectInSeq(q, LAMBDA v : v = e) = i
    BY <2>1, <2>2, Zenon DEF SelectInSeq
  <2>. QED
    BY <1>2, <2>3, Zenon DEF RemoveFirst, RemoveAt
<1>5. /\ r \in Seq(S) /\ DOMAIN r = 1 .. Len(q) - 1
      /\ \A j \in 1 .. Len(q) - 1 : r[j] = IF j < i THEN q[j] ELSE q[j + 1]
  <2>1. \A t : t = SubSeq(q, 1, i - 1) \o SubSeq(q, i + 1, Len(q)) =>
          /\ t \in Seq(S) /\ DOMAIN t = 1 .. Len(q) - 1
          /\ \A j \in 1 .. Len(q) - 1 : t[j] = IF j < i THEN q[j] ELSE q[j + 1]
    BY Spliced
  <2>. QED
    BY <1>4, <2>1, Zenon
<1>6. IsInjective(r)
  <2>. SUFFICES ASSUME NEW j \in 1 .. Len(q) - 1, NEW m \in 1 .. Len(q) - 1, r[j] = r[m] PROVE j = m
    BY <1>5 DEF IsInjective
  <2>1. /\ j \in 1 .. Len(q) /\ m \in 1 .. Len(q) /\ j + 1 \in 1 .. Len(q) /\ m + 1 \in 1 .. Len(q)
        /\ (j + 1 = m + 1 => j = m)
    BY <1>1
  <2>2. /\ (j < i /\ ~(m < i) => j # m + 1) /\ (m < i /\ ~(j < i) => m # j + 1)
    BY <1>1
  <2>. QED
    BY <1>3, <1>5, <2>1, <2>2
<1>7. Range(r) \subseteq Range(q) \ {e}
  <2>. SUFFICES ASSUME NEW j \in 1 .. Len(q) - 1 PROVE r[j] \in Range(q) \ {e}
    BY <1>5 DEF Range
  <2>1. j \in 1 .. Len(q) /\ j + 1 \in 1 .. Len(q) /\ (j < i => j # i) /\ (~(j < i) => j + 1 # i)
    BY <1>1
  <2>2. \A m \in 1 .. Len(q) : m # i => q[m] \in Range(q) \ {e}
    BY <1>1, <1>2, <1>3 DEF Range
  <2>. QED
    BY <1>5, <2>1, <2>2
<1>8. Range(q) \ {e} \subseteq Range(r)
  <2>. SUFFICES ASSUME NEW j \in 1 .. Len(q), q[j] # e PROVE q[j] \in Range(r)
    BY <1>1 DEF Range
  <2>1. \A m \in 1 .. Len(q) - 1 : r[m] \in Range(r)
    BY <1>5 DEF Range
  <2>2. CASE j < i
    <3>1. j \in 1 .. Len(q) - 1
      BY <1>1, <2>2
    <3>. QED
      BY <1>5, <2>1, <2>2, <3>1
  <2>3. CASE j > i
    <3>1. j - 1 \in 1 .. Len(q) - 1 /\ ~(j - 1 < i) /\ (j - 1) + 1 = j
      BY <1>1, <2>3
    <3>. QED
      BY <1>5, <2>1, <3>1
  <2>. QED
    BY <1>1, <1>2, <2>2, <2>3
<1>. QED
  BY <1>5, <1>6, <1>7, <1>8

\* What a queue of records holds when its head leaves and when a record is added.
LEMMA TailDoes ==
  ASSUME NEW S, NEW q \in Seq(S), q # << >>
  PROVE  /\ Tail(q) \in Seq(S) /\ Head(q) \in S /\ 1 \in DOMAIN q /\ q[1] = Head(q)
         /\ DOMAIN q = 1 .. Len(q) /\ DOMAIN Tail(q) = 1 .. Len(q) - 1 /\ Len(q) \in Nat \ {0}
         /\ \A i \in DOMAIN Tail(q) : i \in Nat /\ i + 1 \in DOMAIN q /\ Tail(q)[i] = q[i + 1]
         /\ \A i \in DOMAIN q : i # 1 => i - 1 \in DOMAIN Tail(q) /\ Tail(q)[i - 1] = q[i]
<1>1. /\ Tail(q) \in Seq(S) /\ Head(q) \in S /\ Len(Tail(q)) = Len(q) - 1
      /\ \A i \in 1 .. Len(Tail(q)) : Tail(q)[i] = q[i + 1]
  BY HeadTailProperties
<1>2. /\ Len(q) \in Nat \ {0} /\ DOMAIN q = 1 .. Len(q) /\ DOMAIN Tail(q) = 1 .. Len(Tail(q))
      /\ q[1] = Head(q)
  BY <1>1, LenProperties, EmptySeq
<1>3. \A i \in 1 .. Len(q) - 1 : i \in Nat /\ i + 1 \in 1 .. Len(q)
  BY <1>2
<1>4. \A i \in 1 .. Len(q) : i # 1 => i - 1 \in 1 .. Len(q) - 1 /\ (i - 1) + 1 = i
  BY <1>2
<1>5. 1 \in 1 .. Len(q)
  BY <1>2
<1>. QED
  BY <1>1, <1>2, <1>3, <1>4, <1>5

LEMMA AppendDoes ==
  ASSUME NEW S, NEW q \in Seq(S), NEW e \in S
  PROVE  /\ Append(q, e) \in Seq(S)
         /\ DOMAIN q = 1 .. Len(q) /\ Len(q) \in Nat /\ Len(q) + 1 \notin DOMAIN q
         /\ DOMAIN Append(q, e) = DOMAIN q \cup {Len(q) + 1}
         /\ Append(q, e)[Len(q) + 1] = e
         /\ \A i \in DOMAIN q : Append(q, e)[i] = q[i] /\ i < Len(q) + 1
<1>1. /\ Append(q, e) \in Seq(S) /\ Len(Append(q, e)) = Len(q) + 1
      /\ \A i \in 1 .. Len(q) : Append(q, e)[i] = q[i]
      /\ Append(q, e)[Len(q) + 1] = e
  BY AppendProperties
<1>2. /\ Len(q) \in Nat /\ DOMAIN q = 1 .. Len(q)
      /\ DOMAIN Append(q, e) = 1 .. Len(q) + 1
  BY <1>1, LenProperties
<1>3. 1 .. Len(q) + 1 = 1 .. Len(q) \cup {Len(q) + 1} /\ Len(q) + 1 \notin 1 .. Len(q)
  BY <1>2
<1>. QED
  BY <1>1, <1>2, <1>3

\* The same, of what is in the queue.
LEMMA QueueGoes ==
  ASSUME NEW S, NEW q \in Seq(S)
  PROVE  /\ q # << >> => /\ Tail(q) \in Seq(S) /\ Head(q) \in S
                         /\ Head(q) \in Range(q)
                         /\ Range(q) = Range(Tail(q)) \cup {Head(q)}
         /\ \A e \in S : Append(q, e) \in Seq(S) /\ Range(Append(q, e)) = Range(q) \cup {e}
<1>1. ASSUME q # << >>
      PROVE  /\ Tail(q) \in Seq(S) /\ Head(q) \in S
             /\ Head(q) \in Range(q)
             /\ Range(q) = Range(Tail(q)) \cup {Head(q)}
  <2>1. /\ Tail(q) \in Seq(S) /\ Head(q) \in S /\ 1 \in DOMAIN q /\ q[1] = Head(q)
        /\ \A i \in DOMAIN Tail(q) : i + 1 \in DOMAIN q /\ Tail(q)[i] = q[i + 1]
        /\ \A i \in DOMAIN q : i # 1 => i - 1 \in DOMAIN Tail(q) /\ Tail(q)[i - 1] = q[i]
    BY <1>1, TailDoes
  <2>2. Range(Tail(q)) \subseteq Range(q)
    BY <2>1 DEF Range
  <2>3. Range(q) \subseteq Range(Tail(q)) \cup {Head(q)}
    <3>. SUFFICES ASSUME NEW i \in DOMAIN q PROVE q[i] \in Range(Tail(q)) \cup {Head(q)}
      BY Zenon DEF Range
    <3>1. CASE i = 1
      BY <2>1, <3>1
    <3>2. CASE i # 1
      BY <2>1, <3>2, Zenon DEF Range
    <3>. QED
      BY <3>1, <3>2
  <2>. QED
    BY <2>1, <2>2, <2>3 DEF Range
<1>2. ASSUME NEW e \in S
      PROVE  Append(q, e) \in Seq(S) /\ Range(Append(q, e)) = Range(q) \cup {e}
  <2>1. /\ Append(q, e) \in Seq(S)
        /\ DOMAIN Append(q, e) = DOMAIN q \cup {Len(q) + 1}
        /\ Append(q, e)[Len(q) + 1] = e
        /\ \A i \in DOMAIN q : Append(q, e)[i] = q[i]
    BY AppendDoes
  <2>. QED
    BY <2>1, Zenon DEF Range
<1>. QED
  BY <1>1, <1>2

LEMMA QueueGains ==
  ASSUME NEW S, NEW q \in Seq(S), NEW e \in S
  PROVE  Append(q, e) \in Seq(S) /\ Range(Append(q, e)) = Range(q) \cup {e}
BY QueueGoes

LEMMA QueueTurns ==
  ASSUME NEW S, NEW q \in Seq(S), q # << >>, NEW e \in S
  PROVE  Append(Tail(q), e) \in Seq(S) /\ Range(Append(Tail(q), e)) = Range(Tail(q)) \cup {e}
<1>1. \A t \in Seq(S) : Append(t, e) \in Seq(S) /\ Range(Append(t, e)) = Range(t) \cup {e}
  BY QueueGains
<1>2. Tail(q) \in Seq(S)
  BY QueueGoes
<1>. QED
  BY <1>1, <1>2, Zenon

-----------------------------------------------------------------------------
(* Lemmas about the head *)

LEMMA HeadIs ==
  ASSUME NEW q \in Seq(Asks), NEW a, NEW h, h = HeadOf(q, a), h # NoAsk
  PROVE  /\ h \in Asks /\ h \in Range(q) /\ ~a[h].deferred /\ a[h].fut = "open"
         /\ OpenAt(q, a) # {} /\ Min(OpenAt(q, a)) \in OpenAt(q, a) /\ h = q[Min(OpenAt(q, a))]
         /\ \A i \in OpenAt(q, a) : Min(OpenAt(q, a)) <= i
<1>1. DOMAIN q = 1 .. Len(q) /\ Len(q) \in Nat /\ OpenAt(q, a) \subseteq DOMAIN q
  BY LenProperties DEF OpenAt
<1>2. OpenAt(q, a) \in SUBSET Nat
  BY <1>1
<1>3. OpenAt(q, a) # {} /\ h = q[Min(OpenAt(q, a))]
  BY DEF HeadOf
<1>4. Min(OpenAt(q, a)) \in OpenAt(q, a) /\ \A i \in OpenAt(q, a) : Min(OpenAt(q, a)) <= i
  BY <1>2, <1>3, MinOf
<1>5. ~a[h].deferred /\ a[h].fut = "open"
  BY <1>3, <1>4 DEF OpenAt
<1>6. h \in Asks /\ h \in Range(q)
  BY <1>1, <1>3, <1>4, ElementOfSeq DEF Range
<1>. QED
  BY <1>3, <1>4, <1>5, <1>6

LEMMA HeadTypes ==
  ASSUME NEW q \in Seq(Asks), NEW a
  PROVE  HeadOf(q, a) \in Asks \cup {NoAsk}
BY HeadIs

\* A ticket that is not the head may be closed, and the head stays.
LEMMA HeadStays ==
  ASSUME NEW q \in Seq(Asks), NEW a, NEW b, NEW k, k # HeadOf(q, a),
         \A j \in Asks : j # k => b[j].deferred = a[j].deferred /\ b[j].fut = a[j].fut,
         ~b[k].deferred /\ b[k].fut = "open" => ~a[k].deferred /\ a[k].fut = "open"
  PROVE  HeadOf(q, b) = HeadOf(q, a)
<1>1. DOMAIN q = 1 .. Len(q) /\ Len(q) \in Nat /\ \A i \in DOMAIN q : q[i] \in Asks
  BY LenProperties, ElementOfSeq
<1>2. OpenAt(q, b) \subseteq OpenAt(q, a) /\ \A i \in OpenAt(q, a) : q[i] # k => i \in OpenAt(q, b)
  BY <1>1 DEF OpenAt
<1>3. CASE OpenAt(q, a) = {}
  BY <1>2, <1>3 DEF HeadOf
<1>4. CASE OpenAt(q, a) # {}
  <2>. PICK m : m = Min(OpenAt(q, a))
    OBVIOUS
  <2>1. OpenAt(q, a) \in SUBSET Nat /\ OpenAt(q, b) \in SUBSET Nat
    BY <1>1 DEF OpenAt
  <2>2. m \in OpenAt(q, a) /\ (\A i \in OpenAt(q, a) : m <= i) /\ HeadOf(q, a) = q[m]
    BY <1>4, <2>1, MinOf DEF HeadOf
  <2>3. m \in OpenAt(q, b)
    BY <1>2, <2>2
  <2>4. Min(OpenAt(q, b)) \in OpenAt(q, b) /\ \A i \in OpenAt(q, b) : Min(OpenAt(q, b)) <= i
    BY <2>1, <2>3, MinOf
  <2>5. Min(OpenAt(q, b)) = m
    <3>1. Min(OpenAt(q, b)) <= m /\ m <= Min(OpenAt(q, b)) /\ m \in Nat /\ Min(OpenAt(q, b)) \in Nat
      BY <1>2, <2>1, <2>2, <2>3, <2>4
    <3>. QED
      BY <3>1
  <2>. QED
    BY <2>2, <2>3, <2>5 DEF HeadOf
<1>. QED
  BY <1>3, <1>4

-----------------------------------------------------------------------------
(* What the steps do to the calls and the queues *)

\* The call k is changed, and no other.
Only(k) == /\ ask' \in [Asks -> Tickets] /\ k \in Asks
           /\ \A j \in Asks : j # k => ask'[j] = ask[j]

LEMMA Changed ==
  ASSUME ask \in [Asks -> Tickets], NEW k \in Asks, NEW t \in Tickets, ask' = [ask EXCEPT ![k] = t]
  PROVE  Only(k) /\ ask'[k] = t
BY DEF Only

LEMMA RequestDoes ==
  ASSUME TypeOK, NEW k \in Asks, Request(k)
  PROVE  /\ Only(k)
         /\ ask'[k].st = "waiting" /\ ask[k].st = "new"
         /\ ask'[k].fut = ask[k].fut /\ ask'[k].deferred = ask[k].deferred
         /\ ask'[k].expired = ask[k].expired /\ ask'[k].result = ask[k].result
<1> DEFINE t == [ask[k] EXCEPT !.st = "waiting"]
<1>1. ask \in [Asks -> Tickets] /\ ask[k] \in Tickets
  BY DEF TypeOK
<1>2. ask' = [ask EXCEPT ![k] = t]
  BY Zenon DEF Request
<1>3. t \in Tickets
  BY <1>1 DEF Tickets
<1>4. /\ t.st = "waiting" /\ t.fut = ask[k].fut /\ t.deferred = ask[k].deferred
      /\ t.expired = ask[k].expired /\ t.result = ask[k].result
  BY <1>1 DEF Tickets
<1>5. Only(k) /\ ask'[k] = t
  BY <1>1, <1>2, <1>3, Changed
<1>. QED
  BY <1>4, <1>5, Zenon DEF Request

LEMMA DueDoes ==
  ASSUME TypeOK, NEW k \in Asks, Due(k)
  PROVE  /\ Only(k)
         /\ ask'[k].st = ask[k].st
         /\ ask'[k].fut = ask[k].fut /\ ask'[k].deferred = ask[k].deferred
         /\ ask'[k].expired = ask[k].expired /\ ask'[k].result = ask[k].result
<1> DEFINE t == [ask[k] EXCEPT !.due = TRUE]
<1>1. ask \in [Asks -> Tickets] /\ ask[k] \in Tickets
  BY DEF TypeOK
<1>2. ask' = [ask EXCEPT ![k] = t]
  BY Zenon DEF Due
<1>3. t \in Tickets
  BY <1>1 DEF Tickets
<1>4. /\ t.st = ask[k].st /\ t.fut = ask[k].fut /\ t.deferred = ask[k].deferred
      /\ t.expired = ask[k].expired /\ t.result = ask[k].result
  BY <1>1, Zenon DEF Tickets
<1>5. Only(k) /\ ask'[k] = t
  BY <1>1, <1>2, <1>3, Changed
<1>. QED
  BY <1>4, <1>5, Zenon

\* The callback at the head of the runtime's queue.
LEMMA RanHead ==
  ASSUME TypeOK, ready # << >>
  PROVE  /\ Head(ready) \in Callbacks /\ Head(ready).ask \in Asks
         /\ Head(ready).do = "answer" => Head(ready).choice \in Options
BY TailDoes DEF TypeOK, Callbacks

LEMMA AnswerDoes ==
  ASSUME TypeOK, Answer, NEW k, k = Head(ready).ask
  PROVE  \/ /\ k \in Range(tickets) /\ ask[k].fut = "open" /\ Only(k) /\ ready' = Woken(k)
            /\ ask'[k].st = ask[k].st /\ ask'[k].fut = Head(ready).choice
            /\ ask'[k].deferred = ask[k].deferred
            /\ ask'[k].expired = ask[k].expired /\ ask'[k].result = ask[k].result
         \/ /\ ~(k \in Range(tickets) /\ ask[k].fut = "open")
            /\ ask' = ask /\ ready' = Tail(ready)
<1>. PICK c : c = Head(ready).choice
  OBVIOUS
<1> DEFINE t == [ask[k] EXCEPT !.fut = c]
<1>1. k \in Asks /\ c \in Options
  BY RanHead DEF Answer, Ran
<1>2. ask \in [Asks -> Tickets] /\ ask[k] \in Tickets
  BY <1>1 DEF TypeOK
<1>3. t \in Tickets
  BY <1>1, <1>2 DEF Tickets, Futures
<1>4. /\ t.st = ask[k].st /\ t.fut = c /\ t.deferred = ask[k].deferred
      /\ t.expired = ask[k].expired /\ t.result = ask[k].result
  BY <1>2, Zenon DEF Tickets
<1>5. CASE k \in Range(tickets) /\ ask[k].fut = "open"
  <2>1. ask' = [ask EXCEPT ![k] = t] /\ ready' = Woken(k)
    BY <1>5, Zenon DEF Answer
  <2>2. Only(k) /\ ask'[k] = t
    BY <1>1, <1>2, <1>3, <2>1, Changed
  <2>. QED
    BY <1>4, <1>5, <2>1, <2>2, Zenon
<1>6. CASE ~(k \in Range(tickets) /\ ask[k].fut = "open")
  BY <1>6, Zenon DEF Answer
<1>. QED
  BY <1>5, <1>6

LEMMA DeferDoes ==
  ASSUME TypeOK, Defer, NEW k, k = Head(ready).ask
  PROVE  \/ /\ k \in Range(tickets) /\ ~ask[k].deferred /\ Only(k)
            /\ ready' = IF ask[k].fut = "open" THEN Woken(k) ELSE Tail(ready)
            /\ ask'[k].st = ask[k].st /\ ask'[k].deferred = TRUE
            /\ ask'[k].fut = IF ask[k].fut = "open" THEN "deny" ELSE ask[k].fut
            /\ ask'[k].expired = ask[k].expired /\ ask'[k].result = ask[k].result
            /\ denials' = [denials EXCEPT ![k] = @ + 1] /\ Notified
         \/ /\ ~(k \in Range(tickets) /\ ~ask[k].deferred)
            /\ ready' = Tail(ready) /\ UNCHANGED <<ask, denials, presented, messages>>
<1>. PICK f : f = IF ask[k].fut = "open" THEN "deny" ELSE ask[k].fut
  OBVIOUS
<1> DEFINE t == [ask[k] EXCEPT !.deferred = TRUE, !.fut = f]
<1>1. k \in Asks
  BY RanHead DEF Defer, Ran
<1>2. ask \in [Asks -> Tickets] /\ ask[k] \in Tickets
  BY <1>1 DEF TypeOK
<1>3. f \in Futures
  BY <1>2 DEF Tickets, Futures, Options
<1>4. t \in Tickets
  BY <1>2, <1>3, Zenon DEF Tickets
<1>5. /\ t.st = ask[k].st /\ t.fut = f /\ t.deferred = TRUE
      /\ t.expired = ask[k].expired /\ t.result = ask[k].result
  BY <1>2, Zenon DEF Tickets
<1>6. CASE k \in Range(tickets) /\ ~ask[k].deferred
  <2>1. /\ ask' = [ask EXCEPT ![k].deferred = TRUE, ![k].fut = IF @ = "open" THEN "deny" ELSE @]
        /\ ready' = IF ask[k].fut = "open" THEN Woken(k) ELSE Tail(ready)
        /\ denials' = [denials EXCEPT ![k] = @ + 1] /\ Notified
    BY <1>6, Zenon DEF Defer
  <2>2. ask' = [ask EXCEPT ![k] = t]
    BY <1>1, <1>2, <2>1
  <2>3. Only(k) /\ ask'[k] = t
    BY <1>1, <1>2, <1>4, <2>2, Changed
  <2>. QED
    BY <1>5, <1>6, <2>1, <2>3, Zenon
<1>7. CASE ~(k \in Range(tickets) /\ ~ask[k].deferred)
  BY <1>7, Zenon DEF Defer, records
<1>. QED
  BY <1>6, <1>7

LEMMA TimerDoes ==
  ASSUME TypeOK, Timer, NEW k, k = Head(ready).ask
  PROVE  \/ /\ Waiting(k) /\ Only(k)
            /\ ready' = IF ask[k].fut = "open" THEN Woken(k) ELSE Tail(ready)
            /\ ask'[k].st = ask[k].st /\ ask'[k].deferred = ask[k].deferred
            /\ ask'[k].fut = IF ask[k].fut = "open" THEN "cancelled" ELSE ask[k].fut
            /\ ask'[k].expired = TRUE /\ ask'[k].result = ask[k].result
         \/ ~Waiting(k) /\ ask' = ask /\ ready' = Tail(ready)
<1>. PICK f : f = IF ask[k].fut = "open" THEN "cancelled" ELSE ask[k].fut
  OBVIOUS
<1> DEFINE t == [ask[k] EXCEPT !.expired = TRUE, !.fut = f]
<1>1. k \in Asks
  BY RanHead DEF Timer, Ran
<1>2. ask \in [Asks -> Tickets] /\ ask[k] \in Tickets
  BY <1>1 DEF TypeOK
<1>3. f \in Futures
  BY <1>2 DEF Tickets, Futures, Options
<1>4. t \in Tickets
  BY <1>2, <1>3, Zenon DEF Tickets
<1>5. /\ t.st = ask[k].st /\ t.fut = f /\ t.deferred = ask[k].deferred
      /\ t.expired = TRUE /\ t.result = ask[k].result
  BY <1>2, Zenon DEF Tickets
<1>6. CASE Waiting(k)
  <2>1. /\ ask' = [ask EXCEPT ![k].expired = TRUE, ![k].fut = IF @ = "open" THEN "cancelled" ELSE @]
        /\ ready' = IF ask[k].fut = "open" THEN Woken(k) ELSE Tail(ready)
    BY <1>6, Zenon DEF Timer
  <2>2. ask' = [ask EXCEPT ![k] = t]
    BY <1>1, <1>2, <2>1
  <2>3. Only(k) /\ ask'[k] = t
    BY <1>1, <1>2, <1>4, <2>2, Changed
  <2>. QED
    BY <1>5, <1>6, <2>1, <2>3, Zenon
<1>7. CASE ~Waiting(k)
  BY <1>7, Zenon DEF Timer
<1>. QED
  BY <1>6, <1>7

WakeOf(k) == [do |-> "wake", ask |-> k]

\* A wake is posted when the call's future is settled, which takes a ticket in the
\* queue; a future that was cancelled is one whose time has run out.
Settled ==
  /\ \A k \in Asks : WakeOf(k) \in Range(ready) => ask[k].fut # "open"
  /\ \A k \in Asks : ask[k].fut = "cancelled" => ask[k].expired
  /\ \A k \in Asks : ask[k].st = "new" => ask[k].fut = "open"

LEMMA WakeDoes ==
  ASSUME TypeOK, Settled, Wake, NEW k, k = Head(ready).ask
  PROVE  /\ Only(k) /\ ready' = Tail(ready) /\ ask[k].fut # "open"
         /\ ask'[k].st = "done" /\ ask'[k].deferred = ask[k].deferred /\ ask'[k].fut = ask[k].fut
         /\ ask'[k].expired = ask[k].expired
         /\ ask'[k].result = IF ask[k].expired THEN "deny" ELSE ask[k].fut
         /\ denials' = IF ask[k].expired THEN [denials EXCEPT ![k] = @ + 1] ELSE denials
         /\ tickets' = RemoveFirst(tickets, k) /\ Notified
<1>1. ready # << >> /\ k \in Asks /\ Head(ready).do = "wake"
  BY RanHead DEF Wake, Ran
<1>2. WakeOf(k) \in Range(ready)
  <2>1. Head(ready) \in Range(ready)
    BY <1>1, QueueGoes DEF TypeOK
  <2>2. Head(ready) = WakeOf(k)
    BY <1>1, RanHead DEF Callbacks, WakeOf
  <2>. QED
    BY <2>1, <2>2, Zenon
<1>3. ask[k].fut # "open"
  BY <1>1, <1>2 DEF Settled
<1>4. Outcome(k) \in Options
  BY <1>1, <1>3 DEF TypeOK, Tickets, Futures, Settled, Outcome, Options
<1>5. ask' = [ask EXCEPT ![k].st = "done", ![k].result = Outcome(k)]
  BY DEF Wake
<1>6. /\ Only(k)
      /\ ask'[k].st = "done" /\ ask'[k].deferred = ask[k].deferred /\ ask'[k].fut = ask[k].fut
      /\ ask'[k].expired = ask[k].expired /\ ask'[k].result = Outcome(k)
  <2>. PICK v : v = Outcome(k)
    OBVIOUS
  <2> DEFINE t == [ask[k] EXCEPT !.st = "done", !.result = v]
  <2>1. ask \in [Asks -> Tickets] /\ ask[k] \in Tickets /\ v \in {"none"} \cup Options
    BY <1>1, <1>4 DEF TypeOK
  <2>2. ask' = [ask EXCEPT ![k] = t]
    BY <1>5, Zenon
  <2>3. t \in Tickets
    BY <2>1 DEF Tickets
  <2>4. /\ t.st = "done" /\ t.fut = ask[k].fut /\ t.deferred = ask[k].deferred
        /\ t.expired = ask[k].expired /\ t.result = v
    BY <2>1, Zenon DEF Tickets
  <2>5. Only(k) /\ ask'[k] = t
    BY <1>1, <2>1, <2>2, <2>3, Changed
  <2>. QED
    BY <2>4, <2>5, Zenon
<1>. QED
  BY <1>3, <1>6 DEF Wake, Outcome

-----------------------------------------------------------------------------
(* Type correctness *)

\* The queue of tickets holds the calls that wait, once each.
LEMMA TicketsStand ==
  ASSUME TypeOK, NEW k \in Asks, Only(k), ask'[k].st = ask[k].st, UNCHANGED tickets
  PROVE  /\ tickets' \in Seq(Asks) /\ IsInjective(tickets')
         /\ Range(tickets') = {j \in Asks : Waiting(j)'}
<1>1. \A j \in Asks : Waiting(j)' = Waiting(j)
  BY DEF Only, Waiting
<1>. QED
  BY <1>1, Zenon DEF TypeOK

LEMMA TicketJoins ==
  ASSUME TypeOK, NEW k \in Asks, Request(k)
  PROVE  /\ tickets' \in Seq(Asks) /\ IsInjective(tickets')
         /\ Range(tickets') = {j \in Asks : Waiting(j)'}
<1>1. /\ tickets \in Seq(Asks) /\ IsInjective(tickets) /\ Range(tickets) = {j \in Asks : Waiting(j)}
      /\ tickets' = Append(tickets, k)
  BY DEF TypeOK, Request
<1>2. Only(k) /\ ask'[k].st = "waiting" /\ ask[k].st = "new"
  BY RequestDoes
<1>3. k \notin Range(tickets)
  BY <1>1, <1>2 DEF Waiting
<1>4. tickets' \in Seq(Asks) /\ Range(tickets') = Range(tickets) \cup {k}
  BY <1>1, QueueGoes
<1>5. \A j \in Asks : Waiting(j)' <=> (Waiting(j) \/ j = k)
  BY <1>2 DEF Only, Waiting
<1>6. IsInjective(tickets')
  <2>1. /\ DOMAIN tickets' = DOMAIN tickets \cup {Len(tickets) + 1}
        /\ tickets'[Len(tickets) + 1] = k
        /\ \A i \in DOMAIN tickets : tickets'[i] = tickets[i]
    BY <1>1, AppendDoes
  <2>2. \A i \in DOMAIN tickets : tickets[i] # k
    BY <1>3, Zenon DEF Range
  <2>3. \A i, j \in DOMAIN tickets : tickets[i] = tickets[j] => i = j
    BY <1>1, Zenon DEF IsInjective
  <2>4. \A i, j \in DOMAIN tickets' : tickets'[i] = tickets'[j] => i = j
    BY <2>1, <2>2, <2>3, Zenon
  <2>. QED
    BY <2>4, Zenon DEF IsInjective
<1>7. Range(tickets') = {j \in Asks : Waiting(j)'}
  BY <1>1, <1>4, <1>5
<1>. QED
  BY <1>4, <1>6, <1>7

LEMMA TicketLeaves ==
  ASSUME TypeOK, NEW k \in Asks, Only(k), ask'[k].st = "done",
         tickets' = RemoveFirst(tickets, k)
  PROVE  /\ tickets' \in Seq(Asks) /\ IsInjective(tickets')
         /\ Range(tickets') = {j \in Asks : Waiting(j)'}
<1>1. /\ tickets \in Seq(Asks) /\ IsInjective(tickets) /\ Range(tickets) = {j \in Asks : Waiting(j)}
  BY DEF TypeOK
<1> DEFINE Left == tickets' \in Seq(Asks) /\ IsInjective(tickets') /\ Range(tickets') = Range(tickets) \ {k}
<1>2. ASSUME k \in Range(tickets) PROVE Left
  BY <1>1, <1>2, RemoveDoes
<1>3. ASSUME k \notin Range(tickets) PROVE Left
  <2>1. ~\E i \in 1 .. Len(tickets) : tickets[i] = k
    BY <1>1, <1>3, LenProperties DEF Range
  <2>2. tickets' = tickets
    BY <2>1, Zenon DEF RemoveFirst
  <2>. QED
    BY <1>1, <1>3, <2>2
<1>5. Left
  BY <1>2, <1>3, Zenon
<1>4. \A j \in Asks : Waiting(j)' <=> (Waiting(j) /\ j # k)
  BY DEF Only, Waiting
<1>. QED
  BY <1>1, <1>4, <1>5

\* The adapter is told of the head of the queue.
LEMMA NotifiedTypes ==
  ASSUME TypeOK, tickets' \in Seq(Asks), Notified
  PROVE  presented' \in Asks \cup {NoAsk} /\ messages' \in Seq(Messages)
<1>. PICK h : h = HeadOf(tickets', ask')
  OBVIOUS
<1>1. h \in Asks \cup {NoAsk}
  BY HeadTypes
<1>2. presented' = h
  BY DEF Notified
<1>3. CASE h # NoAsk /\ h # presented
  <2>1. messages' = Append(messages, [do |-> "present", ask |-> h])
    BY <1>3 DEF Notified
  <2>2. [do |-> "present", ask |-> h] \in Messages
    BY <1>1, <1>3 DEF Messages
  <2>. QED
    BY <1>1, <1>2, <2>1, <2>2, QueueGoes DEF TypeOK
<1>4. CASE ~(h # NoAsk /\ h # presented)
  <2>1. messages' = messages
    BY <1>4 DEF Notified
  <2>. QED
    BY <1>1, <1>2, <2>1 DEF TypeOK
<1>. QED
  BY <1>3, <1>4

\* Nothing the interface and the user do touches the calls and who is woken.
LEMMA CallsStand ==
  ASSUME TypeOK, Settled, UNCHANGED <<ask, tickets, presented>>,
         ready' = ready \/ \E c \in Callbacks : c.do # "wake" /\ ready' = Append(ready, c),
         messages' \in Seq(Messages), bar' \in Asks \cup {NoAsk}
  PROVE  TypeOK' /\ Settled'
<1>1. ready' \in Seq(Callbacks) /\ \A k \in Asks : WakeOf(k) \in Range(ready') <=> WakeOf(k) \in Range(ready)
  <2>1. CASE ready' = ready
    BY <2>1 DEF TypeOK
  <2>2. ASSUME NEW c \in Callbacks, c.do # "wake", ready' = Append(ready, c)
        PROVE  ready' \in Seq(Callbacks) /\ \A k \in Asks : WakeOf(k) \in Range(ready') <=> WakeOf(k) \in Range(ready)
    <3>1. ready' \in Seq(Callbacks) /\ Range(ready') = Range(ready) \cup {c}
      BY <2>2, QueueGoes DEF TypeOK
    <3>2. \A k \in Asks : WakeOf(k) # c
      BY <2>2 DEF WakeOf
    <3>. QED
      BY <3>1, <3>2
  <2>. QED
    BY <2>1, <2>2
<1>2. Settled'
  BY <1>1 DEF Settled
<1>3. TypeOK'
  <2>1. \A k \in Asks : Waiting(k)' <=> Waiting(k)
    BY DEF Waiting
  <2>. QED
    BY <1>1, <2>1 DEF TypeOK, WakeOf
<1>. QED
  BY <1>2, <1>3

\* A callback that does not wake runs, and the call k may be settled by it.
LEMMA CallSettled ==
  ASSUME TypeOK, Settled, NEW k \in Asks, Waiting(k), Only(k), ready # << >>, Head(ready).do # "wake",
         ask'[k].st = ask[k].st, UNCHANGED tickets,
         ask[k].fut = "open" => ask'[k].fut # "open" /\ ready' = Woken(k),
         ask[k].fut # "open" => ask'[k].fut = ask[k].fut /\ ready' = Tail(ready),
         ask[k].expired \/ ask'[k].fut = "cancelled" => ask'[k].expired,
         presented' \in Asks \cup {NoAsk}, messages' \in Seq(Messages), UNCHANGED bar
  PROVE  TypeOK' /\ Settled'
<1>1. /\ ready' \in Seq(Callbacks)
      /\ \A j \in Asks : WakeOf(j) \in Range(ready') <=>
           (WakeOf(j) \in Range(ready) \/ (j = k /\ ask[k].fut = "open"))
  <2>1. /\ ready \in Seq(Callbacks) /\ Tail(ready) \in Seq(Callbacks)
        /\ Range(ready) = Range(Tail(ready)) \cup {Head(ready)}
        /\ \A j \in Asks : WakeOf(j) # Head(ready) /\ WakeOf(j) \in Callbacks
    BY QueueGoes DEF TypeOK, WakeOf, Callbacks
  <2>2. CASE ask[k].fut = "open"
    <3>1. ready' = Append(Tail(ready), WakeOf(k))
      BY <2>2 DEF Woken, WakeOf
    <3>2. ready' \in Seq(Callbacks) /\ Range(ready') = Range(Tail(ready)) \cup {WakeOf(k)}
      <4>1. /\ Append(Tail(ready), WakeOf(k)) \in Seq(Callbacks)
            /\ Range(Append(Tail(ready), WakeOf(k))) = Range(Tail(ready)) \cup {WakeOf(k)}
        BY <2>1, QueueTurns
      <4>. QED
        BY <3>1, <4>1, Zenon
    <3>3. \A j \in Asks : WakeOf(j) = WakeOf(k) => j = k
      BY DEF WakeOf
    <3>. QED
      BY <2>1, <2>2, <3>2, <3>3
  <2>3. CASE ask[k].fut # "open"
    BY <2>1, <2>3
  <2>. QED
    BY <2>2, <2>3
<1>2. \A j \in Asks : Waiting(j)' <=> Waiting(j)
  BY DEF Only, Waiting
<1>3. /\ tickets' \in Seq(Asks) /\ IsInjective(tickets')
      /\ Range(tickets') = {j \in Asks : Waiting(j)'}
  BY TicketsStand
<1>4. ASSUME NEW j \in Asks, Waiting(j)', ask'[j].fut # "open" PROVE WakeOf(j) \in Range(ready')
  <2>1. CASE j = k /\ ask[k].fut = "open"
    BY <1>1, <2>1
  <2>2. CASE ~(j = k /\ ask[k].fut = "open")
    <3>1. ask[j].fut # "open" /\ Waiting(j)
      BY <1>2, <1>4, <2>2 DEF Only
    <3>2. WakeOf(j) \in Range(ready)
      BY <3>1 DEF TypeOK, WakeOf
    <3>. QED
      BY <1>1, <3>2
  <2>. QED
    BY <2>1, <2>2
<1>5. TypeOK'
  BY <1>1, <1>3, <1>4 DEF TypeOK, Only, WakeOf
<1>6. ASSUME NEW j \in Asks, WakeOf(j) \in Range(ready') PROVE ask'[j].fut # "open"
  BY <1>1, <1>6 DEF Settled, Only
<1>7. ASSUME NEW j \in Asks, ask'[j].fut = "cancelled" PROVE ask'[j].expired
  BY <1>7 DEF Settled, Only
<1>8. ASSUME NEW j \in Asks, ask'[j].st = "new" PROVE ask'[j].fut = "open"
  BY <1>8 DEF Settled, Only, Waiting
<1>. QED
  BY <1>5, <1>6, <1>7, <1>8 DEF Settled

\* A callback finds nothing to do.
LEMMA NothingDone ==
  ASSUME TypeOK, Settled, ready # << >>, Head(ready).do # "wake", ready' = Tail(ready),
         UNCHANGED <<ask, tickets, presented, messages, bar>>
  PROVE  TypeOK' /\ Settled'
<1>1. /\ Tail(ready) \in Seq(Callbacks)
      /\ Range(ready) = Range(Tail(ready)) \cup {Head(ready)}
      /\ \A j \in Asks : WakeOf(j) # Head(ready)
  BY QueueGoes DEF TypeOK, WakeOf
<1>2. \A j \in Asks : WakeOf(j) \in Range(ready') <=> WakeOf(j) \in Range(ready)
  BY <1>1
<1>3. \A j \in Asks : Waiting(j)' <=> Waiting(j)
  BY DEF Waiting
<1>4. Settled'
  BY <1>2 DEF Settled
<1>5. TypeOK'
  BY <1>1, <1>2, <1>3 DEF TypeOK, WakeOf
<1>. QED
  BY <1>4, <1>5

LEMMA TypeWake ==
  ASSUME TypeOK, Settled, Wake
  PROVE  TypeOK' /\ Settled'
<1>. PICK k : k = Head(ready).ask
  OBVIOUS
<1>1. ready # << >> /\ k \in Asks /\ Head(ready) = WakeOf(k)
  BY RanHead DEF Wake, Ran, Callbacks, WakeOf
<1>2. /\ Only(k) /\ ready' = Tail(ready) /\ ask'[k].st = "done" /\ ask'[k].fut = ask[k].fut
      /\ ask'[k].expired = ask[k].expired
      /\ tickets' = RemoveFirst(tickets, k) /\ Notified
  BY WakeDoes
<1>3. /\ tickets' \in Seq(Asks) /\ IsInjective(tickets')
      /\ Range(tickets') = {j \in Asks : Waiting(j)'}
  BY <1>1, <1>2, TicketLeaves
<1>4. presented' \in Asks \cup {NoAsk} /\ messages' \in Seq(Messages) /\ bar' = bar
  BY <1>2, <1>3, NotifiedTypes DEF Wake
<1>5. ready' \in Seq(Callbacks) /\ Range(ready) = Range(ready') \cup {WakeOf(k)}
  BY <1>1, <1>2, QueueGoes DEF TypeOK
<1>6. ASSUME NEW j \in Asks, Waiting(j)', ask'[j].fut # "open" PROVE WakeOf(j) \in Range(ready')
  <2>1. j # k
    BY <1>2, <1>6 DEF Waiting
  <2>2. Waiting(j) /\ ask[j].fut # "open"
    BY <1>2, <1>6, <2>1 DEF Only, Waiting
  <2>3. WakeOf(j) \in Range(ready) /\ WakeOf(j) # WakeOf(k)
    BY <2>1, <2>2 DEF TypeOK, WakeOf
  <2>. QED
    BY <1>5, <2>3
<1>7. TypeOK'
  BY <1>2, <1>3, <1>4, <1>5, <1>6 DEF TypeOK, Only, WakeOf
<1>8. \A j \in Asks : ask'[j].fut = ask[j].fut /\ ask'[j].expired = ask[j].expired
  BY <1>2 DEF Only
<1>9. \A j \in Asks : ask'[j].st = "new" => ask[j].st = "new"
  BY <1>2 DEF Only
<1>10. Settled'
  BY <1>5, <1>8, <1>9 DEF Settled
<1>. QED
  BY <1>7, <1>10

LEMMA TypeLoop ==
  ASSUME TypeOK, Settled, Answer \/ Defer \/ Timer
  PROVE  TypeOK' /\ Settled'
<1>. PICK k : k = Head(ready).ask
  OBVIOUS
<1>1. ready # << >> /\ Head(ready).do # "wake" /\ k \in Asks
  BY RanHead DEF Answer, Defer, Timer, Ran
<1>2. /\ presented \in Asks \cup {NoAsk} /\ messages \in Seq(Messages) /\ bar \in Asks \cup {NoAsk}
      /\ tickets \in Seq(Asks) /\ (k \in Range(tickets) => Waiting(k))
  BY <1>1 DEF TypeOK
<1>3. CASE Answer
  <2>1. /\ UNCHANGED <<tickets, presented, messages, bar>>
        /\ Head(ready).choice \in Options
    BY <1>1, <1>3, RanHead DEF Answer, Ran, screen
  <2>2. CASE k \in Range(tickets) /\ ask[k].fut = "open"
    <3>1. /\ Only(k) /\ ready' = Woken(k) /\ ask'[k].st = ask[k].st
          /\ ask'[k].fut \in Options /\ ask'[k].expired = ask[k].expired
      BY <1>3, <2>1, <2>2, AnswerDoes
    <3>2. ask'[k].fut # "open" /\ ask'[k].fut # "cancelled"
      BY <3>1 DEF Options
    <3>. QED
      BY <1>1, <1>2, <2>1, <2>2, <3>1, <3>2, CallSettled
  <2>3. CASE ~(k \in Range(tickets) /\ ask[k].fut = "open")
    <3>1. ask' = ask /\ ready' = Tail(ready)
      BY <1>3, <2>3, AnswerDoes
    <3>. QED
      BY <1>1, <2>1, <3>1, NothingDone
  <2>. QED
    BY <2>2, <2>3
<1>4. CASE Defer
  <2>1. UNCHANGED bar
    BY <1>4 DEF Defer
  <2>2. CASE k \in Range(tickets) /\ ~ask[k].deferred
    <3>1. /\ Only(k) /\ ready' = (IF ask[k].fut = "open" THEN Woken(k) ELSE Tail(ready))
          /\ ask'[k].st = ask[k].st /\ ask'[k].expired = ask[k].expired
          /\ ask'[k].fut = (IF ask[k].fut = "open" THEN "deny" ELSE ask[k].fut) /\ Notified
      BY <1>4, <2>2, DeferDoes
    <3>2. UNCHANGED tickets
      BY <1>4, <2>2 DEF Defer
    <3>3. presented' \in Asks \cup {NoAsk} /\ messages' \in Seq(Messages)
      BY <1>2, <3>1, <3>2, NotifiedTypes
    <3>4. ask'[k].fut = "cancelled" => ask'[k].expired
      BY <1>1, <3>1 DEF Settled
    <3>. QED
      BY <1>1, <1>2, <2>1, <2>2, <3>1, <3>2, <3>3, <3>4, CallSettled
  <2>3. CASE ~(k \in Range(tickets) /\ ~ask[k].deferred)
    <3>1. ready' = Tail(ready) /\ UNCHANGED <<ask, tickets, presented, messages>>
      BY <1>4, <2>3 DEF Defer
    <3>. QED
      BY <1>1, <2>1, <3>1, NothingDone
  <2>. QED
    BY <2>2, <2>3
<1>5. CASE Timer
  <2>1. UNCHANGED <<tickets, presented, messages, bar>>
    BY <1>5 DEF Timer, screen
  <2>2. CASE Waiting(k)
    <3>1. /\ Only(k) /\ ready' = (IF ask[k].fut = "open" THEN Woken(k) ELSE Tail(ready))
          /\ ask'[k].st = ask[k].st /\ ask'[k].expired = TRUE
          /\ ask'[k].fut = (IF ask[k].fut = "open" THEN "cancelled" ELSE ask[k].fut)
      BY <1>5, <2>2, TimerDoes
    <3>. QED
      BY <1>1, <1>2, <2>1, <2>2, <3>1, CallSettled
  <2>3. CASE ~Waiting(k)
    <3>1. ready' = Tail(ready) /\ ask' = ask
      BY <1>5, <2>3, TimerDoes
    <3>. QED
      BY <1>1, <2>1, <3>1, NothingDone
  <2>. QED
    BY <2>2, <2>3
<1>. QED
  BY <1>3, <1>4, <1>5

LEMMA TypeAsks ==
  ASSUME TypeOK, Settled, NEW k \in Asks, Request(k) \/ Due(k)
  PROVE  TypeOK' /\ Settled'
<1>1. Only(k) /\ ask'[k].fut = ask[k].fut /\ ask'[k].expired = ask[k].expired
  BY RequestDoes, DueDoes
<1>2. \A j \in Asks : ask'[j].fut = ask[j].fut /\ ask'[j].expired = ask[j].expired
  BY <1>1 DEF Only
<1>3. CASE Request(k)
  <2>1. ask'[k].st = "waiting" /\ ask[k].st = "new"
    BY <1>3, RequestDoes
  <2>2. /\ tickets' \in Seq(Asks) /\ IsInjective(tickets')
        /\ Range(tickets') = {j \in Asks : Waiting(j)'}
    BY <1>3, TicketJoins
  <2>3. UNCHANGED <<ready, bar>> /\ Notified
    BY <1>3 DEF Request
  <2>4. presented' \in Asks \cup {NoAsk} /\ messages' \in Seq(Messages)
    BY <2>2, <2>3, NotifiedTypes
  <2>5. ASSUME NEW j \in Asks, Waiting(j)', ask'[j].fut # "open" PROVE WakeOf(j) \in Range(ready')
    <3>1. j # k /\ ask[j].fut # "open"
      BY <1>2, <2>1, <2>5 DEF Settled
    <3>2. Waiting(j)
      BY <1>1, <2>5, <3>1 DEF Only, Waiting
    <3>. QED
      BY <2>3, <3>1, <3>2 DEF TypeOK, WakeOf
  <2>6. TypeOK'
    BY <1>1, <2>2, <2>3, <2>4, <2>5 DEF TypeOK, Only, WakeOf
  <2>7. \A j \in Asks : ask'[j].st = "new" => ask[j].st = "new"
    BY <1>1, <2>1 DEF Only
  <2>8. Settled'
    BY <1>2, <2>3, <2>7 DEF Settled
  <2>. QED
    BY <2>6, <2>8
<1>4. CASE Due(k)
  <2> DEFINE timer == [do |-> "timer", ask |-> k]
  <2>1. /\ ready' = Append(ready, timer) /\ UNCHANGED <<tickets, presented, messages, bar>>
        /\ ask'[k].st = ask[k].st
    BY <1>4, DueDoes DEF Due, screen
  <2>2. ready \in Seq(Callbacks) /\ timer \in Callbacks /\ \A j \in Asks : WakeOf(j) # timer
    BY DEF TypeOK, Callbacks, WakeOf
  <2>3. ready' \in Seq(Callbacks) /\ Range(ready') = Range(ready) \cup {timer}
    BY <2>1, <2>2, QueueGains
  <2>4. \A j \in Asks : WakeOf(j) \in Range(ready') <=> WakeOf(j) \in Range(ready)
    BY <2>2, <2>3
  <2>5. \A j \in Asks : ask'[j].st = ask[j].st
    BY <1>1, <2>1 DEF Only
  <2>6. /\ tickets' \in Seq(Asks) /\ IsInjective(tickets')
        /\ Range(tickets') = {j \in Asks : Waiting(j)'}
    BY <1>1, <2>1, TicketsStand
  <2>7. \A j \in Asks : Waiting(j)' /\ ask'[j].fut # "open" => WakeOf(j) \in Range(ready')
    BY <1>2, <2>4, <2>5 DEF TypeOK, WakeOf, Waiting
  <2>8. TypeOK'
    BY <1>1, <2>1, <2>3, <2>6, <2>7 DEF TypeOK, Only, WakeOf
  <2>9. Settled'
    BY <1>2, <2>4, <2>5 DEF Settled
  <2>. QED
    BY <2>8, <2>9
<1>. QED
  BY <1>3, <1>4

\* The message at the head of the interface's queue.
LEMMA GotHead ==
  ASSUME TypeOK, messages # << >>
  PROVE  /\ Head(messages) \in Messages /\ Head(messages).ask \in Asks
         /\ Head(messages).do = "resolved" => Head(messages).choice \in Options
         /\ Tail(messages) \in Seq(Messages)
BY QueueGoes DEF TypeOK, Messages

LEMMA TypeInterface ==
  ASSUME TypeOK, Settled, Interface \/ User
  PROVE  TypeOK' /\ Settled'
<1>1. /\ messages \in Seq(Messages) /\ bar \in Asks \cup {NoAsk}
      /\ UNCHANGED <<ask, tickets, presented>>
  BY DEF TypeOK, Interface, User, Present, Mount, Resolved, Deferred, Press, PressDefer, SwitchMode, loop
<1> DEFINE Posted == ready' = ready \/ \E c \in Callbacks : c.do # "wake" /\ ready' = Append(ready, c)
           Told == messages' \in Seq(Messages) /\ bar' \in Asks \cup {NoAsk}
<1>2. ASSUME Interface PROVE Posted /\ Told
  <2>. PICK k : k = Head(messages).ask
    OBVIOUS
  <2>1. /\ messages # << >> /\ k \in Asks /\ Tail(messages) \in Seq(Messages)
        /\ Head(messages).do = "resolved" => Head(messages).choice \in Options
    BY <1>2, GotHead DEF Interface, Present, Mount, Resolved, Deferred, Got
  <2>2. CASE Present
    <3>1. CASE auto
      <4>1. ready' = Append(ready, [do |-> "defer", ask |-> k]) /\ messages' = Tail(messages) /\ bar' = bar
        BY <2>2, <3>1 DEF Present, Post
      <4>2. [do |-> "defer", ask |-> k] \in Callbacks
        BY <2>1 DEF Callbacks
      <4>. QED
        BY <1>1, <2>1, <4>1, <4>2
    <3>2. CASE ~auto
      <4>1. ready' = ready /\ messages' = Append(Tail(messages), [do |-> "mount", ask |-> k]) /\ bar' = bar
        BY <2>2, <3>2 DEF Present
      <4>2. [do |-> "mount", ask |-> k] \in Messages
        BY <2>1 DEF Messages
      <4>3. Append(Tail(messages), [do |-> "mount", ask |-> k]) \in Seq(Messages)
        BY <2>1, <4>2, QueueGains
      <4>. QED
        BY <1>1, <4>1, <4>3
    <3>. QED
      BY <3>1, <3>2
  <2>3. CASE Mount
    BY <2>1, <2>3 DEF Mount, loop
  <2>4. CASE Resolved
    <3>. PICK c : c = Head(messages).choice
      OBVIOUS
    <3>1. /\ ready' = Append(ready, [do |-> "answer", ask |-> k, choice |-> c])
          /\ messages' = Tail(messages) /\ bar' = NoAsk /\ c \in Options
      BY <2>1, <2>4 DEF Resolved, TakeDown, Post, Got
    <3>2. [do |-> "answer", ask |-> k, choice |-> c] \in Callbacks
      BY <2>1, <3>1 DEF Callbacks
    <3>. QED
      BY <2>1, <3>1, <3>2
  <2>5. CASE Deferred
    <3>1. messages' = Tail(messages) /\ (bar = NoAsk => bar' = bar /\ ready' = ready)
      BY <2>5 DEF Deferred
    <3>2. bar # NoAsk => bar' = NoAsk /\ ready' = Append(ready, [do |-> "defer", ask |-> k])
      BY <2>5 DEF Deferred, TakeDown, Post
    <3>3. [do |-> "defer", ask |-> k] \in Callbacks
      BY <2>1 DEF Callbacks
    <3>. QED
      BY <2>1, <3>1, <3>2, <3>3
  <2>. QED
    BY <1>2, <2>2, <2>3, <2>4, <2>5 DEF Interface
<1>3. ASSUME User PROVE Posted /\ Told
  <2>1. ready' = ready /\ bar' = bar
    BY <1>3 DEF User, Press, PressDefer, SwitchMode, loop
  <2>2. ASSUME NEW c \in Options, Press(c) PROVE messages' \in Seq(Messages)
    <3>1. messages' = Append(messages, [do |-> "resolved", ask |-> bar, choice |-> c]) /\ bar \in Asks
      BY <1>1, <2>2 DEF Press
    <3>2. [do |-> "resolved", ask |-> bar, choice |-> c] \in Messages
      BY <3>1 DEF Messages
    <3>. QED
      BY <1>1, <3>1, <3>2, QueueGains
  <2>3. ASSUME PressDefer PROVE messages' \in Seq(Messages)
    <3>1. messages' = Append(messages, [do |-> "deferred", ask |-> bar]) /\ bar \in Asks
      BY <1>1, <2>3 DEF PressDefer
    <3>2. [do |-> "deferred", ask |-> bar] \in Messages
      BY <3>1 DEF Messages
    <3>. QED
      BY <1>1, <3>1, <3>2, QueueGains
  <2>4. CASE SwitchMode
    BY <1>1, <2>1, <2>4 DEF SwitchMode
  <2>. QED
    BY <1>1, <1>3, <2>1, <2>2, <2>3, <2>4 DEF User
<1>4. Posted /\ Told
  BY <1>2, <1>3
<1>. QED
  BY <1>1, <1>4, CallsStand

\* Every ticket in the queue is a call that waits and every call that waits has
\* one; whoever has an answer is about to be woken.
THEOREM TypeCorrect == Spec => [](TypeOK /\ Settled)
<1>1. Init => TypeOK /\ Settled
  <2>. SUFFICES ASSUME Init PROVE TypeOK /\ Settled
    OBVIOUS
  <2>1. \A k \in Asks : /\ ask[k].st = "new" /\ ask[k].fut = "open"
                        /\ ask[k] \in Tickets
    BY DEF Init, Tickets, Futures
  <2>2. ask \in [Asks -> Tickets]
    BY <2>1 DEF Init
  <2>3. /\ << >> \in Seq(Asks) /\ << >> \in Seq(Callbacks) /\ << >> \in Seq(Messages)
        /\ Range(<< >>) = {} /\ IsInjective(<< >>)
    BY DEF Range, IsInjective
  <2>4. {k \in Asks : Waiting(k)} = {}
    BY <2>1 DEF Waiting
  <2>. QED
    BY <2>1, <2>2, <2>3, <2>4 DEF Init, TypeOK, Settled, Waiting
<1>2. TypeOK /\ Settled /\ [Next]_vars => (TypeOK /\ Settled)'
  <2>. SUFFICES ASSUME TypeOK, Settled, [Next]_vars PROVE (TypeOK /\ Settled)'
    OBVIOUS
  <2>1. CASE UNCHANGED vars
    BY <2>1 DEF TypeOK, Settled, Waiting, vars, loop, screen
  <2>2. CASE Next
    BY <2>2, TypeLoop, TypeWake, TypeInterface, TypeAsks DEF Next, Loop
  <2>. QED
    BY <2>1, <2>2
<1>. QED
  BY <1>1, <1>2, PTL DEF Spec

-----------------------------------------------------------------------------
(* Who let a call through, who denied it *)

\* A key of that choice was pressed on the bar of that call.
Backed(c) == IF c.choice = "allow" THEN c.ask \in allowed ELSE c.ask \in refused

\* An answer under way, in the interface or in the runtime, is a key's; so is a
\* future's, unless it is a denial that is in the log.
Keyed ==
  /\ denials \in [Asks -> Nat]
  /\ \A m \in Range(messages) : m.do = "resolved" => Backed(m)
  /\ \A c \in Range(ready) : c.do = "answer" => Backed(c)
  /\ \A k \in Asks : /\ ask[k].fut = "allow" => k \in allowed
                     /\ ask[k].fut = "deny" => k \in refused \/ denials[k] > 0
  /\ AllowedOnlyByKey /\ DenialsLogged

\* No callback of the runtime's loop brings an answer.
LEMMA LoopBringsNone ==
  ASSUME TypeOK, Settled, TypeOK', Loop \/ \E k \in Asks : Request(k) \/ Due(k)
  PROVE  /\ \A c \in Range(ready') : c.do = "answer" => c \in Range(ready)
         /\ \A m \in Range(messages') : m.do = "resolved" => m \in Range(messages)
         /\ UNCHANGED <<allowed, refused>>
<1>1. UNCHANGED <<allowed, refused>>
  BY DEF Loop, Answer, Defer, Timer, Wake, Request, Due, history
<1>2. /\ messages \in Seq(Messages) /\ ready \in Seq(Callbacks) /\ tickets' \in Seq(Asks)
      /\ messages' \in Seq(Messages)
  BY DEF TypeOK
<1>3. ASSUME Notified PROVE \A m \in Range(messages') : m.do = "resolved" => m \in Range(messages)
  <2>. PICK h : h = HeadOf(tickets', ask')
    OBVIOUS
  <2> DEFINE note == [do |-> "present", ask |-> h]
  <2>1. CASE h # NoAsk /\ h # presented
    <3>1. messages' = Append(messages, note)
      BY <1>3, <2>1 DEF Notified
    <3>2. h \in Asks
      BY <1>2, <2>1, HeadTypes
    <3>3. note \in Messages /\ note.do # "resolved"
      BY <3>2 DEF Messages
    <3>4. Range(messages') = Range(messages) \cup {note}
      BY <1>2, <3>1, <3>3, QueueGains
    <3>. QED
      BY <3>3, <3>4
  <2>2. CASE ~(h # NoAsk /\ h # presented)
    <3>1. messages' = messages
      BY <1>3, <2>2 DEF Notified
    <3>. QED
      BY <3>1
  <2>. QED
    BY <2>1, <2>2
<1>4. \A m \in Range(messages') : m.do = "resolved" => m \in Range(messages)
  <2>1. messages' = messages \/ Notified
    BY Zenon DEF Loop, Answer, Defer, Timer, Wake, Request, Due, screen
  <2>2. ASSUME messages' = messages
        PROVE  \A m \in Range(messages') : m.do = "resolved" => m \in Range(messages)
    BY <2>2
  <2>. QED
    BY <1>3, <2>1, <2>2
<1>5. ASSUME NEW k \in Asks, ready # << >>, ready' = Tail(ready) \/ ready' = Woken(k)
      PROVE  \A c \in Range(ready') : c.do = "answer" => c \in Range(ready)
  <2>1. Range(Tail(ready)) \subseteq Range(ready)
    BY <1>2, <1>5, QueueGoes
  <2>2. WakeOf(k) \in Callbacks /\ WakeOf(k).do # "answer"
    BY DEF WakeOf, Callbacks
  <2>3. Range(Append(Tail(ready), WakeOf(k))) = Range(Tail(ready)) \cup {WakeOf(k)}
    BY <1>2, <1>5, <2>2, QueueTurns
  <2>4. Range(Woken(k)) = Range(Tail(ready)) \cup {WakeOf(k)}
    BY <2>3, Zenon DEF Woken, WakeOf
  <2>. QED
    BY <1>5, <2>1, <2>2, <2>4
<1>6. CASE Loop
  <2>. PICK k : k = Head(ready).ask
    OBVIOUS
  <2>1. ready # << >> /\ k \in Asks
    BY <1>6, RanHead DEF Loop, Answer, Defer, Timer, Wake, Ran
  <2>2. ready' = Tail(ready) \/ ready' = Woken(k)
    BY <1>6, Zenon DEF Loop, Answer, Defer, Timer, Wake
  <2>. QED
    BY <1>1, <1>4, <1>5, <2>1, <2>2
<1>7. ASSUME NEW k \in Asks, Request(k) \/ Due(k)
      PROVE  \A c \in Range(ready') : c.do = "answer" => c \in Range(ready)
  <2> DEFINE timer == [do |-> "timer", ask |-> k]
  <2>1. timer \in Callbacks /\ timer.do # "answer"
    BY DEF Callbacks
  <2>2. CASE ready' = ready
    BY <2>2
  <2>3. CASE ready' = Append(ready, timer)
    <3>1. Range(ready') = Range(ready) \cup {timer}
      BY <1>2, <2>1, <2>3, QueueGains
    <3>. QED
      BY <2>1, <3>1
  <2>. QED
    BY <1>7, <2>2, <2>3, Zenon DEF Request, Due
<1>. QED
  BY <1>1, <1>4, <1>6, <1>7

\* What a callback does to the futures, the outcomes and the log.
LEMMA LoopKeeps ==
  ASSUME TypeOK, Settled, Keyed, Loop \/ \E k \in Asks : Request(k) \/ Due(k)
  PROVE  /\ denials' \in [Asks -> Nat]
         /\ \A k \in Asks :
              /\ ask'[k].fut = "allow" => k \in allowed
              /\ ask'[k].fut = "deny" => k \in refused \/ denials'[k] > 0
              /\ ask'[k].result = "allow" => k \in allowed
              /\ ask'[k].result = "deny" /\ k \notin refused => denials'[k] > 0
<1>1. /\ denials \in [Asks -> Nat] /\ AllowedOnlyByKey /\ DenialsLogged
      /\ \A c \in Range(ready) : c.do = "answer" => Backed(c)
      /\ \A k \in Asks : /\ ask[k].fut = "allow" => k \in allowed
                         /\ ask[k].fut = "deny" => k \in refused \/ denials[k] > 0
                         /\ ask[k].result = "allow" => k \in allowed
                         /\ ask[k].result = "deny" /\ k \notin refused => denials[k] > 0
  BY DEF Keyed, AllowedOnlyByKey, DenialsLogged
<1>2. ASSUME NEW k \in Asks, denials' = [denials EXCEPT ![k] = @ + 1]
      PROVE  /\ denials' \in [Asks -> Nat] /\ denials'[k] > 0
             /\ \A j \in Asks : denials[j] > 0 => denials'[j] > 0
  BY <1>1, <1>2
<1>3. ASSUME NEW k \in Asks, Request(k) \/ Due(k)
      PROVE  /\ denials' = denials
             /\ \A j \in Asks : ask'[j].fut = ask[j].fut /\ ask'[j].result = ask[j].result
  <2>1. denials' = denials
    BY <1>3 DEF Request, Due, records
  <2>2. Only(k) /\ ask'[k].fut = ask[k].fut /\ ask'[k].result = ask[k].result
    BY <1>3, RequestDoes, DueDoes
  <2>. QED
    BY <2>1, <2>2, Zenon DEF Only
<1>4. CASE \E k \in Asks : Request(k) \/ Due(k)
  BY <1>1, <1>3, <1>4
<1>5. CASE Loop
  <2>. PICK k : k = Head(ready).ask
    OBVIOUS
  <2>1. /\ ready # << >> /\ k \in Asks /\ Head(ready) \in Range(ready)
    BY <1>5, RanHead, QueueGoes DEF TypeOK, Loop, Answer, Defer, Timer, Wake, Ran
  <2>2. CASE Answer
    <3>1. denials' = denials /\ Head(ready).do = "answer" /\ Head(ready).choice \in Options
      BY <2>1, <2>2, RanHead DEF Answer, records, Ran
    <3>2. Backed(Head(ready))
      BY <1>1, <2>1, <3>1
    <3>3. \/ ask' = ask
          \/ /\ Only(k) /\ ask'[k].fut = Head(ready).choice
             /\ ask'[k].result = ask[k].result
      BY <2>2, AnswerDoes, Zenon
    <3>. QED
      BY <1>1, <2>1, <3>1, <3>2, <3>3 DEF Only, Backed, Options
  <2>3. CASE Defer
    <3>1. CASE UNCHANGED <<ask, denials>>
      BY <1>1, <3>1
    <3>2. CASE ~UNCHANGED <<ask, denials>>
      <4>1. Only(k) /\ ask'[k].result = ask[k].result
            /\ ask'[k].fut = (IF ask[k].fut = "open" THEN "deny" ELSE ask[k].fut)
            /\ denials' = [denials EXCEPT ![k] = @ + 1]
        BY <2>3, <3>2, DeferDoes, Zenon
      <4>2. /\ denials' \in [Asks -> Nat] /\ denials'[k] > 0
            /\ \A j \in Asks : denials[j] > 0 => denials'[j] > 0
        BY <1>2, <2>1, <4>1
      <4>3. \A j \in Asks : (ask'[j].fut = "allow" => ask[j].fut = "allow")
                           /\ (ask'[j].fut = "deny" => j = k \/ ask[j].fut = "deny")
                           /\ ask'[j].result = ask[j].result
        BY <4>1 DEF Only
      <4>. QED
        BY <1>1, <4>2, <4>3
    <3>. QED
      BY <3>1, <3>2
  <2>4. CASE Timer
    <3>1. denials' = denials
      BY <2>4 DEF Timer, records
    <3>2. \/ ask' = ask
          \/ /\ Only(k) /\ ask'[k].result = ask[k].result
             /\ ask'[k].fut = (IF ask[k].fut = "open" THEN "cancelled" ELSE ask[k].fut)
      <4>1. \A h : h = Head(ready).ask =>
              \/ ask' = ask
              \/ /\ Only(h) /\ ask'[h].result = ask[h].result
                 /\ ask'[h].fut = (IF ask[h].fut = "open" THEN "cancelled" ELSE ask[h].fut)
        BY <2>4, TimerDoes
      <4>. QED
        BY <4>1, Zenon
    <3>3. \A j \in Asks : (ask'[j].fut = "allow" => ask[j].fut = "allow")
                         /\ (ask'[j].fut = "deny" => ask[j].fut = "deny")
                         /\ ask'[j].result = ask[j].result
      BY <3>2 DEF Only
    <3>. QED
      BY <1>1, <3>1, <3>3
  <2>5. CASE Wake
    <3>1. /\ Only(k) /\ ask[k].fut # "open" /\ ask'[k].fut = ask[k].fut
          /\ ask'[k].result = (IF ask[k].expired THEN "deny" ELSE ask[k].fut)
          /\ denials' = (IF ask[k].expired THEN [denials EXCEPT ![k] = @ + 1] ELSE denials)
      BY <2>5, WakeDoes
    <3>2. \A j \in Asks : j # k => ask'[j].fut = ask[j].fut /\ ask'[j].result = ask[j].result
      BY <3>1 DEF Only
    <3>3. CASE ask[k].expired
      <4>1. ask'[k].result = "deny" /\ denials' = [denials EXCEPT ![k] = @ + 1]
        BY <3>1, <3>3
      <4>2. /\ denials' \in [Asks -> Nat] /\ denials'[k] > 0
            /\ \A j \in Asks : denials[j] > 0 => denials'[j] > 0
        BY <1>2, <2>1, <4>1
      <4>. QED
        BY <1>1, <3>1, <3>2, <4>1, <4>2
    <3>4. CASE ~ask[k].expired
      <4>1. ask'[k].result = ask[k].fut /\ denials' = denials
        BY <3>1, <3>4
      <4>. QED
        BY <1>1, <3>1, <3>2, <4>1
    <3>. QED
      BY <3>3, <3>4
  <2>. QED
    BY <1>5, <2>2, <2>3, <2>4, <2>5 DEF Loop
<1>. QED
  BY <1>4, <1>5

\* The interface and the user: keys are pressed on the bar that is there, and
\* handed on with the call the bar was for.
LEMMA InterfaceKeeps ==
  ASSUME TypeOK, Keyed, Interface \/ User
  PROVE  Keyed'
<1>1. /\ messages \in Seq(Messages) /\ ready \in Seq(Callbacks) /\ bar \in Asks \cup {NoAsk}
      /\ UNCHANGED <<ask, denials>>
  BY DEF TypeOK, Interface, User, Present, Mount, Resolved, Deferred, Press, PressDefer, SwitchMode,
         loop, records
<1> DEFINE Kept == \A m \in Range(messages') : m.do = "resolved" => m \in Range(messages)
           Brought == \A c \in Range(ready') : c.do = "answer" => c \in Range(ready) \/ Backed(c)
<1>2. ASSUME Interface PROVE Kept /\ Brought /\ UNCHANGED <<allowed, refused>>
  <2>. PICK k : k = Head(messages).ask
    OBVIOUS
  <2>1. /\ messages # << >> /\ k \in Asks /\ Range(Tail(messages)) \subseteq Range(messages)
        /\ Head(messages) \in Range(messages)
        /\ Head(messages).do = "resolved" => Head(messages).choice \in Options
    BY <1>1, <1>2, GotHead, QueueGoes DEF Interface, Present, Mount, Resolved, Deferred, Got
  <2>2. UNCHANGED <<allowed, refused>>
    BY <1>2 DEF Interface, Present, Mount, Resolved, Deferred, history
  <2>3. Kept
    <3>. PICK m : m = [do |-> "mount", ask |-> k]
      OBVIOUS
    <3>1. m \in Messages /\ m.do # "resolved"
      BY <2>1 DEF Messages
    <3>2. messages' = Tail(messages) \/ messages' = Append(Tail(messages), m)
      BY <1>2, Zenon DEF Interface, Present, Mount, Resolved, Deferred
    <3>3. Range(Append(Tail(messages), m)) = Range(Tail(messages)) \cup {m}
      BY <1>1, <2>1, <3>1, QueueTurns
    <3>. QED
      BY <2>1, <3>1, <3>2, <3>3
  <2>4. ASSUME NEW c \in Callbacks, ready' = Append(ready, c), c.do = "answer" => Backed(c)
        PROVE  Brought
    <3>1. Range(ready') = Range(ready) \cup {c}
      BY <1>1, <2>4, QueueGains
    <3>. QED
      BY <2>4, <3>1
  <2>5. CASE ready' = ready
    BY <2>2, <2>3, <2>5
  <2>6. CASE ready' = Append(ready, [do |-> "defer", ask |-> k])
    <3>1. [do |-> "defer", ask |-> k] \in Callbacks
      BY <2>1 DEF Callbacks
    <3>2. Brought
      BY <2>4, <2>6, <3>1
    <3>. QED
      BY <2>2, <2>3, <3>2
  <2>7. CASE Resolved
    <3>. PICK c : c = [do |-> "answer", ask |-> k, choice |-> Head(messages).choice]
      OBVIOUS
    <3>1. ready' = Append(ready, c) /\ Head(messages).do = "resolved"
      BY <2>7, Zenon DEF Resolved, Post, Got
    <3>2. c \in Callbacks
      BY <2>1, <3>1 DEF Callbacks
    <3>3. Backed(Head(messages))
      BY <2>1, <3>1 DEF Keyed
    <3>4. Backed(c)
      BY <3>3 DEF Backed
    <3>5. Brought
      BY <2>4, <3>1, <3>2, <3>4
    <3>. QED
      BY <2>2, <2>3, <3>5
  <2>. QED
    BY <1>2, <2>5, <2>6, <2>7, Zenon DEF Interface, Present, Mount, Deferred, Post, loop
<1>3. ASSUME User
      PROVE  /\ UNCHANGED ready /\ allowed \subseteq allowed' /\ refused \subseteq refused'
             /\ \A m \in Range(messages') : m.do = "resolved" => m \in Range(messages) \/ Backed(m)'
  <2>1. UNCHANGED ready
    BY <1>3 DEF User, Press, PressDefer, SwitchMode, loop
  <2>2. ASSUME NEW c \in Options, Press(c)
        PROVE  /\ allowed \subseteq allowed' /\ refused \subseteq refused'
               /\ \A m \in Range(messages') : m.do = "resolved" => m \in Range(messages) \/ Backed(m)'
    <3>. PICK n : n = [do |-> "resolved", ask |-> bar, choice |-> c]
      OBVIOUS
    <3>1. /\ messages' = Append(messages, n) /\ bar \in Asks
          /\ allowed' = (IF c = "allow" THEN allowed \cup {bar} ELSE allowed)
          /\ refused' = (IF c = "deny" THEN refused \cup {bar} ELSE refused)
      BY <1>1, <2>2 DEF Press
    <3>2. n \in Messages
      BY <3>1 DEF Messages
    <3>3. Range(messages') = Range(messages) \cup {n}
      BY <1>1, <3>1, <3>2, QueueGains
    <3>4. Backed(n)'
      BY <3>1 DEF Backed, Options
    <3>. QED
      BY <3>1, <3>3, <3>4
  <2>3. ASSUME PressDefer
        PROVE  /\ UNCHANGED <<allowed, refused>>
               /\ \A m \in Range(messages') : m.do = "resolved" => m \in Range(messages)
    <3>. PICK n : n = [do |-> "deferred", ask |-> bar]
      OBVIOUS
    <3>1. messages' = Append(messages, n) /\ bar \in Asks
      BY <1>1, <2>3 DEF PressDefer
    <3>2. n \in Messages /\ n.do # "resolved"
      BY <3>1 DEF Messages
    <3>3. Range(messages') = Range(messages) \cup {n}
      BY <1>1, <3>1, <3>2, QueueGains
    <3>. QED
      BY <2>3, <3>2, <3>3 DEF PressDefer, history
  <2>4. ASSUME SwitchMode
        PROVE  UNCHANGED <<allowed, refused, messages>>
    BY <2>4 DEF SwitchMode, history
  <2>. QED
    BY <1>3, <2>1, <2>2, <2>3, <2>4 DEF User
<1>4. /\ allowed \subseteq allowed' /\ refused \subseteq refused'
      /\ \A m \in Range(messages') : m.do = "resolved" => m \in Range(messages) \/ Backed(m)'
      /\ \A c \in Range(ready') : c.do = "answer" => c \in Range(ready) \/ Backed(c)
  BY <1>2, <1>3
<1>5. \A c : Backed(c) => Backed(c)'
  BY <1>4 DEF Backed
<1>. QED
  BY <1>1, <1>4, <1>5 DEF Keyed, AllowedOnlyByKey, DenialsLogged

LEMMA KeyedStep ==
  ASSUME TypeOK, Settled, Keyed, TypeOK', [Next]_vars
  PROVE  Keyed'
<1>1. CASE UNCHANGED vars
  BY <1>1 DEF Keyed, Backed, AllowedOnlyByKey, DenialsLogged, vars, loop, screen, records, history
<1>2. CASE Loop \/ \E k \in Asks : Request(k) \/ Due(k)
  <2>1. /\ \A c \in Range(ready') : c.do = "answer" => c \in Range(ready)
        /\ \A m \in Range(messages') : m.do = "resolved" => m \in Range(messages)
        /\ UNCHANGED <<allowed, refused>>
    BY <1>2, LoopBringsNone
  <2>2. \A c : Backed(c)' = Backed(c)
    BY <2>1 DEF Backed
  <2>3. /\ denials' \in [Asks -> Nat]
        /\ \A k \in Asks :
             /\ ask'[k].fut = "allow" => k \in allowed
             /\ ask'[k].fut = "deny" => k \in refused \/ denials'[k] > 0
             /\ ask'[k].result = "allow" => k \in allowed
             /\ ask'[k].result = "deny" /\ k \notin refused => denials'[k] > 0
    BY <1>2, LoopKeeps
  <2>. QED
    BY <2>1, <2>2, <2>3 DEF Keyed, AllowedOnlyByKey, DenialsLogged
<1>. QED
  BY <1>1, <1>2, InterfaceKeeps DEF Next

LEMMA KeyedAlways == Spec => []Keyed
<1>1. Init => Keyed
  BY DEF Init, Keyed, AllowedOnlyByKey, DenialsLogged, Range
<1>2. TypeOK /\ Settled /\ Keyed /\ TypeOK' /\ [Next]_vars => Keyed'
  BY KeyedStep
<1>. QED
  BY <1>1, <1>2, TypeCorrect, PTL DEF Spec

\* Whatever is pressed, due, parked or switched, in any order: a call is let
\* through only by an Allow pressed on its own bar.
THEOREM AllowedByKeyAlone == Spec => []AllowedOnlyByKey
<1>1. Keyed => AllowedOnlyByKey
  BY DEF Keyed
<1>. QED
  BY <1>1, KeyedAlways, PTL

\* A denial that no key gave is in the log: a timeout's, a deferral's.
THEOREM DenialsInTheLog == Spec => []DenialsLogged
<1>1. Keyed => DenialsLogged
  BY DEF Keyed
<1>. QED
  BY <1>1, KeyedAlways, PTL

-----------------------------------------------------------------------------
(* What is on its way to the screen *)

\* The last message of that kind is about k; there is none of that kind.
LastOf(q, do, k) ==
  \E i \in DOMAIN q : q[i].do = do /\ q[i].ask = k /\ \A j \in DOMAIN q : q[j].do = do => j <= i
NoneOf(q, do) == \A i \in DOMAIN q : q[i].do # do

\* With the messages q under way and b on the screen, k is what it comes to.
Shown(q, b, k) == \/ LastOf(q, "present", k)
                  \/ NoneOf(q, "present") /\ LastOf(q, "mount", k)
                  \/ NoneOf(q, "present") /\ NoneOf(q, "mount") /\ b = k

LEMMA LastInTail ==
  ASSUME NEW S, NEW q \in Seq(S), q # << >>, NEW do, NEW k
  PROVE  /\ LastOf(q, do, k) =>
              \/ LastOf(Tail(q), do, k)
              \/ Head(q).do = do /\ Head(q).ask = k /\ NoneOf(Tail(q), do)
         /\ NoneOf(q, do) => NoneOf(Tail(q), do) /\ Head(q).do # do
<1>. PICK n : n = Len(q)
  OBVIOUS
<1>1. /\ 1 \in DOMAIN q /\ q[1] = Head(q) /\ DOMAIN q = 1 .. n /\ n \in Nat \ {0}
      /\ DOMAIN Tail(q) = 1 .. n - 1
      /\ \A i \in DOMAIN Tail(q) : i \in Nat /\ i + 1 \in DOMAIN q /\ Tail(q)[i] = q[i + 1]
      /\ \A i \in DOMAIN q : i # 1 => i - 1 \in DOMAIN Tail(q) /\ Tail(q)[i - 1] = q[i]
  BY TailDoes
<1>. PICK t : t = Tail(q)
  OBVIOUS
<1>2. ASSUME LastOf(q, do, k)
      PROVE  LastOf(t, do, k) \/ (Head(q).do = do /\ Head(q).ask = k /\ NoneOf(t, do))
  <2>1. PICK i \in DOMAIN q : q[i].do = do /\ q[i].ask = k /\ \A j \in DOMAIN q : q[j].do = do => j <= i
    BY <1>2, Zenon DEF LastOf
  <2>2. CASE i = 1
    <3>1. ASSUME NEW j \in DOMAIN t PROVE t[j].do # do
      <4>1. j \in Nat /\ j + 1 \in DOMAIN q /\ t[j] = q[j + 1] /\ 1 <= j
        BY <1>1
      <4>2. ~(j + 1 <= 1)
        BY <4>1
      <4>. QED
        BY <2>1, <2>2, <4>1, <4>2
    <3>. QED
      BY <1>1, <2>1, <2>2, <3>1, Zenon DEF NoneOf
  <2>3. CASE i # 1
    <3>1. i - 1 \in DOMAIN t /\ t[i - 1] = q[i] /\ i \in Nat
      BY <1>1, <2>3
    <3>2. ASSUME NEW j \in DOMAIN t, t[j].do = do PROVE j <= i - 1
      <4>1. j \in Nat /\ j + 1 \in DOMAIN q /\ t[j] = q[j + 1]
        BY <1>1
      <4>2. j + 1 <= i
        BY <2>1, <3>2, <4>1, Zenon
      <4>. QED
        BY <3>1, <4>1, <4>2
    <3>. QED
      BY <2>1, <3>1, <3>2, Zenon DEF LastOf
  <2>. QED
    BY <2>2, <2>3
<1>3. ASSUME NoneOf(q, do) PROVE NoneOf(t, do) /\ Head(q).do # do
  BY <1>1, <1>3, Zenon DEF NoneOf
<1>. QED
  BY <1>2, <1>3, Zenon

LEMMA LastAppended ==
  ASSUME NEW S, NEW q \in Seq(S), NEW e \in S, NEW do, NEW k
  PROVE  /\ LastOf(q, do, k) /\ e.do # do => LastOf(Append(q, e), do, k)
         /\ e.do = do /\ e.ask = k => LastOf(Append(q, e), do, k)
         /\ NoneOf(q, do) /\ e.do # do => NoneOf(Append(q, e), do)
<1>. PICK n : n = Len(q)
  OBVIOUS
<1>. PICK a : a = Append(q, e)
  OBVIOUS
<1>1. /\ n \in Nat /\ n + 1 \notin DOMAIN q
      /\ DOMAIN a = DOMAIN q \cup {n + 1}
      /\ a[n + 1] = e
      /\ \A i \in DOMAIN q : a[i] = q[i] /\ i < n + 1 /\ i \in Nat
  <2>1. /\ DOMAIN q = 1 .. n /\ n \in Nat /\ n + 1 \notin DOMAIN q
        /\ DOMAIN Append(q, e) = DOMAIN q \cup {n + 1}
        /\ Append(q, e)[n + 1] = e
        /\ \A i \in DOMAIN q : Append(q, e)[i] = q[i] /\ i < n + 1
    BY AppendDoes
  <2>2. \A i \in 1 .. n : i \in Nat
    BY <2>1
  <2>. QED
    BY <2>1, <2>2, Zenon
<1>2. ASSUME LastOf(q, do, k), e.do # do PROVE LastOf(a, do, k)
  <2>1. PICK i \in DOMAIN q : q[i].do = do /\ q[i].ask = k /\ \A j \in DOMAIN q : q[j].do = do => j <= i
    BY <1>2, Zenon DEF LastOf
  <2>2. \A j \in DOMAIN a : a[j].do = do => j <= i
    BY <1>1, <1>2, <2>1, Zenon
  <2>. QED
    BY <1>1, <2>1, <2>2, Zenon DEF LastOf
<1>3. ASSUME e.do = do, e.ask = k PROVE LastOf(a, do, k)
  <2>1. \A j \in DOMAIN a : j <= n + 1
    BY <1>1
  <2>. QED
    BY <1>1, <1>3, <2>1, Zenon DEF LastOf
<1>4. ASSUME NoneOf(q, do), e.do # do PROVE NoneOf(a, do)
  BY <1>1, <1>4, Zenon DEF NoneOf
<1>. QED
  BY <1>2, <1>3, <1>4, Zenon

\* A key that is pressed changes nothing of that.
LEMMA ShownAppended ==
  ASSUME NEW S, NEW q \in Seq(S), NEW e \in S, e.do \notin {"present", "mount"}, NEW b, NEW k, Shown(q, b, k)
  PROVE  Shown(Append(q, e), b, k)
<1>. PICK a : a = Append(q, e)
  OBVIOUS
<1>1. \A do : e.do # do =>
        /\ LastOf(q, do, k) => LastOf(a, do, k)
        /\ NoneOf(q, do) => NoneOf(a, do)
  BY LastAppended
<1>2. e.do # "present" /\ e.do # "mount"
  OBVIOUS
<1>. QED
  BY <1>1, <1>2, Zenon DEF Shown

\* A bar that is presented is what it comes to.
LEMMA ShownPresented ==
  ASSUME NEW S, NEW q \in Seq(S), NEW e \in S, e.do = "present", NEW b
  PROVE  Shown(Append(q, e), b, e.ask)
BY LastAppended, Zenon DEF Shown

\* A message is handled: it was not the one that matters, or it was.
LEMMA ShownHandled ==
  ASSUME NEW S, NEW q \in Seq(S), q # << >>, NEW b, NEW k, Shown(q, b, k)
  PROVE  \/ LastOf(Tail(q), "present", k)
         \/ NoneOf(Tail(q), "present") /\ Head(q).do # "present" /\ LastOf(Tail(q), "mount", k)
         \/ NoneOf(Tail(q), "present") /\ Head(q).do = "present" /\ Head(q).ask = k
         \/ NoneOf(Tail(q), "present") /\ NoneOf(Tail(q), "mount") /\ Head(q).do = "mount" /\ Head(q).ask = k
         \/ /\ NoneOf(Tail(q), "present") /\ NoneOf(Tail(q), "mount") /\ b = k
            /\ Head(q).do # "present" /\ Head(q).do # "mount"
<1>. PICK t : t = Tail(q)
  OBVIOUS
<1>1. \A do :
        /\ LastOf(q, do, k) => LastOf(t, do, k) \/ (Head(q).do = do /\ Head(q).ask = k /\ NoneOf(t, do))
        /\ NoneOf(q, do) => NoneOf(t, do) /\ Head(q).do # do
  BY LastInTail
<1>. QED
  BY <1>1, Zenon DEF Shown

-----------------------------------------------------------------------------
(* The bar shows the ticket whose turn it is *)

\* An answer or a deferral of k is on its way to the runtime.
Closing(k) == \E c \in Range(ready) : c.do \in {"answer", "defer"} /\ c.ask = k

\* The adapter has presented the head of the queue, unless the one it presented
\* is settled and about to leave; and what it presented comes to the screen, or
\* its answer comes back.
Heading ==
  /\ presented # HeadOf(tickets, ask) => WakeOf(presented) \in Range(ready)
  /\ presented # NoAsk /\ presented = HeadOf(tickets, ask) /\ ~strayed =>
       Shown(messages, bar, presented) \/ Closing(presented)

\* A call that is to be woken is not the head of the queue, now or later.
LEMMA WokenNotHead ==
  ASSUME TypeOK, Settled, Heading, tickets' \in Seq(Asks), HeadOf(tickets', ask') = presented,
         \A j \in Asks : ask[j].fut # "open" => ask'[j].fut # "open"
  PROVE  presented = HeadOf(tickets, ask)
<1>. SUFFICES ASSUME presented # HeadOf(tickets, ask) PROVE FALSE
  OBVIOUS
<1>1. WakeOf(presented) \in Range(ready) /\ ready \in Seq(Callbacks)
  BY DEF Heading, TypeOK
<1>2. presented \in Asks
  <2>1. \A c \in Range(ready) : c \in Callbacks
    BY <1>1, LenProperties, ElementOfSeq DEF Range
  <2>2. WakeOf(presented) \in Callbacks
    BY <1>1, <2>1
  <2>. QED
    BY <2>2 DEF WakeOf, Callbacks
<1>3. ask'[presented].fut # "open"
  BY <1>1, <1>2 DEF Settled
<1>4. presented # NoAsk
  BY <1>2, ApprovalAssumption
<1>5. ask'[presented].fut = "open"
  BY <1>4, HeadIs
<1>. QED
  BY <1>3, <1>5

\* The queue has changed and the adapter is told.
LEMMA HeadingNotified ==
  ASSUME TypeOK, Settled, Heading, TypeOK', Notified, UNCHANGED <<bar, strayed>>,
         \A j \in Asks : ask[j].fut # "open" => ask'[j].fut # "open",
         HeadOf(tickets', ask') = presented /\ presented # NoAsk /\ Closing(presented) => Closing(presented)'
  PROVE  Heading'
<1>. PICK h : h = HeadOf(tickets', ask')
  OBVIOUS
<1>1. /\ tickets' \in Seq(Asks) /\ messages \in Seq(Messages) /\ presented' = h
      /\ h \in Asks \cup {NoAsk}
  BY HeadTypes DEF TypeOK, Notified
<1>2. CASE h # NoAsk /\ h # presented
  <2>. PICK e : e = [do |-> "present", ask |-> h]
    OBVIOUS
  <2>1. messages' = Append(messages, e)
    BY <1>2, Zenon DEF Notified
  <2>2. e \in Messages /\ e.do = "present" /\ e.ask = h
    BY <1>1, <1>2 DEF Messages
  <2>3. Shown(Append(messages, e), bar, h)
    BY <1>1, <2>2, ShownPresented
  <2>. QED
    BY <1>1, <2>1, <2>3, Zenon DEF Heading
<1>3. CASE h # NoAsk /\ h = presented
  <2>1. messages' = messages /\ presented' = presented
    BY <1>1, <1>3, Zenon DEF Notified
  <2>2. presented = HeadOf(tickets, ask)
    BY <1>1, <1>3, WokenNotHead
  <2>3. ~strayed => Shown(messages, bar, presented) \/ Closing(presented)
    BY <1>3, <2>2, Zenon DEF Heading
  <2>4. ~strayed => Shown(messages, bar, presented) \/ Closing(presented)'
    BY <1>3, <2>3
  <2>. QED
    BY <1>1, <1>3, <2>1, <2>4, Zenon DEF Heading
<1>4. CASE h = NoAsk
  BY <1>1, <1>4, Zenon DEF Heading
<1>. QED
  BY <1>2, <1>3, <1>4

\* A callback that settles the call k, or finds it settled, tells nobody.
LEMMA HeadingSettled ==
  ASSUME TypeOK, Settled, Heading, Settled', NEW k \in Asks,
         UNCHANGED <<tickets, presented, messages, bar, strayed>>,
         \A j \in Asks : ask'[j].deferred = ask[j].deferred,
         \A j \in Asks : j # k => ask'[j].fut = ask[j].fut,
         \/ ask'[k].fut = ask[k].fut
         \/ ask'[k].fut # "open" /\ WakeOf(k) \in Range(ready'),
         \A j : WakeOf(j) \in Range(ready) => WakeOf(j) \in Range(ready'),
         \A j : j = HeadOf(tickets', ask') /\ j # NoAsk /\ Closing(j) => Closing(j)'
  PROVE  Heading'
<1>1. tickets \in Seq(Asks) /\ DOMAIN tickets = 1 .. Len(tickets) /\ \A i \in DOMAIN tickets : tickets[i] \in Asks
  BY LenProperties, ElementOfSeq DEF TypeOK
<1>2. CASE HeadOf(tickets, ask') = HeadOf(tickets, ask)
  <2>1. presented' # HeadOf(tickets', ask') => WakeOf(presented') \in Range(ready')
    BY <1>2, Zenon DEF Heading
  <2>2. presented # NoAsk /\ presented = HeadOf(tickets, ask') /\ ~strayed =>
          Shown(messages, bar, presented) \/ Closing(presented)
    BY <1>2, Zenon DEF Heading
  <2>3. presented # NoAsk /\ presented = HeadOf(tickets, ask') /\ ~strayed =>
          Shown(messages, bar, presented) \/ Closing(presented)'
    BY <2>2
  <2>. QED
    BY <2>1, <2>3, Zenon DEF Heading
<1>3. CASE k = HeadOf(tickets, ask) /\ ask'[k].fut # "open" /\ WakeOf(k) \in Range(ready')
  <2>1. k # HeadOf(tickets, ask')
    <3>1. k # NoAsk
      BY ApprovalAssumption
    <3>. QED
      BY <1>1, <1>3, <3>1, HeadIs
  <2>2. WakeOf(presented) \in Range(ready')
    BY <1>3, Zenon DEF Heading
  <2>3. ~(presented = HeadOf(tickets, ask') /\ presented # NoAsk)
    <3>1. CASE presented = k
      BY <2>1, <3>1
    <3>2. CASE presented # k
      BY <1>1, <1>3, <3>2, WokenNotHead
    <3>. QED
      BY <3>1, <3>2
  <2>. QED
    BY <2>2, <2>3, Zenon DEF Heading
<1>4. CASE HeadOf(tickets, ask') # HeadOf(tickets, ask) /\ ask'[k].fut = ask[k].fut
  <2>1. OpenAt(tickets, ask') = OpenAt(tickets, ask)
    BY <1>1, <1>4 DEF OpenAt
  <2>. QED
    BY <1>4, <2>1, Zenon DEF HeadOf
<1>5. CASE k # HeadOf(tickets, ask) /\ ask'[k].fut # "open"
  <2>1. HeadOf(tickets, ask') = HeadOf(tickets, ask)
    BY <1>1, <1>5, HeadStays
  <2>. QED
    BY <1>2, <2>1
<1>. QED
  BY <1>2, <1>3, <1>4, <1>5

\* What stays in the runtime's queue when a callback has run.
LEMMA RanStays ==
  ASSUME TypeOK, ready # << >>, ready' = Tail(ready) \/ \E k \in Asks : ready' = Woken(k)
  PROVE  /\ \A c \in Range(ready) : c # Head(ready) => c \in Range(ready')
         /\ \A k \in Asks : ready' = Woken(k) => WakeOf(k) \in Range(ready')
<1>1. ready \in Seq(Callbacks) /\ Range(ready) = Range(Tail(ready)) \cup {Head(ready)}
  BY QueueGoes DEF TypeOK
<1>2. ASSUME NEW k \in Asks PROVE Range(Woken(k)) = Range(Tail(ready)) \cup {WakeOf(k)}
  <2>1. WakeOf(k) \in Callbacks
    BY DEF WakeOf, Callbacks
  <2>2. Range(Append(Tail(ready), WakeOf(k))) = Range(Tail(ready)) \cup {WakeOf(k)}
    BY <1>1, <2>1, QueueTurns
  <2>. QED
    BY <2>2, Zenon DEF Woken, WakeOf
<1>3. CASE ready' = Tail(ready)
  <2>1. Range(ready') = Range(Tail(ready))
    BY <1>3
  <2>2. \A k \in Asks : ready' = Woken(k) => WakeOf(k) \in Range(ready')
    BY <1>2
  <2>. QED
    BY <1>1, <2>1, <2>2
<1>4. ASSUME NEW k \in Asks, ready' = Woken(k)
      PROVE  /\ \A c \in Range(ready) : c # Head(ready) => c \in Range(ready')
             /\ \A j \in Asks : ready' = Woken(j) => WakeOf(j) \in Range(ready')
  BY <1>1, <1>2, <1>4
<1>. QED
  BY <1>3, <1>4

LEMMA HeadingLoop ==
  ASSUME TypeOK, Settled, Heading, TypeOK', Settled', Loop
  PROVE  Heading'
<1>. PICK k : k = Head(ready).ask
  OBVIOUS
<1>. PICK h : h = HeadOf(tickets, ask)
  OBVIOUS
<1>1. /\ ready # << >> /\ k \in Asks
      /\ Head(ready).do = "wake" => Wake
  BY RanHead DEF Loop, Answer, Defer, Timer, Wake, Ran
<1>2. ready' = Tail(ready) \/ ready' = Woken(k)
  BY Zenon DEF Loop, Answer, Defer, Timer, Wake
<1>3. /\ \A c \in Range(ready) : c # Head(ready) => c \in Range(ready')
      /\ ready' = Woken(k) => WakeOf(k) \in Range(ready')
  BY <1>1, <1>2, RanStays
<1>4. UNCHANGED <<bar, strayed>>
  BY DEF Loop, Answer, Defer, Timer, Wake, screen, history
<1>5. \A j : j # k /\ Closing(j) => Closing(j)'
  BY <1>3 DEF Closing
<1>6. \A j : WakeOf(j).do = "wake"
  BY DEF WakeOf
<1>7. CASE Answer
  <2>1. /\ UNCHANGED <<tickets, presented, messages>> /\ Head(ready).do = "answer"
        /\ Head(ready).choice \in Options
    BY <1>1, <1>7, RanHead DEF Answer, Ran, screen
  <2>2. \A j : WakeOf(j) \in Range(ready) => WakeOf(j) \in Range(ready')
    BY <1>3, <1>6, <2>1
  <2>3. CASE k \in Range(tickets) /\ ask[k].fut = "open"
    <3>1. Only(k) /\ ready' = Woken(k) /\ ask'[k].fut # "open" /\ ask'[k].deferred = ask[k].deferred
      BY <1>7, <2>1, <2>3, AnswerDoes DEF Options
    <3>2. \A j \in Asks : ask'[j].deferred = ask[j].deferred /\ (j # k => ask'[j].fut = ask[j].fut)
      BY <3>1 DEF Only
    <3>3. HeadOf(tickets', ask') # k
      BY <1>1, <3>1, HeadIs, ApprovalAssumption DEF TypeOK
    <3>. QED
      BY <1>1, <1>3, <1>4, <1>5, <2>1, <2>2, <3>1, <3>2, <3>3, HeadingSettled
  <2>4. CASE ~(k \in Range(tickets) /\ ask[k].fut = "open")
    <3>1. ask' = ask
      BY <1>7, <2>4, AnswerDoes
    <3>2. HeadOf(tickets', ask') # k
      BY <1>1, <2>1, <2>4, <3>1, HeadIs, ApprovalAssumption DEF TypeOK
    <3>. QED
      BY <1>1, <1>4, <1>5, <2>1, <2>2, <3>1, <3>2, HeadingSettled
  <2>. QED
    BY <2>3, <2>4
<1>8. CASE Timer
  <2>1. UNCHANGED <<tickets, presented, messages>> /\ Head(ready).do = "timer"
    BY <1>8 DEF Timer, Ran, screen
  <2>2. /\ \A j : WakeOf(j) \in Range(ready) => WakeOf(j) \in Range(ready')
        /\ \A j : Closing(j) => Closing(j)'
    BY <1>3, <1>6, <2>1 DEF Closing
  <2>3. CASE Waiting(k)
    <3>1. /\ Only(k) /\ ready' = (IF ask[k].fut = "open" THEN Woken(k) ELSE Tail(ready))
          /\ ask'[k].fut = (IF ask[k].fut = "open" THEN "cancelled" ELSE ask[k].fut)
          /\ ask'[k].deferred = ask[k].deferred
      BY <1>8, <2>3, TimerDoes
    <3>2. \A j \in Asks : ask'[j].deferred = ask[j].deferred /\ (j # k => ask'[j].fut = ask[j].fut)
      BY <3>1 DEF Only
    <3>3. \/ ask'[k].fut = ask[k].fut
          \/ ask'[k].fut # "open" /\ WakeOf(k) \in Range(ready')
      BY <1>3, <3>1
    <3>. QED
      BY <1>1, <1>4, <2>1, <2>2, <3>2, <3>3, HeadingSettled
  <2>4. CASE ~Waiting(k)
    <3>1. ask' = ask
      BY <1>8, <2>4, TimerDoes
    <3>. QED
      BY <1>1, <1>4, <2>1, <2>2, <3>1, HeadingSettled
  <2>. QED
    BY <2>3, <2>4
<1>9. CASE Defer
  <2>1. Head(ready).do = "defer" /\ UNCHANGED tickets
    BY <1>9, Zenon DEF Defer, Ran
  <2>2. CASE k \in Range(tickets) /\ ~ask[k].deferred
    <3>1. /\ Only(k) /\ ask'[k].fut = (IF ask[k].fut = "open" THEN "deny" ELSE ask[k].fut) /\ Notified
      BY <1>9, <2>2, DeferDoes
    <3>2. \A j \in Asks : ask[j].fut # "open" => ask'[j].fut # "open"
      BY <3>1 DEF Only
    <3>3. ask'[k].fut # "open"
      BY <3>1
    <3>4. HeadOf(tickets', ask') # k
      BY <1>1, <3>3, HeadIs, ApprovalAssumption DEF TypeOK
    <3>5. HeadOf(tickets', ask') = presented /\ presented # NoAsk /\ Closing(presented) => Closing(presented)'
      <4>. SUFFICES ASSUME HeadOf(tickets', ask') = presented, Closing(presented) PROVE Closing(presented)'
        OBVIOUS
      <4>1. presented' = presented
        BY <3>1 DEF Notified
      <4>2. PICK c \in Range(ready) : c.do \in {"answer", "defer"} /\ c.ask = presented
        BY DEF Closing
      <4>3. c \in Range(ready')
        BY <1>3, <3>4, <4>2
      <4>. QED
        BY <4>1, <4>2, <4>3 DEF Closing
    <3>. QED
      BY <1>4, <3>1, <3>2, <3>5, HeadingNotified
  <2>3. CASE ~(k \in Range(tickets) /\ ~ask[k].deferred)
    <3>1. UNCHANGED <<ask, presented, messages>>
      BY <1>9, <2>3 DEF Defer
    <3>2. HeadOf(tickets', ask') # k
      BY <1>1, <2>1, <2>3, <3>1, HeadIs, ApprovalAssumption DEF TypeOK
    <3>3. \A j : WakeOf(j) \in Range(ready) => WakeOf(j) \in Range(ready')
      BY <1>3, <1>6, <2>1
    <3>. QED
      BY <1>1, <1>4, <1>5, <2>1, <3>1, <3>2, <3>3, HeadingSettled
  <2>. QED
    BY <2>2, <2>3
<1>10. CASE Wake
  <2>1. /\ Only(k) /\ ask'[k].fut = ask[k].fut /\ Notified /\ Head(ready).do = "wake"
    BY <1>10, WakeDoes DEF Wake, Ran
  <2>2. \A j \in Asks : ask[j].fut # "open" => ask'[j].fut # "open"
    BY <2>1 DEF Only
  <2>3. HeadOf(tickets', ask') = presented /\ presented # NoAsk /\ Closing(presented) => Closing(presented)'
    <3>. SUFFICES ASSUME HeadOf(tickets', ask') = presented, Closing(presented) PROVE Closing(presented)'
      OBVIOUS
    <3>1. presented' = presented
      BY <2>1 DEF Notified
    <3>2. PICK c \in Range(ready) : c.do \in {"answer", "defer"} /\ c.ask = presented
      BY DEF Closing
    <3>3. c \in Range(ready')
      BY <1>3, <2>1, <3>2
    <3>. QED
      BY <3>1, <3>2, <3>3 DEF Closing
  <2>. QED
    BY <1>4, <2>1, <2>2, <2>3, HeadingNotified
<1>. QED
  BY <1>7, <1>8, <1>9, <1>10 DEF Loop

LEMMA HeadingAsks ==
  ASSUME TypeOK, Settled, Heading, TypeOK', Settled', NEW k \in Asks, Request(k) \/ Due(k)
  PROVE  Heading'
<1>1. Only(k) /\ ask'[k].fut = ask[k].fut /\ ask'[k].deferred = ask[k].deferred
  BY RequestDoes, DueDoes
<1>2. \A j \in Asks : ask'[j].fut = ask[j].fut /\ ask'[j].deferred = ask[j].deferred
  BY <1>1, Zenon DEF Only
<1>3. CASE Request(k)
  <2>1. UNCHANGED <<ready, bar, strayed>> /\ Notified
    BY <1>3 DEF Request, history
  <2>2. HeadOf(tickets', ask') = presented /\ presented # NoAsk /\ Closing(presented) => Closing(presented)'
    <3>. SUFFICES ASSUME HeadOf(tickets', ask') = presented, Closing(presented) PROVE Closing(presented)'
      OBVIOUS
    <3>. QED
      BY <2>1 DEF Notified, Closing
  <2>. QED
    BY <1>2, <2>1, <2>2, HeadingNotified
<1>4. CASE Due(k)
  <2> DEFINE timer == [do |-> "timer", ask |-> k]
  <2>1. ready' = Append(ready, timer) /\ UNCHANGED <<tickets, presented, messages, bar, strayed>>
    BY <1>4 DEF Due, screen, history
  <2>2. ready \in Seq(Callbacks) /\ timer \in Callbacks
    BY DEF TypeOK, Callbacks
  <2>3. Range(ready) \subseteq Range(ready')
    BY <2>1, <2>2, QueueGains
  <2>4. /\ \A j : WakeOf(j) \in Range(ready) => WakeOf(j) \in Range(ready')
        /\ \A j : Closing(j) => Closing(j)'
    BY <2>3 DEF Closing
  <2>. QED
    BY <1>2, <2>1, <2>4, HeadingSettled
<1>. QED
  BY <1>3, <1>4

\* The interface changes what is on its way to the screen, not whose turn it is.
LEMMA HeadingSeen ==
  ASSUME Heading, UNCHANGED <<ask, tickets, presented>>, Range(ready) \subseteq Range(ready'),
         strayed => strayed',
         presented # NoAsk /\ ~strayed' /\ Shown(messages, bar, presented) =>
           Shown(messages', bar', presented) \/ Closing(presented)'
  PROVE  Heading'
<1>1. HeadOf(tickets', ask') = HeadOf(tickets, ask) /\ presented' = presented
  OBVIOUS
<1>2. Closing(presented) => Closing(presented)'
  BY <1>1 DEF Closing
<1>3. presented' # HeadOf(tickets', ask') => WakeOf(presented') \in Range(ready')
  BY <1>1 DEF Heading
<1>4. presented # NoAsk /\ presented = HeadOf(tickets, ask) /\ ~strayed' =>
        Shown(messages', bar', presented) \/ Closing(presented)'
  <2>. SUFFICES ASSUME presented # NoAsk, presented = HeadOf(tickets, ask), ~strayed'
                PROVE  Shown(messages', bar', presented) \/ Closing(presented)'
    OBVIOUS
  <2>1. Shown(messages, bar, presented) \/ Closing(presented)
    BY Zenon DEF Heading
  <2>. QED
    BY <1>2, <2>1, Zenon
<1>. QED
  BY <1>1, <1>3, <1>4, Zenon DEF Heading

LEMMA HeadingInterface ==
  ASSUME TypeOK, Heading, Interface
  PROVE  Heading'
<1>. PICK k : k = Head(messages).ask
  OBVIOUS
<1>. PICK p : p = presented
  OBVIOUS
<1>1. /\ messages \in Seq(Messages) /\ ready \in Seq(Callbacks)
      /\ messages # << >> /\ k \in Asks /\ Tail(messages) \in Seq(Messages)
      /\ UNCHANGED <<ask, tickets, presented>> /\ presented' = p
      /\ Head(messages).do = "resolved" => Head(messages).choice \in Options
  BY GotHead DEF TypeOK, Interface, Present, Mount, Resolved, Deferred, Got, loop
<1>2. ASSUME NEW c \in Callbacks, ready' = Append(ready, c)
      PROVE  Range(ready) \subseteq Range(ready') /\ c \in Range(ready')
  BY <1>1, <1>2, QueueGains
<1>3. ASSUME Shown(messages, bar, p)
      PROVE  \/ LastOf(Tail(messages), "present", p)
             \/ /\ NoneOf(Tail(messages), "present") /\ Head(messages).do # "present"
                /\ LastOf(Tail(messages), "mount", p)
             \/ NoneOf(Tail(messages), "present") /\ Head(messages).do = "present" /\ k = p
             \/ /\ NoneOf(Tail(messages), "present") /\ NoneOf(Tail(messages), "mount")
                /\ Head(messages).do = "mount" /\ k = p
             \/ /\ NoneOf(Tail(messages), "present") /\ NoneOf(Tail(messages), "mount") /\ bar = p
                /\ Head(messages).do # "present" /\ Head(messages).do # "mount"
  BY <1>1, <1>3, ShownHandled
<1>4. CASE Present
  <2>1. /\ Head(messages).do = "present" /\ UNCHANGED <<bar, strayed>>
    BY <1>4, Zenon DEF Present, Got, history
  <2>2. CASE auto
    <3>1. /\ ready' = Append(ready, [do |-> "defer", ask |-> k]) /\ messages' = Tail(messages)
      BY <1>4, <2>2, Zenon DEF Present, Post
    <3>2. [do |-> "defer", ask |-> k] \in Callbacks
      BY <1>1 DEF Callbacks
    <3>3. Range(ready) \subseteq Range(ready') /\ [do |-> "defer", ask |-> k] \in Range(ready')
      BY <1>2, <3>1, <3>2
    <3>4. k = p => Closing(presented)'
      BY <1>1, <3>3 DEF Closing
    <3>5. Shown(messages, bar, presented) => Shown(messages', bar', presented) \/ Closing(presented)'
      BY <1>3, <2>1, <3>1, <3>4, Zenon DEF Shown
    <3>. QED
      BY <1>1, <2>1, <3>3, <3>5, HeadingSeen
  <2>3. CASE ~auto
    <3>. PICK m : m = [do |-> "mount", ask |-> k]
      OBVIOUS
    <3>1. messages' = Append(Tail(messages), m) /\ ready' = ready
      BY <1>4, <2>3, Zenon DEF Present
    <3>2. m \in Messages /\ m.do = "mount" /\ m.ask = k
      BY <1>1 DEF Messages
    <3>3. \A q \in Seq(Messages) :
            /\ LastOf(q, "present", p) => LastOf(Append(q, m), "present", p)
            /\ LastOf(Append(q, m), "mount", k)
            /\ NoneOf(q, "present") => NoneOf(Append(q, m), "present")
      BY <3>2, LastAppended
    <3>4. Shown(messages, bar, presented) => Shown(messages', bar', presented)
      BY <1>1, <1>3, <2>1, <3>1, <3>3, Zenon DEF Shown
    <3>. QED
      BY <1>1, <2>1, <3>1, <3>4, HeadingSeen
  <2>. QED
    BY <2>2, <2>3
<1>5. CASE Mount
  <2>1. /\ Head(messages).do = "mount" /\ UNCHANGED <<ready, strayed>>
        /\ bar' = k /\ messages' = Tail(messages)
    BY <1>5, Zenon DEF Mount, Got, loop, history
  <2>2. Shown(messages, bar, presented) => Shown(messages', bar', presented)
    BY <1>3, <2>1, Zenon DEF Shown
  <2>. QED
    BY <1>1, <2>1, <2>2, HeadingSeen
<1>6. ASSUME NEW c \in Callbacks, ready' = Append(ready, c), c.do \in {"answer", "defer"}, c.ask = k,
             TakeDown(k), messages' = Tail(messages),
             Head(messages).do # "present", Head(messages).do # "mount"
      PROVE  Heading'
  <2>1. Range(ready) \subseteq Range(ready') /\ c \in Range(ready')
    BY <1>2, <1>6
  <2>2. k = p => Closing(presented)'
    BY <1>1, <1>6, <2>1 DEF Closing
  <2>3. /\ strayed => strayed'
        /\ bar \notin {k, NoAsk} => strayed'
    BY <1>6 DEF TakeDown
  <2>4. presented # NoAsk /\ ~strayed' /\ Shown(messages, bar, presented) =>
          Shown(messages', bar', presented) \/ Closing(presented)'
    <3>. SUFFICES ASSUME presented # NoAsk, ~strayed', Shown(messages, bar, presented)
                  PROVE  Shown(messages', bar', presented) \/ Closing(presented)'
      OBVIOUS
    <3>1. CASE bar = p
      <4>1. k = p
        BY <2>3, <3>1
      <4>. QED
        BY <2>2, <4>1
    <3>2. CASE bar # p
      BY <1>3, <1>6, <3>2, Zenon DEF Shown
    <3>. QED
      BY <3>1, <3>2
  <2>. QED
    BY <1>1, <2>1, <2>3, <2>4, HeadingSeen
<1>7. CASE Resolved
  <2>. PICK c : c = [do |-> "answer", ask |-> k, choice |-> Head(messages).choice]
    OBVIOUS
  <2>1. /\ ready' = Append(ready, c) /\ TakeDown(k) /\ messages' = Tail(messages)
        /\ Head(messages).do = "resolved"
    BY <1>7, Zenon DEF Resolved, Post, Got
  <2>2. c \in Callbacks /\ c.do \in {"answer", "defer"} /\ c.ask = k
    BY <1>1, <2>1 DEF Callbacks
  <2>3. Head(messages).do # "present" /\ Head(messages).do # "mount"
    BY <2>1
  <2>. QED
    BY <1>6, <2>1, <2>2, <2>3
<1>8. CASE Deferred
  <2>1. messages' = Tail(messages) /\ Head(messages).do # "present" /\ Head(messages).do # "mount"
    BY <1>8 DEF Deferred, Got
  <2>2. CASE bar = NoAsk
    <3>1. UNCHANGED <<ready, bar, strayed>>
      BY <1>8, <2>2, Zenon DEF Deferred
    <3>2. presented # NoAsk /\ Shown(messages, bar, presented) => Shown(messages', bar', presented)
      BY <1>3, <2>1, <2>2, <3>1, Zenon DEF Shown
    <3>. QED
      BY <1>1, <3>1, <3>2, HeadingSeen
  <2>3. CASE bar # NoAsk
    <3>. PICK c : c = [do |-> "defer", ask |-> k]
      OBVIOUS
    <3>1. ready' = Append(ready, c) /\ TakeDown(k)
      BY <1>8, <2>3, Zenon DEF Deferred, Post
    <3>2. c \in Callbacks /\ c.do \in {"answer", "defer"} /\ c.ask = k
      BY <1>1 DEF Callbacks
    <3>. QED
      BY <1>6, <2>1, <3>1, <3>2
  <2>. QED
    BY <2>2, <2>3
<1>. QED
  BY <1>4, <1>5, <1>7, <1>8 DEF Interface

LEMMA HeadingUser ==
  ASSUME TypeOK, Heading, User
  PROVE  Heading'
<1>1. /\ messages \in Seq(Messages) /\ bar \in Asks \cup {NoAsk}
      /\ UNCHANGED <<ask, tickets, presented, ready, bar, strayed>>
  BY DEF TypeOK, User, Press, PressDefer, SwitchMode, loop, history
<1>2. ASSUME NEW m \in Messages, m.do \notin {"present", "mount"}, messages' = Append(messages, m)
      PROVE  Heading'
  <2>1. Shown(messages, bar, presented) => Shown(Append(messages, m), bar, presented)
    BY <1>1, <1>2, ShownAppended
  <2>2. Shown(messages, bar, presented) => Shown(messages', bar', presented)
    BY <1>1, <1>2, <2>1, Zenon
  <2>. QED
    BY <1>1, <2>2, HeadingSeen
<1>3. ASSUME NEW c \in Options, Press(c) PROVE Heading'
  <2>. PICK m : m = [do |-> "resolved", ask |-> bar, choice |-> c]
    OBVIOUS
  <2>1. messages' = Append(messages, m) /\ bar \in Asks
    BY <1>1, <1>3 DEF Press
  <2>2. m \in Messages /\ m.do \notin {"present", "mount"}
    BY <2>1 DEF Messages
  <2>. QED
    BY <1>2, <2>1, <2>2
<1>4. ASSUME PressDefer PROVE Heading'
  <2>. PICK m : m = [do |-> "deferred", ask |-> bar]
    OBVIOUS
  <2>1. messages' = Append(messages, m) /\ bar \in Asks
    BY <1>1, <1>4 DEF PressDefer
  <2>2. m \in Messages /\ m.do \notin {"present", "mount"}
    BY <2>1 DEF Messages
  <2>. QED
    BY <1>2, <2>1, <2>2
<1>5. ASSUME SwitchMode PROVE Heading'
  <2>1. messages' = messages
    BY <1>5 DEF SwitchMode
  <2>. QED
    BY <1>1, <2>1, HeadingSeen
<1>. QED
  BY <1>3, <1>4, <1>5 DEF User

LEMMA HeadingStep ==
  ASSUME TypeOK, Settled, Heading, TypeOK', Settled', [Next]_vars
  PROVE  Heading'
<1>1. CASE UNCHANGED vars
  BY <1>1 DEF Heading, Closing, vars, loop, screen, history
<1>2. CASE Next
  BY <1>2, HeadingLoop, HeadingAsks, HeadingInterface, HeadingUser DEF Next
<1>. QED
  BY <1>1, <1>2

\* Once both loops have run what was in their queues the bar on the screen is that
\* of the oldest ticket still open, whatever has been asked, answered, deferred,
\* due and pressed meanwhile, unless a key took down a bar it was not meant for.
THEOREM NobodyWaitsUnseen == Spec => []HeadShown
<1>1. Init => Heading
  <2>1. Range(<< >>) = {}
    BY DEF Range
  <2>2. HeadOf(<< >>, ask) = NoAsk
    BY DEF HeadOf, OpenAt
  <2>. QED
    BY <2>2 DEF Init, Heading
<1>2. TypeOK /\ Settled /\ Heading /\ (TypeOK /\ Settled)' /\ [Next]_vars => Heading'
  BY HeadingStep
<1>3. Heading => HeadShown
  <2>. SUFFICES ASSUME Heading, ready = << >>, messages = << >>, ~strayed, HeadOf(tickets, ask) # NoAsk
                PROVE  bar = HeadOf(tickets, ask)
    BY DEF HeadShown
  <2>1. Range(ready) = {} /\ DOMAIN messages = {}
    BY DEF Range
  <2>2. presented = HeadOf(tickets, ask)
    BY <2>1 DEF Heading
  <2>3. ~Closing(presented)
    BY <2>1 DEF Closing
  <2>4. Shown(messages, bar, presented)
    BY <2>2, <2>3 DEF Heading
  <2>5. ~LastOf(messages, "present", presented) /\ ~LastOf(messages, "mount", presented)
    BY <2>1 DEF LastOf
  <2>. QED
    BY <2>2, <2>4, <2>5, Zenon DEF Shown
<1>. QED
  BY <1>1, <1>2, <1>3, TypeCorrect, PTL DEF Spec

=============================================================================
