---------------------------- MODULE ReplyProofs ----------------------------
(***************************************************************************)
(* Theorems about what the user answers.  Reply: for any processes,        *)
(* threads, envelopes, decisions and any size of the ring.  NeedsYou: for  *)
(* any calls, questions per call and limit of the queue.                   *)
(***************************************************************************)
EXTENDS Reply, NeedsYou, FiniteSetTheorems, SequenceTheorems, TLAPS

-----------------------------------------------------------------------------
(* Lemmas about the helpers *)

\* record and acknowledge leave a store a store.
LEMMA StoreTypes ==
  ASSUME NEW s \in Stores
  PROVE  /\ Empty \in Stores /\ \A d \in Events : Recorded(s, d) \in Stores
         /\ Acknowledged(s) \in Stores
         /\ Ackable(s) \in Events \cup {NoEvent}
<1>1. Empty \in Stores /\ Ackable(s) \in Events \cup {NoEvent}
  BY DEF Empty, Stores, Ackable
<1>2. \A d \in Events : Recorded(s, d) \in Stores
  BY DEF Recorded, Stores
<1>3. Acknowledged(s) \in Stores
  BY StoreAssumption DEF Acknowledged, Ackable, Stores
<1>. QED
  BY <1>1, <1>2, <1>3

\* A decision is an event, and no decision is the missing one.
LEMMA DecisionTypes ==
  /\ Decisions \subseteq Events /\ Decisions \subseteq Nat /\ None \notin Decisions
BY StoreAssumption DEF Decisions, Events, None

\* What a thread at work knows, at each stage.
LEMMA ThreadKnows ==
  ASSUME TypeOK, NEW h \in Handlers, handler[h] # Idle
  PROVE  /\ handler[h].e \in Envelopes /\ handler[h].p \in Procs
         /\ about[handler[h].e] \in Decisions
         /\ handler[h].st \in {"reserve", "submit", "record", "load", "save"}
         /\ At(h, "record") => handler[h].ok \in BOOLEAN
         /\ At(h, "save") => handler[h].read \in Stores
BY DEF TypeOK, Threads, At, Idle

LEMMA AtWork ==
  ASSUME NEW h \in Handlers, NEW s \in {"reserve", "submit", "record", "load", "save"}, At(h, s)
  PROVE  handler[h] # Idle
BY DEF At, Idle

\* A thread that goes on keeps its envelope and its process; the others stay.
LEMMA ThreadGoes ==
  ASSUME TypeOK, NEW h \in Handlers,
         \/ At(h, "reserve") /\ Goes(h, "submit")
         \/ At(h, "record") /\ Goes(h, "load")
         \/ At(h, "submit") /\ \E b \in BOOLEAN : Decided(h, b)
  PROVE  /\ handler' \in [Handlers -> Threads]
         /\ handler'[h] # Idle /\ handler'[h].e = handler[h].e /\ handler'[h].p = handler[h].p
         /\ \A g \in Handlers : g # h => handler'[g] = handler[g]
<1>1. /\ handler \in [Handlers -> Threads] /\ handler[h] \in Threads
      /\ handler[h].e \in Envelopes /\ handler[h].p \in Procs
  BY ThreadKnows, AtWork DEF TypeOK
<1>2. CASE At(h, "reserve") /\ Goes(h, "submit")
  <2>1. handler[h] \in [st : {"reserve", "submit"}, e : Envelopes, p : Procs]
    BY <1>1, <1>2 DEF Threads, At, Idle
  <2>2. [handler[h] EXCEPT !.st = "submit"] = [st |-> "submit", e |-> handler[h].e, p |-> handler[h].p]
    BY <2>1
  <2>3. handler' = [handler EXCEPT ![h] = [st |-> "submit", e |-> handler[h].e, p |-> handler[h].p]]
    BY <1>2, <2>2, Zenon DEF Goes
  <2>. QED
    BY <1>1, <2>3 DEF Threads, Idle
<1>3. CASE At(h, "record") /\ Goes(h, "load")
  <2>1. handler[h] \in [st : {"record", "load"}, e : Envelopes, p : Procs, ok : BOOLEAN]
    BY <1>1, <1>3 DEF Threads, At, Idle
  <2>2. [handler[h] EXCEPT !.st = "load"]
          = [st |-> "load", e |-> handler[h].e, p |-> handler[h].p, ok |-> handler[h].ok]
    BY <2>1
  <2>3. handler' = [handler EXCEPT ![h] = [st |-> "load", e |-> handler[h].e, p |-> handler[h].p,
                                           ok |-> handler[h].ok]]
    BY <1>3, <2>2, Zenon DEF Goes
  <2>. QED
    BY <1>1, <2>1, <2>3 DEF Threads, Idle
<1>4. ASSUME NEW b \in BOOLEAN, Decided(h, b)
      PROVE  /\ handler' \in [Handlers -> Threads]
             /\ handler'[h] # Idle /\ handler'[h].e = handler[h].e /\ handler'[h].p = handler[h].p
             /\ \A g \in Handlers : g # h => handler'[g] = handler[g]
  BY <1>1, <1>4 DEF Decided, Threads, Idle
<1>. QED
  BY <1>2, <1>3, <1>4

\* The ring after a nonce was put into it, the oldest pushed out if need be.
LEMMA RingKeeps ==
  ASSUME NEW r \in Seq(Envelopes), IsInjective(r), Len(r) <= MaxNonces,
         NEW e \in Envelopes, e \notin Range(r)
  PROVE  /\ Put(r, e) \in Seq(Envelopes) /\ IsInjective(Put(r, e)) /\ Len(Put(r, e)) <= MaxNonces
         /\ e \in Range(Put(r, e)) /\ Range(Put(r, e)) \subseteq Range(r) \cup {e}
<1> DEFINE kept == Append(r, e)
           s == Put(r, e)
           m == 1 + (IF Len(kept) > MaxNonces THEN 1 ELSE 0)
           n == Len(kept)
<1>1. /\ kept \in Seq(Envelopes) /\ n = Len(r) + 1 /\ kept[n] = e
      /\ \A i \in 1 .. Len(r) : kept[i] = r[i]
  BY AppendProperties
<1>2. m \in 1 .. 2 /\ n \in Nat /\ m <= n /\ Len(r) \in Nat
      /\ (m = 2 <=> n > MaxNonces) /\ MaxNonces \in Nat \ {0}
  BY <1>1, ReplyAssumption
<1> HIDE DEF m, n, kept, s
<1>3. \A i \in m .. n : kept[i] \in Envelopes
  BY <1>1, <1>2, ElementOfSeq DEF n
<1>4. /\ s \in Seq(Envelopes) /\ Len(s) = n - m + 1
      /\ \A i \in 1 .. n - m + 1 : s[i] = kept[m + i - 1]
  <2>1. s = SubSeq(kept, m, n)
    BY Zenon DEF m, n, kept, s, Put
  <2>2. m \in Int /\ n \in Int
    BY <1>2
  <2>3. /\ SubSeq(kept, m, n) \in Seq(Envelopes)
        /\ Len(SubSeq(kept, m, n)) = IF m <= n THEN n - m + 1 ELSE 0
        /\ \A i \in 1 .. n - m + 1 : SubSeq(kept, m, n)[i] = kept[m + i - 1]
    BY <1>3, <2>2, SubSeqProperties
  <2>4. m <= n
    BY <1>2
  <2>5. s \in Seq(Envelopes) /\ \A i \in 1 .. n - m + 1 : s[i] = kept[m + i - 1]
    BY <2>1, <2>3, Zenon
  <2>6. Len(s) = n - m + 1
    BY <2>1, <2>3, <2>4, Zenon
  <2>. QED
    BY <2>5, <2>6
<1>5. Len(s) <= MaxNonces
  BY <1>1, <1>2, <1>4
<1>6. DOMAIN s = 1 .. n - m + 1 /\ DOMAIN r = 1 .. Len(r)
  BY <1>4, <1>2
<1>7. s[n - m + 1] = e
  BY <1>1, <1>2, <1>4
<1>8. e \in Range(s)
  <2>1. n - m + 1 \in DOMAIN s
    BY <1>2, <1>6
  <2>. QED
    BY <2>1, <1>7 DEF Range
<1>9. \A i \in DOMAIN s : (s[i] = e /\ i = n - m + 1) \/ (m + i - 1 \in DOMAIN r /\ s[i] = r[m + i - 1])
  <2> SUFFICES ASSUME NEW i \in DOMAIN s
               PROVE  (s[i] = e /\ i = n - m + 1) \/ (m + i - 1 \in DOMAIN r /\ s[i] = r[m + i - 1])
    OBVIOUS
  <2>1. i \in 1 .. n - m + 1
    BY <1>6
  <2>2. s[i] = kept[m + i - 1]
    BY <2>1, <1>4
  <2>3. m \in Nat /\ m >= 1 /\ n \in Nat
    BY <1>2
  <2>4. m + i - 1 \in 1 .. n
    BY <2>1, <2>3
  <2>5. CASE m + i - 1 = n
    <3>1. i = n - m + 1
      BY <2>3, <2>1, <2>5
    <3>. QED
      BY <1>7, <3>1
  <2>6. CASE m + i - 1 # n
    <3>1. m + i - 1 \in 1 .. Len(r)
      BY <1>1, <1>2, <2>4, <2>6
    <3>. QED
      BY <1>1, <1>6, <2>2, <3>1
  <2>. QED
    BY <2>5, <2>6
<1>10. Range(s) \subseteq Range(r) \cup {e}
  <2> SUFFICES ASSUME NEW i \in DOMAIN s PROVE s[i] \in Range(r) \cup {e}
    BY DEF Range
  <2>. QED
    BY <1>9 DEF Range
<1>11. IsInjective(s)
  <2> SUFFICES ASSUME NEW i \in DOMAIN s, NEW j \in DOMAIN s, s[i] = s[j] PROVE i = j
    BY DEF IsInjective
  <2>1. i \in Int /\ j \in Int /\ m \in Int
    BY <1>2, <1>6
  <2>2. CASE s[i] = e
    <3>1. \A k \in DOMAIN r : r[k] # e
      BY DEF Range
    <3>. QED
      BY <2>2, <3>1, <1>9
  <2>3. CASE s[i] # e
    <3>1. m + i - 1 \in DOMAIN r /\ m + j - 1 \in DOMAIN r /\ r[m + i - 1] = r[m + j - 1]
      BY <2>3, <1>9
    <3>2. m + i - 1 = m + j - 1
      BY <3>1 DEF IsInjective
    <3>. QED
      BY <3>2, <2>1
  <2>. QED
    BY <2>2, <2>3
<1>. QED
  BY <1>4, <1>5, <1>8, <1>10, <1>11 DEF s

-----------------------------------------------------------------------------
(* Type correctness *)

\* What the interface and the device do keeps the types.
LEMMA SessionTypes ==
  ASSUME TypeOK,
         \/ \E p \in Procs : Start(p) \/ Look(p) \/ Close(p) \/ Exit(p)
         \/ \E p \in Procs, d \in Decisions : Ask(p, d) \/ AnswerHere(p, d)
         \/ \E e \in Envelopes : Age(e) \/ \E d \in Decisions : Sign(e, d)
         \/ Revoke
  PROVE  TypeOK'
<1> USE DEF TypeOK, session, device, ledger
<1>1. ASSUME NEW p \in Procs, Start(p) \/ Close(p) PROVE TypeOK'
  BY <1>1, ThreadKnows, ZenonT(30) DEF Start, Close
<1>2. ASSUME NEW p \in Procs, NEW d \in Decisions, Ask(p, d) PROVE TypeOK'
  <2>1. store' \in Stores
    BY <1>2, StoreTypes, DecisionTypes DEF Ask
  <2>. QED
    BY <1>2, <2>1 DEF Ask
<1>3. ASSUME NEW p \in Procs, Look(p) \/ \E d \in Decisions : AnswerHere(p, d) PROVE TypeOK'
  <2>1. store' \in Stores /\ looked' \subseteq Events
    BY <1>3, StoreTypes DEF Look, AnswerHere, LookedAt
  <2>2. queue' \in [Procs -> [Decisions -> {"none", "pending", "answered"}]]
    <3>1. CASE Look(p)
      BY <3>1 DEF Look
    <3>2. ASSUME NEW d \in Decisions, AnswerHere(p, d)
          PROVE  queue' \in [Procs -> [Decisions -> {"none", "pending", "answered"}]]
      BY <3>2 DEF AnswerHere
    <3>. QED
      BY <1>3, <3>1, <3>2
  <2>3. UNCHANGED <<up, bound, asker, device, ledger, handler, answers, cut>>
    BY <1>3 DEF Look, AnswerHere
  <2>. QED
    BY <2>1, <2>2, <2>3
<1>4. ASSUME NEW p \in Procs, Exit(p) PROVE TypeOK'
  <2> DEFINE killed == {h \in Handlers : handler[h] # Idle /\ handler[h].p = p}
  <2>1. /\ handler' = [h \in Handlers |-> IF h \in killed THEN Idle ELSE handler[h]]
        /\ cut' = cut \cup {handler[h].e : h \in killed}
        /\ up' = [up EXCEPT ![p] = "gone"]
        /\ UNCHANGED <<store, bound, queue, looked, asker, device, ledger, answers>>
    BY <1>4 DEF Exit
  <2>2. cut' \subseteq Envelopes
    BY <2>1, ThreadKnows
  <2>3. handler' \in [Handlers -> Threads]
    BY <2>1 DEF Threads
  <2>4. \A h \in Handlers : handler'[h] # Idle =>
          up'[handler'[h].p] \in {"up", "closed"} /\ about'[handler'[h].e] # None
    <3> SUFFICES ASSUME NEW h \in Handlers, handler'[h] # Idle
                 PROVE  up'[handler'[h].p] \in {"up", "closed"} /\ about'[handler'[h].e] # None
      OBVIOUS
    <3>1. handler'[h] = handler[h] /\ handler[h] # Idle /\ handler[h].p # p
      BY <2>1
    <3>. QED
      BY <2>1, <3>1, ThreadKnows
  <2>5. up' \in [Procs -> {"new", "up", "closed", "gone"}]
    BY <2>1
  <2> HIDE DEF killed
  <2>. QED
    BY <2>1, <2>2, <2>3, <2>4, <2>5
<1>5. ASSUME NEW e \in Envelopes, Age(e) \/ \E d \in Decisions : Sign(e, d) PROVE TypeOK'
  BY <1>5, ThreadKnows DEF Age, Sign
<1>6. CASE Revoke
  BY <1>6 DEF Revoke
<1>. QED
  BY <1>1, <1>2, <1>3, <1>4, <1>5, <1>6

\* The threads at work have their process and their question as long as
\* processes, envelopes and the other threads stay what they are.
LEMMA KnowsOn ==
  ASSUME TypeOK, up' = up, about' = about, NEW h \in Handlers, handler[h] # Idle,
         \A g \in Handlers : g # h => handler'[g] = handler[g],
         handler'[h] = Idle \/ (handler'[h].e = handler[h].e /\ handler'[h].p = handler[h].p)
  PROVE  \A g \in Handlers : handler'[g] # Idle =>
           up'[handler'[g].p] \in {"up", "closed"} /\ about'[handler'[g].e] # None
BY DEF TypeOK

\* So do they when a thread ends.
LEMMA ThreadEnds ==
  ASSUME TypeOK, NEW h \in Handlers, Ends(h)
  PROVE  /\ handler' \in [Handlers -> Threads] /\ handler'[h] = Idle
         /\ \A g \in Handlers : g # h => handler'[g] = handler[g]
BY DEF TypeOK, Ends, Threads

\* What the threads do keeps the types.
LEMMA ServeTypes ==
  ASSUME TypeOK, NEW h \in Handlers, Serve(h) \/ \E e \in Envelopes, p \in Procs : Deliver(h, e, p)
  PROVE  TypeOK'
<1> DEFINE Known == /\ handler' \in [Handlers -> Threads]
                    /\ \A g \in Handlers : handler'[g] # Idle =>
                         up'[handler'[g].p] \in {"up", "closed"} /\ about'[handler'[g].e] # None
<1> USE DEF session, device, ledger
<1>1. ASSUME NEW e \in Envelopes, NEW p \in Procs, Deliver(h, e, p) PROVE TypeOK'
  <2>1. /\ [st |-> "reserve", e |-> e, p |-> p] \in Threads /\ up[p] = "up" /\ about[e] \in Decisions
        /\ UNCHANGED <<session, device, ledger, answers, cut>>
    BY <1>1 DEF Threads, Deliver, TypeOK
  <2>2. handler' = [handler EXCEPT ![h] = [st |-> "reserve", e |-> e, p |-> p]]
    BY <1>1 DEF Deliver
  <2>3. Known
    BY <2>1, <2>2, DecisionTypes DEF TypeOK
  <2>. QED
    BY <2>1, <2>3 DEF TypeOK
<1>2. CASE Reserve(h)
  <2>1. /\ At(h, "reserve") /\ handler[h] # Idle /\ handler[h].e \in Envelopes
        /\ UNCHANGED <<session, device, outcomes, answers, cut>>
    BY <1>2, ThreadKnows, AtWork DEF Reserve
  <2>2. CASE handler[h].e \in Range(ring)
    <3>1. Ends(h) /\ UNCHANGED <<ring, pushed>>
      BY <1>2, <2>2 DEF Reserve
    <3>2. Known
      BY <2>1, <3>1, ThreadEnds, KnowsOn
    <3>. QED
      BY <2>1, <3>1, <3>2 DEF TypeOK
  <2>3. CASE handler[h].e \notin Range(ring)
    <3>1. Goes(h, "submit") /\ ring' = Put(ring, handler[h].e)
      BY <1>2, <2>3 DEF Reserve
    <3>2. ring' \in Seq(Envelopes) /\ IsInjective(ring') /\ Len(ring') <= MaxNonces
      <4>1. ring \in Seq(Envelopes) /\ IsInjective(ring) /\ Len(ring) <= MaxNonces
        BY DEF TypeOK
      <4>. QED
        BY <2>1, <2>3, <3>1, <4>1, RingKeeps
    <3>3. pushed' \subseteq Envelopes
      <4>1. Range(ring) \subseteq Envelopes
        BY RangeOfSeq DEF TypeOK
      <4>. QED
        BY <1>2, <2>3, <4>1 DEF Reserve, TypeOK
    <3>4. Known
      BY <2>1, <3>1, ThreadGoes, KnowsOn
    <3>. QED
      BY <2>1, <3>1, <3>2, <3>3, <3>4 DEF TypeOK
  <2>. QED
    BY <2>2, <2>3
<1>3. CASE Submit(h)
  <2>1. /\ At(h, "submit") /\ handler[h] # Idle
        /\ handler[h].e \in Envelopes /\ handler[h].p \in Procs /\ about[handler[h].e] \in Decisions
        /\ Accepts(h) \in BOOLEAN /\ Decided(h, Accepts(h))
        /\ UNCHANGED <<store, bound, up, looked, asker, device, ledger, cut>>
    BY <1>3, ThreadKnows, AtWork DEF Submit, Accepts
  <2>5. /\ queue \in [Procs -> [Decisions -> {"none", "pending", "answered"}]]
        /\ answers \in [Envelopes -> Nat]
    BY DEF TypeOK
  <2>6. ASSUME Accepts(h)
        PROVE  /\ queue' \in [Procs -> [Decisions -> {"none", "pending", "answered"}]]
               /\ answers' \in [Envelopes -> Nat]
    BY <1>3, <2>1, <2>5, <2>6 DEF Submit
  <2>7. ASSUME ~Accepts(h)
        PROVE  queue' = queue /\ answers' = answers
    BY <1>3, <2>1, <2>5, <2>7 DEF Submit
  <2>2. /\ queue' \in [Procs -> [Decisions -> {"none", "pending", "answered"}]]
        /\ answers' \in [Envelopes -> Nat]
    BY <2>5, <2>6, <2>7
  <2>4. Known
    BY <2>1, ThreadGoes, KnowsOn
  <2>. QED
    BY <2>1, <2>2, <2>4 DEF TypeOK
<1>4. CASE Record(h)
  <2>1. /\ At(h, "record") /\ handler[h] # Idle /\ handler[h].e \in Envelopes
        /\ UNCHANGED <<session, device, ring, pushed, answers, cut>>
        /\ outcomes' = outcomes \cup {handler[h].e}
        /\ Goes(h, "load") \/ Ends(h)
    BY <1>4, ThreadKnows, AtWork DEF Record
  <2>2. Known
    <3>1. CASE Goes(h, "load")
      BY <2>1, <3>1, ThreadGoes, KnowsOn
    <3>2. CASE Ends(h)
      BY <2>1, <3>2, ThreadEnds, KnowsOn
    <3>. QED
      BY <2>1, <3>1, <3>2
  <2>. QED
    BY <2>1, <2>2 DEF TypeOK
<1>5. CASE Load(h)
  <2>1. /\ At(h, "load") /\ handler[h] # Idle /\ handler[h].e \in Envelopes /\ handler[h].p \in Procs
        /\ UNCHANGED <<session, device, ledger, answers, cut>>
    BY <1>5, ThreadKnows, AtWork DEF Load
  <2>2. CASE Ends(h)
    <3>1. Known
      BY <2>1, <2>2, ThreadEnds, KnowsOn
    <3>. QED
      BY <2>1, <3>1 DEF TypeOK
  <2>3. CASE handler' = [handler EXCEPT ![h] = [st |-> "save", e |-> @.e, p |-> @.p, read |-> store]]
    <3>1. [st |-> "save", e |-> handler[h].e, p |-> handler[h].p, read |-> store] \in Threads
      BY <2>1 DEF Threads, TypeOK
    <3>2. /\ handler' \in [Handlers -> Threads]
          /\ handler'[h].e = handler[h].e /\ handler'[h].p = handler[h].p
          /\ \A g \in Handlers : g # h => handler'[g] = handler[g]
      BY <2>3, <3>1 DEF TypeOK
    <3>3. Known
      BY <2>1, <3>2, KnowsOn
    <3>. QED
      BY <2>1, <3>3 DEF TypeOK
  <2>. QED
    BY <1>5, <2>2, <2>3 DEF Load
<1>6. CASE Save(h)
  <2>1. /\ At(h, "save") /\ handler[h] # Idle /\ handler[h].e \in Envelopes /\ handler[h].read \in Stores
        /\ about[handler[h].e] \in Events /\ Ends(h)
        /\ UNCHANGED <<bound, up, queue, looked, asker, device, ledger, answers, cut>>
    BY <1>6, ThreadKnows, AtWork, DecisionTypes DEF Save
  <2>2. store' \in Stores
    BY <1>6, <2>1 DEF Save, Stores, TypeOK
  <2>3. Known
    BY <2>1, ThreadEnds, KnowsOn
  <2>. QED
    BY <2>1, <2>2, <2>3 DEF TypeOK
<1>. QED
  BY <1>1, <1>2, <1>3, <1>4, <1>5, <1>6 DEF Serve

\* Every variable keeps its type; a thread at work has a process that runs, and
\* an envelope that was sent.
THEOREM TypeCorrect == Spec => []TypeOK
<1>1. Init => TypeOK
  <2>1. << >> \in Seq(Envelopes) /\ IsInjective(<< >>) /\ Len(<< >>) <= MaxNonces
    BY ReplyAssumption DEF IsInjective
  <2>2. Empty \in Stores
    BY DEF Empty, Stores
  <2>3. Idle \in Threads
    BY DEF Threads
  <2>4. ASSUME Init
        PROVE  /\ asker \in [Decisions -> Procs \cup {NoEvent}]
               /\ up \in [Procs -> {"new", "up", "closed", "gone"}]
               /\ queue \in [Procs -> [Decisions -> {"none", "pending", "answered"}]]
    BY <2>4 DEF Init
  <2>5. ASSUME Init
        PROVE  about \in [Envelopes -> Decisions \cup {None}] /\ answers \in [Envelopes -> Nat]
    BY <2>5 DEF Init
  <2>6. ASSUME Init
        PROVE  handler \in [Handlers -> Threads] /\ \A h \in Handlers : handler[h] = Idle
    BY <2>3, <2>6 DEF Init
  <2>7. ASSUME Init
        PROVE  /\ bound \subseteq Decisions /\ looked \subseteq Events /\ fresh \subseteq Envelopes
               /\ outcomes \cup pushed \cup cut \subseteq Envelopes /\ revoked \in BOOLEAN
               /\ store = Empty /\ ring = << >>
    BY <2>7 DEF Init
  <2>. QED
    BY <2>1, <2>2, <2>4, <2>5, <2>6, <2>7 DEF TypeOK
<1>2. TypeOK /\ [Next]_vars => TypeOK'
  <2>1. CASE UNCHANGED vars
    BY <2>1 DEF vars, session, device, ledger, TypeOK
  <2>. QED
    BY <2>1, SessionTypes, ServeTypes DEF Next
<1>. QED
  BY <1>1, <1>2, PTL DEF Spec

-----------------------------------------------------------------------------
(* What a step of a thread does to the threads *)

With(h, s, e) == At(h, s) /\ handler[h].e = e

\* The stages follow one another: a thread at work goes on with the same
\* envelope or ends, and the others stay where they are.
LEMMA Moves ==
  ASSUME TypeOK, NEW h \in Handlers, Serve(h)
  PROVE  /\ handler[h] # Idle
         /\ \A g \in Handlers : g # h => handler'[g] = handler[g]
         /\ \/ /\ Reserve(h) /\ At(h, "reserve") /\ handler'[h].st \in {"idle", "submit"}
               /\ handler'[h].st = "submit" => handler'[h].e = handler[h].e
            \/ /\ Submit(h) /\ At(h, "submit") /\ handler'[h].st = "record"
               /\ handler'[h].e = handler[h].e /\ handler'[h].ok = Accepts(h)
            \/ /\ Record(h) /\ At(h, "record") /\ handler'[h].st \in {"idle", "load"}
               /\ handler'[h].st = "load" => handler'[h].e = handler[h].e /\ handler[h].ok
            \/ /\ Load(h) /\ At(h, "load") /\ handler'[h].st \in {"idle", "save"}
               /\ handler'[h].st = "save" => handler'[h].e = handler[h].e /\ handler'[h].read = store
            \/ Save(h) /\ At(h, "save") /\ handler'[h].st = "idle"
<1>1. CASE Reserve(h)
  <2>1. At(h, "reserve") /\ (Ends(h) \/ Goes(h, "submit"))
    BY <1>1 DEF Reserve
  <2>2. CASE Ends(h)
    BY <1>1, <2>1, <2>2, AtWork, ThreadEnds DEF Idle
  <2>3. CASE Goes(h, "submit")
    <3>1. handler'[h].st = "submit"
      BY <2>3 DEF Goes, TypeOK
    <3>. QED
      BY <1>1, <2>1, <2>3, <3>1, AtWork, ThreadGoes
  <2>. QED
    BY <2>1, <2>2, <2>3
<1>2. CASE Submit(h)
  <2>1. At(h, "submit") /\ Decided(h, Accepts(h)) /\ Accepts(h) \in BOOLEAN
    BY <1>2 DEF Submit, Accepts
  <2>2. handler'[h].st = "record" /\ handler'[h].ok = Accepts(h)
    BY <2>1 DEF Decided, TypeOK
  <2>. QED
    BY <1>2, <2>1, <2>2, AtWork, ThreadGoes
<1>3. CASE Record(h)
  <2>1. At(h, "record") /\ (Ends(h) \/ (Goes(h, "load") /\ handler[h].ok))
    BY <1>3 DEF Record
  <2>2. CASE Ends(h)
    BY <1>3, <2>1, <2>2, AtWork, ThreadEnds DEF Idle
  <2>3. CASE Goes(h, "load") /\ handler[h].ok
    <3>1. handler'[h].st = "load"
      BY <2>3 DEF Goes, TypeOK
    <3>. QED
      BY <1>3, <2>1, <2>3, <3>1, AtWork, ThreadGoes
  <2>. QED
    BY <2>1, <2>2, <2>3
<1>4. CASE Load(h)
  <2>1. At(h, "load")
    BY <1>4 DEF Load
  <2>2. CASE Ends(h)
    BY <1>4, <2>1, <2>2, AtWork, ThreadEnds DEF Idle
  <2>3. CASE handler' = [handler EXCEPT ![h] = [st |-> "save", e |-> @.e, p |-> @.p, read |-> store]]
    BY <1>4, <2>1, <2>3, AtWork DEF TypeOK
  <2>. QED
    BY <1>4, <2>2, <2>3 DEF Load
<1>5. CASE Save(h)
  <2>1. At(h, "save") /\ Ends(h)
    BY <1>5 DEF Save
  <2>. QED
    BY <1>5, <2>1, AtWork, ThreadEnds DEF Idle
<1>. QED
  BY <1>1, <1>2, <1>3, <1>4, <1>5 DEF Serve

\* Everything else leaves the threads as they are, or starts one, or ends those
\* of a process; their history is left alone, the killed ones excepted.
LEMMA Others ==
  ASSUME TypeOK, [Next]_vars, ~ \E h \in Handlers : Serve(h)
  PROVE  /\ UNCHANGED <<ring, outcomes, pushed, answers>>
         /\ \/ handler' = handler /\ cut' = cut
            \/ \E p \in Procs : Exit(p)
            \/ \E h \in Handlers, e \in Envelopes, p \in Procs : Deliver(h, e, p)
         /\ \A e \in Envelopes : about[e] # None => about'[e] = about[e]
         /\ \A e \in Envelopes : e \in fresh' \ fresh => about[e] = None /\ handler' = handler
<1> USE DEF session, device, ledger
<1>1. CASE UNCHANGED vars
  BY <1>1 DEF vars
<1>2. ASSUME NEW p \in Procs, Start(p) \/ Look(p) \/ Close(p) \/ \E d \in Decisions : Ask(p, d) \/ AnswerHere(p, d)
      PROVE  UNCHANGED <<device, ledger, handler, answers, cut>>
  BY <1>2 DEF Start, Look, Close, Ask, AnswerHere
<1>3. ASSUME NEW p \in Procs, Exit(p)
      PROVE  UNCHANGED <<device, ledger, answers>>
  BY <1>3 DEF Exit
<1>4. ASSUME NEW e \in Envelopes, Age(e) \/ \E d \in Decisions : Sign(e, d)
      PROVE  /\ UNCHANGED <<ledger, handler, answers, cut>>
             /\ \A f \in Envelopes : about[f] # None => about'[f] = about[f]
             /\ \A f \in Envelopes : f \in fresh' \ fresh => about[f] = None
  BY <1>4 DEF Age, Sign, TypeOK
<1>5. CASE Revoke
  BY <1>5 DEF Revoke
<1>6. ASSUME NEW h \in Handlers, NEW e \in Envelopes, NEW p \in Procs, Deliver(h, e, p)
      PROVE  UNCHANGED <<device, ledger, answers, cut>>
  BY <1>6 DEF Deliver
<1>. QED
  BY <1>1, <1>2, <1>3, <1>4, <1>5, <1>6 DEF Next

\* Exit ends the threads of its process.
LEMMA Killed ==
  ASSUME TypeOK, NEW p \in Procs, Exit(p), NEW h \in Handlers
  PROVE  \/ handler'[h] = handler[h]
         \/ handler'[h] = Idle /\ (handler[h] # Idle => handler[h].e \in cut')
BY DEF Exit

-----------------------------------------------------------------------------
(* A nonce that is spent has an outcome *)

\* For any listeners and threads, whatever is delivered again, killed or closed:
\* the ring holds no nonce whose fate neither is recorded nor still can be.
THEOREM EverySpentNonceIsAccountedFor == Spec => []OutcomeRecorded
<1> DEFINE Busy(e) == \E h \in Handlers : handler[h].st \in {"submit", "record"} /\ handler[h].e = e
<1>1. Init => OutcomeRecorded
  BY DEF Init, OutcomeRecorded, Range
<1>2. TypeOK /\ TypeOK' /\ OutcomeRecorded /\ [Next]_vars => OutcomeRecorded'
  <2> SUFFICES ASSUME TypeOK, TypeOK', OutcomeRecorded, [Next]_vars, NEW e \in Range(ring')
               PROVE  e \in outcomes' \cup cut' \/ Busy(e)'
    BY DEF OutcomeRecorded
  <2>1. CASE ~ \E h \in Handlers : Serve(h)
    <3>1. e \in Range(ring) /\ outcomes' = outcomes
      BY <2>1, Others
    <3>2. e \in outcomes \cup cut \/ Busy(e)
      BY <3>1 DEF OutcomeRecorded
    <3>3. CASE handler' = handler /\ cut' = cut
      BY <3>1, <3>2, <3>3
    <3>4. ASSUME NEW p \in Procs, Exit(p) PROVE e \in outcomes' \cup cut' \/ Busy(e)'
      <4>1. cut \subseteq cut'
        BY <3>4 DEF Exit
      <4>2. CASE Busy(e)
        <5>1. PICK h \in Handlers : handler[h].st \in {"submit", "record"} /\ handler[h].e = e
          BY <4>2
        <5>. QED
          BY <3>4, <5>1, Killed DEF Idle
      <4>. QED
        BY <3>1, <3>2, <4>1, <4>2
    <3>5. ASSUME NEW h \in Handlers, NEW f \in Envelopes, NEW p \in Procs, Deliver(h, f, p)
          PROVE  e \in outcomes' \cup cut' \/ Busy(e)'
      <4>1. handler[h] = Idle /\ cut' = cut /\ \A g \in Handlers : g # h => handler'[g] = handler[g]
        BY <3>5 DEF Deliver, TypeOK
      <4>. QED
        BY <3>1, <3>2, <4>1 DEF Idle
    <3>. QED
      BY <2>1, <3>3, <3>4, <3>5, Others
  <2>2. ASSUME NEW h \in Handlers, Serve(h)
        PROVE  e \in outcomes' \cup cut' \/ Busy(e)'
    <3>1. cut' = cut /\ outcomes \subseteq outcomes'
      BY <2>2 DEF Serve, Reserve, Submit, Record, Load, Save, ledger
    <3>2. \A g \in Handlers : g # h => handler'[g] = handler[g]
      BY <2>2, Moves
    <3>3. CASE Reserve(h) /\ At(h, "reserve") /\ handler'[h].st \in {"idle", "submit"}
                 /\ (handler'[h].st = "submit" => handler'[h].e = handler[h].e)
      <4>1. handler[h].st = "reserve" /\ handler[h].e \in Envelopes
        BY <3>3, ThreadKnows, AtWork DEF At
      <4>2. CASE e \in Range(ring)
        BY <3>1, <3>2, <4>1, <4>2 DEF OutcomeRecorded
      <4>3. CASE e \notin Range(ring)
        <5>1. handler[h].e \notin Range(ring) /\ ring' = Put(ring, handler[h].e) /\ Goes(h, "submit")
          BY <3>3, <4>3 DEF Reserve
        <5>2. Range(ring') \subseteq Range(ring) \cup {handler[h].e}
          BY <4>1, <5>1, RingKeeps DEF TypeOK
        <5>3. handler'[h].st = "submit"
          BY <5>1 DEF Goes, TypeOK
        <5>. QED
          BY <3>3, <4>3, <5>2, <5>3
      <4>. QED
        BY <4>2, <4>3
    <3>4. CASE Submit(h) /\ At(h, "submit") /\ handler'[h].st = "record" /\ handler'[h].e = handler[h].e
      <4>1. e \in Range(ring)
        BY <3>4 DEF Submit, ledger
      <4>2. e \in outcomes \cup cut \/ Busy(e)
        BY <4>1 DEF OutcomeRecorded
      <4>. QED
        BY <3>1, <3>2, <3>4, <4>2
    <3>5. CASE Record(h) /\ At(h, "record")
      <4>1. e \in Range(ring) /\ handler[h].e \in outcomes'
        BY <3>5 DEF Record
      <4>2. e \in outcomes \cup cut \/ Busy(e)
        BY <4>1 DEF OutcomeRecorded
      <4>. QED
        BY <3>1, <3>2, <4>1, <4>2
    <3>6. CASE (Load(h) /\ At(h, "load")) \/ (Save(h) /\ At(h, "save"))
      <4>1. e \in Range(ring) /\ handler[h].st \notin {"submit", "record"}
        BY <3>6 DEF Load, Save, ledger, At
      <4>2. e \in outcomes \cup cut \/ Busy(e)
        BY <4>1 DEF OutcomeRecorded
      <4>. QED
        BY <3>1, <3>2, <4>1, <4>2
    <3>. QED
      BY <2>2, <3>3, <3>4, <3>5, <3>6, Moves
  <2>. QED
    BY <2>1, <2>2
<1>. QED
  BY <1>1, <1>2, TypeCorrect, PTL DEF Spec

-----------------------------------------------------------------------------
(* An envelope answers once *)

\* The inductive invariant.  Of an envelope the ring has not forgotten too early
\* at most one thread is about to submit the reply, and none once it was
\* submitted; and from then on either the ring has the nonce, or the envelope is
\* too old to pass and no thread has verified it while it was not.
SpentOnce ==
  /\ \A e \in Envelopes : about[e] = None => answers[e] = 0
  /\ \A e \in Envelopes \ pushed :
       /\ answers[e] > 0 \/ (\E h \in Handlers : With(h, "submit", e)) =>
            e \in Range(ring) \/ (e \notin fresh /\ \A g \in Handlers : ~With(g, "reserve", e))
       /\ \A h \in Handlers : With(h, "submit", e) =>
            answers[e] = 0 /\ \A g \in Handlers : With(g, "submit", e) => g = h
       /\ answers[e] <= 1

\* The part of the invariant that is about one envelope.
Once(e) ==
  /\ answers[e] > 0 \/ (\E h \in Handlers : With(h, "submit", e)) =>
       e \in Range(ring) \/ (e \notin fresh /\ \A g \in Handlers : ~With(g, "reserve", e))
  /\ \A h \in Handlers : With(h, "submit", e) =>
       answers[e] = 0 /\ \A g \in Handlers : With(g, "submit", e) => g = h
  /\ answers[e] <= 1

\* Threads that only end, and nonces and answers that stay, disturb nothing.
LEMMA OnceStays ==
  ASSUME TypeOK, NEW e \in Envelopes, Once(e), answers'[e] = answers[e],
         e \in Range(ring) => e \in Range(ring'), e \in fresh' => e \in fresh,
         \A h \in Handlers : (With(h, "submit", e)' => With(h, "submit", e))
                          /\ (With(h, "reserve", e)' => With(h, "reserve", e))
  PROVE  Once(e)'
BY DEF Once

\* A step that is none of the threads'.
LEMMA OnceOthers ==
  ASSUME TypeOK, SpentOnce, [Next]_vars, ~ \E h \in Handlers : Serve(h),
         NEW e \in Envelopes, e \notin pushed
  PROVE  Once(e)'
<1>1. Once(e) /\ UNCHANGED <<ring, pushed, answers>>
  BY Others DEF SpentOnce, Once
<1>2. CASE handler' = handler
  <2>1. CASE e \in fresh' => e \in fresh
    BY <1>1, <1>2, <2>1, OnceStays DEF With, At
  <2>2. CASE about[e] = None
    <3>1. answers'[e] = 0 /\ \A h \in Handlers : handler'[h] = Idle \/ handler'[h].e # e
      BY <1>1, <1>2, <2>2 DEF SpentOnce, TypeOK
    <3>. QED
      BY <3>1 DEF Once, With, At, Idle
  <2>. QED
    BY <2>1, <2>2, Others
<1>3. ASSUME NEW p \in Procs, Exit(p) PROVE Once(e)'
  <2>1. \A h \in Handlers : handler'[h] = handler[h] \/ handler'[h] = Idle
    BY <1>3, Killed
  <2>2. fresh' = fresh
    BY <1>3 DEF Exit, device
  <2>. QED
    BY <1>1, <2>1, <2>2, OnceStays DEF With, At, Idle
<1>4. ASSUME NEW h \in Handlers, NEW f \in Envelopes, NEW p \in Procs, Deliver(h, f, p) PROVE Once(e)'
  <2>1. /\ handler' = [handler EXCEPT ![h] = [st |-> "reserve", e |-> f, p |-> p]]
        /\ f \in fresh /\ f \notin Range(ring) /\ fresh' = fresh
    BY <1>4 DEF Deliver, Passes, device
  <2>2. \A g \in Handlers : With(g, "submit", e)' => With(g, "submit", e)
    BY <2>1 DEF With, At, TypeOK
  <2>3. CASE f # e
    <3>1. \A g \in Handlers : With(g, "reserve", e)' => With(g, "reserve", e)
      BY <2>1, <2>3 DEF With, At, TypeOK
    <3>. QED
      BY <1>1, <2>1, <2>2, <3>1, OnceStays
  <2>4. CASE f = e
    BY <1>1, <2>1, <2>2, <2>4 DEF Once, TypeOK
  <2>. QED
    BY <2>3, <2>4
<1>. QED
  BY <1>2, <1>3, <1>4, Others

\* A step of a thread.
LEMMA OnceServe ==
  ASSUME TypeOK, SpentOnce, NEW h \in Handlers, Serve(h),
         NEW e \in Envelopes, e \notin pushed'
  PROVE  Once(e)'
<1> DEFINE mine == handler[h].e
<1>1. /\ \A g \in Handlers : g # h => handler'[g] = handler[g]
      /\ fresh' = fresh /\ mine \in Envelopes
  BY Moves, ThreadKnows DEF Serve, Reserve, Submit, Record, Load, Save, device
<1>2. CASE Reserve(h) /\ At(h, "reserve") /\ handler'[h].st \in {"idle", "submit"}
             /\ (handler'[h].st = "submit" => handler'[h].e = mine)
  <2>1. e \notin pushed /\ answers' = answers
    BY <1>2 DEF Reserve
  <2>2. Once(e)
    BY <2>1 DEF SpentOnce, Once
  <2>3. \A g \in Handlers : With(g, "reserve", e)' => With(g, "reserve", e)
    BY <1>1, <1>2 DEF With, At
  <2>4. CASE mine \in Range(ring)
    <3>1. ring' = ring /\ handler'[h] = Idle
      BY <1>2, <2>4, ThreadEnds DEF Reserve
    <3>2. \A g \in Handlers : With(g, "submit", e)' => With(g, "submit", e)
      BY <1>1, <3>1 DEF With, At, Idle
    <3>. QED
      BY <1>1, <2>1, <2>2, <2>3, <3>1, <3>2, OnceStays
  <2>5. CASE mine \notin Range(ring)
    <3>1. /\ ring' = Put(ring, mine) /\ mine \in Range(ring')
          /\ pushed' = pushed \cup {f \in Range(ring) \ Range(ring') :
                                      f \in fresh \/ \E g \in Handlers : At(g, "reserve") /\ handler[g].e = f}
      <4>1. ring' = Put(ring, mine)
        BY <1>2, <2>5 DEF Reserve
      <4>2. mine \in Range(Put(ring, mine))
        BY <1>1, <2>5, RingKeeps DEF TypeOK
      <4>. QED
        BY <1>2, <2>5, <4>1, <4>2 DEF Reserve
    <3>2. CASE mine = e
      <4>1. With(h, "reserve", e)
        BY <1>2, <3>2 DEF With
      <4>2. answers[e] = 0 /\ \A g \in Handlers : ~With(g, "submit", e)
        BY <2>2, <2>5, <3>2, <4>1 DEF Once, TypeOK
      <4>3. \A g \in Handlers : With(g, "submit", e)' => g = h
        BY <1>1, <4>2 DEF With, At
      <4>. QED
        BY <2>1, <3>1, <3>2, <4>2, <4>3 DEF Once
    <3>3. CASE mine # e
      <4>1. \A g \in Handlers : With(g, "submit", e)' => With(g, "submit", e)
        BY <1>1, <1>2, <3>3 DEF With, At
      <4>2. CASE e \in Range(ring) => e \in Range(ring')
        BY <1>1, <2>1, <2>2, <2>3, <4>1, <4>2, OnceStays
      <4>3. CASE e \in Range(ring) \ Range(ring')
        <5>1. e \notin fresh' /\ \A g \in Handlers : ~With(g, "reserve", e)'
          BY <1>1, <2>3, <3>1, <4>3 DEF With
        <5>. QED
          BY <2>1, <2>2, <4>1, <5>1 DEF Once
      <4>. QED
        BY <4>2, <4>3
    <3>. QED
      BY <3>2, <3>3
  <2>. QED
    BY <2>4, <2>5
<1>3. CASE Submit(h) /\ At(h, "submit") /\ handler'[h].st = "record"
  <2>1. e \notin pushed /\ ring' = ring
    BY <1>3 DEF Submit, ledger
  <2>2. Once(e)
    BY <2>1 DEF SpentOnce, Once
  <2>3. \A g \in Handlers : /\ With(g, "reserve", e)' => With(g, "reserve", e)
                            /\ With(g, "submit", e)' => With(g, "submit", e) /\ g # h
    BY <1>1, <1>3 DEF With, At
  <2>4. CASE mine # e \/ ~Accepts(h)
    <3>1. answers'[e] = answers[e]
      BY <1>1, <1>3, <2>4 DEF Submit, TypeOK
    <3>. QED
      BY <1>1, <2>1, <2>2, <2>3, <3>1, OnceStays
  <2>5. CASE mine = e /\ Accepts(h)
    <3>1. With(h, "submit", e)
      BY <1>3, <2>5 DEF With
    <3>2. answers[e] = 0 /\ \A g \in Handlers : ~With(g, "submit", e)'
      BY <2>2, <2>3, <3>1 DEF Once
    <3>3. answers'[e] = 1
      BY <1>3, <2>5, <3>2 DEF Submit, TypeOK
    <3>4. e \in Range(ring') \/ (e \notin fresh' /\ \A g \in Handlers : ~With(g, "reserve", e)')
      BY <1>1, <2>1, <2>2, <2>3, <3>1 DEF Once
    <3>. QED
      BY <3>2, <3>3, <3>4 DEF Once
  <2>. QED
    BY <2>4, <2>5
<1>4. CASE \/ Record(h) /\ At(h, "record") /\ handler'[h].st \in {"idle", "load"}
           \/ Load(h) /\ At(h, "load") /\ handler'[h].st \in {"idle", "save"}
           \/ Save(h) /\ At(h, "save") /\ handler'[h].st = "idle"
  <2>1. e \notin pushed /\ ring' = ring /\ answers' = answers
    BY <1>4 DEF Record, Load, Save, ledger
  <2>2. Once(e)
    BY <2>1 DEF SpentOnce, Once
  <2>3. \A g \in Handlers : /\ With(g, "reserve", e)' => With(g, "reserve", e)
                            /\ With(g, "submit", e)' => With(g, "submit", e)
    BY <1>1, <1>4 DEF With, At
  <2>. QED
    BY <1>1, <2>1, <2>2, <2>3, OnceStays
<1>. QED
  BY <1>2, <1>3, <1>4, Moves

\* For any number of deliveries, listeners and threads, and a ring of any size:
\* no envelope answers twice, unless the ring forgot its nonce while it could
\* still pass.
THEOREM AnEnvelopeAnswersOnce == Spec => []EnvelopeOnce
<1>1. Init => SpentOnce
  BY DEF Init, SpentOnce, With, At, Idle
<1>2. TypeOK /\ TypeOK' /\ SpentOnce /\ [Next]_vars => SpentOnce'
  <2> SUFFICES ASSUME TypeOK, TypeOK', SpentOnce, [Next]_vars PROVE SpentOnce'
    OBVIOUS
  <2>1. CASE ~ \E h \in Handlers : Serve(h)
    <3>1. \A e \in Envelopes : about'[e] = None => answers'[e] = 0
      BY <2>1, Others DEF SpentOnce
    <3>2. \A e \in Envelopes \ pushed' : Once(e)'
      BY <2>1, OnceOthers, Others
    <3>. QED
      BY <3>1, <3>2 DEF SpentOnce, Once
  <2>2. ASSUME NEW h \in Handlers, Serve(h) PROVE SpentOnce'
    <3>1. \A e \in Envelopes : about'[e] = None => answers'[e] = 0
      <4>1. about' = about /\ handler[h] # Idle /\ about[handler[h].e] # None
        BY <2>2, Moves DEF Serve, Reserve, Submit, Record, Load, Save, device, TypeOK
      <4>2. \A e \in Envelopes : e # handler[h].e => answers'[e] = answers[e]
        BY <2>2 DEF Serve, Reserve, Submit, Record, Load, Save, TypeOK
      <4>. QED
        BY <4>1, <4>2 DEF SpentOnce
    <3>2. \A e \in Envelopes \ pushed' : Once(e)'
      BY <2>2, OnceServe
    <3>. QED
      BY <3>1, <3>2 DEF SpentOnce, Once
  <2>. QED
    BY <2>1, <2>2
<1>3. SpentOnce => EnvelopeOnce
  BY DEF SpentOnce, EnvelopeOnce
<1>. QED
  BY <1>1, <1>2, <1>3, TypeCorrect, PTL DEF Spec

-----------------------------------------------------------------------------
(* No question disappears unanswered *)

Settled(d) == d \in looked \/ \E e \in Envelopes : about[e] = d /\ answers[e] > 0

\* The inductive invariant.  A thread that has gone past the submission with
\* success has answered; and the copy of attention.json a thread holds shows as
\* acknowledged only what was looked at or answered when it was read.
Answering ==
  /\ \A h \in Handlers : (At(h, "record") /\ handler[h].ok) \/ At(h, "load") \/ At(h, "save")
       => answers[handler[h].e] > 0
  /\ \A h \in Handlers : At(h, "save") =>
       \A d \in Decisions : handler[h].read.row[d] = "acked" => Settled(d)
  /\ \A d \in Decisions : store.row[d] = "acked" => Settled(d)

\* A thread takes no answer back.
LEMMA AnswersStand ==
  ASSUME TypeOK, NEW h \in Handlers, Serve(h), NEW e \in Envelopes
  PROVE  answers'[e] \in Nat /\ answers[e] \in Nat /\ answers'[e] >= answers[e]
<1>1. CASE UNCHANGED answers
  BY <1>1 DEF TypeOK
<1>2. CASE answers' = [answers EXCEPT ![handler[h].e] = @ + 1]
  BY <1>2 DEF TypeOK
<1>. QED
  BY <1>1, <1>2 DEF Serve, Reserve, Submit, Record, Load, Save

\* What is settled stays settled: nothing takes back a look or an answer.
LEMMA SettledStays ==
  ASSUME TypeOK, [Next]_vars, NEW d \in Decisions, Settled(d)
  PROVE  Settled(d)'
<1>1. looked \subseteq looked'
  BY DEF Next, vars, session, Start, Look, Close, Exit, Ask, AnswerHere, LookedAt, Age, Sign, Revoke,
         Serve, Reserve, Submit, Record, Load, Save, Deliver
<1>2. \A e \in Envelopes : answers'[e] >= answers[e]
  <2>1. CASE ~ \E h \in Handlers : Serve(h)
    BY <2>1, Others DEF TypeOK
  <2>. QED
    BY <2>1, AnswersStand
<1>3. \A e \in Envelopes : about[e] = d => about'[e] = d
  <2>1. d # None
    BY DecisionTypes
  <2>2. CASE ~ \E h \in Handlers : Serve(h)
    BY <2>1, <2>2, Others
  <2>3. ASSUME NEW h \in Handlers, Serve(h) PROVE about' = about
    BY <2>3 DEF Serve, Reserve, Submit, Record, Load, Save, device
  <2>. QED
    BY <2>2, <2>3
<1>4. ASSUME NEW e \in Envelopes, about[e] = d, answers[e] > 0
      PROVE  about'[e] = d /\ answers'[e] > 0
  <2>1. answers[e] \in Nat /\ answers'[e] \in Nat /\ answers'[e] >= answers[e]
    BY <1>2, AnswersStand, Others DEF TypeOK
  <2>. QED
    BY <2>1, <1>3, <1>4
<1>. QED
  BY <1>1, <1>4 DEF Settled

\* Acknowledging at a terminal touches the current event alone.
LEMMA AckedIsLookedAt ==
  ASSUME TypeOK, LookedAt, NEW d \in Decisions, store'.row[d] = "acked"
  PROVE  store.row[d] = "acked" \/ d \in looked'
<1>1. CASE Ackable(store) = NoEvent
  BY <1>1 DEF LookedAt, Acknowledged
<1>2. CASE Ackable(store) # NoEvent
  <2>1. Ackable(store) = store.current /\ looked' = looked \cup {store.current}
    BY <1>2 DEF LookedAt, Ackable
  <2>2. store' = [store EXCEPT !.row[store.current] = "acked"]
    BY <1>2 DEF LookedAt, Acknowledged
  <2>. QED
    BY <2>1, <2>2, DecisionTypes DEF TypeOK, Stores
<1>. QED
  BY <1>1, <1>2

\* A row is acknowledged by whoever looked, or by a thread whose reply has
\* answered; a copy that is written back brings no other acknowledgement with it.
LEMMA RowsSettled ==
  ASSUME TypeOK, Answering, [Next]_vars, NEW d \in Decisions, store'.row[d] = "acked"
  PROVE  Settled(d)'
<1>1. CASE store.row[d] = "acked"
  BY <1>1, SettledStays DEF Answering
<1>2. CASE store.row[d] # "acked"
  <2>1. store' # store
    BY <1>2
  <2>2. ASSUME NEW p \in Procs, Look(p) \/ \E c \in Decisions : AnswerHere(p, c) PROVE Settled(d)'
    BY <1>2, <2>2, AckedIsLookedAt DEF Look, AnswerHere, Settled
  <2>3. ASSUME NEW p \in Procs, NEW c \in Decisions, Ask(p, c) PROVE FALSE
    <3>1. store' = Recorded(store, c)
      BY <2>3 DEF Ask
    <3>. QED
      BY <1>2, <3>1, DecisionTypes DEF Recorded, TypeOK, Stores
  <2>4. ASSUME NEW h \in Handlers, Save(h) PROVE Settled(d)'
    <3> DEFINE c == about[handler[h].e]
               r == handler[h].read
    <3>1. /\ At(h, "save") /\ handler[h] # Idle /\ r \in Stores /\ c \in Decisions
          /\ handler[h].e \in Envelopes
      BY <2>4, ThreadKnows, AtWork DEF Save
    <3>2. store'.row = [r.row EXCEPT ![c] = "acked"]
      BY <2>1, <2>4 DEF Save
    <3>3. d = c \/ r.row[d] = "acked"
      BY <3>1, <3>2, DecisionTypes DEF Stores
    <3>4. Settled(d)
      BY <3>1, <3>3 DEF Answering, Settled
    <3>. QED
      BY <3>4, SettledStays
  <2>. QED
    BY <2>1, <2>2, <2>3, <2>4 DEF Next, vars, session, Start, Close, Exit, Age, Sign, Revoke,
       Serve, Reserve, Submit, Record, Load, Deliver
<1>. QED
  BY <1>1, <1>2

\* For any processes, threads and copies held of the file, whatever is delivered
\* or killed: a notification is acknowledged only after the user looked, or after
\* a reply to it answered a question.
THEOREM NoQuestionDisappears == Spec => []NothingDisappears
<1>1. Init => Answering
  BY DecisionTypes DEF Init, Answering, At, Idle, Empty
<1>2. TypeOK /\ TypeOK' /\ Answering /\ [Next]_vars => Answering'
  <2> SUFFICES ASSUME TypeOK, TypeOK', Answering, [Next]_vars PROVE Answering'
    OBVIOUS
  <2>1. ASSUME NEW g \in Handlers
        PROVE  /\ (At(g, "record") /\ handler[g].ok)' \/ At(g, "load")' \/ At(g, "save")'
                    => answers'[handler'[g].e] > 0
               /\ At(g, "save")' =>
                    \A d \in Decisions : handler'[g].read.row[d] = "acked" => Settled(d)'
    <3>1. CASE handler'[g] = handler[g]
      <4>1. CASE ~ \E h \in Handlers : Serve(h)
        BY <3>1, <4>1, SettledStays, Others DEF Answering, At
      <4>2. ASSUME NEW h \in Handlers, Serve(h), handler[g] # Idle
            PROVE  answers[handler[g].e] > 0 => answers'[handler[g].e] > 0
        BY <4>2, ThreadKnows, AnswersStand
      <4>3. At(g, "save") => \A d \in Decisions : handler[g].read.row[d] = "acked" => Settled(d)'
        BY SettledStays DEF Answering
      <4>4. handler[g] = Idle => ~At(g, "record") /\ ~At(g, "load") /\ ~At(g, "save")
        BY DEF At, Idle
      <4>. QED
        BY <3>1, <4>1, <4>2, <4>3, <4>4 DEF Answering, At
    <3>2. CASE handler'[g] # handler[g] /\ ~ \E h \in Handlers : Serve(h)
      <4>1. ASSUME NEW p \in Procs, Exit(p) PROVE handler'[g] = Idle
        BY <3>2, <4>1, Killed
      <4>2. ASSUME NEW h \in Handlers, NEW e \in Envelopes, NEW p \in Procs, Deliver(h, e, p)
            PROVE  handler'[g].st = "reserve"
        BY <3>2, <4>2 DEF Deliver, TypeOK
      <4>. QED
        BY <3>2, <4>1, <4>2, Others DEF At, Idle
    <3>3. CASE handler'[g] # handler[g] /\ Serve(g)
      <4>1. CASE Submit(g) /\ handler'[g].st = "record" /\ handler'[g].e = handler[g].e
                   /\ handler'[g].ok = Accepts(g)
        <5>1. handler[g].e \in Envelopes
          BY <3>3, Moves, ThreadKnows
        <5>2. Accepts(g) => answers'[handler[g].e] > 0
          BY <4>1, <5>1 DEF Submit, TypeOK
        <5>. QED
          BY <4>1, <5>2 DEF At
      <4>2. CASE Record(g) /\ At(g, "record") /\ handler'[g].st \in {"idle", "load"}
                   /\ (handler'[g].st = "load" => handler'[g].e = handler[g].e /\ handler[g].ok)
        <5>1. answers' = answers
          BY <4>2 DEF Record
        <5>. QED
          BY <4>2, <5>1 DEF Answering, At
      <4>3. CASE Load(g) /\ At(g, "load") /\ handler'[g].st \in {"idle", "save"}
                   /\ (handler'[g].st = "save" => handler'[g].e = handler[g].e /\ handler'[g].read = store)
        <5>1. answers' = answers
          BY <4>3 DEF Load
        <5>. QED
          BY <4>3, <5>1, SettledStays DEF Answering, At
      <4>. QED
        BY <3>3, <4>1, <4>2, <4>3, Moves DEF At
    <3>4. ASSUME NEW h \in Handlers, Serve(h), h # g PROVE handler'[g] = handler[g]
      BY <3>4, Moves
    <3>. QED
      BY <3>1, <3>2, <3>3, <3>4
  <2>2. \A d \in Decisions : store'.row[d] = "acked" => Settled(d)'
    BY RowsSettled
  <2>. QED
    BY <2>1, <2>2 DEF Answering
<1>3. Answering => NothingDisappears
  BY DEF Answering, NothingDisappears, Settled
<1>. QED
  BY <1>1, <1>2, <1>3, TypeCorrect, PTL DEF Spec

-----------------------------------------------------------------------------
(* NeedsYou: lemmas about the queue *)

\* A sequence whose elements are replaced one by one stays one of that length.
LEMMA Mapped ==
  ASSUME NEW S, NEW q \in Seq(S), NEW f, f = [i \in DOMAIN q |-> f[i]],
         \A i \in DOMAIN q : f[i] \in S
  PROVE  f \in Seq(S) /\ DOMAIN f = DOMAIN q
<1>1. Len(q) \in Nat /\ DOMAIN q = 1 .. Len(q)
  BY LenProperties
<1>2. f \in [1 .. Len(q) -> S]
  BY <1>1, Zenon
<1>3. f \in Seq(S)
  BY <1>1, <1>2, SeqDef
<1>. QED
  BY <1>1, <1>3

\* What is open of a queue is finite, and grows by one at most.
LEMMA OpenItems ==
  ASSUME NEW q \in Seq(Items)
  PROVE  /\ IsFiniteSet(Active(q)) /\ Cardinality(Active(q)) \in Nat
         /\ \A r : Active(r) \subseteq Active(q) => Cardinality(Active(r)) <= Cardinality(Active(q))
         /\ \A r, x : Active(r) \subseteq Active(q) \cup {x} => Cardinality(Active(r)) <= Cardinality(Active(q)) + 1
<1>1. Active(q) \subseteq 1 .. Len(q) /\ Len(q) \in Nat
  BY LenProperties DEF Active
<1>2. IsFiniteSet(Active(q))
  <2>1. IsFiniteSet(1 .. Len(q)) /\ Active(q) \in SUBSET (1 .. Len(q))
    BY <1>1, FS_Interval
  <2>. QED
    BY <2>1, FS_Subset
<1>3. Cardinality(Active(q)) \in Nat
  BY <1>2, FS_CardinalityType
<1>4. ASSUME NEW r, Active(r) \subseteq Active(q)
      PROVE  Cardinality(Active(r)) <= Cardinality(Active(q))
  <2>1. Active(r) \in SUBSET Active(q)
    BY <1>4
  <2>. QED
    BY <1>2, <2>1, FS_Subset
<1>5. ASSUME NEW r, NEW x, Active(r) \subseteq Active(q) \cup {x}
      PROVE  Cardinality(Active(r)) <= Cardinality(Active(q)) + 1
  <2>5. /\ IsFiniteSet(Active(q) \cup {x})
        /\ Cardinality(Active(q) \cup {x})
             = IF x \in Active(q) THEN Cardinality(Active(q)) ELSE Cardinality(Active(q)) + 1
    BY <1>2, FS_AddElement
  <2>1. /\ IsFiniteSet(Active(q) \cup {x})
        /\ Cardinality(Active(q) \cup {x}) <= Cardinality(Active(q)) + 1
    BY <1>3, <2>5
  <2>2. Active(r) \in SUBSET (Active(q) \cup {x})
    BY <1>5
  <2>3. IsFiniteSet(Active(r)) /\ Cardinality(Active(r)) <= Cardinality(Active(q) \cup {x})
    BY <2>1, <2>2, FS_Subset
  <2>4. Cardinality(Active(r)) \in Nat /\ Cardinality(Active(q) \cup {x}) \in Nat
    BY <2>1, <2>3, FS_CardinalityType
  <2>. QED
    BY <2>1, <2>3, <2>4, <1>3
<1>. QED
  BY <1>2, <1>3, <1>4, <1>5

\* The queue r has the items of q, in their places and of the same calls, and no
\* more open than the limit allows.
Grows(q, r) ==
  /\ r \in Seq(Items) /\ DOMAIN q \subseteq DOMAIN r
  /\ \A i \in DOMAIN q : r[i].call = q[i].call
  /\ Cardinality(Active(r)) <= Limit

\* defer: one pending item more.
LEMMA ParkedDoes ==
  ASSUME NeedsYouTypeOK, NEW c \in Calls
  PROVE  /\ Room(items) => Grows(items, Parked(c))
         /\ DOMAIN Parked(c) = DOMAIN items \cup {Len(items) + 1}
         /\ \A i \in DOMAIN items : Parked(c)[i] = items[i]
         /\ Parked(c)[Len(items) + 1] = [call |-> c, st |-> "pending", told |-> 0]
         /\ Len(items) + 1 \notin DOMAIN items
<1> DEFINE x == [call |-> c, st |-> "pending", told |-> 0]
           r == Parked(c)
           n == Len(items)
<1>1. items \in Seq(Items) /\ x \in Items /\ n \in Nat /\ DOMAIN items = 1 .. n
  BY LenProperties DEF NeedsYouTypeOK, Items
<1>2. /\ r \in Seq(Items) /\ Len(r) = n + 1 /\ r[n + 1] = x
      /\ \A i \in 1 .. n : r[i] = items[i]
  BY <1>1, AppendProperties DEF Parked
<1>3. DOMAIN r = DOMAIN items \cup {n + 1} /\ n + 1 \notin DOMAIN items
  BY <1>1, <1>2, LenProperties
<1>4. Active(r) \subseteq Active(items) \cup {n + 1}
  BY <1>1, <1>2, <1>3 DEF Active
<1>5. Room(items) => Cardinality(Active(r)) <= Limit
  <2>1. /\ Cardinality(Active(items)) \in Nat
        /\ Cardinality(Active(r)) <= Cardinality(Active(items)) + 1
    BY <1>1, <1>4, OpenItems
  <2>2. IsFiniteSet(Active(r)) /\ Cardinality(Active(r)) \in Nat /\ Limit \in Nat
    BY <1>2, OpenItems, NeedsYouAssumption
  <2>. QED
    BY <2>1, <2>2 DEF Room
<1>. QED
  BY <1>1, <1>2, <1>3, <1>5 DEF Grows

\* Statuses that move on leave no more open than there was.
LEMMA MovesOn ==
  ASSUME NeedsYouTypeOK, NEW r, r = [i \in DOMAIN items |-> r[i]],
         \A i \in DOMAIN items : /\ r[i] \in Items /\ r[i].call = items[i].call
                                 /\ r[i].st \in {"pending", "answered"} => items[i].st \in {"pending", "answered"}
  PROVE  Grows(items, r) /\ DOMAIN r = DOMAIN items
<1>1. r \in Seq(Items) /\ DOMAIN r = DOMAIN items
  BY Mapped DEF NeedsYouTypeOK
<1>2. Active(r) \subseteq Active(items)
  BY <1>1 DEF Active
<1>3. Cardinality(Active(r)) <= Limit
  <2>1. /\ Cardinality(Active(r)) <= Cardinality(Active(items)) /\ Cardinality(Active(items)) \in Nat
        /\ Cardinality(Active(items)) <= Limit
    BY <1>2, OpenItems DEF NeedsYouTypeOK
  <2>2. Cardinality(Active(r)) \in Nat /\ Limit \in Nat
    BY <1>1, OpenItems, NeedsYouAssumption
  <2>. QED
    BY <2>1, <2>2
<1>. QED
  BY <1>1, <1>3 DEF Grows

\* consume, and what the model is told of it.
LEMMA ConsumedDoes ==
  ASSUME NeedsYouTypeOK, NEW S, NEW T,
         NEW r, r = Told(Consumed(S), T)
  PROVE  /\ Grows(items, r) /\ DOMAIN r = DOMAIN items
         /\ \A i \in DOMAIN items :
              /\ r[i].st = IF i \in S /\ items[i].st = "answered" THEN "consumed" ELSE items[i].st
              /\ r[i].told = IF i \in T THEN items[i].told + 1 ELSE items[i].told
<1> DEFINE q == Consumed(S)
<1>1. \A i \in DOMAIN items : items[i] \in Items
  BY LenProperties, ElementOfSeq DEF NeedsYouTypeOK
<1>2. q = [i \in DOMAIN items |-> q[i]] /\ DOMAIN q = DOMAIN items
  BY DEF Consumed
<1>3. \A i \in DOMAIN items :
        q[i] = IF i \in S /\ items[i].st = "answered" THEN [items[i] EXCEPT !.st = "consumed"] ELSE items[i]
  BY DEF Consumed
<1>4. \A i \in DOMAIN items :
        /\ q[i] \in Items /\ q[i].call = items[i].call /\ q[i].told = items[i].told
        /\ q[i].st = IF i \in S /\ items[i].st = "answered" THEN "consumed" ELSE items[i].st
  BY <1>1, <1>3 DEF Items
<1>5. r = [i \in DOMAIN items |-> r[i]]
  BY <1>2 DEF Told
<1>6. \A i \in DOMAIN items : r[i] = IF i \in T THEN [q[i] EXCEPT !.told = @ + 1] ELSE q[i]
  BY <1>2 DEF Told
<1> HIDE DEF q
<1>7. \A i \in DOMAIN items :
        /\ r[i] \in Items /\ r[i].call = items[i].call /\ r[i].st = q[i].st
        /\ r[i].told = IF i \in T THEN items[i].told + 1 ELSE items[i].told
  <2> SUFFICES ASSUME NEW i \in DOMAIN items
               PROVE  /\ r[i] \in Items /\ r[i].call = items[i].call /\ r[i].st = q[i].st
                      /\ r[i].told = IF i \in T THEN items[i].told + 1 ELSE items[i].told
    OBVIOUS
  <2>1. q[i] \in Items /\ q[i].call = items[i].call /\ q[i].told = items[i].told
    BY <1>4
  <2>2. \A x \in Items : LET y == [x EXCEPT !.told = @ + 1]
                         IN  y \in Items /\ y.call = x.call /\ y.st = x.st /\ y.told = x.told + 1
    BY DEF Items
  <2>. QED
    BY <1>6, <2>1, <2>2
<1>8. \A i \in DOMAIN items : r[i].st \in {"pending", "answered"} => items[i].st \in {"pending", "answered"}
  BY <1>4, <1>7
<1>9. Grows(items, r) /\ DOMAIN r = DOMAIN items
  BY <1>5, <1>7, <1>8, MovesOn
<1>. QED
  BY <1>4, <1>7, <1>9

\* Statuses that the user or a full queue changes one by one.
LEMMA ItemTypes ==
  ASSUME NeedsYouTypeOK, NEW i \in DOMAIN items
  PROVE  /\ items[i] \in Items
         /\ \A s \in {"answered", "dismissed"} : LET x == [items[i] EXCEPT !.st = s]
              IN x \in Items /\ x.call = items[i].call /\ x.st = s /\ x.told = items[i].told
<1>1. items[i] \in Items
  BY LenProperties, ElementOfSeq DEF NeedsYouTypeOK
<1>. QED
  BY <1>1 DEF Items

-----------------------------------------------------------------------------
(* NeedsYou: lemmas about the calls *)

OwnOf(q, c) == {i \in DOMAIN q : q[i].call = c}

\* What a look at the queue q may make of r, the task of call c.
Looks(q, r, c, n) ==
  /\ n \in Tasks /\ n.heard \cup n.void \subseteq OwnOf(q, c)
  /\ r.heard \subseteq n.heard /\ r.void \subseteq n.void
  /\ \A i \in n.heard : i \in r.heard \/ q[i].st = "answered"
  /\ \A i \in n.void : i \in r.void \/ q[i].st \in {"consumed", "dismissed"}
  /\ n.st = r.st \/ (n.st = "woken" /\ Cardinality(n.heard \cup n.void) = Parts)

LEMMA NotedDoes ==
  ASSUME NEW q \in Seq(Items), NEW r \in Tasks, NEW c \in Calls, r.heard \cup r.void \subseteq OwnOf(q, c)
  PROVE  Looks(q, r, c, Noted(r, c, q))
<1> DEFINE n == Noted(r, c, q)
           news  == {i \in DOMAIN q : q[i].call = c /\ q[i].st # "pending"} \ (r.heard \cup r.void)
           heard == r.heard \cup {i \in news : q[i].st = "answered"}
           void  == r.void \cup {i \in news : q[i].st # "answered"}
<1>1. n = [r EXCEPT !.heard = heard, !.void = void,
                    !.st = IF Cardinality(heard \cup void) = Parts THEN "woken" ELSE @]
  BY DEF Noted
<1>2. DOMAIN q \subseteq Nat /\ \A i \in DOMAIN q : q[i].st \in {"pending", "answered", "consumed", "dismissed"}
  <2>1. DOMAIN q = 1 .. Len(q) /\ Len(q) \in Nat
    BY LenProperties
  <2>2. \A i \in DOMAIN q : q[i] \in Items
    BY <2>1, ElementOfSeq
  <2>. QED
    BY <2>1, <2>2 DEF Items
<1>3. heard \cup void \subseteq OwnOf(q, c) /\ OwnOf(q, c) \subseteq Nat
  BY <1>2 DEF OwnOf
<1>4. \A i \in void : i \in r.void \/ q[i].st \in {"consumed", "dismissed"}
  BY <1>2
<1>5. \A i \in heard : i \in r.heard \/ q[i].st = "answered"
  OBVIOUS
<1>6. r.heard \subseteq heard /\ r.void \subseteq void
  OBVIOUS
<1> HIDE DEF heard, void, n
<1>7. /\ n \in Tasks /\ n.heard = heard /\ n.void = void
      /\ n.st = IF Cardinality(heard \cup void) = Parts THEN "woken" ELSE r.st
  BY <1>1, <1>3 DEF Tasks, Stages
<1>8. Looks(q, r, c, n)
  BY <1>3, <1>4, <1>5, <1>6, <1>7 DEF Looks
<1>. QED
  BY <1>8 DEF n

\* The calls after the listeners were told: those that listen look, the others
\* stay as they are.
LEMMA NotifiedDoes ==
  ASSUME NEW q, NEW d \in Calls, NEW table
  PROVE  /\ Notified(table, q) = [c \in Calls |-> Notified(table, q)[c]]
         /\ \/ table[d].st \in {"listening", "woken"} /\ Notified(table, q)[d] = Noted(table[d], d, q)
            \/ table[d].st \notin {"listening", "woken"} /\ Notified(table, q)[d] = table[d]
BY DEF Notified

\* A table of tasks whose notes are about items of their own.
Tidy(table, q) == /\ table \in [Calls -> Tasks]
                  /\ \A c \in Calls : table[c].heard \cup table[c].void \subseteq OwnOf(q, c)

LEMMA TidyStays ==
  ASSUME NeedsYouTypeOK, NEW q, Grows(items, q)
  PROVE  Tidy(call, q) /\ Tidy(Notified(call, q), q)
<1>1. \A c \in Calls : Own(c) \subseteq OwnOf(q, c)
  BY DEF Own, OwnOf, Grows
<1>2. Tidy(call, q)
  BY <1>1 DEF Tidy, NeedsYouTypeOK
<1>3. ASSUME NEW c \in Calls
      PROVE  /\ Notified(call, q)[c] \in Tasks
             /\ Notified(call, q)[c].heard \cup Notified(call, q)[c].void \subseteq OwnOf(q, c)
  <2>1. call[c] \in Tasks /\ call[c].heard \cup call[c].void \subseteq OwnOf(q, c) /\ q \in Seq(Items)
    BY <1>2 DEF Tidy, Grows
  <2>2. Looks(q, call[c], c, Noted(call[c], c, q))
    BY <2>1, NotedDoes
  <2>3. Notified(call, q)[c] = call[c] \/ Notified(call, q)[c] = Noted(call[c], c, q)
    BY NotifiedDoes
  <2>. QED
    BY <2>1, <2>2, <2>3 DEF Looks
<1>4. Notified(call, q) \in [Calls -> Tasks]
  BY <1>3 DEF Notified
<1>. QED
  BY <1>2, <1>3, <1>4 DEF Tidy

\* Of a task of a tidy table the stage and the posture may change.
LEMMA TidyExcept ==
  ASSUME NEW q, NEW table, Tidy(table, q), NEW c \in Calls, NEW s \in Stages, NEW b \in BOOLEAN
  PROVE  Tidy([table EXCEPT ![c].st = s], q) /\ Tidy([table EXCEPT ![c].st = s, ![c].auto = b], q)
<1>1. /\ [table[c] EXCEPT !.st = s] \in Tasks
      /\ [table[c] EXCEPT !.st = s].heard = table[c].heard /\ [table[c] EXCEPT !.st = s].void = table[c].void
  BY DEF Tidy, Tasks
<1>2. /\ [[table[c] EXCEPT !.st = s] EXCEPT !.auto = b] \in Tasks
      /\ [[table[c] EXCEPT !.st = s] EXCEPT !.auto = b].heard = table[c].heard
      /\ [[table[c] EXCEPT !.st = s] EXCEPT !.auto = b].void = table[c].void
  BY DEF Tidy, Tasks
<1>. QED
  BY <1>1, <1>2 DEF Tidy

-----------------------------------------------------------------------------
(* NeedsYou: type correctness *)

\* What a step does to the queue.
LEMMA QueueSteps ==
  ASSUME NeedsYouTypeOK, [NeedsYouNext]_needsYouVars
  PROVE  Grows(items, items')
<1>1. CASE items' = items
  BY <1>1 DEF Grows, NeedsYouTypeOK
<1>2. ASSUME NEW B \in SUBSET Calls, Boundary(B) PROVE Grows(items, items')
  <2>1. PICK S : items' = Told(Consumed(S), S)
    BY <1>2 DEF Boundary
  <2>. QED
    BY <2>1, ConsumedDoes
<1>3. ASSUME NEW c \in Calls, items' = Parked(c), Room(items) PROVE Grows(items, items')
  BY <1>3, ParkedDoes
<1>4. ASSUME NEW c \in Calls, AskFull(c) PROVE Grows(items, items')
  <2>1. items' = [i \in DOMAIN items |->
                    IF i \in Own(c) /\ items[i].st = "pending" THEN [items[i] EXCEPT !.st = "dismissed"] ELSE items[i]]
    BY <1>4 DEF AskFull
  <2>2. \A i \in DOMAIN items : /\ items'[i] \in Items /\ items'[i].call = items[i].call
                                /\ items'[i].st \in {"pending", "answered"} => items[i].st \in {"pending", "answered"}
    BY <2>1, ItemTypes
  <2>. QED
    BY <2>1, <2>2, MovesOn
<1>5. ASSUME NEW c \in Calls, Return(c) PROVE Grows(items, items')
  BY <1>5, ConsumedDoes DEF Return
<1>6. CASE Interrupt
  <2>1. PICK S : items' = Consumed(S)
    BY <1>6 DEF Interrupt
  <2>2. Told(Consumed(S), {}) = Consumed(S)
    BY DEF Told, Consumed
  <2>. QED
    BY <2>1, <2>2, ConsumedDoes
<1>7. ASSUME NEW j \in DOMAIN items, Answer(j) PROVE Grows(items, items')
  <2>1. items' = [i \in DOMAIN items |-> IF i = j THEN [items[i] EXCEPT !.st = "answered"] ELSE items[i]]
        /\ items[j].st = "pending"
    <3>1. items' = [items EXCEPT ![j].st = "answered"] /\ items[j].st = "pending"
      BY <1>7 DEF Answer
    <3>2. DOMAIN items = 1 .. Len(items) /\ items = [i \in DOMAIN items |-> items[i]]
      BY LenProperties DEF NeedsYouTypeOK
    <3>. QED
      BY <3>1, <3>2
  <2>2. \A i \in DOMAIN items : /\ items'[i] \in Items /\ items'[i].call = items[i].call
                                /\ items'[i].st \in {"pending", "answered"} => items[i].st \in {"pending", "answered"}
    BY <2>1, ItemTypes
  <2>. QED
    BY <2>1, <2>2, MovesOn
<1>8. ASSUME NEW c \in Calls, AskNext(c) PROVE Grows(items, items')
  BY <1>3, <1>8 DEF AskNext
<1>9. ASSUME NEW c \in Calls, Refused(c) PROVE Grows(items, items')
  BY <1>1, <1>3, <1>9 DEF Refused
<1>. QED
  BY <1>1, <1>2, <1>4, <1>5, <1>6, <1>7, <1>8, <1>9
     DEF NeedsYouNext, needsYouVars, Question, BeginAsking, AskDone, FirstLook, Check, Allowed, Tell, SwitchMode, Calls

\* What a step does to the calls.
LEMMA CallSteps ==
  ASSUME NeedsYouTypeOK, [NeedsYouNext]_needsYouVars
  PROVE  Tidy(call', items')
<1> DEFINE N == Notified(call, items')
<1>1. Grows(items, items') /\ Tidy(call, items') /\ Tidy(N, items')
  BY QueueSteps, TidyStays
<1>2. CASE call' = call \/ call' = N
  BY <1>1, <1>2
<1> HIDE DEF N
<1>3. ASSUME NEW c \in Calls, NEW st \in Stages, NEW b \in BOOLEAN,
             \/ call' = [call EXCEPT ![c].st = st]
             \/ call' = [call EXCEPT ![c].st = st, ![c].auto = b]
             \/ call' = [N EXCEPT ![c].st = st]
      PROVE  Tidy(call', items')
  <2>1. CASE call' = [call EXCEPT ![c].st = st]
    BY <1>1, <2>1, TidyExcept
  <2>2. CASE call' = [call EXCEPT ![c].st = st, ![c].auto = b]
    BY <1>1, <2>2, TidyExcept
  <2>3. CASE call' = [N EXCEPT ![c].st = st]
    BY <1>1, <2>3, TidyExcept
  <2>. QED
    BY <1>3, <2>1, <2>2, <2>3
<1>4. ASSUME NEW C \in SUBSET Calls, NEW st \in Stages,
             call' = [c \in Calls |-> IF c \in C THEN [call[c] EXCEPT !.st = st] ELSE call[c]]
      PROVE  Tidy(call', items')
  <2>1. \A c \in Calls : call'[c] \in Tasks /\ call'[c].heard = call[c].heard /\ call'[c].void = call[c].void
    BY <1>1, <1>4 DEF Tidy, Tasks
  <2>. QED
    BY <1>1, <1>4, <2>1 DEF Tidy
<1>5. ASSUME NEW c \in Calls, FirstLook(c) PROVE Tidy(call', items')
  <2>1. /\ call' = [call EXCEPT ![c] = Noted(call[c], c, items')] /\ items' = items
        /\ call[c] \in Tasks /\ call[c].heard \cup call[c].void \subseteq OwnOf(items', c)
        /\ items' \in Seq(Items)
    BY <1>1, <1>5 DEF FirstLook, Tidy, Grows
  <2>2. Looks(items', call[c], c, Noted(call[c], c, items'))
    BY <2>1, NotedDoes
  <2>. QED
    BY <1>1, <2>1, <2>2 DEF Tidy, Looks
<1>6. ASSUME NEW c \in Calls, Return(c) PROVE Tidy(call', items')
  <2>1. call' = [N EXCEPT ![c] = [call[c] EXCEPT !.st = "returned"]]
    BY <1>6 DEF Return, N
  <2>2. [call[c] EXCEPT !.st = "returned"] \in Tasks /\ [call[c] EXCEPT !.st = "returned"].heard = call[c].heard
        /\ [call[c] EXCEPT !.st = "returned"].void = call[c].void
    BY <1>1 DEF Tidy, Tasks, Stages
  <2>. QED
    BY <1>1, <2>1, <2>2 DEF Tidy
<1>7. CASE UNCHANGED needsYouVars
  BY <1>2, <1>7 DEF needsYouVars
<1>8. ASSUME NEW B \in SUBSET Calls, Boundary(B) PROVE Tidy(call', items')
  BY <1>4, <1>8 DEF Boundary, Stages
<1>9. ASSUME NEW c \in Calls, BeginAsking(c) \/ Check(c) \/ Allowed(c) PROVE Tidy(call', items')
  BY <1>3, <1>9 DEF BeginAsking, Check, Allowed, Stages, NeedsYouTypeOK
<1>10. ASSUME NEW c \in Calls, AskNext(c) \/ AskFull(c) \/ AskDone(c) \/ Refused(c) PROVE Tidy(call', items')
  BY <1>2, <1>3, <1>10 DEF AskNext, AskFull, AskDone, Refused, Stages, N
<1>11. CASE Interrupt
  BY <1>4, <1>11 DEF Interrupt, Stages
<1>12. ASSUME (\E i \in DOMAIN items : Answer(i)) \/ Tell \/ SwitchMode PROVE Tidy(call', items')
  BY <1>2, <1>12 DEF Answer, Tell, SwitchMode, N
<1>. QED
  BY <1>5, <1>6, <1>7, <1>8, <1>9, <1>10, <1>11, <1>12 DEF NeedsYouNext, Question, Calls

\* Every variable keeps its type; no more decisions are open than the limit, and
\* a call notes the fate of its own questions only.
THEOREM NeedsYouTypeCorrect == NeedsYouSpec => []NeedsYouTypeOK
<1>1. NeedsYouInit => NeedsYouTypeOK
  <2> SUFFICES ASSUME NeedsYouInit PROVE NeedsYouTypeOK
    OBVIOUS
  <2>1. items = << >> /\ items \in Seq(Items)
    BY DEF NeedsYouInit
  <2>2. Active(items) = {}
    BY <2>1 DEF Active
  <2>3. Cardinality(Active(items)) <= Limit
    BY <2>2, FS_EmptySet, NeedsYouAssumption
  <2>4. call \in [Calls -> Tasks] /\ \A c \in Calls : call[c].heard \cup call[c].void = {}
    BY DEF NeedsYouInit, Tasks, Stages
  <2>5. running \in Calls \cup {NoCall} /\ modes \in 0 .. MaxModes
    BY NeedsYouAssumption DEF NeedsYouInit
  <2>6. telling \in BOOLEAN /\ auto \in BOOLEAN
    BY Zenon DEF NeedsYouInit
  <2>. QED
    BY <2>1, <2>3, <2>4, <2>5, <2>6 DEF NeedsYouTypeOK
<1>2. NeedsYouTypeOK /\ [NeedsYouNext]_needsYouVars => NeedsYouTypeOK'
  <2> SUFFICES ASSUME NeedsYouTypeOK, [NeedsYouNext]_needsYouVars PROVE NeedsYouTypeOK'
    OBVIOUS
  <2>1. items' \in Seq(Items) /\ Cardinality(Active(items)') <= Limit
    BY QueueSteps DEF Grows
  <2>2. call' \in [Calls -> Tasks] /\ \A c \in Calls : call'[c].heard \cup call'[c].void \subseteq Own(c)'
    BY CallSteps DEF Tidy, Own, OwnOf
  <2>3. running' \in Calls \cup {NoCall} /\ telling' \in BOOLEAN /\ auto' \in BOOLEAN /\ modes' \in 0 .. MaxModes
    <3>1. /\ running \in Calls \cup {NoCall} /\ telling \in BOOLEAN /\ auto \in BOOLEAN
          /\ modes \in 0 .. MaxModes /\ MaxModes \in Nat
      BY NeedsYouAssumption DEF NeedsYouTypeOK
    <3>2. running' = running \/ running' = NoCall \/ \E c \in Questions : running' = c
      BY DEF NeedsYouNext, needsYouVars, Question, Boundary, BeginAsking, AskNext, AskFull, AskDone, FirstLook,
         Return, Check, Allowed, Refused, Interrupt, Answer, Tell, SwitchMode
    <3>3. telling' = telling \/ telling' \in BOOLEAN
      BY DEF NeedsYouNext, needsYouVars, Question, Boundary, BeginAsking, AskNext, AskFull, AskDone, FirstLook,
         Return, Check, Allowed, Refused, Interrupt, Answer, Tell, SwitchMode
    <3>4. \/ auto' = auto /\ modes' = modes
          \/ auto' = ~auto /\ modes' = modes + 1 /\ modes < MaxModes
      BY DEF NeedsYouNext, needsYouVars, Question, Boundary, BeginAsking, AskNext, AskFull, AskDone, FirstLook,
         Return, Check, Allowed, Refused, Interrupt, Answer, Tell, SwitchMode
    <3>5. auto' \in BOOLEAN /\ telling' \in BOOLEAN
      BY <3>1, <3>3, <3>4, Zenon
    <3>6. modes' \in 0 .. MaxModes
      BY <3>1, <3>4
    <3>. QED
      BY <3>1, <3>2, <3>5, <3>6 DEF Calls
  <2>. QED
    BY <2>1, <2>2, <2>3 DEF NeedsYouTypeOK
<1>. QED
  BY <1>1, <1>2, PTL DEF NeedsYouSpec

-----------------------------------------------------------------------------
(* NeedsYou: answers are delivered once, and kept until they are *)

\* What a call has noted is so: the answers it has heard wait to be delivered by
\* it as long as it is in progress, what it gave up is given up, and a call that
\* is awake has noted all of its questions.
True(c) ==
  /\ call[c].st = "new" => call[c].heard = {}
  /\ InProgress(c) => \A i \in call[c].heard : items[i].st = "answered"
  /\ \A i \in call[c].void : items[i].st \in {"consumed", "dismissed"}
  /\ Subscribed(c) => Cardinality(Own(c)) = Parts
  /\ call[c].st = "woken" => call[c].heard \cup call[c].void = Own(c)

\* The inductive invariant.
Delivery == AnsweredOnce /\ \A c \in Calls : True(c)

\* A set of Parts of a call's own questions is all of them.
LEMMA AllNoted ==
  ASSUME NeedsYouTypeOK, NEW c \in Calls, Cardinality(Own(c)) = Parts,
         NEW S, S \subseteq Own(c), Cardinality(S) = Parts
  PROVE  S = Own(c)
<1>1. Own(c) \subseteq 1 .. Len(items) /\ Len(items) \in Nat
  BY LenProperties DEF Own, NeedsYouTypeOK
<1>2. IsFiniteSet(1 .. Len(items)) /\ Own(c) \in SUBSET (1 .. Len(items))
  BY <1>1, FS_Interval
<1>3. IsFiniteSet(Own(c)) /\ S \in SUBSET Own(c)
  BY <1>2, FS_Subset
<1>. QED
  BY <1>3, FS_Subset

\* The call's own part in a step: it keeps its notes and its stage, or moves to a
\* stage that asks for no more than it has; or it looks at the queue.
Keeps(c) ==
  /\ call'[c].heard = call[c].heard /\ call'[c].void = call[c].void
  /\ call'[c].st = "new" => call[c].st = "new"
  /\ InProgress(c)' => InProgress(c) \/ call[c].st = "new"
  /\ Subscribed(c)' => Subscribed(c) \/ Cardinality(Own(c)) = Parts
  /\ call'[c].st = "woken" => call[c].st = "woken"

LEMMA TrueStays ==
  ASSUME NeedsYouTypeOK, NeedsYouTypeOK', NEW c \in Calls, True(c), Grows(items, items'),
         Subscribed(c)' => Own(c)' = Own(c),
         \A i \in Own(c) : items[i].st \in {"consumed", "dismissed"} => items'[i].st \in {"consumed", "dismissed"},
         InProgress(c)' => \A i \in call[c].heard : items[i].st = "answered" => items'[i].st = "answered",
         Keeps(c) \/ (Subscribed(c) /\ call'[c] = Noted(call[c], c, items'))
  PROVE  True(c)'
<1>1. call[c] \in Tasks /\ call[c].heard \cup call[c].void \subseteq Own(c) /\ items' \in Seq(Items)
  BY DEF NeedsYouTypeOK
<1>2. CASE Keeps(c)
  BY <1>1, <1>2 DEF Keeps, True, InProgress, Subscribed
<1>3. CASE Subscribed(c) /\ call'[c] = Noted(call[c], c, items')
  <2>1. Looks(items', call[c], c, call'[c])
    <3>1. call[c].heard \cup call[c].void \subseteq OwnOf(items', c)
      BY <1>1 DEF Grows, Own, OwnOf
    <3>. QED
      BY <1>1, <1>3, <3>1, NotedDoes
  <2>2. InProgress(c) /\ call[c].st # "new" /\ call'[c].st # "new" /\ Cardinality(Own(c)) = Parts
    BY <1>3, <2>1 DEF Looks, True, Subscribed, InProgress
  <2>3. InProgress(c)' => \A i \in call'[c].heard : items'[i].st = "answered"
    BY <2>1, <2>2 DEF Looks, True
  <2>4. \A i \in call'[c].void : items'[i].st \in {"consumed", "dismissed"}
    BY <1>1, <2>1 DEF Looks, True
  <2>5. Subscribed(c)' => Cardinality(Own(c)') = Parts
    BY <2>2
  <2>6. call'[c].st = "woken" => call'[c].heard \cup call'[c].void = Own(c)'
    <3> SUFFICES ASSUME call'[c].st = "woken" PROVE call'[c].heard \cup call'[c].void = Own(c)
      BY DEF Subscribed
    <3>1. call'[c].heard \cup call'[c].void \subseteq Own(c)
      BY DEF NeedsYouTypeOK, Subscribed
    <3>2. CASE call[c].st = "woken"
      BY <2>1, <3>1, <3>2 DEF Looks, True
    <3>3. CASE Cardinality(call'[c].heard \cup call'[c].void) = Parts
      BY <2>2, <3>1, <3>3, AllNoted
    <3>. QED
      BY <2>1, <3>2, <3>3 DEF Looks
  <2>. QED
    BY <2>2, <2>3, <2>4, <2>5, <2>6 DEF True
<1>. QED
  BY <1>2, <1>3

\* A question that is added belongs to the call that adds it.
LEMMA OthersOwn ==
  ASSUME NeedsYouTypeOK, Grows(items, items'), NEW c \in Calls,
         DOMAIN items' = DOMAIN items \/ \E d \in Calls \ {c} : items' = Parked(d)
  PROVE  Own(c)' = Own(c)
<1>1. CASE DOMAIN items' = DOMAIN items
  BY <1>1 DEF Grows, Own
<1>2. ASSUME NEW d \in Calls \ {c}, items' = Parked(d) PROVE Own(c)' = Own(c)
  <2>1. /\ DOMAIN items' = DOMAIN items \cup {Len(items) + 1}
        /\ \A i \in DOMAIN items : items'[i] = items[i]
        /\ items'[Len(items) + 1] = [call |-> d, st |-> "pending", told |-> 0]
    BY <1>2, ParkedDoes
  <2>2. items'[Len(items) + 1].call = d
    BY <2>1
  <2>. QED
    BY <2>1, <2>2 DEF Own
<1>. QED
  BY <1>1, <1>2

\* What a step makes of the items, told for the properties' sake.
Fate(i) ==
  \/ /\ items'[i].st = items[i].st /\ items'[i].told = items[i].told
  \/ /\ items[i].st = "pending" /\ items'[i].st \in {"answered", "dismissed"}
     /\ items'[i].told = items[i].told
  \/ /\ items[i].st = "answered" /\ items'[i].st = "consumed"
     /\ (items'[i].told = items[i].told + 1
           \/ (items'[i].told = items[i].told /\ call'[items[i].call].st = "cancelled"))

\* Every call's notes stay true, and every item goes its way.
LEMMA DeliverySteps ==
  ASSUME NeedsYouTypeOK, NeedsYouTypeOK', Delivery, [NeedsYouNext]_needsYouVars
  PROVE  /\ \A c \in Calls : True(c)'
         /\ \A i \in DOMAIN items : Fate(i)
         /\ \A i \in DOMAIN items' \ DOMAIN items : items'[i].st = "pending" /\ items'[i].told = 0
<1> DEFINE Goal == /\ \A c \in Calls : True(c)'
                   /\ \A i \in DOMAIN items : Fate(i)
                   /\ \A i \in DOMAIN items' \ DOMAIN items : items'[i].st = "pending" /\ items'[i].told = 0
<1>0. /\ Grows(items, items') /\ \A c \in Calls : True(c)
      /\ \A c \in Calls : call[c] \in Tasks /\ call[c].heard \cup call[c].void \subseteq Own(c) /\ Own(c) \subseteq DOMAIN items
  BY QueueSteps DEF Delivery, NeedsYouTypeOK, Own
<1>1. ASSUME items' = items, \A c \in Calls : Keeps(c) \/ (Subscribed(c) /\ call'[c] = Noted(call[c], c, items'))
      PROVE  Goal
  <2>1. \A c \in Calls : Own(c)' = Own(c)
    BY <1>1 DEF Own
  <2>2. \A c \in Calls : True(c)'
    BY <1>0, <1>1, <2>1, TrueStays
  <2>. QED
    BY <1>1, <2>2 DEF Fate
<1>2. ASSUME NEW d \in Calls, ~Subscribed(d)', items' = Parked(d),
             \A c \in Calls : Keeps(c) \/ (Subscribed(c) /\ call'[c] = Noted(call[c], c, items'))
      PROVE  Goal
  <2>1. /\ \A i \in DOMAIN items : items'[i] = items[i]
        /\ DOMAIN items' = DOMAIN items \cup {Len(items) + 1}
        /\ items'[Len(items) + 1] = [call |-> d, st |-> "pending", told |-> 0]
    BY <1>2, ParkedDoes
  <2>4. items'[Len(items) + 1].st = "pending" /\ items'[Len(items) + 1].told = 0
    BY <2>1
  <2>2. \A c \in Calls : Subscribed(c)' => Own(c)' = Own(c)
    BY <1>0, <1>2, OthersOwn
  <2>3. \A c \in Calls : True(c)'
    BY <1>0, <1>2, <2>1, <2>2, TrueStays
  <2>. QED
    BY <2>1, <2>3, <2>4 DEF Fate
<1>3. ASSUME NEW B \in SUBSET Calls, Boundary(B) PROVE Goal
  <2>1. PICK S : S = {i \in DOMAIN items : items[i].st = "answered"} /\ items' = Told(Consumed(S), S)
    BY <1>3 DEF Boundary
  <2>2. /\ DOMAIN items' = DOMAIN items
        /\ \A i \in DOMAIN items :
             /\ items'[i].st = IF i \in S THEN "consumed" ELSE items[i].st
             /\ items'[i].told = IF i \in S THEN items[i].told + 1 ELSE items[i].told
    BY <2>1, ConsumedDoes
  <2>3. ASSUME NEW c \in Calls PROVE Keeps(c) /\ (InProgress(c)' => call[c].st = "new")
    <3>1. ~InProgress(c) /\ call' = [d \in Calls |-> IF d \in B THEN [call[d] EXCEPT !.st = "begun"] ELSE call[d]]
      BY <1>3 DEF Boundary
    <3>2. CASE c \in B
      <4>1. call'[c] = [call[c] EXCEPT !.st = "begun"] /\ call[c].st = "new"
        BY <1>3, <3>1, <3>2 DEF Boundary
      <4>. QED
        BY <1>0, <4>1 DEF Keeps, Tasks, InProgress, Subscribed
    <3>3. CASE c \notin B
      BY <1>0, <3>1, <3>3 DEF Keeps, InProgress, Subscribed
    <3>. QED
      BY <3>2, <3>3
  <2>4. \A c \in Calls : InProgress(c)' => call[c].heard = {}
    BY <1>0, <2>3 DEF True
  <2>5. \A c \in Calls : Own(c)' = Own(c)
    BY <1>0, <2>2, OthersOwn
  <2>6. \A c \in Calls : True(c)'
    <3> SUFFICES ASSUME NEW c \in Calls PROVE True(c)'
      OBVIOUS
    <3>1. \A i \in Own(c) : items[i].st \in {"consumed", "dismissed"} => items'[i].st \in {"consumed", "dismissed"}
      BY <1>0, <2>2
    <3>. QED
      BY <1>0, <2>3, <2>4, <2>5, <3>1, TrueStays
  <2>7. \A i \in DOMAIN items : Fate(i)
    <3> SUFFICES ASSUME NEW i \in DOMAIN items PROVE Fate(i)
      OBVIOUS
    <3>1. CASE i \in S
      BY <2>1, <2>2, <3>1 DEF Fate
    <3>2. CASE i \notin S
      BY <2>2, <3>2 DEF Fate
    <3>. QED
      BY <3>1, <3>2
  <2>. QED
    BY <2>2, <2>6, <2>7
<1>4. ASSUME NEW c \in Calls, Return(c) PROVE Goal
  <2>1. PICK S, T : S = Own(c) /\ T = call[c].heard /\ items' = Told(Consumed(S), T)
    BY <1>4 DEF Return
  <2>2. /\ DOMAIN items' = DOMAIN items
        /\ \A i \in DOMAIN items :
             /\ items'[i].st = IF i \in Own(c) /\ items[i].st = "answered" THEN "consumed" ELSE items[i].st
             /\ items'[i].told = IF i \in call[c].heard THEN items[i].told + 1 ELSE items[i].told
    BY <2>1, ConsumedDoes
  <2>3. /\ call[c].st = "woken" /\ call'[c] = [call[c] EXCEPT !.st = "returned"]
        /\ \A d \in Calls \ {c} : call'[d] = Notified(call, items')[d]
    BY <1>4 DEF Return, Notified
  <2>4. \A d \in Calls : Keeps(d) \/ (Subscribed(d) /\ call'[d] = Noted(call[d], d, items'))
    <3>1. Keeps(c)
      BY <1>0, <2>3 DEF Keeps, Tasks, InProgress, Subscribed
    <3>2. \A d \in Calls \ {c} : Keeps(d) \/ (Subscribed(d) /\ call'[d] = Noted(call[d], d, items'))
      BY <1>0, <2>3, NotifiedDoes DEF Keeps, InProgress, Subscribed
    <3>. QED
      BY <3>1, <3>2
  <2>5. \A d \in Calls : InProgress(d)' => d # c
    BY <1>0, <2>3 DEF InProgress, Tasks
  <2>6. \A d \in Calls : d # c => Own(d) \cap Own(c) = {}
    BY DEF Own
  <2>7. \A d \in Calls : Own(d)' = Own(d)
    BY <1>0, <2>2, OthersOwn
  <2>8. \A d \in Calls : True(d)'
    <3> SUFFICES ASSUME NEW d \in Calls PROVE True(d)'
      OBVIOUS
    <3>1. \A i \in Own(d) : items[i].st \in {"consumed", "dismissed"} => items'[i].st \in {"consumed", "dismissed"}
      BY <1>0, <2>2
    <3>2. InProgress(d)' => \A i \in call[d].heard : items[i].st = "answered" => items'[i].st = "answered"
      BY <1>0, <2>2, <2>5, <2>6
    <3>. QED
      BY <1>0, <2>4, <2>7, <3>1, <3>2, TrueStays
  <2>9. \A i \in DOMAIN items : Fate(i)
    <3> SUFFICES ASSUME NEW i \in DOMAIN items PROVE Fate(i)
      OBVIOUS
    <3>1. i \in call[c].heard => i \in Own(c) /\ items[i].st = "answered"
      BY <1>0, <2>3 DEF True, InProgress
    <3>2. i \in Own(c) /\ items[i].st = "answered" => i \in call[c].heard
      BY <1>0, <2>3 DEF True
    <3>3. CASE i \in call[c].heard
      BY <2>2, <3>1, <3>3 DEF Fate
    <3>4. CASE i \notin call[c].heard
      BY <2>2, <3>2, <3>4 DEF Fate
    <3>. QED
      BY <3>3, <3>4
  <2>. QED
    BY <2>2, <2>8, <2>9
<1>5. CASE Interrupt
  <2> DEFINE going == {c \in Calls : InProgress(c)}
  <2>1. PICK S : S = UNION {Own(c) : c \in {d \in going : Subscribed(d)}} /\ items' = Consumed(S)
    BY <1>5 DEF Interrupt
  <2>2. items' = Told(Consumed(S), {})
    BY <2>1 DEF Told, Consumed
  <2>3. /\ DOMAIN items' = DOMAIN items
        /\ \A i \in DOMAIN items :
             /\ items'[i].st = IF i \in S /\ items[i].st = "answered" THEN "consumed" ELSE items[i].st
             /\ items'[i].told = IF i \in {} THEN items[i].told + 1 ELSE items[i].told
    BY <2>2, ConsumedDoes
  <2>4. \A c \in Calls : call'[c] = IF c \in going THEN [call[c] EXCEPT !.st = "cancelled"] ELSE call[c]
    BY <1>5 DEF Interrupt
  <2>5. \A c \in Calls : Keeps(c) /\ ~InProgress(c)' /\ (c \in going => call'[c].st = "cancelled")
    BY <1>0, <2>4 DEF Keeps, InProgress, Subscribed, Tasks
  <2>6. \A c \in Calls : Own(c)' = Own(c)
    BY <1>0, <2>3, OthersOwn
  <2>7. \A c \in Calls : True(c)'
    <3> SUFFICES ASSUME NEW c \in Calls PROVE True(c)'
      OBVIOUS
    <3>1. \A i \in Own(c) : items[i].st \in {"consumed", "dismissed"} => items'[i].st \in {"consumed", "dismissed"}
      BY <1>0, <2>3
    <3>. QED
      BY <1>0, <2>5, <2>6, <3>1, TrueStays
  <2>8. \A i \in DOMAIN items : i \in S => items[i].call \in going
    BY <2>1 DEF Own
  <2>9. \A i \in DOMAIN items : Fate(i)
    BY <2>3, <2>5, <2>8 DEF Fate
  <2>. QED
    BY <2>3, <2>7, <2>9
<1>6. ASSUME NEW j \in DOMAIN items, Answer(j) PROVE Goal
  <2>1. items' = [items EXCEPT ![j].st = "answered"] /\ items[j].st = "pending" /\ call' = call
    BY <1>6 DEF Answer
  <2>2. DOMAIN items' = DOMAIN items /\ \A i \in DOMAIN items : i # j => items'[i] = items[i]
    BY <2>1
  <2>3. items'[j].st = "answered" /\ items'[j].told = items[j].told
    BY <2>1, ItemTypes
  <2>4. \A c \in Calls : Keeps(c)
    BY <2>1 DEF Keeps, InProgress, Subscribed
  <2>5. \A c \in Calls : Own(c)' = Own(c)
    BY <1>0, <2>2, OthersOwn
  <2>6. \A c \in Calls : True(c)'
    BY <1>0, <2>1, <2>2, <2>4, <2>5, TrueStays
  <2>. QED
    BY <2>1, <2>2, <2>3, <2>6 DEF Fate
<1>7. ASSUME NEW c \in Calls, AskFull(c) PROVE Goal
  <2>1. /\ items' = [i \in DOMAIN items |->
                       IF i \in Own(c) /\ items[i].st = "pending" THEN [items[i] EXCEPT !.st = "dismissed"] ELSE items[i]]
        /\ call[c].st = "asking" /\ call' = [Notified(call, items') EXCEPT ![c].st = "refused"]
    BY <1>7 DEF AskFull
  <2>2. DOMAIN items' = DOMAIN items
        /\ \A i \in DOMAIN items :
             \/ items'[i] = items[i]
             \/ items[i].st = "pending" /\ items'[i].st = "dismissed" /\ items'[i].told = items[i].told
    BY <2>1, ItemTypes
  <2>3. \A d \in Calls : Keeps(d) \/ (Subscribed(d) /\ call'[d] = Noted(call[d], d, items'))
    <3>1. Notified(call, items')[c] = call[c]
      <4>1. call[c].st \notin {"listening", "woken"}
        BY <2>1
      <4>. QED
        BY <4>1, NotifiedDoes
    <3>2. call'[c] = [call[c] EXCEPT !.st = "refused"]
      BY <2>1, <3>1, NotifiedDoes
    <3>3. Keeps(c)
      BY <1>0, <3>2 DEF Keeps, Tasks, InProgress, Subscribed
    <3>4. \A d \in Calls \ {c} : call'[d] = Notified(call, items')[d]
      BY <2>1, NotifiedDoes
    <3>5. \A d \in Calls \ {c} : Keeps(d) \/ (Subscribed(d) /\ call'[d] = Noted(call[d], d, items'))
      BY <1>0, <3>4, NotifiedDoes DEF Keeps, InProgress, Subscribed
    <3>. QED
      BY <3>3, <3>5
  <2>4. \A d \in Calls : Own(d)' = Own(d)
    BY <1>0, <2>2, OthersOwn
  <2>5. \A d \in Calls : True(d)'
    <3> SUFFICES ASSUME NEW d \in Calls PROVE True(d)'
      OBVIOUS
    <3>1. \A i \in Own(d) : items[i].st \in {"consumed", "dismissed"} => items'[i].st \in {"consumed", "dismissed"}
      BY <1>0, <2>2
    <3>2. \A i \in call[d].heard : items[i].st = "answered" => items'[i].st = "answered"
      BY <1>0, <2>2
    <3>. QED
      BY <1>0, <2>3, <2>4, <3>1, <3>2, TrueStays
  <2>. QED
    BY <2>2, <2>5 DEF Fate
<1>8. ASSUME NEW c \in Calls, AskNext(c) \/ Refused(c) PROVE Goal
  <2>1. \/ items' = Parked(c)
        \/ items' = items
    BY <1>8 DEF AskNext, Refused
  <2>2. /\ call[c].st \in {"asking", "judging"}
        /\ \/ call' = Notified(call, items')
           \/ call' = [Notified(call, items') EXCEPT ![c].st = "denied"]
    BY <1>8 DEF AskNext, Refused
  <2>3. Notified(call, items')[c] = call[c]
    BY <2>2, NotifiedDoes
  <2>4. Keeps(c) /\ ~Subscribed(c)'
    <3>1. call'[c] = call[c] \/ call'[c] = [call[c] EXCEPT !.st = "denied"]
      BY <2>2, <2>3, NotifiedDoes
    <3>. QED
      BY <1>0, <2>2, <3>1 DEF Keeps, Tasks, InProgress, Subscribed
  <2>5. \A d \in Calls \ {c} : call'[d] = Notified(call, items')[d]
    BY <2>2, NotifiedDoes
  <2>6. \A d \in Calls : Keeps(d) \/ (Subscribed(d) /\ call'[d] = Noted(call[d], d, items'))
    BY <1>0, <2>4, <2>5, NotifiedDoes DEF Keeps, InProgress, Subscribed
  <2>. QED
    BY <1>1, <1>2, <2>1, <2>4, <2>6
<1>9. ASSUME NEW c \in Calls, BeginAsking(c) \/ AskDone(c) \/ Check(c) \/ Allowed(c) PROVE Goal
  <2>1. /\ items' = items /\ \A d \in Calls \ {c} : call'[d] = call[d]
        /\ call[c].st \in {"begun", "asking", "judging"}
        /\ \/ call'[c] = [[call[c] EXCEPT !.st = "asking"] EXCEPT !.auto = auto]
           \/ \E st \in {"left", "denied", "judging", "ran"} : call'[c] = [call[c] EXCEPT !.st = st]
           \/ call'[c] = [call[c] EXCEPT !.st = "listening"] /\ Cardinality(Own(c)) = Parts
    BY <1>9 DEF BeginAsking, AskDone, Check, Allowed, NeedsYouTypeOK
  <2>2. Keeps(c)
    BY <1>0, <2>1 DEF Keeps, Tasks, InProgress, Subscribed
  <2>3. \A d \in Calls \ {c} : Keeps(d)
    BY <2>1 DEF Keeps, InProgress, Subscribed
  <2>. QED
    BY <1>1, <2>1, <2>2, <2>3
<1>10. ASSUME NEW c \in Calls, FirstLook(c) PROVE Goal
  <2>1. /\ items' = items /\ Subscribed(c) /\ call'[c] = Noted(call[c], c, items')
        /\ \A d \in Calls \ {c} : call'[d] = call[d]
    BY <1>10 DEF FirstLook, NeedsYouTypeOK
  <2>2. \A d \in Calls \ {c} : Keeps(d)
    BY <2>1 DEF Keeps, InProgress, Subscribed
  <2>. QED
    BY <1>1, <2>1, <2>2
<1>11. CASE Tell
  <2>1. items' = items /\ call' = Notified(call, items')
    BY <1>11 DEF Tell
  <2>2. \A d \in Calls : Keeps(d) \/ (Subscribed(d) /\ call'[d] = Noted(call[d], d, items'))
    BY <1>0, <2>1, NotifiedDoes DEF Keeps, InProgress, Subscribed
  <2>. QED
    BY <1>1, <2>1, <2>2
<1>12. CASE SwitchMode \/ UNCHANGED needsYouVars
  <2>1. items' = items /\ call' = call
    BY <1>12 DEF SwitchMode, needsYouVars
  <2>2. \A d \in Calls : Keeps(d)
    BY <2>1 DEF Keeps, InProgress, Subscribed
  <2>. QED
    BY <1>1, <2>1, <2>2
<1>13. ASSUME NEW c \in Questions, Question(c) PROVE Goal
  BY <1>4, <1>7, <1>8, <1>9, <1>10, <1>13 DEF Question, Calls
<1>14. ASSUME NEW c \in Gated, Check(c) \/ Allowed(c) \/ Refused(c) PROVE Goal
  BY <1>8, <1>9, <1>14 DEF Calls
<1>15. CASE NeedsYouNext
  BY <1>3, <1>5, <1>6, <1>11, <1>12, <1>13, <1>14, <1>15, Zenon DEF NeedsYouNext
<1>. QED
  BY <1>12, <1>15

LEMMA DeliveryInvariant == NeedsYouSpec => []Delivery
<1>1. NeedsYouInit => Delivery
  <2> SUFFICES ASSUME NeedsYouInit PROVE Delivery
    OBVIOUS
  <2>1. AnsweredOnce
    BY DEF NeedsYouInit, AnsweredOnce
  <2>2. \A c \in Calls : True(c)
    BY DEF NeedsYouInit, True, InProgress, Subscribed
  <2>. QED
    BY <2>1, <2>2 DEF Delivery
<1>2. NeedsYouTypeOK /\ NeedsYouTypeOK' /\ Delivery /\ [NeedsYouNext]_needsYouVars => Delivery'
  <2> SUFFICES ASSUME NeedsYouTypeOK, NeedsYouTypeOK', Delivery, [NeedsYouNext]_needsYouVars PROVE Delivery'
    OBVIOUS
  <2>1. ASSUME NEW i \in DOMAIN items'
        PROVE  items'[i].told <= 1 /\ (items'[i].told = 1 => items'[i].st = "consumed")
    <3>1. CASE i \in DOMAIN items
      <4>1. items[i].told \in Nat /\ items[i].told <= 1 /\ (items[i].told = 1 => items[i].st = "consumed")
        BY <3>1, ItemTypes DEF Delivery, AnsweredOnce, Items
      <4>2. Fate(i)
        BY <3>1, DeliverySteps
      <4>. QED
        BY <4>1, <4>2 DEF Fate
    <3>2. CASE i \notin DOMAIN items
      BY <3>2, DeliverySteps
    <3>. QED
      BY <3>1, <3>2
  <2>. QED
    BY <2>1, DeliverySteps DEF Delivery, AnsweredOnce
<1>. QED
  BY <1>1, <1>2, NeedsYouTypeCorrect, PTL DEF NeedsYouSpec

\* For any number of calls and questions: the tool that asked and the bridge
\* never both deliver an answer, however answers, interrupts and requests fall.
THEOREM DeliveredOnce == NeedsYouSpec => []AnsweredOnce
<1>1. Delivery => AnsweredOnce
  BY DEF Delivery
<1>. QED
  BY <1>1, DeliveryInvariant, PTL

\* ... and none is lost on the way but to a call that is itself cancelled.
THEOREM NoAnswerLost == NeedsYouSpec => AnswersKept
<1>1. NeedsYouTypeOK /\ NeedsYouTypeOK' /\ Delivery /\ [NeedsYouNext]_needsYouVars =>
        [\A i \in DOMAIN items : items[i].st = "answered" =>
           \/ items'[i].st = "answered"
           \/ items'[i].st = "consumed" /\ (items'[i].told = 1 \/ call'[items[i].call].st = "cancelled")]_needsYouVars
  <2> SUFFICES ASSUME NeedsYouTypeOK, NeedsYouTypeOK', Delivery, [NeedsYouNext]_needsYouVars, NEW i \in DOMAIN items, items[i].st = "answered"
               PROVE  \/ items'[i].st = "answered"
                      \/ items'[i].st = "consumed" /\ (items'[i].told = 1 \/ call'[items[i].call].st = "cancelled")
    OBVIOUS
  <2>1. items[i].told = 0
    <3>1. items[i].told \in Nat
      BY ItemTypes DEF Items
    <3>. QED
      BY <3>1 DEF Delivery, AnsweredOnce
  <2>2. Fate(i)
    BY DeliverySteps
  <2>. QED
    BY <2>1, <2>2 DEF Fate
<1>. QED
  BY <1>1, NeedsYouTypeCorrect, DeliveryInvariant, PTL DEF NeedsYouSpec, AnswersKept

=============================================================================
