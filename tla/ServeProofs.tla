---------------------------- MODULE ServeProofs ----------------------------
(***************************************************************************)
(* Theorems about Serve, for any keys, operations of theirs, size of the   *)
(* ring and of the steering queue, and about SessionAttach, the claim of a *)
(* process to be the one that serves the session.                          *)
(***************************************************************************)
EXTENDS Serve, SessionAttach, SequenceTheorems, TLAPS

-----------------------------------------------------------------------------
(* Lemmas about the ring *)

\* What is kept when a key new to the ring is remembered: the youngest RingCap.
LEMMA RingRemembers ==
  ASSUME TypeOK, NEW k \in Keys, ~InRing(k),
         NEW r, r = Remembered(k)
  PROVE  /\ r \in Seq(Keys) /\ Len(r) <= RingCap
         /\ Len(ring) < RingCap => /\ Len(r) = Len(ring) + 1
                                   /\ \A i \in 1 .. Len(ring) : r[i] = ring[i]
         /\ Len(ring) = RingCap => /\ Len(r) = RingCap
                                   /\ \A i \in 1 .. RingCap - 1 : r[i] = ring[i + 1]
         /\ r[Len(r)] = k /\ Len(r) > 0
<1> DEFINE all == Append(ring, k)
<1>1. ring \in Seq(Keys) /\ Len(ring) \in Nat /\ Len(ring) <= RingCap /\ RingCap \in Nat \ {0}
  BY LenProperties, ServeAssumption DEF TypeOK
<1>2. /\ all \in Seq(Keys) /\ all # << >> /\ Len(all) = Len(ring) + 1
      /\ \A i \in 1 .. Len(ring) : all[i] = ring[i]
      /\ all[Len(ring) + 1] = k
  BY <1>1, AppendProperties
<1>3. r = IF Len(all) > RingCap THEN Tail(all) ELSE all
  BY DEF Remembered, Without
<1>4. CASE Len(ring) < RingCap
  BY <1>1, <1>2, <1>3, <1>4
<1>5. CASE Len(ring) = RingCap
  <2>1. /\ r \in Seq(Keys) /\ Len(r) = RingCap
        /\ \A i \in 1 .. RingCap : r[i] = all[i + 1]
    <3>1. r = Tail(all)
      BY <1>1, <1>2, <1>3, <1>5
    <3>. QED
      BY <1>1, <1>2, <1>5, <3>1, HeadTailProperties
  <2>2. \A i \in 1 .. RingCap - 1 : i \in 1 .. RingCap /\ i + 1 \in 1 .. Len(ring)
    BY <1>1, <1>5
  <2>3. RingCap \in 1 .. RingCap
    BY <1>1
  <2>. QED
    BY <1>1, <1>2, <1>5, <2>1, <2>2, <2>3
<1>. QED
  BY <1>1, <1>4, <1>5

\* A remembered key leaves the ring a ring, even one it held before.
LEMMA RingTypes ==
  ASSUME TypeOK, NEW k \in Keys
  PROVE  Remembered(k) \in Seq(Keys) /\ Len(Remembered(k)) <= RingCap
<1> DEFINE all == Append(Without(k), k)
<1>1. /\ ring \in Seq(Keys) /\ Len(ring) \in Nat /\ Len(ring) <= RingCap /\ RingCap \in Nat \ {0}
      /\ DOMAIN ring = 1 .. Len(ring)
  BY LenProperties, ServeAssumption DEF TypeOK
<1>2. Without(k) \in Seq(Keys) /\ Len(Without(k)) \in Nat /\ Len(Without(k)) <= Len(ring)
  <2>1. CASE InRing(k)
    <3>1. PICK i \in 1 .. Len(ring) :
            Without(k) = SubSeq(ring, 1, i - 1) \o SubSeq(ring, i + 1, Len(ring))
      BY <1>1, <2>1 DEF InRing, Without
    <3>2. i \in Int /\ 1 <= i /\ i <= Len(ring) /\ Len(ring) \in Int
      BY <1>1
    <3>3. \A m \in 1 .. Len(ring) : ring[m] \in Keys
      BY <1>1, ElementOfSeq
    <3>4. SubSeq(ring, 1, i - 1) \in Seq(Keys) /\ Len(SubSeq(ring, 1, i - 1)) <= i - 1
      <4>1. 1 \in Int /\ i - 1 \in Int /\ \A m \in 1 .. i - 1 : ring[m] \in Keys
        BY <3>2, <3>3
      <4>2. /\ SubSeq(ring, 1, i - 1) \in Seq(Keys)
            /\ Len(SubSeq(ring, 1, i - 1)) = IF 1 <= i - 1 THEN (i - 1) - 1 + 1 ELSE 0
        BY <4>1, SubSeqProperties
      <4>. QED
        BY <3>2, <4>2
    <3>5. /\ SubSeq(ring, i + 1, Len(ring)) \in Seq(Keys)
          /\ Len(SubSeq(ring, i + 1, Len(ring))) <= Len(ring) - i
      <4>1. i + 1 \in Int /\ Len(ring) \in Int /\ \A m \in i + 1 .. Len(ring) : ring[m] \in Keys
        BY <3>2, <3>3
      <4>2. /\ SubSeq(ring, i + 1, Len(ring)) \in Seq(Keys)
            /\ Len(SubSeq(ring, i + 1, Len(ring)))
                 = IF i + 1 <= Len(ring) THEN Len(ring) - (i + 1) + 1 ELSE 0
        BY <4>1, SubSeqProperties
      <4>. QED
        BY <3>2, <4>2
    <3>6. /\ Without(k) \in Seq(Keys)
          /\ Len(Without(k)) = Len(SubSeq(ring, 1, i - 1)) + Len(SubSeq(ring, i + 1, Len(ring)))
      BY <3>1, <3>4, <3>5, ConcatProperties, Zenon
    <3>7. /\ Len(SubSeq(ring, 1, i - 1)) \in Nat /\ Len(SubSeq(ring, i + 1, Len(ring))) \in Nat
          /\ Len(Without(k)) \in Nat
      BY <3>4, <3>5, <3>6, LenProperties
    <3>8. \A a, b \in Nat : a <= i - 1 /\ b <= Len(ring) - i => a + b <= Len(ring)
      BY <3>2
    <3>. QED
      BY <3>4, <3>5, <3>6, <3>7, <3>8, Zenon
  <2>2. CASE ~InRing(k)
    BY <1>1, <2>2 DEF Without
  <2>. QED
    BY <2>1, <2>2
<1>3. all \in Seq(Keys) /\ all # << >> /\ Len(all) = Len(Without(k)) + 1
  BY <1>2, AppendProperties
<1>4. Tail(all) \in Seq(Keys) /\ Len(Tail(all)) = Len(all) - 1
  BY <1>3, HeadTailProperties
<1>5. Remembered(k) = IF Len(all) > RingCap THEN Tail(all) ELSE all
  BY DEF Remembered
<1>. HIDE DEF all
<1>. QED
  BY <1>1, <1>2, <1>3, <1>4, <1>5

-----------------------------------------------------------------------------
(* Types *)

Flags ==
  /\ parked \in BOOLEAN /\ tokens \in BOOLEAN /\ opened \in BOOLEAN
  /\ settled \in BOOLEAN /\ asking \in BOOLEAN /\ writer \in BOOLEAN /\ pump \in BOOLEAN

LEMMA Bounds ==
  /\ RingCap \in Nat /\ SteerCap \in Nat /\ QueueCap \in Nat /\ MaxSends \in Nat /\ MaxTurns \in Nat
  /\ MaxEvents \in Nat /\ MaxAsks \in Nat /\ MaxGrants \in Nat /\ MaxStarts \in Nat
BY ServeAssumption

\* The counters are below their bounds.
LEMMA Counters ==
  ASSUME TypeOK
  PROVE  /\ pen \in 0 .. MaxGrants /\ minted \in 0 .. MaxGrants
         /\ turn \in {0, turns} /\ turns \in 0 .. MaxTurns
         /\ ask \in {0, asks} /\ asks \in 0 .. MaxAsks
         /\ events \in 0 .. MaxEvents /\ sends \in 0 .. MaxSends /\ starts \in 1 .. MaxStarts
BY Zenon DEF TypeOK

\* An operation at work, and what has to be done for it.
LEMMA AtStage ==
  ASSUME TypeOK, stage # Free
  PROVE  /\ stage.op \in Ops /\ stage.at \in {"act", "remember"}
         /\ stage.at = "remember" => stage.op.key \in Keys
         /\ [stage EXCEPT !.at = "act"] = [at |-> "act", op |-> stage.op]
BY DEF TypeOK, Stages

LEMMA Staged ==
  /\ Free \in Stages
  /\ \A op \in Ops : /\ [at |-> "act", op |-> op] \in Stages
                     /\ op.key # NoKey => [at |-> "remember", op |-> op] \in Stages
                     /\ [at |-> "act", op |-> op] # Free /\ [at |-> "remember", op |-> op] # Free
<1>1. \A op \in Ops : op.key \in Keys \cup {NoKey}
  BY DEF Ops
<1>. QED
  BY <1>1 DEF Stages, Free

\* No step makes a flag anything but a flag.
LEMMA FlagsStay ==
  ASSUME TypeOK, [Next]_vars
  PROVE  Flags'
<1>1. Flags
  BY Zenon DEF TypeOK, Flags
<1>2. CASE \E op : Handle(op)
  <2> PICK op : Handle(op)
    BY <1>2
  <2>1. opened' \in BOOLEAN /\ tokens' = tokens /\ settled' = settled /\ asking' = asking
    <3>1. opened' \in {opened, opened \/ (op.kind # "quit" /\ OptsIn(op))} /\ UNCHANGED <<tokens, settled, asking>>
      BY Zenon DEF Handle, Quit, Unauthenticated, Read, Replay, Control, Unheard, Reject, Accept, Legacy,
                   Take, turnVars, askVars, procVars
    <3>. QED
      BY <1>1, <3>1, Zenon DEF Flags
  <2>2. parked' \in BOOLEAN
    BY <1>1 DEF Handle, Quit, Unauthenticated, Read, Replay, Control, Unheard, Reject, Accept, Legacy,
                   penVars, Flags, Pen!Grant, Pen!Drop, Pen!Park, Pen!Unpark
  <2>3. writer' \in BOOLEAN /\ pump' = pump
    BY <1>1, Zenon DEF Handle, Quit, Unauthenticated, Read, Replay, Control, Unheard, Reject, Accept, Legacy,
                   pumpVars, Flags
  <2>. QED
    BY <1>1, <2>1, <2>2, <2>3, Zenon DEF Flags
<1>3. CASE Restart
  <2>1. parked' \in BOOLEAN
    BY <1>1, <1>3 DEF Restart, Fresh, Flags, penVars, Pen!Grant
  <2>2. tokens' \in BOOLEAN /\ opened' \in BOOLEAN
    BY <1>1, <1>3, Zenon DEF Restart, Fresh, Flags
  <2>3. settled' = FALSE /\ asking' = FALSE /\ writer' = TRUE /\ pump' = TRUE
    BY <1>3 DEF Restart, Fresh
  <2>. QED
    BY <2>1, <2>2, <2>3, Zenon DEF Flags
<1>4. CASE Answer \/ Resolve \/ Pump \/ Expire
  BY <1>1, <1>4, Zenon DEF Answer, Resolve, Pump, Expire, Pen!Drop, Done, penVars, procVars, loopVars, pumpVars, turnVars, askVars, Flags
<1>5. CASE \/ Remember \/ StartTurn \/ IgnoreSubmit \/ EnqueueSteer
           \/ AnswerNobody \/ AnswerAmiss \/ Decide \/ ActElsewhere
  BY <1>1, <1>5, ZenonT(30) DEF Remember, StartTurn, IgnoreSubmit, EnqueueSteer, AnswerNobody, AnswerAmiss,
       Decide, ActElsewhere, Done, penVars, procVars, loopVars, pumpVars, turnVars, askVars, Flags
<1>6. CASE Emit \/ ConsumeSteer \/ Ask \/ AskUser \/ EndTurn
  BY <1>1, <1>6, ZenonT(30) DEF Emit, ConsumeSteer, Ask, AskUser, EndTurn,
       penVars, procVars, loopVars, pumpVars, turnVars, askVars, Flags
<1>7. CASE Exit \/ Kill \/ UNCHANGED vars
  BY <1>1, <1>7, ZenonT(30) DEF Exit, Kill, vars,
       penVars, procVars, loopVars, pumpVars, turnVars, askVars, Flags
<1>8. CASE \E kind, key, lease, for : Send(kind, key, lease, for)
  BY <1>1, <1>8, ZenonT(30) DEF Send, penVars, procVars, pumpVars, turnVars, askVars, Flags
<1>. QED
  BY <1>2, <1>3, <1>4, <1>5, <1>6, <1>7, <1>8, Zenon DEF Next, Loop

\* The steps of the pen keep its tokens below the newest.
LEMMA PenTypes ==
  ASSUME TypeOK,
         \/ minted < MaxGrants /\ Pen!Grant
         \/ Pen!Drop \/ Pen!Park \/ Pen!Unpark
         \/ UNCHANGED penVars
  PROVE  pen' \in 0 .. MaxGrants /\ minted' \in 0 .. MaxGrants
<1>1. pen \in 0 .. MaxGrants /\ minted \in 0 .. MaxGrants /\ MaxGrants \in Nat
  BY ServeAssumption DEF TypeOK
<1>2. CASE minted < MaxGrants /\ Pen!Grant
  BY <1>1, <1>2 DEF Pen!Grant
<1>3. CASE Pen!Drop \/ Pen!Park \/ Pen!Unpark \/ UNCHANGED penVars
  <2>1. minted' = minted /\ pen' \in {pen, 0}
    BY <1>3 DEF Pen!Drop, Pen!Park, Pen!Unpark, penVars
  <2>. QED
    BY <1>1, <2>1
<1>. QED
  BY <1>2, <1>3

\* The conjuncts of TypeOK that are not about flags, in groups.
Disk ==
  /\ ring \in Seq(Keys) /\ Len(ring) <= RingCap
  /\ acted \in [Keys -> Nat] /\ newer \in [Keys -> 0 .. RingCap]
  /\ torn \subseteq Keys
Queue ==
  /\ status \in {"up", "awaiting", "closing", "down"}
  /\ ops \in Seq(Ops) /\ Len(ops) <= QueueCap
  /\ stage \in Stages
Turn ==
  /\ turn \in {0, turns} /\ turns \in 0 .. MaxTurns
  /\ steers \in Seq(Steers) /\ Len(steers) <= SteerCap
  /\ ask \in {0, asks} /\ asks \in 0 .. MaxAsks
  /\ (settled => ask # 0) /\ (ask # 0 \/ asking => turn # 0)
Rest ==
  /\ pen \in 0 .. MaxGrants /\ minted \in 0 .. MaxGrants
  /\ events \in 0 .. MaxEvents
  /\ sends \in 0 .. MaxSends /\ starts \in 1 .. MaxStarts

LEMMA TurnStays ==
  ASSUME Turn, UNCHANGED <<turn, turns, steers, ask, asks, settled, asking>>
  PROVE  Turn'
BY Zenon DEF Turn

\* Only the steers change.
LEMMA SteersMove ==
  ASSUME Turn, turn' = turn, turns' = turns, ask' = ask, asks' = asks, settled' = settled, asking' = asking,
         steers' \in Seq(Steers), Len(steers') <= SteerCap
  PROVE  Turn'
BY Zenon DEF Turn

LEMMA Groups == TypeOK <=> Disk /\ Queue /\ Turn /\ Rest /\ Flags
<1>1. TypeOK => Flags
  BY Zenon DEF TypeOK, Flags
<1>2. TypeOK => Disk /\ Queue /\ Turn /\ Rest
  BY DEF TypeOK, Disk, Queue, Turn, Rest
<1>3. Flags => \A b \in {parked, tokens, opened, settled, asking, writer, pump} : b \in BOOLEAN
  BY Zenon DEF Flags
<1>4. Disk /\ Queue /\ Turn /\ Rest /\ Flags => TypeOK
  BY <1>3, Zenon DEF TypeOK, Disk, Queue, Turn, Rest
<1>. QED
  BY <1>1, <1>2, <1>4, Zenon

\* Taking an operation, and what a keyed effect counts for.
LEMMA TakeTypes ==
  ASSUME TypeOK, NEW op, NEW next, Take(op, next)
  PROVE  /\ op \in Ops /\ stage' = next
         /\ ops' \in Seq(Ops) /\ Len(ops') <= QueueCap
         /\ Turn' /\ sends' = sends /\ starts' = starts /\ newer' = newer
<1>1. ops \in Seq(Ops) /\ ops # << >> /\ op = Head(ops) /\ ops' = Tail(ops) /\ Len(ops) <= QueueCap
  BY DEF Take, TypeOK
<1>2. op \in Ops /\ ops' \in Seq(Ops) /\ Len(ops') = Len(ops) - 1
  BY <1>1, HeadTailProperties
<1>3. Len(ops) \in Nat /\ QueueCap \in Nat
  BY <1>1, LenProperties, ServeAssumption
<1>4. Turn'
  BY Zenon DEF Take, TypeOK, Turn, turnVars, askVars
<1>. QED
  BY <1>1, <1>2, <1>3, <1>4 DEF Take, procVars

LEMMA Counted ==
  ASSUME TypeOK, NEW op \in Ops, CountAct(op)
  PROVE  acted' \in [Keys -> Nat]
<1>1. acted \in [Keys -> Nat]
  BY Zenon DEF TypeOK
<1>. QED
  BY <1>1 DEF CountAct

\* What is left to do for an operation the loop has taken.
Follows(op, next) ==
  \/ next = Free
  \/ /\ op.kind \in Writes \cup {"control"} /\ op.key # NoKey /\ ~InRing(op.key) /\ opened'
     /\ op.kind # "control" => ~parked'
     /\ next = [at |-> "remember", op |-> op]
  \/ /\ op.kind \in Writes
     /\ opened' => op.key = NoKey /\ ~parked'
     /\ ~opened' => torn' = torn \cup ({op.key} \cap Keys)
     /\ next = [at |-> "act", op |-> op]

LEMMA Handled ==
  ASSUME NEW op, Handle(op)
  PROVE  \E next : Take(op, next) /\ Follows(op, next)
<1>1. CASE Quit(op) \/ Unauthenticated(op) \/ Read(op) \/ Replay(op) \/ Unheard(op) \/ Reject(op)
  <2>1. Take(op, Free)
    BY <1>1, Zenon DEF Quit, Unauthenticated, Read, Replay, Unheard, Reject
  <2>. QED
    BY <2>1, Zenon DEF Follows
<1>2. CASE Control(op) /\ op.key = NoKey
  <2>1. Take(op, Free)
    BY <1>2, Zenon DEF Control
  <2>. QED
    BY <2>1, Zenon DEF Follows
<1>3. CASE (Control(op) \/ Accept(op)) /\ op.key # NoKey
  <2>1. /\ Take(op, [at |-> "remember", op |-> op]) /\ opened'
        /\ op.kind \in Writes \cup {"control"} /\ ~InRing(op.key)
    BY <1>3, Zenon DEF Control, Accept
  <2>2. Control(op) => op.kind = "control"
    BY Zenon DEF Control
  <2>3. Accept(op) => ~parked'
    BY Zenon DEF Accept, MayWrite, penVars
  <2>. QED
    BY <1>3, <2>1, <2>2, <2>3, Zenon DEF Follows
<1>4. CASE Accept(op) /\ op.key = NoKey
  <2>1. Take(op, [at |-> "act", op |-> op]) /\ op.kind \in Writes /\ opened' /\ ~parked'
    BY <1>4, Zenon DEF Accept, MayWrite, penVars
  <2>. QED
    BY <1>4, <2>1, Zenon DEF Follows
<1>5. CASE Legacy(op)
  <2>1. /\ Take(op, [at |-> "act", op |-> op]) /\ op.kind \in Writes /\ ~opened'
        /\ torn' = torn \cup ({op.key} \cap Keys)
    BY <1>5, Zenon DEF Legacy
  <2>. QED
    BY <2>1, Zenon DEF Follows
<1>. QED
  BY <1>1, <1>2, <1>3, <1>4, <1>5, Zenon DEF Handle

LEMMA HandleTypes ==
  ASSUME TypeOK, NEW op, Handle(op)
  PROVE  Disk' /\ Queue' /\ Turn' /\ Rest'
<1>1. PICK next : Take(op, next) /\ Follows(op, next)
  BY Handled
<1>2. /\ op \in Ops /\ stage' = next
      /\ ops' \in Seq(Ops) /\ Len(ops') <= QueueCap
      /\ Turn' /\ sends' = sends /\ starts' = starts /\ newer' = newer
  BY <1>1, TakeTypes
<1>7. stage' \in Stages
  BY <1>1, <1>2, Staged DEF Follows
<1>3. status' \in {"up", "awaiting", "closing", "down"}
  BY DEF TypeOK, Handle, Quit, Unauthenticated, Read, Replay, Control, Unheard, Reject, Accept, Legacy
<1>4. ring' = ring /\ events' = events /\ torn' \subseteq Keys
  BY DEF TypeOK, Handle, Quit, Unauthenticated, Read, Replay, Control, Unheard, Reject, Accept, Legacy, pumpVars
<1>5. acted' \in [Keys -> Nat]
  <2>1. CountAct(op) \/ acted' = acted
    BY DEF Handle, Quit, Unauthenticated, Read, Replay, Control, Unheard, Reject, Accept, Legacy
  <2>. QED
    BY <1>2, <2>1, Counted DEF TypeOK
<1>6. pen' \in 0 .. MaxGrants /\ minted' \in 0 .. MaxGrants
  <2>1. \/ minted < MaxGrants /\ Pen!Grant
        \/ Pen!Drop \/ Pen!Park \/ Pen!Unpark
        \/ UNCHANGED penVars
    BY Zenon DEF Handle, Quit, Unauthenticated, Read, Replay, Control, Unheard, Reject, Accept, Legacy
  <2>. QED
    BY <2>1, PenTypes
<1>. QED
  BY <1>2, <1>3, <1>4, <1>5, <1>6, <1>7 DEF TypeOK, Disk, Queue, Rest

\* The rest of the loop: the answer is remembered, then the runtime acts.
LEMMA WorkTypes ==
  ASSUME TypeOK,
         \/ Remember \/ StartTurn \/ IgnoreSubmit \/ EnqueueSteer
         \/ Answer \/ AnswerNobody \/ AnswerAmiss \/ Decide \/ ActElsewhere
  PROVE  Disk' /\ Queue' /\ Turn' /\ Rest'
<1>1. CASE Remember
  <2>. DEFINE k == stage.op.key
  <2>1. k \in Keys /\ stage.op \in Ops /\ [stage EXCEPT !.at = "act"] = [at |-> "act", op |-> stage.op]
    BY <1>1, AtStage DEF Remember
  <2>2. ring' \in Seq(Keys) /\ Len(ring') <= RingCap
    BY <1>1, <2>1, RingTypes DEF Remember
  <2>3. newer' \in [Keys -> 0 .. RingCap]
    <3>1. RingCap \in Nat /\ \A j \in Keys : newer[j] \in 0 .. RingCap
      BY ServeAssumption DEF TypeOK
    <3>2. \A n \in 0 .. RingCap : CountTo(n, RingCap) \in 0 .. RingCap
      BY <3>1 DEF CountTo
    <3>. QED
      BY <1>1, <3>1, <3>2 DEF Remember
  <2>4. stage' \in Stages
    BY <1>1, <2>1, Staged DEF Remember
  <2>5. UNCHANGED <<turnVars, settled>> => Turn'
    BY DEF TypeOK, Turn, turnVars, askVars
  <2>. QED
    BY <1>1, <2>1, <2>2, <2>3, <2>4, <2>5 DEF Remember, TypeOK, Disk, Queue, Rest, penVars, turnVars, askVars, pumpVars, procVars
\* The steps of the runtime: they leave the ring, the queue and the pen alone.
<1>2. ASSUME /\ stage # Free /\ UNCHANGED <<penVars, ring, ops, pumpVars, sends, procVars, newer, torn>>
             /\ stage' = Free /\ status' \in {status, "awaiting"}
             /\ CountAct(stage.op) \/ acted' = acted
      PROVE  Disk' /\ Queue' /\ Rest'
  <2>1. acted' \in [Keys -> Nat]
    BY <1>2, AtStage, Counted DEF TypeOK
  <2>. QED
    BY <1>2, <2>1, Staged DEF TypeOK, Disk, Queue, Rest, penVars, pumpVars, procVars
<1>3. StartTurn => Turn'
  <2>. SUFFICES ASSUME StartTurn PROVE Turn'
    OBVIOUS
  <2>1. turn' \in {0, turns'} /\ turns' \in 0 .. MaxTurns /\ turn' # 0
    <3>1. turns \in Nat /\ MaxTurns \in Nat
      BY ServeAssumption DEF TypeOK
    <3>. QED
      BY <3>1 DEF StartTurn
  <2>. QED
    BY <2>1, Zenon DEF StartTurn, TypeOK, Turn, askVars
<1>4. IgnoreSubmit \/ AnswerNobody \/ AnswerAmiss \/ ActElsewhere => Turn'
  <2>. SUFFICES ASSUME UNCHANGED turnVars PROVE Turn'
    BY Zenon DEF IgnoreSubmit, AnswerNobody, AnswerAmiss, ActElsewhere
  <2>. QED
    BY Zenon DEF TypeOK, Turn, turnVars, askVars
<1>5. EnqueueSteer => Turn'
  <2>. SUFFICES ASSUME EnqueueSteer PROVE Turn'
    OBVIOUS
  <2>1. stage.op \in Ops /\ stage.op.kind = "steer"
    BY AtStage DEF EnqueueSteer, Acting
  <2>2. [during |-> stage.op.for, queued |-> turn] \in Steers
    <3>1. turn \in 0 .. MaxTurns
      BY ServeAssumption, SMTT(30) DEF TypeOK
    <3>2. stage.op.for \in 0 .. MaxTurns
      BY <2>1 DEF Ops
    <3>. QED
      BY <3>1, <3>2 DEF Steers
  <2>3. steers \in Seq(Steers) /\ Len(steers) \in Nat /\ Len(steers) <= SteerCap /\ SteerCap \in Nat
    BY LenProperties, ServeAssumption DEF TypeOK
  <2>4. Steered(stage.op) \in Seq(Steers) /\ Len(Steered(stage.op)) <= SteerCap
    BY <2>2, <2>3, AppendProperties DEF Steered
  <2>. QED
    BY <2>4 DEF EnqueueSteer, TypeOK, Turn, askVars, Done
<1>6. Answer => Turn'
  BY Zenon DEF Answer, Reaches, TypeOK, Turn
<1>7. Decide => Turn'
  <2>1. ASSUME Decide
        PROVE  /\ UNCHANGED <<turn, turns, steers, ask, asks, settled>> /\ asking' = FALSE
    BY <2>1 DEF Decide
  <2>. QED
    BY <2>1, Groups DEF Turn
<1>. QED
  BY <1>1, <1>2, <1>3, <1>4, <1>5, <1>6, <1>7
     DEF StartTurn, IgnoreSubmit, EnqueueSteer, Answer, AnswerNobody, AnswerAmiss, Decide, ActElsewhere, Acting, Done, history

\* Clients, the turn and the pump.
LEMMA TurnTypes ==
  ASSUME TypeOK,
         \/ \E kind \in Kinds, key \in Keys \cup {NoKey}, lease \in 0 .. minted :
              \E for \in Aims(kind) : Send(kind, key, lease, for)
         \/ Emit \/ ConsumeSteer \/ Ask \/ Resolve \/ AskUser \/ EndTurn \/ Pump
  PROVE  Disk' /\ Queue' /\ Turn' /\ Rest'
<1>1. ASSUME NEW kind \in Kinds, NEW key \in Keys \cup {NoKey}, NEW lease \in 0 .. minted,
             NEW for \in Aims(kind), Send(kind, key, lease, for)
      PROVE  Disk' /\ Queue' /\ Turn' /\ Rest'
  <2> DEFINE op == [kind |-> kind, key |-> key, lease |-> lease, for |-> for]
  <2>1. op \in Ops
    <3>1. lease \in 0 .. MaxGrants
      BY Counters, Bounds
    <3>2. CASE kind = "steer"
      <4>1. for \in 0 .. MaxTurns
        BY <3>2, Counters, Bounds DEF Aims
      <4>. QED
        BY <3>1, <3>2, <4>1 DEF Ops
    <3>3. CASE kind # "steer"
      <4>1. for \in 0 .. MaxAsks
        BY <3>3, ServeAssumption DEF Aims
      <4>. QED
        BY <3>1, <3>3, <4>1 DEF Ops
    <3>. QED
      BY <3>2, <3>3
  <2>2. ops' \in Seq(Ops) /\ Len(ops') <= QueueCap
    <3>1. ops \in Seq(Ops) /\ ops' = Append(ops, op) /\ Len(ops) < QueueCap
      BY <1>1 DEF Send, TypeOK
    <3>2. ops' \in Seq(Ops) /\ Len(ops') = Len(ops) + 1 /\ Len(ops) \in Nat /\ QueueCap \in Nat
      BY <2>1, <3>1, AppendProperties, LenProperties, ServeAssumption
    <3>. QED
      BY <3>1, <3>2
  <2>3. sends' \in 0 .. MaxSends
    <3>1. sends \in 0 .. MaxSends /\ MaxSends \in Nat
      BY Counters, Bounds
    <3>. QED
      BY <1>1, <3>1 DEF Send
  <2>4. Turn'
    BY <1>1, Zenon DEF Send, TypeOK, Turn, turnVars, askVars
  <2>. QED
    BY <1>1, <2>2, <2>3, <2>4 DEF Send, TypeOK, Disk, Queue, Rest, penVars, pumpVars, procVars, history
<1>2. CASE Emit \/ ConsumeSteer \/ Ask \/ Resolve \/ AskUser \/ EndTurn \/ Pump
  <2>1. Disk'
    BY <1>2 DEF Emit, ConsumeSteer, Ask, Resolve, AskUser, EndTurn, Pump, history, TypeOK, Disk
  <2>2. Queue'
    BY <1>2 DEF Emit, ConsumeSteer, Ask, Resolve, AskUser, EndTurn, Pump, loopVars, TypeOK, Queue
  <2>3. Rest'
    <3>1. events' \in 0 .. MaxEvents
      <4>1. events' = events \/ Emit \/ Pump
        BY <1>2, Zenon DEF ConsumeSteer, Ask, Resolve, AskUser, EndTurn, pumpVars
      <4>. QED
        BY <4>1, Counters, Bounds DEF Emit, Pump
    <3>. QED
      BY <1>2, <3>1 DEF Emit, ConsumeSteer, Ask, Resolve, AskUser, EndTurn, Pump, penVars, procVars, TypeOK, Rest
  <2>4. Emit \/ Pump => Turn'
    BY Groups, TurnStays, Zenon DEF Emit, Pump, turnVars, askVars
  <2>5. ConsumeSteer => Turn'
    <3>1. ASSUME ConsumeSteer
          PROVE  steers' \in Seq(Steers) /\ Len(steers') <= SteerCap
      <4>1. steers' \in Seq(Steers) /\ Len(steers') = Len(steers) - 1
        BY <3>1, HeadTailProperties DEF ConsumeSteer, TypeOK
      <4>2. Len(steers) \in Nat /\ Len(steers) <= SteerCap /\ SteerCap \in Nat
        BY LenProperties, ServeAssumption DEF TypeOK
      <4>. QED
        BY <4>1, <4>2
    <3>. QED
      BY <3>1, Groups, SteersMove, Zenon DEF ConsumeSteer, askVars
  <2>6. Ask => Turn'
    <3>1. ASSUME Ask
          PROVE  ask' \in {0, asks'} /\ asks' \in 0 .. MaxAsks /\ ask' # 0
      <4>1. asks \in Nat /\ MaxAsks \in Nat
        BY ServeAssumption DEF TypeOK
      <4>. QED
        BY <3>1, <4>1 DEF Ask
    <3>. QED
      BY <3>1, Zenon DEF Ask, TypeOK, Turn
  <2>7. Resolve => Turn'
    BY Zenon DEF Resolve, TypeOK, Turn
  <2>9. AskUser => Turn'
    <3>1. ASSUME AskUser
          PROVE  UNCHANGED <<turn, turns, steers, ask, asks, settled>> /\ turn # 0
      BY <3>1 DEF AskUser
    <3>. QED
      BY <3>1, Groups DEF Turn
  <2>8. EndTurn => Turn'
    <3>1. << >> \in Seq(Steers) /\ Len(<< >>) <= SteerCap
      BY EmptySeq, ServeAssumption
    <3>2. ASSUME EndTurn
          PROVE  /\ turn' \in {0, turns'} /\ turns' = turns
                 /\ steers' \in Seq(Steers) /\ Len(steers') <= SteerCap
      BY <3>1, <3>2 DEF EndTurn
    <3>3. ASSUME EndTurn
          PROVE  /\ ask' = ask /\ asks' = asks /\ settled' = settled /\ asking' = asking
                 /\ ask = 0 /\ asking = FALSE
      BY <3>3 DEF EndTurn, askVars
    <3>. QED
      BY <3>2, <3>3, Groups, Zenon DEF Turn
  <2>. QED
    BY <1>2, <2>1, <2>2, <2>3, <2>4, <2>5, <2>6, <2>7, <2>8, <2>9, Zenon
<1>. QED
  BY <1>1, <1>2, Zenon

\* Processes end and begin; the pen's time runs out.
LEMMA LifeTypes ==
  ASSUME TypeOK, Exit \/ Kill \/ Restart \/ Expire \/ UNCHANGED vars
  PROVE  Disk' /\ Queue' /\ Turn' /\ Rest'
<1>1. CASE Exit \/ UNCHANGED vars
  <2>1. Turn'
    BY <1>1, Groups, TurnStays, Zenon DEF Exit, vars, turnVars, askVars
  <2>2. Disk'
    BY <1>1, Groups, Zenon DEF Exit, vars, history, Disk
  <2>3. Queue'
    BY <1>1, Groups DEF Exit, vars, loopVars, Queue
  <2>4. Rest'
    BY <1>1, Groups, Zenon DEF Exit, vars, penVars, pumpVars, procVars, Rest
  <2>. QED
    BY <2>1, <2>2, <2>3, <2>4
<1>2. CASE Kill
  <2>1. torn' \subseteq Keys
    BY <1>2, AtStage DEF Kill, TypeOK
  <2>2. Queue'
    BY <1>2, Staged DEF Kill, TypeOK, Queue
  <2>. QED
    BY <1>2, <2>1, <2>2, Zenon DEF Kill, penVars, turnVars, askVars, pumpVars, procVars, TypeOK, Disk, Turn, Rest
<1>3. CASE Restart
  <2>1. Disk'
    BY <1>3 DEF Restart, TypeOK, Disk
  <2>2. Queue'
    <3>1. << >> \in Seq(Ops) /\ Len(<< >>) <= QueueCap
      BY EmptySeq, ServeAssumption
    <3>. QED
      BY <1>3, <3>1, Staged DEF Restart, Fresh, Queue
  <2>3. Turn'
    <3>1. << >> \in Seq(Steers) /\ Len(<< >>) <= SteerCap /\ 0 \in 0 .. MaxAsks
      BY EmptySeq, ServeAssumption
    <3>. QED
      BY <1>3, <3>1, Zenon DEF Restart, Fresh, TypeOK, Turn
  <2>4. Rest'
    <3>1. pen' \in 0 .. MaxGrants /\ minted' \in 0 .. MaxGrants
      BY <1>3, PenTypes DEF Restart, Fresh
    <3>2. starts' \in 1 .. MaxStarts /\ events' \in 0 .. MaxEvents
      BY <1>3, Counters, Bounds, SMTT(30) DEF Restart, Fresh
    <3>. QED
      BY <1>3, <3>1, <3>2 DEF Restart, TypeOK, Rest
  <2>. QED
    BY <2>1, <2>2, <2>3, <2>4
<1>4. CASE Expire
  <2>1. pen' \in 0 .. MaxGrants /\ minted' \in 0 .. MaxGrants
    BY <1>4, PenTypes DEF Expire
  <2>. QED
    BY <1>4, <2>1, Zenon DEF Expire, loopVars, turnVars, askVars, pumpVars, procVars, history,
                             TypeOK, Disk, Queue, Turn, Rest
<1>. QED
  BY <1>1, <1>2, <1>3, <1>4

LEMMA InitTypes == Init => TypeOK
<1>. SUFFICES ASSUME Init PROVE Disk /\ Queue /\ Turn /\ Rest /\ Flags
  BY Groups
<1>1. /\ {RingCap, SteerCap, QueueCap, MaxGrants, MaxAsks, MaxEvents, MaxSends, MaxTurns} \subseteq Nat
      /\ Len(<< >>) = 0 /\ \A S : << >> \in Seq(S)
  BY EmptySeq, ServeAssumption
<1>2. Flags
  BY Zenon DEF Init, Pen!Init, Flags
<1>3. Disk /\ Queue
  BY <1>1, Staged DEF Init, Disk, Queue
<1>4. Turn
  BY <1>1 DEF Init, Turn
<1>5. Rest
  <2>1. pen = 0 /\ minted = 0 /\ events = 0 /\ sends = 0 /\ starts = 1
    BY DEF Init, Pen!Init
  <2>. QED
    BY <2>1, Bounds, ServeAssumption DEF Rest
<1>. QED
  BY <1>2, <1>3, <1>4, <1>5

LEMMA StepTypes == TypeOK /\ [Next]_vars => TypeOK'
<1>. SUFFICES ASSUME TypeOK, [Next]_vars PROVE TypeOK'
  OBVIOUS
<1>1. Flags'
  BY FlagsStay
<1>2. Disk' /\ Queue' /\ Turn' /\ Rest'
  <2>1. Loop => (\E op : Handle(op)) \/ Remember \/ StartTurn \/ IgnoreSubmit \/ EnqueueSteer
                 \/ Answer \/ AnswerNobody \/ AnswerAmiss \/ Decide \/ ActElsewhere
    BY Zenon DEF Loop
  <2>2. CASE Loop
    BY <2>1, <2>2, HandleTypes, WorkTypes, Zenon
  <2>3. CASE ~Loop
    BY <2>3, TurnTypes, LifeTypes, Zenon DEF Next
  <2>. QED
    BY <2>2, <2>3
<1>3. Disk' /\ Queue' /\ Turn' /\ Rest' /\ Flags' => TypeOK'
  <2>1. Flags' => \A b \in {parked, tokens, opened, settled, asking, writer, pump}' : b \in BOOLEAN
    BY Zenon DEF Flags
  <2>. QED
    BY <2>1, Zenon DEF TypeOK, Disk, Queue, Turn, Rest
<1>. QED
  BY <1>1, <1>2, <1>3

\* Everything has its type: neither the ring nor the steering queue grows past its
\* limit, and an answer waits only on a ticket, a ticket only in a turn.
THEOREM TypeCorrect == Spec => []TypeOK
BY InitTypes, StepTypes, PTL DEF Spec

-----------------------------------------------------------------------------
(* The ring and the effects *)

\* What is owed for the operation at work: an accepted write is not in the ring
\* until its answer is, then it is, or it was taken with no plane and counts as torn;
\* nothing may park the session while a write is at work.
StageInv ==
  /\ status # "up" => stage = Free
  /\ stage # Free => stage.op.kind \in Writes \cup {"control"}
  /\ stage # Free /\ stage.at = "remember" => opened /\ ~InRing(stage.op.key)
  /\ stage # Free /\ stage.at = "act" =>
       /\ stage.op.kind # "control"
       /\ stage.op.key \in Keys => IF opened THEN InRing(stage.op.key) ELSE stage.op.key \in torn
  /\ stage # Free /\ stage.op.kind # "control" /\ opened => ~parked

\* The place of a key in the ring tells how many answers are younger.
RingOrder == \A i \in DOMAIN ring : newer[ring[i]] >= Len(ring) - i

\* The answer to a control operation that took effect is still to be remembered.
Owed(k) == stage # Free /\ stage.at = "remember" /\ stage.op.kind = "control" /\ stage.op.key = k

\* A key that took effect and is not in the ring was pushed out of it, or is torn.
Effects == \A k \in Keys : acted[k] > 0 /\ ~InRing(k) => newer[k] >= RingCap \/ k \in torn \/ Owed(k)

RingInv == StageInv /\ RingOrder /\ Effects

\* Steps that are none of the loop's and leave the disk and the loop alone.
LEMMA QuietKeeps ==
  ASSUME RingInv, UNCHANGED <<ring, newer, acted, torn, stage, opened, parked>>,
         status' = status \/ stage = Free
  PROVE  RingInv'
<1>1. StageInv'
  BY DEF RingInv, StageInv, InRing
<1>2. RingOrder'
  BY DEF RingInv, RingOrder
<1>3. Effects'
  BY DEF RingInv, Effects, InRing, Owed
<1>. QED
  BY <1>1, <1>2, <1>3 DEF RingInv

LEMMA HandleKeeps ==
  ASSUME TypeOK, RingInv, NEW op, Handle(op)
  PROVE  RingInv'
<1>1. PICK next : Take(op, next) /\ Follows(op, next)
  BY Handled
<1>2. op \in Ops /\ stage = Free /\ stage' = next /\ newer' = newer /\ status = "up"
  BY <1>1, TakeTypes DEF Take
<1>3. ring' = ring /\ torn \subseteq torn' /\ (status' = "up" \/ stage' = Free)
  BY <1>2 DEF Handle, Quit, Unauthenticated, Read, Replay, Control, Unheard, Reject, Accept, Legacy, Take
<1>4. StageInv'
  <2>1. CASE next = Free
    BY <1>2, <2>1 DEF StageInv
  <2>2. CASE next = [at |-> "remember", op |-> op]
    BY <1>1, <1>2, <1>3, <2>2, Staged DEF Follows, StageInv, InRing
  <2>3. CASE next = [at |-> "act", op |-> op]
    BY <1>1, <1>2, <1>3, <2>3, Staged, ServeAssumption DEF Follows, StageInv, InRing, Writes
  <2>. QED
    BY <1>1, <2>1, <2>2, <2>3 DEF Follows
<1>5. RingOrder'
  BY <1>2, <1>3 DEF RingInv, RingOrder
<1>6. Effects'
  <2>. SUFFICES ASSUME NEW k \in Keys, acted'[k] > 0, ~InRing(k)'
                PROVE  newer'[k] >= RingCap \/ k \in torn' \/ Owed(k)'
    BY DEF Effects
  <2>1. CASE acted' = acted
    BY <1>2, <1>3, <2>1 DEF RingInv, Effects, InRing, Owed
  <2>2. CASE Control(op) /\ CountAct(op)
    <3>1. CASE k = op.key
      <4>1. next = [at |-> "remember", op |-> op] /\ op.kind = "control"
        BY <1>2, <2>2, <3>1, ServeAssumption DEF Control, Take
      <4>. QED
        BY <1>2, <3>1, <4>1, Staged DEF Owed
    <3>2. CASE k # op.key
      <4>1. acted'[k] = acted[k]
        BY <2>2, <3>2 DEF CountAct, TypeOK
      <4>. QED
        BY <1>2, <1>3, <4>1 DEF RingInv, Effects, InRing, Owed
    <3>. QED
      BY <3>1, <3>2
  <2>3. acted' = acted \/ (Control(op) /\ CountAct(op))
    BY Zenon DEF Handle, Quit, Unauthenticated, Read, Replay, Control, Unheard, Reject, Accept, Legacy
  <2>. QED
    BY <2>1, <2>2, <2>3
<1>. QED
  BY <1>4, <1>5, <1>6 DEF RingInv

\* remember: the youngest RingCap answers stay, every other is one answer older.
LEMMA RememberKeeps ==
  ASSUME TypeOK, RingInv, Remember
  PROVE  RingInv'
<1>. PICK k \in Keys : k = stage.op.key
  BY AtStage DEF Remember
<1>. PICK n \in Nat : n = Len(ring)
  BY LenProperties DEF TypeOK
<1>1. /\ k = stage.op.key /\ stage.op \in Ops /\ stage # Free /\ stage.at = "remember" /\ ~InRing(k)
      /\ [stage EXCEPT !.at = "act"] = [at |-> "act", op |-> stage.op]
      /\ stage.op.kind \in Writes \cup {"control"}
  BY AtStage DEF Remember, RingInv, StageInv
<1>2. ring \in Seq(Keys) /\ n = Len(ring) /\ n <= RingCap /\ RingCap \in Nat \ {0} /\ DOMAIN ring = 1 .. n
  BY LenProperties, ServeAssumption DEF TypeOK
<1>3. /\ ring' \in Seq(Keys)
      /\ n < RingCap => Len(ring') = n + 1 /\ \A i \in 1 .. n : ring'[i] = ring[i]
      /\ n = RingCap => Len(ring') = RingCap /\ \A i \in 1 .. RingCap - 1 : ring'[i] = ring[i + 1]
      /\ ring'[Len(ring')] = k /\ Len(ring') > 0 /\ Len(ring') <= RingCap
  BY <1>1, <1>2, RingRemembers DEF Remember
<1>4. Len(ring') \in Nat /\ DOMAIN ring' = 1 .. Len(ring')
  BY <1>3, LenProperties
<1>12. ring'[Len(ring')] = k /\ Len(ring') \in 1 .. Len(ring') /\ Len(ring') - Len(ring') = 0
  <2>1. ring'[Len(ring')] = k /\ Len(ring') > 0
    BY <1>3, Zenon
  <2>. QED
    BY <1>4, <2>1
<1>5. \A j \in Keys : newer[j] \in 0 .. RingCap
  BY DEF TypeOK
<1>6. /\ newer'[k] = 0
      /\ \A j \in Keys : j # k => newer'[j] = IF newer[j] < RingCap THEN newer[j] + 1 ELSE newer[j]
  BY <1>1 DEF Remember, CountTo
<1>7. \A i \in 1 .. n : ring[i] \in Keys /\ ring[i] # k /\ newer[ring[i]] >= n - i
  BY <1>1, <1>2, ElementOfSeq DEF RingInv, RingOrder, InRing
<1>8. InRing(k)'
  BY <1>4, <1>12 DEF InRing
<1>9. RingOrder'
  <2>. SUFFICES ASSUME NEW i \in 1 .. Len(ring')
                PROVE  newer'[ring'[i]] >= Len(ring') - i
    BY <1>4 DEF RingOrder
  <2>1. CASE i = Len(ring')
    <3>1. ring'[i] = k /\ Len(ring') - i = 0
      BY <1>12, <2>1
    <3>. QED
      BY <1>6, <3>1
  <2>2. CASE i # Len(ring') /\ n < RingCap
    <3>1. i \in 1 .. n /\ ring'[i] = ring[i] /\ Len(ring') = n + 1
      BY <1>2, <1>3, <1>4, <2>2
    <3>. QED
      BY <1>2, <1>5, <1>6, <1>7, <3>1
  <2>3. CASE i # Len(ring') /\ n = RingCap
    <3>1. i + 1 \in 1 .. n /\ ring'[i] = ring[i + 1] /\ Len(ring') = n
      BY <1>2, <1>3, <1>4, <2>3
    <3>2. newer[ring[i + 1]] >= n - (i + 1) /\ ring[i + 1] \in Keys /\ ring[i + 1] # k
      BY <1>7, <3>1
    <3>. QED
      BY <1>2, <1>5, <1>6, <3>1, <3>2, <2>3
  <2>. QED
    BY <1>2, <2>1, <2>2, <2>3
<1>10. Effects'
  <2>. SUFFICES ASSUME NEW j \in Keys, acted'[j] > 0, ~InRing(j)'
                PROVE  newer'[j] >= RingCap \/ j \in torn' \/ Owed(j)'
    BY DEF Effects
  <2>1. j # k
    BY <1>8
  <2>2. acted'[j] = acted[j] /\ torn' = torn \ {k}
    BY DEF Remember
  <2>3. newer'[j] >= newer[j]
    BY <1>2, <1>5, <1>6, <2>1
  <2>4. CASE ~InRing(j)
    <3>1. ~Owed(j)
      BY <2>1 DEF Owed
    <3>2. newer[j] >= RingCap \/ j \in torn
      BY <2>2, <2>4, <3>1 DEF RingInv, Effects
    <3>3. newer[j] >= RingCap => newer'[j] >= RingCap
      BY <1>2, <1>5, <1>6, <2>1
    <3>. QED
      BY <2>1, <2>2, <3>2, <3>3
  \* The one that is pushed out.
  <2>5. CASE InRing(j)
    <3>1. PICK i \in 1 .. n : ring[i] = j
      BY <1>2, <2>5 DEF InRing
    <3>2. n = RingCap
      <4>. SUFFICES ASSUME n < RingCap PROVE FALSE
        BY <1>2
      <4>1. i \in 1 .. Len(ring') /\ ring'[i] = j
        BY <1>2, <1>3, <3>1
      <4>. QED
        BY <1>4, <4>1 DEF InRing
    <3>3. i = 1
      <4>. SUFFICES ASSUME i # 1 PROVE FALSE
        OBVIOUS
      <4>1. i - 1 \in 1 .. RingCap - 1 /\ i - 1 \in 1 .. Len(ring') /\ (i - 1) + 1 = i
        BY <1>2, <1>3, <3>2
      <4>2. ring'[i - 1] = j
        BY <1>3, <3>1, <3>2, <4>1
      <4>. QED
        BY <1>4, <4>1, <4>2 DEF InRing
    <3>4. newer[j] >= RingCap - 1
      BY <1>7, <3>1, <3>2, <3>3
    <3>. QED
      BY <1>2, <1>5, <1>6, <2>1, <3>4
  <2>. QED
    BY <2>4, <2>5
<1>11. StageInv'
  <2>1. /\ opened' = opened /\ status' = status /\ parked' = parked
        /\ stage' = Free \/ stage' = [at |-> "act", op |-> stage.op]
        /\ stage.op.kind = "control" => stage' = Free
    BY <1>1 DEF Remember, penVars
  <2>2. status = "up"
    BY <1>1 DEF RingInv, StageInv
  <2>3. opened => (stage.op.kind # "control" => ~parked)
    BY <1>1 DEF RingInv, StageInv
  <2>4. CASE stage' = Free
    BY <2>4 DEF StageInv
  <2>5. CASE stage' = [at |-> "act", op |-> stage.op] /\ stage' # Free /\ stage.op.kind # "control"
    <3>1. stage'.op = stage.op /\ stage'.at = "act" /\ stage.op.kind \in Writes
      BY <1>1, <2>5
    <3>2. stage'.op.kind # "control" => ~parked' \/ ~opened'
      BY <2>1, <2>3, <2>5, Zenon
    <3>3. InRing(stage.op.key)'
      BY <1>1, <1>8, <3>1 DEF InRing
    <3>4. opened'
      BY <1>1, <2>1, Zenon DEF RingInv, StageInv
    <3>. QED
      BY <1>1, <2>1, <2>2, <3>1, <3>2, <3>3, <3>4 DEF StageInv
  <2>. QED
    BY <2>1, <2>4, <2>5
<1>. QED
  BY <1>9, <1>10, <1>11 DEF RingInv

\* The runtime acts: the loop is done with the operation, whose key is accounted for.
LEMMA WorkKeeps ==
  ASSUME TypeOK, RingInv,
         \/ StartTurn \/ IgnoreSubmit \/ EnqueueSteer
         \/ Answer \/ AnswerNobody \/ AnswerAmiss \/ Decide \/ ActElsewhere
  PROVE  RingInv'
<1>1. /\ stage # Free /\ stage.at = "act" /\ stage' = Free
      /\ ring' = ring /\ newer' = newer /\ torn' = torn
      /\ CountAct(stage.op) \/ acted' = acted
  BY DEF StartTurn, IgnoreSubmit, EnqueueSteer, Answer, AnswerNobody, AnswerAmiss, Decide, ActElsewhere,
         Acting, Done, history
<1>2. stage.op.key \in Keys => InRing(stage.op.key) \/ stage.op.key \in torn
  BY <1>1 DEF RingInv, StageInv
<1>3. StageInv'
  BY <1>1 DEF StageInv
<1>4. RingOrder'
  BY <1>1 DEF RingInv, RingOrder
<1>5. Effects'
  <2>. SUFFICES ASSUME NEW k \in Keys, acted'[k] > 0, ~InRing(k)'
                PROVE  newer'[k] >= RingCap \/ k \in torn'
    BY DEF Effects
  <2>1. ~InRing(k) /\ ~Owed(k)
    BY <1>1 DEF InRing, Owed
  <2>2. CASE acted'[k] = acted[k]
    BY <1>1, <2>1, <2>2 DEF RingInv, Effects
  <2>3. CASE k = stage.op.key
    BY <1>1, <1>2, <2>1, <2>3
  <2>4. acted'[k] = acted[k] \/ k = stage.op.key
    BY <1>1 DEF CountAct, TypeOK
  <2>. QED
    BY <2>2, <2>3, <2>4
<1>. QED
  BY <1>3, <1>4, <1>5 DEF RingInv

\* A kill before remember() tears a control operation; a new process starts with
\* nothing at work.
LEMMA LifeKeeps ==
  ASSUME TypeOK, RingInv, Kill \/ Restart
  PROVE  RingInv'
<1>1. /\ stage' = Free /\ ring' = ring /\ newer' = newer /\ acted' = acted /\ torn \subseteq torn'
      /\ \A k \in Keys : Owed(k) => k \in torn' \/ Restart
  BY DEF Kill, Restart, Fresh, Owed
<1>2. Restart => stage = Free
  BY DEF Restart, RingInv, StageInv
<1>3. StageInv'
  BY <1>1 DEF StageInv
<1>4. RingOrder'
  BY <1>1 DEF RingInv, RingOrder
<1>5. Effects'
  BY <1>1, <1>2 DEF RingInv, Effects, InRing, Owed
<1>. QED
  BY <1>3, <1>4, <1>5 DEF RingInv

LEMMA InitRing == Init => RingInv
<1>. SUFFICES ASSUME Init PROVE RingInv
  OBVIOUS
<1>1. DOMAIN ring = {}
  BY EmptySeq DEF Init
<1>. QED
  BY <1>1 DEF Init, RingInv, StageInv, RingOrder, Effects

LEMMA StepRing == TypeOK /\ RingInv /\ [Next]_vars => RingInv'
<1>. SUFFICES ASSUME TypeOK, RingInv, [Next]_vars PROVE RingInv'
  OBVIOUS
<1>1. CASE \E op : Handle(op)
  BY <1>1, HandleKeeps
<1>2. CASE Remember
  BY <1>2, RememberKeeps
<1>3. CASE \/ StartTurn \/ IgnoreSubmit \/ EnqueueSteer
           \/ Answer \/ AnswerNobody \/ AnswerAmiss \/ Decide \/ ActElsewhere
  BY <1>3, WorkKeeps
<1>4. CASE Kill \/ Restart
  BY <1>4, LifeKeeps
<1>5. CASE \/ Emit \/ ConsumeSteer \/ Ask \/ Resolve \/ AskUser \/ EndTurn \/ Pump
           \/ Exit \/ Expire \/ UNCHANGED vars
           \/ \E kind, key, lease, for : Send(kind, key, lease, for)
  <2>1. UNCHANGED <<ring, newer, acted, torn, stage, opened>>
    BY <1>5, Zenon DEF Emit, ConsumeSteer, Ask, Resolve, AskUser, EndTurn, Pump, Exit, Expire, Send, vars, loopVars, history
  <2>2. parked' = parked
    BY <1>5, Zenon DEF Emit, ConsumeSteer, Ask, Resolve, AskUser, EndTurn, Pump, Exit, Expire, Pen!Drop, Send, vars, penVars
  <2>3. status' = status \/ stage = Free
    BY <1>5 DEF Emit, ConsumeSteer, Ask, Resolve, AskUser, EndTurn, Pump, Exit, Expire, Send, vars, Ending, RingInv, StageInv
  <2>. QED
    BY <2>1, <2>2, <2>3, QuietKeeps
<1>. QED
  BY <1>1, <1>2, <1>3, <1>4, <1>5, Zenon DEF Next, Loop

LEMMA RingInvariant == Spec => [](TypeOK /\ RingInv)
BY InitTypes, StepTypes, InitRing, StepRing, PTL DEF Spec

\* With a plane open, a key that took effect is let in again only after RingCap
\* younger answers, or when its last effect left no answer: over any number of
\* retries, kills and restarts, for a ring of any size.
THEOREM KeyedOperationsActOnce == Spec => ActedOnce
<1>1. TypeOK /\ RingInv /\ [Next]_vars =>
        [\A k \in Keys : LetIn(k) /\ acted[k] > 0 => newer[k] >= RingCap \/ k \in torn]_vars
  <2>. SUFFICES ASSUME TypeOK, RingInv, Next, NEW k \in Keys, LetIn(k), acted[k] > 0
                PROVE  newer[k] >= RingCap \/ k \in torn
    BY Zenon
  <2>1. PICK op : Handle(op)
    <3>1. stage = Free /\ stage' # Free
      BY DEF LetIn
    <3>2. ~(\/ Remember \/ StartTurn \/ IgnoreSubmit \/ EnqueueSteer
            \/ Answer \/ AnswerNobody \/ AnswerAmiss \/ Decide \/ ActElsewhere)
      BY <3>1 DEF Remember, StartTurn, IgnoreSubmit, EnqueueSteer, Answer, AnswerNobody, AnswerAmiss, Decide, ActElsewhere, Acting
    <3>3. ~(\/ Emit \/ ConsumeSteer \/ Ask \/ Resolve \/ AskUser \/ EndTurn \/ Pump
            \/ Exit \/ Expire \/ Kill \/ Restart
            \/ \E kind, key, lease, for : Send(kind, key, lease, for))
      BY <3>1 DEF Emit, ConsumeSteer, Ask, Resolve, AskUser, EndTurn, Pump, Exit, Expire, Kill, Restart, Fresh, Send, loopVars
    <3>. QED
      BY <3>2, <3>3, Zenon DEF Next, Loop
  <2>2. PICK next : Take(op, next) /\ Follows(op, next)
    BY <2>1, Handled
  <2>3. stage = Free /\ stage' = next /\ next # Free /\ next.op.key = k /\ opened' /\ op \in Ops
    BY <2>2, TakeTypes DEF LetIn
  <2>4. next = [at |-> "remember", op |-> op] /\ ~InRing(op.key)
    <3>1. CASE next = [at |-> "act", op |-> op]
      BY <2>2, <2>3, <3>1, Staged, ServeAssumption DEF Follows
    <3>. QED
      BY <2>2, <2>3, <3>1 DEF Follows
  <2>5. ~InRing(k) /\ ~Owed(k)
    BY <2>3, <2>4 DEF Owed
  <2>. QED
    BY <2>5 DEF RingInv, Effects
<1>. QED
  BY <1>1, RingInvariant, PTL DEF Spec, ActedOnce

\* With a plane open the runtime starts no turn, takes no steer and is given no
\* approval while the session is parked, however operations, expiries and turns
\* interleave.
THEOREM ParkedMeansIdle == Spec => ParkHolds
<1>1. TypeOK /\ RingInv /\ [Next]_vars => [Acts /\ opened => ~parked]_vars
  <2>. SUFFICES ASSUME TypeOK, RingInv, Next, Acts, opened
                PROVE  ~parked
    BY Zenon
  <2>1. CASE StartTurn \/ EnqueueSteer \/ Answer
    <3>1. stage # Free /\ stage.op.kind # "control"
      BY <2>1 DEF StartTurn, EnqueueSteer, Answer, Acting
    <3>. QED
      BY <3>1 DEF RingInv, StageInv
  <2>2. CASE ~(StartTurn \/ EnqueueSteer \/ Answer)
    <3>1. /\ turns' = turns /\ settled' \in {settled, FALSE}
          /\ steers' = steers \/ ConsumeSteer \/ steers' = << >>
      <4>1. CASE \E op : Handle(op)
        BY <4>1, Zenon DEF Handle, Quit, Unauthenticated, Read, Replay, Control, Unheard, Reject, Accept, Legacy,
                           Take, turnVars, askVars
      <4>2. CASE Remember \/ IgnoreSubmit \/ AnswerNobody \/ AnswerAmiss \/ Decide \/ ActElsewhere
        BY <4>2, Zenon DEF Remember, IgnoreSubmit, AnswerNobody, AnswerAmiss, Decide, ActElsewhere, turnVars, askVars
      <4>3. CASE \/ Emit \/ ConsumeSteer \/ Ask \/ Resolve \/ AskUser \/ EndTurn \/ Pump
                 \/ Exit \/ Kill \/ Expire
                 \/ \E kind, key, lease, for : Send(kind, key, lease, for)
        BY <4>3, Zenon DEF Emit, ConsumeSteer, Ask, Resolve, AskUser, EndTurn, Pump, Exit, Kill, Expire, Send, turnVars, askVars
      <4>4. CASE Restart
        BY <4>4, Zenon DEF Restart, Fresh
      <4>. QED
        BY <2>2, <4>1, <4>2, <4>3, <4>4, Zenon DEF Next, Loop
    <3>2. ~(Len(steers') > Len(steers))
      <4>1. Len(steers) \in Nat
        BY LenProperties DEF TypeOK
      <4>2. ConsumeSteer => Len(steers') = Len(steers) - 1
        BY HeadTailProperties DEF ConsumeSteer, TypeOK
      <4>3. steers' = << >> => Len(steers') = 0
        BY EmptySeq
      <4>. QED
        BY <3>1, <4>1, <4>2, <4>3
    <3>3. ~(settled' /\ ~settled)
      <4>1. settled = TRUE \/ settled = FALSE
        BY Groups, Zenon DEF Flags
      <4>2. settled = FALSE => settled' = FALSE
        BY <3>1, Zenon
      <4>. QED
        BY <4>1, <4>2, Zenon
    <3>. QED
      BY <3>1, <3>2, <3>3, Zenon DEF Acts
  <2>. QED
    BY <2>1, <2>2
<1>. QED
  BY <1>1, RingInvariant, PTL DEF Spec, ParkHolds

\* A steer queued while a turn ran reaches that turn or none, with any number of
\* steers, turns and processes.
THEOREM LeftoversAreDropped == Spec => []LeftoverSteersDiscarded
<1>1. Init => LeftoverSteersDiscarded
  <2>1. DOMAIN << >> = {}
    BY EmptySeq
  <2>. QED
    BY <2>1 DEF Init, LeftoverSteersDiscarded
<1>2. TypeOK /\ LeftoverSteersDiscarded /\ [Next]_vars => LeftoverSteersDiscarded'
  <2>. SUFFICES ASSUME TypeOK, LeftoverSteersDiscarded, [Next]_vars
                PROVE  LeftoverSteersDiscarded'
    OBVIOUS
  <2>1. steers \in Seq(Steers) /\ Len(steers) \in Nat /\ DOMAIN steers = 1 .. Len(steers)
    BY LenProperties DEF TypeOK
  <2>2. CASE steers' = steers /\ (turn' = turn \/ turn = 0)
    BY <2>2 DEF LeftoverSteersDiscarded
  <2>3. CASE steers' = << >>
    <3>1. DOMAIN << >> = {}
      BY EmptySeq
    <3>. QED
      BY <2>3, <3>1 DEF LeftoverSteersDiscarded
  <2>4. CASE ConsumeSteer
    <3>1. /\ steers' \in Seq(Steers) /\ Len(steers') = Len(steers) - 1
          /\ \A i \in 1 .. Len(steers') : steers'[i] = steers[i + 1]
      BY <2>4, HeadTailProperties DEF ConsumeSteer, TypeOK
    <3>2. DOMAIN steers' = 1 .. Len(steers') /\ \A i \in 1 .. Len(steers') : i + 1 \in DOMAIN steers
      BY <2>1, <3>1, LenProperties
    <3>. QED
      BY <2>4, <3>1, <3>2 DEF LeftoverSteersDiscarded, ConsumeSteer
  <2>5. CASE EnqueueSteer /\ steers' # steers
    <3> DEFINE x == [during |-> stage.op.for, queued |-> turn]
    <3>1. steers' = Append(steers, x) /\ turn' = turn
      BY <2>5 DEF EnqueueSteer, Steered
    <3>2. x \in Steers
      <4>1. stage.op \in Ops /\ stage.op.kind = "steer"
        BY <2>5, AtStage DEF EnqueueSteer, Acting
      <4>2. turn \in 0 .. MaxTurns
        BY Counters, Bounds
      <4>3. stage.op.for \in 0 .. MaxTurns
        BY <4>1 DEF Ops
      <4>. QED
        BY <4>2, <4>3 DEF Steers
    <3>3. /\ steers' \in Seq(Steers) /\ Len(steers') = Len(steers) + 1
          /\ \A i \in 1 .. Len(steers) : steers'[i] = steers[i]
          /\ steers'[Len(steers) + 1] = x
      BY <2>1, <3>1, <3>2, AppendProperties
    <3>4. DOMAIN steers' = DOMAIN steers \cup {Len(steers) + 1}
      BY <2>1, <3>3, LenProperties
    <3>5. steers'[Len(steers) + 1].queued = turn
      BY <3>3
    <3>. QED
      BY <2>1, <3>1, <3>3, <3>4, <3>5 DEF LeftoverSteersDiscarded
  <2>6. \/ steers' = steers /\ (turn' = turn \/ turn = 0)
        \/ steers' = << >> \/ ConsumeSteer \/ EnqueueSteer
    <3>1. CASE \E op : Handle(op)
      BY <3>1, ZenonT(30) DEF Handle, Quit, Unauthenticated, Read, Replay, Control, Unheard, Reject, Accept, Legacy,
                         Take, turnVars, askVars
    <3>2. CASE Remember \/ StartTurn \/ IgnoreSubmit \/ Answer \/ AnswerNobody \/ AnswerAmiss \/ Decide \/ ActElsewhere
      BY <3>2, Zenon DEF Remember, StartTurn, IgnoreSubmit, Answer, AnswerNobody, AnswerAmiss, Decide, ActElsewhere, turnVars, askVars
    <3>3. CASE \/ Emit \/ Ask \/ Resolve \/ AskUser \/ EndTurn \/ Pump
               \/ Exit \/ Kill \/ Expire \/ UNCHANGED vars
               \/ \E kind, key, lease, for : Send(kind, key, lease, for)
      BY <3>3, Zenon DEF Emit, Ask, Resolve, AskUser, EndTurn, Pump, Exit, Kill, Expire, Send, vars, turnVars, askVars
    <3>4. CASE Restart
      BY <3>4, Zenon DEF Restart, Fresh
    <3>. QED
      BY <3>1, <3>2, <3>3, <3>4, Zenon DEF Next, Loop
  <2>7. CASE EnqueueSteer /\ steers' = steers
    BY <2>7 DEF EnqueueSteer, LeftoverSteersDiscarded
  <2>. QED
    BY <2>2, <2>3, <2>4, <2>5, <2>6, <2>7
<1>. QED
  BY <1>1, <1>2, TypeCorrect, PTL DEF Spec


-----------------------------------------------------------------------------
(* SessionAttach: which process runs such a loop, for any set of processes. *)

-----------------------------------------------------------------------------
(* Type correctness *)

\* A step keeps the types, and only a process that publishes or serves listens.
LEMMA TypeStep == AttachTypeOK /\ [AttachNext]_attachVars => AttachTypeOK'
<1> SUFFICES ASSUME AttachTypeOK, [AttachNext]_attachVars PROVE AttachTypeOK'
  OBVIOUS
<1> USE DEF AttachTypeOK, Goto, Plan, See, past, files
<1>1. CASE UNCHANGED attachVars
  BY <1>1 DEF attachVars
<1>2. ASSUME NEW p \in Proc, Begin(p) \/ Arrive(p) \/ Detach(p) \/ OpenControl(p)
      PROVE AttachTypeOK'
  <2>1. CASE Begin(p)
    BY <2>1 DEF Begin, Steps, Looking
  <2>2. CASE Look(p)
    BY <2>2 DEF Look, Steps, Looking
  <2>3. CASE Judge(p)
    BY <2>3 DEF Judge, Steps, Looking
  <2>4. CASE Clear(p)
    BY <2>4 DEF Clear, UnlinkAdvert, Steps, Looking
  <2>5. CASE ClearSocket(p)
    BY <2>5 DEF ClearSocket, UnlinkSocket, Steps
  <2>6. CASE Join(p)
    BY <2>6 DEF Join, Steps, Ended
  <2>7. CASE Boot(p)
    BY <2>7 DEF Boot, Steps, Ended
  <2>8. CASE Detach(p)
    BY <2>8 DEF Detach, Steps, Ended
  <2>9. CASE OpenControl(p)
    BY <2>9 DEF OpenControl, Steps
  <2>. QED
    BY <1>2, <2>1, <2>2, <2>3, <2>4, <2>5, <2>6, <2>7, <2>8, <2>9 DEF Arrive
<1>3. ASSUME NEW p \in Proc, Claim(p) PROVE AttachTypeOK'
  <2>1. CASE Enter(p)
    BY <2>1 DEF Enter, Steps, Claiming
  <2>2. CASE Reread(p)
    BY <2>2 DEF Reread, Steps, Claiming
  <2>3. CASE Rejudge(p)
    BY <2>3 DEF Rejudge, Leave, Steps, Claiming
  <2>4. CASE Reclear(p)
    BY <2>4 DEF Reclear, Steps, Claiming
  <2>5. CASE ReclearSocket(p)
    BY <2>5 DEF ReclearSocket, Steps, Claiming
  <2>6. CASE Bind(p)
    BY <2>6 DEF Bind, Steps, Claiming
  <2>7. CASE BindError(p)
    BY <2>7 DEF BindError, Leave, Steps
  <2>8. CASE Publish(p)
    BY <2>8 DEF Publish, Leave, Steps
  <2>9. CASE PublishError(p)
    BY <2>9 DEF PublishError, Leave, Steps, Ended
  <2>. QED
    BY <1>3, <2>1, <2>2, <2>3, <2>4, <2>5, <2>6, <2>7, <2>8, <2>9 DEF Claim
<1>4. ASSUME NEW p \in Proc, Stop(p) \/ Depart(p) \/ Die(p) PROVE AttachTypeOK'
  <2>1. CASE Stop(p)
    BY <2>1 DEF Stop, Steps, Leaving
  <2>2. CASE Retract(p)
    BY <2>2 DEF Retract, UnlinkAdvert, Steps, Leaving
  <2>3. CASE RetractSocket(p)
    BY <2>3 DEF RetractSocket, UnlinkSocket, Steps, Leaving
  <2>4. CASE Cleanup(p)
    BY <2>4 DEF Cleanup, Steps, Ended
  <2>5. CASE Die(p)
    BY <2>5 DEF Die, Steps, Ended
  <2>. QED
    BY <1>4, <2>1, <2>2, <2>3, <2>4, <2>5 DEF Depart
<1>. QED
  BY <1>1, <1>2, <1>3, <1>4 DEF AttachNext

\* Every variable keeps its type, and a process that listens has bound its
\* socket and not begun to leave (AttachServer.start, stop).
THEOREM AttachTypeCorrect == AttachSpec => []AttachTypeOK
<1>1. AttachInit => AttachTypeOK
  BY DEF AttachInit, AttachTypeOK, Steps
<1>. QED
  BY <1>1, TypeStep, PTL DEF AttachSpec

-----------------------------------------------------------------------------
(* Clean detach *)

\* The files of a process stay on disk only while it will still remove them,
\* or when it was stopped short of that (stop, and every other unlink).
THEOREM CleanDetach == AttachSpec => []NothingLeftBehind
<1>1. AttachInit => NothingLeftBehind
  BY AttachAssumption DEF AttachInit, NothingLeftBehind
<1>2. AttachTypeOK /\ NothingLeftBehind /\ [AttachNext]_attachVars => NothingLeftBehind'
  <2> SUFFICES ASSUME AttachTypeOK, NothingLeftBehind, [AttachNext]_attachVars PROVE NothingLeftBehind'
    OBVIOUS
  <2> USE AttachAssumption DEF AttachTypeOK, NothingLeftBehind, Goto, files
  <2>1. CASE UNCHANGED attachVars
    BY <2>1 DEF attachVars
  <2>2. ASSUME NEW p \in Proc, Begin(p) \/ Arrive(p) \/ Detach(p) \/ OpenControl(p)
        PROVE NothingLeftBehind'
    BY <2>2 DEF Begin, Arrive, Look, Judge, Clear, ClearSocket, Join, Boot, Detach,
                OpenControl, UnlinkAdvert, UnlinkSocket
  <2>3. ASSUME NEW p \in Proc, Claim(p) PROVE NothingLeftBehind'
    BY <2>3 DEF Claim, Enter, Reread, Rejudge, Reclear, ReclearSocket, Bind, BindError,
                Publish, PublishError, Leave
  <2>4. ASSUME NEW p \in Proc, Stop(p) \/ Depart(p) \/ Die(p) PROVE NothingLeftBehind'
    BY <2>4 DEF Stop, Depart, Retract, RetractSocket, Cleanup, Die, UnlinkAdvert,
                UnlinkSocket
  <2>. QED
    BY <2>1, <2>2, <2>3, <2>4 DEF AttachNext
<1>. QED
  BY <1>1, <1>2, AttachTypeCorrect, PTL DEF AttachSpec

-----------------------------------------------------------------------------
(* One owner *)

\* Only one process is between locked() and the end of its section.
InSection == \A p \in Proc : pc[p] \in Claiming => lock = p

\* The socket at the path is that of whoever listens, and the advert too, but
\* for the owner that has not written it yet.
FilesOfListener ==
  \A q \in Proc :
    /\ listening[q] => sock = q
    /\ Owner(q) => advert = q

\* What the claim knows, step by step: the advert it has read is that of
\* whoever listens; once it has judged that one dead, nobody listens.
ClaimKnows ==
  \A p, q \in Proc :
    listening[q] =>
      /\ pc[p] = "rejudge" => seen[p] = q
      /\ pc[p] \notin {"reclear", "reclearsock", "bind"}

ClaimInv == Undisturbed => InSection /\ FilesOfListener /\ ClaimKnows

\* What disturbed a run once has disturbed it for good.
LEMMA HistoryStep == AttachTypeOK /\ [AttachNext]_attachVars /\ Undisturbed' => Undisturbed
<1> SUFFICES ASSUME AttachTypeOK, [AttachNext]_attachVars, Undisturbed' PROVE Undisturbed
  OBVIOUS
<1> USE DEF AttachTypeOK, Undisturbed, past
<1>1. CASE UNCHANGED attachVars
  BY <1>1 DEF attachVars
<1>2. ASSUME NEW p \in Proc, UnlinkAdvert(p) \/ UnlinkSocket(p), UNCHANGED unlocked
      PROVE Undisturbed
  BY <1>2, Zenon DEF UnlinkAdvert, UnlinkSocket
<1>3. ASSUME NEW p \in Proc, Begin(p) \/ Arrive(p) \/ Detach(p) \/ OpenControl(p)
      PROVE Undisturbed
  <2>1. CASE Clear(p) \/ ClearSocket(p)
    BY <2>1, <1>2 DEF Clear, ClearSocket
  <2>. QED
    BY <1>3, <2>1 DEF Begin, Arrive, Look, Judge, Join, Boot, Detach, OpenControl
<1>4. ASSUME NEW p \in Proc, Claim(p) PROVE Undisturbed
  <2>1. CASE Enter(p)
    BY <2>1 DEF Enter
  <2>. QED
    BY <1>4, <2>1 DEF Claim, Reread, Rejudge, Reclear, ReclearSocket, Bind, BindError,
                      Publish, PublishError
<1>5. ASSUME NEW p \in Proc, Stop(p) \/ Depart(p) \/ Die(p) PROVE Undisturbed
  <2>1. CASE Retract(p) \/ RetractSocket(p)
    BY <2>1, <1>2 DEF Retract, RetractSocket
  <2>. QED
    BY <1>5, <2>1 DEF Stop, Depart, Cleanup, Die
<1>. QED
  BY <1>1, <1>3, <1>4, <1>5 DEF AttachNext

\* ClaimInv is preserved: the file of a listener is removed outside the lock
\* only in a disturbed run, and a claim goes past a listener in none.
LEMMA ClaimStep == AttachTypeOK /\ ClaimInv /\ [AttachNext]_attachVars => ClaimInv'
<1> SUFFICES ASSUME AttachTypeOK, ClaimInv, [AttachNext]_attachVars, Undisturbed'
             PROVE (InSection /\ FilesOfListener /\ ClaimKnows)'
  BY DEF ClaimInv
<1>0. Undisturbed
  BY HistoryStep
<1>a. InSection /\ FilesOfListener /\ ClaimKnows
  BY <1>0 DEF ClaimInv
<1> USE AttachAssumption, <1>a
    DEF AttachTypeOK, InSection, FilesOfListener, ClaimKnows, Owner, Claiming, Goto, See, files,
        past
<1>1. CASE UNCHANGED attachVars
  BY <1>1 DEF attachVars
<1>2. ASSUME NEW p \in Proc, Begin(p) \/ Arrive(p) \/ Detach(p) \/ OpenControl(p)
      PROVE (InSection /\ FilesOfListener /\ ClaimKnows)'
  <2>1. CASE Begin(p)
    BY <2>1 DEF Begin
  <2>2. CASE Look(p) \/ Judge(p) \/ Join(p) \/ Boot(p)
    BY <2>2 DEF Look, Judge, Join, Boot, Ended
  <2>3. CASE Clear(p)
    BY <2>3 DEF Clear, UnlinkAdvert, Robs, Undisturbed
  <2>4. CASE ClearSocket(p)
    BY <2>4 DEF ClearSocket, UnlinkSocket, Robs, Undisturbed
  <2>5. CASE Detach(p) \/ OpenControl(p)
    BY <2>5 DEF Detach, OpenControl
  <2>. QED
    BY <1>2, <2>1, <2>2, <2>3, <2>4, <2>5 DEF Arrive
<1>3. ASSUME NEW p \in Proc, Claim(p)
      PROVE (InSection /\ FilesOfListener /\ ClaimKnows)'
  <2>1. CASE Enter(p)
    BY <2>1 DEF Enter, Up, Ended, Undisturbed
  <2>2. CASE Reread(p)
    <3>1. \A q \in Proc : listening[q] => Owner(q)
      BY <2>2 DEF Reread
    <3>. QED
      BY <2>2, <3>1 DEF Reread
  <2>3. CASE Rejudge(p)
    <3>1. ASSUME NEW q \in Proc, listening[q], NEW r \in BOOLEAN PROVE Live(seen[p], r)
      BY <2>3, <3>1 DEF Rejudge, Live, Up, Ended
    <3>. QED
      BY <2>3, <3>1 DEF Rejudge, Leave
  <2>4. CASE Reclear(p) \/ ReclearSocket(p)
    BY <2>4 DEF Reclear, ReclearSocket
  <2>5. CASE Bind(p)
    BY <2>5 DEF Bind
  <2>6. CASE BindError(p)
    BY <2>6 DEF BindError, Leave
  <2>7. CASE Publish(p)
    BY <2>7 DEF Publish, Leave
  <2>8. CASE PublishError(p)
    BY <2>8 DEF PublishError, Leave
  <2>. QED
    BY <1>3, <2>1, <2>2, <2>3, <2>4, <2>5, <2>6, <2>7, <2>8 DEF Claim
<1>4. ASSUME NEW p \in Proc, Stop(p) \/ Depart(p) \/ Die(p)
      PROVE (InSection /\ FilesOfListener /\ ClaimKnows)'
  <2>1. CASE Stop(p)
    BY <2>1 DEF Stop
  <2>2. CASE Retract(p)
    BY <2>2 DEF Retract, UnlinkAdvert, Robs, Undisturbed
  <2>3. CASE RetractSocket(p)
    BY <2>3 DEF RetractSocket, UnlinkSocket, Robs, Undisturbed
  <2>4. CASE Cleanup(p) \/ Die(p)
    BY <2>4 DEF Cleanup, Die
  <2>. QED
    BY <1>4, <2>1, <2>2, <2>3, <2>4 DEF Depart
<1>. QED
  BY <1>1, <1>2, <1>3, <1>4 DEF AttachNext

\* ClaimInv holds from the start on.
LEMMA ClaimCorrect == AttachSpec => []ClaimInv
<1>1. AttachInit => ClaimInv
  BY AttachAssumption
     DEF AttachInit, ClaimInv, InSection, FilesOfListener, ClaimKnows, Owner, Claiming
<1>. QED
  BY <1>1, ClaimStep, AttachTypeCorrect, PTL DEF AttachSpec

\* Two processes own the session only after an unlink outside the lock hit a
\* listener, or a claim was made without the lock (start, live_endpoint, stop).
THEOREM ExclusiveOwnership == AttachSpec => []OneOwnerUndisturbed
<1>1. ClaimInv => OneOwnerUndisturbed
  BY DEF ClaimInv, OneOwnerUndisturbed, FilesOfListener, Owners, Owner
<1>. QED
  BY <1>1, ClaimCorrect, PTL

-----------------------------------------------------------------------------
(* Attaching *)

\* An owner a process met when it arrived owns the session still, or is
\* leaving, and it never becomes an owner again.
MetInv ==
  \A p, q \in Proc : met[p] = q => Owner(q) \/ pc[q] \in Leaving \cup Ended

\* Who arrived in the presence of an owner is on its way to it.
OnTheWay ==
  \A p, q \in Proc :
    met[p] = q /\ Owner(q) =>
      /\ pc[p] \in {"look", "judge", "join", "peer"} \cup Ended
      /\ pc[p] = "judge" => seen[p] = q

AttachInv == MetInv /\ (Undisturbed => OnTheWay)

\* AttachInv is preserved: by ClaimInv the advert is the owner's and leads to it.
LEMMA AttachStep == AttachTypeOK /\ ClaimInv /\ AttachInv /\ [AttachNext]_attachVars => AttachInv'
<1> SUFFICES ASSUME AttachTypeOK, ClaimInv, AttachInv, [AttachNext]_attachVars PROVE AttachInv'
  OBVIOUS
<1>a. MetInv /\ (Undisturbed' => Undisturbed /\ OnTheWay /\ FilesOfListener)
  BY HistoryStep DEF AttachInv, ClaimInv
<1> SUFFICES MetInv' /\ (Undisturbed' => OnTheWay')
  BY DEF AttachInv
<1> USE AttachAssumption, <1>a
    DEF AttachTypeOK, MetInv, OnTheWay, FilesOfListener, Owner, Leaving, Ended, Goto, See,
        past
<1>1. CASE UNCHANGED attachVars
  BY <1>1 DEF attachVars
<1>2. ASSUME NEW p \in Proc, Begin(p) \/ Arrive(p) \/ Detach(p) \/ OpenControl(p)
      PROVE MetInv' /\ (Undisturbed' => OnTheWay')
  <2>1. CASE Begin(p)
    BY <2>1 DEF Begin
  <2>2. CASE Look(p)
    BY <2>2 DEF Look
  <2>3. CASE Judge(p)
    <3>1. ASSUME NEW q \in Proc, Undisturbed', Owner(q), seen[p] = q, NEW r \in BOOLEAN
          PROVE Live(seen[p], r)
      BY <3>1 DEF Live, Up
    <3>. QED
      BY <2>3, <3>1 DEF Judge
  <2>4. CASE Clear(p) \/ ClearSocket(p) \/ Boot(p) \/ Join(p)
    BY <2>4 DEF Clear, ClearSocket, Boot, Join
  <2>5. CASE Detach(p) \/ OpenControl(p)
    BY <2>5 DEF Detach, OpenControl
  <2>. QED
    BY <1>2, <2>1, <2>2, <2>3, <2>4, <2>5 DEF Arrive
<1>3. ASSUME NEW p \in Proc, Claim(p) PROVE MetInv' /\ (Undisturbed' => OnTheWay')
  BY <1>3 DEF Claim, Enter, Reread, Rejudge, Reclear, ReclearSocket, Bind, BindError,
              Publish, PublishError, Leave
<1>4. ASSUME NEW p \in Proc, Stop(p) \/ Depart(p) \/ Die(p)
      PROVE MetInv' /\ (Undisturbed' => OnTheWay')
  BY <1>4 DEF Stop, Depart, Retract, RetractSocket, Cleanup, Die
<1>. QED
  BY <1>1, <1>2, <1>3, <1>4 DEF AttachNext

\* A process told to attach boots no runtime beside an owner it could see when
\* it began (serve, stage 1).
THEOREM AttachJoinsOwner == AttachSpec => []AttachJoins
<1>1. AttachInit => AttachInv
  BY AttachAssumption DEF AttachInit, AttachInv, MetInv, OnTheWay, Owner
<1>2. AttachInv => AttachJoins
  BY DEF AttachInv, OnTheWay, AttachJoins, Runtime, Claiming, Leaving, Ended
<1>. QED
  BY <1>1, <1>2, AttachStep, ClaimCorrect, AttachTypeCorrect, PTL DEF AttachSpec


=============================================================================
