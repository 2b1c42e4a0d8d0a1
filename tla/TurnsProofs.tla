---------------------------- MODULE TurnsProofs ----------------------------
(***************************************************************************)
(* Theorems about Turns, for any number of pieces of text and of           *)
(* operations, and one goal at most: with a second goal they do not hold.  *)
(***************************************************************************)
EXTENDS Turns, FiniteSetTheorems, SequenceTheorems, TLAPS

-----------------------------------------------------------------------------
(* Lemmas about sequences *)

LEMMA Spliced ==
  ASSUME NEW S, NEW q \in Seq(S), NEW i \in 1 .. Len(q),
         NEW r, r = SubSeq(q, 1, i - 1) \o SubSeq(q, i + 1, Len(q))
  PROVE  /\ r \in Seq(S) /\ DOMAIN r = 1 .. Len(q) - 1
         /\ \A j \in 1 .. Len(q) - 1 : r[j] = IF j < i THEN q[j] ELSE q[j + 1]
<1>. PICK n : n = Len(q)
  OBVIOUS
<1>1. n \in Nat /\ i \in Nat /\ 1 <= i /\ i <= n /\ DOMAIN q = 1 .. n
  BY LenProperties
<1>2. \A j \in 1 .. n : q[j] \in S
  BY ElementOfSeq
<1>. PICK a : a = SubSeq(q, 1, i - 1)
  OBVIOUS
<1>. PICK b : b = SubSeq(q, i + 1, n)
  OBVIOUS
<1>3. /\ a \in Seq(S) /\ Len(a) = i - 1 /\ \A j \in 1 .. i - 1 : a[j] = q[j]
  <2>1. 1 \in Int /\ i - 1 \in Int /\ \A m \in 1 .. i - 1 : q[m] \in S
    BY <1>1, <1>2
  <2>2. /\ a \in Seq(S) /\ Len(a) = (IF 1 <= i - 1 THEN (i - 1) - 1 + 1 ELSE 0)
        /\ \A j \in 1 .. (i - 1) - 1 + 1 : a[j] = q[1 + j - 1]
    BY <2>1, SubSeqProperties
  <2>3. (IF 1 <= i - 1 THEN (i - 1) - 1 + 1 ELSE 0) = i - 1
    BY <1>1
  <2>4. (i - 1) - 1 + 1 = i - 1 /\ \A j \in 1 .. i - 1 : 1 + j - 1 = j
    BY <1>1
  <2>. QED
    BY <2>2, <2>3, <2>4
<1>4. /\ b \in Seq(S) /\ Len(b) = n - i /\ \A j \in 1 .. n - i : b[j] = q[i + j]
  <2>1. i + 1 \in Int /\ n \in Int /\ \A m \in i + 1 .. n : q[m] \in S
    BY <1>1, <1>2
  <2>2. /\ b \in Seq(S) /\ Len(b) = (IF i + 1 <= n THEN n - (i + 1) + 1 ELSE 0)
        /\ \A j \in 1 .. n - (i + 1) + 1 : b[j] = q[(i + 1) + j - 1]
    BY <2>1, SubSeqProperties
  <2>3. (IF i + 1 <= n THEN n - (i + 1) + 1 ELSE 0) = n - i
    BY <1>1
  <2>4. n - (i + 1) + 1 = n - i /\ \A j \in 1 .. n - i : (i + 1) + j - 1 = i + j
    BY <1>1
  <2>. QED
    BY <2>2, <2>3, <2>4
<1>5. /\ r \in Seq(S) /\ Len(r) = (i - 1) + (n - i)
      /\ \A j \in 1 .. (i - 1) + (n - i) : r[j] = IF j <= i - 1 THEN a[j] ELSE b[j - (i - 1)]
  <2>1. r = a \o b
    OBVIOUS
  <2>2. /\ r \in Seq(S) /\ Len(r) = Len(a) + Len(b)
        /\ \A j \in 1 .. Len(a) + Len(b) : r[j] = IF j <= Len(a) THEN a[j] ELSE b[j - Len(a)]
    <3>1. a \in Seq(S) /\ b \in Seq(S)
      BY <1>3, <1>4, Zenon
    <3>2. /\ a \o b \in Seq(S) /\ Len(a \o b) = Len(a) + Len(b)
          /\ \A j \in 1 .. Len(a) + Len(b) : (a \o b)[j] = IF j <= Len(a) THEN a[j] ELSE b[j - Len(a)]
      BY <3>1, ConcatProperties, ZenonT(30)
    <3>. QED
      BY <2>1, <3>2, ZenonT(60)
  <2>. QED
    BY <1>3, <1>4, <2>2, Zenon
<1>6. (i - 1) + (n - i) = n - 1 /\ DOMAIN r = 1 .. n - 1
  <2>1. (i - 1) + (n - i) = n - 1
    BY <1>1
  <2>. QED
    BY <1>5, <2>1, LenProperties
<1>7. ASSUME NEW j \in 1 .. n - 1 PROVE r[j] = IF j < i THEN q[j] ELSE q[j + 1]
  <2>1. r[j] = IF j <= i - 1 THEN a[j] ELSE b[j - (i - 1)]
    BY <1>5, <1>6, Zenon
  <2>2. CASE j < i
    <3>1. j \in 1 .. i - 1 /\ j <= i - 1
      BY <1>1, <2>2
    <3>. QED
      BY <1>3, <2>1, <2>2, <3>1
  <2>3. CASE ~(j < i)
    <3>1. j - (i - 1) \in 1 .. n - i /\ ~(j <= i - 1) /\ i + (j - (i - 1)) = j + 1
      BY <1>1, <2>3
    <3>. QED
      BY <1>4, <2>1, <2>3, <3>1
  <2>. QED
    BY <2>2, <2>3
<1>. QED
  BY <1>5, <1>6, <1>7

LEMMA TailDoes ==
  ASSUME NEW S, NEW q \in Seq(S), q # << >>
  PROVE  /\ Tail(q) \in Seq(S) /\ Head(q) \in S /\ 1 \in DOMAIN q /\ q[1] = Head(q)
         /\ DOMAIN q = 1 .. Len(q) /\ DOMAIN Tail(q) = 1 .. Len(q) - 1 /\ Len(q) \in Nat \ {0}
         /\ \A i \in DOMAIN Tail(q) : i \in Nat /\ i + 1 \in DOMAIN q /\ Tail(q)[i] = q[i + 1]
         /\ \A i \in DOMAIN q : i # 1 => i - 1 \in DOMAIN Tail(q) /\ Tail(q)[i - 1] = q[i]
<1>1. /\ Tail(q) \in Seq(S) /\ Head(q) \in S /\ Len(Tail(q)) = Len(q) - 1
      /\ \A i \in 1 .. Len(Tail(q)) : Tail(q)[i] = q[i + 1]
  BY HeadTailProperties
<1>2. /\ Len(q) \in Nat \ {0} /\ DOMAIN q = 1 .. Len(q) /\ DOMAIN Tail(q) = 1 .. Len(Tail(q))
      /\ q[1] = Head(q)
  BY <1>1, LenProperties, EmptySeq
<1>3. \A i \in 1 .. Len(q) - 1 : i \in Nat /\ i + 1 \in 1 .. Len(q)
  BY <1>2
<1>4. \A i \in 1 .. Len(q) : i # 1 => i - 1 \in 1 .. Len(q) - 1 /\ (i - 1) + 1 = i
  BY <1>2
<1>5. 1 \in 1 .. Len(q)
  BY <1>2
<1>. QED
  BY <1>1, <1>2, <1>3, <1>4, <1>5
-----------------------------------------------------------------------------
(* The inductive invariant of Turns: at most one turn is outstanding - a     *)
(* call, a task, a refusal or the event of its end - and the fence that was  *)
(* raised for it is up as long as the interface has not heard of it.         *)

Pieces == Msgs \cup {Goal}
Before == {"configure", "retry", "begin"}
InTurn == {"run", "finish"}
Touching == {"prompt", "queued", "restore"}
Taking == Touching \cup OpKinds

TurnCall(i) == toRuntime[i].do \in TurnKinds
TurnTask(k) == k.kind \in TurnKinds
Refusal(i) == toApp[i].do \in TurnKinds /\ ~toApp[i].begun
Outcome(i) == toApp[i].do \in TurnKinds /\ toApp[i].begun
Told(i) == toApp[i].do = "submitted"
Ends(i) == toApp[i].do = "complete" \/ Refusal(i)

\* What the parts of a call, a task and an event say of each other.
ShapedCalls ==
  \A i \in DOMAIN toRuntime :
    /\ toRuntime[i].do \notin TurnKinds => toRuntime[i].text = {}
    /\ toRuntime[i].do \in TurnKinds => toRuntime[i].text # {}
    /\ toRuntime[i].do = "goal" => toRuntime[i].text = {Goal}
    /\ toRuntime[i].do = "cancel" => toRuntime[i].op \in OpKinds
ShapedTasks ==
  \A k \in tasks :
    /\ k.kind \in OpKinds => k.phase = "work" /\ k.text = {}
    /\ k.kind = "restore" => k.phase \in {"retry", "work"} /\ k.text = {}
    /\ k.kind \in TurnKinds => k.phase # "work" /\ k.text # {}
    /\ k.phase = "configure" => k.kind = "goal"
    /\ k.kind = "goal" => k.text = {Goal}
ShapedEvents ==
  \A i \in DOMAIN toApp :
    /\ Told(i) \/ Refusal(i) \/ Outcome(i) => toApp[i].text # {}
    /\ toApp[i].do = "goal" => toApp[i].text = {Goal}
    /\ Refusal(i) => ~toApp[i].ok
ShapedTexts ==
  /\ \A i \in DOMAIN ledger : ledger[i] # {}
  /\ \A i \in DOMAIN posted : posted[i].text # {}
  /\ {} \notin stashed

OneTurn ==
  /\ \A i, j \in DOMAIN toRuntime : TurnCall(i) /\ TurnCall(j) => i = j
  /\ \A j, k \in tasks : TurnTask(j) /\ TurnTask(k) => j = k
  /\ \A i, j \in DOMAIN toApp : Ends(i) /\ Ends(j) => i = j
  /\ \A i, j \in DOMAIN toApp : Told(i) /\ Told(j) => i = j
  /\ \A i \in DOMAIN toRuntime, k \in tasks : ~(TurnCall(i) /\ TurnTask(k))
  /\ \A i \in DOMAIN toRuntime, j \in DOMAIN toApp : ~(TurnCall(i) /\ Ends(j))
  /\ \A k \in tasks, j \in DOMAIN toApp : ~(TurnTask(k) /\ Ends(j))
  /\ \A i \in DOMAIN toApp : Told(i) =>
       \/ \E k \in tasks : TurnTask(k) /\ k.phase \in InTurn /\ k.text = toApp[i].text
       \/ \E j \in DOMAIN toApp : i < j /\ toApp[j].do = "complete"

Announcing(kind, t) ==
  /\ ~turnActive
  /\ kind = "goal" => goalPending /\ admission = {}
  /\ kind # "goal" => ~goalPending /\ admission = t
Active == turnActive /\ admission = {} /\ ~goalPending

Fenced ==
  /\ \A i \in DOMAIN toRuntime : TurnCall(i) => Announcing(toRuntime[i].do, toRuntime[i].text)
  /\ \A k \in tasks : TurnTask(k) /\ k.phase \in Before => Announcing(k.kind, k.text)
  /\ \A i \in DOMAIN toApp : Refusal(i) => Announcing(toApp[i].do, toApp[i].text)
  /\ \A i \in DOMAIN toApp : Told(i) => ~turnActive /\ (goalPending \/ admission = toApp[i].text)
  /\ \A k \in tasks : TurnTask(k) /\ k.phase \in InTurn =>
       \/ Announcing(k.kind, k.text) /\ \E i \in DOMAIN toApp : Told(i) /\ toApp[i].text = k.text
       \/ Active /\ \A i \in DOMAIN toApp : ~Told(i)
  /\ \A i \in DOMAIN toApp : toApp[i].do = "complete" =>
       Active \/ \E j \in DOMAIN toApp : j < i /\ Told(j)

\* The one goal the bound allows.
OneGoal ==
  /\ goals = 0 => /\ ~goalPending
                  /\ \A i \in DOMAIN toRuntime : toRuntime[i].do # "goal"
                  /\ \A k \in tasks : k.kind # "goal"
                  /\ \A i \in DOMAIN toApp : toApp[i].do # "goal"
  /\ \A i \in DOMAIN toApp : Outcome(i) /\ toApp[i].do = "goal" /\ goalPending =>
       \E j \in DOMAIN toApp : j < i /\ Told(j)

Backed ==
  admission # {} =>
    \/ \E i \in DOMAIN toRuntime : TurnCall(i) /\ toRuntime[i].text = admission
    \/ \E k \in tasks : TurnTask(k) /\ k.phase \in Before /\ k.text = admission
    \/ \E i \in DOMAIN toApp : (Refusal(i) \/ Told(i)) /\ toApp[i].text = admission

Flags ==
  /\ executing = (\E k \in tasks : TurnTask(k) /\ k.phase \in {"begin", "run"})
  /\ restoring = (\E k \in tasks : k.kind = "restore" /\ k.phase = "work")
  /\ ~(executing /\ restoring)

Asked(i) == toRuntime[i].do = "restore"
Returned(i) == toApp[i].do = "restore"
OneRestore ==
  /\ restore # "called" => /\ \A i \in DOMAIN toRuntime : ~Asked(i)
                           /\ \A k \in tasks : k.kind # "restore"
                           /\ \A i \in DOMAIN toApp : ~Returned(i)
  /\ \A i, j \in DOMAIN toRuntime : Asked(i) /\ Asked(j) => i = j
  /\ \A j, k \in tasks : j.kind = "restore" /\ k.kind = "restore" => j = k
  /\ \A i, j \in DOMAIN toApp : Returned(i) /\ Returned(j) => i = j
  /\ \A i \in DOMAIN toRuntime, k \in tasks : ~(Asked(i) /\ k.kind = "restore")
  /\ \A i \in DOMAIN toRuntime, j \in DOMAIN toApp : ~(Asked(i) /\ Returned(j))
  /\ \A k \in tasks, j \in DOMAIN toApp : ~(k.kind = "restore" /\ Returned(j))
Aimed == Restoring => target \in DOMAIN ledger

Cancels(j, kind) == toRuntime[j].do = "cancel" /\ toRuntime[j].op = kind
OpCall(i) == toRuntime[i].do \in OpKinds
OpTask(k) == k.kind \in OpKinds
Answer(i) == toApp[i].do \in OpKinds
Cancelled(kind) == \E j \in DOMAIN toRuntime : Cancels(j, kind)
CancelledAfter(i) == \E h \in DOMAIN toRuntime : i < h /\ Cancels(h, toRuntime[i].do)
OneOp ==
  /\ operation # "no" => admission = {} /\ restore = "no"
  /\ \A k \in tasks : OpTask(k) => operation = k.kind \/ Cancelled(k.kind)
  /\ \A k \in tasks, i \in DOMAIN toRuntime : OpTask(k) /\ toRuntime[i].do \in Taking =>
       \E j \in DOMAIN toRuntime : j < i /\ Cancels(j, k.kind)
  /\ \A i, j \in DOMAIN toRuntime : i < j /\ OpCall(i) /\ toRuntime[j].do \in Taking =>
       \E h \in DOMAIN toRuntime : i < h /\ h < j /\ Cancels(h, toRuntime[i].do)
  /\ \A i \in DOMAIN toRuntime : OpCall(i) => operation = toRuntime[i].do \/ CancelledAfter(i)
  /\ \A i \in DOMAIN toApp : Answer(i) =>
       /\ operation = toApp[i].do
       /\ \A k \in tasks : OpTask(k) => Cancelled(k.kind)
       /\ \A j \in DOMAIN toRuntime : OpCall(j) => CancelledAfter(j)
  /\ \A i, j \in DOMAIN toApp : Answer(i) /\ Answer(j) => i = j
  /\ \A j, k \in tasks : OpTask(j) /\ OpTask(k) => j = k
Alone ==
  /\ \A i \in DOMAIN toRuntime : OpCall(i) =>
       /\ \A k \in tasks : k.kind \notin Touching
       /\ \A j \in DOMAIN toRuntime : j < i => toRuntime[j].do \notin Touching
  /\ \A j, k \in tasks : OpTask(j) => k.kind \notin Touching

Control == /\ ShapedCalls /\ ShapedTasks /\ ShapedEvents
           /\ OneTurn /\ Fenced /\ OneGoal /\ Backed /\ Flags
           /\ OneRestore /\ OneOp /\ Alone

\* Where the pieces of text are.
Posted == UNION {posted[i].text : i \in DOMAIN posted}
Filed == UNION stashed
Flight == {m \in Pieces :
  \/ \E i \in DOMAIN toRuntime : m \in toRuntime[i].text
  \/ \E k \in tasks : k.phase \in Before /\ m \in k.text
  \/ \E i \in DOMAIN toApp : Refusal(i) /\ m \in toApp[i].text}
Closed == {m \in Pieces :
  \/ \E i \in DOMAIN ledger : m \in ledger[i]
  \/ \E i \in DOMAIN toApp : Told(i) /\ m \in toApp[i].text
  \/ \E k \in tasks : k.phase \in InTurn /\ m \in k.text
  \/ \E i \in DOMAIN toApp : Outcome(i) /\ m \in toApp[i].text}

\* A piece is in one of these places at a time.
Spread ==
  /\ composer \cap (Filed \cup Posted \cup slot \cup steer \cup Flight \cup Closed \cup ended) = {}
  /\ Filed \cap (Posted \cup slot \cup steer \cup Flight \cup Closed \cup ended) = {}
  /\ Posted \cap (slot \cup steer \cup Flight \cup Closed \cup ended) = {}
  /\ slot \cap (steer \cup Flight \cup Closed \cup ended) = {}
  /\ steer \cap (Flight \cup Closed \cup ended) = {}
  /\ Flight \cap (Closed \cup ended) = {}
  /\ Closed \cap ended = {}
FiledApart == \A t, u \in stashed : t = u \/ t \cap u = {}

\* A checkpoint that is restored is not one of a turn that is still to be heard of.
LedgerApart ==
  /\ \A i, j \in DOMAIN ledger : i = j \/ ledger[i] \cap ledger[j] = {}
  /\ \A i \in DOMAIN ledger, j \in DOMAIN toApp : Told(j) => ledger[i] \cap toApp[j].text = {}
  /\ \A i, j \in DOMAIN toApp : Outcome(i) /\ Told(j) /\ i < j => toApp[i].text \cap toApp[j].text = {}
  /\ restore = "called" =>
       /\ \A k \in tasks : k.phase \in InTurn => k.text \cap ledger[target] = {}
       /\ \A i, j \in DOMAIN toApp : Returned(i) /\ Outcome(j) /\ i < j => toApp[j].text \cap ledger[target] = {}
Sorted == Aimed /\ Spread /\ LedgerApart

Open == composer \cup Filed \cup Posted \cup slot \cup steer \cup Flight
Tally ==
  /\ \A m \in Msgs : m \in Open \cup Closed \cup ended => m <= written
  /\ goals = 0 => Goal \notin Open \cup Closed
  /\ \A m \in Msgs : /\ runs[m] \in {0, 1}
                     /\ m \in Closed => runs[m] = 1
                     /\ runs[m] = 1 => m \notin Open \cup ended /\ m <= written
                     /\ m <= written /\ runs[m] = 0 => m \in Open \cup ended

-----------------------------------------------------------------------------
(* What a step does to the two channels and the tasks *)

Gains(q, r, e) == \E n \in Nat :
  /\ DOMAIN q = 1 .. n /\ DOMAIN r = 1 .. n + 1
  /\ r[n + 1] = e /\ \A i \in 1 .. n : r[i] = q[i]
Drops(q, r) == \E n \in Nat :
  /\ DOMAIN q = 1 .. n + 1 /\ DOMAIN r = 1 .. n
  /\ \A i \in 1 .. n : r[i] = q[i + 1]

LEMMA GainsIs ==
  ASSUME NEW S, NEW q \in Seq(S), NEW e \in S
  PROVE  Append(q, e) \in Seq(S) /\ Gains(q, Append(q, e), e)
<1>1. /\ Append(q, e) \in Seq(S) /\ Len(Append(q, e)) = Len(q) + 1
      /\ \A i \in 1 .. Len(q) : Append(q, e)[i] = q[i]
      /\ Append(q, e)[Len(q) + 1] = e
  BY AppendProperties
<1>2. /\ Len(q) \in Nat /\ DOMAIN q = 1 .. Len(q)
      /\ DOMAIN Append(q, e) = 1 .. Len(q) + 1
  BY <1>1, LenProperties
<1>. QED
  BY <1>1, <1>2, Zenon DEF Gains

LEMMA DropsIs ==
  ASSUME NEW S, NEW q \in Seq(S), q # << >>
  PROVE  Tail(q) \in Seq(S) /\ Drops(q, Tail(q)) /\ Head(q) = q[1] /\ 1 \in DOMAIN q /\ q[1] \in S
<1>1. /\ Tail(q) \in Seq(S) /\ Head(q) \in S /\ Head(q) = q[1] /\ 1 \in DOMAIN q
      /\ DOMAIN q = 1 .. Len(q) /\ DOMAIN Tail(q) = 1 .. Len(q) - 1 /\ Len(q) \in Nat \ {0}
      /\ \A i \in DOMAIN Tail(q) : Tail(q)[i] = q[i + 1]
  BY TailDoes
<1>. PICK n : n = Len(q) - 1
  OBVIOUS
<1>2. n \in Nat /\ Len(q) = n + 1
  BY <1>1
<1>. QED
  BY <1>1, <1>2, Zenon DEF Drops

\* The runtime's loop is given a call.
LEMMA PostsIs ==
  ASSUME TurnsTypeOK, NEW c \in Calls, Posts(c)
  PROVE  toRuntime' \in Seq(Calls) /\ Gains(toRuntime, toRuntime', c)
<1>1. toRuntime \in Seq(Calls) /\ toRuntime' = Append(toRuntime, c)
  BY DEF TurnsTypeOK, Posts
<1>. PICK q : q = toRuntime
  OBVIOUS
<1>2. Append(q, c) \in Seq(Calls) /\ Gains(q, Append(q, c), c)
  BY <1>1, GainsIs
<1>. QED
  BY <1>1, <1>2

\* The interface is told something.
LEMMA SaysIs ==
  ASSUME TurnsTypeOK, NEW e \in Events, Says(<<e>>)
  PROVE  toApp' \in Seq(Events) /\ Gains(toApp, toApp', e)
<1>1. toApp \in Seq(Events) /\ toApp' = toApp \o <<e>>
  BY DEF TurnsTypeOK, Says
<1>. PICK q : q = toApp
  OBVIOUS
<1>2. q \o <<e>> = Append(q, e)
  BY <1>1, AppendIsConcat
<1>3. Append(q, e) \in Seq(Events) /\ Gains(q, Append(q, e), e)
  BY <1>1, GainsIs
<1>. QED
  BY <1>1, <1>2, <1>3

\* The interface hears the oldest event.
LEMMA HearsIs ==
  ASSUME TurnsTypeOK, NEW what, Hears(what)
  PROVE  /\ toApp' \in Seq(Events) /\ Drops(toApp, toApp') /\ 1 \in DOMAIN toApp
         /\ Head(toApp) = toApp[1] /\ toApp[1] \in Events /\ toApp[1].do \in what
<1>1. toApp \in Seq(Events) /\ toApp' = Tail(toApp) /\ toApp # << >> /\ Head(toApp).do \in what
  BY DEF TurnsTypeOK, Hears
<1>. PICK q : q = toApp
  OBVIOUS
<1>2. Tail(q) \in Seq(Events) /\ Drops(q, Tail(q)) /\ Head(q) = q[1] /\ 1 \in DOMAIN q /\ q[1] \in Events
  BY <1>1, DropsIs
<1>. QED
  BY <1>1, <1>2

\* The runtime's loop takes its oldest callback.
LEMMA ReceivesIs ==
  ASSUME TurnsTypeOK, toRuntime # << >>, toRuntime' = Tail(toRuntime)
  PROVE  /\ toRuntime' \in Seq(Calls) /\ Drops(toRuntime, toRuntime') /\ 1 \in DOMAIN toRuntime
         /\ Head(toRuntime) = toRuntime[1] /\ toRuntime[1] \in Calls
<1>1. toRuntime \in Seq(Calls)
  BY DEF TurnsTypeOK
<1>. PICK q : q = toRuntime
  OBVIOUS
<1>2. Tail(q) \in Seq(Calls) /\ Drops(q, Tail(q)) /\ Head(q) = q[1] /\ 1 \in DOMAIN q /\ q[1] \in Calls
  BY <1>1, DropsIs
<1>. QED
  BY <1>1, <1>2

LEMMA CallIs ==
  ASSUME NEW kind \in TurnKinds \cup OpKinds \cup {"restore", "interrupt"}, NEW t \in Texts
  PROVE  Call(kind, t) \in Calls /\ Call(kind, t).do = kind /\ Call(kind, t).text = t
BY DEF Call, Calls

LEMMA CancelIs ==
  ASSUME NEW kind \in OpKinds, NEW c, c = [Call("cancel", {}) EXCEPT !.op = kind]
  PROVE  c \in Calls /\ c.do = "cancel" /\ c.text = {} /\ c.op = kind
<1>1. {} \in Texts
  BY DEF Texts
<1>. QED
  BY <1>1 DEF Call, Calls

\* A task that awaits in another phase.
LEMMA InIs ==
  ASSUME NEW k \in Tasks, NEW phase \in Phases
  PROVE  In(k, phase) \in Tasks /\ In(k, phase).kind = k.kind /\ In(k, phase).text = k.text
         /\ In(k, phase).phase = phase
BY DEF In, Tasks

LEMMA ResultIs ==
  ASSUME NEW k \in Tasks, k.kind # "restore", NEW ok \in BOOLEAN
  PROVE  Result(k, ok) \in Events /\ Result(k, ok).do = k.kind /\ Result(k, ok).text = k.text
         /\ Result(k, ok).ok = ok /\ Result(k, ok).begun = (k.phase = "finish")
<1>1. k.kind \in TurnKinds \cup OpKinds /\ k.text \in Texts /\ (k.phase = "finish") \in BOOLEAN
  BY DEF Tasks
<1>2. Result(k, ok) \in [do : TurnKinds \cup OpKinds, text : Texts, ok : BOOLEAN, begun : BOOLEAN]
  BY ONLY <1>1, ok \in BOOLEAN DEF Result
<1>. QED
  BY <1>2 DEF Result, Events

LEMMA RestoreResultIs ==
  ASSUME NEW conversation \in BOOLEAN, NEW ok \in BOOLEAN
  PROVE  RestoreResult(conversation, ok) \in Events /\ RestoreResult(conversation, ok).do = "restore"
         /\ RestoreResult(conversation, ok).ok = ok /\ RestoreResult(conversation, ok).conversation = conversation
<1>1. RestoreResult(conversation, ok) \in [do : {"restore"}, conversation : BOOLEAN, ok : BOOLEAN]
  BY ONLY conversation \in BOOLEAN, ok \in BOOLEAN DEF RestoreResult
<1>. QED
  BY <1>1 DEF RestoreResult, Events

\* What an event is, by what it is about.
LEMMA EventIs ==
  ASSUME NEW e \in Events
  PROVE  /\ e.do \in {"submitted", "complete", "restore"} \cup TurnKinds \cup OpKinds
         /\ e.do # "restore" => e.text \in Texts
         /\ e.do \in TurnKinds \cup OpKinds => e.ok \in BOOLEAN /\ e.begun \in BOOLEAN
         /\ e.do = "restore" => e.ok \in BOOLEAN /\ e.conversation \in BOOLEAN
BY DEF Events, TurnKinds, OpKinds

-----------------------------------------------------------------------------
(* The fences, one step at a time *)

Fences == <<admission, turnActive, goalPending, operation, restore, goals>>
Traffic == <<toRuntime, toApp, tasks, executing, restoring>>

\* Without a fence nothing is outstanding.
NoTurn == /\ \A i \in DOMAIN toRuntime : ~TurnCall(i)
          /\ \A k \in tasks : ~TurnTask(k)
          /\ \A i \in DOMAIN toApp : ~Ends(i) /\ ~Told(i)
LEMMA Idle == ASSUME TurnsTypeOK, Control, admission = {}, ~goalPending, ~turnActive PROVE NoTurn
<1>1. \A i \in DOMAIN toRuntime : ~TurnCall(i)
  BY DEF Control, Fenced, ShapedCalls, Announcing, TurnCall
<1>2. \A i \in DOMAIN toApp : ~Told(i)
  BY DEF Control, Fenced, ShapedEvents
<1>3. \A k \in tasks : TurnTask(k) => k.phase \notin Before
  BY DEF Control, Fenced, ShapedTasks, Announcing, TurnTask
<1>4. \A k \in tasks : TurnTask(k) => k.phase \notin InTurn
  BY <1>2 DEF Control, Fenced, Active, TurnTask
<1>5. \A i \in DOMAIN toApp : ~Ends(i)
  BY <1>2 DEF Control, Fenced, ShapedEvents, Announcing, Active, Ends
<1>6. \A k \in tasks : TurnTask(k) => k.phase \in Before \cup InTurn
  <2>1. \A k \in tasks : k.phase \in Phases
    BY DEF TurnsTypeOK, Tasks
  <2>. QED
    BY <2>1 DEF Control, ShapedTasks, TurnTask, Before, InTurn, Phases
<1>. QED
  BY <1>1, <1>2, <1>3, <1>4, <1>5, <1>6 DEF NoTurn

LEMMA ControlQuiet == ASSUME Control, UNCHANGED Fences, UNCHANGED Traffic PROVE Control'
BY DEF Control, Fences, Traffic, ShapedCalls, ShapedTasks, ShapedEvents, OneTurn, Fenced, OneGoal, Backed,
       Flags, OneRestore, OneOp, Alone, TurnCall, TurnTask, Refusal, Outcome, Told, Ends, Announcing, Active,
       Asked, Returned, Cancels, OpCall, OpTask, Answer, Cancelled, CancelledAfter

\* A prompt is submitted: nothing was outstanding.
LEMMA ControlOpens ==
  ASSUME TurnsTypeOK, Control, NEW t \in Texts, t # {}, NEW kind \in {"prompt", "queued"},
         operation = "no", ~goalPending, admission = {}, ~turnActive,
         admission' = t, Posts(Call(kind, t)),
         UNCHANGED <<turnActive, goalPending, operation, restore, goals, toApp, tasks, executing, restoring>>,
         Sorted, UNCHANGED <<ledger, target>>
  PROVE  Control' /\ LedgerApart' /\ Flight' = Flight \cup t /\ Closed' = Closed
<1>1. NoTurn
  BY Idle
<1>2. /\ Gains(toRuntime, toRuntime', Call(kind, t))
      /\ Call(kind, t).do = kind /\ Call(kind, t).text = t
  <2>1. kind \in TurnKinds
    BY DEF TurnKinds
  <2>. QED
    BY <2>1, CallIs, PostsIs
<1>. PICK c : c = Call(kind, t)
  OBVIOUS
<1>3. Gains(toRuntime, toRuntime', c) /\ c.do = kind /\ c.text = t
  BY <1>2
<1>4. ShapedCalls' /\ ShapedTasks' /\ ShapedEvents'
  BY <1>3 DEF Control, Gains, ShapedCalls, ShapedTasks, ShapedEvents, TurnKinds, Told, Refusal, Outcome
<1>5. OneTurn'
  BY <1>1, <1>3 DEF NoTurn, Gains, OneTurn, TurnCall, TurnTask, Ends, Told, TurnKinds, Refusal
<1>6. Fenced'
  BY <1>1, <1>3 DEF NoTurn, Gains, Fenced, TurnCall, TurnTask, Ends, Told, TurnKinds, Refusal, Announcing
<1>7. OneGoal' /\ Backed'
  BY <1>1, <1>3 DEF Control, NoTurn, Gains, OneGoal, Backed, TurnCall, TurnTask, Ends, Told, TurnKinds, Refusal, Outcome
<1>8. Flags' /\ OneRestore'
  BY <1>3 DEF Control, Gains, Flags, OneRestore, TurnTask, Asked, Returned
<1>9. OneOp'
  BY <1>3 DEF Control, Gains, OneOp, OpCall, OpTask, Answer, Cancelled, CancelledAfter, Cancels, OpKinds
<1>10. Alone'
  BY <1>3 DEF Control, Gains, Alone, OpCall, OpTask, OpKinds
<1>11. Flight' = Flight \cup t
  BY <1>1, <1>3 DEF Control, Sorted, NoTurn, Gains, Flight, Pieces, Texts, Refusal, TurnKinds, OpKinds, Before, InTurn
<1>12. Closed' = Closed
  BY <1>1, <1>3 DEF Control, Sorted, NoTurn, Gains, Closed, Pieces, Texts, Told, Outcome, Refusal, TurnKinds, OpKinds, Before, InTurn
<1>13. LedgerApart'
  BY <1>1, <1>3 DEF Control, Sorted, NoTurn, Gains, LedgerApart, Told, Outcome, Returned, TurnKinds, OpKinds, Before, InTurn
<1>. QED
  BY <1>11, <1>12, <1>13, <1>4, <1>5, <1>6, <1>7, <1>8, <1>9, <1>10 DEF Control

\* A fence goes up or down without a call: a restore is scheduled, a clear gives up.
LEMMA ControlFences ==
  ASSUME Control, UNCHANGED <<admission, turnActive, goalPending, goals>>, UNCHANGED Traffic,
         \/ operation' = operation /\ operation = "no" /\ restore = "no" /\ restore' # "called"
         \/ restore' = restore /\ operation = "waiting" /\ operation' = "no",
         Sorted, UNCHANGED ledger, restore # "no" => target' = target
  PROVE  Control' /\ LedgerApart' /\ Flight' = Flight /\ Closed' = Closed
<1>1. /\ ShapedCalls' /\ ShapedTasks' /\ ShapedEvents' /\ OneTurn' /\ Fenced' /\ OneGoal' /\ Backed' /\ Flags'
      /\ Alone'
  BY DEF Control, Traffic, ShapedCalls, ShapedTasks, ShapedEvents, OneTurn, Fenced, OneGoal, Backed,
         Flags, Alone, TurnCall, TurnTask, Refusal, Outcome, Told, Ends, Announcing, Active, OpCall, OpTask
<1>2. OneRestore'
  BY DEF Control, Traffic, OneRestore, Asked, Returned
<1>3. OneOp'
  BY DEF Control, Traffic, OneOp, Cancels, OpCall, OpTask, Answer, Cancelled, CancelledAfter, OpKinds
<1>4. Flight' = Flight
  BY DEF Control, Sorted, Traffic, Flight, Pieces, Texts, Refusal, TurnKinds, OpKinds, Before, InTurn
<1>5. Closed' = Closed
  BY DEF Control, Sorted, Traffic, Closed, Pieces, Texts, Told, Outcome, Refusal, TurnKinds, OpKinds, Before, InTurn
<1>6. LedgerApart'
  BY DEF Control, Sorted, Traffic, LedgerApart, Told, Outcome, Returned, TurnKinds, OpKinds, Before, InTurn
<1>. QED
  BY <1>4, <1>5, <1>6, <1>1, <1>2, <1>3 DEF Control

\* The runtime is asked to stop the turn.
LEMMA ControlNotes ==
  ASSUME TurnsTypeOK, Control, Posts(Call("interrupt", {})),
         UNCHANGED <<admission, turnActive, goalPending, goals, toApp, tasks, executing, restoring>>,
         \/ restore' = restore
         \/ restore \notin {"no", "called"} /\ restore' # "called",
         \/ operation' = operation
         \/ operation = "no" /\ operation' = "waiting" /\ admission = {} /\ restore = "no" /\ restore' = "no",
         Sorted, UNCHANGED <<ledger, target>>
  PROVE  Control' /\ LedgerApart' /\ Flight' = Flight /\ Closed' = Closed
<1>1. /\ Gains(toRuntime, toRuntime', Call("interrupt", {}))
      /\ Call("interrupt", {}).do = "interrupt" /\ Call("interrupt", {}).text = {}
  <2>1. {} \in Texts
    BY DEF Texts
  <2>. QED
    BY <2>1, CallIs, PostsIs
<1>. PICK c : c = Call("interrupt", {})
  OBVIOUS
<1>2. Gains(toRuntime, toRuntime', c) /\ c.do = "interrupt" /\ c.text = {}
  BY <1>1
<1>3. ShapedCalls' /\ ShapedTasks' /\ ShapedEvents'
  BY <1>2 DEF Control, Gains, ShapedCalls, ShapedTasks, ShapedEvents, TurnKinds, Told, Refusal, Outcome
<1>4. OneTurn'
  BY <1>2 DEF Control, Gains, OneTurn, TurnCall, TurnTask, Ends, Told, TurnKinds, Refusal
<1>5. Fenced'
  BY <1>2 DEF Control, Gains, Fenced, TurnCall, TurnTask, Ends, Told, TurnKinds, Refusal, Announcing, Active
<1>6. OneGoal' /\ Backed'
  BY <1>2 DEF Control, Gains, OneGoal, Backed, TurnCall, TurnTask, Told, TurnKinds, Refusal, Outcome
<1>7. Flags' /\ OneRestore'
  BY <1>2 DEF Control, Gains, Flags, OneRestore, TurnTask, Asked, Returned
<1>8. OneOp'
  <2>1. PICK n \in Nat : /\ DOMAIN toRuntime = 1 .. n /\ DOMAIN toRuntime' = 1 .. n + 1
                        /\ toRuntime'[n + 1] = c /\ \A i \in 1 .. n : toRuntime'[i] = toRuntime[i]
    BY <1>2 DEF Gains
  <2>2. /\ \A i \in DOMAIN toRuntime' : OpCall(i)' => i \in 1 .. n /\ OpCall(i)
        /\ \A i \in DOMAIN toRuntime' : toRuntime'[i].do \in Taking => i \in 1 .. n
        /\ \A i \in 1 .. n, o \in OpKinds : Cancels(i, o) => Cancels(i, o)'
    BY <1>2, <2>1 DEF OpCall, OpKinds, Cancels, Taking, Touching
  <2>3. /\ \A o \in OpKinds : Cancelled(o) => Cancelled(o)'
        /\ \A i \in 1 .. n : OpCall(i) /\ CancelledAfter(i) => CancelledAfter(i)'
    BY <2>1, <2>2 DEF Cancelled, CancelledAfter, OpCall
  <2>4. operation' # "no" => admission' = {} /\ restore' = "no"
    BY DEF Control, OneOp
  <2>5. \A k \in tasks' : OpTask(k) => operation' = k.kind \/ Cancelled(k.kind)'
    BY <2>3 DEF Control, OneOp, OpTask, OpKinds
  <2>6. \A k \in tasks', i \in DOMAIN toRuntime' : OpTask(k) /\ toRuntime'[i].do \in Taking =>
          \E j \in DOMAIN toRuntime' : j < i /\ Cancels(j, k.kind)'
    BY <2>1, <2>2 DEF Control, OneOp, OpTask
  <2>7. \A i, j \in DOMAIN toRuntime' : i < j /\ OpCall(i)' /\ toRuntime'[j].do \in Taking =>
          \E h \in DOMAIN toRuntime' : i < h /\ h < j /\ Cancels(h, toRuntime[i].do)'
    BY <2>1, <2>2 DEF Control, OneOp, OpCall
  <2>8. \A i \in DOMAIN toRuntime' : OpCall(i)' => operation' = toRuntime'[i].do \/ CancelledAfter(i)'
    BY <2>1, <2>2, <2>3 DEF Control, OneOp, OpCall, OpKinds
  <2>9. \A i \in DOMAIN toApp' : Answer(i)' =>
          /\ operation' = toApp'[i].do
          /\ \A k \in tasks' : OpTask(k) => Cancelled(k.kind)'
          /\ \A j \in DOMAIN toRuntime' : OpCall(j)' => CancelledAfter(j)'
    BY <2>1, <2>2, <2>3 DEF Control, OneOp, OpCall, OpKinds, Answer, OpTask
  <2>. QED
    BY <2>4, <2>5, <2>6, <2>7, <2>8, <2>9 DEF Control, OneOp, Answer
<1>9. Alone'
  BY <1>2 DEF Control, Gains, Alone, OpCall, OpTask, OpKinds, Touching
<1>10. Flight' = Flight
  BY <1>2 DEF Control, Sorted, Gains, ShapedCalls, Flight, Pieces, Texts, Refusal, TurnKinds, OpKinds, Before, InTurn
<1>11. Closed' = Closed
  BY <1>2 DEF Control, Sorted, Gains, ShapedCalls, Closed, Pieces, Texts, Told, Outcome, Refusal, TurnKinds, OpKinds, Before, InTurn
<1>12. LedgerApart'
  BY <1>2 DEF Control, Sorted, Gains, ShapedCalls, LedgerApart, Told, Outcome, Returned, TurnKinds, OpKinds, Before, InTurn
<1>. QED
  BY <1>10, <1>11, <1>12, <1>3, <1>4, <1>5, <1>6, <1>7, <1>8, <1>9 DEF Control

\* A clear, a compaction or a snapshot is asked for.
LEMMA ControlOpCall ==
  ASSUME TurnsTypeOK, Control, NEW kind \in OpKinds, Posts(Call(kind, {})),
         operation \in {"no", "waiting"}, operation' = kind, admission = {}, ~turnActive, restore = "no",
         UNCHANGED <<admission, turnActive, goalPending, restore, goals, toApp, tasks, executing, restoring>>,
         Sorted, UNCHANGED <<ledger, target>>
  PROVE  Control' /\ LedgerApart' /\ Flight' = Flight /\ Closed' = Closed
<1>1. /\ Gains(toRuntime, toRuntime', Call(kind, {}))
      /\ Call(kind, {}).do = kind /\ Call(kind, {}).text = {}
  <2>1. {} \in Texts
    BY DEF Texts
  <2>. QED
    BY <2>1, CallIs, PostsIs
<1>. PICK c : c = Call(kind, {})
  OBVIOUS
<1>2. Gains(toRuntime, toRuntime', c) /\ c.do = kind /\ c.text = {} /\ kind \in {"clear", "copy"}
  BY <1>1 DEF OpKinds
<1>3. ShapedCalls' /\ ShapedTasks' /\ ShapedEvents'
  BY <1>2 DEF Control, Gains, ShapedCalls, ShapedTasks, ShapedEvents, TurnKinds, Told, Refusal, Outcome
<1>4. OneTurn'
  BY <1>2 DEF Control, Gains, OneTurn, TurnCall, TurnTask, Ends, Told, TurnKinds, Refusal
<1>5. Fenced'
  BY <1>2 DEF Control, Gains, Fenced, TurnCall, TurnTask, Ends, Told, TurnKinds, Refusal, Announcing, Active
<1>6. OneGoal' /\ Backed'
  BY <1>2 DEF Control, Gains, OneGoal, Backed, TurnCall, TurnTask, Told, TurnKinds, Refusal, Outcome
<1>7. Flags' /\ OneRestore'
  BY <1>2 DEF Control, Gains, Flags, OneRestore, TurnTask, Asked, Returned
<1>8. OneOp'
  <2>1. PICK n \in Nat : /\ DOMAIN toRuntime = 1 .. n /\ DOMAIN toRuntime' = 1 .. n + 1
                        /\ toRuntime'[n + 1] = c /\ \A i \in 1 .. n : toRuntime'[i] = toRuntime[i]
    BY <1>2 DEF Gains
  <2>2. /\ \A i \in 1 .. n + 1 : i = n + 1 \/ (i \in 1 .. n /\ toRuntime'[i] = toRuntime[i] /\ i < n + 1)
        /\ \A i \in 1 .. n : i \in 1 .. n + 1 /\ toRuntime'[i] = toRuntime[i] /\ i < n + 1 /\ ~(n + 1 < i)
        /\ n + 1 \in 1 .. n + 1 /\ ~(n + 1 < n + 1)
        /\ \A i \in 1 .. n, o \in OpKinds : Cancels(i, o) => Cancels(i, o)'
    BY <1>2, <2>1 DEF Cancels
  <2>3. /\ \A o \in OpKinds : Cancelled(o) => Cancelled(o)'
        /\ \A i \in 1 .. n : OpCall(i) /\ CancelledAfter(i) => CancelledAfter(i)'
    BY <2>1, <2>2 DEF Cancelled, CancelledAfter, OpCall
  <2>4. operation' # "no" => admission' = {} /\ restore' = "no"
    BY DEF Control, OneOp
  <2>5. \A k \in tasks : OpTask(k) => Cancelled(k.kind)
    BY DEF Control, OneOp, OpTask, OpKinds
  <2>6. \A k \in tasks', i \in DOMAIN toRuntime' : OpTask(k) /\ toRuntime'[i].do \in Taking =>
          \E j \in DOMAIN toRuntime' : j < i /\ Cancels(j, k.kind)'
    <3>. SUFFICES ASSUME NEW k \in tasks, OpTask(k), NEW i \in 1 .. n + 1, toRuntime'[i].do \in Taking
                  PROVE  \E j \in 1 .. n : j < i /\ Cancels(j, k.kind)
      BY <2>1, <2>2 DEF OpTask
    <3>1. CASE i = n + 1
      BY <2>1, <2>2, <2>5, <3>1 DEF Cancelled
    <3>2. CASE i # n + 1
      BY <2>1, <2>2, <3>2 DEF Control, OneOp
    <3>. QED
      BY <3>1, <3>2
  <2>10. \A i \in 1 .. n : OpCall(i) => CancelledAfter(i)
    BY <2>1 DEF Control, OneOp, OpCall, OpKinds
  <2>7. \A i, j \in DOMAIN toRuntime' : i < j /\ OpCall(i)' /\ toRuntime'[j].do \in Taking =>
          \E h \in DOMAIN toRuntime' : i < h /\ h < j /\ Cancels(h, toRuntime[i].do)'
    <3>. SUFFICES ASSUME NEW i \in 1 .. n + 1, NEW j \in 1 .. n + 1, i < j, OpCall(i)', toRuntime'[j].do \in Taking
                  PROVE  \E h \in 1 .. n : i < h /\ h < j /\ Cancels(h, toRuntime[i].do)'
      BY <2>1, <2>2
    <3>1. i \in 1 .. n /\ OpCall(i) /\ toRuntime'[i].do = toRuntime[i].do /\ toRuntime[i].do \in OpKinds
      BY <2>1, <2>2 DEF OpCall
    <3>2. CASE j = n + 1
      BY <2>1, <2>2, <2>10, <3>1, <3>2 DEF CancelledAfter
    <3>3. CASE j # n + 1
      <4>1. PICK h \in 1 .. n : i < h /\ h < j /\ Cancels(h, toRuntime[i].do)
        BY <2>1, <2>2, <3>1, <3>3 DEF Control, OneOp
      <4>. QED
        BY <2>2, <3>1, <4>1
    <3>. QED
      BY <3>2, <3>3
  <2>8. \A i \in DOMAIN toRuntime' : OpCall(i)' => operation' = toRuntime'[i].do \/ CancelledAfter(i)'
    BY <1>2, <2>1, <2>2, <2>3, <2>10 DEF OpCall
  <2>9. \A i \in DOMAIN toApp' : ~Answer(i)'
    BY DEF Control, OneOp, Answer, OpKinds
  <2>11. \A k \in tasks' : OpTask(k) => operation' = k.kind \/ Cancelled(k.kind)'
    BY <2>3, <2>5 DEF OpTask
  <2>. QED
    BY <2>4, <2>6, <2>7, <2>8, <2>9, <2>11 DEF Control, OneOp
<1>9. \A i \in DOMAIN toRuntime : toRuntime[i].do \notin Touching
  BY DEF Control, Fenced, ShapedCalls, OneRestore, TurnCall, TurnKinds, Announcing, Touching, Asked
<1>10. \A k \in tasks : k.kind \notin Touching
  <2>1. \A i \in DOMAIN toApp : Told(i) => toApp[i].text # {}
    BY DEF Control, ShapedEvents
  <2>2. \A k \in tasks : k.kind \in {"prompt", "queued"} => k.phase \in Before \cup InTurn /\ k.text # {}
    <3>1. \A k \in tasks : k.phase \in Phases
      BY DEF TurnsTypeOK, Tasks
    <3>. QED
      BY <3>1 DEF Control, ShapedTasks, TurnKinds, Before, InTurn, Phases
  <2>3. \A k \in tasks : k.kind \notin {"prompt", "queued"}
    BY <2>1, <2>2 DEF Control, Fenced, TurnTask, TurnKinds, Announcing, Active
  <2>. QED
    BY <2>3 DEF Control, OneRestore, Touching
<1>11. Alone'
  BY <1>2, <1>9, <1>10 DEF Control, Gains, Alone, OpCall, OpTask, OpKinds, Touching
<1>12. Flight' = Flight
  BY <1>2 DEF Control, Sorted, Gains, Flight, Pieces, Texts, Refusal, TurnKinds, OpKinds, Before, InTurn
<1>13. Closed' = Closed
  BY <1>2 DEF Control, Sorted, Gains, Closed, Pieces, Texts, Told, Outcome, Refusal, TurnKinds, OpKinds, Before, InTurn
<1>14. LedgerApart'
  BY <1>2 DEF Control, Sorted, Gains, LedgerApart, Told, Outcome, Returned, TurnKinds, OpKinds, Before, InTurn
<1>. QED
  BY <1>12, <1>13, <1>14, <1>3, <1>4, <1>5, <1>6, <1>7, <1>8, <1>11 DEF Control

\* A goal is started: none was before it.
LEMMA ControlGoal ==
  ASSUME TurnsTypeOK, Control, Posts(Call("goal", {Goal})), goals = 0, goals' # 0,
         operation = "no", ~goalPending, admission = {}, ~turnActive, goalPending' = TRUE,
         UNCHANGED <<admission, turnActive, operation, restore, toApp, tasks, executing, restoring>>,
         Sorted, UNCHANGED <<ledger, target>>
  PROVE  Control' /\ LedgerApart' /\ Flight' = Flight \cup {Goal} /\ Closed' = Closed
<1>1. NoTurn
  BY Idle
<1>2. /\ Gains(toRuntime, toRuntime', Call("goal", {Goal}))
      /\ Call("goal", {Goal}).do = "goal" /\ Call("goal", {Goal}).text = {Goal}
  <2>1. {Goal} \in Texts /\ "goal" \in TurnKinds
    BY DEF Texts, TurnKinds
  <2>. QED
    BY <2>1, CallIs, PostsIs
<1>. PICK c : c = Call("goal", {Goal})
  OBVIOUS
<1>3. Gains(toRuntime, toRuntime', c) /\ c.do = "goal" /\ c.text = {Goal}
  BY <1>2
<1>4. ShapedCalls' /\ ShapedTasks' /\ ShapedEvents'
  <2>1. c.do = "goal" /\ c.text # {} /\ c.text = {Goal}
    BY <1>3
  <2>2. ShapedCalls'
    <3>1. PICK n \in Nat : /\ DOMAIN toRuntime = 1 .. n /\ DOMAIN toRuntime' = 1 .. n + 1
                          /\ toRuntime'[n + 1] = c /\ \A i \in 1 .. n : toRuntime'[i] = toRuntime[i]
      BY <1>3 DEF Gains
    <3>2. \A i \in 1 .. n + 1 : toRuntime'[i] = c \/ (i \in 1 .. n /\ toRuntime'[i] = toRuntime[i])
      BY <3>1
    <3>3. "goal" \in TurnKinds /\ c.do # "cancel"
      BY <2>1 DEF TurnKinds
    <3>. QED
      BY <2>1, <3>1, <3>2, <3>3, Zenon DEF Control, ShapedCalls
  <2>. QED
    BY <2>2 DEF Control, ShapedTasks, ShapedEvents, Told, Refusal, Outcome
<1>5. OneTurn'
  BY <1>1, <1>3 DEF NoTurn, Gains, OneTurn, TurnCall, TurnTask, Ends, Told, TurnKinds, Refusal
<1>6. Fenced'
  BY <1>1, <1>3 DEF NoTurn, Gains, Fenced, TurnCall, TurnTask, Ends, Told, TurnKinds, Refusal, Announcing
<1>7. OneGoal' /\ Backed'
  BY <1>1, <1>3 DEF Control, NoTurn, Gains, OneGoal, Backed, TurnCall, TurnTask, Ends, Told, TurnKinds, Refusal, Outcome
<1>8. Flags' /\ OneRestore'
  BY <1>3 DEF Control, Gains, Flags, OneRestore, TurnTask, Asked, Returned
<1>9. OneOp'
  <2>1. PICK n \in Nat : /\ DOMAIN toRuntime = 1 .. n /\ DOMAIN toRuntime' = 1 .. n + 1
                        /\ toRuntime'[n + 1] = c /\ \A i \in 1 .. n : toRuntime'[i] = toRuntime[i]
    BY <1>3 DEF Gains
  <2>2. /\ \A i \in DOMAIN toRuntime' : OpCall(i)' => i \in 1 .. n /\ OpCall(i)
        /\ \A i \in DOMAIN toRuntime' : toRuntime'[i].do \in Taking => i \in 1 .. n
        /\ \A i \in 1 .. n, o \in OpKinds : Cancels(i, o) => Cancels(i, o)'
    BY <1>3, <2>1 DEF OpCall, OpKinds, Cancels, Taking, Touching
  <2>3. /\ \A o \in OpKinds : Cancelled(o) => Cancelled(o)'
        /\ \A i \in 1 .. n : OpCall(i) /\ CancelledAfter(i) => CancelledAfter(i)'
    BY <2>1, <2>2 DEF Cancelled, CancelledAfter, OpCall
  <2>4. operation' # "no" => admission' = {} /\ restore' = "no"
    BY DEF Control, OneOp
  <2>5. \A k \in tasks' : OpTask(k) => operation' = k.kind \/ Cancelled(k.kind)'
    BY <2>3 DEF Control, OneOp, OpTask, OpKinds
  <2>6. \A k \in tasks', i \in DOMAIN toRuntime' : OpTask(k) /\ toRuntime'[i].do \in Taking =>
          \E j \in DOMAIN toRuntime' : j < i /\ Cancels(j, k.kind)'
    BY <2>1, <2>2 DEF Control, OneOp, OpTask
  <2>7. \A i, j \in DOMAIN toRuntime' : i < j /\ OpCall(i)' /\ toRuntime'[j].do \in Taking =>
          \E h \in DOMAIN toRuntime' : i < h /\ h < j /\ Cancels(h, toRuntime[i].do)'
    BY <2>1, <2>2 DEF Control, OneOp, OpCall
  <2>8. \A i \in DOMAIN toRuntime' : OpCall(i)' => operation' = toRuntime'[i].do \/ CancelledAfter(i)'
    BY <2>1, <2>2, <2>3 DEF Control, OneOp, OpCall, OpKinds
  <2>9. \A i \in DOMAIN toApp' : Answer(i)' =>
          /\ operation' = toApp'[i].do
          /\ \A k \in tasks' : OpTask(k) => Cancelled(k.kind)'
          /\ \A j \in DOMAIN toRuntime' : OpCall(j)' => CancelledAfter(j)'
    BY <2>1, <2>2, <2>3 DEF Control, OneOp, OpCall, OpKinds, Answer, OpTask
  <2>. QED
    BY <2>4, <2>5, <2>6, <2>7, <2>8, <2>9 DEF Control, OneOp, Answer
<1>10. Alone'
  BY <1>3 DEF Control, Gains, Alone, OpCall, OpTask, OpKinds, Touching
<1>11. /\ \A i \in DOMAIN toRuntime : toRuntime[i].text = {}
       /\ \A k \in tasks : k.text = {}
       /\ \A i \in DOMAIN toApp : ~Refusal(i)
  <2>1. \A k \in tasks : ~TurnTask(k) => k.kind \in OpKinds \cup {"restore"}
    BY DEF TurnsTypeOK, Tasks, TurnTask
  <2>. QED
    BY <1>1, <2>1 DEF NoTurn, Control, ShapedCalls, ShapedTasks, TurnCall, TurnTask, Ends
<1>12. PICK n \in Nat : /\ DOMAIN toRuntime = 1 .. n /\ DOMAIN toRuntime' = 1 .. n + 1
                       /\ toRuntime'[n + 1] = c /\ \A i \in 1 .. n : toRuntime'[i] = toRuntime[i]
  BY <1>3 DEF Gains
<1>13. /\ n + 1 \in DOMAIN toRuntime' /\ toRuntime'[n + 1].text = {Goal} /\ Goal \in Pieces
       /\ \A i \in DOMAIN toRuntime' : i = n + 1 \/ (i \in DOMAIN toRuntime /\ toRuntime'[i] = toRuntime[i])
  <2>1. n + 1 \in 1 .. n + 1 /\ \A i \in 1 .. n + 1 : i = n + 1 \/ i \in 1 .. n
    BY <1>12
  <2>. QED
    BY <1>3, <1>12, <2>1, Zenon DEF Pieces
<1>14. Flight' = Flight \cup {Goal}
  <2>1. Flight = {}
    BY <1>11 DEF Flight
  <2>2. \A m \in Flight' : m = Goal
    BY <1>11, <1>13 DEF Flight, Refusal
  <2>3. Goal \in Flight'
    BY <1>13 DEF Flight
  <2>. QED
    BY <2>1, <2>2, <2>3
<1>15. Closed' = Closed
  BY <1>1, <1>3 DEF Control, Sorted, NoTurn, Gains, Pieces, Closed, Pieces, Texts, Told, Outcome, Refusal, TurnKinds, OpKinds, Before, InTurn
<1>16. LedgerApart'
  BY <1>1, <1>3 DEF Control, Sorted, NoTurn, Gains, Pieces, LedgerApart, Told, Outcome, Returned, TurnKinds, OpKinds, Before, InTurn
<1>. QED
  BY <1>14, <1>15, <1>16, <1>4, <1>5, <1>6, <1>7, <1>8, <1>9, <1>10 DEF Control

\* The runtime is asked for a restore.
LEMMA ControlAsks ==
  ASSUME TurnsTypeOK, Control, Posts(Call("restore", {})), restore \notin {"no", "called"}, restore' = "called",
         UNCHANGED <<admission, turnActive, goalPending, operation, goals, toApp, tasks, executing, restoring>>,
         Sorted, ~turnActive, UNCHANGED <<ledger, target>>
  PROVE  Control' /\ LedgerApart' /\ Flight' = Flight /\ Closed' = Closed
<1>1. /\ Gains(toRuntime, toRuntime', Call("restore", {}))
      /\ Call("restore", {}).do = "restore" /\ Call("restore", {}).text = {}
  <2>1. {} \in Texts
    BY DEF Texts
  <2>. QED
    BY <2>1, CallIs, PostsIs
<1>. PICK c : c = Call("restore", {})
  OBVIOUS
<1>2. Gains(toRuntime, toRuntime', c) /\ c.do = "restore" /\ c.text = {}
  BY <1>1
<1>3. ShapedCalls' /\ ShapedTasks' /\ ShapedEvents'
  BY <1>2 DEF Control, Gains, ShapedCalls, ShapedTasks, ShapedEvents, TurnKinds, Told, Refusal, Outcome
<1>4. OneTurn'
  BY <1>2 DEF Control, Gains, OneTurn, TurnCall, TurnTask, Ends, Told, TurnKinds, Refusal
<1>5. Fenced'
  BY <1>2 DEF Control, Gains, Fenced, TurnCall, TurnTask, Ends, Told, TurnKinds, Refusal, Announcing, Active
<1>6. OneGoal' /\ Backed'
  BY <1>2 DEF Control, Gains, OneGoal, Backed, TurnCall, TurnTask, Told, TurnKinds, Refusal, Outcome
<1>7. Flags' /\ OneRestore'
  BY <1>2 DEF Control, Gains, Flags, OneRestore, TurnTask, Asked, Returned
<1>8. OneOp'
  <2>1. PICK n \in Nat : /\ DOMAIN toRuntime = 1 .. n /\ DOMAIN toRuntime' = 1 .. n + 1
                        /\ toRuntime'[n + 1] = c /\ \A i \in 1 .. n : toRuntime'[i] = toRuntime[i]
    BY <1>2 DEF Gains
  <2>2. /\ \A i \in 1 .. n + 1 : i = n + 1 \/ (i \in 1 .. n /\ toRuntime'[i] = toRuntime[i] /\ i < n + 1)
        /\ \A i \in 1 .. n : i \in 1 .. n + 1 /\ toRuntime'[i] = toRuntime[i] /\ i < n + 1 /\ ~(n + 1 < i)
        /\ n + 1 \in 1 .. n + 1 /\ ~(n + 1 < n + 1)
        /\ \A i \in 1 .. n, o \in OpKinds : Cancels(i, o) => Cancels(i, o)'
    BY <1>2, <2>1 DEF Cancels
  <2>3. /\ \A o \in OpKinds : Cancelled(o) => Cancelled(o)'
        /\ \A i \in 1 .. n : OpCall(i) /\ CancelledAfter(i) => CancelledAfter(i)'
    BY <2>1, <2>2 DEF Cancelled, CancelledAfter, OpCall
  <2>4. operation' # "no" => admission' = {} /\ restore' = "no"
    BY DEF Control, OneOp
  <2>12. operation = "no" /\ operation' = "no"
    BY DEF Control, OneOp
  <2>5. \A k \in tasks : OpTask(k) => Cancelled(k.kind)
    BY <2>12 DEF Control, OneOp, OpTask, OpKinds
  <2>6. \A k \in tasks', i \in DOMAIN toRuntime' : OpTask(k) /\ toRuntime'[i].do \in Taking =>
          \E j \in DOMAIN toRuntime' : j < i /\ Cancels(j, k.kind)'
    <3>. SUFFICES ASSUME NEW k \in tasks, OpTask(k), NEW i \in 1 .. n + 1, toRuntime'[i].do \in Taking
                  PROVE  \E j \in 1 .. n : j < i /\ Cancels(j, k.kind)
      BY <2>1, <2>2 DEF OpTask
    <3>1. CASE i = n + 1
      BY <2>1, <2>2, <2>5, <3>1 DEF Cancelled
    <3>2. CASE i # n + 1
      BY <2>1, <2>2, <3>2 DEF Control, OneOp
    <3>. QED
      BY <3>1, <3>2
  <2>10. \A i \in 1 .. n : OpCall(i) => CancelledAfter(i)
    BY <2>1, <2>12 DEF Control, OneOp, OpCall, OpKinds
  <2>7. \A i, j \in DOMAIN toRuntime' : i < j /\ OpCall(i)' /\ toRuntime'[j].do \in Taking =>
          \E h \in DOMAIN toRuntime' : i < h /\ h < j /\ Cancels(h, toRuntime[i].do)'
    <3>. SUFFICES ASSUME NEW i \in 1 .. n + 1, NEW j \in 1 .. n + 1, i < j, OpCall(i)', toRuntime'[j].do \in Taking
                  PROVE  \E h \in 1 .. n : i < h /\ h < j /\ Cancels(h, toRuntime[i].do)'
      BY <2>1, <2>2
    <3>1. i \in 1 .. n /\ OpCall(i) /\ toRuntime'[i].do = toRuntime[i].do /\ toRuntime[i].do \in OpKinds
      BY <2>1, <2>2 DEF OpCall
    <3>2. CASE j = n + 1
      BY <2>1, <2>2, <2>10, <3>1, <3>2 DEF CancelledAfter
    <3>3. CASE j # n + 1
      <4>1. PICK h \in 1 .. n : i < h /\ h < j /\ Cancels(h, toRuntime[i].do)
        BY <2>1, <2>2, <3>1, <3>3 DEF Control, OneOp
      <4>. QED
        BY <2>2, <3>1, <4>1
    <3>. QED
      BY <3>2, <3>3
  <2>8. \A i \in DOMAIN toRuntime' : OpCall(i)' => operation' = toRuntime'[i].do \/ CancelledAfter(i)'
    BY <1>2, <2>1, <2>2, <2>3, <2>10 DEF OpCall, OpKinds
  <2>9. \A i \in DOMAIN toApp' : ~Answer(i)'
    BY <2>12 DEF Control, OneOp, Answer, OpKinds
  <2>11. \A k \in tasks' : OpTask(k) => operation' = k.kind \/ Cancelled(k.kind)'
    BY <2>3, <2>5 DEF OpTask
  <2>. QED
    BY <2>4, <2>6, <2>7, <2>8, <2>9, <2>11 DEF Control, OneOp
<1>9. Alone'
  BY <1>2 DEF Control, Gains, Alone, OpCall, OpTask, OpKinds, Touching
<1>10. \A k \in tasks : k.phase \in InTurn => k.text \cap ledger[target] = {}
  <2>. SUFFICES ASSUME NEW k \in tasks, k.phase \in InTurn PROVE k.text \cap ledger[target] = {}
    OBVIOUS
  <2>1. TurnTask(k)
    <3>1. k.kind \in TurnKinds \cup OpKinds \cup {"restore"}
      BY DEF TurnsTypeOK, Tasks
    <3>. QED
      BY <3>1 DEF Control, ShapedTasks, TurnTask, InTurn
  <2>2. PICK i \in DOMAIN toApp : Told(i) /\ toApp[i].text = k.text
    BY <2>1 DEF Control, Fenced, Active
  <2>3. target \in DOMAIN ledger
    BY DEF Sorted, Aimed, Restoring
  <2>. QED
    BY <2>2, <2>3 DEF Sorted, LedgerApart
<1>11. \A i \in DOMAIN toApp : ~Returned(i)
  BY DEF Control, OneRestore
<1>12. Flight' = Flight
  BY <1>2 DEF Control, Sorted, Gains, Flight, Pieces, Texts, Refusal, TurnKinds, OpKinds, Before, InTurn
<1>13. Closed' = Closed
  BY <1>2 DEF Control, Sorted, Gains, Closed, Pieces, Texts, Told, Outcome, Refusal, TurnKinds, OpKinds, Before, InTurn
<1>14. LedgerApart'
  BY <1>2, <1>10, <1>11 DEF Control, Sorted, Gains, LedgerApart, Told, Outcome, Returned, TurnKinds, OpKinds, Before, InTurn
<1>. QED
  BY <1>12, <1>13, <1>14, <1>3, <1>4, <1>5, <1>6, <1>7, <1>8, <1>9 DEF Control

Skips(q, r, p) == \E n \in Nat :
  /\ DOMAIN q = 1 .. n + 1 /\ DOMAIN r = 1 .. n /\ p \in 1 .. n + 1
  /\ \A i \in 1 .. n : r[i] = IF i < p THEN q[i] ELSE q[i + 1]

LEMMA SkipsIs ==
  ASSUME NEW S, NEW q \in Seq(S), NEW p \in DOMAIN q
  PROVE  RemoveAt(q, p) \in Seq(S) /\ Skips(q, RemoveAt(q, p), p)
<1>. PICK r : r = SubSeq(q, 1, p - 1) \o SubSeq(q, p + 1, Len(q))
  OBVIOUS
<1>1. Len(q) \in Nat /\ DOMAIN q = 1 .. Len(q)
  BY LenProperties
<1>2. p \in 1 .. Len(q)
  BY <1>1
<1>3. /\ r \in Seq(S) /\ DOMAIN r = 1 .. Len(q) - 1
      /\ \A j \in 1 .. Len(q) - 1 : r[j] = IF j < p THEN q[j] ELSE q[j + 1]
  <2>1. \A t : t = SubSeq(q, 1, p - 1) \o SubSeq(q, p + 1, Len(q)) =>
          /\ t \in Seq(S) /\ DOMAIN t = 1 .. Len(q) - 1
          /\ \A j \in 1 .. Len(q) - 1 : t[j] = IF j < p THEN q[j] ELSE q[j + 1]
    BY <1>2, Spliced
  <2>. QED
    BY <2>1, Zenon
<1>. PICK n : n = Len(q) - 1
  OBVIOUS
<1>4. n \in Nat /\ Len(q) = n + 1
  BY <1>1, <1>2
<1>5. Skips(q, r, p)
  BY <1>1, <1>2, <1>3, <1>4, Zenon DEF Skips
<1>6. r = RemoveAt(q, p)
  BY DEF RemoveAt
<1>. QED
  BY <1>3, <1>5, <1>6


\* A call has not been answered in time: it is cancelled.
LEMMA ControlTimesOutFirst ==
  ASSUME TurnsTypeOK, Control, NEW c, Gains(toRuntime, toRuntime', c), c.do = "cancel", c.text = {}, c.op = operation,
         operation \in OpKinds, operation' = "no",
         UNCHANGED toApp, \A i \in DOMAIN toApp : toApp[i].do # operation,
         UNCHANGED <<admission, turnActive, goalPending, restore, goals, tasks, executing, restoring>>,
         Sorted, UNCHANGED <<ledger, target>>
  PROVE  Control' /\ LedgerApart' /\ Flight' = Flight /\ Closed' = Closed
<1>1. PICK n \in Nat : /\ DOMAIN toRuntime = 1 .. n /\ DOMAIN toRuntime' = 1 .. n + 1
                      /\ toRuntime'[n + 1] = c /\ \A i \in 1 .. n : toRuntime'[i] = toRuntime[i]
  BY DEF Gains
<1>2. /\ \A i \in DOMAIN toRuntime' : toRuntime'[i].do # "cancel" => i \in DOMAIN toRuntime /\ toRuntime'[i] = toRuntime[i]
      /\ \A i \in DOMAIN toRuntime : i \in DOMAIN toRuntime' /\ toRuntime'[i] = toRuntime[i] /\ i < n + 1
      /\ \A i \in DOMAIN toRuntime' : toRuntime'[i] = c \/ (i \in DOMAIN toRuntime /\ toRuntime'[i] = toRuntime[i])
      /\ n + 1 \in DOMAIN toRuntime' /\ toRuntime'[n + 1] = c
      /\ DOMAIN toRuntime' \subseteq Nat
  BY <1>1
<1>3. ShapedCalls' /\ ShapedTasks' /\ ShapedEvents'
  BY <1>2 DEF Control, ShapedCalls, ShapedTasks, ShapedEvents, TurnKinds, OpKinds, Told, Refusal, Outcome
<1>4. OneTurn'
  BY <1>2 DEF Control, OneTurn, TurnCall, TurnTask, Ends, Told, Refusal, TurnKinds, OpKinds, Before, InTurn
<1>5. Fenced'
  BY <1>2 DEF Control, Fenced, TurnCall, TurnTask, Ends, Told, Refusal, Announcing, Active, TurnKinds, OpKinds, Before, InTurn
<1>6. OneGoal'
  BY <1>2 DEF Control, OneGoal, TurnKinds, OpKinds, Outcome, Told
<1>7. Backed'
  BY <1>2 DEF Control, Backed, TurnCall, TurnTask, Told, Refusal, TurnKinds, OpKinds, Before, InTurn
<1>8. Flags'
  BY <1>2 DEF Control, Flags, TurnTask, TurnKinds, OpKinds
<1>9. OneRestore'
  BY <1>2 DEF Control, OneRestore, Asked, Returned, TurnKinds, OpKinds
<1>10. OneOp'
  BY <1>2 DEF Control, OneOp, OpCall, OpTask, Answer, Cancelled, CancelledAfter, Cancels, OpKinds, TurnKinds, Taking, Touching
<1>11. Alone'
  BY <1>2 DEF Control, Alone, OpCall, OpTask, OpKinds, TurnKinds, Touching
<1>12. Flight' = Flight
  BY <1>2 DEF Control, Sorted, Flight, Pieces, Texts, Refusal, TurnKinds, OpKinds, Before, InTurn
<1>13. Closed' = Closed
  BY <1>2 DEF Control, Sorted, Closed, Pieces, Texts, Told, Outcome, Refusal, TurnKinds, OpKinds, Before, InTurn
<1>14. LedgerApart'
  BY <1>2 DEF Control, Sorted, LedgerApart, Told, Outcome, Returned, TurnKinds, OpKinds, Before, InTurn
<1>. QED
  BY <1>12, <1>13, <1>14, <1>3, <1>4, <1>5, <1>6, <1>7, <1>8, <1>9, <1>10, <1>11 DEF Control

\* The same, of a call whose answer was on its way.
LEMMA ControlTimesOutLate ==
  ASSUME TurnsTypeOK, Control, NEW c, Gains(toRuntime, toRuntime', c), c.do = "cancel", c.text = {}, c.op = operation,
         operation \in OpKinds, operation' = "no",
         \E p \in DOMAIN toApp : toApp[p].do = operation /\ Skips(toApp, toApp', p),
         UNCHANGED <<admission, turnActive, goalPending, restore, goals, tasks, executing, restoring>>,
         Sorted, UNCHANGED <<ledger, target>>
  PROVE  Control' /\ LedgerApart' /\ Flight' = Flight /\ Closed' = Closed
<1>1. PICK n \in Nat : /\ DOMAIN toRuntime = 1 .. n /\ DOMAIN toRuntime' = 1 .. n + 1
                      /\ toRuntime'[n + 1] = c /\ \A i \in 1 .. n : toRuntime'[i] = toRuntime[i]
  BY DEF Gains
<1>2. /\ \A i \in DOMAIN toRuntime' : toRuntime'[i].do # "cancel" => i \in DOMAIN toRuntime /\ toRuntime'[i] = toRuntime[i]
      /\ \A i \in DOMAIN toRuntime : i \in DOMAIN toRuntime' /\ toRuntime'[i] = toRuntime[i] /\ i < n + 1
      /\ \A i \in DOMAIN toRuntime' : toRuntime'[i] = c \/ (i \in DOMAIN toRuntime /\ toRuntime'[i] = toRuntime[i])
      /\ n + 1 \in DOMAIN toRuntime' /\ toRuntime'[n + 1] = c
      /\ DOMAIN toRuntime' \subseteq Nat
  BY <1>1
<1>3. PICK p \in DOMAIN toApp : toApp[p].do = operation /\ Skips(toApp, toApp', p)
  OBVIOUS
<1>4. PICK l \in Nat :
        /\ DOMAIN toApp = 1 .. l + 1 /\ DOMAIN toApp' = 1 .. l /\ p \in 1 .. l + 1
        /\ \A i \in 1 .. l : toApp'[i] = IF i < p THEN toApp[i] ELSE toApp[i + 1]
  BY <1>3 DEF Skips
<1> DEFINE old(i) == IF i < p THEN i ELSE i + 1
           new(i) == IF i < p THEN i ELSE i - 1
<1>5. /\ \A i \in DOMAIN toApp' : old(i) \in DOMAIN toApp /\ toApp'[i] = toApp[old(i)] /\ old(i) # p
      /\ \A i \in DOMAIN toApp : i # p => new(i) \in DOMAIN toApp' /\ toApp'[new(i)] = toApp[i] /\ old(new(i)) = i
      /\ \A i, j \in DOMAIN toApp' : (old(i) = old(j) => i = j) /\ (i < j => old(i) < old(j))
  BY <1>4
<1>6. \A i \in DOMAIN toApp', j \in DOMAIN toApp : j # p => (old(i) < j => i < new(j)) /\ (j < old(i) => new(j) < i)
  <2>. SUFFICES ASSUME NEW i \in 1 .. l, NEW j \in 1 .. l + 1, j # p
                PROVE  (old(i) < j => i < new(j)) /\ (j < old(i) => new(j) < i)
    BY <1>4
  <2>1. p \in Int /\ i \in Int /\ j \in Int
    BY <1>4
  <2>. QED
    BY ONLY <2>1, j # p
<1>7. ~Told(p) /\ ~Ends(p) /\ ~Outcome(p) /\ ~Refusal(p) /\ ~Returned(p) /\ Answer(p) /\ toApp[p].do # "goal"
  BY <1>3 DEF Told, Ends, Outcome, Refusal, Returned, Answer, OpKinds, TurnKinds
<1> HIDE DEF old, new
<1>8. ShapedCalls' /\ ShapedTasks' /\ ShapedEvents'
  BY <1>2, <1>5, <1>7, <1>6 DEF Control, ShapedCalls, ShapedTasks, ShapedEvents, TurnKinds, OpKinds, Told, Refusal, Outcome
<1>9. OneTurn'
  BY <1>2, <1>5, <1>7, <1>6 DEF Control, OneTurn, TurnCall, TurnTask, Ends, Told, Refusal, TurnKinds, OpKinds, Before, InTurn
<1>10. Fenced'
  BY <1>2, <1>5, <1>7, <1>6 DEF Control, Fenced, TurnCall, TurnTask, Ends, Told, Refusal, Announcing, Active, TurnKinds, OpKinds, Before, InTurn
<1>11. OneGoal'
  BY <1>2, <1>5, <1>7, <1>6 DEF Control, OneGoal, TurnKinds, OpKinds, Outcome, Told
<1>12. Backed'
  BY <1>2, <1>5, <1>7, <1>6 DEF Control, Backed, TurnCall, TurnTask, Told, Refusal, TurnKinds, OpKinds, Before, InTurn
<1>13. Flags'
  BY <1>2, <1>5, <1>7, <1>6 DEF Control, Flags, TurnTask, TurnKinds, OpKinds
<1>14. OneRestore'
  BY <1>2, <1>5, <1>7, <1>6 DEF Control, OneRestore, Asked, Returned, TurnKinds, OpKinds
<1>15. OneOp'
  BY <1>2, <1>5, <1>7, <1>6 DEF Control, OneOp, OpCall, OpTask, Answer, Cancelled, CancelledAfter, Cancels, OpKinds, TurnKinds, Taking, Touching
<1>16. Alone'
  BY <1>2, <1>5, <1>7, <1>6 DEF Control, Alone, OpCall, OpTask, OpKinds, TurnKinds, Touching
<1>17. Flight' = Flight
  BY <1>2, <1>5, <1>7, <1>6 DEF Control, Sorted, Flight, Pieces, Texts, Refusal, TurnKinds, OpKinds, Before, InTurn
<1>18. Closed' = Closed
  BY <1>2, <1>5, <1>7, <1>6 DEF Control, Sorted, Closed, Pieces, Texts, Told, Outcome, Refusal, TurnKinds, OpKinds, Before, InTurn
<1>19. LedgerApart'
  BY <1>2, <1>5, <1>7, <1>6 DEF Control, Sorted, LedgerApart, Told, Outcome, Returned, TurnKinds, OpKinds, Before, InTurn
<1>. QED
  BY <1>17, <1>18, <1>19, <1>8, <1>9, <1>10, <1>11, <1>12, <1>13, <1>14, <1>15, <1>16 DEF Control

\* A prompt or a goal becomes a task.
LEMMA ControlTurnArrives ==
  ASSUME TurnsTypeOK, Control, Drops(toRuntime, toRuntime'), NEW c, c = toRuntime[1],
         c.do \in TurnKinds, NEW k1, k1.kind = c.do, k1.text = c.text, k1.phase \in Before,
         k1.phase = "configure" => c.do = "goal", tasks' = tasks \cup {k1},
         \/ executing' = executing /\ k1.phase # "begin"
         \/ ~executing /\ ~restoring /\ executing' = TRUE /\ k1.phase = "begin",
         UNCHANGED <<toApp, restoring>>, UNCHANGED Fences,
         Sorted, UNCHANGED <<ledger, target>>
  PROVE  Control' /\ LedgerApart' /\ Flight' = Flight /\ Closed' = Closed
<1>1. PICK n \in Nat : /\ DOMAIN toRuntime = 1 .. n + 1 /\ DOMAIN toRuntime' = 1 .. n
                      /\ \A i \in 1 .. n : toRuntime'[i] = toRuntime[i + 1]
  BY DEF Drops
<1>2. /\ 1 \in DOMAIN toRuntime /\ DOMAIN toRuntime \subseteq Nat \ {0} /\ DOMAIN toRuntime' \subseteq Nat \ {0}
      /\ \A i \in DOMAIN toRuntime' : i + 1 \in DOMAIN toRuntime /\ toRuntime'[i] = toRuntime[i + 1]
      /\ \A i \in DOMAIN toRuntime : i # 1 => i - 1 \in DOMAIN toRuntime' /\ toRuntime'[i - 1] = toRuntime[i]
  BY <1>1
<1>3. \A k \in tasks : ~TurnTask(k)
  BY <1>2 DEF Control, OneTurn, TurnCall
<1>4. c.do \in Touching => \A k \in tasks : ~OpTask(k)
  BY <1>2 DEF Control, OneOp, Taking
<1>5. ShapedCalls' /\ ShapedTasks' /\ ShapedEvents'
  BY <1>2 DEF Control, Fences, Before, ShapedCalls, ShapedTasks, ShapedEvents, TurnKinds, OpKinds, Told, Refusal, Outcome
<1>6. OneTurn'
  BY <1>2 DEF Control, Fences, Before, OneTurn, TurnCall, TurnTask, Ends, Told, Refusal, TurnKinds, OpKinds, Before, InTurn
<1>7. Fenced'
  BY <1>2 DEF Control, Fences, Before, Fenced, TurnCall, TurnTask, Ends, Told, Refusal, Announcing, Active, TurnKinds, OpKinds, Before, InTurn
<1>8. OneGoal'
  BY <1>2 DEF Control, Fences, Before, OneGoal, TurnKinds, OpKinds, Outcome, Told
<1>9. Backed'
  BY <1>2 DEF Control, Fences, Before, Backed, TurnCall, TurnTask, Told, Refusal, TurnKinds, OpKinds, Before, InTurn
<1>10. Flags'
  BY <1>3 DEF Control, Fences, Flags, TurnTask, TurnsTypeOK, Before
<1>11. OneRestore'
  BY <1>2 DEF Control, Fences, Before, OneRestore, Asked, Returned, TurnKinds, OpKinds
<1>12. OneOp'
  BY <1>2 DEF Control, Fences, Before, OneOp, OpCall, OpTask, Answer, Cancelled, CancelledAfter, Cancels, OpKinds, TurnKinds, Taking, Touching
<1>13. Alone'
  BY <1>2, <1>4 DEF Control, Fences, Before, Alone, OpCall, OpTask, OpKinds, TurnKinds, Touching
<1>14. Flight' = Flight
  BY <1>2 DEF Control, Sorted, Fences, ShapedCalls, ShapedTasks, Flight, Pieces, Texts, Refusal, TurnKinds, OpKinds, Before, InTurn
<1>15. Closed' = Closed
  BY <1>2 DEF Control, Sorted, Fences, ShapedCalls, ShapedTasks, Closed, Pieces, Texts, Told, Outcome, Refusal, TurnKinds, OpKinds, Before, InTurn
<1>16. LedgerApart'
  BY <1>2 DEF Control, Sorted, Fences, ShapedCalls, ShapedTasks, LedgerApart, Told, Outcome, Returned, TurnKinds, OpKinds, Before, InTurn
<1>. QED
  BY <1>14, <1>15, <1>16, <1>5, <1>6, <1>7, <1>8, <1>9, <1>10, <1>11, <1>12, <1>13 DEF Control

\* A prompt is refused.
LEMMA ControlTurnRefused ==
  ASSUME TurnsTypeOK, Control, Drops(toRuntime, toRuntime'), NEW c, c = toRuntime[1],
         c.do \in TurnKinds, NEW e, Gains(toApp, toApp', e), e.do = c.do, e.text = c.text, ~e.ok, ~e.begun,
         UNCHANGED <<tasks, executing, restoring>>, UNCHANGED Fences,
         Sorted, UNCHANGED <<ledger, target>>
  PROVE  Control' /\ LedgerApart' /\ Flight' = Flight /\ Closed' = Closed
<1>1. PICK n \in Nat : /\ DOMAIN toRuntime = 1 .. n + 1 /\ DOMAIN toRuntime' = 1 .. n
                      /\ \A i \in 1 .. n : toRuntime'[i] = toRuntime[i + 1]
  BY DEF Drops
<1>2. /\ 1 \in DOMAIN toRuntime /\ DOMAIN toRuntime \subseteq Nat \ {0} /\ DOMAIN toRuntime' \subseteq Nat \ {0}
      /\ \A i \in DOMAIN toRuntime' : i + 1 \in DOMAIN toRuntime /\ toRuntime'[i] = toRuntime[i + 1]
      /\ \A i \in DOMAIN toRuntime : i # 1 => i - 1 \in DOMAIN toRuntime' /\ toRuntime'[i - 1] = toRuntime[i]
  BY <1>1
<1>3. PICK l \in Nat : /\ DOMAIN toApp = 1 .. l /\ DOMAIN toApp' = 1 .. l + 1
                      /\ toApp'[l + 1] = e /\ \A i \in 1 .. l : toApp'[i] = toApp[i]
  BY DEF Gains
<1>4. /\ l + 1 \in DOMAIN toApp' /\ toApp'[l + 1] = e
      /\ \A i \in DOMAIN toApp : i \in DOMAIN toApp' /\ toApp'[i] = toApp[i] /\ i < l + 1
      /\ \A i \in DOMAIN toApp' : i = l + 1 \/ (i \in DOMAIN toApp /\ toApp'[i] = toApp[i])
      /\ DOMAIN toApp' \subseteq Nat
  BY <1>3
<1>5. ShapedCalls' /\ ShapedTasks' /\ ShapedEvents'
  BY <1>2, <1>4 DEF Control, Fences, ShapedCalls, ShapedTasks, ShapedEvents, TurnKinds, OpKinds, Told, Refusal, Outcome
<1>6. OneTurn'
  BY <1>2, <1>4 DEF Control, Fences, OneTurn, TurnCall, TurnTask, Ends, Told, Refusal, TurnKinds, OpKinds, Before, InTurn
<1>7. Fenced'
  BY <1>2, <1>4 DEF Control, Fences, Fenced, TurnCall, TurnTask, Ends, Told, Refusal, Announcing, Active, TurnKinds, OpKinds, Before, InTurn
<1>8. OneGoal'
  BY <1>2, <1>4 DEF Control, Fences, OneGoal, TurnKinds, OpKinds, Outcome, Told
<1>9. Backed'
  BY <1>2, <1>4 DEF Control, Fences, Backed, TurnCall, TurnTask, Told, Refusal, TurnKinds, OpKinds, Before, InTurn
<1>10. Flags'
  BY <1>2, <1>4 DEF Control, Fences, Flags, TurnTask, TurnKinds, OpKinds
<1>11. OneRestore'
  BY <1>2, <1>4 DEF Control, Fences, OneRestore, Asked, Returned, TurnKinds, OpKinds
<1>12. OneOp'
  BY <1>2, <1>4 DEF Control, Fences, OneOp, OpCall, OpTask, Answer, Cancelled, CancelledAfter, Cancels, OpKinds, TurnKinds, Taking, Touching
<1>13. Alone'
  BY <1>2, <1>4 DEF Control, Fences, Alone, OpCall, OpTask, OpKinds, TurnKinds, Touching
<1>14. Flight' = Flight
  BY <1>2, <1>4 DEF Control, Sorted, Fences, ShapedCalls, ShapedTasks, Flight, Pieces, Texts, Refusal, TurnKinds, OpKinds, Before, InTurn
<1>15. Closed' = Closed
  BY <1>2, <1>4 DEF Control, Sorted, Fences, ShapedCalls, ShapedTasks, Closed, Pieces, Texts, Told, Outcome, Refusal, TurnKinds, OpKinds, Before, InTurn
<1>16. LedgerApart'
  BY <1>2, <1>4 DEF Control, Sorted, Fences, ShapedCalls, ShapedTasks, LedgerApart, Told, Outcome, Returned, TurnKinds, OpKinds, Before, InTurn
<1>. QED
  BY <1>14, <1>15, <1>16, <1>5, <1>6, <1>7, <1>8, <1>9, <1>10, <1>11, <1>12, <1>13 DEF Control

\* A clear, a compaction or a snapshot becomes a task.
LEMMA ControlOpArrives ==
  ASSUME TurnsTypeOK, Control, Drops(toRuntime, toRuntime'), NEW c, c = toRuntime[1],
         c.do \in OpKinds, NEW k1, k1.kind = c.do, k1.text = c.text, k1.phase = "work",
         tasks' = tasks \cup {k1}, UNCHANGED <<toApp, executing, restoring>>, UNCHANGED Fences,
         Sorted, UNCHANGED <<ledger, target>>
  PROVE  Control' /\ LedgerApart' /\ Flight' = Flight /\ Closed' = Closed
<1>1. PICK n \in Nat : /\ DOMAIN toRuntime = 1 .. n + 1 /\ DOMAIN toRuntime' = 1 .. n
                      /\ \A i \in 1 .. n : toRuntime'[i] = toRuntime[i + 1]
  BY DEF Drops
<1>2. /\ 1 \in DOMAIN toRuntime /\ DOMAIN toRuntime \subseteq Nat \ {0} /\ DOMAIN toRuntime' \subseteq Nat \ {0}
      /\ \A i \in DOMAIN toRuntime' : i + 1 \in DOMAIN toRuntime /\ toRuntime'[i] = toRuntime[i + 1]
      /\ \A i \in DOMAIN toRuntime : i # 1 => i - 1 \in DOMAIN toRuntime' /\ toRuntime'[i - 1] = toRuntime[i]
  BY <1>1
<1>3. ShapedCalls' /\ ShapedTasks' /\ ShapedEvents'
  BY <1>2 DEF Control, Fences, ShapedCalls, ShapedTasks, ShapedEvents, TurnKinds, OpKinds, Told, Refusal, Outcome
<1>4. OneTurn'
  BY <1>2 DEF Control, Fences, OneTurn, TurnCall, TurnTask, Ends, Told, Refusal, TurnKinds, OpKinds, Before, InTurn
<1>5. Fenced'
  BY <1>2 DEF Control, Fences, Fenced, TurnCall, TurnTask, Ends, Told, Refusal, Announcing, Active, TurnKinds, OpKinds, Before, InTurn
<1>6. OneGoal'
  BY <1>2 DEF Control, Fences, OneGoal, TurnKinds, OpKinds, Outcome, Told
<1>7. Backed'
  BY <1>2 DEF Control, Fences, Backed, TurnCall, TurnTask, Told, Refusal, TurnKinds, OpKinds, Before, InTurn
<1>8. Flags'
  BY <1>2 DEF Control, Fences, Flags, TurnTask, TurnKinds, OpKinds
<1>9. OneRestore'
  BY <1>2 DEF Control, Fences, OneRestore, Asked, Returned, TurnKinds, OpKinds
<1>10. OneOp'
  BY <1>2 DEF Control, Fences, OneOp, OpCall, OpTask, Answer, Cancelled, CancelledAfter, Cancels, OpKinds, TurnKinds, Taking, Touching
<1>11. Alone'
  BY <1>2 DEF Control, Fences, Alone, OpCall, OpTask, OpKinds, TurnKinds, Touching
<1>12. Flight' = Flight
  BY <1>2 DEF Control, Sorted, Fences, ShapedCalls, ShapedTasks, Flight, Pieces, Texts, Refusal, TurnKinds, OpKinds, Before, InTurn
<1>13. Closed' = Closed
  BY <1>2 DEF Control, Sorted, Fences, ShapedCalls, ShapedTasks, Closed, Pieces, Texts, Told, Outcome, Refusal, TurnKinds, OpKinds, Before, InTurn
<1>14. LedgerApart'
  BY <1>2 DEF Control, Sorted, Fences, ShapedCalls, ShapedTasks, LedgerApart, Told, Outcome, Returned, TurnKinds, OpKinds, Before, InTurn
<1>. QED
  BY <1>12, <1>13, <1>14, <1>3, <1>4, <1>5, <1>6, <1>7, <1>8, <1>9, <1>10, <1>11 DEF Control

\* A restore becomes a task.
LEMMA ControlRestoreArrives ==
  ASSUME TurnsTypeOK, Control, Drops(toRuntime, toRuntime'), NEW c, c = toRuntime[1],
         c.do = "restore", NEW k1, k1.kind = "restore", k1.text = c.text,
         tasks' = tasks \cup {k1},
         \/ restoring' = restoring /\ k1.phase = "retry"
         \/ ~executing /\ ~restoring /\ restoring' = TRUE /\ k1.phase = "work",
         UNCHANGED <<toApp, executing>>, UNCHANGED Fences,
         Sorted, UNCHANGED <<ledger, target>>
  PROVE  Control' /\ LedgerApart' /\ Flight' = Flight /\ Closed' = Closed
<1>1. PICK n \in Nat : /\ DOMAIN toRuntime = 1 .. n + 1 /\ DOMAIN toRuntime' = 1 .. n
                      /\ \A i \in 1 .. n : toRuntime'[i] = toRuntime[i + 1]
  BY DEF Drops
<1>2. /\ 1 \in DOMAIN toRuntime /\ DOMAIN toRuntime \subseteq Nat \ {0} /\ DOMAIN toRuntime' \subseteq Nat \ {0}
      /\ \A i \in DOMAIN toRuntime' : i + 1 \in DOMAIN toRuntime /\ toRuntime'[i] = toRuntime[i + 1]
      /\ \A i \in DOMAIN toRuntime : i # 1 => i - 1 \in DOMAIN toRuntime' /\ toRuntime'[i - 1] = toRuntime[i]
  BY <1>1
<1>3. \A k \in tasks : ~OpTask(k)
  BY <1>2 DEF Control, OneOp, Taking, Touching
<1>4. ShapedCalls' /\ ShapedTasks' /\ ShapedEvents'
  BY <1>2 DEF Control, Fences, ShapedCalls, ShapedTasks, ShapedEvents, TurnKinds, OpKinds, Told, Refusal, Outcome
<1>5. OneTurn'
  BY <1>2 DEF Control, Fences, OneTurn, TurnCall, TurnTask, Ends, Told, Refusal, TurnKinds, OpKinds, Before, InTurn
<1>6. Fenced'
  BY <1>2 DEF Control, Fences, Fenced, TurnCall, TurnTask, Ends, Told, Refusal, Announcing, Active, TurnKinds, OpKinds, Before, InTurn
<1>7. OneGoal'
  BY <1>2 DEF Control, Fences, OneGoal, TurnKinds, OpKinds, Outcome, Told
<1>8. Backed'
  BY <1>2 DEF Control, Fences, Backed, TurnCall, TurnTask, Told, Refusal, TurnKinds, OpKinds, Before, InTurn
<1>9. Flags'
  BY <1>2 DEF Control, Fences, Flags, TurnTask, TurnKinds, OpKinds
<1>10. OneRestore'
  BY <1>2 DEF Control, Fences, OneRestore, Asked, Returned, TurnKinds, OpKinds
<1>11. OneOp'
  BY <1>2 DEF Control, Fences, OneOp, OpCall, OpTask, Answer, Cancelled, CancelledAfter, Cancels, OpKinds, TurnKinds, Taking, Touching
<1>12. Alone'
  BY <1>2, <1>3 DEF Control, Fences, Alone, OpCall, OpTask, OpKinds, TurnKinds, Touching
<1>13. Flight' = Flight
  BY <1>2 DEF Control, Sorted, Fences, ShapedCalls, ShapedTasks, Flight, Pieces, Texts, Refusal, TurnKinds, OpKinds, Before, InTurn
<1>14. Closed' = Closed
  BY <1>2 DEF Control, Sorted, Fences, ShapedCalls, ShapedTasks, Closed, Pieces, Texts, Told, Outcome, Refusal, TurnKinds, OpKinds, Before, InTurn
<1>15. LedgerApart'
  BY <1>2 DEF Control, Sorted, Fences, ShapedCalls, ShapedTasks, LedgerApart, Told, Outcome, Returned, TurnKinds, OpKinds, Before, InTurn
<1>. QED
  BY <1>13, <1>14, <1>15, <1>4, <1>5, <1>6, <1>7, <1>8, <1>9, <1>10, <1>11, <1>12 DEF Control

\* A restore is refused.
LEMMA ControlRestoreRefused ==
  ASSUME TurnsTypeOK, Control, Drops(toRuntime, toRuntime'), NEW c, c = toRuntime[1],
         c.do = "restore", NEW e, Gains(toApp, toApp', e), e.do = "restore",
         UNCHANGED <<tasks, executing, restoring>>, UNCHANGED Fences,
         Sorted, UNCHANGED <<ledger, target>>
  PROVE  Control' /\ LedgerApart' /\ Flight' = Flight /\ Closed' = Closed
<1>1. PICK n \in Nat : /\ DOMAIN toRuntime = 1 .. n + 1 /\ DOMAIN toRuntime' = 1 .. n
                      /\ \A i \in 1 .. n : toRuntime'[i] = toRuntime[i + 1]
  BY DEF Drops
<1>2. /\ 1 \in DOMAIN toRuntime /\ DOMAIN toRuntime \subseteq Nat \ {0} /\ DOMAIN toRuntime' \subseteq Nat \ {0}
      /\ \A i \in DOMAIN toRuntime' : i + 1 \in DOMAIN toRuntime /\ toRuntime'[i] = toRuntime[i + 1]
      /\ \A i \in DOMAIN toRuntime : i # 1 => i - 1 \in DOMAIN toRuntime' /\ toRuntime'[i - 1] = toRuntime[i]
  BY <1>1
<1>3. PICK l \in Nat : /\ DOMAIN toApp = 1 .. l /\ DOMAIN toApp' = 1 .. l + 1
                      /\ toApp'[l + 1] = e /\ \A i \in 1 .. l : toApp'[i] = toApp[i]
  BY DEF Gains
<1>4. /\ l + 1 \in DOMAIN toApp' /\ toApp'[l + 1] = e
      /\ \A i \in DOMAIN toApp : i \in DOMAIN toApp' /\ toApp'[i] = toApp[i] /\ i < l + 1
      /\ \A i \in DOMAIN toApp' : i = l + 1 \/ (i \in DOMAIN toApp /\ toApp'[i] = toApp[i])
      /\ DOMAIN toApp' \subseteq Nat
  BY <1>3
<1>5. ShapedCalls' /\ ShapedTasks' /\ ShapedEvents'
  BY <1>2, <1>4 DEF Control, Fences, ShapedCalls, ShapedTasks, ShapedEvents, TurnKinds, OpKinds, Told, Refusal, Outcome
<1>6. OneTurn'
  BY <1>2, <1>4 DEF Control, Fences, OneTurn, TurnCall, TurnTask, Ends, Told, Refusal, TurnKinds, OpKinds, Before, InTurn
<1>7. Fenced'
  BY <1>2, <1>4 DEF Control, Fences, Fenced, TurnCall, TurnTask, Ends, Told, Refusal, Announcing, Active, TurnKinds, OpKinds, Before, InTurn
<1>8. OneGoal'
  BY <1>2, <1>4 DEF Control, Fences, OneGoal, TurnKinds, OpKinds, Outcome, Told
<1>9. Backed'
  BY <1>2, <1>4 DEF Control, Fences, Backed, TurnCall, TurnTask, Told, Refusal, TurnKinds, OpKinds, Before, InTurn
<1>10. Flags'
  BY <1>2, <1>4 DEF Control, Fences, Flags, TurnTask, TurnKinds, OpKinds
<1>11. OneRestore'
  BY <1>2, <1>4 DEF Control, Fences, OneRestore, Asked, Returned, TurnKinds, OpKinds
<1>12. OneOp'
  BY <1>2, <1>4 DEF Control, Fences, OneOp, OpCall, OpTask, Answer, Cancelled, CancelledAfter, Cancels, OpKinds, TurnKinds, Taking, Touching
<1>13. Alone'
  BY <1>2, <1>4 DEF Control, Fences, Alone, OpCall, OpTask, OpKinds, TurnKinds, Touching
<1>14. Flight' = Flight
  BY <1>2, <1>4 DEF Control, Sorted, Fences, ShapedCalls, ShapedTasks, Flight, Pieces, Texts, Refusal, TurnKinds, OpKinds, Before, InTurn
<1>15. Closed' = Closed
  BY <1>2, <1>4 DEF Control, Sorted, Fences, ShapedCalls, ShapedTasks, Closed, Pieces, Texts, Told, Outcome, Refusal, TurnKinds, OpKinds, Before, InTurn
<1>16. LedgerApart'
  BY <1>2, <1>4 DEF Control, Sorted, Fences, ShapedCalls, ShapedTasks, LedgerApart, Told, Outcome, Returned, TurnKinds, OpKinds, Before, InTurn
<1>. QED
  BY <1>14, <1>15, <1>16, <1>5, <1>6, <1>7, <1>8, <1>9, <1>10, <1>11, <1>12, <1>13 DEF Control

\* The runtime is asked to stop the turn.
LEMMA ControlInterrupted ==
  ASSUME TurnsTypeOK, Control, Drops(toRuntime, toRuntime'), NEW c, c = toRuntime[1],
         c.do = "interrupt", UNCHANGED <<toApp, tasks, executing, restoring>>, UNCHANGED Fences,
         Sorted, UNCHANGED <<ledger, target>>
  PROVE  Control' /\ LedgerApart' /\ Flight' = Flight /\ Closed' = Closed
<1>1. PICK n \in Nat : /\ DOMAIN toRuntime = 1 .. n + 1 /\ DOMAIN toRuntime' = 1 .. n
                      /\ \A i \in 1 .. n : toRuntime'[i] = toRuntime[i + 1]
  BY DEF Drops
<1>2. /\ 1 \in DOMAIN toRuntime /\ DOMAIN toRuntime \subseteq Nat \ {0} /\ DOMAIN toRuntime' \subseteq Nat \ {0}
      /\ \A i \in DOMAIN toRuntime' : i + 1 \in DOMAIN toRuntime /\ toRuntime'[i] = toRuntime[i + 1]
      /\ \A i \in DOMAIN toRuntime : i # 1 => i - 1 \in DOMAIN toRuntime' /\ toRuntime'[i - 1] = toRuntime[i]
  BY <1>1
<1>3. ShapedCalls' /\ ShapedTasks' /\ ShapedEvents'
  BY <1>2 DEF Control, Fences, ShapedCalls, ShapedTasks, ShapedEvents, TurnKinds, OpKinds, Told, Refusal, Outcome
<1>4. OneTurn'
  BY <1>2 DEF Control, Fences, OneTurn, TurnCall, TurnTask, Ends, Told, Refusal, TurnKinds, OpKinds, Before, InTurn
<1>5. Fenced'
  BY <1>2 DEF Control, Fences, Fenced, TurnCall, TurnTask, Ends, Told, Refusal, Announcing, Active, TurnKinds, OpKinds, Before, InTurn
<1>6. OneGoal'
  BY <1>2 DEF Control, Fences, OneGoal, TurnKinds, OpKinds, Outcome, Told
<1>7. Backed'
  BY <1>2 DEF Control, Fences, Backed, TurnCall, TurnTask, Told, Refusal, TurnKinds, OpKinds, Before, InTurn
<1>8. Flags'
  BY <1>2 DEF Control, Fences, Flags, TurnTask, TurnKinds, OpKinds
<1>9. OneRestore'
  BY <1>2 DEF Control, Fences, OneRestore, Asked, Returned, TurnKinds, OpKinds
<1>10. OneOp'
  BY <1>2 DEF Control, Fences, OneOp, OpCall, OpTask, Answer, Cancelled, CancelledAfter, Cancels, OpKinds, TurnKinds, Taking, Touching
<1>11. Alone'
  BY <1>2 DEF Control, Fences, Alone, OpCall, OpTask, OpKinds, TurnKinds, Touching
<1>12. Flight' = Flight
  BY <1>2 DEF Control, Sorted, Fences, ShapedCalls, ShapedTasks, Flight, Pieces, Texts, Refusal, TurnKinds, OpKinds, Before, InTurn
<1>13. Closed' = Closed
  BY <1>2 DEF Control, Sorted, Fences, ShapedCalls, ShapedTasks, Closed, Pieces, Texts, Told, Outcome, Refusal, TurnKinds, OpKinds, Before, InTurn
<1>14. LedgerApart'
  BY <1>2 DEF Control, Sorted, Fences, ShapedCalls, ShapedTasks, LedgerApart, Told, Outcome, Returned, TurnKinds, OpKinds, Before, InTurn
<1>. QED
  BY <1>12, <1>13, <1>14, <1>3, <1>4, <1>5, <1>6, <1>7, <1>8, <1>9, <1>10, <1>11 DEF Control

\* A cancelled call is stopped.
LEMMA ControlCancelArrives ==
  ASSUME TurnsTypeOK, Control, Drops(toRuntime, toRuntime'), NEW c, c = toRuntime[1],
         c.do = "cancel", tasks' = {j \in tasks : j.kind # c.op},
         UNCHANGED <<toApp, executing, restoring>>, UNCHANGED Fences,
         Sorted, UNCHANGED <<ledger, target>>
  PROVE  Control' /\ LedgerApart' /\ Flight' = Flight /\ Closed' = Closed
<1>1. PICK n \in Nat : /\ DOMAIN toRuntime = 1 .. n + 1 /\ DOMAIN toRuntime' = 1 .. n
                      /\ \A i \in 1 .. n : toRuntime'[i] = toRuntime[i + 1]
  BY DEF Drops
<1>2. /\ 1 \in DOMAIN toRuntime /\ DOMAIN toRuntime \subseteq Nat \ {0} /\ DOMAIN toRuntime' \subseteq Nat \ {0}
      /\ \A i \in DOMAIN toRuntime' : i + 1 \in DOMAIN toRuntime /\ toRuntime'[i] = toRuntime[i + 1]
      /\ \A i \in DOMAIN toRuntime : i # 1 => i - 1 \in DOMAIN toRuntime' /\ toRuntime'[i - 1] = toRuntime[i]
  BY <1>1
<1>3. c.op \in OpKinds
  BY <1>2 DEF Control, ShapedCalls
<1>4. \A k \in tasks : k.kind \in TurnKinds => k \in tasks'
  BY <1>3 DEF OpKinds, TurnKinds
<1>5. \A k \in tasks : k.kind = "restore" => k \in tasks'
  BY <1>3 DEF OpKinds
<1>6. ShapedCalls' /\ ShapedTasks' /\ ShapedEvents'
  BY <1>2, <1>3 DEF Control, Fences, ShapedCalls, ShapedTasks, ShapedEvents, TurnKinds, OpKinds, Told, Refusal, Outcome
<1>7. OneTurn'
  BY <1>2, <1>3, <1>4 DEF Control, Fences, OneTurn, TurnCall, TurnTask, Ends, Told, Refusal, TurnKinds, OpKinds, Before, InTurn
<1>8. Fenced'
  BY <1>2, <1>3, <1>4 DEF Control, Fences, Fenced, TurnCall, TurnTask, Ends, Told, Refusal, Announcing, Active, TurnKinds, OpKinds, Before, InTurn
<1>9. OneGoal'
  BY <1>2, <1>3 DEF Control, Fences, OneGoal, TurnKinds, OpKinds, Outcome, Told
<1>10. Backed'
  BY <1>2, <1>3, <1>4 DEF Control, Fences, Backed, TurnCall, TurnTask, Told, Refusal, TurnKinds, OpKinds, Before, InTurn
<1>11. Flags'
  BY <1>2, <1>3, <1>4, <1>5 DEF Control, Fences, Flags, TurnTask, TurnKinds, OpKinds
<1>12. OneRestore'
  BY <1>2, <1>3 DEF Control, Fences, OneRestore, Asked, Returned, TurnKinds, OpKinds
<1>13. OneOp'
  BY <1>2, <1>3 DEF Control, Fences, OneOp, OpCall, OpTask, Answer, Cancelled, CancelledAfter, Cancels, OpKinds, TurnKinds, Taking, Touching
<1>14. Alone'
  BY <1>2, <1>3 DEF Control, Fences, Alone, OpCall, OpTask, OpKinds, TurnKinds, Touching
<1>15. Flight' = Flight
  BY <1>2, <1>3 DEF Control, Sorted, Fences, ShapedCalls, ShapedTasks, Flight, Pieces, Texts, Refusal, TurnKinds, OpKinds, Before, InTurn
<1>16. Closed' = Closed
  BY <1>2, <1>3 DEF Control, Sorted, Fences, ShapedCalls, ShapedTasks, Closed, Pieces, Texts, Told, Outcome, Refusal, TurnKinds, OpKinds, Before, InTurn
<1>17. LedgerApart'
  BY <1>2, <1>3 DEF Control, Sorted, Fences, ShapedCalls, ShapedTasks, LedgerApart, Told, Outcome, Returned, TurnKinds, OpKinds, Before, InTurn
<1>. QED
  BY <1>15, <1>16, <1>17, <1>6, <1>7, <1>8, <1>9, <1>10, <1>11, <1>12, <1>13, <1>14 DEF Control

\* A turn is on its way to its admission, or admitted.
LEMMA ControlTurnMoves ==
  ASSUME TurnsTypeOK, Control, NEW k \in tasks, NEW k1, k1.kind = k.kind, k1.text = k.text, tasks' = (tasks \ {k}) \cup {k1},
         k.kind \in TurnKinds, k.phase \in Before \ {"begin"}, k1.phase \in Before \ {"configure"},
         \/ executing' = executing /\ k1.phase # "begin"
         \/ ~executing /\ ~restoring /\ executing' = TRUE /\ k1.phase = "begin",
         UNCHANGED <<toApp, restoring>>, UNCHANGED Fences, UNCHANGED toRuntime,
         Sorted, UNCHANGED <<ledger, target>>
  PROVE  Control' /\ LedgerApart' /\ Flight' = Flight /\ Closed' = Closed
<1>1. \A j \in tasks : TurnTask(j) => j = k
  BY DEF Control, OneTurn, TurnTask
<1>2. ShapedCalls' /\ ShapedTasks' /\ ShapedEvents'
  BY DEF Control, Fences, Before, ShapedCalls, ShapedTasks, ShapedEvents, TurnKinds, OpKinds, Told, Refusal, Outcome
<1>3. OneTurn'
  BY DEF Control, Fences, Before, OneTurn, TurnCall, TurnTask, Ends, Told, Refusal, TurnKinds, OpKinds, Before, InTurn
<1>4. Fenced'
  BY DEF Control, Fences, Before, Fenced, TurnCall, TurnTask, Ends, Told, Refusal, Announcing, Active, TurnKinds, OpKinds, Before, InTurn
<1>5. OneGoal'
  BY DEF Control, Fences, Before, OneGoal, TurnKinds, OpKinds, Outcome, Told
<1>6. Backed'
  BY DEF Control, Fences, Before, Backed, TurnCall, TurnTask, Told, Refusal, TurnKinds, OpKinds, Before, InTurn
<1>7. Flags'
  BY <1>1 DEF Control, Fences, Flags, TurnTask, TurnsTypeOK, Before
<1>8. OneRestore'
  BY DEF Control, Fences, Before, OneRestore, Asked, Returned, TurnKinds, OpKinds
<1>9. OneOp'
  BY DEF Control, Fences, Before, OneOp, OpCall, OpTask, Answer, Cancelled, CancelledAfter, Cancels, OpKinds, TurnKinds, Taking, Touching
<1>10. Alone'
  BY DEF Control, Fences, Before, Alone, OpCall, OpTask, OpKinds, TurnKinds, Touching
<1>11. Flight' = Flight
  BY <1>1 DEF Control, Sorted, Fences, ShapedTasks, Flight, Pieces, Texts, Refusal, TurnKinds, OpKinds, Before, InTurn
<1>12. Closed' = Closed
  BY <1>1 DEF Control, Sorted, Fences, ShapedTasks, Closed, Pieces, Texts, Told, Outcome, Refusal, TurnKinds, OpKinds, Before, InTurn
<1>13. LedgerApart'
  BY <1>1 DEF Control, Sorted, Fences, ShapedTasks, LedgerApart, Told, Outcome, Returned, TurnKinds, OpKinds, Before, InTurn
<1>. QED
  BY <1>11, <1>12, <1>13, <1>2, <1>3, <1>4, <1>5, <1>6, <1>7, <1>8, <1>9, <1>10 DEF Control

\* A turn is refused before it was announced.
LEMMA ControlTurnGivenUp ==
  ASSUME TurnsTypeOK, Control, NEW k \in tasks, k.kind \in TurnKinds, k.phase \in Before, tasks' = tasks \ {k},
         NEW e, Gains(toApp, toApp', e), e.do = k.kind, e.text = k.text, ~e.ok, ~e.begun,
         \/ executing' = executing /\ k.phase # "begin"
         \/ executing' = FALSE /\ k.phase = "begin",
         UNCHANGED restoring, UNCHANGED Fences, UNCHANGED toRuntime,
         Sorted, UNCHANGED <<ledger, target>>
  PROVE  Control' /\ LedgerApart' /\ Flight' = Flight /\ Closed' = Closed
<1>1. \A j \in tasks : TurnTask(j) => j = k
  BY DEF Control, OneTurn, TurnTask
<1>2. PICK l \in Nat : /\ DOMAIN toApp = 1 .. l /\ DOMAIN toApp' = 1 .. l + 1
                      /\ toApp'[l + 1] = e /\ \A i \in 1 .. l : toApp'[i] = toApp[i]
  BY DEF Gains
<1>3. /\ l + 1 \in DOMAIN toApp' /\ toApp'[l + 1] = e
      /\ \A i \in DOMAIN toApp : i \in DOMAIN toApp' /\ toApp'[i] = toApp[i] /\ i < l + 1
      /\ \A i \in DOMAIN toApp' : i = l + 1 \/ (i \in DOMAIN toApp /\ toApp'[i] = toApp[i])
      /\ DOMAIN toApp' \subseteq Nat
  BY <1>2
<1>4. ShapedCalls' /\ ShapedTasks' /\ ShapedEvents'
  BY <1>3 DEF Control, Fences, ShapedCalls, ShapedTasks, ShapedEvents, TurnKinds, OpKinds, Told, Refusal, Outcome
<1>5. OneTurn'
  BY <1>3 DEF Control, Fences, OneTurn, TurnCall, TurnTask, Ends, Told, Refusal, TurnKinds, OpKinds, Before, InTurn
<1>6. Fenced'
  BY <1>3 DEF Control, Fences, Fenced, TurnCall, TurnTask, Ends, Told, Refusal, Announcing, Active, TurnKinds, OpKinds, Before, InTurn
<1>7. OneGoal'
  BY <1>3 DEF Control, Fences, OneGoal, TurnKinds, OpKinds, Outcome, Told
<1>8. Backed'
  BY <1>3 DEF Control, Fences, Backed, TurnCall, TurnTask, Told, Refusal, TurnKinds, OpKinds, Before, InTurn
<1>9. Flags'
  BY <1>1 DEF Control, Fences, Flags, TurnTask, TurnsTypeOK, Before
<1>10. OneRestore'
  BY <1>3 DEF Control, Fences, OneRestore, Asked, Returned, TurnKinds, OpKinds
<1>11. OneOp'
  BY <1>3 DEF Control, Fences, OneOp, OpCall, OpTask, Answer, Cancelled, CancelledAfter, Cancels, OpKinds, TurnKinds, Taking, Touching
<1>12. Alone'
  BY <1>3 DEF Control, Fences, Alone, OpCall, OpTask, OpKinds, TurnKinds, Touching
<1>13. Flight' = Flight
  BY <1>3, <1>1 DEF Control, Sorted, Fences, ShapedTasks, Flight, Pieces, Texts, Refusal, TurnKinds, OpKinds, Before, InTurn
<1>14. Closed' = Closed
  BY <1>3, <1>1 DEF Control, Sorted, Fences, ShapedTasks, Closed, Pieces, Texts, Told, Outcome, Refusal, TurnKinds, OpKinds, Before, InTurn
<1>15. LedgerApart'
  BY <1>3, <1>1 DEF Control, Sorted, Fences, ShapedTasks, LedgerApart, Told, Outcome, Returned, TurnKinds, OpKinds, Before, InTurn
<1>. QED
  BY <1>13, <1>14, <1>15, <1>4, <1>5, <1>6, <1>7, <1>8, <1>9, <1>10, <1>11, <1>12 DEF Control

\* A turn is announced.
LEMMA ControlTurnBegins ==
  ASSUME TurnsTypeOK, Control, NEW k \in tasks, NEW k1, k1.kind = k.kind, k1.text = k.text, tasks' = (tasks \ {k}) \cup {k1},
         k.kind \in TurnKinds, k.phase = "begin", k1.phase = "run",
         NEW e, Gains(toApp, toApp', e), e.do = "submitted", e.text = k.text,
         UNCHANGED <<executing, restoring>>, UNCHANGED Fences, UNCHANGED toRuntime,
         Sorted, UNCHANGED <<ledger, target>>
  PROVE  Control' /\ LedgerApart' /\ Flight' = Flight \ k.text /\ Closed' = Closed \cup k.text
<1>1. \A j \in tasks : TurnTask(j) => j = k
  BY DEF Control, OneTurn, TurnTask
<1>2. PICK l \in Nat : /\ DOMAIN toApp = 1 .. l /\ DOMAIN toApp' = 1 .. l + 1
                      /\ toApp'[l + 1] = e /\ \A i \in 1 .. l : toApp'[i] = toApp[i]
  BY DEF Gains
<1>3. /\ l + 1 \in DOMAIN toApp' /\ toApp'[l + 1] = e
      /\ \A i \in DOMAIN toApp : i \in DOMAIN toApp' /\ toApp'[i] = toApp[i] /\ i < l + 1
      /\ \A i \in DOMAIN toApp' : i = l + 1 \/ (i \in DOMAIN toApp /\ toApp'[i] = toApp[i])
      /\ DOMAIN toApp' \subseteq Nat
  BY <1>2
<1>4. ShapedCalls' /\ ShapedTasks' /\ ShapedEvents'
  BY <1>3, <1>1 DEF Control, Fences, ShapedCalls, ShapedTasks, ShapedEvents, TurnKinds, OpKinds, Told, Refusal, Outcome
<1>5. OneTurn'
  BY <1>3, <1>1 DEF Control, Fences, OneTurn, TurnCall, TurnTask, Ends, Told, Refusal, TurnKinds, OpKinds, Before, InTurn
<1>6. Fenced'
  BY <1>3, <1>1 DEF Control, Fences, Fenced, TurnCall, TurnTask, Ends, Told, Refusal, Announcing, Active, TurnKinds, OpKinds, Before, InTurn
<1>7. OneGoal'
  BY <1>3, <1>1 DEF Control, Fences, OneGoal, TurnKinds, OpKinds, Outcome, Told
<1>8. Backed'
  BY <1>3, <1>1 DEF Control, Fences, Backed, TurnCall, TurnTask, Told, Refusal, TurnKinds, OpKinds, Before, InTurn
<1>9. Flags'
  BY <1>3, <1>1 DEF Control, Fences, Flags, TurnTask, TurnKinds, OpKinds
<1>10. OneRestore'
  BY <1>3, <1>1 DEF Control, Fences, OneRestore, Asked, Returned, TurnKinds, OpKinds
<1>11. OneOp'
  BY <1>3, <1>1 DEF Control, Fences, OneOp, OpCall, OpTask, Answer, Cancelled, CancelledAfter, Cancels, OpKinds, TurnKinds, Taking, Touching
<1>12. Alone'
  BY <1>3, <1>1 DEF Control, Fences, Alone, OpCall, OpTask, OpKinds, TurnKinds, Touching
<1>13. k.text \in SUBSET Pieces /\ k.text \subseteq Flight
  BY DEF TurnsTypeOK, Tasks, Texts, Pieces, Flight, Before
<1>14. /\ k.text \cap Closed = {}
       /\ \A i \in DOMAIN ledger : k.text \cap ledger[i] = {}
       /\ \A i \in DOMAIN toApp : Outcome(i) => k.text \cap toApp[i].text = {}
  BY <1>13 DEF Sorted, Spread, Closed
<1>15. /\ \A i \in DOMAIN toRuntime : toRuntime[i].text = {}
       /\ \A j \in tasks : j # k => j.text = {}
       /\ \A i \in DOMAIN toApp : ~Refusal(i) /\ ~Told(i)
  <2>1. TurnTask(k) /\ k.phase \notin InTurn
    BY DEF TurnTask, InTurn
  <2>2. /\ \A i \in DOMAIN toRuntime : ~TurnCall(i)
        /\ \A i \in DOMAIN toApp : ~Ends(i)
    BY <2>1 DEF Control, OneTurn
  <2>3. \A i \in DOMAIN toApp : ~Told(i)
    BY <1>1, <2>1, <2>2 DEF Control, OneTurn, Ends
  <2>4. \A j \in tasks : j # k => j.kind \in OpKinds \cup {"restore"}
    BY <1>1 DEF TurnsTypeOK, Tasks, TurnTask
  <2>. QED
    BY <2>2, <2>3, <2>4 DEF Control, ShapedCalls, ShapedTasks, TurnCall, Ends
<1>16. restore = "called" => target \in DOMAIN ledger
  BY DEF Sorted, Aimed, Restoring
<1>17. Flight' = Flight \ k.text
  BY <1>3, <1>1, <1>13, <1>15 DEF Control, Sorted, Fences, ShapedTasks, Flight, Pieces, Texts, Refusal, TurnKinds, OpKinds, Before, InTurn
<1>18. Closed' = Closed \cup k.text
  BY <1>3, <1>1, <1>13 DEF Control, Sorted, Fences, ShapedTasks, Closed, Pieces, Texts, Told, Outcome, Refusal, TurnKinds, OpKinds, Before, InTurn
<1>19. LedgerApart'
  BY <1>3, <1>1, <1>14, <1>15, <1>16 DEF Control, Sorted, Fences, ShapedTasks, LedgerApart, Told, Outcome, Returned, TurnKinds, OpKinds, Before, InTurn
<1>. QED
  BY <1>17, <1>18, <1>19, <1>4, <1>5, <1>6, <1>7, <1>8, <1>9, <1>10, <1>11, <1>12 DEF Control

\* A turn is over, and has to be saved.
LEMMA ControlTurnEnds ==
  ASSUME TurnsTypeOK, Control, NEW k \in tasks, NEW k1, k1.kind = k.kind, k1.text = k.text, tasks' = (tasks \ {k}) \cup {k1},
         k.kind \in TurnKinds, k.phase = "run", k1.phase = "finish", executing' = FALSE,
         UNCHANGED <<toApp, restoring>>, UNCHANGED Fences, UNCHANGED toRuntime,
         Sorted, UNCHANGED <<ledger, target>>
  PROVE  Control' /\ LedgerApart' /\ Flight' = Flight /\ Closed' = Closed
<1>1. \A j \in tasks : TurnTask(j) => j = k
  BY DEF Control, OneTurn, TurnTask
<1>2. ShapedCalls' /\ ShapedTasks' /\ ShapedEvents'
  BY <1>1 DEF Control, Fences, ShapedCalls, ShapedTasks, ShapedEvents, TurnKinds, OpKinds, Told, Refusal, Outcome
<1>3. OneTurn'
  BY <1>1 DEF Control, Fences, OneTurn, TurnCall, TurnTask, Ends, Told, Refusal, TurnKinds, OpKinds, Before, InTurn
<1>4. Fenced'
  BY <1>1 DEF Control, Fences, Fenced, TurnCall, TurnTask, Ends, Told, Refusal, Announcing, Active, TurnKinds, OpKinds, Before, InTurn
<1>5. OneGoal'
  BY <1>1 DEF Control, Fences, OneGoal, TurnKinds, OpKinds, Outcome, Told
<1>6. Backed'
  BY <1>1 DEF Control, Fences, Backed, TurnCall, TurnTask, Told, Refusal, TurnKinds, OpKinds, Before, InTurn
<1>7. Flags'
  BY <1>1 DEF Control, Fences, Flags, TurnTask, TurnKinds, OpKinds
<1>8. OneRestore'
  BY <1>1 DEF Control, Fences, OneRestore, Asked, Returned, TurnKinds, OpKinds
<1>9. OneOp'
  BY <1>1 DEF Control, Fences, OneOp, OpCall, OpTask, Answer, Cancelled, CancelledAfter, Cancels, OpKinds, TurnKinds, Taking, Touching
<1>10. Alone'
  BY <1>1 DEF Control, Fences, Alone, OpCall, OpTask, OpKinds, TurnKinds, Touching
<1>11. Flight' = Flight
  BY <1>1 DEF Control, Sorted, Fences, ShapedTasks, Flight, Pieces, Texts, Refusal, TurnKinds, OpKinds, Before, InTurn
<1>12. Closed' = Closed
  BY <1>1 DEF Control, Sorted, Fences, ShapedTasks, Closed, Pieces, Texts, Told, Outcome, Refusal, TurnKinds, OpKinds, Before, InTurn
<1>13. LedgerApart'
  BY <1>1 DEF Control, Sorted, Fences, ShapedTasks, LedgerApart, Told, Outcome, Returned, TurnKinds, OpKinds, Before, InTurn
<1>. QED
  BY <1>11, <1>12, <1>13, <1>2, <1>3, <1>4, <1>5, <1>6, <1>7, <1>8, <1>9, <1>10 DEF Control

\* A turn is saved, and reported as complete.
LEMMA ControlTurnCloses ==
  ASSUME TurnsTypeOK, Control, NEW k \in tasks, k.kind \in TurnKinds, k.phase = "finish", tasks' = tasks \ {k},
         NEW d, NEW e, NEW mid, Gains(toApp, mid, d), Gains(mid, toApp', e),
         d.do = "complete", e.do = k.kind, e.text = k.text, e.begun,
         UNCHANGED <<executing, restoring>>, UNCHANGED Fences, UNCHANGED toRuntime,
         Sorted, UNCHANGED <<ledger, target>>
  PROVE  Control' /\ LedgerApart' /\ Flight' = Flight /\ Closed' = Closed
<1>1. \A j \in tasks : TurnTask(j) => j = k
  BY DEF Control, OneTurn, TurnTask
<1>2. PICK l \in Nat : /\ DOMAIN toApp = 1 .. l /\ DOMAIN mid = 1 .. l + 1
                      /\ mid[l + 1] = d /\ \A i \in 1 .. l : mid[i] = toApp[i]
  BY DEF Gains
<1>3. PICK h \in Nat : /\ DOMAIN mid = 1 .. h /\ DOMAIN toApp' = 1 .. h + 1
                      /\ toApp'[h + 1] = e /\ \A i \in 1 .. h : toApp'[i] = mid[i]
  BY DEF Gains
<1>4. h = l + 1
  BY <1>2, <1>3
<1>5. /\ l + 1 \in DOMAIN toApp' /\ toApp'[l + 1] = d /\ l + 2 \in DOMAIN toApp' /\ toApp'[l + 2] = e
      /\ \A i \in DOMAIN toApp : i \in DOMAIN toApp' /\ toApp'[i] = toApp[i] /\ i < l + 1 /\ i < l + 2
      /\ \A i \in DOMAIN toApp' : i = l + 1 \/ i = l + 2 \/ (i \in DOMAIN toApp /\ toApp'[i] = toApp[i])
      /\ l + 1 < l + 2 /\ DOMAIN toApp' \subseteq Nat
  BY <1>2, <1>3, <1>4
<1>6. goalPending => \E i \in DOMAIN toApp : Told(i)
  BY DEF Control, Fenced, TurnTask, InTurn, Active
<1>7. ShapedCalls' /\ ShapedTasks' /\ ShapedEvents'
  BY <1>5, <1>1 DEF Control, Fences, ShapedCalls, ShapedTasks, ShapedEvents, TurnKinds, OpKinds, Told, Refusal, Outcome
<1>8. OneTurn'
  BY <1>5, <1>1 DEF Control, Fences, OneTurn, TurnCall, TurnTask, Ends, Told, Refusal, TurnKinds, OpKinds, Before, InTurn
<1>9. Fenced'
  BY <1>5, <1>1 DEF Control, Fences, Fenced, TurnCall, TurnTask, Ends, Told, Refusal, Announcing, Active, TurnKinds, OpKinds, Before, InTurn
<1>10. OneGoal'
  <2>1. goals' = 0 => /\ ~goalPending'
                      /\ \A i \in DOMAIN toRuntime' : toRuntime'[i].do # "goal"
                      /\ \A j \in tasks' : j.kind # "goal"
                      /\ \A i \in DOMAIN toApp' : toApp'[i].do # "goal"
    BY <1>5 DEF Control, Fences, OneGoal
  <2>2. \A i \in DOMAIN toApp' : Outcome(i)' /\ toApp'[i].do = "goal" /\ goalPending' =>
          \E j \in DOMAIN toApp' : j < i /\ Told(j)'
    BY <1>5, <1>6 DEF Control, Fences, OneGoal, Outcome, Told
  <2>. QED
    BY <2>1, <2>2 DEF OneGoal
<1>11. Backed'
  BY <1>5, <1>1 DEF Control, Fences, Backed, TurnCall, TurnTask, Told, Refusal, TurnKinds, OpKinds, Before, InTurn
<1>12. Flags'
  BY <1>5, <1>1 DEF Control, Fences, Flags, TurnTask, TurnKinds, OpKinds
<1>13. OneRestore'
  BY <1>5, <1>1 DEF Control, Fences, OneRestore, Asked, Returned, TurnKinds, OpKinds
<1>14. OneOp'
  BY <1>5, <1>1 DEF Control, Fences, OneOp, OpCall, OpTask, Answer, Cancelled, CancelledAfter, Cancels, OpKinds, TurnKinds, Taking, Touching
<1>15. Alone'
  BY <1>5, <1>1 DEF Control, Fences, Alone, OpCall, OpTask, OpKinds, TurnKinds, Touching
<1>16. Flight' = Flight
  BY <1>5, <1>1 DEF Control, Sorted, Fences, ShapedTasks, Flight, Pieces, Texts, Refusal, TurnKinds, OpKinds, Before, InTurn
<1>17. Closed' = Closed
  BY <1>5, <1>1 DEF Control, Sorted, Fences, ShapedTasks, Closed, Pieces, Texts, Told, Outcome, Refusal, TurnKinds, OpKinds, Before, InTurn
<1>18. LedgerApart'
  BY <1>5, <1>1 DEF Control, Sorted, Fences, ShapedTasks, LedgerApart, Told, Outcome, Returned, TurnKinds, OpKinds, Before, InTurn
<1>. QED
  BY <1>16, <1>17, <1>18, <1>7, <1>8, <1>9, <1>10, <1>11, <1>12, <1>13, <1>14, <1>15 DEF Control

\* A clear, a compaction or a snapshot answers.
LEMMA ControlOpEnds ==
  ASSUME TurnsTypeOK, Control, NEW k \in tasks, k.kind \in OpKinds, tasks' = tasks \ {k}, ~Cancelled(k.kind),
         NEW e, Gains(toApp, toApp', e), e.do = k.kind,
         UNCHANGED <<executing, restoring>>, UNCHANGED Fences, UNCHANGED toRuntime,
         Sorted, UNCHANGED <<ledger, target>>
  PROVE  Control' /\ LedgerApart' /\ Flight' = Flight /\ Closed' = Closed
<1>1. PICK l \in Nat : /\ DOMAIN toApp = 1 .. l /\ DOMAIN toApp' = 1 .. l + 1
                      /\ toApp'[l + 1] = e /\ \A i \in 1 .. l : toApp'[i] = toApp[i]
  BY DEF Gains
<1>2. /\ l + 1 \in DOMAIN toApp' /\ toApp'[l + 1] = e
      /\ \A i \in DOMAIN toApp : i \in DOMAIN toApp' /\ toApp'[i] = toApp[i] /\ i < l + 1
      /\ \A i \in DOMAIN toApp' : i = l + 1 \/ (i \in DOMAIN toApp /\ toApp'[i] = toApp[i])
      /\ DOMAIN toApp' \subseteq Nat
  BY <1>1
<1>3. ShapedCalls' /\ ShapedTasks' /\ ShapedEvents'
  BY <1>2 DEF Control, Fences, ShapedCalls, ShapedTasks, ShapedEvents, TurnKinds, OpKinds, Told, Refusal, Outcome
<1>4. OneTurn'
  BY <1>2 DEF Control, Fences, OneTurn, TurnCall, TurnTask, Ends, Told, Refusal, TurnKinds, OpKinds, Before, InTurn
<1>5. Fenced'
  BY <1>2 DEF Control, Fences, Fenced, TurnCall, TurnTask, Ends, Told, Refusal, Announcing, Active, TurnKinds, OpKinds, Before, InTurn
<1>6. OneGoal'
  BY <1>2 DEF Control, Fences, OneGoal, TurnKinds, OpKinds, Outcome, Told
<1>7. Backed'
  BY <1>2 DEF Control, Fences, Backed, TurnCall, TurnTask, Told, Refusal, TurnKinds, OpKinds, Before, InTurn
<1>8. Flags'
  BY <1>2 DEF Control, Fences, Flags, TurnTask, TurnKinds, OpKinds
<1>9. OneRestore'
  BY <1>2 DEF Control, Fences, OneRestore, Asked, Returned, TurnKinds, OpKinds
<1>10. OneOp'
  BY <1>2 DEF Control, Fences, OneOp, OpCall, OpTask, Answer, Cancelled, CancelledAfter, Cancels, OpKinds, TurnKinds, Taking, Touching
<1>11. Alone'
  BY <1>2 DEF Control, Fences, Alone, OpCall, OpTask, OpKinds, TurnKinds, Touching
<1>12. Flight' = Flight
  BY <1>2 DEF Control, Sorted, Fences, ShapedTasks, Flight, Pieces, Texts, Refusal, TurnKinds, OpKinds, Before, InTurn
<1>13. Closed' = Closed
  BY <1>2 DEF Control, Sorted, Fences, ShapedTasks, Closed, Pieces, Texts, Told, Outcome, Refusal, TurnKinds, OpKinds, Before, InTurn
<1>14. LedgerApart'
  BY <1>2 DEF Control, Sorted, Fences, ShapedTasks, LedgerApart, Told, Outcome, Returned, TurnKinds, OpKinds, Before, InTurn
<1>. QED
  BY <1>12, <1>13, <1>14, <1>3, <1>4, <1>5, <1>6, <1>7, <1>8, <1>9, <1>10, <1>11 DEF Control

\* One that was cancelled ends.
LEMMA ControlOpUnheard ==
  ASSUME TurnsTypeOK, Control, NEW k \in tasks, k.kind \in OpKinds, tasks' = tasks \ {k}, UNCHANGED <<toApp, executing, restoring>>, UNCHANGED Fences, UNCHANGED toRuntime,
         Sorted, UNCHANGED <<ledger, target>>
  PROVE  Control' /\ LedgerApart' /\ Flight' = Flight /\ Closed' = Closed
<1>1. ShapedCalls' /\ ShapedTasks' /\ ShapedEvents'
  BY DEF Control, Fences, ShapedCalls, ShapedTasks, ShapedEvents, TurnKinds, OpKinds, Told, Refusal, Outcome
<1>2. OneTurn'
  BY DEF Control, Fences, OneTurn, TurnCall, TurnTask, Ends, Told, Refusal, TurnKinds, OpKinds, Before, InTurn
<1>3. Fenced'
  BY DEF Control, Fences, Fenced, TurnCall, TurnTask, Ends, Told, Refusal, Announcing, Active, TurnKinds, OpKinds, Before, InTurn
<1>4. OneGoal'
  BY DEF Control, Fences, OneGoal, TurnKinds, OpKinds, Outcome, Told
<1>5. Backed'
  BY DEF Control, Fences, Backed, TurnCall, TurnTask, Told, Refusal, TurnKinds, OpKinds, Before, InTurn
<1>6. Flags'
  BY DEF Control, Fences, Flags, TurnTask, TurnKinds, OpKinds
<1>7. OneRestore'
  BY DEF Control, Fences, OneRestore, Asked, Returned, TurnKinds, OpKinds
<1>8. OneOp'
  BY DEF Control, Fences, OneOp, OpCall, OpTask, Answer, Cancelled, CancelledAfter, Cancels, OpKinds, TurnKinds, Taking, Touching
<1>9. Alone'
  BY DEF Control, Fences, Alone, OpCall, OpTask, OpKinds, TurnKinds, Touching
<1>10. Flight' = Flight
  BY DEF Control, Sorted, Fences, ShapedTasks, Flight, Pieces, Texts, Refusal, TurnKinds, OpKinds, Before, InTurn
<1>11. Closed' = Closed
  BY DEF Control, Sorted, Fences, ShapedTasks, Closed, Pieces, Texts, Told, Outcome, Refusal, TurnKinds, OpKinds, Before, InTurn
<1>12. LedgerApart'
  BY DEF Control, Sorted, Fences, ShapedTasks, LedgerApart, Told, Outcome, Returned, TurnKinds, OpKinds, Before, InTurn
<1>. QED
  BY <1>10, <1>11, <1>12, <1>1, <1>2, <1>3, <1>4, <1>5, <1>6, <1>7, <1>8, <1>9 DEF Control

\* A restore is admitted.
LEMMA ControlRestoreMoves ==
  ASSUME TurnsTypeOK, Control, NEW k \in tasks, NEW k1, k1.kind = k.kind, k1.text = k.text, tasks' = (tasks \ {k}) \cup {k1},
         k.kind = "restore", k.phase = "retry", k1.phase = "work", ~executing, ~restoring, restoring' = TRUE,
         UNCHANGED <<toApp, executing>>, UNCHANGED Fences, UNCHANGED toRuntime,
         Sorted, UNCHANGED <<ledger, target>>
  PROVE  Control' /\ LedgerApart' /\ Flight' = Flight /\ Closed' = Closed
<1>1. \A j \in tasks : j.kind = "restore" => j = k
  BY DEF Control, OneRestore
<1>2. ShapedCalls' /\ ShapedTasks' /\ ShapedEvents'
  BY <1>1 DEF Control, Fences, ShapedCalls, ShapedTasks, ShapedEvents, TurnKinds, OpKinds, Told, Refusal, Outcome
<1>3. OneTurn'
  BY <1>1 DEF Control, Fences, OneTurn, TurnCall, TurnTask, Ends, Told, Refusal, TurnKinds, OpKinds, Before, InTurn
<1>4. Fenced'
  BY <1>1 DEF Control, Fences, Fenced, TurnCall, TurnTask, Ends, Told, Refusal, Announcing, Active, TurnKinds, OpKinds, Before, InTurn
<1>5. OneGoal'
  BY <1>1 DEF Control, Fences, OneGoal, TurnKinds, OpKinds, Outcome, Told
<1>6. Backed'
  BY <1>1 DEF Control, Fences, Backed, TurnCall, TurnTask, Told, Refusal, TurnKinds, OpKinds, Before, InTurn
<1>7. Flags'
  BY <1>1 DEF Control, Fences, Flags, TurnTask, TurnKinds, OpKinds
<1>8. OneRestore'
  BY <1>1 DEF Control, Fences, OneRestore, Asked, Returned, TurnKinds, OpKinds
<1>9. OneOp'
  BY <1>1 DEF Control, Fences, OneOp, OpCall, OpTask, Answer, Cancelled, CancelledAfter, Cancels, OpKinds, TurnKinds, Taking, Touching
<1>10. Alone'
  BY <1>1 DEF Control, Fences, Alone, OpCall, OpTask, OpKinds, TurnKinds, Touching
<1>11. Flight' = Flight
  BY <1>1 DEF Control, Sorted, Fences, ShapedTasks, Flight, Pieces, Texts, Refusal, TurnKinds, OpKinds, Before, InTurn
<1>12. Closed' = Closed
  BY <1>1 DEF Control, Sorted, Fences, ShapedTasks, Closed, Pieces, Texts, Told, Outcome, Refusal, TurnKinds, OpKinds, Before, InTurn
<1>13. LedgerApart'
  BY <1>1 DEF Control, Sorted, Fences, ShapedTasks, LedgerApart, Told, Outcome, Returned, TurnKinds, OpKinds, Before, InTurn
<1>. QED
  BY <1>11, <1>12, <1>13, <1>2, <1>3, <1>4, <1>5, <1>6, <1>7, <1>8, <1>9, <1>10 DEF Control

\* A restore answers, or is refused.
LEMMA ControlRestoreEnds ==
  ASSUME TurnsTypeOK, Control, NEW k \in tasks, k.kind = "restore", tasks' = tasks \ {k}, NEW e, Gains(toApp, toApp', e), e.do = "restore",
         \/ k.phase = "retry" /\ restoring' = restoring
         \/ k.phase = "work" /\ restoring' = FALSE,
         UNCHANGED executing, UNCHANGED Fences, UNCHANGED toRuntime,
         Sorted, UNCHANGED <<ledger, target>>
  PROVE  Control' /\ LedgerApart' /\ Flight' = Flight /\ Closed' = Closed
<1>1. \A j \in tasks : j.kind = "restore" => j = k
  BY DEF Control, OneRestore
<1>2. PICK l \in Nat : /\ DOMAIN toApp = 1 .. l /\ DOMAIN toApp' = 1 .. l + 1
                      /\ toApp'[l + 1] = e /\ \A i \in 1 .. l : toApp'[i] = toApp[i]
  BY DEF Gains
<1>3. /\ l + 1 \in DOMAIN toApp' /\ toApp'[l + 1] = e
      /\ \A i \in DOMAIN toApp : i \in DOMAIN toApp' /\ toApp'[i] = toApp[i] /\ i < l + 1
      /\ \A i \in DOMAIN toApp' : i = l + 1 \/ (i \in DOMAIN toApp /\ toApp'[i] = toApp[i])
      /\ DOMAIN toApp' \subseteq Nat
  BY <1>2
<1>4. ShapedCalls' /\ ShapedTasks' /\ ShapedEvents'
  BY <1>3, <1>1 DEF Control, Fences, ShapedCalls, ShapedTasks, ShapedEvents, TurnKinds, OpKinds, Told, Refusal, Outcome
<1>5. OneTurn'
  BY <1>3, <1>1 DEF Control, Fences, OneTurn, TurnCall, TurnTask, Ends, Told, Refusal, TurnKinds, OpKinds, Before, InTurn
<1>6. Fenced'
  BY <1>3, <1>1 DEF Control, Fences, Fenced, TurnCall, TurnTask, Ends, Told, Refusal, Announcing, Active, TurnKinds, OpKinds, Before, InTurn
<1>7. OneGoal'
  BY <1>3, <1>1 DEF Control, Fences, OneGoal, TurnKinds, OpKinds, Outcome, Told
<1>8. Backed'
  BY <1>3, <1>1 DEF Control, Fences, Backed, TurnCall, TurnTask, Told, Refusal, TurnKinds, OpKinds, Before, InTurn
<1>9. Flags'
  BY <1>3, <1>1 DEF Control, Fences, Flags, TurnTask, TurnKinds, OpKinds
<1>10. OneRestore'
  BY <1>3, <1>1 DEF Control, Fences, OneRestore, Asked, Returned, TurnKinds, OpKinds
<1>11. OneOp'
  BY <1>3, <1>1 DEF Control, Fences, OneOp, OpCall, OpTask, Answer, Cancelled, CancelledAfter, Cancels, OpKinds, TurnKinds, Taking, Touching
<1>12. Alone'
  BY <1>3, <1>1 DEF Control, Fences, Alone, OpCall, OpTask, OpKinds, TurnKinds, Touching
<1>13. Flight' = Flight
  BY <1>3, <1>1 DEF Control, Sorted, Fences, ShapedTasks, Flight, Pieces, Texts, Refusal, TurnKinds, OpKinds, Before, InTurn
<1>14. Closed' = Closed
  BY <1>3, <1>1 DEF Control, Sorted, Fences, ShapedTasks, Closed, Pieces, Texts, Told, Outcome, Refusal, TurnKinds, OpKinds, Before, InTurn
<1>15. LedgerApart'
  BY <1>3, <1>1 DEF Control, Sorted, Fences, ShapedTasks, LedgerApart, Told, Outcome, Returned, TurnKinds, OpKinds, Before, InTurn
<1>. QED
  BY <1>13, <1>14, <1>15, <1>4, <1>5, <1>6, <1>7, <1>8, <1>9, <1>10, <1>11, <1>12 DEF Control

\* The interface hears that a turn has begun.
LEMMA ControlStarted ==
  ASSUME TurnsTypeOK, Control, Drops(toApp, toApp'), toApp[1].do = "submitted",
         admission' = {}, goalPending' = FALSE, turnActive' = TRUE,
         UNCHANGED <<operation, restore, goals, toRuntime, tasks, executing, restoring>>,
         Sorted, Gains(ledger, ledger', toApp[1].text), UNCHANGED target
  PROVE  Control' /\ LedgerApart' /\ Flight' = Flight /\ Closed' = Closed
<1>1. PICK l \in Nat : /\ DOMAIN toApp = 1 .. l + 1 /\ DOMAIN toApp' = 1 .. l
                      /\ \A i \in 1 .. l : toApp'[i] = toApp[i + 1]
  BY DEF Drops
<1>2. /\ 1 \in DOMAIN toApp /\ DOMAIN toApp \subseteq Nat \ {0} /\ DOMAIN toApp' \subseteq Nat \ {0}
      /\ \A i \in DOMAIN toApp' : i + 1 \in DOMAIN toApp /\ toApp'[i] = toApp[i + 1] /\ i + 1 # 1
      /\ \A i \in DOMAIN toApp : i # 1 => i - 1 \in DOMAIN toApp' /\ toApp'[i - 1] = toApp[i]
  BY <1>1
<1>3. /\ \A i \in DOMAIN toRuntime : ~TurnCall(i)
      /\ \A k \in tasks : TurnTask(k) => k.phase \in InTurn /\ k.text = toApp[1].text
      /\ \A i \in DOMAIN toApp : ~Refusal(i)
      /\ \A i \in DOMAIN toApp : i # 1 => ~Told(i)
  <2>1. Told(1)
    BY DEF Told
  <2>2. CASE \E k \in tasks : TurnTask(k) /\ k.phase \in InTurn /\ k.text = toApp[1].text
    BY <1>2, <2>1, <2>2 DEF Control, OneTurn, Ends
  <2>3. CASE \E j \in DOMAIN toApp : 1 < j /\ toApp[j].do = "complete"
    <3>1. PICK j \in DOMAIN toApp : toApp[j].do = "complete"
      BY <2>3
    <3>2. Ends(j) /\ ~Refusal(j)
      BY <3>1 DEF Ends, Refusal, TurnKinds
    <3>. QED
      BY <1>2, <2>1, <3>2 DEF Control, OneTurn, Ends
  <2>. QED
    BY <1>2, <2>1, <2>2, <2>3 DEF Control, OneTurn
<1>4. ShapedCalls' /\ ShapedTasks' /\ ShapedEvents'
  BY <1>2, <1>3 DEF Control, ShapedCalls, ShapedTasks, ShapedEvents, TurnKinds, OpKinds, Told, Refusal, Outcome
<1>5. OneTurn'
  BY <1>2, <1>3 DEF Control, OneTurn, TurnCall, TurnTask, Ends, Told, Refusal, TurnKinds, OpKinds, Before, InTurn
<1>6. Fenced'
  BY <1>2, <1>3 DEF Control, Fenced, TurnCall, TurnTask, Ends, Told, Refusal, Announcing, Active, TurnKinds, OpKinds, Before, InTurn
<1>7. OneGoal'
  BY <1>2, <1>3 DEF Control, OneGoal, TurnKinds, OpKinds, Outcome, Told
<1>8. Backed'
  BY <1>2, <1>3 DEF Control, Backed, TurnCall, TurnTask, Told, Refusal, TurnKinds, OpKinds, Before, InTurn
<1>9. Flags'
  BY <1>2, <1>3 DEF Control, Flags, TurnTask, TurnKinds, OpKinds
<1>10. OneRestore'
  BY <1>2, <1>3 DEF Control, OneRestore, Asked, Returned, TurnKinds, OpKinds
<1>11. OneOp'
  BY <1>2, <1>3 DEF Control, OneOp, OpCall, OpTask, Answer, Cancelled, CancelledAfter, Cancels, OpKinds, TurnKinds, Taking, Touching
<1>12. Alone'
  BY <1>2, <1>3 DEF Control, Alone, OpCall, OpTask, OpKinds, TurnKinds, Touching
<1>13. PICK h \in Nat : /\ DOMAIN ledger = 1 .. h /\ DOMAIN ledger' = 1 .. h + 1
                       /\ ledger'[h + 1] = toApp[1].text /\ \A i \in 1 .. h : ledger'[i] = ledger[i]
  BY DEF Gains
<1>14. /\ h + 1 \in DOMAIN ledger' /\ ledger'[h + 1] = toApp[1].text
       /\ \A i \in DOMAIN ledger : i \in DOMAIN ledger' /\ ledger'[i] = ledger[i]
       /\ \A i \in DOMAIN ledger' : i = h + 1 \/ (i \in DOMAIN ledger /\ ledger'[i] = ledger[i])
  BY <1>13
<1>15. restore = "called" => target \in DOMAIN ledger
  BY DEF Sorted, Aimed, Restoring
<1>16. Told(1)
  BY DEF Told
<1>17. Flight' = Flight
  BY <1>2, <1>3 DEF Control, Sorted, Flight, Pieces, Texts, Refusal, TurnKinds, OpKinds, Before, InTurn
<1>18. Closed' = Closed
  BY <1>2, <1>3, <1>14 DEF Control, Sorted, Closed, Pieces, Texts, Told, Outcome, Refusal, TurnKinds, OpKinds, Before, InTurn
<1>19. LedgerApart'
  BY <1>2, <1>3, <1>14, <1>15, <1>16 DEF Control, Sorted, LedgerApart, Told, Outcome, Returned, TurnKinds, OpKinds, Before, InTurn
<1>. QED
  BY <1>17, <1>18, <1>19, <1>4, <1>5, <1>6, <1>7, <1>8, <1>9, <1>10, <1>11, <1>12 DEF Control

\* The interface hears that a turn is over.
LEMMA ControlFinished ==
  ASSUME TurnsTypeOK, Control, Drops(toApp, toApp'), toApp[1].do = "complete", turnActive' = FALSE,
         UNCHANGED <<admission, goalPending, operation, restore, goals, toRuntime, tasks, executing, restoring>>,
         Sorted, UNCHANGED <<ledger, target>>
  PROVE  Control' /\ LedgerApart' /\ Flight' = Flight /\ Closed' = Closed
<1>1. PICK l \in Nat : /\ DOMAIN toApp = 1 .. l + 1 /\ DOMAIN toApp' = 1 .. l
                      /\ \A i \in 1 .. l : toApp'[i] = toApp[i + 1]
  BY DEF Drops
<1>2. /\ 1 \in DOMAIN toApp /\ DOMAIN toApp \subseteq Nat \ {0} /\ DOMAIN toApp' \subseteq Nat \ {0}
      /\ \A i \in DOMAIN toApp' : i + 1 \in DOMAIN toApp /\ toApp'[i] = toApp[i + 1] /\ i + 1 # 1
      /\ \A i \in DOMAIN toApp : i # 1 => i - 1 \in DOMAIN toApp' /\ toApp'[i - 1] = toApp[i]
  BY <1>1
<1>3. /\ \A i \in DOMAIN toRuntime : ~TurnCall(i)
      /\ \A k \in tasks : ~TurnTask(k)
      /\ \A i \in DOMAIN toApp : i # 1 => ~Ends(i) /\ ~Told(i)
  <2>1. Ends(1)
    BY DEF Ends
  <2>2. \A i \in DOMAIN toApp : i # 1 => ~Ends(i)
    BY <1>2, <2>1 DEF Control, OneTurn
  <2>3. (\A i \in DOMAIN toRuntime : ~TurnCall(i)) /\ (\A k \in tasks : ~TurnTask(k))
    BY <1>2, <2>1 DEF Control, OneTurn
  <2>4. \A i \in DOMAIN toApp : i # 1 => ~Told(i)
    BY <1>2, <2>2, <2>3 DEF Control, OneTurn, Ends
  <2>. QED
    BY <2>2, <2>3, <2>4
<1>4. Active
  <2>1. \A j \in DOMAIN toApp : ~(j < 1)
    BY <1>2
  <2>. QED
    BY <1>2, <2>1 DEF Control, Fenced
<1>5. ShapedCalls' /\ ShapedTasks' /\ ShapedEvents'
  BY <1>2, <1>3, <1>4 DEF Control, Active, ShapedCalls, ShapedTasks, ShapedEvents, TurnKinds, OpKinds, Told, Refusal, Outcome
<1>6. OneTurn'
  BY <1>2, <1>3, <1>4 DEF Control, Active, OneTurn, TurnCall, TurnTask, Ends, Told, Refusal, TurnKinds, OpKinds, Before, InTurn
<1>7. Fenced'
  BY <1>2, <1>3, <1>4 DEF Control, Active, Fenced, TurnCall, TurnTask, Ends, Told, Refusal, Announcing, Active, TurnKinds, OpKinds, Before, InTurn
<1>8. OneGoal'
  BY <1>2, <1>3, <1>4 DEF Control, Active, OneGoal, TurnKinds, OpKinds, Outcome, Told
<1>9. Backed'
  BY <1>2, <1>3, <1>4 DEF Control, Active, Backed, TurnCall, TurnTask, Told, Refusal, TurnKinds, OpKinds, Before, InTurn
<1>10. Flags'
  BY <1>2, <1>3, <1>4 DEF Control, Active, Flags, TurnTask, TurnKinds, OpKinds
<1>11. OneRestore'
  BY <1>2, <1>3, <1>4 DEF Control, Active, OneRestore, Asked, Returned, TurnKinds, OpKinds
<1>12. OneOp'
  BY <1>2, <1>3, <1>4 DEF Control, Active, OneOp, OpCall, OpTask, Answer, Cancelled, CancelledAfter, Cancels, OpKinds, TurnKinds, Taking, Touching
<1>13. Alone'
  BY <1>2, <1>3, <1>4 DEF Control, Active, Alone, OpCall, OpTask, OpKinds, TurnKinds, Touching
<1>14. Flight' = Flight
  BY <1>2, <1>3, <1>4 DEF Control, Sorted, Flight, Pieces, Texts, Refusal, TurnKinds, OpKinds, Before, InTurn
<1>15. Closed' = Closed
  BY <1>2, <1>3, <1>4 DEF Control, Sorted, Closed, Pieces, Texts, Told, Outcome, Refusal, TurnKinds, OpKinds, Before, InTurn
<1>16. LedgerApart'
  BY <1>2, <1>3, <1>4 DEF Control, Sorted, LedgerApart, Told, Outcome, Returned, TurnKinds, OpKinds, Before, InTurn
<1>. QED
  BY <1>14, <1>15, <1>16, <1>5, <1>6, <1>7, <1>8, <1>9, <1>10, <1>11, <1>12, <1>13 DEF Control

\* The same, and the queued message becomes the next turn.
LEMMA ControlFinishedNext ==
  ASSUME TurnsTypeOK, Control, Drops(toApp, toApp'), NEW t \in Texts, t # {}, NEW c, c.do = "queued", c.text = t,
         Gains(toRuntime, toRuntime', c), admission' = t,
         toApp[1].do = "complete", turnActive' = FALSE, operation = "no",
         UNCHANGED <<goalPending, operation, restore, goals, tasks, executing, restoring>>,
         Sorted, UNCHANGED <<ledger, target>>
  PROVE  Control' /\ LedgerApart' /\ Flight' = Flight \cup t /\ Closed' = Closed
<1>1. PICK l \in Nat : /\ DOMAIN toApp = 1 .. l + 1 /\ DOMAIN toApp' = 1 .. l
                      /\ \A i \in 1 .. l : toApp'[i] = toApp[i + 1]
  BY DEF Drops
<1>2. /\ 1 \in DOMAIN toApp /\ DOMAIN toApp \subseteq Nat \ {0} /\ DOMAIN toApp' \subseteq Nat \ {0}
      /\ \A i \in DOMAIN toApp' : i + 1 \in DOMAIN toApp /\ toApp'[i] = toApp[i + 1] /\ i + 1 # 1
      /\ \A i \in DOMAIN toApp : i # 1 => i - 1 \in DOMAIN toApp' /\ toApp'[i - 1] = toApp[i]
  BY <1>1
<1>3. PICK n \in Nat : /\ DOMAIN toRuntime = 1 .. n /\ DOMAIN toRuntime' = 1 .. n + 1
                      /\ toRuntime'[n + 1] = c /\ \A i \in 1 .. n : toRuntime'[i] = toRuntime[i]
  BY DEF Gains
<1>4. /\ n + 1 \in DOMAIN toRuntime' /\ toRuntime'[n + 1] = c
      /\ \A i \in DOMAIN toRuntime : i \in DOMAIN toRuntime' /\ toRuntime'[i] = toRuntime[i] /\ i < n + 1
      /\ \A i \in DOMAIN toRuntime' : i = n + 1 \/ (i \in DOMAIN toRuntime /\ toRuntime'[i] = toRuntime[i])
      /\ DOMAIN toRuntime' \subseteq Nat
  BY <1>3
<1>5. /\ \A i \in DOMAIN toRuntime : ~TurnCall(i)
      /\ \A k \in tasks : ~TurnTask(k)
      /\ \A i \in DOMAIN toApp : i # 1 => ~Ends(i) /\ ~Told(i)
  <2>1. Ends(1)
    BY DEF Ends
  <2>2. \A i \in DOMAIN toApp : i # 1 => ~Ends(i)
    BY <1>2, <2>1 DEF Control, OneTurn
  <2>3. (\A i \in DOMAIN toRuntime : ~TurnCall(i)) /\ (\A k \in tasks : ~TurnTask(k))
    BY <1>2, <2>1 DEF Control, OneTurn
  <2>4. \A i \in DOMAIN toApp : i # 1 => ~Told(i)
    BY <1>2, <2>2, <2>3 DEF Control, OneTurn, Ends
  <2>. QED
    BY <2>2, <2>3, <2>4
<1>6. Active
  <2>1. \A j \in DOMAIN toApp : ~(j < 1)
    BY <1>2
  <2>. QED
    BY <1>2, <2>1 DEF Control, Fenced
<1>7. ShapedCalls' /\ ShapedTasks' /\ ShapedEvents'
  BY <1>2, <1>4, <1>5, <1>6 DEF Control, Active, ShapedCalls, ShapedTasks, ShapedEvents, TurnKinds, OpKinds, Told, Refusal, Outcome
<1>8. OneTurn'
  BY <1>2, <1>4, <1>5, <1>6 DEF Control, Active, OneTurn, TurnCall, TurnTask, Ends, Told, Refusal, TurnKinds, OpKinds, Before, InTurn
<1>9. Fenced'
  BY <1>2, <1>4, <1>5, <1>6 DEF Control, Active, Fenced, TurnCall, TurnTask, Ends, Told, Refusal, Announcing, Active, TurnKinds, OpKinds, Before, InTurn
<1>10. OneGoal'
  BY <1>2, <1>4, <1>5, <1>6 DEF Control, Active, OneGoal, TurnKinds, OpKinds, Outcome, Told
<1>11. Backed'
  BY <1>2, <1>4, <1>5, <1>6 DEF Control, Active, Backed, TurnCall, TurnTask, Told, Refusal, TurnKinds, OpKinds, Before, InTurn
<1>12. Flags'
  BY <1>2, <1>4, <1>5, <1>6 DEF Control, Active, Flags, TurnTask, TurnKinds, OpKinds
<1>13. OneRestore'
  BY <1>2, <1>4, <1>5, <1>6 DEF Control, Active, OneRestore, Asked, Returned, TurnKinds, OpKinds
<1>14. OneOp'
  BY <1>2, <1>4, <1>5, <1>6 DEF Control, Active, OneOp, OpCall, OpTask, Answer, Cancelled, CancelledAfter, Cancels, OpKinds, TurnKinds, Taking, Touching
<1>15. Alone'
  BY <1>2, <1>4, <1>5, <1>6 DEF Control, Active, Alone, OpCall, OpTask, OpKinds, TurnKinds, Touching
<1>16. Flight' = Flight \cup t
  BY <1>2, <1>4, <1>5, <1>6 DEF Control, Sorted, Flight, Pieces, Texts, Refusal, TurnKinds, OpKinds, Before, InTurn
<1>17. Closed' = Closed
  BY <1>2, <1>4, <1>5, <1>6 DEF Control, Sorted, Closed, Pieces, Texts, Told, Outcome, Refusal, TurnKinds, OpKinds, Before, InTurn
<1>18. LedgerApart'
  BY <1>2, <1>4, <1>5, <1>6 DEF Control, Sorted, LedgerApart, Told, Outcome, Returned, TurnKinds, OpKinds, Before, InTurn
<1>. QED
  BY <1>16, <1>17, <1>18, <1>7, <1>8, <1>9, <1>10, <1>11, <1>12, <1>13, <1>14, <1>15 DEF Control

\* The call of a prompt returns.
LEMMA ControlSubmitted ==
  ASSUME TurnsTypeOK, Control, Drops(toApp, toApp'), toApp[1].do \in {"prompt", "queued"},
         Outcome(1) => admission # toApp[1].text,
         admission' = IF admission = toApp[1].text THEN {} ELSE admission,
         UNCHANGED <<turnActive, goalPending, operation, restore, goals, toRuntime, tasks, executing, restoring>>,
         Sorted, UNCHANGED <<ledger, target>>
  PROVE  Control' /\ LedgerApart' /\ Flight' = (IF Outcome(1) THEN Flight ELSE Flight \ toApp[1].text) /\ Closed' \subseteq Closed
<1>1. PICK l \in Nat : /\ DOMAIN toApp = 1 .. l + 1 /\ DOMAIN toApp' = 1 .. l
                      /\ \A i \in 1 .. l : toApp'[i] = toApp[i + 1]
  BY DEF Drops
<1>2. /\ 1 \in DOMAIN toApp /\ DOMAIN toApp \subseteq Nat \ {0} /\ DOMAIN toApp' \subseteq Nat \ {0}
      /\ \A i \in DOMAIN toApp' : i + 1 \in DOMAIN toApp /\ toApp'[i] = toApp[i + 1] /\ i + 1 # 1
      /\ \A i \in DOMAIN toApp : i # 1 => i - 1 \in DOMAIN toApp' /\ toApp'[i - 1] = toApp[i]
  BY <1>1
<1>3. Refusal(1) => /\ \A i \in DOMAIN toRuntime : ~TurnCall(i)
                    /\ \A k \in tasks : ~TurnTask(k)
                    /\ \A i \in DOMAIN toApp : i # 1 => ~Ends(i) /\ ~Told(i)
  <2>. SUFFICES ASSUME Refusal(1)
                PROVE  /\ \A i \in DOMAIN toRuntime : ~TurnCall(i)
                       /\ \A k \in tasks : ~TurnTask(k)
                       /\ \A i \in DOMAIN toApp : i # 1 => ~Ends(i) /\ ~Told(i)
    OBVIOUS
  <2>1. Ends(1)
    BY DEF Ends
  <2>2. \A i \in DOMAIN toApp : i # 1 => ~Ends(i)
    BY <1>2, <2>1 DEF Control, OneTurn
  <2>3. (\A i \in DOMAIN toRuntime : ~TurnCall(i)) /\ (\A k \in tasks : ~TurnTask(k))
    BY <1>2, <2>1 DEF Control, OneTurn
  <2>4. \A i \in DOMAIN toApp : i # 1 => ~Told(i)
    BY <1>2, <2>2, <2>3 DEF Control, OneTurn, Ends
  <2>. QED
    BY <2>2, <2>3, <2>4
<1>4. (Refusal(1) \/ Outcome(1)) /\ (Refusal(1) => admission = toApp[1].text) /\ (Outcome(1) => admission' = admission)
  BY <1>2 DEF Control, Fenced, Refusal, Outcome, TurnKinds, Announcing
<1>5. ShapedCalls' /\ ShapedTasks' /\ ShapedEvents'
  BY <1>2, <1>3, <1>4 DEF Control, ShapedCalls, ShapedTasks, ShapedEvents, TurnKinds, OpKinds, Told, Refusal, Outcome
<1>6. OneTurn'
  BY <1>2, <1>3, <1>4 DEF Control, OneTurn, TurnCall, TurnTask, Ends, Told, Refusal, TurnKinds, OpKinds, Before, InTurn
<1>7. Fenced'
  BY <1>2, <1>3, <1>4 DEF Control, Fenced, TurnCall, TurnTask, Ends, Told, Refusal, Announcing, Active, TurnKinds, OpKinds, Before, InTurn
<1>8. OneGoal'
  BY <1>2, <1>3, <1>4 DEF Control, OneGoal, TurnKinds, OpKinds, Outcome, Told
<1>9. Backed'
  BY <1>2, <1>3, <1>4 DEF Control, Backed, TurnCall, TurnTask, Told, Refusal, TurnKinds, OpKinds, Before, InTurn
<1>10. Flags'
  BY <1>2, <1>3, <1>4 DEF Control, Flags, TurnTask, TurnKinds, OpKinds
<1>11. OneRestore'
  BY <1>2, <1>3, <1>4 DEF Control, OneRestore, Asked, Returned, TurnKinds, OpKinds
<1>12. OneOp'
  BY <1>2, <1>3, <1>4 DEF Control, OneOp, OpCall, OpTask, Answer, Cancelled, CancelledAfter, Cancels, OpKinds, TurnKinds, Taking, Touching
<1>13. Alone'
  BY <1>2, <1>3, <1>4 DEF Control, Alone, OpCall, OpTask, OpKinds, TurnKinds, Touching
<1>14. ~Outcome(1) => /\ \A i \in DOMAIN toRuntime : toRuntime[i].text = {}
                      /\ \A k \in tasks : k.text = {}
                      /\ \A i \in DOMAIN toApp : i # 1 => ~Refusal(i)
  <2>1. \A k \in tasks : ~TurnTask(k) => k.kind \in OpKinds \cup {"restore"}
    BY DEF TurnsTypeOK, Tasks, TurnTask
  <2>. QED
    BY <1>3, <1>4, <2>1 DEF Control, ShapedCalls, ShapedTasks, TurnCall, TurnTask, Ends
<1>15. Flight' = (IF Outcome(1) THEN Flight ELSE Flight \ toApp[1].text)
  <2>1. CASE Outcome(1)
    BY <1>2, <2>1 DEF Flight, Refusal, Outcome
  <2>2. CASE ~Outcome(1)
    <3>4. /\ \A i \in DOMAIN toRuntime : toRuntime[i].text = {}
          /\ \A k \in tasks : k.text = {}
          /\ \A i \in DOMAIN toApp : i # 1 => ~Refusal(i)
      BY <1>14, <2>2
    <3>5. /\ \A i \in DOMAIN toRuntime' : toRuntime'[i].text = {}
          /\ \A k \in tasks' : k.text = {}
      BY <3>4
    <3>6. \A i \in DOMAIN toApp' : ~Refusal(i)'
      BY <1>2, <3>4 DEF Refusal
    <3>1. Flight' = {}
      <4>. SUFFICES ASSUME NEW m \in Flight' PROVE FALSE
        OBVIOUS
      <4>. QED
        BY <3>5, <3>6 DEF Flight
    <3>3. Flight \subseteq toApp[1].text
      <4>. SUFFICES ASSUME NEW m \in Flight PROVE m \in toApp[1].text
        OBVIOUS
      <4>1. PICK i \in DOMAIN toApp : Refusal(i) /\ m \in toApp[i].text
        BY <3>4 DEF Flight
      <4>. QED
        BY <3>4, <4>1
    <3>. QED
      BY <1>2, <2>2, <3>1, <3>3 DEF Control, ShapedEvents
  <2>. QED
    BY <2>1, <2>2
<1>16. Closed' \subseteq Closed
  BY <1>2, <1>3, <1>4 DEF Control, Sorted, Closed, Pieces, Texts, Told, Outcome, Refusal, TurnKinds, OpKinds, Before, InTurn
<1>17. LedgerApart'
  BY <1>2, <1>3, <1>4 DEF Control, Sorted, LedgerApart, Told, Outcome, Returned, TurnKinds, OpKinds, Before, InTurn
<1>. QED
  BY <1>15, <1>16, <1>17, <1>5, <1>6, <1>7, <1>8, <1>9, <1>10, <1>11, <1>12, <1>13 DEF Control

\* The call of a goal returns.
LEMMA ControlGoalReturns ==
  ASSUME TurnsTypeOK, Control, Drops(toApp, toApp'), toApp[1].do = "goal", goalPending' = FALSE,
         UNCHANGED <<admission, turnActive, operation, restore, goals, toRuntime, tasks, executing, restoring>>,
         Sorted, UNCHANGED <<ledger, target>>
  PROVE  Control' /\ LedgerApart' /\ Flight' = (IF Outcome(1) THEN Flight ELSE Flight \ {Goal}) /\ Closed' \subseteq Closed
<1>1. PICK l \in Nat : /\ DOMAIN toApp = 1 .. l + 1 /\ DOMAIN toApp' = 1 .. l
                      /\ \A i \in 1 .. l : toApp'[i] = toApp[i + 1]
  BY DEF Drops
<1>2. /\ 1 \in DOMAIN toApp /\ DOMAIN toApp \subseteq Nat \ {0} /\ DOMAIN toApp' \subseteq Nat \ {0}
      /\ \A i \in DOMAIN toApp' : i + 1 \in DOMAIN toApp /\ toApp'[i] = toApp[i + 1] /\ i + 1 # 1
      /\ \A i \in DOMAIN toApp : i # 1 => i - 1 \in DOMAIN toApp' /\ toApp'[i - 1] = toApp[i]
  BY <1>1
<1>3. Refusal(1) => /\ \A i \in DOMAIN toRuntime : ~TurnCall(i)
                    /\ \A k \in tasks : ~TurnTask(k)
                    /\ \A i \in DOMAIN toApp : i # 1 => ~Ends(i) /\ ~Told(i)
  <2>. SUFFICES ASSUME Refusal(1)
                PROVE  /\ \A i \in DOMAIN toRuntime : ~TurnCall(i)
                       /\ \A k \in tasks : ~TurnTask(k)
                       /\ \A i \in DOMAIN toApp : i # 1 => ~Ends(i) /\ ~Told(i)
    OBVIOUS
  <2>1. Ends(1)
    BY DEF Ends
  <2>2. \A i \in DOMAIN toApp : i # 1 => ~Ends(i)
    BY <1>2, <2>1 DEF Control, OneTurn
  <2>3. (\A i \in DOMAIN toRuntime : ~TurnCall(i)) /\ (\A k \in tasks : ~TurnTask(k))
    BY <1>2, <2>1 DEF Control, OneTurn
  <2>4. \A i \in DOMAIN toApp : i # 1 => ~Told(i)
    BY <1>2, <2>2, <2>3 DEF Control, OneTurn, Ends
  <2>. QED
    BY <2>2, <2>3, <2>4
<1>4. /\ Refusal(1) \/ Outcome(1)
      /\ Refusal(1) => admission = {}
      /\ Outcome(1) => ~goalPending
  <2>1. \A i \in DOMAIN toApp : ~(i < 1)
    BY <1>2
  <2>. QED
    BY <1>2, <2>1 DEF Control, Fenced, OneGoal, Refusal, Outcome, TurnKinds, Announcing
<1>5. ShapedCalls' /\ ShapedTasks' /\ ShapedEvents'
  BY <1>2, <1>3, <1>4 DEF Control, ShapedCalls, ShapedTasks, ShapedEvents, TurnKinds, OpKinds, Told, Refusal, Outcome
<1>6. OneTurn'
  BY <1>2, <1>3, <1>4 DEF Control, OneTurn, TurnCall, TurnTask, Ends, Told, Refusal, TurnKinds, OpKinds, Before, InTurn
<1>7. Fenced'
  BY <1>2, <1>3, <1>4 DEF Control, Fenced, TurnCall, TurnTask, Ends, Told, Refusal, Announcing, Active, TurnKinds, OpKinds, Before, InTurn
<1>8. OneGoal'
  BY <1>2, <1>3, <1>4 DEF Control, OneGoal, TurnKinds, OpKinds, Outcome, Told
<1>9. Backed'
  BY <1>2, <1>3, <1>4 DEF Control, Backed, TurnCall, TurnTask, Told, Refusal, TurnKinds, OpKinds, Before, InTurn
<1>10. Flags'
  BY <1>2, <1>3, <1>4 DEF Control, Flags, TurnTask, TurnKinds, OpKinds
<1>11. OneRestore'
  BY <1>2, <1>3, <1>4 DEF Control, OneRestore, Asked, Returned, TurnKinds, OpKinds
<1>12. OneOp'
  BY <1>2, <1>3, <1>4 DEF Control, OneOp, OpCall, OpTask, Answer, Cancelled, CancelledAfter, Cancels, OpKinds, TurnKinds, Taking, Touching
<1>13. Alone'
  BY <1>2, <1>3, <1>4 DEF Control, Alone, OpCall, OpTask, OpKinds, TurnKinds, Touching
<1>14. ~Outcome(1) => /\ \A i \in DOMAIN toRuntime : toRuntime[i].text = {}
                      /\ \A k \in tasks : k.text = {}
                      /\ \A i \in DOMAIN toApp : i # 1 => ~Refusal(i)
  <2>1. \A k \in tasks : ~TurnTask(k) => k.kind \in OpKinds \cup {"restore"}
    BY DEF TurnsTypeOK, Tasks, TurnTask
  <2>. QED
    BY <1>3, <1>4, <2>1 DEF Control, ShapedCalls, ShapedTasks, TurnCall, TurnTask, Ends
<1>15. Flight' = (IF Outcome(1) THEN Flight ELSE Flight \ {Goal})
  <2>1. CASE Outcome(1)
    BY <1>2, <2>1 DEF Flight, Refusal, Outcome
  <2>2. CASE ~Outcome(1)
    <3>4. /\ \A i \in DOMAIN toRuntime : toRuntime[i].text = {}
          /\ \A k \in tasks : k.text = {}
          /\ \A i \in DOMAIN toApp : i # 1 => ~Refusal(i)
      BY <1>14, <2>2
    <3>5. /\ \A i \in DOMAIN toRuntime' : toRuntime'[i].text = {}
          /\ \A k \in tasks' : k.text = {}
      BY <3>4
    <3>6. \A i \in DOMAIN toApp' : ~Refusal(i)'
      BY <1>2, <3>4 DEF Refusal
    <3>1. Flight' = {}
      <4>. SUFFICES ASSUME NEW m \in Flight' PROVE FALSE
        OBVIOUS
      <4>. QED
        BY <3>5, <3>6 DEF Flight
    <3>3. Flight \subseteq toApp[1].text
      <4>. SUFFICES ASSUME NEW m \in Flight PROVE m \in toApp[1].text
        OBVIOUS
      <4>1. PICK i \in DOMAIN toApp : Refusal(i) /\ m \in toApp[i].text
        BY <3>4 DEF Flight
      <4>. QED
        BY <3>4, <4>1
    <3>. QED
      BY <1>2, <2>2, <3>1, <3>3 DEF Control, ShapedEvents
  <2>. QED
    BY <2>1, <2>2
<1>16. Closed' \subseteq Closed
  BY <1>2, <1>3, <1>4 DEF Control, Sorted, Closed, Pieces, Texts, Told, Outcome, Refusal, TurnKinds, OpKinds, Before, InTurn
<1>17. LedgerApart'
  BY <1>2, <1>3, <1>4 DEF Control, Sorted, LedgerApart, Told, Outcome, Returned, TurnKinds, OpKinds, Before, InTurn
<1>. QED
  BY <1>15, <1>16, <1>17, <1>5, <1>6, <1>7, <1>8, <1>9, <1>10, <1>11, <1>12, <1>13 DEF Control

\* The call of a clear, a compaction or a snapshot returns.
LEMMA ControlAnswered ==
  ASSUME TurnsTypeOK, Control, Drops(toApp, toApp'), toApp[1].do \in OpKinds, operation' = "no",
         UNCHANGED <<admission, turnActive, goalPending, restore, goals, toRuntime, tasks, executing, restoring>>,
         Sorted, restore = "no", ledger' \in {ledger, << >>}, UNCHANGED target
  PROVE  Control' /\ LedgerApart' /\ Flight' = Flight /\ Closed' \subseteq Closed
<1>1. PICK l \in Nat : /\ DOMAIN toApp = 1 .. l + 1 /\ DOMAIN toApp' = 1 .. l
                      /\ \A i \in 1 .. l : toApp'[i] = toApp[i + 1]
  BY DEF Drops
<1>2. /\ 1 \in DOMAIN toApp /\ DOMAIN toApp \subseteq Nat \ {0} /\ DOMAIN toApp' \subseteq Nat \ {0}
      /\ \A i \in DOMAIN toApp' : i + 1 \in DOMAIN toApp /\ toApp'[i] = toApp[i + 1] /\ i + 1 # 1
      /\ \A i \in DOMAIN toApp : i # 1 => i - 1 \in DOMAIN toApp' /\ toApp'[i - 1] = toApp[i]
  BY <1>1
<1>3. ~Told(1) /\ ~Ends(1) /\ ~Refusal(1) /\ ~Outcome(1) /\ toApp[1].do # "goal" /\ toApp[1].do # "restore"
  BY DEF Told, Ends, Refusal, Outcome, OpKinds, TurnKinds
<1>4. ShapedCalls' /\ ShapedTasks' /\ ShapedEvents'
  BY <1>2, <1>3 DEF Control, ShapedCalls, ShapedTasks, ShapedEvents, TurnKinds, OpKinds, Told, Refusal, Outcome
<1>5. OneTurn'
  BY <1>2, <1>3 DEF Control, OneTurn, TurnCall, TurnTask, Ends, Told, Refusal, TurnKinds, OpKinds, Before, InTurn
<1>6. Fenced'
  BY <1>2, <1>3 DEF Control, Fenced, TurnCall, TurnTask, Ends, Told, Refusal, Announcing, Active, TurnKinds, OpKinds, Before, InTurn
<1>7. OneGoal'
  BY <1>2, <1>3 DEF Control, OneGoal, TurnKinds, OpKinds, Outcome, Told
<1>8. Backed'
  BY <1>2, <1>3 DEF Control, Backed, TurnCall, TurnTask, Told, Refusal, TurnKinds, OpKinds, Before, InTurn
<1>9. Flags'
  BY <1>2, <1>3 DEF Control, Flags, TurnTask, TurnKinds, OpKinds
<1>10. OneRestore'
  BY <1>2, <1>3 DEF Control, OneRestore, Asked, Returned, TurnKinds, OpKinds
<1>11. OneOp'
  BY <1>2, <1>3 DEF Control, OneOp, OpCall, OpTask, Answer, Cancelled, CancelledAfter, Cancels, OpKinds, TurnKinds, Taking, Touching
<1>12. Alone'
  BY <1>2, <1>3 DEF Control, Alone, OpCall, OpTask, OpKinds, TurnKinds, Touching
<1>13. Flight' = Flight
  BY <1>2, <1>3 DEF Control, Sorted, Flight, Pieces, Texts, Refusal, TurnKinds, OpKinds, Before, InTurn
<1>14. Closed' \subseteq Closed
  BY <1>2, <1>3 DEF Control, Sorted, Closed, Pieces, Texts, Told, Outcome, Refusal, TurnKinds, OpKinds, Before, InTurn
<1>15. LedgerApart'
  BY <1>2, <1>3 DEF Control, Sorted, LedgerApart, Told, Outcome, Returned, TurnKinds, OpKinds, Before, InTurn
<1>. QED
  BY <1>13, <1>14, <1>15, <1>4, <1>5, <1>6, <1>7, <1>8, <1>9, <1>10, <1>11, <1>12 DEF Control

\* The call of a restore returns.
LEMMA ControlRestored ==
  ASSUME TurnsTypeOK, Control, Drops(toApp, toApp'), toApp[1].do = "restore", restore' = "no",
         UNCHANGED <<admission, turnActive, goalPending, operation, goals, toRuntime, tasks, executing, restoring>>,
         Sorted, 
         toApp[1].conversation \in BOOLEAN, restore = "called",
         IF toApp[1].conversation
         THEN \A i \in DOMAIN ledger' : i \in DOMAIN ledger \ {target} /\ ledger'[i] = ledger[i]
         ELSE UNCHANGED ledger,
         UNCHANGED target
  PROVE  Control' /\ LedgerApart' /\ Flight' = Flight /\ Closed' \subseteq (IF toApp[1].conversation THEN Closed \ ledger[target] ELSE Closed)
<1>1. PICK l \in Nat : /\ DOMAIN toApp = 1 .. l + 1 /\ DOMAIN toApp' = 1 .. l
                      /\ \A i \in 1 .. l : toApp'[i] = toApp[i + 1]
  BY DEF Drops
<1>2. /\ 1 \in DOMAIN toApp /\ DOMAIN toApp \subseteq Nat \ {0} /\ DOMAIN toApp' \subseteq Nat \ {0}
      /\ \A i \in DOMAIN toApp' : i + 1 \in DOMAIN toApp /\ toApp'[i] = toApp[i + 1] /\ i + 1 # 1
      /\ \A i \in DOMAIN toApp : i # 1 => i - 1 \in DOMAIN toApp' /\ toApp'[i - 1] = toApp[i]
  BY <1>1
<1>3. ShapedCalls' /\ ShapedTasks' /\ ShapedEvents'
  BY <1>2 DEF Control, ShapedCalls, ShapedTasks, ShapedEvents, TurnKinds, OpKinds, Told, Refusal, Outcome
<1>4. OneTurn'
  BY <1>2 DEF Control, OneTurn, TurnCall, TurnTask, Ends, Told, Refusal, TurnKinds, OpKinds, Before, InTurn
<1>5. Fenced'
  BY <1>2 DEF Control, Fenced, TurnCall, TurnTask, Ends, Told, Refusal, Announcing, Active, TurnKinds, OpKinds, Before, InTurn
<1>6. OneGoal'
  BY <1>2 DEF Control, OneGoal, TurnKinds, OpKinds, Outcome, Told
<1>7. Backed'
  BY <1>2 DEF Control, Backed, TurnCall, TurnTask, Told, Refusal, TurnKinds, OpKinds, Before, InTurn
<1>8. Flags'
  BY <1>2 DEF Control, Flags, TurnTask, TurnKinds, OpKinds
<1>9. OneRestore'
  BY <1>2 DEF Control, OneRestore, Asked, Returned, TurnKinds, OpKinds
<1>10. OneOp'
  BY <1>2 DEF Control, OneOp, OpCall, OpTask, Answer, Cancelled, CancelledAfter, Cancels, OpKinds, TurnKinds, Taking, Touching
<1>11. Alone'
  BY <1>2 DEF Control, Alone, OpCall, OpTask, OpKinds, TurnKinds, Touching
<1>12. Returned(1) /\ target \in DOMAIN ledger /\ ~Told(1) /\ ~Outcome(1)
  BY DEF Sorted, Aimed, Restoring, Returned, Told, Outcome, TurnKinds
<1>13. toApp[1].conversation =>
         /\ \A i \in DOMAIN ledger : i # target => ledger[i] \cap ledger[target] = {}
         /\ \A i \in DOMAIN toApp : Told(i) => toApp[i].text \cap ledger[target] = {}
         /\ \A i \in DOMAIN toApp : Outcome(i) => toApp[i].text \cap ledger[target] = {}
         /\ \A k \in tasks : k.phase \in InTurn => k.text \cap ledger[target] = {}
  <2>1. \A i \in DOMAIN toApp : Outcome(i) => 1 < i
    BY <1>2, <1>12
  <2>. QED
    BY <1>2, <1>12, <2>1 DEF Sorted, LedgerApart
<1>14. Flight' = Flight
  BY <1>2 DEF Control, Sorted, Flight, Pieces, Texts, Refusal, TurnKinds, OpKinds, Before, InTurn
<1>15. Closed' \subseteq (IF toApp[1].conversation THEN Closed \ ledger[target] ELSE Closed)
  BY <1>2, <1>12, <1>13 DEF Control, Sorted, Closed, Pieces, Texts, Told, Outcome, Refusal, TurnKinds, OpKinds, Before, InTurn
<1>16. LedgerApart'
  BY <1>2, <1>12 DEF Control, Sorted, LedgerApart, Told, Outcome, Returned, TurnKinds, OpKinds, Before, InTurn
<1>. QED
  BY <1>14, <1>15, <1>16, <1>3, <1>4, <1>5, <1>6, <1>7, <1>8, <1>9, <1>10, <1>11 DEF Control

\* The same, and the queued message becomes the next turn.
LEMMA ControlRestoredNext ==
  ASSUME TurnsTypeOK, Control, Drops(toApp, toApp'), NEW t \in Texts, t # {}, NEW c, c.do = "queued", c.text = t,
         Gains(toRuntime, toRuntime', c), admission' = t,
         toApp[1].do = "restore", restore' = "no",
         operation = "no", ~goalPending, admission = {}, ~turnActive,
         UNCHANGED <<turnActive, goalPending, operation, goals, tasks, executing, restoring>>,
         Sorted, 
         toApp[1].conversation \in BOOLEAN, restore = "called",
         IF toApp[1].conversation
         THEN \A i \in DOMAIN ledger' : i \in DOMAIN ledger \ {target} /\ ledger'[i] = ledger[i]
         ELSE UNCHANGED ledger,
         UNCHANGED target
  PROVE  Control' /\ LedgerApart' /\ Flight' = Flight \cup t /\ Closed' \subseteq (IF toApp[1].conversation THEN Closed \ ledger[target] ELSE Closed)
<1>1. PICK l \in Nat : /\ DOMAIN toApp = 1 .. l + 1 /\ DOMAIN toApp' = 1 .. l
                      /\ \A i \in 1 .. l : toApp'[i] = toApp[i + 1]
  BY DEF Drops
<1>2. /\ 1 \in DOMAIN toApp /\ DOMAIN toApp \subseteq Nat \ {0} /\ DOMAIN toApp' \subseteq Nat \ {0}
      /\ \A i \in DOMAIN toApp' : i + 1 \in DOMAIN toApp /\ toApp'[i] = toApp[i + 1] /\ i + 1 # 1
      /\ \A i \in DOMAIN toApp : i # 1 => i - 1 \in DOMAIN toApp' /\ toApp'[i - 1] = toApp[i]
  BY <1>1
<1>3. PICK n \in Nat : /\ DOMAIN toRuntime = 1 .. n /\ DOMAIN toRuntime' = 1 .. n + 1
                      /\ toRuntime'[n + 1] = c /\ \A i \in 1 .. n : toRuntime'[i] = toRuntime[i]
  BY DEF Gains
<1>4. /\ n + 1 \in DOMAIN toRuntime' /\ toRuntime'[n + 1] = c
      /\ \A i \in DOMAIN toRuntime : i \in DOMAIN toRuntime' /\ toRuntime'[i] = toRuntime[i] /\ i < n + 1
      /\ \A i \in DOMAIN toRuntime' : i = n + 1 \/ (i \in DOMAIN toRuntime /\ toRuntime'[i] = toRuntime[i])
      /\ DOMAIN toRuntime' \subseteq Nat
  BY <1>3
<1>5. NoTurn
  BY Idle
<1>6. ShapedCalls' /\ ShapedTasks' /\ ShapedEvents'
  BY <1>2, <1>4, <1>5 DEF Control, NoTurn, ShapedCalls, ShapedTasks, ShapedEvents, TurnKinds, OpKinds, Told, Refusal, Outcome
<1>7. OneTurn'
  BY <1>2, <1>4, <1>5 DEF Control, NoTurn, OneTurn, TurnCall, TurnTask, Ends, Told, Refusal, TurnKinds, OpKinds, Before, InTurn
<1>8. Fenced'
  BY <1>2, <1>4, <1>5 DEF Control, NoTurn, Fenced, TurnCall, TurnTask, Ends, Told, Refusal, Announcing, Active, TurnKinds, OpKinds, Before, InTurn
<1>9. OneGoal'
  BY <1>2, <1>4, <1>5 DEF Control, NoTurn, OneGoal, TurnKinds, OpKinds, Outcome, Told
<1>10. Backed'
  BY <1>2, <1>4, <1>5 DEF Control, NoTurn, Backed, TurnCall, TurnTask, Told, Refusal, TurnKinds, OpKinds, Before, InTurn
<1>11. Flags'
  BY <1>2, <1>4, <1>5 DEF Control, NoTurn, Flags, TurnTask, TurnKinds, OpKinds
<1>12. OneRestore'
  BY <1>2, <1>4, <1>5 DEF Control, NoTurn, OneRestore, Asked, Returned, TurnKinds, OpKinds
<1>13. OneOp'
  BY <1>2, <1>4, <1>5 DEF Control, NoTurn, OneOp, OpCall, OpTask, Answer, Cancelled, CancelledAfter, Cancels, OpKinds, TurnKinds, Taking, Touching
<1>14. Alone'
  BY <1>2, <1>4, <1>5 DEF Control, NoTurn, Alone, OpCall, OpTask, OpKinds, TurnKinds, Touching
<1>15. Returned(1) /\ target \in DOMAIN ledger /\ ~Told(1) /\ ~Outcome(1)
  BY DEF Sorted, Aimed, Restoring, Returned, Told, Outcome, TurnKinds
<1>16. toApp[1].conversation =>
         /\ \A i \in DOMAIN ledger : i # target => ledger[i] \cap ledger[target] = {}
         /\ \A i \in DOMAIN toApp : Told(i) => toApp[i].text \cap ledger[target] = {}
         /\ \A i \in DOMAIN toApp : Outcome(i) => toApp[i].text \cap ledger[target] = {}
         /\ \A k \in tasks : k.phase \in InTurn => k.text \cap ledger[target] = {}
  <2>1. \A i \in DOMAIN toApp : Outcome(i) => 1 < i
    BY <1>2, <1>15
  <2>. QED
    BY <1>2, <1>15, <2>1 DEF Sorted, LedgerApart
<1>17. Flight' = Flight \cup t
  BY <1>2, <1>4, <1>5 DEF Control, Sorted, NoTurn, Flight, Pieces, Texts, Refusal, TurnKinds, OpKinds, Before, InTurn
<1>18. Closed' \subseteq (IF toApp[1].conversation THEN Closed \ ledger[target] ELSE Closed)
  BY <1>2, <1>4, <1>5, <1>15, <1>16 DEF Control, Sorted, NoTurn, Closed, Pieces, Texts, Told, Outcome, Refusal, TurnKinds, OpKinds, Before, InTurn
<1>19. LedgerApart'
  BY <1>2, <1>4, <1>5, <1>15 DEF Control, Sorted, NoTurn, LedgerApart, Told, Outcome, Returned, TurnKinds, OpKinds, Before, InTurn
<1>. QED
  BY <1>17, <1>18, <1>19, <1>6, <1>7, <1>8, <1>9, <1>10, <1>11, <1>12, <1>13, <1>14 DEF Control

-----------------------------------------------------------------------------
(* The whole invariant, one action at a time *)

Inv == TurnsTypeOK /\ Control /\ ShapedTexts /\ Sorted /\ FiledApart /\ Tally

LEMMA PlacesQuiet ==
  ASSUME Control, Sorted, UNCHANGED Fences, UNCHANGED Traffic, UNCHANGED <<ledger, target>>
  PROVE  Control' /\ LedgerApart' /\ Aimed' /\ Flight' = Flight /\ Closed' = Closed
<1>1. Control'
  BY ControlQuiet
<1>2. Flight' = Flight /\ Closed' = Closed
  BY DEF Fences, Traffic, Flight, Closed, Refusal, Told, Outcome
<1>3. LedgerApart' /\ Aimed'
  BY DEF Sorted, Aimed, Restoring, Fences, Traffic, LedgerApart, Told, Outcome, Returned
<1>. QED
  BY <1>1, <1>2, <1>3

\* What is on its way from the composer to the application.
LEMMA PostedIs ==
  ASSUME TurnsTypeOK
  PROVE  /\ posted = << >> => Posted = {}
         /\ posted # << >> => /\ DOMAIN posted = {1} /\ Posted = posted[1].text /\ Posted \in Texts
                              /\ posted[1].late \in BOOLEAN /\ posted[1].key \in {"submit", "steer", "queue"}
<1>1. /\ posted \in Seq([key : {"submit", "steer", "queue"}, text : Texts, late : BOOLEAN]) /\ Len(posted) <= 1
  BY DEF TurnsTypeOK
<1>2. posted = << >> => Posted = {}
  BY DEF Posted
<1>3. ASSUME posted # << >>
      PROVE  DOMAIN posted = {1} /\ posted[1] \in [key : {"submit", "steer", "queue"}, text : Texts, late : BOOLEAN]
  <2>1. Len(posted) \in Nat /\ Len(posted) # 0 /\ DOMAIN posted = 1 .. Len(posted)
    BY <1>1, <1>3, EmptySeq, LenProperties
  <2>2. Len(posted) = 1
    BY <1>1, <2>1
  <2>3. DOMAIN posted = {1}
    BY <2>1, <2>2
  <2>4. 1 \in 1 .. Len(posted)
    BY <2>2
  <2>. QED
    BY <1>1, <2>3, <2>4, ElementOfSeq
<1>4. ASSUME posted # << >> PROVE Posted = posted[1].text
  <2>1. {posted[i].text : i \in DOMAIN posted} = {posted[1].text}
    BY <1>3, <1>4
  <2>. QED
    BY <2>1 DEF Posted
<1>. QED
  BY <1>2, <1>3, <1>4

LEMMA NothingPosted == ASSUME posted' = << >> PROVE Posted' = {}
BY DEF Posted

LEMMA FiledGains == ASSUME NEW x, stashed' = stashed \cup {x} PROVE Filed' = Filed \cup x
BY DEF Filed

LEMMA FiledSame == ASSUME stashed' = stashed PROVE Filed' = Filed
BY DEF Filed

LEMMA FiledLoses ==
  ASSUME FiledApart, NEW t \in stashed, stashed' = stashed \ {t}
  PROVE  Filed' = Filed \ t /\ t \subseteq Filed
<1>1. \A m : m \in Filed <=> \E u \in stashed : m \in u
  BY DEF Filed
<1>2. \A m : m \in Filed' <=> \E u \in stashed \ {t} : m \in u
  BY DEF Filed
<1>. QED
  BY <1>1, <1>2 DEF FiledApart

LEMMA PostedSame == ASSUME posted' = posted PROVE Posted' = Posted
BY DEF Posted

\* No number of a piece is written twice.
LEMMA Fresh ==
  ASSUME TurnsTypeOK, Tally, written < MaxMsgs
  PROVE  /\ written + 1 \in Msgs /\ written + 1 \notin Open \cup Closed \cup ended /\ runs[written + 1] = 0
         /\ {written + 1} \in Texts /\ {written + 1} \cap Msgs = {written + 1} /\ written + 1 \in 0 .. MaxMsgs
         /\ \A m \in Msgs : m <= written + 1 <=> m <= written \/ m = written + 1
<1>1. written \in Nat /\ MaxMsgs \in Nat /\ written + 1 \in Msgs
  BY TurnsAssumption DEF TurnsTypeOK, Msgs
<1>2. ~(written + 1 <= written)
  BY <1>1
<1>3. written + 1 \in 0 .. MaxMsgs /\ \A m \in Msgs : m <= written + 1 <=> m <= written \/ m = written + 1
  BY <1>1 DEF Msgs
<1>. QED
  BY <1>1, <1>2, <1>3 DEF Tally, Texts

LEMMA InvWrite == ASSUME Inv, Write PROVE Inv'
<1>1. /\ composer = {} /\ composer' = {written + 1} /\ written' = written + 1 /\ written < MaxMsgs
      /\ UNCHANGED <<stashed, posted, queues, fences, ledger, channels, runtime, ops, goals, past>>
  BY DEF Write
<1>2. Control' /\ LedgerApart' /\ Aimed' /\ Flight' = Flight /\ Closed' = Closed
  BY <1>1, PlacesQuiet DEF Inv, Fences, Traffic, fences, channels, runtime
<1>3. Filed' = Filed /\ Posted' = Posted
  BY <1>1, FiledSame, PostedSame
<1>. PICK w : w = written + 1
  OBVIOUS
<1>4. /\ w \in Msgs /\ w \notin Open \cup Closed \cup ended /\ runs[w] = 0 /\ {w} \in Texts /\ w \in 0 .. MaxMsgs
      /\ \A m \in Msgs : m <= w <=> m <= written \/ m = w
  BY <1>1, Fresh DEF Inv
<1>5. TurnsTypeOK'
  BY <1>1, <1>4 DEF Inv, TurnsTypeOK, queues, fences, channels, runtime, past
<1>6. ShapedTexts' /\ FiledApart'
  BY <1>1 DEF Inv, ShapedTexts, FiledApart, fences
<1>7. Spread'
  BY <1>1, <1>2, <1>3, <1>4 DEF Inv, Sorted, Spread, Open, queues, past
<1>8. Tally'
  <2>1. w \notin Closed /\ w \notin ended /\ \A m : m \in Open' <=> m \in Open \/ m = w
    BY <1>1, <1>2, <1>3, <1>4 DEF Open, queues
  <2>2. w # Goal
    BY <1>4, TurnsAssumption DEF Msgs
  <2>. QED
    BY <1>1, <1>2, <1>4, <2>1, <2>2 DEF Inv, Tally, past
<1>. QED
  BY <1>2, <1>5, <1>6, <1>7, <1>8 DEF Inv, Sorted

LEMMA InvRecall == ASSUME Inv, NEW t \in stashed, Recall(t) PROVE Inv'
<1>1. /\ composer = {} /\ composer' = t /\ stashed' = stashed \ {t}
      /\ UNCHANGED <<posted, queues, fences, ledger, channels, runtime, caps, past>>
  BY DEF Recall
<1>2. Control' /\ LedgerApart' /\ Aimed' /\ Flight' = Flight /\ Closed' = Closed
  BY <1>1, PlacesQuiet DEF Inv, Fences, Traffic, fences, channels, runtime, caps
<1>3. Filed' = Filed \ t /\ t \subseteq Filed /\ Posted' = Posted
  BY <1>1, FiledLoses, PostedSame DEF Inv
<1>4. TurnsTypeOK'
  BY <1>1 DEF Inv, TurnsTypeOK, queues, fences, channels, runtime, past, caps
<1>5. ShapedTexts' /\ FiledApart'
  BY <1>1 DEF Inv, ShapedTexts, FiledApart, fences
<1>6. Spread'
  BY <1>1, <1>2, <1>3 DEF Inv, Sorted, Spread, queues, past
<1>7. Tally'
  <2>1. Open' = Open
    BY <1>1, <1>2, <1>3 DEF Open, queues
  <2>. QED
    BY <1>1, <1>2, <2>1 DEF Inv, Tally, past, caps
<1>. QED
  BY <1>2, <1>4, <1>5, <1>6, <1>7 DEF Inv, Sorted

LEMMA InvRecallQueued == ASSUME Inv, RecallQueued PROVE Inv'
<1>1. /\ composer = {} /\ composer' = slot /\ slot' = {}
      /\ UNCHANGED <<stashed, posted, steer, fences, ledger, channels, runtime, caps, past>>
  BY DEF RecallQueued
<1>2. Control' /\ LedgerApart' /\ Aimed' /\ Flight' = Flight /\ Closed' = Closed
  BY <1>1, PlacesQuiet DEF Inv, Fences, Traffic, fences, channels, runtime, caps
<1>3. Filed' = Filed /\ Posted' = Posted
  BY <1>1, FiledSame, PostedSame
<1>4. TurnsTypeOK'
  BY <1>1 DEF Inv, TurnsTypeOK, queues, fences, channels, runtime, past, caps, Texts
<1>5. ShapedTexts' /\ FiledApart'
  BY <1>1 DEF Inv, ShapedTexts, FiledApart, fences
<1>6. Spread'
  BY <1>1, <1>2, <1>3 DEF Inv, Sorted, Spread, queues, past
<1>7. Tally'
  <2>1. Open' = Open
    BY <1>1, <1>2, <1>3 DEF Open, queues
  <2>. QED
    BY <1>1, <1>2, <2>1 DEF Inv, Tally, past, caps
<1>. QED
  BY <1>2, <1>4, <1>5, <1>6, <1>7 DEF Inv, Sorted

LEMMA InvPressKey ==
  ASSUME Inv, NEW key \in {"submit", "steer", "queue"}, PressKey(key)
  PROVE  Inv'
<1>1. /\ composer # {} /\ composer' = {} /\ posted = << >>
      /\ posted' = <<[key |-> key, text |-> composer, late |-> FALSE]>>
      /\ UNCHANGED <<stashed, queues, fences, ledger, channels, runtime, caps, past>>
  BY DEF PressKey
<1>2. Control' /\ LedgerApart' /\ Aimed' /\ Flight' = Flight /\ Closed' = Closed
  BY <1>1, PlacesQuiet DEF Inv, Fences, Traffic, fences, channels, runtime, caps
<1>. PICK x : x = [key |-> key, text |-> composer, late |-> FALSE]
  OBVIOUS
<1>3. x.text = composer /\ x \in [key : {"submit", "steer", "queue"}, text : Texts, late : BOOLEAN]
  BY DEF Inv, TurnsTypeOK
<1>4. posted' = <<x>> /\ DOMAIN posted' = {1} /\ posted'[1] = x /\ Len(posted') = 1
      /\ posted' \in Seq([key : {"submit", "steer", "queue"}, text : Texts, late : BOOLEAN])
  BY <1>1, <1>3
<1>5. Filed' = Filed /\ Posted = {} /\ Posted' = composer
  <2>1. \A i \in DOMAIN posted' : posted'[i].text = composer
    BY <1>3, <1>4
  <2>2. {posted'[i].text : i \in DOMAIN posted'} = {composer}
    BY <1>4, <2>1
  <2>3. Posted' = UNION {composer}
    BY <2>2 DEF Posted
  <2>. QED
    BY <1>1, <2>3, FiledSame, PostedIs DEF Inv
<1>6. TurnsTypeOK'
  <2>1. /\ {composer', slot', steer', admission'} \cup stashed' \subseteq Texts
        /\ posted' \in Seq([key : {"submit", "steer", "queue"}, text : Texts, late : BOOLEAN]) /\ Len(posted') <= 1
    <3>1. {} \in Texts
      BY DEF Texts
    <3>2. {slot', steer', admission'} \cup stashed' \subseteq Texts
      BY <1>1 DEF Inv, TurnsTypeOK, queues, fences
    <3>3. {composer', slot', steer', admission'} \cup stashed' \subseteq Texts
      BY <1>1, <3>1, <3>2
    <3>4. Len(posted') <= 1
      BY <1>4
    <3>. QED
      BY <1>4, <3>3, <3>4
  <2>. QED
    BY <1>1, <2>1 DEF Inv, TurnsTypeOK, queues, fences, channels, runtime, past, caps
<1>7. ShapedTexts' /\ FiledApart'
  BY <1>1, <1>3, <1>4 DEF Inv, ShapedTexts, FiledApart, fences
<1>8. Spread'
  BY <1>1, <1>2, <1>5 DEF Inv, Sorted, Spread, queues, past
<1>9. Tally'
  <2>1. Open' = Open
    BY <1>1, <1>2, <1>5 DEF Open, queues
  <2>. QED
    BY <1>1, <1>2, <2>1 DEF Inv, Tally, past, caps
<1>. QED
  BY <1>2, <1>6, <1>7, <1>8, <1>9 DEF Inv, Sorted

LEMMA InvOnSteer == ASSUME Inv, OnSteer PROVE Inv'
<1>1. /\ posted # << >> /\ posted' = << >> /\ UNCHANGED <<fences, ledger, channels, runtime, caps, runs>>
  BY DEF OnSteer, Posting
<1>2. Control' /\ LedgerApart' /\ Aimed' /\ Flight' = Flight /\ Closed' = Closed
  BY <1>1, PlacesQuiet DEF Inv, Fences, Traffic, fences, channels, runtime, caps
<1>. PICK t : t = posted[1].text
  OBVIOUS
<1>3. Posted = t /\ t \in Texts /\ t # {} /\ Posted' = {} /\ posted[1].late \in BOOLEAN
  BY <1>1, PostedIs, NothingPosted DEF Inv, ShapedTexts
<1>4. CASE RestorePrompt(t) /\ UNCHANGED <<queues, ended, stale>>
  <2>1. stashed' = IF composer = {} THEN stashed ELSE stashed \cup {composer}
    BY <1>4 DEF RestorePrompt
  <2>2. Filed' = Filed \cup composer
    BY <2>1, FiledGains, FiledSame
  <2>3. composer' = t
    BY <1>4 DEF RestorePrompt
  <2>4. TurnsTypeOK'
    BY <1>1, <1>3, <1>4, <2>1, <2>3 DEF Inv, TurnsTypeOK, queues, fences, channels, runtime, past, caps
  <2>5. ShapedTexts'
    BY <1>1, <2>1 DEF Inv, ShapedTexts, fences
  <2>6. FiledApart'
    <3>1. \A u \in stashed : u \subseteq Filed
      BY DEF Filed
    <3>2. composer \cap Filed = {}
      BY DEF Inv, Sorted, Spread
    <3>. QED
      BY <2>1, <3>1, <3>2 DEF Inv, FiledApart
  <2>7. Spread'
    BY <1>2, <1>3, <1>4, <2>2, <2>3 DEF Inv, Sorted, Spread, queues
  <2>8. Open' = Open
    BY <1>2, <1>3, <1>4, <2>2, <2>3 DEF Open, queues
  <2>9. Tally'
    BY <1>1, <1>2, <1>4, <2>8 DEF Inv, Tally, caps
  <2>. QED
    BY <1>2, <2>4, <2>5, <2>6, <2>7, <2>9 DEF Inv, Sorted
<1>5. CASE QueueMessage(t) /\ UNCHANGED <<drafts, steer, stale>>
  <2>1. slot' = t /\ ended' = ended \cup (slot \cap Msgs)
    BY <1>5 DEF QueueMessage
  <2>2. Filed' = Filed
    BY <1>5, FiledSame DEF drafts
  <2>4. TurnsTypeOK'
    BY <1>1, <1>3, <1>5, <2>1 DEF Inv, TurnsTypeOK, drafts, fences, channels, runtime, past, caps
  <2>5. ShapedTexts' /\ FiledApart'
    BY <1>1, <1>5 DEF Inv, ShapedTexts, FiledApart, drafts
  <2>7. Spread'
    BY <1>2, <1>3, <1>5, <2>1, <2>2 DEF Inv, Sorted, Spread, drafts
  <2>8. (\A m \in Msgs : m \in Open' \cup ended' <=> m \in Open \cup ended) /\ Open' \subseteq Open /\ Msgs \cap slot \subseteq Open
    BY <1>2, <1>3, <1>5, <2>1, <2>2 DEF Open, drafts
  <2>9. Tally'
    BY <1>1, <1>2, <2>1, <2>8 DEF Inv, Tally, caps
  <2>. QED
    BY <1>2, <2>4, <2>5, <2>7, <2>9 DEF Inv, Sorted
<1>6. CASE steer = {} /\ steer' = t /\ stale' = (posted[1].late \/ ~turnActive) /\ UNCHANGED <<drafts, slot, ended>>
  <2>2. Filed' = Filed
    BY <1>6, FiledSame DEF drafts
  <2>3. stale' \in BOOLEAN
    BY <1>3, <1>6 DEF Inv, TurnsTypeOK
  <2>4. TurnsTypeOK'
    BY <1>1, <1>3, <1>6, <2>3 DEF Inv, TurnsTypeOK, drafts, fences, channels, runtime, past, caps
  <2>5. ShapedTexts' /\ FiledApart'
    BY <1>1, <1>6 DEF Inv, ShapedTexts, FiledApart, drafts
  <2>7. Spread'
    BY <1>2, <1>3, <1>6, <2>2 DEF Inv, Sorted, Spread, drafts
  <2>8. Open' = Open
    BY <1>2, <1>3, <1>6, <2>2 DEF Open, drafts
  <2>9. Tally'
    BY <1>1, <1>2, <1>6, <2>8 DEF Inv, Tally, caps
  <2>. QED
    BY <1>2, <2>4, <2>5, <2>7, <2>9 DEF Inv, Sorted
<1>. QED
  BY <1>4, <1>5, <1>6 DEF OnSteer

LEMMA InvStepBoundary == ASSUME Inv, NEW k \in tasks, StepBoundary(k) PROVE Inv'
<1>1. /\ ended' = ended \cup (steer \cap Msgs) /\ steer' = {} /\ stale' = FALSE
      /\ UNCHANGED <<drafts, posted, fences, ledger, toRuntime, caps, slot, toApp, runtime, runs>>
  BY DEF StepBoundary, Runs
<1>2. Control' /\ LedgerApart' /\ Aimed' /\ Flight' = Flight /\ Closed' = Closed
  BY <1>1, PlacesQuiet DEF Inv, Fences, Traffic, fences, runtime, caps
<1>3. Filed' = Filed /\ Posted' = Posted
  BY <1>1, FiledSame, PostedSame DEF drafts
<1>4. TurnsTypeOK'
  BY <1>1 DEF Inv, TurnsTypeOK, drafts, fences, runtime, caps, Texts
<1>5. ShapedTexts' /\ FiledApart'
  BY <1>1 DEF Inv, ShapedTexts, FiledApart, drafts
<1>6. Spread'
  BY <1>1, <1>2, <1>3 DEF Inv, Sorted, Spread, drafts
<1>7. (\A m \in Msgs : m \in Open' \cup ended' <=> m \in Open \cup ended) /\ Open' \subseteq Open /\ Msgs \cap steer \subseteq Open
  BY <1>1, <1>2, <1>3 DEF Open, drafts
<1>8. Tally'
  BY <1>1, <1>2, <1>7 DEF Inv, Tally, caps
<1>. QED
  BY <1>2, <1>4, <1>5, <1>6, <1>8 DEF Inv, Sorted

\* A step that leaves every text where it is.
LEMMA StepKeeps ==
  ASSUME Inv, Control', LedgerApart', Aimed', Flight' = Flight, Closed' = Closed,
         toRuntime' \in Seq(Calls), toApp' \in Seq(Events), tasks' \subseteq Tasks,
         {goalPending', executing', restoring', recovery', interrupted'} \subseteq BOOLEAN,
         operation' \in {"no", "waiting"} \cup OpKinds,
         restore' \in {"no", "scheduled", "waiting", "called"}, target' \in Nat, ops' \in 0 .. MaxOps,
         UNCHANGED <<drafts, posted, queues, admission, turnActive, drainDue, ledger, written, goals, past>>
  PROVE  Inv'
<1>1. Filed' = Filed /\ Posted' = Posted
  BY FiledSame, PostedSame DEF drafts
<1>2. TurnsTypeOK'
  BY DEF Inv, TurnsTypeOK, drafts, queues, past
<1>3. ShapedTexts' /\ FiledApart'
  BY DEF Inv, ShapedTexts, FiledApart, drafts
<1>4. Spread'
  BY <1>1 DEF Inv, Sorted, Spread, drafts, queues, past
<1>5. Open' = Open
  BY <1>1 DEF Open, drafts, queues
<1>6. Tally'
  BY <1>5 DEF Inv, Tally, past
<1>. QED
  BY <1>2, <1>3, <1>4, <1>6 DEF Inv, Sorted

LEMMA RuntimeKeeps ==
  ASSUME Inv, Control', LedgerApart', Flight' = Flight, Closed' = Closed,
         toRuntime' \in Seq(Calls), toApp' \in Seq(Events), tasks' \subseteq Tasks,
         {executing', restoring', recovery', interrupted'} \subseteq BOOLEAN,
         UNCHANGED <<drafts, posted, queues, fences, ledger, caps, past>>
  PROVE  Inv'
<1>1. Aimed'
  BY DEF Inv, Sorted, Aimed, Restoring, fences
<1>2. /\ {goalPending', executing', restoring', recovery', interrupted'} \subseteq BOOLEAN
      /\ operation' \in {"no", "waiting"} \cup OpKinds
      /\ restore' \in {"no", "scheduled", "waiting", "called"} /\ target' \in Nat /\ ops' \in 0 .. MaxOps
  BY DEF Inv, TurnsTypeOK, fences, caps
<1>. QED
  BY <1>1, <1>2, StepKeeps DEF fences, caps

\* A command of the interface leaves the runtime and the texts alone.
LEMMA CommandKeeps ==
  ASSUME Inv, Commanded, Control', LedgerApart', Aimed', Flight' = Flight, Closed' = Closed,
         toRuntime' \in Seq(Calls), goals' = goals, ops' \in 0 .. MaxOps,
         goalPending' \in BOOLEAN, operation' \in {"no", "waiting"} \cup OpKinds,
         restore' \in {"no", "scheduled", "waiting", "called"}, target' \in Nat
  PROVE  Inv'
<1>1. toApp' \in Seq(Events) /\ tasks' \subseteq Tasks
      /\ {goalPending', executing', restoring', recovery', interrupted'} \subseteq BOOLEAN
  BY DEF Inv, TurnsTypeOK, Commanded, runtime
<1>2. UNCHANGED <<drafts, posted, queues, admission, turnActive, drainDue, ledger, written, goals, past>>
  BY DEF Commanded
<1>. QED
  BY <1>1, <1>2, StepKeeps

LEMMA CountedIs == ASSUME TurnsTypeOK, Counted PROVE ops' \in 0 .. MaxOps
BY TurnsAssumption DEF TurnsTypeOK, Counted

LEMMA AimedStays == ASSUME Sorted, UNCHANGED <<ledger, target>>, restore # "no" \/ restore' = "no" PROVE Aimed'
BY DEF Sorted, Aimed, Restoring

LEMMA InvInterrupt == ASSUME Inv, Interrupt PROVE Inv'
<1>1. /\ Posts(Call("interrupt", {}))
      /\ UNCHANGED <<drafts, posted, queues, fences, ledger, toApp, runtime, caps, past>>
  BY DEF Interrupt
<1>2. Control' /\ LedgerApart' /\ Flight' = Flight /\ Closed' = Closed
  BY <1>1, ControlNotes DEF Inv, fences, runtime, caps
<1>3. toRuntime' \in Seq(Calls)
  <2>1. Call("interrupt", {}) \in Calls
    BY CallIs DEF Texts
  <2>. QED
    BY <1>1, <2>1, PostsIs DEF Inv
<1>4. /\ toApp' \in Seq(Events) /\ tasks' \subseteq Tasks
      /\ {executing', restoring', recovery', interrupted'} \subseteq BOOLEAN
  BY <1>1 DEF Inv, TurnsTypeOK, runtime
<1>. QED
  BY <1>1, <1>2, <1>3, <1>4, RuntimeKeeps

LEMMA BareCall ==
  ASSUME TurnsTypeOK, NEW kind \in OpKinds \cup {"restore", "interrupt"}, Posts(Call(kind, {}))
  PROVE  toRuntime' \in Seq(Calls)
<1>1. Call(kind, {}) \in Calls
  BY CallIs DEF Texts
<1>. QED
  BY <1>1, PostsIs

LEMMA InvClearContext == ASSUME Inv, ClearContext PROVE Inv'
<1>1. /\ Counted /\ operation = "no" /\ admission = {} /\ restore = "no"
      /\ operation' = IF turnActive THEN "waiting" ELSE "clear"
      /\ Posts(Call(IF turnActive THEN "interrupt" ELSE "clear", {}))
      /\ Commanded /\ UNCHANGED <<goalPending, restore, target, goals>>
  BY DEF ClearContext, Restoring
<1>2. UNCHANGED <<admission, turnActive, toApp, tasks, executing, restoring, ledger>>
  BY <1>1 DEF Commanded, runtime
<1>3. Control' /\ LedgerApart' /\ Flight' = Flight /\ Closed' = Closed
  <2>1. CASE turnActive
    BY <1>1, <1>2, <2>1, ControlNotes DEF Inv
  <2>2. CASE ~turnActive
    <3>1. "clear" \in OpKinds
      BY DEF OpKinds
    <3>. QED
      BY <1>1, <1>2, <2>2, <3>1, ControlOpCall DEF Inv
  <2>. QED
    BY <2>1, <2>2
<1>4. toRuntime' \in Seq(Calls)
  <2>1. PICK kind \in OpKinds \cup {"restore", "interrupt"} : kind = IF turnActive THEN "interrupt" ELSE "clear"
    BY DEF OpKinds
  <2>. QED
    BY <1>1, <2>1, BareCall DEF Inv
<1>5. ops' \in 0 .. MaxOps /\ Aimed'
  BY <1>1, <1>2, CountedIs, AimedStays DEF Inv
<1>6. /\ goalPending' \in BOOLEAN /\ operation' \in {"no", "waiting"} \cup OpKinds
      /\ restore' \in {"no", "scheduled", "waiting", "called"} /\ target' \in Nat
  BY <1>1 DEF Inv, TurnsTypeOK, OpKinds
<1>. QED
  BY <1>1, <1>3, <1>4, <1>5, <1>6, CommandKeeps

LEMMA InvClearProceeds == ASSUME Inv, ClearProceeds PROVE Inv'
<1>1. /\ operation = "waiting" /\ ~turnActive /\ operation' = "clear" /\ Posts(Call("clear", {}))
      /\ Commanded /\ UNCHANGED <<goalPending, restore, target, ops, goals>>
  BY DEF ClearProceeds
<1>2. UNCHANGED <<admission, turnActive, toApp, tasks, executing, restoring, ledger>>
  BY <1>1 DEF Commanded, runtime
<1>3. admission = {} /\ restore = "no" /\ "clear" \in OpKinds
  BY <1>1 DEF Inv, Control, OneOp, OpKinds
<1>4. Control' /\ LedgerApart' /\ Flight' = Flight /\ Closed' = Closed
  BY <1>1, <1>2, <1>3, ControlOpCall DEF Inv
<1>5. toRuntime' \in Seq(Calls) /\ Aimed'
  BY <1>1, <1>2, <1>3, BareCall, AimedStays DEF Inv
<1>6. /\ goalPending' \in BOOLEAN /\ operation' \in {"no", "waiting"} \cup OpKinds /\ ops' \in 0 .. MaxOps
      /\ restore' \in {"no", "scheduled", "waiting", "called"} /\ target' \in Nat
  BY <1>1 DEF Inv, TurnsTypeOK, OpKinds
<1>. QED
  BY <1>1, <1>4, <1>5, <1>6, CommandKeeps

LEMMA InvClearGivesUp == ASSUME Inv, ClearGivesUp PROVE Inv'
<1>1. /\ operation = "waiting" /\ operation' = "no"
      /\ Commanded /\ UNCHANGED <<goalPending, restore, target, toRuntime, ops, goals>>
  BY DEF ClearGivesUp
<1>2. UNCHANGED <<admission, turnActive, toApp, tasks, executing, restoring, ledger>>
  BY <1>1 DEF Commanded, runtime
<1>3. Control' /\ LedgerApart' /\ Flight' = Flight /\ Closed' = Closed
  BY <1>1, <1>2, ControlFences DEF Inv, Traffic
<1>4. Aimed' /\ toRuntime' \in Seq(Calls)
  BY <1>1, <1>2, AimedStays DEF Inv, TurnsTypeOK
<1>5. /\ goalPending' \in BOOLEAN /\ operation' \in {"no", "waiting"} \cup OpKinds /\ ops' \in 0 .. MaxOps
      /\ restore' \in {"no", "scheduled", "waiting", "called"} /\ target' \in Nat
  BY <1>1 DEF Inv, TurnsTypeOK
<1>. QED
  BY <1>1, <1>3, <1>4, <1>5, CommandKeeps

LEMMA InvCopy == ASSUME Inv, Copy PROVE Inv'
<1>1. /\ Counted /\ operation = "no" /\ admission = {} /\ ~turnActive /\ restore = "no"
      /\ operation' = "copy" /\ Posts(Call("copy", {}))
      /\ Commanded /\ UNCHANGED <<goalPending, restore, target, goals>>
  BY DEF Copy, Restoring
<1>2. UNCHANGED <<admission, turnActive, toApp, tasks, executing, restoring, ledger>>
  BY <1>1 DEF Commanded, runtime
<1>3. "copy" \in OpKinds
  BY DEF OpKinds
<1>4. Control' /\ LedgerApart' /\ Flight' = Flight /\ Closed' = Closed
  BY <1>1, <1>2, <1>3, ControlOpCall DEF Inv
<1>5. toRuntime' \in Seq(Calls) /\ Aimed' /\ ops' \in 0 .. MaxOps
  BY <1>1, <1>2, <1>3, BareCall, AimedStays, CountedIs DEF Inv
<1>6. /\ goalPending' \in BOOLEAN /\ operation' \in {"no", "waiting"} \cup OpKinds
      /\ restore' \in {"no", "scheduled", "waiting", "called"} /\ target' \in Nat
  BY <1>1 DEF Inv, TurnsTypeOK, OpKinds
<1>. QED
  BY <1>1, <1>4, <1>5, <1>6, CommandKeeps

LEMMA InvTimesOut == ASSUME Inv, TimesOut PROVE Inv'
<1>1. /\ operation \in OpKinds /\ operation' = "no"
      /\ Posts([Call("cancel", {}) EXCEPT !.op = operation])
      /\ UNCHANGED <<drafts, posted, queues, admission, turnActive, drainDue, goalPending, restore, target,
                     ledger, runtime, caps, past>>
  BY DEF TimesOut
<1>. PICK c : c = [Call("cancel", {}) EXCEPT !.op = operation]
  OBVIOUS
<1>2. c \in Calls /\ c.do = "cancel" /\ c.text = {} /\ c.op = operation
  BY <1>1, CancelIs
<1>3. toRuntime' \in Seq(Calls) /\ Gains(toRuntime, toRuntime', c)
  BY <1>1, <1>2, PostsIs DEF Inv
<1>4. UNCHANGED <<admission, turnActive, goalPending, restore, goals, tasks, executing, restoring, ledger, target>>
  BY <1>1 DEF runtime, caps
<1>5. Control' /\ LedgerApart' /\ Flight' = Flight /\ Closed' = Closed /\ toApp' \in Seq(Events)
  <2>1. CASE UNCHANGED toApp /\ \A i \in DOMAIN toApp : toApp[i].do # operation
    <3>1. toApp' \in Seq(Events)
      BY <2>1 DEF Inv, TurnsTypeOK
    <3>. QED
      BY <1>1, <1>2, <1>3, <1>4, <2>1, <3>1, ControlTimesOutFirst DEF Inv
  <2>2. CASE \E i \in DOMAIN toApp : toApp[i].do = operation /\ toApp' = RemoveAt(toApp, i)
    <3>1. PICK p \in DOMAIN toApp : toApp[p].do = operation /\ toApp' = RemoveAt(toApp, p)
      BY <2>2
    <3>. PICK q : q = toApp
      OBVIOUS
    <3>2. q \in Seq(Events) /\ p \in DOMAIN q
      BY DEF Inv, TurnsTypeOK
    <3>3. RemoveAt(q, p) \in Seq(Events) /\ Skips(q, RemoveAt(q, p), p)
      BY <3>2, SkipsIs
    <3>4. toApp' \in Seq(Events) /\ Skips(toApp, toApp', p)
      BY <3>1, <3>3
    <3>. QED
      BY <1>1, <1>2, <1>3, <1>4, <3>1, <3>4, ControlTimesOutLate DEF Inv
  <2>. QED
    BY <2>1, <2>2 DEF TimesOut
<1>6. Aimed'
  BY <1>4, AimedStays DEF Inv
<1>7. /\ tasks' \subseteq Tasks
      /\ {goalPending', executing', restoring', recovery', interrupted'} \subseteq BOOLEAN
      /\ operation' \in {"no", "waiting"} \cup OpKinds
      /\ restore' \in {"no", "scheduled", "waiting", "called"} /\ target' \in Nat /\ ops' \in 0 .. MaxOps
  BY <1>1 DEF Inv, TurnsTypeOK, runtime, caps
<1>8. UNCHANGED <<drafts, posted, queues, admission, turnActive, drainDue, ledger, written, goals, past>>
  BY <1>1 DEF caps
<1>. QED
  BY <1>3, <1>5, <1>6, <1>7, <1>8, StepKeeps

LEMMA InvHandleRestore == ASSUME Inv, NEW i \in DOMAIN ledger, HandleRestore(i) PROVE Inv'
<1>1. /\ Counted /\ operation = "no" /\ restore = "no" /\ restore' = "scheduled" /\ target' = i
      /\ Commanded /\ UNCHANGED <<goalPending, operation, toRuntime, goals>>
  BY DEF HandleRestore, ContextOp, Restoring
<1>2. UNCHANGED <<admission, turnActive, toApp, tasks, executing, restoring, ledger>>
  BY <1>1 DEF Commanded, runtime
<1>3. Control' /\ LedgerApart' /\ Flight' = Flight /\ Closed' = Closed
  BY <1>1, <1>2, ControlFences DEF Inv, Traffic
<1>4. Aimed' /\ target' \in Nat /\ ops' \in 0 .. MaxOps
  <2>1. i \in Nat
    <3>1. ledger \in Seq(Texts)
      BY DEF Inv, TurnsTypeOK
    <3>. QED
      BY <3>1, LenProperties
  <2>. QED
    BY <1>1, <1>2, <2>1, CountedIs DEF Inv, Aimed
<1>5. /\ goalPending' \in BOOLEAN /\ operation' \in {"no", "waiting"} \cup OpKinds /\ toRuntime' \in Seq(Calls)
      /\ restore' \in {"no", "scheduled", "waiting", "called"}
  BY <1>1 DEF Inv, TurnsTypeOK
<1>. QED
  BY <1>1, <1>3, <1>4, <1>5, CommandKeeps

LEMMA InvRestoreWaits == ASSUME Inv, RestoreWaits PROVE Inv'
<1>1. /\ restore = "scheduled" /\ restore' = "waiting" /\ Posts(Call("interrupt", {}))
      /\ Commanded /\ UNCHANGED <<goalPending, operation, target, ops, goals>>
  BY DEF RestoreWaits
<1>2. UNCHANGED <<admission, turnActive, toApp, tasks, executing, restoring, ledger>>
  BY <1>1 DEF Commanded, runtime
<1>3. Control' /\ LedgerApart' /\ Flight' = Flight /\ Closed' = Closed
  BY <1>1, <1>2, ControlNotes DEF Inv
<1>4. Aimed' /\ toRuntime' \in Seq(Calls)
  BY <1>1, <1>2, AimedStays, BareCall DEF Inv
<1>5. /\ goalPending' \in BOOLEAN /\ operation' \in {"no", "waiting"} \cup OpKinds /\ ops' \in 0 .. MaxOps
      /\ restore' \in {"no", "scheduled", "waiting", "called"} /\ target' \in Nat
  BY <1>1 DEF Inv, TurnsTypeOK
<1>. QED
  BY <1>1, <1>3, <1>4, <1>5, CommandKeeps

LEMMA InvRestoreProceeds == ASSUME Inv, RestoreProceeds PROVE Inv'
<1>1. /\ restore \in {"scheduled", "waiting"} /\ ~turnActive /\ restore' = "called" /\ Posts(Call("restore", {}))
      /\ Commanded /\ UNCHANGED <<goalPending, operation, target, ops, goals>>
  BY DEF RestoreProceeds
<1>2. UNCHANGED <<admission, turnActive, toApp, tasks, executing, restoring, ledger>>
  BY <1>1 DEF Commanded, runtime
<1>3. Control' /\ LedgerApart' /\ Flight' = Flight /\ Closed' = Closed
  BY <1>1, <1>2, ControlAsks DEF Inv
<1>4. Aimed' /\ toRuntime' \in Seq(Calls)
  BY <1>1, <1>2, AimedStays, BareCall DEF Inv
<1>5. /\ goalPending' \in BOOLEAN /\ operation' \in {"no", "waiting"} \cup OpKinds /\ ops' \in 0 .. MaxOps
      /\ restore' \in {"no", "scheduled", "waiting", "called"} /\ target' \in Nat
  BY <1>1 DEF Inv, TurnsTypeOK
<1>. QED
  BY <1>1, <1>3, <1>4, <1>5, CommandKeeps

\* The first goal is the only one.
LEMMA InvManageGoal == ASSUME MaxGoals <= 1, Inv, ManageGoal PROVE Inv'
<1>1. /\ goals < MaxGoals /\ goals' = goals + 1 /\ operation = "no" /\ ~goalPending /\ admission = {} /\ ~turnActive
      /\ goalPending' = TRUE /\ Posts(Call("goal", {Goal}))
      /\ Commanded /\ UNCHANGED <<operation, restore, target, ops>>
  BY DEF ManageGoal, ContextOp
<1>2. goals = 0 /\ goals' = 1 /\ goals' \in 0 .. MaxGoals /\ goals' # 0
  BY <1>1, TurnsAssumption DEF Inv, TurnsTypeOK
<1>3. UNCHANGED <<admission, turnActive, toApp, tasks, executing, restoring, ledger>>
  BY <1>1 DEF Commanded, runtime
<1>4. Control' /\ LedgerApart' /\ Flight' = Flight \cup {Goal} /\ Closed' = Closed
  BY <1>1, <1>2, <1>3, ControlGoal DEF Inv
<1>5. toRuntime' \in Seq(Calls)
  <2>1. Call("goal", {Goal}) \in Calls
    BY CallIs DEF Texts, TurnKinds
  <2>. QED
    BY <1>1, <2>1, PostsIs DEF Inv
<1>6. UNCHANGED <<drafts, posted, queues, drainDue, written, past, runtime>>
  BY <1>1 DEF Commanded
<1>7. Filed' = Filed /\ Posted' = Posted
  BY <1>6, FiledSame, PostedSame DEF drafts
<1>8. Aimed'
  BY <1>1, <1>3, AimedStays DEF Inv
<1>9. TurnsTypeOK'
  BY <1>1, <1>2, <1>3, <1>5, <1>6 DEF Inv, TurnsTypeOK, drafts, queues, runtime, past
<1>10. ShapedTexts' /\ FiledApart'
  BY <1>3, <1>6 DEF Inv, ShapedTexts, FiledApart, drafts
<1>11. Goal \notin Open /\ Goal \notin Closed /\ Goal \notin Msgs
  BY <1>2, TurnsAssumption DEF Inv, Tally, Msgs
<1>12. Goal \notin ended
  BY <1>11 DEF Inv, TurnsTypeOK
<1>13. Spread'
  BY <1>4, <1>6, <1>7, <1>11, <1>12 DEF Inv, Sorted, Spread, Open, drafts, queues, past
<1>14. \A m \in Msgs : m \in Open' <=> m \in Open
  BY <1>4, <1>6, <1>7, <1>11 DEF Open, drafts, queues
<1>15. Tally'
  BY <1>2, <1>4, <1>6, <1>14 DEF Inv, Tally, past
<1>. QED
  BY <1>4, <1>8, <1>9, <1>10, <1>13, <1>15 DEF Inv, Sorted

\* The task is given up: the interface is told so.
GivenUp(k) ==
  \E e \in Events : /\ Gains(toApp, toApp', e) /\ e.do = k.kind
                    /\ k.kind # "restore" => e.text = k.text /\ ~e.ok /\ e.begun = (k.phase = "finish")
                    /\ tasks' = tasks \ {k}
\* The task goes on in another phase.
GoesOn(k, phase) ==
  \E k1 \in Tasks : /\ k1.kind = k.kind /\ k1.text = k.text /\ k1.phase = phase
                    /\ tasks' = (tasks \ {k}) \cup {k1}

LEMMA RefusedIs ==
  ASSUME TurnsTypeOK, NEW k \in Tasks, Refused(k)
  PROVE  toApp' \in Seq(Events) /\ tasks' \subseteq Tasks /\ GivenUp(k)
<1>1. PICK e : e = IF k.kind = "restore" THEN RestoreResult(FALSE, FALSE) ELSE Result(k, FALSE)
  OBVIOUS
<1>2. /\ e \in Events /\ e.do = k.kind
      /\ k.kind # "restore" => e.text = k.text /\ ~e.ok /\ e.begun = (k.phase = "finish")
  BY <1>1, ResultIs, RestoreResultIs
<1>3. tasks' = tasks \ {k} /\ Says(<<e>>)
  BY <1>1 DEF Refused
<1>4. toApp' \in Seq(Events) /\ Gains(toApp, toApp', e)
  BY <1>2, <1>3, SaysIs
<1>5. tasks' \subseteq Tasks
  BY <1>3 DEF TurnsTypeOK
<1>. QED
  BY <1>2, <1>3, <1>4, <1>5 DEF GivenUp

LEMMA GoesOnIs ==
  ASSUME TurnsTypeOK, NEW k \in Tasks, NEW phase \in Phases, tasks' = (tasks \ {k}) \cup {In(k, phase)}
  PROVE  GoesOn(k, phase) /\ tasks' \subseteq Tasks
<1>1. In(k, phase) \in Tasks /\ In(k, phase).kind = k.kind /\ In(k, phase).text = k.text /\ In(k, phase).phase = phase
  BY InIs
<1>2. tasks' \subseteq Tasks
  BY <1>1 DEF TurnsTypeOK
<1>. QED
  BY <1>1, <1>2 DEF GoesOn

LEMMA AdmitIs ==
  ASSUME TurnsTypeOK, NEW k \in Tasks, Admit(k)
  PROVE  /\ toApp' \in Seq(Events) /\ tasks' \subseteq Tasks
         /\ {executing', restoring', interrupted'} \subseteq BOOLEAN
         /\ \/ GivenUp(k) /\ UNCHANGED <<executing, restoring>>
            \/ /\ ~executing /\ ~restoring /\ UNCHANGED toApp
               /\ \/ k.kind = "restore" /\ GoesOn(k, "work") /\ restoring' = TRUE /\ UNCHANGED executing
                  \/ k.kind # "restore" /\ GoesOn(k, "begin") /\ executing' = TRUE /\ UNCHANGED restoring
<1>1. CASE Refused(k) /\ UNCHANGED <<executing, restoring, interrupted>>
  <2>1. {executing', restoring', interrupted'} \subseteq BOOLEAN
    BY <1>1 DEF TurnsTypeOK
  <2>2. toApp' \in Seq(Events) /\ tasks' \subseteq Tasks /\ GivenUp(k)
    BY <1>1, RefusedIs
  <2>. QED
    BY <1>1, <2>1, <2>2
<1>2. CASE /\ ~restoring /\ ~executing
           /\ tasks' = (tasks \ {k}) \cup {In(k, IF k.kind = "restore" THEN "work" ELSE "begin")}
           /\ IF k.kind = "restore"
              THEN restoring' = TRUE /\ UNCHANGED <<executing, interrupted>>
              ELSE executing' = TRUE /\ interrupted' = FALSE /\ UNCHANGED restoring
           /\ UNCHANGED toApp
  <2>1. PICK phase \in Phases : phase = IF k.kind = "restore" THEN "work" ELSE "begin"
    BY DEF Phases
  <2>2. GoesOn(k, phase) /\ tasks' \subseteq Tasks
    BY <1>2, <2>1, GoesOnIs
  <2>3. toApp' \in Seq(Events) /\ {executing', restoring', interrupted'} \subseteq BOOLEAN
    BY <1>2 DEF TurnsTypeOK
  <2>. QED
    BY <1>2, <2>1, <2>2, <2>3
<1>. QED
  BY <1>1, <1>2 DEF Admit

LEMMA EntersIs ==
  ASSUME TurnsTypeOK, NEW k \in Tasks, Enters(k)
  PROVE  /\ toApp' \in Seq(Events) /\ tasks' \subseteq Tasks
         /\ {executing', restoring', interrupted'} \subseteq BOOLEAN
         /\ \/ GivenUp(k) /\ UNCHANGED <<executing, restoring>>
            \/ GoesOn(k, "retry") /\ UNCHANGED <<executing, restoring, toApp>>
            \/ /\ ~executing /\ ~restoring /\ UNCHANGED toApp
               /\ \/ k.kind = "restore" /\ GoesOn(k, "work") /\ restoring' = TRUE /\ UNCHANGED executing
                  \/ k.kind # "restore" /\ GoesOn(k, "begin") /\ executing' = TRUE /\ UNCHANGED restoring
<1>1. CASE /\ tasks' = (tasks \ {k}) \cup {In(k, "retry")}
           /\ UNCHANGED <<executing, restoring, interrupted, toApp>>
  <2>1. GoesOn(k, "retry") /\ tasks' \subseteq Tasks
    BY <1>1, GoesOnIs DEF Phases
  <2>2. toApp' \in Seq(Events) /\ {executing', restoring', interrupted'} \subseteq BOOLEAN
    BY <1>1 DEF TurnsTypeOK
  <2>. QED
    BY <1>1, <2>1, <2>2
<1>2. CASE Admit(k)
  BY <1>2, AdmitIs
<1>. QED
  BY <1>1, <1>2 DEF Enters

LEMMA InvReceives == ASSUME Inv, Receives PROVE Inv'
<1>1. /\ toRuntime # << >> /\ toRuntime' = Tail(toRuntime)
      /\ UNCHANGED <<drafts, posted, queues, fences, ledger, recovery, caps, past>>
  BY DEF Receives
<1>2. /\ toRuntime' \in Seq(Calls) /\ Drops(toRuntime, toRuntime') /\ 1 \in DOMAIN toRuntime
      /\ Head(toRuntime) = toRuntime[1] /\ toRuntime[1] \in Calls
  BY <1>1, ReceivesIs DEF Inv
<1>. PICK c : c = toRuntime[1]
  OBVIOUS
<1>. PICK k : k = [kind |-> c.do, text |-> c.text, phase |-> "work"]
  OBVIOUS
<1>3. c \in Calls /\ k.kind = c.do /\ k.text = c.text /\ k.phase = "work"
  BY <1>2
<1>4. UNCHANGED Fences /\ UNCHANGED <<ledger, target>>
  BY <1>1 DEF Fences, fences, caps
<1>5. recovery' \in BOOLEAN
  BY <1>1 DEF Inv, TurnsTypeOK
<1>6. CASE c.do \in {"prompt", "queued", "restore"} /\ Enters(k)
  <2>1. k \in Tasks
    <3>1. c.do \in TurnKinds \cup OpKinds \cup {"restore"} /\ c.text \in Texts /\ "work" \in Phases
      BY <1>3, <1>6 DEF Calls, TurnKinds, Phases
    <3>. QED
      BY <3>1 DEF Tasks
  <2>2. k \notin tasks
    BY <1>2, <1>3, <1>6 DEF Inv, Control, OneTurn, OneRestore, TurnCall, TurnTask, TurnKinds, Asked
  <2>3. tasks \ {k} = tasks
    BY <2>2
  <2>4. /\ toApp' \in Seq(Events) /\ tasks' \subseteq Tasks
        /\ {executing', restoring', interrupted'} \subseteq BOOLEAN
    BY <1>6, <2>1, EntersIs DEF Inv
  <2>5. Control' /\ LedgerApart' /\ Flight' = Flight /\ Closed' = Closed
    <3>1. CASE GivenUp(k) /\ UNCHANGED <<executing, restoring>>
      <4>1. PICK e \in Events : /\ Gains(toApp, toApp', e) /\ e.do = k.kind
                                /\ k.kind # "restore" => e.text = k.text /\ ~e.ok /\ e.begun = (k.phase = "finish")
                                /\ tasks' = tasks \ {k}
        BY <3>1 DEF GivenUp
      <4>2. UNCHANGED <<tasks, executing, restoring>>
        BY <2>3, <3>1, <4>1
      <4>3. CASE c.do = "restore"
        BY <1>2, <1>3, <1>4, <4>1, <4>2, <4>3, ControlRestoreRefused DEF Inv
      <4>4. CASE c.do # "restore"
        <5>1. c.do \in TurnKinds /\ e.text = c.text /\ ~e.ok /\ ~e.begun /\ e.do = c.do
          BY <1>3, <1>6, <4>1, <4>4 DEF TurnKinds
        <5>. QED
          BY <1>2, <1>4, <4>1, <4>2, <5>1, ControlTurnRefused DEF Inv
      <4>. QED
        BY <4>3, <4>4
    <3>2. CASE GoesOn(k, "retry") /\ UNCHANGED <<executing, restoring, toApp>>
      <4>1. PICK k1 \in Tasks : k1.kind = k.kind /\ k1.text = k.text /\ k1.phase = "retry" /\ tasks' = tasks \cup {k1}
        BY <2>3, <3>2 DEF GoesOn
      <4>2. CASE c.do = "restore"
        BY <1>2, <1>3, <1>4, <3>2, <4>1, <4>2, ControlRestoreArrives DEF Inv
      <4>3. CASE c.do # "restore"
        <5>1. c.do \in TurnKinds /\ k1.kind = c.do /\ k1.text = c.text /\ k1.phase \in Before
              /\ k1.phase # "configure" /\ k1.phase # "begin"
          BY <1>3, <1>6, <4>1, <4>3 DEF TurnKinds, Before
        <5>. QED
          BY <1>2, <1>4, <3>2, <4>1, <5>1, ControlTurnArrives DEF Inv
      <4>. QED
        BY <4>2, <4>3
    <3>3. CASE /\ k.kind = "restore" /\ GoesOn(k, "work") /\ ~executing /\ ~restoring
               /\ restoring' = TRUE /\ UNCHANGED <<executing, toApp>>
      <4>1. PICK k1 \in Tasks : k1.kind = k.kind /\ k1.text = k.text /\ k1.phase = "work" /\ tasks' = tasks \cup {k1}
        BY <2>3, <3>3 DEF GoesOn
      <4>. QED
        BY <1>2, <1>3, <1>4, <3>3, <4>1, ControlRestoreArrives DEF Inv
    <3>4. CASE /\ k.kind # "restore" /\ GoesOn(k, "begin") /\ ~executing /\ ~restoring
               /\ executing' = TRUE /\ UNCHANGED <<restoring, toApp>>
      <4>1. PICK k1 \in Tasks : k1.kind = k.kind /\ k1.text = k.text /\ k1.phase = "begin" /\ tasks' = tasks \cup {k1}
        BY <2>3, <3>4 DEF GoesOn
      <4>2. c.do \in TurnKinds /\ k1.kind = c.do /\ k1.text = c.text /\ k1.phase \in Before /\ k1.phase # "configure"
        BY <1>3, <1>6, <3>4, <4>1 DEF TurnKinds, Before
      <4>. QED
        BY <1>2, <1>4, <3>4, <4>1, <4>2, ControlTurnArrives DEF Inv
    <3>. QED
      BY <1>6, <2>1, <3>1, <3>2, <3>3, <3>4, EntersIs DEF Inv
  <2>. QED
    BY <1>1, <1>2, <1>5, <2>4, <2>5, RuntimeKeeps
<1>7. CASE /\ c.do \in OpKinds \cup {"goal"}
           /\ tasks' = tasks \cup {IF c.do = "goal" THEN In(k, "configure") ELSE k}
           /\ UNCHANGED <<executing, restoring, interrupted, toApp>>
  <2>1. k \in Tasks
    <3>1. c.do \in TurnKinds \cup OpKinds \cup {"restore"} /\ c.text \in Texts /\ "work" \in Phases
      BY <1>3, <1>7 DEF Calls, TurnKinds, Phases
    <3>. QED
      BY <3>1 DEF Tasks
  <2>2. PICK k1 : k1 = IF c.do = "goal" THEN In(k, "configure") ELSE k
    OBVIOUS
  <2>3. k1 \in Tasks /\ k1.kind = c.do /\ k1.text = c.text /\ k1.phase = IF c.do = "goal" THEN "configure" ELSE "work"
    <3>1. "configure" \in Phases
      BY DEF Phases
    <3>. QED
      BY <1>3, <2>1, <2>2, <3>1, InIs
  <2>4. tasks' = tasks \cup {k1} /\ tasks' \subseteq Tasks
    BY <1>7, <2>2, <2>3 DEF Inv, TurnsTypeOK
  <2>5. Control' /\ LedgerApart' /\ Flight' = Flight /\ Closed' = Closed
    <3>1. CASE c.do \in OpKinds
      BY <1>2, <1>4, <1>7, <2>3, <2>4, <3>1, ControlOpArrives DEF Inv, OpKinds
    <3>2. CASE c.do = "goal"
      <4>1. c.do \in TurnKinds /\ k1.phase \in Before /\ k1.phase # "begin"
        BY <2>3, <3>2 DEF TurnKinds, Before
      <4>. QED
        BY <1>2, <1>4, <1>7, <2>3, <2>4, <3>2, <4>1, ControlTurnArrives DEF Inv
    <3>. QED
      BY <1>7, <3>1, <3>2
  <2>6. toApp' \in Seq(Events) /\ {executing', restoring', interrupted'} \subseteq BOOLEAN
    BY <1>7 DEF Inv, TurnsTypeOK
  <2>. QED
    BY <1>1, <1>2, <1>5, <2>4, <2>5, <2>6, RuntimeKeeps
<1>8. CASE /\ c.do = "interrupt" /\ interrupted' = (interrupted \/ executing)
           /\ UNCHANGED <<tasks, executing, restoring, toApp>>
  <2>1. Control' /\ LedgerApart' /\ Flight' = Flight /\ Closed' = Closed
    BY <1>2, <1>4, <1>8, ControlInterrupted DEF Inv
  <2>2. toApp' \in Seq(Events) /\ tasks' \subseteq Tasks /\ {executing', restoring'} \subseteq BOOLEAN
    BY <1>8 DEF Inv, TurnsTypeOK
  <2>3. interrupted' \in BOOLEAN
    BY <1>8
  <2>. QED
    BY <1>1, <1>2, <1>5, <2>1, <2>2, <2>3, RuntimeKeeps
<1>9. CASE /\ c.do = "cancel" /\ tasks' = {j \in tasks : j.kind # c.op}
           /\ UNCHANGED <<executing, restoring, interrupted, toApp>>
  <2>1. Control' /\ LedgerApart' /\ Flight' = Flight /\ Closed' = Closed
    BY <1>2, <1>4, <1>9, ControlCancelArrives DEF Inv
  <2>2. toApp' \in Seq(Events) /\ tasks' \subseteq Tasks /\ {executing', restoring', interrupted'} \subseteq BOOLEAN
    BY <1>9 DEF Inv, TurnsTypeOK
  <2>. QED
    BY <1>1, <1>2, <1>5, <2>1, <2>2, RuntimeKeeps
<1>. QED
  BY <1>2, <1>6, <1>7, <1>8, <1>9 DEF Receives

\* What a task's phase says of it.
LEMMA PhaseIs ==
  ASSUME TurnsTypeOK, Control, NEW k \in tasks
  PROVE  /\ k \in Tasks
         /\ k.phase = "configure" => k.kind \in TurnKinds /\ k.kind = "goal"
         /\ k.phase = "retry" => k.kind \in TurnKinds \/ k.kind = "restore"
         /\ k.phase \in {"begin", "run", "finish"} => k.kind \in TurnKinds
         /\ k.kind \in TurnKinds => k.kind # "restore"
<1>1. k \in Tasks
  BY DEF TurnsTypeOK
<1>2. k.kind \in TurnKinds \cup OpKinds \cup {"restore"}
  BY <1>1 DEF Tasks
<1>. QED
  BY <1>1, <1>2 DEF Control, ShapedTasks, TurnKinds

\* The ways in, for a task that is there.
LEMMA ControlGivenUp ==
  ASSUME Inv, NEW k \in tasks, k.phase \in {"configure", "retry"}, GivenUp(k),
         UNCHANGED <<executing, restoring>>, UNCHANGED Fences, UNCHANGED toRuntime, UNCHANGED <<ledger, target>>
  PROVE  Control' /\ LedgerApart' /\ Flight' = Flight /\ Closed' = Closed
<1>1. PICK e \in Events : /\ Gains(toApp, toApp', e) /\ e.do = k.kind
                          /\ k.kind # "restore" => e.text = k.text /\ ~e.ok /\ e.begun = (k.phase = "finish")
                          /\ tasks' = tasks \ {k}
  BY DEF GivenUp
<1>2. k.kind \in TurnKinds \/ (k.kind = "restore" /\ k.phase = "retry")
  <2>1. TurnsTypeOK /\ Control
    BY DEF Inv
  <2>2. /\ k.phase = "configure" => k.kind \in TurnKinds
        /\ k.phase = "retry" => k.kind \in TurnKinds \/ k.kind = "restore"
    BY <2>1, PhaseIs
  <2>. QED
    BY <2>2
<1>3. CASE k.kind \in TurnKinds
  <2>1. k.phase \in Before /\ k.phase # "begin" /\ e.text = k.text /\ ~e.ok /\ ~e.begun
    BY <1>1, <1>3, PhaseIs DEF Inv, Before
  <2>. QED
    BY <1>1, <1>3, <2>1, ControlTurnGivenUp DEF Inv
<1>4. CASE k.kind = "restore" /\ k.phase = "retry"
  BY <1>1, <1>4, ControlRestoreEnds DEF Inv
<1>. QED
  BY <1>2, <1>3, <1>4

LEMMA ControlGoesOn ==
  ASSUME Inv, NEW k \in tasks, k.phase \in {"configure", "retry"}, UNCHANGED toApp,
         \/ k.kind # "restore" /\ GoesOn(k, "retry") /\ UNCHANGED <<executing, restoring>>
         \/ /\ ~executing /\ ~restoring
            /\ \/ k.kind = "restore" /\ GoesOn(k, "work") /\ restoring' = TRUE /\ UNCHANGED executing
               \/ k.kind # "restore" /\ GoesOn(k, "begin") /\ executing' = TRUE /\ UNCHANGED restoring,
         UNCHANGED Fences, UNCHANGED toRuntime, UNCHANGED <<ledger, target>>
  PROVE  Control' /\ LedgerApart' /\ Flight' = Flight /\ Closed' = Closed
<1>1. CASE k.kind # "restore" /\ GoesOn(k, "retry") /\ UNCHANGED <<executing, restoring>>
  <2>1. PICK k1 \in Tasks : /\ k1.kind = k.kind /\ k1.text = k.text /\ k1.phase = "retry"
                            /\ tasks' = (tasks \ {k}) \cup {k1}
    BY <1>1 DEF GoesOn
  <2>2. k.kind \in TurnKinds /\ k.phase \in Before \ {"begin"} /\ k1.phase \in Before \ {"configure"}
        /\ k1.phase # "begin"
    BY <1>1, <2>1, PhaseIs DEF Inv, Before
  <2>. QED
    BY <1>1, <2>1, <2>2, ControlTurnMoves DEF Inv
<1>2. CASE /\ k.kind = "restore" /\ GoesOn(k, "work") /\ restoring' = TRUE /\ UNCHANGED executing
           /\ ~executing /\ ~restoring
  <2>1. PICK k1 \in Tasks : /\ k1.kind = k.kind /\ k1.text = k.text /\ k1.phase = "work"
                            /\ tasks' = (tasks \ {k}) \cup {k1}
    BY <1>2 DEF GoesOn
  <2>2. k.phase = "retry"
    BY <1>2, PhaseIs DEF Inv
  <2>. QED
    BY <1>2, <2>1, <2>2, ControlRestoreMoves DEF Inv
<1>3. CASE /\ k.kind # "restore" /\ GoesOn(k, "begin") /\ executing' = TRUE /\ UNCHANGED restoring
           /\ ~executing /\ ~restoring
  <2>1. PICK k1 \in Tasks : /\ k1.kind = k.kind /\ k1.text = k.text /\ k1.phase = "begin"
                            /\ tasks' = (tasks \ {k}) \cup {k1}
    BY <1>3 DEF GoesOn
  <2>2. k.kind \in TurnKinds /\ k.phase \in Before \ {"begin"} /\ k1.phase \in Before \ {"configure"}
    BY <1>3, <2>1, PhaseIs DEF Inv, Before
  <2>. QED
    BY <1>3, <2>1, <2>2, ControlTurnMoves DEF Inv
<1>. QED
  BY <1>1, <1>2, <1>3

LEMMA InvGoalConfigured == ASSUME Inv, NEW k \in tasks, GoalConfigured(k) PROVE Inv'
<1>1. /\ k.phase = "configure" /\ UNCHANGED <<drafts, posted, fences, ledger, toRuntime, caps>>
      /\ UNCHANGED <<queues, recovery, past>>
  BY DEF GoalConfigured, Runs
<1>2. k \in Tasks /\ k.kind # "restore"
  BY <1>1, PhaseIs DEF Inv
<1>3. UNCHANGED Fences /\ UNCHANGED <<ledger, target>>
  BY <1>1 DEF Fences, fences, caps
<1>4. toRuntime' \in Seq(Calls) /\ recovery' \in BOOLEAN
  BY <1>1 DEF Inv, TurnsTypeOK
<1>5. CASE Refused(k) /\ UNCHANGED <<executing, restoring, interrupted>>
  <2>1. toApp' \in Seq(Events) /\ tasks' \subseteq Tasks /\ GivenUp(k)
    BY <1>2, <1>5, RefusedIs DEF Inv
  <2>2. {executing', restoring', interrupted'} \subseteq BOOLEAN
    BY <1>5 DEF Inv, TurnsTypeOK
  <2>3. Control' /\ LedgerApart' /\ Flight' = Flight /\ Closed' = Closed
    BY <1>1, <1>3, <1>5, <2>1, ControlGivenUp
  <2>. QED
    BY <1>1, <1>4, <2>1, <2>2, <2>3, RuntimeKeeps
<1>6. CASE Enters(k)
  <2>1. /\ toApp' \in Seq(Events) /\ tasks' \subseteq Tasks
        /\ {executing', restoring', interrupted'} \subseteq BOOLEAN
    BY <1>2, <1>6, EntersIs DEF Inv
  <2>2. \/ GivenUp(k) /\ UNCHANGED <<executing, restoring>>
        \/ GoesOn(k, "retry") /\ UNCHANGED <<executing, restoring, toApp>>
        \/ /\ ~executing /\ ~restoring /\ UNCHANGED toApp
           /\ GoesOn(k, "begin") /\ executing' = TRUE /\ UNCHANGED restoring
    BY <1>2, <1>6, EntersIs DEF Inv
  <2>3. Control' /\ LedgerApart' /\ Flight' = Flight /\ Closed' = Closed
    BY <1>1, <1>2, <1>3, <2>2, ControlGivenUp, ControlGoesOn
  <2>. QED
    BY <1>1, <1>4, <2>1, <2>3, RuntimeKeeps
<1>. QED
  BY <1>5, <1>6 DEF GoalConfigured

LEMMA InvRecoveryEnds == ASSUME Inv, NEW k \in tasks, RecoveryEnds(k) PROVE Inv'
<1>1. /\ k.phase = "retry" /\ UNCHANGED <<drafts, posted, fences, ledger, toRuntime, caps>>
      /\ UNCHANGED <<queues, past>>
  BY DEF RecoveryEnds, Runs
<1>2. k \in Tasks
  BY PhaseIs DEF Inv
<1>3. UNCHANGED Fences /\ UNCHANGED <<ledger, target>>
  BY <1>1 DEF Fences, fences, caps
<1>4. toRuntime' \in Seq(Calls)
  BY <1>1 DEF Inv, TurnsTypeOK
<1>5. CASE Refused(k) /\ UNCHANGED <<executing, restoring, interrupted, recovery>>
  <2>1. toApp' \in Seq(Events) /\ tasks' \subseteq Tasks /\ GivenUp(k)
    BY <1>2, <1>5, RefusedIs DEF Inv
  <2>2. {executing', restoring', recovery', interrupted'} \subseteq BOOLEAN
    BY <1>5 DEF Inv, TurnsTypeOK
  <2>3. Control' /\ LedgerApart' /\ Flight' = Flight /\ Closed' = Closed
    BY <1>1, <1>3, <1>5, <2>1, ControlGivenUp
  <2>. QED
    BY <1>1, <1>4, <2>1, <2>2, <2>3, RuntimeKeeps
<1>6. CASE recovery' = FALSE /\ Admit(k)
  <2>1. /\ toApp' \in Seq(Events) /\ tasks' \subseteq Tasks
        /\ {executing', restoring', recovery', interrupted'} \subseteq BOOLEAN
    BY <1>2, <1>6, AdmitIs DEF Inv
  <2>2. \/ GivenUp(k) /\ UNCHANGED <<executing, restoring>>
        \/ /\ ~executing /\ ~restoring /\ UNCHANGED toApp
           /\ \/ k.kind = "restore" /\ GoesOn(k, "work") /\ restoring' = TRUE /\ UNCHANGED executing
              \/ k.kind # "restore" /\ GoesOn(k, "begin") /\ executing' = TRUE /\ UNCHANGED restoring
    BY <1>2, <1>6, AdmitIs DEF Inv
  <2>3. Control' /\ LedgerApart' /\ Flight' = Flight /\ Closed' = Closed
    BY <1>1, <1>3, <2>2, ControlGivenUp, ControlGoesOn
  <2>. QED
    BY <1>1, <1>4, <2>1, <2>3, RuntimeKeeps
<1>. QED
  BY <1>5, <1>6 DEF RecoveryEnds

LEMMA InvTurnEnds == ASSUME Inv, NEW k \in tasks, TurnEnds(k) PROVE Inv'
<1>1. /\ k.phase = "run" /\ executing' = FALSE /\ Moves(k, "finish")
      /\ UNCHANGED <<drafts, posted, fences, ledger, toRuntime, caps>>
      /\ UNCHANGED <<queues, toApp, restoring, recovery, interrupted, past>>
  BY DEF TurnEnds, Runs
<1>2. k \in Tasks /\ k.kind \in TurnKinds
  BY <1>1, PhaseIs DEF Inv
<1>3. GoesOn(k, "finish") /\ tasks' \subseteq Tasks
  BY <1>1, <1>2, GoesOnIs DEF Inv, Moves, Phases
<1>4. PICK k1 \in Tasks : /\ k1.kind = k.kind /\ k1.text = k.text /\ k1.phase = "finish"
                          /\ tasks' = (tasks \ {k}) \cup {k1}
  BY <1>3 DEF GoesOn
<1>5. UNCHANGED Fences /\ UNCHANGED <<ledger, target>>
  BY <1>1 DEF Fences, fences, caps
<1>6. Control' /\ LedgerApart' /\ Flight' = Flight /\ Closed' = Closed
  BY <1>1, <1>2, <1>4, <1>5, ControlTurnEnds DEF Inv
<1>7. /\ toRuntime' \in Seq(Calls) /\ toApp' \in Seq(Events)
      /\ {executing', restoring', recovery', interrupted'} \subseteq BOOLEAN
  BY <1>1 DEF Inv, TurnsTypeOK
<1>. QED
  BY <1>1, <1>3, <1>6, <1>7, RuntimeKeeps

LEMMA InvTurnCloses == ASSUME Inv, NEW k \in tasks, TurnCloses(k) PROVE Inv'
<1>1. /\ k.phase = "finish" /\ tasks' = tasks \ {k} /\ interrupted' = FALSE
      /\ UNCHANGED <<drafts, posted, fences, ledger, toRuntime, caps>>
      /\ UNCHANGED <<queues, executing, restoring, recovery, past>>
  BY DEF TurnCloses, Runs
<1>2. PICK ok \in BOOLEAN : toApp' = toApp \o <<[do |-> "complete", text |-> k.text], Result(k, ok)>>
  BY DEF TurnCloses, Says
<1>3. k \in Tasks /\ k.kind \in TurnKinds /\ k.kind # "restore"
  BY <1>1, PhaseIs DEF Inv
<1>. PICK d : d = [do |-> "complete", text |-> k.text]
  OBVIOUS
<1>. PICK e : e = Result(k, ok)
  OBVIOUS
<1>. PICK q : q = toApp
  OBVIOUS
<1>4. d \in Events /\ d.do = "complete"
  <2>1. k.text \in Texts
    BY <1>3 DEF Tasks
  <2>. QED
    BY <2>1 DEF Events
<1>5. e \in Events /\ e.do = k.kind /\ e.text = k.text /\ e.begun
  BY <1>1, <1>3, ResultIs
<1>6. q \in Seq(Events)
  BY DEF Inv, TurnsTypeOK
<1>. PICK mid : mid = Append(q, d)
  OBVIOUS
<1>7. mid \in Seq(Events) /\ Gains(q, mid, d)
  BY <1>4, <1>6, GainsIs
<1>8. Append(mid, e) \in Seq(Events) /\ Gains(mid, Append(mid, e), e)
  BY <1>5, <1>7, GainsIs
<1>9. q \o <<d, e>> = Append(mid, e)
  BY <1>4, <1>5, <1>6
<1>10. toApp' \in Seq(Events) /\ Gains(toApp, mid, d) /\ Gains(mid, toApp', e)
  BY <1>2, <1>7, <1>8, <1>9
<1>11. UNCHANGED Fences /\ UNCHANGED <<ledger, target>>
  BY <1>1 DEF Fences, fences, caps
<1>12. Control' /\ LedgerApart' /\ Flight' = Flight /\ Closed' = Closed
  BY <1>1, <1>3, <1>4, <1>5, <1>10, <1>11, ControlTurnCloses DEF Inv
<1>13. /\ toRuntime' \in Seq(Calls) /\ tasks' \subseteq Tasks
       /\ {executing', restoring', recovery', interrupted'} \subseteq BOOLEAN
  BY <1>1 DEF Inv, TurnsTypeOK
<1>. QED
  BY <1>1, <1>10, <1>12, <1>13, RuntimeKeeps

LEMMA InvOpEnds == ASSUME Inv, NEW k \in tasks, OpEnds(k) PROVE Inv'
<1>1. /\ k.kind \in OpKinds /\ tasks' = tasks \ {k}
      /\ UNCHANGED <<drafts, posted, fences, ledger, toRuntime, caps>>
      /\ UNCHANGED <<queues, executing, restoring, recovery, interrupted, past>>
  BY DEF OpEnds, Runs
<1>2. PICK ok \in BOOLEAN :
        Says(IF \E i \in DOMAIN toRuntime : toRuntime[i].do = "cancel" /\ toRuntime[i].op = k.kind
             THEN << >> ELSE <<Result(k, ok)>>)
  BY DEF OpEnds
<1>3. k \in Tasks /\ k.kind # "restore"
  BY <1>1, PhaseIs DEF Inv, OpKinds
<1>4. UNCHANGED Fences /\ UNCHANGED <<ledger, target>>
  BY <1>1 DEF Fences, fences, caps
<1>5. Control' /\ LedgerApart' /\ Flight' = Flight /\ Closed' = Closed /\ toApp' \in Seq(Events)
  <2>1. CASE Cancelled(k.kind)
    <3>1. toApp' = toApp \o << >>
      BY <1>2, <2>1 DEF Cancelled, Cancels, Says
    <3>2. toApp \in Seq(Events)
      BY DEF Inv, TurnsTypeOK
    <3>3. toApp' = toApp
      BY <3>1, <3>2
    <3>. QED
      BY <1>1, <1>4, <3>2, <3>3, ControlOpUnheard DEF Inv
  <2>2. CASE ~Cancelled(k.kind)
    <3>. PICK e : e = Result(k, ok)
      OBVIOUS
    <3>1. e \in Events /\ e.do = k.kind
      BY <1>3, ResultIs
    <3>2. Says(<<e>>)
      BY <1>2, <2>2 DEF Cancelled, Cancels
    <3>3. toApp' \in Seq(Events) /\ Gains(toApp, toApp', e)
      BY <3>1, <3>2, SaysIs DEF Inv
    <3>. QED
      BY <1>1, <1>4, <2>2, <3>1, <3>3, ControlOpEnds DEF Inv
  <2>. QED
    BY <2>1, <2>2
<1>6. /\ toRuntime' \in Seq(Calls) /\ tasks' \subseteq Tasks
      /\ {executing', restoring', recovery', interrupted'} \subseteq BOOLEAN
  BY <1>1 DEF Inv, TurnsTypeOK
<1>. QED
  BY <1>1, <1>5, <1>6, RuntimeKeeps

LEMMA InvRestoreEnds == ASSUME Inv, NEW k \in tasks, RestoreEnds(k) PROVE Inv'
<1>1. /\ k.phase = "work" /\ k.kind = "restore" /\ tasks' = tasks \ {k} /\ restoring' = FALSE
      /\ UNCHANGED <<drafts, posted, fences, ledger, toRuntime, caps>>
      /\ UNCHANGED <<queues, executing, interrupted, past>>
  BY DEF RestoreEnds, Runs
<1>2. PICK conversation, ok \in BOOLEAN :
        /\ Says(<<RestoreResult(conversation, ok)>>)
        /\ recovery' \in IF conversation /\ ~ok THEN BOOLEAN ELSE {recovery}
  BY DEF RestoreEnds
<1>. PICK e : e = RestoreResult(conversation, ok)
  OBVIOUS
<1>3. e \in Events /\ e.do = "restore"
  BY RestoreResultIs
<1>4. toApp' \in Seq(Events) /\ Gains(toApp, toApp', e)
  BY <1>2, <1>3, SaysIs DEF Inv
<1>5. UNCHANGED Fences /\ UNCHANGED <<ledger, target>>
  BY <1>1 DEF Fences, fences, caps
<1>6. Control' /\ LedgerApart' /\ Flight' = Flight /\ Closed' = Closed
  BY <1>1, <1>3, <1>4, <1>5, ControlRestoreEnds DEF Inv
<1>7. recovery' \in BOOLEAN
  BY <1>2 DEF Inv, TurnsTypeOK
<1>8. /\ toRuntime' \in Seq(Calls) /\ tasks' \subseteq Tasks /\ {executing', restoring', interrupted'} \subseteq BOOLEAN
  BY <1>1 DEF Inv, TurnsTypeOK
<1>. QED
  BY <1>1, <1>4, <1>6, <1>7, <1>8, RuntimeKeeps

\* The prompt is announced: its text is a turn's from here on.
LEMMA InvTurnBegins == ASSUME Inv, NEW k \in tasks, TurnBegins(k) PROVE Inv'
<1>1. /\ k.phase = "begin" /\ UNCHANGED <<drafts, posted, fences, ledger, toRuntime, caps>>
      /\ UNCHANGED <<queues, restoring, interrupted, recovery, ended, stale>>
  BY DEF TurnBegins, Runs
<1>2. k \in Tasks /\ k.kind \in TurnKinds /\ k.kind # "restore"
  BY <1>1, PhaseIs DEF Inv
<1>3. UNCHANGED Fences /\ UNCHANGED <<ledger, target>>
  BY <1>1 DEF Fences, fences, caps
<1>4. CASE executing' = FALSE /\ Refused(k) /\ UNCHANGED runs
  <2>1. toApp' \in Seq(Events) /\ tasks' \subseteq Tasks /\ GivenUp(k)
    BY <1>2, <1>4, RefusedIs DEF Inv
  <2>2. PICK e \in Events : /\ Gains(toApp, toApp', e) /\ e.do = k.kind
                            /\ k.kind # "restore" => e.text = k.text /\ ~e.ok /\ e.begun = (k.phase = "finish")
                            /\ tasks' = tasks \ {k}
    BY <2>1 DEF GivenUp
  <2>3. e.text = k.text /\ ~e.ok /\ ~e.begun /\ k.phase \in Before
    BY <1>1, <1>2, <2>2 DEF Before
  <2>4. Control' /\ LedgerApart' /\ Flight' = Flight /\ Closed' = Closed
    BY <1>1, <1>2, <1>3, <1>4, <2>2, <2>3, ControlTurnGivenUp DEF Inv
  <2>5. toRuntime' \in Seq(Calls) /\ {executing', restoring', recovery', interrupted'} \subseteq BOOLEAN
    BY <1>1, <1>4 DEF Inv, TurnsTypeOK
  <2>. QED
    BY <1>1, <1>4, <2>1, <2>4, <2>5, RuntimeKeeps DEF past
<1>5. CASE /\ Moves(k, "run") /\ UNCHANGED executing
           /\ runs' = [m \in Msgs |-> IF m \in k.text THEN runs[m] + 1 ELSE runs[m]]
           /\ Says(<<[do |-> "submitted", text |-> k.text]>>)
  <2>1. GoesOn(k, "run") /\ tasks' \subseteq Tasks
    BY <1>2, <1>5, GoesOnIs DEF Inv, Moves, Phases
  <2>2. PICK k1 \in Tasks : /\ k1.kind = k.kind /\ k1.text = k.text /\ k1.phase = "run"
                            /\ tasks' = (tasks \ {k}) \cup {k1}
    BY <2>1 DEF GoesOn
  <2>. PICK e : e = [do |-> "submitted", text |-> k.text]
    OBVIOUS
  <2>3. e \in Events /\ e.do = "submitted" /\ e.text = k.text
    <3>1. k.text \in Texts
      BY <1>2 DEF Tasks
    <3>. QED
      BY <3>1 DEF Events
  <2>4. toApp' \in Seq(Events) /\ Gains(toApp, toApp', e)
    BY <1>5, <2>3, SaysIs DEF Inv
  <2>5. Control' /\ LedgerApart' /\ Flight' = Flight \ k.text /\ Closed' = Closed \cup k.text
    BY <1>1, <1>2, <1>3, <1>5, <2>2, <2>3, <2>4, ControlTurnBegins DEF Inv
  <2>6. k.text \subseteq Flight
    <3>1. k.text \subseteq Pieces
      BY <1>2 DEF Tasks, Texts, Pieces
    <3>. QED
      BY <1>1, <3>1 DEF Flight, Before
  <2>7. Filed' = Filed /\ Posted' = Posted
    BY <1>1, FiledSame, PostedSame DEF drafts
  <2>8. Aimed'
    BY <1>1 DEF Inv, Sorted, Aimed, Restoring, fences
  <2>9. ShapedTexts' /\ FiledApart'
    BY <1>1 DEF Inv, ShapedTexts, FiledApart, drafts
  <2>10. Spread'
    BY <1>1, <2>5, <2>6, <2>7 DEF Inv, Sorted, Spread, drafts, queues
  <2>11. \A m \in Msgs : m \in k.text => runs[m] = 0
    BY <2>6 DEF Inv, Tally, Open
  <2>12. runs' \in [Msgs -> Nat]
    <3>1. runs \in [Msgs -> Nat]
      BY DEF Inv, TurnsTypeOK
    <3>. QED
      BY <1>5, <3>1
  <2>13. TurnsTypeOK'
    BY <1>1, <1>5, <2>1, <2>4, <2>12 DEF Inv, TurnsTypeOK, drafts, fences, queues, caps
  <2>14. Tally'
    <3>1. Open \cup Closed = Open' \cup Closed'
      BY <1>1, <2>5, <2>6, <2>7 DEF Open, drafts, queues
    <3>2. goals' = 0 => Goal \notin Open' \cup Closed'
      BY <1>1, <3>1 DEF Inv, Tally, caps
    <3>3. \A m \in Msgs : m \in Open' \cup Closed' \cup ended' => m <= written'
      BY <1>1, <3>1 DEF Inv, Tally, caps
    <3>4. ASSUME NEW m \in Msgs
          PROVE  /\ runs'[m] \in {0, 1}
                 /\ m \in Closed' => runs'[m] = 1
                 /\ runs'[m] = 1 => m \notin Open' \cup ended' /\ m <= written'
                 /\ m <= written' /\ runs'[m] = 0 => m \in Open' \cup ended'
      <4>1. CASE m \in k.text
        <5>1. runs'[m] = 1
          BY <1>5, <2>11, <4>1
        <5>2. m \notin ended /\ m \notin composer \cup Filed \cup Posted \cup slot \cup steer
          BY <2>6, <4>1 DEF Inv, Sorted, Spread
        <5>3. m <= written
          BY <2>6, <4>1 DEF Inv, Tally, Open
        <5>4. m \notin Open' \cup ended'
          BY <1>1, <2>5, <2>7, <4>1, <5>2 DEF Open, drafts, queues
        <5>. QED
          BY <1>1, <5>1, <5>3, <5>4 DEF caps
      <4>2. CASE m \notin k.text
        <5>1. runs'[m] = runs[m]
          BY <1>5, <4>2
        <5>2. (m \in Open' <=> m \in Open) /\ (m \in Closed' <=> m \in Closed)
          BY <1>1, <2>5, <2>7, <4>2 DEF Open, drafts, queues
        <5>. QED
          BY <1>1, <5>1, <5>2 DEF Inv, Tally, caps
      <4>. QED
        BY <4>1, <4>2
    <3>. QED
      BY <3>2, <3>3, <3>4 DEF Tally
  <2>. QED
    BY <2>5, <2>8, <2>9, <2>10, <2>13, <2>14 DEF Inv, Sorted
<1>. QED
  BY <1>4, <1>5 DEF TurnBegins

LEMMA GoalApart == Goal \notin Msgs
<1>1. Goal \notin Nat /\ MaxMsgs \in Nat
  BY TurnsAssumption
<1>2. Msgs \subseteq Nat
  BY <1>1 DEF Msgs
<1>. QED
  BY <1>1, <1>2

\* A text comes to the application: it is submitted, queued, or goes back to the composer.
Elsewhere == composer \cup Filed \cup slot \cup steer \cup Flight \cup ended
Takes(t) ==
  /\ Control' /\ LedgerApart' /\ Aimed' /\ Spread' /\ FiledApart' /\ {} \notin stashed' /\ Closed' = Closed
  /\ {composer', slot', steer', admission'} \cup stashed' \subseteq Texts
  /\ toRuntime' \in Seq(Calls) /\ ended' \subseteq Msgs
  /\ \A m \in Msgs : m \in Open' \cup ended' <=> m \in Elsewhere \cup Posted' \cup t
  /\ Goal \in Open' => Goal \in Elsewhere \cup Posted' \cup t

LEMMA RestorePromptIs ==
  ASSUME Inv, NEW t \in Texts, t # {}, RestorePrompt(t)
  PROVE  /\ composer' = t /\ Filed' = Filed \cup composer /\ FiledApart' /\ {} \notin stashed'
         /\ {composer'} \cup stashed' \subseteq Texts
<1>1. composer' = t /\ stashed' = IF composer = {} THEN stashed ELSE stashed \cup {composer}
  BY DEF RestorePrompt
<1>2. Filed' = Filed \cup composer
  BY <1>1, FiledGains, FiledSame
<1>3. FiledApart'
  <2>1. \A u \in stashed : u \subseteq Filed
    BY DEF Filed
  <2>2. composer \cap Filed = {}
    BY DEF Inv, Sorted, Spread
  <2>. QED
    BY <1>1, <2>1, <2>2 DEF Inv, FiledApart
<1>4. {} \notin stashed'
  BY <1>1 DEF Inv, ShapedTexts
<1>5. {composer'} \cup stashed' \subseteq Texts
  BY <1>1 DEF Inv, TurnsTypeOK
<1>. QED
  BY <1>1, <1>2, <1>3, <1>4, <1>5

LEMMA SubmitTakes ==
  ASSUME Inv, NEW t \in Texts, t # {}, SubmitPrompt(t), t \cap (Elsewhere \cup Posted' \cup Closed) = {},
         Posted' \subseteq Posted,
         UNCHANGED <<queues, turnActive, drainDue, goalPending, operation, restore, target,
                     ledger, toApp, runtime, goals, past>>
  PROVE  Takes(t)
<1>1. Aimed' /\ ended' \subseteq Msgs
  BY DEF Inv, TurnsTypeOK, Sorted, Aimed, Restoring, past
<1>2. ASSUME UNCHANGED <<admission, toRuntime>>
      PROVE  /\ Control' /\ LedgerApart' /\ Flight' = Flight /\ Closed' = Closed
             /\ toRuntime' \in Seq(Calls) /\ {slot', steer', admission'} \subseteq Texts
  <2>1. UNCHANGED Fences /\ UNCHANGED Traffic
    BY <1>2 DEF Fences, Traffic, runtime
  <2>2. toRuntime' \in Seq(Calls) /\ {slot', steer', admission'} \subseteq Texts
    BY <1>2 DEF Inv, TurnsTypeOK, queues
  <2>. QED
    BY <2>1, <2>2, PlacesQuiet DEF Inv
<1>3. CASE RestorePrompt(t) /\ UNCHANGED <<admission, toRuntime>>
  <2>1. /\ composer' = t /\ Filed' = Filed \cup composer /\ FiledApart' /\ {} \notin stashed'
        /\ {composer'} \cup stashed' \subseteq Texts
    BY <1>3, RestorePromptIs
  <2>2. /\ Control' /\ LedgerApart' /\ Flight' = Flight /\ Closed' = Closed
        /\ toRuntime' \in Seq(Calls) /\ {slot', steer', admission'} \subseteq Texts
    BY <1>2, <1>3
  <2>3. Spread'
    BY <2>1, <2>2 DEF Inv, Sorted, Spread, Elsewhere, queues, past
  <2>4. \A m : m \in Open' \cup ended' <=> m \in Elsewhere \cup Posted' \cup t
    BY <2>1, <2>2 DEF Open, Elsewhere, queues, past
  <2>5. {composer', slot', steer', admission'} \cup stashed' \subseteq Texts
    BY <2>1, <2>2
  <2>. QED
    BY <1>1, <2>1, <2>2, <2>3, <2>4, <2>5 DEF Takes
<1>4. CASE composer' = composer \cup t /\ UNCHANGED <<stashed, admission, toRuntime>>
  <2>1. Filed' = Filed /\ FiledApart' /\ {} \notin stashed'
    BY <1>4, FiledSame DEF Inv, FiledApart, ShapedTexts
  <2>2. /\ Control' /\ LedgerApart' /\ Flight' = Flight /\ Closed' = Closed
        /\ toRuntime' \in Seq(Calls) /\ {slot', steer', admission'} \subseteq Texts
    BY <1>2, <1>4
  <2>3. Spread'
    BY <1>4, <2>1, <2>2 DEF Inv, Sorted, Spread, Elsewhere, queues, past
  <2>4. \A m : m \in Open' \cup ended' <=> m \in Elsewhere \cup Posted' \cup t
    BY <1>4, <2>1, <2>2 DEF Open, Elsewhere, queues, past
  <2>5. {composer', slot', steer', admission'} \cup stashed' \subseteq Texts
    <3>1. composer' \in Texts /\ stashed' \subseteq Texts
      BY <1>4 DEF Inv, TurnsTypeOK, Texts
    <3>. QED
      BY <2>2, <3>1
  <2>. QED
    BY <1>1, <2>1, <2>2, <2>3, <2>4, <2>5 DEF Takes
<1>5. CASE /\ operation = "no" /\ ~goalPending /\ admission = {} /\ ~turnActive
           /\ admission' = t /\ Posts(Call("prompt", t)) /\ UNCHANGED drafts
  <2>1. UNCHANGED <<turnActive, goalPending, operation, restore, goals, toApp, tasks, executing, restoring, ledger, target>>
    BY DEF runtime
  <2>2. Control' /\ LedgerApart' /\ Flight' = Flight \cup t /\ Closed' = Closed
    BY <1>5, <2>1, ControlOpens DEF Inv
  <2>3. toRuntime' \in Seq(Calls)
    <3>1. Call("prompt", t) \in Calls
      BY CallIs DEF TurnKinds
    <3>. QED
      BY <1>5, <3>1, PostsIs DEF Inv
  <2>4. Filed' = Filed /\ FiledApart' /\ {} \notin stashed' /\ composer' = composer
    BY <1>5, FiledSame DEF Inv, FiledApart, ShapedTexts, drafts
  <2>5. Spread'
    BY <2>2, <2>4 DEF Inv, Sorted, Spread, Elsewhere, queues, past
  <2>6. \A m : m \in Open' \cup ended' <=> m \in Elsewhere \cup Posted' \cup t
    BY <2>2, <2>4 DEF Open, Elsewhere, queues, past
  <2>7. {composer', slot', steer', admission'} \cup stashed' \subseteq Texts
    <3>1. {composer', slot', steer'} \cup stashed' \subseteq Texts
      BY <1>5 DEF Inv, TurnsTypeOK, drafts, queues
    <3>. QED
      BY <1>5, <3>1
  <2>. QED
    BY <1>1, <2>2, <2>3, <2>4, <2>5, <2>6, <2>7 DEF Takes
<1>. QED
  BY <1>3, <1>4, <1>5 DEF SubmitPrompt, ContextOp, Restoring

LEMMA QueueTakes ==
  ASSUME Inv, NEW t \in Texts, QueueMessage(t), t \cap (Elsewhere \cup Posted' \cup Closed) = {},
         Posted' \subseteq Posted,
         UNCHANGED <<drafts, admission, toRuntime, steer, turnActive, drainDue, goalPending, operation, restore,
                     target, ledger, toApp, runtime, goals, runs, stale>>
  PROVE  Takes(t)
<1>1. slot' = t /\ ended' = ended \cup (slot \cap Msgs)
  BY DEF QueueMessage
<1>2. Control' /\ LedgerApart' /\ Aimed' /\ Flight' = Flight /\ Closed' = Closed
  <2>1. UNCHANGED Fences /\ UNCHANGED Traffic
    BY DEF Fences, Traffic, runtime
  <2>. QED
    BY <2>1, PlacesQuiet DEF Inv
<1>3. Filed' = Filed /\ FiledApart' /\ {} \notin stashed' /\ composer' = composer
  BY FiledSame DEF Inv, FiledApart, ShapedTexts, drafts
<1>4. Spread'
  BY <1>1, <1>2, <1>3 DEF Inv, Sorted, Spread, Elsewhere
<1>5. \A m \in Msgs : m \in Open' \cup ended' <=> m \in Elsewhere \cup Posted' \cup t
  BY <1>1, <1>2, <1>3 DEF Open, Elsewhere
<1>6. Goal \in Open' => Goal \in Elsewhere \cup Posted' \cup t
  BY <1>1, <1>2, <1>3 DEF Open, Elsewhere
<1>7. /\ {composer', slot', steer', admission'} \cup stashed' \subseteq Texts
      /\ toRuntime' \in Seq(Calls) /\ ended' \subseteq Msgs
  BY <1>1 DEF Inv, TurnsTypeOK, drafts
<1>. QED
  BY <1>2, <1>3, <1>4, <1>5, <1>6, <1>7 DEF Takes

\* The text is the message of the composer.
LEMMA PostedTakes ==
  ASSUME Inv, posted # << >>, posted' = << >>, Takes(posted[1].text),
         UNCHANGED <<turnActive, drainDue, goalPending, operation, restore, target,
                     ledger, toApp, runtime, caps, runs, stale>>
  PROVE  Inv'
<1>1. Posted = posted[1].text /\ Posted' = {}
  BY PostedIs, NothingPosted DEF Inv
<1>2. /\ {composer', slot', steer', admission'} \cup stashed' \subseteq Texts
      /\ toRuntime' \in Seq(Calls) /\ ended' \subseteq Msgs
  BY DEF Takes
<1>3. TurnsTypeOK'
  BY <1>2 DEF Inv, TurnsTypeOK, runtime, caps
<1>4. ShapedTexts'
  BY DEF Inv, ShapedTexts, Takes
<1>5. \A m \in Msgs : m \in Open' \cup ended' <=> m \in Open \cup ended
  BY <1>1 DEF Takes, Open, Elsewhere
<1>6. Goal \in Open' => Goal \in Open
  <2>1. Goal \notin ended
    BY GoalApart DEF Inv, TurnsTypeOK
  <2>. QED
    BY <1>1, <2>1 DEF Takes, Open, Elsewhere
<1>7. Closed' = Closed
  BY DEF Takes
<1>8. Tally'
  BY <1>5, <1>6, <1>7 DEF Inv, Tally, caps
<1>. QED
  BY <1>3, <1>4, <1>8 DEF Inv, Sorted, Takes

LEMMA PostedApart ==
  ASSUME Inv, posted # << >>, posted' = << >>
  PROVE  /\ posted[1].text \in Texts /\ posted[1].text # {}
         /\ posted[1].text \cap (Elsewhere \cup Posted' \cup Closed) = {} /\ Posted' \subseteq Posted
<1>1. Posted = posted[1].text /\ Posted' = {} /\ Posted \in Texts /\ DOMAIN posted = {1}
  BY PostedIs, NothingPosted DEF Inv
<1>2. Posted # {}
  BY <1>1 DEF Inv, ShapedTexts
<1>3. Posted \cap (Elsewhere \cup Closed) = {}
  BY DEF Inv, Sorted, Spread, Elsewhere
<1>. QED
  BY <1>1, <1>2, <1>3

LEMMA InvOnSubmit == ASSUME Inv, OnSubmit PROVE Inv'
<1>1. /\ posted # << >> /\ posted' = << >> /\ SubmitPrompt(posted[1].text)
      /\ UNCHANGED <<queues, turnActive, drainDue, goalPending, operation, restore, target,
                     ledger, toApp, runtime, caps, past>>
  BY DEF OnSubmit, Posting
<1>. PICK t : t = posted[1].text
  OBVIOUS
<1>2. t \in Texts /\ t # {} /\ t \cap (Elsewhere \cup Posted' \cup Closed) = {} /\ Posted' \subseteq Posted
  BY <1>1, PostedApart
<1>3. Takes(t)
  BY <1>1, <1>2, SubmitTakes DEF caps
<1>. QED
  BY <1>1, <1>3, PostedTakes DEF past

LEMMA InvOnQueueMessage == ASSUME Inv, OnQueueMessage PROVE Inv'
<1>1. /\ posted # << >> /\ posted' = << >>
      /\ UNCHANGED <<steer, turnActive, drainDue, goalPending, operation, restore, target,
                     ledger, toApp, runtime, caps, runs, stale>>
  BY DEF OnQueueMessage, Posting
<1>. PICK t : t = posted[1].text
  OBVIOUS
<1>2. t \in Texts /\ t # {} /\ t \cap (Elsewhere \cup Posted' \cup Closed) = {} /\ Posted' \subseteq Posted
  BY <1>1, PostedApart
<1>3. CASE SubmitPrompt(t) /\ UNCHANGED <<slot, ended>>
  BY <1>1, <1>2, <1>3, SubmitTakes, PostedTakes DEF caps, past, queues
<1>4. CASE QueueMessage(t) /\ UNCHANGED <<drafts, admission, toRuntime>>
  BY <1>1, <1>2, <1>4, QueueTakes, PostedTakes DEF caps
<1>5. CASE ContextOp /\ RestorePrompt(t) /\ UNCHANGED <<slot, admission, toRuntime, ended>>
  <2>1. SubmitPrompt(t)
    BY <1>5 DEF SubmitPrompt
  <2>. QED
    BY <1>1, <1>2, <1>5, <2>1, SubmitTakes, PostedTakes DEF caps, past, queues
<1>. QED
  BY <1>3, <1>4, <1>5 DEF OnQueueMessage

\* The text is new.
LEMMA InvGenerated == ASSUME Inv, Generated PROVE Inv'
<1>1. /\ written < MaxMsgs /\ written' = written + 1
      /\ UNCHANGED <<posted, steer, turnActive, drainDue, goalPending, operation, restore, target,
                     ledger, toApp, runtime, ops, goals, runs, stale>>
  BY DEF Generated
<1>2. Posted' = Posted
  BY <1>1, PostedSame
<1>. PICK w : w = written + 1
  OBVIOUS
<1>. PICK t : t = {w}
  OBVIOUS
<1>3. /\ w \in Msgs /\ w \notin Open \cup Closed \cup ended /\ runs[w] = 0 /\ {w} \in Texts /\ w \in 0 .. MaxMsgs
      /\ \A m \in Msgs : m <= w <=> m <= written \/ m = w
  BY <1>1, Fresh DEF Inv
<1>4. t \in Texts /\ t # {} /\ t \cap (Elsewhere \cup Posted' \cup Closed) = {} /\ Posted' \subseteq Posted
  BY <1>2, <1>3 DEF Elsewhere, Open
<1>5. Takes(t)
  <2>1. CASE QueueMessage(t) /\ UNCHANGED <<drafts, admission, toRuntime>>
    BY <1>1, <1>4, <2>1, QueueTakes
  <2>2. CASE SubmitPrompt(t) /\ UNCHANGED <<slot, ended>>
    BY <1>1, <1>4, <2>2, SubmitTakes DEF past, queues
  <2>. QED
    BY <2>1, <2>2 DEF Generated
<1>6. /\ {composer', slot', steer', admission'} \cup stashed' \subseteq Texts
      /\ toRuntime' \in Seq(Calls) /\ ended' \subseteq Msgs
  BY <1>5 DEF Takes
<1>7. TurnsTypeOK'
  BY <1>1, <1>3, <1>6 DEF Inv, TurnsTypeOK, runtime
<1>8. ShapedTexts'
  BY <1>1, <1>5 DEF Inv, ShapedTexts, Takes
<1>9. \A m \in Msgs : m \in Open' \cup ended' <=> m \in Open \cup ended \/ m = w
  BY <1>2, <1>5 DEF Takes, Open, Elsewhere
<1>10. Goal \in Open' => Goal \in Open
  <2>1. Goal \notin ended /\ Goal # w
    BY <1>3, GoalApart DEF Inv, TurnsTypeOK
  <2>. QED
    BY <1>2, <1>5, <2>1 DEF Takes, Open, Elsewhere
<1>11. Closed' = Closed /\ w \notin Closed
  BY <1>3, <1>5 DEF Takes
<1>12. Tally'
  <2>1. goals' = 0 => Goal \notin Open' \cup Closed'
    BY <1>1, <1>10, <1>11 DEF Inv, Tally
  <2>2. ASSUME NEW m \in Msgs
        PROVE  /\ m \in Open' \cup Closed' \cup ended' => m <= written'
               /\ runs'[m] \in {0, 1}
               /\ m \in Closed' => runs'[m] = 1
               /\ runs'[m] = 1 => m \notin Open' \cup ended' /\ m <= written'
               /\ m <= written' /\ runs'[m] = 0 => m \in Open' \cup ended'
    <3>1. /\ m \in Open' \cup ended' <=> m \in Open \cup ended \/ m = w
          /\ m <= w <=> m <= written \/ m = w
      BY <1>3, <1>9
    <3>2. written' = w /\ runs' = runs
      BY <1>1
    <3>. QED
      BY <1>3, <1>11, <3>1, <3>2 DEF Inv, Tally
  <2>. QED
    BY <2>1, <2>2 DEF Tally
<1>. QED
  BY <1>5, <1>7, <1>8, <1>12 DEF Inv, Sorted, Takes

-----------------------------------------------------------------------------
(* What the interface hears *)

LEMMA LedgerGains ==
  ASSUME TurnsTypeOK, NEW t \in Texts, ledger' = Append(ledger, t)
  PROVE  ledger' \in Seq(Texts) /\ Gains(ledger, ledger', t)
<1>1. ledger \in Seq(Texts)
  BY DEF TurnsTypeOK
<1>. PICK q : q = ledger
  OBVIOUS
<1>2. Append(q, t) \in Seq(Texts) /\ Gains(q, Append(q, t), t)
  BY <1>1, GainsIs
<1>. QED
  BY <1>2

LEMMA InvTurnStarted == ASSUME Inv, TurnStarted PROVE Inv'
<1>1. /\ Hears({"submitted"}) /\ admission' = {} /\ goalPending' = FALSE /\ turnActive' = TRUE
      /\ ledger' = Append(ledger, Head(toApp).text)
      /\ UNCHANGED <<runtime, caps, target>>
      /\ UNCHANGED <<drafts, posted, queues, drainDue, operation, restore, toRuntime, past>>
  BY DEF TurnStarted, Heard
<1>2. /\ toApp' \in Seq(Events) /\ Drops(toApp, toApp') /\ 1 \in DOMAIN toApp
      /\ Head(toApp) = toApp[1] /\ toApp[1] \in Events /\ toApp[1].do = "submitted"
  BY <1>1, HearsIs DEF Inv
<1>. PICK t : t = toApp[1].text
  OBVIOUS
<1>3. t \in Texts /\ t # {}
  <2>1. t \in Texts
    BY <1>2, EventIs
  <2>2. t # {}
    BY <1>2 DEF Inv, Control, ShapedEvents, Told
  <2>. QED
    BY <2>1, <2>2
<1>4. ledger' \in Seq(Texts) /\ Gains(ledger, ledger', t)
  BY <1>1, <1>2, <1>3, LedgerGains DEF Inv
<1>5. UNCHANGED <<operation, restore, goals, toRuntime, tasks, executing, restoring, target>>
  BY <1>1 DEF runtime, caps
<1>6. Control' /\ LedgerApart' /\ Flight' = Flight /\ Closed' = Closed
  BY <1>1, <1>2, <1>4, <1>5, ControlStarted DEF Inv
<1>7. Filed' = Filed /\ Posted' = Posted
  BY <1>1, FiledSame, PostedSame DEF drafts
<1>8. Aimed'
  BY <1>4, <1>5 DEF Inv, Sorted, Aimed, Restoring, Gains
<1>9. TurnsTypeOK'
  <2>1. {} \in Texts
    BY DEF Texts
  <2>2. {composer', slot', steer', admission'} \cup stashed' \subseteq Texts
    BY <1>1, <2>1 DEF Inv, TurnsTypeOK, drafts, queues
  <2>. QED
    BY <1>1, <1>2, <1>4, <2>2 DEF Inv, TurnsTypeOK, queues, runtime, caps, past
<1>10. ShapedTexts' /\ FiledApart'
  BY <1>1, <1>3, <1>4 DEF Inv, ShapedTexts, FiledApart, drafts, Gains
<1>11. Spread'
  BY <1>1, <1>6, <1>7 DEF Inv, Sorted, Spread, drafts, queues, past
<1>12. Open' = Open
  BY <1>1, <1>6, <1>7 DEF Open, drafts, queues
<1>13. Tally'
  BY <1>1, <1>6, <1>12 DEF Inv, Tally, caps, past
<1>. QED
  BY <1>6, <1>8, <1>9, <1>10, <1>11, <1>13 DEF Inv, Sorted

\* The message on its way is late now.
LEMMA LateIs ==
  ASSUME TurnsTypeOK, posted' = [i \in DOMAIN posted |-> [posted[i] EXCEPT !.late = TRUE]]
  PROVE  /\ posted' \in Seq([key : {"submit", "steer", "queue"}, text : Texts, late : BOOLEAN])
         /\ Len(posted') <= 1 /\ Posted' = Posted
         /\ DOMAIN posted' = DOMAIN posted /\ \A i \in DOMAIN posted : posted'[i].text = posted[i].text
<1>. PICK S : S = [key : {"submit", "steer", "queue"}, text : Texts, late : BOOLEAN]
  OBVIOUS
<1>. PICK p : p = posted
  OBVIOUS
<1>. PICK r : r = [i \in DOMAIN p |-> [p[i] EXCEPT !.late = TRUE]]
  OBVIOUS
<1>1. p \in Seq(S) /\ Len(p) <= 1 /\ Len(p) \in Nat /\ DOMAIN p = 1 .. Len(p)
  BY LenProperties DEF TurnsTypeOK
<1>2. \A i \in DOMAIN p : p[i] \in S
  BY <1>1, ElementOfSeq
<1>3. \A i \in DOMAIN p : r[i] \in S /\ r[i].text = p[i].text
  BY <1>2
<1>4. DOMAIN r = 1 .. Len(p)
  BY <1>1
<1>5. r \in Seq(S) /\ Len(r) = Len(p)
  BY <1>1, <1>3, <1>4
<1>6. {r[i].text : i \in DOMAIN r} = {p[i].text : i \in DOMAIN p}
  BY <1>1, <1>3, <1>4
<1>. QED
  BY <1>1, <1>3, <1>4, <1>5, <1>6 DEF Posted

\* The duties of a turn's end: the leftover steer goes, the queued message may become a turn.
Discards ==
  /\ steer' \in {steer, {}} /\ ended' = ended \cup ((steer \ steer') \cap Msgs)
  /\ stale' \in BOOLEAN /\ drainDue' \in BOOLEAN
QueuedPosted ==
  /\ slot # {} /\ slot' = {} /\ admission = {} /\ admission' = slot /\ operation = "no" /\ ~goalPending
  /\ toRuntime' \in Seq(Calls)
  /\ \E c \in Calls : c.do = "queued" /\ c.text = slot /\ Gains(toRuntime, toRuntime', c)

LEMMA DutiesIs ==
  ASSUME TurnsTypeOK, NEW draft, NEW busy, FinishTurnQueues(draft, busy)
  PROVE  Discards /\ (UNCHANGED <<slot, admission, toRuntime>> \/ (QueuedPosted /\ draft = {} /\ ~busy))
<1>1. drainDue' = FALSE /\ steer' = {} /\ stale' = FALSE /\ ended' = ended \cup (steer \cap Msgs)
  BY DEF FinishTurnQueues
<1>2. Discards
  BY <1>1 DEF Discards
<1>3. CASE slot = {} \/ draft # {} \/ busy \/ ContextOp \/ admission # {}
  BY <1>2, <1>3 DEF FinishTurnQueues
<1>4. CASE ~(slot = {} \/ draft # {} \/ busy \/ ContextOp \/ admission # {})
  <2>1. slot' = {} /\ admission' = slot /\ Posts(Call("queued", slot))
    BY <1>4 DEF FinishTurnQueues
  <2>2. Call("queued", slot) \in Calls /\ Call("queued", slot).do = "queued" /\ Call("queued", slot).text = slot
    <3>1. "queued" \in TurnKinds /\ slot \in Texts
      BY DEF TurnKinds, TurnsTypeOK
    <3>. QED
      BY <3>1, CallIs
  <2>3. toRuntime' \in Seq(Calls) /\ Gains(toRuntime, toRuntime', Call("queued", slot))
    BY <2>1, <2>2, PostsIs
  <2>4. \E c \in Calls : c.do = "queued" /\ c.text = slot /\ Gains(toRuntime, toRuntime', c)
    BY <2>2, <2>3
  <2>5. QueuedPosted
    BY <1>4, <2>1, <2>3, <2>4 DEF QueuedPosted, ContextOp
  <2>. QED
    BY <1>2, <1>4, <2>5
<1>. QED
  BY <1>3, <1>4

LEMMA DiscardsIs ==
  ASSUME TurnsTypeOK, Discards
  PROVE  /\ steer' \in Texts /\ ended' \subseteq Msgs /\ {stale', drainDue'} \subseteq BOOLEAN /\ steer' \subseteq steer
         /\ \A m \in Msgs : m \in steer' \cup ended' <=> m \in steer \cup ended
         /\ \A m : m \in ended' => m \in steer \cup ended
         /\ steer' \cap ended' = {} \/ steer \cap ended # {}
BY DEF TurnsTypeOK, Discards, Texts

LEMMA InvTurnFinished == ASSUME Inv, TurnFinished PROVE Inv'
<1>1. /\ Hears({"complete"}) /\ turnActive' = FALSE
      /\ posted' = [i \in DOMAIN posted |-> [posted[i] EXCEPT !.late = TRUE]]
      /\ UNCHANGED <<runtime, caps, target>>
      /\ UNCHANGED <<drafts, goalPending, operation, restore, ledger, runs>>
  BY DEF TurnFinished, Heard
<1>2. /\ toApp' \in Seq(Events) /\ Drops(toApp, toApp') /\ toApp[1].do = "complete"
  BY <1>1, HearsIs DEF Inv
<1>3. UNCHANGED <<goalPending, operation, restore, goals, tasks, executing, restoring, ledger, target>>
  BY <1>1 DEF runtime, caps
<1>4. /\ posted' \in Seq([key : {"submit", "steer", "queue"}, text : Texts, late : BOOLEAN])
      /\ Len(posted') <= 1 /\ Posted' = Posted
      /\ DOMAIN posted' = DOMAIN posted /\ \A i \in DOMAIN posted : posted'[i].text = posted[i].text
  BY <1>1, LateIs DEF Inv
<1>5. Filed' = Filed /\ composer' = composer /\ stashed' = stashed
  BY <1>1, FiledSame DEF drafts
<1>6. Aimed'
  BY <1>3 DEF Inv, Sorted, Aimed, Restoring
<1>7. ShapedTexts' /\ FiledApart'
  BY <1>3, <1>4, <1>5 DEF Inv, ShapedTexts, FiledApart
<1>8. Discards /\ (UNCHANGED <<slot, admission, toRuntime>> \/ QueuedPosted)
  <2>1. CASE FinishTurnQueues(composer, FALSE)
    BY <2>1, DutiesIs DEF Inv
  <2>2. CASE drainDue' = TRUE /\ stale' = (steer # {}) /\ UNCHANGED <<queues, admission, toRuntime, ended>>
    BY <2>2 DEF Discards, queues
  <2>. QED
    BY <2>1, <2>2 DEF TurnFinished
<1>9. /\ steer' \in Texts /\ ended' \subseteq Msgs /\ {stale', drainDue'} \subseteq BOOLEAN /\ steer' \subseteq steer
      /\ \A m \in Msgs : m \in steer' \cup ended' <=> m \in steer \cup ended
      /\ \A m : m \in ended' => m \in steer \cup ended
      /\ steer' \cap ended' = {} \/ steer \cap ended # {}
  BY <1>8, DiscardsIs DEF Inv
<1>10. ASSUME Control', LedgerApart', Flight \subseteq Flight', Flight' \cup slot' = Flight \cup slot, Closed' = Closed,
              slot' \subseteq slot, slot' \cap Flight' = {}, {slot', admission'} \subseteq Texts, toRuntime' \in Seq(Calls)
       PROVE  Inv'
  <2>1. TurnsTypeOK'
    <3>1. {composer', slot', steer', admission'} \cup stashed' \subseteq Texts
      BY <1>5, <1>9, <1>10 DEF Inv, TurnsTypeOK
    <3>. QED
      BY <1>1, <1>2, <1>3, <1>4, <1>9, <1>10, <3>1 DEF Inv, TurnsTypeOK, runtime, caps
  <2>2. Spread'
    BY <1>4, <1>5, <1>9, <1>10 DEF Inv, Sorted, Spread
  <2>3. (\A m \in Msgs : m \in Open' \cup ended' <=> m \in Open \cup ended) /\ Open' \subseteq Open
    BY <1>4, <1>5, <1>9, <1>10 DEF Open
  <2>4. Tally'
    BY <1>1, <1>10, <2>3 DEF Inv, Tally, caps
  <2>. QED
    BY <1>6, <1>7, <1>10, <2>1, <2>2, <2>4 DEF Inv, Sorted
<1>11. CASE UNCHANGED <<slot, admission, toRuntime>>
  <2>1. Control' /\ LedgerApart' /\ Flight' = Flight /\ Closed' = Closed
    BY <1>1, <1>2, <1>3, <1>11, ControlFinished DEF Inv
  <2>2. {slot', admission'} \subseteq Texts /\ toRuntime' \in Seq(Calls) /\ slot \cap Flight = {}
    BY <1>11 DEF Inv, TurnsTypeOK, Sorted, Spread
  <2>. QED
    BY <1>10, <1>11, <2>1, <2>2
<1>12. CASE QueuedPosted
  <2>1. PICK c \in Calls : c.do = "queued" /\ c.text = slot /\ Gains(toRuntime, toRuntime', c)
    BY <1>12 DEF QueuedPosted
  <2>2. slot # {} /\ slot' = {} /\ admission' = slot /\ operation = "no" /\ slot \in Texts /\ toRuntime' \in Seq(Calls)
    BY <1>12 DEF QueuedPosted, Inv, TurnsTypeOK
  <2>3. Control' /\ LedgerApart' /\ Flight' = Flight \cup slot /\ Closed' = Closed
    BY <1>1, <1>2, <1>3, <2>1, <2>2, ControlFinishedNext DEF Inv
  <2>4. {slot', admission'} \subseteq Texts
    BY <2>2 DEF Texts
  <2>. QED
    BY <1>10, <2>2, <2>3, <2>4
<1>. QED
  BY <1>8, <1>11, <1>12

\* An outcome that is no refusal belongs to a turn that was announced: its text is not the
\* one that is being submitted.
LEMMA OutcomeApart ==
  ASSUME Inv, 1 \in DOMAIN toApp, Outcome(1), toApp[1] \in Events
  PROVE  admission # toApp[1].text
<1>. PICK t : t = toApp[1].text
  OBVIOUS
<1>1. t \in Texts /\ t # {}
  <2>1. toApp[1].do \in TurnKinds
    BY DEF Outcome
  <2>2. t \in Texts
    BY <2>1, EventIs DEF TurnKinds
  <2>. QED
    BY <2>2 DEF Inv, Control, ShapedEvents
<1>2. t \subseteq Pieces
  BY <1>1 DEF Texts, Pieces
<1>3. t \subseteq Closed
  BY <1>2 DEF Closed
<1>4. Flight \cap t = {}
  BY <1>3 DEF Inv, Sorted, Spread
<1>. SUFFICES ASSUME admission = t PROVE FALSE
  OBVIOUS
<1>5. CASE \E i \in DOMAIN toRuntime : TurnCall(i) /\ toRuntime[i].text = t
  <2>1. t \subseteq Flight
    BY <1>2, <1>5 DEF Flight
  <2>. QED
    BY <1>1, <1>4, <2>1
<1>6. CASE \E k \in tasks : TurnTask(k) /\ k.phase \in Before /\ k.text = t
  <2>1. t \subseteq Flight
    BY <1>2, <1>6 DEF Flight
  <2>. QED
    BY <1>1, <1>4, <2>1
<1>7. CASE \E i \in DOMAIN toApp : Refusal(i) /\ toApp[i].text = t
  <2>1. t \subseteq Flight
    BY <1>2, <1>7 DEF Flight
  <2>. QED
    BY <1>1, <1>4, <2>1
<1>8. CASE \E i \in DOMAIN toApp : Told(i) /\ toApp[i].text = t
  <2>1. PICK i \in DOMAIN toApp : Told(i) /\ toApp[i].text = t
    BY <1>8
  <2>2. i # 1
    BY <2>1 DEF Told, Outcome, TurnKinds
  <2>3. toApp \in Seq(Events)
    BY DEF Inv, TurnsTypeOK
  <2>4. i \in Nat /\ 1 <= i
    BY <2>3, LenProperties
  <2>5. 1 < i
    BY <2>2, <2>4
  <2>6. \A i1, j \in DOMAIN toApp : Outcome(i1) /\ Told(j) /\ i1 < j => toApp[i1].text \cap toApp[j].text = {}
    BY DEF Inv, Sorted, LedgerApart
  <2>7. toApp[1].text \cap toApp[i].text = {}
    BY <2>1, <2>5, <2>6
  <2>. QED
    BY <1>1, <2>1, <2>7
<1>9. admission # {}
  BY <1>1
<1>. QED
  BY <1>5, <1>6, <1>7, <1>8, <1>9 DEF Inv, Control, Backed

LEMMA InvSubmitted == ASSUME Inv, Submitted PROVE Inv'
<1>1. /\ Hears({"prompt", "queued"})
      /\ UNCHANGED <<runtime, caps, target>>
      /\ UNCHANGED <<posted, steer, turnActive, drainDue, goalPending, operation, restore, ledger,
                     toRuntime, runs, stale>>
  BY DEF Submitted, Heard
<1>2. /\ toApp' \in Seq(Events) /\ Drops(toApp, toApp') /\ 1 \in DOMAIN toApp
      /\ Head(toApp) = toApp[1] /\ toApp[1] \in Events /\ toApp[1].do \in {"prompt", "queued"}
  BY <1>1, HearsIs DEF Inv
<1>. PICK r : r = toApp[1]
  OBVIOUS
<1>. PICK t : t = r.text
  OBVIOUS
<1>3. t \in Texts /\ t # {} /\ r.do \in TurnKinds /\ r.ok \in BOOLEAN /\ r.begun \in BOOLEAN
  <2>1. r.do \in TurnKinds
    BY <1>2 DEF TurnKinds
  <2>2. t \in Texts /\ r.ok \in BOOLEAN /\ r.begun \in BOOLEAN
    BY <1>2, <2>1, EventIs
  <2>3. t # {}
    BY <1>2, <2>1 DEF Inv, Control, ShapedEvents, Refusal, Outcome
  <2>. QED
    BY <2>1, <2>2, <2>3
<1>4. admission' = IF admission = t THEN {} ELSE admission
  BY <1>2 DEF Submitted
<1>5. Outcome(1) => admission # t
  BY <1>2, OutcomeApart
<1>6. UNCHANGED <<turnActive, goalPending, operation, restore, goals, toRuntime, tasks, executing, restoring, ledger, target>>
  BY <1>1 DEF runtime, caps
<1>7. /\ Control' /\ LedgerApart' /\ Flight' = (IF Outcome(1) THEN Flight ELSE Flight \ t)
      /\ Closed' \subseteq Closed
  BY <1>2, <1>4, <1>5, <1>6, ControlSubmitted DEF Inv
<1>8. Aimed' /\ Posted' = Posted
  BY <1>1, PostedSame DEF Inv, Sorted, Aimed, Restoring
<1>9. toRuntime' \in Seq(Calls) /\ admission' \in Texts
  BY <1>1, <1>4 DEF Inv, TurnsTypeOK, Texts
<1>10. ASSUME {composer', slot', steer'} \cup stashed' \subseteq Texts, ended' \subseteq Msgs,
              FiledApart', {} \notin stashed', Spread',
              \A m \in Msgs : m \in Open' \cup ended' <=> m \in Open \cup ended, Open' \subseteq Open
       PROVE  Inv'
  <2>1. {composer', slot', steer', admission'} \cup stashed' \subseteq Texts
    BY <1>9, <1>10
  <2>2. TurnsTypeOK'
    BY <1>1, <1>2, <1>10, <2>1 DEF Inv, TurnsTypeOK, runtime, caps
  <2>3. ShapedTexts'
    BY <1>1, <1>10 DEF Inv, ShapedTexts
  <2>4. Tally'
    BY <1>1, <1>7, <1>10 DEF Inv, Tally, caps
  <2>. QED
    BY <1>7, <1>8, <1>10, <2>2, <2>3, <2>4 DEF Inv, Sorted
<1>11. CASE ~Unaccepted(r)
  <2>1. UNCHANGED <<drafts, slot, ended>>
    BY <1>2, <1>11 DEF Submitted
  <2>2. Outcome(1)
    <3>1. Refusal(1) => ~r.ok /\ admission = t
      BY <1>2 DEF Inv, Control, ShapedEvents, Fenced, Announcing
    <3>2. ~Refusal(1)
      BY <1>11, <3>1 DEF Unaccepted
    <3>. QED
      BY <1>3, <3>2 DEF Refusal, Outcome
  <2>3. Filed' = Filed /\ Flight' = Flight
    BY <1>7, <2>1, <2>2, FiledSame DEF drafts
  <2>4. {composer', slot', steer'} \cup stashed' \subseteq Texts /\ ended' \subseteq Msgs
    BY <1>1, <2>1 DEF Inv, TurnsTypeOK, drafts
  <2>5. FiledApart' /\ {} \notin stashed'
    BY <2>1 DEF Inv, FiledApart, ShapedTexts, drafts
  <2>6. Spread'
    BY <1>1, <1>7, <1>8, <2>1, <2>3 DEF Inv, Sorted, Spread, drafts
  <2>7. Open' = Open /\ ended' = ended
    BY <1>1, <1>8, <2>1, <2>3 DEF Open, drafts
  <2>. QED
    BY <1>10, <2>4, <2>5, <2>6, <2>7
<1>12. CASE Unaccepted(r)
  <2>1. ~Outcome(1) /\ Refusal(1)
    BY <1>3, <1>5, <1>12 DEF Unaccepted, Refusal, Outcome
  <2>2. t \subseteq Flight /\ Flight' = Flight \ t
    <3>1. t \subseteq Pieces
      BY <1>3 DEF Texts, Pieces
    <3>. QED
      BY <1>2, <1>7, <2>1, <3>1 DEF Flight
  <2>3. CASE RestorePrompt(t) /\ UNCHANGED <<slot, ended>>
    <3>1. /\ composer' = t /\ Filed' = Filed \cup composer /\ FiledApart' /\ {} \notin stashed'
          /\ {composer'} \cup stashed' \subseteq Texts
      BY <1>3, <2>3, RestorePromptIs
    <3>2. {slot', steer'} \subseteq Texts /\ ended' \subseteq Msgs
      BY <1>1, <2>3 DEF Inv, TurnsTypeOK
    <3>3. {composer', slot', steer'} \cup stashed' \subseteq Texts
      BY <3>1, <3>2
    <3>4. Spread'
      BY <1>1, <1>7, <1>8, <2>2, <2>3, <3>1 DEF Inv, Sorted, Spread
    <3>5. Open' = Open /\ ended' = ended
      BY <1>1, <1>8, <2>2, <2>3, <3>1 DEF Open
    <3>. QED
      BY <1>10, <3>1, <3>2, <3>3, <3>4, <3>5
  <2>4. CASE slot = {} /\ slot' = t /\ UNCHANGED <<drafts, ended>>
    <3>1. Filed' = Filed /\ FiledApart' /\ {} \notin stashed' /\ composer' = composer
      BY <2>4, FiledSame DEF Inv, FiledApart, ShapedTexts, drafts
    <3>2. {composer', slot', steer'} \cup stashed' \subseteq Texts /\ ended' \subseteq Msgs
      BY <1>1, <1>3, <2>4 DEF Inv, TurnsTypeOK, drafts
    <3>4. Spread'
      BY <1>1, <1>7, <1>8, <2>2, <2>4, <3>1 DEF Inv, Sorted, Spread
    <3>5. Open' = Open /\ ended' = ended
      BY <1>1, <1>8, <2>2, <2>4, <3>1 DEF Open
    <3>. QED
      BY <1>10, <3>1, <3>2, <3>4, <3>5
  <2>5. CASE composer = {} /\ composer' = t /\ UNCHANGED <<stashed, slot, ended>>
    <3>1. Filed' = Filed /\ FiledApart' /\ {} \notin stashed'
      BY <2>5, FiledSame DEF Inv, FiledApart, ShapedTexts
    <3>2. {composer', slot', steer'} \cup stashed' \subseteq Texts /\ ended' \subseteq Msgs
      BY <1>1, <1>3, <2>5 DEF Inv, TurnsTypeOK
    <3>4. Spread'
      BY <1>1, <1>7, <1>8, <2>2, <2>5, <3>1 DEF Inv, Sorted, Spread
    <3>5. Open' = Open /\ ended' = ended
      BY <1>1, <1>8, <2>2, <2>5, <3>1 DEF Open
    <3>. QED
      BY <1>10, <3>1, <3>2, <3>4, <3>5
  <2>6. CASE ended' = ended \cup (t \cap Msgs) /\ UNCHANGED <<drafts, slot>>
    <3>1. Filed' = Filed /\ FiledApart' /\ {} \notin stashed' /\ composer' = composer
      BY <2>6, FiledSame DEF Inv, FiledApart, ShapedTexts, drafts
    <3>2. {composer', slot', steer'} \cup stashed' \subseteq Texts /\ ended' \subseteq Msgs
      BY <1>1, <2>6 DEF Inv, TurnsTypeOK, drafts
    <3>4. Spread'
      BY <1>1, <1>7, <1>8, <2>2, <2>6, <3>1 DEF Inv, Sorted, Spread
    <3>5. Open' \subseteq Open /\ \A m \in Msgs : m \in Open' \cup ended' <=> m \in Open \cup ended
      BY <1>1, <1>8, <2>2, <2>6, <3>1 DEF Open
    <3>. QED
      BY <1>10, <3>1, <3>2, <3>4, <3>5
  <2>. QED
    BY <1>2, <1>12, <2>3, <2>4, <2>5, <2>6 DEF Submitted
<1>. QED
  BY <1>11, <1>12

LEMMA InvGoalReturns == ASSUME Inv, GoalReturns PROVE Inv'
<1>1. /\ Hears({"goal"}) /\ goalPending' = FALSE
      /\ UNCHANGED <<runtime, caps, target>>
      /\ UNCHANGED <<drafts, posted, queues, admission, turnActive, drainDue, operation, restore, ledger,
                     toRuntime, past>>
  BY DEF GoalReturns, Heard
<1>2. toApp' \in Seq(Events) /\ Drops(toApp, toApp') /\ toApp[1].do = "goal"
  BY <1>1, HearsIs DEF Inv
<1>3. UNCHANGED <<turnActive, operation, restore, goals, toRuntime, tasks, executing, restoring, ledger, target>>
  BY <1>1 DEF runtime, caps
<1>4. /\ Control' /\ LedgerApart' /\ Flight' = (IF Outcome(1) THEN Flight ELSE Flight \ {Goal})
      /\ Closed' \subseteq Closed
  BY <1>1, <1>2, <1>3, ControlGoalReturns DEF Inv
<1>5. Filed' = Filed /\ Posted' = Posted
  BY <1>1, FiledSame, PostedSame DEF drafts
<1>6. Aimed'
  BY <1>3 DEF Inv, Sorted, Aimed, Restoring
<1>7. TurnsTypeOK'
  BY <1>1, <1>2 DEF Inv, TurnsTypeOK, drafts, queues, runtime, caps, past
<1>8. ShapedTexts' /\ FiledApart'
  BY <1>1 DEF Inv, ShapedTexts, FiledApart, drafts
<1>9. Flight' \subseteq Flight /\ \A m \in Msgs : m \in Flight' <=> m \in Flight
  BY <1>4, GoalApart
<1>10. Spread'
  BY <1>1, <1>4, <1>5, <1>9 DEF Inv, Sorted, Spread, drafts, queues, past
<1>11. Open' \subseteq Open /\ \A m \in Msgs : m \in Open' <=> m \in Open
  BY <1>1, <1>5, <1>9 DEF Open, drafts, queues
<1>12. Tally'
  BY <1>1, <1>4, <1>11 DEF Inv, Tally, caps, past
<1>. QED
  BY <1>4, <1>6, <1>7, <1>8, <1>10, <1>12 DEF Inv, Sorted

LEMMA InvAnswered == ASSUME Inv, Answered PROVE Inv'
<1>1. /\ Hears(OpKinds) /\ operation' = "no" /\ ledger' \in {ledger, << >>}
      /\ UNCHANGED <<runtime, caps, target>>
      /\ UNCHANGED <<drafts, posted, queues, admission, turnActive, drainDue, goalPending, restore,
                     toRuntime, past>>
  BY DEF Answered, Heard
<1>2. toApp' \in Seq(Events) /\ Drops(toApp, toApp') /\ 1 \in DOMAIN toApp /\ toApp[1].do \in OpKinds
  BY <1>1, HearsIs DEF Inv
<1>3. restore = "no"
  <2>1. operation = toApp[1].do
    BY <1>2 DEF Inv, Control, OneOp, Answer
  <2>2. operation # "no"
    BY <1>2, <2>1 DEF OpKinds
  <2>. QED
    BY <2>2 DEF Inv, Control, OneOp
<1>4. UNCHANGED <<turnActive, goalPending, restore, goals, toRuntime, tasks, executing, restoring, target>>
  BY <1>1 DEF runtime, caps
<1>5. Control' /\ LedgerApart' /\ Flight' = Flight /\ Closed' \subseteq Closed
  BY <1>1, <1>2, <1>3, <1>4, ControlAnswered DEF Inv
<1>6. Filed' = Filed /\ Posted' = Posted
  BY <1>1, FiledSame, PostedSame DEF drafts
<1>7. Aimed'
  BY <1>1, <1>3 DEF Aimed, Restoring
<1>8. ledger' \in Seq(Texts) /\ \A i \in DOMAIN ledger' : ledger'[i] # {}
  <2>1. << >> \in Seq(Texts) /\ DOMAIN << >> = {}
    OBVIOUS
  <2>2. CASE ledger' = ledger
    BY <2>2 DEF Inv, TurnsTypeOK, ShapedTexts
  <2>3. CASE ledger' = << >>
    BY <2>1, <2>3
  <2>. QED
    BY <1>1, <2>2, <2>3
<1>9. TurnsTypeOK'
  BY <1>1, <1>2, <1>8 DEF Inv, TurnsTypeOK, drafts, queues, runtime, caps, past
<1>10. ShapedTexts' /\ FiledApart'
  BY <1>1, <1>8 DEF Inv, ShapedTexts, FiledApart, drafts
<1>11. Spread'
  BY <1>1, <1>5, <1>6 DEF Inv, Sorted, Spread, drafts, queues, past
<1>12. Open' = Open
  BY <1>1, <1>5, <1>6 DEF Open, drafts, queues
<1>13. Tally'
  BY <1>1, <1>5, <1>12 DEF Inv, Tally, caps, past
<1>. QED
  BY <1>5, <1>7, <1>9, <1>10, <1>11, <1>13 DEF Inv, Sorted

\* What is cut off with the selected checkpoint.
LEMMA CutIs ==
  ASSUME TurnsTypeOK, target \in DOMAIN ledger, ledger' = SubSeq(ledger, 1, target - 1)
  PROVE  /\ ledger' \in Seq(Texts) /\ ledger[target] \in Texts
         /\ \A i \in DOMAIN ledger' : i \in DOMAIN ledger \ {target} /\ ledger'[i] = ledger[i]
<1>. PICK q : q = ledger
  OBVIOUS
<1>. PICK n : n = target - 1
  OBVIOUS
<1>1. q \in Seq(Texts) /\ Len(q) \in Nat /\ DOMAIN q = 1 .. Len(q) /\ target \in 1 .. Len(q) /\ q[target] \in Texts
  BY LenProperties, ElementOfSeq DEF TurnsTypeOK
<1>2. 1 \in 1 .. Len(q) + 1 /\ n \in 1 - 1 .. Len(q) /\ n \in Nat /\ n - 1 + 1 = n /\ n < target /\ n <= Len(q)
  BY <1>1
<1>3. SubSeq(q, 1, n) \in Seq(Texts) /\ Len(SubSeq(q, 1, n)) = n /\ \A i \in 1 .. n : SubSeq(q, 1, n)[i] = q[1 + i - 1]
  BY <1>1, <1>2, SubSeqProperties
<1>4. DOMAIN SubSeq(q, 1, n) = 1 .. n
  BY <1>3, LenProperties
<1>5. \A i \in 1 .. n : i \in DOMAIN q \ {target} /\ 1 + i - 1 = i
  BY <1>1, <1>2
<1>. QED
  BY <1>1, <1>3, <1>4, <1>5

LEMMA InvRestored == ASSUME Inv, Restored PROVE Inv'
<1>1. /\ Hears({"restore"}) /\ restore' = "no"
      /\ UNCHANGED <<runtime, caps, target>>
      /\ UNCHANGED <<posted, turnActive, goalPending, operation>>
  BY DEF Restored, Heard
<1>2. /\ toApp' \in Seq(Events) /\ Drops(toApp, toApp') /\ 1 \in DOMAIN toApp
      /\ Head(toApp) = toApp[1] /\ toApp[1] \in Events /\ toApp[1].do = "restore"
  BY <1>1, HearsIs DEF Inv
<1>3. restore = "called"
  BY <1>2 DEF Inv, Control, OneRestore, Returned
<1>4. target \in DOMAIN ledger
  BY <1>3 DEF Inv, Sorted, Aimed, Restoring
<1>. PICK r : r = toApp[1]
  OBVIOUS
<1>. PICK t : t = ledger[target]
  OBVIOUS
<1>. PICK d : d = composer'
  OBVIOUS
<1>5. r.conversation \in BOOLEAN /\ r.ok \in BOOLEAN
  BY <1>2, EventIs
<1>6. t \in Texts /\ t # {}
  <2>1. ledger \in Seq(Texts)
    BY DEF Inv, TurnsTypeOK
  <2>. QED
    BY <1>4, <2>1, ElementOfSeq, LenProperties DEF Inv, ShapedTexts
<1>7. t \subseteq Closed
  <2>1. t \subseteq Pieces
    BY <1>6 DEF Texts, Pieces
  <2>. QED
    BY <1>4, <2>1 DEF Closed
<1>8. Discards /\ (UNCHANGED <<slot, admission, toRuntime>> \/ (QueuedPosted /\ d = {} /\ ~turnActive))
  <2>1. CASE FinishTurnQueues(d, turnActive)
    BY <2>1, DutiesIs DEF Inv
  <2>2. CASE drainDue' = FALSE /\ UNCHANGED <<queues, admission, toRuntime, ended, stale>>
    BY <2>2 DEF Discards, queues, Inv, TurnsTypeOK
  <2>. QED
    BY <2>1, <2>2 DEF Restored
<1>9. /\ steer' \in Texts /\ ended' \subseteq Msgs /\ {stale', drainDue'} \subseteq BOOLEAN /\ steer' \subseteq steer
      /\ \A m \in Msgs : m \in steer' \cup ended' <=> m \in steer \cup ended
      /\ \A m : m \in ended' => m \in steer \cup ended
      /\ steer' \cap ended' = {} \/ steer \cap ended # {}
  BY <1>8, DiscardsIs DEF Inv
<1>10. UNCHANGED <<turnActive, goalPending, operation, goals, tasks, executing, restoring, target>>
  BY <1>1 DEF runtime, caps
<1>11. Posted' = Posted /\ Aimed'
  BY <1>1, PostedSame DEF Aimed, Restoring
<1>12. CASE r.conversation
  <2>1. /\ RestorePrompt(t) /\ ledger' = SubSeq(ledger, 1, target - 1)
        /\ runs' = [m \in Msgs |-> IF m \in t THEN runs[m] - 1 ELSE runs[m]]
    BY <1>2, <1>12 DEF Restored
  <2>2. /\ ledger' \in Seq(Texts)
        /\ \A i \in DOMAIN ledger' : i \in DOMAIN ledger \ {target} /\ ledger'[i] = ledger[i]
    BY <1>4, <2>1, CutIs DEF Inv
  <2>3. /\ composer' = t /\ Filed' = Filed \cup composer /\ FiledApart' /\ {} \notin stashed'
        /\ {composer'} \cup stashed' \subseteq Texts
    BY <1>6, <2>1, RestorePromptIs
  <2>4. UNCHANGED <<slot, admission, toRuntime>>
    BY <1>6, <1>8, <2>3
  <2>5. Control' /\ LedgerApart' /\ Flight' = Flight /\ Closed' \subseteq Closed \ t
    BY <1>1, <1>2, <1>3, <1>5, <1>10, <1>12, <2>2, <2>4, ControlRestored DEF Inv
  <2>6. \A m \in Msgs : runs'[m] = IF m \in t THEN 0 ELSE runs[m]
    <3>1. \A m \in Msgs : m \in t => runs[m] = 1
      BY <1>7 DEF Inv, Tally
    <3>. QED
      BY <2>1, <3>1
  <2>7. runs' \in [Msgs -> Nat]
    <3>1. \A m \in Msgs : runs'[m] \in Nat
      <4>1. \A m \in Msgs : runs[m] \in Nat
        BY DEF Inv, TurnsTypeOK
      <4>. QED
        BY <2>6, <4>1
    <3>2. runs' = [m \in Msgs |-> runs'[m]]
      BY <2>1
    <3>. QED
      BY <3>1, <3>2
  <2>8. TurnsTypeOK'
    <3>1. {slot', admission'} \subseteq Texts /\ toRuntime' \in Seq(Calls)
      BY <2>4 DEF Inv, TurnsTypeOK
    <3>2. {composer', slot', steer', admission'} \cup stashed' \subseteq Texts
      BY <1>9, <2>3, <3>1
    <3>. QED
      BY <1>1, <1>2, <1>9, <2>2, <2>7, <3>1, <3>2 DEF Inv, TurnsTypeOK, runtime, caps
  <2>9. ShapedTexts'
    BY <1>1, <2>2, <2>3 DEF Inv, ShapedTexts
  <2>10. Spread'
    BY <1>7, <1>9, <1>11, <2>3, <2>4, <2>5 DEF Inv, Sorted, Spread
  <2>11. /\ \A m \in Msgs : m \in Open' \cup ended' <=> m \in Open \cup ended \cup t
         /\ Open' \subseteq Open \cup t
    BY <1>9, <1>11, <2>3, <2>4, <2>5 DEF Open
  <2>12. Tally'
    <3>1. goals' = 0 => Goal \notin Open' \cup Closed'
      BY <1>7, <1>10, <2>5, <2>11 DEF Inv, Tally
    <3>2. ASSUME NEW m \in Msgs
          PROVE  /\ m \in Open' \cup Closed' \cup ended' => m <= written'
                 /\ runs'[m] \in {0, 1}
                 /\ m \in Closed' => runs'[m] = 1
                 /\ runs'[m] = 1 => m \notin Open' \cup ended' /\ m <= written'
                 /\ m <= written' /\ runs'[m] = 0 => m \in Open' \cup ended'
      <4>1. written' = written
        BY <1>1 DEF caps
      <4>2. CASE m \in t
        <5>1. runs'[m] = 0 /\ m \in Open' \cup ended' /\ m \notin Closed'
          BY <2>5, <2>6, <2>11, <4>2
        <5>2. m <= written
          BY <1>7, <4>2 DEF Inv, Tally
        <5>. QED
          BY <4>1, <5>1, <5>2
      <4>3. CASE m \notin t
        <5>1. runs'[m] = runs[m] /\ (m \in Open' \cup ended' <=> m \in Open \cup ended) /\ (m \in Closed' => m \in Closed)
          BY <2>5, <2>6, <2>11, <4>3
        <5>. QED
          BY <4>1, <5>1 DEF Inv, Tally
      <4>. QED
        BY <4>2, <4>3
    <3>. QED
      BY <3>1, <3>2 DEF Tally
  <2>. QED
    BY <1>11, <2>3, <2>5, <2>8, <2>9, <2>10, <2>12 DEF Inv, Sorted
<1>13. CASE ~r.conversation
  <2>1. UNCHANGED <<drafts, ledger, runs>>
    BY <1>2, <1>13 DEF Restored
  <2>2. Filed' = Filed /\ composer' = composer /\ FiledApart' /\ {} \notin stashed'
    BY <2>1, FiledSame DEF Inv, FiledApart, ShapedTexts, drafts
  <2>3. ASSUME Control', LedgerApart', Flight \subseteq Flight', Flight' \cup slot' = Flight \cup slot,
               Closed' \subseteq Closed,
               slot' \subseteq slot, slot' \cap Flight' = {}, {slot', admission'} \subseteq Texts, toRuntime' \in Seq(Calls)
        PROVE  Inv'
    <3>1. TurnsTypeOK'
      <4>1. {composer', slot', steer', admission'} \cup stashed' \subseteq Texts
        BY <1>9, <2>1, <2>3 DEF Inv, TurnsTypeOK, drafts
      <4>. QED
        BY <1>1, <1>2, <1>9, <2>1, <2>3, <4>1 DEF Inv, TurnsTypeOK, runtime, caps
    <3>2. ShapedTexts'
      BY <1>1, <2>1, <2>2 DEF Inv, ShapedTexts
    <3>3. Spread'
      BY <1>9, <1>11, <2>2, <2>3 DEF Inv, Sorted, Spread
    <3>4. (\A m \in Msgs : m \in Open' \cup ended' <=> m \in Open \cup ended) /\ Open' \subseteq Open
      BY <1>9, <1>11, <2>2, <2>3 DEF Open
    <3>5. Tally'
      BY <1>1, <2>1, <2>3, <3>4 DEF Inv, Tally, caps
    <3>. QED
      BY <1>11, <2>2, <2>3, <3>1, <3>2, <3>3, <3>5 DEF Inv, Sorted
  <2>4. CASE UNCHANGED <<slot, admission, toRuntime>>
    <3>1. Control' /\ LedgerApart' /\ Flight' = Flight /\ Closed' \subseteq Closed
      BY <1>1, <1>2, <1>3, <1>5, <1>10, <1>13, <2>1, <2>4, ControlRestored DEF Inv
    <3>2. {slot', admission'} \subseteq Texts /\ toRuntime' \in Seq(Calls) /\ slot \cap Flight = {}
      BY <2>4 DEF Inv, TurnsTypeOK, Sorted, Spread
    <3>. QED
      BY <2>3, <2>4, <3>1, <3>2
  <2>5. CASE QueuedPosted /\ ~turnActive
    <3>1. PICK c \in Calls : c.do = "queued" /\ c.text = slot /\ Gains(toRuntime, toRuntime', c)
      BY <2>5 DEF QueuedPosted
    <3>2. /\ slot # {} /\ slot' = {} /\ admission = {} /\ admission' = slot /\ operation = "no" /\ ~goalPending
          /\ slot \in Texts /\ toRuntime' \in Seq(Calls)
      BY <2>5 DEF QueuedPosted, Inv, TurnsTypeOK
    <3>3. Control' /\ LedgerApart' /\ Flight' = Flight \cup slot /\ Closed' \subseteq Closed
      BY <1>1, <1>2, <1>3, <1>5, <1>10, <1>13, <2>1, <2>5, <3>1, <3>2, ControlRestoredNext DEF Inv
    <3>4. {slot', admission'} \subseteq Texts
      BY <3>2 DEF Texts
    <3>. QED
      BY <2>3, <3>2, <3>3, <3>4
  <2>. QED
    BY <1>8, <2>4, <2>5
<1>. QED
  BY <1>5, <1>12, <1>13

LEMMA InvInit == TurnsInit => Inv
<1>. SUFFICES ASSUME TurnsInit PROVE Inv
  OBVIOUS
<1>1. /\ composer = {} /\ stashed = {} /\ posted = << >> /\ slot = {} /\ steer = {} /\ admission = {}
      /\ ledger = << >> /\ toRuntime = << >> /\ toApp = << >> /\ tasks = {} /\ ended = {}
      /\ runs = [m \in Msgs |-> 0] /\ written = 0 /\ ops = 0 /\ goals = 0
      /\ turnActive = FALSE /\ drainDue = FALSE /\ goalPending = FALSE /\ operation = "no" /\ restore = "no"
      /\ target = 0 /\ executing = FALSE /\ restoring = FALSE /\ recovery = FALSE /\ interrupted = FALSE
      /\ stale = FALSE
  BY DEF TurnsInit
<1>2. DOMAIN toRuntime = {} /\ DOMAIN toApp = {} /\ DOMAIN ledger = {} /\ DOMAIN posted = {}
  BY <1>1
<1>3. TurnsTypeOK
  <2>1. {} \in Texts /\ 0 \in 0 .. MaxMsgs /\ 0 \in 0 .. MaxOps /\ 0 \in 0 .. MaxGoals
    BY TurnsAssumption DEF Texts
  <2>2. /\ << >> \in Seq(Texts) /\ << >> \in Seq(Calls) /\ << >> \in Seq(Events) /\ Len(<< >>) <= 1
        /\ << >> \in Seq([key : {"submit", "steer", "queue"}, text : Texts, late : BOOLEAN])
    OBVIOUS
  <2>. QED
    BY <1>1, <2>1, <2>2 DEF TurnsTypeOK
<1>4. Control
  <2>1. ShapedCalls /\ ShapedTasks /\ ShapedEvents /\ OneTurn /\ Fenced
    BY <1>1, <1>2 DEF ShapedCalls, ShapedTasks, ShapedEvents, OneTurn, Fenced
  <2>2. OneGoal /\ Backed /\ Flags /\ OneRestore /\ OneOp /\ Alone
    BY <1>1, <1>2 DEF OneGoal, Backed, Flags, OneRestore, OneOp, Alone
  <2>. QED
    BY <2>1, <2>2 DEF Control
<1>5. Posted = {} /\ Filed = {} /\ Flight = {} /\ Closed = {}
  BY <1>1, <1>2 DEF Posted, Filed, Flight, Closed
<1>6. ShapedTexts /\ FiledApart /\ Sorted
  BY <1>1, <1>2, <1>5 DEF ShapedTexts, FiledApart, Sorted, Aimed, Restoring, Spread, LedgerApart
<1>7. Tally
  <2>1. \A m \in Msgs : runs[m] = 0 /\ ~(m <= 0)
    BY <1>1, TurnsAssumption DEF Msgs
  <2>. QED
    BY <1>1, <1>5, <2>1 DEF Tally, Open
<1>. QED
  BY <1>3, <1>4, <1>6, <1>7 DEF Inv

LEMMA InvStutters == ASSUME Inv, UNCHANGED turnsVars PROVE Inv'
<1>1. toRuntime' \in Seq(Calls) /\ toApp' \in Seq(Events) /\ tasks' \subseteq Tasks
      /\ {executing', restoring', recovery', interrupted'} \subseteq BOOLEAN
  BY DEF Inv, TurnsTypeOK, turnsVars, channels, runtime
<1>2. Control' /\ LedgerApart' /\ Flight' = Flight /\ Closed' = Closed
  BY PlacesQuiet DEF Inv, turnsVars, Fences, Traffic, fences, channels, runtime, caps
<1>. QED
  BY <1>1, <1>2, RuntimeKeeps DEF turnsVars

LEMMA InvNext == ASSUME MaxGoals <= 1, Inv, [TurnsNext]_turnsVars PROVE Inv'
<1>1. CASE UserActs
  <2>1. CASE Write
    BY <2>1, InvWrite
  <2>2. CASE RecallQueued
    BY <2>2, InvRecallQueued
  <2>3. CASE Enter \/ Chord
    <3>1. PICK key \in {"submit", "steer", "queue"} : PressKey(key)
      BY <2>3 DEF Enter, Chord
    <3>. QED
      BY <3>1, InvPressKey
  <2>4. CASE Interrupt
    BY <2>4, InvInterrupt
  <2>5. CASE Generated
    BY <2>5, InvGenerated
  <2>6. CASE \E t \in stashed : Recall(t)
    BY <2>6, InvRecall
  <2>7. CASE ClearContext
    BY <2>7, InvClearContext
  <2>8. CASE Copy
    BY <2>8, InvCopy
  <2>9. CASE ManageGoal
    BY <2>9, InvManageGoal
  <2>10. CASE \E i \in DOMAIN ledger : HandleRestore(i)
    BY <2>10, InvHandleRestore
  <2>. QED
    BY <1>1, <2>1, <2>2, <2>3, <2>4, <2>5, <2>6, <2>7, <2>8, <2>9, <2>10 DEF UserActs
<1>2. CASE Handles
  BY <1>2, InvOnSubmit, InvOnSteer, InvOnQueueMessage DEF Handles
<1>3. CASE Waits
  BY <1>3, InvClearProceeds, InvClearGivesUp, InvTimesOut DEF Waits
<1>4. CASE RestoreMoves
  BY <1>4, InvRestoreWaits, InvRestoreProceeds DEF RestoreMoves
<1>5. CASE Learns
  BY <1>5, InvTurnStarted, InvTurnFinished, InvSubmitted, InvGoalReturns, InvAnswered, InvRestored DEF Learns
<1>6. CASE Receives
  BY <1>6, InvReceives
<1>7. CASE \E k \in tasks : Works(k) \/ StepBoundary(k) \/ TurnEnds(k) \/ OpEnds(k)
  <2>1. PICK k \in tasks : Works(k) \/ StepBoundary(k) \/ TurnEnds(k) \/ OpEnds(k)
    BY <1>7
  <2>2. \/ GoalConfigured(k) \/ RecoveryEnds(k) \/ TurnBegins(k) \/ TurnCloses(k) \/ RestoreEnds(k)
        \/ StepBoundary(k) \/ TurnEnds(k) \/ OpEnds(k)
    BY <2>1 DEF Works
  <2>. QED
    BY <2>2, InvGoalConfigured, InvRecoveryEnds, InvTurnBegins, InvTurnCloses, InvRestoreEnds,
       InvStepBoundary, InvTurnEnds, InvOpEnds
<1>8. CASE UNCHANGED turnsVars
  BY <1>8, InvStutters
<1>. QED
  BY <1>1, <1>2, <1>3, <1>4, <1>5, <1>6, <1>7, <1>8 DEF TurnsNext

LEMMA TurnsInvariant == ASSUME MaxGoals <= 1 PROVE TurnsSpec => []Inv
<1>1. Inv /\ [TurnsNext]_turnsVars => Inv'
  BY InvNext
<1>. QED
  BY <1>1, InvInit, PTL DEF TurnsSpec

\* Turns keeps its types, if one goal is started at most.
THEOREM TurnsTypeCorrect == ASSUME MaxGoals <= 1 PROVE TurnsSpec => []TurnsTypeOK
<1>1. Inv => TurnsTypeOK
  BY DEF Inv
<1>. QED
  BY <1>1, TurnsInvariant, PTL

LEMMA Shares == ASSUME Inv PROVE OneAtTheContext
<1>. SUFFICES ASSUME NEW j \in OnContext, NEW k \in OnContext, j # k, "goal" \notin {j.kind, k.kind}
              PROVE  "restore" \in {j.kind, k.kind} /\ "finish" \in {j.phase, k.phase}
  BY DEF OneAtTheContext
<1>1. /\ j \in tasks /\ k \in tasks /\ j.phase \in {"run", "finish", "work"} /\ k.phase \in {"run", "finish", "work"}
      /\ j.kind \in Touching \cup OpKinds /\ k.kind \in Touching \cup OpKinds
  <2>1. \A i \in OnContext : i \in tasks /\ i.phase \in {"run", "finish", "work"}
    BY DEF OnContext
  <2>2. \A i \in tasks : i.kind \in TurnKinds \cup OpKinds \cup {"restore"}
    BY DEF Inv, TurnsTypeOK, Tasks
  <2>3. \A i \in OnContext : i.kind # "goal" => i.kind \in Touching \cup OpKinds
    BY <2>1, <2>2 DEF TurnKinds, Touching
  <2>. QED
    BY <2>1, <2>3
<1>2. ~OpTask(j) /\ ~OpTask(k)
  <2>1. \A i1, i2 \in tasks : OpTask(i1) => i2.kind \notin Touching
    BY DEF Inv, Control, Alone
  <2>2. \A i1, i2 \in tasks : OpTask(i1) /\ OpTask(i2) => i1 = i2
    BY DEF Inv, Control, OneOp
  <2>. QED
    BY <1>1, <2>1, <2>2 DEF OpTask
<1>3. j.kind \in Touching /\ k.kind \in Touching
  BY <1>1, <1>2 DEF OpTask
<1>4. ~(TurnTask(j) /\ TurnTask(k)) /\ ~(j.kind = "restore" /\ k.kind = "restore")
  BY <1>1 DEF Inv, Control, OneTurn, OneRestore
<1>5. \A i \in tasks : i.kind \in Touching => i.kind = "restore" \/ TurnTask(i)
  BY DEF Touching, TurnKinds, TurnTask
<1>6. \A i1, i2 \in OnContext : i1.kind = "restore" /\ TurnTask(i2) => i2.phase = "finish"
  <2>. SUFFICES ASSUME NEW i1 \in OnContext, NEW i2 \in OnContext, i1.kind = "restore", TurnTask(i2)
                PROVE  i2.phase = "finish"
    OBVIOUS
  <2>1. i1 \in tasks /\ i2 \in tasks /\ i1.phase \in {"run", "finish", "work"} /\ i2.phase \in {"run", "finish", "work"}
    BY DEF OnContext
  <2>2. i1.phase = "work" /\ i2.phase # "work"
    BY <2>1 DEF Inv, Control, ShapedTasks, TurnTask
  <2>3. restoring
    BY <2>1, <2>2 DEF Inv, Control, Flags
  <2>4. ~executing
    BY <2>3 DEF Inv, Control, Flags
  <2>5. i2.phase # "run"
    BY <2>1, <2>4 DEF Inv, Control, Flags
  <2>. QED
    BY <2>1, <2>2, <2>5
<1>. QED
  BY <1>1, <1>3, <1>4, <1>5, <1>6

\* A clear, a compaction, a snapshot, a restore and the turn of a prompt never work on the
\* context together: what the interface checks before it calls is enough, however late it
\* hears of the end of a turn, and whatever was refused, cancelled or timed out meanwhile.
THEOREM OneAtATime == ASSUME MaxGoals <= 1 PROVE TurnsSpec => []OneAtTheContext
<1>1. Inv => OneAtTheContext
  BY Shares
<1>. QED
  BY <1>1, TurnsInvariant, PTL

LEMMA InFlightIs == ASSUME Inv, NEW m \in Msgs PROVE InFlight(m) <=> m \in Flight
<1>1. m # Goal /\ m \in Pieces
  BY GoalApart DEF Pieces
<1>2. \A i \in DOMAIN toRuntime : m \in toRuntime[i].text => toRuntime[i].do \in {"prompt", "queued"}
  BY <1>1 DEF Inv, Control, ShapedCalls, TurnKinds
<1>3. \A k \in tasks : m \in k.text => k.phase # "configure"
  BY <1>1 DEF Inv, Control, ShapedTasks
<1>4. \A i \in DOMAIN toApp : Refusal(i) /\ m \in toApp[i].text => toApp[i].do \in {"prompt", "queued"}
  BY <1>1 DEF Inv, Control, ShapedEvents, Refusal, TurnKinds
<1>. QED
  BY <1>1, <1>2, <1>3, <1>4 DEF InFlight, Flight, Refusal, TurnKinds, Before

LEMMA StashedIs ==
  ASSUME Inv, NEW m
  PROVE  Cardinality({t \in stashed : m \in t}) = IF m \in Filed THEN 1 ELSE 0
<1>1. CASE m \in Filed
  <2>1. PICK u \in stashed : m \in u
    BY <1>1 DEF Filed
  <2>2. {t \in stashed : m \in t} = {u}
    BY <2>1 DEF Inv, FiledApart
  <2>. QED
    BY <1>1, <2>2, FS_Singleton
<1>2. CASE m \notin Filed
  <2>1. {t \in stashed : m \in t} = {}
    BY <1>2 DEF Filed
  <2>. QED
    BY <1>2, <2>1, FS_EmptySet
<1>. QED
  BY <1>1, <1>2

LEMMA Counts == ASSUME Inv, NEW m \in Msgs PROVE Places(m) = IF m <= written THEN 1 ELSE 0
<1>. DEFINE B(b) == IF b THEN 1 ELSE 0
<1>1. Places(m) = B(m \in composer) + Cardinality({t \in stashed : m \in t}) + B(posted # << >> /\ m \in posted[1].text)
                  + B(m \in slot) + B(m \in steer) + B(InFlight(m)) + runs[m] + B(m \in ended)
  BY DEF Places
<1>2. (posted # << >> /\ m \in posted[1].text) <=> m \in Posted
  BY PostedIs DEF Inv
<1>3. Places(m) = B(m \in composer) + B(m \in Filed) + B(m \in Posted)
                  + B(m \in slot) + B(m \in steer) + B(m \in Flight) + runs[m] + B(m \in ended)
  BY <1>1, <1>2, InFlightIs, StashedIs
<1>4. /\ runs[m] \in {0, 1}
      /\ m \in Open \cup ended => m <= written
      /\ runs[m] = 1 => m \notin Open \cup ended /\ m <= written
      /\ m <= written /\ runs[m] = 0 => m \in Open \cup ended
  BY DEF Inv, Tally
<1>5. m \in Open <=> m \in composer \/ m \in Filed \/ m \in Posted \/ m \in slot \/ m \in steer \/ m \in Flight
  BY DEF Open
<1>6. CASE m \notin Open \cup ended
  BY <1>3, <1>4, <1>5, <1>6
<1>7. CASE m \in Open \cup ended
  <2>1. runs[m] = 0 /\ m <= written
    BY <1>4, <1>7
  <2>2. /\ m \in composer => m \notin Filed \cup Posted \cup slot \cup steer \cup Flight \cup ended
        /\ m \in Filed => m \notin Posted \cup slot \cup steer \cup Flight \cup ended
        /\ m \in Posted => m \notin slot \cup steer \cup Flight \cup ended
        /\ m \in slot => m \notin steer \cup Flight \cup ended
        /\ m \in steer => m \notin Flight \cup ended
        /\ m \in Flight => m \notin ended
    BY DEF Inv, Sorted, Spread
  <2>. QED
    BY <1>3, <1>5, <1>7, <2>1, <2>2
<1>. QED
  BY <1>6, <1>7

\* Whatever the user wrote is in exactly one place: no refusal, failure, restore, cancelled
\* call or second draft loses a piece of it or runs it twice.
THEOREM NothingWrittenLost == ASSUME MaxGoals <= 1 PROVE TurnsSpec => []MessagesKept
<1>1. Inv => MessagesKept
  BY Counts DEF MessagesKept
<1>. QED
  BY <1>1, TurnsInvariant, PTL

=============================================================================
