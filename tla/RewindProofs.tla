---------------------------- MODULE RewindProofs ----------------------------
(***************************************************************************)
(* Proofs about what takes itself back when it fails half-way.             *)
(*                                                                         *)
(* Rewind, for any number of turns, restores and kills: no turn runs over  *)
(* a restore that a start would complete, and until the context is changed *)
(* behind the saver the user finds a conversation he was told of.  The     *)
(* disk may refuse any write but the one that takes a failed restore back: *)
(* an intent that is left behind by a restore that failed is completed by  *)
(* the next start.                                                         *)
(*                                                                         *)
(* LiveMCP, for any servers, tools and commands: whatever fails, nothing   *)
(* is lost from sight; with one failure in a command, what the user is     *)
(* told is so and the tools of other servers are left alone.               *)
(***************************************************************************)
EXTENDS Rewind, LiveMCP, FiniteSetTheorems, SequenceTheorems, TLAPS

-----------------------------------------------------------------------------
(* The invariant, which TLC has checked *)

Intents == [marker : Nat, kept : Nat, turns : Seq(Int), ready : BOOLEAN]

\* The ledger as far as a restore reads it: each boundary is a number.
Bounded(l) == \E S : l \in Seq(S) /\ \A r \in S : r.before \in Nat

Typed ==
  /\ saved \in Seq(Int) /\ ctx \in Seq(Int) /\ Bounded(ledger) /\ base \in Nat
  /\ {mark, next, restores, kills, faults} \subseteq Nat
  /\ intent \subseteq Intents /\ \A i, j \in intent : i = j
  /\ gate \in [pending : BOOLEAN, written : BOOLEAN, branch : BOOLEAN]
  /\ plan \in [scope : Scopes, cut : Nat, kept : Nat, orig : Seq(Int), id : Nat]
  /\ plan.cut <= Len(plan.orig) /\ plan.kept <= Len(ledger)

Ready == {i \in intent : i.ready}

\* What a start would find, were the process killed now, is one of X.
Found(X) == (Ready = {} => saved \in X) /\ \A i \in Ready : i.turns \in X

\* Nothing is to be recovered, and the saver's watermark is not ahead.
Settled == ~gate.pending /\ branch = {} /\ Ready = {} /\ mark <= 2 * Len(ctx)

\* Between turns, and in one.
Between ==
  /\ pc \in {"idle", "begun", "running", "ended"} => plan = NoPlan
  /\ pc = "idle" => Found(told)
  /\ pc = "begun" \/ Quiet => Settled /\ saved = ctx /\ ctx \in told
  /\ pc = "running" => /\ Settled /\ mark < 2 * Len(ctx) /\ ctx # << >>
                       /\ saved \in {ctx, Front(ctx)}
  /\ pc = "ended" => Settled /\ ctx # << >> /\ saved = ctx

\* The steps of a restore before it is sure to be completed, and after.
Undecided == {"stage", "set", "apply", "code", "arm", "undo", "abort", "unstage"}
Completing == {"write", "mark", "unlink"}

RestoreUndecided ==
  pc \in Undecided =>
    /\ Restoring /\ ~gate.pending /\ saved = plan.orig /\ mark <= 2 * Len(plan.orig)
    /\ \A i \in intent : i.turns = Sliced
    /\ pc \in {"apply", "code", "arm", "undo"} => plan.scope = "both" /\ Ready = {}
    /\ pc \in {"abort", "unstage"} => faults > 0
    /\ pc = "unstage" => intent = {}
    /\ pc \in {"stage", "set", "apply", "abort", "unstage"} => ctx = plan.orig
    /\ pc \in {"code", "arm"} => ctx = Sliced
    /\ pc \in {"stage", "apply", "code", "arm", "undo"} => branch = {}
    /\ pc \in {"stage", "set"} => plan.scope = "conversation" /\ Ready = intent
    /\ pc \in {"stage", "set", "apply", "code", "arm"} => intent # {}

RestoreDecided ==
  /\ pc \in {"save"} \cup Completing => intent # {} /\ \A i \in intent : i.ready
  /\ pc = "save" => Restoring
  /\ Restoring => pc \in Undecided \cup {"save", "branch"} \cup Completing
  /\ Restoring /\ pc \notin Undecided =>
       /\ ctx = Sliced /\ \A i \in intent : i.turns = Sliced /\ i.ready
       /\ pc # "branch" => ~gate.pending
       /\ saved \in {plan.orig, Sliced}
       /\ plan.scope = "both" => branch = {}
       /\ pc = "branch" /\ ~gate.pending => intent = {} /\ saved = Sliced /\ mark = 2 * plan.cut
       /\ pc = "branch" /\ gate.pending => plan.scope = "both" /\ intent # {}
  /\ pc \in {"mark", "unlink"} => \A i \in intent : saved = i.turns

\* A start and a retry.
Recovering ==
  /\ pc \in Completing \cup {"branch"} => plan.scope # "none"
  /\ plan.scope = "retry" => pc \in Completing \cup {"branch"} /\ gate.pending
  /\ plan.scope = "start" => pc \in Completing \cup {"open"}
  /\ plan.scope \in {"retry", "start"} => Found(told)
  /\ plan.scope = "retry" /\ pc = "branch" => intent = {}
  /\ pc = "open" => plan.scope = "start" /\ (~gate.pending => intent = {})
  /\ pc = "down" => Found(told)

Gates ==
  /\ gate.written => gate.pending /\ intent = {}
  /\ gate.pending => \A i \in intent : i.ready
  /\ pc \notin {"down", "failed", "open"} /\ plan.scope # "start" => gate.branch = (branch # {})

Inv == Between /\ RestoreUndecided /\ RestoreDecided /\ Recovering /\ Gates

\* What of it stays when the context was changed behind the saver: where a step
\* is, what waits on disk to be completed, and that the gate is closed then.
GuardedBetween ==
  /\ pc \in {"idle", "begun", "running", "ended"} => plan = NoPlan
  /\ pc \in {"begun", "running", "ended"} \/ Quiet => ~gate.pending /\ branch = {} /\ Ready = {}

GuardedUndecided ==
  pc \in Undecided =>
    /\ Restoring /\ ~gate.pending
    /\ pc \in {"apply", "code", "arm", "undo"} => plan.scope = "both" /\ Ready = {}
    /\ pc \in {"abort", "unstage"} => faults > 0
    /\ pc = "unstage" => intent = {}
    /\ pc \in {"stage", "apply", "code", "arm", "undo"} => branch = {}
    /\ pc \in {"stage", "set"} => plan.scope = "conversation"

GuardedDecided ==
  /\ pc = "save" => Restoring
  /\ Restoring => pc \in Undecided \cup {"save", "branch"} \cup Completing
  /\ Restoring /\ pc \notin Undecided =>
       /\ pc # "branch" => ~gate.pending
       /\ plan.scope = "both" => branch = {}
       /\ pc = "branch" /\ ~gate.pending => intent = {}
       /\ pc = "branch" /\ gate.pending => plan.scope = "both"

GuardedRecovery ==
  /\ pc \in Completing \cup {"branch"} => plan.scope # "none"
  /\ plan.scope = "retry" => pc \in Completing \cup {"branch"} /\ gate.pending
  /\ plan.scope = "start" => pc \in Completing \cup {"open"}
  /\ plan.scope = "retry" /\ pc = "branch" => intent = {}
  /\ pc = "open" => plan.scope = "start" /\ (~gate.pending => intent = {})

GuardedGates ==
  /\ gate.written => gate.pending /\ intent = {}
  /\ pc \notin {"down", "failed", "open"} /\ plan.scope # "start" => gate.branch = (branch # {})

Guarded == GuardedBetween /\ GuardedUndecided /\ GuardedDecided /\ GuardedRecovery /\ GuardedGates

-----------------------------------------------------------------------------
(* Sequences *)

LEMMA PrefixIs ==
  ASSUME NEW S, NEW s \in Seq(S), NEW n \in Nat, n <= Len(s)
  PROVE  SubSeq(s, 1, n) \in Seq(S) /\ Len(SubSeq(s, 1, n)) = n
<1>1. Len(s) \in Nat /\ \A i \in 1 .. n : s[i] \in S
  BY LenProperties, ElementOfSeq
<1>. QED
  BY <1>1, SubSeqProperties

LEMMA FrontIs ==
  ASSUME NEW S, NEW s \in Seq(S)
  PROVE  Front(s) \in Seq(S)
<1>1. Len(s) \in Nat /\ \A i \in 1 .. Len(s) - 1 : s[i] \in S
  BY LenProperties, ElementOfSeq
<1>. QED
  BY <1>1, SubSeqProperties DEF Front

\* A turn more: the conversation without it is the one before it.
LEMMA TurnAdded ==
  ASSUME NEW S, NEW s \in Seq(S), NEW t \in S
  PROVE  /\ Append(s, t) \in Seq(S) /\ Len(Append(s, t)) = Len(s) + 1
         /\ Front(Append(s, t)) = s /\ Append(s, t) # << >>
<1>1. /\ Append(s, t) \in Seq(S) /\ Len(Append(s, t)) = Len(s) + 1 /\ Len(s) \in Nat
      /\ \A i \in 1 .. Len(s) : Append(s, t)[i] = s[i]
  BY LenProperties, AppendProperties
<1>2. Append(s, t) # << >>
  BY <1>1, EmptySeq
<1>. PICK u : u = Append(s, t)
  OBVIOUS
<1>3. /\ SubSeq(u, 1, Len(s)) \in Seq(S) /\ Len(SubSeq(u, 1, Len(s))) = Len(s)
      /\ \A i \in 1 .. Len(s) : SubSeq(u, 1, Len(s))[i] = u[1 + i - 1]
  <2>1. \A i \in 1 .. Len(s) : u[i] \in S
    BY <1>1, ElementOfSeq
  <2>2. Len(s) - 1 + 1 = Len(s) /\ (1 <= Len(s) \/ Len(s) = 0)
    BY <1>1
  <2>. QED
    BY <1>1, <2>1, <2>2, SubSeqProperties
<1>4. \A i \in 1 .. Len(s) : SubSeq(u, 1, Len(s))[i] = s[i]
  <2>1. \A i \in 1 .. Len(s) : 1 + i - 1 = i
    BY <1>1
  <2>. QED
    BY <1>1, <1>3, <2>1
<1>5. SubSeq(u, 1, Len(s)) = s
  BY <1>3, <1>4, SeqEqual
<1>6. Len(u) - 1 = Len(s)
  BY <1>1
<1>. QED
  BY <1>1, <1>2, <1>5, <1>6 DEF Front

LEMMA NothingBounded == Bounded(<< >>)
<1>. PICK S : S = {}
  OBVIOUS
<1>1. << >> \in Seq(S)
  BY EmptySeq
<1>2. \A r \in S : r.before \in Nat
  OBVIOUS
<1>. QED
  BY <1>1, <1>2 DEF Bounded

LEMMA LedgerIs ==
  ASSUME Typed
  PROVE  /\ Boundary \in Nat
         /\ \A i \in DOMAIN ledger : ledger[i].before \in Nat /\ i \in Nat /\ i - 1 \in Nat /\ i - 1 <= Len(ledger)
         /\ \A r : r.before \in Nat => Bounded(Append(ledger, r)) /\ Len(Append(ledger, r)) = Len(ledger) + 1
         /\ Len(ledger) \in Nat
         /\ \A n \in Nat : n <= Len(ledger) => Bounded(SubSeq(ledger, 1, n)) /\ Len(SubSeq(ledger, 1, n)) = n
<1>1. PICK S : ledger \in Seq(S) /\ \A r \in S : r.before \in Nat
  BY DEF Typed, Bounded
<1>2. Len(ledger) \in Nat /\ DOMAIN ledger = 1 .. Len(ledger) /\ \A i \in 1 .. Len(ledger) : ledger[i] \in S
  BY <1>1, LenProperties, ElementOfSeq
<1>3. \A i \in DOMAIN ledger : ledger[i].before \in Nat /\ i \in Nat /\ i - 1 \in Nat /\ i - 1 <= Len(ledger)
  BY <1>1, <1>2
<1>4. Boundary \in Nat
  <2>1. CASE ledger = << >>
    BY <2>1 DEF Boundary, Typed
  <2>2. CASE ledger # << >>
    <3>1. Len(ledger) \in DOMAIN ledger
      BY <1>1, <1>2, <2>2, EmptySeq
    <3>. QED
      BY <1>3, <2>2, <3>1 DEF Boundary, Last
  <2>. QED
    BY <2>1, <2>2
<1>5. ASSUME NEW r, r.before \in Nat PROVE Bounded(Append(ledger, r)) /\ Len(Append(ledger, r)) = Len(ledger) + 1
  <2>1. ledger \in Seq(S \cup {r})
    BY <1>1, SeqMonotonic
  <2>2. Append(ledger, r) \in Seq(S \cup {r}) /\ Len(Append(ledger, r)) = Len(ledger) + 1
    BY <2>1, AppendProperties
  <2>. QED
    BY <1>1, <1>5, <2>2 DEF Bounded
<1>6. ASSUME NEW n \in Nat, n <= Len(ledger)
      PROVE  Bounded(SubSeq(ledger, 1, n)) /\ Len(SubSeq(ledger, 1, n)) = n
  BY <1>1, <1>6, PrefixIs DEF Bounded
<1>. QED
  BY <1>2, <1>3, <1>4, <1>5, <1>6

-----------------------------------------------------------------------------
(* What is written and remembered has its shape *)

LEMMA InitHolds ==
  Init => Typed /\ Inv
<1>. SUFFICES ASSUME Init PROVE Typed /\ Inv
  OBVIOUS
<1>1. Len(<< >>) = 0 /\ << >> \in Seq(Int) /\ Bounded(<< >>)
  BY NothingBounded
<1>2. Typed
  <2>1. NoPlan \in [scope : Scopes, cut : Nat, kept : Nat, orig : Seq(Int), id : Nat]
    BY <1>1 DEF NoPlan, Scopes
  <2>2. NoPlan.cut <= Len(NoPlan.orig) /\ NoPlan.kept = 0
    BY <1>1 DEF NoPlan
  <2>3. gate \in [pending : BOOLEAN, written : BOOLEAN, branch : BOOLEAN]
    BY DEF Init, Open
  <2>. QED
    BY <1>1, <2>1, <2>2, <2>3 DEF Init, Typed
<1>3. Ready = {} /\ Settled /\ Quiet /\ Found(told)
  BY <1>1 DEF Init, Ready, Settled, Found, Quiet, Open
<1>4. ~Restoring /\ plan.scope = "none"
  BY DEF Init, Restoring, NoPlan
<1>5. Between
  BY <1>3 DEF Init, Between
<1>6. RestoreUndecided /\ RestoreDecided /\ Recovering
  BY <1>4 DEF Init, RestoreUndecided, RestoreDecided, Recovering, Undecided, Completing
<1>7. Gates
  BY DEF Init, Gates, Open
<1>. QED
  BY <1>2, <1>5, <1>6, <1>7 DEF Inv

LEMMA PlanIs ==
  ASSUME Typed
  PROVE  /\ Sliced \in Seq(Int) /\ Len(Sliced) = plan.cut /\ plan.cut \in Nat /\ plan.kept \in Nat
         /\ plan.orig \in Seq(Int) /\ Len(plan.orig) \in Nat
         /\ 2 * Len(ctx) \in Nat /\ 2 * Len(ctx) - 1 \in Int /\ Len(ctx) \in Nat /\ 2 * Len(saved) \in Nat
<1>1. /\ plan.orig \in Seq(Int) /\ plan.cut \in Nat /\ plan.kept \in Nat /\ plan.cut <= Len(plan.orig)
      /\ ctx \in Seq(Int) /\ saved \in Seq(Int)
  BY DEF Typed
<1>2. Len(plan.orig) \in Nat /\ Len(ctx) \in Nat /\ Len(saved) \in Nat
  BY <1>1, LenProperties
<1>3. Sliced \in Seq(Int) /\ Len(Sliced) = plan.cut
  BY <1>1, PrefixIs DEF Sliced
<1>. QED
  BY <1>1, <1>2, <1>3

\* The parts of the shape that most steps leave alone.
Lists == saved \in Seq(Int) /\ ctx \in Seq(Int) /\ Bounded(ledger) /\ base \in Nat
Counts == {mark, next, restores, kills, faults} \subseteq Nat
Intended == intent \subseteq Intents /\ \A i, j \in intent : i = j
Gated == gate \in [pending : BOOLEAN, written : BOOLEAN, branch : BOOLEAN]
Planned == /\ plan \in [scope : Scopes, cut : Nat, kept : Nat, orig : Seq(Int), id : Nat]
           /\ plan.cut <= Len(plan.orig)

Shaped == Lists /\ Counts /\ Intended /\ Gated /\ Planned /\ plan.kept <= Len(ledger)

LEMMA TypedIs == Typed <=> Shaped
BY DEF Typed, Shaped, Lists, Counts, Intended, Gated, Planned

LEMMA NoPlanIs ==
  /\ NoPlan \in [scope : Scopes, cut : Nat, kept : Nat, orig : Seq(Int), id : Nat]
  /\ NoPlan.cut <= Len(NoPlan.orig) /\ NoPlan.kept = 0
BY DEF NoPlan, Scopes

LEMMA ScopedIs ==
  ASSUME NEW c \in Scopes, NEW p, p = [NoPlan EXCEPT !.scope = c]
  PROVE  /\ p \in [scope : Scopes, cut : Nat, kept : Nat, orig : Seq(Int), id : Nat]
         /\ p.cut <= Len(p.orig) /\ p.kept = 0
<1>1. p = [scope |-> c, cut |-> 0, kept |-> 0, orig |-> << >>, id |-> 0]
  BY DEF NoPlan
<1>2. << >> \in Seq(Int) /\ Len(<< >>) = 0
  BY EmptySeq
<1>. PICK o \in Seq(Int) : o = << >> /\ Len(o) = 0
  BY <1>2
<1>3. p = [scope |-> c, cut |-> 0, kept |-> 0, orig |-> o, id |-> 0]
  BY <1>1
<1>4. p.cut = 0 /\ p.kept = 0 /\ p.orig = o
  BY <1>3
<1>5. p \in [scope : Scopes, cut : Nat, kept : Nat, orig : Seq(Int), id : Nat]
  BY ONLY <1>3, c \in Scopes, o \in Seq(Int)
<1>. QED
  BY <1>4, <1>5

\* Turns.
LEMMA TypedTurns ==
  ASSUME Shaped, Typed, Begin \/ Submit \/ ToolPost \/ Finish \/ CloseOut
  PROVE  Shaped'
<1>1. Lists /\ Counts /\ Intended /\ Gated /\ Planned /\ plan.kept <= Len(ledger)
  BY DEF Shaped
<1>2. Intended' /\ Gated' /\ Planned'
  BY <1>1 DEF Intended, Gated, Planned, Begin, Submit, ToolPost, Finish, CloseOut, memory
<1>3. Counts'
  <2>1. mark' = mark \/ (mark' \in {2 * Len(ctx) - 1, 2 * Len(ctx)} /\ mark' > mark)
    BY DEF Begin, Submit, ToolPost, Finish, CloseOut, SaveIfGrown, memory
  <2>2. mark' \in Nat
    BY <1>1, <2>1, PlanIs DEF Counts
  <2>3. next' = next \/ next' = next + 1
    BY DEF Begin, Submit, ToolPost, Finish, CloseOut, counts
  <2>4. UNCHANGED <<restores, kills, faults>>
    BY DEF Begin, Submit, ToolPost, Finish, CloseOut, counts
  <2>. QED
    BY <1>1, <2>2, <2>3, <2>4 DEF Counts
<1>4. Lists'
  <2>1. CASE Begin
    BY <1>1, <2>1 DEF Lists, Begin, memory
  <2>2. CASE Submit
    <3>1. next - 1 \in Int /\ ctx' = Append(ctx, next - 1)
      BY <1>1, <2>2 DEF Counts, Submit
    <3>2. ctx' \in Seq(Int)
      BY <1>1, <3>1, TurnAdded DEF Lists
    <3>. QED
      BY <1>1, <2>2, <3>2 DEF Lists, Submit
  <2>3. CASE ToolPost \/ Finish
    BY <1>1, <2>3 DEF Lists, ToolPost, Finish, SaveIfGrown
  <2>4. CASE CloseOut
    <3>1. ledger' = Append(ledger, [turn |-> next - 1, before |-> Boundary])
      BY <2>4 DEF CloseOut
    <3>2. Bounded(ledger')
      BY <3>1, LedgerIs
    <3>. QED
      BY <1>1, <2>4, <3>2 DEF Lists, CloseOut
  <2>. QED
    BY <2>1, <2>2, <2>3, <2>4
<1>5. plan' = plan
  BY DEF Begin, Submit, ToolPost, Finish, CloseOut
<1>6. ledger' = ledger \/ Len(ledger') = Len(ledger) + 1
  <2>1. [turn |-> next - 1, before |-> Boundary].before \in Nat
    BY LedgerIs
  <2>. QED
    BY <2>1, LedgerIs DEF Begin, Submit, ToolPost, Finish, CloseOut, memory
<1>7. plan'.kept <= Len(ledger')
  BY <1>1, <1>5, <1>6, LedgerIs, PlanIs
<1>. QED
  BY <1>2, <1>3, <1>4, <1>7 DEF Shaped

\* A restore, up to the point where it is sure to be completed.
LEMMA TypedRestore ==
  ASSUME Shaped, Typed, NEW i \in DOMAIN ledger, NEW c \in {"both", "conversation"}, Restore(i, c)
  PROVE  Shaped'
<1>1. Lists /\ Counts /\ Intended /\ Gated /\ Planned /\ plan.kept <= Len(ledger)
  BY DEF Shaped
<1>2. /\ ledger[i].before \in Nat /\ ledger[i].before <= Len(ctx) /\ i - 1 \in Nat /\ restores' \in Nat
      /\ ctx \in Seq(Int)
  BY <1>1, LedgerIs DEF Restore, Counts, Lists
<1>3. SubSeq(ctx, 1, ledger[i].before) \in Seq(Int)
  BY <1>2, PrefixIs
<1>4. Intended'
  BY <1>2, <1>3 DEF Restore, Intended, Intents
<1>5. Planned'
  BY <1>2 DEF Restore, Planned, Scopes
<1>6. Lists' /\ Counts' /\ Gated'
  BY <1>1 DEF Restore, Lists, Counts, Gated, memory
<1>7. plan'.kept <= Len(ledger')
  BY LedgerIs DEF Restore, memory
<1>. QED
  BY <1>4, <1>5, <1>6, <1>7 DEF Shaped

\* The context is cleared, or stays cut off.
LEMMA TypedApart ==
  ASSUME Shaped, Typed, (Clear /\ plan = NoPlan) \/ UndoRefused
  PROVE  Shaped'
<1>1. Lists /\ Counts /\ Intended /\ Gated /\ Planned /\ plan.kept <= Len(ledger)
  BY DEF Shaped
<1>2. UNCHANGED <<saved, intent, gate, mark, next, restores, kills>> /\ (faults' = faults \/ faults' = faults + 1)
  BY DEF Clear, UndoRefused, Fault, disk, memory, counts
<1>3. Counts' /\ Intended' /\ Gated'
  BY <1>1, <1>2 DEF Counts, Intended, Gated
<1>4. Planned' /\ plan'.kept = 0
  BY <1>1, NoPlanIs DEF Clear, UndoRefused, Planned
<1>5. << >> \in Seq(Int) /\ 0 \in Nat
  BY EmptySeq
<1>6. Lists'
  BY <1>1, <1>2, <1>5, NothingBounded DEF Lists, Clear, UndoRefused, memory
<1>7. Len(ledger') \in Nat
  <2>1. Len(ledger) \in Nat
    BY LedgerIs
  <2>2. ledger' = << >> \/ ledger' = ledger
    BY DEF Clear, UndoRefused, memory
  <2>. QED
    BY <2>1, <2>2
<1>. QED
  BY <1>3, <1>4, <1>6, <1>7 DEF Shaped

LEMMA TypedUndecided ==
  ASSUME Shaped, Typed, Stage \/ SetMessages \/ Abort \/ Unstage \/ Code \/ Undo \/ Arm \/ ForceSave
  PROVE  Shaped'
<1>1. Lists /\ Counts /\ Intended /\ Gated /\ Planned /\ plan.kept <= Len(ledger)
  BY DEF Shaped
<1>2. Planned'
  BY <1>1, NoPlanIs DEF Planned, Stage, SetMessages, Abort, Unstage, Code, Undo, Arm, ForceSave, Settle
<1>3. Gated'
  BY <1>1 DEF Gated, Stage, SetMessages, Abort, Unstage, Code, Undo, Arm, ForceSave, memory
<1>4. Intended'
  <2>1. CASE Arm
    BY <1>1, <2>1 DEF Arm, Intended, Intents
  <2>2. CASE intent' = {} \/ intent' = intent
    BY <1>1, <2>2 DEF Intended
  <2>. QED
    BY <2>1, <2>2 DEF Stage, SetMessages, Abort, Unstage, Code, Undo, ForceSave, disk
<1>5. Counts'
  <2>1. UNCHANGED <<next, restores, kills>>
    BY DEF Stage, SetMessages, Abort, Unstage, Code, Undo, Arm, ForceSave, counts
  <2>2. faults' = faults \/ faults' = faults + 1
    BY DEF Stage, SetMessages, Abort, Unstage, Code, Undo, Arm, ForceSave, Fault
  <2>3. mark' = mark \/ mark' = 2 * Len(ctx)
    BY DEF Stage, SetMessages, Abort, Unstage, Code, Undo, Arm, ForceSave, memory
  <2>. QED
    BY <1>1, <2>1, <2>2, <2>3, PlanIs DEF Counts
<1>6. Lists'
  BY <1>1, PlanIs DEF Lists, Stage, SetMessages, Abort, Unstage, Code, Undo, Arm, ForceSave, memory, disk, Planned
<1>7. ledger' = ledger /\ (plan' = plan \/ plan' = NoPlan)
  BY DEF Stage, SetMessages, Abort, Unstage, Code, Undo, Arm, ForceSave, Settle, memory
<1>8. plan'.kept <= Len(ledger')
  BY <1>1, <1>7, NoPlanIs, LedgerIs
<1>. QED
  BY <1>2, <1>3, <1>4, <1>5, <1>6, <1>8 DEF Shaped

\* A restore that is completed, now or later.
LEMMA TypedDeferred ==
  ASSUME Shaped, Typed, Deferred, plan.scope # "none"
  PROVE  Shaped'
<1>1. Lists /\ Counts /\ Intended /\ Gated /\ Planned /\ plan.kept <= Len(ledger)
  BY DEF Shaped
<1>2. /\ UNCHANGED <<saved, ctx, intent, mark, next, restores, kills>> /\ faults' = faults + 1
      /\ gate' = [gate EXCEPT !.pending = TRUE]
  BY DEF Deferred, Fault, disk, counts
<1>3. Intended' /\ Counts' /\ Gated'
  <2>1. Intended' /\ Counts'
    BY <1>1, <1>2 DEF Intended, Counts
  <2>2. Gated'
    BY <1>1, <1>2 DEF Gated
  <2>. QED
    BY <2>1, <2>2
<1>4. plan' = plan \/ plan' = NoPlan
  BY <1>1 DEF Deferred, Settle, Planned, Scopes, Restoring
<1>5. Planned' /\ (plan'.kept = plan.kept \/ plan'.kept = 0)
  BY <1>1, <1>4, NoPlanIs DEF Planned
<1>6. \/ ledger' = ledger /\ base' = base
      \/ ledger' = SubSeq(ledger, 1, plan.kept) /\ base' = plan.cut /\ plan' = NoPlan
  BY <1>1 DEF Deferred, Settle, Planned, Scopes, Restoring
<1>7. Lists'
  BY <1>1, <1>2, <1>6, LedgerIs, PlanIs DEF Lists
<1>8. plan'.kept <= Len(ledger')
  <2>1. CASE ledger' = ledger
    BY <1>1, <1>5, <2>1, LedgerIs
  <2>2. CASE ledger' = SubSeq(ledger, 1, plan.kept) /\ plan' = NoPlan
    BY <1>1, <2>2, LedgerIs, PlanIs, NoPlanIs
  <2>. QED
    BY <1>6, <2>1, <2>2
<1>. QED
  BY <1>3, <1>5, <1>7, <1>8 DEF Shaped

LEMMA TypedDecided ==
  ASSUME Shaped, Typed, WriteTranscript \/ AppendMarker \/ Unlink \/ Reconcile,
         pc \in Completing => plan.scope # "none"
  PROVE  Shaped'
<1>1. Lists /\ Counts /\ Intended /\ Gated /\ Planned /\ plan.kept <= Len(ledger)
  BY DEF Shaped
<1>3. CASE Reconcile
  <2>1. Planned' /\ Gated' /\ Intended'
    BY <1>1, <1>3, NoPlanIs DEF Planned, Gated, Intended, Reconcile, Settle
  <2>2. UNCHANGED <<mark, next, restores, kills>> /\ (faults' = faults \/ faults' = faults + 1)
    BY <1>3 DEF Reconcile, Fault, counts
  <2>3. Counts'
    BY <1>1, <2>2 DEF Counts
  <2>4. Lists'
    BY <1>1, <1>3, LedgerIs, PlanIs DEF Lists, Reconcile
  <2>5. plan'.kept <= Len(ledger')
    BY <1>1, <1>3, LedgerIs, PlanIs, NoPlanIs DEF Reconcile, Settle
  <2>. QED
    BY <2>1, <2>3, <2>4, <2>5 DEF Shaped
<1>4. CASE WriteTranscript /\ ~Deferred
  <2>. PICK j \in intent : j = CHOOSE i \in intent : TRUE
    BY <1>4 DEF WriteTranscript
  <2>1. j.turns \in Seq(Int)
    BY <1>1 DEF Intended, Intents
  <2>. QED
    BY <1>1, <1>4, <2>1 DEF Shaped, WriteTranscript, Lists, Counts, Intended, Gated, Planned, memory, counts
<1>5. CASE AppendMarker /\ ~Deferred
  BY <1>1, <1>5 DEF Shaped, AppendMarker, Lists, Counts, Intended, Gated, Planned, memory, counts
<1>6. CASE Unlink /\ ~Deferred
  <2>1. Lists' /\ Intended' /\ Planned'
    BY <1>1, <1>6 DEF Unlink, Lists, Intended, Planned
  <2>2. Counts'
    BY <1>1, <1>6, PlanIs DEF Unlink, Counts, counts
  <2>3. Gated'
    BY <1>1, <1>6 DEF Unlink, Gated
  <2>4. plan'.kept <= Len(ledger')
    BY <1>1, <1>6 DEF Unlink
  <2>. QED
    BY <2>1, <2>2, <2>3, <2>4 DEF Shaped
<1>2. CASE Deferred /\ ~Reconcile
  BY <1>2, TypedDeferred DEF Completing, WriteTranscript, AppendMarker, Unlink
<1>. QED
  BY <1>2, <1>3, <1>4, <1>5, <1>6

\* Retries, kills and starts.
LEMMA TypedStarts ==
  ASSUME Shaped, Typed, Retry \/ RetryBranch \/ Kill \/ Start \/ Opened
  PROVE  Shaped'
<1>1. Lists /\ Counts /\ Intended /\ Gated /\ Planned /\ plan.kept <= Len(ledger)
  BY DEF Shaped
<1>2. ASSUME plan'.kept = 0, Lists' PROVE plan'.kept <= Len(ledger')
  <2>1. PICK S : ledger' \in Seq(S)
    BY <1>2 DEF Lists, Bounded
  <2>2. Len(ledger') \in Nat
    BY <2>1, LenProperties
  <2>. QED
    BY <1>2, <2>2
<1>7. CASE Retry
  <2>1. plan' = [NoPlan EXCEPT !.scope = "retry"] /\ "retry" \in Scopes
    BY <1>7 DEF Retry, Scopes
  <2>2. Planned'
    BY <2>1, ScopedIs DEF Planned
  <2>. QED
    BY <1>1, <1>7, <1>2, <2>1, <2>2, ScopedIs DEF Shaped, Retry, Lists, Counts, Intended, Gated, disk, memory, counts
<1>3. CASE RetryBranch
  <2>1. Planned' /\ Intended'
    BY <1>1, <1>3, NoPlanIs DEF Planned, Intended, RetryBranch
  <2>2. gate' = gate \/ gate' = Open
    BY <1>3 DEF RetryBranch
  <2>3. Gated'
    <3>1. Open \in [pending : BOOLEAN, written : BOOLEAN, branch : BOOLEAN]
      BY DEF Open
    <3>. QED
      BY <1>1, <2>2, <3>1 DEF Gated
  <2>4. /\ ctx' = saved /\ UNCHANGED <<saved, ledger, base, next, restores, kills>>
        /\ mark' = mark \/ mark' = 2 * Len(saved)
        /\ faults' = faults \/ faults' = faults + 1
    BY <1>3 DEF RetryBranch, Fault, counts
  <2>5. Lists' /\ Counts'
    BY <1>1, <2>4, PlanIs DEF Lists, Counts
  <2>. QED
    BY <1>2, <1>3, <2>1, <2>3, <2>5, NoPlanIs DEF Shaped, RetryBranch
<1>4. CASE Kill
  <2>1. Planned' /\ Intended' /\ Gated' /\ Counts'
    BY <1>1, <1>4, NoPlanIs DEF Planned, Intended, Gated, Counts, Kill, Open, disk
  <2>2. Lists'
    BY <1>1, <1>4, NothingBounded DEF Lists, Kill, disk
  <2>. QED
    BY <1>2, <1>4, <2>1, <2>2, NoPlanIs DEF Shaped, Kill
<1>5. CASE Start
  <2>1. plan' = [NoPlan EXCEPT !.scope = "start"] /\ "start" \in Scopes
    BY <1>5 DEF Start, Scopes
  <2>2. Planned'
    BY <2>1, ScopedIs DEF Planned
  <2>3. intent' \subseteq intent
    BY <1>5 DEF Start
  <2>. QED
    BY <1>1, <1>2, <1>5, <2>1, <2>2, <2>3, ScopedIs DEF Shaped, Start, Lists, Counts, Intended, Gated, memory, counts
<1>6. CASE Opened
  <2>1. Planned' /\ Intended'
    BY <1>1, <1>6, NoPlanIs DEF Planned, Intended, Opened
  <2>2. /\ UNCHANGED <<next, restores, kills>> /\ (mark' = mark \/ mark' = 0)
        /\ faults' = faults \/ faults' = faults + 1
    BY <1>6 DEF Opened, Fault, memory, counts
  <2>3. Counts'
    BY <1>1, <2>2 DEF Counts
  <2>4. \/ gate' = gate
        \/ gate' = [pending |-> gate.pending \/ branch' # {},
                    written |-> branch' # {} /\ ~gate.pending, branch |-> branch' # {}]
    BY <1>6 DEF Opened, memory
  <2>5. Gated'
    <3>1. gate.pending \in BOOLEAN
      BY <1>1 DEF Gated
    <3>. PICK x \in BOOLEAN : x = (branch' # {})
      OBVIOUS
    <3>2. [pending |-> gate.pending \/ x, written |-> x /\ ~gate.pending, branch |-> x]
             \in [pending : BOOLEAN, written : BOOLEAN, branch : BOOLEAN]
      BY <3>1
    <3>. QED
      BY <1>1, <2>4, <3>2 DEF Gated
  <2>6. Bounded(LedgerOf(Replayed))
    <3>. PICK l : l = LedgerOf(Replayed)
      OBVIOUS
    <3>. PICK R : R = Replayed
      OBVIOUS
    <3>1. CASE l = << >>
      BY <3>1, NothingBounded
    <3>2. CASE l = [k \in 1 .. Len(saved) |-> [turn |-> R[k].turn, before |-> k - 1]]
      <4>. DEFINE S == {[turn |-> R[k].turn, before |-> k - 1] : k \in 1 .. Len(saved)}
      <4>1. Len(saved) \in Nat
        BY <1>1, LenProperties DEF Lists
      <4>2. l \in Seq(S)
        BY <3>2, <4>1
      <4>3. \A r \in S : r.before \in Nat
        BY <4>1
      <4>. HIDE DEF S
      <4>. QED
        BY <4>2, <4>3 DEF Bounded
    <3>. QED
      BY <3>1, <3>2 DEF LedgerOf
  <2>7. Lists'
    BY <1>1, <1>6, <2>6, PlanIs DEF Lists, Opened, memory
  <2>. QED
    BY <1>2, <1>6, <2>1, <2>3, <2>5, <2>7, NoPlanIs DEF Shaped, Opened
<1>. QED
  BY <1>7, <1>3, <1>4, <1>5, <1>6

LEMMA TypedNext ==
  ASSUME Shaped, Guarded, [Next]_vars
  PROVE  Shaped'
<1>1. CASE UNCHANGED vars
  BY <1>1 DEF vars, disk, memory, counts, Shaped, Lists, Counts, Intended, Gated, Planned, Bounded
<1>2. (pc \in Completing => plan.scope # "none") /\ (pc = "idle" => plan = NoPlan)
  BY DEF Guarded, GuardedBetween, GuardedRecovery
<1>3. Clear => plan = NoPlan
  BY <1>2 DEF Clear
<1>. QED
  BY <1>1, <1>2, <1>3, TypedIs, TypedTurns, TypedApart, TypedRestore, TypedUndecided, TypedDecided, TypedStarts DEF Next

-----------------------------------------------------------------------------
(* The invariant is kept while every restore that failed is taken back *)

LEMMA InvTurns ==
  ASSUME Shaped, Typed, Inv, Begin \/ Submit \/ ToolPost \/ Finish \/ CloseOut
  PROVE  Inv'
<1>1. /\ plan = NoPlan /\ plan' = plan /\ UNCHANGED <<branch, gate, intent, faults>>
      /\ pc \in {"idle", "begun", "running", "ended"} /\ pc' \in {"idle", "begun", "running", "ended"}
      /\ ~gate.pending /\ Settled
  BY DEF Begin, Submit, ToolPost, Finish, CloseOut, memory, counts, Inv, Between, Quiet, Settled
<1>2. plan.scope = "none" /\ ~Restoring
  BY <1>1 DEF NoPlan, Restoring
<1>3. RestoreUndecided' /\ RestoreDecided' /\ Recovering'
  BY <1>1, <1>2 DEF RestoreUndecided, RestoreDecided, Recovering, Restoring, Undecided, Completing
<1>4. Gates'
  BY <1>1, <1>2 DEF Inv, Gates
<1>5. branch' = {} /\ Ready' = {} /\ Ready = {} /\ ~gate'.pending
  BY <1>1 DEF Settled, Ready
<1>6. mark \in Nat /\ next \in Nat /\ ctx \in Seq(Int) /\ Len(ctx) \in Nat
  BY PlanIs DEF Typed
<1>7. CASE Begin
  <2>1. saved' = saved /\ ctx' = ctx /\ told' = told /\ mark' = mark /\ pc' = "begun" /\ pc = "idle"
    BY <1>7 DEF Begin, memory, seen
  <2>. QED
    BY <1>1, <1>3, <1>4, <1>5, <2>1 DEF Inv, Between, Settled, Quiet
<1>8. CASE Submit
  <2>1. saved' = saved /\ ctx' = Append(ctx, next - 1) /\ mark' = mark /\ pc' = "running" /\ pc = "begun"
    BY <1>8 DEF Submit
  <2>2. ctx' # << >> /\ Len(ctx') = Len(ctx) + 1 /\ Front(ctx') = ctx
    BY <1>6, <2>1, TurnAdded
  <2>3. saved = ctx /\ mark <= 2 * Len(ctx)
    BY <2>1 DEF Inv, Between, Settled
  <2>4. mark' < 2 * Len(ctx') /\ mark' <= 2 * Len(ctx')
    BY <1>6, <2>1, <2>2, <2>3
  <2>5. Settled' /\ saved' \in {ctx', Front(ctx')}
    BY <1>5, <2>1, <2>2, <2>3, <2>4 DEF Settled
  <2>6. Between'
    BY <1>1, <2>1, <2>2, <2>4, <2>5 DEF Between, Quiet
  <2>. QED
    BY <1>3, <1>4, <2>6 DEF Inv
<1>9. CASE ToolPost
  <2>1. /\ ctx' = ctx /\ pc' = "running" /\ pc = "running"
        /\ (saved' = saved /\ mark' = mark) \/ (saved' = ctx /\ mark' = 2 * Len(ctx) - 1)
    BY <1>9 DEF ToolPost, SaveIfGrown
  <2>2. mark' < 2 * Len(ctx') /\ mark' <= 2 * Len(ctx')
    BY <1>6, <2>1 DEF Inv, Between
  <2>. QED
    BY <1>1, <1>3, <1>4, <1>5, <2>1, <2>2 DEF Inv, Between, Settled, Quiet
<1>10. CASE Finish
  <2>1. mark < 2 * Len(ctx) /\ ctx # << >>
    BY <1>10 DEF Inv, Between, Finish
  <2>2. 2 * Len(ctx) > mark
    BY <1>6, <2>1
  <2>3. ctx' = ctx /\ pc' = "ended" /\ saved' = ctx /\ mark' = 2 * Len(ctx)
    BY <1>10, <2>2 DEF Finish, SaveIfGrown
  <2>4. mark' <= 2 * Len(ctx')
    BY <1>6, <2>3
  <2>. QED
    BY <1>1, <1>3, <1>4, <1>5, <2>1, <2>3, <2>4 DEF Inv, Between, Settled, Quiet
<1>11. CASE CloseOut
  <2>1. saved' = saved /\ ctx' = ctx /\ told' = {ctx} /\ mark' = mark /\ pc' = "idle" /\ pc = "ended"
    BY <1>11 DEF CloseOut
  <2>2. saved = ctx
    BY <2>1 DEF Inv, Between
  <2>. QED
    BY <1>1, <1>3, <1>4, <1>5, <2>1, <2>2 DEF Inv, Between, Settled, Quiet, Found
<1>. QED
  BY <1>7, <1>8, <1>9, <1>10, <1>11

LEMMA InvRestore ==
  ASSUME Shaped, Typed, Inv, NEW i \in DOMAIN ledger, NEW c \in {"both", "conversation"}, Restore(i, c)
  PROVE  Inv'
<1>1. /\ pc = "idle" /\ Settled /\ saved = ctx /\ mark <= 2 * Len(ctx)
  BY DEF Restore, Inv, Between, Quiet, Settled
<1>2. /\ UNCHANGED <<saved, ctx, branch, mark, gate, faults>>
      /\ plan'.scope = c /\ plan'.orig = ctx /\ plan'.cut = ledger[i].before
      /\ intent' = {[marker |-> restores', kept |-> i - 1, turns |-> SubSeq(ctx, 1, ledger[i].before),
                     ready |-> c = "conversation"]}
      /\ pc' = IF c = "conversation" THEN "stage" ELSE "apply"
  BY DEF Restore, memory
<1>3. \A x \in intent' : x.turns = Sliced' /\ (x.ready <=> c = "conversation")
  <2>1. Sliced' = SubSeq(ctx, 1, ledger[i].before)
    BY <1>2 DEF Sliced
  <2>. PICK b \in BOOLEAN : b = (c = "conversation")
    OBVIOUS
  <2>2. \A x \in intent' : x = [marker |-> restores', kept |-> i - 1, turns |-> Sliced', ready |-> b]
    BY <1>2, <2>1
  <2>3. \A x \in intent' : x.turns = Sliced' /\ x.ready = b
    BY <2>2
  <2>. QED
    BY <2>3
<1>4. Restoring' /\ ~gate'.pending /\ ~gate'.written /\ branch' = {} /\ ~gate'.branch
  <2>1. plan.scope = "none" /\ branch = {} /\ ~gate.pending
    BY <1>1 DEF Inv, Between, Settled, NoPlan
  <2>2. ~gate.written /\ ~gate.branch
    BY <1>1, <2>1 DEF Inv, Gates
  <2>. QED
    BY <1>1, <1>2, <2>1, <2>2 DEF Settled, Restoring
<1>5. /\ c = "both" => Ready' = {}
      /\ c = "conversation" => Ready' = intent'
      /\ intent' # {}
  BY <1>2, <1>3 DEF Ready
<1>6. RestoreUndecided'
  BY <1>1, <1>2, <1>3, <1>4, <1>5 DEF RestoreUndecided, Undecided
<1>7. pc' \in {"stage", "apply"} /\ plan'.scope \in {"both", "conversation"}
  BY <1>2
<1>8. Between' /\ Recovering'
  BY <1>7 DEF Between, Recovering, Quiet, Completing
<1>9. RestoreDecided'
  BY <1>7 DEF RestoreDecided, Undecided, Completing
<1>10. gate'.branch = FALSE /\ gate'.written = FALSE
  <2>1. gate'.branch \in BOOLEAN /\ gate'.written \in BOOLEAN
    BY <1>2 DEF Shaped, Gated
  <2>. QED
    BY <1>4, <2>1
<1>11. Gates'
  BY <1>4, <1>10 DEF Gates
<1>. QED
  BY <1>6, <1>8, <1>9, <1>11 DEF Inv

\* The end of a restore, or of a retry, with nothing left to recover.
LEMMA InvSettled ==
  ASSUME pc' = "idle", plan' = NoPlan, ~gate'.pending, ~gate'.written, gate'.branch = FALSE,
         branch' = {}, Ready' = {}, saved' = ctx', ctx' \in told', mark' <= 2 * Len(ctx')
  PROVE  Inv'
<1>1. plan'.scope = "none" /\ ~Restoring'
  BY DEF NoPlan, Restoring
<1>2. Settled' /\ Found(told)'
  BY DEF Settled, Found
<1>3. Between'
  BY <1>2 DEF Between
<1>4. RestoreUndecided' /\ RestoreDecided' /\ Recovering'
  BY <1>1 DEF RestoreUndecided, RestoreDecided, Recovering, Undecided, Completing
<1>5. Gates'
  BY DEF Gates
<1>. QED
  BY <1>3, <1>4, <1>5 DEF Inv

\* A restore or a retry that leaves something to recover.
LEMMA InvPending ==
  ASSUME pc' = "idle", plan' = NoPlan, gate'.pending, Found(told)', Gates'
  PROVE  Inv'
<1>1. plan'.scope = "none" /\ ~Restoring'
  BY DEF NoPlan, Restoring
<1>2. Between'
  BY DEF Between, Quiet
<1>3. RestoreUndecided' /\ RestoreDecided' /\ Recovering'
  BY <1>1 DEF RestoreUndecided, RestoreDecided, Recovering, Undecided, Completing
<1>. QED
  BY <1>2, <1>3 DEF Inv

\* A step within a restore.
LEMMA InvWithin ==
  ASSUME Restoring', Gates',
         \/ pc' \in Undecided /\ RestoreUndecided'
         \/ pc' \in {"save", "branch"} \cup Completing /\ RestoreDecided'
  PROVE  Inv'
<1>1. plan'.scope \in {"both", "conversation"}
  BY DEF Restoring
<1>2. Between'
  BY DEF Between, Quiet, Undecided, Completing
<1>3. RestoreUndecided' /\ RestoreDecided'
  BY DEF RestoreUndecided, RestoreDecided, Undecided, Completing
<1>4. Recovering'
  BY <1>1 DEF Recovering, Undecided, Completing
<1>. QED
  BY <1>2, <1>3, <1>4, Zenon DEF Inv

\* What is known during a restore that may still not come about.
LEMMA UndecidedIs ==
  ASSUME Shaped, Typed, Inv, pc \in Undecided
  PROVE  /\ Restoring /\ plan.scope \in {"both", "conversation"} /\ gate.pending = FALSE /\ gate.written = FALSE
         /\ gate.branch = (branch # {}) /\ saved = plan.orig /\ mark <= 2 * Len(plan.orig)
         /\ \A i \in intent : i.turns = Sliced
<1>1. RestoreUndecided /\ Gates
  BY DEF Inv
<1>2. gate.pending \in BOOLEAN /\ gate.written \in BOOLEAN
  BY DEF Shaped, Gated
<1>3. Restoring /\ ~gate.pending /\ saved = plan.orig /\ mark <= 2 * Len(plan.orig) /\ \A i \in intent : i.turns = Sliced
  BY <1>1 DEF RestoreUndecided
<1>4. plan.scope \in {"both", "conversation"}
  BY <1>3 DEF Restoring
<1>5. ~gate.written /\ gate.branch = (branch # {})
  BY <1>1, <1>3, <1>4 DEF Gates, Undecided
<1>. QED
  BY <1>2, <1>3, <1>4, <1>5

\* The disk does not refuse to take back a restore that it made fail.
TakenBack == pc \in {"abort", "unstage"} => faults' = faults

LEMMA InvUndecided ==
  ASSUME Shaped, Typed, Inv, TakenBack, faults \in Nat,
         Stage \/ SetMessages \/ Abort \/ Unstage \/ Code \/ Undo \/ Arm
  PROVE  Inv'
<1>1. pc \in Undecided
  BY DEF Undecided, Stage, SetMessages, Abort, Unstage, Code, Undo, Arm
<1>2. /\ Restoring /\ plan.scope \in {"both", "conversation"} /\ gate.pending = FALSE /\ gate.written = FALSE
      /\ gate.branch = (branch # {}) /\ saved = plan.orig /\ mark <= 2 * Len(plan.orig)
      /\ \A i \in intent : i.turns = Sliced
  BY <1>1, UndecidedIs
<1>3. RestoreUndecided /\ intent \subseteq Intents /\ gate \in [pending : BOOLEAN, written : BOOLEAN, branch : BOOLEAN]
  BY DEF Inv, Shaped, Intended, Gated
<1>4. CASE Stage
  <2>1. /\ pc = "stage" /\ UNCHANGED <<saved, intent, ctx, mark, plan>>
        /\ \/ branch' # {} /\ gate' = [gate EXCEPT !.branch = TRUE] /\ pc' = "set" /\ faults' = faults
           \/ pc' = "abort" /\ branch' = branch /\ gate' = gate /\ faults' = faults + 1
    BY <1>4 DEF Stage, Fault
  <2>2. Sliced' = Sliced /\ Restoring' /\ Ready' = Ready
    BY <1>2, <2>1 DEF Sliced, Restoring, Ready
  <2>3. Gates'
    BY <1>2, <1>3, <2>1 DEF Gates
  <2>4. gate'.pending = FALSE
    BY <1>2, <1>3, <2>1
  <2>5. pc' \in Undecided /\ RestoreUndecided'
    BY <1>1, <1>2, <1>3, <2>1, <2>2, <2>4 DEF RestoreUndecided, Undecided
  <2>. QED
    BY <2>2, <2>3, <2>5, InvWithin
<1>5. CASE SetMessages
  <2>1. /\ pc \in {"set", "apply"} /\ UNCHANGED <<saved, intent, branch, mark, gate, plan>>
        /\ \/ ctx' = Sliced /\ pc' = (IF pc = "set" THEN "save" ELSE "code") /\ faults' = faults
           \/ pc' = "abort" /\ ctx' = ctx /\ faults' = faults + 1
    BY <1>5 DEF SetMessages, Fault, disk
  <2>2. Sliced' = Sliced /\ Restoring' /\ Ready' = Ready
    BY <1>2, <2>1 DEF Sliced, Restoring, Ready
  <2>3. Gates'
    BY <1>2, <2>1 DEF Gates
  <2>4. CASE pc' = "save"
    <3>1. pc = "set" /\ plan.scope = "conversation" /\ ctx' = Sliced
      BY <1>1, <1>3, <2>1, <2>4 DEF RestoreUndecided
    <3>2. RestoreDecided'
      BY <1>2, <1>3, <2>1, <2>2, <2>4, <3>1 DEF RestoreDecided, RestoreUndecided, Completing, Undecided, Ready
    <3>. QED
      BY <2>2, <2>3, <2>4, <3>2, InvWithin
  <2>5. CASE pc' # "save"
    <3>1. pc' \in Undecided /\ RestoreUndecided'
      BY <1>1, <1>2, <1>3, <2>1, <2>2, <2>5 DEF RestoreUndecided, Undecided
    <3>. QED
      BY <2>2, <2>3, <3>1, InvWithin
  <2>. QED
    BY <2>4, <2>5
<1>6. CASE Abort
  <2>1. faults > 0 /\ pc = "abort" /\ ctx = plan.orig
    BY <1>2, <1>3, <1>6, <1>1 DEF RestoreUndecided, Abort
  <2>0. faults' = faults /\ faults \in Nat
    BY <2>1 DEF TakenBack
  <2>2. /\ intent' = {} /\ UNCHANGED <<saved, branch, ctx, mark, gate, faults>>
        /\ \/ branch # {} /\ pc' = "unstage" /\ plan' = plan
           \/ branch = {} /\ pc' = "idle" /\ plan' = NoPlan /\ told' = {plan.orig}
    BY <1>6, <2>0, <2>1 DEF Abort, Fault, Settle, memory
  <2>3. CASE branch # {}
    <3>1. Sliced' = Sliced /\ Restoring' /\ Gates'
      BY <1>2, <2>2, <2>3 DEF Sliced, Restoring, Gates
    <3>2. pc' \in Undecided /\ RestoreUndecided'
      BY <1>2, <2>1, <2>2, <2>3, <3>1 DEF RestoreUndecided, Undecided
    <3>. QED
      BY <3>1, <3>2, InvWithin
  <2>4. CASE branch = {}
    <3>1. gate'.branch = FALSE /\ Ready' = {}
      BY <1>2, <2>2, <2>4 DEF Ready
    <3>. QED
      BY <1>2, <2>1, <2>2, <2>4, <3>1, InvSettled
  <2>. QED
    BY <2>3, <2>4
<1>7. CASE Unstage
  <2>1. faults > 0 /\ pc = "unstage" /\ ctx = plan.orig /\ intent = {}
    BY <1>2, <1>3, <1>7, <1>1 DEF RestoreUndecided, Unstage
  <2>0. faults' = faults /\ faults \in Nat
    BY <2>1 DEF TakenBack
  <2>2. /\ branch' = {} /\ gate' = [gate EXCEPT !.branch = FALSE] /\ UNCHANGED <<saved, intent, ctx, mark>>
        /\ pc' = "idle" /\ plan' = NoPlan /\ told' = {plan.orig}
    BY <1>7, <2>0, <2>1 DEF Unstage, Fault, Settle
  <2>3. gate'.branch = FALSE /\ gate'.pending = FALSE /\ gate'.written = FALSE /\ Ready' = {}
    BY <1>2, <1>3, <2>1, <2>2 DEF Ready
  <2>. QED
    BY <1>2, <2>1, <2>2, <2>3, InvSettled
<1>8. CASE Code
  <2>1. /\ pc = "code" /\ pc' \in {"arm", "undo"}
        /\ UNCHANGED <<saved, intent, branch, ctx, mark, gate, plan, faults>>
    BY <1>8 DEF Code, memory
  <2>2. Sliced' = Sliced /\ Restoring' /\ Ready' = Ready /\ Gates'
    BY <1>2, <2>1 DEF Sliced, Restoring, Ready, Gates
  <2>3. pc' \in Undecided /\ RestoreUndecided'
    BY <1>1, <1>2, <1>3, <2>1, <2>2 DEF RestoreUndecided, Undecided
  <2>. QED
    BY <2>2, <2>3, InvWithin
<1>9. CASE Undo
  <2>1. pc = "undo" /\ Ready = {} /\ branch = {}
    BY <1>1, <1>3, <1>9 DEF RestoreUndecided, Undo
  <2>2. /\ ctx' = plan.orig /\ pc' = "idle" /\ plan' = NoPlan /\ told' = {plan.orig}
        /\ UNCHANGED <<saved, branch, mark, gate>> /\ (intent' = {} \/ intent' = intent)
    BY <1>9 DEF Undo, Settle
  <2>3. Ready' = {} /\ gate'.branch = FALSE
    BY <1>2, <2>1, <2>2 DEF Ready
  <2>. QED
    BY <1>2, <2>1, <2>2, <2>3, InvSettled
<1>10. CASE Arm
  <2>1. /\ pc = "arm" /\ plan.scope = "both" /\ branch = {} /\ ctx = Sliced /\ Ready = {} /\ intent # {}
    BY <1>1, <1>3, <1>10 DEF RestoreUndecided, Arm
  <2>2. UNCHANGED <<saved, branch, ctx, mark, gate, plan>>
    BY <1>10 DEF Arm, memory
  <2>3. Sliced' = Sliced /\ Restoring' /\ Gates'
    <3>1. pc' \in {"save", "undo"}
      BY <1>10 DEF Arm
    <3>. QED
      BY <1>2, <2>2, <3>1 DEF Sliced, Restoring, Gates
  <2>4. CASE intent' = {[i EXCEPT !.ready = TRUE] : i \in intent} /\ pc' = "save"
    <3>1. intent' # {} /\ \A i \in intent' : i.ready /\ i.turns = Sliced
      <4>1. ASSUME NEW i \in intent
            PROVE  [i EXCEPT !.ready = TRUE].ready = TRUE /\ [i EXCEPT !.ready = TRUE].turns = Sliced
        <5>1. i \in Intents /\ i.turns = Sliced
          BY <1>2, <1>3, <4>1
        <5>. QED
          BY ONLY <5>1 DEF Intents
      <4>2. intent' # {}
        BY <2>1, <2>4
      <4>. QED
        BY <2>4, <4>1, <4>2
    <3>2. RestoreDecided'
      BY <1>2, <2>1, <2>2, <2>3, <2>4, <3>1 DEF RestoreDecided, Undecided, Completing
    <3>. QED
      BY <2>3, <2>4, <3>2, InvWithin
  <2>5. CASE intent' = intent /\ pc' = "undo"
    <3>1. Ready' = {}
      BY <2>1, <2>5 DEF Ready
    <3>2. pc' \in Undecided /\ RestoreUndecided'
      BY <1>2, <2>1, <2>2, <2>3, <2>5, <3>1 DEF RestoreUndecided, Undecided
    <3>. QED
      BY <2>3, <3>2, InvWithin
  <2>. QED
    BY <1>10, <2>4, <2>5 DEF Arm
<1>. QED
  BY <1>4, <1>5, <1>6, <1>7, <1>8, <1>9, <1>10

-----------------------------------------------------------------------------
(* The restore is sure to be completed *)

\* Where the process can be.
Placed == pc \in Undecided \cup Completing
                 \cup {"idle", "down", "failed", "begun", "running", "ended", "save", "branch", "open"}

LEMMA PlacedNext ==
  ASSUME Shaped, Guarded, Placed, [Next]_vars
  PROVE  Placed'
<1>1. CASE Begin \/ Submit \/ ToolPost \/ Finish \/ CloseOut \/ Clear \/ UndoRefused
  BY <1>1 DEF Placed, Begin, Submit, ToolPost, Finish, CloseOut, Clear, UndoRefused
<1>2. ASSUME NEW i, NEW c, Restore(i, c) PROVE Placed'
  BY <1>2 DEF Placed, Undecided, Restore
<1>3. CASE Stage \/ SetMessages \/ Code \/ Arm \/ ForceSave
  BY <1>3 DEF Placed, Undecided, Completing, Stage, SetMessages, Code, Arm, ForceSave
<1>4. CASE Abort \/ Unstage \/ Undo \/ Reconcile
  BY <1>4 DEF Placed, Undecided, Abort, Unstage, Undo, Reconcile, Settle
<1>5. CASE WriteTranscript \/ AppendMarker \/ Unlink
  <2>1. ASSUME Deferred PROVE pc' \in {"idle", "branch", "open", pc}
    <3>1. CASE Restoring
      BY <2>1, <3>1 DEF Deferred, Settle
    <3>2. CASE ~Restoring
      <4>1. plan.scope \in {"start", "retry"}
        BY <1>5, <3>2 DEF Shaped, Planned, Scopes, Restoring, Guarded, GuardedRecovery, Completing,
                          WriteTranscript, AppendMarker, Unlink
      <4>. QED
        BY <2>1, <3>2, <4>1 DEF Deferred
    <3>. QED
      BY <3>1, <3>2
  <2>2. pc' \in {"idle", "branch", "open", "mark", "unlink", pc}
    BY <1>5, <2>1 DEF WriteTranscript, AppendMarker, Unlink
  <2>. QED
    BY <2>2 DEF Placed, Completing
<1>6. CASE Retry \/ RetryBranch \/ Kill \/ Start \/ Opened
  BY <1>6 DEF Placed, Completing, Retry, RetryBranch, Kill, Start, Opened
<1>7. CASE UNCHANGED vars
  BY <1>7 DEF Placed, vars
<1>. QED
  BY <1>1, <1>2, <1>3, <1>4, <1>5, <1>6, <1>7 DEF Next

\* A step of a recovery, at a start or before a retry.
LEMMA InvRecovers ==
  ASSUME plan'.scope \in {"start", "retry"}, pc' \in Completing \cup {"branch", "open"},
         RestoreDecided', Recovering', Gates'
  PROVE  Inv'
<1>1. Between'
  BY DEF Between, Quiet, Completing
<1>2. RestoreUndecided'
  BY DEF RestoreUndecided, Undecided, Completing
<1>. QED
  BY <1>1, <1>2 DEF Inv

\* What is known while a restore is completed.
LEMMA DecidedIs ==
  ASSUME Shaped, Typed, Inv, pc \in {"save", "branch"} \cup Completing, Restoring
  PROVE  /\ ctx = Sliced /\ saved \in {plan.orig, Sliced}
         /\ \A i \in intent : i.turns = Sliced /\ i.ready
         /\ pc # "branch" => gate.pending = FALSE /\ gate.written = FALSE /\ intent # {}
         /\ plan.scope = "both" => branch = {}
         /\ pc \in {"mark", "unlink"} => saved = Sliced
         /\ gate.branch = (branch # {})
         /\ plan.scope \in {"both", "conversation"}
<1>1. RestoreDecided /\ Gates
  BY DEF Inv
<1>2. gate.pending \in BOOLEAN /\ gate.written \in BOOLEAN
  BY DEF Shaped, Gated
<1>3. pc \notin Undecided /\ pc \notin {"down", "failed", "open"} /\ plan.scope # "start"
      /\ plan.scope \in {"both", "conversation"}
  BY DEF Undecided, Completing, Restoring
<1>4. /\ ctx = Sliced /\ saved \in {plan.orig, Sliced} /\ \A i \in intent : i.turns = Sliced /\ i.ready
      /\ pc # "branch" => ~gate.pending /\ intent # {}
      /\ plan.scope = "both" => branch = {}
  BY <1>1, <1>3, Zenon DEF RestoreDecided
<1>5. pc \in {"mark", "unlink"} => saved = Sliced
  <2>1. pc \in {"mark", "unlink"} => intent # {} /\ \A i \in intent : saved = i.turns
    BY <1>1 DEF RestoreDecided, Completing
  <2>. QED
    BY <1>4, <2>1
<1>6. gate.branch = (branch # {}) /\ (~gate.pending => ~gate.written)
  BY <1>1, <1>3 DEF Gates
<1>. QED
  BY <1>2, <1>3, <1>4, <1>5, <1>6

LEMMA InvForceSave ==
  ASSUME Shaped, Typed, Inv, ForceSave
  PROVE  Inv'
<1>1. Restoring /\ pc = "save" /\ pc' = "write"
  BY DEF ForceSave, Inv, RestoreDecided
<1>2. /\ ctx = Sliced /\ saved \in {plan.orig, Sliced}
      /\ \A i \in intent : i.turns = Sliced /\ i.ready
      /\ gate.pending = FALSE /\ gate.written = FALSE /\ intent # {}
      /\ plan.scope = "both" => branch = {}
      /\ gate.branch = (branch # {})
  BY <1>1, DecidedIs
<1>3. UNCHANGED <<intent, branch, ctx, gate, plan>> /\ saved' \in {saved, ctx}
  BY DEF ForceSave
<1>4. Sliced' = Sliced /\ Restoring' /\ plan'.scope \in {"both", "conversation"}
  BY <1>1, <1>3 DEF Sliced, Restoring
<1>5. RestoreDecided'
  BY <1>1, <1>2, <1>3, <1>4 DEF RestoreDecided, Undecided, Completing
<1>6. Gates'
  BY <1>1, <1>2, <1>3 DEF Gates
<1>. QED
  BY <1>1, <1>4, <1>5, <1>6, InvWithin DEF Completing

\* A recovery that is under way, and the restore it completes.
LEMMA RecoveringIs ==
  ASSUME Shaped, Typed, Inv, pc \in Completing \cup {"branch"}, ~Restoring
  PROVE  /\ plan.scope \in {"start", "retry"} /\ Found(told)
         /\ plan.scope = "retry" => gate.pending = TRUE
         /\ pc = "branch" => plan.scope = "retry" /\ intent = {}
         /\ pc # "branch" => intent # {} /\ Ready = intent /\ gate.written = FALSE
         /\ plan.scope = "retry" => gate.branch = (branch # {})
<1>1. RestoreDecided /\ Recovering /\ Gates
  BY DEF Inv
<1>2. gate.pending \in BOOLEAN /\ gate.written \in BOOLEAN /\ plan.scope \in Scopes
  BY DEF Shaped, Gated, Planned
<1>3. plan.scope \in {"start", "retry"} /\ Found(told)
  BY <1>1, <1>2 DEF Recovering, Restoring, Scopes
<1>4. plan.scope = "retry" => gate.pending
  BY <1>1 DEF Recovering
<1>5. pc = "branch" => plan.scope = "retry" /\ intent = {}
  BY <1>1, <1>3 DEF Recovering, Completing
<1>6. pc # "branch" => intent # {} /\ \A i \in intent : i.ready
  BY <1>1 DEF RestoreDecided
<1>7. pc # "branch" => Ready = intent
  BY <1>6 DEF Ready
<1>8. gate.written => intent = {}
  BY <1>1 DEF Gates
<1>9. plan.scope = "retry" => gate.branch = (branch # {})
  BY <1>1 DEF Gates, Completing
<1>. QED
  BY <1>2, <1>3, <1>4, <1>5, <1>6, <1>7, <1>8, <1>9

\* A write of the completion is refused.
LEMMA InvDeferred ==
  ASSUME Shaped, Typed, Inv, pc \in Completing, Deferred
  PROVE  Inv'
<1>1. UNCHANGED <<saved, intent, branch, ctx, mark>> /\ gate' = [gate EXCEPT !.pending = TRUE]
  BY DEF Deferred, disk
<1>2. /\ gate \in [pending : BOOLEAN, written : BOOLEAN, branch : BOOLEAN]
      /\ pc # "branch"
  BY DEF Shaped, Gated, Completing
<1>3. gate'.pending = TRUE /\ gate'.written = gate.written /\ gate'.branch = gate.branch
  BY <1>1, <1>2
<1>4. CASE Restoring
  <2>1. /\ ctx = Sliced /\ saved \in {plan.orig, Sliced}
        /\ \A i \in intent : i.turns = Sliced /\ i.ready
        /\ gate.written = FALSE /\ intent # {}
        /\ plan.scope = "both" => branch = {}
        /\ gate.branch = (branch # {}) /\ plan.scope \in {"both", "conversation"}
    BY <1>2, <1>4, DecidedIs
  <2>2. Gates'
    BY <1>1, <1>3, <2>1 DEF Gates
  <2>3. CASE plan.scope = "conversation"
    <3>1. pc' = "idle" /\ plan' = NoPlan /\ told' = {Sliced}
      BY <1>4, <2>3 DEF Deferred, Settle
    <3>2. Ready' # {} /\ \A i \in Ready' : i.turns \in told'
      BY <1>1, <2>1, <3>1 DEF Ready
    <3>. QED
      BY <1>3, <2>2, <3>1, <3>2, InvPending DEF Found
  <2>4. CASE plan.scope = "both"
    <3>1. pc' = "branch" /\ plan' = plan
      BY <1>4, <2>4 DEF Deferred
    <3>2. Sliced' = Sliced /\ Restoring'
      BY <1>4, <3>1 DEF Sliced, Restoring
    <3>3. RestoreDecided'
      BY <1>1, <1>3, <2>1, <2>4, <3>1, <3>2 DEF RestoreDecided, Undecided, Completing
    <3>. QED
      BY <2>2, <3>1, <3>2, <3>3, InvWithin
  <2>. QED
    BY <2>1, <2>3, <2>4
<1>5. CASE ~Restoring
  <2>1. /\ plan.scope \in {"start", "retry"} /\ Found(told)
        /\ intent # {} /\ Ready = intent /\ gate.written = FALSE
        /\ plan.scope = "retry" => gate.branch = (branch # {})
    BY <1>2, <1>5, RecoveringIs
  <2>2. told' = told /\ Found(told)'
    <3>1. told' = told
      BY <1>5, <2>1 DEF Deferred
    <3>. QED
      BY <1>1, <2>1, <3>1 DEF Found, Ready
  <2>3. \A i \in intent : i.ready
    BY <2>1 DEF Ready
  <2>4. CASE plan.scope = "start"
    <3>1. pc' = "open" /\ plan' = plan
      BY <1>5, <2>4 DEF Deferred
    <3>2. ~Restoring'
      BY <1>5, <3>1 DEF Restoring
    <3>3. RestoreDecided' /\ Recovering'
      BY <1>3, <2>2, <2>4, <3>1, <3>2 DEF RestoreDecided, Recovering, Completing
    <3>4. Gates'
      BY <1>1, <1>3, <2>1, <2>3, <3>1 DEF Gates
    <3>. QED
      BY <2>4, <3>1, <3>3, <3>4, InvRecovers
  <2>5. CASE plan.scope = "retry"
    <3>1. pc' = "idle" /\ plan' = NoPlan
      BY <1>5, <2>5 DEF Deferred
    <3>2. Gates'
      BY <1>1, <1>3, <2>1, <2>3, <2>5 DEF Gates
    <3>. QED
      BY <1>3, <2>2, <3>1, <3>2, InvPending
  <2>. QED
    BY <2>1, <2>4, <2>5
<1>. QED
  BY <1>4, <1>5

LEMMA InvWriteTranscript ==
  ASSUME Shaped, Typed, Inv, WriteTranscript
  PROVE  Inv'
<1>1. pc = "write" /\ intent # {} /\ pc \in Completing
  BY DEF WriteTranscript, Completing
<1>2. CASE Deferred
  BY <1>1, <1>2, InvDeferred
<1>3. CASE ~Deferred
  <2>. PICK i \in intent : i = CHOOSE x \in intent : TRUE
    BY <1>1
  <2>1. /\ saved' = i.turns /\ pc' = "mark" /\ UNCHANGED <<intent, branch, ctx, mark, gate, plan, told>>
        /\ \A x \in intent : x = i
    BY <1>3 DEF WriteTranscript, memory, seen, Shaped, Intended
  <2>2. \A x \in intent : saved' = x.turns
    BY <2>1
  <2>3. CASE Restoring
    <3>1. /\ ctx = Sliced /\ \A x \in intent : x.turns = Sliced /\ x.ready
          /\ gate.pending = FALSE /\ gate.written = FALSE
          /\ plan.scope = "both" => branch = {}
          /\ gate.branch = (branch # {}) /\ plan.scope \in {"both", "conversation"}
      BY <1>1, <2>3, DecidedIs
    <3>2. Sliced' = Sliced /\ Restoring' /\ Gates'
      BY <2>1, <2>3, <3>1 DEF Sliced, Restoring, Gates
    <3>3. RestoreDecided'
      BY <1>1, <2>1, <2>2, <3>1, <3>2 DEF RestoreDecided, Undecided, Completing
    <3>. QED
      BY <2>1, <3>2, <3>3, InvWithin DEF Completing
  <2>4. CASE ~Restoring
    <3>1. /\ plan.scope \in {"start", "retry"} /\ Found(told) /\ Ready = intent
          /\ plan.scope = "retry" => gate.pending = TRUE
          /\ gate.written = FALSE
          /\ plan.scope = "retry" => gate.branch = (branch # {})
      BY <1>1, <2>4, RecoveringIs
    <3>2. Found(told)' /\ \A x \in intent : x.ready
      BY <1>1, <2>1, <3>1 DEF Found, Ready
    <3>3. ~Restoring'
      BY <2>1, <2>4 DEF Restoring
    <3>4. RestoreDecided' /\ Recovering' /\ Gates'
      BY <1>1, <2>1, <2>2, <3>1, <3>2, <3>3 DEF RestoreDecided, Recovering, Completing, Gates
    <3>. QED
      BY <2>1, <3>1, <3>4, InvRecovers DEF Completing
  <2>. QED
    BY <2>3, <2>4
<1>. QED
  BY <1>2, <1>3

LEMMA InvAppendMarker ==
  ASSUME Shaped, Typed, Inv, AppendMarker
  PROVE  Inv'
<1>1. pc = "mark" /\ pc \in Completing
  BY DEF AppendMarker, Completing
<1>2. CASE Deferred
  BY <1>1, <1>2, InvDeferred
<1>3. CASE ~Deferred
  <2>1. pc' = "unlink" /\ UNCHANGED <<saved, intent, branch, ctx, mark, gate, plan, told>>
    BY <1>3 DEF AppendMarker, memory, seen
  <2>2. /\ intent # {} /\ \A x \in intent : x.ready
        /\ \A x \in intent : saved = x.turns
    BY <1>1 DEF Inv, RestoreDecided
  <2>3. CASE Restoring
    <3>1. /\ ctx = Sliced /\ saved = Sliced /\ \A x \in intent : x.turns = Sliced /\ x.ready
          /\ gate.pending = FALSE /\ gate.written = FALSE
          /\ plan.scope = "both" => branch = {}
          /\ gate.branch = (branch # {}) /\ plan.scope \in {"both", "conversation"}
      BY <1>1, <2>3, DecidedIs
    <3>2. Sliced' = Sliced /\ Restoring' /\ Gates'
      BY <2>1, <2>3, <3>1 DEF Sliced, Restoring, Gates
    <3>3. RestoreDecided'
      BY <2>1, <2>2, <3>1, <3>2 DEF RestoreDecided, Undecided, Completing
    <3>. QED
      BY <2>1, <3>2, <3>3, InvWithin DEF Completing
  <2>4. CASE ~Restoring
    <3>1. /\ plan.scope \in {"start", "retry"} /\ Found(told)
          /\ plan.scope = "retry" => gate.pending = TRUE
          /\ gate.written = FALSE
          /\ plan.scope = "retry" => gate.branch = (branch # {})
      BY <1>1, <2>4, RecoveringIs
    <3>2. Found(told)'
      BY <2>1, <3>1 DEF Found, Ready
    <3>3. ~Restoring'
      BY <2>1, <2>4 DEF Restoring
    <3>4. RestoreDecided' /\ Recovering' /\ Gates'
      BY <2>1, <2>2, <3>1, <3>2, <3>3 DEF RestoreDecided, Recovering, Completing, Gates
    <3>. QED
      BY <2>1, <3>1, <3>4, InvRecovers DEF Completing
  <2>. QED
    BY <2>3, <2>4
<1>. QED
  BY <1>2, <1>3

LEMMA InvUnlink ==
  ASSUME Shaped, Typed, Inv, Unlink
  PROVE  Inv'
<1>1. pc = "unlink" /\ pc \in Completing
  BY DEF Unlink, Completing
<1>2. CASE Deferred
  BY <1>1, <1>2, InvDeferred
<1>3. CASE ~Deferred
  <2>1. /\ intent' = {} /\ pc' = IF plan.scope = "start" THEN "open" ELSE "branch"
        /\ mark' = IF Restoring THEN 2 * plan.cut ELSE mark
        /\ gate' = [gate EXCEPT !.pending = @ /\ ~Restoring, !.written = plan.scope = "retry"]
        /\ UNCHANGED <<saved, branch, ctx, plan, told>>
    BY <1>3 DEF Unlink, seen
  <2>2. gate \in [pending : BOOLEAN, written : BOOLEAN, branch : BOOLEAN]
    BY DEF Shaped, Gated
  <2>3. /\ gate'.pending = (gate.pending /\ ~Restoring)
        /\ gate'.written = (plan.scope = "retry") /\ gate'.branch = gate.branch
    BY <2>1, <2>2
  <2>4. Ready' = {}
    BY <2>1 DEF Ready
  <2>5. CASE Restoring
    <3>1. /\ ctx = Sliced /\ saved = Sliced
          /\ plan.scope = "both" => branch = {}
          /\ gate.branch = (branch # {}) /\ plan.scope \in {"both", "conversation"}
      BY <1>1, <2>5, DecidedIs
    <3>2. Sliced' = Sliced /\ Restoring' /\ pc' = "branch" /\ ~gate'.pending /\ ~gate'.written
      BY <2>1, <2>3, <2>5, <3>1 DEF Sliced, Restoring
    <3>3. Gates'
      BY <2>1, <2>3, <3>1, <3>2 DEF Gates
    <3>4. RestoreDecided'
      BY <2>1, <2>5, <3>1, <3>2 DEF RestoreDecided, Undecided, Completing
    <3>. QED
      BY <3>2, <3>3, <3>4, InvWithin
  <2>6. CASE ~Restoring
    <3>1. /\ plan.scope \in {"start", "retry"} /\ Found(told)
          /\ plan.scope = "retry" => gate.pending = TRUE
          /\ intent # {} /\ Ready = intent
          /\ plan.scope = "retry" => gate.branch = (branch # {})
      BY <1>1, <2>6, RecoveringIs
    <3>2. saved \in told
      <4>1. PICK x \in intent : TRUE
        BY <3>1
      <4>2. saved = x.turns
        BY <1>1 DEF Inv, RestoreDecided
      <4>. QED
        BY <3>1, <4>2 DEF Found
    <3>3. Found(told)'
      BY <2>1, <2>4, <3>2 DEF Found
    <3>4. ~Restoring' /\ pc' \in {"open", "branch"} /\ (pc' = "open" <=> plan.scope = "start")
      BY <2>1, <2>6 DEF Restoring
    <3>5. RestoreDecided'
      BY <2>1, <3>4 DEF RestoreDecided, Completing
    <3>6. Recovering'
      BY <2>1, <2>3, <2>6, <3>1, <3>3, <3>4 DEF Recovering, Completing
    <3>7. Gates'
      BY <2>1, <2>3, <2>6, <3>1, <3>4 DEF Gates
    <3>. QED
      BY <2>1, <3>1, <3>4, <3>5, <3>6, <3>7, InvRecovers
  <2>. QED
    BY <2>5, <2>6
<1>. QED
  BY <1>2, <1>3

LEMMA InvReconcile ==
  ASSUME Shaped, Typed, Inv, Reconcile
  PROVE  Inv'
<1>1. Restoring /\ pc = "branch"
  BY DEF Reconcile
<1>2. /\ ctx = Sliced /\ plan.scope \in {"both", "conversation"}
      /\ \A i \in intent : i.turns = Sliced /\ i.ready
      /\ plan.scope = "both" => branch = {}
      /\ gate.branch = (branch # {})
  BY <1>1, DecidedIs
<1>3. /\ ~gate.pending => intent = {} /\ saved = Sliced /\ mark = 2 * plan.cut /\ ~gate.written
      /\ gate.pending => plan.scope = "both" /\ intent # {}
  <2>1. RestoreDecided /\ Gates
    BY DEF Inv
  <2>2. pc \notin Undecided
    BY <1>1 DEF Undecided
  <2>3. /\ ~gate.pending => intent = {} /\ saved = Sliced /\ mark = 2 * plan.cut
        /\ gate.pending => plan.scope = "both" /\ intent # {}
    BY <1>1, <2>1, <2>2 DEF RestoreDecided
  <2>. QED
    BY <2>1, <2>3 DEF Gates
<1>4. UNCHANGED <<saved, intent, ctx, mark>> /\ pc' = "idle" /\ plan' = NoPlan /\ told' = {Sliced}
  BY DEF Reconcile, Settle
<1>5. gate \in [pending : BOOLEAN, written : BOOLEAN, branch : BOOLEAN]
  BY DEF Shaped, Gated
<1>6. mark = 2 * plan.cut => mark <= 2 * Len(ctx)
  BY <1>2, PlanIs
<1>7. CASE plan.scope = "conversation"
  <2>1. ~gate.pending /\ intent' = {} /\ saved' = Sliced /\ ~gate.written /\ Ready' = {} /\ mark' <= 2 * Len(ctx')
    BY <1>3, <1>4, <1>6, <1>7 DEF Ready
  <2>2. CASE BranchCommitted /\ gate' = [gate EXCEPT !.branch = FALSE]
    <3>1. branch' = {}
      BY <2>2 DEF BranchCommitted
    <3>2. gate'.branch = FALSE /\ ~gate'.pending /\ ~gate'.written
      BY <1>5, <2>1, <2>2
    <3>. QED
      BY <1>2, <1>4, <2>1, <3>1, <3>2, InvSettled
  <2>3. CASE gate' = [gate EXCEPT !.pending = TRUE, !.written = TRUE] /\ branch' = branch
    <3>1. gate'.branch = gate.branch /\ gate'.pending /\ gate'.written
      BY <1>5, <2>3
    <3>2. Found(told)'
      BY <1>4, <2>1 DEF Found
    <3>3. Gates'
      BY <1>2, <2>1, <2>3, <3>1 DEF Gates
    <3>. QED
      BY <1>4, <3>1, <3>2, <3>3, InvPending
  <2>. QED
    BY <1>7, <2>2, <2>3 DEF Reconcile
<1>8. CASE plan.scope = "both"
  <2>1. branch = {} /\ branch' = {} /\ gate' = gate
    BY <1>2, <1>8 DEF Reconcile
  <2>2. CASE gate.pending
    <3>1. intent # {} /\ \A i \in Ready' : i.turns \in told'
      BY <1>2, <1>3, <1>4, <2>2 DEF Ready
    <3>2. Ready' # {}
      BY <1>2, <1>4, <3>1 DEF Ready
    <3>3. Gates'
      BY <1>2, <1>4, <2>1 DEF Gates, Inv
    <3>. QED
      BY <1>4, <2>1, <2>2, <3>1, <3>2, <3>3, InvPending DEF Found
  <2>3. CASE ~gate.pending
    <3>1. intent' = {} /\ saved' = Sliced /\ ~gate'.written /\ Ready' = {} /\ mark' <= 2 * Len(ctx') /\ gate'.branch = FALSE
      BY <1>2, <1>3, <1>4, <1>6, <2>1, <2>3 DEF Ready
    <3>. QED
      BY <1>2, <1>4, <2>1, <2>3, <3>1, InvSettled
  <2>. QED
    BY <2>2, <2>3
<1>. QED
  BY <1>2, <1>7, <1>8

-----------------------------------------------------------------------------
(* Retries, kills and starts *)

LEMMA InvRetry ==
  ASSUME Shaped, Typed, Inv, Retry
  PROVE  Inv'
<1>1. /\ pc = "idle" /\ gate.pending /\ UNCHANGED <<saved, intent, branch, ctx, mark, gate, told>>
      /\ \/ gate.written /\ pc' = "branch"
         \/ intent # {} /\ pc' = "write"
  BY DEF Retry, disk, memory, seen
<1>2. plan'.scope = "retry"
  BY DEF Retry, NoPlan
<1>3. Found(told)'
  BY <1>1 DEF Inv, Between, Found, Ready
<1>4. plan.scope = "none"
  BY <1>1 DEF Inv, Between, NoPlan
<1>5. /\ \A i \in intent : i.ready
      /\ gate.written => intent = {}
      /\ gate.branch = (branch # {})
  BY <1>1, <1>4 DEF Inv, Gates
<1>6. ~Restoring'
  BY <1>2 DEF Restoring
<1>7. RestoreDecided'
  BY <1>1, <1>5, <1>6 DEF RestoreDecided, Completing
<1>8. Recovering'
  BY <1>1, <1>2, <1>3, <1>5 DEF Recovering, Completing
<1>9. Gates'
  BY <1>1, <1>5 DEF Gates, Inv
<1>. QED
  BY <1>1, <1>2, <1>7, <1>8, <1>9, InvRecovers DEF Completing

LEMMA InvRetryBranch ==
  ASSUME Shaped, Typed, Inv, RetryBranch
  PROVE  Inv'
<1>1. /\ plan.scope = "retry" /\ pc = "branch" /\ ~Restoring
  BY DEF RetryBranch, Restoring
<1>2. /\ Found(told) /\ gate.pending = TRUE /\ intent = {} /\ gate.branch = (branch # {})
  BY <1>1, RecoveringIs
<1>3. /\ ctx' = saved /\ pc' = "idle" /\ plan' = NoPlan /\ UNCHANGED <<saved, intent, told>>
  BY DEF RetryBranch, seen
<1>4. Ready' = {} /\ saved \in told
  BY <1>2, <1>3 DEF Ready, Found
<1>5. CASE gate' = Open /\ mark' = 2 * Len(saved) /\ IF gate.branch THEN BranchCommitted ELSE UNCHANGED <<order, branch>>
  <2>1. branch' = {}
    BY <1>2, <1>5 DEF BranchCommitted
  <2>2. ~gate'.pending /\ ~gate'.written /\ gate'.branch = FALSE
    BY <1>5 DEF Open
  <2>3. mark' <= 2 * Len(ctx')
    BY <1>3, <1>5, PlanIs
  <2>. QED
    BY <1>3, <1>4, <2>1, <2>2, <2>3, InvSettled
<1>6. CASE UNCHANGED <<order, branch, gate, mark>>
  <2>1. Found(told)'
    BY <1>3, <1>4 DEF Found
  <2>2. Gates'
    BY <1>2, <1>3, <1>6 DEF Gates
  <2>. QED
    BY <1>2, <1>3, <1>6, <2>1, <2>2, InvPending
<1>. QED
  BY <1>5, <1>6 DEF RetryBranch

\* A process that is down left what its user may find.
LEMMA InvKill ==
  ASSUME Shaped, Typed, Inv, Placed, Kill
  PROVE  Inv'
<1>1. /\ pc' = "down" /\ plan' = NoPlan /\ gate' = Open /\ UNCHANGED <<saved, intent, branch>>
      /\ pc \notin {"down", "failed"}
  BY DEF Kill, disk
<1>2. plan'.scope = "none" /\ ~Restoring' /\ ~gate'.written /\ ~gate'.pending
  BY <1>1 DEF NoPlan, Restoring, Open
<1>3. Found(told)'
  <2>1. CASE pc \in {"running", "ended"}
    <3>0. ~Restoring
      BY <2>1 DEF Inv, Between, NoPlan, Restoring
    <3>1. told' = {ctx, Front(ctx)}
      BY <2>1, <3>0 DEF Kill
    <3>2. Ready = {} /\ saved \in {ctx, Front(ctx)}
      BY <2>1 DEF Inv, Between, Settled
    <3>. QED
      BY <1>1, <3>1, <3>2 DEF Found, Ready
  <2>2. CASE Restoring
    <3>1. pc \notin {"running", "ended"}
      BY <2>2 DEF Inv, Between, NoPlan, Restoring
    <3>2. told' = {plan.orig, Sliced}
      BY <2>2, <3>1 DEF Kill
    <3>3. pc \in Undecided \cup {"save", "branch"} \cup Completing
      BY <2>2 DEF Inv, RestoreDecided
    <3>4. saved \in {plan.orig, Sliced} /\ \A i \in intent : i.turns = Sliced
      <4>1. CASE pc \in Undecided
        BY <4>1, UndecidedIs
      <4>2. CASE pc \in {"save", "branch"} \cup Completing
        BY <2>2, <4>2, DecidedIs
      <4>. QED
        BY <3>3, <4>1, <4>2
    <3>. QED
      BY <1>1, <3>2, <3>4 DEF Found, Ready
  <2>3. CASE ~Restoring /\ pc \notin {"running", "ended"}
    <3>1. told' = told
      BY <2>3 DEF Kill
    <3>2. pc \in {"idle", "begun", "open", "branch"} \cup Completing
      <4>1. pc \notin Undecided /\ pc # "save"
        BY <2>3 DEF Inv, RestoreUndecided, RestoreDecided
      <4>. QED
        BY <1>1, <2>3, <4>1 DEF Placed, Completing
    <3>3. Found(told)
      <4>1. CASE pc \in {"idle", "begun"}
        BY <4>1 DEF Inv, Between, Settled, Found
      <4>2. CASE pc = "open"
        BY <4>2 DEF Inv, Recovering
      <4>3. CASE pc \in {"branch"} \cup Completing
        BY <2>3, <4>3, RecoveringIs
      <4>. QED
        BY <3>2, <4>1, <4>2, <4>3
    <3>. QED
      BY <1>1, <3>1, <3>3 DEF Found, Ready
  <2>. QED
    BY <2>1, <2>2, <2>3
<1>4. Between' /\ RestoreUndecided' /\ RestoreDecided'
  BY <1>1, <1>2 DEF Between, Quiet, RestoreUndecided, RestoreDecided, Undecided, Completing
<1>5. Recovering'
  BY <1>1, <1>2, <1>3 DEF Recovering, Completing
<1>6. Gates'
  BY <1>1, <1>2 DEF Gates
<1>. QED
  BY <1>4, <1>5, <1>6 DEF Inv

LEMMA InvStart ==
  ASSUME Shaped, Typed, Inv, Start
  PROVE  Inv'
<1>1. /\ pc = "down" /\ intent' = Ready /\ UNCHANGED <<saved, branch, gate, told>>
      /\ pc' = IF intent' = {} THEN "open" ELSE "write"
  BY DEF Start, memory, seen, Ready
<1>2. plan'.scope = "start"
  BY DEF Start, NoPlan
<1>3. Ready' = Ready /\ \A i \in intent' : i.ready
  BY <1>1 DEF Ready
<1>4. Found(told)'
  BY <1>1, <1>3 DEF Inv, Recovering, Found
<1>5. ~Restoring'
  BY <1>2 DEF Restoring
<1>6. RestoreDecided'
  BY <1>1, <1>3, <1>5 DEF RestoreDecided, Completing
<1>7. Recovering'
  BY <1>1, <1>2, <1>4 DEF Recovering, Completing
<1>8. Gates'
  BY <1>1, <1>2, <1>3 DEF Gates, Inv, Ready
<1>. QED
  BY <1>1, <1>2, <1>6, <1>7, <1>8, InvRecovers DEF Completing

LEMMA InvOpened ==
  ASSUME Shaped, Typed, Inv, Opened
  PROVE  Inv'
<1>1. /\ pc = "open" /\ plan' = NoPlan /\ UNCHANGED <<saved, intent, told>>
      /\ pc' \in {"down", "failed", "idle"}
  BY DEF Opened, seen
<1>2. plan'.scope = "none" /\ ~Restoring'
  BY <1>1 DEF NoPlan, Restoring
<1>3. plan.scope = "start" /\ Found(told) /\ (~gate.pending => intent = {})
  BY <1>1 DEF Inv, Recovering
<1>4. Found(told)'
  BY <1>1, <1>3 DEF Found, Ready
<1>5. /\ gate.written => gate.pending /\ intent = {}
      /\ gate.pending => \A i \in intent : i.ready
  BY DEF Inv, Gates
<1>6. CASE pc' \in {"down", "failed"}
  <2>1. gate' = gate
    BY <1>6 DEF Opened, memory
  <2>2. Between' /\ RestoreUndecided' /\ RestoreDecided' /\ Recovering'
    BY <1>2, <1>4, <1>6 DEF Between, Quiet, RestoreUndecided, RestoreDecided, Recovering, Undecided, Completing
  <2>3. Gates'
    BY <1>1, <1>5, <1>6, <2>1 DEF Gates
  <2>. QED
    BY <2>2, <2>3 DEF Inv
<1>7. CASE pc' = "idle"
  <2>1. /\ ctx' = saved /\ mark' = 0
        /\ gate' = [pending |-> gate.pending \/ branch' # {}, written |-> branch' # {} /\ ~gate.pending,
                    branch |-> branch' # {}]
    BY <1>7 DEF Opened
  <2>2. /\ gate'.pending = (gate.pending \/ branch' # {})
        /\ gate'.written = (branch' # {} /\ ~gate.pending)
        /\ gate'.branch = (branch' # {})
    BY <2>1
  <2>3. CASE gate'.pending
    <3>1. Gates'
      BY <1>1, <1>3, <1>5, <2>2, <2>3 DEF Gates
    <3>. QED
      BY <1>1, <1>4, <1>7, <2>3, <3>1, InvPending
  <2>4. CASE ~gate'.pending
    <3>1. branch' = {} /\ intent' = {} /\ ~gate'.written /\ gate'.branch = FALSE
      BY <1>1, <1>3, <2>2, <2>4
    <3>2. Ready' = {} /\ saved' \in told'
      BY <1>4, <3>1 DEF Ready, Found
    <3>3. mark' <= 2 * Len(ctx')
      BY <2>1, PlanIs
    <3>. QED
      BY <1>1, <1>7, <2>1, <2>4, <3>1, <3>2, <3>3, InvSettled
  <2>. QED
    BY <2>3, <2>4
<1>. QED
  BY <1>1, <1>6, <1>7

LEMMA InvNext ==
  ASSUME Shaped, Inv, Placed, TakenBack, ~apart', [Next]_vars
  PROVE  Inv'
<1>1. Typed /\ faults \in Nat
  BY TypedIs DEF Shaped, Counts
<1>2. CASE UNCHANGED vars
  BY <1>2 DEF vars, disk, memory, counts, seen, Inv, Between, RestoreUndecided, RestoreDecided, Recovering, Gates,
              Settled, Found, Ready, Quiet, Restoring, Sliced
<1>3. CASE Begin \/ Submit \/ ToolPost \/ Finish \/ CloseOut
  BY <1>1, <1>3, InvTurns
<1>4. ASSUME NEW i \in DOMAIN ledger, NEW c \in {"both", "conversation"}, Restore(i, c) PROVE Inv'
  BY <1>1, <1>4, InvRestore
<1>5. CASE Stage \/ SetMessages \/ Abort \/ Unstage \/ Code \/ Undo \/ Arm
  BY <1>1, <1>5, InvUndecided
<1>6. CASE ForceSave \/ WriteTranscript \/ AppendMarker \/ Unlink \/ Reconcile
  BY <1>1, <1>6, InvForceSave, InvWriteTranscript, InvAppendMarker, InvUnlink, InvReconcile
<1>7. CASE Retry \/ RetryBranch \/ Kill \/ Start \/ Opened
  BY <1>1, <1>7, InvRetry, InvRetryBranch, InvKill, InvStart, InvOpened
<1>8. ~Clear /\ ~UndoRefused
  BY DEF Clear, UndoRefused
<1>. QED
  BY <1>2, <1>3, <1>4, <1>5, <1>6, <1>7, <1>8 DEF Next

LEMMA ApartStays ==
  ASSUME [Next]_vars, ~apart'
  PROVE  ~apart
<1>1. CASE Begin \/ Submit \/ ToolPost \/ Finish \/ CloseOut \/ Clear
  BY <1>1 DEF Begin, Submit, ToolPost, Finish, CloseOut, Clear, seen
<1>2. ASSUME NEW i, NEW c, Restore(i, c) PROVE apart' = apart
  BY <1>2 DEF Restore, seen
<1>3. CASE Stage \/ SetMessages \/ Abort \/ Unstage \/ Code \/ Undo \/ UndoRefused \/ Arm \/ ForceSave
  BY <1>3 DEF Stage, SetMessages, Abort, Unstage, Code, Undo, UndoRefused, Arm, ForceSave, seen
<1>4. CASE WriteTranscript \/ AppendMarker \/ Unlink \/ Reconcile
  BY <1>4 DEF WriteTranscript, AppendMarker, Unlink, Reconcile, Deferred, seen
<1>5. CASE Retry \/ RetryBranch \/ Kill \/ Start \/ Opened
  BY <1>5 DEF Retry, RetryBranch, Kill, Start, Opened, seen
<1>6. CASE UNCHANGED vars
  BY <1>6 DEF vars, seen
<1>. QED
  BY <1>1, <1>2, <1>3, <1>4, <1>5, <1>6 DEF Next

-----------------------------------------------------------------------------
(* The guarded part is kept, whatever became of the context *)

\* No restore is on its way and none is to be recovered.
LEMMA GuardedQuiet ==
  ASSUME pc' \in {"idle", "begun", "running", "ended"}, plan' = NoPlan, ~gate'.pending, ~gate'.written,
         gate'.branch = FALSE, branch' = {}, Ready' = {}
  PROVE  Guarded'
<1>1. plan'.scope = "none" /\ ~Restoring'
  BY DEF NoPlan, Restoring
<1>2. GuardedBetween'
  BY DEF GuardedBetween
<1>3. GuardedUndecided' /\ GuardedDecided' /\ GuardedRecovery' /\ GuardedGates'
  BY <1>1 DEF GuardedUndecided, GuardedDecided, GuardedRecovery, GuardedGates, Undecided, Completing
<1>. QED
  BY <1>2, <1>3 DEF Guarded

\* Something is left to recover, and the gate is closed.
LEMMA GuardedPending ==
  ASSUME pc' = "idle", plan' = NoPlan, gate'.pending, GuardedGates'
  PROVE  Guarded'
<1>1. plan'.scope = "none" /\ ~Restoring'
  BY DEF NoPlan, Restoring
<1>2. GuardedBetween'
  BY DEF GuardedBetween, Quiet
<1>3. GuardedUndecided' /\ GuardedDecided' /\ GuardedRecovery'
  BY <1>1 DEF GuardedUndecided, GuardedDecided, GuardedRecovery, Undecided, Completing
<1>. QED
  BY <1>2, <1>3 DEF Guarded

\* A step within a restore.
LEMMA GuardedWithin ==
  ASSUME Restoring', GuardedGates',
         \/ pc' \in Undecided /\ GuardedUndecided'
         \/ pc' \in {"save", "branch"} \cup Completing /\ GuardedDecided'
  PROVE  Guarded'
<1>1. plan'.scope \in {"both", "conversation"}
  BY DEF Restoring
<1>2. GuardedBetween'
  BY DEF GuardedBetween, Quiet, Undecided, Completing
<1>3. GuardedUndecided' /\ GuardedDecided'
  BY DEF GuardedUndecided, GuardedDecided, Undecided, Completing
<1>4. GuardedRecovery'
  BY <1>1 DEF GuardedRecovery, Undecided, Completing
<1>. QED
  BY <1>2, <1>3, <1>4, Zenon DEF Guarded

\* A step of a start or of a retry.
LEMMA GuardedRecovers ==
  ASSUME plan'.scope \in {"start", "retry"}, pc' \in Completing \cup {"branch", "open"},
         GuardedRecovery', GuardedGates'
  PROVE  Guarded'
<1>1. ~Restoring'
  BY DEF Restoring
<1>2. GuardedBetween'
  BY DEF GuardedBetween, Quiet, Completing
<1>3. GuardedUndecided' /\ GuardedDecided'
  BY <1>1 DEF GuardedUndecided, GuardedDecided, Undecided, Completing
<1>. QED
  BY <1>2, <1>3 DEF Guarded

LEMMA GuardedTurns ==
  ASSUME Shaped, Guarded, Begin \/ Submit \/ ToolPost \/ Finish \/ CloseOut \/ Clear
  PROVE  Guarded'
<1>1. /\ plan = NoPlan /\ plan' = plan /\ UNCHANGED <<branch, gate, intent>>
      /\ pc \in {"idle", "begun", "running", "ended"} /\ pc' \in {"idle", "begun", "running", "ended"}
      /\ Clear => pc' = "idle"
      /\ ~Clear => ~gate.pending /\ branch = {} /\ Ready = {}
  BY DEF Begin, Submit, ToolPost, Finish, CloseOut, Clear, disk, memory, counts, Guarded, GuardedBetween, Quiet
<1>2. GuardedGates' /\ Ready' = Ready
  BY <1>1 DEF Guarded, GuardedGates, NoPlan, Ready
<1>3. CASE gate.pending
  BY <1>1, <1>2, <1>3, GuardedPending
<1>4. CASE ~gate.pending
  <2>1. branch = {} /\ Ready = {} /\ ~gate.written /\ gate.branch = FALSE
    BY <1>1, <1>4 DEF Guarded, GuardedGates, GuardedBetween, Quiet, NoPlan, Clear
  <2>. QED
    BY <1>1, <1>2, <1>4, <2>1, GuardedQuiet
<1>. QED
  BY <1>3, <1>4

LEMMA GuardedRestore ==
  ASSUME Shaped, Guarded, NEW i \in DOMAIN ledger, NEW c \in {"both", "conversation"}, Restore(i, c)
  PROVE  Guarded'
<1>1. /\ pc = "idle" /\ plan = NoPlan /\ ~gate.pending /\ branch = {} /\ gate' = gate /\ branch' = branch
      /\ plan'.scope = c /\ pc' = (IF c = "conversation" THEN "stage" ELSE "apply")
  BY DEF Restore, Guarded, GuardedBetween, Quiet, memory
<1>2. c = "both" => Ready' = {}
  <2>. SUFFICES ASSUME c = "both", NEW j \in intent' PROVE ~j.ready
    BY DEF Ready
  <2>1. j = [marker |-> restores', kept |-> i - 1, turns |-> SubSeq(ctx, 1, ledger[i].before),
             ready |-> c = "conversation"]
    BY DEF Restore
  <2>. QED
    BY <2>1
<1>3. Restoring' /\ ~gate.written /\ gate.branch = FALSE
  BY <1>1 DEF Restoring, Guarded, GuardedGates, NoPlan
<1>4. GuardedUndecided' /\ GuardedGates' /\ pc' \in Undecided
  BY <1>1, <1>2, <1>3 DEF GuardedUndecided, GuardedGates, Undecided
<1>. QED
  BY <1>3, <1>4, GuardedWithin

LEMMA GuardedUndone ==
  ASSUME Shaped, Guarded, TakenBack,
         Stage \/ SetMessages \/ Abort \/ Unstage \/ Code \/ Undo \/ UndoRefused \/ Arm
  PROVE  Guarded'
<1>1. pc \in Undecided
  BY DEF Undecided, Stage, SetMessages, Abort, Unstage, Code, Undo, UndoRefused, Arm
<1>2. /\ Restoring /\ plan.scope \in {"both", "conversation"} /\ GuardedUndecided
      /\ gate \in [pending : BOOLEAN, written : BOOLEAN, branch : BOOLEAN] /\ faults \in Nat
      /\ ~gate.pending /\ ~gate.written /\ gate.branch = (branch # {})
  <2>1. GuardedUndecided /\ GuardedGates /\ Restoring /\ ~gate.pending
    BY <1>1 DEF Guarded, GuardedUndecided
  <2>2. plan.scope \in {"both", "conversation"}
    BY <2>1 DEF Restoring
  <2>. QED
    BY <1>1, <2>1, <2>2 DEF GuardedGates, Undecided, Shaped, Gated, Counts
<1>3. CASE Stage
  <2>1. /\ pc = "stage" /\ UNCHANGED <<intent, plan>> /\ plan.scope = "conversation"
        /\ \/ branch' # {} /\ gate' = [gate EXCEPT !.branch = TRUE] /\ pc' = "set"
           \/ pc' = "abort" /\ branch' = branch /\ gate' = gate /\ faults' = faults + 1
    BY <1>1, <1>2, <1>3 DEF Stage, Fault, GuardedUndecided
  <2>2. Restoring' /\ ~gate'.pending /\ GuardedGates'
    BY <1>2, <2>1 DEF Restoring, GuardedGates
  <2>3. pc' \in Undecided /\ GuardedUndecided'
    BY <1>2, <2>1, <2>2 DEF GuardedUndecided, Undecided
  <2>. QED
    BY <2>2, <2>3, GuardedWithin
<1>4. CASE SetMessages
  <2>1. /\ pc \in {"set", "apply"} /\ UNCHANGED <<intent, branch, gate, plan>>
        /\ \/ pc' = (IF pc = "set" THEN "save" ELSE "code") /\ faults' = faults
           \/ pc' = "abort" /\ faults' = faults + 1
        /\ pc = "set" => plan.scope = "conversation"
        /\ pc = "apply" => plan.scope = "both" /\ Ready = {} /\ branch = {}
    BY <1>1, <1>2, <1>4 DEF SetMessages, Fault, disk, GuardedUndecided
  <2>2. Restoring' /\ Ready' = Ready /\ GuardedGates'
    BY <1>2, <2>1 DEF Restoring, Ready, GuardedGates
  <2>3. CASE pc' = "save"
    <3>1. GuardedDecided'
      BY <1>2, <2>1, <2>2, <2>3 DEF GuardedDecided, Undecided, Completing
    <3>. QED
      BY <2>2, <2>3, <3>1, GuardedWithin
  <2>4. CASE pc' # "save"
    <3>1. pc' \in Undecided /\ GuardedUndecided'
      BY <1>2, <2>1, <2>2, <2>4 DEF GuardedUndecided, Undecided
    <3>. QED
      BY <2>2, <3>1, GuardedWithin
  <2>. QED
    BY <2>3, <2>4
<1>5. CASE Abort
  <2>1. faults > 0 /\ pc = "abort" /\ faults' = faults
    BY <1>1, <1>2, <1>5 DEF GuardedUndecided, Abort, TakenBack
  <2>2. /\ intent' = {} /\ UNCHANGED <<branch, gate>>
        /\ \/ branch # {} /\ pc' = "unstage" /\ plan' = plan
           \/ branch = {} /\ pc' = "idle" /\ plan' = NoPlan
    BY <1>2, <1>5, <2>1 DEF Abort, Fault, Settle, memory
  <2>3. CASE branch # {}
    <3>1. Restoring' /\ GuardedGates' /\ pc' \in Undecided /\ GuardedUndecided'
      BY <1>2, <2>1, <2>2, <2>3 DEF Restoring, GuardedGates, GuardedUndecided, Undecided
    <3>. QED
      BY <3>1, GuardedWithin
  <2>4. CASE branch = {}
    <3>1. Ready' = {} /\ gate'.branch = FALSE
      BY <1>2, <2>2, <2>4 DEF Ready
    <3>. QED
      BY <1>2, <2>2, <2>4, <3>1, GuardedQuiet
  <2>. QED
    BY <2>3, <2>4
<1>6. CASE Unstage
  <2>1. faults > 0 /\ pc = "unstage" /\ faults' = faults /\ intent = {}
    BY <1>1, <1>2, <1>6 DEF GuardedUndecided, Unstage, TakenBack
  <2>2. /\ branch' = {} /\ gate' = [gate EXCEPT !.branch = FALSE] /\ intent' = intent
        /\ pc' = "idle" /\ plan' = NoPlan
    BY <1>2, <1>6, <2>1 DEF Unstage, Fault, Settle
  <2>3. gate'.branch = FALSE /\ ~gate'.pending /\ ~gate'.written /\ Ready' = {}
    BY <1>2, <2>1, <2>2 DEF Ready
  <2>. QED
    BY <2>2, <2>3, GuardedQuiet
<1>7. CASE Code
  <2>1. /\ pc = "code" /\ pc' \in {"arm", "undo"} /\ UNCHANGED <<intent, branch, gate, plan, faults>>
    BY <1>7 DEF Code, memory
  <2>2. Restoring' /\ Ready' = Ready /\ GuardedGates'
    BY <1>2, <2>1 DEF Restoring, Ready, GuardedGates
  <2>3. pc' \in Undecided /\ GuardedUndecided'
    BY <1>1, <1>2, <2>1, <2>2 DEF GuardedUndecided, Undecided
  <2>. QED
    BY <2>2, <2>3, GuardedWithin
<1>8. CASE Undo \/ UndoRefused
  <2>1. pc = "undo" /\ Ready = {} /\ branch = {}
    BY <1>1, <1>2, <1>8 DEF GuardedUndecided, Undo, UndoRefused
  <2>2. pc' = "idle" /\ plan' = NoPlan /\ UNCHANGED <<branch, gate>> /\ (intent' = {} \/ intent' = intent)
    BY <1>8 DEF Undo, UndoRefused, Settle, disk, memory
  <2>3. Ready' = {} /\ gate'.branch = FALSE
    BY <1>2, <2>1, <2>2 DEF Ready
  <2>. QED
    BY <1>2, <2>1, <2>2, <2>3, GuardedQuiet
<1>9. CASE Arm
  <2>1. /\ pc = "arm" /\ plan.scope = "both" /\ branch = {} /\ Ready = {} /\ UNCHANGED <<branch, gate, plan>>
        /\ pc' = "save" \/ (pc' = "undo" /\ intent' = intent)
    BY <1>1, <1>2, <1>9 DEF GuardedUndecided, Arm, memory
  <2>2. Restoring' /\ GuardedGates'
    BY <1>2, <2>1 DEF Restoring, GuardedGates
  <2>3. CASE pc' = "save"
    <3>1. GuardedDecided'
      BY <1>2, <2>1, <2>2, <2>3 DEF GuardedDecided, Undecided, Completing
    <3>. QED
      BY <2>2, <2>3, <3>1, GuardedWithin
  <2>4. CASE pc' = "undo" /\ intent' = intent
    <3>1. pc' \in Undecided /\ GuardedUndecided'
      BY <1>2, <2>1, <2>2, <2>4 DEF GuardedUndecided, Undecided, Ready
    <3>. QED
      BY <2>2, <3>1, GuardedWithin
  <2>. QED
    BY <2>1, <2>3, <2>4
<1>. QED
  BY <1>3, <1>4, <1>5, <1>6, <1>7, <1>8, <1>9

\* What is known while a restore is completed, by itself or by a recovery.
LEMMA GuardedDone ==
  ASSUME Shaped, Guarded, pc \in {"save", "branch"} \cup Completing
  PROVE  /\ gate \in [pending : BOOLEAN, written : BOOLEAN, branch : BOOLEAN]
         /\ plan.scope \in {"both", "conversation", "start", "retry"}
         /\ pc \in {"save"} => Restoring
         /\ Restoring <=> plan.scope \in {"both", "conversation"}
         /\ Restoring => /\ pc # "branch" => ~gate.pending
                         /\ plan.scope = "both" => branch = {}
                         /\ pc = "branch" /\ ~gate.pending => intent = {}
                         /\ pc = "branch" /\ gate.pending => plan.scope = "both"
         /\ plan.scope = "retry" => gate.pending /\ (pc = "branch" => intent = {})
         /\ plan.scope = "start" => pc \in Completing
         /\ gate.written => gate.pending /\ intent = {}
         /\ plan.scope # "start" => gate.branch = (branch # {})
<1>1. pc \notin Undecided /\ pc \notin {"down", "failed", "open"}
  BY DEF Undecided, Completing
<1>2. plan.scope \in Scopes /\ gate \in [pending : BOOLEAN, written : BOOLEAN, branch : BOOLEAN]
  BY DEF Shaped, Planned, Gated
<1>3. plan.scope \in {"both", "conversation", "start", "retry"} /\ (pc = "save" => Restoring)
  BY <1>2 DEF Guarded, GuardedRecovery, GuardedDecided, Completing, Scopes, Restoring
<1>. QED
  BY <1>1, <1>2, <1>3 DEF Guarded, GuardedDecided, GuardedRecovery, GuardedGates, Restoring, Completing

LEMMA GuardedDeferred ==
  ASSUME Shaped, Guarded, pc \in Completing, Deferred
  PROVE  Guarded'
<1>1. pc \in {"save", "branch"} \cup Completing
  OBVIOUS
<1>2. gate' = [gate EXCEPT !.pending = TRUE] /\ UNCHANGED <<intent, branch>>
  BY DEF Deferred, disk
<1>3. gate'.pending /\ gate'.written = gate.written /\ gate'.branch = gate.branch
  BY <1>1, <1>2, GuardedDone
<1>4. CASE plan.scope = "conversation"
  <2>1. pc' = "idle" /\ plan' = NoPlan
    BY <1>4 DEF Deferred, Restoring, Settle
  <2>2. GuardedGates'
    BY <1>1, <1>2, <1>3, <1>4, GuardedDone DEF GuardedGates
  <2>. QED
    BY <1>3, <2>1, <2>2, GuardedPending
<1>5. CASE plan.scope = "both"
  <2>1. pc' = "branch" /\ plan' = plan
    BY <1>5 DEF Deferred, Restoring
  <2>2. GuardedGates' /\ Restoring'
    BY <1>1, <1>2, <1>3, <1>5, <2>1, GuardedDone DEF GuardedGates, Restoring
  <2>3. GuardedDecided'
    BY <1>1, <1>2, <1>3, <1>5, <2>1, <2>2, GuardedDone DEF GuardedDecided, Undecided, Completing, Restoring
  <2>. QED
    BY <2>1, <2>2, <2>3, GuardedWithin
<1>6. CASE plan.scope = "start"
  <2>1. pc' = "open" /\ plan' = plan
    BY <1>6 DEF Deferred, Restoring
  <2>2. GuardedGates' /\ GuardedRecovery'
    BY <1>1, <1>2, <1>3, <1>6, <2>1, GuardedDone DEF GuardedGates, GuardedRecovery, Completing
  <2>. QED
    BY <1>6, <2>1, <2>2, GuardedRecovers
<1>7. CASE plan.scope = "retry"
  <2>1. pc' = "idle" /\ plan' = NoPlan
    BY <1>7 DEF Deferred, Restoring
  <2>2. GuardedGates'
    BY <1>1, <1>2, <1>3, <1>7, GuardedDone DEF GuardedGates
  <2>. QED
    BY <1>3, <2>1, <2>2, GuardedPending
<1>. QED
  BY <1>1, <1>4, <1>5, <1>6, <1>7, GuardedDone

LEMMA GuardedCompleting ==
  ASSUME Shaped, Guarded, ForceSave \/ WriteTranscript \/ AppendMarker \/ Unlink
  PROVE  Guarded'
<1>1. pc \in {"save", "branch"} \cup Completing /\ (~ForceSave => pc \in Completing)
  BY DEF ForceSave, WriteTranscript, AppendMarker, Unlink, Completing
<1>2. CASE Deferred /\ ~ForceSave
  BY <1>1, <1>2, GuardedDeferred
<1>3. CASE ForceSave \/ ((WriteTranscript \/ AppendMarker) /\ ~Deferred)
  <2>1. /\ pc' \in Completing /\ UNCHANGED <<intent, branch, gate, plan>>
        /\ pc \in {"save"} \cup Completing
    BY <1>3 DEF ForceSave, WriteTranscript, AppendMarker, memory, Completing
  <2>2. GuardedGates' /\ (Restoring' <=> Restoring)
    BY <1>1, <2>1, GuardedDone DEF GuardedGates, Restoring, Completing
  <2>3. CASE Restoring
    <3>1. GuardedDecided'
      BY <1>1, <2>1, <2>2, <2>3, GuardedDone DEF GuardedDecided, Undecided, Completing
    <3>. QED
      BY <2>1, <2>2, <2>3, <3>1, GuardedWithin
  <2>4. CASE ~Restoring
    <3>1. plan'.scope \in {"start", "retry"}
      BY <1>1, <2>1, <2>4, GuardedDone
    <3>2. GuardedRecovery'
      BY <1>1, <2>1, <3>1, GuardedDone DEF GuardedRecovery, Completing
    <3>. QED
      BY <2>1, <2>2, <3>1, <3>2, GuardedRecovers
  <2>. QED
    BY <2>3, <2>4
<1>4. CASE Unlink /\ ~Deferred
  <2>1. /\ pc = "unlink" /\ intent' = {} /\ UNCHANGED <<branch, plan>>
        /\ pc' = (IF plan.scope = "start" THEN "open" ELSE "branch")
        /\ gate' = [gate EXCEPT !.pending = gate.pending /\ ~Restoring, !.written = plan.scope = "retry"]
    BY <1>4 DEF Unlink
  <2>2. /\ gate'.pending = (gate.pending /\ ~Restoring) /\ gate'.written = (plan.scope = "retry")
        /\ gate'.branch = gate.branch
    BY <1>1, <2>1, GuardedDone
  <2>3. GuardedGates' /\ (Restoring' <=> Restoring)
    BY <1>1, <2>1, <2>2, GuardedDone DEF GuardedGates, Restoring
  <2>4. CASE Restoring
    <3>1. pc' = "branch"
      BY <2>1, <2>4 DEF Restoring
    <3>2. GuardedDecided'
      BY <1>1, <2>1, <2>2, <2>3, <2>4, <3>1, GuardedDone DEF GuardedDecided, Undecided, Completing
    <3>. QED
      BY <2>3, <2>4, <3>1, <3>2, GuardedWithin
  <2>5. CASE ~Restoring
    <3>1. plan.scope \in {"start", "retry"}
      BY <1>1, <2>5, GuardedDone
    <3>2. GuardedRecovery'
      BY <1>1, <2>1, <2>2, <3>1, GuardedDone DEF GuardedRecovery, Completing
    <3>. QED
      BY <2>1, <2>3, <3>1, <3>2, GuardedRecovers
  <2>. QED
    BY <2>4, <2>5
<1>. QED
  BY <1>2, <1>3, <1>4

LEMMA GuardedReconcile ==
  ASSUME Shaped, Guarded, Reconcile
  PROVE  Guarded'
<1>1. /\ pc \in {"save", "branch"} \cup Completing /\ pc = "branch" /\ Restoring
      /\ pc' = "idle" /\ plan' = NoPlan /\ intent' = intent
  BY DEF Reconcile, Settle
<1>2. CASE plan.scope = "conversation"
  <2>1. ~gate.pending /\ ~gate.written /\ intent = {} /\ gate.branch = (branch # {})
    BY <1>1, <1>2, GuardedDone
  <2>2. \/ branch' = {} /\ gate' = [gate EXCEPT !.branch = FALSE]
        \/ gate' = [gate EXCEPT !.pending = TRUE, !.written = TRUE] /\ branch' = branch
    BY <1>2 DEF Reconcile, BranchCommitted
  <2>3. CASE branch' = {} /\ gate' = [gate EXCEPT !.branch = FALSE]
    <3>1. ~gate'.pending /\ ~gate'.written /\ gate'.branch = FALSE /\ Ready' = {}
      BY <1>1, <2>1, <2>3, GuardedDone DEF Ready
    <3>. QED
      BY <1>1, <2>3, <3>1, GuardedQuiet
  <2>4. CASE gate' = [gate EXCEPT !.pending = TRUE, !.written = TRUE] /\ branch' = branch
    <3>1. gate'.pending /\ gate'.branch = gate.branch
      BY <1>1, <2>4, GuardedDone
    <3>2. GuardedGates'
      BY <1>1, <2>1, <2>4, <3>1 DEF GuardedGates
    <3>. QED
      BY <1>1, <3>1, <3>2, GuardedPending
  <2>. QED
    BY <2>2, <2>3, <2>4
<1>3. CASE plan.scope = "both"
  <2>1. UNCHANGED <<branch, gate>> /\ branch = {} /\ gate.branch = (branch # {})
    BY <1>1, <1>3, GuardedDone DEF Reconcile
  <2>2. CASE gate.pending
    <3>1. GuardedGates'
      BY <1>1, <1>3, <2>1, <2>2, GuardedDone DEF GuardedGates
    <3>. QED
      BY <1>1, <2>1, <2>2, <3>1, GuardedPending
  <2>3. CASE ~gate.pending
    <3>1. ~gate'.written /\ Ready' = {}
      BY <1>1, <2>1, <2>3, GuardedDone DEF Ready
    <3>. QED
      BY <1>1, <2>1, <2>3, <3>1, GuardedQuiet
  <2>. QED
    BY <2>2, <2>3
<1>. QED
  BY <1>1, <1>2, <1>3 DEF Restoring

LEMMA GuardedStarts ==
  ASSUME Shaped, Guarded, Placed, Retry \/ RetryBranch \/ Kill \/ Start \/ Opened
  PROVE  Guarded'
<1>1. gate \in [pending : BOOLEAN, written : BOOLEAN, branch : BOOLEAN]
  BY DEF Shaped, Gated
<1>2. CASE Retry
  <2>1. /\ pc = "idle" /\ gate.pending /\ UNCHANGED <<intent, branch, gate>> /\ plan = NoPlan
        /\ pc' \in {"branch", "write"} /\ plan'.scope = "retry" /\ (pc' = "branch" => gate.written)
    BY <1>2 DEF Retry, disk, memory, Guarded, GuardedBetween, NoPlan
  <2>2. GuardedRecovery' /\ GuardedGates'
    BY <2>1 DEF Guarded, GuardedGates, GuardedRecovery, NoPlan, Completing
  <2>. QED
    BY <2>1, <2>2, GuardedRecovers DEF Completing
<1>3. CASE RetryBranch
  <2>1. /\ pc \in {"save", "branch"} \cup Completing /\ pc = "branch" /\ plan.scope = "retry"
        /\ pc' = "idle" /\ plan' = NoPlan /\ intent' = intent
    BY <1>3 DEF RetryBranch
  <2>2. intent = {} /\ gate.pending /\ gate.branch = (branch # {})
    BY <2>1, GuardedDone
  <2>3. \/ gate' = Open /\ branch' = {}
        \/ gate' = gate /\ branch' = branch
    BY <1>3, <2>2 DEF RetryBranch, BranchCommitted
  <2>4. CASE gate' = Open /\ branch' = {}
    <3>1. ~gate'.pending /\ ~gate'.written /\ gate'.branch = FALSE /\ Ready' = {}
      BY <2>1, <2>2, <2>4 DEF Open, Ready
    <3>. QED
      BY <2>1, <2>4, <3>1, GuardedQuiet
  <2>5. CASE gate' = gate /\ branch' = branch
    <3>1. GuardedGates'
      BY <2>1, <2>2, <2>5 DEF GuardedGates
    <3>. QED
      BY <2>1, <2>2, <2>5, <3>1, GuardedPending
  <2>. QED
    BY <2>3, <2>4, <2>5
<1>4. CASE Kill
  <2>1. pc' = "down" /\ plan' = NoPlan /\ gate' = Open /\ plan'.scope = "none" /\ ~Restoring'
    BY <1>4 DEF Kill, NoPlan, Restoring
  <2>. QED
    BY <2>1 DEF Guarded, GuardedBetween, GuardedUndecided, GuardedDecided, GuardedRecovery, GuardedGates,
                Quiet, Open, Undecided, Completing
<1>5. CASE Start
  <2>1. /\ pc = "down" /\ plan'.scope = "start" /\ pc' = (IF intent' = {} THEN "open" ELSE "write")
        /\ gate' = gate
    BY <1>5 DEF Start, memory, NoPlan
  <2>2. gate.written => gate.pending /\ intent = {}
    BY DEF Guarded, GuardedGates
  <2>3. intent' \subseteq intent
    BY <1>5 DEF Start
  <2>4. GuardedRecovery' /\ GuardedGates'
    BY <2>1, <2>2, <2>3 DEF GuardedRecovery, GuardedGates, Completing
  <2>. QED
    BY <2>1, <2>4, GuardedRecovers DEF Completing
<1>6. CASE Opened
  <2>1. pc = "open" /\ plan' = NoPlan /\ intent' = intent /\ pc' \in {"down", "failed", "idle"}
        /\ (~gate.pending => intent = {}) /\ (gate.written => gate.pending /\ intent = {})
    BY <1>6 DEF Opened, Guarded, GuardedRecovery, GuardedGates
  <2>2. plan'.scope = "none" /\ ~Restoring'
    BY <2>1 DEF NoPlan, Restoring
  <2>3. CASE pc' # "idle"
    <3>1. gate' = gate
      BY <1>6, <2>3 DEF Opened, memory
    <3>. QED
      BY <2>1, <2>2, <2>3, <3>1 DEF Guarded, GuardedBetween, GuardedUndecided, GuardedDecided, GuardedRecovery,
                  GuardedGates, Quiet, Undecided, Completing
  <2>4. CASE pc' = "idle"
    <3>1. gate' = [pending |-> gate.pending \/ branch' # {}, written |-> branch' # {} /\ ~gate.pending,
                   branch |-> branch' # {}]
      BY <1>6, <2>4 DEF Opened
    <3>2. /\ gate'.pending = (gate.pending \/ branch' # {}) /\ gate'.written = (branch' # {} /\ ~gate.pending)
          /\ gate'.branch = (branch' # {})
      BY <3>1
    <3>3. GuardedGates'
      BY <2>1, <3>2 DEF GuardedGates
    <3>4. CASE gate'.pending
      BY <2>1, <2>4, <3>3, <3>4, GuardedPending
    <3>5. CASE ~gate'.pending
      <4>1. branch' = {} /\ ~gate.pending /\ ~gate'.written /\ gate'.branch = FALSE /\ Ready' = {}
        BY <2>1, <3>2, <3>5 DEF Ready
      <4>. QED
        BY <2>1, <2>4, <3>5, <4>1, GuardedQuiet
    <3>. QED
      BY <3>4, <3>5
  <2>. QED
    BY <2>3, <2>4
<1>. QED
  BY <1>2, <1>3, <1>4, <1>5, <1>6

LEMMA GuardedNext ==
  ASSUME Shaped, Guarded, Placed, TakenBack, [Next]_vars
  PROVE  Guarded'
<1>1. CASE UNCHANGED vars
  BY <1>1 DEF vars, disk, memory, Guarded, GuardedBetween, GuardedUndecided, GuardedDecided, GuardedRecovery,
              GuardedGates, Quiet, Restoring, Ready
<1>2. ASSUME NEW i \in DOMAIN ledger, NEW c \in {"both", "conversation"}, Restore(i, c) PROVE Guarded'
  BY <1>2, GuardedRestore
<1>. QED
  BY <1>1, <1>2, GuardedTurns, GuardedUndone, GuardedCompleting, GuardedReconcile, GuardedStarts DEF Next

LEMMA FaultsGrow ==
  ASSUME faults \in Nat, [Next]_vars
  PROVE  faults' \in Nat /\ faults <= faults'
<1>. SUFFICES faults' = faults \/ faults' = faults + 1
  OBVIOUS
<1>1. CASE Begin \/ Submit \/ ToolPost \/ Finish \/ CloseOut \/ Clear
  BY <1>1 DEF Begin, Submit, ToolPost, Finish, CloseOut, Clear
<1>2. ASSUME NEW i, NEW c, Restore(i, c) PROVE faults' = faults
  BY <1>2 DEF Restore
<1>3. CASE Stage \/ SetMessages \/ Abort \/ Unstage
  BY <1>3 DEF Stage, SetMessages, Abort, Unstage, Fault
<1>4. CASE Code \/ Undo \/ UndoRefused \/ Arm \/ ForceSave
  BY <1>4 DEF Code, Undo, UndoRefused, Arm, ForceSave, Fault
<1>5. CASE WriteTranscript \/ AppendMarker \/ Unlink
  BY <1>5 DEF WriteTranscript, AppendMarker, Unlink, Deferred, Fault
<1>6. CASE Reconcile \/ Retry \/ RetryBranch
  BY <1>6 DEF Reconcile, Retry, RetryBranch, Fault
<1>7. CASE Kill \/ Start \/ Opened
  BY <1>7 DEF Kill, Start, Opened, Fault
<1>8. CASE UNCHANGED vars
  BY <1>8 DEF vars
<1>. QED
  BY <1>1, <1>2, <1>3, <1>4, <1>5, <1>6, <1>7, <1>8 DEF Next

\* A restore is only taken back after a write was refused.
LEMMA RefusedOnce ==
  ASSUME Shaped, Guarded, faults' <= 1, [Next]_vars
  PROVE  TakenBack
<1>1. faults \in Nat
  BY DEF Shaped, Counts
<1>2. pc \in {"abort", "unstage"} => faults > 0
  BY DEF Guarded, GuardedUndecided, Undecided
<1>. QED
  BY <1>1, <1>2, FaultsGrow DEF TakenBack

\* What is known of every state: the guarded part always, the rest as long as the
\* context was not changed behind the saver.
Known == Shaped /\ Guarded /\ Placed /\ (~apart => Inv)

LEMMA KnownFirst ==
  ASSUME Init
  PROVE  Known
<1>1. Typed /\ Inv
  BY InitHolds
<1>2. Placed
  BY DEF Init, Placed
<1>3. Guarded
  BY NoPlanIs DEF Init, Guarded, GuardedBetween, GuardedUndecided, GuardedDecided, GuardedRecovery, GuardedGates,
                  Open, NoPlan, Restoring, Ready, Undecided, Completing
<1>. QED
  BY <1>1, <1>2, <1>3, TypedIs DEF Known

LEMMA KnownNext ==
  ASSUME Known, TakenBack, [Next]_vars
  PROVE  Known'
<1>1. Shaped' /\ Guarded' /\ Placed'
  BY TypedNext, GuardedNext, PlacedNext DEF Known
<1>2. ~apart' => Inv'
  BY ApartStays, InvNext DEF Known
<1>. QED
  BY <1>1, <1>2 DEF Known

LEMMA KnownSays ==
  ASSUME Known
  PROVE  TurnsAfterRecovery /\ ConversationAsTold
<1>1. TurnsAfterRecovery
  BY DEF Known, Guarded, GuardedBetween, Ready, TurnsAfterRecovery
<1>2. ConversationAsTold
  BY DEF Known, Inv, Between, ConversationAsTold
<1>. QED
  BY <1>1, <1>2

-----------------------------------------------------------------------------
(* Theorems *)

LEMMA Invariant == Spec /\ [][TakenBack]_vars => []Known
<1>1. Init => Known
  BY KnownFirst
<1>2. Known /\ [Next]_vars /\ [TakenBack]_vars => Known'
  <2>1. UNCHANGED vars => TakenBack
    BY DEF vars, TakenBack
  <2>. QED
    BY <2>1, KnownNext
<1>. QED
  BY <1>1, <1>2, PTL DEF Spec

\* What holds while one write or call of a restore was refused at most.
RefusedAtMostOne == faults \in Nat /\ (faults <= 1 => Known)

LEMMA InvariantOfOne == Spec => []RefusedAtMostOne
<1>1. Init => RefusedAtMostOne
  <2>1. Init => Known /\ faults = 0
    BY KnownFirst DEF Init
  <2>. QED
    BY <2>1 DEF RefusedAtMostOne
<1>2. RefusedAtMostOne /\ [Next]_vars => RefusedAtMostOne'
  <2>. SUFFICES ASSUME RefusedAtMostOne, [Next]_vars PROVE RefusedAtMostOne'
    OBVIOUS
  <2>1. faults' \in Nat /\ faults <= faults'
    BY FaultsGrow DEF RefusedAtMostOne
  <2>2. CASE faults' <= 1
    <3>1. Known
      BY <2>1, <2>2 DEF RefusedAtMostOne
    <3>2. TakenBack
      BY <2>2, <3>1, RefusedOnce DEF Known
    <3>. QED
      BY <2>1, <3>1, <3>2, KnownNext DEF RefusedAtMostOne
  <2>. QED
    BY <2>1, <2>2 DEF RefusedAtMostOne
<1>. QED
  BY <1>1, <1>2, PTL DEF Spec

\* However many writes the disk refuses, as long as none of them is one that
\* takes a failed restore back: no turn begins, runs or ends over an intent
\* that a start would complete, or over a staged branch. A rollback of the
\* conversation may be refused and the context be cleared.
THEOREM NoTurnOverARestore == Spec /\ [][TakenBack]_vars => []TurnsAfterRecovery
<1>1. Known => TurnsAfterRecovery
  BY KnownSays
<1>. QED
  BY <1>1, Invariant, PTL

\* And until a rollback of the conversation is refused or the context cleared, the
\* conversation is one the user was told of, over restores, restores that failed
\* and were rolled back, kills and starts.
THEOREM FoundAsTold == Spec /\ [][TakenBack]_vars => []ConversationAsTold
<1>1. Known => ConversationAsTold
  BY KnownSays
<1>. QED
  BY <1>1, Invariant, PTL

\* One refusal, the refused rollback of a conversation counted like a refused
\* write, is never one that takes an intent back: both hold of every behaviour
\* until the second, what the user was told with the same word about the context.
THEOREM OneRefusal == Spec => [](faults <= 1 => TurnsAfterRecovery /\ ConversationAsTold)
<1>1. RefusedAtMostOne => (faults <= 1 => TurnsAfterRecovery /\ ConversationAsTold)
  BY KnownSays DEF RefusedAtMostOne
<1>. QED
  BY <1>1, InvariantOfOne, PTL

-----------------------------------------------------------------------------
(* LiveMCP: what a command knows and what is mounted and connected *)

Resting == {"idle", "close", "strays", "closed"}
AtWork == {"discover", "mount", "undo", "unmount", "remount", "discard", "stopold", "stopowned"}
Commands == [op : {"add", "reload", "remove"}, server : Servers, spec : Specs \cup {NoSpec}, known : BOOLEAN]
            \cup [op : {"close"}]
Replies == [op : {"add", "reload", "remove", "close"}, server : Servers,
            connected : {"yes", "no", "unknown"}, ok : BOOLEAN] \cup {NoReport}
Made == [server : Servers, spec : Specs \cup {NoSpec}, caps : Seq(Tools), up : BOOLEAN]
Kept == [m : Nat, names : Seq(Tools)]
Runs == [pc : Resting \cup AtWork, op : {"none", "add", "reload", "remove", "close"},
         server : Servers \cup {NoServer}, m : Nat, old : Nat, names : Seq(Tools),
         missing : SUBSET Tools, clean : BOOLEAN, faults : Nat, say : Replies,
         servers : SUBSET Servers, strays : SUBSET Kept]

Formed ==
  /\ config \in [Servers -> Specs \cup {NoSpec}] /\ waiting \in Seq(Commands)
  /\ managers \in Seq(Made) /\ tools \in [Tools -> Int] /\ owned \in [Servers -> Nat]
  /\ stranded \subseteq Kept /\ run \in Runs

Ranged ==
  /\ \A t \in Tools : tools[t] \in Managers \cup {Nobody, Booted}
  /\ \A s \in Servers : owned[s] \in Managers \cup {Nobody}
  /\ \A x \in stranded : x.m \in Managers
  /\ {run.m, run.old} \subseteq Managers \cup {Nobody}

\* A manager is owned under the server it was made for, and only its own
\* capabilities are mounted for it.
Matched ==
  /\ \A s \in Servers : owned[s] # Nobody => managers[owned[s]].server = s
  /\ \A t \in Tools : tools[t] \in Managers => t \in ToSet(Caps(tools[t]))

\* Who accounts for a mounted tool, and for a connection.
OwnedManager(m) == owned[managers[m].server] = m
Mounted(t) ==
  \/ OwnedManager(tools[t])
  \/ \E x \in stranded : x.m = tools[t] /\ t \in ToSet(x.names)
  \/ run.pc = "undo" /\ tools[t] = run.m /\ t \in ToSet(run.names)
Connected(m) ==
  \/ OwnedManager(m) \/ m \in Strays \cup cut
  \/ run.pc \in AtWork \ {"stopold", "stopowned"} /\ m = run.m
  \/ run.pc = "stopold" /\ m = run.old
Accounted ==
  /\ \A t \in Tools : tools[t] \in Managers => Mounted(t)
  /\ \A m \in Managers : managers[m].up => Connected(m)

\* The command at work: the connection it found, and the one it made.
Handling ==
  /\ run.pc \in AtWork => run.server \in Servers /\ run.op # "none"
  /\ run.pc \in AtWork \ {"stopold"} => run.old = owned[run.server]
  /\ run.pc \in {"unmount", "remount", "stopowned", "stopold"} => run.old # Nobody
  /\ run.pc = "stopold" => run.m = owned[run.server]
  /\ run.pc \in {"mount", "stopowned"} /\ run.old # Nobody => \A t \in Tools : tools[t] # run.old
Making ==
  /\ run.pc \in {"discover", "mount", "undo", "discard", "stopold"} => run.m # Nobody
  /\ run.pc = "stopowned" => run.m = Nobody
  /\ run.pc \in AtWork /\ run.m # Nobody => run.m # run.old /\ managers[run.m].server = run.server
  /\ run.pc \in {"discover", "mount", "unmount"} /\ run.m # Nobody => \A t \in Tools : tools[t] # run.m
  /\ run.pc \in {"discover", "mount", "undo", "unmount"} /\ run.m # Nobody => run.clean
  /\ run.pc = "remount" /\ run.m # Nobody /\ ~run.clean => run.m \in Strays
  /\ run.pc = "undo" => ToSet(run.names) \subseteq ToSet(Caps(run.m))
  /\ run.pc = "remount" => run.missing \subseteq ToSet(Caps(run.old))
Closing ==
  /\ run.pc \in {"close", "strays", "closed"} => run.op = "close"
  /\ run.op = "close" => run.m = Nobody
  /\ \A s \in run.servers : owned[s] # Nobody /\ run.op = "close" /\ (run.pc \in AtWork => s # run.server)

Handled == Ranged /\ Matched /\ Accounted /\ Handling /\ Making /\ Closing

-----------------------------------------------------------------------------
(* Names, prefixes and managers *)

\* Names that are mounted or unmounted in order, or from the last.
LEMMA PrefixNames ==
  ASSUME NEW s \in Seq(Tools), NEW k \in 0 .. Len(s)
  PROVE  /\ Prefix(s, k) \subseteq ToSet(s) /\ ToSet(s) \subseteq Tools
         /\ k = Len(s) => Prefix(s, k) = ToSet(s)
         /\ SubSeq(s, 1, k) \in Seq(Tools) /\ ToSet(SubSeq(s, 1, k)) = Prefix(s, k)
<1>1. Len(s) \in Nat /\ DOMAIN s = 1 .. Len(s) /\ \A i \in 1 .. Len(s) : s[i] \in Tools
  BY LenProperties, ElementOfSeq
<1>2. SubSeq(s, 1, k) \in Seq(Tools) /\ Len(SubSeq(s, 1, k)) = k
      /\ \A i \in 1 .. k : SubSeq(s, 1, k)[i] = s[i]
  <2>1. \A i \in 1 .. k : s[i] \in Tools
    BY <1>1
  <2>2. k \in Int /\ 1 \in Int /\ k - 1 + 1 = k /\ \A i \in 1 .. k : 1 + i - 1 = i
    BY <1>1
  <2>. QED
    BY <1>1, <2>1, <2>2, SubSeqProperties
<1>3. Prefix(s, k) = {s[i] : i \in 1 .. k}
  <2>1. DOMAIN SubSeq(s, 1, k) = 1 .. k
    BY <1>2, LenProperties
  <2>. QED
    BY <1>2, <2>1 DEF Prefix, ToSet
<1>4. ToSet(s) = {s[i] : i \in 1 .. Len(s)}
  BY <1>1 DEF ToSet
<1>5. ToSet(SubSeq(s, 1, k)) = Prefix(s, k)
  BY DEF Prefix
<1>6. \A i \in 1 .. k : i \in 1 .. Len(s)
  BY <1>1
<1>. QED
  BY <1>1, <1>2, <1>3, <1>4, <1>5, <1>6

LEMMA ReverseNames ==
  ASSUME NEW s \in Seq(Tools)
  PROVE  Reverse(s) \in Seq(Tools) /\ Len(Reverse(s)) = Len(s) /\ ToSet(Reverse(s)) = ToSet(s)
<1>1. Len(s) \in Nat /\ DOMAIN s = 1 .. Len(s) /\ \A i \in 1 .. Len(s) : s[i] \in Tools
  BY LenProperties, ElementOfSeq
<1>. PICK r : r = Reverse(s)
  OBVIOUS
<1>2. r = [i \in 1 .. Len(s) |-> s[(Len(s) - i) + 1]]
  BY DEF Reverse
<1>3. \A i \in 1 .. Len(s) : (Len(s) - i) + 1 \in 1 .. Len(s) /\ (Len(s) - ((Len(s) - i) + 1)) + 1 = i
  BY <1>1
<1>4. r \in Seq(Tools) /\ Len(r) = Len(s) /\ DOMAIN r = 1 .. Len(s)
  BY <1>1, <1>2, <1>3
<1>5. {r[i] : i \in 1 .. Len(s)} = {s[i] : i \in 1 .. Len(s)}
  BY <1>1, <1>2, <1>3
<1>. QED
  BY <1>1, <1>4, <1>5 DEF ToSet

LEMMA UnmountedNames ==
  ASSUME NEW s \in Seq(Tools), NEW k \in 0 .. Len(s)
  PROVE  /\ Prefix(Reverse(s), k) \subseteq ToSet(s) /\ ToSet(s) \subseteq Tools
         /\ k = Len(Reverse(s)) <=> k = Len(s)
         /\ k = Len(s) => Prefix(Reverse(s), k) = ToSet(s)
BY ReverseNames, PrefixNames

LEMMA ManagersAre ==
  ASSUME Formed
  PROVE  /\ Managers = 1 .. Len(managers) /\ Len(managers) \in Nat
         /\ Managers \subseteq Nat /\ Nobody \notin Managers /\ Booted \notin Managers /\ Nobody # Booted
         /\ \A m \in Managers : /\ managers[m] \in Made /\ managers[m].server \in Servers
                                /\ Caps(m) \in Seq(Tools) /\ managers[m].up \in BOOLEAN
<1>1. Managers = 1 .. Len(managers) /\ Len(managers) \in Nat /\ \A m \in Managers : managers[m] \in Made
  BY LenProperties, ElementOfSeq DEF Formed, Managers
<1>2. \A m \in Managers : managers[m].server \in Servers /\ managers[m].caps \in Seq(Tools) /\ managers[m].up \in BOOLEAN
  BY <1>1 DEF Made
<1>. QED
  BY <1>1, <1>2 DEF Caps, Nobody, Booted

\* A manager more is the last one.
LEMMA ManagerMade ==
  ASSUME Formed, NEW x \in Made, managers' = Append(managers, x)
  PROVE  /\ managers' \in Seq(Made) /\ Managers' = Managers \cup {Len(managers')}
         /\ Len(managers') \notin Managers /\ managers'[Len(managers')] = x /\ Len(managers') # Nobody
         /\ \A m \in Managers : managers'[m] = managers[m]
<1>1. managers \in Seq(Made) /\ Len(managers) \in Nat /\ Managers = 1 .. Len(managers)
  BY ManagersAre DEF Formed
<1>2. /\ managers' \in Seq(Made) /\ Len(managers') = Len(managers) + 1
      /\ \A i \in 1 .. Len(managers) : managers'[i] = managers[i]
      /\ managers'[Len(managers) + 1] = x
  BY <1>1, AppendProperties
<1>3. Managers' = 1 .. Len(managers')
  BY <1>2, LenProperties DEF Managers
<1>. QED
  BY <1>1, <1>2, <1>3 DEF Nobody

\* What is changed of one manager.
LEMMA ManagerChanged ==
  ASSUME Formed, NEW m \in Managers, NEW x \in Made, managers' = [managers EXCEPT ![m] = x]
  PROVE  /\ managers' \in Seq(Made) /\ Managers' = Managers /\ managers'[m] = x
         /\ \A n \in Managers : n # m => managers'[n] = managers[n]
<1>1. managers \in Seq(Made) /\ m \in 1 .. Len(managers) /\ DOMAIN managers = 1 .. Len(managers)
  BY ManagersAre, LenProperties DEF Formed
<1>2. managers' \in Seq(Made) /\ DOMAIN managers' = DOMAIN managers
  BY <1>1, ExceptSeq, LenProperties
<1>. QED
  BY <1>1, <1>2 DEF Managers

-----------------------------------------------------------------------------
(* What is kept has its form *)

\* The command at work goes on, or fails on the way.
LEMMA RunGoes ==
  ASSUME run \in Runs, NEW p \in Resting \cup AtWork
  PROVE  /\ Goes(p) \in Runs
         /\ Goes(p).pc = p /\ Goes(p).op = run.op /\ Goes(p).server = run.server /\ Goes(p).m = run.m
         /\ Goes(p).old = run.old /\ Goes(p).names = run.names /\ Goes(p).missing = run.missing
         /\ Goes(p).clean = run.clean /\ Goes(p).say = run.say /\ Goes(p).servers = run.servers
         /\ Goes(p).strays = run.strays /\ Goes(p).faults = run.faults
BY DEF Goes, Runs

LEMMA RunFails ==
  ASSUME run \in Runs, NEW p \in Resting \cup AtWork
  PROVE  /\ Fails(p) \in Runs
         /\ Fails(p).pc = p /\ Fails(p).op = run.op /\ Fails(p).server = run.server /\ Fails(p).m = run.m
         /\ Fails(p).old = run.old /\ Fails(p).names = run.names /\ Fails(p).missing = run.missing
         /\ Fails(p).clean = run.clean /\ Fails(p).say = run.say /\ Fails(p).servers = run.servers
         /\ Fails(p).strays = run.strays /\ Fails(p).faults = run.faults + 1
<1>. PICK g \in Runs : g = Goes(p)
  BY RunGoes
<1>1. Fails(p) = [g EXCEPT !.faults = g.faults + 1]
  BY DEF Fails
<1>. PICK n \in Nat : n = g.faults + 1
  BY DEF Runs
<1>. PICK f : f = Fails(p)
  OBVIOUS
<1>2. f \in Runs
  <2>1. f = [g EXCEPT !.faults = n]
    BY <1>1
  <2>. QED
    BY ONLY <2>1, g \in Runs, n \in Nat DEF Runs
<1>3. /\ g.pc = p /\ g.op = run.op /\ g.server = run.server /\ g.m = run.m
      /\ g.old = run.old /\ g.names = run.names /\ g.missing = run.missing
      /\ g.clean = run.clean /\ g.say = run.say /\ g.servers = run.servers
      /\ g.strays = run.strays /\ g.faults = run.faults
  BY RunGoes
<1>. QED
  BY <1>1, <1>2, <1>3 DEF Runs

LEMMA NoRunIs ==
  /\ NoRun \in Runs /\ NoRun.pc = "idle" /\ NoRun.op = "none" /\ NoRun.m = Nobody /\ NoRun.old = Nobody
  /\ NoRun.servers = {} /\ NoRun.strays = {} /\ NoRun.clean = TRUE /\ NoRun.faults = 0
<1>. PICK e \in Seq(Tools) : e = << >>
  BY EmptySeq
<1>1. NoRun = [pc |-> "idle", op |-> "none", server |-> NoServer, m |-> 0, old |-> 0, names |-> e,
               missing |-> {}, clean |-> TRUE, faults |-> 0, say |-> NoReport, servers |-> {}, strays |-> {}]
  BY DEF NoRun, Nobody
<1>2. NoRun \in Runs
  BY <1>1 DEF Runs, Replies, Resting
<1>. QED
  BY <1>1, <1>2 DEF Nobody

\* A result for the command at work.
LEMMA SaidIs ==
  ASSUME run.op \in {"add", "reload", "remove", "close"}, run.server \in Servers,
         NEW connected \in {"yes", "no", "unknown"}, NEW ok \in BOOLEAN
  PROVE  /\ Said(run, connected, ok) \in Replies /\ Said(run, connected, ok) # NoReport
         /\ Said(run, connected, ok).server = run.server /\ Said(run, connected, ok).connected = connected
BY DEF Said, Replies, NoReport

LEMMA AnswerIs ==
  ASSUME run \in Runs, Closing, NEW r, Answer(r)
  PROVE  /\ run' \in Runs /\ run'.m = Nobody /\ run'.pc \in {"idle", "close"} /\ run'.op \in {"none", "close"}
         /\ run'.pc = "close" => run'.op = "close"
         /\ \A s \in run'.servers : s \in run.servers /\ run'.op = "close"
         /\ run'.old \in {run.old, Nobody}
         /\ run.op # "close" => run'.pc = "idle" /\ run'.op = "none" /\ report' = (IF r = NoReport THEN report ELSE r)
         /\ run.op = "close" => run'.pc = "close" /\ report' = report
<1>1. CASE run.op = "close"
  <2>1. run' = Goes("close") /\ report' = report
    BY <1>1 DEF Answer, Goes
  <2>. QED
    BY <1>1, <2>1, RunGoes DEF Closing, Resting
<1>2. CASE run.op # "close"
  <2>1. run' = NoRun /\ report' = IF r = NoReport THEN report ELSE r
    BY <1>2 DEF Answer
  <2>. QED
    BY <1>2, <2>1, NoRunIs
<1>. QED
  BY <1>1, <1>2

\* The command that has the lock is taken from those that wait.
LEMMA FirstIs ==
  ASSUME Formed, NEW ops, Takes(ops)
  PROVE  First \in Commands /\ waiting' \in Seq(Commands)
BY HeadTailProperties DEF Formed, Takes, First

LEMMA CommandIs ==
  ASSUME NEW c \in Commands, c.op \in {"add", "reload", "remove"}
  PROVE  c.server \in Servers /\ c.spec \in Specs \cup {NoSpec} /\ c.known \in BOOLEAN
BY DEF Commands

LEMMA JobIs ==
  ASSUME Formed, First \in Commands, First.op \in {"add", "reload", "remove"},
         NEW p \in AtWork, NEW m \in Nat, run' = Job(First, p, m)
  PROVE  /\ run' \in Runs /\ run'.pc = p /\ run'.op = First.op /\ run'.server = First.server /\ run'.m = m
         /\ run'.old = owned[First.server] /\ run'.servers = {} /\ run'.strays = {} /\ run'.clean = TRUE
<1>1. First.server \in Servers /\ owned[First.server] \in Nat
  BY CommandIs DEF Formed
<1>. PICK n \in Runs : n = NoRun
  BY NoRunIs
<1>2. n.servers = {} /\ n.strays = {} /\ n.clean = TRUE
  BY NoRunIs
<1>3. run' = [n EXCEPT !.op = First.op, !.server = First.server, !.pc = p, !.m = m, !.old = owned[First.server]]
  BY DEF Job
<1>. PICK c, o : c = First /\ o = owned[First.server]
  OBVIOUS
<1>4. /\ run' = [n EXCEPT !.op = c.op, !.server = c.server, !.pc = p, !.m = m, !.old = o]
      /\ c.op \in {"add", "reload", "remove"} /\ c.server \in Servers /\ o \in Nat
  BY <1>1, <1>3
<1>5. /\ run' \in Runs /\ run'.pc = p /\ run'.op = c.op /\ run'.server = c.server /\ run'.m = m
      /\ run'.old = o /\ run'.servers = {} /\ run'.strays = {} /\ run'.clean = TRUE
  BY <1>2, <1>4 DEF Runs
<1>. QED
  BY <1>5

LEMMA FormedQuiet ==
  ASSUME Formed, LiveMCPAssumption,
         \/ \E s \in Servers : (\E x \in Specs : AddServer(s, x)) \/ ReloadServer(s) \/ RemoveServer(s)
         \/ Leave \/ Decide \/ (\E i \in DOMAIN waiting : CancelWaiting(i))
  PROVE  Formed'
<1>1. ASSUME NEW s \in Servers, NEW x \in Specs \cup {NoSpec}, NEW op \in {"add", "reload", "remove"},
             Issue(Command(op, s, x)), config' \in [Servers -> Specs \cup {NoSpec}]
      PROVE  Formed'
  <2>1. Command(op, s, x) \in Commands
    BY DEF Command, Commands
  <2>2. waiting' \in Seq(Commands)
    BY <1>1, <2>1, AppendProperties DEF Issue, Formed
  <2>. QED
    BY <1>1, <2>2 DEF Issue, Formed, live
<1>2. ASSUME NEW s \in Servers, (\E x \in Specs : AddServer(s, x)) \/ ReloadServer(s) \/ RemoveServer(s) PROVE Formed'
  <2>1. ASSUME NEW x \in Specs, AddServer(s, x) PROVE Formed'
    BY <1>1, <2>1 DEF AddServer, Formed
  <2>2. CASE ReloadServer(s)
    BY <1>1, <2>2 DEF ReloadServer, Formed
  <2>3. CASE RemoveServer(s)
    BY <1>1, <2>3 DEF RemoveServer, Formed
  <2>. QED
    BY <1>2, <2>1, <2>2, <2>3
<1>3. CASE Leave
  <2>1. [op |-> "close"] \in Commands
    BY DEF Commands
  <2>2. waiting' \in Seq(Commands)
    BY <1>3, <2>1, AppendProperties DEF Leave, Formed
  <2>. QED
    BY <1>3, <2>2 DEF Leave, Formed, live
<1>4. CASE Decide
  BY <1>4, FirstIs DEF Decide, Formed, live
<1>5. ASSUME NEW i \in DOMAIN waiting, CancelWaiting(i) PROVE Formed'
  <2>1. waiting \in Seq(Commands) /\ i \in 1 .. Len(waiting) /\ Len(waiting) \in Nat
    BY LenProperties DEF Formed
  <2>2. \A j \in 1 .. Len(waiting) : waiting[j] \in Commands
    BY <2>1, ElementOfSeq
  <2>3. SubSeq(waiting, 1, i - 1) \in Seq(Commands) /\ SubSeq(waiting, i + 1, Len(waiting)) \in Seq(Commands)
    BY <2>1, <2>2, SubSeqProperties
  <2>4. waiting' \in Seq(Commands)
    BY <1>5, <2>3, ConcatProperties DEF CancelWaiting, RemoveAt
  <2>. QED
    BY <1>5, <2>4 DEF CancelWaiting, Formed, live
<1>. QED
  BY <1>2, <1>3, <1>4, <1>5

\* Tools are mounted under a name or unmounted.
LEMMA PutIs ==
  ASSUME tools \in [Tools -> Int], NEW names, NEW m \in Int, Put(names, m)
  PROVE  tools' \in [Tools -> Int] /\ \A t \in Tools : tools'[t] = IF t \in names THEN m ELSE tools[t]
BY DEF Put

LEMMA DownIs ==
  ASSUME Formed, NEW m \in Managers, Down(m)
  PROVE  /\ managers' \in Seq(Made) /\ Managers' = Managers
         /\ \A n \in Managers : /\ managers'[n].server = managers[n].server /\ Caps(n)' = Caps(n)
                                /\ managers'[n].up = (IF n = m THEN FALSE ELSE managers[n].up)
<1>. PICK x : x = [managers[m] EXCEPT !.up = FALSE]
  OBVIOUS
<1>1. x \in Made /\ x.server = managers[m].server /\ x.caps = managers[m].caps /\ x.up = FALSE
  BY ManagersAre DEF Made
<1>2. managers' = [managers EXCEPT ![m] = x]
  BY DEF Down
<1>3. /\ managers' \in Seq(Made) /\ Managers' = Managers /\ managers'[m] = x
      /\ \A n \in Managers : n # m => managers'[n] = managers[n]
  BY <1>1, <1>2, ManagerChanged
<1>4. \A n \in Managers : /\ managers'[n].server = managers[n].server /\ managers'[n].caps = managers[n].caps
                         /\ managers'[n].up = (IF n = m THEN FALSE ELSE managers[n].up)
  BY <1>1, <1>3
<1>. QED
  BY <1>3, <1>4 DEF Caps

LEMMA StrandIs ==
  ASSUME Formed, NEW m \in Nat, NEW names \in Seq(Tools), Strand(m, names)
  PROVE  stranded' \subseteq Kept /\ stranded \subseteq stranded'
         /\ \E x \in stranded' : /\ x.m = m /\ x.names = names /\ \A y \in stranded' : y \in stranded \/ y = x
<1>. PICK x : x = [m |-> m, names |-> names]
  OBVIOUS
<1>1. x \in Kept /\ x.m = m /\ x.names = names
  BY DEF Kept
<1>. QED
  BY <1>1 DEF Strand, Formed

-----------------------------------------------------------------------------
(* Each connection and each tool mounted for one stays accounted for *)

\* A command has ended, or the next server is closed.
LEMMA EndsWell ==
  ASSUME run' \in Runs, run'.pc \in Resting, run'.m = Nobody, run'.pc # "idle" => run'.op = "close",
         \A s \in run'.servers : owned'[s] # Nobody /\ run'.op = "close",
         Ranged', Matched', Accounted'
  PROVE  Handled'
<1>1. Handling' /\ Making'
  BY DEF Handling, Making, AtWork, Resting
<1>2. Closing'
  BY DEF Closing, AtWork, Resting
<1>. QED
  BY <1>1, <1>2 DEF Handled

LEMMA HandledQuiet ==
  ASSUME Formed, Handled, UNCHANGED <<live, run, cut>>
  PROVE  Handled'
BY DEF Handled, live, Ranged, Matched, Accounted, Handling, Making, Closing, Mounted, Connected, OwnedManager,
       Managers, Caps, Strays

LEMMA DisconnectIs ==
  ASSUME Formed, Disconnect
  PROVE  /\ UNCHANGED <<config, tools, managers, owned, stranded, cut, leaving, report>> /\ waiting' \in Seq(Commands)
         /\ run = NoRun /\ First.server \in Servers /\ owned[First.server] # Nobody
         /\ run' \in Runs /\ run'.pc = "unmount" /\ run'.op = "remove" /\ run'.server = First.server /\ run'.m = Nobody
         /\ run'.old = owned[First.server] /\ run'.servers = {} /\ run'.clean = TRUE
<1>1. First \in Commands /\ First.op = "remove" /\ waiting' \in Seq(Commands) /\ run = NoRun
  BY FirstIs DEF Disconnect, Takes, Free
<1>2. UNCHANGED <<config, tools, managers, owned, stranded, cut, leaving, report>>
  BY DEF Disconnect, live
<1>3. First.server \in Servers
  BY <1>1, CommandIs
<1>4. owned[First.server] # Nobody
  <2>1. ASSUME owned[First.server] = Nobody PROVE FALSE
    <3>1. Verdict(First) = Removal(First)
      BY <1>1, <2>1 DEF Verdict
    <3>2. Removal(First) # NoReport
      BY DEF Removal, Said, NoReport
    <3>. QED
      BY <3>1, <3>2 DEF Disconnect
  <2>. QED
    BY <2>1
<1>5. /\ run' \in Runs /\ run'.pc = "unmount" /\ run'.op = "remove" /\ run'.server = First.server /\ run'.m = Nobody
      /\ run'.old = owned[First.server] /\ run'.servers = {} /\ run'.clean = TRUE
  <2>1. Nobody \in Nat /\ "unmount" \in AtWork /\ run' = Job(First, "unmount", Nobody)
    BY DEF Nobody, AtWork, Disconnect
  <2>2. First.op \in {"add", "reload", "remove"}
    BY <1>1
  <2>. QED
    BY <1>1, <2>1, <2>2, JobIs
<1>. QED
  BY <1>1, <1>2, <1>3, <1>4, <1>5

LEMMA HandledDisconnect ==
  ASSUME Formed, Handled, Disconnect
  PROVE  Formed' /\ Handled'
<1>1. waiting' \in Seq(Commands) /\ run = NoRun
  BY DisconnectIs
<1>2. UNCHANGED <<config, tools, managers, owned, stranded, cut>>
  BY DisconnectIs
<1>3. First.server \in Servers
  BY DisconnectIs
<1>4. owned[First.server] # Nobody
  BY DisconnectIs
<1>5. /\ run' \in Runs /\ run'.pc = "unmount" /\ run'.op = "remove" /\ run'.server = First.server /\ run'.m = Nobody
      /\ run'.old = owned[First.server] /\ run'.servers = {}
  BY DisconnectIs
<1>6. Formed'
  BY <1>1, <1>2, <1>5 DEF Formed
<1>7. Ranged'
  BY <1>2, <1>3, <1>5 DEF Handled, Ranged, Managers
<1>8. Matched'
  BY <1>2 DEF Handled, Matched, Managers, Caps
<1>9. Accounted'
  BY <1>1, <1>2, <1>5, NoRunIs DEF Handled, Accounted, Mounted, Connected, OwnedManager, Managers, Strays, AtWork
<1>10. Handling' /\ Making' /\ Closing'
  BY <1>1, <1>2, <1>3, <1>4, <1>5 DEF Handling, Making, Closing
<1>. QED
  BY <1>6, <1>7, <1>8, <1>9, <1>10 DEF Handled

LEMMA ConnectIs ==
  ASSUME Formed, Connect, NEW n, n = Len(managers')
  PROVE  /\ UNCHANGED <<config, tools, owned, stranded, cut, leaving, report>> /\ waiting' \in Seq(Commands)
         /\ run = NoRun /\ First.server \in Servers /\ First.op \in {"add", "reload"} /\ First.spec \in Specs \cup {NoSpec}
         /\ managers' \in Seq(Made) /\ Managers' = Managers \cup {n} /\ n \notin Managers /\ n # Nobody
         /\ managers'[n].server = First.server /\ managers'[n].up = TRUE
         /\ \A m \in Managers : managers'[m] = managers[m]
         /\ run' \in Runs /\ run'.pc = "discover" /\ run'.op = First.op /\ run'.server = First.server /\ run'.m = n
         /\ run'.old = owned[First.server] /\ run'.servers = {} /\ run'.clean = TRUE
<1>1. First \in Commands /\ First.op \in {"add", "reload"} /\ waiting' \in Seq(Commands) /\ run = NoRun
  BY FirstIs DEF Connect, Takes, Free
<1>2. UNCHANGED <<config, tools, owned, stranded, cut, leaving, report>>
  BY DEF Connect
<1>3. First.server \in Servers /\ First.spec \in Specs \cup {NoSpec}
  BY <1>1, CommandIs
<1>4. /\ managers' \in Seq(Made) /\ Managers' = Managers \cup {n} /\ n \notin Managers /\ n # Nobody
      /\ managers'[n].server = First.server /\ managers'[n].up = TRUE
      /\ \A m \in Managers : managers'[m] = managers[m]
  <2>. PICK x : x = [server |-> First.server, spec |-> First.spec, caps |-> << >>, up |-> TRUE]
    OBVIOUS
  <2>1. x \in Made /\ x.server = First.server /\ x.up = TRUE
    BY <1>3 DEF Made
  <2>2. managers' = Append(managers, x)
    BY DEF Connect
  <2>. QED
    BY <2>1, <2>2, ManagerMade
<1>5. n \in Nat
  BY <1>4, LenProperties
<1>6. /\ run' \in Runs /\ run'.pc = "discover" /\ run'.op = First.op /\ run'.server = First.server /\ run'.m = n
      /\ run'.old = owned[First.server] /\ run'.servers = {} /\ run'.clean = TRUE
  <2>1. n \in Nat /\ "discover" \in AtWork /\ run' = Job(First, "discover", n)
    BY <1>4, <1>5 DEF AtWork, Connect
  <2>2. First.op \in {"add", "reload", "remove"}
    BY <1>1
  <2>. QED
    BY <1>1, <2>1, <2>2, JobIs
<1>. QED
  BY <1>1, <1>2, <1>3, <1>4, <1>6

LEMMA HandledConnect ==
  ASSUME Formed, Handled, Connect
  PROVE  Formed' /\ Handled'
<1>. PICK n : n = Len(managers')
  OBVIOUS
<1>1. First.op \in {"add", "reload"} /\ waiting' \in Seq(Commands) /\ run = NoRun
  BY ConnectIs
<1>2. UNCHANGED <<config, tools, owned, stranded, cut>>
  BY ConnectIs
<1>3. First.server \in Servers /\ First.spec \in Specs \cup {NoSpec}
  BY ConnectIs
<1>4. /\ managers' \in Seq(Made) /\ Managers' = Managers \cup {n} /\ n \notin Managers /\ n # Nobody
      /\ managers'[n].server = First.server
      /\ \A m \in Managers : managers'[m] = managers[m]
  BY ConnectIs
<1>6. /\ run' \in Runs /\ run'.pc = "discover" /\ run'.op = First.op /\ run'.server = First.server /\ run'.m = n
      /\ run'.old = owned[First.server] /\ run'.servers = {} /\ run'.clean = TRUE
  BY ConnectIs
<1>7. Formed'
  BY <1>1, <1>2, <1>4, <1>6 DEF Formed
<1>8. Ranged'
  BY <1>2, <1>3, <1>4, <1>6 DEF Handled, Ranged
<1>9. \A t \in Tools : tools'[t] # n /\ (tools'[t] \in Managers' => tools[t] \in Managers /\ tools'[t] = tools[t])
  BY <1>2, <1>4, ManagersAre DEF Handled, Ranged, Booted, Nobody
<1>10. \A s \in Servers : owned'[s] = owned[s] /\ owned[s] # n /\ owned[s] \in Managers \cup {Nobody}
  BY <1>2, <1>4 DEF Handled, Ranged
<1>11. Matched'
  <2>1. \A m \in Managers : Caps(m)' = Caps(m)
    BY <1>4 DEF Caps
  <2>. QED
    BY <1>2, <1>4, <1>9, <1>10, <2>1 DEF Handled, Matched
<1>12. Accounted'
  <2>1. \A m \in Managers : OwnedManager(m) => OwnedManager(m)'
    BY <1>2, <1>4 DEF OwnedManager
  <2>2. run.pc = "idle"
    BY <1>1, NoRunIs
  <2>3. ASSUME NEW t \in Tools, tools'[t] \in Managers' PROVE Mounted(t)'
    BY <1>2, <1>9, <2>1, <2>2, <2>3 DEF Handled, Accounted, Mounted, OwnedManager
  <2>4. ASSUME NEW m \in Managers', managers'[m].up PROVE Connected(m)'
    <3>1. CASE m = n
      BY <1>6, <3>1 DEF Connected, AtWork
    <3>2. CASE m \in Managers
      <4>1. Connected(m)
        BY <1>4, <2>4, <3>2 DEF Handled, Accounted
      <4>. QED
        BY <1>2, <2>1, <2>2, <3>2, <4>1 DEF Connected, Strays, AtWork
    <3>. QED
      BY <1>4, <3>1, <3>2
  <2>. QED
    BY <2>3, <2>4 DEF Accounted
<1>13. Handling'
  BY <1>1, <1>2, <1>3, <1>6 DEF Handling
<1>14. Making'
  BY <1>3, <1>4, <1>6, <1>9, <1>10 DEF Making
<1>15. Closing'
  BY <1>1, <1>6 DEF Closing
<1>. QED
  BY <1>7, <1>8, <1>11, <1>12, <1>13, <1>14, <1>15 DEF Handled

\* Where nothing but the step of the command changes.
LEMMA HandledAlong ==
  ASSUME Formed, Handled, UNCHANGED <<tools, managers, owned, stranded, cut>>,
         run' \in Runs, {run'.m, run'.old} \subseteq Managers \cup {Nobody},
         run.pc # "undo", Handling', Making', Closing',
         run.pc \in AtWork \ {"stopold", "stopowned"} /\ run.m # Nobody =>
           run'.pc \in AtWork \ {"stopold", "stopowned"} /\ run'.m = run.m,
         run.pc # "stopold"
  PROVE  Handled'
<1>1. Ranged'
  BY DEF Handled, Ranged, Managers
<1>2. Matched'
  BY DEF Handled, Matched, Managers, Caps
<1>3. Accounted'
  <2>1. ASSUME NEW t \in Tools, tools'[t] \in Managers' PROVE Mounted(t)'
    BY <2>1 DEF Handled, Accounted, Mounted, OwnedManager, Managers
  <2>2. ASSUME NEW m \in Managers', managers'[m].up PROVE Connected(m)'
    <3>1. m \in Managers /\ managers[m].up /\ m # Nobody
      BY <2>2, ManagersAre DEF Managers
    <3>2. Connected(m)
      BY <3>1 DEF Handled, Accounted
    <3>. QED
      BY <3>1, <3>2 DEF Connected, OwnedManager, Strays
  <2>. QED
    BY <2>1, <2>2 DEF Accounted
<1>. QED
  BY <1>1, <1>2, <1>3 DEF Handled

\* A command at work that goes on closes what it has to.
LEMMA ClosingKept ==
  ASSUME Closing, run.pc \in AtWork, run'.pc \in AtWork, run'.op = run.op, run'.m = run.m,
         run'.server = run.server, run'.servers = run.servers,
         \A s \in run.servers : owned'[s] # Nobody
  PROVE  Closing'
BY DEF Closing, AtWork

\* The answer a command will give.
LEMMA WillSay ==
  ASSUME run \in Runs, NEW g \in Runs, NEW r \in Replies, run' = [g EXCEPT !.say = r],
         g.op = run.op /\ g.server = run.server /\ g.m = run.m /\ g.old = run.old
         /\ g.servers = run.servers /\ g.clean = run.clean
  PROVE  /\ run' \in Runs /\ run'.pc = g.pc /\ run'.op = run.op /\ run'.server = run.server
         /\ run'.m = run.m /\ run'.old = run.old /\ run'.servers = run.servers /\ run'.clean = run.clean
         /\ run'.say = r /\ run'.faults = g.faults
<1>1. run' \in Runs
  BY ONLY g \in Runs, r \in Replies, run' = [g EXCEPT !.say = r] DEF Runs
<1>. QED
  BY <1>1 DEF Runs

\* What a command at work has at hand.
LEMMA AtHand ==
  ASSUME Formed, Handled, run.pc \in AtWork
  PROVE  /\ run \in Runs /\ run.op \in {"add", "reload", "remove", "close"} /\ run.server \in Servers
         /\ {run.m, run.old} \subseteq Managers \cup {Nobody}
         /\ run.m # Nobody => run.m \in Managers
         /\ run.old # Nobody => run.old \in Managers
         /\ run.pc # "stopold" => run.old = owned[run.server]
         /\ run.pc # "stopold" /\ run.old # Nobody => managers[run.old].server = run.server
         /\ Was \in {"yes", "no"}
BY DEF Formed, Handled, Handling, Ranged, Matched, Runs, Was

LEMMA DiscoveredIs ==
  ASSUME Formed, Handled, LiveMCPAssumption, NEW o \in Offers, Discovered(o)
  PROVE  /\ run.pc = "discover" /\ run.pc \in AtWork
         /\ run.m \in Managers /\ run.m # run.old /\ managers[run.m].server = run.server /\ run.clean /\ \A t \in Tools : tools[t] # run.m
         /\ UNCHANGED <<config, tools, owned, stranded, waiting, cut>>
         /\ managers' \in Seq(Made) /\ Managers' = Managers
         /\ \A n \in Managers : /\ managers'[n].server = managers[n].server /\ managers'[n].up = managers[n].up
                                /\ n # run.m => Caps(n)' = Caps(n)
         /\ run' \in Runs /\ run'.op = run.op /\ run'.server = run.server /\ run'.m = run.m /\ run'.old = run.old
         /\ run'.servers = run.servers /\ run'.clean = run.clean
         /\ run'.pc \in {"discard", "mount", "unmount"}
         /\ run'.pc = "mount" => run.old = Nobody
         /\ run'.pc = "unmount" => run.old # Nobody
         /\ run'.pc \in AtWork \ {"stopold", "stopowned", "undo", "remount"}
<1>. PICK m : m = run.m
  OBVIOUS
<1>1. run.pc = "discover" /\ run.pc \in AtWork
  BY DEF Discovered, AtWork
<1>2. m \in Managers /\ m # run.old /\ managers[m].server = run.server /\ run.clean /\ \A t \in Tools : tools[t] # m
  BY <1>1, AtHand DEF Handled, Making
<1>3. UNCHANGED <<config, tools, owned, stranded, waiting, cut>>
  BY DEF Discovered
<1>4. /\ managers' \in Seq(Made) /\ Managers' = Managers
      /\ \A n \in Managers : /\ managers'[n].server = managers[n].server /\ managers'[n].up = managers[n].up
                             /\ n # m => Caps(n)' = Caps(n)
  <2>. PICK x : x = [managers[m] EXCEPT !.caps = o]
    OBVIOUS
  <2>1. x \in Made /\ x.server = managers[m].server /\ x.up = managers[m].up
    BY <1>2, ManagersAre DEF Made, LiveMCPAssumption
  <2>2. managers' = [managers EXCEPT ![m] = x]
    BY DEF Discovered
  <2>3. /\ managers' \in Seq(Made) /\ Managers' = Managers /\ managers'[m] = x
        /\ \A n \in Managers : n # m => managers'[n] = managers[n]
    BY <1>2, <2>1, <2>2, ManagerChanged
  <2>. QED
    BY <2>1, <2>3 DEF Caps
<1>5. /\ run' \in Runs /\ run'.op = run.op /\ run'.server = run.server /\ run'.m = m /\ run'.old = run.old
      /\ run'.servers = run.servers /\ run'.clean = run.clean
      /\ run'.pc \in {"discard", "mount", "unmount"}
      /\ run'.pc = "mount" => run.old = Nobody
      /\ run'.pc = "unmount" => run.old # Nobody
  <2>1. CASE Collides(o) # {}
    <3>. PICK was : was = Was
      OBVIOUS
    <3>1. was \in {"yes", "no", "unknown"} /\ run.op \in {"add", "reload", "remove", "close"} /\ run.server \in Servers
      BY <1>1, AtHand
    <3>. PICK r : r = Said(run, was, FALSE)
      OBVIOUS
    <3>2. r \in Replies
      BY <3>1, SaidIs
    <3>. PICK g : g = Goes("discard")
      OBVIOUS
    <3>3. run' = [g EXCEPT !.say = r]
      BY <2>1 DEF Discovered
    <3>4. /\ g \in Runs /\ g.pc = "discard" /\ g.op = run.op /\ g.server = run.server /\ g.m = run.m
          /\ g.old = run.old /\ g.servers = run.servers /\ g.clean = run.clean
      BY <1>1, RunGoes, AtHand DEF AtWork
    <3>. QED
      BY <1>1, <3>2, <3>3, <3>4, WillSay, AtHand
  <2>2. CASE Collides(o) = {} /\ run.old = Nobody
    BY <1>1, <2>2, RunGoes, AtHand DEF Discovered, AtWork
  <2>3. CASE Collides(o) = {} /\ run.old # Nobody
    BY <1>1, <2>3, RunGoes, AtHand DEF Discovered, AtWork
  <2>. QED
    BY <2>1, <2>2, <2>3
<1>6. run'.pc \in AtWork \ {"stopold", "stopowned", "undo", "remount"}
  BY <1>5 DEF AtWork
<1>. QED
  BY <1>1, <1>2, <1>3, <1>4, <1>5, <1>6

LEMMA HandledDiscovered ==
  ASSUME Formed, Handled, LiveMCPAssumption, NEW o \in Offers, Discovered(o)
  PROVE  Formed' /\ Handled'
<1>. PICK m : m = run.m
  OBVIOUS
<1>1. run.pc = "discover" /\ run.pc \in AtWork
  BY DiscoveredIs
<1>2. m \in Managers /\ m # run.old /\ managers[m].server = run.server /\ run.clean /\ \A t \in Tools : tools[t] # m
  BY DiscoveredIs
<1>3. UNCHANGED <<config, tools, owned, stranded, waiting, cut>>
  BY DiscoveredIs
<1>4. /\ managers' \in Seq(Made) /\ Managers' = Managers
      /\ \A n \in Managers : /\ managers'[n].server = managers[n].server /\ managers'[n].up = managers[n].up
                             /\ n # m => Caps(n)' = Caps(n)
  BY DiscoveredIs
<1>5. /\ run' \in Runs /\ run'.op = run.op /\ run'.server = run.server /\ run'.m = m /\ run'.old = run.old
      /\ run'.servers = run.servers /\ run'.clean = run.clean
      /\ run'.pc \in {"discard", "mount", "unmount"}
      /\ run'.pc = "mount" => run.old = Nobody
      /\ run'.pc = "unmount" => run.old # Nobody
  BY DiscoveredIs
<1>6. run'.pc \in AtWork \ {"stopold", "stopowned", "undo", "remount"}
  BY DiscoveredIs
<1>7. Formed'
  BY <1>3, <1>4, <1>5 DEF Formed
<1>8. Ranged'
  BY <1>3, <1>4, <1>5 DEF Handled, Ranged
<1>9. Matched'
  BY <1>2, <1>3, <1>4, ManagersAre DEF Handled, Matched, Ranged
<1>10. Accounted'
  <2>1. \A n \in Managers : OwnedManager(n)' <=> OwnedManager(n)
    BY <1>3, <1>4 DEF OwnedManager
  <2>2. ASSUME NEW t \in Tools, tools'[t] \in Managers' PROVE Mounted(t)'
    BY <1>1, <1>3, <1>4, <2>1, <2>2 DEF Handled, Accounted, Mounted
  <2>3. ASSUME NEW n \in Managers', managers'[n].up PROVE Connected(n)'
    <3>1. Connected(n)
      BY <1>4, <2>3 DEF Handled, Accounted
    <3>. QED
      BY <1>1, <1>3, <1>4, <1>5, <1>6, <2>1, <2>3, <3>1 DEF Connected, Strays
  <2>. QED
    BY <2>2, <2>3 DEF Accounted
<1>11. Handling'
  BY <1>1, <1>2, <1>3, <1>5, <1>6, AtHand DEF Handled, Handling, Nobody
<1>12. Making'
  BY <1>1, <1>2, <1>3, <1>4, <1>5, <1>6, ManagersAre DEF Handled, Making
<1>13. Closing'
  BY <1>1, <1>3, <1>5, <1>6, ClosingKept DEF Handled, Closing
<1>. QED
  BY <1>7, <1>8, <1>9, <1>10, <1>11, <1>12, <1>13 DEF Handled

\* No tools, and the manager that was made is stopped.
LEMMA HandledUndiscovered ==
  ASSUME Formed, Handled, Undiscovered \/ CancelDiscover
  PROVE  Formed' /\ Handled'
<1>1. run.pc = "discover" /\ run.pc \in AtWork
  BY DEF Undiscovered, CancelDiscover, AtWork
<1>2. UNCHANGED <<config, tools, managers, owned, stranded, waiting, cut>>
  BY DEF Undiscovered, CancelDiscover, live
<1>3. /\ run' \in Runs /\ run'.pc = "discard" /\ run'.op = run.op /\ run'.server = run.server /\ run'.m = run.m
      /\ run'.old = run.old /\ run'.servers = run.servers
  <2>1. CASE Undiscovered
    <3>. PICK was : was = Was
      OBVIOUS
    <3>1. was \in {"yes", "no", "unknown"} /\ run.op \in {"add", "reload", "remove", "close"} /\ run.server \in Servers
      BY <1>1, AtHand
    <3>. PICK r : r = Said(run, was, FALSE)
      OBVIOUS
    <3>2. r \in Replies
      BY <3>1, SaidIs
    <3>. PICK g : g = Fails("discard")
      OBVIOUS
    <3>3. run' = [g EXCEPT !.say = r]
      BY <2>1 DEF Undiscovered
    <3>4. /\ g \in Runs /\ g.pc = "discard" /\ g.op = run.op /\ g.server = run.server /\ g.m = run.m
          /\ g.old = run.old /\ g.servers = run.servers /\ g.clean = run.clean
      BY <1>1, RunFails, AtHand DEF AtWork
    <3>. QED
      BY <1>1, <3>2, <3>3, <3>4, WillSay, AtHand
  <2>2. CASE CancelDiscover
    BY <1>1, <2>2, RunGoes, AtHand DEF CancelDiscover, AtWork
  <2>. QED
    BY <2>1, <2>2
<1>4. Formed'
  BY <1>2, <1>3 DEF Formed
<1>5. Handling' /\ Making'
  BY <1>1, <1>2, <1>3, AtHand DEF Handled, Handling, Making, AtWork
<1>6. Closing'
  BY <1>1, <1>2, <1>3, ClosingKept DEF Handled, Closing, AtWork
<1>7. Handled'
  BY <1>1, <1>2, <1>3, <1>5, <1>6, AtHand, HandledAlong DEF AtWork
<1>. QED
  BY <1>4, <1>7

LEMMA MountFailsIs ==
  ASSUME Formed, Handled, NEW k \in 0 .. Cardinality(Tools), Mount(k), k < Len(Caps(run.m))
  PROVE  /\ run.pc = "mount" /\ run.pc \in AtWork /\ k \in 0 .. Len(Caps(run.m))
         /\ run.m \in Managers /\ run.m # run.old /\ managers[run.m].server = run.server /\ run.clean /\ Caps(run.m) \in Seq(Tools) /\ run.m \in Int
         /\ UNCHANGED <<config, managers, owned, stranded, waiting, cut>>
         /\ Prefix(Caps(run.m), k) \subseteq ToSet(Caps(run.m)) /\ Prefix(Caps(run.m), k) \subseteq Tools /\ SubSeq(Caps(run.m), 1, k) \in Seq(Tools) /\ ToSet(SubSeq(Caps(run.m), 1, k)) = Prefix(Caps(run.m), k)
         /\ tools' \in [Tools -> Int] /\ \A t \in Tools : tools'[t] = IF t \in Prefix(Caps(run.m), k) THEN run.m ELSE tools[t]
         /\ run' \in Runs /\ run'.op = run.op /\ run'.server = run.server /\ run'.m = run.m /\ run'.old = run.old
         /\ run'.servers = run.servers /\ run'.clean = run.clean /\ run'.pc = "undo" /\ run'.names = SubSeq(Caps(run.m), 1, k)
<1>. PICK m : m = run.m
  OBVIOUS
<1>. PICK P : P = Prefix(Caps(m), k)
  OBVIOUS
<1>. PICK n : n = SubSeq(Caps(m), 1, k)
  OBVIOUS
<1>1. run.pc = "mount" /\ run.pc \in AtWork /\ k \in 0 .. Len(Caps(m))
  BY DEF Mount, AtWork
<1>2. m \in Managers /\ m # run.old /\ managers[m].server = run.server /\ run.clean /\ Caps(m) \in Seq(Tools) /\ m \in Int
  BY <1>1, AtHand, ManagersAre DEF Handled, Making
<1>3. UNCHANGED <<config, managers, owned, stranded, waiting, cut>>
  BY DEF Mount
<1>4. P \subseteq ToSet(Caps(m)) /\ P \subseteq Tools /\ n \in Seq(Tools) /\ ToSet(n) = P
  BY <1>1, <1>2, PrefixNames
<1>5. tools' \in [Tools -> Int] /\ \A t \in Tools : tools'[t] = IF t \in P THEN m ELSE tools[t]
  BY <1>2, PutIs DEF Mount, Formed
<1>6. /\ run' \in Runs /\ run'.op = run.op /\ run'.server = run.server /\ run'.m = m /\ run'.old = run.old
      /\ run'.servers = run.servers /\ run'.clean = run.clean /\ run'.pc = "undo" /\ run'.names = n
  <2>. PICK g : g = Fails("undo")
    OBVIOUS
  <2>1. run' = [g EXCEPT !.names = n]
    BY DEF Mount
  <2>2. /\ g \in Runs /\ g.pc = "undo" /\ g.op = run.op /\ g.server = run.server /\ g.m = run.m
        /\ g.old = run.old /\ g.servers = run.servers /\ g.clean = run.clean
    BY <1>1, RunFails, AtHand DEF AtWork
  <2>3. run' \in Runs
    <3>1. n \in Seq(Tools) /\ g \in Runs
      BY <1>4, <2>2
    <3>. QED
      BY ONLY <2>1, <3>1 DEF Runs
  <2>. QED
    BY <2>1, <2>2, <2>3 DEF Runs
<1>. QED
  BY <1>1, <1>2, <1>3, <1>4, <1>5, <1>6

LEMMA MountFails ==
  ASSUME Formed, Handled, NEW k \in 0 .. Cardinality(Tools), Mount(k), k < Len(Caps(run.m))
  PROVE  Formed' /\ Handled'
<1>. PICK m : m = run.m
  OBVIOUS
<1>1. run.pc = "mount" /\ run.pc \in AtWork /\ k \in 0 .. Len(Caps(m))
  BY MountFailsIs
<1>2. m \in Managers /\ m # run.old /\ managers[m].server = run.server /\ run.clean /\ Caps(m) \in Seq(Tools) /\ m \in Int
  BY MountFailsIs
<1>3. UNCHANGED <<config, managers, owned, stranded, waiting, cut>>
  BY MountFailsIs
<1>. PICK P : P = Prefix(Caps(m), k)
  OBVIOUS
<1>. PICK n : n = SubSeq(Caps(m), 1, k)
  OBVIOUS
<1>4. P \subseteq ToSet(Caps(m)) /\ P \subseteq Tools /\ n \in Seq(Tools) /\ ToSet(n) = P
  BY MountFailsIs
<1>5. tools' \in [Tools -> Int] /\ \A t \in Tools : tools'[t] = IF t \in P THEN m ELSE tools[t]
  BY MountFailsIs
<1>6. /\ run' \in Runs /\ run'.op = run.op /\ run'.server = run.server /\ run'.m = m /\ run'.old = run.old
      /\ run'.servers = run.servers /\ run'.clean = run.clean /\ run'.pc = "undo" /\ run'.names = n
  BY MountFailsIs
<1>7. Formed'
  BY <1>3, <1>5, <1>6 DEF Formed
<1>8. Ranged'
  BY <1>2, <1>3, <1>5, <1>6, AtHand, <1>1 DEF Handled, Ranged, Managers
<1>9. Managers' = Managers /\ \A i \in Managers : Caps(i)' = Caps(i) /\ OwnedManager(i)' = OwnedManager(i)
  BY <1>3 DEF Managers, Caps, OwnedManager
<1>10. Matched'
  BY <1>3, <1>4, <1>5, <1>9 DEF Handled, Matched
<1>11. Accounted'
  <2>1. ASSUME NEW t \in Tools, tools'[t] \in Managers' PROVE Mounted(t)'
    <3>1. CASE t \in P
      BY <1>4, <1>5, <1>6, <3>1 DEF Mounted
    <3>2. CASE t \notin P
      BY <1>1, <1>3, <1>5, <1>9, <2>1, <3>2 DEF Handled, Accounted, Mounted
    <3>. QED
      BY <3>1, <3>2
  <2>2. ASSUME NEW i \in Managers', managers'[i].up PROVE Connected(i)'
    <3>1. Connected(i)
      BY <1>3, <1>9, <2>2 DEF Handled, Accounted
    <3>. QED
      BY <1>1, <1>3, <1>6, <1>9, <2>2, <3>1 DEF Connected, Strays, AtWork
  <2>. QED
    BY <2>1, <2>2 DEF Accounted
<1>12. Handling'
  BY <1>1, <1>3, <1>6, AtHand DEF AtWork, Handling
<1>13. Making'
  BY <1>2, <1>3, <1>4, <1>6, <1>9, ManagersAre DEF Making
<1>14. Closing'
  BY <1>1, <1>3, <1>6, ClosingKept DEF AtWork, Handled, Closing
<1>. QED
  BY <1>7, <1>8, <1>10, <1>11, <1>12, <1>13, <1>14 DEF Handled

LEMMA MountEndsIs ==
  ASSUME Formed, Handled, NEW k \in 0 .. Cardinality(Tools), Mount(k), ~(k < Len(Caps(run.m)))
  PROVE  /\ run.pc = "mount" /\ run.pc \in AtWork /\ k \in 0 .. Len(Caps(run.m))
         /\ run.m \in Managers /\ run.m # run.old /\ managers[run.m].server = run.server /\ run.clean
         /\ Caps(run.m) \in Seq(Tools) /\ run.m \in Nat /\ run.m # Nobody
         /\ UNCHANGED <<config, managers, stranded, waiting, cut>> /\ owned' = [owned EXCEPT ![run.server] = run.m]
         /\ Prefix(Caps(run.m), k) \subseteq ToSet(Caps(run.m)) /\ Prefix(Caps(run.m), k) \subseteq Tools
         /\ tools' \in [Tools -> Int] /\ \A t \in Tools : tools'[t] = IF t \in Prefix(Caps(run.m), k) THEN run.m ELSE tools[t]
         /\ run.server \in Servers /\ run.old = owned[run.server] /\ owned' \in [Servers -> Nat]
         /\ \A s \in Servers : owned'[s] = IF s = run.server THEN run.m ELSE owned[s]
<1>. PICK m : m = run.m
  OBVIOUS
<1>. PICK P : P = Prefix(Caps(m), k)
  OBVIOUS
<1>1. run.pc = "mount" /\ run.pc \in AtWork /\ k \in 0 .. Len(Caps(m))
  BY DEF Mount, AtWork
<1>2. /\ m \in Managers /\ m # run.old /\ managers[m].server = run.server /\ run.clean
      /\ Caps(m) \in Seq(Tools) /\ m \in Nat /\ m # Nobody
  BY <1>1, AtHand, ManagersAre DEF Handled, Making
<1>3. UNCHANGED <<config, managers, stranded, waiting, cut>> /\ owned' = [owned EXCEPT ![run.server] = m]
  BY DEF Mount
<1>4. P \subseteq ToSet(Caps(m)) /\ P \subseteq Tools
  BY <1>1, <1>2, PrefixNames
<1>5. tools' \in [Tools -> Int] /\ \A t \in Tools : tools'[t] = IF t \in P THEN m ELSE tools[t]
  BY <1>2, PutIs DEF Mount, Formed
<1>6. /\ run.server \in Servers /\ run.old = owned[run.server] /\ owned' \in [Servers -> Nat]
      /\ \A s \in Servers : owned'[s] = IF s = run.server THEN m ELSE owned[s]
  BY <1>1, <1>2, <1>3, AtHand DEF Formed
<1>. QED
  BY <1>1, <1>2, <1>3, <1>4, <1>5, <1>6

LEMMA MountEnds ==
  ASSUME Formed, Handled, NEW k \in 0 .. Cardinality(Tools), Mount(k), ~(k < Len(Caps(run.m)))
  PROVE  Formed' /\ Handled'
<1>. PICK m : m = run.m
  OBVIOUS
<1>1. run.pc = "mount" /\ run.pc \in AtWork /\ k \in 0 .. Len(Caps(m))
  BY MountEndsIs
<1>2. /\ m \in Managers /\ m # run.old /\ managers[m].server = run.server /\ run.clean
      /\ Caps(m) \in Seq(Tools) /\ m \in Nat /\ m # Nobody
  BY MountEndsIs
<1>3. UNCHANGED <<config, managers, stranded, waiting, cut>> /\ owned' = [owned EXCEPT ![run.server] = m]
  BY MountEndsIs
<1>. PICK P : P = Prefix(Caps(m), k)
  OBVIOUS
<1>4. P \subseteq ToSet(Caps(m)) /\ P \subseteq Tools
  BY MountEndsIs
<1>5. tools' \in [Tools -> Int] /\ \A t \in Tools : tools'[t] = IF t \in P THEN m ELSE tools[t]
  BY MountEndsIs
<1>6. /\ run.server \in Servers /\ run.old = owned[run.server] /\ owned' \in [Servers -> Nat]
      /\ \A s \in Servers : owned'[s] = IF s = run.server THEN m ELSE owned[s]
  BY MountEndsIs
<1>7. Managers' = Managers /\ \A i \in Managers : Caps(i)' = Caps(i)
  BY <1>3 DEF Managers, Caps
<1>8. OwnedManager(m)' /\ \A i \in Managers : OwnedManager(i) => OwnedManager(i)' \/ i = run.old
  BY <1>2, <1>3, <1>6, ManagersAre DEF OwnedManager
<1>9. \A t \in Tools : tools[t] \in Managers => tools[t] # run.old
  BY <1>1, <1>2, ManagersAre DEF Handled, Handling
<1>10. Matched'
  BY <1>2, <1>3, <1>4, <1>5, <1>6, <1>7 DEF Handled, Matched
<1>11. \A t \in Tools : tools'[t] \in Managers' => Mounted(t)'
  <2>1. ASSUME NEW t \in Tools, tools'[t] \in Managers' PROVE Mounted(t)'
    <3>1. CASE t \in P
      BY <1>5, <1>8, <3>1 DEF Mounted
    <3>2. CASE t \notin P
      BY <1>1, <1>3, <1>5, <1>7, <1>8, <1>9, <2>1, <3>2 DEF Handled, Accounted, Mounted
    <3>. QED
      BY <3>1, <3>2
  <2>. QED
    BY <2>1
<1>12. \A s \in run.servers : owned'[s] # Nobody /\ s \in Servers /\ run.op = "close"
  BY <1>2, <1>6 DEF Formed, Runs, Handled, Closing
<1>13. CASE run.old = Nobody
  <2>1. Answer(Said(run, "yes", TRUE))
    BY <1>1, <1>13 DEF Mount
  <2>2. /\ run' \in Runs /\ run'.m = Nobody /\ run'.old = Nobody /\ run'.pc \in {"idle", "close"}
        /\ run'.pc = "close" => run'.op = "close"
        /\ \A s \in run'.servers : s \in run.servers /\ run'.op = "close"
    <3>. PICK r : r = Said(run, "yes", TRUE)
      OBVIOUS
    <3>1. Answer(r)
      BY <2>1
    <3>. QED
      BY <1>1, <1>13, <3>1, AnswerIs, AtHand DEF Handled
  <2>3. Formed'
    BY <1>3, <1>5, <1>6, <2>2 DEF Formed
  <2>4. Ranged'
    BY <1>2, <1>3, <1>5, <1>6, <1>7, <2>2 DEF Handled, Ranged
  <2>5. Accounted'
    <3>2. ASSUME NEW i \in Managers', managers'[i].up PROVE Connected(i)'
      <4>1. Connected(i)
        BY <1>3, <1>7, <3>2 DEF Handled, Accounted
      <4>2. i # Nobody /\ i \in Managers
        BY <1>7, <3>2, ManagersAre
      <4>. QED
        BY <1>1, <1>3, <1>8, <1>13, <4>1, <4>2 DEF Connected, Strays
    <3>. QED
      BY <1>11, <3>2 DEF Accounted
  <2>6. Handled'
    BY <1>10, <1>12, <2>2, <2>4, <2>5, EndsWell DEF Resting
  <2>. QED
    BY <2>3, <2>6
<1>14. CASE run.old # Nobody
  <2>1. /\ run' \in Runs /\ run'.op = run.op /\ run'.server = run.server /\ run'.m = m /\ run'.old = run.old
        /\ run'.servers = run.servers /\ run'.clean = run.clean /\ run'.pc = "stopold"
    BY <1>1, <1>14, RunGoes, AtHand DEF Mount, AtWork
  <2>2. Formed'
    BY <1>3, <1>5, <1>6, <2>1 DEF Formed
  <2>3. Ranged'
    BY <1>1, <1>2, <1>3, <1>5, <1>6, <1>7, <2>1, AtHand DEF Handled, Ranged
  <2>4. Accounted'
    <3>2. ASSUME NEW i \in Managers', managers'[i].up PROVE Connected(i)'
      <4>1. Connected(i) /\ i \in Managers
        BY <1>3, <1>7, <3>2 DEF Handled, Accounted
      <4>. QED
        BY <1>1, <1>3, <1>8, <2>1, <4>1 DEF Connected, Strays
    <3>. QED
      BY <1>11, <3>2 DEF Accounted
  <2>5. Handling'
    BY <1>1, <1>6, <1>14, <2>1, AtHand DEF AtWork, Handling
  <2>6. Making'
    BY <1>2, <1>3, <2>1 DEF Making
  <2>7. Closing'
    BY <1>1, <1>12, <2>1, ClosingKept DEF AtWork, Handled
  <2>. QED
    BY <1>10, <2>2, <2>3, <2>4, <2>5, <2>6, <2>7 DEF Handled
<1>. QED
  BY <1>13, <1>14

LEMMA HandledUndo ==
  ASSUME Formed, Handled, NEW k \in 0 .. Cardinality(Tools), UndoMounts(k)
  PROVE  Formed' /\ Handled'
<1>. PICK m : m = run.m
  OBVIOUS
<1>. PICK n : n = run.names
  OBVIOUS
<1>1. run.pc = "undo" /\ run.pc \in AtWork /\ k \in 0 .. Len(n) /\ run \in Runs
  BY AtHand DEF UndoMounts, AtWork
<1>2. /\ m \in Managers /\ m # run.old /\ managers[m].server = run.server /\ run.clean
      /\ Caps(m) \in Seq(Tools) /\ m \in Nat /\ m # Nobody /\ n \in Seq(Tools) /\ ToSet(n) \subseteq ToSet(Caps(m))
  BY <1>1, AtHand, ManagersAre DEF Handled, Making, Runs
<1>3. UNCHANGED <<config, managers, owned, waiting, cut>>
  BY DEF UndoMounts
<1>. PICK P : P = Prefix(Reverse(n), k)
  OBVIOUS
<1>4. P \subseteq ToSet(n) /\ (k = Len(n) => P = ToSet(n))
  BY <1>1, <1>2, UnmountedNames
<1>5. tools' \in [Tools -> Int] /\ \A t \in Tools : tools'[t] = IF t \in P THEN Nobody ELSE tools[t]
  BY PutIs DEF UndoMounts, Formed, Nobody
<1>6. Managers' = Managers /\ \A i \in Managers : Caps(i)' = Caps(i) /\ OwnedManager(i)' = OwnedManager(i)
  BY <1>3 DEF Managers, Caps, OwnedManager
<1>7. Matched'
  BY <1>3, <1>5, <1>6, ManagersAre DEF Handled, Matched
<1>. PICK clean \in BOOLEAN : clean <=> k = Len(n)
  OBVIOUS
<1>8. /\ stranded' \subseteq Kept /\ stranded \subseteq stranded' /\ \A x \in stranded' : x.m \in Managers
      /\ clean => UNCHANGED stranded
      /\ ~clean => \E x \in stranded' : x.m = m /\ x.names = Caps(m)
  <2>1. CASE clean
    BY <1>1, <2>1 DEF UndoMounts, Formed, Handled, Ranged
  <2>2. CASE ~clean
    <3>1. Strand(m, Caps(m))
      BY <1>1, <2>2 DEF UndoMounts
    <3>. QED
      BY <1>2, <2>2, <3>1, StrandIs DEF Handled, Ranged
  <2>. QED
    BY <2>1, <2>2
<1>9. \A t \in Tools : tools'[t] \in Managers' => Mounted(t)'
  <2>1. ASSUME NEW t \in Tools, tools'[t] \in Managers' PROVE Mounted(t)'
    <3>1. tools'[t] = tools[t] /\ t \notin P /\ tools[t] \in Managers
      BY <1>5, <1>6, <2>1, ManagersAre
    <3>2. Mounted(t)
      BY <3>1 DEF Handled, Accounted
    <3>3. CASE OwnedManager(tools[t])
      BY <1>6, <3>1, <3>3 DEF Mounted
    <3>4. CASE \E x \in stranded : x.m = tools[t] /\ t \in ToSet(x.names)
      BY <1>8, <3>1, <3>4 DEF Mounted
    <3>5. CASE tools[t] = m /\ t \in ToSet(n)
      <4>1. ~clean
        BY <1>4, <3>1, <3>5
      <4>. QED
        BY <1>2, <1>8, <3>1, <3>5, <4>1 DEF Mounted
    <3>. QED
      BY <3>2, <3>3, <3>4, <3>5 DEF Mounted
  <2>. QED
    BY <2>1
<1>10. \A i \in Managers' : managers'[i].up => i \in Managers /\ (i = m \/ OwnedManager(i)' \/ i \in (Strays \cup cut)')
  <2>1. ASSUME NEW i \in Managers', managers'[i].up PROVE i \in Managers /\ (i = m \/ OwnedManager(i)' \/ i \in (Strays \cup cut)')
    <3>1. Connected(i) /\ i \in Managers
      BY <1>3, <1>6, <2>1 DEF Handled, Accounted
    <3>. QED
      BY <1>1, <1>3, <1>6, <1>8, <3>1 DEF Connected, Strays
  <2>. QED
    BY <2>1
<1>11. ~clean => m \in Strays'
  BY <1>8 DEF Strays
<1>. PICK after : after = IF clean THEN run ELSE [run EXCEPT !.clean = FALSE, !.faults = run.faults + 1]
  OBVIOUS
<1>12. /\ after \in Runs /\ after.op = run.op /\ after.server = run.server /\ after.m = m /\ after.old = run.old
       /\ after.servers = run.servers /\ (clean => after.clean = run.clean) /\ (~clean => after.clean = FALSE)
  <2>1. CASE clean
    BY <1>1, <2>1
  <2>2. CASE ~clean
    <3>. PICK f \in Nat : f = run.faults + 1
      BY <1>1 DEF Runs
    <3>1. after = [run EXCEPT !.clean = FALSE, !.faults = f] /\ FALSE \in BOOLEAN
      BY <2>2
    <3>2. after \in Runs
      BY ONLY <1>1, <3>1, f \in Nat DEF Runs
    <3>. QED
      BY <1>1, <2>2, <3>1, <3>2 DEF Runs
  <2>. QED
    BY <2>1, <2>2
<1>13. \A s \in run.servers : owned'[s] # Nobody /\ run.op = "close"
  BY <1>3 DEF Handled, Closing
<1>14. CASE run.old # Nobody
  <2>. PICK M : M = {t \in ToSet(Caps(run.old)) : tools'[t] = Nobody}
    OBVIOUS
  <2>1. run' = [after EXCEPT !.pc = "remount", !.missing = M]
    BY <1>1, <1>14 DEF UndoMounts
  <2>2. M \subseteq Tools /\ M \subseteq ToSet(Caps(run.old))
    <3>1. run.old \in Managers
      BY <1>1, <1>14, AtHand
    <3>2. Caps(run.old) \in Seq(Tools)
      BY <3>1, ManagersAre
    <3>3. 0 \in 0 .. Len(Caps(run.old))
      BY <3>2, LenProperties
    <3>. QED
      BY <3>2, <3>3, PrefixNames
  <2>3. /\ run' \in Runs /\ run'.pc = "remount" /\ run'.op = run.op /\ run'.server = run.server /\ run'.m = m
        /\ run'.old = run.old /\ run'.servers = run.servers /\ run'.missing = M /\ run'.clean = after.clean
    BY <1>12, <2>1, <2>2 DEF Runs, AtWork
  <2>4. Formed'
    BY <1>3, <1>5, <1>8, <2>3 DEF Formed
  <2>5. Ranged'
    BY <1>1, <1>2, <1>3, <1>5, <1>6, <1>8, <2>3, AtHand DEF Handled, Ranged
  <2>6. Accounted'
    BY <1>9, <1>10, <2>3 DEF Accounted, Connected, AtWork
  <2>7. Handling'
    BY <1>1, <1>3, <1>14, <2>3, AtHand DEF AtWork, Handling
  <2>8. Making'
    <3>1. run.old \in Managers
      BY <1>1, <1>14, AtHand
    <3>. QED
      BY <1>2, <1>3, <1>6, <1>11, <1>12, <2>2, <2>3, <3>1 DEF Making
  <2>9. Closing'
    BY <1>1, <1>13, <2>3, ClosingKept DEF AtWork, Handled
  <2>. QED
    BY <1>7, <2>4, <2>5, <2>6, <2>7, <2>8, <2>9 DEF Handled
<1>15. CASE run.old = Nobody /\ clean
  <2>. PICK r : r = Said(run, "no", FALSE)
    OBVIOUS
  <2>1. run' = [after EXCEPT !.pc = "discard", !.say = r]
    BY <1>1, <1>15 DEF UndoMounts
  <2>2. r \in Replies
    BY <1>1, AtHand, SaidIs
  <2>3. /\ run' \in Runs /\ run'.pc = "discard" /\ run'.op = run.op /\ run'.server = run.server /\ run'.m = m
        /\ run'.old = run.old /\ run'.servers = run.servers
    <3>1. after \in Runs /\ "discard" \in Resting \cup AtWork
      BY <1>12 DEF AtWork
    <3>2. run' \in Runs
      BY ONLY <2>1, <2>2, <3>1 DEF Runs
    <3>. QED
      BY <1>12, <2>1, <3>1, <3>2 DEF Runs
  <2>4. Formed'
    BY <1>3, <1>5, <1>8, <2>3 DEF Formed
  <2>5. Ranged'
    BY <1>1, <1>2, <1>3, <1>5, <1>6, <1>8, <2>3, AtHand DEF Handled, Ranged
  <2>6. Accounted'
    BY <1>9, <1>10, <2>3 DEF Accounted, Connected, AtWork
  <2>7. Handling'
    BY <1>1, <1>3, <2>3, AtHand DEF AtWork, Handling
  <2>8. Making'
    BY <1>2, <1>3, <2>3 DEF Making
  <2>9. Closing'
    BY <1>1, <1>13, <2>3, ClosingKept DEF AtWork, Handled
  <2>. QED
    BY <1>7, <2>4, <2>5, <2>6, <2>7, <2>8, <2>9 DEF Handled
<1>16. CASE run.old = Nobody /\ ~clean
  <2>1. /\ run' \in Runs /\ run'.m = Nobody /\ run'.old = Nobody /\ run'.pc \in {"idle", "close"}
        /\ run'.pc = "close" => run'.op = "close"
        /\ \A s \in run'.servers : s \in run.servers /\ run'.op = "close"
    <3>. PICK r : r = Said(run, "unknown", FALSE)
      OBVIOUS
    <3>1. Answer(r)
      BY <1>1, <1>16 DEF UndoMounts
    <3>. QED
      BY <1>1, <1>16, <3>1, AnswerIs DEF Handled
  <2>2. Formed'
    BY <1>3, <1>5, <1>8, <2>1 DEF Formed
  <2>3. Ranged'
    BY <1>3, <1>5, <1>6, <1>8, <2>1 DEF Handled, Ranged
  <2>4. Accounted'
    BY <1>9, <1>10, <1>11, <1>16 DEF Accounted, Connected
  <2>5. Handled'
    BY <1>7, <1>13, <2>1, <2>3, <2>4, EndsWell DEF Resting
  <2>. QED
    BY <2>2, <2>5
<1>. QED
  BY <1>14, <1>15, <1>16

LEMMA UnmountIs ==
  ASSUME Formed, Handled, NEW k \in 0 .. Cardinality(Tools), Unmount(k)
  PROVE  /\ run.pc = "unmount" /\ run.pc \in AtWork /\ k \in 0 .. Len(Caps(run.old)) /\ run \in Runs
         /\ run.old \in Managers /\ run.old # Nobody /\ Caps(run.old) \in Seq(Tools)
         /\ run.m # Nobody => run.m \in Managers /\ run.m # run.old /\ managers[run.m].server = run.server /\ run.clean /\ \A t \in Tools : tools[t] # run.m
         /\ UNCHANGED <<config, managers, owned, stranded, waiting, cut>>
         /\ Prefix(Reverse(Caps(run.old)), k) \subseteq ToSet(Caps(run.old)) /\ Prefix(Reverse(Caps(run.old)), k) \subseteq Tools /\ (k = Len(Reverse(Caps(run.old))) => Prefix(Reverse(Caps(run.old)), k) = ToSet(Caps(run.old)))
         /\ tools' \in [Tools -> Int] /\ \A t \in Tools : tools'[t] = IF t \in Prefix(Reverse(Caps(run.old)), k) THEN Nobody ELSE tools[t]
         /\ run' \in Runs /\ run'.op = run.op /\ run'.server = run.server /\ run'.m = run.m /\ run'.old = run.old
         /\ run'.servers = run.servers /\ run'.clean = run.clean
         /\ \/ run'.pc = "stopowned" /\ run.m = Nobody /\ Prefix(Reverse(Caps(run.old)), k) = ToSet(Caps(run.old))
            \/ run'.pc = "mount" /\ run.m # Nobody /\ Prefix(Reverse(Caps(run.old)), k) = ToSet(Caps(run.old))
            \/ run'.pc = "remount" /\ run'.missing = Prefix(Reverse(Caps(run.old)), k)
<1>. PICK m : m = run.m
  OBVIOUS
<1>. PICK old : old = run.old
  OBVIOUS
<1>. PICK P : P = Prefix(Reverse(Caps(old)), k)
  OBVIOUS
<1>1. run.pc = "unmount" /\ run.pc \in AtWork /\ k \in 0 .. Len(Caps(old)) /\ run \in Runs
  BY AtHand DEF Unmount, AtWork
<1>2. /\ old \in Managers /\ old # Nobody /\ Caps(old) \in Seq(Tools)
      /\ m # Nobody => m \in Managers /\ m # old /\ managers[m].server = run.server /\ run.clean /\ \A t \in Tools : tools[t] # m
  BY <1>1, AtHand, ManagersAre DEF Handled, Handling, Making
<1>3. UNCHANGED <<config, managers, owned, stranded, waiting, cut>>
  BY DEF Unmount
<1>4. P \subseteq ToSet(Caps(old)) /\ P \subseteq Tools /\ (k = Len(Reverse(Caps(old))) => P = ToSet(Caps(old)))
  BY <1>1, <1>2, UnmountedNames
<1>5. tools' \in [Tools -> Int] /\ \A t \in Tools : tools'[t] = IF t \in P THEN Nobody ELSE tools[t]
  BY PutIs DEF Unmount, Formed, Nobody
<1>6. Managers' = Managers /\ \A i \in Managers : Caps(i)' = Caps(i) /\ OwnedManager(i)' = OwnedManager(i)
  BY <1>3 DEF Managers, Caps, OwnedManager
<1>7. /\ run' \in Runs /\ run'.op = run.op /\ run'.server = run.server /\ run'.m = m /\ run'.old = old
      /\ run'.servers = run.servers /\ run'.clean = run.clean
      /\ \/ run'.pc = "stopowned" /\ m = Nobody /\ P = ToSet(Caps(old))
         \/ run'.pc = "mount" /\ m # Nobody /\ P = ToSet(Caps(old))
         \/ run'.pc = "remount" /\ run'.missing = P
  <2>1. CASE k = Len(Reverse(Caps(old))) /\ m = Nobody
    <3>1. run' = Goes("stopowned")
      BY <2>1 DEF Unmount
    <3>. QED
      BY <1>1, <1>4, <2>1, <3>1, RunGoes DEF AtWork
  <2>2. CASE k = Len(Reverse(Caps(old))) /\ m # Nobody
    <3>1. run' = Goes("mount")
      BY <2>2 DEF Unmount
    <3>. QED
      BY <1>1, <1>4, <2>2, <3>1, RunGoes DEF AtWork
  <2>3. CASE k # Len(Reverse(Caps(old)))
    <3>. PICK g : g = Fails("remount")
      OBVIOUS
    <3>1. run' = [g EXCEPT !.missing = P]
      BY <2>3 DEF Unmount
    <3>2. /\ g \in Runs /\ g.pc = "remount" /\ g.op = run.op /\ g.server = run.server /\ g.m = run.m
          /\ g.old = run.old /\ g.servers = run.servers /\ g.clean = run.clean
      BY <1>1, RunFails DEF AtWork
    <3>3. g \in Runs /\ P \in SUBSET Tools
      BY <1>4, <3>2
    <3>4. run' \in Runs
      BY ONLY <3>1, <3>3 DEF Runs
    <3>. QED
      BY <3>1, <3>2, <3>4 DEF Runs
  <2>. QED
    BY <2>1, <2>2, <2>3
<1>. QED
  BY <1>1, <1>2, <1>3, <1>4, <1>5, <1>7

LEMMA HandledUnmount ==
  ASSUME Formed, Handled, NEW k \in 0 .. Cardinality(Tools), Unmount(k)
  PROVE  Formed' /\ Handled'
<1>. PICK m : m = run.m
  OBVIOUS
<1>. PICK old : old = run.old
  OBVIOUS
<1>1. run.pc = "unmount" /\ run.pc \in AtWork /\ k \in 0 .. Len(Caps(old)) /\ run \in Runs
  BY UnmountIs
<1>2. /\ old \in Managers /\ old # Nobody /\ Caps(old) \in Seq(Tools)
      /\ m # Nobody => m \in Managers /\ m # old /\ managers[m].server = run.server /\ run.clean /\ \A t \in Tools : tools[t] # m
  BY UnmountIs
<1>3. UNCHANGED <<config, managers, owned, stranded, waiting, cut>>
  BY UnmountIs
<1>. PICK P : P = Prefix(Reverse(Caps(old)), k)
  OBVIOUS
<1>4. P \subseteq ToSet(Caps(old)) /\ P \subseteq Tools /\ (k = Len(Reverse(Caps(old))) => P = ToSet(Caps(old)))
  BY UnmountIs
<1>5. tools' \in [Tools -> Int] /\ \A t \in Tools : tools'[t] = IF t \in P THEN Nobody ELSE tools[t]
  BY UnmountIs
<1>6. Managers' = Managers /\ \A i \in Managers : Caps(i)' = Caps(i) /\ OwnedManager(i)' = OwnedManager(i)
  BY <1>3 DEF Managers, Caps, OwnedManager
<1>7. /\ run' \in Runs /\ run'.op = run.op /\ run'.server = run.server /\ run'.m = m /\ run'.old = old
      /\ run'.servers = run.servers /\ run'.clean = run.clean
      /\ \/ run'.pc = "stopowned" /\ m = Nobody /\ P = ToSet(Caps(old))
         \/ run'.pc = "mount" /\ m # Nobody /\ P = ToSet(Caps(old))
         \/ run'.pc = "remount" /\ run'.missing = P
  BY UnmountIs
<1>8. Formed'
  BY <1>3, <1>5, <1>7 DEF Formed
<1>9. Ranged'
  BY <1>2, <1>3, <1>5, <1>6, <1>7 DEF Handled, Ranged
<1>10. Matched'
  BY <1>3, <1>5, <1>6, ManagersAre DEF Handled, Matched
<1>11. Accounted'
  <2>1. ASSUME NEW t \in Tools, tools'[t] \in Managers' PROVE Mounted(t)'
    BY <1>1, <1>3, <1>5, <1>6, <2>1, ManagersAre DEF Handled, Accounted, Mounted
  <2>2. ASSUME NEW i \in Managers', managers'[i].up PROVE Connected(i)'
    <3>1. Connected(i) /\ i \in Managers /\ i # Nobody
      BY <1>3, <1>6, <2>2, ManagersAre DEF Handled, Accounted
    <3>. QED
      BY <1>1, <1>3, <1>6, <1>7, <3>1 DEF Connected, Strays, AtWork
  <2>. QED
    BY <2>1, <2>2 DEF Accounted
<1>12. Handling'
  <2>1. P = ToSet(Caps(old)) => \A t \in Tools : tools'[t] # old
    BY <1>2, <1>5 DEF Handled, Matched
  <2>. QED
    BY <1>1, <1>2, <1>3, <1>7, <2>1, AtHand DEF AtWork, Handling
<1>13. Making'
  <2>1. m # Nobody => \A t \in Tools : tools'[t] # m
    BY <1>2, <1>5
  <2>. QED
    BY <1>2, <1>3, <1>4, <1>6, <1>7, <2>1 DEF Making
<1>14. Closing'
  BY <1>1, <1>3, <1>7, ClosingKept DEF AtWork, Handled, Closing
<1>. QED
  BY <1>8, <1>9, <1>10, <1>11, <1>12, <1>13, <1>14 DEF Handled

LEMMA NamesFinite ==
  ASSUME NEW s \in Seq(Tools), NEW L \in SUBSET ToSet(s)
  PROVE  IsFiniteSet(L) /\ Cardinality(L) \in Nat /\ (Cardinality(L) = 0 <=> L = {})
<1>1. Len(s) \in Nat /\ DOMAIN s = 1 .. Len(s)
  BY LenProperties
<1>2. s \in Surjection(1 .. Len(s), ToSet(s))
  BY <1>1 DEF ToSet, Surjection
<1>3. IsFiniteSet(1 .. Len(s))
  BY <1>1, FS_Interval
<1>4. IsFiniteSet(ToSet(s))
  BY <1>2, <1>3, FS_Surjection
<1>5. IsFiniteSet(L)
  BY <1>4, FS_Subset
<1>. QED
  BY <1>5, FS_CardinalityType, FS_EmptySet

LEMMA RemountIs ==
  ASSUME Formed, Handled, NEW lost \in SUBSET Tools, Remount(lost)
  PROVE  /\ run.pc = "remount" /\ run.pc \in AtWork /\ lost \subseteq run.missing /\ run \in Runs
         /\ run.old \in Managers /\ run.old # Nobody /\ run.old \in Int /\ Caps(run.old) \in Seq(Tools)
         /\ run.missing \subseteq ToSet(Caps(run.old)) /\ OwnedManager(run.old)
         /\ run.m # Nobody => run.m \in Managers /\ run.m # run.old /\ managers[run.m].server = run.server
         /\ Cardinality(lost) \in Nat
         /\ UNCHANGED <<config, managers, owned, stranded, waiting, cut>>
         /\ run.missing \ lost \subseteq ToSet(Caps(run.old))
         /\ tools' \in [Tools -> Int] /\ \A t \in Tools : tools'[t] = IF t \in run.missing \ lost THEN run.old ELSE tools[t]
<1>. PICK m : m = run.m
  OBVIOUS
<1>. PICK old : old = run.old
  OBVIOUS
<1>. PICK n : n = Cardinality(lost)
  OBVIOUS
<1>. PICK P : P = run.missing \ lost
  OBVIOUS
<1>1. run.pc = "remount" /\ run.pc \in AtWork /\ lost \subseteq run.missing /\ run \in Runs
  BY AtHand DEF Remount, AtWork
<1>2. /\ old \in Managers /\ old # Nobody /\ old \in Int /\ Caps(old) \in Seq(Tools)
      /\ run.missing \subseteq ToSet(Caps(old)) /\ OwnedManager(old)
      /\ m # Nobody => m \in Managers /\ m # old /\ managers[m].server = run.server
  BY <1>1, AtHand, ManagersAre DEF Handled, Handling, Making, OwnedManager
<1>3. n \in Nat
  BY <1>1, <1>2, NamesFinite
<1>4. UNCHANGED <<config, managers, owned, stranded, waiting, cut>>
  BY DEF Remount
<1>5. P \subseteq ToSet(Caps(old))
  BY <1>2
<1>6. tools' \in [Tools -> Int] /\ \A t \in Tools : tools'[t] = IF t \in P THEN old ELSE tools[t]
  BY <1>2, PutIs DEF Remount, Formed
<1>. QED
  BY <1>1, <1>2, <1>3, <1>4, <1>5, <1>6

LEMMA HandledRemount ==
  ASSUME Formed, Handled, NEW lost \in SUBSET Tools, Remount(lost)
  PROVE  Formed' /\ Handled'
<1>. PICK m : m = run.m
  OBVIOUS
<1>. PICK old : old = run.old
  OBVIOUS
<1>1. run.pc = "remount" /\ run.pc \in AtWork /\ lost \subseteq run.missing /\ run \in Runs
  BY RemountIs
<1>2. /\ old \in Managers /\ old # Nobody /\ old \in Int /\ Caps(old) \in Seq(Tools)
      /\ run.missing \subseteq ToSet(Caps(old)) /\ OwnedManager(old)
      /\ m # Nobody => m \in Managers /\ m # old /\ managers[m].server = run.server
  BY RemountIs
<1>. PICK n : n = Cardinality(lost)
  OBVIOUS
<1>3. n \in Nat
  BY RemountIs
<1>4. UNCHANGED <<config, managers, owned, stranded, waiting, cut>>
  BY RemountIs
<1>. PICK P : P = run.missing \ lost
  OBVIOUS
<1>5. P \subseteq ToSet(Caps(old))
  BY RemountIs
<1>6. tools' \in [Tools -> Int] /\ \A t \in Tools : tools'[t] = IF t \in P THEN old ELSE tools[t]
  BY RemountIs
<1>7. Managers' = Managers /\ \A i \in Managers : Caps(i)' = Caps(i) /\ OwnedManager(i)' = OwnedManager(i)
  BY <1>4 DEF Managers, Caps, OwnedManager
<1>8. Matched'
  BY <1>4, <1>5, <1>6, <1>7 DEF Handled, Matched
<1>9. \A t \in Tools : tools'[t] \in Managers' => Mounted(t)'
  BY <1>1, <1>2, <1>4, <1>6, <1>7 DEF Handled, Accounted, Mounted
<1>10. \A i \in Managers' : managers'[i].up => i # Nobody /\ (i = m \/ OwnedManager(i)' \/ i \in (Strays \cup cut)')
  <2>1. ASSUME NEW i \in Managers', managers'[i].up PROVE i # Nobody /\ (i = m \/ OwnedManager(i)' \/ i \in (Strays \cup cut)')
    <3>1. Connected(i) /\ i \in Managers /\ i # Nobody
      BY <1>4, <1>7, <2>1, ManagersAre DEF Handled, Accounted
    <3>. QED
      BY <1>1, <1>4, <1>7, <3>1 DEF Connected, Strays
  <2>. QED
    BY <2>1
<1>11. m # Nobody /\ ~run.clean => m \in Strays'
  BY <1>1, <1>4 DEF Handled, Making, Strays
<1>12. \A s \in run.servers : owned'[s] # Nobody /\ run.op = "close"
  BY <1>4 DEF Handled, Closing
<1>. PICK connected : connected = IF lost = {} /\ run.clean THEN "yes" ELSE "unknown"
  OBVIOUS
<1>. PICK r : r = Said(run, connected, FALSE)
  OBVIOUS
<1>13. r \in Replies
  BY <1>1, AtHand, SaidIs
<1>14. CASE m # Nobody /\ run.clean
  <2>. PICK g : g = Goes("discard")
    OBVIOUS
  <2>1. run' = [g EXCEPT !.say = r, !.faults = g.faults + n]
    BY <1>14 DEF Remount
  <2>2. /\ g \in Runs /\ g.pc = "discard" /\ g.op = run.op /\ g.server = run.server /\ g.m = run.m
        /\ g.old = run.old /\ g.servers = run.servers
    BY <1>1, RunGoes DEF AtWork
  <2>. PICK f \in Nat : f = g.faults + n
    BY <1>3, <2>2 DEF Runs
  <2>3. run' = [g EXCEPT !.say = r, !.faults = f]
    BY <2>1
  <2>4. run' \in Runs
    <3>1. g \in Runs
      BY <2>2
    <3>. QED
      BY ONLY <1>13, <2>3, <3>1, f \in Nat DEF Runs
  <2>5. /\ run'.pc = "discard" /\ run'.op = run.op /\ run'.server = run.server /\ run'.m = run.m
        /\ run'.old = run.old /\ run'.servers = run.servers
    BY <2>2, <2>3 DEF Runs
  <2>6. Formed'
    BY <1>4, <1>6, <2>4 DEF Formed
  <2>7. Ranged'
    BY <1>2, <1>4, <1>6, <1>7, <2>5 DEF Handled, Ranged
  <2>8. Accounted'
    BY <1>9, <1>10, <2>5 DEF Accounted, Connected, AtWork
  <2>9. Handling'
    BY <1>1, <1>4, <2>5, AtHand DEF AtWork, Handling
  <2>10. Making'
    BY <1>2, <1>4, <1>14, <2>5 DEF Making
  <2>11. Closing'
    BY <1>1, <1>12, <2>5, ClosingKept DEF AtWork, Handled
  <2>. QED
    BY <1>8, <2>6, <2>7, <2>8, <2>9, <2>10, <2>11 DEF Handled
<1>15. CASE ~(m # Nobody /\ run.clean)
  <2>1. /\ run' \in Runs /\ run'.m = Nobody /\ run'.old \in {old, Nobody} /\ run'.pc \in {"idle", "close"}
        /\ run'.pc = "close" => run'.op = "close"
        /\ \A s \in run'.servers : s \in run.servers /\ run'.op = "close"
    <3>1. CASE run.op = "close"
      <4>. PICK g : g = Goes("close")
        OBVIOUS
      <4>1. run' = [g EXCEPT !.faults = g.faults + n]
        BY <1>15, <3>1 DEF Remount
      <4>2. /\ g \in Runs /\ g.pc = "close" /\ g.op = run.op /\ g.m = run.m
            /\ g.old = run.old /\ g.servers = run.servers
        BY <1>1, RunGoes DEF Resting
      <4>. PICK f \in Nat : f = g.faults + n
        BY <1>3, <4>2 DEF Runs
      <4>3. run' = [g EXCEPT !.faults = f] /\ g \in Runs
        BY <4>1, <4>2
      <4>4. run' \in Runs
        BY ONLY <4>3, f \in Nat DEF Runs
      <4>. QED
        BY <1>12, <3>1, <4>2, <4>3, <4>4 DEF Runs, Handled, Closing
    <3>2. CASE run.op # "close"
      <4>1. Answer(r)
        BY <1>15, <3>2 DEF Remount
      <4>. QED
        BY <1>1, <4>1, AnswerIs DEF Handled
    <3>. QED
      BY <3>1, <3>2
  <2>2. Formed'
    BY <1>4, <1>6, <2>1 DEF Formed
  <2>3. Ranged'
    BY <1>2, <1>4, <1>6, <1>7, <2>1 DEF Handled, Ranged
  <2>4. Accounted'
    BY <1>9, <1>10, <1>11, <1>15 DEF Accounted, Connected
  <2>5. Handled'
    BY <1>8, <1>12, <2>1, <2>3, <2>4, EndsWell DEF Resting
  <2>. QED
    BY <2>2, <2>5
<1>. QED
  BY <1>14, <1>15

\* A manager is stopped, or kept for close().
LEMMA StopIs ==
  ASSUME Formed, Handled, Discard \/ StopOld,
         NEW e, e = IF run.pc = "discard" THEN run.m ELSE run.old
  PROVE  /\ run.pc \in {"discard", "stopold"} /\ run.pc \in AtWork /\ run \in Runs
         /\ e \in Managers /\ e \in Nat
         /\ UNCHANGED <<config, tools, owned, waiting, cut>>
         /\ managers' \in Seq(Made) /\ Managers' = Managers /\ stranded' \subseteq Kept /\ stranded \subseteq stranded'
         /\ \A i \in Managers : managers'[i].server = managers[i].server /\ Caps(i)' = Caps(i)
                                /\ (managers'[i].up => managers[i].up)
         /\ \A x \in stranded' : x.m \in Managers
         /\ managers'[e].up => e \in Strays'
<1>1. run.pc \in {"discard", "stopold"} /\ run.pc \in AtWork /\ run \in Runs
  BY AtHand DEF Discard, StopOld, AtWork
<1>2. e \in Managers /\ e \in Nat
  BY <1>1, AtHand, ManagersAre DEF Handled, Handling, Making
<1>3. UNCHANGED <<config, tools, owned, waiting, cut>>
  BY DEF Discard, StopOld
<1>4. /\ managers' \in Seq(Made) /\ Managers' = Managers /\ stranded' \subseteq Kept /\ stranded \subseteq stranded'
      /\ \A i \in Managers : managers'[i].server = managers[i].server /\ Caps(i)' = Caps(i)
                             /\ (managers'[i].up => managers[i].up)
      /\ \A x \in stranded' : x.m \in Managers
      /\ managers'[e].up => e \in Strays'
  <2>1. CASE Down(e) /\ UNCHANGED stranded
    BY <1>2, <2>1, DownIs DEF Formed, Handled, Ranged
  <2>2. CASE Strand(e, << >>) /\ UNCHANGED managers
    <3>. PICK none \in Seq(Tools) : none = << >>
      BY EmptySeq
    <3>1. Strand(e, none)
      BY <2>2
    <3>2. /\ stranded' \subseteq Kept /\ stranded \subseteq stranded'
          /\ \E x \in stranded' : /\ x.m = e /\ x.names = none /\ \A y \in stranded' : y \in stranded \/ y = x
      BY <1>2, <3>1, StrandIs
    <3>. QED
      BY <1>2, <2>2, <3>2 DEF Formed, Handled, Ranged, Managers, Caps, Strays
  <2>. QED
    BY <1>1, <2>1, <2>2 DEF Discard, StopOld
<1>. QED
  BY <1>1, <1>2, <1>3, <1>4

LEMMA HandledStop ==
  ASSUME Formed, Handled, Discard \/ StopOld
  PROVE  Formed' /\ Handled'
<1>1. run.pc \in {"discard", "stopold"} /\ run.pc \in AtWork /\ run \in Runs
  BY StopIs
<1>. PICK e : e = IF run.pc = "discard" THEN run.m ELSE run.old
  OBVIOUS
<1>2. e \in Managers /\ e \in Nat
  BY StopIs
<1>3. UNCHANGED <<config, tools, owned, waiting, cut>>
  BY StopIs
<1>4. /\ managers' \in Seq(Made) /\ Managers' = Managers /\ stranded' \subseteq Kept /\ stranded \subseteq stranded'
      /\ \A i \in Managers : managers'[i].server = managers[i].server /\ Caps(i)' = Caps(i)
                             /\ (managers'[i].up => managers[i].up)
      /\ \A x \in stranded' : x.m \in Managers
      /\ managers'[e].up => e \in Strays'
  BY StopIs
<1>5. \A i \in Managers : OwnedManager(i)' = OwnedManager(i)
  BY <1>3, <1>4 DEF OwnedManager
<1>6. /\ run' \in Runs /\ run'.m = Nobody /\ run'.old \in {run.old, Nobody} /\ run'.pc \in {"idle", "close"}
      /\ run'.pc = "close" => run'.op = "close"
      /\ \A s \in run'.servers : s \in run.servers /\ run'.op = "close"
  <2>. PICK r : r = IF run.pc = "discard" THEN run.say ELSE Said(run, "yes", TRUE)
    OBVIOUS
  <2>1. Answer(r)
    BY <1>1 DEF Discard, StopOld
  <2>. QED
    BY <1>1, <2>1, AnswerIs DEF Handled
<1>7. Formed'
  BY <1>3, <1>4, <1>6 DEF Formed
<1>8. Ranged'
  BY <1>1, <1>3, <1>4, <1>6, AtHand DEF Handled, Ranged
<1>9. Matched'
  BY <1>3, <1>4 DEF Handled, Matched, Ranged
<1>10. Accounted'
  <2>1. ASSUME NEW t \in Tools, tools'[t] \in Managers' PROVE Mounted(t)'
    BY <1>1, <1>3, <1>4, <1>5, <2>1 DEF Handled, Accounted, Mounted
  <2>2. ASSUME NEW i \in Managers', managers'[i].up PROVE Connected(i)'
    <3>1. Connected(i) /\ i \in Managers
      BY <1>4, <2>2 DEF Handled, Accounted
    <3>2. OwnedManager(i) \/ i \in Strays \cup cut \/ i = e
      BY <1>1, <3>1 DEF Connected
    <3>. QED
      BY <1>3, <1>4, <1>5, <2>2, <3>1, <3>2 DEF Connected, Strays
  <2>. QED
    BY <2>1, <2>2 DEF Accounted
<1>11. \A s \in run.servers : owned'[s] # Nobody /\ run.op = "close"
  BY <1>3 DEF Handled, Closing
<1>12. Handled'
  BY <1>6, <1>8, <1>9, <1>10, <1>11, EndsWell DEF Resting
<1>. QED
  BY <1>7, <1>12

LEMMA HandledStopOwned ==
  ASSUME Formed, Handled, StopOwned
  PROVE  Formed' /\ Handled'
<1>. PICK old : old = run.old
  OBVIOUS
<1>1. run.pc = "stopowned" /\ run.pc \in AtWork /\ run \in Runs /\ run.server \in Servers
  BY AtHand DEF StopOwned, AtWork
<1>2. /\ old \in Managers /\ Caps(old) \in Seq(Tools) /\ run.m = Nobody /\ managers[old].server = run.server
      /\ owned[run.server] = old /\ \A t \in Tools : tools[t] # old
  BY <1>1, AtHand, ManagersAre DEF Handled, Handling, Making
<1>3. UNCHANGED <<config, tools, stranded, waiting, cut>>
  BY DEF StopOwned
<1>4. CASE Down(old) /\ owned' = [owned EXCEPT ![run.server] = Nobody] /\ Answer(Said(run, "no", TRUE))
  <2>1. /\ managers' \in Seq(Made) /\ Managers' = Managers
        /\ \A i \in Managers : /\ managers'[i].server = managers[i].server /\ Caps(i)' = Caps(i)
                               /\ managers'[i].up = (IF i = old THEN FALSE ELSE managers[i].up)
    BY <1>2, <1>4, DownIs
  <2>2. /\ owned' \in [Servers -> Nat]
        /\ \A s \in Servers : owned'[s] = IF s = run.server THEN Nobody ELSE owned[s]
    BY <1>1, <1>4 DEF Formed, Nobody
  <2>3. /\ run' \in Runs /\ run'.m = Nobody /\ run'.old \in {run.old, Nobody} /\ run'.pc \in {"idle", "close"}
        /\ run'.pc = "close" => run'.op = "close"
        /\ \A s \in run'.servers : s \in run.servers /\ run'.op = "close"
    <3>. PICK r : r = Said(run, "no", TRUE)
      OBVIOUS
    <3>1. Answer(r)
      BY <1>4
    <3>. QED
      BY <1>1, <3>1, AnswerIs DEF Handled
  <2>4. \A i \in Managers : OwnedManager(i) /\ i # old => OwnedManager(i)'
    BY <1>2, <2>1, <2>2, ManagersAre DEF OwnedManager
  <2>5. Formed'
    BY <1>3, <2>1, <2>2, <2>3 DEF Formed
  <2>6. Ranged'
    BY <1>1, <1>3, <2>1, <2>2, <2>3, AtHand DEF Handled, Ranged
  <2>7. Matched'
    BY <1>3, <2>1, <2>2 DEF Handled, Matched, Ranged
  <2>8. Accounted'
    <3>1. ASSUME NEW t \in Tools, tools'[t] \in Managers' PROVE Mounted(t)'
      BY <1>1, <1>2, <1>3, <2>1, <2>4, <3>1 DEF Handled, Accounted, Mounted
    <3>2. ASSUME NEW i \in Managers', managers'[i].up PROVE Connected(i)'
      <4>1. Connected(i) /\ i \in Managers /\ i # old
        BY <2>1, <3>2 DEF Handled, Accounted
      <4>. QED
        BY <1>1, <1>3, <2>4, <4>1 DEF Connected, Strays
    <3>. QED
      BY <3>1, <3>2 DEF Accounted
  <2>9. \A s \in run'.servers : owned'[s] # Nobody /\ run'.op = "close"
    BY <1>1, <2>2, <2>3 DEF Handled, Closing, Runs
  <2>10. Handled'
    BY <2>3, <2>6, <2>7, <2>8, <2>9, EndsWell DEF Resting
  <2>. QED
    BY <2>5, <2>10
<1>5. CASE run' = [Fails("remount") EXCEPT !.missing = ToSet(Caps(old))] /\ UNCHANGED <<managers, owned, report>>
  <2>. PICK g : g = Fails("remount")
    OBVIOUS
  <2>. PICK M : M = ToSet(Caps(old))
    OBVIOUS
  <2>1. M \subseteq Tools
    <3>1. 0 \in 0 .. Len(Caps(old))
      BY <1>2, LenProperties
    <3>. QED
      BY <1>2, <3>1, PrefixNames
  <2>2. run' = [g EXCEPT !.missing = M]
    BY <1>5
  <2>3. /\ g \in Runs /\ g.pc = "remount" /\ g.op = run.op /\ g.server = run.server /\ g.m = run.m
        /\ g.old = run.old /\ g.servers = run.servers
    BY <1>1, RunFails DEF AtWork
  <2>4. run' \in Runs
    <3>1. g \in Runs /\ M \in SUBSET Tools
      BY <2>1, <2>3
    <3>. QED
      BY ONLY <2>2, <3>1 DEF Runs
  <2>5. /\ run'.pc = "remount" /\ run'.op = run.op /\ run'.server = run.server /\ run'.m = run.m
        /\ run'.old = run.old /\ run'.servers = run.servers /\ run'.missing = M
    BY <2>2, <2>3 DEF Runs
  <2>6. Formed'
    BY <1>3, <1>5, <2>4 DEF Formed
  <2>7. Managers' = Managers /\ \A i \in Managers : Caps(i)' = Caps(i) /\ OwnedManager(i)' = OwnedManager(i)
    BY <1>3, <1>5 DEF Managers, Caps, OwnedManager
  <2>8. Ranged' /\ Matched'
    BY <1>3, <1>5, <2>5, <2>7 DEF Handled, Ranged, Matched
  <2>9. Accounted'
    <3>1. ASSUME NEW t \in Tools, tools'[t] \in Managers' PROVE Mounted(t)'
      BY <1>1, <1>3, <1>5, <2>7, <3>1 DEF Handled, Accounted, Mounted
    <3>2. ASSUME NEW i \in Managers', managers'[i].up PROVE Connected(i)'
      <4>1. Connected(i) /\ i \in Managers
        BY <1>5, <2>7, <3>2 DEF Handled, Accounted
      <4>. QED
        BY <1>1, <1>3, <2>7, <4>1 DEF Connected, Strays
    <3>. QED
      BY <3>1, <3>2 DEF Accounted
  <2>10. Handling'
    BY <1>1, <1>2, <1>5, <2>5, AtHand, ManagersAre DEF AtWork, Handling
  <2>11. Making'
    BY <1>2, <1>5, <2>5, <2>7 DEF Making
  <2>12. Closing'
    BY <1>1, <1>5, <2>5, ClosingKept DEF AtWork, Handled, Closing
  <2>. QED
    BY <2>6, <2>8, <2>9, <2>10, <2>11, <2>12 DEF Handled
<1>. QED
  BY <1>4, <1>5 DEF StopOwned

\* A command that is cancelled while it stops a manager: the manager is not seen again.
LEMMA HandledCancelStop ==
  ASSUME Formed, Handled, CancelStop
  PROVE  Formed' /\ Handled'
<1>1. run.pc \in {"discard", "stopold", "stopowned"} /\ run.pc \in AtWork /\ run' = NoRun
  BY DEF CancelStop, AtWork
<1>2. UNCHANGED <<config, tools, managers, owned, stranded, waiting>> /\ cut \subseteq cut'
  BY DEF CancelStop, live
<1>3. /\ run.pc = "discard" => run.m \in cut'
      /\ run.pc = "stopold" => run.old \in cut'
  BY DEF CancelStop
<1>4. Formed'
  BY <1>1, <1>2, NoRunIs DEF Formed
<1>5. Managers' = Managers /\ \A i \in Managers : Caps(i)' = Caps(i) /\ OwnedManager(i)' = OwnedManager(i)
  BY <1>2 DEF Managers, Caps, OwnedManager
<1>6. Ranged' /\ Matched'
  BY <1>1, <1>2, <1>5, NoRunIs DEF Handled, Ranged, Matched
<1>7. Accounted'
  <2>1. ASSUME NEW t \in Tools, tools'[t] \in Managers' PROVE Mounted(t)'
    BY <1>1, <1>2, <1>5, <2>1 DEF Handled, Accounted, Mounted
  <2>2. ASSUME NEW i \in Managers', managers'[i].up PROVE Connected(i)'
    <3>1. Connected(i) /\ i \in Managers
      BY <1>2, <1>5, <2>2 DEF Handled, Accounted
    <3>. QED
      BY <1>1, <1>2, <1>3, <1>5, <3>1 DEF Connected, Strays
  <2>. QED
    BY <2>1, <2>2 DEF Accounted
<1>8. Handled'
  BY <1>1, <1>4, <1>6, <1>7, NoRunIs, EndsWell DEF Resting, Formed
<1>. QED
  BY <1>4, <1>8

\* The reconciler is closed: server by server, then what was stranded.
LEMMA HandledClose ==
  ASSUME Formed, Handled, Close \/ (\E s \in Servers : CloseServer(s)) \/ CloseStranded \/ Closed
  PROVE  Formed' /\ Handled'
<1>1. UNCHANGED <<config, tools, managers, owned, stranded, cut>> /\ waiting' \in Seq(Commands)
  BY FirstIs DEF Close, CloseServer, CloseStranded, Closed, live, Formed
<1>2. run \in Runs /\ run.pc \in {"idle", "close", "strays"} /\ (run.pc # "idle" => run.op = "close" /\ run.m = Nobody)
      /\ (run.pc = "idle" => run = NoRun)
  BY NoRunIs DEF Close, CloseServer, CloseStranded, Closed, Takes, Free, Formed, Handled, Closing
<1>3. Managers' = Managers /\ \A i \in Managers : Caps(i)' = Caps(i) /\ OwnedManager(i)' = OwnedManager(i)
  BY <1>1 DEF Managers, Caps, OwnedManager
<1>4. Matched'
  BY <1>1, <1>3 DEF Handled, Matched
<1>5. \A t \in Tools : tools'[t] \in Managers' => Mounted(t)'
  BY <1>1, <1>2, <1>3 DEF Handled, Accounted, Mounted
<1>6. \A i \in Managers' : managers'[i].up => OwnedManager(i)' \/ i \in (Strays \cup cut)'
  <2>1. ASSUME NEW i \in Managers', managers'[i].up PROVE OwnedManager(i)' \/ i \in (Strays \cup cut)'
    <3>1. Connected(i) /\ i \in Managers
      BY <1>1, <1>3, <2>1 DEF Handled, Accounted
    <3>. QED
      BY <1>1, <1>2, <1>3, <3>1 DEF Connected, Strays, AtWork
  <2>. QED
    BY <2>1
<1>7. Accounted'
  BY <1>5, <1>6 DEF Accounted, Connected
<1>8. ASSUME run' \in Runs, run'.pc \in Resting, run'.pc # "idle" => run'.op = "close", run'.m = Nobody,
             run'.old \in {run.old, Nobody}, \A s \in run'.servers : owned'[s] # Nobody /\ run'.op = "close"
      PROVE  Formed' /\ Handled'
  <2>1. Formed'
    BY <1>1, <1>8 DEF Formed
  <2>2. Ranged'
    BY <1>1, <1>3, <1>8 DEF Handled, Ranged
  <2>3. Handled'
    BY <1>4, <1>7, <1>8, <2>2, EndsWell
  <2>. QED
    BY <2>1, <2>3
<1>9. CASE Close
  <2>. PICK S : S = Owned
    OBVIOUS
  <2>. PICK n \in Runs : n = NoRun
    BY NoRunIs
  <2>1. run' = [n EXCEPT !.op = "close", !.pc = "close", !.servers = S] /\ S \in SUBSET Servers
    BY <1>9 DEF Close, Owned
  <2>2. n.m = Nobody /\ n.old = Nobody /\ "close" \in Resting
    BY NoRunIs DEF Resting
  <2>3. run' \in Runs
    BY ONLY <2>1, <2>2, n \in Runs DEF Runs
  <2>4. run'.pc = "close" /\ run'.op = "close" /\ run'.servers = S /\ run'.m = Nobody /\ run'.old = Nobody
    BY <2>1, <2>2 DEF Runs
  <2>5. \A s \in S : owned'[s] # Nobody
    BY <1>1 DEF Owned
  <2>. QED
    BY <1>8, <2>2, <2>3, <2>4, <2>5
<1>10. ASSUME NEW s \in Servers, CloseServer(s) PROVE Formed' /\ Handled'
  <2>. PICK g : g = Goes("unmount")
    OBVIOUS
  <2>. PICK o : o = owned[s]
    OBVIOUS
  <2>. PICK S : S = g.servers \ {s}
    OBVIOUS
  <2>1. run.pc = "close" /\ s \in run.servers /\ run.op = "close" /\ run.m = Nobody
    BY <1>2, <1>10 DEF CloseServer
  <2>2. /\ g \in Runs /\ g.pc = "unmount" /\ g.op = "close" /\ g.m = Nobody /\ g.servers = run.servers
    BY <1>2, <2>1, RunGoes DEF AtWork
  <2>3. run' = [g EXCEPT !.servers = S, !.server = s, !.old = o]
    BY <1>10 DEF CloseServer
  <2>4. o \in Nat /\ o \in Managers /\ o # Nobody /\ S \in SUBSET Servers
    BY <2>1, <2>2 DEF Formed, Handled, Ranged, Closing, Runs
  <2>5. run' \in Runs
    <3>1. g \in Runs /\ o \in Nat /\ S \in SUBSET Servers /\ s \in Servers \cup {NoServer}
      BY <2>2, <2>4
    <3>. QED
      BY ONLY <2>3, <3>1 DEF Runs
  <2>6. /\ run'.pc = "unmount" /\ run'.op = "close" /\ run'.m = Nobody /\ run'.servers = run.servers \ {s}
        /\ run'.server = s /\ run'.old = owned[s]
    BY <2>2, <2>3 DEF Runs
  <2>7. Formed'
    BY <1>1, <2>5 DEF Formed
  <2>8. Ranged'
    BY <1>1, <1>3, <2>4, <2>6 DEF Handled, Ranged
  <2>9. Handling'
    BY <1>1, <1>10, <2>4, <2>6 DEF Handling
  <2>10. Making'
    BY <2>6 DEF Making
  <2>11. Closing'
    BY <1>1, <2>6 DEF Handled, Closing
  <2>. QED
    BY <1>4, <1>7, <2>7, <2>8, <2>9, <2>10, <2>11 DEF Handled
<1>11. CASE CloseStranded
  <2>. PICK g : g = Goes("strays")
    OBVIOUS
  <2>1. run.pc = "close" /\ run.op = "close" /\ run.m = Nobody
    BY <1>2, <1>11 DEF CloseStranded
  <2>2. g \in Runs /\ g.pc = "strays" /\ g.op = "close" /\ g.m = Nobody /\ g.servers = run.servers /\ g.old = run.old
    BY <1>2, <2>1, RunGoes DEF Resting
  <2>3. run' = [g EXCEPT !.strays = stranded] /\ stranded \in SUBSET Kept
    BY <1>11 DEF CloseStranded, Formed
  <2>4. run' \in Runs
    <3>1. g \in Runs
      BY <2>2
    <3>. QED
      BY ONLY <2>3, <3>1 DEF Runs
  <2>5. run'.pc = "strays" /\ run'.op = "close" /\ run'.m = Nobody /\ run'.servers = run.servers /\ run'.old = run.old
    BY <2>2, <2>3 DEF Runs
  <2>6. \A s \in run.servers : owned'[s] # Nobody
    BY <1>1 DEF Handled, Closing
  <2>. QED
    BY <1>8, <2>4, <2>5, <2>6 DEF Resting
<1>12. CASE Closed
  <2>1. run.pc = "strays" /\ run.op = "close" /\ run.m = Nobody /\ run' = Goes("closed")
    BY <1>2, <1>12 DEF Closed
  <2>2. run' \in Runs /\ run'.pc = "closed" /\ run'.op = "close" /\ run'.m = Nobody /\ run'.servers = run.servers /\ run'.old = run.old
    BY <1>2, <2>1, RunGoes DEF Resting
  <2>3. \A s \in run.servers : owned'[s] # Nobody
    BY <1>1 DEF Handled, Closing
  <2>. QED
    BY <1>8, <2>2, <2>3 DEF Resting
<1>. QED
  BY <1>9, <1>10, <1>11, <1>12

LEMMA StrayIs ==
  ASSUME Formed, Handled, NEW x \in stranded, NEW k \in 0 .. Len(x.names), Stray(x, k)
  PROVE  /\ run \in Runs /\ run.pc = "strays" /\ run.op = "close" /\ run.m = Nobody
         /\ x.m \in Managers /\ x.names \in Seq(Tools)
         /\ UNCHANGED <<config, owned, waiting, cut>>
         /\ k = Len(x.names) => Prefix(Reverse(x.names), k) = ToSet(x.names)
         /\ tools' \in [Tools -> Int] /\ \A t \in Tools : tools'[t] = IF t \in Prefix(Reverse(x.names), k) THEN Nobody ELSE tools[t]
         /\ managers' \in Seq(Made) /\ Managers' = Managers /\ stranded' \subseteq stranded
         /\ \A i \in Managers : managers'[i].server = managers[i].server /\ Caps(i)' = Caps(i)
                                /\ (managers'[i].up => managers[i].up)
         /\ \/ stranded' = stranded
            \/ stranded' = stranded \ {x} /\ Prefix(Reverse(x.names), k) = ToSet(x.names) /\ ~managers'[x.m].up
         /\ run' \in Runs /\ run'.pc = "strays" /\ run'.op = "close" /\ run'.m = Nobody /\ run'.old = run.old
         /\ run'.servers = run.servers
<1>. PICK P : P = Prefix(Reverse(x.names), k)
  OBVIOUS
<1>1. run \in Runs /\ run.pc = "strays" /\ run.op = "close" /\ run.m = Nobody
  BY DEF Stray, Formed, Handled, Closing
<1>2. x.m \in Managers /\ x.names \in Seq(Tools)
  BY DEF Formed, Handled, Ranged, Kept
<1>3. UNCHANGED <<config, owned, waiting, cut>>
  BY DEF Stray
<1>4. k = Len(x.names) => P = ToSet(x.names)
  BY <1>2, UnmountedNames
<1>5. tools' \in [Tools -> Int] /\ \A t \in Tools : tools'[t] = IF t \in P THEN Nobody ELSE tools[t]
  BY PutIs DEF Stray, Formed, Nobody
<1>6. /\ managers' \in Seq(Made) /\ Managers' = Managers /\ stranded' \subseteq stranded
      /\ \A i \in Managers : managers'[i].server = managers[i].server /\ Caps(i)' = Caps(i)
                             /\ (managers'[i].up => managers[i].up)
      /\ \/ stranded' = stranded
         \/ stranded' = stranded \ {x} /\ P = ToSet(x.names) /\ ~managers'[x.m].up
  <2>1. CASE k = Len(x.names) /\ Down(x.m) /\ stranded' = stranded \ {x}
    BY <1>2, <1>4, <2>1, DownIs
  <2>2. CASE UNCHANGED <<managers, stranded>>
    BY <2>2 DEF Formed, Managers, Caps
  <2>. QED
    BY <2>1, <2>2 DEF Stray
<1>7. /\ run' \in Runs /\ run'.pc = "strays" /\ run'.op = "close" /\ run'.m = Nobody /\ run'.old = run.old
      /\ run'.servers = run.servers
  <2>. PICK S \in SUBSET Kept : S = run.strays \ {x}
    BY <1>1 DEF Runs
  <2>. PICK f \in Nat : f = run.faults + 1
    BY <1>1 DEF Runs
  <2>1. run' = [run EXCEPT !.strays = S] \/ run' = [run EXCEPT !.strays = S, !.faults = f]
    BY DEF Stray
  <2>2. run' \in Runs
    BY ONLY <1>1, <2>1, S \in SUBSET Kept, f \in Nat DEF Runs
  <2>. QED
    BY <1>1, <2>1, <2>2 DEF Runs
<1>. QED
  BY <1>1, <1>2, <1>3, <1>4, <1>5, <1>6, <1>7

LEMMA HandledStray ==
  ASSUME Formed, Handled, NEW x \in stranded, NEW k \in 0 .. Len(x.names), Stray(x, k)
  PROVE  Formed' /\ Handled'
<1>1. run \in Runs /\ run.pc = "strays" /\ run.op = "close" /\ run.m = Nobody
  BY StrayIs
<1>2. x.m \in Managers /\ x.names \in Seq(Tools)
  BY StrayIs
<1>3. UNCHANGED <<config, owned, waiting, cut>>
  BY StrayIs
<1>. PICK P : P = Prefix(Reverse(x.names), k)
  OBVIOUS
<1>4. k = Len(x.names) => P = ToSet(x.names)
  BY StrayIs
<1>5. tools' \in [Tools -> Int] /\ \A t \in Tools : tools'[t] = IF t \in P THEN Nobody ELSE tools[t]
  BY StrayIs
<1>6. /\ managers' \in Seq(Made) /\ Managers' = Managers /\ stranded' \subseteq stranded
      /\ \A i \in Managers : managers'[i].server = managers[i].server /\ Caps(i)' = Caps(i)
                             /\ (managers'[i].up => managers[i].up)
      /\ \/ stranded' = stranded
         \/ stranded' = stranded \ {x} /\ P = ToSet(x.names) /\ ~managers'[x.m].up
  BY StrayIs
<1>7. /\ run' \in Runs /\ run'.pc = "strays" /\ run'.op = "close" /\ run'.m = Nobody /\ run'.old = run.old
      /\ run'.servers = run.servers
  BY StrayIs
<1>8. Formed'
  BY <1>3, <1>5, <1>6, <1>7 DEF Formed
<1>9. Ranged'
  BY <1>3, <1>5, <1>6, <1>7 DEF Handled, Ranged
<1>10. Matched'
  <2>1. \A s \in Servers : owned'[s] # Nobody => managers'[owned'[s]].server = s
    BY <1>3, <1>6 DEF Handled, Matched, Ranged
  <2>2. ASSUME NEW t \in Tools, tools'[t] \in Managers' PROVE t \in ToSet(Caps(tools[t])') /\ tools'[t] = tools[t]
    <3>1. tools'[t] = tools[t] /\ tools[t] \in Managers
      BY <1>5, <1>6, <2>2, ManagersAre
    <3>. QED
      BY <1>6, <3>1 DEF Handled, Matched
  <2>3. \A t \in Tools : tools'[t] \in Managers' => t \in ToSet(Caps(tools[t]))'
    BY <1>6, <2>2 DEF Caps
  <2>. QED
    BY <2>1, <2>2, <2>3 DEF Matched, Caps
<1>11. \A i \in Managers : OwnedManager(i)' = OwnedManager(i)
  BY <1>3, <1>6 DEF OwnedManager
<1>12. Accounted'
  <2>1. ASSUME NEW t \in Tools, tools'[t] \in Managers' PROVE Mounted(t)'
    <3>1. tools'[t] = tools[t] /\ t \notin P /\ tools[t] \in Managers
      BY <1>5, <1>6, <2>1, ManagersAre
    <3>2. Mounted(t)
      BY <3>1 DEF Handled, Accounted
    <3>. QED
      BY <1>1, <1>6, <1>11, <3>1, <3>2 DEF Mounted
  <2>2. ASSUME NEW i \in Managers', managers'[i].up PROVE Connected(i)'
    <3>1. Connected(i) /\ i \in Managers
      BY <1>6, <2>2 DEF Handled, Accounted
    <3>. QED
      BY <1>1, <1>3, <1>6, <1>11, <2>2, <3>1 DEF Connected, Strays, AtWork
  <2>. QED
    BY <2>1, <2>2 DEF Accounted
<1>13. \A s \in run.servers : owned'[s] # Nobody
  BY <1>3 DEF Handled, Closing
<1>14. Handled'
  BY <1>7, <1>9, <1>10, <1>12, <1>13, EndsWell DEF Resting
<1>. QED
  BY <1>8, <1>14

LEMMA HandledInit ==
  ASSUME LiveMCPAssumption, LiveInit
  PROVE  Formed /\ Handled
<1>1. waiting \in Seq(Commands) /\ managers \in Seq(Made) /\ Managers = {}
  <2>1. waiting = << >> /\ managers = << >>
    BY DEF LiveInit
  <2>2. DOMAIN managers = 1 .. 0
    BY <2>1, EmptySeq, LenProperties
  <2>. QED
    BY <2>1, <2>2, EmptySeq DEF Managers
<1>2. tools \in [Tools -> Int] /\ \A t \in Tools : tools[t] \in {Nobody, Booted}
  BY DEF LiveInit, Nobody, Booted
<1>3. owned \in [Servers -> Nat] /\ (\A s \in Servers : owned[s] = Nobody) /\ stranded = {} /\ run = NoRun /\ cut = {}
  BY DEF LiveInit, Nobody
<1>4. config \in [Servers -> Specs \cup {NoSpec}]
  BY DEF LiveInit
<1>5. Formed
  BY <1>1, <1>2, <1>3, <1>4, NoRunIs DEF Formed
<1>6. Ranged /\ Matched /\ Accounted
  BY <1>1, <1>2, <1>3, NoRunIs DEF Ranged, Matched, Accounted
<1>7. Handling /\ Making /\ Closing
  BY <1>3, NoRunIs DEF Handling, Making, Closing, AtWork
<1>. QED
  BY <1>5, <1>6, <1>7 DEF Handled

LEMMA HandledNext ==
  ASSUME LiveMCPAssumption, Formed, Handled, [LiveNext]_liveVars
  PROVE  Formed' /\ Handled'
<1>1. CASE \/ \E s \in Servers : (\E x \in Specs : AddServer(s, x)) \/ ReloadServer(s) \/ RemoveServer(s)
           \/ Leave \/ Decide \/ (\E i \in DOMAIN waiting : CancelWaiting(i))
  <2>1. UNCHANGED <<live, run, cut>>
    BY <1>1 DEF AddServer, ReloadServer, RemoveServer, Issue, Leave, Decide, CancelWaiting
  <2>. QED
    BY <1>1, <2>1, FormedQuiet, HandledQuiet
<1>2. CASE Disconnect
  BY <1>2, HandledDisconnect
<1>3. CASE Connect
  BY <1>3, HandledConnect
<1>4. CASE \E o \in Offers : Discovered(o)
  BY <1>4, HandledDiscovered
<1>5. CASE Undiscovered \/ CancelDiscover
  BY <1>5, HandledUndiscovered
<1>6. ASSUME NEW k \in 0 .. Cardinality(Tools), Mount(k) \/ UndoMounts(k) \/ Unmount(k) PROVE Formed' /\ Handled'
  BY <1>6, MountFails, MountEnds, HandledUndo, HandledUnmount
<1>7. ASSUME NEW lost \in SUBSET Tools, Remount(lost) PROVE Formed' /\ Handled'
  BY <1>7, HandledRemount
<1>8. CASE Discard \/ StopOld
  BY <1>8, HandledStop
<1>9. CASE StopOwned
  BY <1>9, HandledStopOwned
<1>10. CASE Close \/ (\E s \in Servers : CloseServer(s)) \/ CloseStranded \/ Closed
  BY <1>10, HandledClose
<1>11. ASSUME NEW x \in stranded, NEW k \in 0 .. Len(x.names), Stray(x, k) PROVE Formed' /\ Handled'
  BY <1>11, HandledStray
<1>12. CASE CancelStop
  BY <1>12, HandledCancelStop
<1>13. CASE UNCHANGED liveVars
  <2>1. Formed' /\ UNCHANGED <<live, run, cut>>
    BY <1>13 DEF liveVars, live, Formed
  <2>. QED
    BY <2>1, HandledQuiet
<1>. QED
  BY <1>1, <1>2, <1>3, <1>4, <1>5, <1>6, <1>7, <1>8, <1>9, <1>10, <1>11, <1>12, <1>13 DEF LiveNext

LEMMA HandledShown ==
  ASSUME Formed, Handled
  PROVE  NothingOrphaned
<1>1. ASSUME NEW m \in Running PROVE owned[managers[m].server] = m \/ m \in Strays \cup InHand \cup cut
  <2>1. m \in Managers /\ Connected(m) /\ m # Nobody
    BY <1>1, ManagersAre DEF Running, Handled, Accounted
  <2>. QED
    BY <2>1 DEF Connected, OwnedManager, InHand, AtWork
<1>2. ASSUME NEW t \in Tools, tools[t] \in Managers
      PROVE  \/ tools[t] \in InHand
             \/ owned[managers[tools[t]].server] = tools[t] /\ t \in ToSet(Caps(tools[t]))
             \/ \E x \in stranded : x.m = tools[t] /\ t \in ToSet(x.names)
  <2>1. Mounted(t) /\ t \in ToSet(Caps(tools[t])) /\ tools[t] # Nobody
    BY <1>2, ManagersAre DEF Handled, Accounted, Matched
  <2>. QED
    BY <2>1 DEF Mounted, OwnedManager, InHand
<1>. QED
  BY <1>1, <1>2 DEF NothingOrphaned

\* Whatever fails, in any command, a connection that is up and a tool mounted
\* for one belong to a server that is owned, to what is kept for close() or to
\* the command at work, or the stop of the connection was cancelled
\* (LiveMCPReconciler, kernel/live_mcp.py:10-13).
THEOREM NothingLost == LiveSpec => []NothingOrphaned
<1>1. LiveInit => Formed /\ Handled
  BY LiveMCPAssumption, HandledInit
<1>2. (Formed /\ Handled) /\ [LiveNext]_liveVars => (Formed /\ Handled)'
  BY LiveMCPAssumption, HandledNext
<1>3. Formed /\ Handled => NothingOrphaned
  BY HandledShown
<1>. QED
  BY <1>1, <1>2, <1>3, PTL DEF LiveSpec

-----------------------------------------------------------------------------
(* What is left alone, and what is reported *)

\* The tools of the servers of the boot are not among those a command handles.
Spared ==
  /\ \A s \in Servers : owned[s] # Nobody => \A t \in ToSet(Caps(owned[s])) : tools[t] # Booted
  /\ \A x \in stranded : \A t \in ToSet(x.names) : tools[t] # Booted
  /\ run.pc \in {"mount", "undo", "unmount", "remount"} /\ run.m # Nobody =>
       \A t \in ToSet(Caps(run.m)) : tools[t] # Booted

\* The reconciler is closed only when the program is left.
Staying == run.op # "close" /\ \A i \in DOMAIN waiting : waiting[i].op # "close"

\* What is owned is whole, but for the server of the command at work.
Exposed(s) == run.pc \in {"mount", "undo", "remount", "stopowned"} /\ s = run.server
Standing ==
  /\ \A x \in stranded : x.names = << >>
  /\ \A s \in Servers : owned[s] # Nobody =>
       /\ managers[owned[s]].up
       /\ \A t \in Tools : tools[t] = Booted => BootOwner[t] # s
       /\ ~Exposed(s) => \A t \in ToSet(Caps(owned[s])) : tools[t] = owned[s]

\* What a command has done so far of the connection it replaces, and of its own.
Replacing ==
  /\ run.pc = "unmount" => \A t \in ToSet(Caps(run.old)) : tools[t] = run.old
  /\ run.pc \in {"mount", "stopowned"} /\ run.old # Nobody => \A t \in ToSet(Caps(run.old)) : tools[t] = Nobody
  /\ run.pc = "undo" /\ run.old # Nobody => \A t \in ToSet(Caps(run.old)) : tools[t] \in {Nobody, run.m}
  /\ run.pc = "remount" => /\ \A t \in run.missing : tools[t] = Nobody
                           /\ \A t \in ToSet(Caps(run.old)) \ run.missing : tools[t] = run.old
Placing ==
  /\ run.pc \in AtWork => \A t \in Tools : tools[t] = Booted => BootOwner[t] # run.server
  /\ run.pc \in {"discover", "mount", "unmount"} /\ run.m # Nobody => managers[run.m].up
  /\ run.pc = "unmount" /\ run.m # Nobody =>
       \A t \in ToSet(Caps(run.m)) \ ToSet(Caps(run.old)) : tools[t] = Nobody
  /\ run.pc = "mount" => \A t \in ToSet(Caps(run.m)) : tools[t] = Nobody
  /\ run.pc = "undo" => \A t \in ToSet(run.names) : tools[t] = run.m
Telling ==
  /\ run.pc \in {"undo", "remount"} => run.faults = 1
  /\ run.pc \in {"undo", "remount", "unmount", "stopowned"} => run.clean
  /\ run.pc = "stopold" => managers[run.old].server = run.server
  /\ run.pc = "discard" => /\ run.say # NoReport /\ run.say.server = run.server
                           /\ run.say.connected = "yes" => run.old # Nobody
                           /\ run.say.connected = "no" => run.old = Nobody

\* Until the program is left, with a failure in a command at most.
Sound == cut = {} /\ Staying /\ Standing /\ Replacing /\ Placing /\ Telling /\ ReportTrue
Careful == Spared /\ (~leaving => Sound)

-----------------------------------------------------------------------------
(* The tools of the boot *)

LEMMA NamesAre ==
  ASSUME Formed
  PROVE  /\ \A m \in Managers : ToSet(Caps(m)) \subseteq Tools
         /\ \A x \in stranded : ToSet(x.names) \subseteq Tools
         /\ ToSet(run.names) \subseteq Tools /\ ToSet(<< >>) = {}
<1>1. ASSUME NEW s \in Seq(Tools) PROVE ToSet(s) \subseteq Tools
  <2>1. 0 \in 0 .. Len(s)
    BY LenProperties
  <2>. QED
    BY <2>1, PrefixNames
<1>2. ToSet(<< >>) = {}
  <2>. PICK e \in Seq(Tools) : e = << >>
    BY EmptySeq
  <2>1. DOMAIN e = 1 .. 0
    BY EmptySeq, LenProperties
  <2>2. ToSet(e) = {}
    BY <2>1 DEF ToSet
  <2>. QED
    BY <2>2
<1>3. \A m \in Managers : Caps(m) \in Seq(Tools)
  BY ManagersAre
<1>4. \A x \in stranded : x.names \in Seq(Tools)
  BY DEF Formed, Kept
<1>5. run.names \in Seq(Tools)
  BY DEF Formed, Runs
<1>. QED
  BY <1>1, <1>2, <1>3, <1>4, <1>5

\* Where no name is added to those that are handled.
LEMMA SparedKept ==
  ASSUME Formed, Handled, Spared,
         \A t \in Tools : tools'[t] = Booted => tools[t] = Booted,
         \A s \in Servers : owned'[s] # Nobody => owned'[s] = owned[s] /\ Caps(owned[s])' = Caps(owned[s]),
         \A x \in stranded' : x \in stranded \/ x.names = << >>,
         run'.pc \in {"mount", "undo", "unmount", "remount"} /\ run'.m # Nobody =>
           run.pc \in {"mount", "undo", "unmount", "remount"} /\ run'.m = run.m /\ Caps(run.m)' = Caps(run.m)
  PROVE  Spared'
<1>1. \A s \in Servers : owned'[s] # Nobody => \A t \in ToSet(Caps(owned[s])) : tools'[t] # Booted
  BY NamesAre DEF Spared, Handled, Ranged
<1>2. \A x \in stranded' : \A t \in ToSet(x.names) : tools'[t] # Booted
  BY NamesAre DEF Spared
<1>3. run'.pc \in {"mount", "undo", "unmount", "remount"} /\ run'.m # Nobody => \A t \in ToSet(Caps(run.m)) : tools'[t] # Booted
  BY NamesAre DEF Spared, Handled, Ranged
<1>. QED
  BY <1>1, <1>2, <1>3 DEF Spared

LEMMA SparedQuiet ==
  ASSUME Formed, Handled, Spared, UNCHANGED <<tools, owned, stranded>>,
         \A m \in Managers : Caps(m)' = Caps(m),
         run'.pc \in {"mount", "undo", "unmount", "remount"} => run'.m = Nobody
  PROVE  Spared' /\ \A t \in Tools : tools'[t] # tools[t] => tools[t] # Booted
<1>1. \A s \in Servers : owned'[s] # Nobody => owned'[s] = owned[s] /\ Caps(owned[s])' = Caps(owned[s])
  BY DEF Handled, Ranged, Caps
<1>. QED
  BY <1>1, SparedKept

LEMMA SparedDiscovered ==
  ASSUME Formed, Handled, LiveMCPAssumption, Spared, NEW o \in Offers, Discovered(o)
  PROVE  Spared' /\ \A t \in Tools : tools'[t] # tools[t] => tools[t] # Booted
<1>1. /\ run.pc = "discover" /\ run.m \in Managers /\ run.m # run.old /\ managers[run.m].server = run.server
      /\ UNCHANGED <<tools, owned, stranded>> /\ run'.m = run.m
      /\ \A n \in Managers : n # run.m => Caps(n)' = Caps(n)
      /\ run'.pc \in {"discard", "mount", "unmount"}
  BY DiscoveredIs
<1>2. run.old = owned[run.server] /\ run.server \in Servers
  BY <1>1 DEF Handled, Handling, AtWork
<1>3. \A s \in Servers : owned[s] # Nobody => owned[s] \in Managers /\ owned[s] # run.m
  BY <1>1, <1>2 DEF Handled, Ranged, Matched
<1>4. managers'[run.m].caps = o
  BY <1>1, ManagersAre DEF Discovered, Formed, Made
<1>5. run'.pc \in {"mount", "unmount"} => Collides(o) = {}
  <2>1. ASSUME Collides(o) # {} PROVE run'.pc = "discard"
    <3>. PICK g : g = Goes("discard")
      OBVIOUS
    <3>. PICK r : r = Said(run, Was, FALSE)
      OBVIOUS
    <3>1. run' = [g EXCEPT !.say = r]
      BY <2>1 DEF Discovered
    <3>2. g \in Runs /\ g.pc = "discard"
      BY RunGoes DEF Formed, AtWork
    <3>. QED
      BY <3>1, <3>2 DEF Runs
  <2>. QED
    BY <2>1
<1>6. o \in Seq(Tools)
  BY DEF LiveMCPAssumption
<1>7. ToSet(o) \subseteq Tools
  <2>1. 0 \in 0 .. Len(o)
    BY <1>6, LenProperties
  <2>. QED
    BY <1>6, <2>1, PrefixNames
<1>8. Collides(o) = {} => \A t \in ToSet(o) : tools[t] # Booted
  <2>1. ASSUME Collides(o) = {}, NEW t \in ToSet(o) PROVE tools[t] # Booted
    <3>1. tools[t] = Nobody \/ (run.old # Nobody /\ t \in ToSet(Caps(run.old)))
      BY <2>1 DEF Collides
    <3>2. CASE tools[t] = Nobody
      BY <3>2 DEF Nobody, Booted
    <3>3. CASE run.old # Nobody /\ t \in ToSet(Caps(run.old))
      BY <1>2, <3>3 DEF Spared
    <3>. QED
      BY <3>1, <3>2, <3>3
  <2>. QED
    BY <2>1
<1>9. \A s \in Servers : owned'[s] # Nobody => \A t \in ToSet(Caps(owned[s])') : tools'[t] # Booted
  <2>1. \A s \in Servers : owned'[s] # Nobody => Caps(owned[s])' = Caps(owned[s])
    BY <1>1, <1>3 DEF Caps
  <2>. QED
    BY <1>1, <2>1 DEF Spared
<1>10. \A x \in stranded' : \A t \in ToSet(x.names) : tools'[t] # Booted
  BY <1>1 DEF Spared
<1>11. run'.pc \in {"mount", "unmount"} => \A t \in ToSet(Caps(run.m)') : tools'[t] # Booted
  BY <1>1, <1>4, <1>5, <1>8 DEF Caps
<1>. QED
  BY <1>1, <1>9, <1>10, <1>11 DEF Spared

LEMMA SparedMount ==
  ASSUME Formed, Handled, Spared, NEW k \in 0 .. Cardinality(Tools), Mount(k)
  PROVE  Spared' /\ \A t \in Tools : tools'[t] # tools[t] => tools[t] # Booted
<1>. PICK m : m = run.m
  OBVIOUS
<1>1. run.pc = "mount" /\ run.pc \in AtWork /\ UNCHANGED <<managers, stranded>> /\ run.server \in Servers
  BY AtHand DEF Mount, AtWork
<1>2. m \in Managers /\ m # Nobody /\ m # Booted /\ \A t \in ToSet(Caps(m)) : tools[t] # Booted
  BY <1>1, AtHand, ManagersAre DEF Handled, Making, Spared
<1>. PICK P : P = Prefix(Caps(m), k)
  OBVIOUS
<1>3. P \subseteq ToSet(Caps(m)) /\ \A t \in Tools : tools'[t] = IF t \in P THEN m ELSE tools[t]
  BY MountFailsIs, MountEndsIs
<1>4. /\ \A t \in Tools : tools'[t] = Booted => tools[t] = Booted
      /\ \A t \in Tools : tools'[t] # tools[t] => tools[t] # Booted
  BY <1>2, <1>3
<1>5. CASE k < Len(Caps(run.m))
  <2>1. UNCHANGED owned /\ run'.m = m /\ run'.pc = "undo"
    BY <1>5, MountFailsIs
  <2>. QED
    BY <1>1, <1>4, <2>1, SparedKept DEF Caps
<1>6. CASE ~(k < Len(Caps(run.m)))
  <2>1. \A s \in Servers : owned'[s] = IF s = run.server THEN m ELSE owned[s]
    BY <1>6, MountEndsIs
  <2>2. run'.pc \notin {"mount", "undo", "unmount", "remount"}
    <3>1. CASE run.old = Nobody
      <4>. PICK r : r = Said(run, "yes", TRUE)
        OBVIOUS
      <4>1. Answer(r)
        BY <1>6, <3>1, <1>1 DEF Mount
      <4>. QED
        BY <1>1, <4>1, AnswerIs, AtHand DEF Handled
    <3>2. CASE run.old # Nobody
      <4>1. run' = Goes("stopold")
        BY <1>6, <3>2 DEF Mount
      <4>. QED
        BY <1>1, <4>1, RunGoes, AtHand DEF AtWork
    <3>. QED
      BY <3>1, <3>2
  <2>3. \A t \in Tools : tools[t] # Booted => tools'[t] # Booted
    BY <1>4
  <2>4. \A s \in Servers : owned'[s] # Nobody => \A t \in ToSet(Caps(owned'[s])) : tools'[t] # Booted
    BY <1>1, <1>2, <2>1, <2>3, NamesAre DEF Spared, Handled, Ranged
  <2>5. \A x \in stranded' : \A t \in ToSet(x.names) : tools'[t] # Booted
    BY <1>1, <2>3, NamesAre DEF Spared
  <2>. QED
    BY <1>1, <1>4, <2>2, <2>4, <2>5 DEF Spared, Caps
<1>. QED
  BY <1>5, <1>6

LEMMA SparedUndo ==
  ASSUME Formed, Handled, Spared, NEW k \in 0 .. Cardinality(Tools), UndoMounts(k)
  PROVE  Spared' /\ \A t \in Tools : tools'[t] # tools[t] => tools[t] # Booted
<1>. PICK m : m = run.m
  OBVIOUS
<1>. PICK n : n = run.names
  OBVIOUS
<1>1. run.pc = "undo" /\ run.pc \in AtWork /\ UNCHANGED <<managers, owned>> /\ k \in 0 .. Len(n) /\ n \in Seq(Tools)
  BY AtHand DEF UndoMounts, AtWork, Runs
<1>2. m \in Managers /\ m # Nobody /\ (\A t \in ToSet(Caps(m)) : tools[t] # Booted) /\ ToSet(n) \subseteq ToSet(Caps(m))
  BY <1>1, AtHand, ManagersAre DEF Handled, Making, Spared
<1>. PICK P : P = Prefix(Reverse(n), k)
  OBVIOUS
<1>3. P \subseteq ToSet(n)
  BY <1>1, UnmountedNames
<1>4. \A t \in Tools : tools'[t] = IF t \in P THEN Nobody ELSE tools[t]
  BY PutIs DEF UndoMounts, Formed, Nobody
<1>5. /\ \A t \in Tools : tools'[t] = Booted => tools[t] = Booted
      /\ \A t \in Tools : tools'[t] # tools[t] => tools[t] # Booted
  BY <1>2, <1>3, <1>4 DEF Nobody, Booted
<1>6. \A x \in stranded' : x \in stranded \/ x.names = Caps(m)
  BY DEF UndoMounts, Strand
<1>7. \A t \in Tools : tools[t] # Booted => tools'[t] # Booted
  BY <1>5
<1>8. \A x \in stranded' : \A t \in ToSet(x.names) : tools'[t] # Booted
  BY <1>2, <1>6, <1>7, NamesAre DEF Spared
<1>9. \A s \in Servers : owned'[s] # Nobody => \A t \in ToSet(Caps(owned'[s])) : tools'[t] # Booted
  BY <1>1, <1>7, NamesAre DEF Spared, Handled, Ranged
<1>10. run'.pc \in {"mount", "undo", "unmount", "remount"} => run'.m = m
  <2>. PICK after : after = IF k = Len(n) THEN run ELSE [run EXCEPT !.clean = FALSE, !.faults = run.faults + 1]
    OBVIOUS
  <2>1. CASE run.old # Nobody
    <3>. PICK M : M = {t \in ToSet(Caps(run.old)) : tools'[t] = Nobody}
      OBVIOUS
    <3>1. run' = [after EXCEPT !.pc = "remount", !.missing = M]
      BY <2>1 DEF UndoMounts
    <3>2. after.m = m
      BY <1>1, AtHand DEF Runs
    <3>. QED
      BY <1>1, <3>1, <3>2, AtHand DEF Runs
  <2>2. CASE run.old = Nobody /\ k = Len(n)
    <3>. PICK r : r = Said(run, "no", FALSE)
      OBVIOUS
    <3>1. run' = [run EXCEPT !.pc = "discard", !.say = r]
      BY <2>2 DEF UndoMounts
    <3>. QED
      BY <1>1, <3>1, AtHand DEF Runs
  <2>3. CASE run.old = Nobody /\ k # Len(n)
    <3>. PICK r : r = Said(run, "unknown", FALSE)
      OBVIOUS
    <3>1. Answer(r)
      BY <2>3 DEF UndoMounts
    <3>. QED
      BY <1>1, <3>1, AnswerIs, AtHand DEF Handled
  <2>. QED
    BY <2>1, <2>2, <2>3
<1>11. \A t \in ToSet(Caps(m)) : tools'[t] # Booted
  BY <1>2, <1>7, NamesAre
<1>. QED
  BY <1>1, <1>5, <1>8, <1>9, <1>10, <1>11 DEF Spared, Caps

LEMMA SparedUnmount ==
  ASSUME Formed, Handled, Spared, NEW k \in 0 .. Cardinality(Tools), Unmount(k)
  PROVE  Spared' /\ \A t \in Tools : tools'[t] # tools[t] => tools[t] # Booted
<1>1. /\ run.pc = "unmount" /\ run.old # Nobody /\ UNCHANGED <<managers, owned, stranded>> /\ run'.m = run.m
      /\ \A t \in Tools : tools'[t] # tools[t] => tools'[t] = Nobody /\ t \in ToSet(Caps(run.old))
  BY UnmountIs
<1>2. run.old = owned[run.server] /\ run.server \in Servers
  BY <1>1 DEF Handled, Handling, AtWork
<1>3. \A t \in Tools : tools'[t] # tools[t] => tools[t] # Booted /\ tools'[t] # Booted
  BY <1>1, <1>2 DEF Spared, Nobody, Booted
<1>. QED
  BY <1>1, <1>3, SparedKept DEF Caps

LEMMA SparedRemount ==
  ASSUME Formed, Handled, Spared, NEW lost \in SUBSET Tools, Remount(lost)
  PROVE  Spared' /\ \A t \in Tools : tools'[t] # tools[t] => tools[t] # Booted
<1>1. /\ run.pc = "remount" /\ run.pc \in AtWork /\ run.old \in Managers /\ UNCHANGED <<managers, owned, stranded>>
      /\ \A t \in Tools : tools'[t] # tools[t] => tools'[t] = run.old /\ t \in ToSet(Caps(run.old))
  <2>1. run.missing \ lost \subseteq ToSet(Caps(run.old))
    BY RemountIs
  <2>2. \A t \in Tools : tools'[t] = IF t \in run.missing \ lost THEN run.old ELSE tools[t]
    BY RemountIs
  <2>3. run.pc = "remount" /\ run.pc \in AtWork /\ run.old \in Managers /\ UNCHANGED <<managers, owned, stranded>>
    BY RemountIs
  <2>. QED
    BY <2>1, <2>2, <2>3
<1>2. run.old = owned[run.server] /\ run.server \in Servers /\ run.old # Nobody /\ run.old # Booted
  BY <1>1, ManagersAre DEF Handled, Handling, AtWork
<1>3. \A t \in Tools : tools'[t] # tools[t] => tools[t] # Booted /\ tools'[t] # Booted
  BY <1>1, <1>2 DEF Spared
<1>4. run'.pc \notin {"mount", "undo", "unmount", "remount"}
  <2>1. CASE run.m # Nobody /\ run.clean
    <3>. PICK r : r = Said(run, IF lost = {} /\ run.clean THEN "yes" ELSE "unknown", FALSE)
      OBVIOUS
    <3>. PICK g : g = Goes("discard")
      OBVIOUS
    <3>1. run' = [g EXCEPT !.say = r, !.faults = g.faults + Cardinality(lost)]
      BY <2>1 DEF Remount
    <3>2. g \in Runs /\ g.pc = "discard"
      BY <1>1, RunGoes, AtHand DEF AtWork
    <3>. QED
      BY <3>1, <3>2 DEF Runs
  <2>2. CASE ~(run.m # Nobody /\ run.clean) /\ run.op = "close"
    <3>. PICK g : g = Goes("close")
      OBVIOUS
    <3>1. run' = [g EXCEPT !.faults = g.faults + Cardinality(lost)]
      BY <2>2 DEF Remount
    <3>2. g \in Runs /\ g.pc = "close"
      BY <1>1, RunGoes, AtHand DEF Resting
    <3>. QED
      BY <3>1, <3>2 DEF Runs
  <2>3. CASE ~(run.m # Nobody /\ run.clean) /\ run.op # "close"
    <3>. PICK r : r = Said(run, IF lost = {} /\ run.clean THEN "yes" ELSE "unknown", FALSE)
      OBVIOUS
    <3>1. Answer(r)
      BY <2>3 DEF Remount
    <3>. QED
      BY <1>1, <3>1, AnswerIs, AtHand DEF Handled
  <2>. QED
    BY <2>1, <2>2, <2>3
<1>. QED
  BY <1>1, <1>3, <1>4, SparedKept DEF Caps

LEMMA SparedStop ==
  ASSUME Formed, Handled, Spared, Discard \/ StopOld
  PROVE  Spared' /\ \A t \in Tools : tools'[t] # tools[t] => tools[t] # Booted
<1>. PICK e : e = IF run.pc = "discard" THEN run.m ELSE run.old
  OBVIOUS
<1>1. UNCHANGED <<tools, owned>> /\ run.pc \in AtWork /\ \A i \in Managers : Caps(i)' = Caps(i)
  BY StopIs
<1>2. \A x \in stranded' : x \in stranded \/ x.names = << >>
  <2>. PICK none : none = << >>
    OBVIOUS
  <2>1. \/ stranded' = stranded
        \/ \E m : stranded' = stranded \cup {[m |-> m, names |-> none]}
    BY DEF Discard, StopOld, Strand
  <2>. QED
    BY <2>1
<1>3. run'.pc \notin {"mount", "undo", "unmount", "remount"}
  <2>. PICK r : r = IF run.pc = "discard" THEN run.say ELSE Said(run, "yes", TRUE)
    OBVIOUS
  <2>1. Answer(r)
    BY DEF Discard, StopOld
  <2>. QED
    BY <1>1, <2>1, AnswerIs, AtHand DEF Handled
<1>4. \A s \in Servers : owned'[s] # Nobody => owned'[s] = owned[s] /\ Caps(owned[s])' = Caps(owned[s])
  BY <1>1 DEF Handled, Ranged, Caps
<1>. QED
  BY <1>1, <1>2, <1>3, <1>4, SparedKept

LEMMA SparedStopOwned ==
  ASSUME Formed, Handled, Spared, StopOwned
  PROVE  Spared' /\ \A t \in Tools : tools'[t] # tools[t] => tools[t] # Booted
<1>1. run.pc = "stopowned" /\ run.pc \in AtWork /\ UNCHANGED <<tools, stranded>> /\ run.m = Nobody /\ run.old \in Managers
  BY AtHand DEF StopOwned, AtWork, Handled, Handling, Making
<1>2. run'.m = Nobody
  <2>1. CASE Answer(Said(run, "no", TRUE))
    <3>. PICK r : r = Said(run, "no", TRUE)
      OBVIOUS
    <3>1. Answer(r)
      BY <2>1
    <3>. QED
      BY <1>1, <3>1, AnswerIs, AtHand DEF Handled
  <2>2. CASE run' = [Fails("remount") EXCEPT !.missing = ToSet(Caps(run.old))]
    <3>. PICK g : g = Fails("remount")
      OBVIOUS
    <3>. PICK M : M = ToSet(Caps(run.old))
      OBVIOUS
    <3>1. run' = [g EXCEPT !.missing = M]
      BY <2>2
    <3>2. g \in Runs /\ g.m = Nobody
      BY <1>1, RunFails, AtHand DEF AtWork
    <3>. QED
      BY <3>1, <3>2 DEF Runs
  <2>. QED
    BY <2>1, <2>2 DEF StopOwned
<1>3. /\ \A i \in Managers : Caps(i)' = Caps(i)
      /\ \A s \in Servers : owned'[s] \in {owned[s], Nobody}
  <2>1. CASE Down(run.old) /\ owned' = [owned EXCEPT ![run.server] = Nobody]
    BY <1>1, <2>1, DownIs DEF Formed
  <2>2. CASE UNCHANGED <<managers, owned>>
    BY <2>2 DEF Caps
  <2>. QED
    BY <2>1, <2>2 DEF StopOwned
<1>4. \A s \in Servers : owned'[s] # Nobody => owned'[s] = owned[s] /\ Caps(owned[s])' = Caps(owned[s])
  <2>1. \A s \in Servers : owned'[s] # Nobody => owned'[s] = owned[s] /\ owned[s] \in Managers
    BY <1>3 DEF Handled, Ranged
  <2>. QED
    BY <1>3, <2>1 DEF Caps
<1>. QED
  BY <1>1, <1>2, <1>4, SparedKept

LEMMA SparedStray ==
  ASSUME Formed, Handled, Spared, NEW x \in stranded, NEW k \in 0 .. Len(x.names), Stray(x, k)
  PROVE  Spared' /\ \A t \in Tools : tools'[t] # tools[t] => tools[t] # Booted
<1>. PICK P : P = Prefix(Reverse(x.names), k)
  OBVIOUS
<1>1. x.names \in Seq(Tools) /\ UNCHANGED owned /\ stranded' \subseteq stranded
      /\ (\A i \in Managers : Caps(i)' = Caps(i)) /\ run'.pc = "strays"
  BY StrayIs
<1>2. \A t \in Tools : tools'[t] = IF t \in P THEN Nobody ELSE tools[t]
  BY StrayIs
<1>3. P \subseteq ToSet(x.names)
  BY <1>1, UnmountedNames
<1>4. \A t \in Tools : tools'[t] # tools[t] => tools[t] # Booted /\ tools'[t] # Booted
  BY <1>2, <1>3 DEF Spared, Nobody, Booted
<1>5. \A s \in Servers : owned'[s] # Nobody => owned'[s] = owned[s] /\ Caps(owned[s])' = Caps(owned[s])
  BY <1>1 DEF Handled, Ranged, Caps
<1>. QED
  BY <1>1, <1>4, <1>5, SparedKept

LEMMA SparedNext ==
  ASSUME LiveMCPAssumption, Formed, Handled, Spared, [LiveNext]_liveVars
  PROVE  Spared' /\ \A t \in Tools : tools'[t] # tools[t] => tools[t] # Booted
<1>1. CASE UNCHANGED <<live, run>>
  BY <1>1 DEF live, Spared, Caps
<1>2. CASE Disconnect
  <2>1. UNCHANGED <<tools, managers, owned, stranded>> /\ run'.m = Nobody
    BY <1>2, DisconnectIs
  <2>. QED
    BY <2>1, SparedQuiet DEF Caps
<1>3. CASE Connect
  <2>. PICK n : n = Len(managers')
    OBVIOUS
  <2>1. UNCHANGED <<tools, owned, stranded>> /\ run'.pc = "discover" /\ \A m \in Managers : managers'[m] = managers[m]
    BY <1>3, ConnectIs
  <2>. QED
    BY <2>1, SparedQuiet DEF Caps
<1>4. CASE \E o \in Offers : Discovered(o)
  BY <1>4, SparedDiscovered
<1>5. CASE Undiscovered \/ CancelDiscover
  <2>1. UNCHANGED <<tools, managers, owned, stranded>>
    BY <1>5 DEF Undiscovered, CancelDiscover, live
  <2>2. run'.pc = "discard"
    <3>1. CASE Undiscovered
      <4>. PICK g : g = Fails("discard")
        OBVIOUS
      <4>. PICK r : r = Said(run, Was, FALSE)
        OBVIOUS
      <4>1. run' = [g EXCEPT !.say = r]
        BY <3>1 DEF Undiscovered
      <4>2. g \in Runs /\ g.pc = "discard"
        BY RunFails DEF Formed, AtWork
      <4>. QED
        BY <4>1, <4>2 DEF Runs
    <3>2. CASE CancelDiscover
      BY <3>2, RunGoes DEF CancelDiscover, Formed, AtWork
    <3>. QED
      BY <1>5, <3>1, <3>2
  <2>. QED
    BY <2>1, <2>2, SparedQuiet DEF Caps
<1>6. ASSUME NEW k \in 0 .. Cardinality(Tools), Mount(k) \/ UndoMounts(k) \/ Unmount(k)
      PROVE  Spared' /\ \A t \in Tools : tools'[t] # tools[t] => tools[t] # Booted
  BY <1>6, SparedMount, SparedUndo, SparedUnmount
<1>7. ASSUME NEW lost \in SUBSET Tools, Remount(lost)
      PROVE  Spared' /\ \A t \in Tools : tools'[t] # tools[t] => tools[t] # Booted
  BY <1>7, SparedRemount
<1>8. CASE Discard \/ StopOld
  BY <1>8, SparedStop
<1>9. CASE StopOwned
  BY <1>9, SparedStopOwned
<1>10. CASE Close \/ (\E s \in Servers : CloseServer(s)) \/ CloseStranded \/ Closed \/ CancelStop
  <2>1. UNCHANGED <<tools, managers, owned, stranded>>
    BY <1>10 DEF Close, CloseServer, CloseStranded, Closed, CancelStop, live
  <2>2. run'.pc \in {"mount", "undo", "unmount", "remount"} => run'.m = Nobody
    <3>1. CASE Close \/ CancelStop
      BY <3>1, NoRunIs DEF Close, CancelStop, Runs
    <3>2. CASE CloseStranded \/ Closed
      <4>. PICK g, h : g = Goes("strays") /\ h = Goes("closed")
        OBVIOUS
      <4>1. g \in Runs /\ g.pc = "strays" /\ h \in Runs /\ h.pc = "closed"
        BY RunGoes DEF Formed, Resting
      <4>2. run' = [g EXCEPT !.strays = stranded] \/ run' = h
        BY <3>2 DEF CloseStranded, Closed
      <4>. QED
        BY <4>1, <4>2 DEF Runs
    <3>3. ASSUME NEW s \in Servers, CloseServer(s) PROVE run'.m = Nobody
      <4>. PICK g : g = Goes("unmount")
        OBVIOUS
      <4>1. run.pc = "close" /\ run' = [g EXCEPT !.servers = g.servers \ {s}, !.server = s, !.old = owned[s]]
        BY <3>3 DEF CloseServer
      <4>2. run.m = Nobody
        BY <4>1 DEF Handled, Closing
      <4>3. g \in Runs /\ g.m = Nobody
        BY <4>2, RunGoes DEF Formed, AtWork
      <4>. QED
        BY <4>1, <4>3 DEF Runs
    <3>. QED
      BY <1>10, <3>1, <3>2, <3>3
  <2>. QED
    BY <2>1, <2>2, SparedQuiet DEF Caps
<1>11. ASSUME NEW x \in stranded, NEW k \in 0 .. Len(x.names), Stray(x, k)
       PROVE  Spared' /\ \A t \in Tools : tools'[t] # tools[t] => tools[t] # Booted
  BY <1>11, SparedStray
<1>12. CASE \/ \E s \in Servers : (\E x \in Specs : AddServer(s, x)) \/ ReloadServer(s) \/ RemoveServer(s)
            \/ Leave \/ Decide \/ (\E i \in DOMAIN waiting : CancelWaiting(i)) \/ UNCHANGED liveVars
  <2>1. UNCHANGED <<live, run>>
    BY <1>12 DEF AddServer, ReloadServer, RemoveServer, Issue, Leave, Decide, CancelWaiting, liveVars
  <2>. QED
    BY <1>1, <2>1
<1>. QED
  BY <1>2, <1>3, <1>4, <1>5, <1>6, <1>7, <1>8, <1>9, <1>10, <1>11, <1>12 DEF LiveNext

LEMMA SparedInit ==
  ASSUME LiveInit
  PROVE  Spared
<1>1. (\A s \in Servers : owned[s] = Nobody) /\ stranded = {} /\ run.m = Nobody
  BY NoRunIs DEF LiveInit
<1>. QED
  BY <1>1 DEF Spared

\* Whatever fails, and also while the program is left, the tools of the servers the
\* session booted with are never unmounted or mounted over (kernel/live_mcp.py:9-14).
THEOREM BootLeft == LiveSpec => [][\A t \in Tools : tools'[t] # tools[t] => tools[t] # Booted]_liveVars
<1>1. LiveInit => Formed /\ Handled /\ Spared
  BY LiveMCPAssumption, HandledInit, SparedInit
<1>2. (Formed /\ Handled /\ Spared) /\ [LiveNext]_liveVars => (Formed /\ Handled /\ Spared)'
  BY LiveMCPAssumption, HandledNext, SparedNext
<1>3. (Formed /\ Handled /\ Spared) /\ [LiveNext]_liveVars
      => [\A t \in Tools : tools'[t] # tools[t] => tools[t] # Booted]_liveVars
  BY LiveMCPAssumption, SparedNext
<1>. QED
  BY <1>1, <1>2, <1>3, PTL DEF LiveSpec

-----------------------------------------------------------------------------
(* Until the program is left, with a failure in a command at most *)

LEMMA AppendIs ==
  ASSUME NEW w \in Seq(Commands), NEW c \in Commands
  PROVE  \A i \in DOMAIN Append(w, c) : (i \in DOMAIN w /\ Append(w, c)[i] = w[i]) \/ Append(w, c)[i] = c
<1>1. DOMAIN w = 1 .. Len(w) /\ Len(w) \in Nat
  BY LenProperties
<1>2. /\ Append(w, c) \in Seq(Commands) /\ Len(Append(w, c)) = Len(w) + 1
      /\ \A i \in 1 .. Len(w) : Append(w, c)[i] = w[i]
      /\ Append(w, c)[Len(w) + 1] = c
  BY AppendProperties
<1>3. DOMAIN Append(w, c) = 1 .. Len(w) + 1
  BY <1>2, LenProperties
<1>. QED
  BY <1>1, <1>2, <1>3

LEMMA WaitingStay ==
  ASSUME Formed, Staying,
         \/ UNCHANGED waiting
         \/ \E s \in Servers, x \in Specs \cup {NoSpec} : \E op \in {"add", "reload", "remove"} : Issue(Command(op, s, x))
         \/ \E ops : Takes(ops)
  PROVE  \A i \in DOMAIN waiting' : waiting'[i].op # "close"
<1>1. waiting \in Seq(Commands) /\ DOMAIN waiting = 1 .. Len(waiting) /\ Len(waiting) \in Nat
      /\ \A i \in 1 .. Len(waiting) : waiting[i].op # "close"
  BY LenProperties DEF Formed, Staying
<1>2. CASE UNCHANGED waiting
  BY <1>1, <1>2
<1>3. ASSUME NEW s \in Servers, NEW x \in Specs \cup {NoSpec}, NEW op \in {"add", "reload", "remove"},
             Issue(Command(op, s, x))
      PROVE  \A i \in DOMAIN waiting' : waiting'[i].op # "close"
  <2>. PICK c : c = Command(op, s, x)
    OBVIOUS
  <2>1. waiting' = Append(waiting, c) /\ c.op # "close" /\ c \in Commands
    BY <1>3 DEF Issue, Command, Commands
  <2>2. \A i \in DOMAIN Append(waiting, c) : (i \in DOMAIN waiting /\ Append(waiting, c)[i] = waiting[i]) \/ Append(waiting, c)[i] = c
    <3>. PICK w : w = waiting
      OBVIOUS
    <3>1. w \in Seq(Commands) /\ c \in Commands
      BY <1>1, <2>1
    <3>2. \A i \in DOMAIN Append(w, c) : (i \in DOMAIN w /\ Append(w, c)[i] = w[i]) \/ Append(w, c)[i] = c
      BY ONLY <3>1, AppendIs
    <3>. QED
      BY <3>2
  <2>. QED
    BY <1>1, <2>1, <2>2
<1>4. ASSUME NEW ops, Takes(ops) PROVE \A i \in DOMAIN waiting' : waiting'[i].op # "close"
  <2>1. waiting' = Tail(waiting) /\ waiting # << >>
    BY <1>4 DEF Takes
  <2>2. /\ Tail(waiting) \in Seq(Commands) /\ Len(Tail(waiting)) = Len(waiting) - 1
        /\ \A i \in 1 .. Len(Tail(waiting)) : Tail(waiting)[i] = waiting[i + 1]
    BY <1>1, <2>1, HeadTailProperties
  <2>3. DOMAIN Tail(waiting) = 1 .. Len(Tail(waiting))
    BY <2>2, LenProperties
  <2>4. \A i \in 1 .. Len(Tail(waiting)) : i + 1 \in 1 .. Len(waiting)
    BY <1>1, <2>2
  <2>. QED
    BY <1>1, <2>1, <2>2, <2>3, <2>4
<1>. QED
  BY <1>2, <1>3, <1>4

LEMMA ManagersThen ==
  ASSUME Formed'
  PROVE  /\ Nobody \notin Managers' /\ Booted \notin Managers' /\ Nobody # Booted
         /\ \A m \in Managers' : ToSet(managers'[m].caps) \subseteq Tools /\ managers'[m].server \in Servers
<1>1. Managers' = 1 .. Len(managers') /\ Len(managers') \in Nat /\ \A m \in Managers' : managers'[m] \in Made
  BY LenProperties, ElementOfSeq DEF Formed, Managers
<1>2. \A m \in Managers' : managers'[m].server \in Servers /\ managers'[m].caps \in Seq(Tools)
  BY <1>1 DEF Made
<1>3. ASSUME NEW c \in Seq(Tools) PROVE ToSet(c) \subseteq Tools
  <2>1. 0 \in 0 .. Len(c)
    BY LenProperties
  <2>. QED
    BY <2>1, PrefixNames
<1>. QED
  BY <1>1, <1>2, <1>3 DEF Nobody, Booted

\* A server that is owned is whole, and one that is not is gone, when the command has ended.
LEMMA WholeIs ==
  ASSUME Formed', Handled', Standing', run'.pc = "idle", NEW s \in Servers, owned'[s] # Nobody
  PROVE  Whole(s)'
<1>1. owned'[s] \in Managers' /\ managers'[owned'[s]].up
  BY DEF Handled, Ranged, Standing
<1>2. \A t \in ToSet(managers'[owned'[s]].caps) : tools'[t] = owned'[s]
  BY DEF Standing, Exposed, Caps
<1>3. \A t \in Tools : tools'[t] = owned'[s] => t \in ToSet(managers'[owned'[s]].caps)
  BY <1>1 DEF Handled, Matched, Caps
<1>4. ToSet(managers'[owned'[s]].caps) \subseteq Tools
  BY <1>1, ManagersThen
<1>5. {t \in Tools : tools'[t] = owned'[s]} = ToSet(managers'[owned'[s]].caps)
  BY <1>2, <1>3, <1>4
<1>. QED
  BY <1>1, <1>5 DEF Whole, Caps

LEMMA GoneIs ==
  ASSUME LiveMCPAssumption, Formed', Handled', Standing', cut' = {}, run'.pc = "idle", NEW s \in Servers,
         owned'[s] = Nobody, \A t \in Tools : tools'[t] = Booted => BootOwner[t] # s
  PROVE  Gone(s)'
<1>1. ASSUME NEW t \in Tools, ServerOf(t)' = s PROVE FALSE
  <2>1. tools'[t] \in Managers' \cup {Nobody, Booted}
    BY DEF Handled, Ranged
  <2>2. CASE tools'[t] = Nobody
    BY <1>1, <2>2 DEF ServerOf, LiveMCPAssumption
  <2>3. CASE tools'[t] = Booted
    BY <1>1, <2>3, ManagersThen DEF ServerOf
  <2>4. CASE tools'[t] \in Managers'
    <3>1. managers'[tools'[t]].server = s /\ tools'[t] # Nobody
      BY <1>1, <2>4, ManagersThen DEF ServerOf
    <3>2. Mounted(t)'
      BY <2>4 DEF Handled, Accounted
    <3>3. \A x \in stranded' : t \notin ToSet(x.names)
      <4>1. ToSet(<< >>) = {}
        BY EmptySeq, LenProperties DEF ToSet
      <4>. QED
        BY <4>1 DEF Standing
    <3>. QED
      BY <3>1, <3>2, <3>3 DEF Mounted, OwnedManager
  <2>. QED
    BY <2>1, <2>2, <2>3, <2>4
<1>2. ASSUME NEW m \in Managers', managers'[m].up, managers'[m].server = s PROVE m \in Strays'
  <2>1. Connected(m)' /\ m # Nobody
    BY <1>2, ManagersThen DEF Handled, Accounted
  <2>. QED
    BY <1>2, <2>1 DEF Connected, OwnedManager, AtWork
<1>. QED
  BY <1>1, <1>2 DEF Gone, Visible, Running

LEMMA ReportIs ==
  ASSUME LiveMCPAssumption, Formed', Handled', Standing', cut' = {}, run'.pc = "idle", NEW s \in Servers,
         report'.server = s, report'.connected = "yes" => owned'[s] # Nobody,
         report'.connected = "no" => owned'[s] = Nobody /\ \A t \in Tools : tools'[t] = Booted => BootOwner[t] # s
  PROVE  ReportTrue'
<1>1. report'.connected = "yes" => Whole(s)'
  BY WholeIs
<1>2. report'.connected = "no" => Gone(s)'
  BY GoneIs
<1>3. Whole(report.server)' <=> Whole(s)'
  BY DEF Whole, Caps, Visible, ServerOf
<1>4. Gone(report.server)' <=> Gone(s)'
  BY DEF Gone, Visible, ServerOf
<1>. QED
  BY <1>1, <1>2, <1>3, <1>4 DEF ReportTrue

LEMMA ReportLater ==
  ASSUME run'.pc # "idle"
  PROVE  ReportTrue'
BY NoRunIs DEF ReportTrue, Free

LEMMA StandingKept ==
  ASSUME Formed, Handled, Standing, UNCHANGED <<tools, owned>>,
         \A x \in stranded' : x \in stranded \/ x.names = << >>,
         \A s \in Servers : owned[s] # Nobody =>
           Caps(owned[s])' = Caps(owned[s]) /\ managers'[owned[s]].up /\ (Exposed(s) => Exposed(s)')
  PROVE  Standing'
<1>1. \A x \in stranded' : x.names = << >>
  BY DEF Standing
<1>2. ASSUME NEW s \in Servers, owned'[s] # Nobody
      PROVE  /\ managers'[owned'[s]].up
             /\ \A t \in Tools : tools'[t] = Booted => BootOwner[t] # s
             /\ ~Exposed(s)' => \A t \in ToSet(Caps(owned[s])') : tools'[t] = owned'[s]
  BY <1>2 DEF Standing
<1>. QED
  BY <1>1, <1>2 DEF Standing

LEMMA SoundQuiet ==
  ASSUME Formed, Handled, Sound, UNCHANGED <<live, run, report, leaving, cut>>,
         \A i \in DOMAIN waiting' : waiting'[i].op # "close"
  PROVE  Sound'
<1>1. UNCHANGED <<tools, managers, owned, stranded, run, report, leaving, cut>>
  BY DEF live
<1>2. cut' = {} /\ Staying' /\ Standing' /\ Replacing' /\ Placing' /\ Telling'
  BY <1>1 DEF Sound, Staying, Standing, Replacing, Placing, Telling, Exposed, Caps
<1>3. ReportTrue'
  BY <1>1 DEF Sound, ReportTrue, Whole, Gone, Visible, ServerOf, Running, Strays, Managers, Caps, Free
<1>. QED
  BY <1>2, <1>3 DEF Sound

LEMMA SoundDecide ==
  ASSUME LiveMCPAssumption, Formed, Handled, Formed', Handled', Sound, Decide
  PROVE  Sound'
<1>1. UNCHANGED <<tools, managers, owned, stranded, run, leaving, cut>> /\ report' = Verdict(First) /\ run = NoRun
      /\ First.op \in {"add", "reload", "remove"} /\ First \in Commands
  BY FirstIs DEF Decide, live, Takes, Free
<1>2. \A i \in DOMAIN waiting' : waiting'[i].op # "close"
  BY WaitingStay DEF Decide, Sound
<1>3. cut' = {} /\ Staying' /\ Standing' /\ Replacing' /\ Placing' /\ Telling'
  BY <1>1, <1>2 DEF Sound, Staying, Standing, Replacing, Placing, Telling, Exposed, Caps
<1>4. run'.pc = "idle" /\ run' = NoRun
  BY <1>1, NoRunIs
<1>. PICK s \in Servers : s = First.server
  BY <1>1, CommandIs
<1>5. ReportTrue'
  <2>1. CASE owned[s] = Nobody /\ Visible(s) # {}
    <3>1. report'.server = s /\ report'.connected = "yes"
      BY <1>1, <2>1 DEF Verdict, Removal, Insertion, Said, Decide
    <3>2. Whole(s)'
      BY <1>1, <2>1 DEF Whole, Visible, ServerOf
    <3>3. Whole(report.server)' <=> Whole(s)'
      BY <3>1 DEF Whole, Caps, Visible, ServerOf
    <3>. QED
      BY <3>1, <3>2, <3>3 DEF ReportTrue
  <2>2. CASE owned[s] = Nobody /\ Visible(s) = {}
    <3>1. report'.server = s /\ report'.connected \in {"no", "unknown"}
      BY <1>1, <2>2 DEF Verdict, Removal, Insertion, Said, Decide
    <3>2. \A t \in Tools : tools'[t] = Booted => BootOwner[t] # s
      BY <1>1, <2>2 DEF Visible, ServerOf, Nobody, Booted
    <3>. QED
      BY <1>1, <1>3, <1>4, <2>2, <3>1, <3>2, ReportIs
  <2>3. CASE owned[s] # Nobody
    <3>1. report'.server = s /\ report'.connected = "yes"
      BY <1>1, <2>3 DEF Verdict, Said, Decide
    <3>. QED
      BY <1>1, <1>3, <1>4, <2>3, <3>1, ReportIs
  <2>. QED
    BY <2>1, <2>2, <2>3
<1>. QED
  BY <1>3, <1>5 DEF Sound

LEMMA SoundDisconnect ==
  ASSUME Formed, Handled, Formed', Handled', Sound, Disconnect
  PROVE  Sound'
<1>1. /\ UNCHANGED <<tools, managers, owned, stranded, cut>> /\ run = NoRun /\ run.pc = "idle"
      /\ First.server \in Servers /\ owned[First.server] # Nobody
      /\ run'.pc = "unmount" /\ run'.op = "remove" /\ run'.server = First.server /\ run'.m = Nobody
      /\ run'.old = owned[First.server] /\ run'.clean = TRUE
  BY DisconnectIs, NoRunIs
<1>2. cut' = {} /\ Staying'
  <2>1. \A i \in DOMAIN waiting' : waiting'[i].op # "close"
    BY WaitingStay DEF Disconnect, Sound
  <2>. QED
    BY <1>1, <2>1 DEF Sound, Staying
<1>3. Standing'
  BY <1>1, StandingKept DEF Sound, Standing, Exposed, Caps
<1>4. Replacing'
  BY <1>1 DEF Sound, Standing, Exposed, Replacing, Caps
<1>5. Placing'
  BY <1>1 DEF Sound, Standing, Placing
<1>6. Telling'
  BY <1>1 DEF Telling
<1>. QED
  BY <1>1, <1>2, <1>3, <1>4, <1>5, <1>6, ReportLater DEF Sound

LEMMA SoundConnect ==
  ASSUME LiveMCPAssumption, Formed, Handled, Formed', Handled', Sound, Connect
  PROVE  Sound'
<1>. PICK n : n = Len(managers')
  OBVIOUS
<1>1. /\ UNCHANGED <<tools, owned, stranded, cut>> /\ run = NoRun /\ run.pc = "idle"
      /\ First.server \in Servers /\ First.op \in {"add", "reload"} /\ managers'[n].up = TRUE
      /\ \A m \in Managers : managers'[m] = managers[m]
      /\ run'.pc = "discover" /\ run'.op = First.op /\ run'.server = First.server /\ run'.m = n
      /\ run'.old = owned[First.server]
  BY ConnectIs, NoRunIs
<1>2. cut' = {} /\ Staying'
  <2>1. \A i \in DOMAIN waiting' : waiting'[i].op # "close"
    BY WaitingStay DEF Connect, Sound
  <2>. QED
    BY <1>1, <2>1 DEF Sound, Staying
<1>3. Standing'
  <2>1. \A s \in Servers : owned[s] # Nobody => owned[s] \in Managers
    BY DEF Handled, Ranged
  <2>. QED
    BY <1>1, <2>1, StandingKept DEF Sound, Standing, Exposed, Caps
<1>4. Replacing'
  BY <1>1 DEF Replacing
<1>5. Placing'
  <2>1. \A t \in Tools : tools[t] = Booted => BootOwner[t] # First.server
    <3>1. CASE owned[First.server] = Nobody
      <4>1. Visible(First.server) = {}
        BY <1>1, <3>1 DEF Connect, Verdict, Insertion, Said, NoReport
      <4>. QED
        BY <4>1 DEF Visible, ServerOf, Nobody, Booted
    <3>2. CASE owned[First.server] # Nobody
      BY <1>1, <3>2 DEF Sound, Standing
    <3>. QED
      BY <3>1, <3>2
  <2>. QED
    BY <1>1, <2>1 DEF Placing
<1>6. Telling'
  BY <1>1 DEF Telling
<1>. QED
  BY <1>1, <1>2, <1>3, <1>4, <1>5, <1>6, ReportLater DEF Sound

LEMMA SoundDiscovered ==
  ASSUME LiveMCPAssumption, Formed, Handled, Formed', Handled', Sound, NEW o \in Offers, Discovered(o)
  PROVE  Sound'
<1>. PICK m : m = run.m
  OBVIOUS
<1>1. /\ run.pc = "discover" /\ m \in Managers /\ m # run.old /\ managers[m].server = run.server
      /\ UNCHANGED <<tools, owned, stranded, waiting, cut>>
      /\ \A n \in Managers : managers'[n].up = managers[n].up /\ (n # m => Caps(n)' = Caps(n))
      /\ run'.op = run.op /\ run'.server = run.server /\ run'.m = m /\ run'.old = run.old /\ run'.clean = run.clean /\ run.clean
      /\ run'.pc \in {"discard", "mount", "unmount"}
      /\ run'.pc = "mount" => run.old = Nobody
      /\ run'.pc = "unmount" => run.old # Nobody
  BY DiscoveredIs
<1>2. run.old = owned[run.server] /\ run.server \in Servers /\ run.op # "none" /\ m # Nobody
  BY <1>1, ManagersAre DEF Handled, Handling, AtWork
<1>3. \A s \in Servers : owned[s] # Nobody => owned[s] \in Managers /\ owned[s] # m
  BY <1>1, <1>2 DEF Handled, Ranged, Matched
<1>4. managers'[m].caps = o
  BY <1>1, ManagersAre DEF Discovered, Formed, Made
<1>5. /\ run'.pc \in {"mount", "unmount"} => Collides(o) = {}
      /\ run'.pc = "discard" => run'.say = Said(run, Was, FALSE)
  <2>. PICK g, h, i : g = Goes("discard") /\ h = Goes("mount") /\ i = Goes("unmount")
    OBVIOUS
  <2>. PICK r : r = Said(run, Was, FALSE)
    OBVIOUS
  <2>1. g \in Runs /\ g.pc = "discard" /\ h.pc = "mount" /\ i.pc = "unmount"
    BY RunGoes DEF Formed, AtWork
  <2>2. \/ Collides(o) # {} /\ run' = [g EXCEPT !.say = r]
        \/ Collides(o) = {} /\ run' \in {h, i}
    BY DEF Discovered
  <2>. QED
    BY <2>1, <2>2 DEF Runs
<1>6. cut' = {} /\ Staying'
  BY <1>1 DEF Sound, Staying
<1>7. Standing'
  <2>1. \A s \in Servers : owned[s] # Nobody => Caps(owned[s])' = Caps(owned[s]) /\ managers'[owned[s]].up
    BY <1>1, <1>3 DEF Sound, Standing, Caps
  <2>2. \A s \in Servers : ~Exposed(s)
    BY <1>1 DEF Exposed
  <2>. QED
    BY <1>1, <2>1, <2>2, StandingKept DEF Sound
<1>8. Replacing'
  <2>1. run'.pc = "unmount" => \A t \in ToSet(Caps(run.old)) : tools[t] = run.old
    BY <1>1, <1>2 DEF Sound, Standing, Exposed
  <2>2. run.old # Nobody => Caps(run.old)' = Caps(run.old)
    BY <1>1, <1>2, <1>3 DEF Caps
  <2>. QED
    BY <1>1, <2>1, <2>2 DEF Replacing, Caps
<1>9. Placing'
  <2>1. \A t \in Tools : tools[t] = Booted => BootOwner[t] # run.server
    BY <1>1 DEF Sound, Placing, AtWork
  <2>2. managers'[m].up
    BY <1>1, <1>2 DEF Sound, Placing
  <2>3. run'.pc = "unmount" => \A t \in ToSet(o) \ ToSet(Caps(run.old)) : tools[t] = Nobody
    BY <1>5 DEF Collides
  <2>4. run'.pc = "mount" => \A t \in ToSet(o) : tools[t] = Nobody
    BY <1>1, <1>5 DEF Collides
  <2>5. run.old # Nobody => Caps(run.old)' = Caps(run.old)
    BY <1>1, <1>2, <1>3 DEF Caps
  <2>. QED
    BY <1>1, <1>4, <2>1, <2>2, <2>3, <2>4, <2>5 DEF Placing, Caps
<1>10. Telling'
  <2>1. Said(run, Was, FALSE).server = run.server /\ Said(run, Was, FALSE).connected = Was /\ Said(run, Was, FALSE) # NoReport
    BY DEF Said, NoReport
  <2>2. run'.pc = "discard" => run'.say # NoReport /\ run'.say.server = run.server /\ run'.say.connected = Was
    BY <1>5, <2>1
  <2>. QED
    BY <1>1, <2>2 DEF Telling, Was
<1>11. ReportTrue'
  BY <1>1, ReportLater
<1>. QED
  BY <1>6, <1>7, <1>8, <1>9, <1>10, <1>11 DEF Sound

LEMMA SoundUndiscovered ==
  ASSUME Formed, Handled, Formed', Handled', Sound, Undiscovered
  PROVE  Sound'
<1>1. /\ run.pc = "discover" /\ UNCHANGED <<tools, managers, owned, stranded, waiting, cut>>
      /\ run.old = owned[run.server] /\ run.server \in Servers
  BY DEF Undiscovered, live, Handled, Handling, AtWork
<1>2. /\ run'.pc = "discard" /\ run'.op = run.op /\ run'.server = run.server /\ run'.m = run.m
      /\ run'.old = run.old /\ run'.say # NoReport /\ run'.say.server = run.server /\ run'.say.connected = Was
  <2>. PICK g : g = Fails("discard")
    OBVIOUS
  <2>. PICK r : r = Said(run, Was, FALSE)
    OBVIOUS
  <2>1. run' = [g EXCEPT !.say = r] /\ r.server = run.server /\ r.connected = Was /\ r # NoReport
    BY DEF Undiscovered, Said, NoReport
  <2>2. /\ g \in Runs /\ g.pc = "discard" /\ g.op = run.op /\ g.server = run.server /\ g.m = run.m
        /\ g.old = run.old
    BY RunFails DEF Formed, AtWork
  <2>. QED
    BY <2>1, <2>2 DEF Runs
<1>3. cut' = {} /\ Staying'
  BY <1>1, <1>2 DEF Sound, Staying
<1>4. Standing'
  BY <1>1, <1>2, StandingKept DEF Sound, Standing, Exposed, Caps
<1>5. Replacing' /\ Placing'
  BY <1>1, <1>2 DEF Sound, Replacing, Placing, AtWork
<1>6. Telling'
  BY <1>2 DEF Telling, Was
<1>7. ReportTrue'
  BY <1>2, ReportLater
<1>. QED
  BY <1>3, <1>4, <1>5, <1>6, <1>7 DEF Sound

LEMMA SoundMountFails ==
  ASSUME Formed, Handled, Formed', Handled', Sound, MaxFailures \in Nat, MaxFailures <= 1,
         NEW k \in 0 .. Cardinality(Tools), Mount(k), k < Len(Caps(run.m))
  PROVE  Sound'
<1>. PICK m : m = run.m
  OBVIOUS
<1>. PICK P : P = Prefix(Caps(m), k)
  OBVIOUS
<1>1. run.pc = "mount" /\ run.pc \in AtWork /\ m \in Managers /\ m # run.old /\ managers[m].server = run.server /\ run.clean
  BY MountFailsIs
<1>2. UNCHANGED <<managers, owned, stranded, waiting, cut>> /\ P \subseteq ToSet(Caps(m))
  BY MountFailsIs
<1>3. \A t \in Tools : tools'[t] = IF t \in P THEN m ELSE tools[t]
  BY MountFailsIs
<1>4. /\ run'.op = run.op /\ run'.server = run.server /\ run'.m = m /\ run'.old = run.old /\ run'.clean = run.clean
      /\ run'.pc = "undo" /\ ToSet(run'.names) = P
  BY MountFailsIs
<1>5. /\ run.old = owned[run.server] /\ run.server \in Servers /\ m # Nobody /\ m # Booted
      /\ ToSet(Caps(m)) \subseteq Tools
  BY <1>1, ManagersAre, NamesAre DEF Handled, Handling, AtWork
<1>6. \A t \in P : t \in Tools /\ tools[t] = Nobody
  BY <1>1, <1>2, <1>5 DEF Sound, Placing
<1>7. run'.faults = 1
  <2>. PICK g : g = Fails("undo")
    OBVIOUS
  <2>. PICK n : n = SubSeq(Caps(m), 1, k)
    OBVIOUS
  <2>1. run' = [g EXCEPT !.names = n] /\ run.faults + 1 <= MaxFailures
    BY DEF Mount, Failing
  <2>2. g \in Runs /\ g.faults = run.faults + 1 /\ run.faults \in Nat
    BY RunFails DEF Formed, AtWork, Runs
  <2>. QED
    BY <2>1, <2>2 DEF Runs
<1>8. cut' = {} /\ Staying'
  BY <1>2, <1>4 DEF Sound, Staying
<1>9. Standing'
  <2>1. ASSUME NEW s \in Servers, owned[s] # Nobody, s # run.server
        PROVE  \A t \in ToSet(Caps(owned[s])) : tools'[t] = owned[s]
    <3>1. \A t \in ToSet(Caps(owned[s])) : tools[t] = owned[s] /\ t \in Tools
      BY <2>1, NamesAre DEF Sound, Standing, Exposed, Handled, Ranged
    <3>. QED
      BY <1>3, <1>6, <2>1, <3>1
  <2>2. \A t \in Tools : tools'[t] = Booted => tools[t] = Booted
    BY <1>3, <1>5
  <2>3. Exposed(run.server)'
    BY <1>4 DEF Exposed
  <2>4. \A s \in Servers : ~Exposed(s)' => s # run.server
    BY <1>4 DEF Exposed
  <2>. QED
    BY <1>2, <2>1, <2>2, <2>4 DEF Sound, Standing, Caps
<1>10. Replacing'
  <2>1. run.old # Nobody => \A t \in ToSet(Caps(run.old)) : tools[t] = Nobody /\ t \in Tools
    BY <1>1, NamesAre DEF Sound, Replacing, Handled, Ranged
  <2>. QED
    BY <1>2, <1>3, <1>4, <2>1 DEF Replacing, Caps
<1>11. Placing'
  <2>1. \A t \in Tools : tools'[t] = Booted => BootOwner[t] # run.server
    BY <1>1, <1>3, <1>5 DEF Sound, Placing
  <2>2. \A t \in P : tools'[t] = m
    BY <1>3, <1>6
  <2>. QED
    BY <1>4, <2>1, <2>2 DEF Placing
<1>12. Telling'
  BY <1>1, <1>4, <1>7 DEF Telling
<1>13. ReportTrue'
  BY <1>4, ReportLater
<1>. QED
  BY <1>8, <1>9, <1>10, <1>11, <1>12, <1>13 DEF Sound

\* A command that ends: what it says is what is kept of it.
LEMMA EndsSound ==
  ASSUME LiveMCPAssumption, Formed, Handled, Formed', Handled', Sound, run.op # "close", run.server \in Servers,
         NEW r, Answer(r), r # NoReport, r.server = run.server,
         r.connected = "yes" => owned'[run.server] # Nobody,
         r.connected = "no" => owned'[run.server] = Nobody /\ \A t \in Tools : tools'[t] = Booted => BootOwner[t] # run.server,
         UNCHANGED waiting, UNCHANGED cut, Standing'
  PROVE  Sound'
<1>1. run'.pc = "idle" /\ run'.op = "none" /\ report' = r
  BY AnswerIs DEF Formed, Handled
<1>2. cut' = {} /\ Staying'
  BY <1>1 DEF Sound, Staying
<1>3. Replacing' /\ Placing' /\ Telling'
  BY <1>1 DEF Replacing, Placing, Telling, AtWork
<1>4. ReportTrue'
  BY <1>1, <1>2, ReportIs
<1>. QED
  BY <1>2, <1>3, <1>4 DEF Sound

LEMMA SoundMountEnds ==
  ASSUME LiveMCPAssumption, Formed, Handled, Formed', Handled', Sound,
         NEW k \in 0 .. Cardinality(Tools), Mount(k), ~(k < Len(Caps(run.m)))
  PROVE  Sound'
<1>. PICK m : m = run.m
  OBVIOUS
<1>. PICK P : P = Prefix(Caps(m), k)
  OBVIOUS
<1>1. /\ run.pc = "mount" /\ run.pc \in AtWork /\ k \in 0 .. Len(Caps(m)) /\ m \in Managers /\ m # Nobody
      /\ m # run.old /\ managers[m].server = run.server /\ run.clean /\ Caps(m) \in Seq(Tools)
  BY MountEndsIs
<1>2. UNCHANGED <<managers, stranded, waiting, cut>> /\ run.server \in Servers /\ run.old = owned[run.server]
  BY MountEndsIs
<1>3. \A t \in Tools : tools'[t] = IF t \in P THEN m ELSE tools[t]
  BY MountEndsIs
<1>4. \A s \in Servers : owned'[s] = IF s = run.server THEN m ELSE owned[s]
  BY MountEndsIs
<1>5. P = ToSet(Caps(m)) /\ P \subseteq Tools /\ m # Booted
  BY <1>1, PrefixNames, LenProperties, ManagersAre, NamesAre
<1>6. \A t \in P : tools[t] = Nobody
  BY <1>1, <1>5 DEF Sound, Placing
<1>7. ASSUME run'.pc \in {"idle", "stopold"} PROVE Standing'
  <2>1. ASSUME NEW s \in Servers, owned[s] # Nobody, s # run.server
        PROVE  \A t \in ToSet(Caps(owned[s])) : tools'[t] = owned[s]
    <3>1. \A t \in ToSet(Caps(owned[s])) : tools[t] = owned[s] /\ t \in Tools
      BY <2>1, NamesAre DEF Sound, Standing, Exposed, Handled, Ranged
    <3>. QED
      BY <1>3, <1>6, <2>1, <3>1
  <2>2. \A t \in ToSet(Caps(m)) : tools'[t] = m
    BY <1>3, <1>5
  <2>3. \A t \in Tools : tools'[t] = Booted => tools[t] = Booted
    BY <1>3, <1>5
  <2>4. managers[m].up /\ \A t \in Tools : tools[t] = Booted => BootOwner[t] # run.server
    BY <1>1 DEF Sound, Placing
  <2>5. \A x \in stranded' : x.names = << >>
    BY <1>2 DEF Sound, Standing
  <2>6. ASSUME NEW s \in Servers, owned'[s] # Nobody
        PROVE  /\ managers'[owned'[s]].up
               /\ \A t \in Tools : tools'[t] = Booted => BootOwner[t] # s
               /\ \A t \in ToSet(managers'[owned'[s]].caps) : tools'[t] = owned'[s]
    <3>1. CASE s = run.server
      BY <1>2, <1>4, <2>2, <2>3, <2>4, <3>1 DEF Caps
    <3>2. CASE s # run.server
      BY <1>2, <1>4, <2>1, <2>3, <2>6, <3>2 DEF Sound, Standing, Caps
    <3>. QED
      BY <3>1, <3>2
  <2>. QED
    BY <2>5, <2>6 DEF Standing, Caps
<1>8. CASE run.old = Nobody
  <2>. PICK r : r = Said(run, "yes", TRUE)
    OBVIOUS
  <2>1. Answer(r) /\ r # NoReport /\ r.server = run.server /\ r.connected = "yes"
    BY <1>8 DEF Mount, Said, NoReport
  <2>2. run.op # "close"
    BY DEF Sound, Staying
  <2>3. run'.pc = "idle"
    BY <2>1, <2>2, AnswerIs DEF Formed, Handled
  <2>4. Standing'
    BY <1>7, <2>3
  <2>5. owned'[run.server] # Nobody
    BY <1>1, <1>2, <1>4
  <2>. QED
    BY <1>2, <2>1, <2>2, <2>4, <2>5, EndsSound
<1>9. CASE run.old # Nobody
  <2>1. run'.op = run.op /\ run'.pc = "stopold"
    BY <1>9, RunGoes DEF Mount, Formed, AtWork
  <2>2. run'.server = run.server
    BY <1>9, <2>1, RunGoes DEF Mount, Formed, AtWork
  <2>3. cut' = {} /\ Staying'
    BY <1>2, <2>1 DEF Sound, Staying
  <2>4. Replacing' /\ Telling'
    <3>1. run'.old = run.old /\ managers[run.old].server = run.server
      <4>1. run'.old = run.old
        BY <1>9, RunGoes DEF Mount, Formed, AtWork
      <4>2. managers[run.old].server = run.server
        BY <1>1, <1>9, AtHand
      <4>. QED
        BY <4>1, <4>2
    <3>. QED
      BY <1>2, <2>1, <2>2, <3>1 DEF Replacing, Telling
  <2>5. Placing'
    BY <1>1, <1>3, <1>5, <2>1, <2>2 DEF Sound, Placing
  <2>6. ReportTrue'
    BY <2>1, ReportLater
  <2>. QED
    BY <1>7, <2>1, <2>3, <2>4, <2>5, <2>6 DEF Sound
<1>. QED
  BY <1>8, <1>9

LEMMA SoundUndo ==
  ASSUME LiveMCPAssumption, Formed, Handled, Formed', Handled', Sound, MaxFailures \in Nat, MaxFailures <= 1,
         NEW k \in 0 .. Cardinality(Tools), UndoMounts(k)
  PROVE  Sound'
<1>. PICK m : m = run.m
  OBVIOUS
<1>. PICK n : n = run.names
  OBVIOUS
<1>. PICK P : P = Prefix(Reverse(n), k)
  OBVIOUS
<1>1. run.pc = "undo" /\ run.pc \in AtWork /\ UNCHANGED <<managers, owned, waiting, cut>> /\ k \in 0 .. Len(n) /\ n \in Seq(Tools)
  BY AtHand DEF UndoMounts, AtWork, Runs
<1>2. /\ m \in Managers /\ m # Nobody /\ m # Booted /\ m # run.old /\ managers[m].server = run.server /\ run.clean
      /\ run.server \in Servers /\ run.old = owned[run.server] /\ run.faults = 1
  BY <1>1, AtHand, ManagersAre DEF Handled, Making, Sound, Telling
<1>3. k = Len(n)
  BY <1>1, <1>2 DEF UndoMounts, Failing
<1>4. P = ToSet(n) /\ P \subseteq Tools
  BY <1>1, <1>3, UnmountedNames
<1>5. \A t \in Tools : tools'[t] = IF t \in P THEN Nobody ELSE tools[t]
  BY PutIs DEF UndoMounts, Formed, Nobody
<1>6. UNCHANGED stranded
  BY <1>3 DEF UndoMounts
<1>7. \A t \in P : tools[t] = m
  BY <1>1, <1>4 DEF Sound, Placing
<1>. PICK M : M = {t \in ToSet(Caps(run.old)) : tools'[t] = Nobody}
  OBVIOUS
<1>8. /\ run'.op = run.op /\ run'.server = run.server /\ run'.m = m /\ run'.old = run.old /\ run'.clean = run.clean
      /\ run'.faults = run.faults
      /\ \/ run.old # Nobody /\ run'.pc = "remount" /\ run'.missing = M
         \/ run.old = Nobody /\ run'.pc = "discard" /\ run'.say # NoReport /\ run'.say.server = run.server /\ run'.say.connected = "no"
  <2>. PICK r : r = Said(run, "no", FALSE)
    OBVIOUS
  <2>1. r.server = run.server /\ r.connected = "no" /\ r # NoReport
    BY DEF Said, NoReport
  <2>2. \/ run.old # Nobody /\ run' = [run EXCEPT !.pc = "remount", !.missing = M]
        \/ run.old = Nobody /\ run' = [run EXCEPT !.pc = "discard", !.say = r]
    BY <1>3 DEF UndoMounts
  <2>. QED
    BY <2>1, <2>2 DEF Formed, Runs
<1>9. cut' = {} /\ Staying'
  BY <1>1, <1>8 DEF Sound, Staying
<1>10. Standing'
  <2>1. ASSUME NEW s \in Servers, owned[s] # Nobody, s # run.server
        PROVE  \A t \in ToSet(Caps(owned[s])) : tools'[t] = owned[s]
    <3>1. \A t \in ToSet(Caps(owned[s])) : tools[t] = owned[s] /\ t \in Tools
      BY <2>1, NamesAre DEF Sound, Standing, Exposed, Handled, Ranged
    <3>2. owned[s] # m
      BY <1>2, <2>1 DEF Handled, Matched
    <3>. QED
      BY <1>5, <1>7, <3>1, <3>2
  <2>2. \A t \in Tools : tools'[t] = Booted => tools[t] = Booted
    BY <1>5 DEF Nobody, Booted
  <2>3. \A s \in Servers : owned[s] # Nobody /\ ~Exposed(s)' => s # run.server
    BY <1>2, <1>8 DEF Exposed
  <2>. QED
    BY <1>1, <1>6, <2>1, <2>2, <2>3 DEF Sound, Standing, Caps
<1>11. Replacing'
  <2>1. ASSUME run.old # Nobody, NEW t \in ToSet(Caps(run.old)), tools'[t] # Nobody PROVE FALSE
    <3>1. t \in Tools /\ tools[t] \in {Nobody, m}
      BY <1>1, <1>2, <2>1, NamesAre DEF Handled, Ranged, Sound, Replacing
    <3>2. tools[t] = m /\ t \notin P
      BY <1>5, <2>1, <3>1
    <3>3. Mounted(t) /\ ~OwnedManager(m)
      BY <1>2, <3>1, <3>2 DEF Handled, Accounted, OwnedManager
    <3>4. \A x \in stranded : t \notin ToSet(x.names)
      BY NamesAre DEF Sound, Standing
    <3>. QED
      BY <1>4, <3>2, <3>3, <3>4 DEF Mounted
  <2>2. run.old # Nobody => \A t \in ToSet(Caps(run.old)) : t \in M
    BY <2>1
  <2>. QED
    BY <1>1, <1>8, <2>2 DEF Replacing, Caps
<1>12. Placing'
  <2>1. \A t \in Tools : tools'[t] = Booted => BootOwner[t] # run.server
    BY <1>1, <1>5 DEF Sound, Placing, Nobody, Booted
  <2>. QED
    BY <1>8, <2>1 DEF Placing
<1>13. Telling'
  BY <1>2, <1>8 DEF Telling
<1>14. ReportTrue'
  BY <1>8, ReportLater
<1>. QED
  BY <1>9, <1>10, <1>11, <1>12, <1>13, <1>14 DEF Sound

LEMMA SoundUnmount ==
  ASSUME Formed, Handled, Formed', Handled', Sound, MaxFailures \in Nat, MaxFailures <= 1,
         NEW k \in 0 .. Cardinality(Tools), Unmount(k)
  PROVE  Sound'
<1>. PICK m : m = run.m
  OBVIOUS
<1>. PICK old : old = run.old
  OBVIOUS
<1>. PICK P : P = Prefix(Reverse(Caps(old)), k)
  OBVIOUS
<1>1. /\ run.pc = "unmount" /\ old \in Managers /\ old # Nobody /\ Caps(old) \in Seq(Tools)
      /\ m # Nobody => m \in Managers /\ m # old /\ managers[m].server = run.server
      /\ UNCHANGED <<managers, owned, stranded, waiting, cut>>
  BY UnmountIs
<1>2. P \subseteq ToSet(Caps(old)) /\ P \subseteq Tools
  BY UnmountIs
<1>3. \A t \in Tools : tools'[t] = IF t \in P THEN Nobody ELSE tools[t]
  BY UnmountIs
<1>4. /\ run'.op = run.op /\ run'.server = run.server /\ run'.m = m /\ run'.old = old /\ run'.clean = run.clean
      /\ \/ run'.pc = "stopowned" /\ m = Nobody /\ P = ToSet(Caps(old))
         \/ run'.pc = "mount" /\ m # Nobody /\ P = ToSet(Caps(old))
         \/ run'.pc = "remount" /\ run'.missing = P
  BY UnmountIs
<1>5. old = owned[run.server] /\ run.server \in Servers /\ Nobody # Booted
  BY <1>1, ManagersAre DEF Handled, Handling, AtWork
<1>6. (\A t \in ToSet(Caps(old)) : tools[t] = old /\ t \in Tools) /\ run.clean
  BY <1>1, NamesAre DEF Sound, Replacing, Telling
<1>7. run'.pc = "remount" => run'.faults = 1
  <2>1. CASE k = Len(Reverse(Caps(old)))
    <3>1. run' = Goes(IF run.m = Nobody THEN "stopowned" ELSE "mount")
      BY <2>1 DEF Unmount
    <3>2. CASE run.m = Nobody
      BY <3>1, <3>2, RunGoes DEF Formed, AtWork
    <3>3. CASE run.m # Nobody
      BY <3>1, <3>3, RunGoes DEF Formed, AtWork
    <3>. QED
      BY <3>2, <3>3
  <2>2. CASE k # Len(Reverse(Caps(old)))
    <3>. PICK g : g = Fails("remount")
      OBVIOUS
    <3>1. run' = [g EXCEPT !.missing = P] /\ run.faults + 1 <= MaxFailures
      BY <2>2 DEF Unmount, Failing
    <3>2. g \in Runs /\ g.faults = run.faults + 1 /\ run.faults \in Nat
      BY RunFails DEF Formed, AtWork, Runs
    <3>. QED
      BY <3>1, <3>2 DEF Runs
  <2>. QED
    BY <2>1, <2>2
<1>8. cut' = {} /\ Staying'
  BY <1>1, <1>4 DEF Sound, Staying
<1>9. Standing'
  <2>1. ASSUME NEW s \in Servers, owned[s] # Nobody, s # run.server
        PROVE  \A t \in ToSet(Caps(owned[s])) : tools'[t] = owned[s]
    <3>1. \A t \in ToSet(Caps(owned[s])) : tools[t] = owned[s] /\ t \in Tools
      BY <2>1, NamesAre DEF Sound, Standing, Exposed, Handled, Ranged
    <3>2. owned[s] # old
      BY <1>1, <1>5, <2>1 DEF Handled, Matched
    <3>. QED
      BY <1>2, <1>3, <1>6, <3>1, <3>2
  <2>2. \A t \in Tools : tools'[t] = Booted => tools[t] = Booted
    BY <1>3, <1>5
  <2>3. \A s \in Servers : ~Exposed(s)' => s # run.server
    BY <1>4 DEF Exposed
  <2>. QED
    BY <1>1, <2>1, <2>2, <2>3 DEF Sound, Standing, Caps
<1>10. Replacing'
  BY <1>1, <1>2, <1>3, <1>4, <1>6 DEF Replacing, Caps
<1>11. Placing'
  <2>1. \A t \in Tools : tools'[t] = Booted => BootOwner[t] # run.server
    BY <1>1, <1>3, <1>5 DEF Sound, Placing, AtWork
  <2>2. m # Nobody => managers[m].up /\ ToSet(Caps(m)) \subseteq Tools
                      /\ \A t \in ToSet(Caps(m)) \ ToSet(Caps(old)) : tools[t] = Nobody
    BY <1>1, NamesAre DEF Sound, Placing
  <2>3. run'.pc = "mount" => \A t \in ToSet(Caps(m)) : tools'[t] = Nobody
    BY <1>3, <1>4, <2>2
  <2>. QED
    BY <1>1, <1>4, <2>1, <2>2, <2>3 DEF Placing, Caps
<1>12. Telling'
  BY <1>4, <1>6, <1>7 DEF Telling
<1>13. ReportTrue'
  BY <1>4, ReportLater
<1>. QED
  BY <1>8, <1>9, <1>10, <1>11, <1>12, <1>13 DEF Sound

LEMMA SoundRemount ==
  ASSUME LiveMCPAssumption, Formed, Handled, Formed', Handled', Sound, MaxFailures \in Nat, MaxFailures <= 1,
         NEW lost \in SUBSET Tools, Remount(lost)
  PROVE  Sound'
<1>. PICK m : m = run.m
  OBVIOUS
<1>. PICK old : old = run.old
  OBVIOUS
<1>1. /\ run.pc = "remount" /\ run.pc \in AtWork /\ lost \subseteq run.missing
      /\ old \in Managers /\ old # Nobody /\ Caps(old) \in Seq(Tools)
      /\ run.missing \subseteq ToSet(Caps(old))
      /\ m # Nobody => m \in Managers /\ m # old
      /\ UNCHANGED <<managers, owned, stranded, waiting, cut>>
  BY RemountIs
<1>2. old = owned[run.server] /\ run.server \in Servers /\ old # Booted /\ Nobody # Booted
  BY <1>1, ManagersAre DEF Handled, Handling, AtWork
<1>3. run.faults = 1 /\ run.clean /\ run.op # "close"
  BY <1>1 DEF Sound, Telling, Staying
<1>4. lost = {}
  <2>1. run.faults + Cardinality(lost) <= MaxFailures
    BY DEF Remount, Failing
  <2>2. Cardinality(lost) \in Nat /\ (Cardinality(lost) = 0 <=> lost = {})
    BY <1>1, NamesFinite
  <2>. QED
    BY <1>3, <2>1, <2>2
<1>5. \A t \in Tools : tools'[t] = IF t \in run.missing THEN old ELSE tools[t]
  <2>1. \A t \in Tools : tools'[t] = IF t \in run.missing \ lost THEN old ELSE tools[t]
    BY RemountIs
  <2>. QED
    BY <1>4, <2>1
<1>6. /\ \A t \in run.missing : tools[t] = Nobody
      /\ \A t \in ToSet(Caps(old)) : t \in Tools /\ (t \in run.missing \/ tools[t] = old)
  BY <1>1, NamesAre DEF Sound, Replacing
<1>7. Standing'
  <2>1. ASSUME NEW s \in Servers, owned[s] # Nobody, s # run.server
        PROVE  \A t \in ToSet(Caps(owned[s])) : tools'[t] = owned[s]
    <3>1. \A t \in ToSet(Caps(owned[s])) : tools[t] = owned[s] /\ t \in Tools
      BY <2>1, NamesAre DEF Sound, Standing, Exposed, Handled, Ranged
    <3>. QED
      BY <1>5, <1>6, <2>1, <3>1
  <2>2. \A t \in ToSet(Caps(old)) : tools'[t] = old
    BY <1>5, <1>6
  <2>3. \A t \in Tools : tools'[t] = Booted => tools[t] = Booted
    BY <1>2, <1>5
  <2>. QED
    BY <1>1, <1>2, <2>1, <2>2, <2>3 DEF Sound, Standing, Caps
<1>. PICK r : r = Said(run, "yes", FALSE)
  OBVIOUS
<1>8. r # NoReport /\ r.server = run.server /\ r.connected = "yes"
  BY DEF Said, NoReport
<1>9. CASE m # Nobody
  <2>. PICK g : g = Goes("discard")
    OBVIOUS
  <2>1. run' = [g EXCEPT !.say = r, !.faults = g.faults + Cardinality(lost)]
    BY <1>3, <1>4, <1>9 DEF Remount
  <2>2. /\ g \in Runs /\ g.pc = "discard" /\ g.op = run.op /\ g.server = run.server /\ g.m = run.m
        /\ g.old = run.old
    BY <1>1, RunGoes DEF Formed, AtWork
  <2>3. /\ run'.pc = "discard" /\ run'.op = run.op /\ run'.server = run.server /\ run'.old = old /\ run'.say = r
    BY <2>1, <2>2 DEF Runs
  <2>4. cut' = {} /\ Staying'
    BY <1>1, <2>3 DEF Sound, Staying
  <2>5. Replacing'
    BY <2>3 DEF Replacing
  <2>6. Placing'
    BY <1>1, <1>2, <1>5, <2>3 DEF Sound, Placing
  <2>7. Telling'
    BY <1>1, <1>8, <2>3 DEF Telling
  <2>8. ReportTrue'
    BY <2>3, ReportLater
  <2>. QED
    BY <1>7, <2>4, <2>5, <2>6, <2>7, <2>8 DEF Sound
<1>10. CASE m = Nobody
  <2>1. Answer(r)
    BY <1>3, <1>4, <1>10 DEF Remount
  <2>2. owned'[run.server] # Nobody
    BY <1>1, <1>2
  <2>. QED
    BY <1>1, <1>2, <1>3, <1>7, <1>8, <2>1, <2>2, EndsSound
<1>. QED
  BY <1>9, <1>10

LEMMA SoundStop ==
  ASSUME LiveMCPAssumption, Formed, Handled, Formed', Handled', Sound, Discard \/ StopOld
  PROVE  Sound'
<1>. PICK e : e = IF run.pc = "discard" THEN run.m ELSE run.old
  OBVIOUS
<1>1. run.pc \in {"discard", "stopold"} /\ e \in Managers /\ UNCHANGED <<tools, owned, waiting, cut>>
  BY StopIs
<1>2. \A i \in Managers : Caps(i)' = Caps(i)
  BY StopIs
<1>3. run.server \in Servers /\ run.op # "close" /\ run.op # "none"
  BY <1>1 DEF Handled, Handling, AtWork, Sound, Staying
<1>4. \A s \in Servers : owned[s] # Nobody => owned[s] \in Managers /\ owned[s] # e
  <2>1. ASSUME NEW s \in Servers, owned[s] = e PROVE FALSE
    <3>1. managers[e].server = s
      BY <1>1, <2>1, ManagersAre DEF Handled, Matched
    <3>2. CASE run.pc = "discard"
      BY <1>1, <2>1, <3>1, <3>2, ManagersAre DEF Handled, Handling, Making, AtWork
    <3>3. CASE run.pc = "stopold"
      <4>1. run.m = owned[run.server] /\ run.m # run.old /\ run.m # Nobody
        BY <1>1, <3>3, ManagersAre DEF Handled, Handling, Making, AtWork
      <4>2. managers[run.old].server = run.server
        BY <1>1, <3>3, <4>1 DEF Sound, Telling
      <4>. QED
        BY <2>1, <3>1, <3>3, <4>1, <4>2
    <3>. QED
      BY <1>1, <3>2, <3>3
  <2>. QED
    BY <2>1 DEF Handled, Ranged
<1>5. \A x \in stranded' : x \in stranded \/ x.names = << >>
  <2>. PICK none : none = << >>
    OBVIOUS
  <2>1. \/ stranded' = stranded
        \/ \E i : stranded' = stranded \cup {[m |-> i, names |-> none]}
    BY DEF Discard, StopOld, Strand
  <2>. QED
    BY <2>1
<1>6. \A s \in Servers : owned[s] # Nobody => managers'[owned[s]].up
  <2>1. \A i \in Managers : i # e => managers'[i].up = managers[i].up
    <3>1. CASE Down(e)
      BY <1>1, <3>1, DownIs
    <3>2. CASE UNCHANGED managers
      BY <3>2
    <3>. QED
      BY <1>1, <3>1, <3>2 DEF Discard, StopOld
  <2>. QED
    BY <1>4, <2>1 DEF Sound, Standing
<1>7. Standing'
  <2>1. \A s \in Servers : ~Exposed(s)
    BY <1>1 DEF Exposed
  <2>2. \A s \in Servers : owned[s] # Nobody => Caps(owned[s])' = Caps(owned[s])
    BY <1>1, <1>2, <1>4 DEF Caps
  <2>. QED
    BY <1>1, <1>5, <1>6, <2>1, <2>2, StandingKept DEF Sound
<1>8. CASE run.pc = "stopold"
  <2>. PICK r : r = Said(run, "yes", TRUE)
    OBVIOUS
  <2>1. Answer(r) /\ r # NoReport /\ r.server = run.server /\ r.connected = "yes"
    BY <1>8 DEF Discard, StopOld, Said, NoReport
  <2>2. owned'[run.server] # Nobody
    BY <1>1, <1>8 DEF Handled, Handling, Making
  <2>. QED
    BY <1>1, <1>3, <1>7, <2>1, <2>2, EndsSound
<1>9. CASE run.pc = "discard"
  <2>. PICK r : r = run.say
    OBVIOUS
  <2>1. Answer(r) /\ r.server = run.server
    BY <1>9 DEF Discard, StopOld, Sound, Telling
  <2>2. r # NoReport
    BY <1>9 DEF Sound, Telling
  <2>3. /\ r.connected = "yes" => owned'[run.server] # Nobody
        /\ r.connected = "no" => owned'[run.server] = Nobody
    BY <1>1, <1>9 DEF Handled, Handling, AtWork, Sound, Telling
  <2>4. \A t \in Tools : tools'[t] = Booted => BootOwner[t] # run.server
    BY <1>1, <1>9 DEF Sound, Placing, AtWork
  <2>. QED
    BY <1>1, <1>3, <1>7, <2>1, <2>2, <2>3, <2>4, EndsSound
<1>. QED
  BY <1>1, <1>8, <1>9

LEMMA SoundStopOwned ==
  ASSUME LiveMCPAssumption, Formed, Handled, Formed', Handled', Sound, MaxFailures \in Nat, MaxFailures <= 1, StopOwned
  PROVE  Sound'
<1>. PICK old : old = run.old
  OBVIOUS
<1>1. /\ run.pc = "stopowned" /\ run.pc \in AtWork /\ run.server \in Servers /\ UNCHANGED <<tools, stranded, waiting, cut>>
      /\ run.op # "close" /\ run.m = Nobody /\ run.clean
  BY AtHand DEF StopOwned, AtWork, Sound, Staying, Telling, Handled, Making
<1>2. /\ old \in Managers /\ old # Nobody /\ Caps(old) \in Seq(Tools) /\ ToSet(Caps(old)) \subseteq Tools
      /\ old = owned[run.server] /\ managers[old].server = run.server
  BY <1>1, AtHand, ManagersAre, NamesAre DEF Handled, Handling
<1>3. \A t \in Tools : tools[t] = Booted => BootOwner[t] # run.server
  BY <1>1 DEF Sound, Placing
<1>4. CASE Down(old) /\ owned' = [owned EXCEPT ![run.server] = Nobody] /\ Answer(Said(run, "no", TRUE))
  <2>1. \A i \in Managers : /\ managers'[i].server = managers[i].server /\ Caps(i)' = Caps(i)
                            /\ managers'[i].up = (IF i = old THEN FALSE ELSE managers[i].up)
    BY <1>2, <1>4, DownIs
  <2>2. \A s \in Servers : owned'[s] = IF s = run.server THEN Nobody ELSE owned[s]
    BY <1>1, <1>4 DEF Formed
  <2>3. \A s \in Servers : owned'[s] # Nobody => s # run.server /\ owned[s] # Nobody /\ owned[s] \in Managers /\ owned[s] # old
    BY <1>2, <2>2 DEF Handled, Ranged, Matched
  <2>4. Standing'
    <3>1. ASSUME NEW s \in Servers, owned'[s] # Nobody
          PROVE  /\ managers'[owned'[s]].up
                 /\ \A t \in Tools : tools'[t] = Booted => BootOwner[t] # s
                 /\ \A t \in ToSet(managers'[owned'[s]].caps) : tools'[t] = owned'[s]
      <4>1. owned'[s] = owned[s] /\ ~Exposed(s)
        BY <2>2, <2>3, <3>1 DEF Exposed
      <4>2. managers'[owned[s]].up /\ managers'[owned[s]].caps = managers[owned[s]].caps
        BY <2>1, <2>3, <3>1 DEF Sound, Standing, Caps
      <4>. QED
        BY <1>1, <2>3, <3>1, <4>1, <4>2 DEF Sound, Standing, Caps
    <3>. QED
      BY <1>1, <3>1 DEF Sound, Standing, Caps
  <2>. PICK r : r = Said(run, "no", TRUE)
    OBVIOUS
  <2>5. Answer(r) /\ r # NoReport /\ r.server = run.server /\ r.connected = "no"
    BY <1>4 DEF Said, NoReport
  <2>6. owned'[run.server] = Nobody /\ \A t \in Tools : tools'[t] = Booted => BootOwner[t] # run.server
    BY <1>1, <1>3, <2>2
  <2>. QED
    BY <1>1, <2>4, <2>5, <2>6, EndsSound
<1>5. CASE /\ Failing(1) /\ run' = [Fails("remount") EXCEPT !.missing = ToSet(Caps(old))]
           /\ UNCHANGED <<managers, owned, report>>
  <2>. PICK g : g = Fails("remount")
    OBVIOUS
  <2>. PICK M : M = ToSet(Caps(old))
    OBVIOUS
  <2>1. run' = [g EXCEPT !.missing = M] /\ run.faults + 1 <= MaxFailures
    BY <1>5 DEF Failing
  <2>2. /\ g \in Runs /\ g.pc = "remount" /\ g.op = run.op /\ g.server = run.server /\ g.m = run.m
        /\ g.old = run.old /\ g.clean = run.clean /\ g.faults = run.faults + 1 /\ run.faults \in Nat
    BY RunFails DEF Formed, AtWork, Runs
  <2>3. /\ run'.pc = "remount" /\ run'.op = run.op /\ run'.server = run.server /\ run'.m = Nobody
        /\ run'.old = old /\ run'.missing = M /\ run'.clean /\ run'.faults = 1
    <3>1. run'.pc = "remount" /\ run'.op = run.op /\ run'.server = run.server /\ run'.m = Nobody
          /\ run'.old = old /\ run'.missing = M
      BY <1>1, <2>1, <2>2 DEF Runs
    <3>2. run'.clean = run.clean
      BY <2>1, <2>2 DEF Runs
    <3>3. run'.faults = 1
      BY <2>1, <2>2 DEF Runs
    <3>. QED
      BY <1>1, <3>1, <3>2, <3>3
  <2>4. cut' = {} /\ Staying'
    BY <1>1, <2>3 DEF Sound, Staying
  <2>5. Standing'
    <3>1. \A s \in Servers : Exposed(s) => Exposed(s)'
      BY <1>1, <2>3 DEF Exposed
    <3>2. \A s \in Servers : owned[s] # Nobody => Caps(owned[s])' = Caps(owned[s]) /\ managers'[owned[s]].up
      BY <1>5 DEF Caps, Sound, Standing
    <3>. QED
      BY <1>1, <1>5, <3>1, <3>2, StandingKept DEF Sound
  <2>6. Replacing'
    <3>1. \A t \in M : tools[t] = Nobody
      BY <1>1, <1>2 DEF Sound, Replacing
    <3>. QED
      BY <1>1, <1>5, <2>3, <3>1 DEF Replacing, Caps
  <2>7. Placing'
    BY <1>1, <1>3, <2>3 DEF Placing
  <2>8. Telling'
    BY <2>3 DEF Telling
  <2>9. ReportTrue'
    BY <2>3, ReportLater
  <2>. QED
    BY <2>4, <2>5, <2>6, <2>7, <2>8, <2>9 DEF Sound
<1>. QED
  BY <1>4, <1>5 DEF StopOwned

LEMMA LeavingStays ==
  ASSUME leaving, [LiveNext]_liveVars
  PROVE  leaving'
<1>1. ASSUME NEW s \in Servers, (\E x \in Specs : AddServer(s, x)) \/ ReloadServer(s) \/ RemoveServer(s) \/ CloseServer(s)
      PROVE  leaving'
  BY <1>1 DEF AddServer, ReloadServer, RemoveServer, CloseServer, Issue
<1>2. CASE Decide \/ Disconnect \/ Connect
  BY <1>2 DEF Decide, Disconnect, Connect
<1>3. CASE (\E o \in Offers : Discovered(o)) \/ Undiscovered
  BY <1>3 DEF Discovered, Undiscovered
<1>4. ASSUME NEW k \in 0 .. Cardinality(Tools), Mount(k) \/ UndoMounts(k) \/ Unmount(k) PROVE leaving'
  BY <1>4 DEF Mount, UndoMounts, Unmount
<1>5. ASSUME NEW lost \in SUBSET Tools, Remount(lost) PROVE leaving'
  BY <1>5 DEF Remount
<1>6. CASE Discard \/ StopOld \/ StopOwned
  BY <1>6 DEF Discard, StopOld, StopOwned
<1>7. CASE Leave \/ Close \/ CloseStranded \/ Closed
  BY <1>7 DEF Leave, Close, CloseStranded, Closed
<1>8. ASSUME NEW x \in stranded, NEW k \in 0 .. Len(x.names), Stray(x, k) PROVE leaving'
  BY <1>8 DEF Stray
<1>9. CASE (\E i \in DOMAIN waiting : CancelWaiting(i)) \/ CancelDiscover \/ CancelStop
  BY <1>9 DEF CancelWaiting, CancelDiscover, CancelStop
<1>10. CASE UNCHANGED liveVars
  BY <1>10 DEF liveVars
<1>. QED
  BY <1>1, <1>2, <1>3, <1>4, <1>5, <1>6, <1>7, <1>8, <1>9, <1>10 DEF LiveNext

LEMMA SoundNext ==
  ASSUME LiveMCPAssumption, Formed, Handled, Formed', Handled', ~leaving => Sound, ~leaving', MaxFailures <= 1,
         [LiveNext]_liveVars
  PROVE  Sound'
<1>1. ~leaving /\ Sound
  BY LeavingStays
<1>2. MaxFailures \in Nat
  BY DEF LiveMCPAssumption
<1>3. run.op # "close" /\ run.pc \notin {"close", "strays", "closed"}
  BY <1>1 DEF Sound, Staying, Handled, Closing
<1>4. ASSUME UNCHANGED <<live, run, report, leaving, cut>>,
             \/ UNCHANGED waiting
             \/ \E s \in Servers, x \in Specs \cup {NoSpec} : \E op \in {"add", "reload", "remove"} : Issue(Command(op, s, x))
      PROVE  Sound'
  <2>1. \A i \in DOMAIN waiting' : waiting'[i].op # "close"
    BY <1>1, <1>4, WaitingStay DEF Sound
  <2>. QED
    BY <1>1, <1>4, <2>1, SoundQuiet
<1>5. ASSUME NEW s \in Servers, (\E x \in Specs : AddServer(s, x)) \/ ReloadServer(s) \/ RemoveServer(s) PROVE Sound'
  <2>1. UNCHANGED <<live, run, report, leaving, cut>>
    BY <1>5 DEF AddServer, ReloadServer, RemoveServer, Issue
  <2>2. config[s] \in Specs \cup {NoSpec}
    BY DEF Formed
  <2>3. \E x \in Specs \cup {NoSpec} : \E op \in {"add", "reload", "remove"} : Issue(Command(op, s, x))
    BY <1>5, <2>2 DEF AddServer, ReloadServer, RemoveServer
  <2>. QED
    BY <1>4, <2>1, <2>3
<1>6. CASE Decide
  BY <1>1, <1>6, SoundDecide
<1>7. CASE Disconnect
  BY <1>1, <1>7, SoundDisconnect
<1>8. CASE Connect
  BY <1>1, <1>8, SoundConnect
<1>9. CASE (\E o \in Offers : Discovered(o)) \/ Undiscovered
  BY <1>1, <1>9, SoundDiscovered, SoundUndiscovered
<1>10. ASSUME NEW k \in 0 .. Cardinality(Tools), Mount(k) \/ UndoMounts(k) \/ Unmount(k) PROVE Sound'
  BY <1>1, <1>2, <1>10, SoundMountFails, SoundMountEnds, SoundUndo, SoundUnmount
<1>11. ASSUME NEW lost \in SUBSET Tools, Remount(lost) PROVE Sound'
  BY <1>1, <1>2, <1>11, SoundRemount
<1>12. CASE Discard \/ StopOld
  BY <1>1, <1>12, SoundStop
<1>13. CASE StopOwned
  BY <1>1, <1>2, <1>13, SoundStopOwned
<1>14. CASE Close
  <2>1. First.op = "close" /\ waiting # << >>
    BY <1>14 DEF Close, Takes
  <2>2. 1 \in DOMAIN waiting
    BY <2>1, EmptySeq, LenProperties DEF Formed
  <2>. QED
    BY <1>1, <2>1, <2>2 DEF Sound, Staying, First
<1>15. CASE \/ (\E s \in Servers : CloseServer(s)) \/ CloseStranded \/ Closed
            \/ (\E x \in stranded : \E k \in 0 .. Len(x.names) : Stray(x, k))
  BY <1>3, <1>15 DEF CloseServer, CloseStranded, Closed, Stray
<1>16. CASE Leave \/ (\E i \in DOMAIN waiting : CancelWaiting(i)) \/ CancelDiscover \/ CancelStop
  BY <1>1, <1>16 DEF Leave, CancelWaiting, CancelDiscover, CancelStop
<1>17. CASE UNCHANGED liveVars
  BY <1>4, <1>17 DEF liveVars
<1>. QED
  BY <1>5, <1>6, <1>7, <1>8, <1>9, <1>10, <1>11, <1>12, <1>13, <1>14, <1>15, <1>16, <1>17 DEF LiveNext

LEMMA SoundInit ==
  ASSUME LiveInit
  PROVE  Sound
<1>1. /\ \A s \in Servers : owned[s] = Nobody
      /\ stranded = {} /\ run = NoRun /\ run.pc = "idle" /\ run.op = "none" /\ cut = {} /\ report = NoReport
      /\ waiting = << >>
  BY NoRunIs DEF LiveInit
<1>2. DOMAIN waiting = {}
  BY <1>1, EmptySeq, LenProperties
<1>. QED
  BY <1>1, <1>2 DEF Sound, Staying, Standing, Replacing, Placing, Telling, ReportTrue, AtWork

\* Which tools a step of a command touches.
LEMMA OthersNext ==
  ASSUME LiveMCPAssumption, Formed, Handled, Spared, ~leaving => Sound, [LiveNext]_liveVars, ~leaving,
         NEW t \in Tools, tools'[t] # tools[t], NEW m \in {tools[t], tools'[t]} \ {Nobody}
  PROVE  managers[m].server = run.server
<1>1. Sound /\ run.pc \notin {"close", "strays", "closed"} /\ run.op # "close"
  BY DEF Sound, Staying, Handled, Closing
<1>2. CASE \E k \in 0 .. Cardinality(Tools) : Mount(k)
  <2>. PICK k \in 0 .. Cardinality(Tools) : Mount(k)
    BY <1>2
  <2>1. /\ run.pc = "mount" /\ managers[run.m].server = run.server /\ Prefix(Caps(run.m), k) \subseteq ToSet(Caps(run.m))
        /\ tools'[t] = IF t \in Prefix(Caps(run.m), k) THEN run.m ELSE tools[t]
    BY MountFailsIs, MountEndsIs
  <2>. QED
    BY <1>1, <2>1 DEF Sound, Placing
<1>3. CASE \E k \in 0 .. Cardinality(Tools) : UndoMounts(k)
  <2>. PICK k \in 0 .. Cardinality(Tools) : UndoMounts(k)
    BY <1>3
  <2>1. run.pc = "undo" /\ run.names \in Seq(Tools) /\ k \in 0 .. Len(run.names) /\ managers[run.m].server = run.server
    BY DEF UndoMounts, Formed, Runs, Handled, Making, AtWork
  <2>2. Prefix(Reverse(run.names), k) \subseteq ToSet(run.names)
    BY <2>1, UnmountedNames
  <2>3. tools'[t] = IF t \in Prefix(Reverse(run.names), k) THEN Nobody ELSE tools[t]
    <3>. PICK P : P = Prefix(Reverse(run.names), k)
      OBVIOUS
    <3>1. Put(P, Nobody)
      BY DEF UndoMounts
    <3>. QED
      BY <3>1 DEF Put
  <2>. QED
    BY <1>1, <2>1, <2>2, <2>3 DEF Sound, Placing
<1>4. CASE \E k \in 0 .. Cardinality(Tools) : Unmount(k)
  <2>. PICK k \in 0 .. Cardinality(Tools) : Unmount(k)
    BY <1>4
  <2>1. run.pc = "unmount" /\ run.pc \in AtWork /\ run.old # Nobody
    BY UnmountIs
  <2>2. managers[run.old].server = run.server
    BY <2>1, AtHand
  <2>3. Prefix(Reverse(Caps(run.old)), k) \subseteq ToSet(Caps(run.old))
    BY UnmountIs
  <2>4. tools'[t] = IF t \in Prefix(Reverse(Caps(run.old)), k) THEN Nobody ELSE tools[t]
    BY UnmountIs
  <2>. QED
    BY <1>1, <2>1, <2>2, <2>3, <2>4 DEF Sound, Replacing
<1>5. CASE \E lost \in SUBSET Tools : Remount(lost)
  <2>. PICK lost \in SUBSET Tools : Remount(lost)
    BY <1>5
  <2>1. run.pc = "remount" /\ run.pc \in AtWork /\ run.old # Nobody
    BY RemountIs
  <2>2. managers[run.old].server = run.server
    BY <2>1, AtHand
  <2>3. tools'[t] = IF t \in run.missing \ lost THEN run.old ELSE tools[t]
    BY RemountIs
  <2>. QED
    BY <1>1, <2>1, <2>2, <2>3 DEF Sound, Replacing
<1>6. CASE \E x \in stranded : \E k \in 0 .. Len(x.names) : Stray(x, k)
  BY <1>1, <1>6 DEF Stray
<1>. QED
  BY <1>2, <1>3, <1>4, <1>5, <1>6
  DEF LiveNext, AddServer, ReloadServer, RemoveServer, CloseServer, Issue, Decide, Disconnect, Connect, Discovered,
      Undiscovered, Discard, StopOld, StopOwned, Leave, Close, CloseStranded, Closed, CancelWaiting, CancelDiscover,
      CancelStop, liveVars, live

\* With a failure in each command at most: until the program is left a command
\* touches the tools of its own server only, and never those of the boot
\* (kernel/live_mcp.py:9-14).  Two failures in a command are one too many.
THEOREM OthersSpared == ASSUME MaxFailures <= 1 PROVE LiveSpec => OthersUntouched
<1>. DEFINE I == Formed /\ Handled /\ Careful
<1>1. LiveInit => I
  BY LiveMCPAssumption, HandledInit, SparedInit, SoundInit DEF Careful
<1>2. I /\ [LiveNext]_liveVars => I'
  BY LiveMCPAssumption, HandledNext, SparedNext, SoundNext DEF Careful
<1>3. I /\ [LiveNext]_liveVars
      => [\A t \in Tools : tools'[t] # tools[t] =>
            /\ tools[t] # Booted
            /\ ~leaving => \A m \in {tools[t], tools'[t]} \ {Nobody} : managers[m].server = run.server]_liveVars
  BY LiveMCPAssumption, SparedNext, OthersNext DEF Careful
<1>. QED
  BY <1>1, <1>2, <1>3, PTL DEF LiveSpec, OthersUntouched

\* With a failure in each command at most, what the user is told last of a server
\* is so: it is connected and has all its tools, or there is nothing left of it
\* (kernel/live_mcp.py:19-21, :41-45).
THEOREM ToldTrue == ASSUME MaxFailures <= 1 PROVE LiveSpec => []ReportTrue
<1>. DEFINE I == Formed /\ Handled /\ Careful
<1>1. LiveInit => I
  BY LiveMCPAssumption, HandledInit, SparedInit, SoundInit DEF Careful
<1>2. I /\ [LiveNext]_liveVars => I'
  BY LiveMCPAssumption, HandledNext, SparedNext, SoundNext DEF Careful
<1>3. I => ReportTrue
  BY DEF Careful, Sound, ReportTrue
<1>. QED
  BY <1>1, <1>2, <1>3, PTL DEF LiveSpec


=============================================================================
