----------------------- MODULE QuoteSubprocess_proofs -----------------------
(***************************************************************************)
(* Proofs about QuoteSubprocess, for every boot configuration the          *)
(* environment may hold, every ceiling and grace and any number of process *)
(* ids.                                                                    *)
(*                                                                         *)
(* The budget: what the boot has taken, what the wait under way may still  *)
(* take, what the rest of this attempt may take and what the attempts left *)
(* may take never add up to more than the nominal cost that was validated. *)
(* The children: an unreaped child is the one of the fetch under way, one  *)
(* of the ledger, or one of a bounded set left behind when the boot's      *)
(* ledger was dropped; and a fetch starts only below the ceiling.          *)
(***************************************************************************)
EXTENDS QuoteSubprocess, FiniteSetTheorems, TLAPS

Phases == {"between", "reading", "disposing", "freshness", "marks", "serving", "failed"}

TypeOK ==
    /\ config \in [max : Nat, timeout : Nat, overall : Nat]
    /\ phase \in Phases
    /\ door \in {"boot", "restore"}
    /\ attempts \in Nat /\ left \in Nat /\ elapsed \in Nat
    /\ cur \in Children \cup {NoChild}
    /\ ledger \in SUBSET Children
    /\ proc \in [Children -> {"none", "running", "wedged", "zombie"}]
    /\ killed \in SUBSET Children

\* A child is under way in a fetch and at no other time; the legs of the handshake
\* belong to the boot.
FetchShape ==
    /\ phase \in {"reading", "disposing"} => cur \in Children
    /\ phase \notin {"reading", "disposing"} => cur = NoChild
    /\ phase \in {"between", "freshness", "marks"} => door = "boot"
    /\ phase = "serving" => door = "restore"
    /\ phase = "disposing" => cur \in killed

-----------------------------------------------------------------------------
(* Time *)

AttemptCost == 3 * config.timeout + Grace

\* What this attempt may take once the wait under way is over.
RestOfAttempt ==
    IF phase = "reading" THEN 2 * config.timeout + Grace
    ELSE IF phase = "disposing" THEN 2 * config.timeout
    ELSE IF phase = "freshness" THEN config.timeout
    ELSE 0

BudgetInv ==
    /\ door = "boot" /\ phase # "failed" =>
          /\ NominalCost(config) <= config.overall
          /\ elapsed + left + RestOfAttempt + attempts * AttemptCost <= NominalCost(config)
    /\ door = "boot" /\ phase = "failed" => elapsed = 0 /\ left = 0
    /\ BootWithinBudget

-----------------------------------------------------------------------------
(* Children *)

Unreaped == {c \in Children : proc[c] # "none"} \ {cur}

LedgerInv ==
    /\ IsFiniteSet(ledger)
    /\ Cardinality(ledger) <= Ceiling
    /\ phase \in {"reading", "disposing"} => Cardinality(ledger) + 1 <= Ceiling

\* The children dropped with the boot's ledger: none before.
LeftBehind(d) ==
    /\ IsFiniteSet(d) /\ Cardinality(d) <= Ceiling
    /\ door = "boot" => d = {}
    /\ Unreaped \subseteq d \cup ledger

ChildInv ==
    /\ NoLiveOrphan
    /\ LedgerInv
    /\ \E d \in SUBSET Children : LeftBehind(d)

QInv == TypeOK /\ FetchShape /\ BudgetInv /\ ChildInv

-----------------------------------------------------------------------------
(* Types and shape *)

LEMMA CeilingNat == Ceiling \in Nat /\ Grace \in Nat /\ RestoreDeadline \in Nat /\ NoChild \notin Children
  BY ConstantsAssumption

LEMMA InitShape == Init => TypeOK /\ FetchShape
  <1> SUFFICES ASSUME Init PROVE TypeOK /\ FetchShape
    OBVIOUS
  <1>1. config \in [max : Nat, timeout : Nat, overall : Nat]
    BY ConstantsAssumption DEF Init, Configs
  <1>2. phase \in {"between", "failed"}
    BY DEF Init
  <1>3. config.max \in Nat
    BY <1>1
  <1>. QED
    BY <1>1, <1>2, <1>3 DEF Init, TypeOK, FetchShape, Phases

LEMMA StepShape == TypeOK /\ FetchShape /\ [Next]_vars => TypeOK' /\ FetchShape'
  <1> SUFFICES ASSUME TypeOK, FetchShape, [Next]_vars PROVE TypeOK' /\ FetchShape'
    OBVIOUS
  <1> USE CeilingNat
  <1>1. CASE Refuse \/ SpawnFails
    BY <1>1 DEF Refuse, SpawnFails, Reaped, CanFetch, UseAttempt, Zombies, TypeOK, FetchShape, Phases
  <1>2. ASSUME NEW c \in Children, Spawn(c) PROVE TypeOK' /\ FetchShape'
    BY <1>2 DEF Spawn, QuoteDeadline, CanFetch, UseAttempt, Zombies, TypeOK, FetchShape, Phases
  <1>3. ASSUME NEW r, Dispose(r) PROVE TypeOK' /\ FetchShape'
    BY <1>3 DEF Dispose, Kill, bootVars, TypeOK, FetchShape, Phases
  <1>4. CASE ReapCurrent
    BY <1>4 DEF ReapCurrent, AfterFetch, Reaped, bootVars, TypeOK, FetchShape, Phases
  <1>5. CASE Abandon
    BY <1>5 DEF Abandon, Abandoned, AfterFetch, kernelVars, bootVars, TypeOK, FetchShape, Phases
  <1>6. ASSUME NEW p \in {"serving", "failed"}, phase \in {"between", "freshness", "marks"}, BootEnds(p)
        PROVE  TypeOK' /\ FetchShape'
    BY <1>6 DEF BootEnds, DropLedger, Reaped, Zombies, TypeOK, FetchShape, Phases
  <1>7. CASE AskMarks \/ NextAttempt
    BY <1>7 DEF AskMarks, NextAttempt, kernelVars, bootVars, TypeOK, FetchShape, Phases
  <1>8. CASE Tick
    BY <1>8 DEF Tick, kernelVars, TypeOK, FetchShape, Phases
  <1>9. ASSUME NEW r \in Replies, ChildWrites(r) PROVE TypeOK' /\ FetchShape'
    BY <1>9 DEF ChildWrites, kernelVars, bootVars, TypeOK, FetchShape, Phases
  <1>10. ASSUME NEW c \in Children, Wedge(c) \/ Unwedge(c) \/ Exit(c) PROVE TypeOK' /\ FetchShape'
    BY <1>10 DEF Wedge, Unwedge, Exit, KernelMoves, bootVars, TypeOK, FetchShape, Phases
  <1>11. CASE UNCHANGED vars
    BY <1>11 DEF vars, TypeOK, FetchShape, Phases
  <1>12. CASE ReadReply \/ PipeFails \/ Lapse
    BY <1>3, <1>12 DEF ReadReply, PipeFails, Lapse
  <1>13. CASE RetriesExhausted \/ HandshakeReady \/ HandshakeFatal
    BY <1>6, <1>13 DEF RetriesExhausted, HandshakeReady, HandshakeFatal
  <1>. QED
    BY <1>1, <1>2, <1>4, <1>5, <1>7, <1>8, <1>9, <1>10, <1>11, <1>12, <1>13 DEF Next, ParentNext

-----------------------------------------------------------------------------
(* The budget *)

\* One attempt fewer is one attempt's cost less.
LEMMA OneAttemptLess ==
  ASSUME NEW a \in Nat, a > 0, NEW u \in Nat
  PROVE  (a - 1) * u \in Nat /\ a * u = (a - 1) * u + u
  OBVIOUS

LEMMA ProductNat == \A a, u \in Nat : a * u \in Nat
  OBVIOUS

LEMMA InitBudget == Init => BudgetInv
  <1> SUFFICES ASSUME Init PROVE BudgetInv
    OBVIOUS
  <1>1. config \in [max : Nat, timeout : Nat, overall : Nat] /\ attempts = config.max
        /\ elapsed = 0 /\ left = 0
    BY ConstantsAssumption DEF Init, Configs
  <1>2. CASE Validated(config)
    <2>1. NominalCost(config) <= config.overall /\ phase = "between"
      BY <1>2 DEF Init, Validated
    <2>2. PICK u \in Nat : u = AttemptCost
      BY <1>1, CeilingNat DEF AttemptCost
    <2>3. attempts * u \in Nat
      BY <1>1, <2>2
    <2>4. NominalCost(config) = attempts * u
      BY <1>1, <2>2 DEF NominalCost, AttemptCost
    <2>5. RestOfAttempt = 0
      BY <2>1 DEF RestOfAttempt
    <2>. QED
      BY <1>1, <2>1, <2>2, <2>3, <2>4, <2>5 DEF BudgetInv, BootWithinBudget
  <1>3. CASE ~ Validated(config)
    BY <1>1, <1>3 DEF Init, BudgetInv, BootWithinBudget
  <1>. QED
    BY <1>2, <1>3

\* The sum that the invariant bounds, before a step and after it.
Committed == elapsed + left + RestOfAttempt + attempts * AttemptCost

LEMMA BudgetKept ==
  ASSUME TypeOK, TypeOK', BudgetInv, config' = config, door = "boot",
         phase # "failed", phase' # "failed", Committed' <= Committed
  PROVE  BudgetInv'
  <1>1. PICK n : n = NominalCost(config) /\ n = NominalCost(config')
    OBVIOUS
  <1>2. n \in Nat
    BY <1>1, CeilingNat DEF NominalCost, TypeOK
  <1>3. n <= config.overall /\ Committed <= n
    BY <1>1 DEF BudgetInv, Committed
  <1>4. Committed \in Nat /\ Committed' \in Nat /\ elapsed' <= Committed'
    <2>1. RestOfAttempt \in Nat /\ AttemptCost \in Nat /\ RestOfAttempt' \in Nat /\ AttemptCost' \in Nat
      BY CeilingNat DEF TypeOK, RestOfAttempt, AttemptCost
    <2>2. PICK u \in Nat, v \in Nat : u = attempts * AttemptCost /\ v = attempts' * AttemptCost'
      BY <2>1, ProductNat DEF TypeOK
    <2>3. Committed = elapsed + left + RestOfAttempt + u
      BY <2>2 DEF Committed
    <2>4. Committed' = elapsed' + left' + RestOfAttempt' + v
      BY <2>2 DEF Committed
    <2>5. elapsed \in Nat /\ left \in Nat /\ elapsed' \in Nat /\ left' \in Nat
      BY DEF TypeOK
    <2> HIDE DEF TypeOK
    <2>6. Committed \in Nat
      BY <2>1, <2>2, <2>3, <2>5
    <2>7. Committed' \in Nat /\ elapsed' <= Committed'
      BY <2>1, <2>2, <2>4, <2>5
    <2>. QED
      BY <2>6, <2>7
  <1>5. Committed' <= n /\ elapsed' <= config.overall
    BY <1>2, <1>3, <1>4 DEF TypeOK
  <1>. QED
    BY <1>1, <1>3, <1>5 DEF BudgetInv, BootWithinBudget, Committed

LEMMA BudgetStill ==
  ASSUME TypeOK, BudgetInv, UNCHANGED <<config, phase, door, attempts, left, elapsed>>
  PROVE  BudgetInv'
  BY DEF BudgetInv, BootWithinBudget, NominalCost, RestOfAttempt, AttemptCost

\* After the boot its clock stands.
LEMMA BudgetOver ==
  ASSUME BudgetInv, UNCHANGED <<config, elapsed>>, door' = "restore"
  PROVE  BudgetInv'
  BY DEF BudgetInv, BootWithinBudget

LEMMA StepBudget ==
  ASSUME TypeOK, FetchShape, TypeOK', BudgetInv, [Next]_vars
  PROVE  BudgetInv'
  <1> USE CeilingNat
  <1>1. PICK t \in Nat, u \in Nat : t = config.timeout /\ u = AttemptCost /\ u = 3 * t + Grace
    BY DEF TypeOK, AttemptCost
  <1>2. attempts * u \in Nat
    BY ProductNat DEF TypeOK
  <1>3. CASE Refuse \/ SpawnFails
    <2>1. CanFetch /\ UseAttempt /\ UNCHANGED <<config, phase, door, left, elapsed>>
      BY <1>3 DEF Refuse, SpawnFails
    <2>2. CASE door = "restore"
      BY <2>1, <2>2, BudgetOver
    <2>3. CASE door = "boot"
      <3>1. phase = "between" /\ attempts > 0 /\ attempts' = attempts - 1
        BY <2>1, <2>3 DEF CanFetch, UseAttempt, FetchShape
      <3>2. attempts * u = (attempts - 1) * u + u /\ (attempts - 1) * u \in Nat
        BY <3>1, OneAttemptLess DEF TypeOK
      <3>3. RestOfAttempt = 0 /\ RestOfAttempt' = 0 /\ AttemptCost' = u
        BY <1>1, <2>1, <3>1 DEF RestOfAttempt, AttemptCost
      <3>4. Committed' <= Committed
        BY <1>1, <1>2, <2>1, <3>1, <3>2, <3>3 DEF Committed, TypeOK
      <3>. QED
        BY <2>1, <2>3, <3>1, <3>4, BudgetKept
    <2>. QED
      BY <2>2, <2>3 DEF TypeOK
  <1>4. ASSUME NEW c \in Children, Spawn(c) PROVE BudgetInv'
    <2>1. CanFetch /\ UseAttempt /\ UNCHANGED <<config, door, elapsed>> /\ phase' = "reading"
          /\ left' = IF door = "boot" THEN config.timeout ELSE RestoreDeadline
      BY <1>4 DEF Spawn, QuoteDeadline
    <2>2. CASE door = "restore"
      BY <2>1, <2>2, BudgetOver
    <2>3. CASE door = "boot"
      <3>1. phase = "between" /\ attempts > 0 /\ attempts' = attempts - 1 /\ left' = t
        BY <1>1, <2>1, <2>3 DEF CanFetch, UseAttempt, FetchShape
      <3>2. attempts * u = (attempts - 1) * u + u /\ (attempts - 1) * u \in Nat
        BY <3>1, OneAttemptLess DEF TypeOK
      <3>3. RestOfAttempt = 0 /\ RestOfAttempt' = 2 * t + Grace /\ AttemptCost' = u
        BY <1>1, <2>1, <3>1 DEF RestOfAttempt, AttemptCost
      <3>4. Committed' <= Committed
        BY <1>1, <1>2, <2>1, <3>1, <3>2, <3>3 DEF Committed, TypeOK
      <3>. QED
        BY <2>1, <2>3, <3>1, <3>4, BudgetKept
    <2>. QED
      BY <2>2, <2>3 DEF TypeOK
  <1>5. ASSUME NEW r, Dispose(r) PROVE BudgetInv'
    <2>1. phase = "reading" /\ phase' = "disposing" /\ left' = Grace
          /\ UNCHANGED <<config, door, attempts, elapsed>>
      BY <1>5 DEF Dispose, bootVars
    <2>2. CASE door = "restore"
      BY <2>1, <2>2, BudgetOver
    <2>3. CASE door = "boot"
      <3>1. RestOfAttempt = 2 * t + Grace /\ RestOfAttempt' = 2 * t /\ AttemptCost' = u
        BY <1>1, <2>1 DEF RestOfAttempt, AttemptCost
      <3>2. Committed' <= Committed
        BY <1>1, <1>2, <2>1, <3>1 DEF Committed, TypeOK
      <3>. QED
        BY <2>1, <2>3, <3>2, BudgetKept
    <2>. QED
      BY <2>2, <2>3 DEF TypeOK
  <1>6. CASE ReapCurrent \/ Abandon
    <2>1. /\ phase = "disposing"
          /\ phase' = IF door = "restore" THEN "serving"
                      ELSE IF reply = "quote" THEN "freshness" ELSE "between"
          /\ left' = IF door = "boot" /\ reply = "quote" THEN config.timeout ELSE 0
          /\ UNCHANGED <<config, door, attempts, elapsed>>
      BY <1>6 DEF ReapCurrent, Abandon, AfterFetch, bootVars
    <2>2. CASE door = "restore"
      BY <2>1, <2>2, BudgetOver
    <2>3. CASE door = "boot"
      <3>1. RestOfAttempt = 2 * t /\ AttemptCost' = u
        BY <1>1, <2>1 DEF RestOfAttempt, AttemptCost
      <3>2. left' \in Nat /\ RestOfAttempt' \in Nat /\ left' + RestOfAttempt' <= 2 * t
        BY <1>1, <2>1, <2>3 DEF RestOfAttempt
      <3>3. Committed' <= Committed
        BY <1>1, <1>2, <2>1, <3>1, <3>2 DEF Committed, TypeOK
      <3>. QED
        BY <2>1, <2>3, <3>3, BudgetKept
    <2>. QED
      BY <2>2, <2>3 DEF TypeOK
  <1>7. CASE RetriesExhausted \/ HandshakeReady \/ HandshakeFatal
    BY <1>7, BudgetOver DEF RetriesExhausted, HandshakeReady, HandshakeFatal, BootEnds
  <1>8. CASE AskMarks \/ NextAttempt
    <2>1. /\ phase \in {"freshness", "marks"} /\ UNCHANGED <<config, door, attempts, elapsed>>
          /\ \/ phase = "freshness" /\ phase' = "marks" /\ left' = config.timeout
             \/ phase' = "between" /\ left' = 0
      BY <1>8 DEF AskMarks, NextAttempt, bootVars
    <2>2. door = "boot"
      BY <2>1 DEF FetchShape
    <2>3. AttemptCost' = u
      BY <1>1, <2>1 DEF AttemptCost
    <2>a. /\ RestOfAttempt \in Nat /\ RestOfAttempt' \in Nat /\ left' \in Nat /\ left \in Nat
          /\ left' + RestOfAttempt' <= left + RestOfAttempt
      <3>1. left \in Nat
        BY DEF TypeOK
      <3>2. CASE phase' = "between" /\ left' = 0
        BY <1>1, <2>1, <3>1, <3>2 DEF RestOfAttempt
      <3>3. CASE phase = "freshness" /\ phase' = "marks" /\ left' = config.timeout
        BY <1>1, <2>1, <3>1, <3>3 DEF RestOfAttempt
      <3>. QED
        BY <2>1, <3>2, <3>3
    <2>4. Committed' <= Committed
      <3>1. elapsed \in Nat /\ elapsed' = elapsed /\ attempts' = attempts
        BY <2>1 DEF TypeOK
      <3>2. PICK w \in Nat : w = attempts * u
        BY <1>2
      <3>3. Committed = elapsed + left + RestOfAttempt + w
        BY <1>1, <3>2 DEF Committed
      <3>4. Committed' = elapsed + left' + RestOfAttempt' + w
        BY <2>3, <3>1, <3>2 DEF Committed
      <3>5. ASSUME NEW x \in Nat, NEW l \in Nat, NEW r \in Nat, NEW m \in Nat, NEW q \in Nat,
                   m + q <= l + r
            PROVE  x + m + q + w <= x + l + r + w
        BY <3>5
      <3>. QED
        BY <2>a, <3>1, <3>3, <3>4, <3>5
    <2>. QED
      BY <2>1, <2>2, <2>4, BudgetKept
  <1>9. CASE Tick
    <2>1. /\ left > 0 /\ left' = left - 1
          /\ elapsed' = IF door = "boot" THEN elapsed + 1 ELSE elapsed
          /\ UNCHANGED <<config, phase, door, attempts>>
      BY <1>9 DEF Tick
    <2>2. CASE door = "restore"
      BY <2>1, <2>2, BudgetOver
    <2>3. CASE door = "boot"
      <3>1. phase # "failed"
        BY <2>1, <2>3 DEF BudgetInv
      <3>2. RestOfAttempt' = RestOfAttempt /\ AttemptCost' = u /\ RestOfAttempt \in Nat
        BY <1>1, <2>1 DEF RestOfAttempt, AttemptCost
      <3>3. Committed' <= Committed
        BY <1>1, <1>2, <2>1, <2>3, <3>2 DEF Committed, TypeOK
      <3>. QED
        BY <2>1, <2>3, <3>1, <3>3, BudgetKept
    <2>. QED
      BY <2>2, <2>3 DEF TypeOK
  <1>10. ASSUME UNCHANGED <<config, phase, door, attempts, left, elapsed>> PROVE BudgetInv'
    BY <1>10, BudgetStill
  <1>11. CASE \E r \in Replies : ChildWrites(r)
    BY <1>10, <1>11 DEF ChildWrites, bootVars
  <1>12. CASE \E c \in Children : Wedge(c) \/ Unwedge(c) \/ Exit(c)
    BY <1>10, <1>12 DEF Wedge, Unwedge, Exit, KernelMoves, bootVars
  <1>13. CASE UNCHANGED vars
    BY <1>10, <1>13 DEF vars
  <1>14. CASE ReadReply \/ PipeFails \/ Lapse
    BY <1>5, <1>14 DEF ReadReply, PipeFails, Lapse
  <1>. QED
    BY <1>3, <1>4, <1>6, <1>7, <1>8, <1>9, <1>11, <1>12, <1>13, <1>14 DEF Next, ParentNext

-----------------------------------------------------------------------------
(* The children *)

LEMMA ZombiesIn == ASSUME TypeOK PROVE Zombies(ledger) \subseteq ledger
  BY DEF Zombies

\* A smaller ledger is no fuller.
LEMMA SweptLedger ==
  ASSUME LedgerInv, NEW l \in SUBSET ledger
  PROVE  IsFiniteSet(l) /\ Cardinality(l) \in Nat /\ Cardinality(l) <= Ceiling
  BY FS_Subset, FS_CardinalityType, CeilingNat DEF LedgerInv

LEMMA InitChild == Init => ChildInv
  <1> SUFFICES ASSUME Init PROVE ChildInv
    OBVIOUS
  <1>1. NoLiveOrphan
    BY DEF Init, NoLiveOrphan
  <1>2. LedgerInv
    BY FS_EmptySet, CeilingNat DEF Init, LedgerInv
  <1>3. LeftBehind({})
    BY FS_EmptySet, CeilingNat DEF Init, LeftBehind, Unreaped
  <1>. QED
    BY <1>1, <1>2, <1>3 DEF ChildInv

\* Steps that start no child, give none up and reap only what they take from the
\* ledger.
LEMMA ChildrenFewer ==
  ASSUME TypeOK, TypeOK', ChildInv, NEW s \in SUBSET ledger,
         ledger' = ledger \ s, Reaped(s), cur' = cur, door' = door,
         phase' \in {"reading", "disposing"} => phase \in {"reading", "disposing"}
  PROVE  ChildInv'
  <1>1. NoLiveOrphan'
    BY DEF ChildInv, NoLiveOrphan, Reaped, TypeOK
  <1>2. LedgerInv'
    <2>1. IsFiniteSet(ledger') /\ Cardinality(ledger') \in Nat /\ Cardinality(ledger') <= Ceiling
      BY SweptLedger DEF ChildInv
    <2>2. Cardinality(ledger') <= Cardinality(ledger) /\ Cardinality(ledger) \in Nat
      BY FS_Subset, FS_CardinalityType DEF ChildInv, LedgerInv
    <2>. QED
      BY <2>1, <2>2, CeilingNat DEF ChildInv, LedgerInv
  <1>3. PICK d \in SUBSET Children : LeftBehind(d)
    BY DEF ChildInv
  <1>4. LeftBehind(d)'
    <2>1. Unreaped' \subseteq Unreaped /\ Unreaped' \cap s = {}
      BY DEF Unreaped, Reaped, TypeOK
    <2>2. Unreaped' \subseteq d \cup ledger'
      BY <1>3, <2>1 DEF LeftBehind
    <2>. QED
      BY <1>3, <2>2 DEF LeftBehind
  <1>. QED
    BY <1>1, <1>2, <1>4 DEF ChildInv

LEMMA NothingReaped ==
  ASSUME TypeOK, TypeOK', ChildInv, UNCHANGED <<proc, killed, ledger, cur, door>>,
         phase' \in {"reading", "disposing"} => phase \in {"reading", "disposing"}
  PROVE  ChildInv'
  <1>1. Reaped({}) /\ ledger' = ledger \ {}
    BY DEF Reaped, TypeOK
  <1>. QED
    BY <1>1, ChildrenFewer

LEMMA SpawnChild ==
  ASSUME TypeOK, TypeOK', FetchShape, ChildInv, NEW c \in Children, Spawn(c)
  PROVE  ChildInv'
  <1> DEFINE z == Zombies(ledger)
  <1>1. /\ proc[c] = "none" /\ cur' = c /\ door' = door /\ killed' = killed \ z
        /\ ledger' = ledger \ z /\ ~ IsFull(ledger \ z)
        /\ proc' = [d \in Children |-> IF d = c THEN "running"
                                       ELSE IF d \in z THEN "none" ELSE proc[d]]
    BY DEF Spawn
  <1>2. cur = NoChild /\ cur \notin Children
    BY CeilingNat DEF FetchShape, Spawn, CanFetch
  <1>3. z \subseteq ledger
    BY ZombiesIn
  <1> HIDE DEF z
  <1>4. NoLiveOrphan'
    BY <1>1, <1>2 DEF ChildInv, NoLiveOrphan, TypeOK
  <1>5. LedgerInv'
    <2>1. IsFiniteSet(ledger') /\ Cardinality(ledger') \in Nat
      BY <1>1, SweptLedger DEF ChildInv
    <2>2. Cardinality(ledger') < Ceiling
      BY <1>1, <2>1, CeilingNat DEF IsFull
    <2>. QED
      BY <2>1, <2>2, CeilingNat DEF LedgerInv
  <1>6. PICK d \in SUBSET Children : LeftBehind(d)
    BY DEF ChildInv
  <1>7. LeftBehind(d)'
    <2>1. Unreaped' \subseteq Unreaped /\ Unreaped' \cap z = {}
      BY <1>1, <1>2 DEF Unreaped, TypeOK
    <2>2. Unreaped' \subseteq d \cup ledger'
      BY <1>1, <1>6, <2>1 DEF LeftBehind
    <2>. QED
      BY <1>1, <1>6, <2>2 DEF LeftBehind
  <1>. QED
    BY <1>4, <1>5, <1>7 DEF ChildInv

LEMMA DisposeChild ==
  ASSUME TypeOK, TypeOK', FetchShape, ChildInv, NEW r, Dispose(r)
  PROVE  ChildInv'
  <1>1. /\ phase = "reading" /\ killed \subseteq killed'
        /\ UNCHANGED <<proc, ledger, cur, door>>
    BY DEF Dispose, Kill, bootVars
  <1>2. NoLiveOrphan'
    BY <1>1 DEF ChildInv, NoLiveOrphan
  <1>3. LedgerInv'
    BY <1>1 DEF ChildInv, LedgerInv
  <1>4. PICK d \in SUBSET Children : LeftBehind(d)
    BY DEF ChildInv
  <1>5. LeftBehind(d)'
    BY <1>1, <1>4 DEF LeftBehind, Unreaped
  <1>. QED
    BY <1>2, <1>3, <1>5 DEF ChildInv

\* The fetch is over: its child is gone, or is one more in the ledger.
LEMMA FetchOver ==
  ASSUME TypeOK, TypeOK', FetchShape, ChildInv, ReapCurrent \/ Abandon
  PROVE  ChildInv'
  <1>1. /\ phase = "disposing" /\ cur' = NoChild /\ door' = door
        /\ phase' \notin {"reading", "disposing"}
    BY DEF ReapCurrent, Abandon, AfterFetch, bootVars
  <1>2. cur \in Children /\ cur \in killed
    BY <1>1 DEF FetchShape
  <1>3. /\ ledger \subseteq ledger' /\ ledger' \subseteq ledger \cup {cur}
        /\ \A c \in Children \ {cur} : proc'[c] = proc[c]
        /\ proc'[cur] # "none" => cur \in ledger' /\ cur \in killed'
        /\ killed \ {cur} \subseteq killed'
    <2>1. CASE ReapCurrent
      BY <1>2, <2>1 DEF ReapCurrent, Reaped, TypeOK
    <2>2. CASE Abandon
      BY <1>2, <2>2 DEF Abandon, Abandoned, kernelVars, TypeOK
    <2>. QED
      BY <2>1, <2>2
  <1>4. NoLiveOrphan'
    BY <1>1, <1>2, <1>3 DEF ChildInv, NoLiveOrphan
  <1>5. LedgerInv'
    <2>1. IsFiniteSet(ledger) /\ Cardinality(ledger) + 1 <= Ceiling /\ Cardinality(ledger) \in Nat
      BY <1>1, FS_CardinalityType DEF ChildInv, LedgerInv
    <2>2. /\ IsFiniteSet(ledger \cup {cur}) /\ Cardinality(ledger \cup {cur}) \in Nat
          /\ Cardinality(ledger \cup {cur}) <= Ceiling
      BY <2>1, FS_AddElement, CeilingNat
    <2>3. /\ IsFiniteSet(ledger') /\ Cardinality(ledger') <= Cardinality(ledger \cup {cur})
          /\ Cardinality(ledger') \in Nat
      BY <1>3, <2>2, FS_Subset, FS_CardinalityType
    <2>. QED
      BY <1>1, <2>2, <2>3, CeilingNat DEF LedgerInv
  <1>6. PICK d \in SUBSET Children : LeftBehind(d)
    BY DEF ChildInv
  <1>7. LeftBehind(d)'
    <2>1. Unreaped' \subseteq d \cup ledger'
      BY <1>1, <1>2, <1>3, <1>6 DEF LeftBehind, Unreaped
    <2>. QED
      BY <1>1, <1>6, <2>1 DEF LeftBehind
  <1>. QED
    BY <1>4, <1>5, <1>7 DEF ChildInv

\* The boot's ledger is dropped: its children are all that is left behind.
LEMMA BootOver ==
  ASSUME TypeOK, TypeOK', FetchShape, ChildInv, NEW p \in {"serving", "failed"},
         phase \in {"between", "freshness", "marks"}, BootEnds(p)
  PROVE  ChildInv'
  <1>1. /\ door = "boot" /\ door' = "restore" /\ ledger' = {} /\ cur' = cur
        /\ phase' \notin {"reading", "disposing"}
    BY DEF FetchShape, BootEnds, DropLedger
  <1>2. /\ proc' = [c \in Children |-> IF c \in Zombies(ledger) THEN "none" ELSE proc[c]]
        /\ killed' = killed \ Zombies(ledger)
    BY DEF BootEnds, DropLedger, Reaped
  <1>3. NoLiveOrphan'
    BY <1>1, <1>2 DEF ChildInv, NoLiveOrphan, TypeOK
  <1>4. LedgerInv'
    BY <1>1, FS_EmptySet, CeilingNat DEF LedgerInv
  <1>5. PICK d \in SUBSET Children : d = ledger
    BY DEF TypeOK
  <1>6. Unreaped \subseteq d
    BY <1>1, <1>5 DEF ChildInv, LeftBehind
  <1>7. Unreaped' \subseteq Unreaped
    BY <1>1, <1>2 DEF Unreaped, TypeOK
  <1>8. LeftBehind(d)'
    BY <1>1, <1>5, <1>6, <1>7 DEF ChildInv, LedgerInv, LeftBehind
  <1>. QED
    BY <1>3, <1>4, <1>8 DEF ChildInv

\* A child of the past that runs has its kill pending: it can only die.
LEMMA KernelStep ==
  ASSUME TypeOK, TypeOK', ChildInv, NEW c \in Children, Wedge(c) \/ Unwedge(c) \/ Exit(c)
  PROVE  ChildInv'
  <1>1. UNCHANGED <<phase, door, cur, ledger, killed>>
    BY DEF Wedge, Unwedge, Exit, KernelMoves, bootVars
  <1>2. \A e \in Children : e # c => proc'[e] = proc[e]
    BY DEF Wedge, Unwedge, Exit, KernelMoves, TypeOK
  <1>3. proc[c] # "none"
    BY DEF Wedge, Unwedge, Exit, KernelMoves
  <1>4. c # cur => c \in killed \/ proc'[c] = "zombie"
    BY DEF Wedge, Unwedge, Exit, KernelMoves, ChildInv, NoLiveOrphan, TypeOK
  <1>5. NoLiveOrphan'
    BY <1>1, <1>2, <1>4 DEF ChildInv, NoLiveOrphan
  <1>6. LedgerInv'
    BY <1>1 DEF ChildInv, LedgerInv
  <1>7. PICK d \in SUBSET Children : LeftBehind(d)
    BY DEF ChildInv
  <1>8. Unreaped' \subseteq Unreaped
    BY <1>1, <1>2, <1>3 DEF Unreaped
  <1>9. LeftBehind(d)'
    BY <1>1, <1>7, <1>8 DEF LeftBehind
  <1>. QED
    BY <1>5, <1>6, <1>9 DEF ChildInv

LEMMA StepChild ==
  ASSUME TypeOK, TypeOK', FetchShape, ChildInv, [Next]_vars
  PROVE  ChildInv'
  <1>1. CASE Refuse \/ SpawnFails
    <2>1. PICK s \in SUBSET ledger : s = Zombies(ledger)
      BY ZombiesIn
    <2>2. ledger' = ledger \ s /\ Reaped(s) /\ UNCHANGED <<phase, door, cur>>
      BY <1>1, <2>1 DEF Refuse, SpawnFails
    <2>. QED
      BY <2>2, ChildrenFewer
  <1>2. CASE AskMarks \/ NextAttempt
    BY <1>2, NothingReaped DEF AskMarks, NextAttempt, kernelVars, bootVars
  <1>3. CASE Tick
    BY <1>3, NothingReaped DEF Tick, kernelVars
  <1>4. CASE \E r \in Replies : ChildWrites(r)
    BY <1>4, NothingReaped DEF ChildWrites, kernelVars, bootVars
  <1>5. CASE UNCHANGED vars
    BY <1>5, NothingReaped DEF vars
  <1>6. CASE ReadReply \/ PipeFails \/ Lapse
    BY <1>6, DisposeChild DEF ReadReply, PipeFails, Lapse
  <1>7. CASE RetriesExhausted \/ HandshakeReady \/ HandshakeFatal
    BY <1>7, BootOver DEF RetriesExhausted, HandshakeReady, HandshakeFatal
  <1>. QED
    BY <1>1, <1>2, <1>3, <1>4, <1>5, <1>6, <1>7, SpawnChild, FetchOver, KernelStep
       DEF Next, ParentNext

LEMMA QInvHolds == Spec => []QInv
  <1>1. Init => QInv
    BY InitShape, InitBudget, InitChild DEF QInv
  <1>2. QInv /\ [Next]_vars => QInv'
    <2> SUFFICES ASSUME QInv, [Next]_vars PROVE QInv'
      OBVIOUS
    <2>1. TypeOK' /\ FetchShape'
      BY StepShape DEF QInv
    <2>2. BudgetInv'
      BY <2>1, StepBudget DEF QInv
    <2>3. ChildInv'
      BY <2>1, StepChild DEF QInv
    <2>. QED
      BY <2>1, <2>2, <2>3 DEF QInv
  <1>. QED
    BY <1>1, <1>2, PTL DEF Spec

-----------------------------------------------------------------------------
(* Results *)

\* A boot whose configuration passed ValidatedBootBudget decides within its overall
\* budget, if every leg of every attempt runs to its deadline and every child has
\* to be given up.
THEOREM BootBudgetHolds == Spec => []BootWithinBudget
  BY QInvHolds, PTL DEF QInv, BudgetInv

\* Whatever a fetch leaves behind is dead or has its SIGKILL pending, and no more
\* than ABANDONED_CHILD_BUDGET children of the boot, twice that in all, are
\* unreaped at any time.
THEOREM ChildrenHold == Spec => []ChildrenAccounted
  <1>1. QInv => ChildrenAccounted
    <2> SUFFICES ASSUME QInv PROVE ChildrenAccounted
      OBVIOUS
    <2>1. PICK d \in SUBSET Children : LeftBehind(d)
      BY DEF QInv, ChildInv
    <2>2. /\ IsFiniteSet(d) /\ IsFiniteSet(ledger)
          /\ Cardinality(d) <= Ceiling /\ Cardinality(ledger) <= Ceiling
      BY <2>1 DEF LeftBehind, QInv, ChildInv, LedgerInv
    <2>3. Cardinality(d) \in Nat /\ Cardinality(ledger) \in Nat
      BY <2>2, FS_CardinalityType
    <2>4. /\ IsFiniteSet(d \cup ledger) /\ Cardinality(d \cap ledger) \in Nat
          /\ Cardinality(d \cup ledger) = Cardinality(d) + Cardinality(ledger) - Cardinality(d \cap ledger)
      <3>1. IsFiniteSet(d \cap ledger)
        BY <2>2, FS_Subset
      <3>. QED
        BY <2>2, <3>1, FS_Union, FS_CardinalityType
    <2>5. Cardinality(Unreaped) <= Cardinality(d \cup ledger) /\ Cardinality(Unreaped) \in Nat
      BY <2>1, <2>4, FS_Subset, FS_CardinalityType DEF LeftBehind
    <2>6. Cardinality(Unreaped) <= 2 * Ceiling
      BY <2>2, <2>3, <2>4, <2>5, CeilingNat
    <2>7. ASSUME door = "boot" PROVE Cardinality(Unreaped) <= Ceiling
      <3>1. d \cup ledger = ledger
        BY <2>1, <2>7 DEF LeftBehind
      <3>. QED
        BY <2>2, <2>3, <2>5, <3>1, CeilingNat
    <2>8. ChildrenBounded
      BY <2>6, <2>7 DEF ChildrenBounded, Unreaped
    <2>. QED
      BY <2>8 DEF ChildrenAccounted, QInv, ChildInv
  <1>. QED
    BY <1>1, QInvHolds, PTL
=============================================================================
