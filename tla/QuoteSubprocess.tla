--------------------------- MODULE QuoteSubprocess ---------------------------
(***************************************************************************)
(* The hard-bounded boot of the Agent Gateway: attestation quotes are      *)
(* fetched by child processes, because a read of the quote device can hang *)
(* inside the kernel where no signal reaches it (quote_subprocess.rs).     *)
(* The parent reads a pipe under a deadline, kills the child on every      *)
(* path, waits a short grace for it to die and else abandons it to a       *)
(* ledger of bounded size.  The boot handshake makes up to max_attempts    *)
(* attempts of three timed legs each, within a budget that is checked      *)
(* before the first; after boot a second ledger serves the quotes of the   *)
(* restore ceremony.                                                       *)
(*                                                                         *)
(* Time is in ticks.  A wait ends at its deadline: poll returns and the    *)
(* lapse is taken before time goes on.                                     *)
(***************************************************************************)
EXTENDS Integers, FiniteSets

CONSTANTS
    Children,       \* process ids
    NoChild,        \* not a process id
    Ceiling,        \* MAX_BOOT_ATTEMPTS_CEILING, and ABANDONED_CHILD_BUDGET
    Attempts,       \* configured max_attempts
    Timeouts,       \* configured per-leg timeouts
    Overalls,       \* configured overall boot budgets
    MinLeg,         \* MIN_BOUNDARY_BUDGET
    MaxLeg,         \* MAX_PER_LEG_TIMEOUT
    Grace,          \* REAP_GRACE, and the per-attempt overhead with it
    RestoreDeadline \* RESTORE_QUOTE_DEADLINE

ASSUME ConstantsAssumption ==
    /\ NoChild \notin Children
    /\ Ceiling \in Nat
    /\ Attempts \subseteq Nat /\ Timeouts \subseteq Nat /\ Overalls \subseteq Nat
    /\ MinLeg \in Nat \ {0} /\ MaxLeg \in Nat
    /\ Grace \in Nat /\ RestoreDeadline \in Nat

VARIABLES
    config,     \* the boot budget from the environment
    phase,      \* where the parent is
    door,       \* which ledger serves: the boot's or the restore's
    attempts,   \* boot attempts left
    left,       \* ticks to the current deadline
    elapsed,    \* ticks the boot has taken
    cur,        \* the child of the fetch under way
    pipe,       \* what the child wrote
    reply,      \* what the parent made of it
    ledger,     \* abandoned children
    proc,       \* the kernel's view of each child
    killed      \* children with a SIGKILL delivered or pending

vars == <<config, phase, door, attempts, left, elapsed, cur, pipe, reply,
          ledger, proc, killed>>

kernelVars == <<proc, killed>>
bootVars == <<config, door, attempts, elapsed>>

Replies == {"quote", "misrouted", "error"}

-----------------------------------------------------------------------------
(* ValidatedBootBudget *)

Configs == [max : Attempts, timeout : Timeouts, overall : Overalls]

\* Mutant: the marks leg is forgotten.
BugNominalCost(c) == c.max * (2 * c.timeout + Grace)

\* per_attempt_nominal_cost: quote, freshness and marks legs and the overhead.
NominalCost(c) == c.max * (3 * c.timeout + Grace)

Validated(c) ==
    /\ c.max >= 1 /\ c.max <= Ceiling
    /\ MinLeg <= c.timeout /\ c.timeout <= MaxLeg
    /\ NominalCost(c) <= c.overall

Init ==
    /\ config \in Configs
    /\ phase = IF Validated(config) THEN "between" ELSE "failed"
    /\ door = "boot"
    /\ attempts = config.max
    /\ left = 0
    /\ elapsed = 0
    /\ cur = NoChild
    /\ pipe = "empty" /\ reply = "none"
    /\ ledger = {}
    /\ proc = [c \in Children |-> "none"]
    /\ killed = {}

-----------------------------------------------------------------------------
(* fetch_quote_via_child *)

Zombies(s) == {c \in s : proc[c] = "zombie"}

\* Waited for: the process id is free again.
Reaped(s) ==
    /\ proc' = [c \in Children |-> IF c \in s THEN "none" ELSE proc[c]]
    /\ killed' = killed \ s

CanFetch == phase = "serving" \/ (phase = "between" /\ attempts > 0)

\* An attempt is used up, whatever comes of it.
UseAttempt == attempts' = IF door = "boot" THEN attempts - 1 ELSE attempts

IsFull(l) == Cardinality(l) >= Ceiling

\* Sweep, then refuse while the ledger is full.
Refuse ==
    /\ CanFetch
    /\ IsFull(ledger \ Zombies(ledger))
    /\ ledger' = ledger \ Zombies(ledger)
    /\ Reaped(Zombies(ledger))
    /\ UseAttempt
    /\ UNCHANGED <<config, phase, door, left, elapsed, cur, pipe, reply>>

\* One leg of the boot budget, or the fixed deadline of the restore's quotes.
QuoteDeadline == IF door = "boot" THEN config.timeout ELSE RestoreDeadline

\* Process ids are interchangeable: the kernel hands out some free one.
FreePid == CHOOSE c \in Children : proc[c] = "none"

\* Sweep, then spawn.  The pipe may fail at once (fcntl): then the child is
\* disposed of like any other.
Spawn(c) ==
    /\ CanFetch
    /\ ~ IsFull(ledger \ Zombies(ledger))
    /\ proc[c] = "none" /\ c = FreePid
    /\ ledger' = ledger \ Zombies(ledger)
    /\ proc' = [d \in Children |-> IF d = c THEN "running"
                                   ELSE IF d \in Zombies(ledger) THEN "none" ELSE proc[d]]
    /\ killed' = killed \ Zombies(ledger)
    /\ cur' = c
    /\ pipe' = "empty" /\ reply' = "none"
    /\ phase' = "reading"
    /\ left' = QuoteDeadline
    /\ UseAttempt
    /\ UNCHANGED <<config, door, elapsed>>

SpawnFails ==
    /\ CanFetch
    /\ ~ IsFull(ledger \ Zombies(ledger))
    /\ ledger' = ledger \ Zombies(ledger)
    /\ Reaped(Zombies(ledger))
    /\ UseAttempt
    /\ UNCHANGED <<config, phase, door, left, elapsed, cur, pipe, reply>>

\* Mutant: a child that answered is not killed.
BugKill(r) == IF r = "lapsed" THEN killed \cup {cur} ELSE killed

\* dispose_child kills on every path.
Kill(r) == killed \cup {cur}

\* read_child_reply is over; the pipe is closed and the child disposed of.
Dispose(r) ==
    /\ phase = "reading"
    /\ reply' = r
    /\ phase' = "disposing"
    /\ killed' = Kill(r)
    /\ left' = Grace
    /\ UNCHANGED <<bootVars, cur, pipe, ledger, proc>>

ReadReply == pipe # "empty" /\ Dispose(pipe)

\* End of file before a frame, a broken descriptor, a frame that is malformed.
PipeFails == Dispose("error")

\* Mutant: the read has no deadline.
BugLapse == FALSE

Lapse == left = 0 /\ Dispose("lapsed")

\* Back in the caller: the echo of the report data is compared there.
AfterFetch ==
    /\ cur' = NoChild
    /\ phase' = IF door = "restore" THEN "serving"
                ELSE IF reply = "quote" THEN "freshness" ELSE "between"
    /\ left' = IF door = "boot" /\ reply = "quote" THEN config.timeout ELSE 0
    /\ UNCHANGED <<bootVars, pipe, reply>>

ReapCurrent ==
    /\ phase = "disposing"
    /\ proc[cur] = "zombie"
    /\ Reaped({cur})
    /\ UNCHANGED ledger
    /\ AfterFetch

Abandoned == ledger \cup {cur}

\* The grace is over.
Abandon ==
    /\ phase = "disposing"
    /\ left = 0
    /\ ledger' = Abandoned
    /\ UNCHANGED kernelVars
    /\ AfterFetch

-----------------------------------------------------------------------------
(* The boot handshake around it *)

\* The transport is dropped: one kill and one reap for each abandoned child.
DropLedger == Reaped(Zombies(ledger)) /\ ledger' = {}

BootEnds(p) ==
    /\ phase' = p
    /\ door' = "restore"
    /\ left' = 0
    /\ DropLedger
    /\ UNCHANGED <<config, attempts, elapsed, cur, pipe, reply>>

RetriesExhausted ==
    /\ phase = "between"
    /\ attempts = 0
    /\ BootEnds("failed")

\* The verdict on the freshness reply, or on the marks reply.
HandshakeReady == phase = "freshness" /\ BootEnds("serving")

HandshakeFatal == phase \in {"freshness", "marks"} /\ BootEnds("failed")

\* Reconcile says adopt forward: the marks leg has a deadline of its own.
AskMarks ==
    /\ phase = "freshness"
    /\ phase' = "marks"
    /\ left' = config.timeout
    /\ UNCHANGED <<bootVars, cur, pipe, reply, ledger, kernelVars>>

\* Adopted, or the leg failed or lapsed: the loop goes on.
NextAttempt ==
    /\ phase \in {"freshness", "marks"}
    /\ phase' = "between"
    /\ left' = 0
    /\ UNCHANGED <<bootVars, cur, pipe, reply, ledger, kernelVars>>

Tick ==
    /\ left > 0
    /\ left' = left - 1
    /\ elapsed' = IF door = "boot" THEN elapsed + 1 ELSE elapsed
    /\ UNCHANGED <<config, phase, door, attempts, cur, pipe, reply, ledger, kernelVars>>

-----------------------------------------------------------------------------
(* The kernel and the child *)

\* quote_child_main: one frame, the report of another request included.
ChildWrites(r) ==
    /\ phase = "reading"
    /\ proc[cur] = "running"
    /\ pipe = "empty"
    /\ pipe' = r
    /\ UNCHANGED <<bootVars, phase, left, cur, reply, ledger, kernelVars>>

KernelMoves(c, from, to) ==
    /\ proc[c] = from
    /\ proc' = [proc EXCEPT ![c] = to]
    /\ UNCHANGED <<bootVars, phase, left, cur, pipe, reply, ledger, killed>>

\* The device hangs, before the frame or after it.
Wedge(c) == c \notin killed /\ KernelMoves(c, "running", "wedged")

\* It comes back; a pending kill strikes before the child runs on.
Unwedge(c) == KernelMoves(c, "wedged", IF c \in killed THEN "zombie" ELSE "running")

\* The child exits, or dies of the signal.
Exit(c) == KernelMoves(c, "running", "zombie")

-----------------------------------------------------------------------------
ParentNext ==
    \/ Refuse
    \/ \E c \in Children : Spawn(c)
    \/ SpawnFails
    \/ ReadReply
    \/ PipeFails
    \/ Lapse
    \/ ReapCurrent
    \/ Abandon
    \/ RetriesExhausted
    \/ HandshakeReady
    \/ HandshakeFatal
    \/ AskMarks
    \/ NextAttempt

Next ==
    \/ ParentNext
    \/ Tick
    \/ \E r \in Replies : ChildWrites(r)
    \/ \E c \in Children : Wedge(c) \/ Unwedge(c) \/ Exit(c)

Spec == Init /\ [][Next]_vars

-----------------------------------------------------------------------------
(* Properties *)

\* No child outlives its fetch unkilled: whatever it was doing when the parent
\* turned away, a SIGKILL waits for it.
NoLiveOrphan ==
    \A c \in Children : proc[c] # "none" /\ c # cur => c \in killed \/ proc[c] = "zombie"

\* Children that are not reaped stay within the ledger's budget during boot and
\* within the two ledgers' after it ("the worst-case zombie ceiling for the
\* process is 2 x ABANDONED_CHILD_BUDGET").
ChildrenBounded ==
    Cardinality({c \in Children : proc[c] # "none"} \ {cur})
        <= IF door = "boot" THEN Ceiling ELSE 2 * Ceiling

\* What a fetch leaves behind is dead or dying, and bounded.
ChildrenAccounted == NoLiveOrphan /\ ChildrenBounded

\* A validated boot decides within the overall budget, even when every leg of
\* every attempt runs to its deadline.
BootWithinBudget == elapsed <= config.overall

\* The boot comes to an end and so does every fetch after it, although wedged
\* children may never die.
BootAndFetchesEnd ==
    /\ phase = "between" ~> phase \in {"serving", "failed"}
    /\ phase = "reading" ~> phase \in {"between", "freshness", "serving"}

\* Time passes, and the parent acts when a wait is over.
FairSpec ==
    /\ Spec
    /\ WF_vars(Tick)
    /\ WF_vars(Lapse)
    /\ WF_vars(ReapCurrent \/ Abandon)
    /\ WF_vars(NextAttempt)
    /\ WF_vars(RetriesExhausted)
    /\ WF_vars(door = "boot" /\ (SpawnFails \/ \E c \in Children : Spawn(c)))
=============================================================================
