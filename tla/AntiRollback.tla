---------------------------- MODULE AntiRollback ----------------------------
(***************************************************************************)
(* The anti-rollback protocol of the Agent Gateway keystore: enclave       *)
(* instances whose sealed state lives on an untrusted host, an untrusted   *)
(* relay between them and the anchor, and the anchor, a remote monotonic   *)
(* counter that records the marks of every committed operation.            *)
(*                                                                         *)
(* One enclave process boots from a sealed blob the host presents          *)
(* (agent_boot_driver.rs, agent_boot.rs), serves committing operations     *)
(* one at a time under the keystore lock, and for each of them seals a     *)
(* candidate body, commits its marks to the anchor and only then installs  *)
(* the candidate and releases the response (agent_dispatch.rs,             *)
(* commit_before_emit).                                                    *)
(*                                                                         *)
(* The relay may drop, delay, duplicate, reorder and replay: requests and  *)
(* signed replies are kept in sets that only grow.  Signatures and         *)
(* digests are ideal: nobody else signs for the anchor, and two marks      *)
(* have one digest only if they are equal, so a digest is its marks.       *)
(***************************************************************************)
EXTENDS Integers, Sequences, FiniteSetsExt

CONSTANTS
    Enclaves,       \* processes of one keystore scope; a singleton is the
                    \* supported deployment, two are (prohibited) clones
    Rids,           \* request_ids the orchestrator hands out
    NoRid,          \* not a request_id: no operation is in flight
    Owner,          \* the enclave each request_id is submitted to
    Amounts,        \* worst-case debits of a dispense
    Budget,         \* faucet budget between two refills
    Material,       \* what a structural operation writes outside the marks
                    \* (fresh keys, limits, audit record...)
    StructuralOps,  \* subset of {"mutate", "refill"} the clients submit
    MaxAttempts,    \* boot handshake attempts of one process
    MaxEpoch,       \* bound: operations stop at this epoch
    MaxDraws        \* bound: once this many nonces are drawn no process is
                    \* started and no operation is submitted

ASSUME ConstantsAssumption ==
    /\ NoRid \notin Rids
    /\ Owner \in [Rids -> Enclaves]
    /\ Amounts \subseteq Nat \ {0}
    /\ Budget \in Nat
    /\ StructuralOps \subseteq {"mutate", "refill"}
    /\ MaxAttempts \in Nat
    /\ MaxEpoch \in Nat
    /\ MaxDraws \in Nat

VARIABLES
    \* the enclave processes (volatile)
    phase,      \* where the process is in its boot or in an operation
    body,       \* the installed (or booting) KeystoreBody
    attempts,   \* handshake attempts left
    nonce,      \* the outstanding challenge or commit nonce
    target,     \* the authenticated AnchorState an adoption aims at
    cand,       \* the sealed candidate waiting for its ack
    reason,     \* why the last boot failed closed
    \* the host's disk
    blobs,      \* every sealed body the host ever received
    \* the relay: everything ever sent, for it to deliver or not
    challenges, \* nonces of freshness requests
    freshness,  \* freshness replies the anchor signed
    marksAsked, \* raw-marks requests
    marksSent,  \* raw-marks replies the anchor signed
    commits,    \* commit requests
    acks,       \* commit acks the anchor signed
    \* the anchor (durable)
    anchor,     \* its current AnchorState
    ledger,     \* one record per committed request_id
    \* history
    drawn,      \* nonces drawn so far
    released    \* operations whose response left the enclave

enclaveVars == <<phase, body, attempts, nonce, target, cand, reason>>
relayVars == <<challenges, freshness, marksAsked, marksSent, commits, acks>>
anchorVars == <<anchor, ledger>>
vars == <<enclaveVars, blobs, relayVars, anchorVars, drawn, released>>

-----------------------------------------------------------------------------
(* Data *)

\* The marks: faucet spend and the capability counter high-water.
Marks == [spent : Nat, ctr : Nat]

Body == [epoch : Nat, structural : Nat, marks : Marks, config : Seq(Material)]

AnchorState == [epoch : Nat, structural : Nat, marks : Marks]

Phases == {"down", "booting", "challenged", "adopting", "serving",
           "committing", "failed"}

\* The verdicts of reconcile that end the boot.
FailReasons == {"AnchorBehind", "Inconsistent", "StructuralGap"}

Reasons == {"none", "Verify", "HashMismatch", "BeltRegression", "RetriesExhausted"}
           \cup FailReasons

\* A provisioned keystore before its first operation.
Genesis == [epoch |-> 1, structural |-> 1,
            marks |-> [spent |-> 0, ctr |-> 0], config |-> << >>]

StateOf(b) == [epoch |-> b.epoch, structural |-> b.structural, marks |-> b.marks]

Kinds == {"dispense", "mutate", "refill"}

Candidate == [body : Body, rid : Rids \cup {NoRid}, kind : Kinds, debit : Nat]

NoCandidate == [body |-> Genesis, rid |-> NoRid, kind |-> "dispense", debit |-> 0]

Record(c) == [rid |-> c.rid, epoch |-> c.epoch,
              structural |-> c.structural, marks |-> c.marks]

-----------------------------------------------------------------------------
(* What the enclave computes *)

\* agent_anchor.rs, reconcile: the authenticated anchor state against the blob.
Reconcile(b, s) ==
    IF s.epoch < b.epoch THEN "AnchorBehind"
    ELSE IF s.epoch = b.epoch
         THEN IF s.structural = b.structural /\ s.marks = b.marks
              THEN "Fresh" ELSE "Inconsistent"
         ELSE IF s.structural = b.structural
              THEN "AdoptForward" ELSE "StructuralGap"

\* agent_keystore.rs, seed_marks_forward.
SeedMarksForward(b, m, e) == [b EXCEPT !.marks = m, !.epoch = e]

\* Mutant: equal marks count as a regression.
BugMarksDominateLocal(m, b) ==
    /\ m.spent >= b.marks.spent
    /\ m.ctr > b.marks.ctr

\* agent_boot.rs, marks_dominate_local.
MarksDominateLocal(m, b) ==
    /\ m.spent >= b.marks.spent
    /\ m.ctr >= b.marks.ctr

\* agent_boot.rs, execute_adopt_forward after the reply's signature verified.
AdoptVerdict(b, m, s) ==
    IF SeedMarksForward(b, m, s.epoch).marks # s.marks THEN "HashMismatch"
    ELSE IF ~ MarksDominateLocal(m, b) THEN "BeltRegression"
    ELSE "ok"

\* Mutant: any reply the anchor ever signed is taken.
BugVerifyFreshness(r, n) == TRUE

\* A signed reply authenticates only under the nonce outstanding for it.
VerifyFreshness(r, n) == r.nonce = n
VerifyMarks(r, n, s) == r.nonce = n /\ r.epoch = s.epoch

\* Mutant: only the request_id is compared.
BugVerifyCommitAck(a, c, n) == a.rid = c.rid

\* agent_anchor.rs, verify_commit_ack_bytes: every proposed field is echoed.
VerifyCommitAck(a, c, n) ==
    /\ a.nonce = n
    /\ a.rid = c.rid
    /\ StateOf(a) = StateOf(c.body)

\* agent_keystore.rs, accept_and_debit, reduced to the cumulative cap.
DebitAllowed(b, d) == b.marks.spent + d <= Budget

\* advance_commit_epoch(false) on the candidate of a dispense.
DispenseCandidate(b, d) ==
    [epoch      |-> b.epoch + 1,
     structural |-> b.structural,
     marks      |-> [spent |-> b.marks.spent + d, ctr |-> b.marks.ctr],
     config     |-> b.config]

\* Mutants: the capability counter, or the structural version, stays; a refill
\* credits the budget instead of clearing the spend.
BugCounterStays(b, op, m) ==
    [epoch      |-> b.epoch + 1,
     structural |-> b.structural + 1,
     marks      |-> [spent |-> IF op = "refill" THEN 0 ELSE b.marks.spent,
                     ctr   |-> b.marks.ctr],
     config     |-> Append(b.config, m)]

BugStructuralStays(b, op, m) ==
    [epoch      |-> b.epoch + 1,
     structural |-> b.structural,
     marks      |-> [spent |-> IF op = "refill" THEN 0 ELSE b.marks.spent,
                     ctr   |-> b.marks.ctr + 1],
     config     |-> Append(b.config, m)]

BugRefillCredits(b, op, m) ==
    [epoch      |-> b.epoch + 1,
     structural |-> b.structural + 1,
     marks      |-> [spent |-> IF op = "refill" THEN b.marks.spent - Budget
                                                ELSE b.marks.spent,
                     ctr   |-> b.marks.ctr + 1],
     config     |-> Append(b.config, m)]

\* advance_counter and advance_commit_epoch(true) on the candidate of a
\* privileged operation; a refill also resets the cumulative spend.
StructuralCandidate(b, op, m) ==
    [epoch      |-> b.epoch + 1,
     structural |-> b.structural + 1,
     marks      |-> [spent |-> IF op = "refill" THEN 0 ELSE b.marks.spent,
                     ctr   |-> b.marks.ctr + 1],
     config     |-> Append(b.config, m)]

-----------------------------------------------------------------------------
(* The anchor's stable storage and the enclaves' memory at provisioning *)

Init ==
    /\ phase = [i \in Enclaves |-> "down"]
    /\ body = [i \in Enclaves |-> Genesis]
    /\ attempts = [i \in Enclaves |-> 0]
    /\ nonce = [i \in Enclaves |-> 0]
    /\ target = [i \in Enclaves |-> StateOf(Genesis)]
    /\ cand = [i \in Enclaves |-> NoCandidate]
    /\ reason = [i \in Enclaves |-> "none"]
    /\ blobs = {Genesis}
    /\ challenges = {} /\ freshness = {}
    /\ marksAsked = {} /\ marksSent = {}
    /\ commits = {} /\ acks = {}
    /\ anchor = StateOf(Genesis)
    /\ ledger = {}
    /\ drawn = 0
    /\ released = {}

-----------------------------------------------------------------------------
(* Boot of one process (run_boot_anti_rollback_handshake) *)

\* The host starts the process on any sealed blob it kept, the newest or not.
Start(i, b) ==
    /\ phase[i] \in {"down", "failed"}
    /\ drawn < MaxDraws
    /\ phase' = [phase EXCEPT ![i] = "booting"]
    /\ body' = [body EXCEPT ![i] = b]
    /\ attempts' = [attempts EXCEPT ![i] = MaxAttempts]
    /\ reason' = [reason EXCEPT ![i] = "none"]
    /\ UNCHANGED <<nonce, target, cand, blobs, relayVars, anchorVars, drawn, released>>

\* One loop iteration: issue_challenge draws a nonce and the request leaves.
IssueChallenge(i) ==
    /\ phase[i] = "booting"
    /\ attempts[i] > 0
    /\ drawn' = drawn + 1
    /\ nonce' = [nonce EXCEPT ![i] = drawn + 1]
    /\ challenges' = challenges \cup {drawn + 1}
    /\ attempts' = [attempts EXCEPT ![i] = @ - 1]
    /\ phase' = [phase EXCEPT ![i] = "challenged"]
    /\ UNCHANGED <<body, target, cand, reason, blobs, freshness, marksAsked,
                   marksSent, commits, acks, anchorVars, released>>

\* The process refuses to serve and its memory is of no further use.
FailClosed(i, why) ==
    /\ phase' = [phase EXCEPT ![i] = "failed"]
    /\ reason' = [reason EXCEPT ![i] = why]
    /\ body' = [body EXCEPT ![i] = Genesis]
    /\ attempts' = [attempts EXCEPT ![i] = 0]
    /\ nonce' = [nonce EXCEPT ![i] = 0]
    /\ target' = [target EXCEPT ![i] = StateOf(Genesis)]
    /\ UNCHANGED <<cand, blobs, relayVars, anchorVars, drawn, released>>

RetriesExhausted(i) ==
    /\ phase[i] = "booting"
    /\ attempts[i] = 0
    /\ FailClosed(i, "RetriesExhausted")

\* Either leg times out or the relay drops it: the challenge is consumed and
\* the loop goes on.
BootTransportError(i) ==
    /\ phase[i] \in {"challenged", "adopting"}
    /\ phase' = [phase EXCEPT ![i] = "booting"]
    /\ nonce' = [nonce EXCEPT ![i] = 0]
    /\ target' = [target EXCEPT ![i] = StateOf(Genesis)]
    /\ UNCHANGED <<body, attempts, cand, reason, blobs, relayVars, anchorVars,
                   drawn, released>>

\* The relay hands over bytes no check of the pending leg accepts.
BootReplyInvalid(i) ==
    /\ phase[i] \in {"challenged", "adopting"}
    /\ FailClosed(i, "Verify")

\* The binding is installed and the process serves.
Ready(i) ==
    /\ phase' = [phase EXCEPT ![i] = "serving"]
    /\ nonce' = [nonce EXCEPT ![i] = 0]
    /\ attempts' = [attempts EXCEPT ![i] = 0]
    /\ UNCHANGED <<body, target, cand, reason, blobs, relayVars, anchorVars,
                   drawn, released>>

\* The anchor is ahead by marks alone: ask for them, under the same nonce.
RequestMarks(i, s) ==
    /\ phase' = [phase EXCEPT ![i] = "adopting"]
    /\ target' = [target EXCEPT ![i] = s]
    /\ marksAsked' = marksAsked \cup {[nonce |-> nonce[i], epoch |-> s.epoch]}
    /\ UNCHANGED <<body, attempts, nonce, cand, reason, blobs, challenges,
                   freshness, marksSent, commits, acks, anchorVars, drawn,
                   released>>

\* boot_reconcile_anti_rollback: the challenge is consumed, the reply verified
\* and reconciled.
FreshnessReply(i, r) ==
    /\ phase[i] = "challenged"
    /\ VerifyFreshness(r, nonce[i])
    /\ LET verdict == Reconcile(body[i], r) IN
       \/ verdict = "Fresh" /\ Ready(i)
       \/ verdict = "AdoptForward" /\ RequestMarks(i, StateOf(r))
       \/ verdict \in FailReasons /\ FailClosed(i, verdict)

\* The seeded body replaces the booting one; the next iteration must find it
\* Fresh.
Adopt(i, m) ==
    /\ body' = [body EXCEPT ![i] = SeedMarksForward(@, m, target[i].epoch)]
    /\ phase' = [phase EXCEPT ![i] = "booting"]
    /\ nonce' = [nonce EXCEPT ![i] = 0]
    /\ target' = [target EXCEPT ![i] = StateOf(Genesis)]
    /\ UNCHANGED <<attempts, cand, reason, blobs, relayVars, anchorVars,
                   drawn, released>>

\* execute_adopt_forward.
MarksReply(i, r) ==
    /\ phase[i] = "adopting"
    /\ VerifyMarks(r, nonce[i], target[i])
    /\ LET verdict == AdoptVerdict(body[i], r.marks, target[i]) IN
       \/ verdict = "ok" /\ Adopt(i, r.marks)
       \/ verdict # "ok" /\ FailClosed(i, verdict)

-----------------------------------------------------------------------------
(* Serving: one committing operation at a time, under the keystore lock *)

\* commit_candidate_to_anchor: a fresh nonce, one request, then the wait.
SendCommit(i, c) ==
    /\ drawn < MaxDraws
    /\ drawn' = drawn + 1
    /\ nonce' = [nonce EXCEPT ![i] = drawn + 1]
    /\ cand' = [cand EXCEPT ![i] = c]
    /\ commits' = commits \cup
         {[nonce |-> drawn + 1, rid |-> c.rid, epoch |-> c.body.epoch,
           structural |-> c.body.structural, marks |-> c.body.marks]}
    /\ phase' = [phase EXCEPT ![i] = "committing"]
    /\ UNCHANGED <<body, attempts, target, reason, blobs, challenges, freshness,
                   marksAsked, marksSent, acks, anchorVars, released>>

\* SIGN_FAUCET_DISPENSE.
Dispense(i, rid, d) ==
    /\ phase[i] = "serving"
    /\ Owner[rid] = i
    /\ body[i].epoch < MaxEpoch
    /\ DebitAllowed(body[i], d)
    /\ SendCommit(i, [body |-> DispenseCandidate(body[i], d), rid |-> rid,
                      kind |-> "dispense", debit |-> d])

\* GENERATE_KEYS, CONFIGURE_TREASURY, EXPORT_BACKUP.
Structural(i, rid, op, m) ==
    /\ phase[i] = "serving"
    /\ Owner[rid] = i
    /\ body[i].epoch < MaxEpoch
    /\ SendCommit(i, [body |-> StructuralCandidate(body[i], op, m), rid |-> rid,
                      kind |-> op, debit |-> 0])

\* commit_before_emit after the ack: the candidate is installed and the
\* response, with the sealed blob in it, leaves.  The host may lose the blob.
CommitAcked(i, a, kept) ==
    /\ phase[i] = "committing"
    /\ VerifyCommitAck(a, cand[i], nonce[i])
    /\ phase' = [phase EXCEPT ![i] = "serving"]
    /\ body' = [body EXCEPT ![i] = cand[i].body]
    /\ nonce' = [nonce EXCEPT ![i] = 0]
    /\ cand' = [cand EXCEPT ![i] = NoCandidate]
    /\ blobs' = IF kept THEN blobs \cup {cand[i].body} ELSE blobs
    /\ released' = released \cup
         {[by |-> i, rid |-> cand[i].rid, epoch |-> cand[i].body.epoch,
           kind |-> cand[i].kind, debit |-> cand[i].debit,
           ctr |-> cand[i].body.marks.ctr]}
    /\ UNCHANGED <<attempts, target, reason, relayVars, anchorVars, drawn>>

\* Time-out, dropped leg or an ack that does not verify: 0x46 SealFailed, the
\* candidate is discarded and the installed body stays.
CommitFailed(i) ==
    /\ phase[i] = "committing"
    /\ phase' = [phase EXCEPT ![i] = "serving"]
    /\ nonce' = [nonce EXCEPT ![i] = 0]
    /\ cand' = [cand EXCEPT ![i] = NoCandidate]
    /\ UNCHANGED <<body, attempts, target, reason, blobs, relayVars, anchorVars,
                   drawn, released>>

\* The process dies anywhere; only the host's blobs and the anchor survive.
Crash(i) ==
    /\ phase[i] \notin {"down", "failed"}
    /\ phase' = [phase EXCEPT ![i] = "down"]
    /\ body' = [body EXCEPT ![i] = Genesis]
    /\ attempts' = [attempts EXCEPT ![i] = 0]
    /\ nonce' = [nonce EXCEPT ![i] = 0]
    /\ target' = [target EXCEPT ![i] = StateOf(Genesis)]
    /\ cand' = [cand EXCEPT ![i] = NoCandidate]
    /\ UNCHANGED <<reason, blobs, relayVars, anchorVars, drawn, released>>

-----------------------------------------------------------------------------
(* The anchor; it meets a request whenever the relay delivers it, and again
   when the relay repeats it.  A freshness or marks reply under a nonce nobody
   waits for any more verifies nowhere, so none is signed; commits are met
   however late they are. *)

Awaited(n) == \E i \in Enclaves : nonce[i] = n

AnchorFreshness(n) ==
    /\ Awaited(n)
    /\ freshness' = freshness \cup
         {[nonce |-> n, epoch |-> anchor.epoch,
           structural |-> anchor.structural, marks |-> anchor.marks]}
    /\ UNCHANGED <<enclaveVars, blobs, challenges, marksAsked, marksSent,
                   commits, acks, anchorVars, drawn, released>>

\* Echoes the request's epoch with the marks it holds now.
AnchorMarks(q) ==
    /\ Awaited(q.nonce)
    /\ marksSent' = marksSent \cup
         {[nonce |-> q.nonce, epoch |-> q.epoch, marks |-> anchor.marks]}
    /\ UNCHANGED <<enclaveVars, blobs, challenges, freshness, marksAsked,
                   commits, acks, anchorVars, drawn, released>>

\* A request_id commits at most once, and the counter only moves up.
LedgerAccepts(c) ==
    /\ \A l \in ledger : l.rid # c.rid
    /\ c.epoch > anchor.epoch

\* A repeat of what is recorded is acked again, for its own nonce.
LedgerRepeats(c) == Record(c) \in ledger

\* Anything else is a conflict: the anchor does not answer.
AnchorCommit(c) ==
    /\ \/ /\ LedgerAccepts(c)
          /\ ledger' = ledger \cup {Record(c)}
          /\ anchor' = StateOf(c)
       \/ /\ LedgerRepeats(c)
          /\ UNCHANGED anchorVars
    /\ acks' = acks \cup {c}
    /\ UNCHANGED <<enclaveVars, blobs, challenges, freshness, marksAsked,
                   marksSent, commits, drawn, released>>

-----------------------------------------------------------------------------
EnclaveNext(i) ==
    \/ \E b \in blobs : Start(i, b)
    \/ IssueChallenge(i)
    \/ RetriesExhausted(i)
    \/ BootTransportError(i)
    \/ BootReplyInvalid(i)
    \/ \E r \in freshness : FreshnessReply(i, r)
    \/ \E r \in marksSent : MarksReply(i, r)
    \/ \E rid \in Rids, d \in Amounts : Dispense(i, rid, d)
    \/ \E rid \in Rids, op \in StructuralOps, m \in Material : Structural(i, rid, op, m)
    \/ \E a \in acks, kept \in BOOLEAN : CommitAcked(i, a, kept)
    \/ CommitFailed(i)
    \/ Crash(i)

AnchorNext ==
    \/ \E n \in challenges : AnchorFreshness(n)
    \/ \E q \in marksAsked : AnchorMarks(q)
    \/ \E c \in commits : AnchorCommit(c)

Next == AnchorNext \/ \E i \in Enclaves : EnclaveNext(i)

Spec == Init /\ [][Next]_vars

-----------------------------------------------------------------------------
(* Properties *)

TypeOK ==
    /\ phase \in [Enclaves -> Phases]
    /\ body \in [Enclaves -> Body]
    /\ attempts \in [Enclaves -> Nat]
    /\ nonce \in [Enclaves -> Nat]
    /\ target \in [Enclaves -> AnchorState]
    /\ cand \in [Enclaves -> Candidate]
    /\ reason \in [Enclaves -> Reasons]
    /\ blobs \subseteq Body
    /\ challenges \subseteq Nat
    /\ freshness \subseteq [nonce : Nat, epoch : Nat, structural : Nat, marks : Marks]
    /\ marksAsked \subseteq [nonce : Nat, epoch : Nat]
    /\ marksSent \subseteq [nonce : Nat, epoch : Nat, marks : Marks]
    /\ commits \subseteq [nonce : Nat, rid : Rids, epoch : Nat, structural : Nat, marks : Marks]
    /\ acks \subseteq commits
    /\ anchor \in AnchorState
    /\ ledger \subseteq [rid : Rids, epoch : Nat, structural : Nat, marks : Marks]
    /\ drawn \in Nat
    /\ released \subseteq [by : Enclaves, rid : Rids, epoch : Nat, kind : Kinds,
                           debit : Nat, ctr : Nat]

\* Each advance of the anchor releases at most one response, and so does each
\* request_id: no debit pays for two signatures, whatever is lost, replayed or
\* rolled back (commit_before_emit with the request_id-keyed ledger).
ReleasedOnce ==
    \A r1, r2 \in released :
        (r1.epoch = r2.epoch \/ r1.rid = r2.rid) => r1 = r2

\* A capability counter value is spent by at most one released operation: a
\* rolled-back blob cannot accept the same capability again.
CapabilityOnce ==
    \A r1, r2 \in released :
        r1.kind # "dispense" /\ r2.kind # "dispense" /\ r1.ctr = r2.ctr => r1 = r2

\* Two sealed bodies, or a sealed body and one that serves, with the same
\* structural version hold the same keys and configuration: seeding only the
\* marks (seed_marks_forward) loses nothing.
SameStructuralSameConfig ==
    LET live == {body[i] : i \in {j \in Enclaves : phase[j] \in {"serving", "committing"}}}
    IN  \A b1, b2 \in blobs \cup live :
            b1.structural = b2.structural => b1.config = b2.config

\* A process that serves has taken in everything it ever released: a boot never
\* reaches Ready on a state older than its own past responses.
ServingCoversReleased ==
    \A i \in Enclaves, r \in released :
        phase[i] \in {"serving", "committing"} /\ r.by = i => r.epoch <= body[i].epoch

\* The verdicts that accuse the anchor of a rollback or of inconsistent marks
\* never fall on an anchor that is durable and monotonic, whichever blob the
\* host presents.
NoFalseAlarm ==
    \A i \in Enclaves : reason[i] \notin {"AnchorBehind", "Inconsistent", "BeltRegression"}

\* The protocol implements the spend ledger: seen through the anchor's records
\* and the released responses, every step is a commit, a payment or a stutter.
Ledger == INSTANCE SpendLedger WITH
    height <- anchor.epoch - Genesis.epoch,
    log    <- {[rid |-> l.rid, epoch |-> l.epoch - Genesis.epoch,
                spent |-> l.marks.spent] : l \in ledger},
    paid   <- {[rid |-> r.rid, epoch |-> r.epoch - Genesis.epoch,
                debit |-> r.debit] : r \in released}

ImplementsSpendLedger == Ledger!Spec

-----------------------------------------------------------------------------
(* The inductive invariant behind ReleasedOnce and ServingCoversReleased *)

\* The anchor's ledger is a function of the request_id and of the epoch, and
\* lies below the counter.
LedgerWellFormed ==
    /\ \A l \in ledger : l.epoch <= anchor.epoch
    /\ \A k, l \in ledger : (k.rid = l.rid \/ k.epoch = l.epoch) => k = l

\* What the anchor acked it recorded, and what was released was acked.
AckedIsRecorded == \A a \in acks : Record(a) \in ledger

ReleasedIsRecorded ==
    \A r \in released :
        /\ r.by = Owner[r.rid]
        /\ \E l \in ledger : l.rid = r.rid /\ l.epoch = r.epoch

\* A pending candidate is the next epoch of the installed body.
CandidateIsNext ==
    \A i \in Enclaves :
        phase[i] = "committing" =>
            /\ cand[i].rid \in Rids
            /\ Owner[cand[i].rid] = i
            /\ cand[i].body.epoch = body[i].epoch + 1

\* A freshness reply under the outstanding nonce is no older than anything the
\* challenger released: it was signed after the challenge was drawn.
ReplyIsFresh ==
    /\ \A n \in challenges : n <= drawn
    /\ \A f \in freshness : f.nonce <= drawn
    /\ \A i \in Enclaves, f \in freshness, r \in released :
           phase[i] = "challenged" /\ f.nonce = nonce[i] /\ r.by = i
               => r.epoch <= f.epoch

IInv ==
    /\ TypeOK
    /\ LedgerWellFormed
    /\ AckedIsRecorded
    /\ ReleasedIsRecorded
    /\ CandidateIsNext
    /\ ReplyIsFresh
    /\ ServingCoversReleased
    /\ ReleasedOnce

-----------------------------------------------------------------------------
(* The inductive invariant behind CapabilityOnce, SameStructuralSameConfig,
   NoFalseAlarm and the refinement of SpendLedger *)

\* Every state the anchor ever held.
History == {StateOf(Genesis)} \cup {StateOf(l) : l \in ledger}

\* The anchor's past is one chain: a state per epoch, the structural version
\* moves with the capability counter and never back, and the spend grows
\* between two structural operations.
HistoryIsChain ==
    /\ anchor \in History
    /\ \A s \in History :
           /\ 1 <= s.epoch /\ s.epoch <= anchor.epoch
           /\ s.structural = s.marks.ctr + 1
           /\ s.marks.spent <= Budget
    /\ \A s, t \in History :
           /\ s.epoch = t.epoch => s = t
           /\ s.epoch <= t.epoch => s.structural <= t.structural
           /\ s.epoch <= t.epoch /\ s.structural = t.structural
                  => s.marks.spent <= t.marks.spent

\* What one operation makes of the state s.
Follows(s, c) ==
    /\ c.epoch = s.epoch + 1
    /\ c.structural = c.marks.ctr + 1
    /\ c.marks.spent <= Budget
    /\ \/ c.structural = s.structural /\ s.marks.spent <= c.marks.spent
       \/ c.structural = s.structural + 1

\* Whatever was sealed, signed or sent stems from the anchor's past.
StemsFromHistory ==
    /\ \A c \in commits : \E s \in History : Follows(s, c)
    /\ \A f \in freshness : StateOf(f) \in History
    /\ Genesis \in blobs
    /\ \A b \in blobs : StateOf(b) \in History
    /\ \A i \in Enclaves : StateOf(body[i]) \in History

\* A boot in progress: the reply waited for is no older than the blob, and an
\* adoption aims at a later state with the blob's structural version.
BootLooksAhead ==
    /\ \A i \in Enclaves, f \in freshness :
           phase[i] = "challenged" /\ f.nonce = nonce[i] => body[i].epoch <= f.epoch
    /\ \A i \in Enclaves : phase[i] = "adopting" =>
           /\ target[i] \in History
           /\ target[i].structural = body[i].structural
           /\ body[i].epoch < target[i].epoch

\* A pending candidate is one operation ahead of the installed body.
OneAhead(b, c) ==
    /\ Follows(StateOf(b), c.body)
    /\ \/ /\ c.kind = "dispense"
          /\ c.body.structural = b.structural
          /\ c.body.config = b.config
          /\ c.body.marks.spent = b.marks.spent + c.debit
       \/ /\ c.kind # "dispense"
          /\ c.body.structural = b.structural + 1
          /\ c.debit = 0

CandidateFollows ==
    \A i \in Enclaves : phase[i] = "committing" => OneAhead(body[i], cand[i])

\* The released structural operation is the first of its structural version.
ReleasedIsFirst ==
    \A r \in released : \E l \in ledger :
        /\ l.rid = r.rid /\ l.epoch = r.epoch /\ l.marks.ctr = r.ctr
        /\ r.kind # "dispense" =>
               \A s \in History : s.epoch < l.epoch => s.structural < l.structural

\* Every body beyond the first structural version goes back to the release of
\* that version, and bodies of one version agree on their configuration.
Bodies == blobs \cup {body[i] : i \in Enclaves}

ConfigIsReleased ==
    /\ \A b \in Bodies : b.structural = 1 \/
           \E r \in released : r.kind # "dispense" /\ r.ctr + 1 = b.structural
    /\ \A b, c \in Bodies : b.structural = c.structural => b.config = c.config

HInv ==
    /\ HistoryIsChain
    /\ StemsFromHistory
    /\ BootLooksAhead
    /\ CandidateFollows
    /\ ReleasedIsFirst
    /\ ConfigIsReleased
    /\ NoFalseAlarm
=============================================================================
