----------------------------- MODULE AgentServe -----------------------------
(***************************************************************************)
(* The agent gateway in service: one peer at a time in front of the        *)
(* keystore (serve_agent_loop and handle_agent_accepted of                 *)
(* agent_gateway_boot.rs, serve_framed_pump of enclave_serve.rs, the       *)
(* framing of lib.rs), and behind it the dispatch of one request and its   *)
(* commit (agent_dispatch.rs).  Every other peer waits in the listener's   *)
(* backlog while the current one sends, is answered, or does nothing.      *)
(*                                                                         *)
(* The keystore is what the replies tell apart: the capability counter and *)
(* the treasury's spend.  A commit is recorded by the anchor; the sealed   *)
(* blob leaves in the success reply, and the host's copy is what the next  *)
(* boot starts from.  Keystore and AntiRollback have the rest.             *)
(***************************************************************************)
EXTENDS Naturals, Sequences

CONSTANTS
    Peers,          \* clients of the gateway
    Honest,         \* the client that retries one privileged request until done
    Nobody,         \* not a peer
    Purpose,        \* key_ref -> "transfer", "treasury" or "absent"
    IdleTimeout,    \* SESSION_IDLE_TIMEOUT, in ticks
    Pieces,         \* reads a frame may take beyond the first
    Writes,         \* writes a reply may take beyond the first
    Budget,         \* dispenses the treasury's limits allow
    MaxGood,        \* bound: successful requests a peer makes per connection
    MaxFaults       \* bound: faults of sockets, seal and anchor; restarts

ASSUME ConstantsAssumption ==
    /\ Honest \in Peers
    /\ Nobody \notin Peers
    /\ \A r \in DOMAIN Purpose : Purpose[r] \in {"transfer", "treasury", "absent"}
    /\ IdleTimeout \in Nat \ {0}
    /\ Pieces \in Nat /\ Writes \in Nat /\ Budget \in Nat
    /\ MaxGood \in Nat /\ MaxFaults \in Nat

VARIABLES
    backlog,    \* connections the listener holds, oldest first
    cur,        \* the peer being served
    phase,      \* where the loop is
    idle,       \* ticks until idle_deadline
    got,        \* pieces of the next frame read so far
    reply,      \* the reply being written, or the last one of this connection
    left,       \* writes left of it
    cand,       \* the candidate being committed
    keystore,   \* the installed body
    good,       \* successful replies on this connection
    faults,     \* faults so far
    anchor,     \* the body whose marks the anchor recorded last
    disk,       \* the newest sealed body that reached the host
    told,       \* what the honest client knows: "no", "done" or "used"
    \* history
    unheard     \* the anchor's structural version has reached no host

session == <<backlog, cur, idle, got, good>>
durable == <<anchor, disk, told, unheard>>
vars == <<session, phase, reply, left, cand, keystore, faults, durable>>

-----------------------------------------------------------------------------
(* Requests and their outcome *)

Ops == {"public_identity", "prove_identity", "sign_transfer", "sign_faucet_dispense",
        "generate_keys"}

Privileged(op) == op = "generate_keys"          \* is_privileged

\* Frames decode_message or the type guard refuses.
Misrouted == [kind : {"short", "version", "unknown", "other"}]

\* `shaped`: canonical envelope, known version, domain and opcode, well-formed
\* payload.  `owner`: the payload's `from` is the key's address.  `fits`: the
\* candidate it leads to is no larger than MAX_KEYSTORE_BLOB_SIZE once sealed.
AgentFrames ==
    [kind : {"agent"}, op : Ops, shaped : BOOLEAN, cap : 0 .. 1,
     ref : DOMAIN Purpose, owner : BOOLEAN, fits : BOOLEAN]

\* The capability the honest client holds.
HonestFrame(r) ==
    [kind |-> "agent", op |-> "generate_keys", shaped |-> TRUE, cap |-> 1,
     ref |-> r, owner |-> TRUE, fits |-> TRUE]

\* handle_public_identity, handle_prove_identity, handle_sign_transfer,
\* handle_sign_faucet_dispense: absent and wrong purpose look the same.
KeyFits(q) ==
    CASE q.op \in {"public_identity", "prove_identity"} -> Purpose[q.ref] # "absent"
      [] q.op = "sign_transfer" -> Purpose[q.ref] = "transfer" /\ q.owner
      [] q.op = "sign_faucet_dispense" -> Purpose[q.ref] = "treasury" /\ q.owner
      [] OTHER -> TRUE

\* dispatch_agent: the first check that fails names the code.
Code(q) ==
    CASE ~ q.shaped -> "malformed"
      [] q.shaped /\ Privileged(q.op) /\ q.cap # keystore.counter + 1 -> "capability"
      [] q.shaped /\ ~ Privileged(q.op) /\ q.cap # 0 -> "malformed"
      [] q.shaped /\ ~ Privileged(q.op) /\ q.cap = 0 /\ ~ KeyFits(q) -> "key_purpose"
      [] q.shaped /\ q.op = "sign_faucet_dispense" /\ q.cap = 0 /\ KeyFits(q)
            /\ keystore.spent >= Budget -> "cap_exceeded"
      [] OTHER -> "ok"

\* The operations that build a candidate and commit it before they answer.
Mutates(op) == op \in {"generate_keys", "sign_faucet_dispense"}

After(op) ==
    IF op = "generate_keys" THEN [keystore EXCEPT !.counter = @ + 1]
                            ELSE [keystore EXCEPT !.spent = @ + 1]

-----------------------------------------------------------------------------
(* The accept loop *)

NoReply == "none"

Idle ==
    /\ cur' = Nobody
    /\ idle' = 0
    /\ got' = 0
    /\ reply' = NoReply
    /\ left' = 0
    /\ good' = 0

Closed == Idle /\ phase' = "accept"

Fault == faults < MaxFaults /\ faults' = faults + 1

Connect(p) ==
    /\ phase # "refused"
    /\ p # cur
    /\ \A i \in DOMAIN backlog : backlog[i] # p
    /\ backlog' = Append(backlog, p)
    /\ UNCHANGED <<cur, phase, idle, got, reply, left, cand, keystore, good, faults,
                   durable>>

\* handle_agent_accepted: timeouts armed, the idle budget starts.
Accept ==
    /\ phase = "accept"
    /\ backlog # << >>
    /\ cur' = Head(backlog)
    /\ backlog' = Tail(backlog)
    /\ phase' = "reading"
    /\ idle' = IdleTimeout
    /\ UNCHANGED <<got, reply, left, cand, keystore, good, faults, durable>>

\* accept(2) fails and the backlog stays; the loop sleeps ACCEPT_ERROR_BACKOFF.
AcceptError ==
    /\ phase = "accept"
    /\ Fault
    /\ phase' = "backoff"
    /\ UNCHANGED <<session, reply, left, cand, keystore, durable>>

BackoffOver ==
    /\ phase = "backoff"
    /\ phase' = "accept"
    /\ UNCHANGED <<session, reply, left, cand, keystore, faults, durable>>

\* The socket timeouts cannot be set: the connection is skipped.
PrepareFails ==
    /\ phase = "accept"
    /\ backlog # << >>
    /\ Fault
    /\ backlog' = Tail(backlog)
    /\ UNCHANGED <<cur, phase, idle, got, reply, left, cand, keystore, good, durable>>

-----------------------------------------------------------------------------
(* serve_framed_pump *)

\* Mutant: every read starts the budget again.
BugReadBudget == IdleTimeout

\* read_exact_with_idle_deadline: one deadline for the whole frame.
ReadBudget == idle

\* Some bytes of a frame; the deadline is checked before each read.
ReadsSome ==
    /\ phase = "reading"
    /\ idle > 0
    /\ cur # Honest
    /\ got' = IF got < Pieces THEN got + 1 ELSE got
    /\ idle' = ReadBudget
    /\ UNCHANGED <<backlog, cur, phase, reply, left, cand, keystore, good, faults, durable>>

\* agent_serve_one_frame refuses it, or its length prefix is too large: closed
\* without a byte.
ReadsMisrouted(q) ==
    /\ phase = "reading"
    /\ idle > 0
    /\ cur # Honest
    /\ q \in Misrouted
    /\ Closed
    /\ UNCHANGED <<backlog, cand, keystore, faults, durable>>

Answer(code) ==
    /\ phase' = "writing"
    /\ reply' = code
    /\ left' = Writes

NoCandidate == [op |-> "none"]

\* The honest client sends one request per connection until it has an answer.
Sends == told = "no" /\ reply = NoReply

\* A whole agent frame, through handle_agent_gateway_frame up to its commit.  The
\* one batch of keys that fits is the honest client's.
ReadsRequest(q) ==
    /\ phase = "reading"
    /\ idle > 0
    /\ cur = Honest => Sends /\ \E r \in DOMAIN Purpose : q = HonestFrame(r)
    /\ cur # Honest => q.cap = 0 \/ ~ Privileged(q.op) \/ ~ q.fits
    /\ Code(q) = "ok" => good < MaxGood
    /\ got' = 0
    /\ IF Code(q) = "ok" /\ Mutates(q.op)
       THEN /\ cand' = [op |-> q.op, body |-> After(q.op), fits |-> q.fits]
            /\ phase' = "committing"
            /\ UNCHANGED <<reply, left>>
       ELSE /\ Answer(Code(q))
            /\ UNCHANGED cand
    /\ UNCHANGED <<backlog, cur, idle, keystore, good, faults, durable>>

-----------------------------------------------------------------------------
(* commit_before_emit: seal, commit, swap, answer *)

\* Every committed operation moves the epoch by one.
Epoch(b) == b.counter + b.spent

Structural(op) == Privileged(op)

\* The anchor (external) takes a later epoch, or signs again for a repeat of what
\* it recorded.
AnchorTakes(b) == Epoch(b) > Epoch(anchor) \/ b = anchor

Refused ==
    /\ cand' = NoCandidate
    /\ Answer("seal_failed")
    /\ UNCHANGED <<session, keystore>>

\* Mutant: the anchor is asked before the seal.
BugRecordedAtSeal(c) == c.body

\* What the anchor has recorded when seal_body refuses c: the seal comes first.
RecordedAtSeal(c) == anchor

\* seal_body: BlobTooLarge.
SealFails ==
    /\ phase = "committing"
    /\ ~ cand.fits
    /\ anchor' = RecordedAtSeal(cand)
    /\ Refused
    /\ UNCHANGED <<faults, disk, told, unheard>>

\* Sealed, recorded, acked, installed; the answer has the blob in it.
Commits ==
    /\ phase = "committing"
    /\ cand.fits
    /\ AnchorTakes(cand.body)
    /\ anchor' = cand.body
    /\ keystore' = cand.body
    /\ cand' = NoCandidate
    /\ Answer("sealed")
    /\ unheard' = (unheard \/ Structural(cand.op))
    /\ UNCHANGED <<session, faults, disk, told>>

\* The commit does not reach the anchor.
CommitFails ==
    /\ phase = "committing"
    /\ cand.fits
    /\ Fault
    /\ Refused
    /\ UNCHANGED durable

\* The anchor records the commit and the ack is lost: the installed body stays.
AckLost ==
    /\ phase = "committing"
    /\ cand.fits
    /\ AnchorTakes(cand.body)
    /\ Fault
    /\ anchor' = cand.body
    /\ unheard' = (unheard \/ Structural(cand.op))
    /\ Refused
    /\ UNCHANGED <<disk, told>>

\* After a lost ack the next commit is the anchor's epoch again: under another
\* request_id it conflicts.
Conflicts ==
    /\ phase = "committing"
    /\ cand.fits
    /\ Epoch(cand.body) <= Epoch(anchor)
    /\ cand.body # anchor \/ ~ Structural(cand.op)
    /\ Refused
    /\ UNCHANGED <<faults, durable>>

-----------------------------------------------------------------------------
(* The answer *)

\* Mutant: every reply renews the budget.
BugReplyResetsIdle == TRUE

\* reply_resets_idle: only a success does.
ReplyResetsIdle == reply \in {"ok", "sealed"}

\* write_framed_message: a slow reader takes it in parts, each in WRITE_TIMEOUT.
WritesSome ==
    /\ phase = "writing"
    /\ left > 0
    /\ left' = left - 1
    /\ UNCHANGED <<session, phase, reply, cand, keystore, faults, durable>>

\* The whole reply arrived: the host keeps the blob, and the honest client knows.
WritesReply ==
    /\ phase = "writing"
    /\ left = 0
    /\ phase' = "reading"
    /\ idle' = IF ReplyResetsIdle THEN IdleTimeout ELSE idle
    /\ good' = IF reply \in {"ok", "sealed"} THEN good + 1 ELSE good
    /\ disk' = IF reply = "sealed" THEN keystore ELSE disk
    /\ unheard' = (unheard /\ reply # "sealed")
    /\ told' = CASE cur = Honest /\ reply = "sealed" -> "done"
                 [] cur = Honest /\ reply = "capability" -> "used"
                 [] OTHER -> told
    /\ UNCHANGED <<backlog, cur, got, reply, left, cand, keystore, faults, anchor>>

\* The peer takes nothing for WRITE_TIMEOUT, or the connection breaks.
WriteFault ==
    /\ phase = "writing"
    /\ cur # Honest \/ faults < MaxFaults
    /\ faults' = IF cur = Honest THEN faults + 1 ELSE faults
    /\ Closed
    /\ UNCHANGED <<backlog, cand, keystore, durable>>

\* The read returns EOF, with or without a part of a frame.
PeerCloses ==
    /\ phase = "reading"
    /\ cur = Honest => ~ Sends
    /\ Closed
    /\ UNCHANGED <<backlog, cand, keystore, faults, durable>>

IdleExpired ==
    /\ phase = "reading"
    /\ idle = 0
    /\ Closed
    /\ UNCHANGED <<backlog, cand, keystore, faults, durable>>

\* Time passes.  The honest client sends within the idle budget.
Tick ==
    /\ idle > 0
    /\ cur = Honest /\ phase = "reading" /\ Sends => idle > 1
    /\ idle' = idle - 1
    /\ UNCHANGED <<backlog, cur, phase, got, reply, left, cand, keystore, good,
                   faults, durable>>

-----------------------------------------------------------------------------
(* The process dies and boots again, from the host's blob *)

\* run_boot_anti_rollback_handshake: marks are adopted, a structural gap is not.
BootAccepts(b) == b.counter = anchor.counter

Restart ==
    /\ phase # "refused"
    /\ Fault
    /\ backlog' = << >>
    /\ cand' = NoCandidate
    /\ Idle
    /\ IF BootAccepts(disk) THEN phase' = "accept" /\ keystore' = anchor
                            ELSE phase' = "refused" /\ keystore' = disk
    /\ UNCHANGED durable

\* Every further boot on that blob ends the same way: an operator has to restore.
BootAgain ==
    /\ phase = "refused"
    /\ UNCHANGED vars

Init ==
    /\ backlog = << >>
    /\ cur = Nobody
    /\ phase = "accept"
    /\ idle = 0
    /\ got = 0
    /\ reply = NoReply
    /\ left = 0
    /\ cand = NoCandidate
    /\ keystore = [counter |-> 0, spent |-> 0]
    /\ good = 0
    /\ faults = 0
    /\ anchor = [counter |-> 0, spent |-> 0]
    /\ disk = [counter |-> 0, spent |-> 0]
    /\ told = "no"
    /\ unheard = FALSE

Next ==
    \/ \E p \in Peers : Connect(p)
    \/ Accept
    \/ AcceptError
    \/ BackoffOver
    \/ PrepareFails
    \/ ReadsSome
    \/ \E q \in Misrouted : ReadsMisrouted(q)
    \/ \E q \in AgentFrames : ReadsRequest(q)
    \/ SealFails
    \/ Commits
    \/ CommitFails
    \/ AckLost
    \/ Conflicts
    \/ WritesSome
    \/ WritesReply
    \/ WriteFault
    \/ PeerCloses
    \/ IdleExpired
    \/ Tick
    \/ Restart
    \/ BootAgain

-----------------------------------------------------------------------------
(* The loop runs, blocked socket calls return within their timeouts, time
   passes; of the peers only the honest client is bound to do anything. *)

Fairness ==
    /\ WF_vars(Accept)
    /\ WF_vars(BackoffOver)
    /\ WF_vars(SealFails \/ Commits \/ CommitFails \/ AckLost \/ Conflicts)
    /\ WF_vars(WritesSome \/ WritesReply \/ WriteFault)
    /\ WF_vars(IdleExpired)
    /\ WF_vars(Tick)
    /\ WF_vars(Connect(Honest) /\ told = "no")
    /\ \A r \in DOMAIN Purpose : WF_vars(cur = Honest /\ ReadsRequest(HonestFrame(r)))

Spec == Init /\ [][Next]_vars /\ Fairness

-----------------------------------------------------------------------------
(* Properties *)

\* A connection in the backlog is taken up, whatever the peers before it do:
\* say nothing, drip bytes, send garbage, read slowly (serve_agent_loop is
\* serial).  A peer that goes on succeeding keeps its place: MaxGood excludes it.
EveryPeerReached ==
    \A p \in Peers :
        (\E i \in DOMAIN backlog : backlog[i] = p)
            ~> (\A i \in DOMAIN backlog : backlog[i] # p)

\* The anchor is ahead of the installed body: an ack was lost, or the boot is
\* refused.  Only a repeat of the same request, or a boot, ends it.
OutOfStep == keystore # anchor

\* A success the client has heard of outlives every restart, because the blob
\* came with it; and a client that repeats its privileged request over new
\* connections, after refused accepts, failed commits, lost acks, lost replies and
\* restarts, finds it done in the end, unless the keystore stays out of step.
HonestClientDone ==
    /\ [](told = "done" => keystore.counter = 1)
    /\ \/ <>[](keystore.counter = 1 /\ told # "no")
       \/ <>[] OutOfStep

\* A boot is refused only when the anchor's structural version is one whose reply
\* reached no host (a lost ack or reply, then a restart): a candidate that
\* seal_body refuses for its size never moves the anchor (commit_before_emit
\* seals before it commits).
RefusedOnlyUnheard == phase = "refused" => unheard

=============================================================================
