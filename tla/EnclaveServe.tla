---------------------------- MODULE EnclaveServe ----------------------------
(***************************************************************************)
(* The producer enclave: the accept loop with its session cap, one thread  *)
(* per connection, the inter-frame idle budget (enclave_serve.rs), and the *)
(* authorization state all sessions share under one mutex: arming, block   *)
(* roots and hard-fork tickets (lib.rs).                                   *)
(*                                                                         *)
(* A request is processed in one step, under the mutex; its reply is       *)
(* written after the mutex is let go, so other sessions move in between.   *)
(* The state is in memory only: a restart is Unarmed.                      *)
(***************************************************************************)
EXTENDS Integers, FiniteSets

CONSTANTS
    Conns,          \* peers that connect, one connection at a time each
    Nobody,         \* not a connection
    Garbage,        \* connections whose peer only sends frames that decode to
                    \* no command
    MaxSessions,    \* MAX_CONCURRENT_SESSIONS
    IdleTimeout,    \* SESSION_IDLE_TIMEOUT, in ticks
    Heights,        \* block heights in proofs and tickets
    MaxSigned,      \* bound: hard-fork tickets signed
    MaxBoots        \* bound: processes started

ASSUME ServeAssumption ==
    /\ Nobody \notin Conns
    /\ Garbage \subseteq Conns
    /\ MaxSessions \in Nat \ {0}
    /\ IdleTimeout \in Nat \ {0}
    /\ Heights \subseteq Nat
    /\ MaxSigned \in Nat
    /\ MaxBoots \in Nat

VARIABLES
    armed,      \* the EnclaveState; Unarmed or the session's proof
    poisoned,   \* a thread panicked while it held the mutex
    conn,       \* where each connection is
    frame,      \* the request a connection read, or its reply
    idle,       \* ticks left of the idle budget
    active,     \* the atomic session counter
    accepting,  \* the accept thread between fetch_add and its verdict
    \* history
    boot,       \* process number
    signed      \* hard-fork tickets signed

serveVars == <<armed, poisoned, conn, frame, idle, active, accepting, boot, signed>>

-----------------------------------------------------------------------------
(* Requests *)

Unarmed == [height |-> 0, activated |-> 0, pending |-> 0]
IsArmed(s) == s # Unarmed

\* A request is genuine when its signatures and keys check: the finality
\* attestation of a proof, the signer's pubkey of a ticket.
ArmRequests ==
    [op : {"arm"}, height : Heights, activated : Heights, genuine : BOOLEAN]

\* Hard-fork activations and producer recoveries.
TicketRequests ==
    [op : {"fork"}, height : Heights, genuine : BOOLEAN]
    \cup [op : {"recover"}, genuine : BOOLEAN]

\* GET_MEASUREMENT and GET_STATUS.
Reads == [op : {"read"}]

\* decode_wire_command.
Requests == ArmRequests \cup TicketRequests \cup [op : {"root"}] \cup Reads

\* Any frame that decodes to no command.
Junk == [op |-> "junk"]

NoFrame == [op |-> "none"]
Reply(extends) == [op |-> "reply", extends |-> extends]

\* expect_pq_pubkey_matches_active_signer, and the signatures a request carries.
Genuine(q) == q.genuine

\* validate_recent_chain_proof.
ValidProof(q) ==
    /\ q.height > 0
    /\ q.height >= q.activated
    /\ Genuine(q)

\* Mutant: a re-arm with the same height.
BugReArmSameHeight(s, q) ==
    /\ IsArmed(s) => q.height >= s.height
    /\ ValidProof(q)

\* arm_for_production: a re-arm needs a strictly newer proof.
ArmAllowed(s, q) ==
    /\ IsArmed(s) => q.height > s.height
    /\ ValidProof(q)

ArmedWith(q) == [height |-> q.height, activated |-> q.activated, pending |-> 0]

\* validate_hard_fork_sign_preconditions and the ticket's own validation.
ForkAllowed(s, q) ==
    /\ IsArmed(s)
    /\ s.pending = 0
    /\ Genuine(q)
    /\ q.height > s.height

\* sign_recovery_ticket: armed or not.
RecoveryAllowed(q) == Genuine(q)

\* Block roots are signed by an armed enclave only.
RootAllowed(s) == IsArmed(s)

\* dispatch_command_with_state.
Allowed(s, q) ==
    \/ q.op = "arm" /\ ArmAllowed(s, q)
    \/ q.op = "fork" /\ ForkAllowed(s, q)
    \/ q.op = "recover" /\ RecoveryAllowed(q)
    \/ q.op = "root" /\ RootAllowed(s)
    \/ q.op = "read"

\* The state after a request that is allowed: a recovery ticket, a block root and
\* a read leave it alone.
After(s, q) ==
    CASE q.op = "arm"  -> ArmedWith(q)
      [] q.op = "fork" -> [s EXCEPT !.pending = q.height]
      [] q.op \in {"recover", "root", "read"} -> s

-----------------------------------------------------------------------------
(* The accept loop *)

Live(c) == conn[c] \in {"reading", "waiting", "writing"}

\* fetch_add; the verdict comes from the value before it.
AcceptConnection(c) ==
    /\ accepting.conn = Nobody
    /\ conn[c] = "none"
    /\ accepting' = [conn |-> c, prev |-> active]
    /\ active' = active + 1
    /\ UNCHANGED <<armed, poisoned, conn, frame, idle, boot, signed>>

\* Mutant: one session too many.
BugOverCap(prev) == prev > MaxSessions

OverCap(prev) == prev >= MaxSessions

\* At the cap: give the slot back and drop the stream; else spawn a thread.
AcceptVerdict ==
    LET c == accepting.conn
        over == OverCap(accepting.prev)
    IN  /\ c # Nobody
        /\ active' = IF over THEN active - 1 ELSE active
        /\ conn' = [conn EXCEPT ![c] = IF over THEN "none" ELSE "reading"]
        /\ idle' = [idle EXCEPT ![c] = IF over THEN 0 ELSE IdleTimeout]
        /\ accepting' = [conn |-> Nobody, prev |-> 0]
        /\ UNCHANGED <<armed, poisoned, frame, boot, signed>>

-----------------------------------------------------------------------------
(* One session thread (serve_framed_connection) *)

\* A complete frame before the idle deadline.
ReadFrame(c, q) ==
    /\ conn[c] = "reading"
    /\ idle[c] > 0
    /\ c \in Garbage => q = Junk
    /\ conn' = [conn EXCEPT ![c] = "waiting"]
    /\ frame' = [frame EXCEPT ![c] = q]
    /\ UNCHANGED <<armed, poisoned, idle, active, accepting, boot, signed>>

\* is_wire_error_payload: a refused ARM is an ordinary reply, every other
\* refusal a wire error.
ReplyResetsIdle(q, ok) == ok \/ q.op = "arm"

\* Mutant: a poisoned mutex is entered all the same.
BugMutexUsable == TRUE

\* lock_enclave_state.
MutexUsable == ~ poisoned

\* lock_enclave_state, process_framed_with_shared_state, unlock.
ProcessFrame(c) ==
    LET q == frame[c]
        ok == Allowed(armed, q)
    IN  /\ conn[c] = "waiting"
        /\ MutexUsable
        /\ q.op = "fork" => Cardinality(signed) < MaxSigned
        /\ armed' = IF ok THEN After(armed, q) ELSE armed
        /\ signed' = IF ok /\ q.op = "fork"
                     THEN signed \cup {[boot |-> boot, proof |-> armed.height,
                                        height |-> q.height]}
                     ELSE signed
        /\ conn' = [conn EXCEPT ![c] = "writing"]
        /\ frame' = [frame EXCEPT ![c] = Reply(ReplyResetsIdle(q, ok))]
        /\ UNCHANGED <<poisoned, idle, active, accepting, boot>>

\* The reply is written; only an ordinary one renews the idle budget.
WriteReply(c) ==
    /\ conn[c] = "writing"
    /\ conn' = [conn EXCEPT ![c] = "reading"]
    /\ idle' = [idle EXCEPT ![c] = IF frame[c].extends THEN IdleTimeout ELSE @]
    /\ frame' = [frame EXCEPT ![c] = NoFrame]
    /\ UNCHANGED <<armed, poisoned, active, accepting, boot, signed>>

\* Time passes.
Tick(c) ==
    /\ Live(c)
    /\ idle[c] > 0
    /\ idle' = [idle EXCEPT ![c] = @ - 1]
    /\ UNCHANGED <<armed, poisoned, conn, frame, active, accepting, boot, signed>>

\* The thread ends and its SessionSlotGuard drops.
EndSession(c) ==
    /\ conn' = [conn EXCEPT ![c] = "none"]
    /\ idle' = [idle EXCEPT ![c] = 0]
    /\ frame' = [frame EXCEPT ![c] = NoFrame]
    /\ active' = active - 1

IdleExpired(c) ==
    /\ conn[c] = "reading"
    /\ idle[c] = 0
    /\ EndSession(c)
    /\ UNCHANGED <<armed, poisoned, accepting, boot, signed>>

\* EOF, oversize length prefix, I/O error on either side.
Disconnect(c) ==
    /\ conn[c] \in {"reading", "writing"}
    /\ EndSession(c)
    /\ UNCHANGED <<armed, poisoned, accepting, boot, signed>>

\* The thread panics inside the critical section: the guard still drops.
\* (Bounded: a process that is not restarted any more does not panic.)
Panic(c) ==
    /\ conn[c] = "waiting"
    /\ ~ poisoned
    /\ boot < MaxBoots
    /\ poisoned' = TRUE
    /\ EndSession(c)
    /\ UNCHANGED <<armed, accepting, boot, signed>>

\* The process ends and is started again.
Restart ==
    /\ boot < MaxBoots
    /\ boot' = boot + 1
    /\ armed' = Unarmed
    /\ poisoned' = FALSE
    /\ conn' = [c \in Conns |-> "none"]
    /\ frame' = [c \in Conns |-> NoFrame]
    /\ idle' = [c \in Conns |-> 0]
    /\ active' = 0
    /\ accepting' = [conn |-> Nobody, prev |-> 0]
    /\ UNCHANGED signed

\* lock_enclave_state on a poisoned mutex: exit, the supervisor restarts.
ExitOnPoison(c) ==
    /\ conn[c] = "waiting"
    /\ poisoned
    /\ Restart

ServeInit ==
    /\ armed = Unarmed
    /\ poisoned = FALSE
    /\ conn = [c \in Conns |-> "none"]
    /\ frame = [c \in Conns |-> NoFrame]
    /\ idle = [c \in Conns |-> 0]
    /\ active = 0
    /\ accepting = [conn |-> Nobody, prev |-> 0]
    /\ boot = 1
    /\ signed = {}

SessionNext(c) ==
    \/ AcceptConnection(c)
    \/ \E q \in Requests \cup {Junk} : ReadFrame(c, q)
    \/ ProcessFrame(c)
    \/ WriteReply(c)
    \/ Tick(c)
    \/ IdleExpired(c)
    \/ Disconnect(c)
    \/ Panic(c)
    \/ ExitOnPoison(c)

ServeNext ==
    \/ AcceptVerdict
    \/ \E c \in Conns : SessionNext(c)
    \/ Restart

ServeSpec == ServeInit /\ [][ServeNext]_serveVars

-----------------------------------------------------------------------------
(* Properties *)

LiveSessions == {c \in Conns : Live(c)}

\* However the accept thread's add, check and subtract interleave with ending
\* sessions, no more than MAX_CONCURRENT_SESSIONS threads serve, and no slot is
\* lost: the counter is the number of sessions, plus the one being decided.
SlotsAccounted ==
    /\ Cardinality(LiveSessions) <= MaxSessions
    /\ active = Cardinality(LiveSessions) + (IF accepting.conn = Nobody THEN 0 ELSE 1)

\* Within one process a finalized height backs at most one hard-fork ticket,
\* whichever sessions arm, sign and lose replies, and the fork it announces is
\* ahead of every height the enclave was armed with up to then.
OneForkPerProof ==
    \A s, t \in signed :
        /\ s.boot = t.boot /\ s.proof = t.proof => s = t
        /\ s.height > s.proof

\* After a panic inside the critical section nothing is signed and no state
\* changes until the process is restarted.
PoisonStopsService ==
    [][poisoned /\ boot' = boot => signed' = signed /\ armed' = armed]_serveVars

=============================================================================
