--------------------------- MODULE RelayTransport ---------------------------
(***************************************************************************)
(* The two legs between an enclave and the anchor: the enclave's channel   *)
(* (VsockBootRelayChannel, agent_boot_relay.rs), one fresh vsock           *)
(* connection per call under one deadline, and the host relay daemon       *)
(* (host_anchor_relay.rs), which serves one connection at a time: read the *)
(* frame, check it, dial the anchor, forward, read the answer, write it    *)
(* back, close.                                                            *)
(*                                                                         *)
(* Time is a Tick that runs every armed timer down by one; a process whose *)
(* timer is at zero moves before the next Tick. Bytes may come a few at a  *)
(* time (the ...Some actions), which is what the deadlines are for.        *)
(***************************************************************************)
EXTENDS Integers, Sequences

CONSTANTS
    Enclaves,       \* guests that run the enclave's channel
    Strangers,      \* other guests that reach the relay's port
    Addrs,          \* how many addresses the anchor's name resolved to
    LegBudget,      \* the enclave's per-leg timeout, in ticks
    PumpBudget,     \* PUMP_BUDGET, in ticks
    ConnectBudget,  \* connect_budget(), in ticks
    Backoff,        \* ACCEPT_ERROR_BACKOFF, in ticks
    WriteCalls,     \* write calls a write_all may need
    MaxCalls,       \* bound: connections made
    MaxFaults       \* bound: accept errors and restarts of the daemon

ASSUME ConstantsAssumption ==
    /\ Enclaves \cap Strangers = {}
    /\ {Addrs, LegBudget, PumpBudget, ConnectBudget, Backoff, WriteCalls,
        MaxCalls} \subseteq Nat \ {0}
    /\ MaxFaults \in Nat

Guests == Enclaves \cup Strangers

\* The freshness and the commit leg (0x41, 0x45) have one path and one cap,
\* the marks leg (0x44) has its own.
Legs == {"short", "marks"}
Conns == 1 .. MaxCalls

\* What a guest sends; junk does not decode.
Frames == [call : Conns, leg : Legs \cup {"junk"}]
NoFrame == [call |-> 0, leg |-> "none"]

\* How long an answer is: within MAX_ANCHOR_RESPONSE_LEN, or longer and within
\* MAX_MARKS_RESPONSE_LEN.
Sizes == {"short", "marks"}
NoAnswer == [of |-> NoFrame, size |-> "short"]

VARIABLES
    guest,      \* each guest's call
    vsock,      \* the vsock connections, one per call
    backlog,    \* connections the daemon has not accepted
    relay,      \* the daemon
    tcp,        \* the daemon's connections to the anchor, one per pump
    calls,      \* calls so far
    faults,     \* accept errors and restarts so far
    \* history
    begun,      \* frames of the enclaves' calls
    answered,   \* those the anchor answered
    delivered   \* answers the enclaves' calls returned

vars == <<guest, vsock, backlog, relay, tcp, calls, faults, begun, answered,
          delivered>>

-----------------------------------------------------------------------------
(* Both sides *)

MinOf(a, b) == IF a <= b THEN a ELSE b

\* read_bounded_response_cap and frame_response_cap with the leg's cap.
WithinCap(leg, size) ==
    \/ size = "short"
    \/ size = "marks" /\ leg = "marks"

\* left: ticks to the deadline; sys: ticks to the timeout of the socket call
\* under way; spent, dialled: history, ticks since the call or the pump and
\* its dial began.
Idle == [pc |-> "idle", frame |-> NoFrame, conn |-> 0, left |-> 0, sys |-> 0,
         spent |-> 0]
Waiting == [pc |-> "accept", conn |-> 0, tcp |-> 0, frame |-> NoFrame,
            answer |-> NoAnswer, addr |-> 0, dial |-> 0, left |-> 0,
            sys |-> 0, wrote |-> 0, spent |-> 0, dialled |-> 0]
Closed == [up |-> <<>>, down |-> <<>>, guest |-> FALSE, relay |-> FALSE]
Open == [Closed EXCEPT !.guest = TRUE, !.relay = TRUE]

\* An end that closes takes with it what it has not read.
GuestClosed(v) == [v EXCEPT !.guest = FALSE, !.down = <<>>]
RelayClosed(v) == [v EXCEPT !.relay = FALSE, !.up = <<>>]

NoTcp == [up |-> <<>>, down |-> <<>>, relay |-> FALSE, anchor |-> FALSE]
AnchorDropped(t) == [NoTcp EXCEPT !.up = t.up]

-----------------------------------------------------------------------------
(* The enclave's channel *)

\* Mutant: the socket keeps the timeout it was given first.
BugArmed(left) == LegBudget

\* DeadlineSocket: before each call the socket timeout is what is left.
Armed(left) == left

\* round_trip, marks_round_trip or the commit's round trip begins. Every call
\* connects a socket of its own: a connection has its call's number.
Call(g, leg) ==
    /\ guest[g].pc = "idle"
    /\ calls < MaxCalls
    /\ calls' = calls + 1
    /\ guest' = [guest EXCEPT ![g] =
                    [pc |-> "connect", conn |-> calls + 1,
                     frame |-> [call |-> calls + 1, leg |-> leg],
                     left |-> LegBudget, sys |-> Armed(LegBudget),
                     spent |-> 0]]
    /\ begun' = begun \cup {guest'[g].frame}
    /\ UNCHANGED <<vsock, backlog, relay, tcp, faults, answered, delivered>>

\* The connect completes once the connection is in the daemon's backlog.
Connected(g) ==
    /\ guest[g].pc = "connect"
    /\ guest[g].left > 0
    /\ LET c == guest[g].conn
       IN  /\ vsock' = [vsock EXCEPT ![c] = Open]
           /\ backlog' = Append(backlog, c)
    /\ guest' = [guest EXCEPT ![g].pc = "write",
                              ![g].sys = Armed(guest[g].left)]
    /\ UNCHANGED <<relay, tcp, calls, faults, begun, answered, delivered>>

\* The stream is a local of round_trip_inner: it is dropped on return.
GuestReturns(g) ==
    /\ vsock' = [vsock EXCEPT ![guest[g].conn] = GuestClosed(@)]
    /\ guest' = [guest EXCEPT ![g] = Idle]
    /\ UNCHANGED <<backlog, relay, tcp, calls, faults, begun, answered>>

\* The request, whole; the socket's timeout is armed again for the read.
GuestWrites(g) ==
    /\ guest[g].pc = "write"
    /\ guest[g].left > 0
    /\ vsock[guest[g].conn].relay
    /\ vsock' = [vsock EXCEPT ![guest[g].conn].up = Append(@, guest[g].frame)]
    /\ guest' = [guest EXCEPT ![g].pc = "read",
                              ![g].sys = Armed(guest[g].left)]
    /\ UNCHANGED <<backlog, relay, tcp, calls, faults, begun, answered,
                   delivered>>

\* Some bytes of an answer: the deadline is checked and the timeout armed.
GuestReadsSome(g) ==
    /\ guest[g].pc = "read"
    /\ guest[g].left > 0
    /\ guest' = [guest EXCEPT ![g].sys = Armed(guest[g].left)]
    /\ UNCHANGED <<vsock, backlog, relay, tcp, calls, faults, begun, answered,
                   delivered>>

\* The rest of an answer within the cap.
GuestReads(g) ==
    /\ guest[g].pc = "read"
    /\ vsock[guest[g].conn].down # <<>>
    /\ LET a == Head(vsock[guest[g].conn].down)
       IN  /\ WithinCap(guest[g].frame.leg, a.size)
           /\ delivered' = delivered \cup {a}
    /\ GuestReturns(g)

\* Every failure is the same retryable AnchorTransportError: a peer that
\* closed, an answer over the cap, a timeout.
ChannelFault(g) ==
    \/ /\ guest[g].pc = "write"
       /\ ~vsock[guest[g].conn].relay
    \/ /\ guest[g].pc = "read"
       /\ vsock[guest[g].conn].down = <<>>
       /\ ~vsock[guest[g].conn].relay
    \/ /\ guest[g].pc = "read"
       /\ vsock[guest[g].conn].down # <<>>
       /\ ~WithinCap(guest[g].frame.leg, Head(vsock[guest[g].conn].down).size)
    \/ guest[g].pc # "idle" /\ guest[g].sys = 0

GuestFails(g) ==
    /\ ChannelFault(g)
    /\ GuestReturns(g)
    /\ UNCHANGED delivered

\* Nobody listens, or the kernel's own connect timer ran out.
ConnectRefused(g) ==
    /\ guest[g].pc = "connect"
    /\ GuestReturns(g)
    /\ UNCHANGED delivered

EnclaveNext(g) ==
    \/ Connected(g)
    \/ ConnectRefused(g)
    \/ GuestWrites(g)
    \/ GuestReadsSome(g)
    \/ GuestReads(g)
    \/ GuestFails(g)

-----------------------------------------------------------------------------
(* Other guests: they connect, may send a frame of any kind, may go silent *)
(* and may hang up.                                                        *)

StrangerConnects(g) ==
    /\ guest[g].pc = "idle"
    /\ calls < MaxCalls
    /\ calls' = calls + 1
    /\ vsock' = [vsock EXCEPT ![calls + 1] = Open]
    /\ backlog' = Append(backlog, calls + 1)
    /\ guest' = [guest EXCEPT ![g] = [Idle EXCEPT !.pc = "write",
                                                  !.conn = calls + 1]]
    /\ UNCHANGED <<relay, tcp, faults, begun, answered, delivered>>

StrangerSends(g, leg) ==
    /\ guest[g].pc = "write"
    /\ vsock' = [vsock EXCEPT ![guest[g].conn].up =
                    Append(@, [call |-> guest[g].conn, leg |-> leg])]
    /\ guest' = [guest EXCEPT ![g].pc = "read"]
    /\ UNCHANGED <<backlog, relay, tcp, calls, faults, begun, answered,
                   delivered>>

StrangerLeaves(g) ==
    /\ guest[g].pc # "idle"
    /\ vsock' = [vsock EXCEPT ![guest[g].conn] = GuestClosed(@)]
    /\ guest' = [guest EXCEPT ![g] = Idle]
    /\ UNCHANGED <<backlog, relay, tcp, calls, faults, begun, answered,
                   delivered>>

StrangerNext(g) ==
    \/ StrangerConnects(g)
    \/ \E leg \in {"short", "junk"} : StrangerSends(g, leg)
    \/ StrangerLeaves(g)

-----------------------------------------------------------------------------
(* The daemon *)

RelayUnchanged == UNCHANGED <<guest, calls, begun, delivered, answered>>

\* The accept loop takes the next connection and arms both its timeouts;
\* relay_one_pump mints the deadline.
Accept ==
    /\ relay.pc = "accept"
    /\ backlog # <<>>
    /\ relay' = [Waiting EXCEPT !.pc = "read", !.conn = Head(backlog),
                                !.left = PumpBudget, !.sys = PumpBudget]
    /\ backlog' = Tail(backlog)
    /\ UNCHANGED <<vsock, tcp, faults>>
    /\ RelayUnchanged

\* handle_accepted: an accept error, or a connection whose timeouts cannot be
\* armed and which is dropped; then the backoff.
AcceptError(drops) ==
    /\ relay.pc = "accept"
    /\ faults < MaxFaults
    /\ faults' = faults + 1
    /\ drops => backlog # <<>>
    /\ vsock' = IF drops THEN [vsock EXCEPT ![Head(backlog)] = RelayClosed(@)]
                         ELSE vsock
    /\ backlog' = IF drops THEN Tail(backlog) ELSE backlog
    /\ relay' = [Waiting EXCEPT !.pc = "backoff", !.sys = Backoff]
    /\ UNCHANGED <<tcp>>
    /\ RelayUnchanged

BackoffOver ==
    /\ relay.pc = "backoff"
    /\ relay.sys = 0
    /\ relay' = Waiting
    /\ UNCHANGED <<vsock, backlog, tcp, faults>>
    /\ RelayUnchanged

\* The pump is over, well or not: both streams drop, the loop goes on.
ClosePump ==
    /\ relay' = Waiting
    /\ vsock' = [vsock EXCEPT ![relay.conn] = RelayClosed(@)]
    /\ tcp' = IF relay.tcp = 0 THEN tcp
              ELSE [tcp EXCEPT ![relay.tcp] = AnchorDropped(@)]
    /\ UNCHANGED <<backlog, faults>>
    /\ RelayUnchanged

PumpStep(r) ==
    /\ relay' = r
    /\ UNCHANGED <<vsock, backlog, tcp, faults>>
    /\ RelayUnchanged

\* read_exact_with_idle_deadline, deadline_guarded_write: checked before every
\* read, before a write and before its flush.
Lapsed(r) == r.left = 0

\* Some bytes of the request or of the answer.
PumpReadsSome ==
    /\ relay.pc \in {"read", "recv"}
    /\ ~Lapsed(relay)
    /\ relay.sys < PumpBudget
    /\ relay.pc = "read" => vsock[relay.conn].guest
    /\ relay.pc = "recv" => tcp[relay.tcp].anchor
    /\ PumpStep([relay EXCEPT !.sys = PumpBudget])

\* The same after the deadline: the loop gives up.
PumpReadsLate ==
    /\ relay.pc \in {"read", "recv"}
    /\ Lapsed(relay)
    /\ ClosePump

\* The request, whole: a frame that decodes goes to the dial, which has
\* connect_budget or what is left of the pump, if that is less.
ReadsRequest ==
    /\ relay.pc = "read"
    /\ vsock[relay.conn].up # <<>>
    /\ LET f == Head(vsock[relay.conn].up)
           d == MinOf(ConnectBudget, relay.left)
       IN  /\ f.leg \in Legs
           /\ d > 0
           /\ relay' = [relay EXCEPT !.pc = "dial", !.frame = f, !.addr = 1,
                                     !.dial = d, !.sys = 0]
    /\ vsock' = [vsock EXCEPT ![relay.conn].up = Tail(@)]
    /\ UNCHANGED <<backlog, tcp, faults>>
    /\ RelayUnchanged

\* A frame that does not decode or comes too late to dial, or a guest that
\* hung up: closed before anything is dialled.
RefusesRequest ==
    /\ relay.pc = "read"
    /\ \/ /\ vsock[relay.conn].up # <<>>
          /\ \/ Head(vsock[relay.conn].up).leg \notin Legs
             \/ relay.left = 0
       \/ /\ vsock[relay.conn].up = <<>>
          /\ ~vsock[relay.conn].guest
    /\ ClosePump

\* TcpAnchorDial::dial: the addresses share one connect deadline.
DialLeft(r) == r.dial

\* An address refuses, or black-holes until the timeout: the next address,
\* while any budget is left.
DialsNext ==
    /\ relay.pc = "dial"
    /\ relay.addr < Addrs
    /\ DialLeft(relay) > 0
    /\ PumpStep([relay EXCEPT !.addr = @ + 1, !.dial = DialLeft(relay)])

\* The last address failed, the budget is spent, or a new socket could not be
\* set up.
DialFails ==
    /\ relay.pc = "dial"
    /\ ClosePump

\* Mutant: the connection to the anchor is kept from pump to pump.
BugAnchorConn(c) == 1

\* Each pump dials its own connection.
AnchorConn(c) == c

Dialled ==
    /\ relay.pc = "dial"
    /\ relay.dial > 0
    /\ LET k == AnchorConn(relay.conn)
       IN  /\ tcp' = [tcp EXCEPT ![k].relay = TRUE, ![k].anchor = TRUE]
           /\ relay' = [relay EXCEPT !.pc = "send", !.tcp = k,
                                     !.sys = PumpBudget]
    /\ UNCHANGED <<vsock, backlog, faults>>
    /\ RelayUnchanged

\* write_all goes on after a short write; nobody looks at the deadline.
WritesSome ==
    /\ relay.pc \in {"send", "reply"}
    /\ relay.wrote + 1 < WriteCalls
    /\ PumpStep([relay EXCEPT !.wrote = @ + 1, !.sys = PumpBudget])

\* The frame as it was read. A deadline that passed meanwhile ends the pump,
\* and the anchor has the frame.
Forwards ==
    /\ relay.pc = "send"
    /\ tcp[relay.tcp].anchor
    /\ LET t == [tcp[relay.tcp] EXCEPT !.up = Append(@, relay.frame)]
       IN  IF Lapsed(relay)
           THEN /\ relay' = Waiting
                /\ vsock' = [vsock EXCEPT ![relay.conn] = RelayClosed(@)]
                /\ tcp' = [tcp EXCEPT ![relay.tcp] = AnchorDropped(t)]
           ELSE /\ relay' = [relay EXCEPT !.pc = "recv", !.sys = PumpBudget]
                /\ tcp' = [tcp EXCEPT ![relay.tcp] = t]
                /\ UNCHANGED vsock
    /\ UNCHANGED <<backlog, faults>>
    /\ RelayUnchanged

\* The whole answer, within the leg's cap and in time to be written back.
ReadsAnswer ==
    /\ relay.pc = "recv"
    /\ tcp[relay.tcp].down # <<>>
    /\ LET a == Head(tcp[relay.tcp].down)
       IN  /\ WithinCap(relay.frame.leg, a.size)
           /\ ~Lapsed(relay)
           /\ relay' = [relay EXCEPT !.pc = "reply", !.answer = a,
                                     !.sys = PumpBudget, !.wrote = 0]
    /\ tcp' = [tcp EXCEPT ![relay.tcp].down = Tail(@)]
    /\ UNCHANGED <<vsock, backlog, faults>>
    /\ RelayUnchanged

\* Written back; the pump is done.
WritesBack ==
    /\ relay.pc = "reply"
    /\ vsock[relay.conn].guest
    /\ relay' = Waiting
    /\ vsock' = [vsock EXCEPT ![relay.conn] =
                    [RelayClosed(@) EXCEPT
                        !.down = Append(vsock[relay.conn].down, relay.answer)]]
    /\ tcp' = [tcp EXCEPT ![relay.tcp] = AnchorDropped(@)]
    /\ UNCHANGED <<backlog, faults>>
    /\ RelayUnchanged

\* Mutant: the guest's and the anchor's sockets block for ever.
BugTimedOut(r) == FALSE

\* SO_RCVTIMEO and SO_SNDTIMEO, armed on both sockets.
TimedOut(r) == r.sys = 0

\* The anchor closed, its answer is over the cap, the guest is gone, or a
\* socket timed out: nothing is written to the guest.
PumpFault ==
    \/ /\ relay.pc = "send"
       /\ ~tcp[relay.tcp].anchor
    \/ /\ relay.pc = "recv"
       /\ tcp[relay.tcp].down = <<>>
       /\ ~tcp[relay.tcp].anchor
    \/ /\ relay.pc = "recv"
       /\ tcp[relay.tcp].down # <<>>
       /\ ~WithinCap(relay.frame.leg, Head(tcp[relay.tcp].down).size)
    \/ /\ relay.pc = "reply"
       /\ ~vsock[relay.conn].guest
    \/ /\ relay.pc \in {"read", "send", "recv", "reply"}
       /\ TimedOut(relay)

PumpFails == PumpFault /\ ClosePump

RelayNext ==
    \/ Accept
    \/ BackoffOver
    \/ PumpReadsSome
    \/ PumpReadsLate
    \/ ReadsRequest
    \/ RefusesRequest
    \/ DialsNext
    \/ DialFails
    \/ Dialled
    \/ WritesSome
    \/ Forwards
    \/ ReadsAnswer
    \/ WritesBack
    \/ PumpFails

\* The daemon is killed and started again.
RelayRestarts ==
    /\ faults < MaxFaults
    /\ faults' = faults + 1
    /\ relay' = Waiting
    /\ backlog' = <<>>
    /\ vsock' = [c \in Conns |-> RelayClosed(vsock[c])]
    /\ tcp' = [c \in Conns |-> AnchorDropped(tcp[c])]
    /\ RelayUnchanged

-----------------------------------------------------------------------------
(* The anchor, from what the daemon sees of it: it answers, closes, or     *)
(* does neither.                                                           *)

AnchorAnswers(k, size) ==
    /\ tcp[k].up # <<>>
    /\ LET f == Head(tcp[k].up)
       IN  /\ answered' = answered \cup ({f} \cap begun)
           /\ tcp' = [tcp EXCEPT
                        ![k].up = Tail(@),
                        ![k].down = IF tcp[k].relay
                                    THEN Append(@, [of |-> f, size |-> size])
                                    ELSE @]
    /\ UNCHANGED <<guest, vsock, backlog, relay, calls, faults, begun,
                   delivered>>

AnchorCloses(k) ==
    /\ tcp[k].relay /\ tcp[k].anchor
    /\ tcp' = [tcp EXCEPT ![k].anchor = FALSE, ![k].up = <<>>]
    /\ UNCHANGED <<guest, vsock, backlog, relay, calls, faults, begun, answered,
                   delivered>>

-----------------------------------------------------------------------------
(* Time *)

\* The history counters stop one past the longest time that is allowed.
MaxSpent == LegBudget + PumpBudget + WriteCalls * PumpBudget + 1
Counted(n) == MinOf(n + 1, MaxSpent)

Less(n) == IF n = 0 THEN 0 ELSE n - 1
Pumping == relay.pc \notin {"accept", "backoff"}
Calling(g) == g \in Enclaves /\ guest[g].pc # "idle"

\* A timer that ran out is served first.
Tick ==
    /\ \A g \in Enclaves : Calling(g) => guest[g].sys > 0
    /\ relay.pc = "dial" => relay.dial > 0
    /\ relay.pc \notin {"accept", "dial"} => relay.sys > 0
    /\ relay.pc # "accept" \/ \E g \in Enclaves : Calling(g)
    /\ guest' = [g \in Guests |->
                    IF Calling(g)
                    THEN [guest[g] EXCEPT !.left = Less(@), !.sys = Less(@),
                                          !.spent = Counted(@)]
                    ELSE guest[g]]
    /\ relay' = [relay EXCEPT
                    !.left = Less(@), !.sys = Less(@), !.dial = Less(@),
                    !.spent = IF Pumping THEN Counted(@) ELSE @,
                    !.dialled = IF relay.pc = "dial" THEN Counted(@) ELSE @]
    /\ UNCHANGED <<vsock, backlog, tcp, calls, faults, begun, answered,
                   delivered>>

-----------------------------------------------------------------------------

Init ==
    /\ guest = [g \in Guests |-> Idle]
    /\ vsock = [c \in Conns |-> Closed]
    /\ backlog = <<>>
    /\ relay = Waiting
    /\ tcp = [c \in Conns |-> NoTcp]
    /\ calls = 0
    /\ faults = 0
    /\ begun = {}
    /\ answered = {}
    /\ delivered = {}

\* Every call was made and nothing is left to do.
Done ==
    /\ calls = MaxCalls
    /\ \A g \in Guests : guest[g].pc = "idle"
    /\ relay.pc = "accept" /\ backlog = <<>>
    /\ UNCHANGED vars

Next ==
    \/ \E g \in Enclaves : (\E leg \in Legs : Call(g, leg)) \/ EnclaveNext(g)
    \/ \E g \in Strangers : StrangerNext(g)
    \/ RelayNext
    \/ \E drops \in BOOLEAN : AcceptError(drops)
    \/ RelayRestarts
    \/ \E k \in Conns : AnchorCloses(k) \/ \E s \in Sizes : AnchorAnswers(k, s)
    \/ Tick
    \/ Done

\* Time passes and each process goes on as soon as its system call can
\* return: the bytes are there, the peer closed or the timeout is over. That
\* bytes come, that a peer takes them or that a connect completes is nobody's
\* obligation, nor is anything the anchor or the strangers do.
Fairness ==
    /\ \A g \in Enclaves : WF_vars(GuestReads(g) \/ GuestFails(g))
    /\ WF_vars(Accept \/ BackoffOver)
    /\ WF_vars(ReadsRequest \/ RefusesRequest)
    /\ WF_vars(ReadsAnswer \/ PumpFails \/ (relay.dial = 0 /\ DialFails))
    /\ WF_vars(Tick)

Spec == Init /\ [][Next]_vars /\ Fairness

-----------------------------------------------------------------------------
(* Properties *)

\* The enclave's leg ends by its deadline however slowly the host feeds it
\* bytes: the socket timeout is armed again before every read and write
\* (DeadlineSocket).
LegBounded == \A g \in Enclaves : guest[g].spent <= LegBudget

\* The head of the line moves: dialling takes one connect budget for all the
\* addresses together, and a pump overruns its deadline by at most the socket
\* timeout of every write call in flight (relay_one_pump).
PumpBounded ==
    /\ relay.dialled <= ConnectBudget
    /\ relay.spent <= PumpBudget + WriteCalls * PumpBudget

\* Both ends of the relay keep to their deadlines.
DeadlinesHold == LegBounded /\ PumpBounded

\* No guest waits for ever behind another: every connection the daemon holds
\* or has in its backlog is answered or closed, whatever the anchor and the
\* other guests do (serve_anchor_relay_loop).
EveryGuestServed ==
    \A c \in Conns : vsock[c].relay ~> ~vsock[c].relay

\* The transport keeps the promise the boot driver and the commit path rely
\* on: an answer that comes back is the anchor's answer to this call's frame
\* and no other call's, and a call always comes back (BootRelayChannel).
AC == INSTANCE AnchorChannel WITH
    pending <- [g \in Enclaves |-> guest[g].frame],
    returned <- {a.of : a \in delivered}

Channel == AC!Spec
=============================================================================
