----------------------- MODULE RelayTransport_proofs -----------------------
(***************************************************************************)
(* Proofs about RelayTransport, for any number of guests, connections,     *)
(* addresses and faults and for every budget.                              *)
(*                                                                         *)
(* Deadlines: a leg's elapsed time and what its deadline leaves add up to  *)
(* at most the leg's budget, and the socket timeout never outlives the     *)
(* deadline. A pump that has lapsed has only the socket timeout under way  *)
(* and one more per write call left.                                       *)
(*                                                                         *)
(* Channel: a frame or an answer is only ever found on the connection of   *)
(* the call that sent it, and a number is the number of one call: so what  *)
(* a call reads is the anchor's answer to its own frame.                   *)
(***************************************************************************)
EXTENDS RelayTransport, SequenceTheorems, TLAPS

Answers == [of : Frames, size : Sizes]

GuestRecs == [pc : {"idle", "connect", "write", "read"},
              frame : Frames \cup {NoFrame}, conn : Conns \cup {0},
              left : Nat, sys : Nat, spent : Nat]

RelayRecs == [pc : {"accept", "backoff", "read", "dial", "send", "recv", "reply"},
              conn : Conns \cup {0}, tcp : Conns \cup {0},
              frame : Frames \cup {NoFrame}, answer : Answers \cup {NoAnswer},
              addr : Nat, dial : Nat, left : Nat, sys : Nat, wrote : Nat,
              spent : Nat, dialled : Nat]

VsockRecs == [up : Seq(Frames), down : Seq(Answers),
              guest : BOOLEAN, relay : BOOLEAN]
TcpRecs == [up : Seq(Frames), down : Seq(Answers),
            relay : BOOLEAN, anchor : BOOLEAN]

\* The types, and that what is under way has its connections.
TypeOK ==
    /\ guest \in [Guests -> GuestRecs]
    /\ vsock \in [Conns -> VsockRecs]
    /\ backlog \in Seq(Conns)
    /\ relay \in RelayRecs
    /\ tcp \in [Conns -> TcpRecs]
    /\ calls \in 0 .. MaxCalls
    /\ begun \in SUBSET Frames
    /\ answered \in SUBSET Frames
    /\ delivered \in SUBSET Answers
    /\ \A g \in Guests : guest[g].pc # "idle" => guest[g].conn \in Conns
    /\ \A g \in Enclaves : guest[g].pc # "idle" => guest[g].frame \in Frames
    /\ relay.pc \notin {"accept", "backoff"} => relay.conn \in Conns
    /\ relay.pc \in {"dial", "send", "recv", "reply"} => relay.frame \in Frames
    /\ relay.pc \in {"send", "recv", "reply"} => relay.tcp \in Conns
    /\ relay.pc = "reply" => relay.answer \in Answers

-----------------------------------------------------------------------------
(* Deadlines *)

\* An enclave's call: the socket's timeout is within the deadline, and what
\* was spent and what is left are within the budget.
LegTimed(r) ==
    /\ r.pc = "idle" => r.spent = 0
    /\ r.pc # "idle" => r.sys <= r.left /\ r.spent + r.left <= LegBudget

\* What the write calls after this one may still take.
Reserve(n) == (WriteCalls - 1 - n) * PumpBudget

\* The daemon. Reads look at the deadline before they arm the timeout; writes
\* do not, but a write_all has a bounded number of calls.
PumpTimed(r) ==
    /\ r.pc \in {"accept", "backoff"} => r.spent = 0
    /\ r.pc \in {"accept", "backoff", "read"} => r.dialled = 0
    /\ r.pc = "read" => r.wrote = 0
    /\ r.pc \notin {"accept", "backoff"} /\ r.left > 0 =>
          r.spent + r.left <= PumpBudget
    /\ r.pc = "dial" =>
          /\ r.wrote = 0
          /\ r.dial <= r.left
          /\ r.spent + r.left <= PumpBudget
          /\ r.dialled + r.dial <= ConnectBudget
    /\ r.pc \in {"read", "recv"} => r.spent + r.sys <= 2 * PumpBudget
    /\ r.pc \in {"send", "reply"} =>
          /\ r.wrote \in 0 .. WriteCalls - 1
          /\ r.spent + r.sys + Reserve(r.wrote) <=
                PumpBudget + WriteCalls * PumpBudget
    /\ r.dialled <= ConnectBudget

TimersInv ==
    /\ \A g \in Enclaves : LegTimed(guest[g])
    /\ PumpTimed(relay)

-----------------------------------------------------------------------------
(* The channel *)

\* f is on connection c: it has the connection's number, and if an enclave's
\* call has that number then f is that call's frame.
FrameOn(f, c) ==
    /\ f.call = c
    /\ c <= calls
    /\ \A b \in begun : b.call = c => b = f

\* An answer to such a frame, which the anchor has given.
AnswerOn(a, c) ==
    /\ FrameOn(a.of, c)
    /\ a.of \in begun => a.of \in answered

\* A call in progress has a number of its own.
GuestsApart ==
    /\ \A g \in Guests : guest[g].pc # "idle" => guest[g].conn <= calls
    /\ \A g, h \in Guests :
          guest[g].pc # "idle" /\ guest[h].pc # "idle" /\ g # h =>
              guest[g].conn # guest[h].conn

\* An enclave's call sends a frame with its number and has not returned; the
\* other guests have numbers no enclave's call had.
CallsOwn ==
    /\ \A g \in Guests : guest[g].pc = "idle" => guest[g].frame = NoFrame
    /\ \A g \in Enclaves : guest[g].pc # "idle" =>
          /\ guest[g].frame \in begun
          /\ guest[g].frame.call = guest[g].conn
          /\ \A a \in delivered : a.of # guest[g].frame
    /\ \A g \in Strangers : guest[g].pc # "idle" =>
          \A b \in begun : b.call # guest[g].conn

\* One frame per number, answered and delivered after it was begun.
HistoryOrdered ==
    /\ \A b \in begun : FrameOn(b, b.call)
    /\ answered \subseteq begun
    /\ \A a \in delivered : a.of \in begun

\* The two directions of connection c.
Carries(w, c) ==
    /\ \A f \in Range(w.up) : FrameOn(f, c)
    /\ \A a \in Range(w.down) : AnswerOn(a, c)

OnWires == \A c \in Conns : Carries(vsock[c], c) /\ Carries(tcp[c], c)

\* What the daemon holds belongs to the connection it serves.
InHand ==
    /\ relay.pc \in {"dial", "send", "recv", "reply"} =>
          FrameOn(relay.frame, relay.conn)
    /\ relay.pc \in {"send", "recv", "reply"} => relay.tcp = relay.conn
    /\ relay.pc = "reply" => AnswerOn(relay.answer, relay.conn)

ChannelInv == GuestsApart /\ CallsOwn /\ HistoryOrdered /\ OnWires /\ InHand

-----------------------------------------------------------------------------
(* Records and sequences *)

\* A connection keeps its type whatever end closes or writes.
LEMMA VsockTypes ==
    /\ Open \in VsockRecs /\ Closed \in VsockRecs
    /\ \A v \in VsockRecs :
          /\ GuestClosed(v) \in VsockRecs
          /\ RelayClosed(v) \in VsockRecs
          /\ \A s \in Seq(Frames) : [v EXCEPT !.up = s] \in VsockRecs
          /\ \A s \in Seq(Answers) :
                [RelayClosed(v) EXCEPT !.down = s] \in VsockRecs
<1>1. << >> \in Seq(Frames) /\ << >> \in Seq(Answers)
  OBVIOUS
<1>2. Open \in VsockRecs /\ Closed \in VsockRecs
  BY <1>1 DEF Open, Closed, VsockRecs
<1>3. ASSUME NEW v \in VsockRecs
      PROVE  /\ GuestClosed(v) \in VsockRecs
             /\ RelayClosed(v) \in VsockRecs
             /\ \A s \in Seq(Frames) : [v EXCEPT !.up = s] \in VsockRecs
             /\ \A s \in Seq(Answers) :
                   [RelayClosed(v) EXCEPT !.down = s] \in VsockRecs
  BY <1>1, <1>3 DEF GuestClosed, RelayClosed, VsockRecs
<1> QED  BY <1>2, <1>3

LEMMA TcpTypes ==
    /\ NoTcp \in TcpRecs
    /\ \A t \in TcpRecs :
          /\ AnchorDropped(t) \in TcpRecs
          /\ [t EXCEPT !.relay = TRUE, !.anchor = TRUE] \in TcpRecs
          /\ [t EXCEPT !.anchor = FALSE, !.up = << >>] \in TcpRecs
          /\ \A s \in Seq(Frames) : [t EXCEPT !.up = s] \in TcpRecs
          /\ \A d \in Seq(Answers) : [t EXCEPT !.down = d] \in TcpRecs
          /\ \A s \in Seq(Frames), d \in Seq(Answers) :
                [t EXCEPT !.up = s, !.down = d] \in TcpRecs
<1>1. << >> \in Seq(Frames) /\ << >> \in Seq(Answers)
  OBVIOUS
<1>2. NoTcp \in TcpRecs
  BY <1>1 DEF NoTcp, TcpRecs
<1>3. ASSUME NEW t \in TcpRecs
      PROVE  /\ AnchorDropped(t) \in TcpRecs
             /\ [t EXCEPT !.relay = TRUE, !.anchor = TRUE] \in TcpRecs
             /\ [t EXCEPT !.anchor = FALSE, !.up = << >>] \in TcpRecs
             /\ \A s \in Seq(Frames) : [t EXCEPT !.up = s] \in TcpRecs
             /\ \A d \in Seq(Answers) : [t EXCEPT !.down = d] \in TcpRecs
             /\ \A s \in Seq(Frames), d \in Seq(Answers) :
                   [t EXCEPT !.up = s, !.down = d] \in TcpRecs
  BY <1>1, <1>3 DEF AnchorDropped, NoTcp, TcpRecs
<1> QED  BY <1>2, <1>3

\* The records of nobody's call and of a daemon without a pump.
LEMMA IdleTypes == Idle \in GuestRecs /\ Waiting \in RelayRecs
  BY DEF Idle, Waiting, GuestRecs, RelayRecs

\* The connections of a call under way and of a pump.
LEMMA GuestVsock ==
    ASSUME TypeOK, NEW g \in Guests, guest[g].pc # "idle"
    PROVE  /\ guest[g] \in GuestRecs
           /\ guest[g].conn \in Conns
           /\ vsock[guest[g].conn] \in VsockRecs
           /\ vsock[guest[g].conn].up \in Seq(Frames)
           /\ vsock[guest[g].conn].down \in Seq(Answers)
  BY DEF TypeOK, VsockRecs

LEMMA RelayConns ==
    ASSUME TypeOK
    PROVE  /\ relay.pc \notin {"accept", "backoff"} =>
                /\ relay.conn \in Conns
                /\ vsock[relay.conn] \in VsockRecs
                /\ vsock[relay.conn].up \in Seq(Frames)
                /\ vsock[relay.conn].down \in Seq(Answers)
           /\ relay.pc \in {"send", "recv", "reply"} =>
                /\ relay.tcp \in Conns
                /\ tcp[relay.tcp] \in TcpRecs
                /\ tcp[relay.tcp].up \in Seq(Frames)
                /\ tcp[relay.tcp].down \in Seq(Answers)
  BY DEF TypeOK, VsockRecs, TcpRecs

\* The head of what is not empty is one of its elements, and what is left holds
\* nothing new.
LEMMA HeadTail ==
    ASSUME NEW S, NEW s \in Seq(S), s # << >>
    PROVE  /\ Head(s) \in S /\ Tail(s) \in Seq(S)
           /\ Head(s) \in Range(s) /\ Range(Tail(s)) \subseteq Range(s)
<1>1. /\ Head(s) \in S /\ Tail(s) \in Seq(S)
      /\ 1 \in DOMAIN s /\ Head(s) = s[1]
      /\ \A i \in DOMAIN Tail(s) : i + 1 \in DOMAIN s /\ Tail(s)[i] = s[i + 1]
  OBVIOUS
<1> QED  BY <1>1 DEF Range

\* What is appended is the only thing new.
LEMMA Appended ==
    ASSUME NEW S, NEW s \in Seq(S), NEW x \in S
    PROVE  /\ Append(s, x) \in Seq(S)
           /\ Range(Append(s, x)) \subseteq Range(s) \cup {x}
<1>1. /\ Append(s, x) \in Seq(S)
      /\ \A i \in DOMAIN Append(s, x) :
            \/ i \in DOMAIN s /\ Append(s, x)[i] = s[i]
            \/ Append(s, x)[i] = x
  OBVIOUS
<1> QED  BY <1>1 DEF Range

-----------------------------------------------------------------------------
(* Types *)

LEMMA CloseTypes == TypeOK /\ relay.pc \notin {"accept", "backoff"} /\ ClosePump => TypeOK'
<1> SUFFICES ASSUME TypeOK, relay.pc \notin {"accept", "backoff"}, ClosePump
             PROVE  TypeOK'
  OBVIOUS
<1>1. relay' \in RelayRecs /\ relay'.pc = "accept"
  BY IdleTypes DEF ClosePump, Waiting
<1>2. vsock' \in [Conns -> VsockRecs]
  BY VsockTypes, RelayConns DEF ClosePump, TypeOK
<1>3. tcp' \in [Conns -> TcpRecs]
  BY TcpTypes DEF ClosePump, TypeOK, RelayRecs
<1> QED  BY <1>1, <1>2, <1>3 DEF ClosePump, RelayUnchanged, TypeOK

LEMMA ReturnTypes ==
    ASSUME TypeOK, NEW g \in Guests, guest[g].pc # "idle",
           GuestReturns(g), delivered' \in SUBSET Answers
    PROVE  TypeOK'
<1>1. vsock' \in [Conns -> VsockRecs]
  BY VsockTypes, GuestVsock DEF GuestReturns, TypeOK
<1>2. guest' \in [Guests -> GuestRecs]
  BY IdleTypes DEF GuestReturns, TypeOK
<1>3. /\ \A h \in Guests : guest'[h].pc # "idle" => guest'[h].conn \in Conns
      /\ \A h \in Enclaves : guest'[h].pc # "idle" => guest'[h].frame \in Frames
  BY DEF GuestReturns, TypeOK, Idle, Guests
<1> QED  BY <1>1, <1>2, <1>3 DEF GuestReturns, TypeOK

LEMMA EnclaveTypes ==
    ASSUME TypeOK, NEW g \in Enclaves,
           (\E leg \in Legs : Call(g, leg)) \/ EnclaveNext(g)
    PROVE  TypeOK'
<1> USE ConstantsAssumption
<1>g. g \in Guests
  BY DEF Guests
<1>1. ASSUME NEW leg \in Legs, Call(g, leg)  PROVE TypeOK'
  <2>1. calls + 1 \in Conns /\ calls' \in 0 .. MaxCalls
    BY <1>1 DEF Call, TypeOK, Conns
  <2> DEFINE f == [call |-> calls + 1, leg |-> leg]
  <2>2. f \in Frames
    BY <2>1 DEF Frames
  <2>3. PICK r : r = [pc |-> "connect", conn |-> calls + 1, frame |-> f,
                      left |-> LegBudget, sys |-> Armed(LegBudget), spent |-> 0]
    OBVIOUS
  <2>4. r \in GuestRecs /\ r.conn \in Conns /\ r.frame = f
    BY <2>1, <2>2, <2>3 DEF GuestRecs, Armed
  <2>5. guest' = [guest EXCEPT ![g] = r]
    BY <1>1, <2>3 DEF Call
  <2>6. guest' \in [Guests -> GuestRecs]
    BY <2>4, <2>5 DEF TypeOK
  <2>7. /\ \A h \in Guests : guest'[h].pc # "idle" => guest'[h].conn \in Conns
        /\ \A h \in Enclaves : guest'[h].pc # "idle" => guest'[h].frame \in Frames
    BY <2>2, <2>4, <2>5 DEF TypeOK, Guests
  <2>8. begun' \in SUBSET Frames
    BY <1>g, <2>2, <2>4, <2>5, <1>1 DEF Call, TypeOK
  <2> QED  BY <1>1, <2>1, <2>6, <2>7, <2>8 DEF Call, TypeOK
<1>2. ASSUME Connected(g)  PROVE TypeOK'
  <2>1. guest[g].conn \in Conns /\ guest[g] \in GuestRecs
    BY <1>2, <1>g, GuestVsock DEF Connected
  <2>2. vsock' \in [Conns -> VsockRecs] /\ backlog' \in Seq(Conns)
    BY <1>2, <2>1, VsockTypes DEF Connected, TypeOK
  <2>3. guest' \in [Guests -> GuestRecs]
    BY <1>2, <1>g, <2>1 DEF Connected, TypeOK, GuestRecs, Armed
  <2>4. /\ \A h \in Guests : guest'[h].pc # "idle" => guest'[h].conn \in Conns
        /\ \A h \in Enclaves : guest'[h].pc # "idle" => guest'[h].frame \in Frames
    BY <1>2, <1>g, <2>1 DEF Connected, TypeOK, GuestRecs, Guests
  <2> QED  BY <1>2, <2>2, <2>3, <2>4 DEF Connected, TypeOK
<1>3. ASSUME ConnectRefused(g)  PROVE TypeOK'
  <2>1. guest[g].pc # "idle" /\ GuestReturns(g) /\ delivered' \in SUBSET Answers
    BY <1>3 DEF ConnectRefused, TypeOK
  <2> QED  BY <2>1, <1>g, ReturnTypes
<1>4. ASSUME GuestWrites(g)  PROVE TypeOK'
  <2>1. guest[g].conn \in Conns /\ guest[g] \in GuestRecs
    BY <1>4, <1>g, GuestVsock DEF GuestWrites
  <2>2. vsock' \in [Conns -> VsockRecs]
    <3>0. guest[g].frame \in Frames
      BY <1>4 DEF GuestWrites, TypeOK
    <3>1. PICK v : v = vsock[guest[g].conn]
      OBVIOUS
    <3>2. v \in VsockRecs /\ v.up \in Seq(Frames)
      BY <3>1, <1>4, <1>g, GuestVsock DEF GuestWrites
    <3>3. [v EXCEPT !.up = Append(v.up, guest[g].frame)] \in VsockRecs
      BY <3>0, <3>2, VsockTypes, Appended
    <3>4. vsock' = [vsock EXCEPT ![guest[g].conn] =
                       [v EXCEPT !.up = Append(v.up, guest[g].frame)]]
      BY <1>4, <3>1, <2>1 DEF GuestWrites, TypeOK
    <3> QED  BY <3>3, <3>4 DEF TypeOK
  <2>3. guest' \in [Guests -> GuestRecs]
    BY <1>4, <1>g, <2>1 DEF GuestWrites, TypeOK, GuestRecs, Armed
  <2>4. /\ \A h \in Guests : guest'[h].pc # "idle" => guest'[h].conn \in Conns
        /\ \A h \in Enclaves : guest'[h].pc # "idle" => guest'[h].frame \in Frames
    BY <1>4, <1>g, <2>1 DEF GuestWrites, TypeOK, GuestRecs, Guests
  <2> QED  BY <1>4, <2>2, <2>3, <2>4 DEF GuestWrites, TypeOK
<1>5. ASSUME GuestReadsSome(g)  PROVE TypeOK'
  <2>1. guest[g] \in GuestRecs
    BY <1>5, <1>g, GuestVsock DEF GuestReadsSome
  <2>2. guest' \in [Guests -> GuestRecs]
    BY <1>5, <1>g, <2>1 DEF GuestReadsSome, TypeOK, GuestRecs, Armed
  <2>3. /\ \A h \in Guests : guest'[h].pc # "idle" => guest'[h].conn \in Conns
        /\ \A h \in Enclaves : guest'[h].pc # "idle" => guest'[h].frame \in Frames
    BY <1>5, <1>g, <2>1 DEF GuestReadsSome, TypeOK, GuestRecs, Guests
  <2> QED  BY <1>5, <2>2, <2>3 DEF GuestReadsSome, TypeOK
<1>6. ASSUME GuestReads(g)  PROVE TypeOK'
  <2>1. guest[g].pc # "idle" /\ GuestReturns(g)
    BY <1>6 DEF GuestReads
  <2>2. PICK s : s = vsock[guest[g].conn].down
    OBVIOUS
  <2>3. s \in Seq(Answers) /\ s # << >>
    BY <2>1, <2>2, <1>6, <1>g, GuestVsock DEF GuestReads
  <2>4. delivered' \in SUBSET Answers
    BY <2>2, <2>3, <1>6, HeadTail DEF GuestReads, TypeOK
  <2> QED  BY <2>1, <2>4, <1>g, ReturnTypes
<1>7. ASSUME GuestFails(g)  PROVE TypeOK'
  <2>1. guest[g].pc # "idle" /\ GuestReturns(g) /\ delivered' \in SUBSET Answers
    BY <1>7 DEF GuestFails, ChannelFault, TypeOK
  <2> QED  BY <2>1, <1>g, ReturnTypes
<1> QED  BY <1>1, <1>2, <1>3, <1>4, <1>5, <1>6, <1>7 DEF EnclaveNext

LEMMA StrangerTypes ==
    ASSUME TypeOK, NEW g \in Strangers, StrangerNext(g)
    PROVE  TypeOK'
<1> USE ConstantsAssumption
<1>g. g \in Guests /\ g \notin Enclaves
  BY DEF Guests
<1>1. ASSUME StrangerConnects(g)  PROVE TypeOK'
  <2>1. calls + 1 \in Conns /\ calls' \in 0 .. MaxCalls
    BY <1>1 DEF StrangerConnects, TypeOK, Conns
  <2>2. vsock' \in [Conns -> VsockRecs] /\ backlog' \in Seq(Conns)
    BY <1>1, <2>1, VsockTypes DEF StrangerConnects, TypeOK
  <2>3. PICK r : r = [Idle EXCEPT !.pc = "write", !.conn = calls + 1]
    OBVIOUS
  <2>4. r \in GuestRecs /\ r.conn \in Conns
    BY <2>1, <2>3 DEF GuestRecs, Idle
  <2>5. guest' = [guest EXCEPT ![g] = r]
    BY <1>1, <2>3 DEF StrangerConnects
  <2>6. guest' \in [Guests -> GuestRecs]
    BY <2>4, <2>5 DEF TypeOK
  <2>7. /\ \A h \in Guests : guest'[h].pc # "idle" => guest'[h].conn \in Conns
        /\ \A h \in Enclaves : guest'[h].pc # "idle" => guest'[h].frame \in Frames
    BY <1>g, <2>4, <2>5 DEF TypeOK, Guests
  <2> QED  BY <1>1, <2>1, <2>2, <2>6, <2>7 DEF StrangerConnects, TypeOK
<1>2. ASSUME NEW leg \in {"short", "junk"}, StrangerSends(g, leg)  PROVE TypeOK'
  <2>1. guest[g].conn \in Conns /\ guest[g] \in GuestRecs
    BY <1>2, <1>g, GuestVsock DEF StrangerSends
  <2>2. [call |-> guest[g].conn, leg |-> leg] \in Frames
    BY <2>1 DEF Frames, Legs
  <2>3. PICK f \in Frames : f = [call |-> guest[g].conn, leg |-> leg]
    BY <2>2
  <2>4. PICK v : v = vsock[guest[g].conn]
    OBVIOUS
  <2>5. v \in VsockRecs /\ v.up \in Seq(Frames)
    BY <2>4, <1>2, <1>g, GuestVsock DEF StrangerSends
  <2>6. [v EXCEPT !.up = Append(v.up, f)] \in VsockRecs
    BY <2>5, VsockTypes, Appended
  <2>7. vsock' = [vsock EXCEPT ![guest[g].conn] = [v EXCEPT !.up = Append(v.up, f)]]
    BY <1>2, <2>1, <2>3, <2>4 DEF StrangerSends, TypeOK
  <2>8. vsock' \in [Conns -> VsockRecs]
    BY <2>6, <2>7 DEF TypeOK
  <2>9. guest' \in [Guests -> GuestRecs]
    BY <1>2, <1>g, <2>1 DEF StrangerSends, TypeOK, GuestRecs
  <2>10. /\ \A h \in Guests : guest'[h].pc # "idle" => guest'[h].conn \in Conns
         /\ \A h \in Enclaves : guest'[h].pc # "idle" => guest'[h].frame \in Frames
    BY <1>2, <1>g, <2>1 DEF StrangerSends, TypeOK, GuestRecs, Guests
  <2> QED  BY <1>2, <2>8, <2>9, <2>10 DEF StrangerSends, TypeOK
<1>3. ASSUME StrangerLeaves(g)  PROVE TypeOK'
  <2>1. guest[g].pc # "idle" /\ GuestReturns(g) /\ delivered' \in SUBSET Answers
    BY <1>3 DEF StrangerLeaves, GuestReturns, TypeOK
  <2> QED  BY <2>1, <1>g, ReturnTypes
<1> QED  BY <1>1, <1>2, <1>3 DEF StrangerNext

LEMMA RelayTypes == TypeOK /\ RelayNext => TypeOK'
<1> SUFFICES ASSUME TypeOK, RelayNext  PROVE TypeOK'
  OBVIOUS
<1> USE ConstantsAssumption
<1>0. relay \in RelayRecs
  BY DEF TypeOK
<1>1. ASSUME Accept  PROVE TypeOK'
  <2>1. Head(backlog) \in Conns /\ Tail(backlog) \in Seq(Conns)
    BY <1>1, HeadTail DEF Accept, TypeOK
  <2>2. relay' \in RelayRecs /\ relay'.pc = "read" /\ relay'.conn \in Conns
    BY <1>1, <2>1 DEF Accept, Waiting, RelayRecs
  <2> QED  BY <1>1, <2>1, <2>2 DEF Accept, RelayUnchanged, TypeOK
<1>2. ASSUME BackoffOver  PROVE TypeOK'
  <2>1. relay' \in RelayRecs /\ relay'.pc = "accept"
    BY <1>2, IdleTypes DEF BackoffOver, Waiting
  <2> QED  BY <1>2, <2>1 DEF BackoffOver, RelayUnchanged, TypeOK
<1>3. ASSUME PumpReadsSome  PROVE TypeOK'
  <2>1. /\ relay' \in RelayRecs /\ relay'.pc = relay.pc /\ relay'.conn = relay.conn
        /\ relay'.tcp = relay.tcp /\ relay'.frame = relay.frame
        /\ relay'.answer = relay.answer
    BY <1>3, <1>0 DEF PumpReadsSome, PumpStep, RelayRecs
  <2> QED  BY <1>3, <2>1 DEF PumpReadsSome, PumpStep, RelayUnchanged, TypeOK
<1>4. ASSUME PumpReadsLate  PROVE TypeOK'
  BY <1>4, CloseTypes DEF PumpReadsLate
<1>5. ASSUME ReadsRequest  PROVE TypeOK'
  <2>1. PICK v : v = vsock[relay.conn]
    OBVIOUS
  <2>2. v \in VsockRecs /\ v.up \in Seq(Frames) /\ v.up # << >> /\ relay.conn \in Conns
    BY <1>5, <2>1, RelayConns DEF ReadsRequest
  <2>3. Head(v.up) \in Frames /\ Tail(v.up) \in Seq(Frames)
    BY <2>2, HeadTail
  <2>4. vsock' = [vsock EXCEPT ![relay.conn] = [v EXCEPT !.up = Tail(v.up)]]
    BY <1>5, <2>1, <2>2 DEF ReadsRequest, TypeOK
  <2>5. vsock' \in [Conns -> VsockRecs]
    BY <2>2, <2>3, <2>4, VsockTypes DEF TypeOK
  <2>6. PICK d \in Nat : d = MinOf(ConnectBudget, relay.left)
    BY <1>0 DEF MinOf, RelayRecs
  <2>7. relay' = [relay EXCEPT !.pc = "dial", !.frame = Head(v.up), !.addr = 1,
                               !.dial = d, !.sys = 0]
    BY <1>5, <2>1, <2>6 DEF ReadsRequest
  <2>8. /\ relay' \in RelayRecs /\ relay'.pc = "dial" /\ relay'.conn = relay.conn
        /\ relay'.frame \in Frames
    BY <2>3, <2>7, <1>0 DEF RelayRecs
  <2> QED  BY <1>5, <2>2, <2>5, <2>8 DEF ReadsRequest, RelayUnchanged, TypeOK
<1>6. ASSUME RefusesRequest  PROVE TypeOK'
  BY <1>6, CloseTypes DEF RefusesRequest
<1>7. ASSUME DialsNext  PROVE TypeOK'
  <2>0. PICK n \in Nat : n = relay.addr + 1
    BY <1>0 DEF RelayRecs
  <2>1. /\ relay' \in RelayRecs /\ relay'.pc = relay.pc /\ relay'.conn = relay.conn
        /\ relay'.tcp = relay.tcp /\ relay'.frame = relay.frame
        /\ relay'.answer = relay.answer
    <3>1. relay' = [relay EXCEPT !.addr = n, !.dial = relay.dial]
      BY <1>7, <2>0 DEF DialsNext, DialLeft, PumpStep
    <3> QED  BY <3>1, <1>0 DEF RelayRecs
  <2> QED  BY <1>7, <2>1 DEF DialsNext, PumpStep, RelayUnchanged, TypeOK
<1>8. ASSUME DialFails  PROVE TypeOK'
  BY <1>8, CloseTypes DEF DialFails
<1>9. ASSUME Dialled  PROVE TypeOK'
  <2>1. relay.conn \in Conns /\ relay.frame \in Frames
    BY <1>9 DEF Dialled, TypeOK
  <2>2. /\ relay' \in RelayRecs /\ relay'.pc = "send" /\ relay'.conn = relay.conn
        /\ relay'.frame = relay.frame /\ relay'.tcp = relay.conn
    BY <1>9, <1>0, <2>1 DEF Dialled, AnchorConn, RelayRecs
  <2>3. tcp' = [tcp EXCEPT ![relay.conn] =
                   [tcp[relay.conn] EXCEPT !.relay = TRUE, !.anchor = TRUE]]
    BY <1>9, <2>1 DEF Dialled, AnchorConn, TypeOK
  <2>4. tcp' \in [Conns -> TcpRecs]
    BY <2>1, <2>3, TcpTypes DEF TypeOK
  <2> QED  BY <1>9, <2>1, <2>2, <2>4 DEF Dialled, RelayUnchanged, TypeOK
<1>10. ASSUME WritesSome  PROVE TypeOK'
  <2>0. PICK n \in Nat : n = relay.wrote + 1
    BY <1>0 DEF RelayRecs
  <2>1. /\ relay' \in RelayRecs /\ relay'.pc = relay.pc /\ relay'.conn = relay.conn
        /\ relay'.tcp = relay.tcp /\ relay'.frame = relay.frame
        /\ relay'.answer = relay.answer
    <3>1. relay' = [relay EXCEPT !.wrote = n, !.sys = PumpBudget]
      BY <1>10, <2>0 DEF WritesSome, PumpStep
    <3> QED  BY <3>1, <1>0 DEF RelayRecs
  <2> QED  BY <1>10, <2>1 DEF WritesSome, PumpStep, RelayUnchanged, TypeOK
<1>11. ASSUME Forwards  PROVE TypeOK'
  <2>1. relay.conn \in Conns /\ relay.tcp \in Conns /\ relay.frame \in Frames
    BY <1>11 DEF Forwards, TypeOK
  <2>2. PICK u : u = tcp[relay.tcp]
    OBVIOUS
  <2>3. u \in TcpRecs /\ u.up \in Seq(Frames)
    BY <1>11, <2>2, RelayConns DEF Forwards
  <2>4. PICK w : w = [u EXCEPT !.up = Append(u.up, relay.frame)]
    OBVIOUS
  <2>5. w \in TcpRecs
    BY <2>1, <2>3, <2>4, Appended, TcpTypes
  <2>6. /\ w = [tcp[relay.tcp] EXCEPT !.up = Append(@, relay.frame)]
        /\ w = [tcp[relay.tcp] EXCEPT !.up = Append(tcp[relay.tcp].up, relay.frame)]
    BY <2>2, <2>4
  <2>7. CASE Lapsed(relay)
    <3>1. /\ relay' = Waiting
          /\ vsock' = [vsock EXCEPT ![relay.conn] = RelayClosed(vsock[relay.conn])]
          /\ tcp' = [tcp EXCEPT ![relay.tcp] = AnchorDropped(w)]
      BY <1>11, <2>6, <2>7 DEF Forwards
    <3>2. vsock' \in [Conns -> VsockRecs] /\ tcp' \in [Conns -> TcpRecs]
      BY <3>1, <2>1, <2>5, VsockTypes, TcpTypes DEF TypeOK
    <3>3. relay' \in RelayRecs /\ relay'.pc = "accept"
      BY <3>1, IdleTypes DEF Waiting
    <3> QED  BY <1>11, <3>2, <3>3 DEF Forwards, RelayUnchanged, TypeOK
  <2>8. CASE ~Lapsed(relay)
    <3>1. /\ relay' = [relay EXCEPT !.pc = "recv", !.sys = PumpBudget]
          /\ tcp' = [tcp EXCEPT ![relay.tcp] = w] /\ vsock' = vsock
      BY <1>11, <2>6, <2>8 DEF Forwards
    <3>2. /\ relay' \in RelayRecs /\ relay'.pc = "recv" /\ relay'.conn = relay.conn
          /\ relay'.tcp = relay.tcp /\ relay'.frame = relay.frame
      BY <3>1, <1>0 DEF RelayRecs
    <3>3. tcp' \in [Conns -> TcpRecs]
      BY <3>1, <2>1, <2>5 DEF TypeOK
    <3> QED  BY <1>11, <2>1, <3>1, <3>2, <3>3 DEF Forwards, RelayUnchanged, TypeOK
  <2> QED  BY <2>7, <2>8
<1>12. ASSUME ReadsAnswer  PROVE TypeOK'
  <2>1. relay.conn \in Conns /\ relay.tcp \in Conns /\ relay.frame \in Frames
    BY <1>12 DEF ReadsAnswer, TypeOK
  <2>2. PICK u : u = tcp[relay.tcp]
    OBVIOUS
  <2>3. u \in TcpRecs /\ u.down \in Seq(Answers) /\ u.down # << >>
    BY <1>12, <2>2, RelayConns DEF ReadsAnswer
  <2>4. Head(u.down) \in Answers /\ Tail(u.down) \in Seq(Answers)
    BY <2>3, HeadTail
  <2>5. relay' = [relay EXCEPT !.pc = "reply", !.answer = Head(u.down),
                               !.sys = PumpBudget, !.wrote = 0]
    BY <1>12, <2>2 DEF ReadsAnswer
  <2>6. /\ relay' \in RelayRecs /\ relay'.pc = "reply" /\ relay'.conn = relay.conn
        /\ relay'.tcp = relay.tcp /\ relay'.frame = relay.frame
        /\ relay'.answer \in Answers
    BY <2>4, <2>5, <1>0 DEF RelayRecs
  <2>7. tcp' = [tcp EXCEPT ![relay.tcp] = [u EXCEPT !.down = Tail(u.down)]]
    BY <1>12, <2>1, <2>2 DEF ReadsAnswer, TypeOK
  <2>8. tcp' \in [Conns -> TcpRecs]
    BY <2>1, <2>3, <2>4, <2>7, TcpTypes DEF TypeOK
  <2> QED  BY <1>12, <2>1, <2>6, <2>8 DEF ReadsAnswer, RelayUnchanged, TypeOK
<1>13. ASSUME WritesBack  PROVE TypeOK'
  <2>1. relay.conn \in Conns /\ relay.tcp \in Conns /\ relay.answer \in Answers
    BY <1>13 DEF WritesBack, TypeOK
  <2>2. PICK v : v = vsock[relay.conn]
    OBVIOUS
  <2>3. v \in VsockRecs /\ v.down \in Seq(Answers)
    BY <1>13, <2>2, RelayConns DEF WritesBack
  <2>5. vsock' = [vsock EXCEPT ![relay.conn] =
                     [RelayClosed(v) EXCEPT !.down = Append(v.down, relay.answer)]]
    BY <1>13, <2>2 DEF WritesBack
  <2>6. vsock' \in [Conns -> VsockRecs]
    BY <2>1, <2>3, <2>5, Appended, VsockTypes DEF TypeOK
  <2>7. tcp' \in [Conns -> TcpRecs]
    BY <1>13, <2>1, TcpTypes DEF WritesBack, TypeOK
  <2>8. relay' \in RelayRecs /\ relay'.pc = "accept"
    BY <1>13, IdleTypes DEF WritesBack, Waiting
  <2> QED  BY <1>13, <2>6, <2>7, <2>8 DEF WritesBack, RelayUnchanged, TypeOK
<1>14. ASSUME PumpFails  PROVE TypeOK'
  BY <1>14, CloseTypes DEF PumpFails, PumpFault
<1> QED  BY <1>1, <1>2, <1>3, <1>4, <1>5, <1>6, <1>7, <1>8, <1>9, <1>10, <1>11,
            <1>12, <1>13, <1>14 DEF RelayNext

\* What time does to the timers, and that it touches nothing else.
LEMMA LessCounted ==
    ASSUME NEW n \in Nat
    PROVE  /\ Less(n) \in Nat /\ Less(n) <= n
           /\ n > 0 => Less(n) = n - 1
           /\ Less(0) = 0
           /\ Counted(n) \in Nat /\ Counted(n) <= n + 1
<1>1. PICK w \in Nat : w = WriteCalls * PumpBudget
  BY ConstantsAssumption
<1>2. MaxSpent \in Nat
  BY <1>1, ConstantsAssumption DEF MaxSpent
<1> QED  BY <1>2 DEF Less, Counted, MinOf

LEMMA TickRelay ==
    ASSUME TypeOK, Tick
    PROVE  /\ relay' \in RelayRecs /\ relay'.pc = relay.pc /\ relay'.conn = relay.conn
           /\ relay'.tcp = relay.tcp /\ relay'.frame = relay.frame
           /\ relay'.answer = relay.answer /\ relay'.wrote = relay.wrote
           /\ relay'.left = Less(relay.left) /\ relay'.sys = Less(relay.sys)
           /\ relay'.dial = Less(relay.dial)
           /\ relay'.spent = IF Pumping THEN Counted(relay.spent) ELSE relay.spent
           /\ relay'.dialled = IF relay.pc = "dial" THEN Counted(relay.dialled)
                                                   ELSE relay.dialled
<1>1. relay \in RelayRecs
  BY DEF TypeOK
<1>2. PICK l \in Nat : l = Less(relay.left)
  BY <1>1, LessCounted DEF RelayRecs
<1>3. PICK s \in Nat : s = Less(relay.sys)
  BY <1>1, LessCounted DEF RelayRecs
<1>4. PICK d \in Nat : d = Less(relay.dial)
  BY <1>1, LessCounted DEF RelayRecs
<1>5. PICK p \in Nat : p = IF Pumping THEN Counted(relay.spent) ELSE relay.spent
  BY <1>1, LessCounted DEF RelayRecs
<1>6. PICK q \in Nat : q = IF relay.pc = "dial" THEN Counted(relay.dialled)
                                               ELSE relay.dialled
  BY <1>1, LessCounted DEF RelayRecs
<1>7. relay' = [relay EXCEPT !.left = l, !.sys = s, !.dial = d, !.spent = p,
                             !.dialled = q]
  BY <1>2, <1>3, <1>4, <1>5, <1>6 DEF Tick
<1>8. relay' \in RelayRecs
  BY <1>1, <1>7 DEF RelayRecs
<1> QED  BY <1>1, <1>2, <1>3, <1>4, <1>5, <1>6, <1>7, <1>8 DEF RelayRecs

LEMMA TickGuests ==
    ASSUME TypeOK, Tick
    PROVE  /\ guest' \in [Guests -> GuestRecs]
           /\ \A g \in Guests :
                 /\ guest'[g].pc = guest[g].pc /\ guest'[g].conn = guest[g].conn
                 /\ guest'[g].frame = guest[g].frame
                 /\ ~Calling(g) => guest'[g] = guest[g]
                 /\ Calling(g) => /\ guest'[g].left = Less(guest[g].left)
                                  /\ guest'[g].sys = Less(guest[g].sys)
                                  /\ guest'[g].spent = Counted(guest[g].spent)
<1>1. ASSUME NEW g \in Guests
      PROVE  /\ guest'[g] \in GuestRecs
             /\ guest'[g].pc = guest[g].pc /\ guest'[g].conn = guest[g].conn
             /\ guest'[g].frame = guest[g].frame
             /\ ~Calling(g) => guest'[g] = guest[g]
             /\ Calling(g) => /\ guest'[g].left = Less(guest[g].left)
                              /\ guest'[g].sys = Less(guest[g].sys)
                              /\ guest'[g].spent = Counted(guest[g].spent)
  <2>1. guest[g] \in GuestRecs
    BY DEF TypeOK
  <2>2. PICK l \in Nat : l = Less(guest[g].left)
    BY <2>1, LessCounted DEF GuestRecs
  <2>3. PICK s \in Nat : s = Less(guest[g].sys)
    BY <2>1, LessCounted DEF GuestRecs
  <2>4. PICK p \in Nat : p = Counted(guest[g].spent)
    BY <2>1, LessCounted DEF GuestRecs
  <2>5. guest'[g] = IF Calling(g)
                    THEN [guest[g] EXCEPT !.left = l, !.sys = s, !.spent = p]
                    ELSE guest[g]
    BY <2>2, <2>3, <2>4 DEF Tick
  <2> QED  BY <2>1, <2>2, <2>3, <2>4, <2>5 DEF GuestRecs
<1>2. guest' = [g \in Guests |-> guest'[g]]
  BY DEF Tick
<1> QED  BY <1>1, <1>2

LEMMA TypeStep == TypeOK /\ [Next]_vars => TypeOK'
<1> SUFFICES ASSUME TypeOK, [Next]_vars  PROVE TypeOK'
  OBVIOUS
<1> USE ConstantsAssumption
<1>1. ASSUME NEW drops \in BOOLEAN, AcceptError(drops)  PROVE TypeOK'
  <2>1. relay' \in RelayRecs /\ relay'.pc = "backoff"
    BY <1>1 DEF AcceptError, Waiting, RelayRecs
  <2>2. backlog # << >> => Head(backlog) \in Conns /\ Tail(backlog) \in Seq(Conns)
    BY HeadTail DEF TypeOK
  <2>3. vsock' \in [Conns -> VsockRecs]
    BY <1>1, <2>2, VsockTypes DEF AcceptError, TypeOK
  <2>4. backlog' \in Seq(Conns)
    BY <1>1, <2>2 DEF AcceptError, TypeOK
  <2> QED  BY <1>1, <2>1, <2>3, <2>4 DEF AcceptError, RelayUnchanged, TypeOK
<1>2. ASSUME RelayRestarts  PROVE TypeOK'
  <2>1. relay' \in RelayRecs /\ relay'.pc = "accept"
    BY <1>2, IdleTypes DEF RelayRestarts, Waiting
  <2>2. vsock' \in [Conns -> VsockRecs]
    BY <1>2, VsockTypes DEF RelayRestarts, TypeOK
  <2>3. tcp' \in [Conns -> TcpRecs]
    BY <1>2, TcpTypes DEF RelayRestarts, TypeOK
  <2> QED  BY <1>2, <2>1, <2>2, <2>3 DEF RelayRestarts, RelayUnchanged, TypeOK
<1>3. ASSUME NEW k \in Conns, AnchorCloses(k)  PROVE TypeOK'
  <2>1. tcp' = [tcp EXCEPT ![k] = [tcp[k] EXCEPT !.anchor = FALSE, !.up = << >>]]
    BY <1>3 DEF AnchorCloses, TypeOK
  <2>2. tcp' \in [Conns -> TcpRecs]
    BY <2>1, TcpTypes DEF TypeOK
  <2> QED  BY <1>3, <2>2 DEF AnchorCloses, TypeOK
<1>4. ASSUME NEW k \in Conns, NEW s \in Sizes, AnchorAnswers(k, s)  PROVE TypeOK'
  <2>1. PICK u : u = tcp[k]
    OBVIOUS
  <2>2. u \in TcpRecs /\ u.up \in Seq(Frames) /\ u.down \in Seq(Answers) /\ u.up # << >>
    BY <1>4, <2>1 DEF AnchorAnswers, TypeOK, TcpRecs
  <2>3. Head(u.up) \in Frames /\ Tail(u.up) \in Seq(Frames)
    BY <2>2, HeadTail
  <2>4. PICK a : a = [of |-> Head(u.up), size |-> s]
    OBVIOUS
  <2>5. a \in Answers
    BY <2>3, <2>4 DEF Answers
  <2>6. PICK d \in Seq(Answers) : d = IF u.relay THEN Append(u.down, a) ELSE u.down
    BY <2>2, <2>5, Appended
  <2>7. tcp' = [tcp EXCEPT ![k] = [u EXCEPT !.up = Tail(u.up), !.down = d]]
    BY <1>4, <2>1, <2>4, <2>6 DEF AnchorAnswers, TypeOK
  <2>8. tcp' \in [Conns -> TcpRecs]
    BY <2>2, <2>3, <2>7, TcpTypes DEF TypeOK
  <2>9. answered' \in SUBSET Frames
    BY <1>4 DEF AnchorAnswers, TypeOK
  <2> QED  BY <1>4, <2>8, <2>9 DEF AnchorAnswers, TypeOK
<1>5. ASSUME Tick  PROVE TypeOK'
  <2>1. /\ relay' \in RelayRecs /\ relay'.pc = relay.pc /\ relay'.conn = relay.conn
        /\ relay'.tcp = relay.tcp /\ relay'.frame = relay.frame
        /\ relay'.answer = relay.answer
    BY <1>5, TickRelay
  <2>2. guest' \in [Guests -> GuestRecs]
    BY <1>5, TickGuests
  <2>3. /\ \A h \in Guests : guest'[h].pc # "idle" => guest'[h].conn \in Conns
        /\ \A h \in Enclaves : guest'[h].pc # "idle" => guest'[h].frame \in Frames
    BY <1>5, TickGuests DEF TypeOK, Guests
  <2> QED  BY <1>5, <2>1, <2>2, <2>3 DEF Tick, TypeOK
<1>6. CASE UNCHANGED vars
  BY <1>6 DEF vars, TypeOK
<1> QED  BY <1>1, <1>2, <1>3, <1>4, <1>5, <1>6, EnclaveTypes, StrangerTypes, RelayTypes
         DEF Next, Done

-----------------------------------------------------------------------------
(* Deadlines *)

LEMMA ReserveFacts ==
    /\ WriteCalls * PumpBudget \in Nat
    /\ PumpBudget <= WriteCalls * PumpBudget
    /\ Reserve(0) + PumpBudget = WriteCalls * PumpBudget
    /\ \A n \in 0 .. WriteCalls - 1 : Reserve(n) \in Nat
    /\ \A n \in Nat : n + 1 < WriteCalls => Reserve(n + 1) + PumpBudget = Reserve(n)
<1>1. WriteCalls \in Nat \ {0} /\ PumpBudget \in Nat \ {0}
  BY ConstantsAssumption
<1>2. \A a \in Nat, b \in Nat : a * b \in Nat
  OBVIOUS
<1>3. \A a \in Int, b \in Int : (a - 1) * b + b = a * b
  OBVIOUS
<1>4. WriteCalls * PumpBudget \in Nat /\ (WriteCalls - 1) * PumpBudget \in Nat
  BY <1>1, <1>2
<1>5. PumpBudget <= WriteCalls * PumpBudget
  BY <1>1, <1>3, <1>4
<1>6. Reserve(0) + PumpBudget = WriteCalls * PumpBudget
  <2>1. WriteCalls - 1 - 0 = WriteCalls - 1
    BY <1>1
  <2> QED  BY <1>1, <1>3, <2>1 DEF Reserve
<1>7. ASSUME NEW n \in 0 .. WriteCalls - 1  PROVE Reserve(n) \in Nat
  <2>1. WriteCalls - 1 - n \in Nat
    BY <1>1
  <2> QED  BY <1>1, <1>2, <2>1 DEF Reserve
<1>8. ASSUME NEW n \in Nat  PROVE Reserve(n + 1) + PumpBudget = Reserve(n)
  <2>1. WriteCalls - 1 - (n + 1) = (WriteCalls - 1 - n) - 1 /\ WriteCalls - 1 - n \in Int
    BY <1>1
  <2> QED  BY <1>1, <1>3, <2>1 DEF Reserve
<1> QED  BY <1>4, <1>5, <1>6, <1>7, <1>8

\* Every step of a leg arms the socket with what the deadline leaves.
LEMMA LegStep ==
    ASSUME TypeOK, \A g \in Enclaves : LegTimed(guest[g]), [Next]_vars,
           NEW e \in Enclaves
    PROVE  LegTimed(guest'[e])
<1> USE ConstantsAssumption
<1>0. /\ e \in Guests /\ LegTimed(guest[e]) /\ guest[e] \in GuestRecs
      /\ LegBudget \in Nat /\ e \notin Strangers
  BY DEF Guests, TypeOK
<1>r. ASSUME NEW r \in GuestRecs, r.left = guest[e].left, r.sys = guest[e].left,
             r.spent = guest[e].spent, guest[e].pc # "idle", r.pc # "idle",
             guest'[e] = r
      PROVE  LegTimed(guest'[e])
  BY <1>0, <1>r DEF LegTimed, GuestRecs
<1>i. ASSUME guest'[e] = Idle  PROVE LegTimed(guest'[e])
  BY <1>i DEF LegTimed, Idle
<1>1. ASSUME NEW g \in Enclaves, NEW leg \in Legs, Call(g, leg)  PROVE LegTimed(guest'[e])
  <2>1. CASE e = g
    <3>1. guest'[e].left = LegBudget /\ guest'[e].sys = LegBudget /\ guest'[e].spent = 0
      BY <1>0, <1>1, <2>1 DEF Call, Armed, TypeOK
    <3>2. guest'[e].pc = "connect"
      BY <1>0, <1>1, <2>1 DEF Call, TypeOK
    <3> QED  BY <3>1, <3>2, <1>0 DEF LegTimed
  <2>2. CASE e # g
    BY <1>0, <1>1, <2>2 DEF Call, TypeOK
  <2> QED  BY <2>1, <2>2
<1>2. ASSUME NEW g \in Enclaves, EnclaveNext(g)  PROVE LegTimed(guest'[e])
  <2>1. CASE e = g
    <3>1. GuestReturns(g) => guest'[e] = Idle
      BY <1>0, <2>1 DEF GuestReturns, TypeOK
    <3>2. CASE ConnectRefused(g) \/ GuestReads(g) \/ GuestFails(g)
      BY <1>i, <3>1, <3>2 DEF ConnectRefused, GuestReads, GuestFails
    <3>3. ASSUME NEW p \in {"write", "read"}, guest[e].pc # "idle",
                 guest' = [guest EXCEPT ![e].pc = p, ![e].sys = Armed(guest[e].left)]
          PROVE  LegTimed(guest'[e])
      <4>1. PICK r : r = [guest[e] EXCEPT !.pc = p, !.sys = guest[e].left]
        OBVIOUS
      <4>2. r \in GuestRecs /\ r.left = guest[e].left /\ r.sys = guest[e].left
            /\ r.spent = guest[e].spent /\ r.pc # "idle"
        BY <4>1, <1>0 DEF GuestRecs
      <4>3. guest'[e] = r
        BY <3>3, <4>1, <1>0 DEF Armed, TypeOK
      <4> QED  BY <4>2, <4>3, <3>3, <1>r
    <3>4. CASE Connected(g)
      BY <2>1, <3>3, <3>4 DEF Connected
    <3>5. CASE GuestWrites(g)
      BY <2>1, <3>3, <3>5 DEF GuestWrites
    <3>6. CASE GuestReadsSome(g)
      <4>1. PICK r : r = [guest[e] EXCEPT !.sys = guest[e].left]
        OBVIOUS
      <4>2. r \in GuestRecs /\ r.left = guest[e].left /\ r.sys = guest[e].left
            /\ r.spent = guest[e].spent
        BY <4>1, <1>0 DEF GuestRecs
      <4>3. guest'[e] = r /\ guest[e].pc # "idle" /\ r.pc # "idle"
        BY <3>6, <2>1, <4>1, <1>0 DEF GuestReadsSome, Armed, TypeOK
      <4> QED  BY <4>2, <4>3, <1>r
    <3> QED  BY <1>2, <3>2, <3>4, <3>5, <3>6 DEF EnclaveNext
  <2>2. CASE e # g
    <3>1. guest'[e] = guest[e]
      BY <1>0, <1>2, <2>2 DEF EnclaveNext, Connected, ConnectRefused, GuestWrites,
         GuestReadsSome, GuestReads, GuestFails, GuestReturns, TypeOK
    <3> QED  BY <3>1, <1>0
  <2> QED  BY <2>1, <2>2
<1>3. ASSUME NEW g \in Strangers, StrangerNext(g)  PROVE LegTimed(guest'[e])
  <2>1. guest'[e] = guest[e]
    BY <1>0, <1>3 DEF StrangerNext, StrangerConnects, StrangerSends, StrangerLeaves, TypeOK
  <2> QED  BY <2>1, <1>0
<1>4. ASSUME Tick  PROVE LegTimed(guest'[e])
  <2>1. CASE ~Calling(e)
    BY <2>1, <1>0, <1>4, TickGuests
  <2>2. CASE Calling(e)
    <3>1. /\ guest[e].sys > 0 /\ guest[e].pc # "idle"
          /\ guest[e].sys \in Nat /\ guest[e].left \in Nat /\ guest[e].spent \in Nat
      BY <2>2, <1>0, <1>4 DEF Tick, Calling, GuestRecs
    <3>2. guest[e].left > 0
      BY <3>1, <1>0 DEF LegTimed
    <3>3. /\ guest'[e].left = guest[e].left - 1 /\ guest'[e].sys = guest[e].sys - 1
          /\ guest'[e].spent <= guest[e].spent + 1 /\ guest'[e].spent \in Nat
          /\ guest'[e].pc = guest[e].pc
      BY <2>2, <1>0, <1>4, <3>1, <3>2, TickGuests, LessCounted
    <3> QED  BY <3>1, <3>2, <3>3, <1>0 DEF LegTimed
  <2> QED  BY <2>1, <2>2
<1>5. guest' = guest => LegTimed(guest'[e])
  BY <1>0
<1>6. RelayNext \/ (\E d \in BOOLEAN : AcceptError(d)) \/ RelayRestarts => guest' = guest
  BY DEF RelayNext, Accept, BackoffOver, PumpReadsSome, PumpReadsLate, ReadsRequest,
     RefusesRequest, DialsNext, DialFails, Dialled, WritesSome, Forwards, ReadsAnswer,
     WritesBack, PumpFails, PumpStep, ClosePump, AcceptError, RelayRestarts, RelayUnchanged
<1>7. (\E k \in Conns : AnchorCloses(k) \/ \E s \in Sizes : AnchorAnswers(k, s))
      \/ Done \/ UNCHANGED vars => guest' = guest
  BY DEF AnchorCloses, AnchorAnswers, Done, vars
<1> QED  BY <1>1, <1>2, <1>3, <1>4, <1>5, <1>6, <1>7 DEF Next

\* The daemon: reads arm the timeout before the deadline, dials share one
\* budget, and each write call has its own timeout.
LEMMA PumpTimedStep ==
    ASSUME TypeOK, PumpTimed(relay), [Next]_vars
    PROVE  PumpTimed(relay')
<1> USE ConstantsAssumption
<1>0. /\ relay \in RelayRecs
      /\ PumpBudget \in Nat \ {0} /\ ConnectBudget \in Nat \ {0} /\ WriteCalls \in Nat \ {0}
  BY DEF TypeOK
<1>n. /\ relay.left \in Nat /\ relay.sys \in Nat /\ relay.dial \in Nat
      /\ relay.spent \in Nat /\ relay.dialled \in Nat /\ relay.wrote \in Nat
  BY <1>0 DEF RelayRecs
<1>w. PumpTimed(Waiting) /\ PumpTimed([Waiting EXCEPT !.pc = "backoff", !.sys = Backoff])
  BY <1>0 DEF PumpTimed, Waiting
<1>c. ClosePump => PumpTimed(relay')
  BY <1>w DEF ClosePump
<1>1. ASSUME Accept  PROVE PumpTimed(relay')
  <2>1. /\ relay'.pc = "read" /\ relay'.left = PumpBudget /\ relay'.sys = PumpBudget
        /\ relay'.spent = 0 /\ relay'.dialled = 0 /\ relay'.wrote = 0
    BY <1>1 DEF Accept, Waiting
  <2> QED  BY <2>1, <1>0 DEF PumpTimed
<1>2. ASSUME PumpReadsSome  PROVE PumpTimed(relay')
  <2>1. /\ relay'.pc = relay.pc /\ relay'.left = relay.left /\ relay'.sys = PumpBudget
        /\ relay'.spent = relay.spent /\ relay'.dialled = relay.dialled
        /\ relay'.wrote = relay.wrote
        /\ relay.pc \in {"read", "recv"} /\ relay.left > 0
    BY <1>2, <1>0, <1>n DEF PumpReadsSome, PumpStep, Lapsed, RelayRecs
  <2> QED  BY <2>1, <1>0, <1>n DEF PumpTimed
<1>3. ASSUME ReadsRequest  PROVE PumpTimed(relay')
  <2>1. PICK d : d = MinOf(ConnectBudget, relay.left)
    OBVIOUS
  <2>2. d \in Nat /\ d <= ConnectBudget /\ d <= relay.left /\ d > 0
    BY <2>1, <1>0, <1>n, <1>3 DEF MinOf, ReadsRequest
  <2>3. /\ relay'.pc = "dial" /\ relay'.left = relay.left /\ relay'.dial = d
        /\ relay'.spent = relay.spent /\ relay'.dialled = relay.dialled
        /\ relay'.wrote = relay.wrote /\ relay.pc = "read"
    BY <1>3, <1>0, <2>1 DEF ReadsRequest, RelayRecs
  <2> QED  BY <2>2, <2>3, <1>0, <1>n DEF PumpTimed
<1>4. ASSUME DialsNext  PROVE PumpTimed(relay')
  <2>1. /\ relay'.pc = "dial" /\ relay'.left = relay.left /\ relay'.dial = relay.dial
        /\ relay'.spent = relay.spent /\ relay'.dialled = relay.dialled
        /\ relay'.wrote = relay.wrote /\ relay.pc = "dial"
    BY <1>4, <1>0 DEF DialsNext, DialLeft, PumpStep, RelayRecs
  <2> QED  BY <2>1, <1>0, <1>n DEF PumpTimed
<1>5. ASSUME Dialled  PROVE PumpTimed(relay')
  <2>1. /\ relay'.pc = "send" /\ relay'.left = relay.left /\ relay'.sys = PumpBudget
        /\ relay'.spent = relay.spent /\ relay'.dialled = relay.dialled
        /\ relay'.wrote = relay.wrote /\ relay.pc = "dial"
    BY <1>5, <1>0 DEF Dialled, RelayRecs
  <2>2. relay.wrote = 0 /\ relay.spent <= PumpBudget
    BY <2>1, <1>0, <1>n DEF PumpTimed
  <2>3. PICK p \in Nat, q \in Nat : p = Reserve(0) /\ q = WriteCalls * PumpBudget
    BY ReserveFacts, <1>0
  <2>4. p + PumpBudget = q
    BY <2>3, ReserveFacts
  <2> QED  BY <2>1, <2>2, <2>3, <2>4, <1>0, <1>n DEF PumpTimed
<1>6. ASSUME WritesSome  PROVE PumpTimed(relay')
  <2>1. /\ relay'.pc = relay.pc /\ relay'.left = relay.left /\ relay'.sys = PumpBudget
        /\ relay'.spent = relay.spent /\ relay'.dialled = relay.dialled
        /\ relay'.wrote = relay.wrote + 1 /\ relay.wrote + 1 < WriteCalls
        /\ relay.pc \in {"send", "reply"}
    BY <1>6, <1>0 DEF WritesSome, PumpStep, RelayRecs
  <2>2. PICK p \in Nat, q \in Nat, r \in Nat : /\ p = Reserve(relay.wrote)
                                              /\ q = WriteCalls * PumpBudget
                                              /\ r = Reserve(relay.wrote + 1)
    <3>1. relay.wrote \in 0 .. WriteCalls - 1 /\ relay.wrote + 1 \in 0 .. WriteCalls - 1
      BY <1>0, <1>n, <2>1
    <3> QED  BY <3>1, ReserveFacts
  <2>3. r + PumpBudget = p
    BY <2>1, <2>2, <1>n, ReserveFacts
  <2> QED  BY <2>1, <2>2, <2>3, <1>0, <1>n DEF PumpTimed
<1>7. ASSUME Forwards  PROVE PumpTimed(relay')
  <2>1. CASE Lapsed(relay)
    BY <2>1, <1>7, <1>w DEF Forwards
  <2>2. CASE ~Lapsed(relay)
    <3>1. /\ relay'.pc = "recv" /\ relay'.left = relay.left /\ relay'.sys = PumpBudget
          /\ relay'.spent = relay.spent /\ relay'.dialled = relay.dialled
          /\ relay'.wrote = relay.wrote /\ relay.pc = "send" /\ relay.left > 0
      <4>1. relay' = [relay EXCEPT !.pc = "recv", !.sys = PumpBudget] /\ relay.pc = "send"
        BY <2>2, <1>7 DEF Forwards
      <4> QED  BY <4>1, <2>2, <1>0, <1>n DEF Lapsed, RelayRecs
    <3> QED  BY <3>1, <1>0, <1>n DEF PumpTimed
  <2> QED  BY <2>1, <2>2
<1>8. ASSUME ReadsAnswer  PROVE PumpTimed(relay')
  <2>1. /\ relay'.pc = "reply" /\ relay'.left = relay.left /\ relay'.sys = PumpBudget
        /\ relay'.spent = relay.spent /\ relay'.dialled = relay.dialled
        /\ relay'.wrote = 0 /\ relay.pc = "recv" /\ relay.left > 0
    BY <1>8, <1>0, <1>n DEF ReadsAnswer, Lapsed, RelayRecs
  <2>2. PICK p \in Nat, q \in Nat : p = Reserve(0) /\ q = WriteCalls * PumpBudget
    BY ReserveFacts, <1>0
  <2>3. p + PumpBudget = q
    BY <2>2, ReserveFacts
  <2> QED  BY <2>1, <2>2, <2>3, <1>0, <1>n DEF PumpTimed
<1>9. ASSUME Tick  PROVE PumpTimed(relay')
  <2>1. PICK l \in Nat : l = Less(relay.left)
    BY LessCounted, <1>n
  <2>2. PICK s \in Nat : s = Less(relay.sys)
    BY LessCounted, <1>n
  <2>3. PICK d \in Nat : d = Less(relay.dial)
    BY LessCounted, <1>n
  <2>4. PICK c \in Nat : c = Counted(relay.spent)
    BY LessCounted, <1>n
  <2>5. PICK k \in Nat : k = Counted(relay.dialled)
    BY LessCounted, <1>n
  <2>6. /\ relay.left = 0 => l = 0
        /\ relay.left > 0 => l = relay.left - 1
        /\ relay.sys > 0 => s = relay.sys - 1
        /\ relay.dial > 0 => d = relay.dial - 1
        /\ c <= relay.spent + 1 /\ k <= relay.dialled + 1
    BY <2>1, <2>2, <2>3, <2>4, <2>5, <1>n, LessCounted
  <2>7. /\ relay'.pc = relay.pc /\ relay'.left = l /\ relay'.sys = s /\ relay'.dial = d
        /\ relay'.wrote = relay.wrote
        /\ relay'.spent = IF Pumping THEN c ELSE relay.spent
        /\ relay'.dialled = IF relay.pc = "dial" THEN k ELSE relay.dialled
    BY <1>9, <2>1, <2>2, <2>3, <2>4, <2>5, TickRelay
  <2>8. /\ relay.pc = "dial" => relay.dial > 0
        /\ relay.pc \notin {"accept", "dial"} => relay.sys > 0
    BY <1>9 DEF Tick
  <2>9. CASE relay.pc \in {"accept", "backoff"}
    BY <2>7, <2>9, <1>0, <1>n DEF PumpTimed, Pumping
  <2>10. CASE relay.pc \in {"read", "recv"}
    <3>1. /\ relay.spent + relay.sys <= 2 * PumpBudget /\ relay.dialled <= ConnectBudget
          /\ relay.left > 0 => relay.spent + relay.left <= PumpBudget
          /\ relay.pc = "read" => relay.dialled = 0 /\ relay.wrote = 0
      BY <2>10 DEF PumpTimed
    <3>2. /\ relay'.spent = c /\ relay'.dialled = relay.dialled
      BY <2>7, <2>10 DEF Pumping
    <3>3. c + s <= 2 * PumpBudget /\ (l > 0 => c + l <= PumpBudget)
      BY <3>1, <2>6, <2>8, <2>10, <1>0, <1>n
    <3> QED  BY <2>7, <2>10, <3>1, <3>2, <3>3 DEF PumpTimed
  <2>11. CASE relay.pc = "dial"
    BY <2>6, <2>7, <2>8, <2>11, <1>0, <1>n DEF PumpTimed, Pumping
  <2>12. CASE relay.pc \in {"send", "reply"}
    <3>1. relay.wrote \in 0 .. WriteCalls - 1
      BY <2>12 DEF PumpTimed
    <3>2. PICK p \in Nat, q \in Nat : p = Reserve(relay.wrote) /\ q = WriteCalls * PumpBudget
      BY <3>1, ReserveFacts
    <3>3. /\ relay.spent + relay.sys + p <= PumpBudget + q /\ relay.dialled <= ConnectBudget
          /\ relay.left > 0 => relay.spent + relay.left <= PumpBudget
      BY <2>12, <3>2 DEF PumpTimed
    <3>4. relay'.spent = c /\ relay'.dialled = relay.dialled
      BY <2>7, <2>12 DEF Pumping
    <3>5. c + s + p <= PumpBudget + q /\ (l > 0 => c + l <= PumpBudget)
      BY <3>3, <2>6, <2>8, <2>12, <1>0, <1>n
    <3> QED  BY <2>7, <2>12, <3>1, <3>2, <3>3, <3>4, <3>5 DEF PumpTimed
  <2> QED  BY <2>9, <2>10, <2>11, <2>12, <1>0 DEF RelayRecs
<1>10. BackoffOver \/ WritesBack \/ RelayRestarts => PumpTimed(relay')
  BY <1>w DEF BackoffOver, WritesBack, RelayRestarts
<1>11. ASSUME NEW drops \in BOOLEAN, AcceptError(drops)  PROVE PumpTimed(relay')
  BY <1>11, <1>w DEF AcceptError
<1>12. PumpReadsLate \/ RefusesRequest \/ DialFails \/ PumpFails => PumpTimed(relay')
  BY <1>c DEF PumpReadsLate, RefusesRequest, DialFails, PumpFails
<1>13. (\E g \in Enclaves : (\E leg \in Legs : Call(g, leg)) \/ EnclaveNext(g))
       \/ (\E g \in Strangers : StrangerNext(g)) => relay' = relay
  BY DEF Call, EnclaveNext, Connected, ConnectRefused, GuestWrites, GuestReadsSome,
     GuestReads, GuestFails, GuestReturns, StrangerNext, StrangerConnects,
     StrangerSends, StrangerLeaves
<1>14. (\E k \in Conns : AnchorCloses(k) \/ \E s \in Sizes : AnchorAnswers(k, s))
       \/ Done \/ UNCHANGED vars => relay' = relay
  BY DEF AnchorCloses, AnchorAnswers, Done, vars
<1> QED  BY <1>1, <1>2, <1>3, <1>4, <1>5, <1>6, <1>7, <1>8, <1>9, <1>10, <1>11, <1>12,
            <1>13, <1>14 DEF Next, RelayNext

LEMMA RelayInit == Init => TypeOK /\ TimersInv /\ ChannelInv
<1> SUFFICES ASSUME Init  PROVE TypeOK /\ TimersInv /\ ChannelInv
  OBVIOUS
<1> USE ConstantsAssumption
<1>1. /\ guest \in [Guests -> GuestRecs] /\ relay \in RelayRecs
      /\ \A g \in Guests : guest[g].pc = "idle" /\ guest[g].spent = 0
                           /\ guest[g].frame = NoFrame
      /\ relay.pc = "accept" /\ Enclaves \subseteq Guests
  BY IdleTypes DEF Init, Idle, Waiting, Guests
<1>2. vsock \in [Conns -> VsockRecs] /\ tcp \in [Conns -> TcpRecs]
  BY VsockTypes, TcpTypes DEF Init
<1>3. TypeOK
  BY <1>1, <1>2 DEF Init, TypeOK, Guests
<1>4. TimersInv
  <2>1. PumpTimed(relay)
    BY DEF Init, PumpTimed, Waiting
  <2> QED  BY <1>1, <2>1 DEF TimersInv, LegTimed
<1>5. GuestsApart /\ CallsOwn /\ HistoryOrdered
  BY <1>1 DEF Init, GuestsApart, CallsOwn, HistoryOrdered, Guests
<1>6. OnWires
  <2>1. \A c \in Conns : /\ Range(vsock[c].up) = {} /\ Range(vsock[c].down) = {}
                         /\ Range(tcp[c].up) = {} /\ Range(tcp[c].down) = {}
    BY DEF Init, Closed, NoTcp, Range
  <2> QED  BY <2>1 DEF OnWires, Carries
<1>7. InHand
  BY <1>1 DEF InHand
<1> QED  BY <1>3, <1>4, <1>5, <1>6, <1>7 DEF ChannelInv

\* However slowly the other end feeds it bytes, a leg of the enclave
\* (DeadlineSocket) ends by its deadline; and whatever the anchor and the guests
\* do, a dial (TcpAnchorDial) takes one connect budget for all its addresses
\* together and a pump (relay_one_pump) overruns its deadline by at most the
\* timeouts of its write calls: for every budget and any number of guests.
THEOREM DeadlinesProved == Spec => []DeadlinesHold
<1> USE ConstantsAssumption
<1>1. Init => TypeOK /\ TimersInv
  BY RelayInit
<1>2. TypeOK /\ TimersInv /\ [Next]_vars => (TypeOK /\ TimersInv)'
  <2> SUFFICES ASSUME TypeOK, TimersInv, [Next]_vars  PROVE TypeOK' /\ TimersInv'
    OBVIOUS
  <2>1. TypeOK'
    BY TypeStep
  <2>2. \A g \in Enclaves : LegTimed(guest'[g])
    BY LegStep DEF TimersInv
  <2>3. PumpTimed(relay')
    BY PumpTimedStep DEF TimersInv
  <2> QED  BY <2>1, <2>2, <2>3 DEF TimersInv
<1>3. TypeOK /\ TimersInv => DeadlinesHold
  <2> SUFFICES ASSUME TypeOK, TimersInv  PROVE DeadlinesHold
    OBVIOUS
  <2>1. ASSUME NEW g \in Enclaves  PROVE guest[g].spent <= LegBudget
    <3>1. guest[g] \in GuestRecs /\ LegTimed(guest[g]) /\ LegBudget \in Nat
      BY DEF TypeOK, TimersInv, Guests
    <3>2. guest[g].left \in Nat /\ guest[g].spent \in Nat /\ guest[g].sys \in Nat
      BY <3>1 DEF GuestRecs
    <3> QED  BY <3>1, <3>2 DEF LegTimed
  <2>2. relay.dialled <= ConnectBudget
    BY DEF TimersInv, PumpTimed
  <2>3. relay.spent <= PumpBudget + WriteCalls * PumpBudget
    <3>1. relay \in RelayRecs /\ PumpTimed(relay) /\ PumpBudget \in Nat
      BY DEF TypeOK, TimersInv
    <3>2. relay.left \in Nat /\ relay.spent \in Nat /\ relay.sys \in Nat
      BY <3>1 DEF RelayRecs
    <3>3. PICK q \in Nat : q = WriteCalls * PumpBudget
      BY ReserveFacts
    <3>4. PumpBudget <= q
      BY <3>3, ReserveFacts
    <3>5. CASE relay.pc \in {"send", "reply"}
      <4>1. PICK p \in Nat : p = Reserve(relay.wrote)
        BY <3>1, <3>5, ReserveFacts DEF PumpTimed
      <4> QED  BY <4>1, <3>1, <3>2, <3>3, <3>5 DEF PumpTimed
    <3>6. CASE relay.pc \notin {"send", "reply"}
      BY <3>1, <3>2, <3>3, <3>4, <3>6 DEF PumpTimed, RelayRecs
    <3> QED  BY <3>5, <3>6
  <2> QED  BY <2>1, <2>2, <2>3 DEF DeadlinesHold, LegBounded, PumpBounded
<1> QED  BY <1>1, <1>2, <1>3, PTL DEF Spec

-----------------------------------------------------------------------------
(* The channel *)

\* Numbers go up, frames and answers stay, and a new frame has a new number.
Grows ==
    /\ calls \in Nat /\ calls' \in Nat /\ calls <= calls'
    /\ begun \subseteq begun' /\ answered \subseteq answered'
    /\ \A b \in begun' \ begun : b.call > calls

LEMMA OnGrows ==
    ASSUME Grows, NEW c \in Conns
    PROVE  /\ \A f : FrameOn(f, c) => FrameOn(f, c)'
           /\ \A a : AnswerOn(a, c) => AnswerOn(a, c)'
           /\ \A w : Carries(w, c) => Carries(w, c)'
<1>0. c \in Nat
  BY ConstantsAssumption DEF Conns
<1>1. ASSUME NEW f, FrameOn(f, c)  PROVE FrameOn(f, c)'
  BY <1>0, <1>1 DEF FrameOn, Grows
<1>2. ASSUME NEW a, AnswerOn(a, c)  PROVE AnswerOn(a, c)'
  <2>1. FrameOn(a.of, c) /\ FrameOn(a.of, c)'
    BY <1>1, <1>2 DEF AnswerOn
  <2>2. a.of \in begun' => a.of \in answered'
    BY <1>0, <1>2, <2>1 DEF AnswerOn, FrameOn, Grows
  <2> QED  BY <2>1, <2>2 DEF AnswerOn
<1>3. ASSUME NEW w, Carries(w, c)  PROVE Carries(w, c)'
  BY <1>1, <1>2, <1>3 DEF Carries
<1> QED  BY <1>1, <1>2, <1>3

\* It is enough to look at what a step leaves on each connection.
LEMMA WiresStep ==
    ASSUME OnWires, Grows,
           \A c \in Conns : \A w : w = vsock'[c] \/ w = tcp'[c] => Carries(w, c)
    PROVE  OnWires'
<1>1. ASSUME NEW c \in Conns  PROVE Carries(vsock[c], c)' /\ Carries(tcp[c], c)'
  <2>1. PICK v, u : v = vsock'[c] /\ u = tcp'[c]
    OBVIOUS
  <2>2. Carries(v, c)' /\ Carries(u, c)'
    BY <2>1, OnGrows
  <2> QED  BY <2>1, <2>2 DEF Carries, FrameOn, AnswerOn
<1> QED  BY <1>1 DEF OnWires

\* Closing an end, reading and writing keep a connection's contents its own.
LEMMA VsockCarries ==
    ASSUME NEW c, NEW v \in VsockRecs, Carries(v, c)
    PROVE  /\ Carries(GuestClosed(v), c) /\ Carries(RelayClosed(v), c)
           /\ v.up # << >> => Carries([v EXCEPT !.up = Tail(v.up)], c)
           /\ \A f \in Frames : FrameOn(f, c) =>
                 Carries([v EXCEPT !.up = Append(v.up, f)], c)
           /\ \A a \in Answers : AnswerOn(a, c) =>
                 Carries([RelayClosed(v) EXCEPT !.down = Append(v.down, a)], c)
<1>0. v.up \in Seq(Frames) /\ v.down \in Seq(Answers) /\ Range(<< >>) = {}
  BY DEF VsockRecs, Range
<1>1. GuestClosed(v).up = v.up /\ GuestClosed(v).down = << >>
  BY DEF GuestClosed, VsockRecs
<1>2. RelayClosed(v).up = << >> /\ RelayClosed(v).down = v.down
  BY DEF RelayClosed, VsockRecs
<1>3. Carries(GuestClosed(v), c) /\ Carries(RelayClosed(v), c)
  BY <1>0, <1>1, <1>2 DEF Carries
<1>4. ASSUME v.up # << >>  PROVE Carries([v EXCEPT !.up = Tail(v.up)], c)
  <2>1. PICK w : w = [v EXCEPT !.up = Tail(v.up)]
    OBVIOUS
  <2>2. w.up = Tail(v.up) /\ w.down = v.down
    BY <2>1 DEF VsockRecs
  <2>3. Range(w.up) \subseteq Range(v.up)
    BY <1>0, <1>4, <2>2, HeadTail
  <2> QED  BY <2>1, <2>2, <2>3 DEF Carries
<1>5. ASSUME NEW f \in Frames, FrameOn(f, c)
      PROVE  Carries([v EXCEPT !.up = Append(v.up, f)], c)
  <2>1. PICK w : w = [v EXCEPT !.up = Append(v.up, f)]
    OBVIOUS
  <2>2. w.up = Append(v.up, f) /\ w.down = v.down
    BY <2>1 DEF VsockRecs
  <2>3. Range(w.up) \subseteq Range(v.up) \cup {f}
    BY <1>0, <2>2, Appended
  <2> QED  BY <1>5, <2>1, <2>2, <2>3 DEF Carries
<1>6. ASSUME NEW a \in Answers, AnswerOn(a, c)
      PROVE  Carries([RelayClosed(v) EXCEPT !.down = Append(v.down, a)], c)
  <2>1. PICK w : w = [RelayClosed(v) EXCEPT !.down = Append(v.down, a)]
    OBVIOUS
  <2>2. w.up = << >> /\ w.down = Append(v.down, a)
    BY <2>1 DEF RelayClosed, VsockRecs
  <2>3. Range(w.down) \subseteq Range(v.down) \cup {a}
    BY <1>0, <2>2, Appended
  <2> QED  BY <1>0, <1>6, <2>1, <2>2, <2>3 DEF Carries
<1> QED  BY <1>3, <1>4, <1>5, <1>6

LEMMA TcpCarries ==
    ASSUME NEW c, NEW t \in TcpRecs, Carries(t, c)
    PROVE  /\ Carries(AnchorDropped(t), c)
           /\ Carries([t EXCEPT !.relay = TRUE, !.anchor = TRUE], c)
           /\ Carries([t EXCEPT !.anchor = FALSE, !.up = << >>], c)
           /\ t.down # << >> => Carries([t EXCEPT !.down = Tail(t.down)], c)
           /\ \A f \in Frames : FrameOn(f, c) =>
                 Carries([t EXCEPT !.up = Append(t.up, f)], c)
<1>0. t.up \in Seq(Frames) /\ t.down \in Seq(Answers) /\ Range(<< >>) = {}
  BY DEF TcpRecs, Range
<1>1. AnchorDropped(t).up = t.up /\ AnchorDropped(t).down = << >>
  BY DEF AnchorDropped, NoTcp, TcpRecs
<1>2. Carries(AnchorDropped(t), c)
  BY <1>0, <1>1 DEF Carries
<1>3. Carries([t EXCEPT !.relay = TRUE, !.anchor = TRUE], c)
  <2>1. PICK w : w = [t EXCEPT !.relay = TRUE, !.anchor = TRUE]
    OBVIOUS
  <2>2. w.up = t.up /\ w.down = t.down
    BY <2>1 DEF TcpRecs
  <2> QED  BY <2>1, <2>2 DEF Carries
<1>4. Carries([t EXCEPT !.anchor = FALSE, !.up = << >>], c)
  <2>1. PICK w : w = [t EXCEPT !.anchor = FALSE, !.up = << >>]
    OBVIOUS
  <2>2. w.up = << >> /\ w.down = t.down
    BY <2>1 DEF TcpRecs
  <2> QED  BY <1>0, <2>1, <2>2 DEF Carries
<1>5. ASSUME t.down # << >>  PROVE Carries([t EXCEPT !.down = Tail(t.down)], c)
  <2>1. PICK w : w = [t EXCEPT !.down = Tail(t.down)]
    OBVIOUS
  <2>2. w.up = t.up /\ w.down = Tail(t.down)
    BY <2>1 DEF TcpRecs
  <2>3. Range(w.down) \subseteq Range(t.down)
    BY <1>0, <1>5, <2>2, HeadTail
  <2> QED  BY <2>1, <2>2, <2>3 DEF Carries
<1>6. ASSUME NEW f \in Frames, FrameOn(f, c)
      PROVE  Carries([t EXCEPT !.up = Append(t.up, f)], c)
  <2>1. PICK w : w = [t EXCEPT !.up = Append(t.up, f)]
    OBVIOUS
  <2>2. w.up = Append(t.up, f) /\ w.down = t.down
    BY <2>1 DEF TcpRecs
  <2>3. Range(w.up) \subseteq Range(t.up) \cup {f}
    BY <1>0, <2>2, Appended
  <2> QED  BY <1>6, <2>1, <2>2, <2>3 DEF Carries
<1> QED  BY <1>2, <1>3, <1>4, <1>5, <1>6

LEMMA GrowsStep ==
    ASSUME TypeOK, [Next]_vars
    PROVE  Grows
<1> USE ConstantsAssumption
<1>0. calls \in Nat
  BY DEF TypeOK
<1>1. ASSUME NEW g \in Enclaves, NEW leg \in Legs, Call(g, leg)  PROVE Grows
  <2>1. begun' = begun \cup {[call |-> calls + 1, leg |-> leg]}
    BY <1>1 DEF Call, TypeOK, Guests
  <2> QED  BY <1>0, <1>1, <2>1 DEF Call, Grows
<1>2. ASSUME NEW g \in Strangers, StrangerConnects(g)  PROVE Grows
  BY <1>0, <1>2 DEF StrangerConnects, Grows
<1>3. ASSUME NEW k \in Conns, NEW s \in Sizes, AnchorAnswers(k, s)  PROVE Grows
  BY <1>0, <1>3 DEF AnchorAnswers, Grows
<1>4. UNCHANGED <<calls, begun, answered>> => Grows
  BY <1>0 DEF Grows
<1>5. ASSUME NEW g \in Enclaves, EnclaveNext(g)  PROVE UNCHANGED <<calls, begun, answered>>
  BY <1>5 DEF EnclaveNext, Connected, ConnectRefused, GuestWrites, GuestReadsSome,
     GuestReads, GuestFails, GuestReturns
<1>6. ASSUME NEW g \in Strangers,
             (\E leg \in {"short", "junk"} : StrangerSends(g, leg)) \/ StrangerLeaves(g)
      PROVE  UNCHANGED <<calls, begun, answered>>
  BY <1>6 DEF StrangerSends, StrangerLeaves
<1>7. RelayNext \/ (\E d \in BOOLEAN : AcceptError(d)) \/ RelayRestarts =>
         UNCHANGED <<calls, begun, answered>>
  BY DEF RelayNext, Accept, BackoffOver, PumpReadsSome, PumpReadsLate, ReadsRequest,
     RefusesRequest, DialsNext, DialFails, Dialled, WritesSome, Forwards, ReadsAnswer,
     WritesBack, PumpFails, PumpStep, ClosePump, AcceptError, RelayRestarts, RelayUnchanged
<1>8. (\E k \in Conns : AnchorCloses(k)) \/ Tick \/ Done \/ UNCHANGED vars =>
         UNCHANGED <<calls, begun, answered>>
  BY DEF AnchorCloses, Tick, Done, vars
<1> QED  BY <1>1, <1>2, <1>3, <1>4, <1>5, <1>6, <1>7, <1>8 DEF Next, StrangerNext

\* The guests and the history of the calls.
CallsInv == GuestsApart /\ CallsOwn /\ HistoryOrdered

\* Steps in which no call begins or ends.
LEMMA CallsKept ==
    ASSUME TypeOK, CallsInv,
           \A g \in Guests : /\ guest'[g].pc = "idle" <=> guest[g].pc = "idle"
                             /\ guest'[g].conn = guest[g].conn
                             /\ guest'[g].frame = guest[g].frame,
           UNCHANGED <<calls, begun, delivered>>,
           answered' \subseteq answered \cup begun
    PROVE  CallsInv'
<1>0. Enclaves \subseteq Guests /\ Strangers \subseteq Guests
  BY DEF Guests
<1>1. GuestsApart'
  BY DEF CallsInv, GuestsApart
<1>2. CallsOwn'
  BY <1>0 DEF CallsInv, CallsOwn
<1>3. HistoryOrdered'
  BY DEF CallsInv, HistoryOrdered, FrameOn
<1> QED  BY <1>1, <1>2, <1>3 DEF CallsInv

\* A call ends: with an answer to its own frame, or with nothing.
LEMMA CallsEnd ==
    ASSUME TypeOK, CallsInv, NEW g \in Guests, guest[g].pc # "idle",
           guest' = [guest EXCEPT ![g] = Idle],
           UNCHANGED <<calls, begun, answered>>,
           \A a \in delivered' \ delivered : g \in Enclaves /\ a.of = guest[g].frame
    PROVE  CallsInv'
<1>0. Enclaves \subseteq Guests /\ Strangers \subseteq Guests /\ Enclaves \cap Strangers = {}
  BY ConstantsAssumption DEF Guests
<1>1. guest'[g].pc = "idle" /\ guest'[g].frame = NoFrame
  BY DEF TypeOK, Idle
<1>2. \A h \in Guests : h # g => guest'[h] = guest[h]
  BY DEF TypeOK
<1>3. GuestsApart'
  BY <1>1, <1>2 DEF CallsInv, GuestsApart
<1>4. ASSUME NEW h \in Enclaves, guest'[h].pc # "idle", NEW a \in delivered'
      PROVE  a.of # guest'[h].frame
  <2>1. h # g /\ guest'[h] = guest[h] /\ h \in Guests
    BY <1>0, <1>1, <1>2, <1>4
  <2>2. CASE a \in delivered
    BY <1>4, <2>1, <2>2 DEF CallsInv, CallsOwn
  <2>3. CASE a \notin delivered
    <3>1. g \in Enclaves /\ a.of = guest[g].frame
      BY <1>4, <2>3
    <3>2. guest[g].frame.call = guest[g].conn /\ guest[h].frame.call = guest[h].conn
      BY <1>4, <2>1, <3>1 DEF CallsInv, CallsOwn
    <3>3. guest[g].conn # guest[h].conn
      BY <1>4, <2>1 DEF CallsInv, GuestsApart
    <3> QED  BY <2>1, <3>1, <3>2, <3>3
  <2> QED  BY <2>2, <2>3
<1>5. CallsOwn'
  BY <1>0, <1>1, <1>2, <1>4 DEF CallsInv, CallsOwn
<1>6. HistoryOrdered'
  BY <1>0 DEF CallsInv, HistoryOrdered, FrameOn, CallsOwn
<1> QED  BY <1>3, <1>5, <1>6 DEF CallsInv

\* A call begins, with the next number.
LEMMA CallsBegin ==
    ASSUME TypeOK, CallsInv, NEW g \in Guests, guest[g].pc = "idle", calls < MaxCalls,
           NEW r, guest' = [guest EXCEPT ![g] = r], r.pc # "idle", r.conn = calls + 1,
           calls' = calls + 1,
           \/ g \in Enclaves /\ r.frame.call = calls + 1 /\ begun' = begun \cup {r.frame}
           \/ g \in Strangers /\ begun' = begun,
           UNCHANGED <<answered, delivered>>
    PROVE  CallsInv'
<1>0. Enclaves \subseteq Guests /\ Strangers \subseteq Guests /\ Enclaves \cap Strangers = {}
  BY ConstantsAssumption DEF Guests
<1>1. guest'[g] = r /\ \A h \in Guests : h # g => guest'[h] = guest[h]
  BY DEF TypeOK
<1>2. calls \in Nat /\ \A h \in Guests : guest[h].pc # "idle" => guest[h].conn \in Nat
  BY ConstantsAssumption DEF TypeOK, Conns
<1>3. \A b \in begun : b.call \in Nat /\ b.call <= calls
  BY ConstantsAssumption DEF CallsInv, HistoryOrdered, FrameOn, TypeOK, Frames, Conns
<1>4. GuestsApart'
  BY <1>1, <1>2 DEF CallsInv, GuestsApart
<1>5. CallsOwn'
  <2>1. ASSUME NEW h \in Guests, guest'[h].pc = "idle"  PROVE guest'[h].frame = NoFrame
    BY <1>1, <2>1 DEF CallsInv, CallsOwn
  <2>2. ASSUME NEW h \in Enclaves, guest'[h].pc # "idle"
        PROVE  /\ guest'[h].frame \in begun'
               /\ guest'[h].frame.call = guest'[h].conn
               /\ \A a \in delivered' : a.of # guest'[h].frame
    <3>1. CASE h = g
      <4>1. r.frame \notin begun
        BY <1>0, <1>2, <1>3, <3>1, <2>2
      <4> QED  BY <1>0, <1>1, <3>1, <2>2, <4>1 DEF CallsInv, HistoryOrdered
    <3>2. CASE h # g
      BY <1>0, <1>1, <3>2, <2>2 DEF CallsInv, CallsOwn
    <3> QED  BY <3>1, <3>2
  <2>3. ASSUME NEW h \in Strangers, guest'[h].pc # "idle", NEW b \in begun'
        PROVE  b.call # guest'[h].conn
    <3>1. CASE h = g
      BY <1>0, <1>1, <1>2, <1>3, <3>1, <2>3
    <3>2. CASE h # g
      <4>1. guest'[h] = guest[h] /\ guest[h].conn <= calls /\ guest[h].conn \in Nat
        BY <1>0, <1>1, <1>2, <3>2, <2>3 DEF CallsInv, GuestsApart
      <4>2. CASE b \in begun
        BY <1>0, <2>3, <4>1, <4>2 DEF CallsInv, CallsOwn
      <4>3. CASE b \notin begun
        BY <1>2, <2>3, <4>1, <4>3
      <4> QED  BY <4>2, <4>3
    <3> QED  BY <3>1, <3>2
  <2> QED  BY <2>1, <2>2, <2>3 DEF CallsOwn
<1>6. HistoryOrdered'
  <2>1. ASSUME NEW b \in begun'  PROVE FrameOn(b, b.call)'
    BY <1>2, <1>3, <2>1 DEF CallsInv, HistoryOrdered, FrameOn
  <2> QED  BY <2>1 DEF CallsInv, HistoryOrdered
<1> QED  BY <1>4, <1>5, <1>6 DEF CallsInv

\* What a call reads is the anchor's answer to its own frame.
LEMMA AnswerIsOwn ==
    ASSUME TypeOK, ChannelInv, NEW g \in Enclaves, guest[g].pc # "idle",
           vsock[guest[g].conn].down # << >>
    PROVE  /\ Head(vsock[guest[g].conn].down).of = guest[g].frame
           /\ guest[g].frame \in answered
<1>1. guest[g].conn \in Conns /\ vsock[guest[g].conn].down \in Seq(Answers)
  BY GuestVsock DEF Guests
<1>2. PICK a : a = Head(vsock[guest[g].conn].down)
  OBVIOUS
<1>3. a \in Range(vsock[guest[g].conn].down)
  BY <1>1, <1>2, HeadTail
<1>4. AnswerOn(a, guest[g].conn)
  BY <1>1, <1>3 DEF ChannelInv, OnWires, Carries
<1>5. guest[g].frame \in begun /\ guest[g].frame.call = guest[g].conn
  BY DEF ChannelInv, CallsOwn
<1> QED  BY <1>2, <1>4, <1>5 DEF AnswerOn, FrameOn

\* The actions of an enclave's call, in which nothing but the call changes.
LEMMA EnclaveSteps ==
    ASSUME TypeOK, NEW g \in Enclaves, EnclaveNext(g)
    PROVE  /\ UNCHANGED <<calls, begun, answered>> /\ guest[g].pc # "idle"
           /\ \/ /\ \A h \in Guests :
                       /\ guest'[h].pc = "idle" <=> guest[h].pc = "idle"
                       /\ guest'[h].conn = guest[h].conn
                       /\ guest'[h].frame = guest[h].frame
                 /\ UNCHANGED delivered
              \/ guest' = [guest EXCEPT ![g] = Idle] /\ UNCHANGED delivered
              \/ /\ guest' = [guest EXCEPT ![g] = Idle]
                 /\ vsock[guest[g].conn].down # << >>
                 /\ delivered' = delivered \cup {Head(vsock[guest[g].conn].down)}
<1>0. g \in Guests /\ guest \in [Guests -> GuestRecs]
  BY DEF Guests, TypeOK
<1> DEFINE Kept == /\ \A h \in Guests :
                        /\ guest'[h].pc = "idle" <=> guest[h].pc = "idle"
                        /\ guest'[h].conn = guest[h].conn
                        /\ guest'[h].frame = guest[h].frame
                   /\ UNCHANGED <<calls, begun, answered, delivered>>
                   /\ guest[g].pc # "idle"
<1>1. Connected(g) => Kept
  BY <1>0 DEF Connected, GuestRecs
<1>2. GuestWrites(g) => Kept
  BY <1>0 DEF GuestWrites, GuestRecs
<1>3. GuestReadsSome(g) => Kept
  BY <1>0 DEF GuestReadsSome, GuestRecs
<1>4. ConnectRefused(g) \/ GuestFails(g) =>
         /\ guest' = [guest EXCEPT ![g] = Idle] /\ guest[g].pc # "idle"
         /\ UNCHANGED <<calls, begun, answered, delivered>>
  BY DEF ConnectRefused, GuestFails, ChannelFault, GuestReturns
<1>5. GuestReads(g) =>
         /\ guest' = [guest EXCEPT ![g] = Idle] /\ guest[g].pc # "idle"
         /\ vsock[guest[g].conn].down # << >>
         /\ delivered' = delivered \cup {Head(vsock[guest[g].conn].down)}
         /\ UNCHANGED <<calls, begun, answered>>
  BY DEF GuestReads, GuestReturns
<1> QED  BY <1>1, <1>2, <1>3, <1>4, <1>5 DEF EnclaveNext

\* The other steps leave the guests' calls alone.
OtherNext ==
    \/ RelayNext
    \/ \E drops \in BOOLEAN : AcceptError(drops)
    \/ RelayRestarts
    \/ \E k \in Conns : AnchorCloses(k) \/ \E s \in Sizes : AnchorAnswers(k, s)
    \/ Tick
    \/ Done
    \/ UNCHANGED vars

LEMMA OtherSteps ==
    ASSUME TypeOK, OtherNext
    PROVE  /\ \A h \in Guests : /\ guest'[h].pc = guest[h].pc
                                /\ guest'[h].conn = guest[h].conn
                                /\ guest'[h].frame = guest[h].frame
           /\ UNCHANGED <<calls, begun, delivered>>
           /\ \/ answered' = answered
              \/ \E f \in Frames : f \in begun \ answered /\ answered' = answered \cup {f}
<1>1. RelayNext \/ (\E d \in BOOLEAN : AcceptError(d)) \/ RelayRestarts =>
         UNCHANGED <<guest, calls, begun, delivered, answered>>
  BY DEF RelayNext, Accept, BackoffOver, PumpReadsSome, PumpReadsLate, ReadsRequest,
     RefusesRequest, DialsNext, DialFails, Dialled, WritesSome, Forwards, ReadsAnswer,
     WritesBack, PumpFails, PumpStep, ClosePump, AcceptError, RelayRestarts, RelayUnchanged
<1>2. (\E k \in Conns : AnchorCloses(k)) \/ Done \/ UNCHANGED vars =>
         UNCHANGED <<guest, calls, begun, delivered, answered>>
  BY DEF AnchorCloses, Done, vars
<1>3. Tick => /\ UNCHANGED <<calls, begun, delivered, answered>>
              /\ \A h \in Guests : /\ guest'[h].pc = guest[h].pc
                                   /\ guest'[h].conn = guest[h].conn
                                   /\ guest'[h].frame = guest[h].frame
  BY TickGuests DEF Tick
<1>4. ASSUME NEW k \in Conns, NEW s \in Sizes, AnchorAnswers(k, s)
      PROVE  /\ UNCHANGED <<guest, calls, begun, delivered>>
             /\ \/ answered' = answered
                \/ \E f \in Frames : f \in begun \ answered /\ answered' = answered \cup {f}
  <2>1. PICK f : f = Head(tcp[k].up)
    OBVIOUS
  <2>2. answered' = answered \cup ({f} \cap begun)
    BY <1>4, <2>1 DEF AnchorAnswers
  <2>3. begun \subseteq Frames
    BY DEF TypeOK
  <2>4. CASE f \in begun \ answered
    BY <1>4, <2>2, <2>3, <2>4 DEF AnchorAnswers
  <2>5. CASE f \notin begun \ answered
    BY <1>4, <2>2, <2>5 DEF AnchorAnswers
  <2> QED  BY <2>4, <2>5
<1> QED  BY <1>1, <1>2, <1>3, <1>4 DEF OtherNext

LEMMA CallsStep ==
    ASSUME TypeOK, ChannelInv, [Next]_vars
    PROVE  CallsInv'
<1>0. CallsInv /\ Enclaves \subseteq Guests /\ Strangers \subseteq Guests
  BY DEF ChannelInv, CallsInv, Guests
<1>1. ASSUME NEW g \in Enclaves, NEW leg \in Legs, Call(g, leg)  PROVE CallsInv'
  <2>1. PICK r : r = [pc |-> "connect", conn |-> calls + 1,
                      frame |-> [call |-> calls + 1, leg |-> leg],
                      left |-> LegBudget, sys |-> Armed(LegBudget), spent |-> 0]
    OBVIOUS
  <2>2. guest' = [guest EXCEPT ![g] = r] /\ guest'[g] = r
    BY <1>0, <1>1, <2>1 DEF Call, TypeOK
  <2>3. r.pc # "idle" /\ r.conn = calls + 1 /\ r.frame.call = calls + 1
    BY <2>1
  <2> QED  BY <1>0, <1>1, <2>2, <2>3, CallsBegin DEF Call
<1>2. ASSUME NEW g \in Enclaves, EnclaveNext(g)  PROVE CallsInv'
  <2>1. CASE /\ \A h \in Guests :
                   /\ guest'[h].pc = "idle" <=> guest[h].pc = "idle"
                   /\ guest'[h].conn = guest[h].conn
                   /\ guest'[h].frame = guest[h].frame
             /\ UNCHANGED delivered
    BY <1>0, <1>2, <2>1, EnclaveSteps, CallsKept
  <2>2. CASE guest' = [guest EXCEPT ![g] = Idle] /\ UNCHANGED delivered
    BY <1>0, <1>2, <2>2, EnclaveSteps, CallsEnd
  <2>3. CASE /\ guest' = [guest EXCEPT ![g] = Idle]
             /\ vsock[guest[g].conn].down # << >>
             /\ delivered' = delivered \cup {Head(vsock[guest[g].conn].down)}
    <3>1. guest[g].pc # "idle" /\ UNCHANGED <<calls, begun, answered>>
      BY <1>2, EnclaveSteps
    <3>2. \A a \in delivered' \ delivered : g \in Enclaves /\ a.of = guest[g].frame
      BY <2>3, <3>1, AnswerIsOwn
    <3> QED  BY <1>0, <2>3, <3>1, <3>2, CallsEnd
  <2> QED  BY <1>2, <2>1, <2>2, <2>3, EnclaveSteps
<1>3. ASSUME NEW g \in Strangers, StrangerConnects(g)  PROVE CallsInv'
  <2>1. PICK r : r = [Idle EXCEPT !.pc = "write", !.conn = calls + 1]
    OBVIOUS
  <2>2. guest' = [guest EXCEPT ![g] = r]
    BY <1>3, <2>1 DEF StrangerConnects
  <2>3. r.pc # "idle" /\ r.conn = calls + 1
    BY <2>1 DEF Idle
  <2> QED  BY <1>0, <1>3, <2>2, <2>3, CallsBegin DEF StrangerConnects
<1>4. ASSUME NEW g \in Strangers, NEW leg \in {"short", "junk"}, StrangerSends(g, leg)
      PROVE  CallsInv'
  <2>1. \A h \in Guests : /\ guest'[h].pc = "idle" <=> guest[h].pc = "idle"
                          /\ guest'[h].conn = guest[h].conn
                          /\ guest'[h].frame = guest[h].frame
    BY <1>0, <1>4 DEF StrangerSends, TypeOK, GuestRecs
  <2>2. UNCHANGED <<calls, begun, answered, delivered>>
    BY <1>4 DEF StrangerSends
  <2> QED  BY <1>0, <2>1, <2>2, CallsKept
<1>5. ASSUME NEW g \in Strangers, StrangerLeaves(g)  PROVE CallsInv'
  BY <1>0, <1>5, CallsEnd DEF StrangerLeaves
<1>6. ASSUME OtherNext  PROVE CallsInv'
  <2>1. answered' \subseteq answered \cup begun
    BY <1>6, OtherSteps
  <2> QED  BY <1>0, <1>6, <2>1, OtherSteps, CallsKept
<1> QED  BY <1>1, <1>2, <1>3, <1>4, <1>5, <1>6 DEF Next, StrangerNext, OtherNext

\* Every step is a step of the channel, or leaves the channel as it is.
LEMMA ChannelStep ==
    ASSUME TypeOK, ChannelInv, [Next]_vars
    PROVE  [AC!Next]_(AC!vars)
<1>0. Enclaves \subseteq Guests /\ Strangers \subseteq Guests /\ Enclaves \cap Strangers = {}
  BY ConstantsAssumption DEF Guests
<1>k. ASSUME \A g \in Enclaves : guest'[g].frame = guest[g].frame,
             UNCHANGED <<begun, answered, delivered>>
      PROVE  UNCHANGED AC!vars
  BY <1>k DEF AC!vars
<1>1. ASSUME NEW g \in Enclaves, NEW leg \in Legs, Call(g, leg)  PROVE AC!Next
  <2>1. PICK f : f = [call |-> calls + 1, leg |-> leg]
    OBVIOUS
  <2>2. /\ f \in Frames
        /\ \A b \in begun : b.call \in Nat /\ b.call <= calls
        /\ calls \in Nat
    BY <1>1, <2>1, ConstantsAssumption
    DEF Call, ChannelInv, HistoryOrdered, FrameOn, TypeOK, Frames, Conns
  <2>3. f \notin begun
    BY <2>1, <2>2
  <2>4. guest'[g].frame = f /\ \A h \in Enclaves : h # g => guest'[h] = guest[h]
    BY <1>0, <1>1, <2>1 DEF Call, TypeOK
  <2>5. guest[g].frame = NoFrame
    BY <1>0, <1>1 DEF Call, ChannelInv, CallsOwn
  <2>6. [h \in Enclaves |-> guest'[h].frame] =
           [[h \in Enclaves |-> guest[h].frame] EXCEPT ![g] = f]
    BY <2>4
  <2>7. begun' = begun \cup {f} /\ UNCHANGED <<answered, delivered>>
    BY <1>1, <2>4 DEF Call
  <2>8. AC!Begin(g, f)
    BY <2>3, <2>5, <2>6, <2>7 DEF AC!Begin
  <2> QED  BY <2>2, <2>8 DEF AC!Next
<1>2. ASSUME NEW g \in Enclaves, EnclaveNext(g)  PROVE [AC!Next]_(AC!vars)
  <2>0. guest[g].pc # "idle" /\ UNCHANGED <<calls, begun, answered>>
    BY <1>2, EnclaveSteps
  <2>f. ASSUME guest' = [guest EXCEPT ![g] = Idle]
        PROVE  /\ [h \in Enclaves |-> guest'[h].frame] =
                     [[h \in Enclaves |-> guest[h].frame] EXCEPT ![g] = NoFrame]
               /\ guest[g].frame # NoFrame
    <3>1. guest'[g].frame = NoFrame /\ \A h \in Enclaves : h # g => guest'[h] = guest[h]
      BY <1>0, <2>f DEF TypeOK, Idle
    <3>2. guest[g].frame.call \in Conns
      BY <2>0 DEF TypeOK, Frames
    <3>3. guest[g].frame # NoFrame
      BY <3>2, ConstantsAssumption DEF NoFrame, Conns
    <3> QED  BY <3>1, <3>3
  <2>1. CASE /\ \A h \in Guests :
                   /\ guest'[h].pc = "idle" <=> guest[h].pc = "idle"
                   /\ guest'[h].conn = guest[h].conn
                   /\ guest'[h].frame = guest[h].frame
             /\ UNCHANGED delivered
    BY <1>0, <2>0, <2>1, <1>k
  <2>2. CASE guest' = [guest EXCEPT ![g] = Idle] /\ UNCHANGED delivered
    <3>1. AC!Fail(g)
      BY <2>0, <2>2, <2>f DEF AC!Fail
    <3> QED  BY <3>1 DEF AC!Next, AC!End
  <2>3. CASE /\ guest' = [guest EXCEPT ![g] = Idle]
             /\ vsock[guest[g].conn].down # << >>
             /\ delivered' = delivered \cup {Head(vsock[guest[g].conn].down)}
    <3>1. PICK a : a = Head(vsock[guest[g].conn].down)
      OBVIOUS
    <3>2. a.of = guest[g].frame /\ guest[g].frame \in answered
      BY <2>0, <2>3, <3>1, AnswerIsOwn
    <3>3. guest[g].frame \notin {x.of : x \in delivered}
      BY <2>0 DEF ChannelInv, CallsOwn
    <3>4. {x.of : x \in delivered'} = {x.of : x \in delivered} \cup {guest[g].frame}
      BY <2>3, <3>1, <3>2
    <3>5. AC!Return(g)
      BY <2>0, <2>3, <2>f, <3>2, <3>3, <3>4 DEF AC!Return
    <3> QED  BY <3>5 DEF AC!Next, AC!End
  <2> QED  BY <1>2, <2>1, <2>2, <2>3, EnclaveSteps
<1>3. ASSUME NEW g \in Strangers, StrangerNext(g)  PROVE UNCHANGED AC!vars
  <2>1. \A h \in Enclaves : guest'[h].frame = guest[h].frame
    BY <1>0, <1>3 DEF StrangerNext, StrangerConnects, StrangerSends, StrangerLeaves, TypeOK
  <2>2. UNCHANGED <<begun, answered, delivered>>
    BY <1>3 DEF StrangerNext, StrangerConnects, StrangerSends, StrangerLeaves
  <2> QED  BY <2>1, <2>2, <1>k
<1>4. ASSUME OtherNext  PROVE [AC!Next]_(AC!vars)
  <2>1. /\ \A h \in Enclaves : guest'[h].frame = guest[h].frame
        /\ UNCHANGED <<begun, delivered>>
    BY <1>0, <1>4, OtherSteps
  <2>2. CASE answered' = answered
    BY <2>1, <2>2, <1>k
  <2>3. ASSUME NEW f \in Frames, f \in begun \ answered, answered' = answered \cup {f}
        PROVE  AC!Next
    <3>1. AC!Answer(f)
      BY <2>1, <2>3 DEF AC!Answer
    <3> QED  BY <3>1 DEF AC!Next
  <2> QED  BY <1>4, <2>2, <2>3, OtherSteps
<1> QED  BY <1>1, <1>2, <1>3, <1>4 DEF Next, OtherNext

\* Nothing strays to another connection: one end closes, one message moves.
LEMMA WiresKept ==
    ASSUME TypeOK, ChannelInv, [Next]_vars
    PROVE  OnWires'
<1> USE ConstantsAssumption
<1>0. /\ OnWires /\ InHand /\ Grows
      /\ vsock \in [Conns -> VsockRecs] /\ tcp \in [Conns -> TcpRecs]
      /\ \A c \in Conns : Carries(vsock[c], c) /\ Carries(tcp[c], c)
      /\ Enclaves \subseteq Guests /\ Strangers \subseteq Guests
  BY GrowsStep DEF ChannelInv, TypeOK, OnWires, Guests
<1>v. ASSUME NEW k \in Conns, NEW w, Carries(w, k), vsock' = [vsock EXCEPT ![k] = w],
             \/ tcp' = tcp
             \/ \E j \in Conns : tcp' = [tcp EXCEPT ![j] = AnchorDropped(tcp[j])]
      PROVE  OnWires'
  <2>1. \A c \in Conns : Carries(vsock'[c], c)
    BY <1>0, <1>v
  <2>2. \A c \in Conns : Carries(tcp'[c], c)
    <3>1. CASE tcp' = tcp
      BY <1>0, <3>1
    <3>2. ASSUME NEW j \in Conns, tcp' = [tcp EXCEPT ![j] = AnchorDropped(tcp[j])]
          PROVE  \A c \in Conns : Carries(tcp'[c], c)
      <4>1. Carries(AnchorDropped(tcp[j]), j)
        BY <1>0, <3>2, TcpCarries
      <4> QED  BY <1>0, <3>2, <4>1
    <3> QED  BY <1>v, <3>1, <3>2
  <2> QED  BY <1>0, <2>1, <2>2, WiresStep
<1>t. ASSUME NEW k \in Conns, NEW w, Carries(w, k), tcp' = [tcp EXCEPT ![k] = w],
             vsock' = vsock
      PROVE  OnWires'
  <2>1. \A c \in Conns : Carries(tcp'[c], c) /\ Carries(vsock'[c], c)
    BY <1>0, <1>t
  <2> QED  BY <1>0, <2>1, WiresStep
<1>s. ASSUME vsock' = vsock, tcp' = tcp  PROVE OnWires'
  BY <1>0, <1>s, WiresStep
<1>c. ASSUME ClosePump, relay.pc \notin {"accept", "backoff"}  PROVE OnWires'
  <2>1. relay.conn \in Conns /\ relay.tcp \in Conns \cup {0}
    BY <1>c DEF TypeOK, RelayRecs
  <2>2. Carries(RelayClosed(vsock[relay.conn]), relay.conn)
    BY <1>0, <2>1, VsockCarries
  <2>3. vsock' = [vsock EXCEPT ![relay.conn] = RelayClosed(vsock[relay.conn])]
    BY <1>c DEF ClosePump
  <2>4. \/ tcp' = tcp
        \/ \E j \in Conns : tcp' = [tcp EXCEPT ![j] = AnchorDropped(tcp[j])]
    BY <1>c, <2>1 DEF ClosePump
  <2> QED  BY <1>v, <2>1, <2>2, <2>3, <2>4
<1>g. ASSUME NEW g \in Guests, guest[g].pc # "idle", UNCHANGED tcp,
             vsock' = [vsock EXCEPT ![guest[g].conn] = GuestClosed(vsock[guest[g].conn])]
      PROVE  OnWires'
  <2>1. guest[g].conn \in Conns
    BY <1>g DEF TypeOK
  <2>2. Carries(GuestClosed(vsock[guest[g].conn]), guest[g].conn)
    BY <1>0, <2>1, VsockCarries
  <2> QED  BY <1>v, <1>g, <2>1, <2>2
<1>o. \A c : Carries(Open, c)
  BY DEF Carries, Open, Closed, Range
<1>1. ASSUME NEW g \in Enclaves, NEW leg \in Legs, Call(g, leg)  PROVE OnWires'
  BY <1>1, <1>s DEF Call
<1>2. ASSUME NEW g \in Enclaves, EnclaveNext(g)  PROVE OnWires'
  <2>1. CASE ConnectRefused(g) \/ GuestReads(g) \/ GuestFails(g)
    <3>1. guest[g].pc # "idle" /\ GuestReturns(g)
      BY <2>1 DEF ConnectRefused, GuestReads, GuestFails, ChannelFault
    <3>2. UNCHANGED tcp
      BY <3>1 DEF GuestReturns
    <3>3. vsock' = [vsock EXCEPT ![guest[g].conn] = GuestClosed(vsock[guest[g].conn])]
      BY <3>1 DEF GuestReturns
    <3> QED  BY <1>0, <1>g, <3>1, <3>2, <3>3
  <2>2. CASE Connected(g)
    <3>1. guest[g].conn \in Conns
      BY <1>0, <2>2 DEF Connected, TypeOK
    <3>2. vsock' = [vsock EXCEPT ![guest[g].conn] = Open] /\ tcp' = tcp
      BY <2>2 DEF Connected
    <3> QED  BY <1>o, <1>v, <3>1, <3>2
  <2>3. CASE GuestWrites(g)
    <3>1. /\ guest[g].conn \in Conns /\ guest[g].frame \in Frames
          /\ guest[g].frame \in begun /\ guest[g].frame.call = guest[g].conn
      BY <1>0, <2>3 DEF GuestWrites, TypeOK, ChannelInv, CallsOwn
    <3>2. FrameOn(guest[g].frame, guest[g].conn)
      BY <3>1 DEF ChannelInv, HistoryOrdered
    <3>3. PICK v : v = vsock[guest[g].conn]
      OBVIOUS
    <3>4. v \in VsockRecs /\ Carries(v, guest[g].conn)
      BY <1>0, <3>1, <3>3
    <3>5. Carries([v EXCEPT !.up = Append(v.up, guest[g].frame)], guest[g].conn)
      BY <3>1, <3>2, <3>4, VsockCarries
    <3>6. /\ vsock' = [vsock EXCEPT ![guest[g].conn] =
                          [v EXCEPT !.up = Append(v.up, guest[g].frame)]]
          /\ tcp' = tcp
      BY <1>0, <2>3, <3>1, <3>3 DEF GuestWrites
    <3> QED  BY <1>v, <3>1, <3>5, <3>6
  <2>4. CASE GuestReadsSome(g)
    BY <2>4, <1>s DEF GuestReadsSome
  <2> QED  BY <1>2, <2>1, <2>2, <2>3, <2>4 DEF EnclaveNext
<1>3. ASSUME NEW g \in Strangers, StrangerNext(g)  PROVE OnWires'
  <2>1. CASE StrangerConnects(g)
    <3>1. calls + 1 \in Conns
      BY <2>1 DEF StrangerConnects, TypeOK, Conns
    <3>2. vsock' = [vsock EXCEPT ![calls + 1] = Open] /\ tcp' = tcp
      BY <2>1 DEF StrangerConnects
    <3> QED  BY <1>o, <1>v, <3>1, <3>2
  <2>2. ASSUME NEW leg \in {"short", "junk"}, StrangerSends(g, leg)  PROVE OnWires'
    <3>1. /\ guest[g].conn \in Conns /\ guest[g].pc # "idle" /\ guest[g].conn <= calls
      BY <1>0, <2>2 DEF StrangerSends, TypeOK, ChannelInv, GuestsApart
    <3>2. PICK f : f = [call |-> guest[g].conn, leg |-> leg]
      OBVIOUS
    <3>3. f \in Frames /\ FrameOn(f, guest[g].conn)
      BY <3>1, <3>2 DEF Frames, Legs, FrameOn, ChannelInv, CallsOwn
    <3>4. PICK v : v = vsock[guest[g].conn]
      OBVIOUS
    <3>5. v \in VsockRecs /\ Carries(v, guest[g].conn)
      BY <1>0, <3>1, <3>4
    <3>6. Carries([v EXCEPT !.up = Append(v.up, f)], guest[g].conn)
      BY <3>3, <3>5, VsockCarries
    <3>7. /\ vsock' = [vsock EXCEPT ![guest[g].conn] = [v EXCEPT !.up = Append(v.up, f)]]
          /\ tcp' = tcp
      BY <1>0, <2>2, <3>1, <3>2, <3>4 DEF StrangerSends
    <3> QED  BY <1>v, <3>1, <3>6, <3>7
  <2>3. CASE StrangerLeaves(g)
    <3>1. guest[g].pc # "idle" /\ UNCHANGED tcp
      BY <2>3 DEF StrangerLeaves
    <3>2. vsock' = [vsock EXCEPT ![guest[g].conn] = GuestClosed(vsock[guest[g].conn])]
      BY <2>3 DEF StrangerLeaves
    <3> QED  BY <1>0, <1>g, <3>1, <3>2
  <2> QED  BY <1>3, <2>1, <2>2, <2>3 DEF StrangerNext
<1>4. ASSUME RelayNext  PROVE OnWires'
  <2>1. CASE Accept \/ BackoffOver \/ PumpReadsSome \/ DialsNext \/ WritesSome
    BY <2>1, <1>s DEF Accept, BackoffOver, PumpReadsSome, DialsNext, WritesSome, PumpStep
  <2>2. CASE PumpReadsLate \/ RefusesRequest \/ DialFails \/ PumpFails
    BY <2>2, <1>c DEF PumpReadsLate, RefusesRequest, DialFails, PumpFails, PumpFault
  <2>3. CASE ReadsRequest
    <3>1. relay.conn \in Conns
      BY <2>3 DEF ReadsRequest, TypeOK
    <3>2. PICK v : v = vsock[relay.conn]
      OBVIOUS
    <3>3. v \in VsockRecs /\ Carries(v, relay.conn) /\ v.up # << >>
      BY <1>0, <2>3, <3>1, <3>2 DEF ReadsRequest
    <3>4. Carries([v EXCEPT !.up = Tail(v.up)], relay.conn)
      BY <3>3, VsockCarries
    <3>5. vsock' = [vsock EXCEPT ![relay.conn] = [v EXCEPT !.up = Tail(v.up)]] /\ tcp' = tcp
      BY <1>0, <2>3, <3>1, <3>2 DEF ReadsRequest
    <3> QED  BY <1>v, <3>1, <3>4, <3>5
  <2>4. CASE Dialled
    <3>1. relay.conn \in Conns
      BY <2>4 DEF Dialled, TypeOK
    <3>2. Carries([tcp[relay.conn] EXCEPT !.relay = TRUE, !.anchor = TRUE], relay.conn)
      BY <1>0, <3>1, TcpCarries
    <3>3. /\ tcp' = [tcp EXCEPT ![relay.conn] =
                        [tcp[relay.conn] EXCEPT !.relay = TRUE, !.anchor = TRUE]]
          /\ vsock' = vsock
      BY <1>0, <2>4, <3>1 DEF Dialled, AnchorConn
    <3> QED  BY <1>t, <3>1, <3>2, <3>3
  <2>5. CASE Forwards
    <3>1. /\ relay.conn \in Conns /\ relay.tcp = relay.conn /\ relay.frame \in Frames
          /\ FrameOn(relay.frame, relay.conn)
      BY <1>0, <2>5 DEF Forwards, TypeOK, InHand
    <3>2. PICK u : u = tcp[relay.conn]
      OBVIOUS
    <3>3. u \in TcpRecs /\ Carries(u, relay.conn) /\ u.up \in Seq(Frames)
      BY <1>0, <3>1, <3>2 DEF TcpRecs
    <3>4. PICK w : w = [u EXCEPT !.up = Append(u.up, relay.frame)]
      OBVIOUS
    <3>5. w \in TcpRecs /\ Carries(w, relay.conn)
      BY <3>1, <3>3, <3>4, Appended, TcpTypes, TcpCarries
    <3>6. w = [tcp[relay.tcp] EXCEPT !.up = Append(tcp[relay.tcp].up, relay.frame)]
      BY <3>1, <3>2, <3>4
    <3>7. CASE Lapsed(relay)
      <4>1. /\ vsock' = [vsock EXCEPT ![relay.conn] = RelayClosed(vsock[relay.conn])]
            /\ tcp' = [tcp EXCEPT ![relay.tcp] = AnchorDropped(w)]
        BY <2>5, <3>6, <3>7 DEF Forwards
      <4>2. Carries(AnchorDropped(w), relay.conn)
            /\ Carries(RelayClosed(vsock[relay.conn]), relay.conn)
        BY <1>0, <3>1, <3>5, TcpCarries, VsockCarries
      <4>3. \A c \in Conns : Carries(vsock'[c], c) /\ Carries(tcp'[c], c)
        BY <1>0, <3>1, <4>1, <4>2
      <4> QED  BY <1>0, <4>3, WiresStep
    <3>8. CASE ~Lapsed(relay)
      <4>1. tcp' = [tcp EXCEPT ![relay.tcp] = w] /\ vsock' = vsock
        BY <2>5, <3>6, <3>8 DEF Forwards
      <4> QED  BY <1>t, <3>1, <3>5, <4>1
    <3> QED  BY <3>7, <3>8
  <2>6. CASE ReadsAnswer
    <3>1. relay.tcp \in Conns
      BY <2>6 DEF ReadsAnswer, TypeOK
    <3>2. PICK u : u = tcp[relay.tcp]
      OBVIOUS
    <3>3. u \in TcpRecs /\ Carries(u, relay.tcp) /\ u.down # << >>
      BY <1>0, <2>6, <3>1, <3>2 DEF ReadsAnswer
    <3>4. Carries([u EXCEPT !.down = Tail(u.down)], relay.tcp)
      BY <3>3, TcpCarries
    <3>5. /\ tcp' = [tcp EXCEPT ![relay.tcp] = [u EXCEPT !.down = Tail(u.down)]]
          /\ vsock' = vsock
      BY <1>0, <2>6, <3>1, <3>2 DEF ReadsAnswer
    <3> QED  BY <1>t, <3>1, <3>4, <3>5
  <2>7. CASE WritesBack
    <3>1. /\ relay.conn \in Conns /\ relay.tcp \in Conns /\ relay.answer \in Answers
          /\ AnswerOn(relay.answer, relay.conn)
      BY <1>0, <2>7 DEF WritesBack, TypeOK, InHand
    <3>2. PICK v : v = vsock[relay.conn]
      OBVIOUS
    <3>3. v \in VsockRecs /\ Carries(v, relay.conn)
      BY <1>0, <3>1, <3>2
    <3>4. Carries([RelayClosed(v) EXCEPT !.down = Append(v.down, relay.answer)], relay.conn)
      BY <3>1, <3>3, VsockCarries
    <3>5. /\ vsock' = [vsock EXCEPT ![relay.conn] =
                          [RelayClosed(v) EXCEPT !.down = Append(v.down, relay.answer)]]
          /\ tcp' = [tcp EXCEPT ![relay.tcp] = AnchorDropped(tcp[relay.tcp])]
      BY <2>7, <3>2 DEF WritesBack
    <3> QED  BY <1>v, <3>1, <3>4, <3>5
  <2> QED  BY <1>4, <2>1, <2>2, <2>3, <2>4, <2>5, <2>6, <2>7 DEF RelayNext
<1>5. ASSUME NEW drops \in BOOLEAN, AcceptError(drops)  PROVE OnWires'
  <2>1. tcp' = tcp
    BY <1>5 DEF AcceptError
  <2>2. CASE drops
    <3>1. Head(backlog) \in Conns
      BY <1>5, <2>2, HeadTail DEF AcceptError, TypeOK
    <3>2. Carries(RelayClosed(vsock[Head(backlog)]), Head(backlog))
      BY <1>0, <3>1, VsockCarries
    <3>3. vsock' = [vsock EXCEPT ![Head(backlog)] = RelayClosed(vsock[Head(backlog)])]
      BY <1>5, <2>2 DEF AcceptError
    <3> QED  BY <1>v, <2>1, <3>1, <3>2, <3>3
  <2>3. CASE ~drops
    BY <1>5, <1>s, <2>1, <2>3 DEF AcceptError
  <2> QED  BY <2>2, <2>3
<1>6. ASSUME RelayRestarts  PROVE OnWires'
  <2>1. \A c \in Conns : Carries(vsock'[c], c) /\ Carries(tcp'[c], c)
    BY <1>0, <1>6, VsockCarries, TcpCarries DEF RelayRestarts
  <2> QED  BY <1>0, <2>1, WiresStep
<1>7. ASSUME NEW k \in Conns, AnchorCloses(k)  PROVE OnWires'
  <2>1. Carries([tcp[k] EXCEPT !.anchor = FALSE, !.up = << >>], k)
    BY <1>0, TcpCarries
  <2>2. /\ tcp' = [tcp EXCEPT ![k] = [tcp[k] EXCEPT !.anchor = FALSE, !.up = << >>]]
        /\ vsock' = vsock
    BY <1>0, <1>7 DEF AnchorCloses
  <2> QED  BY <1>t, <2>1, <2>2
<1>8. ASSUME NEW k \in Conns, NEW s \in Sizes, AnchorAnswers(k, s)  PROVE OnWires'
  <2>1. PICK u : u = tcp[k]
    OBVIOUS
  <2>2. /\ u \in TcpRecs /\ Carries(u, k) /\ u.up # << >>
        /\ u.up \in Seq(Frames) /\ u.down \in Seq(Answers)
    BY <1>0, <1>8, <2>1 DEF AnchorAnswers, TcpRecs
  <2>3. PICK a : a = [of |-> Head(u.up), size |-> s]
    OBVIOUS
  <2>4. /\ Head(u.up) \in Frames /\ a \in Answers /\ a.of = Head(u.up)
        /\ Head(u.up) \in Range(u.up) /\ Range(Tail(u.up)) \subseteq Range(u.up)
    BY <2>2, <2>3, HeadTail DEF Answers
  <2>5. AnswerOn(a, k)'
    <3>1. FrameOn(a.of, k)
      BY <2>2, <2>4 DEF Carries
    <3>2. FrameOn(a.of, k)'
      BY <1>0, <3>1, OnGrows
    <3>3. a.of \in begun' => a.of \in answered'
      BY <1>8, <2>1, <2>4 DEF AnchorAnswers
    <3> QED  BY <3>2, <3>3 DEF AnswerOn
  <2>6. PICK d : d = IF u.relay THEN Append(u.down, a) ELSE u.down
    OBVIOUS
  <2>7. Range(d) \subseteq Range(u.down) \cup {a}
    BY <2>2, <2>4, <2>6, Appended
  <2>8. PICK w : w = [u EXCEPT !.up = Tail(u.up), !.down = d]
    OBVIOUS
  <2>9. w.up = Tail(u.up) /\ w.down = d
    BY <2>2, <2>8 DEF TcpRecs
  <2>10. Carries(w, k)'
    <3>1. Carries(u, k)'
      BY <1>0, <2>2, OnGrows
    <3> QED  BY <2>4, <2>5, <2>7, <2>9, <3>1 DEF Carries
  <2>11. tcp' = [tcp EXCEPT ![k] = w] /\ vsock' = vsock
    BY <1>0, <1>8, <2>1, <2>3, <2>6, <2>8 DEF AnchorAnswers
  <2>12. ASSUME NEW c \in Conns  PROVE Carries(vsock[c], c)' /\ Carries(tcp[c], c)'
    <3>1. PICK x, y : x = vsock[c] /\ y = tcp'[c]
      OBVIOUS
    <3>2. Carries(x, c)'
      BY <1>0, <3>1, OnGrows
    <3>3. Carries(y, c)'
      <4>1. CASE c = k
        BY <1>0, <2>10, <2>11, <3>1, <4>1
      <4>2. CASE c # k
        <5>1. y = tcp[c]
          BY <1>0, <2>11, <3>1, <4>2
        <5> QED  BY <1>0, <5>1, OnGrows
      <4> QED  BY <4>1, <4>2
    <3> QED  BY <2>11, <3>1, <3>2, <3>3 DEF Carries, FrameOn, AnswerOn
  <2> QED  BY <2>12 DEF OnWires
<1>9. Tick \/ Done \/ UNCHANGED vars => OnWires'
  BY <1>s DEF Tick, Done, vars
<1> QED  BY <1>1, <1>2, <1>3, <1>4, <1>5, <1>6, <1>7, <1>8, <1>9 DEF Next

LEMMA InHandStep ==
    ASSUME TypeOK, ChannelInv, [Next]_vars
    PROVE  InHand'
<1> USE ConstantsAssumption
<1>0. InHand /\ OnWires /\ Grows /\ relay \in RelayRecs
  BY GrowsStep DEF ChannelInv, TypeOK
<1>w. relay'.pc \in {"accept", "backoff", "read"} => InHand'
  BY DEF InHand
<1>h. ASSUME NEW f, NEW c \in Conns, NEW a, FrameOn(f, c),
             relay'.frame = f, relay'.conn = c,
             relay'.pc \in {"send", "recv", "reply"} => relay'.tcp = c,
             relay'.pc = "reply" => relay'.answer = a /\ AnswerOn(a, c)
      PROVE  InHand'
  <2>1. FrameOn(f, c)' /\ (AnswerOn(a, c) => AnswerOn(a, c)')
    BY <1>0, <1>h, OnGrows
  <2> QED  BY <1>h, <2>1 DEF InHand, FrameOn, AnswerOn
<1>k. ASSUME relay'.pc = relay.pc, relay'.conn = relay.conn, relay'.tcp = relay.tcp,
             relay'.frame = relay.frame, relay'.answer = relay.answer
      PROVE  InHand'
  <2>1. CASE relay.pc \notin {"dial", "send", "recv", "reply"}
    BY <1>k, <2>1 DEF InHand
  <2>2. CASE relay.pc \in {"dial", "send", "recv", "reply"}
    <3>1. PICK f, c, a : f = relay.frame /\ c = relay.conn /\ a = relay.answer
      OBVIOUS
    <3>2. /\ c \in Conns /\ FrameOn(f, c)
          /\ relay.pc \in {"send", "recv", "reply"} => relay.tcp = c
          /\ relay.pc = "reply" => AnswerOn(a, c)
      BY <1>0, <2>2, <3>1 DEF InHand, TypeOK
    <3> QED  BY <1>h, <1>k, <3>1, <3>2
  <2> QED  BY <2>1, <2>2
<1>1. relay' = relay => InHand'
  BY <1>k
<1>2. (\E g \in Enclaves : (\E leg \in Legs : Call(g, leg)) \/ EnclaveNext(g))
      \/ (\E g \in Strangers : StrangerNext(g)) => relay' = relay
  BY DEF Call, EnclaveNext, Connected, ConnectRefused, GuestWrites, GuestReadsSome,
     GuestReads, GuestFails, GuestReturns, StrangerNext, StrangerConnects,
     StrangerSends, StrangerLeaves
<1>3. (\E k \in Conns : AnchorCloses(k) \/ \E s \in Sizes : AnchorAnswers(k, s))
      \/ Done \/ UNCHANGED vars => relay' = relay
  BY DEF AnchorCloses, AnchorAnswers, Done, vars
<1>4. Tick => InHand'
  BY <1>k, TickRelay
<1>5. BackoffOver \/ WritesBack \/ RelayRestarts \/ PumpReadsLate \/ RefusesRequest
      \/ DialFails \/ PumpFails => InHand'
  BY <1>w DEF BackoffOver, WritesBack, RelayRestarts, PumpReadsLate, RefusesRequest,
     DialFails, PumpFails, ClosePump, Waiting
<1>6. ASSUME NEW drops \in BOOLEAN, AcceptError(drops)  PROVE InHand'
  BY <1>6, <1>w DEF AcceptError, Waiting
<1>7. Accept => InHand'
  BY <1>w DEF Accept, Waiting
<1>8. ASSUME PumpReadsSome  PROVE InHand'
  BY <1>8, <1>0, <1>k DEF PumpReadsSome, PumpStep, RelayRecs
<1>9. ASSUME DialsNext  PROVE InHand'
  BY <1>9, <1>0, <1>k DEF DialsNext, PumpStep, RelayRecs
<1>10. ASSUME WritesSome  PROVE InHand'
  BY <1>10, <1>0, <1>k DEF WritesSome, PumpStep, RelayRecs
<1>11. ASSUME ReadsRequest  PROVE InHand'
  <2>1. PICK c, s : c = relay.conn /\ s = vsock[relay.conn].up
    OBVIOUS
  <2>2. c \in Conns /\ s \in Seq(Frames) /\ s # << >> /\ Carries(vsock[c], c)
    BY <1>0, <1>11, <2>1, RelayConns DEF ReadsRequest, OnWires
  <2>3. PICK f : f = Head(s)
    OBVIOUS
  <2>4. FrameOn(f, c)
    BY <2>1, <2>2, <2>3, HeadTail DEF Carries
  <2>5. relay'.pc = "dial" /\ relay'.frame = f /\ relay'.conn = c
    BY <1>0, <1>11, <2>1, <2>3 DEF ReadsRequest, RelayRecs
  <2> QED  BY <1>h, <2>2, <2>4, <2>5
<1>12. ASSUME Dialled  PROVE InHand'
  <2>1. PICK c, f : c = relay.conn /\ f = relay.frame
    OBVIOUS
  <2>2. c \in Conns /\ FrameOn(f, c)
    BY <1>0, <1>12, <2>1 DEF Dialled, TypeOK, InHand
  <2>3. relay'.pc = "send" /\ relay'.frame = f /\ relay'.conn = c /\ relay'.tcp = c
    BY <1>0, <1>12, <2>1 DEF Dialled, AnchorConn, RelayRecs
  <2> QED  BY <1>h, <2>2, <2>3
<1>13. ASSUME Forwards  PROVE InHand'
  <2>1. CASE Lapsed(relay)
    BY <1>13, <1>w, <2>1 DEF Forwards, Waiting
  <2>2. CASE ~Lapsed(relay)
    <3>1. relay' = [relay EXCEPT !.pc = "recv", !.sys = PumpBudget] /\ relay.pc = "send"
      BY <1>13, <2>2 DEF Forwards
    <3>2. PICK c, f : c = relay.conn /\ f = relay.frame
      OBVIOUS
    <3>3. c \in Conns /\ FrameOn(f, c) /\ relay.tcp = c
      BY <1>0, <3>1, <3>2 DEF TypeOK, InHand
    <3>4. relay'.pc = "recv" /\ relay'.frame = f /\ relay'.conn = c /\ relay'.tcp = c
      BY <1>0, <3>1, <3>2, <3>3 DEF RelayRecs
    <3> QED  BY <1>h, <3>3, <3>4
  <2> QED  BY <2>1, <2>2
<1>14. ASSUME ReadsAnswer  PROVE InHand'
  <2>1. PICK c, f, s : c = relay.conn /\ f = relay.frame /\ s = tcp[relay.tcp].down
    OBVIOUS
  <2>2. /\ c \in Conns /\ FrameOn(f, c) /\ relay.tcp = c /\ Carries(tcp[c], c)
        /\ s \in Seq(Answers) /\ s # << >>
    BY <1>0, <1>14, <2>1, RelayConns DEF ReadsAnswer, TypeOK, InHand, OnWires
  <2>3. PICK a : a = Head(s)
    OBVIOUS
  <2>4. AnswerOn(a, c)
    BY <2>1, <2>2, <2>3, HeadTail DEF Carries
  <2>5. /\ relay'.pc = "reply" /\ relay'.frame = f /\ relay'.conn = c /\ relay'.tcp = c
        /\ relay'.answer = a
    BY <1>0, <1>14, <2>1, <2>2, <2>3 DEF ReadsAnswer, RelayRecs
  <2> QED  BY <1>h, <2>2, <2>4, <2>5
<1> QED  BY <1>1, <1>2, <1>3, <1>4, <1>5, <1>6, <1>7, <1>8, <1>9, <1>10, <1>11, <1>12,
            <1>13, <1>14 DEF Next, RelayNext

\* The two legs are a channel (BootRelayChannel), whatever is lost, cut short or
\* comes late and whoever else uses the relay's port: an answer an enclave's call
\* returns is one the anchor gave to this call's frame, it is returned once and to
\* one call, and the anchor sees no frame that no call sent. (That a call always
\* comes back is the fairness part of Channel.)
THEOREM ChannelSafety == Spec => AC!Init /\ [][AC!Next]_(AC!vars)
<1>1. Init => TypeOK /\ ChannelInv
  BY RelayInit
<1>2. Init => AC!Init
  <2> SUFFICES ASSUME Init  PROVE AC!Init
    OBVIOUS
  <2>1. \A g \in Enclaves : guest[g].frame = NoFrame
    BY DEF Init, Idle, Guests
  <2> QED  BY <2>1 DEF Init, AC!Init
<1>3. TypeOK /\ ChannelInv /\ [Next]_vars => (TypeOK /\ ChannelInv)'
  <2> SUFFICES ASSUME TypeOK, ChannelInv, [Next]_vars  PROVE TypeOK' /\ ChannelInv'
    OBVIOUS
  <2>1. TypeOK'
    BY TypeStep
  <2>2. CallsInv' /\ OnWires' /\ InHand'
    BY CallsStep, WiresKept, InHandStep
  <2> QED  BY <2>1, <2>2 DEF CallsInv, ChannelInv
<1>4. TypeOK /\ ChannelInv /\ [Next]_vars => [AC!Next]_(AC!vars)
  BY ChannelStep
<1> QED  BY <1>1, <1>2, <1>3, <1>4, PTL DEF Spec

=============================================================================
