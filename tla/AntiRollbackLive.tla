-------------------------- MODULE AntiRollbackLive --------------------------
(***************************************************************************)
(* Recovery from lost acks: AntiRollback with a budget of faults.  Once    *)
(* the budget is spent the relay delivers, nothing crashes and the host    *)
(* keeps what it is given.                                                 *)
(***************************************************************************)
EXTENDS AntiRollback

CONSTANT MaxFaults      \* bound: faults in a behaviour

ASSUME MaxFaultsAssumption == MaxFaults \in Nat

VARIABLE faults

liveVars == <<vars, faults>>

\* The anchor will not answer this commit: only the deadline ends the wait.
Rejected(i) ==
    \A c \in commits :
        c.nonce = nonce[i] => ~ LedgerAccepts(c) /\ ~ LedgerRepeats(c)

Fault(i) ==
    \/ Crash(i)
    \/ BootTransportError(i)
    \/ BootReplyInvalid(i)
    \/ CommitFailed(i) /\ ~ Rejected(i)
    \/ \E a \in acks : CommitAcked(i, a, FALSE)

\* Boot steps that need no luck.
BootStep(i) ==
    \/ IssueChallenge(i)
    \/ RetriesExhausted(i)
    \/ \E r \in freshness : FreshnessReply(i, r)
    \/ \E r \in marksSent : MarksReply(i, r)

ServeStep(i) ==
    \/ \E rid \in Rids, d \in Amounts : Dispense(i, rid, d)
    \/ \E rid \in Rids, op \in StructuralOps, m \in Material : Structural(i, rid, op, m)
    \/ \E a \in acks : CommitAcked(i, a, TRUE)
    \/ CommitFailed(i) /\ Rejected(i)

LiveInit == Init /\ faults = 0

LiveNext ==
    \/ AnchorNext /\ UNCHANGED faults
    \/ \E i \in Enclaves :
          \/ (\E b \in blobs : Start(i, b)) /\ UNCHANGED faults
          \/ BootStep(i) /\ UNCHANGED faults
          \/ ServeStep(i) /\ UNCHANGED faults
          \/ faults < MaxFaults /\ Fault(i) /\ faults' = faults + 1

\* The relay delivers the two boot legs and the anchor answers them.
LiveSpec ==
    /\ LiveInit
    /\ [][LiveNext]_liveVars
    /\ \A i \in Enclaves : WF_liveVars(BootStep(i) /\ UNCHANGED faults)
    /\ WF_liveVars((\E n \in challenges : AnchorFreshness(n)) /\ UNCHANGED faults)
    /\ WF_liveVars((\E q \in marksAsked : AnchorMarks(q)) /\ UNCHANGED faults)

\* No commit of an earlier life can still reach the anchor.
NoStraggler == \A c \in commits : ~ LedgerAccepts(c)

\* A process that starts on a blob of the current structural version serves,
\* however many acks or blobs were lost before: lost acks of dispenses are
\* adopted from the anchor and do not wedge the treasury.
LostAckHeals ==
    \A i \in Enclaves :
        (/\ faults = MaxFaults
         /\ phase[i] = "booting" /\ attempts[i] >= 2
         /\ body[i].structural = anchor.structural
         /\ NoStraggler) ~> phase[i] = "serving"
=============================================================================
