------------------------ MODULE AntiRollback_proofs ------------------------
(***************************************************************************)
(* Proofs about AntiRollback, for any set of enclaves, request_ids,        *)
(* amounts and bounds.                                                     *)
(***************************************************************************)
EXTENDS AntiRollback, TLAPS

(* Facts about the data *)

LEMMA GenesisType ==
    /\ Genesis \in Body
    /\ StateOf(Genesis) \in AnchorState
    /\ NoCandidate \in Candidate
  BY DEF Genesis, Body, Marks, StateOf, AnchorState, NoCandidate, Candidate, Kinds

LEMMA ReconcileType ==
    ASSUME NEW b, NEW s
    PROVE  Reconcile(b, s) \in {"Fresh", "AdoptForward"} \/ Reconcile(b, s) \in Reasons
  BY DEF Reconcile, Reasons, FailReasons

LEMMA AdoptVerdictType ==
    ASSUME NEW b, NEW m, NEW s
    PROVE  AdoptVerdict(b, m, s) = "ok" \/ AdoptVerdict(b, m, s) \in Reasons
  BY DEF AdoptVerdict, Reasons

LEMMA StateOfType ==
    ASSUME NEW x, x.epoch \in Nat, x.structural \in Nat, x.marks \in Marks
    PROVE  StateOf(x) \in AnchorState
  BY DEF StateOf, AnchorState

LEMMA DispenseCandidateType ==
    ASSUME NEW b \in Body, NEW d \in Nat
    PROVE  /\ DispenseCandidate(b, d) \in Body
           /\ DispenseCandidate(b, d).epoch = b.epoch + 1
  BY DEF DispenseCandidate, Body, Marks

LEMMA StructuralCandidateType ==
    ASSUME NEW b \in Body, NEW op, NEW m \in Material
    PROVE  /\ StructuralCandidate(b, op, m) \in Body
           /\ StructuralCandidate(b, op, m).epoch = b.epoch + 1
  BY DEF StructuralCandidate, Body, Marks

-----------------------------------------------------------------------------
(* Type correctness *)

LEMMA FailClosedType ==
    ASSUME TypeOK, NEW i \in Enclaves, NEW why \in Reasons, FailClosed(i, why)
    PROVE  TypeOK'
  BY GenesisType DEF FailClosed, TypeOK, Phases, relayVars, anchorVars

LEMMA SendCommitType ==
    ASSUME TypeOK, NEW i \in Enclaves, NEW c \in Candidate, c.rid \in Rids,
           SendCommit(i, c)
    PROVE  TypeOK'
  <1>1. c.body \in Body
    BY DEF Candidate
  <1>2. [nonce |-> drawn + 1, rid |-> c.rid, epoch |-> c.body.epoch,
         structural |-> c.body.structural, marks |-> c.body.marks]
            \in [nonce : Nat, rid : Rids, epoch : Nat, structural : Nat, marks : Marks]
    BY <1>1 DEF Body, TypeOK
  <1> QED BY <1>2 DEF SendCommit, TypeOK, Phases, anchorVars

LEMMA InitType == Init => TypeOK
  BY GenesisType DEF Init, TypeOK, Phases, Reasons

LEMMA StepType == TypeOK /\ [Next]_vars => TypeOK'
  <1> SUFFICES ASSUME TypeOK, [Next]_vars
               PROVE  TypeOK'
    OBVIOUS
  <1> USE GenesisType
  <1>1. ASSUME NEW i \in Enclaves, NEW b \in blobs, Start(i, b)
        PROVE  TypeOK'
    BY <1>1, ConstantsAssumption
       DEF Start, TypeOK, Phases, Reasons, relayVars, anchorVars
  <1>2. ASSUME NEW i \in Enclaves, IssueChallenge(i)
        PROVE  TypeOK'
    BY <1>2 DEF IssueChallenge, TypeOK, Phases, anchorVars
  <1>3. ASSUME NEW i \in Enclaves, RetriesExhausted(i) \/ BootReplyInvalid(i)
        PROVE  TypeOK'
    BY <1>3, FailClosedType DEF RetriesExhausted, BootReplyInvalid, Reasons
  <1>4. ASSUME NEW i \in Enclaves, BootTransportError(i)
        PROVE  TypeOK'
    BY <1>4 DEF BootTransportError, TypeOK, Phases, relayVars, anchorVars
  <1>5. ASSUME NEW i \in Enclaves, NEW r \in freshness, FreshnessReply(i, r)
        PROVE  TypeOK'
    <2>1. StateOf(r) \in AnchorState /\ StateOf(r).epoch \in Nat
      BY StateOfType DEF TypeOK, AnchorState
    <2>2. CASE Ready(i)
      BY <2>2 DEF Ready, TypeOK, Phases, relayVars, anchorVars
    <2>3. CASE RequestMarks(i, StateOf(r))
      <3>1. [nonce |-> nonce[i], epoch |-> StateOf(r).epoch] \in [nonce : Nat, epoch : Nat]
        BY <2>1 DEF TypeOK
      <3> QED BY <2>1, <2>3, <3>1 DEF RequestMarks, TypeOK, Phases, anchorVars
    <2>4. CASE /\ Reconcile(body[i], r) \in FailReasons
               /\ FailClosed(i, Reconcile(body[i], r))
      BY <2>4, FailClosedType DEF Reasons
    <2> QED BY <1>5, <2>2, <2>3, <2>4 DEF FreshnessReply
  <1>6. ASSUME NEW i \in Enclaves, NEW r \in marksSent, MarksReply(i, r)
        PROVE  TypeOK'
    <2>1. CASE Adopt(i, r.marks)
      <3>1. SeedMarksForward(body[i], r.marks, target[i].epoch) \in Body
        BY DEF SeedMarksForward, TypeOK, Body, AnchorState
      <3> QED BY <2>1, <3>1 DEF Adopt, TypeOK, Phases, relayVars, anchorVars
    <2>2. CASE /\ AdoptVerdict(body[i], r.marks, target[i]) # "ok"
               /\ FailClosed(i, AdoptVerdict(body[i], r.marks, target[i]))
      BY <2>2, FailClosedType, AdoptVerdictType
    <2> QED BY <1>6, <2>1, <2>2 DEF MarksReply
  <1>7. ASSUME NEW i \in Enclaves, NEW rid \in Rids, NEW d \in Amounts, Dispense(i, rid, d)
        PROVE  TypeOK'
    <2>1. d \in Nat
      BY ConstantsAssumption
    <2>2. DispenseCandidate(body[i], d) \in Body
      BY <2>1, DispenseCandidateType DEF TypeOK
    <2>3. [body |-> DispenseCandidate(body[i], d), rid |-> rid,
           kind |-> "dispense", debit |-> d] \in Candidate
      BY <2>1, <2>2 DEF Candidate, Kinds
    <2> QED BY <1>7, <2>3, SendCommitType DEF Dispense
  <1>8. ASSUME NEW i \in Enclaves, NEW rid \in Rids, NEW op \in StructuralOps,
               NEW m \in Material, Structural(i, rid, op, m)
        PROVE  TypeOK'
    <2>1. op \in Kinds
      BY ConstantsAssumption DEF Kinds
    <2>2. StructuralCandidate(body[i], op, m) \in Body
      BY StructuralCandidateType DEF TypeOK
    <2>3. [body |-> StructuralCandidate(body[i], op, m), rid |-> rid,
           kind |-> op, debit |-> 0] \in Candidate
      BY <2>1, <2>2 DEF Candidate
    <2> QED BY <1>8, <2>3, SendCommitType DEF Structural
  <1>9. ASSUME NEW i \in Enclaves, NEW a \in acks, NEW kept \in BOOLEAN,
               CommitAcked(i, a, kept)
        PROVE  TypeOK'
    <2>1. a.rid \in Rids /\ cand[i].rid = a.rid
      BY <1>9 DEF CommitAcked, VerifyCommitAck, TypeOK
    <2>2. cand[i].body \in Body /\ cand[i].kind \in Kinds /\ cand[i].debit \in Nat
      BY DEF TypeOK, Candidate
    <2>3. cand[i].body.epoch \in Nat /\ cand[i].body.marks.ctr \in Nat
      BY <2>2 DEF Body, Marks
    <2>4. [by |-> i, rid |-> cand[i].rid, epoch |-> cand[i].body.epoch,
           kind |-> cand[i].kind, debit |-> cand[i].debit,
           ctr |-> cand[i].body.marks.ctr]
             \in [by : Enclaves, rid : Rids, epoch : Nat, kind : Kinds,
                  debit : Nat, ctr : Nat]
      BY <2>1, <2>2, <2>3
    <2> QED BY <1>9, <2>2, <2>4 DEF CommitAcked, TypeOK, Phases, relayVars, anchorVars
  <1>10. ASSUME NEW i \in Enclaves, CommitFailed(i)
         PROVE  TypeOK'
    BY <1>10 DEF CommitFailed, TypeOK, Phases, relayVars, anchorVars
  <1>11. ASSUME NEW i \in Enclaves, Crash(i)
         PROVE  TypeOK'
    BY <1>11 DEF Crash, TypeOK, Phases, relayVars, anchorVars
  <1>12. ASSUME NEW n \in challenges, AnchorFreshness(n)
         PROVE  TypeOK'
    BY <1>12 DEF AnchorFreshness, TypeOK, AnchorState, enclaveVars, anchorVars
  <1>13. ASSUME NEW q \in marksAsked, AnchorMarks(q)
         PROVE  TypeOK'
    BY <1>13 DEF AnchorMarks, TypeOK, AnchorState, enclaveVars, anchorVars
  <1>14. ASSUME NEW c \in commits, AnchorCommit(c)
         PROVE  TypeOK'
    <2>1. Record(c) \in [rid : Rids, epoch : Nat, structural : Nat, marks : Marks]
      BY DEF Record, TypeOK
    <2>2. StateOf(c) \in AnchorState
      BY StateOfType DEF TypeOK
    <2> QED BY <1>14, <2>1, <2>2 DEF AnchorCommit, TypeOK, enclaveVars, anchorVars
  <1>15. CASE UNCHANGED vars
    BY <1>15 DEF vars, enclaveVars, relayVars, anchorVars, TypeOK
  <1> QED
    BY <1>1, <1>2, <1>3, <1>4, <1>5, <1>6, <1>7, <1>8, <1>9, <1>10, <1>11,
       <1>12, <1>13, <1>14, <1>15 DEF Next, EnclaveNext, AnchorNext

\* Every variable keeps its type in every behaviour of the protocol.
THEOREM TypeCorrect == Spec => []TypeOK
  BY InitType, StepType, PTL DEF Spec

-----------------------------------------------------------------------------
(* At most one response per commit *)

Serving(i) == phase[i] \in {"serving", "committing"}

\* A step that records, acks and releases nothing, and lets no process into a
\* phase the invariant speaks of.
LEMMA QuietStep ==
    ASSUME IInv, TypeOK',
           UNCHANGED <<anchor, ledger, acks, released, freshness, challenges, drawn>>,
           \A i \in Enclaves : phase'[i] = "challenged" =>
               phase[i] = "challenged" /\ nonce'[i] = nonce[i],
           \A i \in Enclaves : phase'[i] = "committing" =>
               phase[i] = "committing" /\ cand'[i] = cand[i] /\ body'[i] = body[i],
           \A i \in Enclaves : phase'[i] = "serving" =>
               Serving(i) /\ body'[i] = body[i]
    PROVE  IInv'
  <1>1. LedgerWellFormed'
    BY DEF IInv, LedgerWellFormed
  <1>2. AckedIsRecorded'
    BY DEF IInv, AckedIsRecorded, Record
  <1>3. ReleasedIsRecorded'
    BY DEF IInv, ReleasedIsRecorded
  <1>4. CandidateIsNext'
    BY DEF IInv, CandidateIsNext
  <1>5. ReplyIsFresh'
    BY DEF IInv, ReplyIsFresh
  <1>6. ServingCoversReleased'
    BY DEF IInv, ServingCoversReleased, Serving
  <1>7. ReleasedOnce'
    BY DEF IInv, ReleasedOnce
  <1> QED BY <1>1, <1>2, <1>3, <1>4, <1>5, <1>6, <1>7 DEF IInv

LEMMA FailClosedStep ==
    ASSUME IInv, TypeOK', NEW i \in Enclaves, NEW why, FailClosed(i, why)
    PROVE  IInv'
  <1>1. \A j \in Enclaves \ {i} : phase'[j] = phase[j] /\ nonce'[j] = nonce[j]
                                  /\ cand'[j] = cand[j] /\ body'[j] = body[j]
    BY DEF FailClosed, IInv, TypeOK
  <1>2. phase'[i] = "failed"
    BY DEF FailClosed, IInv, TypeOK
  <1>3. UNCHANGED <<anchor, ledger, acks, released, freshness, challenges, drawn>>
    BY DEF FailClosed, relayVars, anchorVars
  <1> QED BY <1>1, <1>2, <1>3, QuietStep DEF Serving

LEMMA SendCommitStep ==
    ASSUME IInv, TypeOK', NEW i \in Enclaves, NEW c, SendCommit(i, c),
           phase[i] = "serving", c.rid \in Rids, Owner[c.rid] = i,
           c.body.epoch = body[i].epoch + 1
    PROVE  IInv'
  <1>1. /\ UNCHANGED <<anchor, ledger, acks, released, freshness, challenges, body>>
        /\ phase' = [phase EXCEPT ![i] = "committing"]
        /\ cand' = [cand EXCEPT ![i] = c]
        /\ nonce' = [nonce EXCEPT ![i] = drawn + 1]
        /\ drawn' = drawn + 1
    BY DEF SendCommit, anchorVars
  <1>2. LedgerWellFormed' /\ AckedIsRecorded' /\ ReleasedIsRecorded' /\ ReleasedOnce'
    BY <1>1 DEF IInv, LedgerWellFormed, AckedIsRecorded, ReleasedIsRecorded,
                ReleasedOnce, Record
  <1>3. CandidateIsNext'
    BY <1>1 DEF IInv, TypeOK, CandidateIsNext
  <1>4. ReplyIsFresh'
    BY <1>1 DEF IInv, TypeOK, ReplyIsFresh
  <1>5. ServingCoversReleased'
    BY <1>1 DEF IInv, TypeOK, ServingCoversReleased
  <1> QED BY <1>2, <1>3, <1>4, <1>5 DEF IInv

LEMMA ReleaseStep ==
    ASSUME IInv, TypeOK', NEW i \in Enclaves, NEW a \in acks, NEW kept \in BOOLEAN,
           CommitAcked(i, a, kept)
    PROVE  IInv'
  <1> DEFINE new == [by |-> i, rid |-> cand[i].rid, epoch |-> cand[i].body.epoch,
                     kind |-> cand[i].kind, debit |-> cand[i].debit,
                     ctr |-> cand[i].body.marks.ctr]
  <1>1. /\ UNCHANGED <<anchor, ledger, acks, freshness, challenges, drawn>>
        /\ phase' = [phase EXCEPT ![i] = "serving"]
        /\ body' = [body EXCEPT ![i] = cand[i].body]
        /\ cand' = [cand EXCEPT ![i] = NoCandidate]
        /\ nonce' = [nonce EXCEPT ![i] = 0]
        /\ released' = released \cup {new}
        /\ phase[i] = "committing"
    BY DEF CommitAcked, relayVars, anchorVars
  <1>2. /\ cand[i].rid \in Rids
        /\ Owner[cand[i].rid] = i
        /\ new.epoch = body[i].epoch + 1
    BY <1>1 DEF IInv, CandidateIsNext
  <1>3. \E l \in ledger : l.rid = new.rid /\ l.epoch = new.epoch
    BY DEF CommitAcked, VerifyCommitAck, StateOf, IInv, AckedIsRecorded, Record
  <1>4. \A r \in released : r.by = i => r.epoch < new.epoch
    <2>1. body[i].epoch \in Nat /\ \A r \in released : r.epoch \in Nat
      BY DEF IInv, TypeOK, Body
    <2>2. \A r \in released : r.by = i => r.epoch <= body[i].epoch
      BY <1>1 DEF IInv, ServingCoversReleased
    <2> QED BY <1>2, <2>1, <2>2
  <1>5. \A r \in released : r.rid # new.rid
    <2> SUFFICES ASSUME NEW r \in released, r.rid = new.rid
                 PROVE  FALSE
      OBVIOUS
    <2>1. r.by = i
      BY <1>2 DEF IInv, ReleasedIsRecorded
    <2>2. r.epoch = new.epoch
      BY <1>3 DEF IInv, ReleasedIsRecorded, LedgerWellFormed
    <2> QED BY <1>4, <2>1, <2>2 DEF IInv, TypeOK
  <1>6. \A r \in released : r.epoch # new.epoch
    BY <1>3, <1>5 DEF IInv, ReleasedIsRecorded, LedgerWellFormed
  <1>7. ReleasedOnce'
    BY <1>1, <1>5, <1>6 DEF IInv, ReleasedOnce
  <1>8. LedgerWellFormed' /\ AckedIsRecorded'
    BY <1>1 DEF IInv, LedgerWellFormed, AckedIsRecorded, Record
  <1>9. ReleasedIsRecorded'
    BY <1>1, <1>2, <1>3 DEF IInv, ReleasedIsRecorded
  <1>10. CandidateIsNext'
    BY <1>1 DEF IInv, TypeOK, CandidateIsNext
  <1>11. ReplyIsFresh'
    BY <1>1 DEF IInv, TypeOK, ReplyIsFresh
  <1>12. ServingCoversReleased'
    <2> SUFFICES ASSUME NEW j \in Enclaves, NEW r \in released',
                        Serving(j)', r.by = j
                 PROVE  r.epoch <= body'[j].epoch
      BY DEF ServingCoversReleased, Serving
    <2>1. CASE j = i
      <3>1. body'[i].epoch = new.epoch
        BY <1>1 DEF IInv, TypeOK
      <3>2. new.epoch \in Nat /\ \A q \in released : q.epoch \in Nat
        <4>1. body[i].epoch \in Nat /\ \A q \in released : q.epoch \in Nat
          BY DEF IInv, TypeOK, Body
        <4> HIDE DEF new
        <4> QED BY <1>2, <4>1
      <3> QED BY <1>1, <1>4, <2>1, <3>1, <3>2
    <2>2. CASE j # i
      BY <1>1, <2>2 DEF IInv, TypeOK, ServingCoversReleased, Serving
    <2> QED BY <2>1, <2>2
  <1> QED BY <1>7, <1>8, <1>9, <1>10, <1>11, <1>12 DEF IInv

LEMMA InitIInv == Init => IInv
  BY InitType DEF Init, IInv, LedgerWellFormed, AckedIsRecorded, ReleasedIsRecorded,
     CandidateIsNext, ReplyIsFresh, ServingCoversReleased, ReleasedOnce

LEMMA StepIInv == IInv /\ [Next]_vars => IInv'
  <1> SUFFICES ASSUME IInv, [Next]_vars
               PROVE  IInv'
    OBVIOUS
  <1> USE DEF Serving
  <1>0. TypeOK /\ TypeOK'
    BY StepType DEF IInv
  <1>1. ASSUME NEW i \in Enclaves, NEW b \in blobs, Start(i, b)
        PROVE  IInv'
    BY <1>0, <1>1, QuietStep DEF Start, TypeOK, relayVars, anchorVars
  <1>2. ASSUME NEW i \in Enclaves, IssueChallenge(i)
        PROVE  IInv'
    <2>1. /\ UNCHANGED <<anchor, ledger, acks, released, freshness, body, cand>>
          /\ phase' = [phase EXCEPT ![i] = "challenged"]
          /\ nonce' = [nonce EXCEPT ![i] = drawn + 1]
          /\ drawn' = drawn + 1
          /\ challenges' = challenges \cup {drawn + 1}
      BY <1>2 DEF IssueChallenge, anchorVars
    <2>2. LedgerWellFormed' /\ AckedIsRecorded' /\ ReleasedIsRecorded' /\ ReleasedOnce'
      BY <2>1 DEF IInv, LedgerWellFormed, AckedIsRecorded, ReleasedIsRecorded,
                  ReleasedOnce, Record
    <2>3. CandidateIsNext' /\ ServingCoversReleased'
      BY <2>1, <1>0 DEF IInv, TypeOK, CandidateIsNext, ServingCoversReleased
    <2>4. ReplyIsFresh'
      BY <2>1, <1>0 DEF IInv, TypeOK, ReplyIsFresh
    <2> QED BY <1>0, <2>2, <2>3, <2>4 DEF IInv
  <1>3. ASSUME NEW i \in Enclaves, RetriesExhausted(i) \/ BootReplyInvalid(i)
        PROVE  IInv'
    BY <1>0, <1>3, FailClosedStep DEF RetriesExhausted, BootReplyInvalid
  <1>4. ASSUME NEW i \in Enclaves, BootTransportError(i)
        PROVE  IInv'
    BY <1>0, <1>4, QuietStep DEF BootTransportError, TypeOK, relayVars, anchorVars
  <1>5. ASSUME NEW i \in Enclaves, NEW r \in freshness, FreshnessReply(i, r)
        PROVE  IInv'
    <2>1. CASE Reconcile(body[i], r) = "Fresh" /\ Ready(i)
      <3>1. /\ UNCHANGED <<anchor, ledger, acks, released, freshness, body, cand, challenges, drawn>>
            /\ phase' = [phase EXCEPT ![i] = "serving"]
            /\ nonce' = [nonce EXCEPT ![i] = 0]
        BY <2>1 DEF Ready, relayVars, anchorVars
      <3>2. phase[i] = "challenged" /\ r.nonce = nonce[i]
        BY <1>5 DEF FreshnessReply, VerifyFreshness
      <3>3. r.epoch = body[i].epoch
        BY <2>1, <1>0 DEF Reconcile, TypeOK, Body
      <3>4. LedgerWellFormed' /\ AckedIsRecorded' /\ ReleasedIsRecorded' /\ ReleasedOnce'
        BY <3>1 DEF IInv, LedgerWellFormed, AckedIsRecorded, ReleasedIsRecorded,
                    ReleasedOnce, Record
      <3>5. CandidateIsNext' /\ ReplyIsFresh'
        BY <3>1, <1>0 DEF IInv, TypeOK, CandidateIsNext, ReplyIsFresh
      <3>6. ServingCoversReleased'
        BY <3>1, <3>2, <3>3, <1>0 DEF IInv, TypeOK, ReplyIsFresh, ServingCoversReleased
      <3> QED BY <1>0, <3>4, <3>5, <3>6 DEF IInv
    <2>2. CASE RequestMarks(i, StateOf(r))
      BY <1>0, <2>2, QuietStep DEF RequestMarks, TypeOK, anchorVars
    <2>3. CASE FailClosed(i, Reconcile(body[i], r))
      BY <1>0, <2>3, FailClosedStep
    <2> QED BY <1>5, <2>1, <2>2, <2>3 DEF FreshnessReply
  <1>6. ASSUME NEW i \in Enclaves, NEW r \in marksSent, MarksReply(i, r)
        PROVE  IInv'
    <2>1. CASE Adopt(i, r.marks)
      BY <1>0, <2>1, QuietStep DEF Adopt, TypeOK, relayVars, anchorVars
    <2>2. CASE FailClosed(i, AdoptVerdict(body[i], r.marks, target[i]))
      BY <1>0, <2>2, FailClosedStep
    <2> QED BY <1>6, <2>1, <2>2 DEF MarksReply
  <1>7. ASSUME NEW i \in Enclaves, NEW rid \in Rids, NEW d \in Amounts, Dispense(i, rid, d)
        PROVE  IInv'
    <2>1. DispenseCandidate(body[i], d).epoch = body[i].epoch + 1
      BY <1>0, ConstantsAssumption, DispenseCandidateType DEF TypeOK
    <2> QED BY <1>0, <1>7, <2>1, SendCommitStep DEF Dispense
  <1>8. ASSUME NEW i \in Enclaves, NEW rid \in Rids, NEW op \in StructuralOps,
               NEW m \in Material, Structural(i, rid, op, m)
        PROVE  IInv'
    <2>1. StructuralCandidate(body[i], op, m).epoch = body[i].epoch + 1
      BY <1>0, StructuralCandidateType DEF TypeOK
    <2> QED BY <1>0, <1>8, <2>1, SendCommitStep DEF Structural
  <1>9. ASSUME NEW i \in Enclaves, NEW a \in acks, NEW kept \in BOOLEAN,
               CommitAcked(i, a, kept)
        PROVE  IInv'
    BY <1>0, <1>9, ReleaseStep
  <1>10. ASSUME NEW i \in Enclaves, CommitFailed(i)
         PROVE  IInv'
    BY <1>0, <1>10, QuietStep DEF CommitFailed, TypeOK, relayVars, anchorVars
  <1>11. ASSUME NEW i \in Enclaves, Crash(i)
         PROVE  IInv'
    BY <1>0, <1>11, QuietStep DEF Crash, TypeOK, relayVars, anchorVars
  <1>12. ASSUME NEW n \in challenges, AnchorFreshness(n)
         PROVE  IInv'
    <2> DEFINE new == [nonce |-> n, epoch |-> anchor.epoch,
                       structural |-> anchor.structural, marks |-> anchor.marks]
    <2>1. /\ UNCHANGED <<anchor, ledger, acks, released, phase, body, cand, nonce, challenges, drawn>>
          /\ freshness' = freshness \cup {new}
          /\ \E i \in Enclaves : nonce[i] = n
      BY <1>12 DEF AnchorFreshness, Awaited, enclaveVars, anchorVars
    <2>2. LedgerWellFormed' /\ AckedIsRecorded' /\ ReleasedIsRecorded' /\ ReleasedOnce'
      BY <2>1 DEF IInv, LedgerWellFormed, AckedIsRecorded, ReleasedIsRecorded,
                  ReleasedOnce, Record
    <2>3. CandidateIsNext' /\ ServingCoversReleased'
      BY <2>1 DEF IInv, CandidateIsNext, ServingCoversReleased
    <2>4. \A r \in released : r.epoch <= new.epoch
      BY DEF IInv, ReleasedIsRecorded, LedgerWellFormed
    <2>5. ReplyIsFresh'
      BY <2>1, <2>4 DEF IInv, ReplyIsFresh
    <2> QED BY <1>0, <2>2, <2>3, <2>5 DEF IInv
  <1>13. ASSUME NEW q \in marksAsked, AnchorMarks(q)
         PROVE  IInv'
    BY <1>0, <1>13, QuietStep DEF AnchorMarks, enclaveVars, anchorVars
  <1>14. ASSUME NEW c \in commits, AnchorCommit(c)
         PROVE  IInv'
    <2>1. /\ UNCHANGED <<released, freshness, phase, body, cand, nonce, challenges, drawn>>
          /\ acks' = acks \cup {c}
      BY <1>14 DEF AnchorCommit, enclaveVars
    <2>2. /\ ledger \subseteq ledger'
          /\ Record(c) \in ledger'
          /\ LedgerWellFormed'
      <3>1. CASE /\ LedgerAccepts(c)
                 /\ ledger' = ledger \cup {Record(c)}
                 /\ anchor' = StateOf(c)
        <4>1. anchor'.epoch = c.epoch /\ anchor.epoch < c.epoch
          BY <3>1, <1>0 DEF LedgerAccepts, StateOf, TypeOK, AnchorState
        <4>2. \A l \in ledger : l.epoch < c.epoch /\ l.rid # c.rid
          BY <3>1, <4>1, <1>0 DEF IInv, LedgerWellFormed, LedgerAccepts, TypeOK, AnchorState
        <4>3. \A l \in ledger' : l.epoch <= anchor'.epoch
          BY <3>1, <4>1, <4>2, <1>0 DEF Record, TypeOK
        <4>4. \A k, l \in ledger' : (k.rid = l.rid \/ k.epoch = l.epoch) => k = l
          BY <3>1, <4>2, <1>0 DEF IInv, LedgerWellFormed, Record, TypeOK
        <4> QED BY <3>1, <4>3, <4>4 DEF LedgerWellFormed
      <3>2. CASE LedgerRepeats(c) /\ UNCHANGED anchorVars
        BY <3>2 DEF LedgerRepeats, anchorVars, IInv, LedgerWellFormed
      <3> QED BY <1>14, <3>1, <3>2 DEF AnchorCommit
    <2>3. AckedIsRecorded'
      BY <2>1, <2>2 DEF IInv, AckedIsRecorded, Record
    <2>4. ReleasedIsRecorded' /\ ReleasedOnce'
      BY <2>1, <2>2 DEF IInv, ReleasedIsRecorded, ReleasedOnce
    <2>5. CandidateIsNext' /\ ReplyIsFresh' /\ ServingCoversReleased'
      BY <2>1 DEF IInv, CandidateIsNext, ReplyIsFresh, ServingCoversReleased
    <2> QED BY <1>0, <2>2, <2>3, <2>4, <2>5 DEF IInv
  <1>15. CASE UNCHANGED vars
    BY <1>0, <1>15, QuietStep DEF vars, enclaveVars, relayVars, anchorVars
  <1> QED
    BY <1>1, <1>2, <1>3, <1>4, <1>5, <1>6, <1>7, <1>8, <1>9, <1>10, <1>11,
       <1>12, <1>13, <1>14, <1>15 DEF Next, EnclaveNext, AnchorNext

\* No commit of the anchor, and no request_id, pays for two responses: with any
\* number of processes, crashes, rolled-back blobs and replayed messages.
THEOREM NoDoubleRelease == Spec => []ReleasedOnce
  <1>1. IInv => ReleasedOnce
    BY DEF IInv
  <1> QED BY <1>1, InitIInv, StepIInv, PTL DEF Spec

\* A process never serves from a state older than what it already released.
THEOREM NoServingBehindRelease == Spec => []ServingCoversReleased
  <1>1. IInv => ServingCoversReleased
    BY DEF IInv
  <1> QED BY <1>1, InitIInv, StepIInv, PTL DEF Spec

-----------------------------------------------------------------------------
(* The anchor's past is a chain *)

LEMMA HistoryType ==
    ASSUME TypeOK
    PROVE  History \subseteq AnchorState
  <1>1. \A l \in ledger : StateOf(l) \in AnchorState
    BY StateOfType DEF TypeOK
  <1> QED BY <1>1, GenesisType DEF History

\* StateOf keeps the fields the chain is about.
LEMMA StateOfFields ==
    ASSUME NEW x
    PROVE  /\ StateOf(x).epoch = x.epoch
           /\ StateOf(x).structural = x.structural
           /\ StateOf(x).marks = x.marks
  BY DEF StateOf

\* What was recorded stays recorded, and a record is part of the past.
LEMMA HistoryGrows ==
    ASSUME ledger \subseteq ledger'
    PROVE  History \subseteq History'
  BY DEF History, StateOf, Genesis

LEMMA HistorySame ==
    ASSUME UNCHANGED ledger
    PROVE  History' = History
  BY DEF History, StateOf, Genesis

LEMMA CandidatesFollow ==
    ASSUME NEW b \in Body, NEW d \in Nat, NEW op, NEW m,
           b.structural = b.marks.ctr + 1, b.marks.spent <= Budget
    PROVE  /\ DebitAllowed(b, d) => Follows(StateOf(b), DispenseCandidate(b, d))
           /\ Follows(StateOf(b), StructuralCandidate(b, op, m))
  <1>1. /\ b.epoch \in Nat /\ b.structural \in Nat
        /\ b.marks.spent \in Nat /\ b.marks.ctr \in Nat
    BY DEF Body, Marks
  <1>2. DebitAllowed(b, d) => Follows(StateOf(b), DispenseCandidate(b, d))
    BY <1>1, StateOfFields DEF Follows, DispenseCandidate, DebitAllowed
  <1>3. Follows(StateOf(b), StructuralCandidate(b, op, m))
    BY <1>1, StateOfFields, ConstantsAssumption DEF Follows, StructuralCandidate
  <1> QED BY <1>2, <1>3

\* A later state of the same structural version dominates the local marks: the
\* belt of an adoption never finds a regression.
LEMMA LaterDominates ==
    ASSUME TypeOK, HistoryIsChain, NEW b \in Body, NEW t \in History,
           StateOf(b) \in History, b.epoch <= t.epoch, b.structural = t.structural
    PROVE  MarksDominateLocal(t.marks, b)
  <1>1. t.marks.spent >= b.marks.spent
    <2>1. StateOf(b).marks.spent <= t.marks.spent
      BY StateOfFields DEF HistoryIsChain
    <2>2. t.marks.spent \in Nat /\ b.marks.spent \in Nat
      BY HistoryType DEF AnchorState, Body, Marks
    <2> QED BY <2>1, <2>2, StateOfFields
  <1>2. t.marks.ctr = b.marks.ctr
    <2>1. b.structural = b.marks.ctr + 1 /\ t.structural = t.marks.ctr + 1
      BY StateOfFields DEF HistoryIsChain
    <2>2. t.marks.ctr \in Nat /\ b.marks.ctr \in Nat
      BY HistoryType DEF AnchorState, Body, Marks
    <2>3. t.marks.ctr + 1 = b.marks.ctr + 1
      BY <2>1
    <2> HIDE <2>1
    <2> QED BY <2>2, <2>3
  <1>3. b.marks.ctr \in Nat
    BY DEF Body, Marks
  <1> QED BY <1>1, <1>2, <1>3 DEF MarksDominateLocal

\* A state the anchor signed while the challenger waits, against the body that
\* waits for it: neither behind nor inconsistent.
LEMMA ReconcileHonest ==
    ASSUME TypeOK, HistoryIsChain, NEW b \in Body, NEW r \in freshness,
           StateOf(b) \in History, StateOf(r) \in History, b.epoch <= r.epoch
    PROVE  Reconcile(b, r) \in {"Fresh", "AdoptForward", "StructuralGap"}
  <1>1. b.epoch \in Nat /\ r.epoch \in Nat
    BY DEF TypeOK, Body
  <1>2. r.epoch = b.epoch => StateOf(r) = StateOf(b)
    BY StateOfFields DEF HistoryIsChain
  <1>3. r.epoch = b.epoch => r.structural = b.structural /\ r.marks = b.marks
    BY <1>2, StateOfFields
  <1> QED BY <1>1, <1>3 DEF Reconcile

Alarms == {"AnchorBehind", "Inconsistent", "BeltRegression"}

\* A step of the enclaves that seals, signs, sends and releases nothing.
LEMMA QuietHistory ==
    ASSUME TypeOK, HInv,
           UNCHANGED <<anchor, ledger, released, freshness, commits, blobs>>,
           \A i \in Enclaves :
               /\ StateOf(body'[i]) \in History
               /\ \E b \in Bodies : b.structural = body'[i].structural
                                    /\ b.config = body'[i].config,
           \A i \in Enclaves : phase'[i] = "challenged" =>
               phase[i] = "challenged" /\ nonce'[i] = nonce[i] /\ body'[i] = body[i],
           \A i \in Enclaves : phase'[i] = "adopting" =>
               /\ target'[i] \in History
               /\ target'[i].structural = body'[i].structural
               /\ body'[i].epoch < target'[i].epoch,
           \A i \in Enclaves : phase'[i] = "committing" =>
               phase[i] = "committing" /\ cand'[i] = cand[i] /\ body'[i] = body[i],
           \A i \in Enclaves : reason'[i] \notin Alarms
    PROVE  HInv'
  <1>0. History' = History
    BY HistorySame
  <1>1. HistoryIsChain'
    BY <1>0 DEF HInv, HistoryIsChain
  <1>2. StemsFromHistory'
    BY <1>0 DEF HInv, StemsFromHistory, Follows, StateOf, Genesis
  <1>3. BootLooksAhead'
    BY <1>0 DEF HInv, BootLooksAhead
  <1>4. CandidateFollows'
    BY DEF HInv, CandidateFollows
  <1>5. ReleasedIsFirst'
    BY <1>0 DEF HInv, ReleasedIsFirst
  <1>6. ConfigIsReleased'
    <2>1. \A b \in Bodies' : \E c \in Bodies : c.structural = b.structural /\ c.config = b.config
      BY DEF Bodies
    <2> QED BY <2>1 DEF HInv, ConfigIsReleased
  <1>7. NoFalseAlarm'
    BY DEF NoFalseAlarm, Alarms
  <1> QED BY <1>1, <1>2, <1>3, <1>4, <1>5, <1>6, <1>7 DEF HInv

\* The bodies that are there already meet QuietHistory's demands.
LEMMA BodiesKnown ==
    ASSUME HInv
    PROVE  /\ \A b \in Bodies : StateOf(b) \in History
           /\ Genesis \in Bodies
           /\ blobs \subseteq Bodies
           /\ \A i \in Enclaves : body[i] \in Bodies
  BY DEF HInv, StemsFromHistory, Bodies

\* A process moves between phases that nothing is claimed about and keeps its
\* body, or takes one that is there already.
LEMMA MoveHistory ==
    ASSUME TypeOK, HInv, NEW i \in Enclaves,
           UNCHANGED <<anchor, ledger, released, freshness, commits, blobs>>,
           \A j \in Enclaves \ {i} :
               /\ phase'[j] = phase[j] /\ nonce'[j] = nonce[j] /\ cand'[j] = cand[j]
               /\ target'[j] = target[j] /\ body'[j] = body[j] /\ reason'[j] = reason[j],
           phase'[i] \notin {"challenged", "adopting", "committing"},
           body'[i] \in Bodies,
           reason'[i] \notin Alarms
    PROVE  HInv'
  <1>1. \A j \in Enclaves :
            /\ StateOf(body'[j]) \in History
            /\ \E b \in Bodies : b.structural = body'[j].structural
                                 /\ b.config = body'[j].config
    BY BodiesKnown
  <1>2. \A j \in Enclaves : phase'[j] = "adopting" =>
            /\ target'[j] \in History
            /\ target'[j].structural = body'[j].structural
            /\ body'[j].epoch < target'[j].epoch
    BY DEF HInv, BootLooksAhead
  <1>3. \A j \in Enclaves : reason'[j] \notin Alarms
    BY DEF HInv, NoFalseAlarm, Alarms
  <1> QED BY <1>1, <1>2, <1>3, QuietHistory

LEMMA FailClosedHistory ==
    ASSUME TypeOK, HInv, NEW i \in Enclaves, NEW why, why \notin Alarms, FailClosed(i, why)
    PROVE  HInv'
  <1>1. \A j \in Enclaves \ {i} :
            /\ phase'[j] = phase[j] /\ nonce'[j] = nonce[j] /\ cand'[j] = cand[j]
            /\ target'[j] = target[j] /\ body'[j] = body[j] /\ reason'[j] = reason[j]
    BY DEF FailClosed, TypeOK
  <1>2. phase'[i] = "failed" /\ reason'[i] = why /\ body'[i] \in Bodies
    BY BodiesKnown DEF FailClosed, TypeOK
  <1>3. UNCHANGED <<anchor, ledger, released, freshness, commits, blobs>>
    BY DEF FailClosed, relayVars, anchorVars
  <1> QED BY <1>1, <1>2, <1>3, MoveHistory

\* A candidate leaves for the anchor.
LEMMA SendCommitHistory ==
    ASSUME TypeOK, HInv, NEW i \in Enclaves, NEW c \in Candidate, SendCommit(i, c),
           phase[i] = "serving", OneAhead(body[i], c)
    PROVE  HInv'
  <1> DEFINE new == [nonce |-> drawn + 1, rid |-> c.rid, epoch |-> c.body.epoch,
                     structural |-> c.body.structural, marks |-> c.body.marks]
  <1>1. /\ UNCHANGED <<anchor, ledger, released, freshness, body, blobs, target, reason>>
        /\ phase' = [phase EXCEPT ![i] = "committing"]
        /\ cand' = [cand EXCEPT ![i] = c]
        /\ nonce' = [nonce EXCEPT ![i] = drawn + 1]
        /\ commits' = commits \cup {new}
    BY DEF SendCommit, anchorVars
  <1>2. History' = History
    BY <1>1, HistorySame
  <1>3. HistoryIsChain' /\ NoFalseAlarm'
    BY <1>1, <1>2 DEF HInv, HistoryIsChain, NoFalseAlarm
  <1>4. StemsFromHistory'
    <2>1. StateOf(body[i]) \in History
      BY DEF HInv, StemsFromHistory
    <2>2. Follows(StateOf(body[i]), new)
      BY DEF OneAhead, Follows
    <2>3. \A d \in commits' : \E s \in History : Follows(s, d)
      BY <1>1, <2>1, <2>2 DEF HInv, StemsFromHistory
    <2> QED BY <1>1, <1>2, <2>3 DEF HInv, StemsFromHistory, Follows, StateOf, Genesis
  <1>5. BootLooksAhead'
    BY <1>1, <1>2 DEF HInv, BootLooksAhead, TypeOK
  <1>6. CandidateFollows'
    BY <1>1 DEF HInv, CandidateFollows, TypeOK
  <1>7. ReleasedIsFirst' /\ ConfigIsReleased'
    BY <1>1, <1>2 DEF HInv, ReleasedIsFirst, ConfigIsReleased, Bodies
  <1> QED BY <1>3, <1>4, <1>5, <1>6, <1>7 DEF HInv

\* A response is released: the candidate becomes one more sealed body.
LEMMA ReleaseHistory ==
    ASSUME IInv, HInv, NEW i \in Enclaves, NEW a \in acks, NEW kept \in BOOLEAN,
           CommitAcked(i, a, kept)
    PROVE  HInv'
  <1> DEFINE b == body[i]
             c == cand[i].body
             new == [by |-> i, rid |-> cand[i].rid, epoch |-> c.epoch,
                     kind |-> cand[i].kind, debit |-> cand[i].debit, ctr |-> c.marks.ctr]
  <1>0. /\ TypeOK /\ b \in Body /\ c \in Body
        /\ b.structural \in Nat /\ c.structural \in Nat /\ c.epoch \in Nat
        /\ b.epoch \in Nat /\ b.marks.ctr \in Nat /\ c.marks.ctr \in Nat
    BY DEF IInv, TypeOK, Candidate, Body, Marks
  <1>1. /\ UNCHANGED <<anchor, ledger, freshness, commits, target, reason>>
        /\ phase' = [phase EXCEPT ![i] = "serving"]
        /\ body' = [body EXCEPT ![i] = c]
        /\ cand' = [cand EXCEPT ![i] = NoCandidate]
        /\ nonce' = [nonce EXCEPT ![i] = 0]
        /\ released' = released \cup {new}
        /\ blobs' \in {blobs, blobs \cup {c}}
        /\ phase[i] = "committing"
    BY DEF CommitAcked, relayVars, anchorVars
  <1>2. History' = History
    BY <1>1, HistorySame
  <1>3. OneAhead(b, cand[i])
    BY <1>1 DEF HInv, CandidateFollows
  <1>4. PICK l \in ledger : l.rid = new.rid /\ StateOf(l) = StateOf(c)
    BY DEF CommitAcked, VerifyCommitAck, StateOf, IInv, AckedIsRecorded, Record
  <1>5. StateOf(c) \in History /\ StateOf(b) \in History /\ b \in Bodies
    BY <1>4, BodiesKnown DEF History
  <1>6. HistoryIsChain' /\ NoFalseAlarm'
    BY <1>1, <1>2 DEF HInv, HistoryIsChain, NoFalseAlarm
  <1>7. StemsFromHistory'
    BY <1>0, <1>1, <1>2, <1>5 DEF HInv, StemsFromHistory, TypeOK
  <1>8. BootLooksAhead' /\ CandidateFollows'
    BY <1>0, <1>1, <1>2 DEF HInv, BootLooksAhead, CandidateFollows, TypeOK
  <1>9. l.epoch = c.epoch /\ l.marks = c.marks /\ l.structural = c.structural
    BY <1>4, StateOfFields
  <1>10. new.kind # "dispense" =>
             \A s \in History : s.epoch < l.epoch => s.structural < l.structural
    <2> SUFFICES ASSUME new.kind # "dispense", NEW s \in History, s.epoch < l.epoch
                 PROVE  s.structural < l.structural
      OBVIOUS
    <2>1. s.epoch \in Nat /\ s.structural \in Nat
      BY <1>0, HistoryType DEF AnchorState
    <2>2. c.epoch = b.epoch + 1 /\ c.structural = b.structural + 1
      BY <1>3, StateOfFields DEF OneAhead, Follows
    <2>3. s.epoch <= b.epoch
      BY <1>0, <1>9, <2>1, <2>2
    <2>4. s.structural <= b.structural
      BY <1>5, <2>3, StateOfFields DEF HInv, HistoryIsChain
    <2> QED BY <1>0, <1>9, <2>1, <2>2, <2>4
  <1>11. ReleasedIsFirst'
    BY <1>1, <1>2, <1>4, <1>9, <1>10 DEF HInv, ReleasedIsFirst
  <1>12. new.kind # "dispense" => \A d \in Bodies : d.structural # c.structural
    <2> SUFFICES ASSUME new.kind # "dispense", NEW d \in Bodies,
                        d.structural = c.structural
                 PROVE  FALSE
      OBVIOUS
    <2>1. /\ c.epoch = b.epoch + 1
          /\ c.structural = b.structural + 1
          /\ c.structural = c.marks.ctr + 1
      BY <1>3, StateOfFields DEF OneAhead, Follows
    <2>2. b.structural = b.marks.ctr + 1
      BY <1>5, StateOfFields DEF HInv, HistoryIsChain
    <2>3. PICK r \in released : r.kind # "dispense" /\ r.ctr + 1 = c.structural
      BY <1>0, <2>1, <2>2 DEF HInv, ConfigIsReleased
    <2>4. PICK k \in ledger :
              /\ k.epoch = r.epoch /\ k.marks.ctr = r.ctr /\ k.rid = r.rid
              /\ \A s \in History : s.epoch < k.epoch => s.structural < k.structural
      BY <2>3 DEF HInv, ReleasedIsFirst
    <2>5. StateOf(k) \in History /\ StateOf(l) \in History
      BY DEF History
    <2>6. k.structural = l.structural
      <3>1. k.structural = k.marks.ctr + 1
        BY <2>5, StateOfFields DEF HInv, HistoryIsChain
      <3> QED BY <1>9, <2>3, <2>4, <3>1
    <2>7. k.epoch \in Nat /\ l.epoch \in Nat /\ k.structural \in Nat
      BY <1>0 DEF TypeOK
    <2>8. ~ (l.epoch < k.epoch)
      BY <2>4, <2>5, <2>6, <2>7, StateOfFields
    <2>9. ~ (k.epoch < l.epoch)
      BY <1>10, <2>5, <2>6, <2>7, StateOfFields
    <2>10. k.epoch = l.epoch
      BY <2>7, <2>8, <2>9
    <2>11. k = l
      BY <2>10 DEF IInv, LedgerWellFormed
    <2>12. r.by = i
      <3>1. Owner[new.rid] = i
        BY <1>1 DEF IInv, CandidateIsNext
      <3> QED BY <1>4, <2>4, <2>11, <3>1 DEF IInv, ReleasedIsRecorded
    <2>13. r.epoch <= b.epoch
      BY <1>1, <2>12 DEF IInv, ServingCoversReleased
    <2> QED BY <1>0, <1>9, <2>1, <2>4, <2>11, <2>13
  <1>13. ConfigIsReleased'
    <2>1. \A d \in Bodies' : d \in Bodies \/ d = c
      BY <1>0, <1>1 DEF Bodies, TypeOK
    <2>2. new \in released' /\ released \subseteq released'
      BY <1>1
    <2>3. CASE new.kind = "dispense"
      <3>1. c.structural = b.structural /\ c.config = b.config
        BY <1>3, <2>3 DEF OneAhead
      <3> QED BY <1>5, <2>1, <2>2, <3>1 DEF HInv, ConfigIsReleased
    <2>4. CASE new.kind # "dispense"
      <3>1. new.ctr + 1 = c.structural
        BY <1>3 DEF OneAhead, Follows
      <3>2. \A d \in Bodies' : d.structural = 1 \/
               \E r \in released' : r.kind # "dispense" /\ r.ctr + 1 = d.structural
        BY <2>1, <2>2, <2>4, <3>1 DEF HInv, ConfigIsReleased
      <3>3. \A d, e \in Bodies' : d.structural = e.structural => d.config = e.config
        BY <1>12, <2>1, <2>4 DEF HInv, ConfigIsReleased
      <3> QED BY <3>2, <3>3 DEF ConfigIsReleased
    <2> QED BY <2>3, <2>4
  <1> QED BY <1>6, <1>7, <1>8, <1>11, <1>13 DEF HInv

\* A commit the anchor accepts extends the chain by one link.
LEMMA AcceptHistory ==
    ASSUME IInv, HInv, NEW c \in commits, LedgerAccepts(c),
           ledger' = ledger \cup {Record(c)}, anchor' = StateOf(c)
    PROVE  /\ History' = History \cup {StateOf(c)}
           /\ HistoryIsChain'
           /\ c.epoch > anchor.epoch
           /\ anchor'.epoch = anchor.epoch + 1
  <1> DEFINE n == StateOf(c)
  <1>1. /\ TypeOK /\ anchor \in AnchorState /\ History \subseteq AnchorState
        /\ n \in AnchorState /\ anchor.epoch \in Nat /\ c.epoch \in Nat
    BY HistoryType, StateOfType DEF IInv, TypeOK, AnchorState
  <1>2. History' = History \cup {n}
    <2>1. StateOf(Record(c)) = n
      BY DEF StateOf, Record
    <2>2. History' = {StateOf(Genesis)} \cup {StateOf(l) : l \in ledger'}
      BY DEF History
    <2> HIDE DEF n
    <2> QED BY <2>1, <2>2 DEF History
  <1>3. PICK s \in History : Follows(s, c)
    BY DEF HInv, StemsFromHistory
  <1>4. s = anchor
    <2>1. c.epoch > anchor.epoch /\ c.epoch = s.epoch + 1
      BY <1>3 DEF LedgerAccepts, Follows
    <2>2. s.epoch <= anchor.epoch /\ s.epoch \in Nat
      BY <1>1 DEF HInv, HistoryIsChain, AnchorState
    <2>3. s.epoch = anchor.epoch
      BY <1>1, <2>1, <2>2
    <2> QED BY <2>3 DEF HInv, HistoryIsChain
  <1>5. /\ n.epoch = anchor.epoch + 1
        /\ n.structural = n.marks.ctr + 1
        /\ n.marks.spent <= Budget
        /\ anchor.structural <= n.structural
        /\ anchor.structural = n.structural => anchor.marks.spent <= n.marks.spent
    <2>1. anchor.structural \in Nat /\ n.structural \in Nat
      BY <1>1 DEF AnchorState
    <2> QED BY <1>3, <1>4, <2>1, StateOfFields DEF Follows
  <1>6. \A t \in History :
            /\ t.epoch \in Nat /\ t.structural \in Nat /\ t.marks.spent \in Nat
            /\ t.epoch < n.epoch
            /\ t.structural <= n.structural
            /\ t.structural = n.structural => t.marks.spent <= n.marks.spent
    <2> SUFFICES ASSUME NEW t \in History
                 PROVE  /\ t.epoch \in Nat /\ t.structural \in Nat /\ t.marks.spent \in Nat
                        /\ t.epoch < n.epoch
                        /\ t.structural <= n.structural
                        /\ t.structural = n.structural => t.marks.spent <= n.marks.spent
      OBVIOUS
    <2>1. /\ t.epoch \in Nat /\ t.structural \in Nat /\ t.marks.spent \in Nat
          /\ anchor.structural \in Nat /\ anchor.marks.spent \in Nat
          /\ n.structural \in Nat /\ n.marks.spent \in Nat
      BY <1>1 DEF AnchorState, Marks
    <2>2. /\ t.epoch <= anchor.epoch
          /\ t.structural <= anchor.structural
          /\ t.structural = anchor.structural => t.marks.spent <= anchor.marks.spent
      BY DEF HInv, HistoryIsChain
    <2> HIDE DEF n
    <2> QED BY <1>1, <1>5, <2>1, <2>2
  <1>7. HistoryIsChain'
    <2>1. n.epoch \in Nat /\ n.structural \in Nat /\ n.marks.spent \in Nat
      BY <1>1 DEF AnchorState, Marks
    <2>2. \A t \in History : 1 <= t.epoch /\ t.epoch <= anchor.epoch
      BY DEF HInv, HistoryIsChain
    <2> HIDE DEF n
    <2>3. \A t \in History' :
           /\ 1 <= t.epoch /\ t.epoch <= anchor'.epoch
           /\ t.structural = t.marks.ctr + 1
           /\ t.marks.spent <= Budget
      BY <1>1, <1>2, <1>5, <1>6, <2>1, <2>2 DEF HInv, HistoryIsChain, n
    <2>4. \A t, u \in History' :
           /\ t.epoch = u.epoch => t = u
           /\ t.epoch <= u.epoch => t.structural <= u.structural
           /\ t.epoch <= u.epoch /\ t.structural = u.structural
                  => t.marks.spent <= u.marks.spent
      BY <1>2, <1>6, <2>1 DEF HInv, HistoryIsChain
    <2>5. anchor' \in History'
      BY <1>2 DEF n
    <2> QED BY <2>3, <2>4, <2>5 DEF HistoryIsChain
  <1> QED BY <1>1, <1>2, <1>5, <1>7 DEF LedgerAccepts

LEMMA InitHInv == Init => HInv
  <1> SUFFICES ASSUME Init PROVE HInv
    OBVIOUS
  <1>1. History = {StateOf(Genesis)}
    BY DEF Init, History
  <1>2. Bodies \subseteq {Genesis}
    BY DEF Init, Bodies
  <1>3. StateOf(Genesis) = [epoch |-> 1, structural |-> 1, marks |-> [spent |-> 0, ctr |-> 0]]
    BY DEF StateOf, Genesis
  <1>4. HistoryIsChain
    BY <1>1, <1>3, ConstantsAssumption DEF Init, HistoryIsChain
  <1>5. StemsFromHistory
    BY <1>1 DEF Init, StemsFromHistory
  <1>6. BootLooksAhead /\ CandidateFollows /\ ReleasedIsFirst /\ NoFalseAlarm
    BY DEF Init, BootLooksAhead, CandidateFollows, ReleasedIsFirst, NoFalseAlarm
  <1>7. ConfigIsReleased
    BY <1>2 DEF ConfigIsReleased, Genesis
  <1> QED BY <1>4, <1>5, <1>6, <1>7 DEF HInv

LEMMA StepHInv == IInv /\ HInv /\ [Next]_vars => HInv'
  <1> SUFFICES ASSUME IInv, HInv, [Next]_vars
               PROVE  HInv'
    OBVIOUS
  <1>0. /\ TypeOK
        /\ \A i \in Enclaves : body[i] \in Body /\ body[i] \in Bodies
        /\ Genesis \in Bodies
        /\ \A i \in Enclaves : reason[i] \notin Alarms
    BY BodiesKnown DEF IInv, TypeOK, HInv, NoFalseAlarm, Alarms
  <1>a. \A i \in Enclaves : StateOf(body[i]) \in History
    BY <1>0, BodiesKnown
  <1>1. ASSUME NEW i \in Enclaves, NEW b \in blobs, Start(i, b)
        PROVE  HInv'
    BY <1>0, <1>1, BodiesKnown, MoveHistory
       DEF Start, TypeOK, relayVars, anchorVars, Alarms
  <1>2. ASSUME NEW i \in Enclaves, IssueChallenge(i)
        PROVE  HInv'
    <2>1. /\ UNCHANGED <<anchor, ledger, released, freshness, commits, body, blobs,
                         cand, target, reason>>
          /\ phase' = [phase EXCEPT ![i] = "challenged"]
          /\ nonce' = [nonce EXCEPT ![i] = drawn + 1]
      BY <1>2 DEF IssueChallenge, anchorVars
    <2>2. History' = History
      BY <2>1, HistorySame
    <2>3. \A f \in freshness : f.nonce # drawn + 1
      BY <1>0 DEF IInv, ReplyIsFresh, TypeOK
    <2>4. BootLooksAhead'
      BY <1>0, <2>1, <2>2, <2>3 DEF HInv, BootLooksAhead, TypeOK
    <2>5. HistoryIsChain' /\ NoFalseAlarm' /\ StemsFromHistory'
      BY <2>1, <2>2 DEF HInv, HistoryIsChain, NoFalseAlarm, StemsFromHistory, Follows,
                        StateOf, Genesis
    <2>6. CandidateFollows' /\ ReleasedIsFirst' /\ ConfigIsReleased'
      BY <1>0, <2>1, <2>2 DEF HInv, CandidateFollows, ReleasedIsFirst, ConfigIsReleased,
                              Bodies, TypeOK
    <2> QED BY <2>4, <2>5, <2>6 DEF HInv
  <1>3. ASSUME NEW i \in Enclaves, RetriesExhausted(i) \/ BootReplyInvalid(i)
        PROVE  HInv'
    BY <1>0, <1>3, FailClosedHistory DEF RetriesExhausted, BootReplyInvalid, Alarms
  <1>4. ASSUME NEW i \in Enclaves, BootTransportError(i)
        PROVE  HInv'
    BY <1>0, <1>4, MoveHistory DEF BootTransportError, TypeOK, relayVars, anchorVars
  <1>5. ASSUME NEW i \in Enclaves, NEW r \in freshness, FreshnessReply(i, r)
        PROVE  HInv'
    <2>1. phase[i] = "challenged" /\ r.nonce = nonce[i]
      BY <1>5 DEF FreshnessReply, VerifyFreshness
    <2>2. StateOf(r) \in History /\ body[i].epoch <= r.epoch
      BY <2>1 DEF HInv, StemsFromHistory, BootLooksAhead
    <2>3. Reconcile(body[i], r) \in {"Fresh", "AdoptForward", "StructuralGap"}
      BY <1>0, <1>a, <2>2, ReconcileHonest DEF HInv
    <2>4. CASE Reconcile(body[i], r) = "Fresh" /\ Ready(i)
      BY <1>0, <2>4, MoveHistory DEF Ready, TypeOK, relayVars, anchorVars
    <2>5. CASE Reconcile(body[i], r) = "AdoptForward" /\ RequestMarks(i, StateOf(r))
      <3>1. r.structural = body[i].structural /\ body[i].epoch < r.epoch
        <4>1. r.epoch \in Nat /\ body[i].epoch \in Nat
          BY <1>0 DEF TypeOK, Body
        <4> QED BY <2>2, <2>5, <4>1 DEF Reconcile
      <3>2. /\ UNCHANGED <<anchor, ledger, released, freshness, commits, body, blobs,
                           cand, nonce, reason>>
            /\ phase' = [phase EXCEPT ![i] = "adopting"]
            /\ target' = [target EXCEPT ![i] = StateOf(r)]
        BY <2>5 DEF RequestMarks, anchorVars
      <3>3. \A j \in Enclaves : phase'[j] = "adopting" =>
               /\ target'[j] \in History
               /\ target'[j].structural = body'[j].structural
               /\ body'[j].epoch < target'[j].epoch
        BY <1>0, <2>2, <3>1, <3>2, StateOfFields DEF HInv, BootLooksAhead, TypeOK
      <3>4. \A j \in Enclaves : phase'[j] \in {"challenged", "committing"} => phase'[j] = phase[j]
        BY <1>0, <3>2 DEF TypeOK
      <3> QED BY <1>0, <1>a, <3>2, <3>3, <3>4, QuietHistory
    <2>6. CASE /\ Reconcile(body[i], r) \in FailReasons
               /\ FailClosed(i, Reconcile(body[i], r))
      BY <1>0, <2>3, <2>6, FailClosedHistory DEF Alarms
    <2> QED BY <1>5, <2>4, <2>5, <2>6 DEF FreshnessReply
  <1>6. ASSUME NEW i \in Enclaves, NEW r \in marksSent, MarksReply(i, r)
        PROVE  HInv'
    <2>1. /\ phase[i] = "adopting"
          /\ target[i] \in History
          /\ target[i].structural = body[i].structural
          /\ body[i].epoch < target[i].epoch
      BY <1>6 DEF MarksReply, HInv, BootLooksAhead
    <2>2. body[i].epoch <= target[i].epoch
      BY <1>0, <2>1 DEF TypeOK, Body, AnchorState
    <2>3. CASE AdoptVerdict(body[i], r.marks, target[i]) = "ok" /\ Adopt(i, r.marks)
      <3> DEFINE nb == SeedMarksForward(body[i], r.marks, target[i].epoch)
      <3>1. nb.marks = target[i].marks
        BY <2>3 DEF AdoptVerdict
      <3>2. nb.epoch = target[i].epoch /\ nb.structural = body[i].structural
            /\ nb.config = body[i].config
        BY <1>0 DEF SeedMarksForward, Body
      <3>3. StateOf(nb) = target[i]
        BY <1>0, <2>1, <3>1, <3>2 DEF StateOf, TypeOK, AnchorState
      <3>4. /\ UNCHANGED <<anchor, ledger, released, freshness, commits, blobs, cand, reason>>
            /\ phase' = [phase EXCEPT ![i] = "booting"]
            /\ nonce' = [nonce EXCEPT ![i] = 0]
            /\ target' = [target EXCEPT ![i] = StateOf(Genesis)]
            /\ body' = [body EXCEPT ![i] = nb]
        BY <2>3 DEF Adopt, relayVars, anchorVars
      <3>5. \A j \in Enclaves :
               /\ StateOf(body'[j]) \in History
               /\ \E b \in Bodies : b.structural = body'[j].structural
                                    /\ b.config = body'[j].config
        <4> HIDE DEF nb
        <4> QED BY <1>0, <1>a, <2>1, <3>2, <3>3, <3>4 DEF TypeOK
      <3>6. \A j \in Enclaves : phase'[j] = "adopting" =>
               /\ target'[j] \in History
               /\ target'[j].structural = body'[j].structural
               /\ body'[j].epoch < target'[j].epoch
        BY <1>0, <3>4 DEF HInv, BootLooksAhead, TypeOK
      <3>7. \A j \in Enclaves : phase'[j] \in {"challenged", "committing"} =>
               phase'[j] = phase[j] /\ nonce'[j] = nonce[j] /\ body'[j] = body[j]
        BY <1>0, <3>4 DEF TypeOK
      <3> QED BY <1>0, <3>4, <3>5, <3>6, <3>7, QuietHistory
    <2>4. CASE /\ AdoptVerdict(body[i], r.marks, target[i]) # "ok"
               /\ FailClosed(i, AdoptVerdict(body[i], r.marks, target[i]))
      <3>1. SeedMarksForward(body[i], r.marks, target[i].epoch).marks = r.marks
        BY <1>0 DEF SeedMarksForward, Body
      <3>2. MarksDominateLocal(target[i].marks, body[i])
        BY <1>0, <1>a, <2>1, <2>2, LaterDominates DEF HInv
      <3>3. AdoptVerdict(body[i], r.marks, target[i]) = "HashMismatch"
        BY <2>4, <3>1, <3>2 DEF AdoptVerdict
      <3> QED BY <1>0, <2>4, <3>3, FailClosedHistory DEF Alarms
    <2> QED BY <1>6, <2>3, <2>4 DEF MarksReply
  <1>b. \A i \in Enclaves :
            body[i].structural = body[i].marks.ctr + 1 /\ body[i].marks.spent <= Budget
    BY <1>a, StateOfFields DEF HInv, HistoryIsChain
  <1>7. ASSUME NEW i \in Enclaves, NEW rid \in Rids, NEW d \in Amounts, Dispense(i, rid, d)
        PROVE  HInv'
    <2> DEFINE c == [body |-> DispenseCandidate(body[i], d), rid |-> rid,
                     kind |-> "dispense", debit |-> d]
    <2>1. d \in Nat /\ phase[i] = "serving" /\ DebitAllowed(body[i], d) /\ SendCommit(i, c)
      BY <1>7, ConstantsAssumption DEF Dispense
    <2>2. c \in Candidate
      BY <1>0, <2>1, DispenseCandidateType DEF Candidate, Kinds
    <2>3. Follows(StateOf(body[i]), DispenseCandidate(body[i], d))
      BY <1>0, <1>b, <2>1, CandidatesFollow
    <2>4. OneAhead(body[i], c)
      BY <2>3 DEF OneAhead, DispenseCandidate
    <2> QED BY <1>0, <2>1, <2>2, <2>4, SendCommitHistory
  <1>8. ASSUME NEW i \in Enclaves, NEW rid \in Rids, NEW op \in StructuralOps,
               NEW m \in Material, Structural(i, rid, op, m)
        PROVE  HInv'
    <2> DEFINE c == [body |-> StructuralCandidate(body[i], op, m), rid |-> rid,
                     kind |-> op, debit |-> 0]
    <2>1. /\ op \in Kinds /\ op # "dispense"
          /\ phase[i] = "serving" /\ SendCommit(i, c)
      BY <1>8, ConstantsAssumption DEF Structural, Kinds
    <2>2. c \in Candidate
      BY <1>0, <2>1, StructuralCandidateType DEF Candidate
    <2>3. Follows(StateOf(body[i]), StructuralCandidate(body[i], op, m))
      BY <1>0, <1>b, CandidatesFollow
    <2>4. OneAhead(body[i], c)
      BY <2>1, <2>3 DEF OneAhead, StructuralCandidate
    <2> QED BY <1>0, <2>1, <2>2, <2>4, SendCommitHistory
  <1>9. ASSUME NEW i \in Enclaves, NEW a \in acks, NEW kept \in BOOLEAN,
               CommitAcked(i, a, kept)
        PROVE  HInv'
    BY <1>9, ReleaseHistory
  <1>10. ASSUME NEW i \in Enclaves, CommitFailed(i)
         PROVE  HInv'
    BY <1>0, <1>10, MoveHistory DEF CommitFailed, TypeOK, relayVars, anchorVars
  <1>11. ASSUME NEW i \in Enclaves, Crash(i)
         PROVE  HInv'
    BY <1>0, <1>11, MoveHistory DEF Crash, TypeOK, relayVars, anchorVars
  <1>12. ASSUME NEW n \in challenges, AnchorFreshness(n)
         PROVE  HInv'
    <2> DEFINE new == [nonce |-> n, epoch |-> anchor.epoch,
                       structural |-> anchor.structural, marks |-> anchor.marks]
    <2>1. /\ UNCHANGED <<anchor, ledger, released, phase, body, cand, nonce, target,
                         reason, commits, blobs>>
          /\ freshness' = freshness \cup {new}
      BY <1>12 DEF AnchorFreshness, enclaveVars, anchorVars
    <2>2. History' = History
      BY <2>1, HistorySame
    <2>3. StateOf(new) = anchor
      BY <1>0 DEF StateOf, TypeOK, AnchorState
    <2>4. \A i \in Enclaves : body[i].epoch <= new.epoch
      BY <1>a, StateOfFields DEF HInv, HistoryIsChain
    <2>5. StemsFromHistory'
      <3>1. \A f \in freshness' : StateOf(f) \in History
        BY <2>1, <2>3 DEF HInv, HistoryIsChain, StemsFromHistory
      <3> QED BY <2>1, <2>2, <3>1 DEF HInv, StemsFromHistory, Follows, StateOf, Genesis
    <2>6. BootLooksAhead'
      BY <2>1, <2>2, <2>4 DEF HInv, BootLooksAhead
    <2>7. /\ HistoryIsChain' /\ NoFalseAlarm' /\ CandidateFollows'
          /\ ReleasedIsFirst' /\ ConfigIsReleased'
      BY <2>1, <2>2 DEF HInv, HistoryIsChain, NoFalseAlarm, CandidateFollows,
                        ReleasedIsFirst, ConfigIsReleased, Bodies
    <2> QED BY <2>5, <2>6, <2>7 DEF HInv
  <1>13. ASSUME NEW q \in marksAsked, AnchorMarks(q)
         PROVE  HInv'
    <2>1. /\ UNCHANGED <<anchor, ledger, released, freshness, commits, blobs>>
          /\ UNCHANGED <<phase, body, nonce, target, cand, reason>>
      BY <1>13 DEF AnchorMarks, enclaveVars, anchorVars
    <2> QED BY <1>0, <1>a, <2>1, QuietHistory DEF HInv, BootLooksAhead
  <1>14. ASSUME NEW c \in commits, AnchorCommit(c)
         PROVE  HInv'
    <2>1. UNCHANGED <<released, freshness, phase, body, cand, nonce, target, reason,
                      commits, blobs>>
      BY <1>14 DEF AnchorCommit, enclaveVars
    <2>2. CASE UNCHANGED anchorVars
      BY <1>0, <1>a, <2>1, <2>2, QuietHistory DEF HInv, BootLooksAhead, anchorVars
    <2>3. CASE LedgerAccepts(c) /\ ledger' = ledger \cup {Record(c)} /\ anchor' = StateOf(c)
      <3>1. /\ History' = History \cup {StateOf(c)}
            /\ HistoryIsChain'
            /\ c.epoch > anchor.epoch
        BY <2>3, AcceptHistory
      <3>2. \A d \in commits : \E s \in History' : Follows(s, d)
        BY <3>1 DEF HInv, StemsFromHistory
      <3>3. StemsFromHistory'
        BY <2>1, <3>1, <3>2 DEF HInv, StemsFromHistory, Follows, StateOf, Genesis
      <3>4. BootLooksAhead' /\ CandidateFollows' /\ ConfigIsReleased' /\ NoFalseAlarm'
        BY <2>1, <3>1 DEF HInv, BootLooksAhead, CandidateFollows, ConfigIsReleased,
                          Bodies, NoFalseAlarm
      <3>5. ReleasedIsFirst'
        <4> SUFFICES ASSUME NEW r \in released
                     PROVE  \E l \in ledger' :
                              /\ l.rid = r.rid /\ l.epoch = r.epoch /\ l.marks.ctr = r.ctr
                              /\ r.kind # "dispense" =>
                                   \A s \in History' :
                                       s.epoch < l.epoch => s.structural < l.structural
          BY <2>1 DEF ReleasedIsFirst
        <4>1. PICK l \in ledger :
                /\ l.rid = r.rid /\ l.epoch = r.epoch /\ l.marks.ctr = r.ctr
                /\ r.kind # "dispense" =>
                     \A s \in History : s.epoch < l.epoch => s.structural < l.structural
          BY DEF HInv, ReleasedIsFirst
        <4>2. l.epoch <= anchor.epoch
          BY DEF IInv, LedgerWellFormed
        <4>3. ~ (StateOf(c).epoch < l.epoch)
          BY <1>0, <3>1, <4>2, StateOfFields DEF TypeOK, AnchorState
        <4> QED BY <2>3, <3>1, <4>1, <4>3
      <3> QED BY <3>1, <3>3, <3>4, <3>5 DEF HInv
    <2> QED BY <1>14, <2>2, <2>3 DEF AnchorCommit
  <1>15. CASE UNCHANGED vars
    BY <1>0, <1>a, <1>15, QuietHistory
       DEF vars, enclaveVars, relayVars, anchorVars, HInv, BootLooksAhead
  <1> QED
    BY <1>1, <1>2, <1>3, <1>4, <1>5, <1>6, <1>7, <1>8, <1>9, <1>10, <1>11,
       <1>12, <1>13, <1>14, <1>15 DEF Next, EnclaveNext, AnchorNext

LEMMA Invariants == Spec => [](IInv /\ HInv)
  BY InitIInv, StepIInv, InitHInv, StepHInv, PTL DEF Spec

\* A capability counter value is spent by at most one released operation, for
\* any number of processes and whatever blobs they boot from.
THEOREM NoCapabilityReuse == Spec => []CapabilityOnce
  <1>1. IInv /\ HInv => CapabilityOnce
    <2> SUFFICES ASSUME IInv, HInv, NEW r1 \in released, NEW r2 \in released,
                        r1.kind # "dispense", r2.kind # "dispense", r1.ctr = r2.ctr
                 PROVE  r1 = r2
      BY DEF CapabilityOnce
    <2>1. PICK l1 \in ledger :
              /\ l1.epoch = r1.epoch /\ l1.marks.ctr = r1.ctr
              /\ \A s \in History : s.epoch < l1.epoch => s.structural < l1.structural
      BY DEF HInv, ReleasedIsFirst
    <2>2. PICK l2 \in ledger :
              /\ l2.epoch = r2.epoch /\ l2.marks.ctr = r2.ctr
              /\ \A s \in History : s.epoch < l2.epoch => s.structural < l2.structural
      BY DEF HInv, ReleasedIsFirst
    <2>3. StateOf(l1) \in History /\ StateOf(l2) \in History
      BY DEF History
    <2>4. l1.structural = l2.structural
      BY <2>1, <2>2, <2>3, StateOfFields DEF HInv, HistoryIsChain
    <2>5. /\ l1.epoch \in Nat /\ l2.epoch \in Nat
          /\ l1.structural \in Nat /\ l2.structural \in Nat
      BY DEF IInv, TypeOK
    <2>6. l1.epoch = l2.epoch
      BY <2>1, <2>2, <2>3, <2>4, <2>5, StateOfFields
    <2> QED BY <2>1, <2>2, <2>6 DEF IInv, ReleasedOnce
  <1> QED BY <1>1, Invariants, PTL

\* One structural version, one configuration: adopting the anchor's marks onto
\* an older blob of the same version loses no key and no setting.
THEOREM OneConfigPerVersion == Spec => []SameStructuralSameConfig
  <1>1. HInv => SameStructuralSameConfig
    BY DEF HInv, ConfigIsReleased, Bodies, SameStructuralSameConfig
  <1> QED BY <1>1, Invariants, PTL

\* A durable, monotonic anchor is never accused: no boot ends in AnchorBehind,
\* Inconsistent or BeltRegression.
THEOREM NoAccusation == Spec => []NoFalseAlarm
  <1>1. HInv => NoFalseAlarm
    BY DEF HInv
  <1> QED BY <1>1, Invariants, PTL

-----------------------------------------------------------------------------
(* The protocol implements the spend ledger *)

\* A commit the anchor accepts is the next commit of the spend ledger.
LEMMA AcceptIsCommit ==
    ASSUME IInv, HInv, NEW c \in commits, LedgerAccepts(c),
           ledger' = ledger \cup {Record(c)}, anchor' = StateOf(c),
           UNCHANGED released
    PROVE  Ledger!Next
  <1> DEFINE entry(l) == [rid |-> l.rid, epoch |-> l.epoch - Genesis.epoch,
                          spent |-> l.marks.spent]
             log == {entry(l) : l \in ledger}
  <1>1. /\ TypeOK /\ c.rid \in Rids /\ c.epoch \in Nat /\ c.marks.spent \in Nat
        /\ anchor.epoch \in Nat
    BY DEF IInv, TypeOK, AnchorState, Marks
  <1>2. c.epoch = anchor.epoch + 1
    BY AcceptHistory, StateOfFields
  <1>3. c.marks.spent \in 0 .. Budget
    BY <1>1, ConstantsAssumption DEF HInv, StemsFromHistory, Follows
  <1>4. Record(c).rid = c.rid /\ Record(c).epoch = c.epoch /\ Record(c).marks = c.marks
    BY DEF Record
  <1>5. \A e \in log : e.rid # c.rid
    BY DEF LedgerAccepts
  <1>6. {entry(l) : l \in ledger'} = log \cup {entry(Record(c))}
    OBVIOUS
  <1>7. entry(Record(c)) = [rid |-> c.rid, epoch |-> (anchor.epoch - Genesis.epoch) + 1,
                            spent |-> c.marks.spent]
    BY <1>1, <1>2, <1>4 DEF Genesis
  <1>8. anchor'.epoch - Genesis.epoch = (anchor.epoch - Genesis.epoch) + 1
    BY <1>1, <1>2, StateOfFields DEF Genesis
  <1>9. Ledger!Commit(c.rid, c.marks.spent)
    BY <1>5, <1>6, <1>7, <1>8 DEF Ledger!Commit
  <1> QED BY <1>1, <1>3, <1>9 DEF Ledger!Next

\* A released response is a payment of its commit, exactly what it was debited.
LEMMA ReleaseIsPay ==
    ASSUME IInv, HInv, NEW i \in Enclaves, NEW a \in acks, NEW kept \in BOOLEAN,
           CommitAcked(i, a, kept)
    PROVE  Ledger!Next
  <1> DEFINE b == body[i]
             c == cand[i].body
             debit == cand[i].debit
             new == [by |-> i, rid |-> cand[i].rid, epoch |-> c.epoch,
                     kind |-> cand[i].kind, debit |-> debit, ctr |-> c.marks.ctr]
             entry(l) == [rid |-> l.rid, epoch |-> l.epoch - Genesis.epoch,
                          spent |-> l.marks.spent]
             log == {entry(l) : l \in ledger}
             payment(r) == [rid |-> r.rid, epoch |-> r.epoch - Genesis.epoch,
                            debit |-> r.debit]
  <1>1. /\ b \in Body /\ c \in Body /\ debit \in Nat
        /\ b.epoch \in Nat /\ c.epoch \in Nat
        /\ b.marks.spent \in Nat /\ c.marks.spent \in Nat
    BY DEF IInv, TypeOK, Candidate, Body, Marks
  <1>2. /\ UNCHANGED <<anchor, ledger>>
        /\ released' = released \cup {new}
        /\ phase[i] = "committing"
    BY DEF CommitAcked, anchorVars
  <1>3. PICK l \in ledger : l.rid = cand[i].rid /\ l.epoch = c.epoch /\ l.marks = c.marks
    BY DEF CommitAcked, VerifyCommitAck, StateOf, IInv, AckedIsRecorded, Record
  <1>4. OneAhead(b, cand[i]) /\ StateOf(b) \in History
    BY <1>2, BodiesKnown DEF HInv, CandidateFollows
  <1>5. /\ c.epoch = b.epoch + 1 /\ c.marks.spent <= Budget
        /\ debit > 0 => c.marks.spent = b.marks.spent + debit
    BY <1>1, <1>4, StateOfFields DEF OneAhead, Follows
  <1>6. debit \in 0 .. Budget
    BY <1>1, <1>5, ConstantsAssumption
  <1>7. \A r \in released : r.epoch # c.epoch
    <2> SUFFICES ASSUME NEW r \in released, r.epoch = c.epoch PROVE FALSE
      OBVIOUS
    <2>1. r.rid = cand[i].rid
      BY <1>3 DEF IInv, ReleasedIsRecorded, LedgerWellFormed
    <2>2. r.by = i
      BY <1>2, <2>1 DEF IInv, ReleasedIsRecorded, CandidateIsNext
    <2>3. r.epoch <= b.epoch
      BY <1>2, <2>2 DEF IInv, ServingCoversReleased
    <2> QED BY <1>1, <1>5, <2>3
  <1>8. Ledger!SpentAt(b.epoch - Genesis.epoch) = b.marks.spent
    <2>1. CASE b.epoch = 1
      <3>1. StateOf(Genesis) \in History /\ StateOf(Genesis).epoch = 1
            /\ StateOf(Genesis).marks.spent = 0
        BY DEF History, StateOf, Genesis
      <3>2. StateOf(b) = StateOf(Genesis)
        BY <1>4, <2>1, <3>1, StateOfFields DEF HInv, HistoryIsChain
      <3>3. b.marks.spent = 0
        BY <3>1, <3>2, StateOfFields
      <3> QED BY <2>1, <3>3 DEF Ledger!SpentAt, Genesis
    <2>2. CASE b.epoch # 1
      <3>1. PICK k \in ledger : StateOf(k) = StateOf(b)
        BY <1>4, <2>2 DEF History, StateOf, Genesis
      <3>2. k.epoch = b.epoch /\ k.marks = b.marks
        BY <3>1, StateOfFields
      <3>3. \A e \in log : e.epoch = b.epoch - Genesis.epoch => e = entry(k)
        <4> SUFFICES ASSUME NEW m \in ledger, m.epoch - Genesis.epoch = b.epoch - Genesis.epoch
                     PROVE  m = k
          OBVIOUS
        <4>1. m.epoch = k.epoch
          BY <1>1, <3>2 DEF Genesis, IInv, TypeOK
        <4> QED BY <4>1 DEF IInv, LedgerWellFormed
      <3>4. entry(k) \in log /\ entry(k).epoch = b.epoch - Genesis.epoch
        BY <3>2
      <3>5. (CHOOSE e \in log : e.epoch = b.epoch - Genesis.epoch) = entry(k)
        BY <3>3, <3>4
      <3>6. b.epoch - Genesis.epoch # 0
        BY <1>1, <2>2 DEF Genesis
      <3>7. Ledger!SpentAt(b.epoch - Genesis.epoch)
              = (CHOOSE e \in log : e.epoch = b.epoch - Genesis.epoch).spent
        BY <3>6, Zenon DEF Ledger!SpentAt
      <3>8. entry(k).spent = b.marks.spent
        BY <3>2
      <3> HIDE DEF entry, log
      <3> QED BY <3>5, <3>7, <3>8
    <2> QED BY <2>1, <2>2
  <1>9. (c.epoch - Genesis.epoch) - 1 = b.epoch - Genesis.epoch
    BY <1>1, <1>5 DEF Genesis
  <1>10. entry(l) \in log /\ entry(l).epoch = c.epoch - Genesis.epoch
         /\ entry(l).rid = cand[i].rid /\ entry(l).spent = c.marks.spent
    BY <1>3
  <1>11. PICK e \in log : e = entry(l)
    BY <1>10
  <1>12. PICK d \in 0 .. Budget : d = debit
    BY <1>6
  <1>13. \A p \in {payment(r) : r \in released} : p.epoch # e.epoch
    BY <1>1, <1>7, <1>10, <1>11 DEF Genesis, IInv, TypeOK
  <1>14. {payment(r) : r \in released'} = {payment(r) : r \in released} \cup
            {[rid |-> e.rid, epoch |-> e.epoch, debit |-> d]}
    <2>1. payment(new) = [rid |-> e.rid, epoch |-> e.epoch, debit |-> d]
      BY <1>10, <1>11, <1>12
    <2> HIDE DEF payment, entry, new
    <2> QED BY <1>2, <2>1
  <1>15. d > 0 => e.spent = Ledger!SpentAt(e.epoch - 1) + d
    BY <1>5, <1>8, <1>9, <1>10, <1>11, <1>12
  <1>16. Ledger!Pay(e, d)
    BY <1>2, <1>13, <1>14, <1>15 DEF Ledger!Pay
  <1> QED BY <1>16 DEF Ledger!Next

LEMMA LedgerStutters ==
    ASSUME UNCHANGED <<anchor, ledger, released>>
    PROVE  UNCHANGED Ledger!vars
  BY DEF Ledger!vars, Genesis

LEMMA StepLedger == IInv /\ HInv /\ [Next]_vars => [Ledger!Next]_(Ledger!vars)
  <1> SUFFICES ASSUME IInv, HInv, [Next]_vars
               PROVE  Ledger!Next \/ UNCHANGED <<anchor, ledger, released>>
    BY LedgerStutters
  <1>1. ASSUME NEW i \in Enclaves, NEW a \in acks, NEW kept \in BOOLEAN,
               CommitAcked(i, a, kept)
        PROVE  Ledger!Next
    BY <1>1, ReleaseIsPay
  <1>2. ASSUME NEW c \in commits, AnchorCommit(c)
        PROVE  Ledger!Next \/ UNCHANGED <<anchor, ledger, released>>
    BY <1>2, AcceptIsCommit DEF AnchorCommit, anchorVars
  <1>3. ASSUME NEW i \in Enclaves, EnclaveNext(i),
               ~ \E a \in acks, kept \in BOOLEAN : CommitAcked(i, a, kept)
        PROVE  UNCHANGED <<anchor, ledger, released>>
    BY <1>3 DEF EnclaveNext, Start, IssueChallenge, RetriesExhausted, BootTransportError,
       BootReplyInvalid, FreshnessReply, MarksReply, Dispense, Structural, CommitFailed,
       Crash, FailClosed, Ready, RequestMarks, Adopt, SendCommit, anchorVars
  <1>4. ASSUME NEW n \in challenges, AnchorFreshness(n)
        PROVE  UNCHANGED <<anchor, ledger, released>>
    BY <1>4 DEF AnchorFreshness, anchorVars
  <1>5. ASSUME NEW q \in marksAsked, AnchorMarks(q)
        PROVE  UNCHANGED <<anchor, ledger, released>>
    BY <1>5 DEF AnchorMarks, anchorVars
  <1>6. CASE UNCHANGED vars
    BY <1>6 DEF vars, anchorVars
  <1> QED BY <1>1, <1>2, <1>3, <1>4, <1>5, <1>6 DEF Next, AnchorNext

\* The protocol implements the spend ledger: seen through the anchor's records
\* and the released responses, every step is the next commit, a payment of
\* exactly the debit a commit recorded, or a stutter.
THEOREM RefinesSpendLedger == Spec => ImplementsSpendLedger
  <1>1. Init => Ledger!Init
    BY DEF Init, Ledger!Init, StateOf, Genesis
  <1> QED BY <1>1, StepLedger, Invariants, PTL DEF Spec, ImplementsSpendLedger, Ledger!Spec

=============================================================================
