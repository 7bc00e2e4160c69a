---------------------- MODULE ProvisioningOutputs_proofs ----------------------
(***************************************************************************)
(* Proofs about the provisioning handshake, for any number of enclaves,    *)
(* ceremonies and configs and any frame length; and about the bytes the    *)
(* program makes (Outputs), for any lengths of digests, keys and           *)
(* measurements and any inputs.  The handshake's model signs and hashes    *)
(* values; that their bytes determine them is the second part's subject,   *)
(* and what an attestation vouches for (Attestation) rests on it.          *)
(***************************************************************************)
EXTENDS Provisioning, Outputs, Attestation, Integers, SequenceTheorems, FiniteSetTheorems, WellFoundedInduction, TLAPS

-----------------------------------------------------------------------------
(* The handshake *)

\* A frame on_m3 accepts carries a transcript the provisioner signed for this
\* session: a signature the host makes is never under the provisioner's key.
LEMMA AcceptedIsSigned ==
    ASSUME NEW e \in Enclaves, NEW cert \in Certs, NEW body \in Transcripts,
           NEW sig \in Signatures(body), verify_m3_in_order(e, cert, body, sig)
    PROVE  /\ body \in signed
           /\ body.config \in WellFormed
           /\ body = TranscriptOf(e, body.config)
  <1>1. sig.key = "provisioner"
    BY DEF verify_m3_in_order, verify_provisioner_cert, SigVerifies
  <1>2. sig \in [key : {"provisioner"}, over : signed]
    BY <1>1 DEF Signatures
  <1>3. body \in signed
    BY <1>2 DEF verify_m3_in_order, SigVerifies
  <1>4. body = TranscriptOf(e, body.config)
    BY DEF verify_m3_in_order, TranscriptMatches, TranscriptOf, Transcripts
  <1> QED
    BY <1>3, <1>4 DEF verify_m3_in_order, decode_config_map

\* The initial states satisfy the inductive invariant.
LEMMA InitInductive == Init => IndInv
  BY ProvisioningAssumption
  DEF Init, IndInv, TypeOK, Recorded, SignedOnce, SealedIsLate, Agreement,
      SessionStates, DriverStates

\* The provisioner's steps keep the inductive invariant.
LEMMA ProvisionerInductive == IndInv /\ Provisioner => IndInv'
  <1> SUFFICES ASSUME IndInv, Provisioner PROVE IndInv'
    OBVIOUS
  <1> USE DEF IndInv, fileVars
  <1>1. ASSUME NEW np \in Challenges, Challenge(np) PROVE IndInv'
    BY <1>1 DEF Challenge, enclaveVars, TypeOK, Recorded, SignedOnce, SealedIsLate,
                Agreement, TranscriptOf
  <1>2. ASSUME NEW np \in Challenges, NEW m \in [n_e : Enclaves, report : Reports],
               NEW config \in ConfigBytes, Sign(np, m, config)
        PROVE IndInv'
    <2> DEFINE t == [config |-> config, n_p |-> np, n_e |-> m.n_e, report |-> m.report]
    <2>1. t \in Transcripts /\ t.n_p = np
      BY DEF Transcripts, Nonces
    <2>2. signed' = signed \cup {t} /\ \A u \in signed : u.n_p # np
      BY <1>2 DEF Sign
    <2> HIDE DEF t
    <2>3. TypeOK' /\ Recorded' /\ SealedIsLate'
      BY <1>2, <2>1, <2>2 DEF Sign, enclaveVars, TypeOK, Recorded, SealedIsLate
    <2>4. SignedOnce'
      BY <2>1, <2>2 DEF SignedOnce
    <2>5. Agreement'
      BY <1>2, <2>2 DEF Sign, enclaveVars, Agreement, TranscriptOf
    <2> QED
      BY <2>3, <2>4, <2>5
  <1> QED
    BY <1>1, <1>2 DEF Provisioner

\* A step of one enclave that seals nothing, changes neither its nonce nor its report
\* once sealed, and asks nothing of the provisioner keeps the two facts about sealed
\* keystores.
LEMMA UnsealedStep ==
    ASSUME IndInv, NEW e \in Enclaves, UNCHANGED <<sealed, signed>>,
           NEW where \in DriverStates, driver' = [driver EXCEPT ![e] = where],
           sealed[e] # None => where \in {"sendM4", "unseal", "provisioned", "exited"},
           \/ UNCHANGED <<n_p, report>>
           \/ /\ sealed[e] = None
              /\ \A f \in Enclaves \ {e} : n_p'[f] = n_p[f] /\ report'[f] = report[f]
    PROVE  SignedOnce' /\ SealedIsLate' /\ Agreement'
  <1>1. SignedOnce'
    BY DEF IndInv, SignedOnce
  <1>2. SealedIsLate'
    BY DEF IndInv, SealedIsLate, TypeOK
  <1>3. Agreement'
    BY DEF IndInv, Agreement, TranscriptOf
  <1> QED
    BY <1>1, <1>2, <1>3

\* Every step of an enclave's driver keeps the inductive invariant: one step per
\* action, and in on_m3 the accepted transcript is one the provisioner signed.
LEMMA EnclaveInductive ==
    ASSUME IndInv, NEW e \in Enclaves, Local(e) \/ Host(e)
    PROVE  IndInv'
  <1> USE DEF IndInv, fileVars
  <1>1. CASE Start(e)
    <2>1. TypeOK' /\ Recorded'
      BY <1>1 DEF Start, Goto, TypeOK, Recorded, DriverStates
    <2>2. SignedOnce' /\ SealedIsLate' /\ Agreement'
      BY <1>1, UnsealedStep DEF Start, Goto, SealedIsLate, DriverStates
    <2> QED BY <2>1, <2>2
  <1>2. CASE Accept(e)
    <2>1. TypeOK' /\ Recorded'
      BY <1>2, ProvisioningAssumption
      DEF Accept, AwaitFrame, Goto, TypeOK, Recorded, DriverStates
    <2>2. SignedOnce' /\ SealedIsLate' /\ Agreement'
      BY <1>2, UnsealedStep DEF Accept, AwaitFrame, Goto, SealedIsLate, DriverStates
    <2> QED BY <2>1, <2>2
  <1>3. CASE RecvByte(e)
    <2>1. left[e] \in 0..FrameBytes /\ left[e] > 1
      BY <1>3 DEF RecvByte, TypeOK
    <2>2. left[e] - 1 \in 0..FrameBytes
      BY <2>1, ProvisioningAssumption
    <2>3. left' = [left EXCEPT ![e] = left[e] - 1]
      BY <1>3 DEF RecvByte, BytesLeft
    <2>4. TypeOK'
      BY <1>3, <2>2, <2>3 DEF RecvByte, TypeOK
    <2> QED
      BY <1>3, <2>4
      DEF RecvByte, Recorded, SignedOnce, SealedIsLate, Agreement, TranscriptOf
  <1>4. CASE Quiet(e)
    <2>1. TypeOK'
      BY <1>4 DEF Quiet, TypeOK
    <2> QED
      BY <1>4, <2>1
      DEF Quiet, Recorded, SignedOnce, SealedIsLate, Agreement, TranscriptOf
  <1>5. ASSUME Exit(e) PROVE IndInv'
    <2>1. TypeOK' /\ Recorded'
      BY <1>5, ProvisioningAssumption
      DEF Exit, LeaveRecv, Goto, TypeOK, Recorded, DriverStates
    <2>2. SignedOnce' /\ SealedIsLate' /\ Agreement'
      BY <1>5, UnsealedStep DEF Exit, LeaveRecv, Goto, DriverStates
    <2> QED BY <2>1, <2>2
  <1>6. CASE \E np \in Nonces : on_m1(e, np)
    <2>1. PICK np \in Nonces : on_m1(e, np)
      BY <1>6
    <2>2. TypeOK' /\ Recorded'
      BY <2>1, ProvisioningAssumption
      DEF on_m1, LeaveRecv, Goto, TypeOK, Recorded, DriverStates, SessionStates
    <2>3. SignedOnce' /\ SealedIsLate' /\ Agreement'
      BY <2>1, UnsealedStep
      DEF on_m1, LeaveRecv, Goto, SealedIsLate, DriverStates, TypeOK
    <2> QED BY <2>2, <2>3
  <1>7. CASE fetch_report(e)
    <2> DEFINE r == IF lab THEN MockReport ELSE compute_report_data(n_p[e], e)
    <2>1. r \in Reports
      BY <1>7 DEF fetch_report, Recorded, Reports, compute_report_data
    <2>2. report' = [report EXCEPT ![e] = r]
      BY <1>7 DEF fetch_report
    <2> HIDE DEF r
    <2>3. TypeOK' /\ Recorded'
      BY <1>7, <2>1, <2>2 DEF fetch_report, Goto, TypeOK, Recorded, DriverStates
    <2>4. SignedOnce' /\ SealedIsLate' /\ Agreement'
      BY <1>7, <2>2, UnsealedStep
      DEF fetch_report, Goto, SealedIsLate, DriverStates, TypeOK
    <2> QED BY <2>3, <2>4
  <1>8. CASE SendM2(e)
    <2>1. TypeOK' /\ Recorded'
      BY <1>8, ProvisioningAssumption
      DEF SendM2, AwaitFrame, Goto, TypeOK, Recorded, DriverStates
    <2>2. SignedOnce' /\ SealedIsLate' /\ Agreement'
      BY <1>8, UnsealedStep DEF SendM2, AwaitFrame, Goto, SealedIsLate, DriverStates
    <2> QED BY <2>1, <2>2
  <1>9. CASE on_m3(e)
    <2>1. PICK cert \in Certs, body \in Transcripts : \E sig \in Signatures(body) :
             /\ verify_m3_in_order(e, cert, body, sig)
             /\ sealed' = [sealed EXCEPT ![e] = seal_provisioned_keystore(e, body.config)]
      BY <1>9 DEF on_m3
    <2>2. body \in signed /\ body.config \in WellFormed /\ body = TranscriptOf(e, body.config)
      BY <2>1, AcceptedIsSigned
    <2> DEFINE b == seal_provisioned_keystore(e, body.config)
    <2>3. b \in Blobs /\ b.config = body.config /\ sealed' = [sealed EXCEPT ![e] = b]
      BY <2>1, <2>2 DEF Blobs, seal_provisioned_keystore, mint_enclave_scope_id
    <2> HIDE DEF b
    <2>4. TypeOK' /\ Recorded'
      BY <1>9, <2>3, ProvisioningAssumption
      DEF on_m3, LeaveRecv, Goto, TypeOK, Recorded, DriverStates, SessionStates
    <2>5. SignedOnce' /\ SealedIsLate'
      BY <1>9, <2>3 DEF on_m3, LeaveRecv, Goto, TypeOK, SignedOnce, SealedIsLate
    <2>6. Agreement'
      BY <1>9, <2>2, <2>3 DEF on_m3, Agreement, TranscriptOf, TypeOK
    <2> QED BY <2>4, <2>5, <2>6
  <1>10. CASE on_m3_fails(e)
    <2>1. TypeOK' /\ Recorded'
      BY <1>10, ProvisioningAssumption
      DEF on_m3_fails, LeaveRecv, Goto, TypeOK, Recorded, DriverStates, SessionStates
    <2>2. SignedOnce' /\ SealedIsLate' /\ Agreement'
      BY <1>10, UnsealedStep DEF on_m3_fails, LeaveRecv, Goto, DriverStates
    <2> QED BY <2>1, <2>2
  <1>11. CASE SendM4(e)
    <2>1. TypeOK' /\ Recorded'
      BY <1>11 DEF SendM4, Goto, TypeOK, Recorded, DriverStates
    <2>2. SignedOnce' /\ SealedIsLate' /\ Agreement'
      BY <1>11, UnsealedStep DEF SendM4, Goto, DriverStates
    <2> QED BY <2>1, <2>2
  <1>12. CASE SendM4Fails(e)
    <2>1. TypeOK' /\ Recorded'
      BY <1>12 DEF SendM4Fails, Goto, TypeOK, Recorded, DriverStates
    <2>2. SignedOnce' /\ SealedIsLate' /\ Agreement'
      BY <1>12, UnsealedStep DEF SendM4Fails, Goto, DriverStates
    <2> QED BY <2>1, <2>2
  <1>13. CASE Unseal(e)
    <2>1. TypeOK' /\ Recorded'
      BY <1>13 DEF Unseal, Persisted, Goto, TypeOK, Recorded, DriverStates
    <2>2. SignedOnce' /\ SealedIsLate' /\ Agreement'
      BY <1>13, UnsealedStep DEF Unseal, Goto, DriverStates
    <2> QED BY <2>1, <2>2
  <1>14. CASE UnsealFails(e)
    <2>1. TypeOK' /\ Recorded'
      BY <1>14 DEF UnsealFails, Persisted, Goto, TypeOK, Recorded, DriverStates
    <2>2. SignedOnce' /\ SealedIsLate' /\ Agreement'
      BY <1>14, UnsealedStep DEF UnsealFails, Goto, DriverStates
    <2> QED BY <2>1, <2>2
  <1>15. ASSUME NEW root \in BootInputs, NEW measurement \in BootInputs,
                LaterBoot(e, root, measurement)
         PROVE  IndInv'
    <2>1. TypeOK'
      BY <1>15 DEF LaterBoot, TypeOK
    <2> QED
      BY <1>15, <2>1
      DEF LaterBoot, Recorded, SignedOnce, SealedIsLate, Agreement, TranscriptOf
  <1> QED
    BY <1>1, <1>2, <1>3, <1>4, <1>5, <1>6, <1>7, <1>8, <1>9, <1>10, <1>11, <1>12, <1>13,
       <1>14, <1>15
    DEF Local, Host, RecvTimeout, RecvFails, WrongMessage, StepFails

\* The inductive invariant holds in every reachable state of the handshake.
THEOREM IndInvHolds == Spec => []IndInv
  <1>1. IndInv /\ [Next]_vars => IndInv'
    <2> SUFFICES ASSUME IndInv, [Next]_vars PROVE IndInv'
      OBVIOUS
    <2>1. CASE Provisioner
      BY <2>1, ProvisionerInductive
    <2>2. ASSUME NEW e \in Enclaves, Local(e) \/ Host(e) PROVE IndInv'
      BY <2>2, EnclaveInductive
    <2>3. CASE UNCHANGED vars
      BY <2>3 DEF vars, IndInv, TypeOK, Recorded, SignedOnce, SealedIsLate, Agreement,
                  TranscriptOf
    <2> QED
      BY <2>1, <2>2, <2>3 DEF Next
  <1> QED
    BY InitInductive, <1>1, PTL DEF Spec

\* Agreement: however many ceremonies run at once and whatever the host replays or
\* mixes, an enclave seals only the config the provisioner signed for exactly its
\* session (verify_m3_in_order).
THEOREM AgreementHolds == Spec => []Agreement
  BY IndInvHolds, PTL DEF IndInv

\* One ceremony installs at most one keystore: the two transcripts would be the one the
\* provisioner signed for that challenge, and it names one N_e.
THEOREM OneKeystoreHolds == Spec => []OneKeystorePerCeremony
  <1>1. IndInv => OneKeystorePerCeremony
    <2> SUFFICES ASSUME IndInv, NEW e \in Enclaves, NEW f \in Enclaves,
                        sealed[e] # None, sealed[f] # None, n_p[e] = n_p[f]
                 PROVE  e = f
      BY DEF OneKeystorePerCeremony
    <2> DEFINE t == TranscriptOf(e, sealed[e].config)
               u == TranscriptOf(f, sealed[f].config)
    <2>1. t \in signed /\ u \in signed
      BY DEF IndInv, Agreement
    <2>2. t.n_p = u.n_p /\ t.n_e = e /\ u.n_e = f
      BY DEF TranscriptOf
    <2>3. t = u
      BY <2>1, <2>2 DEF IndInv, SignedOnce
    <2> QED
      BY <2>2, <2>3
  <1> QED
    BY IndInvHolds, <1>1, PTL

-----------------------------------------------------------------------------
(* No served keystore without its blob handed out *)

\* From the moment M4 is on the wire the host holds the enclave's own blob; the file is
\* written after that, by a handshake that changes nothing any more, and read later still.
HandedOut ==
    \A e \in Enclaves :
        /\ driver[e] \in {"unseal", "provisioned"} => sealed[e] \in blobs
        /\ file[e] # "missing" => sealed[e] \in blobs /\ driver[e] \in {"provisioned", "exited"}
        /\ later[e] = "serves" => file[e] # "missing"

\* Only a written M4 leads to "unseal", and a blob once handed out stays so.
LEMMA HandedOutStep == TypeOK /\ HandedOut /\ [Next]_vars => HandedOut'
  <1> SUFFICES ASSUME TypeOK, HandedOut, [Next]_vars PROVE HandedOut'
    OBVIOUS
  <1> USE DEF HandedOut, TypeOK, Goto, LeaveRecv, AwaitFrame, fileVars
  <1>1. CASE Provisioner
    BY <1>1 DEF Provisioner, Challenge, Sign, enclaveVars
  <1>2. ASSUME NEW e \in Enclaves, Exit(e) PROVE HandedOut'
    BY <1>2 DEF Exit
  <1>3. ASSUME NEW e \in Enclaves, Start(e) \/ Accept(e) \/ fetch_report(e) \/ SendM2(e)
        PROVE  HandedOut'
    BY <1>3 DEF Start, Accept, fetch_report, SendM2
  <1>4. ASSUME NEW e \in Enclaves, RecvByte(e) \/ Quiet(e) PROVE HandedOut'
    BY <1>4 DEF RecvByte, Quiet
  <1>5. ASSUME NEW e \in Enclaves, NEW np \in Nonces, on_m1(e, np) PROVE HandedOut'
    BY <1>5 DEF on_m1
  <1>6. ASSUME NEW e \in Enclaves, on_m3(e) PROVE HandedOut'
    <2>1. PICK b : sealed' = [sealed EXCEPT ![e] = b]
      BY <1>6 DEF on_m3
    <2> QED BY <1>6, <2>1 DEF on_m3
  <1>7. ASSUME NEW e \in Enclaves, on_m3_fails(e) PROVE HandedOut'
    BY <1>7 DEF on_m3_fails
  <1>8. ASSUME NEW e \in Enclaves, SendM4(e) PROVE HandedOut'
    BY <1>8 DEF SendM4
  <1>9. ASSUME NEW e \in Enclaves, SendM4Fails(e) PROVE HandedOut'
    BY <1>9 DEF SendM4Fails
  <1>10. ASSUME NEW e \in Enclaves, Unseal(e) PROVE HandedOut'
    BY <1>10 DEF Unseal, Persisted
  <1>11. ASSUME NEW e \in Enclaves, UnsealFails(e) PROVE HandedOut'
    BY <1>11 DEF UnsealFails, Persisted
  <1>12. ASSUME NEW e \in Enclaves, NEW root \in BootInputs, NEW measurement \in BootInputs,
                LaterBoot(e, root, measurement)
         PROVE  HandedOut'
    BY <1>12 DEF LaterBoot, UnsealsFile
  <1>13. CASE UNCHANGED vars
    BY <1>13 DEF vars
  <1> QED
    BY <1>1, <1>2, <1>3, <1>4, <1>5, <1>6, <1>7, <1>8, <1>9, <1>10, <1>11, <1>12, <1>13
    DEF Next, Local, Host, RecvTimeout, RecvFails, WrongMessage, StepFails

\* An enclave serves a provisioned keystore, at once or from the lab's file at a later
\* boot, only when the host was handed its sealed blob: keys are never minted into a
\* keystore nobody could boot again.
THEOREM ServedHolds == Spec => []ServedIsHandedOut
  <1>1. Init => HandedOut
    BY DEF Init, HandedOut
  <1>2. IndInv => TypeOK
    BY DEF IndInv
  <1>3. HandedOut => ServedIsHandedOut
    BY DEF HandedOut, ServedIsHandedOut
  <1> QED
    BY <1>1, <1>2, <1>3, IndInvHolds, HandedOutStep, PTL DEF Spec

-----------------------------------------------------------------------------
(* The bytes of the program (Outputs).                                     *)
(*                                                                         *)
(* Induction over data is by least elements of sets of naturals: inclusion *)
(* of finite sets is well founded, so a set of naturals that is not empty  *)
(* has a least element, and a property of all naturals is shown for the    *)
(* set of those that have it.                                              *)

\* Every set of naturals that is not empty has a least element.
LEMMA Least ==
  ASSUME NEW T, T \subseteq Nat, T # {}
  PROVE  \E m \in T : \A k \in T : m <= k
<1> DEFINE Up(k) == 1 .. k
           U == {Up(k) : k \in T}
<1>1. U \subseteq FiniteSubsetsOf(Nat) /\ U # {}
  <2>1. \A k \in T : IsFiniteSet(Up(k)) /\ Up(k) \subseteq Nat BY FS_Interval, SMT
  <2> QED BY <2>1 DEF FiniteSubsetsOf
<1>2. PICK u \in U : \A y \in U : ~ <<y, u>> \in StrictSubsetOrdering(Nat)
  <2> HIDE DEF U
  <2> QED BY <1>1, FS_StrictSubsetOrderingWellFounded, WFMin, Zenon
<1>3. PICK m \in T : u = Up(m) OBVIOUS
<1>4. ASSUME NEW k \in T, ~ m <= k PROVE FALSE
  <2>1. Up(k) \subseteq Up(m) /\ Up(k) # Up(m) /\ Up(m) \subseteq Nat
    <3>1. m \in Nat /\ k \in Nat /\ k < m BY <1>4, SMT
    <3>2. m \in Up(m) /\ m \notin Up(k) BY <3>1
    <3> QED BY <3>1, <3>2
  <2>2. <<Up(k), Up(m)>> \in StrictSubsetOrdering(Nat)
    BY <2>1, Zenon DEF StrictSubsetOrdering
  <2> QED BY <1>2, <1>3, <2>2
<1> QED BY <1>4

\* A set of naturals with 0 and the successor of each of its elements has them all.
LEMMA Induct ==
  ASSUME NEW T, 0 \in T, \A n \in Nat : n \in T => n + 1 \in T
  PROVE  \A n \in Nat : n \in T
<1> DEFINE F == {n \in Nat : n \notin T}
<1>1. CASE F = {} BY <1>1
<1>2. CASE F # {}
  <2>1. PICK m \in F : \A k \in F : m <= k BY <1>2, Least
  <2>2. m # 0 OBVIOUS
  <2>3. m - 1 \in Nat /\ m - 1 \notin F BY <2>1, <2>2
  <2> QED BY <2>3
<1> QED BY <1>1, <1>2

Iterates(seed, step, n, f) == f[0] = seed /\ \A k \in 1 .. n : f[k] = step[<<k, f[k - 1]>>]

\* A function defined by a first value and a step exists on every 0 .. n.
LEMMA Recursion ==
  ASSUME NEW S, NEW seed \in S, NEW step \in [Nat \X S -> S]
  PROVE  \A n \in Nat : \E f \in [0 .. n -> S] : Iterates(seed, step, n, f)
<1> USE DEF Iterates
<1> DEFINE Good(n, f) == Iterates(seed, step, n, f)
           T == {n \in Nat : \E f \in [0 .. n -> S] : Good(n, f)}
<1>1. 0 \in T
  <2> DEFINE f == [k \in 0 .. 0 |-> seed]
  <2>1. f \in [0 .. 0 -> S] /\ Good(0, f) OBVIOUS
  <2> QED BY <2>1
<1>2. ASSUME NEW n \in Nat, n \in T PROVE n + 1 \in T
  <2>1. PICK f \in [0 .. n -> S] : Good(n, f) BY <1>2
  <2> DEFINE v == step[<<n + 1, f[n]>>]
             g == [k \in 0 .. n + 1 |-> IF k = n + 1 THEN v ELSE f[k]]
  <2>2. f[n] \in S OBVIOUS
  <2>3. <<n + 1, f[n]>> \in Nat \X S BY <2>2
  <2>4. v \in S BY <2>3
  <2>5. g \in [0 .. n + 1 -> S] BY <2>4
  <2>6. g[0] = seed BY <2>1
  <2>7. ASSUME NEW k \in 1 .. n + 1 PROVE g[k] = step[<<k, g[k - 1]>>]
    <3>1. CASE k = n + 1 
      <4>1. g[k - 1] = f[n] BY <3>1
      <4>2. g[k] = v BY <3>1
      <4> QED BY <3>1, <4>1, <4>2
    <3>2. CASE k \in 1 .. n 
      <4>1. g[k - 1] = f[k - 1] /\ g[k] = f[k] BY <3>2
      <4> QED BY <2>1, <3>2, <4>1
    <3> QED BY <3>1, <3>2
  <2>8. Good(n + 1, g)
    <3> HIDE DEF g
    <3> QED BY <2>6, <2>7
  <2>9. n + 1 \in Nat OBVIOUS
  <2> QED
    <3> HIDE DEF Good, g
    <3> QED BY <2>5, <2>8, <2>9
<1>3. \A n \in Nat : n \in T 
  <2> HIDE DEF T
  <2> QED BY <1>1, <1>2, Induct, Zenon
<1> QED BY <1>3

Joins(p, f) ==
    /\ f \in [0 .. Len(p) -> Bstr]
    /\ f[0] = << >>
    /\ \A k \in 1 .. Len(p) : f[k] = f[k - 1] \o p[k]

\* Byte strings joined one after the other: the last of their partial joins.
LEMMA Flattened ==
  ASSUME NEW p \in Seq(Bstr)
  PROVE  \E f : Joins(p, f) /\ FlattenSeq(p) = f[Len(p)]
<1> DEFINE n == Len(p)
           step == [a \in Nat \X Bstr |-> IF a[1] \in 1 .. n THEN a[2] \o p[a[1]] ELSE a[2]]
<1>1. n \in Nat /\ << >> \in Bstr /\ \A k \in 1 .. n : p[k] \in Bstr BY DEF Bstr
<1>2. \A a, b \in Bstr : a \o b \in Bstr BY ConcatProperties DEF Bstr
<1>3. \A k \in Nat, a \in Bstr : step[<<k, a>>] = IF k \in 1 .. n THEN a \o p[k] ELSE a
  OBVIOUS
<1>4. step \in [Nat \X Bstr -> Bstr]
  <2>1. \A a \in Nat \X Bstr : a[1] \in Nat /\ a[2] \in Bstr OBVIOUS
  <2> HIDE DEF n
  <2> QED BY <1>1, <1>2, <2>1
<1> HIDE DEF step, n
<1>5. PICK f \in [0 .. n -> Bstr] : Iterates(<< >>, step, n, f)
  BY <1>1, <1>4, Recursion, Zenon
<1>6. f[0] = << >> /\ \A k \in 1 .. n : f[k] = step[<<k, f[k - 1]>>] BY <1>5 DEF Iterates
<1>7. \A k \in 1 .. n : f[k] = f[k - 1] \o p[k]
  <2> TAKE k \in 1 .. n
  <2>1. k \in Nat /\ k - 1 \in 0 .. n BY <1>1
  <2>2. f[k - 1] \in Bstr BY <2>1
  <2>3. step[<<k, f[k - 1]>>] = f[k - 1] \o p[k] BY <1>3, <2>1, <2>2
  <2> QED BY <1>6, <2>3
<1>8. Joins(p, f) BY <1>6, <1>7 DEF Joins, n
<1>9. CASE n = 0
  <2>1. Len(p) = 0 /\ p = << >> BY <1>9 DEF n
  <2>2. FlattenSeq(p) = << >> BY <2>1 DEF FlattenSeq
  <2> QED BY <1>6, <1>8, <2>1, <2>2
<1>10. CASE n # 0
  <2> DEFINE h == CHOOSE g : g = [i \in 1 .. n |-> IF i = 1 THEN p[i] ELSE g[i - 1] \o p[i]]
             e == [i \in 1 .. n |-> f[i]]
  <2>1. FlattenSeq(p) = h[n] BY <1>10 DEF FlattenSeq, n
  <2>2. ASSUME NEW i \in 1 .. n PROVE e[i] = IF i = 1 THEN p[i] ELSE e[i - 1] \o p[i]
    <3>1. CASE i = 1 
      <4>1. 1 \in 1 .. n /\ 1 - 1 = 0 BY <3>1
      <4>2. f[1] = f[0] \o p[1] BY <4>1, <1>7
      <4>3. f[1] = p[1] BY <4>1, <4>2, <1>1, <1>6, ConcatEmptySeq DEF Bstr
      <4> QED BY <4>3, <3>1
    <3>2. CASE i # 1
      <4>1. i - 1 \in 1 .. n BY <3>2, <1>1
      <4> QED BY <4>1, <3>2, <1>7
    <3> QED BY <3>1, <3>2
  <2>3. e = [i \in 1 .. n |-> IF i = 1 THEN p[i] ELSE e[i - 1] \o p[i]] BY <2>2
  <2>4. h = [i \in 1 .. n |-> IF i = 1 THEN p[i] ELSE h[i - 1] \o p[i]]
    <3> HIDE DEF e
    <3> QED BY <2>3, Zenon
  <2> HIDE DEF h
  <2>5. \A i \in 1 .. n : h[i] = IF i = 1 THEN p[i] ELSE h[i - 1] \o p[i] BY <2>4, Zenon
  <2> DEFINE T == {k \in Nat : k \in 1 .. n => h[k] = e[k]}
  <2>6. 0 \in T OBVIOUS
  <2>7. ASSUME NEW k \in Nat, k \in T PROVE k + 1 \in T
    <3> HIDE DEF e
    <3>1. ASSUME k + 1 \in 1 .. n PROVE h[k + 1] = e[k + 1]
      <4>1. CASE k = 0 BY <4>1, <3>1, <2>2, <2>5
      <4>2. CASE k # 0
        <5>1. k \in 1 .. n /\ h[k] = e[k] BY <4>2, <3>1, <2>7, <1>1
        <5>2. (k + 1) - 1 = k OBVIOUS
        <5>3. h[k + 1] = h[k] \o p[k + 1] BY <1>1, <2>5, <3>1, <4>2, <5>2
        <5>4. e[k + 1] = e[k] \o p[k + 1] BY <1>1, <2>2, <3>1, <4>2, <5>2
        <5> QED BY <5>1, <5>3, <5>4
      <4> QED BY <4>1, <4>2
    <3> QED BY <3>1
  <2>8. \A k \in Nat : k \in T 
    <3> HIDE DEF T
    <3> QED BY <2>6, <2>7, Induct, Zenon
  <2>9. n \in T BY <2>8, <1>1
  <2>10. h[n] = f[n] BY <2>9, <1>10, <1>1
  <2> QED BY <1>8, <2>1, <2>10 DEF n
<1> QED BY <1>9, <1>10
-----------------------------------------------------------------------------
(* Byte strings, and those that tell where they end *)

\* Neither of two strings is a proper beginning of the other.
Sd(a, b) == \A s, t \in Bstr : a \o s = b \o t => a = b

\* Byte strings: the empty one, their lengths and bytes, and their concatenation.
LEMMA BstrProps ==
  /\ << >> \in Bstr
  /\ \A a \in Bstr : Len(a) \in Nat /\ DOMAIN a = 1 .. Len(a) /\ \A i \in 1 .. Len(a) : a[i] \in Nat
  /\ \A a \in Bstr : a \o << >> = a /\ << >> \o a = a
  /\ \A a, b \in Bstr : a \o b \in Bstr /\ Len(a \o b) = Len(a) + Len(b)
<1> QED BY ConcatProperties, ConcatEmptySeq DEF Bstr

\* Joining two strings adds their lengths.
LEMMA Joined ==
  ASSUME NEW a \in Bstr, NEW b \in Bstr
  PROVE  a \o b \in Bstr /\ Len(a \o b) = Len(a) + Len(b)
BY BstrProps

\* The bytes of a concatenation begin with the first string's.
LEMMA Prefix == \A a, b \in Bstr : \A i \in 1 .. Len(a) : (a \o b)[i] = a[i]
BY DEF Bstr

\* Concatenation is associative.
LEMMA Assoc == \A a, b, c \in Bstr : (a \o b) \o c = a \o (b \o c)
BY ConcatAssociative DEF Bstr

\* A common beginning cancels.
LEMMA CancelLeft == \A a, b, c \in Bstr : a \o b = a \o c => b = c
BY ConcatSimplifications DEF Bstr

\* A common end cancels.
LEMMA CancelRight == \A a, b, c \in Bstr : b \o a = c \o a => b = c
BY ConcatSimplifications DEF Bstr

\* Strings of one length, and what follows them.
LEMMA SameLength ==
  ASSUME NEW a \in Bstr, NEW b \in Bstr, NEW s \in Bstr, NEW t \in Bstr,
         Len(a) = Len(b), a \o s = b \o t
  PROVE  a = b /\ s = t
<1>1. \A i \in 1 .. Len(a) : a[i] = b[i]
  <2>1. \A i \in 1 .. Len(a) : (a \o s)[i] = a[i] /\ (b \o t)[i] = b[i] BY Prefix
  <2> QED BY <2>1
<1>2. a = b
  <2>1. a = [i \in 1 .. Len(a) |-> a[i]] /\ b = [i \in 1 .. Len(b) |-> b[i]] BY DEF Bstr
  <2> QED BY <1>1, <2>1
<1>3. a \o s = a \o t BY <1>2
<1> QED BY <1>2, <1>3, CancelLeft, Zenon

\* Strings of one length are self-delimiting.
LEMMA SdFixed ==
  ASSUME NEW a \in Bstr, NEW b \in Bstr, Len(a) = Len(b)
  PROVE  Sd(a, b)
BY SameLength, Zenon DEF Sd

\* What follows self-delimiting strings can be compared on its own.
LEMMA SdSplit ==
  ASSUME NEW a \in Bstr, NEW b \in Bstr, NEW s \in Bstr, NEW t \in Bstr, Sd(a, b), a \o s = b \o t
  PROVE  a = b /\ s = t
<1>1. a = b BY DEF Sd
<1>2. a \o s = a \o t BY <1>1
<1> QED BY <1>1, <1>2, CancelLeft, Zenon

\* Strings whose first byte fixes their length are self-delimiting.
LEMMA SdHead ==
  ASSUME NEW a \in Bstr, NEW b \in Bstr, Len(a) > 0, Len(b) > 0, a[1] = b[1] => Len(a) = Len(b)
  PROVE  Sd(a, b)
<1> SUFFICES ASSUME NEW s \in Bstr, NEW t \in Bstr, a \o s = b \o t PROVE a = b BY DEF Sd
<1>1. 1 \in 1 .. Len(a) /\ 1 \in 1 .. Len(b) BY BstrProps
<1>2. (a \o s)[1] = a[1] /\ (b \o t)[1] = b[1] BY <1>1, Prefix
<1> QED BY <1>2, SameLength

\* A self-delimiting head and, for equal heads, self-delimiting tails.
LEMMA SdConcat ==
  ASSUME NEW h \in Bstr, NEW k \in Bstr, NEW a \in Bstr, NEW b \in Bstr, Sd(h, k), h = k => Sd(a, b)
  PROVE  Sd(h \o a, k \o b) /\ (h \o a = k \o b => h = k /\ a = b)
<1>a. \A s \in Bstr : (h \o a) \o s = h \o (a \o s) BY Assoc
<1>b. \A t \in Bstr : (k \o b) \o t = k \o (b \o t) BY Assoc
<1>1. ASSUME NEW s \in Bstr, NEW t \in Bstr, (h \o a) \o s = (k \o b) \o t
      PROVE  h = k /\ a = b
  <2>1. h \o (a \o s) = k \o (b \o t) BY <1>a, <1>b, <1>1
  <2>2. a \o s \in Bstr /\ b \o t \in Bstr BY BstrProps
  <2>3. h = k /\ a \o s = b \o t BY <2>1, <2>2, SdSplit
  <2> QED BY <2>2, <2>3, SdSplit
<1>2. Sd(h \o a, k \o b) BY <1>1 DEF Sd
<1>3. ASSUME h \o a = k \o b PROVE h = k /\ a = b
  <2>1. (h \o a) \o << >> = (k \o b) \o << >> BY <1>3
  <2> QED BY <1>1, <2>1, BstrProps
<1> QED BY <1>2, <1>3

\* A head that tells the length of what follows it.
LEMMA Delimited ==
  ASSUME NEW h \in Bstr, NEW k \in Bstr, NEW a \in Bstr, NEW b \in Bstr,
         Sd(h, k), h = k => Len(a) = Len(b)
  PROVE  Sd(h \o a, k \o b) /\ (h \o a = k \o b => h = k /\ a = b)
BY SdFixed, SdConcat, Zenon

-----------------------------------------------------------------------------
\* A u16 counts beyond a byte.
LEMMA Radix == RADIX \in Nat /\ 256 < RADIX
BY SMT DEF RADIX

\* The two halves of a number.
LEMMA Halves ==
  /\ RADIX \in Nat /\ 0 < RADIX
  /\ \A v \in Nat : v \div RADIX \in Nat /\ v % RADIX \in Nat
  /\ \A v \in Nat : v < RADIX => v \div RADIX = 0 /\ v % RADIX = v
  /\ \A v, w \in Nat : v \div RADIX = w \div RADIX /\ v % RADIX = w % RADIX => v = w
<1>1. RADIX \in Nat /\ 0 < RADIX BY Radix
<1>2. ASSUME NEW v \in Nat PROVE v \div RADIX \in Nat /\ v % RADIX \in Nat BY SMT DEF RADIX
<1>3. ASSUME NEW v \in Nat, v < RADIX PROVE v \div RADIX = 0 /\ v % RADIX = v
  BY <1>3, SMT DEF RADIX
<1>4. ASSUME NEW v \in Nat, NEW w \in Nat, v \div RADIX = w \div RADIX, v % RADIX = w % RADIX
      PROVE  v = w
  BY <1>4, SMT DEF RADIX
<1> QED BY <1>1, <1>2, <1>3, <1>4, Zenon

\* Rust's unsigned types, each within the wider.
LEMMA Range8 == u8 \subseteq u64 /\ u16 \subseteq u64 /\ u32 \subseteq u64 /\ u64 \subseteq Nat
<1>1. 0 \in u16 /\ 0 \in u32 /\ 0 \in u64
  <2>1. 0 \div RADIX = 0 BY Halves, SMT
  <2>2. 0 \in u16 BY Halves, SMT DEF u16
  <2>3. 0 \in u32 BY <2>1, <2>2, SMT DEF u32
  <2> QED BY <2>1, <2>2, <2>3, SMT DEF u64
<1>2. ASSUME NEW v \in Nat, v \div RADIX = 0 PROVE v \in u64
  <2>1. 0 \div RADIX = 0 BY Halves, SMT
  <2> QED BY <1>1, <1>2, <2>1, SMT DEF u64
<1>3. ASSUME NEW v \in u16 PROVE v \in u64
  <2>1. v \in Nat /\ v < RADIX BY DEF u16
  <2>2. v \div RADIX = 0 BY <2>1, Halves
  <2> QED BY <1>2, <2>1, <2>2
<1>4. ASSUME NEW v \in u8 PROVE v \in u16
  <2>1. v \in Nat /\ v < 256 BY SMT DEF u8
  <2> QED BY <2>1, Radix, SMT DEF u16
<1>5. ASSUME NEW v \in u32 PROVE v \in u64
  <2>1. v \in Nat /\ v \div RADIX \in Nat /\ v \div RADIX < RADIX BY DEF u32, u16
  <2>2. (v \div RADIX) \div RADIX = 0 BY <2>1, Halves
  <2> QED BY <1>1, <2>1, <2>2 DEF u64
<1>6. u64 \subseteq Nat BY DEF u64
<1> QED BY <1>3, <1>4, <1>5, <1>6

\* Two bytes.
LEMMA Be2Bytes == \A v \in Nat : Be2(v) \in Bstr /\ Len(Be2(v)) = 2
<1> SUFFICES ASSUME NEW v \in Nat PROVE Be2(v) \in Bstr /\ Len(Be2(v)) = 2 OBVIOUS
<1>1. (v \div 256) % 256 \in Nat /\ v % 256 \in Nat BY SMT
<1> QED BY <1>1, SMT DEF Be2, Bstr

\* Four bytes.
LEMMA Be4Bytes == \A v \in Nat : Be4(v) \in Bstr /\ Len(Be4(v)) = 4
<1> SUFFICES ASSUME NEW v \in Nat PROVE Be4(v) \in Bstr /\ Len(Be4(v)) = 4 OBVIOUS
<1> DEFINE h == v \div RADIX
<1>1. h \in Nat BY Halves
<1>2. Be4(v) = Be2(h) \o Be2(v) BY DEF Be4
<1> HIDE DEF h
<1>3. Be2(h) \in Bstr /\ Be2(v) \in Bstr /\ Len(Be2(h)) = 2 /\ Len(Be2(v)) = 2
  BY <1>1, Be2Bytes
<1>4. /\ Be2(h) \o Be2(v) \in Bstr
      /\ Len(Be2(h) \o Be2(v)) = Len(Be2(h)) + Len(Be2(v))
  BY <1>3, Joined, Zenon
<1> QED BY <1>2, <1>3, <1>4

\* Eight bytes.
LEMMA U64Bytes == \A v \in Nat : U64(v) \in Bstr /\ Len(U64(v)) = 8
<1> SUFFICES ASSUME NEW v \in Nat PROVE U64(v) \in Bstr /\ Len(U64(v)) = 8 OBVIOUS
<1> DEFINE h == (v \div RADIX) \div RADIX
<1>1. h \in Nat BY Halves
<1>2. U64(v) = Be4(h) \o Be4(v) BY DEF U64
<1> HIDE DEF h
<1>3. Be4(h) \in Bstr /\ Be4(v) \in Bstr /\ Len(Be4(h)) = 4 /\ Len(Be4(v)) = 4
  BY <1>1, Be4Bytes
<1>4. /\ Be4(h) \o Be4(v) \in Bstr
      /\ Len(Be4(h) \o Be4(v)) = Len(Be4(h)) + Len(Be4(v))
  BY <1>3, Joined, Zenon
<1> QED BY <1>2, <1>3, <1>4

\* to_be_bytes of a u16: two bytes, which determine the number modulo 2^16.
LEMMA Be2Props ==
  /\ \A v \in Nat : Be2(v) \in Bstr /\ Len(Be2(v)) = 2
  /\ \A v, w \in Nat : Be2(v) = Be2(w) => v % RADIX = w % RADIX
<1>1. ASSUME NEW v \in Nat, NEW w \in Nat, Be2(v) = Be2(w) PROVE v % RADIX = w % RADIX
  <2>1. (v \div 256) % 256 = (w \div 256) % 256 /\ v % 256 = w % 256 BY <1>1, SMT DEF Be2
  <2> QED BY <2>1, SMT DEF RADIX
<1> QED BY <1>1, Be2Bytes

\* to_be_bytes of a u32: four bytes, which determine the number.
LEMMA Be4Props ==
  /\ \A v \in Nat : Be4(v) \in Bstr /\ Len(Be4(v)) = 4
  /\ \A v, w \in u32 : Be4(v) = Be4(w) => v = w
  /\ \A v, w \in Nat : Be4(v) = Be4(w) =>
        v % RADIX = w % RADIX /\ (v \div RADIX) % RADIX = (w \div RADIX) % RADIX
<1>1. ASSUME NEW v \in Nat, NEW w \in Nat, Be4(v) = Be4(w)
      PROVE  v % RADIX = w % RADIX /\ (v \div RADIX) % RADIX = (w \div RADIX) % RADIX
  <2> DEFINE a == v \div RADIX
             b == w \div RADIX
  <2>1. a \in Nat /\ b \in Nat BY Halves
  <2>2. Be2(a) \o Be2(v) = Be2(b) \o Be2(w) BY <1>1 DEF Be4
  <2> HIDE DEF a, b
  <2>3. /\ Be2(a) \in Bstr /\ Be2(b) \in Bstr /\ Len(Be2(a)) = Len(Be2(b))
        /\ Be2(v) \in Bstr /\ Be2(w) \in Bstr
    BY <2>1, Be2Bytes
  <2>4. Be2(a) = Be2(b) /\ Be2(v) = Be2(w) BY <2>2, <2>3, SameLength, Zenon
  <2>5. a % RADIX = b % RADIX /\ v % RADIX = w % RADIX BY <2>1, <2>4, Be2Props
  <2> QED BY <2>5 DEF a, b
<1>2. ASSUME NEW v \in u32, NEW w \in u32, Be4(v) = Be4(w) PROVE v = w
  <2>1. /\ v \in Nat /\ v \div RADIX \in Nat /\ v \div RADIX < RADIX
        /\ w \in Nat /\ w \div RADIX \in Nat /\ w \div RADIX < RADIX
    BY DEF u32, u16
  <2>2. v % RADIX = w % RADIX /\ (v \div RADIX) % RADIX = (w \div RADIX) % RADIX
    BY <1>1, <1>2, <2>1
  <2>3. v \div RADIX = w \div RADIX BY <2>1, <2>2, Halves
  <2> QED BY <2>1, <2>2, <2>3, Halves
<1> QED BY <1>1, <1>2, Be4Bytes

\* to_be_bytes of a u64: eight bytes, which determine the number.
LEMMA U64Props ==
  /\ \A v \in Nat : U64(v) \in Bstr /\ Len(U64(v)) = 8
  /\ \A v, w \in u64 : U64(v) = U64(w) => v = w
<1>1. ASSUME NEW v \in u64, NEW w \in u64, U64(v) = U64(w) PROVE v = w
  <2> DEFINE a == (v \div RADIX) \div RADIX
             b == (w \div RADIX) \div RADIX
  <2>1. v \in Nat /\ w \in Nat BY DEF u64
  <2>2. a \in Nat /\ b \in Nat BY <2>1, Halves
  <2>3. Be4(a) \o Be4(v) = Be4(b) \o Be4(w) BY <1>1 DEF U64
  <2>4. a \in u32 /\ b \in u32 BY DEF u64
  <2>5. a = b /\ Be4(v) = Be4(w)
    <3> HIDE DEF a, b
    <3>1. /\ Be4(a) \in Bstr /\ Be4(b) \in Bstr /\ Len(Be4(a)) = Len(Be4(b))
          /\ Be4(v) \in Bstr /\ Be4(w) \in Bstr
      BY <2>1, <2>2, Be4Bytes
    <3>2. Be4(a) = Be4(b) /\ Be4(v) = Be4(w) BY <2>3, <3>1, SameLength, Zenon
    <3> QED BY <2>4, <3>2, Be4Props
  <2>6. v % RADIX = w % RADIX /\ (v \div RADIX) % RADIX = (w \div RADIX) % RADIX
    BY <2>1, <2>5, Be4Props
  <2>7. v \div RADIX \in Nat /\ w \div RADIX \in Nat BY <2>1, Halves
  <2>8. v \div RADIX = w \div RADIX BY <2>5, <2>6, <2>7, Halves
  <2> QED BY <2>1, <2>6, <2>8, Halves
<1> QED BY <1>1, U64Bytes
-----------------------------------------------------------------------------
(* Heads of CBOR items and length prefixes *)

\* A byte before a string.
LEMMA HeadByte ==
  ASSUME NEW v \in Nat, NEW b \in Bstr, NEW s, s = <<v>> \o b
  PROVE  s \in Bstr /\ Len(s) = 1 + Len(b) /\ s[1] = v
<1> DEFINE h == <<v>>
<1>1. h \in Bstr /\ Len(h) = 1 /\ h[1] = v BY SMT DEF Bstr
<1>2. s = h \o b OBVIOUS
<1> HIDE DEF h
<1>3. 1 \in 1 .. Len(h) BY <1>1
<1>4. (h \o b)[1] = h[1] BY <1>1, <1>3, Prefix
<1>5. h \o b \in Bstr /\ Len(h \o b) = Len(h) + Len(b) BY <1>1, BstrProps
<1> QED BY <1>1, <1>2, <1>4, <1>5

\* The same byte before two strings cancels.
LEMMA HeadTail ==
  ASSUME NEW v, NEW b \in Bstr, NEW c \in Bstr, <<v>> \o b = <<v>> \o c, v \in Nat
  PROVE  b = c
<1> DEFINE h == <<v>>
<1>1. h \in Bstr BY SMT DEF Bstr
<1>2. h \o b = h \o c OBVIOUS
<1> HIDE DEF h
<1> QED BY <1>1, <1>2, CancelLeft

\* The first byte of put_uint tells its length.
UintHead(m, v, s) ==
         /\ s \in Bstr /\ Len(s) > 0
         /\ \/ v < 24 /\ s[1] = 32 * m + v /\ Len(s) = 1
            \/ v >= 24 /\ v < 256 /\ s[1] = 32 * m + 24 /\ s[2] = v /\ Len(s) = 2
            \/ /\ v >= 256 /\ v < RADIX /\ s[1] = 32 * m + 25 /\ Len(s) = 3
               /\ s = <<32 * m + 25>> \o Be2(v)
            \/ /\ v >= RADIX /\ v \in u32 /\ s[1] = 32 * m + 26 /\ Len(s) = 5
               /\ s = <<32 * m + 26>> \o Be4(v)
            \/ /\ v >= RADIX /\ v \notin u32 /\ s[1] = 32 * m + 27 /\ Len(s) = 9
               /\ s = <<32 * m + 27>> \o U64(v)

\* The first byte of a CBOR head tells its width.  (put_uint)
LEMMA PutUintHead ==
  ASSUME NEW m \in 0 .. 7, NEW v \in Nat
  PROVE  UintHead(m, v, put_uint(m, v))
<1> SUFFICES ASSUME NEW s, s = put_uint(m, v) PROVE UintHead(m, v, s) OBVIOUS
<1> USE DEF UintHead
<1>1. CASE v < 24
  <2>1. s = <<32 * m + v>> BY SMT, <1>1, Radix DEF put_uint
  <2>2. 32 * m + v \in Nat BY SMT
  <2> QED BY SMT, <1>1, <2>1, <2>2 DEF Bstr
<1>2. CASE v >= 24 /\ v < 256
  <2>1. s = <<32 * m + 24, v>> BY SMT, <1>2, Radix DEF put_uint
  <2>2. 32 * m + 24 \in Nat BY SMT
  <2> QED BY SMT, <1>2, <2>1, <2>2 DEF Bstr
<1>3. CASE v >= 256 /\ v < RADIX
  <2> DEFINE c == 32 * m + 25
             b == Be2(v)
  <2>1. s = <<c>> \o b BY SMT, <1>3, Radix DEF put_uint
  <2>2. c \in Nat /\ b \in Bstr /\ Len(b) = 2 BY SMT, Be2Props
  <2> HIDE DEF c, b
  <2>3. s \in Bstr /\ Len(s) = 1 + Len(b) /\ s[1] = c
    <3>1. c \in Nat /\ b \in Bstr BY <2>2
    <3> QED BY <2>1, <3>1, HeadByte
  <2>4. Len(s) = 3 BY SMT, <2>2, <2>3
  <2> USE DEF c, b
  <2> QED BY SMT, <1>3, <2>1, <2>3, <2>4
<1>4. CASE v >= RADIX /\ v \in u32
  <2> DEFINE c == 32 * m + 26
             b == Be4(v)
  <2>1. s = <<c>> \o b BY SMT, <1>4, Radix DEF put_uint
  <2>2. c \in Nat /\ b \in Bstr /\ Len(b) = 4 BY SMT, Be4Props
  <2> HIDE DEF c, b
  <2>3. s \in Bstr /\ Len(s) = 1 + Len(b) /\ s[1] = c
    <3>1. c \in Nat /\ b \in Bstr BY <2>2
    <3> QED BY <2>1, <3>1, HeadByte
  <2>4. Len(s) = 5 BY SMT, <2>2, <2>3
  <2> USE DEF c, b
  <2> QED BY SMT, <1>4, <2>1, <2>3, <2>4
<1>5. CASE v >= RADIX /\ v \notin u32
  <2> DEFINE c == 32 * m + 27
             b == U64(v)
  <2>1. s = <<c>> \o b BY SMT, <1>5, Radix DEF put_uint
  <2>2. c \in Nat /\ b \in Bstr /\ Len(b) = 8 BY SMT, U64Props
  <2> HIDE DEF c, b
  <2>3. s \in Bstr /\ Len(s) = 1 + Len(b) /\ s[1] = c
    <3>1. c \in Nat /\ b \in Bstr BY <2>2
    <3> QED BY <2>1, <3>1, HeadByte
  <2>4. Len(s) = 9 BY SMT, <2>2, <2>3
  <2> USE DEF c, b
  <2> QED BY SMT, <1>5, <2>1, <2>3, <2>4
<1> HIDE DEF UintHead
<1> QED BY SMT, <1>1, <1>2, <1>3, <1>4, <1>5, Radix

\* A CBOR head is self-delimiting and determines its argument.  (put_uint)
LEMMA PutUint ==
  ASSUME NEW m \in 0 .. 7, NEW v \in u64, NEW w \in u64
  PROVE  /\ put_uint(m, v) \in Bstr /\ put_uint(m, w) \in Bstr
         /\ Sd(put_uint(m, v), put_uint(m, w))
         /\ put_uint(m, v) = put_uint(m, w) => v = w
<1> DEFINE s == put_uint(m, v)
           t == put_uint(m, w)
<1>0. v \in Nat /\ w \in Nat /\ 32 * m \in Nat BY SMT, Range8
<1>1. UintHead(m, v, s) /\ UintHead(m, w, t) BY <1>0, PutUintHead
<1> HIDE DEF s, t
<1>2. s \in Bstr /\ t \in Bstr /\ Len(s) > 0 /\ Len(t) > 0 BY <1>1 DEF UintHead
<1>3. s[1] = t[1] => Len(s) = Len(t) BY SMT, <1>0, <1>1 DEF UintHead
<1>4. Sd(s, t) BY <1>2, <1>3, SdHead
<1>5. ASSUME s = t PROVE v = w
  <2> DEFINE c == 32 * m + 25
             d == 32 * m + 26
             e == 32 * m + 27
  <2>0. c \in Nat /\ d \in Nat /\ e \in Nat BY SMT
  <2> DEFINE Same ==
                \/ v = w
                \/ v < RADIX /\ w < RADIX /\ <<c>> \o Be2(v) = <<c>> \o Be2(w)
                \/ v \in u32 /\ w \in u32 /\ <<d>> \o Be4(v) = <<d>> \o Be4(w)
                \/ <<e>> \o U64(v) = <<e>> \o U64(w)
  <2>1. Same
    <3>1. UintHead(m, w, s) BY <1>1, <1>5
    <3>2. CASE v < 24 BY SMT, <3>1, <3>2, <1>0, <1>1, Radix DEF UintHead
    <3>3. CASE v >= 24 /\ v < 256 BY SMT, <3>1, <3>3, <1>0, <1>1, Radix DEF UintHead
    <3>4. CASE v >= 256 /\ v < RADIX BY SMT, <3>1, <3>4, <1>0, <1>1, Radix DEF UintHead
    <3>5. CASE v >= RADIX /\ v \in u32 BY SMT, <3>1, <3>5, <1>0, <1>1, Radix DEF UintHead
    <3>6. CASE v >= RADIX /\ v \notin u32 BY SMT, <3>1, <3>6, <1>0, <1>1, Radix DEF UintHead
    <3>7. (v < 24) \/ (v >= 24 /\ v < 256) \/ (v >= 256 /\ v < RADIX) \/ v >= RADIX
      BY SMT, <1>0, Halves
    <3> HIDE DEF Same
    <3> QED BY SMT, <3>2, <3>3, <3>4, <3>5, <3>6, <3>7
  <2> HIDE DEF c, d, e
  <2>2. ASSUME v < RADIX, w < RADIX, <<c>> \o Be2(v) = <<c>> \o Be2(w) PROVE v = w
    <3>1. Be2(v) \in Bstr /\ Be2(w) \in Bstr BY SMT, <1>0, Be2Props
    <3>2. Be2(v) = Be2(w) BY SMT, <2>0, <3>1, <2>2, HeadTail
    <3> QED BY SMT, <3>2, <1>0, <2>2, Be2Props, Halves
  <2>3. ASSUME v \in u32, w \in u32, <<d>> \o Be4(v) = <<d>> \o Be4(w) PROVE v = w
    <3>1. Be4(v) \in Bstr /\ Be4(w) \in Bstr BY SMT, <1>0, Be4Props
    <3>2. Be4(v) = Be4(w) BY SMT, <2>0, <3>1, <2>3, HeadTail
    <3> QED BY SMT, <3>2, <2>3, Be4Props
  <2>4. ASSUME <<e>> \o U64(v) = <<e>> \o U64(w) PROVE v = w
    <3>1. U64(v) \in Bstr /\ U64(w) \in Bstr BY SMT, <1>0, U64Props
    <3>2. U64(v) = U64(w) BY SMT, <2>0, <3>1, <2>4, HeadTail
    <3> QED BY SMT, <3>2, U64Props
  <2> QED BY SMT, <2>1, <2>2, <2>3, <2>4
<1> QED BY <1>2, <1>4, <1>5 DEF s, t

\* A u16 is below 2^16.
LEMMA U16Range == \A n \in u16 : n \in Nat /\ n < RADIX
BY SMT DEF u16

\* A CBOR byte string is self-delimiting and determines its bytes.  (put_bytes)
LEMMA PutBytes ==
  ASSUME NEW a \in Upto(u64), NEW b \in Upto(u64)
  PROVE  /\ put_bytes(a) \in Bstr /\ put_bytes(b) \in Bstr
         /\ Sd(put_bytes(a), put_bytes(b))
         /\ put_bytes(a) = put_bytes(b) => a = b
<1>1. a \in Bstr /\ b \in Bstr /\ Len(a) \in u64 /\ Len(b) \in u64 BY DEF Upto
<1>2. 2 \in 0 .. 7 OBVIOUS
<1> DEFINE h == put_uint(2, Len(a))
           k == put_uint(2, Len(b))
<1>3. h \in Bstr /\ k \in Bstr /\ Sd(h, k) /\ (h = k => Len(a) = Len(b)) BY <1>1, <1>2, PutUint
<1> HIDE DEF h, k
<1>4. Sd(h \o a, k \o b) /\ (h \o a = k \o b => h = k /\ a = b) BY <1>1, <1>3, Delimited
<1>5. h \o a \in Bstr /\ k \o b \in Bstr BY <1>1, <1>3, BstrProps
<1> QED BY <1>4, <1>5 DEF h, k, put_bytes

\* A string after its length, in each width, is self-delimiting and determines its bytes.
LEMMA LengthPrefixed ==
  /\ \A a \in Upto(u8) : lp8(a) \in Bstr
  /\ \A a, b \in Upto(u8) : Sd(lp8(a), lp8(b)) /\ (lp8(a) = lp8(b) => a = b)
  /\ \A a \in Upto(u16) : lp16(a) \in Bstr
  /\ \A a, b \in Upto(u16) : Sd(lp16(a), lp16(b)) /\ (lp16(a) = lp16(b) => a = b)
  /\ \A a \in Upto(u32) : lp32(a) \in Bstr
  /\ \A a, b \in Upto(u32) : Sd(lp32(a), lp32(b)) /\ (lp32(a) = lp32(b) => a = b)
  /\ \A a \in Upto(u64) : lp64(a) \in Bstr
  /\ \A a, b \in Upto(u64) : Sd(lp64(a), lp64(b)) /\ (lp64(a) = lp64(b) => a = b)
<1>0. \A R : \A a \in Upto(R) : a \in Bstr /\ Len(a) \in R /\ Len(a) \in Nat BY BstrProps DEF Upto
<1>9. \A n \in Nat : <<n>> \in Bstr BY SMT DEF Bstr
<1>1. \A a \in Upto(u8) : lp8(a) \in Bstr BY <1>0, <1>9, BstrProps, Zenon DEF lp8
<1>2. \A a \in Upto(u16) : lp16(a) \in Bstr BY <1>0, Be2Props, BstrProps DEF lp16
<1>3. \A a \in Upto(u32) : lp32(a) \in Bstr BY <1>0, Be4Props, BstrProps DEF lp32
<1>4. \A a \in Upto(u64) : lp64(a) \in Bstr BY <1>0, U64Props, BstrProps DEF lp64
<1>5. ASSUME NEW a \in Upto(u8), NEW b \in Upto(u8)
      PROVE  Sd(lp8(a), lp8(b)) /\ (lp8(a) = lp8(b) => a = b)
  <2> DEFINE h == <<Len(a)>>
             k == <<Len(b)>>
  <2>1. a \in Bstr /\ b \in Bstr /\ h \in Bstr /\ k \in Bstr /\ Len(h) = Len(k) BY <1>0, <1>9
  <2>2. h = k => Len(a) = Len(b) OBVIOUS
  <2> HIDE DEF h, k
  <2> QED BY <2>1, <2>2, SdFixed, Delimited DEF h, k, lp8
<1>6. ASSUME NEW a \in Upto(u16), NEW b \in Upto(u16)
      PROVE  Sd(lp16(a), lp16(b)) /\ (lp16(a) = lp16(b) => a = b)
  <2> DEFINE h == Be2(Len(a))
             k == Be2(Len(b))
  <2>1. a \in Bstr /\ b \in Bstr /\ h \in Bstr /\ k \in Bstr /\ Len(h) = Len(k) BY <1>0, Be2Props
  <2>2. h = k => Len(a) = Len(b)
    <3>1. Len(a) \in u16 /\ Len(b) \in u16 BY <1>0
    <3>2. Len(a) \in Nat /\ Len(b) \in Nat /\ Len(a) < RADIX /\ Len(b) < RADIX
      BY SMT, <3>1, U16Range
    <3>3. h = k => Len(a) % RADIX = Len(b) % RADIX BY SMT, <3>2, Be2Props
    <3> HIDE DEF h, k
    <3> QED BY SMT, <3>2, <3>3, Halves
  <2> HIDE DEF h, k
  <2> QED BY <2>1, <2>2, SdFixed, Delimited DEF h, k, lp16
<1>7. ASSUME NEW a \in Upto(u32), NEW b \in Upto(u32)
      PROVE  Sd(lp32(a), lp32(b)) /\ (lp32(a) = lp32(b) => a = b)
  <2> DEFINE h == Be4(Len(a))
             k == Be4(Len(b))
  <2>1. a \in Bstr /\ b \in Bstr /\ h \in Bstr /\ k \in Bstr /\ Len(h) = Len(k) BY <1>0, Be4Props
  <2>2. h = k => Len(a) = Len(b) BY <1>0, Be4Props
  <2> HIDE DEF h, k
  <2> QED BY <2>1, <2>2, SdFixed, Delimited DEF h, k, lp32
<1>8. ASSUME NEW a \in Upto(u64), NEW b \in Upto(u64)
      PROVE  Sd(lp64(a), lp64(b)) /\ (lp64(a) = lp64(b) => a = b)
  <2> DEFINE h == U64(Len(a))
             k == U64(Len(b))
  <2>1. a \in Bstr /\ b \in Bstr /\ h \in Bstr /\ k \in Bstr /\ Len(h) = Len(k) BY <1>0, U64Props
  <2>2. h = k => Len(a) = Len(b) BY <1>0, U64Props
  <2> HIDE DEF h, k
  <2> QED BY <2>1, <2>2, SdFixed, Delimited DEF h, k, lp64
<1> QED BY <1>1, <1>2, <1>3, <1>4, <1>5, <1>6, <1>7, <1>8

-----------------------------------------------------------------------------
(* Fields one after the other *)

\* What is written up to a field begins the whole.
LEMMA SameNext ==
  ASSUME NEW a \in Bstr, NEW b \in Bstr, NEW c \in Bstr, NEW u \in Bstr, NEW v \in Bstr,
         (c \o a) \o u = (c \o b) \o v, Sd(a, b)
  PROVE  a = b
<1>1. (c \o a) \o u = c \o (a \o u) BY Assoc
<1>2. (c \o b) \o v = c \o (b \o v) BY Assoc
<1>3. a \o u \in Bstr /\ b \o v \in Bstr BY BstrProps
<1>4. c \o (a \o u) = c \o (b \o v) BY <1>1, <1>2
<1>5. a \o u = b \o v BY <1>3, <1>4, CancelLeft
<1> QED BY <1>5 DEF Sd

\* A flattened sequence begins with the flattening of its first strings.
LEMMA Begins ==
  ASSUME NEW p \in Seq(Bstr), NEW f, Joins(p, f), NEW i \in 0 .. Len(p)
  PROVE  \E r \in Bstr : f[Len(p)] = f[i] \o r
<1> DEFINE n == Len(p)
           T == {m \in Nat : i + m <= n => \E r \in Bstr : f[i + m] = f[i] \o r}
<1>0. n \in Nat /\ (\A k \in 1 .. n : p[k] \in Bstr /\ f[k] = f[k - 1] \o p[k])
      /\ (\A k \in 0 .. n : f[k] \in Bstr)
  <2>1. n \in Nat /\ \A k \in 1 .. n : p[k] \in Bstr OBVIOUS
  <2> QED BY <2>1 DEF Joins
<1> HIDE DEF n
<1>1. 0 \in T
  <2>1. i + 0 = i /\ f[i] \in Bstr /\ << >> \in Bstr BY <1>0, BstrProps DEF n
  <2>2. f[i] = f[i] \o << >> BY <2>1, BstrProps
  <2> QED BY <2>1, <2>2
<1>2. ASSUME NEW m \in Nat, m \in T PROVE m + 1 \in T
  <2> SUFFICES ASSUME i + (m + 1) <= n PROVE \E r \in Bstr : f[i + (m + 1)] = f[i] \o r OBVIOUS
  <2>1. i \in Nat /\ i + m <= n /\ i + (m + 1) \in 1 .. n /\ (i + (m + 1)) - 1 = i + m
    BY <1>0 DEF n
  <2>2. PICK r \in Bstr : f[i + m] = f[i] \o r BY <1>2, <2>1
  <2> DEFINE e == p[i + (m + 1)]
  <2>3. e \in Bstr /\ f[i + (m + 1)] = f[i + m] \o e BY <1>0, <2>1
  <2>4. f[i] \in Bstr /\ r \o e \in Bstr BY <1>0, <2>1, <2>3, BstrProps DEF n
  <2> HIDE DEF e
  <2>5. (f[i] \o r) \o e = f[i] \o (r \o e) BY <2>3, <2>4, Assoc
  <2> QED BY <2>2, <2>3, <2>4, <2>5
<1>3. \A m \in Nat : m \in T 
  <2> HIDE DEF T
  <2> QED BY <1>1, <1>2, Induct, Zenon
<1>4. n - i \in Nat /\ i + (n - i) = n BY <1>0 DEF n
<1> DEFINE g == n - i
<1>5. g \in T /\ i + g = n BY <1>3, <1>4
<1> HIDE DEF g
<1>6. \E r \in Bstr : f[i + g] = f[i] \o r
  <2>1. n \in Nat BY DEF n
  <2> HIDE DEF n
  <2> QED BY <1>5, <2>1
<1> QED BY <1>5, <1>6 DEF n

\* Of two lists of fields that make the same bytes, if all but the last field are
\* self-delimiting then the fields are the same; what follows is too, if the last one is.
LEMMA SameFields ==
  ASSUME NEW p \in Seq(Bstr), NEW q \in Seq(Bstr), Len(p) = Len(q), Len(p) > 0,
         NEW s \in Bstr, NEW t \in Bstr,
         FlattenSeq(p) \o s = FlattenSeq(q) \o t,
         \A i \in 1 .. Len(p) - 1 : Sd(p[i], q[i])
  PROVE  (\A i \in 1 .. Len(p) - 1 : p[i] = q[i]) /\ p[Len(p)] \o s = q[Len(p)] \o t
<1> DEFINE n == Len(p)
<1>1. PICK f : Joins(p, f) /\ FlattenSeq(p) = f[n] BY Flattened
<1>2. PICK g : Joins(q, g) /\ FlattenSeq(q) = g[n] BY Flattened
<1>3. /\ n \in Nat /\ Len(q) = n /\ n > 0
      /\ \A k \in 1 .. n : p[k] \in Bstr /\ f[k] = f[k - 1] \o p[k]
      /\ \A k \in 1 .. n : q[k] \in Bstr /\ g[k] = g[k - 1] \o q[k]
      /\ \A k \in 0 .. n : f[k] \in Bstr /\ g[k] \in Bstr
      /\ f[0] = g[0]
  <2>1. n \in Nat /\ Len(q) = n /\ n > 0 OBVIOUS
  <2>2. \A k \in 1 .. n : p[k] \in Bstr /\ q[k] \in Bstr OBVIOUS
  <2>3. f[0] = g[0] /\ \A k \in 1 .. n : f[k] = f[k - 1] \o p[k] /\ g[k] = g[k - 1] \o q[k]
    BY <1>1, <1>2, <2>1 DEF Joins
  <2>4. f \in [0 .. n -> Bstr] /\ g \in [0 .. n -> Bstr] BY <1>1, <1>2, <2>1 DEF Joins
  <2> HIDE DEF n
  <2>5. \A k \in 0 .. n : f[k] \in Bstr /\ g[k] \in Bstr BY <2>4
  <2> QED BY <2>1, <2>2, <2>3, <2>5
<1>4. f[n] \o s = g[n] \o t BY <1>1, <1>2
<1> HIDE DEF n
<1> DEFINE T == {m \in Nat : m <= n - 1 => f[m] = g[m] /\ \A k \in 1 .. m : p[k] = q[k]}
<1>5. 0 \in T BY <1>3
<1>6. ASSUME NEW m \in Nat, m \in T PROVE m + 1 \in T
  <2> SUFFICES ASSUME m + 1 <= n - 1
               PROVE  f[m + 1] = g[m + 1] /\ \A k \in 1 .. m + 1 : p[k] = q[k]
    OBVIOUS
  <2>0. /\ m + 1 \in 1 .. n /\ m + 1 \in 1 .. n - 1 /\ m + 1 \in 0 .. n /\ m \in 0 .. n
        /\ (m + 1) - 1 = m
    BY <1>3
  <2>1. f[m] = g[m] /\ \A k \in 1 .. m : p[k] = q[k] BY <1>6, <2>0, <1>3
  <2> DEFINE a == p[m + 1]
             b == q[m + 1]
             c == f[m]
  <2>2. a \in Bstr /\ b \in Bstr /\ c \in Bstr /\ f[m + 1] = c \o a /\ g[m + 1] = c \o b
    BY <1>3, <2>0, <2>1
  <2>3. Sd(a, b) BY <2>0 DEF n
  <2>4. PICK u \in Bstr : f[n] = f[m + 1] \o u BY <1>1, <2>0, Begins DEF n
  <2>5. PICK v \in Bstr : g[n] = g[m + 1] \o v
    <3>1. n = Len(q) /\ Joins(q, g) /\ m + 1 \in 0 .. Len(q) BY <1>2, <1>3, <2>0
    <3>2. \E v \in Bstr : g[Len(q)] = g[m + 1] \o v BY <3>1, Begins
    <3> QED BY <3>1, <3>2
  <2> HIDE DEF a, b, c
  <2> DEFINE us == u \o s
             vt == v \o t
  <2>6. us \in Bstr /\ vt \in Bstr BY <2>4, <2>5, BstrProps
  <2>7. c \o a \in Bstr /\ c \o b \in Bstr BY <2>2, BstrProps
  <2>8. ((c \o a) \o u) \o s = (c \o a) \o us BY <2>4, <2>7, Assoc
  <2>9. ((c \o b) \o v) \o t = (c \o b) \o vt BY <2>5, <2>7, Assoc
  <2> HIDE DEF us, vt
  <2>10. (c \o a) \o us = (c \o b) \o vt BY <1>4, <2>2, <2>4, <2>5, <2>8, <2>9
  <2>11. a = b BY <2>2, <2>3, <2>6, <2>10, SameNext
  <2>12. c \o a = c \o b BY <2>11, Zenon
  <2>13. f[m + 1] = g[m + 1] BY <2>2, <2>12, Zenon
  <2>14. p[m + 1] = q[m + 1] BY <2>11, Zenon DEF a, b
  <2>15. ASSUME NEW k \in 1 .. m + 1 PROVE p[k] = q[k]
    <3>1. k \in 1 .. m \/ k = m + 1 BY <1>6, SMT
    <3> QED BY <2>1, <2>14, <3>1, Zenon
  <2> QED BY <2>13, <2>15, Zenon
<1>7. \A m \in Nat : m \in T 
  <2> HIDE DEF T
  <2> QED BY <1>5, <1>6, Induct, Zenon
<1>8. f[n - 1] = g[n - 1] /\ \A k \in 1 .. n - 1 : p[k] = q[k]
  <2>1. n - 1 \in Nat /\ n - 1 \in T BY <1>3, <1>7
  <2> QED BY <2>1
<1>9. p[n] \o s = q[n] \o t
  <2> DEFINE a == p[n]
             b == q[n]
             c == f[n - 1]
  <2>1. n \in 1 .. n /\ n - 1 \in 0 .. n BY <1>3
  <2>2. a \in Bstr /\ b \in Bstr /\ c \in Bstr /\ f[n] = c \o a /\ g[n] = c \o b
    BY <1>3, <1>8, <2>1
  <2> HIDE DEF a, b, c
  <2>3. (c \o a) \o s = c \o (a \o s) BY <2>2, Assoc
  <2>4. (c \o b) \o t = c \o (b \o t) BY <2>2, Assoc
  <2>5. c \o (a \o s) = c \o (b \o t) BY <1>4, <2>2, <2>3, <2>4
  <2>6. a \o s \in Bstr /\ b \o t \in Bstr BY <2>2, BstrProps
  <2>7. a \o s = b \o t BY <2>2, <2>5, <2>6, CancelLeft
  <2> QED BY <2>7 DEF a, b
<1> QED BY <1>8, <1>9 DEF n

\* Byte strings flatten to a byte string.
LEMMA FlatBstr == \A p \in Seq(Bstr) : FlattenSeq(p) \in Bstr
<1> SUFFICES ASSUME NEW p \in Seq(Bstr) PROVE FlattenSeq(p) \in Bstr OBVIOUS
<1>1. PICK f : Joins(p, f) /\ FlattenSeq(p) = f[Len(p)] BY Flattened
<1>2. Len(p) \in Nat OBVIOUS
<1> QED BY <1>1, <1>2 DEF Joins

\* Two flattened sequences of self-delimiting fields are equal only field by field; the
\* last field needs no end.
LEMMA EachField ==
  ASSUME NEW p \in Seq(Bstr), NEW q \in Seq(Bstr), Len(p) = Len(q), Len(p) > 0,
         FlattenSeq(p) = FlattenSeq(q), \A i \in 1 .. Len(p) - 1 : Sd(p[i], q[i])
  PROVE  p = q
<1> DEFINE n == Len(p)
<1>1. << >> \in Bstr /\ FlattenSeq(p) \o << >> = FlattenSeq(q) \o << >> BY BstrProps
<1>2. (\A i \in 1 .. n - 1 : p[i] = q[i]) /\ p[n] \o << >> = q[n] \o << >> BY <1>1, SameFields
<1>3. n \in Nat /\ n \in 1 .. n /\ p[n] \in Bstr /\ q[n] \in Bstr OBVIOUS
<1>4. p[n] = q[n] BY <1>2, <1>3, BstrProps
<1>5. \A i \in 1 .. n : p[i] = q[i] BY <1>2, <1>3, <1>4
<1> QED BY <1>5, SeqEqual

\* Fields that are all self-delimiting are so together.
LEMMA SdFields ==
  ASSUME NEW p \in Seq(Bstr), NEW q \in Seq(Bstr), Len(p) = Len(q),
         \A i \in 1 .. Len(p) : Sd(p[i], q[i])
  PROVE  Sd(FlattenSeq(p), FlattenSeq(q))
<1>1. CASE Len(p) = 0
  <2>1. p = q BY <1>1, SeqEqual, EmptySeq
  <2> QED BY <2>1 DEF Sd
<1>2. CASE Len(p) > 0
  <2> SUFFICES ASSUME NEW s \in Bstr, NEW t \in Bstr, FlattenSeq(p) \o s = FlattenSeq(q) \o t
               PROVE  FlattenSeq(p) = FlattenSeq(q)
    BY DEF Sd
  <2> DEFINE n == Len(p)
  <2>0. \A i \in 1 .. n - 1 : Sd(p[i], q[i]) OBVIOUS
  <2>1. (\A i \in 1 .. n - 1 : p[i] = q[i]) /\ p[n] \o s = q[n] \o t BY <1>2, <2>0, SameFields
  <2>2. n \in Nat /\ n \in 1 .. n /\ p[n] \in Bstr /\ q[n] \in Bstr BY <1>2
  <2>3. p[n] = q[n] BY <2>1, <2>2 DEF Sd
  <2>4. \A i \in 1 .. n : p[i] = q[i] BY <2>1, <2>2, <2>3
  <2>5. p = q BY <2>4, SeqEqual
  <2> QED BY <2>5
<1>3. Len(p) \in Nat OBVIOUS
<1> QED BY <1>1, <1>2, <1>3

\* The first field begins the bytes.
LEMMA FirstField ==
  ASSUME NEW p \in Seq(Bstr), Len(p) > 0
  PROVE  \E r \in Bstr : FlattenSeq(p) = p[1] \o r
<1>1. PICK f : Joins(p, f) /\ FlattenSeq(p) = f[Len(p)] BY Flattened
<1>2. 1 \in 0 .. Len(p) /\ 1 \in 1 .. Len(p) /\ 1 - 1 = 0 /\ p[1] \in Bstr OBVIOUS
<1>3. f[1] = f[0] \o p[1] /\ f[0] = << >> BY <1>1, <1>2 DEF Joins
<1>4. f[1] = p[1] BY <1>2, <1>3, BstrProps
<1> QED BY <1>1, <1>2, <1>4, Begins

-----------------------------------------------------------------------------
(* RLP *)

\* MinimalOf drops k leading zeros.
Drops(b, k) ==
    /\ k \in 0 .. Len(b)
    /\ \A i \in 1 .. k : b[i] = 0
    /\ k < Len(b) => b[k + 1] # 0
    /\ MinimalOf(b) \in Bstr /\ Len(MinimalOf(b)) = Len(b) - k
    /\ \A i \in 1 .. Len(b) - k : MinimalOf(b)[i] = b[k + i]

\* A number without its leading zeros is a suffix of its bytes.  (MinimalOf)
LEMMA MinimalForm ==
  ASSUME NEW b \in Bstr
  PROVE  \E k : Drops(b, k)
<1> DEFINE nz == {i \in DOMAIN b : b[i] # 0}
<1>1. Len(b) \in Nat /\ DOMAIN b = 1 .. Len(b) /\ \A i \in 1 .. Len(b) : b[i] \in Nat BY BstrProps
<1>2. CASE nz = {}
  <2>1. MinimalOf(b) = << >> BY <1>2 DEF MinimalOf
  <2>2. \A i \in 1 .. Len(b) : b[i] = 0 BY <1>1, <1>2
  <2>3. << >> \in Bstr /\ Len(<< >>) = 0 BY BstrProps
  <2>4. Drops(b, Len(b)) BY <1>1, <2>1, <2>2, <2>3 DEF Drops
  <2> QED BY <2>4
<1>3. CASE nz # {}
  <2> DEFINE m == CHOOSE i \in nz : \A j \in nz : i <= j
  <2>1. MinimalOf(b) = SubSeq(b, m, Len(b)) BY <1>3 DEF MinimalOf
  <2>2. nz \subseteq Nat BY <1>1
  <2>3. \E i \in nz : \A j \in nz : i <= j
    <3> HIDE DEF nz
    <3> QED BY <1>3, <2>2, Least
  <2>4. m \in nz /\ \A j \in nz : m <= j BY <2>3
  <2> HIDE DEF m
  <2>5. m \in 1 .. Len(b) /\ b[m] # 0 BY <1>1, <2>4
  <2>6. \A i \in 1 .. m - 1 : b[i] = 0 BY <1>1, <2>4, <2>5
  <2> HIDE DEF nz
  <2>7. m \in 1 .. Len(b) + 1 /\ Len(b) \in m - 1 .. Len(b) /\ m <= Len(b) BY <1>1, <2>5
  <2>8. b \in Seq(Nat) BY DEF Bstr
  <2>9. /\ MinimalOf(b) \in Seq(Nat) /\ Len(MinimalOf(b)) = Len(b) - m + 1
        /\ \A i \in 1 .. Len(b) - m + 1 : MinimalOf(b)[i] = b[m + i - 1]
    BY <2>1, <2>7, <2>8, SubSeqProperties
  <2> DEFINE k == m - 1
  <2>10. k \in 0 .. Len(b) /\ k + 1 = m /\ Len(b) - m + 1 = Len(b) - k /\ k < Len(b) BY <1>1, <2>5
  <2>11. \A i \in 1 .. Len(b) - k : m + i - 1 = k + i BY <1>1, <2>5
  <2>12. Drops(b, k) BY <2>5, <2>6, <2>9, <2>10, <2>11 DEF Drops, Bstr
  <2> QED BY <2>12
<1> QED BY <1>2, <1>3

\* Of numbers of one width, the minimal form determines the number.
LEMMA MinimalSame ==
  ASSUME NEW a \in Bstr, NEW b \in Bstr, Len(a) = Len(b), MinimalOf(a) = MinimalOf(b)
  PROVE  a = b
<1>0. /\ a \in Seq(Nat) /\ b \in Seq(Nat) /\ Len(a) \in Nat
  BY DEF Bstr
<1>1. PICK k : Drops(a, k) BY MinimalForm
<1>2. PICK l : Drops(b, l) BY MinimalForm
<1>3. k = l BY <1>0, <1>1, <1>2 DEF Drops
<1>4. ASSUME NEW i \in 1 .. Len(a) PROVE a[i] = b[i]
  <2>1. CASE i <= k BY <1>0, <1>1, <1>2, <1>3, <2>1 DEF Drops
  <2>2. CASE i > k
    <3>1. k \in Nat /\ i - k \in 1 .. Len(a) - k /\ i - k \in 1 .. Len(b) - k /\ k + (i - k) = i
      BY <1>0, <1>1, <2>2 DEF Drops
    <3>2. MinimalOf(a)[i - k] = a[i] BY <1>1, <3>1 DEF Drops
    <3>3. MinimalOf(b)[i - k] = b[i] BY <1>2, <1>3, <3>1 DEF Drops
    <3> QED BY <3>2, <3>3
  <2>3. k \in Nat BY <1>0, <1>1 DEF Drops
  <2> QED BY <2>1, <2>2, <2>3
<1> QED BY <1>0, <1>4, SeqEqual

\* A string without leading zeros is its own minimal form.
LEMMA MinimalFixed ==
  ASSUME NEW b \in Bstr, b # << >> => b[1] # 0
  PROVE  MinimalOf(b) = b
<1>0. b \in Seq(Nat) /\ Len(b) \in Nat BY DEF Bstr
<1>1. PICK k : Drops(b, k) BY MinimalForm
<1>2. k = 0
  <2>1. CASE k > 0
    <3>1. b[1] = 0 /\ Len(b) > 0 BY <1>0, <1>1, <2>1 DEF Drops
    <3> QED BY <3>1, <1>0
  <2>2. k \in Nat BY <1>0, <1>1 DEF Drops
  <2> QED BY <2>1, <2>2
<1>3. /\ MinimalOf(b) \in Seq(Nat) /\ Len(MinimalOf(b)) = Len(b)
      /\ \A i \in 1 .. Len(b) : MinimalOf(b)[i] = b[i]
  BY <1>0, <1>1, <1>2 DEF Drops, Bstr
<1> QED BY <1>0, <1>3, SeqEqual

\* A minimal form is a byte string no longer than the number.
LEMMA MinimalLength ==
  ASSUME NEW b \in Bstr
  PROVE  MinimalOf(b) \in Bstr /\ Len(MinimalOf(b)) \in 0 .. Len(b)
<1>0. Len(b) \in Nat BY BstrProps
<1>1. PICK k : Drops(b, k) BY MinimalForm
<1> QED BY <1>0, <1>1 DEF Drops

\* What encode_length writes: h, where b is the length in as few bytes as it needs.
LengthForm(len, o, h, b) ==
    /\ h \in Bstr /\ Len(h) > 0 /\ Len(h) \in Nat /\ Len(b) \in Nat
    /\ len < 56 => h[1] = o + len /\ Len(h) = 1
    /\ len >= 56 => h = <<o + 55 + Len(b)>> \o b /\ h[1] = o + 55 + Len(b) /\ Len(h) = 1 + Len(b)

\* An RLP length is one byte, or a count of bytes and those.  (encode_length)
LEMMA EncodeLength ==
  ASSUME NEW len \in Nat, NEW o \in Nat
  PROVE  LengthForm(len, o, encode_length(len, o), MinimalOf(U64(len)))
<1> DEFINE b == MinimalOf(U64(len))
<1> SUFFICES ASSUME NEW h, h = encode_length(len, o) PROVE LengthForm(len, o, h, b) OBVIOUS
<1> USE DEF LengthForm
<1>1. b \in Bstr /\ Len(b) \in Nat BY U64Props, MinimalLength, BstrProps
<1>2. CASE len < 56
  <2>1. h = <<o + len>> BY <1>2 DEF encode_length
  <2>2. o + len \in Nat OBVIOUS
  <2>3. h \in Bstr /\ Len(h) = 1 /\ h[1] = o + len BY <2>1, <2>2 DEF Bstr
  <2> HIDE DEF b
  <2> QED BY <1>1, <1>2, <2>3
<1>3. CASE len >= 56
  <2> DEFINE c == o + 55 + Len(b)
  <2>1. h = <<c>> \o b BY <1>3 DEF encode_length
  <2>2. c \in Nat BY <1>1
  <2> HIDE DEF c, b
  <2>3. h \in Bstr /\ Len(h) = 1 + Len(b) /\ h[1] = c BY <1>1, <2>1, <2>2, HeadByte
  <2> QED BY <1>1, <1>3, <2>1, <2>3 DEF c
<1> QED BY <1>2, <1>3

\* An RLP length is not empty, and its first byte tells how long it is.
LEMMA LengthFirst ==
  ASSUME NEW len \in Nat, NEW o \in Nat
  PROVE  /\ encode_length(len, o) \in Bstr /\ Len(encode_length(len, o)) > 0
         /\ Len(encode_length(len, o)) \in Nat /\ encode_length(len, o)[1] >= o
<1> DEFINE h == encode_length(len, o)
           b == MinimalOf(U64(len))
<1>1. LengthForm(len, o, h, b) BY EncodeLength
<1> HIDE DEF h, b
<1>2. h \in Bstr /\ Len(h) > 0 /\ Len(h) \in Nat /\ h[1] >= o BY <1>1 DEF LengthForm
<1> QED BY <1>2 DEF h

\* The first byte of a length tells how many bytes it has.
LEMMA LengthHead ==
  ASSUME NEW m \in Nat, NEW n \in Nat, NEW o \in Nat
  PROVE  Sd(encode_length(m, o), encode_length(n, o))
<1> DEFINE h == encode_length(m, o)
           k == encode_length(n, o)
           lm == Len(MinimalOf(U64(m)))
           ln == Len(MinimalOf(U64(n)))
<1>1. /\ h \in Bstr /\ Len(h) > 0 /\ lm \in Nat
      /\ m < 56 => h[1] = o + m /\ Len(h) = 1
      /\ m >= 56 => h[1] = o + 55 + lm /\ Len(h) = 1 + lm
  BY EncodeLength DEF LengthForm
<1>2. /\ k \in Bstr /\ Len(k) > 0 /\ ln \in Nat
      /\ n < 56 => k[1] = o + n /\ Len(k) = 1
      /\ n >= 56 => k[1] = o + 55 + ln /\ Len(k) = 1 + ln
  BY EncodeLength DEF LengthForm
<1> HIDE DEF h, k, lm, ln
<1>3. h[1] = k[1] => Len(h) = Len(k)
  <2> SUFFICES ASSUME h[1] = k[1] PROVE Len(h) = Len(k) OBVIOUS
  <2>1. CASE m < 56 /\ n < 56 BY <1>1, <1>2, <2>1
  <2>2. CASE m >= 56 /\ n >= 56
    <3>1. o + 55 + lm = o + 55 + ln BY <1>1, <1>2, <2>2
    <3>2. lm = ln BY <1>1, <1>2, <3>1
    <3> QED BY <1>1, <1>2, <2>2, <3>2
  <2>3. CASE m < 56 /\ n >= 56
    <3>1. o + m = o + 55 + ln BY <1>1, <1>2, <2>3
    <3>2. ln = 0 BY <1>2, <2>3, <3>1
    <3>3. Len(h) = 1 /\ Len(k) = 1 + ln BY <1>1, <1>2, <2>3
    <3> QED BY <3>2, <3>3
  <2>4. CASE m >= 56 /\ n < 56
    <3>1. o + n = o + 55 + lm BY <1>1, <1>2, <2>4
    <3>2. lm = 0 BY <1>1, <2>4, <3>1
    <3>3. Len(k) = 1 /\ Len(h) = 1 + lm BY <1>1, <1>2, <2>4
    <3> QED BY <3>2, <3>3
  <2> QED BY <2>1, <2>2, <2>3, <2>4
<1>4. Sd(h, k) BY <1>1, <1>2, <1>3, SdHead
<1> QED BY <1>4 DEF h, k

\* An RLP length determines the number.
LEMMA LengthSame ==
  ASSUME NEW m \in u64, NEW n \in u64, NEW o \in Nat, encode_length(m, o) = encode_length(n, o)
  PROVE  m = n
<1>0. m \in Nat /\ n \in Nat BY SMT, Range8
<1> DEFINE h == encode_length(m, o)
           bm == MinimalOf(U64(m))
           bn == MinimalOf(U64(n))
<1>1. /\ Len(bm) \in Nat
      /\ m < 56 => h[1] = o + m /\ Len(h) = 1
      /\ m >= 56 => h = <<o + 55 + Len(bm)>> \o bm /\ h[1] = o + 55 + Len(bm) /\ Len(h) = 1 + Len(bm)
  BY <1>0, EncodeLength DEF LengthForm
<1>2. /\ Len(bn) \in Nat
      /\ n < 56 => h[1] = o + n /\ Len(h) = 1
      /\ n >= 56 => h = <<o + 55 + Len(bn)>> \o bn /\ h[1] = o + 55 + Len(bn) /\ Len(h) = 1 + Len(bn)
  BY <1>0, EncodeLength DEF LengthForm
<1>3. bm = bn => m = n
  <2>1. U64(m) \in Bstr /\ U64(n) \in Bstr /\ Len(U64(m)) = Len(U64(n)) BY <1>0, U64Props
  <2>2. bm = bn => U64(m) = U64(n) BY <2>1, MinimalSame
  <2> QED BY <2>2, U64Props
<1>4. \A v \in u64 : Len(MinimalOf(U64(v))) = 0 => v = 0
  <2> SUFFICES ASSUME NEW v \in u64, Len(MinimalOf(U64(v))) = 0 PROVE v = 0 OBVIOUS
  <2>1. v \in Nat /\ 0 \in u64 /\ 0 \in Nat
    <3>1. 0 \in u8 BY DEF u8
    <3> QED BY <3>1, SMT, Range8
  <2>2. U64(v) \in Bstr /\ U64(0) \in Bstr /\ Len(U64(v)) = 8 /\ Len(U64(0)) = 8 BY <2>1, U64Props
  <2>3. \A i \in 1 .. 8 : U64(v)[i] = 0
    <3>1. PICK k : Drops(U64(v), k) BY <2>2, MinimalForm
    <3>2. k = 8 BY <2>2, <3>1 DEF Drops
    <3> QED BY <3>1, <3>2 DEF Drops
  <2>4. \A i \in 1 .. 8 : U64(0)[i] = 0
    <3>1. 0 \div RADIX = 0 /\ 0 \div 256 = 0 /\ 0 % 256 = 0 BY SMT, Halves
    <3>2. U64(0) = <<0, 0, 0, 0>> \o <<0, 0, 0, 0>> BY SMT, <3>1 DEF U64, Be4, Be2
    <3> QED BY SMT, <3>2
  <2>5. U64(v) = U64(0) BY <2>2, <2>3, <2>4, SeqEqual DEF Bstr
  <2> QED BY <2>1, <2>5, U64Props
<1>5. CASE m < 56 /\ n < 56
  <2> HIDE DEF h, bm, bn
  <2> QED BY <1>0, <1>1, <1>2, <1>5
<1>6. CASE m >= 56 /\ n >= 56
  <2>1. bm \in Bstr /\ bn \in Bstr BY <1>0, U64Props, MinimalLength
  <2> HIDE DEF h, bm, bn
  <2> DEFINE c == o + 55 + Len(bm)
  <2>2. h = <<c>> \o bm /\ h = <<c>> \o bn /\ c \in Nat BY <1>1, <1>2, <1>6
  <2> HIDE DEF c
  <2>3. bm = bn BY <2>1, <2>2, HeadTail
  <2> QED BY <1>3, <2>3
<1>7. CASE m < 56 /\ n >= 56
  <2>1. Len(bn) # 0 BY <1>0, <1>4, <1>7
  <2> HIDE DEF h, bm, bn
  <2> QED BY <1>0, <1>1, <1>2, <1>7, <2>1
<1>8. CASE m >= 56 /\ n < 56
  <2>1. Len(bm) # 0 BY <1>0, <1>4, <1>8
  <2> HIDE DEF h, bm, bn
  <2> QED BY <1>0, <1>1, <1>2, <1>8, <2>1
<1> QED BY <1>0, <1>5, <1>6, <1>7, <1>8

\* An RLP string is self-delimiting and determines its bytes.  (encode_bytes)
LEMMA EncodeBytes ==
  ASSUME NEW a \in Upto(u64), NEW b \in Upto(u64)
  PROVE  /\ encode_bytes(a) \in Bstr /\ Sd(encode_bytes(a), encode_bytes(b))
         /\ encode_bytes(a) = encode_bytes(b) => a = b
<1> DEFINE h == encode_length(Len(a), 128)
           k == encode_length(Len(b), 128)
           one(x) == Len(x) = 1 /\ x[1] < 128
<1>1. /\ a \in Bstr /\ b \in Bstr /\ Len(a) \in u64 /\ Len(b) \in u64 /\ Len(a) \in Nat
      /\ Len(b) \in Nat
  BY BstrProps DEF Upto
<1>2. encode_bytes(a) = IF one(a) THEN a ELSE h \o a BY DEF encode_bytes
<1>3. encode_bytes(b) = IF one(b) THEN b ELSE k \o b BY DEF encode_bytes
<1>4. h \in Bstr /\ k \in Bstr /\ Len(h) > 0 /\ Len(k) > 0 /\ Len(h) \in Nat /\ Len(k) \in Nat
      /\ h[1] >= 128 /\ k[1] >= 128
  <2>1. 128 \in Nat OBVIOUS
  <2> QED BY <1>1, <2>1, LengthFirst
<1>5. Sd(h, k) BY <1>1, LengthHead
<1>6. h = k => Len(a) = Len(b)
  <2>1. 128 \in Nat OBVIOUS
  <2> QED BY <1>1, <2>1, LengthSame
<1> HIDE DEF h, k
<1>7. /\ h \o a \in Bstr /\ k \o b \in Bstr /\ Len(h \o a) > 0 /\ Len(k \o b) > 0
      /\ (h \o a)[1] >= 128 /\ (k \o b)[1] >= 128
  <2>1. 1 \in 1 .. Len(h) /\ 1 \in 1 .. Len(k) BY <1>4
  <2>2. (h \o a)[1] = h[1] /\ (k \o b)[1] = k[1] BY <1>1, <1>4, <2>1, Prefix
  <2>3. /\ h \o a \in Bstr /\ k \o b \in Bstr /\ Len(h \o a) = Len(h) + Len(a)
        /\ Len(k \o b) = Len(k) + Len(b)
    BY <1>1, <1>4, BstrProps
  <2> QED BY <1>1, <1>4, <2>2, <2>3
<1>8. CASE one(a) /\ one(b)
  <2>1. Sd(a, b) BY <1>1, <1>8, SdFixed
  <2> QED BY <1>1, <1>2, <1>3, <1>8, <2>1
<1>9. CASE ~ one(a) /\ ~ one(b)
  <2>1. Sd(h \o a, k \o b) /\ (h \o a = k \o b => a = b) BY <1>1, <1>4, <1>5, <1>6, Delimited
  <2> QED BY <1>2, <1>3, <1>7, <1>9, <2>1
<1> DEFINE ha == h \o a
           kb == k \o b
<1> HIDE DEF ha, kb
<1>12. /\ ha \in Bstr /\ kb \in Bstr /\ Len(ha) > 0 /\ Len(kb) > 0
       /\ ha[1] >= 128 /\ kb[1] >= 128
       /\ \A x \in Bstr : Len(x) = 1 => x[1] \in Nat
       /\ ha[1] \in Nat /\ kb[1] \in Nat
  <2>1. \A x \in Bstr : Len(x) > 0 => x[1] \in Nat
    <3>1. \A x \in Bstr : Len(x) > 0 => 1 \in 1 .. Len(x) BY BstrProps
    <3> QED BY <3>1, BstrProps
  <2>2. ha \in Bstr /\ kb \in Bstr /\ Len(ha) > 0 /\ Len(kb) > 0 /\ ha[1] >= 128 /\ kb[1] >= 128
    BY <1>7 DEF ha, kb
  <2> QED BY <2>1, <2>2
<1>10. CASE one(a) /\ ~ one(b)
  <2>1. a[1] # kb[1] BY <1>1, <1>12, <1>10
  <2>2. Sd(a, kb) BY <1>1, <1>12, <1>10, <2>1, SdHead
  <2> QED BY <1>1, <1>2, <1>3, <1>10, <2>1, <2>2 DEF kb
<1>11. CASE ~ one(a) /\ one(b)
  <2>1. b[1] # ha[1] BY <1>1, <1>12, <1>11
  <2>2. Sd(ha, b) BY <1>1, <1>12, <1>11, <2>1, SdHead
  <2> QED BY <1>2, <1>3, <1>7, <1>11, <2>1, <2>2 DEF ha
<1> HIDE DEF one
<1> QED BY <1>8, <1>9, <1>10, <1>11

\* An RLP list determines its payload.  (encode_list)
LEMMA EncodeList ==
  ASSUME NEW p \in Seq(Bstr), NEW q \in Seq(Bstr), encode_list(p) = encode_list(q)
  PROVE  FlattenSeq(p) = FlattenSeq(q)
<1> DEFINE a == FlattenSeq(p)
           b == FlattenSeq(q)
           h == encode_length(Len(a), 192)
           k == encode_length(Len(b), 192)
<1>1. a \in Bstr /\ b \in Bstr BY FlatBstr
<1>2. Len(a) \in Nat /\ Len(b) \in Nat BY <1>1, BstrProps
<1>3. h \in Bstr /\ k \in Bstr
  <2>1. 192 \in Nat OBVIOUS
  <2> HIDE DEF a, b
  <2> QED BY <1>2, <2>1, LengthFirst
<1>4. Sd(h, k) BY <1>2, LengthHead
<1>5. h \o a = k \o b BY DEF encode_list
<1> HIDE DEF a, b, h, k
<1>6. a = b BY <1>1, <1>3, <1>4, <1>5, SdSplit
<1> QED BY <1>6 DEF a, b

\* An RLP list begins with a byte of 192 or more.
LEMMA ListHead ==
  ASSUME NEW p \in Seq(Bstr)
  PROVE  Len(encode_list(p)) > 0 /\ encode_list(p)[1] >= 192 /\ encode_list(p) \in Bstr
<1> DEFINE a == FlattenSeq(p)
           h == encode_length(Len(a), 192)
<1>1. a \in Bstr /\ Len(a) \in Nat BY FlatBstr, BstrProps
<1>2. h \in Bstr /\ Len(h) > 0 /\ h[1] >= 192 /\ Len(h) \in Nat
  <2>1. 192 \in Nat OBVIOUS
  <2> HIDE DEF a
  <2> QED BY <1>1, <2>1, LengthFirst
<1>3. encode_list(p) = h \o a BY DEF encode_list
<1> HIDE DEF a, h
<1>4. 1 \in 1 .. Len(h) BY <1>2
<1>5. (h \o a)[1] = h[1] BY <1>1, <1>2, <1>4, Prefix
<1>6. h \o a \in Bstr /\ Len(h \o a) = Len(h) + Len(a) BY <1>1, <1>2, BstrProps
<1> QED BY <1>1, <1>2, <1>3, <1>5, <1>6

-----------------------------------------------------------------------------
(* The codes of a form's fields *)

\* a and b are what v and w are written as.
Coded(a, b, v, w) == a \in Bstr /\ b \in Bstr /\ Sd(a, b) /\ (a = b => v = w)

\* A byte string stands for itself, at the end of a preimage.
LEMMA CodedSame == \A a \in Bstr : Coded(a, a, a, a)
BY DEF Coded, Sd

\* A byte string of known length stands for itself anywhere.
LEMMA CodedFixed ==
  ASSUME NEW a \in Bstr, NEW b \in Bstr, Len(a) = Len(b)
  PROVE  Coded(a, b, a, b)
BY SdFixed DEF Coded

\* A domain string is two symbols, its first byte and the rest.
LEMMA CodedTag == \A n \in Nat : Tag(n) \in Bstr /\ Len(Tag(n)) = 2 /\ Tag(n)[1] = 50 /\ Tag(n)[2] = 256 + n
BY SMT DEF Tag, Bstr

\* A u64 in eight bytes is coded.
LEMMA CodedU64 == \A v, w \in u64 : Coded(U64(v), U64(w), v, w)
<1> SUFFICES ASSUME NEW v \in u64, NEW w \in u64 PROVE Coded(U64(v), U64(w), v, w) OBVIOUS
<1>1. v \in Nat /\ w \in Nat BY SMT, Range8
<1>2. U64(v) \in Bstr /\ U64(w) \in Bstr /\ Len(U64(v)) = Len(U64(w)) BY <1>1, U64Props
<1> QED BY <1>2, U64Props, SdFixed DEF Coded

\* A byte array of n bytes is a byte string of that length.
LEMMA Arrays == \A n \in Nat : \A a \in Array(n) : a \in Bstr /\ Len(a) = n
BY SMT DEF Array, Bstr

\* A byte array stands for itself.
LEMMA CodedArray == \A n \in Nat : \A a, b \in Array(n) : Coded(a, b, a, b)
<1> SUFFICES ASSUME NEW n \in Nat, NEW a \in Array(n), NEW b \in Array(n) PROVE Coded(a, b, a, b)
  OBVIOUS
<1>1. a \in Bstr /\ b \in Bstr /\ Len(a) = Len(b) BY Arrays
<1> QED BY <1>1, SdFixed DEF Coded

\* A length-prefixed string is coded, in each width of the prefix.
LEMMA CodedLp ==
  /\ \A a, b \in Upto(u8) : Coded(lp8(a), lp8(b), a, b)
  /\ \A a, b \in Upto(u16) : Coded(lp16(a), lp16(b), a, b)
  /\ \A a, b \in Upto(u32) : Coded(lp32(a), lp32(b), a, b)
  /\ \A a, b \in Upto(u64) : Coded(lp64(a), lp64(b), a, b)
<1> QED BY LengthPrefixed DEF Coded

\* A CBOR byte string is coded.
LEMMA CodedBytes == \A a, b \in Upto(u64) : Coded(put_bytes(a), put_bytes(b), a, b)
BY PutBytes DEF Coded

\* A CBOR integer is coded.
LEMMA CodedUint ==
  \A m \in 0 .. 7 : \A v, w \in u64 : Coded(put_uint(m, v), put_uint(m, w), v, w)
BY PutUint DEF Coded

\* An RLP string is coded.
LEMMA CodedRlp == \A a, b \in Upto(u64) : Coded(encode_bytes(a), encode_bytes(b), a, b)
BY EncodeBytes DEF Coded

\* An RLP integer is coded.  (encode_uint_minimal)
LEMMA CodedRlpInteger ==
  ASSUME NEW v \in u64, NEW w \in u64
  PROVE  Coded(encode_uint_minimal(U64(v)), encode_uint_minimal(U64(w)), v, w)
<1> DEFINE a == MinimalOf(U64(v))
           b == MinimalOf(U64(w))
<1>1. v \in Nat /\ w \in Nat BY SMT, Range8
<1>2. /\ U64(v) \in Bstr /\ U64(w) \in Bstr /\ Len(U64(v)) = 8 /\ Len(U64(w)) = 8
      /\ (U64(v) = U64(w) => v = w)
  BY <1>1, U64Props
<1>3. a \in Bstr /\ b \in Bstr /\ Len(a) \in 0 .. 8 /\ Len(b) \in 0 .. 8 BY <1>2, MinimalLength
<1>4. a = b => v = w BY <1>2, MinimalSame
<1>5. a \in Upto(u64) /\ b \in Upto(u64)
  <2>1. 0 .. 8 \subseteq u8 BY SMT DEF u8
  <2>2. 0 .. 8 \subseteq u64 BY <2>1, SMT, Range8
  <2> HIDE DEF a, b
  <2> QED BY <1>3, <2>2 DEF Upto
<1> HIDE DEF a, b
<1>6. Coded(encode_bytes(a), encode_bytes(b), a, b) BY <1>5, CodedRlp
<1> QED BY <1>4, <1>6 DEF Coded, encode_uint_minimal, a, b

\* An RLP integer of up to 256 bits is coded.  (encode_uint_minimal)
LEMMA CodedRlpU256 ==
  ASSUME NEW a \in MinimalU256, NEW b \in MinimalU256
  PROVE  Coded(encode_uint_minimal(a), encode_uint_minimal(b), a, b)
<1>1. a \in Upto(u64) /\ b \in Upto(u64) /\ a \in Bstr /\ b \in Bstr
  <2>1. \A n \in Nat : n <= U256_LEN => n \in u8 BY SMT, PreimagesAssumption DEF u8
  <2>2. \A n \in Nat : n <= U256_LEN => n \in u64 BY <2>1, SMT, Range8
  <2>3. \A x \in Seq(u8) : x \in Bstr /\ Len(x) \in Nat 
    <3>1. u8 \subseteq Nat BY SMT DEF u8
    <3>2. \A x \in Seq(u8) : x \in Seq(Nat)
      <4> HIDE DEF u8
      <4> QED BY <3>1, SeqMonotonic
    <3> QED BY <3>2, BstrProps DEF Bstr
  <2> QED BY <2>2, <2>3 DEF MinimalU256, Upto
<1>2. MinimalOf(a) = a /\ MinimalOf(b) = b BY <1>1, MinimalFixed DEF MinimalU256
<1> QED BY <1>1, <1>2, CodedRlp DEF encode_uint_minimal

\* An ABI word has WORD bytes.
LEMMA Words ==
  ASSUME NEW a \in Bstr, Len(a) <= WORD
  PROVE  Word(a) \in Bstr /\ Len(Word(a)) = WORD
<1> DEFINE n == WORD - Len(a)
           z == Zeros(n)
<1>1. n \in Nat /\ Len(a) \in Nat /\ WORD \in Nat BY PreimagesAssumption, BstrProps
<1>2. z \in Bstr /\ Len(z) = n BY <1>1 DEF Zeros, Bstr
<1>3. Word(a) = z \o a BY DEF Word
<1> HIDE DEF z
<1> QED BY <1>1, <1>2, <1>3, BstrProps

\* A short byte string in an ABI word is coded.
LEMMA CodedWord ==
  ASSUME NEW a \in Bstr, NEW b \in Bstr, Len(a) = Len(b), Len(a) <= WORD
  PROVE  Coded(Word(a), Word(b), a, b)
<1> DEFINE n == WORD - Len(a)
           z == Zeros(n)
<1>1. n \in Nat /\ Len(a) \in Nat /\ WORD \in Nat BY PreimagesAssumption, BstrProps
<1>2. z \in Bstr BY <1>1 DEF Zeros, Bstr
<1>3. Word(a) = z \o a /\ Word(b) = z \o b BY DEF Word
<1>4. Word(a) \in Bstr /\ Word(b) \in Bstr /\ Len(Word(a)) = Len(Word(b)) BY Words
<1> HIDE DEF z
<1>5. Word(a) = Word(b) => a = b BY <1>2, <1>3, CancelLeft
<1> QED BY <1>4, <1>5, SdFixed DEF Coded

\* A u64 in an ABI word is coded.
LEMMA CodedWordU64 == \A v, w \in u64 : Coded(Word(U64(v)), Word(U64(w)), v, w)
<1> SUFFICES ASSUME NEW v \in u64, NEW w \in u64 PROVE Coded(Word(U64(v)), Word(U64(w)), v, w)
  OBVIOUS
<1>1. v \in Nat /\ w \in Nat /\ WORD >= 8 BY SMT, Range8, PreimagesAssumption
<1>2. U64(v) \in Bstr /\ U64(w) \in Bstr /\ Len(U64(v)) = 8 /\ Len(U64(w)) = 8 BY <1>1, U64Props
<1>3. Coded(Word(U64(v)), Word(U64(w)), U64(v), U64(w)) BY <1>1, <1>2, CodedWord
<1> QED BY <1>3, U64Props DEF Coded

\* A dynamic ABI value, its length and then whole words, is coded.
LEMMA CodedDynamic == \A a, b \in Upto(u64) : Coded(Dynamic(a), Dynamic(b), a, b)
<1> SUFFICES ASSUME NEW a \in Upto(u64), NEW b \in Upto(u64)
             PROVE  Coded(Dynamic(a), Dynamic(b), a, b)
  OBVIOUS
<1> DEFINE h == Word(U64(Len(a)))
           k == Word(U64(Len(b)))
           za == Zeros((WORD - (Len(a) % WORD)) % WORD)
           zb == Zeros((WORD - (Len(b) % WORD)) % WORD)
<1>1. /\ a \in Bstr /\ b \in Bstr /\ Len(a) \in u64 /\ Len(b) \in u64 /\ Len(a) \in Nat
      /\ Len(b) \in Nat
  BY BstrProps DEF Upto
<1>2. Coded(h, k, Len(a), Len(b)) BY <1>1, CodedWordU64
<1>3. za \in Bstr /\ zb \in Bstr
  <2>1. \A n \in Nat : (WORD - (n % WORD)) % WORD \in Nat BY SMT, PreimagesAssumption
  <2>2. \A n \in Nat : Zeros(n) \in Bstr BY DEF Zeros, Bstr
  <2> QED BY <1>1, <2>1, <2>2
<1>4. Len(a) = Len(b) => za = zb OBVIOUS
<1>5. Dynamic(a) = h \o (a \o za) /\ Dynamic(b) = k \o (b \o zb) BY DEF Dynamic, Padded
<1> HIDE DEF h, k, za, zb
<1>6. a \o za \in Bstr /\ b \o zb \in Bstr /\ (h = k => Len(a \o za) = Len(b \o zb))
  <2>1. a \o za \in Bstr /\ b \o zb \in Bstr BY <1>1, <1>3, BstrProps
  <2>2. Len(a \o za) = Len(a) + Len(za) /\ Len(b \o zb) = Len(b) + Len(zb) BY <1>1, <1>3, BstrProps
  <2>3. h = k => Len(a) = Len(b) BY <1>2 DEF Coded
  <2>4. h = k => Len(a \o za) = Len(b \o zb) BY <1>4, <2>2, <2>3
  <2> QED BY <2>1, <2>4
<1>10. h \in Bstr /\ k \in Bstr /\ Sd(h, k) BY <1>2 DEF Coded
<1>7. Sd(h \o (a \o za), k \o (b \o zb)) /\ (h \o (a \o za) = k \o (b \o zb) => h = k /\ a \o za = b \o zb)
  <2> DEFINE x == a \o za
             y == b \o zb
  <2>1. x \in Bstr /\ y \in Bstr /\ (h = k => Len(x) = Len(y)) BY <1>6
  <2> HIDE DEF x, y
  <2>2. Sd(h \o x, k \o y) /\ (h \o x = k \o y => h = k /\ x = y) BY <2>1, <1>10, Delimited
  <2> QED BY <2>2 DEF x, y
<1>8. h = k /\ a \o za = b \o zb => a = b BY <1>1, <1>2, <1>3, <1>4, SameLength DEF Coded
<1>9. h \o (a \o za) \in Bstr /\ k \o (b \o zb) \in Bstr BY <1>2, <1>6, BstrProps DEF Coded
<1> QED BY <1>5, <1>7, <1>8, <1>9 DEF Coded
-----------------------------------------------------------------------------
(* Two inputs of one form with the same bytes are the same: headers,       *)
(* proofs and report data                                                  *)

\* An identity proof gives back what it was made from.
LEMMA SameIdentityProof ==
  ASSUME NEW x \in Inputs("identity"), NEW y \in Inputs("identity"),
         identity_proof_preimage(x) = identity_proof_preimage(y)
  PROVE  x = y
<1> DEFINE p == <<<<25, 30>>, Tag(0), U64(x.chain_id), lp8(x.env), x.key_ref, x.key, x.nonce>>
           q == <<<<25, 30>>, Tag(0), U64(y.chain_id), lp8(y.env), y.key_ref, y.key, y.nonce>>
           R == [chain_id : u64, env : Upto(u8), key_ref : Array(DIGEST_LEN), key : Array(KEY_LEN),
                 nonce : Array(DIGEST_LEN)]
<1>1. x \in R /\ y \in R BY DEF Inputs
<1>2. FlattenSeq(p) = FlattenSeq(q) BY DEF identity_proof_preimage
<1>3. /\ x.chain_id \in u64 /\ x.env \in Upto(u8) /\ x.key_ref \in Array(DIGEST_LEN)
      /\ x.key \in Array(KEY_LEN) /\ x.nonce \in Array(DIGEST_LEN)
      /\ y.chain_id \in u64 /\ y.env \in Upto(u8) /\ y.key_ref \in Array(DIGEST_LEN)
      /\ y.key \in Array(KEY_LEN) /\ y.nonce \in Array(DIGEST_LEN)
  BY <1>1
<1>4. /\ DIGEST_LEN \in Nat /\ KEM_LEN \in Nat /\ MEASUREMENT_LEN \in Nat /\ KEY_LEN \in Nat
      /\ WORD \in Nat /\ 20 \in Nat
  BY PreimagesAssumption
<1> HIDE DEF R
<1>5. Coded(<<25, 30>>, <<25, 30>>, 0, 0) BY SMT DEF Coded, Sd, Bstr
<1>6. Coded(Tag(0), Tag(0), 0, 0) BY SMT, CodedTag DEF Coded, Sd
<1>7. Coded(U64(x.chain_id), U64(y.chain_id), x.chain_id, y.chain_id) BY <1>3, CodedU64
<1>8. Coded(lp8(x.env), lp8(y.env), x.env, y.env) BY <1>3, CodedLp
<1>9. Coded(x.key_ref, y.key_ref, x.key_ref, y.key_ref) BY <1>3, <1>4, CodedArray
<1>10. Coded(x.key, y.key, x.key, y.key) BY <1>3, <1>4, CodedArray
<1>11. Coded(x.nonce, y.nonce, x.nonce, y.nonce) BY <1>3, <1>4, CodedArray
<1>12. p \in Seq(Bstr) /\ q \in Seq(Bstr) /\ Len(p) = 7 /\ Len(q) = 7
  BY <1>5, <1>6, <1>7, <1>8, <1>9, <1>10, <1>11 DEF Coded
<1>13. \A i \in 1 .. 6 : Sd(p[i], q[i]) BY <1>5, <1>6, <1>7, <1>8, <1>9, <1>10, <1>11 DEF Coded
<1>14. p = q
  <2>1. Len(p) = Len(q) /\ Len(p) > 0 /\ Len(p) - 1 = 6 BY <1>12
  <2> HIDE DEF p, q
  <2> QED BY <1>2, <1>12, <1>13, <2>1, EachField
<1>15. /\ U64(x.chain_id) = U64(y.chain_id) /\ lp8(x.env) = lp8(y.env) /\ x.key_ref = y.key_ref
       /\ x.key = y.key /\ x.nonce = y.nonce
  BY <1>14
<1>16. /\ x.chain_id = y.chain_id /\ x.env = y.env /\ x.key_ref = y.key_ref /\ x.key = y.key
       /\ x.nonce = y.nonce
  BY <1>5, <1>6, <1>7, <1>8, <1>9, <1>10, <1>11, <1>15 DEF Coded
<1> QED BY <1>1, <1>16 DEF R

\* The chain proof.
LEMMA SameChainProof ==
  ASSUME NEW x \in Inputs("chain_proof"), NEW y \in Inputs("chain_proof"),
         recent_chain_proof_signing_preimage(x) = recent_chain_proof_signing_preimage(y)
  PROVE  x = y
<1> DEFINE p == <<Tag(2), U64(x.height), x.header, U64(x.activated), x.ticket, x.tail,
                  lp32(x.pubkey), lp32(x.measurement)>>
           q == <<Tag(2), U64(y.height), y.header, U64(y.activated), y.ticket, y.tail,
                  lp32(y.pubkey), lp32(y.measurement)>>
           R == [height : u64, header : Array(DIGEST_LEN), activated : u64,
                 ticket : Array(DIGEST_LEN), tail : Array(DIGEST_LEN), pubkey : Upto(u32),
                 measurement : Upto(u32)]
<1>1. x \in R /\ y \in R BY DEF Inputs
<1>2. FlattenSeq(p) = FlattenSeq(q) BY DEF recent_chain_proof_signing_preimage
<1>3. /\ x.height \in u64 /\ x.header \in Array(DIGEST_LEN) /\ x.activated \in u64
      /\ x.ticket \in Array(DIGEST_LEN) /\ x.tail \in Array(DIGEST_LEN) /\ x.pubkey \in Upto(u32)
      /\ x.measurement \in Upto(u32)
      /\ y.height \in u64 /\ y.header \in Array(DIGEST_LEN) /\ y.activated \in u64
      /\ y.ticket \in Array(DIGEST_LEN) /\ y.tail \in Array(DIGEST_LEN) /\ y.pubkey \in Upto(u32)
      /\ y.measurement \in Upto(u32)
  BY <1>1
<1>4. /\ DIGEST_LEN \in Nat /\ KEM_LEN \in Nat /\ MEASUREMENT_LEN \in Nat /\ KEY_LEN \in Nat
      /\ WORD \in Nat /\ 20 \in Nat
  BY PreimagesAssumption
<1> HIDE DEF R
<1>5. Coded(Tag(2), Tag(2), 0, 0) BY SMT, CodedTag DEF Coded, Sd
<1>6. Coded(U64(x.height), U64(y.height), x.height, y.height) BY <1>3, CodedU64
<1>7. Coded(x.header, y.header, x.header, y.header) BY <1>3, <1>4, CodedArray
<1>8. Coded(U64(x.activated), U64(y.activated), x.activated, y.activated) BY <1>3, CodedU64
<1>9. Coded(x.ticket, y.ticket, x.ticket, y.ticket) BY <1>3, <1>4, CodedArray
<1>10. Coded(x.tail, y.tail, x.tail, y.tail) BY <1>3, <1>4, CodedArray
<1>11. Coded(lp32(x.pubkey), lp32(y.pubkey), x.pubkey, y.pubkey) BY <1>3, CodedLp
<1>12. Coded(lp32(x.measurement), lp32(y.measurement), x.measurement, y.measurement)
  BY <1>3, CodedLp
<1>13. p \in Seq(Bstr) /\ q \in Seq(Bstr) /\ Len(p) = 8 /\ Len(q) = 8
  BY <1>5, <1>6, <1>7, <1>8, <1>9, <1>10, <1>11, <1>12 DEF Coded
<1>14. \A i \in 1 .. 7 : Sd(p[i], q[i])
  BY <1>5, <1>6, <1>7, <1>8, <1>9, <1>10, <1>11, <1>12 DEF Coded
<1>15. p = q
  <2>1. Len(p) = Len(q) /\ Len(p) > 0 /\ Len(p) - 1 = 7 BY <1>13
  <2> HIDE DEF p, q
  <2> QED BY <1>2, <1>13, <1>14, <2>1, EachField
<1>16. /\ U64(x.height) = U64(y.height) /\ x.header = y.header
       /\ U64(x.activated) = U64(y.activated) /\ x.ticket = y.ticket /\ x.tail = y.tail
       /\ lp32(x.pubkey) = lp32(y.pubkey) /\ lp32(x.measurement) = lp32(y.measurement)
  BY <1>15
<1>17. /\ x.height = y.height /\ x.header = y.header /\ x.activated = y.activated
       /\ x.ticket = y.ticket /\ x.tail = y.tail /\ x.pubkey = y.pubkey
       /\ x.measurement = y.measurement
  BY <1>5, <1>6, <1>7, <1>8, <1>9, <1>10, <1>11, <1>12, <1>16 DEF Coded
<1> QED BY <1>1, <1>17 DEF R

\* The header of a backup.
LEMMA SameBackup ==
  ASSUME NEW x \in Inputs("backup"), NEW y \in Inputs("backup"), build_header(x) = build_header(y)
  PROVE  x = y
<1> DEFINE p == <<Tag(3), <<0, 1>>, lp16(x.recovery_key_id), U64(x.chain_id), lp16(x.env),
                  x.kem_ct, lp32(x.manifest), Zeros(KEM_LEN)>>
           q == <<Tag(3), <<0, 1>>, lp16(y.recovery_key_id), U64(y.chain_id), lp16(y.env),
                  y.kem_ct, lp32(y.manifest), Zeros(KEM_LEN)>>
           R == [recovery_key_id : Upto(u16), chain_id : u64, env : Upto(u16),
                 kem_ct : Array(KEM_LEN), manifest : Upto(u32)]
<1>1. x \in R /\ y \in R BY DEF Inputs
<1>2. FlattenSeq(p) = FlattenSeq(q) BY DEF build_header
<1>3. /\ x.recovery_key_id \in Upto(u16) /\ x.chain_id \in u64 /\ x.env \in Upto(u16)
      /\ x.kem_ct \in Array(KEM_LEN) /\ x.manifest \in Upto(u32)
      /\ y.recovery_key_id \in Upto(u16) /\ y.chain_id \in u64 /\ y.env \in Upto(u16)
      /\ y.kem_ct \in Array(KEM_LEN) /\ y.manifest \in Upto(u32)
  BY <1>1
<1>4. /\ DIGEST_LEN \in Nat /\ KEM_LEN \in Nat /\ MEASUREMENT_LEN \in Nat /\ KEY_LEN \in Nat
      /\ WORD \in Nat /\ 20 \in Nat
  BY PreimagesAssumption
<1> HIDE DEF R
<1>5. Coded(Tag(3), Tag(3), 0, 0) BY SMT, CodedTag DEF Coded, Sd
<1>6. Coded(<<0, 1>>, <<0, 1>>, 0, 0) BY SMT DEF Coded, Sd, Bstr
<1>7. Coded(lp16(x.recovery_key_id), lp16(y.recovery_key_id), x.recovery_key_id, y.recovery_key_id)
  BY <1>3, CodedLp
<1>8. Coded(U64(x.chain_id), U64(y.chain_id), x.chain_id, y.chain_id) BY <1>3, CodedU64
<1>9. Coded(lp16(x.env), lp16(y.env), x.env, y.env) BY <1>3, CodedLp
<1>10. Coded(x.kem_ct, y.kem_ct, x.kem_ct, y.kem_ct) BY <1>3, <1>4, CodedArray
<1>11. Coded(lp32(x.manifest), lp32(y.manifest), x.manifest, y.manifest) BY <1>3, CodedLp
<1>12. Coded(Zeros(KEM_LEN), Zeros(KEM_LEN), 0, 0) BY <1>4 DEF Coded, Sd, Zeros, Bstr
<1>13. p \in Seq(Bstr) /\ q \in Seq(Bstr) /\ Len(p) = 8 /\ Len(q) = 8
  BY <1>5, <1>6, <1>7, <1>8, <1>9, <1>10, <1>11, <1>12 DEF Coded
<1>14. \A i \in 1 .. 7 : Sd(p[i], q[i])
  BY <1>5, <1>6, <1>7, <1>8, <1>9, <1>10, <1>11, <1>12 DEF Coded
<1>15. p = q
  <2>1. Len(p) = Len(q) /\ Len(p) > 0 /\ Len(p) - 1 = 7 BY <1>13
  <2> HIDE DEF p, q
  <2> QED BY <1>2, <1>13, <1>14, <2>1, EachField
<1>16. /\ lp16(x.recovery_key_id) = lp16(y.recovery_key_id) /\ U64(x.chain_id) = U64(y.chain_id)
       /\ lp16(x.env) = lp16(y.env) /\ x.kem_ct = y.kem_ct /\ lp32(x.manifest) = lp32(y.manifest)
  BY <1>15
<1>17. /\ x.recovery_key_id = y.recovery_key_id /\ x.chain_id = y.chain_id /\ x.env = y.env
       /\ x.kem_ct = y.kem_ct /\ x.manifest = y.manifest
  BY <1>5, <1>6, <1>7, <1>8, <1>9, <1>10, <1>11, <1>12, <1>16 DEF Coded
<1> QED BY <1>1, <1>17 DEF R

\* The header of a restore container.
LEMMA SameIngress ==
  ASSUME NEW x \in Inputs("ingress"), NEW y \in Inputs("ingress"),
         build_ingress_header(x) = build_ingress_header(y)
  PROVE  x = y
<1> DEFINE p == <<Tag(4), <<0, 1>>, lp16(x.measurement), U64(x.chain_id), lp16(x.env),
                  x.manifest_hash, x.backup_digest, x.kem_ct, Zeros(KEM_LEN)>>
           q == <<Tag(4), <<0, 1>>, lp16(y.measurement), U64(y.chain_id), lp16(y.env),
                  y.manifest_hash, y.backup_digest, y.kem_ct, Zeros(KEM_LEN)>>
           R == [measurement : Upto(u16), chain_id : u64, env : Upto(u16),
                 manifest_hash : Array(DIGEST_LEN), backup_digest : Array(DIGEST_LEN),
                 kem_ct : Array(KEM_LEN)]
<1>1. x \in R /\ y \in R BY DEF Inputs
<1>2. FlattenSeq(p) = FlattenSeq(q) BY DEF build_ingress_header
<1>3. /\ x.measurement \in Upto(u16) /\ x.chain_id \in u64 /\ x.env \in Upto(u16)
      /\ x.manifest_hash \in Array(DIGEST_LEN) /\ x.backup_digest \in Array(DIGEST_LEN)
      /\ x.kem_ct \in Array(KEM_LEN)
      /\ y.measurement \in Upto(u16) /\ y.chain_id \in u64 /\ y.env \in Upto(u16)
      /\ y.manifest_hash \in Array(DIGEST_LEN) /\ y.backup_digest \in Array(DIGEST_LEN)
      /\ y.kem_ct \in Array(KEM_LEN)
  BY <1>1
<1>4. /\ DIGEST_LEN \in Nat /\ KEM_LEN \in Nat /\ MEASUREMENT_LEN \in Nat /\ KEY_LEN \in Nat
      /\ WORD \in Nat /\ 20 \in Nat
  BY PreimagesAssumption
<1> HIDE DEF R
<1>5. Coded(Tag(4), Tag(4), 0, 0) BY SMT, CodedTag DEF Coded, Sd
<1>6. Coded(<<0, 1>>, <<0, 1>>, 0, 0) BY SMT DEF Coded, Sd, Bstr
<1>7. Coded(lp16(x.measurement), lp16(y.measurement), x.measurement, y.measurement) BY <1>3, CodedLp
<1>8. Coded(U64(x.chain_id), U64(y.chain_id), x.chain_id, y.chain_id) BY <1>3, CodedU64
<1>9. Coded(lp16(x.env), lp16(y.env), x.env, y.env) BY <1>3, CodedLp
<1>10. Coded(x.manifest_hash, y.manifest_hash, x.manifest_hash, y.manifest_hash)
  BY <1>3, <1>4, CodedArray
<1>11. Coded(x.backup_digest, y.backup_digest, x.backup_digest, y.backup_digest)
  BY <1>3, <1>4, CodedArray
<1>12. Coded(x.kem_ct, y.kem_ct, x.kem_ct, y.kem_ct) BY <1>3, <1>4, CodedArray
<1>13. Coded(Zeros(KEM_LEN), Zeros(KEM_LEN), 0, 0) BY <1>4 DEF Coded, Sd, Zeros, Bstr
<1>14. p \in Seq(Bstr) /\ q \in Seq(Bstr) /\ Len(p) = 9 /\ Len(q) = 9
  BY <1>5, <1>6, <1>7, <1>8, <1>9, <1>10, <1>11, <1>12, <1>13 DEF Coded
<1>15. \A i \in 1 .. 8 : Sd(p[i], q[i])
  BY <1>5, <1>6, <1>7, <1>8, <1>9, <1>10, <1>11, <1>12, <1>13 DEF Coded
<1>16. p = q
  <2>1. Len(p) = Len(q) /\ Len(p) > 0 /\ Len(p) - 1 = 8 BY <1>14
  <2> HIDE DEF p, q
  <2> QED BY <1>2, <1>14, <1>15, <2>1, EachField
<1>17. /\ lp16(x.measurement) = lp16(y.measurement) /\ U64(x.chain_id) = U64(y.chain_id)
       /\ lp16(x.env) = lp16(y.env) /\ x.manifest_hash = y.manifest_hash
       /\ x.backup_digest = y.backup_digest /\ x.kem_ct = y.kem_ct
  BY <1>16
<1>18. /\ x.measurement = y.measurement /\ x.chain_id = y.chain_id /\ x.env = y.env
       /\ x.manifest_hash = y.manifest_hash /\ x.backup_digest = y.backup_digest
       /\ x.kem_ct = y.kem_ct
  BY <1>5, <1>6, <1>7, <1>8, <1>9, <1>10, <1>11, <1>12, <1>13, <1>17 DEF Coded
<1> QED BY <1>1, <1>18 DEF R

\* The high-water of a restore.
LEMMA SameHighWater ==
  ASSUME NEW x \in Inputs("high_water"), NEW y \in Inputs("high_water"),
         recovery_high_water_preimage(x) = recovery_high_water_preimage(y)
  PROVE  x = y
<1> DEFINE p == <<Tag(5), U64(x.chain_id), lp16(x.env), lp16(x.request_id), lp32(x.marks)>>
           q == <<Tag(5), U64(y.chain_id), lp16(y.env), lp16(y.request_id), lp32(y.marks)>>
           R == [chain_id : u64, env : Upto(u16), request_id : Upto(u16), marks : Upto(u32)]
<1>1. x \in R /\ y \in R BY DEF Inputs
<1>2. FlattenSeq(p) = FlattenSeq(q) BY DEF recovery_high_water_preimage
<1>3. /\ x.chain_id \in u64 /\ x.env \in Upto(u16) /\ x.request_id \in Upto(u16)
      /\ x.marks \in Upto(u32)
      /\ y.chain_id \in u64 /\ y.env \in Upto(u16) /\ y.request_id \in Upto(u16)
      /\ y.marks \in Upto(u32)
  BY <1>1
<1>4. /\ DIGEST_LEN \in Nat /\ KEM_LEN \in Nat /\ MEASUREMENT_LEN \in Nat /\ KEY_LEN \in Nat
      /\ WORD \in Nat /\ 20 \in Nat
  BY PreimagesAssumption
<1> HIDE DEF R
<1>5. Coded(Tag(5), Tag(5), 0, 0) BY SMT, CodedTag DEF Coded, Sd
<1>6. Coded(U64(x.chain_id), U64(y.chain_id), x.chain_id, y.chain_id) BY <1>3, CodedU64
<1>7. Coded(lp16(x.env), lp16(y.env), x.env, y.env) BY <1>3, CodedLp
<1>8. Coded(lp16(x.request_id), lp16(y.request_id), x.request_id, y.request_id) BY <1>3, CodedLp
<1>9. Coded(lp32(x.marks), lp32(y.marks), x.marks, y.marks) BY <1>3, CodedLp
<1>10. p \in Seq(Bstr) /\ q \in Seq(Bstr) /\ Len(p) = 5 /\ Len(q) = 5
  BY <1>5, <1>6, <1>7, <1>8, <1>9 DEF Coded
<1>11. \A i \in 1 .. 4 : Sd(p[i], q[i]) BY <1>5, <1>6, <1>7, <1>8, <1>9 DEF Coded
<1>12. p = q
  <2>1. Len(p) = Len(q) /\ Len(p) > 0 /\ Len(p) - 1 = 4 BY <1>10
  <2> HIDE DEF p, q
  <2> QED BY <1>2, <1>10, <1>11, <2>1, EachField
<1>13. /\ U64(x.chain_id) = U64(y.chain_id) /\ lp16(x.env) = lp16(y.env)
       /\ lp16(x.request_id) = lp16(y.request_id) /\ lp32(x.marks) = lp32(y.marks)
  BY <1>12
<1>14. x.chain_id = y.chain_id /\ x.env = y.env /\ x.request_id = y.request_id /\ x.marks = y.marks
  BY <1>5, <1>6, <1>7, <1>8, <1>9, <1>13 DEF Coded
<1> QED BY <1>1, <1>14 DEF R

\* The report data of a restore.
LEMMA SameEphemeral ==
  ASSUME NEW x \in Inputs("ephemeral"), NEW y \in Inputs("ephemeral"),
         report_data_for_restore_ephemeral(x) = report_data_for_restore_ephemeral(y)
  PROVE  x = y
<1> DEFINE p == <<Tag(6), x.encaps_key, x.measurement, U64(x.chain_id), lp64(x.env)>>
           q == <<Tag(6), y.encaps_key, y.measurement, U64(y.chain_id), lp64(y.env)>>
           R == [encaps_key : Array(KEM_LEN), measurement : Array(MEASUREMENT_LEN), chain_id : u64,
                 env : Upto(u64)]
<1>1. x \in R /\ y \in R BY DEF Inputs
<1>2. FlattenSeq(p) = FlattenSeq(q) BY DEF report_data_for_restore_ephemeral
<1>3. /\ x.encaps_key \in Array(KEM_LEN) /\ x.measurement \in Array(MEASUREMENT_LEN)
      /\ x.chain_id \in u64 /\ x.env \in Upto(u64)
      /\ y.encaps_key \in Array(KEM_LEN) /\ y.measurement \in Array(MEASUREMENT_LEN)
      /\ y.chain_id \in u64 /\ y.env \in Upto(u64)
  BY <1>1
<1>4. /\ DIGEST_LEN \in Nat /\ KEM_LEN \in Nat /\ MEASUREMENT_LEN \in Nat /\ KEY_LEN \in Nat
      /\ WORD \in Nat /\ 20 \in Nat
  BY PreimagesAssumption
<1> HIDE DEF R
<1>5. Coded(Tag(6), Tag(6), 0, 0) BY SMT, CodedTag DEF Coded, Sd
<1>6. Coded(x.encaps_key, y.encaps_key, x.encaps_key, y.encaps_key) BY <1>3, <1>4, CodedArray
<1>7. Coded(x.measurement, y.measurement, x.measurement, y.measurement) BY <1>3, <1>4, CodedArray
<1>8. Coded(U64(x.chain_id), U64(y.chain_id), x.chain_id, y.chain_id) BY <1>3, CodedU64
<1>9. Coded(lp64(x.env), lp64(y.env), x.env, y.env) BY <1>3, CodedLp
<1>10. p \in Seq(Bstr) /\ q \in Seq(Bstr) /\ Len(p) = 5 /\ Len(q) = 5
  BY <1>5, <1>6, <1>7, <1>8, <1>9 DEF Coded
<1>11. \A i \in 1 .. 4 : Sd(p[i], q[i]) BY <1>5, <1>6, <1>7, <1>8, <1>9 DEF Coded
<1>12. p = q
  <2>1. Len(p) = Len(q) /\ Len(p) > 0 /\ Len(p) - 1 = 4 BY <1>10
  <2> HIDE DEF p, q
  <2> QED BY <1>2, <1>10, <1>11, <2>1, EachField
<1>13. /\ x.encaps_key = y.encaps_key /\ x.measurement = y.measurement
       /\ U64(x.chain_id) = U64(y.chain_id) /\ lp64(x.env) = lp64(y.env)
  BY <1>12
<1>14. /\ x.encaps_key = y.encaps_key /\ x.measurement = y.measurement /\ x.chain_id = y.chain_id
       /\ x.env = y.env
  BY <1>5, <1>6, <1>7, <1>8, <1>9, <1>13 DEF Coded
<1> QED BY <1>1, <1>14 DEF R

\* The report data of a completed restore.
LEMMA SameCompletion ==
  ASSUME NEW x \in Inputs("completion"), NEW y \in Inputs("completion"),
         report_data_for_restore_completion(x) = report_data_for_restore_completion(y)
  PROVE  x = y
<1> DEFINE p == <<Tag(7), U64(x.chain_id), lp64(x.env), lp64(x.request_id), x.identity_set_hash,
                  x.sealed_blob_hash>>
           q == <<Tag(7), U64(y.chain_id), lp64(y.env), lp64(y.request_id), y.identity_set_hash,
                  y.sealed_blob_hash>>
           R == [chain_id : u64, env : Upto(u64), request_id : Upto(u64),
                 identity_set_hash : Array(DIGEST_LEN), sealed_blob_hash : Array(DIGEST_LEN)]
<1>1. x \in R /\ y \in R BY DEF Inputs
<1>2. FlattenSeq(p) = FlattenSeq(q) BY DEF report_data_for_restore_completion
<1>3. /\ x.chain_id \in u64 /\ x.env \in Upto(u64) /\ x.request_id \in Upto(u64)
      /\ x.identity_set_hash \in Array(DIGEST_LEN) /\ x.sealed_blob_hash \in Array(DIGEST_LEN)
      /\ y.chain_id \in u64 /\ y.env \in Upto(u64) /\ y.request_id \in Upto(u64)
      /\ y.identity_set_hash \in Array(DIGEST_LEN) /\ y.sealed_blob_hash \in Array(DIGEST_LEN)
  BY <1>1
<1>4. /\ DIGEST_LEN \in Nat /\ KEM_LEN \in Nat /\ MEASUREMENT_LEN \in Nat /\ KEY_LEN \in Nat
      /\ WORD \in Nat /\ 20 \in Nat
  BY PreimagesAssumption
<1> HIDE DEF R
<1>5. Coded(Tag(7), Tag(7), 0, 0) BY SMT, CodedTag DEF Coded, Sd
<1>6. Coded(U64(x.chain_id), U64(y.chain_id), x.chain_id, y.chain_id) BY <1>3, CodedU64
<1>7. Coded(lp64(x.env), lp64(y.env), x.env, y.env) BY <1>3, CodedLp
<1>8. Coded(lp64(x.request_id), lp64(y.request_id), x.request_id, y.request_id) BY <1>3, CodedLp
<1>9. Coded(x.identity_set_hash, y.identity_set_hash, x.identity_set_hash, y.identity_set_hash)
  BY <1>3, <1>4, CodedArray
<1>10. Coded(x.sealed_blob_hash, y.sealed_blob_hash, x.sealed_blob_hash, y.sealed_blob_hash)
  BY <1>3, <1>4, CodedArray
<1>11. p \in Seq(Bstr) /\ q \in Seq(Bstr) /\ Len(p) = 6 /\ Len(q) = 6
  BY <1>5, <1>6, <1>7, <1>8, <1>9, <1>10 DEF Coded
<1>12. \A i \in 1 .. 5 : Sd(p[i], q[i]) BY <1>5, <1>6, <1>7, <1>8, <1>9, <1>10 DEF Coded
<1>13. p = q
  <2>1. Len(p) = Len(q) /\ Len(p) > 0 /\ Len(p) - 1 = 5 BY <1>11
  <2> HIDE DEF p, q
  <2> QED BY <1>2, <1>11, <1>12, <2>1, EachField
<1>14. /\ U64(x.chain_id) = U64(y.chain_id) /\ lp64(x.env) = lp64(y.env)
       /\ lp64(x.request_id) = lp64(y.request_id) /\ x.identity_set_hash = y.identity_set_hash
       /\ x.sealed_blob_hash = y.sealed_blob_hash
  BY <1>13
<1>15. /\ x.chain_id = y.chain_id /\ x.env = y.env /\ x.request_id = y.request_id
       /\ x.identity_set_hash = y.identity_set_hash /\ x.sealed_blob_hash = y.sealed_blob_hash
  BY <1>5, <1>6, <1>7, <1>8, <1>9, <1>10, <1>14 DEF Coded
<1> QED BY <1>1, <1>15 DEF R

\* The report data of an anchor handshake.
LEMMA SameHandshake ==
  ASSUME NEW x \in Inputs("handshake"), NEW y \in Inputs("handshake"),
         anchor_handshake_report_data(x) = anchor_handshake_report_data(y)
  PROVE  x = y
<1> DEFINE p == <<Tag(8), U64(x.chain_id), lp32(x.env), x.nonce>>
           q == <<Tag(8), U64(y.chain_id), lp32(y.env), y.nonce>>
           R == [chain_id : u64, env : Upto(u32), nonce : Array(DIGEST_LEN)]
<1>1. x \in R /\ y \in R BY DEF Inputs
<1>2. FlattenSeq(p) = FlattenSeq(q) BY DEF anchor_handshake_report_data
<1>3. /\ x.chain_id \in u64 /\ x.env \in Upto(u32) /\ x.nonce \in Array(DIGEST_LEN)
      /\ y.chain_id \in u64 /\ y.env \in Upto(u32) /\ y.nonce \in Array(DIGEST_LEN)
  BY <1>1
<1>4. /\ DIGEST_LEN \in Nat /\ KEM_LEN \in Nat /\ MEASUREMENT_LEN \in Nat /\ KEY_LEN \in Nat
      /\ WORD \in Nat /\ 20 \in Nat
  BY PreimagesAssumption
<1> HIDE DEF R
<1>5. Coded(Tag(8), Tag(8), 0, 0) BY SMT, CodedTag DEF Coded, Sd
<1>6. Coded(U64(x.chain_id), U64(y.chain_id), x.chain_id, y.chain_id) BY <1>3, CodedU64
<1>7. Coded(lp32(x.env), lp32(y.env), x.env, y.env) BY <1>3, CodedLp
<1>8. Coded(x.nonce, y.nonce, x.nonce, y.nonce) BY <1>3, <1>4, CodedArray
<1>9. p \in Seq(Bstr) /\ q \in Seq(Bstr) /\ Len(p) = 4 /\ Len(q) = 4
  BY <1>5, <1>6, <1>7, <1>8 DEF Coded
<1>10. \A i \in 1 .. 3 : Sd(p[i], q[i]) BY <1>5, <1>6, <1>7, <1>8 DEF Coded
<1>11. p = q
  <2>1. Len(p) = Len(q) /\ Len(p) > 0 /\ Len(p) - 1 = 3 BY <1>9
  <2> HIDE DEF p, q
  <2> QED BY <1>2, <1>9, <1>10, <2>1, EachField
<1>12. U64(x.chain_id) = U64(y.chain_id) /\ lp32(x.env) = lp32(y.env) /\ x.nonce = y.nonce
  BY <1>11
<1>13. x.chain_id = y.chain_id /\ x.env = y.env /\ x.nonce = y.nonce
  BY <1>5, <1>6, <1>7, <1>8, <1>12 DEF Coded
<1> QED BY <1>1, <1>13 DEF R
-----------------------------------------------------------------------------
(* The same for transfers, sealing keys and tickets *)

\* The RLP of a transfer.
LEMMA SameTransfer ==
  ASSUME NEW x \in Inputs("transfer"), NEW y \in Inputs("transfer"),
         unsigned_preimage(x) = unsigned_preimage(y)
  PROVE  x = y
<1> DEFINE p == <<encode_uint_minimal(U64(x.nonce)), encode_uint_minimal(x.gas_price),
                  encode_uint_minimal(U64(x.gas_limit)), encode_bytes(x.to),
                  encode_uint_minimal(x.value), encode_bytes(<< >>),
                  encode_uint_minimal(U64(x.chain_id)), encode_uint_minimal(<< >>),
                  encode_uint_minimal(<< >>)>>
           q == <<encode_uint_minimal(U64(y.nonce)), encode_uint_minimal(y.gas_price),
                  encode_uint_minimal(U64(y.gas_limit)), encode_bytes(y.to),
                  encode_uint_minimal(y.value), encode_bytes(<< >>),
                  encode_uint_minimal(U64(y.chain_id)), encode_uint_minimal(<< >>),
                  encode_uint_minimal(<< >>)>>
           R == [nonce : u64, gas_price : MinimalU256, gas_limit : u64, to : Array(20),
                 value : MinimalU256, chain_id : u64]
<1>0. /\ encode_bytes(<< >>) \in Bstr /\ encode_uint_minimal(<< >>) \in Bstr
      /\ \A n \in {20} : Array(n) \subseteq Upto(u64)
  <2>1. 0 \in u8 /\ 20 \in u8 BY SMT DEF u8
  <2>2. 0 \in u64 /\ 20 \in u64 BY <2>1, SMT, Range8
  <2>3. << >> \in Bstr /\ Len(<< >>) = 0 BY BstrProps
  <2>4. << >> \in Upto(u64) BY <2>2, <2>3 DEF Upto
  <2>5. encode_bytes(<< >>) \in Bstr BY <2>4, EncodeBytes
  <2>6. MinimalOf(<< >>) = << >> BY <2>3, MinimalFixed
  <2>7. \A a \in Array(20) : a \in Bstr /\ Len(a) = 20 BY Arrays
  <2> QED BY <2>2, <2>5, <2>6, <2>7 DEF encode_uint_minimal, Upto
<1>1. x \in R /\ y \in R BY DEF Inputs
<1>3. /\ x.nonce \in u64 /\ x.gas_price \in MinimalU256 /\ x.gas_limit \in u64
      /\ x.to \in Array(20) /\ x.value \in MinimalU256 /\ x.chain_id \in u64
      /\ y.nonce \in u64 /\ y.gas_price \in MinimalU256 /\ y.gas_limit \in u64
      /\ y.to \in Array(20) /\ y.value \in MinimalU256 /\ y.chain_id \in u64
  BY <1>1
<1>4. /\ DIGEST_LEN \in Nat /\ KEM_LEN \in Nat /\ MEASUREMENT_LEN \in Nat /\ KEY_LEN \in Nat
      /\ WORD \in Nat /\ 20 \in Nat
  BY PreimagesAssumption
<1> HIDE DEF R
<1>5. Coded(encode_uint_minimal(U64(x.nonce)), encode_uint_minimal(U64(y.nonce)), x.nonce, y.nonce)
  BY <1>3, CodedRlpInteger
<1>6. Coded(encode_uint_minimal(x.gas_price), encode_uint_minimal(y.gas_price), x.gas_price, y.gas_price)
  BY <1>3, CodedRlpU256
<1>7. Coded(encode_uint_minimal(U64(x.gas_limit)), encode_uint_minimal(U64(y.gas_limit)), x.gas_limit, y.gas_limit)
  BY <1>3, CodedRlpInteger
<1>8. Coded(encode_bytes(x.to), encode_bytes(y.to), x.to, y.to) BY <1>3, <1>0, CodedRlp
<1>9. Coded(encode_uint_minimal(x.value), encode_uint_minimal(y.value), x.value, y.value)
  BY <1>3, CodedRlpU256
<1>10. Coded(encode_bytes(<< >>), encode_bytes(<< >>), 0, 0) BY <1>0 DEF Coded, Sd
<1>11. Coded(encode_uint_minimal(U64(x.chain_id)), encode_uint_minimal(U64(y.chain_id)), x.chain_id, y.chain_id)
  BY <1>3, CodedRlpInteger
<1>12. Coded(encode_uint_minimal(<< >>), encode_uint_minimal(<< >>), 0, 0) BY <1>0 DEF Coded, Sd
<1>13. Coded(encode_uint_minimal(<< >>), encode_uint_minimal(<< >>), 0, 0) BY <1>0 DEF Coded, Sd
<1>14. p \in Seq(Bstr) /\ q \in Seq(Bstr) /\ Len(p) = 9 /\ Len(q) = 9
  BY <1>5, <1>6, <1>7, <1>8, <1>9, <1>10, <1>11, <1>12, <1>13 DEF Coded
<1>2. FlattenSeq(p) = FlattenSeq(q)
  <2>1. encode_list(p) = encode_list(q) BY DEF unsigned_preimage
  <2> HIDE DEF p, q
  <2> QED BY <1>14, <2>1, EncodeList
<1>15. \A i \in 1 .. 8 : Sd(p[i], q[i])
  BY <1>5, <1>6, <1>7, <1>8, <1>9, <1>10, <1>11, <1>12, <1>13 DEF Coded
<1>16. p = q
  <2>1. Len(p) = Len(q) /\ Len(p) > 0 /\ Len(p) - 1 = 8 BY <1>14
  <2> HIDE DEF p, q
  <2> QED BY <1>2, <1>14, <1>15, <2>1, EachField
<1>17. /\ encode_uint_minimal(U64(x.nonce)) = encode_uint_minimal(U64(y.nonce))
       /\ encode_uint_minimal(x.gas_price) = encode_uint_minimal(y.gas_price)
       /\ encode_uint_minimal(U64(x.gas_limit)) = encode_uint_minimal(U64(y.gas_limit))
       /\ encode_bytes(x.to) = encode_bytes(y.to)
       /\ encode_uint_minimal(x.value) = encode_uint_minimal(y.value)
       /\ encode_uint_minimal(U64(x.chain_id)) = encode_uint_minimal(U64(y.chain_id))
  BY <1>16
<1>18. /\ x.nonce = y.nonce /\ x.gas_price = y.gas_price /\ x.gas_limit = y.gas_limit
       /\ x.to = y.to /\ x.value = y.value /\ x.chain_id = y.chain_id
  BY <1>5, <1>6, <1>7, <1>8, <1>9, <1>10, <1>11, <1>12, <1>13, <1>17 DEF Coded
<1> QED BY <1>1, <1>18 DEF R

\* What a keystore's sealing key is derived from determines the root and the measurement.
\* (derive_aead_key)
LEMMA SameKeystoreKey ==
  ASSUME NEW a \in Array(DIGEST_LEN), NEW b \in Array(DIGEST_LEN),
         NEW c \in Array(DIGEST_LEN), NEW d \in Array(DIGEST_LEN), KeystoreKey(a, b) = KeystoreKey(c, d)
  PROVE  a = c /\ b = d
<1> DEFINE p == <<Tag(11), a, b>>
           q == <<Tag(11), c, d>>
<1>1. Coded(Tag(11), Tag(11), 0, 0) BY SMT, CodedTag DEF Coded, Sd
<1>6. Coded(a, c, a, c) /\ Coded(b, d, b, d) BY CodedArray, PreimagesAssumption
<1>2. p \in Seq(Bstr) /\ q \in Seq(Bstr) /\ Len(p) = 3 /\ Len(q) = 3 BY <1>1, <1>6 DEF Coded
<1>3. \A i \in 1 .. 2 : Sd(p[i], q[i]) BY <1>1, <1>6 DEF Coded
<1>4. FlattenSeq(p) = FlattenSeq(q) BY DEF KeystoreKey
<1>5. p = q
  <2>1. Len(p) = Len(q) /\ Len(p) > 0 /\ Len(p) - 1 = 2 BY <1>2
  <2> HIDE DEF p, q
  <2> QED BY <1>2, <1>3, <1>4, <2>1, EachField
<1> QED BY <1>5

\* The same for the key of the producer's sealed signer.
LEMMA SameProducerKey ==
  ASSUME NEW a \in Array(DIGEST_LEN), NEW b \in Array(DIGEST_LEN),
         NEW c \in Array(DIGEST_LEN), NEW d \in Array(DIGEST_LEN), ProducerKey(a, b) = ProducerKey(c, d)
  PROVE  a = c /\ b = d
<1> DEFINE p == <<Tag(13), a, b>>
           q == <<Tag(13), c, d>>
<1>1. Coded(Tag(13), Tag(13), 0, 0) BY SMT, CodedTag DEF Coded, Sd
<1>6. Coded(a, c, a, c) /\ Coded(b, d, b, d) BY CodedArray, PreimagesAssumption
<1>2. p \in Seq(Bstr) /\ q \in Seq(Bstr) /\ Len(p) = 3 /\ Len(q) = 3 BY <1>1, <1>6 DEF Coded
<1>3. \A i \in 1 .. 2 : Sd(p[i], q[i]) BY <1>1, <1>6 DEF Coded
<1>4. FlattenSeq(p) = FlattenSeq(q) BY DEF ProducerKey
<1>5. p = q
  <2>1. Len(p) = Len(q) /\ Len(p) > 0 /\ Len(p) - 1 = 2 BY <1>2
  <2> HIDE DEF p, q
  <2> QED BY <1>2, <1>3, <1>4, <2>1, EachField
<1> QED BY <1>5

\* A ticket: what its version says is there is written, and nothing else is.
LEMMA SameTicket ==
  ASSUME NEW x \in Tickets, NEW y \in Tickets, TicketPreimage(x) = TicketPreimage(y)
  PROVE  x = y
<1> DEFINE R == [type : u8, nonce : u64, context : Array(WORD), height : u64,
                 measurement : Upto(u64), pubkey : Upto(u64), fork : AtMostOne(Array(WORD)),
                 version : AtMostOne(u32)]
           fork(t) == IF t.type = 0 \/ t.fork = << >> THEN Zeros(WORD) ELSE t.fork[1]
           ver(t) == IF t.type = 0 \/ t.version = << >> THEN 0 ELSE t.version[1]
           at(t) == Word(U64(8 * WORD + Len(Dynamic(t.measurement))))
           p == <<Word(<<x.type>>), Word(U64(x.nonce)), x.context, Word(U64(x.height)),
                  Word(U64(8 * WORD)), at(x), fork(x), Word(U64(ver(x))),
                  Dynamic(x.measurement), Dynamic(x.pubkey)>>
           q == <<Word(<<y.type>>), Word(U64(y.nonce)), y.context, Word(U64(y.height)),
                  Word(U64(8 * WORD)), at(y), fork(y), Word(U64(ver(y))),
                  Dynamic(y.measurement), Dynamic(y.pubkey)>>
<1>1. x \in R /\ y \in R /\ validate_ticket_payload(x) /\ validate_ticket_payload(y) BY DEF Tickets
<1>2. FlattenSeq(p) = FlattenSeq(q) BY DEF TicketPreimage
<1>3. \A t \in R : /\ t.type \in u8 /\ t.nonce \in u64 /\ t.context \in Array(WORD) /\ t.height \in u64
                   /\ t.measurement \in Upto(u64) /\ t.pubkey \in Upto(u64)
                   /\ t.fork \in AtMostOne(Array(WORD)) /\ t.version \in AtMostOne(u32)
  OBVIOUS
<1>4. WORD \in Nat /\ WORD >= 8 BY PreimagesAssumption
<1>5. \A S : \A z \in AtMostOne(S) : z = << >> \/ (z = <<z[1]>> /\ z[1] \in S)
  <2> SUFFICES ASSUME NEW S, NEW z \in Seq(S), Len(z) <= 1, z # << >>
               PROVE  z = <<z[1]>> /\ z[1] \in S
    BY DEF AtMostOne
  <2>1. Len(z) \in Nat /\ Len(z) # 0 BY EmptySeq
  <2> QED BY <2>1
<1>6. \A t \in R : fork(t) \in Array(WORD) /\ ver(t) \in u64
  <2> SUFFICES ASSUME NEW t \in R PROVE fork(t) \in Array(WORD) /\ ver(t) \in u64 OBVIOUS
  <2>1. t.fork \in AtMostOne(Array(WORD)) /\ t.version \in AtMostOne(u32) BY <1>3
  <2>2. Zeros(WORD) \in Array(WORD) BY <1>4 DEF Zeros, Array
  <2>3. 0 \in u64 /\ u32 \subseteq u64
    <3>1. 0 \in u8 BY SMT DEF u8
    <3> QED BY <3>1, SMT, Range8
  <2>4. t.fork # << >> => t.fork[1] \in Array(WORD) BY <1>5, <2>1
  <2>5. t.version # << >> => t.version[1] \in u64 BY <1>5, <2>1, <2>3
  <2> QED BY <2>2, <2>3, <2>4, <2>5
<1>7. \A t \in R : at(t) \in Bstr /\ Len(at(t)) = WORD
  <2> SUFFICES ASSUME NEW t \in R PROVE at(t) \in Bstr /\ Len(at(t)) = WORD OBVIOUS
  <2>1. Dynamic(t.measurement) \in Bstr BY <1>3, CodedDynamic DEF Coded
  <2> DEFINE n == 8 * WORD + Len(Dynamic(t.measurement))
  <2>2. n \in Nat BY <1>4, <2>1, BstrProps
  <2> HIDE DEF n
  <2>3. U64(n) \in Bstr /\ Len(U64(n)) = 8 BY <2>2, U64Props
  <2>4. Word(U64(n)) \in Bstr /\ Len(Word(U64(n))) = WORD BY <1>4, <2>3, Words
  <2> QED BY <2>4 DEF n
<1>8. Word(U64(8 * WORD)) \in Bstr
  <2>1. 8 * WORD \in Nat BY <1>4
  <2>2. U64(8 * WORD) \in Bstr /\ Len(U64(8 * WORD)) = 8 BY <2>1, U64Props
  <2> QED BY <1>4, <2>2, Words
<1>9. Coded(Word(<<x.type>>), Word(<<y.type>>), x.type, y.type)
  <2>1. x.type \in Nat /\ y.type \in Nat BY SMT, <1>1, <1>3 DEF u8
  <2> DEFINE a == <<x.type>>
             b == <<y.type>>
  <2>2. a \in Bstr /\ b \in Bstr /\ Len(a) = 1 /\ Len(b) = 1 /\ (a = b => x.type = y.type)
    BY <2>1 DEF Bstr
  <2> HIDE DEF a, b
  <2>3. Len(a) <= WORD /\ Len(a) = Len(b) BY <1>4, <2>2
  <2>4. Coded(Word(a), Word(b), a, b) BY <2>2, <2>3, CodedWord
  <2> QED BY <2>2, <2>4 DEF Coded, a, b
<1>10. Coded(Word(U64(x.nonce)), Word(U64(y.nonce)), x.nonce, y.nonce) BY <1>1, <1>3, CodedWordU64
<1>11. Coded(x.context, y.context, x.context, y.context) BY <1>1, <1>3, <1>4, CodedArray
<1>12. Coded(Word(U64(x.height)), Word(U64(y.height)), x.height, y.height)
  BY <1>1, <1>3, CodedWordU64
<1>13. Coded(Word(U64(8 * WORD)), Word(U64(8 * WORD)), 0, 0) BY <1>8 DEF Coded, Sd
<1>14. at(x) \in Bstr /\ at(y) \in Bstr /\ Sd(at(x), at(y))
  <2> HIDE DEF at, R
  <2> QED BY <1>1, <1>7, SdFixed
<1>15. Coded(fork(x), fork(y), fork(x), fork(y))
  <2> HIDE DEF fork, R
  <2> QED BY <1>1, <1>4, <1>6, CodedArray
<1>16. Coded(Word(U64(ver(x))), Word(U64(ver(y))), ver(x), ver(y))
  <2> HIDE DEF ver, R
  <2> QED BY <1>1, <1>6, CodedWordU64
<1>17. Coded(Dynamic(x.measurement), Dynamic(y.measurement), x.measurement, y.measurement)
  BY <1>1, <1>3, CodedDynamic
<1>18. Coded(Dynamic(x.pubkey), Dynamic(y.pubkey), x.pubkey, y.pubkey) BY <1>1, <1>3, CodedDynamic
<1> HIDE DEF fork, ver, at, R
<1>19. p \in Seq(Bstr) /\ q \in Seq(Bstr) /\ Len(p) = 10 /\ Len(q) = 10
  BY <1>9, <1>10, <1>11, <1>12, <1>13, <1>14, <1>15, <1>16, <1>17, <1>18 DEF Coded
<1>20. \A i \in 1 .. 9 : Sd(p[i], q[i])
  BY <1>9, <1>10, <1>11, <1>12, <1>13, <1>14, <1>15, <1>16, <1>17 DEF Coded
<1>21. p = q
  <2>1. Len(p) = Len(q) /\ Len(p) > 0 /\ Len(p) - 1 = 9 BY <1>19
  <2> HIDE DEF p, q
  <2> QED BY <1>2, <1>19, <1>20, <2>1, EachField
<1>22. /\ Word(<<x.type>>) = Word(<<y.type>>) /\ Word(U64(x.nonce)) = Word(U64(y.nonce))
       /\ x.context = y.context /\ Word(U64(x.height)) = Word(U64(y.height)) /\ fork(x) = fork(y)
       /\ Word(U64(ver(x))) = Word(U64(ver(y))) /\ Dynamic(x.measurement) = Dynamic(y.measurement)
       /\ Dynamic(x.pubkey) = Dynamic(y.pubkey)
  BY <1>21
<1>23. /\ x.type = y.type /\ x.nonce = y.nonce /\ x.height = y.height /\ ver(x) = ver(y)
       /\ x.measurement = y.measurement /\ x.pubkey = y.pubkey
  BY <1>9, <1>10, <1>12, <1>16, <1>17, <1>18, <1>22 DEF Coded
<1>24. x.fork = y.fork /\ x.version = y.version
  <2>0. x.fork \in AtMostOne(Array(WORD)) /\ y.fork \in AtMostOne(Array(WORD))
        /\ x.version \in AtMostOne(u32) /\ y.version \in AtMostOne(u32)
    BY <1>1, <1>3
  <2>1. CASE x.type = 0
    BY <1>1, <1>23, <2>1 DEF validate_ticket_payload
  <2>2. CASE x.type # 0
    <3>1. x.fork # << >> /\ y.fork # << >> /\ x.version # << >> /\ y.version # << >> /\ y.type # 0
      BY <1>1, <1>23, <2>2 DEF validate_ticket_payload
    <3>2. x.fork[1] = y.fork[1] /\ x.version[1] = y.version[1]
      BY <1>22, <1>23, <2>2, <3>1 DEF fork, ver
    <3> QED BY <1>5, <2>0, <3>1, <3>2
  <2> QED BY <2>1, <2>2
<1> QED BY <1>1, <1>22, <1>23, <1>24 DEF R

-----------------------------------------------------------------------------
(* What a capability commits to *)

\* A CBOR byte string of known length stands for its bytes.
LEMMA CodedBytesFixed ==
  ASSUME NEW a \in Bstr, NEW b \in Bstr, Len(a) = Len(b)
  PROVE  Coded(put_bytes(a), put_bytes(b), a, b)
<1> DEFINE h == put_uint(2, Len(a))
<1>1. h \in Bstr
  <2>1. Len(a) \in Nat /\ 2 \in 0 .. 7 BY BstrProps
  <2>2. UintHead(2, Len(a), h) BY <2>1, PutUintHead
  <2> QED BY <2>2 DEF UintHead
<1>2. put_bytes(a) = h \o a /\ put_bytes(b) = h \o b BY DEF put_bytes
<1> HIDE DEF h
<1>3. Sd(h, h) /\ (h = h => Len(a) = Len(b)) BY DEF Sd
<1>4. Sd(h \o a, h \o b) /\ (h \o a = h \o b => h = h /\ a = b) BY <1>1, <1>3, Delimited
<1>5. h \o a \in Bstr /\ h \o b \in Bstr BY <1>1, BstrProps
<1> QED BY <1>2, <1>4, <1>5 DEF Coded

\* The list of key references in an export or a restore is coded.  (PutRefs)
LEMMA CodedRefs == \A r, s \in Refs : Coded(PutRefs(r), PutRefs(s), r, s)
<1> SUFFICES ASSUME NEW r \in Refs, NEW s \in Refs PROVE Coded(PutRefs(r), PutRefs(s), r, s) OBVIOUS
<1> DEFINE h == put_uint(4, Len(r))
           k == put_uint(4, Len(s))
           p == [i \in DOMAIN r |-> put_bytes(r[i])]
           q == [i \in DOMAIN s |-> put_bytes(s[i])]
           a == FlattenSeq(p)
           b == FlattenSeq(q)
<1>1. /\ r \in Seq(Array(DIGEST_LEN)) /\ Len(r) \in u64 /\ Len(r) \in Nat /\ DOMAIN r = 1 .. Len(r)
      /\ s \in Seq(Array(DIGEST_LEN)) /\ Len(s) \in u64 /\ Len(s) \in Nat /\ DOMAIN s = 1 .. Len(s)
  BY DEF Refs
<1>2. \A d, e \in Array(DIGEST_LEN) : Coded(put_bytes(d), put_bytes(e), d, e)
  BY Arrays, CodedBytesFixed, PreimagesAssumption
<1>3. /\ \A i \in 1 .. Len(r) : r[i] \in Array(DIGEST_LEN)
      /\ \A i \in 1 .. Len(s) : s[i] \in Array(DIGEST_LEN)
  BY <1>1, ElementOfSeq
<1>4. /\ p \in Seq(Bstr) /\ Len(p) = Len(r) /\ \A i \in 1 .. Len(r) : p[i] = put_bytes(r[i])
      /\ q \in Seq(Bstr) /\ Len(q) = Len(s) /\ \A i \in 1 .. Len(s) : q[i] = put_bytes(s[i])
  <2>1. \A i \in 1 .. Len(r) : put_bytes(r[i]) \in Bstr BY <1>2, <1>3 DEF Coded
  <2>2. \A i \in 1 .. Len(s) : put_bytes(s[i]) \in Bstr BY <1>2, <1>3 DEF Coded
  <2> QED BY <1>1, <2>1, <2>2, IsASeq
<1>5. Coded(h, k, Len(r), Len(s))
  <2>1. 4 \in 0 .. 7 OBVIOUS
  <2> QED BY <1>1, <2>1, CodedUint
<1>6. PutRefs(r) = h \o a /\ PutRefs(s) = k \o b BY DEF PutRefs
<1> HIDE DEF h, k, p, q
<1>7. a \in Bstr /\ b \in Bstr BY <1>4, FlatBstr
<1>8. Len(r) = Len(s) => \A i \in 1 .. Len(p) : Sd(p[i], q[i]) BY <1>2, <1>3, <1>4 DEF Coded
<1>9. h = k => Sd(a, b)
  <2>1. h = k => Len(r) = Len(s) BY <1>5 DEF Coded
  <2> QED BY <1>4, <1>8, <2>1, SdFields
<1>10. h = k /\ a = b => r = s
  <2> SUFFICES ASSUME h = k, a = b PROVE r = s OBVIOUS
  <2>1. Len(r) = Len(s) BY <1>5 DEF Coded
  <2>2. p = q
    <3>1. CASE Len(p) = 0 BY <1>4, <2>1, <3>1, EmptySeq
    <3>2. CASE Len(p) > 0
      <4>1. \A i \in 1 .. Len(p) - 1 : Sd(p[i], q[i]) BY <1>1, <1>4, <1>8, <2>1
      <4> QED BY <1>4, <2>1, <3>2, <4>1, EachField
    <3> QED BY <1>1, <1>4, <3>1, <3>2
  <2>3. \A i \in 1 .. Len(r) : r[i] = s[i] BY <1>2, <1>3, <1>4, <2>1, <2>2 DEF Coded
  <2> QED BY <1>1, <2>1, <2>3, SeqEqual
<1> HIDE DEF a, b
<1>11. h \in Bstr /\ k \in Bstr /\ Sd(h, k) BY <1>5 DEF Coded
<1>12. Sd(h \o a, k \o b) /\ (h \o a = k \o b => h = k /\ a = b) BY <1>7, <1>9, <1>11, SdConcat
<1>13. h \o a \in Bstr /\ k \o b \in Bstr BY <1>7, <1>11, BstrProps
<1> QED BY <1>6, <1>10, <1>12, <1>13 DEF Coded

\* GENERATE_KEYS
LEMMA SameGenerate ==
  ASSUME NEW x \in Params(1), NEW y \in Params(1),
         generate_keys_canonical_params(x) = generate_keys_canonical_params(y)
  PROVE  x = y
<1> DEFINE p == <<put_uint(5, 2), <<1>>, put_uint(0, x.purpose), <<2>>, put_uint(0, x.count)>>
           q == <<put_uint(5, 2), <<1>>, put_uint(0, y.purpose), <<2>>, put_uint(0, y.count)>>
           R == [purpose : u64, count : u64]
<1>0. /\ put_uint(5, 2) \in Bstr /\ put_uint(5, 1) \in Bstr /\ 0 \in 0 .. 7
  <2>1. 5 \in 0 .. 7 /\ 1 \in u8 /\ 2 \in u8 /\ 0 \in 0 .. 7 BY SMT DEF u8
  <2>2. 1 \in u64 /\ 2 \in u64 BY <2>1, SMT, Range8
  <2> QED BY <2>1, <2>2, PutUint
<1>1. x \in R /\ y \in R BY DEF Params
<1>2. FlattenSeq(p) = FlattenSeq(q) BY DEF generate_keys_canonical_params
<1>3. /\ x.purpose \in u64 /\ x.count \in u64
      /\ y.purpose \in u64 /\ y.count \in u64
  BY <1>1
<1>4. /\ DIGEST_LEN \in Nat /\ KEM_LEN \in Nat /\ MEASUREMENT_LEN \in Nat /\ KEY_LEN \in Nat
      /\ WORD \in Nat /\ 20 \in Nat
  BY PreimagesAssumption
<1> HIDE DEF R
<1>5. Coded(put_uint(5, 2), put_uint(5, 2), 0, 0) BY <1>0 DEF Coded, Sd
<1>6. Coded(<<1>>, <<1>>, 0, 0) BY SMT DEF Coded, Sd, Bstr
<1>7. Coded(put_uint(0, x.purpose), put_uint(0, y.purpose), x.purpose, y.purpose)
  BY <1>3, <1>0, CodedUint
<1>8. Coded(<<2>>, <<2>>, 0, 0) BY SMT DEF Coded, Sd, Bstr
<1>9. Coded(put_uint(0, x.count), put_uint(0, y.count), x.count, y.count) BY <1>3, <1>0, CodedUint
<1>10. p \in Seq(Bstr) /\ q \in Seq(Bstr) /\ Len(p) = 5 /\ Len(q) = 5
  BY <1>5, <1>6, <1>7, <1>8, <1>9 DEF Coded
<1>11. \A i \in 1 .. 4 : Sd(p[i], q[i]) BY <1>5, <1>6, <1>7, <1>8, <1>9 DEF Coded
<1>12. p = q
  <2>1. Len(p) = Len(q) /\ Len(p) > 0 /\ Len(p) - 1 = 4 BY <1>10
  <2> HIDE DEF p, q
  <2> QED BY <1>2, <1>10, <1>11, <2>1, EachField
<1>13. /\ put_uint(0, x.purpose) = put_uint(0, y.purpose)
       /\ put_uint(0, x.count) = put_uint(0, y.count)
  BY <1>12
<1>14. x.purpose = y.purpose /\ x.count = y.count
  BY <1>5, <1>6, <1>7, <1>8, <1>9, <1>13 DEF Coded
<1> QED BY <1>1, <1>14 DEF R

\* RESTORE_BACKUP
LEMMA SameRestore ==
  ASSUME NEW x \in Params(8), NEW y \in Params(8),
         restore_canonical_params(x) = restore_canonical_params(y)
  PROVE  x = y
<1> DEFINE p == <<put_uint(5, 2), <<1>>, PutRefs(x.refs), <<2>>, put_bytes(x.digest)>>
           q == <<put_uint(5, 2), <<1>>, PutRefs(y.refs), <<2>>, put_bytes(y.digest)>>
           R == [refs : Refs, digest : Array(DIGEST_LEN)]
<1>0. /\ put_uint(5, 2) \in Bstr /\ put_uint(5, 1) \in Bstr /\ 0 \in 0 .. 7
  <2>1. 5 \in 0 .. 7 /\ 1 \in u8 /\ 2 \in u8 /\ 0 \in 0 .. 7 BY SMT DEF u8
  <2>2. 1 \in u64 /\ 2 \in u64 BY <2>1, SMT, Range8
  <2> QED BY <2>1, <2>2, PutUint
<1>1. x \in R /\ y \in R BY DEF Params
<1>2. FlattenSeq(p) = FlattenSeq(q) BY DEF restore_canonical_params
<1>3. /\ x.refs \in Refs /\ x.digest \in Array(DIGEST_LEN)
      /\ y.refs \in Refs /\ y.digest \in Array(DIGEST_LEN)
  BY <1>1
<1>4. /\ DIGEST_LEN \in Nat /\ KEM_LEN \in Nat /\ MEASUREMENT_LEN \in Nat /\ KEY_LEN \in Nat
      /\ WORD \in Nat /\ 20 \in Nat
  BY PreimagesAssumption
<1> HIDE DEF R
<1>5. Coded(put_uint(5, 2), put_uint(5, 2), 0, 0) BY <1>0 DEF Coded, Sd
<1>6. Coded(<<1>>, <<1>>, 0, 0) BY SMT DEF Coded, Sd, Bstr
<1>7. Coded(PutRefs(x.refs), PutRefs(y.refs), x.refs, y.refs) BY <1>3, CodedRefs
<1>8. Coded(<<2>>, <<2>>, 0, 0) BY SMT DEF Coded, Sd, Bstr
<1>9. Coded(put_bytes(x.digest), put_bytes(y.digest), x.digest, y.digest)
  BY <1>3, <1>4, Arrays, CodedBytesFixed
<1>10. p \in Seq(Bstr) /\ q \in Seq(Bstr) /\ Len(p) = 5 /\ Len(q) = 5
  BY <1>5, <1>6, <1>7, <1>8, <1>9 DEF Coded
<1>11. \A i \in 1 .. 4 : Sd(p[i], q[i]) BY <1>5, <1>6, <1>7, <1>8, <1>9 DEF Coded
<1>12. p = q
  <2>1. Len(p) = Len(q) /\ Len(p) > 0 /\ Len(p) - 1 = 4 BY <1>10
  <2> HIDE DEF p, q
  <2> QED BY <1>2, <1>10, <1>11, <2>1, EachField
<1>13. PutRefs(x.refs) = PutRefs(y.refs) /\ put_bytes(x.digest) = put_bytes(y.digest)
  BY <1>12
<1>14. x.refs = y.refs /\ x.digest = y.digest
  BY <1>5, <1>6, <1>7, <1>8, <1>9, <1>13 DEF Coded
<1> QED BY <1>1, <1>14 DEF R

\* A byte is a u64 and a natural.
LEMMA ByteRange == \A v \in u8 : v \in u64 /\ v \in Nat
BY SMT, Range8

\* A u64 is a natural.
LEMMA U64Nat == \A v \in u64 : v \in Nat
BY SMT, Range8

\* A 256-bit number's bytes have a length that fits every prefix.
LEMMA SmallNumbers == MinimalU256 \subseteq Upto(u64)
<1>1. \A n \in Nat : n <= U256_LEN => n \in u8 BY SMT, PreimagesAssumption DEF u8
<1>2. \A n \in Nat : n <= U256_LEN => n \in u64 BY <1>1, SMT, Range8
<1>3. \A x \in Seq(u8) : x \in Bstr /\ Len(x) \in Nat
  <2>1. u8 \subseteq Nat BY SMT DEF u8
  <2>2. \A x \in Seq(u8) : x \in Seq(Nat)
    <3> HIDE DEF u8
    <3> QED BY <2>1, SeqMonotonic
  <2> QED BY <2>2, BstrProps DEF Bstr
<1> QED BY <1>2, <1>3 DEF MinimalU256, Upto

\* The head of a map of 0 .. 4 entries, and the keys of its entries.
LEMMA MapHead ==
  /\ \A v, w \in 0 .. 4 : Coded(put_uint(5, v), put_uint(5, w), v, w)
  /\ \A k \in Nat : <<k>> \in Bstr /\ Len(<<k>>) = 1 /\ Sd(<<k>>, <<k>>)
  /\ \A v \in u64 : put_uint(0, v) \in Bstr
  /\ \A v, w \in u64 : Coded(put_uint(0, v), put_uint(0, w), v, w)
<1>1. 0 .. 4 \subseteq u8 BY SMT DEF u8
<1>2. 0 .. 4 \subseteq u64 /\ 5 \in 0 .. 7 /\ 0 \in 0 .. 7 BY <1>1, SMT, Range8
<1>3. \A v, w \in 0 .. 4 : Coded(put_uint(5, v), put_uint(5, w), v, w) BY <1>2, CodedUint
<1>4. \A k \in Nat : <<k>> \in Bstr /\ Len(<<k>>) = 1 BY SMT DEF Bstr
<1>5. \A v, w \in u64 : Coded(put_uint(0, v), put_uint(0, w), v, w) BY <1>2, CodedUint
<1>6. \A v \in u64 : put_uint(0, v) \in Bstr BY <1>5 DEF Coded
<1> QED BY <1>3, <1>4, <1>5, <1>6 DEF Sd

TreasuryHead(x) ==
    <<put_uint(5, 2 + Len(x.gas)), <<1>>, put_uint(0, x.sub_op), <<2>>, put_bytes(x.field2)>>
TreasuryGas(x) == [i \in DOMAIN x.gas |-> <<2 + i>> \o put_uint(0, x.gas[i])]

\* The types of a configure-treasury request's fields.
LEMMA TreasuryTypes ==
  ASSUME NEW x \in Params(6)
  PROVE  /\ x \in [sub_op : u8, field2 : MinimalU256, gas : {<< >>} \cup u64 \X u64]
         /\ x.sub_op \in u8 /\ x.field2 \in MinimalU256 /\ x.gas \in Seq(u64)
         /\ Len(x.gas) \in {0, 2} /\ DOMAIN x.gas = 1 .. Len(x.gas)
<1>1. x \in [sub_op : u8, field2 : MinimalU256, gas : {<< >>} \cup u64 \X u64] BY DEF Params
<1>2. x.sub_op \in u8 /\ x.field2 \in MinimalU256 /\ x.gas \in {<< >>} \cup u64 \X u64
  <2> HIDE DEF u8, u64, MinimalU256
  <2> QED BY <1>1
<1>3. ASSUME NEW S, NEW g \in {<< >>} \cup S \X S
      PROVE  g \in Seq(S) /\ Len(g) \in {0, 2} /\ DOMAIN g = 1 .. Len(g)
  <2>1. CASE g = << >> BY <2>1
  <2>2. CASE g \in S \X S
    <3>1. PICK v \in S, w \in S : g = <<v, w>> BY <2>2
    <3>2. <<v, w>> \in Seq(S) /\ Len(<<v, w>>) = 2 OBVIOUS
    <3> QED BY <3>1, <3>2
  <2> QED BY <2>1, <2>2
<1>4. x.gas \in Seq(u64) /\ Len(x.gas) \in {0, 2} /\ DOMAIN x.gas = 1 .. Len(x.gas)
  BY <1>2, <1>3
<1> QED BY <1>1, <1>2, <1>4

\* The pieces a configure-treasury request is made of are byte strings.
LEMMA TreasuryFields ==
  ASSUME NEW x \in Params(6)
  PROVE  /\ TreasuryHead(x) \in Seq(Bstr) /\ Len(TreasuryHead(x)) = 5
         /\ TreasuryGas(x) \in Seq(Bstr) /\ Len(TreasuryGas(x)) = Len(x.gas)
         /\ TreasuryHead(x) \o TreasuryGas(x) \in Seq(Bstr)
         /\ Len(TreasuryHead(x) \o TreasuryGas(x)) = 5 + Len(x.gas)
         /\ \A i \in 1 .. 5 : (TreasuryHead(x) \o TreasuryGas(x))[i] = TreasuryHead(x)[i]
         /\ \A i \in 1 .. Len(x.gas) :
               (TreasuryHead(x) \o TreasuryGas(x))[5 + i] = <<2 + i>> \o put_uint(0, x.gas[i])
         /\ configure_treasury_canonical_params(x) = FlattenSeq(TreasuryHead(x) \o TreasuryGas(x))
<1> DEFINE h == TreasuryHead(x)
           g == TreasuryGas(x)
           n == Len(x.gas)
<1>1. /\ x.sub_op \in u8 /\ x.field2 \in MinimalU256 /\ x.gas \in Seq(u64)
      /\ n \in {0, 2} /\ DOMAIN x.gas = 1 .. n
  BY TreasuryTypes
<1>2. 2 + n \in 0 .. 4 /\ n \in Nat /\ 5 \in Nat
  <2>1. n = 0 \/ n = 2 BY <1>1
  <2> HIDE DEF n
  <2> QED BY <2>1
<1>3. put_uint(5, 2 + n) \in Bstr BY <1>2, MapHead DEF Coded
<1>4. put_uint(0, x.sub_op) \in Bstr
  <2>1. x.sub_op \in u64 BY <1>1, ByteRange
  <2> QED BY <2>1, MapHead
<1>5. put_bytes(x.field2) \in Bstr
  <2>1. x.field2 \in Upto(u64) BY <1>1, SmallNumbers
  <2> QED BY <2>1, CodedBytes DEF Coded
<1>6. <<1>> \in Bstr /\ <<2>> \in Bstr BY MapHead
<1>7. h \in Seq(Bstr) /\ Len(h) = 5 BY <1>3, <1>4, <1>5, <1>6 DEF TreasuryHead
<1>8. ASSUME NEW i \in 1 .. n PROVE <<2 + i>> \o put_uint(0, x.gas[i]) \in Bstr
  <2>1. x.gas[i] \in u64 BY <1>1, <1>2, ElementOfSeq
  <2>2. 2 + i \in Nat BY <1>2
  <2>3. <<2 + i>> \in Bstr BY <2>2, MapHead
  <2>4. put_uint(0, x.gas[i]) \in Bstr BY <2>1, MapHead
  <2> QED BY <2>3, <2>4, BstrProps
<1>9. g \in Seq(Bstr) /\ Len(g) = n
  <2>1. g = [i \in 1 .. n |-> <<2 + i>> \o put_uint(0, x.gas[i])] BY <1>1 DEF TreasuryGas
  <2> HIDE DEF n
  <2> QED BY <1>2, <1>8, <2>1, IsASeq
<1>10. \A i \in 1 .. n : g[i] = <<2 + i>> \o put_uint(0, x.gas[i]) BY <1>1 DEF TreasuryGas
<1>11. configure_treasury_canonical_params(x) = FlattenSeq(h \o g)
  BY DEF configure_treasury_canonical_params, TreasuryHead, TreasuryGas
<1> HIDE DEF h, g, n
<1>12. h \o g \in Seq(Bstr) /\ Len(h \o g) = 5 + n
  <2>1. h \o g \in Seq(Bstr) /\ Len(h \o g) = Len(h) + Len(g) BY <1>7, <1>9, ConcatProperties
  <2> QED BY <1>7, <1>9, <2>1
<1>13. \A i \in 1 .. 5 : (h \o g)[i] = h[i] BY <1>2, <1>7, <1>9, <1>12
<1>14. \A i \in 1 .. n : (h \o g)[5 + i] = g[i]
  <2> SUFFICES ASSUME NEW i \in 1 .. n PROVE (h \o g)[5 + i] = g[i] OBVIOUS
  <2>1. 5 + i \in 1 .. 5 + n /\ ~ 5 + i <= 5 /\ (5 + i) - 5 = i BY <1>2
  <2> QED BY <2>1, <1>7, <1>9, <1>12
<1> QED BY <1>7, <1>9, <1>10, <1>11, <1>12, <1>13, <1>14 DEF h, g, n

\* The canonical form of a configure-treasury request determines the request.
\* (configure_treasury_canonical_params)
LEMMA SameTreasury ==
  ASSUME NEW x \in Params(6), NEW y \in Params(6),
         configure_treasury_canonical_params(x) = configure_treasury_canonical_params(y)
  PROVE  x = y
<1> DEFINE p == TreasuryHead(x) \o TreasuryGas(x)
           q == TreasuryHead(y) \o TreasuryGas(y)
           m == Len(x.gas)
           n == Len(y.gas)
<1>1. /\ x.sub_op \in u8 /\ x.field2 \in MinimalU256 /\ x.gas \in Seq(u64)
      /\ m \in {0, 2} /\ DOMAIN x.gas = 1 .. m
  BY TreasuryTypes
<1>2. /\ y.sub_op \in u8 /\ y.field2 \in MinimalU256 /\ y.gas \in Seq(u64)
      /\ n \in {0, 2} /\ DOMAIN y.gas = 1 .. n
  BY TreasuryTypes
<1>3. /\ p \in Seq(Bstr) /\ Len(p) = 5 + m /\ \A i \in 1 .. 5 : p[i] = TreasuryHead(x)[i]
      /\ \A i \in 1 .. m : p[5 + i] = <<2 + i>> \o put_uint(0, x.gas[i])
  BY TreasuryFields
<1>4. /\ q \in Seq(Bstr) /\ Len(q) = 5 + n /\ \A i \in 1 .. 5 : q[i] = TreasuryHead(y)[i]
      /\ \A i \in 1 .. n : q[5 + i] = <<2 + i>> \o put_uint(0, y.gas[i])
  BY TreasuryFields
<1>5. FlattenSeq(p) = FlattenSeq(q) BY TreasuryFields
<1> HIDE DEF p, q
<1>6. /\ p[1] = put_uint(5, 2 + m) /\ p[2] = <<1>> /\ p[3] = put_uint(0, x.sub_op) /\ p[4] = <<2>>
      /\ p[5] = put_bytes(x.field2)
  BY <1>3 DEF TreasuryHead
<1>7. /\ q[1] = put_uint(5, 2 + n) /\ q[2] = <<1>> /\ q[3] = put_uint(0, y.sub_op) /\ q[4] = <<2>>
      /\ q[5] = put_bytes(y.field2)
  BY <1>4 DEF TreasuryHead
<1>8. Coded(p[1], q[1], 2 + m, 2 + n)
  <2>1. 2 + m \in 0 .. 4 /\ 2 + n \in 0 .. 4
    <3>1. (m = 0 \/ m = 2) /\ (n = 0 \/ n = 2) BY <1>1, <1>2
    <3> HIDE DEF m, n
    <3> QED BY <3>1
  <2> QED BY <1>6, <1>7, <2>1, MapHead
<1> HIDE DEF m, n
<1>9. m = n
  <2>1. Len(p) > 0 /\ Len(q) > 0 BY <1>1, <1>2, <1>3, <1>4
  <2>2. PICK r \in Bstr : FlattenSeq(p) = p[1] \o r BY <1>3, <2>1, FirstField
  <2>3. PICK s \in Bstr : FlattenSeq(q) = q[1] \o s BY <1>4, <2>1, FirstField
  <2>4. p[1] \o r = q[1] \o s BY <1>5, <2>2, <2>3
  <2>5. p[1] = q[1] BY <1>8, <2>2, <2>3, <2>4 DEF Coded, Sd
  <2>6. 2 + m = 2 + n BY <1>8, <2>5 DEF Coded
  <2> QED BY <1>1, <1>2, <2>6
<1>10. Coded(p[3], q[3], x.sub_op, y.sub_op)
  <2>1. x.sub_op \in u64 /\ y.sub_op \in u64 BY <1>1, <1>2, ByteRange
  <2> QED BY <1>6, <1>7, <2>1, MapHead
<1>11. Coded(p[5], q[5], x.field2, y.field2)
  <2>1. x.field2 \in Upto(u64) /\ y.field2 \in Upto(u64) BY <1>1, <1>2, SmallNumbers
  <2> QED BY <1>6, <1>7, <2>1, CodedBytes
<1>12. \A i \in 1 .. m : Coded(p[5 + i], q[5 + i], x.gas[i], y.gas[i])
  <2> SUFFICES ASSUME NEW i \in 1 .. m PROVE Coded(p[5 + i], q[5 + i], x.gas[i], y.gas[i]) OBVIOUS
  <2> DEFINE k == <<2 + i>>
             a == put_uint(0, x.gas[i])
             b == put_uint(0, y.gas[i])
  <2>1. 2 + i \in Nat /\ i \in 1 .. n BY <1>1, <1>9
  <2>2. x.gas[i] \in u64 /\ y.gas[i] \in u64 BY <1>1, <1>2, <2>1, ElementOfSeq DEF m, n
  <2>3. k \in Bstr /\ Sd(k, k) BY <2>1, MapHead
  <2>4. Coded(a, b, x.gas[i], y.gas[i]) BY <2>2, MapHead
  <2>5. p[5 + i] = k \o a /\ q[5 + i] = k \o b BY <1>3, <1>4, <2>1
  <2> HIDE DEF k, a, b
  <2>6. a \in Bstr /\ b \in Bstr /\ (k = k => Sd(a, b)) BY <2>4 DEF Coded
  <2>7. Sd(k \o a, k \o b) /\ (k \o a = k \o b => k = k /\ a = b) BY <2>3, <2>6, SdConcat
  <2>8. k \o a \in Bstr /\ k \o b \in Bstr BY <2>3, <2>6, BstrProps
  <2> QED BY <2>4, <2>5, <2>7, <2>8 DEF Coded
<1>13. \A i \in 1 .. 5 + m : Sd(p[i], q[i])
  <2> SUFFICES ASSUME NEW i \in 1 .. 5 + m PROVE Sd(p[i], q[i]) OBVIOUS
  <2>1. CASE i = 1 BY <1>8, <2>1 DEF Coded
  <2>2. CASE i = 2 BY <1>6, <1>7, <2>2, MapHead
  <2>3. CASE i = 3 BY <1>10, <2>3 DEF Coded
  <2>4. CASE i = 4 BY <1>6, <1>7, <2>4, MapHead
  <2>5. CASE i = 5 BY <1>11, <2>5 DEF Coded
  <2>6. CASE i > 5
    <3>1. i - 5 \in 1 .. m /\ 5 + (i - 5) = i BY <1>1, <2>6
    <3> QED BY <1>12, <3>1 DEF Coded
  <2>7. i \in Nat /\ i >= 1 BY <1>1
  <2> QED BY <2>1, <2>2, <2>3, <2>4, <2>5, <2>6, <2>7
<1>14. p = q
  <2>1. Len(p) = Len(q) /\ Len(p) > 0 BY <1>1, <1>3, <1>4, <1>9
  <2>2. \A i \in 1 .. Len(p) - 1 : Sd(p[i], q[i]) BY <1>1, <1>3, <1>13
  <2> QED BY <1>3, <1>4, <1>5, <2>1, <2>2, EachField
<1>15. x.sub_op = y.sub_op /\ x.field2 = y.field2 BY <1>10, <1>11, <1>14 DEF Coded
<1>16. x.gas = y.gas
  <2>1. \A i \in 1 .. m : x.gas[i] = y.gas[i] BY <1>12, <1>14 DEF Coded
  <2> QED BY <1>1, <1>2, <1>9, <2>1, SeqEqual DEF m, n
<1>17. \A S, T, U : \A a, b \in [sub_op : S, field2 : T, gas : U] :
          a.sub_op = b.sub_op /\ a.field2 = b.field2 /\ a.gas = b.gas => a = b
  OBVIOUS
<1> QED BY <1>15, <1>16, <1>17, TreasuryTypes

ExportKey(x) == IF x.by = "refs" THEN 1 ELSE 2
ExportBody(x) == IF x.by = "refs" THEN PutRefs(x.refs) ELSE put_uint(0, x.batch)
ExportFields(x) == <<put_uint(5, 1), <<ExportKey(x)>>, ExportBody(x)>>

\* An export names all keys, some references or a batch.
LEMMA ExportForm ==
  ASSUME NEW x \in Params(7)
  PROVE  /\ \/ x = [by |-> "all"]
            \/ x.by = "refs" /\ x \in [by : {"refs"}, refs : Refs] /\ x.refs \in Refs
            \/ x.by = "batch" /\ x \in [by : {"batch"}, batch : u64] /\ x.batch \in u64
         /\ x.by = "all" => export_canonical_params(x) = put_uint(5, 0)
         /\ x.by # "all" => /\ ExportFields(x) \in Seq(Bstr) /\ Len(ExportFields(x)) = 3
                            /\ export_canonical_params(x) = FlattenSeq(ExportFields(x))
<1> HIDE DEF Refs, u64
<1>1. \/ x = [by |-> "all"]
      \/ x.by = "refs" /\ x \in [by : {"refs"}, refs : Refs] /\ x.refs \in Refs
      \/ x.by = "batch" /\ x \in [by : {"batch"}, batch : u64] /\ x.batch \in u64
  BY DEF Params
<1>2. x.by = "all" => export_canonical_params(x) = put_uint(5, 0) BY DEF export_canonical_params
<1>3. ASSUME x.by # "all"
      PROVE  /\ ExportFields(x) \in Seq(Bstr) /\ Len(ExportFields(x)) = 3
             /\ export_canonical_params(x) = FlattenSeq(ExportFields(x))
  <2>1. ExportBody(x) \in Bstr
    <3>1. CASE x.by = "refs" BY <1>1, <3>1, CodedRefs DEF ExportBody, Coded
    <3>2. CASE x.by = "batch" BY <1>1, <3>2, MapHead DEF ExportBody
    <3> QED BY <1>1, <1>3, <3>1, <3>2
  <2>2. ExportKey(x) \in Nat BY DEF ExportKey
  <2>3. <<ExportKey(x)>> \in Bstr BY <2>2, MapHead
  <2>4. put_uint(5, 1) \in Bstr BY MapHead DEF Coded
  <2>5. export_canonical_params(x) = FlattenSeq(ExportFields(x))
    <3>1. CASE x.by = "refs"
      BY <3>1 DEF export_canonical_params, ExportFields, ExportKey, ExportBody
    <3>2. CASE x.by = "batch"
      BY <3>2 DEF export_canonical_params, ExportFields, ExportKey, ExportBody
    <3> QED BY <1>1, <1>3, <3>1, <3>2
  <2> QED BY <2>1, <2>3, <2>4, <2>5 DEF ExportFields
<1> QED BY <1>1, <1>2, <1>3

\* The canonical form of an export of all keys is no other export's.
LEMMA ExportAll ==
  ASSUME NEW x \in Params(7), NEW y \in Params(7), x.by = "all", y.by # "all"
  PROVE  export_canonical_params(x) # export_canonical_params(y)
<1> SUFFICES ASSUME export_canonical_params(x) = export_canonical_params(y) PROVE FALSE OBVIOUS
<1> DEFINE a == put_uint(5, 0)
           b == put_uint(5, 1)
<1>1. PICK r \in Bstr : FlattenSeq(ExportFields(y)) = ExportFields(y)[1] \o r
  BY ExportForm, FirstField
<1>2. ExportFields(y)[1] = b BY DEF ExportFields
<1>3. Coded(a, b, 0, 1) BY MapHead
<1>4. a = b \o r BY <1>1, <1>2, ExportForm
<1> HIDE DEF a, b
<1>5. a \in Bstr /\ Sd(a, b) BY <1>3 DEF Coded
<1>6. a \o << >> = b \o r BY <1>4, <1>5, BstrProps
<1>7. a = b BY <1>1, <1>5, <1>6, BstrProps DEF Sd
<1> QED BY <1>3, <1>7 DEF Coded

\* The canonical form of an export determines the request.  (export_canonical_params)
LEMMA SameExport ==
  ASSUME NEW x \in Params(7), NEW y \in Params(7),
         export_canonical_params(x) = export_canonical_params(y)
  PROVE  x = y
<1>1. CASE x.by = "all" /\ y.by = "all" BY <1>1, ExportForm
<1>2. CASE x.by = "all" /\ y.by # "all" BY <1>2, ExportAll
<1>3. CASE x.by # "all" /\ y.by = "all" BY <1>3, ExportAll
<1>4. CASE x.by # "all" /\ y.by # "all"
  <2> DEFINE p == ExportFields(x)
             q == ExportFields(y)
  <2>1. /\ p \in Seq(Bstr) /\ q \in Seq(Bstr) /\ Len(p) = 3 /\ Len(q) = 3
        /\ FlattenSeq(p) = FlattenSeq(q)
    BY <1>4, ExportForm
  <2>2. /\ p[1] = put_uint(5, 1) /\ p[2] = <<ExportKey(x)>> /\ p[3] = ExportBody(x)
        /\ q[1] = put_uint(5, 1) /\ q[2] = <<ExportKey(y)>> /\ q[3] = ExportBody(y)
    BY DEF ExportFields
  <2> HIDE DEF p, q
  <2>3. Sd(p[1], q[1]) BY <2>2 DEF Sd
  <2>4. Sd(p[2], q[2])
    <3>1. p[2] \in Bstr /\ q[2] \in Bstr BY <2>1
    <3>2. Len(p[2]) = 1 /\ Len(q[2]) = 1 BY <2>2
    <3> QED BY <3>1, <3>2, SdFixed
  <2>5. p = q
    <3>1. Len(p) = Len(q) /\ Len(p) > 0 /\ \A i \in 1 .. Len(p) - 1 : i = 1 \/ i = 2 BY <2>1
    <3>2. \A i \in 1 .. Len(p) - 1 : Sd(p[i], q[i]) BY <2>3, <2>4, <3>1
    <3> QED BY <2>1, <3>1, <3>2, EachField
  <2>6. ExportKey(x) = ExportKey(y) /\ ExportBody(x) = ExportBody(y) BY <2>2, <2>5
  <2>7. CASE x.by = "refs"
    <3>1. y.by = "refs" BY <2>6, <2>7 DEF ExportKey
    <3>2. PutRefs(x.refs) = PutRefs(y.refs) BY <2>6, <2>7, <3>1 DEF ExportBody
    <3>3. x.refs \in Refs /\ y.refs \in Refs BY <2>7, <3>1, ExportForm
    <3>4. x.refs = y.refs BY <3>2, <3>3, CodedRefs DEF Coded
    <3>5. x \in [by : {"refs"}, refs : Refs] /\ y \in [by : {"refs"}, refs : Refs]
      BY <2>7, <3>1, ExportForm
    <3> HIDE DEF Refs
    <3> QED BY <3>4, <3>5
  <2>8. CASE x.by # "refs"
    <3>1. y.by # "refs" BY <2>6, <2>8 DEF ExportKey
    <3>2. put_uint(0, x.batch) = put_uint(0, y.batch) BY <2>6, <2>8, <3>1 DEF ExportBody
    <3>3. x.batch \in u64 /\ y.batch \in u64 BY <1>4, <2>8, <3>1, ExportForm
    <3>4. x.batch = y.batch BY <3>2, <3>3, MapHead DEF Coded
    <3>5. x \in [by : {"batch"}, batch : u64] /\ y \in [by : {"batch"}, batch : u64]
      BY <1>4, <2>8, <3>1, ExportForm
    <3> HIDE DEF u64
    <3> QED BY <3>4, <3>5
  <2> QED BY <2>7, <2>8
<1> QED BY <1>1, <1>2, <1>3, <1>4

-----------------------------------------------------------------------------
Opcodes == {1, 6, 7, 8}

\* The canonical parameters of every operation are a byte string.
LEMMA ParamsBytes ==
  ASSUME NEW o \in Opcodes, NEW x \in Params(o)
  PROVE  CanonicalParams(o, x) \in Bstr
<1>0. <<1>> \in Bstr /\ <<2>> \in Bstr /\ put_uint(5, 2) \in Bstr /\ put_uint(5, 0) \in Bstr
  BY MapHead DEF Coded
<1>1. CASE o = 1
  <2>1. x.purpose \in u64 /\ x.count \in u64 BY <1>1 DEF Params
  <2>2. put_uint(0, x.purpose) \in Bstr /\ put_uint(0, x.count) \in Bstr BY <2>1, MapHead
  <2> DEFINE p == <<put_uint(5, 2), <<1>>, put_uint(0, x.purpose), <<2>>, put_uint(0, x.count)>>
  <2>3. p \in Seq(Bstr) BY <1>0, <2>2
  <2>4. FlattenSeq(p) \in Bstr BY <2>3, FlatBstr
  <2> QED BY <1>1, <2>4 DEF CanonicalParams, generate_keys_canonical_params
<1>2. CASE o = 6
  <2>1. x \in Params(6) BY <1>2
  <2>2. configure_treasury_canonical_params(x) \in Bstr BY <2>1, TreasuryFields, FlatBstr
  <2> QED BY <1>2, <2>2 DEF CanonicalParams
<1>3. CASE o = 7
  <2>1. x \in Params(7) BY <1>3
  <2>2. export_canonical_params(x) \in Bstr
    <3>1. CASE x.by = "all" BY <1>0, <2>1, <3>1, ExportForm
    <3>2. CASE x.by # "all" BY <2>1, <3>2, ExportForm, FlatBstr
    <3> QED BY <3>1, <3>2
  <2> QED BY <1>3, <2>2 DEF CanonicalParams
<1>4. CASE o = 8
  <2>1. x.refs \in Refs /\ x.digest \in Array(DIGEST_LEN)
    <3> HIDE DEF Refs, Array
    <3> QED BY <1>4 DEF Params
  <2>2. PutRefs(x.refs) \in Bstr /\ put_bytes(x.digest) \in Bstr
    BY <2>1, CodedRefs, Arrays, CodedBytesFixed, PreimagesAssumption DEF Coded
  <2> DEFINE p == <<put_uint(5, 2), <<1>>, PutRefs(x.refs), <<2>>, put_bytes(x.digest)>>
  <2>3. p \in Seq(Bstr) BY <1>0, <2>2
  <2>4. FlattenSeq(p) \in Bstr BY <2>3, FlatBstr
  <2> QED BY <1>4, <2>4 DEF CanonicalParams, restore_canonical_params
<1> QED BY <1>1, <1>2, <1>3, <1>4 DEF Opcodes

\* For one operation, the canonical parameters determine the parameters.
LEMMA SameParams ==
  ASSUME NEW o \in Opcodes, NEW x \in Params(o), NEW y \in Params(o),
         CanonicalParams(o, x) = CanonicalParams(o, y)
  PROVE  x = y
<1>1. CASE o = 1 BY <1>1, SameGenerate DEF CanonicalParams
<1>2. CASE o = 6 BY <1>2, SameTreasury DEF CanonicalParams
<1>3. CASE o = 7 BY <1>3, SameExport DEF CanonicalParams
<1>4. CASE o = 8 BY <1>4, SameRestore DEF CanonicalParams
<1> QED BY <1>1, <1>2, <1>3, <1>4 DEF Opcodes

SubOp(r) == IF r.opcode = 6 THEN <<r.params.sub_op>> ELSE << >>

\* The types of what a capability binds.
LEMMA BindingTypes ==
  ASSUME NEW x \in Bindings
  PROVE  /\ x.opcode \in Opcodes /\ x.request_id \in Upto(u64) /\ x.params \in Params(x.opcode)
         /\ x \in [opcode : {x.opcode}, request_id : Upto(u64), params : Params(x.opcode)]
<1>1. PICK o \in Opcodes : x \in Commanded(o) BY DEF Bindings, Opcodes
<1>2. x \in [opcode : {o}, request_id : Upto(u64), params : Params(o)] BY <1>1 DEF Commanded
<1>3. x.opcode = o /\ x.request_id \in Upto(u64) /\ x.params \in Params(o) BY <1>2
<1> QED BY <1>2, <1>3

\* A capability commits to the opcode, the request and its parameters.
LEMMA SameBinding ==
  ASSUME NEW x \in Bindings, NEW y \in Bindings, CapabilityBinds(x) = CapabilityBinds(y)
  PROVE  x = y
<1> DEFINE a == put_bytes(x.request_id)
           b == put_bytes(y.request_id)
           p == <<<<x.opcode>>, SubOp(x), x.request_id, CanonicalParams(x.opcode, x.params)>>
           q == <<<<y.opcode>>, SubOp(y), y.request_id, CanonicalParams(y.opcode, y.params)>>
<1>1. /\ x.opcode \in Opcodes /\ x.request_id \in Upto(u64) /\ x.params \in Params(x.opcode)
      /\ y.opcode \in Opcodes /\ y.request_id \in Upto(u64) /\ y.params \in Params(y.opcode)
  BY BindingTypes
<1>2. CanonicalParams(x.opcode, x.params) \in Bstr /\ CanonicalParams(y.opcode, y.params) \in Bstr
  BY <1>1, ParamsBytes
<1>3. ASSUME NEW r \in Bindings PROVE SubOp(r) \in Bstr /\ (r.opcode = 6 => Len(SubOp(r)) = 1)
                                     /\ (r.opcode # 6 => Len(SubOp(r)) = 0)
  <2>1. CASE r.opcode = 6
    <3>1. r.params \in Params(6) BY <2>1, BindingTypes
    <3>2. r.params.sub_op \in u8 BY <3>1, TreasuryTypes
    <3>3. r.params.sub_op \in Nat BY <3>2, ByteRange
    <3> QED BY <2>1, <3>3, MapHead DEF SubOp
  <2>2. CASE r.opcode # 6 BY <2>2, BstrProps DEF SubOp
  <2> QED BY <2>1, <2>2
<1>4. /\ x.request_id \in Bstr /\ y.request_id \in Bstr
      /\ <<x.opcode>> \in Bstr /\ <<y.opcode>> \in Bstr
  <2>1. x.opcode \in Nat /\ y.opcode \in Nat BY <1>1 DEF Opcodes
  <2> QED BY <1>1, <2>1, MapHead DEF Upto
<1>5. p \in Seq(Bstr) /\ q \in Seq(Bstr) /\ Len(p) = 4 /\ Len(q) = 4 BY <1>2, <1>3, <1>4
<1>6. Coded(a, b, x.request_id, y.request_id) BY <1>1, CodedBytes
<1>7. CapabilityBinds(x) = a \o FlattenSeq(p) /\ CapabilityBinds(y) = b \o FlattenSeq(q)
  BY DEF CapabilityBinds, payload_binding, SubOp
<1>8. FlattenSeq(p) \in Bstr /\ FlattenSeq(q) \in Bstr BY <1>5, FlatBstr
<1>9. /\ p[1] = <<x.opcode>> /\ p[2] = SubOp(x) /\ p[3] = x.request_id
      /\ p[4] = CanonicalParams(x.opcode, x.params)
      /\ q[1] = <<y.opcode>> /\ q[2] = SubOp(y) /\ q[3] = y.request_id
      /\ q[4] = CanonicalParams(y.opcode, y.params)
  OBVIOUS
<1> HIDE DEF a, b, p, q
<1>10. a = b /\ FlattenSeq(p) = FlattenSeq(q)
  <2> DEFINE s == FlattenSeq(p)
             t == FlattenSeq(q)
  <2>1. s \in Bstr /\ t \in Bstr /\ a \o s = b \o t BY <1>7, <1>8
  <2>2. a \in Bstr /\ b \in Bstr /\ Sd(a, b) BY <1>6 DEF Coded
  <2> HIDE DEF s, t
  <2>3. a = b /\ s = t BY <2>1, <2>2, SdSplit
  <2> QED BY <2>3 DEF s, t
<1>11. x.request_id = y.request_id BY <1>6, <1>10 DEF Coded
<1>12. x.opcode = y.opcode
  <2>1. Len(p) > 0 /\ Len(q) > 0 BY <1>5
  <2>2. PICK r \in Bstr : FlattenSeq(p) = p[1] \o r BY <1>5, <2>1, FirstField
  <2>3. PICK s \in Bstr : FlattenSeq(q) = q[1] \o s BY <1>5, <2>1, FirstField
  <2> DEFINE c == <<x.opcode>>
             d == <<y.opcode>>
  <2>4. c \in Bstr /\ d \in Bstr /\ Len(c) = Len(d) /\ c \o r = d \o s
    BY <1>4, <1>9, <1>10, <2>2, <2>3
  <2> HIDE DEF c, d
  <2>5. c = d BY <2>2, <2>3, <2>4, SameLength
  <2> QED BY <2>5 DEF c, d
<1>13. \A i \in 1 .. 3 : Sd(p[i], q[i])
  <2>1. Sd(p[1], q[1]) /\ Sd(p[3], q[3]) BY <1>9, <1>11, <1>12 DEF Sd
  <2>2. Len(SubOp(x)) = Len(SubOp(y)) BY <1>3, <1>12
  <2>3. Sd(p[2], q[2]) BY <1>3, <1>9, <2>2, SdFixed
  <2> QED BY <2>1, <2>3
<1>14. p = q
  <2>1. Len(p) = Len(q) /\ Len(p) > 0 /\ Len(p) - 1 = 3 BY <1>5
  <2> QED BY <1>5, <1>10, <1>13, <2>1, EachField
<1>15. x.params = y.params BY <1>1, <1>9, <1>12, <1>14, SameParams
<1>16. \A S, T, U : \A r, s \in [opcode : S, request_id : T, params : U] :
          r.opcode = s.opcode /\ r.request_id = s.request_id /\ r.params = s.params => r = s
  OBVIOUS
<1>17. /\ x \in [opcode : {x.opcode}, request_id : Upto(u64), params : Params(x.opcode)]
       /\ y \in [opcode : {x.opcode}, request_id : Upto(u64), params : Params(x.opcode)]
  BY <1>12, BindingTypes
<1> QED BY <1>11, <1>12, <1>15, <1>16, <1>17

-----------------------------------------------------------------------------
(* How the bytes of a form begin *)

\* The pieces of the preimages are byte strings.
LEMMA Pieces ==
  /\ \A n \in Nat : \A a \in Array(n) : a \in Bstr
  /\ \A v \in u64 : U64(v) \in Bstr
  /\ \A n \in Nat : Tag(n) \in Bstr
  /\ \A a \in Upto(u8) : lp8(a) \in Bstr
  /\ \A a \in Upto(u32) : lp32(a) \in Bstr
  /\ \A a \in Upto(u64) : lp64(a) \in Bstr
<1>1. \A v \in u64 : U64(v) \in Bstr
  <2>1. \A v \in u64 : v \in Nat BY SMT, Range8
  <2> QED BY <2>1, U64Props
<1> QED BY <1>1, Arrays, CodedTag, LengthPrefixed

\* The domain string a preimage begins with determines the domain.
LEMMA TagSplit ==
  ASSUME NEW m \in Nat, NEW n \in Nat, NEW r \in Bstr, NEW s \in Bstr, Tag(m) \o r = Tag(n) \o s
  PROVE  m = n /\ r = s
<1> DEFINE a == Tag(m)
           b == Tag(n)
<1>1. a \in Bstr /\ b \in Bstr /\ Len(a) = Len(b) /\ (a = b => m = n)
  <2>1. /\ Tag(m) \in Bstr /\ Len(Tag(m)) = 2 /\ Tag(m)[2] = 256 + m
        /\ Tag(n) \in Bstr /\ Len(Tag(n)) = 2 /\ Tag(n)[2] = 256 + n
    BY SMT, CodedTag
  <2>2. 256 + m = 256 + n => m = n BY SMT
  <2>3. a[2] = 256 + m /\ b[2] = 256 + n BY <2>1
  <2>4. a \in Bstr /\ b \in Bstr /\ Len(a) = Len(b) BY <2>1
  <2> HIDE DEF a, b
  <2> QED BY <2>2, <2>3, <2>4
<1> HIDE DEF a, b
<1>2. a \o r = b \o s BY DEF a, b
<1> QED BY <1>1, <1>2, SameLength

\* A list of fields that begins with a tag.
LEMMA TagFirst ==
  ASSUME NEW p \in Seq(Bstr), Len(p) > 0, NEW n \in Nat, p[1] = Tag(n)
  PROVE  \E r \in Bstr : FlattenSeq(p) = Tag(n) \o r
<1>1. PICK r \in Bstr : FlattenSeq(p) = p[1] \o r BY FirstField
<1> QED BY <1>1

\* The report data of a restore key begins with its domain.
LEMMA BeginsEphemeral ==
  ASSUME NEW x \in Inputs("ephemeral")
  PROVE  \E r \in Bstr : report_data_for_restore_ephemeral(x) = Tag(6) \o r
<1> DEFINE p == <<Tag(6), x.encaps_key, x.measurement, U64(x.chain_id), lp64(x.env)>>
<1>1. x \in [encaps_key : Array(KEM_LEN), measurement : Array(MEASUREMENT_LEN), chain_id : u64, env : Upto(u64)]
  BY DEF Inputs
<1>2. /\ x.encaps_key \in Array(KEM_LEN) /\ x.measurement \in Array(MEASUREMENT_LEN)
      /\ x.chain_id \in u64 /\ x.env \in Upto(u64)
  BY <1>1
<1>3. /\ x.encaps_key \in Bstr /\ x.measurement \in Bstr /\ U64(x.chain_id) \in Bstr
      /\ lp64(x.env) \in Bstr /\ Tag(6) \in Bstr
  BY <1>2, Pieces, PreimagesAssumption
<1>4. p \in Seq(Bstr) /\ Len(p) > 0 /\ p[1] = Tag(6) BY <1>3
<1>5. report_data_for_restore_ephemeral(x) = FlattenSeq(p) BY DEF report_data_for_restore_ephemeral
<1> HIDE DEF p
<1>6. 6 \in Nat OBVIOUS
<1> QED BY <1>4, <1>5, <1>6, TagFirst

\* The report data of a completed restore begins with its domain.
LEMMA BeginsCompletion ==
  ASSUME NEW x \in Inputs("completion")
  PROVE  \E r \in Bstr : report_data_for_restore_completion(x) = Tag(7) \o r
<1> DEFINE p == <<Tag(7), U64(x.chain_id), lp64(x.env), lp64(x.request_id), x.identity_set_hash,
                  x.sealed_blob_hash>>
<1>1. x \in [chain_id : u64, env : Upto(u64), request_id : Upto(u64),
             identity_set_hash : Array(DIGEST_LEN), sealed_blob_hash : Array(DIGEST_LEN)]
  BY DEF Inputs
<1>2. /\ x.identity_set_hash \in Array(DIGEST_LEN) /\ x.sealed_blob_hash \in Array(DIGEST_LEN)
      /\ x.chain_id \in u64 /\ x.env \in Upto(u64) /\ x.request_id \in Upto(u64)
  BY <1>1
<1>3. /\ x.identity_set_hash \in Bstr /\ x.sealed_blob_hash \in Bstr /\ U64(x.chain_id) \in Bstr
      /\ lp64(x.env) \in Bstr /\ lp64(x.request_id) \in Bstr /\ Tag(7) \in Bstr
  BY <1>2, Pieces, PreimagesAssumption
<1>4. p \in Seq(Bstr) /\ Len(p) > 0 /\ p[1] = Tag(7) BY <1>3
<1>5. report_data_for_restore_completion(x) = FlattenSeq(p)
  BY DEF report_data_for_restore_completion
<1> HIDE DEF p
<1>6. 7 \in Nat OBVIOUS
<1> QED BY <1>4, <1>5, <1>6, TagFirst

\* The report data of the anchor handshake begins with its domain.
LEMMA BeginsHandshake ==
  ASSUME NEW x \in Inputs("handshake")
  PROVE  \E r \in Bstr : anchor_handshake_report_data(x) = Tag(8) \o r
<1> DEFINE p == <<Tag(8), U64(x.chain_id), lp32(x.env), x.nonce>>
<1>1. x \in [chain_id : u64, env : Upto(u32), nonce : Array(DIGEST_LEN)] BY DEF Inputs
<1>2. x.chain_id \in u64 /\ x.env \in Upto(u32) /\ x.nonce \in Array(DIGEST_LEN) BY <1>1
<1>3. U64(x.chain_id) \in Bstr /\ lp32(x.env) \in Bstr /\ x.nonce \in Bstr /\ Tag(8) \in Bstr
  BY <1>2, Pieces, PreimagesAssumption
<1>4. p \in Seq(Bstr) /\ Len(p) > 0 /\ p[1] = Tag(8) BY <1>3
<1>5. anchor_handshake_report_data(x) = FlattenSeq(p) BY DEF anchor_handshake_report_data
<1> HIDE DEF p
<1>6. 8 \in Nat OBVIOUS
<1> QED BY <1>4, <1>5, <1>6, TagFirst

\* What a sealing key is derived from begins with its domain.
LEMMA BeginsKeys ==
  ASSUME NEW a \in Array(DIGEST_LEN), NEW b \in Array(DIGEST_LEN)
  PROVE  /\ \E r \in Bstr : KeystoreKey(a, b) = Tag(11) \o r
         /\ \E r \in Bstr : ProducerKey(a, b) = Tag(13) \o r
<1> DEFINE p == <<Tag(11), a, b>>
           q == <<Tag(13), a, b>>
<1>1. a \in Bstr /\ b \in Bstr /\ Tag(11) \in Bstr /\ Tag(13) \in Bstr
  BY Pieces, PreimagesAssumption
<1>2. /\ p \in Seq(Bstr) /\ Len(p) > 0 /\ p[1] = Tag(11)
      /\ q \in Seq(Bstr) /\ Len(q) > 0 /\ q[1] = Tag(13)
  BY <1>1
<1>3. KeystoreKey(a, b) = FlattenSeq(p) /\ ProducerKey(a, b) = FlattenSeq(q)
  BY DEF KeystoreKey, ProducerKey
<1> HIDE DEF p, q
<1>4. 11 \in Nat /\ 13 \in Nat OBVIOUS
<1> QED BY <1>2, <1>3, <1>4, TagFirst

\* An identity proof begins with the byte 25.
LEMMA BeginsIdentity ==
  ASSUME NEW x \in Inputs("identity")
  PROVE  identity_proof_preimage(x)[1] = 25
<1> DEFINE h == <<25, 30>>
           p == <<h, Tag(0), U64(x.chain_id), lp8(x.env), x.key_ref, x.key, x.nonce>>
<1>1. x \in [chain_id : u64, env : Upto(u8), key_ref : Array(DIGEST_LEN), key : Array(KEY_LEN),
             nonce : Array(DIGEST_LEN)]
  BY DEF Inputs
<1>2. /\ x.chain_id \in u64 /\ x.env \in Upto(u8) /\ x.key_ref \in Array(DIGEST_LEN)
      /\ x.key \in Array(KEY_LEN) /\ x.nonce \in Array(DIGEST_LEN)
  BY <1>1
<1>3. /\ U64(x.chain_id) \in Bstr /\ lp8(x.env) \in Bstr /\ x.key_ref \in Bstr /\ x.key \in Bstr
      /\ x.nonce \in Bstr /\ Tag(0) \in Bstr
  BY <1>2, Pieces, PreimagesAssumption
<1>4. h \in Bstr /\ Len(h) = 2 /\ h[1] = 25 BY SMT DEF Bstr
<1>5. identity_proof_preimage(x) = FlattenSeq(p) BY DEF identity_proof_preimage
<1> HIDE DEF h
<1>6. p \in Seq(Bstr) /\ Len(p) > 0 /\ p[1] = h BY <1>3, <1>4
<1> HIDE DEF p
<1>7. PICK r \in Bstr : FlattenSeq(p) = h \o r
  <2>1. PICK r \in Bstr : FlattenSeq(p) = p[1] \o r BY <1>6, FirstField
  <2> QED BY <1>6, <2>1
<1>8. 1 \in 1 .. Len(h) BY <1>4
<1>9. (h \o r)[1] = h[1] BY <1>4, <1>7, <1>8, Prefix
<1> QED BY <1>4, <1>5, <1>7, <1>9

\* The preimage of a transfer is an RLP list and begins with 192 or more.
LEMMA BeginsTransfer ==
  ASSUME NEW x \in Inputs("transfer")
  PROVE  unsigned_preimage(x)[1] >= 192
<1> DEFINE p == <<encode_uint_minimal(U64(x.nonce)), encode_uint_minimal(x.gas_price),
                  encode_uint_minimal(U64(x.gas_limit)), encode_bytes(x.to),
                  encode_uint_minimal(x.value), encode_bytes(<< >>),
                  encode_uint_minimal(U64(x.chain_id)), encode_uint_minimal(<< >>),
                  encode_uint_minimal(<< >>)>>
<1>1. x \in [nonce : u64, gas_price : MinimalU256, gas_limit : u64, to : Array(20),
             value : MinimalU256, chain_id : u64]
  BY DEF Inputs
<1>2. /\ x.nonce \in u64 /\ x.gas_price \in MinimalU256 /\ x.gas_limit \in u64 /\ x.to \in Array(20)
      /\ x.value \in MinimalU256 /\ x.chain_id \in u64
  BY <1>1
<1>3. \A n \in {0, 20} : n \in u64
  <2>1. 0 \in u8 /\ 20 \in u8 BY SMT DEF u8
  <2> QED BY <2>1, ByteRange
<1>4. << >> \in Bstr /\ Len(<< >>) = 0 /\ x.to \in Bstr /\ Len(x.to) = 20
  <2>1. 20 \in Nat OBVIOUS
  <2> QED BY <1>2, <2>1, Arrays, BstrProps
<1>5. << >> \in Upto(u64) /\ x.to \in Upto(u64) BY <1>3, <1>4 DEF Upto
<1>6. encode_bytes(<< >>) \in Bstr /\ encode_bytes(x.to) \in Bstr BY <1>5, EncodeBytes
<1>7. MinimalOf(<< >>) = << >> BY <1>4, MinimalFixed
<1>8. encode_uint_minimal(<< >>) \in Bstr BY <1>6, <1>7 DEF encode_uint_minimal
<1>9. \A v \in u64 : encode_uint_minimal(U64(v)) \in Bstr BY CodedRlpInteger DEF Coded
<1>10. \A v \in MinimalU256 : encode_uint_minimal(v) \in Bstr BY CodedRlpU256 DEF Coded
<1>11. p \in Seq(Bstr) BY <1>2, <1>6, <1>8, <1>9, <1>10
<1>12. unsigned_preimage(x) = encode_list(p) BY DEF unsigned_preimage
<1> HIDE DEF p
<1> QED BY <1>11, <1>12, ListHead

\* The preimage of a ticket is in ABI words and begins with 0.
LEMMA BeginsTicket ==
  ASSUME NEW x \in Tickets
  PROVE  TicketPreimage(x)[1] = 0
<1> DEFINE fork == IF x.type = 0 \/ x.fork = << >> THEN Zeros(WORD) ELSE x.fork[1]
           ver == IF x.type = 0 \/ x.version = << >> THEN 0 ELSE x.version[1]
           at == Word(U64(8 * WORD + Len(Dynamic(x.measurement))))
           w == Word(<<x.type>>)
           p == <<w, Word(U64(x.nonce)), x.context, Word(U64(x.height)), Word(U64(8 * WORD)), at, fork,
                  Word(U64(ver)), Dynamic(x.measurement), Dynamic(x.pubkey)>>
<1>1. x \in [type : u8, nonce : u64, context : Array(WORD), height : u64, measurement : Upto(u64),
             pubkey : Upto(u64), fork : AtMostOne(Array(WORD)), version : AtMostOne(u32)]
  BY DEF Tickets
<1>2. /\ x.type \in u8 /\ x.nonce \in u64 /\ x.context \in Array(WORD) /\ x.height \in u64
      /\ x.measurement \in Upto(u64) /\ x.pubkey \in Upto(u64)
      /\ x.fork \in AtMostOne(Array(WORD)) /\ x.version \in AtMostOne(u32)
  BY <1>1
<1>3. WORD \in Nat /\ WORD >= 8 BY PreimagesAssumption
<1>4. \A S : \A z \in AtMostOne(S) : z # << >> => z[1] \in S
  <2> SUFFICES ASSUME NEW S, NEW z \in Seq(S), Len(z) <= 1, z # << >> PROVE z[1] \in S
    BY DEF AtMostOne
  <2>1. Len(z) \in Nat /\ Len(z) # 0 BY EmptySeq
  <2> QED BY <2>1
<1>5. \A n \in Nat : Word(U64(n)) \in Bstr
  <2> SUFFICES ASSUME NEW n \in Nat PROVE Word(U64(n)) \in Bstr OBVIOUS
  <2>1. U64(n) \in Bstr /\ Len(U64(n)) = 8 BY U64Props
  <2> QED BY <1>3, <2>1, Words
<1>6. fork \in Bstr
  <2>1. Zeros(WORD) \in Array(WORD) BY <1>3 DEF Zeros, Array
  <2>2. fork \in Array(WORD) BY <1>2, <1>4, <2>1
  <2> QED BY <1>3, <2>2, Arrays
<1>7. ver \in Nat
  <2>1. \A v \in u32 : v \in Nat BY SMT, Range8
  <2> QED BY <1>2, <1>4, <2>1
<1>8. Dynamic(x.measurement) \in Bstr /\ Dynamic(x.pubkey) \in Bstr BY <1>2, CodedDynamic DEF Coded
<1>9. x.context \in Bstr BY <1>2, <1>3, Arrays
<1>10. at \in Bstr /\ Word(U64(8 * WORD)) \in Bstr
  <2>1. Len(Dynamic(x.measurement)) \in Nat BY <1>8, BstrProps
  <2>2. 8 * WORD + Len(Dynamic(x.measurement)) \in Nat /\ 8 * WORD \in Nat BY <1>3, <2>1
  <2> QED BY <1>5, <2>2
<1>11. Word(U64(x.nonce)) \in Bstr /\ Word(U64(x.height)) \in Bstr /\ Word(U64(ver)) \in Bstr
  <2>1. \A v \in u64 : v \in Nat BY SMT, Range8
  <2> HIDE DEF ver
  <2> QED BY <1>2, <1>5, <1>7, <2>1
<1>12. w \in Bstr /\ Len(w) = WORD /\ w[1] = 0
  <2> DEFINE t == <<x.type>>
             z == Zeros(WORD - Len(t))
  <2>1. t \in Bstr /\ Len(t) = 1 BY <1>2, ByteRange, MapHead
  <2>2. w = z \o t BY DEF Word
  <2> HIDE DEF t
  <2>3. z \in Bstr /\ Len(z) = WORD - 1 /\ z[1] = 0 BY <1>3, <2>1 DEF Zeros, Bstr
  <2> HIDE DEF z, w
  <2>4. 1 \in 1 .. Len(z) BY <1>3, <2>3
  <2>5. (z \o t)[1] = z[1] BY <2>1, <2>3, <2>4, Prefix
  <2>6. z \o t \in Bstr /\ Len(z \o t) = Len(z) + Len(t) BY <2>1, <2>3, BstrProps
  <2> QED BY <1>3, <2>1, <2>2, <2>3, <2>5, <2>6
<1>13. TicketPreimage(x) = FlattenSeq(p) BY DEF TicketPreimage
<1> HIDE DEF fork, ver, at, w
<1>14. p \in Seq(Bstr) /\ Len(p) > 0 /\ p[1] = w BY <1>6, <1>8, <1>9, <1>10, <1>11, <1>12
<1> HIDE DEF p
<1>15. PICK r \in Bstr : FlattenSeq(p) = w \o r
  <2>1. PICK r \in Bstr : FlattenSeq(p) = p[1] \o r BY <1>14, FirstField
  <2> QED BY <1>14, <2>1
<1>16. 1 \in 1 .. Len(w) BY <1>3, <1>12
<1>17. (w \o r)[1] = w[1] BY <1>12, <1>15, <1>16, Prefix
<1> QED BY <1>12, <1>13, <1>15, <1>17

-----------------------------------------------------------------------------
(* Sets of identities in the order of their refs *)

\* Rust's order of byte slices is a strict total order on arrays.
LEMMA LexTotal ==
  ASSUME NEW n \in Nat, NEW a \in Array(n), NEW b \in Array(n), a # b
  PROVE  LexLess(a, b) \/ LexLess(b, a)
<1> DEFINE T == {i \in 1 .. n : a[i] # b[i]}
<1>1. a \in [1 .. n -> Nat] /\ b \in [1 .. n -> Nat] /\ Len(a) = n /\ Len(b) = n BY Arrays DEF Array
<1>2. T # {}
  <2>1. ASSUME \A i \in 1 .. n : a[i] = b[i] PROVE FALSE
    <3>1. a = [i \in 1 .. n |-> a[i]] /\ b = [i \in 1 .. n |-> b[i]] BY <1>1
    <3> QED BY <2>1, <3>1
  <2> QED BY <2>1
<1>3. PICK m \in T : \A k \in T : m <= k
  <2>1. T \subseteq Nat OBVIOUS
  <2> HIDE DEF T
  <2> QED BY <1>2, <2>1, Least
<1>4. m \in 1 .. n /\ a[m] \in Nat /\ b[m] \in Nat /\ a[m] # b[m] BY <1>1
<1>5. \A j \in 1 .. m - 1 : a[j] = b[j]
  <2> SUFFICES ASSUME NEW j \in 1 .. m - 1 PROVE a[j] = b[j] OBVIOUS
  <2>1. j \in 1 .. n /\ ~ m <= j BY <1>4
  <2> QED BY <1>3, <2>1
<1>6. m <= n + 1 BY <1>4
<1>7. CASE a[m] < b[m] BY <1>1, <1>4, <1>5, <1>6, <1>7 DEF LexLess
<1>8. CASE b[m] < a[m] BY <1>1, <1>4, <1>5, <1>6, <1>8 DEF LexLess
<1> QED BY <1>4, <1>7, <1>8

\* Arrays of one length are ordered by the first byte they differ in.
LEMMA LexAt ==
  ASSUME NEW n \in Nat, NEW a \in Array(n), NEW b \in Array(n)
  PROVE  LexLess(a, b) <=> \E i \in 1 .. n : (\A j \in 1 .. i - 1 : a[j] = b[j]) /\ a[i] < b[i]
<1>1. Len(a) = n /\ Len(b) = n BY Arrays
<1>2. \A i \in 1 .. n : i <= n + 1 /\ i # n + 1 OBVIOUS
<1> QED BY <1>1, <1>2 DEF LexLess

\* No array is below itself.
LEMMA LexIrreflexive ==
  ASSUME NEW n \in Nat, NEW a \in Array(n)
  PROVE  ~ LexLess(a, a)
<1>1. \A i \in 1 .. n : a[i] \in Nat BY DEF Array
<1> QED BY <1>1, LexAt

\* The order of arrays is transitive.
LEMMA LexTransitive ==
  ASSUME NEW n \in Nat, NEW a \in Array(n), NEW b \in Array(n), NEW c \in Array(n),
         LexLess(a, b), LexLess(b, c)
  PROVE  LexLess(a, c)
<1>1. PICK i \in 1 .. n : (\A j \in 1 .. i - 1 : a[j] = b[j]) /\ a[i] < b[i] BY LexAt
<1>2. PICK k \in 1 .. n : (\A j \in 1 .. k - 1 : b[j] = c[j]) /\ b[k] < c[k] BY LexAt
<1>3. \A j \in 1 .. n : a[j] \in Nat /\ b[j] \in Nat /\ c[j] \in Nat BY DEF Array
<1>4. \E l \in 1 .. n : (\A j \in 1 .. l - 1 : a[j] = c[j]) /\ a[l] < c[l]
  <2>1. CASE i <= k
    <3>1. \A j \in 1 .. i - 1 : j \in 1 .. k - 1 BY <2>1
    <3>2. \A j \in 1 .. i - 1 : a[j] = c[j] BY <1>1, <1>2, <3>1
    <3>3. a[i] < c[i]
      <4>1. CASE i = k BY <1>1, <1>2, <1>3, <4>1
      <4>2. CASE i # k
        <5>1. i \in 1 .. k - 1 BY <2>1, <4>2
        <5> QED BY <1>1, <1>2, <5>1
      <4> QED BY <4>1, <4>2
    <3> QED BY <3>2, <3>3
  <2>2. CASE ~ i <= k
    <3>1. k \in 1 .. i - 1 /\ \A j \in 1 .. k - 1 : j \in 1 .. i - 1 BY <2>2
    <3>2. \A j \in 1 .. k - 1 : a[j] = c[j] BY <1>1, <1>2, <3>1
    <3>3. a[k] < c[k] BY <1>1, <1>2, <3>1
    <3> QED BY <3>2, <3>3
  <2> QED BY <2>1, <2>2
<1> QED BY <1>4, LexAt

Identities == [key_ref : Array(DIGEST_LEN), public_identity : Upto(u64), key_purpose : u64]

\* Finite sets in which a ref tells the identity.
Keyed(S) == S \subseteq Identities /\ IsFiniteSet(S) /\ \A e, f \in S : e.key_ref = f.key_ref => e = f

\* Of two identities with different references one comes first.
LEMMA RefOrder ==
  ASSUME NEW e \in Identities, NEW f \in Identities, e.key_ref # f.key_ref
  PROVE  LexLess(e.key_ref, f.key_ref) \/ LexLess(f.key_ref, e.key_ref)
BY LexTotal, PreimagesAssumption DEF Identities

\* A set of identities with different references has a last one.
LEMMA LastRef ==
  \A n \in Nat : \A S : Keyed(S) /\ Cardinality(S) = n + 1 =>
      \E e \in S : \A f \in S : f = e \/ LexLess(f.key_ref, e.key_ref)
<1> DEFINE HasLast(S) == \E e \in S : \A f \in S : f = e \/ LexLess(f.key_ref, e.key_ref)
           T == {n \in Nat : \A S \in SUBSET Identities : Keyed(S) /\ Cardinality(S) = n + 1 => HasLast(S)}
<1>1. 0 \in T
  <2> SUFFICES ASSUME NEW S \in SUBSET Identities, Keyed(S), Cardinality(S) = 1 PROVE HasLast(S)
    OBVIOUS
  <2>1. \E x : S = {x} BY FS_Singleton DEF Keyed
  <2> QED BY <2>1
<1>2. ASSUME NEW n \in Nat, n \in T PROVE n + 1 \in T
  <2> SUFFICES ASSUME NEW S \in SUBSET Identities, Keyed(S), Cardinality(S) = (n + 1) + 1
               PROVE  HasLast(S)
    OBVIOUS
  <2>1. S # {} BY FS_EmptySet
  <2>2. PICK e \in S : TRUE BY <2>1
  <2> DEFINE R == S \ {e}
  <2>3. IsFiniteSet(R) /\ Cardinality(R) = n + 1 BY FS_RemoveElement DEF Keyed
  <2>4. R \in SUBSET Identities /\ Keyed(R) BY <2>3 DEF Keyed
  <2>5. HasLast(R) BY <1>2, <2>3, <2>4
  <2>6. PICK m \in R : \A f \in R : f = m \/ LexLess(f.key_ref, m.key_ref) BY <2>5
  <2>7. e.key_ref # m.key_ref BY <2>2, <2>6 DEF Keyed
  <2>8. e \in Identities /\ m \in Identities BY <2>2, <2>6
  <2>9. CASE LexLess(e.key_ref, m.key_ref)
    <3>1. \A f \in S : f = m \/ LexLess(f.key_ref, m.key_ref) BY <2>6, <2>9
    <3> QED BY <2>6, <3>1
  <2>10. CASE LexLess(m.key_ref, e.key_ref)
    <3>1. ASSUME NEW f \in S PROVE f = e \/ LexLess(f.key_ref, e.key_ref)
      <4>1. CASE f = e BY <4>1
      <4>2. CASE f = m BY <2>10, <4>2
      <4>3. CASE f # e /\ f # m
        <5>1. LexLess(f.key_ref, m.key_ref) BY <2>6, <4>3
        <5>2. /\ f.key_ref \in Array(DIGEST_LEN) /\ m.key_ref \in Array(DIGEST_LEN)
              /\ e.key_ref \in Array(DIGEST_LEN)
          BY <2>8 DEF Identities
        <5> QED BY <2>10, <5>1, <5>2, LexTransitive, PreimagesAssumption
      <4> QED BY <4>1, <4>2, <4>3
    <3> QED BY <2>2, <3>1
  <2> QED BY <2>7, <2>8, <2>9, <2>10, RefOrder
<1>3. \A n \in Nat : n \in T
  <2> HIDE DEF T
  <2> QED BY <1>1, <1>2, Induct, Zenon
<1> QED BY <1>3 DEF Keyed

\* A set of identities with different references can be listed in their order.
LEMMA Enumerated ==
  \A n \in Nat : \A S : Keyed(S) /\ Cardinality(S) = n => \E q \in [1 .. n -> S] : SortedByRef(q)
<1> DEFINE Listed(n, S) == \E q \in [1 .. n -> S] : SortedByRef(q)
           T == {n \in Nat : \A S \in SUBSET Identities : Keyed(S) /\ Cardinality(S) = n => Listed(n, S)}
<1>1. 0 \in T
  <2> SUFFICES ASSUME NEW S PROVE Listed(0, S) OBVIOUS
  <2> DEFINE q == [i \in 1 .. 0 |-> 0]
  <2>1. q \in [1 .. 0 -> S] /\ DOMAIN q = {} OBVIOUS
  <2>2. SortedByRef(q) BY <2>1 DEF SortedByRef
  <2> QED BY <2>1, <2>2
<1>2. ASSUME NEW n \in Nat, n \in T PROVE n + 1 \in T
  <2> SUFFICES ASSUME NEW S \in SUBSET Identities, Keyed(S), Cardinality(S) = n + 1
               PROVE  Listed(n + 1, S)
    OBVIOUS
  <2>1. PICK e \in S : \A f \in S : f = e \/ LexLess(f.key_ref, e.key_ref) BY LastRef
  <2> DEFINE R == S \ {e}
  <2>2. IsFiniteSet(R) /\ Cardinality(R) = n
    <3>1. IsFiniteSet(S) /\ (n + 1) - 1 = n BY DEF Keyed
    <3>2. IsFiniteSet(R) /\ Cardinality(R) = Cardinality(S) - 1 BY <2>1, <3>1, FS_RemoveElement
    <3> QED BY <3>1, <3>2
  <2>3. R \in SUBSET Identities /\ Keyed(R) BY <2>2 DEF Keyed
  <2>4. Listed(n, R) BY <1>2, <2>2, <2>3
  <2>5. PICK q \in [1 .. n -> R] : SortedByRef(q) BY <2>4
  <2> DEFINE r == [i \in 1 .. n + 1 |-> IF i = n + 1 THEN e ELSE q[i]]
  <2>6. \A i \in 1 .. n + 1 : i = n + 1 \/ i \in 1 .. n OBVIOUS
  <2>7. r \in [1 .. n + 1 -> S] BY <2>5, <2>6
  <2>8. SortedByRef(r)
    <3> SUFFICES ASSUME NEW i \in 1 .. n + 1, NEW j \in 1 .. n + 1, i < j
                 PROVE  LexLess(r[i].key_ref, r[j].key_ref)
      BY <2>7 DEF SortedByRef
    <3>1. i \in 1 .. n /\ r[i] = q[i] OBVIOUS
    <3>2. CASE j = n + 1
      <4>1. q[i] \in R BY <2>5, <3>1
      <4> QED BY <2>1, <3>1, <3>2, <4>1
    <3>3. CASE j # n + 1
      <4>1. j \in 1 .. n /\ r[j] = q[j] BY <3>3
      <4> QED BY <2>5, <3>1, <4>1 DEF SortedByRef
    <3> QED BY <3>2, <3>3
  <2> QED BY <2>7, <2>8
<1>3. \A n \in Nat : n \in T
  <2> HIDE DEF T
  <2> QED BY <1>1, <1>2, Induct, Zenon
<1> QED BY <1>3 DEF Keyed

\* A sorted list of as many identities as the set has lists the set.
LEMMA SortedOnto ==
  ASSUME NEW S, Keyed(S), NEW q \in [1 .. Cardinality(S) -> S], SortedByRef(q)
  PROVE  S = {q[i] : i \in 1 .. Cardinality(S)}
<1> DEFINE n == Cardinality(S)
<1>1. IsFiniteSet(S) /\ n \in Nat BY FS_CardinalityType DEF Keyed
<1>2. ASSUME NEW i \in 1 .. n, NEW j \in 1 .. n, i < j PROVE q[i] # q[j]
  <2>1. LexLess(q[i].key_ref, q[j].key_ref) BY <1>2 DEF SortedByRef
  <2>2. q[i] \in Identities BY DEF Keyed
  <2>3. q[i].key_ref \in Array(DIGEST_LEN) BY <2>2 DEF Identities
  <2>4. ~ LexLess(q[i].key_ref, q[i].key_ref) BY <2>3, LexIrreflexive, PreimagesAssumption
  <2> QED BY <2>1, <2>4
<1> HIDE DEF n
<1>3. q \in Injection(1 .. n, S)
  <2>1. \A i, j \in 1 .. n : q[i] = q[j] => i = j
    <3> SUFFICES ASSUME NEW i \in 1 .. n, NEW j \in 1 .. n, q[i] = q[j] PROVE i = j OBVIOUS
    <3>1. ~ i < j /\ ~ j < i BY <1>2
    <3> QED BY <3>1
  <2>2. q \in [1 .. n -> S] BY DEF n
  <2> QED BY <2>1, <2>2 DEF Injection, IsInjective
<1>4. Cardinality(1 .. n) = n
  <2>1. 1 \in Int /\ n \in Int BY <1>1
  <2> QED BY <1>1, <2>1, FS_Interval
<1>5. q \in Surjection(1 .. n, S) BY <1>1, <1>3, <1>4, FS_Injection DEF n
<1> QED BY <1>5 DEF Surjection, n
-----------------------------------------------------------------------------
(* The hash of a restored identity set *)

\* An identity of a restored set is coded.  (PutIdentity)
LEMMA CodedIdentity == \A e, f \in Identities : Coded(PutIdentity(e), PutIdentity(f), e, f)
<1> SUFFICES ASSUME NEW e \in Identities, NEW f \in Identities
             PROVE  Coded(PutIdentity(e), PutIdentity(f), e, f)
  OBVIOUS
<1> DEFINE p == <<e.key_ref, lp64(e.public_identity), U64(e.key_purpose)>>
           q == <<f.key_ref, lp64(f.public_identity), U64(f.key_purpose)>>
<1>1. /\ e.key_ref \in Array(DIGEST_LEN) /\ e.public_identity \in Upto(u64) /\ e.key_purpose \in u64
      /\ f.key_ref \in Array(DIGEST_LEN) /\ f.public_identity \in Upto(u64) /\ f.key_purpose \in u64
  BY DEF Identities
<1>2. Coded(e.key_ref, f.key_ref, e.key_ref, f.key_ref) BY <1>1, CodedArray, PreimagesAssumption
<1>3. Coded(lp64(e.public_identity), lp64(f.public_identity), e.public_identity, f.public_identity)
  BY <1>1, CodedLp
<1>4. Coded(U64(e.key_purpose), U64(f.key_purpose), e.key_purpose, f.key_purpose) BY <1>1, CodedU64
<1>5. p \in Seq(Bstr) /\ q \in Seq(Bstr) /\ Len(p) = 3 /\ Len(q) = 3 BY <1>2, <1>3, <1>4 DEF Coded
<1>6. \A i \in 1 .. 3 : Sd(p[i], q[i]) BY <1>2, <1>3, <1>4 DEF Coded
<1>7. p = q => e = f
  <2>1. p = q => e.key_ref = f.key_ref /\ lp64(e.public_identity) = lp64(f.public_identity)
                 /\ U64(e.key_purpose) = U64(f.key_purpose)
    OBVIOUS
  <2> HIDE DEF p, q
  <2>2. p = q => e.key_ref = f.key_ref /\ e.public_identity = f.public_identity
                 /\ e.key_purpose = f.key_purpose
    BY <1>3, <1>4, <2>1 DEF Coded
  <2> QED BY <2>2 DEF Identities
<1>8. PutIdentity(e) = FlattenSeq(p) /\ PutIdentity(f) = FlattenSeq(q) BY DEF PutIdentity
<1> HIDE DEF p, q
<1>9. FlattenSeq(p) \in Bstr /\ FlattenSeq(q) \in Bstr BY <1>5, FlatBstr
<1>10. Len(p) = Len(q) /\ Len(p) > 0 /\ \A i \in 1 .. Len(p) : Sd(p[i], q[i]) BY <1>5, <1>6
<1>11. Sd(FlattenSeq(p), FlattenSeq(q)) BY <1>5, <1>10, SdFields
<1>12. FlattenSeq(p) = FlattenSeq(q) => p = q
  <2>1. \A i \in 1 .. Len(p) - 1 : Sd(p[i], q[i]) BY <1>5, <1>6
  <2> QED BY <1>5, <1>10, <2>1, EachField
<1> QED BY <1>7, <1>8, <1>9, <1>11, <1>12 DEF Coded

\* The bytes of a set: its size, and its identities in the order of their refs.
LEMMA IdentitySetFields ==
  ASSUME NEW S \in IdentitySets
  PROVE  \E q \in [1 .. Cardinality(S) -> S], p \in Seq(Bstr) :
            /\ S = {q[i] : i \in 1 .. Cardinality(S)}
            /\ Len(p) = 1 + Cardinality(S) /\ p[1] = U64(Cardinality(S))
            /\ \A i \in 1 .. Cardinality(S) : p[1 + i] = PutIdentity(q[i])
            /\ compute_restored_identity_set_hash(S) = FlattenSeq(p)
<1> DEFINE n == Cardinality(S)
           q == CHOOSE q \in [1 .. n -> S] : SortedByRef(q)
           h == <<U64(n)>>
           g == [i \in DOMAIN q |-> PutIdentity(q[i])]
<1>1. Keyed(S) /\ n \in u64
  <2> HIDE DEF u64, Upto, Array
  <2> QED BY DEF IdentitySets, Keyed, Identities
<1>2. n \in Nat BY <1>1, U64Nat
<1>3. q \in [1 .. n -> S] /\ SortedByRef(q) 
  <2>1. \E r \in [1 .. n -> S] : SortedByRef(r) BY <1>1, <1>2, Enumerated
  <2> QED BY <2>1
<1>4. compute_restored_identity_set_hash(S) = FlattenSeq(h \o g)
  BY DEF compute_restored_identity_set_hash
<1> HIDE DEF q
<1>5. S = {q[i] : i \in 1 .. n} BY <1>1, <1>3, SortedOnto
<1>6. h \in Seq(Bstr) /\ Len(h) = 1 /\ h[1] = U64(n)
  <2>1. U64(n) \in Bstr BY <1>1, Pieces
  <2> QED BY <2>1
<1>7. \A i \in 1 .. n : PutIdentity(q[i]) \in Bstr
  <2>1. \A i \in 1 .. n : q[i] \in Identities BY <1>1, <1>3 DEF Keyed
  <2> QED BY <2>1, CodedIdentity DEF Coded
<1>8. g = [i \in 1 .. n |-> PutIdentity(q[i])] BY <1>3
<1> HIDE DEF n, h
<1>9. g \in Seq(Bstr) /\ Len(g) = n BY <1>2, <1>7, <1>8, IsASeq
<1>10. \A i \in 1 .. n : g[i] = PutIdentity(q[i]) BY <1>8
<1> HIDE DEF g
<1>11. h \o g \in Seq(Bstr) /\ Len(h \o g) = 1 + n
  <2>1. h \o g \in Seq(Bstr) /\ Len(h \o g) = Len(h) + Len(g) BY <1>6, <1>9, ConcatProperties
  <2> QED BY <1>6, <1>9, <2>1
<1>12. (h \o g)[1] = U64(n) BY <1>2, <1>6, <1>9, <1>11
<1>13. \A i \in 1 .. n : (h \o g)[1 + i] = PutIdentity(q[i])
  <2> SUFFICES ASSUME NEW i \in 1 .. n PROVE (h \o g)[1 + i] = PutIdentity(q[i]) OBVIOUS
  <2>1. 1 + i \in 1 .. 1 + n /\ ~ 1 + i <= 1 /\ (1 + i) - 1 = i BY <1>2
  <2>2. (h \o g)[1 + i] = g[i] BY <2>1, <1>6, <1>9, <1>11
  <2> QED BY <2>2, <1>10
<1> QED BY <1>3, <1>4, <1>5, <1>11, <1>12, <1>13 DEF n

\* The preimage of a restored set's hash determines the set: it is written in one order.
\* (compute_restored_identity_set_hash)
LEMMA SameIdentitySet ==
  ASSUME NEW S \in IdentitySets, NEW R \in IdentitySets,
         compute_restored_identity_set_hash(S) = compute_restored_identity_set_hash(R)
  PROVE  S = R
<1> DEFINE m == Cardinality(S)
           n == Cardinality(R)
<1>1. /\ S \subseteq Identities /\ R \subseteq Identities /\ m \in u64 /\ n \in u64
  <2> HIDE DEF u64, Upto, Array
  <2> QED BY DEF IdentitySets, Identities
<1>2. m \in Nat /\ n \in Nat BY <1>1, U64Nat
<1>3. PICK a \in [1 .. m -> S], p \in Seq(Bstr) :
         /\ S = {a[i] : i \in 1 .. m}
         /\ Len(p) = 1 + m /\ p[1] = U64(m)
         /\ \A i \in 1 .. m : p[1 + i] = PutIdentity(a[i])
         /\ compute_restored_identity_set_hash(S) = FlattenSeq(p)
  BY IdentitySetFields
<1>4. PICK b \in [1 .. n -> R], q \in Seq(Bstr) :
         /\ R = {b[i] : i \in 1 .. n}
         /\ Len(q) = 1 + n /\ q[1] = U64(n)
         /\ \A i \in 1 .. n : q[1 + i] = PutIdentity(b[i])
         /\ compute_restored_identity_set_hash(R) = FlattenSeq(q)
  BY IdentitySetFields
<1>5. FlattenSeq(p) = FlattenSeq(q) BY <1>3, <1>4
<1> HIDE DEF m, n
<1>6. Coded(p[1], q[1], m, n) BY <1>1, <1>3, <1>4, CodedU64
<1>7. m = n
  <2>1. Len(p) > 0 /\ Len(q) > 0 BY <1>2, <1>3, <1>4
  <2>2. PICK r \in Bstr : FlattenSeq(p) = p[1] \o r BY <1>3, <2>1, FirstField
  <2>3. PICK s \in Bstr : FlattenSeq(q) = q[1] \o s BY <1>4, <2>1, FirstField
  <2>4. p[1] \o r = q[1] \o s BY <1>5, <2>2, <2>3
  <2>5. p[1] = q[1] BY <1>6, <2>2, <2>3, <2>4 DEF Coded, Sd
  <2> QED BY <1>6, <2>5 DEF Coded
<1>8. \A i \in 1 .. m : Coded(p[1 + i], q[1 + i], a[i], b[i])
  <2> SUFFICES ASSUME NEW i \in 1 .. m PROVE Coded(p[1 + i], q[1 + i], a[i], b[i]) OBVIOUS
  <2>1. i \in 1 .. n BY <1>7
  <2>2. a[i] \in Identities /\ b[i] \in Identities BY <1>1, <1>3, <1>4, <2>1
  <2> QED BY <1>3, <1>4, <2>1, <2>2, CodedIdentity
<1>9. \A i \in 1 .. 1 + m : Sd(p[i], q[i])
  <2> SUFFICES ASSUME NEW i \in 1 .. 1 + m PROVE Sd(p[i], q[i]) OBVIOUS
  <2>1. CASE i = 1 BY <1>6, <2>1 DEF Coded
  <2>2. CASE i # 1
    <3>1. i - 1 \in 1 .. m /\ 1 + (i - 1) = i BY <1>2, <2>2
    <3> QED BY <1>8, <3>1 DEF Coded
  <2> QED BY <2>1, <2>2
<1>10. p = q
  <2>1. Len(p) = Len(q) /\ Len(p) > 0 BY <1>2, <1>3, <1>4, <1>7
  <2>2. \A i \in 1 .. Len(p) - 1 : Sd(p[i], q[i]) BY <1>2, <1>3, <1>9
  <2> QED BY <1>3, <1>4, <1>5, <2>1, <2>2, EachField
<1>11. \A i \in 1 .. m : a[i] = b[i] BY <1>8, <1>10 DEF Coded
<1> QED BY <1>3, <1>4, <1>7, <1>11

-----------------------------------------------------------------------------
(* Forms that are a tag and the value itself *)

SimpleForms == {"block_root", "pubkey", "keystore_measurement", "producer_measurement", "payload_key",
                "recovery_key_id", "marks_digest", "provisioning_root", "root_commit"}

\* The forms of the restore ingress: one tag, and a label that a zero byte ends.
IngressForms == {"ingress_key", "manifest_hash", "backup_digest"}

PairForms == {"keystore_key", "producer_key"}

Mark(form) ==
    CASE form = "block_root" -> 1
      [] form = "ephemeral" -> 6
      [] form = "completion" -> 7
      [] form = "handshake" -> 8
      [] form = "pubkey" -> 9
      [] form = "keystore_measurement" -> 10
      [] form = "keystore_key" -> 11
      [] form = "producer_measurement" -> 12
      [] form = "producer_key" -> 13
      [] form = "payload_key" -> 14
      [] form \in IngressForms -> 15
      [] form = "recovery_key_id" -> 16
      [] form = "marks_digest" -> 17
      [] form = "provisioning_root" -> 18
      [] form = "root_commit" -> 19

Label(form) ==
    CASE form = "ingress_key" -> <<0>>
      [] form = "manifest_hash" -> <<300, 0>>
      [] form = "backup_digest" -> <<301, 0>>

\* The forms that are a domain string and a byte string.
LEMMA SimpleBytes ==
  ASSUME NEW f \in SimpleForms, NEW x \in Inputs(f)
  PROVE  x \in Bstr /\ Mark(f) \in Nat /\ Bytes(f, x) = Tag(Mark(f)) \o x
<1>1. x \in Bstr
  <2>1. CASE f = "block_root"
    <3>1. x \in Array(WORD) BY <2>1 DEF Inputs
    <3> QED BY <3>1, Arrays, PreimagesAssumption
  <2>2. CASE f # "block_root"
    <3> HIDE DEF Bstr, Array, Upto, u8, u16, u32, u64, MinimalU256
    <3> QED BY <2>2 DEF Inputs, SimpleForms
  <2> QED BY <2>1, <2>2
<1>2. Mark(f) \in Nat BY DEF Mark, SimpleForms, IngressForms
<1>3. Bytes(f, x) = Tag(Mark(f)) \o x
  <2>1. CASE f = "block_root" BY <2>1 DEF Bytes, Mark, IngressForms, BlockRootPreimage
  <2>2. CASE f = "pubkey" BY <2>2 DEF Bytes, Mark, IngressForms, report_data_for_pubkey
  <2>3. CASE f = "keystore_measurement" BY <2>3 DEF Bytes, Mark, IngressForms, KeystoreMeasurement
  <2>4. CASE f = "producer_measurement" BY <2>4 DEF Bytes, Mark, IngressForms, ProducerMeasurement
  <2>5. CASE f = "payload_key" BY <2>5 DEF Bytes, Mark, IngressForms, derive_payload_key
  <2>6. CASE f = "recovery_key_id" BY <2>6 DEF Bytes, Mark, derive_recovery_key_id, IngressForms
  <2>7. CASE f = "marks_digest" BY <2>7 DEF Bytes, Mark, MarksDigest, IngressForms
  <2>8. CASE f = "provisioning_root" BY <2>8 DEF Bytes, Mark, derive_provisioning_root, IngressForms
  <2>9. CASE f = "root_commit" BY <2>9 DEF Bytes, Mark, SelftestCommit, IngressForms
  <2> QED BY <2>1, <2>2, <2>3, <2>4, <2>5, <2>6, <2>7, <2>8, <2>9 DEF SimpleForms
<1> QED BY <1>1, <1>2, <1>3

\* The forms of the restore ingress: a domain string, a label and a byte string.
LEMMA IngressBytes ==
  ASSUME NEW f \in IngressForms, NEW x \in Inputs(f)
  PROVE  x \in Bstr /\ Label(f) \in Bstr /\ Mark(f) \in Nat
         /\ Bytes(f, x) = Tag(Mark(f)) \o (Label(f) \o x)
<1>1. x \in Bstr
  <2> HIDE DEF Bstr, Array, Upto, u8, u16, u32, u64, MinimalU256
  <2> QED BY DEF Inputs, IngressForms
<1>2. Label(f) \in Bstr BY SMT DEF Label, IngressForms, Bstr
<1>3. Bytes(f, x) = (Tag(15) \o Label(f)) \o x
  <2>1. Append(<< >>, 0) = <<0>> OBVIOUS
  <2>2. ASSUME NEW k \in Nat PROVE Append(<<k>>, 0) = <<k, 0>>
    <3> DEFINE a == <<k>>
               b == <<k, 0>>
               c == Append(a, 0)
    <3>1. a \in Seq(Nat) /\ Len(a) = 1 /\ a[1] = k OBVIOUS
    <3>2. b \in Seq(Nat) /\ Len(b) = 2 /\ b[1] = k /\ b[2] = 0 OBVIOUS
    <3> HIDE DEF a, b
    <3>3. c \in Seq(Nat) /\ Len(c) = 2 /\ c[1] = k /\ c[2] = 0
      <4> DEFINE z == 0
      <4>1. z \in Nat OBVIOUS
      <4> HIDE DEF z
      <4>2. /\ Append(a, z) = a \o <<z>> BY <3>1, <4>1, AppendIsConcat
      <4>3. c = Append(a, z) BY DEF z
      <4> HIDE DEF c
      <4>4. c = a \o <<0>> BY <4>2, <4>3 DEF z
      <4>5. Len(<<0>>) = 1 /\ <<0>> \in Seq(Nat) /\ <<0>>[1] = 0 OBVIOUS
      <4> DEFINE d == <<0>>
      <4> HIDE DEF d
      <4>6. c = a \o d /\ d \in Seq(Nat) /\ Len(d) = 1 /\ d[1] = 0 BY <4>4, <4>5 DEF d
      <4>7. c \in Seq(Nat) /\ Len(c) = Len(a) + Len(d) BY <3>1, <4>6, ConcatProperties
      <4> QED BY <3>1, <4>6, <4>7
    <3> HIDE DEF c
    <3>4. \A i \in 1 .. Len(c) : c[i] = b[i] BY <3>2, <3>3
    <3>5. b = c BY <3>2, <3>3, <3>4, SeqEqual
    <3> QED BY <3>5 DEF a, b, c
  <2>4. CASE f = "ingress_key"
    BY <2>1, <2>4 DEF Bytes, Label, derive_ingress_key, hash_domain_tag
  <2>5. CASE f = "manifest_hash"
    BY SMT, <2>2, <2>5 DEF Bytes, Label, compute_manifest_hash, hash_domain_tag
  <2>6. CASE f = "backup_digest"
    BY SMT, <2>2, <2>6 DEF Bytes, Label, compute_original_backup_digest, hash_domain_tag
  <2> QED BY <2>4, <2>5, <2>6 DEF IngressForms
<1>4. Tag(15) \in Bstr
  <2>1. 15 \in Nat OBVIOUS
  <2> QED BY <2>1, Pieces
<1>5. (Tag(15) \o Label(f)) \o x = Tag(15) \o (Label(f) \o x)
  <2> DEFINE a == Tag(15)
             b == Label(f)
  <2>1. a \in Bstr /\ b \in Bstr BY <1>2, <1>4
  <2> HIDE DEF a, b
  <2>2. (a \o b) \o x = a \o (b \o x) BY <1>1, <2>1, Assoc
  <2> QED BY <2>2 DEF a, b
<1>6. Mark(f) = 15 BY SMT DEF Mark, IngressForms
<1> QED BY SMT, <1>1, <1>2, <1>3, <1>5, <1>6

\* The label determines the form: no label is the beginning of another.
LEMMA LabelSplit ==
  ASSUME NEW f \in IngressForms, NEW g \in IngressForms, NEW r \in Bstr, NEW s \in Bstr,
         Label(f) \o r = Label(g) \o s
  PROVE  f = g /\ r = s
<1> DEFINE a == Label(f)
           b == Label(g)
<1>1. /\ a \in Bstr /\ b \in Bstr /\ Len(a) > 0 /\ Len(b) > 0
      /\ (a[1] = b[1] => f = g /\ Len(a) = Len(b))
  BY SMT DEF Label, IngressForms, Bstr
<1> HIDE DEF a, b
<1>2. a \o r = b \o s BY DEF a, b
<1>3. 1 \in 1 .. Len(a) /\ 1 \in 1 .. Len(b) BY <1>1, BstrProps
<1>4. (a \o r)[1] = a[1] /\ (b \o s)[1] = b[1] BY <1>1, <1>3, Prefix
<1>5. f = g /\ Len(a) = Len(b) BY <1>1, <1>2, <1>4
<1> QED BY <1>1, <1>2, <1>5, SameLength

ReportForms == {"ephemeral", "completion", "handshake"}
MarkedForms == SimpleForms \cup IngressForms \cup PairForms \cup ReportForms

\* The bytes of every form with a domain string begin with it.
LEMMA MarkedBytes ==
  ASSUME NEW f \in MarkedForms, NEW x \in Inputs(f)
  PROVE  Mark(f) \in Nat /\ \E r \in Bstr : Bytes(f, x) = Tag(Mark(f)) \o r
<1>1. CASE f \in SimpleForms BY <1>1, SimpleBytes
<1>2. CASE f \in IngressForms
  <2> DEFINE a == Label(f) \o x
  <2>1. a \in Bstr BY <1>2, IngressBytes, BstrProps
  <2>2. Mark(f) \in Nat /\ Bytes(f, x) = Tag(Mark(f)) \o a BY <1>2, IngressBytes
  <2> HIDE DEF a
  <2> QED BY <2>1, <2>2
<1>3. CASE f \in PairForms
  <2>1. x \in Array(DIGEST_LEN) \X Array(DIGEST_LEN)
    <3> HIDE DEF Array
    <3> QED BY <1>3 DEF Inputs, PairForms
  <2>2. x[1] \in Array(DIGEST_LEN) /\ x[2] \in Array(DIGEST_LEN) BY <2>1
  <2>3. CASE f = "keystore_key"
    <3>1. Mark(f) = 11 /\ Mark(f) \in Nat /\ Bytes(f, x) = KeystoreKey(x[1], x[2])
      BY SMT, <2>3 DEF Mark, Bytes, IngressForms
    <3>2. \E r \in Bstr : KeystoreKey(x[1], x[2]) = Tag(11) \o r BY <2>2, BeginsKeys
    <3> QED BY SMT, <3>1, <3>2
  <2>4. CASE f = "producer_key"
    <3>1. Mark(f) = 13 /\ Mark(f) \in Nat /\ Bytes(f, x) = ProducerKey(x[1], x[2])
      BY SMT, <2>4 DEF Mark, Bytes, IngressForms
    <3>2. \E r \in Bstr : ProducerKey(x[1], x[2]) = Tag(13) \o r BY <2>2, BeginsKeys
    <3> QED BY SMT, <3>1, <3>2
  <2> QED BY <1>3, <2>3, <2>4 DEF PairForms
<1>4. CASE f \in ReportForms
  <2>1. CASE f = "ephemeral"
    <3>1. Mark(f) = 6 /\ Mark(f) \in Nat /\ Bytes(f, x) = report_data_for_restore_ephemeral(x)
      BY SMT, <2>1 DEF Mark, Bytes, IngressForms
    <3>2. \E r \in Bstr : report_data_for_restore_ephemeral(x) = Tag(6) \o r
      BY <2>1, BeginsEphemeral
    <3> QED BY SMT, <3>1, <3>2
  <2>2. CASE f = "completion"
    <3>1. Mark(f) = 7 /\ Mark(f) \in Nat /\ Bytes(f, x) = report_data_for_restore_completion(x)
      BY SMT, <2>2 DEF Mark, Bytes, IngressForms
    <3>2. \E r \in Bstr : report_data_for_restore_completion(x) = Tag(7) \o r
      BY <2>2, BeginsCompletion
    <3> QED BY SMT, <3>1, <3>2
  <2>3. CASE f = "handshake"
    <3>1. Mark(f) = 8 /\ Mark(f) \in Nat /\ Bytes(f, x) = anchor_handshake_report_data(x)
      BY SMT, <2>3 DEF Mark, Bytes, IngressForms
    <3>2. \E r \in Bstr : anchor_handshake_report_data(x) = Tag(8) \o r BY <2>3, BeginsHandshake
    <3> QED BY SMT, <3>1, <3>2
  <2> QED BY <1>4, <2>1, <2>2, <2>3 DEF ReportForms
<1> QED BY <1>1, <1>2, <1>3, <1>4 DEF MarkedForms

-----------------------------------------------------------------------------
\* The bytes of a form give back its input.
LEMMA SameInput ==
  ASSUME NEW f \in Forms, NEW x \in Inputs(f), NEW y \in Inputs(f), Bytes(f, x) = Bytes(f, y)
  PROVE  x = y
<1>1. CASE f \in SimpleForms
  <2>1. x \in Bstr /\ y \in Bstr /\ Mark(f) \in Nat /\ Tag(Mark(f)) \o x = Tag(Mark(f)) \o y
    BY <1>1, SimpleBytes
  <2> QED BY <2>1, TagSplit
<1>2. CASE f \in IngressForms
  <2>1. /\ x \in Bstr /\ y \in Bstr /\ Label(f) \in Bstr /\ Mark(f) \in Nat
        /\ Tag(Mark(f)) \o (Label(f) \o x) = Tag(Mark(f)) \o (Label(f) \o y)
    BY <1>2, IngressBytes
  <2> DEFINE a == Label(f) \o x
             b == Label(f) \o y
  <2>2. a \in Bstr /\ b \in Bstr BY <2>1, BstrProps
  <2>3. Tag(Mark(f)) \o a = Tag(Mark(f)) \o b BY <2>1
  <2> HIDE DEF a, b
  <2>4. a = b
    <3>1. Mark(f) \in Nat BY <2>1
    <3> QED BY <2>2, <2>3, <3>1, TagSplit
  <2> QED BY <1>2, <2>1, <2>4, LabelSplit DEF a, b
<1>3. CASE f \in PairForms
  <2>1. x \in Array(DIGEST_LEN) \X Array(DIGEST_LEN) /\ y \in Array(DIGEST_LEN) \X Array(DIGEST_LEN)
    <3> HIDE DEF Array
    <3> QED BY <1>3 DEF Inputs, PairForms
  <2>2. /\ x[1] \in Array(DIGEST_LEN) /\ x[2] \in Array(DIGEST_LEN) /\ x = <<x[1], x[2]>>
        /\ y[1] \in Array(DIGEST_LEN) /\ y[2] \in Array(DIGEST_LEN) /\ y = <<y[1], y[2]>>
    BY <2>1
  <2>3. CASE f = "keystore_key"
    <3>1. KeystoreKey(x[1], x[2]) = KeystoreKey(y[1], y[2]) BY <2>3 DEF Bytes
    <3>2. x[1] = y[1] /\ x[2] = y[2] BY <2>2, <3>1, SameKeystoreKey
    <3> QED BY <2>2, <3>2
  <2>4. CASE f = "producer_key"
    <3>1. ProducerKey(x[1], x[2]) = ProducerKey(y[1], y[2]) BY <2>4 DEF Bytes
    <3>2. x[1] = y[1] /\ x[2] = y[2] BY <2>2, <3>1, SameProducerKey
    <3> QED BY <2>2, <3>2
  <2> QED BY <1>3, <2>3, <2>4 DEF PairForms
<1>4. CASE f = "transfer" BY <1>4, SameTransfer DEF Bytes
<1>5. CASE f = "identity" BY <1>5, SameIdentityProof DEF Bytes
<1>6. CASE f = "ticket"
  <2>1. x \in Tickets /\ y \in Tickets BY <1>6 DEF Inputs
  <2>2. TicketPreimage(x) = TicketPreimage(y) BY <1>6 DEF Bytes
  <2> QED BY <2>1, <2>2, SameTicket
<1>7. CASE f = "chain_proof" BY <1>7, SameChainProof DEF Bytes
<1>8. CASE f = "backup" BY <1>8, SameBackup DEF Bytes
<1>9. CASE f = "ingress" BY <1>9, SameIngress DEF Bytes
<1>10. CASE f = "high_water" BY <1>10, SameHighWater DEF Bytes
<1>11. CASE f = "ephemeral" BY <1>11, SameEphemeral DEF Bytes
<1>12. CASE f = "completion" BY <1>12, SameCompletion DEF Bytes
<1>13. CASE f = "handshake" BY <1>13, SameHandshake DEF Bytes
<1>14. CASE f = "binding"
  <2>1. x \in Bindings /\ y \in Bindings BY <1>14 DEF Inputs
  <2>2. CapabilityBinds(x) = CapabilityBinds(y) BY <1>14 DEF Bytes
  <2> QED BY <2>1, <2>2, SameBinding
<1>15. CASE f = "identity_set"
  <2>1. x \in IdentitySets /\ y \in IdentitySets BY <1>15 DEF Inputs
  <2>2. compute_restored_identity_set_hash(x) = compute_restored_identity_set_hash(y)
    BY <1>15 DEF Bytes
  <2> QED BY <2>1, <2>2, SameIdentitySet
<1> QED
  BY <1>1, <1>2, <1>3, <1>4, <1>5, <1>6, <1>7, <1>8, <1>9, <1>10, <1>11, <1>12, <1>13, <1>14, <1>15
  DEF Forms, SimpleForms, IngressForms, PairForms

\* Two forms that are tagged alike are forms of the restore ingress.
LEMMA SameMark ==
  ASSUME NEW f \in MarkedForms, NEW g \in MarkedForms, Mark(f) = Mark(g), f # g
  PROVE  f \in IngressForms /\ g \in IngressForms
BY SMT DEF MarkedForms, SimpleForms, IngressForms, PairForms, ReportForms, Mark

\* Two forms with domain strings have no bytes in common.
LEMMA OtherForm ==
  ASSUME NEW f \in MarkedForms, NEW g \in MarkedForms, NEW x \in Inputs(f), NEW y \in Inputs(g),
         Bytes(f, x) = Bytes(g, y)
  PROVE  f = g
<1> SUFFICES ASSUME f # g PROVE FALSE OBVIOUS
<1>1. PICK r \in Bstr : Bytes(f, x) = Tag(Mark(f)) \o r BY MarkedBytes
<1>2. PICK s \in Bstr : Bytes(g, y) = Tag(Mark(g)) \o s BY MarkedBytes
<1>3. Mark(f) = Mark(g)
  <2>1. Mark(f) \in Nat /\ Mark(g) \in Nat BY MarkedBytes
  <2> QED BY <1>1, <1>2, <2>1, TagSplit
<1>4. f \in IngressForms /\ g \in IngressForms BY <1>3, SameMark
<1>5. /\ x \in Bstr /\ y \in Bstr /\ Label(f) \in Bstr /\ Label(g) \in Bstr
      /\ Mark(f) \in Nat /\ Mark(g) \in Nat
      /\ Tag(Mark(f)) \o (Label(f) \o x) = Tag(Mark(g)) \o (Label(g) \o y)
  BY <1>4, IngressBytes
<1> DEFINE a == Label(f) \o x
           b == Label(g) \o y
<1>6. a \in Bstr /\ b \in Bstr BY <1>5, BstrProps
<1>7. Tag(Mark(f)) \o a = Tag(Mark(g)) \o b BY <1>5
<1> HIDE DEF a, b
<1>8. a = b
  <2>1. Mark(f) \in Nat /\ Mark(g) \in Nat BY <1>5
  <2> DEFINE t == Tag(Mark(f))
             u == Tag(Mark(g))
  <2>2. t \in Bstr /\ u \in Bstr /\ Len(t) = Len(u) BY <2>1, CodedTag
  <2>3. t \o a = u \o b BY <1>7
  <2> HIDE DEF t, u
  <2> QED BY <1>6, <2>2, <2>3, SameLength
<1> QED BY <1>4, <1>5, <1>8, LabelSplit DEF a, b

\* Two forms one key signs, or one field carries, have no bytes in common.
LEMMA SameForm ==
  ASSUME NEW f \in Forms, NEW g \in Forms, Bearer(f) = Bearer(g), NEW x \in Inputs(f),
         NEW y \in Inputs(g),
         Bytes(f, x) = Bytes(g, y)
  PROVE  f = g
<1> SUFFICES ASSUME f # g PROVE FALSE OBVIOUS
<1>1. \/ f \in MarkedForms /\ g \in MarkedForms
      \/ f = "transfer" /\ g = "identity"
      \/ f = "identity" /\ g = "transfer"
      \/ f = "ticket" /\ g = "block_root"
      \/ f = "block_root" /\ g = "ticket"
  <2> DEFINE Alone == {"chain_proof", "backup", "ingress", "high_water", "binding", "identity_set"}
             Agent == {"transfer", "identity"}
             Producer == {"ticket", "block_root"}
             Many == {"report data", "SHA3-256"}
  <2>1. \A h \in Forms : h \in Alone \cup Agent \cup Producer \cup (MarkedForms \ {"block_root"})
    BY DEF Forms, MarkedForms, SimpleForms, IngressForms, PairForms, ReportForms
  <2>2. \A h \in Alone : Bearer(h) = h BY DEF Bearer, Sha3Forms
  <2>3. \A h \in Agent : Bearer(h) = "agent key" BY DEF Bearer, Sha3Forms
  <2>4. \A h \in Producer : Bearer(h) = "producer key" BY DEF Bearer, Sha3Forms
  <2>5. \A h \in MarkedForms \ {"block_root"} : Bearer(h) \in Many
    <3> SUFFICES ASSUME NEW h \in MarkedForms \ {"block_root"} PROVE Bearer(h) \in Many OBVIOUS
    <3>1. CASE h \in ReportForms \cup {"pubkey"}
      <4>1. Bearer(h) = "report data" BY <3>1 DEF Bearer, ReportForms, Sha3Forms
      <4> QED BY <4>1
    <3>2. CASE h \in Sha3Forms
      <4>1. Bearer(h) = "SHA3-256" BY <3>2 DEF Bearer, Sha3Forms
      <4> QED BY <4>1
    <3>3. h \in ReportForms \cup {"pubkey"} \/ h \in Sha3Forms
      BY DEF Sha3Forms, MarkedForms, SimpleForms, IngressForms, PairForms, ReportForms
    <3> QED BY <3>1, <3>2, <3>3
  <2>6. /\ \A h \in Alone : h \notin Many /\ h # "agent key" /\ h # "producer key"
        /\ "agent key" \notin Many /\ "producer key" \notin Many
    OBVIOUS
  <2>7. CASE f \in Alone BY <2>1, <2>2, <2>3, <2>4, <2>5, <2>6, <2>7
  <2>8. CASE g \in Alone BY <2>1, <2>2, <2>3, <2>4, <2>5, <2>6, <2>8
  <2>9. CASE f \in Agent
    <3>1. g \in Agent \/ g \in Alone BY <2>1, <2>3, <2>4, <2>5, <2>6, <2>9
    <3> QED BY <2>8, <2>9, <3>1
  <2>10. CASE f \in Producer
    <3>1. g \in Producer \/ g \in Alone BY <2>1, <2>3, <2>4, <2>5, <2>6, <2>10
    <3> QED BY <2>8, <2>10, <3>1
  <2>11. CASE f \in MarkedForms \ {"block_root"}
    <3>1. g \in MarkedForms \/ g \in Alone BY <2>1, <2>3, <2>4, <2>5, <2>6, <2>11
    <3> QED BY <2>8, <2>11, <3>1
  <2> QED BY <2>1, <2>7, <2>9, <2>10, <2>11
<1>2. ASSUME NEW u \in Inputs("transfer"), NEW v \in Inputs("identity")
      PROVE  Bytes("transfer", u) # Bytes("identity", v)
  <2>1. /\ Bytes("transfer", u) = unsigned_preimage(u)
        /\ Bytes("identity", v) = identity_proof_preimage(v)
    BY DEF Bytes
  <2>2. unsigned_preimage(u)[1] >= 192 /\ identity_proof_preimage(v)[1] = 25
    BY BeginsTransfer, BeginsIdentity
  <2>3. ~ 25 >= 192 BY SMT
  <2> QED BY <2>1, <2>2, <2>3
<1>3. ASSUME NEW u \in Inputs("ticket"), NEW v \in Inputs("block_root")
      PROVE  Bytes("ticket", u) # Bytes("block_root", v)
  <2>1. u \in Tickets BY DEF Inputs
  <2>2. Bytes("ticket", u) = TicketPreimage(u) /\ TicketPreimage(u)[1] = 0
    BY <2>1, BeginsTicket DEF Bytes
  <2>3. v \in Bstr /\ Bytes("block_root", v) = Tag(1) \o v
    <3>1. "block_root" \in SimpleForms BY DEF SimpleForms
    <3>2. v \in Bstr BY <3>1, SimpleBytes
    <3> QED BY <3>2 DEF Bytes, BlockRootPreimage
  <2> DEFINE t == Tag(1)
  <2>4. t \in Bstr /\ Len(t) = 2 /\ t[1] = 50
    <3>1. 1 \in Nat OBVIOUS
    <3> QED BY <3>1, CodedTag
  <2> HIDE DEF t
  <2>5. 1 \in 1 .. Len(t) BY <2>4
  <2>6. (t \o v)[1] = t[1] BY <2>3, <2>4, <2>5, Prefix
  <2> QED BY <2>2, <2>3, <2>4, <2>6 DEF t
<1> QED BY <1>1, <1>2, <1>3, OtherForm

-----------------------------------------------------------------------------
Job == job.step = "sign" => job.form \in Forms /\ job.input \in FormInputs[job.form]

\* What is signed is an input of its form: a step signs nothing else.
LEMMA JobInv == OutputSpec => []Job
<1>1. OutputInit => Job BY DEF OutputInit, Idle, Job
<1>2. Job /\ [OutputNext]_job => Job'
  <2> SUFFICES ASSUME Job, [OutputNext]_job PROVE Job' OBVIOUS
  <2>1. CASE SignBytes BY <2>1 DEF SignBytes, Job
  <2>2. CASE Account BY <2>2 DEF Account, Job
  <2>3. CASE SendMessage BY <2>3 DEF SendMessage, Job
  <2>4. CASE OldPeerSends BY <2>4 DEF OldPeerSends, Job
  <2>5. CASE SendError BY <2>5 DEF SendError, Job
  <2>6. CASE SendArm BY <2>6 DEF SendArm, Job
  <2>7. CASE AgentReplies BY <2>7 DEF AgentReplies, Job
  <2>8. CASE AgentRefuses BY <2>8 DEF AgentRefuses, Job
  <2>9. CASE NextJob BY <2>9 DEF NextJob, Idle, Job
  <2>10. CASE UNCHANGED job BY <2>10 DEF Job
  <2> QED BY <2>1, <2>2, <2>3, <2>4, <2>5, <2>6, <2>7, <2>8, <2>9, <2>10 DEF OutputNext
<1> QED BY <1>1, <1>2, PTL DEF OutputSpec

\* SignedBytesDetermineInputs: for every length of the digests, keys and measurements and
\* whatever inputs there are, no two inputs of the forms one key signs, or one field of a
\* report carries, give the same bytes.  (unsigned_preimage, identity_proof_preimage,
\* compute_canonical_ticket_hash, the backup and ingress headers, the report data)
THEOREM SignedBytes == OutputSpec => []SignedBytesDetermineInputs
<1>1. Job => SignedBytesDetermineInputs
  <2> SUFFICES ASSUME Job, job.step = "sign", NEW f \in Forms, Bearer(f) = Bearer(job.form),
                      NEW x \in FormInputs[f], Signed[f][x] = Signed[job.form][job.input]
               PROVE  f = job.form /\ x = job.input
    BY DEF SignedBytesDetermineInputs
  <2> DEFINE g == job.form
             y == job.input
  <2>1. g \in Forms /\ y \in FormInputs[g] BY DEF Job
  <2>2. x \in Inputs(f) /\ y \in Inputs(g) BY <2>1, OutputsAssumption
  <2>3. Signed[f][x] = Bytes(f, x) /\ Signed[g][y] = Bytes(g, y) BY <2>1 DEF Signed
  <2> HIDE DEF g, y
  <2>4. Bytes(f, x) = Bytes(g, y) BY <2>3 DEF g, y
  <2>5. f = g BY <2>1, <2>2, <2>4, SameForm DEF g
  <2>6. x = y BY <2>1, <2>2, <2>4, <2>5, SameInput
  <2> QED BY <2>5, <2>6 DEF g, y
<1> QED BY <1>1, JobInv, PTL

-----------------------------------------------------------------------------
(* Sums and products of base-256 digits *)

\* v[i] is the number the first i digits of s stand for.
Values256(s, v) ==
    /\ v \in [0 .. Len(s) -> Nat]
    /\ v[0] = 0
    /\ \A i \in 1 .. Len(s) : v[i] = v[i - 1] * 256 + s[i]

\* The value of a string of digits is the last of its partial values.  (BeVal)
LEMMA BeValue ==
  ASSUME NEW s \in Seq(Nat)
  PROVE  \E v : Values256(s, v) /\ BeVal(s) = v[Len(s)]
<1> DEFINE n == Len(s)
           F(i, v) == v * 256 + s[i]
           step == [a \in Nat \X Nat |-> IF a[1] \in 1 .. n THEN a[2] * 256 + s[a[1]] ELSE a[2]]
           h == CHOOSE g : g = [i \in 0 .. n |-> IF i = 0 THEN 0 ELSE F(i, g[i - 1])]
<1>1. n \in Nat /\ \A k \in 1 .. n : s[k] \in Nat OBVIOUS
<1>2. \A k \in 1 .. n, v \in Nat : step[<<k, v>>] = v * 256 + s[k] BY <1>1
<1>3. step \in [Nat \X Nat -> Nat] BY <1>1
<1>4. BeVal(s) = h[n] BY DEF BeVal
<1> HIDE DEF n, step
<1>51. \A k \in 1 .. n, v \in Nat : F(k, v) = v * 256 + s[k] OBVIOUS
<1> HIDE DEF F
<1>5. PICK e \in [0 .. n -> Nat] : Iterates(0, step, n, e)
  <2>1. 0 \in Nat OBVIOUS
  <2> QED BY <1>1, <1>3, <2>1, Recursion, Zenon
<1>6. e = [i \in 0 .. n |-> IF i = 0 THEN 0 ELSE F(i, e[i - 1])]
  <2>1. ASSUME NEW i \in 0 .. n PROVE e[i] = IF i = 0 THEN 0 ELSE F(i, e[i - 1])
    <3>1. CASE i = 0 BY <1>5, <3>1 DEF Iterates
    <3>2. CASE i # 0
      <4>1. i \in 1 .. n /\ i - 1 \in 0 .. n BY <1>1, <3>2
      <4>2. e[i - 1] \in Nat BY <4>1
      <4>3. e[i] = step[<<i, e[i - 1]>>] BY <1>5, <4>1 DEF Iterates
      <4> QED BY <1>2, <1>51, <3>2, <4>1, <4>2, <4>3
    <3> QED BY <3>1, <3>2
  <2> QED BY <2>1
<1>7. h = [i \in 0 .. n |-> IF i = 0 THEN 0 ELSE F(i, h[i - 1])]
  BY <1>6, Zenon
<1> HIDE DEF h
<1>8. \A i \in 0 .. n : h[i] = IF i = 0 THEN 0 ELSE F(i, h[i - 1])
  BY <1>7, Zenon
<1> DEFINE T == {k \in Nat : k \in 0 .. n => h[k] \in Nat}
<1>9. 0 \in T BY <1>1, <1>8
<1>10. ASSUME NEW k \in Nat, k \in T PROVE k + 1 \in T
  <2> SUFFICES ASSUME k + 1 \in 0 .. n PROVE h[k + 1] \in Nat OBVIOUS
  <2>1. h[k] \in Nat /\ s[k + 1] \in Nat /\ k + 1 # 0 /\ (k + 1) - 1 = k BY <1>1, <1>10
  <2>2. h[k + 1] = h[k] * 256 + s[k + 1]
    <3>1. h[k + 1] = F(k + 1, h[(k + 1) - 1]) BY <1>8, <2>1
    <3>2. k + 1 \in 1 .. n BY <1>1, <2>1
    <3>3. F(k + 1, h[k]) = h[k] * 256 + s[k + 1] BY <1>51, <2>1, <3>2
    <3>4. h[(k + 1) - 1] = h[k] BY <2>1
    <3> QED BY <3>1, <3>3, <3>4
  <2> QED BY <2>1, <2>2
<1>11. \A k \in Nat : k \in T
  <2> HIDE DEF T
  <2> QED BY <1>9, <1>10, Induct, Zenon
<1>12. \A k \in 0 .. n : h[k] \in Nat BY <1>11
<1>13. h \in [0 .. n -> Nat]
  <2>1. h = [i \in 0 .. n |-> h[i]] BY <1>7
  <2> QED BY <1>12, <2>1
<1>14. Values256(s, h)
  <2>1. \A i \in 1 .. n : h[i] = h[i - 1] * 256 + s[i]
    <3>1. ASSUME NEW i \in 1 .. n PROVE h[i] = h[i - 1] * 256 + s[i]
      <4>1. i \in 0 .. n /\ i # 0 /\ h[i - 1] \in Nat BY <1>1, <1>12
      <4> QED BY <1>8, <1>51, <4>1
    <3> QED BY <3>1
  <2>2. h[0] = 0 BY <1>1, <1>8
  <2> QED BY <1>13, <2>1, <2>2 DEF Values256, n
<1> QED BY <1>4, <1>14 DEF n

Weights(n, w) ==
    /\ w \in [0 .. n -> Nat]
    /\ w[0] = 1
    /\ \A k \in 1 .. n : w[k] = 256 * w[k - 1]

\* The weight of a digit is the last of the weights below it.  (Weight)
LEMMA WeightOf ==
  ASSUME NEW n \in Nat
  PROVE  \E w : Weights(n, w) /\ Weight(n) = w[n]
<1> DEFINE step == [a \in Nat \X Nat |-> 256 * a[2]]
           h == CHOOSE g : g = [k \in 0 .. n |-> IF k = 0 THEN 1 ELSE 256 * g[k - 1]]
<1>2. \A k, v \in Nat : step[<<k, v>>] = 256 * v OBVIOUS
<1>3. step \in [Nat \X Nat -> Nat] OBVIOUS
<1>4. Weight(n) = h[n] BY DEF Weight
<1> HIDE DEF step
<1>5. PICK e \in [0 .. n -> Nat] : Iterates(1, step, n, e)
  <2>1. 1 \in Nat OBVIOUS
  <2> QED BY <1>3, <2>1, Recursion, Zenon
<1>6. e = [i \in 0 .. n |-> IF i = 0 THEN 1 ELSE 256 * e[i - 1]]
  <2>1. ASSUME NEW i \in 0 .. n PROVE e[i] = IF i = 0 THEN 1 ELSE 256 * e[i - 1]
    <3>1. CASE i = 0 BY <1>5, <3>1 DEF Iterates
    <3>2. CASE i # 0
      <4>1. i \in 1 .. n /\ i \in Nat /\ i - 1 \in 0 .. n BY <3>2
      <4>2. e[i - 1] \in Nat BY <4>1
      <4>3. e[i] = step[<<i, e[i - 1]>>] BY <1>5, <4>1 DEF Iterates
      <4> QED BY <1>2, <3>2, <4>1, <4>2, <4>3
    <3> QED BY <3>1, <3>2
  <2> QED BY <2>1
<1>7. h = [k \in 0 .. n |-> IF k = 0 THEN 1 ELSE 256 * h[k - 1]] BY <1>6, Zenon
<1> HIDE DEF h
<1>8. \A i \in 0 .. n : h[i] = IF i = 0 THEN 1 ELSE 256 * h[i - 1] BY <1>7, Zenon
<1> DEFINE T == {k \in Nat : k \in 0 .. n => h[k] \in Nat}
<1>9. 0 \in T BY <1>8
<1>10. ASSUME NEW k \in Nat, k \in T PROVE k + 1 \in T
  <2> SUFFICES ASSUME k + 1 \in 0 .. n PROVE h[k + 1] \in Nat OBVIOUS
  <2>1. h[k] \in Nat /\ k + 1 # 0 /\ (k + 1) - 1 = k BY <1>10
  <2>2. h[k + 1] = 256 * h[k] BY <1>8, <2>1
  <2> QED BY <2>1, <2>2
<1>11. \A k \in Nat : k \in T
  <2> HIDE DEF T
  <2> QED BY <1>9, <1>10, Induct, Zenon
<1>12. \A k \in 0 .. n : h[k] \in Nat BY <1>11
<1>13. h \in [0 .. n -> Nat]
  <2>1. h = [i \in 0 .. n |-> h[i]] BY <1>7
  <2> QED BY <1>12, <2>1
<1>14. Weights(n, h) BY <1>8, <1>13 DEF Weights
<1> QED BY <1>4, <1>14

\* The carries of one pass from the last digit.  (Carries)
LEMMA CarryOf ==
  ASSUME NEW s \in Seq(Nat)
  PROVE  /\ Carries(s) \in [0 .. Len(s) -> Nat]
         /\ Carries(s)[0] = 0
         /\ \A k \in 1 .. Len(s) : Carries(s)[k] = (s[Len(s) - k + 1] + Carries(s)[k - 1]) \div 256
<1> DEFINE n == Len(s)
           F(k, v) == (s[n - k + 1] + v) \div 256
           step == [a \in Nat \X Nat |-> IF a[1] \in 1 .. n THEN (s[n - a[1] + 1] + a[2]) \div 256 ELSE a[2]]
           h == CHOOSE g : g = [k \in 0 .. n |-> IF k = 0 THEN 0 ELSE F(k, g[k - 1])]
<1>0. \A u, v \in Nat : (u + v) \div 256 \in Nat BY SMT
<1>1. n \in Nat /\ \A k \in 1 .. n : s[k] \in Nat /\ n - k + 1 \in 1 .. n OBVIOUS
<1>2. \A k \in 1 .. n, v \in Nat : step[<<k, v>>] = (s[n - k + 1] + v) \div 256 BY <1>1
<1>3. step \in [Nat \X Nat -> Nat] BY <1>0, <1>1
<1>4. Carries(s) = h BY DEF Carries
<1>51. \A k \in 1 .. n, v \in Nat : F(k, v) = (s[n - k + 1] + v) \div 256 OBVIOUS
<1> HIDE DEF F, n, step
<1>5. PICK e \in [0 .. n -> Nat] : Iterates(0, step, n, e)
  <2>1. 0 \in Nat OBVIOUS
  <2> QED BY <1>1, <1>3, <2>1, Recursion, Zenon
<1>6. e = [k \in 0 .. n |-> IF k = 0 THEN 0 ELSE F(k, e[k - 1])]
  <2>1. ASSUME NEW i \in 0 .. n PROVE e[i] = IF i = 0 THEN 0 ELSE F(i, e[i - 1])
    <3>1. CASE i = 0 BY <1>5, <3>1 DEF Iterates
    <3>2. CASE i # 0
      <4>1. i \in 1 .. n /\ i - 1 \in 0 .. n BY <1>1, <3>2
      <4>2. e[i - 1] \in Nat BY <4>1
      <4>3. e[i] = step[<<i, e[i - 1]>>] BY <1>5, <4>1 DEF Iterates
      <4> QED BY <1>2, <1>51, <3>2, <4>1, <4>2, <4>3
    <3> QED BY <3>1, <3>2
  <2> QED BY <2>1
<1>7. h = [k \in 0 .. n |-> IF k = 0 THEN 0 ELSE F(k, h[k - 1])] BY <1>6, Zenon
<1> HIDE DEF h
<1>8. \A i \in 0 .. n : h[i] = IF i = 0 THEN 0 ELSE F(i, h[i - 1]) BY <1>7, Zenon
<1> DEFINE T == {k \in Nat : k \in 0 .. n => h[k] \in Nat}
<1>9. 0 \in T BY <1>1, <1>8
<1>10. ASSUME NEW k \in Nat, k \in T PROVE k + 1 \in T
  <2> SUFFICES ASSUME k + 1 \in 0 .. n PROVE h[k + 1] \in Nat OBVIOUS
  <2>1. h[k] \in Nat /\ s[n - (k + 1) + 1] \in Nat /\ k + 1 # 0 /\ (k + 1) - 1 = k BY <1>1, <1>10
  <2>2. h[k + 1] = (s[n - (k + 1) + 1] + h[k]) \div 256
    <3>1. h[k + 1] = F(k + 1, h[(k + 1) - 1]) BY <1>8, <2>1
    <3>2. k + 1 \in 1 .. n BY <1>1, <2>1
    <3>3. F(k + 1, h[k]) = (s[n - (k + 1) + 1] + h[k]) \div 256 BY <1>51, <2>1, <3>2
    <3>4. h[(k + 1) - 1] = h[k] BY <2>1
    <3> QED BY <3>1, <3>3, <3>4
  <2> QED BY <1>0, <2>1, <2>2
<1>11. \A k \in Nat : k \in T
  <2> HIDE DEF T
  <2> QED BY <1>9, <1>10, Induct, Zenon
<1>12. \A k \in 0 .. n : h[k] \in Nat BY <1>11
<1>13. h \in [0 .. n -> Nat]
  <2>1. h = [i \in 0 .. n |-> h[i]] BY <1>7
  <2> QED BY <1>12, <2>1
<1>14. h[0] = 0 /\ \A k \in 1 .. n : h[k] = (s[n - k + 1] + h[k - 1]) \div 256
  <2>1. ASSUME NEW i \in 1 .. n PROVE h[i] = (s[n - i + 1] + h[i - 1]) \div 256
    <3>1. i \in 0 .. n /\ i # 0 /\ h[i - 1] \in Nat BY <1>1, <1>12
    <3> QED BY <1>8, <1>51, <3>1
  <2>2. h[0] = 0 BY <1>1, <1>8
  <2> QED BY <2>1, <2>2
<1> QED BY <1>4, <1>13, <1>14 DEF n

\* Numbers given by their digits: sums, multiples and carries.

\* Division by the base.
LEMMA Quotient ==
  ASSUME NEW u \in Nat
  PROVE  u \div 256 \in Nat /\ u % 256 \in 0 .. 255 /\ u = 256 * (u \div 256) + (u % 256)
OBVIOUS

\* The value of digits added place by place is the sum of the values.
LEMMA ValueOfSum ==
  ASSUME NEW a \in Seq(Nat), NEW b \in Seq(Nat), Len(a) = Len(b)
  PROVE  /\ [i \in DOMAIN a |-> a[i] + b[i]] \in Seq(Nat)
         /\ Len([i \in DOMAIN a |-> a[i] + b[i]]) = Len(a)
         /\ BeVal([i \in DOMAIN a |-> a[i] + b[i]]) = BeVal(a) + BeVal(b)
<1> DEFINE n == Len(a)
           s == [i \in DOMAIN a |-> a[i] + b[i]]
<1>1. n \in Nat /\ DOMAIN a = 1 .. n /\ \A i \in 1 .. n : a[i] \in Nat /\ b[i] \in Nat OBVIOUS
<1>2. s \in Seq(Nat) /\ Len(s) = n /\ \A i \in 1 .. n : s[i] = a[i] + b[i] BY <1>1
<1>3. PICK va : Values256(a, va) /\ BeVal(a) = va[Len(a)] BY BeValue, Zenon
<1>4. PICK vb : Values256(b, vb) /\ BeVal(b) = vb[Len(b)] BY BeValue, Zenon
<1> HIDE DEF s
<1>5. PICK vs : Values256(s, vs) /\ BeVal(s) = vs[Len(s)] BY <1>2, BeValue, Zenon
<1> HIDE DEF n
<1>6. Len(a) = n /\ Len(b) = n BY DEF n
<1>7. /\ va \in [0 .. n -> Nat] /\ va[0] = 0 /\ \A i \in 1 .. n : va[i] = va[i - 1] * 256 + a[i]
      /\ vb \in [0 .. n -> Nat] /\ vb[0] = 0 /\ \A i \in 1 .. n : vb[i] = vb[i - 1] * 256 + b[i]
      /\ vs \in [0 .. n -> Nat] /\ vs[0] = 0 /\ \A i \in 1 .. n : vs[i] = vs[i - 1] * 256 + s[i]
  BY <1>2, <1>3, <1>4, <1>5, <1>6 DEF Values256
<1> DEFINE T == {k \in Nat : k \in 0 .. n => vs[k] = va[k] + vb[k]}
<1>8. 0 \in T BY <1>7
<1>9. ASSUME NEW k \in Nat, k \in T PROVE k + 1 \in T
  <2> SUFFICES ASSUME k + 1 \in 0 .. n PROVE vs[k + 1] = va[k + 1] + vb[k + 1] OBVIOUS
  <2>1. k + 1 \in 1 .. n /\ (k + 1) - 1 = k /\ k \in 0 .. n BY <1>1
  <2>2. vs[k] = va[k] + vb[k] /\ va[k] \in Nat /\ vb[k] \in Nat BY <1>7, <1>9, <2>1
  <2>3. /\ vs[k + 1] = vs[k] * 256 + s[k + 1]
        /\ va[k + 1] = va[k] * 256 + a[k + 1]
        /\ vb[k + 1] = vb[k] * 256 + b[k + 1] BY <1>7, <2>1
  <2>4. s[k + 1] = a[k + 1] + b[k + 1] /\ a[k + 1] \in Nat /\ b[k + 1] \in Nat BY <1>1, <1>2, <2>1
  <2>5. \A p, q, x, y \in Nat : (p + q) * 256 + (x + y) = (p * 256 + x) + (q * 256 + y) BY SMT
  <2> DEFINE p == va[k]
             q == vb[k]
             x == a[k + 1]
             y == b[k + 1]
  <2>6. p \in Nat /\ q \in Nat /\ x \in Nat /\ y \in Nat BY <2>2, <2>4
  <2>7. vs[k + 1] = (p + q) * 256 + (x + y) BY <2>2, <2>3, <2>4
  <2>8. va[k + 1] = p * 256 + x /\ vb[k + 1] = q * 256 + y BY <2>3
  <2> HIDE DEF p, q, x, y
  <2> QED BY <2>5, <2>6, <2>7, <2>8
<1>10. \A k \in Nat : k \in T
  <2> HIDE DEF T
  <2> QED BY <1>8, <1>9, Induct, Zenon
<1>11. vs[n] = va[n] + vb[n] BY <1>1, <1>10
<1>12. BeVal(s) = BeVal(a) + BeVal(b) BY <1>2, <1>3, <1>4, <1>5, <1>6, <1>11
<1> QED BY <1>2, <1>6, <1>12 DEF s

\* The value of digits each multiplied by m is m times the value.
LEMMA ValueOfMultiple ==
  ASSUME NEW a \in Seq(Nat), NEW m \in Nat
  PROVE  /\ [i \in DOMAIN a |-> a[i] * m] \in Seq(Nat)
         /\ Len([i \in DOMAIN a |-> a[i] * m]) = Len(a)
         /\ BeVal([i \in DOMAIN a |-> a[i] * m]) = BeVal(a) * m
<1> DEFINE n == Len(a)
           s == [i \in DOMAIN a |-> a[i] * m]
<1>0. \A u \in Nat : u * m \in Nat OBVIOUS
<1>1. n \in Nat /\ DOMAIN a = 1 .. n /\ \A i \in 1 .. n : a[i] \in Nat OBVIOUS
<1>2. s \in Seq(Nat) /\ Len(s) = n /\ \A i \in 1 .. n : s[i] = a[i] * m BY <1>0, <1>1
<1>3. PICK va : Values256(a, va) /\ BeVal(a) = va[Len(a)] BY BeValue, Zenon
<1> HIDE DEF s
<1>5. PICK vs : Values256(s, vs) /\ BeVal(s) = vs[Len(s)] BY <1>2, BeValue, Zenon
<1> HIDE DEF n
<1>6. Len(a) = n BY DEF n
<1>7. /\ va \in [0 .. n -> Nat] /\ va[0] = 0 /\ \A i \in 1 .. n : va[i] = va[i - 1] * 256 + a[i]
      /\ vs \in [0 .. n -> Nat] /\ vs[0] = 0 /\ \A i \in 1 .. n : vs[i] = vs[i - 1] * 256 + s[i]
  BY <1>2, <1>3, <1>5, <1>6 DEF Values256
<1> DEFINE T == {k \in Nat : k \in 0 .. n => vs[k] = va[k] * m}
<1>8. 0 \in T BY <1>7
<1>9. ASSUME NEW k \in Nat, k \in T PROVE k + 1 \in T
  <2> SUFFICES ASSUME k + 1 \in 0 .. n PROVE vs[k + 1] = va[k + 1] * m OBVIOUS
  <2>1. k + 1 \in 1 .. n /\ (k + 1) - 1 = k /\ k \in 0 .. n BY <1>1
  <2>2. vs[k] = va[k] * m /\ va[k] \in Nat BY <1>7, <1>9, <2>1
  <2>3. vs[k + 1] = vs[k] * 256 + s[k + 1] /\ va[k + 1] = va[k] * 256 + a[k + 1] BY <1>7, <2>1
  <2>4. s[k + 1] = a[k + 1] * m /\ a[k + 1] \in Nat BY <1>1, <1>2, <2>1
  <2>5. \A x, y \in Nat : (x * 256 + y) * m = (x * m) * 256 + y * m BY SMT
  <2> QED BY <2>2, <2>3, <2>4, <2>5
<1>10. \A k \in Nat : k \in T
  <2> HIDE DEF T
  <2> QED BY <1>8, <1>9, Induct, Zenon
<1>11. vs[n] = va[n] * m BY <1>1, <1>10
<1>12. BeVal(s) = BeVal(a) * m BY <1>2, <1>3, <1>5, <1>6, <1>11
<1> QED BY <1>2, <1>6, <1>12 DEF s

\* Carrying leaves the value unchanged but for the last carry, which counts as one digit more;
\* the digits it leaves are bytes, so their value is below that digit's weight.
LEMMA Carrying ==
  ASSUME NEW s \in Seq(Nat)
  PROVE  /\ Carries(s)[Len(s)] \in Nat /\ Weight(Len(s)) \in Nat /\ BeVal(Digits(s)) \in Nat
         /\ BeVal(s) = BeVal(Digits(s)) + Carries(s)[Len(s)] * Weight(Len(s))
         /\ BeVal(Digits(s)) < Weight(Len(s))
<1> DEFINE n == Len(s)
           c == Carries(s)
           d == Digits(s)
<1>1. n \in Nat /\ \A i \in 1 .. n : s[i] \in Nat OBVIOUS
<1>2. /\ c \in [0 .. n -> Nat] /\ c[0] = 0
      /\ \A k \in 1 .. n : c[k] = (s[n - k + 1] + c[k - 1]) \div 256
  BY CarryOf, Zenon
<1>3. d = [i \in 1 .. n |-> (s[i] + c[n - i]) % 256] BY DEF Digits
<1> HIDE DEF c
<1>4. \A i \in 1 .. n : d[i] = (s[i] + c[n - i]) % 256 /\ n - i \in 0 .. n /\ d[i] \in 0 .. 255
  <2>1. ASSUME NEW i \in 1 .. n
        PROVE  d[i] = (s[i] + c[n - i]) % 256 /\ n - i \in 0 .. n /\ d[i] \in 0 .. 255
    <3>1. n - i \in 0 .. n BY <1>1
    <3>2. s[i] \in Nat /\ c[n - i] \in Nat
      <4> HIDE DEF n, d
      <4> QED BY <1>1, <1>2, <3>1
    <3>3. d[i] = (s[i] + c[n - i]) % 256 BY <1>3
    <3> DEFINE u == s[i] + c[n - i]
    <3>4. u \in Nat BY <3>2
    <3>5. d[i] = u % 256 BY <3>3
    <3> HIDE DEF u, d, n
    <3>6. d[i] \in 0 .. 255 BY <3>4, <3>5, Quotient, SMT
    <3> QED BY <3>1, <3>3, <3>6
  <2> QED BY <2>1
<1>5. d \in Seq(Nat) /\ Len(d) = n
  <2>1. d = [i \in 1 .. n |-> d[i]] BY <1>3
  <2> HIDE DEF d, n
  <2>2. \A i \in 1 .. n : d[i] \in Nat
    <3>1. ASSUME NEW i \in 1 .. n PROVE d[i] \in Nat
      <4>1. d[i] \in 0 .. 255 BY <1>4, Zenon
      <4>2. \A v \in 0 .. 255 : v \in Nat BY SMT
      <4> QED BY <4>1, <4>2
    <3> QED BY <3>1
  <2> QED BY <1>1, <2>1, <2>2
<1> HIDE DEF d
<1>6. PICK vs : Values256(s, vs) /\ BeVal(s) = vs[Len(s)] BY BeValue, Zenon
<1>7. PICK vd : Values256(d, vd) /\ BeVal(d) = vd[Len(d)] BY <1>5, BeValue, Zenon
<1>8. PICK w : Weights(n, w) /\ Weight(n) = w[n] BY <1>1, WeightOf, Zenon
<1> HIDE DEF n
<1>9. Len(s) = n BY DEF n
<1>10. /\ vs \in [0 .. n -> Nat] /\ vs[0] = 0 /\ \A i \in 1 .. n : vs[i] = vs[i - 1] * 256 + s[i]
       /\ vd \in [0 .. n -> Nat] /\ vd[0] = 0 /\ \A i \in 1 .. n : vd[i] = vd[i - 1] * 256 + d[i]
       /\ w \in [0 .. n -> Nat] /\ w[0] = 1 /\ \A i \in 1 .. n : w[i] = 256 * w[i - 1]
  BY <1>5, <1>6, <1>7, <1>8, <1>9 DEF Values256, Weights
<1> DEFINE out == c[n]
           T == {k \in Nat : k \in 0 .. n => vs[k] + c[n - k] = vd[k] + out * w[k] /\ vd[k] < w[k]}
<1>11. out \in Nat BY <1>1, <1>2
<1>12. 0 \in T
  <2>1. n - 0 = n /\ 0 \in 0 .. n BY <1>1
  <2>2. vs[0] + c[n - 0] = vd[0] + out * w[0] BY <1>10, <1>11, <2>1
  <2>3. vd[0] < w[0] BY <1>10
  <2> QED BY <2>2, <2>3
<1>13. ASSUME NEW k \in Nat, k \in T PROVE k + 1 \in T
  <2> SUFFICES ASSUME k + 1 \in 0 .. n
               PROVE  vs[k + 1] + c[n - (k + 1)] = vd[k + 1] + out * w[k + 1] /\ vd[k + 1] < w[k + 1]
    OBVIOUS
  <2>1. /\ k + 1 \in 1 .. n /\ (k + 1) - 1 = k /\ k \in 0 .. n
        /\ n - k \in 1 .. n /\ n - (n - k) + 1 = k + 1 /\ (n - k) - 1 = n - (k + 1)
        /\ n - (k + 1) \in 0 .. n
    BY <1>1
  <2> DEFINE x == s[k + 1] + c[n - (k + 1)]
  <2>2. vs[k] + c[n - k] = vd[k] + out * w[k] /\ vd[k] < w[k] BY <1>13, <2>1
  <2>3. vs[k] \in Nat /\ vd[k] \in Nat /\ w[k] \in Nat /\ c[n - k] \in Nat /\ c[n - (k + 1)] \in Nat
    <3> HIDE DEF T, out, x
    <3>1. vs[k] \in Nat /\ vd[k] \in Nat /\ w[k] \in Nat BY <1>10, <2>1
    <3>2. n - k \in 0 .. n BY <1>1, <2>1
    <3>3. c[n - k] \in Nat /\ c[n - (k + 1)] \in Nat BY <1>2, <2>1, <3>2
    <3> QED BY <3>1, <3>3
  <2>4. /\ vs[k + 1] = vs[k] * 256 + s[k + 1] /\ vd[k + 1] = vd[k] * 256 + d[k + 1]
        /\ w[k + 1] = 256 * w[k]
    BY <1>10, <2>1
  <2>5. s[k + 1] \in Nat /\ d[k + 1] \in 0 .. 255 /\ d[k + 1] = x % 256 BY <1>1, <1>4, <2>1
  <2>6. c[n - k] = x \div 256 BY <1>2, <2>1
  <2>7. x \in Nat
    <3>1. \A p, q \in Nat : p + q \in Nat OBVIOUS
    <3> QED BY <2>3, <2>5, <3>1
  <2>8. x = 256 * c[n - k] + d[k + 1]
    <3> HIDE DEF x
    <3> QED BY <2>5, <2>6, <2>7, Quotient
  <2>9. out * w[k + 1] = 256 * (out * w[k]) /\ out * w[k] \in Nat
    <3>1. \A p, q \in Nat : p * (256 * q) = 256 * (p * q) /\ p * q \in Nat BY SMT
    <3>2. out * w[k + 1] = out * (256 * w[k]) BY <2>4
    <3> HIDE DEF out
    <3>3. out * (256 * w[k]) = 256 * (out * w[k]) /\ out * w[k] \in Nat BY <1>11, <2>3, <3>1
    <3> QED BY <3>2, <3>3
  <2> DEFINE y == out * w[k]
             z == out * w[k + 1]
  <2>10. z = 256 * y /\ y \in Nat /\ vs[k] + c[n - k] = vd[k] + y BY <2>2, <2>9
  <2> HIDE DEF y, z
  <2> DEFINE e == s[k + 1]
             f == d[k + 1]
             g == c[n - k]
             h == c[n - (k + 1)]
             a == vs[k]
             b == vd[k]
             v == w[k]
  <2>11. /\ a \in Nat /\ b \in Nat /\ v \in Nat /\ e \in Nat /\ f \in 0 .. 255
         /\ g \in Nat /\ h \in Nat
         /\ e + h = 256 * g + f /\ a + g = b + y /\ b < v
    BY <2>2, <2>3, <2>5, <2>8, <2>10
  <2>12. vs[k + 1] = a * 256 + e /\ vd[k + 1] = b * 256 + f /\ w[k + 1] = 256 * v BY <2>4
  <2> HIDE DEF a, b, e, f, g, v
  <2>13. vs[k + 1] + h = vd[k + 1] + z
    <3> HIDE DEF h
    <3>1. (a * 256 + e) + h = (b * 256 + f) + z BY <2>10, <2>11
    <3> QED BY <2>12, <3>1
  <2>14. vd[k + 1] < w[k + 1]
    <3>1. b * 256 + f < 256 * v BY <2>11
    <3> QED BY <2>12, <3>1
  <2> QED BY <2>13, <2>14 DEF z, h
<1>14. \A k \in Nat : k \in T
  <2> HIDE DEF T
  <2> QED BY <1>12, <1>13, Induct, Zenon
<1>15. vs[n] + c[n - n] = vd[n] + out * w[n] /\ vd[n] < w[n] BY <1>1, <1>14
<1>16. c[n - n] = 0 /\ vs[n] \in Nat /\ vd[n] \in Nat /\ w[n] \in Nat BY <1>1, <1>2, <1>10
<1>17. vs[n] = vd[n] + out * w[n] BY <1>15, <1>16
<1>18. BeVal(s) = vs[n] /\ BeVal(d) = vd[n] /\ Weight(n) = w[n] BY <1>5, <1>6, <1>7, <1>8, <1>9
<1>19. BeVal(s) = BeVal(d) + out * Weight(n) /\ BeVal(d) < Weight(n) BY <1>15, <1>17, <1>18
<1> QED BY <1>9, <1>11, <1>16, <1>18, <1>19 DEF c, d

\* r says v, or refuses a v that needs more than n bytes.
Says(r, v, n) == IF v < Weight(n) THEN r.ok /\ BeVal(r.v) = v ELSE ~ r.ok

\* What one pass of carries makes of digits is their value, or refused when it does not fit.
LEMMA RippleExact ==
  ASSUME NEW s \in Seq(Nat)
  PROVE  Says(Ripple(s), BeVal(s), Len(s))
<1> DEFINE c == Carries(s)[Len(s)]
           w == Weight(Len(s))
           d == BeVal(Digits(s))
<1>1. c \in Nat /\ w \in Nat /\ d \in Nat /\ BeVal(s) = d + c * w /\ d < w BY Carrying, Zenon
<1>2. CASE c = 0
  <2>1. Ripple(s) = [ok |-> TRUE, v |-> Digits(s)] BY <1>2 DEF Ripple
  <2>2. Ripple(s).ok /\ BeVal(Ripple(s).v) = d BY <2>1
  <2> HIDE DEF c, w, d
  <2>3. BeVal(s) = d BY <1>1, <1>2
  <2>4. BeVal(s) < w BY <1>1, <2>3
  <2> QED BY <2>2, <2>3, <2>4, Zenon DEF Says, w
<1>3. CASE c # 0
  <2>1. Ripple(s) = Overflow BY <1>3 DEF Ripple
  <2>2. ~ Ripple(s).ok BY <2>1 DEF Overflow
  <2> HIDE DEF c, w, d
  <2>3. c >= 1 BY <1>1, <1>3
  <2>4. \A p, q \in Nat : p >= 1 => p * q >= q BY SMT
  <2>5. c * w >= w /\ c * w \in Nat
    <3>1. \A p, q \in Nat : p * q \in Nat BY SMT
    <3> QED BY <1>1, <2>3, <2>4, <3>1
  <2> DEFINE y == c * w
  <2>6. BeVal(s) = d + y /\ y \in Nat /\ y >= w BY <1>1, <2>5
  <2> HIDE DEF y
  <2>7. ~ (BeVal(s) < w) BY <1>1, <2>6
  <2> QED BY <2>2, <2>7, Zenon DEF Says, w
<1> QED BY <1>2, <1>3

\* An accounting job has two numbers of one length and a multiplier.
Sums ==
    job.step = "account" =>
        /\ job.a \in Seq(u8) /\ job.b \in Seq(u8) /\ Len(job.a) = Len(job.b)
        /\ job.n \in u64

\* What is accounted is two numbers of one length and a u64.
LEMMA SumsInv == OutputSpec => []Sums
<1>1. OutputInit => Sums BY DEF OutputInit, Idle, Sums
<1>2. Sums /\ [OutputNext]_job => Sums'
  <2> SUFFICES ASSUME Sums, [OutputNext]_job PROVE Sums' OBVIOUS
  <2> DEFINE at == job'.step
  <2>1. ASSUME job'.step # "account" PROVE Sums' BY <2>1 DEF Sums
  <2>2. CASE SignBytes BY <2>1, <2>2 DEF SignBytes
  <2>3. CASE Account
    <3>1. PICK p \in Numbers, n \in Factors : job' = [step |-> "account", a |-> p[1], b |-> p[2], n |-> n]
      BY <2>3 DEF Account
    <3>2. p[1] \in Seq(u8) /\ p[2] \in Seq(u8) /\ Len(p[1]) = Len(p[2]) /\ n \in u64
      BY OutputsAssumption, Zenon
    <3>3. job'.a = p[1] /\ job'.b = p[2] /\ job'.n = n BY <3>1
    <3> QED BY <3>2, <3>3, Zenon DEF Sums
  <2>4. CASE SendMessage BY <2>1, <2>4 DEF SendMessage
  <2>5. CASE OldPeerSends
    <3>1. PICK x \in Values["measurement_response"] : job'.step = "message" BY <2>5 DEF OldPeerSends
    <3> QED BY <2>1, <3>1
  <2>6. CASE SendError BY <2>1, <2>6 DEF SendError
  <2>7. CASE SendArm BY <2>1, <2>7 DEF SendArm
  <2>8. CASE AgentReplies BY <2>1, <2>8 DEF AgentReplies
  <2>9. CASE AgentRefuses BY <2>1, <2>9 DEF AgentRefuses
  <2>10. CASE NextJob BY <2>1, <2>10 DEF NextJob, Idle
  <2>11. CASE UNCHANGED job BY <2>11, Zenon DEF Sums
  <2> QED BY <2>2, <2>3, <2>4, <2>5, <2>6, <2>7, <2>8, <2>9, <2>10, <2>11 DEF OutputNext
<1> QED BY <1>1, <1>2, PTL DEF OutputSpec

\* ArithmeticExact: the treasury's checked_add and checked_mul_u64 give the integers' sum and
\* product, or refuse the ones that need more bytes, for numbers of every length.
THEOREM SumsExact == OutputSpec => []ArithmeticExact
<1>1. Sums => ArithmeticExact
  <2> SUFFICES ASSUME Sums, job.step = "account"
               PROVE  /\ Says(checked_add(job.a, job.b), BeVal(job.a) + BeVal(job.b), Len(job.a))
                      /\ Says(checked_mul_u64(job.a, job.n), BeVal(job.a) * job.n, Len(job.a))
    BY Zenon DEF ArithmeticExact, Says
  <2> DEFINE a == job.a
             b == job.b
             m == job.n
  <2>1. a \in Seq(u8) /\ b \in Seq(u8) /\ Len(a) = Len(b) /\ m \in u64 BY Zenon DEF Sums
  <2> HIDE DEF a, b, m
  <2>2. a \in Seq(Nat) /\ b \in Seq(Nat)
    <3>1. \A i \in u8 : i \in Nat BY DEF u8
    <3> HIDE DEF u8
    <3> QED BY <2>1, <3>1
  <2>3. m \in Nat BY <2>1, U64Nat
  <2>4. Says(checked_add(a, b), BeVal(a) + BeVal(b), Len(a))
    <3> DEFINE s == [i \in DOMAIN a |-> a[i] + b[i]]
    <3>1. s \in Seq(Nat) /\ Len(s) = Len(a) /\ BeVal(s) = BeVal(a) + BeVal(b)
      BY <2>1, <2>2, ValueOfSum, Zenon
    <3>2. checked_add(a, b) = Ripple(s) BY DEF checked_add
    <3> HIDE DEF s
    <3>3. Says(Ripple(s), BeVal(s), Len(s)) BY <3>1, RippleExact, Zenon
    <3> QED BY <3>1, <3>2, <3>3, Zenon
  <2>5. Says(checked_mul_u64(a, m), BeVal(a) * m, Len(a))
    <3> DEFINE s == [i \in DOMAIN a |-> a[i] * m]
    <3>1. s \in Seq(Nat) /\ Len(s) = Len(a) /\ BeVal(s) = BeVal(a) * m
      BY <2>2, <2>3, ValueOfMultiple, Zenon
    <3>2. checked_mul_u64(a, m) = Ripple(s) BY DEF checked_mul_u64
    <3> HIDE DEF s
    <3>3. Says(Ripple(s), BeVal(s), Len(s)) BY <3>1, RippleExact, Zenon
    <3> QED BY <3>1, <3>2, <3>3, Zenon
  <2> QED BY <2>4, <2>5 DEF a, b, m
<1> QED BY <1>1, SumsInv, PTL
-----------------------------------------------------------------------------
(* Fields and messages on the wire *)

\* The types of single values, of arrays and of maps.
Scalars == {"version", "u8", "u64", "bytes", "late_bytes", "hash", "bool", "text",
            "opt_u64", "opt_u32", "opt_hash", "opt_bytes"}
Flats == Scalars \cup {"hashes", "u8s"}
Inners == {"state", "proof", "ticket"}

FlatReads(type, v) ==
    TakesFlat(type, PutFlat(type, v)) /\ GetFlat(type, PutFlat(type, v)) = v

\* Which types of fields are arrays, maps and lists of keys.
LEMMA TypeSets ==
  /\ DOMAIN Elements = {"hashes", "u8s"}
  /\ DOMAIN InnerFields = Inners
  /\ DOMAIN KeyFields = {"generated", "restored"}
  /\ Elements["hashes"] = "hash" /\ Elements["u8s"] = "u8"
BY DEF Elements, InnerFields, Inners, KeyFields

\* A sequence of at most one element is empty or has one.
LEMMA OptForms ==
  ASSUME NEW S, NEW x \in {y \in Seq(S) : Len(y) <= 1}
  PROVE  x = << >> \/ (x # << >> /\ x[1] \in S /\ x = <<x[1]>>)
<1>1. x \in Seq(S) /\ Len(x) <= 1 /\ Len(x) \in Nat OBVIOUS
<1>2. CASE Len(x) = 0 BY <1>1, <1>2
<1>3. CASE Len(x) = 1 BY <1>1, <1>3
<1> QED BY <1>1, <1>2, <1>3

\* A single value is read back as it was written.  (PutOne, TakesOne, GetFlat)
LEMMA ScalarReads ==
  ASSUME NEW type \in Scalars, NEW v \in ScalarOf(type)
  PROVE  /\ TakesOne(type, PutOne(type, v))
         /\ GetFlat(type, PutOne(type, v)) = v
         /\ type \notin DOMAIN Elements
<1> DEFINE c == PutOne(type, v)
<1>1. type \notin DOMAIN Elements BY TypeSets DEF Scalars
<1> USE <1>1 DEF ScalarOf, PutOne, TakesOne, GetFlat, Num, Blob, Bool, Text, Null
<1>2. CASE type = "version" BY <1>2
<1>3. CASE type = "u8" BY <1>3, WireAssumption
<1>4. CASE type = "u64" BY <1>4
<1>5. CASE type = "bytes" BY <1>5
<1>6. CASE type = "late_bytes" BY <1>6
<1>7. CASE type = "hash"
  <2>1. v \in [1 .. HASH_LEN -> Nat] BY <1>7
  <2>2. Len(v) = HASH_LEN BY <2>1, WireAssumption
  <2> QED BY <1>7, <2>2
<1>8. CASE type = "bool" BY <1>8
<1>9. CASE type = "text" BY <1>9
<1>10. CASE type = "opt_u64"
  <2>1. v = << >> \/ (v # << >> /\ v[1] \in Nat /\ v = <<v[1]>>) BY <1>10, OptForms
  <2>2. CASE v = << >> BY <1>10, <2>2
  <2>3. CASE v # << >> BY <1>10, <2>1, <2>3
  <2> QED BY <2>2, <2>3
<1>11. CASE type = "opt_u32"
  <2>1. v = << >> \/ (v # << >> /\ v[1] \in 0 .. MAX_U32 /\ v = <<v[1]>>) BY <1>11, OptForms
  <2>2. CASE v = << >> BY <1>11, <2>2
  <2>3. CASE v # << >> BY <1>11, <2>1, <2>3, WireAssumption
  <2> QED BY <2>2, <2>3
<1>12. CASE type = "opt_hash"
  <2>1. v = << >> \/ (v # << >> /\ v[1] \in [1 .. HASH_LEN -> Nat] /\ v = <<v[1]>>)
    BY <1>12, OptForms
  <2>2. CASE v = << >> BY <1>12, <2>2
  <2>3. CASE v # << >>
    <3>1. Len(v[1]) = HASH_LEN BY <2>1, <2>3, WireAssumption
    <3> QED BY <1>12, <2>1, <2>3, <3>1
  <2> QED BY <2>2, <2>3
<1>13. CASE type = "opt_bytes"
  <2>1. v = << >> \/ (v # << >> /\ v[1] \in Seq(Nat) /\ v = <<v[1]>>) BY <1>13, OptForms
  <2>2. CASE v = << >> BY <1>13, <2>2
  <2>3. CASE v # << >> BY <1>13, <2>1, <2>3
  <2> QED BY <2>2, <2>3
<1> QED BY <1>2, <1>3, <1>4, <1>5, <1>6, <1>7, <1>8, <1>9, <1>10, <1>11, <1>12, <1>13 DEF Scalars

\* A single value or an array is read back as it was written.
LEMMA FlatReading ==
  ASSUME NEW type \in Flats, NEW v \in FlatOf(type)
  PROVE  FlatReads(type, v)
<1>1. CASE type \in Scalars
  <2>1. type \notin DOMAIN Elements BY <1>1, TypeSets DEF Scalars
  <2>2. v \in ScalarOf(type) BY <2>1 DEF FlatOf
  <2>3. PutFlat(type, v) = PutOne(type, v) /\ \A c : TakesFlat(type, c) = TakesOne(type, c)
    BY <2>1 DEF PutFlat, TakesFlat
  <2> QED BY <1>1, <2>2, <2>3, ScalarReads DEF FlatReads
<1>2. CASE type \in DOMAIN Elements
  <2> DEFINE e == Elements[type]
             c == PutFlat(type, v)
  <2>1. e \in Scalars /\ e \in {"hash", "u8"} BY <1>2, TypeSets DEF Scalars
  <2>2. v \in Seq(ScalarOf(e)) BY <1>2 DEF FlatOf
  <2>3. c = [t |-> "array", v |-> [i \in DOMAIN v |-> PutOne(e, v[i])]] BY <1>2 DEF PutFlat, List
  <2> HIDE DEF e, c
  <2>4. c.t = "array" /\ DOMAIN c.v = DOMAIN v /\ \A i \in DOMAIN v : c.v[i] = PutOne(e, v[i])
    BY <2>3
  <2>5. \A i \in DOMAIN v : v[i] \in ScalarOf(e) BY <2>2
  <2>6. \A i \in DOMAIN v : TakesOne(e, c.v[i]) BY <2>1, <2>4, <2>5, ScalarReads
  <2>7. \A i \in DOMAIN v : c.v[i].v = v[i]
    <3>1. ASSUME NEW i \in DOMAIN v PROVE c.v[i].v = v[i]
      <4>1. c.v[i] = PutOne(e, v[i]) BY <2>4
      <4>2. PutOne(e, v[i]).v = v[i] BY <2>1 DEF PutOne, Num, Blob
      <4> QED BY <4>1, <4>2
    <3> QED BY <3>1
  <2>8. v = [i \in DOMAIN v |-> v[i]] BY <2>2
  <2>9. [i \in DOMAIN c.v |-> c.v[i].v] = [i \in DOMAIN v |-> v[i]] BY <2>4, <2>7
  <2>10. TakesFlat(type, c) BY <1>2, <2>4, <2>6 DEF TakesFlat, e
  <2>11. GetFlat(type, c) = [i \in DOMAIN c.v |-> c.v[i].v]
    <3>1. type \notin {"opt_u64", "opt_u32", "opt_hash", "opt_bytes"} /\ type # "late_bytes"
      BY <1>2, TypeSets
    <3> QED BY <1>2, <3>1, Zenon DEF GetFlat
  <2> QED BY <2>8, <2>9, <2>10, <2>11 DEF FlatReads, c
<1> QED BY <1>1, <1>2, TypeSets DEF Flats

\* A field that is a map: each of its own fields is read as it was written.
LEMMA InnerReading ==
  ASSUME NEW type \in Inners, NEW v,
         v = [j \in DOMAIN InnerFields[type] |-> v[j]],
         \A j \in DOMAIN InnerFields[type] : v[j] \in FlatOf(InnerFields[type][j])
  PROVE  Takes(type, Put(type, v)) /\ Get(type, Put(type, v)) = v
<1> DEFINE fields == InnerFields[type]
           D == DOMAIN fields
           c == Put(type, v)
<1>1. type \in DOMAIN InnerFields /\ type \notin DOMAIN KeyFields BY TypeSets DEF Inners
<1>2. \A j \in D : fields[j] \in Flats
  <2>1. CASE type = "state" BY <2>1 DEF InnerFields, StateFields, Flats, Scalars
  <2>2. CASE type = "proof" BY <2>2 DEF InnerFields, ProofFields, Flats, Scalars
  <2>3. CASE type = "ticket" BY <2>3 DEF InnerFields, TicketFields, Flats, Scalars
  <2> QED BY <2>1, <2>2, <2>3 DEF Inners
<1>3. c.t = "map" /\ \A j \in D : j \in DOMAIN c.v /\ c.v[j] = PutFlat(fields[j], v[j])
  <2>1. CASE type \in {"state", "proof"}
    <3>1. c = [t |-> "map", v |-> [k \in D |-> PutFlat(fields[k], v[k])]]
      BY <1>1, <2>1 DEF Put, Map
    <3> HIDE DEF fields, c, D
    <3> QED BY <3>1
  <2>2. CASE type = "ticket"
    <3>1. c = [t |-> "map",
               v |-> [k \in 1 .. 9 |-> IF k = 9 THEN Null ELSE PutFlat(TicketFields[k], v[k])]]
      BY <1>1, <2>2 DEF Put, Map
    <3>2. fields = TicketFields /\ D = 1 .. 8 BY <2>2 DEF InnerFields, TicketFields
    <3> HIDE DEF fields, c, D
    <3> QED BY <3>1, <3>2
  <2> QED BY <2>1, <2>2 DEF Inners
<1> HIDE DEF fields, c, D
<1>4. \A j \in D : FlatReads(fields[j], v[j]) BY <1>2, FlatReading DEF fields, D
<1>5. \A j \in D : TakesFlat(fields[j], c.v[j]) /\ GetFlat(fields[j], c.v[j]) = v[j]
  BY <1>3, <1>4 DEF FlatReads
<1>6. Takes(type, c) BY <1>1, <1>3, <1>5 DEF Takes, fields, D
<1>7. Get(type, c) = [j \in D |-> GetFlat(fields[j], c.v[j])] BY <1>1 DEF Get, fields, D
<1>8. [j \in D |-> GetFlat(fields[j], c.v[j])] = [j \in D |-> v[j]] BY <1>5
<1> QED BY <1>6, <1>7, <1>8 DEF c, fields, D

\* The fields of a message are of the types above, and the keys of each map are 1, 2, ...
LEMMA SchemaTypes ==
  ASSUME NEW m \in DOMAIN Schema, NEW k \in DOMAIN Schema[m]
  PROVE  Schema[m][k] \in Flats \cup Inners
<1> USE DEF Flats, Scalars, Inners
<1>1. CASE m = "measurement_request" BY <1>1 DEF Schema
<1>2. CASE m = "measurement_response" BY <1>2 DEF Schema
<1>3. CASE m = "status_request" BY <1>3 DEF Schema
<1>4. CASE m = "status_response" BY <1>4 DEF Schema
<1>5. CASE m = "arm_request" BY <1>5 DEF Schema
<1>6. CASE m = "ticket_request" BY <1>6 DEF Schema
<1>7. CASE m = "ticket_response" BY <1>7 DEF Schema
<1>8. CASE m = "block_request" BY <1>8 DEF Schema
<1>9. CASE m = "block_response" BY <1>9 DEF Schema
<1> QED BY <1>1, <1>2, <1>3, <1>4, <1>5, <1>6, <1>7, <1>8, <1>9 DEF Schema

\* Each field of a message is read as it was written.
LEMMA FieldReads ==
  ASSUME NEW m \in DOMAIN Schema, NEW x, WellTyped(Schema[m], x), NEW k \in DOMAIN Schema[m]
  PROVE  /\ Takes(Schema[m][k], Put(Schema[m][k], x[k]))
         /\ Get(Schema[m][k], Put(Schema[m][k], x[k])) = x[k]
<1> DEFINE type == Schema[m][k]
           v == x[k]
<1>1. type \in Flats \cup Inners BY SchemaTypes
<1>2. CASE type \in Inners
  <2>1. /\ v = [j \in DOMAIN InnerFields[type] |-> v[j]]
        /\ \A j \in DOMAIN InnerFields[type] : v[j] \in FlatOf(InnerFields[type][j])
    BY <1>2, TypeSets, Zenon DEF WellTyped
  <2> HIDE DEF type, v
  <2>2. Takes(type, Put(type, v)) /\ Get(type, Put(type, v)) = v BY <1>2, <2>1, InnerReading, Zenon
  <2> QED BY <2>2 DEF type, v
<1>3. CASE type \in Flats
  <2>1. type \notin DOMAIN InnerFields /\ type \notin DOMAIN KeyFields
    BY <1>3, TypeSets DEF Flats, Scalars, Inners
  <2>2. type # "state" /\ type # "proof" /\ type # "ticket" BY <1>3 DEF Flats, Scalars
  <2>3. v \in FlatOf(type) BY <2>1, Zenon DEF WellTyped
  <2> HIDE DEF type, v
  <2>4. Put(type, v) = PutFlat(type, v) BY <2>1, <2>2 DEF Put
  <2>5. \A c : Takes(type, c) = TakesFlat(type, c) /\ Get(type, c) = GetFlat(type, c)
    BY <2>1 DEF Takes, Get
  <2>6. Takes(type, Put(type, v)) /\ Get(type, Put(type, v)) = v
    BY <1>3, <2>3, <2>4, <2>5, FlatReading DEF FlatReads
  <2> QED BY <2>6 DEF type, v
<1> QED BY <1>1, <1>2, <1>3

\* A message of the current schema is read back as it was sent.
LEMMA MessageReads ==
  ASSUME NEW m \in DOMAIN Schema, NEW x, WellTyped(Schema[m], x)
  PROVE  DecodesMessage(m, EncodeMessage(m, x)) /\ DecodeMessage(m, EncodeMessage(m, x)) = x
<1> DEFINE D == DOMAIN Schema[m]
           c == EncodeMessage(m, x)
<1>1. c.t = "map" /\ DOMAIN c.v = D /\ \A k \in D : c.v[k] = Put(Schema[m][k], x[k])
  BY DEF EncodeMessage, Map
<1>2. x = [k \in D |-> x[k]] BY DEF WellTyped
<1> HIDE DEF D, c
<1>3. \A k \in D : Takes(Schema[m][k], c.v[k]) /\ Get(Schema[m][k], c.v[k]) = x[k]
  BY <1>1, FieldReads DEF D
<1>4. Required(m) \subseteq D BY DEF Required, D
<1>5. DecodesMessage(m, c) BY <1>1, <1>3, <1>4 DEF DecodesMessage, D
<1>6. DecodeMessage(m, c) = [k \in D |-> IF k \in DOMAIN c.v THEN Get(Schema[m][k], c.v[k]) ELSE << >>]
  BY DEF DecodeMessage, D
<1>7. [k \in D |-> IF k \in DOMAIN c.v THEN Get(Schema[m][k], c.v[k]) ELSE << >>] = [k \in D |-> x[k]]
  BY <1>1, <1>3
<1> QED BY <1>2, <1>5, <1>6, <1>7 DEF c

\* What a peer on the older schema sends in place of x: the keys a decoder requires.
Older(m, x) ==
    [EncodeMessage(m, x) EXCEPT !.v = [k \in Required(m) |-> EncodeMessage(m, x).v[k]]]

\* A measurement without its last key is read with an empty cert_chain.
LEMMA OlderReads ==
  ASSUME NEW x, WellTyped(Schema["measurement_response"], x)
  PROVE  /\ DecodesMessage("measurement_response", Older("measurement_response", x))
         /\ DecodeMessage("measurement_response", Older("measurement_response", x))
               = [x EXCEPT ![7] = << >>]
<1> DEFINE m == "measurement_response"
           D == DOMAIN Schema[m]
           e == EncodeMessage(m, x)
           c == Older(m, x)
           R == Required(m)
<1>0. m \in DOMAIN Schema BY DEF Schema
<1>1. e.t = "map" /\ e = [t |-> "map", v |-> e.v] /\ DOMAIN e.v = D
      /\ \A k \in D : e.v[k] = Put(Schema[m][k], x[k])
  BY DEF EncodeMessage, Map
<1>2. x = [k \in D |-> x[k]] BY DEF WellTyped
<1>3. D = 1 .. 7 /\ R = 1 .. 6 BY DEF Required, Schema
<1>4. c = [e EXCEPT !.v = [k \in R |-> e.v[k]]] BY DEF Older
<1> HIDE DEF D, c, e, R
<1>5. c.t = "map" /\ DOMAIN c.v = R /\ \A k \in R : c.v[k] = Put(Schema[m][k], x[k])
  BY <1>1, <1>3, <1>4
<1>6. \A k \in D : /\ Takes(Schema[m][k], Put(Schema[m][k], x[k]))
                   /\ Get(Schema[m][k], Put(Schema[m][k], x[k])) = x[k]
  BY <1>0, FieldReads DEF D
<1>7. \A k \in R : Takes(Schema[m][k], c.v[k]) /\ Get(Schema[m][k], c.v[k]) = x[k]
  BY <1>3, <1>5, <1>6
<1>8. DecodesMessage(m, c) BY <1>5, <1>7 DEF DecodesMessage, D, R
<1>9. DecodeMessage(m, c) = [k \in D |-> IF k \in DOMAIN c.v THEN Get(Schema[m][k], c.v[k]) ELSE << >>]
  BY DEF DecodeMessage, D
<1>10. \A k \in D : (IF k \in DOMAIN c.v THEN Get(Schema[m][k], c.v[k]) ELSE << >>)
                      = (IF k = 7 THEN << >> ELSE x[k])
  BY <1>3, <1>5, <1>7
<1>11. [x EXCEPT ![7] = << >>] = [k \in D |-> IF k = 7 THEN << >> ELSE x[k]] BY <1>2, <1>3
<1> QED BY <1>8, <1>9, <1>10, <1>11 DEF c
-----------------------------------------------------------------------------
(* Answers and errors *)

\* What is made of a value on its way to the wire.
SentAs(j) ==
    /\ j.step = "message" =>
          /\ j.m \in DOMAIN Schema
          /\ \E x : /\ WellTyped(Schema[j.m], x)
                    /\ \/ j.x = x /\ j.wire = EncodeMessage(j.m, x)
                       \/ /\ j.m = "measurement_response"
                          /\ j.x = [x EXCEPT ![7] = << >>] /\ j.wire = Older(j.m, x)
    /\ j.step = "reply" =>
          j.op \in DOMAIN AgentSchema /\ j.wire = encode_agent_response(j.op, j.x)
    /\ j.step = "error" => \E code, reason : j.wire = encode_wire_error(code, reason)
    /\ j.step = "arm" =>
          /\ j.status \in {"armed", "refused"}
          /\ j.reason = << >> \/ \E r : j.reason = <<r>>
          /\ j.wire = encode_arm_for_production_response(j.status, j.reason)

Sent == SentAs(job)

\* What is on the wire was made from what the step says, on one schema or the other.
LEMMA SentInv == OutputSpec => []Sent
<1>1. OutputInit => Sent BY DEF OutputInit, Idle, Sent, SentAs
<1>2. Sent /\ [OutputNext]_job => Sent'
  <2> SUFFICES ASSUME Sent, [OutputNext]_job PROVE Sent' OBVIOUS
  <2>1. ASSUME job'.step \notin {"message", "reply", "error", "arm"} PROVE Sent'
    BY <2>1 DEF Sent, SentAs
  <2>2. CASE SignBytes BY <2>1, <2>2 DEF SignBytes
  <2>3. CASE Account BY <2>1, <2>3 DEF Account
  <2>4. CASE SendMessage
    <3>0. PICK m \in DOMAIN Schema : \E x \in Values[m] :
            job' = [step |-> "message", m |-> m, x |-> x, wire |-> EncodeMessage(m, x)]
      BY <2>4 DEF SendMessage
    <3>1. PICK x \in Values[m] :
            job' = [step |-> "message", m |-> m, x |-> x, wire |-> EncodeMessage(m, x)]
      BY <3>0
    <3>2. WellTyped(Schema[m], x) BY OutputsAssumption, Zenon
    <3>3. job'.step = "message" /\ job'.m = m /\ job'.x = x /\ job'.wire = EncodeMessage(m, x)
      BY <3>1
    <3> QED BY <3>2, <3>3, Zenon DEF Sent, SentAs
  <2>5. CASE OldPeerSends
    <3>1. PICK x \in Values["measurement_response"] :
            LET new == EncodeMessage("measurement_response", x)
                req == Required("measurement_response")
            IN  job' = [step |-> "message", m |-> "measurement_response",
                        x |-> [x EXCEPT ![7] = << >>],
                        wire |-> [new EXCEPT !.v = [k \in req |-> new.v[k]]]]
      BY <2>5 DEF OldPeerSends
    <3> DEFINE m == "measurement_response"
    <3>2. job' = [step |-> "message", m |-> m, x |-> [x EXCEPT ![7] = << >>], wire |-> Older(m, x)]
      BY <3>1, Zenon DEF Older
    <3>3. /\ job'.step = "message" /\ job'.m = m
          /\ job'.x = [x EXCEPT ![7] = << >>] /\ job'.wire = Older(m, x)
      BY <3>2
    <3>4. m \in DOMAIN Schema BY DEF Schema
    <3>5. WellTyped(Schema[m], x) BY <3>4, OutputsAssumption, Zenon
    <3> QED BY <3>3, <3>4, <3>5, Zenon DEF Sent, SentAs
  <2>6. CASE SendError
    <3>1. PICK code \in 0 .. PROTOCOL_VERSION + 1, reason \in Reasons :
            job' = [step |-> "error", wire |-> encode_wire_error(code, reason)]
      BY <2>6 DEF SendError
    <3>2. job'.step = "error" /\ job'.wire = encode_wire_error(code, reason) BY <3>1
    <3> QED BY <3>2, Zenon DEF Sent, SentAs
  <2>7. CASE SendArm
    <3>1. PICK s \in {"armed", "refused"}, r \in {<< >>} \cup {<<x>> : x \in Reasons} :
            job' = [step |-> "arm", status |-> s, reason |-> r,
                    wire |-> encode_arm_for_production_response(s, r)]
      BY <2>7 DEF SendArm
    <3>2. /\ job'.step = "arm" /\ job'.status = s /\ job'.reason = r
          /\ job'.wire = encode_arm_for_production_response(s, r)
      BY <3>1
    <3>3. r = << >> \/ \E x : r = <<x>> OBVIOUS
    <3> QED BY <3>2, <3>3, Zenon DEF Sent, SentAs
  <2>8. CASE AgentReplies
    <3>0. PICK op \in DOMAIN AgentSchema : \E x \in AgentValues[op] :
            job' = [step |-> "reply", op |-> op, x |-> x, wire |-> encode_agent_response(op, x)]
      BY <2>8 DEF AgentReplies
    <3>1. PICK x \in AgentValues[op] :
            job' = [step |-> "reply", op |-> op, x |-> x, wire |-> encode_agent_response(op, x)]
      BY <3>0
    <3>2. /\ job'.step = "reply" /\ job'.op = op /\ job'.x = x
          /\ job'.wire = encode_agent_response(op, x)
      BY <3>1
    <3> QED BY <3>2, Zenon DEF Sent, SentAs
  <2>9. CASE AgentRefuses
    <3>1. PICK e \in DOMAIN AgentErrorCode : job' = [step |-> "error", wire |-> encode_agent_error(e)]
      BY <2>9 DEF AgentRefuses
    <3>2. job'.step = "error" /\ job'.wire = encode_wire_error(AgentErrorCode[e], e)
      BY <3>1 DEF encode_agent_error
    <3> QED BY <3>2, Zenon DEF Sent, SentAs
  <2>10. CASE NextJob BY <2>1, <2>10 DEF NextJob, Idle
  <2>11. CASE UNCHANGED job BY <2>11, Zenon DEF Sent
  <2> QED BY <2>2, <2>3, <2>4, <2>5, <2>6, <2>7, <2>8, <2>9, <2>10, <2>11 DEF OutputNext
<1> QED BY <1>1, <1>2, PTL DEF OutputSpec

\* The second field of an answer to a request that succeeded is required and is no text.
LEMMA SecondField ==
  ASSUME NEW m \in Responses
  PROVE  /\ m \in DOMAIN Schema /\ {1, 2} \subseteq DOMAIN Schema[m] /\ 2 \in Required(m)
         /\ Schema[m][2] \in {"bytes", "bool"}
<1>1. CASE m = "measurement_response" BY <1>1 DEF Schema, Required
<1>2. CASE m = "status_response" BY <1>2 DEF Schema, Required
<1>3. CASE m = "ticket_response" BY <1>3 DEF Schema, Required
<1>4. CASE m = "block_response" BY <1>4 DEF Schema, Required
<1> QED BY <1>1, <1>2, <1>3, <1>4 DEF Responses

\* A field of one of these types is never written as a text.
LEMMA NoText ==
  ASSUME NEW type \in {"bytes", "bool"}, NEW v
  PROVE  Put(type, v).t \in {"bytes", "bool"} /\ \A c : Takes(type, c) => c.t # "text"
<1>1. type \notin DOMAIN Elements /\ type \notin DOMAIN InnerFields /\ type \notin DOMAIN KeyFields
  BY TypeSets DEF Inners
<1>2. Put(type, v) = PutOne(type, v) BY <1>1 DEF Put, PutFlat
<1>3. \A c : Takes(type, c) = TakesOne(type, c) BY <1>1 DEF Takes, TakesFlat
<1>4. PutOne(type, v).t \in {"bytes", "bool"} BY DEF PutOne, Blob, Bool
<1>5. \A c : TakesOne(type, c) => c.t # "text" BY DEF TakesOne
<1> QED BY <1>2, <1>3, <1>4, <1>5

\* An answer to a request that succeeded is not read as an error.
LEMMA SuccessNoError ==
  ASSUME NEW m \in Responses, NEW x
  PROVE  ~ is_wire_error_payload(EncodeMessage(m, x))
<1> DEFINE c == EncodeMessage(m, x)
<1>1. c.v[2] = Put(Schema[m][2], x[2]) BY SecondField DEF EncodeMessage, Map
<1>2. c.v[2].t # "text" BY <1>1, SecondField, NoText
<1> QED BY <1>2 DEF is_wire_error_payload

\* A measurement from a peer on the older schema is not read as an error.
LEMMA OlderNoError ==
  ASSUME NEW x
  PROVE  ~ is_wire_error_payload(Older("measurement_response", x))
<1> DEFINE m == "measurement_response"
           e == EncodeMessage(m, x)
           c == Older(m, x)
<1>0. m \in Responses BY DEF Responses
<1>1. e.v[2] = Put(Schema[m][2], x[2]) /\ e = [t |-> "map", v |-> e.v]
  BY <1>0, SecondField DEF EncodeMessage, Map
<1>2. c = [e EXCEPT !.v = [k \in Required(m) |-> e.v[k]]] BY DEF Older
<1>3. e.v[2].t # "text" BY <1>0, <1>1, SecondField, NoText
<1>4. 2 \in Required(m) BY <1>0, SecondField
<1> HIDE DEF c, e
<1>5. c.v[2] = e.v[2] BY <1>1, <1>2, <1>4
<1> HIDE DEF m
<1> QED BY <1>3, <1>5 DEF is_wire_error_payload, c, m

\* An error is read as one, and by the reader of no answer.
LEMMA ErrorNoSuccess ==
  ASSUME NEW code, NEW reason
  PROVE  /\ is_wire_error_payload(encode_wire_error(code, reason))
         /\ \A m \in Responses : ~ DecodesMessage(m, encode_wire_error(code, reason))
<1> DEFINE c == encode_wire_error(code, reason)
<1>1. c.t = "map" /\ DOMAIN c.v = 1 .. 2 /\ c.v[1].t = "int" /\ c.v[2].t = "text"
  BY DEF encode_wire_error, Map, Num, Text
<1> HIDE DEF c
<1>2. is_wire_error_payload(c) BY <1>1 DEF is_wire_error_payload
<1>3. ASSUME NEW m \in Responses PROVE ~ DecodesMessage(m, c)
  <2>1. ~ Takes(Schema[m][2], c.v[2]) BY <1>1, SecondField, NoText
  <2>2. 2 \in DOMAIN Schema[m] \cap DOMAIN c.v BY <1>1, SecondField
  <2> QED BY <2>1, <2>2, Zenon DEF DecodesMessage
<1> QED BY <1>2, <1>3 DEF c

\* The first field of every reply of the gateway is bytes or an array, never a number.
LEMMA ReplyNoError ==
  ASSUME NEW op \in DOMAIN AgentSchema, NEW x
  PROVE  ~ is_wire_error_payload(encode_agent_response(op, x))
<1> DEFINE type == AgentSchema[op][1]
           c == encode_agent_response(op, x)
<1>1. 1 \in DOMAIN AgentSchema[op] /\ type \in {"bytes", "generated"}
  <2> USE DEF AgentSchema, SignedTransfer
  <2>1. CASE op = "public_identity" BY <2>1
  <2>2. CASE op = "prove_identity" BY <2>2
  <2>3. CASE op = "sign_transfer" BY <2>3
  <2>4. CASE op = "get_restore_pubkey" BY <2>4
  <2>5. CASE op = "generate_keys" BY <2>5
  <2>6. CASE op = "sign_faucet_dispense" BY <2>6
  <2>7. CASE op = "configure_treasury" BY <2>7
  <2>8. CASE op = "export_backup" BY <2>8
  <2>9. CASE op = "restore_backup" BY <2>9
  <2> QED BY <2>1, <2>2, <2>3, <2>4, <2>5, <2>6, <2>7, <2>8, <2>9
<1>2. c.v[1] = Put(type, x[1]) BY <1>1 DEF encode_agent_response, Map
<1> HIDE DEF type, c
<1>3. Put(type, x[1]).t # "int"
  <2>1. CASE type = "bytes" BY <2>1, NoText
  <2>2. CASE type = "generated" BY <2>2, TypeSets DEF Put, List
  <2> QED BY <1>1, <2>1, <2>2
<1> QED BY <1>2, <1>3 DEF is_wire_error_payload, c

\* An arm's answer is read as armed, or refused with the reason there was.
LEMMA ArmReads ==
  ASSUME NEW s \in {"armed", "refused"}, NEW r, r = << >> \/ \E x : r = <<x>>
  PROVE  LET c == encode_arm_for_production_response(s, r) IN
         /\ is_wire_error_payload(c) <=> s = "refused"
         /\ decode_arm_for_production_response(c).status = s
         /\ s = "refused" /\ r # << >> => decode_arm_for_production_response(c).reason = r
<1> DEFINE c == encode_arm_for_production_response(s, r)
<1>1. CASE s = "armed"
  <2>1. c = [t |-> "map", v |-> <<[t |-> "text", v |-> "armed"]>>]
    BY <1>1 DEF encode_arm_for_production_response, Map, Text
  <2>2. c.t = "map" /\ DOMAIN c.v = 1 .. 1 /\ c.v[1].t = "text" /\ c.v[1].v = "armed" BY <2>1
  <2> HIDE DEF c
  <2>3. ~ is_wire_error_payload(c) BY <2>2 DEF is_wire_error_payload
  <2>4. decode_arm_for_production_response(c) = [status |-> "armed", reason |-> << >>]
    BY <2>2 DEF decode_arm_for_production_response
  <2> QED BY <1>1, <2>3, <2>4 DEF c
<1>2. CASE s = "refused"
  <2> DEFINE why == IF r = << >> THEN "ARM_FOR_PRODUCTION refused" ELSE r[1]
  <2>1. c = encode_wire_error(2, why) BY <1>2 DEF encode_arm_for_production_response
  <2>2. r # << >> => r = <<why>> OBVIOUS
  <2> HIDE DEF c, why
  <2>3. /\ c.t = "map" /\ DOMAIN c.v = 1 .. 2 /\ c.v[1].t = "int"
        /\ c.v[2].t = "text" /\ c.v[2].v = why
    BY <2>1 DEF encode_wire_error, Map, Num, Text
  <2>4. is_wire_error_payload(c) BY <2>3 DEF is_wire_error_payload
  <2>5. decode_arm_for_production_response(c) = [status |-> "refused", reason |-> <<c.v[2].v>>]
    BY <2>3 DEF decode_arm_for_production_response
  <2>6. decode_arm_for_production_response(c) = [status |-> "refused", reason |-> <<why>>]
    BY <2>3, <2>5
  <2> QED BY <1>2, <2>2, <2>4, <2>6 DEF c
<1> QED BY <1>1, <1>2

\* ErrorOrSuccess: the producer's and the gateway's messages are read back as they were sent, by
\* a peer on the older schema too, and none of them both as an error and as a success.
THEOREM MessagesUnambiguous == OutputSpec => []ErrorOrSuccess
<1>1. Sent => ErrorOrSuccess
  <2> SUFFICES ASSUME Sent PROVE ErrorOrSuccess OBVIOUS
  <2> DEFINE c == job.wire
  <2>1. ASSUME job.step = "message"
        PROVE  /\ DecodesMessage(job.m, c) /\ DecodeMessage(job.m, c) = job.x
               /\ job.m \in Responses => ~ is_wire_error_payload(c)
    <3>1. PICK x : /\ WellTyped(Schema[job.m], x)
                   /\ \/ job.x = x /\ c = EncodeMessage(job.m, x)
                      \/ /\ job.m = "measurement_response"
                         /\ job.x = [x EXCEPT ![7] = << >>] /\ c = Older(job.m, x)
      BY <2>1, Zenon DEF Sent, SentAs
    <3>2. job.m \in DOMAIN Schema BY <2>1, Zenon DEF Sent, SentAs
    <3>3. CASE job.x = x /\ c = EncodeMessage(job.m, x)
      <4> DEFINE m == job.m
      <4>1. m \in DOMAIN Schema /\ WellTyped(Schema[m], x) BY <3>1, <3>2
      <4> HIDE DEF m
      <4>2. DecodesMessage(m, EncodeMessage(m, x)) /\ DecodeMessage(m, EncodeMessage(m, x)) = x
        BY <4>1, MessageReads, Zenon
      <4>3. m \in Responses => ~ is_wire_error_payload(EncodeMessage(m, x)) BY SuccessNoError, Zenon
      <4> QED BY <3>3, <4>2, <4>3, Zenon DEF m
    <3>4. CASE /\ job.m = "measurement_response"
               /\ job.x = [x EXCEPT ![7] = << >>] /\ c = Older(job.m, x)
      <4>1. WellTyped(Schema["measurement_response"], x) BY <3>1, <3>4
      <4>2. /\ DecodesMessage("measurement_response", Older("measurement_response", x))
            /\ DecodeMessage("measurement_response", Older("measurement_response", x))
                  = [x EXCEPT ![7] = << >>]
        BY <4>1, OlderReads, Zenon
      <4>3. ~ is_wire_error_payload(Older("measurement_response", x)) BY OlderNoError, Zenon
      <4> QED BY <3>4, <4>2, <4>3, Zenon
    <3> QED BY <3>1, <3>3, <3>4, Zenon
  <2>2. ASSUME job.step = "reply" PROVE ~ is_wire_error_payload(c)
    <3>1. job.op \in DOMAIN AgentSchema /\ c = encode_agent_response(job.op, job.x)
      BY <2>2, Zenon DEF Sent, SentAs
    <3> DEFINE op == job.op
               x == job.x
    <3>2. op \in DOMAIN AgentSchema BY <3>1
    <3> HIDE DEF op, x
    <3>3. ~ is_wire_error_payload(encode_agent_response(op, x)) BY <3>2, ReplyNoError, Zenon
    <3> QED BY <3>1, <3>3, Zenon DEF op, x
  <2>3. ASSUME job.step = "error"
        PROVE  is_wire_error_payload(c) /\ \A m \in Responses : ~ DecodesMessage(m, c)
    <3>1. PICK code, reason : c = encode_wire_error(code, reason) BY <2>3, Zenon DEF Sent, SentAs
    <3>2. /\ is_wire_error_payload(encode_wire_error(code, reason))
          /\ \A m \in Responses : ~ DecodesMessage(m, encode_wire_error(code, reason))
      BY ErrorNoSuccess, Zenon
    <3> QED BY <3>1, <3>2, Zenon
  <2>4. ASSUME job.step = "arm"
        PROVE  /\ is_wire_error_payload(c) <=> job.status = "refused"
               /\ decode_arm_for_production_response(c).status = job.status
               /\ job.status = "refused" /\ job.reason # << >> =>
                     decode_arm_for_production_response(c).reason = job.reason
    <3>1. /\ job.status \in {"armed", "refused"}
          /\ job.reason = << >> \/ \E r : job.reason = <<r>>
          /\ c = encode_arm_for_production_response(job.status, job.reason)
      BY <2>4, Zenon DEF Sent, SentAs
    <3> DEFINE s == job.status
               r == job.reason
    <3>2. s \in {"armed", "refused"} /\ (r = << >> \/ \E x : r = <<x>>) BY <3>1
    <3> HIDE DEF s, r
    <3>3. LET d == encode_arm_for_production_response(s, r) IN
          /\ is_wire_error_payload(d) <=> s = "refused"
          /\ decode_arm_for_production_response(d).status = s
          /\ s = "refused" /\ r # << >> => decode_arm_for_production_response(d).reason = r
      BY <3>2, ArmReads, Zenon
    <3> QED BY <3>1, <3>3, Zenon DEF s, r
  <2> QED BY <2>1, <2>2, <2>3, <2>4, Zenon DEF ErrorOrSuccess
<1> QED BY <1>1, SentInv, PTL
-----------------------------------------------------------------------------
(* Attestations (Attestation) *)

\* The least index of a set of indices, if there is any.
First(I) == IF I # {} THEN CHOOSE x \in I : \A y \in I : x =< y ELSE 0

\* The first of some indices is one of them.
LEMMA FirstIn ==
  ASSUME NEW I, I \subseteq Nat \ {0}
  PROVE  {First(I)} \ {0} \subseteq I
<1>1. CASE I = {} BY <1>1 DEF First
<1>2. CASE I # {}
  <2>1. I \subseteq Nat OBVIOUS
  <2>2. \E m \in I : \A k \in I : m <= k BY <1>2, <2>1, Least
  <2>3. First(I) \in I BY <1>2, <2>2 DEF First
  <2> QED BY <2>3
<1> QED BY <1>1, <1>2

\* The root of a chain is one of its certificates, self-signed, and the only one found.
\* (Found, pinned_ark_spki)
LEMMA FoundRoot ==
  ASSUME NEW chain
  PROVE  /\ \A c \in Found(chain, is_self_signed) :
               is_self_signed(c) /\ \E i \in 1 .. Len(chain) : c = chain[i]
         /\ \A c, d \in Found(chain, is_self_signed) : c = d
<1> DEFINE I == {i \in 1 .. Len(chain) : is_self_signed(chain[i])}
<1>1. Found(chain, is_self_signed) = {chain[i] : i \in {First(I)} \ {0}}
  BY Zenon DEF Found, SelectInSeq, Min, First
<1>2. I \subseteq Nat \ {0} OBVIOUS
<1>3. {First(I)} \ {0} \subseteq I
  <2> HIDE DEF I
  <2> QED BY <1>2, FirstIn
<1>4. \A i \in {First(I)} \ {0} : i \in 1 .. Len(chain) /\ is_self_signed(chain[i]) BY <1>3
<1> HIDE DEF I
<1> QED BY <1>1, <1>4, Zenon

\* AMD's keys sign AMD's certificates and nothing else.
AmdSigned(c) ==
    /\ \A p : c.by = <<"ark", p>> => c \in {Ark(p), Ask(p)}
    /\ \A p : c.by = <<"ask", p>> => \E d \in DOMAIN ProductOf : ProductOf[d] = p /\ c = Vcek(d)

\* A root of the operator's own naming is AMD's.
TrustsAmd(cli) == \A k \in pinned_ark_spki(cli.own) : \E p : k = <<"ark", p>>

\* The pin is one key, and AMD's root key.  (Pinned)
LEMMA PinnedOne ==
  ASSUME NEW cli, TrustsAmd(cli)
  PROVE  /\ \A k \in Pinned(cli) : \E p : k = <<"ark", p>>
         /\ \A k, l \in Pinned(cli) : k = l
<1>1. \A chain : \A k, l \in pinned_ark_spki(chain) : k = l BY FoundRoot DEF pinned_ark_spki
<1>2. ASSUME NEW p, NEW k \in pinned_ark_spki(Bundle(p)) PROVE k = <<"ark", p>>
  <2>1. PICK c \in Found(Bundle(p), is_self_signed) : k = c.key BY <1>2 DEF pinned_ark_spki
  <2>2. is_self_signed(c) /\ \E i \in 1 .. Len(Bundle(p)) : c = Bundle(p)[i] BY <2>1, FoundRoot
  <2>3. c \in {Ask(p), Ark(p)} BY <2>2 DEF Bundle
  <2>4. c # Ask(p) BY <2>2 DEF is_self_signed, Ask, Issued
  <2> QED BY <2>1, <2>3, <2>4 DEF Ark, Issued
<1>3. CASE cli.own # << >> /\ cli.product = "none"
  <2>1. Pinned(cli) = pinned_ark_spki(cli.own) BY <1>3 DEF Pinned
  <2> QED BY <1>1, <2>1 DEF TrustsAmd
<1>4. CASE cli.own = << >> /\ cli.product \in {"genoa", "turin"}
  <2>1. Pinned(cli) = pinned_ark_spki(Bundle(cli.product)) BY <1>4 DEF Pinned
  <2> QED BY <1>1, <1>2, <2>1
<1>5. CASE /\ ~ (cli.own # << >> /\ cli.product = "none")
           /\ ~ (cli.own = << >> /\ cli.product \in {"genoa", "turin"})
  <2>1. Pinned(cli) = {} BY <1>5 DEF Pinned
  <2> QED BY <2>1
<1> QED BY <1>3, <1>4, <1>5

\* A chain that verifies under an AMD root ends in a chip's certificate.
LEMMA ChainToChip ==
  ASSUME NEW vcek, NEW chain, NEW p, AmdSigned(vcek),
         \A i \in 1 .. Len(chain) : AmdSigned(chain[i]),
         verify_cert_chain(vcek, chain, <<"ark", p>>), cert_p384_key(vcek) # {}
  PROVE  \E c \in DOMAIN ProductOf : ProductOf[c] = p /\ vcek = Vcek(c)
<1> DEFINE Asks == Found(chain, LAMBDA c : c.subject = vcek.issuer)
<1>1. PICK ark \in Found(chain, is_self_signed), ask \in Asks :
         ark.key = <<"ark", p>> /\ verify_cert_signed_by(ask, ark) /\ verify_cert_signed_by(vcek, ask)
  BY Zenon DEF verify_cert_chain
<1>2. \E i \in 1 .. Len(chain) : ask = chain[i]
  <2> DEFINE I == {i \in 1 .. Len(chain) : chain[i].subject = vcek.issuer}
  <2>1. Asks = {chain[i] : i \in {First(I)} \ {0}}
    BY Zenon DEF Found, SelectInSeq, Min, First
  <2>2. I \subseteq Nat \ {0} OBVIOUS
  <2>3. {First(I)} \ {0} \subseteq I
    <3> HIDE DEF I
    <3> QED BY <2>2, FirstIn
  <2>4. \A i \in {First(I)} \ {0} : i \in 1 .. Len(chain) BY <2>3
  <2> HIDE DEF I
  <2> QED BY <1>1, <2>1, <2>4, Zenon
<1>3. AmdSigned(ask) BY <1>2, Zenon
<1> HIDE DEF Asks
<1>4. ask.by = <<"ark", p>> /\ vcek.by = ask.key BY <1>1 DEF verify_cert_signed_by
<1>5. ask \in {Ark(p), Ask(p)} BY <1>3, <1>4 DEF AmdSigned
<1>6. ask # Ark(p)
  <2> SUFFICES ASSUME ask = Ark(p) PROVE FALSE OBVIOUS
  <2>1. vcek.by = <<"ark", p>> BY <1>4 DEF Ark, Issued
  <2>2. vcek \in {Ark(p), Ask(p)} BY <2>1 DEF AmdSigned
  <2>3. Rsa(vcek.key) BY <2>2 DEF Ark, Ask, Issued, Rsa
  <2> QED BY <2>3 DEF cert_p384_key
<1>7. vcek.by = <<"ask", p>> BY <1>4, <1>5, <1>6 DEF Ask, Issued
<1> QED BY <1>7 DEF AmdSigned

\* Whatever certificates the host adds or leaves out, an attestation that verifies
\* (run, verify_attestation) is a chip's own report, of a product under the pinned root,
\* and says what is asked of it: AMD's keys sign its own certificates and nothing else,
\* and the operator's own chain, if there is one, has AMD's root.
THEOREM AttestedByAChip ==
  ASSUME NEW cli, NEW rep, NEW vcek, NEW chain,
         cli.pq_pubkey \in Seq(Bstr), cli.allow_unbound \in BOOLEAN,
         TrustsAmd(cli), AmdSigned(vcek), \A i \in 1 .. Len(chain) : AmdSigned(chain[i]),
         run(cli, rep, vcek, chain)
  PROVE  Genuine(rep, vcek, cli)
<1>1. PICK pin \in Pinned(cli) :
         verify_attestation(rep, vcek, chain, pin, cli.pq_pubkey, cli.measurements)
  BY DEF run
<1>2. PICK p : pin = <<"ark", p>> BY <1>1, PinnedOne
<1>3. /\ prevalidate_report(rep, cli.pq_pubkey, cli.measurements)
      /\ verify_cert_chain(vcek, chain, pin)
      /\ \E k \in cert_p384_key(vcek) : verify_report_signature(rep, k)
      /\ verify_vcek_chip_binding(vcek, rep)
  BY <1>1 DEF verify_attestation
<1>4. cert_p384_key(vcek) # {} BY <1>3
<1>5. PICK c \in DOMAIN ProductOf : ProductOf[c] = p /\ vcek = Vcek(c)
  BY <1>2, <1>3, <1>4, ChainToChip
<1>6. rep.by = vcek.key BY <1>3 DEF cert_p384_key, verify_report_signature
<1>7. rep.chip \in {0, c}
  <2>1. vcek.hwid = <<[form |-> "raw", chip |-> c]>> BY <1>5 DEF Vcek, Issued
  <2>2. parse_amd_hwid(vcek.hwid[1]) = {c} BY <2>1 DEF parse_amd_hwid
  <2> QED BY <1>3, <2>2 DEF verify_vcek_chip_binding
<1>8. Pinned(cli) = {<<"ark", ProductOf[c]>>} BY <1>1, <1>2, <1>5, PinnedOne
<1>9. (cli.pq_pubkey # << >>) # cli.allow_unbound BY DEF run
<1>10. cli.allow_unbound \/ rep.data = report_data_for_pubkey(cli.pq_pubkey[1])
  <2> SUFFICES ASSUME ~ cli.allow_unbound PROVE rep.data = report_data_for_pubkey(cli.pq_pubkey[1])
    OBVIOUS
  <2>1. cli.pq_pubkey # << >> BY <1>9
  <2>2. 1 \in DOMAIN cli.pq_pubkey BY <2>1
  <2> QED BY <1>3, <2>2 DEF prevalidate_report
<1>11. /\ rep.measurement \in cli.measurements
       /\ rep.whole /\ ~ rep.debug /\ rep.version >= MIN_REPORT_VERSION
  BY <1>3 DEF prevalidate_report
<1> QED BY <1>5, <1>6, <1>7, <1>8, <1>9, <1>10, <1>11 DEF Genuine

\* The first of one index.
LEMMA FirstOne ==
  ASSUME NEW I, NEW n \in Nat \ {0}, I = {n}
  PROVE  {First(I)} \ {0} = {n}
<1>1. n \in I /\ \A y \in I : n =< y OBVIOUS
<1>2. \E x \in I : \A y \in I : x =< y BY <1>1
<1>3. First(I) \in I BY <1>2 DEF First
<1> QED BY <1>3

\* The first of one index, where there are two.
LEMMA FirstOf12 ==
  /\ \A I : I = {1} => {First(I)} \ {0} = {1}
  /\ \A I : I = {2} => {First(I)} \ {0} = {2}
BY FirstOne

\* A chip's own report that says what is asked verifies (run, verify_attestation), with
\* AMD's two certificates in either order.
THEOREM ChipIsAccepted ==
  ASSUME NEW cli, NEW rep, NEW vcek, NEW chain, NEW p,
         Len(cli.pq_pubkey) <= 1, cli.pq_pubkey \in Seq(Bstr), cli.allow_unbound \in BOOLEAN,
         \A m \in cli.measurements : parse_measurement(m),
         chain \in {<<Ask(p), Ark(p)>>, <<Ark(p), Ask(p)>>}, <<"ark", p>> \in Pinned(cli),
         Genuine(rep, vcek, cli)
  PROVE  run(cli, rep, vcek, chain)
<1>1. PICK c \in DOMAIN ProductOf :
        /\ vcek = Vcek(c) /\ rep.by = vcek.key /\ rep.chip \in {0, c}
        /\ Pinned(cli) = {<<"ark", ProductOf[c]>>}
        /\ (cli.pq_pubkey # << >>) # cli.allow_unbound
        /\ cli.allow_unbound \/ rep.data = report_data_for_pubkey(cli.pq_pubkey[1])
        /\ rep.measurement \in cli.measurements
        /\ rep.whole /\ ~ rep.debug /\ rep.version >= MIN_REPORT_VERSION
  BY DEF Genuine
<1>2. ProductOf[c] = p BY <1>1
<1>3. prevalidate_report(rep, cli.pq_pubkey, cli.measurements)
  <2>1. ASSUME NEW i \in DOMAIN cli.pq_pubkey
        PROVE  rep.data = report_data_for_pubkey(cli.pq_pubkey[i])
    <3>1. i = 1 OBVIOUS
    <3>2. cli.pq_pubkey # << >> OBVIOUS
    <3>3. ~ cli.allow_unbound BY <1>1, <3>2
    <3> QED BY <1>1, <3>1, <3>3
  <2> QED BY <1>1, <2>1 DEF prevalidate_report
<1>4. /\ is_self_signed(Ark(p)) /\ ~ is_self_signed(Ask(p))
      /\ Ask(p).subject = vcek.issuer /\ Ark(p).subject # vcek.issuer
  BY <1>1, <1>2 DEF is_self_signed, verify_cert_signed_by, Ark, Ask, Vcek, Issued, Rsa
<1>5. Found(chain, is_self_signed) = {Ark(p)}
  <2> DEFINE I == {i \in 1 .. Len(chain) : is_self_signed(chain[i])}
  <2>1. Found(chain, is_self_signed) = {chain[i] : i \in {First(I)} \ {0}}
    BY Zenon DEF Found, SelectInSeq, Min, First
  <2>2. CASE chain = <<Ark(p), Ask(p)>>
    <3>1. I = {1} BY <1>4, <2>2
    <3> HIDE DEF I
    <3>2. {First(I)} \ {0} = {1} BY <3>1, FirstOf12, Zenon
    <3>3. chain[1] = Ark(p) BY <2>2
    <3>4. {chain[i] : i \in {1}} = {Ark(p)} BY <3>3
    <3> QED BY <2>1, <3>2, <3>4, Zenon
  <2>3. CASE chain = <<Ask(p), Ark(p)>>
    <3>1. I = {2} BY <1>4, <2>3
    <3> HIDE DEF I
    <3>2. {First(I)} \ {0} = {2} BY <3>1, FirstOf12, Zenon
    <3>3. chain[2] = Ark(p) BY <2>3
    <3>4. {chain[i] : i \in {2}} = {Ark(p)} BY <3>3
    <3> QED BY <2>1, <3>2, <3>4, Zenon
  <2> QED BY <2>2, <2>3
<1>6. Found(chain, LAMBDA x : x.subject = vcek.issuer) = {Ask(p)}
  <2> DEFINE I == {i \in 1 .. Len(chain) : chain[i].subject = vcek.issuer}
  <2>1. Found(chain, LAMBDA x : x.subject = vcek.issuer) = {chain[i] : i \in {First(I)} \ {0}}
    BY Zenon DEF Found, SelectInSeq, Min, First
  <2>2. CASE chain = <<Ark(p), Ask(p)>>
    <3>1. I = {2} BY <1>4, <2>2
    <3> HIDE DEF I
    <3>2. {First(I)} \ {0} = {2} BY <3>1, FirstOf12, Zenon
    <3>3. chain[2] = Ask(p) BY <2>2
    <3>4. {chain[i] : i \in {2}} = {Ask(p)} BY <3>3
    <3> QED BY <2>1, <3>2, <3>4, Zenon
  <2>3. CASE chain = <<Ask(p), Ark(p)>>
    <3>1. I = {1} BY <1>4, <2>3
    <3> HIDE DEF I
    <3>2. {First(I)} \ {0} = {1} BY <3>1, FirstOf12, Zenon
    <3>3. chain[1] = Ask(p) BY <2>3
    <3>4. {chain[i] : i \in {1}} = {Ask(p)} BY <3>3
    <3> QED BY <2>1, <3>2, <3>4, Zenon
  <2> QED BY <2>2, <2>3
<1>7. verify_cert_chain(vcek, chain, <<"ark", p>>)
  <2>1. Ark(p).key = <<"ark", p>> /\ Ask(p).issuer = Ark(p).subject BY DEF Ark, Ask, Issued
  <2>2. verify_cert_signed_by(Ask(p), Ark(p)) BY DEF verify_cert_signed_by, Ark, Ask, Issued, Rsa
  <2>3. verify_cert_signed_by(vcek, Ask(p))
    BY <1>1, <1>2 DEF verify_cert_signed_by, Vcek, Ask, Issued, Rsa
  <2> QED BY <1>5, <1>6, <2>1, <2>2, <2>3, Zenon DEF verify_cert_chain
<1>8. \E k \in cert_p384_key(vcek) : verify_report_signature(rep, k)
  <2>1. ~ Rsa(vcek.key) BY <1>1 DEF Vcek, Issued, Rsa
  <2>2. verify_report_signature(rep, vcek.key) BY <1>1 DEF verify_report_signature
  <2> QED BY <2>1, <2>2 DEF cert_p384_key
<1>9. verify_vcek_chip_binding(vcek, rep)
  <2>1. vcek.hwid = <<[form |-> "raw", chip |-> c]>> BY <1>1 DEF Vcek, Issued
  <2>2. parse_amd_hwid(vcek.hwid[1]) = {c} BY <2>1 DEF parse_amd_hwid
  <2> QED BY <1>1, <2>1, <2>2 DEF verify_vcek_chip_binding
<1>10. verify_attestation(rep, vcek, chain, <<"ark", p>>, cli.pq_pubkey, cli.measurements)
  BY <1>3, <1>7, <1>8, <1>9 DEF verify_attestation
<1> QED BY <1>1, <1>10 DEF run

\* What a report vouches for is an input whose bytes are its report data.  (VouchesFor)
LEMMA ReportUse ==
  ASSUME NEW rep, NEW u \in VouchesFor(rep, FormInputs)
  PROVE  \E f \in ReportForms \cup {"pubkey"} :
            \E x : u = <<f, x>> /\ x \in Inputs(f) /\ Bytes(f, x) = rep.data
<1> DEFINE Use(f, x) == u = <<f, x>> /\ x \in Inputs(f) /\ Bytes(f, x) = rep.data
<1>0. "pubkey" \in Forms /\ "ephemeral" \in Forms /\ "completion" \in Forms BY DEF Forms
<1>1. CASE \E x \in FormInputs["pubkey"] :
              u = <<"pubkey", x>> /\ prevalidate_report(rep, <<x>>, {rep.measurement})
  <2>1. PICK x \in FormInputs["pubkey"] :
           u = <<"pubkey", x>> /\ prevalidate_report(rep, <<x>>, {rep.measurement})
    BY <1>1
  <2>2. rep.data = report_data_for_pubkey(<<x>>[1]) BY <2>1 DEF prevalidate_report
  <2>3. Use("pubkey", x)
    <3>1. x \in Inputs("pubkey") BY <1>0, OutputsAssumption
    <3>2. Bytes("pubkey", x) = report_data_for_pubkey(x) BY DEF Bytes
    <3> QED BY <2>1, <2>2, <3>1, <3>2
  <2> QED BY <2>3
<1>2. CASE \E x \in FormInputs["ephemeral"] :
              u = <<"ephemeral", x>> /\ verify_restore_ephemeral_attestation(rep, x)
  <2>1. PICK x \in FormInputs["ephemeral"] :
           u = <<"ephemeral", x>> /\ verify_restore_ephemeral_attestation(rep, x)
    BY <1>2
  <2>2. rep.data = report_data_for_restore_ephemeral(x)
    BY <2>1 DEF verify_restore_ephemeral_attestation
  <2>3. Use("ephemeral", x)
    <3>1. x \in Inputs("ephemeral") BY <1>0, OutputsAssumption
    <3>2. Bytes("ephemeral", x) = report_data_for_restore_ephemeral(x) BY DEF Bytes
    <3> QED BY <2>1, <2>2, <3>1, <3>2
  <2> QED BY <2>3 DEF ReportForms
<1>3. CASE \E x \in FormInputs["completion"] :
              /\ u = <<"completion", x>>
              /\ verify_restore_completion_attestation(rep, x, rep.measurement)
  <2>1. PICK x \in FormInputs["completion"] :
           /\ u = <<"completion", x>>
           /\ verify_restore_completion_attestation(rep, x, rep.measurement)
    BY <1>3
  <2>2. rep.data = report_data_for_restore_completion(x)
    BY <2>1 DEF verify_restore_completion_attestation
  <2>3. Use("completion", x)
    <3>1. x \in Inputs("completion") BY <1>0, OutputsAssumption
    <3>2. Bytes("completion", x) = report_data_for_restore_completion(x) BY DEF Bytes
    <3> QED BY <2>1, <2>2, <3>1, <3>2
  <2> QED BY <2>3 DEF ReportForms
<1> QED BY <1>1, <1>2, <1>3 DEF VouchesFor

\* One report vouches for one key, one restore or one completion, at most
\* (prevalidate_report, verify_restore_ephemeral_attestation,
\* verify_restore_completion_attestation): no other has its report data.
THEOREM OneReportOneUse == \A rep : Cardinality(VouchesFor(rep, FormInputs)) <= 1
<1> SUFFICES ASSUME NEW rep PROVE Cardinality(VouchesFor(rep, FormInputs)) <= 1 OBVIOUS
<1> DEFINE U == VouchesFor(rep, FormInputs)
<1>1. ASSUME NEW u \in U, NEW w \in U PROVE u = w
  <2>1. PICK f \in ReportForms \cup {"pubkey"} :
           \E x : u = <<f, x>> /\ x \in Inputs(f) /\ Bytes(f, x) = rep.data
    BY ReportUse
  <2>2. PICK x : u = <<f, x>> /\ x \in Inputs(f) /\ Bytes(f, x) = rep.data BY <2>1
  <2>3. PICK g \in ReportForms \cup {"pubkey"} :
           \E y : w = <<g, y>> /\ y \in Inputs(g) /\ Bytes(g, y) = rep.data
    BY ReportUse
  <2>4. PICK y : w = <<g, y>> /\ y \in Inputs(g) /\ Bytes(g, y) = rep.data BY <2>3
  <2>5. f \in Forms /\ g \in Forms /\ Bearer(f) = Bearer(g)
    BY <2>1, <2>3 DEF ReportForms, Forms, Bearer, Sha3Forms
  <2>6. Bytes(f, x) = Bytes(g, y) BY <2>2, <2>4
  <2>7. f = g BY <2>2, <2>4, <2>5, <2>6, SameForm
  <2>8. x = y BY <2>2, <2>4, <2>5, <2>6, <2>7, SameInput
  <2> QED BY <2>2, <2>4, <2>7, <2>8
<1> HIDE DEF U
<1>2. CASE U = {} BY <1>2, FS_EmptySet DEF U
<1>3. CASE U # {}
  <2>1. PICK u : u \in U BY <1>3
  <2>2. U = {u} BY <1>1, <2>1
  <2>3. Cardinality(U) = 1 BY <2>2, FS_Singleton
  <2> QED BY <2>3 DEF U
<1> QED BY <1>2, <1>3
=============================================================================
