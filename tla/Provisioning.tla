---------------------------- MODULE Provisioning ----------------------------
(***************************************************************************)
(* The attested install handshake M1-M4 of the agent gateway's first boot  *)
(* (agent_provision.rs, provision_bootstrap.rs, and the driver in          *)
(* agent_gateway_boot.rs).                                                 *)
(*                                                                         *)
(* Several enclaves are provisioned at once and every message travels      *)
(* through the untrusted host, which may withhold, replay, reorder and mix *)
(* what it has seen, make challenges of its own and sign with keys of its  *)
(* own.  Each enclave process accepts one connection and answers one       *)
(* handshake.  Its nonce N_e and its scope id are fresh random values and  *)
(* are named after the enclave; a report is the pair of nonces its         *)
(* REPORT_DATA commits to; a signature is its key and what it covers.      *)
(***************************************************************************)
EXTENDS Naturals, FiniteSets

CONSTANTS Enclaves,     \* first boots, each a process with its own N_e
          Challenges,   \* the provisioner's nonces N_p, one per ceremony
          HostNonce,    \* a challenge the host made up
          ConfigBytes,  \* key 1 of M3
          WellFormed,   \* the config maps decode_config_map accepts
          FrameBytes,   \* bytes of the longest frame, its header included
          None

ASSUME ProvisioningAssumption ==
    /\ HostNonce \notin Challenges
    /\ WellFormed \subseteq ConfigBytes
    /\ FrameBytes \in Nat \ {0}
    /\ None \notin Challenges \cup {HostNonce}

VARIABLES
    lab,         \* the build emits the fixed mock report, and its provisioner takes it
    driver,      \* where the handshake driver of each enclave stands
    session,     \* ProvisionSession.state
    n_p,         \* ProvisionSession.n_p, N_e is set with it
    report,      \* the report fetched for M2
    left,        \* bytes the blocked read still has to receive
    quiet,       \* SO_RCVTIMEO has run out since the last byte
    sealed,      \* the blob on_m3 sealed
    challenged,  \* the challenges the provisioner has sent
    m2,          \* the M2 messages that left an enclave
    signed,      \* the transcripts the provisioner has signed
    blobs,       \* the blobs the host was handed in M4
    file,        \* the lab build's sealed keystore file, as a first boot leaves it
    later        \* what a later boot from that file came to

fileVars == <<file, later>>
enclaveVars == <<driver, session, n_p, report, left, quiet, sealed, m2, blobs, fileVars>>
vars == <<lab, driver, session, n_p, report, left, quiet, sealed,
          challenged, m2, signed, blobs, file, later>>

Nonces == Challenges \cup {HostNonce}

\* REPORT_DATA = H(domain || N_p || N_e) (compute_report_data).
compute_report_data(np, e) == [n_p |-> np, n_e |-> e]

\* The lab build's report carries no REPORT_DATA at all.
MockReport == [mock |-> TRUE]

Reports == [n_p : Nonces, n_e : Enclaves] \cup {MockReport}

\* The four fields Sig_PROV covers (transcript_canonical); a hash stands for
\* what it is taken of.
Transcripts == [config : ConfigBytes, n_p : Nonces, n_e : Enclaves, report : Reports]

\* The leaf certificates a host can present: the provisioner's, one the operator
\* CA signed for another role, one it did not sign, and bytes that do not parse.
Certs == {"provisioner", "otherRole", "unsigned", "malformed"}

\* verify_provisioner_cert: the key a certificate authenticates, None when it is
\* refused.  The keys of the other certificates are taken to be the host's.
verify_provisioner_cert(cert) == IF cert = "provisioner" THEN "provisioner" ELSE None

CertKey(cert) == IF cert = "provisioner" THEN "provisioner" ELSE "host"

\* The signatures a host can put under a body: its own, or one it has seen.
Signatures(body) ==
    [key : {"host"}, over : {body}] \cup [key : {"provisioner"}, over : signed]

\* The config maps with exactly the seven keys and no fixture fleet id.
decode_config_map(bytes) == bytes \in WellFormed

\* The scope id is drawn in the enclave at sealing, never taken from a message.
mint_enclave_scope_id(e) == e

seal_provisioned_keystore(e, config) ==
    [scope |-> mint_enclave_scope_id(e), config |-> config]

SessionStates == {"AwaitingM1", "AwaitingM3", "Done", "Failed"}

DriverStates == {"off", "accept", "recvM1", "fetch", "sendM2", "recvM3",
                 "sendM4", "unseal", "provisioned", "exited"}

Blobs == [scope : Enclaves, config : WellFormed]

TypeOK ==
    /\ lab \in BOOLEAN
    /\ driver \in [Enclaves -> DriverStates]
    /\ session \in [Enclaves -> SessionStates]
    /\ n_p \in [Enclaves -> Nonces \cup {None}]
    /\ report \in [Enclaves -> Reports \cup {None}]
    /\ left \in [Enclaves -> 0..FrameBytes]
    /\ quiet \in [Enclaves -> BOOLEAN]
    /\ sealed \in [Enclaves -> Blobs \cup {None}]
    /\ challenged \subseteq Challenges
    /\ m2 \subseteq [n_e : Enclaves, report : Reports]
    /\ signed \subseteq Transcripts
    /\ blobs \subseteq Blobs
    /\ file \in [Enclaves -> {"missing", "torn", "whole"}]
    /\ later \in [Enclaves -> {"none", "serves", "refuses"}]

Init ==
    /\ lab \in BOOLEAN
    /\ driver = [e \in Enclaves |-> "off"]
    /\ session = [e \in Enclaves |-> "AwaitingM1"]
    /\ n_p = [e \in Enclaves |-> None]
    /\ report = [e \in Enclaves |-> None]
    /\ left = [e \in Enclaves |-> 0]
    /\ quiet = [e \in Enclaves |-> FALSE]
    /\ sealed = [e \in Enclaves |-> None]
    /\ challenged = {}
    /\ m2 = {}
    /\ signed = {}
    /\ blobs = {}
    /\ file = [e \in Enclaves |-> "missing"]
    /\ later = [e \in Enclaves |-> "none"]

-----------------------------------------------------------------------------
(* Driver steps shared by the messages. *)

Goto(e, where) == driver' = [driver EXCEPT ![e] = where]

\* recv_frame is entered: a header, then at most MAX_MESSAGE_SIZE bytes.
AwaitFrame(e, where) ==
    /\ Goto(e, where)
    /\ left' = [left EXCEPT ![e] = FrameBytes]
    /\ quiet' = [quiet EXCEPT ![e] = FALSE]

\* recv_frame returns, with a frame or with an error.
LeaveRecv(e, where) ==
    /\ Goto(e, where)
    /\ left' = [left EXCEPT ![e] = 0]
    /\ quiet' = [quiet EXCEPT ![e] = FALSE]

Receiving(e) == driver[e] \in {"recvM1", "recvM3"}

\* What the two read_exact calls still want after one more byte arrived.
\* (BugBytesLeft: a read with no bound on the frame.)
BugBytesLeft(n) == n

BytesLeft(n) == n - 1

\* One byte arrives and the socket's timer starts again.
RecvByte(e) ==
    /\ Receiving(e)
    /\ left[e] > 1
    /\ left' = [left EXCEPT ![e] = BytesLeft(@)]
    /\ quiet' = [quiet EXCEPT ![e] = FALSE]
    /\ UNCHANGED <<lab, fileVars, driver, session, n_p, report, sealed, challenged, m2, signed, blobs>>

\* READ_TIMEOUT passes without a byte.
Quiet(e) ==
    /\ Receiving(e)
    /\ ~quiet[e]
    /\ quiet' = [quiet EXCEPT ![e] = TRUE]
    /\ UNCHANGED <<lab, fileVars, driver, session, n_p, report, left, sealed, challenged, m2, signed, blobs>>

\* Every error of the driver returns through `?` and the process exits.
Exit(e) ==
    /\ LeaveRecv(e, "exited")
    /\ UNCHANGED <<lab, fileVars, session, n_p, report, sealed, challenged, m2, signed, blobs>>

\* recv_frame fails: the timer ran out.
RecvTimeout(e) == Receiving(e) /\ quiet[e] /\ Exit(e)

\* recv_frame fails before that: the peer closed, or announced too long a frame.
RecvFails(e) == Receiving(e) /\ Exit(e)

\* The message types decode_envelope lets through, and a frame it refuses.
MsgTypes == {"M1", "M2", "M3", "M4", "unknown"}

\* validate_inbound, of the steps an enclave can be at.
validate_inbound(step, type) ==
    <<step, type>> \in {<<"recvM1", "M1">>, <<"recvM3", "M3">>}

\* A frame other than the M1 the driver awaits, or an M1 that does not decode, ends
\* the process before the session has seen it.
WrongMessage(e, type, decodes) ==
    /\ driver[e] = "recvM1"
    /\ ~(validate_inbound("recvM1", type) /\ decodes)
    /\ Exit(e)

\* The measurement, the CA root, the listener or accept failed; or configfs has
\* no report; or the peer does not take M2.
StepFails(e) == driver[e] \in {"accept", "fetch", "sendM2"} /\ Exit(e)

-----------------------------------------------------------------------------
(* The enclave's side of the handshake. *)

\* run_provisioning_bootstrap up to accept: measurement, CA root, a new session
\* and a bound listener.
Start(e) ==
    /\ driver[e] = "off"
    /\ Goto(e, "accept")
    /\ UNCHANGED <<lab, fileVars, session, n_p, report, left, quiet, sealed, challenged, m2, signed, blobs>>

\* accept has no timeout of its own; the session's I/O timeouts are set after it.
Accept(e) ==
    /\ driver[e] = "accept"
    /\ AwaitFrame(e, "recvM1")
    /\ UNCHANGED <<lab, fileVars, session, n_p, report, sealed, challenged, m2, signed, blobs>>

\* M1 arrives: any challenge the provisioner has sent, to whomever, or the host's own.
\* on_m1 records it and draws N_e.
on_m1(e, np) ==
    /\ driver[e] = "recvM1"
    /\ np \in challenged \cup {HostNonce}
    /\ session[e] = "AwaitingM1"
    /\ n_p' = [n_p EXCEPT ![e] = np]
    /\ session' = [session EXCEPT ![e] = "AwaitingM3"]
    /\ LeaveRecv(e, "fetch")
    /\ UNCHANGED <<lab, fileVars, report, sealed, challenged, m2, signed, blobs>>

\* The hardware's report over this session's nonces, or the lab's mock.
fetch_report(e) ==
    /\ driver[e] = "fetch"
    /\ report' = [report EXCEPT ![e] =
                     IF lab THEN MockReport ELSE compute_report_data(n_p[e], e)]
    /\ Goto(e, "sendM2")
    /\ UNCHANGED <<lab, fileVars, session, n_p, left, quiet, sealed, challenged, m2, signed, blobs>>

SendM2(e) ==
    /\ driver[e] = "sendM2"
    /\ m2' = m2 \cup {[n_e |-> e, report |-> report[e]]}
    /\ AwaitFrame(e, "recvM3")
    /\ UNCHANGED <<lab, fileVars, session, n_p, report, sealed, challenged, signed, blobs>>

\* Step 3 of the verify order: keys 2, 3 and 4 against the live session.
BugTranscriptMatches(e, body) == body.n_p = n_p[e] /\ body.report = report[e]

TranscriptMatches(e, body) ==
    /\ body.n_p = n_p[e]
    /\ body.n_e = e
    /\ body.report = report[e]

\* Step 4: Sig_PROV verifies under that key over exactly these bytes.
SigVerifies(key, body, sig) == sig.key = key /\ sig.over = body

\* A verifier that takes any parsed certificate's key.
BugVerifyM3(e, cert, body, sig) ==
    /\ cert # "malformed"
    /\ TranscriptMatches(e, body)
    /\ SigVerifies(CertKey(cert), body, sig)
    /\ decode_config_map(body.config)

\* The verify order: certificate, transcript, Sig_PROV under the certificate's key,
\* and then the config decodes.
verify_m3_in_order(e, cert, body, sig) ==
    /\ verify_provisioner_cert(cert) # None
    /\ TranscriptMatches(e, body)
    /\ SigVerifies(verify_provisioner_cert(cert), body, sig)
    /\ decode_config_map(body.config)

\* on_m3 on an M3 that verifies: mint the scope id, seal, and the session is Done.
on_m3(e) ==
    /\ driver[e] = "recvM3"
    /\ session[e] = "AwaitingM3"
    /\ \E cert \in Certs, body \in Transcripts : \E sig \in Signatures(body) :
          /\ verify_m3_in_order(e, cert, body, sig)
          /\ sealed' = [sealed EXCEPT ![e] = seal_provisioned_keystore(e, body.config)]
    /\ session' = [session EXCEPT ![e] = "Done"]
    /\ LeaveRecv(e, "sendM4")
    /\ UNCHANGED <<lab, fileVars, n_p, report, challenged, m2, signed, blobs>>

\* on_m3 fails, on the frame or while minting and sealing: the session is consumed
\* and the driver returns the error.
on_m3_fails(e) ==
    /\ driver[e] = "recvM3"
    /\ session[e] = "AwaitingM3"
    /\ session' = [session EXCEPT ![e] = "Failed"]
    /\ LeaveRecv(e, "exited")
    /\ UNCHANGED <<lab, fileVars, n_p, report, sealed, challenged, m2, signed, blobs>>

\* M4 is written and flushed, then the blob is unsealed for installation.
SendM4(e) ==
    /\ driver[e] = "sendM4"
    /\ blobs' = blobs \cup {sealed[e]}
    /\ Goto(e, "unseal")
    /\ UNCHANGED <<lab, fileVars, session, n_p, report, left, quiet, sealed, challenged, m2, signed>>

\* The write fails; the peer may still have read the whole frame.
BugSendM4Fails(e) ==
    /\ driver[e] = "sendM4"
    /\ blobs' \in {blobs, blobs \cup {sealed[e]}}
    /\ Goto(e, "unseal")
    /\ UNCHANGED <<lab, fileVars, session, n_p, report, left, quiet, sealed, challenged, m2, signed>>

SendM4Fails(e) ==
    /\ driver[e] = "sendM4"
    /\ blobs' \in {blobs, blobs \cup {sealed[e]}}
    /\ Goto(e, "exited")
    /\ UNCHANGED <<lab, fileVars, session, n_p, report, left, quiet, sealed, challenged, m2, signed>>

\* The lab build writes the blob to its file and ignores every error; the file is
\* truncated before it is filled.
Persisted == IF lab THEN {"missing", "torn", "whole"} ELSE {"missing"}

Unseal(e) ==
    /\ driver[e] = "unseal"
    /\ \E f \in Persisted : file' = [file EXCEPT ![e] = f]
    /\ Goto(e, "provisioned")
    /\ UNCHANGED <<lab, session, n_p, report, left, quiet, sealed, challenged, m2, signed,
                   blobs, later>>

\* The fresh blob does not unseal, or the process dies while it writes the file.
UnsealFails(e) ==
    /\ driver[e] = "unseal"
    /\ \E f \in Persisted : file' = [file EXCEPT ![e] = f]
    /\ Goto(e, "exited")
    /\ UNCHANGED <<lab, session, n_p, report, left, quiet, sealed, challenged, m2, signed,
                   blobs, later>>

\* The boot's provisioning root and measurement: those of the first boot, others, or
\* none (a root file of another length, an empty measurement).
BootInputs == {"own", "other", "bad"}

derive_agent_provisioning_root(root) == root # "bad"

agent_boot_measurement(measurement) == measurement # "bad"

\* unseal_agent_keystore_at_boot, on the file: a whole blob of this root and measurement.
UnsealsFile(e, root, measurement) ==
    /\ derive_agent_provisioning_root(root) /\ agent_boot_measurement(measurement)
    /\ file[e] = "whole" /\ root = "own" /\ measurement = "own"

\* A later boot of the lab build finds the file; a boot that finds none provisions
\* again and is a first boot.
LaterBoot(e, root, measurement) ==
    /\ lab /\ driver[e] \in {"provisioned", "exited"} /\ file[e] # "missing"
    /\ later' = [later EXCEPT ![e] =
                    IF UnsealsFile(e, root, measurement) THEN "serves" ELSE "refuses"]
    /\ UNCHANGED <<lab, driver, session, n_p, report, left, quiet, sealed, challenged, m2, signed,
                   blobs, file>>

-----------------------------------------------------------------------------
(* The provisioner (external): one challenge and one signature per ceremony. *)

Challenge(np) ==
    /\ np \notin challenged
    /\ challenged' = challenged \cup {np}
    /\ UNCHANGED <<lab, enclaveVars, signed>>

\* It checks that the report it was shown commits to its challenge and to the N_e
\* it was shown; the lab's provisioner takes the mock report and any N_e.
Sign(np, m, config) ==
    /\ np \in challenged
    /\ \A t \in signed : t.n_p # np
    /\ \/ m \in m2 /\ m.report = compute_report_data(np, m.n_e)
       \/ lab /\ m.report = MockReport
    /\ signed' = signed \cup {[config |-> config, n_p |-> np,
                               n_e |-> m.n_e, report |-> m.report]}
    /\ UNCHANGED <<lab, enclaveVars, challenged>>

-----------------------------------------------------------------------------
Local(e) ==
    Start(e) \/ Quiet(e) \/ RecvTimeout(e) \/ fetch_report(e)
        \/ SendM2(e) \/ SendM4(e) \/ Unseal(e)

\* What the peer or the platform decides.
Host(e) ==
    \/ Accept(e) \/ RecvByte(e) \/ RecvFails(e) \/ StepFails(e)
    \/ \E type \in MsgTypes, decodes \in BOOLEAN : WrongMessage(e, type, decodes)
    \/ \E np \in Nonces : on_m1(e, np)
    \/ on_m3(e) \/ on_m3_fails(e) \/ SendM4Fails(e) \/ UnsealFails(e)
    \/ \E root, measurement \in BootInputs : LaterBoot(e, root, measurement)

Provisioner ==
    \/ \E np \in Challenges : Challenge(np)
    \/ \E np \in Challenges, m \in [n_e : Enclaves, report : Reports], config \in ConfigBytes :
          Sign(np, m, config)

Next == Provisioner \/ \E e \in Enclaves : Local(e) \/ Host(e)

Spec == Init /\ [][Next]_vars

\* The driver's own steps are taken: a write returns within WRITE_TIMEOUT and the
\* report fetch returns.  Nothing is assumed of the peer or the provisioner.
FairSpec == Spec /\ \A e \in Enclaves : WF_vars(Local(e))

-----------------------------------------------------------------------------
(* Properties. *)

\* The transcript that would have an enclave seal a config.
TranscriptOf(e, config) ==
    [config |-> config, n_p |-> n_p[e], n_e |-> e, report |-> report[e]]

\* Agreement: a keystore is sealed only with the config the provisioner signed for
\* exactly this enclave's session, its challenge, its N_e and its report; no mix of
\* replayed challenges, reports, certificates and signatures gets another sealed
\* (verify_m3_in_order).
Agreement ==
    \A e \in Enclaves :
        sealed[e] # None => TranscriptOf(e, sealed[e].config) \in signed

\* The provisioner signs once per challenge, and a sealed enclave has read its last
\* frame, so that its nonces and its report no longer change.
SignedOnce == \A t, u \in signed : t.n_p = u.n_p => t = u

SealedIsLate ==
    \A e \in Enclaves :
        sealed[e] # None => driver[e] \in {"sendM4", "unseal", "provisioned", "exited"}

\* What each driver step reads has been recorded by an earlier one.
Recorded ==
    \A e \in Enclaves :
        /\ driver[e] = "fetch" => n_p[e] \in Nonces
        /\ driver[e] = "sendM2" => report[e] \in Reports
        /\ driver[e] = "sendM4" => sealed[e] \in Blobs

IndInv == TypeOK /\ Recorded /\ SignedOnce /\ SealedIsLate /\ Agreement

\* One ceremony installs one keystore: two enclaves never seal under the same
\* challenge of the provisioner, even when the host replays its M1 and M3 to both
\* and even with the lab's report, which commits to nothing.
OneKeystorePerCeremony ==
    \A e, f \in Enclaves :
        sealed[e] # None /\ sealed[f] # None /\ n_p[e] = n_p[f] => e = f

\* An enclave goes on to serve a provisioned keystore only when its sealed blob was
\* handed out in M4: keys are never minted into a keystore nobody could boot again
\* (drive_provisioning_handshake sends M4 before it returns the blob).  Nor does a later
\* boot from the lab's file serve a keystore the host was not handed, whatever became of
\* the boot that wrote it (agent_sealed_keystore_blob_from_provisioning).
ServedIsHandedOut ==
    \A e \in Enclaves :
        driver[e] = "provisioned" \/ later[e] = "serves" => sealed[e] \in blobs

\* Once a peer is connected the one-shot boot ends, provisioned or exited, even for
\* a peer that sends a byte just before every timeout: the frame is bounded
\* (recv_frame, configure_vsock_session_timeouts).
ConnectedEnds ==
    \A e \in Enclaves :
        driver[e] = "recvM1" ~> driver[e] \in {"provisioned", "exited"}
=============================================================================
