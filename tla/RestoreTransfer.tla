-------------------------- MODULE RestoreTransfer --------------------------
(***************************************************************************)
(* Disaster recovery between enclaves (agent_backup.rs, the backup and     *)
(* restore handlers of agent_dispatch.rs, snp_report.rs).  A source        *)
(* enclave exports a backup sealed to the recovery key; the destination    *)
(* publishes an attested, single-use key; the operator checks the          *)
(* attestation, opens the backup offline and wraps it again for that key;  *)
(* the recovery authority signs a capability and the current high-water    *)
(* marks for the ceremony's request_id.  The host carries all of it and    *)
(* may lose it, repeat it, put pieces of several ceremonies together, or   *)
(* seal content of its own to the published key.                           *)
(*                                                                         *)
(* Keystore models one enclave in detail; here the body is what moves      *)
(* between enclaves: keys, counter rows, spend, environment, authorities.  *)
(* Encryption, hashes and signatures are ideal: a digest is the backup     *)
(* itself, an envelope opens under the key it names, nobody has the        *)
(* deployment's secrets but its enclaves and the operator.  Operator,      *)
(* authority and host are outside the repository.                          *)
(***************************************************************************)
EXTENDS Naturals, FiniteSets

CONSTANTS
    Enclaves,
    Keys,           \* key_refs
    Treasury,       \* the key_ref of the treasury key
    KeysOf,         \* keys each enclave generated
    EnvOf,          \* environment each enclave was provisioned for
    Foreign,        \* backups of other deployments the operator also keeps
    Rids,           \* request_ids of restore ceremonies
    RestoreScopes,  \* scope classes the authority issues restore capabilities in
    Budget,         \* what the treasury key may dispense
    MaxCounter,     \* bound: fleet capabilities
    MaxDrawn,       \* bound: restore keys drawn
    MaxBackups      \* bound: backups the operator keeps

Classes == {0, 1}                     \* enclave scope, fleet scope
Rows == {"admin", "recovery"} \X Classes
Marks == [rows : [Rows -> Nat], spend : Nat, strict : Nat]
Authorities == {"ours", "host"}       \* whose administrator and recovery keys

\* `genuine`: the entries hold the deployment's secrets for these key_refs.
Backup == [of : Enclaves \cup {"elsewhere"}, env : {"main", "test"},
           wrap : {"ours", "theirs"}, entries : SUBSET Keys, genuine : BOOLEAN,
           auth : Authorities, marks : Marks]

ASSUME ConstantsAssumption ==
    /\ Treasury \in Keys
    /\ KeysOf \in [Enclaves -> SUBSET Keys]
    /\ EnvOf \in [Enclaves -> {"main", "test"}]
    /\ Foreign \subseteq Backup
    /\ RestoreScopes \subseteq Classes
    /\ Budget \in Nat /\ MaxCounter \in Nat /\ MaxDrawn \in Nat /\ MaxBackups \in Nat

VARIABLES
    body,       \* per enclave: entries and whether genuine, marks, env, auth
    key,        \* per enclave: its published restore key, 0 when there is none
    drawn,      \* restore keys drawn so far, all enclaves
    pubs,       \* answers of GET_RESTORE_PUBKEY the operator has seen
    backups,    \* backups the operator keeps
    ceremonies, \* what the operator and the recovery authority prepared
    retired,    \* enclaves the operator decommissioned
    \* history
    paid,       \* what the treasury key signed for, on any enclave
    barred,     \* per enclave: fleet capabilities its restores vouch were used
    accepted,   \* fleet capabilities of ours accepted, with the enclave
    restored    \* committed restores

vars == <<body, key, drawn, pubs, backups, ceremonies, retired,
          paid, barred, accepted, restored>>

-----------------------------------------------------------------------------

\* derive_recovery_key_id of the sealed wrapping key: one per deployment.
OwnWrap == "ours"

Zero == [rows |-> [r \in Rows |-> 0], spend |-> 0, strict |-> 0]

MaxOf(x, y) == IF x >= y THEN x ELSE y

Join(m, n) ==
    [rows |-> [r \in Rows |-> MaxOf(m.rows[r], n.rows[r])],
     spend |-> MaxOf(m.spend, n.spend), strict |-> MaxOf(m.strict, n.strict)]

Init ==
    /\ body = [e \in Enclaves |->
                  [entries |-> KeysOf[e], genuine |-> TRUE, marks |-> Zero,
                   env |-> EnvOf[e], auth |-> "ours"]]
    /\ key = [e \in Enclaves |-> 0]
    /\ drawn = 0
    /\ pubs = {}
    /\ backups = Foreign
    /\ ceremonies = {}
    /\ retired = {}
    /\ paid = 0
    /\ barred = [e \in Enclaves |-> {}]
    /\ accepted = {}
    /\ restored = {}

Live(e) == e \notin retired

\* The slot of the restore key, as published_restore_ephemeral and
\* snapshot_restore_ephemeral read it.
Published(e) == key[e] # 0

-----------------------------------------------------------------------------
(* The enclave between ceremonies *)

\* verify_capability_extract: the tier of the operation, the scope identity of
\* this enclave or of the fleet (class 1 suits every enclave), the next counter.
VerifyCapability(e, row, counter) ==
    counter = body[e].marks.rows[row] + 1

\* An administrator's fleet-scoped operation (a transfer pool): the row counts it.
FleetOperation(e) ==
    LET row == <<"admin", 1>>
        counter == body[e].marks.rows[row] + 1
    IN  /\ Live(e)
        /\ counter <= MaxCounter
        /\ VerifyCapability(e, row, counter)
        /\ body' = [body EXCEPT ![e].marks.rows[row] = counter]
        /\ accepted' = IF body[e].auth = "ours" THEN accepted \cup {<<e, counter>>}
                                               ELSE accepted
        /\ UNCHANGED <<key, drawn, pubs, backups, ceremonies, retired, paid,
                       barred, restored>>

HoldsTreasury(e) == Treasury \in body[e].entries /\ body[e].genuine

\* handle_sign_faucet_dispense: the sealed budget bounds the sealed spend.
Dispense(e) ==
    /\ Live(e)
    /\ Treasury \in body[e].entries
    /\ body[e].marks.spend < Budget
    /\ body' = [body EXCEPT ![e].marks.spend = @ + 1]
    /\ paid' = IF HoldsTreasury(e) THEN paid + 1 ELSE paid
    /\ UNCHANGED <<key, drawn, pubs, backups, ceremonies, retired, barred,
                   accepted, restored>>

\* build_restore_ingress_payload, sealed to the deployment's recovery key.
SealedBackup(e, refs, marks) ==
    [of |-> e, env |-> body[e].env, wrap |-> OwnWrap, entries |-> refs,
     genuine |-> body[e].genuine, auth |-> body[e].auth, marks |-> marks]

\* handle_export_backup: the payload is built from the candidate, after its own
\* capability counted.
ExportBackup(e, refs) ==
    LET row == <<"admin", 0>>
        counter == body[e].marks.rows[row] + 1
        marks == [body[e].marks EXCEPT !.rows[row] = counter]
    IN  /\ Live(e)
        /\ Cardinality(backups \ Foreign) < MaxBackups
        /\ VerifyCapability(e, row, counter)
        /\ refs # {} /\ refs \subseteq body[e].entries
        /\ body' = [body EXCEPT ![e].marks = marks]
        /\ backups' = backups \cup {SealedBackup(e, refs, marks)}
        /\ UNCHANGED <<key, drawn, pubs, ceremonies, retired, paid, barred,
                       accepted, restored>>

\* What verify_restore_ephemeral_attestation lets the operator believe: the report
\* binds key, measurement, chain and environment, not the authorities.
PublishedKey(e, k) == [of |-> e, key |-> k, env |-> body[e].env]

\* handle_get_restore_pubkey: publish once, then repeat.
GetRestorePubkey(e) ==
    /\ Live(e)
    /\ ~ Published(e)
    /\ drawn < MaxDrawn
    /\ drawn' = drawn + 1
    /\ key' = [key EXCEPT ![e] = drawn + 1]
    /\ pubs' = pubs \cup {PublishedKey(e, drawn + 1)}
    /\ UNCHANGED <<body, backups, ceremonies, retired, paid, barred, accepted,
                   restored>>

\* The restore key is in memory only.
Restart(e) ==
    /\ Published(e)
    /\ key' = [key EXCEPT ![e] = 0]
    /\ UNCHANGED <<body, drawn, pubs, backups, ceremonies, retired, paid, barred,
                   accepted, restored>>

-----------------------------------------------------------------------------
(* The operator and the recovery authority (external) *)

\* Strict failover: the source serves no more before its marks are attested.
Decommission(e) ==
    /\ Live(e)
    /\ retired' = retired \cup {e}
    /\ UNCHANGED <<body, key, drawn, pubs, backups, ceremonies, paid, barred,
                   accepted, restored>>

\* What the authority knows of the source now, never below the destination now.
CurrentMarks(b, p) ==
    IF b.of \in Enclaves THEN Join(body[b.of].marks, body[p.of].marks)
                         ELSE Join(b.marks, body[p.of].marks)

\* Ceremonies that bring the treasury key to enclave f.
TreasuryCeremonies(f) ==
    {c \in ceremonies : /\ Treasury \in c.envelope.manifest
                        /\ \E p \in pubs : p.of = f /\ p.key = c.envelope.key}

MayHold(f) == HoldsTreasury(f) \/ TreasuryCeremonies(f) # {}

\* The single-instance rule: whoever else has the treasury key, or a ceremony that
\* would bring it, is stopped, and no enclave has spent more than is attested.  The
\* destination is fresh, or at least has our authorities still.
SingleInstance(b, p) ==
    /\ body[p.of].auth = "ours"
    /\ \A f \in Enclaves :
           /\ f # p.of /\ MayHold(f) => f \in retired
           /\ body[f].marks.spend <= CurrentMarks(b, p).spend

\* The envelope wrapped again for the attested key, the capability, the signed
\* high-water; and, for the record, the fleet capabilities it vouches were used.
Ceremony(rid, b, p, class) ==
    [rid |-> rid, by |-> "ours",
     envelope |-> [key |-> p.key, env |-> p.env, digest |-> b,
                   manifest |-> b.entries, payload |-> b],
     cap |-> [row |-> <<"recovery", class>>,
              identity |-> IF class = 0 THEN p.of ELSE "fleet",
              counter |-> body[p.of].marks.rows[<<"recovery", class>>] + 1,
              refs |-> b.entries, digest |-> b],
     high |-> [env |-> p.env, marks |-> CurrentMarks(b, p)],
     used |-> {n \in 1 .. MaxCounter :
                  n <= CurrentMarks(b, p).rows[<<"admin", 1>>]}]

\* verify_restore_ephemeral_attestation, the re-wrap to the attested key, the
\* capability and the signed high-water.  A mistaken operator may take a backup
\* of another environment or deployment, a key that is gone since, or repeat a
\* ceremony under a fresh request_id.
Prepare(rid, b, p, class) ==
    /\ \A c \in ceremonies : c.rid # rid
    /\ b.of \in Enclaves /\ b.of # p.of => b.of \in retired
    /\ Treasury \in b.entries => SingleInstance(b, p)
    /\ ceremonies' = ceremonies \cup {Ceremony(rid, b, p, class)}
    /\ UNCHANGED <<body, key, drawn, pubs, backups, retired, paid, barred,
                   accepted, restored>>

-----------------------------------------------------------------------------
(* The host (external).  The destination key is public and the payload is not
   compared with the backup: anything can be sealed under any header.  What the
   host cannot do is sign for the authority, or know the deployment's secrets. *)

\* An envelope for e's published key over keys of the host's making, under our
\* authorities or its own.  A digest nobody authorised, no keys, another
\* environment, or marks above the attested would be refused.
HostEnvelopes(e) ==
    {[key |-> key[e], env |-> body[e].env, digest |-> d, manifest |-> refs,
      payload |-> [of |-> "elsewhere", env |-> body[e].env, wrap |-> OwnWrap,
                   entries |-> refs, genuine |-> FALSE, auth |-> a, marks |-> Zero]] :
        d \in {c.cap.digest : c \in {x \in ceremonies : Published(e)}},
        refs \in SUBSET Keys \ {{}}, a \in Authorities}

\* Once its own payload has put its authorities in place, it signs there: the next
\* counter, and the least marks that are not refused.
HostSigned(e, envelope) ==
    {[rid |-> "host", by |-> "host", envelope |-> envelope,
      cap |-> [row |-> <<"recovery", 0>>, identity |-> e,
               counter |-> body[e].marks.rows[<<"recovery", 0>>] + 1,
               refs |-> envelope.payload.entries, digest |-> envelope.digest],
      high |-> [env |-> body[e].env,
                marks |-> Join(envelope.payload.marks, body[e].marks)],
      used |-> {}] : a \in {body[e].auth} \cap {"host"}}

-----------------------------------------------------------------------------
(* RESTORE_BACKUP at the destination.  The host fills a request from its own
   pieces and those of the ceremonies: the envelope of one, the capability (and
   with it request_id) of another, the signed high-water of a third, some backup
   and some refs. *)

Envelopes(e) == {c.envelope : c \in ceremonies} \cup HostEnvelopes(e)

Signatures(e, envelope) == ceremonies \cup HostSigned(e, envelope)

\* decode_restore_request: a request that names no key is malformed.
DecodeRestoreRequest(refs) == refs # {}

\* open_restore_ingress_envelope: it decapsulates under the published key or not.
Opens(e, envelope) == Published(e) /\ envelope.key = key[e]

\* verify_restore_ingress.
VerifyRestoreIngress(e, envelope, original, refs) ==
    /\ envelope.env = body[e].env
    /\ envelope.payload.env = body[e].env
    /\ envelope.digest = original
    /\ envelope.manifest = envelope.payload.entries
    /\ refs = envelope.payload.entries

\* verify_capability and verify_recovery_high_water check signatures against the
\* authorities that are sealed now, not those of the payload.
SignedFor(e, piece) == piece.by = body[e].auth

\* Mutant: the binding covers the refs and not the backup.
BugCapabilityFits(e, cap, envelope, refs) ==
    /\ cap.identity = (IF cap.row[2] = 0 THEN e ELSE "fleet")
    /\ VerifyCapability(e, cap.row, cap.counter)
    /\ cap.refs = refs

\* The recovery tier's capability: scope identity, counter, and the payload
\* binding over restore_canonical_params.
CapabilityFits(e, cap, envelope, refs) ==
    /\ cap.identity = (IF cap.row[2] = 0 THEN e ELSE "fleet")
    /\ VerifyCapability(e, cap.row, cap.counter)
    /\ cap.refs = refs
    /\ cap.digest = envelope.digest

\* Mutant: any ceremony's high-water will do.
BugVerifyRecoveryHighWater(e, attested, rid) == attested.high.env = body[e].env

\* verify_recovery_high_water: signed for this environment and this request_id.
VerifyRecoveryHighWater(e, attested, rid) ==
    /\ attested.high.env = body[e].env
    /\ attested.rid = rid

\* high_water_dominates: a missing row counts as lower.
HighWaterDominates(high, marks) ==
    /\ \A r \in Rows : high.rows[r] >= marks.rows[r]
    /\ high.spend >= marks.spend

\* verify_ac6_high_water.
Ac6(e, backup, high) ==
    /\ HighWaterDominates(high, backup.marks)
    /\ HighWaterDominates(high, body[e].marks)

\* Mutant: the backup's own marks are kept.
BugRestoredBody(e, backup, high, cap) ==
    [entries |-> backup.entries,
     genuine |-> backup.genuine,
     env |-> backup.env,
     auth |-> backup.auth,
     marks |-> [backup.marks EXCEPT
                  !.strict = MaxOf(body[e].marks.strict, @) + 1,
                  !.rows[cap.row] = MaxOf(@, cap.counter)]]

\* apply_restore_to_body, adopt_ac6_high_water, then the capability's own row.
RestoredBody(e, backup, high, cap) ==
    [entries |-> backup.entries,
     genuine |-> backup.genuine,
     env |-> backup.env,
     auth |-> backup.auth,
     marks |-> [high EXCEPT
                  !.strict = MaxOf(MaxOf(body[e].marks.strict, backup.marks.strict) + 1, @),
                  !.rows[cap.row] = MaxOf(@, cap.counter)]]

\* handle_restore_backup, every check in its order; a refusal changes nothing
\* and leaves the restore key for another request.
RestoreAccepted(e, envelope, original, refs, signed, attested) ==
    /\ Live(e)
    /\ DecodeRestoreRequest(refs)
    /\ Opens(e, envelope)
    /\ VerifyRestoreIngress(e, envelope, original, refs)
    /\ original.wrap = OwnWrap
    /\ SignedFor(e, signed) /\ SignedFor(e, attested)
    /\ CapabilityFits(e, signed.cap, envelope, refs)
    /\ VerifyRecoveryHighWater(e, attested, signed.rid)
    /\ Ac6(e, envelope.payload, attested.high.marks)

\* Mutant: a restore leaves the key in its slot.
BugRetireKey(e) == key

\* retire_restore_ephemeral: once a restore passed its checks, committed or not.
RetireKey(e) == [key EXCEPT ![e] = 0]

\* restore_seal_attest_commit_emit to its end.
RestoreCommits(e, envelope, signed, attested) ==
    /\ body' = [body EXCEPT ![e] =
                   RestoredBody(e, envelope.payload, attested.high.marks, signed.cap)]
    /\ key' = RetireKey(e)
    /\ barred' = [barred EXCEPT ![e] = @ \cup attested.used]
    /\ restored' = restored \cup
          {[at |-> e, key |-> key[e], rid |-> signed.rid, by |-> signed.by,
            payload |-> envelope.payload, cap |-> signed.cap]}
    /\ UNCHANGED <<drawn, pubs, backups, ceremonies, retired, paid, accepted>>

\* The seal, the completion attestation or the commit fails.
RestoreFails(e) ==
    /\ key' = RetireKey(e)
    /\ UNCHANGED <<body, drawn, pubs, backups, ceremonies, retired, paid, barred,
                   accepted, restored>>

RestoreBackup(e, envelope, original, refs, signed, attested) ==
    /\ RestoreAccepted(e, envelope, original, refs, signed, attested)
    /\ RestoreCommits(e, envelope, signed, attested) \/ RestoreFails(e)

Next ==
    \/ \E e \in Enclaves :
          \/ FleetOperation(e)
          \/ Dispense(e)
          \/ \E refs \in SUBSET Keys : ExportBackup(e, refs)
          \/ GetRestorePubkey(e)
          \/ Restart(e)
          \/ Decommission(e)
          \/ \E envelope \in Envelopes(e), original \in backups :
                \E signed, attested \in Signatures(e, envelope) :
                   RestoreBackup(e, envelope, original, signed.cap.refs, signed, attested)
    \/ \E rid \in Rids, b \in backups, p \in pubs, class \in RestoreScopes :
           Prepare(rid, b, p, class)

Spec == Init /\ [][Next]_vars

-----------------------------------------------------------------------------
(* Properties *)

\* Whatever pieces the host puts together, and whatever it seals itself, a restore
\* under our recovery authority installs the key_refs its capability names, and
\* the deployment's secrets only as the very backup the capability names (digest,
\* manifest and binding of handle_restore_backup together).  No restore moves an
\* enclave to another environment, although it replaces the environment with the
\* payload's (apply_restore_to_body).
RestoredAsAuthorised ==
    /\ \A r \in restored :
           r.by = "ours" =>
               /\ r.payload.entries = r.cap.refs
               /\ r.payload.genuine => r.payload = r.cap.digest
    /\ \A e \in Enclaves : body[e].env = EnvOf[e]

\* A published key carries one restore, on one enclave: a repeated request, a
\* retry after a failed commit or a restart in between cannot replay it.
OneRestorePerKey == \A r, q \in restored : r.key = q.key => r = q

\* With strict failover the treasury key signs for no more than its budget, over
\* all enclaves it ever lived on, however old the backup it came from.
FailoverWithinBudget == paid <= Budget

\* A fleet capability the recovery authority knew to be used when it signed the
\* high-water is never accepted again by the enclave restored under it.
NoReplayAfterRestore ==
    [][\A a \in accepted' \ accepted : a[2] \notin barred[a[1]]]_vars
=============================================================================
