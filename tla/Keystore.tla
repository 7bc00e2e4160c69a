------------------------------ MODULE Keystore ------------------------------
(***************************************************************************)
(* The Agent Gateway keystore and the operations that change it            *)
(* (agent_keystore.rs, the handlers of agent_dispatch.rs, agent_keygen.rs, *)
(* agent_backup.rs).  One request runs at a time, under the keystore lock: *)
(* a handler checks the request against the installed body and builds a    *)
(* candidate; the candidate is sealed and committed; then it replaces the  *)
(* installed body, or it is discarded.  How the commit meets the anchor is *)
(* AntiRollback's subject; here it succeeds or fails.                      *)
(*                                                                         *)
(* Signatures are ideal: a capability is what its authority signed, and    *)
(* the payload binding is part of it, so a capability names its operation  *)
(* and parameters.  Requests that parse badly change nothing and are left  *)
(* out, as are the operations that only read (identity, transfer).         *)
(***************************************************************************)
EXTENDS Integers, Sequences, FiniteSets, SequencesExt

CONSTANTS
    Refs,               \* key_refs the CSPRNG may draw
    Limits,             \* what set_limits requests carry
    Values,             \* what the other treasury requests carry
    Dispenses,          \* what dispense requests carry
    Ops,                \* the operations the clients submit
    MaxU256,            \* largest 32-byte magnitude
    AuditCapacity,      \* records the audit ring holds
    MaxKeys,            \* MAX_TOTAL_KEY_ENTRIES
    MaxBatch,           \* MAX_BATCH_SIZE
    MaxRows,            \* MAX_COUNTER_ENTRIES
    KeySize,            \* what a key, a counter row and an audit record add to
    RowSize,            \* the sealed body
    RecordSize,
    MaxBlob,            \* what MAX_KEYSTORE_BLOB_SIZE leaves for them
    MaxEpoch,           \* bound: operations stop at this epoch
    MaxPublished,       \* bound: restore keys drawn
    MaxBackups          \* bound: backups handed out

AllOps == {"generate", "set_limits", "refill_budget", "raise_breaker",
           "reset_breaker", "dispense", "export", "restore"}

ASSUME ConstantsAssumption ==
    /\ IsFiniteSet(Refs)
    /\ MaxU256 \in Nat
    /\ Limits \subseteq [perMax : 0 .. MaxU256, maxGas : Nat, maxRate : Nat]
    /\ Values \subseteq 0 .. MaxU256
    /\ Dispenses \subseteq [amount : 0 .. MaxU256, gas : Nat, rate : 0 .. MaxU256]
    /\ Ops \subseteq AllOps
    /\ AuditCapacity \in Nat
    /\ MaxKeys \in Nat /\ MaxBatch \in Nat /\ MaxRows \in Nat
    /\ KeySize \in Nat /\ RowSize \in Nat /\ RecordSize \in Nat /\ MaxBlob \in Nat
    /\ MaxEpoch \in Nat /\ MaxPublished \in Nat /\ MaxBackups \in Nat

VARIABLES
    body,       \* the installed KeystoreBody
    cand,       \* the sealed candidate being committed, with its operation
    backups,    \* every backup an export handed out
    ephemeral,  \* id of the published restore key, 0 when there is none
    \* history
    published,  \* restore keys published so far
    accepted,   \* capabilities that committed, with their operation and epoch
    restores    \* restore keys consumed by committed restores

vars == <<body, cand, backups, ephemeral, published, accepted, restores>>

-----------------------------------------------------------------------------
(* Data *)

Purposes == {"transfer", "treasury"}

\* A counter row is kept per authority and scope; class 0 is this enclave.
Rows == [authority : {"admin", "recovery"}, scope : {0, 1}]

NoBreaker == -1

Genesis ==
    [entries |-> {},
     counters |-> [r \in Rows |-> 0],
     faucet |-> [perMax |-> 0, maxGas |-> 0, maxRate |-> 0, budget |-> 0,
                 cumulative |-> 0, lifetime |-> 0, breaker |-> NoBreaker],
     audit |-> [records |-> << >>, last_exported |-> 0, next_seq |-> 1],
     version |-> 1,
     strict |-> 0,
     epoch |-> 1,
     structural |-> 1]

\* encode_marks_payload: what the anchor's digest covers.
MarksOf(b) ==
    [counters |-> b.counters, cumulative |-> b.faucet.cumulative,
     lifetime |-> b.faucet.lifetime, strict |-> b.strict]

\* Everything the anchor cannot reconstruct.
NonMarksOf(b) ==
    [entries |-> b.entries,
     faucet |-> [b.faucet EXCEPT !.cumulative = 0, !.lifetime = 0],
     audit |-> b.audit, version |-> b.version]

\* A capability's row and the counter it was signed with.
Capabilities == [row : Rows, counter : 1 .. MaxEpoch + 1]

\* What is sealed: key entries, the faucet's limits and spend, the audit ring.
Entries == [ref : Refs, purpose : Purposes, batch : Nat]

Faucets == [perMax : Nat, maxGas : Nat, maxRate : Nat, budget : Nat,
            cumulative : Nat, lifetime : Nat, breaker : Nat \cup {NoBreaker}]

Records == [seq : Nat, cap : Capabilities]

Audits == [records : Seq(Records), last_exported : Nat, next_seq : Nat]

Bodies == [entries : SUBSET Entries, counters : [Rows -> Nat], faucet : Faucets,
           audit : Audits, version : Nat, strict : Nat, epoch : Nat, structural : Nat]

Idle == [op |-> "none"]

-----------------------------------------------------------------------------
(* KeystoreBody's own operations *)

\* advance_commit_epoch.
AdvanceCommitEpoch(b, bumpsStructural) ==
    [b EXCEPT !.epoch = @ + 1,
              !.structural = IF bumpsStructural THEN @ + 1 ELSE @]

\* Mutant: a refill taken for a change of marks alone.
BugRefillIsEpochOnly(op) == op \notin {"dispense", "refill_budget"}

\* CommitBumpClass: a dispense is the only EpochOnly operation.
BumpsStructural(op) == op # "dispense"

RowsUsed(b) == Cardinality({r \in Rows : b.counters[r] > 0})

\* advance_counter: room for the row if it is new, and no regression.
CounterAdvances(b, cap) ==
    IF b.counters[cap.row] > 0 THEN cap.counter > b.counters[cap.row]
                               ELSE RowsUsed(b) < MaxRows

AdvanceCounter(b, cap) == [b EXCEPT !.counters[cap.row] = cap.counter]

\* Mutant: one record too late.
BugAuditBackpressure(a) ==
    \/ AuditCapacity = 0
    \/ /\ Len(a.records) >= AuditCapacity
       /\ (a.next_seq - 1) - a.last_exported > AuditCapacity

\* record_audit: full of records nobody exported.
AuditBackpressure(a) ==
    \/ AuditCapacity = 0
    \/ /\ Len(a.records) >= AuditCapacity
       /\ (a.next_seq - 1) - a.last_exported >= AuditCapacity

\* record_audit: append, over the oldest record when the ring is full.
RecordAudit(b, cap) ==
    LET kept == IF Len(b.audit.records) < AuditCapacity THEN b.audit.records
                                                        ELSE Tail(b.audit.records)
    IN  [b EXCEPT !.audit.records = Append(kept, [seq |-> b.audit.next_seq, cap |-> cap]),
                  !.audit.next_seq = @ + 1]

\* advance_export_high_water.
AdvanceExportHighWater(b) ==
    [b EXCEPT !.audit.last_exported =
                  IF b.audit.next_seq - 1 > @ THEN b.audit.next_seq - 1 ELSE @]

\* advance_treasury_config_version.
AdvanceConfigVersion(b) == [b EXCEPT !.version = @ + 1]

\* validate: what unseal_body insists on, and seal_body before it encodes.
Validate(b) ==
    /\ b.structural # 0
    /\ Cardinality(b.entries) <= MaxKeys
    /\ RowsUsed(b) <= MaxRows
    /\ \A e, f \in b.entries : e.ref = f.ref => e = f
    /\ Len(b.audit.records) <= AuditCapacity
    /\ \A i, j \in DOMAIN b.audit.records :
           i < j => b.audit.records[i].seq < b.audit.records[j].seq
    /\ \A i \in DOMAIN b.audit.records : b.audit.records[i].seq < b.audit.next_seq
    /\ b.audit.last_exported < b.audit.next_seq

\* The encoded length, up to the width of its integers.
BlobSize(b) == KeySize * Cardinality(b.entries) + RowSize * RowsUsed(b)
                   + RecordSize * Len(b.audit.records)

\* seal_body: validate, then BlobTooLarge.
SealBody(b) == Validate(b) /\ BlobSize(b) <= MaxBlob

-----------------------------------------------------------------------------
(* Capabilities *)

\* Mutant: an administrator may reset the breaker.
BugTierOf(op) == IF op = "restore" THEN "recovery" ELSE "admin"

\* verify_capability_extract: the tier signs the operation, and the counter is
\* the next one of its row.
TierOf(op) == IF op \in {"reset_breaker", "restore"} THEN "recovery" ELSE "admin"

VerifyCapability(op, cap) ==
    /\ cap.row.authority = TierOf(op)
    /\ cap.counter = body.counters[cap.row] + 1

-----------------------------------------------------------------------------
(* Handlers: each ends with the candidate waiting for its commit *)

Seal(op, cap, b) == cand' = [op |-> op, cap |-> cap, body |-> b]

\* The common tail of an audited, privileged handler.
Privileged(op, cap, b) ==
    /\ CounterAdvances(b, cap)
    /\ ~ AuditBackpressure(b.audit)
    /\ Seal(op, cap, AdvanceCommitEpoch(RecordAudit(AdvanceCounter(b, cap), cap),
                                        BumpsStructural(op)))
    /\ UNCHANGED <<body, backups, ephemeral, published, accepted, restores>>

CanServe(op) == cand = Idle /\ op \in Ops /\ body.epoch < MaxEpoch

\* generate_keys: the batch, the single treasury key, and key_refs never drawn
\* before.
KeysFit(b, purpose, refs) ==
    /\ purpose = "treasury" => Cardinality(refs) = 1
    /\ purpose = "treasury" => \A e \in b.entries : e.purpose # "treasury"
    /\ refs # {}
    /\ Cardinality(refs) <= MaxBatch
    /\ Cardinality(b.entries) + Cardinality(refs) <= MaxKeys
    /\ \A e \in b.entries : e.ref \notin refs

\* handle_generate_keys.
GenerateKeys(cap, purpose, refs) ==
    /\ CanServe("generate")
    /\ VerifyCapability("generate", cap)
    /\ purpose = "treasury" => cap.row.scope = 0
    /\ KeysFit(body, purpose, refs)
    /\ Privileged("generate", cap,
           [body EXCEPT !.entries = @ \cup
               {[ref |-> r, purpose |-> purpose, batch |-> cap.counter] : r \in refs}])

\* The tail of handle_configure_treasury: scope class 0, version bump, audit.
Configure(op, cap, faucet, strict) ==
    /\ CanServe(op)
    /\ VerifyCapability(op, cap)
    /\ cap.row.scope = 0
    /\ Privileged(op, cap, AdvanceConfigVersion(
           [body EXCEPT !.faucet = faucet, !.strict = strict]))

SetLimits(cap, l) ==
    Configure("set_limits", cap,
              [body.faucet EXCEPT !.perMax = l.perMax, !.maxGas = l.maxGas,
                                  !.maxRate = l.maxRate],
              body.strict)

RefillBudget(cap, v) ==
    /\ v # 0
    /\ Configure("refill_budget", cap,
                 [body.faucet EXCEPT !.budget = v, !.cumulative = 0], body.strict)

\* Mutant: the threshold may be set below what is spent already.
BugRaiseBreaker(cap, v) ==
    Configure("raise_breaker", cap, [body.faucet EXCEPT !.breaker = v], body.strict)

RaiseBreaker(cap, v) ==
    /\ v >= body.faucet.lifetime
    /\ Configure("raise_breaker", cap, [body.faucet EXCEPT !.breaker = v], body.strict)

ResetBreaker(cap, v) ==
    /\ v <= body.faucet.lifetime
    /\ Configure("reset_breaker", cap,
                 [body.faucet EXCEPT !.lifetime = v, !.breaker = NoBreaker],
                 body.strict + 1)

\* handle_sign_faucet_dispense with accept_and_debit: no capability, the
\* treasury key signs, a transfer key of this keystore receives.
WorstCase(d) == d.amount + d.gas * d.rate

\* The order of the checks is immaterial: each refuses and changes nothing.
AcceptAndDebit(f, d) ==
    LET worst == WorstCase(d)
    IN  /\ f.budget # 0
        /\ d.amount <= f.perMax /\ d.gas <= f.maxGas /\ d.rate <= f.maxRate
        /\ worst <= MaxU256
        /\ f.cumulative + worst <= f.budget
        /\ f.lifetime + worst <= MaxU256
        /\ f.breaker # NoBreaker => f.lifetime + worst <= f.breaker

Dispense(d) ==
    /\ CanServe("dispense")
    /\ \E e \in body.entries : e.purpose = "treasury"
    /\ \E e \in body.entries : e.purpose = "transfer"
    /\ AcceptAndDebit(body.faucet, d)
    /\ Seal("dispense", Idle,
            AdvanceCommitEpoch(
                [body EXCEPT !.faucet.cumulative = @ + WorstCase(d),
                             !.faucet.lifetime = @ + WorstCase(d)],
                BumpsStructural("dispense")))
    /\ UNCHANGED <<body, backups, ephemeral, published, accepted, restores>>

\* build_restore_ingress_payload: the ring of the candidate.
ExportedRecords(b) == b.audit.records

\* selected_key_refs: the entries the request names.
SelectedKeys(b, refs) == {e \in b.entries : e.ref \in refs}

\* handle_export_backup: the audit record of the export itself is written
\* before the high-water moves, and the payload is built from the candidate.
ExportBackup(cap, refs) ==
    /\ CanServe("export")
    /\ Cardinality(backups) < MaxBackups
    /\ VerifyCapability("export", cap)
    /\ refs # {}
    /\ \A r \in refs : \E e \in body.entries : e.ref = r
    /\ CounterAdvances(body, cap)
    /\ ~ AuditBackpressure(body.audit)
    /\ LET b == AdvanceCommitEpoch(
                    AdvanceExportHighWater(RecordAudit(AdvanceCounter(body, cap), cap)),
                    BumpsStructural("export"))
       IN  cand' = [op |-> "export", cap |-> cap, body |-> b,
                    backup |-> [entries |-> SelectedKeys(b, refs),
                                marks |-> MarksOf(b), faucet |-> b.faucet,
                                records |-> ExportedRecords(b), version |-> b.version]]
    /\ UNCHANGED <<body, backups, ephemeral, published, accepted, restores>>

\* handle_get_restore_pubkey: publish once, then repeat.
GetRestorePubkey ==
    /\ CanServe("restore")
    /\ ephemeral = 0
    /\ published < MaxPublished
    /\ ephemeral' = published + 1
    /\ published' = published + 1
    /\ UNCHANGED <<body, cand, backups, accepted, restores>>

\* high_water_dominates.
HighWaterDominates(high, marks) ==
    /\ \A r \in Rows : marks.counters[r] > 0 => high.counters[r] >= marks.counters[r]
    /\ high.cumulative >= marks.cumulative
    /\ high.lifetime >= marks.lifetime

\* verify_ac6_high_water: neither the backup nor the destination is lowered.
Ac6(b, backup, high) ==
    /\ HighWaterDominates(high, backup.marks)
    /\ HighWaterDominates(high, MarksOf(b))

HighOf(x, y) == IF x >= y THEN x ELSE y

\* apply_restore_to_body, then adopt_ac6_high_water, then the capability's row.
RestoredBody(b, backup, high, cap) ==
    LET next == IF backup.records = << >> THEN 1 ELSE Last(backup.records).seq + 1
    IN  [b EXCEPT
           !.entries  = backup.entries,
           !.version  = backup.version,
           !.faucet   = [backup.faucet EXCEPT !.cumulative = high.cumulative,
                                              !.lifetime = high.lifetime],
           !.audit    = [records |-> backup.records, last_exported |-> next - 1,
                         next_seq |-> next],
           !.strict   = HighOf(HighOf(b.strict, backup.marks.strict) + 1, high.strict),
           !.counters = [high.counters EXCEPT
                             ![cap.row] = HighOf(high.counters[cap.row], cap.counter)]]

\* handle_restore_backup.  `high` is the recovery authority's signed account of
\* the current marks.  The payload is one an export made; RestoreTransfer has the
\* payloads a host makes itself.
RestoreBackup(cap, backup, high) ==
    /\ CanServe("restore")
    /\ VerifyCapability("restore", cap)
    /\ ephemeral # 0
    /\ Ac6(body, backup, high)
    /\ Len(backup.records) <= AuditCapacity
    /\ \/ high.counters[cap.row] > 0
       \/ Cardinality({r \in Rows : high.counters[r] > 0}) < MaxRows
    /\ Seal("restore", cap,
            AdvanceCommitEpoch(RestoredBody(body, backup, high, cap), TRUE))
    /\ UNCHANGED <<body, backups, ephemeral, published, accepted, restores>>

-----------------------------------------------------------------------------
(* The end of a request *)

\* retire_restore_ephemeral: after every restore, whether it committed or not.
RetireKey(op) == IF op = "restore" THEN 0 ELSE ephemeral

\* Sealed and acked: the candidate is the body, and a restore spends its key.
Committed ==
    /\ cand # Idle
    /\ SealBody(cand.body)
    /\ body' = cand.body
    /\ accepted' = IF cand.cap = Idle THEN accepted
                   ELSE accepted \cup {[op |-> cand.op, row |-> cand.cap.row,
                                        counter |-> cand.cap.counter,
                                        at |-> cand.body.epoch]}
    /\ backups' = IF cand.op = "export" THEN backups \cup {cand.backup} ELSE backups
    /\ restores' = IF cand.op = "restore"
                   THEN restores \cup {[key |-> ephemeral, at |-> cand.body.epoch]}
                   ELSE restores
    /\ ephemeral' = RetireKey(cand.op)
    /\ cand' = Idle
    /\ UNCHANGED published

\* Seal, attestation or commit failed: 0x46, and a restore spends its key too.
NotCommitted ==
    /\ cand # Idle
    /\ ephemeral' = RetireKey(cand.op)
    /\ cand' = Idle
    /\ UNCHANGED <<body, backups, published, accepted, restores>>

\* The process restarts on the committed state: the candidate and the restore
\* key live in memory only.  Which sealed blob the host presents, and what a boot
\* on an older one does, is AntiRollback's subject.
Restart ==
    /\ cand' = Idle
    /\ ephemeral' = 0
    /\ UNCHANGED <<body, backups, published, accepted, restores>>

Init ==
    /\ body = Genesis
    /\ cand = Idle
    /\ backups = {}
    /\ ephemeral = 0
    /\ published = 0
    /\ accepted = {}
    /\ restores = {}

\* The marks the recovery authority can attest: now, or at some export.
Attested == {MarksOf(body)} \cup {b.marks : b \in backups}

Next ==
    \/ \E cap \in Capabilities :
          \/ \E p \in Purposes, refs \in SUBSET Refs : GenerateKeys(cap, p, refs)
          \/ \E l \in Limits : SetLimits(cap, l)
          \/ \E v \in Values : RefillBudget(cap, v)
          \/ \E v \in Values : RaiseBreaker(cap, v)
          \/ \E v \in Values : ResetBreaker(cap, v)
          \/ \E refs \in SUBSET Refs : ExportBackup(cap, refs)
          \/ \E b \in backups, high \in Attested : RestoreBackup(cap, b, high)
    \/ \E d \in Dispenses : Dispense(d)
    \/ GetRestorePubkey
    \/ Committed
    \/ NotCommitted
    \/ Restart

Spec == Init /\ [][Next]_vars

-----------------------------------------------------------------------------
(* Properties *)

\* However limits, refills, breaker changes and dispenses follow each other, the
\* spend stays within the budget and under the breaker.  (A restore may bring
\* back an older, smaller budget: then nothing more is dispensed.)
SpendWithinLimits ==
    LET f == body.faucet
    IN  restores = {} =>
            /\ f.cumulative <= f.budget
            /\ f.breaker # NoBreaker => f.lifetime <= f.breaker

HasRecord(records, a) ==
    \E i \in DOMAIN records : records[i].cap = [row |-> a.row, counter |-> a.counter]

InBackup(a) == \E b \in backups : HasRecord(b.records, a)

\* A restore came after a, and no export in between.
DroppedByRestore(a) ==
    \E r \in restores :
        /\ a.at < r.at
        /\ \A x \in accepted : x.op = "export" => x.at < a.at \/ x.at >= r.at

\* Every committed operation an authority signed can be audited: its record is in
\* the ring or has left in a backup.  Only a restore, which brings the backup's
\* ring with it, drops records, and only those made since the last export before
\* it (record_audit's backpressure and overwrite, advance_export_high_water,
\* apply_restore_to_body).  A restore is not recorded itself.
AuditKept ==
    \A a \in accepted :
        a.op # "restore" =>
            HasRecord(body.audit.records, a) \/ InBackup(a) \/ DroppedByRestore(a)

\* An operation that leaves the structural version alone changes nothing but
\* marks, so that adopting the anchor's marks at boot rebuilds the body.
EpochOnlyTouchesMarks ==
    [][body'.structural = body.structural => NonMarksOf(body') = NonMarksOf(body)]_vars

\* High-water marks move forward: counters and the recovery counter never
\* fall, the window's spend falls only on a capability of some authority, the
\* lifetime spend only on one of the recovery authority, and neither on a
\* restore, however old its backup or its attestation.
MarksMoveForward ==
    [][/\ \A r \in Rows : body'.counters[r] >= body.counters[r]
       /\ body'.strict >= body.strict
       /\ body'.faucet.cumulative < body.faucet.cumulative =>
              accepted' # accepted /\ restores' = restores
       /\ body'.faucet.lifetime < body.faucet.lifetime =>
              /\ \E a \in accepted' \ accepted : a.row.authority = "recovery"
              /\ restores' = restores]_vars

=============================================================================
