----------------------------- MODULE Preimages -----------------------------
(***************************************************************************)
(* The byte strings that are hashed, signed or authenticated outside CBOR: *)
(* the RLP of a transfer (rlp.rs, agent_transfer.rs), the identity proof   *)
(* (agent_identity.rs), the ABI encoding of a ticket and the block root    *)
(* (lib.rs), the chain proof (chain_proof_crypto.rs), the headers and the  *)
(* high-water of a restore (agent_backup.rs) and the report data that bind *)
(* a restore to an attestation (snp_report.rs); what SHA3-256 is asked for *)
(* keys, key ids and digests (agent_keystore.rs, pq_signer.rs,             *)
(* agent_backup.rs, snp-derive-root); what a capability commits a request  *)
(* to (agent_capability.rs, agent_dispatch.rs); and the 256-bit arithmetic *)
(* of the treasury (u256.rs).                                              *)
(***************************************************************************)
EXTENDS ByteStrings, FiniteSets

CONSTANTS
    WORD,               \* 32: an ABI word, a digest in the ABI
    U256_LEN,           \* 32: bytes of a u256
    KEM_LEN,            \* bytes of a KEM ciphertext, of an encapsulation key, of a nonce
    MEASUREMENT_LEN,    \* 48
    KEY_LEN             \* 85: a public key and its address

ASSUME PreimagesAssumption ==
    /\ DIGEST_LEN \in Nat /\ KEM_LEN \in Nat /\ MEASUREMENT_LEN \in Nat /\ KEY_LEN \in Nat
    /\ WORD \in Nat \ 0 .. 7 /\ U256_LEN \in u8 \ {0}

-----------------------------------------------------------------------------
(* u256 *)

Overflow == [ok |-> FALSE]

\* One pass from the last byte: the carries out of the last 0, 1, ... digits.  sums[i] is
\* digit i before any carry.
Carries(sums) ==
    LET carry[k \in 0 .. Len(sums)] ==
            IF k = 0 THEN 0 ELSE (sums[Len(sums) - k + 1] + carry[k - 1]) \div 256
    IN  carry

Digits(sums) == [i \in 1 .. Len(sums) |-> (sums[i] + Carries(sums)[Len(sums) - i]) % 256]

Ripple(sums) ==
    IF Carries(sums)[Len(sums)] = 0 THEN [ok |-> TRUE, v |-> Digits(sums)] ELSE Overflow

\* Mutant: a carry out of the first byte is dropped.
BugCheckedAdd(a, b) == [ok |-> TRUE, v |-> Digits([i \in DOMAIN a |-> a[i] + b[i]])]

checked_add(a, b) == Ripple([i \in DOMAIN a |-> a[i] + b[i]])

checked_mul_u64(a, n) == Ripple([i \in DOMAIN a |-> a[i] * n])

-----------------------------------------------------------------------------
(* RLP and the agent keys' two preimages *)

MinimalOf(b) ==
    LET nz == {i \in DOMAIN b : b[i] # 0}
    IN  IF nz = {} THEN << >>
        ELSE SubSeq(b, CHOOSE i \in nz : \A j \in nz : i <= j, Len(b))

encode_length(len, offset) ==
    IF len < 56 THEN <<offset + len>>
    ELSE LET b == MinimalOf(U64(len)) IN <<offset + 55 + Len(b)>> \o b

encode_bytes(b) ==
    IF Len(b) = 1 /\ b[1] < 128 THEN b ELSE encode_length(Len(b), 128) \o b

encode_uint_minimal(b) == encode_bytes(MinimalOf(b))

encode_list(items) ==
    LET payload == FlattenSeq(items) IN encode_length(Len(payload), 192) \o payload

unsigned_preimage(f) ==
    encode_list(<<encode_uint_minimal(U64(f.nonce)), encode_uint_minimal(f.gas_price),
                  encode_uint_minimal(U64(f.gas_limit)), encode_bytes(f.to),
                  encode_uint_minimal(f.value), encode_bytes(<< >>),
                  encode_uint_minimal(U64(f.chain_id)),
                  encode_uint_minimal(<< >>), encode_uint_minimal(<< >>)>>)

identity_proof_preimage(f) ==
    FlattenSeq(<<<<25, 30>>, Tag(0), U64(f.chain_id), lp8(f.env), f.key_ref, f.key, f.nonce>>)

-----------------------------------------------------------------------------
(* The producer key's two preimages, and the chain proof *)

Word(b) == Zeros(WORD - Len(b)) \o b

Padded(b) == b \o Zeros((WORD - (Len(b) % WORD)) % WORD)

\* Mutant: the length word of a dynamic field is left out.
BugDynamic(b) == Padded(b)

Dynamic(b) == Word(U64(Len(b))) \o Padded(b)

\* compute_canonical_ticket_hash; fork and version are << >> or a one-tuple.
TicketPreimage(t) ==
    LET fork == IF t.type = 0 \/ t.fork = << >> THEN Zeros(WORD) ELSE t.fork[1]
        ver == IF t.type = 0 \/ t.version = << >> THEN 0 ELSE t.version[1]
    IN  FlattenSeq(<<
            Word(<<t.type>>), Word(U64(t.nonce)), t.context, Word(U64(t.height)), Word(U64(8 * WORD)),
            Word(U64(8 * WORD + Len(Dynamic(t.measurement)))), fork, Word(U64(ver)),
            Dynamic(t.measurement), Dynamic(t.pubkey)>>)

validate_ticket_payload(t) ==
    \/ t.type = 0 /\ t.fork = << >> /\ t.version = << >>
    \/ /\ t.type = 1
       /\ t.fork # << >> /\ t.fork # <<Zeros(WORD)>>
       /\ t.version # << >> /\ t.version # <<0>>

BlockRootPreimage(h) == Tag(1) \o h

recent_chain_proof_signing_preimage(p) ==
    FlattenSeq(<<Tag(2), U64(p.height), p.header, U64(p.activated), p.ticket, p.tail,
                 lp32(p.pubkey), lp32(p.measurement)>>)

-----------------------------------------------------------------------------
(* Backup and restore *)

build_header(h) ==
    FlattenSeq(<<Tag(3), <<0, 1>>, lp16(h.recovery_key_id), U64(h.chain_id), lp16(h.env),
                 h.kem_ct, lp32(h.manifest), Zeros(KEM_LEN)>>)

build_ingress_header(h) ==
    FlattenSeq(<<Tag(4), <<0, 1>>, lp16(h.measurement), U64(h.chain_id), lp16(h.env),
                 h.manifest_hash, h.backup_digest, h.kem_ct, Zeros(KEM_LEN)>>)

recovery_high_water_preimage(h) ==
    FlattenSeq(<<Tag(5), U64(h.chain_id), lp16(h.env), lp16(h.request_id), lp32(h.marks)>>)

report_data_for_restore_ephemeral(r) ==
    FlattenSeq(<<Tag(6), r.encaps_key, r.measurement, U64(r.chain_id), lp64(r.env)>>)

report_data_for_restore_completion(r) ==
    FlattenSeq(<<Tag(7), U64(r.chain_id), lp64(r.env), lp64(r.request_id), r.identity_set_hash,
                 r.sealed_blob_hash>>)

anchor_handshake_report_data(r) ==
    FlattenSeq(<<Tag(8), U64(r.chain_id), lp32(r.env), r.nonce>>)

report_data_for_pubkey(key) == Tag(9) \o key

-----------------------------------------------------------------------------
(* What SHA3-256 is asked for keys, key ids and digests *)

\* The agent keystore: measurement_digest and derive_aead_key.
KeystoreMeasurement(m) == Tag(10) \o m
KeystoreKey(root, digest) == FlattenSeq(<<Tag(11), root, digest>>)

\* The producer's sealed signer: measurement_digest_v1 and derive_aead_key.
ProducerMeasurement(m) == Tag(12) \o m
ProducerKey(root, digest) == FlattenSeq(<<Tag(13), root, digest>>)

derive_payload_key(ss) == Tag(14) \o ss

\* The labels of the restore ingress begin alike, so a zero byte ends each of them.
hash_domain_tag(rest) == Tag(15) \o Append(rest, 0)

derive_ingress_key(ss) == hash_domain_tag(<< >>) \o ss
compute_manifest_hash(manifest) == hash_domain_tag(<<300>>) \o manifest
compute_original_backup_digest(blob) == hash_domain_tag(<<301>>) \o blob

derive_recovery_key_id(encaps_key) == Tag(16) \o encaps_key

MarksDigest(payload) == Tag(17) \o payload

\* snp-derive-root: the root of a firmware key, and what its self-test prints of a root.
derive_provisioning_root(snp_key) == Tag(18) \o snp_key
SelftestCommit(root) == Tag(19) \o root

-----------------------------------------------------------------------------
(* What a capability commits its request to *)

PutRefs(refs) == put_uint(4, Len(refs)) \o FlattenSeq([i \in DOMAIN refs |-> put_bytes(refs[i])])

generate_keys_canonical_params(p) ==
    FlattenSeq(<<put_uint(5, 2), <<1>>, put_uint(0, p.purpose), <<2>>, put_uint(0, p.count)>>)

\* gas is << >>, or <<max_gas_limit, max_fee_rate>> for set_limits.
configure_treasury_canonical_params(p) ==
    FlattenSeq(<<put_uint(5, 2 + Len(p.gas)), <<1>>, put_uint(0, p.sub_op), <<2>>,
                 put_bytes(p.field2)>>
                 \o [i \in DOMAIN p.gas |-> <<2 + i>> \o put_uint(0, p.gas[i])])

\* All keys, the given refs, or one batch.
export_canonical_params(p) ==
    CASE p.by = "all" -> put_uint(5, 0)
      [] p.by = "refs" -> FlattenSeq(<<put_uint(5, 1), <<1>>, PutRefs(p.refs)>>)
      [] p.by = "batch" -> FlattenSeq(<<put_uint(5, 1), <<2>>, put_uint(0, p.batch)>>)

restore_canonical_params(p) ==
    FlattenSeq(<<put_uint(5, 2), <<1>>, PutRefs(p.refs), <<2>>, put_bytes(p.digest)>>)

CanonicalParams(opcode, p) ==
    CASE opcode = 1 -> generate_keys_canonical_params(p)
      [] opcode = 6 -> configure_treasury_canonical_params(p)
      [] opcode = 7 -> export_canonical_params(p)
      [] opcode = 8 -> restore_canonical_params(p)

payload_binding(opcode, sub_op, request_id, params) ==
    FlattenSeq(<<<<opcode>>, sub_op, request_id, params>>)

\* The request id runs into the parameters in the binding; the capability's own copy of
\* it, which the verifier compares with the request's, tells where it ends.
CapabilityBinds(r) ==
    put_bytes(r.request_id)
      \o payload_binding(r.opcode, IF r.opcode = 6 THEN <<r.params.sub_op>> ELSE << >>,
                         r.request_id, CanonicalParams(r.opcode, r.params))

PutIdentity(e) == FlattenSeq(<<e.key_ref, lp64(e.public_identity), U64(e.key_purpose)>>)

\* A set of restored identities: [key_ref, public_identity, key_purpose].
SortedByRef(q) == \A i, j \in DOMAIN q : i < j => LexLess(q[i].key_ref, q[j].key_ref)

compute_restored_identity_set_hash(S) ==
    LET entries == CHOOSE q \in [1 .. Cardinality(S) -> S] : SortedByRef(q)
    IN  FlattenSeq(<<U64(Cardinality(S))>> \o [i \in DOMAIN entries |-> PutIdentity(entries[i])])

-----------------------------------------------------------------------------
(* Which key signs, or which field carries, the bytes of a form. *)

Forms == {"transfer", "identity", "ticket", "block_root", "chain_proof", "backup",
          "ingress", "high_water", "ephemeral", "completion", "handshake", "pubkey",
          "keystore_measurement", "keystore_key", "producer_measurement", "producer_key",
          "payload_key", "ingress_key", "manifest_hash", "backup_digest", "recovery_key_id",
          "marks_digest", "provisioning_root", "root_commit", "binding", "identity_set"}

\* The forms hashed with SHA3-256.
Sha3Forms == {"keystore_measurement", "keystore_key", "producer_measurement", "producer_key",
              "payload_key", "ingress_key", "manifest_hash", "backup_digest",
              "recovery_key_id", "marks_digest", "provisioning_root", "root_commit"}

Bearer(form) ==
    CASE form \in {"transfer", "identity"} -> "agent key"
      [] form \in {"ticket", "block_root"} -> "producer key"
      [] form \in {"ephemeral", "completion", "handshake", "pubkey"} -> "report data"
      [] form \in Sha3Forms -> "SHA3-256"
      [] OTHER -> form

Bytes(form, x) ==
    CASE form = "transfer" -> unsigned_preimage(x)
      [] form = "identity" -> identity_proof_preimage(x)
      [] form = "ticket" -> TicketPreimage(x)
      [] form = "block_root" -> BlockRootPreimage(x)
      [] form = "chain_proof" -> recent_chain_proof_signing_preimage(x)
      [] form = "backup" -> build_header(x)
      [] form = "ingress" -> build_ingress_header(x)
      [] form = "high_water" -> recovery_high_water_preimage(x)
      [] form = "ephemeral" -> report_data_for_restore_ephemeral(x)
      [] form = "completion" -> report_data_for_restore_completion(x)
      [] form = "handshake" -> anchor_handshake_report_data(x)
      [] form = "pubkey" -> report_data_for_pubkey(x)
      [] form = "keystore_measurement" -> KeystoreMeasurement(x)
      [] form = "keystore_key" -> KeystoreKey(x[1], x[2])
      [] form = "producer_measurement" -> ProducerMeasurement(x)
      [] form = "producer_key" -> ProducerKey(x[1], x[2])
      [] form = "payload_key" -> derive_payload_key(x)
      [] form = "ingress_key" -> derive_ingress_key(x)
      [] form = "manifest_hash" -> compute_manifest_hash(x)
      [] form = "backup_digest" -> compute_original_backup_digest(x)
      [] form = "recovery_key_id" -> derive_recovery_key_id(x)
      [] form = "marks_digest" -> MarksDigest(x)
      [] form = "provisioning_root" -> derive_provisioning_root(x)
      [] form = "root_commit" -> SelftestCommit(x)
      [] form = "binding" -> CapabilityBinds(x)
      [] form = "identity_set" -> compute_restored_identity_set_hash(x)

-----------------------------------------------------------------------------
(* What a form is made from: arrays have their length, a string with a length    *)
(* prefix fits it, and integers fit their type.                                  *)

Bstr == Seq(Nat)
Array(n) == [1 .. n -> Nat]
Upto(range) == {b \in Bstr : Len(b) \in range}
AtMostOne(S) == {x \in Seq(S) : Len(x) <= 1}

\* A u256 in as few bytes as it needs (as_u256_minimal_be).
MinimalU256 == {b \in Seq(u8) : Len(b) <= U256_LEN /\ (b # << >> => b[1] # 0)}

Refs == {r \in Seq(Array(DIGEST_LEN)) : Len(r) \in u64}

\* What a capability can authorize, by opcode.
Params(opcode) ==
    CASE opcode = 1 -> [purpose : u64, count : u64]
      [] opcode = 6 -> {p \in [sub_op : u8, field2 : MinimalU256, gas : {<< >>} \cup u64 \X u64] :
                            p.sub_op = 0 <=> p.gas # << >>}
      [] opcode = 7 -> [by : {"all"}] \cup [by : {"refs"}, refs : Refs]
                         \cup [by : {"batch"}, batch : u64]
      [] opcode = 8 -> [refs : Refs, digest : Array(DIGEST_LEN)]

Commanded(opcode) == [opcode : {opcode}, request_id : Upto(u64), params : Params(opcode)]

Bindings == Commanded(1) \cup Commanded(6) \cup Commanded(7) \cup Commanded(8)

IdentitySets ==
    {S \in SUBSET [key_ref : Array(DIGEST_LEN), public_identity : Upto(u64), key_purpose : u64] :
        /\ IsFiniteSet(S) /\ Cardinality(S) \in u64
        /\ \A e, f \in S : e.key_ref = f.key_ref => e = f}

Tickets ==
    {t \in [type : u8, nonce : u64, context : Array(WORD), height : u64,
            measurement : Upto(u64), pubkey : Upto(u64),
            fork : AtMostOne(Array(WORD)),
            version : AtMostOne(u32)] :
        validate_ticket_payload(t)}

Inputs(form) ==
    CASE form = "transfer" ->
            [nonce : u64, gas_price : MinimalU256, gas_limit : u64, to : Array(20),
             value : MinimalU256, chain_id : u64]
      [] form = "identity" ->
            [chain_id : u64, env : Upto(u8), key_ref : Array(DIGEST_LEN), key : Array(KEY_LEN),
             nonce : Array(DIGEST_LEN)]
      [] form = "ticket" -> Tickets
      [] form = "block_root" -> Array(WORD)
      [] form = "chain_proof" ->
            [height : u64, header : Array(DIGEST_LEN), activated : u64, ticket : Array(DIGEST_LEN),
             tail : Array(DIGEST_LEN), pubkey : Upto(u32), measurement : Upto(u32)]
      [] form = "backup" ->
            [recovery_key_id : Upto(u16), chain_id : u64, env : Upto(u16), kem_ct : Array(KEM_LEN),
             manifest : Upto(u32)]
      [] form = "ingress" ->
            [measurement : Upto(u16), chain_id : u64, env : Upto(u16),
             manifest_hash : Array(DIGEST_LEN), backup_digest : Array(DIGEST_LEN),
             kem_ct : Array(KEM_LEN)]
      [] form = "high_water" ->
            [chain_id : u64, env : Upto(u16), request_id : Upto(u16), marks : Upto(u32)]
      [] form = "ephemeral" ->
            [encaps_key : Array(KEM_LEN), measurement : Array(MEASUREMENT_LEN), chain_id : u64,
             env : Upto(u64)]
      [] form = "completion" ->
            [chain_id : u64, env : Upto(u64), request_id : Upto(u64),
             identity_set_hash : Array(DIGEST_LEN), sealed_blob_hash : Array(DIGEST_LEN)]
      [] form = "handshake" -> [chain_id : u64, env : Upto(u32), nonce : Array(DIGEST_LEN)]
      [] form \in {"keystore_key", "producer_key"} -> Array(DIGEST_LEN) \X Array(DIGEST_LEN)
      [] form = "binding" -> Bindings
      [] form = "identity_set" -> IdentitySets
      [] OTHER -> Bstr
=============================================================================
