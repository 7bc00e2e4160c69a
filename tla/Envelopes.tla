----------------------------- MODULE Envelopes -----------------------------
(***************************************************************************)
(* The binary containers around keys, documents and messages: the two      *)
(* sealed blobs (agent_keystore.rs, pq_signer.rs), the backup blob and the *)
(* restore ingress envelope with its payload (agent_backup.rs), the proof  *)
(* of a recent chain (chain_proof_crypto.rs), the frame of every message   *)
(* (lib.rs) and the requests to the anchor in it (agent_boot_relay.rs),    *)
(* the envelope of the provisioning messages (agent_provision.rs) and the  *)
(* reply of the quote child (quote_subprocess.rs).                         *)
(*                                                                         *)
(* The hash, the KEM and the AEAD are ideal: a hash has one preimage; a    *)
(* KEM ciphertext gives every secret key a secret of its own; a ciphertext *)
(* opens only under the key, nonce and associated data it was made with.   *)
(***************************************************************************)
EXTENDS SignedDocs, Preimages, Wire

CONSTANTS
    Hash(_, _),     \* Hash(n, b): the n numbers of the digest of b
    NONCE_LEN,      \* 24 in the keystore, 12 in the producer's blob
    TAG_LEN,        \* 16
    SEALED_LEN,     \* ciphertext of the producer's key pair
    KEY_ID_LEN,     \* 16
    MIN_REPORT_LEN,
    MAX_OUTBLOB_LEN

ASSUME EnvelopesAssumption ==
    /\ NONCE_LEN \in Nat /\ TAG_LEN \in Nat /\ SEALED_LEN \in Nat /\ KEY_ID_LEN \in Nat
    /\ MIN_REPORT_LEN \in 0 .. MAX_OUTBLOB_LEN

-----------------------------------------------------------------------------
(* Reading a layout: parts in order, then the end of the buffer.            *)

\* `n` bytes; one of the strings in V; a length in w bytes and that many bytes, a
\* length in `lens`; what is left, as long as `lens` says.
Block(name, n) == [name |-> name, size |-> "fixed", w |-> 0, lens |-> {n}, vals |-> << >>]
OneOf(name, n, V) == [Block(name, n) EXCEPT !.vals = <<V>>]
Prefixed(name, w, lens) == [name |-> name, size |-> "prefix", w |-> w, lens |-> lens, vals |-> << >>]
Rest(name, lens) == [name |-> name, size |-> "rest", w |-> 0, lens |-> lens, vals |-> << >>]

\* A length above 2^16 is beyond every buffer and every cap.
LengthOf(b) ==
    IF \E i \in 1 .. Len(b) - 2 : b[i] # 0 THEN 65536 ELSE BeVal(b)

\* st is "ok", "short" (more bytes may come) or "bad"; at has the start of each part.
Take(buf, acc, p) ==
    LET from == acc.pos + p.w
        n == CASE p.size = "fixed" -> CHOOSE k \in p.lens : TRUE
               [] p.size = "prefix" -> LengthOf(SubSeq(buf, acc.pos, from - 1))
               [] p.size = "rest" -> Remaining(buf, from)
        v == SubSeq(buf, from, from + n - 1)
    IN  IF acc.st # "ok" THEN acc
        ELSE IF from > Len(buf) + 1 THEN [acc EXCEPT !.st = "short"]
        ELSE IF n \notin p.lens THEN [acc EXCEPT !.st = "bad"]
        ELSE IF n > Remaining(buf, from) THEN [acc EXCEPT !.st = "short"]
        ELSE IF p.vals # << >> /\ v \notin p.vals[1] THEN [acc EXCEPT !.st = "bad"]
        ELSE [st |-> "ok", pos |-> from + n, val |-> (p.name :> v) @@ acc.val,
              at |-> (p.name :> acc.pos) @@ acc.at]

ReadParts(buf, parts) ==
    LET r == FoldLeft(LAMBDA acc, p : Take(buf, acc, p),
                      [st |-> "ok", pos |-> 1, val |-> << >>, at |-> << >>], parts)
    IN  IF r.st = "ok" /\ r.pos # Len(buf) + 1 THEN [r EXCEPT !.st = "bad"] ELSE r

\* The one reading of a buffer, or none.
Readings(buf, parts) == {r \in {ReadParts(buf, parts)} : r.st = "ok"}

UpTo(buf, r, name) == SubSeq(buf, 1, r.at[name] - 1)

Digest32(b) == Hash(DIGEST_LEN, b)

-----------------------------------------------------------------------------
(* Sealed containers.  A context c is what the reader knows: its            *)
(* provisioning root and measurement, a KEM secret key (which stands for    *)
(* its public key), its chain, and the manifest, backup and recovery tail   *)
(* that were named to it.                                                   *)

SealedKinds == {"keystore", "producer", "backup", "ingress", "proof"}

Magic(kind) ==
    CASE kind = "keystore" -> Tag(20)
      [] kind = "producer" -> Tag(21)
      [] kind = "backup" -> Tag(3)
      [] kind = "ingress" -> Tag(4)
      [] kind = "restore_payload" -> Tag(22)
      [] kind = "provision" -> Tag(23)

MeasurementDigest(kind, m) ==
    Digest32(IF kind = "keystore" THEN KeystoreMeasurement(m) ELSE ProducerMeasurement(m))

recovery_key_id(dk) == Hash(KEY_ID_LEN, derive_recovery_key_id(dk))

\* ML-KEM decapsulation: implicit rejection gives any other key or ciphertext a
\* secret of its own.
decapsulate(dk, kem_ct) == dk \o kem_ct

DemKey(kind, c, kem_ct) ==
    CASE kind = "keystore" -> Digest32(KeystoreKey(c.root, MeasurementDigest(kind, c.measurement)))
      [] kind = "producer" -> Digest32(ProducerKey(c.root, MeasurementDigest(kind, c.measurement)))
      [] kind = "backup" -> Digest32(derive_payload_key(decapsulate(c.dk, kem_ct)))
      [] kind = "ingress" -> Digest32(derive_ingress_key(decapsulate(c.dk, kem_ct)))

compute_recovery_tail_digest(tail) == Digest32(FlattenSeq(tail))

ChainProof(c, digest) ==
    recent_chain_proof_signing_preimage(
        [height |-> c.chain_id, header |-> Zeros(DIGEST_LEN), activated |-> 0,
         ticket |-> Zeros(DIGEST_LEN), tail |-> digest, pubkey |-> c.env,
         measurement |-> c.measurement])

\* seal_keystore_with_nonce, seal_mldsa65_keypair_v1_with_root: the nonce is not in the
\* associated data.
SealedHeader(kind, c) ==
    Magic(kind) \o (IF kind = "keystore" THEN <<0, 4>> ELSE <<1>>)
      \o MeasurementDigest(kind, c.measurement)

\* The header of a backup or an ingress is its associated data, all of it.
KemHeader(kind, c, kem_ct) ==
    IF kind = "backup"
    THEN build_header([recovery_key_id |-> recovery_key_id(c.dk), chain_id |-> c.chain_id,
                       env |-> c.env, kem_ct |-> kem_ct, manifest |-> c.manifest])
    ELSE build_ingress_header([measurement |-> c.measurement, chain_id |-> c.chain_id,
                               env |-> c.env, kem_ct |-> kem_ct,
                               manifest_hash |-> Digest32(compute_manifest_hash(c.manifest)),
                               backup_digest |-> Digest32(compute_original_backup_digest(c.backup))])

build_proof_data_v1(tail) == <<1>> \o compute_recovery_tail_digest(tail)

\* What the AEAD, or the signature of a proof, is made over.
Sealing(kind, s) ==
    CASE kind \in {"keystore", "producer"} ->
            [key |-> DemKey(kind, s.ctx, << >>), nonce |-> s.nonce, ct |-> s.ct,
             aad |-> SealedHeader(kind, s.ctx)]
      [] kind \in {"backup", "ingress"} ->
            [key |-> DemKey(kind, s.ctx, s.kem_ct), nonce |-> Zeros(KEM_LEN), ct |-> s.ct,
             aad |-> KemHeader(kind, s.ctx, s.kem_ct)]
      [] kind = "proof" ->
            [key |-> << >>, nonce |-> << >>, ct |-> << >>,
             aad |-> ChainProof(s.ctx, compute_recovery_tail_digest(s.ctx.tail))]

Container(kind, s) ==
    CASE kind \in {"keystore", "producer"} -> SealedHeader(kind, s.ctx) \o s.nonce \o s.ct
      [] kind \in {"backup", "ingress"} -> KemHeader(kind, s.ctx, s.kem_ct) \o lp32(s.ct)
      [] kind = "proof" -> build_proof_data_v1(s.ctx.tail)

Layout(kind) ==
    CASE kind = "keystore" ->
            <<OneOf("magic", 2, {Magic(kind)}), OneOf("version", 2, {<<0, 4>>}),
              Block("digest", DIGEST_LEN), Block("nonce", NONCE_LEN),
              Rest("ct", Nat \ 0 .. TAG_LEN - 1)>>
      [] kind = "producer" ->
            <<OneOf("magic", 2, {Magic(kind)}), OneOf("version", 1, {<<1>>}),
              Block("digest", DIGEST_LEN), Block("nonce", NONCE_LEN), Rest("ct", {SEALED_LEN})>>
      [] kind = "backup" ->
            <<OneOf("magic", 2, {Magic(kind)}), OneOf("version", 2, {<<0, 1>>}),
              Prefixed("recovery_key_id", 2, Nat), Block("chain_id", 8), Prefixed("env", 2, Nat),
              Block("kem_ct", KEM_LEN), Prefixed("manifest", 4, Nat), Block("nonce", KEM_LEN),
              Prefixed("ct", 4, Nat)>>
      [] kind = "ingress" ->
            <<OneOf("magic", 2, {Magic(kind)}), OneOf("version", 2, {<<0, 1>>}),
              Prefixed("measurement", 2, Nat), Block("chain_id", 8), Prefixed("env", 2, Nat),
              Block("manifest_hash", DIGEST_LEN), Block("backup_digest", DIGEST_LEN),
              Block("kem_ct", KEM_LEN), Block("nonce", KEM_LEN), Prefixed("ct", 4, Nat)>>
      [] kind = "proof" -> <<OneOf("format", 1, {<<1>>}), Block("digest", DIGEST_LEN)>>

\* What the reader compares with its own: unseal_*, backup_recovery_key_id,
\* verify_restore_ingress, verify_recent_chain_proof_crypto.
Matches(kind, c, p) ==
    CASE kind \in {"keystore", "producer"} ->
            c.measurement # << >> /\ p.digest = MeasurementDigest(kind, c.measurement)
      [] kind = "backup" -> p.recovery_key_id = recovery_key_id(c.dk)
      [] kind = "ingress" ->
            /\ p.measurement = c.measurement
            /\ p.chain_id = U64(c.chain_id) /\ p.env = c.env
            /\ p.manifest_hash = Digest32(compute_manifest_hash(c.manifest))
            /\ p.backup_digest = Digest32(compute_original_backup_digest(c.backup))
      [] kind = "proof" -> p.digest = compute_recovery_tail_digest(c.tail)

\* What the reader gives the AEAD, or the verifier.
Asked(kind, c, buf, r) ==
    CASE kind \in {"keystore", "producer"} ->
            [key |-> DemKey(kind, c, << >>), nonce |-> r.val.nonce, ct |-> r.val.ct,
             aad |-> UpTo(buf, r, "nonce")]
      [] kind \in {"backup", "ingress"} ->
            [key |-> DemKey(kind, c, r.val.kem_ct), nonce |-> r.val.nonce, ct |-> r.val.ct,
             aad |-> UpTo(buf, r, "ct")]
      [] kind = "proof" ->
            [key |-> << >>, nonce |-> << >>, ct |-> << >>, aad |-> ChainProof(c, r.val.digest)]

\* unseal_keystore, unseal_mldsa65_keypair_v1_with_root, the opening of a backup offline,
\* open_restore_ingress_envelope, verify_recent_chain_proof_crypto.
Opens(kind, c, buf, sealing) ==
    \E r \in Readings(buf, Layout(kind)) :
        Matches(kind, c, r.val) /\ Asked(kind, c, buf, r) = sealing

\* The part of a context a container is bound to.  Of a backup the reader's secret key
\* says all: chain, environment and manifest are read from it.
BoundTo(kind, c) ==
    CASE kind \in {"keystore", "producer"} -> <<c.root, c.measurement>>
      [] kind = "backup" -> <<c.dk>>
      [] kind = "ingress" -> <<c.dk, c.measurement, c.chain_id, c.env, c.manifest, c.backup>>
      [] kind = "proof" -> <<c.chain_id, c.env, c.measurement, c.tail>>

-----------------------------------------------------------------------------
(* Carriers: containers without a secret *)

Frames ==
    [get_measurement |-> 1, sign_authorization_ticket |-> 16, arm_for_production |-> 32,
     get_status |-> 48, agent_gateway |-> 64, boot_request |-> 65, marks_request |-> 68,
     commit_request |-> 69, sign_block_root |-> 80]

Provisions == [m1 |-> 1, m2 |-> 2, m3 |-> 3, m4 |-> 4]

\* The length counts the version, the type and the payload.
FrameFits(payload) == 2 + Len(payload) <= MAX_MESSAGE_SIZE

encode_message(type, payload) == lp32(<<PROTOCOL_VERSION, type>> \o payload)

\* Readings of a frame: [type, payload].
decode_message(buf) ==
    {[type |-> r.val.body[2], payload |-> SubSeq(r.val.body, 3, Len(r.val.body))] :
       r \in {m \in Readings(buf, <<Prefixed("body", 4, 2 .. MAX_MESSAGE_SIZE)>>) :
                /\ m.val.body[1] = PROTOCOL_VERSION
                /\ m.val.body[2] \in {Frames[f] : f \in DOMAIN Frames}}}

HandshakeReportData(d) ==
    Hash(REPORT_DATA_LEN, anchor_handshake_report_data(
        [chain_id |-> d[2].v, env |-> d[3].v, nonce |-> d[4].v]))

encode_envelope(type, payload) == Magic("provision") \o <<1, type>> \o payload

\* What a frame, or the envelope of a provisioning message (decode_envelope), carries.
Payloads(kind, buf) ==
    IF kind \in Requests THEN {m.payload : m \in {f \in decode_message(buf) : f.type = Frames[kind]}}
    ELSE {r.val.payload : r \in Readings(buf, <<OneOf("magic", 2, {Magic("provision")}),
                                                OneOf("version", 1, {<<1>>}),
                                                OneOf("type", 1, {<<Provisions[kind]>>}),
                                                Rest("payload", Nat)>>)}

\* decode_anchor_boot_request, decode_anchor_marks_request, decode_anchor_commit_request;
\* a provisioning message has no version of its own.
MessageReadings(kind, buf) ==
    {d \in UNION {Parse(kind, p) : p \in Payloads(kind, buf)} :
       kind \in Requests =>
          /\ VersionOk(kind, d)
          /\ kind = "boot_request" => d[5].v = HandshakeReportData(d)}

\* The reply of the quote child.
encode_child(reply) ==
    IF reply.ok THEN <<161>> \o lp32(reply.report) \o lp32(reply.chain)
    ELSE <<162, reply.code>>

ChildParts(ok) ==
    IF ok THEN <<OneOf("status", 1, {<<161>>}),
                 Prefixed("report", 4, MIN_REPORT_LEN .. MAX_OUTBLOB_LEN),
                 Prefixed("chain", 4, 0 .. MAX_CERT_CHAIN_LEN)>>
    ELSE <<OneOf("status", 1, {<<162>>}), Block("code", 1)>>

parse_child_frame(buf) ==
    LET quote == ReadParts(buf, ChildParts(TRUE))
    IN  IF quote.st # "bad" THEN quote ELSE ReadParts(buf, ChildParts(FALSE))

ChildReadings(buf) ==
    {IF r.val.status = <<161>> THEN [ok |-> TRUE, report |-> r.val.report, chain |-> r.val.chain]
     ELSE [ok |-> FALSE, code |-> r.val.code[1]] :
       r \in {m \in {parse_child_frame(buf)} : m.st = "ok"}}

\* build_restore_ingress_payload and parse_restore_ingress; the body is serde's.
RestorePayload(body) == Magic("restore_payload") \o <<0, 1>> \o body

RestoreReadings(buf) ==
    {r.val.body : r \in Readings(buf, <<OneOf("magic", 2, {Magic("restore_payload")}),
                                        OneOf("version", 2, {<<0, 1>>}), Rest("body", Nat)>>)}

Carriers == Requests \cup DOMAIN Provisions \cup {"child", "restore_payload"}

Carry(kind, x) ==
    CASE kind \in Requests -> encode_message(Frames[kind], WireOf(x))
      [] kind \in DOMAIN Provisions -> encode_envelope(Provisions[kind], WireOf(x))
      [] kind = "child" -> encode_child(x)
      [] kind = "restore_payload" -> RestorePayload(x)

ReadCarrier(kind, buf) ==
    CASE kind \in Requests \cup DOMAIN Provisions -> MessageReadings(kind, buf)
      [] kind = "child" -> ChildReadings(buf)
      [] kind = "restore_payload" -> RestoreReadings(buf)
=============================================================================
