----------------------------- MODULE SignedDocs -----------------------------
(***************************************************************************)
(* The CBOR documents of the agent gateway: the anchor's freshness reply,  *)
(* marks reply and commit ack (agent_anchor.rs), the operator's capability *)
(* (agent_capability.rs), the four messages of the provisioning ceremony   *)
(* and the configuration inside the third (agent_provision.rs), and the    *)
(* three requests to the anchor (agent_boot_relay.rs).  Each is a map with *)
(* integer keys; five kinds hold in one key the signature over a domain    *)
(* and other keys.  A document is a function from keys to values of module *)
(* Cbor; signatures are ideal.                                             *)
(***************************************************************************)
EXTENDS Cbor

CONSTANTS
    ML_KEM_1024_ENCAPS_KEY_LEN,
    SNP_REPORT_LEN,         \* the report in M2, exactly
    MAX_PROV_PAYLOAD_LEN,   \* M1 and M3
    MAX_CONFIG_MAP_LEN,
    MAX_PROV_CERT_LEN,
    MAX_KEYSTORE_BLOB_SIZE, \* the blob in M4
    MAX_QUOTE_REPORT_LEN,   \* the report in a boot request
    MAX_CERT_CHAIN_LEN,
    MAX_MESSAGE_SIZE,       \* a frame
    REPORT_DATA_LEN,        \* 64
    IssuedCerts             \* certificates of the provisioner's key that pass the CA's check

ASSUME SignedDocsAssumption ==
    /\ MAX_STR_LEN <= MAX_PROV_PAYLOAD_LEN /\ MAX_PROV_PAYLOAD_LEN <= MAX_MESSAGE_SIZE
    /\ MAX_CONFIG_MAP_LEN <= MAX_PROV_PAYLOAD_LEN /\ MAX_PROV_CERT_LEN <= MAX_PROV_PAYLOAD_LEN
    /\ MAX_KEYSTORE_BLOB_SIZE <= MAX_MESSAGE_SIZE
    /\ ML_KEM_1024_ENCAPS_KEY_LEN \in 0 .. MAX_STR_LEN /\ SNP_REPORT_LEN \in Nat
    /\ MAX_QUOTE_REPORT_LEN \in Nat /\ MAX_CERT_CHAIN_LEN \in Nat /\ REPORT_DATA_LEN \in Nat

-----------------------------------------------------------------------------
(* What the parsers ask of a key: its type, and the values of a number or   *)
(* the lengths of a string.                                                 *)

Rule(t, ok) == [t |-> t, ok |-> ok]

AnyUint == Rule("uint", Nat)
AnyText == Rule("text", Nat)
AnyBytes == Rule("bytes", Nat)
Exactly(n) == Rule("bytes", {n})
AtMost(n) == Rule("bytes", 0 .. n)

Fits(rule, x) ==
    /\ x.t = rule.t
    /\ x.t = "uint" => x.v \in rule.ok
    /\ x.t \in {"bytes", "text"} => Len(x.v) \in rule.ok

Hash32 == Exactly(DIGEST_LEN)
Signature == Exactly(SIG_LEN)

\* The anchor signs its replies in key 13.
Signed13(rules) == [k \in DOMAIN rules \cup {13} |-> IF k = 13 THEN Signature ELSE rules[k]]

FreshnessKeys ==
    Signed13(<<AnyUint, AnyUint, AnyText, AnyUint, AnyUint, Hash32, Hash32, AnyUint, Hash32>>)

MarksKeys == Signed13(<<AnyUint, AnyUint, AnyText, AnyUint, Hash32, AnyBytes>>)

AckKeys ==
    Signed13(<<AnyUint, AnyUint, AnyText, AnyUint, AnyUint, Hash32, Hash32,
               AtMost(MAX_REQUEST_ID_LEN)>>)

\* Opcode, sub-op, key purpose and scope class are numbers of their enums.
CapabilityKeys ==
    <<AnyUint, Rule("uint", {1, 6, 7, 8}), Rule("uint", 0 .. 3), Rule("uint", 1 .. 2), AnyUint,
      AnyText, Rule("uint", 0 .. 1), AnyBytes, AnyUint, AtMost(MAX_REQUEST_ID_LEN), Hash32,
      Rule("bool", BOOLEAN), Hash32, Signature>>

M1Keys == <<Hash32>>

M2Keys == <<Hash32, Exactly(SNP_REPORT_LEN)>>

M3Keys ==
    <<AtMost(MAX_CONFIG_MAP_LEN), Hash32, Hash32, Hash32, Signature, AtMost(MAX_PROV_CERT_LEN)>>

M4Keys == <<AtMost(MAX_KEYSTORE_BLOB_SIZE)>>

ConfigKeys ==
    <<AnyUint, AnyText, Hash32, Hash32, Exactly(ML_KEM_1024_ENCAPS_KEY_LEN), Hash32, Hash32>>

BootRequestKeys ==
    <<AnyUint, AnyUint, AnyText, Hash32, Exactly(REPORT_DATA_LEN), AtMost(MAX_QUOTE_REPORT_LEN),
      AtMost(MAX_CERT_CHAIN_LEN)>>

MarksRequestKeys == <<AnyUint, AnyUint, AnyText, Hash32, AnyUint>>

CommitRequestKeys ==
    <<AnyUint, AnyUint, AnyText, AnyUint, AnyUint, Hash32, Hash32, AtMost(MAX_REQUEST_ID_LEN)>>

Keys ==
    [freshness |-> FreshnessKeys, marks |-> MarksKeys, ack |-> AckKeys,
     capability |-> CapabilityKeys,
     m1 |-> M1Keys, m2 |-> M2Keys, m3 |-> M3Keys, m4 |-> M4Keys, config |-> ConfigKeys,
     boot_request |-> BootRequestKeys, marks_request |-> MarksRequestKeys,
     commit_request |-> CommitRequestKeys]

Requests == {"boot_request", "marks_request", "commit_request"}

SignedKinds == {"freshness", "marks", "ack", "capability", "m3"}

OptionalKeys(kind) ==
    CASE kind = "freshness" -> {8, 9}
      [] kind = "capability" -> {3}
      [] OTHER -> {}

-----------------------------------------------------------------------------
(* What the parsers ask beyond types and lengths *)

LabelChars == 97 .. 122 \cup 48 .. 57

is_valid_scope_target(b) ==
    Len(b) \in 1 .. 64 /\ \A i \in DOMAIN b : b[i] \in LabelChars \cup {95, 45}

is_valid_environment_identifier(b) ==
    /\ Len(b) \in 1 .. 64
    /\ \A i \in DOMAIN b : b[i] \in LabelChars \cup {45}
    /\ b[1] # 45 /\ b[Len(b)] # 45
    /\ \A i \in 1 .. Len(b) - 1 : <<b[i], b[i + 1]>> # <<45, 45>>

\* The zero id and the test fixture 0xf1 are no fleet.
NoFleet == {[i \in 1 .. DIGEST_LEN |-> b] : b \in {0, 241}}

\* Height and hash together; a sub-op iff CONFIGURE_TREASURY; names well formed.
Consistent(kind, d) ==
    CASE kind = "freshness" -> 8 \in DOMAIN d <=> 9 \in DOMAIN d
      [] kind = "capability" ->
            /\ 3 \in DOMAIN d <=> d[2].v = 6
            /\ is_valid_environment_identifier(d[6].v) /\ is_valid_scope_target(d[8].v)
      [] kind = "config" -> is_valid_environment_identifier(d[2].v) /\ d[7].v \notin NoFleet
      [] OTHER -> TRUE

-----------------------------------------------------------------------------
(* The parsers over a decoded map *)

\* Every key an allowed integer, none repeated; `rules` are the Keys of the kind.
check_strict_keys(rules, pairs) ==
    /\ \A i \in DOMAIN pairs : pairs[i][1].t = "uint" /\ pairs[i][1].v \in DOMAIN rules
    /\ \A i, j \in DOMAIN pairs : pairs[i][1].v = pairs[j][1].v => i = j

\* map_get on the keys check_strict_keys let through.
Fields(pairs) ==
    [k \in {pairs[i][1].v : i \in DOMAIN pairs} |->
        pairs[CHOOSE i \in DOMAIN pairs : pairs[i][1].v = k][2]]

\* M2, M3 and M4 raise the reader's cap so that their own checks see the length.
ReaderOf(kind) ==
    CASE kind = "m3" -> Strict(MAX_PROV_PAYLOAD_LEN)
      [] kind \in {"m2", "m4"} -> Strict(MAX_MESSAGE_SIZE)
      [] kind \in Requests -> Lenient(MAX_MESSAGE_SIZE)
      [] OTHER -> Strict(MAX_STR_LEN)

PayloadFits(kind, buf) == kind \in {"m1", "m3"} => Len(buf) <= MAX_PROV_PAYLOAD_LEN

\* A parser gives the set of documents it reads: one, or none when it refuses.
ParseMap(kind, rules, buf) ==
    {d \in {Fields(r.val.v) : r \in {m \in {DecodeMap(buf, ReaderOf(kind))} :
                                       m.ok /\ check_strict_keys(rules, m.val.v)}} :
       /\ PayloadFits(kind, buf)
       /\ DOMAIN rules \ OptionalKeys(kind) \subseteq DOMAIN d
       /\ \A k \in DOMAIN d : Fits(rules[k], d[k])
       /\ Consistent(kind, d)}

-----------------------------------------------------------------------------
(* strict_decode_marks_response and strict_decode_commit_ack: keys by position *)

\* The keys of a document, ascending; none is above 14.
KeySeq(K) ==
    LET upto[n \in 0 .. 14] ==
          IF n = 0 THEN << >> ELSE IF n \in K THEN Append(upto[n - 1], n) ELSE upto[n - 1]
    IN  upto[14]

\* The head of the map, then each key before its value.
Positional(rules) ==
    LET keys == KeySeq(DOMAIN rules)
        Value(k) == <<<<k>>, rules[k].t, rules[k].ok>>
    IN  [i \in 1 .. 2 * Len(keys) + 1 |->
            CASE i = 1 -> <<<< >>, "map", {Len(keys)}>>
              [] i # 1 /\ i % 2 = 0 -> Key(keys[i \div 2])
              [] OTHER -> Value(keys[i \div 2])]

ParsePositional(rules, buf) ==
    {r.val : r \in {m \in {typed_list(buf, Positional(rules))[1]} : Whole(buf, m)}}

Parse(kind, buf) ==
    UNION {IF kind \in {"marks", "ack"} THEN ParsePositional(rules, buf)
                                         ELSE ParseMap(kind, rules, buf) : rules \in {Keys[kind]}}

-----------------------------------------------------------------------------
(* Signing and verifying *)

SigKey(kind) ==
    CASE kind = "capability" -> 14
      [] kind = "m3" -> 5
      [] OTHER -> 13

\* The signature domains: no one is a prefix of another (all end in NUL).
Domain(kind) ==
    <<[freshness |-> 256, marks |-> 257, ack |-> 258, capability |-> 259, m3 |-> 260][kind]>>

\* A map of the document's keys in K, ascending.
PutMap(d, K) ==
    LET keys == KeySeq(K)
    IN  put_uint(5, Len(keys))
          \o FlattenSeq([i \in DOMAIN keys |-> put_uint(0, keys[i]) \o put_value(d[keys[i]])])

\* Mutant: the last signed field is left out of what is signed.
BugSignedKeys(kind, d) ==
    DOMAIN d \ {SigKey(kind), IF kind = "ack" THEN 8 ELSE SigKey(kind)}

\* M3 is signed over its transcript, keys 1 to 4: not over the certificate.
SignedKeys(kind, d) == DOMAIN d \ (IF kind = "m3" THEN {5, 6} ELSE {SigKey(kind)})

\* signed_preimage, marks_resp_signed_preimage, commit_ack_signed_preimage,
\* sig_prov_signed_bytes.
Preimage(kind, d) == Domain(kind) \o PutMap(d, SignedKeys(kind, d))

WireOf(d) == PutMap(d, DOMAIN d)

\* Key 1 of an M3 is its configuration, not a version.
VersionOk(kind, d) ==
    CASE kind = "m3" -> TRUE
      [] kind = "capability" -> d[1].v = 2
      [] OTHER -> d[1].v = 1

CertOk(kind, d) == kind = "m3" => d[6].v \in IssuedCerts

\* verify_*: the signature in `buf` is the one made over `signed`, which it can
\* verify only for the very same preimage.
Accepts(kind, buf, signed, sig) ==
    \E d \in Parse(kind, buf) :
        /\ VersionOk(kind, d) /\ CertOk(kind, d)
        /\ d[SigKey(kind)].v = sig
        /\ Preimage(kind, d) = signed

\* The documents that say the same under the same signature: M3s that differ in the
\* certificate of the one key.
SameSigned(kind, d) ==
    IF kind = "m3" THEN {[d EXCEPT ![6].v = c] : c \in IssuedCerts} ELSE {d}
=============================================================================
