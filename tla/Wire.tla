-------------------------------- MODULE Wire --------------------------------
(***************************************************************************)
(* The messages of the producer enclave (wire.rs): CBOR maps with integer  *)
(* keys.  A CBOR value is tagged with its type; a map is a function from   *)
(* keys to values.  Optional fields are sequences of length at most one.   *)
(* ciborium between values and bytes is external.                          *)
(***************************************************************************)
EXTENDS Naturals, Sequences

CONSTANTS
    PROTOCOL_VERSION,
    HASH_LEN,           \* 32
    MAX_U8,             \* 255
    MAX_U32             \* 2^32 - 1

ASSUME WireAssumption ==
    PROTOCOL_VERSION \in 0 .. MAX_U8 /\ HASH_LEN \in Nat /\ MAX_U8 \in Nat /\ MAX_U32 \in Nat

Num(v) == [t |-> "int", v |-> v]
Blob(v) == [t |-> "bytes", v |-> v]
Text(v) == [t |-> "text", v |-> v]
Bool(v) == [t |-> "bool", v |-> v]
Map(v) == [t |-> "map", v |-> v]
List(v) == [t |-> "array", v |-> v]
Null == [t |-> "null"]

-----------------------------------------------------------------------------
(* Fields: the CBOR value a field is written as, and what its reader takes. *)

\* The inner maps: field types by key.
StateFields == <<"bytes", "bytes", "u64", "hash">>
ProofFields == <<"u64", "hash", "hashes", "bytes", "opt_bytes">>
TicketFields == <<"u8", "u64", "hash", "u64", "bytes", "bytes", "opt_hash", "opt_u32">>

\* GeneratedKey and RestoredKeyIdentity, one map for each key of a reply.
KeyFields ==
    [ generated |-> <<"bytes", "bytes", "bytes", "text", "u64">>,
      restored  |-> <<"bytes", "bytes", "u64">> ]

InnerFields == [state |-> StateFields, proof |-> ProofFields, ticket |-> TicketFields]

\* Arrays of plain values.
Elements == [hashes |-> "hash", u8s |-> "u8"]

PutOne(type, x) ==
    CASE type = "version" -> Num(PROTOCOL_VERSION)
      [] type \in {"u8", "u64"} -> Num(x)
      [] type \in {"bytes", "hash", "late_bytes"} -> Blob(x)
      [] type = "bool" -> Bool(x)
      [] type = "text" -> Text(x)
      [] type \in {"opt_u64", "opt_u32"} -> IF x = << >> THEN Null ELSE Num(x[1])
      [] type \in {"opt_hash", "opt_bytes"} -> IF x = << >> THEN Null ELSE Blob(x[1])

PutFlat(type, x) ==
    IF type \in DOMAIN Elements
    THEN List([i \in DOMAIN x |-> PutOne(Elements[type], x[i])])
    ELSE PutOne(type, x)

\* The encoder of a ticket adds an empty ninth entry.
Put(type, x) ==
    CASE type \in DOMAIN KeyFields -> List([i \in DOMAIN x |->
            Map([k \in DOMAIN KeyFields[type] |-> PutFlat(KeyFields[type][k], x[i][k])])])
      [] type \in {"state", "proof"} ->
            Map([k \in DOMAIN InnerFields[type] |-> PutFlat(InnerFields[type][k], x[k])])
      [] type = "ticket" ->
            Map([k \in 1 .. 9 |-> IF k = 9 THEN Null ELSE PutFlat(TicketFields[k], x[k])])
      [] OTHER -> PutFlat(type, x)

\* value_to_*: does the reader of a field take the value?
TakesOne(type, c) ==
    CASE type = "version" -> c.t = "int" /\ c.v = PROTOCOL_VERSION
      [] type = "u64" -> c.t = "int"
      [] type = "u8" -> c.t = "int" /\ c.v <= MAX_U8
      [] type \in {"bytes", "late_bytes"} -> c.t = "bytes" \/ (type = "late_bytes" /\ c.t = "null")
      [] type = "hash" -> c.t = "bytes" /\ Len(c.v) = HASH_LEN
      [] type = "bool" -> c.t = "bool"
      [] type = "text" -> c.t = "text"
      [] type = "opt_u64" -> c.t \in {"null", "int"}
      [] type = "opt_u32" -> c.t = "null" \/ (c.t = "int" /\ c.v <= MAX_U32)
      [] type = "opt_hash" -> c.t = "null" \/ (c.t = "bytes" /\ Len(c.v) = HASH_LEN)
      [] type = "opt_bytes" -> c.t \in {"null", "bytes"}

TakesFlat(type, c) ==
    IF type \in DOMAIN Elements
    THEN c.t = "array" /\ \A i \in DOMAIN c.v : TakesOne(Elements[type], c.v[i])
    ELSE TakesOne(type, c)

Takes(type, c) ==
    IF type \in DOMAIN InnerFields
    THEN c.t = "map" /\ \A k \in DOMAIN InnerFields[type] :
            k \in DOMAIN c.v /\ TakesFlat(InnerFields[type][k], c.v[k])
    ELSE TakesFlat(type, c)

GetFlat(type, c) ==
    CASE type \in DOMAIN Elements -> [i \in DOMAIN c.v |-> c.v[i].v]
      [] type \in {"opt_u64", "opt_u32", "opt_hash", "opt_bytes"} ->
            IF c.t = "null" THEN << >> ELSE <<c.v>>
      [] type = "late_bytes" -> IF c.t = "null" THEN << >> ELSE c.v
      [] OTHER -> c.v

Get(type, c) ==
    IF type \in DOMAIN InnerFields
    THEN [k \in DOMAIN InnerFields[type] |-> GetFlat(InnerFields[type][k], c.v[k])]
    ELSE GetFlat(type, c)

\* The values a program's field can have.
ScalarOf(type) ==
    CASE type = "version" -> {PROTOCOL_VERSION}
      [] type = "u8" -> 0 .. MAX_U8
      [] type = "u64" -> Nat
      [] type \in {"bytes", "late_bytes"} -> Seq(Nat)
      [] type = "hash" -> [1 .. HASH_LEN -> Nat]
      [] type = "bool" -> BOOLEAN
      [] type = "text" -> STRING
      [] type = "opt_u64" -> {x \in Seq(Nat) : Len(x) <= 1}
      [] type = "opt_u32" -> {x \in Seq(0 .. MAX_U32) : Len(x) <= 1}
      [] type = "opt_hash" -> {x \in Seq([1 .. HASH_LEN -> Nat]) : Len(x) <= 1}
      [] type = "opt_bytes" -> {x \in Seq(Seq(Nat)) : Len(x) <= 1}

FlatOf(type) == IF type \in DOMAIN Elements THEN Seq(ScalarOf(Elements[type])) ELSE ScalarOf(type)

\* x has a value for each of the types.
WellTyped(types, x) ==
    /\ x = [k \in DOMAIN types |-> x[k]]
    /\ \A k \in DOMAIN types :
          IF types[k] \in DOMAIN InnerFields
          THEN LET inner == InnerFields[types[k]] IN
               /\ x[k] = [j \in DOMAIN inner |-> x[k][j]]
               /\ \A j \in DOMAIN inner : x[k][j] \in FlatOf(inner[j])
          ELSE x[k] \in FlatOf(types[k])

-----------------------------------------------------------------------------
(* Messages: the types of keys 1, 2, ... of each map *)

Schema ==
    [ measurement_request  |-> <<"version">>,
      measurement_response |-> <<"version", "bytes", "bytes", "bytes", "u8s", "bool", "late_bytes">>,
      status_request       |-> <<"version">>,
      status_response      |-> <<"version", "bool", "bytes", "bytes", "opt_u64", "opt_u64",
                                 "opt_hash", "opt_u64", "opt_u64">>,
      arm_request          |-> <<"version", "state", "proof">>,
      ticket_request       |-> <<"version", "ticket">>,
      ticket_response      |-> <<"version", "bytes", "hash">>,
      block_request        |-> <<"version", "hash">>,
      block_response       |-> <<"version", "bytes", "hash">> ]

Responses == {"measurement_response", "status_response", "ticket_response", "block_response"}

\* encode_*: every encoder writes PROTOCOL_VERSION itself.
EncodeMessage(m, x) == Map([k \in DOMAIN Schema[m] |-> Put(Schema[m][k], x[k])])

\* The keys a decoder requires: key 7 of a measurement response may be absent
\* (images that do not know cert_chain).
Required(m) ==
    {k \in DOMAIN Schema[m] : Schema[m][k] # "late_bytes"}

DecodesMessage(m, c) ==
    /\ c.t = "map"
    /\ Required(m) \subseteq DOMAIN c.v
    /\ \A k \in DOMAIN Schema[m] \cap DOMAIN c.v : Takes(Schema[m][k], c.v[k])

DecodeMessage(m, c) ==
    [k \in DOMAIN Schema[m] |->
        IF k \in DOMAIN c.v THEN Get(Schema[m][k], c.v[k]) ELSE << >>]

-----------------------------------------------------------------------------
(* Errors and the arm response, which share their keys with the successes *)

encode_wire_error(code, reason) == Map(<<Num(code), Text(reason)>>)

\* Mutant: the code alone marks an error.
BugIsWireError(c) == c.t = "map" /\ 1 \in DOMAIN c.v /\ c.v[1].t = "int"

is_wire_error_payload(c) ==
    c.t = "map" /\ {1, 2} \subseteq DOMAIN c.v /\ c.v[1].t = "int" /\ c.v[2].t = "text"

encode_arm_for_production_response(status, reason) ==
    IF status = "armed" THEN Map(<<Text("armed")>>)
    ELSE encode_wire_error(2, IF reason = << >> THEN "ARM_FOR_PRODUCTION refused" ELSE reason[1])

\* A map that does not say "armed" is a refusal.
decode_arm_for_production_response(c) ==
    CASE 1 \in DOMAIN c.v /\ c.v[1].t = "text" /\ c.v[1].v = "armed" ->
            [status |-> "armed", reason |-> << >>]
      [] 2 \in DOMAIN c.v /\ c.v[2].t = "text" -> [status |-> "refused", reason |-> <<c.v[2].v>>]
      [] OTHER -> [status |-> "refused", reason |-> <<"arm refused">>]

-----------------------------------------------------------------------------
(* The replies of the agent gateway (agent_dispatch.rs); its hosts read them *)

SignedTransfer == <<"bytes", "bytes", "bytes", "u64", "u64", "bytes", "bytes">>

AgentSchema ==
    [ public_identity      |-> <<"bytes", "bytes", "text", "bytes", "u64", "u64">>,
      prove_identity       |-> <<"bytes", "bytes", "u64", "bytes", "bytes">>,
      sign_transfer        |-> SignedTransfer,
      get_restore_pubkey   |-> <<"bytes", "bytes", "bytes", "bytes">>,
      generate_keys        |-> <<"generated", "bytes">>,
      sign_faucet_dispense |-> Append(SignedTransfer, "bytes"),
      configure_treasury   |-> <<"bytes">>,
      export_backup        |-> <<"bytes", "bytes">>,
      restore_backup       |-> <<"bytes", "bytes", "restored", "bytes", "bytes">> ]

\* The operations that commit are encoded by the frame layer, which has the sealed blob;
\* they do not reach the generic encoder's arms for them, which answer an error.
encode_agent_response(op, x) ==
    Map([k \in DOMAIN AgentSchema[op] |-> Put(AgentSchema[op][k], x[k])])

AgentErrorCode ==
    [ malformed |-> 64, wrong_profile |-> 65, key_purpose_mismatch |-> 66,
      capability_rejected |-> 67, cap_exceeded |-> 68, not_configured |-> 69, seal_failed |-> 70 ]

\* The text names the code and nothing else.
encode_agent_error(e) == encode_wire_error(AgentErrorCode[e], e)
=============================================================================
