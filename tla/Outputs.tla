------------------------------ MODULE Outputs ------------------------------
(***************************************************************************)
(* What the gateway and the producer enclave make of values of their own:  *)
(* the bytes they sign, hash or attest (Preimages), the treasury's sums    *)
(* and products (Preimages) and the messages and errors they send (Wire).  *)
(* Every step takes one value through the code; `job` is what was made.    *)
(***************************************************************************)
EXTENDS Preimages, Wire

CONSTANTS
    FormInputs,     \* form -> inputs of its preimage
    Numbers,        \* pairs of byte strings of one length
    Factors,        \* multipliers
    Values,         \* message -> sequences of field values
    AgentValues,    \* operation of the gateway -> the same for its reply
    Reasons         \* texts of errors

ASSUME OutputsAssumption ==
    /\ DOMAIN FormInputs = Forms
    /\ \A f \in Forms : \A x \in FormInputs[f] : x \in Inputs(f)
    /\ \A p \in Numbers : p[1] \in Seq(u8) /\ p[2] \in Seq(u8) /\ Len(p[1]) = Len(p[2])
    /\ \A n \in Factors : n \in u64
    /\ DOMAIN Values = DOMAIN Schema
    /\ \A m \in DOMAIN Schema : \A x \in Values[m] : WellTyped(Schema[m], x)
    /\ DOMAIN AgentValues = DOMAIN AgentSchema

VARIABLE job

Idle == [step |-> "idle"]

OutputInit == job = Idle

-----------------------------------------------------------------------------
(* Steps: what the program signs, hashes, adds up or sends. *)

SignBytes ==
    /\ job.step = "idle"
    /\ \E f \in Forms : \E x \in FormInputs[f] : job' = [step |-> "sign", form |-> f, input |-> x]

Account ==
    /\ job.step = "idle"
    /\ \E p \in Numbers, n \in Factors : job' = [step |-> "account", a |-> p[1], b |-> p[2], n |-> n]

SendMessage ==
    /\ job.step = "idle"
    /\ \E m \in DOMAIN Schema : \E x \in Values[m] :
          job' = [step |-> "message", m |-> m, x |-> x, wire |-> EncodeMessage(m, x)]

\* A peer on the older schema leaves cert_chain out of its measurement.
OldPeerSends ==
    /\ job.step = "idle"
    /\ \E x \in Values["measurement_response"] :
          LET new == EncodeMessage("measurement_response", x)
              req == Required("measurement_response")
          IN  job' = [step |-> "message", m |-> "measurement_response",
                      x |-> [x EXCEPT ![7] = << >>],
                      wire |-> [new EXCEPT !.v = [k \in req |-> new.v[k]]]]

SendError ==
    /\ job.step = "idle"
    /\ \E code \in 0 .. PROTOCOL_VERSION + 1, reason \in Reasons :
          job' = [step |-> "error", wire |-> encode_wire_error(code, reason)]

SendArm ==
    /\ job.step = "idle"
    /\ \E s \in {"armed", "refused"}, r \in {<< >>} \cup {<<x>> : x \in Reasons} :
          job' = [step |-> "arm", status |-> s, reason |-> r,
                  wire |-> encode_arm_for_production_response(s, r)]

AgentReplies ==
    /\ job.step = "idle"
    /\ \E op \in DOMAIN AgentSchema : \E x \in AgentValues[op] :
          job' = [step |-> "reply", op |-> op, x |-> x, wire |-> encode_agent_response(op, x)]

AgentRefuses ==
    /\ job.step = "idle"
    /\ \E e \in DOMAIN AgentErrorCode : job' = [step |-> "error", wire |-> encode_agent_error(e)]

NextJob == job.step # "idle" /\ job' = Idle

OutputNext ==
    \/ SignBytes \/ Account
    \/ SendMessage \/ OldPeerSends \/ SendError \/ SendArm
    \/ AgentReplies \/ AgentRefuses
    \/ NextJob

OutputSpec == OutputInit /\ [][OutputNext]_job

-----------------------------------------------------------------------------
(* Properties *)

\* The bytes of every form and input, computed once.
Signed == [f \in Forms |-> [x \in FormInputs[f] |-> Bytes(f, x)]]

\* No two inputs of the forms one key signs, or one field carries, give the same
\* bytes: what was signed for one request can be used for no other.
\* (unsigned_preimage, identity_proof_preimage, compute_canonical_ticket_hash, the
\* backup and ingress headers, the report data)
SignedBytesDetermineInputs ==
    job.step = "sign" =>
        \A s \in {Signed}, f \in {g \in Forms : Bearer(g) = Bearer(job.form)} :
            \A x \in FormInputs[f] :
                s[f][x] = s[job.form][job.input] => f = job.form /\ x = job.input

\* 256 to the power n.
Weight(n) ==
    LET weight[k \in 0 .. n] == IF k = 0 THEN 1 ELSE 256 * weight[k - 1]
    IN  weight[n]

\* The treasury's 256-bit sums and products are the integers', or refused when they
\* do not fit.  (checked_add, checked_mul_u64)
ArithmeticExact ==
    job.step = "account" =>
        LET Exact(r, v) ==
              IF v < Weight(Len(job.a)) THEN r.ok /\ BeVal(r.v) = v ELSE ~ r.ok
        IN  /\ Exact(checked_add(job.a, job.b), BeVal(job.a) + BeVal(job.b))
            /\ Exact(checked_mul_u64(job.a, job.n), BeVal(job.a) * job.n)

\* A message is read back as it was sent, and no reply can be read both as an error
\* and as a success, although errors and successes share their keys; so a peer of the
\* gateway is given more idle time by every success and by no error.
\* (encode_*, decode_*, encode_agent_response, encode_agent_error, is_wire_error_payload,
\* reply_resets_idle)
ErrorOrSuccess ==
    /\ job.step = "message" =>
          /\ DecodesMessage(job.m, job.wire) /\ DecodeMessage(job.m, job.wire) = job.x
          /\ job.m \in Responses => ~ is_wire_error_payload(job.wire)
    /\ job.step = "reply" => ~ is_wire_error_payload(job.wire)
    /\ job.step = "error" =>
          /\ is_wire_error_payload(job.wire)
          /\ \A m \in Responses : ~ DecodesMessage(m, job.wire)
    /\ job.step = "arm" =>
          /\ is_wire_error_payload(job.wire) <=> job.status = "refused"
          /\ decode_arm_for_production_response(job.wire).status = job.status
          /\ job.status = "refused" /\ job.reason # << >> =>
                decode_arm_for_production_response(job.wire).reason = job.reason
=============================================================================
