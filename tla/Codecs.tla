------------------------------- MODULE Codecs -------------------------------
(***************************************************************************)
(* What the byte formats of the gateway and of the producer enclave must   *)
(* keep apart.  Every step takes one input from the untrusted host, or one *)
(* value of the program, through the encoders and readers of Cbor,         *)
(* SignedDocs, Preimages, Wire and Envelopes, or an attestation through    *)
(* its verifier; `job` is what is being read or signed.                    *)
(***************************************************************************)
EXTENDS Outputs, Envelopes, Attestation

CONSTANTS
    ALPHABET,       \* bytes of the host's own buffers, and of its edits
    MAX_BUF,        \* longest such buffer
    Docs,           \* signed documents: [kind, doc]
    RowSets,        \* sets of counter rows
    Sealings,       \* sealed containers: [kind, seal]
    Contexts,       \* contexts of their readers
    Carried,        \* messages in carriers: [kind, msg]
    Presented       \* attestations: [report, vcek, chain, cli]

ASSUME CodecsAssumption ==
    /\ ALPHABET \subseteq 0 .. 255 /\ MAX_BUF \in Nat
    /\ \A r \in Docs : r.kind \in DOMAIN Keys
    /\ \A r \in Sealings : r.kind \in SealedKinds /\ r.seal.ctx \in Contexts
    /\ \A r \in Carried : r.kind \in Carriers

-----------------------------------------------------------------------------
(* The encoder of any value, by which the strict reader is judged *)

RECURSIVE Encode(_)
Encode(x) ==
    CASE x.t = "array" -> put_uint(4, Len(x.v))
            \o FlattenSeq([i \in DOMAIN x.v |-> Encode(x.v[i])])
      [] x.t = "map" ->
            LET pairs == {<<Encode(x.v[i][1]), Encode(x.v[i][2])>> : i \in DOMAIN x.v}
                sorted == SetToSortSeq(pairs, LAMBDA p, q : LexLess(p[1], q[1]))
            IN  put_uint(5, Len(sorted))
                  \o FlattenSeq([i \in DOMAIN sorted |-> sorted[i][1] \o sorted[i][2]])
      [] OTHER -> put_value(x)

Init == OutputInit

-----------------------------------------------------------------------------
(* Host bytes *)

\* The host writes any map of its own, a byte at a time.
HostBegins ==
    /\ job.step = "idle"
    /\ \E b \in ALPHABET : b \div 32 = 5 /\ job' = [step |-> "buffer", buf |-> <<b>>]

HostAppends ==
    /\ job.step = "buffer" /\ Len(job.buf) < MAX_BUF
    /\ \E b \in ALPHABET : job' = [job EXCEPT !.buf = Append(@, b)]

\* One byte replaced, removed or inserted.
Edits(buf) ==
         {[buf EXCEPT ![i] = b] : i \in DOMAIN buf, b \in ALPHABET}
    \cup {RemoveAt(buf, i) : i \in DOMAIN buf}
    \cup {InsertAt(buf, i, b) : i \in 1 .. Len(buf) + 1, b \in ALPHABET}

\* The fields of a document rearranged: two swapped, one dropped, one repeated.
Rearranged(d) ==
    LET keys == KeySeq(DOMAIN d)
        Put1(k) == put_uint(0, k) \o put_value(d[k])
        Whole1(ks) == put_uint(5, Len(ks)) \o FlattenSeq([i \in DOMAIN ks |-> Put1(ks[i])])
    IN  {Whole1([keys EXCEPT ![i] = keys[i + 1], ![i + 1] = keys[i]]) : i \in 1 .. Len(keys) - 1}
          \cup {Whole1(RemoveAt(keys, i)) : i \in DOMAIN keys}
          \cup {Whole1(InsertAt(keys, i, keys[i])) : i \in DOMAIN keys}

\* The anchor, the operator, the provisioner or the guest writes a document, signed
\* or not, and the host carries it.
DocumentSigned ==
    /\ job.step = "idle"
    /\ \E r \in Docs :
          job' = [step |-> "document", kind |-> r.kind, doc |-> r.doc, buf |-> WireOf(r.doc)]

HostEditsDocument ==
    /\ job.step = "document" /\ job.buf = WireOf(job.doc)
    /\ \E b \in Edits(job.buf) \cup Rearranged(job.doc) : job' = [job EXCEPT !.buf = b]

-----------------------------------------------------------------------------
(* Marks *)

\* Rows reach the encoder in the order of the store.
MarksReported ==
    /\ job.step = "idle"
    /\ \E R \in RowSets : \E rows \in SetToSeqs(R) :
          LET m == [rows |-> rows, cumulative |-> Zeros(DIGEST_LEN),
                    lifetime |-> Zeros(DIGEST_LEN), recovery |-> Len(rows)]
          IN  job' = [step |-> "marks", marks |-> m, buf |-> encode_marks_payload(m)]

HostEditsMarks ==
    /\ job.step = "marks" /\ job.buf = encode_marks_payload(job.marks)
    /\ \E b \in Edits(job.buf) : job' = [job EXCEPT !.buf = b]

-----------------------------------------------------------------------------
(* Containers *)

\* An enclave, the operator or the producer seals a container and the host keeps it.
ContainerSealed ==
    /\ job.step = "idle"
    /\ \E r \in Sealings :
          job' = [step |-> "sealed", kind |-> r.kind, seal |-> r.seal,
                  buf |-> Container(r.kind, r.seal)]

HostEditsContainer ==
    /\ job.step = "sealed" /\ job.buf = Container(job.kind, job.seal)
    /\ \E b \in Edits(job.buf) : job' = [job EXCEPT !.buf = b]

\* A frame too long is not sent.
MessageCarried ==
    /\ job.step = "idle"
    /\ \E r \in Carried :
          /\ r.kind \in Requests => FrameFits(WireOf(r.msg))
          /\ job' = [step |-> "carried", kind |-> r.kind, msg |-> r.msg,
                     buf |-> Carry(r.kind, r.msg)]

\* The host edits the message or cuts it short.
HostEditsMessage ==
    /\ job.step = "carried" /\ job.buf = Carry(job.kind, job.msg)
    /\ \E b \in Edits(job.buf) \cup {SubSeq(job.buf, 1, n) : n \in 0 .. Len(job.buf) - 1} :
          job' = [job EXCEPT !.buf = b]

-----------------------------------------------------------------------------
(* Attestations *)

\* The host presents a report, a VCEK and a chain, genuine or its own, to a verifier.
ReportPresented ==
    /\ job.step = "idle"
    /\ \E a \in Presented :
          job' = [step |-> "report", report |-> a.report, vcek |-> a.vcek, chain |-> a.chain,
                  cli |-> a.cli]

Next ==
    \/ HostBegins \/ HostAppends
    \/ DocumentSigned \/ HostEditsDocument
    \/ MarksReported \/ HostEditsMarks
    \/ ContainerSealed \/ HostEditsContainer
    \/ MessageCarried \/ HostEditsMessage
    \/ ReportPresented
    \/ OutputNext

Spec == Init /\ [][Next]_job

-----------------------------------------------------------------------------
(* Properties *)

\* Whatever buffer a strict reader accepts is the one encoding of what it read, so
\* no value has two byte forms to hash or to sign; documents and messages survive the
\* trip and are read by no other reader; so do marks, whatever order their rows came
\* in; and part of a quote child's reply is neither a reply nor an error.  (StrictParser,
\* the parsers of agent_anchor.rs, agent_capability.rs, agent_provision.rs and
\* agent_boot_relay.rs, decode_message, parse_child_frame, parse_restore_ingress,
\* strict_decode_marks_payload, encode_marks_payload)
AcceptedIsCanonical ==
    /\ job.step = "buffer" =>
          \A r \in {strict_decode_map(job.buf)} : r.ok => Encode(r.val) = job.buf
    /\ job.step = "document" =>
          \A v \in DOMAIN Keys : \A read \in {Parse(v, job.buf)} :
              /\ v \notin Requests => \A d \in read : WireOf(d) = job.buf
              /\ v = job.kind /\ job.buf = WireOf(job.doc) => read = {job.doc}
    /\ job.step = "carried" =>
          \A sent \in {Carry(job.kind, job.msg)} :
              /\ \A v \in Carriers : \A read \in {ReadCarrier(v, job.buf)} :
                    /\ v \notin Requests => \A x \in read : Carry(v, x) = job.buf
                    /\ job.buf = sent => read = IF v = job.kind THEN {job.msg} ELSE {}
              /\ job.kind = "child" /\ IsStrictPrefix(job.buf, sent) =>
                    parse_child_frame(job.buf).st = "short"
    /\ job.step = "marks" =>
          \A r \in {strict_decode_marks_payload(job.buf)},
             asked \in {encode_marks_payload(job.marks)} :
              /\ r.ok => encode_marks_payload(r.val) = job.buf
              /\ job.buf = asked =>
                    /\ r.ok
                    /\ ToSet(r.val.rows) = ToSet(job.marks.rows)
                    /\ \A rows \in SetToSeqs(ToSet(job.marks.rows)) :
                          encode_marks_payload([job.marks EXCEPT !.rows = rows]) = asked

\* A signed document is accepted as the kind it was signed as and in its very bytes,
\* and in no other way: no edit, reordering, repeated or missing field, and no other
\* verifier.  Only the certificate beside the provisioner's signature may be another
\* one of the same key.  A sealed container opens as what it was sealed as, in its very
\* bytes and in the context it was sealed for, and in no other way.  The scope and the
\* nonce of a boot request cannot be changed apart from the report data the quote
\* commits to.  An attestation verifies only if the report is a chip's own under the
\* pinned AMD root, whatever certificates the host adds or puts in the place of AMD's,
\* and it does with AMD's two certificates in either order; and one report vouches for
\* one key, one restore or one completion.  (verify_anchor_response, verify_marks_response, verify_commit_ack,
\* verify_capability, verify_provision_config, unseal_keystore,
\* unseal_mldsa65_keypair_v1, open_restore_ingress_envelope,
\* verify_recent_chain_proof_crypto, decode_anchor_boot_request, verify_attestation,
\* verify_restore_ephemeral_attestation, verify_restore_completion_attestation)
SignatureBindsBytes ==
    /\ job.step = "document" /\ job.kind \in SignedKinds =>
          \A v \in SignedKinds :
              Accepts(v, job.buf, Preimage(job.kind, job.doc), job.doc[SigKey(job.kind)].v)
                <=> /\ v = job.kind
                    /\ job.buf \in {WireOf(d) : d \in SameSigned(job.kind, job.doc)}
    /\ job.step = "sealed" =>
          \A sealing \in {Sealing(job.kind, job.seal)}, v \in SealedKinds, c \in Contexts :
              Opens(v, c, job.buf, sealing)
                <=> /\ v = job.kind /\ BoundTo(v, c) = BoundTo(v, job.seal.ctx)
                    /\ job.buf = Container(job.kind, job.seal)
    /\ job.step = "carried" =>
          \A d \in MessageReadings("boot_request", job.buf) :
              job.kind = "boot_request" /\ \A k \in 1 .. 5 : d[k] = job.msg[k]
    /\ job.step = "report" =>
          /\ run(job.cli, job.report, job.vcek, job.chain) => Genuine(job.report, job.vcek, job.cli)
          /\ Genuine(job.report, job.vcek, job.cli)
                /\ (\A m \in job.cli.measurements : parse_measurement(m))
                /\ (\E p \in DOMAIN ProductOf, chain \in {job.chain, Reverse(job.chain)} :
                      chain = Bundle(ProductOf[p]) /\ <<"ark", ProductOf[p]>> \in Pinned(job.cli))
                => run(job.cli, job.report, job.vcek, job.chain)
          /\ Cardinality(VouchesFor(job.report, FormInputs)) <= 1
=============================================================================
