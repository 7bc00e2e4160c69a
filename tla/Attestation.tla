---------------------------- MODULE Attestation ----------------------------
(***************************************************************************)
(* The relying party's side of a SEV-SNP attestation: the checks of a      *)
(* report's claims (snp_verify.rs, snp_report.rs), the chain to the pinned *)
(* AMD root (snp-attest-verify/src/lib.rs) and its command line (main.rs). *)
(*                                                                         *)
(* A certificate or a report is a record, and its signature is the key it  *)
(* was made with.  Keys and distinguished names are pairs of a role and an *)
(* owner; AMD's certificates name each key by the pair of the key itself.  *)
(* The hash is ideal: report data are the bytes hashed.                    *)
(***************************************************************************)
EXTENDS Preimages

CONSTANTS
    MIN_REPORT_VERSION, \* 2
    ProductOf           \* chip -> its product; no chip is 0

ASSUME AttestationAssumption ==
    MIN_REPORT_VERSION \in Nat /\ 0 \notin DOMAIN ProductOf

-----------------------------------------------------------------------------
(* Claims of a report *)

\* Bit 19 of the guest policy is the field `debug`; `binding` has at most one key.
prevalidate_report(report, binding, allowed) ==
    /\ report.whole
    /\ report.version >= MIN_REPORT_VERSION
    /\ ~ report.debug
    /\ \A i \in DOMAIN binding : report.data = report_data_for_pubkey(binding[i])
    /\ report.measurement \in allowed

\* The operator's check before it wraps a backup for a restore key r.
verify_restore_ephemeral_attestation(report, r) ==
    /\ report.data = report_data_for_restore_ephemeral(r)
    /\ report.measurement = r.measurement

\* 2D's check before it records a restore r as complete.
verify_restore_completion_attestation(report, r, measurement) ==
    /\ report.data = report_data_for_restore_completion(r)
    /\ report.measurement = measurement

-----------------------------------------------------------------------------
(* Certificates: subject, issuer, key, by, alg and the HWID extensions *)

Rsa(key) == key[1] \in {"ark", "ask", "rsa"}

\* The verifying key of a VCEK; an RSA key does not parse as one.
cert_p384_key(cert) == {k \in {cert.key} : ~ Rsa(k)}

\* Only AMD's algorithm, under an issuer whose key is for it.
verify_cert_signed_by(cert, issuer) ==
    cert.alg = "rsassa_pss" /\ Rsa(issuer.key) /\ cert.by = issuer.key

is_self_signed(cert) == cert.subject = cert.issuer /\ verify_cert_signed_by(cert, cert)

\* The first certificate of a chain that passes, if any does.
Found(chain, Test(_)) == {chain[i] : i \in {SelectInSeq(chain, Test)} \ {0}}

\* pinned_ark_spki: the root key of a chain the operator trusts.
pinned_ark_spki(chain) == {ark.key : ark \in Found(chain, is_self_signed)}

\* The ARK is the first self-signed certificate and is pinned; the ASK is the first
\* whose name is the VCEK's issuer.
verify_cert_chain(vcek, chain, pinned) ==
    \E ark \in Found(chain, is_self_signed),
       ask \in Found(chain, LAMBDA c : c.subject = vcek.issuer) :
        /\ ark.key = pinned
        /\ ask.issuer = ark.subject
        /\ verify_cert_signed_by(ask, ark)
        /\ verify_cert_signed_by(vcek, ask)

verify_report_signature(report, key) == report.whole /\ report.by = key

\* The chip of an HWID extension, raw or in an octet string.
parse_amd_hwid(ext) == IF ext.form \in {"raw", "octets"} THEN {ext.chip} ELSE {}

\* A report whose chip is masked (0) is bound to none.
verify_vcek_chip_binding(vcek, report) ==
    \/ report.chip = 0
    \/ Len(vcek.hwid) = 1 /\ report.chip \in parse_amd_hwid(vcek.hwid[1])

verify_attestation(report, vcek, chain, pinned, binding, allowed) ==
    /\ prevalidate_report(report, binding, allowed)
    /\ verify_cert_chain(vcek, chain, pinned)
    /\ \E k \in cert_p384_key(vcek) : verify_report_signature(report, k)
    /\ verify_vcek_chip_binding(vcek, report)

-----------------------------------------------------------------------------
(* AMD's certificates (external), and the command line *)

Issued(name, issuer, hwid) ==
    [subject |-> name, issuer |-> issuer, key |-> name, by |-> issuer,
     alg |-> "rsassa_pss", hwid |-> hwid]

Ark(p) == Issued(<<"ark", p>>, <<"ark", p>>, << >>)
Ask(p) == Issued(<<"ask", p>>, <<"ark", p>>, << >>)
Vcek(c) == Issued(<<"vcek", c>>, <<"ask", ProductOf[c]>>, <<[form |-> "raw", chip |-> c]>>)
Bundle(p) == <<Ask(p), Ark(p)>>

\* One pin is named, a product's or the operator's own chain; there is no default.
Pinned(cli) ==
    CASE cli.own # << >> /\ cli.product = "none" -> pinned_ark_spki(cli.own)
      [] cli.own = << >> /\ cli.product \in {"genoa", "turin"} -> pinned_ark_spki(Bundle(cli.product))
      [] OTHER -> {}

parse_measurement(m) == Len(m) = MEASUREMENT_LEN

\* run: a producer key is named or the binding is waived, never both or neither.
run(cli, report, vcek, chain) ==
    /\ (cli.pq_pubkey # << >>) # cli.allow_unbound
    /\ \A m \in cli.measurements : parse_measurement(m)
    /\ \E pin \in Pinned(cli) :
          verify_attestation(report, vcek, chain, pin, cli.pq_pubkey, cli.measurements)

-----------------------------------------------------------------------------
(* What a verified attestation is taken for *)

\* The report is a chip's own, of a product under the pinned root, and says what is
\* asked of it.
Genuine(report, vcek, cli) ==
    \E c \in DOMAIN ProductOf :
        /\ vcek = Vcek(c) /\ report.by = vcek.key /\ report.chip \in {0, c}
        /\ Pinned(cli) = {<<"ark", ProductOf[c]>>}
        /\ (cli.pq_pubkey # << >>) # cli.allow_unbound
        /\ cli.allow_unbound \/ report.data = report_data_for_pubkey(cli.pq_pubkey[1])
        /\ report.measurement \in cli.measurements
        /\ report.whole /\ ~ report.debug /\ report.version >= MIN_REPORT_VERSION

\* The keys, restores and completions, of those in `inputs`, a report can be taken to
\* vouch for.
VouchesFor(report, inputs) ==
         {<<"pubkey", k>> : k \in {x \in inputs["pubkey"] :
                                   prevalidate_report(report, <<x>>, {report.measurement})}}
    \cup {<<"ephemeral", r>> : r \in {x \in inputs["ephemeral"] :
                                   verify_restore_ephemeral_attestation(report, x)}}
    \cup {<<"completion", r>> : r \in {x \in inputs["completion"] :
                                   verify_restore_completion_attestation(report, x, report.measurement)}}
=============================================================================
