------------------------------ MODULE MCCodecs ------------------------------
EXTENDS Codecs

\* Heads of every major type, the two argument widths, and no lead byte of a longer
\* UTF-8 character.
MCAlphabet == {0, 1, 23, 24, 25, 64, 65, 97, 129, 160, 161, 162, 244}

U(v) == [t |-> "uint", v |-> v]
B(v) == [t |-> "bytes", v |-> v]
T(v) == [t |-> "text", v |-> v]
D(i) == B(<<1, i>>)
Sg == B(<<7>>)

FreshDoc == (1 :> U(1)) @@ (2 :> U(300)) @@ (3 :> T(<<97>>)) @@ (4 :> U(24)) @@ (5 :> U(1))
              @@ (6 :> D(0)) @@ (7 :> D(1)) @@ (13 :> Sg)
TimedDoc == FreshDoc @@ (8 :> U(0)) @@ (9 :> D(24))
MarksDoc == (1 :> U(1)) @@ (2 :> U(0)) @@ (3 :> T(<<97, 98>>)) @@ (4 :> U(1)) @@ (5 :> D(0))
              @@ (6 :> B(<<0, 1, 0, 1, 0>>)) @@ (13 :> Sg)
AckDoc == (1 :> U(1)) @@ (2 :> U(0)) @@ (3 :> T(<<97>>)) @@ (4 :> U(1)) @@ (5 :> U(0))
              @@ (6 :> D(0)) @@ (7 :> D(1)) @@ (8 :> B(<<1>>)) @@ (13 :> Sg)
CapDoc == (1 :> U(2)) @@ (2 :> U(1)) @@ (4 :> U(1)) @@ (5 :> U(0)) @@ (6 :> T(<<97>>))
              @@ (7 :> U(0)) @@ (8 :> B(<<97>>)) @@ (9 :> U(24)) @@ (10 :> B(<< >>))
              @@ (11 :> D(0)) @@ (12 :> [t |-> "bool", v |-> FALSE]) @@ (13 :> D(1)) @@ (14 :> Sg)
SubOpDoc == [CapDoc EXCEPT ![2] = U(6)] @@ (3 :> U(1))

M1Doc == <<D(0)>>
M2Doc == <<D(0), B(<<0, 1, 0, 1>>)>>
M3Doc == <<B(<<161, 1, 0, 0>>), D(0), D(1), D(23), Sg, B(<<0>>)>>
M4Doc == <<B(<<0, 1, 0, 1>>)>>
ConfigDoc == <<U(24), T(<<97>>), D(0), D(1), B(<<0, 0, 0>>), D(0), D(1)>>

BootDoc == <<U(1), U(24), T(<<97>>), D(0), B(<<0, 1>>), B(<<1, 0, 1>>), B(<<1>>)>>
MarksAsk == <<U(1), U(0), T(<<97>>), D(0), U(1)>>
CommitAsk == <<U(1), U(0), T(<<97>>), U(1), U(0), D(0), D(1), B(<<1>>)>>

Certs == {<<0>>, <<1>>}

MCDocs ==
    {[kind |-> "freshness", doc |-> FreshDoc], [kind |-> "freshness", doc |-> TimedDoc],
     [kind |-> "marks", doc |-> MarksDoc], [kind |-> "ack", doc |-> AckDoc],
     [kind |-> "capability", doc |-> CapDoc], [kind |-> "capability", doc |-> SubOpDoc],
     [kind |-> "m1", doc |-> M1Doc], [kind |-> "m2", doc |-> M2Doc],
     [kind |-> "m3", doc |-> M3Doc], [kind |-> "m4", doc |-> M4Doc],
     [kind |-> "config", doc |-> ConfigDoc], [kind |-> "boot_request", doc |-> BootDoc],
     [kind |-> "marks_request", doc |-> MarksAsk],
     [kind |-> "commit_request", doc |-> CommitAsk]}

\* Two running sums; 31 modulo 32, so that no digest reads as the head of a CBOR item.
MCHash(n, b) ==
    LET Sum(k) == FoldLeft(LAMBDA acc, x : (acc * (30 + k) + x + 7) % 32749, k, b)
    IN  [i \in 1 .. n |-> 287 + 32 * Sum(i)]

Home == [root |-> <<0, 1>>, measurement |-> <<1, 1>>, dk |-> <<1, 0>>, chain_id |-> 1,
         env |-> <<97>>, manifest |-> <<129, 0>>, backup |-> <<1, 2, 3>>, tail |-> <<<<0, 1>>>>]

\* Each differs from Home in one thing; an empty measurement is nobody's.
MCContexts ==
    {Home, [Home EXCEPT !.root = <<0, 0>>], [Home EXCEPT !.measurement = <<1, 0>>],
     [Home EXCEPT !.measurement = << >>], [Home EXCEPT !.dk = <<1, 1>>],
     [Home EXCEPT !.chain_id = 0], [Home EXCEPT !.env = <<97, 97>>],
     [Home EXCEPT !.manifest = <<128>>], [Home EXCEPT !.backup = <<1, 2>>],
     [Home EXCEPT !.tail = << >>], [Home EXCEPT !.tail = <<<<0, 1>>, <<0, 1>>>>]}

Seal(ct) == [ctx |-> Home, nonce |-> <<0, 1>>, kem_ct |-> <<1, 1>>, ct |-> ct]

MCSealings ==
    {[kind |-> k, seal |-> Seal(<<24, 0, 1>>)] : k \in SealedKinds}
      \cup {[kind |-> k, seal |-> Seal(<<0, 1>>)] : k \in {"keystore", "ingress"}}

BootMsg == [BootDoc EXCEPT ![5] = B(HandshakeReportData(BootDoc))]

MCCarried ==
    {[kind |-> "boot_request", msg |-> BootMsg], [kind |-> "marks_request", msg |-> MarksAsk],
     [kind |-> "commit_request", msg |-> CommitAsk],
     [kind |-> "m1", msg |-> M1Doc], [kind |-> "m2", msg |-> M2Doc],
     [kind |-> "m3", msg |-> M3Doc], [kind |-> "m4", msg |-> M4Doc],
     [kind |-> "child", msg |-> [ok |-> TRUE, report |-> <<1, 0>>, chain |-> <<0>>]],
     [kind |-> "child", msg |-> [ok |-> TRUE, report |-> <<1, 0, 1>>, chain |-> << >>]],
     [kind |-> "child", msg |-> [ok |-> FALSE, code |-> 1]],
     [kind |-> "restore_payload", msg |-> <<161, 1, 0>>]}

MCProductOf == (1 :> "genoa") @@ (2 :> "turin")

Cli == [product |-> "genoa", own |-> << >>, pq_pubkey |-> <<<<0, 1>>>>, allow_unbound |-> FALSE,
        measurements |-> {<<0, 1>>}]

Report1 == [whole |-> TRUE, version |-> 2, debug |-> FALSE, measurement |-> <<0, 1>>, chip |-> 1,
            data |-> report_data_for_pubkey(<<0, 1>>), by |-> <<"vcek", 1>>]

RestoreKey == [encaps_key |-> <<0, 1>>, measurement |-> <<0, 1>>, chain_id |-> 1, env |-> <<97>>]
Completed == [chain_id |-> 1, env |-> <<97>>, request_id |-> <<98>>, identity_set_hash |-> <<0, 0>>,
              sealed_blob_hash |-> <<0, 1>>]

\* Each differs from the base in one thing.
Clis ==
    {Cli, [Cli EXCEPT !.product = "turin"], [Cli EXCEPT !.product = "none"],
     [Cli EXCEPT !.product = "milan"], [Cli EXCEPT !.own = <<Ark("genoa")>>],
     [Cli EXCEPT !.product = "none", !.own = <<Ark("genoa")>>],
     [Cli EXCEPT !.product = "none", !.own = <<Ask("genoa")>>],
     [Cli EXCEPT !.pq_pubkey = << >>], [Cli EXCEPT !.pq_pubkey = <<<<0, 0>>>>],
     [Cli EXCEPT !.allow_unbound = TRUE],
     [Cli EXCEPT !.pq_pubkey = << >>, !.allow_unbound = TRUE],
     [Cli EXCEPT !.measurements = {<<0, 0>>}], [Cli EXCEPT !.measurements = {<<0, 1>>, <<0>>}]}

Reports1 ==
    {Report1, [Report1 EXCEPT !.whole = FALSE], [Report1 EXCEPT !.version = 1],
     [Report1 EXCEPT !.debug = TRUE], [Report1 EXCEPT !.measurement = <<0, 0>>],
     [Report1 EXCEPT !.chip = 0], [Report1 EXCEPT !.chip = 2, !.by = <<"vcek", 2>>],
     [Report1 EXCEPT !.data = report_data_for_restore_ephemeral(RestoreKey)],
     [Report1 EXCEPT !.data = report_data_for_restore_completion(Completed)],
     [Report1 EXCEPT !.by = <<"ec", "forger">>]}

\* Certificates of a forger, who has one key of each kind and signs what he likes.
Forged ==
    LET N == {<<"ark", "genoa">>, <<"ask", "genoa">>, <<"vcek", 1>>}
    IN  [subject : N, issuer : N, key : {<<"rsa", "forger">>, <<"ec", "forger">>},
         by : {<<"rsa", "forger">>}, alg : {"rsassa_pss"}, hwid : {Vcek(1).hwid}]

Chains ==
    {Bundle("genoa"), Reverse(Bundle("genoa")), Bundle("turin"),
     Bundle("turin") \o Bundle("genoa"), <<Ark("genoa")>>}
      \cup UNION {{<<f>> \o Bundle("genoa"), Bundle("genoa") \o <<f>>, <<f, Ark("genoa")>>,
                  <<Ask("genoa"), f>>} : f \in Forged}
      \cup {<<f, g>> : f, g \in Forged}

\* AMD's intermediate and root in the place of a VCEK, too.
Vceks ==
    {Vcek(1), Vcek(2), Ask("genoa"), Ark("genoa")} \cup Forged
      \cup {[f EXCEPT !.alg = "ecdsa", !.by = <<"ec", "forger">>] : f \in Forged}

MCPresented ==
         [report : Reports1, vcek : {Vcek(1), Vcek(2)}, chain : {Bundle("genoa"), Bundle("turin")},
          cli : Clis]
    \cup [report : {Report1, [Report1 EXCEPT !.by = <<"ec", "forger">>]}, vcek : Vceks,
          chain : Chains, cli : {Cli}]

Row(c, s, n) == [authority |-> <<1, 1>>, scope_class |-> c, scope_target |-> s, counter |-> n]

MCRowSets == SUBSET {Row(0, <<97>>, 24), Row(1, << >>, 1), Row(1, <<97>>, 0)}

W(i) == Zeros(WORD - 1) \o <<i>>
Envs == {<<97>>, <<97, 98>>}
Ids == {<< >>, <<98>>, <<98, 98>>}
Fixed == {<<0, 0>>, <<0, 1>>}
Big == [i \in 1 .. U256_LEN |-> 255]
To(i) == Zeros(19) \o <<i>>

\* Strings that continue a label or end it.
Continues == Ids \cup {<<0>>, <<300, 0>>, <<301>>}

RefLists == {<<<<0, 0>>>>, <<<<0, 1>>, <<0, 0>>>>}

\* Field 2 may hold the bytes of another request's parameters.
Bound ==
    LET Of(op, P) == [opcode : {op}, request_id : {<< >>, <<162>>, <<162, 1>>}, params : P]
    IN       Of(1, [purpose : {1, 2}, count : {1, 24, 162}])
        \cup Of(6, [sub_op : {0}, field2 : {<< >>, <<1>>, <<162, 1, 0, 2, 64>>},
                    gas : {<<1, 0>>, <<0, 1>>}])
        \cup Of(6, [sub_op : {1, 2}, field2 : {<< >>, <<1>>, <<162, 1, 1, 2, 64>>}, gas : {<< >>}])
        \cup Of(7, {[by |-> "all"]})
        \cup Of(7, [by : {"refs"}, refs : RefLists])
        \cup Of(7, [by : {"batch"}, batch : {0, 160}])
        \cup Of(8, [refs : RefLists, digest : Fixed])

MCFormInputs ==
    [ transfer |-> [nonce : {0, 1, 128}, gas_price : {<< >>, <<1>>, <<127>>, <<128>>},
                    gas_limit : {0, 21000}, to : {To(0), To(1)},
                    value : {<< >>, <<128>>, <<1, 0>>, Big}, chain_id : {1, 300}],
      identity |-> [chain_id : {1, 256}, env : Envs, key_ref : Fixed, key : Fixed, nonce : Fixed],
      ticket |-> {t \in [type : {0, 1}, nonce : {0, 1}, context : {W(0), W(1)}, height : {0, 1},
                         measurement : {<< >>, <<0>>, Zeros(WORD), Zeros(WORD + 1)},
                         pubkey : {<< >>, <<0>>, Zeros(WORD)},
                         fork : {<< >>, <<W(0)>>, <<W(1)>>}, version : {<< >>, <<0>>, <<1>>}] :
                    validate_ticket_payload(t)},
      block_root |-> {W(0), W(1)},
      chain_proof |-> [height : {0, 1}, header : Fixed, activated : {0, 1}, ticket : Fixed,
                       tail : Fixed, pubkey : Ids, measurement : Ids],
      backup |-> [recovery_key_id : Ids, chain_id : {0, 1}, env : Envs, kem_ct : Fixed,
                  manifest : Ids],
      ingress |-> [measurement : Ids, chain_id : {0, 1}, env : Envs, manifest_hash : Fixed,
                   backup_digest : Fixed, kem_ct : Fixed],
      high_water |-> [chain_id : {0, 1}, env : Envs, request_id : Ids, marks : Ids],
      ephemeral |-> [encaps_key : Fixed, measurement : Fixed, chain_id : {0, 1}, env : Envs],
      completion |-> [chain_id : {0, 1}, env : Envs, request_id : Ids,
                      identity_set_hash : Fixed, sealed_blob_hash : Fixed],
      handshake |-> [chain_id : {0, 1}, env : Envs, nonce : Fixed],
      pubkey |-> Fixed,
      keystore_measurement |-> Ids, keystore_key |-> Fixed \X Fixed,
      producer_measurement |-> Ids, producer_key |-> Fixed \X Fixed,
      payload_key |-> Fixed, ingress_key |-> Continues, manifest_hash |-> Continues, backup_digest |-> Continues,
      recovery_key_id |-> Fixed, marks_digest |-> Ids,
      provisioning_root |-> Fixed, root_commit |-> Fixed,
      binding |-> Bound,
      identity_set |-> {S \in SUBSET [key_ref : Fixed, public_identity : Ids, key_purpose : {1, 2}] :
                          \A e, f \in S : e.key_ref = f.key_ref => e = f} ]

Sums == {<<a, b>> : a, b \in {0, 1, 127, 128, 255}}
MCNumbers == Sums \X Sums

V == PROTOCOL_VERSION
Blobs == {<< >>, <<1>>}
H == {<<0, 0>>, <<1, 2>>}
Opt(S) == {<< >>} \cup {<<x>> : x \in S}

MCValues ==
    [ measurement_request  |-> {<<V>>},
      measurement_response |-> {<<V, a, b, p, u, r, c>> :
                                  a, b, p, c \in Blobs, u \in {<< >>, <<0, 1>>}, r \in BOOLEAN},
      status_request       |-> {<<V>>},
      status_response      |-> {<<V, r, a, p, h, h, s, n, n>> : r \in BOOLEAN, a, p \in Blobs,
                                  h, n \in Opt({0, 7}), s \in Opt(H)},
      arm_request          |-> {<<V, <<p, a, 3, s>>, <<4, h, l, d, g>>>> : p, a, d \in Blobs,
                                  s, h \in H, l \in Opt(H), g \in Opt(Blobs)},
      ticket_request       |-> {<<V, <<t, 1, s, 2, a, p, f, v>>>> : t \in {0, 1}, s \in H,
                                  a, p \in Blobs, f \in Opt(H), v \in Opt({0, 1})},
      ticket_response      |-> {<<V, a, h>> : a \in Blobs, h \in H},
      block_request        |-> {<<V, h>> : h \in H},
      block_response       |-> {<<V, a, h>> : a \in Blobs, h \in H} ]

Lists(S) == {<< >>} \cup {<<x>> : x \in S} \cup {<<x, x>> : x \in S}
Transfers == {<<a, b, b, n, n, b, b>> : a, b \in Blobs, n \in {0, 1}}

MCAgentValues ==
    [ public_identity      |-> {<<b, a, t, a, p, 1>> : a, b \in Blobs, t \in Reasons, p \in {1, 2}},
      prove_identity       |-> {<<b, a, n, a, a>> : a, b \in Blobs, n \in {0, 1}},
      sign_transfer        |-> Transfers,
      get_restore_pubkey   |-> {<<b, a, a, c>> : a, b, c \in Blobs},
      generate_keys        |-> {<<k, b>> : b \in Blobs,
                                  k \in Lists({<<a, a, a, t, p>> : a \in Blobs, t \in Reasons, p \in {1, 2}})},
      sign_faucet_dispense |-> {Append(t, b) : t \in Transfers, b \in Blobs},
      configure_treasury   |-> {<<b>> : b \in Blobs},
      export_backup        |-> {<<a, b>> : a, b \in Blobs},
      restore_backup       |-> {<<b, a, k, b, c>> : a, b, c \in Blobs,
                                  k \in Lists({<<a, a, p>> : a \in Blobs, p \in {1, 2}})} ]
=============================================================================
