# 2d-hsm: a TLA+ verification development

2d-hsm is a signing service inside a confidential VM. One binary, two roles:
a *producer enclave* that signs block roots and hard-fork tickets with a
post-quantum key, and an *Agent Gateway* that keeps secp256k1 keys, signs
transfers and dispenses from a treasury under limits. The code is the Rust crate
`impl/rust/enclave-protocol`. The Agent Gateway's sealed state lives on an
untrusted host, so a remote *anchor* (a monotonic counter with a ledger) is what
keeps an old sealed blob from being used again.

## Inventory

| part | state | operations | what is hard | what makes it correct |
|---|---|---|---|---|
| anti-rollback protocol (`agent_anchor`, `agent_challenge`, `agent_boot`, `agent_boot_driver`, `agent_boot_relay`, `commit_before_emit`) | outstanding nonce, booting body, sealed candidate; the anchor's state and ledger; blobs on the host | boot handshake (freshness, marks, adopt), commit per operation | an untrusted relay that loses, delays, replays; crashes between commit, install and emit; stale blobs | nothing is released twice, no boot serves behind its own past, budgets hold across rollbacks, lost acks heal |
| keystore (`agent_keystore`, `agent_dispatch`, `agent_keygen`, `agent_capability`) | keys, capability counters, faucet limits and spend, audit ring, epochs | GENERATE_KEYS, CONFIGURE_TREASURY x4, SIGN_FAUCET_DISPENSE, EXPORT_BACKUP, RESTORE_BACKUP, GET_RESTORE_PUBKEY | long sequences of legal operations; failure between check and commit; limits at their edges, the blob's size included | spend within limits, marks only move forward, every audit record accounted for |
| backup and restore (`agent_backup`) | backups handed out, the ephemeral restore key | export payload, AC#6 high-water comparison, wholesale replacement | a backup older than the destination, a stale attestation, content the host seals itself to the public restore key | what is restored was authorised, counters and spend never fall, the key serves one restore |
| producer enclave (`enclave_serve`, `lib`) | armed state under one mutex, session counter, idle budgets | accept, arm, sign root, sign fork ticket, time out | one thread per peer, panics under the mutex, lost replies | one fork ticket per proof, slots accounted for, no service after a panic |
| quote subprocess (`quote_subprocess`, `cancellable_boundary`) | child under way, ledger of abandoned children, deadlines | spawn, read a frame, kill, reap, abandon | children stuck in the kernel where no signal reaches | boots and fetches end in time, children are killed and bounded |
| provisioning ceremony (`agent_provision`, `provision_bootstrap`, the driver in `agent_gateway_boot`) | one session with two nonces, the sealed blob | M1..M4 over one connection | replayed or mixed messages, a dripping peer, M4 that cannot be written | a keystore only with the config signed for this session, one per ceremony, its blob handed out, the boot ends |
| anchor transport (`agent_boot_relay`, `host_anchor_relay`, `cancellable_boundary`) | the enclave's call and its deadline; the daemon's backlog and pump | call, connect, write, read; accept, check, dial, forward, answer | slow or dead ends, late answers, one guest in front of the others | an answer belongs to the call that gets it, calls and pumps end, nobody is starved |
| agent serve loop (`agent_gateway_boot`, `enclave_serve`, `agent_dispatch`) | backlog, the session's idle deadline, the reply under way | accept, read a frame, dispatch, commit, reply, close | one peer at a time; dripping, silent and garbage peers; lost acks and replies, restarts on the host's blob | every connection is reached, a retried request takes effect, a boot is refused for a lost structural commit only |
| encodings (`agent_cbor`, `agent_capability`, `agent_anchor`, `rlp`, `u256`, `wire`; the preimages, containers and frames in `agent_backup`, `agent_provision`, `agent_boot_relay`, `agent_identity`, `agent_keystore`, `pq_signer`, `quote_subprocess`, `lib`, `snp_report`) | none | encode, decode, seal, open, hash, add, multiply | two byte strings for one value, one for two inputs, one container read as another, carries | what is accepted is canonical, what is signed determines its inputs |
| remote verifier (`snp-attest-verify`, `snp_verify`) | none | check a report's claims, its chain, its chip, the caller's options | certificates chosen by the host, two ways to name the root, an optional key binding | a report is accepted only if it is a chip's own under the pinned root |
| producer boot and key ceremony (`pq-seal-v1`, `pq-seal-manifest`, `snp-derive-root`, `bin/enclave_vsock`, `pq_signer`, `seal_root`, `snp_report`) | the ceremony's output, the root file, the installed signer, the configfs entries, the cached report | seal, write a manifest; derive, unseal, attest, gate, serve | crashes in the middle, two instances on one configfs entry, sweeps | a manifest on disk can be used, the attested key is the one that serves |
| cryptography, listeners, configuration, lab tools | none that matters here | | | |

The parts meet in four places. The boot wiring (`agent_gateway_boot`) unseals a
blob, runs the handshake with quotes from child processes, installs the body and
the commit channel and only then serves. Every operation that changes the
keystore goes through one seam (`commit_before_emit`, or its variant for
restores): seal the candidate, commit it to the anchor, install it, answer. The
relay daemon carries all traffic between enclave and anchor. And everything that is
signed, attested or sealed goes through one of the byte formats.

`PROJECT.json` lists the components with their files, and the hazards, each at
its line with the properties that would catch it.

## Modules

**AntiRollback** models enclave processes, the relay and the anchor. A process
goes `down -> booting -> challenged [-> adopting] -> serving <-> committing`, or
`failed`. The relay is a set of sets that only grow: any request or signed reply
ever sent may be delivered at any time, any number of times, or never. The host
may start a process on any sealed body it ever received, and may lose one. A
body is reduced to the two epochs, the marks (spend, capability counter) and a
`config` sequence standing for everything that is not a mark. Digests are ideal,
so the marks stand for their digest; a commit request carries only the digest
in the code, and the raw marks the anchor later returns reach it out of band.
The anchor's acceptance rule (`LedgerAccepts`: a request_id commits once, the
epoch rises) is that of the external anchor described in
`backlog/docs/agent-gateway-anti-rollback.md`; the lab anchor in the repository
keeps the first half only. Epochs and nonces are unbounded naturals (u64 and
random 32-byte strings in the code).

**SpendLedger** is what the protocol promises, without messages: a counter that
rises, a log with one entry per request, payments only for logged requests and
each at most once. `AntiRollback!ImplementsSpendLedger` is the refinement.

**AntiRollbackLive** adds a budget of faults to AntiRollback for the liveness
question: after the last fault, does a boot get to serve?

**Keystore** models the operations on the body in full: which checks each handler
makes, in terms of the body; the candidate; the commit that succeeds or fails;
the restart on the committed state (older blobs are AntiRollback's subject).
Capabilities are ideal signatures over operation, row and counter. `SealBody` is
`validate` and then the cap on the sealed blob's size; `BlobSize` counts keys, counter
rows and audit records, each at a fixed size, and leaves out that a larger integer
takes more bytes. A restore is given any backup that was exported and any high-water
the recovery authority could have signed (now, or at an export); payloads the host
makes itself are in RestoreTransfer.

**RestoreTransfer** has the same restore between enclaves. A source exports, the
destination publishes an attested single-use key, the operator opens the backup
offline and wraps it again for that key, and the recovery authority signs a
capability and the marks it knows, both for one request_id. The host holds every
piece ever made and offers any combination. It also seals payloads of its own to the
restore key, which is public (`HostEnvelopes`): the header's digest is compared with
the authorised backup and its manifest with the payload's refs, but nothing compares
the payload with the backup (`agent_backup.rs:1027` says so). What it seals holds key_refs of its
choosing under secrets it made up (`genuine` is false: the deployment's secrets leave
only sealed), with the deployment's authorities or its own (`auth`), which
`apply_restore_to_body` installs with the rest. An enclave restored so answers to the
host from then on, and the host signs capabilities and marks for it (`HostSigned`, with
the least marks that pass; higher ones only disable the enclave more). The code does not
prevent that replacement, and `RestoredAsAuthorised` does not claim it does: it says
that the key_refs are the authorised ones, that the deployment's secrets arrive only as
the backup that was authorised, and that the environment stays.
The body is reduced to keys, whether they are genuine, authorities, counter rows, spend
and environment. Four assumptions come from outside the code:
`RestoreScopes`, restore capabilities are issued for one enclave (a fleet-wide one
is good for every clone, and with one TLC finds two enclaves that together pay
more than the budget); `Live`, the operator stops the source before the authority
signs marks for a failover; `SingleInstance`, the deployment's rule
(`backlog/docs/agent-gateway-anti-rollback.md`, section 4) that one enclave at a
time has the treasury key, or a ceremony that may yet give it the key; and, as its
first conjunct, that the destination of a treasury failover is still under the
deployment's authorities, as a freshly provisioned one is. No code enforces the last
two. Without the rule two destinations prepared from one backup share its budget
twice, which takes three enclaves to show and which the proof of
`FailoverWithinBudget` brought up; without its first conjunct TLC finds a destination
that the host restored before and that takes marks the host signed.

**EnclaveServe** models the accept loop (counter raised first, cap checked after),
one session thread per peer, the idle budget, the mutex with poisoning, and the
authorization state machine: arming, fork and recovery tickets, block roots and the
two requests that only read. A request is processed atomically under the mutex
and answered outside it.

**QuoteSubprocess** models the parent's side of a quote fetch in ticks, the boot
handshake's legs around it, and the kernel's side of the children: a child may
hang before or after it wrote its frame, for ever or not, and a pending kill
strikes when it comes back. Time for forking and for computation is not counted.

**Provisioning** models first boots: each enclave process accepts one connection,
answers M1 with its nonce and a report, verifies M3 and seals. Several run at
once and the host carries every message: it may replay an M1 to two enclaves,
show the provisioner any M2 it saw, and send an M3 with any certificate, any
body and any signature it has seen or can make with its own keys. Nonces and
scope ids are named after the enclave that drew them, a report is the pair of
nonces it commits to, or the lab build's mock, which commits to none. The
provisioner is external: one challenge and at most one signature per ceremony.
The lab build also writes the blob to a file and ignores errors; `file` is what
came of it, and `LaterBoot` is a boot that finds the file, with the root and the
measurement of the first boot or with others.

**RelayTransport** composes the two ends of a leg to the anchor: the enclave's
channel (one fresh connection per call, connect, write and bounded read under one
deadline) and the daemon (one connection at a time: read the frame, check it, dial
one address after the other, forward, read the answer, write it back, close).
`Tick` runs every armed timer down, and a process whose timer is at zero moves
first; the `...Some` actions are bytes that come or go a few at a time.
**AnchorChannel** is what `agent_boot_driver` and the commit path are written
against (`trait BootRelayChannel`): a call comes back with the answer to its frame
or with an error that says nothing, and it does come back. `RelayTransport!Channel`
is the refinement, liveness included. AntiRollback starts from less than this: its
relay may do anything.

**AgentServe** models the gateway in service: the listener's backlog, the serial
loop with its accept errors and backoff, frames that arrive in pieces under one
idle deadline, frames of the other service, the order of the dispatch's checks, the
commit, the reply in pieces and what restarts the idle deadline. The keystore is a
counter and a spend, and there are three of it: the installed body, what the anchor
recorded last, and the newest body whose sealed blob reached the host (`disk`), which
it does only in a reply that arrives. `Restart` boots from `disk`: the marks the anchor
recorded are adopted, a structural version the blob lacks is not, and the boot and
every one after it is refused until an operator restores. A commit may be refused at
the seal (`SealFails`, a batch of keys too large for the blob), fail before the anchor
(`CommitFails`), be recorded with its ack lost (`AckLost`), or conflict with what an
earlier lost ack left at the anchor (`Conflicts`). The anchor takes a repeat of what it
recorded (`AnchorTakes`; rules 1 to 3 of its commit contract in
`agent-gateway-anti-rollback.md`), so a request repeated within the same process heals
its own lost ack.

**ByteStrings**, **Cbor**, **SignedDocs**, **Preimages**, **Wire** and **Envelopes**
hold the byte formats as operators, **Attestation** the relying party's verifier, and
**Outputs** and **Codecs** send inputs through them: Outputs what the program makes
(inputs of the signed forms, numbers, replies), Codecs also what the host presents
(buffers, single edits and rearrangements of documents, containers and messages,
attestations). ByteStrings has the pieces: integers, length prefixes, CBOR heads. Cbor is
the strict reader with the encoders it must agree with. SignedDocs
has the anchor's three replies, the capability and the provisioner's messages, with
their signed bytes and their verifiers. Preimages has everything else that is signed,
hashed or attested, the key derivations and the 256-bit arithmetic. Wire has the
messages of the producer enclave and the replies and errors of the gateway. Envelopes
describes a container as a list of blocks (fixed, length-prefixed, rest) that one
operator writes and another reads: the two sealed blobs, the backup and the ingress
envelope, the chain proof, and what carries a message (frame, requests to the anchor,
provisioning envelope, quote child, restore payload). In Attestation a certificate is a
record whose signature is the key that made it, so that a forger can name anything and
sign only with keys of its own. The readers are recursive functions; the one RECURSIVE
operator is the encoder of nested values in Codecs, which is for TLC only. Outputs is a
specification of its own (`OutputSpec`): its theorems are about it, and TLC checks the
same properties in Codecs, whose actions include those of Outputs.

**ProducerBoot** follows the producer's key from the ceremony to the attested
service: `pq-seal-v1` on the workstation, `snp-derive-root`, the boot of
`enclave-vsock` step by step, and the configfs-tsm directory that two instances and
the gateway's quote children share. What it takes from outside: a process may be
killed at any step but the machine does not lose power (the ceremony does not
fsync); an entry whose attribute is open cannot be removed (EBUSY, as comments in
`snp_report` say); the platform's hook does not install a first signer after the
report was captured. `Manifest::select` has no caller in the repository but tests;
`ManifestUsable` applies it as a host would. A failed ceremony removes its tree
(`BuildFails`); that removal is best effort, and one that fails leaves what
`BuildCrashes` leaves, or less of it without a manifest. All ceremonies come before the first
boot: the two meet only in a set of blobs that grows.

The `MC*` modules hold model values and symmetry for TLC. Operators named `Bug...`
are mutated forms of the definition that follows them: each property is shown to
fail when a definition is replaced by its mutated form.

## Runs

| run | question | bounds |
|---|---|---|
| `anti_rollback` | safety and refinement of the protocol | one process, 3 requests (2 can be lost and the third still served), budget 1, epochs to 4, 5 nonces, 2 boot attempts: enough for two lives of a process with a lost ack, a stale blob and a straggling commit in between |
| `lost_ack_heals` | liveness of boot after lost acks | 2 requests, 2 faults, fair relay and anchor for the boot legs after the last fault |
| `treasury` | limits, refills, breaker and dispenses in any order; what a marks-only operation changes | 7 operations after genesis, costs of 1 and 2, budgets and thresholds of 0 and 2, a largest magnitude of 3, no restore (what a restore does to marks is `restore_transfer`'s `NoReplayAfterRestore` and the theorem `MarksHold`) |
| `backup_restore` | where the audit records are, over evictions, exports, restores and seals refused for size | 5 operations, an audit ring of 3, a blob of 2 keys with a full ring and one row, 2 backups, 2 restore keys |
| `restore_transfer` | mixed ceremonies, stale attestations, reused keys, spend and capabilities across a failover | 2 enclaves, 2 request_ids, 2 drawn keys, one exported backup, one of another environment and one under another recovery key, host payloads over any keys, budget 1: one restore and its replay, or two restores, one of which the host may sign itself |
| `enclave_serve` | session slots, authorization state, panics, a restart | 3 peers on 2 slots, heights 1..3 |
| `quote_subprocess` | budget, ledger, orphans, termination | ceiling 2, 5 process ids (one more than two full ledgers), attempts 0..3 and timeouts 0..2 around the validated range |
| `provisioning` | agreement, one keystore per ceremony, a blob for every served keystore, later boots from the lab's file included, termination | 2 enclaves, 2 ceremonies and a host challenge (a replay to a second session and a mix of two ceremonies), 2 configs and one that does not decode, frames of 2 bytes, real and mock reports |
| `relay_transport` | deadlines, head-of-line, the channel the driver relies on | one enclave, one other guest, 2 connections, 2 addresses, budgets of 1 and 2 ticks, 2 write calls, one fault of the daemon |
| `agent_serve` | every connection reached, a retried request done, no boot refused without cause | 3 peers, frames and replies in 2 pieces, idle timeout 2, one dispense, 2 faults in all (a lost ack or reply and a restart) |
| `codecs` | canonical bytes, signatures and seals that bind them, genuine attestations only, exact sums, errors apart from successes | host buffers to 5 bytes over 13 byte values; every single edit of 14 documents, 7 sealed containers (opened in 11 contexts) and 11 messages; 26 signed, hashed or derived forms; 10 reports and 13 sets of options, and a forger's certificates in every place of a chain of two or three; digests of 2 bytes and signatures of 1 |
| `producer_boot` | the attested key, undisturbed fetches, usable manifests | 2 instances of 3 builds and one quote child (siblings that sweep while another fetches rest on the theorem `FetchHolds`), 2 keys, 2 roots, 2 ceremonies, 2 faults |

In `codecs` lengths are scaled and the limits with them, but the ABI word, the
u256 and every length prefix have the width of the code; the host's edits use 13
byte values that start or end a head, a label or a prefix. Attestations vary one
field of report and options at a time around a genuine one, and separately combine
every chain and certificate of a forger with it; sums and products are
checked on two-byte numbers. Heads with a 4- or 8-byte argument
need strings or numbers TLC's integers do not hold; the reader treats them like
the 2-byte head. In `agent_serve` a peer makes at most `MaxGood` successful requests
per connection: a peer that goes on succeeding keeps the gateway for itself, as
the code allows. In `relay_transport` the pump may outlive the enclave's call, as
it may on a host with its own clock.

The type invariant is a property of a run only in AntiRollback (that of
Provisioning is part of its inductive invariant); elsewhere the runs spend their time on what could be wrong.

### Observations

Sentences of the repository that the models do not bear out; none of them lets money
leave twice.

- *"a failed commit means the op did NOT durably commit, full stop"*
  (`agent_boot_relay.rs:537`). When only the ack is lost the anchor has recorded the
  commit. The response stays unreleased, and the next boot adopts a dispense; after
  a structural operation it fails closed, until an operator acts.
- *"(the current authoritative state, `>=` the stale backup)"*
  (`agent_backup.rs:1233`). A refill sets the window's spend to zero, so the current
  marks can be below those of an older backup, which is then refused under the
  honest current high-water.
- *"Every privileged op (GENERATE_KEYS, CONFIGURE_TREASURY, EXPORT/RESTORE) appends
  an `AuditRecord`"* (`backlog/docs/operational-runbook.md:127`). A restore appends
  none. It also replaces the audit ring by the backup's and drops the records
  appended since: `AuditKept` has them as its third case, and says that only those are
  dropped which no export carried out between.
- The comment on `relay_one_pump` (`host_anchor_relay.rs`) says a pump overruns its
  deadline by at most one socket timeout. The deadline is checked once before each
  `write_all`, which may need several writes with a timeout each: `PumpBounded` has
  `WriteCalls` of them.
- The comment on `snapshot_restore_ephemeral` says a failed restore keeps its key; the
  frame layer retires it after every restore that reached the commit (as `RetireKey`
  does), which a comment there says is intended.

A batch of keys that its handler accepts may be refused by `seal_body`, because the
sealed blob would be too large: that is the capacity that binds, as
`agent_keystore.rs:281` and `agent_dispatch.rs:2401` say. The seal comes before the
commit, so the anchor has not moved (`RefusedOnlyUnheard`), and size is the only reason
(`RefusedForSize`).

Where the audit ring is full and nothing was exported, every audited operation
is refused, the export that would free it included; the code documents this,
and in the model it is the reason `Ops` has states where only a restore helps.

### Fairness

`AntiRollbackLive` assumes a process that runs takes its boot steps and the anchor
answers the two boot legs: what the retry loop is built for, and only after the
faults are spent. `QuoteSubprocess`
assumes that time passes and the parent acts when a wait ends; nothing is
assumed of children or of the kernel. Neither assumes anything of clients, of the
relay's commit leg or of crashes. `Provisioning` assumes that the driver takes its
own steps and that READ_TIMEOUT passes when no byte comes; a byte restarts the
timer, so that a dripping peer is refuted by the length of the frame and not by
the fairness. Nothing is assumed of the host or of the provisioner.

`RelayTransport` assumes that time passes and that each process goes on once its
system call can return: bytes are there, the peer closed or the timeout is over.
That bytes come, that a connect completes or that the anchor answers is nobody's
obligation. `AgentServe` assumes the same of the gateway, that a commit ends one
way or the other (`RelayTransport` shows it), and that the honest client connects
again while its request has not taken effect and sends it, under the same request_id,
when it is served. A write restarts its socket timeout, so a reply ends by the number of
its pieces. Faults are finite, so that the lost acks are; what is not promised is told
by `OutOfStep`: `HonestClientDone` has the request done in the end, or the anchor ahead
of the installed body for good. After a lost ack of a dispense that is so until its
client repeats it or the process boots again, after a structural one and a restart until
an operator restores. A success the client heard of survives every restart in either case.
`EnclaveServe`, `RestoreTransfer` and `ProducerBoot` are checked for safety only.

## Proofs

Each `*_proofs` module proves, for every value of the constants that satisfies the
model's assumption (`ConstantsAssumption`, `ServeAssumption`), what the run of the same component checks on a small
instance: any number of processes, requests, keys and bytes, any capacity. All
inductive invariants were checked with TLC on the run's instance before they were
proved. In all of them signatures, hashes and random draws are ideal, and what is
external (anchor, operator, provisioner, kernel) does what its actions say.

**AntiRollback_proofs**: `TypeCorrect`, `NoDoubleRelease` (`ReleasedOnce`),
`NoServingBehindRelease` (`ServingCoversReleased`), `NoCapabilityReuse`
(`CapabilityOnce`), `OneConfigPerVersion` (`SameStructuralSameConfig`),
`NoAccusation` (`NoFalseAlarm`) and the refinement `RefinesSpendLedger`.
`ReleasedOnce` is not inductive by itself: two releases of one epoch are excluded
because each was acked, what was acked is recorded, and the ledger is a function
of the request_id and of the epoch. So `IInv` adds `LedgerWellFormed`,
`AckedIsRecorded`, `ReleasedIsRecorded`, and `CandidateIsNext` (a candidate's
epoch is above everything its process released, so what is released is new).
`ServingCoversReleased` needs that a reply under the outstanding nonce was signed
after the process last released anything: `ReplyIsFresh`, which holds because
nonces are never drawn twice. The other three need where a body comes from: `HInv`
says that the anchor's past is one chain (`HistoryIsChain`), that whatever was
sealed, signed or sent stems from it (`StemsFromHistory`), that a boot adopts only
something later (`BootLooksAhead`), that a pending candidate is one operation ahead of
its body (`CandidateFollows`), and that a structural version begins with a released
operation, whose configuration all bodies of that version share (`ReleasedIsFirst`,
`ConfigIsReleased`). The refinement maps records and
released responses to the ledger; a release is a payment because `IInv` makes it
recorded and new. `LedgerAccepts` is the only trusted fact about the anchor.

**Keystore_proofs**: `SpendHolds` (`SpendWithinLimits`), `RefusedForSize` (an accepted
request fails at the seal only because its blob would be too large), `AuditHolds`
(`AuditKept`) and the action properties `MarksHold` (`MarksMoveForward`) and
`EpochOnlyHolds` (`EpochOnlyTouchesMarks`). `KInv` says two
things. A body, installed or sealed, is well formed (`BodyGood`): one entry per
key_ref, rows and keys within their capacity, and an audit ring whose records are
consecutive up to the last sequence number given out, with at least as many as were
not exported. That the ring has no gap is what makes `AuditKept` inductive: when it
is full and `record_audit` accepts, the record it drops lies below the high-water.
And a candidate differs from the installed body as its operation allows
(`CandBody`): since one request runs at a time, that is what its commit changes.
`AuditGood` says of each accepted operation where its record is: in a backup, dropped by
a restore with no export between, or in the ring with no export and no restore since.
There is one lemma for each operation of the body and one for each handler.
`SpendHolds` is about the time before a restore, as the property says.

**RestoreTransfer_proofs**: `AuthorisedHolds` (`RestoredAsAuthorised`),
`OneRestoreHolds` (`OneRestorePerKey`), `NoReplayHolds` (the action property
`NoReplayAfterRestore`) and `FailoverHolds` (`FailoverWithinBudget`), all against a host
that seals payloads of its own. `RInv`: each ceremony is consistent in itself
(`CeremoniesSound`), a restore key is drawn once, for one enclave (`KeysSound`), and an
enclave's rows are at or above what its restores barred (`BarredBelow`). Two lemmas say
what the host cannot do: an envelope with the deployment's secrets in it is one of a
ceremony (`EnvelopeFacts`), and so is a signature of our authority (`SignatureFacts`).
`FailoverHolds` has the hypothesis `SingleTreasury`: restore
capabilities have scope class 0, and one enclave starts with the treasury key. Its
invariant `FInv` says that at most one live enclave has the key or may get it, that
such an enclave answers to our authorities as long as the restore key of its ceremony
lives (`AuthorityKept`), and that its marks, or those of a ceremony prepared for it, know
of everything paid.

**Producer_proofs**, the service: `SlotsHold` (`SlotsAccounted`), `OneForkHolds`
(`OneForkPerProof`) and the action property `PoisonHolds` (`PoisonStopsService`).
`SlotInv` counts the sessions as a cardinality and follows the accept thread between
its `fetch_add`, its check and its `fetch_sub`; `ForkInv` adds that what was signed is
behind the armed height.

**QuoteSubprocess_proofs**: `BootBudgetHolds` (`BootWithinBudget`) and `ChildrenHold`
(`ChildrenAccounted`). `BudgetInv`: what the boot took, what the wait under way may
take, the rest of the attempt and the attempts left add up to no more than the
validated budget. `ChildInv`: an unreaped child is the one under way, one of the
ledger, or one of a bounded set left when the boot's ledger was dropped.

**ProvisioningOutputs_proofs** has two parts. The handshake: `AgreementHolds`
(`Agreement`), `OneKeystoreHolds` (`OneKeystorePerCeremony`) and `ServedHolds`
(`ServedIsHandedOut`). `IndInv` adds to `Agreement` that the provisioner signs once per
challenge (`SignedOnce`), that what a driver step reads was recorded before
(`Recorded`), and that a sealed enclave has read its last frame (`SealedIsLate`).
`AcceptedIsSigned` is the heart: a frame that passes the verify order carries a
transcript the provisioner signed. `HandedOut` carries `ServedHolds` over to later
boots: a file exists only where M4 was written before, so its blob left the enclave even
if that boot failed afterwards.

The bytes, of which the handshake's model assumes that they determine what they are made
of: `SignedBytes` (`SignedBytesDetermineInputs`), `SumsExact` (`ArithmeticExact`) and
`MessagesUnambiguous` (`ErrorOrSuccess`), from `PreimagesAssumption` and
`OutputsAssumption`: any lengths of digests, keys, words and measurements, any inputs of
the types the code has, strings of any length its prefixes can count. The invariants
are simple (`Job`, `Sums`, `Sent`: what a step holds is an input of its kind and the
bytes made of it); the work is in the formats. A set of strings is self-delimiting
(`Sd`) if no two of its members begin a common string; that is closed under
concatenation (`SdConcat`) and holds of fixed widths, CBOR heads, length prefixes, RLP
items and ABI words. A field written to a self-delimiting string from which it can be
read back is `Coded`, and a record of coded fields is determined by its bytes
(`SameFields`), whatever follows. Two forms are told apart by their domain strings, their
first bytes, or their labels (`SameForm`). The set of restored identities is hashed in
its one order (`Enumerated`, `SortedOnto`). `RippleExact` follows the carries of an
addition from the last digit. For a message, `MessageReads` shows that a peer reads
back the values written, on one schema or the other, and `NoText` that an error's field
is none of a success. Where a proof needs an induction, over the length of a string,
the digits of a number or the fields of a record, it takes the least element of a set
of naturals (`Least`, from the well-foundedness of inclusion on finite sets), and a
recursive function is shown to exist before its equation is used (`Recursion`).

From the same lemmas, three theorems about the remote verifier. `AttestedByAChip`:
whatever certificates the host adds, leaves out or puts in the place of others, a report
that `run` accepts is a chip's own, of a product under the pinned root, and says what
was asked. It assumes what AMD's keys sign (`AmdSigned`) and, where the operator names a
chain of their own, that its root is AMD's (`TrustsAmd`). `ChipIsAccepted` is the
converse: a genuine report passes, with the two certificates in either order.
`OneReportOneUse`: no two keys, restores or completions have the same report data, so a
report vouches for one of them at most.

**SignedDocs_proofs** is about the bytes others make, and rests on the lemmas of
ProvisioningOutputs_proofs: `StrictReaderIsCanonical` (two buffers read as one value are one
buffer), `DocumentsAreCanonical` (a signed document is the encoding of what its parser
read), `AcceptedAsSigned` (a verifier takes a document only as the kind and in the bytes
that were signed, up to the provisioner's certificate, which the signature does not
cover) and `MarksAreCanonical` (a marks payload that is accepted is the encoding of what
is read from it, which is what the comment at `agent_boot.rs:233` relies on). The reader
is a function of the position and the nesting level, and the proofs compare the reads
of two buffers head by head, level by level. What `AcceptedIsCanonical` and
`SignatureBindsBytes` check beyond that, the encoder of arbitrary values and the sealed
containers, stays with TLC.

**Producer_proofs**, the boot: `ManifestHolds` (`ManifestUsable`), `FetchHolds`
(`FetchUndisturbed`) and `AttestedHolds` (`AttestedKeyServed`), from one invariant for
each place: the ceremony's files (`CeremonyInv`), a fetch alone under its configfs name
(`FetchInv`), and the key of an instance, which does not change once its report was
asked for (`ProcInv`).

**RelayTransport_proofs**: `DeadlinesProved` (`DeadlinesHold`) and `ChannelSafety`, the
safety part of the refinement `Channel`: initial states map to initial states, every
step to a step of AnchorChannel or a stutter. `TimersInv` keeps elapsed time plus what
the deadline leaves under the budget, and for a lapsed pump one socket timeout per
write call left. `ChannelInv` says that a frame or an answer is only found on the
connection of the call that sent it (`OnWires`, `InHand`) and that a number belongs to
one call (`CallsOwn`).

Left to TLC:

- liveness, which needs fairness and ENABLED: `LostAckHeals`, `BootAndFetchesEnd`,
  `ConnectedEnds`, `EveryGuestServed`, `EveryPeerReached`, `HonestClientDone`, and the
  fairness part of `Channel`;
- `AcceptedIsCanonical` and `SignatureBindsBytes` as they stand: the first runs the
  encoder of nested values, a RECURSIVE operator, of which the provers cannot speak, and
  the second includes the sealed containers. What they say of the reader, the documents
  and the verifiers is proved (`StrictReaderIsCanonical`, `DocumentsAreCanonical`,
  `AcceptedAsSigned`, `MarksAreCanonical`, `AttestedByAChip`);
- `RefusedOnlyUnheard`: it is an invariant of a module whose other properties are
  liveness, and AgentServe has no proof module.

## Plan

The safety properties of the runs are proved, except those three. What is left:

1. the sealed containers of Envelopes, opened from one buffer only;
2. the type invariants of the modules whose theorems now carry them as parts of
   larger invariants, as results of their own;
3. the step simulation between `Keystore` and the abstract body of `AntiRollback`;
4. `RefusedOnlyUnheard` for every value of the constants.

## Not modelled

- Cryptographic primitives (`secp256k1`, `mldsa65`, KEM, AEAD, hashes): ideal
  everywhere.
- DER, X.509 and the parsing of report fields beyond what `Attestation` decides on.
- ciborium, UTF-8 beyond single bytes, serde of the manifest.
- Listeners, addresses, environment variables, event lines, the contract server,
  the lab and smoke clients, the Elixir shim, the Nix images and scripts: I/O or
  test tools without state of their own.
- Unit tests, about half of the crate's lines, which live in the files they test.

`PROJECT.json` gives the reason for each component and, for hazards that no
property covers, why.
