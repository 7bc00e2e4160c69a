---------------------------- MODULE ProducerBoot ----------------------------
(***************************************************************************)
(* The producer's sealed key from the ceremony to the attested service.    *)
(*   - on the workstation, pq-seal-v1 seals the key once per host root and *)
(*     writes the blobs and the manifest (pq-seal-v1/src/main.rs,          *)
(*     pq-seal-manifest);                                                  *)
(*   - in the guest, snp-derive-root writes the root file, and the enclave *)
(*     binary reads it, unseals the signer, has the key attested through   *)
(*     configfs-tsm, passes the boot gate and serves (bin/enclave_vsock.rs,*)
(*     seal_root.rs, pq_signer.rs, snp_report.rs, lib.rs).                 *)
(*                                                                         *)
(* Processes die at any step and a new instance may start before the old   *)
(* one is gone; both use the one configfs entry of the producer.  Quote    *)
(* children of an agent gateway sweep the same directory.                  *)
(***************************************************************************)
EXTENDS Naturals, Sequences

CONSTANTS
    Procs,      \* instances of enclave-vsock
    Builds,     \* of "release", "lab" and "debug" (transport-only allowed)
    Pids,       \* process ids of quote children
    Keys,       \* producer public keys; the secret key goes with each
    Labels,     \* host labels of a ceremony
    Roots,      \* provisioning roots
    Own,        \* the root of this chip and image
    Image,      \* the launch measurement of this guest
    Meas,       \* measurements an operator may seal against
    MaxSeals,   \* bound: ceremonies, of either kind
    MaxFaults   \* bound: crashes, wedges and faults of disk and provider

ASSUME ConstantsAssumption ==
    /\ Own \in Roots /\ Image \in Meas
    /\ Builds \subseteq {"release", "lab", "debug"}
    /\ Procs \cap Pids = {} /\ "twod-hsm" \notin Pids
    /\ Keys \cap {"none", "absent", "empty", "placeholder"} = {}
    /\ Roots \cap {"none", "absent", "torn"} = {}
    /\ MaxSeals \in Nat /\ MaxFaults \in Nat

VARIABLES
    tool,       \* the running `manifest build`
    tree,       \* its --out-dir
    shelf,      \* whole blobs the host has
    rootFile,   \* /run/twod-hsm/pq-seal-root.bin
    proc,       \* the enclave processes
    fetch,      \* each fetcher's place in fetch_report_with_at
    entries,    \* configfs report entries: absent, empty, or their inblob
    seals,      \* ceremonies so far
    faults      \* faults so far

vars == <<tool, tree, shelf, rootFile, proc, fetch, entries, seals, faults>>

Ceremony == <<tool, tree, seals>>
Guest == <<rootFile, proc, fetch, entries>>

Fault == faults < MaxFaults /\ faults' = faults + 1

-----------------------------------------------------------------------------
(* The sealed blob *)

\* seal_mldsa65_keypair_v1_with_root
Seal(key, meas, root) == [key |-> key, meas |-> meas, root |-> root]

\* unseal_mldsa65_keypair_v1_with_root: the digest in the header, then the AEAD
\* under the key derived from root and digest.
Unseals(blob, meas, root) == blob.meas = meas /\ blob.root = root

-----------------------------------------------------------------------------
(* The ceremony *)

\* A `--host LABEL=ROOTFILE` list.
Host == [label : Labels, root : Roots]

\* cmd_manifest_build refuses a label or a root it has seen.
HostsFit(hosts) ==
    \A i, j \in DOMAIN hosts :
        i # j => hosts[i].label # hosts[j].label /\ hosts[i].root # hosts[j].root

NoTree == [dir |-> FALSE, blobs |-> << >>, manifest |-> "absent",
           meas |-> Image, entries |-> << >>]

Idle == [step |-> "idle", key |-> "none", meas |-> Image, hosts |-> << >>]

\* Everything is sealed in memory first; then --out-dir is created fresh.
BuildStarts(key, meas, hosts) ==
    /\ tool.step = "idle"
    /\ HostsFit(hosts)
    /\ ~ tree.dir
    /\ seals < MaxSeals
    /\ seals' = seals + 1
    /\ tool' = [step |-> "writing", key |-> key, meas |-> meas, hosts |-> hosts]
    /\ tree' = [NoTree EXCEPT !.dir = TRUE]
    /\ UNCHANGED <<shelf, faults>>
    /\ UNCHANGED Guest

Manifest ==
    [tree EXCEPT !.manifest = "whole", !.meas = tool.meas,
                 !.entries = [i \in DOMAIN tool.hosts |->
                                [commitment |-> tool.hosts[i].root, blob |-> i]]]

BlobsWritten == Len(tree.blobs)

\* Mutant: the manifest is written before the blobs it names.
BugManifestDue == tree.manifest = "absent"

\* write_manifest_tree writes the manifest after the last blob.
ManifestDue == BlobsWritten = Len(tool.hosts)

WritesBlob ==
    /\ tool.step = "writing"
    /\ ~ ManifestDue
    /\ LET h == tool.hosts[BlobsWritten + 1]
           b == Seal(tool.key, tool.meas, h.root)
       IN  /\ tree' = [tree EXCEPT !.blobs = Append(@, b)]
           /\ shelf' = shelf \cup {b}
    /\ UNCHANGED <<tool, seals, faults>>
    /\ UNCHANGED Guest

WritesManifest ==
    /\ tool.step = "writing"
    /\ ManifestDue
    /\ tree' = Manifest
    /\ tool' = Idle
    /\ UNCHANGED <<shelf, seals, faults>>
    /\ UNCHANGED Guest

\* A write fails: the tree this run created is removed.  (A removal that fails
\* leaves what BuildCrashes leaves, or less.)
BuildFails ==
    /\ tool.step = "writing"
    /\ Fault
    /\ tree' = NoTree
    /\ tool' = Idle
    /\ UNCHANGED <<shelf, seals>>
    /\ UNCHANGED Guest

\* The tool is killed: the file it was writing may be there in part.
BuildCrashes ==
    /\ tool.step = "writing"
    /\ Fault
    /\ tool' = Idle
    /\ \E torn \in BOOLEAN :
          tree' = IF torn /\ ManifestDue THEN [tree EXCEPT !.manifest = "torn"] ELSE tree
    /\ UNCHANGED <<shelf, seals>>
    /\ UNCHANGED Guest

\* The operator clears a tree or moves it to the hosts.
OperatorClears ==
    /\ tool.step = "idle"
    /\ tree.dir
    /\ tree' = NoTree
    /\ UNCHANGED <<tool, shelf, seals, faults>>
    /\ UNCHANGED Guest

\* cmd_seal: one blob for one root.
SealOne(key, meas, root) ==
    /\ seals < MaxSeals
    /\ seals' = seals + 1
    /\ shelf' = shelf \cup {Seal(key, meas, root)}
    /\ UNCHANGED <<tool, tree, faults>>
    /\ UNCHANGED Guest

\* Manifest::from_json: a torn file does not parse, two equal commitments are refused.
FromJson ==
    /\ tree.manifest = "whole"
    /\ \A i, j \in DOMAIN tree.entries :
          i # j => tree.entries[i].commitment # tree.entries[j].commitment

\* Manifest::select by the caller's own root.
Select(root) == {i \in DOMAIN tree.entries : tree.entries[i].commitment = root}

-----------------------------------------------------------------------------
(* The root file *)

\* snp-derive-root: the key is fetched, the old file removed, the new one written
\* and synced.  An all-zero key or a failing ioctl leaves the old file.
DeriveRoot ==
    /\ rootFile' = Own
    /\ rootFile # Own
    /\ UNCHANGED Ceremony
    /\ UNCHANGED <<shelf, proc, fetch, entries, faults>>

\* Killed after the remove or during the write.
DeriveCrashes ==
    /\ Fault
    /\ rootFile' \in {"absent", "torn"}
    /\ UNCHANGED Ceremony
    /\ UNCHANGED <<shelf, proc, fetch, entries>>

\* read_provisioning_root_file: exactly 32 bytes.
ReadRoot == IF rootFile \in Roots THEN rootFile ELSE "none"

-----------------------------------------------------------------------------
(* configfs-tsm *)

Fetchers == Procs \cup Pids

\* TSM_ENTRY_NAME for every producer, twod-hsm-q-<pid> for a child.
Name(f) == IF f \in Procs THEN "twod-hsm" ELSE f
Names == {"twod-hsm"} \cup Pids

NotFetching == [step |-> "none", want |-> "none", got |-> "none",
                doomed |-> FALSE, excused |-> FALSE]

\* An open attribute file keeps its entry from being removed.
Held(n) == \E f \in Fetchers : Name(f) = n /\ fetch[f].step = "wedged"

\* RealTsmFs::remove_entry ignores errors.
RemoveEntry(n) == IF Held(n) THEN entries[n] ELSE "absent"

\* Starting under a name another fetcher uses disturbs both: not an unexcused failure.
Starts(f, data, step) ==
    [g \in Fetchers |->
        IF g = f
        THEN [step |-> step, want |-> data, got |-> "none", doomed |-> FALSE,
              excused |-> \E h \in Fetchers \ {f} :
                             Name(h) = Name(f) /\ fetch[h].step # "none"]
        ELSE IF Name(g) = Name(f) /\ fetch[g].step # "none"
             THEN [fetch[g] EXCEPT !.excused = TRUE]
             ELSE fetch[g]]

StaleClear(n) == RemoveEntry(n)

TsmUnchanged == UNCHANGED <<tool, tree, shelf, rootFile, seals>>

ClearsStale(f) ==
    /\ fetch[f].step = "clear"
    /\ entries' = [entries EXCEPT ![Name(f)] = StaleClear(Name(f))]
    /\ fetch' = [fetch EXCEPT ![f].step = "create"]
    /\ UNCHANGED <<proc, faults>>
    /\ TsmUnchanged

\* create_dir fails on an entry that exists.
CreatesEntry(f) ==
    /\ fetch[f].step = "create"
    /\ IF entries[Name(f)] = "absent"
       THEN /\ entries' = [entries EXCEPT ![Name(f)] = "empty"]
            /\ fetch' = [fetch EXCEPT ![f].step = "write"]
       ELSE /\ fetch' = [fetch EXCEPT ![f].step = "cleanup"]
            /\ UNCHANGED entries
    /\ UNCHANGED <<proc, faults>>
    /\ TsmUnchanged

\* open inblob fails when the entry is gone.
WritesInblob(f) ==
    /\ fetch[f].step = "write"
    /\ IF entries[Name(f)] # "absent"
       THEN /\ entries' = [entries EXCEPT ![Name(f)] = fetch[f].want]
            /\ fetch' = [fetch EXCEPT ![f].step = "read"]
       ELSE /\ fetch' = [fetch EXCEPT ![f].step = "cleanup"]
            /\ UNCHANGED entries
    /\ UNCHANGED <<proc, faults>>
    /\ TsmUnchanged

\* outblob is the report over the inblob the entry holds now; then the bounds
\* and the auxblob.
ReadsOutblob(f) ==
    /\ fetch[f].step = "read"
    /\ fetch' = [fetch EXCEPT ![f].step = "cleanup",
                              ![f].got = IF entries[Name(f)] \in {"absent", "empty"}
                                         THEN "none" ELSE entries[Name(f)]]
    /\ UNCHANGED <<entries, proc, faults>>
    /\ TsmUnchanged

\* The provider refuses, or answers short or oversize.
ProviderFails(f) ==
    /\ fetch[f].step \in {"create", "write", "read"}
    /\ Fault
    /\ fetch' = [fetch EXCEPT ![f].step = "cleanup", ![f].excused = TRUE]
    /\ UNCHANGED <<entries, proc>>
    /\ TsmUnchanged

\* The provider does not answer, and later does.
Wedges(f) ==
    /\ fetch[f].step = "read"
    /\ entries[Name(f)] # "absent"
    /\ Fault
    /\ fetch' = [fetch EXCEPT ![f].step = "wedged"]
    /\ UNCHANGED <<entries, proc>>
    /\ TsmUnchanged

Unwedges(f) ==
    /\ fetch[f].step = "wedged"
    /\ fetch' = [fetch EXCEPT ![f] = IF @.doomed THEN NotFetching
                                                 ELSE [@ EXCEPT !.step = "read"]]
    /\ UNCHANGED <<entries, proc, faults>>
    /\ TsmUnchanged

\* A killed process leaves its entry; one in the kernel lingers until it returns.
KilledFetch(f) ==
    [fetch EXCEPT ![f] = IF @.step = "wedged" THEN [@ EXCEPT !.doomed = TRUE]
                                              ELSE NotFetching]

-----------------------------------------------------------------------------
(* The quote child of an agent gateway: sweep, fetch, exit *)

\* Mutant: the prefix is the producer's name.
BugSwept == Names

\* gc_quote_entries_best_effort: names that start with twod-hsm-q-.
Swept == Pids

\* The parent keeps one child running; stuck ones linger.
SpawnsChild(c) ==
    /\ \A d \in Pids : fetch[d].step \in {"none", "wedged"}
    /\ fetch[c].step = "none"
    /\ fetch' = Starts(c, "handshake", "clear")
    /\ entries' = [n \in Names |-> IF n \in Swept THEN RemoveEntry(n) ELSE entries[n]]
    /\ UNCHANGED <<proc, faults>>
    /\ TsmUnchanged

ChildCleansUp(c) ==
    /\ fetch[c].step = "cleanup"
    /\ entries' = [entries EXCEPT ![Name(c)] = RemoveEntry(Name(c))]
    /\ fetch' = [fetch EXCEPT ![c] = NotFetching]
    /\ UNCHANGED <<proc, faults>>
    /\ TsmUnchanged

\* The parent's deadline lapses.
ChildKilled(c) ==
    /\ fetch[c].step # "none" /\ ~ fetch[c].doomed
    /\ Fault
    /\ fetch' = KilledFetch(c)
    /\ UNCHANGED <<entries, proc>>
    /\ TsmUnchanged

-----------------------------------------------------------------------------
(* bin/enclave_vsock.rs run() *)

Off == [pc |-> "off", build |-> "none", root |-> "none", signer |-> "none",
        attestation |-> "none"]

BootUnchanged == UNCHANGED <<tool, tree, shelf, rootFile, seals>>

\* A new instance; one whose process is still in the kernel is not started again.
Start(p, build) ==
    /\ proc[p].pc = "off"
    /\ fetch[p].step = "none"
    /\ proc' = [proc EXCEPT ![p] = [Off EXCEPT !.pc = "root", !.build = build]]
    /\ UNCHANGED <<fetch, entries, faults>>
    /\ BootUnchanged

\* boot_configure_pq_seal_v1_platform_root: without a root only a transport-only
\* debug build goes on.
ConfigureRoot(p) ==
    /\ proc[p].pc = "root"
    /\ proc' = [proc EXCEPT ![p] =
                  IF ReadRoot # "none" \/ proc[p].build = "debug"
                  THEN [@ EXCEPT !.pc = "signer", !.root = ReadRoot]
                  ELSE Off]
    /\ UNCHANGED <<fetch, entries, faults>>
    /\ BootUnchanged

\* resolve_provisioning_root: the root this process was booted with, if any.
ResolvedRoot(p) == proc[p].root

\* install_sealed_pq_signer: unsealed under the own root, and once.
InstallSigner(p, blob) ==
    /\ ResolvedRoot(p) # "none"
    /\ Unseals(blob, Image, ResolvedRoot(p))
    /\ proc[p].signer = "none"

\* boot_install_lab_sealed_signer_from_file: the file the host gives, or exit.
LabInstalls(p) ==
    /\ proc[p].pc = "signer"
    /\ proc[p].build = "lab"
    /\ proc' = [proc EXCEPT ![p] = Off]
       \/ \E b \in shelf : InstallSigner(p, b)
            /\ proc' = [proc EXCEPT ![p].signer = b.key, ![p].pc = "capture"]
    /\ UNCHANGED <<fetch, entries, faults>>
    /\ BootUnchanged

\* Other builds: a platform hook offers blobs, before and after the capture.
HookInstalls(p, blob) ==
    /\ proc[p].pc \in {"signer", "capture", "fetching", "gate", "serving"}
    /\ proc[p].pc # "signer" => proc[p].signer # "none"
    /\ proc[p].build # "lab"
    /\ blob \in shelf
    /\ InstallSigner(p, blob)
    /\ proc' = [proc EXCEPT ![p].signer = blob.key]
    /\ UNCHANGED <<fetch, entries, faults>>
    /\ BootUnchanged

HookDone(p) ==
    /\ proc[p].pc = "signer"
    /\ proc[p].build # "lab"
    /\ proc' = [proc EXCEPT ![p].pc = "capture"]
    /\ UNCHANGED <<fetch, entries, faults>>
    /\ BootUnchanged

\* boot_capture_snp_measurement: nothing to bind without a signer.
Capture(p) ==
    /\ proc[p].pc = "capture"
    /\ IF proc[p].signer = "none"
       THEN /\ proc' = [proc EXCEPT ![p].pc = "gate"]
            /\ UNCHANGED fetch
       ELSE /\ proc' = [proc EXCEPT ![p].pc = "fetching"]
            /\ fetch' = Starts(p, proc[p].signer, "clear")
    /\ UNCHANGED <<entries, faults>>
    /\ BootUnchanged

\* Mutant: the report is not compared with what was asked.
BugVerifyAndExtract(p) == fetch[p].got

\* verify_and_extract_measurement: the report must echo the requested binding.
VerifyAndExtract(p) == IF fetch[p].got = fetch[p].want THEN fetch[p].got ELSE "none"

\* The trailing cleanup, the check and boot_fetch_and_cache.
Captured(p) ==
    /\ proc[p].pc = "fetching"
    /\ fetch[p].step = "cleanup"
    /\ entries' = [entries EXCEPT ![Name(p)] = RemoveEntry(Name(p))]
    /\ fetch' = [fetch EXCEPT ![p] = NotFetching]
    /\ proc' = [proc EXCEPT ![p].pc = "gate", ![p].attestation = VerifyAndExtract(p)]
    /\ UNCHANGED faults
    /\ BootUnchanged

\* snp_attestation_boot_gate
BootGate(p) ==
    ~ (proc[p].build = "release" /\ proc[p].signer # "none" /\ proc[p].attestation = "none")

Gate(p) ==
    /\ proc[p].pc = "gate"
    /\ proc' = [proc EXCEPT ![p] = IF BootGate(p) THEN [@ EXCEPT !.pc = "serving"] ELSE Off]
    /\ UNCHANGED <<fetch, entries, faults>>
    /\ BootUnchanged

\* The process dies, or stops at its listener or its trust file.
Dies(p) ==
    /\ proc[p].pc # "off"
    /\ Fault
    /\ proc' = [proc EXCEPT ![p] = Off]
    /\ fetch' = KilledFetch(p)
    /\ UNCHANGED entries
    /\ BootUnchanged

\* measurement_response and resolve_measurement_and_attestation
MeasurementResponse(p) ==
    [pq_pubkey |-> proc[p].signer,
     pq_signing_ready |-> proc[p].signer # "none",
     attestation |-> IF proc[p].attestation = "none"
                     THEN "placeholder" ELSE proc[p].attestation]

-----------------------------------------------------------------------------

Init ==
    /\ tool = Idle
    /\ tree = NoTree
    /\ shelf = {}
    /\ rootFile = "absent"
    /\ proc = [p \in Procs |-> Off]
    /\ fetch = [f \in Fetchers |-> NotFetching]
    /\ entries = [n \in Names |-> "absent"]
    /\ seals = 0
    /\ faults = 0

HostLists == UNION {[1 .. n -> Host] : n \in 1 .. 2}

CeremonyNext ==
    \/ \E k \in Keys, m \in Meas, hs \in HostLists : BuildStarts(k, m, hs)
    \/ WritesBlob
    \/ WritesManifest
    \/ BuildFails
    \/ BuildCrashes
    \/ OperatorClears
    \/ \E k \in Keys, m \in Meas, r \in Roots : SealOne(k, m, r)

TsmNext ==
    \/ \E f \in Fetchers :
          ClearsStale(f) \/ CreatesEntry(f) \/ WritesInblob(f) \/ ReadsOutblob(f)
            \/ ProviderFails(f) \/ Wedges(f) \/ Unwedges(f)
    \/ \E c \in Pids : SpawnsChild(c) \/ ChildCleansUp(c) \/ ChildKilled(c)

BootNext ==
    \/ DeriveRoot
    \/ DeriveCrashes
    \/ \E p \in Procs :
          \/ \E b \in Builds : Start(p, b)
          \/ ConfigureRoot(p) \/ LabInstalls(p) \/ HookDone(p)
          \/ Capture(p) \/ Captured(p) \/ Gate(p) \/ Dies(p)
          \/ \E b \in shelf : HookInstalls(p, b)

\* The workstation and the guest meet only in the shelf, which only grows: to
\* have every ceremony before the first boot loses no behaviour of either.
NotBooted ==
    /\ rootFile = "absent"
    /\ proc = [p \in Procs |-> Off]
    /\ fetch = [f \in Fetchers |-> NotFetching]
    /\ entries = [n \in Names |-> "absent"]

Next ==
    \/ NotBooted /\ CeremonyNext
    \/ ~ tree.dir /\ (TsmNext \/ BootNext)

Spec == Init /\ [][Next]_vars

-----------------------------------------------------------------------------
(* Properties *)

\* The report GET_MEASUREMENT returns binds the key it advertises and the
\* service signs with, although another instance with another key fetches
\* through the same configfs entry, or a hook offers a second blob after the
\* capture; a release with a signer never serves the placeholder
\* (snp_attestation_boot_gate).
AttestedKeyServed ==
    \A p \in Procs : proc[p].pc = "serving" =>
        LET r == MeasurementResponse(p)
        IN  /\ r.attestation # "placeholder" => r.attestation = r.pq_pubkey
            /\ proc[p].build = "release" /\ r.pq_signing_ready => r.attestation # "placeholder"

\* A fetch the provider answers, and under whose name no other process fetches,
\* brings back the report it asked for: neither what dead processes left in
\* configfs nor the sweep of a quote child gets in its way
\* (fetch_report_with_at, gc_quote_entries_best_effort).
FetchUndisturbed ==
    \A f \in Fetchers :
        fetch[f].step = "cleanup" /\ ~ fetch[f].excused => fetch[f].got = fetch[f].want

\* Whatever failed or died during the ceremony, a manifest that parses can be
\* used by every host it names: its own root selects one entry, whose blob is
\* there and unseals under that root and the manifest's measurement
\* (cmd_manifest_build, Manifest::select).
ManifestUsable ==
    tree.manifest = "whole" =>
        /\ FromJson
        /\ \A e \in DOMAIN tree.entries :
              LET root == tree.entries[e].commitment
              IN  \E i \in DOMAIN tree.entries :
                     /\ Select(root) = {i}
                     /\ tree.entries[i].blob \in DOMAIN tree.blobs
                     /\ Unseals(tree.blobs[tree.entries[i].blob], tree.meas, root)
=============================================================================
