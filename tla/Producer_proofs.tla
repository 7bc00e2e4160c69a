--------------------------- MODULE Producer_proofs ---------------------------
(***************************************************************************)
(* Proofs about the producer: how its key comes to serve (ProducerBoot),   *)
(* for any number of instances, quote children, keys and roots; and the    *)
(* service itself (EnclaveServe), for any number of connections, any       *)
(* session cap, idle budget and heights.                                   *)
(*                                                                         *)
(* For the boot three invariants, one for each place where things can go   *)
(* wrong:                                                                  *)
(*   - the ceremony (CeremonyInv): while the tool writes, blob i is the    *)
(*     seal of the key under the root of host i;                           *)
(*   - configfs (FetchInv): a fetch that nobody disturbed is alone under   *)
(*     its name, and the entry holds what its own last step left there;    *)
(*   - the boot (ProcInv): what is cached was asked for with the key that  *)
(*     is installed, and the key does not change after it is asked for.    *)
(***************************************************************************)
EXTENDS ProducerBoot, EnclaveServe, FiniteSetTheorems, SequenceTheorems, TLAPS

-----------------------------------------------------------------------------
(* The boot *)

Blob == [key : Keys, meas : Meas, root : Roots]

ToolType ==
    /\ tool \in [step : {"idle", "writing"}, key : Keys \cup {"none"}, meas : Meas,
                 hosts : Seq(Host)]
    /\ shelf \subseteq Blob

\* The state of a ceremony whose tool is writing.
WritingOK ==
    /\ tool.key \in Keys
    /\ HostsFit(tool.hosts)
    /\ tree.manifest = "absent"
    /\ Len(tree.blobs) <= Len(tool.hosts)
    /\ \A i \in 1 .. Len(tree.blobs) :
          tree.blobs[i] = Seal(tool.key, tool.meas, tool.hosts[i].root)

TreeType ==
    tree \in [dir : BOOLEAN, blobs : Seq(Blob), manifest : {"absent", "torn", "whole"},
              meas : Meas, entries : Seq([commitment : Roots, blob : Nat])]

CeremonyInv ==
    /\ ToolType
    /\ TreeType
    /\ tool.step = "writing" => WritingOK
    /\ ManifestUsable

-----------------------------------------------------------------------------
(* The ceremony *)

LEMMA HostListsType == HostLists \subseteq Seq(Host)
  <1> SUFFICES ASSUME NEW hs \in HostLists PROVE hs \in Seq(Host)
    OBVIOUS
  <1>1. PICK n \in 1 .. 2 : hs \in [1 .. n -> Host]
    BY DEF HostLists
  <1>2. n \in Nat
    OBVIOUS
  <1>. QED
    BY <1>1, <1>2, SeqDef

LEMMA NoTreeType ==
  /\ NoTree \in [dir : BOOLEAN, blobs : Seq(Blob), manifest : {"absent", "torn", "whole"},
                 meas : Meas, entries : Seq([commitment : Roots, blob : Nat])]
  /\ NoTree.manifest = "absent" /\ NoTree.blobs = << >>
  BY ConstantsAssumption DEF NoTree

LEMMA IdleType ==
  /\ Idle \in [step : {"idle", "writing"}, key : Keys \cup {"none"}, meas : Meas, hosts : Seq(Host)]
  /\ Idle.step = "idle"
  BY ConstantsAssumption DEF Idle

\* A tree without a whole manifest promises nothing.
LEMMA NoManifest == tree.manifest # "whole" => ManifestUsable
  BY DEF ManifestUsable

LEMMA InitCeremony == Init => CeremonyInv
  BY NoTreeType, IdleType DEF Init, CeremonyInv, ToolType, TreeType, ManifestUsable

LEMMA BuildStartsKeeps ==
  ASSUME CeremonyInv, NEW k \in Keys, NEW m \in Meas, NEW hs \in HostLists, BuildStarts(k, m, hs)
  PROVE  CeremonyInv'
  <1>1. hs \in Seq(Host)
    BY HostListsType
  <1>2. /\ tool' = [step |-> "writing", key |-> k, meas |-> m, hosts |-> hs]
        /\ tree' = [NoTree EXCEPT !.dir = TRUE] /\ shelf' = shelf /\ HostsFit(hs)
    BY DEF BuildStarts
  <1>3. ToolType'
    BY <1>1, <1>2 DEF CeremonyInv, ToolType
  <1>4. /\ TreeType' /\ tree'.manifest = "absent" /\ tree'.blobs = << >>
    <2>1. PICK t : t = NoTree
      OBVIOUS
    <2>2. tree' = [t EXCEPT !.dir = TRUE]
      BY <1>2, <2>1
    <2>. QED
      BY <2>1, <2>2, NoTreeType DEF TreeType
  <1>5. WritingOK'
    <2>1. tool'.key = k /\ tool'.hosts = hs /\ Len(hs) \in Nat
      BY <1>1, <1>2
    <2>2. Len(tree'.blobs) = 0 /\ 1 .. Len(tree'.blobs) = {}
      BY <1>4
    <2>3. HostsFit(tool.hosts)'
      BY <1>2, <2>1 DEF HostsFit
    <2>. QED
      BY <1>4, <2>1, <2>2, <2>3 DEF WritingOK
  <1>6. ManifestUsable'
    BY <1>4 DEF ManifestUsable
  <1>. QED
    BY <1>3, <1>4, <1>5, <1>6 DEF CeremonyInv

LEMMA WritesBlobKeeps ==
  ASSUME CeremonyInv, WritesBlob
  PROVE  CeremonyInv'
  <1>1. PICK h, b : /\ h = tool.hosts[Len(tree.blobs) + 1]
                    /\ b = Seal(tool.key, tool.meas, h.root)
                    /\ tree' = [tree EXCEPT !.blobs = Append(@, b)]
                    /\ shelf' = shelf \cup {b}
                    /\ tool' = tool
    BY DEF WritesBlob, BlobsWritten
  <1>2. /\ tool.step = "writing" /\ WritingOK /\ tool.hosts \in Seq(Host) /\ tool.meas \in Meas
        /\ tree.blobs \in Seq(Blob) /\ Len(tree.blobs) # Len(tool.hosts)
    BY DEF WritesBlob, CeremonyInv, ToolType, TreeType, ManifestDue, BlobsWritten
  <1>3. Len(tree.blobs) \in Nat /\ Len(tool.hosts) \in Nat /\ Len(tree.blobs) + 1 <= Len(tool.hosts)
    BY <1>2 DEF WritingOK
  <1>4. h \in Host
    BY <1>1, <1>2, <1>3
  <1>5. b \in Blob
    BY <1>1, <1>2, <1>4 DEF Seal, Blob, Host, WritingOK
  <1>6. ToolType'
    BY <1>1, <1>5 DEF CeremonyInv, ToolType
  <1>7. /\ tree'.blobs = Append(tree.blobs, b) /\ tree'.manifest = "absent" /\ TreeType'
    <2>1. Append(tree.blobs, b) \in Seq(Blob)
      BY <1>2, <1>5
    <2>. QED
      BY <1>1, <1>2, <2>1 DEF CeremonyInv, TreeType, WritingOK
  <1>8. WritingOK'
    <2>1. Len(tree'.blobs) = Len(tree.blobs) + 1
      BY <1>2, <1>5, <1>7
    <2>2. ASSUME NEW i \in 1 .. Len(tree'.blobs)
          PROVE  tree'.blobs[i] = Seal(tool.key, tool.meas, tool.hosts[i].root)
      <3>1. CASE i = Len(tree.blobs) + 1
        BY <1>1, <1>2, <1>5, <1>7, <3>1
      <3>2. CASE i # Len(tree.blobs) + 1
        <4>1. i \in 1 .. Len(tree.blobs)
          BY <1>3, <2>1, <3>2
        <4>2. tree'.blobs[i] = tree.blobs[i]
          BY <1>2, <1>5, <1>7, <4>1
        <4>. QED
          BY <1>2, <4>1, <4>2 DEF WritingOK
      <3>. QED
        BY <3>1, <3>2
    <2>3. HostsFit(tool.hosts)'
      BY <1>1, <1>2 DEF WritingOK, HostsFit
    <2>. QED
      BY <1>1, <1>2, <1>3, <1>7, <2>1, <2>2, <2>3 DEF WritingOK, Seal
  <1>9. ManifestUsable'
    BY <1>7 DEF ManifestUsable
  <1>. QED
    BY <1>6, <1>7, <1>8, <1>9 DEF CeremonyInv

\* The manifest goes last, when every blob it names is there.
LEMMA WritesManifestKeeps ==
  ASSUME CeremonyInv, WritesManifest
  PROVE  CeremonyInv'
  <1>1. /\ tool.step = "writing" /\ WritingOK /\ tool.hosts \in Seq(Host) /\ tool.meas \in Meas
        /\ tree.blobs \in Seq(Blob) /\ Len(tree.blobs) = Len(tool.hosts)
        /\ tree' = Manifest /\ tool' = Idle /\ shelf' = shelf
    BY DEF WritesManifest, CeremonyInv, ToolType, TreeType, ManifestDue, BlobsWritten
  <1>2. PICK es : es = [i \in DOMAIN tool.hosts |-> [commitment |-> tool.hosts[i].root, blob |-> i]]
    OBVIOUS
  <1>3. PICK n \in Nat : n = Len(tool.hosts) /\ DOMAIN tool.hosts = 1 .. n
    BY <1>1
  <1>4. \A i \in 1 .. n : tool.hosts[i].root \in Roots
    <2>1. \A i \in 1 .. n : tool.hosts[i] \in Host
      BY <1>1, <1>3, ElementOfSeq
    <2>. QED
      BY <2>1 DEF Host
  <1>5. /\ DOMAIN es = 1 .. n /\ es \in Seq([commitment : Roots, blob : Nat])
        /\ \A i \in 1 .. n : es[i].commitment = tool.hosts[i].root /\ es[i].blob = i
    <2>1. DOMAIN es = 1 .. n /\ \A i \in 1 .. n : es[i] = [commitment |-> tool.hosts[i].root, blob |-> i]
      BY <1>2, <1>3
    <2>2. es = [i \in 1 .. n |-> es[i]]
      BY <1>2, <1>3
    <2>3. \A i \in 1 .. n : es[i] \in [commitment : Roots, blob : Nat]
      BY <1>4, <2>1
    <2>4. es \in [1 .. n -> [commitment : Roots, blob : Nat]]
      BY <2>2, <2>3
    <2>5. es \in Seq([commitment : Roots, blob : Nat])
      BY <2>4, SeqDef
    <2>. QED
      BY <2>1, <2>5
  <1>6. /\ TreeType' /\ tree'.manifest = "whole" /\ tree'.meas = tool.meas
        /\ tree'.entries = es /\ tree'.blobs = tree.blobs
    BY <1>1, <1>2, <1>5 DEF Manifest, CeremonyInv, TreeType
  <1>7. ToolType' /\ tool'.step = "idle"
    BY <1>1, IdleType DEF CeremonyInv, ToolType
  <1>8. \A i, j \in 1 .. n : i # j => es[i].commitment # es[j].commitment
    <2> SUFFICES ASSUME NEW i \in 1 .. n, NEW j \in 1 .. n, i # j
                 PROVE  es[i].commitment # es[j].commitment
      OBVIOUS
    <2>1. tool.hosts[i].root # tool.hosts[j].root
      BY <1>1, <1>3 DEF WritingOK, HostsFit
    <2>. QED
      BY <1>5, <2>1
  <1>9. ManifestUsable'
    <2>1. FromJson'
      BY <1>5, <1>6, <1>8 DEF FromJson
    <2>2. ASSUME NEW e \in DOMAIN es, NEW root, root = es[e].commitment
          PROVE  /\ Select(root)' = {e}
                 /\ es[e].blob \in DOMAIN tree.blobs
                 /\ Unseals(tree.blobs[es[e].blob], tool.meas, root)
      <3>1. e \in 1 .. n /\ es[e].blob = e
        BY <1>5, <2>2
      <3>2. {i \in DOMAIN es : es[i].commitment = root} = {e}
        BY <1>5, <1>8, <2>2, <3>1
      <3>3. Select(root)' = {e}
        BY <1>6, <3>2 DEF Select
      <3>4. DOMAIN tree.blobs = 1 .. n
        BY <1>1, <1>3
      <3>5. tree.blobs[e] = Seal(tool.key, tool.meas, tool.hosts[e].root)
        BY <1>1, <1>3, <3>1 DEF WritingOK
      <3>6. Unseals(tree.blobs[e], tool.meas, root)
        BY <1>5, <2>2, <3>1, <3>5 DEF Unseals, Seal
      <3>. QED
        BY <3>1, <3>3, <3>4, <3>6
    <2>. QED
      BY <1>6, <2>1, <2>2 DEF ManifestUsable, Select, Unseals
  <1>. QED
    BY <1>6, <1>7, <1>9 DEF CeremonyInv

LEMMA StepCeremony ==
  ASSUME CeremonyInv, [Next]_vars
  PROVE  CeremonyInv'
  <1>1. ASSUME UNCHANGED <<tool, tree>>, shelf' \subseteq Blob PROVE CeremonyInv'
    <2>1. ToolType' /\ TreeType'
      BY <1>1 DEF CeremonyInv, ToolType, TreeType
    <2>2. WritingOK => WritingOK'
      BY <1>1 DEF WritingOK, HostsFit, Seal
    <2>3. \A root : Select(root)' = Select(root)
      BY <1>1 DEF Select
    <2>4. ManifestUsable => ManifestUsable'
      BY <1>1, <2>3 DEF ManifestUsable, FromJson, Unseals
    <2>. QED
      BY <1>1, <2>1, <2>2, <2>4 DEF CeremonyInv
  <1>2. ASSUME tool' = Idle, TreeType', tree'.manifest # "whole", shelf' = shelf PROVE CeremonyInv'
    <2>1. ToolType' /\ tool'.step = "idle"
      BY <1>2, IdleType DEF CeremonyInv, ToolType
    <2>. QED
      BY <1>2, <2>1 DEF CeremonyInv, ManifestUsable
  <1>3. CASE BuildFails
    BY <1>2, <1>3, NoTreeType DEF BuildFails, TreeType
  <1>4. CASE BuildCrashes
    <2>1. tree.manifest = "absent"
      BY <1>4 DEF BuildCrashes, CeremonyInv, WritingOK
    <2>2. tree' = tree \/ tree' = [tree EXCEPT !.manifest = "torn"]
      BY <1>4 DEF BuildCrashes
    <2>3. TreeType' /\ tree'.manifest # "whole"
      BY <2>1, <2>2 DEF CeremonyInv, TreeType
    <2>. QED
      BY <1>2, <1>4, <2>3 DEF BuildCrashes
  <1>5. CASE OperatorClears
    <2>1. TreeType' /\ tree'.manifest # "whole" /\ tool' = tool /\ tool.step = "idle" /\ shelf' = shelf
      BY <1>5, NoTreeType DEF OperatorClears, TreeType
    <2>. QED
      BY <2>1 DEF CeremonyInv, ToolType, ManifestUsable
  <1>6. ASSUME NEW k \in Keys, NEW m \in Meas, NEW r \in Roots, SealOne(k, m, r) PROVE CeremonyInv'
    <2>1. Seal(k, m, r) \in Blob
      BY DEF Seal, Blob
    <2>. QED
      BY <1>1, <1>6, <2>1 DEF SealOne, CeremonyInv, ToolType
  <1>7. CASE CeremonyNext
    BY <1>3, <1>4, <1>5, <1>6, <1>7, BuildStartsKeeps, WritesBlobKeeps, WritesManifestKeeps
       DEF CeremonyNext
  <1>8. CASE TsmNext \/ BootNext \/ UNCHANGED vars
    <2>1. UNCHANGED <<tool, tree, shelf>>
      <3>1. CASE TsmNext
        BY <3>1 DEF TsmNext, TsmUnchanged, ClearsStale, CreatesEntry, WritesInblob, ReadsOutblob,
                    ProviderFails, Wedges, Unwedges, SpawnsChild, ChildCleansUp, ChildKilled
      <3>2. CASE BootNext
        BY <3>2 DEF BootNext, BootUnchanged, DeriveRoot, DeriveCrashes, Ceremony, Start,
                    ConfigureRoot, LabInstalls, HookDone, Capture, Captured, Gate, Dies, HookInstalls
      <3>3. CASE UNCHANGED vars
        BY <3>3 DEF vars
      <3>. QED
        BY <1>8, <3>1, <3>2, <3>3
    <2>. QED
      BY <1>1, <2>1 DEF CeremonyInv, ToolType
  <1>. QED
    BY <1>7, <1>8 DEF Next

LEMMA CeremonyHolds == Spec => []CeremonyInv
  <1>1. CeremonyInv /\ [Next]_vars => CeremonyInv'
    BY StepCeremony
  <1>. QED
    BY <1>1, InitCeremony, PTL DEF Spec

-----------------------------------------------------------------------------
(* configfs *)

Steps == {"none", "clear", "create", "write", "read", "wedged", "cleanup"}

Data == Keys \cup {"handshake"}

FetchRecord == [step : Steps, want : Data \cup {"none"}, got : Data \cup {"none"},
                doomed : BOOLEAN, excused : BOOLEAN]

FetchType ==
    /\ fetch \in [Fetchers -> FetchRecord]
    /\ entries \in [Names -> Data \cup {"absent", "empty"}]

Alone(f) == \A g \in Fetchers \ {f} : Name(g) = Name(f) => fetch[g].step = "none"

\* What the entry holds, at each step of an undisturbed fetch r.
EntryFits(r, entry) ==
    /\ r.step = "create" => entry = "absent"
    /\ r.step = "write" => entry = "empty"
    /\ r.step \in {"read", "wedged"} => entry = r.want
    /\ r.step = "cleanup" => r.got = r.want

FetchOK(f) ==
    fetch[f].step # "none" =>
        /\ fetch[f].want \in Data
        /\ ~ fetch[f].excused => Alone(f) /\ EntryFits(fetch[f], entries[Name(f)])

FetchInv == FetchType /\ \A f \in Fetchers : FetchOK(f)

LEMMA DataApart == "none" \notin Data /\ "absent" \notin Data /\ "empty" \notin Data
  BY ConstantsAssumption DEF Data

LEMMA NameKnown == \A f \in Fetchers : Name(f) \in Names
  BY DEF Name, Names, Fetchers

LEMMA NotFetchingType == NotFetching \in FetchRecord /\ NotFetching.step = "none" /\ ~ NotFetching.doomed
  BY DEF NotFetching, FetchRecord, Steps

LEMMA BegunType ==
  ASSUME NEW data \in Data, NEW b \in BOOLEAN
  PROVE  [step |-> "clear", want |-> data, got |-> "none", doomed |-> FALSE, excused |-> b] \in FetchRecord
  BY DEF FetchRecord, Steps

LEMMA InitFetch == Init => FetchInv
  BY NotFetchingType DEF Init, FetchInv, FetchType, FetchOK

\* A step of one fetcher, on its own entry.  Whoever is active under the same name
\* is excused; under other names nothing changes.
LEMMA OneMoves ==
  ASSUME FetchInv, NEW f \in Fetchers, fetch[f].step # "none",
         NEW r \in FetchRecord, fetch' = [fetch EXCEPT ![f] = r],
         NEW x \in Data \cup {"absent", "empty"}, entries' = [entries EXCEPT ![Name(f)] = x],
         r.step # "none" => /\ r.want = fetch[f].want
                            /\ ~ r.excused => ~ fetch[f].excused /\ EntryFits(r, x)
  PROVE  FetchInv'
  <1>1. FetchType'
    BY DEF FetchInv, FetchType
  <1>2. fetch'[f] = r /\ \A g \in Fetchers \ {f} : fetch'[g] = fetch[g]
    BY DEF FetchInv, FetchType
  <1>3. entries'[Name(f)] = x /\ \A n \in Names : n # Name(f) => entries'[n] = entries[n]
    BY NameKnown DEF FetchInv, FetchType
  <1>4. ASSUME NEW g \in Fetchers PROVE FetchOK(g)'
    <2>1. CASE g = f
      <3>1. fetch[f].want \in Data /\ (~ fetch[f].excused => Alone(f))
        BY DEF FetchInv, FetchOK
      <3>2. Alone(f) => Alone(f)'
        BY <1>2 DEF Alone
      <3>. QED
        BY <1>2, <1>3, <2>1, <3>1, <3>2 DEF FetchOK
    <2>2. CASE g # f /\ Name(g) = Name(f)
      <3>1. fetch[g].step # "none" => fetch[g].want \in Data /\ fetch[g].excused
        BY <2>2 DEF FetchInv, FetchOK, Alone
      <3>. QED
        BY <1>2, <2>2, <3>1 DEF FetchOK
    <2>3. CASE g # f /\ Name(g) # Name(f)
      <3>1. fetch'[g] = fetch[g] /\ entries'[Name(g)] = entries[Name(g)]
        BY <1>2, <1>3, <2>3, NameKnown
      <3>2. Alone(g) => Alone(g)'
        BY <1>2, <2>3 DEF Alone
      <3>3. FetchOK(g)
        BY DEF FetchInv
      <3>. QED
        BY <3>1, <3>2, <3>3 DEF FetchOK
    <2>. QED
      BY <2>1, <2>2, <2>3
  <1>. QED
    BY <1>1, <1>4 DEF FetchInv

LEMMA IdleFetcherDies ==
  ASSUME FetchInv, NEW f \in Fetchers, fetch[f].step = "none",
         fetch' = [fetch EXCEPT ![f] = NotFetching], entries' = entries
  PROVE  FetchInv'
  <1>1. FetchType'
    BY NotFetchingType DEF FetchInv, FetchType
  <1>2. fetch'[f].step = "none" /\ \A g \in Fetchers \ {f} : fetch'[g] = fetch[g]
    BY NotFetchingType DEF FetchInv, FetchType
  <1>3. \A g \in Fetchers : fetch'[g].step # "none" => fetch'[g] = fetch[g] /\ (Alone(g) => Alone(g)')
    BY <1>2 DEF Alone
  <1>. QED
    BY <1>1, <1>3 DEF FetchInv, FetchOK

\* A fetch begins: it is alone, or it and those it meets are excused.
LEMMA FetchBegins ==
  ASSUME FetchInv, NEW f \in Fetchers, fetch[f].step = "none", NEW data \in Data,
         fetch' = Starts(f, data, "clear"),
         entries' \in [Names -> Data \cup {"absent", "empty"}],
         \A g \in Fetchers : fetch[g].step # "none" /\ Name(g) # Name(f)
                             => entries'[Name(g)] = entries[Name(g)]
  PROVE  FetchInv'
  <1> DEFINE met == \E h \in Fetchers \ {f} : Name(h) = Name(f) /\ fetch[h].step # "none"
  <1>1. fetch'[f] = [step |-> "clear", want |-> data, got |-> "none", doomed |-> FALSE, excused |-> met]
    BY DEF Starts
  <1>2. met \in BOOLEAN
    OBVIOUS
  <1>3. ASSUME NEW g \in Fetchers, g # f, Name(g) = Name(f), fetch[g].step # "none"
        PROVE  fetch'[g] = [fetch[g] EXCEPT !.excused = TRUE] /\ met
    BY <1>3 DEF Starts
  <1>4. ASSUME NEW g \in Fetchers, g # f, Name(g) # Name(f) \/ fetch[g].step = "none"
        PROVE  fetch'[g] = fetch[g]
    BY <1>4 DEF Starts
  <1>5. fetch' \in [Fetchers -> FetchRecord]
    <2>1. fetch' = [g \in Fetchers |-> fetch'[g]]
      BY DEF Starts
    <2>2. ASSUME NEW g \in Fetchers PROVE fetch'[g] \in FetchRecord
      <3>1. fetch[g] \in FetchRecord
        BY DEF FetchInv, FetchType
      <3>2. CASE g = f
        <4> HIDE DEF met
        <4>1. PICK b \in BOOLEAN : b = met
          BY <1>2
        <4>2. fetch'[g] = [step |-> "clear", want |-> data, got |-> "none", doomed |-> FALSE, excused |-> b]
          BY <1>1, <3>2, <4>1
        <4>. QED
          BY <4>2, BegunType
      <3>3. CASE g # f /\ Name(g) = Name(f) /\ fetch[g].step # "none"
        BY <1>3, <3>1, <3>3 DEF FetchRecord
      <3>4. CASE g # f /\ (Name(g) # Name(f) \/ fetch[g].step = "none")
        BY <1>4, <3>1, <3>4
      <3>. QED
        BY <3>2, <3>3, <3>4
    <2>. QED
      BY <2>1, <2>2
  <1>6. FetchType'
    BY <1>5 DEF FetchType
  <1>7. \A g \in Fetchers \ {f} : fetch'[g].step = fetch[g].step /\ fetch'[g].want = fetch[g].want
    <2> SUFFICES ASSUME NEW g \in Fetchers \ {f}
                 PROVE  fetch'[g].step = fetch[g].step /\ fetch'[g].want = fetch[g].want
      OBVIOUS
    <2>1. fetch[g] \in FetchRecord
      BY DEF FetchInv, FetchType
    <2>. QED
      BY <1>3, <1>4, <2>1 DEF FetchRecord
  <1>8. ASSUME NEW g \in Fetchers PROVE FetchOK(g)'
    <2>1. CASE g = f
      <3>1. ~ met => Alone(f)'
        BY <1>7 DEF Alone
      <3> HIDE DEF met
      <3>. QED
        BY <1>1, <2>1, <3>1 DEF FetchOK, EntryFits
    <2>2. CASE g # f /\ Name(g) = Name(f) /\ fetch[g].step # "none"
      <3>a. fetch[g] \in FetchRecord
        BY DEF FetchInv, FetchType
      <3>b. fetch'[g] = [fetch[g] EXCEPT !.excused = TRUE]
        BY <1>3, <2>2
      <3>1. fetch'[g].excused
        BY <3>a, <3>b DEF FetchRecord
      <3>2. fetch[g].want \in Data
        BY <2>2 DEF FetchInv, FetchOK
      <3>. QED
        BY <1>7, <2>2, <3>1, <3>2 DEF FetchOK
    <2>3. CASE g # f /\ fetch[g].step = "none"
      BY <1>4, <2>3 DEF FetchOK
    <2>4. CASE g # f /\ Name(g) # Name(f) /\ fetch[g].step # "none"
      <3>1. fetch'[g] = fetch[g] /\ entries'[Name(g)] = entries[Name(g)]
        BY <1>4, <2>4
      <3>2. Alone(g) => Alone(g)'
        BY <1>7, <2>4 DEF Alone
      <3>3. FetchOK(g)
        BY DEF FetchInv
      <3>. QED
        BY <3>1, <3>2, <3>3 DEF FetchOK
    <2>. QED
      BY <2>1, <2>2, <2>3, <2>4
  <1>. QED
    BY <1>6, <1>8 DEF FetchInv

LEMMA RemoveEntryType ==
  ASSUME FetchInv, NEW n \in Names
  PROVE  RemoveEntry(n) \in Data \cup {"absent", "empty"}
  BY DEF RemoveEntry, FetchInv, FetchType

\* A stale entry gives way to a fetch that nobody disturbs.
LEMMA StaleGoes ==
  ASSUME FetchInv, NEW f \in Fetchers, fetch[f].step = "clear", ~ fetch[f].excused
  PROVE  RemoveEntry(Name(f)) = "absent"
  <1>1. Alone(f)
    BY DEF FetchInv, FetchOK
  <1>2. ~ Held(Name(f))
    BY <1>1 DEF Held, Alone
  <1>. QED
    BY <1>2 DEF RemoveEntry

LEMMA TsmStepFetch ==
  ASSUME FetchInv, NEW f \in Fetchers,
         \/ ClearsStale(f) \/ CreatesEntry(f) \/ WritesInblob(f) \/ ReadsOutblob(f)
         \/ ProviderFails(f) \/ Wedges(f) \/ Unwedges(f)
  PROVE  FetchInv'
  <1>1. fetch[f] \in FetchRecord /\ fetch \in [Fetchers -> FetchRecord] /\ Name(f) \in Names
    BY NameKnown DEF FetchInv, FetchType
  <1>2. PICK old \in Data \cup {"absent", "empty"} : old = entries[Name(f)]
    BY <1>1 DEF FetchInv, FetchType
  <1>3. entries = [entries EXCEPT ![Name(f)] = old]
    BY <1>2 DEF FetchInv, FetchType
  <1>4. fetch[f].step # "none" =>
           /\ fetch[f].want \in Data
           /\ ~ fetch[f].excused => EntryFits(fetch[f], old)
    BY <1>2 DEF FetchInv, FetchOK
  <1>5. CASE ClearsStale(f)
    <2>1. PICK r : r = [fetch[f] EXCEPT !.step = "create"]
      OBVIOUS
    <2>2. r \in FetchRecord /\ r.step = "create" /\ r.want = fetch[f].want /\ r.excused = fetch[f].excused
      BY <1>1, <2>1 DEF FetchRecord, Steps
    <2>3. PICK x \in Data \cup {"absent", "empty"} : x = RemoveEntry(Name(f))
      BY <1>1, RemoveEntryType
    <2>4. fetch' = [fetch EXCEPT ![f] = r] /\ entries' = [entries EXCEPT ![Name(f)] = x]
          /\ fetch[f].step = "clear"
      BY <1>5, <2>1, <2>3 DEF ClearsStale, StaleClear
    <2>5. ~ r.excused => EntryFits(r, x)
      BY <2>2, <2>3, <2>4, StaleGoes DEF EntryFits
    <2>. QED
      BY <2>2, <2>4, <2>5, OneMoves
  <1>6. CASE CreatesEntry(f) /\ entries[Name(f)] = "absent"
    <2>1. PICK r : r = [fetch[f] EXCEPT !.step = "write"]
      OBVIOUS
    <2>2. r \in FetchRecord /\ r.step = "write" /\ r.want = fetch[f].want /\ r.excused = fetch[f].excused
      BY <1>1, <2>1 DEF FetchRecord, Steps
    <2>4. fetch' = [fetch EXCEPT ![f] = r] /\ entries' = [entries EXCEPT ![Name(f)] = "empty"]
          /\ fetch[f].step = "create"
      BY <1>6, <2>1 DEF CreatesEntry
    <2>5. EntryFits(r, "empty")
      BY <2>2 DEF EntryFits
    <2>. QED
      BY <2>2, <2>4, <2>5, OneMoves
  <1>7. CASE \/ CreatesEntry(f) /\ entries[Name(f)] # "absent"
             \/ WritesInblob(f) /\ entries[Name(f)] = "absent"
    <2>1. PICK r : r = [fetch[f] EXCEPT !.step = "cleanup"]
      OBVIOUS
    <2>2. r \in FetchRecord /\ r.step = "cleanup" /\ r.want = fetch[f].want /\ r.excused = fetch[f].excused
      BY <1>1, <2>1 DEF FetchRecord, Steps
    <2>3. /\ fetch' = [fetch EXCEPT ![f] = r] /\ entries' = entries
          /\ \/ fetch[f].step = "create" /\ old # "absent"
             \/ fetch[f].step = "write" /\ old = "absent"
      BY <1>2, <1>7, <2>1 DEF CreatesEntry, WritesInblob
    <2>4. fetch[f].excused
      BY <1>4, <2>3 DEF EntryFits
    <2>. QED
      BY <1>3, <2>2, <2>3, <2>4, OneMoves
  <1>8. CASE WritesInblob(f) /\ entries[Name(f)] # "absent"
    <2>1. PICK r : r = [fetch[f] EXCEPT !.step = "read"]
      OBVIOUS
    <2>2. r \in FetchRecord /\ r.step = "read" /\ r.want = fetch[f].want /\ r.excused = fetch[f].excused
      BY <1>1, <2>1 DEF FetchRecord, Steps
    <2>3. fetch' = [fetch EXCEPT ![f] = r] /\ entries' = [entries EXCEPT ![Name(f)] = fetch[f].want]
          /\ fetch[f].step = "write"
      BY <1>8, <2>1 DEF WritesInblob
    <2>4. PICK x \in Data \cup {"absent", "empty"} : x = fetch[f].want
      BY <1>4, <2>3
    <2>5. EntryFits(r, x)
      BY <2>2, <2>4 DEF EntryFits
    <2>. QED
      BY <2>2, <2>3, <2>4, <2>5, OneMoves
  <1>9. CASE ReadsOutblob(f)
    <2>1. PICK g : g = IF old \in {"absent", "empty"} THEN "none" ELSE old
      OBVIOUS
    <2>2. PICK r : r = [fetch[f] EXCEPT !.step = "cleanup", !.got = g]
      OBVIOUS
    <2>3. fetch' = [fetch EXCEPT ![f] = r] /\ entries' = entries /\ fetch[f].step = "read"
      BY <1>2, <1>9, <2>1, <2>2 DEF ReadsOutblob
    <2>4. g \in Data \cup {"none"}
      BY <2>1
    <2>5. /\ r \in FetchRecord /\ r.step = "cleanup" /\ r.want = fetch[f].want
          /\ r.excused = fetch[f].excused /\ r.got = g
      BY <1>1, <2>2, <2>4 DEF FetchRecord, Steps
    <2>6. ~ r.excused => EntryFits(r, old)
      BY <1>4, <2>1, <2>3, <2>5, DataApart DEF EntryFits
    <2>. QED
      BY <1>3, <2>3, <2>5, <2>6, OneMoves
  <1>10. CASE ProviderFails(f)
    <2>1. PICK r : r = [fetch[f] EXCEPT !.step = "cleanup", !.excused = TRUE]
      OBVIOUS
    <2>2. r \in FetchRecord /\ r.want = fetch[f].want /\ r.excused
      BY <1>1, <2>1 DEF FetchRecord, Steps
    <2>3. fetch' = [fetch EXCEPT ![f] = r] /\ entries' = entries /\ fetch[f].step # "none"
      BY <1>10, <2>1 DEF ProviderFails
    <2>. QED
      BY <1>3, <2>2, <2>3, OneMoves
  <1>11. CASE Wedges(f) \/ (Unwedges(f) /\ ~ fetch[f].doomed)
    <2>1. PICK r : /\ r = [fetch[f] EXCEPT !.step = r.step] /\ r.step \in {"read", "wedged"}
                   /\ fetch' = [fetch EXCEPT ![f] = r]
      <3>1. CASE Wedges(f)
        <4>1. [fetch[f] EXCEPT !.step = "wedged"].step = "wedged"
          BY <1>1 DEF FetchRecord
        <4>. QED
          BY <3>1, <4>1 DEF Wedges
      <3>2. CASE Unwedges(f) /\ ~ fetch[f].doomed
        <4>1. [fetch[f] EXCEPT !.step = "read"].step = "read"
          BY <1>1 DEF FetchRecord
        <4>. QED
          BY <3>2, <4>1 DEF Unwedges
      <3>. QED
        BY <1>11, <3>1, <3>2
    <2>2. r \in FetchRecord /\ r.want = fetch[f].want /\ r.excused = fetch[f].excused
      BY <1>1, <2>1 DEF FetchRecord, Steps
    <2>3. entries' = entries /\ fetch[f].step \in {"read", "wedged"}
      BY <1>11 DEF Wedges, Unwedges
    <2>4. ~ r.excused => EntryFits(r, old)
      BY <1>4, <2>1, <2>2, <2>3 DEF EntryFits
    <2>. QED
      BY <1>3, <2>1, <2>2, <2>3, <2>4, OneMoves
  <1>12. CASE Unwedges(f) /\ fetch[f].doomed
    <2>1. fetch' = [fetch EXCEPT ![f] = NotFetching] /\ entries' = entries /\ fetch[f].step # "none"
      BY <1>12 DEF Unwedges
    <2>. QED
      BY <1>3, <2>1, OneMoves, NotFetchingType
  <1>. QED
    BY <1>5, <1>6, <1>7, <1>8, <1>9, <1>10, <1>11, <1>12

\* The trailing remove of a fetch, and its end.
LEMMA CleanUpFetch ==
  ASSUME FetchInv, NEW f \in Fetchers, fetch[f].step = "cleanup",
         fetch' = [fetch EXCEPT ![f] = NotFetching],
         entries' = [entries EXCEPT ![Name(f)] = RemoveEntry(Name(f))]
  PROVE  FetchInv'
  <1>1. PICK x \in Data \cup {"absent", "empty"} : x = RemoveEntry(Name(f))
    BY NameKnown, RemoveEntryType
  <1>. QED
    BY <1>1, OneMoves, NotFetchingType

LEMMA KilledFetchKeeps ==
  ASSUME FetchInv, NEW f \in Fetchers, fetch' = KilledFetch(f), entries' = entries
  PROVE  FetchInv'
  <1>1. fetch[f] \in FetchRecord /\ Name(f) \in Names
    BY NameKnown DEF FetchInv, FetchType
  <1>2. PICK old \in Data \cup {"absent", "empty"} : old = entries[Name(f)]
    BY <1>1 DEF FetchInv, FetchType
  <1>3. entries = [entries EXCEPT ![Name(f)] = old]
    BY <1>2 DEF FetchInv, FetchType
  <1>4. CASE fetch[f].step = "wedged"
    <2>1. PICK r : r = [fetch[f] EXCEPT !.doomed = TRUE]
      OBVIOUS
    <2>2. r \in FetchRecord /\ r.step = "wedged" /\ r.want = fetch[f].want /\ r.excused = fetch[f].excused
      BY <1>1, <1>4, <2>1 DEF FetchRecord
    <2>3. fetch' = [fetch EXCEPT ![f] = r]
      BY <1>4, <2>1 DEF KilledFetch
    <2>4. ~ r.excused => EntryFits(r, old)
      BY <1>2, <1>4, <2>2 DEF FetchInv, FetchOK, EntryFits
    <2>. QED
      BY <1>3, <1>4, <2>2, <2>3, <2>4, OneMoves
  <1>5. CASE fetch[f].step # "wedged"
    <2>1. fetch' = [fetch EXCEPT ![f] = NotFetching]
      BY <1>5 DEF KilledFetch
    <2>2. CASE fetch[f].step = "none"
      BY <2>1, <2>2, IdleFetcherDies
    <2>3. CASE fetch[f].step # "none"
      BY <1>3, <2>1, <2>3, OneMoves, NotFetchingType
    <2>. QED
      BY <2>2, <2>3
  <1>. QED
    BY <1>4, <1>5

\* A child sweeps the entries of dead children: never the producer's, and a stuck
\* child's cannot be removed.
LEMMA SpawnsChildKeeps ==
  ASSUME FetchInv, NEW c \in Pids, SpawnsChild(c)
  PROVE  FetchInv'
  <1>1. c \in Fetchers /\ fetch[c].step = "none" /\ fetch' = Starts(c, "handshake", "clear")
        /\ entries' = [n \in Names |-> IF n \in Pids THEN RemoveEntry(n) ELSE entries[n]]
        /\ \A d \in Pids : fetch[d].step \in {"none", "wedged"}
    BY DEF Fetchers, SpawnsChild, Swept
  <1>2. entries' \in [Names -> Data \cup {"absent", "empty"}]
    BY <1>1, RemoveEntryType DEF FetchInv, FetchType
  <1>3. ASSUME NEW g \in Fetchers, fetch[g].step # "none"
        PROVE  entries'[Name(g)] = entries[Name(g)]
    <2>1. CASE g \in Pids
      <3>1. Name(g) = g /\ g \in Names
        BY <2>1, ConstantsAssumption DEF Name, Names
      <3>2. fetch[g].step = "wedged"
        BY <1>1, <1>3, <2>1
      <3>3. Held(g)
        BY <3>1, <3>2 DEF Held
      <3>. QED
        BY <1>1, <3>1, <3>3 DEF RemoveEntry
    <2>2. CASE g \in Procs
      <3>1. Name(g) = "twod-hsm" /\ "twod-hsm" \in Names /\ "twod-hsm" \notin Pids
        BY <2>2, ConstantsAssumption DEF Name, Names
      <3>. QED
        BY <1>1, <3>1
    <2>. QED
      BY <2>1, <2>2 DEF Fetchers
  <1>4. "handshake" \in Data
    BY DEF Data
  <1>. QED
    BY <1>1, <1>2, <1>3, <1>4, FetchBegins

-----------------------------------------------------------------------------
(* The boot *)

ProcRecord ==
    [pc : {"off", "root", "signer", "capture", "fetching", "gate", "serving"},
     build : Builds \cup {"none"}, root : Roots \cup {"none"},
     signer : Keys \cup {"none"}, attestation : Data \cup {"none"}]

ProcOK(p) ==
    /\ proc[p].attestation # "none" =>
          proc[p].attestation = proc[p].signer /\ proc[p].pc \in {"gate", "serving"}
    /\ proc[p].pc = "fetching" =>
          /\ fetch[p].want = proc[p].signer /\ proc[p].signer # "none"
          /\ fetch[p].step # "none" /\ ~ fetch[p].doomed
    /\ proc[p].pc \notin {"off", "fetching"} => fetch[p].step = "none"
    /\ proc[p].pc = "serving" /\ proc[p].build = "release" /\ proc[p].signer # "none"
          => proc[p].attestation # "none"

ProcInv ==
    /\ proc \in [Procs -> ProcRecord]
    /\ \A p \in Procs : ProcOK(p)

LEMMA OffType == Off \in ProcRecord /\ Off.pc = "off" /\ Off.attestation = "none" /\ Off.signer = "none"
  BY DEF Off, ProcRecord

LEMMA ProcsFetch == Procs \subseteq Fetchers /\ Pids \subseteq Fetchers /\ \A p \in Procs : p \notin Pids
  BY ConstantsAssumption DEF Fetchers

LEMMA InitProc == Init => ProcInv
  BY OffType, NotFetchingType, ProcsFetch DEF Init, ProcInv, ProcOK

\* One instance moves; the others keep their place and their fetch.
LEMMA OneBoots ==
  ASSUME ProcInv, NEW p \in Procs, NEW r \in ProcRecord, proc' = [proc EXCEPT ![p] = r],
         \A q \in Procs \ {p} : /\ fetch'[q].step = fetch[q].step
                                /\ fetch'[q].want = fetch[q].want
                                /\ fetch'[q].doomed = fetch[q].doomed,
         ProcOK(p)'
  PROVE  ProcInv'
  <1>1. proc' \in [Procs -> ProcRecord] /\ \A q \in Procs \ {p} : proc'[q] = proc[q]
    BY DEF ProcInv
  <1>2. \A q \in Procs \ {p} : ProcOK(q)'
    BY <1>1 DEF ProcInv, ProcOK
  <1>. QED
    BY <1>1, <1>2 DEF ProcInv

\* A fetcher moves under processes that stand still.
LEMMA FetchUnderBoot ==
  ASSUME ProcInv, proc' = proc,
         \A q \in Procs :
            \/ fetch'[q].step = fetch[q].step /\ fetch'[q].want = fetch[q].want
               /\ fetch'[q].doomed = fetch[q].doomed
            \/ /\ fetch[q].step # "none"
               /\ \/ fetch[q].doomed
                  \/ fetch'[q].step # "none" /\ fetch'[q].want = fetch[q].want /\ ~ fetch'[q].doomed
  PROVE  ProcInv'
  <1>1. ASSUME NEW q \in Procs PROVE ProcOK(q)'
    BY DEF ProcInv, ProcOK
  <1>. QED
    BY <1>1 DEF ProcInv

BInv == CeremonyInv /\ FetchInv /\ ProcInv

LEMMA TsmStepProc ==
  ASSUME FetchInv, ProcInv, NEW f \in Fetchers,
         \/ ClearsStale(f) \/ CreatesEntry(f) \/ WritesInblob(f) \/ ReadsOutblob(f)
         \/ ProviderFails(f) \/ Wedges(f) \/ Unwedges(f)
  PROVE  ProcInv'
  <1>1. proc' = proc
    BY DEF ClearsStale, CreatesEntry, WritesInblob, ReadsOutblob, ProviderFails, Wedges, Unwedges
  <1>2. fetch[f] \in FetchRecord /\ fetch \in [Fetchers -> FetchRecord]
    BY DEF FetchInv, FetchType
  <1>3. fetch[f].step # "none" /\ \A g \in Fetchers \ {f} : fetch'[g] = fetch[g]
    BY <1>2 DEF ClearsStale, CreatesEntry, WritesInblob, ReadsOutblob, ProviderFails, Wedges, Unwedges
  <1>4. \/ fetch[f].doomed
        \/ fetch'[f].step # "none" /\ fetch'[f].want = fetch[f].want /\ ~ fetch'[f].doomed
    <2>1. CASE Unwedges(f)
      BY <1>2, <2>1 DEF Unwedges, FetchRecord
    <2>2. CASE ClearsStale(f) \/ CreatesEntry(f) \/ WritesInblob(f)
      <3>1. PICK st \in {"create", "write", "read", "cleanup"} : fetch' = [fetch EXCEPT ![f].step = st]
        BY <2>2 DEF ClearsStale, CreatesEntry, WritesInblob
      <3>. QED
        BY <1>2, <3>1 DEF FetchRecord
    <2>3. CASE ReadsOutblob(f)
      BY <1>2, <2>3 DEF ReadsOutblob, FetchRecord
    <2>4. CASE ProviderFails(f)
      BY <1>2, <2>4 DEF ProviderFails, FetchRecord
    <2>5. CASE Wedges(f)
      BY <1>2, <2>5 DEF Wedges, FetchRecord
    <2>. QED
      BY <2>1, <2>2, <2>3, <2>4, <2>5
  <1>. QED
    BY <1>1, <1>3, <1>4, ProcsFetch, FetchUnderBoot

\* Starting a fetch leaves place and request of the others.
LEMMA StartsOthers ==
  ASSUME FetchInv, NEW f \in Fetchers, NEW data, NEW st, fetch' = Starts(f, data, st),
         NEW g \in Fetchers, g # f
  PROVE  /\ fetch'[g].step = fetch[g].step /\ fetch'[g].want = fetch[g].want
         /\ fetch'[g].doomed = fetch[g].doomed
  <1>1. fetch'[g] = fetch[g] \/ fetch'[g] = [fetch[g] EXCEPT !.excused = TRUE]
    BY DEF Starts
  <1>2. fetch[g] \in FetchRecord
    BY DEF FetchInv, FetchType
  <1>. QED
    BY <1>1, <1>2 DEF FetchRecord

LEMMA ChildStepProc ==
  ASSUME FetchInv, ProcInv, NEW c \in Pids, SpawnsChild(c) \/ ChildCleansUp(c) \/ ChildKilled(c)
  PROVE  ProcInv'
  <1>1. proc' = proc
    BY DEF SpawnsChild, ChildCleansUp, ChildKilled
  <1>2. ASSUME NEW q \in Procs
        PROVE  /\ fetch'[q].step = fetch[q].step /\ fetch'[q].want = fetch[q].want
               /\ fetch'[q].doomed = fetch[q].doomed
    <2>1. q \in Fetchers /\ q # c /\ c \in Fetchers
      BY ProcsFetch
    <2>2. CASE SpawnsChild(c)
      BY <2>1, <2>2, StartsOthers DEF SpawnsChild
    <2>3. CASE ChildCleansUp(c) \/ ChildKilled(c)
      BY <2>1, <2>3 DEF ChildCleansUp, ChildKilled, KilledFetch, FetchInv, FetchType
    <2>. QED
      BY <2>2, <2>3
  <1>. QED
    BY <1>1, <1>2, FetchUnderBoot

\* A boot step of p that leaves the fetches: into record r.
LEMMA BootsQuietly ==
  ASSUME ProcInv, NEW p \in Procs, NEW r \in ProcRecord, proc' = [proc EXCEPT ![p] = r],
         fetch' = fetch,
         r.attestation # "none" => r.attestation = r.signer /\ r.pc \in {"gate", "serving"},
         r.pc # "fetching",
         r.pc # "off" => fetch[p].step = "none",
         r.pc = "serving" /\ r.build = "release" /\ r.signer # "none" => r.attestation # "none"
  PROVE  ProcInv'
  <1>1. proc'[p] = r
    BY DEF ProcInv
  <1>2. ProcOK(p)'
    BY <1>1 DEF ProcOK
  <1>. QED
    BY <1>2, OneBoots

LEMMA BootStep ==
  ASSUME BInv, NEW p \in Procs,
         \/ \E b \in Builds : Start(p, b)
         \/ ConfigureRoot(p) \/ LabInstalls(p) \/ HookDone(p) \/ Gate(p)
         \/ \E b \in shelf : HookInstalls(p, b)
  PROVE  FetchInv' /\ ProcInv'
  <1>1. proc[p] \in ProcRecord /\ ProcOK(p) /\ proc \in [Procs -> ProcRecord]
    BY DEF BInv, ProcInv
  <1>2. UNCHANGED <<fetch, entries>>
    BY DEF Start, ConfigureRoot, LabInstalls, HookDone, Gate, HookInstalls
  <1>3. FetchInv'
    BY <1>2 DEF BInv, FetchInv, FetchType, FetchOK, Alone
  <1>4. ASSUME proc' = [proc EXCEPT ![p] = Off] PROVE ProcInv'
    BY <1>2, <1>4, OffType, BootsQuietly DEF BInv
  <1>5. ASSUME NEW b \in Builds, Start(p, b) PROVE ProcInv'
    <2>1. PICK r : r = [Off EXCEPT !.pc = "root", !.build = b]
      OBVIOUS
    <2>2. r \in ProcRecord /\ r.pc = "root" /\ r.attestation = "none"
      BY <2>1 DEF Off, ProcRecord
    <2>3. proc' = [proc EXCEPT ![p] = r] /\ fetch[p].step = "none"
      BY <1>5, <2>1 DEF Start
    <2>. QED
      BY <1>2, <2>2, <2>3, BootsQuietly DEF BInv
  <1>6. CASE ConfigureRoot(p)
    <2>1. PICK root \in Roots \cup {"none"} : root = ReadRoot
      BY DEF ReadRoot
    <2>2. PICK r : r = [proc[p] EXCEPT !.pc = "signer", !.root = root]
      OBVIOUS
    <2>3. proc[p].pc = "root" /\ (proc' = [proc EXCEPT ![p] = r] \/ proc' = [proc EXCEPT ![p] = Off])
      BY <1>6, <2>1, <2>2 DEF ConfigureRoot
    <2>4. r \in ProcRecord /\ r.pc = "signer" /\ r.attestation = proc[p].attestation
      BY <1>1, <2>2 DEF ProcRecord
    <2>5. r.attestation = "none" /\ fetch[p].step = "none"
      BY <1>1, <2>3, <2>4 DEF ProcOK
    <2>. QED
      BY <1>2, <1>3, <1>4, <2>3, <2>4, <2>5, BootsQuietly DEF BInv
  <1>7. CASE LabInstalls(p)
    <2>1. CASE proc' = [proc EXCEPT ![p] = Off]
      BY <1>3, <1>4, <2>1
    <2>2. CASE proc' # [proc EXCEPT ![p] = Off]
      <3>1. PICK b \in shelf : proc' = [proc EXCEPT ![p].signer = b.key, ![p].pc = "capture"]
        BY <1>7, <2>2 DEF LabInstalls
      <3>2. b.key \in Keys
        BY DEF BInv, CeremonyInv, ToolType, Blob
      <3>3. PICK r : r = [proc[p] EXCEPT !.signer = b.key, !.pc = "capture"]
        OBVIOUS
      <3>4. r \in ProcRecord /\ r.pc = "capture" /\ r.attestation = proc[p].attestation
        BY <1>1, <3>2, <3>3 DEF ProcRecord
      <3>5. proc' = [proc EXCEPT ![p] = r] /\ proc[p].pc = "signer"
        BY <1>7, <3>1, <3>3 DEF LabInstalls
      <3>6. r.attestation = "none" /\ fetch[p].step = "none"
        BY <1>1, <3>4, <3>5 DEF ProcOK
      <3>. QED
        BY <1>2, <1>3, <3>4, <3>5, <3>6, BootsQuietly DEF BInv
    <2>. QED
      BY <2>1, <2>2
  <1>8. CASE HookDone(p)
    <2>1. PICK r : r = [proc[p] EXCEPT !.pc = "capture"]
      OBVIOUS
    <2>2. r \in ProcRecord /\ r.pc = "capture" /\ r.attestation = proc[p].attestation
      BY <1>1, <2>1 DEF ProcRecord
    <2>3. proc' = [proc EXCEPT ![p] = r] /\ proc[p].pc = "signer"
      BY <1>8, <2>1 DEF HookDone
    <2>4. r.attestation = "none" /\ fetch[p].step = "none"
      BY <1>1, <2>2, <2>3 DEF ProcOK
    <2>. QED
      BY <1>2, <1>3, <2>2, <2>3, <2>4, BootsQuietly DEF BInv
  <1>9. CASE Gate(p)
    <2>1. CASE ~ BootGate(p)
      BY <1>3, <1>4, <1>9, <2>1 DEF Gate
    <2>2. CASE BootGate(p)
      <3>1. PICK r : r = [proc[p] EXCEPT !.pc = "serving"]
        OBVIOUS
      <3>2. /\ r \in ProcRecord /\ r.pc = "serving" /\ r.attestation = proc[p].attestation
            /\ r.signer = proc[p].signer /\ r.build = proc[p].build
        BY <1>1, <3>1 DEF ProcRecord
      <3>3. proc' = [proc EXCEPT ![p] = r] /\ proc[p].pc = "gate"
        BY <1>9, <2>2, <3>1 DEF Gate
      <3>4. /\ r.attestation # "none" => r.attestation = r.signer
            /\ fetch[p].step = "none"
            /\ r.build = "release" /\ r.signer # "none" => r.attestation # "none"
        BY <1>1, <2>2, <3>2, <3>3 DEF ProcOK, BootGate
      <3>. QED
        BY <1>2, <1>3, <3>2, <3>3, <3>4, BootsQuietly DEF BInv
    <2>. QED
      BY <2>1, <2>2
  <1>10. ASSUME NEW b \in shelf, HookInstalls(p, b) PROVE ProcInv'
    <2>1. PICK r : r = [proc[p] EXCEPT !.signer = b.key]
      OBVIOUS
    <2>2. b.key \in Keys
      BY DEF BInv, CeremonyInv, ToolType, Blob
    <2>3. r \in ProcRecord /\ r.pc = proc[p].pc /\ r.attestation = proc[p].attestation
      BY <1>1, <2>1, <2>2 DEF ProcRecord
    <2>4. proc' = [proc EXCEPT ![p] = r] /\ proc[p].pc = "signer"
      BY <1>10, <2>1 DEF HookInstalls, InstallSigner
    <2>5. r.attestation = "none" /\ fetch[p].step = "none"
      BY <1>1, <2>3, <2>4 DEF ProcOK
    <2>. QED
      BY <1>2, <2>3, <2>4, <2>5, BootsQuietly DEF BInv
  <1>. QED
    BY <1>3, <1>5, <1>6, <1>7, <1>8, <1>9, <1>10

LEMMA CaptureStep ==
  ASSUME BInv, NEW p \in Procs, Capture(p)
  PROVE  FetchInv' /\ ProcInv'
  <1>1. /\ proc[p] \in ProcRecord /\ ProcOK(p) /\ proc[p].pc = "capture" /\ entries' = entries
        /\ p \in Fetchers
    BY ProcsFetch DEF BInv, ProcInv, Capture
  <1>2. fetch[p].step = "none" /\ proc[p].attestation = "none"
    BY <1>1 DEF ProcOK
  <1>3. CASE proc[p].signer = "none"
    <2>1. PICK r : r = [proc[p] EXCEPT !.pc = "gate"]
      OBVIOUS
    <2>2. r \in ProcRecord /\ r.pc = "gate" /\ r.attestation = "none"
      BY <1>1, <1>2, <2>1 DEF ProcRecord
    <2>3. proc' = [proc EXCEPT ![p] = r] /\ fetch' = fetch
      BY <1>3, <2>1 DEF Capture
    <2>4. FetchInv'
      BY <1>1, <2>3 DEF BInv, FetchInv, FetchType, FetchOK, Alone
    <2>. QED
      BY <1>2, <2>2, <2>3, <2>4, BootsQuietly DEF BInv
  <1>4. CASE proc[p].signer # "none"
    <2>1. PICK r : r = [proc[p] EXCEPT !.pc = "fetching"]
      OBVIOUS
    <2>2. /\ r \in ProcRecord /\ r.pc = "fetching" /\ r.attestation = "none"
          /\ r.signer = proc[p].signer
      BY <1>1, <1>2, <2>1 DEF ProcRecord
    <2>3. PICK data \in Data : data = proc[p].signer
      BY <1>1, <1>4 DEF ProcRecord, Data
    <2>4. proc' = [proc EXCEPT ![p] = r] /\ fetch' = Starts(p, data, "clear")
      BY <1>4, <2>1, <2>3 DEF Capture
    <2>5. FetchInv'
      BY <1>1, <1>2, <2>4, FetchBegins DEF BInv, FetchInv, FetchType
    <2>6. fetch'[p].step = "clear" /\ fetch'[p].want = data /\ fetch'[p].doomed = FALSE
      BY <1>1, <2>4 DEF Starts
    <2>7. proc'[p] = r
      BY <2>4 DEF BInv, ProcInv
    <2>8. ProcOK(p)'
      BY <1>4, <2>2, <2>3, <2>6, <2>7 DEF ProcOK
    <2>9. \A q \in Procs \ {p} : /\ fetch'[q].step = fetch[q].step
                                 /\ fetch'[q].want = fetch[q].want
                                 /\ fetch'[q].doomed = fetch[q].doomed
      BY <1>1, <2>4, ProcsFetch, StartsOthers DEF BInv
    <2>. QED
      BY <2>2, <2>4, <2>5, <2>8, <2>9, OneBoots DEF BInv
  <1>. QED
    BY <1>3, <1>4

\* The report is kept only if it echoes what was asked for: the installed key.
LEMMA CapturedStep ==
  ASSUME BInv, NEW p \in Procs, Captured(p)
  PROVE  FetchInv' /\ ProcInv'
  <1>1. /\ proc[p] \in ProcRecord /\ ProcOK(p) /\ proc[p].pc = "fetching" /\ p \in Fetchers
        /\ fetch[p].step = "cleanup" /\ fetch' = [fetch EXCEPT ![p] = NotFetching]
        /\ entries' = [entries EXCEPT ![Name(p)] = RemoveEntry(Name(p))]
        /\ fetch[p] \in FetchRecord /\ fetch \in [Fetchers -> FetchRecord]
    BY ProcsFetch DEF BInv, ProcInv, FetchInv, FetchType, Captured
  <1>2. FetchInv'
    BY <1>1, CleanUpFetch DEF BInv
  <1>3. PICK a \in Data \cup {"none"} : a = VerifyAndExtract(p)
    BY <1>1 DEF VerifyAndExtract, FetchRecord
  <1>4. a # "none" => a = proc[p].signer
    BY <1>1, <1>3 DEF VerifyAndExtract, ProcOK
  <1>5. PICK r : r = [proc[p] EXCEPT !.pc = "gate", !.attestation = a]
    OBVIOUS
  <1>6. r \in ProcRecord /\ r.pc = "gate" /\ r.attestation = a /\ r.signer = proc[p].signer
    BY <1>1, <1>5 DEF ProcRecord
  <1>7. proc' = [proc EXCEPT ![p] = r]
    BY <1>3, <1>5 DEF Captured
  <1>8. proc'[p] = r /\ fetch'[p].step = "none"
    BY <1>1, <1>7, NotFetchingType DEF BInv, ProcInv
  <1>9. ProcOK(p)'
    BY <1>4, <1>6, <1>8 DEF ProcOK
  <1>10. \A q \in Procs \ {p} : fetch'[q] = fetch[q]
    BY <1>1, ProcsFetch
  <1>. QED
    BY <1>2, <1>6, <1>7, <1>9, <1>10, OneBoots DEF BInv

LEMMA DiesStep ==
  ASSUME BInv, NEW p \in Procs, Dies(p)
  PROVE  FetchInv' /\ ProcInv'
  <1>1. /\ proc' = [proc EXCEPT ![p] = Off] /\ fetch' = KilledFetch(p) /\ entries' = entries
        /\ p \in Fetchers
    BY ProcsFetch DEF Dies
  <1>2. FetchInv'
    BY <1>1, KilledFetchKeeps DEF BInv
  <1>3. proc'[p] = Off
    BY <1>1 DEF BInv, ProcInv
  <1>4. ProcOK(p)'
    BY <1>3, OffType DEF ProcOK
  <1>5. \A q \in Procs \ {p} : fetch'[q] = fetch[q]
    BY <1>1, ProcsFetch DEF KilledFetch, BInv, FetchInv, FetchType
  <1>. QED
    BY <1>1, <1>2, <1>4, <1>5, OffType, OneBoots DEF BInv

LEMMA StepBInv ==
  ASSUME BInv, [Next]_vars
  PROVE  BInv'
  <1>1. CeremonyInv'
    BY StepCeremony DEF BInv
  <1>2. ASSUME UNCHANGED <<proc, fetch, entries>> PROVE FetchInv' /\ ProcInv'
    BY <1>2 DEF BInv, FetchInv, FetchType, FetchOK, Alone, ProcInv, ProcOK
  <1>3. CASE CeremonyNext \/ DeriveRoot \/ DeriveCrashes \/ UNCHANGED vars
    <2>1. UNCHANGED <<proc, fetch, entries>>
      <3>1. CASE CeremonyNext
        BY <3>1 DEF CeremonyNext, BuildStarts, WritesBlob, WritesManifest, BuildFails, BuildCrashes,
                    OperatorClears, SealOne, Guest
      <3>2. CASE DeriveRoot \/ DeriveCrashes \/ UNCHANGED vars
        BY <3>2 DEF DeriveRoot, DeriveCrashes, vars
      <3>. QED
        BY <1>3, <3>1, <3>2
    <2>. QED
      BY <1>1, <1>2, <2>1 DEF BInv
  <1>4. CASE TsmNext
    <2>1. ASSUME NEW c \in Pids, SpawnsChild(c) \/ ChildCleansUp(c) \/ ChildKilled(c)
          PROVE  FetchInv' /\ ProcInv'
      <3>1. ProcInv'
        BY <2>1, ChildStepProc DEF BInv
      <3>2. CASE SpawnsChild(c)
        BY <3>1, <3>2, SpawnsChildKeeps DEF BInv
      <3>3. CASE ChildCleansUp(c)
        BY <3>1, <3>3, CleanUpFetch, ProcsFetch DEF BInv, ChildCleansUp
      <3>4. CASE ChildKilled(c)
        BY <3>1, <3>4, KilledFetchKeeps, ProcsFetch DEF BInv, ChildKilled
      <3>. QED
        BY <2>1, <3>2, <3>3, <3>4
    <2>2. \A f \in Fetchers :
             \/ ClearsStale(f) \/ CreatesEntry(f) \/ WritesInblob(f) \/ ReadsOutblob(f)
             \/ ProviderFails(f) \/ Wedges(f) \/ Unwedges(f)
             => FetchInv' /\ ProcInv'
      BY TsmStepFetch, TsmStepProc DEF BInv
    <2>. QED
      BY <1>1, <1>4, <2>1, <2>2 DEF TsmNext, BInv
  <1>5. CASE BootNext
    BY <1>1, <1>3, <1>5, BootStep, CaptureStep, CapturedStep, DiesStep DEF BootNext, BInv
  <1>. QED
    BY <1>3, <1>4, <1>5 DEF Next

LEMMA BInvHolds == Spec => []BInv
  <1>1. Init => BInv
    BY InitCeremony, InitFetch, InitProc DEF BInv
  <1>2. BInv /\ [Next]_vars => BInv'
    BY StepBInv
  <1>. QED
    BY <1>1, <1>2, PTL DEF Spec

-----------------------------------------------------------------------------
(* Results *)

\* Whatever failed or died during the ceremony, a manifest that parses serves every
\* host it names: one entry for its root, with a blob that unseals.
THEOREM ManifestHolds == Spec => []ManifestUsable
  BY BInvHolds, PTL DEF BInv, CeremonyInv

\* A fetch that the provider answers and that shares its name with no other comes
\* back with the report it asked for, whatever the dead left in configfs and
\* whatever the children sweep.
THEOREM FetchHolds == Spec => []FetchUndisturbed
  <1>1. BInv => FetchUndisturbed
    BY DEF BInv, FetchInv, FetchOK, EntryFits, FetchUndisturbed
  <1>. QED
    BY <1>1, BInvHolds, PTL

\* What a serving producer presents as its attestation is a report over the very
\* key it advertises and signs with; a release build with a signer has one.
THEOREM AttestedHolds == Spec => []AttestedKeyServed
  <1>1. BInv => AttestedKeyServed
    <2> SUFFICES ASSUME BInv, NEW p \in Procs, proc[p].pc = "serving"
                 PROVE  LET r == MeasurementResponse(p)
                        IN  /\ r.attestation # "placeholder" => r.attestation = r.pq_pubkey
                            /\ proc[p].build = "release" /\ r.pq_signing_ready
                                  => r.attestation # "placeholder"
      BY DEF AttestedKeyServed
    <2>1. proc[p] \in ProcRecord /\ ProcOK(p)
      BY DEF BInv, ProcInv
    <2>2. /\ proc[p].attestation # "none" => proc[p].attestation = proc[p].signer
          /\ proc[p].build = "release" /\ proc[p].signer # "none" => proc[p].attestation # "none"
          /\ proc[p].signer # "placeholder"
      BY <2>1, ConstantsAssumption DEF ProcOK, ProcRecord
    <2>. QED
      BY <2>2 DEF MeasurementResponse
  <1>. QED
    BY <1>1, BInvHolds, PTL

-----------------------------------------------------------------------------
(* The service *)

Where == {"none", "reading", "waiting", "writing"}

EnclaveStates == [height : Nat, activated : Nat, pending : Nat]

Frames == Requests \cup {Junk, NoFrame, Reply(TRUE), Reply(FALSE)}

TypeOK ==
    /\ armed \in EnclaveStates
    /\ poisoned \in BOOLEAN
    /\ conn \in [Conns -> Where]
    /\ frame \in [Conns -> Frames]
    /\ idle \in [Conns -> Nat]
    /\ active \in Int
    /\ accepting \in [conn : Conns \cup {Nobody}, prev : Int]
    /\ boot \in Nat
    /\ signed \subseteq [boot : Nat, proof : Nat, height : Nat]

\* What a session waits to have processed is a request, not a reply.
WaitingIsRequest ==
    \A c \in Conns : conn[c] = "waiting" => frame[c] \in Requests \cup {Junk}

-----------------------------------------------------------------------------
(* Type correctness *)

LEMMA RequestFields ==
    ASSUME NEW q \in Requests \cup {Junk}
    PROVE  /\ q.op = "arm" => q.height \in Nat /\ q.activated \in Nat
           /\ q.op = "fork" => q.height \in Nat
  <1>1. CASE q \in ArmRequests
    BY <1>1, ServeAssumption DEF ArmRequests
  <1>2. CASE q \in TicketRequests
    BY <1>2, ServeAssumption DEF TicketRequests
  <1>3. CASE q \in [op : {"root"}] \cup Reads
    BY <1>3 DEF Reads
  <1>4. CASE q = Junk
    BY <1>4 DEF Junk
  <1> QED BY <1>1, <1>2, <1>3, <1>4 DEF Requests

LEMMA FrameTypes ==
    /\ Requests \cup {Junk} \subseteq Frames
    /\ NoFrame \in Frames
    /\ \A x \in BOOLEAN : Reply(x) \in Frames
  BY DEF Frames

LEMMA AfterType ==
    ASSUME NEW s \in EnclaveStates, NEW q \in Requests \cup {Junk}, Allowed(s, q)
    PROVE  After(s, q) \in EnclaveStates
  <1>1. CASE q.op = "arm"
    <2>1. q.height \in Nat /\ q.activated \in Nat
      BY <1>1, RequestFields
    <2> QED BY <1>1, <2>1 DEF After, ArmedWith, EnclaveStates
  <1>2. CASE q.op = "fork"
    <2>1. q.height \in Nat
      BY <1>2, RequestFields
    <2> QED BY <1>2, <2>1 DEF After, EnclaveStates
  <1>3. CASE q.op \in {"recover", "root", "read"}
    BY <1>3 DEF After
  <1> QED BY <1>1, <1>2, <1>3 DEF Allowed

LEMMA InitType == ServeInit => TypeOK /\ WaitingIsRequest
  <1> SUFFICES ASSUME ServeInit PROVE TypeOK /\ WaitingIsRequest
    OBVIOUS
  <1>1. armed \in EnclaveStates
    BY DEF ServeInit, EnclaveStates, Unarmed
  <1>2. poisoned \in BOOLEAN
    BY DEF ServeInit
  <1>3. frame \in [Conns -> Frames]
    BY FrameTypes DEF ServeInit
  <1>4. /\ conn \in [Conns -> Where] /\ idle \in [Conns -> Nat]
        /\ active \in Int /\ boot \in Nat
        /\ accepting \in [conn : Conns \cup {Nobody}, prev : Int]
        /\ signed \subseteq [boot : Nat, proof : Nat, height : Nat]
    BY DEF ServeInit, Where
  <1>5. WaitingIsRequest
    BY DEF ServeInit, WaitingIsRequest
  <1> QED BY <1>1, <1>2, <1>3, <1>4, <1>5 DEF TypeOK

LEMMA StepType == TypeOK /\ WaitingIsRequest /\ [ServeNext]_serveVars => (TypeOK /\ WaitingIsRequest)'
  <1> SUFFICES ASSUME TypeOK, WaitingIsRequest, [ServeNext]_serveVars
               PROVE  TypeOK' /\ WaitingIsRequest'
    OBVIOUS
  <1> USE FrameTypes DEF TypeOK, WaitingIsRequest, Where
  <1>1. ASSUME NEW c \in Conns, AcceptConnection(c)
        PROVE  TypeOK' /\ WaitingIsRequest'
    BY <1>1 DEF AcceptConnection
  <1>2. CASE AcceptVerdict
    BY <1>2, ServeAssumption DEF AcceptVerdict
  <1>3. ASSUME NEW c \in Conns, NEW q \in Requests \cup {Junk}, ReadFrame(c, q)
        PROVE  TypeOK' /\ WaitingIsRequest'
    BY <1>3 DEF ReadFrame
  <1>4. ASSUME NEW c \in Conns, ProcessFrame(c)
        PROVE  TypeOK' /\ WaitingIsRequest'
    <2>1. frame[c] \in Requests \cup {Junk} /\ conn[c] = "waiting"
      BY <1>4 DEF ProcessFrame
    <2>2. armed' \in EnclaveStates
      BY <1>4, <2>1, AfterType DEF ProcessFrame
    <2>3. signed' \subseteq [boot : Nat, proof : Nat, height : Nat]
      <3>1. frame[c].op = "fork" => frame[c].height \in Nat
        BY <2>1, RequestFields
      <3> QED BY <1>4, <3>1 DEF ProcessFrame, EnclaveStates
    <2>4. Reply(ReplyResetsIdle(frame[c], Allowed(armed, frame[c]))) \in Frames
      <3>1. ReplyResetsIdle(frame[c], Allowed(armed, frame[c])) \in BOOLEAN
        BY DEF ReplyResetsIdle, Allowed
      <3> QED BY <3>1
    <2> QED BY <1>4, <2>2, <2>3, <2>4 DEF ProcessFrame
  <1>5. ASSUME NEW c \in Conns, WriteReply(c)
        PROVE  TypeOK' /\ WaitingIsRequest'
    BY <1>5, ServeAssumption DEF WriteReply
  <1>6. ASSUME NEW c \in Conns, Tick(c)
        PROVE  TypeOK' /\ WaitingIsRequest'
    BY <1>6 DEF Tick
  <1>7. ASSUME NEW c \in Conns, IdleExpired(c) \/ Disconnect(c) \/ Panic(c)
        PROVE  TypeOK' /\ WaitingIsRequest'
    <2>1. EndSession(c) /\ UNCHANGED <<armed, accepting, boot, signed>>
      BY <1>7 DEF IdleExpired, Disconnect, Panic
    <2>2. poisoned' \in BOOLEAN
      BY <1>7 DEF IdleExpired, Disconnect, Panic
    <2> QED BY <2>1, <2>2 DEF EndSession
  <1>8. CASE Restart
    <2>1. armed' \in EnclaveStates
      BY <1>8 DEF Restart, EnclaveStates, Unarmed
    <2>2. poisoned' \in BOOLEAN
      BY <1>8 DEF Restart
    <2>3. frame' \in [Conns -> Frames]
      BY <1>8 DEF Restart
    <2>4. /\ conn' \in [Conns -> Where] /\ idle' \in [Conns -> Nat]
          /\ active' \in Int /\ boot' \in Nat
          /\ accepting' \in [conn : Conns \cup {Nobody}, prev : Int]
          /\ signed' \subseteq [boot : Nat, proof : Nat, height : Nat]
          /\ WaitingIsRequest'
      BY <1>8 DEF Restart
    <2> QED BY <2>1, <2>2, <2>3, <2>4
  <1>9. CASE UNCHANGED serveVars
    BY <1>9 DEF serveVars
  <1> QED BY <1>1, <1>2, <1>3, <1>4, <1>5, <1>6, <1>7, <1>8, <1>9
          DEF ServeNext, SessionNext, ExitOnPoison

LEMMA Types == ServeSpec => [](TypeOK /\ WaitingIsRequest)
  BY InitType, StepType, PTL DEF ServeSpec

-----------------------------------------------------------------------------
(* The session counter *)

\* The accept thread's snapshot is never below what serves now: sessions only
\* end while it decides.
SlotInv ==
    /\ IsFiniteSet(LiveSessions)
    /\ SlotsAccounted
    /\ accepting.conn # Nobody =>
           /\ conn[accepting.conn] = "none"
           /\ Cardinality(LiveSessions) <= accepting.prev

\* A session begins or ends: the set of sessions gains or loses one member.
LEMMA SessionCount ==
    ASSUME TypeOK, IsFiniteSet(LiveSessions), NEW c \in Conns, NEW w \in Where,
           conn' = [conn EXCEPT ![c] = w]
    PROVE  /\ IsFiniteSet(LiveSessions')
           /\ Cardinality(LiveSessions) \in Nat
           /\ Live(c) /\ w = "none" => Cardinality(LiveSessions') = Cardinality(LiveSessions) - 1
           /\ ~ Live(c) /\ w # "none" => Cardinality(LiveSessions') = Cardinality(LiveSessions) + 1
           /\ Live(c) /\ w # "none" => LiveSessions' = LiveSessions
           /\ ~ Live(c) /\ w = "none" => LiveSessions' = LiveSessions
  <1>1. LiveSessions' = IF w = "none" THEN LiveSessions \ {c} ELSE LiveSessions \cup {c}
    BY DEF LiveSessions, Live, TypeOK, Where
  <1>2. c \in LiveSessions <=> Live(c)
    BY DEF LiveSessions
  <1>3. Cardinality(LiveSessions) \in Nat
    BY FS_CardinalityType
  <1>4. /\ IsFiniteSet(LiveSessions \ {c})
        /\ c \in LiveSessions => Cardinality(LiveSessions \ {c}) = Cardinality(LiveSessions) - 1
        /\ c \notin LiveSessions => LiveSessions \ {c} = LiveSessions
    BY FS_RemoveElement
  <1>5. /\ IsFiniteSet(LiveSessions \cup {c})
        /\ c \notin LiveSessions =>
              Cardinality(LiveSessions \cup {c}) = Cardinality(LiveSessions) + 1
        /\ c \in LiveSessions => LiveSessions \cup {c} = LiveSessions
    BY FS_AddElement
  <1> QED BY <1>1, <1>2, <1>3, <1>4, <1>5

LEMMA InitSlots == ServeInit => SlotInv
  <1> SUFFICES ASSUME ServeInit PROVE SlotInv
    OBVIOUS
  <1>1. LiveSessions = {}
    BY DEF ServeInit, LiveSessions, Live
  <1>2. IsFiniteSet({}) /\ Cardinality({}) = 0
    BY FS_EmptySet
  <1> QED BY <1>1, <1>2, ServeAssumption DEF ServeInit, SlotInv, SlotsAccounted

LEMMA StepSlots == TypeOK /\ SlotInv /\ [ServeNext]_serveVars => SlotInv'
  <1> SUFFICES ASSUME TypeOK, SlotInv, [ServeNext]_serveVars
               PROVE  SlotInv'
    OBVIOUS
  <1>0. /\ IsFiniteSet(LiveSessions) /\ Cardinality(LiveSessions) \in Nat
        /\ active \in Int /\ MaxSessions \in Nat
        /\ Cardinality(LiveSessions) <= MaxSessions
    BY FS_CardinalityType, ServeAssumption DEF SlotInv, SlotsAccounted, TypeOK
  \* Steps that begin and end no session and leave the counter alone.
  <1>a. ASSUME LiveSessions' = LiveSessions, UNCHANGED <<active, accepting>>,
               accepting.conn # Nobody => conn'[accepting.conn] = conn[accepting.conn]
        PROVE  SlotInv'
    BY <1>a DEF SlotInv, SlotsAccounted
  \* Steps that end one session.
  <1>b. ASSUME NEW c \in Conns, conn[c] # "none", EndSession(c), UNCHANGED accepting
        PROVE  SlotInv'
    <2>1. Live(c)
      BY <1>b DEF Live, TypeOK, Where
    <2>2. /\ IsFiniteSet(LiveSessions')
          /\ Cardinality(LiveSessions') = Cardinality(LiveSessions) - 1
      BY <1>0, <1>b, <2>1, SessionCount DEF EndSession, Where
    <2>3. accepting.conn # Nobody => /\ conn'[accepting.conn] = "none"
                                     /\ accepting.prev \in Int
      BY <1>b DEF EndSession, SlotInv, TypeOK
    <2> QED BY <1>0, <1>b, <2>2, <2>3 DEF SlotInv, SlotsAccounted, EndSession
  <1>1. ASSUME NEW c \in Conns, AcceptConnection(c)
        PROVE  SlotInv'
    <2>1. LiveSessions' = LiveSessions
      BY <1>1 DEF AcceptConnection, LiveSessions, Live
    <2>2. c # Nobody
      BY ServeAssumption
    <2> QED BY <1>0, <1>1, <2>1, <2>2 DEF AcceptConnection, SlotInv, SlotsAccounted
  <1>2. CASE AcceptVerdict
    <2> DEFINE c == accepting.conn
               w == IF OverCap(accepting.prev) THEN "none" ELSE "reading"
    <2>1. /\ c \in Conns /\ conn[c] = "none" /\ ~ Live(c) /\ w \in Where
          /\ accepting.prev \in Int
          /\ Cardinality(LiveSessions) <= accepting.prev
          /\ active = Cardinality(LiveSessions) + 1
      BY <1>2 DEF AcceptVerdict, TypeOK, SlotInv, SlotsAccounted, Live, Where
    <2>2. conn' = [conn EXCEPT ![c] = w]
      BY <1>2 DEF AcceptVerdict
    <2>3. /\ accepting'.conn = Nobody
          /\ active' = IF OverCap(accepting.prev) THEN active - 1 ELSE active
      BY <1>2 DEF AcceptVerdict
    <2>4. CASE OverCap(accepting.prev)
      <3>1. LiveSessions' = LiveSessions
        BY <1>0, <2>1, <2>2, <2>4, SessionCount
      <3> QED BY <1>0, <2>1, <2>3, <2>4, <3>1 DEF SlotInv, SlotsAccounted
    <2>5. CASE ~ OverCap(accepting.prev)
      <3>1. /\ IsFiniteSet(LiveSessions')
            /\ Cardinality(LiveSessions') = Cardinality(LiveSessions) + 1
        BY <1>0, <2>1, <2>2, <2>5, SessionCount
      <3>2. accepting.prev < MaxSessions
        BY <1>0, <2>1, <2>5 DEF OverCap
      <3> QED BY <1>0, <2>1, <2>3, <2>5, <3>1, <3>2 DEF SlotInv, SlotsAccounted
    <2> QED BY <2>4, <2>5
  <1>3. ASSUME NEW c \in Conns, NEW w \in Where \ {"none"}, conn[c] # "none",
               conn' = [conn EXCEPT ![c] = w], UNCHANGED <<active, accepting>>
        PROVE  SlotInv'
    <2>1. LiveSessions' = LiveSessions
      BY <1>3 DEF LiveSessions, Live, TypeOK, Where
    <2>2. accepting.conn # Nobody => conn'[accepting.conn] = conn[accepting.conn]
      BY <1>3 DEF SlotInv, TypeOK
    <2> QED BY <1>3, <1>a, <2>1, <2>2
  <1>4. ASSUME NEW c \in Conns, NEW q \in Requests \cup {Junk}, ReadFrame(c, q)
        PROVE  SlotInv'
    BY <1>3, <1>4 DEF ReadFrame, Where
  <1>5. ASSUME NEW c \in Conns, ProcessFrame(c) \/ WriteReply(c)
        PROVE  SlotInv'
    BY <1>3, <1>5 DEF ProcessFrame, WriteReply, Where
  <1>6. ASSUME NEW c \in Conns, Tick(c)
        PROVE  SlotInv'
    BY <1>6, <1>a DEF Tick, LiveSessions, Live
  <1>7. ASSUME NEW c \in Conns, IdleExpired(c) \/ Disconnect(c) \/ Panic(c)
        PROVE  SlotInv'
    BY <1>7, <1>b DEF IdleExpired, Disconnect, Panic
  <1>8. CASE Restart
    <2>1. LiveSessions' = {}
      BY <1>8 DEF Restart, LiveSessions, Live
    <2>2. IsFiniteSet({}) /\ Cardinality({}) = 0
      BY FS_EmptySet
    <2> QED BY <1>0, <1>8, <2>1, <2>2 DEF Restart, SlotInv, SlotsAccounted
  <1>9. CASE UNCHANGED serveVars
    BY <1>9, <1>a DEF serveVars, LiveSessions, Live
  <1> QED BY <1>1, <1>2, <1>4, <1>5, <1>6, <1>7, <1>8, <1>9
          DEF ServeNext, SessionNext, ExitOnPoison

\* However the accept thread's add, check and subtract interleave with ending
\* sessions, the cap holds and no slot is lost or counted twice.
THEOREM SlotsHold == ServeSpec => []SlotsAccounted
  <1>1. SlotInv => SlotsAccounted
    BY DEF SlotInv
  <1> QED BY <1>1, Types, InitSlots, StepSlots, PTL DEF ServeSpec

-----------------------------------------------------------------------------
(* Hard-fork tickets *)

\* What this process signed rests on a proof no newer than the armed one, and
\* the armed proof's own ticket is still pending.
SignedIsBehind ==
    \A s \in signed :
        /\ s.boot <= boot
        /\ s.boot = boot =>
               /\ IsArmed(armed)
               /\ s.proof <= armed.height
               /\ s.proof = armed.height => armed.pending # 0

\* An armed state has a proof height: Unarmed is the only one at height 0.
ArmedHasHeight == IsArmed(armed) => armed.height > 0

ForkInv == OneForkPerProof /\ SignedIsBehind /\ ArmedHasHeight

LEMMA QuietForks ==
    ASSUME ForkInv, UNCHANGED <<armed, signed, boot>>
    PROVE  ForkInv'
  BY DEF ForkInv, OneForkPerProof, SignedIsBehind, ArmedHasHeight, IsArmed, Unarmed

LEMMA StepForks == TypeOK /\ WaitingIsRequest /\ ForkInv /\ [ServeNext]_serveVars => ForkInv'
  <1> SUFFICES ASSUME TypeOK, WaitingIsRequest, ForkInv, [ServeNext]_serveVars
               PROVE  ForkInv'
    OBVIOUS
  <1>1. ASSUME NEW c \in Conns, ProcessFrame(c)
        PROVE  ForkInv'
    <2> DEFINE q == frame[c]
    <2>1. /\ q \in Requests \cup {Junk}
          /\ boot' = boot /\ boot \in Nat
          /\ armed \in EnclaveStates /\ armed.height \in Nat
          /\ signed \subseteq [boot : Nat, proof : Nat, height : Nat]
      BY <1>1 DEF ProcessFrame, WaitingIsRequest, TypeOK, EnclaveStates
    <2>2. CASE ~ Allowed(armed, q) \/ q.op \in {"recover", "root", "read"}
      BY <1>1, <2>2, QuietForks DEF ProcessFrame, After
    <2>3. CASE q.op = "arm" /\ Allowed(armed, q)
      <3>1. /\ q.height \in Nat /\ q.height > 0
            /\ IsArmed(armed) => q.height > armed.height
        BY <2>1, <2>3, RequestFields DEF Allowed, ArmAllowed, ValidProof
      <3>2. armed' = ArmedWith(q) /\ signed' = signed
        BY <1>1, <2>3 DEF ProcessFrame, After
      <3>3. armed'.height = q.height /\ IsArmed(armed')
        BY <3>1, <3>2 DEF ArmedWith, IsArmed, Unarmed
      <3>4. \A s \in signed : s.boot = boot => s.proof < q.height
        BY <2>1, <3>1 DEF ForkInv, SignedIsBehind
      <3> HIDE DEF q
      <3> QED BY <2>1, <3>1, <3>2, <3>3, <3>4
              DEF ForkInv, OneForkPerProof, SignedIsBehind, ArmedHasHeight
    <2>4. CASE q.op = "fork" /\ Allowed(armed, q)
      <3> DEFINE new == [boot |-> boot, proof |-> armed.height, height |-> q.height]
      <3>1. /\ q.height \in Nat /\ q.height > armed.height
            /\ IsArmed(armed) /\ armed.pending = 0
        BY <2>1, <2>4, RequestFields DEF Allowed, ForkAllowed
      <3>2. armed' = [armed EXCEPT !.pending = q.height] /\ signed' = signed \cup {new}
        BY <1>1, <2>4 DEF ProcessFrame, After
      <3>3. /\ armed'.height = armed.height /\ armed'.pending = q.height
            /\ q.height # 0 /\ IsArmed(armed')
        BY <2>1, <3>1, <3>2 DEF EnclaveStates, IsArmed, Unarmed
      <3>4. \A s \in signed : ~ (s.boot = boot /\ s.proof = armed.height)
        BY <3>1 DEF ForkInv, SignedIsBehind
      <3>5. OneForkPerProof'
        BY <2>1, <3>1, <3>2, <3>4 DEF ForkInv, OneForkPerProof
      <3>6. SignedIsBehind' /\ ArmedHasHeight'
        BY <2>1, <3>1, <3>2, <3>3 DEF ForkInv, SignedIsBehind, ArmedHasHeight
      <3> QED BY <3>5, <3>6 DEF ForkInv
    <2> QED BY <2>2, <2>3, <2>4 DEF Allowed
  <1>2. CASE Restart
    <2>1. boot' = boot + 1 /\ armed' = Unarmed /\ signed' = signed /\ boot \in Nat
          /\ \A s \in signed : s.boot \in Nat
      BY <1>2 DEF Restart, TypeOK
    <2> QED BY <2>1 DEF ForkInv, OneForkPerProof, SignedIsBehind, ArmedHasHeight, IsArmed
  <1>3. CASE UNCHANGED <<armed, signed, boot>>
    BY <1>3, QuietForks
  <1> QED BY <1>1, <1>2, <1>3
          DEF ServeNext, SessionNext, ExitOnPoison, AcceptConnection, AcceptVerdict, ReadFrame,
              WriteReply, Tick, IdleExpired, Disconnect, Panic, EndSession, serveVars

\* Within one process a finalized height backs at most one hard-fork ticket, and
\* the ticket lies ahead of it, however the sessions interleave and whatever they
\* replay.
THEOREM OneForkHolds == ServeSpec => []OneForkPerProof
  <1>1. ServeInit => ForkInv
    BY DEF ServeInit, ForkInv, OneForkPerProof, SignedIsBehind, ArmedHasHeight, IsArmed
  <1>2. ForkInv => OneForkPerProof
    BY DEF ForkInv
  <1> QED BY <1>1, <1>2, Types, StepForks, PTL DEF ServeSpec

\* After a panic inside the critical section no session signs or changes the
\* authorization state until the process is restarted.
THEOREM PoisonHolds == ServeSpec => PoisonStopsService
  <1>1. TypeOK /\ [ServeNext]_serveVars =>
            [poisoned /\ boot' = boot => signed' = signed /\ armed' = armed]_serveVars
    <2> SUFFICES ASSUME TypeOK, ServeNext, poisoned, boot' = boot
                 PROVE  signed' = signed /\ armed' = armed
      BY DEF serveVars
    <2>1. ~ Restart
      BY DEF Restart, TypeOK
    <2>2. \A c \in Conns : ~ ProcessFrame(c)
      BY DEF ProcessFrame, MutexUsable
    <2> QED BY <2>1, <2>2
            DEF ServeNext, SessionNext, ExitOnPoison, AcceptConnection, AcceptVerdict, ReadFrame,
                WriteReply, Tick, IdleExpired, Disconnect, Panic, EndSession
  <1> QED BY <1>1, Types, PTL DEF ServeSpec, PoisonStopsService
=============================================================================
