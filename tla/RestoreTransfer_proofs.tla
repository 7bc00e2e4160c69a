----------------------- MODULE RestoreTransfer_proofs -----------------------
(***************************************************************************)
(* Proofs about RestoreTransfer, for any number of enclaves, ceremonies    *)
(* and backups of other deployments, and envelopes the host seals itself.  *)
(*                                                                         *)
(* What a restore relies on is spread over three parties: the operator's   *)
(* ceremonies are consistent in themselves (CeremoniesSound), restore keys *)
(* are drawn once and belong to one enclave (KeysSound), the marks of an   *)
(* enclave only grow.  The budget needs the one thing no enclave can see:  *)
(* that at most one live enclave has, or may come to have, the treasury    *)
(* key (OneTreasurer), that it knows of everything paid so far (KnowsPaid) *)
(* and that it answers to our authorities (AuthorityKept).                 *)
(***************************************************************************)
EXTENDS RestoreTransfer, TLAPS

Environments == {"main", "test"}

Body == [entries : SUBSET Keys, genuine : BOOLEAN, marks : Marks,
         env : Environments, auth : Authorities]

Publication == [of : Enclaves, key : Nat, env : Environments]

Prepared ==
    [rid : Rids, by : {"ours"},
     envelope : [key : Nat, env : Environments, digest : Backup,
                 manifest : SUBSET Keys, payload : Backup],
     cap : [row : Rows, identity : Enclaves \cup {"fleet"}, counter : Nat,
            refs : SUBSET Keys, digest : Backup],
     high : [env : Environments, marks : Marks],
     used : SUBSET Nat]

\* The marks m are nowhere above n; the strict epoch is not compared.
AtMost(m, n) ==
    /\ \A r \in Rows : m.rows[r] <= n.rows[r]
    /\ m.spend <= n.spend

TypeOK ==
    /\ body \in [Enclaves -> Body]
    /\ key \in [Enclaves -> Nat]
    /\ drawn \in Nat
    /\ pubs \subseteq Publication
    /\ backups \subseteq Backup
    /\ ceremonies \subseteq Prepared
    /\ paid \in Nat
    /\ barred \in [Enclaves -> SUBSET Nat]

\* Each ceremony wraps the backup it authorises, for a key somebody published, and
\* vouches for no capability above its marks; a request_id names one ceremony.
CeremonySound(c) ==
    /\ c.envelope.payload = c.envelope.digest
    /\ c.envelope.manifest = c.envelope.payload.entries
    /\ c.cap.digest = c.envelope.digest
    /\ c.cap.row[1] = "recovery"
    /\ \A n \in c.used : n <= c.high.marks.rows[<<"admin", 1>>]
    /\ \E p \in pubs : /\ p.key = c.envelope.key
                       /\ c.cap.row[2] = 0 => c.cap.identity = p.of

CeremoniesSound ==
    /\ \A c \in ceremonies : CeremonySound(c)
    /\ \A c, d \in ceremonies : c.rid = d.rid => c = d

\* Keys are numbered as they are drawn; the slot of an enclave holds a key it
\* published itself and that no restore has used.
KeysSound ==
    /\ \A p \in pubs : p.key \in 1 .. drawn
    /\ \A p, q \in pubs : p.key = q.key => p.of = q.of
    /\ \A e \in Enclaves : key[e] # 0 =>
          /\ \E p \in pubs : p.of = e /\ p.key = key[e]
          /\ \A r \in restored : r.key # key[e]
    /\ \A r \in restored : r.key \in 1 .. drawn

\* What a restore vouched for stays at or below the row that would accept it.
BarredBelow ==
    \A e \in Enclaves : \A n \in barred[e] : n <= body[e].marks.rows[<<"admin", 1>>]

RInv ==
    /\ TypeOK
    /\ CeremoniesSound
    /\ KeysSound
    /\ RestoredAsAuthorised
    /\ OneRestorePerKey
    /\ BarredBelow

-----------------------------------------------------------------------------
(* Marks *)

LEMMA RowsKnown ==
    /\ <<"admin", 0>> \in Rows /\ <<"admin", 1>> \in Rows
    /\ \A c \in Classes : <<"recovery", c>> \in Rows
  BY DEF Rows, Classes

LEMMA AtMostTransitive ==
  ASSUME NEW l \in Marks, NEW m \in Marks, NEW n \in Marks, AtMost(l, m), AtMost(m, n)
  PROVE  AtMost(l, n)
  <1>1. ASSUME NEW r \in Rows PROVE l.rows[r] <= n.rows[r]
    <2>1. l.rows[r] \in Nat /\ m.rows[r] \in Nat /\ n.rows[r] \in Nat
      BY DEF Marks
    <2>2. l.rows[r] <= m.rows[r] /\ m.rows[r] <= n.rows[r]
      BY DEF AtMost
    <2>. QED
      BY <2>1, <2>2
  <1>2. l.spend <= n.spend
    BY DEF AtMost, Marks
  <1>. QED
    BY <1>1, <1>2 DEF AtMost

\* The join of two marks is the authority's: at least both.
LEMMA JoinAbove ==
  ASSUME NEW m \in Marks, NEW n \in Marks
  PROVE  Join(m, n) \in Marks /\ AtMost(m, Join(m, n)) /\ AtMost(n, Join(m, n))
  BY DEF Join, MaxOf, Marks, AtMost

\* An enclave's marks after a counter was raised or a dispense counted.
LEMMA RaiseRow ==
  ASSUME NEW m \in Marks, NEW r \in Rows, NEW c \in Nat, c >= m.rows[r]
  PROVE  /\ [m EXCEPT !.rows[r] = c] \in Marks
         /\ AtMost(m, [m EXCEPT !.rows[r] = c])
         /\ [m EXCEPT !.rows[r] = c].spend = m.spend
  BY DEF Marks, AtMost

LEMMA RaiseSpend ==
  ASSUME NEW m \in Marks
  PROVE  /\ [m EXCEPT !.spend = @ + 1] \in Marks
         /\ AtMost(m, [m EXCEPT !.spend = @ + 1])
         /\ [m EXCEPT !.spend = @ + 1].spend = m.spend + 1
  BY DEF Marks, AtMost

\* apply_restore_to_body takes every mark from the signed high-water or higher.
LEMMA RestoredMarks ==
  ASSUME NEW e \in Enclaves, TypeOK, NEW b \in Backup, NEW high \in Marks,
         NEW cap, cap.row \in Rows, cap.counter \in Nat
  PROVE  /\ RestoredBody(e, b, high, cap) \in Body
         /\ RestoredBody(e, b, high, cap).entries = b.entries
         /\ RestoredBody(e, b, high, cap).env = b.env
         /\ RestoredBody(e, b, high, cap).genuine = b.genuine
         /\ RestoredBody(e, b, high, cap).marks.spend = high.spend
         /\ AtMost(high, RestoredBody(e, b, high, cap).marks)
  <1> DEFINE s == MaxOf(MaxOf(body[e].marks.strict, b.marks.strict) + 1, high.strict)
             c == MaxOf(high.rows[cap.row], cap.counter)
             m == [high EXCEPT !.strict = s, !.rows[cap.row] = c]
  <1>1. body[e].marks.strict \in Nat /\ b.marks.strict \in Nat /\ high.strict \in Nat
    BY DEF TypeOK, Body, Backup, Marks
  <1>2. s \in Nat
    BY <1>1 DEF MaxOf
  <1>3. c \in Nat /\ c >= high.rows[cap.row]
    BY DEF MaxOf, Marks
  <1>4. m \in Marks /\ m.spend = high.spend /\ AtMost(high, m)
    <2> HIDE DEF s, c
    <2>1. PICK row \in Rows : row = cap.row
      OBVIOUS
    <2>2. PICK n \in Marks : n = [high EXCEPT !.strict = s]
      BY <1>2 DEF Marks
    <2>3. n.rows = high.rows /\ n.spend = high.spend
      BY <2>2 DEF Marks
    <2>4. AtMost(high, n)
      BY <2>3 DEF AtMost, Marks
    <2>5. m = [n EXCEPT !.rows[row] = c]
      BY <2>1, <2>2
    <2>6. c >= n.rows[row]
      BY <1>3, <2>1, <2>3
    <2> HIDE DEF m
    <2>7. m \in Marks /\ AtMost(n, m) /\ m.spend = n.spend
      BY <1>3, <2>5, <2>6, RaiseRow
    <2>. QED
      BY <2>3, <2>4, <2>7, AtMostTransitive
  <1>5. RestoredBody(e, b, high, cap) =
           [entries |-> b.entries, genuine |-> b.genuine, env |-> b.env, auth |-> b.auth,
            marks |-> m]
    BY DEF RestoredBody
  <1> HIDE DEF m
  <1>6. /\ b.entries \in SUBSET Keys /\ b.env \in Environments
        /\ b.genuine \in BOOLEAN /\ b.auth \in Authorities
    BY DEF Backup, Environments
  <1>. QED
    BY <1>4, <1>5, <1>6 DEF Body

-----------------------------------------------------------------------------
(* What the actions do to the bodies *)

\* An enclave's own operations raise its marks and leave the rest.
OnlyRaises ==
    /\ body' \in [Enclaves -> Body]
    /\ \A f \in Enclaves : /\ body'[f].entries = body[f].entries
                           /\ body'[f].genuine = body[f].genuine
                           /\ body'[f].env = body[f].env
                           /\ body'[f].auth = body[f].auth
                           /\ AtMost(body[f].marks, body'[f].marks)

LEMMA AtMostSelf == ASSUME NEW m \in Marks PROVE AtMost(m, m)
  BY DEF AtMost, Marks

LEMMA BodyFields ==
  ASSUME TypeOK, NEW e \in Enclaves
  PROVE  /\ body[e] \in Body /\ body[e].marks \in Marks
         /\ body[e].entries \in SUBSET Keys /\ body[e].env \in Environments
         /\ body[e].genuine \in BOOLEAN /\ body[e].auth \in Authorities
         /\ body[e].marks.spend \in Nat
         /\ \A r \in Rows : body[e].marks.rows[r] \in Nat
  BY DEF TypeOK, Body, Marks

LEMMA MarksRaised ==
  ASSUME TypeOK, NEW e \in Enclaves, NEW m \in Marks, AtMost(body[e].marks, m),
         body' = [body EXCEPT ![e] = [body[e] EXCEPT !.marks = m]]
  PROVE  OnlyRaises /\ body'[e].marks = m
  <1>1. ASSUME NEW f \in Enclaves
        PROVE  /\ body'[f] \in Body
               /\ body'[f].entries = body[f].entries
               /\ body'[f].genuine = body[f].genuine
               /\ body'[f].env = body[f].env
               /\ body'[f].auth = body[f].auth
               /\ AtMost(body[f].marks, body'[f].marks)
    <2>1. CASE f = e
      <3>1. body'[f] = [body[f] EXCEPT !.marks = m]
        BY <2>1 DEF TypeOK
      <3>2. body'[f].marks = m
        BY <3>1, BodyFields DEF Body
      <3>. QED
        BY <2>1, <3>1, <3>2, BodyFields DEF Body
    <2>2. CASE f # e
      <3>1. body'[f] = body[f]
        BY <2>2 DEF TypeOK
      <3>. QED
        BY <3>1, BodyFields, AtMostSelf
    <2>. QED
      BY <2>1, <2>2
  <1>2. body' \in [Enclaves -> Body]
    BY <1>1 DEF TypeOK
  <1>3. body'[e] = [body[e] EXCEPT !.marks = m]
    BY DEF TypeOK
  <1>4. body'[e].marks = m
    BY <1>3, BodyFields DEF Body
  <1>. QED
    BY <1>1, <1>2, <1>4 DEF OnlyRaises

LEMMA FleetBody ==
  ASSUME TypeOK, NEW e \in Enclaves, FleetOperation(e)
  PROVE  OnlyRaises
  <1>1. PICK c \in Nat : c = body[e].marks.rows[<<"admin", 1>>] + 1
    BY BodyFields, RowsKnown
  <1>2. PICK m : m = [body[e].marks EXCEPT !.rows[<<"admin", 1>>] = c]
    OBVIOUS
  <1>a. c >= body[e].marks.rows[<<"admin", 1>>] /\ body[e].marks \in Marks
    BY <1>1, BodyFields, RowsKnown
  <1>3. body' = [body EXCEPT ![e] = [body[e] EXCEPT !.marks = m]]
    BY <1>1, <1>2 DEF FleetOperation
  <1>4. m \in Marks /\ AtMost(body[e].marks, m)
    BY <1>a, <1>2, RowsKnown, RaiseRow
  <1>. QED
    BY <1>3, <1>4, MarksRaised

LEMMA DispenseBody ==
  ASSUME TypeOK, NEW e \in Enclaves, Dispense(e)
  PROVE  OnlyRaises /\ body'[e].marks.spend = body[e].marks.spend + 1
  <1>1. PICK m : m = [body[e].marks EXCEPT !.spend = @ + 1]
    OBVIOUS
  <1>2. body' = [body EXCEPT ![e] = [body[e] EXCEPT !.marks = m]]
    BY <1>1 DEF Dispense
  <1>3. /\ m \in Marks /\ AtMost(body[e].marks, m)
        /\ m.spend = body[e].marks.spend + 1
    BY <1>1, BodyFields, RaiseSpend
  <1>. QED
    BY <1>2, <1>3, MarksRaised

LEMMA ExportBody ==
  ASSUME TypeOK, NEW e \in Enclaves, NEW refs \in SUBSET Keys, ExportBackup(e, refs)
  PROVE  OnlyRaises /\ backups' \subseteq Backup
  <1>1. PICK c \in Nat : c = body[e].marks.rows[<<"admin", 0>>] + 1
    BY BodyFields, RowsKnown
  <1>2. PICK m : m = [body[e].marks EXCEPT !.rows[<<"admin", 0>>] = c]
    OBVIOUS
  <1>a. c >= body[e].marks.rows[<<"admin", 0>>] /\ body[e].marks \in Marks
    BY <1>1, BodyFields, RowsKnown
  <1>3. /\ body' = [body EXCEPT ![e] = [body[e] EXCEPT !.marks = m]]
        /\ backups' = backups \cup {SealedBackup(e, refs, m)}
    BY <1>1, <1>2 DEF ExportBackup
  <1>4. m \in Marks /\ AtMost(body[e].marks, m)
    BY <1>a, <1>2, RowsKnown, RaiseRow
  <1>5. SealedBackup(e, refs, m) \in Backup
    BY <1>4, BodyFields DEF SealedBackup, OwnWrap, Backup, Environments
  <1>. QED
    BY <1>3, <1>4, <1>5, MarksRaised DEF TypeOK

\* What the host has to put into a request: only the operator's envelopes hold
\* the deployment's secrets.
LEMMA EnvelopeFacts ==
  ASSUME TypeOK, CeremoniesSound, NEW e \in Enclaves, NEW envelope \in Envelopes(e)
  PROVE  /\ envelope.payload \in Backup
         /\ envelope.payload.genuine =>
               /\ envelope.payload = envelope.digest
               /\ \E c \in ceremonies : envelope = c.envelope
  <1>1. CASE \E c \in ceremonies : envelope = c.envelope
    <2>1. PICK c \in ceremonies : envelope = c.envelope
      BY <1>1
    <2>2. c \in Prepared /\ CeremonySound(c)
      BY DEF TypeOK, CeremoniesSound
    <2>3. envelope.payload \in Backup
      BY <2>1, <2>2 DEF Prepared
    <2>4. envelope.payload = envelope.digest
      BY <2>1, <2>2 DEF CeremonySound
    <2>. QED
      BY <2>1, <2>3, <2>4
  <1>2. CASE envelope \in HostEnvelopes(e)
    <2>1. PICK d \in {c.cap.digest : c \in {x \in ceremonies : Published(e)}},
               refs \in SUBSET Keys \ {{}}, a \in Authorities :
             envelope =
               [key |-> key[e], env |-> body[e].env, digest |-> d, manifest |-> refs,
                payload |-> [of |-> "elsewhere", env |-> body[e].env, wrap |-> OwnWrap,
                             entries |-> refs, genuine |-> FALSE, auth |-> a,
                             marks |-> Zero]]
      BY <1>2 DEF HostEnvelopes
    <2>2. envelope.payload = [of |-> "elsewhere", env |-> body[e].env, wrap |-> OwnWrap,
                              entries |-> refs, genuine |-> FALSE, auth |-> a, marks |-> Zero]
      BY <2>1
    <2>3. Zero \in Marks
      BY DEF Zero, Marks
    <2>4. body[e].env \in Environments
      BY BodyFields
    <2>5. envelope.payload \in Backup
      BY <2>2, <2>3, <2>4 DEF Backup, OwnWrap, Environments
    <2>6. ~ envelope.payload.genuine
      BY <2>2
    <2>. QED
      BY <2>5, <2>6
  <1>. QED
    BY <1>1, <1>2 DEF Envelopes

\* What a piece signed for by our authorities or by the host's says.
LEMMA SignatureFacts ==
  ASSUME TypeOK, CeremoniesSound, NEW e \in Enclaves, NEW envelope \in Envelopes(e),
         NEW s \in Signatures(e, envelope)
  PROVE  /\ s.cap.row \in Rows /\ s.cap.counter \in Nat
         /\ s.high.marks \in Marks
         /\ s.used \subseteq Nat
         /\ \A n \in s.used : n <= s.high.marks.rows[<<"admin", 1>>]
         /\ s.by = "ours" => s \in ceremonies
  <1>1. CASE s \in ceremonies
    <2>1. s \in Prepared /\ CeremonySound(s)
      BY <1>1 DEF TypeOK, CeremoniesSound
    <2>. QED
      BY <1>1, <2>1 DEF Prepared, CeremonySound
  <1>2. CASE s \in HostSigned(e, envelope)
    <2>1. PICK n \in Nat : n = body[e].marks.rows[<<"recovery", 0>>] + 1
      BY BodyFields, RowsKnown DEF Classes
    <2>2. PICK m \in Marks : m = Join(envelope.payload.marks, body[e].marks)
      <3>1. envelope.payload.marks \in Marks
        BY EnvelopeFacts DEF Backup
      <3>. QED
        BY <3>1, BodyFields, JoinAbove
    <2>3. s = [rid |-> "host", by |-> "host", envelope |-> envelope,
               cap |-> [row |-> <<"recovery", 0>>, identity |-> e, counter |-> n,
                        refs |-> envelope.payload.entries, digest |-> envelope.digest],
               high |-> [env |-> body[e].env, marks |-> m],
               used |-> {}]
      BY <1>2, <2>1, <2>2 DEF HostSigned
    <2>4. s.cap.row = <<"recovery", 0>> /\ s.cap.counter = n /\ s.high.marks = m
          /\ s.used = {} /\ s.by = "host"
      BY <2>3
    <2>. QED
      BY <2>4, RowsKnown DEF Classes
  <1>. QED
    BY <1>1, <1>2 DEF Signatures

\* What the checks of handle_restore_backup establish about the pieces.
LEMMA RestoreFacts ==
  ASSUME TypeOK, CeremoniesSound, NEW e \in Enclaves,
         NEW envelope \in Envelopes(e), NEW original \in backups,
         NEW signed \in Signatures(e, envelope), NEW attested \in Signatures(e, envelope),
         RestoreAccepted(e, envelope, original, signed.cap.refs, signed, attested)
  PROVE  /\ Live(e)
         /\ key[e] # 0 /\ envelope.key = key[e]
         /\ envelope.payload \in Backup
         /\ envelope.payload.env = body[e].env
         /\ envelope.payload.entries = signed.cap.refs
         /\ envelope.payload.genuine => envelope.payload = signed.cap.digest
         /\ signed.by = body[e].auth
         /\ signed.by = "ours" => signed \in ceremonies /\ attested = signed
         /\ attested.high.marks \in Marks
         /\ AtMost(body[e].marks, attested.high.marks)
         /\ signed.cap.row \in Rows /\ signed.cap.counter \in Nat
         /\ signed.cap.row[2] = 0 => signed.cap.identity = e
  <1>2. Live(e) /\ key[e] # 0 /\ envelope.key = key[e]
    BY DEF RestoreAccepted, Opens, Published
  <1>3. /\ envelope.payload \in Backup
        /\ envelope.payload.genuine => envelope.payload = envelope.digest
    BY EnvelopeFacts
  <1>4. /\ attested.high.marks \in Marks
        /\ signed.cap.row \in Rows /\ signed.cap.counter \in Nat
        /\ signed.by = "ours" => signed \in ceremonies
        /\ attested.by = "ours" => attested \in ceremonies
    BY SignatureFacts
  <1>5. /\ envelope.payload.env = body[e].env
        /\ envelope.payload.entries = signed.cap.refs
        /\ envelope.digest = signed.cap.digest
    BY DEF RestoreAccepted, CapabilityFits, VerifyRestoreIngress
  <1>6. signed.by = body[e].auth /\ attested.by = body[e].auth
    BY DEF RestoreAccepted, SignedFor
  <1>7. signed.by = "ours" => attested = signed
    BY <1>4, <1>6 DEF RestoreAccepted, VerifyRecoveryHighWater, CeremoniesSound
  <1>8. HighWaterDominates(attested.high.marks, body[e].marks)
    BY DEF RestoreAccepted, Ac6
  <1>9. AtMost(body[e].marks, attested.high.marks)
    BY <1>4, <1>8, BodyFields DEF HighWaterDominates, AtMost, Marks
  <1>10. signed.cap.row[2] = 0 => signed.cap.identity = e
    BY DEF RestoreAccepted, CapabilityFits
  <1>. QED
    BY <1>2, <1>3, <1>4, <1>5, <1>6, <1>7, <1>9, <1>10

\* A restore replaces the keys by those of the payload and goes below no mark.
LEMMA CommitBody ==
  ASSUME TypeOK, CeremoniesSound, NEW e \in Enclaves,
         NEW envelope \in Envelopes(e), NEW original \in backups,
         NEW signed \in Signatures(e, envelope), NEW attested \in Signatures(e, envelope),
         RestoreAccepted(e, envelope, original, signed.cap.refs, signed, attested),
         RestoreCommits(e, envelope, signed, attested)
  PROVE  /\ body' \in [Enclaves -> Body]
         /\ \A f \in Enclaves \ {e} : body'[f] = body[f]
         /\ body'[e].entries = envelope.payload.entries
         /\ body'[e].genuine = envelope.payload.genuine
         /\ body'[e].env = body[e].env
         /\ body'[e].marks.spend = attested.high.marks.spend
         /\ AtMost(body[e].marks, body'[e].marks)
         /\ AtMost(attested.high.marks, body'[e].marks)
  <1>2. PICK n : n = RestoredBody(e, envelope.payload, attested.high.marks, signed.cap)
    OBVIOUS
  <1>3. body' = [body EXCEPT ![e] = n]
    BY <1>2 DEF RestoreCommits
  <1>4. /\ envelope.payload \in Backup /\ attested.high.marks \in Marks
        /\ signed.cap.row \in Rows /\ signed.cap.counter \in Nat
        /\ envelope.payload.env = body[e].env
        /\ AtMost(body[e].marks, attested.high.marks)
    BY RestoreFacts
  <1>5. /\ n \in Body /\ n.entries = envelope.payload.entries
        /\ n.genuine = envelope.payload.genuine
        /\ n.env = envelope.payload.env
        /\ n.marks.spend = attested.high.marks.spend
        /\ AtMost(attested.high.marks, n.marks)
    BY <1>2, <1>4, RestoredMarks
  <1>6. n.marks \in Marks
    BY <1>5 DEF Body
  <1>7. AtMost(body[e].marks, n.marks)
    BY <1>4, <1>5, <1>6, BodyFields, AtMostTransitive
  <1>8. body'[e] = n /\ body' \in [Enclaves -> Body] /\ \A f \in Enclaves \ {e} : body'[f] = body[f]
    BY <1>3, <1>5 DEF TypeOK
  <1>. QED
    BY <1>4, <1>5, <1>7, <1>8

-----------------------------------------------------------------------------
(* The invariant *)

LEMMA InitRInv == Init => RInv
  <1> SUFFICES ASSUME Init PROVE RInv
    OBVIOUS
  <1>1. Zero \in Marks
    BY DEF Zero, Marks
  <1>2. TypeOK
    BY <1>1, ConstantsAssumption DEF Init, TypeOK, Body, Environments, Authorities
  <1>3. CeremoniesSound
    BY DEF Init, CeremoniesSound
  <1>4. KeysSound
    BY DEF Init, KeysSound
  <1>5. RestoredAsAuthorised
    BY DEF Init, RestoredAsAuthorised
  <1>6. OneRestorePerKey /\ BarredBelow
    BY DEF Init, OneRestorePerKey, BarredBelow
  <1>. QED
    BY <1>2, <1>3, <1>4, <1>5, <1>6 DEF RInv

\* An enclave's own operations: fleet capability, dispense, export.
LEMMA OwnOperation ==
  ASSUME RInv, OnlyRaises, backups' \subseteq Backup, paid' \in Nat,
         UNCHANGED <<key, drawn, pubs, ceremonies, barred, restored>>
  PROVE  RInv'
  <1>1. TypeOK'
    BY DEF RInv, TypeOK, OnlyRaises
  <1>2. CeremoniesSound'
    BY DEF RInv, CeremoniesSound, CeremonySound
  <1>3. KeysSound'
    BY DEF RInv, KeysSound
  <1>4. RestoredAsAuthorised'
    BY DEF RInv, RestoredAsAuthorised, OnlyRaises
  <1>5. OneRestorePerKey'
    BY DEF RInv, OneRestorePerKey
  <1>6. BarredBelow'
    <2> SUFFICES ASSUME NEW e \in Enclaves, NEW n \in barred[e]
                 PROVE  n <= body'[e].marks.rows[<<"admin", 1>>]
      BY DEF BarredBelow
    <2>1. n <= body[e].marks.rows[<<"admin", 1>>]
      BY DEF RInv, BarredBelow
    <2>2. body[e].marks.rows[<<"admin", 1>>] <= body'[e].marks.rows[<<"admin", 1>>]
      BY RowsKnown DEF OnlyRaises, AtMost
    <2>3. /\ n \in Nat /\ body[e].marks.rows[<<"admin", 1>>] \in Nat
          /\ body'[e].marks.rows[<<"admin", 1>>] \in Nat
      BY <1>1, RowsKnown DEF RInv, TypeOK, Body, Marks
    <2>. QED
      BY <2>1, <2>2, <2>3
  <1>. QED
    BY <1>1, <1>2, <1>3, <1>4, <1>5, <1>6 DEF RInv

\* A key is drawn: it is new to every publication and every restore.
LEMMA PublishKeeps ==
  ASSUME RInv, NEW e \in Enclaves, GetRestorePubkey(e)
  PROVE  RInv'
  <1> USE DEF RInv, GetRestorePubkey
  <1>1. TypeOK'
    BY BodyFields DEF TypeOK, PublishedKey, Publication
  <1>2. CeremoniesSound'
    BY DEF CeremoniesSound, CeremonySound
  <1>3. KeysSound'
    <2> DEFINE new == PublishedKey(e, drawn + 1)
    <2>1. new.of = e /\ new.key = drawn + 1
      BY DEF PublishedKey
    <2>2. pubs' = pubs \cup {new} /\ drawn' = drawn + 1 /\ drawn \in Nat
      BY DEF TypeOK
    <2> HIDE DEF new
    <2>3. \A p \in pubs' : p.key \in 1 .. drawn'
      BY <2>1, <2>2 DEF KeysSound
    <2>4. \A p \in pubs : p.key # drawn + 1
      BY <2>2 DEF KeysSound
    <2>5. \A p, q \in pubs' : p.key = q.key => p.of = q.of
      BY <2>1, <2>2, <2>4 DEF KeysSound
    <2>6. ASSUME NEW f \in Enclaves, key'[f] # 0
          PROVE  /\ \E p \in pubs' : p.of = f /\ p.key = key'[f]
                 /\ \A r \in restored' : r.key # key'[f]
      <3>1. CASE f = e
        <4>1. key'[f] = drawn + 1
          BY <3>1 DEF TypeOK
        <4>2. \A r \in restored : r.key # drawn + 1
          BY <2>2 DEF KeysSound
        <4>. QED
          BY <2>1, <2>2, <3>1, <4>1, <4>2
      <3>2. CASE f # e
        <4>1. key'[f] = key[f]
          BY <3>2 DEF TypeOK
        <4>. QED
          BY <2>2, <2>6, <4>1 DEF KeysSound
      <3>. QED
        BY <3>1, <3>2
    <2>7. \A r \in restored' : r.key \in 1 .. drawn'
      BY <2>2 DEF KeysSound
    <2>. QED
      BY <2>3, <2>5, <2>6, <2>7 DEF KeysSound
  <1>4. RestoredAsAuthorised' /\ OneRestorePerKey'
    BY DEF RestoredAsAuthorised, OneRestorePerKey
  <1>5. BarredBelow'
    BY DEF BarredBelow
  <1>. QED
    BY <1>1, <1>2, <1>3, <1>4, <1>5

\* A key is lost or used up: at a restart, or with a restore that came to nothing.
LEMMA ForgetKey ==
  ASSUME RInv, NEW e \in Enclaves, key' = [key EXCEPT ![e] = 0],
         UNCHANGED <<body, drawn, pubs, backups, ceremonies, paid, barred, restored>>
  PROVE  RInv'
  <1> USE DEF RInv
  <1>1. TypeOK'
    BY DEF TypeOK
  <1>2. CeremoniesSound'
    BY DEF CeremoniesSound, CeremonySound
  <1>3. KeysSound'
    <2>1. \A f \in Enclaves : key'[f] # 0 => key'[f] = key[f]
      BY DEF TypeOK
    <2>. QED
      BY <2>1 DEF KeysSound
  <1>4. RestoredAsAuthorised' /\ OneRestorePerKey'
    BY DEF RestoredAsAuthorised, OneRestorePerKey
  <1>5. BarredBelow'
    BY DEF BarredBelow
  <1>. QED
    BY <1>1, <1>2, <1>3, <1>4, <1>5

\* What the authority signs is typed and dominates the destination.
LEMMA CurrentMarksType ==
  ASSUME TypeOK, NEW b \in Backup, NEW p \in Publication
  PROVE  CurrentMarks(b, p) \in Marks
  <1>1. p.of \in Enclaves /\ b.marks \in Marks
    BY DEF Publication, Backup
  <1>. QED
    BY <1>1, BodyFields, JoinAbove DEF CurrentMarks

\* A new ceremony is sound.
LEMMA PreparedSound ==
  ASSUME TypeOK, NEW rid \in Rids, NEW b \in backups, NEW p \in pubs,
         NEW class \in RestoreScopes
  PROVE  /\ Ceremony(rid, b, p, class) \in Prepared
         /\ CeremonySound(Ceremony(rid, b, p, class))
         /\ Ceremony(rid, b, p, class).rid = rid
         /\ Ceremony(rid, b, p, class).high.marks = CurrentMarks(b, p)
         /\ Ceremony(rid, b, p, class).envelope.manifest = b.entries
         /\ Ceremony(rid, b, p, class).envelope.key = p.key
  <1>1. b \in Backup /\ p \in Publication /\ class \in Classes
    BY ConstantsAssumption DEF TypeOK
  <1>2. PICK m \in Marks : m = CurrentMarks(b, p)
    BY <1>1, CurrentMarksType
  <1>3. /\ p.of \in Enclaves /\ p.key \in Nat /\ p.env \in Environments
        /\ b.entries \in SUBSET Keys
    BY <1>1 DEF Publication, Backup
  <1>4. PICK k \in Nat : k = body[p.of].marks.rows[<<"recovery", class>>] + 1
    BY <1>1, <1>3, BodyFields, RowsKnown
  <1>5. PICK i \in Enclaves \cup {"fleet"} : i = IF class = 0 THEN p.of ELSE "fleet"
    BY <1>3
  <1>6. PICK u \in SUBSET Nat : u = {n \in 1 .. MaxCounter : n <= m.rows[<<"admin", 1>>]}
    <2>1. {n \in 1 .. MaxCounter : n <= m.rows[<<"admin", 1>>]} \in SUBSET Nat
      BY ConstantsAssumption
    <2>. QED
      BY <2>1, Zenon
  <1>7. Ceremony(rid, b, p, class) =
           [rid |-> rid, by |-> "ours",
            envelope |-> [key |-> p.key, env |-> p.env, digest |-> b,
                          manifest |-> b.entries, payload |-> b],
            cap |-> [row |-> <<"recovery", class>>, identity |-> i, counter |-> k,
                     refs |-> b.entries, digest |-> b],
            high |-> [env |-> p.env, marks |-> m],
            used |-> u]
    BY <1>2, <1>4, <1>5, <1>6 DEF Ceremony
  <1>8. Ceremony(rid, b, p, class) \in Prepared
    BY <1>1, <1>2, <1>3, <1>4, <1>5, <1>6, <1>7, RowsKnown DEF Prepared
  <1>9. CeremonySound(Ceremony(rid, b, p, class))
    BY <1>5, <1>6, <1>7 DEF CeremonySound
  <1>. QED
    BY <1>2, <1>7, <1>8, <1>9

LEMMA PrepareKeeps ==
  ASSUME RInv, NEW rid \in Rids, NEW b \in backups, NEW p \in pubs,
         NEW class \in RestoreScopes, Prepare(rid, b, p, class)
  PROVE  RInv'
  <1> USE DEF RInv, Prepare
  <1>1. PICK new : new = Ceremony(rid, b, p, class)
    OBVIOUS
  <1>2. ceremonies' = ceremonies \cup {new}
    BY <1>1
  <1>3. new \in Prepared /\ CeremonySound(new) /\ new.rid = rid
    BY <1>1, PreparedSound
  <1>4. TypeOK'
    BY <1>2, <1>3 DEF TypeOK
  <1>5. CeremoniesSound'
    <2>1. \A c \in ceremonies' : CeremonySound(c)
      BY <1>2, <1>3 DEF CeremoniesSound
    <2>2. \A c \in ceremonies' : CeremonySound(c)'
      BY <2>1 DEF CeremonySound
    <2>. QED
      BY <1>2, <1>3, <2>2 DEF CeremoniesSound
  <1>6. KeysSound' /\ RestoredAsAuthorised' /\ OneRestorePerKey' /\ BarredBelow'
    BY DEF KeysSound, RestoredAsAuthorised, OneRestorePerKey, BarredBelow
  <1>. QED
    BY <1>4, <1>5, <1>6

LEMMA CommitKeeps ==
  ASSUME RInv, NEW e \in Enclaves,
         NEW envelope \in Envelopes(e), NEW original \in backups,
         NEW signed \in Signatures(e, envelope), NEW attested \in Signatures(e, envelope),
         RestoreAccepted(e, envelope, original, signed.cap.refs, signed, attested),
         RestoreCommits(e, envelope, signed, attested)
  PROVE  RInv'
  <1> USE DEF RInv
  <1>1. /\ key' = [key EXCEPT ![e] = 0]
        /\ barred' = [barred EXCEPT ![e] = @ \cup attested.used]
        /\ UNCHANGED <<drawn, pubs, backups, ceremonies, paid>>
    BY DEF RestoreCommits, RetireKey
  <1>2. PICK new : /\ new = [at |-> e, key |-> key[e], rid |-> signed.rid,
                             by |-> signed.by, payload |-> envelope.payload,
                             cap |-> signed.cap]
                   /\ restored' = restored \cup {new}
    BY DEF RestoreCommits
  <1>3. /\ key[e] # 0 /\ attested.high.marks \in Marks
        /\ envelope.payload.entries = signed.cap.refs
        /\ envelope.payload.genuine => envelope.payload = signed.cap.digest
    BY RestoreFacts
  <1>4. /\ body' \in [Enclaves -> Body]
        /\ \A f \in Enclaves \ {e} : body'[f] = body[f]
        /\ body'[e].env = body[e].env
        /\ AtMost(body[e].marks, body'[e].marks)
        /\ AtMost(attested.high.marks, body'[e].marks)
    BY CommitBody
  <1>5. /\ attested.used \subseteq Nat
        /\ \A n \in attested.used : n <= attested.high.marks.rows[<<"admin", 1>>]
    BY SignatureFacts
  <1>6. TypeOK'
    BY <1>1, <1>4, <1>5 DEF TypeOK
  <1>7. CeremoniesSound'
    BY <1>1 DEF CeremoniesSound, CeremonySound
  <1>8. /\ new.key = key[e] /\ new.payload.entries = new.cap.refs
        /\ new.payload.genuine => new.payload = new.cap.digest
    BY <1>2, <1>3
  <1>9. \A r \in restored : r.key # key[e]
    BY <1>3 DEF KeysSound
  <1>10. OneRestorePerKey'
    BY <1>2, <1>8, <1>9 DEF OneRestorePerKey
  <1>11. KeysSound'
    <2>1. key[e] \in 1 .. drawn
      BY <1>3 DEF KeysSound
    <2>2. \A r \in restored' : r.key \in 1 .. drawn
      BY <1>2, <1>8, <2>1 DEF KeysSound
    <2>3. ASSUME NEW f \in Enclaves, key'[f] # 0
          PROVE  /\ \E p \in pubs : p.of = f /\ p.key = key'[f]
                 /\ \A r \in restored' : r.key # key'[f]
      <3>1. f # e /\ key'[f] = key[f]
        BY <1>1, <2>3 DEF TypeOK
      <3>2. /\ \E p \in pubs : p.of = f /\ p.key = key[f]
            /\ \A r \in restored : r.key # key[f]
        BY <2>3, <3>1 DEF KeysSound
      <3>3. \E p \in pubs : p.of = e /\ p.key = key[e]
        BY <1>3 DEF KeysSound
      <3>4. key[e] # key[f]
        BY <3>1, <3>2, <3>3 DEF KeysSound
      <3>. QED
        BY <1>2, <1>8, <3>1, <3>2, <3>4
    <2>. QED
      BY <1>1, <2>2, <2>3 DEF KeysSound
  <1>12. RestoredAsAuthorised'
    BY <1>2, <1>4, <1>8 DEF RestoredAsAuthorised
  <1>13. BarredBelow'
    <2> SUFFICES ASSUME NEW f \in Enclaves, NEW n \in barred'[f]
                 PROVE  n <= body'[f].marks.rows[<<"admin", 1>>]
      BY DEF BarredBelow
    <2>1. CASE f # e
      BY <1>1, <1>4, <2>1 DEF BarredBelow, TypeOK
    <2>2. CASE f = e
      <3>1. n \in barred[e] \/ n \in attested.used
        BY <1>1, <2>2 DEF TypeOK
      <3>2. /\ n \in Nat /\ body[e].marks.rows[<<"admin", 1>>] \in Nat
            /\ attested.high.marks.rows[<<"admin", 1>>] \in Nat
            /\ body'[e].marks.rows[<<"admin", 1>>] \in Nat
        BY <1>3, <1>4, <1>5, <3>1, BodyFields, RowsKnown DEF TypeOK, Body, Marks
      <3>3. /\ body[e].marks.rows[<<"admin", 1>>] <= body'[e].marks.rows[<<"admin", 1>>]
            /\ attested.high.marks.rows[<<"admin", 1>>] <= body'[e].marks.rows[<<"admin", 1>>]
        BY <1>4, RowsKnown DEF AtMost
      <3>4. CASE n \in barred[e]
        <4>1. n <= body[e].marks.rows[<<"admin", 1>>]
          BY <3>4 DEF BarredBelow
        <4>. QED
          BY <2>2, <3>2, <3>3, <4>1
      <3>5. CASE n \in attested.used
        <4>1. n <= attested.high.marks.rows[<<"admin", 1>>]
          BY <1>5, <3>5
        <4>. QED
          BY <2>2, <3>2, <3>3, <4>1
      <3>. QED
        BY <3>1, <3>4, <3>5
    <2>. QED
      BY <2>1, <2>2
  <1>. QED
    BY <1>6, <1>7, <1>10, <1>11, <1>12, <1>13

LEMMA StepRInv == RInv /\ [Next]_vars => RInv'
  <1> SUFFICES ASSUME RInv, [Next]_vars PROVE RInv'
    OBVIOUS
  <1>1. TypeOK /\ paid \in Nat /\ backups \subseteq Backup
    BY DEF RInv, TypeOK
  <1>2. ASSUME NEW e \in Enclaves, FleetOperation(e) PROVE RInv'
    <2>1. OnlyRaises
      BY <1>1, <1>2, FleetBody
    <2>2. UNCHANGED <<key, drawn, pubs, ceremonies, barred, restored, backups, paid>>
      BY <1>2 DEF FleetOperation
    <2>. QED
      BY <1>1, <2>1, <2>2, OwnOperation
  <1>3. ASSUME NEW e \in Enclaves, Dispense(e) PROVE RInv'
    <2>1. OnlyRaises
      BY <1>1, <1>3, DispenseBody
    <2>2. UNCHANGED <<key, drawn, pubs, ceremonies, barred, restored, backups>> /\ paid' \in Nat
      BY <1>1, <1>3 DEF Dispense
    <2>. QED
      BY <1>1, <2>1, <2>2, OwnOperation
  <1>4. ASSUME NEW e \in Enclaves, NEW refs \in SUBSET Keys, ExportBackup(e, refs) PROVE RInv'
    <2>1. OnlyRaises /\ backups' \subseteq Backup
      BY <1>1, <1>4, ExportBody
    <2>2. UNCHANGED <<key, drawn, pubs, ceremonies, barred, restored, paid>>
      BY <1>4 DEF ExportBackup
    <2>. QED
      BY <1>1, <2>1, <2>2, OwnOperation
  <1>5. ASSUME NEW e \in Enclaves, Restart(e) PROVE RInv'
    BY <1>5, ForgetKey DEF Restart
  <1>6. ASSUME NEW e \in Enclaves, Decommission(e) PROVE RInv'
    <2>1. UNCHANGED <<body, key, drawn, pubs, backups, ceremonies, paid, barred, restored>>
      BY <1>6 DEF Decommission
    <2>. QED
      BY <2>1 DEF RInv, TypeOK, CeremoniesSound, CeremonySound, KeysSound,
                  RestoredAsAuthorised, OneRestorePerKey, BarredBelow
  <1>7. ASSUME NEW e \in Enclaves, NEW envelope \in Envelopes(e), NEW original \in backups,
               NEW signed \in Signatures(e, envelope), NEW attested \in Signatures(e, envelope),
               RestoreBackup(e, envelope, original, signed.cap.refs, signed, attested)
        PROVE  RInv'
    <2>1. RestoreFails(e) => RInv'
      BY ForgetKey DEF RestoreFails, RetireKey
    <2>. QED
      BY <1>7, <2>1, CommitKeeps DEF RestoreBackup
  <1>8. CASE UNCHANGED vars
    <2>1. UNCHANGED <<body, key, drawn, pubs, backups, ceremonies, paid, barred, restored>>
      BY <1>8 DEF vars
    <2>. QED
      BY <2>1 DEF RInv, TypeOK, CeremoniesSound, CeremonySound, KeysSound,
                  RestoredAsAuthorised, OneRestorePerKey, BarredBelow
  <1>. QED
    BY <1>2, <1>3, <1>4, <1>5, <1>6, <1>7, <1>8, PublishKeeps, PrepareKeeps DEF Next

LEMMA RInvHolds == Spec => []RInv
  BY InitRInv, StepRInv, PTL DEF Spec

-----------------------------------------------------------------------------
(* Results *)

\* Whatever pieces of several ceremonies the host combines, and whatever it seals to
\* the public destination key itself, a restore handle_restore_backup lets through
\* under our recovery authority installs the key_refs its capability names, and the
\* deployment's secrets only as the very backup that capability was signed for; no
\* enclave ever changes environment.
THEOREM AuthorisedHolds == Spec => []RestoredAsAuthorised
  BY RInvHolds, PTL DEF RInv

\* A published restore key carries at most one restore, on one enclave, over
\* restarts, failed commits and repeated requests.
THEOREM OneRestoreHolds == Spec => []OneRestorePerKey
  BY RInvHolds, PTL DEF RInv

\* A capability a restore vouched was used is never accepted again: the rows of an
\* enclave are at or above everything barred, and a counter must be above its row.
THEOREM NoReplayHolds == Spec => NoReplayAfterRestore
  <1>1. RInv /\ [Next]_vars
           => [\A a \in accepted' \ accepted : a[2] \notin barred[a[1]]]_vars
    <2> SUFFICES ASSUME RInv, Next, NEW a \in accepted' \ accepted
                 PROVE  a[2] \notin barred[a[1]]
      OBVIOUS
    <2>1. PICK e \in Enclaves : FleetOperation(e)
      <3>1. accepted' # accepted
        OBVIOUS
      <3>2. \A e \in Enclaves : Dispense(e) \/ GetRestorePubkey(e) \/ Restart(e) \/ Decommission(e)
                                => accepted' = accepted
        BY DEF Dispense, GetRestorePubkey, Restart, Decommission
      <3>3. \A e \in Enclaves, refs \in SUBSET Keys : ExportBackup(e, refs) => accepted' = accepted
        BY DEF ExportBackup
      <3>4. \A e, envelope, original, refs, signed, attested :
               RestoreBackup(e, envelope, original, refs, signed, attested)
               => accepted' = accepted
        BY DEF RestoreBackup, RestoreCommits, RestoreFails
      <3>5. \A rid, b, p, class : Prepare(rid, b, p, class) => accepted' = accepted
        BY DEF Prepare
      <3>. QED
        BY <3>1, <3>2, <3>3, <3>4, <3>5 DEF Next
    <2>2. a = <<e, body[e].marks.rows[<<"admin", 1>>] + 1>>
      BY <2>1 DEF FleetOperation
    <2>3. body[e].marks.rows[<<"admin", 1>>] \in Nat
      BY BodyFields, RowsKnown DEF RInv
    <2>4. \A n \in barred[e] : n \in Nat /\ n <= body[e].marks.rows[<<"admin", 1>>]
      BY DEF RInv, BarredBelow, TypeOK
    <2>. QED
      BY <2>2, <2>3, <2>4
  <1>. QED
    BY <1>1, RInvHolds, PTL DEF Spec, NoReplayAfterRestore

-----------------------------------------------------------------------------
(* The budget across failovers.  The deployment's side of it: one enclave was
   given the treasury key, and restores are authorised enclave by enclave. *)

SingleTreasury ==
    /\ RestoreScopes = {0}
    /\ \A e, f \in Enclaves : Treasury \in KeysOf[e] /\ Treasury \in KeysOf[f] => e = f

OneTreasurer ==
    \A e, f \in Enclaves : Live(e) /\ Live(f) /\ MayHold(e) /\ MayHold(f) => e = f

\* Everything paid is in the enclave's spend; or it has no treasury key yet, and
\* every restore that could bring it one carries a spend that is high enough.
KnowsPaid(e) ==
    \/ paid <= body[e].marks.spend
    \/ /\ ~ HoldsTreasury(e)
       /\ \A c \in TreasuryCeremonies(e) : paid <= c.high.marks.spend

SomeoneKnowsPaid == paid = 0 \/ \E f \in Enclaves : paid <= body[f].marks.spend

\* A ceremony that brings the treasury key meets an enclave under our authorities:
\* the host cannot sign for it.
AuthorityKept ==
    \A c \in ceremonies, e \in Enclaves :
        Treasury \in c.envelope.manifest /\ key[e] # 0 /\ c.envelope.key = key[e]
            => body[e].auth = "ours"

FInv ==
    /\ OneTreasurer
    /\ AuthorityKept
    /\ \A e \in Enclaves : Live(e) /\ MayHold(e) => KnowsPaid(e)
    /\ SomeoneKnowsPaid
    /\ \A c \in ceremonies : c.cap.row[2] = 0
    /\ FailoverWithinBudget

LEMMA InitFInv == ASSUME SingleTreasury PROVE Init => FInv
  <1> SUFFICES ASSUME Init PROVE FInv
    OBVIOUS
  <1>1. \A e \in Enclaves : MayHold(e) => Treasury \in KeysOf[e]
    BY DEF Init, MayHold, TreasuryCeremonies, HoldsTreasury
  <1>2. OneTreasurer
    BY <1>1 DEF OneTreasurer, SingleTreasury
  <1>3. \A e \in Enclaves : KnowsPaid(e)
    BY DEF Init, KnowsPaid, Zero
  <1>. QED
    BY <1>2, <1>3, ConstantsAssumption
       DEF Init, FInv, AuthorityKept, SomeoneKnowsPaid, FailoverWithinBudget

\* Steps that pay nothing, prepare nothing and bring no enclave a key.
LEMMA NothingPaid ==
  ASSUME RInv, RInv', FInv, paid' = paid, ceremonies' = ceremonies,
         retired \subseteq retired', pubs \subseteq pubs',
         \A p \in pubs' \ pubs : p.key > drawn,
         \A f \in Enclaves : /\ HoldsTreasury(f)' => HoldsTreasury(f)
                             /\ body[f].marks.spend <= body'[f].marks.spend
                             /\ \/ key'[f] = 0 \/ key'[f] > drawn
                                \/ key'[f] = key[f] /\ body'[f].auth = body[f].auth
  PROVE  FInv'
  <1>1. \A f \in Enclaves : /\ body[f].marks.spend \in Nat /\ body'[f].marks.spend \in Nat
    BY DEF RInv, TypeOK, Body, Marks
  <1>2. paid \in Nat /\ drawn \in Nat
    BY DEF RInv, TypeOK
  <1>3. ASSUME NEW f \in Enclaves PROVE TreasuryCeremonies(f)' = TreasuryCeremonies(f)
    <2>1. ASSUME NEW c \in ceremonies, NEW p \in pubs', p.key = c.envelope.key PROVE p \in pubs
      <3>1. PICK q \in pubs : q.key = c.envelope.key
        BY DEF RInv, CeremoniesSound, CeremonySound
      <3>2. q.key \in 1 .. drawn
        BY DEF RInv, KeysSound
      <3>3. ~ (q.key > drawn)
        BY <1>2, <3>2
      <3>. QED
        BY <2>1, <3>1, <3>3
    <2>. QED
      BY <2>1 DEF TreasuryCeremonies
  <1>4. \A f \in Enclaves : MayHold(f)' => MayHold(f)
    BY <1>3 DEF MayHold
  <1>5. \A f \in Enclaves : Live(f)' => Live(f)
    BY DEF Live
  <1>6. OneTreasurer'
    BY <1>4, <1>5 DEF FInv, OneTreasurer
  <1>7. ASSUME NEW e \in Enclaves, Live(e)', MayHold(e)' PROVE KnowsPaid(e)'
    <2>1. KnowsPaid(e)
      BY <1>4, <1>5, <1>7 DEF FInv
    <2>2. CASE paid <= body[e].marks.spend
      <3>1. paid' <= body'[e].marks.spend
        BY <1>1, <1>2, <2>2
      <3>. QED
        BY <3>1 DEF KnowsPaid
    <2>3. CASE /\ ~ HoldsTreasury(e)
               /\ \A c \in TreasuryCeremonies(e) : paid <= c.high.marks.spend
      <3>1. /\ ~ HoldsTreasury(e)'
            /\ \A c \in TreasuryCeremonies(e)' : paid' <= c.high.marks.spend
        BY <1>3, <2>3
      <3>. QED
        BY <3>1 DEF KnowsPaid
    <2>. QED
      BY <2>1, <2>2, <2>3 DEF KnowsPaid
  <1>8. SomeoneKnowsPaid'
    <2>1. CASE paid = 0
      BY <2>1 DEF SomeoneKnowsPaid
    <2>2. CASE \E f \in Enclaves : paid <= body[f].marks.spend
      <3>1. PICK f \in Enclaves : paid <= body[f].marks.spend
        BY <2>2
      <3>2. paid' <= body'[f].marks.spend
        BY <1>1, <1>2, <3>1
      <3>. QED
        BY <3>2 DEF SomeoneKnowsPaid
    <2>. QED
      BY <2>1, <2>2 DEF FInv, SomeoneKnowsPaid
  <1>9. AuthorityKept'
    <2> SUFFICES ASSUME NEW c \in ceremonies, NEW e \in Enclaves,
                        Treasury \in c.envelope.manifest,
                        key'[e] # 0, c.envelope.key = key'[e]
                 PROVE  body'[e].auth = "ours"
      BY DEF AuthorityKept
    <2>1. PICK q \in pubs : q.key = c.envelope.key
      BY DEF RInv, CeremoniesSound, CeremonySound
    <2>2. q.key \in 1 .. drawn
      BY DEF RInv, KeysSound
    <2>3. ~ (key'[e] > drawn)
      BY <1>2, <2>1, <2>2
    <2>4. key'[e] = key[e] /\ body'[e].auth = body[e].auth
      BY <2>3
    <2>. QED
      BY <2>4 DEF FInv, AuthorityKept
  <1>. QED
    BY <1>6, <1>7, <1>8, <1>9 DEF FInv, FailoverWithinBudget

\* The one live treasurer pays: it knew of everything paid before.
LEMMA DispensePays ==
  ASSUME RInv, RInv', FInv, NEW e \in Enclaves, Dispense(e)
  PROVE  FInv'
  <1>1. /\ Live(e) /\ body[e].marks.spend < Budget
        /\ paid' = IF HoldsTreasury(e) THEN paid + 1 ELSE paid
        /\ UNCHANGED <<key, drawn, pubs, ceremonies, retired>>
    BY DEF Dispense
  <1>2. OnlyRaises /\ body'[e].marks.spend = body[e].marks.spend + 1
    BY DispenseBody DEF RInv
  <1>3. paid \in Nat /\ body[e].marks.spend \in Nat /\ Budget \in Nat
    BY BodyFields, ConstantsAssumption DEF RInv, TypeOK
  <1>4. \A f \in Enclaves : HoldsTreasury(f)' <=> HoldsTreasury(f)
    BY <1>2 DEF HoldsTreasury, OnlyRaises
  <1>5. CASE ~ HoldsTreasury(e)
    BY <1>1, <1>2, <1>4, <1>5, NothingPaid DEF OnlyRaises, AtMost
  <1>6. CASE HoldsTreasury(e)
    <2>1. MayHold(e) /\ KnowsPaid(e)
      BY <1>1, <1>6 DEF MayHold, FInv
    <2>2. paid <= body[e].marks.spend
      BY <1>6, <2>1 DEF KnowsPaid
    <2>3. paid' <= body'[e].marks.spend /\ paid' <= Budget
      BY <1>1, <1>2, <1>3, <1>6, <2>2
    <2>4. \A f \in Enclaves : (MayHold(f)' <=> MayHold(f)) /\ (Live(f)' <=> Live(f))
      BY <1>1, <1>4 DEF MayHold, TreasuryCeremonies, Live
    <2>5. OneTreasurer'
      BY <2>4 DEF FInv, OneTreasurer
    <2>6. ASSUME NEW f \in Enclaves, Live(f)', MayHold(f)' PROVE KnowsPaid(f)'
      <3>1. f = e
        BY <1>1, <2>1, <2>4, <2>6 DEF FInv, OneTreasurer
      <3>. QED
        BY <2>3, <3>1 DEF KnowsPaid
    <2>7. SomeoneKnowsPaid' /\ FailoverWithinBudget'
      BY <2>3 DEF SomeoneKnowsPaid, FailoverWithinBudget
    <2>8. AuthorityKept'
      BY <1>1, <1>2 DEF FInv, AuthorityKept, OnlyRaises
    <2>. QED
      BY <1>1, <2>5, <2>6, <2>7, <2>8 DEF FInv
  <1>. QED
    BY <1>5, <1>6

\* The authority signs for a failover: everyone else who has the key or a ceremony
\* for it is retired, and its marks cover all spend, so everything paid.
LEMMA PrepareKnows ==
  ASSUME RInv, RInv', FInv, SingleTreasury,
         NEW rid \in Rids, NEW b \in backups, NEW p \in pubs,
         NEW class \in RestoreScopes, Prepare(rid, b, p, class)
  PROVE  FInv'
  <1>1. PICK new : new = Ceremony(rid, b, p, class)
    OBVIOUS
  <1>2. /\ ceremonies' = ceremonies \cup {new}
        /\ UNCHANGED <<body, key, pubs, retired, paid>>
        /\ Treasury \in b.entries => SingleInstance(b, p)
    BY <1>1 DEF Prepare
  <1>3. /\ new.high.marks = CurrentMarks(b, p) /\ new.envelope.manifest = b.entries
        /\ new.envelope.key = p.key
    BY <1>1, PreparedSound DEF RInv
  <1>4. new.cap.row[2] = 0
    BY <1>1 DEF Ceremony, SingleTreasury
  <1>5. p.of \in Enclaves
    BY DEF RInv, TypeOK, Publication
  <1>6. \A f \in Enclaves : Live(f)' <=> Live(f)
    BY <1>2 DEF Live
  <1>7. ASSUME NEW f \in Enclaves, f # p.of \/ Treasury \notin b.entries
        PROVE  TreasuryCeremonies(f)' = TreasuryCeremonies(f)
    <2>1. ASSUME NEW q \in pubs, q.of = f, q.key = new.envelope.key PROVE Treasury \notin b.entries
      BY <1>3, <1>7, <2>1 DEF RInv, KeysSound
    <2>. QED
      BY <1>2, <1>3, <2>1 DEF TreasuryCeremonies
  <1>8. \A f \in Enclaves : TreasuryCeremonies(f)' \subseteq TreasuryCeremonies(f) \cup {new}
    BY <1>2 DEF TreasuryCeremonies
  <1>9. paid \in Nat /\ \A f \in Enclaves : body[f].marks.spend \in Nat
    BY BodyFields DEF RInv, TypeOK
  <1>10. ASSUME Treasury \in b.entries PROVE paid <= new.high.marks.spend
    <2>1. \A f \in Enclaves : body[f].marks.spend <= new.high.marks.spend
      BY <1>2, <1>3, <1>10 DEF SingleInstance
    <2>2. new.high.marks.spend \in Nat
      BY <1>2 DEF RInv, TypeOK, Prepared, Marks
    <2>3. CASE paid = 0
      BY <2>2, <2>3
    <2>4. CASE \E f \in Enclaves : paid <= body[f].marks.spend
      <3>1. PICK f \in Enclaves : paid <= body[f].marks.spend
        BY <2>4
      <3>. QED
        BY <1>9, <2>1, <2>2, <3>1
    <2>. QED
      BY <2>3, <2>4 DEF FInv, SomeoneKnowsPaid
  <1>11. OneTreasurer'
    <2>1. CASE Treasury \notin b.entries
      <3>1. \A f \in Enclaves : MayHold(f)' => MayHold(f)
        BY <1>2, <1>7, <2>1 DEF MayHold, HoldsTreasury
      <3>. QED
        BY <1>6, <3>1 DEF FInv, OneTreasurer
    <2>2. CASE Treasury \in b.entries
      <3>1. \A f \in Enclaves : f # p.of /\ MayHold(f) => f \in retired
        BY <1>2, <2>2 DEF SingleInstance
      <3>2. \A f \in Enclaves : f # p.of /\ MayHold(f)' => MayHold(f)
        BY <1>2, <1>7 DEF MayHold, HoldsTreasury
      <3>3. \A f \in Enclaves : Live(f)' /\ MayHold(f)' => f = p.of
        BY <1>6, <3>1, <3>2 DEF Live
      <3>. QED
        BY <3>3 DEF OneTreasurer
    <2>. QED
      BY <2>1, <2>2
  <1>12. ASSUME NEW f \in Enclaves, Live(f)', MayHold(f)' PROVE KnowsPaid(f)'
    <2>1. CASE f # p.of \/ Treasury \notin b.entries
      <3>1. MayHold(f) /\ Live(f)
        BY <1>2, <1>6, <1>7, <1>12, <2>1 DEF MayHold, HoldsTreasury
      <3>2. KnowsPaid(f)
        BY <3>1 DEF FInv
      <3>. QED
        BY <1>2, <1>7, <2>1, <3>2 DEF KnowsPaid, HoldsTreasury
    <2>2. CASE f = p.of /\ Treasury \in b.entries
      <3>1. paid <= new.high.marks.spend
        BY <1>10, <2>2
      <3>2. CASE MayHold(f)
        <4>1. KnowsPaid(f)
          BY <1>6, <1>12, <3>2 DEF FInv
        <4>. QED
          BY <1>2, <1>8, <3>1, <4>1 DEF KnowsPaid, HoldsTreasury
      <3>3. CASE ~ MayHold(f)
        <4>1. ~ HoldsTreasury(f) /\ TreasuryCeremonies(f) = {}
          BY <3>3 DEF MayHold
        <4>. QED
          BY <1>2, <1>8, <3>1, <4>1 DEF KnowsPaid, HoldsTreasury
      <3>. QED
        BY <3>2, <3>3
    <2>. QED
      BY <2>1, <2>2
  <1>13. SomeoneKnowsPaid' /\ FailoverWithinBudget'
    BY <1>2 DEF FInv, SomeoneKnowsPaid, FailoverWithinBudget
  <1>14. \A c \in ceremonies' : c.cap.row[2] = 0
    BY <1>2, <1>4 DEF FInv
  <1>15. AuthorityKept'
    <2> SUFFICES ASSUME NEW c \in ceremonies', NEW e \in Enclaves,
                        Treasury \in c.envelope.manifest,
                        key[e] # 0, c.envelope.key = key[e]
                 PROVE  body[e].auth = "ours"
      BY <1>2 DEF AuthorityKept
    <2>1. CASE c \in ceremonies
      BY <2>1 DEF FInv, AuthorityKept
    <2>2. CASE c = new
      <3>1. body[p.of].auth = "ours"
        BY <1>2, <1>3, <2>2 DEF SingleInstance
      <3>2. p.of = e
        BY <1>3, <2>2 DEF RInv, KeysSound
      <3>. QED
        BY <3>1, <3>2
    <2>. QED
      BY <1>2, <2>1, <2>2
  <1>. QED
    BY <1>11, <1>12, <1>13, <1>14, <1>15 DEF FInv

\* A restore brings the treasury key only with a spend that covers everything paid.
LEMMA CommitKnows ==
  ASSUME RInv, RInv', FInv, NEW e \in Enclaves,
         NEW envelope \in Envelopes(e), NEW original \in backups,
         NEW signed \in Signatures(e, envelope), NEW attested \in Signatures(e, envelope),
         RestoreAccepted(e, envelope, original, signed.cap.refs, signed, attested),
         RestoreCommits(e, envelope, signed, attested)
  PROVE  FInv'
  <1>1. /\ UNCHANGED <<drawn, pubs, ceremonies, retired, paid>>
        /\ \A f \in Enclaves : key'[f] = IF f = e THEN 0 ELSE key[f]
    BY DEF RestoreCommits, RetireKey, RInv, TypeOK
  <1>2. /\ \A f \in Enclaves \ {e} : body'[f] = body[f]
        /\ body'[e].entries = envelope.payload.entries
        /\ body'[e].genuine = envelope.payload.genuine
        /\ body'[e].marks.spend = attested.high.marks.spend
        /\ AtMost(body[e].marks, body'[e].marks)
    BY CommitBody DEF RInv
  <1>3. /\ Live(e) /\ envelope.key = key[e] /\ key[e] # 0
        /\ envelope.payload.genuine => envelope.payload = signed.cap.digest
        /\ signed.by = body[e].auth
        /\ signed.by = "ours" => signed \in ceremonies /\ attested = signed
        /\ signed.cap.row[2] = 0 => signed.cap.identity = e
    BY RestoreFacts DEF RInv
  <1>4. /\ paid \in Nat
        /\ \A f \in Enclaves : body[f].marks.spend \in Nat /\ body'[f].marks.spend \in Nat
    BY DEF RInv, TypeOK, Body, Marks
  <1>5. \A f \in Enclaves : body[f].marks.spend <= body'[f].marks.spend
    BY <1>2, <1>4 DEF AtMost
  <1>6. CASE ~ HoldsTreasury(e)'
    <2>1. \A f \in Enclaves : HoldsTreasury(f)' => HoldsTreasury(f)
      BY <1>2, <1>6 DEF HoldsTreasury
    <2>2. \A p \in pubs' \ pubs : p.key > drawn
      BY <1>1
    <2>3. \A f \in Enclaves : \/ key'[f] = 0
                              \/ key'[f] = key[f] /\ body'[f].auth = body[f].auth
      BY <1>1, <1>2
    <2>. QED
      BY <1>1, <1>5, <2>1, <2>2, <2>3, NothingPaid
  <1>7. CASE HoldsTreasury(e)'
    <2>0. Treasury \in envelope.payload.entries /\ envelope.payload.genuine
      BY <1>2, <1>7 DEF HoldsTreasury
    <2>1. PICK ce \in ceremonies : envelope = ce.envelope
      BY <2>0, EnvelopeFacts DEF RInv
    <2>2. CeremonySound(ce)
      BY DEF RInv, CeremoniesSound
    <2>3. Treasury \in ce.envelope.manifest
      BY <2>0, <2>1, <2>2 DEF CeremonySound
    <2>4. signed \in ceremonies /\ attested = signed
      BY <1>3, <2>1, <2>3 DEF FInv, AuthorityKept
    <2>5. CeremonySound(signed)
      BY <2>4 DEF RInv, CeremoniesSound
    <2>6. signed \in TreasuryCeremonies(e)
      <3>1. Treasury \in signed.envelope.manifest
        BY <1>3, <2>0, <2>5 DEF CeremonySound
      <3>2. \E p \in pubs : p.of = e /\ p.key = signed.envelope.key
        BY <1>3, <2>4, <2>5 DEF FInv, CeremonySound
      <3>. QED
        BY <2>4, <3>1, <3>2 DEF TreasuryCeremonies
    <2>7. MayHold(e) /\ KnowsPaid(e)
      BY <1>3, <2>6 DEF MayHold, FInv
    <2>8. paid <= body'[e].marks.spend
      <3>1. CASE paid <= body[e].marks.spend
        BY <1>4, <1>5, <3>1
      <3>2. CASE \A c \in TreasuryCeremonies(e) : paid <= c.high.marks.spend
        BY <1>2, <2>4, <2>6, <3>2
      <3>. QED
        BY <2>7, <3>1, <3>2 DEF KnowsPaid
    <2>9. \A f \in Enclaves : (Live(f)' <=> Live(f)) /\ TreasuryCeremonies(f)' = TreasuryCeremonies(f)
      BY <1>1 DEF Live, TreasuryCeremonies
    <2>10. \A f \in Enclaves : MayHold(f)' => MayHold(f)
      BY <1>2, <2>7, <2>9 DEF MayHold, HoldsTreasury
    <2>11. OneTreasurer'
      BY <2>9, <2>10 DEF FInv, OneTreasurer
    <2>12. ASSUME NEW f \in Enclaves, Live(f)', MayHold(f)' PROVE KnowsPaid(f)'
      <3>1. f = e
        BY <1>3, <2>7, <2>9, <2>10, <2>12 DEF FInv, OneTreasurer
      <3>. QED
        BY <1>1, <2>8, <3>1 DEF KnowsPaid
    <2>13. SomeoneKnowsPaid' /\ FailoverWithinBudget'
      BY <1>1, <2>8 DEF FInv, SomeoneKnowsPaid, FailoverWithinBudget
    <2>14. AuthorityKept'
      BY <1>1, <1>2 DEF FInv, AuthorityKept
    <2>. QED
      BY <1>1, <2>11, <2>12, <2>13, <2>14 DEF FInv
  <1>. QED
    BY <1>6, <1>7

LEMMA StepFInv ==
  ASSUME SingleTreasury, RInv, RInv', FInv, [Next]_vars
  PROVE  FInv'
  <1>1. TypeOK
    BY DEF RInv
  <1>2. ASSUME OnlyRaises, UNCHANGED <<key, pubs, ceremonies, retired, paid>> PROVE FInv'
    BY <1>2, NothingPaid DEF OnlyRaises, AtMost, HoldsTreasury
  <1>3. ASSUME UNCHANGED <<body, ceremonies, paid>>, retired \subseteq retired',
               pubs \subseteq pubs', \A p \in pubs' \ pubs : p.key > drawn,
               \A f \in Enclaves : key'[f] = 0 \/ key'[f] > drawn \/ key'[f] = key[f]
        PROVE  FInv'
    <2>1. \A f \in Enclaves : /\ body[f].marks.spend <= body'[f].marks.spend
                              /\ HoldsTreasury(f)' => HoldsTreasury(f)
                              /\ body'[f].auth = body[f].auth
      BY <1>1, <1>3, BodyFields DEF HoldsTreasury
    <2>. QED
      BY <1>3, <2>1, NothingPaid
  <1>4. ASSUME NEW e \in Enclaves, FleetOperation(e) PROVE FInv'
    BY <1>1, <1>2, <1>4, FleetBody DEF FleetOperation
  <1>5. ASSUME NEW e \in Enclaves, NEW refs \in SUBSET Keys, ExportBackup(e, refs) PROVE FInv'
    BY <1>1, <1>2, <1>5, ExportBody DEF ExportBackup
  <1>6. ASSUME NEW e \in Enclaves, GetRestorePubkey(e) PROVE FInv'
    <2>1. PICK new : new = PublishedKey(e, drawn + 1) /\ pubs' = pubs \cup {new}
      BY <1>6 DEF GetRestorePubkey
    <2>2. new.key > drawn
      BY <1>1, <2>1 DEF PublishedKey, TypeOK
    <2>3. \A f \in Enclaves : key'[f] > drawn \/ key'[f] = key[f]
      BY <1>1, <1>6 DEF GetRestorePubkey, TypeOK
    <2>. QED
      BY <1>3, <1>6, <2>1, <2>2, <2>3 DEF GetRestorePubkey
  <1>7. ASSUME NEW e \in Enclaves, Restart(e) \/ Decommission(e) PROVE FInv'
    <2>1. \A f \in Enclaves : key'[f] = 0 \/ key'[f] = key[f]
      BY <1>1, <1>7 DEF Restart, Decommission, TypeOK
    <2>. QED
      BY <1>3, <1>7, <2>1 DEF Restart, Decommission
  <1>8. ASSUME NEW e \in Enclaves, NEW envelope \in Envelopes(e), NEW original \in backups,
               NEW signed \in Signatures(e, envelope), NEW attested \in Signatures(e, envelope),
               RestoreBackup(e, envelope, original, signed.cap.refs, signed, attested)
        PROVE  FInv'
    <2>1. ASSUME RestoreFails(e) PROVE FInv'
      <3>1. \A f \in Enclaves : key'[f] = 0 \/ key'[f] = key[f]
        BY <1>1, <2>1 DEF RestoreFails, RetireKey, TypeOK
      <3>. QED
        BY <1>3, <2>1, <3>1 DEF RestoreFails
    <2>. QED
      BY <1>8, <2>1, CommitKnows DEF RestoreBackup
  <1>9. CASE UNCHANGED vars
    BY <1>3, <1>9 DEF vars
  <1>. QED
    BY <1>4, <1>5, <1>6, <1>7, <1>8, <1>9, DispensePays, PrepareKnows DEF Next

\* Where one enclave was given the treasury key and restore capabilities name one
\* enclave, the key signs for no more than its budget over all enclaves it ever
\* lived on, however many failovers there are and however old the backups.
THEOREM FailoverHolds == ASSUME SingleTreasury PROVE Spec => []FailoverWithinBudget
  <1>1. RInv /\ RInv' /\ FInv /\ [Next]_vars => FInv'
    BY StepFInv
  <1>2. Init => FInv
    BY InitFInv
  <1>3. FInv => FailoverWithinBudget
    BY DEF FInv
  <1>. QED
    BY <1>1, <1>2, <1>3, RInvHolds, PTL DEF Spec
=============================================================================
