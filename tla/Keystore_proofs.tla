-------------------------- MODULE Keystore_proofs --------------------------
(***************************************************************************)
(* Proofs about Keystore, for every set of requests, every capacity and    *)
(* any number of operations, exports and restores.                         *)
(*                                                                         *)
(* A body is well formed (BodyGood) when it is installed and when it is    *)
(* sealed: in particular the audit ring holds the last records in order,   *)
(* without a gap, and all those not exported. A candidate is described by  *)
(* what it may change of the body it was built from (CandBody); since no   *)
(* other request runs in between, that is what its commit changes.         *)
(* The records are accounted for one operation at a time (AuditGood): one   *)
(* still to be exported is in the ring, and a ring that follows another    *)
(* keeps those (Keeps) unless a restore replaces it.                       *)
(***************************************************************************)
EXTENDS Keystore, FiniteSetTheorems, TLAPS

-----------------------------------------------------------------------------
(* Types *)

Marks == [counters : [Rows -> Nat], cumulative : Nat, lifetime : Nat, strict : Nat]

Backups == [entries : SUBSET Entries, marks : Marks, faucet : Faucets,
            records : Seq(Records), version : Nat]

-----------------------------------------------------------------------------
(* Well-formed bodies *)

\* One entry per key_ref, within the capacity.
KeysGood(es) ==
    /\ IsFiniteSet(es)
    /\ Cardinality(es) <= MaxKeys
    /\ \A e, f \in es : e.ref = f.ref => e = f

UsedRows(counters) == {r \in Rows : counters[r] > 0}
RowsGood(counters) == Cardinality(UsedRows(counters)) <= MaxRows

\* The records of a ring: consecutive, up to the last one given out.
Consecutive(rs, next) ==
    /\ next >= 1
    /\ \A i \in 1 .. Len(rs) : rs[i].seq = next - 1 - Len(rs) + i

\* What was not exported is in the ring, which is within its capacity.
RingGood(a) ==
    /\ Len(a.records) <= AuditCapacity
    /\ Consecutive(a.records, a.next_seq)
    /\ a.last_exported < a.next_seq
    /\ a.next_seq - 1 - a.last_exported <= Len(a.records)

BodyGood(b) ==
    /\ b.structural >= 1
    /\ KeysGood(b.entries)
    /\ RowsGood(b.counters)
    /\ RingGood(b.audit)

BackupGood(k) ==
    /\ k \in Backups
    /\ KeysGood(k.entries)
    /\ RowsGood(k.marks.counters)
    /\ \E next \in Nat : Consecutive(k.records, next)

\* The exported records of a ring are in the backups of ks.
ExportedIn(a, ks) ==
    \A i \in 1 .. Len(a.records) :
        a.records[i].seq <= a.last_exported =>
            \E k \in ks : a.records[i] \in Range(k.records)

\* A ring that follows a: it has every record of a that was not exported.
Keeps(a, rs) ==
    \A i \in 1 .. Len(a.records) :
        \/ a.records[i].seq <= a.last_exported
        \/ \E j \in 1 .. Len(rs) : rs[j] = a.records[i]

Holds(rs, cap) == \E j \in 1 .. Len(rs) : rs[j].cap = cap

Within(f) ==
    /\ f.cumulative <= f.budget
    /\ f.breaker # NoBreaker => f.lifetime <= f.breaker

-----------------------------------------------------------------------------
(* The invariant *)

\* What a candidate may change of the installed body.
CandBody(op, cap, b) ==
    /\ b \in Bodies /\ BodyGood(b)
    /\ b.epoch = body.epoch + 1
    /\ b.structural = body.structural => NonMarksOf(b) = NonMarksOf(body)
    /\ \A r \in Rows : b.counters[r] >= body.counters[r]
    /\ b.strict >= body.strict
    /\ b.faucet.cumulative < body.faucet.cumulative => cap # Idle /\ op # "restore"
    /\ b.faucet.lifetime < body.faucet.lifetime =>
          cap # Idle /\ cap.row.authority = "recovery" /\ op # "restore"
    /\ restores = {} /\ op # "restore" => Within(b.faucet)
    /\ op # "restore" => Keeps(body.audit, b.audit.records)
    /\ op # "restore" /\ cap # Idle => Holds(b.audit.records, cap)

CandGood ==
    /\ cand.op \in AllOps
    /\ cand.cap \in Capabilities \cup {Idle}
    /\ CandBody(cand.op, cand.cap, cand.body)
    /\ cand.op = "export" =>
          /\ BackupGood(cand.backup)
          /\ cand.backup.records = cand.body.audit.records
          /\ ExportedIn(cand.body.audit, backups \cup {cand.backup})
    /\ cand.op # "export" => ExportedIn(cand.body.audit, backups)

\* No restore and no export since.
Fresh(a) ==
    /\ \A r \in restores : r.at < a.at
    /\ \A x \in accepted : x.op = "export" => x.at < a.at

\* The record of a is in a backup, was dropped by a restore, or is in the ring
\* and still to be exported.
Kept(a) ==
    \/ InBackup(a)
    \/ DroppedByRestore(a)
    \/ HasRecord(body.audit.records, a) /\ Fresh(a)

AuditGood == \A a \in accepted : a.op # "restore" => Kept(a)

KInv ==
    /\ body \in Bodies /\ BodyGood(body)
    /\ \A k \in backups : BackupGood(k)
    /\ ExportedIn(body.audit, backups)
    /\ \A a \in accepted : a.at \in Nat /\ a.at <= body.epoch
    /\ \A r \in restores : r.at \in Nat /\ r.at <= body.epoch
    /\ AuditGood
    /\ restores = {} => Within(body.faucet)
    /\ cand # Idle => CandGood

-----------------------------------------------------------------------------
(* Rows and keys *)

LEMMA RowsFinite == IsFiniteSet(Rows)
<1>2. IsFiniteSet({[authority |-> "admin", scope |-> 0]})
  BY FS_Singleton
<1>3. IsFiniteSet({[authority |-> "admin", scope |-> 0], [authority |-> "admin", scope |-> 1]})
  <2>1. {[authority |-> "admin", scope |-> 0], [authority |-> "admin", scope |-> 1]} =
        {[authority |-> "admin", scope |-> 0]} \cup {[authority |-> "admin", scope |-> 1]}
    OBVIOUS
  <2> QED  BY <1>2, <2>1, FS_AddElement
<1>4. IsFiniteSet({[authority |-> "recovery", scope |-> 0]})
  BY FS_Singleton
<1>5. IsFiniteSet({[authority |-> "recovery", scope |-> 0],
                   [authority |-> "recovery", scope |-> 1]})
  <2>1. {[authority |-> "recovery", scope |-> 0], [authority |-> "recovery", scope |-> 1]} =
        {[authority |-> "recovery", scope |-> 0]} \cup {[authority |-> "recovery", scope |-> 1]}
    OBVIOUS
  <2> QED  BY <1>4, <2>1, FS_AddElement
<1>6. Rows \subseteq
         {[authority |-> "admin", scope |-> 0], [authority |-> "admin", scope |-> 1]} \cup
         {[authority |-> "recovery", scope |-> 0], [authority |-> "recovery", scope |-> 1]}
  <2>1. \A r \in Rows : /\ r = [authority |-> r.authority, scope |-> r.scope]
                        /\ r.authority \in {"admin", "recovery"} /\ r.scope \in {0, 1}
    BY DEF Rows
  <2> QED  BY <2>1
<1> QED  BY <1>3, <1>5, <1>6, FS_Union, FS_Subset

\* Setting one row uses at most that row more.
LEMMA RowSet ==
    ASSUME NEW c \in [Rows -> Nat], NEW row \in Rows, NEW n \in Nat, RowsGood(c),
           c[row] > 0 \/ Cardinality(UsedRows(c)) < MaxRows
    PROVE  [c EXCEPT ![row] = n] \in [Rows -> Nat] /\ RowsGood([c EXCEPT ![row] = n])
<1>0. MaxRows \in Nat
  BY ConstantsAssumption
<1>1. PICK U : U = UsedRows(c)
  OBVIOUS
<1>2. U \subseteq Rows /\ IsFiniteSet(U) /\ Cardinality(U) \in Nat /\ Cardinality(U) <= MaxRows
  BY <1>1, RowsFinite, FS_Subset, FS_CardinalityType DEF UsedRows, RowsGood
<1>3. PICK d \in [Rows -> Nat] : d = [c EXCEPT ![row] = n]
  OBVIOUS
<1>4. UsedRows(d) \subseteq U \cup {row}
  BY <1>1, <1>3 DEF UsedRows
<1>5. /\ IsFiniteSet(U \cup {row})
      /\ Cardinality(U \cup {row}) = IF row \in U THEN Cardinality(U) ELSE Cardinality(U) + 1
  BY <1>2, FS_AddElement
<1>6. /\ Cardinality(UsedRows(d)) <= Cardinality(U \cup {row})
      /\ Cardinality(UsedRows(d)) \in Nat /\ Cardinality(U \cup {row}) \in Nat
  BY <1>4, <1>5, FS_Subset, FS_CardinalityType
<1>7. Cardinality(U \cup {row}) <= MaxRows
  <2>1. CASE row \in U
    BY <1>2, <1>5, <2>1
  <2>2. CASE row \notin U
    <3>1. ~(c[row] > 0)
      BY <1>1, <2>2 DEF UsedRows
    <3>2. Cardinality(U) < MaxRows
      BY <1>1, <3>1
    <3> QED  BY <1>0, <1>2, <1>5, <2>2, <3>2
  <2> QED  BY <2>1, <2>2
<1> QED  BY <1>0, <1>3, <1>6, <1>7 DEF RowsGood

\* A batch of new key_refs within the capacity.
LEMMA KeysAdded ==
    ASSUME NEW es \in SUBSET Entries, KeysGood(es), NEW refs \in SUBSET Refs,
           NEW p \in Purposes, NEW n \in Nat,
           Cardinality(es) + Cardinality(refs) <= MaxKeys,
           \A e \in es : e.ref \notin refs
    PROVE  LET new == {[ref |-> r, purpose |-> p, batch |-> n] : r \in refs}
           IN  es \cup new \in SUBSET Entries /\ KeysGood(es \cup new)
<1> DEFINE new == {[ref |-> r, purpose |-> p, batch |-> n] : r \in refs}
<1>1. new \subseteq Entries
  BY DEF Entries
<1>2. IsFiniteSet(refs) /\ Cardinality(refs) \in Nat
  BY ConstantsAssumption, FS_Subset, FS_CardinalityType
<1>3. IsFiniteSet(new) /\ Cardinality(new) <= Cardinality(refs)
  <2> DEFINE g == [r \in refs |-> [ref |-> r, purpose |-> p, batch |-> n]]
  <2>1. g \in Surjection(refs, new)
    BY DEF Surjection
  <2> QED  BY <1>2, <2>1, FS_Surjection
<1>4. /\ IsFiniteSet(es \cup new)
      /\ Cardinality(es \cup new) = Cardinality(es) + Cardinality(new) - Cardinality(es \cap new)
  BY <1>3, FS_Union DEF KeysGood
<1>5. /\ Cardinality(es) \in Nat /\ Cardinality(new) \in Nat
      /\ Cardinality(es \cap new) \in Nat /\ Cardinality(es \cup new) \in Nat
  BY <1>3, <1>4, FS_CardinalityType, FS_Intersection DEF KeysGood
<1>6. Cardinality(es \cup new) <= MaxKeys
  BY <1>2, <1>3, <1>4, <1>5, ConstantsAssumption
<1>7. \A e, f \in es \cup new : e.ref = f.ref => e = f
  BY DEF KeysGood
<1> QED  BY <1>1, <1>4, <1>6, <1>7 DEF KeysGood

\* Some of the keys.
LEMMA KeysSome ==
    ASSUME NEW es \in SUBSET Entries, KeysGood(es), NEW fs \in SUBSET es
    PROVE  KeysGood(fs)
<1>1. IsFiniteSet(fs) /\ Cardinality(fs) <= Cardinality(es)
      /\ Cardinality(fs) \in Nat /\ Cardinality(es) \in Nat
  BY FS_Subset, FS_CardinalityType DEF KeysGood
<1> QED  BY <1>1, ConstantsAssumption DEF KeysGood

-----------------------------------------------------------------------------
(* The operations of a body *)

LEMMA AuditType ==
    ASSUME NEW b \in Bodies
    PROVE  /\ b.audit \in Audits /\ b.audit.records \in Seq(Records)
           /\ Len(b.audit.records) \in Nat
           /\ b.audit.last_exported \in Nat /\ b.audit.next_seq \in Nat
           /\ b.faucet \in Faucets /\ b.counters \in [Rows -> Nat]
           /\ b.entries \in SUBSET Entries
           /\ b.version \in Nat /\ b.strict \in Nat /\ b.epoch \in Nat /\ b.structural \in Nat
  BY DEF Bodies, Audits

LEMMA EpochAdvances ==
    ASSUME NEW b \in Bodies, NEW s \in BOOLEAN
    PROVE  LET r == AdvanceCommitEpoch(b, s)
           IN  /\ r \in Bodies
               /\ r.entries = b.entries /\ r.counters = b.counters /\ r.faucet = b.faucet
               /\ r.audit = b.audit /\ r.version = b.version /\ r.strict = b.strict
               /\ r.epoch = b.epoch + 1
               /\ s => r.structural = b.structural + 1
               /\ ~s => r.structural = b.structural
<1>1. PICK e \in Nat : e = b.epoch + 1
  BY AuditType
<1>2. PICK n \in Nat : n = IF s THEN b.structural + 1 ELSE b.structural
  BY AuditType
<1>3. AdvanceCommitEpoch(b, s) = [b EXCEPT !.epoch = e, !.structural = n]
  BY <1>1, <1>2 DEF AdvanceCommitEpoch
<1>4. PICK r : r = [b EXCEPT !.epoch = e, !.structural = n]
  OBVIOUS
<1>5. r \in Bodies
  BY <1>4 DEF Bodies
<1>6. /\ r.entries = b.entries /\ r.counters = b.counters /\ r.faucet = b.faucet
      /\ r.audit = b.audit /\ r.version = b.version /\ r.strict = b.strict
      /\ r.epoch = e /\ r.structural = n
  BY <1>4 DEF Bodies
<1> QED  BY <1>1, <1>2, <1>3, <1>4, <1>5, <1>6

LEMMA CounterSet ==
    ASSUME NEW b \in Bodies, NEW cap \in Capabilities
    PROVE  LET r == AdvanceCounter(b, cap)
           IN  /\ r \in Bodies
               /\ r.entries = b.entries /\ r.faucet = b.faucet
               /\ r.audit = b.audit /\ r.version = b.version /\ r.strict = b.strict
               /\ r.epoch = b.epoch /\ r.structural = b.structural
               /\ r.counters = [b.counters EXCEPT ![cap.row] = cap.counter]
<1>1. cap.row \in Rows /\ cap.counter \in Nat
  BY ConstantsAssumption DEF Capabilities
<1>2. PICK c \in [Rows -> Nat] : c = [b.counters EXCEPT ![cap.row] = cap.counter]
  BY <1>1, AuditType
<1>3. AdvanceCounter(b, cap) = [b EXCEPT !.counters = c]
  BY <1>2 DEF AdvanceCounter, Bodies
<1>4. PICK r : r = [b EXCEPT !.counters = c]
  OBVIOUS
<1>5. r \in Bodies
  BY <1>4 DEF Bodies
<1>6. /\ r.entries = b.entries /\ r.counters = c /\ r.faucet = b.faucet
      /\ r.audit = b.audit /\ r.version = b.version /\ r.strict = b.strict
      /\ r.epoch = b.epoch /\ r.structural = b.structural
  BY <1>4 DEF Bodies
<1> QED  BY <1>2, <1>3, <1>4, <1>5, <1>6

\* The ring after a record: the last one is new, and the first is gone when the
\* ring was full.
RingNext(rs, x) == Append(IF Len(rs) < AuditCapacity THEN rs ELSE Tail(rs), x)
Lost(rs) == IF Len(rs) < AuditCapacity THEN 0 ELSE 1

LEMMA RingAppended ==
    ASSUME NEW S, NEW rs \in Seq(S), NEW x \in S,
           AuditCapacity \in Nat, AuditCapacity # 0, Len(rs) <= AuditCapacity
    PROVE  /\ RingNext(rs, x) \in Seq(S)
           /\ Len(RingNext(rs, x)) = Len(rs) + 1 - Lost(rs)
           /\ RingNext(rs, x)[Len(rs) + 1 - Lost(rs)] = x
           /\ \A i \in 1 .. Len(rs) - Lost(rs) :
                 i + Lost(rs) \in 1 .. Len(rs) /\ RingNext(rs, x)[i] = rs[i + Lost(rs)]
<1>1. CASE Len(rs) < AuditCapacity
  <2>1. RingNext(rs, x) = Append(rs, x) /\ Lost(rs) = 0
    BY <1>1 DEF RingNext, Lost
  <2>2. /\ Append(rs, x) \in Seq(S) /\ Len(Append(rs, x)) = Len(rs) + 1
        /\ Append(rs, x)[Len(rs) + 1] = x /\ Len(rs) \in Nat
        /\ \A i \in 1 .. Len(rs) : Append(rs, x)[i] = rs[i]
    OBVIOUS
  <2>3. Len(rs) + 1 - 0 = Len(rs) + 1 /\ Len(rs) - 0 = Len(rs)
        /\ \A i \in 1 .. Len(rs) : i + 0 = i
    BY <2>2
  <2> QED  BY <2>1, <2>2, <2>3
<1>2. CASE ~(Len(rs) < AuditCapacity)
  <2>1. RingNext(rs, x) = Append(Tail(rs), x) /\ Lost(rs) = 1
    BY <1>2 DEF RingNext, Lost
  <2>2. /\ rs # << >> /\ Tail(rs) \in Seq(S) /\ Len(Tail(rs)) = Len(rs) - 1
        /\ Len(rs) \in Nat /\ Len(Tail(rs)) \in Nat
        /\ \A i \in 1 .. Len(Tail(rs)) : Tail(rs)[i] = rs[i + 1]
    BY <1>2
  <2>3. PICK ts \in Seq(S) : ts = Tail(rs)
    BY <2>2
  <2>4. /\ Append(ts, x) \in Seq(S) /\ Len(Append(ts, x)) = Len(ts) + 1
        /\ Append(ts, x)[Len(ts) + 1] = x
        /\ \A i \in 1 .. Len(ts) : Append(ts, x)[i] = ts[i]
    OBVIOUS
  <2>5. /\ Len(ts) = Len(rs) - 1 /\ Len(rs) + 1 - 1 = Len(rs) /\ Len(ts) + 1 = Len(rs)
        /\ \A i \in 1 .. Len(rs) - 1 : i + 1 \in 1 .. Len(rs)
    BY <2>2, <2>3
  <2>6. \A i \in 1 .. Len(rs) - 1 : Append(ts, x)[i] = rs[i + 1]
    BY <2>2, <2>3, <2>4, <2>5
  <2> QED  BY <2>1, <2>3, <2>4, <2>5, <2>6
<1> QED  BY <1>1, <1>2

\* A record the ring has room for is the last of the ring, and what it
\* overwrites was exported.
LEMMA RingRecorded ==
    ASSUME NEW a \in Audits, RingGood(a), ~ AuditBackpressure(a), NEW x \in Records,
           x.seq = a.next_seq
    PROVE  \E c \in Audits :
              /\ c.records = RingNext(a.records, x)
              /\ c.next_seq = a.next_seq + 1 /\ c.last_exported = a.last_exported
              /\ RingGood(c) /\ c.records # << >>
              /\ \A ks : ExportedIn(a, ks) => ExportedIn(c, ks)
              /\ Keeps(a, c.records) /\ Holds(c.records, x.cap)
<1>0. PICK rs \in Seq(Records), n \in Nat, e \in Nat, l \in Nat, C \in Nat :
         /\ rs = a.records /\ n = a.next_seq /\ e = a.last_exported
         /\ l = Len(rs) /\ C = AuditCapacity
  BY ConstantsAssumption DEF Audits
<1>1. /\ C # 0 /\ l <= C /\ (l < C \/ n - 1 - e < C)
      /\ e < n /\ n - 1 - e <= l
  BY <1>0 DEF AuditBackpressure, RingGood
<1>2. \A i \in 1 .. l : rs[i].seq = n - 1 - l + i
  BY <1>0 DEF RingGood, Consecutive
<1>3. /\ RingNext(rs, x) \in Seq(Records)
      /\ Len(RingNext(rs, x)) = Len(rs) + 1 - Lost(rs)
      /\ RingNext(rs, x)[Len(rs) + 1 - Lost(rs)] = x
      /\ \A i \in 1 .. Len(rs) - Lost(rs) :
            i + Lost(rs) \in 1 .. Len(rs) /\ RingNext(rs, x)[i] = rs[i + Lost(rs)]
  BY <1>0, <1>1, RingAppended
<1>4. PICK ns \in Seq(Records), o \in {0, 1}, m \in Nat :
         ns = RingNext(rs, x) /\ o = Lost(rs) /\ m = Len(ns)
  BY <1>3 DEF Lost
<1>5. /\ m = l + 1 - o /\ (o = 0 <=> l < C) /\ ns[m] = x
      /\ \A i \in 1 .. m - 1 : i + o \in 1 .. l /\ ns[i] = rs[i + o]
  <2>1. m = l + 1 - o /\ ns[m] = x /\ (o = 0 <=> l < C)
    <3>1. m = l + 1 - o
      BY <1>0, <1>3, <1>4
    <3>2. o = 0 <=> l < C
      BY <1>0, <1>4 DEF Lost
    <3>3. ns[m] = x
      BY <1>0, <1>3, <1>4, <3>1
    <3> QED  BY <3>1, <3>2, <3>3
  <2>2. m - 1 = l - o
    BY <2>1
  <2> QED  BY <1>0, <1>3, <1>4, <2>1, <2>2
<1>6. ASSUME NEW i \in 1 .. m  PROVE ns[i].seq = n - m + i
  <2>1. CASE i = m
    <3>1. ns[i].seq = n
      BY <1>0, <1>5, <2>1
    <3>2. n - m + m = n
      OBVIOUS
    <3> QED  BY <2>1, <3>1, <3>2
  <2>2. CASE i # m
    <3>1. i \in 1 .. m - 1 /\ i \in Int
      BY <1>6, <2>2
    <3>2. i + o \in 1 .. l /\ ns[i] = rs[i + o]
      BY <1>5, <3>1
    <3>3. ns[i].seq = n - 1 - l + (i + o)
      BY <1>2, <3>2
    <3>4. \A s, j \in Int : s = n - 1 - l + (j + o) => s = n - m + j
      BY <1>5
    <3>5. n - 1 - l + (i + o) \in Int
      BY <3>1
    <3> QED  BY <3>1, <3>3, <3>4, <3>5
  <2> QED  BY <2>1, <2>2
<1>7. PICK c \in Audits : c = [records |-> ns, last_exported |-> e, next_seq |-> n + 1]
  <2>1. n + 1 \in Nat
    OBVIOUS
  <2>2. [records |-> ns, last_exported |-> e, next_seq |-> n + 1] \in Audits
    BY <2>1 DEF Audits
  <2> QED  BY <2>2
<1>8. c.records = ns /\ c.last_exported = e /\ c.next_seq = n + 1
  BY <1>7
<1>9. RingGood(c)
  <2>1. m <= C /\ e < n + 1 /\ n + 1 - 1 - e <= m /\ n + 1 >= 1
    BY <1>1, <1>5
  <2>2. \A i \in 1 .. m : ns[i].seq = n + 1 - 1 - m + i
    BY <1>6
  <2>3. Consecutive(ns, n + 1)
    BY <1>4, <2>1, <2>2 DEF Consecutive
  <2>4. Len(ns) <= AuditCapacity /\ n + 1 - 1 - e <= Len(ns)
    BY <1>0, <1>4, <2>1
  <2> QED  BY <1>8, <2>1, <2>3, <2>4 DEF RingGood
<1>10. ns # << >>
  <2>1. m # 0
    BY <1>1, <1>5
  <2> QED  BY <1>4, <2>1
<1>11. ASSUME NEW ks, ExportedIn(a, ks)  PROVE ExportedIn(c, ks)
  <2> SUFFICES ASSUME NEW i \in 1 .. m, ns[i].seq <= e
               PROVE  \E k \in ks : ns[i] \in Range(k.records)
    BY <1>4, <1>8 DEF ExportedIn
  <2>1. i # m
    <3>1. ns[m].seq = n
      BY <1>0, <1>5
    <3> QED  BY <1>1, <3>1
  <2>2. i \in 1 .. m - 1
    BY <2>1
  <2>3. i + o \in 1 .. l /\ ns[i] = rs[i + o]
    BY <1>5, <2>2
  <2> QED  BY <1>0, <1>11, <2>3 DEF ExportedIn
<1>12. Keeps(a, ns)
  <2> SUFFICES ASSUME NEW i \in 1 .. l, ~(rs[i].seq <= e)
               PROVE  \E j \in 1 .. m : ns[j] = rs[i]
    BY <1>0, <1>4 DEF Keeps
  <2>1. rs[i].seq = n - 1 - l + i
    BY <1>2
  <2>2. i - o \in 1 .. m - 1
    <3>1. CASE o = 0
      BY <1>5, <3>1
    <3>2. CASE o = 1
      <4>1. l = C /\ n - 1 - e < C /\ n - 1 - l + i > e
        BY <1>1, <1>5, <2>1, <3>2
      <4>2. i > 1
        BY <4>1
      <4> QED  BY <1>5, <3>2, <4>2
    <3> QED  BY <3>1, <3>2
  <2>3. ns[i - o] = rs[(i - o) + o] /\ (i - o) + o = i /\ i - o \in 1 .. m
    BY <1>5, <2>2
  <2> QED  BY <2>3
<1>13. Holds(ns, x.cap)
  <2>1. m \in 1 .. m
    BY <1>1, <1>5
  <2> QED  BY <1>4, <1>5, <2>1 DEF Holds
<1> QED  BY <1>0, <1>4, <1>8, <1>9, <1>10, <1>11, <1>12, <1>13

LEMMA AuditRecorded ==
    ASSUME NEW b \in Bodies, NEW cap \in Capabilities, RingGood(b.audit),
           ~ AuditBackpressure(b.audit)
    PROVE  LET r == RecordAudit(b, cap)
           IN  /\ r \in Bodies
               /\ r.entries = b.entries /\ r.counters = b.counters /\ r.faucet = b.faucet
               /\ r.version = b.version /\ r.strict = b.strict
               /\ r.epoch = b.epoch /\ r.structural = b.structural
               /\ RingGood(r.audit) /\ r.audit.records # << >>
               /\ \A ks : ExportedIn(b.audit, ks) => ExportedIn(r.audit, ks)
               /\ Keeps(b.audit, r.audit.records) /\ Holds(r.audit.records, cap)
<1>0. PICK a \in Audits : a = b.audit
  BY AuditType
<1>1. PICK x \in Records : x = [seq |-> a.next_seq, cap |-> cap]
  BY <1>0 DEF Records, Audits
<1>2. PICK c \in Audits :
         /\ c.records = RingNext(a.records, x)
         /\ c.next_seq = a.next_seq + 1 /\ c.last_exported = a.last_exported
         /\ RingGood(c) /\ c.records # << >>
         /\ \A ks : ExportedIn(a, ks) => ExportedIn(c, ks)
         /\ Keeps(a, c.records) /\ Holds(c.records, cap)
  BY <1>0, <1>1, RingRecorded
<1>3. RecordAudit(b, cap) = [b EXCEPT !.audit = c]
  <2>1. RecordAudit(b, cap) =
           [b EXCEPT !.audit = [a EXCEPT !.records = c.records, !.next_seq = c.next_seq]]
    BY <1>0, <1>1, <1>2 DEF RecordAudit, RingNext, Bodies, Audits
  <2>2. [a EXCEPT !.records = c.records, !.next_seq = c.next_seq] = c
    BY <1>2 DEF Audits
  <2> QED  BY <2>1, <2>2
<1>4. PICK r : r = [b EXCEPT !.audit = c]
  OBVIOUS
<1>5. r \in Bodies
  BY <1>4 DEF Bodies
<1>6. /\ r.entries = b.entries /\ r.counters = b.counters /\ r.faucet = b.faucet
      /\ r.audit = c /\ r.version = b.version /\ r.strict = b.strict
      /\ r.epoch = b.epoch /\ r.structural = b.structural
  BY <1>4 DEF Bodies
<1> QED  BY <1>0, <1>2, <1>3, <1>4, <1>5, <1>6

LEMMA HighWaterAdvanced ==
    ASSUME NEW b \in Bodies, RingGood(b.audit)
    PROVE  LET r == AdvanceExportHighWater(b)
           IN  /\ r \in Bodies
               /\ r.entries = b.entries /\ r.counters = b.counters /\ r.faucet = b.faucet
               /\ r.version = b.version /\ r.strict = b.strict
               /\ r.epoch = b.epoch /\ r.structural = b.structural
               /\ RingGood(r.audit) /\ r.audit.records = b.audit.records
               /\ r.audit.next_seq = b.audit.next_seq
<1> DEFINE a == b.audit
<1>0. /\ a.records \in Seq(Records) /\ Len(a.records) \in Nat /\ a.next_seq \in Nat
      /\ a.last_exported \in Nat /\ a \in Audits /\ a.next_seq >= 1
  BY AuditType DEF RingGood, Consecutive
<1>1. PICK h \in Nat : h = IF a.next_seq - 1 > a.last_exported THEN a.next_seq - 1
                                                              ELSE a.last_exported
  BY <1>0
<1>2. PICK c \in Audits : c = [a EXCEPT !.last_exported = h]
  BY <1>0 DEF Audits
<1>3. c.records = a.records /\ c.next_seq = a.next_seq /\ c.last_exported = h
  BY <1>0, <1>2 DEF Audits
<1>4. AdvanceExportHighWater(b) = [b EXCEPT !.audit = c]
  BY <1>1, <1>2 DEF AdvanceExportHighWater, Bodies, Audits
<1>5. PICK r : r = [b EXCEPT !.audit = c]
  OBVIOUS
<1>6. r \in Bodies
  BY <1>5 DEF Bodies
<1>7. /\ r.entries = b.entries /\ r.counters = b.counters /\ r.faucet = b.faucet
      /\ r.audit = c /\ r.version = b.version /\ r.strict = b.strict
      /\ r.epoch = b.epoch /\ r.structural = b.structural
  BY <1>5 DEF Bodies
<1>8. h < a.next_seq /\ a.next_seq - 1 - h <= 0
  BY <1>0, <1>1 DEF RingGood
<1>9. RingGood(c)
  BY <1>0, <1>3, <1>8 DEF RingGood
<1> QED  BY <1>3, <1>4, <1>5, <1>6, <1>7, <1>9

LEMMA EmptyRing ==
    ASSUME NEW S, NEW rs \in Seq(S), Len(rs) = 0
    PROVE  rs = << >>
  OBVIOUS

\* The ring of a restored body: the backup's records, all of them exported.
LEMMA RingRestored ==
    ASSUME NEW k, BackupGood(k), Len(k.records) <= AuditCapacity, NEW next,
           next = IF k.records = << >> THEN 1 ELSE Last(k.records).seq + 1,
           NEW c, c = [records |-> k.records, last_exported |-> next - 1, next_seq |-> next]
    PROVE  /\ c \in Audits /\ RingGood(c)
           /\ \A ks : k \in ks => ExportedIn(c, ks)
<1>0. PICK rs \in Seq(Records), l \in Nat : rs = k.records /\ l = Len(rs)
  BY DEF BackupGood, Backups
<1>1. PICK n \in Nat : n >= 1 /\ \A i \in 1 .. l : rs[i].seq = n - 1 - l + i
  BY <1>0 DEF BackupGood, Consecutive
<1>2. next \in Nat /\ next >= 1 /\ \A i \in 1 .. l : rs[i].seq = next - 1 - l + i
  <2>1. CASE l = 0
    <3>1. rs = << >>
      BY <1>0, <2>1, EmptyRing
    <3>2. next = 1
      BY <1>0, <3>1
    <3>3. \A i \in 1 .. l : FALSE
      BY <2>1
    <3> QED  BY <3>2, <3>3
  <2>2. CASE l # 0
    <3>1. l \in 1 .. l /\ rs # << >>
      BY <1>0, <2>2
    <3>2. rs[l].seq = n - 1 - l + l
      BY <1>1, <3>1
    <3>3. next = n
      BY <1>0, <3>1, <3>2 DEF Last
    <3> QED  BY <1>1, <3>3
  <2> QED  BY <2>1, <2>2
<1>3. next - 1 \in Nat /\ next - 1 < next /\ next - 1 - (next - 1) <= l
  BY <1>2
<1>4. c.records = rs /\ c.last_exported = next - 1 /\ c.next_seq = next
  BY <1>0
<1>5. c \in Audits
  BY <1>0, <1>2, <1>3 DEF Audits
<1>6. RingGood(c)
  BY <1>0, <1>2, <1>3, <1>4 DEF RingGood, Consecutive
<1>7. ASSUME NEW ks, k \in ks  PROVE ExportedIn(c, ks)
  <2>1. \A i \in 1 .. Len(rs) : rs[i] \in Range(rs)
    BY <1>0 DEF Range
  <2> QED  BY <1>0, <1>4, <1>7, <2>1 DEF ExportedIn
<1> QED  BY <1>5, <1>6, <1>7

LEMMA MarksType ==
    ASSUME NEW b \in Bodies
    PROVE  /\ MarksOf(b) \in Marks
           /\ MarksOf(b).counters = b.counters
           /\ MarksOf(b).cumulative = b.faucet.cumulative
           /\ MarksOf(b).lifetime = b.faucet.lifetime
           /\ MarksOf(b).strict = b.strict
<1>1. /\ b.counters \in [Rows -> Nat] /\ b.faucet.cumulative \in Nat
      /\ b.faucet.lifetime \in Nat /\ b.strict \in Nat
  BY AuditType DEF Faucets
<1> QED  BY <1>1 DEF MarksOf, Marks

-----------------------------------------------------------------------------
(* The handlers *)

LEMMA AuditStays ==
    ASSUME AuditGood, UNCHANGED <<body, backups, accepted, restores>>
    PROVE  AuditGood'
  BY DEF AuditGood, Kept, InBackup, DroppedByRestore, Fresh

\* The candidate a handler leaves.
LEMMA Sealed ==
    ASSUME KInv, NEW op \in AllOps \ {"export"}, NEW cap \in Capabilities \cup {Idle}, NEW b,
           CandBody(op, cap, b), ExportedIn(b.audit, backups), Seal(op, cap, b),
           UNCHANGED <<body, backups, ephemeral, published, accepted, restores>>
    PROVE  KInv'
<1>1. cand'.op = op /\ cand'.cap = cap /\ cand'.body = b
  BY DEF Seal
<1>2. CandBody(op, cap, b)'
  BY DEF CandBody, NonMarksOf
<1>3. CandGood'
  BY <1>1, <1>2 DEF CandGood, CandBody
<1>4. AuditGood'
  BY AuditStays DEF KInv
<1> QED  BY <1>3, <1>4 DEF KInv

\* The common tail: the row advances, the operation is recorded, and the rest is
\* as the handler left it.
LEMMA Tail1 ==
    ASSUME KInv, NEW b \in Bodies, NEW cap \in Capabilities, BodyGood(b),
           b.counters = body.counters, b.audit = body.audit,
           cap.counter = body.counters[cap.row] + 1,
           CounterAdvances(b, cap), ~ AuditBackpressure(b.audit)
    PROVE  LET r == RecordAudit(AdvanceCounter(b, cap), cap)
           IN  /\ r \in Bodies /\ BodyGood(r) /\ r.audit.records # << >>
               /\ r.entries = b.entries /\ r.faucet = b.faucet
               /\ r.version = b.version /\ r.strict = b.strict
               /\ r.epoch = b.epoch /\ r.structural = b.structural
               /\ \A x \in Rows : r.counters[x] >= body.counters[x]
               /\ ExportedIn(r.audit, backups)
               /\ Keeps(body.audit, r.audit.records) /\ Holds(r.audit.records, cap)
<1>0. cap.row \in Rows /\ cap.counter \in Nat
  BY ConstantsAssumption DEF Capabilities
<1>1. PICK a : a = AdvanceCounter(b, cap)
  OBVIOUS
<1>2. /\ a \in Bodies /\ a.entries = b.entries /\ a.faucet = b.faucet
      /\ a.audit = b.audit /\ a.version = b.version /\ a.strict = b.strict
      /\ a.epoch = b.epoch /\ a.structural = b.structural
      /\ a.counters = [b.counters EXCEPT ![cap.row] = cap.counter]
  BY <1>1, CounterSet
<1>3. b.counters \in [Rows -> Nat] /\ RowsGood(b.counters)
  BY AuditType DEF BodyGood
<1>4. b.counters[cap.row] > 0 \/ Cardinality(UsedRows(b.counters)) < MaxRows
  BY DEF CounterAdvances, RowsUsed, UsedRows
<1>5. RowsGood(a.counters)
  BY <1>0, <1>2, <1>3, <1>4, RowSet
<1>6. RingGood(a.audit) /\ ~ AuditBackpressure(a.audit)
  BY <1>2 DEF BodyGood
<1>7. PICK r : r = RecordAudit(a, cap)
  OBVIOUS
<1>8. /\ r \in Bodies
      /\ r.entries = a.entries /\ r.counters = a.counters /\ r.faucet = a.faucet
      /\ r.version = a.version /\ r.strict = a.strict
      /\ r.epoch = a.epoch /\ r.structural = a.structural
      /\ RingGood(r.audit) /\ r.audit.records # << >>
      /\ \A ks : ExportedIn(a.audit, ks) => ExportedIn(r.audit, ks)
      /\ Keeps(a.audit, r.audit.records) /\ Holds(r.audit.records, cap)
  BY <1>2, <1>6, <1>7, AuditRecorded
<1>9. BodyGood(r)
  BY <1>2, <1>5, <1>8 DEF BodyGood
<1>10. ASSUME NEW x \in Rows  PROVE r.counters[x] >= body.counters[x]
  <2>1. body.counters[x] \in Nat
    BY <1>3
  <2> QED  BY <1>0, <1>2, <1>3, <1>8, <2>1
<1>11. ExportedIn(r.audit, backups)
  BY <1>2, <1>8 DEF KInv
<1> QED  BY <1>1, <1>2, <1>7, <1>8, <1>9, <1>10, <1>11

LEMMA PrivilegedStep ==
    ASSUME KInv, NEW op \in AllOps \ {"export", "dispense", "restore"},
           NEW cap \in Capabilities, NEW b \in Bodies, BodyGood(b),
           VerifyCapability(op, cap), Privileged(op, cap, b),
           b.counters = body.counters, b.audit = body.audit,
           b.epoch = body.epoch, b.structural = body.structural,
           b.strict >= body.strict,
           b.faucet.lifetime < body.faucet.lifetime => cap.row.authority = "recovery",
           restores = {} => Within(b.faucet)
    PROVE  KInv'
<1>0. cap.counter = body.counters[cap.row] + 1 /\ CounterAdvances(b, cap)
      /\ ~ AuditBackpressure(b.audit)
  BY DEF VerifyCapability, Privileged
<1>1. PICK r : r = RecordAudit(AdvanceCounter(b, cap), cap)
  OBVIOUS
<1>2. /\ r \in Bodies /\ BodyGood(r) /\ r.audit.records # << >>
      /\ r.entries = b.entries /\ r.faucet = b.faucet
      /\ r.version = b.version /\ r.strict = b.strict
      /\ r.epoch = b.epoch /\ r.structural = b.structural
      /\ \A x \in Rows : r.counters[x] >= body.counters[x]
      /\ ExportedIn(r.audit, backups)
      /\ Keeps(body.audit, r.audit.records) /\ Holds(r.audit.records, cap)
  BY <1>0, <1>1, Tail1
<1>3. PICK s : s = AdvanceCommitEpoch(r, TRUE)
  OBVIOUS
<1>4. /\ s \in Bodies
      /\ s.entries = r.entries /\ s.counters = r.counters /\ s.faucet = r.faucet
      /\ s.audit = r.audit /\ s.version = r.version /\ s.strict = r.strict
      /\ s.epoch = r.epoch + 1 /\ s.structural = r.structural + 1
  BY <1>2, <1>3, EpochAdvances
<1>5. /\ Seal(op, cap, s)
      /\ UNCHANGED <<body, backups, ephemeral, published, accepted, restores>>
  <2>1. BumpsStructural(op) = TRUE
    BY DEF BumpsStructural
  <2> QED  BY <1>1, <1>3, <2>1 DEF Privileged
<1>6. body.structural \in Nat /\ r.structural \in Nat
  BY <1>2, AuditType DEF KInv
<1>7. BodyGood(s)
  BY <1>2, <1>4, <1>6 DEF BodyGood
<1>8. cap # Idle
  BY DEF Capabilities, Idle
<1>9. CandBody(op, cap, s)
  BY <1>2, <1>4, <1>6, <1>7, <1>8 DEF CandBody
<1> QED  BY <1>2, <1>4, <1>5, <1>9, Sealed

\* handle_generate_keys.
LEMMA GenerateStep ==
    ASSUME KInv, NEW cap \in Capabilities, NEW p \in Purposes, NEW refs \in SUBSET Refs,
           GenerateKeys(cap, p, refs)
    PROVE  KInv'
<1> DEFINE new == {[ref |-> r, purpose |-> p, batch |-> cap.counter] : r \in refs}
<1>0. cap.counter \in Nat
  BY ConstantsAssumption DEF Capabilities
<1>1. body \in Bodies /\ BodyGood(body) /\ KeysGood(body.entries)
      /\ body.entries \in SUBSET Entries
  BY AuditType DEF KInv, BodyGood
<1>2. /\ Cardinality(body.entries) + Cardinality(refs) <= MaxKeys
      /\ \A e \in body.entries : e.ref \notin refs
  BY DEF GenerateKeys, KeysFit
<1>3. PICK es : es = body.entries \cup new
  OBVIOUS
<1>4. es \in SUBSET Entries /\ KeysGood(es)
  BY <1>0, <1>1, <1>2, <1>3, KeysAdded
<1>5. PICK b : b = [body EXCEPT !.entries = es]
  OBVIOUS
<1>6. b \in Bodies
  BY <1>1, <1>4, <1>5 DEF Bodies
<1>7. /\ b.entries = es /\ b.counters = body.counters /\ b.faucet = body.faucet
      /\ b.audit = body.audit /\ b.strict = body.strict
      /\ b.epoch = body.epoch /\ b.structural = body.structural
  BY <1>1, <1>5 DEF Bodies
<1>8. BodyGood(b)
  BY <1>1, <1>4, <1>7 DEF BodyGood
<1>9. VerifyCapability("generate", cap) /\ Privileged("generate", cap, b)
  BY <1>3, <1>5 DEF GenerateKeys
<1>10. "generate" \in AllOps \ {"export", "dispense", "restore"}
  BY DEF AllOps
<1>11. /\ b.strict >= body.strict /\ ~(b.faucet.lifetime < body.faucet.lifetime)
       /\ restores = {} => Within(b.faucet)
  <2>1. body.strict \in Nat /\ body.faucet.lifetime \in Nat
    BY <1>1, AuditType DEF Faucets
  <2> QED  BY <1>7, <2>1 DEF KInv
<1> QED  BY <1>6, <1>7, <1>8, <1>9, <1>10, <1>11, PrivilegedStep

\* handle_configure_treasury, whatever it sets.
LEMMA ConfigureStep ==
    ASSUME KInv, NEW op \in AllOps \ {"export", "dispense", "restore"},
           NEW cap \in Capabilities, NEW f \in Faucets, NEW n \in Nat,
           Configure(op, cap, f, n), n >= body.strict,
           f.lifetime < body.faucet.lifetime => op = "reset_breaker",
           restores = {} => Within(f)
    PROVE  KInv'
<1>1. body \in Bodies /\ BodyGood(body)
  BY DEF KInv
<1>2. PICK v \in Nat : v = body.version + 1
  BY <1>1, AuditType
<1>3. PICK b : b = [body EXCEPT !.faucet = f, !.strict = n, !.version = v]
  OBVIOUS
<1>4. b \in Bodies
  BY <1>1, <1>3 DEF Bodies
<1>5. /\ b.entries = body.entries /\ b.counters = body.counters /\ b.faucet = f
      /\ b.audit = body.audit /\ b.strict = n
      /\ b.epoch = body.epoch /\ b.structural = body.structural
  BY <1>1, <1>3 DEF Bodies
<1>6. BodyGood(b)
  BY <1>1, <1>5 DEF BodyGood
<1>7. VerifyCapability(op, cap) /\ Privileged(op, cap, b)
  BY <1>2, <1>3 DEF Configure, AdvanceConfigVersion
<1>8. op = "reset_breaker" => cap.row.authority = "recovery"
  BY <1>7 DEF VerifyCapability, TierOf
<1> QED  BY <1>4, <1>5, <1>6, <1>7, <1>8, PrivilegedStep

LEMMA SetLimitsStep ==
    ASSUME KInv, NEW cap \in Capabilities, NEW l \in Limits, SetLimits(cap, l)
    PROVE  KInv'
<1>1. body \in Bodies /\ body.faucet \in Faucets /\ body.strict \in Nat
  BY AuditType DEF KInv
<1>2. l.perMax \in Nat /\ l.maxGas \in Nat /\ l.maxRate \in Nat
  BY ConstantsAssumption
<1>3. PICK f : f = [body.faucet EXCEPT !.perMax = l.perMax, !.maxGas = l.maxGas,
                                       !.maxRate = l.maxRate]
  OBVIOUS
<1>4. f \in Faucets
  BY <1>1, <1>2, <1>3 DEF Faucets
<1>5. /\ f.cumulative = body.faucet.cumulative /\ f.budget = body.faucet.budget
      /\ f.lifetime = body.faucet.lifetime /\ f.breaker = body.faucet.breaker
  BY <1>1, <1>3 DEF Faucets
<1>6. ~(f.lifetime < body.faucet.lifetime) /\ body.strict >= body.strict
  BY <1>1, <1>5 DEF Faucets
<1>7. restores = {} => Within(f)
  BY <1>5 DEF KInv, Within
<1>8. Configure("set_limits", cap, f, body.strict)
  BY <1>3 DEF SetLimits
<1>9. "set_limits" \in AllOps \ {"export", "dispense", "restore"}
  BY DEF AllOps
<1> QED  BY <1>1, <1>4, <1>6, <1>7, <1>8, <1>9, ConfigureStep

LEMMA RefillStep ==
    ASSUME KInv, NEW cap \in Capabilities, NEW v \in Values, RefillBudget(cap, v)
    PROVE  KInv'
<1>1. body \in Bodies /\ body.faucet \in Faucets /\ body.strict \in Nat
  BY AuditType DEF KInv
<1>2. v \in Nat
  BY ConstantsAssumption
<1>3. PICK f : f = [body.faucet EXCEPT !.budget = v, !.cumulative = 0]
  OBVIOUS
<1>4. f \in Faucets
  BY <1>1, <1>2, <1>3 DEF Faucets
<1>5. /\ f.cumulative = 0 /\ f.budget = v
      /\ f.lifetime = body.faucet.lifetime /\ f.breaker = body.faucet.breaker
  BY <1>1, <1>3 DEF Faucets
<1>6. ~(f.lifetime < body.faucet.lifetime) /\ body.strict >= body.strict
  BY <1>1, <1>5 DEF Faucets
<1>7. restores = {} => Within(f)
  BY <1>2, <1>5 DEF KInv, Within
<1>8. Configure("refill_budget", cap, f, body.strict)
  BY <1>3 DEF RefillBudget
<1>9. "refill_budget" \in AllOps \ {"export", "dispense", "restore"}
  BY DEF AllOps
<1> QED  BY <1>1, <1>4, <1>6, <1>7, <1>8, <1>9, ConfigureStep

LEMMA RaiseStep ==
    ASSUME KInv, NEW cap \in Capabilities, NEW v \in Values, RaiseBreaker(cap, v)
    PROVE  KInv'
<1>1. body \in Bodies /\ body.faucet \in Faucets /\ body.strict \in Nat
  BY AuditType DEF KInv
<1>2. v \in Nat
  BY ConstantsAssumption
<1>3. PICK f : f = [body.faucet EXCEPT !.breaker = v]
  OBVIOUS
<1>4. f \in Faucets
  BY <1>1, <1>2, <1>3 DEF Faucets
<1>5. /\ f.cumulative = body.faucet.cumulative /\ f.budget = body.faucet.budget
      /\ f.lifetime = body.faucet.lifetime /\ f.breaker = v
  BY <1>1, <1>3 DEF Faucets
<1>6. ~(f.lifetime < body.faucet.lifetime) /\ body.strict >= body.strict
      /\ body.faucet.lifetime \in Nat
  BY <1>1, <1>5 DEF Faucets
<1>7. restores = {} => Within(f)
  <2>1. f.lifetime <= v
    BY <1>2, <1>5, <1>6 DEF RaiseBreaker
  <2> QED  BY <1>5, <2>1 DEF KInv, Within
<1>8. Configure("raise_breaker", cap, f, body.strict)
  BY <1>3 DEF RaiseBreaker
<1>9. "raise_breaker" \in AllOps \ {"export", "dispense", "restore"}
  BY DEF AllOps
<1> QED  BY <1>1, <1>4, <1>6, <1>7, <1>8, <1>9, ConfigureStep

LEMMA ResetStep ==
    ASSUME KInv, NEW cap \in Capabilities, NEW v \in Values, ResetBreaker(cap, v)
    PROVE  KInv'
<1>1. body \in Bodies /\ body.faucet \in Faucets /\ body.strict \in Nat
  BY AuditType DEF KInv
<1>2. v \in Nat
  BY ConstantsAssumption
<1>3. PICK f : f = [body.faucet EXCEPT !.lifetime = v, !.breaker = NoBreaker]
  OBVIOUS
<1>4. f \in Faucets
  BY <1>1, <1>2, <1>3 DEF Faucets
<1>5. /\ f.cumulative = body.faucet.cumulative /\ f.budget = body.faucet.budget
      /\ f.breaker = NoBreaker
  BY <1>1, <1>3 DEF Faucets
<1>6. PICK n \in Nat : n = body.strict + 1 /\ n >= body.strict
  BY <1>1
<1>7. restores = {} => Within(f)
  BY <1>5 DEF KInv, Within
<1>8. Configure("reset_breaker", cap, f, n)
  BY <1>3, <1>6 DEF ResetBreaker
<1>9. "reset_breaker" \in AllOps \ {"export", "dispense", "restore"}
  BY DEF AllOps
<1> QED  BY <1>4, <1>6, <1>7, <1>8, <1>9, ConfigureStep

\* handle_sign_faucet_dispense.
LEMMA DispenseStep ==
    ASSUME KInv, NEW d \in Dispenses, Dispense(d)
    PROVE  KInv'
<1>0. d.amount \in Nat /\ d.gas \in Nat /\ d.rate \in Nat
  BY ConstantsAssumption
<1>1. PICK w \in Nat : w = WorstCase(d)
  <2>1. d.gas * d.rate \in Nat
    BY <1>0
  <2>2. PICK m \in Nat : m = d.gas * d.rate
    BY <2>1
  <2>3. d.amount + m \in Nat
    BY <1>0
  <2> QED  BY <2>2, <2>3 DEF WorstCase
<1>2. body \in Bodies /\ BodyGood(body) /\ body.faucet \in Faucets
      /\ body.strict \in Nat /\ body.structural \in Nat
  BY AuditType DEF KInv
<1>3. PICK c \in Nat, l \in Nat : c = body.faucet.cumulative /\ l = body.faucet.lifetime
  BY <1>2 DEF Faucets
<1>4. PICK f : f = [body.faucet EXCEPT !.cumulative = c + w, !.lifetime = l + w]
  OBVIOUS
<1>5. f \in Faucets
  <2>1. c + w \in Nat /\ l + w \in Nat
    OBVIOUS
  <2> QED  BY <1>2, <1>4, <2>1 DEF Faucets
<1>6. /\ f.cumulative = c + w /\ f.lifetime = l + w
      /\ f.budget = body.faucet.budget /\ f.breaker = body.faucet.breaker
  BY <1>2, <1>4 DEF Faucets
<1>7. Within(f)
  BY <1>1, <1>3, <1>6 DEF Within, Dispense, AcceptAndDebit
<1>8. PICK b : b = [body EXCEPT !.faucet = f]
  OBVIOUS
<1>9. b \in Bodies
  BY <1>2, <1>5, <1>8 DEF Bodies
<1>10. /\ b.entries = body.entries /\ b.counters = body.counters /\ b.faucet = f
       /\ b.audit = body.audit /\ b.version = body.version /\ b.strict = body.strict
       /\ b.epoch = body.epoch /\ b.structural = body.structural
  BY <1>2, <1>8 DEF Bodies
<1>11. b = [body EXCEPT !.faucet.cumulative = @ + w, !.faucet.lifetime = @ + w]
  BY <1>2, <1>3, <1>4, <1>8 DEF Bodies, Faucets
<1>12. PICK s : s = AdvanceCommitEpoch(b, FALSE)
  OBVIOUS
<1>13. /\ s \in Bodies
       /\ s.entries = b.entries /\ s.counters = b.counters /\ s.faucet = b.faucet
       /\ s.audit = b.audit /\ s.version = b.version /\ s.strict = b.strict
       /\ s.epoch = b.epoch + 1 /\ s.structural = b.structural
  BY <1>9, <1>12, EpochAdvances
<1>14. /\ Seal("dispense", Idle, s)
       /\ UNCHANGED <<body, backups, ephemeral, published, accepted, restores>>
  <2>1. BumpsStructural("dispense") = FALSE
    BY DEF BumpsStructural
  <2> QED  BY <1>1, <1>11, <1>12, <2>1 DEF Dispense
<1>15. BodyGood(s)
  BY <1>2, <1>10, <1>13 DEF BodyGood
<1>16. NonMarksOf(s) = NonMarksOf(body)
  <2>1. [f EXCEPT !.cumulative = 0, !.lifetime = 0] =
        [body.faucet EXCEPT !.cumulative = 0, !.lifetime = 0]
    BY <1>2, <1>4 DEF Faucets
  <2> QED  BY <1>10, <1>13, <2>1 DEF NonMarksOf
<1>17. /\ ~(s.faucet.cumulative < body.faucet.cumulative)
       /\ ~(s.faucet.lifetime < body.faucet.lifetime)
  BY <1>3, <1>6, <1>10, <1>13
<1>18. \A r \in Rows : s.counters[r] >= body.counters[r]
  <2>1. \A r \in Rows : body.counters[r] \in Nat
    BY <1>2, AuditType
  <2> QED  BY <1>10, <1>13, <2>1
<1>19. CandBody("dispense", Idle, s)
  <2>1. Keeps(body.audit, s.audit.records)
    BY <1>10, <1>13 DEF Keeps
  <2> QED  BY <2>1, <1>2, <1>7, <1>10, <1>13, <1>15, <1>16, <1>17, <1>18 DEF CandBody
<1>20. ExportedIn(s.audit, backups) /\ "dispense" \in AllOps \ {"export"}
  BY <1>10, <1>13 DEF KInv, AllOps
<1> QED  BY <1>14, <1>19, <1>20, Sealed

\* handle_export_backup: the backup holds the whole ring of the candidate.
LEMMA ExportStep ==
    ASSUME KInv, NEW cap \in Capabilities, NEW refs \in SUBSET Refs, ExportBackup(cap, refs)
    PROVE  KInv'
<1>0. body \in Bodies /\ BodyGood(body)
  BY DEF KInv
<1>1. PICK r : r = RecordAudit(AdvanceCounter(body, cap), cap)
  OBVIOUS
<1>2. /\ r \in Bodies /\ BodyGood(r)
      /\ r.faucet = body.faucet /\ r.strict = body.strict
      /\ r.epoch = body.epoch /\ r.structural = body.structural
      /\ \A x \in Rows : r.counters[x] >= body.counters[x]
      /\ Keeps(body.audit, r.audit.records) /\ Holds(r.audit.records, cap)
  <2>1. /\ cap.counter = body.counters[cap.row] + 1 /\ CounterAdvances(body, cap)
        /\ ~ AuditBackpressure(body.audit)
    BY DEF ExportBackup, VerifyCapability
  <2> QED  BY <1>0, <1>1, <2>1, Tail1
<1>3. PICK h : h = AdvanceExportHighWater(r)
  OBVIOUS
<1>4. /\ h \in Bodies
      /\ h.entries = r.entries /\ h.counters = r.counters /\ h.faucet = r.faucet
      /\ h.version = r.version /\ h.strict = r.strict
      /\ h.epoch = r.epoch /\ h.structural = r.structural
      /\ RingGood(h.audit) /\ h.audit.records = r.audit.records
  BY <1>2, <1>3, HighWaterAdvanced DEF BodyGood
<1>5. PICK b : b = AdvanceCommitEpoch(h, TRUE)
  OBVIOUS
<1>6. /\ b \in Bodies
      /\ b.entries = h.entries /\ b.counters = h.counters /\ b.faucet = h.faucet
      /\ b.audit = h.audit /\ b.version = h.version /\ b.strict = h.strict
      /\ b.epoch = h.epoch + 1 /\ b.structural = h.structural + 1
  BY <1>4, <1>5, EpochAdvances
<1>7. PICK es : es = {e \in b.entries : e.ref \in refs}
  OBVIOUS
<1>8. PICK k : k = [entries |-> es, marks |-> MarksOf(b), faucet |-> b.faucet,
                    records |-> b.audit.records, version |-> b.version]
  OBVIOUS
<1>9. /\ cand' = [op |-> "export", cap |-> cap, body |-> b, backup |-> k]
      /\ UNCHANGED <<body, backups, ephemeral, published, accepted, restores>>
  <2>1. BumpsStructural("export") = TRUE
    BY DEF BumpsStructural
  <2> QED  BY <1>1, <1>3, <1>5, <1>7, <1>8, <2>1 DEF ExportBackup, ExportedRecords, SelectedKeys
<1>10. /\ b.audit \in Audits /\ b.audit.records \in Seq(Records) /\ b.faucet \in Faucets
       /\ b.audit.next_seq \in Nat /\ b.entries \in SUBSET Entries /\ b.version \in Nat
  BY <1>6, AuditType
<1>11. BodyGood(b)
  <2>1. body.structural \in Nat
    BY <1>0, AuditType
  <2> QED  BY <1>2, <1>4, <1>6, <2>1 DEF BodyGood
<1>12. /\ k.entries = es /\ k.marks = MarksOf(b) /\ k.faucet = b.faucet
       /\ k.records = b.audit.records /\ k.version = b.version
  BY <1>8
<1>13. BackupGood(k)
  <2>1. es \in SUBSET b.entries /\ es \in SUBSET Entries
    BY <1>7, <1>10
  <2>2. KeysGood(es)
    BY <1>10, <1>11, <2>1, KeysSome DEF BodyGood
  <2>3. MarksOf(b) \in Marks /\ RowsGood(k.marks.counters)
    BY <1>6, <1>11, <1>12, MarksType DEF BodyGood
  <2>4. k \in Backups
    BY <1>8, <1>10, <2>1, <2>3 DEF Backups
  <2>5. Consecutive(k.records, b.audit.next_seq)
    BY <1>11, <1>12 DEF BodyGood, RingGood
  <2> QED  BY <1>10, <1>12, <2>2, <2>3, <2>4, <2>5 DEF BackupGood
<1>14. ExportedIn(b.audit, backups \cup {k})
  <2>1. \A i \in 1 .. Len(b.audit.records) : b.audit.records[i] \in Range(k.records)
    BY <1>10, <1>12 DEF Range
  <2> QED  BY <2>1 DEF ExportedIn
<1>15. CandBody("export", cap, b)
  <2>1. body.structural \in Nat /\ body.faucet \in Faucets /\ body.strict \in Nat
    BY <1>0, AuditType
  <2>2. /\ ~(b.faucet.cumulative < body.faucet.cumulative)
        /\ ~(b.faucet.lifetime < body.faucet.lifetime)
    BY <1>2, <1>4, <1>6, <2>1 DEF Faucets
  <2>3. restores = {} => Within(b.faucet)
    BY <1>2, <1>4, <1>6 DEF KInv
  <2>4. b.structural # body.structural
    BY <1>2, <1>4, <1>6, <2>1
  <2>5. b.strict >= body.strict
    BY <1>2, <1>4, <1>6, <2>1
  <2> QED  BY <1>2, <1>4, <1>6, <1>11, <2>2, <2>3, <2>4, <2>5 DEF CandBody
<1>16. CandBody("export", cap, b)'
  BY <1>9, <1>15 DEF CandBody, NonMarksOf
<1>17. CandGood'
  <2>1. cand'.op = "export" /\ cand'.cap = cap /\ cand'.body = b /\ cand'.backup = k
    BY <1>9
  <2>2. "export" \in AllOps
    BY DEF AllOps
  <2> QED  BY <1>9, <1>12, <1>13, <1>14, <1>16, <2>1, <2>2 DEF CandGood
<1> QED  BY <1>9, <1>17, AuditStays DEF KInv

\* What the recovery authority attests was once the marks of a body.
LEMMA AttestedMarks ==
    ASSUME KInv, NEW high \in Attested
    PROVE  high \in Marks /\ RowsGood(high.counters)
<1>1. CASE high = MarksOf(body)
  BY <1>1, MarksType DEF KInv, BodyGood
<1>2. CASE \E k \in backups : high = k.marks
  BY <1>2 DEF KInv, BackupGood, Backups
<1> QED  BY <1>1, <1>2 DEF Attested

\* The counters of a restored body: no row falls, and there is room for the
\* capability's own.
LEMMA CountersRestored ==
    ASSUME NEW old \in [Rows -> Nat], NEW c \in [Rows -> Nat], RowsGood(c),
           NEW row \in Rows, NEW n \in Nat,
           \A r \in Rows : old[r] > 0 => c[r] >= old[r],
           c[row] > 0 \/ Cardinality(UsedRows(c)) < MaxRows
    PROVE  LET d == [c EXCEPT ![row] = HighOf(c[row], n)]
           IN  /\ d \in [Rows -> Nat] /\ RowsGood(d)
               /\ \A r \in Rows : d[r] >= old[r]
<1>1. PICK m \in Nat : m = HighOf(c[row], n) /\ m >= c[row]
  <2>1. c[row] \in Nat
    OBVIOUS
  <2> QED  BY <2>1 DEF HighOf
<1>2. PICK d : d = [c EXCEPT ![row] = m]
  OBVIOUS
<1>3. d \in [Rows -> Nat] /\ RowsGood(d)
  BY <1>2, RowSet
<1>4. ASSUME NEW r \in Rows  PROVE d[r] >= old[r]
  <2>1. old[r] \in Nat /\ c[r] \in Nat /\ d[r] \in Nat
    BY <1>3
  <2>2. d[r] >= c[r]
    BY <1>1, <1>2, <2>1
  <2>3. c[r] >= old[r]
    BY <2>1
  <2> QED  BY <2>1, <2>2, <2>3
<1> QED  BY <1>1, <1>2, <1>3, <1>4

\* handle_restore_backup: the state of the backup under the attested marks.
LEMMA RestoreStep ==
    ASSUME KInv, NEW cap \in Capabilities, NEW k \in backups, NEW high \in Attested,
           RestoreBackup(cap, k, high)
    PROVE  KInv'
<1>0. /\ body \in Bodies /\ BodyGood(body) /\ BackupGood(k) /\ k \in Backups
      /\ high \in Marks /\ RowsGood(high.counters)
  BY AttestedMarks DEF KInv, BackupGood
<1>1. cap.row \in Rows /\ cap.counter \in Nat
  BY ConstantsAssumption DEF Capabilities
<1>2. PICK next : next = IF k.records = << >> THEN 1 ELSE Last(k.records).seq + 1
  OBVIOUS
<1>3. PICK a : a = [records |-> k.records, last_exported |-> next - 1, next_seq |-> next]
  OBVIOUS
<1>4. a \in Audits /\ RingGood(a) /\ ExportedIn(a, backups)
  <2>1. Len(k.records) <= AuditCapacity
    BY DEF RestoreBackup
  <2> QED  BY <1>0, <1>2, <1>3, <2>1, RingRestored
<1>5. PICK f : f = [k.faucet EXCEPT !.cumulative = high.cumulative, !.lifetime = high.lifetime]
  OBVIOUS
<1>6. f \in Faucets /\ f.cumulative = high.cumulative /\ f.lifetime = high.lifetime
  BY <1>0, <1>5 DEF Backups, Faucets, Marks
<1>7. PICK n \in Nat : /\ n = HighOf(HighOf(body.strict, k.marks.strict) + 1, high.strict)
                       /\ n >= body.strict
  <2>1. body.strict \in Nat /\ k.marks.strict \in Nat /\ high.strict \in Nat
    BY <1>0, AuditType DEF Backups, Marks
  <2> QED  BY <2>1 DEF HighOf
<1>8. PICK c : c = [high.counters EXCEPT ![cap.row] = HighOf(high.counters[cap.row], cap.counter)]
  OBVIOUS
<1>9. c \in [Rows -> Nat] /\ RowsGood(c) /\ \A r \in Rows : c[r] >= body.counters[r]
  <2>1. body.counters \in [Rows -> Nat] /\ high.counters \in [Rows -> Nat]
    BY <1>0, AuditType DEF Marks
  <2>2. \A r \in Rows : body.counters[r] > 0 => high.counters[r] >= body.counters[r]
    BY <1>0, MarksType DEF RestoreBackup, Ac6, HighWaterDominates
  <2>3. high.counters[cap.row] > 0 \/ Cardinality(UsedRows(high.counters)) < MaxRows
    BY DEF RestoreBackup, UsedRows
  <2>4. PICK old \in [Rows -> Nat], h \in [Rows -> Nat], row \in Rows, m \in Nat :
           old = body.counters /\ h = high.counters /\ row = cap.row /\ m = cap.counter
    BY <1>1, <2>1
  <2>5. /\ RowsGood(h) /\ \A r \in Rows : old[r] > 0 => h[r] >= old[r]
        /\ h[row] > 0 \/ Cardinality(UsedRows(h)) < MaxRows
        /\ c = [h EXCEPT ![row] = HighOf(h[row], m)]
    BY <1>0, <1>8, <2>2, <2>3, <2>4
  <2>6. c \in [Rows -> Nat] /\ RowsGood(c) /\ \A r \in Rows : c[r] >= old[r]
    BY <2>5, CountersRestored
  <2> QED  BY <2>4, <2>6
<1>10. PICK b : b = [body EXCEPT !.entries = k.entries, !.version = k.version,
                        !.faucet = f, !.audit = a, !.strict = n, !.counters = c]
  OBVIOUS
<1>11. b = RestoredBody(body, k, high, cap)
  BY <1>2, <1>3, <1>5, <1>7, <1>8, <1>10 DEF RestoredBody
<1>12. b \in Bodies
  <2>1. k.entries \in SUBSET Entries /\ k.version \in Nat
    BY <1>0 DEF Backups
  <2> QED  BY <1>0, <1>4, <1>6, <1>9, <1>10, <2>1 DEF Bodies
<1>13. /\ b.entries = k.entries /\ b.counters = c /\ b.faucet = f
       /\ b.audit = a /\ b.strict = n
       /\ b.epoch = body.epoch /\ b.structural = body.structural
  BY <1>0, <1>10 DEF Bodies
<1>14. PICK s : s = AdvanceCommitEpoch(b, TRUE)
  OBVIOUS
<1>15. /\ s \in Bodies
       /\ s.entries = b.entries /\ s.counters = b.counters /\ s.faucet = b.faucet
       /\ s.audit = b.audit /\ s.strict = b.strict
       /\ s.epoch = b.epoch + 1 /\ s.structural = b.structural + 1
  BY <1>12, <1>14, EpochAdvances
<1>16. body.structural \in Nat /\ body.faucet \in Faucets
  BY <1>0, AuditType
<1>17. BodyGood(s)
  BY <1>0, <1>4, <1>9, <1>13, <1>15, <1>16 DEF BodyGood, BackupGood
<1>18. /\ ~(s.faucet.cumulative < body.faucet.cumulative)
       /\ ~(s.faucet.lifetime < body.faucet.lifetime)
  <2>1. /\ high.cumulative >= body.faucet.cumulative
        /\ high.lifetime >= body.faucet.lifetime
    BY <1>0, MarksType DEF RestoreBackup, Ac6, HighWaterDominates
  <2>2. /\ body.faucet.cumulative \in Nat /\ body.faucet.lifetime \in Nat
        /\ high.cumulative \in Nat /\ high.lifetime \in Nat
    BY <1>0, <1>16 DEF Faucets, Marks
  <2> QED  BY <1>6, <1>13, <1>15, <2>1, <2>2
<1>19. s.structural # body.structural
  BY <1>13, <1>15, <1>16
<1>20. CandBody("restore", cap, s)
  BY <1>7, <1>9, <1>13, <1>15, <1>17, <1>18, <1>19 DEF CandBody
<1>21. /\ Seal("restore", cap, s)
       /\ UNCHANGED <<body, backups, ephemeral, published, accepted, restores>>
  BY <1>11, <1>14 DEF RestoreBackup
<1>22. ExportedIn(s.audit, backups) /\ "restore" \in AllOps \ {"export"}
  BY <1>4, <1>13, <1>15 DEF AllOps
<1> QED  BY <1>20, <1>21, <1>22, Sealed

\* A backup that has a ring's record has it for the capability recorded.
LEMMA ExportedInBackup ==
    ASSUME KInv, NEW i \in 1 .. Len(body.audit.records),
           body.audit.records[i].seq <= body.audit.last_exported, NEW a,
           body.audit.records[i].cap = [row |-> a.row, counter |-> a.counter]
    PROVE  InBackup(a)
<1>1. PICK k \in backups : body.audit.records[i] \in Range(k.records)
  BY DEF KInv, ExportedIn
<1>2. PICK j \in DOMAIN k.records : k.records[j] = body.audit.records[i]
  BY <1>1 DEF Range
<1>3. HasRecord(k.records, a)
  BY <1>2 DEF HasRecord
<1> QED  BY <1>3 DEF InBackup

\* A commit keeps the account of the records: those of the ring stay in it, are
\* overwritten when a backup has them, leave with an export, or are dropped by a
\* restore.
LEMMA AuditCommitted ==
    ASSUME KInv, Committed
    PROVE  AuditGood'
<1>0. /\ CandGood /\ CandBody(cand.op, cand.cap, cand.body)
      /\ body \in Bodies /\ body.epoch \in Nat /\ cand.body \in Bodies
      /\ body' = cand.body /\ cand.body.epoch = body.epoch + 1
  BY AuditType DEF KInv, Committed, CandGood, CandBody
<1>1. /\ DOMAIN body.audit.records = 1 .. Len(body.audit.records)
      /\ DOMAIN cand.body.audit.records = 1 .. Len(cand.body.audit.records)
  <2>1. /\ body.audit.records \in Seq(Records)
        /\ cand.body.audit.records \in Seq(Records)
    BY <1>0, AuditType
  <2> QED  BY <2>1
<1>2. \A a : InBackup(a) => InBackup(a)'
  BY DEF InBackup, Committed
<1>3. /\ \A a \in accepted : a.at \in Nat /\ a.at < cand.body.epoch
      /\ \A r \in restores : r.at \in Nat /\ r.at < cand.body.epoch
  BY <1>0 DEF KInv
<1>4. /\ \A x \in accepted' \ accepted : x.at = cand.body.epoch /\ x.op = cand.op
      /\ \A r \in restores' \ restores : r.at = cand.body.epoch /\ cand.op = "restore"
      /\ restores \subseteq restores' /\ accepted \subseteq accepted'
  BY DEF Committed
<1>5. ASSUME cand.op = "export", NEW a, HasRecord(cand.body.audit.records, a)
      PROVE  InBackup(a)'
  <2>1. cand.backup \in backups' /\ cand.backup.records = cand.body.audit.records
    BY <1>0, <1>5 DEF Committed, CandGood
  <2>2. HasRecord(cand.backup.records, a)
    BY <1>5, <2>1
  <2>3. \E b \in backups' : HasRecord(b.records, a)
    BY <2>1, <2>2
  <2> QED  BY <2>3 DEF InBackup
<1>6. ASSUME NEW a \in accepted, DroppedByRestore(a)  PROVE DroppedByRestore(a)'
  <2>1. PICK r \in restores :
           /\ a.at < r.at
           /\ \A x \in accepted : x.op = "export" => x.at < a.at \/ x.at >= r.at
    BY <1>6 DEF DroppedByRestore
  <2>2. \A x \in accepted' \ accepted : x.at >= r.at
    BY <1>0, <1>3, <1>4
  <2>3. r \in restores' /\ \A x \in accepted' : x.op = "export" => x.at < a.at \/ x.at >= r.at
    BY <1>4, <2>1, <2>2
  <2> QED  BY <2>1, <2>3 DEF DroppedByRestore
<1>7. ASSUME NEW a \in accepted, HasRecord(body.audit.records, a), Fresh(a)
      PROVE  Kept(a)'
  <2>1. CASE cand.op = "restore"
    <3>0. PICK r : r = [key |-> ephemeral, at |-> cand.body.epoch]
      OBVIOUS
    <3>1. r \in restores' /\ r.at = cand.body.epoch
      BY <2>1, <3>0 DEF Committed
    <3>2. \A x \in accepted' : x.op = "export" => x \in accepted
      BY <1>4, <2>1
    <3>3. \A x \in accepted' : x.op = "export" => x.at < a.at \/ x.at >= r.at
      BY <1>7, <3>2 DEF Fresh
    <3>4. a.at < r.at
      BY <1>3, <3>1
    <3>5. DroppedByRestore(a)'
      BY <3>1, <3>3, <3>4 DEF DroppedByRestore
    <3> QED  BY <3>5 DEF Kept
  <2>2. CASE cand.op # "restore"
    <3>1. PICK i \in 1 .. Len(body.audit.records) :
             body.audit.records[i].cap = [row |-> a.row, counter |-> a.counter]
      BY <1>1, <1>7 DEF HasRecord
    <3>2. CASE body.audit.records[i].seq <= body.audit.last_exported
      <4>1. InBackup(a)
        BY <3>1, <3>2, ExportedInBackup
      <4> QED  BY <1>2, <4>1 DEF Kept
    <3>3. CASE ~(body.audit.records[i].seq <= body.audit.last_exported)
      <4>1. PICK j \in 1 .. Len(cand.body.audit.records) :
               cand.body.audit.records[j] = body.audit.records[i]
        BY <1>0, <2>2, <3>3 DEF CandBody, Keeps
      <4>2. HasRecord(cand.body.audit.records, a)
        BY <1>1, <3>1, <4>1 DEF HasRecord
      <4>3. CASE cand.op = "export"
        BY <1>5, <4>2, <4>3 DEF Kept
      <4>4. CASE cand.op # "export"
        <5>1. \A x \in accepted' : x.op = "export" => x \in accepted
          BY <1>4, <4>4
        <5>2. \A r \in restores' : r \in restores
          BY <1>4, <2>2
        <5>3. Fresh(a)'
          BY <1>7, <5>1, <5>2 DEF Fresh
        <5>4. HasRecord(body.audit.records, a)'
          BY <1>0, <4>2
        <5> QED  BY <5>3, <5>4 DEF Kept
      <4> QED  BY <4>3, <4>4
    <3> QED  BY <3>2, <3>3
  <2> QED  BY <2>1, <2>2
<1>8. ASSUME NEW a \in accepted' \ accepted, a.op # "restore"  PROVE Kept(a)'
  <2>1. /\ cand.cap # Idle /\ a.op = cand.op /\ a.at = cand.body.epoch
        /\ a.row = cand.cap.row /\ a.counter = cand.cap.counter
    BY <1>8 DEF Committed
  <2>2. cand.cap = [row |-> a.row, counter |-> a.counter]
    BY <1>0, <2>1 DEF CandGood, Capabilities
  <2>3. Holds(cand.body.audit.records, cand.cap)
    BY <1>0, <1>8, <2>1 DEF CandBody
  <2>4. HasRecord(cand.body.audit.records, a)
    BY <1>1, <2>2, <2>3 DEF Holds, HasRecord
  <2>5. CASE cand.op = "export"
    BY <1>5, <2>4, <2>5 DEF Kept
  <2>6. CASE cand.op # "export"
    <3>1. \A x \in accepted' : x.op = "export" => x \in accepted
      BY <1>4, <2>6
    <3>2. \A r \in restores' : r \in restores
      BY <1>4, <1>8, <2>1
    <3>3. Fresh(a)'
      BY <1>3, <2>1, <3>1, <3>2 DEF Fresh
    <3>4. HasRecord(body.audit.records, a)'
      BY <1>0, <2>4
    <3> QED  BY <3>3, <3>4 DEF Kept
  <2> QED  BY <2>5, <2>6
<1>9. ASSUME NEW a \in accepted, a.op # "restore"  PROVE Kept(a)'
  <2>1. Kept(a)
    BY <1>9 DEF KInv, AuditGood
  <2>2. CASE InBackup(a)
    BY <1>2, <2>2 DEF Kept
  <2>3. CASE DroppedByRestore(a)
    BY <1>6, <2>3 DEF Kept
  <2>4. CASE HasRecord(body.audit.records, a) /\ Fresh(a)
    BY <1>7, <2>4
  <2> QED  BY <2>1, <2>2, <2>3, <2>4 DEF Kept
<1> QED  BY <1>8, <1>9 DEF AuditGood

\* The commit installs the candidate.
LEMMA CommittedStep ==
    ASSUME KInv, Committed
    PROVE  KInv'
<1>0. /\ CandGood /\ CandBody(cand.op, cand.cap, cand.body)
      /\ body \in Bodies /\ body.epoch \in Nat
  BY AuditType DEF KInv, Committed, CandGood
<1>1. /\ body' = cand.body /\ cand.body \in Bodies /\ BodyGood(cand.body)
      /\ cand.body.epoch = body.epoch + 1
  BY <1>0 DEF CandBody, Committed
<1>2. \A k \in backups' : BackupGood(k)
  BY <1>0 DEF CandGood, KInv, Committed
<1>3. ExportedIn(cand.body.audit, backups')
  BY <1>0 DEF CandGood, Committed
<1>4. \A a \in accepted' : a.at \in Nat /\ a.at <= cand.body.epoch
  <2>1. \A a \in accepted : a.at \in Nat /\ a.at <= body.epoch
    BY DEF KInv
  <2>2. \A a \in accepted : a.at \in Nat /\ a.at <= body.epoch + 1
    BY <1>0, <2>1
  <2>3. \A a \in accepted' \ accepted : a.at = cand.body.epoch
    BY DEF Committed
  <2> QED  BY <1>0, <1>1, <2>2, <2>3
<1>5. restores' = {} => Within(cand.body.faucet)
  <2>1. restores' = {} => restores = {} /\ cand.op # "restore"
    BY DEF Committed
  <2> QED  BY <1>0, <2>1 DEF CandBody
<1>6. cand' = Idle
  BY DEF Committed
<1>9. \A r \in restores' : r.at \in Nat /\ r.at <= cand.body.epoch
  <2>1. \A r \in restores : r.at \in Nat /\ r.at <= body.epoch + 1
    BY <1>0 DEF KInv
  <2>2. \A r \in restores' \ restores : r.at = cand.body.epoch
    BY DEF Committed
  <2> QED  BY <1>0, <1>1, <2>1, <2>2
<1>10. AuditGood'
  BY AuditCommitted
<1>7. (body \in Bodies /\ BodyGood(body))'
  BY <1>1 DEF BodyGood
<1>8. (\A k \in backups : BackupGood(k))'
  BY <1>2
<1> QED  BY <1>1, <1>3, <1>4, <1>5, <1>6, <1>7, <1>8, <1>9, <1>10 DEF KInv

\* What neither builds nor installs a candidate.
LEMMA OtherStep ==
    ASSUME KInv, GetRestorePubkey \/ NotCommitted \/ Restart \/ UNCHANGED vars
    PROVE  KInv'
<1>1. /\ body' = body /\ backups' = backups /\ accepted' = accepted /\ restores' = restores
      /\ cand' = cand \/ cand' = Idle
  BY DEF GetRestorePubkey, NotCommitted, Restart, vars
<1>0. AuditGood'
  BY <1>1, AuditStays DEF KInv
<1>2. CASE cand' = cand
  <2>1. CandGood => CandGood'
    BY <1>1, <1>2 DEF CandGood, CandBody, NonMarksOf
  <2> QED  BY <1>0, <1>1, <1>2, <2>1 DEF KInv
<1>3. CASE cand' = Idle
  BY <1>0, <1>1, <1>3 DEF KInv
<1> QED  BY <1>1, <1>2, <1>3

LEMMA KeystoreInit == Init => KInv
<1> SUFFICES ASSUME Init  PROVE KInv
  OBVIOUS
<1>1. PICK c : c = [r \in Rows |-> 0]
  OBVIOUS
<1>2. c \in [Rows -> Nat] /\ RowsGood(c)
  <2>1. UsedRows(c) = {}
    BY <1>1 DEF UsedRows
  <2>2. Cardinality(UsedRows(c)) = 0
    BY <2>1, FS_EmptySet
  <2> QED  BY <1>1, <2>2, ConstantsAssumption DEF RowsGood
<1>3. PICK f : f = [perMax |-> 0, maxGas |-> 0, maxRate |-> 0, budget |-> 0,
                    cumulative |-> 0, lifetime |-> 0, breaker |-> NoBreaker]
  OBVIOUS
<1>4. f \in Faucets /\ Within(f)
  BY <1>3 DEF Faucets, Within
<1>5. PICK a : a = [records |-> << >>, last_exported |-> 0, next_seq |-> 1]
  OBVIOUS
<1>6. a \in Audits
  <2>1. << >> \in Seq(Records)
    OBVIOUS
  <2> QED  BY <1>5, <2>1 DEF Audits
<1>7. RingGood(a) /\ ExportedIn(a, {})
  <2>1. a.records = << >> /\ a.last_exported = 0 /\ a.next_seq = 1 /\ Len(a.records) = 0
    BY <1>5
  <2>2. \A i \in 1 .. Len(a.records) : FALSE
    BY <2>1
  <2> QED  BY <2>1, <2>2, ConstantsAssumption DEF RingGood, Consecutive, ExportedIn
<1>8. /\ body = [entries |-> {}, counters |-> c, faucet |-> f, audit |-> a, version |-> 1,
                 strict |-> 0, epoch |-> 1, structural |-> 1]
      /\ cand = Idle /\ backups = {} /\ accepted = {} /\ restores = {}
  BY <1>1, <1>3, <1>5 DEF Init, Genesis
<1>9. body \in Bodies
  BY <1>2, <1>4, <1>6, <1>8 DEF Bodies
<1>10. KeysGood({})
  BY FS_EmptySet, ConstantsAssumption DEF KeysGood
<1>11. BodyGood(body)
  BY <1>2, <1>7, <1>8, <1>10 DEF BodyGood
<1> QED  BY <1>4, <1>7, <1>8, <1>9, <1>11 DEF KInv, AuditGood

LEMMA KeystoreStep == KInv /\ [Next]_vars => KInv'
<1> SUFFICES ASSUME KInv, [Next]_vars  PROVE KInv'
  OBVIOUS
<1>1. ASSUME NEW cap \in Capabilities, NEW p \in Purposes, NEW refs \in SUBSET Refs,
             GenerateKeys(cap, p, refs)
      PROVE  KInv'
  BY <1>1, GenerateStep
<1>2. ASSUME NEW cap \in Capabilities, NEW l \in Limits, SetLimits(cap, l)  PROVE KInv'
  BY <1>2, SetLimitsStep
<1>3. ASSUME NEW cap \in Capabilities, NEW v \in Values, RefillBudget(cap, v)  PROVE KInv'
  BY <1>3, RefillStep
<1>4. ASSUME NEW cap \in Capabilities, NEW v \in Values, RaiseBreaker(cap, v)  PROVE KInv'
  BY <1>4, RaiseStep
<1>5. ASSUME NEW cap \in Capabilities, NEW v \in Values, ResetBreaker(cap, v)  PROVE KInv'
  BY <1>5, ResetStep
<1>6. ASSUME NEW cap \in Capabilities, NEW refs \in SUBSET Refs, ExportBackup(cap, refs)
      PROVE  KInv'
  BY <1>6, ExportStep
<1>7. ASSUME NEW cap \in Capabilities, NEW k \in backups, NEW high \in Attested,
             RestoreBackup(cap, k, high)
      PROVE  KInv'
  BY <1>7, RestoreStep
<1>8. ASSUME NEW d \in Dispenses, Dispense(d)  PROVE KInv'
  BY <1>8, DispenseStep
<1>9. CASE Committed
  BY <1>9, CommittedStep
<1>10. CASE GetRestorePubkey \/ NotCommitted \/ Restart \/ UNCHANGED vars
  BY <1>10, OtherStep
<1> QED  BY <1>1, <1>2, <1>3, <1>4, <1>5, <1>6, <1>7, <1>8, <1>9, <1>10 DEF Next

\* The inductive invariant: the installed body and the candidate are well
\* formed, and the candidate differs from the body as its operation allows.
THEOREM KeystoreInv == Spec => []KInv
  BY KeystoreInit, KeystoreStep, PTL DEF Spec

-----------------------------------------------------------------------------
(* What follows *)

\* However requests, restores and failed commits follow each other, before the
\* first restore the treasury's spend is within its budget and its breaker
\* (accept_and_debit with handle_configure_treasury).
THEOREM SpendHolds == Spec => []SpendWithinLimits
<1>1. KInv => SpendWithinLimits
  BY DEF KInv, SpendWithinLimits, Within
<1> QED  BY <1>1, KeystoreInv, PTL

\* A well-formed body passes validate.
LEMMA GoodSeals ==
    ASSUME NEW b \in Bodies, BodyGood(b)
    PROVE  Validate(b)
<1>1. PICK rs \in Seq(Records), l \in Nat, n \in Nat :
         rs = b.audit.records /\ l = Len(rs) /\ n = b.audit.next_seq
  BY AuditType
<1>2. DOMAIN rs = 1 .. l
  BY <1>1
<1>3. \A i \in 1 .. l : rs[i].seq = n - 1 - l + i
  BY <1>1 DEF BodyGood, RingGood, Consecutive
<1>4. \A i, j \in 1 .. l : i < j => rs[i].seq < rs[j].seq
  <2>1. \A i, j \in 1 .. l : i < j => n - 1 - l + i < n - 1 - l + j
    OBVIOUS
  <2> QED  BY <1>3, <2>1
<1>5. \A i \in 1 .. l : rs[i].seq < n
  <2>1. \A i \in 1 .. l : n - 1 - l + i < n
    OBVIOUS
  <2> QED  BY <1>3, <2>1
<1>6. /\ b.structural # 0 /\ Cardinality(b.entries) <= MaxKeys
      /\ \A e, f \in b.entries : e.ref = f.ref => e = f
  BY DEF BodyGood, KeysGood
<1>7. RowsUsed(b) <= MaxRows
  BY DEF BodyGood, RowsGood, UsedRows, RowsUsed
<1>8. Len(rs) <= AuditCapacity /\ b.audit.last_exported < n
  BY <1>1 DEF BodyGood, RingGood
<1> QED  BY <1>1, <1>2, <1>4, <1>5, <1>6, <1>7, <1>8 DEF Validate

LEMMA BlobSizeType ==
    ASSUME NEW b \in Bodies, BodyGood(b)
    PROVE  BlobSize(b) \in Nat
<1>1. PICK k \in Nat, r \in Nat, l \in Nat :
         k = Cardinality(b.entries) /\ r = RowsUsed(b) /\ l = Len(b.audit.records)
  <2>1. Cardinality(b.entries) \in Nat
    BY FS_CardinalityType DEF BodyGood, KeysGood
  <2>2. RowsUsed(b) \in Nat
    BY RowsFinite, FS_Subset, FS_CardinalityType DEF RowsUsed
  <2> QED  BY <2>1, <2>2, AuditType
<1>2. PICK x \in Nat, y \in Nat, z \in Nat :
         x = KeySize /\ y = RowSize /\ z = RecordSize
  BY ConstantsAssumption
<1>3. x * k \in Nat /\ y * r \in Nat /\ z * l \in Nat
  OBVIOUS
<1>4. PICK u \in Nat, v \in Nat, w \in Nat : u = x * k /\ v = y * r /\ w = z * l
  BY <1>3
<1>5. u + v + w \in Nat
  OBVIOUS
<1> QED  BY <1>1, <1>2, <1>4, <1>5 DEF BlobSize

\* An accepted request fails at the seal for one reason only, the size of the
\* blob: validate refuses no candidate a handler built, whatever was exported,
\* restored or generated before (seal_body).
THEOREM RefusedForSize ==
    Spec => [](cand # Idle /\ ~ SealBody(cand.body) => BlobSize(cand.body) > MaxBlob)
<1>1. KInv => (cand # Idle /\ ~ SealBody(cand.body) => BlobSize(cand.body) > MaxBlob)
  <2> SUFFICES ASSUME KInv, cand # Idle, ~ SealBody(cand.body)
               PROVE  BlobSize(cand.body) > MaxBlob
    OBVIOUS
  <2>1. cand.body \in Bodies /\ BodyGood(cand.body)
    BY DEF KInv, CandGood, CandBody
  <2>2. ~(BlobSize(cand.body) <= MaxBlob)
    BY <2>1, GoodSeals DEF SealBody
  <2>3. BlobSize(cand.body) \in Nat
    BY <2>1, BlobSizeType
  <2> QED  BY <2>2, <2>3, ConstantsAssumption
<1> QED  BY <1>1, KeystoreInv, PTL

\* Of every committed operation an authority signed, restores excepted, the
\* record is in the ring or in a backup, or was made after the last export
\* before a restore and dropped by it (record_audit's backpressure and
\* overwrite, advance_export_high_water, apply_restore_to_body).
THEOREM AuditHolds == Spec => []AuditKept
<1>1. KInv => AuditKept
  BY DEF KInv, AuditGood, Kept, AuditKept
<1> QED  BY <1>1, KeystoreInv, PTL

\* Only a commit changes the installed body.
LEMMA BodyMoves ==
    ASSUME [Next]_vars
    PROVE  Committed \/ UNCHANGED body
<1>1. ASSUME NEW cap \in Capabilities, NEW p \in Purposes, NEW refs \in SUBSET Refs,
             GenerateKeys(cap, p, refs)
      PROVE  UNCHANGED body
  BY <1>1 DEF GenerateKeys, Privileged
<1>2. ASSUME NEW cap \in Capabilities, NEW l \in Limits, SetLimits(cap, l)
      PROVE  UNCHANGED body
  BY <1>2 DEF SetLimits, Configure, Privileged
<1>3. ASSUME NEW cap \in Capabilities, NEW v \in Values,
             RefillBudget(cap, v) \/ RaiseBreaker(cap, v) \/ ResetBreaker(cap, v)
      PROVE  UNCHANGED body
  BY <1>3 DEF RefillBudget, RaiseBreaker, ResetBreaker, Configure, Privileged
<1>4. ASSUME NEW cap \in Capabilities, NEW refs \in SUBSET Refs, ExportBackup(cap, refs)
      PROVE  UNCHANGED body
  BY <1>4 DEF ExportBackup
<1>5. ASSUME NEW cap \in Capabilities, NEW k \in backups, NEW high \in Attested,
             RestoreBackup(cap, k, high)
      PROVE  UNCHANGED body
  BY <1>5 DEF RestoreBackup
<1>6. ASSUME NEW d \in Dispenses, Dispense(d)  PROVE UNCHANGED body
  BY <1>6 DEF Dispense
<1>7. GetRestorePubkey \/ NotCommitted \/ Restart \/ UNCHANGED vars => UNCHANGED body
  BY DEF GetRestorePubkey, NotCommitted, Restart, vars
<1> QED  BY <1>1, <1>2, <1>3, <1>4, <1>5, <1>6, <1>7 DEF Next

\* An operation that leaves the structural version alone changes nothing but
\* marks (CommitBumpClass), so the anchor's marks rebuild the body at boot.
THEOREM EpochOnlyHolds == Spec => EpochOnlyTouchesMarks
<1>1. KInv /\ [Next]_vars =>
         [body'.structural = body.structural => NonMarksOf(body') = NonMarksOf(body)]_vars
  <2> SUFFICES ASSUME KInv, [Next]_vars, body'.structural = body.structural
               PROVE  NonMarksOf(body') = NonMarksOf(body)
    OBVIOUS
  <2>1. CASE Committed
    BY <2>1 DEF Committed, KInv, CandGood, CandBody
  <2>2. CASE UNCHANGED body
    BY <2>2
  <2> QED  BY <2>1, <2>2, BodyMoves
<1> QED  BY <1>1, KeystoreInv, PTL DEF Spec, EpochOnlyTouchesMarks

\* The marks move forward: no step lowers a counter, and the spend falls only on
\* a capability, the lifetime spend only on the recovery authority's, neither on
\* a restore (verify_ac6_high_water with adopt_ac6_high_water).
THEOREM MarksHold == Spec => MarksMoveForward
<1> DEFINE Forward ==
        /\ \A r \in Rows : body'.counters[r] >= body.counters[r]
        /\ body'.strict >= body.strict
        /\ body'.faucet.cumulative < body.faucet.cumulative =>
               accepted' # accepted /\ restores' = restores
        /\ body'.faucet.lifetime < body.faucet.lifetime =>
               /\ \E a \in accepted' \ accepted : a.row.authority = "recovery"
               /\ restores' = restores
<1>1. KInv /\ [Next]_vars => Forward
  <2> SUFFICES ASSUME KInv, [Next]_vars  PROVE Forward
    OBVIOUS
  <2>0. /\ body \in Bodies /\ body.faucet \in Faucets /\ body.counters \in [Rows -> Nat]
        /\ body.strict \in Nat /\ body.epoch \in Nat
    BY AuditType DEF KInv
  <2>1. CASE Committed
    <3>1. CandBody(cand.op, cand.cap, cand.body) /\ body' = cand.body
      BY <2>1 DEF Committed, KInv, CandGood
    <3>2. ASSUME cand.cap # Idle
          PROVE  \E a \in accepted' \ accepted : a.row = cand.cap.row
      <4>1. PICK a : a = [op |-> cand.op, row |-> cand.cap.row, counter |-> cand.cap.counter,
                          at |-> cand.body.epoch]
        OBVIOUS
      <4>2. a.row = cand.cap.row /\ a.at = body.epoch + 1
        BY <3>1, <4>1 DEF CandBody
      <4>3. a \in accepted'
        BY <2>1, <3>2, <4>1 DEF Committed
      <4>4. a \notin accepted
        BY <2>0, <4>2 DEF KInv
      <4> QED  BY <4>2, <4>3, <4>4
    <3>3. cand.op # "restore" => restores' = restores
      BY <2>1 DEF Committed
    <3>4. /\ \A r \in Rows : body'.counters[r] >= body.counters[r]
          /\ body'.strict >= body.strict
      BY <3>1 DEF CandBody
    <3>5. body'.faucet.cumulative < body.faucet.cumulative =>
             cand.cap # Idle /\ cand.op # "restore"
      BY <3>1 DEF CandBody
    <3>6. body'.faucet.lifetime < body.faucet.lifetime =>
             cand.cap # Idle /\ cand.cap.row.authority = "recovery" /\ cand.op # "restore"
      BY <3>1 DEF CandBody
    <3> QED  BY <3>2, <3>3, <3>4, <3>5, <3>6
  <2>2. CASE UNCHANGED body
    <3>1. body.faucet.cumulative \in Nat /\ body.faucet.lifetime \in Nat
      BY <2>0 DEF Faucets
    <3> QED  BY <2>0, <2>2, <3>1
  <2> QED  BY <2>1, <2>2, BodyMoves
<1>2. KInv /\ [Next]_vars => [Forward]_vars
  BY <1>1
<1> QED  BY <1>2, KeystoreInv, PTL DEF Spec, MarksMoveForward

=============================================================================
