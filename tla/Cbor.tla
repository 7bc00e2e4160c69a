-------------------------------- MODULE Cbor --------------------------------
(***************************************************************************)
(* The canonical CBOR of the agent gateway: the strict reader of           *)
(* agent_cbor.rs and what is read with it: the marks payload               *)
(* (agent_keystore.rs), the anchor's three replies (agent_anchor.rs) and   *)
(* the capability (agent_capability.rs).  A byte is a number below 256.    *)
(* Digests and signatures have scaled lengths; every other limit is a      *)
(* constant with the source's name.                                        *)
(***************************************************************************)
EXTENDS ByteStrings

CONSTANTS
    SIG_LEN,            \* 64
    MAX_CBOR_DEPTH,     \* nesting the strict reader accepts
    MAX_ENTRIES,        \* MAX_MAP_ENTRIES, MAX_ARRAY_ENTRIES
    MAX_STR_LEN,        \* longest byte or text string
    MAX_REQUEST_ID_LEN,
    MAX_COUNTER_ENTRIES \* rows of a marks payload

ASSUME CborAssumption ==
    /\ DIGEST_LEN \in 0 .. MAX_STR_LEN /\ SIG_LEN \in 0 .. MAX_STR_LEN
    /\ MAX_CBOR_DEPTH \in Nat /\ MAX_ENTRIES \in Nat /\ MAX_STR_LEN \in Nat
    /\ MAX_REQUEST_ID_LEN \in Nat /\ MAX_COUNTER_ENTRIES \in Nat

-----------------------------------------------------------------------------
(* The encoder of values *)

\* Values of the reader: t is "uint", "nint", "bytes", "text", "bool", "array" or
\* "map"; a map holds its pairs in wire order.  The value of a document's field is none
\* of the last two.
put_value(x) ==
    CASE x.t = "uint" -> put_uint(0, x.v)
      [] x.t = "nint" -> put_uint(1, x.v)
      [] x.t = "bytes" -> put_bytes(x.v)
      [] x.t = "text" -> put_text(x.v)
      [] x.t = "bool" -> <<IF x.v THEN 245 ELSE 244>>

-----------------------------------------------------------------------------
(* StrictParser.  A reader of a buffer maps the position it starts at to a  *)
(* result, which has a value and the position of the next byte.             *)

\* The strict reader and its cap on strings (max_bstr).
Strict(max_bstr) == [strict |-> TRUE, max_bstr |-> max_bstr]

\* ciborium's own reader, which asks neither for the shortest form nor for an order
\* of keys (indefinite lengths, tags and floats are left out).
Lenient(max_bstr) == [strict |-> FALSE, max_bstr |-> max_bstr]

Err == [ok |-> FALSE, pos |-> 0, val |-> [t |-> "none"]]

Ok(pos, val) == [ok |-> TRUE, pos |-> pos, val |-> val]

Positions(buf) == 1 .. Len(buf) + 1

Remaining(buf, pos) == Len(buf) + 1 - pos

ArgWidth(minor) == <<1, 2, 4, 8>>[minor - 23]

\* The argument is above all that a narrower one can say.
Shortest(w, v) ==
    CASE w = 1 -> v >= 24
      [] w = 2 -> v >= 256
      [] w = 4 -> v >= RADIX
      [] w = 8 -> v \notin u32

head(buf, mode) == [pos \in Positions(buf) |->
    IF Remaining(buf, pos) = 0 THEN Err
    ELSE LET major == buf[pos] \div 32
             minor == buf[pos] % 32
             w == ArgWidth(minor)
             v == BeVal(SubSeq(buf, pos + 1, pos + w))
         IN  CASE minor < 24 -> Ok(pos + 1, [major |-> major, arg |-> minor])
               [] minor > 27 -> Err
               [] OTHER -> IF w < Remaining(buf, pos) /\ (mode.strict => Shortest(w, v))
                           THEN Ok(pos + 1 + w, [major |-> major, arg |-> v])
                           ELSE Err]

take(buf, pos, n, t) ==
    IF n <= Remaining(buf, pos)
    THEN Ok(pos + n, [t |-> t, v |-> SubSeq(buf, pos, pos + n - 1)])
    ELSE Err

\* core::str::from_utf8, for byte sets without a valid lead byte above ASCII.
Utf8(b) == \A i \in DOMAIN b : b[i] < 128

\* Mutant: keys need not ascend.
BugKeyFollows(key, last) == TRUE

KeyFollows(key, last) == LexLess(last, key)

\* An item after those read, with the place it was found at.
AddItem(r, x) ==
    IF r.ok /\ x.ok
    THEN Ok(x.pos, Append(r.val, [from |-> r.pos, to |-> x.pos - 1, val |-> x.val]))
    ELSE Err

NextItem(below, r) == AddItem(r, below[r.pos])

\* The next n items, read by `below`.
Items(below, pos) ==
    LET read[n \in 0 .. 2 * MAX_ENTRIES] ==
          IF n = 0 THEN Ok(pos, << >>) ELSE NextItem(below, read[n - 1])
    IN  read

ArrayOf(r) ==
    IF r.ok THEN Ok(r.pos, [t |-> "array", v |-> [i \in DOMAIN r.val |-> r.val[i].val]]) ELSE Err

\* The keys of a map are every other item, and ascend.
MapOf(buf, r, mode) ==
    LET KeyBytes(i) == SubSeq(buf, r.val[2 * i - 1].from, r.val[2 * i - 1].to)
        n == Len(r.val) \div 2
    IN  IF r.ok /\ (mode.strict => \A i \in 2 .. n : KeyFollows(KeyBytes(i), KeyBytes(i - 1)))
        THEN Ok(r.pos, [t |-> "map", v |-> [i \in 1 .. n |-> <<r.val[2 * i - 1].val, r.val[2 * i].val>>]])
        ELSE Err

TextOnly(str) == IF str.ok /\ Utf8(str.val.v) THEN str ELSE Err

\* What a head begins; `below` reads the items inside it.
AfterHead(buf, mode, below, h, n) ==
    CASE ~ h.ok -> Err
      [] h.ok /\ h.val.major = 0 -> Ok(h.pos, [t |-> "uint", v |-> n])
      [] h.ok /\ h.val.major = 1 -> Ok(h.pos, [t |-> "nint", v |-> n])
      [] h.ok /\ h.val.major = 2 /\ n <= mode.max_bstr -> take(buf, h.pos, n, "bytes")
      [] h.ok /\ h.val.major = 3 /\ n <= mode.max_bstr -> TextOnly(take(buf, h.pos, n, "text"))
      [] h.ok /\ h.val.major = 4 /\ n <= MAX_ENTRIES /\ n <= Remaining(buf, h.pos) ->
            ArrayOf(Items(below, h.pos)[n])
      [] h.ok /\ h.val.major = 5 /\ n <= MAX_ENTRIES /\ 2 * n <= Remaining(buf, h.pos) ->
            MapOf(buf, Items(below, h.pos)[2 * n], mode)
      [] h.ok /\ h.val.major = 7 /\ n \in {20, 21} -> Ok(h.pos, [t |-> "bool", v |-> n = 21])
      [] OTHER -> Err

Level(buf, mode, below) == [pos \in Positions(buf) |->
    LET Read(h) == AfterHead(buf, mode, below, h, h.val.arg) IN Read(head(buf, mode)[pos])]

\* The code counts the levels an item is under, here they are those left for it.
item(buf, mode) ==
    LET at[levels \in 0 .. MAX_CBOR_DEPTH] ==
          IF levels = 0 THEN [pos \in Positions(buf) |-> Err]
          ELSE Level(buf, mode, at[levels - 1])
    IN  at[MAX_CBOR_DEPTH]

\* Every decoder refuses trailing bytes.
Whole(buf, r) == r.ok /\ r.pos = Len(buf) + 1

WholeOnly(buf, r) == IF Whole(buf, r) THEN r ELSE Err

DecodeMap(buf, mode) ==
    LET MapOnly(r) == IF r.val.t = "map" THEN WholeOnly(buf, r) ELSE Err
    IN  MapOnly(item(buf, mode)[1])

strict_decode_map_capped(buf, max_bstr) == DecodeMap(buf, Strict(max_bstr))

strict_decode_map(buf) == strict_decode_map_capped(buf, MAX_STR_LEN)

-----------------------------------------------------------------------------
(* The marks payload *)

\* Rows are [authority, scope_class, scope_target, counter], authority and
\* scope_target byte strings.
RowLess(r, s) ==
    \/ LexLess(r.authority, s.authority)
    \/ r.authority = s.authority /\ r.scope_class < s.scope_class
    \/ /\ r.authority = s.authority /\ r.scope_class = s.scope_class
       /\ LexLess(r.scope_target, s.scope_target)

EncodeRow(r) ==
    put_uint(4, 4) \o put_bytes(r.authority) \o put_uint(0, r.scope_class)
      \o put_bytes(r.scope_target) \o put_uint(0, r.counter)

\* The rows in ascending order, rows of one key as they were (sort_by is stable).
sort_by(rows) ==
    LET Before(i, j) == RowLess(rows[i], rows[j]) \/ (~ RowLess(rows[j], rows[i]) /\ i < j)
        at == CHOOSE at \in [DOMAIN rows -> DOMAIN rows] :
                 \A i, j \in DOMAIN rows : i < j => Before(at[i], at[j])
    IN  [i \in DOMAIN rows |-> rows[at[i]]]

\* m is [rows, cumulative, lifetime, recovery]; rows in arrival order.
encode_marks_payload(m) ==
    LET rows == sort_by(m.rows)
    IN  put_uint(5, 4)
          \o put_uint(0, 1) \o put_uint(4, Len(rows))
          \o FlattenSeq([i \in DOMAIN rows |-> EncodeRow(rows[i])])
          \o put_uint(0, 2) \o put_bytes(m.cumulative)
          \o put_uint(0, 3) \o put_bytes(m.lifetime)
          \o put_uint(0, 4) \o put_uint(0, m.recovery)

\* 38 with 32-byte authorities.
MIN_ROW_BYTES == 1 + Len(put_uint(2, DIGEST_LEN)) + DIGEST_LEN + 3

\* typed_head with uint, bstr, bstr_exact and text: an item of type `t` whose
\* argument (a value, a string's length, a count of entries) is one of `args`.
Major == [uint |-> 0, bytes |-> 2, text |-> 3, array |-> 4, map |-> 5]

AfterTyped(buf, t, args, h, n) ==
    CASE ~ h.ok \/ h.val.major # Major[t] \/ n \notin args -> Err
      [] OTHER ->
            CASE t \in {"uint", "array", "map"} -> Ok(h.pos, [t |-> t, v |-> n])
              [] t = "bytes" -> take(buf, h.pos, n, t)
              [] t = "text" -> TextOnly(take(buf, h.pos, n, t))

typed(buf, t, args) == [pos \in Positions(buf) |->
    LET Read(h) == AfterTyped(buf, t, args, h, h.val.arg)
    IN  Read(head(buf, Strict(MAX_STR_LEN))[pos])]

\* The positional decoders read a fixed list of items, each <<name, t, args>>: the
\* result has a field for each item with a name, <<field>>, and none for << >>.
AddField(r, x, name) ==
    IF r.ok /\ x.ok
    THEN Ok(x.pos, [f \in DOMAIN r.val \cup ToSet(name) |-> IF f \in ToSet(name) THEN x.val ELSE r.val[f]])
    ELSE Err

NextField(buf, r, it) == AddField(r, typed(buf, it[2], it[3])[r.pos], it[1])

typed_list(buf, list) == [pos \in Positions(buf) |->
    LET read[n \in 0 .. Len(list)] ==
          IF n = 0 THEN Ok(pos, << >>) ELSE NextField(buf, read[n - 1], list[n])
    IN  read[Len(list)]]

Key(k) == <<<< >>, "uint", {k}>>

Uint(field) == <<<<field>>, "uint", Nat>>

Digest(field) == <<<<field>>, "bytes", {DIGEST_LEN}>>

RowItems ==
    <<<<<< >>, "array", {4}>>, Digest("authority"), <<<<"scope_class">>, "uint", 0 .. 255>>,
      <<<<"scope_target">>, "bytes", 0 .. MAX_STR_LEN>>, Uint("counter")>>

FieldValues(d) == [field \in DOMAIN d |-> d[field].v]

\* A row after those read, which it is above.
AddRow(r, x) ==
    LET row == FieldValues(x.val)
    IN  IF r.ok /\ x.ok /\ (r.val # << >> => RowLess(r.val[Len(r.val)], row))
        THEN Ok(x.pos, Append(r.val, row))
        ELSE Err

NextRow(buf, r) == AddRow(r, typed_list(buf, RowItems)[r.pos])

DecodeRows(buf, pos) ==
    LET read[n \in 0 .. MAX_COUNTER_ENTRIES] ==
          IF n = 0 THEN Ok(pos, << >>) ELSE NextRow(buf, read[n - 1])
    IN  read

MarksHead ==
    <<<<<< >>, "map", {4}>>, Key(1), <<<<"rows">>, "array", 0 .. MAX_COUNTER_ENTRIES>>>>

MarksTail ==
    <<Key(2), Digest("cumulative"), Key(3), Digest("lifetime"), Key(4), Uint("recovery")>>

AfterRows(rows, r) ==
    IF rows.ok /\ r.ok
    THEN Ok(r.pos, [rows |-> rows.val, cumulative |-> r.val.cumulative.v,
                    lifetime |-> r.val.lifetime.v, recovery |-> r.val.recovery.v])
    ELSE Err

strict_decode_marks_payload(buf) ==
    LET Then(rows) == AfterRows(rows, typed_list(buf, MarksTail)[rows.pos])
        Rows(r) ==
          IF r.ok /\ r.val.rows.v * MIN_ROW_BYTES <= Remaining(buf, r.pos)
          THEN Then(DecodeRows(buf, r.pos)[r.val.rows.v])
          ELSE Err
    IN  WholeOnly(buf, Rows(typed_list(buf, MarksHead)[1]))
=============================================================================
