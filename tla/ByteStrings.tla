---------------------------- MODULE ByteStrings ----------------------------
(***************************************************************************)
(* The pieces byte strings are built from: integers in big-endian bytes,   *)
(* length prefixes, the heads of canonical CBOR and domain strings.        *)
(*                                                                         *)
(* A byte is a number below 256.  A domain string is its first byte "2"    *)
(* and a number above 255 that stands for the rest of it.                  *)
(***************************************************************************)
EXTENDS Naturals, Sequences, SequencesExt

CONSTANT
    DIGEST_LEN      \* 32

-----------------------------------------------------------------------------
(* Integers *)

\* The ranges of Rust's unsigned types; no term overflows TLC's integers.
u8 == 0 .. 255
RADIX == 256 * 256
u16 == {v \in Nat : v < RADIX}
u32 == {v \in Nat : v \div RADIX \in u16}
u64 == {v \in Nat : (v \div RADIX) \div RADIX \in u32}

\* to_be_bytes of a u16, of a u32 and of a u64.
Be2(v) == <<(v \div 256) % 256, v % 256>>
Be4(v) == Be2(v \div RADIX) \o Be2(v)
U64(v) == Be4((v \div RADIX) \div RADIX) \o Be4(v)

\* The number base-256 digits stand for.
BeVal(s) ==
    LET val[i \in 0 .. Len(s)] == IF i = 0 THEN 0 ELSE val[i - 1] * 256 + s[i]
    IN  val[Len(s)]

-----------------------------------------------------------------------------
(* Strings *)

Zeros(n) == [i \in 1 .. n |-> 0]

Tag(n) == <<50, 256 + n>>

lp8(b) == <<Len(b)>> \o b
lp16(b) == Be2(Len(b)) \o b
lp32(b) == Be4(Len(b)) \o b
lp64(b) == U64(Len(b)) \o b

\* The head of a CBOR item, in its shortest form.
put_uint(major, v) ==
    CASE v < 24 -> <<32 * major + v>>
      [] v >= 24 /\ v < 256 -> <<32 * major + 24, v>>
      [] v >= 256 /\ v < RADIX -> <<32 * major + 25>> \o Be2(v)
      [] v >= RADIX /\ v \in u32 -> <<32 * major + 26>> \o Be4(v)
      [] OTHER -> <<32 * major + 27>> \o U64(v)

put_bytes(b) == put_uint(2, Len(b)) \o b

put_text(b) == put_uint(3, Len(b)) \o b

\* a < b as Rust orders byte slices.
LexLess(a, b) ==
    \E i \in 1 .. Len(b) :
        /\ i <= Len(a) + 1
        /\ \A j \in 1 .. i - 1 : a[j] = b[j]
        /\ i = Len(a) + 1 \/ a[i] < b[i]
=============================================================================
