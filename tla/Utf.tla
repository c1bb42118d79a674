---------------------------------- MODULE Utf ----------------------------------
(***************************************************************************)
(* ansi_to_wide() and wide_to_ansi() of dglib/src/dg_string.c where the    *)
(* system is not Windows: strings of 16-bit units in UTF-16 and strings of *)
(* bytes in UTF-8.  A string is the sequence before its NUL, and what a    *)
(* conversion wrote is too: its length is what the function returned.      *)
(*                                                                         *)
(* The state is the string of units that is converted.  The bytes are      *)
(* those that wide_to_ansi() makes of it.                                  *)
(***************************************************************************)
EXTENDS Integers, Sequences, FiniteSetsExt, SequencesExt

CONSTANTS
  Units,          \* 16-bit units, without NUL
  MaxUnits        \* bound of the model: the length of a string

VARIABLE units

Replacement == 65533
HighSurrogate(u) == u \in 55296 .. 56319
LowSurrogate(u) == u \in 56320 .. 57343
Surrogate(u) == HighSurrogate(u) \/ LowSurrogate(u)

utf16_units_for_cp(cp) == IF cp <= 65535 THEN 1 ELSE 2

\* Mutation of utf8_bytes_for_cp: 0x800 is taken for one of two bytes.
utf8_bytes_for_cp_Off(cp) ==
  CASE cp <= 127 -> 1 [] cp \in 128 .. 2048 -> 2 [] cp \in 2049 .. 65535 -> 3 [] OTHER -> 4

utf8_bytes_for_cp(cp) ==
  CASE cp <= 127 -> 1 [] cp \in 128 .. 2047 -> 2 [] cp \in 2048 .. 65535 -> 3 [] OTHER -> 4

\* Cells of s from its first one on; the NUL is behind the last.
Cell(s, i) == IF i <= Len(s) THEN s[i] ELSE 0

Continuation(c) == c \in 128 .. 191

\* (c1 | c2 | ...) & 0xC0 = 0x80: one of them is a continuation byte, and
\* the others may also be below 0x40.
Continued(cs) ==
  /\ \A c \in cs : c < 64 \/ Continuation(c)
  /\ \E c \in cs : Continuation(c)

utf8_decode_cp(s, i) ==
  LET c == Cell(s, i)
      Low(k) == Cell(s, i + k) % 64
      Next(n) == {Cell(s, i + k) : k \in 1 .. n}
      two == ((c % 32) * 64) + Low(1)
      three == (c % 16) * 4096 + Low(1) * 64 + Low(2)
      four == (c % 8) * 262144 + Low(1) * 4096 + Low(2) * 64 + Low(3)
  IN  CASE c < 128 -> [cp |-> c, adv |-> 1]
        [] c \in 192 .. 223 /\ Continuation(Cell(s, i + 1)) /\ two >= 128 -> [cp |-> two, adv |-> 2]
        [] c \in 224 .. 239 /\ Continued(Next(2)) /\ three >= 2048 /\ ~Surrogate(three) ->
             [cp |-> three, adv |-> 3]
        [] c \in 240 .. 247 /\ Continued(Next(3)) /\ four \in 65536 .. 1114111 ->
             [cp |-> four, adv |-> 4]
        [] OTHER -> [cp |-> Replacement, adv |-> 1]

utf16_write_cp(out, cap, cp) ==
  LET v == cp - 65536
      add == IF cp <= 65535 THEN <<cp>> ELSE <<55296 + v \div 1024, 56320 + (v % 1024)>>
  IN  IF Len(out) + Len(add) - 1 < cap THEN out \o add ELSE out

\* len is the length of s, or what stands for "up to the NUL".
utf16_read_cp(s, len, i) ==
  LET w == Cell(s, i)  next == Cell(s, i + 1) IN
  CASE HighSurrogate(w) /\ i < len /\ LowSurrogate(next) ->
         [cp |-> 65536 + (w - 55296) * 1024 + (next - 56320), adv |-> 2]
    [] ~Surrogate(w) -> [cp |-> w, adv |-> 1]
    [] OTHER -> [cp |-> Replacement, adv |-> 1]

utf8_write_cp(out, cap, cp) ==
  LET Tail6(shift) == 128 + ((cp \div shift) % 64)
      add == CASE cp <= 127 -> <<cp>>
               [] cp \in 128 .. 2047 -> <<192 + cp \div 64, Tail6(1)>>
               [] cp \in 2048 .. 65535 -> <<224 + cp \div 4096, Tail6(64), Tail6(1)>>
               [] OTHER -> <<240 + cp \div 262144, Tail6(4096), Tail6(64), Tail6(1)>>
  IN  IF Len(out) + Len(add) - 1 < cap THEN out \o add ELSE out

-----------------------------------------------------------------------------
(* The two loops of each function, from cell i on.                         *)

RECURSIVE UnitsNeeded(_, _)
UnitsNeeded(s, i) ==
  LET d == utf8_decode_cp(s, i) IN
  IF Cell(s, i) = 0 THEN 0 ELSE utf16_units_for_cp(d.cp) + UnitsNeeded(s, i + d.adv)

RECURSIVE ToWide(_, _, _, _)
ToWide(s, i, out, dstcount) ==
  LET d == utf8_decode_cp(s, i) IN
  IF Cell(s, i) = 0 \/ Len(out) + 1 >= dstcount \/ Len(out) + utf16_units_for_cp(d.cp) >= dstcount
  THEN out
  ELSE ToWide(s, i + d.adv, utf16_write_cp(out, dstcount - 1, d.cp), dstcount)

RECURSIVE BytesNeeded(_, _)
BytesNeeded(s, i) ==
  LET d == utf16_read_cp(s, Len(s), i) IN
  IF i > Len(s) THEN 0 ELSE utf8_bytes_for_cp(d.cp) + BytesNeeded(s, i + d.adv)

RECURSIVE ToAnsi(_, _, _, _)
ToAnsi(s, i, out, dstcount) ==
  LET d == utf16_read_cp(s, Len(s) + 1, i) IN
  IF Cell(s, i) = 0 \/ Len(out) + 1 >= dstcount \/ Len(out) + utf8_bytes_for_cp(d.cp) >= dstcount
  THEN out
  ELSE ToAnsi(s, i + d.adv, utf8_write_cp(out, dstcount - 1, d.cp), dstcount)

ansi_to_wide(dstcount, s) == ToWide(s, 1, <<>>, dstcount)
wide_to_ansi(dstcount, s) == ToAnsi(s, 1, <<>>, dstcount)
-----------------------------------------------------------------------------
Init == units = <<>>
Next == Len(units) < MaxUnits /\ \E u \in Units : units' = Append(units, u)
-----------------------------------------------------------------------------
\* What UTF-8 keeps of a string of units: surrogates that are not in a pair
\* become U+FFFD.
Kept(s) ==
  LET Paired(i) == \/ HighSurrogate(s[i]) /\ LowSurrogate(Cell(s, i + 1))
                   \/ LowSurrogate(s[i]) /\ i > 1 /\ HighSurrogate(s[i - 1])
  IN  [i \in DOMAIN s |-> IF Surrogate(s[i]) /\ ~Paired(i) THEN Replacement ELSE s[i]]

\* The longest beginning of s that leaves room for a NUL in n cells and
\* does not cut a character whose later cells are those that satisfy Later.
Beginning(s, n, Later(_)) ==
  SubSeq(s, 1, Max({k \in 0 .. Len(s) : k < n /\ ~Later(Cell(s, k + 1))}))

(* A string goes to UTF-8 and back without loss but for surrogates that    *)
(* have no partner; the measured length is the one that is written; and in *)
(* a smaller buffer both functions leave the longest beginning of whole    *)
(* characters with a NUL after it, inside the buffer (l. 673-766).         *)
Converts ==
  LET bytes == wide_to_ansi(4 * MaxUnits + 1, units)
      kept == Kept(units)
  IN
  /\ BytesNeeded(units, 1) = Len(bytes)
  /\ UnitsNeeded(bytes, 1) = Len(kept)
  /\ ansi_to_wide(MaxUnits + 1, bytes) = kept
  /\ \A n \in 1 .. Len(bytes) + 1 : wide_to_ansi(n, units) = Beginning(bytes, n, Continuation)
  /\ \A n \in 1 .. Len(kept) + 1 : ansi_to_wide(n, bytes) = Beginning(kept, n, LowSurrogate)
=============================================================================
