-------------------------------- MODULE Text --------------------------------
(***************************************************************************)
(* The string functions of dglib/src/dg_string.c: those that work in the   *)
(* buffer of a caller, and the dg_string_t, which owns its characters.  A  *)
(* character is its code in ASCII.  The buffer is of MaxLen cells, and the *)
(* cells after it belong to somebody else.                                 *)
(*                                                                         *)
(* The two are on their own: TextNext works in the buffer, StringNext on   *)
(* the dg_string_t.                                                        *)
(***************************************************************************)
EXTENDS Integers, Sequences, FiniteSetsExt

CONSTANTS
  MaxLen,
  Limits,         \* the values of maxlen that callers pass, at most MaxLen
  Sources,        \* the strings that callers pass
  None, Junk

VARIABLES
  buf,            \* cells, from 0
  text,           \* history: the string that the calls should have left
  ret,            \* what the last call returned, and what it should have
  ds,             \* dg_string_t: the cells of pstring, None if it is NULL; length
  owned           \* history: its string, None when it is not to be used

textVars == <<buf, text, ret>>
stringVars == <<ds, owned>>

NUL == 0
Foreign == 0 - 1  \* what is in the cells after the buffer
Space == 32
Chars == UNION {{s[i] : i \in DOMAIN s} : s \in Sources}

Upper(c) == c \in 65 .. 90
Lower(c) == c \in 97 .. 122
ToLower(c) == IF Upper(c) THEN c + 32 ELSE c
ToUpper(c) == IF Lower(c) THEN c - 32 ELSE c
Each(s, f(_)) == [i \in DOMAIN s |-> f(s[i])]
Cut(s, n) == SubSeq(s, 1, Min({Len(s), n}))

\* The loop of str_length(), from cell p, and the string that is there.
str_length(b, p) == Min({i \in DOMAIN b : i >= p /\ b[i] = NUL}) - p
At(b, p) == [i \in 1 .. str_length(b, p) |-> b[p + i - 1]]

\* mem_copy(), of a string that lies elsewhere
mem_copy(b, dst, s) ==
  [i \in DOMAIN b |-> IF i \in dst .. dst + Len(s) - 1 THEN s[i - dst + 1] ELSE b[i]]

\* Mutation of mem_move: the cells are always copied first to last.
mem_move_Forward(b, dst, src, count) ==
  LET moved[k \in 0 .. count] ==
        IF k = 0 THEN b ELSE [moved[k - 1] EXCEPT ![dst + k - 1] = moved[k - 1][src + k - 1]]
  IN  moved[count]

\* mem_move() copies cell after cell, first to last if they move down.
mem_move(b, dst, src, count) ==
  LET moved[k \in 0 .. count] ==
        LET i == IF dst < src THEN k - 1 ELSE count - k IN
        IF k = 0 THEN b ELSE [moved[k - 1] EXCEPT ![dst + i] = moved[k - 1][src + i]]
  IN  moved[count]

str_copy(b, maxlen, s) ==
  IF maxlen = 0 THEN b
  ELSE [mem_copy(b, 0, Cut(s, maxlen)) EXCEPT ![Min({Len(s), maxlen - 1})] = NUL]

str_concat(b, maxlen, s) ==
  LET len == str_length(b, 0) IN
  IF maxlen = 0 THEN b
  ELSE IF len >= maxlen THEN [b EXCEPT ![maxlen - 1] = NUL]
  ELSE LET added == Cut(s, maxlen - len - 1) IN
       [mem_copy(b, len, added) EXCEPT ![len + Len(added)] = NUL]

\* The loops that replace every character c by f[c].
str_map(b, f) == mem_copy(b, 0, [i \in DOMAIN At(b, 0) |-> f[At(b, 0)[i]]])

\* str_remove_char(): the cell read is never before the cell written.
str_remove_char(b, c) ==
  LET loop[read \in 0 .. str_length(b, 0)] ==
        IF read = 0 THEN [b |-> b, write |-> 0]
        ELSE LET l == loop[read - 1] IN
             IF l.b[read - 1] = c THEN l
             ELSE [b |-> [l.b EXCEPT ![l.write] = l.b[read - 1]], write |-> l.write + 1]
      end == loop[str_length(b, 0)]
  IN  [end.b EXCEPT ![end.write] = NUL]

\* The cells of the string from cell p
Cells(b, p) == p .. p + str_length(b, p) - 1

\* str_contains(), from cell p: the cells where frag begins
Matches(b, p, frag, casesensitive) ==
  LET Code(c) == IF casesensitive THEN c ELSE ToLower(c) IN
  {i \in Cells(b, p) : Each(Cut(At(b, i), Len(frag)), Code) = Each(frag, Code)}

str_contains(b, frag, casesensitive) ==
  LET at == Matches(b, 0, frag, casesensitive) IN
  IF frag = <<>> THEN 0 ELSE IF at = {} THEN None ELSE Min(at)

str_find_char(b, c) ==
  LET at == {i \in Cells(b, 0) : b[i] = c} IN IF at = {} THEN None ELSE Min(at)

str_rfind_char(b, c) ==
  LET at == {i \in Cells(b, 0) : b[i] = c} IN IF at = {} THEN None ELSE Max(at)

str_is_alpha(b) == \A i \in Cells(b, 0) : Upper(b[i]) \/ Lower(b[i])

\* str_chrcount(): how often each of the characters syms occurs, and how
\* many of them do
str_chrcount(b, maxlen, syms) ==
  LET times == [k \in 1 .. Min({maxlen, Len(syms)}) |->
                  Cardinality({i \in Cells(b, 0) : b[i] = syms[k]})]
  IN  <<times, Cardinality({k \in DOMAIN times : times[k] # 0})>>

chr_hex_tetrade(c) ==
  LET u == ToUpper(c) IN
  CASE c \in 48 .. 57 -> c - 48 [] u \in 65 .. 70 -> u - 55 [] OTHER -> 0 - 1

\* of two hexadecimal digits
str_hex_byte(hex) == chr_hex_tetrade(hex[1]) * 16 + chr_hex_tetrade(hex[2])

\* One round of str_replace_string(), from cell w.p on: the next one resumes
\* after what this one put in.
Replace(w, maxlen, frag, rep) ==
  LET at == Matches(w.b, w.p, frag, TRUE)
      off == Min(at)
      sl == str_length(w.b, 0)
      moved == mem_move(w.b, off + Len(rep), off + Len(frag), sl - off - Len(frag) + 1)
  IN  IF at = {} \/ sl - Len(frag) + Len(rep) + 1 > maxlen THEN w
      ELSE [b |-> mem_copy(moved, off, rep), p |-> off + Len(rep)]

\* What is left of a string shorter than maxlen is shorter after every round
\* but an idle one, so there are at most maxlen.
str_replace_string(b, maxlen, frag, rep) ==
  LET round[n \in 0 .. maxlen] ==
        IF n = 0 THEN [b |-> b, p |-> 0] ELSE Replace(round[n - 1], maxlen, frag, rep)
  IN  IF frag = <<>> THEN b ELSE round[maxlen].b

str_trim_left_fast(b) == Min({i \in 0 .. str_length(b, 0) : b[i] # Space})

\* of the string from cell p, whose first cell stays as it is
str_trim_right_fast(b, p) ==
  LET end == p + str_length(b, p)
      last == Max({p} \cup {i \in p .. end - 1 : b[i] # Space})
  IN  [i \in DOMAIN b |-> IF i \in last + 1 .. end - 1 THEN NUL ELSE b[i]]

str_trim(b) ==
  LET left == str_trim_left_fast(b)
      cut == str_trim_right_fast(b, left)
  IN  IF left = 0 THEN cut ELSE mem_move(cut, 0, left, str_length(cut, left) + 1)

\* str_compare(): 0 when no character tells the two apart
str_compare(s, t, casesensitive) ==
  LET Code(u, i) == IF i > Len(u) THEN NUL ELSE IF casesensitive THEN u[i] ELSE ToLower(u[i])
      apart == {i \in 1 .. Max({Len(s), Len(t)}) + 1 : Code(s, i) # Code(t, i)}
  IN  IF apart = {} THEN 0 ELSE Code(s, Min(apart)) - Code(t, Min(apart))
-----------------------------------------------------------------------------
(* What the functions promise, on strings.                                 *)

Without(s, c) ==
  LET kept[n \in 0 .. Len(s)] ==
        IF n = 0 THEN <<>> ELSE IF s[n] = c THEN kept[n - 1] ELSE Append(kept[n - 1], s[n])
  IN  kept[Len(s)]

\* Occurrences of frag are replaced one after the other while there is room
\* for maxlen - 1 characters; done is the part that is dealt with.
Replaced(done, rest, maxlen, frag, rep) ==
  LET at == {i \in 1 .. Len(rest) - Len(frag) + 1 : SubSeq(rest, i, i + Len(frag) - 1) = frag}
      before == SubSeq(rest, 1, Min(at) - 1)
      after == SubSeq(rest, Min(at) + Len(frag), Len(rest))
  IN  IF at = {} \/ Len(done \o rest) - Len(frag) + Len(rep) >= maxlen THEN <<done, rest>>
      ELSE <<done \o before \o rep, after>>

AllReplaced(s, maxlen, frag, rep) ==
  LET round[n \in 0 .. maxlen] ==
        IF n = 0 THEN <<<<>>, s>>
        ELSE Replaced(round[n - 1][1], round[n - 1][2], maxlen, frag, rep)
  IN  round[maxlen][1] \o round[maxlen][2]

Trimmed(s) ==
  LET inner == {i \in DOMAIN s : s[i] # Space} IN
  IF inner = {} THEN <<>> ELSE SubSeq(s, Min(inner), Max(inner))
-----------------------------------------------------------------------------
TextInit ==
  /\ buf = [i \in 0 .. 2 * MaxLen |-> IF i < MaxLen THEN NUL ELSE Foreign]
  /\ text = <<>>
  /\ ret = <<0, 0>>

Call(b, t, is, should) == buf' = b /\ text' = t /\ ret' = <<is, should>>

Copy(n, s) ==
  Call(str_copy(buf, n, s), IF n = 0 THEN text ELSE Cut(s, n - 1),
       Min({Len(s), n}) < n, Len(s) < n)

Concat(n, s) ==
  Call(str_concat(buf, n, s), IF n = 0 THEN text ELSE Cut(text \o s, n - 1),
       str_length(buf, 0) < n /\ Len(s) <= n - str_length(buf, 0) - 1, Len(text \o s) < n)

ToLowerCase == Call(str_map(buf, [c \in 1 .. 127 |-> ToLower(c)]), Each(text, ToLower), 0, 0)
ToUpperCase == Call(str_map(buf, [c \in 1 .. 127 |-> ToUpper(c)]), Each(text, ToUpper), 0, 0)

RemoveChar(c) ==
  Call(str_remove_char(buf, c), Without(text, c),
       str_length(buf, 0) - str_length(str_remove_char(buf, c), 0), Len(text) - Len(Without(text, c)))

ReplaceChar(c, d) ==
  LET Other(x) == IF x = c THEN d ELSE x IN
  Call(str_map(buf, [x \in 1 .. 127 |-> Other(x)]), Each(text, Other), 0, 0)

\* The result, which is the length where dg_string.h:142 says "number of
\* replacements made", is left out.
ReplaceString(frag, rep) ==
  LET new == IF frag = <<>> THEN text ELSE AllReplaced(text, MaxLen, frag, rep)
  IN  Call(str_replace_string(buf, MaxLen, frag, rep), new, 0, 0)

Trim == Call(str_trim(buf), Trimmed(text), 0, 0)

Compare(s) ==
  Call(buf, text, str_compare(At(buf, 0), s, FALSE) = 0, Each(text, ToLower) = Each(s, ToLower))

\* str_contains(), str_find_char(), str_rfind_char(), str_is_alpha() and
\* str_chrcount() of s, with the characters of s as those looked for
Query(s) ==
  LET Beside(i) == <<SubSeq(text, 1, i), SubSeq(text, i + Len(s) + 1, Len(text))>>
      Splits(f(_)) == {i \in 0 .. Len(text) - Len(s) :
                         Each(text, f) = Each(Beside(i)[1] \o s \o Beside(i)[2], f)}
      First(at) == IF at = {} THEN None ELSE Min(at)
      Places(c) == {i \in 0 .. Len(text) - 1 : text[i + 1] = c}
      Same(c) == c
  IN  Call(buf, text,
        /\ str_contains(buf, s, TRUE) = First(Splits(Same))
        /\ str_contains(buf, s, FALSE) = First(Splits(ToLower))
        /\ str_is_alpha(buf) = \A i \in DOMAIN text : ToLower(text[i]) # ToUpper(text[i])
        /\ str_chrcount(buf, Len(s), s)[1] = [k \in DOMAIN s |-> Len(text) - Len(Without(text, s[k]))]
        /\ \A k \in DOMAIN s :
             /\ str_find_char(buf, s[k]) = First(Places(s[k]))
             /\ str_rfind_char(buf, s[k]) =
                  IF Places(s[k]) = {} THEN None ELSE Max(Places(s[k])), TRUE)

TextNext ==
  \/ \E n \in Limits, s \in Sources : Copy(n, s) \/ Concat(n, s)
  \/ ToLowerCase \/ ToUpperCase
  \/ \E c \in Chars : RemoveChar(c) \/ \E d \in Chars : ReplaceChar(c, d)
  \/ \E frag, rep \in Sources : ReplaceString(frag, rep)
  \/ Trim
  \/ \E s \in Sources : Compare(s) \/ Query(s)
-----------------------------------------------------------------------------
StringInit == ds = [cells |-> None, length |-> 0] /\ owned = <<>>

\* str_duplicate(): a block of its own, or NULL, and then the length stays.
Duplicate(s) ==
  \/ /\ ds' = [cells |-> [i \in 0 .. Len(s) |-> IF i < Len(s) THEN s[i + 1] ELSE NUL], length |-> Len(s)]
     /\ owned' = s
  \/ ds' = [ds EXCEPT !.cells = None] /\ owned' = None

\* dgstr_copy_from(), and dgstr_copy() of the string itself; neither frees.
dgstr_copy_from(s) == Duplicate(s)
dgstr_copy == owned # None /\ ds.cells # None /\ Duplicate(At(ds.cells, 0))

\* realloc() to n cells; where it fails the functions return false
Room(n) ==
  [i \in 0 .. n - 1 |->
     IF ds.cells # None THEN IF i \in DOMAIN ds.cells THEN ds.cells[i] ELSE Junk ELSE Junk]

\* Length 0 stands for the whole of src.
dgstr_append(src, length) ==
  LET s == IF length = 0 THEN src ELSE SubSeq(src, 1, length)
      nl == ds.length + Len(s)
  IN  /\ owned # None /\ nl <= MaxLen
      /\ ds' = [cells |-> [mem_copy(Room(nl + 1), ds.length, s) EXCEPT ![nl] = NUL], length |-> nl]
      /\ owned' = owned \o s

dgstr_insert_from(pos, src) ==
  LET at == Min({pos, ds.length})
      nl == ds.length + Len(src)
      moved == mem_move(Room(nl + 1), at + Len(src), at, ds.length - at + 1)
  IN  /\ owned # None /\ nl <= MaxLen /\ src # <<>>
      /\ ds' = [cells |-> [mem_copy(moved, at, src) EXCEPT ![nl] = NUL], length |-> nl]
      /\ owned' = SubSeq(owned, 1, at) \o src \o SubSeq(owned, at + 1, Len(owned))

dgstr_remove_chars(c) ==
  LET cells == str_remove_char(ds.cells, c)
      n == str_length(ds.cells, 0) - str_length(cells, 0)
  IN
  /\ owned # None /\ ds.cells # None
  /\ ds' = [cells |-> cells, length |-> ds.length - n]
  /\ owned' = Without(owned, c)

\* dgstr_free() leaves pstring as it was: the string is then not to be used
\* but as the destination of a copy.
dgstr_free ==
  /\ owned # None
  /\ ds' = [ds EXCEPT !.length = 0] /\ owned' = None

StringNext ==
  \/ \E s \in Sources :
       \/ dgstr_copy_from(s)
       \/ \E n \in 0 .. Len(s) : dgstr_append(s, n)
       \/ \E pos \in 0 .. MaxLen : dgstr_insert_from(pos, s)
  \/ dgstr_copy \/ dgstr_free
  \/ \E c \in Chars : dgstr_remove_chars(c)
-----------------------------------------------------------------------------
(* The buffer holds the string that the calls should have left, ended by a *)
(* NUL within MaxLen, nothing is written after it, and the last call       *)
(* returned what the header says of it.                                    *)
HoldsText ==
  /\ \A i \in DOMAIN buf : (buf[i] = Foreign) <=> i >= MaxLen
  /\ \E i \in 0 .. MaxLen - 1 : buf[i] = NUL
  /\ At(buf, 0) = text
  /\ ret[1] = ret[2]

(* Two hexadecimal digits of a byte, in either case, give the byte.        *)
HexTold ==
  \A v \in 0 .. 255 :
    LET Digit(d) == IF d < 10 THEN 48 + d ELSE 87 + d
        hex == <<Digit(v \div 16), Digit(v % 16)>>
    IN  str_hex_byte(hex) = v /\ str_hex_byte(Each(hex, ToUpper)) = v

(* A dg_string_t that may be used is its string with a NUL after it, and   *)
(* its length is that of the string.                                       *)
HoldsString ==
  owned # None =>
    /\ ds.length = Len(owned)
    /\ ds.cells = None => owned = <<>>
    /\ ds.cells # None => At(ds.cells, 0) = owned
=============================================================================
