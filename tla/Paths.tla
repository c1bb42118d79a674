-------------------------------- MODULE Paths --------------------------------
(***************************************************************************)
(* The paths of dglib/src/dg_path.c, dg_path_t: a string of its own and    *)
(* the size it is said to have.  Names are made of the characters of       *)
(* Letters, and both slashes separate them.                                *)
(***************************************************************************)
EXTENDS Integers, Sequences, FiniteSetsExt

CONSTANTS
  Letters,
  Strings,        \* the strings that callers make paths of
  MaxSize,        \* bound of the model: callers make no longer path
  None

VARIABLES
  path,           \* [pstring, size]; pstring is None when it is NULL
  parts,          \* history: the names that the path should have
  rooted          \* history: it should begin with a separator

vars == <<path, parts, rooted>>

Separators == {"/", "\\"}
Absolute(s) == s # <<>> /\ s[1] \in Separators

\* The names in s, in order.
Names(s) ==
  LET Starts == {i \in DOMAIN s : s[i] \in Letters /\ (i = 1 \/ s[i - 1] \in Separators)}
      Stop(i) == Min({j \in i .. Len(s) + 1 : j > Len(s) \/ s[j] \in Separators})
      Nth(k) == CHOOSE i \in Starts : Cardinality({j \in Starts : j < i}) = k - 1
  IN  [k \in 1 .. Cardinality(Starts) |-> SubSeq(s, Nth(k), Stop(Nth(k)) - 1)]

\* Mutation of End: the separators at the end are not skipped.
End_AtSlashes(s) == Len(s)

\* The two loops of path_get_base(), path_get_filename() and
\* path_back_folder(): where the last name ends and where it begins.
End(s) == Max({0} \cup {i \in DOMAIN s : s[i] \notin Separators})
Pos(s) == Max({0} \cup {i \in 1 .. End(s) : s[i] \in Separators})

Text(p) == SubSeq(p.pstring, 1, p.size)
get_base(p) == SubSeq(Text(p), 1, Pos(Text(p)))
get_filename(p) == SubSeq(Text(p), Pos(Text(p)) + 1, End(Text(p)))

need_sep(s, t) ==
  s # <<>> /\ t # <<>> /\ s[Len(s)] \notin Separators /\ t[1] \notin Separators
-----------------------------------------------------------------------------
EmptyPath == [pstring |-> None, size |-> 0]
Is(s) == [pstring |-> s, size |-> Len(s)]

Init == path = EmptyPath /\ parts = <<>> /\ rooted = FALSE

\* path_copy_string() and path_alloc_copy(): without memory the path is empty.
copy_string(s) ==
  \/ path' = Is(s) /\ parts' = Names(s) /\ rooted' = Absolute(s)
  \/ path' = EmptyPath /\ parts' = <<>> /\ rooted' = FALSE

path_alloc_empty == path' = Is(<<>>) /\ parts' = <<>> /\ rooted' = FALSE
path_free == path' = EmptyPath /\ parts' = <<>> /\ rooted' = FALSE

\* path_append(), of a path made of s
append(s) ==
  LET base == IF path.size = 0 THEN <<>> ELSE Text(path)
      sum == base \o (IF need_sep(base, s) THEN <<"/">> ELSE <<>>) \o s
  IN  /\ Len(sum) <= MaxSize
      /\ path' = Is(sum)
      /\ parts' = parts \o Names(s)
      /\ rooted' = IF base = <<>> THEN Absolute(s) ELSE rooted

fix_slashes ==
  /\ path.pstring # None
  /\ path' = [path EXCEPT !.pstring = [i \in DOMAIN @ |-> IF i <= path.size /\ @[i] = "\\" THEN "/" ELSE @[i]]]
  /\ UNCHANGED <<parts, rooted>>

\* path_back_folder(): nothing is left of a path that is one name.
back_folder ==
  /\ path.pstring # None /\ End(Text(path)) > 0
  /\ path' = Is(get_base(path))
  /\ parts' = SubSeq(parts, 1, Len(parts) - 1)
  /\ UNCHANGED rooted

Next ==
  \/ \E s \in Strings : copy_string(s) \/ append(s)
  \/ path_alloc_empty \/ path_free
  \/ fix_slashes \/ back_folder
-----------------------------------------------------------------------------
(* A path keeps the names it was made of, whatever slashes are between     *)
(* them, and where it starts from; its base has all of them but the last,  *)
(* and the last is its file name (dg_path.c:91-250).                       *)
KeepsNames ==
  path.pstring # None =>
    /\ path.size = Len(path.pstring)
    /\ Names(Text(path)) = parts
    /\ Absolute(Text(path)) = rooted
    /\ get_filename(path) = IF parts = <<>> THEN <<>> ELSE parts[Len(parts)]
    /\ parts # <<>> => Names(get_base(path)) = SubSeq(parts, 1, Len(parts) - 1)
=============================================================================
