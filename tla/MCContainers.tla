---------------------------- MODULE MCContainers ----------------------------
(***************************************************************************)
(* The handles, the tree map and the conversions of strings beside the     *)
(* containers of MCSequences, each on its own: `which` says which of them  *)
(* a behaviour exercises, the others stay as they were initialized.  Init, *)
(* Next and vars are the handle allocator's.                               *)
(***************************************************************************)
EXTENDS HandleAlloc, MCSequences

CONSTANTS
  Kinds           \* the containers that are exercised

VARIABLES
  tree, treeContent,
  units

\* Every key once, and one of them with two values.
EntriesOf(keys) == (keys \X {1}) \cup {<<1, 2>>}

EightKeys == 1 .. 8
EightEntries == EntriesOf(EightKeys)
Collisions == <<0, 0, 0, 2, 4, 4, 6, 15>>

Tree == INSTANCE TreeMap WITH
  t <- tree, content <- treeContent, Keys <- 1 .. 7, Entries <- EntriesOf(1 .. 7)

\* The last unit of every length of its encoding, and surrogates of both kinds
Utf == INSTANCE Utf WITH
  MaxUnits <- 3, Units <- {65, 128, 2047, 2048, 55296, 56319, 56320, 57343, 65535}

\* <<32, 97, 97, 97, 32, 97>> is " aaa a".
SomeTexts == {<<>>, <<97>>, <<65>>, <<32>>, <<97, 97>>, <<65, 97, 32>>,
              <<32, 97, 97, 97, 32, 97>>}

SomePaths == {<<>>, <<"a">>, <<"a", "b">>, <<"/", "b">>, <<"b", "\\">>, <<"\\">>,
              <<"a", "\\", "b">>, <<"/", "a", "/", "\\", "b", "/">>}

treeVars == <<tree, treeContent>>

AnyInit ==
  /\ which \in Kinds
  /\ Init /\ Tree!Init /\ SequencesInit
  /\ Utf!Init

AnyNext ==
  /\ SequencesNext
  /\ IF which = "handles" THEN Next ELSE UNCHANGED vars
  /\ IF which = "tree" THEN Tree!Next ELSE UNCHANGED treeVars
  /\ IF which = "utf" THEN Utf!Next ELSE UNCHANGED units

AnySpec ==
  AnyInit /\ [][AnyNext]_<<which, sequenceVars, vars, treeVars, units>>

(* The tree map is a red-black tree after every operation, NAME_get() and  *)
(* the bounds find what was inserted, and a loop meets every entry once,   *)
(* in order, also while it erases some.                                    *)
TreeHolds == Tree!RedBlack /\ Tree!FindsContent /\ Tree!LoopsInOrder

(* The conversions between UTF-8 and UTF-16 lose and cut no character, and *)
(* two hexadecimal digits give the byte they stand for.                    *)
TextsConvert == which = "utf" => Utf!Converts /\ Chars!HexTold
=============================================================================
