---------------------------- MODULE MCFileSystem ----------------------------
(***************************************************************************)
(* The file system, and the tree of directories beside it: `part` says     *)
(* which of them a behaviour exercises.  Two threads change the tree, or   *)
(* one changes and iterates.                                               *)
(***************************************************************************)
EXTENDS FileSystem

CONSTANTS
  id1, id2, id3, path1, name1,
  t1, top, sub,
  TreePaths, Dot   \* see Directories

VARIABLES
  part,
  tree, treeCall, dir, told, gone

treeVars == <<tree, treeCall, dir, told, gone>>

AllFiles == (Paths \cup {EmptyPath, Null, NoPath}) \X Names
OneRegistered == {[i \in Ids |-> IF i = id1 THEN path1 ELSE None]}
ShortValues == {<<255, 2>>}  \* of a negative number, if it is read with its sign
SomeOffsets == {-1, 0, 1}
ThreePaths == {<<top>>, <<top, sub>>, <<top, sub, top>>}

ASSUME TreeAssumption ==
  /\ t1 \in Threads
  /\ TreePaths \subseteq Seq(UNION {ToSet(p) : p \in TreePaths}) \ {<<>>}
  /\ \A p \in TreePaths : \A n \in 1 .. Len(p) : SubSeq(p, 1, n) \in TreePaths

Tree == INSTANCE Directories WITH Paths <- TreePaths, call <- treeCall

PartInit == part \in {"files", "changes", "iterations"} /\ Init /\ Tree!Init

PartNext ==
  /\ \/ part = "files" /\ Next
     \/ part # "files" /\ UNCHANGED fsVars
  /\ \/ part = "changes" /\ \E t \in Threads : Tree!Change(t)
     \/ part = "iterations" /\ (Tree!Change(t1) \/ Tree!Iterate(t1))
     \/ part = "files" /\ UNCHANGED treeVars
  /\ UNCHANGED part

PartSpec == PartInit /\ [][PartNext]_<<part, fsVars, treeVars>>

(* What fs_mkdir() returns is so, whatever others do between its steps.    *)
MkdirTells == Tree!MkdirTells

(* An iteration gives every entry of the directory once.                   *)
ListedOnce == Tree!ListedOnce
=============================================================================
