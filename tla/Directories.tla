----------------------------- MODULE Directories -----------------------------
(***************************************************************************)
(* The functions of dglib/src/dg_filesystem.c on the tree of directories:  *)
(* fs_mkdir(), fs_touch(), fs_remove() and the iteration over a directory. *)
(* Each call of the operating system is one step, so that threads meet     *)
(* between the calls of one function.                                      *)
(*                                                                         *)
(* A path is the sequence of its names below the search path, whose        *)
(* directory exists; see fs_build_path().  The operating system is         *)
(* external, and lists the entries that a directory has when it is opened. *)
(***************************************************************************)
EXTENDS Integers, Sequences, SequencesExt

CONSTANTS
  Threads,
  Paths,          \* non-empty sequences of names, closed under prefixes
  Dot,            \* the entry of a directory for itself
  None

VARIABLES
  tree,           \* of each path: "none", "dir" or "file"
  call,           \* the call each thread is in
  dir,            \* the iteration of each thread
  told,           \* history: what the last fs_mkdir() of a thread returned, until
                  \* its next call
  gone            \* history: the paths removed since that fs_mkdir() began

vars == <<tree, call, dir, told, gone>>

IsDir(p) == p \in {<<>>} \cup {q \in Paths : tree[q] = "dir"}
Children(p) == {q \in Paths : Front(q) = p /\ tree[q] # "none"}
Idle(t) == call[t] = None

\* What CreateDirectoryW() would answer.
Creation(p) ==
  IF ~IsDir(Front(p)) THEN "path_not_found" ELSE IF tree[p] # "none" THEN "exists" ELSE "done"
CreateDirectory(p) == tree' = IF Creation(p) = "done" THEN [tree EXCEPT ![p] = "dir"] ELSE tree

\* A call begins; fs_mkdir() ends with a result.
Began(t) == gone' = [gone EXCEPT ![t] = {}]
Begin(t) == Began(t) /\ told' = [told EXCEPT ![t] = None]
Result(t, op, p, result) ==
  told' = [told EXCEPT ![t] = [op |-> op, path |-> p, result |-> result]]
-----------------------------------------------------------------------------
Init ==
  /\ tree = [p \in Paths |-> "none"]
  /\ call = [t \in Threads |-> None]
  /\ dir = [t \in Threads |-> None]
  /\ told = [t \in Threads |-> None]
  /\ gone = [t \in Threads |-> {}]

Op(recursive) == IF recursive THEN "mkdir_recursive" ELSE "mkdir"

(* fs_mkdir(): GetFileAttributesW() *)
MkdirCheck(t, p, recursive) ==
  /\ Idle(t)
  /\ Began(t)
  /\ \/ /\ tree[p] = "dir"
        /\ Result(t, Op(recursive), p, "success")
        /\ UNCHANGED call
     \/ /\ tree[p] # "dir"
        /\ call' = [call EXCEPT ![t] = [op |-> Op(recursive), path |-> p,
                                        next |-> IF recursive THEN 1 ELSE Len(p)]]
        /\ told' = [told EXCEPT ![t] = None]
  /\ UNCHANGED <<tree, dir>>

Making(t) == ~Idle(t) /\ call[t].op \in {"mkdir", "mkdir_recursive"}

\* Mutation of MkdirParent: the loop ends at the first directory it cannot
\* create.
MkdirParentStops(t) ==
  LET p == SubSeq(call[t].path, 1, call[t].next) IN
  /\ Making(t) /\ call[t].next < Len(call[t].path)
  /\ CreateDirectory(p)
  /\ call' = [call EXCEPT ![t].next = IF Creation(p) = "done" THEN @ + 1 ELSE Len(call[t].path)]
  /\ UNCHANGED <<dir, told, gone>>

\* one round of the loop over the separators, whatever it answers
MkdirParent(t) ==
  /\ Making(t) /\ call[t].next < Len(call[t].path)
  /\ CreateDirectory(SubSeq(call[t].path, 1, call[t].next))
  /\ call' = [call EXCEPT ![t].next = @ + 1]
  /\ UNCHANGED <<dir, told, gone>>

MkdirCreate(t) ==
  LET p == call[t].path IN
  /\ Making(t) /\ call[t].next = Len(p)
  /\ CreateDirectory(p)
  /\ Result(t, call[t].op, p, CASE Creation(p) = "done" -> "success"
                                [] Creation(p) = "path_not_found" -> "not_found"
                                [] Creation(p) = "exists" -> "internal_error")
  /\ call' = [call EXCEPT ![t] = None]
  /\ UNCHANGED <<dir, gone>>

\* fs_touch(), that may fail in SetFileTime() when the file has been created
Touch(t, p) ==
  /\ Idle(t) /\ Begin(t)
  /\ IsDir(Front(p)) /\ tree[p] # "dir"
  /\ tree' = [tree EXCEPT ![p] = "file"]
  /\ UNCHANGED <<call, dir>>

(* fs_remove(): GetFileAttributesW() *)
RemoveCheck(t, p) ==
  /\ Idle(t) /\ Begin(t)
  /\ tree[p] # "none"
  /\ call' = [call EXCEPT ![t] = [op |-> "remove", path |-> p, kind |-> tree[p]]]
  /\ UNCHANGED <<tree, dir>>

Watches(t) == Making(t) \/ told[t] # None

\* RemoveDirectoryW() or DeleteFileW(), by the attributes of the step before
RemoveEntry(t) ==
  LET p == call[t].path IN
  /\ ~Idle(t) /\ call[t].op = "remove"
  /\ \/ /\ tree[p] = call[t].kind /\ Children(p) = {}
        /\ tree' = [tree EXCEPT ![p] = "none"]
        /\ gone' = [u \in Threads |-> IF Watches(u) THEN gone[u] \cup {p} ELSE gone[u]]
     \/ /\ tree[p] # call[t].kind \/ Children(p) # {}
        /\ UNCHANGED <<tree, gone>>
  /\ call' = [call EXCEPT ![t] = None]
  /\ UNCHANGED <<dir, told>>

(* The iteration: find_data holds an entry that is to be returned, or was. *)
Listed(p) == {Dot} \cup {Last(q) : q \in Children(p)}

\* fs_dir_open(); it returns DGERR_INTERNAL_ERROR when there is no directory.
dir_open(t, p) ==
  /\ Idle(t) /\ dir[t] = None /\ IsDir(p)
  /\ \E e \in Listed(p) :
       dir' = [dir EXCEPT ![t] = [first |-> TRUE, find_data |-> e, rest |-> Listed(p) \ {e},
                                  all |-> Listed(p), list |-> <<>>, ended |-> FALSE]]
  /\ UNCHANGED <<tree, call, told, gone>>

\* fs_dir_read(): the first entry was found by fs_dir_open().
dir_read_first(t) ==
  /\ Idle(t) /\ dir[t] # None /\ dir[t].first
  /\ dir' = [dir EXCEPT ![t].first = FALSE, ![t].list = Append(@, dir[t].find_data)]
  /\ UNCHANGED <<tree, call, told, gone>>

\* Mutation of dir_read_next: the first entry is not waited for.
dir_read_next_Skipping(t) ==
  /\ Idle(t) /\ dir[t] # None
  /\ \/ /\ dir[t].rest = {}
        /\ dir' = [dir EXCEPT ![t].ended = TRUE]
     \/ \E e \in dir[t].rest :
          dir' = [dir EXCEPT ![t].find_data = e, ![t].rest = @ \ {e}, ![t].list = Append(@, e)]
  /\ UNCHANGED <<tree, call, told, gone>>

dir_read_next(t) ==
  /\ Idle(t) /\ dir[t] # None /\ ~dir[t].first
  /\ \/ /\ dir[t].rest = {}
        /\ dir' = [dir EXCEPT ![t].ended = TRUE]
     \/ \E e \in dir[t].rest :
          dir' = [dir EXCEPT ![t].find_data = e, ![t].rest = @ \ {e}, ![t].list = Append(@, e)]
  /\ UNCHANGED <<tree, call, told, gone>>

dir_close(t) ==
  /\ Idle(t) /\ dir[t] # None
  /\ dir' = [dir EXCEPT ![t] = None]
  /\ UNCHANGED <<tree, call, told, gone>>

Change(t) ==
  \/ \E p \in Paths :
       \/ \E recursive \in BOOLEAN : MkdirCheck(t, p, recursive)
       \/ Touch(t, p) \/ RemoveCheck(t, p)
  \/ MkdirParent(t) \/ MkdirCreate(t) \/ RemoveEntry(t)

Iterate(t) ==
  \/ \E p \in Paths \cup {<<>>} : dir_open(t, p)
  \/ dir_read_first(t) \/ dir_read_next(t) \/ dir_close(t)

Next == \E t \in Threads : Change(t) \/ Iterate(t)

Spec == Init /\ [][Next]_vars
-----------------------------------------------------------------------------
Above(p) == {SubSeq(p, 1, n) : n \in 1 .. Len(p) - 1}

(* What the calls tell is so, as far as nothing has been removed since     *)
(* they began.  fs_mkdir() that returns DGERR_SUCCESS has left a           *)
(* directory, also when another thread made it or its parents between its  *)
(* steps.  It fails because something is there, perhaps the directory that *)
(* another thread made first, or because it has no parent to be in, which  *)
(* with DGFS_RECURSIVE means that a file is in the way (l. 1042-1080).     *)
MkdirTells ==
  \A t \in Threads : told[t] # None =>
    LET p == told[t].path IN
    \/ gone[t] \cap (Above(p) \cup {p}) # {}
    \/ told[t].result = "success" /\ tree[p] = "dir"
    \/ told[t].result = "internal_error" /\ tree[p] # "none"
    \/ /\ told[t].result = "not_found" /\ Above(p) # {}
       /\ told[t].op = "mkdir_recursive" => \E q \in Above(p) : tree[q] = "file"

(* fs_dir_read() gives every entry of the directory once, among them the   *)
(* one that fs_dir_open() has found already, and fails after the last.     *)
ListedOnce ==
  \A t \in Threads : dir[t] # None =>
    /\ IsInjective(dir[t].list)
    /\ dir[t].ended => {dir[t].list[i] : i \in DOMAIN dir[t].list} = dir[t].all
=============================================================================
