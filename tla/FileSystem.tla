---------------------------- MODULE FileSystem ----------------------------
(***************************************************************************)
(* The file system of dglib/src/dg_filesystem.c: the registry of search    *)
(* paths and the streams, which meet in fs_open_file(), where the handle   *)
(* of a search path gives the directory of the file.                       *)
(*                                                                         *)
(* fs_open_file() reads the registry without its mutex (l. 520) while an   *)
(* override frees the string it reads.  So clients are taken to register   *)
(* and look up search paths before they open files.                        *)
(***************************************************************************)
EXTENDS SearchPaths, Streams

CONSTANTS
  Names,        \* file names
  NoPath,       \* what the name is relative to without a search path
  Registries    \* bound of the model: the registries streams are opened with

ASSUME FilesAssumption == (Strings \cup {Null, NoPath}) \X Names \subseteq Files

fsVars == <<pathVars, streamVars>>

Init == PathsInit /\ StreamsInit

Registering == \A i \in H!Indices : pgenerations[i] = 0
NoCalls == \A t \in Threads : call[t] = None

\* The directory fs_open_file() puts before the name: that of a handle, or
\* none for DG_INVALID_HANDLE.  A pstring with the text of an id is no string.
Directories == ({pstring(k.handle) : k \in issued} \ Ids) \cup {NoPath}

Next ==
  \/ \E t \in Threads : Registering /\ PathStep(t) /\ UNCHANGED streamVars
  \/ /\ NoCalls /\ registered \in Registries
     /\ UNCHANGED pathVars
     /\ \/ OpenOrClose \/ MemoryToFile
        \/ \E d \in Directories, n \in Names :
             \/ \E w \in BOOLEAN : OpenFile(<<d, n>>, w)
             \/ OpenFileFails(<<d, n>>)
             \/ FileToMemory(<<d, n>>)
        \/ Transfer

Spec == Init /\ [][Next]_fsVars
=============================================================================
