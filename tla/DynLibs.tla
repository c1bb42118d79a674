------------------------------ MODULE DynLibs ------------------------------
(***************************************************************************)
(* Dynamic libraries, the sys_dl...() functions of dglib/src/dg_sys.c.     *)
(* Windows counts how often a library was loaded and unloads it when it    *)
(* was freed as often; the addresses of its symbols are good until then.   *)
(*                                                                         *)
(* A handle is a variable of the client.  It may open over one that is in  *)
(* use, close one twice, and ask any for a symbol; it does not close a     *)
(* handle that sys_dlenum() gave it or a copy of another.                  *)
(***************************************************************************)
EXTENDS Naturals, FiniteSets

CONSTANTS
  Files,      \* paths, without the extension that sys_dlopen() puts
  Broken,     \* of them, those LoadLibraryA() refuses
  Symbols,    \* the names a client asks for
  Exported,   \* the symbols there are: a set of [file, name]
  Handles,    \* the client's variables of type hdl_t
  MaxCount,   \* bound of the model: how often a library is loaded
  NULL

VARIABLES
  count,      \* how often each library is loaded
  punused,    \* the library each handle refers to, or NULL
  got,        \* history: the symbols each handle gave since it was opened
  procs,      \* history: the symbols sys_dlloadproc() gave
  lost        \* history: loads that no handle refers to any more

vars == <<count, punused, got, procs, lost>>

Init ==
  /\ count = [f \in Files |-> 0]
  /\ punused = [h \in Handles |-> NULL]
  /\ got = [h \in Handles |-> {}]
  /\ procs = {}
  /\ lost = [f \in Files |-> 0]

LoadLibrary(f) == f \notin Broken /\ count[f] < MaxCount
GetProcAddress(f, name) == IF [file |-> f, name |-> name] \in Exported THEN {[file |-> f, name |-> name]} ELSE {}
Plus(c, f) == IF f = NULL THEN c ELSE [c EXCEPT ![f] = @ + 1]
-----------------------------------------------------------------------------
\* The handle gets what LoadLibraryA() returns, NULL when it fails, whatever
\* it referred to before.
dlopen(h, f) ==
  /\ \/ LoadLibrary(f) /\ count' = [count EXCEPT ![f] = @ + 1]
        /\ punused' = [punused EXCEPT ![h] = f]
     \/ f \in Broken /\ UNCHANGED count
        /\ punused' = [punused EXCEPT ![h] = NULL]
  /\ lost' = Plus(lost, punused[h])
  /\ got' = [got EXCEPT ![h] = {}]
  /\ UNCHANGED procs

\* Mutation of dlclose: the handle keeps its library.
dlclose_Kept(h) ==
  /\ punused[h] # NULL /\ count[punused[h]] > 0
  /\ count' = [count EXCEPT ![punused[h]] = @ - 1]
  /\ punused' = punused
  /\ got' = [got EXCEPT ![h] = {}]
  /\ UNCHANGED <<procs, lost>>

\* A handle that is closed is left alone.
dlclose(h) ==
  /\ punused[h] # NULL
  /\ count' = [count EXCEPT ![punused[h]] = @ - 1]
  /\ punused' = [punused EXCEPT ![h] = NULL]
  /\ got' = [got EXCEPT ![h] = {}]
  /\ UNCHANGED <<procs, lost>>

\* A handle that is closed asks the executable, which stays loaded.
dlsym(h, name) ==
  /\ punused[h] # NULL
  /\ got' = [got EXCEPT ![h] = @ \cup GetProcAddress(punused[h], name)]
  /\ UNCHANGED <<count, punused, procs, lost>>

\* sys_dlopen() and sys_dlsym(); the library stays loaded and the handle is
\* gone, also when there is no such symbol.
dlloadproc(f, name) ==
  /\ LoadLibrary(f)
  /\ count' = [count EXCEPT ![f] = @ + 1]
  /\ lost' = Plus(lost, f)
  /\ procs' = procs \cup GetProcAddress(f, name)
  /\ UNCHANGED <<punused, got>>

Next ==
  \/ \E h \in Handles :
       \/ \E f \in Files : dlopen(h, f)
       \/ dlclose(h)
       \/ \E name \in Symbols : dlsym(h, name)
  \/ \E f \in Files, name \in Symbols : dlloadproc(f, name)

Spec == Init /\ [][Next]_vars
-----------------------------------------------------------------------------
TypeOK ==
  /\ count \in [Files -> 0 .. MaxCount]
  /\ punused \in [Handles -> Files \cup {NULL}]
  /\ got \in [Handles -> SUBSET Exported] /\ procs \subseteq Exported
  /\ lost \in [Files -> 0 .. MaxCount]

\* the handles that refer to a library
Refer(f) == {h \in Handles : punused[h] = f}

(* A symbol can be called as long as the handle that gave it is open, and  *)
(* one of sys_dlloadproc() for ever, however often handles are closed or   *)
(* opened again: a library is loaded as often as there are handles of it   *)
(* and loads nobody can undo.                                              *)
ProcsCallable ==
  /\ TypeOK
  /\ \A f \in Files : count[f] = Cardinality(Refer(f)) + lost[f]
  /\ \A h \in Handles : \A p \in got[h] : p.file = punused[h]
  /\ \A p \in procs \cup UNION {got[h] : h \in Handles} : count[p.file] > 0
=============================================================================
