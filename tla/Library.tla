------------------------------ MODULE Library ------------------------------
(***************************************************************************)
(* The start and the end of the library, dg_initialize() and               *)
(* dg_deinitialize() of dglib/src/dg_main.c: the parts start one after the *)
(* other, the first failure ends the call, and what has started stays.     *)
(* The program may repeat either call at any time.                         *)
(*                                                                         *)
(* What the parts ask of the system are two mutexes, an index of           *)
(* thread-local storage (here all of them "objects") and a window class.   *)
(* The class belongs to the executable, and a class that is registered     *)
(* cannot be registered again.                                             *)
(***************************************************************************)
EXTENDS Naturals, FiniteSets

CONSTANTS
  Objects,  \* what the system can give
  Null      \* NULL, or TLS_OUT_OF_INDEXES

VARIABLES
  pc,        \* the part that starts or ends next, "idle" outside a call
  events,    \* glob_events_queue.mutex
  paths,     \* glob_sp_mtx
  tls,       \* glob_tls_index
  freq,      \* global_freq is set
  class,     \* DG_WINDOW_CLASS is registered
  live,      \* the objects that exist
  ready,     \* history: the last call was a dg_initialize() that returned 1
  shut,      \* history: nothing has been started since the last dg_deinitialize()
  repeated   \* history: some dg_initialize() came without one

vars == <<pc, events, paths, tls, freq, class, live, ready, shut, repeated>>
globals == {events, paths, tls} \ {Null}

Init ==
  /\ pc = "idle"
  /\ events = Null /\ paths = Null /\ tls = Null /\ freq = FALSE
  /\ class = FALSE /\ live = {}
  /\ ready = FALSE /\ shut = TRUE /\ repeated = FALSE

Go(from, to) == pc = from /\ pc' = to
history == <<ready, shut, repeated>>

\* a new object in p, or none, and then the caller's call fails
Gives(p) == \E o \in Objects \ live : p = o /\ live' = live \cup {o}
Refuses(p) == p = Null /\ UNCHANGED live
-----------------------------------------------------------------------------
\* initialize_memory() does nothing and succeeds.
dg_initialize ==
  /\ Go("idle", "start_sysui")
  /\ ready' = FALSE /\ shut' = FALSE
  /\ repeated' = (repeated \/ ~shut)
  /\ UNCHANGED <<events, paths, tls, freq, class, live>>

\* The mutex is in place before the class is registered; what is pending in
\* the ring is lost, also when it was in use.
initialize_sysui ==
  /\ \/ Go("start_sysui", "idle") /\ Refuses(events') /\ UNCHANGED class
     \/ Go("start_sysui", "idle") /\ Gives(events') /\ UNCHANGED class
     \/ Go("start_sysui", "start_filesystem") /\ Gives(events') /\ ~class /\ class' = TRUE
  /\ UNCHANGED <<paths, tls, freq, history>>

initialize_filesystem ==
  /\ \/ Go("start_filesystem", "idle") /\ paths # Null /\ UNCHANGED <<paths, live>>
     \/ Go("start_filesystem", "idle") /\ paths = Null /\ Refuses(paths')
     \/ Go("start_filesystem", "start_threads") /\ paths = Null /\ Gives(paths')
  /\ UNCHANGED <<events, tls, freq, class, history>>

\* and then time_init(), and dg_initialize() returns 1
initialize_threads ==
  /\ \/ Go("start_threads", "idle") /\ Refuses(tls') /\ UNCHANGED <<freq, ready>>
     \/ Go("start_threads", "idle") /\ Gives(tls') /\ freq' = TRUE /\ ready' = TRUE
  /\ UNCHANGED <<events, paths, class, shut, repeated>>
-----------------------------------------------------------------------------
dg_deinitialize ==
  /\ Go("idle", "end_threads")
  /\ ready' = FALSE
  /\ UNCHANGED <<events, paths, tls, freq, class, live, shut, repeated>>

deinitialize_threads ==
  /\ Go("end_threads", "end_filesystem")
  /\ tls' = Null /\ live' = live \ {tls}
  /\ UNCHANGED <<events, paths, freq, class, history>>

deinitialize_filesystem ==
  /\ Go("end_filesystem", "end_sysui")
  /\ paths' = Null /\ live' = live \ {paths}
  /\ UNCHANGED <<events, tls, freq, class, history>>

\* Mutation of deinitialize_sysui: the pointer to the mutex stays.
deinitialize_sysui_Dangling ==
  /\ Go("end_sysui", "idle")
  /\ events' = events /\ live' = live \ {events}
  /\ shut' = TRUE
  /\ UNCHANGED <<paths, tls, freq, class, ready, repeated>>

\* The class stays registered: win32_remove_window_class() is not called.
deinitialize_sysui ==
  /\ Go("end_sysui", "idle")
  /\ events' = Null /\ live' = live \ {events}
  /\ shut' = TRUE
  /\ UNCHANGED <<paths, tls, freq, class, ready, repeated>>

Next ==
  \/ dg_initialize \/ initialize_sysui \/ initialize_filesystem \/ initialize_threads
  \/ dg_deinitialize \/ deinitialize_threads \/ deinitialize_filesystem \/ deinitialize_sysui

Spec == Init /\ [][Next]_vars
-----------------------------------------------------------------------------
TypeOK ==
  /\ pc \in {"idle", "start_sysui", "start_filesystem", "start_threads",
             "end_threads", "end_filesystem", "end_sysui"}
  /\ {events, paths, tls} \subseteq Objects \cup {Null}
  /\ {freq, class, ready, shut, repeated} \subseteq BOOLEAN
  /\ live \subseteq Objects

(* After a dg_initialize() that returned 1 every part has what it works    *)
(* with.  However often either call is repeated and wherever it failed, no *)
(* part uses what does not exist or what another part has, a               *)
(* dg_deinitialize() leaves nothing behind, and nothing is lost unless     *)
(* dg_initialize() was called twice without a dg_deinitialize() between.   *)
PartsWhole ==
  /\ TypeOK
  /\ ready => Null \notin {events, paths, tls} /\ freq /\ class
  /\ globals \subseteq live
  /\ events # Null => events \notin {paths, tls}
  /\ paths # Null => paths # tls
  /\ pc = "idle" /\ shut => globals = {}
  /\ ~repeated => live = globals
=============================================================================
