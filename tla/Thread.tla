-------------------------------- MODULE Thread --------------------------------
(***************************************************************************)
(* The threads of dglib/src/dg_thread.c: how a thread gets the block that  *)
(* describes it, dg_thrd_data_t, runs its three routines and frees it,     *)
(* beside the thread that creates it, waits for it and closes its handle.  *)
(* A thread the library did not create, Main, may get a block too, and     *)
(* starts and ends the library.                                            *)
(*                                                                         *)
(* CreateThread(), the thread local storage and the waits are external.    *)
(* What clients are taken to do: handles are used until they are closed,   *)
(* and deinitialize_threads() is called when no thread runs.               *)
(***************************************************************************)
EXTENDS Integers, FiniteSets

CONSTANTS
  Main,
  Created,        \* the threads that thread_create_ex() may make
  Blocks,         \* addresses of blocks
  Codes,          \* what start routines return
  StillActive,    \* the exit code of a thread that runs
  MaxInits,       \* bound of the model: how often the library is initialized
  None

VARIABLES
  memory,         \* of each block: "free", "live", or "freed" for good
  tls,            \* TlsGetValue(glob_tls_index), of each thread
  valid,          \* glob_tls_index is an index
  inits,          \* how often it was allocated
  stage,          \* where each created thread is
  block,          \* pthread_data, the argument of win32_thread_proc()
  return_value,   \* of win32_thread_proc()
  code,           \* the exit code of each thread
  handle,         \* of each created thread: "none", "open" or "closed"
  making,         \* the block each thread is about to make a thread with
  joined,         \* history: threads that a wait has seen end
  told,           \* history: exit codes read, of threads already joined
  stranded        \* history: blocks attached before a deinitialization

vars == <<memory, tls, valid, inits, stage, block, return_value, code, handle,
          making, joined, told, stranded>>

lib == <<tls, valid, inits>>
proc == <<stage, block, return_value, code>>
hist == <<joined, told, stranded>>

All == Created \cup {Main}

\* the threads that may call the library, from Main or a start routine
Running == {Main} \cup {u \in Created : stage[u] = "start"}
Busy(t) == t \in Running /\ making[t] = None

Unused == {b \in Blocks : memory[b] = "free"}
NextStage(t, from, to) == stage[t] = from /\ stage' = [stage EXCEPT ![t] = to]
-----------------------------------------------------------------------------
(* initialize_threads() has been called once. *)
Init ==
  /\ memory = [b \in Blocks |-> "free"]
  /\ tls = [t \in All |-> None]
  /\ valid = TRUE /\ inits = 1
  /\ stage = [t \in Created |-> "none"]
  /\ block = [t \in Created |-> None]
  /\ return_value = [t \in Created |-> None]
  /\ code = [t \in Created |-> StillActive]
  /\ handle = [t \in Created |-> "none"]
  /\ making = [t \in All |-> None]
  /\ joined = {} /\ told = {} /\ stranded = {}

\* thread_internal_new_data(), in thread_create_ex().  Where it fails NULL
\* is returned, and nothing has changed.
NewData(t) ==
  /\ Busy(t) /\ valid
  /\ \E b \in Unused :
       /\ memory' = [memory EXCEPT ![b] = "live"]
       /\ making' = [making EXCEPT ![t] = b]
  /\ UNCHANGED <<lib, proc, handle, hist>>

\* CreateThread(): the new thread begins while thread_create_ex() goes on,
\* which does not look at the block any more.
CreateThread(t, u) ==
  /\ making[t] # None
  /\ NextStage(u, "none", "born")
  /\ block' = [block EXCEPT ![u] = making[t]]
  /\ handle' = [handle EXCEPT ![u] = "open"]
  /\ making' = [making EXCEPT ![t] = None]
  /\ UNCHANGED <<memory, lib, return_value, code, hist>>

\* Mutation of CreateFails: the block is not freed.
CreateFailsLeaking(t) ==
  /\ making[t] # None
  /\ making' = [making EXCEPT ![t] = None]
  /\ UNCHANGED <<memory, lib, proc, handle, hist>>

CreateFails(t) ==
  /\ making[t] # None
  /\ memory' = [memory EXCEPT ![making[t]] = "freed"]
  /\ making' = [making EXCEPT ![t] = None]
  /\ UNCHANGED <<lib, proc, handle, hist>>

(* win32_thread_proc() *)
Begin(t) ==
  /\ NextStage(t, "born", "pre")
  /\ tls' = [tls EXCEPT ![t] = block[t]]
  /\ UNCHANGED <<memory, valid, inits, block, return_value, code, handle, making, hist>>

PreRoutine(t) ==
  /\ NextStage(t, "pre", "start")
  /\ UNCHANGED <<memory, lib, block, return_value, code, handle, making, hist>>

\* return_value is set, and is the exit code once the thread has ended.
StartRoutine(t) ==
  /\ Busy(t) /\ t # Main
  /\ NextStage(t, "start", "end")
  /\ \E c \in Codes : return_value' = [return_value EXCEPT ![t] = c]
  /\ UNCHANGED <<memory, lib, block, code, handle, making, hist>>

EndRoutine(t) ==
  /\ NextStage(t, "end", "free")
  /\ UNCHANGED <<memory, lib, block, return_value, code, handle, making, hist>>

FreeData(t) ==
  /\ NextStage(t, "free", "return")
  /\ memory' = [memory EXCEPT ![block[t]] = "freed"]
  /\ UNCHANGED <<lib, block, return_value, code, handle, making, hist>>

Return(t) ==
  /\ NextStage(t, "return", "exited")
  /\ code' = [code EXCEPT ![t] = return_value[t]]
  /\ UNCHANGED <<memory, lib, block, return_value, handle, making, hist>>

\* thread_attach_info() where the thread has no block yet; TlsSetValue()
\* fails when the index is not allocated, and may fail besides.
attach_info(t) ==
  /\ Busy(t) /\ (valid => tls[t] = None)
  /\ \E b \in Unused :
       \/ /\ valid
          /\ memory' = [memory EXCEPT ![b] = "live"]
          /\ tls' = [tls EXCEPT ![t] = b]
       \/ memory' = [memory EXCEPT ![b] = "freed"] /\ UNCHANGED tls
  /\ UNCHANGED <<valid, inits, proc, handle, making, hist>>

Ended(u) == stage[u] = "exited"

\* thread_join() and thread_join_timed(), when they return DGERR_SUCCESS; a
\* timeout changes nothing.
join(t, u) ==
  /\ Busy(t) /\ t # u /\ handle[u] = "open" /\ Ended(u)
  /\ joined' = joined \cup {u}
  /\ UNCHANGED <<memory, lib, proc, handle, making, told, stranded>>

get_exit_code(t, u) ==
  /\ Busy(t) /\ handle[u] = "open"
  /\ told' = IF u \in joined THEN told \cup {<<u, code[u]>>} ELSE told
  /\ UNCHANGED <<memory, lib, proc, handle, making, joined, stranded>>

close(t, u) ==
  /\ Busy(t) /\ handle[u] = "open"
  /\ handle' = [handle EXCEPT ![u] = "closed"]
  /\ UNCHANGED <<memory, lib, proc, making, hist>>

\* TlsFree(): what was stored under the index is not to be found again.
deinitialize ==
  /\ valid /\ making[Main] = None
  /\ \A u \in Created : stage[u] \in {"none", "exited"}
  /\ valid' = FALSE
  /\ tls' = [t \in All |-> None]
  /\ stranded' = stranded \cup ({tls[Main]} \ {None})
  /\ UNCHANGED <<memory, inits, proc, handle, making, joined, told>>

initialize ==
  /\ ~valid /\ inits < MaxInits
  /\ valid' = TRUE /\ inits' = inits + 1
  /\ UNCHANGED <<memory, tls, proc, handle, making, hist>>

Next ==
  \/ \E t \in All :
       \/ NewData(t) \/ CreateFails(t) \/ attach_info(t)
       \/ \E u \in Created : CreateThread(t, u) \/ join(t, u) \/ get_exit_code(t, u) \/ close(t, u)
  \/ \E t \in Created :
       \/ Begin(t) \/ PreRoutine(t) \/ StartRoutine(t)
       \/ EndRoutine(t) \/ FreeData(t) \/ Return(t)
  \/ deinitialize \/ initialize
-----------------------------------------------------------------------------
OwnsData(t) == stage[t] \in {"born", "pre", "start", "end", "free"}

(* The block of a thread is live from CreateThread() until the thread      *)
(* frees it, get_curr_thread_data() gives it in all its routines, and no   *)
(* two threads have the same one.  Every other live block is one that      *)
(* thread_create_ex() is about to use or that thread_attach_info() made:   *)
(* no failure leaves one behind (dg_thread.c:60-120, 219-251).             *)
DataOwned ==
  /\ \A t \in Created : OwnsData(t) =>
       /\ memory[block[t]] = "live"
       /\ stage[t] # "born" => tls[t] = block[t]
       /\ \A u \in Created \ {t} : OwnsData(u) => block[u] # block[t]
  /\ {b \in Blocks : memory[b] = "live"} =
       ({block[t] : t \in {u \in Created : OwnsData(u)}}
          \cup {making[t] : t \in All} \cup {tls[Main]} \cup stranded) \ {None}

(* "If the thread has joined, DGERR_SUCCESS is returned" (dg_thread.h:96): *)
(* a thread that was joined runs none of its routines any more, its block  *)
(* is freed, and its exit code is what its start routine returned.         *)
JoinedEnded ==
  /\ \A u \in joined : stage[u] = "exited" /\ memory[block[u]] = "freed"
  /\ \A k \in told : k[2] = return_value[k[1]]
=============================================================================
