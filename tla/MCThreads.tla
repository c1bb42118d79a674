------------------------------ MODULE MCThreads ------------------------------
(***************************************************************************)
(* The thread pool, and the threads it is made of: `part` says which of    *)
(* them a behaviour exercises.  The workers are the threads that are made. *)
(***************************************************************************)
EXTENDS MCThreadPool

CONSTANTS
  Main, Blocks, None,
  Codes, StillActive,   \* exit codes
  MaxInits              \* bound of the model: of Thread

ASSUME ThreadAssumption == Main \notin Workers /\ None \notin Blocks

VARIABLES
  part,
  memory, tls, valid, inits, threadStage, block, return_value, code, handle,
  making, joined, told, stranded

threadVars ==
  <<memory, tls, valid, inits, threadStage, block, return_value, code, handle,
    making, joined, told, stranded>>

Thread == INSTANCE Thread WITH Created <- Workers, stage <- threadStage

PartInit ==
  /\ part \in {"pool", "threads"}
  /\ Init /\ Thread!Init
  /\ part = "threads" => plan \in Deinit

PartNext ==
  /\ \/ part = "pool" /\ Next
     \/ part # "pool" /\ UNCHANGED vars
  /\ \/ part = "threads" /\ Thread!Next
     \/ part # "threads" /\ UNCHANGED threadVars
  /\ UNCHANGED part

PartSpec == PartInit /\ [][PartNext]_<<part, vars, threadVars>>

(* The block of a thread is its own until it frees it, none is lost, and a *)
(* thread that was joined has ended, and told how.                         *)
ThreadsAccounted == Thread!DataOwned /\ Thread!JoinedEnded
=============================================================================
