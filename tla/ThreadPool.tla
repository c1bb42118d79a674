----------------------------- MODULE ThreadPool -----------------------------
(***************************************************************************)
(* The thread pool of dglib/src/dg_threadpool.c over the queue of MtQueue. *)
(* The owner makes the workers in tp_init() one by one, and they run while *)
(* it makes the others; it may fail in between.                            *)
(* Workers loop on the status flag and take tasks with mtqueue_get_front,  *)
(* clients add tasks with mtqueue_try_add_back, and the owner shuts the    *)
(* pool down: tp_stop() sets the status and adds one termination marker    *)
(* per worker, tp_join() waits for one post of pfinish_sem per worker, and *)
(* tp_deinit() does both and frees everything.                             *)
(*                                                                         *)
(* A worker reads its task through the pointer mtqueue_get_front returned, *)
(* once to tell a marker from a task and again when the task runs; the     *)
(* statements that fill in pworker and tstart are left out.  Clients do    *)
(* not call a pool whose owner has begun to shut it down.                  *)
(***************************************************************************)
EXTENDS Integers, Sequences, FiniteSets

CONSTANTS
  Workers, Clients, Owner,   \* the threads
  Tasks,                     \* what clients add, each once
  Markers,                   \* the termination markers tp_stop() adds
  Plans,                     \* the shutdown calls an owner may make, in order
  Capacity, NoThread, Empty  \* of the queue

Threads == Workers \cup Clients \cup {Owner}
Items == Tasks \cup Markers

VARIABLES
  pdata, head, tail, count, head_mtx, tail_mtx, slots_sem, items_sem,
  pc, op, arg, ptr, taken, unused,   \* ptp->tasks and the calls inside it
  status,        \* ptp->status
  pfinish_sem,   \* ptp->pfinish_sem
  alive,         \* the pool has not been freed
  entries,       \* the size of ptp->workers
  stage,         \* where each worker and the owner stand outside the queue
  plan,          \* the calls the owner has still to finish
  i,             \* the owner's loop counter in tp_stop() and tp_join()
  accepted,      \* history: tasks tp_task_add() returned DGERR_SUCCESS for
  runs           \* history: how often each item was run as a task

queue == <<pdata, head, tail, count, head_mtx, tail_mtx, slots_sem, items_sem,
           pc, op, arg, ptr, taken, unused>>
history == <<accepted, runs>>
pool == <<status, pfinish_sem, alive, entries, stage, plan, i, accepted, runs>>
vars == <<pdata, head, tail, count, head_mtx, tail_mtx, slots_sem, items_sem,
          pc, op, arg, ptr, taken, unused,
          status, pfinish_sem, alive, entries, stage, plan, i, accepted, runs>>

Q == INSTANCE MtQueue WITH Values <- Items

Calls == {"stop", "join", "free"}

\* tp_deinit() frees after tp_join() only.
InOrder(p) == \A k \in 1 .. Len(p) - 1 : p[k + 1] = "free" => p[k] = "join"
FreesNext(p) == p # <<>> /\ Head(p) = "free"

ASSUME ThreadPoolAssumption ==
  /\ Workers # {} /\ IsFiniteSet(Threads)
  /\ Workers \cap Clients = {} /\ Owner \notin Workers \cup Clients
  /\ Tasks \cap Markers = {}
  /\ Q!MtQueueAssumption
  /\ \A p \in Plans : p \in Seq(Calls) /\ InOrder(p) /\ ~FreesNext(p)

NumWorkers == entries   \* darray_get_size(&ptp->workers)
Started == {w \in Workers : stage[w] # "none"}

GotoStage(t, from, to) == stage[t] = from /\ stage' = [stage EXCEPT ![t] = to]
-----------------------------------------------------------------------------
(* tp_init() has made the semaphore and the queue and set the status.      *)
Init ==
  /\ Q!Init
  /\ status = "running"
  /\ pfinish_sem = 0
  /\ alive = TRUE
  /\ entries = 0
  /\ stage = [t \in Workers \cup {Owner} |-> IF t = Owner THEN "init" ELSE "none"]
  /\ plan \in Plans
  /\ i = 0
  /\ accepted = {}
  /\ runs = [x \in Items |-> 0]

\* The array has room for all workers once it has memory, so the entries of
\* workers that run stay where they are.
InitWorker(w) ==
  /\ stage[Owner] = "init"
  /\ entries' = entries + 1
  /\ GotoStage(w, "none", "check")
  /\ UNCHANGED <<queue, status, pfinish_sem, alive, plan, i, history>>

\* The thread cannot be made: its entry stays, and so do the workers that run.
InitNoThread ==
  /\ Started # Workers
  /\ GotoStage(Owner, "init", "idle")
  /\ entries' = entries + 1
  /\ UNCHANGED <<queue, status, pfinish_sem, alive, plan, i, history>>

\* No memory for the queue or the array.
InitNoMemory ==
  /\ Started = {}
  /\ GotoStage(Owner, "init", "idle")
  /\ UNCHANGED <<queue, status, pfinish_sem, alive, entries, plan, i, history>>

InitReturn ==
  /\ Started = Workers
  /\ GotoStage(Owner, "init", "idle")
  /\ UNCHANGED <<queue, status, pfinish_sem, alive, entries, plan, i, history>>

(* thread_pool_workers_entry() *)
CheckRunning(w) ==
  /\ status = "running"
  /\ GotoStage(w, "check", "test")
  /\ Q!Get(w, "get_front")
  /\ UNCHANGED <<status, pfinish_sem, alive, entries, plan, i, history>>

CheckTerminated(w) ==
  /\ status # "running"
  /\ GotoStage(w, "check", "finish")
  /\ UNCHANGED <<queue, status, pfinish_sem, alive, entries, plan, i, history>>

TestMarker(w) ==
  /\ pc[w] = "use"
  /\ pdata[ptr[w]] \in Markers
  /\ GotoStage(w, "test", "finish")
  /\ Q!Use(w)
  /\ UNCHANGED <<status, pfinish_sem, alive, entries, plan, i, history>>

\* Mutation of TestTask: the entry of a task is not compared with NULL.
TestTaskAny(w) ==
  /\ pc[w] = "use"
  /\ GotoStage(w, "test", "run")
  /\ UNCHANGED <<queue, status, pfinish_sem, alive, entries, plan, i, history>>

TestTask(w) ==
  /\ pc[w] = "use"
  /\ pdata[ptr[w]] \notin Markers
  /\ GotoStage(w, "test", "run")
  /\ UNCHANGED <<queue, status, pfinish_sem, alive, entries, plan, i, history>>

Run(w) ==
  /\ GotoStage(w, "run", "check")
  /\ runs' = [runs EXCEPT ![pdata[ptr[w]]] = @ + 1]
  /\ Q!Use(w)
  /\ UNCHANGED <<status, pfinish_sem, alive, entries, plan, i, accepted>>

\* Mutation of Finish: the semaphore is not posted.
FinishSilently(w) ==
  /\ GotoStage(w, "finish", "exited")
  /\ UNCHANGED <<queue, status, pfinish_sem, alive, entries, plan, i, history>>

Finish(w) ==
  /\ GotoStage(w, "finish", "exited")
  /\ pfinish_sem' = pfinish_sem + 1
  /\ UNCHANGED <<queue, status, alive, entries, plan, i, history>>

(* tp_task_add(), of a client that knows that tp_init() succeeded *)
TaskAdd(c, v) ==
  /\ stage[Owner] = "idle" /\ Started = Workers /\ status = "running"
  /\ v \in Tasks \cap unused
  /\ Q!Add(c, "try_add_back", v)
  /\ UNCHANGED pool

TaskAdded(c) ==
  /\ Q!PostItem(c)
  /\ accepted' = accepted \cup {arg[c]}
  /\ UNCHANGED <<status, pfinish_sem, alive, entries, stage, plan, i, runs>>

(* tp_stop(); the owner starts it when no client is in a call *)
Stop ==
  /\ plan # <<>> /\ Head(plan) = "stop"
  /\ \A c \in Clients : pc[c] \in {"idle", "refused"}
  /\ GotoStage(Owner, "idle", "stop")
  /\ status' = "terminate"
  /\ i' = 0
  /\ UNCHANGED <<queue, pfinish_sem, alive, entries, plan, history>>

StopAddMarker ==
  /\ stage[Owner] = "stop" /\ pc[Owner] = "idle"
  /\ i < NumWorkers
  /\ \E m \in Markers \cap unused : Q!Add(Owner, "add_back", m)
  /\ i' = i + 1
  /\ UNCHANGED <<status, pfinish_sem, alive, entries, stage, plan, history>>

StopReturn ==
  /\ i = NumWorkers /\ pc[Owner] = "idle"
  /\ GotoStage(Owner, "stop", "idle")
  /\ plan' = Tail(plan)
  /\ UNCHANGED <<queue, status, pfinish_sem, alive, entries, i, history>>

(* tp_join() *)
Join ==
  /\ plan # <<>> /\ Head(plan) = "join"
  /\ GotoStage(Owner, "idle", "join")
  /\ i' = 0
  /\ UNCHANGED <<queue, status, pfinish_sem, alive, entries, plan, history>>

JoinWait ==
  /\ stage[Owner] = "join"
  /\ i < NumWorkers /\ pfinish_sem > 0
  /\ pfinish_sem' = pfinish_sem - 1
  /\ i' = i + 1
  /\ UNCHANGED <<queue, status, alive, entries, stage, plan, history>>

\* Mutation of JoinReturn: the loop ends one worker early.
JoinReturnEarly ==
  /\ i >= NumWorkers - 1
  /\ GotoStage(Owner, "join", "idle")
  /\ plan' = Tail(plan)
  /\ UNCHANGED <<queue, status, pfinish_sem, alive, entries, i, history>>

JoinReturn ==
  /\ i = NumWorkers
  /\ GotoStage(Owner, "join", "idle")
  /\ plan' = Tail(plan)
  /\ UNCHANGED <<queue, status, pfinish_sem, alive, entries, i, history>>

\* The rest of tp_deinit(): close the threads, free the queue and the pool.
Free ==
  /\ plan # <<>> /\ Head(plan) = "free"
  /\ stage[Owner] = "idle"
  /\ alive' = FALSE
  /\ plan' = Tail(plan)
  /\ UNCHANGED <<queue, status, pfinish_sem, entries, stage, i, history>>

QueueStep(t) ==
  /\ \/ Q!Wait(t) \/ Q!Refuse(t) \/ Q!Lock(t) \/ Q!AddBack(t) \/ Q!GetFront(t)
     \/ Q!Unlock(t) \/ Q!PostSlot(t) \/ (t = Owner /\ Q!PostItem(t))
  /\ UNCHANGED pool

WorkerStep(w) ==
  \/ CheckRunning(w) \/ CheckTerminated(w) \/ TestMarker(w) \/ TestTask(w)
  \/ Run(w) \/ Finish(w) \/ QueueStep(w)

ClientStep(c) == TaskAdded(c) \/ QueueStep(c)

OwnerStep ==
  \/ \E w \in Workers : InitWorker(w)
  \/ InitNoThread \/ InitNoMemory \/ InitReturn
  \/ Stop \/ StopAddMarker \/ StopReturn
  \/ Join \/ JoinWait \/ JoinReturn \/ Free
  \/ QueueStep(Owner)

Next ==
  \/ \E w \in Workers : WorkerStep(w)
  \/ \E c \in Clients : ClientStep(c) \/ \E v \in Tasks : TaskAdd(c, v)
  \/ OwnerStep

Spec == Init /\ [][Next]_vars

\* Every thread inside the pool keeps running; whether a client adds a task,
\* and whether the owner ever begins to shut down, is theirs to choose.
OwnerGoesOn == OwnerStep /\ ~Stop
Fairness ==
  /\ \A w \in Workers : WF_vars(WorkerStep(w))
  /\ \A c \in Clients : WF_vars(ClientStep(c))
  /\ WF_vars(OwnerGoesOn)

FairSpec == Spec /\ Fairness
-----------------------------------------------------------------------------
TypeOK ==
  /\ Q!TypeOK
  /\ status \in {"running", "terminate"}
  /\ pfinish_sem \in 0 .. Cardinality(Workers)
  /\ alive \in BOOLEAN
  /\ entries \in 0 .. Cardinality(Workers)
  /\ stage \in [Workers \cup {Owner} ->
                  {"none", "init", "check", "test", "run", "finish", "exited", "idle", "stop", "join"}]
  /\ i \in 0 .. Cardinality(Workers)
  /\ accepted \subseteq Tasks
  /\ runs \in [Items -> Nat]

(* tp_deinit() frees the queue and the semaphore only when no worker will  *)
(* touch them again, also when tp_init() failed with workers running.      *)
NoUseAfterFree ==
  /\ TypeOK
  /\ ~alive => \A w \in Started : stage[w] = "exited"

(* A task runs once and a marker never runs.                               *)
RunsOnce ==
  /\ \A v \in Tasks : runs[v] <= 1
  /\ \A m \in Markers : runs[m] = 0

(* A task whose tp_task_add() succeeded is run, unless the pool is stopped *)
(* first.                                                                  *)
AcceptedRuns ==
  \A v \in Tasks : v \in accepted ~> (runs[v] > 0 \/ status = "terminate")

(* A shutdown that has begun comes to its end: tp_stop() finds room for    *)
(* the markers, every worker leaves its loop and tp_join() counts them.    *)
(* The exception is a pool whose tp_init() could not make a thread: its    *)
(* entry is counted and nobody posts for it.                               *)
ShutdownReturns ==
  status = "terminate" ~> (plan = <<>> \/ entries > Cardinality(Started))
=============================================================================
