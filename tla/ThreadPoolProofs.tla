-------------------------- MODULE ThreadPoolProofs --------------------------
(***************************************************************************)
(* Proofs about ThreadPool and Thread for every number of workers and      *)
(* clients, every capacity of the queue and every order of shutdown calls  *)
(* that frees only after a join.  The queue's own invariant comes from     *)
(* MtQueueProofs.                                                          *)
(***************************************************************************)
EXTENDS MCThreads, FiniteSetTheorems, SequenceTheorems, TLAPS

QP == INSTANCE MtQueueProofs WITH Values <- Items

Exited == {w \in Workers : stage[w] = "exited"}

\* The workers tp_join() has counted, as long as that is what i says.
Joined == IF stage[Owner] = "join" \/ FreesNext(plan) THEN i ELSE 0

\* Every post of pfinish_sem and every wait that took one is a worker that
\* has left its loop.
Counted ==
  /\ pfinish_sem + Joined <= Cardinality(Exited)
  /\ Cardinality(Started) <= entries /\ entries <= Cardinality(Workers)
  /\ i <= entries
  /\ ~alive => entries <= Cardinality(Exited)

\* Where the owner stands in its plan.
Planned ==
  /\ plan \in Seq(Calls) /\ InOrder(plan)
  /\ stage[Owner] \in {"init", "idle", "stop", "join"}
  /\ stage[Owner] = "init" => alive /\ entries = Cardinality(Started) /\ ~FreesNext(plan)
  /\ stage[Owner] = "stop" => plan # <<>> /\ Head(plan) = "stop"
  /\ stage[Owner] = "join" => plan # <<>> /\ Head(plan) = "join"
  /\ FreesNext(plan) => stage[Owner] = "idle" /\ i = entries

\* Clients add tasks.
ClientsAddTasks ==
  \A c \in Clients : pc[c] \in {"wait", "lock", "work", "unlock", "post"} => arg[c] \in Tasks

\* The type invariant but for the bounds that Counted gives.
Typed ==
  /\ status \in {"running", "terminate"}
  /\ alive \in BOOLEAN
  /\ pfinish_sem \in Nat /\ entries \in Nat /\ i \in Nat
  /\ stage \in [Workers \cup {Owner} ->
                  {"none", "init", "check", "test", "run", "finish", "exited", "idle", "stop", "join"}]
  /\ accepted \subseteq Tasks
  /\ runs \in [Items -> Nat]

IInv == QP!IInv /\ Typed /\ Counted /\ Planned /\ ClientsAddTasks

LEMMA QueueAssumption ==
  /\ QP!MtQueueAssumption
  /\ IsFiniteSet(Threads) /\ IsFiniteSet(Workers)
<1>1. IsFiniteSet(Threads) /\ Workers \in SUBSET Threads
  BY ThreadPoolAssumption DEF Threads
<1> QED
  BY <1>1, ThreadPoolAssumption, FS_Subset DEF Q!MtQueueAssumption, QP!MtQueueAssumption

(* What is left of a plan when its first call is done.                     *)
LEMMA RestOfPlan ==
  ASSUME NEW p \in Seq(Calls), InOrder(p), p # <<>>
  PROVE  /\ Tail(p) \in Seq(Calls) /\ InOrder(Tail(p))
         /\ Head(p) # "join" => ~FreesNext(Tail(p))
<1>1. /\ Tail(p) \in Seq(Calls) /\ Len(p) \in Nat /\ Len(p) >= 1 /\ Len(Tail(p)) = Len(p) - 1
      /\ \A k \in 1 .. Len(Tail(p)) : Tail(p)[k] = p[k + 1]
  BY EmptySeq, LenProperties, HeadTailProperties
<1>2. InOrder(Tail(p))
  <2> SUFFICES ASSUME NEW k \in 1 .. Len(Tail(p)) - 1, Tail(p)[k + 1] = "free"
               PROVE  Tail(p)[k] = "join"
    BY DEF InOrder
  <2>1. k \in 1 .. Len(Tail(p)) /\ k + 1 \in 1 .. Len(Tail(p)) /\ k + 1 \in 1 .. Len(p) - 1
    BY <1>1
  <2>2. Tail(p)[k] = p[k + 1] /\ Tail(p)[k + 1] = p[(k + 1) + 1]
    BY <1>1, <2>1
  <2> QED
    BY <2>1, <2>2 DEF InOrder
<1>3. ASSUME FreesNext(Tail(p)) PROVE Head(p) = "join"
  <2>1. Tail(p) # <<>> /\ Tail(p)[1] = "free"
    BY <1>1, <1>3 DEF FreesNext
  <2>2. Len(Tail(p)) >= 1
    BY <1>1, <2>1, EmptySeq
  <2>3. 1 \in 1 .. Len(Tail(p)) /\ 1 \in 1 .. Len(p) - 1
    BY <1>1, <2>2
  <2>4. p[1 + 1] = "free"
    BY <1>1, <2>1, <2>3
  <2>5. p[1] = "join"
    BY <2>3, <2>4 DEF InOrder
  <2> QED
    BY <2>5
<1> QED
  BY <1>1, <1>2, <1>3

LEMMA OneMore ==
  ASSUME NEW S \in SUBSET Workers, NEW w \in Workers
  PROVE  /\ Cardinality(S) \in Nat /\ Cardinality(S) <= Cardinality(Workers)
         /\ w \notin S => Cardinality(S \cup {w}) = Cardinality(S) + 1
         /\ S # Workers => Cardinality(S) < Cardinality(Workers)
<1>1. IsFiniteSet(S)
  BY QueueAssumption, FS_Subset
<1> QED
  BY <1>1, QueueAssumption, FS_Subset, FS_CardinalityType, FS_AddElement

LEMMA CardinalitiesAre ==
  /\ Exited \in SUBSET Workers /\ Started \in SUBSET Workers
  /\ Cardinality(Exited) \in Nat /\ Cardinality(Started) \in Nat /\ Cardinality(Workers) \in Nat
  /\ Cardinality(Exited) <= Cardinality(Workers)
<1>1. Exited \in SUBSET Workers /\ Started \in SUBSET Workers
  BY DEF Exited, Started
<1> QED
  BY <1>1, QueueAssumption, FS_Subset, FS_CardinalityType
-----------------------------------------------------------------------------
LEMMA InitHolds == Init => IInv
<1> SUFFICES ASSUME Init PROVE IInv
  OBVIOUS
<1> USE DEF Init
<1>1. QP!IInv
  <2>1. QP!Init
    BY DEF Q!Init, QP!Init, Q!Slots, QP!Slots
  <2> QED
    BY <2>1, QueueAssumption, QP!InitHolds DEF QP!MtQueueAssumption
<1>2. Typed
  BY DEF Typed
<1>3. Started = {} /\ Exited = {}
  BY ThreadPoolAssumption DEF Started, Exited
<1>4. stage[Owner] = "init" /\ plan \in Seq(Calls) /\ InOrder(plan) /\ ~FreesNext(plan)
  BY ThreadPoolAssumption
<1>5. Counted /\ Planned
  BY <1>3, <1>4, FS_EmptySet, CardinalitiesAre DEF Counted, Planned, Joined
<1>6. ClientsAddTasks
  BY DEF ClientsAddTasks, Q!Init, Threads
<1> QED
  BY <1>1, <1>2, <1>5, <1>6 DEF IInv
-----------------------------------------------------------------------------
(* Every step of the pool is one of its queue, or leaves the queue alone.  *)
LEMMA StepInQueue ==
  ASSUME [Next]_vars
  PROVE  [QP!Next]_(QP!vars)
<1> USE DEF Q!Goto, QP!Goto, Q!ring, QP!ring, Q!sems, QP!sems, Q!mutexes, QP!mutexes,
            Q!locals, QP!locals, Q!Adding, QP!Adding, Q!Getting, QP!Getting,
            Q!Blocking, QP!Blocking, Q!Trying, QP!Trying, Q!AtFront, QP!AtFront
<1>1. /\ \A w \in Workers : w \in Threads
      /\ \A c \in Clients : c \in Threads
      /\ Owner \in Threads
      /\ \A x \in Tasks \cup Markers : x \in Items
  BY DEF Threads, Items
<1>2. ASSUME NEW t \in Threads, QueueStep(t) PROVE QP!Next
  <2>1. QP!Step(t)
    <3>1. CASE Q!Wait(t) \/ Q!Refuse(t) \/ Q!Lock(t) \/ Q!Unlock(t)
      BY <3>1 DEF Q!Wait, QP!Wait, Q!Refuse, QP!Refuse, Q!Lock, QP!Lock,
                  Q!Unlock, QP!Unlock, QP!Step
    <3>2. CASE Q!AddBack(t) \/ Q!GetFront(t)
      BY <3>2 DEF Q!AddBack, QP!AddBack, Q!GetFront, QP!GetFront, Q!After, QP!After, QP!Step
    <3>3. CASE Q!PostSlot(t) \/ Q!PostItem(t)
      BY <3>3 DEF Q!PostSlot, QP!PostSlot, Q!PostItem, QP!PostItem, QP!Step
    <3> QED
      BY <1>2, <3>1, <3>2, <3>3 DEF QueueStep
  <2> QED
    BY <2>1 DEF QP!Next
<1>3. ASSUME NEW t \in Threads, Q!Use(t) PROVE QP!Next
  <2>1. QP!Use(t)
    BY <1>3 DEF Q!Use, QP!Use
  <2> QED
    BY <2>1 DEF QP!Next, QP!Step
<1>4. ASSUME NEW t \in Threads, Q!PostItem(t) PROVE QP!Next
  <2>1. QP!PostItem(t)
    BY <1>4 DEF Q!PostItem, QP!PostItem
  <2> QED
    BY <2>1 DEF QP!Next, QP!Step
<1>5. ASSUME NEW t \in Threads, NEW x \in unused,
             Q!Add(t, "try_add_back", x) \/ Q!Add(t, "add_back", x)
      PROVE  QP!Next
  <2>1. QP!Add(t, "try_add_back", x) \/ QP!Add(t, "add_back", x)
    BY <1>5 DEF Q!Add, QP!Add
  <2> QED
    BY <2>1 DEF QP!Next, QP!Call
<1>6. ASSUME NEW t \in Threads, Q!Get(t, "get_front") PROVE QP!Next
  <2>1. QP!Get(t, "get_front")
    BY <1>6 DEF Q!Get, QP!Get
  <2> QED
    BY <2>1 DEF QP!Next, QP!Call
<1>7. ASSUME UNCHANGED queue PROVE UNCHANGED QP!vars
  BY <1>7 DEF queue, QP!vars
<1>8. ASSUME NEW w \in Workers, WorkerStep(w) PROVE QP!Next \/ UNCHANGED QP!vars
  BY <1>1, <1>2, <1>3, <1>6, <1>7, <1>8 DEF WorkerStep, CheckRunning, CheckTerminated,
     TestMarker, TestTask, Run, Finish
<1>9. ASSUME NEW c \in Clients, ClientStep(c) \/ \E v \in Tasks : TaskAdd(c, v)
      PROVE  QP!Next
  BY <1>1, <1>2, <1>4, <1>5, <1>9 DEF ClientStep, TaskAdded, TaskAdd
<1>10. ASSUME OwnerStep PROVE QP!Next \/ UNCHANGED QP!vars
  BY <1>1, <1>2, <1>5, <1>7, <1>10 DEF OwnerStep, InitWorker, InitNoThread, InitNoMemory,
     InitReturn, Stop, StopAddMarker, StopReturn, Join, JoinWait, JoinReturn, Free
<1>11. ASSUME UNCHANGED vars PROVE UNCHANGED QP!vars
  BY <1>11 DEF vars, QP!vars
<1> QED
  BY <1>8, <1>9, <1>10, <1>11 DEF Next

(* What a client carries is a task until tp_task_add() returns.            *)
LEMMA ClientsKept ==
  ASSUME IInv, [Next]_vars
  PROVE  ClientsAddTasks'
<1> USE DEF ClientsAddTasks, Q!Goto, Q!locals
<1>1. /\ pc \in [Threads -> {"idle", "refused", "wait", "lock", "work", "unlock",
                             "post", "return", "use"}]
      /\ arg \in [Threads -> Items \cup {Empty}]
      /\ ClientsAddTasks
  BY DEF IInv, QP!IInv, QP!PermitsBalance, QP!TypeOK
<1>2. /\ Clients \subseteq Threads /\ Workers \subseteq Threads /\ Owner \in Threads
      /\ Workers \cap Clients = {} /\ Owner \notin Clients
  BY ThreadPoolAssumption DEF Threads
<1>3. ASSUME NEW t \in Threads, QueueStep(t) PROVE ClientsAddTasks'
  BY <1>1, <1>2, <1>3 DEF QueueStep, Q!Wait, Q!Refuse, Q!Lock, Q!AddBack, Q!GetFront,
     Q!Unlock, Q!PostSlot, Q!PostItem
<1>4. ASSUME NEW c \in Clients, TaskAdded(c) PROVE ClientsAddTasks'
  BY <1>1, <1>2, <1>4 DEF TaskAdded, Q!PostItem
<1>5. ASSUME NEW c \in Clients, NEW v \in Tasks, TaskAdd(c, v) PROVE ClientsAddTasks'
  BY <1>1, <1>2, <1>5 DEF TaskAdd, Q!Add
<1>6. ASSUME NEW t \in Threads \ Clients, pc'[t] # pc[t], \A u \in Threads \ {t} :
               pc'[u] = pc[u] /\ arg'[u] = arg[u]
      PROVE  ClientsAddTasks'
  BY <1>1, <1>2, <1>6
<1>7. ASSUME NEW w \in Workers, CheckRunning(w) \/ TestMarker(w) \/ Run(w)
      PROVE  ClientsAddTasks'
  BY <1>1, <1>2, <1>7 DEF CheckRunning, TestMarker, Run, Q!Get, Q!Use
<1>8. ASSUME StopAddMarker PROVE ClientsAddTasks'
  BY <1>1, <1>2, <1>8 DEF StopAddMarker, Q!Add
<1>9. ASSUME UNCHANGED <<pc, arg>> PROVE ClientsAddTasks'
  BY <1>1, <1>9
<1>10. ASSUME NEW w \in Workers, WorkerStep(w) PROVE ClientsAddTasks'
  BY <1>2, <1>3, <1>7, <1>9, <1>10 DEF WorkerStep, CheckTerminated, TestTask, Finish, queue
<1>11. ASSUME OwnerStep PROVE ClientsAddTasks'
  BY <1>2, <1>3, <1>8, <1>9, <1>11 DEF OwnerStep, InitWorker, InitNoThread, InitNoMemory,
     InitReturn, Stop, StopReturn, Join, JoinWait, JoinReturn, Free, queue
<1>12. CASE UNCHANGED vars
  BY <1>9, <1>12 DEF vars
<1> QED
  BY <1>2, <1>3, <1>4, <1>5, <1>10, <1>11, <1>12 DEF Next, ClientStep
-----------------------------------------------------------------------------
shutdown == <<pfinish_sem, alive, entries, plan, i>>

Rest == Typed /\ Counted /\ Planned

(* A step that neither starts nor ends a worker nor moves the owner.       *)
LEMMA WorkersGoOn ==
  ASSUME Rest, NEW t \in Workers, NEW from, NEW to,
         GotoStage(t, from, to), from \notin {"none", "exited"},
         to \in {"check", "test", "run", "finish"}, UNCHANGED shutdown
  PROVE  /\ stage' \in [Workers \cup {Owner} ->
                  {"none", "init", "check", "test", "run", "finish", "exited", "idle", "stop", "join"}]
         /\ Counted' /\ Planned'
<1> USE DEF Rest, Typed, GotoStage, shutdown
<1>1. t # Owner /\ stage'[Owner] = stage[Owner]
  BY ThreadPoolAssumption
<1>2. Started' = Started /\ Exited' = Exited
  BY DEF Started, Exited
<1> QED
  BY <1>1, <1>2 DEF Counted, Joined, Planned

LEMMA WorkerKept ==
  ASSUME Rest, NEW w \in Workers,
         \/ CheckRunning(w) \/ CheckTerminated(w) \/ TestMarker(w) \/ TestTask(w) \/ Run(w)
  PROVE  Rest'
<1> USE DEF Rest, Typed, shutdown, history
<1>1. CASE CheckRunning(w)
  BY <1>1, WorkersGoOn DEF CheckRunning
<1>2. CASE CheckTerminated(w)
  BY <1>2, WorkersGoOn DEF CheckTerminated
<1>3. CASE TestMarker(w)
  BY <1>3, WorkersGoOn DEF TestMarker
<1>4. CASE TestTask(w)
  BY <1>4, WorkersGoOn DEF TestTask
<1>5. CASE Run(w)
  <2>1. runs' \in [Items -> Nat]
    <3> DEFINE x == pdata[ptr[w]]
    <3>1. runs' = [runs EXCEPT ![x] = runs[x] + 1] /\ runs \in [Items -> Nat]
      BY <1>5 DEF Run
    <3>2. x \in Items => runs[x] + 1 \in Nat
      BY <3>1
    <3> HIDE DEF x
    <3> QED
      BY <3>1, <3>2
  <2> QED
    BY <1>5, <2>1, WorkersGoOn DEF Run
<1> QED
  BY <1>1, <1>2, <1>3, <1>4, <1>5

\* A worker's post of pfinish_sem comes with its exit.
LEMMA FinishKept ==
  ASSUME Rest, NEW w \in Workers, Finish(w)
  PROVE  Rest'
<1> USE DEF Rest, Typed
<1>1. /\ stage[w] = "finish" /\ stage' = [stage EXCEPT ![w] = "exited"]
      /\ pfinish_sem' = pfinish_sem + 1
      /\ UNCHANGED <<status, alive, entries, plan, i, accepted, runs>>
  BY DEF Finish, GotoStage, history
<1>2. w # Owner /\ stage'[Owner] = stage[Owner]
  BY <1>1, ThreadPoolAssumption
<1>3. Started' = Started /\ Exited' = Exited \cup {w} /\ w \notin Exited
  BY <1>1 DEF Started, Exited
<1>4. Cardinality(Exited') = Cardinality(Exited) + 1 /\ Cardinality(Exited) \in Nat
  BY <1>3, CardinalitiesAre, OneMore
<1>5. Counted'
  BY <1>1, <1>2, <1>3, <1>4, CardinalitiesAre DEF Counted, Joined
<1>6. Planned'
  BY <1>1, <1>2, <1>3 DEF Planned
<1> QED
  BY <1>1, <1>5, <1>6

(* tp_init(), thread by thread.                                            *)
LEMMA InitKept ==
  ASSUME Rest, (\E w \in Workers : InitWorker(w)) \/ InitNoThread \/ InitNoMemory \/ InitReturn
  PROVE  Rest'
<1> USE DEF Rest, Typed, GotoStage, history
<1>1. ASSUME NEW w \in Workers, InitWorker(w) PROVE Rest'
  <2>1. /\ stage[Owner] = "init" /\ stage[w] = "none" /\ stage' = [stage EXCEPT ![w] = "check"]
        /\ entries' = entries + 1
        /\ UNCHANGED <<status, pfinish_sem, alive, plan, i, accepted, runs>>
    BY <1>1 DEF InitWorker
  <2>2. w # Owner /\ stage'[Owner] = "init"
    BY <2>1, ThreadPoolAssumption
  <2>3. Started' = Started \cup {w} /\ w \notin Started /\ Exited' = Exited
    BY <2>1 DEF Started, Exited
  <2>4. /\ Cardinality(Started') = Cardinality(Started) + 1
        /\ Cardinality(Started) < Cardinality(Workers)
    BY <2>3, CardinalitiesAre, OneMore
  <2>5. entries = Cardinality(Started) /\ alive /\ ~FreesNext(plan)
    BY <2>1 DEF Planned
  <2>6. Counted'
    BY <2>1, <2>2, <2>3, <2>4, <2>5, CardinalitiesAre DEF Counted, Joined
  <2>7. Planned'
    BY <2>1, <2>2, <2>4, <2>5 DEF Planned
  <2> QED
    BY <2>1, <2>6, <2>7
<1>2. ASSUME InitNoThread \/ InitNoMemory \/ InitReturn PROVE Rest'
  <2>1. /\ stage[Owner] = "init" /\ stage' = [stage EXCEPT ![Owner] = "idle"]
        /\ entries' = entries \/ (entries' = entries + 1 /\ Started # Workers)
        /\ UNCHANGED <<status, pfinish_sem, alive, plan, i, accepted, runs>>
    BY <1>2 DEF InitNoThread, InitNoMemory, InitReturn
  <2>2. Started' = Started /\ Exited' = Exited /\ stage'[Owner] = "idle"
    BY <2>1, ThreadPoolAssumption DEF Started, Exited
  <2>3. entries = Cardinality(Started) /\ alive /\ ~FreesNext(plan)
    BY <2>1 DEF Planned
  <2>4. entries' \in Nat /\ entries <= entries' /\ entries' <= Cardinality(Workers)
    <3>1. Started # Workers => Cardinality(Started) < Cardinality(Workers)
      BY CardinalitiesAre, ThreadPoolAssumption, OneMore
    <3>2. entries \in Nat /\ entries <= Cardinality(Workers) /\ Cardinality(Workers) \in Nat
      BY CardinalitiesAre DEF Counted
    <3> QED
      BY <2>1, <2>3, <3>1, <3>2
  <2>5. Counted'
    BY <2>1, <2>2, <2>3, <2>4, CardinalitiesAre DEF Counted, Joined
  <2>6. Planned'
    BY <2>1, <2>2, <2>3 DEF Planned
  <2> QED
    BY <2>1, <2>4, <2>5, <2>6
<1> QED
  BY <1>1, <1>2

\* tp_stop() and the beginning of tp_join()
LEMMA StopKept ==
  ASSUME Rest, Stop \/ StopAddMarker \/ StopReturn \/ Join
  PROVE  Rest'
<1> USE DEF Rest, Typed, GotoStage, history
<1>1. CASE Stop \/ Join
  <2>1. /\ plan # <<>> /\ Head(plan) \in {"stop", "join"} /\ ~FreesNext(plan)
        /\ stage[Owner] = "idle" /\ stage' = [stage EXCEPT ![Owner] = Head(plan)] /\ i' = 0
        /\ status' \in {"running", "terminate"}
        /\ UNCHANGED <<pfinish_sem, alive, entries, plan, accepted, runs>>
    BY <1>1 DEF Stop, Join, FreesNext
  <2>2. Started' = Started /\ Exited' = Exited /\ stage'[Owner] = Head(plan)
    BY <2>1, ThreadPoolAssumption DEF Started, Exited
  <2>3. Counted'
    BY <2>1, <2>2, CardinalitiesAre DEF Counted, Joined
  <2>4. Planned'
    BY <2>1, <2>2 DEF Planned
  <2> QED
    BY <2>1, <2>3, <2>4
<1>2. CASE StopAddMarker
  <2>1. /\ stage[Owner] = "stop" /\ i < entries /\ i' = i + 1
        /\ UNCHANGED <<status, pfinish_sem, alive, entries, stage, plan, accepted, runs>>
    BY <1>2 DEF StopAddMarker, NumWorkers
  <2>2. Started' = Started /\ Exited' = Exited /\ ~FreesNext(plan)
    BY <2>1 DEF Started, Exited, Planned, FreesNext
  <2>3. Counted'
    BY <2>1, <2>2 DEF Counted, Joined
  <2>4. Planned'
    BY <2>1, <2>2 DEF Planned
  <2> QED
    BY <2>1, <2>3, <2>4
<1>3. CASE StopReturn
  <2>1. /\ stage[Owner] = "stop" /\ stage' = [stage EXCEPT ![Owner] = "idle"]
        /\ plan' = Tail(plan)
        /\ UNCHANGED <<status, pfinish_sem, alive, entries, i, accepted, runs>>
    BY <1>3 DEF StopReturn
  <2>2. Started' = Started /\ Exited' = Exited /\ stage'[Owner] = "idle"
    BY <2>1, ThreadPoolAssumption DEF Started, Exited
  <2>3. plan' \in Seq(Calls) /\ InOrder(plan') /\ ~FreesNext(plan') /\ ~FreesNext(plan)
    BY <2>1, RestOfPlan DEF Planned, FreesNext
  <2>4. Counted'
    BY <2>1, <2>2, <2>3 DEF Counted, Joined
  <2>5. Planned'
    BY <2>1, <2>2, <2>3 DEF Planned
  <2> QED
    BY <2>1, <2>4, <2>5
<1> QED
  BY <1>1, <1>2, <1>3

\* The waits of tp_join() take posts and count them; only when all are
\* counted does tp_deinit() free.
LEMMA JoinKept ==
  ASSUME Rest, JoinWait \/ JoinReturn \/ Free
  PROVE  Rest'
<1> USE DEF Rest, Typed, GotoStage, history
<1>1. CASE JoinWait
  <2>1. /\ stage[Owner] = "join" /\ i < entries /\ i' = i + 1
        /\ pfinish_sem > 0 /\ pfinish_sem' = pfinish_sem - 1
        /\ UNCHANGED <<status, alive, entries, stage, plan, accepted, runs>>
    BY <1>1 DEF JoinWait, NumWorkers
  <2>2. Started' = Started /\ Exited' = Exited /\ ~FreesNext(plan)
    BY <2>1 DEF Started, Exited, Planned, FreesNext
  <2>3. Counted'
    BY <2>1, <2>2, CardinalitiesAre DEF Counted, Joined
  <2>4. Planned'
    BY <2>1, <2>2 DEF Planned
  <2> QED
    BY <2>1, <2>3, <2>4
<1>2. CASE JoinReturn
  <2>1. /\ stage[Owner] = "join" /\ i = entries /\ stage' = [stage EXCEPT ![Owner] = "idle"]
        /\ plan' = Tail(plan)
        /\ UNCHANGED <<status, pfinish_sem, alive, entries, i, accepted, runs>>
    BY <1>2 DEF JoinReturn, NumWorkers
  <2>2. Started' = Started /\ Exited' = Exited /\ stage'[Owner] = "idle"
    BY <2>1, ThreadPoolAssumption DEF Started, Exited
  <2>3. plan' \in Seq(Calls) /\ InOrder(plan')
    BY <2>1, RestOfPlan DEF Planned
  <2>4. Counted'
    BY <2>1, <2>2, CardinalitiesAre DEF Counted, Joined
  <2>5. Planned'
    BY <2>1, <2>2, <2>3 DEF Planned
  <2> QED
    BY <2>1, <2>4, <2>5
<1>3. CASE Free
  <2>1. /\ plan # <<>> /\ FreesNext(plan) /\ stage[Owner] = "idle" /\ i = entries
        /\ alive' = FALSE /\ plan' = Tail(plan)
        /\ UNCHANGED <<status, pfinish_sem, entries, stage, i, accepted, runs>>
    BY <1>3 DEF Free, FreesNext, Planned
  <2>2. Started' = Started /\ Exited' = Exited
    BY <2>1 DEF Started, Exited
  <2>3. plan' \in Seq(Calls) /\ InOrder(plan') /\ ~FreesNext(plan')
    BY <2>1, RestOfPlan DEF Planned, FreesNext
  <2>4. entries <= Cardinality(Exited)
    BY <2>1, CardinalitiesAre DEF Counted, Joined
  <2>5. Counted'
    BY <2>1, <2>2, <2>3, <2>4, CardinalitiesAre DEF Counted, Joined
  <2>6. Planned'
    BY <2>1, <2>2, <2>3 DEF Planned
  <2> QED
    BY <2>1, <2>5, <2>6
<1> QED
  BY <1>1, <1>2, <1>3

\* Steps inside the queue, and those of the clients, change none of it.
LEMMA QueueStepKept ==
  ASSUME IInv,
         \/ \E t \in Threads : QueueStep(t)
         \/ \E c \in Clients : TaskAdded(c) \/ \E v \in Tasks : TaskAdd(c, v)
         \/ UNCHANGED vars
  PROVE  Rest'
<1>1. Rest /\ ClientsAddTasks
  BY DEF IInv, Rest
<1>2. UNCHANGED <<status, pfinish_sem, alive, entries, stage, plan, i, runs>>
  BY DEF QueueStep, TaskAdded, TaskAdd, pool, vars
<1>3. accepted' \subseteq Tasks
  <2>1. ASSUME NEW c \in Clients, TaskAdded(c) PROVE accepted' \subseteq Tasks
    BY <1>1, <2>1 DEF TaskAdded, Q!PostItem, Q!Goto, ClientsAddTasks, Rest, Typed
  <2>2. CASE accepted' = accepted
    BY <1>1, <2>2 DEF Rest, Typed
  <2> QED
    BY <2>1, <2>2 DEF QueueStep, TaskAdd, pool, vars
<1>4. Started' = Started /\ Exited' = Exited
  BY <1>2 DEF Started, Exited
<1> QED
  BY <1>1, <1>2, <1>3, <1>4 DEF Rest, Typed, Counted, Joined, Planned

LEMMA NextKeeps ==
  ASSUME IInv, [Next]_vars
  PROVE  IInv'
<1>1. QP!IInv'
  <2>1. QP!IInv /\ [QP!Next]_(QP!vars) /\ IsFiniteSet(Threads) /\ QP!MtQueueAssumption
    BY StepInQueue, QueueAssumption DEF IInv
  <2>2. QP!IsFiniteSet(Threads)
    BY <2>1, Zenon DEF IsFiniteSet, QP!IsFiniteSet
  <2> QED
    BY <2>1, <2>2, QP!NextKeeps DEF QP!MtQueueAssumption
<1>2. ClientsAddTasks'
  BY ClientsKept
<1>3. Rest
  BY DEF IInv, Rest
<1>4. Rest'
  <2>1. ASSUME NEW w \in Workers, WorkerStep(w) PROVE Rest'
    BY <1>3, <2>1, WorkerKept, FinishKept, QueueStepKept DEF WorkerStep, Threads
  <2>2. ASSUME NEW c \in Clients, ClientStep(c) \/ \E v \in Tasks : TaskAdd(c, v) PROVE Rest'
    BY <2>2, QueueStepKept DEF ClientStep, Threads
  <2>3. ASSUME OwnerStep PROVE Rest'
    BY <1>3, <2>3, InitKept, StopKept, JoinKept, QueueStepKept DEF OwnerStep, Threads
  <2> QED
    BY <2>1, <2>2, <2>3, QueueStepKept DEF Next
<1> QED
  BY <1>1, <1>2, <1>4 DEF IInv, Rest

\* As many workers have left as the array has entries: all that were started.
LEMMA AllHaveLeft ==
  ASSUME IInv
  PROVE  NoUseAfterFree
<1>1. TypeOK
  <2>1. Q!TypeOK
    BY DEF IInv, QP!IInv, QP!PermitsBalance, QP!TypeOK, Q!TypeOK, QP!Slots, Q!Slots,
           QP!Adding, Q!Adding, QP!Getting, Q!Getting, QP!Blocking, Q!Blocking, QP!Trying, Q!Trying
  <2>2. /\ pfinish_sem \in 0 .. Cardinality(Workers) /\ entries \in 0 .. Cardinality(Workers)
        /\ i \in 0 .. Cardinality(Workers)
    BY CardinalitiesAre DEF IInv, Typed, Counted, Joined
  <2> QED
    BY <2>1, <2>2 DEF IInv, Typed, TypeOK
<1>2. ASSUME ~alive PROVE \A w \in Started : stage[w] = "exited"
  <2>1. Exited \in SUBSET Started /\ IsFiniteSet(Started)
    BY QueueAssumption, CardinalitiesAre, FS_Subset DEF Exited, Started
  <2>2. Cardinality(Started) <= Cardinality(Exited)
    BY <1>2, CardinalitiesAre DEF IInv, Counted, Typed
  <2>3. Cardinality(Exited) <= Cardinality(Started)
    BY <2>1, FS_Subset
  <2>4. Started = Exited
    BY <2>1, <2>2, <2>3, CardinalitiesAre, FS_Subset
  <2> QED
    BY <2>4 DEF Exited
<1> QED
  BY <1>1, <1>2 DEF NoUseAfterFree

(* tp_deinit(), after any calls of tp_stop() and tp_join() and also of a   *)
(* pool whose tp_init() failed in the middle, frees the queue and the      *)
(* semaphore when every worker that was started has left its loop.         *)
THEOREM FreedWhenUnused == Spec => []NoUseAfterFree
<1>1. IInv => NoUseAfterFree
  BY AllHaveLeft
<1> QED
  BY InitHolds, NextKeeps, <1>1, PTL DEF Spec

-----------------------------------------------------------------------------
(***************************************************************************)
(* The threads themselves.  A block that is live has one holder: a thread  *)
(* that has not freed it, a thread_create_ex() that is about to use it,    *)
(* the main thread, or nobody any more when the library was shut down.     *)
(***************************************************************************)

Owning(u) == Thread!OwnsData(u)

Holder(b) ==
  \/ \E u \in Workers : Owning(u) /\ block[u] = b
  \/ \E t \in Thread!All : making[t] = b
  \/ tls[Main] = b
  \/ b \in stranded

ThreadsTyped ==
  /\ memory \in [Blocks -> {"free", "live", "freed"}]
  /\ tls \in [Thread!All -> Blocks \cup {None}]
  /\ valid \in BOOLEAN
  /\ threadStage \in [Workers ->
       {"none", "born", "pre", "start", "end", "free", "return", "exited"}]
  /\ block \in [Workers -> Blocks \cup {None}]
  /\ return_value \in [Workers -> Codes \cup {None}]
  /\ code \in [Workers -> Codes \cup {None, StillActive}]
  /\ making \in [Thread!All -> Blocks \cup {None}]
  /\ joined \subseteq Workers
  /\ stranded \subseteq Blocks

HoldersApart ==
  /\ \A b \in Blocks : memory[b] = "live" <=> Holder(b)
  /\ \A t, u \in Workers : Owning(t) /\ Owning(u) /\ block[t] = block[u] => t = u
  /\ \A t, u \in Thread!All : making[t] # None /\ making[t] = making[u] => t = u
  /\ \A u \in Workers : Owning(u) =>
       /\ block[u] \in Blocks
       /\ block[u] # tls[Main]
       /\ block[u] \notin stranded
       /\ \A t \in Thread!All : block[u] # making[t]
  /\ \A t \in Thread!All : making[t] # None =>
       making[t] # tls[Main] /\ making[t] \notin stranded
  /\ tls[Main] \notin stranded

\* Only a thread inside its start routine, or the main thread, makes another;
\* and none runs while the library is shut down.
Orderly ==
  /\ \A u \in Workers :
       /\ making[u] # None => threadStage[u] = "start"
       /\ threadStage[u] \in {"pre", "start", "end", "free"} => tls[u] = block[u]
       /\ threadStage[u] \in {"return", "exited"} =>
            block[u] \in Blocks /\ memory[block[u]] = "freed"
       /\ threadStage[u] = "exited" => code[u] = return_value[u]
       /\ ~valid => threadStage[u] \in {"none", "exited"}
  /\ ~valid => making[Main] = None /\ tls[Main] = None
  /\ \A u \in joined : threadStage[u] = "exited"
  /\ \A k \in told : k[1] \in joined /\ k[2] = return_value[k[1]]

ThreadsInv == ThreadsTyped /\ HoldersApart /\ Orderly

LEMMA ThreadsInit == Thread!Init => ThreadsInv
<1> SUFFICES ASSUME Thread!Init PROVE ThreadsInv
  OBVIOUS
<1> USE DEF Thread!Init, Thread!All
<1>1. ThreadsTyped
  BY DEF ThreadsTyped
<1>2. \A u \in Workers : ~Owning(u)
  BY DEF Owning, Thread!OwnsData
<1>3. HoldersApart
  BY <1>2, ThreadAssumption DEF HoldersApart, Holder
<1>4. Orderly
  BY DEF Orderly
<1> QED
  BY <1>1, <1>3, <1>4 DEF ThreadsInv

LEMMA ThreadsTypedKept ==
  ASSUME ThreadsInv, [Thread!Next]_threadVars
  PROVE  ThreadsTyped'
<1> USE DEF ThreadsInv, ThreadsTyped, Thread!NextStage, Thread!lib, Thread!proc, Thread!hist,
            Thread!All, Thread!Unused
<1>1. ASSUME NEW t \in Thread!All,
             Thread!NewData(t) \/ Thread!CreateFails(t) \/ Thread!attach_info(t)
      PROVE  ThreadsTyped'
  BY <1>1 DEF Thread!NewData, Thread!CreateFails, Thread!attach_info
<1>2. ASSUME NEW t \in Thread!All, NEW u \in Workers,
             \/ Thread!CreateThread(t, u) \/ Thread!join(t, u)
             \/ Thread!get_exit_code(t, u) \/ Thread!close(t, u)
      PROVE  ThreadsTyped'
  BY <1>2 DEF Thread!CreateThread, Thread!join, Thread!get_exit_code, Thread!close
<1>3. ASSUME NEW t \in Workers,
             \/ Thread!Begin(t) \/ Thread!PreRoutine(t) \/ Thread!StartRoutine(t)
             \/ Thread!EndRoutine(t) \/ Thread!FreeData(t) \/ Thread!Return(t)
      PROVE  ThreadsTyped'
  BY <1>3 DEF Thread!Begin, Thread!PreRoutine, Thread!StartRoutine, Thread!EndRoutine,
              Thread!FreeData, Thread!Return
<1>4. CASE Thread!deinitialize \/ Thread!initialize
  BY <1>4 DEF Thread!deinitialize, Thread!initialize
<1>5. CASE UNCHANGED threadVars
  BY <1>5 DEF threadVars
<1> QED
  BY <1>1, <1>2, <1>3, <1>4, <1>5 DEF Thread!Next

LEMMA ThreadMakes ==
  ASSUME ThreadsInv, NEW t \in Thread!All,
         Thread!NewData(t) \/ Thread!CreateFails(t)
  PROVE  HoldersApart' /\ Orderly'
<1> USE DEF Thread!lib, Thread!proc, Thread!hist, Thread!All
<1>1. /\ HoldersApart /\ Orderly /\ making \in [Thread!All -> Blocks \cup {None}]
      /\ memory \in [Blocks -> {"free", "live", "freed"}]
      /\ None \notin Blocks /\ Main \notin Workers
  BY ThreadAssumption DEF ThreadsInv, ThreadsTyped
<1>2. \A u \in Workers : Owning(u)' = Owning(u)
  BY DEF Owning, Thread!OwnsData, Thread!NewData, Thread!CreateFails
<1>3. UNCHANGED <<tls, valid, threadStage, block, return_value, code, joined, told, stranded>>
  BY DEF Thread!NewData, Thread!CreateFails
<1>4. CASE Thread!NewData(t)
  <2>1. PICK b \in Blocks :
          /\ memory[b] = "free"
          /\ memory' = [memory EXCEPT ![b] = "live"]
          /\ making' = [making EXCEPT ![t] = b]
    BY <1>4 DEF Thread!NewData, Thread!Unused
  <2>2. making[t] = None /\ valid /\ (t = Main \/ threadStage[t] = "start")
    BY <1>4 DEF Thread!NewData, Thread!Busy, Thread!Running
  <2>3. ~Holder(b)
    BY <1>1, <2>1 DEF HoldersApart
  <2>4. \A c \in Blocks : Holder(c)' <=> Holder(c) \/ c = b
    BY <1>1, <1>2, <1>3, <2>1, <2>2 DEF Holder
  <2>5. HoldersApart'
    BY <1>1, <1>2, <1>3, <2>1, <2>2, <2>3, <2>4 DEF HoldersApart, Holder
  <2>6. Orderly'
    BY <1>1, <1>3, <2>1, <2>2 DEF Orderly
  <2> QED
    BY <2>5, <2>6
<1>5. CASE Thread!CreateFails(t)
  <2>1. /\ making[t] \in Blocks
        /\ memory' = [memory EXCEPT ![making[t]] = "freed"]
        /\ making' = [making EXCEPT ![t] = None]
    BY <1>1, <1>5 DEF Thread!CreateFails
  <2>2. \A c \in Blocks : Holder(c)' <=> Holder(c) /\ c # making[t]
    BY <1>1, <1>2, <1>3, <2>1 DEF Holder, HoldersApart
  <2>3. HoldersApart'
    BY <1>1, <1>2, <1>3, <2>1, <2>2 DEF HoldersApart
  <2>4. Orderly'
    BY <1>1, <1>3, <2>1 DEF Orderly
  <2> QED
    BY <2>3, <2>4
<1> QED
  BY <1>4, <1>5

LEMMA ThreadBegins ==
  ASSUME ThreadsInv, NEW t \in Thread!All, NEW w \in Workers, Thread!CreateThread(t, w)
  PROVE  HoldersApart' /\ Orderly'
<1> USE DEF Thread!lib, Thread!proc, Thread!hist, Thread!All
<1>1. /\ HoldersApart /\ Orderly /\ making \in [Thread!All -> Blocks \cup {None}]
      /\ block \in [Workers -> Blocks \cup {None}]
      /\ threadStage \in [Workers ->
           {"none", "born", "pre", "start", "end", "free", "return", "exited"}]
      /\ memory \in [Blocks -> {"free", "live", "freed"}]
      /\ valid \in BOOLEAN
      /\ None \notin Blocks /\ Main \notin Workers
  BY ThreadAssumption DEF ThreadsInv, ThreadsTyped
<1>2. /\ making[t] \in Blocks /\ threadStage[w] = "none"
      /\ threadStage' = [threadStage EXCEPT ![w] = "born"]
      /\ block' = [block EXCEPT ![w] = making[t]]
      /\ making' = [making EXCEPT ![t] = None]
      /\ UNCHANGED <<memory, tls, valid, return_value, code, joined, told, stranded>>
  BY <1>1 DEF Thread!CreateThread, Thread!NextStage
<1>3. /\ Owning(w)' /\ block'[w] = making[t] /\ ~Owning(w)
      /\ \A u \in Workers \ {w} : Owning(u)' = Owning(u) /\ block'[u] = block[u]
      /\ making'[t] = None /\ \A u \in Thread!All \ {t} : making'[u] = making[u]
  BY <1>1, <1>2 DEF Owning, Thread!OwnsData
<1>4. \A c \in Blocks : Holder(c)' <=> Holder(c)
  BY <1>1, <1>2, <1>3 DEF Holder
<1>5. HoldersApart'
  BY <1>1, <1>2, <1>3, <1>4 DEF HoldersApart
<1>6. valid
  BY <1>1, <1>2 DEF Orderly
<1>7. Orderly'
  BY <1>1, <1>2, <1>6 DEF Orderly
<1> QED
  BY <1>5, <1>7

LEMMA ThreadRuns ==
  ASSUME ThreadsInv, NEW w \in Workers,
         \/ Thread!Begin(w) \/ Thread!PreRoutine(w) \/ Thread!StartRoutine(w)
         \/ Thread!EndRoutine(w) \/ Thread!FreeData(w) \/ Thread!Return(w)
  PROVE  HoldersApart' /\ Orderly'
<1> USE DEF Thread!lib, Thread!proc, Thread!hist, Thread!All, Thread!NextStage
<1>1. /\ HoldersApart /\ Orderly /\ making \in [Thread!All -> Blocks \cup {None}]
      /\ block \in [Workers -> Blocks \cup {None}]
      /\ threadStage \in [Workers ->
           {"none", "born", "pre", "start", "end", "free", "return", "exited"}]
      /\ memory \in [Blocks -> {"free", "live", "freed"}]
      /\ tls \in [Thread!All -> Blocks \cup {None}]
      /\ return_value \in [Workers -> Codes \cup {None}]
      /\ code \in [Workers -> Codes \cup {None, StillActive}]
      /\ None \notin Blocks /\ Main \notin Workers
  BY ThreadAssumption DEF ThreadsInv, ThreadsTyped
<1>2. UNCHANGED <<valid, block, making, joined, told, stranded>> /\ tls'[Main] = tls[Main]
  BY <1>1 DEF Thread!Begin, Thread!PreRoutine, Thread!StartRoutine, Thread!EndRoutine,
              Thread!FreeData, Thread!Return
<1>3. /\ threadStage[w] \notin {"none", "exited"} /\ valid /\ w \notin joined
      /\ \A u \in Workers \ {w} :
           /\ threadStage'[u] = threadStage[u] /\ tls'[u] = tls[u]
           /\ return_value'[u] = return_value[u] /\ code'[u] = code[u]
  BY <1>1 DEF Thread!Begin, Thread!PreRoutine, Thread!StartRoutine, Thread!EndRoutine,
              Thread!FreeData, Thread!Return, Orderly
<1>4. \A u \in Workers \ {w} : Owning(u)' = Owning(u)
  BY <1>3 DEF Owning, Thread!OwnsData
<1>5. CASE Thread!FreeData(w)
  <2>1. /\ Owning(w) /\ ~Owning(w)' /\ block[w] \in Blocks
        /\ memory' = [memory EXCEPT ![block[w]] = "freed"]
    BY <1>1, <1>5 DEF Thread!FreeData, Owning, Thread!OwnsData, HoldersApart
  <2>2. \A c \in Blocks : Holder(c)' <=> Holder(c) /\ c # block[w]
    BY <1>1, <1>2, <1>4, <2>1 DEF Holder, HoldersApart
  <2>3. HoldersApart'
    BY <1>1, <1>2, <1>4, <2>1, <2>2 DEF HoldersApart
  <2>4. Orderly'
    <3>1. /\ threadStage' = [threadStage EXCEPT ![w] = "return"]
          /\ UNCHANGED <<tls, return_value, code>> /\ threadStage[w] = "free"
      BY <1>5 DEF Thread!FreeData
    <3>2. \A u \in Workers : memory[block[u]] = "freed" /\ block[u] \in Blocks
                               => memory'[block[u]] = "freed"
      BY <1>1, <2>1
    <3> QED
      BY <1>1, <1>2, <1>3, <2>1, <3>1, <3>2 DEF Orderly
  <2> QED
    BY <2>3, <2>4
<1>6. CASE \/ Thread!Begin(w) \/ Thread!PreRoutine(w) \/ Thread!StartRoutine(w)
           \/ Thread!EndRoutine(w) \/ Thread!Return(w)
  <2>1. memory' = memory /\ Owning(w)' = Owning(w)
    BY <1>1, <1>6 DEF Owning, Thread!OwnsData, Thread!Begin, Thread!PreRoutine,
                      Thread!StartRoutine, Thread!EndRoutine, Thread!Return
  <2>2. \A c \in Blocks : Holder(c)' <=> Holder(c)
    BY <1>2, <1>4, <2>1 DEF Holder
  <2>3. HoldersApart'
    BY <1>1, <1>2, <1>4, <2>1, <2>2 DEF HoldersApart
  <2>4. /\ making[w] # None => threadStage'[w] = "start"
        /\ threadStage'[w] \in {"pre", "start", "end", "free"} => tls'[w] = block[w]
        /\ threadStage'[w] \in {"return", "exited"} =>
             block[w] \in Blocks /\ memory[block[w]] = "freed"
        /\ threadStage'[w] = "exited" => code'[w] = return_value'[w]
    BY <1>1, <1>6 DEF Orderly, Thread!Begin, Thread!PreRoutine, Thread!StartRoutine,
                      Thread!EndRoutine, Thread!Return, Thread!Busy
  <2>5. \A u \in Workers : ~valid' => threadStage'[u] \in {"none", "exited"}
    BY <1>2, <1>3
  <2>6. /\ \A u \in joined' : threadStage'[u] = "exited"
        /\ \A k \in told' : k[1] \in joined' /\ k[2] = return_value'[k[1]]
    BY <1>1, <1>2, <1>3 DEF Orderly, ThreadsInv, ThreadsTyped
  <2>7. \A u \in Workers :
          /\ making'[u] # None => threadStage'[u] = "start"
          /\ threadStage'[u] \in {"pre", "start", "end", "free"} => tls'[u] = block'[u]
          /\ threadStage'[u] \in {"return", "exited"} =>
               block'[u] \in Blocks /\ memory'[block'[u]] = "freed"
          /\ threadStage'[u] = "exited" => code'[u] = return_value'[u]
    <3> SUFFICES ASSUME NEW u \in Workers, u # w
                 PROVE  /\ making[u] # None => threadStage[u] = "start"
                        /\ threadStage[u] \in {"pre", "start", "end", "free"} => tls[u] = block[u]
                        /\ threadStage[u] \in {"return", "exited"} =>
                             block[u] \in Blocks /\ memory[block[u]] = "freed"
                        /\ threadStage[u] = "exited" => code[u] = return_value[u]
      BY <1>2, <1>3, <2>1, <2>4
    <3> QED
      BY <1>1 DEF Orderly
  <2>8. Orderly'
    BY <1>2, <1>3, <2>5, <2>6, <2>7 DEF Orderly
  <2> QED
    BY <2>3, <2>8
<1> QED
  BY <1>5, <1>6

LEMMA ThreadsSeen ==
  ASSUME ThreadsInv,
         \/ \E t \in Thread!All, w \in Workers :
              Thread!join(t, w) \/ Thread!get_exit_code(t, w) \/ Thread!close(t, w)
         \/ UNCHANGED threadVars
  PROVE  HoldersApart' /\ Orderly'
<1> USE DEF Thread!lib, Thread!proc, Thread!hist
<1>1. HoldersApart /\ Orderly /\ joined \subseteq Workers
  BY DEF ThreadsInv, ThreadsTyped
<1>2. UNCHANGED <<memory, tls, valid, threadStage, block, return_value, code, making, stranded>>
  BY DEF Thread!join, Thread!get_exit_code, Thread!close, threadVars
<1>3. HoldersApart'
  BY <1>1, <1>2 DEF HoldersApart, Holder, Owning, Thread!OwnsData
<1>4. /\ \A w \in joined' : threadStage[w] = "exited"
      /\ \A k \in told' : k[1] \in joined' /\ k[2] = return_value[k[1]]
  <2>1. ASSUME NEW t \in Thread!All, NEW w \in Workers, Thread!join(t, w)
        PROVE  /\ \A u \in joined' : threadStage[u] = "exited"
               /\ \A k \in told' : k[1] \in joined' /\ k[2] = return_value[k[1]]
    BY <1>1, <2>1 DEF Orderly, Thread!join, Thread!Ended
  <2>2. ASSUME NEW t \in Thread!All, NEW w \in Workers, Thread!get_exit_code(t, w)
        PROVE  /\ joined' = joined
               /\ \A k \in told' : k[1] \in joined /\ k[2] = return_value[k[1]]
    <3>1. joined' = joined /\ told' = IF w \in joined THEN told \cup {<<w, code[w]>>} ELSE told
      BY <2>2 DEF Thread!get_exit_code
    <3>2. w \in joined => code[w] = return_value[w]
      BY <1>1 DEF Orderly
    <3> QED
      BY <1>1, <3>1, <3>2 DEF Orderly
  <2>3. ASSUME \/ \E t \in Thread!All, w \in Workers : Thread!close(t, w)
               \/ UNCHANGED threadVars
        PROVE  joined' = joined /\ told' = told
    BY <2>3 DEF Thread!close, threadVars
  <2> QED
    BY <1>1, <2>1, <2>2, <2>3 DEF Orderly
<1>5. Orderly'
  BY <1>1, <1>2, <1>4 DEF Orderly
<1> QED
  BY <1>3, <1>5

LEMMA LibraryTurns ==
  ASSUME ThreadsInv,
         \/ \E t \in Thread!All : Thread!attach_info(t)
         \/ Thread!deinitialize \/ Thread!initialize
  PROVE  HoldersApart' /\ Orderly'
<1> USE DEF Thread!lib, Thread!proc, Thread!hist, Thread!All
<1>1. /\ HoldersApart /\ Orderly /\ making \in [Thread!All -> Blocks \cup {None}]
      /\ memory \in [Blocks -> {"free", "live", "freed"}]
      /\ tls \in [Thread!All -> Blocks \cup {None}] /\ valid \in BOOLEAN
      /\ threadStage \in [Workers ->
           {"none", "born", "pre", "start", "end", "free", "return", "exited"}]
      /\ None \notin Blocks /\ Main \notin Workers
  BY ThreadAssumption DEF ThreadsInv, ThreadsTyped
<1>2. /\ UNCHANGED <<threadStage, block, return_value, code, making, joined, told>>
      /\ \A u \in Workers : Owning(u)' = Owning(u)
  BY DEF Thread!attach_info, Thread!deinitialize, Thread!initialize, Owning, Thread!OwnsData
<1>3. ASSUME NEW t \in Thread!All, Thread!attach_info(t)
      PROVE  HoldersApart' /\ Orderly'
  <2>1. t = Main
    <3>1. ASSUME t \in Workers PROVE FALSE
      <4>1. threadStage[t] = "start"
        BY <1>1, <1>3, <3>1 DEF Thread!attach_info, Thread!Busy, Thread!Running
      <4>2. valid /\ tls[t] = block[t] /\ block[t] \in Blocks
        BY <1>1, <3>1, <4>1 DEF Orderly, HoldersApart, Owning, Thread!OwnsData
      <4> QED
        BY <1>1, <1>3, <4>2 DEF Thread!attach_info
    <3> QED
      BY <3>1
  <2>2. valid' = valid /\ stranded' = stranded
    BY <1>3 DEF Thread!attach_info
  <2>3. PICK b \in Blocks :
          /\ memory[b] = "free"
          /\ \/ /\ valid
                /\ memory' = [memory EXCEPT ![b] = "live"]
                /\ tls' = [tls EXCEPT ![t] = b]
             \/ memory' = [memory EXCEPT ![b] = "freed"] /\ tls' = tls
    BY <1>3 DEF Thread!attach_info, Thread!Unused
  <2>4. ~Holder(b)
    BY <1>1, <2>3 DEF HoldersApart
  <2>5. \A u \in Workers : tls'[u] = tls[u] /\ block[u] \in Blocks => block'[u] = block[u]
    BY <1>2
  <2>6. CASE memory' = [memory EXCEPT ![b] = "freed"] /\ tls' = tls
    <3>1. \A c \in Blocks : Holder(c)' <=> Holder(c)
      BY <1>2, <2>2, <2>6 DEF Holder
    <3>2. HoldersApart'
      BY <1>1, <1>2, <2>2, <2>3, <2>4, <2>6, <3>1 DEF HoldersApart
    <3>3. Orderly'
      BY <1>1, <1>2, <2>2, <2>3, <2>6 DEF Orderly
    <3> QED
      BY <3>2, <3>3
  <2>7. CASE /\ valid
             /\ memory' = [memory EXCEPT ![b] = "live"]
             /\ tls' = [tls EXCEPT ![t] = b]
    <3>1. tls[Main] = None
      BY <1>3, <2>1, <2>7 DEF Thread!attach_info
    <3>2. tls'[Main] = b /\ \A u \in Workers : tls'[u] = tls[u]
      BY <1>1, <2>1, <2>7
    <3>3. \A c \in Blocks : Holder(c)' <=> Holder(c) \/ c = b
      BY <1>1, <1>2, <2>2, <3>1, <3>2 DEF Holder
    <3>4. HoldersApart'
      BY <1>1, <1>2, <2>2, <2>3, <2>4, <2>7, <3>1, <3>2, <3>3 DEF HoldersApart, Holder
    <3>5. Orderly'
      BY <1>1, <1>2, <2>2, <2>3, <2>7, <3>2 DEF Orderly
    <3> QED
      BY <3>4, <3>5
  <2> QED
    BY <2>3, <2>6, <2>7
<1>4. CASE Thread!deinitialize
  <2>1. /\ memory' = memory /\ valid' = FALSE /\ making[Main] = None
        /\ \A u \in Workers : threadStage[u] \in {"none", "exited"}
        /\ \A u \in Thread!All : tls'[u] = None
        /\ stranded' = stranded \cup ({tls[Main]} \ {None})
    BY <1>4 DEF Thread!deinitialize
  <2>2. \A u \in Workers : ~Owning(u) /\ making[u] = None
    BY <1>1, <2>1 DEF Owning, Thread!OwnsData, Orderly
  <2>3. \A c \in Blocks : Holder(c)' <=> Holder(c)
    BY <1>1, <1>2, <2>1, <2>2 DEF Holder
  <2>4. \A u \in Thread!All : making[u] = None
    BY <2>1, <2>2
  <2>5. None \notin stranded
    BY <1>1 DEF ThreadsInv, ThreadsTyped
  <2>6. HoldersApart'
    BY <1>1, <1>2, <2>1, <2>2, <2>3, <2>4, <2>5 DEF HoldersApart
  <2>7. Orderly'
    BY <1>1, <1>2, <2>1, <2>4 DEF Orderly
  <2> QED
    BY <2>6, <2>7
<1>5. CASE Thread!initialize
  <2>1. UNCHANGED <<memory, tls, stranded>> /\ valid'
    BY <1>5 DEF Thread!initialize
  <2>2. \A c \in Blocks : Holder(c)' <=> Holder(c)
    BY <1>2, <2>1 DEF Holder
  <2>3. HoldersApart' /\ Orderly'
    BY <1>1, <1>2, <2>1, <2>2 DEF HoldersApart, Orderly
  <2> QED
    BY <2>3
<1> QED
  BY <1>3, <1>4, <1>5

LEMMA ThreadsKept ==
  ASSUME ThreadsInv, [Thread!Next]_threadVars
  PROVE  ThreadsInv'
<1>1. HoldersApart' /\ Orderly'
  <2>1. ASSUME NEW t \in Thread!All,
               \/ Thread!NewData(t) \/ Thread!CreateFails(t) \/ Thread!attach_info(t)
               \/ \E u \in Workers : \/ Thread!CreateThread(t, u) \/ Thread!join(t, u)
                                     \/ Thread!get_exit_code(t, u) \/ Thread!close(t, u)
        PROVE  HoldersApart' /\ Orderly'
    BY <2>1, ThreadMakes, ThreadBegins, ThreadsSeen, LibraryTurns
  <2>2. ASSUME NEW t \in Workers,
               \/ Thread!Begin(t) \/ Thread!PreRoutine(t) \/ Thread!StartRoutine(t)
               \/ Thread!EndRoutine(t) \/ Thread!FreeData(t) \/ Thread!Return(t)
        PROVE  HoldersApart' /\ Orderly'
    BY <2>2, ThreadRuns
  <2> QED
    BY <2>1, <2>2, ThreadsSeen, LibraryTurns DEF Thread!Next
<1> QED
  BY <1>1, ThreadsTypedKept DEF ThreadsInv

LEMMA PartIsPool ==
  /\ PartInit => Init
  /\ [PartNext]_<<part, vars, threadVars>> => [Next]_vars
BY DEF PartInit, PartNext

LEMMA PartIsThreads ==
  /\ PartInit => Thread!Init
  /\ [PartNext]_<<part, vars, threadVars>> => [Thread!Next]_threadVars
BY DEF PartInit, PartNext

(* thread_create_ex(), win32_thread_proc(), thread_attach_info() and the   *)
(* waits, for any number of threads and blocks: the block of a thread is   *)
(* live and its own from CreateThread() until the thread frees it, no      *)
(* failure leaves a block behind, and a thread that was joined has ended,  *)
(* with the exit code its start routine returned.                          *)
THEOREM ThreadsAreAccounted == PartSpec => []ThreadsAccounted
<1>1. ThreadsInv => ThreadsAccounted
  <2> SUFFICES ASSUME ThreadsInv PROVE Thread!DataOwned /\ Thread!JoinedEnded
    BY DEF ThreadsAccounted
  <2>1. ThreadsTyped /\ HoldersApart /\ Orderly /\ None \notin Blocks
    BY ThreadAssumption DEF ThreadsInv
  <2>2. ASSUME NEW t \in Workers, Owning(t)
        PROVE  /\ memory[block[t]] = "live"
               /\ threadStage[t] # "born" => tls[t] = block[t]
               /\ \A u \in Workers \ {t} : Owning(u) => block[u] # block[t]
    BY <2>1, <2>2 DEF Owning, Thread!OwnsData, HoldersApart, Holder, Orderly
  <2>3. ASSUME NEW b
        PROVE  b \in Blocks /\ memory[b] = "live"
                 <=> Holder(b) /\ b # None
    <3>1. Holder(b) /\ b # None => b \in Blocks
      BY <2>1 DEF Holder, HoldersApart, ThreadsTyped, Thread!All
    <3> QED
      BY <2>1, <3>1 DEF HoldersApart
  <2>4. {b \in Blocks : memory[b] = "live"}
          = ({block[t] : t \in {u \in Workers : Thread!OwnsData(u)}}
              \cup {making[t] : t \in Thread!All} \cup {tls[Main]} \cup stranded) \ {None}
    BY <2>3 DEF Holder, Owning
  <2>5. Thread!DataOwned
    BY <2>2, <2>4 DEF Thread!DataOwned, Owning
  <2>6. Thread!JoinedEnded
    BY <2>1 DEF Thread!JoinedEnded, Orderly, ThreadsTyped
  <2> QED
    BY <2>5, <2>6
<1> QED
  BY ThreadsInit, ThreadsKept, PartIsThreads, <1>1, PTL DEF PartSpec
-----------------------------------------------------------------------------
(***************************************************************************)
(* Tasks.  A worker reads its task through a pointer into the ring, after  *)
(* the slot was given back.  An add may write that slot before, and then a *)
(* task may run twice (the run PoolStaleTask).  SlotsKept says of a step   *)
(* that it is not such an add, and nothing else: slots are used again and  *)
(* again, by any number of elements.                                       *)
(***************************************************************************)

\* An add that has not stored its element, and a worker that has a pointer.
Carrying(t) == pc[t] \in {"wait", "lock", "work"} /\ op[t] \in {"add_back", "try_add_back"}
Holding(w) == pc[w] \in {"unlock", "post", "use"}

SlotsKept == \A t \in Threads, w \in Workers : Q!AddBack(t) /\ Holding(w) => ptr[w] # tail

\* Workers get at the front, the others add at the back.
OneWay ==
  /\ \A t \in Threads : op[t] \in {"get_front", "add_back", "try_add_back"}
  /\ \A w \in Workers : op[w] = "get_front"
  /\ \A t \in Threads \ Workers : pc[t] \notin {"idle", "refused"} => op[t] # "get_front"

\* Every element is in one place: not added, carried by one add, or in one slot.
AddedOnce ==
  /\ \A s, r \in Q!Slots : pdata[s] # Empty /\ pdata[s] = pdata[r] => s = r
  /\ \A s \in Q!Slots : pdata[s] \notin unused
  /\ \A t \in Threads : Carrying(t) =>
       /\ arg[t] \notin unused
       /\ \A s \in Q!Slots : pdata[s] # arg[t]
       /\ \A u \in Threads : Carrying(u) /\ arg[u] = arg[t] => u = t

\* What waits in the queue has not been run, and nobody has a pointer to it.
Waiting ==
  \A s \in Q!Occupied :
    /\ pdata[s] # Empty /\ runs[pdata[s]] = 0
    /\ \A w \in Workers : Holding(w) => ptr[w] # s

\* A pointer a worker holds is its own, and its element has not been run.
NotRunYet ==
  /\ \A v, w \in Workers : Holding(v) /\ Holding(w) /\ ptr[v] = ptr[w] => v = w
  /\ \A w \in Workers : Holding(w) => pdata[ptr[w]] # Empty /\ runs[pdata[ptr[w]]] = 0
  /\ \A w \in Workers : stage[w] = "run" => pc[w] = "use" /\ pdata[ptr[w]] \notin Markers
  /\ \A x \in unused : runs[x] = 0
  /\ \A t \in Threads : Carrying(t) => runs[arg[t]] = 0
  /\ RunsOnce

RunInv == OneWay /\ AddedOnce /\ NotRunYet /\ Waiting

\* What the invariant of the pool says of the fields of its queue.
Fields ==
  /\ Capacity \in Nat \ {0} /\ Empty \notin Items
  /\ pdata \in [Q!Slots -> Items \cup {Empty}]
  /\ head \in Q!Slots /\ tail \in Q!Slots /\ count \in 0 .. Capacity
  /\ pc \in [Threads -> {"idle", "refused", "wait", "lock", "work", "unlock",
                         "post", "return", "use"}]
  /\ op \in [Threads -> Q!Adding \cup Q!Getting]
  /\ arg \in [Threads -> Items \cup {Empty}]
  /\ ptr \in [Threads -> Q!Slots]
  /\ unused \subseteq Items
  /\ stage \in [Workers \cup {Owner} ->
                  {"none", "init", "check", "test", "run", "finish", "exited", "idle", "stop", "join"}]
  /\ runs \in [Items -> Nat]
  /\ \A t \in Threads : Carrying(t) => arg[t] \in Items

LEMMA FieldsHold == IInv => Fields
<1> SUFFICES ASSUME IInv PROVE Fields
  OBVIOUS
<1>1. QP!TypeOK /\ QP!Carries /\ Typed /\ QP!MtQueueAssumption
  BY QueueAssumption DEF IInv, QP!IInv, QP!PermitsBalance
<1>2. \A t \in Threads : Carrying(t) => arg[t] \in Items
  BY <1>1 DEF Carrying, QP!Carries, QP!Adding, QP!Blocking, QP!Trying
<1> QED
  BY <1>1, <1>2 DEF Fields, QP!TypeOK, QP!MtQueueAssumption, QP!Slots, Q!Slots, Typed,
     QP!Adding, Q!Adding, QP!Getting, Q!Getting, QP!Blocking, Q!Blocking, QP!Trying, Q!Trying

LEMMA ThreadKinds ==
  /\ Workers \subseteq Threads /\ Clients \subseteq Threads /\ Owner \in Threads
  /\ Owner \notin Workers /\ Workers \cap Clients = {} /\ Owner \notin Clients
  /\ Tasks \subseteq Items /\ Markers \subseteq Items /\ Tasks \cap Markers = {}
BY ThreadPoolAssumption DEF Threads, Items

\* A step that moves no element, no pointer and no counter.
LEMMA NothingMoves ==
  ASSUME RunInv, OneWay',
         UNCHANGED <<pdata, head, tail, count, ptr, unused, runs>>,
         \A t \in Threads : Carrying(t)' => Carrying(t) /\ arg'[t] = arg[t],
         \A w \in Workers : Holding(w)' => Holding(w),
         \A w \in Workers : stage'[w] = "run" => stage[w] = "run" /\ pc'[w] = "use"
  PROVE  RunInv'
<1>1. AddedOnce'
  BY DEF RunInv, AddedOnce
<1>2. NotRunYet'
  BY DEF RunInv, NotRunYet, RunsOnce
<1>3. Waiting'
  BY DEF RunInv, Waiting, Q!Occupied
<1> QED
  BY <1>1, <1>2, <1>3 DEF RunInv

LEMMA OneWayKept ==
  ASSUME Fields, OneWay, [Next]_vars
  PROVE  OneWay'
<1>1. Workers \subseteq Threads /\ Clients \subseteq Threads /\ Owner \in Threads
      /\ Owner \notin Workers /\ Workers \cap Clients = {}
  BY ThreadKinds
<1>2. /\ pc \in [Threads -> {"idle", "refused", "wait", "lock", "work", "unlock",
                             "post", "return", "use"}]
      /\ op \in [Threads -> Q!Adding \cup Q!Getting]
  BY DEF Fields
<1> USE DEF OneWay, Q!Goto, Q!locals, queue
<1>3. ASSUME NEW t \in Threads, QueueStep(t)
      PROVE  OneWay'
  BY <1>1, <1>2, <1>3 DEF QueueStep, Q!Wait, Q!Refuse, Q!Lock, Q!AddBack, Q!GetFront, Q!Unlock,
                          Q!PostSlot, Q!PostItem
<1>4. ASSUME NEW w \in Workers, WorkerStep(w)
      PROVE  OneWay'
  <2>1. CASE CheckRunning(w)
    BY <1>1, <1>2, <2>1 DEF CheckRunning, Q!Get
  <2>2. CASE CheckTerminated(w) \/ TestMarker(w) \/ TestTask(w) \/ Run(w) \/ Finish(w)
    BY <1>1, <1>2, <2>2 DEF CheckTerminated, TestMarker, TestTask, Run, Finish, Q!Use
  <2> QED
    BY <1>1, <1>3, <1>4, <2>1, <2>2 DEF WorkerStep
<1>5. ASSUME NEW c \in Clients, ClientStep(c) \/ \E v \in Tasks : TaskAdd(c, v)
      PROVE  OneWay'
  <2>1. CASE TaskAdded(c)
    BY <1>1, <1>2, <2>1 DEF TaskAdded, Q!PostItem
  <2>2. CASE \E v \in Tasks : TaskAdd(c, v)
    BY <1>1, <1>2, <2>2 DEF TaskAdd, Q!Add
  <2> QED
    BY <1>1, <1>3, <1>5, <2>1, <2>2 DEF ClientStep
<1>6. CASE OwnerStep
  <2>1. CASE StopAddMarker
    BY <1>1, <1>2, <2>1 DEF StopAddMarker, Q!Add
  <2>2. CASE \/ \E w \in Workers : InitWorker(w)
             \/ InitNoThread \/ InitNoMemory \/ InitReturn \/ Stop \/ StopReturn
             \/ Join \/ JoinWait \/ JoinReturn \/ Free
    BY <2>2 DEF InitWorker, InitNoThread, InitNoMemory, InitReturn, Stop, StopReturn, Join,
                JoinWait, JoinReturn, Free
  <2> QED
    BY <1>1, <1>3, <1>6, <2>1, <2>2 DEF OwnerStep
<1>7. CASE UNCHANGED vars
  BY <1>7 DEF vars
<1> QED
  BY <1>4, <1>5, <1>6, <1>7 DEF Next

\* A new add carries an element nobody has added.
LEMMA AddKeepsRuns ==
  ASSUME Fields, RunInv, OneWay', NEW t \in Threads \ Workers,
         NEW o \in {"add_back", "try_add_back"}, NEW v \in unused, Q!Add(t, o, v),
         UNCHANGED <<stage, runs>>
  PROVE  RunInv'
<1>1. /\ pc[t] \in {"idle", "refused"} /\ pc' = [pc EXCEPT ![t] = "wait"]
      /\ op' = [op EXCEPT ![t] = o] /\ arg' = [arg EXCEPT ![t] = v]
      /\ unused' = unused \ {v}
      /\ UNCHANGED <<pdata, head, tail, count, ptr>>
  BY DEF Q!Add, Q!ring
<1>2. /\ pc \in [Threads -> {"idle", "refused", "wait", "lock", "work", "unlock",
                             "post", "return", "use"}]
      /\ op \in [Threads -> Q!Adding \cup Q!Getting]
      /\ arg \in [Threads -> Items \cup {Empty}]
  BY DEF Fields
<1>3. /\ arg'[t] = v /\ ~Carrying(t)
      /\ \A u \in Threads \ {t} : Carrying(u)' = Carrying(u) /\ arg'[u] = arg[u]
      /\ \A w \in Workers : Holding(w)' = Holding(w) /\ pc'[w] = pc[w]
  BY <1>1, <1>2, ThreadKinds DEF Carrying, Holding
<1>4. AddedOnce'
  BY <1>1, <1>3 DEF RunInv, AddedOnce
<1>5. NotRunYet'
  BY <1>1, <1>3 DEF RunInv, NotRunYet, RunsOnce
<1>6. Waiting'
  BY <1>1, <1>3 DEF RunInv, Waiting, Q!Occupied
<1> QED
  BY <1>4, <1>5, <1>6 DEF RunInv

\* A refused add gives its element back.
LEMMA RefuseKeepsRuns ==
  ASSUME Fields, RunInv, OneWay', NEW t \in Threads, Q!Refuse(t), UNCHANGED <<stage, runs>>
  PROVE  RunInv'
<1>1. /\ pc[t] = "wait" /\ pc' = [pc EXCEPT ![t] = "refused"]
      /\ op[t] \in Q!Trying /\ op' = op /\ arg' = [arg EXCEPT ![t] = Empty]
      /\ unused' = unused \cup {arg[t]}
      /\ UNCHANGED <<pdata, head, tail, count, ptr>>
  BY DEF Q!Refuse, Q!ring, Q!Goto
<1>2. /\ pc \in [Threads -> {"idle", "refused", "wait", "lock", "work", "unlock",
                             "post", "return", "use"}]
      /\ op \in [Threads -> Q!Adding \cup Q!Getting]
      /\ arg \in [Threads -> Items \cup {Empty}]
  BY DEF Fields
<1>3. /\ ~Carrying(t)' /\ Carrying(t)
      /\ \A u \in Threads \ {t} : Carrying(u)' = Carrying(u) /\ arg'[u] = arg[u]
      /\ \A w \in Workers : /\ Holding(w)' = Holding(w)
                            /\ pc[w] = "use" => pc'[w] = "use"
  BY <1>1, <1>2, ThreadKinds DEF Carrying, Holding, RunInv, OneWay, Q!Trying
<1>4. AddedOnce'
  BY <1>1, <1>3 DEF RunInv, AddedOnce
<1>5. NotRunYet'
  BY <1>1, <1>3 DEF RunInv, NotRunYet, RunsOnce
<1>6. Waiting'
  BY <1>1, <1>3 DEF RunInv, Waiting, Q!Occupied
<1> QED
  BY <1>4, <1>5, <1>6 DEF RunInv

LEMMA OccupiedSlots == IInv => Q!Occupied \subseteq Q!Slots
<1> SUFFICES ASSUME IInv, NEW k \in 0 .. count - 1
             PROVE  (head + k) % Capacity \in Q!Slots
  BY DEF Q!Occupied
<1>1. QP!TypeOK /\ QP!MtQueueAssumption
  BY QueueAssumption, QP!Unfold DEF IInv, QP!IInv, QP!MtQueueAssumption
<1>2. head \in Nat /\ k \in Nat /\ Capacity \in Nat /\ Capacity > 0
  BY <1>1 DEF QP!TypeOK, QP!Slots, QP!MtQueueAssumption
<1> QED
  BY <1>2 DEF Q!Slots

(* The slot an add writes holds nothing that waits.                        *)
LEMMA AddTakesFree ==
  ASSUME IInv, NEW t \in Threads, Q!AddBack(t)
  PROVE  tail \notin Q!Occupied /\ Q!Occupied' \subseteq Q!Occupied \cup {tail}
<1>1. QP!IInv /\ QP!MtQueueAssumption /\ IsFiniteSet(Threads)
  BY QueueAssumption DEF IInv
<1>2. QP!IsFiniteSet(Threads)
  BY <1>1, Zenon DEF IsFiniteSet, QP!IsFiniteSet
<1>3. QP!EndsApart
  BY <1>1, <1>2, QP!ApartHolds DEF QP!MtQueueAssumption
<1>4. pc[t] = "work" /\ op[t] \in QP!Adding /\ op[t] \notin QP!AtFront
      /\ head' = head /\ count' = count + 1
  BY DEF Q!AddBack, Q!Goto, Q!Adding, Q!AtFront, Q!Blocking, Q!Trying,
         QP!Adding, QP!AtFront, QP!Blocking, QP!Trying
<1>5. QP!Target(t) \notin QP!Occupied
  BY <1>3, <1>4 DEF QP!EndsApart
<1>6. tail \notin Q!Occupied
  BY <1>4, <1>5 DEF QP!Target, QP!Occupied, Q!Occupied
<1>7. tail = (head + count) % Capacity /\ count \in Nat
  <2>1. QP!TypeOK
    BY <1>1, QP!Unfold DEF QP!IInv, QP!MtQueueAssumption
  <2> QED
    BY <1>1, <2>1 DEF QP!IInv, QP!TailTold, QP!TypeOK
<1>8. ASSUME NEW k \in 0 .. count' - 1
      PROVE  (head' + k) % Capacity \in Q!Occupied \cup {tail}
  <2>1. k \in 0 .. count - 1 \/ k = count
    BY <1>4, <1>7, <1>8
  <2> QED
    BY <1>4, <1>7, <2>1 DEF Q!Occupied
<1> QED
  BY <1>6, <1>8 DEF Q!Occupied

(* A get takes the first slot away from those that wait.                   *)
LEMMA GetTakesFirst ==
  ASSUME IInv, NEW t \in Threads, Q!GetFront(t)
  PROVE  head \in Q!Occupied /\ Q!Occupied' \subseteq Q!Occupied \ {head}
<1>1. QP!TypeOK /\ QP!Balance /\ QP!MtQueueAssumption /\ IsFiniteSet(Threads)
  BY QueueAssumption, QP!Unfold DEF IInv, QP!IInv, QP!MtQueueAssumption
<1>2. QP!IsFiniteSet(Threads)
  BY <1>1, Zenon DEF IsFiniteSet, QP!IsFiniteSet
<1>3. pc[t] = "work" /\ op[t] = "get_front"
      /\ head' = (head + 1) % Capacity /\ count' = count - 1
  BY DEF Q!GetFront, Q!Goto, Q!After
<1>4. count >= 1
  BY <1>1, <1>2, <1>3, QP!ElementOwed DEF QP!MtQueueAssumption, QP!Getting
<1>5. /\ head \in Q!Slots /\ head \in QP!Slots /\ count \in 0 .. Capacity
      /\ Capacity \in Nat /\ Capacity > 0
  BY <1>1 DEF QP!TypeOK, QP!MtQueueAssumption, Q!Slots, QP!Slots
<1>6. \A s \in 0 .. Capacity - 1, n \in 0 .. Capacity :
         (s + n) % Capacity = IF s + n < Capacity THEN s + n ELSE s + n - Capacity
  BY <1>1, QP!Past DEF QP!MtQueueAssumption, QP!Slots
<1>7. head = (head + 0) % Capacity /\ 0 \in 0 .. count - 1
  BY <1>4, <1>5, <1>6 DEF Q!Slots
<1>8. head' = IF head + 1 < Capacity THEN head + 1 ELSE head + 1 - Capacity
  BY <1>3, <1>5, <1>6 DEF Q!Slots
<1>9. ASSUME NEW k \in 0 .. count' - 1
      PROVE  (head' + k) % Capacity \in Q!Occupied \ {head}
  <2>1. k \in Nat /\ k + 1 \in 0 .. count - 1 /\ k \in 0 .. Capacity /\ k + 1 \in 0 .. Capacity
        /\ head' \in 0 .. Capacity - 1
    BY <1>3, <1>4, <1>5, <1>8, <1>9 DEF Q!Slots
  <2>2. (head' + k) % Capacity = IF head' + k < Capacity THEN head' + k ELSE head' + k - Capacity
    BY <1>6, <2>1
  <2>3. (head + (k + 1)) % Capacity
          = IF head + (k + 1) < Capacity THEN head + (k + 1) ELSE head + (k + 1) - Capacity
    BY <1>5, <1>6, <2>1 DEF Q!Slots
  <2>4. (head' + k) % Capacity = (head + (k + 1)) % Capacity /\ (head' + k) % Capacity # head
    BY <1>5, <1>8, <2>1, <2>2, <2>3 DEF Q!Slots
  <2> QED
    BY <2>1, <2>4 DEF Q!Occupied
<1> QED
  BY <1>7, <1>9 DEF Q!Occupied

LEMMA AddBackKeepsRuns ==
  ASSUME SlotsKept, IInv, Fields, RunInv, OneWay', NEW t \in Threads, Q!AddBack(t),
         UNCHANGED <<stage, runs>>
  PROVE  RunInv'
<1>1. /\ pc[t] = "work" /\ pc' = [pc EXCEPT ![t] = "unlock"]
      /\ op[t] \in Q!Adding /\ UNCHANGED <<head, op, arg, ptr, unused>>
      /\ pdata' = [pdata EXCEPT ![tail] = arg[t]]
  BY DEF Q!AddBack, Q!Goto, Q!locals
<1>2. tail \notin Q!Occupied /\ Q!Occupied' \subseteq Q!Occupied \cup {tail}
  BY AddTakesFree
<1>3. Carrying(t) /\ t \notin Workers
  BY <1>1 DEF Carrying, RunInv, OneWay, Q!Adding, Q!Blocking, Q!Trying
<1>4. /\ tail \in Q!Slots /\ pdata'[tail] = arg[t] /\ arg[t] \in Items /\ arg[t] # Empty
      /\ \A s \in Q!Slots : s # tail => pdata'[s] = pdata[s]
      /\ \A s \in Q!Slots : pdata[s] # arg[t]
      /\ arg[t] \notin unused /\ runs[arg[t]] = 0
  BY <1>1, <1>3 DEF Fields, RunInv, AddedOnce, NotRunYet
<1>5. /\ ~Carrying(t)'
      /\ \A u \in Threads \ {t} : Carrying(u)' = Carrying(u)
      /\ \A w \in Workers : Holding(w)' = Holding(w) /\ pc'[w] = pc[w]
  BY <1>1, <1>3, ThreadKinds DEF Carrying, Holding, Fields
<1>6. AddedOnce'
  BY <1>1, <1>3, <1>4, <1>5 DEF RunInv, AddedOnce
<1>7. \A w \in Workers : Holding(w) => ptr[w] \in Q!Slots /\ ptr[w] # tail
                                        /\ pdata'[ptr[w]] = pdata[ptr[w]]
  BY <1>4, ThreadKinds DEF Fields, SlotsKept
<1>8. NotRunYet'
  <2>1. \A w \in Workers : stage[w] = "run" => Holding(w)
    BY DEF RunInv, NotRunYet, Holding
  <2> QED
    BY <1>1, <1>5, <1>7, <2>1 DEF RunInv, NotRunYet, RunsOnce
<1>9. Waiting'
  <2> SUFFICES ASSUME NEW s \in Q!Occupied'
               PROVE  /\ pdata'[s] # Empty /\ runs[pdata'[s]] = 0
                      /\ \A w \in Workers : Holding(w)' => ptr'[w] # s
    BY DEF Waiting
  <2>1. CASE s = tail
    BY <1>1, <1>4, <1>5, <1>7, <2>1
  <2>2. CASE s # tail
    <3>1. s \in Q!Occupied /\ s \in Q!Slots
      BY <1>2, <2>2, OccupiedSlots
    <3> QED
      BY <1>1, <1>4, <1>5, <2>2, <3>1 DEF RunInv, Waiting
  <2> QED
    BY <2>1, <2>2
<1> QED
  BY <1>6, <1>8, <1>9 DEF RunInv

LEMMA GetFrontKeepsRuns ==
  ASSUME IInv, Fields, RunInv, OneWay', NEW w \in Threads, Q!GetFront(w),
         UNCHANGED <<stage, runs>>
  PROVE  RunInv'
<1>1. /\ pc[w] = "work" /\ pc' = [pc EXCEPT ![w] = "unlock"]
      /\ op[w] = "get_front" /\ UNCHANGED <<pdata, op, arg, unused>>
      /\ ptr' = [ptr EXCEPT ![w] = head]
  BY DEF Q!GetFront, Q!Goto
<1>2. w \in Workers
  BY <1>1 DEF RunInv, OneWay
<1>3. head \in Q!Occupied /\ Q!Occupied' \subseteq Q!Occupied \ {head}
  BY GetTakesFirst
<1>4. /\ pdata[head] # Empty /\ runs[pdata[head]] = 0
      /\ \A v \in Workers : Holding(v) => ptr[v] # head
  BY <1>3 DEF RunInv, Waiting
<1>5. /\ \A u \in Threads : Carrying(u)' = Carrying(u)
      /\ ptr'[w] = head /\ ~Holding(w)
      /\ \A v \in Workers \ {w} : Holding(v)' = Holding(v) /\ ptr'[v] = ptr[v] /\ pc'[v] = pc[v]
  BY <1>1, <1>2, ThreadKinds DEF Carrying, Holding, Fields
<1>6. AddedOnce'
  BY <1>1, <1>5 DEF RunInv, AddedOnce
<1>7. NotRunYet'
  <2>1. stage[w] # "run"
    BY <1>1, <1>2 DEF RunInv, NotRunYet
  <2> QED
    BY <1>1, <1>2, <1>4, <1>5, <2>1 DEF RunInv, NotRunYet, RunsOnce
<1>8. Waiting'
  BY <1>1, <1>3, <1>5 DEF RunInv, Waiting
<1> QED
  BY <1>6, <1>7, <1>8 DEF RunInv

\* A worker that has read its element gives the pointer up.
LEMMA UseKeepsRuns ==
  ASSUME IInv, Fields, RunInv, OneWay', NEW w \in Workers,
         \/ TestMarker(w) \/ Run(w)
  PROVE  RunInv'
<1>1. /\ pc[w] = "use" /\ pc' = [pc EXCEPT ![w] = "idle"]
      /\ ptr' = [ptr EXCEPT ![w] = 0]
      /\ UNCHANGED <<pdata, head, tail, count, op, arg, unused>>
      /\ stage' \in [Workers \cup {Owner} ->
           {"none", "init", "check", "test", "run", "finish", "exited", "idle", "stop", "join"}]
      /\ stage'[w] # "run" /\ \A v \in Workers \ {w} : stage'[v] = stage[v]
  BY DEF TestMarker, Run, Q!Use, Q!Goto, Q!ring, GotoStage, Fields
<1>2. Q!Occupied' = Q!Occupied
  BY <1>1 DEF Q!Occupied
<1>3. /\ \A u \in Threads : Carrying(u)' = Carrying(u)
      /\ ~Holding(w)'
      /\ \A v \in Workers \ {w} : /\ Holding(v)' = Holding(v) /\ ptr'[v] = ptr[v]
                                  /\ pc'[v] = pc[v]
  BY <1>1, ThreadKinds DEF Carrying, Holding, Fields
<1>4. AddedOnce'
  BY <1>1, <1>3 DEF RunInv, AddedOnce
<1>5. CASE TestMarker(w)
  <2>1. runs' = runs
    BY <1>5 DEF TestMarker, history
  <2>2. NotRunYet'
    BY <1>1, <1>3, <2>1 DEF RunInv, NotRunYet, RunsOnce
  <2>3. Waiting'
    BY <1>1, <1>2, <1>3, <2>1 DEF RunInv, Waiting
  <2> QED
    BY <1>4, <2>2, <2>3 DEF RunInv
<1>6. CASE Run(w)
  <2> DEFINE x == pdata[ptr[w]]
  <2>1. /\ stage[w] = "run" /\ runs' = [runs EXCEPT ![x] = @ + 1]
    BY <1>6 DEF Run, GotoStage
  <2>2. Holding(w) /\ ptr[w] \in Q!Slots
    BY <1>1, ThreadKinds DEF Holding, Fields
  <2>3. x \in Items /\ x # Empty /\ x \notin Markers /\ x \notin unused /\ runs[x] = 0
    BY <2>1, <2>2 DEF Fields, RunInv, NotRunYet, AddedOnce
  <2>4. /\ \A s \in Q!Slots : s # ptr[w] => pdata[s] # x
        /\ \A u \in Threads : Carrying(u) => arg[u] # x
    BY <2>2, <2>3 DEF RunInv, AddedOnce
  <2>5. /\ runs'[x] = 1 /\ \A y \in Items : y # x => runs'[y] = runs[y]
    BY <2>1, <2>3 DEF Fields
  <2> HIDE DEF x
  <2>6. NotRunYet'
    <3>1. \A u, v \in Workers : Holding(u)' /\ Holding(v)' /\ ptr'[u] = ptr'[v] => u = v
      BY <1>3 DEF RunInv, NotRunYet
    <3>2. ASSUME NEW v \in Workers, Holding(v)'
          PROVE  pdata'[ptr'[v]] # Empty /\ runs'[pdata'[ptr'[v]]] = 0
      <4>1. v # w /\ Holding(v) /\ ptr'[v] = ptr[v] /\ ptr[v] # ptr[w] /\ ptr[v] \in Q!Slots
        BY <1>3, <2>2, <3>2, ThreadKinds DEF RunInv, NotRunYet, Fields
      <4>2. pdata[ptr[v]] # x /\ pdata[ptr[v]] # Empty /\ runs[pdata[ptr[v]]] = 0
        BY <2>4, <4>1 DEF RunInv, NotRunYet
      <4>3. pdata[ptr[v]] \in Items
        BY <4>1, <4>2 DEF Fields
      <4> QED
        BY <1>1, <2>5, <4>1, <4>2, <4>3
    <3>3. \A v \in Workers : stage'[v] = "run" => pc'[v] = "use" /\ pdata'[ptr'[v]] \notin Markers
      BY <1>1, <1>3 DEF RunInv, NotRunYet
    <3>4. \A y \in unused' : runs'[y] = 0
      BY <1>1, <2>3, <2>5 DEF RunInv, NotRunYet, Fields
    <3>5. \A u \in Threads : Carrying(u)' => runs'[arg'[u]] = 0
      BY <1>1, <1>3, <2>4, <2>5 DEF RunInv, NotRunYet, Fields
    <3>6. RunsOnce'
      BY <2>3, <2>5, ThreadKinds DEF RunInv, NotRunYet, RunsOnce
    <3> QED
      BY <3>1, <3>2, <3>3, <3>4, <3>5, <3>6 DEF NotRunYet
  <2>7. Waiting'
    <3> SUFFICES ASSUME NEW s \in Q!Occupied
                 PROVE  /\ pdata[s] # Empty /\ runs'[pdata[s]] = 0
                        /\ \A v \in Workers : Holding(v)' => ptr'[v] # s
      BY <1>1, <1>2 DEF Waiting
    <3>1. /\ s \in Q!Slots /\ s # ptr[w] /\ pdata[s] # Empty /\ runs[pdata[s]] = 0
          /\ \A v \in Workers : Holding(v) => ptr[v] # s
      BY <2>2, OccupiedSlots DEF RunInv, Waiting
    <3>2. pdata[s] \in Items /\ pdata[s] # x
      BY <2>4, <3>1 DEF Fields
    <3> QED
      BY <1>3, <2>5, <3>1, <3>2
  <2> QED
    BY <1>4, <2>6, <2>7 DEF RunInv
<1> QED
  BY <1>5, <1>6

\* A worker that looks at its element keeps the pointer.
LEMMA TestKeepsRuns ==
  ASSUME Fields, RunInv, OneWay', NEW w \in Workers, TestTask(w)
  PROVE  RunInv'
<1>1. /\ pc[w] = "use" /\ pdata[ptr[w]] \notin Markers
      /\ UNCHANGED <<pdata, head, tail, count, pc, op, arg, ptr, unused, runs>>
      /\ \A v \in Workers \ {w} : stage'[v] = stage[v]
  BY DEF TestTask, queue, history, GotoStage, Fields
<1>2. AddedOnce'
  BY <1>1 DEF RunInv, AddedOnce, Carrying
<1>3. NotRunYet'
  BY <1>1 DEF RunInv, NotRunYet, RunsOnce, Holding, Carrying
<1>4. Waiting'
  BY <1>1 DEF RunInv, Waiting, Holding, Q!Occupied
<1> QED
  BY <1>2, <1>3, <1>4 DEF RunInv

LEMMA QueueStepKeepsRuns ==
  ASSUME SlotsKept, IInv, Fields, RunInv, OneWay', NEW t \in Threads,
         QueueStep(t) \/ TaskAdded(t)
  PROVE  RunInv'
<1>1. stage' = stage /\ runs' = runs
  BY DEF QueueStep, TaskAdded, pool
<1>2. CASE Q!Refuse(t)
  BY <1>1, <1>2, RefuseKeepsRuns
<1>3. CASE Q!AddBack(t)
  BY <1>1, <1>3, AddBackKeepsRuns
<1>4. CASE Q!GetFront(t)
  BY <1>1, <1>4, GetFrontKeepsRuns
<1>5. CASE Q!Wait(t) \/ Q!Lock(t) \/ Q!Unlock(t) \/ Q!PostSlot(t) \/ Q!PostItem(t)
  <2> USE DEF Q!Wait, Q!Lock, Q!Unlock, Q!PostSlot, Q!PostItem, Q!Goto, Q!ring, Q!locals
  <2>1. UNCHANGED <<pdata, head, tail, count, op, ptr, unused>>
    BY <1>5
  <2>2. /\ \A u \in Threads \ {t} : pc'[u] = pc[u] /\ arg'[u] = arg[u]
        /\ Carrying(t)' => Carrying(t) /\ arg'[t] = arg[t]
    BY <1>5 DEF Fields, Carrying
  <2>3. /\ t \in Workers => (Holding(t)' => Holding(t))
        /\ t \in Workers => pc[t] # "use"
    BY <1>5 DEF Fields, Holding, RunInv, OneWay, Q!Adding, Q!Blocking, Q!Trying
  <2>4. \A u \in Threads : Carrying(u)' => Carrying(u) /\ arg'[u] = arg[u]
    BY <2>1, <2>2 DEF Carrying
  <2>5. \A v \in Workers : Holding(v)' => Holding(v)
    BY <2>2, <2>3, ThreadKinds DEF Holding
  <2>6. \A v \in Workers : stage'[v] = "run" => stage[v] = "run" /\ pc'[v] = "use"
    BY <1>1, <2>2, <2>3, ThreadKinds DEF RunInv, NotRunYet
  <2> QED
    BY <1>1, <2>1, <2>4, <2>5, <2>6, NothingMoves
<1> QED
  BY <1>2, <1>3, <1>4, <1>5 DEF QueueStep, TaskAdded

\* The steps that leave the queue and the counters alone.
LEMMA OtherKeepsRuns ==
  ASSUME Fields, RunInv, OneWay', UNCHANGED <<queue, runs>>,
         \A w \in Workers : stage'[w] = "run" => stage[w] = "run"
  PROVE  RunInv'
<1>1. /\ UNCHANGED <<pdata, head, tail, count, ptr, unused>>
      /\ \A t \in Threads : Carrying(t)' => Carrying(t) /\ arg'[t] = arg[t]
      /\ \A w \in Workers : Holding(w)' => Holding(w)
      /\ pc' = pc
  BY DEF queue, Carrying, Holding
<1>2. \A w \in Workers : stage'[w] = "run" => stage[w] = "run" /\ pc'[w] = "use"
  BY <1>1 DEF RunInv, NotRunYet
<1> QED
  BY <1>1, <1>2, NothingMoves

LEMMA RunInvStep ==
  ASSUME SlotsKept, IInv, RunInv, Next
  PROVE  RunInv'
<1>1. Fields
  BY FieldsHold
<1>2. OneWay'
  BY <1>1, OneWayKept DEF RunInv
<1> USE <1>1, <1>2
<1>3. ASSUME NEW w \in Workers, WorkerStep(w)
      PROVE  RunInv'
  <2>1. CASE CheckRunning(w)
    <3>1. /\ pc[w] \in {"idle", "refused"} /\ pc' = [pc EXCEPT ![w] = "wait"]
          /\ op' = [op EXCEPT ![w] = "get_front"]
          /\ UNCHANGED <<pdata, head, tail, count, arg, ptr, unused, runs>>
          /\ stage' = [stage EXCEPT ![w] = "test"]
      BY <2>1 DEF CheckRunning, Q!Get, Q!ring, history, GotoStage
    <3>2. /\ \A t \in Threads : Carrying(t)' => Carrying(t) /\ arg'[t] = arg[t]
          /\ \A v \in Workers : Holding(v)' => Holding(v)
          /\ \A v \in Workers \ {w} : pc'[v] = pc[v] /\ stage'[v] = stage[v]
          /\ stage'[w] = "test"
      BY <3>1, ThreadKinds DEF Fields, Carrying, Holding
    <3>3. \A v \in Workers : stage'[v] = "run" => stage[v] = "run" /\ pc'[v] = "use"
      BY <3>2 DEF RunInv, NotRunYet
    <3> QED
      BY <3>1, <3>2, <3>3, NothingMoves
  <2>2. CASE CheckTerminated(w) \/ Finish(w)
    <3>1. /\ UNCHANGED <<queue, runs>>
          /\ \A v \in Workers : stage'[v] = "run" => stage[v] = "run"
      BY <2>2 DEF CheckTerminated, Finish, GotoStage, history, Fields
    <3> QED
      BY <3>1, OtherKeepsRuns
  <2>3. CASE TestMarker(w) \/ Run(w)
    BY <2>3, UseKeepsRuns
  <2>4. CASE TestTask(w)
    BY <2>4, TestKeepsRuns
  <2>5. CASE QueueStep(w)
    BY <2>5, QueueStepKeepsRuns, ThreadKinds
  <2> QED
    BY <1>3, <2>1, <2>2, <2>3, <2>4, <2>5 DEF WorkerStep
<1>4. ASSUME NEW c \in Clients, ClientStep(c) \/ \E v \in Tasks : TaskAdd(c, v)
      PROVE  RunInv'
  <2>1. c \in Threads \ Workers
    BY ThreadKinds
  <2>2. ASSUME NEW v \in Tasks, TaskAdd(c, v) PROVE RunInv'
    <3>1. Q!Add(c, "try_add_back", v) /\ v \in unused /\ UNCHANGED <<stage, runs>>
      BY <2>2 DEF TaskAdd, pool
    <3> QED
      BY <2>1, <3>1, AddKeepsRuns
  <2> QED
    BY <1>4, <2>1, <2>2, QueueStepKeepsRuns DEF ClientStep
<1>5. CASE OwnerStep
  <2>1. Owner \in Threads \ Workers
    BY ThreadKinds
  <2>2. CASE StopAddMarker
    <3>1. PICK v \in Markers \cap unused : Q!Add(Owner, "add_back", v)
      BY <2>2 DEF StopAddMarker
    <3>2. UNCHANGED <<stage, runs>>
      BY <2>2 DEF StopAddMarker, history
    <3> QED
      BY <2>1, <3>1, <3>2, AddKeepsRuns
  <2>3. CASE \/ \E w \in Workers : InitWorker(w)
             \/ InitNoThread \/ InitNoMemory \/ InitReturn \/ Stop \/ StopReturn
             \/ Join \/ JoinWait \/ JoinReturn \/ Free
    <3>1. UNCHANGED <<queue, runs>>
      BY <2>3 DEF InitWorker, InitNoThread, InitNoMemory, InitReturn, Stop, StopReturn,
                  Join, JoinWait, JoinReturn, Free, history
    <3>2. \A v \in Workers : stage'[v] = "run" => stage[v] = "run"
      BY <2>3, ThreadKinds
      DEF InitWorker, InitNoThread, InitNoMemory, InitReturn, Stop, StopReturn,
          Join, JoinWait, JoinReturn, Free, GotoStage, Fields
    <3> QED
      BY <3>1, <3>2, OtherKeepsRuns
  <2> QED
    BY <1>5, <2>1, <2>2, <2>3, QueueStepKeepsRuns DEF OwnerStep
<1> QED
  BY <1>3, <1>4, <1>5 DEF Next

LEMMA RunInvNext ==
  ASSUME [SlotsKept]_vars, IInv, RunInv, [Next]_vars
  PROVE  RunInv'
<1>1. CASE UNCHANGED vars
  <2>1. UNCHANGED <<queue, runs, stage>>
    BY <1>1 DEF vars, queue
  <2>2. Fields /\ OneWay'
    BY FieldsHold, OneWayKept DEF RunInv
  <2> QED
    BY <2>1, <2>2, OtherKeepsRuns
<1> QED
  BY <1>1, RunInvStep

LEMMA RunInvInit == Init => RunInv
<1> SUFFICES ASSUME Init PROVE RunInv
  OBVIOUS
<1>1. /\ pdata = [s \in Q!Slots |-> Empty] /\ head = 0 /\ tail = 0 /\ count = 0
      /\ pc = [t \in Threads |-> "idle"] /\ op = [t \in Threads |-> "get_front"]
      /\ unused = Items /\ runs = [x \in Items |-> 0]
      /\ stage = [t \in Workers \cup {Owner} |-> IF t = Owner THEN "init" ELSE "none"]
      /\ Capacity \in Nat \ {0} /\ Empty \notin Items
  BY QueueAssumption DEF Init, Q!Init, QP!MtQueueAssumption
<1>2. OneWay
  BY <1>1, ThreadKinds DEF OneWay
<1>3. \A t \in Threads : ~Carrying(t) /\ ~Holding(t)
  BY <1>1 DEF Carrying, Holding
<1>4. AddedOnce
  BY <1>1, <1>3 DEF AddedOnce
<1>5. NotRunYet
  BY <1>1, <1>3, ThreadKinds DEF NotRunYet, RunsOnce
<1>6. Waiting
  BY <1>1 DEF Waiting, Q!Occupied
<1> QED
  BY <1>2, <1>4, <1>5, <1>6 DEF RunInv

(* thread_pool_workers_entry(): for every number of workers and clients    *)
(* and every capacity of the queue, however often its slots are used       *)
(* again, each task runs at most once and no termination marker is run,    *)
(* unless mtqueue_add_back() writes the slot a worker still has a pointer  *)
(* to.  That is the one way in which the pool breaks this, and             *)
(* PoolStaleTask shows that it does.                                       *)
THEOREM OnlyReuseRunsTwice ==
  Spec /\ [][SlotsKept]_vars => []RunsOnce
<1>1. Init => IInv /\ RunInv
  BY InitHolds, RunInvInit
<1>2. IInv /\ RunInv /\ [Next]_vars /\ [SlotsKept]_vars => (IInv /\ RunInv)'
  BY NextKeeps, RunInvNext
<1>3. RunInv => RunsOnce
  BY DEF RunInv, NotRunYet
<1> QED
  BY <1>1, <1>2, <1>3, PTL DEF Spec
=============================================================================
