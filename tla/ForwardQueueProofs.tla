------------------------- MODULE ForwardQueueProofs -------------------------
(***************************************************************************)
(* Proofs about ForwardQueue, for any ids, handlers, tasks and bounds.     *)
(***************************************************************************)
EXTENDS ForwardQueue, TLAPS

(***************************************************************************)
(* Type correctness.                                                       *)
(***************************************************************************)
\* A handler that is anywhere in webhook_gowa serves an id, and stays well
\* typed when it moves to another step or answers.
LEMMA HandlerMoves ==
  ASSUME TypeOK, NEW h \in Handlers, NEW pc \in HandlerPcs, ~At(h, "idle")
  PROVE  /\ handler[h].id \in Ids
         /\ [handler EXCEPT ![h].pc = pc]
              \in [Handlers -> {IdleHandler} \cup [pc : HandlerPcs, id : Ids]]
  <1>1. handler[h] \in [pc : HandlerPcs, id : Ids]
    BY DEF TypeOK, At, IdleHandler
  <1>2. [handler[h] EXCEPT !.pc = pc] \in [pc : HandlerPcs, id : Ids]
    BY <1>1
  <1>3. [handler EXCEPT ![h].pc = pc] = [handler EXCEPT ![h] = [handler[h] EXCEPT !.pc = pc]]
    BY <1>1 DEF TypeOK
  <1>4. QED
    BY <1>1, <1>2, <1>3 DEF TypeOK

LEMMA HandlerAnswers ==
  ASSUME TypeOK, NEW h \in Handlers
  PROVE  [handler EXCEPT ![h] = IdleHandler]
           \in [Handlers -> {IdleHandler} \cup [pc : HandlerPcs, id : Ids]]
  BY DEF TypeOK

\* The same of a task.
LEMMA TaskMoves ==
  ASSUME TypeOK, NEW t \in Tasks, NEW pc \in TaskPcs, Live(t)
  PROVE  /\ task[t] \in [pc : TaskPcs, id : Ids, attempt : Nat, refused : Nat]
         /\ [task EXCEPT ![t].pc = pc]
              \in [Tasks -> {IdleTask} \cup
                     [pc : TaskPcs, id : Ids, attempt : Nat, refused : Nat]]
  <1>1. task[t] \in [pc : TaskPcs, id : Ids, attempt : Nat, refused : Nat]
    BY DEF TypeOK, Live, IdleTask
  <1>2. [task[t] EXCEPT !.pc = pc] \in [pc : TaskPcs, id : Ids, attempt : Nat, refused : Nat]
    BY <1>1
  <1>3. [task EXCEPT ![t].pc = pc] = [task EXCEPT ![t] = [task[t] EXCEPT !.pc = pc]]
    BY <1>1 DEF TypeOK
  <1>4. QED
    BY <1>1, <1>2, <1>3 DEF TypeOK

\* The file operations keep disk and fd well typed.
LEMMA RenameTypes ==
  ASSUME TypeOK, NEW id \in Ids, NEW from \in Dirs, NEW to \in Dirs, RenameFile(id, from, to)
  PROVE  /\ disk' \in [Dirs -> [Ids -> Content]]
         /\ fd' \in [Handlers -> Dirs \cup {"gone", "closed"}]
  <1> DEFINE unnamed == [disk EXCEPT ![from][id] = "none"]
             named   == [unnamed EXCEPT ![to][id] = disk[from][id]]
  <1>1. disk \in [Dirs -> [Ids -> Content]] /\ disk[from][id] \in Content
    BY DEF TypeOK
  <1>2. unnamed \in [Dirs -> [Ids -> Content]]
    <2>1. [disk[from] EXCEPT ![id] = "none"] \in [Ids -> Content]
      BY <1>1 DEF Content
    <2>2. QED
      BY <1>1, <2>1
  <1>3. named \in [Dirs -> [Ids -> Content]]
    <2>1. [unnamed[to] EXCEPT ![id] = disk[from][id]] \in [Ids -> Content]
      BY <1>1, <1>2
    <2>2. QED
      BY <1>2, <2>1
  <1>4. disk' = named
    BY DEF RenameFile
  <1>5. fd' \in [Handlers -> Dirs \cup {"gone", "closed"}]
    BY DEF TypeOK, RenameFile
  <1>6. QED
    BY <1>3, <1>4, <1>5

LEMMA RemoveTypes ==
  ASSUME TypeOK, NEW id \in Ids, RemoveFile(id)
  PROVE  /\ disk' \in [Dirs -> [Ids -> Content]]
         /\ fd' \in [Handlers -> Dirs \cup {"gone", "closed"}]
  BY DEF TypeOK, RemoveFile, Content, Dirs

LEMMA InitTypes == Init => TypeOK
  <1> SUFFICES ASSUME Init PROVE TypeOK
    OBVIOUS
  <1>1. disk \in [Dirs -> [Ids -> Content]]
    <2>1. [id \in Ids |-> "none"] \in [Ids -> Content]
      BY DEF Content
    <2>2. QED
      BY <2>1 DEF Init
  <1>2. handler \in [Handlers -> {IdleHandler} \cup [pc : HandlerPcs, id : Ids]]
    BY DEF Init
  <1>3. task \in [Tasks -> {IdleTask} \cup
                    [pc : TaskPcs, id : Ids, attempt : Nat, refused : Nat]]
    BY DEF Init
  <1>4. QED
    BY <1>1, <1>2, <1>3 DEF Init, TypeOK, WorkerPcs

LEMMA HandleTypes ==
  ASSUME TypeOK, NEW h \in Handlers, Handle(h) \/ EnqueueFails(h)
  PROVE  TypeOK'
  <1> USE DEF files, gowa, loop, work
  <1>1. handler' \in [Handlers -> {IdleHandler} \cup [pc : HandlerPcs, id : Ids]]
    <2>1. ~At(h, "idle")
      BY DEF Handle, Check, Create, Write, Rename, Mark, EnqueueFails, At
    <2>2. \A pc \in HandlerPcs : Goto(h, pc)
            => handler' \in [Handlers -> {IdleHandler} \cup [pc : HandlerPcs, id : Ids]]
      BY <2>1, HandlerMoves DEF Goto
    <2>3. Reply200(h) \/ Reply500(h)
            => handler' \in [Handlers -> {IdleHandler} \cup [pc : HandlerPcs, id : Ids]]
      BY HandlerAnswers DEF Reply200, Reply500
    <2>4. QED
      BY <2>2, <2>3
         DEF Handle, Check, Create, Write, Rename, Mark, EnqueueFails, HandlerPcs
  <1>2. ~At(h, "idle") => handler[h].id \in Ids
    BY DEF TypeOK, At, IdleHandler
  <1>3. (Reply200(h) \/ Reply500(h)) /\ ~At(h, "idle") => acked' \in SUBSET Ids
    BY <1>2 DEF Reply200, Reply500, TypeOK
  <1>4. CASE Check(h)
    BY <1>1, <1>3, <1>4 DEF Check, TypeOK, At
  <1>5. CASE Create(h)
    <2>1. /\ disk' \in [Dirs -> [Ids -> Content]]
          /\ fd' \in [Handlers -> Dirs \cup {"gone", "closed"}]
      BY <1>5, <1>2 DEF Create, TypeOK, At, Staging, Dirs, Content
    <2>2. QED
      BY <2>1, <1>1, <1>5 DEF Create, TypeOK
  <1>6. CASE Write(h)
    <2>1. /\ disk' \in [Dirs -> [Ids -> Content]]
          /\ fd' \in [Handlers -> Dirs \cup {"gone", "closed"}]
      BY <1>6, <1>2 DEF Write, TypeOK, At, Content
    <2>2. QED
      BY <2>1, <1>1, <1>6 DEF Write, TypeOK
  <1>7. CASE Rename(h)
    <2>1. handler[h].id \in Ids
      BY <1>2, <1>7 DEF Rename, At
    <2>2. /\ disk' \in [Dirs -> [Ids -> Content]]
          /\ fd' \in [Handlers -> Dirs \cup {"gone", "closed"}]
      <3>1. CASE RenameFile(handler[h].id, "tmp", "pending")
        BY <3>1, <2>1, RenameTypes DEF Dirs
      <3>2. CASE UNCHANGED <<disk, fd>>
        BY <3>2 DEF TypeOK
      <3>3. QED
        BY <3>1, <3>2, <1>7 DEF Rename, Staging
    <2>3. acked' \in SUBSET Ids /\ notify' \in BOOLEAN
      BY <1>3, <1>7 DEF Rename, TypeOK, At
    <2>4. QED
      BY <2>2, <2>3, <1>1, <1>7 DEF Rename, TypeOK
  <1>8. CASE Mark(h)
    BY <1>1, <1>2, <1>3, <1>8 DEF Mark, TypeOK, At
  <1>9. CASE EnqueueFails(h)
    BY <1>1, <1>3, <1>9 DEF EnqueueFails, TypeOK, At, Fault
  <1>10. QED
    BY <1>4, <1>5, <1>6, <1>7, <1>8, <1>9 DEF Handle

LEMMA TaskTypes ==
  ASSUME TypeOK, NEW t \in Tasks, Acquire(t) \/ Process(t)
  PROVE  TypeOK'
  <1> DEFINE TaskType == [pc : TaskPcs, id : Ids, attempt : Nat, refused : Nat]
  <1> USE DEF gowa, web, loop
  <1>1. Live(t)
    BY DEF Acquire, Process, Read, PostOk, PostFails, Retry, LeavePending, Remove, Bury,
           Leave, TaskAt, Live
  <1>2. task[t] \in TaskType
    BY <1>1, TaskMoves DEF TaskPcs
  <1>3. task[t].id \in Ids
    BY <1>2
  <1>4. \A pc \in TaskPcs : TaskGoto(t, pc) => task' \in [Tasks -> {IdleTask} \cup TaskType]
    BY <1>1, TaskMoves DEF TaskGoto
  <1>5. CASE Acquire(t)
    BY <1>4, <1>5 DEF Acquire, TypeOK, files, TaskPcs
  <1>6. CASE Read(t)
    BY <1>4, <1>6 DEF Read, TypeOK, files, TaskPcs, Fault
  <1>7. CASE PostOk(t)
    BY <1>3, <1>4, <1>7 DEF PostOk, TypeOK, files, TaskPcs
  <1>8. CASE PostFails(t)
    <2>1. \A pc \in TaskPcs, n \in Nat, m \in Nat :
            [task EXCEPT ![t] = [task[t] EXCEPT !.refused = m, !.pc = pc, !.attempt = n]]
              \in [Tasks -> {IdleTask} \cup TaskType]
      <3>1. \A pc \in TaskPcs, n \in Nat, m \in Nat :
              [task[t] EXCEPT !.refused = m, !.pc = pc, !.attempt = n] \in TaskType
        BY <1>2
      <3>2. QED
        BY <3>1 DEF TypeOK
    <2>2. /\ (IF Exhausted(t) THEN "bury" ELSE "backoff") \in TaskPcs
          /\ task[t].refused + 1 \in Nat
          /\ (IF Exhausted(t) THEN task[t].attempt ELSE task[t].attempt + 1) \in Nat
      BY <1>2 DEF TaskPcs
    <2>3. task' = [task EXCEPT ![t] = [task[t] EXCEPT
                     !.refused = task[t].refused + 1,
                     !.pc = IF Exhausted(t) THEN "bury" ELSE "backoff",
                     !.attempt = IF Exhausted(t) THEN task[t].attempt
                                 ELSE task[t].attempt + 1]]
      BY <1>2, <1>8 DEF PostFails, TypeOK
    <2>4. task' \in [Tasks -> {IdleTask} \cup TaskType]
      <3> HIDE DEF TaskType
      <3>1. QED
        BY <2>1, <2>2, <2>3, Zenon
    <2>5. QED
      BY <2>4, <1>8 DEF PostFails, TypeOK, files
  <1>9. CASE Retry(t)
    BY <1>4, <1>9 DEF Retry, TypeOK, files, TaskPcs
  <1>10. CASE LeavePending(t)
    BY <1>4, <1>10 DEF LeavePending, TypeOK, files, TaskPcs
  <1>11. CASE Remove(t)
    <2>1. /\ disk' \in [Dirs -> [Ids -> Content]]
          /\ fd' \in [Handlers -> Dirs \cup {"gone", "closed"}]
      BY <1>3, <1>11, RemoveTypes DEF Remove, TypeOK, files
    <2>2. QED
      BY <2>1, <1>4, <1>11 DEF Remove, TypeOK, TaskPcs, Fault
  <1>12. CASE Bury(t)
    <2>1. /\ disk' \in [Dirs -> [Ids -> Content]]
          /\ fd' \in [Handlers -> Dirs \cup {"gone", "closed"}]
      <3>1. CASE RenameFile(task[t].id, "pending", "dead")
        BY <1>3, <3>1, RenameTypes DEF Dirs
      <3>2. CASE UNCHANGED files
        BY <3>2 DEF TypeOK, files
      <3>3. QED
        BY <3>1, <3>2, <1>12 DEF Bury
    <2>2. QED
      BY <2>1, <1>4, <1>12 DEF Bury, TypeOK, TaskPcs, Fault
  <1>13. CASE Leave(t)
    BY <1>13 DEF Leave, TypeOK, files
  <1>14. QED
    BY <1>5, <1>6, <1>7, <1>8, <1>9, <1>10, <1>11, <1>12, <1>13 DEF Process

LEMMA WorkerTypes ==
  ASSUME TypeOK, WorkerStep
  PROVE  TypeOK'
  <1> USE DEF gowa, web, files, work, WorkerPcs
  <1>1. CASE Wake
    BY <1>1 DEF Wake, TypeOK
  <1>2. CASE Tick
    BY <1>2 DEF Tick, TypeOK
  <1>3. CASE Break
    BY <1>3 DEF Break, TypeOK
  <1>4. CASE List
    BY <1>4 DEF List, Held, TypeOK, Fault
  <1>5. ASSUME NEW id \in Ids, Spawn(id)
        PROVE  TypeOK'
    <2>1. [IdleTask EXCEPT !.pc = "queued", !.id = id]
            \in [pc : TaskPcs, id : Ids, attempt : Nat, refused : Nat]
      BY DEF IdleTask, TaskPcs
    <2>2. /\ inflight' \in SUBSET Ids
          /\ task' \in [Tasks -> {IdleTask} \cup
                          [pc : TaskPcs, id : Ids, attempt : Nat, refused : Nat]]
      BY <1>5, <2>1 DEF Spawn, TypeOK
    <2>3. QED
      BY <1>5, <2>2 DEF Spawn, TypeOK
  <1>6. CASE Drained
    BY <1>6 DEF Drained, TypeOK, AfterDrain
  <1>7. QED
    BY <1>1, <1>2, <1>3, <1>4, <1>5, <1>6 DEF WorkerStep

LEMMA ProcessTypes ==
  ASSUME TypeOK,
         Crash \/ Boot \/ Sigterm \/ Cancel \/ ExitDrained \/ ExitTimedOut
  PROVE  TypeOK'
  <1> USE DEF gowa, WorkerPcs
  <1>1. faults' \in Nat
    BY DEF Crash, Boot, Sigterm, Cancel, ExitDrained, ExitTimedOut, Fault, TypeOK
  <1>2. CASE Halt
    BY <1>1, <1>2 DEF Halt, TypeOK
  <1>3. CASE Boot
    <2>1. PICK left \in SUBSET Ids : Reap(left)
      BY <1>3 DEF Boot
    <2>2. disk' \in [Dirs -> [Ids -> Content]]
      <3>1. [id \in Ids |-> IF id \in left THEN disk["tmp"][id] ELSE "none"] \in [Ids -> Content]
        BY DEF TypeOK, Content, Dirs
      <3>2. QED
        BY <2>1, <3>1 DEF Reap, TypeOK
    <2>3. QED
      BY <1>1, <1>3, <2>2 DEF Boot, TypeOK, web, work
  <1>4. CASE Sigterm \/ Cancel
    BY <1>1, <1>4 DEF Sigterm, Cancel, TypeOK, web, files, loop, work
  <1>5. QED
    BY <1>2, <1>3, <1>4 DEF Crash, ExitDrained, ExitTimedOut

LEMMA NextTypes == TypeOK /\ [Next]_vars => TypeOK'
  <1> SUFFICES ASSUME TypeOK, [Next]_vars PROVE TypeOK'
    OBVIOUS
  <1>1. ASSUME NEW h \in Handlers, NEW id \in Ids, Deliver(h, id)
        PROVE  TypeOK'
    <2>1. [pc |-> "check", id |-> id] \in [pc : HandlerPcs, id : Ids]
      BY DEF HandlerPcs
    <2>2. QED
      BY <1>1, <2>1 DEF Deliver, TypeOK, files, loop, work
  <1>2. CASE UNCHANGED vars
    BY <1>2 DEF vars, gowa, web, files, loop, work, TypeOK
  <1>3. QED
    BY <1>1, <1>2, HandleTypes, TaskTypes, WorkerTypes, ProcessTypes DEF Next

\* The variables of the queue, its worker and the handlers keep their types.
THEOREM TypeCorrect == Spec => []TypeOK
  BY InitTypes, NextTypes, PTL DEF Spec
-----------------------------------------------------------------------------
(***************************************************************************)
(* in_flight and the tasks.                                                *)
(***************************************************************************)
\* A step that starts and ends no task and leaves in_flight alone is harmless.
LEMMA SameTasks ==
  ASSUME OneTaskPerFile, UNCHANGED inflight,
         \A u \in Tasks : (Live(u))' = Live(u) /\ task'[u].id = task[u].id
  PROVE  OneTaskPerFile'
  BY DEF OneTaskPerFile

LEMMA TaskGotoSame ==
  ASSUME TypeOK, NEW t \in Tasks, NEW pc \in TaskPcs, Live(t), TaskGoto(t, pc)
  PROVE  \A u \in Tasks : (Live(u))' = Live(u) /\ task'[u].id = task[u].id
  <1>1. task[t] \in [pc : TaskPcs, id : Ids, attempt : Nat, refused : Nat]
    BY TaskMoves
  <1>2. \A u \in Tasks : u # t => task'[u] = task[u]
    BY DEF TaskGoto, TypeOK
  <1>3. task'[t].pc = pc /\ task'[t].id = task[t].id
    BY <1>1 DEF TaskGoto, TypeOK
  <1>4. pc # "idle"
    BY DEF TaskPcs
  <1>5. QED
    BY <1>2, <1>3, <1>4 DEF Live

LEMMA NextTracks ==
  ASSUME TypeOK, OneTaskPerFile, [Next]_vars
  PROVE  OneTaskPerFile'
  <1>1. CASE UNCHANGED work
    BY <1>1, SameTasks DEF work, Live
  <1>2. ASSUME NEW id \in Ids, Spawn(id)
        PROVE  OneTaskPerFile'
    <2>1. CASE UNCHANGED <<inflight, task>>
      BY <2>1, SameTasks DEF Live
    <2>2. CASE ~Tracked(id)
      <3>1. PICK t \in Tasks :
              /\ ~Live(t)
              /\ inflight' = inflight \cup {id}
              /\ task' = [task EXCEPT ![t] = [IdleTask EXCEPT !.pc = "queued", !.id = id]]
        BY <1>2, <2>2 DEF Spawn
      <3>2. task'[t].id = id /\ task'[t].pc = "queued"
        BY <3>1 DEF TypeOK, IdleTask
      <3>3. \A u \in Tasks : u # t => task'[u] = task[u]
        BY <3>1 DEF TypeOK
      <3>4. \A u \in Tasks : Live(u) => task[u].id # id
        BY <2>2 DEF Tracked, OneTaskPerFile
      <3>5. QED
        BY <3>1, <3>2, <3>3, <3>4 DEF OneTaskPerFile, Live
    <2>3. QED
      BY <2>1, <2>2, <1>2 DEF Spawn
  <1>3. ASSUME NEW t \in Tasks, Acquire(t) \/ Process(t)
        PROVE  OneTaskPerFile'
    <2>1. Live(t)
      BY <1>3 DEF Acquire, Process, Read, PostOk, PostFails, Retry, LeavePending, Remove,
                  Bury, Leave, TaskAt, Live
    <2>2. CASE Leave(t)
      <3>1. /\ task'[t].pc = "idle"
            /\ \A u \in Tasks : u # t => task'[u] = task[u]
            /\ inflight' = inflight \ {task[t].id}
        BY <2>2 DEF Leave, TypeOK, IdleTask
      <3>2. QED
        BY <3>1, <2>1 DEF OneTaskPerFile, Live
    <2>3. CASE PostFails(t)
      <3>1. /\ task'[t].id = task[t].id
            /\ task'[t].pc \in {"bury", "backoff"}
            /\ \A u \in Tasks : u # t => task'[u] = task[u]
        BY <2>1, <2>3, TaskMoves DEF PostFails, TypeOK, TaskPcs
      <3>2. QED
        BY <3>1, <2>1, <2>3, SameTasks DEF PostFails, Live
    <2>4. CASE ~Leave(t) /\ ~PostFails(t)
      <3>1. UNCHANGED inflight /\ \E pc \in TaskPcs : TaskGoto(t, pc)
        BY <1>3, <2>4 DEF Acquire, Process, Read, PostOk, Retry, LeavePending, Remove, Bury,
                          TaskPcs
      <3>2. QED
        BY <3>1, <2>1, TaskGotoSame, SameTasks
    <2>5. QED
      BY <2>2, <2>3, <2>4
  <1>4. CASE Halt
    BY <1>4 DEF Halt, OneTaskPerFile, Live, IdleTask
  <1>5. QED
    BY <1>1, <1>2, <1>3, <1>4
       DEF Next, vars, Handle, Check, Create, Write, Rename, Mark, EnqueueFails, Deliver,
           WorkerStep, Wake, Tick, Break, List, Drained,
           Crash, Boot, Sigterm, Cancel, ExitDrained, ExitTimedOut
-----------------------------------------------------------------------------
(***************************************************************************)
(* What a step does to the files.                                          *)
(***************************************************************************)
\* A handler that is busy serves an id of Ids.
LEMMA BusyHasId ==
  ASSUME TypeOK, NEW h \in Handlers, ~At(h, "idle")
  PROVE  handler[h].id \in Ids
  BY DEF TypeOK, At, IdleHandler

LEMMA LiveHasId ==
  ASSUME TypeOK, NEW t \in Tasks, Live(t)
  PROVE  task[t].id \in Ids
  BY DEF TypeOK, Live, IdleTask

\* Which names exist after a rename.
LEMMA RenameNames ==
  ASSUME TypeOK, NEW id \in Ids, NEW from \in Dirs, NEW to \in Dirs, from # to,
         disk[from][id] # "none", RenameFile(id, from, to)
  PROVE  \A d \in Dirs, i \in Ids :
           disk'[d][i] = IF d = to /\ i = id THEN disk[from][id]
                         ELSE IF d = from /\ i = id THEN "none"
                         ELSE disk[d][i]
  BY DEF TypeOK, RenameFile

LEMMA RemoveNames ==
  ASSUME TypeOK, NEW id \in Ids, RemoveFile(id)
  PROVE  \A d \in Dirs, i \in Ids :
           disk'[d][i] = IF d = "pending" /\ i = id THEN "none" ELSE disk[d][i]
  BY DEF TypeOK, RemoveFile

LEMMA CreateNames ==
  ASSUME TypeOK, NEW h \in Handlers, Create(h)
  PROVE  \A d \in Dirs, i \in Ids :
           disk'[d][i] = IF d = "tmp" /\ i = handler[h].id THEN "torn" ELSE disk[d][i]
  <1>1. handler[h].id \in Ids
    BY BusyHasId DEF Create, At
  <1>2. QED
    BY <1>1 DEF Create, TypeOK, Staging, Dirs

\* write_all creates no name.
LEMMA WriteNames ==
  ASSUME TypeOK, OpenFiles, NEW h \in Handlers, Write(h)
  PROVE  \A d \in Dirs, i \in Ids : disk'[d][i] = "none" <=> disk[d][i] = "none"
  <1>1. handler[h].id \in Ids
    BY BusyHasId DEF Write, At
  <1>2. fd[h] \in Dirs => disk[fd[h]][handler[h].id] # "none"
    BY DEF OpenFiles
  <1>3. QED
    BY <1>1, <1>2 DEF Write, TypeOK

\* The queue's view of a step: at most one of its three sets changes, or a file
\* goes from pending/ to dead/, and each change is one specific action's.
Effect ==
  \/ UNCHANGED <<Held, Buried, Delivered>>
  \/ \E h \in Handlers :
       /\ Rename(h) /\ handler[h].id \in Ids /\ UNCHANGED acked
       /\ Held' = Held \cup {handler[h].id} /\ UNCHANGED <<Buried, Delivered>>
  \/ \E t \in Tasks :
       /\ PostOk(t) /\ task[t].id \in Held
       /\ Delivered' = Delivered \cup {task[t].id} /\ UNCHANGED <<Held, Buried>>
  \/ \E t \in Tasks :
       /\ Remove(t) /\ task[t].id \in Held \cap Delivered
       /\ Held' = Held \ {task[t].id} /\ UNCHANGED <<Buried, Delivered>>
  \/ \E t \in Tasks :
       /\ Bury(t) /\ task[t].id \in Held
       /\ Held' = Held \ {task[t].id} /\ Buried' = Buried \cup {task[t].id}
       /\ UNCHANGED Delivered

\* A step that leaves the names in pending/ and dead/ and the counts is no change.
LEMMA SameNames ==
  ASSUME UNCHANGED forwarded,
         \A d \in {"pending", "dead"}, i \in Ids : disk'[d][i] = "none" <=> disk[d][i] = "none"
  PROVE  UNCHANGED <<Held, Buried, Delivered>>
  BY DEF Held, Buried, Delivered

LEMMA NextEffect ==
  ASSUME TypeOK, OpenFiles, TaskOwnsFile, [Next]_vars
  PROVE  Effect
  <1>1. CASE UNCHANGED <<disk, forwarded>>
    BY <1>1, SameNames DEF Effect
  <1>2. ASSUME NEW h \in Handlers, Create(h)
        PROVE  Effect
    BY <1>2, CreateNames, SameNames DEF Effect, Create, work, Dirs
  <1>3. ASSUME NEW h \in Handlers, Write(h)
        PROVE  Effect
    BY <1>3, WriteNames, SameNames DEF Effect, Write, work, Dirs
  <1>4. ASSUME NEW h \in Handlers, Rename(h)
        PROVE  Effect
    <2>1. UNCHANGED forwarded
      BY <1>4 DEF Rename, work
    <2>2. CASE UNCHANGED disk
      BY <2>1, <2>2, SameNames DEF Effect
    <2>3. CASE /\ disk["tmp"][handler[h].id] # "none"
               /\ RenameFile(handler[h].id, "tmp", "pending")
               /\ UNCHANGED acked
      <3>1. handler[h].id \in Ids
        BY <1>4, BusyHasId DEF Rename, At
      <3>2. \A d \in Dirs, i \in Ids :
              disk'[d][i] = IF d = "pending" /\ i = handler[h].id THEN disk["tmp"][handler[h].id]
                            ELSE IF d = "tmp" /\ i = handler[h].id THEN "none"
                            ELSE disk[d][i]
        BY <2>3, <3>1, RenameNames DEF Dirs
      <3>3. Held' = Held \cup {handler[h].id} /\ UNCHANGED <<Buried, Delivered>>
        BY <2>1, <2>3, <3>1, <3>2 DEF Held, Buried, Delivered, Dirs
      <3>4. QED
        BY <1>4, <2>3, <3>1, <3>3 DEF Effect
    <2>4. QED
      BY <1>4, <2>2, <2>3 DEF Rename, Staging, files
  <1>5. ASSUME NEW t \in Tasks, PostOk(t)
        PROVE  Effect
    <2>1. task[t].id \in Held /\ task[t].id \in Ids
      BY <1>5 DEF PostOk, TaskAt, TaskOwnsFile, Held
    <2>2. \A i \in Ids : forwarded'[i] = IF i = task[t].id THEN forwarded[i] + 1 ELSE forwarded[i]
      BY <1>5, <2>1 DEF PostOk, TypeOK
    <2>3. Delivered' = Delivered \cup {task[t].id}
      BY <2>1, <2>2 DEF Delivered, TypeOK
    <2>4. UNCHANGED <<Held, Buried>>
      BY <1>5 DEF PostOk, files, Held, Buried
    <2>5. QED
      BY <1>5, <2>1, <2>3, <2>4 DEF Effect
  <1>6. ASSUME NEW t \in Tasks, Remove(t)
        PROVE  Effect
    <2>1. UNCHANGED forwarded
      BY <1>6 DEF Remove
    <2>2. CASE UNCHANGED disk
      BY <2>1, <2>2, SameNames DEF Effect
    <2>3. CASE RemoveFile(task[t].id)
      <3>1. task[t].id \in Held /\ task[t].id \in Delivered /\ task[t].id \in Ids
        BY <1>6 DEF Remove, TaskAt, TaskOwnsFile, Held
      <3>2. \A d \in Dirs, i \in Ids :
              disk'[d][i] = IF d = "pending" /\ i = task[t].id THEN "none" ELSE disk[d][i]
        BY <2>3, <3>1, RemoveNames
      <3>3. Held' = Held \ {task[t].id} /\ UNCHANGED <<Buried, Delivered>>
        BY <2>1, <3>2 DEF Held, Buried, Delivered, Dirs
      <3>4. QED
        BY <1>6, <3>1, <3>3 DEF Effect
    <2>4. QED
      BY <1>6, <2>2, <2>3 DEF Remove, files
  <1>7. ASSUME NEW t \in Tasks, Bury(t)
        PROVE  Effect
    <2>1. UNCHANGED forwarded
      BY <1>7 DEF Bury
    <2>2. CASE UNCHANGED disk
      BY <2>1, <2>2, SameNames DEF Effect
    <2>3. CASE RenameFile(task[t].id, "pending", "dead")
      <3>1. task[t].id \in Held /\ task[t].id \in Ids
        BY <1>7 DEF Bury, TaskAt, TaskOwnsFile, Held
      <3>2. disk["pending"][task[t].id] # "none"
        BY <3>1 DEF Held
      <3>3. \A d \in Dirs, i \in Ids :
              disk'[d][i] = IF d = "dead" /\ i = task[t].id THEN disk["pending"][task[t].id]
                            ELSE IF d = "pending" /\ i = task[t].id THEN "none"
                            ELSE disk[d][i]
        BY <2>3, <3>1, <3>2, RenameNames DEF Dirs
      <3>4. /\ Held' = Held \ {task[t].id}
            /\ Buried' = Buried \cup {task[t].id}
            /\ UNCHANGED Delivered
        BY <2>1, <3>1, <3>2, <3>3 DEF Held, Buried, Delivered, Dirs
      <3>5. QED
        BY <1>7, <3>1, <3>4 DEF Effect
    <2>4. QED
      BY <1>7, <2>2, <2>3 DEF Bury, files
  <1>8. CASE Boot
    <2>1. \A d \in {"pending", "dead"}, i \in Ids : disk'[d][i] = disk[d][i]
      <3>1. PICK left \in SUBSET Ids : Reap(left)
        BY <1>8 DEF Boot
      <3>2. QED
        BY <3>1 DEF Reap, TypeOK, Dirs
    <2>2. UNCHANGED forwarded
      BY <1>8 DEF Boot, work
    <2>3. QED
      BY <2>1, <2>2, SameNames DEF Effect
  <1>9. QED
    BY <1>1, <1>2, <1>3, <1>4, <1>5, <1>6, <1>7, <1>8
       DEF Next, vars, files, work, Handle, Check, Mark, EnqueueFails, Deliver,
           WorkerStep, Wake, Tick, Break, List, Spawn, Drained, Acquire, Process, Read,
           PostFails, Retry, LeavePending, Leave, Halt,
           Crash, Sigterm, Cancel, ExitDrained, ExitTimedOut
-----------------------------------------------------------------------------
(***************************************************************************)
(* A task keeps its file, a handler its open file.                         *)
(***************************************************************************)
\* How a task gets to where it needs its file: it was there already, it has read
\* the file, or it has had the agent's 2xx.
LEMMA TaskArrives ==
  ASSUME TypeOK, [Next]_vars, NEW t \in Tasks,
         task'[t].pc \in {"post", "backoff", "remove", "bury"}
  PROVE  /\ Live(t)
         /\ task'[t].id = task[t].id
         /\ \/ task[t].pc \in {"post", "backoff", "remove", "bury"}
            \/ disk["pending"][task[t].id] # "none"
         /\ task'[t].pc = "remove" => task[t].pc = "remove" \/ PostOk(t)
  <1>1. CASE task'[t] = task[t]
    BY <1>1 DEF Live
  <1>2. CASE \E u \in Tasks : u # t /\ (Acquire(u) \/ Process(u))
    <2>1. PICK u \in Tasks : u # t /\ (Acquire(u) \/ Process(u))
      BY <1>2
    <2>2. task'[t] = task[t]
      BY <2>1 DEF Acquire, Process, Read, PostOk, PostFails, Retry, LeavePending, Remove,
                  Bury, Leave, TaskGoto, TypeOK
    <2>3. QED
      BY <2>2, <1>1
  <1>3. CASE Acquire(t) \/ Process(t)
    <2>1. Live(t)
      BY <1>3 DEF Acquire, Process, Read, PostOk, PostFails, Retry, LeavePending, Remove,
                  Bury, Leave, TaskAt, Live
    <2>2. task[t] \in [pc : TaskPcs, id : Ids, attempt : Nat, refused : Nat]
      BY <2>1, TaskMoves DEF TaskPcs
    <2>3. \A pc \in TaskPcs : TaskGoto(t, pc) => task'[t].pc = pc /\ task'[t].id = task[t].id
      BY <2>2 DEF TaskGoto, TypeOK
    <2>4. CASE Read(t)
      BY <2>1, <2>3, <2>4 DEF Read, TaskPcs
    <2>5. CASE PostOk(t)
      BY <2>1, <2>3, <2>5 DEF PostOk, TaskAt, TaskPcs
    <2>6. CASE PostFails(t)
      <3>1. /\ task'[t].id = task[t].id
            /\ task'[t].pc \in {"bury", "backoff"}
        BY <2>2, <2>6 DEF PostFails, TypeOK
      <3>2. QED
        BY <2>1, <2>6, <3>1 DEF PostFails, TaskAt
    <2>7. CASE Retry(t)
      BY <2>1, <2>3, <2>7 DEF Retry, TaskAt, TaskPcs
    <2>8. CASE Acquire(t) \/ LeavePending(t) \/ Remove(t) \/ Bury(t)
      BY <2>3, <2>8 DEF Acquire, LeavePending, Remove, Bury, TaskPcs
    <2>9. CASE Leave(t)
      BY <2>9 DEF Leave, TypeOK, IdleTask
    <2>10. QED
      BY <1>3, <2>4, <2>5, <2>6, <2>7, <2>8, <2>9 DEF Process
  <1>4. ASSUME NEW id \in Ids, Spawn(id)
        PROVE  task'[t] = task[t]
    BY <1>4 DEF Spawn, TypeOK, IdleTask
  <1>5. ~Halt
    BY DEF Halt, IdleTask
  <1>6. CASE UNCHANGED task
    BY <1>1, <1>6
  <1>7. QED
    BY <1>1, <1>2, <1>3, <1>4, <1>5, <1>6
       DEF Next, vars, work, Handle, Check, Create, Write, Rename, Mark, EnqueueFails,
           Deliver, WorkerStep, Wake, Tick, Break, List, Drained,
           Crash, Boot, Sigterm, Cancel, ExitDrained, ExitTimedOut

LEMMA NextOwns ==
  ASSUME TypeOK, OneTaskPerFile, OpenFiles, TaskOwnsFile, [Next]_vars
  PROVE  TaskOwnsFile'
  <1> SUFFICES ASSUME NEW t \in Tasks, task'[t].pc \in {"post", "backoff", "remove", "bury"}
               PROVE  /\ task'[t].id \in Held'
                      /\ task'[t].pc = "remove" => task'[t].id \in Delivered'
    BY DEF TaskOwnsFile, TaskAt
  <1>1. Effect
    BY NextEffect
  <1>2. /\ Live(t)
        /\ task'[t].id = task[t].id
        /\ task'[t].pc = "remove" => task[t].pc = "remove" \/ PostOk(t)
    BY TaskArrives
  <1>3. task[t].id \in Held
    <2>1. CASE task[t].pc \in {"post", "backoff", "remove", "bury"}
      BY <2>1 DEF TaskOwnsFile
    <2>2. CASE disk["pending"][task[t].id] # "none"
      BY <2>2, <1>2, LiveHasId DEF Held
    <2>3. QED
      BY <2>1, <2>2, TaskArrives
  \* Only a task that is done with its file takes it away, and no two have it.
  <1>4. ASSUME NEW u \in Tasks, Remove(u) \/ Bury(u)
        PROVE  task[u].id # task[t].id
    <2>1. Live(u)
      BY <1>4 DEF Remove, Bury, TaskAt, Live
    <2>2. task'[u].pc = "leave"
      <3>1. task[u] \in [pc : TaskPcs, id : Ids, attempt : Nat, refused : Nat]
        BY <2>1, TaskMoves DEF TaskPcs
      <3>2. QED
        BY <1>4, <3>1 DEF Remove, Bury, TaskGoto, TypeOK
    <2>3. u # t
      BY <2>2
    <2>4. QED
      BY <2>1, <2>3, <1>2 DEF OneTaskPerFile
  <1>5. task'[t].id \in Held'
    BY <1>1, <1>2, <1>3, <1>4 DEF Effect
  <1>6. ASSUME task'[t].pc = "remove" PROVE task'[t].id \in Delivered'
    <2>1. CASE task[t].pc = "remove"
      BY <1>1, <1>2, <2>1 DEF TaskOwnsFile, TaskAt, Effect
    <2>2. CASE PostOk(t)
      <3>1. forwarded'[task[t].id] > 0 /\ task[t].id \in Ids
        BY <1>2, <2>2, LiveHasId DEF PostOk, TypeOK
      <3>2. QED
        BY <1>2, <3>1 DEF Delivered
    <2>3. QED
      BY <1>2, <1>6, <2>1, <2>2
  <1>7. QED
    BY <1>5, <1>6

LEMMA NextDown ==
  ASSUME TypeOK, DownIsIdle, [Next]_vars
  PROVE  DownIsIdle'
  <1>1. ASSUME NEW h \in Handlers, Handle(h) \/ EnqueueFails(h)
        PROVE  proc # "down" /\ UNCHANGED proc
    BY <1>1 DEF DownIsIdle, Handle, Check, Create, Write, Rename, Mark, EnqueueFails, At
  <1>2. CASE Halt
    BY <1>2 DEF Halt, DownIsIdle, At, IdleHandler
  <1>3. ASSUME NEW h \in Handlers, NEW id \in Ids, Deliver(h, id)
        PROVE  proc # "down" /\ UNCHANGED proc
    BY <1>3 DEF Deliver
  <1>4. CASE Boot \/ Sigterm \/ Cancel
    BY <1>4 DEF Boot, Sigterm, Cancel, DownIsIdle
  <1>5. CASE UNCHANGED <<proc, handler>>
    BY <1>5 DEF DownIsIdle, At
  <1>6. QED
    BY <1>1, <1>2, <1>3, <1>4, <1>5
       DEF Next, vars, web, WorkerStep, Wake, Tick, Break, List, Spawn, Drained,
           Acquire, Process, Read, PostOk, PostFails, Retry, LeavePending, Remove, Bury, Leave,
           Crash, ExitDrained, ExitTimedOut, DownIsIdle

\* A rename takes the files others have open along.
LEMMA RenameOpen ==
  ASSUME TypeOK, OpenFiles, NEW id \in Ids, NEW from \in Dirs, NEW to \in Dirs, from # to,
         disk[from][id] # "none", RenameFile(id, from, to),
         NEW g \in Handlers, fd'[g] \in Dirs
  PROVE  fd[g] \in Dirs /\ disk'[fd'[g]][handler[g].id] # "none"
  <1>1. \A d \in Dirs, i \in Ids :
          disk'[d][i] = IF d = to /\ i = id THEN disk[from][id]
                        ELSE IF d = from /\ i = id THEN "none"
                        ELSE disk[d][i]
    BY RenameNames
  <1>2. fd'[g] = IF handler[g].id # id THEN fd[g]
                 ELSE IF fd[g] = to THEN "gone"
                 ELSE IF fd[g] = from THEN to
                 ELSE fd[g]
    BY DEF RenameFile
  <1>3. "gone" \notin Dirs
    BY DEF Dirs
  <1>4. fd[g] \in Dirs
    BY <1>2, <1>3
  <1>5. handler[g].id \in Ids /\ disk[fd[g]][handler[g].id] # "none"
    BY <1>4, BusyHasId DEF OpenFiles, At
  <1>6. QED
    BY <1>1, <1>2, <1>3, <1>4, <1>5

LEMMA NextOpen ==
  ASSUME TypeOK, OpenFiles, DownIsIdle, [Next]_vars
  PROVE  OpenFiles'
  <1> SUFFICES ASSUME NEW g \in Handlers, fd'[g] \in Dirs
               PROVE  (At(g, "write"))' /\ disk'[fd'[g]][handler'[g].id] # "none"
    BY DEF OpenFiles
  <1>1. CASE UNCHANGED <<handler, files>>
    BY <1>1 DEF OpenFiles, files, At
  <1>2. "closed" \notin Dirs /\ "gone" \notin Dirs
    BY DEF Dirs
  <1>3. ASSUME NEW h \in Handlers, NEW id \in Ids, Deliver(h, id)
        PROVE  (At(g, "write"))' /\ disk'[fd'[g]][handler'[g].id] # "none"
    <2>1. g # h
      BY <1>3 DEF Deliver, files, OpenFiles, At
    <2>2. QED
      BY <2>1, <1>3 DEF Deliver, files, OpenFiles, At, TypeOK
  <1>4. ASSUME NEW h \in Handlers, Check(h) \/ Mark(h) \/ EnqueueFails(h)
        PROVE  (At(g, "write"))' /\ disk'[fd'[g]][handler'[g].id] # "none"
    <2>1. g # h
      BY <1>2, <1>4 DEF Check, Mark, EnqueueFails, files, OpenFiles, At, TypeOK
    <2>2. fd'[g] = fd[g] /\ handler'[g] = handler[g] /\ UNCHANGED disk
      BY <2>1, <1>4
         DEF Check, Mark, EnqueueFails, files, TypeOK, Goto, Reply200, Reply500
    <2>3. QED
      BY <2>2 DEF OpenFiles, At
  <1>5. ASSUME NEW h \in Handlers, Create(h)
        PROVE  (At(g, "write"))' /\ disk'[fd'[g]][handler'[g].id] # "none"
    <2>1. handler[h].id \in Ids /\ handler'[h].id = handler[h].id /\ handler'[h].pc = "write"
      <3>1. handler[h] \in [pc : HandlerPcs, id : Ids]
        BY <1>5 DEF Create, At, TypeOK, IdleHandler
      <3>2. QED
        BY <1>5, <3>1 DEF Create, Goto, TypeOK
    <2>2. \A d \in Dirs, i \in Ids :
            disk'[d][i] = IF d = "tmp" /\ i = handler[h].id THEN "torn" ELSE disk[d][i]
      BY <1>5, CreateNames
    <2>3. CASE g = h
      BY <2>1, <2>2, <2>3, <1>5 DEF Create, Staging, TypeOK, At, Dirs
    <2>4. CASE g # h
      <3>1. fd'[g] = fd[g] /\ handler'[g] = handler[g]
        BY <2>4, <1>5 DEF Create, Goto, TypeOK
      <3>2. At(g, "write") /\ disk[fd[g]][handler[g].id] # "none" /\ handler[g].id \in Ids
        BY <3>1, BusyHasId DEF OpenFiles, At
      <3>3. QED
        BY <2>2, <3>1, <3>2 DEF At
    <2>5. QED
      BY <2>3, <2>4
  <1>6. ASSUME NEW h \in Handlers, Write(h)
        PROVE  (At(g, "write"))' /\ disk'[fd'[g]][handler'[g].id] # "none"
    <2>1. g # h
      BY <1>2, <1>6 DEF Write, TypeOK
    <2>2. fd'[g] = fd[g] /\ handler'[g] = handler[g]
      BY <2>1, <1>6 DEF Write, Goto, TypeOK
    <2>3. At(g, "write") /\ disk[fd[g]][handler[g].id] # "none" /\ handler[g].id \in Ids
      BY <2>2, BusyHasId DEF OpenFiles, At
    <2>4. QED
      BY <2>2, <2>3, <1>6, WriteNames DEF At
  <1>7. ASSUME NEW h \in Handlers, Rename(h)
        PROVE  (At(g, "write"))' /\ disk'[fd'[g]][handler'[g].id] # "none"
    <2>1. handler[h].id \in Ids /\ At(h, "rename")
      BY <1>7, BusyHasId DEF Rename, At
    <2>2. \A f \in Handlers : f # h => handler'[f] = handler[f]
      BY <1>7 DEF Rename, Goto, Reply500, TypeOK
    <2>3. CASE UNCHANGED files
      <3>1. g # h
        BY <2>1, <2>3 DEF files, OpenFiles, At
      <3>2. QED
        BY <2>2, <2>3, <3>1 DEF files, OpenFiles, At
    <2>4. CASE disk["tmp"][handler[h].id] # "none" /\ RenameFile(handler[h].id, "tmp", "pending")
      <3>1. fd[g] \in Dirs /\ disk'[fd'[g]][handler[g].id] # "none"
        BY <2>1, <2>4, RenameOpen DEF Dirs
      <3>2. At(g, "write") /\ g # h
        BY <2>1, <3>1 DEF OpenFiles, At
      <3>3. QED
        BY <2>2, <3>1, <3>2 DEF At
    <2>5. QED
      BY <1>7, <2>3, <2>4 DEF Rename, Staging
  <1>8. ASSUME NEW t \in Tasks, Remove(t)
        PROVE  (At(g, "write"))' /\ disk'[fd'[g]][handler'[g].id] # "none"
    <2>1. UNCHANGED handler /\ task[t].id \in Ids
      BY <1>8, LiveHasId DEF Remove, web, TaskAt, Live
    <2>2. CASE RemoveFile(task[t].id)
      <3>1. \A d \in Dirs, i \in Ids :
              disk'[d][i] = IF d = "pending" /\ i = task[t].id THEN "none" ELSE disk[d][i]
        BY <2>1, <2>2, RemoveNames
      <3>2. fd'[g] = IF handler[g].id = task[t].id /\ fd[g] = "pending" THEN "gone" ELSE fd[g]
        BY <2>2 DEF RemoveFile
      <3>3. At(g, "write") /\ disk[fd[g]][handler[g].id] # "none" /\ handler[g].id \in Ids
        BY <1>2, <3>2, BusyHasId DEF OpenFiles, At
      <3>4. QED
        BY <1>2, <2>1, <3>1, <3>2, <3>3 DEF At
    <2>3. QED
      BY <1>1, <1>8, <2>1, <2>2 DEF Remove
  <1>9. ASSUME NEW t \in Tasks, Bury(t)
        PROVE  (At(g, "write"))' /\ disk'[fd'[g]][handler'[g].id] # "none"
    <2>1. UNCHANGED handler /\ task[t].id \in Ids
      BY <1>9, LiveHasId DEF Bury, web, TaskAt, Live
    <2>2. CASE /\ disk["pending"][task[t].id] # "none"
               /\ RenameFile(task[t].id, "pending", "dead")
      <3>1. fd[g] \in Dirs /\ disk'[fd'[g]][handler[g].id] # "none"
        BY <2>1, <2>2, RenameOpen DEF Dirs
      <3>2. QED
        BY <2>1, <3>1 DEF OpenFiles, At
    <2>3. QED
      BY <1>1, <1>9, <2>1, <2>2 DEF Bury
  <1>10. ~Halt
    BY <1>2 DEF Halt
  <1>11. CASE Boot
    BY <1>11 DEF Boot, DownIsIdle, OpenFiles, At
  <1>12. QED
    BY <1>1, <1>3, <1>4, <1>5, <1>6, <1>7, <1>8, <1>9, <1>10, <1>11
       DEF Next, vars, web, Handle, WorkerStep, Wake, Tick, Break, List, Spawn, Drained,
           Acquire, Process, Read, PostOk, PostFails, Retry, LeavePending, Leave,
           Crash, Sigterm, Cancel, ExitDrained, ExitTimedOut
-----------------------------------------------------------------------------
(***************************************************************************)
(* A 200 is backed by a stored message, for ever.                          *)
(***************************************************************************)
LEMMA StoredStays ==
  ASSUME TypeOK, OpenFiles, TaskOwnsFile, [Next]_vars
  PROVE  Stored \subseteq Stored'
  <1>1. Effect
    BY NextEffect
  <1>2. QED
    BY <1>1 DEF Effect, Stored

\* GOWA is only told 200 for what is stored.
LEMMA AckedStored ==
  ASSUME TypeOK, Backed, [Next]_vars
  PROVE  acked' \subseteq acked \cup Stored
  <1>1. ASSUME NEW h \in Handlers, Check(h)
        PROVE  acked' \subseteq acked \cup Stored
    BY <1>1 DEF Check, Reply200, Seen, Backed
  <1>2. ASSUME NEW h \in Handlers, Mark(h)
        PROVE  acked' \subseteq acked \cup Stored
    BY <1>2 DEF Mark, Reply200, Backed
  <1>3. QED
    BY <1>1, <1>2
       DEF Next, vars, gowa, Handle, Create, Write, Rename, Reply500, EnqueueFails, Deliver,
           WorkerStep, Wake, Tick, Break, List, Spawn, Drained, Acquire, Process, Read, PostOk,
           PostFails, Retry, LeavePending, Remove, Bury, Leave, Halt,
           Crash, Boot, Sigterm, Cancel, ExitDrained, ExitTimedOut

LEMMA NextBacked ==
  ASSUME TypeOK, Backed, OpenFiles, TaskOwnsFile, [Next]_vars
  PROVE  Backed'
  <1>1. NoLoss'
    BY StoredStays, AckedStored DEF Backed, NoLoss
  <1>2. dedup' \subseteq dedup \cup Stored
    <2>1. ASSUME NEW h \in Handlers, Mark(h)
          PROVE  dedup' \subseteq dedup \cup Stored
      BY <2>1 DEF Mark, Backed
    <2>2. QED
      BY <2>1
         DEF Next, vars, web, Handle, Check, Create, Write, Rename, EnqueueFails, Deliver,
             WorkerStep, Wake, Tick, Break, List, Spawn, Drained, Acquire, Process, Read,
             PostOk, PostFails, Retry, LeavePending, Remove, Bury, Leave, Halt,
             Crash, Boot, Sigterm, Cancel, ExitDrained, ExitTimedOut
  <1>3. ASSUME NEW h \in Handlers, (At(h, "mark"))'
        PROVE  handler'[h].id \in Stored'
    <2>1. CASE handler'[h] = handler[h]
      BY <2>1, <1>3, StoredStays DEF Backed, At
    <2>2. CASE Rename(h) /\ handler'[h] # handler[h]
      <3>1. /\ RenameFile(handler[h].id, "tmp", "pending")
            /\ disk["tmp"][handler[h].id] # "none"
            /\ Goto(h, "mark")
        BY <1>3, <2>2 DEF Rename, Reply500, Staging, At, TypeOK, IdleHandler
      <3>2. handler[h] \in [pc : HandlerPcs, id : Ids]
        BY <2>2 DEF Rename, At, TypeOK, IdleHandler
      <3>3. handler'[h].id = handler[h].id /\ handler[h].id \in Ids
        BY <3>1, <3>2 DEF Goto, TypeOK
      <3>4. disk'["pending"][handler[h].id] # "none"
        BY <3>1, <3>3, RenameNames DEF Dirs
      <3>5. QED
        BY <3>3, <3>4 DEF Stored, Held
    <2>3. handler'[h] = handler[h] \/ Rename(h)
      <3>1. ASSUME NEW g \in Handlers, Handle(g) \/ EnqueueFails(g), g # h
            PROVE  handler'[h] = handler[h]
        BY <3>1 DEF Handle, Check, Create, Write, Rename, Mark, EnqueueFails, Goto,
                    Reply200, Reply500, TypeOK
      <3>2. Handle(h) \/ EnqueueFails(h) => Rename(h)
        <4>1. Check(h) \/ Create(h) \/ Write(h) => ~At(h, "idle")
          BY DEF Check, Create, Write, At
        <4>2. \A pc \in HandlerPcs : Goto(h, pc) /\ ~At(h, "idle") => handler'[h].pc = pc
          <5>1. ~At(h, "idle") => handler[h] \in [pc : HandlerPcs, id : Ids]
            BY DEF At, TypeOK, IdleHandler
          <5>2. QED
            BY <5>1 DEF Goto, TypeOK
        <4>3. ~Reply200(h) /\ ~Reply500(h)
          BY <1>3 DEF Reply200, Reply500, At, TypeOK, IdleHandler
        <4>4. QED
          BY <1>3, <4>1, <4>2, <4>3
             DEF Handle, Check, Create, Write, Mark, EnqueueFails, At, HandlerPcs
      <3>3. ASSUME NEW g \in Handlers, NEW id \in Ids, Deliver(g, id)
            PROVE  handler'[h] = handler[h]
        BY <3>3, <1>3 DEF Deliver, At, TypeOK
      <3>4. ~Halt
        BY <1>3 DEF Halt, At, IdleHandler
      <3>5. QED
        BY <3>1, <3>2, <3>3, <3>4
           DEF Next, vars, web, WorkerStep, Wake, Tick, Break, List, Spawn, Drained, Acquire,
               Process, Read, PostOk, PostFails, Retry, LeavePending, Remove, Bury, Leave,
               Crash, Boot, Sigterm, Cancel, ExitDrained, ExitTimedOut
    <2>4. QED
      BY <2>1, <2>2, <2>3
  <1>4. QED
    BY <1>1, <1>2, <1>3, StoredStays DEF Backed
-----------------------------------------------------------------------------
(***************************************************************************)
(* The invariant and what it gives.                                        *)
(***************************************************************************)
LEMMA InitInvariant == Init => IInv
  <1> SUFFICES ASSUME Init PROVE IInv
    OBVIOUS
  <1>1. TypeOK
    BY InitTypes
  <1>2. OneTaskPerFile
    BY DEF Init, OneTaskPerFile, Live, IdleTask
  <1>3. TaskOwnsFile
    BY DEF Init, TaskOwnsFile, TaskAt, IdleTask
  <1>4. OpenFiles
    BY DEF Init, OpenFiles, Dirs
  <1>5. Backed /\ DownIsIdle
    BY DEF Init, Backed, NoLoss, DownIsIdle, At, IdleHandler
  <1>6. QED
    BY <1>1, <1>2, <1>3, <1>4, <1>5 DEF IInv

LEMMA NextInvariant == IInv /\ [Next]_vars => IInv'
  BY NextTypes, NextBacked, NextTracks, NextOwns, NextOpen, NextDown DEF IInv

\* The inductive invariant holds of every reachable state.
THEOREM Invariance == Spec => []IInv
  BY InitInvariant, NextInvariant, PTL DEF Spec

\* webhook_gowa's promise: no message GOWA was answered 200 for is lost, however
\* many crashes, shutdowns, I/O errors and concurrent redeliveries there are.
THEOREM NothingAckedIsLost == Spec => []NoLoss
  <1>1. IInv => NoLoss
    BY DEF IInv, Backed
  <1>2. QED
    BY <1>1, Invariance, PTL

\* The in_flight guard: no file is ever worked on by two tasks, none is forgotten.
THEOREM TasksAreExclusive == Spec => []OneTaskPerFile
  <1>1. IInv => OneTaskPerFile
    BY DEF IInv
  <1>2. QED
    BY <1>1, Invariance, PTL

LEMMA InitRefines == Init => Promise!Init
  BY DEF Init, Promise!Init, Held, Delivered, Buried, Dirs

LEMMA NextRefines == IInv /\ [Next]_vars => [Promise!Next]_(Promise!vars)
  <1> SUFFICES ASSUME IInv, [Next]_vars PROVE [Promise!Next]_(Promise!vars)
    OBVIOUS
  <1> USE DEF IInv
  <1>1. Effect
    BY NextEffect
  <1>2. CASE UNCHANGED acked /\ UNCHANGED <<Held, Buried, Delivered>>
    BY <1>2 DEF Promise!vars
  <1>3. CASE acked' # acked
    <2>1. PICK h \in Handlers : Check(h) \/ Mark(h)
      BY <1>3
         DEF Next, vars, gowa, Handle, Create, Write, Rename, Reply500, EnqueueFails, Deliver,
             WorkerStep, Wake, Tick, Break, List, Spawn, Drained, Acquire, Process, Read,
             PostOk, PostFails, Retry, LeavePending, Remove, Bury, Leave, Halt,
             Crash, Boot, Sigterm, Cancel, ExitDrained, ExitTimedOut
    <2>2. /\ handler[h].id \in Stored
          /\ acked' = acked \cup {handler[h].id}
          /\ handler[h].id \in Ids
      BY <2>1, <1>3, BusyHasId DEF Check, Mark, Reply200, Seen, Backed, At
    <2>3. UNCHANGED <<Held, Buried, Delivered>>
      BY <2>1 DEF Check, Mark, files, work, Held, Buried, Delivered
    <2>4. Promise!Promise(handler[h].id)
      BY <2>2, <2>3 DEF Promise!Promise, Stored
    <2>5. QED
      BY <2>2, <2>4 DEF Promise!Next
  <1>4. ASSUME NEW h \in Handlers,
               Rename(h), handler[h].id \in Ids, UNCHANGED acked,
               Held' = Held \cup {handler[h].id}, UNCHANGED <<Buried, Delivered>>
        PROVE  Promise!Next
    BY <1>4 DEF Promise!Next, Promise!Store
  <1>5. ASSUME NEW t \in Tasks,
               PostOk(t), task[t].id \in Held,
               Delivered' = Delivered \cup {task[t].id}, UNCHANGED <<Held, Buried>>
        PROVE  Promise!Next
    <2>1. UNCHANGED acked /\ task[t].id \in Ids
      BY <1>5 DEF PostOk, gowa, Held
    <2>2. Promise!Handover(task[t].id)
      BY <1>5, <2>1 DEF Promise!Handover
    <2>3. QED
      BY <2>1, <2>2 DEF Promise!Next
  <1>6. ASSUME NEW t \in Tasks,
               Remove(t), task[t].id \in Held \cap Delivered,
               Held' = Held \ {task[t].id}, UNCHANGED <<Buried, Delivered>>
        PROVE  Promise!Next
    <2>1. UNCHANGED acked /\ task[t].id \in Ids
      BY <1>6 DEF Remove, gowa, Held
    <2>2. Promise!Release(task[t].id)
      BY <1>6, <2>1 DEF Promise!Release
    <2>3. QED
      BY <2>1, <2>2 DEF Promise!Next
  <1>7. ASSUME NEW t \in Tasks,
               Bury(t), task[t].id \in Held,
               Held' = Held \ {task[t].id}, Buried' = Buried \cup {task[t].id},
               UNCHANGED Delivered
        PROVE  Promise!Next
    <2>1. UNCHANGED acked /\ task[t].id \in Ids
      BY <1>7 DEF Bury, gowa, Held
    <2>2. Promise!Bury(task[t].id)
      BY <1>7, <2>1 DEF Promise!Bury
    <2>3. QED
      BY <2>1, <2>2 DEF Promise!Next
  <1>8. QED
    BY <1>1, <1>2, <1>3, <1>4, <1>5, <1>6, <1>7 DEF Effect

\* The handlers, the disk and the worker together keep the promise of Delivery.
THEOREM QueueImplementsDelivery == Spec => Refinement
  BY InitRefines, NextRefines, Invariance, PTL DEF Spec, Refinement, Promise!Spec
-----------------------------------------------------------------------------
(***************************************************************************)
(* Deliveries of an id that do not overlap: what a handler prepares stays  *)
(* its own, so no torn file is listed, nothing is forwarded twice without  *)
(* a fault, and nothing is given up on that the agent has not refused.     *)
(* With Overlap none of the three holds (fq_torn, fq_twice).               *)
(***************************************************************************)
\* How a handler gets to where it is busy.
LEMMA HandlerSteps ==
  ASSUME TypeOK, [Next]_vars, NEW h \in Handlers, ~(At(h, "idle"))'
  PROVE  \/ handler'[h] = handler[h]
         \/ \E id \in Ids : Deliver(h, id) /\ handler'[h].id = id /\ handler'[h].pc = "check"
         \/ /\ handler'[h].id = handler[h].id /\ handler[h].id \in Ids /\ ~At(h, "idle")
            /\ \/ Check(h) /\ ~Seen(handler[h].id) /\ handler'[h].pc = "create"
               \/ Create(h) /\ handler'[h].pc = "write"
               \/ Write(h) /\ handler'[h].pc = "rename"
               \/ /\ Rename(h) /\ disk["tmp"][handler[h].id] # "none"
                  /\ RenameFile(handler[h].id, "tmp", "pending") /\ handler'[h].pc = "mark"
  <1>1. ASSUME NEW g \in Handlers, Handle(g) \/ EnqueueFails(g), g # h
        PROVE  handler'[h] = handler[h]
    BY <1>1 DEF Handle, Check, Create, Write, Rename, Mark, EnqueueFails, Goto,
                Reply200, Reply500, TypeOK
  <1>2. ASSUME Handle(h) \/ EnqueueFails(h)
        PROVE  /\ handler'[h].id = handler[h].id /\ handler[h].id \in Ids /\ ~At(h, "idle")
               /\ \/ Check(h) /\ ~Seen(handler[h].id) /\ handler'[h].pc = "create"
                  \/ Create(h) /\ handler'[h].pc = "write"
                  \/ Write(h) /\ handler'[h].pc = "rename"
                  \/ /\ Rename(h) /\ disk["tmp"][handler[h].id] # "none"
                     /\ RenameFile(handler[h].id, "tmp", "pending") /\ handler'[h].pc = "mark"
    <2>1. ~At(h, "idle") /\ handler[h].id \in Ids
      <3>1. ~At(h, "idle")
        BY <1>2 DEF Handle, Check, Create, Write, Rename, Mark, EnqueueFails, At
      <3>2. QED
        BY <3>1, BusyHasId
    <2>2. ~Reply200(h) /\ ~Reply500(h)
      BY DEF Reply200, Reply500, At, TypeOK, IdleHandler
    <2>3. \A pc \in HandlerPcs : Goto(h, pc) => handler'[h].pc = pc /\ handler'[h].id = handler[h].id
      <3>1. handler[h] \in [pc : HandlerPcs, id : Ids]
        BY <2>1 DEF At, TypeOK, IdleHandler
      <3>2. QED
        BY <3>1 DEF Goto, TypeOK
    <2>4. "create" \in HandlerPcs /\ "write" \in HandlerPcs /\ "rename" \in HandlerPcs /\ "mark" \in HandlerPcs
      BY DEF HandlerPcs
    <2>5. QED
      BY <1>2, <2>1, <2>2, <2>3, <2>4
         DEF Handle, Check, Create, Write, Rename, Mark, EnqueueFails, Staging
  <1>3. ASSUME NEW g \in Handlers, NEW id \in Ids, Deliver(g, id)
        PROVE  \/ handler'[h] = handler[h]
               \/ Deliver(h, id) /\ handler'[h].id = id /\ handler'[h].pc = "check"
    BY <1>3 DEF Deliver, TypeOK
  <1>4. ~Halt
    BY DEF Halt, At, IdleHandler
  <1>5. CASE UNCHANGED handler
    BY <1>5
  <1>6. QED
    BY <1>1, <1>2, <1>3, <1>4, <1>5
       DEF Next, vars, web, WorkerStep, Wake, Tick, Break, List, Spawn, Drained, Acquire,
           Process, Read, PostOk, PostFails, Retry, LeavePending, Remove, Bury, Leave,
           Crash, Boot, Sigterm, Cancel, ExitDrained, ExitTimedOut

\* No two deliveries of an id are served at the same time.
Alone ==
  \A g, h \in Handlers : ~At(g, "idle") /\ ~At(h, "idle") /\ handler[g].id = handler[h].id => g = h

LEMMA NextAlone ==
  ASSUME ~Overlap, TypeOK, Alone, [Next]_vars
  PROVE  Alone'
  <1> SUFFICES ASSUME NEW g \in Handlers, NEW h \in Handlers, ~(At(g, "idle"))', ~(At(h, "idle"))',
                      handler'[g].id = handler'[h].id
               PROVE  g = h
    BY DEF Alone
  <1>1. \A f \in {g, h} : \/ ~At(f, "idle") /\ handler'[f].id = handler[f].id
                          \/ \E id \in Ids : Deliver(f, id) /\ handler'[f].id = id
    BY HandlerSteps DEF At
  <1>2. ASSUME NEW e \in Handlers, NEW f \in Handlers, NEW id \in Ids, Deliver(e, id), e # f
        PROVE  handler'[f] = handler[f] /\ handler[f].id # id
    BY <1>2 DEF Deliver, TypeOK
  <1>3. QED
    BY <1>1, <1>2 DEF Alone

\* Which steps touch the disk.
LEMMA DiskSteps ==
  ASSUME [Next]_vars
  PROVE  \/ UNCHANGED disk
         \/ \E h \in Handlers : Create(h) \/ Write(h) \/ Rename(h)
         \/ \E t \in Tasks : Remove(t) \/ Bury(t)
         \/ Boot
  BY DEF Next, vars, files, Handle, Check, Mark, EnqueueFails, Deliver,
         WorkerStep, Wake, Tick, Break, List, Spawn, Drained, Acquire, Process, Read, PostOk,
         PostFails, Retry, LeavePending, Leave, Halt, Crash, Sigterm, Cancel, ExitDrained, ExitTimedOut

\* What a handler writes is in the tmp file that it will rename.
Staged ==
  /\ NeverHalfWritten
  /\ \A h \in Handlers : At(h, "write") => fd[h] = "tmp"
  /\ \A h \in Handlers : At(h, "rename") => disk["tmp"][handler[h].id] = "whole"

\* What a step does to the files: the tmp file of an id is its handler's, and pending/ gets only
\* what was staged.
LEMMA StagedDisk ==
  ASSUME TypeOK, Staged, [Next]_vars, NEW id \in Ids
  PROVE  /\ disk'["pending"][id] # "torn"
         /\ \/ disk'["tmp"][id] = disk["tmp"][id]
            \/ \E h \in Handlers : (Create(h) \/ Write(h) \/ Rename(h)) /\ handler[h].id = id
            \/ Boot
  <1>1. disk["pending"][id] # "torn"
    BY DEF Staged, NeverHalfWritten
  <1>2. CASE UNCHANGED disk
    BY <1>1, <1>2
  <1>3. ASSUME NEW h \in Handlers, Create(h)
        PROVE  /\ disk'["pending"][id] = disk["pending"][id]
               /\ handler[h].id # id => disk'["tmp"][id] = disk["tmp"][id]
    BY <1>3, CreateNames DEF Dirs
  <1>4. ASSUME NEW h \in Handlers, Write(h)
        PROVE  /\ disk'["pending"][id] = disk["pending"][id]
               /\ handler[h].id # id => disk'["tmp"][id] = disk["tmp"][id]
    BY <1>4 DEF Write, Staged, TypeOK, Dirs
  <1>5. ASSUME NEW h \in Handlers, Rename(h)
        PROVE  /\ disk'["pending"][id] # "torn"
               /\ handler[h].id # id => disk'["tmp"][id] = disk["tmp"][id]
    <2>1. handler[h].id \in Ids /\ disk["tmp"][handler[h].id] = "whole"
      BY <1>5, BusyHasId DEF Rename, At, Staged
    <2>2. RenameFile(handler[h].id, "tmp", "pending")
      BY <1>5, <2>1 DEF Rename, Staging
    <2>3. QED
      BY <1>1, <2>1, <2>2, RenameNames DEF Dirs
  <1>6. ASSUME NEW t \in Tasks, Remove(t) \/ Bury(t)
        PROVE  disk'["pending"][id] # "torn" /\ disk'["tmp"][id] = disk["tmp"][id]
    <2>1. task[t].id \in Ids
      BY <1>6, LiveHasId DEF Remove, Bury, TaskAt, Live
    <2>2. CASE UNCHANGED disk
      BY <1>1, <2>2
    <2>3. CASE RemoveFile(task[t].id)
      BY <1>1, <2>1, <2>3, RemoveNames DEF Dirs
    <2>4. CASE disk["pending"][task[t].id] # "none" /\ RenameFile(task[t].id, "pending", "dead")
      BY <1>1, <2>1, <2>4, RenameNames DEF Dirs
    <2>5. QED
      BY <1>6, <2>2, <2>3, <2>4 DEF Remove, Bury, files
  <1>7. CASE Boot
    <2>1. disk'["pending"][id] = disk["pending"][id]
      BY <1>7 DEF Boot, Reap, TypeOK, Dirs
    <2>2. QED
      BY <1>1, <1>7, <2>1
  <1>8. QED
    BY <1>1, <1>2, <1>3, <1>4, <1>5, <1>6, <1>7, DiskSteps

\* What a handler has open stays where it is, unless its own file is renamed or removed.
LEMMA OpenStays ==
  ASSUME TypeOK, [Next]_vars, NEW h \in Handlers, fd[h] = "tmp", handler'[h] = handler[h], At(h, "write"),
         \A g \in Handlers : g # h /\ ~At(g, "idle") => handler[g].id # handler[h].id
  PROVE  fd'[h] = "tmp"
  <1>1. ASSUME NEW g \in Handlers, Create(g) \/ Write(g) \/ Rename(g) \/ EnqueueFails(g)
        PROVE  fd'[h] = fd[h]
    <2>1. g # h
      <3>1. CASE g = h
        <4>1. handler[h] \in [pc : HandlerPcs, id : Ids]
          BY DEF At, TypeOK, IdleHandler
        <4>2. handler'[h].pc # "write"
          BY <1>1, <3>1, <4>1
             DEF Create, Write, Rename, EnqueueFails, Goto, Reply500, TypeOK, IdleHandler, At
        <4>3. QED
          BY <4>2 DEF At
      <3>2. QED
        BY <3>1
    <2>2. handler[g].id # handler[h].id
      BY <1>1, <2>1 DEF Create, Write, Rename, EnqueueFails, At
    <2>3. QED
      BY <1>1, <2>1, <2>2 DEF Create, Write, Rename, EnqueueFails, RenameFile, TypeOK, files
  <1>2. ASSUME NEW t \in Tasks, Remove(t) \/ Bury(t)
        PROVE  fd'[h] = fd[h]
    BY <1>2 DEF Remove, Bury, RemoveFile, RenameFile, files
  <1>3. ~Halt
    BY DEF Halt, At, IdleHandler
  <1>4. QED
    BY <1>1, <1>2, <1>3
       DEF Next, vars, files, Handle, Check, Mark, Deliver,
           WorkerStep, Wake, Tick, Break, List, Spawn, Drained, Acquire, Process, Read, PostOk,
           PostFails, Retry, LeavePending, Leave, Crash, Boot, Sigterm, Cancel, ExitDrained, ExitTimedOut

LEMMA NextStaged ==
  ASSUME TypeOK, Alone, Staged, DownIsIdle, [Next]_vars
  PROVE  Staged'
  <1>1. NeverHalfWritten'
    BY StagedDisk DEF NeverHalfWritten
  <1>2. ASSUME NEW h \in Handlers, (At(h, "write"))'
        PROVE  fd'[h] = "tmp"
    <2>1. CASE handler'[h] = handler[h]
      <3>1. At(h, "write") /\ fd[h] = "tmp"
        BY <1>2, <2>1 DEF At, Staged
      <3>2. \A g \in Handlers : g # h /\ ~At(g, "idle") => handler[g].id # handler[h].id
        BY <3>1 DEF Alone, At
      <3>3. QED
        BY <2>1, <3>1, <3>2, OpenStays
    <2>2. CASE Create(h)
      BY <2>2 DEF Create, Staging, TypeOK
    <2>3. QED
      BY <1>2, <2>1, <2>2, HandlerSteps DEF At
  <1>3. ASSUME NEW h \in Handlers, (At(h, "rename"))'
        PROVE  disk'["tmp"][handler'[h].id] = "whole"
    <2>1. CASE handler'[h] = handler[h]
      <3>1. At(h, "rename") /\ disk["tmp"][handler[h].id] = "whole" /\ handler[h].id \in Ids
        BY <1>3, <2>1, BusyHasId DEF At, Staged
      <3>2. ~Boot
        BY <3>1 DEF Boot, DownIsIdle, At
      <3>3. ASSUME NEW g \in Handlers, Create(g) \/ Write(g) \/ Rename(g)
            PROVE  handler[g].id # handler[h].id
        <4>1. ~At(g, "idle")
          BY <3>3 DEF Create, Write, Rename, At
        <4>2. g # h
          <5>1. CASE g = h
            <6>1. Rename(h)
              BY <3>1, <3>3, <5>1 DEF Create, Write, At
            <6>2. handler'[h].pc # "rename"
              BY <3>1, <6>1 DEF Rename, Goto, Reply500, TypeOK, IdleHandler, At
            <6>3. QED
              BY <1>3, <6>2 DEF At
          <5>2. QED
            BY <5>1
        <4>3. QED
          BY <3>1, <4>1, <4>2 DEF Alone, At
      <3>4. QED
        BY <2>1, <3>1, <3>2, <3>3, StagedDisk
    <2>2. CASE Write(h) /\ handler'[h].id = handler[h].id /\ handler[h].id \in Ids
      <3>1. fd[h] = "tmp"
        BY <2>2 DEF Write, Staged
      <3>2. QED
        BY <2>2, <3>1 DEF Write, TypeOK, Dirs
    <2>3. QED
      BY <1>3, <2>1, <2>2, HandlerSteps DEF At
  <1>4. QED
    BY <1>1, <1>2, <1>3 DEF Staged

\* How often the agent has refused what a task forwards.
Counted ==
  \A t \in Tasks :
    /\ task[t].pc \in {"queued", "read", "post", "backoff"}
         => task[t].refused = task[t].attempt /\ task[t].attempt <= MaxRetries
    /\ TaskAt(t, "bury") => task[t].refused = MaxRetries + 1

LEMMA NextCounted ==
  ASSUME TypeOK, NeverHalfWritten, Counted, [Next]_vars
  PROVE  Counted'
  <1> SUFFICES ASSUME NEW t \in Tasks
               PROVE  /\ task'[t].pc \in {"queued", "read", "post", "backoff"}
                           => task'[t].refused = task'[t].attempt /\ task'[t].attempt <= MaxRetries
                      /\ task'[t].pc = "bury" => task'[t].refused = MaxRetries + 1
    BY DEF Counted, TaskAt
  <1>1. MaxRetries \in Nat
    BY FQAssumption
  <1>2. CASE task'[t] = task[t]
    BY <1>2 DEF Counted, TaskAt
  <1>3. ASSUME NEW u \in Tasks, u # t, Acquire(u) \/ Process(u)
        PROVE  task'[t] = task[t]
    BY <1>3 DEF Acquire, Process, Read, PostOk, PostFails, Retry, LeavePending, Remove,
                Bury, Leave, TaskGoto, TypeOK
  <1>4. CASE Acquire(t) \/ Process(t)
    <2>1. Live(t)
      BY <1>4 DEF Acquire, Process, Read, PostOk, PostFails, Retry, LeavePending, Remove,
                  Bury, Leave, TaskAt, Live
    <2>2. task[t] \in [pc : TaskPcs, id : Ids, attempt : Nat, refused : Nat]
      BY <2>1, TaskMoves DEF TaskPcs
    <2>3. \A pc \in TaskPcs : TaskGoto(t, pc) =>
            task'[t].pc = pc /\ task'[t].attempt = task[t].attempt /\ task'[t].refused = task[t].refused
      BY <2>2 DEF TaskGoto, TypeOK
    <2>4. CASE PostFails(t)
      <3>1. CASE Exhausted(t)
        <4>1. task'[t].pc = "bury" /\ task'[t].refused = task[t].refused + 1
          BY <2>2, <2>4, <3>1 DEF PostFails, TypeOK
        <4>2. task[t].refused = MaxRetries
          BY <1>1, <2>2, <2>4, <3>1 DEF PostFails, TaskAt, Counted, Exhausted
        <4>3. QED
          BY <4>1, <4>2
      <3>2. CASE ~Exhausted(t)
        <4>1. /\ task'[t].pc = "backoff" /\ task'[t].refused = task[t].refused + 1
              /\ task'[t].attempt = task[t].attempt + 1
          BY <2>2, <2>4, <3>2 DEF PostFails, TypeOK
        <4>2. task[t].refused = task[t].attempt /\ task[t].attempt + 1 <= MaxRetries
          BY <1>1, <2>2, <2>4, <3>2 DEF PostFails, TaskAt, Counted, Exhausted
        <4>3. QED
          BY <4>1, <4>2
      <3>3. QED
        BY <3>1, <3>2
    <2>5. CASE Read(t)
      <3>1. disk["pending"][task[t].id] # "torn"
        BY <2>2 DEF NeverHalfWritten
      <3>2. TaskGoto(t, "leave") \/ TaskGoto(t, "post")
        BY <2>5, <3>1 DEF Read
      <3>3. QED
        BY <2>3, <2>5, <3>2 DEF Read, TaskAt, Counted, TaskPcs
    <2>6. CASE Acquire(t) \/ Retry(t)
      BY <2>3, <2>6 DEF Acquire, Retry, TaskAt, Counted, TaskPcs
    <2>7. CASE PostOk(t) \/ LeavePending(t) \/ Remove(t) \/ Bury(t)
      BY <2>3, <2>7 DEF PostOk, LeavePending, Remove, Bury, TaskPcs
    <2>8. CASE Leave(t)
      BY <2>8 DEF Leave, TypeOK, IdleTask
    <2>9. QED
      BY <1>4, <2>4, <2>5, <2>6, <2>7, <2>8 DEF Process
  <1>5. ASSUME NEW id \in Ids, Spawn(id)
        PROVE  task'[t] \in {task[t], [IdleTask EXCEPT !.pc = "queued", !.id = id]}
    BY <1>5 DEF Spawn, TypeOK
  <1>6. CASE \E id \in Ids : Spawn(id)
    <2>1. PICK id \in Ids : Spawn(id)
      BY <1>6
    <2> DEFINE new == [IdleTask EXCEPT !.pc = "queued", !.id = id]
    <2>2. new.pc = "queued" /\ new.refused = 0 /\ new.attempt = 0
      BY DEF IdleTask
    <2>3. task'[t] = task[t] \/ task'[t] = new
      BY <1>5, <2>1
    <2> HIDE DEF new
    <2>4. QED
      BY <1>1, <1>2, <2>2, <2>3
  <1>7. CASE Halt
    BY <1>7 DEF Halt, IdleTask
  <1>8. CASE UNCHANGED task
    BY <1>2, <1>8
  <1>9. QED
    BY <1>2, <1>3, <1>4, <1>6, <1>7, <1>8
       DEF Next, vars, work, Handle, Check, Create, Write, Rename, Mark, EnqueueFails,
           Deliver, WorkerStep, Wake, Tick, Break, List, Drained,
           Crash, Boot, Sigterm, Cancel, ExitDrained, ExitTimedOut

\* Without a fault the process does not end.
LEMMA NextUp ==
  ASSUME TypeOK, [Next]_vars, faults' = 0, proc \in {"down", "up"}
  PROVE  /\ faults = 0 /\ ~Fault /\ proc' \in {"down", "up"}
         /\ ~(Crash \/ ExitDrained \/ ExitTimedOut)
  <1>1. faults \in Nat
    BY DEF TypeOK
  <1>2. ~Fault
    BY <1>1 DEF Fault
  <1>3. ~(Crash \/ ExitDrained \/ ExitTimedOut)
    BY <1>2 DEF Crash, ExitDrained, ExitTimedOut
  <1>4. faults = 0 /\ proc' \in {"down", "up"}
    BY <1>2, <1>3
       DEF Next, vars, Handle, Check, Create, Write, Rename, Mark, EnqueueFails, Deliver,
           WorkerStep, Wake, Tick, Break, List, Spawn, Drained, Acquire, Process, Read, PostOk,
           PostFails, Retry, LeavePending, Remove, Bury, Leave, Boot, Sigterm, Cancel
  <1>5. QED
    BY <1>2, <1>3, <1>4

LEMMA NextDedup ==
  ASSUME [Next]_vars, ~(Crash \/ ExitDrained \/ ExitTimedOut)
  PROVE  UNCHANGED dedup \/ \E h \in Handlers : Mark(h) /\ dedup' = dedup \cup {handler[h].id}
  BY DEF Next, vars, web, Handle, Check, Create, Write, Rename, EnqueueFails, Deliver, Mark,
         WorkerStep, Wake, Tick, Break, List, Spawn, Drained, Acquire, Process, Read, PostOk,
         PostFails, Retry, LeavePending, Remove, Bury, Leave, Boot, Sigterm, Cancel

\* A handler about to mark marks, and a task about to remove removes.
LEMMA MarkStays ==
  ASSUME TypeOK, [Next]_vars, ~(Crash \/ ExitDrained \/ ExitTimedOut), NEW h \in Handlers, At(h, "mark")
  PROVE  handler'[h] = handler[h] \/ Mark(h)
  <1>1. ASSUME NEW g \in Handlers, Handle(g) \/ EnqueueFails(g)
        PROVE  handler'[h] = handler[h] \/ Mark(h)
    <2>1. CASE g = h
      BY <1>1, <2>1 DEF Handle, Check, Create, Write, Rename, EnqueueFails, At
    <2>2. CASE g # h
      BY <1>1, <2>2 DEF Handle, Check, Create, Write, Rename, Mark, EnqueueFails, Goto,
                        Reply200, Reply500, TypeOK
    <2>3. QED
      BY <2>1, <2>2
  <1>2. ASSUME NEW g \in Handlers, NEW id \in Ids, Deliver(g, id)
        PROVE  handler'[h] = handler[h]
    BY <1>2 DEF Deliver, TypeOK, At
  <1>3. CASE UNCHANGED handler
    BY <1>3
  <1>4. QED
    BY <1>1, <1>2, <1>3
       DEF Next, vars, web, WorkerStep, Wake, Tick, Break, List, Spawn, Drained, Acquire,
           Process, Read, PostOk, PostFails, Retry, LeavePending, Remove, Bury, Leave,
           Boot, Sigterm, Cancel

LEMMA RemoveStays ==
  ASSUME TypeOK, [Next]_vars, ~(Crash \/ ExitDrained \/ ExitTimedOut), NEW t \in Tasks, TaskAt(t, "remove")
  PROVE  task'[t] = task[t] \/ Remove(t)
  <1>1. ASSUME NEW u \in Tasks, Acquire(u) \/ Process(u)
        PROVE  task'[t] = task[t] \/ Remove(t)
    <2>1. CASE u = t
      BY <1>1, <2>1 DEF Acquire, Process, Read, PostOk, PostFails, Retry, LeavePending, Bury, Leave, TaskAt
    <2>2. CASE u # t
      BY <1>1, <2>2 DEF Acquire, Process, Read, PostOk, PostFails, Retry, LeavePending, Remove,
                        Bury, Leave, TaskGoto, TypeOK
    <2>3. QED
      BY <2>1, <2>2
  <1>2. ASSUME NEW id \in Ids, Spawn(id)
        PROVE  task'[t] = task[t]
    BY <1>2 DEF Spawn, TypeOK, TaskAt, Live
  <1>3. CASE UNCHANGED task
    BY <1>3
  <1>4. QED
    BY <1>1, <1>2, <1>3
       DEF Next, vars, work, Handle, Check, Create, Write, Rename, Mark, EnqueueFails,
           Deliver, WorkerStep, Wake, Tick, Break, List, Drained, Boot, Sigterm, Cancel

\* Until a fault, what is in the queue or with the agent is known to the dedup set or about to be,
\* and what is with the agent leaves the queue.
Known == dedup \cup {handler[h].id : h \in {g \in Handlers : At(g, "mark")}}
Once ==
  /\ proc \in {"down", "up"}
  /\ \A h \in Handlers : handler[h].pc \in {"create", "write", "rename"} => handler[h].id \notin dedup
  /\ Held \cup Delivered \subseteq Known
  /\ \A id \in Ids : forwarded[id] <= 1
  /\ \A id \in Held \cap Delivered : \E t \in Tasks : TaskAt(t, "remove") /\ task[t].id = id

OnceInv == TypeOK /\ OneTaskPerFile /\ TaskOwnsFile /\ OpenFiles /\ DownIsIdle /\ Alone /\ Staged

LEMMA StillUnmarked ==
  ASSUME OnceInv, Once, [Next]_vars, faults' = 0,
         NEW h \in Handlers, handler'[h].pc \in {"create", "write", "rename"}
  PROVE  handler'[h].id \notin dedup'
  <1>1. ~(Crash \/ ExitDrained \/ ExitTimedOut)
    BY NextUp DEF OnceInv, Once
  <1>2. /\ handler'[h].id = handler[h].id /\ handler[h].id \notin dedup
        /\ handler[h].pc \notin {"idle", "mark"}
    BY HandlerSteps DEF OnceInv, Once, At, Seen, Check, Create, Write, Rename
  <1>3. \A g \in Handlers : Mark(g) => handler[g].id # handler[h].id
    BY <1>2 DEF OnceInv, Alone, At, Mark
  <1>4. QED
    BY <1>1, <1>2, <1>3, NextDedup

LEMMA StillKnown ==
  ASSUME OnceInv, Once, [Next]_vars, faults' = 0
  PROVE  Known \subseteq Known'
  <1>1. ~(Crash \/ ExitDrained \/ ExitTimedOut)
    BY NextUp DEF OnceInv, Once
  <1>2. dedup \subseteq dedup'
    BY <1>1, NextDedup
  <1>3. ASSUME NEW h \in Handlers, At(h, "mark")
        PROVE  handler[h].id \in Known'
    <2>1. CASE handler'[h] = handler[h]
      BY <1>3, <2>1 DEF Known, At
    <2>2. CASE Mark(h)
      BY <2>2 DEF Mark, Known
    <2>3. QED
      BY <1>1, <1>3, <2>1, <2>2, MarkStays DEF OnceInv
  <1>4. QED
    BY <1>2, <1>3 DEF Known

\* What a handler has still to rename is in nobody's hands yet.
LEMMA RenamesNew ==
  ASSUME OnceInv, Once, [Next]_vars, NEW h \in Handlers, Rename(h)
  PROVE  handler[h].id \notin Held \cup Delivered /\ handler[h].id \in Known'
  <1>1. At(h, "rename") /\ handler[h] \in [pc : HandlerPcs, id : Ids]
    BY DEF OnceInv, TypeOK, Rename, At, IdleHandler
  <1>2. handler[h].id \notin Known
    BY <1>1 DEF OnceInv, Alone, Once, Known, At
  <1>3. Goto(h, "mark")
    BY <1>1 DEF OnceInv, Staged, Rename, Staging
  <1>4. handler'[h].pc = "mark" /\ handler'[h].id = handler[h].id
    BY <1>1, <1>3 DEF OnceInv, TypeOK, Goto
  <1>5. handler[h].id \in Known'
    BY <1>4 DEF Known, At
  <1>6. QED
    BY <1>2, <1>5 DEF Once

LEMMA NextOnce ==
  ASSUME OnceInv, Once, [Next]_vars, faults' = 0
  PROVE  Once'
  <1>1. /\ ~(Crash \/ ExitDrained \/ ExitTimedOut) /\ ~Fault
        /\ proc' \in {"down", "up"}
    BY NextUp DEF OnceInv, Once
  <1>2. Effect
    BY NextEffect DEF OnceInv
  <1>3. Held' \cup Delivered' \subseteq Known'
    BY <1>2, StillKnown, RenamesNew DEF Effect, Once
  <1>4. ASSUME NEW t \in Tasks, PostOk(t)
        PROVE  task[t].id \in Ids /\ forwarded[task[t].id] = 0 /\ TaskAt(t, "remove")' /\ task'[t].id = task[t].id
    <2>1. TaskAt(t, "post") /\ task[t].id \in Held /\ Live(t)
      BY <1>4 DEF PostOk, TaskAt, Live, OnceInv, TaskOwnsFile
    <2>2. task[t].id \in Ids
      BY <2>1 DEF Held
    <2>3. task[t].id \notin Delivered
      <3>1. ASSUME NEW u \in Tasks, TaskAt(u, "remove")
            PROVE  task[u].id # task[t].id
        BY <2>1, <3>1 DEF OnceInv, OneTaskPerFile, Live, TaskAt
      <3>2. QED
        BY <2>1, <3>1 DEF Once
    <2>4. forwarded[task[t].id] = 0
      BY <2>2, <2>3 DEF Delivered, OnceInv, TypeOK
    <2>5. task'[t].pc = "remove" /\ task'[t].id = task[t].id
      <3>1. task[t] \in [pc : TaskPcs, id : Ids, attempt : Nat, refused : Nat]
        BY <2>1, TaskMoves DEF OnceInv, TaskPcs
      <3>2. QED
        BY <1>4, <3>1 DEF PostOk, TaskGoto, OnceInv, TypeOK
    <2>6. QED
      BY <2>2, <2>4, <2>5 DEF TaskAt
  <1>5. \A id \in Ids : forwarded'[id] <= 1
    <2>1. CASE UNCHANGED forwarded
      BY <2>1 DEF Once
    <2>2. ASSUME NEW t \in Tasks, PostOk(t)
          PROVE  \A id \in Ids : forwarded'[id] <= 1
      <3>1. task[t].id \in Ids /\ forwarded[task[t].id] = 0
        BY <1>4, <2>2
      <3>2. forwarded' = [forwarded EXCEPT ![task[t].id] = 1]
        BY <2>2, <3>1 DEF PostOk
      <3>3. QED
        BY <3>1, <3>2 DEF Once, OnceInv, TypeOK
    <2>3. QED
      BY <2>1, <2>2
         DEF Next, vars, work, Handle, Check, Create, Write, Rename, Mark, EnqueueFails, Deliver,
             WorkerStep, Wake, Tick, Break, List, Spawn, Drained, Acquire, Process, Read,
             PostFails, Retry, LeavePending, Remove, Bury, Leave, Halt,
             Crash, Boot, Sigterm, Cancel, ExitDrained, ExitTimedOut
  <1>6. ASSUME NEW id \in Held' \cap Delivered'
        PROVE  \E t \in Tasks : TaskAt(t, "remove")' /\ task'[t].id = id
    <2>1. CASE id \in Held \cap Delivered
      <3>1. PICK t \in Tasks : TaskAt(t, "remove") /\ task[t].id = id
        BY <2>1 DEF Once
      <3>2. ~Remove(t)
        <4>1. Remove(t) => RemoveFile(id)
          BY <1>1, <3>1 DEF Remove
        <4>2. id \in Ids /\ disk'["pending"][id] # "none"
          BY <1>6 DEF Held
        <4>3. QED
          BY <4>1, <4>2, RemoveNames DEF OnceInv, Dirs
      <3>3. task'[t] = task[t]
        BY <1>1, <3>1, <3>2, RemoveStays DEF OnceInv
      <3>4. QED
        BY <3>1, <3>3 DEF TaskAt
    <2>2. CASE id \notin Held
      BY <1>2, <1>6, <2>2, RenamesNew DEF Effect
    <2>3. CASE id \in Held /\ id \notin Delivered
      <3>1. PICK t \in Tasks : PostOk(t) /\ task[t].id = id
        BY <1>2, <1>6, <2>3 DEF Effect
      <3>2. QED
        BY <1>4, <3>1
    <2>4. QED
      BY <2>1, <2>2, <2>3
  <1>7. QED
    BY <1>1, <1>3, <1>5, <1>6, StillUnmarked DEF Once
-----------------------------------------------------------------------------
ApartInv == IInv /\ Alone /\ Staged /\ Counted /\ (faults = 0 => Once)

LEMMA InitApart == Init => ApartInv
  <1> SUFFICES ASSUME Init PROVE ApartInv
    OBVIOUS
  <1>1. Alone /\ Staged
    BY DEF Init, Alone, Staged, NeverHalfWritten, Dirs, At, IdleHandler
  <1>2. Counted
    BY FQAssumption DEF Init, Counted, TaskAt, IdleTask
  <1>3. Once
    BY DEF Init, Once, Held, Delivered, Dirs, IdleHandler
  <1>4. QED
    BY <1>1, <1>2, <1>3, InitInvariant DEF ApartInv

LEMMA NextApart == ~Overlap /\ ApartInv /\ [Next]_vars => ApartInv'
  <1> SUFFICES ASSUME ~Overlap, ApartInv, [Next]_vars PROVE ApartInv'
    OBVIOUS
  <1>1. IInv' /\ Alone' /\ Staged' /\ Counted'
    BY NextInvariant, NextAlone, NextStaged, NextCounted DEF ApartInv, IInv, Staged
  <1>2. ASSUME faults' = 0 PROVE Once'
    <2>1. faults = 0
      <3>1. faults \in Nat
        BY DEF ApartInv, IInv, TypeOK
      <3>2. faults' \in {faults, faults + 1}
        BY DEF Fault, Next, vars, Handle, Check, Create, Write, Rename, Mark, EnqueueFails, Deliver,
               WorkerStep, Wake, Tick, Break, List, Spawn, Drained, Acquire, Process, Read, PostOk,
               PostFails, Retry, LeavePending, Remove, Bury, Leave,
               Crash, Boot, Sigterm, Cancel, ExitDrained, ExitTimedOut
      <3>3. QED
        BY <1>2, <3>1, <3>2
    <2>2. QED
      BY <1>2, <2>1, NextOnce DEF ApartInv, OnceInv, IInv
  <1>3. QED
    BY <1>1, <1>2 DEF ApartInv

LEMMA ApartInvariant ==
  ASSUME ~Overlap PROVE Spec => []ApartInv
  <1>1. ApartInv /\ [Next]_vars => ApartInv'
    BY NextApart
  <1>2. QED
    BY <1>1, InitApart, PTL DEF Spec

\* The worker only ever lists whole messages, whatever crashes, fails or is shut down, as long as no
\* handler outlasts GOWA's timeout (src/forward.rs:72-110).
THEOREM NothingIsHalfWritten ==
  ASSUME ~Overlap PROVE Spec => []NeverHalfWritten
  <1>1. ApartInv => NeverHalfWritten
    BY DEF ApartInv, Staged
  <1>2. QED
    BY <1>1, ApartInvariant, PTL

\* And the agent then accepts a message once, until the first fault (src/server.rs:240-290).
THEOREM NothingIsForwardedTwice ==
  ASSUME ~Overlap PROVE Spec => []OnceUnlessFaulty
  <1>1. ApartInv => OnceUnlessFaulty
    BY DEF ApartInv, Once, OnceUnlessFaulty
  <1>2. QED
    BY <1>1, ApartInvariant, PTL

\* And only what the agent has refused MaxRetries + 1 times goes to dead/, whatever fails
\* (src/forward.rs:310-375).
THEOREM NothingIsGivenUpOnEarly ==
  ASSUME ~Overlap PROVE Spec => BuriedOnlyWhenRefused
  <1>1. ASSUME ApartInv, [Next]_vars, NEW id \in Ids, disk'["dead"][id] # "none", disk["dead"][id] = "none"
        PROVE  \E t \in Tasks : task[t].id = id /\ task[t].refused = MaxRetries + 1
    <2>1. Effect
      BY <1>1, NextEffect DEF ApartInv, IInv
    <2>2. id \in Buried' /\ id \notin Buried
      BY <1>1 DEF Buried
    <2>3. PICK t \in Tasks : Bury(t) /\ task[t].id = id
      BY <2>1, <2>2 DEF Effect
    <2>4. QED
      BY <1>1, <2>3 DEF ApartInv, Counted, Bury
  <1>2. ApartInv /\ [Next]_vars =>
          [\A id \in Ids : disk'["dead"][id] # "none" /\ disk["dead"][id] = "none"
             => \E t \in Tasks : task[t].id = id /\ task[t].refused = MaxRetries + 1]_vars
    BY <1>1
  <1>3. QED
    BY <1>2, ApartInvariant, PTL DEF Spec, BuriedOnlyWhenRefused
=============================================================================
