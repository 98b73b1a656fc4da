---------------------------- MODULE ForwardQueue ----------------------------
(***************************************************************************)
(* The inbound half of the shim from GOWA's delivery to the agent:         *)
(* the webhook handler's dedup / enqueue / mark sequence                   *)
(* (src/server.rs, webhook_gowa steps 5-9), the durable queue on disk and  *)
(* its drain worker (src/forward.rs), and the process around them          *)
(* (src/main.rs): shutdown, crash and restart.                             *)
(*                                                                         *)
(* A handler runs on one runtime thread with no await, so handlers         *)
(* interleave with each other and with the worker between system calls:    *)
(* every system call and every use of a shared map is a step.  Only ids    *)
(* that pass the policy are modelled, for those it drops touch no state.   *)
(***************************************************************************)
EXTENDS Naturals, FiniteSets

CONSTANTS
  Ids,              \* message ids; hex(id) names the file, so an id is its file
  NoId,             \* the id of an idle handler or task
  Handlers,         \* webhook requests the runtime serves at the same time
  Tasks,            \* forward tasks alive at the same time (unbounded in the code)
  Concurrency,      \* permits of the worker's semaphore
  MaxRetries,       \* SHIM_FORWARD_MAX_RETRIES
  MaxSends,         \* bound: deliveries GOWA makes of one id (really 1 + 5)
  MaxFaults,        \* bound: crashes, shutdowns and I/O errors, together
  Overlap           \* whether a handler may outlast GOWA's 10s webhook timeout:
                    \* the next delivery of its id then overlaps it

ASSUME FQAssumption ==
  /\ NoId \notin Ids
  /\ Concurrency \in Nat \ {0}
  /\ MaxRetries \in Nat
  /\ MaxSends \in Nat
  /\ MaxFaults \in Nat
  /\ Overlap \in BOOLEAN

VARIABLES
  proc,             \* the process: down, up, closing (SIGTERM seen), cancelled
  faults,           \* faults so far
  sends,            \* [Ids -> Nat], deliveries GOWA has made
  acked,            \* ids GOWA has seen a 200 for
  handler,          \* [Handlers -> [pc, id]]
  fd,               \* where the file a handler has open for writing now is
  dedup,            \* AppState.dedup, the ids marked seen
  disk,             \* [Dirs -> [Ids -> Content]]
  notify,           \* the one permit tokio's Notify can store
  worker,           \* where worker_loop is
  stopping,         \* worker_loop has left its loop
  entries,          \* what is left of the directory listing of a drain
  inflight,         \* Worker.in_flight
  task,             \* [Tasks -> [pc, id, attempt, refused]]
  forwarded         \* [Ids -> Nat], forwards the agent client called a success

web   == <<handler, dedup>>
files == <<disk, fd>>
loop  == <<worker, stopping, entries>>
work  == <<inflight, task, forwarded>>
gowa  == <<sends, acked>>
vars  == <<proc, faults, gowa, web, files, notify, loop, work>>
-----------------------------------------------------------------------------
\* <hex>.json.tmp in pending/, <hex>.json in pending/, <hex>.json in dead/.
Dirs == {"tmp", "pending", "dead"}
\* "torn": shorter than the message, not parseable.
Content == {"none", "torn", "whole"}

IdleHandler == [pc |-> "idle", id |-> NoId]
IdleTask == [pc |-> "idle", id |-> NoId, attempt |-> 0, refused |-> 0]

HandlerPcs == {"check", "create", "write", "rename", "mark"}
TaskPcs == {"queued", "read", "post", "backoff", "remove", "bury", "leave"}
WorkerPcs == {"down", "list", "spawn", "select", "wait"}

Live(t) == task[t].pc # "idle"
\* A task holds its permit from the acquire to its end.
Holding == {t \in Tasks : task[t].pc \notin {"idle", "queued"}}

\* A crash, a shutdown or an I/O error: there are MaxFaults of them.
Fault ==
  /\ faults < MaxFaults
  /\ faults' = faults + 1

TypeOK ==
  /\ proc \in {"down", "up", "closing", "cancelled"}
  /\ faults \in Nat
  /\ sends \in [Ids -> Nat]
  /\ acked \in SUBSET Ids
  /\ handler \in [Handlers -> {IdleHandler} \cup [pc : HandlerPcs, id : Ids]]
  /\ fd \in [Handlers -> Dirs \cup {"gone", "closed"}]
  /\ dedup \in SUBSET Ids
  /\ disk \in [Dirs -> [Ids -> Content]]
  /\ notify \in BOOLEAN
  /\ worker \in WorkerPcs
  /\ stopping \in BOOLEAN
  /\ entries \in SUBSET Ids
  /\ inflight \in SUBSET Ids
  /\ task \in [Tasks -> {IdleTask} \cup
                 [pc : TaskPcs, id : Ids, attempt : Nat, refused : Nat]]
  /\ forwarded \in [Ids -> Nat]

Init ==
  /\ proc = "down"
  /\ faults = 0
  /\ sends = [id \in Ids |-> 0]
  /\ acked = {}
  /\ handler = [h \in Handlers |-> IdleHandler]
  /\ fd = [h \in Handlers |-> "closed"]
  /\ dedup = {}
  /\ disk = [d \in Dirs |-> [id \in Ids |-> "none"]]
  /\ notify = FALSE
  /\ worker = "down"
  /\ stopping = FALSE
  /\ entries = {}
  /\ inflight = {}
  /\ task = [t \in Tasks |-> IdleTask]
  /\ forwarded = [id \in Ids |-> 0]
-----------------------------------------------------------------------------
(***************************************************************************)
(* The file system.  A file a handler has open follows its renames; one    *)
(* that is replaced or removed is gone, and writes to it reach no reader.  *)
(***************************************************************************)
RenameFile(id, from, to) ==
  /\ disk' = [disk EXCEPT ![from][id] = "none", ![to][id] = disk[from][id]]
  /\ fd' = [h \in Handlers |->
              IF handler[h].id # id THEN fd[h]
              ELSE IF fd[h] = to THEN "gone"
              ELSE IF fd[h] = from THEN to
              ELSE fd[h]]

RemoveFile(id) ==
  /\ disk' = [disk EXCEPT !["pending"][id] = "none"]
  /\ fd' = [h \in Handlers |->
              IF handler[h].id = id /\ fd[h] = "pending" THEN "gone" ELSE fd[h]]

\* The *.json files: queue entries, and dead letters.
Held == {id \in Ids : disk["pending"][id] # "none"}
Buried == {id \in Ids : disk["dead"][id] # "none"}
-----------------------------------------------------------------------------
(***************************************************************************)
(* GOWA and the webhook handler.                                           *)
(***************************************************************************)
At(h, pc) == handler[h].pc = pc
Goto(h, pc) == handler' = [handler EXCEPT ![h].pc = pc]

\* GOWA delivers id to a handler.  It delivers an id it has no answer for again,
\* which finds the earlier delivery's handler done, or not yet done (Overlap).
Deliver(h, id) ==
  /\ proc = "up"
  /\ At(h, "idle")
  /\ id \notin acked
  /\ sends[id] < MaxSends
  /\ Overlap \/ \A g \in Handlers : handler[g].id # id
  /\ sends' = [sends EXCEPT ![id] = @ + 1]
  /\ handler' = [handler EXCEPT ![h] = [pc |-> "check", id |-> id]]
  /\ UNCHANGED <<proc, faults, acked, dedup, files, notify, loop, work>>

\* 200: GOWA stops delivering the id, unless the answer comes too late or is lost.
Reply200(h) ==
  /\ handler' = [handler EXCEPT ![h] = IdleHandler]
  /\ \/ acked' = acked \cup {handler[h].id}
     \/ acked' = acked

\* 500: GOWA will try again.
Reply500(h) ==
  /\ handler' = [handler EXCEPT ![h] = IdleHandler]
  /\ acked' = acked

NeverSeen(id) == FALSE                          \* mutant: no dedup check
\* state.dedup.contains: a look, not a mark.
Seen(id) == id \in dedup

CheckAndMark(h) ==                              \* mutant: the mark before the enqueue
  /\ At(h, "check")
  /\ \/ Seen(handler[h].id) /\ Reply200(h)
     \/ ~Seen(handler[h].id) /\ Goto(h, "create") /\ UNCHANGED acked
  /\ dedup' = dedup \cup {handler[h].id}
  /\ UNCHANGED <<proc, faults, sends, files, notify, loop, work>>
Check(h) ==
  /\ At(h, "check")
  /\ \/ Seen(handler[h].id) /\ Reply200(h)
     \/ ~Seen(handler[h].id) /\ Goto(h, "create") /\ UNCHANGED acked
  /\ UNCHANGED <<proc, faults, sends, dedup, files, notify, loop, work>>

\* Where enqueue prepares a file before its name becomes a queue entry.
StagingInPlace == "pending"                     \* mutant: no tmp file
Staging == "tmp"

\* File::create truncates the file of that name, or makes a new empty one.
Create(h) ==
  /\ At(h, "create")
  /\ disk' = [disk EXCEPT ![Staging][handler[h].id] = "torn"]
  /\ fd' = [fd EXCEPT ![h] = Staging]
  /\ Goto(h, "write")
  /\ UNCHANGED <<proc, faults, gowa, dedup, notify, loop, work>>

\* write_all into the open file, wherever it is by now; then it is closed.
Write(h) ==
  /\ At(h, "write")
  /\ disk' = IF fd[h] \in Dirs
             THEN [disk EXCEPT ![fd[h]][handler[h].id] = "whole"]
             ELSE disk
  /\ fd' = [fd EXCEPT ![h] = "closed"]
  /\ Goto(h, "rename")
  /\ UNCHANGED <<proc, faults, gowa, dedup, notify, loop, work>>

\* rename to <hex>.json and notify_one; or the tmp file has been renamed away.
Rename(h) ==
  /\ At(h, "rename")
  /\ \/ /\ disk[Staging][handler[h].id] # "none"
        /\ RenameFile(handler[h].id, Staging, "pending")
        /\ notify' = TRUE
        /\ Goto(h, "mark")
        /\ UNCHANGED acked
     \/ /\ disk[Staging][handler[h].id] = "none"
        /\ Reply500(h)
        /\ UNCHANGED <<files, notify>>
  /\ UNCHANGED <<proc, faults, sends, dedup, loop, work>>

\* An I/O error in create, write_all or rename: what is on disk stays there.
EnqueueFails(h) ==
  /\ \E pc \in {"create", "write", "rename"} : At(h, pc)
  /\ Fault
  /\ Reply500(h)
  /\ fd' = [fd EXCEPT ![h] = "closed"]
  /\ UNCHANGED <<proc, sends, dedup, disk, notify, loop, work>>

\* dedup.insert_new and the 200.
Mark(h) ==
  /\ At(h, "mark")
  /\ dedup' = dedup \cup {handler[h].id}
  /\ Reply200(h)
  /\ UNCHANGED <<proc, faults, sends, files, notify, loop, work>>

Handle(h) == Check(h) \/ Create(h) \/ Write(h) \/ Rename(h) \/ Mark(h)
-----------------------------------------------------------------------------
(***************************************************************************)
(* worker_loop and drain_pending.                                          *)
(***************************************************************************)
\* select! { notified | tick | cancelled }.
Wake ==
  /\ worker = "select"
  /\ notify
  /\ notify' = FALSE
  /\ worker' = "list"
  /\ UNCHANGED <<proc, faults, gowa, web, files, stopping, entries, work>>

NoTick == FALSE                                 \* mutant: wakes on notify only
Tick ==
  /\ worker = "select"
  /\ worker' = "list"
  /\ UNCHANGED <<proc, faults, gowa, web, files, notify, stopping, entries, work>>

Break ==
  /\ worker = "select"
  /\ proc = "cancelled"
  /\ stopping' = TRUE
  /\ worker' = "list"
  /\ UNCHANGED <<proc, faults, gowa, web, files, notify, entries, work>>

\* read_dir, of which only the *.json names are kept.  On an error there is no
\* drain, and an entry that cannot be read is skipped.
List ==
  /\ worker = "list"
  /\ \/ entries' = Held /\ UNCHANGED faults
     \/ entries' \in SUBSET Held /\ Fault
  /\ worker' = "spawn"
  /\ UNCHANGED <<proc, gowa, web, files, notify, stopping, work>>

\* The in_flight guard.
Untracked(id) == FALSE                          \* mutant: no in_flight guard
Tracked(id) == id \in inflight

\* One listed file: a task of its own, unless one is already on it.
Spawn(id) ==
  /\ worker = "spawn"
  /\ id \in entries
  /\ entries' = entries \ {id}
  /\ \/ Tracked(id) /\ UNCHANGED <<inflight, task>>
     \/ /\ ~Tracked(id)
        /\ inflight' = inflight \cup {id}
        /\ \E t \in Tasks :
             /\ ~Live(t)
             /\ task' = [task EXCEPT ![t] = [IdleTask EXCEPT !.pc = "queued", !.id = id]]
  /\ UNCHANGED <<proc, faults, gowa, web, files, notify, worker, stopping, forwarded>>

\* The final drain is followed by forwards.wait(), any other by the next select!.
BackToSelect == "select"                        \* mutant: the loop is never left
AfterDrain == IF stopping THEN "wait" ELSE "select"

Drained ==
  /\ worker = "spawn"
  /\ entries = {}
  /\ worker' = AfterDrain
  /\ UNCHANGED <<proc, faults, gowa, web, files, notify, stopping, entries, work>>

WorkerStep == Wake \/ Tick \/ Break \/ List \/ (\E id \in Ids : Spawn(id)) \/ Drained
-----------------------------------------------------------------------------
(***************************************************************************)
(* A forward task: process_file under its semaphore permit.                *)
(***************************************************************************)
TaskAt(t, pc) == task[t].pc = pc
TaskGoto(t, pc) == task' = [task EXCEPT ![t].pc = pc]

Acquire(t) ==
  /\ TaskAt(t, "queued")
  /\ Cardinality(Holding) < Concurrency
  /\ TaskGoto(t, "read")
  /\ UNCHANGED <<proc, faults, gowa, web, files, notify, loop, inflight, forwarded>>

\* Vanished or unreadable: leave.  Unparseable: dead-letter.  Else forward.
Read(t) ==
  /\ TaskAt(t, "read")
  /\ LET content == disk["pending"][task[t].id] IN
       \/ content = "none"  /\ TaskGoto(t, "leave") /\ UNCHANGED faults
       \/ content = "torn"  /\ TaskGoto(t, "bury")  /\ UNCHANGED faults
       \/ content = "whole" /\ TaskGoto(t, "post")  /\ UNCHANGED faults
       \/ content # "none"  /\ TaskGoto(t, "leave") /\ Fault
  /\ UNCHANGED <<proc, gowa, web, files, notify, loop, inflight, forwarded>>

\* agent.forward returned Ok: a 2xx, or the debug sink's.
PostOk(t) ==
  /\ TaskAt(t, "post")
  /\ forwarded' = [forwarded EXCEPT ![task[t].id] = @ + 1]
  /\ TaskGoto(t, "remove")
  /\ UNCHANGED <<proc, faults, gowa, web, files, notify, loop, inflight>>

ExhaustedEarly(t) == task[t].attempt + 1 >= MaxRetries     \* mutant: off by one
Exhausted(t) == task[t].attempt >= MaxRetries

\* agent.forward returned Err: dead-letter, or one more attempt after a backoff.
PostFails(t) ==
  /\ TaskAt(t, "post")
  /\ task' = [task EXCEPT
       ![t].refused = @ + 1,
       ![t].pc = IF Exhausted(t) THEN "bury" ELSE "backoff",
       ![t].attempt = IF Exhausted(t) THEN @ ELSE @ + 1]
  /\ UNCHANGED <<proc, faults, gowa, web, files, notify, loop, inflight, forwarded>>

Retry(t) ==
  /\ TaskAt(t, "backoff")
  /\ TaskGoto(t, "post")
  /\ UNCHANGED <<proc, faults, gowa, web, files, notify, loop, inflight, forwarded>>

\* Shutdown during the backoff: the file stays for the next startup drain.
LeavePending(t) ==
  /\ TaskAt(t, "backoff")
  /\ proc = "cancelled"
  /\ TaskGoto(t, "leave")
  /\ UNCHANGED <<proc, faults, gowa, web, files, notify, loop, inflight, forwarded>>

\* remove_file, whose error is ignored.
Remove(t) ==
  /\ TaskAt(t, "remove")
  /\ \/ RemoveFile(task[t].id) /\ UNCHANGED faults
     \/ Fault /\ UNCHANGED files
  /\ TaskGoto(t, "leave")
  /\ UNCHANGED <<proc, gowa, web, notify, loop, inflight, forwarded>>

\* move_to_dead, which leaves the file in place when the rename fails.
BuryByRemoving(t) ==                            \* mutant: deleted, not kept
  /\ TaskAt(t, "bury")
  /\ RemoveFile(task[t].id) /\ UNCHANGED faults
  /\ TaskGoto(t, "leave")
  /\ UNCHANGED <<proc, gowa, web, notify, loop, inflight, forwarded>>
Bury(t) ==
  /\ TaskAt(t, "bury")
  /\ \/ /\ disk["pending"][task[t].id] # "none"
        /\ RenameFile(task[t].id, "pending", "dead")
        /\ UNCHANGED faults
     \/ disk["pending"][task[t].id] = "none" /\ UNCHANGED <<files, faults>>
     \/ Fault /\ UNCHANGED files
  /\ TaskGoto(t, "leave")
  /\ UNCHANGED <<proc, gowa, web, notify, loop, inflight, forwarded>>

\* in_flight.remove; the task ends and its permit is released.
LeaveTracked(t) ==                              \* mutant: in_flight keeps the name
  /\ TaskAt(t, "leave")
  /\ task' = [task EXCEPT ![t] = IdleTask]
  /\ UNCHANGED <<proc, faults, gowa, web, files, notify, loop, inflight, forwarded>>
Leave(t) ==
  /\ TaskAt(t, "leave")
  /\ inflight' = inflight \ {task[t].id}
  /\ task' = [task EXCEPT ![t] = IdleTask]
  /\ UNCHANGED <<proc, faults, gowa, web, files, notify, loop, forwarded>>

Process(t) ==
  \/ Read(t) \/ PostOk(t) \/ PostFails(t) \/ Retry(t) \/ LeavePending(t)
  \/ Remove(t) \/ Bury(t) \/ Leave(t)
-----------------------------------------------------------------------------
(***************************************************************************)
(* The process.                                                            *)
(***************************************************************************)
\* Nothing in memory outlives the process; the queue directory does.
Halt ==
  /\ proc' = "down"
  /\ handler' = [h \in Handlers |-> IdleHandler]
  /\ fd' = [h \in Handlers |-> "closed"]
  /\ dedup' = {}
  /\ notify' = FALSE
  /\ worker' = "down"
  /\ stopping' = FALSE
  /\ entries' = {}
  /\ inflight' = {}
  /\ task' = [t \in Tasks |-> IdleTask]
  /\ UNCHANGED <<gowa, disk, forwarded>>

Crash ==
  /\ proc # "down"
  /\ Fault
  /\ Halt

\* reap_tmp_files, best-effort: a tmp file that cannot be removed stays.
Reap(left) ==
  disk' = [disk EXCEPT
    !["tmp"] = [id \in Ids |-> IF id \in left THEN disk["tmp"][id] ELSE "none"]]

\* Start: ForwardQueue::new, and the worker's loop begins with the startup drain.
Boot ==
  /\ proc = "down"
  /\ proc' = "up"
  /\ worker' = "list"
  /\ \/ Reap({}) /\ UNCHANGED faults
     \/ Fault /\ \E left \in SUBSET Ids : Reap(left)
  /\ UNCHANGED <<gowa, web, fd, notify, stopping, entries, work>>

\* axum stops accepting and lets the requests it is serving end.
Sigterm ==
  /\ proc = "up"
  /\ Fault
  /\ proc' = "closing"
  /\ UNCHANGED <<gowa, web, files, notify, loop, work>>

\* ForwardWorker::shutdown cancels the worker ...
Cancel ==
  /\ proc = "closing"
  /\ \A h \in Handlers : At(h, "idle")
  /\ proc' = "cancelled"
  /\ UNCHANGED <<faults, gowa, web, files, notify, loop, work>>

\* ... and awaits its end: every task it has spawned is over.
ExitDrained ==
  /\ proc = "cancelled"
  /\ worker = "wait"
  /\ \A t \in Tasks : ~Live(t)
  /\ Halt
  /\ UNCHANGED faults

\* ... or 15 seconds: it exits anyway, whatever the tasks are doing.
ExitTimedOut ==
  /\ proc = "cancelled"
  /\ Fault
  /\ Halt

Next ==
  \/ \E h \in Handlers : Handle(h) \/ EnqueueFails(h) \/ \E id \in Ids : Deliver(h, id)
  \/ WorkerStep
  \/ \E t \in Tasks : Acquire(t) \/ Process(t)
  \/ Crash \/ Boot \/ Sigterm \/ Cancel \/ ExitDrained \/ ExitTimedOut

Spec == Init /\ [][Next]_vars

(***************************************************************************)
(* Threads run.  select! polls its branches in random order, so a branch   *)
(* that is ready whenever it is polled is taken in the end; tokio's        *)
(* semaphore serves its waiters first come, first served.  A process that  *)
(* is down is started again (Restart=on-failure, or the operator).         *)
(* Nothing is assumed of GOWA, of the agent's answers, or of the faults.   *)
(***************************************************************************)
Fairness ==
  /\ \A h \in Handlers : WF_vars(Handle(h))
  /\ WF_vars(WorkerStep)
  /\ SF_vars(Break)
  /\ \A t \in Tasks : WF_vars(Process(t)) /\ SF_vars(Acquire(t))
  /\ WF_vars(Boot)
  /\ WF_vars(Cancel)
  /\ WF_vars(ExitDrained)

FairSpec == Spec /\ Fairness
-----------------------------------------------------------------------------
(***************************************************************************)
(* Properties.                                                             *)
(***************************************************************************)
Delivered == {id \in Ids : forwarded[id] > 0}

\* In the queue, in dead/ or with the agent.
Stored == Held \cup Buried \cup Delivered

\* "If the enqueue itself fails we do NOT ack, so GOWA retries"
\* (src/server.rs:272-275): a message GOWA was told 200 for, by the handler that
\* stored it or by one that found it in dedup, is in the queue, in dead/ or with
\* the agent, whatever crashed, failed or was shut down since.
NoLoss == acked \subseteq Stored

\* in_flight names exactly the files that have a live task, and no file has two
\* (src/forward.rs:186-188): not across drains, nor for a stale directory listing.
OneTaskPerFile ==
  /\ inflight = {task[t].id : t \in {u \in Tasks : Live(u)}}
  /\ \A t, u \in Tasks : Live(t) /\ Live(u) /\ task[t].id = task[u].id => t = u

\* "a crash mid-write never leaves a half-written <hex>.json a reader could choke
\* on" (src/forward.rs:72-74), nor does anything else: what the worker can list is
\* always a whole message.
NeverHalfWritten == \A id \in Ids : disk["pending"][id] # "torn"

\* Only a message the agent has refused MaxRetries + 1 times in a row goes to
\* dead/ (src/forward.rs:345-349): none is given up on before.
BuriedOnlyWhenRefused ==
  [][\A id \in Ids :
       disk'["dead"][id] # "none" /\ disk["dead"][id] = "none"
         => \E t \in Tasks : task[t].id = id /\ task[t].refused = MaxRetries + 1]_vars

\* With no crash, shutdown or I/O error the agent accepts a message once at most
\* (src/dedup.rs:6-10 and the regression tests of docs/readiness-remediation).
OnceUnlessFaulty == faults = 0 => \A id \in Ids : forwarded[id] <= 1

\* No file is stuck: what is in pending/ leaves it, to the agent or to dead/,
\* though a notify may find its file in flight and be lost (src/forward.rs:111, 254).
QueueDrains == \A id \in Ids : id \in Held ~> id \notin Held

\* A shutdown ends without its 15s timeout: no task sleeps through it and the
\* worker leaves its loop (src/forward.rs:167-176, 223-226, 354-359).
ShutdownCompletes == proc = "closing" ~> proc = "down"

\* What the queue promises, and all it promises.
Promise == INSTANCE Delivery WITH
  promised  <- acked,
  held      <- Held,
  delivered <- Delivered,
  buried    <- Buried

Refinement == Promise!Spec

(***************************************************************************)
(* The inductive invariant behind NoLoss, OneTaskPerFile and Refinement.   *)
(***************************************************************************)
\* A 200 is only ever given for a stored message, from the enqueue itself
\* (a handler about to mark) or from an earlier mark.
Backed ==
  /\ NoLoss
  /\ dedup \subseteq Stored
  /\ \A h \in Handlers : At(h, "mark") => handler[h].id \in Stored

\* From its read to its end a task's file is there, for nothing else takes it.
TaskOwnsFile ==
  \A t \in Tasks :
    /\ task[t].pc \in {"post", "backoff", "remove", "bury"}
         => task[t].id \in Held
    /\ TaskAt(t, "remove") => task[t].id \in Delivered

\* An open file has a name unless it was replaced or removed.
OpenFiles ==
  \A h \in Handlers : fd[h] \in Dirs => At(h, "write") /\ disk[fd[h]][handler[h].id] # "none"

\* A process that is down serves nothing.
DownIsIdle == proc = "down" => \A h \in Handlers : At(h, "idle")

IInv == TypeOK /\ Backed /\ OneTaskPerFile /\ TaskOwnsFile /\ OpenFiles /\ DownIsIdle
=============================================================================
