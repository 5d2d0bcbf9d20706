----------------------------- MODULE MapReduce -----------------------------
(***************************************************************************)
(* The MapReduce coordinator and its workers (src/src/mr).                 *)
(*                                                                         *)
(* A worker asks for a task, runs it, reports it and asks again.  The      *)
(* coordinator's handlers run in goroutines of their own: RequestTask      *)
(* reads c.phase several times without the lock, and writes the task's     *)
(* WorkerID after selectTask released it, so it is cut at each of these    *)
(* points.  ReportTask, checkTimeout and a round of checkPhase run under   *)
(* c.mu and are one action each.                                           *)
(*                                                                         *)
(* A worker can crash, and it can be slower than the ten second timer; it  *)
(* then goes on with a task that is given to someone else.  Map and Reduce *)
(* functions are deterministic: an intermediate file mr-X-Y is the fact    *)
(* that map task X's pairs of partition Y are there, a result mr-out-Y is  *)
(* the set of map tasks whose pairs went into it.  Files appear by rename, *)
(* one at a time.                                                          *)
(*                                                                         *)
(* A definition named after the next one with a fault added (checkPhaseLate*)
(* before checkPhase) is a wrong variant that no specification uses.       *)
(***************************************************************************)
EXTENDS Integers, FiniteSets

CONSTANTS Workers, NMap, NReduce,
          NoWorker,    \* WorkerID -1
          MaxCrashes,  \* bound: crashes of workers, fewer than workers
          MaxSlow      \* bound: executions slower than the timer

Maps == 0..NMap - 1
Reduces == 0..NReduce - 1

(* a task is named by its kind and number; its kind is also the phase that *)
(* hands it out                                                            *)
MapIds == {"Map"} \X Maps
ReduceIds == {"Reduce"} \X Reduces
TaskIds == MapIds \cup ReduceIds
Phases == {"Map", "Reduce", "AllDone"}
Files == Maps \X Reduces

ASSUME JobAssumption ==
    /\ NMap \in Nat /\ NReduce \in Nat
    /\ IsFiniteSet(Workers) /\ NoWorker \notin Workers
    /\ MaxCrashes \in Nat /\ MaxSlow \in Nat

VARIABLES
    phase,       \* Coordinator.phase
    task,        \* Coordinator.mapTask and .reduceTask (empty in the Map phase)
    inputFiles,  \* the InputFiles of the reduce tasks
    nMap,        \* Coordinator.nMap: finished map tasks
    nReduce,     \* Coordinator.nReduce: NReduce, then finished reduce tasks
    timers,      \* goroutines in checkTimeout: who got which task
    up,          \* the coordinator process is running
    worker,      \* the workers, with the handler that serves their call
    files,       \* the mr-X-Y files
    out,         \* the mr-out-Y files: none, or the one with its content
    crashes, slow

jobVars == <<phase, task, inputFiles, nMap, nReduce, timers, up, worker, files,
             out, crashes, slow>>
coordinator == <<phase, task, inputFiles, nMap, nReduce, timers, up>>
disk == <<files, out>>
bounds == <<crashes, slow>>

Task == [TaskStat : {"NotAssign", "Assigned", "Finished"},
         WorkerID : Workers \cup {NoWorker}]
Worker == [pc : {"idle", "entered", "reduceBranch", "select", "assign",
                 "mapping", "reading", "writing", "report", "wait", "exit",
                 "dead"},
           seen : Phases,           \* the value of c.phase last read
           task : TaskIds \cup {<<>>},
           todo : SUBSET Nat,       \* partitions still to rename
           files : SUBSET Files,    \* InputFiles of a reduce task
           got : SUBSET Maps]       \* what doReduce read

(* one type invariant: coordinator, workers and disk *)
JobTypeOK ==
    /\ phase \in Phases
    /\ task \in [TaskIds -> Task]
    /\ inputFiles \in [Reduces -> SUBSET Files]
    /\ nMap \in Nat /\ nReduce \in Nat
    /\ timers \subseteq Workers \X TaskIds
    /\ up \in BOOLEAN
    /\ worker \in [Workers -> Worker]
    /\ files \subseteq Files
    /\ out \in [Reduces -> SUBSET SUBSET Maps]
    /\ crashes \in Nat /\ slow \in Nat

NewTask == [TaskStat |-> "NotAssign", WorkerID |-> NoWorker]

(* MakeCoordinator, makeMapTask and createTmpDir; the workers start *)
JobInit ==
    /\ phase = "Map"
    /\ task = [t \in TaskIds |-> NewTask]
    /\ inputFiles = [y \in Reduces |-> {}]
    /\ nMap = 0 /\ nReduce = NReduce
    /\ timers = {} /\ up = TRUE
    /\ worker = [w \in Workers |-> [pc |-> "idle", seen |-> "Map",
                   task |-> <<>>, todo |-> {}, files |-> {}, got |-> {}]]
    /\ files = {} /\ out = [y \in Reduces |-> {}]
    /\ crashes = 0 /\ slow = 0

Goto(w, pc) == worker' = [worker EXCEPT ![w].pc = pc]

-----------------------------------------------------------------------------
(* Coordinator.RequestTask *)

(* the worker's call arrives and the handler reads c.phase a first time *)
RequestTask(w) ==
    /\ up /\ worker[w].pc = "idle"
    /\ worker' = [worker EXCEPT ![w].pc = "entered", ![w].seen = phase]
    /\ UNCHANGED <<coordinator, disk, bounds>>

(* ExitTask when there is nothing left to assign *)
ChecksReduceExits(w) ==
    /\ up /\ worker[w].pc = "entered" /\ worker[w].seen # "Map"
    /\ Goto(w, IF \E y \in Reduces : task[<<"Reduce", y>>].TaskStat = "NotAssign"
               THEN "reduceBranch" ELSE "exit")
    /\ UNCHANGED <<coordinator, disk, bounds>>

(* not the Map phase: c.phase is read again, and ExitTask is the reply if  *)
(* it is not the Reduce phase either                                       *)
ChecksReduce(w) ==
    /\ up /\ worker[w].pc = "entered" /\ worker[w].seen # "Map"
    /\ Goto(w, IF phase = "Reduce" THEN "reduceBranch" ELSE "exit")
    /\ UNCHANGED <<coordinator, disk, bounds>>

(* c.phase is read once more, as selectTask's argument *)
CallsSelect(w) ==
    /\ up
    /\ \/ worker[w].pc = "entered" /\ worker[w].seen = "Map"
       \/ worker[w].pc = "reduceBranch"
    /\ worker' = [worker EXCEPT ![w].pc = "select", ![w].seen = phase]
    /\ UNCHANGED <<coordinator, disk, bounds>>

AnyButFinished(kind) ==
    {t \in TaskIds : t[1] = kind /\ task[t].TaskStat # "Finished"}

Unassigned(kind) ==
    {t \in TaskIds : t[1] = kind /\ task[t].TaskStat = "NotAssign"}

(* under c.mu: the first unassigned task of the phase, or WaitTask *)
selectTask(w) ==
    /\ up /\ worker[w].pc = "select"
    /\ LET free == Unassigned(worker[w].seen)
       IN  \/ /\ free = {}
              /\ Goto(w, "wait")
              /\ UNCHANGED task
           \/ \E t \in free :
              /\ \A u \in free : t[2] <= u[2]
              /\ task' = [task EXCEPT ![t].TaskStat = "Assigned"]
              /\ worker' = [worker EXCEPT ![w].pc = "assign", ![w].task = t]
    /\ UNCHANGED <<phase, inputFiles, nMap, nReduce, timers, up, disk, bounds>>

(* without the lock: the task gets its WorkerID, the reply its fields, and *)
(* the timer starts                                                        *)
Assign(w) ==
    LET t == worker[w].task
    IN  /\ up /\ worker[w].pc = "assign"
        /\ task' = [task EXCEPT ![t].WorkerID = w]
        /\ timers' = timers \cup {<<w, t>>}
        /\ worker' = [worker EXCEPT
             ![w].pc = IF t[1] = "Map" THEN "mapping" ELSE "reading",
             ![w].todo = IF t[1] = "Map" THEN 0..nReduce - 1 ELSE {},
             ![w].files = IF t[1] = "Map" THEN {} ELSE inputFiles[t[2]]]
        /\ UNCHANGED <<phase, inputFiles, nMap, nReduce, up, disk, bounds>>

-----------------------------------------------------------------------------
(* The coordinator's goroutines and ReportTask *)

(* the executions that outlive their timer *)
StillRuns(w, t) ==
    worker[w].task = t /\ worker[w].pc \in {"mapping", "reading", "writing", "report"}

(* ten seconds after the assignment, under c.mu *)
checkTimeout(w, t) ==
    /\ up /\ <<w, t>> \in timers
    /\ StillRuns(w, t) => slow < MaxSlow
    /\ slow' = IF StillRuns(w, t) THEN slow + 1 ELSE slow
    /\ timers' = timers \ {<<w, t>>}
    /\ task' = [task EXCEPT ![t] =
         IF /\ @.TaskStat # "Finished"
            /\ \/ @.WorkerID = w /\ @.TaskStat = "Assigned"
               \/ @.WorkerID # w
         THEN NewTask ELSE @]
    /\ UNCHANGED <<phase, inputFiles, nMap, nReduce, up, worker, disk, crashes>>

Holds(w, t) == task[t].WorkerID = w /\ task[t].TaskStat = "Assigned"

(* a report that counts again when the task is finished already *)
ReportTaskTwice(w) ==
    LET t == worker[w].task
        counted == task[t].TaskStat # "NotAssign"
    IN  /\ up /\ worker[w].pc = "report"
        /\ task' = IF counted THEN [task EXCEPT ![t].TaskStat = "Finished"]
                              ELSE task
        /\ nMap' = IF counted /\ t[1] = "Map" THEN nMap + 1 ELSE nMap
        /\ nReduce' = IF counted /\ t[1] = "Reduce" THEN nReduce + 1 ELSE nReduce
        /\ Goto(w, "idle")
        /\ UNCHANGED <<phase, inputFiles, timers, up, disk, bounds>>

(* under c.mu: only the worker the task is assigned to finishes it *)
ReportTask(w) ==
    LET t == worker[w].task
    IN  /\ up /\ worker[w].pc = "report"
        /\ task' = IF Holds(w, t) THEN [task EXCEPT ![t].TaskStat = "Finished"]
                                  ELSE task
        /\ nMap' = IF Holds(w, t) /\ t[1] = "Map" THEN nMap + 1 ELSE nMap
        /\ nReduce' = IF Holds(w, t) /\ t[1] = "Reduce" THEN nReduce + 1 ELSE nReduce
        /\ Goto(w, "idle")
        /\ UNCHANGED <<phase, inputFiles, timers, up, disk, bounds>>

(* makeReduceTask: the files of partition y that are there now *)
Glob(y) == {f \in files : f[2] = y}

checkPhaseEarly ==
    /\ up /\ UNCHANGED <<task, nMap, timers, up, worker, disk, bounds>>
    /\ \/ /\ phase = "Map" /\ nMap >= NMap - 1
          /\ phase' = "Reduce"
          /\ inputFiles' = [y \in Reduces |-> Glob(y)]
          /\ nReduce' = 0
       \/ /\ phase = "Reduce" /\ nReduce = NReduce
          /\ phase' = "AllDone"
          /\ UNCHANGED <<inputFiles, nReduce>>

checkPhaseLate ==
    /\ up /\ UNCHANGED <<task, nMap, timers, up, worker, disk, bounds>>
    /\ \/ /\ phase = "Map" /\ nMap = NMap
          /\ phase' = "Reduce"
          /\ inputFiles' = [y \in Reduces |-> Glob(y)]
          /\ nReduce' = 0
       \/ /\ phase = "Reduce" /\ nReduce > NReduce
          /\ phase' = "AllDone"
          /\ UNCHANGED <<inputFiles, nReduce>>

(* a round of the checkPhase loop that changes something, under c.mu *)
checkPhase ==
    /\ up /\ UNCHANGED <<task, nMap, timers, up, worker, disk, bounds>>
    /\ \/ /\ phase = "Map" /\ nMap = NMap
          /\ phase' = "Reduce"
          /\ inputFiles' = [y \in Reduces |-> Glob(y)]
          /\ nReduce' = 0
       \/ /\ phase = "Reduce" /\ nReduce = NReduce
          /\ phase' = "AllDone"
          /\ UNCHANGED <<inputFiles, nReduce>>

(* main/mrcoordinator.go leaves once Done() says so, with its goroutines *)
CoordinatorExits ==
    /\ up /\ phase = "AllDone"
    /\ up' = FALSE /\ timers' = {}
    /\ UNCHANGED <<phase, task, inputFiles, nMap, nReduce, worker, disk, bounds>>

-----------------------------------------------------------------------------
(* The worker *)

(* writeIntoTmpFiles renames the next of its files into place *)
doMap(w) ==
    /\ worker[w].pc = "mapping"
    /\ \/ \E y \in worker[w].todo :
          /\ \A z \in worker[w].todo : y <= z
          /\ files' = files \cup {<<worker[w].task[2], y>>}
          /\ worker' = [worker EXCEPT ![w].todo = @ \ {y}]
       \/ /\ worker[w].todo = {}
          /\ Goto(w, "report")
          /\ UNCHANGED files
    /\ UNCHANGED <<coordinator, out, bounds>>

(* doReduce reads its input files, leaving out those it cannot open... *)
doReduce(w) ==
    /\ worker[w].pc = "reading"
    /\ worker' = [worker EXCEPT ![w].pc = "writing",
                    ![w].got = {f[1] : f \in worker[w].files \cap files}]
    /\ UNCHANGED <<coordinator, disk, bounds>>

(* ...and renames its result into place *)
doReduceRename(w) ==
    /\ worker[w].pc = "writing"
    /\ out' = [out EXCEPT ![worker[w].task[2]] = {worker[w].got}]
    /\ Goto(w, "report")
    /\ UNCHANGED <<coordinator, files, bounds>>

(* the sleep after WaitTask ends *)
Wakes(w) ==
    /\ worker[w].pc = "wait"
    /\ Goto(w, "idle")
    /\ UNCHANGED <<coordinator, disk, bounds>>

(* a call without a coordinator ends the worker: the dial is fatal, a lost *)
(* reply to RequestTask breaks the loop                                    *)
CallFails(w) ==
    /\ ~ up
    /\ worker[w].pc \in {"idle", "report", "entered", "reduceBranch", "select",
                         "assign"}
    /\ Goto(w, "exit")
    /\ UNCHANGED <<coordinator, disk, bounds>>

(* the worker dies while it is not waiting for the coordinator; dying in a *)
(* call is the same as dying right after it                                *)
Crash(w) ==
    /\ worker[w].pc \in {"idle", "mapping", "reading", "writing", "report", "wait"}
    /\ crashes < MaxCrashes
    /\ crashes' = crashes + 1
    /\ Goto(w, "dead")
    /\ UNCHANGED <<coordinator, disk, slow>>

Ended == ~ up /\ \A w \in Workers : worker[w].pc \in {"exit", "dead"}

(* the processes are gone *)
Terminated == Ended /\ UNCHANGED jobVars

WorkerStep(w) ==
    \/ RequestTask(w) \/ ChecksReduce(w) \/ CallsSelect(w) \/ selectTask(w)
    \/ Assign(w) \/ doMap(w) \/ doReduce(w) \/ doReduceRename(w)
    \/ ReportTask(w) \/ Wakes(w) \/ CallFails(w)

JobNext ==
    \/ \E w \in Workers : WorkerStep(w) \/ Crash(w)
    \/ \E w \in Workers, t \in TaskIds : checkTimeout(w, t)
    \/ checkPhase \/ CoordinatorExits \/ Terminated

JobSpec == JobInit /\ [][JobNext]_jobVars

(* live workers run, timers fire, checkPhase and main poll *)
JobFairSpec ==
    /\ JobSpec
    /\ \A w \in Workers : WF_jobVars(WorkerStep(w))
    /\ \A w \in Workers, t \in TaskIds : WF_jobVars(checkTimeout(w, t))
    /\ WF_jobVars(checkPhase) /\ WF_jobVars(CoordinatorExits)

-----------------------------------------------------------------------------
Finished(ids) == {t \in ids : task[t].TaskStat = "Finished"}

(***************************************************************************)
(* The counters that checkPhase compares are the numbers of finished       *)
(* tasks, although a task may be run, timed out and reported several       *)
(* times: no report is counted twice, and none that counts is lost.        *)
(***************************************************************************)
CountersRight ==
    /\ nMap = Cardinality(Finished(MapIds))
    /\ nReduce = IF phase = "Map" THEN NReduce
                                  ELSE Cardinality(Finished(ReduceIds))

(***************************************************************************)
(* An assigned task is never forgotten: while the coordinator runs, either *)
(* exactly one timer watches it, for the worker it is assigned to, or one  *)
(* handler is about to start that timer.                                   *)
(***************************************************************************)
Watchers(t) ==
    {w \in Workers : \/ <<w, t>> \in timers
                     \/ worker[w].pc = "assign" /\ worker[w].task = t}

AssignedIsWatched ==
    up => \A t \in TaskIds : task[t].TaskStat = "Assigned" =>
              \E w \in Workers :
                  /\ Watchers(t) = {w}
                  /\ <<w, t>> \in timers => task[t].WorkerID = w

(***************************************************************************)
(* The barrier between the phases: once reduce tasks exist every one of    *)
(* them was made with the files of all map tasks, whoever crashed between  *)
(* two renames, and whichever slow worker still renames its own.           *)
(***************************************************************************)
ReduceSeesAllMaps ==
    phase # "Map" => \A y \in Reduces : inputFiles[y] = Maps \X {y}

(***************************************************************************)
(* A finished reduce task's result holds the pairs of every map task, and  *)
(* a worker leaves on ExitTask only when all results are there: the early  *)
(* exit test of main/test-mr.sh looks for one that leaves before.          *)
(***************************************************************************)
ResultsComplete ==
    /\ \A y \in Reduces :
         task[<<"Reduce", y>>].TaskStat = "Finished" => out[y] = {Maps}
    /\ (\E w \in Workers : worker[w].pc = "exit") \/ ~ up =>
         \A y \in Reduces : out[y] = {Maps}

(***************************************************************************)
(* The job ends although workers crash at any point, as long as one keeps  *)
(* running and only finitely many executions are slower than the timer:    *)
(* the results are made, the coordinator exits and so does every worker.   *)
(***************************************************************************)
JobEnds == <>Ended
=============================================================================
