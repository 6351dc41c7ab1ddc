------------------------------ MODULE NodeTasks ------------------------------
(***************************************************************************)
(* Tasks that rebuild a whole node, and the wave that updates the fleet    *)
(* node by node: servers/node-tasks.service.ts, with the agent and the     *)
(* runner of ops/scripts (verris-tasks.sh, verris-task-run.sh).            *)
(*                                                                         *)
(* A task is queued, leased by the agent of its node, executed there, and  *)
(* reported; the API reads the row, and writes it in another statement.    *)
(* Reports, heartbeats and answers get lost; an execution may die with its *)
(* node; the API gives up on a task it has not heard of for 15 minutes,    *)
(* dead or not; staff run a failed task again under the same id.           *)
(*                                                                         *)
(* Time is seen only as the staleness of a heartbeat.  An agent holds a    *)
(* lock while it leases, so a node has one lease request at a time.        *)
(***************************************************************************)
EXTENDS Integers, FiniteSets

CONSTANTS
    Canary, Second,     \* the nodes of the wave, in its order
    Profiled,           \* those that staff order a hosting profile for
    MaxTasks, MaxWaves, MaxRetries

ASSUME TaskConstants ==
    /\ Canary # Second /\ Profiled \subseteq {Canary, Second}
    /\ {MaxTasks, MaxWaves, MaxRetries} \subseteq Nat

Nodes == {Canary, Second}
Ids == 1 .. MaxTasks    \* in the order of createdAt

VARIABLES
    node, wave,         \* [Ids -> Nodes], [Ids -> Nat], 0 for a hosting profile
    taskStatus,         \* [Ids -> NodeTaskStatus, "absent" before it exists]
    stale,              \* it is RUNNING, updatedAt older than HEARTBEAT_STALE_MS
    run,                \* [Ids -> the runner of the task]
    complete, fail,     \* [Ids -> the API's handler of a report]
    retrying,           \* tasks staff have read as FAILED and not yet queued
    request, found,     \* each node's lease request
    done,               \* tasks an execution of which has succeeded
    givenUp,            \* nodes where a row left RUNNING under a runner at work
    waves, retries

task == <<node, wave, taskStatus, stale>>
reports == <<complete, fail>>
lease == <<request, found>>
bounds == <<waves, retries>>
tasksVars == <<task, run, reports, retrying, lease, done, givenUp, bounds>>

Statuses == {"absent", "QUEUED", "RUNNING", "FAILED", "COMPLETED"}
Handlers == {"none", "sent", "checked", "written"}

TasksInit ==
    /\ node = [i \in Ids |-> Canary] /\ wave = [i \in Ids |-> 0]
    /\ taskStatus = [i \in Ids |-> "absent"] /\ stale = [i \in Ids |-> FALSE]
    /\ run = [i \in Ids |-> "none"]
    /\ complete = [i \in Ids |-> "none"] /\ fail = [i \in Ids |-> "none"]
    /\ retrying = {}
    /\ request = [n \in Nodes |-> "idle"]
    /\ found = [n \in Nodes |-> {}]
    /\ done = {} /\ givenUp = {}
    /\ waves = 0 /\ retries = 0

IsUpdate(i) == wave[i] > 0
InFlight(i) == taskStatus[i] \in {"QUEUED", "RUNNING"}
Absent == {i \in Ids : taskStatus[i] = "absent"}
Oldest(i, S) == i \in S /\ \A j \in S : i <= j

\* A new row.
CreateTask(n, w) == \E i \in Ids :
    /\ Oldest(i, Absent)
    /\ node' = [node EXCEPT ![i] = n]
    /\ wave' = [wave EXCEPT ![i] = w]
    /\ taskStatus' = [taskStatus EXCEPT ![i] = "QUEUED"]
    /\ UNCHANGED stale

-----------------------------------------------------------------------------
(* Queueing.                                                               *)

\* queueFleetUpdate: not while an update is queued or running anywhere.
QueueWave ==
    /\ waves < MaxWaves
    /\ ~\E i \in Ids : IsUpdate(i) /\ InFlight(i)
    /\ CreateTask(Canary, waves + 1)
    /\ waves' = waves + 1
    /\ UNCHANGED <<run, reports, retrying, lease, done, givenUp, retries>>

\* queueHostingProfile: one at a time on a node.
QueueProfile(n) ==
    /\ ~\E i \in Ids : ~IsUpdate(i) /\ node[i] = n /\ InFlight(i)
    /\ CreateTask(n, 0)
    /\ UNCHANGED <<run, reports, retrying, lease, done, givenUp, bounds>>

\* Nodes where a runner is at work on one of these tasks, whose row now says
\* something else.
LeftAtWork(S) == {node[i] : i \in {j \in S : run[j] = "work"}}

\* retryFailedTask reads the row, ...
BeginRetry(i) ==
    /\ taskStatus[i] = "FAILED" /\ i \notin retrying
    /\ retries < MaxRetries
    /\ retrying' = retrying \cup {i}
    /\ retries' = retries + 1
    /\ UNCHANGED <<task, run, reports, lease, done, givenUp, waves>>

\* ... and writes it, whatever it has become.
Retry(i) ==
    /\ i \in retrying
    /\ retrying' = retrying \ {i}
    /\ taskStatus' = [taskStatus EXCEPT ![i] = "QUEUED"]
    /\ stale' = [stale EXCEPT ![i] = FALSE]
    /\ givenUp' = givenUp \cup LeftAtWork({i})
    /\ UNCHANGED <<node, wave, run, reports, lease, done, bounds>>

-----------------------------------------------------------------------------
(* leaseTaskForNode.                                                       *)

RequestAt(n, place) == request' = [request EXCEPT ![n] = place]

\* Mutated form: a task is never given up.
IsStale_Never(i) == FALSE

IsStale(i) == taskStatus[i] = "RUNNING" /\ stale[i]

\* reclaimStaleRunningTasks finds the tasks nobody was heard of, ...  (Without
\* a task in flight a request has no effect and is left out.)
Poll(n) ==
    /\ request[n] = "idle"
    /\ \E i \in Ids : node[i] = n /\ InFlight(i)
    /\ found' = [found EXCEPT ![n] = {i \in Ids : node[i] = n /\ IsStale(i)}]
    /\ RequestAt(n, IF found'[n] = {} THEN "lease" ELSE "reclaim")
    /\ UNCHANGED <<task, run, reports, retrying, done, givenUp, bounds>>

\* ... and fails them by their id.
Reclaim(n) ==
    /\ request[n] = "reclaim"
    /\ taskStatus' = [i \in Ids |-> IF i \in found[n] THEN "FAILED" ELSE taskStatus[i]]
    /\ givenUp' = givenUp \cup LeftAtWork(found[n])
    /\ stale' = [i \in Ids |-> stale[i] /\ i \notin found[n]]
    /\ found' = [found EXCEPT ![n] = {}]
    /\ RequestAt(n, "lease")
    /\ UNCHANGED <<node, wave, run, reports, retrying, done, bounds>>

\* Mutated form: only a task of the same kind keeps another one waiting.
NodeIsBusy_SameKind(n, i) ==
    \E j \in Ids : node[j] = n /\ taskStatus[j] = "RUNNING" /\ IsUpdate(i) = IsUpdate(j)

\* ZADANIA_CALEGO_WEZLA do not run beside each other.
NodeIsBusy(n, i) == \E j \in Ids : node[j] = n /\ taskStatus[j] = "RUNNING"

\* wybierzSprawiedliwie, for tasks without an account: the oldest.
Candidates(n) ==
    {i \in Ids : node[i] = n /\ taskStatus[i] = "QUEUED" /\ ~NodeIsBusy(n, i)}

\* The choice and the conditional update, which meets the row as it was chosen:
\* no one else leases tasks of this node.  The answer reaches the agent or not;
\* a runner is started unless one of this id is there (task_is_running, flock).
Lease(n) ==
    /\ request[n] = "lease"
    /\ \/ Candidates(n) = {} /\ UNCHANGED <<taskStatus, stale, run>>
       \/ \E i \in Ids :
            /\ Oldest(i, Candidates(n))
            /\ taskStatus' = [taskStatus EXCEPT ![i] = "RUNNING"]
            /\ stale' = [stale EXCEPT ![i] = FALSE]
            /\ run' \in {run, [run EXCEPT ![i] = IF @ = "none" THEN "work" ELSE @]}
    /\ RequestAt(n, "idle")
    /\ UNCHANGED <<node, wave, reports, retrying, found, done, givenUp, bounds>>

-----------------------------------------------------------------------------
(* The runner.                                                             *)

\* No heartbeat for 15 minutes: the runner is gone, or they do not get through.
GoStale(i) ==
    /\ taskStatus[i] = "RUNNING" /\ ~stale[i]
    /\ stale' = [stale EXCEPT ![i] = TRUE]
    /\ UNCHANGED <<node, wave, taskStatus, run, reports, retrying, lease, done, givenUp, bounds>>

\* progressTaskFromNode.
Heartbeat(i) ==
    /\ run[i] = "work" /\ taskStatus[i] = "RUNNING" /\ stale[i]
    /\ stale' = [stale EXCEPT ![i] = FALSE]
    /\ UNCHANGED <<node, wave, taskStatus, run, reports, retrying, lease, done, givenUp, bounds>>

\* The script ended well: report_complete.
Succeed(i) ==
    /\ run[i] = "work" /\ complete[i] = "none"
    /\ run' = [run EXCEPT ![i] = "ask"]
    /\ complete' = [complete EXCEPT ![i] = "sent"]
    /\ done' = done \cup {i}
    /\ UNCHANGED <<task, fail, retrying, lease, givenUp, bounds>>

\* The script failed, or the confirmation was refused or not answered within 30
\* seconds: report_fail, which may get lost.
ReportFail(i) ==
    /\ run[i] = "work" \/ (run[i] = "ask" /\ complete[i] # "sent")
    /\ fail[i] = "none"
    /\ run' = [run EXCEPT ![i] = "none"]
    /\ fail' \in {fail, [fail EXCEPT ![i] = "sent"]}
    /\ UNCHANGED <<task, complete, retrying, lease, done, givenUp, bounds>>

\* The confirmation does not arrive.
LoseComplete(i) ==
    /\ complete[i] = "sent"
    /\ complete' = [complete EXCEPT ![i] = "none"]
    /\ UNCHANGED <<task, run, fail, retrying, lease, done, givenUp, bounds>>

\* The node loses its power.
RunnerDies(i) ==
    /\ run[i] # "none"
    /\ run' = [run EXCEPT ![i] = "none"]
    /\ UNCHANGED <<task, reports, retrying, lease, done, givenUp, bounds>>

-----------------------------------------------------------------------------
(* completeTaskFromNode, failTaskFromNode.                                 *)

AssertRunning(i) == taskStatus[i] = "RUNNING"

CheckComplete(i) ==
    /\ complete[i] = "sent"
    /\ complete' = [complete EXCEPT ![i] = IF AssertRunning(i) THEN "checked" ELSE "none"]
    /\ UNCHANGED <<task, run, fail, retrying, lease, done, givenUp, bounds>>

WriteComplete(i) ==
    /\ complete[i] = "checked"
    /\ taskStatus' = [taskStatus EXCEPT ![i] = "COMPLETED"]
    /\ stale' = [stale EXCEPT ![i] = FALSE]
    /\ givenUp' = givenUp \cup LeftAtWork({i})
    /\ complete' = [complete EXCEPT ![i] = "written"]
    /\ UNCHANGED <<node, wave, run, fail, retrying, lease, done, bounds>>

\* The answer, if the runner still waits for it.
Answered(i) == run' = [run EXCEPT ![i] = IF @ = "ask" THEN "none" ELSE @]

NextWave(i) == wave[i]

\* dalejFala: the update of the next node, unless it has one in flight
\* (queueNodeUpdate).
MoveOn(i) ==
    /\ complete[i] = "written"
    /\ complete' = [complete EXCEPT ![i] = "none"]
    /\ Answered(i)
    /\ IF /\ IsUpdate(i) /\ node[i] = Canary
          /\ ~\E j \in Ids : IsUpdate(j) /\ node[j] = Second /\ InFlight(j)
       THEN CreateTask(Second, NextWave(i))
       ELSE UNCHANGED task
    /\ UNCHANGED <<fail, retrying, lease, done, givenUp, bounds>>

\* Mutated form: the next node is queued also when this one failed.
AfterFailure_MoveOn(i) == \E j \in Absent :
    /\ wave' = [wave EXCEPT ![j] = wave[i]]
    /\ node' = [node EXCEPT ![j] = Second]
    /\ taskStatus' = [taskStatus EXCEPT ![i] = "FAILED", ![j] = "QUEUED"]

\* dalejFala after a failure only reports.
AfterFailure(i) ==
    /\ taskStatus' = [taskStatus EXCEPT ![i] = "FAILED"]
    /\ UNCHANGED <<node, wave>>

CheckFail(i) ==
    /\ fail[i] = "sent"
    /\ fail' = [fail EXCEPT ![i] = IF AssertRunning(i) THEN "checked" ELSE "none"]
    /\ UNCHANGED <<task, run, complete, retrying, lease, done, givenUp, bounds>>

WriteFail(i) ==
    /\ fail[i] = "checked"
    /\ AfterFailure(i)
    /\ fail' = [fail EXCEPT ![i] = "none"]
    /\ stale' = [stale EXCEPT ![i] = FALSE]
    /\ givenUp' = givenUp \cup LeftAtWork({i})
    /\ UNCHANGED <<run, complete, retrying, lease, done, bounds>>

\* The API is restarted in the middle of a confirmation; to the runner a failure
\* report that is cut off is one that got lost.
HandlerDies(i) ==
    /\ complete[i] # "none"
    /\ complete' = [complete EXCEPT ![i] = "none"]
    /\ UNCHANGED <<task, run, fail, retrying, lease, done, givenUp, bounds>>

LeaseStep(n) == Reclaim(n) \/ Lease(n)
ReportStep(i) ==
    CheckComplete(i) \/ WriteComplete(i) \/ MoveOn(i) \/ CheckFail(i) \/ WriteFail(i)

TasksNext ==
    \/ QueueWave
    \/ \E n \in Profiled : QueueProfile(n)
    \/ \E n \in Nodes : Poll(n) \/ LeaseStep(n)
    \/ \E i \in Ids :
        \/ BeginRetry(i) \/ Retry(i)
        \/ GoStale(i) \/ Heartbeat(i)
        \/ Succeed(i) \/ ReportFail(i) \/ LoseComplete(i) \/ RunnerDies(i)
        \/ ReportStep(i) \/ HandlerDies(i)

TasksSpec == TasksInit /\ [][TasksNext]_tasksVars

\* Agents poll every minute and requests go on; a script ends (systemd stops it
\* after two hours); a task whose runner is gone sends no heartbeat.
TasksFairSpec ==
    /\ TasksSpec
    /\ \A n \in Nodes : WF_tasksVars(Poll(n)) /\ WF_tasksVars(LeaseStep(n))
    /\ \A i \in Ids :
        /\ WF_tasksVars(Retry(i))
        /\ WF_tasksVars(Succeed(i) \/ ReportFail(i) \/ LoseComplete(i) \/ ReportStep(i))
        /\ WF_tasksVars(run[i] = "none" /\ GoStale(i))

-----------------------------------------------------------------------------
(* Properties.                                                             *)

TasksTypeOK ==
    /\ node \in [Ids -> Nodes] /\ wave \in [Ids -> 0 .. MaxWaves]
    /\ taskStatus \in [Ids -> Statuses]
    /\ stale \in [Ids -> BOOLEAN]
    /\ run \in [Ids -> {"none", "work", "ask"}]
    /\ complete \in [Ids -> Handlers]
    /\ fail \in [Ids -> Handlers \ {"written"}]
    /\ retrying \subseteq Ids
    /\ request \in [Nodes -> {"idle", "reclaim", "lease"}]
    /\ found \in [Nodes -> SUBSET Ids]
    /\ done \subseteq Ids /\ givenUp \subseteq Nodes
    /\ waves \in 0 .. MaxWaves /\ retries \in 0 .. MaxRetries

\* The next node of a wave is queued only after the one before it was updated
\* well, whichever execution of the task reported that and however late
\* (node-tasks.service.ts:411-412).
NextAfterSuccess ==
    \A i \in Ids : IsUpdate(i) /\ node[i] = Second =>
        \E j \in done : wave[j] = wave[i] /\ node[j] = Canary

\* Two tasks that rebuild a node are not executed at once (node-tasks.service
\* .ts:731-732), unless the row of one no longer said RUNNING while its runner was
\* still at work.
AloneOnNode ==
    \A n \in Nodes \ givenUp :
        Cardinality({i \in Ids : node[i] = n /\ run[i] = "work"}) <= 1

\* A queued task gets its turn: nodes die, reports and answers get lost, and still
\* the task before it does not stay RUNNING for ever, but ends or is given up.
QueuedIsLeased == \A i \in Ids : taskStatus[i] = "QUEUED" ~> taskStatus[i] # "QUEUED"

=============================================================================
