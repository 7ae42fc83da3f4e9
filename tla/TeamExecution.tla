---------------------------- MODULE TeamExecution ----------------------------
(***************************************************************************)
(* One streamed team run with checkpointing: agents/team_runner.py (phases,*)
(* worker loops, re-planning, resume), the agent loop of                   *)
(* agents/team_agent_loop.py and cancel_team_run of routes/teams.py.       *)
(*                                                                         *)
(* The executor is the coroutine of run_stream or resume.  It starts one   *)
(* loop per worker; a worker claims every task it can and starts one       *)
(* sub-task for each, which runs an agent.  The agent may use the board    *)
(* tools.  An action is the code between two awaits that touch shared      *)
(* state; an agent's look at the cancel signals and the tool call that     *)
(* follows are one action.                                                 *)
(*                                                                         *)
(* Operators named Bug... are variants with a plausible mistake in them;   *)
(* no behaviour of this module uses them.                                  *)
(***************************************************************************)
EXTENDS TaskBoard

CONSTANTS
  Events,      \* what may happen in this instance
  MaxCrashes   \* how often the process that executes the run dies

(*   taskFails     the agent of a sub-task raises                          *)
(*   modelError    the planner, the re-planner or the synthesizer raises   *)
(*   boardError    a call of the task board raises                         *)
(*   statusTools   agents call complete_task and fail_task                 *)
(*   workersCreate agents call create_task                                 *)
(*   absentWorker  a task is suggested to an agent that does not run       *)
(*   ghostDep      a task depends on an id that names no task              *)
(*   cancelHere    the user cancels through the executing replica          *)
(*   cancelThere   the user cancels through another one                    *)
EventKinds == {"taskFails", "modelError", "boardError", "statusTools", "workersCreate",
               "absentWorker", "ghostDep", "cancelHere", "cancelThere"}

ASSUME TeamAssumption ==
  /\ Events \subseteq EventKinds
  /\ MaxCrashes \in Nat

VARIABLES
  phase,    \* where the executor is
  crashes,  \* how many incarnations of it have died
  loaded,   \* the phase a resume has read from the checkpoint
  resets,   \* the tasks it still has to reset
  saved,    \* the phase in the checkpoint
  wpc,      \* where each worker loop is
  todo,     \* the available tasks it is claiming
  spc,      \* where the sub-task of each worker and task is
  reviewed, \* the completions the re-planner has seen
  known,    \* the tasks on the board when it was called
  evt,      \* the cancel event of the executing process
  flag,     \* the event store has the run as cancelled
  mark,     \* checkpoint:cancel:{run}
  api       \* where the cancel request is, and the tasks it has listed

exec == <<phase, crashes, loaded, resets, reviewed, known>>
work == <<wpc, todo, spc>>
signals == <<evt, flag, mark>>
vars == <<board, exec, saved, work, signals, api>>

Planning == {"planning", "replan"}
Running == Planning \cup {"execution", "synthesis"}
Resuming == {"claim", "announce", "list", "reset"}
Saved == {"planning", "execution", "synthesis"}
Live == {"start", "run", "report", "blame"}

TypeOK ==
  /\ board \in [Task -> Entry]
  /\ phase \in {"new", "crashed", "ended"} \cup Running \cup Resuming
  /\ crashes \in 0..MaxCrashes
  /\ loaded \in Saved \cup {"none"}
  /\ resets \subseteq Task
  /\ saved \in Saved \cup {"none"}
  /\ wpc \in [Worker -> {"out", "check", "look", "poll", "claim", "execute"}]
  /\ todo \in [Worker -> SUBSET Task]
  /\ spc \in [Worker -> [Task -> {"idle", "held"} \cup Live]]
  /\ reviewed \subseteq Task
  /\ known \subseteq Task
  /\ evt \in BOOLEAN /\ flag \in BOOLEAN /\ mark \in BOOLEAN
  /\ api \in [pc: {"idle", "list", "fail", "delete", "mark", "done"},
              todo: SUBSET Task, here: BOOLEAN]

Idle == [t \in Task |-> "idle"]

NoRequest == [pc |-> "idle", todo |-> {}, here |-> FALSE]

Init ==
  /\ BoardInit
  /\ phase = "new" /\ crashes = 0
  /\ loaded = "none" /\ resets = {} /\ saved = "none"
  /\ wpc = [w \in Worker |-> "out"]
  /\ todo = [w \in Worker |-> {}]
  /\ spc = [w \in Worker |-> Idle]
  /\ reviewed = {} /\ known = {}
  /\ evt = FALSE /\ flag = FALSE /\ mark = FALSE
  /\ api = NoRequest

BoardRaises == "boardError" \in Events

(* What run_agent_with_tools_stream looks at before a turn and a tool.     *)
Cancelled == evt \/ mark

-----------------------------------------------------------------------------
(* Agents on the board.                                                    *)

(* create_task, called by a planner or a worker's agent.                   *)
ToolCreate(t) ==
  /\ ~Cancelled
  /\ \E deps \in SUBSET (Created \cup IF "ghostDep" \in Events THEN {Ghost} ELSE {}),
        name \in Worker \cup {Nobody} \cup IF "absentWorker" \in Events THEN {Absent} ELSE {} :
       CreateTask(t, deps, name)

(* complete_task and fail_task take any task id.                           *)
ToolStatus(t) ==
  /\ ~Cancelled
  /\ t \in Created
  /\ \E s \in {"done", "failed"} : UpdateTask(t, s)

-----------------------------------------------------------------------------
(* The executor: run_stream and its three phases.                          *)

(* _team_checkpoint swallows the errors of the store.                      *)
SaveTeam(ph) == saved' = ph

SpawnWorkers == wpc' = [w \in Worker |-> "check"]

Start ==
  /\ phase = "new"
  /\ phase' = "planning"
  /\ SaveTeam("planning")
  /\ UNCHANGED <<board, crashes, loaded, resets, reviewed, known, work, signals, api>>

PlannerCreates(t) ==
  /\ phase \in Planning
  /\ ToolCreate(t)
  /\ UNCHANGED <<exec, saved, work, signals, api>>

PlannerEnds ==
  /\ phase = "planning"
  /\ phase' = "execution"
  /\ SaveTeam("execution")
  /\ SpawnWorkers
  /\ UNCHANGED <<board, crashes, loaded, resets, reviewed, known, todo, spc, signals, api>>

AllOut == \A w \in Worker : wpc[w] = "out"

(* The wave is over: call the re-planner if it has something to look at.   *)
Review ==
  /\ phase = "execution"
  /\ AllOut
  /\ \/ /\ DoneTasks \subseteq reviewed
        /\ phase' = "synthesis"
        /\ SaveTeam("synthesis")
        /\ UNCHANGED <<reviewed, known>>
     \/ /\ ~(DoneTasks \subseteq reviewed)
        /\ reviewed' = reviewed \cup DoneTasks
        /\ known' = Created
        /\ phase' = "replan"
        /\ UNCHANGED saved
  /\ UNCHANGED <<board, crashes, loaded, resets, work, signals, api>>

(* New tasks start another wave.                                           *)
ReplannerEnds ==
  /\ phase = "replan"
  /\ \/ /\ Created # known
        /\ phase' = "execution"
        /\ SpawnWorkers
        /\ UNCHANGED saved
     \/ /\ Created = known
        /\ phase' = "synthesis"
        /\ SaveTeam("synthesis")
        /\ UNCHANGED wpc
  /\ UNCHANGED <<board, crashes, loaded, resets, reviewed, known, todo, spc, signals, api>>

SynthesizerEnds ==
  /\ phase = "synthesis"
  /\ phase' = "ended"
  /\ saved' = "none"
  /\ UNCHANGED <<board, crashes, loaded, resets, reviewed, known, work, signals, api>>

(* run_stream lets the exception through and leaves the checkpoint behind; *)
(* resume catches it and deletes the checkpoint.                           *)
ExecutorRaises ==
  /\ \/ phase \in Planning \cup {"synthesis"} /\ ("modelError" \in Events \/ BoardRaises)
     \/ phase = "execution" /\ AllOut /\ BoardRaises
  /\ phase' = "ended"
  /\ saved' = IF crashes > 0 THEN "none" ELSE saved
  /\ UNCHANGED <<board, crashes, loaded, resets, reviewed, known, work, signals, api>>

ExecutorStep ==
  \/ PlannerEnds \/ Review \/ ReplannerEnds \/ SynthesizerEnds

-----------------------------------------------------------------------------
(* The worker loops: _worker_loop_stream.                                  *)

Move(w, pc) == wpc' = [wpc EXCEPT ![w] = pc]

(* _sync_remote_cancel, then the local event.                              *)
WorkerCheck(w) ==
  /\ wpc[w] = "check"
  /\ evt' = (evt \/ flag)
  /\ Move(w, IF evt' THEN "out" ELSE "look")
  /\ UNCHANGED <<board, exec, saved, todo, spc, flag, mark, api>>

WorkerLook(w) ==
  /\ wpc[w] = "look"
  /\ Move(w, IF Available(w) = {} THEN "poll" ELSE "claim")
  /\ todo' = [todo EXCEPT ![w] = Available(w)]
  /\ UNCHANGED <<board, exec, saved, spc, signals, api>>

(* A worker leaves when nothing is being worked on. *)
BugWorkerPoll(w) ==
  /\ wpc[w] = "poll"
  /\ Move(w, IF WithStatus({"claimed", "in_progress"}) = {} THEN "out" ELSE "check")
  /\ UNCHANGED <<board, exec, saved, todo, spc, signals, api>>

(* _has_incomplete_tasks is a second look at the board.                    *)
WorkerPoll(w) ==
  /\ wpc[w] = "poll"
  /\ Move(w, IF WithStatus(Incomplete) = {} THEN "out" ELSE "check")
  /\ UNCHANGED <<board, exec, saved, todo, spc, signals, api>>

(* After the last claim the sub-tasks are created; they return at once if  *)
(* the cancel event is set.                                                *)
AfterClaims(w, held) ==
  IF held = {} \/ evt
  THEN /\ Move(w, "check")
       /\ spc' = [spc EXCEPT ![w] = Idle]
  ELSE /\ Move(w, "execute")
       /\ spc' = [spc EXCEPT ![w] = [t \in Task |-> IF t \in held THEN "start" ELSE "idle"]]

Held(w) == {t \in Task : spc[w][t] = "held"}

WorkerClaim(w, t) ==
  /\ wpc[w] = "claim"
  /\ t \in todo[w]
  /\ todo' = [todo EXCEPT ![w] = @ \ {t}]
  /\ \/ ClaimTask(t, w)
     \/ ~Ready(t) /\ UNCHANGED board
  /\ LET held == IF Ready(t) THEN Held(w) \cup {t} ELSE Held(w)
     IN  IF todo[w] = {t}
         THEN AfterClaims(w, held)
         ELSE /\ spc' = [spc EXCEPT ![w] = [u \in Task |-> IF u \in held THEN "held" ELSE "idle"]]
              /\ UNCHANGED wpc
  /\ UNCHANGED <<exec, saved, signals, api>>

(* The wrapper turns an exception into a worker_error event: the loop ends *)
(* and what it has claimed stays claimed.                                  *)
WorkerRaises(w) ==
  /\ BoardRaises
  /\ wpc[w] \in {"look", "poll", "claim"}
  /\ Move(w, "out")
  /\ todo' = [todo EXCEPT ![w] = {}]
  /\ spc' = [spc EXCEPT ![w] = Idle]
  /\ UNCHANGED <<board, exec, saved, signals, api>>

(* The parent loop of the sub-tasks: it cancels them when it learns that   *)
(* the run is cancelled, and goes on when they are finished.               *)
WorkerWatch(w) ==
  /\ wpc[w] = "execute"
  /\ flag \/ evt
  /\ evt' = TRUE
  /\ spc' = [spc EXCEPT ![w] = Idle]
  /\ Move(w, "check")
  /\ UNCHANGED <<board, exec, saved, todo, flag, mark, api>>

WorkerGathers(w) ==
  /\ wpc[w] = "execute"
  /\ spc[w] = Idle
  /\ Move(w, "check")
  /\ UNCHANGED <<board, exec, saved, todo, spc, signals, api>>

(* The executor was cancelled: its finally clause cancels the worker loops *)
(* but nobody cancels the sub-tasks they wait for.                         *)
WorkerDropped(w) ==
  /\ phase = "ended"
  /\ wpc[w] # "out"
  /\ Move(w, "out")
  /\ todo' = [todo EXCEPT ![w] = {}]
  /\ spc' = [spc EXCEPT ![w] = [t \in Task |-> IF @[t] = "held" THEN "idle" ELSE @[t]]]
  /\ UNCHANGED <<board, exec, saved, signals, api>>

WorkerStep(w) ==
  \/ WorkerCheck(w) \/ WorkerLook(w) \/ WorkerPoll(w)
  \/ \E t \in Task : WorkerClaim(w, t)
  \/ WorkerWatch(w) \/ WorkerGathers(w) \/ WorkerDropped(w)

-----------------------------------------------------------------------------
(* The sub-tasks: _run_one and the agent it runs.                          *)

Step(w, t, pc) == spc' = [spc EXCEPT ![w][t] = pc]

(* An exception of this first update is uncaught; the parent loop marks    *)
(* the task as failed.                                                     *)
TaskStart(w, t) ==
  /\ spc[w][t] = "start"
  /\ \/ UpdateTask(t, "in_progress") /\ Step(w, t, "run")
     \/ BoardRaises /\ Step(w, t, "blame") /\ UNCHANGED board
  /\ UNCHANGED <<exec, saved, wpc, todo, signals, api>>

AgentCreates(w, t) ==
  /\ "workersCreate" \in Events
  /\ spc[w][t] = "run"
  /\ \E u \in Task : ToolCreate(u)
  /\ UNCHANGED <<exec, saved, work, signals, api>>

AgentSets(w, t) ==
  /\ "statusTools" \in Events
  /\ spc[w][t] = "run"
  /\ \E u \in Task : ToolStatus(u)
  /\ UNCHANGED <<exec, saved, work, signals, api>>

(* The agent answers, runs out of turns or notices a cancel signal.        *)
AgentReturns(w, t) ==
  /\ spc[w][t] = "run"
  /\ Step(w, t, "report")
  /\ UNCHANGED <<board, exec, saved, wpc, todo, signals, api>>

AgentRaises(w, t) ==
  /\ "taskFails" \in Events \/ BoardRaises
  /\ spc[w][t] = "run"
  /\ Step(w, t, "blame")
  /\ UNCHANGED <<board, exec, saved, wpc, todo, signals, api>>

(* The result is not recorded. *)
BugTaskReport(w, t) ==
  /\ spc[w][t] = "report"
  /\ Step(w, t, "idle")
  /\ UNCHANGED <<board, exec, saved, wpc, todo, signals, api>>

TaskReport(w, t) ==
  /\ spc[w][t] = "report"
  /\ \/ UpdateTask(t, "done") /\ Step(w, t, "idle")
     \/ BoardRaises /\ Step(w, t, "blame") /\ UNCHANGED board
  /\ UNCHANGED <<exec, saved, wpc, todo, signals, api>>

TaskBlame(w, t) ==
  /\ spc[w][t] = "blame"
  /\ \/ UpdateTask(t, "failed")
     \/ BoardRaises /\ UNCHANGED board
  /\ Step(w, t, "idle")
  /\ UNCHANGED <<exec, saved, wpc, todo, signals, api>>

TaskStep(w, t) == TaskStart(w, t) \/ AgentReturns(w, t) \/ TaskReport(w, t) \/ TaskBlame(w, t)

-----------------------------------------------------------------------------
(* A crash, and resume on another replica.                                 *)

Crash ==
  /\ crashes < MaxCrashes
  /\ phase \in Running \cup Resuming \cup (IF saved = "none" THEN {} ELSE {"ended"})
  /\ crashes' = crashes + 1
  /\ phase' = "crashed"
  /\ loaded' = "none" /\ resets' = {} /\ reviewed' = {} /\ known' = {}
  /\ wpc' = [w \in Worker |-> "out"]
  /\ todo' = [w \in Worker |-> {}]
  /\ spc' = [w \in Worker |-> Idle]
  /\ evt' = FALSE
  /\ api' = IF api.here /\ api.pc # "done" THEN NoRequest ELSE api
  /\ UNCHANGED <<board, saved, flag, mark>>

(* The lock that is taken between load and claim is CheckpointRecovery's.  *)
ResumeLoad ==
  /\ phase = "crashed"
  /\ saved # "none"
  /\ loaded' = saved
  /\ phase' = "claim"
  /\ UNCHANGED <<board, crashes, resets, reviewed, known, saved, work, signals, api>>

ResumeClaim ==
  /\ phase = "claim"
  /\ SaveTeam(loaded)
  /\ phase' = "announce"
  /\ UNCHANGED <<board, crashes, loaded, resets, reviewed, known, work, signals, api>>

(* set_status "running", whatever the status was.                          *)
ResumeAnnounce ==
  /\ phase = "announce"
  /\ flag' = FALSE
  /\ phase' = "list"
  /\ UNCHANGED <<board, crashes, loaded, resets, reviewed, known, saved, work, evt, mark, api>>

(* Everything that is not done is reset. *)
BugResumeList ==
  /\ phase = "list"
  /\ resets' = WithStatus({"in_progress", "failed"})
  /\ phase' = "reset"
  /\ UNCHANGED <<board, crashes, loaded, reviewed, known, saved, work, signals, api>>

ResumeList ==
  /\ phase = "list"
  /\ \/ resets' = WithStatus({"in_progress"})
     \/ BoardRaises /\ UNCHANGED resets
  /\ phase' = "reset"
  /\ UNCHANGED <<board, crashes, loaded, reviewed, known, saved, work, signals, api>>

(* A call that raises ends the resetting.                                  *)
ResumeReset(t) ==
  /\ phase = "reset"
  /\ t \in resets
  /\ \/ UpdateTask(t, "pending") /\ resets' = resets \ {t}
     \/ BoardRaises /\ resets' = {} /\ UNCHANGED board
  /\ UNCHANGED <<phase, crashes, loaded, reviewed, known, saved, work, signals, api>>

ResumePhase ==
  /\ phase = "reset"
  /\ resets = {}
  /\ phase' = loaded
  /\ saved' = IF loaded = "planning" THEN saved ELSE loaded
  /\ IF loaded = "execution" THEN SpawnWorkers ELSE UNCHANGED wpc
  /\ UNCHANGED <<board, crashes, loaded, resets, reviewed, known, todo, spc, signals, api>>

ResumeStep ==
  \/ ResumeLoad \/ ResumeClaim \/ ResumeAnnounce \/ ResumeList
  \/ \E t \in Task : ResumeReset(t)
  \/ ResumePhase

-----------------------------------------------------------------------------
(* cancel_team_run.                                                        *)

Request(pc, tasks) == api' = [api EXCEPT !.pc = pc, !.todo = tasks]

(* cancel_run sets the event, _bg.cancel or cancel_recovery_task cancels   *)
(* the executor's task.                                                    *)
CancelHere ==
  /\ "cancelHere" \in Events
  /\ api.pc = "idle"
  /\ phase \in Running \cup Resuming
  /\ evt' = TRUE
  /\ phase' = "ended"
  /\ api' = [pc |-> "list", todo |-> {}, here |-> TRUE]
  /\ UNCHANGED <<board, crashes, loaded, resets, reviewed, known, saved, work, flag, mark>>

(* Served by another replica: there is no event and no task to cancel.     *)
CancelThere ==
  /\ "cancelThere" \in Events
  /\ api.pc = "idle"
  /\ phase \in Running \cup Resuming \cup {"crashed"}
  /\ Request("list", {})
  /\ UNCHANGED <<board, exec, saved, work, signals>>

(* Claimed tasks are neither pending nor in progress.                      *)
CancelList ==
  /\ api.pc = "list"
  /\ \/ Request("fail", WithStatus({"pending", "in_progress"}))
     \/ BoardRaises /\ Request("fail", {})
  /\ UNCHANGED <<board, exec, saved, work, signals>>

CancelFail(t) ==
  /\ api.pc = "fail"
  /\ t \in api.todo
  /\ \/ UpdateTask(t, "failed") /\ Request("fail", api.todo \ {t})
     \/ BoardRaises /\ Request("fail", {}) /\ UNCHANGED board
  /\ UNCHANGED <<exec, saved, work, signals>>

CancelStatus ==
  /\ api.pc = "fail"
  /\ api.todo = {}
  /\ flag' = TRUE
  /\ Request("delete", {})
  /\ UNCHANGED <<board, exec, saved, work, evt, mark>>

(* The delete is left to the run that ends. *)
BugCancelDelete ==
  /\ api.pc = "delete"
  /\ Request("mark", {})
  /\ UNCHANGED <<board, exec, saved, work, signals>>

CancelDelete ==
  /\ api.pc = "delete"
  /\ saved' = "none"
  /\ Request("mark", {})
  /\ UNCHANGED <<board, exec, work, signals>>

CancelMark ==
  /\ api.pc = "mark"
  /\ mark' = TRUE
  /\ Request("done", {})
  /\ UNCHANGED <<board, exec, saved, work, evt, flag>>

CancelStep ==
  \/ CancelList \/ (\E t \in Task : CancelFail(t))
  \/ CancelStatus \/ CancelDelete \/ CancelMark

-----------------------------------------------------------------------------
Next ==
  \/ Start \/ (\E t \in Task : PlannerCreates(t)) \/ ExecutorStep \/ ExecutorRaises
  \/ \E w \in Worker : WorkerStep(w) \/ WorkerRaises(w)
  \/ \E w \in Worker, t \in Task :
       TaskStep(w, t) \/ AgentCreates(w, t) \/ AgentSets(w, t) \/ AgentRaises(w, t)
  \/ Crash \/ ResumeStep
  \/ CancelHere \/ CancelThere \/ CancelStep

(* Agents stop after max_turns, the event loop runs every coroutine that   *)
(* is ready, and the orphan scan of some replica finds the checkpoint of a *)
(* run whose process died.                                                 *)
Fairness ==
  /\ WF_vars(ExecutorStep) /\ WF_vars(ResumeStep) /\ WF_vars(CancelStep)
  /\ \A w \in Worker : WF_vars(WorkerStep(w))
  /\ \A w \in Worker, t \in Task : WF_vars(TaskStep(w, t))

Spec == Init /\ [][Next]_vars

FairSpec == Spec /\ Fairness

-----------------------------------------------------------------------------
(* Properties.                                                             *)

(* Whatever fails, is cancelled or crashes, and whatever the agents do to  *)
(* the board: a sub-task works on a task that was claimed for its worker,  *)
(* so no task is ever executed by two workers at once.                     *)
ExclusiveWork ==
  \A w \in Worker, t \in Task :
    spc[w][t] # "idle" => board[t].assigned = w

(* Once the run is cancelled, what is claimed and not started stays so.    *)
InWork(w, t) == spc[w][t] # "idle" /\ (evt => spc[w][t] # "held")

(* A task is worked on only when the tasks it depends on are done, so that *)
(* _gather_upstream_context finds their results.                           *)
WorkFollowsDependencies ==
  \A w \in Worker, t \in Task : InWork(w, t) => board[t].deps \subseteq DoneTasks

(* The synthesizer is called when nothing is left to do: every task is     *)
(* done or failed and no agent is still at work (docs/concepts/teams.md,   *)
(* "reads all completed task results").                                    *)
SynthesisSeesEverything ==
  phase = "synthesis" =>
    /\ WithStatus(Incomplete) = {}
    /\ \A w \in Worker, t \in Task : spc[w][t] = "idle"

(* A run that was started comes to an end.                                 *)
RunEnds == phase = "planning" ~> phase = "ended"

(* After a cancel request was answered the run and its agents stop.        *)
CancelledRunStops ==
  api.pc = "done" ~> /\ phase \in {"ended", "crashed"}
                     /\ saved = "none"
                     /\ \A w \in Worker, t \in Task : spc[w][t] = "idle"

(* checkpoint resume (team_runner.py:445): a task that was being worked on *)
(* when the process died can be claimed again.  A task that is claimed is  *)
(* in the hands of a worker, unless nobody executes the run.               *)
ClaimedTasksAreHeld ==
  phase = "execution" =>
    \A t \in WithStatus({"claimed"}) : \E w \in Worker : spc[w][t] # "idle"

(* The work queue the board and its workers implement.                     *)
QueueState(t) ==
  CASE board[t].status = "none" -> "none"
    [] board[t].status = "pending" -> "todo"
    [] board[t].status \in {"claimed", "in_progress"} -> "doing"
    [] board[t].status \in {"done", "failed"} -> board[t].status

Queue == INSTANCE WorkQueue WITH
  state <- [t \in Task |-> QueueState(t)],
  holder <- [t \in Task |-> IF QueueState(t) = "doing" THEN board[t].assigned ELSE Nobody],
  closed <- phase \in {"synthesis", "ended"}

QueueIsKept == Queue!Spec
=============================================================================
