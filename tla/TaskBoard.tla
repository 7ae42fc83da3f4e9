------------------------------ MODULE TaskBoard ------------------------------
(***************************************************************************)
(* The task board of a team run: primitives/tasks/in_memory.py (an asyncio *)
(* lock) and primitives/tasks/redis.py (Lua scripts).  In both every       *)
(* operation is atomic and works on one task; claim is a compare-and-set,  *)
(* update is not: the last writer wins.                                    *)
(***************************************************************************)
EXTENDS Naturals

CONSTANTS
  Task,      \* the ids the board may come to hold (the bound on tasks)
  Worker,    \* the agents whose loops run: workers[:max_concurrent]
  Absent,    \* an agent name whose loop does not run
  Ghost,     \* a task id that names no task
  Nobody     \* no assignee, no suggestion

ASSUME NobodyAssumption ==
  /\ Nobody \notin Worker \cup {Absent}
  /\ Absent \notin Worker
  /\ Ghost \notin Task

VARIABLE board

(* "none" is a task that was not created.                                  *)
Incomplete == {"pending", "claimed", "in_progress"}
Status == Incomplete \cup {"none", "done", "failed"}

Entry == [status: Status, deps: SUBSET (Task \cup {Ghost}),
          suggested: Worker \cup {Absent, Nobody}, assigned: Worker \cup {Nobody}]

NoEntry == [status |-> "none", deps |-> {}, suggested |-> Nobody, assigned |-> Nobody]

BoardInit == board = [t \in Task |-> NoEntry]

Created == {t \in Task : board[t].status # "none"}

DoneTasks == {t \in Task : board[t].status = "done"}

WithStatus(S) == {t \in Task : board[t].status \in S}

(* A dependency that has failed is no obstacle. *)
BugReady(t) ==
  /\ board[t].status = "pending"
  /\ \A d \in board[t].deps \ {Ghost} : board[d].status \in {"done", "failed"}

(* Pending, with every dependency on the board and done.                   *)
Ready(t) ==
  /\ board[t].status = "pending"
  /\ board[t].deps \subseteq DoneTasks

(* get_available: the worker's own tasks and those suggested to nobody.    *)
Available(w) == {t \in Task : Ready(t) /\ board[t].suggested \in {w, Nobody}}

(* The ids in depends_on come from the model and are not validated.        *)
CreateTask(t, deps, name) ==
  /\ board[t].status = "none"
  /\ board' = [board EXCEPT ![t] = [status |-> "pending", deps |-> deps,
                                    suggested |-> name, assigned |-> Nobody]]

(* The claim does not look at the status. *)
BugClaimTask(t, w) ==
  board' = [board EXCEPT ![t].status = "claimed", ![t].assigned = w]

ClaimTask(t, w) ==
  /\ Ready(t)
  /\ board' = [board EXCEPT ![t].status = "claimed", ![t].assigned = w]

UpdateTask(t, s) == board' = [board EXCEPT ![t].status = s]
=============================================================================
