------------------------ MODULE TeamExecutionProofs ------------------------
(***************************************************************************)
(* Theorems about TeamExecution, for every number of tasks, workers and    *)
(* crashes and every set of events.                                        *)
(***************************************************************************)
EXTENDS TeamExecution, TLAPS

-----------------------------------------------------------------------------
(* The operations of the board.                                            *)

LEMMA UpdateEffect ==
  ASSUME TypeOK, NEW t \in Task, NEW s \in Status, UpdateTask(t, s)
  PROVE  /\ board' \in [Task -> Entry]
         /\ board'[t].status = s
         /\ board'[t].deps = board[t].deps
         /\ board'[t].assigned = board[t].assigned
         /\ \A u \in Task : u # t => board'[u] = board[u]
<1>1. board' = [board EXCEPT ![t].status = s] /\ board \in [Task -> Entry]
  BY DEF UpdateTask, TypeOK
<1>2. board[t] \in Entry
  BY <1>1
<1> DEFINE new == [status |-> s, deps |-> board[t].deps,
                   suggested |-> board[t].suggested, assigned |-> board[t].assigned]
<1>3. new \in Entry
  BY <1>2 DEF Entry
<1>4. board'[t] = new
  BY <1>1, <1>2 DEF Entry
<1>5. \A u \in Task : u # t => board'[u] = board[u]
  BY <1>1
<1>6. board' \in [Task -> Entry]
  BY <1>1, <1>3, <1>4, <1>5
<1> QED
  BY <1>4, <1>5, <1>6

LEMMA ClaimEffect ==
  ASSUME TypeOK, NEW t \in Task, NEW w \in Worker, ClaimTask(t, w)
  PROVE  /\ board' \in [Task -> Entry]
         /\ board[t].status = "pending"
         /\ board[t].deps \subseteq DoneTasks
         /\ board'[t].status = "claimed"
         /\ board'[t].deps = board[t].deps
         /\ board'[t].assigned = w
         /\ \A u \in Task : u # t => board'[u] = board[u]
<1>1. Ready(t)
      /\ board' = [board EXCEPT ![t].status = "claimed", ![t].assigned = w]
      /\ board \in [Task -> Entry]
  BY DEF ClaimTask, TypeOK
<1>2. board[t] \in Entry
  BY <1>1
<1> DEFINE new == [status |-> "claimed", deps |-> board[t].deps,
                   suggested |-> board[t].suggested, assigned |-> w]
<1>3. new \in Entry
  BY <1>2 DEF Entry, Status, Incomplete
<1>4. board'[t] = new
  BY <1>1, <1>2 DEF Entry
<1>5. \A u \in Task : u # t => board'[u] = board[u]
  BY <1>1
<1>6. board' \in [Task -> Entry]
  BY <1>1, <1>3, <1>4, <1>5
<1> QED
  BY <1>1, <1>4, <1>5, <1>6 DEF Ready

LEMMA CreateEffect ==
  ASSUME TypeOK, NEW t \in Task, ToolCreate(t)
  PROVE  /\ board' \in [Task -> Entry]
         /\ board[t].status = "none"
         /\ board'[t].status = "pending"
         /\ board'[t].assigned = Nobody
         /\ \A u \in Task : u # t => board'[u] = board[u]
<1>1. PICK deps \in SUBSET (Task \cup {Ghost}), name \in Worker \cup {Absent, Nobody} :
        CreateTask(t, deps, name)
  BY DEF ToolCreate, Created
<1> DEFINE new == [status |-> "pending", deps |-> deps,
                   suggested |-> name, assigned |-> Nobody]
<1>2. new \in Entry
  BY DEF Entry, Status, Incomplete
<1>3. board' = [board EXCEPT ![t] = new] /\ board[t].status = "none"
  BY <1>1 DEF CreateTask
<1> QED
  BY <1>2, <1>3 DEF TypeOK

LEMMA ToolStatusEffect ==
  ASSUME TypeOK, NEW t \in Task, ToolStatus(t)
  PROVE  /\ board' \in [Task -> Entry]
         /\ board[t].status # "none"
         /\ board'[t].status \in {"done", "failed"}
         /\ board'[t].assigned = board[t].assigned
         /\ \A u \in Task : u # t => board'[u] = board[u]
<1>1. PICK s \in {"done", "failed"} : UpdateTask(t, s)
  BY DEF ToolStatus
<1>2. s \in Status
  BY DEF Status
<1> QED
  BY <1>1, <1>2, UpdateEffect DEF ToolStatus, Created

LEMMA StepEffect ==
  ASSUME TypeOK, NEW w \in Worker, NEW t \in Task,
         NEW pc \in {"idle", "held"} \cup Live, Step(w, t, pc)
  PROVE  /\ spc' \in [Worker -> [Task -> {"idle", "held"} \cup Live]]
         /\ spc'[w][t] = pc
         /\ \A v \in Worker, u \in Task : v # w \/ u # t => spc'[v][u] = spc[v][u]
  BY DEF TypeOK, Step

LEMMA MoveEffect ==
  ASSUME TypeOK, NEW w \in Worker,
         NEW pc \in {"out", "check", "look", "poll", "claim", "execute"}, Move(w, pc)
  PROVE  wpc' \in [Worker -> {"out", "check", "look", "poll", "claim", "execute"}]
  BY DEF TypeOK, Move

(* What a claim does to the sub-tasks of the worker: those it holds and    *)
(* the new one are held or started, or all are gone.                       *)
LEMMA ClaimStarts ==
  ASSUME TypeOK, NEW w \in Worker, NEW t \in Task, WorkerClaim(w, t)
  PROVE  /\ wpc' \in [Worker -> {"out", "check", "look", "poll", "claim", "execute"}]
         /\ spc' \in [Worker -> [Task -> {"idle", "held"} \cup Live]]
         /\ \A v \in Worker, u \in Task :
              spc'[v][u] # "idle" /\ v # w => spc'[v][u] = spc[v][u]
         /\ \A u \in Task :
              spc'[w][u] # "idle" =>
                /\ spc'[w][u] \in {"held", "start"}
                /\ \/ spc[w][u] = "held"
                   \/ u = t /\ Ready(t)
<1> DEFINE held == IF Ready(t) THEN Held(w) \cup {t} ELSE Held(w)
<1>1. held \subseteq Task /\ \A u \in held : spc[w][u] = "held" \/ (u = t /\ Ready(t))
  BY DEF Held
<1>2. IF todo[w] = {t}
      THEN AfterClaims(w, held)
      ELSE /\ spc' = [spc EXCEPT ![w] = [u \in Task |-> IF u \in held THEN "held" ELSE "idle"]]
           /\ UNCHANGED wpc
  BY DEF WorkerClaim
<1> HIDE DEF held
<1>3. CASE todo[w] = {t}
  <2>1. AfterClaims(w, held)
    BY <1>2, <1>3
  <2>2. CASE held = {} \/ evt
    BY <2>1, <2>2, MoveEffect DEF AfterClaims, TypeOK, Idle, Live
  <2>3. CASE ~(held = {} \/ evt)
    BY <1>1, <2>1, <2>3, MoveEffect DEF AfterClaims, TypeOK, Live
  <2> QED
    BY <2>2, <2>3
<1>4. CASE todo[w] # {t}
  BY <1>1, <1>2, <1>4 DEF TypeOK, Live
<1> QED
  BY <1>3, <1>4

-----------------------------------------------------------------------------
(* Exclusive work.  A task goes back to "pending" only in the reset of a   *)
(* resume, when no sub-task of the run is left, and a claim takes nothing  *)
(* but pending tasks.                                                      *)

ResumeHasLoaded == phase \in Resuming => loaded \in Saved

Down == Resuming \cup {"new", "crashed"}

IdleWhileDown ==
  phase \in Down =>
    \A w \in Worker : wpc[w] = "out" /\ \A t \in Task : spc[w][t] = "idle"

WorkIsClaimed ==
  \A w \in Worker, t \in Task :
    spc[w][t] # "idle" =>
      /\ board[t].assigned = w
      /\ board[t].status \notin {"none", "pending"}

WorkInv == TypeOK /\ ResumeHasLoaded /\ IdleWhileDown /\ WorkIsClaimed

LEMMA WorkInit == Init => WorkInv
<1> SUFFICES ASSUME Init PROVE WorkInv
  OBVIOUS
<1>1. board \in [Task -> Entry]
  BY DEF Init, BoardInit, NoEntry, Entry, Status, Incomplete
<1>2. api \in [pc: {"idle", "list", "fail", "delete", "mark", "done"},
               todo: SUBSET Task, here: BOOLEAN]
  BY DEF Init, NoRequest
<1>3. spc \in [Worker -> [Task -> {"idle", "held"} \cup Live]]
  BY DEF Init, Idle
<1>4. crashes \in 0..MaxCrashes
  BY TeamAssumption DEF Init
<1>5. TypeOK
  BY <1>1, <1>2, <1>3, <1>4 DEF Init, TypeOK
<1>6. ResumeHasLoaded /\ IdleWhileDown /\ WorkIsClaimed
  BY DEF Init, ResumeHasLoaded, IdleWhileDown, WorkIsClaimed, Idle, Resuming
<1> QED
  BY <1>5, <1>6 DEF WorkInv

(* Steps that leave the board and the sub-tasks alone.                     *)
LEMMA QuietSteps ==
  ASSUME WorkInv, UNCHANGED <<board, spc>>, TypeOK', ResumeHasLoaded',
         phase' \in Down => phase \in Down /\ UNCHANGED wpc
  PROVE  WorkInv'
  BY DEF WorkInv, IdleWhileDown, WorkIsClaimed

(* Steps that change the board at one task, and if it is worked on neither *)
(* take it from its worker nor put it back.                                *)
LEMMA BoardSteps ==
  ASSUME WorkInv, TypeOK', UNCHANGED <<exec, wpc>>, NEW t \in Task,
         \A u \in Task : u # t => board'[u] = board[u],
         \A w \in Worker, u \in Task : spc'[w][u] # "idle" => spc[w][u] # "idle",
         \A w \in Worker : spc[w][t] # "idle" =>
            board'[t].assigned = board[t].assigned /\ board'[t].status \notin {"none", "pending"}
  PROVE  WorkInv'
<1>1. IdleWhileDown' /\ ResumeHasLoaded'
  BY DEF WorkInv, IdleWhileDown, ResumeHasLoaded, exec
<1>2. WorkIsClaimed'
  BY DEF WorkInv, WorkIsClaimed
<1> QED
  BY <1>1, <1>2 DEF WorkInv

LEMMA ExecutorKeepsWork ==
  ASSUME WorkInv, Start \/ ExecutorStep \/ ExecutorRaises
  PROVE  WorkInv'
<1> USE DEF WorkInv
<1>1. /\ UNCHANGED <<board, spc, crashes, loaded, resets, todo, signals, api>>
      /\ phase' \in Running \cup {"ended"}
      /\ phase' \notin Down
  BY DEF Start, ExecutorStep, ExecutorRaises, PlannerEnds, Review, ReplannerEnds,
         SynthesizerEnds, Running, Planning, Resuming, Down, work, signals
<1>2. saved' \in Saved \cup {"none"}
  BY DEF Start, ExecutorStep, ExecutorRaises, PlannerEnds, Review, ReplannerEnds,
         SynthesizerEnds, SaveTeam, Saved, TypeOK
<1>3. reviewed' \subseteq Task /\ known' \subseteq Task
  BY DEF Start, ExecutorStep, ExecutorRaises, PlannerEnds, Review, ReplannerEnds,
         SynthesizerEnds, TypeOK, DoneTasks, Created
<1>4. wpc' \in [Worker -> {"out", "check", "look", "poll", "claim", "execute"}]
  BY DEF Start, ExecutorStep, ExecutorRaises, PlannerEnds, Review, ReplannerEnds,
         SynthesizerEnds, SpawnWorkers, TypeOK, work
<1>5. TypeOK' /\ ResumeHasLoaded'
  BY <1>1, <1>2, <1>3, <1>4 DEF TypeOK, ResumeHasLoaded, signals, Down
<1> QED
  BY <1>1, <1>5, QuietSteps

LEMMA WorkersKeepWork ==
  ASSUME WorkInv, NEW w \in Worker, WorkerStep(w) \/ WorkerRaises(w)
  PROVE  WorkInv'
<1> USE DEF WorkInv
<1>0. wpc[w] # "out" => phase \notin Down
  BY DEF IdleWhileDown
<1>1. CASE WorkerCheck(w)
  <2>1. TypeOK'
    BY <1>1 DEF WorkerCheck, Move, TypeOK, exec
  <2> QED
    BY <1>0, <1>1, <2>1, QuietSteps DEF WorkerCheck, ResumeHasLoaded, exec
<1>2. CASE WorkerLook(w)
  <2>1. TypeOK'
    BY <1>2 DEF WorkerLook, Move, TypeOK, Available, exec, signals
  <2> QED
    BY <1>0, <1>2, <2>1, QuietSteps DEF WorkerLook, ResumeHasLoaded, exec
<1>3. CASE WorkerPoll(w)
  <2>1. TypeOK'
    BY <1>3 DEF WorkerPoll, Move, TypeOK, exec, signals
  <2> QED
    BY <1>0, <1>3, <2>1, QuietSteps DEF WorkerPoll, ResumeHasLoaded, exec
<1>4. ASSUME NEW t \in Task, WorkerClaim(w, t) PROVE WorkInv'
  <2>1. \/ /\ ClaimTask(t, w)
           /\ board' \in [Task -> Entry]
        \/ /\ ~Ready(t)
           /\ board' = board
    BY <1>4, ClaimEffect DEF WorkerClaim, TypeOK
  <2>2. todo' \in [Worker -> SUBSET Task]
    BY <1>4 DEF WorkerClaim, TypeOK
  <2>3. board' \in [Task -> Entry]
    BY <2>1 DEF TypeOK
  <2>4. TypeOK'
    <3>1. /\ wpc' \in [Worker -> {"out", "check", "look", "poll", "claim", "execute"}]
          /\ spc' \in [Worker -> [Task -> {"idle", "held"} \cup Live]]
      BY <1>4, ClaimStarts
    <3>2. UNCHANGED <<exec, saved, signals, api>>
      BY <1>4 DEF WorkerClaim
    <3> QED
      BY <2>2, <2>3, <3>1, <3>2 DEF TypeOK, exec, signals
  <2>5. ResumeHasLoaded' /\ IdleWhileDown'
    BY <1>0, <1>4 DEF WorkerClaim, ResumeHasLoaded, IdleWhileDown, exec
  <2>6. WorkIsClaimed'
    <3> SUFFICES ASSUME NEW v \in Worker, NEW u \in Task, spc'[v][u] # "idle"
                 PROVE  board'[u].assigned = v /\ board'[u].status \notin {"none", "pending"}
      BY DEF WorkIsClaimed
    <3>1. CASE v = w /\ u = t /\ Ready(t)
      BY <2>1, <3>1, ClaimEffect
    <3>2. CASE ~(v = w /\ u = t /\ Ready(t))
      <4>1. spc[v][u] # "idle"
        BY <1>4, <3>2, ClaimStarts
      <4>2. board[u].assigned = v /\ board[u].status \notin {"none", "pending"}
        BY <4>1 DEF WorkIsClaimed
      <4>3. board'[u] = board[u]
        BY <2>1, <4>2, ClaimEffect
      <4> QED
        BY <4>2, <4>3
    <3> QED
      BY <3>1, <3>2
  <2> QED
    BY <2>4, <2>5, <2>6
<1>5. ASSUME WorkerWatch(w) \/ WorkerGathers(w) \/ WorkerDropped(w) \/ WorkerRaises(w)
      PROVE  WorkInv'
  <2>1. /\ wpc[w] # "out"
        /\ wpc' \in [Worker -> {"out", "check", "look", "poll", "claim", "execute"}]
        /\ UNCHANGED <<board, exec, saved, flag, mark, api>>
        /\ evt' \in BOOLEAN
    BY <1>5, MoveEffect
    DEF WorkerWatch, WorkerGathers, WorkerDropped, WorkerRaises, TypeOK, signals
  <2>2. todo' \in [Worker -> SUBSET Task]
    BY <1>5 DEF WorkerWatch, WorkerGathers, WorkerDropped, WorkerRaises, TypeOK
  <2>3. /\ spc' \in [Worker -> [Task -> {"idle", "held"} \cup Live]]
        /\ \A v \in Worker, u \in Task : spc'[v][u] # "idle" => spc'[v][u] = spc[v][u]
    <3>1. CASE WorkerGathers(w)
      BY <3>1 DEF WorkerGathers, TypeOK
    <3>2. CASE WorkerWatch(w) \/ WorkerRaises(w)
      <4>1. spc' = [spc EXCEPT ![w] = Idle]
        BY <3>2 DEF WorkerWatch, WorkerRaises
      <4> QED
        BY <4>1 DEF Idle, TypeOK
    <3>3. CASE WorkerDropped(w)
      <4>1. spc' = [spc EXCEPT ![w] =
                      [t \in Task |-> IF spc[w][t] = "held" THEN "idle" ELSE spc[w][t]]]
        BY <3>3 DEF WorkerDropped
      <4> QED
        BY <4>1 DEF TypeOK
    <3> QED
      BY <1>5, <3>1, <3>2, <3>3
  <2>4. TypeOK'
    BY <2>1, <2>2, <2>3 DEF TypeOK, exec
  <2> QED
    BY <1>0, <2>1, <2>3, <2>4 DEF ResumeHasLoaded, IdleWhileDown, WorkIsClaimed, exec
<1> QED
  BY <1>1, <1>2, <1>3, <1>4, <1>5 DEF WorkerStep

LEMMA TasksKeepWork ==
  ASSUME WorkInv, NEW w \in Worker, NEW t \in Task,
         TaskStep(w, t) \/ AgentCreates(w, t) \/ AgentSets(w, t) \/ AgentRaises(w, t)
  PROVE  WorkInv'
<1> USE DEF WorkInv
<1>1. /\ UNCHANGED <<exec, saved, wpc, todo, signals, api>>
      /\ spc[w][t] # "idle"
      /\ phase \notin Down
  BY DEF TaskStep, TaskStart, AgentReturns, TaskReport, TaskBlame, AgentCreates, AgentSets,
         AgentRaises, work, IdleWhileDown
<1>2. ASSUME board' \in [Task -> Entry], spc' \in [Worker -> [Task -> {"idle", "held"} \cup Live]]
      PROVE  TypeOK'
  BY <1>1, <1>2 DEF TypeOK, exec, signals
<1>3. board[t].status \notin {"none", "pending"}
  BY <1>1 DEF WorkIsClaimed
<1>4. ASSUME NEW s \in {"in_progress", "done", "failed"}, NEW pc \in {"idle"} \cup Live,
             UpdateTask(t, s) \/ UNCHANGED board, Step(w, t, pc)
      PROVE  WorkInv'
  <2>1. s \in Status \ {"none", "pending"} /\ pc \in {"idle", "held"} \cup Live
    BY DEF Status, Incomplete, Live
  <2>2. /\ spc' \in [Worker -> [Task -> {"idle", "held"} \cup Live]]
        /\ \A v \in Worker, u \in Task : spc'[v][u] # "idle" => spc[v][u] # "idle"
    <3>1. pc \in {"idle", "held"} \cup Live /\ Step(w, t, pc)
      BY <1>4, <2>1
    <3>2. /\ spc' \in [Worker -> [Task -> {"idle", "held"} \cup Live]]
          /\ \A v \in Worker, u \in Task : v # w \/ u # t => spc'[v][u] = spc[v][u]
      BY <3>1, StepEffect
    <3> QED
      BY <1>1, <3>2
  <2>3. /\ board' \in [Task -> Entry]
        /\ board'[t].assigned = board[t].assigned
        /\ board'[t].status \notin {"none", "pending"}
        /\ \A u \in Task : u # t => board'[u] = board[u]
    <3>1. CASE UpdateTask(t, s)
      BY <2>1, <3>1, UpdateEffect
    <3>2. CASE UNCHANGED board
      BY <1>3, <3>2 DEF TypeOK
    <3> QED
      BY <1>4, <3>1, <3>2
  <2> QED
    BY <1>1, <1>2, <2>2, <2>3, BoardSteps
<1>5. CASE TaskStart(w, t)
  <2>1. PICK pc \in {"run", "blame"} : Step(w, t, pc)
    BY <1>5 DEF TaskStart
  <2> QED
    BY <1>4, <1>5, <2>1 DEF TaskStart, Live
<1>6. CASE AgentReturns(w, t) \/ AgentRaises(w, t)
  <2>1. PICK pc \in {"report", "blame"} : Step(w, t, pc)
    BY <1>6 DEF AgentReturns, AgentRaises
  <2> QED
    BY <1>4, <1>6, <2>1 DEF AgentReturns, AgentRaises, Live
<1>7. CASE TaskReport(w, t)
  <2>1. PICK pc \in {"idle", "blame"} : Step(w, t, pc)
    BY <1>7 DEF TaskReport
  <2> QED
    BY <1>4, <1>7, <2>1 DEF TaskReport, Live
<1>8. CASE TaskBlame(w, t)
  BY <1>4, <1>8 DEF TaskBlame
<1>9. CASE AgentCreates(w, t)
  <2>1. PICK u \in Task : ToolCreate(u)
    BY <1>9 DEF AgentCreates
  <2>2. UNCHANGED spc
    BY <1>9 DEF AgentCreates, work
  <2>3. \A v \in Worker : spc[v][u] = "idle"
    BY <2>1, CreateEffect DEF WorkIsClaimed
  <2>4. TypeOK'
    BY <1>2, <2>1, <2>2, CreateEffect DEF TypeOK
  <2> QED
    BY <1>1, <2>1, <2>2, <2>3, <2>4, CreateEffect, BoardSteps
<1>10. CASE AgentSets(w, t)
  <2>1. PICK u \in Task : ToolStatus(u)
    BY <1>10 DEF AgentSets
  <2>2. UNCHANGED spc
    BY <1>10 DEF AgentSets, work
  <2>3. TypeOK'
    BY <1>2, <2>1, <2>2, ToolStatusEffect DEF TypeOK
  <2> QED
    BY <1>1, <2>1, <2>2, <2>3, ToolStatusEffect, BoardSteps
<1> QED
  BY <1>5, <1>6, <1>7, <1>8, <1>9, <1>10 DEF TaskStep

LEMMA PlannerKeepsWork ==
  ASSUME WorkInv, NEW t \in Task, PlannerCreates(t)
  PROVE  WorkInv'
<1> USE DEF WorkInv
<1>1. ToolCreate(t) /\ UNCHANGED <<exec, saved, work, signals, api>>
  BY DEF PlannerCreates
<1>2. TypeOK'
  <2>1. board' \in [Task -> Entry]
    BY <1>1, CreateEffect
  <2> QED
    BY <1>1, <2>1 DEF TypeOK, exec, work, signals
<1>3. \A v \in Worker : spc[v][t] = "idle"
  BY <1>1, CreateEffect DEF WorkIsClaimed
<1>4. UNCHANGED <<spc, wpc>>
  BY <1>1 DEF work
<1> QED
  BY <1>1, <1>2, <1>3, <1>4, CreateEffect, BoardSteps

LEMMA CrashKeepsWork ==
  ASSUME WorkInv, Crash
  PROVE  WorkInv'
<1> USE DEF WorkInv
<1>1. spc' = [w \in Worker |-> Idle] /\ wpc' = [w \in Worker |-> "out"]
  BY DEF Crash
<1>2. crashes' \in 0..MaxCrashes
  BY TeamAssumption DEF Crash, TypeOK
<1>3. api' \in [pc: {"idle", "list", "fail", "delete", "mark", "done"},
                todo: SUBSET Task, here: BOOLEAN]
  BY DEF Crash, TypeOK, NoRequest
<1>4. /\ spc' \in [Worker -> [Task -> {"idle", "held"} \cup Live]]
      /\ wpc' \in [Worker -> {"out", "check", "look", "poll", "claim", "execute"}]
      /\ todo' \in [Worker -> SUBSET Task]
  BY <1>1 DEF Idle, Crash
<1>5. TypeOK'
  BY <1>2, <1>3, <1>4 DEF Crash, TypeOK
<1>6. \A w \in Worker : wpc'[w] = "out" /\ \A t \in Task : spc'[w][t] = "idle"
  BY <1>1 DEF Idle
<1>7. phase' = "crashed"
  BY DEF Crash
<1> QED
  BY <1>5, <1>6, <1>7 DEF ResumeHasLoaded, IdleWhileDown, WorkIsClaimed, Resuming

LEMMA ResumeKeepsWork ==
  ASSUME WorkInv, ResumeStep
  PROVE  WorkInv'
<1> USE DEF WorkInv
<1>1. CASE ResumeLoad \/ ResumeClaim \/ ResumeAnnounce \/ ResumeList
  <2>1. /\ UNCHANGED <<board, spc, wpc, todo, crashes, reviewed, known, evt, mark, api>>
        /\ phase \in Down
        /\ phase' \in Resuming
    BY <1>1 DEF ResumeLoad, ResumeClaim, ResumeAnnounce, ResumeList, Down, Resuming, work, signals
  <2>2. loaded' \in Saved
    BY <1>1 DEF ResumeLoad, ResumeClaim, ResumeAnnounce, ResumeList, ResumeHasLoaded, TypeOK,
                Resuming
  <2>3. saved' \in Saved \cup {"none"}
    BY <1>1, <2>2 DEF ResumeLoad, ResumeClaim, ResumeAnnounce, ResumeList, SaveTeam, TypeOK
  <2>4. resets' \subseteq Task /\ flag' \in BOOLEAN
    BY <1>1 DEF ResumeLoad, ResumeClaim, ResumeAnnounce, ResumeList, TypeOK, WithStatus, signals
  <2>5. TypeOK'
    BY <2>1, <2>2, <2>3, <2>4 DEF TypeOK
  <2>6. ResumeHasLoaded'
    BY <2>2 DEF ResumeHasLoaded
  <2> QED
    BY <2>1, <2>5, <2>6, QuietSteps
<1>2. ASSUME NEW t \in Task, ResumeReset(t) PROVE WorkInv'
  <2>1. /\ UNCHANGED <<phase, crashes, loaded, reviewed, known, saved, work, signals, api>>
        /\ phase = "reset"
        /\ resets' \subseteq Task
    BY <1>2 DEF ResumeReset, TypeOK
  <2>2. board' \in [Task -> Entry]
    <3>1. "pending" \in Status
      BY DEF Status, Incomplete
    <3> QED
      BY <1>2, <3>1, UpdateEffect DEF ResumeReset, TypeOK
  <2>3. TypeOK'
    BY <2>1, <2>2 DEF TypeOK, work, signals
  <2>4. \A v \in Worker : wpc[v] = "out" /\ \A u \in Task : spc[v][u] = "idle"
    BY <2>1 DEF IdleWhileDown, Down, Resuming
  <2> QED
    BY <2>1, <2>3, <2>4 DEF ResumeHasLoaded, IdleWhileDown, WorkIsClaimed, work
<1>3. CASE ResumePhase
  <2>1. /\ UNCHANGED <<board, crashes, loaded, resets, reviewed, known, todo, spc, signals, api>>
        /\ loaded \in Saved
        /\ phase' = loaded
        /\ saved' \in Saved \cup {"none"}
    BY <1>3 DEF ResumePhase, ResumeHasLoaded, Resuming, TypeOK
  <2>2. wpc' \in [Worker -> {"out", "check", "look", "poll", "claim", "execute"}]
    BY <1>3 DEF ResumePhase, SpawnWorkers, TypeOK
  <2>3. phase' \in Running /\ phase' \notin Down
    BY <2>1 DEF Saved, Running, Planning, Down, Resuming
  <2>4. TypeOK'
    BY <2>1, <2>2, <2>3 DEF TypeOK, signals
  <2>5. ResumeHasLoaded'
    BY <2>3 DEF ResumeHasLoaded, Down
  <2> QED
    BY <2>1, <2>3, <2>4, <2>5, QuietSteps
<1> QED
  BY <1>1, <1>2, <1>3 DEF ResumeStep

LEMMA RequestEffect ==
  ASSUME TypeOK, NEW pc \in {"idle", "list", "fail", "delete", "mark", "done"},
         NEW tasks \in SUBSET Task, Request(pc, tasks)
  PROVE  api' \in [pc: {"idle", "list", "fail", "delete", "mark", "done"},
                   todo: SUBSET Task, here: BOOLEAN]
  BY DEF TypeOK, Request

LEMMA CancelKeepsWork ==
  ASSUME WorkInv, CancelHere \/ CancelThere \/ CancelStep
  PROVE  WorkInv'
<1> USE DEF WorkInv
<1>1. CASE CancelHere
  <2>1. TypeOK'
    BY <1>1 DEF CancelHere, TypeOK, work
  <2>2. phase' \notin Down
    BY <1>1 DEF CancelHere, Down, Resuming
  <2> QED
    BY <1>1, <2>1, <2>2, QuietSteps DEF CancelHere, ResumeHasLoaded, Down, work
<1>2. CASE CancelThere \/ CancelList \/ CancelStatus \/ CancelDelete \/ CancelMark
  <2>1. /\ UNCHANGED <<board, exec, work, evt>>
        /\ flag' \in BOOLEAN /\ mark' \in BOOLEAN
        /\ saved' \in Saved \cup {"none"}
    BY <1>2 DEF CancelThere, CancelList, CancelStatus, CancelDelete, CancelMark, TypeOK, signals
  <2>2. \E pc \in {"list", "fail", "delete", "mark", "done"}, tasks \in SUBSET Task :
          Request(pc, tasks)
    BY <1>2 DEF CancelThere, CancelList, CancelStatus, CancelDelete, CancelMark, WithStatus
  <2>3. TypeOK'
    BY <2>1, <2>2, RequestEffect DEF TypeOK, exec, work
  <2> QED
    BY <2>1, <2>3, QuietSteps DEF ResumeHasLoaded, exec, work
<1>3. ASSUME NEW t \in Task, CancelFail(t) PROVE WorkInv'
  <2>1. UNCHANGED <<exec, saved, work, signals>>
    BY <1>3 DEF CancelFail
  <2>2. "failed" \in Status
    BY DEF Status
  <2>3. api' \in [pc: {"idle", "list", "fail", "delete", "mark", "done"},
                  todo: SUBSET Task, here: BOOLEAN]
    BY <1>3 DEF CancelFail, Request, TypeOK
  <2>4. /\ board' \in [Task -> Entry]
        /\ \A u \in Task : u # t => board'[u] = board[u]
        /\ \A v \in Worker : spc[v][t] # "idle" =>
             board'[t].assigned = board[t].assigned /\ board'[t].status \notin {"none", "pending"}
    <3>1. CASE UpdateTask(t, "failed")
      BY <2>2, <3>1, UpdateEffect
    <3>2. CASE UNCHANGED board
      BY <3>2 DEF TypeOK, WorkIsClaimed
    <3> QED
      BY <1>3, <3>1, <3>2 DEF CancelFail
  <2>5. TypeOK'
    BY <2>1, <2>3, <2>4 DEF TypeOK, exec, work, signals
  <2> QED
    BY <2>1, <2>4, <2>5, BoardSteps DEF work
<1> QED
  BY <1>1, <1>2, <1>3 DEF CancelStep

LEMMA StutterKeepsWork ==
  ASSUME WorkInv, UNCHANGED vars
  PROVE  WorkInv'
  BY DEF WorkInv, vars, exec, work, signals, TypeOK, ResumeHasLoaded, IdleWhileDown, WorkIsClaimed

LEMMA WorkStep ==
  ASSUME WorkInv, [Next]_vars
  PROVE  WorkInv'
<1>1. CASE Start \/ ExecutorStep \/ ExecutorRaises
  BY <1>1, ExecutorKeepsWork
<1>2. CASE \E t \in Task : PlannerCreates(t)
  BY <1>2, PlannerKeepsWork
<1>3. CASE \E w \in Worker : WorkerStep(w) \/ WorkerRaises(w)
  BY <1>3, WorkersKeepWork
<1>4. CASE \E w \in Worker, t \in Task :
             TaskStep(w, t) \/ AgentCreates(w, t) \/ AgentSets(w, t) \/ AgentRaises(w, t)
  BY <1>4, TasksKeepWork
<1>5. CASE Crash
  BY <1>5, CrashKeepsWork
<1>6. CASE ResumeStep
  BY <1>6, ResumeKeepsWork
<1>7. CASE CancelHere \/ CancelThere \/ CancelStep
  BY <1>7, CancelKeepsWork
<1>8. CASE UNCHANGED vars
  BY <1>8, StutterKeepsWork
<1> QED
  BY <1>1, <1>2, <1>3, <1>4, <1>5, <1>6, <1>7, <1>8 DEF Next

(* The strengthening of ExclusiveWork is an invariant: no claim, update,   *)
(* crash or resume lets two sub-tasks of different workers have one task.  *)
THEOREM WorkInvariant == Spec => []WorkInv
BY WorkInit, WorkStep, PTL DEF Spec

(* The variables of a team run keep their types, whatever the agents, the  *)
(* user and the processes do.                                              *)
THEOREM TeamTypeCorrect == Spec => []TypeOK
<1>1. WorkInv => TypeOK
  BY DEF WorkInv
<1> QED
  BY <1>1, WorkInvariant, PTL

(* However many workers and tasks there are, and with every failure, tool, *)
(* cancel request and crash allowed: a sub-task works on a task that was   *)
(* claimed for its worker.                                                 *)
THEOREM WorkIsExclusive == Spec => []ExclusiveWork
<1>1. WorkInv => ExclusiveWork
  BY DEF WorkInv, WorkIsClaimed, ExclusiveWork
<1> QED
  BY <1>1, WorkInvariant, PTL

-----------------------------------------------------------------------------
(* Cancelling.  A request through the executing replica ends the executor  *)
(* at once; what is left of the request then meets no resume, unless the   *)
(* process dies, which takes the request with it.  A request through       *)
(* another replica is not bound to the run's life.                         *)

NoRemoteCancel == "cancelThere" \notin Events

RequestFollows ==
  /\ api.pc # "idle" => evt /\ api.here
  /\ api.pc = "idle" => api.todo = {}
  /\ api.pc \in {"mark", "done"} => saved = "none"
  /\ evt => phase = "ended"
  /\ flag => evt \/ phase \in {"crashed", "claim", "announce"}

ResetsAreOpen ==
  /\ resets # {} => phase \in {"reset", "ended"}
  /\ phase = "reset" => \A t \in resets : board[t].status = "in_progress"

StopInv == WorkInv /\ RequestFollows /\ ResetsAreOpen

(* The loops that are left find the cancel event as they left it.          *)
LEMMA WorkerSignals ==
  ASSUME StopInv, NEW w \in Worker, WorkerStep(w) \/ WorkerRaises(w)
  PROVE  UNCHANGED <<exec, saved, signals, api>> /\ phase \notin Down
<1>1. /\ UNCHANGED <<exec, saved, flag, mark, api>> /\ wpc[w] # "out"
      /\ evt' = evt \/ evt' = (evt \/ flag) \/ (evt' /\ (flag \/ evt))
  BY DEF WorkerStep, WorkerRaises, WorkerCheck, WorkerLook, WorkerPoll, WorkerClaim,
         WorkerWatch, WorkerGathers, WorkerDropped, signals
<1>2. phase \notin Down
  BY <1>1 DEF StopInv, WorkInv, IdleWhileDown
<1>3. flag => evt
  BY <1>2 DEF StopInv, RequestFollows, Down, Resuming
<1>4. evt \in BOOLEAN /\ flag \in BOOLEAN
  BY DEF StopInv, WorkInv, TypeOK
<1>5. CASE evt
  <2>1. evt = TRUE /\ evt' = TRUE
    BY <1>1, <1>4, <1>5, Zenon
  <2> QED
    BY <1>1, <1>2, <2>1 DEF signals
<1>6. CASE ~evt
  <2>1. evt = FALSE /\ flag = FALSE
    BY <1>3, <1>4, <1>6
  <2>2. evt' = FALSE
    BY <1>1, <2>1
  <2> QED
    BY <1>1, <1>2, <2>1, <2>2 DEF signals
<1> QED
  BY <1>5, <1>6

LEMMA RequestMoves ==
  ASSUME TypeOK, NEW pc, NEW tasks, Request(pc, tasks)
  PROVE  api'.pc = pc /\ api'.todo = tasks /\ api'.here = api.here
BY DEF TypeOK, Request

LEMMA StopInit == Init => StopInv
<1> SUFFICES ASSUME Init PROVE StopInv
  OBVIOUS
<1>1. RequestFollows /\ ResetsAreOpen
  BY DEF Init, NoRequest, RequestFollows, ResetsAreOpen
<1> QED
  BY <1>1, WorkInit DEF StopInv

LEMMA StopStep ==
  ASSUME StopInv, NoRemoteCancel, [Next]_vars
  PROVE  StopInv'
<1> USE DEF StopInv, RequestFollows, ResetsAreOpen
<1>0. TypeOK /\ WorkInv'
  BY WorkStep DEF WorkInv
<1>1. CASE Start \/ ExecutorStep \/ ExecutorRaises
  <2>1. /\ UNCHANGED <<board, resets, signals, api>>
        /\ phase \in Running \cup {"new"} /\ phase' \in Running \cup {"ended"}
    BY <1>1 DEF Start, ExecutorStep, ExecutorRaises, PlannerEnds, Review, ReplannerEnds,
                SynthesizerEnds, Planning, Running
  <2>2. ~evt /\ ~flag /\ api.pc = "idle" /\ resets = {}
    BY <2>1 DEF Running, Planning
  <2> QED
    BY <1>0, <2>1, <2>2 DEF signals
<1>2. ASSUME NEW t \in Task, PlannerCreates(t) PROVE StopInv'
  <2>1. UNCHANGED <<exec, saved, signals, api>> /\ phase # "reset"
    BY <1>2 DEF PlannerCreates, Planning
  <2> QED
    BY <1>0, <2>1 DEF exec, signals
<1>3. ASSUME NEW w \in Worker, WorkerStep(w) \/ WorkerRaises(w) PROVE StopInv'
  <2>1. UNCHANGED <<exec, saved, signals, api>> /\ phase \notin Down
    BY <1>3, WorkerSignals
  <2> QED
    BY <1>0, <2>1 DEF exec, signals, Down, Resuming
<1>4. ASSUME NEW w \in Worker, NEW t \in Task,
             TaskStep(w, t) \/ AgentCreates(w, t) \/ AgentSets(w, t) \/ AgentRaises(w, t)
      PROVE  StopInv'
  <2>1. UNCHANGED <<exec, saved, signals, api>> /\ spc[w][t] # "idle"
    BY <1>4 DEF TaskStep, TaskStart, AgentReturns, TaskReport, TaskBlame, AgentCreates,
                AgentSets, AgentRaises
  <2>2. phase # "reset"
    BY <2>1 DEF WorkInv, IdleWhileDown, Down, Resuming
  <2> QED
    BY <1>0, <2>1, <2>2 DEF exec, signals
<1>5. CASE Crash
  <2>1. api.pc # "idle" => api.here /\ api.pc # "done"
    BY <1>5 DEF Crash, Running, Planning, Resuming
  <2>2. phase' = "crashed" /\ ~evt' /\ resets' = {} /\ api'.pc = "idle" /\ api'.todo = {}
    BY <1>5, <2>1 DEF Crash, NoRequest
  <2> QED
    BY <1>0, <2>2
<1>6. CASE ResumeStep
  <2>1. phase \in Down /\ phase # "new" /\ UNCHANGED <<api, evt>> /\ ~evt /\ api.pc = "idle"
    BY <1>6 DEF ResumeStep, ResumeLoad, ResumeClaim, ResumeAnnounce, ResumeList, ResumeReset,
                ResumePhase, signals, Down, Resuming
  <2>2. CASE ResumeLoad \/ ResumeClaim \/ ResumeAnnounce \/ ResumePhase
    <3>1. resets = {} /\ resets' = {}
      BY <2>2 DEF ResumeLoad, ResumeClaim, ResumeAnnounce, ResumePhase
    <3>2. flag' => phase' \in {"crashed", "claim", "announce"}
      BY <2>1, <2>2 DEF ResumeLoad, ResumeClaim, ResumeAnnounce, ResumePhase, signals
    <3> QED
      BY <1>0, <2>1, <3>1, <3>2
  <2>3. CASE ResumeList
    <3>1. ~flag' /\ phase' = "reset"
      BY <2>1, <2>3 DEF ResumeList, signals
    <3>2. \A t \in resets' : board'[t].status = "in_progress"
      BY <2>1, <2>3 DEF ResumeList, WithStatus
    <3> QED
      BY <1>0, <2>1, <3>1, <3>2
  <2>4. ASSUME NEW t \in Task, ResumeReset(t) PROVE StopInv'
    <3>1. /\ phase = "reset" /\ phase' = "reset" /\ UNCHANGED signals
          /\ \/ UpdateTask(t, "pending") /\ resets' = resets \ {t}
             \/ UNCHANGED board /\ resets' = {}
      BY <2>4 DEF ResumeReset
    <3>2. \A u \in resets' : board'[u].status = "in_progress"
      BY <1>0, <3>1, UpdateEffect DEF Status, Incomplete, TypeOK
    <3> QED
      BY <1>0, <2>1, <3>1, <3>2 DEF signals
  <2> QED
    BY <1>6, <2>2, <2>3, <2>4 DEF ResumeStep
<1>7. CASE CancelHere
  BY <1>0, <1>7 DEF CancelHere
<1>8. CASE CancelStep
  <2>1. api.pc # "idle" /\ UNCHANGED <<exec, evt>>
    BY <1>8 DEF CancelStep, CancelList, CancelFail, CancelStatus, CancelDelete, CancelMark, signals
  <2>2. PICK pc \in {"fail", "delete", "mark", "done"}, tasks \in SUBSET Task :
          /\ Request(pc, tasks)
          /\ pc \in {"mark", "done"} => saved' = "none"
    <3>1. CASE CancelList
      BY <3>1 DEF CancelList, WithStatus
    <3>2. CASE \E t \in Task : CancelFail(t)
      BY <1>0, <3>2 DEF CancelFail, TypeOK
    <3>3. CASE CancelStatus \/ CancelDelete \/ CancelMark
      BY <3>3 DEF CancelStatus, CancelDelete, CancelMark
    <3> QED
      BY <1>8, <3>1, <3>2, <3>3 DEF CancelStep
  <2>3. api'.pc = pc /\ api'.here = api.here
    BY <1>0, <2>2, RequestMoves
  <2> QED
    BY <1>0, <2>1, <2>2, <2>3 DEF exec
<1>9. ~CancelThere
  BY DEF CancelThere, NoRemoteCancel
<1>10. CASE UNCHANGED vars
  BY <1>0, <1>10 DEF vars, exec, signals
<1> QED
  BY <1>1, <1>2, <1>3, <1>4, <1>5, <1>6, <1>7, <1>8, <1>9, <1>10 DEF Next

(* The loops of the workers run in the execution phase and wait for their  *)
(* sub-tasks; after a cancel they may leave them behind.  Nothing that is  *)
(* being claimed has been started.                                         *)
WorkersWork ==
  \A w \in Worker :
    /\ wpc[w] # "out" => phase = "execution" \/ evt
    /\ \A t \in Task :
         /\ spc[w][t] # "idle" => wpc[w] \in {"claim", "execute"} \/ (evt /\ wpc[w] = "out")
         /\ wpc[w] = "claim" => spc[w][t] \in {"idle", "held"}

LEMMA ElsewhereIdle ==
  ASSUME WorkersWork, phase # "execution", ~evt
  PROVE  \A w \in Worker : wpc[w] = "out" /\ \A t \in Task : spc[w][t] = "idle"
BY DEF WorkersWork

LEMMA SubTaskSteps ==
  ASSUME TypeOK, NEW w \in Worker, NEW t \in Task,
         TaskStep(w, t) \/ AgentCreates(w, t) \/ AgentSets(w, t) \/ AgentRaises(w, t)
  PROVE  /\ UNCHANGED <<exec, saved, wpc, signals, api>>
         /\ spc[w][t] \in Live
         /\ \A v \in Worker, u \in Task : spc'[v][u] # spc[v][u] => v = w /\ u = t
         /\ spc'[w][t] # "held"
<1>1. UNCHANGED <<exec, saved, wpc, signals, api>> /\ spc[w][t] \in Live
  BY DEF TaskStep, TaskStart, AgentReturns, TaskReport, TaskBlame, AgentCreates, AgentSets,
         AgentRaises, Live, work
<1>2. spc' = spc \/ \E pc \in {"idle"} \cup Live : Step(w, t, pc)
  BY DEF TaskStep, TaskStart, AgentReturns, TaskReport, TaskBlame, AgentCreates, AgentSets,
         AgentRaises, Live, work
<1>3. \/ spc' = spc
      \/ \E pc \in {"idle"} \cup Live : spc'[w][t] = pc
           /\ \A v \in Worker, u \in Task : v # w \/ u # t => spc'[v][u] = spc[v][u]
  BY <1>2 DEF Step, TypeOK
<1> QED
  BY <1>1, <1>3 DEF Live

(* What a claim leaves of the worker's sub-tasks.                          *)
LEMMA ClaimEnds ==
  ASSUME TypeOK, NEW w \in Worker, NEW t \in Task, WorkerClaim(w, t)
  PROVE  /\ \A v \in Worker : v # w => wpc'[v] = wpc[v] /\ spc'[v] = spc[v]
         /\ \/ /\ wpc'[w] = "claim"
               /\ \A u \in Task : spc'[w][u] \in {"idle", "held"}
            \/ /\ wpc'[w] = "check"
               /\ \A u \in Task : spc'[w][u] = "idle"
            \/ wpc'[w] = "execute" /\ ~evt
<1> DEFINE held == IF Ready(t) THEN Held(w) \cup {t} ELSE Held(w)
<1>1. /\ wpc[w] = "claim"
      /\ IF todo[w] = {t}
         THEN AfterClaims(w, held)
         ELSE /\ spc' = [spc EXCEPT ![w] = [u \in Task |-> IF u \in held THEN "held" ELSE "idle"]]
              /\ UNCHANGED wpc
  BY DEF WorkerClaim
<1> HIDE DEF held
<1>2. CASE todo[w] # {t}
  BY <1>1, <1>2 DEF TypeOK
<1>3. CASE todo[w] = {t}
  <2>1. AfterClaims(w, held)
    BY <1>1, <1>3
  <2>2. CASE held = {} \/ evt
    BY <2>1, <2>2 DEF AfterClaims, Move, TypeOK, Idle
  <2>3. CASE ~(held = {} \/ evt)
    BY <2>1, <2>3 DEF AfterClaims, Move, TypeOK
  <2> QED
    BY <2>2, <2>3
<1> QED
  BY <1>2, <1>3

LEMMA WorkersInit == Init => WorkersWork
BY DEF Init, Idle, WorkersWork

LEMMA WorkersStep ==
  ASSUME StopInv, WorkersWork, NoRemoteCancel, [Next]_vars
  PROVE  WorkersWork'
<1>0. TypeOK /\ (evt => phase = "ended")
  BY DEF StopInv, WorkInv, RequestFollows
<1>1. CASE Start \/ ExecutorStep \/ ExecutorRaises
  <2>1. /\ UNCHANGED <<spc, evt>> /\ ~evt
        /\ \A w \in Worker : wpc[w] = "out"
    BY <1>0, <1>1, ElsewhereIdle DEF Start, ExecutorStep, ExecutorRaises, PlannerEnds, Review,
         ReplannerEnds, SynthesizerEnds, AllOut, Planning, work, signals
  <2>2. \A w \in Worker, t \in Task : spc[w][t] = "idle"
    BY <2>1 DEF WorkersWork
  <2>3. (\A w \in Worker : wpc'[w] = "out") \/ (phase' = "execution" /\ SpawnWorkers)
    BY <1>1, <2>1 DEF Start, ExecutorStep, ExecutorRaises, PlannerEnds, Review,
         ReplannerEnds, SynthesizerEnds, work
  <2> QED
    BY <2>1, <2>2, <2>3 DEF WorkersWork, SpawnWorkers
<1>2. ASSUME NEW t \in Task, PlannerCreates(t)
      PROVE  WorkersWork'
  BY <1>2 DEF PlannerCreates, WorkersWork, exec, work, signals
<1>3. ASSUME NEW w \in Worker, WorkerStep(w) \/ WorkerRaises(w)
      PROVE  WorkersWork'
  <2>1. UNCHANGED <<phase, evt>> /\ wpc[w] # "out"
    <3>1. UNCHANGED <<exec, signals>>
      BY <1>3, WorkerSignals
    <3> QED
      BY <1>3, <3>1 DEF WorkerStep, WorkerRaises, WorkerCheck, WorkerLook, WorkerPoll, WorkerClaim,
                WorkerWatch, WorkerGathers, WorkerDropped, exec, signals
  <2>2. ASSUME \A v \in Worker : v # w => wpc'[v] = wpc[v] /\ spc'[v] = spc[v],
               \A t \in Task :
                  /\ spc'[w][t] # "idle" => wpc'[w] \in {"claim", "execute"} \/ (evt /\ wpc'[w] = "out")
                  /\ wpc'[w] = "claim" => spc'[w][t] \in {"idle", "held"}
        PROVE  WorkersWork'
    BY <2>1, <2>2 DEF WorkersWork
  <2>3. CASE WorkerCheck(w) \/ WorkerLook(w) \/ WorkerPoll(w)
    <3>1. /\ \A v \in Worker : v # w => wpc'[v] = wpc[v]
          /\ spc' = spc /\ \A t \in Task : spc[w][t] = "idle"
      BY <1>0, <2>1, <2>3 DEF WorkerCheck, WorkerLook, WorkerPoll, Move, WorkersWork, TypeOK
    <3> QED
      BY <2>2, <3>1
  <2>4. CASE WorkerGathers(w) \/ WorkerWatch(w) \/ WorkerRaises(w)
    <3>1. /\ \A v \in Worker : v # w => wpc'[v] = wpc[v] /\ spc'[v] = spc[v]
          /\ \A t \in Task : spc'[w][t] = "idle"
      BY <1>0, <2>4 DEF WorkerGathers, WorkerWatch, WorkerRaises, Move, Idle, TypeOK
    <3>2. wpc'[w] \in {"check", "out"}
      BY <1>0, <2>4 DEF WorkerGathers, WorkerWatch, WorkerRaises, Move, TypeOK
    <3> QED
      BY <2>2, <3>1, <3>2
  <2>5. CASE WorkerDropped(w)
    <3>1. /\ \A v \in Worker : v # w => wpc'[v] = wpc[v] /\ spc'[v] = spc[v]
          /\ wpc'[w] = "out" /\ evt
      BY <1>0, <2>1, <2>5 DEF WorkerDropped, Move, TypeOK, WorkersWork
    <3> QED
      BY <2>2, <3>1
  <2>6. ASSUME NEW t \in Task, WorkerClaim(w, t)
        PROVE  WorkersWork'
    BY <1>0, <2>2, <2>6, ClaimEnds
  <2> QED
    BY <1>3, <2>3, <2>4, <2>5, <2>6 DEF WorkerStep
<1>4. ASSUME NEW w \in Worker, NEW t \in Task,
             TaskStep(w, t) \/ AgentCreates(w, t) \/ AgentSets(w, t) \/ AgentRaises(w, t)
      PROVE  WorkersWork'
  <2>1. /\ UNCHANGED <<exec, wpc, signals>> /\ spc[w][t] \in Live
        /\ \A v \in Worker, u \in Task : spc'[v][u] # spc[v][u] => v = w /\ u = t
    BY <1>0, <1>4, SubTaskSteps
  <2>2. wpc[w] # "claim"
    BY <2>1 DEF WorkersWork, Live
  <2> QED
    BY <2>1, <2>2 DEF WorkersWork, Live, exec, signals
<1>5. CASE Crash
  BY <1>5 DEF Crash, Idle, WorkersWork
<1>6. CASE ResumeStep
  <2>1. phase \in Down /\ ~evt /\ UNCHANGED evt
    BY <1>0, <1>6 DEF ResumeStep, ResumeLoad, ResumeClaim, ResumeAnnounce, ResumeList, ResumeReset,
                ResumePhase, Down, Resuming, signals
  <2>2. UNCHANGED spc /\ (UNCHANGED wpc \/ (phase' = "execution" /\ SpawnWorkers))
    BY <1>6 DEF ResumeStep, ResumeLoad, ResumeClaim, ResumeAnnounce, ResumeList, ResumeReset,
                ResumePhase, work
  <2>3. \A w \in Worker : wpc[w] = "out" /\ \A t \in Task : spc[w][t] = "idle"
    BY <2>1 DEF StopInv, WorkInv, IdleWhileDown
  <2> QED
    BY <2>1, <2>2, <2>3 DEF WorkersWork, SpawnWorkers
<1>7. CASE CancelHere
  <2>1. evt' /\ UNCHANGED <<wpc, spc>> /\ ~evt
    BY <1>0, <1>7 DEF CancelHere, work, Running, Planning, Resuming
  <2> QED
    BY <2>1 DEF WorkersWork
<1>8. CASE CancelStep
  <2>1. UNCHANGED <<phase, wpc, spc, evt>>
    BY <1>8 DEF CancelStep, CancelList, CancelFail, CancelStatus, CancelDelete, CancelMark, exec,
                work, signals
  <2> QED
    BY <2>1 DEF WorkersWork
<1>9. CASE UNCHANGED vars
  BY <1>9 DEF vars, exec, work, signals, WorkersWork
<1>10. ~CancelThere
  BY DEF CancelThere, NoRemoteCancel
<1> QED
  BY <1>1, <1>2, <1>3, <1>4, <1>5, <1>6, <1>7, <1>8, <1>9, <1>10 DEF Next

-----------------------------------------------------------------------------
(* Dependencies.  No agent calls complete_task or fail_task: then what is  *)
(* done or failed stays so while the run is not cancelled, because only    *)
(* the sub-task that has a task in hand, or the reset of a resume, updates *)
(* it.  A cancel request fails what it has listed, which nothing that is   *)
(* worked on builds on.                                                    *)

NoStatusTools == "statusTools" \notin Events

InHand ==
  \A w \in Worker, t \in Task :
    spc[w][t] # "idle" =>
      board[t].status \in {"claimed", "in_progress"} \/ (evt /\ board[t].status = "failed")

(* The request lists no task that somebody's work builds on.               *)
DepsStand ==
  \A w \in Worker, t \in Task :
    InWork(w, t) => board[t].deps \subseteq DoneTasks \ api.todo

OrderInv == StopInv /\ WorkersWork /\ InHand /\ DepsStand

(* The steps that change the board, each at one task.                      *)
Added(t) ==
  /\ board[t].status = "none" /\ board'[t].status = "pending"
  /\ phase \in Planning \/ \E w \in Worker, u \in Task : spc[w][u] = "run"

Taken(t) ==
  /\ Ready(t) /\ board'[t].status = "claimed"
  /\ \E w \in Worker : wpc[w] = "claim" /\ board'[t].assigned = w
  /\ board'[t].deps = board[t].deps

Worked(t) ==
  /\ board[t].status \in {"claimed", "in_progress"}
  /\ board'[t].status \in {"in_progress", "done", "failed"}
  /\ \E w \in Worker : spc[w][t] # "idle"
  /\ board'[t].assigned = board[t].assigned /\ board'[t].deps = board[t].deps

Undone(t) ==
  /\ board[t].status = "in_progress" /\ board'[t].status = "pending"
  /\ phase = "reset" /\ board'[t].deps = board[t].deps

BoardStep(t) ==
  /\ \A u \in Task : u # t => board'[u] = board[u]
  /\ UNCHANGED phase
  /\ Added(t) \/ Taken(t) \/ Worked(t) \/ Undone(t)

(* What is done or failed is so for good, and dependencies do not change.  *)
LEMMA SettledStays ==
  ASSUME UNCHANGED board \/ \E t \in Task : BoardStep(t)
  PROVE  /\ \A u \in Task : board[u].status \in {"done", "failed"} => board'[u] = board[u]
         /\ \A u \in Task : board[u].status # "none" => board'[u].deps = board[u].deps
         /\ DoneTasks \subseteq DoneTasks'
BY DEF BoardStep, Added, Taken, Worked, Undone, Ready, DoneTasks

(* The update a sub-task makes of its own task.                            *)
LEMMA OwnUpdate ==
  ASSUME TypeOK, WorkIsClaimed, InHand, UNCHANGED evt, NEW w \in Worker, NEW t \in Task,
         TaskStep(w, t) \/ AgentRaises(w, t)
  PROVE  /\ InHand'
         /\ \/ UNCHANGED board
            \/ /\ board'[t].status \in {"in_progress", "done", "failed"}
               /\ board'[t].deps = board[t].deps /\ board'[t].assigned = board[t].assigned
               /\ \A u \in Task : u # t => board'[u] = board[u]
<1>1. \/ UNCHANGED board
      \/ \E s \in {"in_progress", "done", "failed"} :
           UpdateTask(t, s) /\ (s # "in_progress" => Step(w, t, "idle"))
  BY DEF TaskStep, TaskStart, AgentReturns, TaskReport, TaskBlame, AgentRaises
<1>2. /\ spc[w][t] # "idle"
      /\ \A v \in Worker, u \in Task : spc'[v][u] # spc[v][u] => v = w /\ u = t
  BY SubTaskSteps DEF Live
<1>3. CASE UNCHANGED board
  BY <1>2, <1>3 DEF InHand
<1>4. ASSUME NEW s \in {"in_progress", "done", "failed"}, UpdateTask(t, s),
             s # "in_progress" => Step(w, t, "idle")
      PROVE  /\ InHand'
             /\ board'[t].status = s
             /\ board'[t].deps = board[t].deps /\ board'[t].assigned = board[t].assigned
             /\ \A u \in Task : u # t => board'[u] = board[u]
  <2>1. /\ board'[t].status = s
        /\ board'[t].deps = board[t].deps /\ board'[t].assigned = board[t].assigned
        /\ \A u \in Task : u # t => board'[u] = board[u]
    BY <1>4, UpdateEffect DEF Status, Incomplete
  <2>2. s # "in_progress" => spc'[w][t] = "idle"
    BY <1>4, StepEffect
  <2>3. \A v \in Worker : spc[v][t] # "idle" => v = w
    BY <1>2 DEF WorkIsClaimed
  <2>4. InHand'
    BY <1>2, <2>1, <2>2, <2>3 DEF InHand
  <2> QED
    BY <2>1, <2>4
<1> QED
  BY <1>1, <1>3, <1>4

(* A claim that finds its task ready has it in hand.                       *)
LEMMA ClaimOrder ==
  ASSUME TypeOK, InHand, UNCHANGED evt, NEW w \in Worker, NEW t \in Task, WorkerClaim(w, t)
  PROVE  /\ UNCHANGED board \/ (ClaimTask(t, w) /\ Ready(t))
         /\ InHand'
         /\ \A v \in Worker, u \in Task :
              spc'[v][u] # "idle" => spc[v][u] # "idle" \/ (v = w /\ u = t /\ Ready(t))
<1>1. (ClaimTask(t, w) /\ Ready(t)) \/ (~Ready(t) /\ UNCHANGED board)
  BY DEF WorkerClaim, ClaimTask
<1>2. \A v \in Worker, u \in Task :
        spc'[v][u] # "idle" => spc[v][u] # "idle" \/ (v = w /\ u = t /\ Ready(t))
  BY ClaimStarts
<1>3. InHand'
  <2> SUFFICES ASSUME NEW v \in Worker, NEW u \in Task, spc'[v][u] # "idle"
               PROVE  board'[u].status \in {"claimed", "in_progress"} \/ (evt' /\ board'[u].status = "failed")
    BY DEF InHand
  <2>1. CASE u = t /\ Ready(t)
    BY <1>1, <2>1, ClaimEffect
  <2>2. CASE ~(u = t /\ Ready(t))
    <3>1. board[u].status \in {"claimed", "in_progress"} \/ (evt /\ board[u].status = "failed")
      BY <1>2, <2>2 DEF InHand
    <3>2. board'[u] = board[u]
      BY <1>1, <3>1, ClaimEffect
    <3> QED
      BY <3>1, <3>2
  <2> QED
    BY <2>1, <2>2
<1> QED
  BY <1>1, <1>2, <1>3

(* The other steps of a loop give up what they do not keep.                *)
LEMMA WorkerLetsGo ==
  ASSUME TypeOK, NEW w \in Worker, WorkerStep(w) \/ WorkerRaises(w),
         \A t \in Task : ~WorkerClaim(w, t)
  PROVE  /\ UNCHANGED board
         /\ \A v \in Worker, u \in Task : spc'[v][u] # "idle" => spc'[v][u] = spc[v][u]
<1>1. CASE WorkerCheck(w) \/ WorkerLook(w) \/ WorkerPoll(w) \/ WorkerGathers(w)
  BY <1>1 DEF WorkerCheck, WorkerLook, WorkerPoll, WorkerGathers
<1>2. CASE WorkerWatch(w) \/ WorkerRaises(w)
  <2>1. spc' = [spc EXCEPT ![w] = Idle] /\ UNCHANGED board
    BY <1>2 DEF WorkerWatch, WorkerRaises
  <2> QED
    BY <2>1 DEF Idle, TypeOK
<1>3. CASE WorkerDropped(w)
  <2>1. /\ UNCHANGED board
        /\ spc' = [spc EXCEPT ![w] = [t \in Task |-> IF spc[w][t] = "held" THEN "idle" ELSE spc[w][t]]]
    BY <1>3 DEF WorkerDropped
  <2> QED
    BY <2>1 DEF TypeOK
<1> QED
  BY <1>1, <1>2, <1>3 DEF WorkerStep

(* A step of a run that nobody has cancelled.                              *)
LEMMA StepsKeepOrder ==
  ASSUME OrderInv, NoStatusTools, NoRemoteCancel, ~evt, [Next]_vars
  PROVE  /\ UNCHANGED board \/ \E u \in Task : BoardStep(u)
         /\ InHand' /\ api'.todo = {}
         /\ \A w \in Worker, u \in Task : spc'[w][u] # "idle" => spc[w][u] # "idle" \/ Ready(u)
<1> DEFINE Goal ==
      /\ UNCHANGED board \/ \E u \in Task : BoardStep(u)
      /\ InHand' /\ api'.todo = {}
      /\ \A w \in Worker, u \in Task : spc'[w][u] # "idle" => spc[w][u] # "idle" \/ Ready(u)
<1>0. TypeOK /\ WorkIsClaimed /\ api.pc = "idle" /\ api.todo = {}
  BY DEF OrderInv, StopInv, WorkInv, RequestFollows
<1>a. ASSUME UNCHANGED board, api'.todo = {},
             \A w \in Worker, u \in Task : spc'[w][u] # "idle" => spc[w][u] # "idle"
      PROVE  Goal
  BY <1>a DEF OrderInv, InHand
<1>1. CASE Start \/ ExecutorStep \/ ExecutorRaises
  <2>1. UNCHANGED <<board, spc, api>>
    BY <1>1 DEF Start, ExecutorStep, ExecutorRaises, PlannerEnds, Review, ReplannerEnds,
                SynthesizerEnds, work
  <2> QED
    BY <1>0, <1>a, <2>1
<1>2. ASSUME NEW t \in Task, PlannerCreates(t)
      PROVE  Goal
  <2>1. ToolCreate(t) /\ UNCHANGED <<exec, work, api, signals>> /\ phase \in Planning
    BY <1>2 DEF PlannerCreates
  <2>2. /\ board[t].status = "none" /\ board'[t].status = "pending"
        /\ \A x \in Task : x # t => board'[x] = board[x]
    BY <1>0, <2>1, CreateEffect
  <2>3. BoardStep(t)
    BY <2>1, <2>2 DEF BoardStep, Added, exec
  <2>4. InHand'
    BY <2>1, <2>2 DEF OrderInv, InHand, work, signals
  <2> QED
    BY <1>0, <2>1, <2>3, <2>4 DEF work
<1>3. ASSUME NEW w \in Worker, WorkerStep(w) \/ WorkerRaises(w)
      PROVE  Goal
  <2>1. UNCHANGED <<phase, evt, api>>
    BY <1>3, WorkerSignals DEF OrderInv, exec, signals
  <2>2. CASE \A t \in Task : ~WorkerClaim(w, t)
    BY <1>0, <1>3, <1>a, <2>1, <2>2, WorkerLetsGo
  <2>3. ASSUME NEW t \in Task, WorkerClaim(w, t)
        PROVE  Goal
    <3>1. /\ UNCHANGED board \/ (ClaimTask(t, w) /\ Ready(t))
          /\ InHand'
          /\ \A v \in Worker, u \in Task :
               spc'[v][u] # "idle" => spc[v][u] # "idle" \/ (v = w /\ u = t /\ Ready(t))
      BY <1>0, <2>1, <2>3, ClaimOrder DEF OrderInv
    <3>2. UNCHANGED board \/ BoardStep(t)
      <4>1. wpc[w] = "claim"
        BY <2>3 DEF WorkerClaim
      <4>2. ClaimTask(t, w) /\ Ready(t) => BoardStep(t)
        BY <1>0, <2>1, <4>1, ClaimEffect DEF BoardStep, Taken
      <4> QED
        BY <3>1, <4>2
    <3> QED
      BY <1>0, <2>1, <3>1, <3>2
  <2> QED
    BY <2>2, <2>3
<1>4. ASSUME NEW w \in Worker, NEW t \in Task,
             TaskStep(w, t) \/ AgentCreates(w, t) \/ AgentSets(w, t) \/ AgentRaises(w, t)
      PROVE  Goal
  <2>1. /\ UNCHANGED <<phase, evt, api>> /\ spc[w][t] # "idle"
        /\ \A v \in Worker, u \in Task : spc'[v][u] # "idle" => spc[v][u] # "idle"
    BY <1>0, <1>4, SubTaskSteps DEF Live, exec, signals
  <2>2. CASE TaskStep(w, t) \/ AgentRaises(w, t)
    <3>1. /\ InHand'
          /\ \/ UNCHANGED board
             \/ /\ board'[t].status \in {"in_progress", "done", "failed"}
                /\ board'[t].deps = board[t].deps /\ board'[t].assigned = board[t].assigned
                /\ \A u \in Task : u # t => board'[u] = board[u]
      BY <1>0, <2>1, <2>2, OwnUpdate DEF OrderInv
    <3>2. board[t].status \in {"claimed", "in_progress"}
      BY <2>1 DEF OrderInv, InHand
    <3>3. UNCHANGED board \/ BoardStep(t)
      BY <2>1, <3>1, <3>2 DEF BoardStep, Worked
    <3> QED
      BY <1>0, <2>1, <3>1, <3>3
  <2>3. CASE AgentCreates(w, t)
    <3>1. PICK u \in Task : ToolCreate(u)
      BY <2>3 DEF AgentCreates
    <3>2. UNCHANGED spc /\ spc[w][t] = "run"
      BY <2>3 DEF AgentCreates, work
    <3>3. /\ board[u].status = "none" /\ board'[u].status = "pending"
          /\ \A x \in Task : x # u => board'[x] = board[x]
      BY <1>0, <3>1, CreateEffect
    <3>4. BoardStep(u)
      BY <2>1, <3>2, <3>3 DEF BoardStep, Added
    <3>5. InHand'
      BY <2>1, <3>2, <3>3 DEF OrderInv, InHand
    <3> QED
      BY <1>0, <2>1, <3>4, <3>5
  <2>4. ~AgentSets(w, t)
    BY DEF AgentSets, NoStatusTools
  <2> QED
    BY <1>4, <2>2, <2>3, <2>4
<1>5. CASE Crash
  <2>1. UNCHANGED board /\ api'.todo = {} /\ spc' = [w \in Worker |-> Idle]
    BY <1>0, <1>5 DEF Crash, NoRequest
  <2> QED
    BY <1>a, <2>1 DEF Idle
<1>6. CASE ResumeStep
  <2>1. UNCHANGED <<spc, api, evt>>
    BY <1>6 DEF ResumeStep, ResumeLoad, ResumeClaim, ResumeAnnounce, ResumeList, ResumeReset,
                ResumePhase, work, signals
  <2>2. CASE UNCHANGED board
    BY <1>0, <1>a, <2>1, <2>2
  <2>3. ASSUME NEW t \in Task, ResumeReset(t), board' # board
        PROVE  Goal
    <3>1. UpdateTask(t, "pending") /\ UNCHANGED phase /\ phase = "reset" /\ t \in resets
      BY <2>3 DEF ResumeReset
    <3>2. board[t].status = "in_progress"
      BY <3>1 DEF OrderInv, StopInv, ResetsAreOpen
    <3>3. /\ board'[t].status = "pending" /\ board'[t].deps = board[t].deps
          /\ \A u \in Task : u # t => board'[u] = board[u]
      BY <1>0, <3>1, UpdateEffect DEF Status, Incomplete
    <3>4. \A v \in Worker, u \in Task : spc[v][u] = "idle"
      BY <3>1 DEF OrderInv, StopInv, WorkInv, IdleWhileDown, Down, Resuming
    <3>5. BoardStep(t) /\ InHand'
      BY <2>1, <3>1, <3>2, <3>3, <3>4 DEF BoardStep, Undone, InHand
    <3> QED
      BY <1>0, <2>1, <3>5
  <2> QED
    BY <1>6, <2>2, <2>3 DEF ResumeStep, ResumeLoad, ResumeClaim, ResumeAnnounce, ResumeList,
       ResumePhase
<1>7. CASE CancelHere
  <2>1. UNCHANGED <<board, spc>> /\ api'.todo = {}
    BY <1>7 DEF CancelHere, work
  <2> QED
    BY <1>a, <2>1
<1>8. CASE UNCHANGED vars
  BY <1>0, <1>8, <1>a DEF vars, work
<1>9. ~CancelThere /\ ~CancelStep
  BY <1>0 DEF CancelThere, NoRemoteCancel, CancelStep, CancelList, CancelFail, CancelStatus,
     CancelDelete, CancelMark
<1> QED
  BY <1>1, <1>2, <1>3, <1>4, <1>5, <1>6, <1>7, <1>8, <1>9 DEF Next

(* A step of a run that was cancelled: agents finish what they have begun, *)
(* the request fails what it has listed, and nothing is started.           *)
LEMMA CancelledSteps ==
  ASSUME OrderInv, NoStatusTools, NoRemoteCancel, evt, [Next]_vars
  PROVE  InHand' /\ DepsStand'
<1>0. /\ TypeOK /\ WorkIsClaimed /\ InHand /\ DepsStand /\ phase = "ended"
      /\ \A w \in Worker, t \in Task : InWork(w, t) => spc[w][t] \in Live
  BY DEF OrderInv, StopInv, WorkInv, RequestFollows, InWork, TypeOK, Live
<1>a. ASSUME UNCHANGED <<evt, spc>>,
             \A w \in Worker, t \in Task : spc[w][t] # "idle" =>
               /\ board'[t].status = board[t].status \/ board'[t].status = "failed"
               /\ InWork(w, t) => board'[t].deps = board[t].deps,
             \A t \in Task : t \in DoneTasks \ api.todo => t \in DoneTasks' \ api'.todo
      PROVE  InHand' /\ DepsStand'
  <2>1. InHand'
    BY <1>0, <1>a DEF InHand
  <2>2. DoneTasks \ api.todo \subseteq DoneTasks' \ api'.todo
    BY <1>a DEF DoneTasks
  <2>3. ASSUME NEW w \in Worker, NEW t \in Task, spc[w][t] # "idle", spc[w][t] # "held"
        PROVE  board'[t].deps \subseteq DoneTasks' \ api'.todo
    <3>1. InWork(w, t)
      BY <2>3 DEF InWork
    <3>2. board'[t].deps = board[t].deps
      BY <1>a, <2>3, <3>1
    <3>3. board[t].deps \subseteq DoneTasks \ api.todo
      BY <1>0, <3>1 DEF DepsStand
    <3> QED
      BY <2>2, <3>2, <3>3
  <2>4. DepsStand'
    BY <1>a, <2>3 DEF DepsStand, InWork
  <2> QED
    BY <2>1, <2>4
<1>b. ASSUME UNCHANGED <<evt, api>>, InHand',
             \A w \in Worker, t \in Task : spc'[w][t] # "idle" /\ spc'[w][t] # "held" =>
               InWork(w, t) /\ board'[t].deps = board[t].deps,
             DoneTasks \subseteq DoneTasks'
      PROVE  InHand' /\ DepsStand'
  BY <1>0, <1>b DEF DepsStand, InWork
<1>1. ASSUME NEW w \in Worker, WorkerStep(w) \/ WorkerRaises(w)
      PROVE  InHand' /\ DepsStand'
  <2>1. UNCHANGED <<evt, api>>
    BY <1>1, WorkerSignals DEF OrderInv, signals
  <2>2. CASE \A t \in Task : ~WorkerClaim(w, t)
    <3>1. /\ UNCHANGED board
          /\ \A v \in Worker, u \in Task : spc'[v][u] # "idle" => spc'[v][u] = spc[v][u]
      BY <1>0, <1>1, <2>2, WorkerLetsGo
    <3> QED
      BY <1>0, <2>1, <3>1 DEF InHand, DepsStand, InWork, DoneTasks
  <2>3. ASSUME NEW t \in Task, WorkerClaim(w, t)
        PROVE  InHand' /\ DepsStand'
    <3>1. InHand' /\ (UNCHANGED board \/ (ClaimTask(t, w) /\ Ready(t)))
      BY <1>0, <2>1, <2>3, ClaimOrder
    <3>2. \A v \in Worker, u \in Task :
            spc'[v][u] \notin {"idle", "held"} => v # w /\ spc'[v][u] = spc[v][u]
      BY <1>0, <2>3, ClaimEnds
    <3>3. DoneTasks \subseteq DoneTasks' /\ \A u \in Task : board'[u].deps = board[u].deps
      BY <1>0, <3>1, ClaimEffect DEF DoneTasks
    <3> QED
      BY <1>b, <2>1, <3>1, <3>2, <3>3 DEF InWork
  <2> QED
    BY <2>2, <2>3
<1>2. ASSUME NEW w \in Worker, NEW t \in Task, TaskStep(w, t) \/ AgentRaises(w, t)
      PROVE  InHand' /\ DepsStand'
  <2>1. /\ UNCHANGED <<evt, api>> /\ spc[w][t] \in Live
        /\ \A v \in Worker, u \in Task : spc'[v][u] # spc[v][u] => v = w /\ u = t
    BY <1>0, <1>2, SubTaskSteps DEF signals
  <2>2. /\ InHand'
        /\ \/ UNCHANGED board
           \/ board'[t].deps = board[t].deps /\ \A u \in Task : u # t => board'[u] = board[u]
    BY <1>0, <1>2, <2>1, OwnUpdate
  <2>3. t \notin DoneTasks
    BY <1>0, <2>1 DEF InHand, DoneTasks, Live
  <2>4. DoneTasks \subseteq DoneTasks' /\ \A u \in Task : board'[u].deps = board[u].deps
    BY <2>2, <2>3 DEF DoneTasks
  <2>5. \A v \in Worker, u \in Task : spc'[v][u] # "idle" /\ spc'[v][u] # "held" => InWork(v, u)
    BY <2>1 DEF InWork, Live
  <2> QED
    BY <1>b, <2>1, <2>2, <2>4, <2>5
<1>3. CASE Crash
  <2>1. spc' = [w \in Worker |-> Idle]
    BY <1>3 DEF Crash
  <2> QED
    BY <2>1 DEF Idle, InHand, DepsStand, InWork
<1>4. CASE CancelList
  <2>1. UNCHANGED <<board, evt, spc>>
    BY <1>4 DEF CancelList, work, signals
  <2>2. api'.todo \subseteq WithStatus({"pending", "in_progress"})
    BY <1>0, <1>4 DEF CancelList, Request, TypeOK
  <2> QED
    BY <1>a, <2>1, <2>2 DEF DoneTasks, WithStatus
<1>5. ASSUME NEW t \in Task, CancelFail(t)
      PROVE  InHand' /\ DepsStand'
  <2>1. UNCHANGED <<evt, spc>> /\ t \in api.todo
    BY <1>5 DEF CancelFail, work, signals
  <2>2. CASE UpdateTask(t, "failed") /\ Request("fail", api.todo \ {t})
    <3>1. /\ board'[t].status = "failed" /\ board'[t].deps = board[t].deps
          /\ \A u \in Task : u # t => board'[u] = board[u]
      BY <1>0, <2>2, UpdateEffect DEF Status
    <3>2. api'.todo = api.todo \ {t}
      BY <1>0, <2>2 DEF Request, TypeOK
    <3> QED
      BY <1>a, <2>1, <3>1, <3>2 DEF DoneTasks
  <2>3. CASE Request("fail", {}) /\ UNCHANGED board
    <3>1. api'.todo = {}
      BY <1>0, <2>3 DEF Request, TypeOK
    <3> QED
      BY <1>a, <2>1, <2>3, <3>1 DEF DoneTasks
  <2> QED
    BY <1>5, <2>2, <2>3 DEF CancelFail
<1>6. CASE CancelStatus \/ CancelDelete \/ CancelMark
  <2>1. UNCHANGED <<board, evt, spc>>
    BY <1>6 DEF CancelStatus, CancelDelete, CancelMark, work, signals
  <2>2. api'.todo = {}
    BY <1>0, <1>6 DEF CancelStatus, CancelDelete, CancelMark, Request, TypeOK
  <2> QED
    BY <1>a, <2>1, <2>2 DEF DoneTasks
<1>7. CASE UNCHANGED vars
  BY <1>a, <1>7 DEF vars, work, signals, DoneTasks
<1>8. /\ ~Start /\ ~ExecutorStep /\ ~ExecutorRaises /\ ~ResumeStep /\ ~CancelHere /\ ~CancelThere
      /\ \A t \in Task : ~PlannerCreates(t)
      /\ \A w \in Worker, t \in Task : ~AgentCreates(w, t) /\ ~AgentSets(w, t)
  BY <1>0 DEF Start, ExecutorStep, ExecutorRaises, PlannerEnds, Review, ReplannerEnds,
     SynthesizerEnds, ResumeStep, ResumeLoad, ResumeClaim, ResumeAnnounce, ResumeList, ResumeReset,
     ResumePhase, CancelHere, CancelThere, PlannerCreates, AgentCreates, AgentSets, ToolCreate,
     Cancelled, NoStatusTools, NoRemoteCancel, Planning, Running, Resuming
<1> QED
  BY <1>1, <1>2, <1>3, <1>4, <1>5, <1>6, <1>7, <1>8 DEF Next, CancelStep

LEMMA OrderInit == Init => OrderInv
<1> SUFFICES ASSUME Init PROVE OrderInv
  OBVIOUS
<1>1. StopInv /\ WorkersWork
  BY StopInit, WorkersInit
<1>2. InHand /\ DepsStand
  BY DEF Init, Idle, InHand, DepsStand, InWork
<1> QED
  BY <1>1, <1>2 DEF OrderInv

LEMMA OrderStep ==
  ASSUME OrderInv, NoStatusTools, NoRemoteCancel, [Next]_vars
  PROVE  OrderInv'
<1>1. StopInv' /\ WorkersWork'
  BY StopStep, WorkersStep DEF OrderInv
<1>2. CASE evt
  BY <1>1, <1>2, CancelledSteps DEF OrderInv
<1>3. CASE ~evt
  <2>1. /\ UNCHANGED board \/ \E u \in Task : BoardStep(u)
        /\ InHand' /\ api'.todo = {}
        /\ \A w \in Worker, u \in Task : spc'[w][u] # "idle" => spc[w][u] # "idle" \/ Ready(u)
    BY <1>3, StepsKeepOrder
  <2>2. /\ \A u \in Task : board[u].status # "none" => board'[u].deps = board[u].deps
        /\ DoneTasks \subseteq DoneTasks'
    BY <2>1, SettledStays
  <2>3. ASSUME NEW w \in Worker, NEW t \in Task, spc'[w][t] # "idle"
        PROVE  board'[t].deps \subseteq DoneTasks'
    <3>1. board[t].status # "none" /\ board[t].deps \subseteq DoneTasks
      BY <1>3, <2>1, <2>3 DEF OrderInv, InHand, DepsStand, InWork, Ready
    <3> QED
      BY <2>2, <3>1
  <2>4. DepsStand'
    BY <2>1, <2>3 DEF DepsStand, InWork
  <2> QED
    BY <1>1, <2>1, <2>4 DEF OrderInv
<1> QED
  BY <1>2, <1>3

(* An agent is at work on a task only when the tasks it depends on are     *)
(* done, for any number of tasks, workers, waves of re-planning and        *)
(* crashes, with a board whose calls may raise, and with a cancel request  *)
(* that fails tasks while cancelled sub-tasks still finish                 *)
(* (agents/team_runner.py:1007-1113, primitives/tasks/redis.py,            *)
(* routes/teams.py cancel_team_run).                                       *)
THEOREM DependenciesFirst ==
  ASSUME NoStatusTools, NoRemoteCancel
  PROVE  Spec => []WorkFollowsDependencies
<1>1. OrderInv /\ [Next]_vars => OrderInv'
  BY OrderStep
<1>2. OrderInv => WorkFollowsDependencies
  BY DEF OrderInv, DepsStand, WorkFollowsDependencies
<1> QED
  BY <1>1, <1>2, OrderInit, PTL DEF Spec

-----------------------------------------------------------------------------
(* The end of the work.  The calls of the board do not raise, or a worker  *)
(* leaves with tasks claimed; agents may complete and fail any task.       *)

BoardAnswers == "boardError" \notin Events

Settled == WithStatus(Incomplete) = {}

Quiet == \A w \in Worker : wpc[w] = "out" /\ \A t \in Task : spc[w][t] = "idle"

SavedFollows ==
  /\ phase = "planning" => saved = "planning"
  /\ phase \in {"execution", "replan"} => saved = "execution"
  /\ phase = "synthesis" => saved = "synthesis"
  /\ phase \in Resuming => loaded = saved

(* The last worker leaves when nothing is left to do, which stays so:      *)
(* nobody but the planners and those who work add tasks.                   *)
NothingLeft ==
  /\ saved = "synthesis" => Settled /\ Quiet
  /\ phase = "execution" /\ AllOut => Settled
  /\ phase = "replan" => \A t \in known : board[t].status \in {"done", "failed"}

EndInv == StopInv /\ WorkersWork /\ SavedFollows /\ NothingLeft

(* Only the executor, a crash, a resume and a cancel request change the    *)
(* phase and the checkpoint.                                               *)
LEMMA PhaseSteps ==
  ASSUME NoRemoteCancel, [Next]_vars
  PROVE  \/ Start \/ ExecutorStep \/ ExecutorRaises \/ Crash \/ ResumeStep
         \/ CancelHere \/ CancelStep \/ UNCHANGED <<exec, saved>>
<1>1. \A t \in Task : PlannerCreates(t) => UNCHANGED <<exec, saved>>
  BY DEF PlannerCreates
<1>2. \A w \in Worker : WorkerStep(w) \/ WorkerRaises(w) => UNCHANGED <<exec, saved>>
  BY DEF WorkerStep, WorkerRaises, WorkerCheck, WorkerLook, WorkerPoll, WorkerClaim,
         WorkerWatch, WorkerGathers, WorkerDropped
<1>3. \A w \in Worker, t \in Task :
        TaskStep(w, t) \/ AgentCreates(w, t) \/ AgentSets(w, t) \/ AgentRaises(w, t) =>
          UNCHANGED <<exec, saved>>
  BY DEF TaskStep, TaskStart, AgentReturns, TaskReport, TaskBlame, AgentCreates, AgentSets,
         AgentRaises
<1>4. ~CancelThere
  BY DEF CancelThere, NoRemoteCancel
<1> QED
  BY <1>1, <1>2, <1>3, <1>4 DEF Next, vars

(* While no loop and no sub-task is left, only the planners, the reset of  *)
(* a resume and a cancel request touch the board.                          *)
LEMMA QuietBoard ==
  ASSUME StopInv, NoRemoteCancel, Quiet, [Next]_vars, NEW t \in Task, board'[t] # board[t]
  PROVE  \/ phase \in Planning /\ board[t].status = "none"
         \/ phase = "ended" /\ board'[t].status = "failed"
         \/ phase = "reset" /\ board[t].status = "in_progress"
<1>0. TypeOK
  BY DEF StopInv, WorkInv
<1>1. CASE Start \/ ExecutorStep \/ ExecutorRaises \/ Crash \/ CancelHere \/ UNCHANGED vars
  BY <1>1 DEF Start, ExecutorStep, ExecutorRaises, PlannerEnds, Review, ReplannerEnds,
     SynthesizerEnds, Crash, CancelHere, vars
<1>2. ASSUME NEW u \in Task, PlannerCreates(u)
      PROVE  phase \in Planning /\ board[t].status = "none"
  <2>1. phase \in Planning /\ ToolCreate(u)
    BY <1>2 DEF PlannerCreates
  <2> QED
    BY <1>0, <2>1, CreateEffect
<1>3. \A w \in Worker : WorkerStep(w) \/ WorkerRaises(w) => board' = board
  BY DEF Quiet, WorkerStep, WorkerRaises, WorkerCheck, WorkerLook, WorkerPoll, WorkerClaim,
         WorkerWatch, WorkerGathers, WorkerDropped
<1>4. \A w \in Worker, u \in Task :
        ~TaskStep(w, u) /\ ~AgentCreates(w, u) /\ ~AgentSets(w, u) /\ ~AgentRaises(w, u)
  BY DEF Quiet, TaskStep, TaskStart, AgentReturns, TaskReport, TaskBlame, AgentCreates,
         AgentSets, AgentRaises
<1>5. CASE ResumeStep
  <2>1. PICK u \in Task : ResumeReset(u)
    BY <1>5 DEF ResumeStep, ResumeLoad, ResumeClaim, ResumeAnnounce, ResumeList, ResumePhase
  <2>2. UpdateTask(u, "pending") /\ phase = "reset" /\ u \in resets
    BY <2>1 DEF ResumeReset
  <2>3. t = u
    BY <1>0, <2>2, UpdateEffect DEF Status, Incomplete
  <2> QED
    BY <2>2, <2>3 DEF StopInv, ResetsAreOpen
<1>6. CASE CancelStep
  <2>1. PICK u \in Task : CancelFail(u)
    BY <1>6 DEF CancelStep, CancelList, CancelStatus, CancelDelete, CancelMark
  <2>2. UpdateTask(u, "failed") /\ phase = "ended"
    BY <2>1 DEF CancelFail, StopInv, RequestFollows
  <2> QED
    BY <1>0, <2>2, UpdateEffect DEF Status
<1>7. ~CancelThere
  BY DEF CancelThere, NoRemoteCancel
<1> QED
  BY <1>1, <1>2, <1>3, <1>4, <1>5, <1>6, <1>7 DEF Next

(* Nothing starts the loops again but a wave and a resume.                 *)
LEMMA QuietKept ==
  ASSUME TypeOK, NoRemoteCancel, Quiet, [Next]_vars,
         ~PlannerEnds, ~(ReplannerEnds /\ Created # known), ~(ResumePhase /\ loaded = "execution")
  PROVE  Quiet'
<1>1. CASE Crash
  BY <1>1 DEF Crash, Quiet, Idle
<1>2. UNCHANGED <<wpc, spc>> => Quiet'
  BY DEF Quiet
<1>3. CASE Start \/ ExecutorStep \/ ExecutorRaises \/ CancelHere \/ CancelStep \/ UNCHANGED vars
  BY <1>2, <1>3 DEF Start, ExecutorStep, ExecutorRaises, Review, ReplannerEnds, SynthesizerEnds,
     CancelHere, CancelStep, CancelList, CancelFail, CancelStatus, CancelDelete, CancelMark, vars,
     work
<1>4. \A t \in Task : PlannerCreates(t) => UNCHANGED <<wpc, spc>>
  BY DEF PlannerCreates, work
<1>5. \A w \in Worker : ~WorkerStep(w) /\ ~WorkerRaises(w)
  BY DEF Quiet, WorkerStep, WorkerRaises, WorkerCheck, WorkerLook, WorkerPoll, WorkerClaim,
         WorkerWatch, WorkerGathers, WorkerDropped
<1>6. \A w \in Worker, u \in Task :
        ~TaskStep(w, u) /\ ~AgentCreates(w, u) /\ ~AgentSets(w, u) /\ ~AgentRaises(w, u)
  BY DEF Quiet, TaskStep, TaskStart, AgentReturns, TaskReport, TaskBlame, AgentCreates,
         AgentSets, AgentRaises
<1>7. CASE ResumeStep
  BY <1>2, <1>7 DEF ResumeStep, ResumeLoad, ResumeClaim, ResumeAnnounce, ResumeList, ResumeReset,
     ResumePhase, work
<1>8. ~CancelThere
  BY DEF CancelThere, NoRemoteCancel
<1> QED
  BY <1>1, <1>2, <1>3, <1>4, <1>5, <1>6, <1>7, <1>8 DEF Next

LEMMA SettledKept ==
  ASSUME StopInv, NoRemoteCancel, Quiet, Settled, phase \notin Planning, [Next]_vars
  PROVE  Settled'
<1> SUFFICES ASSUME NEW t \in Task PROVE board'[t].status \notin Incomplete
  BY DEF Settled, WithStatus
<1>1. board[t].status \notin Incomplete
  BY DEF Settled, WithStatus
<1>2. CASE board'[t] = board[t]
  BY <1>1, <1>2
<1>3. CASE board'[t] # board[t]
  BY <1>1, <1>3, QuietBoard DEF Incomplete
<1> QED
  BY <1>2, <1>3

LEMMA SavedStep ==
  ASSUME EndInv, NoRemoteCancel, [Next]_vars
  PROVE  SavedFollows'
<1> USE DEF EndInv, SavedFollows
<1>1. CASE Start \/ ExecutorStep
  BY <1>1 DEF Start, ExecutorStep, PlannerEnds, Review, ReplannerEnds, SynthesizerEnds, SaveTeam,
              Resuming
<1>2. CASE ExecutorRaises
  BY <1>2 DEF ExecutorRaises, Resuming
<1>3. CASE Crash
  BY <1>3 DEF Crash, Resuming
<1>4. CASE ResumeStep
  <2>1. CASE ResumeLoad \/ ResumeClaim \/ ResumeAnnounce \/ ResumeList
    BY <2>1 DEF ResumeLoad, ResumeClaim, ResumeAnnounce, ResumeList, SaveTeam, Resuming
  <2>2. CASE \E t \in Task : ResumeReset(t)
    BY <2>2 DEF ResumeReset
  <2>3. CASE ResumePhase
    <3>1. loaded \in Saved /\ saved = loaded
      BY <2>3 DEF ResumePhase, StopInv, WorkInv, ResumeHasLoaded, Resuming
    <3> QED
      BY <2>3, <3>1 DEF ResumePhase, Saved, Resuming
  <2> QED
    BY <1>4, <2>1, <2>2, <2>3 DEF ResumeStep
<1>5. CASE CancelHere \/ CancelStep
  <2>1. phase' = "ended"
    BY <1>5 DEF CancelHere, CancelStep, CancelList, CancelFail, CancelStatus, CancelDelete,
       CancelMark, StopInv, RequestFollows, exec
  <2> QED
    BY <2>1 DEF Resuming
<1>6. CASE UNCHANGED <<exec, saved>>
  BY <1>6 DEF exec
<1> QED
  BY <1>1, <1>2, <1>3, <1>4, <1>5, <1>6, PhaseSteps

LEMMA NothingLeftStep ==
  ASSUME EndInv, NoRemoteCancel, BoardAnswers, Worker # {}, [Next]_vars
  PROVE  NothingLeft'
<1> USE DEF EndInv
<1>0. TypeOK /\ StopInv
  BY DEF StopInv, WorkInv
<1>q. phase \in {"execution", "replan"} /\ AllOut => Quiet
  BY DEF WorkersWork, AllOut, Quiet, StopInv, RequestFollows
<1>1. ASSUME saved' = "synthesis"
      PROVE  Settled' /\ Quiet'
  <2>1. CASE saved = "synthesis"
    <3>1. phase \notin Planning /\ phase # "execution"
      BY <2>1 DEF SavedFollows, Planning
    <3>2. Settled /\ Quiet
      BY <2>1 DEF NothingLeft
    <3>3. ~PlannerEnds /\ ~(ReplannerEnds /\ Created # known) /\ ~(ResumePhase /\ loaded = "execution")
      BY <2>1, <3>1 DEF PlannerEnds, ReplannerEnds, ResumePhase, Planning, SavedFollows, Resuming
    <3> QED
      BY <1>0, <3>1, <3>2, <3>3, SettledKept, QuietKept
  <2>2. CASE saved # "synthesis"
    <3>1. Review \/ (ReplannerEnds /\ Created = known)
      <4>1. CASE ResumeStep
        BY <1>1, <2>2, <4>1 DEF ResumeStep, ResumeLoad, ResumeClaim, ResumeAnnounce, ResumeList,
             ResumeReset, ResumePhase, SaveTeam, SavedFollows, Resuming
      <4>2. CASE Start \/ ExecutorStep \/ ExecutorRaises \/ Crash
        BY <1>1, <2>2, <4>2 DEF Start, ExecutorStep, ExecutorRaises, PlannerEnds, ReplannerEnds,
             SynthesizerEnds, SaveTeam, Crash
      <4>3. CASE CancelHere \/ CancelStep
        BY <1>1, <2>2, <4>3 DEF CancelHere, CancelStep, CancelList, CancelFail, CancelStatus,
             CancelDelete, CancelMark
      <4> QED
        BY <1>1, <2>2, <4>1, <4>2, <4>3, PhaseSteps
    <3>2. UNCHANGED <<board, spc>> /\ Settled /\ Quiet /\ UNCHANGED wpc
      <4>1. CASE Review
        <5>1. phase = "execution" /\ AllOut /\ UNCHANGED <<board, spc, wpc>>
          BY <4>1 DEF Review, work
        <5> QED
          BY <1>q, <5>1 DEF NothingLeft
      <4>2. CASE ReplannerEnds /\ Created = known
        <5>1. phase = "replan" /\ UNCHANGED <<board, spc, wpc>>
          BY <4>2 DEF ReplannerEnds
        <5>2. AllOut /\ Quiet
          BY <5>1, ElsewhereIdle DEF StopInv, RequestFollows, AllOut, Quiet
        <5>3. Settled
          BY <4>2, <5>1 DEF NothingLeft, Settled, WithStatus, Created, Incomplete
        <5> QED
          BY <5>1, <5>2, <5>3
      <4> QED
        BY <3>1, <4>1, <4>2
    <3> QED
      BY <3>2 DEF Settled, WithStatus, Quiet
  <2> QED
    BY <2>1, <2>2
<1>2. ASSUME phase' = "execution", AllOut'
      PROVE  Settled'
  <2>1. phase = "execution" /\ ~Crash /\ ~CancelHere
    <3>0. ~CancelHere /\ ~Crash
      BY <1>2 DEF CancelHere, Crash
    <3>1. CASE Start \/ ExecutorStep \/ ExecutorRaises
      BY <1>2, <3>1 DEF Start, ExecutorStep, ExecutorRaises, PlannerEnds, Review, ReplannerEnds,
           SynthesizerEnds, SpawnWorkers, AllOut
    <3>2. CASE ResumeStep
      <4>1. ResumePhase /\ loaded = "execution"
        BY <1>2, <3>2 DEF ResumeStep, ResumeLoad, ResumeClaim, ResumeAnnounce, ResumeList,
             ResumeReset, ResumePhase
      <4>2. wpc' = [w \in Worker |-> "check"]
        BY <4>1 DEF ResumePhase, SpawnWorkers
      <4> QED
        BY <1>2, <4>2 DEF AllOut
    <3>3. CASE CancelStep
      BY <1>2, <3>0, <3>3 DEF CancelStep, CancelList, CancelFail, CancelStatus, CancelDelete,
           CancelMark, exec
    <3> QED
      BY <1>2, <3>0, <3>1, <3>2, <3>3, PhaseSteps DEF exec
  <2>2. CASE AllOut
    BY <1>0, <1>q, <2>1, <2>2, SettledKept DEF NothingLeft, Planning
  <2>3. CASE ~AllOut
    <3>0. ~evt /\ ~flag
      BY <2>1 DEF StopInv, RequestFollows
    <3>1. PICK w \in Worker : wpc[w] # "out"
      BY <2>3 DEF AllOut
    <3>2. wpc' # wpc
      BY <1>2, <3>1 DEF AllOut
    <3>3. PICK v \in Worker : WorkerStep(v) \/ WorkerRaises(v)
      <4>1. ~Start /\ ~ExecutorStep /\ ~ExecutorRaises /\ ~ResumeStep /\ ~CancelStep
        BY <1>2, <2>1, <3>2 DEF Start, ExecutorStep, ExecutorRaises, PlannerEnds, Review,
             ReplannerEnds, SynthesizerEnds, ResumeStep, ResumeLoad, ResumeClaim, ResumeAnnounce,
             ResumeList, ResumeReset, ResumePhase, CancelStep, CancelList, CancelFail,
             CancelStatus, CancelDelete, CancelMark, work
      <4>2. \A t \in Task : ~PlannerCreates(t)
        BY <3>2 DEF PlannerCreates, work
      <4>3. \A x \in Worker, t \in Task :
              ~TaskStep(x, t) /\ ~AgentCreates(x, t) /\ ~AgentSets(x, t) /\ ~AgentRaises(x, t)
        BY <3>2 DEF TaskStep, TaskStart, AgentReturns, TaskReport, TaskBlame, AgentCreates,
               AgentSets, AgentRaises, work
      <4>4. ~CancelThere /\ ~UNCHANGED vars
        BY <3>2 DEF CancelThere, NoRemoteCancel, vars, work
      <4> QED
        BY <2>1, <4>1, <4>2, <4>3, <4>4 DEF Next
    <3>4. wpc'[v] = "out" /\ ~WorkerRaises(v) /\ ~WorkerWatch(v) /\ ~WorkerDropped(v)
      BY <1>2, <2>1, <3>0 DEF AllOut, WorkerRaises, WorkerWatch, WorkerDropped, BoardAnswers,
         BoardRaises
    <3>5. WorkerPoll(v)
      <4>1. CASE WorkerCheck(v)
        <5>1. ~evt'
          BY <3>0, <4>1 DEF WorkerCheck
        <5> QED
          BY <1>0, <3>4, <4>1, <5>1 DEF WorkerCheck, Move, TypeOK
      <4>2. CASE WorkerLook(v) \/ WorkerGathers(v)
        BY <1>0, <3>4, <4>2 DEF WorkerLook, WorkerGathers, Move, TypeOK
      <4>3. \A t \in Task : ~WorkerClaim(v, t)
        BY <1>0, <3>4, ClaimEnds
      <4> QED
        BY <3>3, <3>4, <4>1, <4>2, <4>3 DEF WorkerStep
    <3> QED
      BY <1>0, <3>4, <3>5 DEF WorkerPoll, Move, TypeOK, Settled, WithStatus
  <2> QED
    BY <2>2, <2>3
<1>3. ASSUME phase' = "replan", NEW t \in known'
      PROVE  board'[t].status \in {"done", "failed"}
  <2>1. CASE Review
    <3>1. t \in Created /\ Settled /\ board' = board
      BY <1>3, <2>1 DEF Review, NothingLeft
    <3>2. t \in Task /\ board[t].status \in Status
      BY <1>0, <3>1 DEF Created, TypeOK, Entry
    <3> QED
      BY <3>1, <3>2 DEF Created, Settled, WithStatus, Status
  <2>2. CASE ~Review
    <3>1. phase = "replan" /\ known' = known
      <4>1. CASE Start \/ ExecutorStep \/ ExecutorRaises \/ Crash \/ CancelHere
        BY <1>3, <2>2, <4>1 DEF Start, ExecutorStep, ExecutorRaises, PlannerEnds, ReplannerEnds,
             SynthesizerEnds, Crash, CancelHere
      <4>2. CASE ResumeStep
        <5>1. ResumePhase => loaded \in Saved
          BY DEF ResumePhase, StopInv, WorkInv, ResumeHasLoaded, Resuming
        <5> QED
          BY <1>3, <4>2, <5>1 DEF ResumeStep, ResumeLoad, ResumeClaim, ResumeAnnounce, ResumeList,
             ResumeReset, ResumePhase, Saved
      <4>3. CASE CancelStep
        BY <1>3, <4>3 DEF CancelStep, CancelList, CancelFail, CancelStatus, CancelDelete,
           CancelMark, exec
      <4> QED
        BY <1>3, <4>1, <4>2, <4>3, PhaseSteps DEF exec
    <3>2. t \in Task /\ board[t].status \in {"done", "failed"}
      BY <1>0, <1>3, <3>1 DEF NothingLeft, TypeOK
    <3>3. Quiet
      BY <3>1, ElsewhereIdle DEF StopInv, RequestFollows, Quiet
    <3>4. board'[t] = board[t]
      BY <1>0, <3>1, <3>2, <3>3, QuietBoard
    <3> QED
      BY <3>2, <3>4
  <2> QED
    BY <2>1, <2>2
<1> QED
  BY <1>1, <1>2, <1>3 DEF NothingLeft

LEMMA EndInit == Init => EndInv
<1> SUFFICES ASSUME Init PROVE EndInv
  OBVIOUS
<1>1. StopInv /\ WorkersWork
  BY StopInit, WorkersInit
<1>2. SavedFollows /\ NothingLeft
  BY DEF Init, SavedFollows, NothingLeft, Resuming
<1> QED
  BY <1>1, <1>2 DEF EndInv

LEMMA EndStep ==
  ASSUME EndInv, NoRemoteCancel, BoardAnswers, Worker # {}, [Next]_vars
  PROVE  EndInv'
<1>1. StopInv' /\ WorkersWork'
  BY StopStep, WorkersStep DEF EndInv
<1> QED
  BY <1>1, SavedStep, NothingLeftStep DEF EndInv

(* The synthesizer is called only when every task is done or failed and no *)
(* agent is at work, however the looks of the workers at the board, the    *)
(* tasks their agents create or settle and a cancel request overlap, in    *)
(* every wave and after every crash (agents/team_runner.py:599-690,        *)
(* 896-965).                                                               *)
THEOREM SynthesisIsLast ==
  ASSUME NoRemoteCancel, BoardAnswers, Worker # {}
  PROVE  Spec => []SynthesisSeesEverything
<1>1. EndInv /\ [Next]_vars => EndInv'
  BY EndStep
<1>2. EndInv => SynthesisSeesEverything
  BY DEF EndInv, SavedFollows, NothingLeft, Settled, Quiet, SynthesisSeesEverything
<1> QED
  BY <1>1, <1>2, EndInit, PTL DEF Spec

-----------------------------------------------------------------------------
(* The refinement.  Nobody cancels and no agent calls complete_task or     *)
(* fail_task, which settle tasks nobody holds.  A step that changes the    *)
(* board changes one task, while the queue is open; a step that does not   *)
(* may close it or open it again.                                          *)

LeftAlone == Events \cap {"statusTools", "cancelHere", "cancelThere"} = {}

OpenInv == OrderInv /\ ~evt

LEMMA LeftAloneMeans == LeftAlone => NoStatusTools /\ NoRemoteCancel
BY DEF LeftAlone, NoStatusTools, NoRemoteCancel

LEMMA OpenInit == Init => OpenInv
BY OrderInit DEF Init, OpenInv

LEMMA OpenStep ==
  ASSUME OpenInv, LeftAlone, [Next]_vars
  PROVE  OpenInv'
<1>1. OrderInv'
  BY OrderStep, LeftAloneMeans DEF OpenInv
<1>2. ASSUME NEW w \in Worker, WorkerStep(w) \/ WorkerRaises(w)
      PROVE  UNCHANGED evt
  BY <1>2, WorkerSignals DEF OpenInv, OrderInv, signals
<1>3. CASE Crash
  BY <1>1, <1>3 DEF Crash, OpenInv
<1>4. CASE Start \/ ExecutorStep \/ ExecutorRaises \/ ResumeStep \/ CancelStep \/ UNCHANGED vars
  <2>1. UNCHANGED evt
    BY <1>4 DEF Start, ExecutorStep, ExecutorRaises, PlannerEnds, Review, ReplannerEnds,
       SynthesizerEnds, ResumeStep, ResumeLoad, ResumeClaim, ResumeAnnounce, ResumeList,
       ResumeReset, ResumePhase, CancelStep, CancelList, CancelFail, CancelStatus, CancelDelete,
       CancelMark, signals, vars
  <2> QED
    BY <1>1, <2>1 DEF OpenInv
<1>5. \A t \in Task : PlannerCreates(t) => UNCHANGED evt
  BY DEF PlannerCreates, signals
<1>6. \A w \in Worker, t \in Task :
        TaskStep(w, t) \/ AgentCreates(w, t) \/ AgentSets(w, t) \/ AgentRaises(w, t) =>
          UNCHANGED evt
  BY DEF TaskStep, TaskStart, AgentReturns, TaskReport, TaskBlame, AgentCreates, AgentSets,
     AgentRaises, signals
<1>7. ~CancelHere /\ ~CancelThere
  BY DEF CancelHere, CancelThere, LeftAlone
<1> QED
  BY <1>1, <1>2, <1>3, <1>4, <1>5, <1>6, <1>7 DEF Next, OpenInv

HolderOf(t) == IF QueueState(t) = "doing" THEN board[t].assigned ELSE Nobody

LEMMA QueueReads ==
  ASSUME TypeOK, NEW t \in Task
  PROVE  /\ board[t].status = "none" => QueueState(t) = "none"
         /\ board[t].status = "pending" => QueueState(t) = "todo"
         /\ board[t].status \in {"claimed", "in_progress"} => QueueState(t) = "doing"
         /\ board[t].status \in {"done", "failed"} => QueueState(t) = board[t].status
         /\ HolderOf(t) = IF board[t].status \in {"claimed", "in_progress"}
                          THEN board[t].assigned ELSE Nobody
<1>1. board[t].status \in Status
  BY DEF TypeOK, Entry
<1>2. CASE board[t].status = "none"
  BY <1>2 DEF QueueState, HolderOf
<1>3. CASE board[t].status = "pending"
  BY <1>3 DEF QueueState, HolderOf
<1>4. CASE board[t].status \in {"claimed", "in_progress"}
  BY <1>4 DEF QueueState, HolderOf
<1>5. CASE board[t].status \in {"done", "failed"}
  BY <1>5 DEF QueueState, HolderOf
<1> QED
  BY <1>1, <1>2, <1>3, <1>4, <1>5 DEF Status, Incomplete

LEMMA QueueTurns ==
  ASSUME TypeOK, TypeOK', OpenInv, NEW t \in Task, BoardStep(t)
  PROVE  /\ \A u \in Task : u # t => QueueState(u)' = QueueState(u) /\ HolderOf(u)' = HolderOf(u)
         /\ phase \notin {"synthesis", "ended"}
         /\ \/ QueueState(t)' = QueueState(t) /\ HolderOf(t)' = HolderOf(t)
            \/ QueueState(t) = "none" /\ QueueState(t)' = "todo" /\ HolderOf(t)' = Nobody
            \/ /\ QueueState(t) = "todo" /\ QueueState(t)' = "doing"
               /\ \E w \in Worker : HolderOf(t)' = w
            \/ /\ QueueState(t) = "doing" /\ HolderOf(t)' = Nobody
               /\ QueueState(t)' \in {"todo", "done", "failed"}
<1>1. \A u \in Task : u # t => QueueState(u)' = QueueState(u) /\ HolderOf(u)' = HolderOf(u)
  BY DEF BoardStep, QueueState, HolderOf
<1>2. phase \notin {"synthesis", "ended"}
  BY DEF BoardStep, Added, Taken, Worked, Undone, OpenInv, OrderInv, WorkersWork, Planning
<1>3. CASE Added(t)
  BY <1>1, <1>2, <1>3, QueueReads DEF Added, QueueState, HolderOf
<1>4. CASE Taken(t)
  <2>1. QueueState(t) = "todo" /\ QueueState(t)' = "doing" /\ HolderOf(t)' = board'[t].assigned
    BY <1>4, QueueReads DEF Taken, Ready, QueueState, HolderOf
  <2> QED
    BY <1>1, <1>2, <1>4, <2>1 DEF Taken
<1>5. CASE Worked(t)
  BY <1>1, <1>2, <1>5, QueueReads DEF Worked, QueueState, HolderOf
<1>6. CASE Undone(t)
  BY <1>1, <1>2, <1>6, QueueReads DEF Undone, QueueState, HolderOf
<1> QED
  BY <1>3, <1>4, <1>5, <1>6 DEF BoardStep

LEMMA QueueStep ==
  ASSUME OpenInv, OpenInv', LeftAlone, [Next]_vars
  PROVE  [Queue!Next]_(Queue!vars)
<1> DEFINE states == [t \in Task |-> QueueState(t)]
           holders == [t \in Task |-> IF QueueState(t) = "doing" THEN board[t].assigned ELSE Nobody]
           shut == phase \in {"synthesis", "ended"}
<1>0. TypeOK /\ TypeOK'
  BY DEF OpenInv, OrderInv, StopInv, WorkInv
<1>1. CASE UNCHANGED board
  <2>1. states' = states /\ holders' = holders
    BY <1>1 DEF QueueState
  <2>2. shut' = shut \/ (shut /\ shut' = FALSE) \/ (~shut /\ shut' = TRUE)
    OBVIOUS
  <2> HIDE DEF states, holders, shut
  <2>3. \/ UNCHANGED <<states, holders, shut>>
        \/ shut /\ shut' = FALSE /\ UNCHANGED <<states, holders>>
        \/ ~shut /\ shut' = TRUE /\ UNCHANGED <<states, holders>>
    BY <2>1, <2>2
  <2> QED
    BY <2>3 DEF states, holders, shut, Queue!Next, Queue!Close, Queue!Reopen, Queue!vars
<1>2. CASE \E t \in Task : BoardStep(t)
  <2>1. PICK t \in Task : BoardStep(t)
    BY <1>2
  <2>2. \A u \in Task : states[u] = QueueState(u) /\ holders[u] = HolderOf(u)
    BY DEF HolderOf
  <2>3. \A u \in Task : states'[u] = QueueState(u)' /\ holders'[u] = HolderOf(u)'
    BY DEF HolderOf
  <2>4. /\ \A u \in Task : u # t => QueueState(u)' = QueueState(u) /\ HolderOf(u)' = HolderOf(u)
        /\ ~shut
        /\ \/ QueueState(t)' = QueueState(t) /\ HolderOf(t)' = HolderOf(t)
           \/ QueueState(t) = "none" /\ QueueState(t)' = "todo" /\ HolderOf(t)' = Nobody
           \/ /\ QueueState(t) = "todo" /\ QueueState(t)' = "doing"
              /\ \E w \in Worker : HolderOf(t)' = w
           \/ /\ QueueState(t) = "doing" /\ HolderOf(t)' = Nobody
              /\ QueueState(t)' \in {"todo", "done", "failed"}
    BY <1>0, <2>1, QueueTurns
  <2>5. shut' = shut
    BY <2>1 DEF BoardStep
  <2>6. /\ states = [u \in Task |-> states[u]] /\ states' = [u \in Task |-> states'[u]]
        /\ holders = [u \in Task |-> holders[u]] /\ holders' = [u \in Task |-> holders'[u]]
    OBVIOUS
  <2> HIDE DEF states, holders, shut
  <2>7. /\ states' = [states EXCEPT ![t] = states'[t]]
        /\ holders' = [holders EXCEPT ![t] = holders'[t]]
    BY <2>2, <2>3, <2>4, <2>6
  <2>8. CASE QueueState(t)' = QueueState(t) /\ HolderOf(t)' = HolderOf(t)
    <3>1. states' = states /\ holders' = holders
      BY <2>2, <2>3, <2>6, <2>7, <2>8
    <3> QED
      BY <2>5, <3>1 DEF states, holders, shut, Queue!vars
  <2>9. CASE QueueState(t) = "none" /\ QueueState(t)' = "todo" /\ HolderOf(t)' = Nobody
    <3>1. /\ states[t] = "none" /\ ~shut /\ shut' = shut
          /\ states' = [states EXCEPT ![t] = "todo"] /\ holders' = [holders EXCEPT ![t] = Nobody]
      BY <2>2, <2>3, <2>4, <2>5, <2>7, <2>9
    <3>2. Queue!Add(t)
      BY <3>1 DEF states, holders, shut, Queue!Add, Queue!Set
    <3> QED
      BY <3>2 DEF Queue!Next
  <2>10. ASSUME NEW w \in Worker, QueueState(t) = "todo", QueueState(t)' = "doing",
                HolderOf(t)' = w
         PROVE  Queue!Next
    <3>1. /\ states[t] = "todo" /\ ~shut /\ shut' = shut
          /\ states' = [states EXCEPT ![t] = "doing"] /\ holders' = [holders EXCEPT ![t] = w]
      BY <2>2, <2>3, <2>4, <2>5, <2>7, <2>10
    <3>2. Queue!Take(t, w)
      BY <3>1 DEF states, holders, shut, Queue!Take, Queue!Set
    <3> QED
      BY <3>2 DEF Queue!Next
  <2>11. ASSUME QueueState(t) = "doing", HolderOf(t)' = Nobody,
                QueueState(t)' \in {"todo", "done", "failed"}
         PROVE  Queue!Next
    <3>1. /\ states[t] = "doing" /\ ~shut /\ shut' = shut
          /\ states' = [states EXCEPT ![t] = states'[t]]
          /\ holders' = [holders EXCEPT ![t] = Nobody]
          /\ states'[t] \in {"todo", "done", "failed"}
      BY <2>2, <2>3, <2>4, <2>5, <2>7, <2>11
    <3>2. Queue!GiveBack(t) \/ \E s \in {"done", "failed"} : Queue!Settle(t, s)
      BY <3>1 DEF states, holders, shut, Queue!GiveBack, Queue!Settle, Queue!Set
    <3> QED
      BY <3>2 DEF Queue!Next
  <2> QED
    BY <2>4, <2>8, <2>9, <2>10, <2>11
<1> QED
  BY <1>1, <1>2, StepsKeepOrder, LeftAloneMeans DEF OpenInv

LEMMA QueueInit == Init => Queue!Init
<1> SUFFICES ASSUME Init PROVE Queue!Init
  OBVIOUS
<1>1. \A t \in Task : QueueState(t) = "none"
  BY DEF Init, BoardInit, NoEntry, QueueState
<1> QED
  BY <1>1 DEF Init, Queue!Init

(* The board, the worker loops, the re-planner, the crashes and the resume *)
(* implement the queue of work, for any number of tasks and workers and    *)
(* with a board whose calls may raise (agents/team_runner.py:445-455,      *)
(* 896-1113, primitives/tasks/redis.py).                                   *)
THEOREM QueueIsImplemented ==
  ASSUME LeftAlone
  PROVE  Spec => QueueIsKept
<1>1. OpenInv /\ [Next]_vars => OpenInv'
  BY OpenStep
<1>2. OpenInv /\ OpenInv' /\ [Next]_vars => [Queue!Next]_(Queue!vars)
  BY QueueStep
<1> QED
  BY <1>1, <1>2, OpenInit, QueueInit, PTL DEF Spec, QueueIsKept, Queue!Spec

=============================================================================
