---------------------- MODULE CheckpointRecoveryProofs ----------------------
(***************************************************************************)
(* Theorems about CheckpointRecovery, for every fleet, every number of     *)
(* runs and turns and every set of environment events.                     *)
(***************************************************************************)
EXTENDS CheckpointRecovery, TLAPS

-----------------------------------------------------------------------------
(* The operators the actions are built from.                               *)

LEMMA GoEffect ==
  ASSUME TypeOK, NEW s \in Scanner, NEW r \in Run, NEW pc \in RecPc, Go(s, r, pc)
  PROVE  /\ rpc' \in [Scanner -> [Run -> RecPc]]
         /\ rpc'[s][r] = pc
         /\ \A t \in Scanner, q \in Run : t # s \/ q # r => rpc'[t][q] = rpc[t][q]
  BY DEF TypeOK, Go

LEMMA KeepEffect ==
  ASSUME TypeOK, NEW s \in Scanner, NEW r \in Run, NEW c \in Loaded, Keep(s, r, c)
  PROVE  /\ rctx' \in [Scanner -> [Run -> Loaded]]
         /\ rctx'[s][r] = c
         /\ \A t \in Scanner, q \in Run : t # s \/ q # r => rctx'[t][q] = rctx[t][q]
  BY DEF TypeOK, Keep

LEMMA NothingLoadedType ==
  /\ NothingLoaded \in Loaded
  /\ NothingLoaded.late = FALSE
  BY ConstantsAssumption DEF NothingLoaded, Loaded

LEMMA AddTurnProgress ==
  ASSUME NEW c \in Progress, c.turn < MaxTurns
  PROVE  /\ AddTurn(c) \in Progress
         /\ AddTurn(c).turn = c.turn + 1
         /\ AddTurn(c).msgs = c.msgs
  BY ConstantsAssumption DEF Progress, AddTurn

LEMMA AddMessagesProgress ==
  ASSUME NEW c \in Progress, c.msgs < c.turn
  PROVE  /\ AddMessages(c) \in Progress
         /\ AddMessages(c).turn = c.turn
         /\ AddMessages(c).msgs = c.msgs + 1
  BY ConstantsAssumption DEF Progress, AddMessages

LEMMA AddTurnLoaded ==
  ASSUME NEW c \in Loaded, c.turn < MaxTurns
  PROVE  /\ AddTurn(c) \in Loaded
         /\ AddTurn(c).turn = c.turn + 1
         /\ AddTurn(c).msgs = c.msgs
         /\ AddTurn(c).owner = c.owner
         /\ AddTurn(c).late = c.late
  BY ConstantsAssumption DEF Loaded, AddTurn

LEMMA AddMessagesLoaded ==
  ASSUME NEW c \in Loaded, c.msgs < c.turn
  PROVE  /\ AddMessages(c) \in Loaded
         /\ AddMessages(c).turn = c.turn
         /\ AddMessages(c).msgs = c.msgs + 1
         /\ AddMessages(c).owner = c.owner
         /\ AddMessages(c).late = c.late
  BY ConstantsAssumption DEF Loaded, AddMessages

LEMMA SaveEffect ==
  ASSUME TypeOK, NEW r \in Run, NEW p \in Replica, NEW c,
         c.turn \in 0..MaxTurns, c.msgs \in 0..MaxTurns, Save(r, p, c)
  PROVE  /\ cp' \in [Run -> Checkpoint \cup {None}]
         /\ cp'[r] # None
         /\ cp'[r].owner = p /\ cp'[r].turn = c.turn /\ cp'[r].msgs = c.msgs
         /\ \A q \in Run : q # r => cp'[q] = cp[q]
<1> DEFINE new == [owner |-> p, turn |-> c.turn, msgs |-> c.msgs]
<1>1. new \in Checkpoint
  BY DEF Checkpoint
<1>2. new # None
  BY <1>1, ConstantsAssumption
<1> QED
  BY <1>1, <1>2 DEF Save, TypeOK

LEMMA DeleteEffect ==
  ASSUME TypeOK, NEW r \in Run, Delete(r)
  PROVE  /\ cp' \in [Run -> Checkpoint \cup {None}]
         /\ lock' \in [Run -> Replica \cup {None}]
         /\ cp'[r] = None
         /\ \A q \in Run : q # r => cp'[q] = cp[q]
  BY DEF Delete, TypeOK

LEMMA CheckpointFields ==
  ASSUME TypeOK, NEW r \in Run, cp[r] # None
  PROVE  /\ cp[r].owner \in Replica
         /\ cp[r].turn \in 0..MaxTurns
         /\ cp[r].msgs \in 0..MaxTurns
  BY DEF TypeOK, Checkpoint

LEMMA LoadedFields ==
  ASSUME TypeOK, NEW s \in Scanner, NEW r \in Run
  PROVE  /\ rctx[s][r] \in Loaded
         /\ rctx[s][r].owner \in Replica \cup {None}
         /\ rctx[s][r].turn \in 0..MaxTurns
         /\ rctx[s][r].msgs \in 0..MaxTurns
  BY DEF TypeOK, Loaded

LEMMA ProgressFields ==
  ASSUME TypeOK, NEW r \in Run
  PROVE  /\ octx[r] \in Progress
         /\ octx[r].turn \in 0..MaxTurns
         /\ octx[r].msgs \in 0..MaxTurns
  BY DEF TypeOK, Progress

-----------------------------------------------------------------------------
(* Type correctness.  The loops count a turn before they ask the model and *)
(* keep its messages after it has answered, so that a checkpoint is always *)
(* a turn ahead of its messages and no counter passes max_turns.           *)

OrigTurnsOK(pc, c) ==
  /\ pc = "none" => c.turn = 0 /\ c.msgs = 0
  /\ pc = "turn" => c.turn < MaxTurns /\ c.msgs = c.turn
  /\ pc = "llm" => c.turn = c.msgs + 1

RecTurnsOK(pc, c) ==
  /\ pc \in {"lock", "claim", "restore", "llm"} => c.msgs < c.turn
  /\ pc = "loop" => c.msgs <= c.turn
  /\ pc = "turn" => c.turn < MaxTurns /\ c.msgs <= c.turn

TurnsOK ==
  /\ \A r \in Run : opc[r] # "none" => home[r] \in Replica
  /\ \A r \in Run : OrigTurnsOK(opc[r], octx[r])
  /\ \A r \in Run : cp[r] # None => cp[r].msgs < cp[r].turn
  /\ \A s \in Scanner, r \in Run : RecTurnsOK(rpc[s][r], rctx[s][r])

TypeInv == TypeOK /\ TurnsOK

LEMMA TypeInit == Init => TypeInv
<1> SUFFICES ASSUME Init PROVE TypeInv
  OBVIOUS
<1>1. TypeOK
  BY ConstantsAssumption, NothingLoadedType
     DEF Init, TypeOK, Progress, OrigPc, RecPc
<1>2. TurnsOK
  BY DEF Init, TurnsOK, OrigTurnsOK, RecTurnsOK
<1> QED
  BY <1>1, <1>2 DEF TypeInv

(* A step that moves one recovery.                                         *)
LEMMA RecMove ==
  ASSUME TypeInv, NEW s \in Scanner, NEW r \in Run,
         NEW pc \in RecPc, Go(s, r, pc),
         rctx' = rctx \/ (\E c \in Loaded : Keep(s, r, c)),
         RecTurnsOK(pc, rctx'[s][r])
  PROVE  /\ rpc' \in [Scanner -> [Run -> RecPc]]
         /\ rctx' \in [Scanner -> [Run -> Loaded]]
         /\ \A t \in Scanner, q \in Run : RecTurnsOK(rpc'[t][q], rctx'[t][q])
<1>1. /\ rpc' \in [Scanner -> [Run -> RecPc]]
      /\ rpc'[s][r] = pc
      /\ \A t \in Scanner, q \in Run : t # s \/ q # r => rpc'[t][q] = rpc[t][q]
  BY GoEffect DEF TypeInv
<1>2. /\ rctx' \in [Scanner -> [Run -> Loaded]]
      /\ \A t \in Scanner, q \in Run : t # s \/ q # r => rctx'[t][q] = rctx[t][q]
  <2>1. CASE rctx' = rctx
    BY <2>1 DEF TypeInv, TypeOK
  <2>2. ASSUME NEW c \in Loaded, Keep(s, r, c) PROVE <1>2!1 /\ <1>2!2
    BY <2>2, KeepEffect DEF TypeInv
  <2> QED
    BY <2>1, <2>2
<1>3. ASSUME NEW t \in Scanner, NEW q \in Run
      PROVE  RecTurnsOK(rpc'[t][q], rctx'[t][q])
  <2>1. CASE t = s /\ q = r
    BY <2>1, <1>1
  <2>2. CASE t # s \/ q # r
    BY <2>2, <1>1, <1>2 DEF TypeInv, TurnsOK
  <2> QED
    BY <2>1, <2>2
<1> QED
  BY <1>1, <1>2, <1>3

LEMMA TypeReplicaStep ==
  ASSUME TypeInv, NEW p \in Replica, ReplicaStep(p)
  PROVE  TypeInv'
<1> USE DEF TypeInv
<1> USE ConstantsAssumption
<1>1. CASE StartReplica(p)
  BY <1>1 DEF StartReplica, redis, orig, rec, TypeOK, TurnsOK
<1>2. CASE Heartbeat(p)
  BY <1>2 DEF Heartbeat, redis, orig, rec, TypeOK, TurnsOK
<1>3. CASE BeatExpires(p)
  BY <1>3 DEF BeatExpires, redis, orig, rec, TypeOK, TurnsOK
<1>4. CASE BeatLapses(p)
  BY <1>4 DEF BeatLapses, redis, orig, rec, TypeOK, TurnsOK
<1>5. CASE Crash(p)
  <2>1. TypeOK'
    BY <1>5, NothingLoadedType
       DEF Crash, redis, TypeOK, OrigPc, OrigActive, RecPc
  <2>2. TurnsOK'
    BY <1>5 DEF Crash, redis, TypeOK, TurnsOK, OrigTurnsOK, RecTurnsOK, OrigActive
  <2> QED
    BY <2>1, <2>2
<1>6. CASE Shutdown(p)
  <2>1. TypeOK'
    BY <1>6 DEF Shutdown, redis, TypeOK, OrigPc, OrigActive, OrigAfterCancel,
                RecPc, Scanning, Looping, Executing, Holding, Recovering, RecAfterCancel
  <2>2. TurnsOK'
    BY <1>6 DEF Shutdown, redis, TypeOK, TurnsOK, OrigTurnsOK, RecTurnsOK,
                OrigAfterCancel, RecAfterCancel, Looping
  <2> QED
    BY <2>1, <2>2
<1>7. CASE Exit(p)
  BY <1>7 DEF Exit, redis, orig, rec, TypeOK, TurnsOK
<1>8. ASSUME NEW r \in Run, Submit(r, p) PROVE TypeInv'
  BY <1>8 DEF Submit, fleet, redis, rec, TypeOK, TurnsOK, OrigTurnsOK, OrigPc, OrigActive
<1>9. ASSUME NEW r \in Run, CancelTasks(r, p) PROVE TypeInv'
  <2>1. opc' \in [Run -> OrigPc] /\ \A q \in Run : OrigTurnsOK(opc'[q], octx'[q])
    BY <1>9 DEF CancelTasks, TypeOK, TurnsOK, OrigTurnsOK, OrigPc, OrigActive, OrigAfterCancel
  <2>2. \A q \in Run : opc'[q] # "none" => home'[q] \in Replica
    BY <1>9 DEF CancelTasks, TypeOK, TurnsOK
  <2>3. /\ rpc' \in [Scanner -> [Run -> RecPc]]
        /\ \A s \in Scanner, q \in Run : RecTurnsOK(rpc'[s][q], rctx'[s][q])
    <3>1. CASE UNCHANGED rpc
      BY <3>1, <1>9 DEF CancelTasks, TypeOK, TurnsOK
    <3>2. ASSUME NEW s \in Scanner, Go(s, r, RecAfterCancel(rpc[s][r])) PROVE <2>3
      <4>1. RecAfterCancel(rpc[s][r]) \in {"fin", "release", "idle"}
        BY DEF RecAfterCancel
      <4>2. RecAfterCancel(rpc[s][r]) \in RecPc
        BY <4>1 DEF RecPc, Recovering, Holding, Executing
      <4>3. RecTurnsOK(RecAfterCancel(rpc[s][r]), rctx'[s][r])
        BY <4>1 DEF RecTurnsOK
      <4>4. rctx' = rctx
        BY <1>9 DEF CancelTasks
      <4> QED
        BY <3>2, <4>2, <4>3, <4>4, RecMove
    <3> QED
      BY <1>9, <3>1, <3>2 DEF CancelTasks
  <2>4. TypeOK'
    BY <1>9, <2>1, <2>3 DEF CancelTasks, fleet, redis, TypeOK
  <2>5. TurnsOK'
    BY <1>9, <2>1, <2>2, <2>3 DEF CancelTasks, redis, TurnsOK
  <2> QED
    BY <2>4, <2>5
<1> QED
  BY <1>1, <1>2, <1>3, <1>4, <1>5, <1>6, <1>7, <1>8, <1>9 DEF ReplicaStep

LEMMA TypeRunStep ==
  ASSUME TypeInv, NEW r \in Run, RunStep(r)
  PROVE  TypeInv'
<1> USE DEF TypeInv
<1> USE ConstantsAssumption
<1>a. ASSUME NEW pc \in {"mark", "done"}, api' = [api EXCEPT ![r].pc = pc]
      PROVE  api' \in [Run -> [pc: {"idle", "delete", "mark", "done"}, at: Replica \cup {None}]]
  <2>1. api \in [Run -> [pc: {"idle", "delete", "mark", "done"}, at: Replica \cup {None}]]
    BY DEF TypeOK
  <2> QED
    BY <1>a, <2>1
<1>1. CASE OrigCheckpoint(r)
  <2>1. octx[r].turn < MaxTurns /\ octx[r].msgs = octx[r].turn /\ home[r] \in Replica
    BY <1>1 DEF OrigCheckpoint, TurnsOK, OrigTurnsOK
  <2>2. /\ octx[r] \in Progress
        /\ octx[r].turn \in 0..MaxTurns /\ octx[r].msgs \in 0..MaxTurns
    BY ProgressFields
  <2> DEFINE c == AddTurn(octx[r])
  <2>3. c \in Progress /\ c.turn = octx[r].turn + 1 /\ c.msgs = octx[r].msgs
    BY <2>1, <2>2, AddTurnProgress
  <2>4. c.turn \in 0..MaxTurns /\ c.msgs \in 0..MaxTurns /\ c.turn = c.msgs + 1
    BY <2>1, <2>2, <2>3 DEF Progress
  <2>5. octx' = [octx EXCEPT ![r] = c]
    BY <1>1 DEF OrigCheckpoint
  <2> HIDE DEF c
  <2>6. /\ cp' \in [Run -> Checkpoint \cup {None}]
        /\ \A q \in Run : cp'[q] # None => cp'[q].msgs < cp'[q].turn
    <3>1. CASE Save(r, home[r], c)
      BY <3>1, <2>1, <2>4, SaveEffect DEF TurnsOK
    <3>2. CASE UNCHANGED cp
      BY <3>2 DEF TypeOK, TurnsOK
    <3> QED
      BY <1>1, <3>1, <3>2 DEF OrigCheckpoint, c
  <2>7. TypeOK'
    <3>1. octx' \in [Run -> Progress]
      BY <2>3, <2>5 DEF TypeOK
    <3>2. /\ opc' = [opc EXCEPT ![r] = "llm"]
          /\ UNCHANGED <<up, beat, lock, cancelKey, servable, home, rpc, rctx, api, outcome, failedAt>>
      BY <1>1 DEF OrigCheckpoint, fleet, rec
    <3> QED
      BY <2>6, <3>1, <3>2 DEF TypeOK, OrigPc, OrigActive
  <2>8. TurnsOK'
    <3>1. \A q \in Run : OrigTurnsOK(opc'[q], octx'[q])
      BY <1>1, <2>4, <2>5 DEF OrigCheckpoint, TypeOK, TurnsOK, OrigTurnsOK
    <3>2. \A q \in Run : opc'[q] # "none" => home'[q] \in Replica
      BY <1>1 DEF OrigCheckpoint, TypeOK, TurnsOK
    <3> QED
      BY <1>1, <2>6, <3>1, <3>2 DEF OrigCheckpoint, rec, TurnsOK
  <2> QED
    BY <2>7, <2>8
<1>2. CASE OrigToolTurn(r)
  <2>1. /\ octx[r].turn < MaxTurns /\ octx[r].turn = octx[r].msgs + 1
        /\ octx[r] \in Progress
        /\ octx[r].turn \in 0..MaxTurns /\ octx[r].msgs \in 0..MaxTurns
    BY <1>2, ProgressFields DEF OrigToolTurn, TurnsOK, OrigTurnsOK
  <2> DEFINE c == AddMessages(octx[r])
  <2>2. c \in Progress /\ c.turn < MaxTurns /\ c.msgs = c.turn
    BY <2>1, AddMessagesProgress
  <2>3. octx' = [octx EXCEPT ![r] = c]
    BY <1>2 DEF OrigToolTurn
  <2> HIDE DEF c
  <2>4. TypeOK'
    BY <1>2, <2>2, <2>3 DEF OrigToolTurn, fleet, redis, rec, TypeOK, OrigPc, OrigActive
  <2>5. TurnsOK'
    BY <1>2, <2>2, <2>3 DEF OrigToolTurn, redis, rec, TypeOK, TurnsOK, OrigTurnsOK
  <2> QED
    BY <2>4, <2>5
<1>3. CASE OrigLastTurn(r)
  BY <1>3 DEF OrigLastTurn, EndRun, fleet, redis, rec, TypeOK, TurnsOK, OrigTurnsOK,
              OrigPc, OrigActive
<1>4. CASE OrigFinalize(r)
  <2>1. /\ cp' \in [Run -> Checkpoint \cup {None}]
        /\ lock' \in [Run -> Replica \cup {None}]
        /\ \A q \in Run : cp'[q] # None => cp'[q].msgs < cp'[q].turn
    BY <1>4, DeleteEffect DEF OrigFinalize, TypeOK, TurnsOK
  <2> QED
    BY <1>4, <2>1 DEF OrigFinalize, fleet, rec, TypeOK, TurnsOK, OrigTurnsOK, OrigPc
<1>5. CASE LockExpires(r)
  BY <1>5 DEF LockExpires, fleet, orig, rec, TypeOK, TurnsOK
<1>6. CASE CancelDelete(r)
  <2>1. /\ cp' \in [Run -> Checkpoint \cup {None}]
        /\ lock' \in [Run -> Replica \cup {None}]
        /\ \A q \in Run : cp'[q] # None => cp'[q].msgs < cp'[q].turn
    BY <1>6, DeleteEffect DEF CancelDelete, TypeOK, TurnsOK
  <2>2. /\ api' = [api EXCEPT ![r].pc = "mark"]
        /\ UNCHANGED <<up, beat, cancelKey, servable, opc, home, octx, rpc, rctx, outcome, failedAt>>
    BY <1>6 DEF CancelDelete, fleet, orig, rec
  <2>3. api' \in [Run -> [pc: {"idle", "delete", "mark", "done"}, at: Replica \cup {None}]]
    BY <2>2, <1>a
  <2>4. TypeOK'
    BY <2>1, <2>2, <2>3 DEF TypeOK
  <2>5. TurnsOK'
    BY <2>1, <2>2 DEF TurnsOK
  <2> QED
    BY <2>4, <2>5
<1>7. CASE CancelMark(r)
  <2>1. api' \in [Run -> [pc: {"idle", "delete", "mark", "done"}, at: Replica \cup {None}]]
    BY <1>7, <1>a DEF CancelMark
  <2>2. cancelKey' \in [Run -> BOOLEAN]
    BY <1>7 DEF CancelMark, TypeOK
  <2>3. UNCHANGED <<up, beat, cp, lock, servable, opc, home, octx, rpc, rctx, outcome, failedAt>>
    BY <1>7 DEF CancelMark, fleet, orig, rec
  <2> QED
    BY <2>1, <2>2, <2>3 DEF TypeOK, TurnsOK
<1>8. CASE CancelKeyExpires(r)
  BY <1>8 DEF CancelKeyExpires, fleet, orig, rec, TypeOK, TurnsOK
<1>9. CASE Revoke(r)
  BY <1>9 DEF Revoke, fleet, redis, orig, rec, TypeOK, TurnsOK
<1> QED
  BY <1>1, <1>2, <1>3, <1>4, <1>5, <1>6, <1>7, <1>8, <1>9 DEF RunStep, OrigStep

(* A step that moves one recovery and leaves the store alone.              *)
LEMMA RecMoveOnly ==
  ASSUME TypeInv, NEW s \in Scanner, NEW r \in Run,
         NEW pc \in RecPc, Go(s, r, pc),
         rctx' = rctx \/ (\E c \in Loaded : Keep(s, r, c)),
         RecTurnsOK(pc, rctx'[s][r]),
         UNCHANGED <<fleet, cp, cancelKey, servable, orig, api>>,
         lock' \in [Run -> Replica \cup {None}],
         outcome' \in [Run -> {"no", "ran", "user"}],
         failedAt' \in [Run -> SUBSET Replica]
  PROVE  TypeInv'
<1>1. /\ rpc' \in [Scanner -> [Run -> RecPc]]
      /\ rctx' \in [Scanner -> [Run -> Loaded]]
      /\ \A t \in Scanner, q \in Run : RecTurnsOK(rpc'[t][q], rctx'[t][q])
  BY RecMove
<1>2. TypeOK'
  BY <1>1 DEF TypeInv, TypeOK, fleet, orig
<1>3. TurnsOK'
  BY <1>1 DEF TypeInv, TurnsOK, orig
<1> QED
  BY <1>2, <1>3 DEF TypeInv

(* The same for a step that saves the checkpoint.                          *)
LEMMA RecMoveSave ==
  ASSUME TypeInv, NEW s \in Scanner, NEW r \in Run,
         NEW pc \in RecPc, Go(s, r, pc),
         rctx' = rctx \/ (\E c \in Loaded : Keep(s, r, c)),
         RecTurnsOK(pc, rctx'[s][r]),
         NEW c \in Loaded, c.msgs < c.turn,
         Save(r, Host[s], c) \/ UNCHANGED cp,
         UNCHANGED <<fleet, lock, cancelKey, servable, orig, api, outcome, failedAt>>
  PROVE  TypeInv'
<1>1. /\ rpc' \in [Scanner -> [Run -> RecPc]]
      /\ rctx' \in [Scanner -> [Run -> Loaded]]
      /\ \A t \in Scanner, q \in Run : RecTurnsOK(rpc'[t][q], rctx'[t][q])
  BY RecMove
<1>2. /\ cp' \in [Run -> Checkpoint \cup {None}]
      /\ \A q \in Run : cp'[q] # None => cp'[q].msgs < cp'[q].turn
  <2>1. CASE Save(r, Host[s], c)
    <3>1. Host[s] \in Replica
      BY ConstantsAssumption
    <3>2. c.turn \in 0..MaxTurns /\ c.msgs \in 0..MaxTurns
      BY DEF Loaded
    <3> QED
      BY <2>1, <3>1, <3>2, SaveEffect DEF TypeInv, TurnsOK
  <2>2. CASE UNCHANGED cp
    BY <2>2 DEF TypeInv, TypeOK, TurnsOK
  <2> QED
    BY <2>1, <2>2
<1>3. TypeOK'
  BY <1>1, <1>2 DEF TypeInv, TypeOK, fleet, orig
<1>4. TurnsOK'
  BY <1>1, <1>2 DEF TypeInv, TurnsOK, orig
<1> QED
  BY <1>3, <1>4 DEF TypeInv

LEMMA RecPcElements ==
  RecPc = {"idle", "scan", "check", "orphan", "lock", "claim", "restore",
           "loop", "turn", "llm", "fin", "release"}
  BY DEF RecPc, Scanning, Recovering, Holding, Executing, Looping

LEMMA TypeRecStep ==
  ASSUME TypeInv, NEW s \in Scanner, NEW r \in Run, RecStep(s, r)
  PROVE  TypeInv'
<1> DEFINE pc == rpc[s][r]
           c  == rctx[s][r]
<1>a. /\ RecTurnsOK(pc, c)
      /\ c \in Loaded
      /\ c.turn \in 0..MaxTurns /\ c.msgs \in 0..MaxTurns
      /\ c.owner \in Replica \cup {None}
      /\ lock \in [Run -> Replica \cup {None}]
      /\ outcome \in [Run -> {"no", "ran", "user"}]
      /\ failedAt \in [Run -> SUBSET Replica]
      /\ Host[s] \in Replica
  BY LoadedFields, ConstantsAssumption DEF TypeInv, TypeOK, TurnsOK
<1>k. ASSUME NEW d \in Loaded, Keep(s, r, d) PROVE rctx'[s][r] = d
  BY <1>k, KeepEffect DEF TypeInv
<1>f. Fails(s, r) => failedAt' \in [Run -> SUBSET Replica]
  BY <1>a DEF Fails
<1>1. CASE ScanLoad(s, r)
  <2>1. CASE cp[r] # None /\ Go(s, r, "check")
             /\ Keep(s, r, [NothingLoaded EXCEPT !.owner = cp[r].owner])
    <3>1. [NothingLoaded EXCEPT !.owner = cp[r].owner] \in Loaded
      BY <2>1, CheckpointFields, NothingLoadedType DEF Loaded, TypeInv
    <3>2. RecTurnsOK("check", rctx'[s][r])
      BY DEF RecTurnsOK
    <3> QED
      BY <1>1, <1>a, <2>1, <3>1, <3>2, RecPcElements, RecMoveOnly
         DEF ScanLoad, redis
  <2>2. CASE Go(s, r, "idle") /\ UNCHANGED rctx
    <3>1. RecTurnsOK("idle", rctx'[s][r])
      BY DEF RecTurnsOK
    <3> QED
      BY <1>1, <1>a, <2>2, <3>1, RecPcElements, RecMoveOnly DEF ScanLoad, redis
  <2> QED
    BY <1>1, <2>1, <2>2 DEF ScanLoad
<1>2. CASE ScanCheck(s, r)
  <2>1. \A q \in {"idle", "orphan"} : RecTurnsOK(q, rctx'[s][r])
    BY DEF RecTurnsOK
  <2> QED
    BY <1>2, <1>a, <2>1, NothingLoadedType, RecPcElements, RecMoveOnly
       DEF ScanCheck, redis
<1>3. CASE ResumeLoad(s, r)
  <2> DEFINE d == [turn |-> cp[r].turn, msgs |-> cp[r].msgs,
                   owner |-> cp[r].owner, late |-> api[r].pc = "done"]
  <2>1. CASE cp[r] # None /\ Go(s, r, "lock") /\ Keep(s, r, d)
    <3>1. d \in Loaded
      BY <2>1, CheckpointFields DEF Loaded, TypeInv
    <3>2. d.msgs < d.turn
      BY <2>1 DEF TypeInv, TurnsOK
    <3> HIDE DEF d
    <3>3. RecTurnsOK("lock", rctx'[s][r])
      BY <2>1, <3>1, <3>2, <1>k DEF RecTurnsOK
    <3> QED
      BY <1>3, <1>a, <2>1, <3>1, <3>3, RecPcElements, RecMoveOnly
         DEF ResumeLoad, redis
  <2>2. CASE Go(s, r, "idle") /\ UNCHANGED rctx
    <3>1. RecTurnsOK("idle", rctx'[s][r])
      BY DEF RecTurnsOK
    <3> QED
      BY <1>3, <1>a, <2>2, <3>1, RecPcElements, RecMoveOnly DEF ResumeLoad, redis
  <2> QED
    BY <1>3, <2>1, <2>2 DEF ResumeLoad
<1>4. CASE ResumeLock(s, r)
  <2>1. CASE Go(s, r, "claim") /\ lock' = [lock EXCEPT ![r] = Host[s]] /\ UNCHANGED rctx
    <3>1. RecTurnsOK("claim", rctx'[s][r])
      BY <1>4, <1>a, <2>1 DEF RecTurnsOK, ResumeLock
    <3>2. lock' \in [Run -> Replica \cup {None}]
      BY <2>1, <1>a
    <3> QED
      BY <1>4, <1>a, <2>1, <3>1, <3>2, RecPcElements, RecMoveOnly
         DEF ResumeLock
  <2>2. CASE Go(s, r, "idle") /\ Keep(s, r, NothingLoaded) /\ UNCHANGED lock
    <3>1. RecTurnsOK("idle", rctx'[s][r])
      BY DEF RecTurnsOK
    <3> QED
      BY <1>4, <1>a, <2>2, <3>1, NothingLoadedType, RecPcElements, RecMoveOnly
         DEF ResumeLock
  <2> QED
    BY <1>4, <2>1, <2>2 DEF ResumeLock
<1>5. CASE ResumeClaim(s, r)
  <2>1. c.msgs < c.turn /\ UNCHANGED rctx
    BY <1>5, <1>a DEF ResumeClaim, RecTurnsOK
  <2>2. RecTurnsOK("restore", rctx'[s][r])
    BY <2>1 DEF RecTurnsOK
  <2> QED
    BY <1>5, <1>a, <2>1, <2>2, RecPcElements, RecMoveSave DEF ResumeClaim
<1>6. CASE ResumeRestore(s, r)
  <2>1. \A q \in {"loop", "release"} : RecTurnsOK(q, rctx'[s][r])
    BY <1>6, <1>a DEF ResumeRestore, RecTurnsOK
  <2>2. failedAt' \in [Run -> SUBSET Replica]
    BY <1>6, <1>a, <1>f DEF ResumeRestore
  <2>3. Go(s, r, "loop") \/ Go(s, r, "release")
    BY <1>6 DEF ResumeRestore
  <2>4. /\ UNCHANGED <<fleet, cp, cancelKey, servable, orig, rctx, api>>
        /\ lock' = lock /\ outcome' = outcome
    BY <1>6 DEF ResumeRestore, redis
  <2> QED
    BY <1>a, <2>1, <2>2, <2>3, <2>4, RecPcElements, RecMoveOnly
<1>7. CASE RecTurnCheck(s, r)
  <2>1. CASE c.turn < MaxTurns /\ Go(s, r, "turn") /\ UNCHANGED <<outcome, failedAt>>
    <3>1. RecTurnsOK("turn", rctx'[s][r])
      BY <1>7, <1>a, <2>1 DEF RecTurnCheck, RecTurnsOK
    <3> QED
      BY <1>7, <1>a, <2>1, <3>1, RecPcElements, RecMoveOnly DEF RecTurnCheck, redis
  <2>2. CASE Go(s, r, "fin") /\ EndRun(r) /\ UNCHANGED failedAt
    <3>1. RecTurnsOK("fin", rctx'[s][r])
      BY DEF RecTurnsOK
    <3>2. outcome' \in [Run -> {"no", "ran", "user"}]
      BY <2>2, <1>a DEF EndRun
    <3> QED
      BY <1>7, <1>a, <2>2, <3>1, <3>2, RecPcElements, RecMoveOnly DEF RecTurnCheck, redis
  <2>3. CASE Go(s, r, "fin") /\ Fails(s, r) /\ UNCHANGED outcome
    <3>1. RecTurnsOK("fin", rctx'[s][r])
      BY DEF RecTurnsOK
    <3>2. failedAt' \in [Run -> SUBSET Replica] /\ outcome' \in [Run -> {"no", "ran", "user"}]
      BY <2>3, <1>a, <1>f
    <3> QED
      BY <1>7, <1>a, <2>3, <3>1, <3>2, RecPcElements, RecMoveOnly DEF RecTurnCheck, redis
  <2> QED
    BY <1>7, <2>1, <2>2, <2>3 DEF RecTurnCheck
<1>8. CASE RecCheckpoint(s, r)
  <2> DEFINE d == AddTurn(c)
  <2>1. c.turn < MaxTurns /\ c.msgs <= c.turn
    BY <1>8, <1>a DEF RecCheckpoint, RecTurnsOK
  <2>2. d \in Loaded /\ d.msgs < d.turn
    BY <1>a, <2>1, AddTurnLoaded
  <2>3. Keep(s, r, d) /\ (Save(r, Host[s], d) \/ UNCHANGED cp)
    BY <1>8 DEF RecCheckpoint
  <2> HIDE DEF d
  <2>4. RecTurnsOK("llm", rctx'[s][r])
    BY <2>2, <2>3, <1>k DEF RecTurnsOK
  <2> QED
    BY <1>8, <1>a, <2>2, <2>3, <2>4, RecPcElements, RecMoveSave DEF RecCheckpoint
<1>9. CASE RecToolTurn(s, r)
  <2> DEFINE d == AddMessages(c)
  <2>1. c.msgs < c.turn
    BY <1>9, <1>a DEF RecToolTurn, RecTurnsOK
  <2>2. d \in Loaded /\ d.msgs <= d.turn
    BY <1>a, <2>1, AddMessagesLoaded
  <2>3. Keep(s, r, d)
    BY <1>9 DEF RecToolTurn
  <2> HIDE DEF d
  <2>4. RecTurnsOK("loop", rctx'[s][r])
    BY <2>2, <2>3, <1>k DEF RecTurnsOK
  <2> QED
    BY <1>9, <1>a, <2>2, <2>3, <2>4, RecPcElements, RecMoveOnly DEF RecToolTurn, redis
<1>10. CASE RecLastTurn(s, r)
  <2>1. RecTurnsOK("fin", rctx'[s][r])
    BY DEF RecTurnsOK
  <2>2. outcome' \in [Run -> {"no", "ran", "user"}]
    BY <1>10, <1>a DEF RecLastTurn, EndRun
  <2> QED
    BY <1>10, <1>a, <2>1, <2>2, RecPcElements, RecMoveOnly DEF RecLastTurn, redis
<1>11. CASE RecFinalize(s, r)
  <2>1. /\ cp' \in [Run -> Checkpoint \cup {None}]
        /\ lock' \in [Run -> Replica \cup {None}]
        /\ \A q \in Run : cp'[q] # None => cp'[q].msgs < cp'[q].turn
    BY <1>11, DeleteEffect DEF RecFinalize, TypeInv, TypeOK, TurnsOK
  <2>2. /\ Go(s, r, "release")
        /\ UNCHANGED <<up, beat, cancelKey, servable, opc, home, octx, rctx, api, outcome, failedAt>>
    BY <1>11 DEF RecFinalize, fleet, orig
  <2>3. RecTurnsOK("release", rctx'[s][r])
    BY DEF RecTurnsOK
  <2>4. /\ rpc' \in [Scanner -> [Run -> RecPc]]
        /\ \A t \in Scanner, q \in Run : RecTurnsOK(rpc'[t][q], rctx'[t][q])
    BY <2>2, <2>3, RecPcElements, RecMove
  <2>5. TypeOK'
    BY <2>1, <2>2, <2>4 DEF TypeInv, TypeOK
  <2>6. TurnsOK'
    BY <2>1, <2>2, <2>4 DEF TypeInv, TurnsOK
  <2> QED
    BY <2>5, <2>6 DEF TypeInv
<1>12. CASE RecRelease(s, r)
  <2>1. RecTurnsOK("idle", rctx'[s][r])
    BY DEF RecTurnsOK
  <2>2. lock' \in [Run -> Replica \cup {None}]
    BY <1>12, <1>a DEF RecRelease
  <2> QED
    BY <1>12, <1>a, <2>1, <2>2, NothingLoadedType, RecPcElements, RecMoveOnly
       DEF RecRelease
<1> QED
  BY <1>1, <1>2, <1>3, <1>4, <1>5, <1>6, <1>7, <1>8, <1>9, <1>10, <1>11, <1>12
     DEF RecStep

LEMMA TypeScannerStep ==
  ASSUME TypeInv, NEW s \in Scanner, ScannerStep(s)
  PROVE  TypeInv'
<1>1. CASE ScanBegin(s)
  <2>1. TypeOK'
    BY <1>1, RecPcElements DEF ScanBegin, fleet, redis, orig, TypeInv, TypeOK
  <2>2. TurnsOK'
    BY <1>1 DEF ScanBegin, redis, orig, TypeInv, TypeOK, TurnsOK, RecTurnsOK
  <2> QED
    BY <2>1, <2>2 DEF TypeInv
<1>2. CASE ScanRaises(s)
  <2>1. TypeOK'
    BY <1>2, RecPcElements, NothingLoadedType
       DEF ScanRaises, fleet, redis, orig, TypeInv, TypeOK
  <2>2. TurnsOK'
    BY <1>2 DEF ScanRaises, redis, orig, TypeInv, TypeOK, TurnsOK, RecTurnsOK
  <2> QED
    BY <2>1, <2>2 DEF TypeInv
<1>3. ASSUME NEW r \in Run, RecStep(s, r) PROVE TypeInv'
  BY <1>3, TypeRecStep
<1>4. ASSUME NEW r \in Run, ResumeRaises(s, r) PROVE TypeInv'
  <2>1. RecTurnsOK("idle", rctx'[s][r])
    BY DEF RecTurnsOK
  <2>2. /\ lock' \in [Run -> Replica \cup {None}]
        /\ outcome' \in [Run -> {"no", "ran", "user"}]
        /\ failedAt' \in [Run -> SUBSET Replica]
    BY <1>4 DEF ResumeRaises, redis, TypeInv, TypeOK
  <2> QED
    BY <1>4, <2>1, <2>2, NothingLoadedType, RecPcElements, RecMoveOnly
       DEF ResumeRaises, redis
<1> QED
  BY <1>1, <1>2, <1>3, <1>4 DEF ScannerStep

LEMMA TypeStep == TypeInv /\ [Next]_vars => TypeInv'
<1> SUFFICES ASSUME TypeInv, [Next]_vars PROVE TypeInv'
  OBVIOUS
<1>1. ASSUME NEW p \in Replica, ReplicaStep(p) PROVE TypeInv'
  BY <1>1, TypeReplicaStep
<1>2. ASSUME NEW r \in Run, RunStep(r) PROVE TypeInv'
  BY <1>2, TypeRunStep
<1>3. ASSUME NEW s \in Scanner, ScannerStep(s) PROVE TypeInv'
  BY <1>3, TypeScannerStep
<1>4. CASE UNCHANGED vars
  BY <1>4 DEF vars, TypeInv, TypeOK, TurnsOK
<1> QED
  BY <1>1, <1>2, <1>3, <1>4 DEF Next

LEMMA TypeInvariant == Spec => []TypeInv
  BY TypeInit, TypeStep, PTL DEF Spec

(* Every variable keeps its type; in particular no execution, original or  *)
(* resumed, counts more turns than spec.max_turns.                         *)
THEOREM TypeCorrect == Spec => []TypeOK
<1>1. TypeInv => TypeOK
  BY DEF TypeInv
<1> QED
  BY <1>1, TypeInvariant, PTL
=============================================================================
