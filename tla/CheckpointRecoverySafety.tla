----------------------- MODULE CheckpointRecoverySafety -----------------------
(***************************************************************************)
(* The safety of run recovery: what the checkpoint store promises whatever *)
(* the size of the fleet and whatever the environment does, and what it    *)
(* promises when the environment spares it some of its faults.             *)
(***************************************************************************)
EXTENDS CheckpointRecoveryProofs

(* Only replicas that were started own anything.                           *)
KeepersStarted ==
  /\ \A r \in Run : cp[r] # None => up[cp[r].owner] # "new"
  /\ \A r \in Run : opc[r] # "none" => up[home[r]] # "new"
  /\ \A s \in Scanner, r \in Run : rpc[s][r] # "idle" => up[Host[s]] # "new"

(* A recovery is given up at a replica that is being stopped, or where an  *)
(* exception has ended a resume of the run.                                *)
GivenUp(s, r) == up[Host[s]] = "stopping" \/ Host[s] \in failedAt[r]

(* An execution reaches its clean-up because the run is over, or because   *)
(* it is given up; a user's cancel counts as the end of the run.           *)
StoppedOrOver ==
  /\ \A r \in Run : opc[r] = "fin" /\ outcome[r] = "no" => up[home[r]] = "stopping"
  /\ \A s \in Scanner, r \in Run :
       rpc[s][r] = "fin" /\ outcome[r] = "no" => GivenUp(s, r)
  /\ \A s \in Scanner, r \in Run :
       rpc[s][r] = "release" /\ outcome[r] = "no" /\ servable[r] => GivenUp(s, r)
  /\ \A r \in Run : api[r].pc # "idle" => outcome[r] # "no"

(* A scanner has no resume under way while it is scanning.                 *)
ScanThenResume ==
  \A s \in Scanner : ~ScanIsOver(s) =>
    \A r \in Run : rpc[s][r] \in {"idle", "orphan"} \cup Scanning

EndInv == KeepersStarted /\ StoppedOrOver /\ ScanThenResume

LEMMA EndInit == Init => EndInv
  BY ConstantsAssumption
     DEF Init, EndInv, KeepersStarted, StoppedOrOver, GivenUp, ScanThenResume, ScanIsOver, Scanning

LEMMA EndReplicaStep ==
  ASSUME TypeInv, EndInv, NEW p \in Replica, ReplicaStep(p)
  PROVE  EndInv'
<1> USE ConstantsAssumption
<1> USE DEF EndInv, KeepersStarted, StoppedOrOver, GivenUp, ScanThenResume, ScanIsOver, Scanning
<1>a. TypeOK /\ \A r \in Run : opc[r] # "none" => home[r] \in Replica
  BY DEF TypeInv, TurnsOK
<1>b. \A r \in Run : cp[r] # None => cp[r].owner \in Replica
  BY <1>a, CheckpointFields
<1>1. CASE StartReplica(p)
  BY <1>1, <1>a, <1>b DEF StartReplica, redis, orig, rec, TypeOK
<1>2. CASE Heartbeat(p) \/ BeatExpires(p) \/ BeatLapses(p)
  BY <1>2 DEF Heartbeat, BeatExpires, BeatLapses, redis, orig, rec
<1>3. CASE Crash(p)
  <2>1. /\ up[p] # "new" /\ up' = [up EXCEPT ![p] = "down"]
        /\ UNCHANGED <<cp, home, servable, outcome, failedAt>>
        /\ \A q \in Run : api'[q].pc # "idle" => api[q].pc # "idle"
        /\ \A q \in Run : /\ opc'[q] # "none" => opc[q] # "none"
                          /\ opc'[q] = "fin" => opc[q] = "fin" /\ home[q] # p
        /\ \A s \in Scanner, q \in Run :
              rpc'[s][q] # "idle" => rpc'[s][q] = rpc[s][q] /\ Host[s] # p
    BY <1>3, <1>a DEF Crash, redis, TypeOK, OrigActive, Alive
  <2>2. \A q \in Replica : /\ up'[q] = "new" <=> up[q] = "new"
                           /\ q # p => up'[q] = up[q]
    BY <1>a, <2>1 DEF TypeOK
  <2>3. KeepersStarted' /\ StoppedOrOver'
    BY <1>a, <1>b, <2>1, <2>2
  <2>4. ScanThenResume'
    BY <1>a, <2>1
  <2> QED
    BY <2>3, <2>4
<1>4. CASE Shutdown(p)
  <2>1. \A q \in Replica : up'[q] # "new" <=> up[q] # "new"
    BY <1>4, <1>a DEF Shutdown, TypeOK
  <2>2. KeepersStarted'
    BY <1>4, <1>a, <1>b, <2>1 DEF Shutdown, redis, TypeOK, OrigAfterCancel, RecAfterCancel
  <2>3. StoppedOrOver'
    BY <1>4, <1>a DEF Shutdown, TypeOK, OrigAfterCancel, RecAfterCancel, Looping
  <2>4. ScanThenResume'
    BY <1>4, <1>a DEF Shutdown, TypeOK, RecAfterCancel, Looping
  <2> QED
    BY <2>2, <2>3, <2>4
<1>5. CASE Exit(p)
  BY <1>5, <1>a, <1>b DEF Exit, redis, orig, rec, TypeOK, OrigActive
<1>6. ASSUME NEW r \in Run, Submit(r, p) PROVE EndInv'
  <2>1. /\ up[p] = "up" /\ UNCHANGED <<up, cp, servable, rpc, outcome, failedAt, api>>
        /\ \A q \in Run : q # r => opc'[q] = opc[q] /\ home'[q] = home[q]
        /\ opc'[r] = "turn" /\ home'[r] = p
    BY <1>6, <1>a DEF Submit, fleet, redis, rec, TypeOK
  <2> QED
    BY <1>b, <2>1
<1>7. ASSUME NEW r \in Run, CancelTasks(r, p) PROVE EndInv'
  <2>1. \A t \in Scanner, q \in Run :
           /\ rpc'[t][q] # "idle" => rpc[t][q] # "idle"
           /\ q # r => rpc'[t][q] = rpc[t][q]
           /\ rpc'[t][q] \in Scanning => rpc[t][q] \in Scanning
           /\ rpc[t][q] = "idle" => rpc'[t][q] = "idle"
           /\ rpc[t][q] # rpc'[t][q] => ScanIsOver(t)
    <3>1. CASE UNCHANGED rpc
      BY <3>1
    <3>2. ASSUME NEW s \in Scanner, Tracked(p, s, r), Go(s, r, RecAfterCancel(rpc[s][r]))
          PROVE  <2>1
      <4>1. rpc[s][r] # "idle" /\ rpc[s][r] \notin Scanning /\ ScanIsOver(s)
        BY <3>2 DEF Tracked, Recovering, Holding, Executing, Looping, Scanning
      <4>2. RecAfterCancel(rpc[s][r]) \in {"fin", "release", "idle"}
        BY DEF RecAfterCancel
      <4>3. RecAfterCancel(rpc[s][r]) \in RecPc
        BY <4>2, RecPcElements
      <4> QED
        BY <3>2, <1>a, <4>1, <4>2, <4>3, GoEffect
    <3> QED
      BY <1>7, <3>1, <3>2 DEF CancelTasks
  <2>2. KeepersStarted'
    BY <1>7, <1>a, <2>1 DEF CancelTasks, fleet, redis, TypeOK, OrigAfterCancel
  <2>3. StoppedOrOver'
    <3>1. outcome'[r] # "no" /\ \A q \in Run : q # r => outcome'[q] = outcome[q]
      BY <1>7, <1>a DEF CancelTasks, TypeOK
    <3> QED
      BY <1>7, <1>a, <2>1, <3>1 DEF CancelTasks, fleet, TypeOK
  <2>4. ScanThenResume'
    BY <2>1
  <2> QED
    BY <2>2, <2>3, <2>4
<1> QED
  BY <1>1, <1>2, <1>3, <1>4, <1>5, <1>6, <1>7 DEF ReplicaStep

LEMMA EndRunStep ==
  ASSUME TypeInv, EndInv, NEW r \in Run, RunStep(r)
  PROVE  EndInv'
<1> USE DEF EndInv
<1>a. TypeOK /\ \A q \in Run : opc[q] # "none" => home[q] \in Replica
  BY DEF TypeInv, TurnsOK
<1>b. ScanThenResume'
  BY DEF RunStep, OrigStep, OrigCheckpoint, OrigToolTurn, OrigLastTurn, OrigFinalize,
         LockExpires, CancelDelete, CancelMark, CancelKeyExpires, Revoke, rec,
         ScanThenResume, ScanIsOver
<1>1. CASE OrigCheckpoint(r)
  <2>1. \A q \in Run : cp'[q] # None => cp'[q] = cp[q] \/ (q = r /\ cp'[q].owner = home[r])
    <3> DEFINE c == AddTurn(octx[r])
    <3>1. home[r] \in Replica /\ c.turn \in 0..MaxTurns /\ c.msgs \in 0..MaxTurns
      BY <1>1, <1>a, ProgressFields, AddTurnProgress
         DEF OrigCheckpoint, TypeInv, TurnsOK, OrigTurnsOK, Progress
    <3>2. Save(r, home[r], c) \/ UNCHANGED cp
      BY <1>1 DEF OrigCheckpoint
    <3> HIDE DEF c
    <3>3. CASE Save(r, home[r], c)
      BY <1>a, <3>1, <3>3, SaveEffect
    <3> QED
      BY <3>2, <3>3
  <2>2. KeepersStarted'
    BY <1>1, <1>a, <2>1 DEF OrigCheckpoint, fleet, rec, TypeOK, KeepersStarted
  <2>3. StoppedOrOver'
    BY <1>1, <1>a DEF OrigCheckpoint, fleet, rec, TypeOK, StoppedOrOver, GivenUp
  <2> QED
    BY <1>b, <2>2, <2>3
<1>2. CASE OrigToolTurn(r)
  BY <1>2, <1>a, <1>b DEF OrigToolTurn, fleet, redis, rec, TypeOK, KeepersStarted, StoppedOrOver, GivenUp
<1>3. CASE OrigLastTurn(r)
  BY <1>3, <1>a, <1>b DEF OrigLastTurn, EndRun, fleet, redis, rec, TypeOK,
     KeepersStarted, StoppedOrOver, GivenUp
<1>4. CASE OrigFinalize(r)
  BY <1>4, <1>a, <1>b DEF OrigFinalize, Delete, fleet, rec, TypeOK, KeepersStarted, StoppedOrOver, GivenUp
<1>5. CASE LockExpires(r) \/ CancelKeyExpires(r)
  BY <1>5, <1>b DEF LockExpires, CancelKeyExpires, fleet, orig, rec, KeepersStarted, StoppedOrOver, GivenUp
<1>6. CASE CancelDelete(r)
  <2>1. \A q \in Run : cp'[q] # None => cp'[q] = cp[q]
    BY <1>6, <1>a DEF CancelDelete, Delete, TypeOK
  <2>2. api' = [api EXCEPT ![r].pc = "mark"] /\ api[r].pc = "delete"
    BY <1>6 DEF CancelDelete
  <2>3. UNCHANGED <<up, servable, opc, home, rpc, rctx, outcome, failedAt>>
    BY <1>6 DEF CancelDelete, fleet, orig, rec
  <2>4. KeepersStarted'
    BY <2>1, <2>3 DEF KeepersStarted
  <2>5. \A q \in Run : api'[q].pc # "idle" => api[q].pc # "idle"
    BY <1>a, <2>2 DEF TypeOK
  <2>6. StoppedOrOver'
    BY <2>3, <2>5 DEF StoppedOrOver, GivenUp
  <2> QED
    BY <1>b, <2>4, <2>6
<1>7. CASE CancelMark(r)
  BY <1>7, <1>a, <1>b DEF CancelMark, fleet, orig, rec, TypeOK, KeepersStarted, StoppedOrOver, GivenUp
<1>8. CASE Revoke(r)
  BY <1>8, <1>a, <1>b DEF Revoke, fleet, redis, orig, rec, TypeOK, KeepersStarted, StoppedOrOver, GivenUp
<1> QED
  BY <1>1, <1>2, <1>3, <1>4, <1>5, <1>6, <1>7, <1>8 DEF RunStep, OrigStep

(* What a step of a recovery does to the store, its own state apart.       *)
RecEffect(s, r) ==
  /\ UNCHANGED <<up, beat, servable, opc, home, octx, api>>
  /\ \A t \in Scanner, q \in Run : t # s \/ q # r => rpc'[t][q] = rpc[t][q]
  /\ \A q \in Run : outcome'[q] # outcome[q] => outcome[q] = "no" /\ outcome'[q] # "no"
  /\ \A q \in Run : failedAt[q] \subseteq failedAt'[q]
  /\ \A q \in Run : cp'[q] # cp[q] /\ cp'[q] # None => q = r /\ cp'[q].owner = Host[s]

(* How a recovery that changes the store or leaves it may end up there.    *)
RecEnds(s, r) ==
  /\ rpc[s][r] # "idle"
  /\ \A q \in Run : cp'[q] # cp[q] =>
       IF cp'[q] = None THEN q = r /\ rpc[s][r] = "fin" ELSE rpc'[s][r] \in Executing
  /\ rpc[s][r] \in Executing /\ rpc'[s][r] \notin Executing => rpc[s][r] = "release"
  /\ rpc'[s][r] \in Scanning => rpc[s][r] \in Scanning
  /\ rpc'[s][r] \notin {"idle", "orphan"} \cup Scanning => ScanIsOver(s)
  /\ rpc'[s][r] = "fin" => outcome'[r] # "no" \/ Host[s] \in failedAt'[r]
  /\ rpc'[s][r] = "release" =>
       rpc[s][r] = "fin" \/ ~servable[r] \/ Host[s] \in failedAt'[r]

LEMMA RecStepEffect ==
  ASSUME TypeInv, ScanThenResume, NEW s \in Scanner, NEW r \in Run,
         RecStep(s, r) \/ ResumeRaises(s, r)
  PROVE  RecEffect(s, r) /\ RecEnds(s, r)
<1> USE DEF RecEffect, RecEnds, Executing, Looping
<1>a. TypeOK
  BY DEF TypeInv
<1>b. \A pc \in RecPc : Go(s, r, pc) =>
        /\ rpc'[s][r] = pc
        /\ \A t \in Scanner, q \in Run : t # s \/ q # r => rpc'[t][q] = rpc[t][q]
  BY <1>a, GoEffect
<1>c. rpc[s][r] \notin {"idle", "orphan"} \cup Scanning => ScanIsOver(s)
  BY DEF ScanThenResume
<1>d. ASSUME EndRun(r)
      PROVE  /\ outcome'[r] # "no"
             /\ \A q \in Run : outcome'[q] # outcome[q] =>
                   outcome[q] = "no" /\ outcome'[q] # "no"
  BY <1>a, <1>d DEF EndRun, TypeOK
<1>e. ASSUME NEW c \in Loaded, Save(r, Host[s], c) \/ UNCHANGED cp
      PROVE  \A q \in Run : cp'[q] # cp[q] =>
               q = r /\ cp'[q] # None /\ cp'[q].owner = Host[s]
  <2>1. CASE Save(r, Host[s], c)
    <3>1. Host[s] \in Replica /\ c.turn \in 0..MaxTurns /\ c.msgs \in 0..MaxTurns
      BY ConstantsAssumption DEF Loaded
    <3> QED
      BY <1>a, <2>1, <3>1, SaveEffect
  <2> QED
    BY <1>e, <2>1
<1>f. ASSUME failedAt' = failedAt \/ Fails(s, r)
      PROVE  /\ \A q \in Run : failedAt[q] \subseteq failedAt'[q]
             /\ Fails(s, r) => Host[s] \in failedAt'[r]
  BY <1>a, <1>f DEF Fails, TypeOK
<1>1. CASE ScanLoad(s, r)
  BY <1>1, <1>b, RecPcElements DEF ScanLoad, fleet, redis, orig, Scanning
<1>2. CASE ScanCheck(s, r)
  BY <1>2, <1>b, RecPcElements DEF ScanCheck, fleet, redis, orig, Scanning
<1>3. CASE ResumeLoad(s, r)
  BY <1>3, <1>b, RecPcElements DEF ResumeLoad, fleet, redis, orig, Scanning
<1>4. CASE ResumeLock(s, r)
  BY <1>4, <1>b, <1>c, RecPcElements DEF ResumeLock, fleet, orig, Scanning
<1>5. CASE ResumeClaim(s, r)
  BY <1>5, <1>a, <1>b, <1>c, <1>e, RecPcElements, LoadedFields
     DEF ResumeClaim, fleet, orig, Scanning
<1>6. CASE ResumeRestore(s, r)
  BY <1>6, <1>b, <1>c, <1>f, RecPcElements DEF ResumeRestore, fleet, redis, orig, Scanning
<1>7. CASE RecTurnCheck(s, r)
  BY <1>7, <1>b, <1>c, <1>d, <1>f, RecPcElements DEF RecTurnCheck, fleet, redis, orig, Scanning
<1>8. CASE RecCheckpoint(s, r)
  <2> DEFINE c == AddTurn(rctx[s][r])
  <2>1. c \in Loaded
    BY <1>8, <1>a, LoadedFields, AddTurnLoaded DEF RecCheckpoint, TypeInv, TurnsOK, RecTurnsOK
  <2>2. Save(r, Host[s], c) \/ UNCHANGED cp
    BY <1>8 DEF RecCheckpoint
  <2> HIDE DEF c
  <2>3. \A q \in Run : cp'[q] # cp[q] =>
          q = r /\ cp'[q] # None /\ cp'[q].owner = Host[s]
    BY <2>1, <2>2, <1>e
  <2> QED
    BY <1>8, <1>b, <1>c, <2>3, RecPcElements DEF RecCheckpoint, fleet, orig, Scanning
<1>9. CASE RecToolTurn(s, r)
  BY <1>9, <1>b, <1>c, RecPcElements DEF RecToolTurn, fleet, redis, orig, Scanning
<1>10. CASE RecLastTurn(s, r)
  BY <1>10, <1>b, <1>c, <1>d, RecPcElements DEF RecLastTurn, fleet, redis, orig, Scanning
<1>11. CASE RecFinalize(s, r)
  BY <1>11, <1>a, <1>b, <1>c, RecPcElements
     DEF RecFinalize, Delete, fleet, orig, Scanning, TypeOK
<1>12. CASE RecRelease(s, r)
  BY <1>12, <1>b, RecPcElements DEF RecRelease, fleet, orig, Scanning
<1>13. CASE ResumeRaises(s, r)
  BY <1>13, <1>b, RecPcElements DEF ResumeRaises, fleet, redis, orig, Scanning
<1> QED
  BY <1>1, <1>2, <1>3, <1>4, <1>5, <1>6, <1>7, <1>8, <1>9, <1>10, <1>11, <1>12, <1>13
     DEF RecStep

LEMMA EndScannerStep ==
  ASSUME TypeInv, EndInv, NEW s \in Scanner, ScannerStep(s)
  PROVE  EndInv'
<1> USE DEF EndInv
<1>a. TypeOK
  BY DEF TypeInv
<1>1. CASE ScanBegin(s)
  <2>1. /\ UNCHANGED <<up, cp, servable, opc, home, api, outcome, failedAt>>
        /\ up[Host[s]] = "up"
        /\ \A t \in Scanner, q \in Run : t # s => rpc'[t][q] = rpc[t][q]
        /\ \A q \in Run : rpc[s][q] = "idle" /\ rpc'[s][q] \in {"idle", "scan"}
    BY <1>1, <1>a DEF ScanBegin, fleet, redis, orig, TypeOK
  <2> QED
    BY <2>1 DEF KeepersStarted, StoppedOrOver, GivenUp, ScanThenResume, ScanIsOver, Scanning
<1>2. CASE ScanRaises(s)
  <2>1. /\ UNCHANGED <<up, cp, servable, opc, home, api, outcome, failedAt>>
        /\ \A t \in Scanner, q \in Run : t # s => rpc'[t][q] = rpc[t][q]
        /\ \A q \in Run : rpc'[s][q] = "idle"
    BY <1>2, <1>a DEF ScanRaises, fleet, redis, orig, TypeOK
  <2> QED
    BY <2>1 DEF KeepersStarted, StoppedOrOver, GivenUp, ScanThenResume, ScanIsOver, Scanning
<1>3. ASSUME NEW r \in Run, RecStep(s, r) \/ ResumeRaises(s, r) PROVE EndInv'
  <2>1. RecEffect(s, r) /\ RecEnds(s, r)
    BY <1>3, RecStepEffect
  <2>2. KeepersStarted'
    BY <2>1 DEF RecEffect, RecEnds, KeepersStarted
  <2>3. StoppedOrOver'
    BY <2>1 DEF RecEffect, RecEnds, StoppedOrOver, GivenUp
  <2>4. ScanThenResume'
    BY <2>1 DEF RecEffect, RecEnds, ScanThenResume, ScanIsOver, Scanning
  <2> QED
    BY <2>2, <2>3, <2>4
<1> QED
  BY <1>1, <1>2, <1>3 DEF ScannerStep

LEMMA EndStep == TypeInv /\ EndInv /\ [Next]_vars => EndInv'
<1> SUFFICES ASSUME TypeInv, EndInv, [Next]_vars PROVE EndInv'
  OBVIOUS
<1>1. ASSUME NEW p \in Replica, ReplicaStep(p) PROVE EndInv'
  BY <1>1, EndReplicaStep
<1>2. ASSUME NEW r \in Run, RunStep(r) PROVE EndInv'
  BY <1>2, EndRunStep
<1>3. ASSUME NEW s \in Scanner, ScannerStep(s) PROVE EndInv'
  BY <1>3, EndScannerStep
<1>4. CASE UNCHANGED vars
  BY <1>4 DEF vars, EndInv, KeepersStarted, StoppedOrOver, GivenUp, ScanThenResume, ScanIsOver
<1> QED
  BY <1>1, <1>2, <1>3, <1>4 DEF Next

LEMMA EndInvariant == Spec => [](TypeInv /\ EndInv)
  BY TypeInvariant, EndInit, EndStep, PTL DEF Spec

-----------------------------------------------------------------------------
LEMMA AdoptedInit == Init => AdoptedRunsAreRunning
  BY DEF Init, AdoptedRunsAreRunning

LEMMA AdoptedReplicaStep ==
  ASSUME TypeInv, EndInv, AdoptedRunsAreRunning, NEW p \in Replica, ReplicaStep(p)
  PROVE  AdoptedRunsAreRunning'
<1> USE DEF AdoptedRunsAreRunning, ExecutesAt
<1>a. /\ TypeOK
      /\ \A r \in Run : opc[r] # "none" => home[r] \in Replica
      /\ \A r \in Run : cp[r] # None => cp[r].owner \in Replica /\ up[cp[r].owner] # "new"
  BY CheckpointFields DEF TypeInv, TurnsOK, EndInv, KeepersStarted
<1>1. CASE StartReplica(p)
  <2>1. \A q \in Replica : q # p => up'[q] = up[q]
    BY <1>1, <1>a DEF StartReplica, TypeOK
  <2> QED
    BY <1>1, <1>a, <2>1 DEF StartReplica, redis, orig, rec
<1>2. CASE Heartbeat(p) \/ BeatExpires(p) \/ BeatLapses(p)
  BY <1>2 DEF Heartbeat, BeatExpires, BeatLapses, redis, orig, rec
<1>3. CASE Crash(p)
  <2>1. /\ UNCHANGED <<cp, home, servable, outcome, failedAt>>
        /\ \A q \in Replica : up'[q] = "up" => q # p /\ up[q] = "up"
        /\ \A q \in Run : home[q] # p => opc'[q] = opc[q]
        /\ \A s \in Scanner, q \in Run : Host[s] # p => rpc'[s][q] = rpc[s][q]
    BY <1>3, <1>a DEF Crash, redis, TypeOK
  <2> QED
    BY <1>a, <2>1
<1>4. CASE Shutdown(p)
  <2>1. /\ UNCHANGED <<cp, home, servable, outcome, failedAt>>
        /\ \A q \in Replica : up'[q] = "up" => q # p /\ up[q] = "up"
        /\ \A q \in Run : home[q] # p => opc'[q] = opc[q]
        /\ \A s \in Scanner, q \in Run : Host[s] # p => rpc'[s][q] = rpc[s][q]
    BY <1>4, <1>a DEF Shutdown, redis, TypeOK
  <2> QED
    BY <1>a, <2>1
<1>5. CASE Exit(p)
  <2>1. \A q \in Replica : up'[q] = "up" => up[q] = "up"
    BY <1>5, <1>a DEF Exit, TypeOK
  <2> QED
    BY <1>5, <1>a, <2>1 DEF Exit, redis, orig, rec
<1>6. ASSUME NEW r \in Run, Submit(r, p) PROVE AdoptedRunsAreRunning'
  <2>1. /\ opc[r] = "none" /\ UNCHANGED <<up, cp, servable, outcome, failedAt, rpc>>
        /\ opc'[r] \in OrigActive /\ home'[r] = p
        /\ \A q \in Run : q # r => opc'[q] = opc[q] /\ home'[q] = home[q]
    BY <1>6, <1>a DEF Submit, fleet, redis, rec, TypeOK, OrigActive
  <2>2. "none" \notin OrigActive
    BY DEF OrigActive
  <2> QED
    BY <2>1, <2>2
<1>7. ASSUME NEW r \in Run, CancelTasks(r, p) PROVE AdoptedRunsAreRunning'
  <2>1. /\ UNCHANGED <<up, cp, servable, home, failedAt>>
        /\ outcome'[r] # "no"
        /\ \A q \in Run : q # r => opc'[q] = opc[q] /\ outcome'[q] = outcome[q]
    BY <1>7, <1>a DEF CancelTasks, fleet, redis, TypeOK
  <2>2. \A s \in Scanner, q \in Run : q # r => rpc'[s][q] = rpc[s][q]
    <3>1. ASSUME NEW s \in Scanner, Go(s, r, RecAfterCancel(rpc[s][r])) PROVE <2>2
      BY <3>1, <1>a DEF Go, TypeOK
    <3> QED
      BY <1>7, <3>1 DEF CancelTasks
  <2> QED
    BY <2>1, <2>2
<1> QED
  BY <1>1, <1>2, <1>3, <1>4, <1>5, <1>6, <1>7 DEF ReplicaStep

LEMMA AdoptedRunStep ==
  ASSUME TypeInv, EndInv, AdoptedRunsAreRunning, NEW r \in Run, RunStep(r)
  PROVE  AdoptedRunsAreRunning'
<1> USE DEF AdoptedRunsAreRunning, ExecutesAt
<1>a. TypeOK /\ StoppedOrOver /\ (opc[r] # "none" => home[r] \in Replica)
  BY DEF TypeInv, TurnsOK, EndInv
<1>1. CASE OrigCheckpoint(r)
  <2> DEFINE c == AddTurn(octx[r])
  <2>1. home[r] \in Replica /\ c.turn \in 0..MaxTurns /\ c.msgs \in 0..MaxTurns
    BY <1>1, <1>a, ProgressFields, AddTurnProgress
       DEF OrigCheckpoint, TypeInv, TurnsOK, OrigTurnsOK, Progress
  <2>2. Save(r, home[r], c) \/ UNCHANGED cp
    BY <1>1 DEF OrigCheckpoint
  <2> HIDE DEF c
  <2>3. \A q \in Run : cp'[q] # cp[q] => q = r /\ cp'[q].owner = home[r]
    <3>1. CASE Save(r, home[r], c)
      BY <1>a, <2>1, <3>1, SaveEffect
    <3> QED
      BY <2>2, <3>1
  <2>4. /\ UNCHANGED <<up, servable, outcome, failedAt, home, rpc>>
        /\ \A q \in Run : opc[q] \in OrigActive => opc'[q] \in OrigActive
        /\ opc'[r] \in OrigActive
    BY <1>1, <1>a DEF OrigCheckpoint, fleet, rec, TypeOK, OrigActive
  <2> QED
    BY <2>3, <2>4
<1>2. CASE OrigToolTurn(r)
  BY <1>2, <1>a DEF OrigToolTurn, fleet, redis, rec, TypeOK, OrigActive
<1>3. CASE OrigLastTurn(r)
  BY <1>3, <1>a DEF OrigLastTurn, EndRun, fleet, redis, rec, TypeOK, OrigActive
<1>4. CASE OrigFinalize(r)
  <2>1. /\ UNCHANGED <<up, servable, outcome, failedAt, home, rpc>>
        /\ outcome[r] = "no" => up[home[r]] = "stopping"
        /\ \A q \in Run : q # r => opc'[q] = opc[q]
    BY <1>4, <1>a DEF OrigFinalize, fleet, rec, TypeOK, StoppedOrOver
  <2>2. \A q \in Run : cp'[q] # None => cp'[q] = cp[q]
    BY <1>4, <1>a DEF OrigFinalize, Delete, TypeOK
  <2> QED
    BY <2>1, <2>2
<1>5. CASE LockExpires(r) \/ CancelKeyExpires(r) \/ CancelMark(r)
  BY <1>5 DEF LockExpires, CancelKeyExpires, CancelMark, fleet, orig, rec
<1>6. CASE CancelDelete(r)
  <2>1. \A q \in Run : cp'[q] # None => cp'[q] = cp[q]
    BY <1>6, <1>a DEF CancelDelete, Delete, TypeOK
  <2> QED
    BY <1>6, <2>1 DEF CancelDelete, fleet, orig, rec
<1>7. CASE Revoke(r)
  BY <1>7, <1>a DEF Revoke, fleet, redis, orig, rec, TypeOK
<1> QED
  BY <1>1, <1>2, <1>3, <1>4, <1>5, <1>6, <1>7 DEF RunStep, OrigStep

LEMMA AdoptedScannerStep ==
  ASSUME TypeInv, EndInv, AdoptedRunsAreRunning, NEW s \in Scanner, ScannerStep(s)
  PROVE  AdoptedRunsAreRunning'
<1> USE DEF AdoptedRunsAreRunning, ExecutesAt
<1>a. TypeOK /\ StoppedOrOver /\ ScanThenResume
  BY DEF TypeInv, EndInv
<1>1. CASE ScanBegin(s) \/ ScanRaises(s)
  <2>1. /\ UNCHANGED <<up, cp, servable, opc, home, outcome, failedAt>>
        /\ \A t \in Scanner, q \in Run : t # s => rpc'[t][q] = rpc[t][q]
    BY <1>1, <1>a DEF ScanBegin, ScanRaises, fleet, redis, orig, TypeOK
  <2>2. \A q \in Run : rpc[s][q] \notin Executing
    BY <1>1, <1>a DEF ScanBegin, ScanRaises, ScanThenResume, Executing, Looping, Scanning
  <2> QED
    BY <2>1, <2>2
<1>2. ASSUME NEW r \in Run, RecStep(s, r) \/ ResumeRaises(s, r)
      PROVE  AdoptedRunsAreRunning'
  <2>1. RecEffect(s, r) /\ RecEnds(s, r)
    BY <1>2, <1>a, RecStepEffect
  <2> SUFFICES ASSUME NEW q \in Run, outcome'[q] = "no", servable'[q], cp'[q] # None,
                      up'[cp'[q].owner] = "up", cp'[q].owner \notin failedAt'[q]
               PROVE  \/ home'[q] = cp'[q].owner /\ opc'[q] \in OrigActive
                      \/ \E t \in Scanner : Host[t] = cp'[q].owner /\ rpc'[t][q] \in Executing
    OBVIOUS
  <2>2. /\ outcome[q] = "no" /\ servable[q] /\ UNCHANGED <<up, opc, home>>
        /\ failedAt[q] \subseteq failedAt'[q]
    BY <2>1 DEF RecEffect
  <2>3. CASE cp'[q] = cp[q]
    <3>1. ExecutesAt(cp[q].owner, q)
      BY <2>2, <2>3
    <3>2. CASE q = r /\ rpc[s][r] \in Executing /\ Host[s] = cp[q].owner
      <4>1. rpc[s][r] # "release"
        BY <1>a, <2>2, <2>3, <3>2 DEF StoppedOrOver, GivenUp
      <4> QED
        BY <2>1, <2>3, <3>2, <4>1 DEF RecEnds
    <3> QED
      BY <2>1, <2>2, <2>3, <3>1, <3>2 DEF RecEffect
  <2>4. CASE cp'[q] # cp[q]
    BY <2>1, <2>4 DEF RecEffect, RecEnds
  <2> QED
    BY <2>3, <2>4
<1> QED
  BY <1>1, <1>2 DEF ScannerStep

LEMMA AdoptedStep ==
  ASSUME TypeInv, EndInv, AdoptedRunsAreRunning, [Next]_vars
  PROVE  AdoptedRunsAreRunning'
<1>1. ASSUME NEW p \in Replica, ReplicaStep(p) PROVE AdoptedRunsAreRunning'
  BY <1>1, AdoptedReplicaStep
<1>2. ASSUME NEW r \in Run, RunStep(r) PROVE AdoptedRunsAreRunning'
  BY <1>2, AdoptedRunStep
<1>3. ASSUME NEW s \in Scanner, ScannerStep(s) PROVE AdoptedRunsAreRunning'
  BY <1>3, AdoptedScannerStep
<1>4. CASE UNCHANGED vars
  BY <1>4 DEF vars, AdoptedRunsAreRunning, ExecutesAt
<1> QED
  BY <1>1, <1>2, <1>3, <1>4 DEF Next

(* Whatever the environment does, a checkpoint that names a live replica   *)
(* as its owner belongs to an execution in progress at that replica, with  *)
(* the exceptions AdoptedRunsAreRunning names: an agent that was deleted   *)
(* or un-shared, and a replica where an exception ended a resume of the    *)
(* run (runner.py:858).  So a run is hidden from every scan by an owner's  *)
(* heartbeat in these two cases only.                                      *)
THEOREM NoRunIsStranded == Spec => []AdoptedRunsAreRunning
<1>1. TypeInv /\ EndInv /\ AdoptedRunsAreRunning /\ [Next]_vars => AdoptedRunsAreRunning'
  BY AdoptedStep
<1> QED
  BY <1>1, AdoptedInit, EndInvariant, PTL DEF Spec

-----------------------------------------------------------------------------
(* Without graceful shutdowns nothing is cancelled but by a user.          *)
NothingStops == \A p \in Replica : up[p] # "stopping"

LEMMA NothingStopsStep ==
  ASSUME "shutdown" \notin Events, TypeInv, NothingStops, [Next]_vars
  PROVE  NothingStops'
<1> USE DEF NothingStops
<1>a. up \in [Replica -> {"new", "up", "stopping", "down"}]
  BY DEF TypeInv, TypeOK
<1>1. ASSUME NEW p \in Replica, ReplicaStep(p) PROVE NothingStops'
  BY <1>1, <1>a DEF ReplicaStep, StartReplica, Heartbeat, BeatExpires, BeatLapses, Crash,
     Shutdown, Exit, Submit, CancelTasks, fleet
<1>2. ASSUME NEW r \in Run, RunStep(r) PROVE NothingStops'
  BY <1>2 DEF RunStep, OrigStep, OrigCheckpoint, OrigToolTurn, OrigLastTurn, OrigFinalize,
     LockExpires, CancelDelete, CancelMark, CancelKeyExpires, Revoke, fleet
<1>3. ASSUME NEW s \in Scanner, ScannerStep(s) PROVE NothingStops'
  BY <1>3 DEF ScannerStep, ScanBegin, ScanRaises, RecStep, ScanLoad, ScanCheck, ResumeLoad,
     ResumeLock, ResumeClaim, ResumeRestore, RecTurnCheck, RecCheckpoint, RecToolTurn,
     RecLastTurn, RecFinalize, RecRelease, ResumeRaises, fleet
<1>4. CASE UNCHANGED vars
  BY <1>4 DEF vars
<1> QED
  BY <1>1, <1>2, <1>3, <1>4 DEF Next

(* With a store that answers no resume is left by an exception.            *)
NothingFails == \A r \in Run : failedAt[r] = {}

LEMMA NothingFailsStep ==
  ASSUME "storeError" \notin Events, NothingFails, [Next]_vars
  PROVE  NothingFails'
<1>1. ASSUME NEW p \in Replica, ReplicaStep(p) PROVE UNCHANGED failedAt
  BY <1>1 DEF ReplicaStep, StartReplica, Heartbeat, BeatExpires, BeatLapses, Crash,
     Shutdown, Exit, Submit, CancelTasks
<1>2. ASSUME NEW r \in Run, RunStep(r) PROVE UNCHANGED failedAt
  BY <1>2 DEF RunStep, OrigStep, OrigCheckpoint, OrigToolTurn, OrigLastTurn, OrigFinalize,
     LockExpires, CancelDelete, CancelMark, CancelKeyExpires, Revoke
<1>3. ASSUME NEW s \in Scanner, ScannerStep(s) PROVE UNCHANGED failedAt
  BY <1>3 DEF StoreRaises, ScannerStep, ScanBegin, ScanRaises, RecStep, ScanLoad, ScanCheck,
     ResumeLoad, ResumeLock, ResumeClaim, ResumeRestore, RecTurnCheck, RecCheckpoint,
     RecToolTurn, RecLastTurn, RecFinalize, RecRelease, ResumeRaises
<1>4. UNCHANGED failedAt
  BY <1>1, <1>2, <1>3 DEF Next, vars
<1> QED
  BY <1>4 DEF NothingFails

LEMMA KeptStep ==
  ASSUME "storeError" \notin Events, TypeInv, EndInv, NothingStops, NothingFails,
         NoRunIsLost, [Next]_vars
  PROVE  NoRunIsLost'
<1> USE DEF NoRunIsLost
<1>a. /\ TypeOK
      /\ \A r \in Run : opc[r] # "none" => home[r] \in Replica
      /\ \A r \in Run : opc[r] = "fin" => outcome[r] # "no"
      /\ \A s \in Scanner, r \in Run : rpc[s][r] = "fin" => outcome[r] # "no"
      /\ \A r \in Run : api[r].pc # "idle" => outcome[r] # "no"
  <2>1. TypeOK /\ \A r \in Run : opc[r] # "none" => home[r] \in Replica
    BY DEF TypeInv, TurnsOK
  <2>2. \A s \in Scanner : Host[s] \in Replica
    BY ConstantsAssumption
  <2> QED
    BY <2>1, <2>2 DEF EndInv, StoppedOrOver, GivenUp, NothingStops, NothingFails
<1>1. ASSUME NEW p \in Replica, ReplicaStep(p) PROVE NoRunIsLost'
  <2>1. UNCHANGED <<cp, octx>>
    BY <1>1 DEF ReplicaStep, StartReplica, Heartbeat, BeatExpires, BeatLapses, Crash,
       Shutdown, Exit, Submit, CancelTasks, redis, orig
  <2>2. \A r \in Run : outcome'[r] = "no" => outcome[r] = "no"
    BY <1>1, <1>a DEF ReplicaStep, StartReplica, Heartbeat, BeatExpires, BeatLapses, Crash,
       Shutdown, Exit, Submit, CancelTasks, TypeOK
  <2> QED
    BY <2>1, <2>2
<1>2. ASSUME NEW r \in Run, RunStep(r) PROVE NoRunIsLost'
  <2>1. CASE OrigCheckpoint(r)
    <3> DEFINE c == AddTurn(octx[r])
    <3>1. home[r] \in Replica /\ c.turn \in 0..MaxTurns /\ c.msgs \in 0..MaxTurns
      BY <2>1, <1>a, ProgressFields, AddTurnProgress
         DEF OrigCheckpoint, TypeInv, TurnsOK, OrigTurnsOK, Progress
    <3>2. Save(r, home[r], c)
      BY <2>1 DEF OrigCheckpoint, StoreRaises
    <3> HIDE DEF c
    <3>3. cp'[r] # None /\ \A q \in Run : q # r => cp'[q] = cp[q]
      BY <1>a, <3>1, <3>2, SaveEffect
    <3>4. UNCHANGED outcome /\ \A q \in Run : q # r => octx'[q] = octx[q]
      BY <2>1, <1>a DEF OrigCheckpoint, TypeOK
    <3> QED
      BY <3>3, <3>4
  <2>2. CASE OrigToolTurn(r)
    <3> DEFINE c == AddMessages(octx[r])
    <3>2. octx' = [octx EXCEPT ![r] = c]
      BY <2>2 DEF OrigToolTurn
    <3>3. c.turn = octx[r].turn
      BY <1>a, ProgressFields DEF Progress, AddMessages
    <3> HIDE DEF c
    <3>1. \A q \in Run : octx'[q].turn = octx[q].turn
      BY <1>a, <3>2, <3>3 DEF TypeOK
    <3> QED
      BY <2>2, <3>1 DEF OrigToolTurn, redis
  <2>3. CASE OrigLastTurn(r)
    BY <2>3, <1>a DEF OrigLastTurn, EndRun, redis, TypeOK
  <2>4. CASE OrigFinalize(r)
    BY <2>4, <1>a DEF OrigFinalize, Delete, TypeOK
  <2>5. CASE CancelDelete(r)
    BY <2>5, <1>a DEF CancelDelete, Delete, orig, TypeOK
  <2>6. CASE LockExpires(r) \/ CancelMark(r) \/ CancelKeyExpires(r) \/ Revoke(r)
    BY <2>6 DEF LockExpires, CancelMark, CancelKeyExpires, Revoke, redis, orig
  <2> QED
    BY <1>2, <2>1, <2>2, <2>3, <2>4, <2>5, <2>6 DEF RunStep, OrigStep
<1>3. ASSUME NEW s \in Scanner, ScannerStep(s) PROVE NoRunIsLost'
  <2>1. CASE ScanBegin(s) \/ ScanRaises(s)
    BY <2>1 DEF ScanBegin, ScanRaises, redis, orig
  <2>2. ASSUME NEW r \in Run, RecStep(s, r) \/ ResumeRaises(s, r) PROVE NoRunIsLost'
    <3>1. RecEffect(s, r) /\ RecEnds(s, r)
      BY <2>2, RecStepEffect DEF EndInv
    <3> QED
      BY <1>a, <3>1 DEF RecEffect, RecEnds
  <2> QED
    BY <1>3, <2>1, <2>2 DEF ScannerStep
<1>4. CASE UNCHANGED vars
  BY <1>4 DEF vars
<1> QED
  BY <1>1, <1>2, <1>3, <1>4 DEF Next

(* With a store that answers and no graceful shutdown, a run that was      *)
(* checkpointed keeps a checkpoint until it ends or is cancelled, through  *)
(* any number of crashes, false suspicions, lock expiries and takeovers.   *)
THEOREM RunsAreKept ==
  ASSUME "storeError" \notin Events, "shutdown" \notin Events
  PROVE  Spec => []NoRunIsLost
<1>1. Init => NothingStops /\ NothingFails /\ NoRunIsLost
  BY DEF Init, NothingStops, NothingFails, NoRunIsLost
<1>2. TypeInv /\ EndInv /\ NothingStops /\ NothingFails /\ NoRunIsLost /\ [Next]_vars
        => NothingStops' /\ NothingFails' /\ NoRunIsLost'
  BY NothingStopsStep, NothingFailsStep, KeptStep
<1> QED
  BY <1>1, <1>2, EndInvariant, PTL DEF Spec

-----------------------------------------------------------------------------
(* While heartbeats are refreshed in time: a live replica has one, an      *)
(* original execution runs at a live replica and is the only writer of its *)
(* checkpoint, and a run that was never submitted is nobody's business.    *)
HeartbeatsHold == \A p \in Replica : Alive(p) => beat[p]

OriginalKeeps ==
  \A r \in Run : opc[r] \in OrigActive =>
    /\ Alive(home[r])
    /\ cp[r] # None => cp[r].owner = home[r]
    /\ \A s \in Scanner : rpc[s][r] = "check" => rctx[s][r].owner = home[r]

NothingBeforeSubmit ==
  \A r \in Run : opc[r] = "none" => cp[r] = None /\ \A s \in Scanner : rpc[s][r] = "idle"

LiveInv == HeartbeatsHold /\ OriginalKeeps /\ NothingBeforeSubmit /\ OnlyTheDeadAreTakenOver

LEMMA LiveInit == Init => LiveInv
  BY DEF Init, LiveInv, HeartbeatsHold, OriginalKeeps, NothingBeforeSubmit,
         OnlyTheDeadAreTakenOver, Alive, OrigActive, Recovering, Holding, Executing, Looping

LEMMA LiveReplicaStep ==
  ASSUME "suspect" \notin Events, TypeInv, LiveInv, NEW p \in Replica, ReplicaStep(p)
  PROVE  LiveInv'
<1> USE DEF LiveInv, HeartbeatsHold, OriginalKeeps, NothingBeforeSubmit,
            OnlyTheDeadAreTakenOver
<1>a. TypeOK /\ \A r \in Run : opc[r] # "none" => home[r] \in Replica
  BY DEF TypeInv, TurnsOK
<1>b. "none" \notin OrigActive /\ "idle" \notin Recovering
  BY DEF OrigActive, Recovering, Holding, Executing, Looping
<1>1. CASE StartReplica(p)
  <2>1. /\ \A q \in Replica : q # p => up'[q] = up[q] /\ beat'[q] = beat[q]
        /\ ~Alive(p) /\ beat'[p]
        /\ UNCHANGED <<cp, opc, home, rpc, rctx>>
    BY <1>1, <1>a DEF StartReplica, redis, orig, rec, TypeOK, Alive
  <2> QED
    BY <1>a, <1>b, <2>1 DEF Alive
<1>2. CASE Heartbeat(p) \/ BeatExpires(p)
  <2>1. /\ UNCHANGED <<up, cp, opc, home, rpc, rctx>>
        /\ \A q \in Replica : Alive(q) => (beat'[q] <=> beat[q]) \/ beat'[q]
    <3>1. beat \in [Replica -> BOOLEAN]
      BY <1>a DEF TypeOK
    <3>2. CASE Heartbeat(p)
      BY <3>1, <3>2 DEF Heartbeat, redis, orig, rec
    <3>3. CASE BeatExpires(p)
      BY <3>1, <3>3 DEF BeatExpires, redis, orig, rec, Alive
    <3> QED
      BY <1>2, <3>2, <3>3
  <2> QED
    BY <2>1 DEF Alive
<1>3. CASE BeatLapses(p)
  BY <1>3 DEF BeatLapses
<1>4. CASE Crash(p)
  <2>1. /\ UNCHANGED <<cp, beat, home>>
        /\ \A q \in Replica : Alive(q)' <=> Alive(q) /\ q # p
        /\ \A q \in Run : /\ opc'[q] \in OrigActive => opc[q] \in OrigActive /\ home[q] # p
                          /\ opc'[q] = "none" => opc[q] = "none"
        /\ \A s \in Scanner, q \in Run :
              \/ rpc'[s][q] = "idle"
              \/ rpc'[s][q] = rpc[s][q] /\ rctx'[s][q] = rctx[s][q]
    BY <1>4, <1>a DEF Crash, redis, TypeOK, Alive, OrigActive
  <2> QED
    BY <1>a, <1>b, <2>1
<1>5. CASE Shutdown(p)
  <2>1. /\ UNCHANGED <<cp, beat, home, rctx>>
        /\ \A q \in Replica : Alive(q)' <=> Alive(q)
    BY <1>5, <1>a DEF Shutdown, redis, TypeOK, Alive
  <2>2. \A q \in Run : /\ opc'[q] \in OrigActive => opc[q] \in OrigActive
                       /\ opc'[q] = "none" => opc[q] = "none"
    BY <1>5, <1>a DEF Shutdown, TypeOK, OrigActive, OrigAfterCancel
  <2>3. \A s \in Scanner, q \in Run :
          /\ rpc'[s][q] = "check" => rpc[s][q] = "check"
          /\ rpc'[s][q] \in Recovering => rpc[s][q] \in Recovering
          /\ rpc[s][q] = "idle" => rpc'[s][q] = "idle"
    BY <1>5, <1>a, <1>b DEF Shutdown, TypeOK, RecAfterCancel, Recovering, Holding,
       Executing, Looping
  <2> QED
    <3>1. HeartbeatsHold'
      BY <2>1
    <3>2. OriginalKeeps'
      BY <1>a, <1>b, <2>1, <2>2, <2>3 DEF Alive
    <3>3. NothingBeforeSubmit'
      BY <2>1, <2>2, <2>3
    <3>4. OnlyTheDeadAreTakenOver'
      BY <2>2, <2>3
    <3> QED
      BY <3>1, <3>2, <3>3, <3>4
<1>6. CASE Exit(p)
  <2>1. /\ UNCHANGED <<cp, beat, opc, home, rpc, rctx>>
        /\ \A q \in Replica : /\ Alive(q)' => Alive(q)
                              /\ q # p => (Alive(q)' <=> Alive(q))
        /\ \A q \in Run : home[q] = p => opc[q] \notin OrigActive
    BY <1>6, <1>a DEF Exit, redis, orig, rec, TypeOK, Alive
  <2> QED
    BY <1>a, <1>b, <2>1
<1>7. ASSUME NEW r \in Run, Submit(r, p) PROVE LiveInv'
  <2>1. /\ opc[r] = "none" /\ Alive(p) /\ opc'[r] = "turn" /\ home'[r] = p
        /\ \A q \in Run : q # r => opc'[q] = opc[q] /\ home'[q] = home[q]
        /\ UNCHANGED <<up, beat, cp, rpc, rctx>>
    BY <1>7, <1>a DEF Submit, fleet, redis, rec, TypeOK, Alive
  <2> QED
    BY <1>b, <2>1 DEF Alive
<1>8. ASSUME NEW r \in Run, CancelTasks(r, p) PROVE LiveInv'
  <2>1. /\ UNCHANGED <<up, beat, cp, home, rctx>>
        /\ \A q \in Run : /\ opc'[q] \in OrigActive => opc[q] \in OrigActive
                          /\ opc'[q] = "none" => opc[q] = "none"
    BY <1>8, <1>a DEF CancelTasks, fleet, redis, TypeOK, OrigActive, OrigAfterCancel
  <2>2. \A t \in Scanner, q \in Run :
          /\ rpc'[t][q] = "check" => rpc[t][q] = "check"
          /\ rpc'[t][q] \in Recovering => rpc[t][q] \in Recovering
          /\ rpc[t][q] = "idle" => rpc'[t][q] = "idle"
    <3>1. CASE UNCHANGED rpc
      BY <3>1
    <3>2. ASSUME NEW s \in Scanner, Tracked(p, s, r), Go(s, r, RecAfterCancel(rpc[s][r]))
          PROVE  <2>2
      <4>1. rpc[s][r] \in Recovering
        BY <3>2 DEF Tracked
      <4>2. RecAfterCancel(rpc[s][r]) \in {"fin", "release", "idle"}
        BY DEF RecAfterCancel
      <4>3. RecAfterCancel(rpc[s][r]) \in RecPc
        BY <4>2, RecPcElements
      <4> QED
        BY <3>2, <1>a, <1>b, <4>1, <4>2, <4>3, GoEffect
    <3> QED
      BY <1>8, <3>1, <3>2 DEF CancelTasks
  <2> QED
    BY <2>1, <2>2 DEF Alive
<1> QED
  BY <1>1, <1>2, <1>3, <1>4, <1>5, <1>6, <1>7, <1>8 DEF ReplicaStep

LEMMA LiveRunStep ==
  ASSUME TypeInv, LiveInv, NEW r \in Run, RunStep(r)
  PROVE  LiveInv'
<1> USE DEF LiveInv, HeartbeatsHold, OriginalKeeps, NothingBeforeSubmit,
            OnlyTheDeadAreTakenOver
<1>a. TypeOK /\ \A q \in Run : opc[q] # "none" => home[q] \in Replica
  BY DEF TypeInv, TurnsOK
<1>b. UNCHANGED <<up, beat, home, rpc, rctx>>
  BY DEF RunStep, OrigStep, OrigCheckpoint, OrigToolTurn, OrigLastTurn, OrigFinalize,
         LockExpires, CancelDelete, CancelMark, CancelKeyExpires, Revoke, fleet, orig, rec
<1>c. \A q \in Replica : Alive(q)' <=> Alive(q)
  BY <1>b DEF Alive
<1>1. CASE OrigCheckpoint(r)
  <2> DEFINE c == AddTurn(octx[r])
  <2>1. home[r] \in Replica /\ c.turn \in 0..MaxTurns /\ c.msgs \in 0..MaxTurns
    BY <1>1, <1>a, ProgressFields, AddTurnProgress
       DEF OrigCheckpoint, TypeInv, TurnsOK, OrigTurnsOK, Progress
  <2>2. Save(r, home[r], c) \/ UNCHANGED cp
    BY <1>1 DEF OrigCheckpoint
  <2> HIDE DEF c
  <2>3. \A q \in Run : cp'[q] # cp[q] => q = r /\ cp'[q].owner = home[r]
    <3>1. CASE Save(r, home[r], c)
      BY <1>a, <2>1, <3>1, SaveEffect
    <3> QED
      BY <2>2, <3>1
  <2>4. /\ \A q \in Run : opc'[q] \in OrigActive <=> opc[q] \in OrigActive
        /\ \A q \in Run : opc'[q] = "none" <=> opc[q] = "none"
        /\ opc[r] \in OrigActive /\ opc[r] # "none"
    BY <1>1, <1>a DEF OrigCheckpoint, TypeOK, OrigActive
  <2> QED
    <3>1. HeartbeatsHold'
      BY <1>b DEF Alive
    <3>2. OriginalKeeps'
      BY <1>b, <2>3, <2>4 DEF Alive
    <3>3. NothingBeforeSubmit'
      BY <1>b, <2>3, <2>4
    <3>4. OnlyTheDeadAreTakenOver'
      BY <1>b, <2>4
    <3> QED
      BY <3>1, <3>2, <3>3, <3>4
<1>2. CASE OrigToolTurn(r) \/ OrigLastTurn(r) \/ OrigFinalize(r)
  <2>1. \A q \in Run : /\ opc'[q] \in OrigActive => opc[q] \in OrigActive
                       /\ opc'[q] = "none" => opc[q] = "none"
    BY <1>2, <1>a DEF OrigToolTurn, OrigLastTurn, OrigFinalize, TypeOK, OrigActive
  <2>2. \A q \in Run : cp'[q] = None \/ cp'[q] = cp[q]
    BY <1>2, <1>a DEF OrigToolTurn, OrigLastTurn, OrigFinalize, Delete, redis, TypeOK
  <2> QED
    <3>1. HeartbeatsHold'
      BY <1>b DEF Alive
    <3>2. OriginalKeeps'
      BY <1>b, <2>1, <2>2 DEF Alive
    <3>3. NothingBeforeSubmit'
      BY <1>b, <2>1, <2>2
    <3>4. OnlyTheDeadAreTakenOver'
      BY <1>b, <2>1
    <3> QED
      BY <3>1, <3>2, <3>3, <3>4
<1>3. CASE LockExpires(r) \/ CancelDelete(r) \/ CancelMark(r) \/ CancelKeyExpires(r)
           \/ Revoke(r)
  <2>1. UNCHANGED opc /\ \A q \in Run : cp'[q] = None \/ cp'[q] = cp[q]
    BY <1>3, <1>a DEF LockExpires, CancelDelete, CancelMark, CancelKeyExpires, Revoke,
       Delete, redis, orig, TypeOK
  <2> QED
    BY <1>a, <1>b, <1>c, <2>1 DEF OrigActive
<1> QED
  BY <1>1, <1>2, <1>3 DEF RunStep, OrigStep

(* Where a recovery comes from: the scan read the owner, and resume()      *)
(* starts from an owner without a heartbeat.                               *)
LEMMA RecComesFrom ==
  ASSUME TypeInv, NEW s \in Scanner, NEW r \in Run, RecStep(s, r) \/ ResumeRaises(s, r)
  PROVE  /\ \A t \in Scanner, q \in Run : t # s \/ q # r => rctx'[t][q] = rctx[t][q]
         /\ rpc'[s][r] = "check" => cp[r] # None /\ rctx'[s][r].owner = cp[r].owner
         /\ rpc'[s][r] \in Recovering =>
              \/ rpc[s][r] \in Recovering
              \/ rpc[s][r] = "check" /\ ~beat[rctx[s][r].owner]
<1>a. TypeOK
  BY DEF TypeInv
<1>b. \A pc \in RecPc : Go(s, r, pc) => rpc'[s][r] = pc
  BY <1>a, GoEffect
<1>c. ASSUME NEW c, Keep(s, r, c)
      PROVE  /\ rctx'[s][r] = c
             /\ \A t \in Scanner, q \in Run : t # s \/ q # r => rctx'[t][q] = rctx[t][q]
  BY <1>a, <1>c DEF Keep, TypeOK
<1>d. rctx' = rctx => \A t \in Scanner, q \in Run : rctx'[t][q] = rctx[t][q]
  OBVIOUS
<1> USE RecPcElements DEF Recovering, Holding, Executing, Looping
<1>1. CASE ScanLoad(s, r)
  <2>1. CASE cp[r] # None /\ Go(s, r, "check")
             /\ Keep(s, r, [NothingLoaded EXCEPT !.owner = cp[r].owner])
    <3>1. [NothingLoaded EXCEPT !.owner = cp[r].owner].owner = cp[r].owner
      BY DEF NothingLoaded
    <3> QED
      BY <1>b, <1>c, <2>1, <3>1
  <2>2. CASE Go(s, r, "idle") /\ UNCHANGED rctx
    BY <1>b, <2>2
  <2> QED
    BY <1>1, <2>1, <2>2 DEF ScanLoad
<1>2. CASE ScanCheck(s, r)
  BY <1>2, <1>b, <1>c DEF ScanCheck
<1>3. CASE ResumeLoad(s, r)
  BY <1>3, <1>b, <1>c DEF ResumeLoad
<1>4. CASE ResumeLock(s, r)
  BY <1>4, <1>b, <1>c DEF ResumeLock
<1>5. CASE ResumeClaim(s, r)
  BY <1>5, <1>b DEF ResumeClaim
<1>6. CASE ResumeRestore(s, r)
  BY <1>6, <1>b DEF ResumeRestore
<1>7. CASE RecTurnCheck(s, r)
  BY <1>7, <1>b DEF RecTurnCheck
<1>8. CASE RecCheckpoint(s, r)
  BY <1>8, <1>b, <1>c DEF RecCheckpoint
<1>9. CASE RecToolTurn(s, r)
  BY <1>9, <1>b, <1>c DEF RecToolTurn
<1>10. CASE RecLastTurn(s, r)
  BY <1>10, <1>b DEF RecLastTurn
<1>11. CASE RecFinalize(s, r)
  BY <1>11, <1>b DEF RecFinalize
<1>12. CASE RecRelease(s, r)
  BY <1>12, <1>b, <1>c DEF RecRelease
<1>13. CASE ResumeRaises(s, r)
  BY <1>13, <1>b, <1>c DEF ResumeRaises
<1> QED
  BY <1>1, <1>2, <1>3, <1>4, <1>5, <1>6, <1>7, <1>8, <1>9, <1>10, <1>11, <1>12, <1>13
     DEF RecStep

LEMMA LiveScannerStep ==
  ASSUME TypeInv, EndInv, LiveInv, NEW s \in Scanner, ScannerStep(s)
  PROVE  LiveInv'
<1> USE DEF LiveInv, HeartbeatsHold, OriginalKeeps, NothingBeforeSubmit,
            OnlyTheDeadAreTakenOver
<1>a. TypeOK /\ \A q \in Run : opc[q] # "none" => home[q] \in Replica
  BY DEF TypeInv, TurnsOK
<1>1. CASE ScanBegin(s) \/ ScanRaises(s)
  <2>1. /\ UNCHANGED <<up, beat, cp, opc, home>>
        /\ \A t \in Scanner, q \in Run : t # s =>
              rpc'[t][q] = rpc[t][q] /\ rctx'[t][q] = rctx[t][q]
        /\ \A q \in Run : rpc'[s][q] = "idle" \/ (rpc'[s][q] = "scan" /\ cp[q] # None)
    BY <1>1, <1>a DEF ScanBegin, ScanRaises, fleet, redis, orig, TypeOK
  <2>2. "scan" \notin Recovering /\ "idle" \notin Recovering
    BY DEF Recovering, Holding, Executing, Looping
  <2> QED
    BY <1>a, <2>1, <2>2 DEF Alive
<1>2. ASSUME NEW r \in Run, RecStep(s, r) \/ ResumeRaises(s, r) PROVE LiveInv'
  <2>1. RecEffect(s, r) /\ RecEnds(s, r)
    BY <1>2, RecStepEffect DEF EndInv
  <2>2. UNCHANGED <<up, beat, opc, home>>
    BY <2>1 DEF RecEffect
  <2>3. \A q \in Replica : Alive(q)' <=> Alive(q)
    BY <2>2 DEF Alive
  <2>4. ASSUME NEW q \in Run, opc[q] \in OrigActive, cp'[q] # cp[q], cp'[q] # None
        PROVE  FALSE
    <3>1. q = r /\ rpc'[s][r] \in Executing
      BY <2>1, <2>4 DEF RecEffect, RecEnds
    <3>2. rpc'[s][r] \in Recovering /\ rpc'[s][r] # "orphan"
      BY <3>1 DEF Recovering, Holding, Executing, Looping
    <3>3. \/ rpc[s][r] \in Recovering
          \/ rpc[s][r] = "check" /\ ~beat[rctx[s][r].owner]
      BY <1>2, <3>2, RecComesFrom
    <3> QED
      BY <1>a, <2>4, <3>1, <3>3 DEF OrigActive
  <2>5. ASSUME NEW q \in Run, opc[q] \in OrigActive
        PROVE  /\ cp'[q] # None => cp'[q].owner = home[q]
               /\ \A t \in Scanner : rpc'[t][q] = "check" => rctx'[t][q].owner = home[q]
    <3>1. cp'[q] # None => cp'[q].owner = home[q]
      BY <2>4, <2>5
    <3>2. ASSUME NEW t \in Scanner, rpc'[t][q] = "check" PROVE rctx'[t][q].owner = home[q]
      <4>1. CASE t = s /\ q = r
        BY <1>2, <2>5, <3>2, <4>1, RecComesFrom
      <4>2. CASE t # s \/ q # r
        BY <1>2, <2>1, <2>5, <3>2, <4>2, RecComesFrom DEF RecEffect
      <4> QED
        BY <4>1, <4>2
    <3> QED
      BY <3>1, <3>2
  <2>6. ASSUME NEW t \in Scanner, NEW q \in Run, rpc'[t][q] \in Recovering
        PROVE  opc[q] \notin OrigActive
    <3>1. CASE t = s /\ q = r
      <4>1. \/ rpc[s][r] \in Recovering
            \/ rpc[s][r] = "check" /\ ~beat[rctx[s][r].owner]
        BY <1>2, <2>6, <3>1, RecComesFrom
      <4> QED
        BY <1>a, <3>1, <4>1 DEF OrigActive
    <3>2. CASE t # s \/ q # r
      BY <2>1, <2>6, <3>2 DEF RecEffect
    <3> QED
      BY <3>1, <3>2
  <2>7. ASSUME NEW q \in Run, opc[q] = "none"
        PROVE  cp'[q] = None /\ \A t \in Scanner : rpc'[t][q] = "idle"
    <3>1. rpc[s][r] # "idle" /\ q # r
      BY <2>1, <2>7 DEF RecEnds
    <3> QED
      BY <2>1, <2>7, <3>1 DEF RecEffect
  <2> QED
    BY <1>a, <2>2, <2>3, <2>5, <2>6, <2>7 DEF OrigActive
<1> QED
  BY <1>1, <1>2 DEF ScannerStep

LEMMA LiveStep ==
  ASSUME "suspect" \notin Events, TypeInv, EndInv, LiveInv, [Next]_vars
  PROVE  LiveInv'
<1>1. ASSUME NEW p \in Replica, ReplicaStep(p) PROVE LiveInv'
  BY <1>1, LiveReplicaStep
<1>2. ASSUME NEW r \in Run, RunStep(r) PROVE LiveInv'
  BY <1>2, LiveRunStep
<1>3. ASSUME NEW s \in Scanner, ScannerStep(s) PROVE LiveInv'
  BY <1>3, LiveScannerStep
<1>4. CASE UNCHANGED vars
  BY <1>4 DEF vars, LiveInv, HeartbeatsHold, OriginalKeeps, NothingBeforeSubmit,
              OnlyTheDeadAreTakenOver, Alive
<1> QED
  BY <1>1, <1>2, <1>3, <1>4 DEF Next

(* While heartbeats are refreshed in time a run never executes twice: no   *)
(* recovery gets past the scan of a run whose original execution is still  *)
(* going on, whatever crashes, shutdowns, store errors and lock expiries   *)
(* come in between.                                                        *)
THEOREM TheLivingAreLeftAlone ==
  ASSUME "suspect" \notin Events
  PROVE  Spec => []OnlyTheDeadAreTakenOver
<1>1. TypeInv /\ EndInv /\ LiveInv /\ [Next]_vars => LiveInv'
  BY LiveStep
<1>2. LiveInv => OnlyTheDeadAreTakenOver
  BY DEF LiveInv
<1> QED
  BY <1>1, <1>2, LiveInit, EndInvariant, PTL DEF Spec
-----------------------------------------------------------------------------
(* With a mark that stays and a store that answers, a cancel request that  *)
(* was answered has left its mark, and a recovery that loaded the          *)
(* checkpoint later stops at the look it takes at the mark before its      *)
(* first turn.                                                             *)
MarkStays == \A r \in Run : api[r].pc = "done" => cancelKey[r]

LateStops ==
  \A s \in Scanner, r \in Run : rctx[s][r].late =>
    api[r].pc = "done" /\ rpc[s][r] \notin {"turn", "llm"}

CancelInv == MarkStays /\ LateStops

LEMMA CancelReplicaStep ==
  ASSUME TypeInv, CancelInv, NEW p \in Replica, ReplicaStep(p)
  PROVE  CancelInv'
<1> USE DEF CancelInv, MarkStays, LateStops
<1>a. TypeOK
  BY DEF TypeInv
<1>1. CASE StartReplica(p) \/ Heartbeat(p) \/ BeatExpires(p) \/ BeatLapses(p) \/ Exit(p)
           \/ \E r \in Run : Submit(r, p)
  BY <1>1 DEF StartReplica, Heartbeat, BeatExpires, BeatLapses, Exit, Submit, redis, rec
<1>2. CASE Crash(p)
  <2>1. /\ \A r \in Run : api'[r] = api[r] \/ (api[r].pc # "done" /\ api'[r].pc = "idle")
        /\ cancelKey' = cancelKey
    BY <1>2, <1>a DEF Crash, TypeOK, redis
  <2>2. \A s \in Scanner, r \in Run :
          \/ rpc'[s][r] = rpc[s][r] /\ rctx'[s][r] = rctx[s][r]
          \/ rctx'[s][r] = NothingLoaded
    BY <1>2, <1>a DEF Crash, TypeOK
  <2> QED
    BY <2>1, <2>2, NothingLoadedType
<1>3. CASE Shutdown(p)
  <2>1. UNCHANGED <<api, cancelKey, rctx>>
    BY <1>3 DEF Shutdown, redis
  <2>2. \A s \in Scanner, r \in Run :
          rpc'[s][r] = rpc[s][r] \/ rpc'[s][r] = RecAfterCancel(rpc[s][r])
    BY <1>3, <1>a DEF Shutdown, TypeOK
  <2> QED
    BY <2>1, <2>2 DEF RecAfterCancel
<1>4. ASSUME NEW r \in Run, CancelTasks(r, p)
      PROVE  CancelInv'
  <2>1. /\ UNCHANGED <<cancelKey, rctx>> /\ api[r].pc = "idle" /\ api'[r].pc = "delete"
        /\ \A q \in Run : q # r => api'[q] = api[q]
    BY <1>4, <1>a DEF CancelTasks, redis, TypeOK
  <2>2. \A s \in Scanner, q \in Run :
          rpc'[s][q] = rpc[s][q] \/ rpc'[s][q] = RecAfterCancel(rpc[s][q])
    <3>1. ASSUME NEW t \in Scanner, Go(t, r, RecAfterCancel(rpc[t][r]))
          PROVE  \A s \in Scanner, q \in Run :
                   rpc'[s][q] = rpc[s][q] \/ rpc'[s][q] = RecAfterCancel(rpc[s][q])
      BY <3>1, <1>a DEF Go, TypeOK
    <3> QED
      BY <1>4, <3>1 DEF CancelTasks
  <2> QED
    BY <2>1, <2>2 DEF RecAfterCancel
<1> QED
  BY <1>1, <1>2, <1>3, <1>4 DEF ReplicaStep

LEMMA CancelRunStep ==
  ASSUME "storeError" \notin Events, "cancelTTL" \notin Events,
         TypeInv, CancelInv, NEW r \in Run, RunStep(r)
  PROVE  CancelInv'
<1> USE DEF CancelInv, MarkStays, LateStops
<1>a. TypeOK
  BY DEF TypeInv
<1>1. CASE OrigStep(r) \/ LockExpires(r) \/ Revoke(r)
  BY <1>1 DEF OrigStep, OrigCheckpoint, OrigToolTurn, OrigLastTurn, OrigFinalize,
     LockExpires, Revoke, redis, rec
<1>2. CASE CancelDelete(r)
  BY <1>2, <1>a DEF CancelDelete, rec, TypeOK
<1>3. CASE CancelMark(r)
  BY <1>3, <1>a DEF CancelMark, StoreRaises, rec, TypeOK
<1>4. ~CancelKeyExpires(r)
  BY DEF CancelKeyExpires
<1> QED
  BY <1>1, <1>2, <1>3, <1>4 DEF RunStep

(* What a step of a recovery knows of the cancel request.                  *)
LEMMA RecKnows ==
  ASSUME TypeInv, CancelInv, NEW s \in Scanner, NEW r \in Run,
         RecStep(s, r) \/ ResumeRaises(s, r)
  PROVE  /\ UNCHANGED <<api, cancelKey>>
         /\ \A t \in Scanner, q \in Run : t # s \/ q # r =>
              rpc'[t][q] = rpc[t][q] /\ rctx'[t][q] = rctx[t][q]
         /\ rctx'[s][r].late => api[r].pc = "done" /\ rpc'[s][r] \notin {"turn", "llm"}
<1>a. TypeOK /\ MarkStays
  BY DEF TypeInv, CancelInv
<1>b. \A pc \in RecPc : Go(s, r, pc) =>
        /\ rpc'[s][r] = pc
        /\ \A t \in Scanner, q \in Run : t # s \/ q # r => rpc'[t][q] = rpc[t][q]
  BY <1>a, GoEffect
<1>c. ASSUME NEW c, Keep(s, r, c)
      PROVE  /\ rctx'[s][r] = c
             /\ \A t \in Scanner, q \in Run : t # s \/ q # r => rctx'[t][q] = rctx[t][q]
  BY <1>a, <1>c DEF Keep, TypeOK
<1>d. rctx[s][r].late => api[r].pc = "done" /\ rpc[s][r] \notin {"turn", "llm"}
  BY DEF CancelInv, LateStops
<1>e. NothingLoaded.late = FALSE
  BY NothingLoadedType
<1> USE RecPcElements
<1>1. CASE ScanLoad(s, r)
  <2>1. CASE Go(s, r, "check") /\ Keep(s, r, [NothingLoaded EXCEPT !.owner = cp[r].owner])
    <3>1. [NothingLoaded EXCEPT !.owner = cp[r].owner].late = FALSE
      BY DEF NothingLoaded
    <3> QED
      BY <1>1, <1>b, <1>c, <2>1, <3>1 DEF ScanLoad, redis
  <2>2. CASE Go(s, r, "idle") /\ UNCHANGED rctx
    BY <1>1, <1>b, <1>d, <2>2 DEF ScanLoad, redis
  <2> QED
    BY <1>1, <2>1, <2>2 DEF ScanLoad
<1>2. CASE ScanCheck(s, r)
  BY <1>2, <1>b, <1>c, <1>e DEF ScanCheck, redis
<1>3. CASE ResumeLoad(s, r)
  <2> DEFINE c == [turn |-> cp[r].turn, msgs |-> cp[r].msgs,
                   owner |-> cp[r].owner, late |-> api[r].pc = "done"]
  <2>1. CASE Keep(s, r, c) /\ Go(s, r, "lock")
    <3>1. c.late <=> api[r].pc = "done"
      OBVIOUS
    <3> HIDE DEF c
    <3> QED
      BY <1>3, <1>b, <1>c, <2>1, <3>1 DEF ResumeLoad, redis
  <2>2. CASE Go(s, r, "idle") /\ UNCHANGED rctx
    BY <1>3, <1>b, <1>d, <2>2 DEF ResumeLoad, redis
  <2> QED
    BY <1>3, <2>1, <2>2 DEF ResumeLoad
<1>4. CASE ResumeLock(s, r)
  BY <1>4, <1>b, <1>c, <1>d, <1>e DEF ResumeLock
<1>5. CASE ResumeClaim(s, r) \/ ResumeRestore(s, r)
  BY <1>5, <1>b, <1>d DEF ResumeClaim, ResumeRestore, redis
<1>6. CASE RecTurnCheck(s, r)
  BY <1>6, <1>a, <1>b, <1>d DEF RecTurnCheck, MarkStays, redis
<1>7. CASE RecCheckpoint(s, r)
  <2>1. AddTurn(rctx[s][r]).late = rctx[s][r].late
    BY <1>a, LoadedFields DEF AddTurn, Loaded
  <2> QED
    BY <1>7, <1>b, <1>c, <1>d, <2>1 DEF RecCheckpoint
<1>8. CASE RecToolTurn(s, r)
  <2>1. AddMessages(rctx[s][r]).late = rctx[s][r].late
    BY <1>a, LoadedFields DEF AddMessages, Loaded
  <2> QED
    BY <1>8, <1>b, <1>c, <1>d, <2>1 DEF RecToolTurn, redis
<1>9. CASE RecLastTurn(s, r) \/ RecFinalize(s, r)
  BY <1>9, <1>b, <1>d DEF RecLastTurn, RecFinalize, redis
<1>10. CASE RecRelease(s, r) \/ ResumeRaises(s, r)
  BY <1>10, <1>b, <1>c, <1>e DEF RecRelease, ResumeRaises, redis
<1> QED
  BY <1>1, <1>2, <1>3, <1>4, <1>5, <1>6, <1>7, <1>8, <1>9, <1>10 DEF RecStep

LEMMA CancelScannerStep ==
  ASSUME TypeInv, CancelInv, NEW s \in Scanner, ScannerStep(s)
  PROVE  CancelInv'
<1> USE DEF CancelInv, MarkStays, LateStops
<1>a. TypeOK
  BY DEF TypeInv
<1>1. CASE ScanBegin(s)
  <2>1. /\ UNCHANGED <<api, cancelKey, rctx>>
        /\ \A t \in Scanner, q \in Run : rpc'[t][q] = rpc[t][q] \/ rpc'[t][q] \in {"scan", "idle"}
    BY <1>1, <1>a DEF ScanBegin, redis, TypeOK
  <2> QED
    BY <2>1
<1>2. CASE ScanRaises(s)
  <2>1. /\ UNCHANGED <<api, cancelKey>>
        /\ \A t \in Scanner, q \in Run :
             \/ rpc'[t][q] = rpc[t][q] /\ rctx'[t][q] = rctx[t][q]
             \/ rctx'[t][q] = NothingLoaded
    BY <1>2, <1>a DEF ScanRaises, redis, TypeOK
  <2> QED
    BY <2>1, NothingLoadedType
<1>3. ASSUME NEW r \in Run, RecStep(s, r) \/ ResumeRaises(s, r) PROVE CancelInv'
  BY <1>3, RecKnows
<1> QED
  BY <1>1, <1>2, <1>3 DEF ScannerStep

(* A run that was cancelled is not resumed (routes/agents.py:596, with the *)
(* is_cancelled break of _resume_from_data): a recovery that loads the     *)
(* checkpoint after the cancel request was answered calls no model,        *)
(* whatever crashes, shutdowns, suspicions and overlapping recoveries come *)
(* in between.                                                             *)
THEOREM CancelledStayCancelled ==
  ASSUME "storeError" \notin Events, "cancelTTL" \notin Events
  PROVE  Spec => []CancelledRunsAreNotResumed
<1>1. Init => CancelInv
  BY NothingLoadedType DEF Init, CancelInv, MarkStays, LateStops
<1>2. TypeInv /\ CancelInv /\ [Next]_vars => CancelInv'
  <2> SUFFICES ASSUME TypeInv, CancelInv, [Next]_vars PROVE CancelInv'
    OBVIOUS
  <2>1. ASSUME NEW p \in Replica, ReplicaStep(p) PROVE CancelInv'
    BY <2>1, CancelReplicaStep
  <2>2. ASSUME NEW r \in Run, RunStep(r) PROVE CancelInv'
    BY <2>2, CancelRunStep
  <2>3. ASSUME NEW s \in Scanner, ScannerStep(s) PROVE CancelInv'
    BY <2>3, CancelScannerStep
  <2>4. CASE UNCHANGED vars
    BY <2>4 DEF vars, CancelInv, MarkStays, LateStops
  <2> QED
    BY <2>1, <2>2, <2>3, <2>4 DEF Next
<1>3. CancelInv => CancelledRunsAreNotResumed
  BY DEF CancelInv, LateStops, CancelledRunsAreNotResumed
<1> QED
  BY <1>1, <1>2, <1>3, TypeInvariant, PTL DEF Spec

-----------------------------------------------------------------------------
(* Recoveries exclude each other.  Whoever is past the lock of a run that  *)
(* has not ended holds it, and nobody takes it away: with no long          *)
(* recoveries it does not expire under its holder, and only what comes     *)
(* after the end of the run, or after an exception in the loop, deletes it *)
(* early.                                                                  *)
Open(r) == outcome[r] = "no" /\ failedAt[r] = {}

HoldersHaveTheLock ==
  \A s \in Scanner, r \in Run : Open(r) /\ rpc[s][r] \in Holding => lock[r] = Host[s]

LockInv == OneRecoveryAtATime /\ HoldersHaveTheLock

LEMMA LockReplicaStep ==
  ASSUME "shutdown" \notin Events, TypeInv, LockInv, NEW p \in Replica, ReplicaStep(p)
  PROVE  LockInv'
<1>a. TypeOK
  BY DEF TypeInv
<1>b. "idle" \notin Holding
  BY DEF Holding, Executing, Looping
<1>1. UNCHANGED lock
  BY DEF ReplicaStep, StartReplica, Heartbeat, BeatExpires, BeatLapses, Crash, Shutdown,
     Exit, Submit, CancelTasks, redis
<1>2. \A r \in Run : Open(r)' => Open(r)
  BY <1>a DEF Open, ReplicaStep, StartReplica, Heartbeat, BeatExpires, BeatLapses, Crash, Shutdown,
     Exit, Submit, CancelTasks, TypeOK
<1>3. \A s \in Scanner, r \in Run :
        Open(r)' /\ rpc'[s][r] \in Holding => rpc[s][r] \in Holding
  <2>1. CASE Crash(p)
    BY <2>1, <1>a, <1>b DEF Crash, TypeOK
  <2>2. ASSUME NEW r \in Run, CancelTasks(r, p) PROVE <1>3
    <3>1. ~Open(r)'
      BY <2>2, <1>a DEF Open, CancelTasks, TypeOK
    <3>2. ASSUME NEW s \in Scanner, Go(s, r, RecAfterCancel(rpc[s][r]))
          PROVE  \A t \in Scanner, q \in Run : q # r => rpc'[t][q] = rpc[t][q]
      BY <3>2, <1>a DEF Go, TypeOK
    <3> QED
      BY <2>2, <3>1, <3>2 DEF CancelTasks
  <2> QED
    BY <2>1, <2>2 DEF ReplicaStep, StartReplica, Heartbeat, BeatExpires, BeatLapses, Shutdown,
       Exit, Submit, rec
<1> QED
  BY <1>1, <1>2, <1>3 DEF LockInv, OneRecoveryAtATime, HoldersHaveTheLock, Open

LEMMA LockRunStep ==
  ASSUME "longRecovery" \notin Events, TypeInv, EndInv, NothingStops, LockInv,
         NEW r \in Run, RunStep(r)
  PROVE  LockInv'
<1>a. TypeOK /\ \A q \in Run : opc[q] # "none" => home[q] \in Replica
  BY DEF TypeInv, TurnsOK
<1>1. UNCHANGED rpc
  BY DEF RunStep, OrigStep, OrigCheckpoint, OrigToolTurn, OrigLastTurn, OrigFinalize,
     LockExpires, CancelDelete, CancelMark, CancelKeyExpires, Revoke, rec
<1>2. \A q \in Run : Open(q)' => Open(q)
  BY <1>a DEF Open, RunStep, OrigStep, OrigCheckpoint, OrigToolTurn, OrigLastTurn, OrigFinalize,
     LockExpires, CancelDelete, CancelMark, CancelKeyExpires, Revoke, EndRun, TypeOK
<1>3. ASSUME NEW s \in Scanner, NEW q \in Run, Open(q), rpc[s][q] \in Holding
      PROVE  lock'[q] = lock[q]
  <2>0. lock[q] = Host[s]
    BY <1>3 DEF LockInv, HoldersHaveTheLock
  <2>1. CASE OrigFinalize(r)
    <3>1. ~Open(r)
      BY <2>1, <1>a DEF Open, OrigFinalize, EndInv, StoppedOrOver, NothingStops
    <3> QED
      BY <2>1, <3>1, <1>3, <1>a DEF OrigFinalize, Delete, TypeOK
  <2>2. CASE CancelDelete(r)
    <3>1. ~Open(r)
      BY <2>2 DEF Open, CancelDelete, EndInv, StoppedOrOver
    <3> QED
      BY <2>2, <3>1, <1>3, <1>a DEF CancelDelete, Delete, TypeOK
  <2>3. CASE LockExpires(r)
    BY <2>0, <2>3, <1>3, <1>a DEF LockExpires, HolderIsActive, TypeOK
  <2> QED
    BY <2>1, <2>2, <2>3 DEF RunStep, OrigStep, OrigCheckpoint, OrigToolTurn, OrigLastTurn,
       CancelMark, CancelKeyExpires, Revoke, redis
<1> QED
  BY <1>1, <1>2, <1>3 DEF LockInv, OneRecoveryAtATime, HoldersHaveTheLock, Open

(* How a step of a recovery takes the lock and gives it back. *)
LEMMA RecLocks ==
  ASSUME TypeInv, NEW s \in Scanner, NEW r \in Run, RecStep(s, r) \/ ResumeRaises(s, r)
  PROVE  /\ \A q \in Run : q # r => lock'[q] = lock[q]
         /\ rpc'[s][r] \in Holding =>
              \/ rpc[s][r] \in Holding
              \/ rpc[s][r] = "lock" /\ lock[r] = None /\ lock'[r] = Host[s]
         /\ lock'[r] # lock[r] => rpc[s][r] \in {"lock", "fin", "release"}
         /\ lock'[r] # lock[r] /\ rpc[s][r] = "lock" => lock[r] = None
         /\ rpc[s][r] = "release" => rpc'[s][r] = "idle"
<1>a. TypeOK
  BY DEF TypeInv
<1>b. \A pc \in RecPc : Go(s, r, pc) => rpc'[s][r] = pc
  BY <1>a, GoEffect
<1> USE RecPcElements DEF Holding, Executing, Looping
<1>1. CASE ScanLoad(s, r)
  BY <1>1, <1>b DEF ScanLoad, redis
<1>2. CASE ScanCheck(s, r)
  BY <1>2, <1>b DEF ScanCheck, redis
<1>3. CASE ResumeLoad(s, r)
  BY <1>3, <1>b DEF ResumeLoad, redis
<1>4. CASE ResumeLock(s, r)
  BY <1>4, <1>a, <1>b DEF ResumeLock, TypeOK
<1>5. CASE ResumeClaim(s, r) \/ ResumeRestore(s, r) \/ RecTurnCheck(s, r)
           \/ RecCheckpoint(s, r) \/ RecToolTurn(s, r) \/ RecLastTurn(s, r)
  BY <1>5 DEF ResumeClaim, ResumeRestore, RecTurnCheck, RecCheckpoint, RecToolTurn, RecLastTurn,
     redis
<1>6. CASE RecFinalize(s, r) \/ RecRelease(s, r)
  BY <1>6, <1>a, <1>b DEF RecFinalize, RecRelease, Delete, TypeOK
<1>7. CASE ResumeRaises(s, r)
  BY <1>7, <1>b DEF ResumeRaises, redis
<1> QED
  BY <1>1, <1>2, <1>3, <1>4, <1>5, <1>6, <1>7 DEF RecStep

LEMMA LockScannerStep ==
  ASSUME TypeInv, EndInv, NothingStops, LockInv, NEW s \in Scanner, ScannerStep(s)
  PROVE  LockInv'
<1>a. TypeOK /\ Host[s] \in Replica /\ None \notin Replica
  BY ConstantsAssumption DEF TypeInv
<1>1. CASE ScanBegin(s) \/ ScanRaises(s)
  <2>1. /\ UNCHANGED <<lock, outcome, failedAt>>
        /\ \A t \in Scanner, q \in Run : rpc'[t][q] = rpc[t][q] \/ rpc'[t][q] \in {"scan", "idle"}
    <3>1. rpc \in [Scanner -> [Run -> RecPc]]
      BY <1>a DEF TypeOK
    <3> QED
      BY <1>1, <3>1 DEF ScanBegin, ScanRaises, redis
  <2> QED
    BY <2>1 DEF Open, LockInv, OneRecoveryAtATime, HoldersHaveTheLock, Holding, Executing, Looping
<1>2. ASSUME NEW r \in Run, RecStep(s, r) \/ ResumeRaises(s, r) PROVE LockInv'
  <2>1. RecEffect(s, r) /\ RecEnds(s, r)
    BY <1>2, RecStepEffect DEF EndInv
  <2>2. /\ \A t \in Scanner, q \in Run : t # s \/ q # r => rpc'[t][q] = rpc[t][q]
        /\ \A q \in Run : Open(q)' => Open(q)
    BY <2>1 DEF RecEffect, Open
  <2>3. rpc[s][r] = "fin" => ~Open(r)
    BY <1>a DEF EndInv, StoppedOrOver, GivenUp, NothingStops, Open
  <2>4. rpc[s][r] \in {"fin", "release"} => rpc[s][r] \in Holding
    BY DEF Holding, Executing
  <2>5. ASSUME NEW t \in Scanner, NEW q \in Run, Open(q)', rpc'[t][q] \in Holding,
               ~(t = s /\ q = r)
        PROVE  /\ rpc[t][q] \in Holding
               /\ lock'[q] = Host[t]
               /\ q = r => rpc'[s][r] \notin Holding
    <3>1. Open(q) /\ rpc[t][q] \in Holding /\ lock[q] = Host[t]
      BY <2>2, <2>5 DEF LockInv, HoldersHaveTheLock
    <3>2. q = r => rpc[s][r] \notin Holding
      BY <2>5, <3>1 DEF LockInv, OneRecoveryAtATime, Open
    <3>3. Host[t] # None
      BY ConstantsAssumption
    <3> QED
      BY <1>2, <2>4, <3>1, <3>2, <3>3, RecLocks
  <2>6. ASSUME Open(r)', rpc'[s][r] \in Holding
        PROVE  lock'[r] = Host[s]
    <3>1. Open(r) /\ (rpc[s][r] \in Holding => lock[r] = Host[s])
      BY <2>2, <2>6 DEF LockInv, HoldersHaveTheLock
    <3>2. "idle" \notin Holding /\ "lock" \notin Holding
      BY DEF Holding, Executing, Looping
    <3> QED
      BY <1>2, <2>3, <2>6, <3>1, <3>2, RecLocks
  <2>7. HoldersHaveTheLock'
    BY <2>5, <2>6 DEF HoldersHaveTheLock
  <2>8. OneRecoveryAtATime'
    <3> SUFFICES ASSUME NEW t \in Scanner, NEW u \in Scanner, NEW q \in Run, Open(q)',
                        rpc'[t][q] \in Holding, rpc'[u][q] \in Holding
                 PROVE  t = u
      BY DEF OneRecoveryAtATime, Open
    <3>1. CASE q = r /\ (t = s \/ u = s)
      BY <2>5, <3>1
    <3>2. CASE q # r \/ (t # s /\ u # s)
      BY <2>2, <2>5, <3>2 DEF LockInv, OneRecoveryAtATime, Open
    <3> QED
      BY <3>1, <3>2
  <2> QED
    BY <2>7, <2>8 DEF LockInv
<1> QED
  BY <1>1, <1>2 DEF ScannerStep

LEMMA LockStep ==
  ASSUME "shutdown" \notin Events, "longRecovery" \notin Events,
         TypeInv, EndInv, NothingStops, LockInv, [Next]_vars
  PROVE  LockInv'
<1>1. ASSUME NEW p \in Replica, ReplicaStep(p) PROVE LockInv'
  BY <1>1, LockReplicaStep
<1>2. ASSUME NEW r \in Run, RunStep(r) PROVE LockInv'
  BY <1>2, LockRunStep
<1>3. ASSUME NEW s \in Scanner, ScannerStep(s) PROVE LockInv'
  BY <1>3, LockScannerStep
<1>4. CASE UNCHANGED vars
  BY <1>4 DEF vars, LockInv, OneRecoveryAtATime, HoldersHaveTheLock, Open
<1> QED
  BY <1>1, <1>2, <1>3, <1>4 DEF Next

(* SET NX lets one replica at a time into the recovery of a run that has   *)
(* not ended and whose resumes were not ended by an exception              *)
(* (checkpoint.py:303, runner.py:848-865), whatever the suspicions, store  *)
(* errors, cancellations, revocations and crashes, as long as no replica   *)
(* is stopped gracefully and no recovery outlives the lock.                *)
THEOREM RecoveriesExclude ==
  ASSUME "shutdown" \notin Events, "longRecovery" \notin Events
  PROVE  Spec => []OneRecoveryAtATime
<1>1. Init => NothingStops /\ LockInv
  BY DEF Init, NothingStops, LockInv, OneRecoveryAtATime, HoldersHaveTheLock, Holding, Executing, Looping
<1>2. TypeInv /\ EndInv /\ NothingStops /\ LockInv /\ [Next]_vars => NothingStops' /\ LockInv'
  BY NothingStopsStep, LockStep
<1>3. LockInv => OneRecoveryAtATime
  BY DEF LockInv
<1> QED
  BY <1>1, <1>2, <1>3, EndInvariant, PTL DEF Spec

-----------------------------------------------------------------------------
(* The promise of DurableRuns.  A live replica named by the checkpoint of  *)
(* a run executes it; a recovery at another replica is past the lock only  *)
(* if there is none such.  So the keeper changes only when it is dead.     *)

(* What would break the promise: an owner taken for dead, a lock lost to   *)
(* time, a stop that gives the run up, an agent that is deleted, a store   *)
(* call that raises out of a resume (runner.py:858, 984): the checkpoint   *)
(* of a run that is not over is then left to a replica that does not       *)
(* execute it, or deleted.                                                 *)
SpareRecoveries ==
  /\ "storeError" \notin Events
  /\ "suspect" \notin Events
  /\ "longRecovery" \notin Events
  /\ "shutdown" \notin Events
  /\ "revoke" \notin Events

Served == \A r \in Run : servable[r]

(* Scans and recoveries go on in live replicas only. *)
ScannersLive == \A s \in Scanner, r \in Run : rpc[s][r] # "idle" => Alive(Host[s])

LEMMA ScannersLiveStep ==
  ASSUME TypeInv, EndInv, ScannersLive, [Next]_vars
  PROVE  ScannersLive'
<1>a. TypeOK /\ \A s \in Scanner : Host[s] \in Replica
  BY ConstantsAssumption DEF TypeInv
<1> USE DEF ScannersLive, Alive
<1>1. ASSUME NEW p \in Replica, ReplicaStep(p) PROVE ScannersLive'
  <2>1. \A q \in Replica : q # p => up'[q] = up[q]
    BY <1>1, <1>a DEF ReplicaStep, StartReplica, Heartbeat, BeatExpires, BeatLapses, Crash,
       Shutdown, Exit, Submit, CancelTasks, TypeOK, fleet
  <2>2. \A s \in Scanner, r \in Run : rpc'[s][r] # "idle" => rpc[s][r] # "idle"
    <3>0. RecAfterCancel("idle") = "idle"
      BY DEF RecAfterCancel, Looping
    <3>1. CASE Shutdown(p)
      BY <3>0, <3>1, <1>a DEF Shutdown, TypeOK
    <3>3. CASE Crash(p)
      BY <3>3, <1>a DEF Crash, TypeOK
    <3>2. ASSUME NEW r \in Run, CancelTasks(r, p) PROVE <2>2
      <4>1. ASSUME NEW s \in Scanner, Tracked(p, s, r), Go(s, r, RecAfterCancel(rpc[s][r]))
            PROVE  <2>2
        <5>1. rpc[s][r] # "idle"
          BY <4>1 DEF Tracked, Recovering, Holding, Executing, Looping
        <5> QED
          BY <4>1, <5>1, <1>a DEF Go, TypeOK
      <4> QED
        BY <3>2, <4>1 DEF CancelTasks
    <3> QED
      BY <1>1, <3>1, <3>2, <3>3 DEF ReplicaStep, StartReplica, Heartbeat, BeatExpires, BeatLapses,
         Exit, Submit, rec
  <2>3. up[p] \in {"up", "stopping"} /\ up'[p] \notin {"up", "stopping"} =>
          \A s \in Scanner, r \in Run : Host[s] = p => rpc'[s][r] = "idle"
    BY <1>1, <1>a DEF ReplicaStep, StartReplica, Heartbeat, BeatExpires, BeatLapses, Crash,
       Shutdown, Exit, Submit, CancelTasks, TypeOK, fleet, rec
  <2> QED
    BY <1>a, <2>1, <2>2, <2>3
<1>2. ASSUME NEW r \in Run, RunStep(r) PROVE ScannersLive'
  BY <1>2 DEF RunStep, OrigStep, OrigCheckpoint, OrigToolTurn, OrigLastTurn, OrigFinalize,
     LockExpires, CancelDelete, CancelMark, CancelKeyExpires, Revoke, fleet, rec
<1>3. ASSUME NEW s \in Scanner, ScannerStep(s) PROVE ScannersLive'
  <2>1. CASE ScanBegin(s) \/ ScanRaises(s)
    <3>1. up' = up /\ \A t \in Scanner, q \in Run :
                       rpc'[t][q] = rpc[t][q] \/ rpc'[t][q] = "idle" \/ up[Host[t]] = "up"
      <4>1. CASE ScanBegin(s)
        BY <4>1, <1>a DEF ScanBegin, fleet, TypeOK
      <4>2. CASE ScanRaises(s)
        BY <4>2, <1>a DEF ScanRaises, fleet, TypeOK
      <4> QED
        BY <2>1, <4>1, <4>2
    <3> QED
      BY <1>a, <3>1
  <2>2. ASSUME NEW r \in Run, RecStep(s, r) \/ ResumeRaises(s, r) PROVE ScannersLive'
    BY <2>2, RecStepEffect DEF EndInv, RecEffect, RecEnds
  <2> QED
    BY <1>3, <2>1, <2>2 DEF ScannerStep
<1>4. CASE UNCHANGED vars
  BY <1>4 DEF vars
<1> QED
  BY <1>1, <1>2, <1>3, <1>4 DEF Next

(* A recovery that changes the checkpoint is past the lock, and what it    *)
(* brings to an end is its own run.                                        *)
LEMMA RecOwns ==
  ASSUME TypeInv, NEW s \in Scanner, NEW r \in Run, RecStep(s, r) \/ ResumeRaises(s, r)
  PROVE  /\ \A q \in Run : q # r => outcome'[q] = outcome[q]
         /\ cp'[r] # cp[r] => rpc[s][r] \in Holding
<1>a. TypeOK
  BY DEF TypeInv
<1>1. CASE ScanLoad(s, r) \/ ScanCheck(s, r) \/ ResumeLoad(s, r) \/ ResumeLock(s, r)
           \/ ResumeRestore(s, r) \/ RecToolTurn(s, r) \/ RecRelease(s, r) \/ ResumeRaises(s, r)
  BY <1>1 DEF ScanLoad, ScanCheck, ResumeLoad, ResumeLock, ResumeRestore, RecToolTurn, RecRelease,
     ResumeRaises, redis
<1>2. CASE RecTurnCheck(s, r) \/ RecLastTurn(s, r)
  BY <1>2, <1>a DEF RecTurnCheck, RecLastTurn, EndRun, redis, TypeOK
<1>3. CASE ResumeClaim(s, r) \/ RecCheckpoint(s, r) \/ RecFinalize(s, r)
  BY <1>3 DEF ResumeClaim, RecCheckpoint, RecFinalize, Holding, Executing, Looping
<1> QED
  BY <1>1, <1>2, <1>3 DEF RecStep

(* All the parts together, of which each needs some of the others.         *)
KeepInv ==
  /\ TypeInv /\ EndInv /\ AdoptedRunsAreRunning
  /\ NothingStops /\ NothingFails /\ LiveInv /\ LockInv /\ Served /\ ScannersLive

LEMMA KeepInit == Init => KeepInv
  BY TypeInit, EndInit, AdoptedInit, LiveInit
     DEF Init, KeepInv, NothingStops, NothingFails, LockInv, OneRecoveryAtATime, HoldersHaveTheLock, Served,
         ScannersLive, Holding, Executing, Looping

LEMMA KeepStep ==
  ASSUME SpareRecoveries, KeepInv, [Next]_vars
  PROVE  KeepInv'
<1>1. Served'
  <2>1. ASSUME NEW p \in Replica, ReplicaStep(p) PROVE UNCHANGED servable
    BY <2>1 DEF ReplicaStep, StartReplica, Heartbeat, BeatExpires, BeatLapses, Crash,
       Shutdown, Exit, Submit, CancelTasks
  <2>2. ASSUME NEW r \in Run, RunStep(r) PROVE UNCHANGED servable
    BY <2>2 DEF SpareRecoveries, RunStep, OrigStep, OrigCheckpoint, OrigToolTurn, OrigLastTurn,
       OrigFinalize, LockExpires, CancelDelete, CancelMark, CancelKeyExpires, Revoke
  <2>3. ASSUME NEW s \in Scanner, ScannerStep(s) PROVE UNCHANGED servable
    <3>1. CASE ScanBegin(s) \/ ScanRaises(s)
      BY <3>1 DEF ScanBegin, ScanRaises
    <3>2. ASSUME NEW r \in Run, RecStep(s, r) \/ ResumeRaises(s, r) PROVE UNCHANGED servable
      BY <3>2, RecStepEffect DEF KeepInv, EndInv, RecEffect
    <3> QED
      BY <2>3, <3>1, <3>2 DEF ScannerStep
  <2>4. UNCHANGED servable
    BY <2>1, <2>2, <2>3 DEF Next, vars
  <2> QED
    BY <2>4 DEF KeepInv, Served
<1>2. NothingStops' /\ NothingFails' /\ LockInv'
  BY NothingStopsStep, NothingFailsStep, LockStep DEF KeepInv, SpareRecoveries
<1>3. TypeInv' /\ EndInv' /\ AdoptedRunsAreRunning'
  BY TypeStep, EndStep, AdoptedStep DEF KeepInv
<1>4. LiveInv'
  BY LiveStep DEF KeepInv, SpareRecoveries
<1>5. ScannersLive'
  BY ScannersLiveStep DEF KeepInv
<1> QED
  BY <1>1, <1>2, <1>3, <1>4, <1>5 DEF KeepInv

(* The keeper of a run that is not over is dead unless it is the replica   *)
(* of whoever is about to save.                                            *)
LEMMA SaversKeep ==
  ASSUME KeepInv, NEW r \in Run, outcome[r] = "no", cp[r] # None
  PROVE  /\ cp[r].owner \in Replica
         /\ opc[r] \in OrigActive => cp[r].owner = home[r]
         /\ \A s \in Scanner : rpc[s][r] \in Holding =>
              cp[r].owner = Host[s] \/ ~Alive(cp[r].owner)
<1> DEFINE p == cp[r].owner
<1>a. TypeOK /\ p \in Replica
  BY CheckpointFields DEF KeepInv, TypeInv
<1>1. opc[r] \in OrigActive => p = home[r]
  BY DEF KeepInv, LiveInv, OriginalKeeps
<1>2. ASSUME NEW s \in Scanner, rpc[s][r] \in Holding, Alive(p)
      PROVE  p = Host[s]
  <2>1. up[p] = "up"
    BY <1>a, <1>2 DEF KeepInv, NothingStops, Alive
  <2>2. ExecutesAt(p, r)
    BY <2>1 DEF KeepInv, AdoptedRunsAreRunning, NothingFails, Served
  <2>3. opc[r] \notin OrigActive
    BY <1>2 DEF KeepInv, LiveInv, OnlyTheDeadAreTakenOver, Recovering
  <2>4. PICK t \in Scanner : Host[t] = p /\ rpc[t][r] \in Executing
    BY <2>2, <2>3 DEF ExecutesAt
  <2>5. t = s
    BY <1>2, <2>4 DEF KeepInv, LockInv, OneRecoveryAtATime, NothingFails, Holding
  <2> QED
    BY <2>4, <2>5
<1> QED
  BY <1>a, <1>1, <1>2

(* The keeper and the phase of a run depend on its outcome and checkpoint. *)
KeeperOf(r) == IF Phase(r) = "recorded" THEN cp[r].owner ELSE None

LEMMA RunsUntouched ==
  ASSUME NEW r \in Run, outcome'[r] = outcome[r], cp'[r] = cp[r]
  PROVE  Phase(r)' = Phase(r) /\ KeeperOf(r)' = KeeperOf(r)
  BY DEF Phase, KeeperOf

LEMMA PromiseInit == Init => Promise!Init
  BY DEF Init, Promise!Init, Phase, Alive

(* A step that changes one run and no replica. *)
LEMMA PromiseOfRun ==
  ASSUME KeepInv, NEW r \in Run, up' = up,
         \A q \in Run : q # r => outcome'[q] = outcome[q] /\ cp'[q] = cp[q],
         \/ outcome'[r] = outcome[r] /\ cp'[r] = cp[r]
         \/ outcome[r] # "no" /\ outcome'[r] # "no"
         \/ outcome[r] = "no" /\ outcome'[r] # "no"
         \/ \E p \in Replica :
              /\ outcome[r] = "no" /\ outcome'[r] = "no"
              /\ Alive(p)
              /\ cp'[r] # None /\ cp'[r].owner = p
              /\ cp[r] # None => cp[r].owner = p \/ ~Alive(cp[r].owner)
  PROVE  [Promise!Next]_(Promise!vars)
<1> DEFINE alive == {p \in Replica : Alive(p)}
           phase == [q \in Run |-> Phase(q)]
           keeper == [q \in Run |-> IF Phase(q) = "recorded" THEN cp[q].owner ELSE None]
<1>1. alive' = alive
  BY DEF Alive
<1>2. \A q \in Run : q # r => Phase(q)' = Phase(q) /\ KeeperOf(q)' = KeeperOf(q)
  BY RunsUntouched
<1>3. \A v, k : Phase(r)' = v /\ KeeperOf(r)' = k =>
        phase' = [phase EXCEPT ![r] = v] /\ keeper' = [keeper EXCEPT ![r] = k]
  BY <1>2 DEF KeeperOf
<1>4. CASE Phase(r)' = Phase(r) /\ KeeperOf(r)' = KeeperOf(r)
  <2>1. phase' = phase /\ keeper' = keeper
    BY <1>2, <1>4 DEF KeeperOf
  <2> QED
    BY <1>1, <2>1 DEF Promise!vars
<1>5. CASE outcome[r] # "no" /\ outcome'[r] # "no"
  BY <1>4, <1>5 DEF Phase, KeeperOf
<1>6. CASE outcome[r] = "no" /\ outcome'[r] # "no"
  <2>1. Phase(r)' = "over" /\ KeeperOf(r)' = None /\ phase[r] # "over"
    BY <1>6 DEF Phase, KeeperOf
  <2>2. Promise!Conclude(r)
    BY <1>1, <1>3, <2>1 DEF Promise!Conclude
  <2> QED
    BY <2>2 DEF Promise!Next
<1>7. ASSUME NEW p \in Replica, outcome[r] = "no", outcome'[r] = "no", Alive(p),
             cp'[r] # None, cp'[r].owner = p,
             cp[r] # None => cp[r].owner = p \/ ~Alive(cp[r].owner)
      PROVE  [Promise!Next]_(Promise!vars)
  <2>1. Phase(r)' = "recorded" /\ KeeperOf(r)' = p /\ p \in alive
    BY <1>7 DEF Phase, KeeperOf
  <2>2. CASE cp[r] = None
    <3>1. phase[r] = "accepted"
      BY <1>7, <2>2 DEF Phase
    <3>2. Promise!Record(r, p)
      BY <1>1, <1>3, <2>1, <3>1 DEF Promise!Record
    <3> QED
      BY <3>2 DEF Promise!Next
  <2>3. CASE cp[r] # None /\ cp[r].owner = p
    BY <1>4, <1>7, <2>1, <2>3 DEF Phase, KeeperOf
  <2>4. CASE cp[r] # None /\ ~Alive(cp[r].owner)
    <3>1. Phase(r) = "recorded" /\ phase[r] = "recorded" /\ keeper[r] \notin alive
      BY <1>7, <2>4 DEF Phase
    <3>2. phase' = phase
      BY <1>2, <2>1, <3>1
    <3>3. Promise!Adopt(r, p)
      BY <1>1, <1>3, <2>1, <3>1, <3>2 DEF Promise!Adopt
    <3> QED
      BY <3>3 DEF Promise!Next
  <2> QED
    BY <1>7, <2>2, <2>3, <2>4
<1>8. CASE outcome'[r] = outcome[r] /\ cp'[r] = cp[r]
  BY <1>4, <1>8, RunsUntouched
<1> QED
  BY <1>5, <1>6, <1>7, <1>8

(* Every step of the fleet, the store and the users. *)
LEMMA PromiseReplicaStep ==
  ASSUME SpareRecoveries, KeepInv, NEW p \in Replica, ReplicaStep(p)
  PROVE  [Promise!Next]_(Promise!vars)
<1> DEFINE alive == {q \in Replica : Alive(q)}
           phase == [q \in Run |-> Phase(q)]
           keeper == [q \in Run |-> IF Phase(q) = "recorded" THEN cp[q].owner ELSE None]
<1>a. TypeOK
  BY DEF KeepInv, TypeInv
<1>1. ASSUME outcome' = outcome, cp' = cp
      PROVE  phase' = phase /\ keeper' = keeper
  BY <1>1, RunsUntouched DEF KeeperOf
<1>2. CASE StartReplica(p)
  <2>1. p \notin alive /\ alive' = alive \cup {p}
    BY <1>2, <1>a DEF StartReplica, TypeOK, Alive
  <2>2. Promise!Join(p)
    BY <1>1, <1>2, <2>1 DEF Promise!Join, StartReplica, redis
  <2> QED
    BY <2>2 DEF Promise!Next
<1>3. CASE Crash(p)
  <2>1. p \in alive /\ alive' = alive \ {p}
    BY <1>3, <1>a DEF Crash, TypeOK, Alive
  <2>2. Promise!Leave(p)
    BY <1>1, <1>3, <2>1 DEF Promise!Leave, Crash, redis
  <2> QED
    BY <2>2 DEF Promise!Next
<1>4. CASE Heartbeat(p) \/ BeatExpires(p) \/ BeatLapses(p) \/ \E r \in Run : Submit(r, p)
  <2>1. UNCHANGED <<up, outcome, cp>>
    BY <1>4 DEF Heartbeat, BeatExpires, BeatLapses, Submit, redis, fleet
  <2>2. alive' = alive
    BY <2>1 DEF Alive
  <2> QED
    BY <1>1, <2>1, <2>2 DEF Promise!vars
<1>5. ~Shutdown(p) /\ ~Exit(p)
  BY DEF SpareRecoveries, Shutdown, Exit, KeepInv, NothingStops
<1>6. ASSUME NEW r \in Run, CancelTasks(r, p)
      PROVE  [Promise!Next]_(Promise!vars)
  <2>1. /\ up' = up /\ cp' = cp /\ outcome'[r] # "no"
        /\ \A q \in Run : q # r => outcome'[q] = outcome[q]
    BY <1>6, <1>a DEF CancelTasks, fleet, redis, TypeOK
  <2> QED
    BY <2>1, PromiseOfRun
<1> QED
  BY <1>2, <1>3, <1>4, <1>5, <1>6 DEF ReplicaStep

LEMMA PromiseRunStep ==
  ASSUME SpareRecoveries, KeepInv, NEW r \in Run, RunStep(r)
  PROVE  [Promise!Next]_(Promise!vars)
<1>a. TypeOK /\ TypeInv
  BY DEF KeepInv, TypeInv
<1>b. up' = up
  BY DEF RunStep, OrigStep, OrigCheckpoint, OrigToolTurn, OrigLastTurn, OrigFinalize,
     LockExpires, CancelDelete, CancelMark, CancelKeyExpires, Revoke, fleet
<1>1. CASE OrigCheckpoint(r)
  <2> DEFINE c == AddTurn(octx[r])
  <2>1. /\ opc[r] \in OrigActive /\ home[r] \in Replica
        /\ c.turn \in 0..MaxTurns /\ c.msgs \in 0..MaxTurns
    BY <1>1, <1>a, ProgressFields, AddTurnProgress
       DEF OrigCheckpoint, OrigActive, TypeInv, TurnsOK, OrigTurnsOK, Progress
  <2>2. outcome' = outcome /\ (Save(r, home[r], c) \/ UNCHANGED cp)
    BY <1>1 DEF OrigCheckpoint
  <2> HIDE DEF c
  <2>3. CASE UNCHANGED cp
    BY <1>b, <2>2, <2>3, PromiseOfRun
  <2>4. CASE Save(r, home[r], c)
    <3>1. /\ cp'[r] # None /\ cp'[r].owner = home[r]
          /\ \A q \in Run : q # r => cp'[q] = cp[q]
      BY <1>a, <2>1, <2>4, SaveEffect
    <3>2. Alive(home[r])
      BY <2>1 DEF KeepInv, LiveInv, OriginalKeeps
    <3>3. outcome[r] = "no" /\ cp[r] # None => cp[r].owner = home[r]
      BY <2>1, SaversKeep
    <3> QED
      BY <1>b, <2>1, <2>2, <3>1, <3>2, <3>3, PromiseOfRun
  <2> QED
    BY <2>2, <2>3, <2>4
<1>2. CASE OrigToolTurn(r) \/ LockExpires(r) \/ CancelMark(r) \/ CancelKeyExpires(r) \/ Revoke(r)
  <2>1. UNCHANGED <<outcome, cp>>
    BY <1>2 DEF OrigToolTurn, LockExpires, CancelMark, CancelKeyExpires, Revoke, redis
  <2> QED
    BY <1>b, <2>1, PromiseOfRun
<1>3. CASE OrigLastTurn(r)
  <2>1. /\ cp' = cp /\ outcome'[r] # "no"
        /\ \A q \in Run : q # r => outcome'[q] = outcome[q]
    BY <1>3, <1>a DEF OrigLastTurn, EndRun, redis, TypeOK
  <2> QED
    BY <1>b, <2>1, PromiseOfRun
<1>4. CASE OrigFinalize(r) \/ CancelDelete(r)
  <2>1. outcome[r] # "no" /\ outcome' = outcome
    BY <1>4, <1>a DEF OrigFinalize, CancelDelete, KeepInv, TypeInv, TurnsOK, EndInv, StoppedOrOver, NothingStops
  <2>2. \A q \in Run : q # r => cp'[q] = cp[q]
    BY <1>4, <1>a DEF OrigFinalize, CancelDelete, Delete, TypeOK
  <2> QED
    BY <1>b, <2>1, <2>2, PromiseOfRun
<1> QED
  BY <1>1, <1>2, <1>3, <1>4 DEF RunStep, OrigStep

LEMMA PromiseScannerStep ==
  ASSUME SpareRecoveries, KeepInv, NEW s \in Scanner, ScannerStep(s)
  PROVE  [Promise!Next]_(Promise!vars)
<1>a. TypeOK /\ TypeInv /\ Host[s] \in Replica
  BY ConstantsAssumption DEF KeepInv, TypeInv
<1>1. CASE ScanBegin(s) \/ ScanRaises(s)
  <2>1. UNCHANGED <<up, outcome, cp>>
    BY <1>1 DEF ScanBegin, ScanRaises, redis, fleet
  <2>2. PICK r \in Run : TRUE
    BY <1>1, <1>a DEF ScanBegin, ScanRaises, ScanIsOver
  <2> QED
    BY <2>1, <2>2, PromiseOfRun
<1>2. ASSUME NEW r \in Run, RecStep(s, r) \/ ResumeRaises(s, r)
      PROVE  [Promise!Next]_(Promise!vars)
  <2>1. RecEffect(s, r) /\ RecEnds(s, r)
    BY <1>2, RecStepEffect DEF KeepInv, EndInv
  <2>2. up' = up /\ \A q \in Run : q # r => cp'[q] = cp[q]
    BY <2>1 DEF RecEffect, RecEnds
  <2>3. \A q \in Run : q # r => outcome'[q] = outcome[q]
    BY <1>2, RecOwns DEF KeepInv
  <2>4. CASE outcome'[r] = outcome[r] /\ cp'[r] = cp[r]
    BY <2>2, <2>3, <2>4, PromiseOfRun
  <2>5. CASE outcome'[r] # outcome[r]
    <3>1. outcome[r] = "no" /\ outcome'[r] # "no"
      BY <2>1, <2>5 DEF RecEffect
    <3> QED
      BY <2>2, <2>3, <3>1, PromiseOfRun
  <2>6. CASE outcome'[r] = outcome[r] /\ outcome[r] # "no"
    BY <2>2, <2>3, <2>6, PromiseOfRun
  <2>7. CASE outcome'[r] = outcome[r] /\ outcome[r] = "no" /\ cp'[r] # cp[r]
    <3>1. rpc[s][r] # "fin"
      BY <1>a, <2>7 DEF KeepInv, EndInv, StoppedOrOver, GivenUp, NothingStops, NothingFails
    <3>2. cp'[r] # None /\ cp'[r].owner = Host[s]
      BY <2>1, <2>7, <3>1 DEF RecEffect, RecEnds
    <3>3. rpc[s][r] \in Holding
      BY <1>2, <2>7, RecOwns DEF KeepInv
    <3>4. Alive(Host[s])
      BY <3>3 DEF KeepInv, ScannersLive, Holding, Executing, Looping
    <3>5. cp[r] # None => cp[r].owner = Host[s] \/ ~Alive(cp[r].owner)
      BY <2>7, <3>3, SaversKeep
    <3> QED
      BY <1>a, <2>2, <2>3, <2>7, <3>2, <3>4, <3>5, PromiseOfRun
  <2> QED
    BY <2>4, <2>5, <2>6, <2>7
<1> QED
  BY <1>1, <1>2 DEF ScannerStep

LEMMA PromiseStep ==
  ASSUME SpareRecoveries, KeepInv, [Next]_vars
  PROVE  [Promise!Next]_(Promise!vars)
<1>1. ASSUME NEW p \in Replica, ReplicaStep(p) PROVE [Promise!Next]_(Promise!vars)
  BY <1>1, PromiseReplicaStep
<1>2. ASSUME NEW r \in Run, RunStep(r) PROVE [Promise!Next]_(Promise!vars)
  BY <1>2, PromiseRunStep
<1>3. ASSUME NEW s \in Scanner, ScannerStep(s) PROVE [Promise!Next]_(Promise!vars)
  BY <1>3, PromiseScannerStep
<1>4. CASE UNCHANGED vars
  BY <1>4 DEF vars, Promise!vars, Phase, Alive
<1> QED
  BY <1>1, <1>2, <1>3, <1>4 DEF Next

(* With a store that answers and timely heartbeats and locks, runs,        *)
(* recoveries, crashes and cancellations implement DurableRuns             *)
(* (docs/concepts/architecture.md, "Checkpoint System";                    *)
(* agents/checkpoint.py, the resume of agents/runner.py), for any fleet    *)
(* and any runs: a run that was recorded stays recorded until it is over,  *)
(* and passes from one replica to another only when the first is dead.     *)
THEOREM PromiseIsImplemented ==
  ASSUME SpareRecoveries
  PROVE  Spec => PromiseIsKept
<1>1. KeepInv /\ [Next]_vars => KeepInv'
  BY KeepStep
<1>2. KeepInv /\ [Next]_vars => [Promise!Next]_(Promise!vars)
  BY PromiseStep
<1> QED
  BY <1>1, <1>2, KeepInit, PromiseInit, PTL DEF Spec, PromiseIsKept, Promise!Spec
=============================================================================
