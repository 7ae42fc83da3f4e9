------------------------- MODULE CheckpointRecovery -------------------------
(***************************************************************************)
(* Durable agent runs: agents/checkpoint.py, the run and resume loops of   *)
(* agents/runner.py and the cancel endpoint of routes/agents.py.           *)
(*                                                                         *)
(* A run is executed by the replica that accepted it.  Before every LLM    *)
(* call it saves a checkpoint in Redis.  Every replica keeps a heartbeat   *)
(* key alive; the scanners of the other replicas look for checkpoints      *)
(* whose owner has no heartbeat, and resume them under a SET NX lock.      *)
(*                                                                         *)
(* A replica id is a fresh uuid per process (ReplicaHeartbeat.__init__):   *)
(* a process that restarts is another element of Replica, so a replica     *)
(* that is down stays down and one that is "new" has yet to be started.    *)
(* Each action is the code between two awaits that touch shared state.     *)
(*                                                                         *)
(* The operators named Bug... are variants of the definition that follows  *)
(* them, each with a mistake one could make in that code.  No behaviour of *)
(* this module uses them; they show which property notices the mistake.    *)
(***************************************************************************)
EXTENDS Naturals

CONSTANTS
  Replica,    \* process incarnations (replica ids)
  Stable,     \* the replicas that never crash and are never shut down
  Run,        \* checkpoint keys, one run each
  Scanner,    \* recover_orphaned_runs loops: start-up scan and periodic scan
  Host,       \* the replica each scanner runs in
  MaxTurns,   \* spec.max_turns
  Events,     \* what the environment may do in this instance
  None        \* a missing key

(* What may happen besides crashes and restarts:                           *)
(*   suspect     a live replica's heartbeat lapses (blocked loop, Redis)   *)
(*   longRecovery  a recovery outlives the 60 s lock, which nobody renews  *)
(*   storeError  a Redis call raises                                       *)
(*   shutdown    a replica is stopped gracefully                           *)
(*   revoke      the agent is deleted or un-shared after the checkpoint    *)
(*   cancel      a user cancels the run                                    *)
(*   cancelTTL   the cancel mark expires (300 s)                           *)
EventKinds == {"suspect", "longRecovery", "storeError", "shutdown",
               "revoke", "cancel", "cancelTTL"}

(* turns_used and the completed turns the messages hold.                   *)
Progress == [turn: 0..MaxTurns, msgs: 0..MaxTurns]

Checkpoint == [owner: Replica, turn: 0..MaxTurns, msgs: 0..MaxTurns]

(* What a recovery has loaded; late: the run had been cancelled by then.   *)
Loaded == [turn: 0..MaxTurns, msgs: 0..MaxTurns, owner: Replica \cup {None}, late: BOOLEAN]

ASSUME ConstantsAssumption ==
  /\ Stable \subseteq Replica
  /\ Host \in [Scanner -> Replica]
  /\ MaxTurns \in Nat \ {0}
  /\ Events \subseteq EventKinds
  /\ None \notin Replica
  /\ None \notin Checkpoint

VARIABLES
  up,         \* the replica process: new, up, stopping, down
  beat,       \* replica:{id}:heartbeat exists
  cp,         \* checkpoint:{key}
  lock,       \* checkpoint:{key}:lock, the replica that set it
  cancelKey,  \* checkpoint:cancel:{run} exists
  servable,   \* the agent exists and its principal still has access
  opc,        \* where the original execution of the run is
  home,       \* the replica that accepted the run
  octx,       \* turns_used and completed turns of the original execution
  rpc,        \* where each scanner is with each run
  rctx,       \* what it loaded, and where its loop is
  api,        \* the cancel request for the run
  outcome,    \* history: how the run came to an end, if it did
  failedAt    \* history: the replicas where an exception ended a resume of it

vars == <<up, beat, cp, lock, cancelKey, servable, opc, home, octx, rpc, rctx,
          api, outcome, failedAt>>

fleet == <<up, beat>>
redis == <<cp, lock, cancelKey>>
orig  == <<opc, home, octx>>
rec   == <<rpc, rctx>>

(* turn, llm and fin are the awaits of a running loop: the checkpoint      *)
(* save, the model (with its tools) and _finalize.                         *)
OrigActive == {"turn", "llm", "fin"}
OrigPc == OrigActive \cup {"none", "done", "dead"}

(* A recovery: scan and check are the two reads of the scan, orphan waits  *)
(* for resume(), lock to release are the awaits of resume().               *)
Scanning == {"scan", "check"}
Looping == {"loop", "turn", "llm"}
Executing == {"restore"} \cup Looping \cup {"fin", "release"}
Holding == {"claim"} \cup Executing
Recovering == {"orphan", "lock"} \cup Holding
RecPc == {"idle"} \cup Scanning \cup Recovering

TypeOK ==
  /\ up \in [Replica -> {"new", "up", "stopping", "down"}]
  /\ beat \in [Replica -> BOOLEAN]
  /\ cp \in [Run -> Checkpoint \cup {None}]
  /\ lock \in [Run -> Replica \cup {None}]
  /\ cancelKey \in [Run -> BOOLEAN]
  /\ servable \in [Run -> BOOLEAN]
  /\ opc \in [Run -> OrigPc]
  /\ home \in [Run -> Replica \cup {None}]
  /\ octx \in [Run -> Progress]
  /\ rpc \in [Scanner -> [Run -> RecPc]]
  /\ rctx \in [Scanner -> [Run -> Loaded]]
  /\ api \in [Run -> [pc: {"idle", "delete", "mark", "done"},
                      at: Replica \cup {None}]]
  /\ outcome \in [Run -> {"no", "ran", "user"}]
  /\ failedAt \in [Run -> SUBSET Replica]

NothingLoaded == [turn |-> 0, msgs |-> 0, owner |-> None, late |-> FALSE]

Init ==
  /\ up = [p \in Replica |-> "new"]
  /\ beat = [p \in Replica |-> FALSE]
  /\ cp = [r \in Run |-> None]
  /\ lock = [r \in Run |-> None]
  /\ cancelKey = [r \in Run |-> FALSE]
  /\ servable = [r \in Run |-> TRUE]
  /\ opc = [r \in Run |-> "none"]
  /\ home = [r \in Run |-> None]
  /\ octx = [r \in Run |-> [turn |-> 0, msgs |-> 0]]
  /\ rpc = [s \in Scanner |-> [r \in Run |-> "idle"]]
  /\ rctx = [s \in Scanner |-> [r \in Run |-> NothingLoaded]]
  /\ api = [r \in Run |-> [pc |-> "idle", at |-> None]]
  /\ outcome = [r \in Run |-> "no"]
  /\ failedAt = [r \in Run |-> {}]

Alive(p) == up[p] \in {"up", "stopping"}

-----------------------------------------------------------------------------
(* The store: RedisCheckpointStore.  A call that raises changes nothing.   *)

Save(r, owner, c) ==
  cp' = [cp EXCEPT ![r] = [owner |-> owner, turn |-> c.turn, msgs |-> c.msgs]]

Delete(r) ==
  /\ cp' = [cp EXCEPT ![r] = None]
  /\ lock' = [lock EXCEPT ![r] = None]

StoreRaises == "storeError" \in Events

(* The execution leaves its loop: the run has come to an end.              *)
EndRun(r) ==
  outcome' = [outcome EXCEPT ![r] = IF @ = "no" THEN "ran" ELSE @]

-----------------------------------------------------------------------------
(* Replicas and their heartbeats.                                          *)

StartReplica(p) ==
  /\ up[p] = "new"
  /\ up' = [up EXCEPT ![p] = "up"]
  /\ beat' = [beat EXCEPT ![p] = TRUE]
  /\ UNCHANGED <<redis, servable, orig, rec, api, outcome, failedAt>>

(* _heartbeat_loop refreshes a key that had lapsed.                        *)
Heartbeat(p) ==
  /\ up[p] = "up"
  /\ ~beat[p]
  /\ beat' = [beat EXCEPT ![p] = TRUE]
  /\ UNCHANGED <<up, redis, servable, orig, rec, api, outcome, failedAt>>

BeatExpires(p) ==
  /\ up[p] = "down"
  /\ beat[p]
  /\ beat' = [beat EXCEPT ![p] = FALSE]
  /\ UNCHANGED <<up, redis, servable, orig, rec, api, outcome, failedAt>>

(* A refresh is late by more than the key's TTL.                           *)
BeatLapses(p) ==
  /\ "suspect" \in Events
  /\ Alive(p)
  /\ beat[p]
  /\ beat' = [beat EXCEPT ![p] = FALSE]
  /\ UNCHANGED <<up, redis, servable, orig, rec, api, outcome, failedAt>>

(* The coroutines of the process disappear where they are.                 *)
Crash(p) ==
  /\ p \notin Stable
  /\ Alive(p)
  /\ up' = [up EXCEPT ![p] = "down"]
  /\ opc' = [r \in Run |-> IF home[r] = p /\ opc[r] \in OrigActive
                           THEN "dead" ELSE opc[r]]
  /\ rpc' = [s \in Scanner |-> IF Host[s] = p
                               THEN [r \in Run |-> "idle"] ELSE rpc[s]]
  /\ rctx' = [s \in Scanner |-> IF Host[s] = p
                                THEN [r \in Run |-> NothingLoaded] ELSE rctx[s]]
  /\ api' = [r \in Run |-> IF api[r].at = p /\ api[r].pc # "done"
                           THEN [pc |-> "idle", at |-> None] ELSE api[r]]
  /\ UNCHANGED <<beat, redis, servable, home, octx, outcome, failedAt>>

(* Where a CancelledError takes each coroutine: the finally clauses run    *)
(* _finalize and release_lock, but one raised inside _finalize skips the   *)
(* delete, and resume() has no try around the claim.                       *)
OrigAfterCancel(pc) ==
  CASE pc \in {"turn", "llm"} -> "fin"
    [] pc = "fin" -> "done"
    [] OTHER -> pc

RecAfterCancel(pc) ==
  CASE pc \in Looping -> "fin"
    [] pc \in {"restore", "fin"} -> "release"
    [] OTHER -> "idle"

(* The lifespan stops the heartbeat and the scanners, and asyncio cancels  *)
(* the run tasks that are left when the loop closes.                       *)
Shutdown(p) ==
  /\ "shutdown" \in Events
  /\ p \notin Stable
  /\ up[p] = "up"
  /\ up' = [up EXCEPT ![p] = "stopping"]
  /\ opc' = [r \in Run |-> IF home[r] = p THEN OrigAfterCancel(opc[r]) ELSE opc[r]]
  /\ rpc' = [s \in Scanner |->
               IF Host[s] = p THEN [r \in Run |-> RecAfterCancel(rpc[s][r])]
                              ELSE rpc[s]]
  /\ UNCHANGED <<beat, redis, servable, home, octx, rctx, api, outcome, failedAt>>

Exit(p) ==
  /\ up[p] = "stopping"
  /\ \A r \in Run : home[r] = p => opc[r] \notin OrigActive
  /\ \A s \in Scanner, r \in Run : Host[s] = p => rpc[s][r] = "idle"
  /\ \A r \in Run : api[r].at = p => api[r].pc = "done"
  /\ up' = [up EXCEPT ![p] = "down"]
  /\ UNCHANGED <<beat, redis, servable, orig, rec, api, outcome, failedAt>>

-----------------------------------------------------------------------------
(* The original execution: AgentRunner.run and run_stream.                 *)

Submit(r, p) ==
  /\ up[p] = "up"
  /\ opc[r] = "none"
  /\ opc' = [opc EXCEPT ![r] = "turn"]
  /\ home' = [home EXCEPT ![r] = p]
  /\ UNCHANGED <<fleet, redis, servable, octx, rec, api, outcome, failedAt>>

AddTurn(c) == [c EXCEPT !.turn = @ + 1]

AddMessages(c) == [c EXCEPT !.msgs = @ + 1]

(* turns_used += 1 comes before the save, whose errors are swallowed.      *)
OrigCheckpoint(r) ==
  /\ opc[r] = "turn"
  /\ octx' = [octx EXCEPT ![r] = AddTurn(@)]
  /\ \/ Save(r, home[r], AddTurn(octx[r]))
     \/ StoreRaises /\ UNCHANGED cp
  /\ opc' = [opc EXCEPT ![r] = "llm"]
  /\ UNCHANGED <<fleet, lock, cancelKey, servable, home, rec, api, outcome, failedAt>>

(* The model asks for tools and there is another turn.                     *)
OrigToolTurn(r) ==
  /\ opc[r] = "llm"
  /\ octx[r].turn < MaxTurns
  /\ octx' = [octx EXCEPT ![r] = AddMessages(@)]
  /\ opc' = [opc EXCEPT ![r] = "turn"]
  /\ UNCHANGED <<fleet, redis, servable, home, rec, api, outcome, failedAt>>

(* The model answers, the turns are used up, or the call raises.           *)
OrigLastTurn(r) ==
  /\ opc[r] = "llm"
  /\ opc' = [opc EXCEPT ![r] = "fin"]
  /\ EndRun(r)
  /\ UNCHANGED <<fleet, redis, servable, home, octx, rec, api, failedAt>>

OrigFinalize(r) ==
  /\ opc[r] = "fin"
  /\ \/ Delete(r)
     \/ StoreRaises /\ UNCHANGED <<cp, lock>>
  /\ opc' = [opc EXCEPT ![r] = "done"]
  /\ UNCHANGED <<fleet, cancelKey, servable, home, octx, rec, api, outcome, failedAt>>

OrigStep(r) == OrigCheckpoint(r) \/ OrigToolTurn(r) \/ OrigLastTurn(r) \/ OrigFinalize(r)

-----------------------------------------------------------------------------
(* The orphan scan: recover_orphaned_runs.  The scan reads the keys one by *)
(* one; the resumes start when it is over and run concurrently, and the    *)
(* next scan waits for all of them.                                        *)

Go(s, r, pc) == rpc' = [rpc EXCEPT ![s][r] = pc]

Keep(s, r, c) == rctx' = [rctx EXCEPT ![s][r] = c]

ScanIsOver(s) == \A r \in Run : rpc[s][r] \notin Scanning

ScanBegin(s) ==
  /\ up[Host[s]] = "up"
  /\ \A r \in Run : rpc[s][r] = "idle"
  /\ \E r \in Run : cp[r] # None
  /\ rpc' = [rpc EXCEPT ![s] = [r \in Run |-> IF cp[r] # None THEN "scan" ELSE "idle"]]
  /\ UNCHANGED <<fleet, redis, servable, orig, rctx, api, outcome, failedAt>>

ScanLoad(s, r) ==
  /\ rpc[s][r] = "scan"
  /\ \A q \in Run : rpc[s][q] # "check"
  /\ \/ /\ cp[r] # None
        /\ Keep(s, r, [NothingLoaded EXCEPT !.owner = cp[r].owner])
        /\ Go(s, r, "check")
     \/ /\ cp[r] = None
        /\ Go(s, r, "idle")
        /\ UNCHANGED rctx
  /\ UNCHANGED <<fleet, redis, servable, orig, api, outcome, failedAt>>

(* The owner's heartbeat is not looked up. *)
BugScanCheck(s, r) ==
  /\ rpc[s][r] = "check"
  /\ Go(s, r, "orphan")
  /\ Keep(s, r, NothingLoaded)
  /\ UNCHANGED <<fleet, redis, servable, orig, api, outcome, failedAt>>

ScanCheck(s, r) ==
  /\ rpc[s][r] = "check"
  /\ Go(s, r, IF beat[rctx[s][r].owner] THEN "idle" ELSE "orphan")
  /\ Keep(s, r, NothingLoaded)
  /\ UNCHANGED <<fleet, redis, servable, orig, api, outcome, failedAt>>

(* The loop catches the exception: the whole scan is dropped.              *)
ScanRaises(s) ==
  /\ StoreRaises
  /\ ~ScanIsOver(s)
  /\ rpc' = [rpc EXCEPT ![s] = [r \in Run |-> "idle"]]
  /\ rctx' = [rctx EXCEPT ![s] = [r \in Run |-> NothingLoaded]]
  /\ UNCHANGED <<fleet, redis, servable, orig, api, outcome, failedAt>>

-----------------------------------------------------------------------------
(* AgentRunner.resume and _resume_from_data.                               *)

ResumeLoad(s, r) ==
  /\ rpc[s][r] = "orphan"
  /\ ScanIsOver(s)
  /\ \/ /\ cp[r] # None
        /\ Keep(s, r, [turn |-> cp[r].turn, msgs |-> cp[r].msgs,
                       owner |-> cp[r].owner, late |-> api[r].pc = "done"])
        /\ Go(s, r, "lock")
     \/ /\ cp[r] = None
        /\ Go(s, r, "idle")
        /\ UNCHANGED rctx
  /\ UNCHANGED <<fleet, redis, servable, orig, api, outcome, failedAt>>

(* SET without NX. *)
BugResumeLockNoNX(s, r) ==
  /\ rpc[s][r] = "lock"
  /\ lock' = [lock EXCEPT ![r] = Host[s]]
  /\ Go(s, r, "claim")
  /\ UNCHANGED <<fleet, cp, cancelKey, servable, orig, rctx, api, outcome, failedAt>>

ResumeLock(s, r) ==
  /\ rpc[s][r] = "lock"
  /\ \/ /\ lock[r] = None
        /\ lock' = [lock EXCEPT ![r] = Host[s]]
        /\ Go(s, r, "claim")
        /\ UNCHANGED rctx
     \/ /\ lock[r] # None
        /\ Go(s, r, "idle")
        /\ Keep(s, r, NothingLoaded)
        /\ UNCHANGED lock
  /\ UNCHANGED <<fleet, cp, cancelKey, servable, orig, api, outcome, failedAt>>

(* The checkpoint is consumed by the resume; the next turn saves another. *)
BugResumeClaim(s, r) ==
  /\ rpc[s][r] = "claim"
  /\ cp' = [cp EXCEPT ![r] = None]
  /\ Go(s, r, "restore")
  /\ UNCHANGED <<fleet, lock, cancelKey, servable, orig, rctx, api, outcome, failedAt>>

(* What is saved is what was loaded before the lock, under our own id.     *)
ResumeClaim(s, r) ==
  /\ rpc[s][r] = "claim"
  /\ Save(r, Host[s], rctx[s][r])
  /\ Go(s, r, "restore")
  /\ UNCHANGED <<fleet, lock, cancelKey, servable, orig, rctx, api, outcome, failedAt>>

(* An exception leaves the resume; resume() logs it and goes on to release *)
(* the lock.                                                               *)
Fails(s, r) == failedAt' = [failedAt EXCEPT ![r] = @ \cup {Host[s]}]

(* Auth context, agent lookup and access check: two early returns, and a   *)
(* lookup that may raise where no finally clause is around it yet.         *)
ResumeRestore(s, r) ==
  /\ rpc[s][r] = "restore"
  /\ \/ /\ servable[r]
        /\ Go(s, r, "loop")
        /\ UNCHANGED failedAt
     \/ /\ ~servable[r]
        /\ Go(s, r, "release")
        /\ UNCHANGED failedAt
     \/ /\ StoreRaises
        /\ Go(s, r, "release")
        /\ Fails(s, r)
  /\ UNCHANGED <<fleet, redis, servable, orig, rctx, api, outcome>>

(* The cancel signal is not looked up. *)
BugRecTurnCheckNoCancel(s, r) ==
  /\ rpc[s][r] = "loop"
  /\ \/ /\ rctx[s][r].turn < MaxTurns
        /\ Go(s, r, "turn")
        /\ UNCHANGED outcome
     \/ /\ rctx[s][r].turn = MaxTurns
        /\ Go(s, r, "fin")
        /\ EndRun(r)
  /\ UNCHANGED <<fleet, redis, servable, orig, rctx, api, failedAt>>

(* turns_used <= max_turns. *)
BugRecTurnCheckOffByOne(s, r) ==
  /\ rpc[s][r] = "loop"
  /\ rctx[s][r].turn <= MaxTurns
  /\ ~cancelKey[r]
  /\ Go(s, r, "turn")
  /\ UNCHANGED <<fleet, redis, servable, orig, rctx, api, outcome, failedAt>>

(* The while condition and the is_cancelled break.  An exception of        *)
(* is_cancelled runs the finally clause, _finalize, of a run that is not   *)
(* over.                                                                   *)
RecTurnCheck(s, r) ==
  /\ rpc[s][r] = "loop"
  /\ \/ /\ rctx[s][r].turn < MaxTurns
        /\ ~cancelKey[r]
        /\ Go(s, r, "turn")
        /\ UNCHANGED <<outcome, failedAt>>
     \/ /\ rctx[s][r].turn = MaxTurns \/ cancelKey[r]
        /\ Go(s, r, "fin")
        /\ EndRun(r)
        /\ UNCHANGED failedAt
     \/ /\ StoreRaises
        /\ rctx[s][r].turn < MaxTurns
        /\ Go(s, r, "fin")
        /\ Fails(s, r)
        /\ UNCHANGED outcome
  /\ UNCHANGED <<fleet, redis, servable, orig, rctx, api>>

(* The error of a save is not swallowed. *)
BugRecCheckpoint(s, r) ==
  /\ rpc[s][r] = "turn"
  /\ Keep(s, r, AddTurn(rctx[s][r]))
  /\ \/ Save(r, Host[s], AddTurn(rctx[s][r])) /\ Go(s, r, "llm")
     \/ StoreRaises /\ UNCHANGED cp /\ Go(s, r, "release")
  /\ UNCHANGED <<fleet, lock, cancelKey, servable, orig, api, outcome, failedAt>>

RecCheckpoint(s, r) ==
  /\ rpc[s][r] = "turn"
  /\ Keep(s, r, AddTurn(rctx[s][r]))
  /\ \/ Save(r, Host[s], AddTurn(rctx[s][r]))
     \/ StoreRaises /\ UNCHANGED cp
  /\ Go(s, r, "llm")
  /\ UNCHANGED <<fleet, lock, cancelKey, servable, orig, api, outcome, failedAt>>

RecToolTurn(s, r) ==
  /\ rpc[s][r] = "llm"
  /\ Keep(s, r, AddMessages(rctx[s][r]))
  /\ Go(s, r, "loop")
  /\ UNCHANGED <<fleet, redis, servable, orig, api, outcome, failedAt>>

RecLastTurn(s, r) ==
  /\ rpc[s][r] = "llm"
  /\ Go(s, r, "fin")
  /\ EndRun(r)
  /\ UNCHANGED <<fleet, redis, servable, orig, rctx, api, failedAt>>

(* The checkpoint of a resumed run is not deleted. *)
BugRecFinalize(s, r) ==
  /\ rpc[s][r] = "fin"
  /\ Go(s, r, "release")
  /\ UNCHANGED <<fleet, redis, servable, orig, rctx, api, outcome, failedAt>>

RecFinalize(s, r) ==
  /\ rpc[s][r] = "fin"
  /\ \/ Delete(r)
     \/ StoreRaises /\ UNCHANGED <<cp, lock>>
  /\ Go(s, r, "release")
  /\ UNCHANGED <<fleet, cancelKey, servable, orig, rctx, api, outcome, failedAt>>

(* An unconditional DEL: whoever holds the lock by now loses it.           *)
RecRelease(s, r) ==
  /\ rpc[s][r] = "release"
  /\ \/ lock' = [lock EXCEPT ![r] = None]
     \/ StoreRaises /\ UNCHANGED lock
  /\ Go(s, r, "idle")
  /\ Keep(s, r, NothingLoaded)
  /\ UNCHANGED <<fleet, cp, cancelKey, servable, orig, api, outcome, failedAt>>

(* A call of resume() outside its try raises; _resume_one swallows it.     *)
ResumeRaises(s, r) ==
  /\ StoreRaises
  /\ rpc[s][r] \in {"orphan", "lock", "claim"}
  /\ ScanIsOver(s)
  /\ Go(s, r, "idle")
  /\ Keep(s, r, NothingLoaded)
  /\ UNCHANGED <<fleet, redis, servable, orig, api, outcome, failedAt>>

RecStep(s, r) ==
  \/ ScanLoad(s, r) \/ ScanCheck(s, r)
  \/ ResumeLoad(s, r) \/ ResumeLock(s, r) \/ ResumeClaim(s, r) \/ ResumeRestore(s, r)
  \/ RecTurnCheck(s, r) \/ RecCheckpoint(s, r) \/ RecToolTurn(s, r)
  \/ RecLastTurn(s, r) \/ RecFinalize(s, r) \/ RecRelease(s, r)

(* The lock's TTL runs out: of a holder that is gone, or that is slow.     *)
HolderIsActive(r) == \E s \in Scanner : Host[s] = lock[r] /\ rpc[s][r] \in Holding

(* The lock is set without a TTL. *)
BugLockExpires(r) == FALSE /\ UNCHANGED vars

LockExpires(r) ==
  /\ lock[r] # None
  /\ HolderIsActive(r) => "longRecovery" \in Events
  /\ lock' = [lock EXCEPT ![r] = None]
  /\ UNCHANGED <<fleet, cp, cancelKey, servable, orig, rec, api, outcome, failedAt>>

-----------------------------------------------------------------------------
(* cancel_session_run: DELETE /agents/{name}/sessions/{session}/run,       *)
(* served by replica p.                                                    *)

(* The recovery task of the run that replica p tracks, if it has one.      *)
Tracked(p, s, r) == Host[s] = p /\ rpc[s][r] \in Recovering /\ ScanIsOver(s)

CancelTasks(r, p) ==
  /\ "cancel" \in Events
  /\ up[p] = "up"
  /\ opc[r] # "none"
  /\ api[r].pc = "idle"
  /\ opc' = [opc EXCEPT ![r] = IF home[r] = p THEN OrigAfterCancel(@) ELSE @]
  /\ \/ \E s \in Scanner : Tracked(p, s, r) /\ Go(s, r, RecAfterCancel(rpc[s][r]))
     \/ (\A s \in Scanner : ~Tracked(p, s, r)) /\ UNCHANGED rpc
  /\ api' = [api EXCEPT ![r] = [pc |-> "delete", at |-> p]]
  /\ outcome' = [outcome EXCEPT ![r] = IF @ = "no" THEN "user" ELSE @]
  /\ UNCHANGED <<fleet, redis, servable, home, octx, rctx, failedAt>>

CancelDelete(r) ==
  /\ api[r].pc = "delete"
  /\ \/ Delete(r)
     \/ StoreRaises /\ UNCHANGED <<cp, lock>>
  /\ api' = [api EXCEPT ![r].pc = "mark"]
  /\ UNCHANGED <<fleet, cancelKey, servable, orig, rec, outcome, failedAt>>

CancelMark(r) ==
  /\ api[r].pc = "mark"
  /\ \/ cancelKey' = [cancelKey EXCEPT ![r] = TRUE]
     \/ StoreRaises /\ UNCHANGED cancelKey
  /\ api' = [api EXCEPT ![r].pc = "done"]
  /\ UNCHANGED <<fleet, cp, lock, servable, orig, rec, outcome, failedAt>>

CancelKeyExpires(r) ==
  /\ "cancelTTL" \in Events
  /\ cancelKey[r]
  /\ cancelKey' = [cancelKey EXCEPT ![r] = FALSE]
  /\ UNCHANGED <<fleet, cp, lock, servable, orig, rec, api, outcome, failedAt>>

(* The agent is deleted or un-shared.                                      *)
Revoke(r) ==
  /\ "revoke" \in Events
  /\ servable[r]
  /\ servable' = [servable EXCEPT ![r] = FALSE]
  /\ UNCHANGED <<fleet, redis, orig, rec, api, outcome, failedAt>>

-----------------------------------------------------------------------------
ReplicaStep(p) ==
  \/ StartReplica(p) \/ Heartbeat(p) \/ BeatExpires(p) \/ BeatLapses(p)
  \/ Crash(p) \/ Shutdown(p) \/ Exit(p)
  \/ \E r \in Run : Submit(r, p) \/ CancelTasks(r, p)

RunStep(r) ==
  \/ OrigStep(r) \/ LockExpires(r) \/ CancelDelete(r) \/ CancelMark(r)
  \/ CancelKeyExpires(r) \/ Revoke(r)

ScannerStep(s) ==
  \/ ScanBegin(s) \/ ScanRaises(s)
  \/ \E r \in Run : RecStep(s, r) \/ ResumeRaises(s, r)

Next ==
  \/ \E p \in Replica : ReplicaStep(p)
  \/ \E r \in Run : RunStep(r)
  \/ \E s \in Scanner : ScannerStep(s)

(* The event loop runs every coroutine that is ready, LLM calls return or  *)
(* raise, the scan is periodic, a deployment replaces the processes that   *)
(* died, and Redis expires keys.  Nothing is assumed of crashes, lapsed    *)
(* heartbeats, users or administrators.                                    *)
Fairness ==
  /\ \A p \in Replica : WF_vars(StartReplica(p)) /\ WF_vars(Heartbeat(p))
                        /\ WF_vars(BeatExpires(p)) /\ WF_vars(Exit(p))
  /\ \A r \in Run : WF_vars(OrigStep(r)) /\ WF_vars(LockExpires(r))
                    /\ WF_vars(CancelDelete(r) \/ CancelMark(r))
  /\ \A s \in Scanner : WF_vars(ScanBegin(s))
                        /\ \A r \in Run : WF_vars(RecStep(s, r))

Spec == Init /\ [][Next]_vars

FairSpec == Spec /\ Fairness

-----------------------------------------------------------------------------
(* Properties.                                                             *)

(* A checkpoint whose owner is a live replica is skipped by every scan     *)
(* (checkpoint.py:282), so it must belong to an execution that is really   *)
(* in progress there: otherwise the run would be stuck for as long as that *)
(* replica lives.  The code makes two exceptions: the early returns of     *)
(* _resume_from_data (an agent that was deleted or un-shared), and the     *)
(* replicas where resume() swallowed an exception after it had saved the   *)
(* claim (runner.py:858; of the lookup at 871 or of is_cancelled at 984).  *)
ExecutesAt(p, r) ==
  \/ home[r] = p /\ opc[r] \in OrigActive
  \/ \E s \in Scanner : Host[s] = p /\ rpc[s][r] \in Executing

AdoptedRunsAreRunning ==
  \A r \in Run :
    /\ outcome[r] = "no" /\ servable[r]
    /\ cp[r] # None
    /\ up[cp[r].owner] = "up"
    /\ cp[r].owner \notin failedAt[r]
    => ExecutesAt(cp[r].owner, r)

(* Once the first save has gone through, a run keeps a checkpoint in the   *)
(* store until an execution has brought it to its end or its user has      *)
(* cancelled it, whatever crashes and takeovers come in between.           *)
NoRunIsLost ==
  \A r \in Run : octx[r].turn > 0 /\ outcome[r] = "no" => cp[r] # None

(* While heartbeats are refreshed in time, no recovery gets past the scan  *)
(* of a run that its original replica is still executing.                  *)
OnlyTheDeadAreTakenOver ==
  \A s \in Scanner, r \in Run :
    rpc[s][r] \in Recovering => opc[r] \notin OrigActive

(* routes/agents.py:596: a run that was cancelled is not resumed.  A       *)
(* recovery that loads the checkpoint after the cancel request was         *)
(* answered may claim it, but it makes no further model call.              *)
CancelledRunsAreNotResumed ==
  \A s \in Scanner, r \in Run : rctx[s][r].late => rpc[s][r] \notin {"turn", "llm"}

(* checkpoint.py:303: only one replica wins per checkpoint.  As long as a  *)
(* run has not ended, at most one recovery of it is past the lock, whoever *)
(* loaded the checkpoint and whenever.  (An exception in the loop deletes  *)
(* the lock before its holder is done with it: see RecTurnCheck.)          *)
OneRecoveryAtATime ==
  \A s \in Scanner, t \in Scanner, r \in Run :
    /\ outcome[r] = "no" /\ failedAt[r] = {}
    /\ rpc[s][r] \in Holding /\ rpc[t][r] \in Holding
    => s = t

(* As long as one replica stays up, every run that was checkpointed comes  *)
(* to an end.                                                              *)
RecordedRunsEnd ==
  \A r \in Run : octx[r].turn > 0 ~> outcome[r] # "no"

(* A cancel request that was answered is final: from some point on nothing *)
(* executes the run and no checkpoint is left for a scan to find.          *)
CancelSticks ==
  \A r \in Run : api[r].pc = "done" ~>
    [](/\ cp[r] = None
       /\ opc[r] \notin OrigActive
       /\ \A s \in Scanner : rpc[s][r] \notin Holding)

(* The promise of DurableRuns, read off the store and the history of the   *)
(* run: the checkpoint is the record and names the keeper.                 *)
Phase(r) ==
  CASE outcome[r] # "no" -> "over"
    [] outcome[r] = "no" /\ cp[r] # None -> "recorded"
    [] OTHER -> "accepted"

Promise == INSTANCE DurableRuns WITH
  alive <- {p \in Replica : Alive(p)},
  phase <- [r \in Run |-> Phase(r)],
  keeper <- [r \in Run |-> IF Phase(r) = "recorded" THEN cp[r].owner ELSE None]

(* What is recorded stays recorded under one replica's name until it is    *)
(* over, and only a dead replica's name is replaced: the promise without   *)
(* its liveness.                                                           *)
PromiseIsKept == Promise!Spec

(* Without early expiry of heartbeats and locks, recovery keeps the        *)
(* promise: a run has one keeper at a time, the next one takes over from a *)
(* dead one, and the run comes to an end.                                  *)
RecoveryKeepsPromise == Promise!FairSpec
=============================================================================
