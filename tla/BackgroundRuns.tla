--------------------------- MODULE BackgroundRuns ---------------------------
(***************************************************************************)
(* Streaming runs in the background: BackgroundRunManager, its Redis event *)
(* store and the reconnect stream of routes/_background.py, and what the   *)
(* cancel endpoints of routes/agents.py and routes/teams.py do to them.    *)
(*                                                                         *)
(* A run is an asyncio task that takes events from an agent or a team,     *)
(* writes them to the event store and puts them on the queue its client    *)
(* reads.  Every call of the event store is an await: the run may be       *)
(* cancelled there, before or after the store has executed the call.       *)
(***************************************************************************)
EXTENDS Naturals, Sequences

CONSTANTS
  Run,        \* the background tasks
  Session,    \* session ids
  NoRun,
  Events,     \* what may happen in this instance
  MaxTokens,  \* bound: the events of a run between its first and its last
  Quiet,      \* the silent polls a reconnected client waits after a run
  MaxSilent   \* and those it waits in all cases

(*   sessions    the runs are chat turns, each started under a session id; *)
(*               without it they are team runs, started under a            *)
(*               placeholder and re-keyed when their id is known           *)
(*   modelError  the agent or the team raises                              *)
(*   storeError  a call of the event store raises                          *)
(*   cancel      the user cancels                                          *)
(*   stale       a run takes longer than stale_seconds                     *)
(*   reconnect   a client reconnects                                       *)
EventKinds == {"sessions", "modelError", "storeError", "cancel", "stale", "reconnect"}

(* The key a team run is started under, until its first event names its id. *)
Placeholder(r) == <<"pending", r>>

ASSUME RunsAssumption ==
  /\ Events \subseteq EventKinds
  /\ MaxTokens \in Nat /\ Quiet \in Nat /\ MaxSilent \in Nat \ {0}
  /\ NoRun \notin Run \cup Session
  /\ Run \cap Session = {}
  /\ \A r \in Run : Placeholder(r) \notin Run \cup Session

VARIABLES
  tracked,  \* _runs
  pc,       \* where each task is
  key,      \* current_key
  told,     \* cancel() was called and the task has not seen it
  now,      \* the last event the run has yielded
  tokens,   \* how many tokens it has yielded
  out,      \* what was put on its queue
  log,      \* run:{key}:events
  status,   \* run:{key}:status
  req,      \* the cancel request
  client    \* a client that has reconnected

task == <<pc, key, told, now, tokens, out>>
store == <<log, status>>
vars == <<tracked, task, store, req, client>>

Key == Run \cup Session \cup {Placeholder(r) : r \in Run}

Kind == {"start", "token", "done", "error", "cancelled"}

(* Where a task awaits: before the try block, in it, in its handlers.      *)
Guarded == {"iter", "rename", "append"}
Executing == {"created", "begin"} \cup Guarded \cup {"err", "canc", "cstat", "last"}

TypeOK ==
  /\ tracked \in [Key -> Run \cup {NoRun}]
  /\ pc \in [Run -> {"none", "over"} \cup Executing]
  /\ key \in [Run -> Key]
  /\ told \in [Run -> BOOLEAN]
  /\ now \in [Run -> Kind \cup {"none"}]
  /\ tokens \in [Run -> 0..MaxTokens]
  /\ out \in [Run -> Seq(Kind \cup {"end"})]
  /\ log \in [Key -> Seq([run: Run \cup {NoRun}, kind: Kind])]
  /\ status \in [Key -> {"none", "running", "idle", "cancelled"}]
  /\ req \in [pc: {"none", "manager", "status", "event", "done"}, key: Key \cup {NoRun}]
  /\ client \in [pc: {"none", "read", "ask", "stopped"}, key: Key \cup {NoRun}, here: BOOLEAN,
                 seen: BOOLEAN, have: Nat, sent: Nat, silent: 0..MaxSilent,
                 why: SUBSET {"done", "cancelled", "quiet", "silent"}]

Init ==
  /\ tracked = [k \in Key |-> NoRun]
  /\ pc = [r \in Run |-> "none"]
  /\ key = [r \in Run |-> Placeholder(r)]
  /\ told = [r \in Run |-> FALSE]
  /\ now = [r \in Run |-> "none"]
  /\ tokens = [r \in Run |-> 0]
  /\ out = [r \in Run |-> <<>>]
  /\ log = [k \in Key |-> <<>>]
  /\ status = [k \in Key |-> "none"]
  /\ req = [pc |-> "none", key |-> NoRun]
  /\ client = [pc |-> "none", key |-> NoRun, here |-> FALSE, seen |-> FALSE, have |-> 0,
               sent |-> 0, silent |-> 0, why |-> {}]

(* A run that has yielded its last event counts as done. *)
BugIsRunning(k) == tracked[k] # NoRun /\ now[tracked[k]] # "done"

IsRunning(k) == tracked[k] # NoRun /\ pc[tracked[k]] \in Executing

-----------------------------------------------------------------------------
(* The manager.                                                            *)

(* cleanup() goes by the age of the entries: any of these may be old enough.*)
Removable ==
  {k \in Key : tracked[k] # NoRun /\ (pc[tracked[k]] = "over" \/ "stale" \in Events)}

Without(old) == [k \in Key |-> IF k \in old THEN NoRun ELSE tracked[k]]

Cleanup ==
  /\ \E old \in SUBSET Removable : old # {} /\ tracked' = Without(old)
  /\ UNCHANGED <<task, store, req, client>>

StartKeys(r) == IF "sessions" \in Events THEN Session ELSE {Placeholder(r)}

(* An entry under the same key is replaced.                                *)
Start(r) ==
  /\ pc[r] = "none"
  /\ pc' = [pc EXCEPT ![r] = "created"]
  /\ \E k \in StartKeys(r), old \in SUBSET Removable :
       /\ tracked' = [Without(old) EXCEPT ![k] = r]
       /\ key' = [key EXCEPT ![r] = k]
  /\ UNCHANGED <<told, now, tokens, out, store, req, client>>

(* The entry is dropped. *)
BugRekey(old, new) == tracked' = [tracked EXCEPT ![old] = NoRun]

Rekey(old, new) ==
  tracked' = IF tracked[old] = NoRun
             THEN tracked
             ELSE [tracked EXCEPT ![old] = NoRun, ![new] = tracked[old]]

-----------------------------------------------------------------------------
(* _run: what the agent or the team yields.                                *)

Goto(r, to) == pc' = [pc EXCEPT ![r] = to]

Put(r, events) == out' = [out EXCEPT ![r] = @ \o events]

FirstStep(r) ==
  /\ pc[r] = "created"
  /\ ~told[r]
  /\ Goto(r, "begin")
  /\ UNCHANGED <<tracked, key, told, now, tokens, out, store, req, client>>

Awaiting(r) == pc[r] = "iter" /\ ~told[r]

(* The first event of a team run has its team_run_id.                      *)
YieldStart(r) ==
  /\ Awaiting(r)
  /\ now[r] = "none"
  /\ now' = [now EXCEPT ![r] = "start"]
  /\ IF "sessions" \in Events
     THEN Goto(r, "append") /\ UNCHANGED tracked
     ELSE Goto(r, "rename") /\ Rekey(key[r], r)
  /\ UNCHANGED <<key, told, tokens, out, store, req, client>>

YieldToken(r) ==
  /\ Awaiting(r)
  /\ now[r] \in {"start", "token"}
  /\ tokens[r] < MaxTokens
  /\ tokens' = [tokens EXCEPT ![r] = @ + 1]
  /\ now' = [now EXCEPT ![r] = "token"]
  /\ Goto(r, "append")
  /\ UNCHANGED <<tracked, key, told, out, store, req, client>>

YieldDone(r) ==
  /\ Awaiting(r)
  /\ now[r] \in {"start", "token"}
  /\ now' = [now EXCEPT ![r] = "done"]
  /\ Goto(r, "append")
  /\ UNCHANGED <<tracked, key, told, tokens, out, store, req, client>>

RunReturns(r) ==
  /\ Awaiting(r)
  /\ now[r] = "done"
  /\ Goto(r, "last")
  /\ UNCHANGED <<tracked, key, told, now, tokens, out, store, req, client>>

(* A team run has nothing before its first event that could raise.         *)
RunRaises(r) ==
  /\ "modelError" \in Events
  /\ Awaiting(r)
  /\ now[r] # "done"
  /\ "sessions" \in Events \/ now[r] # "none"
  /\ Goto(r, "err")
  /\ UNCHANGED <<tracked, key, told, now, tokens, out, store, req, client>>

-----------------------------------------------------------------------------
(* _run: the calls of the event store.                                     *)

Event(r, kind) == [run |-> r, kind |-> kind]

Logged(r, kind) ==
  log' = [log EXCEPT ![key[r]] = Append(@, Event(r, kind))] /\ UNCHANGED status

Recorded(r, s) == status' = [status EXCEPT ![key[r]] = s] /\ UNCHANGED log

(* RENAME replaces its target and fails if there is nothing to rename.     *)
Renamed(old, new) ==
  /\ log' = IF log[old] = <<>> THEN log
            ELSE [log EXCEPT ![old] = <<>>, ![new] = log[old]]
  /\ status' = IF status[old] = "none" THEN status
               ELSE [status EXCEPT ![old] = "none", ![new] = status[old]]

(* What the store does for the call a task awaits.                         *)
Executed(r) ==
  \/ pc[r] = "begin" /\ Recorded(r, "running")
  \/ pc[r] = "rename" /\ Renamed(key[r], r)
  \/ pc[r] = "append" /\ Logged(r, now[r])
  \/ pc[r] = "err" /\ Logged(r, "error")
  \/ pc[r] = "canc" /\ Logged(r, "cancelled")
  \/ pc[r] = "cstat" /\ Recorded(r, "cancelled")
  \/ pc[r] = "last" /\ Recorded(r, "idle")

Answered(r, at, to, events) ==
  /\ pc[r] = at
  /\ ~told[r]
  /\ Executed(r)
  /\ Goto(r, to)
  /\ Put(r, events)
  /\ UNCHANGED <<tracked, told, now, tokens, req, client>>

Begun(r) == Answered(r, "begin", "iter", <<>>) /\ UNCHANGED key

(* The key is changed in the store only. *)
BugRekeyed(r) == Answered(r, "rename", "append", <<>>) /\ UNCHANGED key

Rekeyed(r) == Answered(r, "rename", "append", <<>>) /\ key' = [key EXCEPT ![r] = r]

Streamed(r) == Answered(r, "append", "iter", <<now[r]>>) /\ UNCHANGED key

Failed(r) == Answered(r, "err", "last", <<"error">>) /\ UNCHANGED key

CancelLogged(r) == Answered(r, "canc", "cstat", <<>>) /\ UNCHANGED key

(* The cancelled event and a first sentinel; the finally clause follows.   *)
Cancelled(r) == Answered(r, "cstat", "last", <<"cancelled", "end">>) /\ UNCHANGED key

(* The sentinel is left to the handlers. *)
BugEnded(r) == Answered(r, "last", "over", <<>>) /\ UNCHANGED key

Ended(r) == Answered(r, "last", "over", <<"end">>) /\ UNCHANGED key

StoreAnswers(r) ==
  \/ Begun(r) \/ Rekeyed(r) \/ Streamed(r) \/ Failed(r)
  \/ CancelLogged(r) \/ Cancelled(r) \/ Ended(r)

(* A call of the store raises, before or after the store has executed it.  *)
(* The errors of rename_key are suppressed, those of add_to_index after it *)
(* are not.                                                                *)
StoreRaises(r) ==
  /\ "storeError" \in Events
  /\ ~told[r]
  /\ \/ pc[r] \in {"begin", "last"} /\ Goto(r, "over")
     \/ pc[r] \in {"rename", "append"} /\ Goto(r, "err")
     \/ pc[r] \in {"err", "canc", "cstat"} /\ Goto(r, "last")
  /\ Executed(r) \/ UNCHANGED store
  /\ UNCHANGED <<tracked, key, told, now, tokens, out, req, client>>

(* The task sees CancelledError where it is.  Before the try block and in  *)
(* the finally clause nothing catches it.                                  *)
Interrupted(r) ==
  /\ told[r]
  /\ told' = [told EXCEPT ![r] = FALSE]
  /\ \/ pc[r] \in {"created", "begin", "last"} /\ Goto(r, "over")
     \/ pc[r] \in Guarded /\ Goto(r, "canc")
     \/ pc[r] \in {"err", "canc", "cstat"} /\ Goto(r, "last")
  /\ Executed(r) \/ UNCHANGED store
  /\ UNCHANGED <<tracked, key, now, tokens, out, req, client>>

TaskStep(r) ==
  \/ FirstStep(r) \/ YieldStart(r) \/ YieldToken(r) \/ YieldDone(r) \/ RunReturns(r)
  \/ StoreAnswers(r) \/ Interrupted(r)

-----------------------------------------------------------------------------
(* The cancel endpoint, on the replica that executes the runs.             *)

(* The keys a user knows: a team run id once it is in the index.            *)
Known == IF "sessions" \in Events THEN Session ELSE {r \in Run : key[r] = r}

Request(to) == req' = [req EXCEPT !.pc = to]

(* BackgroundRunManager.cancel: the entry decides whom to tell.            *)
CancelRun ==
  /\ "cancel" \in Events
  /\ req.pc = "none"
  /\ \E k \in Known :
       IF IsRunning(k)
       THEN /\ told' = [told EXCEPT ![tracked[k]] = TRUE]
            /\ req' = [pc |-> "manager", key |-> k]
       ELSE /\ req' = [pc |-> "status", key |-> k]
            /\ UNCHANGED told
  /\ UNCHANGED <<tracked, pc, key, now, tokens, out, store, client>>

CancelStatus ==
  /\ req.pc \in {"manager", "status"}
  /\ status' = [status EXCEPT ![req.key] = "cancelled"]
  /\ Request(IF req.pc = "manager" THEN "status" ELSE "event")
  /\ UNCHANGED <<tracked, task, log, client>>

CancelEvent ==
  /\ req.pc = "event"
  /\ log' = [log EXCEPT ![req.key] = Append(@, Event(NoRun, "cancelled"))]
  /\ Request("done")
  /\ UNCHANGED <<tracked, task, status, client>>

CancelStep == CancelStatus \/ CancelEvent

-----------------------------------------------------------------------------
(* reconnect_event_generator, here or on another replica.                  *)

DoneTypes == IF "sessions" \in Events THEN {"done"} ELSE {"done", "cancelled"}

Reconnect ==
  /\ "reconnect" \in Events
  /\ client.pc = "none"
  /\ \E k \in Known, h \in BOOLEAN :
       client' = [client EXCEPT !.pc = "read", !.key = k, !.here = h]
  /\ UNCHANGED <<tracked, task, store, req>>

(* get_events_async; the status is asked for afterwards.                   *)
PollEvents ==
  /\ client.pc = "read"
  /\ client' = [client EXCEPT !.pc = "ask", !.have = Len(log[client.key])]
  /\ UNCHANGED <<tracked, task, store, req>>

(* get_status_async: "running" in the store is not believed.               *)
StatusOf(k, here) ==
  IF here /\ IsRunning(k) THEN "running"
  ELSE IF status[k] \in {"none", "running"} THEN "idle" ELSE status[k]

Fresh == client.have > client.sent

(* The silent poll is not counted. *)
BugSilence == IF Fresh THEN 0 ELSE client.silent

Silence == IF Fresh THEN 0 ELSE client.silent + 1

TooSilent == Silence >= MaxSilent

(* A client that has never seen the run takes its silence for its end. *)
BugSeen == TRUE

Seen == client.seen \/ StatusOf(client.key, client.here) = "running"

(* What ends the loop: done and cancelled, silence after a run that was    *)
(* seen, and silence.                                                      *)
Reasons ==
  LET s == StatusOf(client.key, client.here)
  IN  {x \in {"done", "cancelled", "quiet", "silent"} :
        \/ x = "done" /\ Fresh /\ log[client.key][client.have].kind \in DoneTypes
        \/ x = "cancelled" /\ s = "cancelled"
        \/ x = "quiet" /\ Seen /\ s = "idle" /\ Silence > Quiet
        \/ x = "silent" /\ TooSilent}

PollStatus ==
  /\ client.pc = "ask"
  /\ client' = [client EXCEPT !.pc = IF Reasons = {} THEN "read" ELSE "stopped",
                              !.why = Reasons, !.seen = Seen, !.silent = Silence,
                              !.sent = IF Fresh THEN client.have ELSE @]
  /\ UNCHANGED <<tracked, task, store, req>>

ClientStep == PollEvents \/ PollStatus

-----------------------------------------------------------------------------
Next ==
  \/ Cleanup
  \/ \E r \in Run : Start(r) \/ TaskStep(r) \/ RunRaises(r) \/ StoreRaises(r)
  \/ CancelRun \/ CancelStep
  \/ Reconnect \/ ClientStep

(* The event loop runs every task that is ready, a run yields or ends.     *)
Fairness ==
  /\ \A r \in Run : WF_vars(TaskStep(r))
  /\ WF_vars(CancelStep) /\ WF_vars(ClientStep)

Spec == Init /\ [][Next]_vars

FairSpec == Spec /\ Fairness

-----------------------------------------------------------------------------
(* Properties.                                                             *)

(* A team run that executes is found under its id as soon as it has one:   *)
(* rekey comes before the store is told, and nothing removes the entry     *)
(* (routes/_background.py:263-271).                                        *)
TrackedRuns ==
  \A r \in Run :
    pc[r] \in Executing => tracked[IF now[r] = "none" THEN Placeholder(r) ELSE r] = r

(* A cancel request tells every run that executes under the key.           *)
CancelReachesRuns ==
  [][\A r \in Run :
       req.pc = "none" /\ req'.pc # "none" /\ req'.key = key[r] /\ pc[r] \in Executing =>
         told'[r]]_vars

(* What the first client of a team run is sent, up to the sentinel, is     *)
(* what a client that reconnects replays (docs/api/teams.md, "All events   *)
(* are recorded for replay on reconnect").                                 *)
StreamMatchesLog ==
  \A r \in Run : \A i \in DOMAIN out[r] :
    (\A j \in 1..i : out[r][j] # "end") =>
      i <= Len(log[r]) /\ out[r][i] = log[r][i].kind

(* A client that stops because the run is done, or idle after it has run,  *)
(* does not stop before the run is (_background.py:327, "polls for new     *)
(* ones until the run completes").                                         *)
ClientOutlastsRun ==
  client.why \cap {"done", "quiet"} # {} =>
    \A r \in Run : key[r] = client.key => pc[r] \in {"none", "over"} \/ now[r] = "done"

(* The queue of a run is closed, so the stream of its client ends.         *)
StreamEnds ==
  \A r \in Run : pc[r] = "created" ~> \E i \in DOMAIN out[r] : out[r][i] = "end"

(* A reconnected client does not wait for ever.                            *)
ClientStops == client.pc = "read" ~> client.pc = "stopped"
=============================================================================
