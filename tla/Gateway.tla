------------------------------- MODULE Gateway -------------------------------
(* One gateway process from start to end (the lifespan of main.py): the audit *)
(* router, the provider registry with its watcher, and the policy enforcer,   *)
(* which report events to the router and share one event loop.                *)
(*                                                                            *)
(* Operators named Bug... are variants with a plausible mistake in them.      *)
EXTENDS AuditRouter, PolicyRefresh

CONSTANT Scenarios    \* those to choose from: the parts that are configured, and bounds

VARIABLES
  life,               \* how far the process has come
  scenario            \* the parts, and what may still happen: calls, refreshes, changes of the file and of the policies, failures of refreshes and of sinks

gatewayVars == <<life, scenario, auditVars, reloadVars, policyVars>>

Has(part) == part \in scenario.parts
Spend(kind) == scenario[kind] > 0 /\ scenario' = [scenario EXCEPT ![kind] = @ - 1]
Goes(from, to) == life = from /\ life' = to
Quiet == UNCHANGED auditVars

(* What each part leaves alone when another one moves.                        *)
SameReload == UNCHANGED reloadVars
SamePolicy == UNCHANGED policyVars
SameLife == UNCHANGED life

(********************************** Start-up *******************************)
(* The policy engine is provisioned and seeded, or the process refuses to     *)
(* start, with a failure event that nobody may ever write.  Whatever is asked *)
(* of a provider is reported besides (MetricsProxy).                          *)
ProvisionEngine ==
  /\ Has("enforcer") /\ Goes("starting", "provisioned") /\ Provision /\ Emit(2)
  /\ UNCHANGED scenario /\ SameReload
RefuseToStart ==
  /\ Has("enforcer") /\ Goes("starting", "refused") /\ Spend("failures") /\ Emit(2)
  /\ SameReload /\ SamePolicy
FirstLoad ==
  /\ life = "provisioned" /\ BeginRefresh("new")
  /\ Quiet /\ SameLife /\ SameReload /\ UNCHANGED scenario
Serve ==
  /\ IF Has("enforcer") THEN enforcer.at = "sleeping" /\ Goes("provisioned", "serving")
                        ELSE Goes("starting", "serving")
  /\ IF Has("watcher") THEN StartWatcher ELSE SameReload
  /\ Quiet /\ SamePolicy /\ UNCHANGED scenario

(*********************************** Service *******************************)
(* Requests, and the background runs that outlive them: each call of a        *)
(* provider is reported when it ends (MetricsProxy).                          *)
Call(c) ==
  /\ life \notin {"starting", "provisioned", "refused", "down"} /\ Spend("calls") /\ BeginCall(c)
  /\ Quiet /\ SameLife /\ SamePolicy
Return(c) ==
  /\ life # "refused" /\ EndCall(c) /\ Emit(1)
  /\ SameLife /\ SamePolicy /\ UNCHANGED scenario

(* A reload is reported when it has failed, and when the last of the old      *)
(* providers is closed; a close() that is a coroutine is a call like others.  *)
Watch ==
  /\ \/ (FirstLook \/ Poll \/ Swap \/ CloseOld) /\ Quiet
     \/ CloseOld /\ Emit(1)
     \/ (ReloadFails \/ ReloadDone) /\ Emit(1)
  /\ SameLife /\ SamePolicy /\ UNCHANGED scenario

(* Every refresh is reported as a call of a provider, so that their number is *)
(* bounded where events are counted.                                          *)
Tick ==
  /\ life = "serving" /\ BeginRefresh("sleeping")
  /\ IF Has("audit") THEN Spend("refreshes") ELSE UNCHANGED scenario
  /\ Quiet /\ SameLife /\ SameReload
Answer ==
  /\ Refreshed /\ Emit(IF News THEN 2 ELSE 1)
  /\ SameLife /\ SameReload /\ UNCHANGED scenario
NoAnswer ==
  /\ Spend("failures") /\ RefreshFails /\ Emit(2)
  /\ SameLife /\ SameReload

(* The sinks do their work; writes that fail or time out are bounded.         *)
Others == life # "refused" /\ SameLife /\ SameReload /\ SamePolicy
SinkWorks(s) ==
  \/ UNCHANGED scenario /\ (Take(s) \/ Writes(s))
  \/ Spend("faults") /\ (Fails(s) \/ TimesOut(s))
RouterStops == UNCHANGED scenario /\ (WorkersJoin \/ Deadline \/ CloseSink)
Audit ==
  /\ Others
  /\ \/ RouterStops
     \/ UNCHANGED scenario /\ \E s \in Sinks : Lands(s)
     \/ \E s \in Sinks : SinkWorks(s)

(********************************** Shutdown *******************************)
(* The watcher goes first, then the enforcer, and the router last, so that it *)
(* still takes what they report.                                              *)
EndWatch ==
  /\ Goes("serving", "unwatched") /\ StopWatcher
  /\ Quiet /\ SamePolicy /\ UNCHANGED scenario
EndEnforcement ==
  /\ Goes("unwatched", "unenforced") /\ CloseEnforcer
  /\ Quiet /\ SameReload /\ UNCHANGED scenario
EndAudit ==
  /\ life = "unenforced" /\ StopRouter
  /\ SameLife /\ SameReload /\ SamePolicy /\ UNCHANGED scenario
Exit ==
  /\ router = "off" /\ Goes("unenforced", "down")
  /\ Quiet /\ SameReload /\ SamePolicy /\ UNCHANGED scenario

(* Others change the configuration file and the policies at any time.         *)
Reconfigure ==
  /\ life \notin {"refused", "down"} /\ Spend("files") /\ ChangeFile
  /\ Quiet /\ SameLife /\ SamePolicy
Regulate ==
  /\ life = "serving" /\ Spend("policies") /\ ChangePolicies /\ Emit(2)
  /\ SameLife /\ SameReload

(* Nothing suspends the event loop between a poll and the swap: meanwhile     *)
(* only the file may change.                                                  *)
Loading == watcher.at = "loading"
Step ==
  \/ ProvisionEngine \/ RefuseToStart \/ FirstLoad \/ Serve
  \/ \E c \in Calls : Call(c) \/ Return(c)
  \/ Tick \/ Answer \/ NoAnswer
  \/ Audit
  \/ EndWatch \/ EndEnforcement \/ EndAudit \/ Exit
  \/ Regulate

Init ==
  /\ life = "starting" /\ scenario \in Scenarios
  /\ AuditInit(Has("audit")) /\ ReloadInit(Has("watcher"))
  /\ PolicyInit({"watcher", "enforcer"} \subseteq scenario.parts)

Next ==
  \/ Watch
  \/ Reconfigure
  \/ ~Loading /\ Step

Spec == Init /\ [][Next]_gatewayVars

(* The event loop runs every task that is ready, and the calls with which the *)
(* enforcer refreshes and the watcher closes providers return or fail.  A     *)
(* close() of a sink is awaited without a deadline (router.py:170), in the    *)
(* order of the configuration: it is only sure to return when every sink that *)
(* is left is prompt.  Nobody has to change anything, to stop the process or  *)
(* to call it.                                                                *)
AtHangingSink == router = "closing" /\ ~(open \subseteq Prompt)
Fairness ==
  /\ WF_gatewayVars(Watch)
  /\ WF_gatewayVars(~Loading /\ Tick)
  /\ WF_gatewayVars(~Loading /\ Answer)
  /\ \A s \in Prompt : WF_gatewayVars(~Loading /\ Others /\ SinkWorks(s))
  /\ WF_gatewayVars(~Loading /\ Others /\ ~AtHangingSink /\ RouterStops)
FairSpec == Spec /\ Fairness

(******************************** Properties *******************************)
TypeOK ==
  /\ AuditTypeOK /\ ReloadTypeOK /\ PolicyTypeOK
  /\ life \in {"starting", "provisioned", "refused", "serving", "unwatched", "unenforced", "down"}

(* Once nobody reports anything, a sink whose worker runs has its queue empty *)
(* again, whatever becomes of the other sinks.  In a shutdown the worker ends *)
(* with its sentinel or at the deadline, and what is on the queue then, or    *)
(* comes later, is not taken any more.                                        *)
SinksAreIsolated == \A s \in Prompt : life # "refused" ~> queue[s] = <<>> \/ s \in gone

(* A shutdown ends, whatever is left in the queues and in the workers of      *)
(* hanging sinks, unless it stands for ever before the close() of a sink that *)
(* hangs: the bound that router.py:146 gives for the whole of it covers the   *)
(* workers alone.                                                             *)
ShutdownEnds == router = "stopping" ~> (router = "off" \/ []AtHangingSink)

(* A good configuration that is written under the eyes of the watcher is      *)
(* served in the end, unless another one takes its place or the gateway       *)
(* stops.                                                                     *)
ChangesAreServed == \A c \in Configs :
  file.content = c /\ ~file.unseen /\ c \notin broken /\ life = "serving"
    ~> (\A p \in Primitives : Serves(p) = c) \/ file.content # c \/ life # "serving"

(* What the provider in service says of the engine on the first page is       *)
(* enforced in the end, unless it changes or the gateway stops; what is on    *)
(* the pages after it never is (cedar.py:224).                                *)
Told(v) == life = "serving" /\ Sees(CurrentProvider) = v
ChangesAreEnforced == \A v \in 0 .. 2 : Has("enforcer") /\ Told(v) ~> enforcer.enforced = v \/ ~Told(v)

(* What docs/guides/observability.md:142 says of the observability sink, that *)
(* it needs no extra setup: after a single call of a provider its queue does  *)
(* not overflow.                                                              *)
NothingIsRefused == \A s \in Echoing : counted[s] = {}
=============================================================================
