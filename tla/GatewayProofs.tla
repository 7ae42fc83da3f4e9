---------------------------- MODULE GatewayProofs ----------------------------
(* Theorems about the provider registry and its watcher inside the gateway,   *)
(* for every set of primitives and calls, every number of configurations and  *)
(* every choice of scenarios.                                                 *)
EXTENDS Gateway, AuditRouterProofs, TLAPS

-----------------------------------------------------------------------------
(* The inductive invariant.                                                   *)

Newest == Len(built)
Agrees == built[Newest] = file.content

(* Everything in service is of the newest generation, which could be built,   *)
(* and what is closed, or about to be closed, is older.                       *)
NewestInService ==
  /\ built # <<>> /\ built[Newest] \notin broken
  /\ \A p \in Primitives : providers[p] = Newest
  /\ \A i \in closed \union watcher.left : i[2] < Newest

(* A stamp that the watcher has kept tells it apart from every later content  *)
(* of the file: when it is still the stamp of the file, the reload that it    *)
(* set off has read what the file holds.                                      *)
Remembered ==
  /\ watcher.stamp <= file.stamp
  /\ watcher.stamp = file.stamp /\ ~file.unseen =>
       /\ watcher.at = "closing" => Agrees
       /\ watcher.at = "sleeping" /\ ~watcher.failed => Agrees

(* Before the first look, what is in service was read when the process began, *)
(* and every change since is one that the watcher cannot see.                 *)
AtFirst == life \in {"starting", "provisioned"}
NotYetWatched ==
  /\ AtFirst => watcher.at = "off"
  /\ AtFirst \/ watcher.at = "starting" => ~watcher.failed /\ (~file.unseen => Agrees)

RegistryInv == ReloadTypeOK /\ NewestInService /\ Remembered /\ NotYetWatched

-----------------------------------------------------------------------------
(* The operations of the registry and of its watcher, one by one.             *)

(* Appending to the generations keeps the older ones where they are.          *)
LEMMA NewGeneration ==
  ASSUME NEW c, built \in Seq(Configs \union {Nothing}), c \in Configs \union {Nothing},
         built' = Append(built, c)
  PROVE  /\ built' \in Seq(Configs \union {Nothing})
         /\ Len(built') = Len(built) + 1 /\ Len(built) \in Nat
         /\ built'[Len(built) + 1] = c
  OBVIOUS

(* A change of the file.                                                      *)
LEMMA FileKeeps ==
  ASSUME RegistryInv, ChangeFile, UNCHANGED life
  PROVE  RegistryInv'
<1> USE DEF RegistryInv
<1>1. PICK c \in Configs \union {Nothing} :
        file' = [content |-> c, stamp |-> file.stamp + 1, unseen |-> watcher.at \in {"off", "starting"}]
  BY DEF ChangeFile
<1>2. UNCHANGED <<broken, watcher, providers, built, closed, inUse, life>>
  BY DEF ChangeFile
<1>3. ReloadTypeOK'
  BY <1>1, <1>2 DEF ReloadTypeOK
<1>4. NewestInService'
  BY <1>2 DEF NewestInService, Newest
<1>5. Remembered'
  BY <1>1, <1>2 DEF Remembered, ReloadTypeOK
<1>6. NotYetWatched'
  BY <1>1, <1>2 DEF NotYetWatched, AtFirst
<1> QED
  BY <1>3, <1>4, <1>5, <1>6

(* The swap of a whole generation.                                            *)
LEMMA SwapKeeps ==
  ASSUME RegistryInv, Swap, UNCHANGED life
  PROVE  RegistryInv'
<1> USE DEF RegistryInv
<1>1. /\ file.content \in Configs \union {Nothing} /\ file.content \notin broken
      /\ built' = Append(built, file.content)
      /\ providers' = [p \in Primitives |-> Len(built) + 1]
      /\ watcher' = [watcher EXCEPT !.at = "closing", !.left = InService]
      /\ watcher.at = "loading"
      /\ UNCHANGED <<file, broken, closed, inUse, life>>
  BY DEF Swap, ReloadTypeOK
<1>2. /\ built' \in Seq(Configs \union {Nothing})
      /\ Len(built') = Len(built) + 1 /\ Len(built) \in Nat
      /\ built'[Len(built) + 1] = file.content
  BY <1>1, NewGeneration DEF ReloadTypeOK
<1>3. 1 .. Len(built) \subseteq 1 .. Len(built')
  BY <1>2
<1>4. InService \in SUBSET (Primitives \X (1 .. Len(built)))
  BY DEF InService, ReloadTypeOK
<1>5. /\ watcher'.at = "closing" /\ watcher'.left = InService
      /\ watcher'.stamp = watcher.stamp /\ watcher'.failed = watcher.failed
  BY <1>1 DEF ReloadTypeOK
<1>6. ReloadTypeOK'
  <2>1. providers' \in [Primitives -> 1 .. Len(built')]
    BY <1>1, <1>2
  <2>2. watcher' \in [at : {"off", "starting", "sleeping", "loading", "closing"}, stamp : Nat,
                      left : SUBSET (Primitives \X (1 .. Len(built'))), failed : BOOLEAN]
    <3>1. InService \in SUBSET (Primitives \X (1 .. Len(built')))
      BY <1>3, <1>4
    <3> QED
      BY <1>1, <3>1 DEF ReloadTypeOK
  <2>3. closed' \subseteq Primitives \X (1 .. Len(built'))
    BY <1>1, <1>3 DEF ReloadTypeOK
  <2>4. inUse' \in [Calls -> (Primitives \X (1 .. Len(built'))) \union {Unused}]
    BY <1>1, <1>3 DEF ReloadTypeOK
  <2> QED
    BY <1>1, <1>2, <2>1, <2>2, <2>3, <2>4 DEF ReloadTypeOK
<1>7. NewestInService'
  <2>1. \A i \in InService : i[2] = Len(built)
    BY DEF InService, NewestInService, Newest
  <2>2. \A i \in closed : i[2] < Len(built) + 1
    <3>1. \A i \in closed : i[2] \in 1 .. Len(built)
      BY DEF ReloadTypeOK
    <3> QED
      BY <1>2, <3>1
  <2>3. \A i \in closed' \union watcher'.left : i[2] < Len(built')
    BY <1>1, <1>2, <1>5, <2>1, <2>2
  <2> QED
    BY <1>1, <1>2, <2>3 DEF NewestInService, Newest
<1>8. Remembered'
  BY <1>1, <1>2, <1>5 DEF Remembered, Agrees, Newest
<1>9. NotYetWatched'
  BY <1>1, <1>5 DEF NotYetWatched, AtFirst
<1> QED
  BY <1>6, <1>7, <1>8, <1>9

(* Every other step of the watcher.                                           *)
LEMMA WatcherKeeps ==
  ASSUME RegistryInv, FirstLook \/ Poll \/ CloseOld \/ ReloadFails \/ ReloadDone, UNCHANGED life
  PROVE  RegistryInv'
<1> USE DEF RegistryInv
<1>1. CASE FirstLook
  <2>1. /\ watcher.at = "starting"
        /\ watcher' = [watcher EXCEPT !.at = "sleeping", !.stamp = file.stamp]
        /\ UNCHANGED <<file, broken, providers, built, closed, inUse, life>>
    BY <1>1 DEF FirstLook
  <2>2. ReloadTypeOK'
    BY <2>1 DEF ReloadTypeOK
  <2>3. NewestInService'
    BY <2>1 DEF NewestInService, Newest, ReloadTypeOK
  <2>4. Remembered'
    BY <2>1 DEF Remembered, NotYetWatched, Agrees, Newest, ReloadTypeOK
  <2>5. NotYetWatched'
    BY <2>1 DEF NotYetWatched, AtFirst, ReloadTypeOK
  <2> QED
    BY <2>2, <2>3, <2>4, <2>5
<1>2. CASE Poll
  <2>1. /\ watcher.at = "sleeping"
        /\ watcher' = [watcher EXCEPT !.at = "loading", !.stamp = file.stamp]
        /\ UNCHANGED <<file, broken, providers, built, closed, inUse, life>>
    BY <1>2 DEF Poll
  <2>2. ReloadTypeOK'
    BY <2>1 DEF ReloadTypeOK
  <2>3. NewestInService'
    BY <2>1 DEF NewestInService, Newest, ReloadTypeOK
  <2>4. Remembered'
    BY <2>1 DEF Remembered, ReloadTypeOK
  <2>5. NotYetWatched'
    BY <2>1 DEF NotYetWatched, AtFirst, ReloadTypeOK
  <2> QED
    BY <2>2, <2>3, <2>4, <2>5
<1>3. CASE CloseOld
  <2>1. PICK i \in watcher.left :
          /\ watcher.at = "closing"
          /\ watcher' = [watcher EXCEPT !.left = @ \ {i}]
          /\ closed' = closed \union {i}
          /\ UNCHANGED <<file, broken, providers, built, inUse, life>>
    BY <1>3 DEF CloseOld
  <2>2. ReloadTypeOK'
    BY <2>1 DEF ReloadTypeOK
  <2>3. NewestInService'
    BY <2>1 DEF NewestInService, Newest, ReloadTypeOK
  <2>4. Remembered'
    BY <2>1 DEF Remembered, Agrees, Newest, ReloadTypeOK
  <2>5. NotYetWatched'
    BY <2>1 DEF NotYetWatched, AtFirst, ReloadTypeOK
  <2> QED
    BY <2>2, <2>3, <2>4, <2>5
<1>4. CASE ReloadFails
  <2>1. /\ watcher.at = "loading"
        /\ watcher' = [watcher EXCEPT !.at = "sleeping", !.failed = TRUE]
        /\ UNCHANGED <<file, broken, providers, built, closed, inUse, life>>
    BY <1>4 DEF ReloadFails
  <2>2. ReloadTypeOK'
    BY <2>1 DEF ReloadTypeOK
  <2>3. NewestInService'
    BY <2>1 DEF NewestInService, Newest, ReloadTypeOK
  <2>4. Remembered'
    BY <2>1 DEF Remembered, ReloadTypeOK
  <2>5. NotYetWatched'
    BY <2>1 DEF NotYetWatched, AtFirst, ReloadTypeOK
  <2> QED
    BY <2>2, <2>3, <2>4, <2>5
<1>5. CASE ReloadDone
  <2>1. /\ watcher.at = "closing"
        /\ watcher' = [watcher EXCEPT !.at = "sleeping", !.failed = FALSE]
        /\ UNCHANGED <<file, broken, providers, built, closed, inUse, life>>
    BY <1>5 DEF ReloadDone
  <2>2. ReloadTypeOK'
    BY <2>1 DEF ReloadTypeOK
  <2>3. NewestInService'
    BY <2>1 DEF NewestInService, Newest, ReloadTypeOK
  <2>4. Remembered'
    BY <2>1 DEF Remembered, Agrees, Newest, ReloadTypeOK
  <2>5. NotYetWatched'
    BY <2>1 DEF NotYetWatched, AtFirst, ReloadTypeOK
  <2> QED
    BY <2>2, <2>3, <2>4, <2>5
<1> QED
  BY <1>1, <1>2, <1>3, <1>4, <1>5

(* The watcher is started once, when the process begins to serve, and stopped *)
(* when it no longer does.                                                    *)
LEMMA StartAndStopKeep ==
  ASSUME RegistryInv,
         \/ StartWatcher /\ AtFirst /\ life' = "serving"
         \/ StopWatcher /\ life' = "unwatched"
  PROVE  RegistryInv'
<1> USE DEF RegistryInv
<1>1. /\ UNCHANGED <<file, broken, providers, built, closed, inUse>>
      /\ ~AtFirst'
      /\ \/ AtFirst /\ watcher' = [watcher EXCEPT !.at = "starting"]
         \/ watcher' = [watcher EXCEPT !.at = "off"]
  BY DEF StartWatcher, StopWatcher, At, AtFirst
<1>2. ReloadTypeOK'
  BY <1>1 DEF ReloadTypeOK
<1>3. NewestInService'
  BY <1>1 DEF NewestInService, Newest, ReloadTypeOK
<1>4. Remembered'
  BY <1>1 DEF Remembered, ReloadTypeOK
<1>5. NotYetWatched'
  BY <1>1 DEF NotYetWatched, Agrees, Newest, ReloadTypeOK
<1> QED
  BY <1>2, <1>3, <1>4, <1>5

(* Requests only take what is in service.                                     *)
LEMMA RequestsKeep ==
  ASSUME RegistryInv, NEW c \in Calls, BeginCall(c) \/ EndCall(c), UNCHANGED life
  PROVE  RegistryInv'
<1> USE DEF RegistryInv
<1>1. UNCHANGED <<file, broken, watcher, providers, built, closed, life>>
  BY DEF BeginCall, EndCall
<1>2. inUse' \in [Calls -> (Primitives \X (1 .. Len(built))) \union {Unused}]
  BY DEF BeginCall, EndCall, ReloadTypeOK
<1> QED
  BY <1>1, <1>2 DEF ReloadTypeOK, NewestInService, Newest, Remembered, Agrees, NotYetWatched, AtFirst

(* The other parts leave the registry alone, and the process never goes back  *)
(* to its start-up.                                                           *)
LEMMA OthersKeep ==
  ASSUME RegistryInv, UNCHANGED reloadVars, AtFirst' => AtFirst
  PROVE  RegistryInv'
  BY DEF RegistryInv, reloadVars, ReloadTypeOK, NewestInService, Newest, Remembered, Agrees,
         NotYetWatched

-----------------------------------------------------------------------------
(* The whole process.                                                         *)

LEMMA RegistryInit == Init => RegistryInv
<1> SUFFICES ASSUME Init PROVE RegistryInv
  OBVIOUS
<1>1. /\ life = "starting"
      /\ file = [content |-> 1, stamp |-> 1, unseen |-> FALSE]
      /\ broken \subseteq Configs \ {1}
      /\ watcher = [at |-> "off", stamp |-> 0, left |-> {}, failed |-> FALSE]
      /\ built = <<1>>
      /\ providers = [p \in Primitives |-> 1]
      /\ closed = {}
      /\ inUse = [c \in Calls |-> Unused]
  BY DEF Init, ReloadInit
<1>2. 1 \in Configs
  BY ProviderReloadAssumption DEF Configs
<1> QED
  BY <1>1, <1>2 DEF RegistryInv, ReloadTypeOK, NewestInService, Newest, Remembered, NotYetWatched,
                    AtFirst, Agrees

LEMMA RegistryStep == RegistryInv /\ [Next]_gatewayVars => RegistryInv'
<1> SUFFICES ASSUME RegistryInv, [Next]_gatewayVars PROVE RegistryInv'
  OBVIOUS
<1>1. CASE Watch
  BY <1>1, SwapKeeps, WatcherKeeps DEF Watch, SameLife
<1>2. CASE Reconfigure
  BY <1>2, FileKeeps DEF Reconfigure, SameLife
<1>3. CASE Serve
  <2>1. AtFirst /\ life' = "serving" /\ (StartWatcher \/ UNCHANGED reloadVars)
    BY <1>3 DEF Serve, Goes, SameReload, AtFirst
  <2> QED
    BY <2>1, StartAndStopKeep, OthersKeep DEF AtFirst
<1>4. CASE EndWatch
  BY <1>4, StartAndStopKeep DEF EndWatch, Goes
<1>5. CASE \E c \in Calls : Call(c) \/ Return(c)
  BY <1>5, RequestsKeep DEF Call, Return, SameLife
<1>6. CASE \/ ProvisionEngine \/ RefuseToStart \/ FirstLoad \/ Tick \/ Answer \/ NoAnswer
           \/ Audit \/ EndEnforcement \/ EndAudit \/ Exit \/ Regulate
  <2>1. UNCHANGED reloadVars
    BY <1>6 DEF ProvisionEngine, RefuseToStart, FirstLoad, Tick, Answer, NoAnswer, Audit, Others,
                EndEnforcement, EndAudit, Exit, Regulate, SameReload
  <2>2. AtFirst' => AtFirst
    BY <1>6 DEF ProvisionEngine, RefuseToStart, FirstLoad, Tick, Answer, NoAnswer, Audit, Others,
                EndEnforcement, EndAudit, Exit, Regulate, SameLife, Goes, AtFirst
  <2> QED
    BY <2>1, <2>2, OthersKeep
<1>7. CASE UNCHANGED gatewayVars
  BY <1>7, OthersKeep DEF gatewayVars, AtFirst
<1> QED
  BY <1>1, <1>2, <1>3, <1>4, <1>5, <1>6, <1>7 DEF Next, Step

(* The registry is well-typed and its invariant holds, whatever is changed,   *)
(* called, stopped or reported meanwhile (registry.py, watcher.py).           *)
THEOREM RegistryIsInvariant == Spec => []RegistryInv
  BY RegistryInit, RegistryStep, PTL DEF Spec

(* The types of the registry and of its watcher.                              *)
THEOREM RegistryTypes == Spec => []ReloadTypeOK
  BY RegistryIsInvariant, PTL DEF RegistryInv

(* close() of old providers gives way to requests, and yet nothing that the   *)
(* registry hands out is closed (registry.py, reload and its callers).        *)
THEOREM ServedAreOpen == Spec => []ServedProvidersAreOpen
<1>1. RegistryInv => ServedProvidersAreOpen
  <2> SUFFICES ASSUME RegistryInv, NEW i \in InService, i \in closed PROVE FALSE
    BY DEF ServedProvidersAreOpen
  <2>1. i[2] = Newest /\ i[2] < Newest /\ Newest \in Nat
    BY DEF RegistryInv, ReloadTypeOK, NewestInService, InService, Newest
  <2> QED
    BY <2>1
<1> QED
  BY <1>1, RegistryIsInvariant, PTL

(* A reload puts all of a configuration into service or nothing of it: a      *)
(* provider that cannot be built leaves the registry as it was.               *)
THEOREM OneConfig == Spec => []OneConfigInService
<1>1. RegistryInv => OneConfigInService
  BY DEF RegistryInv, OneConfigInService, NewestInService, Newest, Serves
<1> QED
  BY <1>1, RegistryIsInvariant, PTL

(* A gateway that reports itself ready, with nothing left for its watcher to  *)
(* notice, serves what the configuration file says.                           *)
THEOREM ReadyIsCurrent == Spec => []ReadyServesTheFile
<1>1. RegistryInv => ReadyServesTheFile
  BY DEF RegistryInv, ReadyServesTheFile, Remembered, NewestInService, Agrees, Newest, Serves
<1> QED
  BY <1>1, RegistryIsInvariant, PTL

-----------------------------------------------------------------------------
(* The audit events of the process: whatever a step of it does, the router    *)
(* makes one of its own moves, or none.                                       *)
LEMMA GatewayAudits ==
  ASSUME [Next]_gatewayVars
  PROVE  AuditNext \/ UNCHANGED auditVars
<1> USE DEF AuditNext, Quiet
<1>1. CASE Watch
  BY <1>1 DEF Watch
<1>2. CASE Reconfigure
  BY <1>2 DEF Reconfigure
<1>3. CASE ProvisionEngine \/ RefuseToStart \/ FirstLoad \/ Serve
  BY <1>3 DEF ProvisionEngine, RefuseToStart, FirstLoad, Serve
<1>4. CASE \E c \in Calls : Call(c) \/ Return(c)
  BY <1>4 DEF Call, Return
<1>5. CASE Tick \/ Answer \/ NoAnswer \/ Regulate
  BY <1>5 DEF Tick, Answer, NoAnswer, Regulate
<1>6. CASE Audit
  BY <1>6 DEF Audit, RouterStops, SinkWorks
<1>7. CASE EndWatch \/ EndEnforcement \/ EndAudit \/ Exit
  BY <1>7 DEF EndWatch, EndEnforcement, EndAudit, Exit
<1>8. CASE UNCHANGED gatewayVars
  BY <1>8 DEF gatewayVars
<1> QED
  BY <1>1, <1>2, <1>3, <1>4, <1>5, <1>6, <1>7, <1>8 DEF Next, Step

(* What the router keeps for every sink holds throughout: the queues are      *)
(* bounded and in order, and what is written is older than what waits         *)
(* (audit/router.py).                                                         *)
THEOREM AuditIsInvariant == Spec => []AuditInv
<1>1. Init => AuditInv
  <2> SUFFICES ASSUME Init PROVE AuditInv
    OBVIOUS
  <2>1. Has("audit") \in BOOLEAN /\ AuditInit(Has("audit"))
    BY DEF Init, Has
  <2> QED
    BY <2>1, AuditRouterAssumption, AuditStarts
<1>2. AuditInv /\ [Next]_gatewayVars => AuditInv'
  BY AuditRouterAssumption, GatewayAudits, AuditKeeps, AuditStutters
<1> QED
  BY <1>1, <1>2, PTL DEF Spec

(* No event reported before the shutdown is lost without a count, unless the  *)
(* deadline cut its sink off (router.py, emit and the workers).               *)
THEOREM EventsAreAccountedFor == Spec => []NoEventVanishes
  BY AuditIsInvariant, AuditVanishesNothing, PTL

(* No event reaches a sink twice, late writes included, and the successful    *)
(* ones reach it in order (router.py, the workers).                           *)
THEOREM EventsAreInOrder == Spec => []WrittenOnceInOrder
  BY AuditIsInvariant, AuditWritesInOrder, PTL
-----------------------------------------------------------------------------
(* The types of the whole process.  The enforcer and the holders of policies  *)
(* speak of generations that were built, and there are only ever more.        *)
LEMMA GenerationsGrow ==
  ASSUME RegistryInv, [Next]_gatewayVars
  PROVE  Len(built) \in Nat /\ Len(built') \in Nat /\ Len(built) <= Len(built')
<1>1. built \in Seq(Configs \union {Nothing}) /\ file.content \in Configs \union {Nothing}
  BY DEF RegistryInv, ReloadTypeOK
<1>2. built' = built \/ built' = Append(built, file.content)
  BY DEF Next, Step, gatewayVars, reloadVars, SameReload, Watch, FirstLook, Poll, Swap, CloseOld,
         ReloadFails, ReloadDone, Reconfigure, ChangeFile, ProvisionEngine, RefuseToStart,
         FirstLoad, Serve, StartWatcher, Call, BeginCall, Return, EndCall, Tick, Answer, NoAnswer,
         Audit, Others, EndWatch, StopWatcher, EndEnforcement, EndAudit, Exit, Regulate
<1> QED
  BY <1>1, <1>2

(* What the enforcer may be, of so many generations.                          *)
EnforcerTypes(generations) ==
  [at : {"new", "fetching", "sleeping", "closed"}, via : 1 .. generations, enforced : Nat,
   reported : SUBSET Nat]
EngineStates == [changes : Nat, page : Nat]
LEMMA PoliciesAreTyped ==
  ASSUME RegistryInv, PolicyTypeOK, [Next]_gatewayVars
  PROVE  PolicyTypeOK'
<1>1. /\ Len(built) \in Nat /\ Len(built') \in Nat /\ Len(built) <= Len(built')
      /\ CurrentProvider \in 1 .. Len(built)
  BY GenerationsGrow, PolicyRefreshAssumption DEF RegistryInv, ReloadTypeOK, CurrentProvider
<1>2. \A h : HeldBy(h) \in EngineStates
  BY DEF HeldBy, PolicyTypeOK, EngineStates, NoPolicies, Engine
<1>3. \A g : Sees(g) \in Nat
  BY <1>2 DEF Sees, EngineStates
<1>4. Holder(CurrentProvider) \in 0 .. Len(built)
  BY <1>1 DEF Holder, Service
<1>5. CASE UNCHANGED policyVars
  BY <1>1, <1>5 DEF policyVars, PolicyTypeOK
<1>6. ASSUME NEW shows \in BOOLEAN, Change(shows)
      PROVE  PolicyTypeOK'
  <2> DEFINE here == Holder(CurrentProvider)
             n == HeldBy(here).changes + 1
             new == Engine(n, IF shows THEN n ELSE HeldBy(here).page)
             more == [h \in DOMAIN policies \union {here} |-> IF h # here THEN policies[h] ELSE new]
  <2>1. here \in 0 .. Len(built) /\ policies' = more /\ UNCHANGED <<kept, enforcer>>
    BY <1>4, <1>6 DEF Change
  <2>2. new \in EngineStates
    BY <1>2 DEF EngineStates, Engine
  <2> HIDE DEF here, new
  <2>3. \A h \in DOMAIN more : h \in 0 .. Len(built) /\ more[h] \in EngineStates
    BY <2>1, <2>2 DEF PolicyTypeOK, EngineStates
  <2> HIDE DEF more
  <2> QED
    BY <1>1, <2>1, <2>3 DEF PolicyTypeOK, EngineStates
<1>7. ASSUME enforcer' \in EnforcerTypes(Len(built)), UNCHANGED <<kept, policies>>
      PROVE  PolicyTypeOK'
  <2>1. EnforcerTypes(Len(built)) \subseteq EnforcerTypes(Len(built'))
    BY <1>1 DEF EnforcerTypes
  <2> QED
    BY <1>1, <1>7, <2>1 DEF PolicyTypeOK, EnforcerTypes
<1>8. enforcer \in EnforcerTypes(Len(built))
  BY DEF PolicyTypeOK, EnforcerTypes
<1>9. CASE \E from \in {"new", "sleeping"} : BeginRefresh(from)
  BY <1>1, <1>7, <1>8, <1>9 DEF BeginRefresh, EnforcerTypes
<1>10. CASE Refreshed
  <2> DEFINE v == Sees(enforcer.via)
  <2>1. v \in Nat /\ {v} \in SUBSET Nat
    BY <1>3
  <2>2. /\ enforcer' = [enforcer EXCEPT !.at = "sleeping", !.enforced = v, !.reported = {v}]
        /\ UNCHANGED <<kept, policies>>
    BY <1>10 DEF Refreshed
  <2> HIDE DEF v
  <2> QED
    BY <1>7, <1>8, <2>1, <2>2 DEF EnforcerTypes
<1>11. CASE RefreshFails \/ CloseEnforcer
  BY <1>7, <1>8, <1>11 DEF RefreshFails, CloseEnforcer, EnforcerTypes
<1> QED
  BY <1>5, <1>6, <1>9, <1>10, <1>11
  DEF ChangePolicies, Next, Step, gatewayVars, SamePolicy, Watch, Reconfigure, ProvisionEngine, Provision,
      RefuseToStart, FirstLoad, Serve, Call, Return, Tick, Answer, NoAnswer, Audit, Others,
      EndWatch, EndEnforcement, EndAudit, Exit, Regulate

(* How far the process may have come.                                         *)
Lives == {"starting", "provisioned", "refused", "serving", "unwatched", "unenforced", "down"}
LEMMA LivesOn ==
  ASSUME life \in Lives, [Next]_gatewayVars
  PROVE  (life \in Lives)'
BY DEF Lives, Next, Step, gatewayVars, SameLife, Goes, Watch, Reconfigure, ProvisionEngine,
       RefuseToStart, FirstLoad, Serve, Call, Return, Tick, Answer, NoAnswer, Audit, Others,
       EndWatch, EndEnforcement, EndAudit, Exit, Regulate

(* The state of the whole process has its shape throughout: the queues are    *)
(* bounded, nothing is written, counted or given up that was not reported,    *)
(* and nobody holds a provider, or policies, of a generation that was never   *)
(* built.                                                                     *)
THEOREM GatewayTypes == Spec => []TypeOK
<1>1. Init => CountedInv /\ PolicyTypeOK /\ life \in Lives
  <2> SUFFICES ASSUME Init PROVE CountedInv /\ PolicyTypeOK /\ life \in Lives
    OBVIOUS
  <2>1. life = "starting" /\ Len(built) = 1 /\ counted = [s \in Sinks |-> {}]
        /\ PolicyInit({"watcher", "enforcer"} \subseteq scenario.parts)
    BY DEF Init, ReloadInit, AuditInit
  <2>2. kept \in BOOLEAN /\ policies = [h \in {} |-> NoPolicies]
    BY <2>1, Zenon DEF PolicyInit
  <2>3. enforcer = [at |-> "new", via |-> 1, enforced |-> 0, reported |-> {}]
    BY <2>1 DEF PolicyInit
  <2>4. PolicyTypeOK
    BY <2>1, <2>2, <2>3 DEF PolicyTypeOK
  <2> QED
    BY <2>1, <2>4 DEF CountedInv, Lives
<1>2. RegistryInv /\ AuditInv /\ CountedInv /\ PolicyTypeOK /\ life \in Lives /\ [Next]_gatewayVars
        => CountedInv' /\ PolicyTypeOK' /\ (life \in Lives)'
  <2> SUFFICES ASSUME RegistryInv, AuditInv, CountedInv, PolicyTypeOK, life \in Lives,
                      [Next]_gatewayVars
               PROVE  CountedInv' /\ PolicyTypeOK' /\ (life \in Lives)'
    OBVIOUS
  <2>1. CountedInv'
    BY GatewayAudits, CountedKeeps
  <2>2. PolicyTypeOK'
    BY PoliciesAreTyped
  <2>3. (life \in Lives)'
    BY LivesOn
  <2> QED
    BY <2>1, <2>2, <2>3
<1>3. RegistryInv /\ AuditInv /\ CountedInv /\ PolicyTypeOK /\ life \in Lives => TypeOK
  BY AuditTypes DEF TypeOK, RegistryInv, Lives
<1> QED
  BY <1>1, <1>2, <1>3, RegistryIsInvariant, AuditIsInvariant, PTL DEF Spec
=============================================================================
