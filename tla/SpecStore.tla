----------------------------- MODULE SpecStore -----------------------------
(* The versioned store of agent and team specs (agents/base_store.py) behind  *)
(* its callers: the routes of routes/agents.py, the tools with which agents   *)
(* make and delete agents (agents/tools/handlers.py), and the seeding at the  *)
(* start of a replica.                                                        *)
(*                                                                            *)
(* Every operation reads the whole state, changes its copy and writes all of  *)
(* it back.  On the file backend nothing suspends a request between the two,  *)
(* so a request runs alone; on Redis every call is a point where the requests *)
(* of other replicas come in between, and a save undoes what was saved since  *)
(* the load.  The content of a spec is left out.                             *)
(*                                                                            *)
(* Operators named Bug... are variants with a plausible mistake in them.      *)
EXTENDS Naturals, Sequences, FiniteSets

CONSTANTS
  Requests,        \* requests that may be in flight at once
  Users,           \* principals that call the API
  Admins,          \* those with the admin scope
  Names,           \* names of specs
  System,          \* the owner of seeded specs
  Shared,          \* identities whose specs are shared with everyone (shared_with "*")
  Coloned,         \* users whose id has a ":", as the subjects of some tokens do
  None,            \* no version
  MaxVersions,     \* bound: versions made in all
  MaxFileSaves,    \* bound: saves on the file backend
  MaxRedisSaves,   \* bound: saves on Redis
  MaxRaces,        \* bound: saves that undo another
  Cap              \* max_versions_per_identity

ASSUME SpecStoreAssumption ==
  /\ Admins \subseteq Users
  /\ System \notin Users
  /\ Shared \subseteq (Users \union {System}) \X Names
  /\ Coloned \subseteq Users
  /\ MaxVersions \in Nat \ {0, 1} /\ MaxFileSaves \in Nat
  /\ MaxRedisSaves \in Nat /\ MaxRaces \in Nat /\ Cap \in Nat
  /\ None \notin 1 .. MaxVersions /\ None \notin Names

Versions == 1 .. MaxVersions
Owners == Users \union {System}
Identities == Owners \X Names
Owner(i) == i[1]

Statuses == {"none", "draft", "proposed", "deployed", "archived", "rejected"}

VARIABLES
  backend,         \* "file" or "redis"
  gate,            \* require_admin_approval_for_deploy
  store,           \* what the backend holds: versions, identities, proposals
  claims,          \* the claim hash: identities whose name is reserved
  shown,           \* the identities a request in flight may have found deployed
  vacant,          \* the identities it may have found free
  req,             \* [Requests -> request], "idle" when there is none
  made,            \* history: version ids handed out
  saves, races,    \* history: saves, and those of a state that was stale
  approvals,       \* history: versions an administrator has approved
  won,             \* history: successful creates since the name was last released
  deleted          \* history: identities whose deletion has begun

setting == <<backend, gate>>
history == <<made, saves, races, approvals, won, deleted>>
vars == <<setting, store, claims, shown, vacant, req, history>>

(******************************** The state ********************************)
NoVersion == [ident |-> <<System, None>>, num |-> 0, status |-> "none", approved |-> FALSE,
              bypass |-> FALSE]
NoMeta == [deployed |-> None, draft |-> None, cursor |-> 0, ids |-> <<>>]
EmptyStore == [versions |-> [v \in Versions |-> NoVersion],
               idents |-> [i \in Identities |-> NoMeta],
               proposals |-> {}]

Status(s, v) == s.versions[v].status
IsOf(s, v, i) == Status(s, v) # "none" /\ s.versions[v].ident = i
Ids(s, i) == {s.idents[i].ids[k] : k \in DOMAIN s.idents[i].ids}

(* get_deployed: the version the pointer names, if it is still stored.        *)
Deployed(s, i) ==
  LET d == s.idents[i].deployed IN IF d # None /\ Status(s, d) # "none" THEN d ELSE None

Archive(s, V) ==
  [s EXCEPT !.versions = [v \in Versions |-> IF v \in V /\ @[v].status # "none"
                                             THEN [@[v] EXCEPT !.status = "archived"] ELSE @[v]]]

(* _apply_retention: of an identity with more than Cap versions, the oldest   *)
(* that are neither pointed to nor a draft, nor already archived, are put     *)
(* away, as many as there are too many.                                       *)
Excess(s, i) == Len(s.idents[i].ids) - Cap
Expendable(s, i) == {v \in Ids(s, i) : /\ v \notin {s.idents[i].deployed, s.idents[i].draft}
                                       /\ Status(s, v) \in {"proposed", "rejected"}}
Older(s, v, V) == {w \in V : s.versions[w].num < s.versions[v].num}
Retain(s, i) ==
  IF Len(s.idents[i].ids) <= Cap THEN s
  ELSE Archive(s, {v \in Expendable(s, i) :
                     Cardinality(Older(s, v, Expendable(s, i))) < Excess(s, i)})

(* create_version *)
CreateVersion(s, i, v, deploy, bypass) ==
  LET meta == s.idents[i]
      num  == meta.cursor + 1
      new  == [ident |-> i, num |-> num, status |-> IF deploy THEN "deployed" ELSE "draft",
               approved |-> FALSE, bypass |-> bypass]
      was  == IF deploy THEN Archive(s, {meta.deployed} \ {None}) ELSE s
      next == [deployed |-> IF deploy THEN v ELSE meta.deployed,
               draft    |-> IF deploy THEN None ELSE v,
               cursor   |-> num,
               ids      |-> Append(meta.ids, v)]
  IN Retain([was EXCEPT !.versions[v] = new, !.idents[i] = next], i)

(* An approval is asked for only of proposals.                                *)
BugMayDeploy(s, v) == gate => (Status(s, v) = "proposed" => s.versions[v].approved)

(* deploy_version: what the gate asks for, and the flip of the pointer.       *)
MayDeploy(s, v) ==
  gate => \/ Status(s, v) = "deployed"
          \/ Status(s, v) = "proposed" /\ s.versions[v].approved
(* The pointer moves, and the version it named stays as it was.               *)
BugDeployVersion(s, i, v) ==
  [s EXCEPT !.versions[v].status = "deployed", !.idents[i].deployed = v, !.proposals = @ \ {v}]

DeployVersion(s, i, v) ==
  LET was == Archive(s, {s.idents[i].deployed} \ {None, v})
  IN [was EXCEPT !.versions[v].status = "deployed",
                 !.idents[i].deployed = v,
                 !.idents[i].draft = IF @ = v THEN None ELSE @,
                 !.proposals = @ \ {v}]

(* An archived identity starts over with its numbers.                         *)
BugArchiveIdentity(s, i) ==
  [Archive(s, Ids(s, i)) EXCEPT !.idents[i] = [NoMeta EXCEPT !.ids = s.idents[i].ids],
                                !.proposals = {v \in @ : s.versions[v].ident # i}]

(* archive_identity *)
ArchiveIdentity(s, i) ==
  [Archive(s, Ids(s, i)) EXCEPT !.idents[i].deployed = None,
                                !.idents[i].draft = None,
                                !.proposals = {v \in @ : s.versions[v].ident # i}]
ArchivedCount(s, i) == Cardinality({v \in Ids(s, i) : Status(s, v) \notin {"none", "archived"}})

(* propose_version, approve_version, reject_version; a rejection notes the    *)
(* administrator in approved_by as an approval does.                          *)
ProposeVersion(s, v) == [s EXCEPT !.versions[v].status = "proposed", !.proposals = @ \union {v}]
ApproveVersion(s, v) == [s EXCEPT !.versions[v].approved = TRUE]

(* A rejected proposal is a draft again.                                      *)
BugRejectVersionReopens(s, v) == [s EXCEPT !.versions[v].status = "draft", !.proposals = @ \ {v}]

RejectVersion(s, v) ==
  [s EXCEPT !.versions[v].status = "rejected", !.versions[v].approved = TRUE,
            !.proposals = @ \ {v}]

(* A proposal is stored as "owner:name:version" and cut at its first two      *)
(* colons when it is read: an owner with a colon of his own is cut in the     *)
(* middle, no version is found under what is left, and the proposal passed    *)
(* over in silence.                                                           *)
Decodes(s, v) == Owner(s.versions[v].ident) \notin Coloned

(* The queue is shown as it was stored, whatever became of the versions.      *)
BugPending(s) == {v \in s.proposals : Decodes(s, v)}

(* list_pending_proposals *)
Pending(s) == {v \in s.proposals : Decodes(s, v) /\ Status(s, v) = "proposed"}

(********************************** Access *********************************)
CheckAccess(c, i) == c \in Admins \/ c = Owner(i) \/ i \in Shared
OwnerOrAdmin(c, i) == c \in Admins \/ c = Owner(i)

(********************************* Requests ********************************)
(* Before the load of its operation a request reads the store to resolve the  *)
(* name and check access, to see whether a name is free, to find what it      *)
(* forks.  On Redis any number of saves may come between such a read and the  *)
(* load: what was read is something that was so at some moment since the      *)
(* start, and that is what "shown" and "vacant" hold.  The file backend lets  *)
(* nothing come between: they hold what is so now.                            *)
Sights(s) == {i \in Identities : Deployed(s, i) # None}
Vacancies(s) == {i \in Identities : Deployed(s, i) = None}
Remember(old, new) == IF backend = "redis" THEN old \union new ELSE new

NoRequest == [op |-> "none", ident |-> <<System, None>>, vid |-> None, pc |-> "idle",
              snap |-> EmptyStore]
Request(op, i) == [NoRequest EXCEPT !.op = op, !.ident = i]

VersionOps == {"propose", "approve", "reject", "deploy"}
CreatingOps == {"make", "create", "seed"}
BypassOps == {"create", "seed"}

Go(r, pc) == req' = [req EXCEPT ![r].pc = pc]
Finish(r) == req' = [req EXCEPT ![r] = NoRequest]

(* On the file backend a request that has begun runs to its end.              *)
Turn(r) == backend = "redis" \/ \A q \in Requests \ {r} : req[q].pc = "idle"

(* The conditions under which an operation neither raises nor finds nothing   *)
(* to do once it has loaded the state.                                        *)
Applies(q, s) ==
  CASE q.op \in CreatingOps -> TRUE
    [] q.op = "delete" -> s.idents[q.ident].cursor > 0
    [] q.op = "propose" -> IsOf(s, q.vid, q.ident) /\ Status(s, q.vid) = "draft"
    [] q.op \in {"approve", "reject"} -> IsOf(s, q.vid, q.ident) /\ Status(s, q.vid) = "proposed"
    [] q.op = "deploy" -> IsOf(s, q.vid, q.ident) /\ MayDeploy(s, q.vid)

Loads(r, q) ==
  /\ Turn(r) /\ Applies(q, store)
  /\ req' = [req EXCEPT ![r] = [q EXCEPT !.pc = "save", !.snap = store]]
  /\ UNCHANGED <<setting, store, claims, shown, vacant, history>>
Begins(r, q) == req[r].pc = "idle" /\ Loads(r, q)

(* POST /agents makes an identity of the caller, whose name must be free; it  *)
(* takes no claim.                                                            *)
PostAgent(r) == \E c \in Users, n \in Names :
  <<c, n>> \in vacant /\ Begins(r, Request("make", <<c, n>>))

(* The routes below an existing spec: it must have been deployed, and the     *)
(* caller its owner or an administrator.  A bare name resolves to an identity *)
(* of the caller or the system's, a qualified one to any: the request carries *)
(* the identity it resolves to.  POST versions, and PUT with the gate off:    *)
NewVersion(r) == \E c \in Users, i \in shown :
  OwnerOrAdmin(c, i) /\ Begins(r, Request("make", i))

OnVersion(r) == \E c \in Users, i \in shown, op \in VersionOps, v \in 1 .. made :
  /\ IF op \in {"approve", "reject"} THEN c \in Admins ELSE OwnerOrAdmin(c, i)
  /\ Begins(r, [Request(op, i) EXCEPT !.vid = v])

Delete(r) == \E c \in Users, i \in shown :
  OwnerOrAdmin(c, i) /\ Begins(r, Request("delete", i))

(* fork: a spec that is deployed and that the caller may see becomes the      *)
(* first version of a free name in the caller's namespace.                    *)
ForkAgent(r) == \E c \in Users, n \in Names, source \in shown :
  /\ CheckAccess(c, source)
  /\ <<c, n>> \in vacant
  /\ Begins(r, Request("make", <<c, n>>))

(* The seeding of a replica that starts: nothing is deployed under the name,  *)
(* or something else than what is configured.                                 *)
Seed(r) == \E n \in Names :
  Begins(r, Request("seed", <<System, n>>))

(* The tool create_agent, for a name that resolve_for_caller does not find:   *)
(* neither in the caller's namespace nor, where the caller may see it, in the *)
(* system's.  It takes the claim (HSETNX), which the file backend always      *)
(* grants, and looks once more whether the name is free; when it is not, the  *)
(* claim is given back.                                                       *)
NotFound(c, n) ==
  /\ <<c, n>> \in vacant
  /\ \/ <<System, n>> \in vacant
     \/ ~CheckAccess(c, <<System, n>>)

(* The claim is read, not taken.                                              *)
BugClaim(r) == \E c \in Users, n \in Names :
  /\ req[r].pc = "idle" /\ Turn(r)
  /\ NotFound(c, n) /\ <<c, n>> \notin claims
  /\ req' = [req EXCEPT ![r] = [Request("create", <<c, n>>) EXCEPT !.pc = "check"]]
  /\ UNCHANGED <<setting, store, claims, shown, vacant, history>>

Claim(r) == \E c \in Users, n \in Names :
  /\ req[r].pc = "idle" /\ Turn(r)
  /\ NotFound(c, n) /\ <<c, n>> \notin claims
  /\ req' = [req EXCEPT ![r] = [Request("create", <<c, n>>) EXCEPT !.pc = "check"]]
  /\ claims' = IF backend = "redis" THEN claims \union {<<c, n>>} ELSE claims
  /\ UNCHANGED <<setting, store, shown, vacant, history>>

Check(r) ==
  /\ req[r].pc = "check" /\ Turn(r)
  /\ Go(r, IF Deployed(store, req[r].ident) = None THEN "load" ELSE "release")
  /\ UNCHANGED <<setting, store, claims, shown, vacant, history>>

CreateLoad(r) == req[r].pc = "load" /\ Loads(r, req[r])

(* What the operation makes of the state it has loaded.                       *)
Bypasses(q) == q.op \in BypassOps
Deploys(q) == ~gate \/ Bypasses(q)
Created(q, v) == CreateVersion(q.snap, q.ident, v, Deploys(q), Bypasses(q))
Changed(q, v) ==
  CASE q.op \in CreatingOps -> Created(q, v)
    [] q.op = "delete" -> ArchiveIdentity(q.snap, q.ident)
    [] q.op = "propose" -> ProposeVersion(q.snap, q.vid)
    [] q.op = "approve" -> ApproveVersion(q.snap, q.vid)
    [] q.op = "reject" -> RejectVersion(q.snap, q.vid)
    [] q.op = "deploy" -> DeployVersion(q.snap, q.ident, q.vid)

Written(r) == LET q == req[r] new == q.op \in CreatingOps IN
  /\ q.pc = "save" /\ Turn(r)
  /\ saves < (IF backend = "file" THEN MaxFileSaves ELSE MaxRedisSaves) /\ saves' = saves + 1
  /\ races' = IF q.snap = store THEN races ELSE races + 1
  /\ races' <= MaxRaces
  /\ new => made < MaxVersions
  /\ made' = IF new THEN made + 1 ELSE made
  /\ store' = Changed(q, made + 1)
  /\ shown' = Remember(shown, Sights(store'))
  /\ vacant' = Remember(vacant, Vacancies(store'))
  /\ approvals' = IF q.op = "approve" THEN approvals \union {q.vid} ELSE approvals
  /\ deleted' = IF q.op = "delete" THEN deleted \union {q.ident} ELSE deleted
  /\ UNCHANGED <<setting, claims>>

(* The save.  A deletion then releases the claim, if it archived anything.    *)
Save(r) == LET q == req[r] IN
  /\ Written(r)
  /\ IF q.op = "delete" /\ ArchivedCount(q.snap, q.ident) > 0 THEN Go(r, "release") ELSE Finish(r)
  /\ won' = [won EXCEPT ![q.ident] = IF q.op = "create" THEN @ + 1 ELSE @]

(* The save is applied, but its answer is lost: the caller sees an error, and *)
(* a create gives its claim back.                                             *)
SaveUnanswered(r) ==
  /\ Written(r) /\ backend = "redis"
  /\ IF req[r].op = "create" THEN Go(r, "release") ELSE Finish(r)
  /\ UNCHANGED won

Release(r) == LET q == req[r] IN
  /\ q.pc = "release" /\ Turn(r)
  /\ claims' = claims \ {q.ident}
  /\ won' = [won EXCEPT ![q.ident] = 0]
  /\ Finish(r)
  /\ UNCHANGED <<setting, store, shown, vacant, made, saves, races, approvals, deleted>>

(* A Redis error inside a create that holds the claim: it is given back.      *)
CreateFails(r) ==
  /\ req[r].op = "create" /\ req[r].pc \in {"check", "load", "save"} /\ backend = "redis"
  /\ Go(r, "release")
  /\ UNCHANGED <<setting, store, claims, shown, vacant, history>>

(* A replica dies with the request: the release never comes, and the claim    *)
(* stays.  Without a claim to release, the request is as if it had not come.  *)
Dropped(r) ==
  /\ req[r].op \in {"create", "delete"} /\ backend = "redis"
  /\ Finish(r)
  /\ UNCHANGED <<setting, store, claims, shown, vacant, history>>

(* The service starts with an empty store, or with one in which the second    *)
(* version of a spec has been proposed under the gate, on or off by now.      *)
Reviewed(i) ==
  ProposeVersion(CreateVersion(CreateVersion(EmptyStore, i, 1, TRUE, TRUE), i, 2, FALSE, FALSE), 2)

Init ==
  /\ backend \in {"file", "redis"}
  /\ gate \in BOOLEAN
  /\ \/ store = EmptyStore /\ made = 0
     \/ store \in {Reviewed(i) : i \in Identities} /\ made = 2
  /\ shown = Sights(store) /\ vacant = Vacancies(store)
  /\ claims = {}
  /\ req = [r \in Requests |-> NoRequest]
  /\ saves = 0 /\ races = 0
  /\ approvals = {}
  /\ won = [i \in Identities |-> 0] /\ deleted = {}

Next == \E r \in Requests :
       \/ PostAgent(r) \/ NewVersion(r) \/ OnVersion(r) \/ Delete(r) \/ ForkAgent(r) \/ Seed(r)
       \/ Claim(r) \/ Check(r) \/ CreateLoad(r)
       \/ Save(r) \/ SaveUnanswered(r) \/ Release(r) \/ CreateFails(r) \/ Dropped(r)

Spec == Init /\ [][Next]_vars

(******************************** Properties *******************************)
Stores == [versions : [Versions -> [ident : (Owners \X Names) \union {<<System, None>>},
                                    num : Nat, status : Statuses, approved : BOOLEAN,
                                    bypass : BOOLEAN]],
           idents : [Identities -> [deployed : Versions \union {None}, draft : Versions \union {None},
                                    cursor : Nat, ids : Seq(Versions)]],
           proposals : SUBSET Versions]

(* The shape of the state.                                                    *)
TypeOK ==
  /\ backend \in {"file", "redis"} /\ gate \in BOOLEAN
  /\ store \in Stores
  /\ claims \subseteq Identities /\ shown \subseteq Identities /\ vacant \subseteq Identities
  /\ req \in [Requests -> [op : {"none", "delete"} \union CreatingOps \union VersionOps,
                            ident : Identities \union {<<System, None>>},
                            vid : Versions \union {None},
                            pc : {"idle", "check", "load", "save", "release"}, snap : Stores]]
  /\ made \in 0 .. MaxVersions /\ saves \in Nat /\ races \in 0 .. MaxRaces
  /\ approvals \subseteq Versions /\ deleted \subseteq Identities
  /\ won \in [Identities -> Nat]

(* The pointers and the statuses of an identity agree, whoever else saved in  *)
(* between: what it serves is the one version of it that is deployed, and its *)
(* draft is one of its own that was neither deployed nor put away.            *)
PointersAgree == \A i \in Identities :
  LET meta == store.idents[i] IN
  /\ {v \in Versions : IsOf(store, v, i) /\ Status(store, v) = "deployed"}
       = {meta.deployed} \ {None}
  /\ meta.draft # None =>
       IsOf(store, meta.draft, i) /\ Status(store, meta.draft) \in {"draft", "proposed", "rejected"}

(* The versions of an identity are numbered 1, 2, ... in the order in which   *)
(* they are listed, each one stored, although two replicas may have given the *)
(* same number to two of them: the one that was saved first is forgotten.     *)
NumberedInOrder == \A i \in Identities :
  LET meta == store.idents[i] IN
  /\ meta.cursor = Len(meta.ids)
  /\ \A k \in DOMAIN meta.ids :
       IsOf(store, meta.ids[k], i) /\ store.versions[meta.ids[k]].num = k
  /\ \A v \in Versions : IsOf(store, v, i) => v \in Ids(store, i)

(* The administrators' queue shows exactly the versions that wait for them,   *)
(* but for those of the owners whose id has a colon: base_store.py:476 loses  *)
(* them, and they wait unseen.                                                *)
QueueIsComplete ==
  Pending(store) = {v \in Versions : Status(store, v) = "proposed" /\ Decodes(store, v)}

(* Of the creates that race for a name one succeeds, until the name is        *)
(* released: what the comments at base_store.py:708 and redis_store.py:91     *)
(* promise.                                                                   *)
OneWinner == \A i \in Identities : won[i] <= 1

(* It holds of the names nobody deletes.                                      *)
OneWinnerUntilDeleted == \A i \in Identities : won[i] > 1 => i \in deleted

(* While the gate is on, nothing begins to serve that no administrator has    *)
(* approved, unless it came from the configuration or from an agent's tool.   *)
GateIsKept == [][ gate /\ gate' =>
  \A v \in Versions : Status(store', v) = "deployed" /\ Status(store, v) \in {"none", "draft", "proposed", "rejected"}
                        => v \in approvals \/ store'.versions[v].bypass ]_vars

(* The file backend keeps the version ledger, and with it the lifecycle of    *)
(* docs/concepts/agent-versioning.md but for what VersionLedger adds to it by *)
(* name: Revive, TooMany and RetireAll.                                       *)
Recorded == backend = "file"
States == [v \in Versions |-> IF Recorded THEN Status(store, v) ELSE "none"]
Homes == [v \in Versions |-> IF Recorded /\ Status(store, v) # "none"
                             THEN store.versions[v].ident ELSE <<System, None>>]
Approvals == IF Recorded THEN approvals ELSE {}
Ledger == INSTANCE VersionLedger WITH
  status <- States, home <- Homes, approved <- Approvals, gate <- gate,
  Nobody <- <<System, None>>
LedgerIsKept == Ledger!Spec
=============================================================================
