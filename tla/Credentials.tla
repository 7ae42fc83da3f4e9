----------------------------- MODULE Credentials -----------------------------
(* The credentials of one user: kept as attributes by the identity provider,  *)
(* resolved for requests through a cache (credentials/oidc.py, cache.py), and *)
(* read, written and deleted by the user (routes/credentials.py,              *)
(* writer/keycloak.py), all at once.  Every call of the provider is two       *)
(* steps, its own, in which it answers, and that of the gateway, which takes  *)
(* the answer up; between them anything else may happen.                      *)
(*                                                                            *)
(* An attribute is a number, new with every write, and 0 when it is absent.   *)
(*                                                                            *)
(* Operators named Bug... are variants with a plausible mistake in them.      *)
EXTENDS Naturals, FiniteSets

CONSTANTS
  Keys,           \* the attributes
  Mapped,         \* those that the userinfo endpoint tells as well
  Requests,       \* requests that may be under way at once
  MaxBegun,       \* bound: requests and changes by others
  MaxFaults       \* bound: answers that are refusals, errors or lost

ASSUME CredentialsAssumption ==
  /\ Keys # {} /\ Mapped \subseteq Keys
  /\ MaxBegun \in Nat /\ MaxFaults \in Nat

VARIABLES
  attrs,          \* [Keys -> Nat]: the attributes of the user
  declared,       \* the attributes that the User Profile of the provider declares
  held,           \* who has an admin token: the resolver, the writer
  known,          \* the attributes that the writer takes to be declared
  cache,          \* at most one entry: the clock of what it holds, and whether a write overtook the fill
  req,            \* what each request is doing
  clock,          \* changes of the attributes so far
  told,           \* the clock of the newest change that was reported as done
  raced,          \* did a declaration overwrite a newer one?
  admin,          \* who has a client of its own at the provider: the resolver, the writer
  dropped,        \* was a write reported as done, without a warning, whose value was not stored?
  begun, faults   \* for the bounds

idp == <<attrs, declared, clock, raced, admin>>
gateway == <<held, known, cache, told, dropped>>
bounds == <<begun, faults>>
vars == <<idp, gateway, req, bounds>>

(*********************************** Requests ******************************)
Ops == {"resolve", "read", "write", "delete"}
Calls == {"token", "retoken", "profile", "declare", "user", "user2", "store", "account",
          "accountStore", "userinfo"}

(* Its kind, the attribute and the value, the call it waits for and what was  *)
(* answered, the attributes or names it was told and the clock of them, and   *)
(* what has become of it.                                                     *)
Nobody == [k \in Keys |-> 0]
Free == [op |-> "none", key |-> CHOOSE k \in Keys : TRUE, value |-> 0, at |-> "none",
         reply |-> "none", snap |-> Nobody, names |-> {}, seen |-> 0,
         warned |-> FALSE, stored |-> FALSE, overtaken |-> FALSE]

Asked(q, at) == [q EXCEPT !.at = at, !.reply = "none"]
Ask(r, at) == req' = [req EXCEPT ![r] = Asked(@, at)]
End(r) == req' = [req EXCEPT ![r] = Free]
Got(r, at, replies) == req[r].at \in at /\ req[r].reply \in replies
Is(r, ops) == req[r].op \in ops

Refusals == {"401", "403"}
Errors == {"500", "lost"}
NotOk == Refusals \union Errors

Sides == {"resolver", "writer"}
Side(op) == IF op = "resolve" THEN "resolver" ELSE "writer"
Holds(r, yes) == held' = IF yes THEN held \union {Side(req[r].op)} ELSE held \ {Side(req[r].op)}

(******************************* The provider ******************************)
Reply(r, answer) == req' = [req EXCEPT ![r].reply = answer]
Waits(r, at) == req[r].at \in at /\ req[r].reply = "none"
Spend(n) == faults + n <= MaxFaults /\ faults' = faults + n /\ UNCHANGED begun

GivesToken(r) ==
  /\ Waits(r, {"token", "retoken"}) /\ Reply(r, "ok")
  /\ UNCHANGED <<idp, gateway, bounds>>

Tells(r) ==
  /\ Waits(r, {"user", "user2", "account", "userinfo"})
  /\ req' = [req EXCEPT ![r].reply = "ok", ![r].seen = clock,
                        ![r].snap = IF req[r].at # "userinfo" THEN attrs
                                    ELSE [k \in Keys |-> IF k \in Mapped THEN attrs[k] ELSE 0]]
  /\ UNCHANGED <<idp, gateway, bounds>>

ShowsProfile(r) ==
  /\ Waits(r, {"profile"})
  /\ req' = [req EXCEPT ![r].reply = "ok", ![r].names = declared]
  /\ UNCHANGED <<idp, gateway, bounds>>

(* A PUT takes effect whether its answer arrives or not.                      *)
Effective(r, q) == \E lost \in BOOLEAN :
  /\ Spend(IF lost THEN 1 ELSE 0)
  /\ req' = [req EXCEPT ![r] = [q EXCEPT !.reply = IF lost THEN "lost" ELSE "ok"]]

Declares(r) ==
  /\ Waits(r, {"declare"})
  /\ declared' = req[r].names \union {req[r].key}
  /\ raced' = (raced \/ declared # req[r].names)
  /\ Effective(r, req[r])
  /\ UNCHANGED <<attrs, clock, admin, gateway>>

(* What was read, changed in one attribute, replaces all of them, and what is *)
(* not declared is dropped without a word.                                    *)
Value(q, k) == IF k # q.key THEN q.snap[k] ELSE IF q.op = "write" THEN q.value ELSE 0

(* The attributes that were read are not sent back.                           *)
BugStored(q) == [k \in Keys |-> IF k \in declared /\ k = q.key THEN Value(q, k) ELSE 0]

Stored(q) == [k \in Keys |-> IF k \in declared THEN Value(q, k) ELSE 0]

Stores(r) == LET q == req[r] IN
  /\ Waits(r, {"store", "accountStore"})
  /\ attrs' = Stored(q) /\ clock' = clock + 1
  /\ Effective(r, [q EXCEPT !.seen = clock', !.stored = attrs'[q.key] = Value(q, q.key)])
  /\ UNCHANGED <<declared, raced, admin, gateway>>

Refuses(r) == \E answer \in NotOk :
  /\ Waits(r, Calls) /\ Spend(1) /\ Reply(r, answer)
  /\ UNCHANGED <<idp, gateway>>

(* Another replica, or the user elsewhere, changes an attribute.              *)
ChangedElsewhere == \E k \in declared :
  /\ begun < MaxBegun /\ begun' = begun + 1
  /\ attrs' = [attrs EXCEPT ![k] = begun + 2] /\ clock' = clock + 1
  /\ UNCHANGED <<declared, raced, admin, gateway, req, faults>>

(******************************** The gateway ******************************)
First(op) == IF op = "write" THEN "profile" ELSE "user"
Unaided(op) == IF op = "resolve" THEN "userinfo" ELSE "account"

(* A request that the cache cannot answer.  A token is asked for when there   *)
(* is none; without an admin client there is nothing to ask with, and the     *)
(* request turns to the calls it can make with the token of the user, and not *)
(* a word in the log.  A delete has none, and is refused at once.             *)
Begin(r) == \E op \in Ops, k \in Keys :
  /\ req[r] = Free /\ begun < MaxBegun /\ begun' = begun + 1
  /\ op = "resolve" => cache = {}
  /\ op \notin {"write", "delete"} => k = Free.key
  /\ op = "delete" => "writer" \in admin
  /\ req' = [req EXCEPT ![r] = [Free EXCEPT !.op = op, !.key = k, !.value = begun + 2,
                                  !.at = IF Side(op) \in held THEN First(op)
                                         ELSE IF Side(op) \in admin THEN "token"
                                         ELSE Unaided(op)]]
  /\ UNCHANGED <<idp, gateway, faults>>

(* Where a request turns to, with a warning, when the Admin API does not help *)
(* it.                                                                        *)
Warned(r, at) == req' = [req EXCEPT ![r] = [Asked(@, at) EXCEPT !.warned = TRUE]]
Fallback(r) ==
  Is(r, {"resolve", "read", "write"}) /\ Warned(r, Unaided(req[r].op))

(* _ensure_admin_token: the answer replaces whatever token there is by now.   *)
TokenAnswered(r) ==
  /\ Got(r, {"token"}, {"ok"} \union NotOk)
  /\ Holds(r, req[r].reply = "ok")
  /\ \/ req[r].reply = "ok" /\ Ask(r, First(req[r].op))
     \/ req[r].reply # "ok" /\ (Fallback(r) \/ (Is(r, {"delete"}) /\ End(r)))
  /\ UNCHANGED <<idp, known, cache, told, dropped, bounds>>

(* The second token, after a 401.                                             *)
RetokenAnswered(r) ==
  /\ Got(r, {"retoken"}, {"ok"} \union NotOk)
  /\ Holds(r, req[r].reply = "ok")
  /\ IF req[r].reply = "ok" THEN Ask(r, "user2")
     ELSE IF Is(r, {"resolve"}) THEN Fallback(r) ELSE End(r)
  /\ UNCHANGED <<idp, known, cache, told, dropped, bounds>>

(* A profile that cannot be read or written is worth a warning only.          *)
ProfileAnswered(r) ==
  /\ \/ /\ Got(r, {"profile"}, {"ok"})
        /\ known' = known \union req[r].names
        /\ Ask(r, IF req[r].key \in known' THEN "user" ELSE "declare")
     \/ Got(r, {"profile"}, NotOk \ {"lost"}) /\ Warned(r, "user") /\ UNCHANGED known
     \/ Got(r, {"profile"}, {"lost"}) /\ End(r) /\ UNCHANGED known
  /\ UNCHANGED <<idp, held, cache, told, dropped, bounds>>

(* The attribute is taken to be declared, whatever the answer.                *)
BugDeclareAnswered(r) ==
  /\ known' = known \union {req[r].key}
  /\ \/ Got(r, {"declare"}, {"ok"}) /\ Ask(r, "user")
     \/ Got(r, {"declare"}, NotOk \ {"lost"}) /\ Warned(r, "user")
     \/ Got(r, {"declare"}, {"lost"}) /\ End(r)
  /\ UNCHANGED <<idp, held, cache, told, dropped, bounds>>

DeclareAnswered(r) ==
  /\ \/ Got(r, {"declare"}, {"ok"}) /\ known' = known \union {req[r].key} /\ Ask(r, "user")
     \/ Got(r, {"declare"}, NotOk \ {"lost"}) /\ Warned(r, "user") /\ UNCHANGED known
     \/ Got(r, {"declare"}, {"lost"}) /\ End(r) /\ UNCHANGED known
  /\ UNCHANGED <<idp, held, cache, told, dropped, bounds>>

(* Success is reported after the cache has forgotten the user.  A resolve     *)
(* that has its answer already will fill it again.                            *)
Filling(q) == q.op = "resolve" /\ q.at \in {"user", "user2", "userinfo"} /\ q.reply = "ok"
Overtaken == [r \in Requests |->
  IF Filling(req[r]) THEN [req[r] EXCEPT !.overtaken = TRUE] ELSE req[r]]

(* The cache is left alone.                                                   *)
BugSucceeds(r) ==
  /\ req' = [Overtaken EXCEPT ![r] = Free]
  /\ told' = IF req[r].seen > told THEN req[r].seen ELSE told
  /\ dropped' = (dropped \/ (Is(r, {"write"}) /\ ~req[r].stored /\ ~req[r].warned))
  /\ UNCHANGED <<held, known, cache>>

Succeeds(r) ==
  /\ cache' = {}
  /\ req' = [Overtaken EXCEPT ![r] = Free]
  /\ told' = IF req[r].seen > told THEN req[r].seen ELSE told
  /\ dropped' = (dropped \/ (Is(r, {"write"}) /\ ~req[r].stored /\ ~req[r].warned))
  /\ UNCHANGED <<held, known>>

(* Credentials without anything in them are not cached.                       *)
Fill(r) ==
  /\ cache' = IF req[r].snap = Nobody THEN cache
              ELSE {[seen |-> req[r].seen, overtaken |-> req[r].overtaken]}
  /\ End(r)
  /\ UNCHANGED <<held, known, told, dropped>>

(* The user, once read, is resolved, shown, or sent back changed.             *)
UserRead(r) ==
  /\ Got(r, {"user", "user2"}, {"ok"})
  /\ \/ Is(r, {"resolve"}) /\ Fill(r)
     \/ Is(r, {"read"}) /\ End(r) /\ UNCHANGED gateway
     \/ Is(r, {"delete"}) /\ req[r].snap[req[r].key] = 0 /\ Succeeds(r)
     \/ Is(r, {"write", "delete"}) /\ (Is(r, {"delete"}) => req[r].snap[req[r].key] # 0)
          /\ Ask(r, "store") /\ UNCHANGED gateway
  /\ UNCHANGED <<idp, bounds>>

(* A 401 is tried again with a new token, once; after a second one, or a 403, *)
(* the token is given up.  A delete does neither.                             *)
UserRefused(r) ==
  /\ \/ Got(r, {"user"}, {"401"}) /\ ~Is(r, {"delete"}) /\ Ask(r, "retoken") /\ UNCHANGED held
     \/ /\ (Got(r, {"user"}, {"403"}) \/ Got(r, {"user2"}, Refusals))
        /\ Fallback(r) /\ Holds(r, FALSE)
     \/ Got(r, {"user", "user2"}, Errors) /\ Is(r, {"resolve"}) /\ Fallback(r) /\ UNCHANGED held
     \/ Got(r, {"user", "user2"}, Errors) /\ Is(r, {"read", "write"}) /\ End(r) /\ UNCHANGED held
     \/ Got(r, {"user"}, NotOk) /\ Is(r, {"delete"}) /\ End(r) /\ UNCHANGED held
  /\ UNCHANGED <<idp, known, cache, told, dropped, bounds>>

(* A write that is refused is made once more, with the token of the user.     *)
StoreAnswered(r) ==
  /\ \/ Got(r, {"store", "accountStore"}, {"ok"}) /\ Succeeds(r)
     \/ /\ Got(r, {"store"}, Refusals) /\ Is(r, {"write"})
        /\ Fallback(r) /\ Holds(r, FALSE) /\ UNCHANGED <<known, cache, told, dropped>>
     \/ Got(r, {"store"}, Refusals) /\ Is(r, {"delete"}) /\ End(r) /\ UNCHANGED gateway
     \/ (Got(r, {"store"}, Errors) \/ Got(r, {"accountStore"}, NotOk)) /\ End(r) /\ UNCHANGED gateway
  /\ UNCHANGED <<idp, bounds>>

AccountAnswered(r) ==
  /\ \/ Got(r, {"account"}, {"ok"}) /\ Is(r, {"write"}) /\ Ask(r, "accountStore")
     \/ (Got(r, {"account"}, NotOk) \/ (Got(r, {"account"}, {"ok"}) /\ Is(r, {"read"}))) /\ End(r)
  /\ UNCHANGED <<idp, gateway, bounds>>

UserinfoAnswered(r) ==
  /\ \/ Got(r, {"userinfo"}, {"ok"}) /\ Fill(r)
     \/ Got(r, {"userinfo"}, NotOk) /\ End(r) /\ UNCHANGED gateway
  /\ UNCHANGED <<idp, bounds>>

(* The entry expires, or is evicted for the sake of other users.              *)
CacheForgets ==
  /\ cache # {} /\ cache' = {}
  /\ UNCHANGED <<idp, held, known, told, dropped, req, bounds>>

Init ==
  /\ declared \in SUBSET Keys
  /\ attrs = [k \in Keys |-> IF k \in declared THEN 1 ELSE 0]
  /\ admin \in SUBSET Sides
  /\ held = {} /\ known = {} /\ cache = {}
  /\ req = [r \in Requests |-> Free]
  /\ clock = 0 /\ told = 0 /\ raced = FALSE /\ dropped = FALSE
  /\ begun = 0 /\ faults = 0

Provider(r) ==
  \/ GivesToken(r) \/ Tells(r) \/ ShowsProfile(r) \/ Declares(r) \/ Stores(r) \/ Refuses(r)
Gateway(r) ==
  \/ Begin(r) \/ TokenAnswered(r) \/ RetokenAnswered(r) \/ ProfileAnswered(r)
  \/ DeclareAnswered(r) \/ UserRead(r) \/ UserRefused(r) \/ StoreAnswered(r)
  \/ AccountAnswered(r) \/ UserinfoAnswered(r)

Next ==
  \/ \E r \in Requests : Provider(r) \/ Gateway(r)
  \/ ChangedElsewhere \/ CacheForgets

Spec == Init /\ [][Next]_vars

(******************************** Properties *******************************)
TypeOK ==
  /\ attrs \in [Keys -> 0 .. begun + 1] /\ declared \subseteq Keys /\ known \subseteq Keys
  /\ admin \subseteq Sides /\ held \subseteq Sides
  /\ cache \subseteq [seen : 0 .. clock, overtaken : BOOLEAN] /\ Cardinality(cache) <= 1
  /\ req \in [Requests -> [op : Ops \union {"none"}, key : Keys, value : 0 .. begun + 1,
                           at : Calls \union {"none"}, reply : {"none", "ok"} \union NotOk,
                           snap : [Keys -> 0 .. begun + 1], names : SUBSET Keys, seen : 0 .. clock,
                           warned : BOOLEAN, stored : BOOLEAN, overtaken : BOOLEAN]]
  /\ clock \in Nat /\ told \in 0 .. clock /\ raced \in BOOLEAN /\ dropped \in BOOLEAN
  /\ begun \in 0 .. MaxBegun /\ faults \in 0 .. MaxFaults

(* What the cache holds is not older than a change whose user was told that   *)
(* it is done, unless the change overtook the resolve that filled the cache.  *)
CacheIsFresh == \A entry \in cache : entry.seen >= told \/ entry.overtaken

(* A write that is reported as done, without a warning in the log, was        *)
(* stored, with two exceptions.  When two requests declared their attributes  *)
(* at the same time, the writer takes for declared what is not                *)
(* (keycloak.py:163).  Without an admin client it declares nothing at all     *)
(* (keycloak.py:93, 140), and an attribute that is not declared is dropped.   *)
ReportedWritesAreStored == dropped => raced \/ "writer" \notin admin

(* A request changes the attribute that it is about and no other one, unless  *)
(* the attributes have changed since it read them, or are not declared any    *)
(* more.                                                                      *)
OthersAreKept == \A r \in Requests, k \in Keys :
  Stores(r) /\ k # req[r].key /\ attrs'[k] # attrs[k] => req[r].seen # clock \/ k \notin declared
OnlyTheirOwn == [][OthersAreKept]_vars
=============================================================================
