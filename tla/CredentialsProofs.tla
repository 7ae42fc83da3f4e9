-------------------------- MODULE CredentialsProofs --------------------------
(* Theorems about Credentials, for every set of attributes and requests and   *)
(* every number of requests, changes and faults.                              *)
EXTENDS Credentials, TLAPS

-----------------------------------------------------------------------------
(* The inductive invariant.                                                   *)

Replies == {"none", "ok"} \union NotOk
Request == [op : Ops \union {"none"}, key : Keys, value : Nat, at : Calls \union {"none"},
            reply : Replies, snap : [Keys -> Nat], names : SUBSET Keys, seen : Nat,
            warned : BOOLEAN, stored : BOOLEAN, overtaken : BOOLEAN]

(* What excuses a write that is dropped: declarations that raced, or no admin *)
(* client to declare anything with.                                           *)
excused == raced \/ "writer" \notin admin

Shape ==
  /\ attrs \in [Keys -> Nat] /\ declared \subseteq Keys /\ known \subseteq Keys
  /\ cache \subseteq [seen : Nat, overtaken : BOOLEAN]
  /\ req \in [Requests -> Request]
  /\ clock \in Nat /\ told \in Nat /\ excused \in BOOLEAN /\ dropped \in BOOLEAN /\ begun \in Nat

(* What a request q has read, that it still believes: the user, between the   *)
(* answer and the PUT; what resolves it, until it fills the cache; the names  *)
(* that the profile declares (a: the attributes, d: declared, k: known,       *)
(* c: clock, t: told, rc: excused).                                           *)
HasRead(q) == \/ q.at \in {"user", "user2", "account"} /\ q.reply = "ok"
              \/ q.at \in {"store", "accountStore"} /\ q.reply = "none"
Reading(q, a, c, t) ==
  /\ q.seen <= c
  /\ HasRead(q) /\ q.seen = c => q.snap = a
  /\ Filling(q) => q.seen >= t \/ q.overtaken

Declaring(q, d, rc) == ~rc =>
  /\ q.names \subseteq d
  /\ q.at = "declare" /\ q.reply = "ok" => q.key \in d

(* A write that has come past the declaration without a warning is about an   *)
(* attribute that is taken to be declared, and what it stored is stored       *)
(* unless that was wrong.                                                     *)
Writing(q, k, rc) ==
  /\ q.op = "write" /\ q.at \in {"account", "accountStore"} => q.warned \/ rc
  /\ q.at = "userinfo" => q.op = "resolve"
  /\ q.op = "write" /\ ~q.warned /\ q.at \in {"user", "user2", "retoken", "store"} => q.key \in k
  /\ q.op = "write" /\ ~q.warned /\ q.at = "store" /\ q.reply = "ok" => q.stored \/ rc

RequestOK(q, a, d, k, c, t, rc) ==
  Reading(q, a, c, t) /\ Declaring(q, d, rc) /\ Writing(q, k, rc)

RequestsOK == \A r \in Requests : RequestOK(req[r], attrs, declared, known, clock, told, excused)

WritersAndCache ==
  /\ told <= clock
  /\ ~excused => known \subseteq declared
  /\ dropped => excused
  /\ CacheIsFresh

CredentialsInv == Shape /\ RequestsOK /\ WritersAndCache

-----------------------------------------------------------------------------
(* Lemmas about single requests.                                              *)

(* What others may do while a request waits: the attributes change only with  *)
(* the clock, declarations are only added unless they have raced, and nothing *)
(* new is reported as done.                                                   *)
Passing(a, d, k, c, rc, a2, d2, k2, c2, rc2) ==
  /\ c <= c2 /\ (c = c2 => a = a2)
  /\ ~rc2 => ~rc /\ d \subseteq d2
  /\ k \subseteq k2

LEMMA RequestKept ==
  ASSUME NEW q \in Request, NEW t \in Nat,
         NEW a, NEW d, NEW k, NEW c \in Nat, NEW rc \in BOOLEAN,
         NEW a2, NEW d2, NEW k2, NEW c2 \in Nat, NEW rc2 \in BOOLEAN,
         RequestOK(q, a, d, k, c, t, rc), Passing(a, d, k, c, rc, a2, d2, k2, c2, rc2)
  PROVE  RequestOK(q, a2, d2, k2, c2, t, rc2)
<1>1. q.seen \in Nat
  BY DEF Request
<1>2. Reading(q, a2, c2, t)
  BY <1>1 DEF RequestOK, Reading, Passing
<1>3. Declaring(q, d2, rc2)
  BY DEF RequestOK, Declaring, Passing
<1>4. Writing(q, k2, rc2)
  BY DEF RequestOK, Writing, Passing
<1> QED
  BY <1>2, <1>3, <1>4 DEF RequestOK

(* A step that gives one request another state, and reports nothing as done.  *)
LEMMA OneRequest ==
  ASSUME CredentialsInv, NEW r \in Requests, NEW q \in Request,
         req' = [req EXCEPT ![r] = q],
         RequestOK(q, attrs', declared', known', clock', told', excused'),
         Passing(attrs, declared, known, clock, excused, attrs', declared', known', clock', excused'),
         attrs' \in [Keys -> Nat], declared' \subseteq Keys, known' \subseteq Keys,
         clock' \in Nat, excused' \in BOOLEAN, begun' \in Nat,
         ~excused' => known' \subseteq declared',
         UNCHANGED <<cache, told, dropped>>
  PROVE  CredentialsInv'
<1> USE DEF CredentialsInv
<1>1. Shape'
  BY DEF Shape
<1>2. RequestsOK'
  <2> SUFFICES ASSUME NEW s \in Requests
               PROVE  RequestOK(req'[s], attrs', declared', known', clock', told', excused')
    BY DEF RequestsOK
  <2>1. CASE s = r
    BY <2>1 DEF Shape
  <2>2. CASE s # r
    <3>1. req'[s] = req[s] /\ req[s] \in Request /\ told' = told /\ told \in Nat
      BY <2>2 DEF Shape
    <3>2. RequestOK(req[s], attrs, declared, known, clock, told, excused)
      BY DEF RequestsOK
    <3>3. clock \in Nat /\ excused \in BOOLEAN
      BY DEF Shape
    <3> QED
      BY <3>1, <3>2, <3>3, RequestKept
  <2> QED
    BY <2>1, <2>2
<1>3. WritersAndCache'
  <2>1. told' <= clock'
    BY DEF WritersAndCache, Passing, Shape
  <2>2. dropped' => excused'
    BY DEF WritersAndCache, Passing
  <2>3. CacheIsFresh'
    BY DEF WritersAndCache, CacheIsFresh
  <2> QED
    BY <2>1, <2>2, <2>3 DEF WritersAndCache
<1> QED
  BY <1>1, <1>2, <1>3

(* The common case: nothing else moves.                                       *)
LEMMA OnlyTheRequest ==
  ASSUME CredentialsInv, NEW r \in Requests, NEW q \in Request,
         req' = [req EXCEPT ![r] = q],
         RequestOK(q, attrs, declared, known, clock, told, excused),
         begun' \in Nat,
         UNCHANGED <<attrs, declared, known, clock, excused, cache, told, dropped>>
  PROVE  CredentialsInv'
<1>1. Passing(attrs, declared, known, clock, excused, attrs', declared', known', clock', excused')
  BY DEF Passing, CredentialsInv, Shape
<1> QED
  BY <1>1, OneRequest DEF CredentialsInv, Shape, WritersAndCache

LEMMA FreeIsFine ==
  ASSUME CredentialsInv
  PROVE  Free \in Request /\ \A a, d, k, rc : RequestOK(Free, a, d, k, clock, told, rc)
<1>1. (CHOOSE k \in Keys : TRUE) \in Keys
  BY CredentialsAssumption
<1>2. Free \in Request
  BY <1>1 DEF Free, Request, Nobody, Ops, Calls, Replies
<1>3. Free.seen = 0 /\ Free.at = "none" /\ Free.op = "none" /\ Free.names = {}
  BY DEF Free
<1>4. clock \in Nat
  BY DEF CredentialsInv, Shape
<1> QED
  BY <1>2, <1>3, <1>4 DEF RequestOK, Reading, HasRead, Filling, Declaring, Writing

(* A request that asks for the next thing: it keeps what it knows, and is to  *)
(* write only what it has just read.                                          *)
LEMMA AskedIsFine ==
  ASSUME CredentialsInv, NEW q \in Request, NEW at \in Calls, NEW w \in {TRUE, q.warned}, NEW p,
         p = [Asked(q, at) EXCEPT !.warned = w],
         NEW k, NEW d, NEW rc \in BOOLEAN,
         RequestOK(q, attrs, d, known, clock, told, rc),
         at \in {"store", "accountStore"} => HasRead(q),
         q.op = "write" /\ at \in {"account", "accountStore"} => w \/ rc,
         at = "userinfo" => q.op = "resolve",
         q.op = "write" /\ ~w /\ at \in {"user", "user2", "retoken", "store"} => q.key \in k
  PROVE  p \in Request /\ RequestOK(p, attrs, d, k, clock, told, rc)
<1>1. /\ p \in Request
      /\ p.op = q.op /\ p.key = q.key /\ p.at = at /\ p.reply = "none" /\ p.snap = q.snap
      /\ p.names = q.names /\ p.seen = q.seen /\ p.warned = w
  BY DEF Request, Asked, Replies
<1>2. Reading(p, attrs, clock, told)
  BY <1>1 DEF RequestOK, Reading, HasRead, Filling
<1>3. Declaring(p, d, rc)
  BY <1>1 DEF RequestOK, Declaring
<1>4. Writing(p, k, rc)
  BY <1>1 DEF Writing
<1> QED
  BY <1>1, <1>2, <1>3, <1>4 DEF RequestOK

Still == UNCHANGED <<attrs, declared, known, clock, excused, cache, told, dropped, begun>>

(* Asking for the next thing, with or without a warning, and giving up.       *)
LEMMA AskKeeps ==
  ASSUME CredentialsInv, NEW r \in Requests, NEW at \in Calls, Ask(r, at), Still,
         at \in {"store", "accountStore"} => HasRead(req[r]),
         req[r].op = "write" /\ at \in {"account", "accountStore"} => req[r].warned \/ excused,
         at # "userinfo",
         req[r].op = "write" /\ ~req[r].warned /\ at \in {"user", "user2", "retoken", "store"}
           => req[r].key \in known
  PROVE  CredentialsInv'
<1> DEFINE q == req[r]
           p == [Asked(q, at) EXCEPT !.warned = q.warned]
<1>1. q \in Request /\ RequestOK(q, attrs, declared, known, clock, told, excused) /\ excused \in BOOLEAN
  BY DEF CredentialsInv, Shape, RequestsOK
<1>2. p \in Request /\ RequestOK(p, attrs, declared, known, clock, told, excused)
  <2> HIDE DEF p
  <2> QED
    BY <1>1, AskedIsFine DEF p
<1>3. p = Asked(q, at)
  BY <1>1 DEF Request, Asked
<1>4. req' = [req EXCEPT ![r] = p]
  BY <1>3 DEF Ask
<1> QED
  BY <1>2, <1>4, OnlyTheRequest DEF Still, CredentialsInv, Shape

LEMMA WarnedKeeps ==
  ASSUME CredentialsInv, NEW r \in Requests, NEW at \in Calls \ {"store", "accountStore"},
         Warned(r, at), at = "userinfo" => req[r].op = "resolve", Still
  PROVE  CredentialsInv'
<1> DEFINE q == req[r]
           p == [Asked(q, at) EXCEPT !.warned = TRUE]
<1>1. q \in Request /\ RequestOK(q, attrs, declared, known, clock, told, excused) /\ excused \in BOOLEAN
  BY DEF CredentialsInv, Shape, RequestsOK
<1>2. p \in Request /\ RequestOK(p, attrs, declared, known, clock, told, excused)
  <2> HIDE DEF p
  <2> QED
    BY <1>1, AskedIsFine DEF p
<1>3. req' = [req EXCEPT ![r] = p]
  BY DEF Warned
<1> QED
  BY <1>2, <1>3, OnlyTheRequest DEF Still, CredentialsInv, Shape

LEMMA EndKeeps ==
  ASSUME CredentialsInv, NEW r \in Requests, End(r), Still
  PROVE  CredentialsInv'
  BY FreeIsFine, OnlyTheRequest DEF End, Still, CredentialsInv, Shape

LEMMA FallbackKeeps ==
  ASSUME CredentialsInv, NEW r \in Requests, Fallback(r), Still
  PROVE  CredentialsInv'
<1>1. \/ Warned(r, "userinfo") /\ req[r].op = "resolve"
      \/ Warned(r, "account")
  BY DEF Fallback, Is, Unaided
<1>2. {"userinfo", "account"} \subseteq Calls \ {"store", "accountStore"}
  BY DEF Calls
<1> QED
  BY <1>1, <1>2, WarnedKeeps

-----------------------------------------------------------------------------
(* The steps of the provider.                                                 *)

LEMMA AnswerKeeps ==
  ASSUME CredentialsInv, NEW r \in Requests, Still,
         NEW p \in Request, req' = [req EXCEPT ![r] = p],
         p.op = req[r].op, p.key = req[r].key, p.at = req[r].at, p.warned = req[r].warned,
         p.snap = req[r].snap, p.seen = req[r].seen, p.names \in {req[r].names, declared},
         \/ p.reply = "ok" /\ p.at \in {"token", "retoken", "profile"}
         \/ p.reply \in NotOk
  PROVE  CredentialsInv'
<1> DEFINE q == req[r]
<1>1. q \in Request /\ RequestOK(q, attrs, declared, known, clock, told, excused)
  BY DEF CredentialsInv, Shape, RequestsOK
<1>2. "ok" \notin NotOk /\ "none" \notin NotOk
  BY DEF NotOk, Refusals, Errors
<1>3. Reading(p, attrs, clock, told)
  BY <1>1, <1>2 DEF RequestOK, Reading, HasRead, Filling
<1>4. Declaring(p, declared, excused)
  BY <1>1, <1>2 DEF RequestOK, Declaring
<1>5. Writing(p, known, excused)
  BY <1>1, <1>2 DEF RequestOK, Writing
<1> QED
  BY <1>3, <1>4, <1>5, OnlyTheRequest DEF Still, RequestOK, CredentialsInv, Shape

LEMMA AnswersKeep ==
  ASSUME CredentialsInv, NEW r \in Requests, GivesToken(r) \/ ShowsProfile(r) \/ Refuses(r)
  PROVE  CredentialsInv'
<1>1. req[r] \in Request /\ declared \subseteq Keys
  BY DEF CredentialsInv, Shape
<1>2. Still
  BY DEF GivesToken, ShowsProfile, Refuses, Still, idp, excused, gateway, bounds, Spend
<1>3. CASE GivesToken(r)
  <2> DEFINE p == [req[r] EXCEPT !.reply = "ok"]
  <2>1. req' = [req EXCEPT ![r] = p] /\ req[r].at \in {"token", "retoken"}
    BY <1>3 DEF GivesToken, Reply, Waits
  <2>2. /\ p \in Request /\ p.op = req[r].op /\ p.key = req[r].key /\ p.at = req[r].at
        /\ p.warned = req[r].warned /\ p.snap = req[r].snap /\ p.seen = req[r].seen
        /\ p.names = req[r].names /\ p.reply = "ok"
    BY <1>1 DEF Request, Replies
  <2> HIDE DEF p
  <2> QED
    BY <1>2, <2>1, <2>2, AnswerKeeps
<1>4. CASE ShowsProfile(r)
  <2> DEFINE p == [req[r] EXCEPT !.reply = "ok", !.names = declared]
  <2>1. req' = [req EXCEPT ![r] = p] /\ req[r].at = "profile"
    BY <1>4 DEF ShowsProfile, Waits
  <2>2. /\ p \in Request /\ p.op = req[r].op /\ p.key = req[r].key /\ p.at = req[r].at
        /\ p.warned = req[r].warned /\ p.snap = req[r].snap /\ p.seen = req[r].seen
        /\ p.names = declared /\ p.reply = "ok"
    BY <1>1 DEF Request, Replies
  <2> HIDE DEF p
  <2> QED
    BY <1>2, <2>1, <2>2, AnswerKeeps
<1>5. CASE Refuses(r)
  <2>1. PICK answer \in NotOk : Reply(r, answer)
    BY <1>5 DEF Refuses
  <2> DEFINE p == [req[r] EXCEPT !.reply = answer]
  <2>2. req' = [req EXCEPT ![r] = p]
    BY <2>1 DEF Reply
  <2>3. /\ p \in Request /\ p.op = req[r].op /\ p.key = req[r].key /\ p.at = req[r].at
        /\ p.warned = req[r].warned /\ p.snap = req[r].snap /\ p.seen = req[r].seen
        /\ p.names = req[r].names /\ p.reply \in NotOk
    BY <1>1 DEF Request, Replies
  <2> HIDE DEF p
  <2> QED
    BY <1>2, <2>2, <2>3, AnswerKeeps
<1> QED
  BY <1>3, <1>4, <1>5

(* What is told is what the attributes are now, or a part of it that is only  *)
(* resolved.                                                                  *)
LEMMA TellsKeeps ==
  ASSUME CredentialsInv, NEW r \in Requests, Tells(r)
  PROVE  CredentialsInv'
<1> DEFINE q == req[r]
           told_ == IF q.at # "userinfo" THEN attrs
                    ELSE [k \in Keys |-> IF k \in Mapped THEN attrs[k] ELSE 0]
           p == [q EXCEPT !.reply = "ok", !.seen = clock, !.snap = told_]
<1>1. q \in Request /\ RequestOK(q, attrs, declared, known, clock, told, excused)
  BY DEF CredentialsInv, Shape, RequestsOK
<1>2. attrs \in [Keys -> Nat] /\ clock \in Nat /\ told \in Nat /\ told <= clock
  BY DEF CredentialsInv, Shape, WritersAndCache
<1>3. Still
  BY DEF Tells, Still, idp, excused, gateway, bounds
<1>4. req' = [req EXCEPT ![r] = p] /\ q.at \in {"user", "user2", "account", "userinfo"}
  BY DEF Tells, Waits
<1>5. told_ \in [Keys -> Nat]
  BY <1>2
<1>6. /\ p \in Request /\ p.op = q.op /\ p.key = q.key /\ p.at = q.at /\ p.reply = "ok"
      /\ p.seen = clock /\ p.snap = told_ /\ p.names = q.names /\ p.warned = q.warned
  <2> HIDE DEF told_
  <2> QED
    BY <1>1, <1>2, <1>5 DEF Request, Replies
<1>7. Reading(p, attrs, clock, told)
  <2>1. HasRead(p) => p.snap = attrs
    BY <1>4, <1>6 DEF HasRead
  <2> HIDE DEF p
  <2> QED
    BY <1>2, <1>6, <2>1 DEF Reading
<1>8. Declaring(p, declared, excused) /\ Writing(p, known, excused)
  <2> HIDE DEF p, told_
  <2> QED
    BY <1>1, <1>4, <1>6 DEF RequestOK, Declaring, Writing
<1>9. RequestOK(p, attrs, declared, known, clock, told, excused)
  BY <1>7, <1>8 DEF RequestOK
<1> HIDE DEF p
<1> QED
  BY <1>3, <1>4, <1>6, <1>9, OnlyTheRequest DEF Still, CredentialsInv, Shape

(* A declaration keeps what was declared, or races.                           *)
LEMMA DeclaresKeeps ==
  ASSUME CredentialsInv, NEW r \in Requests, Declares(r)
  PROVE  CredentialsInv'
<1> DEFINE q == req[r]
<1>1. q \in Request /\ RequestOK(q, attrs, declared, known, clock, told, excused)
  BY DEF CredentialsInv, Shape, RequestsOK
<1>2. /\ q.at = "declare"
      /\ declared' = q.names \union {q.key}
      /\ excused' = (excused \/ declared # q.names)
      /\ UNCHANGED <<attrs, clock, known, cache, told, dropped, begun>>
  BY DEF Declares, Waits, Effective, Spend, gateway, excused
<1>3. PICK lost \in BOOLEAN :
        req' = [req EXCEPT ![r] = [q EXCEPT !.reply = IF lost THEN "lost" ELSE "ok"]]
  BY DEF Declares, Effective
<1> DEFINE p == [q EXCEPT !.reply = IF lost THEN "lost" ELSE "ok"]
<1>4. /\ p \in Request /\ p.op = q.op /\ p.key = q.key /\ p.at = q.at /\ p.warned = q.warned
      /\ p.snap = q.snap /\ p.seen = q.seen /\ p.names = q.names
  BY <1>1 DEF Request, Replies, NotOk, Errors
<1>5. req' = [req EXCEPT ![r] = p]
  BY <1>3
<1> HIDE DEF p
<1>6. q.names \subseteq Keys /\ q.key \in Keys
  BY <1>1 DEF Request
<1>7. Passing(attrs, declared, known, clock, excused, attrs', declared', known', clock', excused')
  <2>1. ~excused' => ~excused /\ declared \subseteq declared'
    BY <1>2, Zenon
  <2>2. clock <= clock' /\ known \subseteq known' /\ attrs = attrs'
    BY <1>2 DEF CredentialsInv, Shape
  <2> QED
    BY <2>1, <2>2 DEF Passing
<1>8. Reading(p, attrs, clock, told)
  BY <1>1, <1>2, <1>4 DEF RequestOK, Reading, HasRead, Filling
<1>9. Declaring(p, declared', excused')
  BY <1>2, <1>4 DEF Declaring
<1>10. Writing(p, known, excused')
  BY <1>1, <1>2, <1>4 DEF RequestOK, Writing
<1>11. ~excused' => known' \subseteq declared'
  BY <1>2 DEF CredentialsInv, WritersAndCache
<1>12. RequestOK(p, attrs', declared', known', clock', told', excused')
  BY <1>2, <1>8, <1>9, <1>10 DEF RequestOK
<1>13. excused' \in BOOLEAN /\ declared' \subseteq Keys
  BY <1>2, <1>6
<1> QED
  BY <1>2, <1>4, <1>5, <1>7, <1>11, <1>12, <1>13, OneRequest DEF CredentialsInv, Shape

(* A PUT moves the clock, so that nobody else is up to date any more.         *)
LEMMA StoresKeeps ==
  ASSUME CredentialsInv, NEW r \in Requests, Stores(r)
  PROVE  CredentialsInv'
<1> DEFINE q == req[r]
<1>1. q \in Request /\ RequestOK(q, attrs, declared, known, clock, told, excused)
  BY DEF CredentialsInv, Shape, RequestsOK
<1>2. /\ q.at \in {"store", "accountStore"}
      /\ attrs' = Stored(q) /\ clock' = clock + 1
      /\ UNCHANGED <<declared, excused, known, cache, told, dropped, begun>>
  BY DEF Stores, Waits, Effective, Spend, gateway, excused
<1>3. clock \in Nat /\ known \subseteq Keys /\ (~excused => known \subseteq declared)
  BY DEF CredentialsInv, Shape, WritersAndCache
<1> DEFINE yes == attrs'[q.key] = Value(q, q.key)
<1>4. PICK lost \in BOOLEAN :
        req' = [req EXCEPT ![r] = [[q EXCEPT !.seen = clock', !.stored = yes]
                                     EXCEPT !.reply = IF lost THEN "lost" ELSE "ok"]]
  BY DEF Stores, Effective
<1> DEFINE answer == IF lost THEN "lost" ELSE "ok"
           p == [[q EXCEPT !.seen = clock', !.stored = yes] EXCEPT !.reply = answer]
<1>5. yes \in BOOLEAN /\ answer \in {"ok", "lost"}
  OBVIOUS
<1>6. /\ p \in Request /\ p.op = q.op /\ p.key = q.key /\ p.at = q.at /\ p.warned = q.warned
      /\ p.snap = q.snap /\ p.seen = clock' /\ p.names = q.names /\ p.stored = yes
      /\ p.reply \in {"ok", "lost"}
  <2> DEFINE m == [q EXCEPT !.seen = clock', !.stored = yes]
  <2>1. clock' \in Nat
    BY <1>2, <1>3
  <2>2. /\ m \in Request /\ m.op = q.op /\ m.key = q.key /\ m.at = q.at /\ m.warned = q.warned
        /\ m.snap = q.snap /\ m.seen = clock' /\ m.names = q.names /\ m.stored = yes
    <3> HIDE DEF yes
    <3> QED
      BY <1>1, <1>5, <2>1 DEF Request
  <2>3. answer \in Replies
    BY DEF Replies, NotOk, Errors
  <2> HIDE DEF m, answer, yes
  <2>4. p = [m EXCEPT !.reply = answer]
    BY DEF m
  <2> HIDE DEF p
  <2> QED
    BY <1>5, <2>2, <2>3, <2>4 DEF Request
<1>7. req' = [req EXCEPT ![r] = p]
  BY <1>4
<1> HIDE DEF p
<1>8. attrs' \in [Keys -> Nat]
  <2>1. \A k \in Keys : Value(q, k) \in Nat
    BY <1>1 DEF Request, Value
  <2> QED
    BY <1>2, <2>1 DEF Stored
<1>9. Passing(attrs, declared, known, clock, excused, attrs', declared', known', clock', excused')
  BY <1>2, <1>3 DEF Passing
<1>10. Reading(p, attrs', clock', told)
  BY <1>2, <1>3, <1>6 DEF Reading, HasRead, Filling
<1>11. Declaring(p, declared, excused)
  BY <1>1, <1>2, <1>6 DEF RequestOK, Declaring
<1>12. Writing(p, known, excused)
  <2>1. q.at = "store" /\ q.op = "write" /\ ~q.warned => q.key \in known
    BY <1>1 DEF RequestOK, Writing
  <2>2. q.key \in declared => yes
    BY <1>1, <1>2 DEF Stored, Request
  <2>3. q.op = "write" /\ q.at = "accountStore" => q.warned \/ excused
    BY <1>1 DEF RequestOK, Writing
  <2> HIDE DEF yes
  <2> QED
    BY <1>2, <1>3, <1>6, <2>1, <2>2, <2>3 DEF Writing
<1>13. RequestOK(p, attrs', declared', known', clock', told', excused')
  BY <1>2, <1>10, <1>11, <1>12 DEF RequestOK
<1>14. /\ declared' \subseteq Keys /\ known' \subseteq Keys /\ clock' \in Nat
       /\ excused' \in BOOLEAN /\ begun' \in Nat /\ (~excused' => known' \subseteq declared')
       /\ UNCHANGED <<cache, told, dropped>>
  BY <1>2, <1>3 DEF CredentialsInv, Shape
<1> QED
  BY <1>6, <1>7, <1>8, <1>9, <1>13, <1>14, OneRequest

(* Others change an attribute.                                                *)
LEMMA ElsewhereKeeps ==
  ASSUME CredentialsInv, ChangedElsewhere
  PROVE  CredentialsInv'
<1>1. PICK k \in declared : attrs' = [attrs EXCEPT ![k] = begun + 2]
  BY DEF ChangedElsewhere
<1>2. /\ clock' = clock + 1 /\ begun' = begun + 1
      /\ UNCHANGED <<declared, excused, known, cache, told, dropped, req>>
  BY DEF ChangedElsewhere, gateway, excused
<1>3. /\ clock \in Nat /\ begun \in Nat /\ told \in Nat /\ excused \in BOOLEAN /\ attrs \in [Keys -> Nat]
      /\ told <= clock
  BY DEF CredentialsInv, Shape, WritersAndCache
<1>4. Shape'
  BY <1>1, <1>2, <1>3 DEF CredentialsInv, Shape
<1>5. Passing(attrs, declared, known, clock, excused, attrs', declared', known', clock', excused')
  BY <1>2, <1>3 DEF Passing
<1>6. RequestsOK'
  <2> SUFFICES ASSUME NEW s \in Requests
               PROVE  RequestOK(req'[s], attrs', declared', known', clock', told', excused')
    BY DEF RequestsOK
  <2>1. req[s] \in Request /\ RequestOK(req[s], attrs, declared, known, clock, told, excused)
    BY DEF CredentialsInv, Shape, RequestsOK
  <2>2. clock' \in Nat
    BY <1>2, <1>3
  <2> QED
    BY <1>2, <1>3, <1>5, <2>1, <2>2, RequestKept
<1>7. WritersAndCache'
  BY <1>2, <1>3 DEF CredentialsInv, WritersAndCache, CacheIsFresh
<1> QED
  BY <1>4, <1>6, <1>7 DEF CredentialsInv

-----------------------------------------------------------------------------
(* The steps of the gateway.                                                  *)

LEMMA BeginKeeps ==
  ASSUME CredentialsInv, NEW r \in Requests, Begin(r)
  PROVE  CredentialsInv'
<1>1. PICK op \in Ops, k \in Keys :
        req' = [req EXCEPT ![r] = [Free EXCEPT !.op = op, !.key = k, !.value = begun + 2,
                                     !.at = IF Side(op) \in held THEN First(op)
                                            ELSE IF Side(op) \in admin THEN "token"
                                            ELSE Unaided(op)]]
  BY DEF Begin
<1> DEFINE at == IF Side(op) \in held THEN First(op)
                 ELSE IF Side(op) \in admin THEN "token" ELSE Unaided(op)
           p == [Free EXCEPT !.op = op, !.key = k, !.value = begun + 2, !.at = at]
<1>2. /\ at \in {"profile", "user", "token", "userinfo", "account"} \cap Calls
      /\ at = "userinfo" => op = "resolve"
      /\ op = "write" => at \in {"profile", "token"} \/ (at = "account" /\ excused)
  BY DEF First, Unaided, Side, Calls, Ops, excused
<1>3. begun' \in Nat /\ begun + 2 \in Nat
  BY DEF Begin, CredentialsInv, Shape
<1>4. UNCHANGED <<attrs, declared, known, clock, excused, cache, told, dropped>>
  BY DEF Begin, idp, excused, gateway
<1>5. Free \in Request /\ RequestOK(Free, attrs, declared, known, clock, told, excused)
  BY FreeIsFine
<1> HIDE DEF at
<1>6. /\ p \in Request /\ p.op = op /\ p.at = at /\ p.reply = "none" /\ p.seen = 0 /\ p.names = {}
  <2>1. Free.reply = "none" /\ Free.seen = 0 /\ Free.names = {}
    BY DEF Free
  <2> QED
    BY <1>2, <1>3, <1>5, <2>1 DEF Request
<1>7. req' = [req EXCEPT ![r] = p]
  BY <1>1 DEF at
<1> HIDE DEF p
<1>8. RequestOK(p, attrs, declared, known, clock, told, excused)
  <2>1. clock \in Nat
    BY DEF CredentialsInv, Shape
  <2> QED
    BY <1>2, <1>6, <2>1 DEF RequestOK, Reading, HasRead, Filling, Declaring, Writing
<1> QED
  BY <1>3, <1>4, <1>6, <1>7, <1>8, OnlyTheRequest

(* What the writer takes for declared, it has been told is declared.          *)
LEMMA DeclarationsKeep ==
  ASSUME CredentialsInv, NEW r \in Requests, ProfileAnswered(r) \/ DeclareAnswered(r)
  PROVE  CredentialsInv'
<1> DEFINE q == req[r]
<1>1. q \in Request /\ RequestOK(q, attrs, declared, known, clock, told, excused)
  BY DEF CredentialsInv, Shape, RequestsOK
<1>2. UNCHANGED <<attrs, declared, clock, excused, cache, told, dropped, begun>>
  BY DEF ProfileAnswered, DeclareAnswered, idp, excused, bounds
<1>3. CASE UNCHANGED known
  <2>1. Still
    BY <1>2, <1>3 DEF Still
  <2>2. {"user", "declare"} \subseteq Calls \ {"store", "accountStore"}
    BY DEF Calls
  <2>3. \/ End(r) \/ Warned(r, "user")
        \/ (Ask(r, "user") /\ q.key \in known) \/ Ask(r, "declare")
    BY <1>3 DEF ProfileAnswered, DeclareAnswered
  <2> QED
    BY <2>1, <2>2, <2>3, AskKeeps, WarnedKeeps, EndKeeps
<1>4. CASE ~UNCHANGED known
  <2>1. /\ known' = known \union q.names \/ (known' = known \union {q.key} /\ Got(r, {"declare"}, {"ok"}))
        /\ \/ Ask(r, "user") /\ q.key \in known'
           \/ Ask(r, "declare")
    BY <1>4 DEF ProfileAnswered, DeclareAnswered
  <2>2. PICK at \in {"user", "declare"} : Ask(r, at) /\ (at = "user" => q.key \in known')
    BY <2>1
  <2>3. at \in Calls
    BY DEF Calls
  <2>4. known' \subseteq Keys /\ known \subseteq known'
    BY <1>1, <2>1 DEF Request, CredentialsInv, Shape
  <2>5. ~excused => known' \subseteq declared
    BY <1>1, <2>1 DEF RequestOK, Declaring, Got, CredentialsInv, WritersAndCache
  <2> DEFINE p == [Asked(q, at) EXCEPT !.warned = q.warned]
  <2>6. p = Asked(q, at)
    BY <1>1 DEF Request, Asked
  <2>7. p \in Request /\ RequestOK(p, attrs, declared, known', clock, told, excused)
    <3>1. excused \in BOOLEAN
      BY DEF CredentialsInv, Shape
    <3>2. at \notin {"store", "accountStore"} /\ at \notin {"account", "accountStore", "userinfo"}
             /\ at # "userinfo"
      OBVIOUS
    <3>3. at \in {"user", "user2", "retoken", "store"} => q.key \in known'
      BY <2>2
    <3>4. /\ at \in {"store", "accountStore"} => HasRead(q)
          /\ at \in {"account", "accountStore", "userinfo"} => q.warned
          /\ at = "userinfo" => q.op = "resolve"
          /\ q.op = "write" /\ ~q.warned /\ at \in {"user", "user2", "retoken", "store"}
               => q.key \in known'
      BY <3>2, <3>3
    <3>5. q \in Request /\ at \in Calls /\ q.warned \in {TRUE, q.warned}
      BY <1>1, <2>3
    <3> HIDE DEF p
    <3> QED
      BY <1>1, <3>1, <3>4, <3>5, AskedIsFine DEF p
  <2>8. Passing(attrs, declared, known, clock, excused, attrs', declared', known', clock', excused')
    BY <1>2, <2>4 DEF Passing, CredentialsInv, Shape
  <2>9. req' = [req EXCEPT ![r] = p]
    BY <2>2, <2>6 DEF Ask
  <2> HIDE DEF p
  <2>10. RequestOK(p, attrs', declared', known', clock', told', excused')
    BY <1>2, <2>7
  <2>11. /\ attrs' \in [Keys -> Nat] /\ declared' \subseteq Keys /\ clock' \in Nat
         /\ excused' \in BOOLEAN /\ begun' \in Nat /\ (~excused' => known' \subseteq declared')
    BY <1>2, <2>5 DEF CredentialsInv, Shape
  <2> QED
    BY <1>2, <2>4, <2>7, <2>8, <2>9, <2>10, <2>11, OneRequest
<1> QED
  BY <1>3, <1>4

(* Filling the cache with what was read before nothing newer was reported.    *)
LEMMA FillKeeps ==
  ASSUME CredentialsInv, NEW r \in Requests, Fill(r), Filling(req[r]),
         UNCHANGED <<idp, bounds>>
  PROVE  CredentialsInv'
<1> DEFINE entry == [seen |-> req[r].seen, overtaken |-> req[r].overtaken]
<1>1. req[r] \in Request /\ RequestOK(req[r], attrs, declared, known, clock, told, excused)
  BY DEF CredentialsInv, Shape, RequestsOK
<1>2. /\ cache' = cache \/ cache' = {entry}
      /\ req' = [req EXCEPT ![r] = Free]
      /\ UNCHANGED <<attrs, declared, known, clock, told, excused, dropped, begun>>
  BY DEF Fill, End, idp, excused, bounds
<1>3. entry.seen >= told \/ entry.overtaken
  BY <1>1 DEF RequestOK, Reading
<1>4. entry \in [seen : Nat, overtaken : BOOLEAN]
  BY <1>1 DEF Request
<1>5. Free \in Request /\ RequestOK(Free, attrs, declared, known, clock, told, excused)
  BY FreeIsFine
<1> HIDE DEF entry
<1>6. Shape'
  BY <1>2, <1>4, <1>5 DEF CredentialsInv, Shape
<1>7. RequestsOK'
  BY <1>2, <1>5 DEF CredentialsInv, Shape, RequestsOK
<1>8. WritersAndCache'
  BY <1>2, <1>3 DEF CredentialsInv, WritersAndCache, CacheIsFresh
<1> QED
  BY <1>6, <1>7, <1>8 DEF CredentialsInv

(* Reporting success: the cache is empty, and whoever is about to fill it     *)
(* again is marked.                                                           *)
LEMMA SucceedsKeeps ==
  ASSUME CredentialsInv, NEW r \in Requests, Succeeds(r), UNCHANGED <<idp, bounds>>,
         req[r].op = "write" => req[r].at \in {"store", "accountStore"} /\ req[r].reply = "ok"
  PROVE  CredentialsInv'
<1> DEFINE q == req[r]
<1>1. \A s \in Requests : req[s] \in Request /\ RequestOK(req[s], attrs, declared, known, clock, told, excused)
  BY DEF CredentialsInv, Shape, RequestsOK
<1>2. /\ cache' = {}
      /\ req' = [Overtaken EXCEPT ![r] = Free]
      /\ UNCHANGED <<attrs, declared, known, clock, excused, begun>>
  BY DEF Succeeds, idp, excused, bounds
<1>3. /\ told' = (IF q.seen > told THEN q.seen ELSE told)
      /\ dropped' = (dropped \/ (Is(r, {"write"}) /\ ~q.stored /\ ~q.warned))
  BY DEF Succeeds
<1>4. clock \in Nat /\ told \in Nat /\ told <= clock
  BY DEF CredentialsInv, Shape, WritersAndCache
<1>5. told' \in Nat /\ told' <= clock
  BY <1>1, <1>3, <1>4 DEF RequestOK, Reading, Request
<1>6. dropped' => excused
  BY <1>1, <1>3 DEF Is, RequestOK, Writing, CredentialsInv, WritersAndCache
<1>7. Free \in Request /\ RequestOK(Free, attrs, declared, known, clock, told', excused)
  <2>1. Free \in Request /\ RequestOK(Free, attrs, declared, known, clock, told, excused)
    BY FreeIsFine
  <2>2. ~Filling(Free)
    BY DEF Filling, Free
  <2> QED
    BY <2>1, <2>2 DEF RequestOK, Reading
<1>8. \A s \in Requests : /\ Overtaken[s] \in Request
                          /\ RequestOK(Overtaken[s], attrs, declared, known, clock, told', excused)
  <2> SUFFICES ASSUME NEW s \in Requests
               PROVE  /\ Overtaken[s] \in Request
                      /\ RequestOK(Overtaken[s], attrs, declared, known, clock, told', excused)
    OBVIOUS
  <2>1. req[s] \in Request /\ RequestOK(req[s], attrs, declared, known, clock, told, excused)
    BY <1>1
  <2>2. CASE ~Filling(req[s])
    <3>1. Overtaken[s] = req[s]
      BY <2>2 DEF Overtaken
    <3> QED
      BY <2>1, <2>2, <3>1 DEF RequestOK, Reading
  <2>3. CASE Filling(req[s])
    <3> DEFINE p == [req[s] EXCEPT !.overtaken = TRUE]
    <3>1. Overtaken[s] = p
      BY <2>3 DEF Overtaken
    <3>2. /\ p \in Request /\ p.op = req[s].op /\ p.key = req[s].key /\ p.at = req[s].at
          /\ p.reply = req[s].reply /\ p.snap = req[s].snap /\ p.names = req[s].names
          /\ p.seen = req[s].seen /\ p.warned = req[s].warned /\ p.stored = req[s].stored
          /\ p.overtaken
      BY <2>1 DEF Request
    <3> HIDE DEF p
    <3>3. Reading(p, attrs, clock, told')
      BY <2>1, <3>2 DEF RequestOK, Reading, HasRead, Filling
    <3>4. Declaring(p, declared, excused) /\ Writing(p, known, excused)
      BY <2>1, <3>2 DEF RequestOK, Declaring, Writing
    <3> QED
      BY <3>1, <3>2, <3>3, <3>4 DEF RequestOK
  <2> QED
    BY <2>2, <2>3
<1>9. Overtaken = [s \in Requests |-> Overtaken[s]]
  BY DEF Overtaken
<1> HIDE DEF q
<1>10. \A s \in Requests : /\ req'[s] \in Request
                           /\ RequestOK(req'[s], attrs, declared, known, clock, told', excused)
  BY <1>2, <1>7, <1>8, <1>9
<1>11. req' \in [Requests -> Request]
  BY <1>2, <1>9, <1>10
<1>12. dropped' \in BOOLEAN
  BY <1>3
<1>13. Shape'
  BY <1>2, <1>5, <1>11, <1>12 DEF CredentialsInv, Shape
<1>14. RequestsOK'
  BY <1>2, <1>10 DEF RequestsOK
<1>15. WritersAndCache'
  BY <1>2, <1>5, <1>6 DEF CredentialsInv, WritersAndCache, CacheIsFresh
<1> QED
  BY <1>13, <1>14, <1>15 DEF CredentialsInv

(* Tokens, and the turns that a refusal gives a request.                      *)
LEMMA TurnsKeep ==
  ASSUME CredentialsInv, NEW r \in Requests,
         TokenAnswered(r) \/ RetokenAnswered(r) \/ UserRefused(r) \/ AccountAnswered(r)
  PROVE  CredentialsInv'
<1> DEFINE q == req[r]
<1>1. q \in Request /\ RequestOK(q, attrs, declared, known, clock, told, excused)
  BY DEF CredentialsInv, Shape, RequestsOK
<1>2. Still
  <2>1. UNCHANGED <<idp, known, cache, told, dropped, bounds>>
    BY DEF TokenAnswered, RetokenAnswered, UserRefused, AccountAnswered, gateway
  <2> QED
    BY <2>1 DEF Still, idp, excused, bounds
<1>3. CASE TokenAnswered(r)
  <2>1. First(q.op) \in {"profile", "user"} /\ (q.op = "write" => First(q.op) = "profile")
    BY DEF First
  <2>2. First(q.op) \in Calls \ {"store", "accountStore"}
    BY <2>1 DEF Calls
  <2>3. Ask(r, First(q.op)) \/ Fallback(r) \/ End(r)
    BY <1>3 DEF TokenAnswered
  <2>4. CASE Ask(r, First(q.op))
    BY <1>2, <2>1, <2>2, <2>4, AskKeeps
  <2> QED
    BY <1>2, <2>3, <2>4, FallbackKeeps, EndKeeps
<1>4. CASE RetokenAnswered(r)
  <2>1. q.op = "write" /\ ~q.warned => q.key \in known
    BY <1>1, <1>4 DEF RetokenAnswered, Got, RequestOK, Writing
  <2>2. Ask(r, "user2") \/ Fallback(r) \/ End(r)
    BY <1>4 DEF RetokenAnswered
  <2>3. "user2" \in Calls
    BY DEF Calls
  <2>4. CASE Ask(r, "user2")
    BY <1>2, <2>1, <2>3, <2>4, AskKeeps
  <2> QED
    BY <1>2, <2>2, <2>4, FallbackKeeps, EndKeeps
<1>5. CASE UserRefused(r)
  <2>1. q.op = "write" /\ ~q.warned => q.key \in known
    BY <1>1, <1>5 DEF UserRefused, Got, RequestOK, Writing
  <2>2. Ask(r, "retoken") \/ Fallback(r) \/ End(r)
    BY <1>5 DEF UserRefused
  <2>3. "retoken" \in Calls
    BY DEF Calls
  <2>4. CASE Ask(r, "retoken")
    BY <1>2, <2>1, <2>3, <2>4, AskKeeps
  <2> QED
    BY <1>2, <2>2, <2>4, FallbackKeeps, EndKeeps
<1>6. CASE AccountAnswered(r)
  <2>1. \/ q.at = "account" /\ q.reply = "ok" /\ Ask(r, "accountStore")
        \/ End(r)
    BY <1>6 DEF AccountAnswered, Got
  <2>2. "accountStore" \in Calls
    BY DEF Calls
  <2>3. CASE q.at = "account" /\ q.reply = "ok" /\ Ask(r, "accountStore")
    <3>1. HasRead(q) /\ (q.op = "write" => q.warned \/ excused)
      BY <1>1, <2>3 DEF HasRead, RequestOK, Writing
    <3> QED
      BY <1>2, <2>2, <2>3, <3>1, AskKeeps
  <2> QED
    BY <1>2, <2>1, <2>3, EndKeeps
<1> QED
  BY <1>3, <1>4, <1>5, <1>6

LEMMA UserReadKeeps ==
  ASSUME CredentialsInv, NEW r \in Requests, UserRead(r) \/ UserinfoAnswered(r)
  PROVE  CredentialsInv'
<1> DEFINE q == req[r]
<1>1. q \in Request /\ RequestOK(q, attrs, declared, known, clock, told, excused)
  BY DEF CredentialsInv, Shape, RequestsOK
<1>2. UNCHANGED <<idp, bounds>>
  BY DEF UserRead, UserinfoAnswered
<1>3. ASSUME UNCHANGED gateway PROVE Still
  BY <1>2, <1>3 DEF Still, idp, excused, gateway, bounds
<1>4. CASE UserRead(r)
  <2>1. q.at \in {"user", "user2"} /\ q.reply = "ok"
    BY <1>4 DEF UserRead, Got
  <2>2. CASE Is(r, {"resolve"}) /\ Fill(r)
    BY <1>2, <2>1, <2>2, FillKeeps DEF Is, Filling
  <2>3. CASE End(r) /\ UNCHANGED gateway
    BY <1>3, <2>3, EndKeeps
  <2>4. CASE Is(r, {"delete"}) /\ Succeeds(r)
    BY <1>2, <2>4, SucceedsKeeps DEF Is
  <2>5. CASE Ask(r, "store") /\ UNCHANGED gateway
    <3>1. HasRead(q) /\ "store" \in Calls
      BY <2>1 DEF HasRead, Calls
    <3>2. q.op = "write" /\ ~q.warned => q.key \in known
      BY <1>1, <2>1 DEF RequestOK, Writing
    <3> QED
      BY <1>3, <2>5, <3>1, <3>2, AskKeeps
  <2> QED
    BY <1>4, <2>2, <2>3, <2>4, <2>5 DEF UserRead
<1>5. CASE UserinfoAnswered(r)
  <2>1. CASE Got(r, {"userinfo"}, {"ok"}) /\ Fill(r)
    <3>1. Filling(q)
      BY <1>1, <2>1 DEF Filling, Got, RequestOK, Writing
    <3> QED
      BY <1>2, <2>1, <3>1, FillKeeps
  <2>2. CASE End(r) /\ UNCHANGED gateway
    BY <1>3, <2>2, EndKeeps
  <2> QED
    BY <1>5, <2>1, <2>2 DEF UserinfoAnswered
<1> QED
  BY <1>4, <1>5

LEMMA StoreAnsweredKeeps ==
  ASSUME CredentialsInv, NEW r \in Requests, StoreAnswered(r)
  PROVE  CredentialsInv'
<1>1. UNCHANGED <<idp, bounds>>
  BY DEF StoreAnswered
<1>2. CASE Got(r, {"store", "accountStore"}, {"ok"}) /\ Succeeds(r)
  BY <1>1, <1>2, SucceedsKeeps DEF Got
<1>3. CASE Fallback(r) /\ UNCHANGED <<known, cache, told, dropped>>
  BY <1>1, <1>3, FallbackKeeps DEF Still, idp, excused, bounds
<1>4. CASE End(r) /\ UNCHANGED gateway
  BY <1>1, <1>4, EndKeeps DEF Still, idp, excused, gateway, bounds
<1> QED
  BY <1>2, <1>3, <1>4 DEF StoreAnswered

(* The steps that change nothing of what the invariant speaks of but empty    *)
(* the cache.                                                                 *)
LEMMA ForgettingKeeps ==
  ASSUME CredentialsInv, CacheForgets \/ UNCHANGED vars
  PROVE  CredentialsInv'
<1>1. /\ UNCHANGED <<attrs, declared, known, clock, told, excused, dropped, begun, req>>
      /\ cache' = {} \/ cache' = cache
  BY DEF CacheForgets, vars, idp, excused, gateway, bounds
<1>2. Shape'
  BY <1>1 DEF CredentialsInv, Shape
<1>3. RequestsOK'
  BY <1>1 DEF CredentialsInv, RequestsOK
<1>4. WritersAndCache'
  BY <1>1 DEF CredentialsInv, WritersAndCache, CacheIsFresh
<1> QED
  BY <1>2, <1>3, <1>4 DEF CredentialsInv

-----------------------------------------------------------------------------
(* The whole system.                                                          *)

LEMMA CredentialsInit == Init => CredentialsInv
<1> SUFFICES ASSUME Init PROVE CredentialsInv
  OBVIOUS
<1>1. (CHOOSE k \in Keys : TRUE) \in Keys
  BY CredentialsAssumption
<1>2. Free \in Request
  BY <1>1 DEF Free, Request, Nobody, Ops, Calls, Replies
<1>3. Shape
  BY <1>2 DEF Init, Shape, excused
<1>4. RequestsOK
  <2>1. Free.seen = 0 /\ Free.at = "none" /\ Free.op = "none" /\ Free.names = {}
    BY DEF Free
  <2> QED
    BY <2>1 DEF Init, RequestsOK, RequestOK, Reading, HasRead, Filling, Declaring, Writing
<1>5. WritersAndCache
  BY DEF Init, WritersAndCache, CacheIsFresh
<1> QED
  BY <1>3, <1>4, <1>5 DEF CredentialsInv

LEMMA CredentialsStep == CredentialsInv /\ [Next]_vars => CredentialsInv'
<1> SUFFICES ASSUME CredentialsInv, [Next]_vars PROVE CredentialsInv'
  OBVIOUS
<1>1. ASSUME NEW r \in Requests, Provider(r) PROVE CredentialsInv'
  BY <1>1, AnswersKeep, TellsKeeps, DeclaresKeeps, StoresKeeps DEF Provider
<1>2. ASSUME NEW r \in Requests, Gateway(r) PROVE CredentialsInv'
  BY <1>2, BeginKeeps, DeclarationsKeep, TurnsKeep, UserReadKeeps, StoreAnsweredKeeps DEF Gateway
<1> QED
  BY <1>1, <1>2, ElsewhereKeeps, ForgettingKeeps DEF Next

(* The invariant holds throughout.                                            *)
THEOREM CredentialsAreInvariant == Spec => []CredentialsInv
  BY CredentialsInit, CredentialsStep, PTL DEF Spec

(* Credentials that are served from the cache are not older than a change     *)
(* that was reported as done, unless the change overtook the request that     *)
(* filled it (credentials/oidc.py, routes/credentials.py).                    *)
THEOREM CacheStaysFresh == Spec => []CacheIsFresh
<1>1. CredentialsInv => CacheIsFresh
  BY DEF CredentialsInv, WritersAndCache
<1> QED
  BY <1>1, CredentialsAreInvariant, PTL

(* A write reported as done without a warning was stored, as long as there is *)
(* an admin client and no two declarations raced                              *)
(* (credentials/writer/keycloak.py).                                          *)
THEOREM NothingIsDropped == Spec => []ReportedWritesAreStored
<1>1. CredentialsInv => ReportedWritesAreStored
  BY DEF CredentialsInv, WritersAndCache, ReportedWritesAreStored, excused
<1> QED
  BY <1>1, CredentialsAreInvariant, PTL

(* A PUT changes the attribute it is about and no other one, when nobody has  *)
(* changed the attributes since they were read and all are declared.          *)
THEOREM OnlyTheirOwnChanges == Spec => OnlyTheirOwn
<1>1. ASSUME CredentialsInv, NEW r \in Requests, NEW k \in Keys, Stores(r), k # req[r].key,
             attrs'[k] # attrs[k], req[r].seen = clock, k \in declared
      PROVE  FALSE
  <2> DEFINE q == req[r]
  <2>1. q \in Request /\ Reading(q, attrs, clock, told)
    BY <1>1 DEF CredentialsInv, Shape, RequestsOK, RequestOK
  <2>2. HasRead(q)
    BY <1>1 DEF Stores, Waits, HasRead
  <2>3. q.snap = attrs
    BY <1>1, <2>1, <2>2 DEF Reading
  <2>4. attrs' = Stored(q)
    BY <1>1 DEF Stores
  <2>5. attrs'[k] = q.snap[k]
    BY <1>1, <2>4 DEF Stored, Value
  <2> QED
    BY <1>1, <2>3, <2>5
<1>2. CredentialsInv /\ [Next]_vars => [OthersAreKept]_vars
  BY <1>1 DEF OthersAreKept
<1> QED
  BY <1>2, CredentialsAreInvariant, PTL DEF Spec, OnlyTheirOwn
=============================================================================
