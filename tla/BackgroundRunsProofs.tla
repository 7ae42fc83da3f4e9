------------------------ MODULE BackgroundRunsProofs ------------------------
(***************************************************************************)
(* Theorems about BackgroundRuns, for any runs, sessions and bounds.  What *)
(* they ask of Events is in their statements.                              *)
(***************************************************************************)
EXTENDS BackgroundRuns, TLAPS

-----------------------------------------------------------------------------
(* Types.  A call of the store that logs what a run yielded has something  *)
(* to log, and a client that polls has not been silent for too long.       *)

Position ==
  \A r \in Run :
    /\ now[r] \in {"none", "start", "token", "done"}
    /\ pc[r] = "none" => now[r] = "none"
    /\ pc[r] \in {"rename", "append"} => now[r] # "none"

Waiting ==
  /\ client.pc \in {"read", "ask"} => client.key \in Key
  /\ client.pc # "stopped" => client.silent < MaxSilent

TypeInv == TypeOK /\ Position /\ Waiting

LEMMA KeyFacts ==
  ASSUME NEW r \in Run
  PROVE  /\ r \in Key
         /\ Placeholder(r) \in Key
         /\ StartKeys(r) \subseteq Key
BY DEF Key, StartKeys

LEMMA AppendType ==
  ASSUME NEW D, NEW S, NEW f \in [D -> Seq(S)], NEW k, NEW e \in S
  PROVE  [f EXCEPT ![k] = Append(@, e)] \in [D -> Seq(S)]
<1>1. CASE k \in D
  BY <1>1
<1>2. CASE k \notin D
  BY <1>2
<1> QED
  BY <1>1, <1>2

LEMMA ConcatType ==
  ASSUME NEW D, NEW S, NEW f \in [D -> Seq(S)], NEW k \in D, NEW e \in Seq(S)
  PROVE  [f EXCEPT ![k] = @ \o e] \in [D -> Seq(S)]
OBVIOUS

LEMMA MoveType ==
  ASSUME NEW D, NEW S, NEW f \in [D -> Seq(S)], NEW j \in D, NEW k \in D
  PROVE  [f EXCEPT ![j] = <<>>, ![k] = f[j]] \in [D -> Seq(S)]
<1>1. <<>> \in Seq(S) /\ f[j] \in Seq(S)
  OBVIOUS
<1> QED
  BY <1>1

LEMMA CleanupTypes ==
  ASSUME TypeInv, NEW old
  PROVE  Without(old) \in [Key -> Run \cup {NoRun}]
BY DEF TypeInv, TypeOK, Without

(* What the store does for a task keeps the types of what it stores.       *)
LEMMA ExecutedTypes ==
  ASSUME TypeInv, NEW r \in Run, Executed(r) \/ UNCHANGED store
  PROVE  /\ log' \in [Key -> Seq([run : Run \cup {NoRun}, kind : Kind])]
         /\ status' \in [Key -> {"none", "running", "idle", "cancelled"}]
<1> DEFINE Entry == [run : Run \cup {NoRun}, kind : Kind]
<1> USE DEF TypeInv
<1>1. ASSUME NEW kind \in Kind, Logged(r, kind)
      PROVE  log' \in [Key -> Seq(Entry)] /\ status' = status
  <2>1. Event(r, kind) \in Entry
    BY DEF Event
  <2>2. key[r] \in Key /\ log \in [Key -> Seq(Entry)]
    BY DEF TypeOK
  <2>3. /\ log' = [log EXCEPT ![key[r]] = Append(@, Event(r, kind))]
        /\ status' = status
    BY <1>1 DEF Logged
  <2> HIDE DEF Entry
  <2> QED
    BY <2>1, <2>2, <2>3, AppendType
<1>2. ASSUME NEW s \in {"running", "idle", "cancelled"}, Recorded(r, s)
      PROVE  status' \in [Key -> {"none", "running", "idle", "cancelled"}] /\ log' = log
  BY <1>2 DEF Recorded, TypeOK
<1>3. CASE pc[r] = "rename" /\ Renamed(key[r], r)
  <2>1. r \in Key /\ key[r] \in Key /\ log \in [Key -> Seq(Entry)]
    BY KeyFacts DEF TypeOK
  <2>2. log' \in [Key -> Seq(Entry)]
    <3> HIDE DEF Entry
    <3> QED
      BY <1>3, <2>1, MoveType DEF Renamed
  <2>3. status' \in [Key -> {"none", "running", "idle", "cancelled"}]
    BY <1>3, <2>1 DEF Renamed, TypeOK
  <2> QED
    BY <2>2, <2>3
<1>4. pc[r] = "append" => now[r] \in Kind
  BY DEF Position, Kind
<1>5. "error" \in Kind /\ "cancelled" \in Kind
  BY DEF Kind
<1>6. UNCHANGED store => log' = log /\ status' = status
  BY DEF store
<1> QED
  BY <1>1, <1>2, <1>3, <1>4, <1>5, <1>6 DEF Executed, TypeOK

(* A step of a task inside a call of the store.                            *)
LEMMA AnsweredTypes ==
  ASSUME TypeInv, NEW r \in Run, NEW at, NEW to \in Executing \cup {"over"},
         NEW events \in Seq(Kind \cup {"end"}),
         Answered(r, at, to, events), at # "none", to \notin {"rename"},
         to = "append" => at = "rename",
         key' = key \/ key' = [key EXCEPT ![r] = r]
  PROVE  TypeInv'
<1> USE DEF TypeInv
<1>1. /\ log' \in [Key -> Seq([run : Run \cup {NoRun}, kind : Kind])]
      /\ status' \in [Key -> {"none", "running", "idle", "cancelled"}]
  BY ExecutedTypes DEF Answered
<1>2. out' \in [Run -> Seq(Kind \cup {"end"})]
  <2>1. out \in [Run -> Seq(Kind \cup {"end"})]
    BY DEF TypeOK
  <2> QED
    BY <2>1, ConcatType DEF Answered, Put
<1>3. key' \in [Run -> Key]
  BY KeyFacts DEF TypeOK
<1>4. pc' \in [Run -> {"none", "over"} \cup Executing]
  BY DEF Answered, Goto, TypeOK
<1>5. TypeOK'
  BY <1>1, <1>2, <1>3, <1>4 DEF Answered, TypeOK
<1>6. Position'
  BY DEF Position, Answered, Goto, TypeOK, Executing, Guarded
<1>7. Waiting'
  BY DEF Waiting, Answered
<1> QED
  BY <1>5, <1>6, <1>7

LEMMA TaskTypes ==
  ASSUME TypeInv, NEW r \in Run, TaskStep(r) \/ RunRaises(r) \/ StoreRaises(r)
  PROVE  TypeInv'
<1> USE RunsAssumption DEF TypeInv
<1>1. CASE FirstStep(r) \/ RunReturns(r) \/ RunRaises(r)
  <2>1. TypeOK'
    <3>1. \E to \in {"begin", "last", "err"} : Goto(r, to)
      BY <1>1 DEF FirstStep, RunReturns, RunRaises
    <3>2. pc' \in [Run -> {"none", "over"} \cup Executing]
      BY <3>1 DEF Goto, TypeOK, Executing
    <3> QED
      BY <1>1, <3>2 DEF FirstStep, RunReturns, RunRaises, TypeOK, store
  <2>2. Position' /\ Waiting'
    BY <1>1 DEF FirstStep, RunReturns, RunRaises, Awaiting, Goto, TypeOK, Position, Waiting
  <2> QED
    BY <2>1, <2>2
<1>2. CASE YieldStart(r)
  <2>1. tracked' \in [Key -> Run \cup {NoRun}]
    BY <1>2, KeyFacts DEF YieldStart, Rekey, TypeOK
  <2>2. pc' \in [Run -> {"none", "over"} \cup Executing] /\ now' \in [Run -> Kind \cup {"none"}]
    <3>1. /\ \E to \in {"append", "rename"} : Goto(r, to)
          /\ now' = [now EXCEPT ![r] = "start"]
      BY <1>2 DEF YieldStart
    <3>2. pc' \in [Run -> {"none", "over"} \cup Executing]
      BY <3>1 DEF Goto, TypeOK, Executing, Guarded
    <3> QED
      BY <3>1, <3>2 DEF TypeOK, Kind
  <2>3. TypeOK'
    BY <1>2, <2>1, <2>2 DEF YieldStart, TypeOK, store
  <2>4. Position' /\ Waiting'
    BY <1>2 DEF YieldStart, Awaiting, Goto, TypeOK, Position, Waiting
  <2> QED
    BY <2>3, <2>4
<1>3. CASE YieldToken(r)
  <2>1. tokens' \in [Run -> 0..MaxTokens]
    <3>1. tokens[r] + 1 \in 0..MaxTokens
      BY <1>3 DEF YieldToken, TypeOK
    <3> QED
      BY <1>3, <3>1 DEF YieldToken, TypeOK
  <2>2. pc' \in [Run -> {"none", "over"} \cup Executing] /\ now' \in [Run -> Kind \cup {"none"}]
    BY <1>3 DEF YieldToken, Goto, TypeOK, Executing, Guarded, Kind
  <2>3. TypeOK'
    BY <1>3, <2>1, <2>2 DEF YieldToken, TypeOK, store
  <2>4. Position' /\ Waiting'
    BY <1>3 DEF YieldToken, Awaiting, Goto, TypeOK, Position, Waiting
  <2> QED
    BY <2>3, <2>4
<1>6. CASE YieldDone(r)
  <2>1. pc' \in [Run -> {"none", "over"} \cup Executing] /\ now' \in [Run -> Kind \cup {"none"}]
    BY <1>6 DEF YieldDone, Goto, TypeOK, Executing, Guarded, Kind
  <2>2. TypeOK'
    BY <1>6, <2>1 DEF YieldDone, TypeOK, store
  <2>3. Position' /\ Waiting'
    BY <1>6 DEF YieldDone, Awaiting, Goto, TypeOK, Position, Waiting
  <2> QED
    BY <2>2, <2>3
<1>4. CASE StoreAnswers(r)
  <2> DEFINE Sent == Kind \cup {"end"}
  <2>1. /\ <<>> \in Seq(Sent)
        /\ <<"error">> \in Seq(Sent)
        /\ <<"cancelled", "end">> \in Seq(Sent)
        /\ <<"end">> \in Seq(Sent)
        /\ pc[r] = "append" => <<now[r]>> \in Seq(Sent)
    BY DEF Kind, Position
  <2>2. {"iter", "append", "last", "cstat", "over"} \subseteq Executing \cup {"over"}
    BY DEF Executing, Guarded
  <2> HIDE DEF TypeInv, Sent
  <2>3. ASSUME NEW at, NEW to \in {"iter", "last", "cstat", "over"}, NEW events \in Seq(Sent),
               Answered(r, at, to, events), at # "none", UNCHANGED key
        PROVE  TypeInv'
    <3>1. to \in Executing \cup {"over"} /\ to # "rename" /\ to # "append"
      BY <2>2
    <3> QED
      BY <2>3, <3>1, AnsweredTypes DEF Sent
  <2>4. CASE Rekeyed(r)
    <3>1. Answered(r, "rename", "append", <<>>) /\ key' = [key EXCEPT ![r] = r]
      BY <2>4 DEF Rekeyed
    <3> QED
      BY <2>1, <2>2, <3>1, AnsweredTypes DEF Sent
  <2>5. CASE Streamed(r)
    <3>1. pc[r] = "append" /\ Answered(r, "append", "iter", <<now[r]>>) /\ UNCHANGED key
      BY <2>5 DEF Streamed, Answered
    <3> QED
      BY <2>1, <2>3, <3>1
  <2>6. CASE Begun(r) \/ Failed(r)
    BY <2>1, <2>3, <2>6 DEF Begun, Failed
  <2>7. CASE CancelLogged(r) \/ Cancelled(r) \/ Ended(r)
    BY <2>1, <2>3, <2>7 DEF CancelLogged, Cancelled, Ended
  <2> QED
    BY <1>4, <2>4, <2>5, <2>6, <2>7 DEF StoreAnswers
<1>5. CASE Interrupted(r) \/ StoreRaises(r)
  <2>1. /\ log' \in [Key -> Seq([run : Run \cup {NoRun}, kind : Kind])]
        /\ status' \in [Key -> {"none", "running", "idle", "cancelled"}]
    BY <1>5, ExecutedTypes DEF Interrupted, StoreRaises
  <2>2. pc' \in [Run -> {"none", "over"} \cup Executing]
    <3>1. {"over", "canc", "last", "err"} \subseteq {"none", "over"} \cup Executing
      BY DEF Executing
    <3>2. \E to \in {"over", "canc", "last", "err"} : Goto(r, to)
      BY <1>5 DEF Interrupted, StoreRaises
    <3> QED
      BY <3>1, <3>2 DEF Goto, TypeOK
  <2>3. TypeOK'
    <3>1. /\ told' \in [Run -> BOOLEAN]
          /\ UNCHANGED <<tracked, key, now, tokens, out, req, client>>
      BY <1>5 DEF Interrupted, StoreRaises, TypeOK
    <3> QED
      BY <2>1, <2>2, <3>1 DEF TypeOK
  <2>4. Position' /\ Waiting'
    BY <1>5 DEF Interrupted, StoreRaises, Goto, Guarded, TypeOK, Position, Waiting
  <2> QED
    BY <2>3, <2>4
<1> QED
  BY <1>1, <1>2, <1>3, <1>4, <1>5, <1>6 DEF TaskStep

LEMMA ClientTypes ==
  ASSUME TypeInv, Reconnect \/ ClientStep
  PROVE  TypeInv'
<1> USE RunsAssumption DEF TypeInv
<1>1. CASE Reconnect
  <2>1. PICK k \in Known, h \in BOOLEAN :
          client' = [client EXCEPT !.pc = "read", !.key = k, !.here = h]
    BY <1>1 DEF Reconnect
  <2>2. k \in Key
    BY KeyFacts DEF Known, Key
  <2>3. client' \in [pc: {"none", "read", "ask", "stopped"}, key: Key \cup {NoRun},
                     here: BOOLEAN, seen: BOOLEAN, have: Nat, sent: Nat,
                     silent: 0..MaxSilent, why: SUBSET {"done", "cancelled", "quiet", "silent"}]
    BY <2>1, <2>2 DEF TypeOK
  <2>4. TypeOK'
    BY <1>1, <2>3 DEF Reconnect, TypeOK, task, store
  <2>5. Position'
    BY <1>1 DEF Reconnect, Position, task
  <2>6. client'.key = k /\ client'.silent = client.silent /\ client.silent < MaxSilent
    BY <1>1, <2>1 DEF Reconnect, TypeOK, Waiting
  <2> QED
    BY <2>2, <2>4, <2>5, <2>6 DEF Waiting
<1>2. CASE PollEvents
  <2>1. client.key \in Key /\ Len(log[client.key]) \in Nat
    BY <1>2 DEF PollEvents, Waiting, TypeOK
  <2> QED
    BY <1>2, <2>1 DEF PollEvents, TypeOK, Position, Waiting, task, store
<1>3. CASE PollStatus
  <2>1. client.key \in Key /\ client.silent < MaxSilent
    BY <1>3 DEF PollStatus, Waiting
  <2>2. Silence \in 0..MaxSilent
    BY <2>1 DEF Silence, TypeOK
  <2>3. Reasons \in SUBSET {"done", "cancelled", "quiet", "silent"}
    BY DEF Reasons
  <2>4. Reasons = {} => Silence < MaxSilent
    <3>1. TooSilent => "silent" \in Reasons
      BY DEF Reasons
    <3> QED
      BY <2>2, <3>1 DEF TooSilent
  <2>5. Seen \in BOOLEAN
    BY DEF Seen, TypeOK
  <2> HIDE DEF Reasons, Silence, Seen
  <2>6. client' \in [pc: {"none", "read", "ask", "stopped"}, key: Key \cup {NoRun},
                     here: BOOLEAN, seen: BOOLEAN, have: Nat, sent: Nat,
                     silent: 0..MaxSilent, why: SUBSET {"done", "cancelled", "quiet", "silent"}]
    BY <1>3, <2>2, <2>3, <2>5 DEF PollStatus, TypeOK
  <2>7. TypeOK'
    BY <1>3, <2>6 DEF PollStatus, TypeOK, task, store
  <2>8. Position' /\ Waiting'
    BY <1>3, <2>1, <2>4 DEF PollStatus, TypeOK, Position, Waiting, task
  <2> QED
    BY <2>7, <2>8
<1> QED
  BY <1>1, <1>2, <1>3 DEF ClientStep

LEMMA TypeStep ==
  ASSUME TypeInv, [Next]_vars
  PROVE  TypeInv'
<1> USE RunsAssumption DEF TypeInv
<1>1. CASE Cleanup
  <2>1. tracked' \in [Key -> Run \cup {NoRun}]
    BY <1>1, CleanupTypes DEF Cleanup
  <2>2. TypeOK'
    BY <1>1, <2>1 DEF Cleanup, TypeOK, task, store
  <2> QED
    BY <1>1, <2>2 DEF Cleanup, Position, Waiting, task
<1>2. ASSUME NEW r \in Run, Start(r)
      PROVE  TypeInv'
  <2>1. PICK k \in StartKeys(r), old \in SUBSET Removable :
          tracked' = [Without(old) EXCEPT ![k] = r] /\ key' = [key EXCEPT ![r] = k]
    BY <1>2 DEF Start
  <2>2. tracked' \in [Key -> Run \cup {NoRun}] /\ key' \in [Run -> Key]
    BY <2>1, CleanupTypes, KeyFacts DEF TypeOK
  <2>3. TypeOK'
    BY <1>2, <2>2 DEF Start, TypeOK, Executing, store
  <2> QED
    <3>1. pc' = [pc EXCEPT ![r] = "created"] /\ now' = now /\ client' = client
      BY <1>2 DEF Start
    <3>2. Position'
      BY <3>1 DEF Position, TypeOK
    <3> QED
      BY <2>3, <3>1, <3>2 DEF Waiting
<1>3. ASSUME NEW r \in Run, TaskStep(r) \/ RunRaises(r) \/ StoreRaises(r)
      PROVE  TypeInv'
  BY <1>3, TaskTypes
<1>4. CASE CancelRun
  <2>1. PICK k \in Known :
          IF IsRunning(k)
          THEN /\ told' = [told EXCEPT ![tracked[k]] = TRUE]
               /\ req' = [pc |-> "manager", key |-> k]
          ELSE /\ req' = [pc |-> "status", key |-> k]
               /\ UNCHANGED told
    BY <1>4 DEF CancelRun
  <2>2. k \in Key
    BY KeyFacts DEF Known, Key
  <2>3. told' \in [Run -> BOOLEAN]
    BY <2>1 DEF TypeOK
  <2>5. req' \in [pc: {"none", "manager", "status", "event", "done"}, key: Key \cup {NoRun}]
    BY <2>1, <2>2
  <2>4. TypeOK'
    BY <1>4, <2>3, <2>5 DEF CancelRun, TypeOK, store
  <2> QED
    BY <1>4, <2>4 DEF CancelRun, Position, Waiting, store
<1>5. CASE CancelStatus
  BY <1>5 DEF CancelStatus, Request, TypeOK, Position, Waiting, task
<1>6. CASE CancelEvent
  <2>1. Event(NoRun, "cancelled") \in [run : Run \cup {NoRun}, kind : Kind]
    BY DEF Event, Kind
  <2>2. log' \in [Key -> Seq([run : Run \cup {NoRun}, kind : Kind])]
    <3> DEFINE Entry == [run : Run \cup {NoRun}, kind : Kind]
    <3>1. log \in [Key -> Seq(Entry)] /\ Event(NoRun, "cancelled") \in Entry
      BY <2>1 DEF TypeOK
    <3>2. log' = [log EXCEPT ![req.key] = Append(@, Event(NoRun, "cancelled"))]
      BY <1>6 DEF CancelEvent
    <3> HIDE DEF Entry
    <3>3. [log EXCEPT ![req.key] = Append(@, Event(NoRun, "cancelled"))] \in [Key -> Seq(Entry)]
      BY <3>1, AppendType
    <3> QED
      BY <3>2, <3>3 DEF Entry
  <2>3. TypeOK'
    BY <1>6, <2>2 DEF CancelEvent, Request, TypeOK, task
  <2> QED
    BY <1>6, <2>3 DEF CancelEvent, Position, Waiting, task
<1>7. CASE Reconnect \/ ClientStep
  BY <1>7, ClientTypes
<1>8. CASE UNCHANGED vars
  BY <1>8 DEF vars, task, store, TypeOK, Position, Waiting
<1> QED
  BY <1>1, <1>2, <1>3, <1>4, <1>5, <1>6, <1>7, <1>8 DEF Next, CancelStep

LEMMA TypesFirst == Init => TypeInv
<1> SUFFICES ASSUME Init PROVE TypeInv
  OBVIOUS
<1>1. TypeOK
  BY KeyFacts, RunsAssumption DEF Init, TypeOK, Kind
<1> QED
  BY <1>1, RunsAssumption DEF Init, TypeInv, Position, Waiting

(* Every reachable state of the manager, the store, the cancel request and *)
(* the client is well-typed; in particular what a run logs is an event and *)
(* the silence a client counts stays within its limit                      *)
(* (routes/_background.py:170-320, 330-365).                               *)
THEOREM RunsTypeCorrect == Spec => []TypeOK
<1>1. Init => TypeInv
  BY TypesFirst
<1>2. TypeInv /\ [Next]_vars => TypeInv'
  BY TypeStep
<1>3. TypeInv => TypeOK
  BY DEF TypeInv
<1> QED
  BY <1>1, <1>2, <1>3, PTL DEF Spec

-----------------------------------------------------------------------------
(* Team runs: under which key.  No chat turns, and nothing takes longer    *)
(* than stale_seconds.                                                     *)

Teams == "sessions" \notin Events
Prompt == "stale" \notin Events

(* A team run has its own id as its key only after its first event, and    *)
(* not before the store has renamed what it holds.                         *)
KeysFollow ==
  \A r \in Run :
    /\ key[r] \in {Placeholder(r), r}
    /\ now[r] = "none" \/ pc[r] = "rename" => key[r] = Placeholder(r)

LEMMA KeysApart ==
  ASSUME NEW r \in Run, NEW s \in Run
  PROVE  /\ r # Placeholder(s)
         /\ Placeholder(r) = Placeholder(s) => r = s
<1>1. r # Placeholder(s)
  BY RunsAssumption
<1>2. Placeholder(r) = Placeholder(s) => r = s
  BY DEF Placeholder
<1> QED
  BY <1>1, <1>2

(* Most steps neither move an entry nor change what a key follows from.    *)
LEMMA OthersKeepKeys ==
  ASSUME KeysFollow, UNCHANGED key,
         \A r \in Run : now[r] = "none" <=> now'[r] = "none",
         \A r \in Run : pc'[r] = "rename" => pc[r] = "rename"
  PROVE  KeysFollow'
BY DEF KeysFollow

LEMMA OthersKeepTracked ==
  ASSUME TrackedRuns, UNCHANGED tracked,
         \A r \in Run : now[r] = "none" <=> now'[r] = "none",
         \A r \in Run : pc'[r] \in Executing => pc[r] \in Executing
  PROVE  TrackedRuns'
BY DEF TrackedRuns

(* A step of a task that neither yields a first event nor renames.         *)
LEMMA PlainTaskStep ==
  ASSUME TypeInv, NEW q \in Run,
         TaskStep(q) \/ RunRaises(q) \/ StoreRaises(q),
         ~YieldStart(q), ~Rekeyed(q)
  PROVE  /\ UNCHANGED <<tracked, key>>
         /\ \A r \in Run : now[r] = "none" <=> now'[r] = "none"
         /\ pc[q] \in Executing
         /\ \E to : to # "rename" /\ pc' = [pc EXCEPT ![q] = to]
<1> USE DEF Goto
<1>1. CASE FirstStep(q) \/ RunReturns(q) \/ RunRaises(q)
  BY <1>1 DEF FirstStep, RunReturns, RunRaises, Awaiting, Executing, Guarded
<1>2. CASE YieldToken(q) \/ YieldDone(q)
  <2>1. /\ UNCHANGED <<tracked, key>>
        /\ pc[q] = "iter" /\ pc' = [pc EXCEPT ![q] = "append"]
        /\ now[q] \in {"start", "token"}
        /\ \E x \in {"token", "done"} : now' = [now EXCEPT ![q] = x]
    BY <1>2 DEF YieldToken, YieldDone, Awaiting
  <2>2. \A r \in Run : now[r] = "none" <=> now'[r] = "none"
    BY <2>1 DEF TypeInv, TypeOK
  <2> QED
    BY <2>1, <2>2 DEF Executing, Guarded
<1>3. ASSUME NEW at, NEW to, NEW events, Answered(q, at, to, events),
             at \in Executing, to # "rename", UNCHANGED key
      PROVE  /\ UNCHANGED <<tracked, key>>
             /\ \A r \in Run : now[r] = "none" <=> now'[r] = "none"
             /\ pc[q] \in Executing
             /\ \E x : x # "rename" /\ pc' = [pc EXCEPT ![q] = x]
  BY <1>3 DEF Answered
<1>4. CASE StoreAnswers(q)
  <2>1. {"begin", "append", "err", "canc", "cstat", "last"} \subseteq Executing
    BY DEF Executing, Guarded
  <2>2. CASE Begun(q) \/ Streamed(q) \/ Failed(q)
    BY <1>3, <2>1, <2>2 DEF Begun, Streamed, Failed
  <2>3. CASE CancelLogged(q) \/ Cancelled(q) \/ Ended(q)
    BY <1>3, <2>1, <2>3 DEF CancelLogged, Cancelled, Ended
  <2> QED
    BY <1>4, <2>2, <2>3 DEF StoreAnswers
<1>5. CASE Interrupted(q)
  BY <1>5 DEF Interrupted, Executing, Guarded
<1>6. CASE StoreRaises(q)
  BY <1>6 DEF StoreRaises, Executing, Guarded
<1> QED
  BY <1>1, <1>2, <1>4, <1>5, <1>6 DEF TaskStep

(* A step of neither a task nor the manager's table leaves all of it alone.*)
LEMMA PlainStep ==
  ASSUME [Next]_vars, ~Cleanup,
         \A r \in Run : ~Start(r) /\ ~TaskStep(r) /\ ~RunRaises(r) /\ ~StoreRaises(r)
  PROVE  UNCHANGED <<tracked, pc, key, now>>
<1>1. CASE CancelRun \/ CancelStep
  BY <1>1 DEF CancelRun, CancelStep, CancelStatus, CancelEvent, task
<1>2. CASE Reconnect \/ ClientStep
  BY <1>2 DEF Reconnect, ClientStep, PollEvents, PollStatus, task
<1>3. CASE UNCHANGED vars
  BY <1>3 DEF vars, task
<1> QED
  BY <1>1, <1>2, <1>3 DEF Next

(* The steps that are left are those that start a run, forget one, or give *)
(* one its id.                                                             *)
LEMMA OtherSteps ==
  ASSUME TypeInv, [Next]_vars, ~Cleanup,
         \A r \in Run : ~Start(r) /\ ~YieldStart(r) /\ ~Rekeyed(r)
  PROVE  /\ UNCHANGED <<tracked, key>>
         /\ \A r \in Run : now[r] = "none" <=> now'[r] = "none"
         /\ \A r \in Run : pc'[r] = "rename" => pc[r] = "rename"
         /\ \A r \in Run : pc'[r] \in Executing => pc[r] \in Executing
<1>1. ASSUME NEW q \in Run, TaskStep(q) \/ RunRaises(q) \/ StoreRaises(q)
      PROVE  /\ UNCHANGED <<tracked, key>>
             /\ \A r \in Run : now[r] = "none" <=> now'[r] = "none"
             /\ \A r \in Run : pc'[r] = "rename" => pc[r] = "rename"
             /\ \A r \in Run : pc'[r] \in Executing => pc[r] \in Executing
  <2>1. /\ UNCHANGED <<tracked, key>>
        /\ \A r \in Run : now[r] = "none" <=> now'[r] = "none"
        /\ pc[q] \in Executing
        /\ \E to : to # "rename" /\ pc' = [pc EXCEPT ![q] = to]
    BY <1>1, PlainTaskStep
  <2> QED
    BY <2>1 DEF TypeInv, TypeOK
<1>2. CASE \A r \in Run : ~TaskStep(r) /\ ~RunRaises(r) /\ ~StoreRaises(r)
  BY <1>2, PlainStep
<1> QED
  BY <1>1, <1>2

LEMMA KeysStep ==
  ASSUME TypeInv, KeysFollow, [Next]_vars, Teams
  PROVE  KeysFollow'
<1> USE DEF TypeInv
<1>1. CASE Cleanup
  BY <1>1 DEF Cleanup, KeysFollow, task
<1>2. ASSUME NEW r \in Run, Start(r)
      PROVE  KeysFollow'
  <2>1. /\ pc[r] = "none" /\ now' = now
        /\ pc' = [pc EXCEPT ![r] = "created"]
        /\ key' = [key EXCEPT ![r] = Placeholder(r)]
    BY <1>2 DEF Start, StartKeys, Teams
  <2> QED
    BY <2>1 DEF KeysFollow, TypeOK
<1>3. ASSUME NEW r \in Run, YieldStart(r)
      PROVE  KeysFollow'
  <2>1. /\ now[r] = "none" /\ key' = key
        /\ now' = [now EXCEPT ![r] = "start"]
        /\ pc' = [pc EXCEPT ![r] = "rename"]
    BY <1>3 DEF YieldStart, Goto, Teams
  <2> QED
    BY <2>1 DEF KeysFollow, TypeOK
<1>4. ASSUME NEW r \in Run, Rekeyed(r)
      PROVE  KeysFollow'
  <2>1. /\ pc[r] = "rename" /\ now' = now
        /\ pc' = [pc EXCEPT ![r] = "append"]
        /\ key' = [key EXCEPT ![r] = r]
    BY <1>4 DEF Rekeyed, Answered, Goto
  <2> QED
    BY <2>1 DEF KeysFollow, TypeOK, Position
<1>5. CASE ~Cleanup /\ \A r \in Run : ~Start(r) /\ ~YieldStart(r) /\ ~Rekeyed(r)
  <2> HIDE DEF TypeInv
  <2> QED
    BY <1>5, OtherSteps, OthersKeepKeys
<1> QED
  BY <1>1, <1>2, <1>3, <1>4, <1>5

LEMMA TrackedStep ==
  ASSUME TypeInv, KeysFollow, TrackedRuns, [Next]_vars, Teams, Prompt
  PROVE  TrackedRuns'
<1> DEFINE Entry(r) == IF now[r] = "none" THEN Placeholder(r) ELSE r
<1>1. \A r \in Run : Entry(r) \in Key
  BY KeyFacts
<1>2. \A r, s \in Run : Entry(r) = Entry(s) => r = s
  BY KeysApart
<1>3. ASSUME NEW r \in Run, pc[r] \in Executing, NEW old \in SUBSET Removable
      PROVE  Without(old)[Entry(r)] = r
  <2>1. tracked[Entry(r)] = r
    BY <1>3 DEF TrackedRuns
  <2>2. Entry(r) \notin old
    BY <1>3, <2>1 DEF Removable, Prompt, Executing, Guarded
  <2> QED
    BY <1>1, <2>1, <2>2 DEF Without
<1>4. CASE Cleanup
  BY <1>3, <1>4 DEF Cleanup, TrackedRuns, task
<1>5. ASSUME NEW r \in Run, Start(r)
      PROVE  TrackedRuns'
  <2>1. /\ pc[r] = "none" /\ now' = now
        /\ pc' = [pc EXCEPT ![r] = "created"]
        /\ \E old \in SUBSET Removable : tracked' = [Without(old) EXCEPT ![Placeholder(r)] = r]
    BY <1>5 DEF Start, StartKeys, Teams
  <2>2. PICK old \in SUBSET Removable : tracked' = [Without(old) EXCEPT ![Placeholder(r)] = r]
    BY <2>1
  <2>3. Without(old) \in [Key -> Run \cup {NoRun}] /\ Placeholder(r) \in Key
    BY CleanupTypes, KeyFacts
  <2>4. now[r] = "none"
    BY <2>1 DEF TypeInv, Position
  <2>5. ASSUME NEW s \in Run, pc'[s] \in Executing
        PROVE  tracked'[Entry(s)] = s
    <3>1. CASE s = r
      BY <2>2, <2>3, <2>4, <3>1
    <3>2. CASE s # r
      <4>1. pc[s] \in Executing
        BY <2>1, <2>5, <3>2 DEF TypeInv, TypeOK
      <4>2. Entry(s) # Placeholder(r)
        BY <3>2, KeysApart
      <4> QED
        BY <1>1, <1>3, <2>2, <2>3, <4>1, <4>2
    <3> QED
      BY <3>1, <3>2
  <2> QED
    BY <2>1, <2>5 DEF TrackedRuns
<1>6. ASSUME NEW r \in Run, YieldStart(r)
      PROVE  TrackedRuns'
  <2>1. /\ now[r] = "none" /\ pc[r] = "iter"
        /\ now' = [now EXCEPT ![r] = "start"]
        /\ pc' = [pc EXCEPT ![r] = "rename"]
        /\ Rekey(key[r], r)
    BY <1>6 DEF YieldStart, Awaiting, Goto, Teams
  <2>2. key[r] = Placeholder(r)
    BY <2>1 DEF KeysFollow
  <2>3. tracked[Placeholder(r)] = r /\ r # NoRun
    BY <2>1, RunsAssumption DEF TrackedRuns, Executing, Guarded
  <2>4. tracked' = [tracked EXCEPT ![Placeholder(r)] = NoRun, ![r] = r]
    BY <2>1, <2>2, <2>3 DEF Rekey
  <2>5. ASSUME NEW s \in Run, pc'[s] \in Executing
        PROVE  tracked'[IF now'[s] = "none" THEN Placeholder(s) ELSE s] = s
    <3>1. tracked \in [Key -> Run \cup {NoRun}] /\ r \in Key
      BY KeyFacts DEF TypeInv, TypeOK
    <3>2. CASE s = r
      BY <2>1, <2>4, <3>1, <3>2 DEF TypeInv, TypeOK
    <3>3. CASE s # r
      <4>1. pc[s] \in Executing /\ now'[s] = now[s]
        BY <2>1, <2>5, <3>3 DEF TypeInv, TypeOK
      <4>2. Entry(s) # Placeholder(r) /\ Entry(s) # r
        BY <3>3, KeysApart
      <4>3. tracked[Entry(s)] = s
        BY <4>1 DEF TrackedRuns
      <4> QED
        BY <1>1, <2>4, <3>1, <4>1, <4>2, <4>3
    <3> QED
      BY <3>2, <3>3
  <2> QED
    BY <2>5 DEF TrackedRuns
<1>7. ASSUME NEW r \in Run, Rekeyed(r)
      PROVE  TrackedRuns'
  <2>1. /\ pc[r] = "rename" /\ now' = now /\ tracked' = tracked
        /\ pc' = [pc EXCEPT ![r] = "append"]
    BY <1>7 DEF Rekeyed, Answered, Goto
  <2> QED
    BY <2>1 DEF TypeInv, TypeOK, TrackedRuns, Executing, Guarded
<1>8. CASE ~Cleanup /\ \A r \in Run : ~Start(r) /\ ~YieldStart(r) /\ ~Rekeyed(r)
  BY <1>8, OtherSteps, OthersKeepTracked
<1> QED
  BY <1>4, <1>5, <1>6, <1>7, <1>8

TrackInv == TypeInv /\ KeysFollow /\ TrackedRuns

LEMMA TracksFirst == Init => KeysFollow /\ TrackedRuns
BY DEF Init, KeysFollow, TrackedRuns, Executing, Guarded

(* A team run that executes is in the manager's table under the key it is  *)
(* known by, whatever the event store does and whoever cancels it          *)
(* (routes/_background.py:170-181, 263-271).                               *)
THEOREM RunsAreTracked ==
  ASSUME Teams, Prompt
  PROVE  Spec => []TrackedRuns
<1>1. Init => TrackInv
  BY TypesFirst, TracksFirst DEF TrackInv
<1>2. TrackInv /\ [Next]_vars => TrackInv'
  BY TypeStep, KeysStep, TrackedStep DEF TrackInv
<1>3. TrackInv => TrackedRuns
  BY DEF TrackInv
<1> QED
  BY <1>1, <1>2, <1>3, PTL DEF Spec

(* A cancel request is told to every team run that executes under the key  *)
(* it names: what is_running and the entry say of the key is true of the   *)
(* run (routes/_background.py:183-186, 312-320).                           *)
THEOREM CancelFindsTheRun ==
  ASSUME Teams, Prompt
  PROVE  Spec => CancelReachesRuns
<1>1. Init => TrackInv
  BY TypesFirst, TracksFirst DEF TrackInv
<1>2. TrackInv /\ [Next]_vars => TrackInv'
  BY TypeStep, KeysStep, TrackedStep DEF TrackInv
<1>3. ASSUME TrackInv, [Next]_vars, NEW r \in Run,
             req.pc = "none", req'.pc # "none", req'.key = key[r], pc[r] \in Executing
      PROVE  told'[r]
  <2>1. CASE CancelRun
    <3>1. PICK k \in Known :
            IF IsRunning(k)
            THEN /\ told' = [told EXCEPT ![tracked[k]] = TRUE]
                 /\ req' = [pc |-> "manager", key |-> k]
            ELSE /\ req' = [pc |-> "status", key |-> k]
                 /\ UNCHANGED told
      BY <2>1 DEF CancelRun
    <3>2. k \in Run /\ key[k] = k /\ key[r] = k
      BY <1>3, <3>1 DEF Known, Teams
    <3>3. r = k
      BY <1>3, <3>2, KeysApart DEF TrackInv, KeysFollow
    <3>4. now[r] # "none"
      BY <1>3, <3>2, <3>3, KeysApart DEF TrackInv, KeysFollow
    <3>5. tracked[k] = r /\ r # NoRun
      BY <1>3, <3>3, <3>4, RunsAssumption DEF TrackInv, TrackedRuns
    <3> QED
      BY <1>3, <3>1, <3>5 DEF IsRunning, TrackInv, TypeInv, TypeOK
  <2>2. CASE ~CancelRun
    <3>1. \A q \in Run : TaskStep(q) \/ RunRaises(q) \/ StoreRaises(q) => req' = req
      BY DEF TaskStep, FirstStep, YieldStart, YieldToken, YieldDone, RunReturns, StoreAnswers,
             Begun, Rekeyed, Streamed, Failed, CancelLogged, Cancelled, Ended, Answered,
             Interrupted, RunRaises, StoreRaises
    <3>2. \A q \in Run : Start(q) => req' = req
      BY DEF Start
    <3>3. Cleanup \/ Reconnect \/ ClientStep \/ UNCHANGED vars => req' = req
      BY DEF Cleanup, Reconnect, ClientStep, PollEvents, PollStatus, vars
    <3>4. ~CancelStep
      BY <1>3 DEF CancelStep, CancelStatus, CancelEvent
    <3>5. req' = req
      BY <1>3, <2>2, <3>1, <3>2, <3>3, <3>4 DEF Next
    <3> QED
      BY <1>3, <3>5
  <2> QED
    BY <2>1, <2>2
<1>4. TrackInv /\ [Next]_vars =>
        [\A r \in Run :
           req.pc = "none" /\ req'.pc # "none" /\ req'.key = key[r] /\ pc[r] \in Executing =>
             told'[r]]_vars
  BY <1>3
<1> QED
  BY <1>1, <1>2, <1>4, PTL DEF Spec, CancelReachesRuns

-----------------------------------------------------------------------------
(* What the first client of a team run is sent and what the store holds.   *)
(* Nobody cancels and the calls of the store do not raise.                 *)

Uncancelled == "cancel" \notin Events
Dependable == "storeError" \notin Events

NobodyIsTold ==
  /\ req.pc = "none"
  /\ \A r \in Run : ~told[r] /\ pc[r] \notin {"canc", "cstat"}

(* A sequence of events sent has those of a log, and then sentinels.       *)
Agree(o, l) ==
  \A i \in DOMAIN o : IF i <= Len(l) THEN o[i] = l[i].kind ELSE o[i] = "end"

(* Nothing is kept under a placeholder, and the log of a run has what was  *)
(* sent, the sentinel apart.                                               *)
InStepOf(r) ==
  /\ log[Placeholder(r)] = <<>>
  /\ key[r] = Placeholder(r) => out[r] = <<>> /\ log[r] = <<>>
  /\ pc[r] \in {"created", "begin"} => now[r] = "none"
  /\ pc[r] \in {"append", "err", "last", "over"} => key[r] = r
  /\ pc[r] = "iter" /\ now[r] # "none" => key[r] = r
  /\ pc[r] # "over" => Len(out[r]) = Len(log[r])
  /\ Agree(out[r], log[r])

InStep == \A r \in Run : InStepOf(r)

LEMMA NobodyIsToldStep ==
  ASSUME TypeInv, NobodyIsTold, [Next]_vars, Uncancelled
  PROVE  NobodyIsTold'
<1> USE DEF NobodyIsTold
<1>1. ASSUME NEW r \in Run, Start(r)
      PROVE  NobodyIsTold'
  BY <1>1 DEF Start, TypeInv, TypeOK
<1>2. ASSUME NEW q \in Run, NEW to, to \notin {"canc", "cstat"},
             Goto(q, to), UNCHANGED <<told, req>>
      PROVE  NobodyIsTold'
  BY <1>2 DEF Goto, TypeInv, TypeOK
<1>3. ASSUME NEW q \in Run, TaskStep(q) \/ RunRaises(q) \/ StoreRaises(q)
      PROVE  NobodyIsTold'
  <2>1. ~CancelLogged(q) /\ ~Cancelled(q) /\ ~Interrupted(q)
    BY DEF CancelLogged, Cancelled, Answered, Interrupted
  <2>2. CASE FirstStep(q) \/ YieldStart(q) \/ YieldToken(q) \/ YieldDone(q)
    BY <1>2, <2>2 DEF FirstStep, YieldStart, YieldToken, YieldDone
  <2>3. CASE RunReturns(q) \/ RunRaises(q)
    BY <1>2, <2>3 DEF RunReturns, RunRaises
  <2>4. CASE StoreAnswers(q)
    BY <1>2, <2>1, <2>4 DEF StoreAnswers, Begun, Rekeyed, Streamed, Failed, Ended, Answered
  <2>5. CASE StoreRaises(q)
    BY <1>2, <2>5 DEF StoreRaises
  <2> QED
    BY <1>3, <2>1, <2>2, <2>3, <2>4, <2>5 DEF TaskStep
<1>4. ~CancelRun /\ ~CancelStep
  BY DEF CancelRun, CancelStep, CancelStatus, CancelEvent, Uncancelled
<1>5. CASE Cleanup \/ Reconnect \/ ClientStep \/ UNCHANGED vars
  BY <1>5 DEF Cleanup, Reconnect, ClientStep, PollEvents, PollStatus, vars, task
<1> QED
  BY <1>1, <1>3, <1>4, <1>5 DEF Next

LEMMA SameStays ==
  ASSUME NEW r \in Run, InStepOf(r),
         pc'[r] = pc[r], now'[r] = now[r], key'[r] = key[r], out'[r] = out[r],
         log'[r] = log[r], log'[Placeholder(r)] = log[Placeholder(r)]
  PROVE  InStepOf(r)'
BY DEF InStepOf

(* An event that is both sent and logged.                                  *)
LEMMA BothGrow ==
  ASSUME NEW S, NEW T, NEW o \in Seq(S), NEW l \in Seq(T), Len(o) = Len(l),
         NEW e \in T, NEW x \in S, x = e.kind,
         Agree(o, l), NEW p, p = o \o <<x>>, NEW m, m = Append(l, e)
  PROVE  Len(p) = Len(m) /\ Agree(p, m)
<1>1. p = Append(o, x)
  OBVIOUS
<1>2. Len(p) = Len(m) /\ Len(m) = Len(l) + 1 /\ DOMAIN p = 1..(Len(l) + 1)
  BY <1>1
<1>3. ASSUME NEW i \in 1..(Len(l) + 1)
      PROVE  p[i] = m[i].kind
  <2>1. CASE i <= Len(l)
    BY <1>1, <2>1 DEF Agree
  <2>2. CASE i = Len(l) + 1
    BY <1>1, <2>2
  <2> QED
    BY <2>1, <2>2
<1> QED
  BY <1>2, <1>3 DEF Agree

(* A sentinel that is only sent.                                           *)
LEMMA SentinelGrows ==
  ASSUME NEW S, NEW T, NEW o \in Seq(S), NEW l \in Seq(T), Len(o) = Len(l), "end" \in S,
         Agree(o, l), NEW p, p = o \o <<"end">>
  PROVE  Agree(p, l)
<1>1. p = Append(o, "end")
  OBVIOUS
<1>2. DOMAIN p = 1..(Len(l) + 1)
  BY <1>1
<1>3. ASSUME NEW i \in 1..(Len(l) + 1)
      PROVE  IF i <= Len(l) THEN p[i] = l[i].kind ELSE p[i] = "end"
  <2>1. CASE i <= Len(l)
    BY <1>1, <2>1 DEF Agree
  <2>2. CASE i = Len(l) + 1
    BY <1>1, <2>2
  <2> QED
    BY <2>1, <2>2
<1> QED
  BY <1>2, <1>3 DEF Agree

(* What a task's step does to its own run.                                 *)
LEMMA InStepOfItself ==
  ASSUME TypeInv, KeysFollow, NobodyIsTold, NEW q \in Run, InStepOf(q), Teams, Dependable,
         TaskStep(q) \/ RunRaises(q) \/ StoreRaises(q)
  PROVE  /\ InStepOf(q)'
         /\ \A s \in Run \ {q} :
              /\ pc'[s] = pc[s] /\ now'[s] = now[s] /\ key'[s] = key[s] /\ out'[s] = out[s]
              /\ log'[s] = log[s] /\ log'[Placeholder(s)] = log[Placeholder(s)]
<1> DEFINE Apart ==
      \A s \in Run \ {q} :
        /\ pc'[s] = pc[s] /\ now'[s] = now[s] /\ key'[s] = key[s] /\ out'[s] = out[s]
        /\ log'[s] = log[s] /\ log'[Placeholder(s)] = log[Placeholder(s)]
<1> DEFINE Entry == [run : Run \cup {NoRun}, kind : Kind]
<1>0. /\ pc \in [Run -> {"none", "over"} \cup Executing] /\ now \in [Run -> Kind \cup {"none"}]
      /\ key \in [Run -> Key] /\ out \in [Run -> Seq(Kind \cup {"end"})]
      /\ log \in [Key -> Seq(Entry)] /\ q \in Key /\ Placeholder(q) \in Key
  BY KeyFacts DEF TypeInv, TypeOK
<1> HIDE DEF Entry
<1>1. ASSUME Goto(q, "begin") \/ Goto(q, "last") \/ Goto(q, "err") \/ Goto(q, "iter"),
             UNCHANGED <<now, key, out, log>>,
             pc'[q] \in {"last", "err"} => pc[q] = "iter" /\ now[q] # "none",
             pc'[q] = "begin" => pc[q] = "created",
             pc'[q] = "iter" => pc[q] = "begin",
             pc[q] # "over"
      PROVE  InStepOf(q)' /\ Apart
  <2>1. Apart
    BY <1>0, <1>1 DEF Goto
  <2>2. InStepOf(q)'
    BY <1>0, <1>1 DEF Goto, InStepOf
  <2> QED
    BY <2>1, <2>2
<1>2. CASE FirstStep(q) \/ RunReturns(q) \/ RunRaises(q) \/ Begun(q)
  <2>1. CASE FirstStep(q)
    BY <1>0, <1>1, <2>1 DEF FirstStep, Goto, store
  <2>2. CASE RunReturns(q)
    BY <1>0, <1>1, <2>2 DEF RunReturns, Awaiting, Goto, store
  <2>3. CASE RunRaises(q)
    BY <1>0, <1>1, <2>3 DEF RunRaises, Awaiting, Goto, store, Teams
  <2>4. CASE Begun(q)
    <3>1. out' = out /\ log' = log
      <4>1. out[q] \o <<>> = out[q]
        BY <1>0
      <4> QED
        BY <1>0, <2>4, <4>1 DEF Begun, Answered, Put, Executed, Recorded
    <3> QED
      BY <1>0, <1>1, <2>4, <3>1 DEF Begun, Answered, Goto
  <2> QED
    BY <1>2, <2>1, <2>2, <2>3, <2>4
<1>3. CASE YieldStart(q) \/ YieldToken(q) \/ YieldDone(q)
  <2>1. /\ pc[q] = "iter"
        /\ UNCHANGED <<key, out, log>>
        /\ \/ pc' = [pc EXCEPT ![q] = "rename"]
           \/ pc' = [pc EXCEPT ![q] = "append"] /\ now[q] # "none"
        /\ \E x \in {"start", "token", "done"} : now' = [now EXCEPT ![q] = x]
    BY <1>3 DEF YieldStart, YieldToken, YieldDone, Awaiting, Goto, store, Teams
  <2>2. Apart
    BY <1>0, <2>1
  <2>3. InStepOf(q)'
    BY <1>0, <2>1 DEF InStepOf
  <2> QED
    BY <2>2, <2>3
<1>4. CASE Rekeyed(q)
  <2>1. /\ pc[q] = "rename" /\ now' = now
        /\ pc' = [pc EXCEPT ![q] = "append"]
        /\ key' = [key EXCEPT ![q] = q]
        /\ out' = [out EXCEPT ![q] = @ \o <<>>]
        /\ Renamed(key[q], q)
    BY <1>4 DEF Rekeyed, Answered, Goto, Put, Executed
  <2>2. key[q] = Placeholder(q)
    BY <2>1 DEF KeysFollow
  <2>3. log[key[q]] = <<>>
    BY <2>2 DEF InStepOf
  <2>4. log' = log
    BY <2>1, <2>3 DEF Renamed
  <2>5. out' = out
    BY <1>0, <2>1
  <2>6. Apart
    BY <1>0, <2>1, <2>4, <2>5
  <2>7. InStepOf(q)'
    BY <1>0, <2>1, <2>2, <2>4, <2>5, KeysApart DEF InStepOf
  <2> QED
    BY <2>6, <2>7
<1>5. CASE Streamed(q) \/ Failed(q)
  <2>1. PICK x \in Kind :
          /\ Logged(q, x)
          /\ out' = [out EXCEPT ![q] = @ \o <<x>>]
    <3>1. CASE Streamed(q)
      <4>1. pc[q] = "append"
        BY <3>1 DEF Streamed, Answered
      <4>2. now[q] \in Kind
        BY <4>1, <1>0 DEF TypeInv, Position
      <4>3. Logged(q, now[q]) /\ out' = [out EXCEPT ![q] = @ \o <<now[q]>>]
        BY <3>1, <4>1 DEF Streamed, Answered, Executed, Put
      <4> QED
        BY <4>2, <4>3
    <3>2. CASE Failed(q)
      BY <3>2 DEF Failed, Answered, Executed, Put, Kind
    <3> QED
      BY <1>5, <3>1, <3>2
  <2>2. /\ pc[q] \in {"append", "err"} /\ UNCHANGED <<now, key>>
        /\ \E to \in {"iter", "last"} : pc' = [pc EXCEPT ![q] = to]
    BY <1>5 DEF Streamed, Failed, Answered, Goto
  <2>3. key[q] = q
    BY <2>2 DEF InStepOf
  <2>4. log' = [log EXCEPT ![q] = Append(@, Event(q, x))]
    BY <2>1, <2>3 DEF Logged
  <2>5. Apart
    BY <1>0, <2>1, <2>2, <2>4, KeysApart
  <2>6. log'[Placeholder(q)] = log[Placeholder(q)]
    BY <1>0, <2>4, KeysApart
  <2>7. Len(out'[q]) = Len(log'[q]) /\ Agree(out'[q], log'[q])
    <3>1. /\ out[q] \in Seq(Kind \cup {"end"}) /\ log[q] \in Seq(Entry)
          /\ Event(q, x) \in Entry /\ x \in Kind \cup {"end"} /\ x = Event(q, x).kind
      BY <1>0 DEF Event, Entry
    <3>2. Len(out[q]) = Len(log[q]) /\ Agree(out[q], log[q])
      BY <2>2 DEF InStepOf
    <3>3. out'[q] = out[q] \o <<x>> /\ log'[q] = Append(log[q], Event(q, x))
      BY <1>0, <2>1, <2>4
    <3> QED
      BY <3>1, <3>2, <3>3, BothGrow
  <2>8. key'[q] = q /\ q # Placeholder(q) /\ pc'[q] \in {"iter", "last"}
    BY <1>0, <2>2, <2>3, KeysApart
  <2>9. log[Placeholder(q)] = <<>>
    BY DEF InStepOf
  <2> QED
    BY <2>5, <2>6, <2>7, <2>8, <2>9 DEF InStepOf
<1>6. CASE Ended(q)
  <2>1. /\ pc[q] = "last" /\ UNCHANGED <<now, key, log>>
        /\ pc' = [pc EXCEPT ![q] = "over"]
        /\ out' = [out EXCEPT ![q] = @ \o <<"end">>]
    BY <1>6 DEF Ended, Answered, Goto, Put, Executed, Recorded
  <2>2. Apart
    BY <1>0, <2>1
  <2>3. Agree(out'[q], log'[q])
    <3>1. /\ out[q] \in Seq(Kind \cup {"end"}) /\ log[q] \in Seq(Entry)
          /\ "end" \in Kind \cup {"end"}
      BY <1>0
    <3>2. Len(out[q]) = Len(log[q]) /\ Agree(out[q], log[q])
      BY <2>1 DEF InStepOf
    <3>3. out'[q] = out[q] \o <<"end">> /\ log'[q] = log[q]
      BY <1>0, <2>1
    <3> QED
      BY <3>1, <3>2, <3>3, SentinelGrows
  <2>4. key'[q] = q /\ q # Placeholder(q) /\ pc'[q] = "over"
    BY <1>0, <2>1, KeysApart DEF InStepOf
  <2>5. log'[Placeholder(q)] = <<>>
    BY <2>1 DEF InStepOf
  <2> QED
    BY <2>2, <2>3, <2>4, <2>5 DEF InStepOf
<1>7. ~CancelLogged(q) /\ ~Cancelled(q) /\ ~Interrupted(q) /\ ~StoreRaises(q)
  BY DEF CancelLogged, Cancelled, Answered, Interrupted, StoreRaises, NobodyIsTold, Dependable
<1> QED
  BY <1>2, <1>3, <1>4, <1>5, <1>6, <1>7 DEF TaskStep, StoreAnswers

LEMMA InStepStep ==
  ASSUME TypeInv, KeysFollow, NobodyIsTold, InStep, [Next]_vars,
         Teams, Uncancelled, Dependable
  PROVE  InStep'
<1>1. ASSUME NEW q \in Run, TaskStep(q) \/ RunRaises(q) \/ StoreRaises(q)
      PROVE  InStep'
  <2>1. InStepOf(q)'
    BY <1>1, InStepOfItself DEF InStep
  <2>2. ASSUME NEW s \in Run, s # q
        PROVE  InStepOf(s)'
    <3>1. /\ pc'[s] = pc[s] /\ now'[s] = now[s] /\ key'[s] = key[s] /\ out'[s] = out[s]
          /\ log'[s] = log[s] /\ log'[Placeholder(s)] = log[Placeholder(s)]
      BY <1>1, <2>2, InStepOfItself DEF InStep
    <3> QED
      BY <3>1, SameStays DEF InStep
  <2> QED
    BY <2>1, <2>2 DEF InStep
<1>2. ASSUME NEW q \in Run, Start(q)
      PROVE  InStep'
  <2>1. /\ pc[q] = "none" /\ UNCHANGED <<now, out, log>>
        /\ pc' = [pc EXCEPT ![q] = "created"]
        /\ key' = [key EXCEPT ![q] = Placeholder(q)]
    BY <1>2 DEF Start, StartKeys, Teams, store
  <2>2. now[q] = "none" /\ key[q] = Placeholder(q)
    BY <2>1 DEF TypeInv, Position, KeysFollow
  <2>3. pc'[q] = "created" /\ key' = key /\ \A s \in Run \ {q} : pc'[s] = pc[s]
    BY <2>1, <2>2 DEF TypeInv, TypeOK
  <2>4. InStepOf(q)'
    BY <2>1, <2>2, <2>3 DEF InStep, InStepOf
  <2>5. \A s \in Run \ {q} : InStepOf(s)'
    BY <2>1, <2>3, SameStays DEF InStep
  <2> QED
    BY <2>4, <2>5 DEF InStep
<1>3. CASE Cleanup \/ Reconnect \/ ClientStep \/ UNCHANGED vars
  <2>1. UNCHANGED <<pc, now, key, out, log>>
    BY <1>3 DEF Cleanup, Reconnect, ClientStep, PollEvents, PollStatus, vars, task, store
  <2> QED
    BY <2>1 DEF InStep, InStepOf, Agree
<1>4. ~CancelRun /\ ~CancelStep
  BY DEF CancelRun, CancelStep, CancelStatus, CancelEvent, Uncancelled, NobodyIsTold
<1> QED
  BY <1>1, <1>2, <1>3, <1>4 DEF Next

StreamInv == TypeInv /\ KeysFollow /\ NobodyIsTold /\ InStep

LEMMA StreamFirst == Init => KeysFollow /\ NobodyIsTold /\ InStep
BY KeyFacts DEF Init, KeysFollow, NobodyIsTold, InStep, InStepOf, Agree

(* A client that reconnects to a team run replays exactly what the first   *)
(* client was sent: every event that reaches the queue is in the log under *)
(* the run's id, at the same place, in spite of the change of keys         *)
(* (routes/_background.py:259-300).                                        *)
THEOREM StreamsMatch ==
  ASSUME Teams, Uncancelled, Dependable
  PROVE  Spec => []StreamMatchesLog
<1>1. Init => StreamInv
  BY TypesFirst, StreamFirst DEF StreamInv
<1>2. StreamInv /\ [Next]_vars => StreamInv'
  BY TypeStep, KeysStep, NobodyIsToldStep, InStepStep DEF StreamInv
<1>3. StreamInv => StreamMatchesLog
  <2> SUFFICES ASSUME InStep, NEW r \in Run, NEW i \in DOMAIN out[r],
                      \A j \in 1..i : out[r][j] # "end", TypeInv
               PROVE  i <= Len(log[r]) /\ out[r][i] = log[r][i].kind
    BY DEF StreamInv, StreamMatchesLog
  <2>1. i \in 1..i
    BY DEF TypeInv, TypeOK
  <2> QED
    BY <2>1 DEF InStep, InStepOf, Agree
<1> QED
  BY <1>1, <1>2, <1>3, PTL DEF Spec

-----------------------------------------------------------------------------
(* A client that has reconnected.  Nobody cancels and nothing is stale; the *)
(* calls of the store may raise.                                           *)

(* What the log of a run says of its end is true.                          *)
Truthful(last, e) == e.kind # "cancelled" /\ (e.kind = "done" => last = "done")

DoneIsLast ==
  \A r \in Run : \A k \in {Placeholder(r), r} : \A i \in DOMAIN log[k] : Truthful(now[r], log[k][i])

(* A client that has seen its run execute is where the run is, and what it *)
(* has read is still there.                                                *)
Follows ==
  /\ client.pc # "none" => client.key \in Run /\ key[client.key] = client.key
  /\ client.pc = "none" => ~client.seen
  /\ client.seen => client.here
  /\ client.why # {} => client.pc = "stopped"
  /\ client.pc = "ask" => client.have <= Len(log[client.key])
  /\ client.why \cap {"done", "quiet"} # {} =>
       pc[client.key] = "over" \/ now[client.key] = "done"

(* What a call of the store may do to the logs: nothing, add an event, or  *)
(* give the log of a placeholder to its run.                               *)
LogEffect(q) ==
  \/ log' = log
  \/ \E e \in [run : Run \cup {NoRun}, kind : Kind] :
       Truthful(now[q], e) /\ log' = [log EXCEPT ![key[q]] = Append(@, e)]
  \/ /\ key[q] = Placeholder(q)
     /\ log' = [log EXCEPT ![Placeholder(q)] = <<>>, ![q] = log[Placeholder(q)]]

LEMMA ExecutedLog ==
  ASSUME TypeInv, KeysFollow, NEW q \in Run, pc[q] \notin {"canc", "cstat"},
         Executed(q) \/ UNCHANGED store
  PROVE  LogEffect(q)
<1>1. ASSUME NEW x \in Kind, Logged(q, x), x # "cancelled", x = "done" => now[q] = "done"
      PROVE  LogEffect(q)
  <2>1. Event(q, x) \in [run : Run \cup {NoRun}, kind : Kind] /\ Truthful(now[q], Event(q, x))
    BY <1>1 DEF Event, Truthful
  <2> QED
    BY <1>1, <2>1 DEF LogEffect, Logged
<1>2. CASE pc[q] = "append" /\ Logged(q, now[q])
  <2>1. now[q] \in Kind /\ now[q] # "cancelled"
    BY <1>2 DEF TypeInv, TypeOK, Position
  <2> QED
    BY <1>1, <1>2, <2>1
<1>3. CASE pc[q] = "err" /\ Logged(q, "error")
  BY <1>1, <1>3 DEF Kind
<1>4. CASE pc[q] = "rename" /\ Renamed(key[q], q)
  BY <1>4 DEF KeysFollow, Renamed, LogEffect
<1>5. CASE UNCHANGED store \/ pc[q] \in {"begin", "last"}
  BY <1>5 DEF store, Executed, Recorded, LogEffect
<1> QED
  BY <1>2, <1>3, <1>4, <1>5 DEF Executed

LEMMA TaskEffect ==
  ASSUME TypeInv, KeysFollow, NobodyIsTold, NEW q \in Run,
         TaskStep(q) \/ RunRaises(q) \/ StoreRaises(q)
  PROVE  /\ LogEffect(q)
         /\ \A s \in Run : now[s] = "done" => now'[s] = "done"
         /\ \A s \in Run : pc[s] = "over" => pc'[s] = "over"
         /\ \A s \in Run : key[s] = s => key'[s] = s
         /\ client' = client
<1> DEFINE Kept ==
      /\ \A s \in Run : now[s] = "done" => now'[s] = "done"
      /\ \A s \in Run : pc[s] = "over" => pc'[s] = "over"
      /\ \A s \in Run : key[s] = s => key'[s] = s
<1>1. pc[q] \notin {"canc", "cstat"} /\ ~told[q]
  BY DEF NobodyIsTold
<1>2. ASSUME NEW to, Goto(q, to), pc[q] # "over", UNCHANGED now,
             key' = key \/ key' = [key EXCEPT ![q] = q]
      PROVE  Kept
  BY <1>2 DEF Goto, TypeInv, TypeOK
<1>3. CASE FirstStep(q) \/ RunReturns(q) \/ RunRaises(q)
  <2>1. Kept
    BY <1>2, <1>3 DEF FirstStep, RunReturns, RunRaises, Awaiting
  <2> QED
    BY <1>3, <2>1 DEF FirstStep, RunReturns, RunRaises, store, LogEffect
<1>4. CASE YieldStart(q) \/ YieldToken(q) \/ YieldDone(q)
  <2>1. /\ pc[q] = "iter" /\ now[q] # "done" /\ UNCHANGED <<key, log, client>>
        /\ \E to \in {"append", "rename"} : pc' = [pc EXCEPT ![q] = to]
        /\ \E x \in {"start", "token", "done"} : now' = [now EXCEPT ![q] = x]
    BY <1>4 DEF YieldStart, YieldToken, YieldDone, Awaiting, Goto, store
  <2>2. Kept
    BY <2>1 DEF TypeInv, TypeOK
  <2> QED
    BY <2>1, <2>2 DEF LogEffect
<1>5. CASE StoreAnswers(q)
  <2>1. /\ Executed(q) /\ pc[q] # "over" /\ UNCHANGED <<now, client>>
        /\ \E to : Goto(q, to)
        /\ key' = key \/ key' = [key EXCEPT ![q] = q]
    BY <1>5 DEF StoreAnswers, Begun, Rekeyed, Streamed, Failed, CancelLogged, Cancelled, Ended,
                Answered
  <2> QED
    BY <1>1, <1>2, <2>1, ExecutedLog
<1>6. CASE StoreRaises(q)
  <2>1. /\ Executed(q) \/ UNCHANGED store
        /\ pc[q] # "over" /\ UNCHANGED <<now, key, client>>
        /\ \E to : Goto(q, to)
    BY <1>6 DEF StoreRaises
  <2> QED
    BY <1>1, <1>2, <2>1, ExecutedLog
<1>7. ~Interrupted(q)
  BY <1>1 DEF Interrupted
<1> QED
  BY <1>3, <1>4, <1>5, <1>6, <1>7 DEF TaskStep

LEMMA DoneStep ==
  ASSUME TypeInv, KeysFollow, NobodyIsTold, DoneIsLast, [Next]_vars, Uncancelled
  PROVE  DoneIsLast'
<1>1. ASSUME NEW q \in Run, TaskStep(q) \/ RunRaises(q) \/ StoreRaises(q)
      PROVE  DoneIsLast'
  <2>1. LogEffect(q) /\ \A s \in Run : now[s] = "done" => now'[s] = "done"
    BY <1>1, TaskEffect
  <2>2. \A s \in Run : \A e : Truthful(now[s], e) => Truthful(now'[s], e)
    BY <2>1 DEF Truthful
  <2>3. SUFFICES ASSUME NEW r \in Run, NEW k \in {Placeholder(r), r}, NEW i \in DOMAIN log'[k]
                 PROVE  Truthful(now'[r], log'[k][i])
    BY DEF DoneIsLast
  <2>4. /\ log \in [Key -> Seq([run : Run \cup {NoRun}, kind : Kind])]
        /\ q \in Key /\ Placeholder(q) \in Key /\ k \in Key
    BY KeyFacts DEF TypeInv, TypeOK
  <2>5. CASE log'[k] = log[k]
    BY <2>2, <2>5 DEF DoneIsLast
  <2>6. ASSUME NEW e \in [run : Run \cup {NoRun}, kind : Kind], Truthful(now[q], e),
               log' = [log EXCEPT ![key[q]] = Append(@, e)], log'[k] # log[k]
        PROVE  Truthful(now'[r], log'[k][i])
    <3>1. k = key[q] /\ log'[k] = Append(log[k], e)
      BY <2>4, <2>6
    <3>2. r = q
      BY <3>1, KeysApart DEF KeysFollow
    <3>3. CASE i <= Len(log[k])
      <4>1. i \in DOMAIN log[k] /\ log'[k][i] = log[k][i]
        BY <2>4, <3>1, <3>3
      <4> QED
        BY <2>2, <4>1 DEF DoneIsLast
    <3>4. CASE i = Len(log[k]) + 1
      <4>1. log'[k][i] = e
        BY <2>4, <3>1, <3>4
      <4> QED
        BY <2>2, <2>6, <3>2, <4>1
    <3>5. i \in 1..(Len(log[k]) + 1)
      BY <2>4, <3>1
    <3> QED
      BY <2>4, <3>3, <3>4, <3>5
  <2>7. ASSUME log' = [log EXCEPT ![Placeholder(q)] = <<>>, ![q] = log[Placeholder(q)]],
               log'[k] # log[k]
        PROVE  Truthful(now'[r], log'[k][i])
    <3>1. k \in {Placeholder(q), q}
      BY <2>4, <2>7
    <3>2. r = q
      BY <3>1, KeysApart
    <3>3. k = q /\ log'[k] = log[Placeholder(q)]
      <4>1. log'[Placeholder(q)] = <<>> /\ log'[q] = log[Placeholder(q)]
        BY <2>4, <2>7, KeysApart
      <4>2. k # Placeholder(q)
        BY <4>1, <2>3
      <4> QED
        BY <3>1, <4>1, <4>2
    <3> QED
      BY <2>2, <3>2, <3>3 DEF DoneIsLast
  <2> QED
    BY <2>1, <2>5, <2>6, <2>7 DEF LogEffect
<1>2. CASE Cleanup \/ Reconnect \/ ClientStep \/ (\E q \in Run : Start(q)) \/ UNCHANGED vars
  <2>1. UNCHANGED <<log, now>>
    BY <1>2 DEF Cleanup, Reconnect, ClientStep, PollEvents, PollStatus, Start, vars, task, store
  <2> QED
    BY <2>1 DEF DoneIsLast, Truthful
<1>3. ~CancelRun /\ ~CancelStep
  BY DEF CancelRun, CancelStep, CancelStatus, CancelEvent, Uncancelled, NobodyIsTold
<1> QED
  BY <1>1, <1>2, <1>3 DEF Next

(* What others do keeps what a client relies on.                           *)
LEMMA OthersFollow ==
  ASSUME Follows, client' = client,
         \A s \in Run : now[s] = "done" => now'[s] = "done",
         \A s \in Run : pc[s] = "over" => pc'[s] = "over",
         \A s \in Run : key[s] = s => key'[s] = s,
         client.pc # "none" => Len(log'[client.key]) >= Len(log[client.key]),
         client.have \in Nat, client.pc = "ask" => Len(log[client.key]) \in Nat,
         client.pc = "ask" => Len(log'[client.key]) \in Nat
  PROVE  Follows'
BY DEF Follows

LEMMA PollFollows ==
  ASSUME TypeInv, KeysFollow, TrackedRuns, DoneIsLast, Follows, PollStatus, Teams
  PROVE  Follows'
<1> DEFINE c == client.key
<1>1. /\ client.pc = "ask" /\ c \in Run /\ key[c] = c
      /\ client.have <= Len(log[c]) /\ client.why = {}
  BY DEF PollStatus, Follows
<1>2. /\ client'.pc = IF Reasons = {} THEN "read" ELSE "stopped"
      /\ client'.why = Reasons /\ client'.seen = Seen
      /\ client'.key = c /\ client'.here = client.here
      /\ UNCHANGED <<pc, now, key, log>>
  <2>1. client \in [pc: {"none", "read", "ask", "stopped"}, key: Key \cup {NoRun},
                    here: BOOLEAN, seen: BOOLEAN, have: Nat, sent: Nat,
                    silent: 0..MaxSilent, why: SUBSET {"done", "cancelled", "quiet", "silent"}]
    BY DEF TypeInv, TypeOK
  <2> QED
    BY <2>1 DEF PollStatus, task, store
<1>3. now[c] # "none" /\ pc[c] # "none"
  <2>1. now[c] # "none"
    BY <1>1, KeysApart DEF KeysFollow
  <2> QED
    BY <1>1, <2>1 DEF TypeInv, Position
<1>4. Seen => client.here
  <2>1. StatusOf(c, client.here) = "running" => client.here
    BY DEF StatusOf
  <2> QED
    BY <2>1 DEF Seen, Follows
<1>5. ASSUME "done" \in Reasons
      PROVE  now[c] = "done"
  <2>1. Fresh /\ log[c][client.have].kind \in {"done", "cancelled"}
    BY <1>5 DEF Reasons, DoneTypes, Teams
  <2>2. client.have \in DOMAIN log[c]
    <3>1. client.have \in Nat /\ client.sent \in Nat /\ c \in Key
      BY <1>1, KeyFacts DEF TypeInv, TypeOK
    <3>2. DOMAIN log[c] = 1..Len(log[c])
      BY <3>1 DEF TypeInv, TypeOK
    <3>3. client.have > client.sent
      BY <2>1 DEF Fresh
    <3> QED
      BY <1>1, <3>1, <3>2, <3>3
  <2> QED
    BY <1>1, <2>1, <2>2 DEF DoneIsLast, Truthful
<1>6. ASSUME "quiet" \in Reasons
      PROVE  pc[c] = "over"
  <2>1. Seen /\ StatusOf(c, client.here) = "idle"
    BY <1>6 DEF Reasons
  <2>2. ~IsRunning(c)
    BY <1>4, <2>1 DEF StatusOf
  <2>3. pc[c] \notin Executing
    <3>1. pc[c] \in Executing => tracked[c] = c /\ c # NoRun
      BY <1>1, <1>3, RunsAssumption DEF TrackedRuns
    <3> QED
      BY <2>2, <3>1 DEF IsRunning
  <2> QED
    BY <1>1, <1>3, <2>3 DEF TypeInv, TypeOK
<1>7. client'.why \cap {"done", "quiet"} # {} => pc[c] = "over" \/ now[c] = "done"
  BY <1>2, <1>5, <1>6
<1> HIDE DEF c
<1>8. client'.pc # "ask" /\ client'.pc # "none"
  BY <1>2
<1> QED
  BY <1>1, <1>2, <1>4, <1>7, <1>8 DEF Follows

LEMMA FollowsStep ==
  ASSUME TypeInv, KeysFollow, TrackedRuns, NobodyIsTold, DoneIsLast, Follows, [Next]_vars,
         Teams, Uncancelled
  PROVE  Follows'
<1>0. /\ client \in [pc: {"none", "read", "ask", "stopped"}, key: Key \cup {NoRun},
                     here: BOOLEAN, seen: BOOLEAN, have: Nat, sent: Nat,
                     silent: 0..MaxSilent, why: SUBSET {"done", "cancelled", "quiet", "silent"}]
      /\ log \in [Key -> Seq([run : Run \cup {NoRun}, kind : Kind])]
      /\ log' \in [Key -> Seq([run : Run \cup {NoRun}, kind : Kind])]
  BY TypeStep DEF TypeInv, TypeOK
<1>1. client.pc # "none" =>
        /\ client.key \in Key /\ Len(log[client.key]) \in Nat /\ Len(log'[client.key]) \in Nat
  BY <1>0, KeyFacts DEF Follows
<1>2. ASSUME NEW q \in Run, TaskStep(q) \/ RunRaises(q) \/ StoreRaises(q)
      PROVE  Follows'
  <2>1. /\ LogEffect(q)
        /\ \A s \in Run : now[s] = "done" => now'[s] = "done"
        /\ \A s \in Run : pc[s] = "over" => pc'[s] = "over"
        /\ \A s \in Run : key[s] = s => key'[s] = s
        /\ client' = client
    BY <1>2, TaskEffect
  <2>2. ASSUME client.pc # "none"
        PROVE  Len(log'[client.key]) >= Len(log[client.key])
    <3>1. client.key \in Run /\ key[client.key] = client.key /\ client.key \in Key
      BY <2>2, KeyFacts DEF Follows
    <3>2. CASE log'[client.key] = log[client.key]
      BY <1>1, <2>2, <3>2
    <3>3. ASSUME NEW e, log' = [log EXCEPT ![key[q]] = Append(@, e)],
                 e \in [run : Run \cup {NoRun}, kind : Kind], client.key = key[q]
          PROVE  Len(log'[client.key]) >= Len(log[client.key])
      <4>1. /\ log'[client.key] = Append(log[client.key], e)
            /\ log[client.key] \in Seq([run : Run \cup {NoRun}, kind : Kind])
        BY <1>0, <3>1, <3>3
      <4>2. Len(log'[client.key]) = Len(log[client.key]) + 1
        BY <3>3, <4>1
      <4> QED
        BY <1>1, <2>2, <4>2
    <3>4. ASSUME key[q] = Placeholder(q),
                 log' = [log EXCEPT ![Placeholder(q)] = <<>>, ![q] = log[Placeholder(q)]]
          PROVE  log'[client.key] = log[client.key]
      <4>1. client.key # q /\ client.key # Placeholder(q)
        BY <3>1, <3>4, KeysApart
      <4> QED
        BY <1>0, <3>1, <3>4, <4>1
    <3>5. \A e : log' = [log EXCEPT ![key[q]] = Append(@, e)] /\ client.key # key[q] =>
                   log'[client.key] = log[client.key]
      BY <1>0, <3>1
    <3> QED
      BY <2>1, <3>2, <3>3, <3>4, <3>5 DEF LogEffect
  <2> QED
    BY <1>0, <1>1, <2>1, <2>2, OthersFollow
<1>3. ASSUME NEW q \in Run, Start(q)
      PROVE  Follows'
  <2>1. /\ pc[q] = "none" /\ UNCHANGED <<now, log, client>>
        /\ pc' = [pc EXCEPT ![q] = "created"]
        /\ key' = [key EXCEPT ![q] = Placeholder(q)]
    BY <1>3 DEF Start, StartKeys, Teams, store
  <2>2. key[q] = Placeholder(q)
    BY <2>1 DEF TypeInv, Position, KeysFollow
  <2>3. key' = key /\ \A s \in Run : pc[s] = "over" => pc'[s] = "over"
    BY <2>1, <2>2 DEF TypeInv, TypeOK
  <2> QED
    BY <1>0, <1>1, <2>1, <2>3, OthersFollow
<1>4. CASE Cleanup \/ UNCHANGED vars
  <2>1. UNCHANGED <<pc, now, key, log, client>>
    BY <1>4 DEF Cleanup, vars, task, store
  <2> QED
    BY <1>0, <1>1, <2>1, OthersFollow
<1>5. CASE Reconnect
  <2>1. PICK k \in Known, h \in BOOLEAN :
          client' = [client EXCEPT !.pc = "read", !.key = k, !.here = h]
    BY <1>5 DEF Reconnect
  <2>2. k \in Run /\ key[k] = k
    BY DEF Known, Teams
  <2>3. /\ client'.pc = "read" /\ client'.key = k /\ client'.here = h
        /\ client'.seen = client.seen /\ client'.why = client.why
    BY <1>0, <2>1
  <2>4. client.pc = "none" /\ UNCHANGED <<pc, now, key>>
    BY <1>5 DEF Reconnect, task
  <2>5. ~client.seen /\ client.why = {}
    BY <2>4 DEF Follows
  <2> QED
    BY <2>2, <2>3, <2>4, <2>5 DEF Follows
<1>6. CASE PollEvents
  <2>1. client.pc = "read" /\ UNCHANGED <<pc, now, key, log>>
    BY <1>6 DEF PollEvents, task, store
  <2>2. /\ client'.pc = "ask" /\ client'.have = Len(log[client.key])
        /\ client'.key = client.key /\ client'.here = client.here
        /\ client'.seen = client.seen /\ client'.why = client.why
    BY <1>0, <1>6 DEF PollEvents
  <2>3. client.why = {} /\ Len(log[client.key]) \in Nat
    BY <1>1, <2>1 DEF Follows
  <2> QED
    BY <2>1, <2>2, <2>3 DEF Follows
<1>7. CASE PollStatus
  BY <1>7, PollFollows
<1>8. ~CancelRun /\ ~CancelStep
  BY DEF CancelRun, CancelStep, CancelStatus, CancelEvent, Uncancelled, NobodyIsTold
<1> QED
  BY <1>2, <1>3, <1>4, <1>5, <1>6, <1>7, <1>8 DEF Next, ClientStep

FollowInv == TrackInv /\ NobodyIsTold /\ DoneIsLast /\ Follows

LEMMA FollowFirst == Init => NobodyIsTold /\ DoneIsLast /\ Follows
BY KeyFacts DEF Init, NobodyIsTold, DoneIsLast, Follows

(* A reconnected client that stops because the run is done, or because it  *)
(* is idle after having been seen, has not stopped before the run has, on  *)
(* whichever replica it is and whatever the store does                     *)
(* (routes/_background.py:195-209, 342-372).                               *)
THEOREM ClientsOutlastRuns ==
  ASSUME Teams, Prompt, Uncancelled
  PROVE  Spec => []ClientOutlastsRun
<1>1. Init => FollowInv
  BY TypesFirst, TracksFirst, FollowFirst DEF FollowInv, TrackInv
<1>2. FollowInv /\ [Next]_vars => FollowInv'
  BY TypeStep, KeysStep, TrackedStep, NobodyIsToldStep, DoneStep, FollowsStep
     DEF FollowInv, TrackInv
<1>3. FollowInv => ClientOutlastsRun
  <2> SUFFICES ASSUME FollowInv, client.why \cap {"done", "quiet"} # {},
                      NEW r \in Run, key[r] = client.key
               PROVE  pc[r] \in {"none", "over"} \/ now[r] = "done"
    BY DEF ClientOutlastsRun
  <2>1. client.key \in Run /\ (pc[client.key] = "over" \/ now[client.key] = "done")
    BY DEF FollowInv, Follows
  <2>2. r = client.key
    BY <2>1, KeysApart DEF FollowInv, TrackInv, KeysFollow
  <2> QED
    BY <2>1, <2>2
<1> QED
  BY <1>1, <1>2, <1>3, PTL DEF Spec
=============================================================================
