---------------------------- MODULE AuditRouter ----------------------------
(* The fan-out of audit events (audit/router.py): one bounded queue and one   *)
(* worker for every sink.  Whoever has an event to report puts it on every    *)
(* queue and goes on; a queue that is full refuses it, and the refusal is     *)
(* counted.  A worker writes one event after the other, each under a          *)
(* deadline.  A write that misses it is counted as a timeout, and may still   *)
(* reach the sink: the thread of the file sink and the command sent to Redis  *)
(* are not called back.                                                       *)
(*                                                                            *)
(* Events are numbered in the order in which they are reported.               *)
(*                                                                            *)
(* Operators named Bug... are variants with a plausible mistake in them.      *)
EXTENDS Naturals, Sequences, SequencesExt

CONSTANTS
  Sinks,           \* the configured sinks
  Prompt,          \* those whose workers get to run; the others may hang
  Echoing,         \* those that write through the registry: ObservabilityProviderSink
  EchoesExcluded,  \* does audit.filter drop what such a write reports?
  QueueSize        \* audit.queue_size

ASSUME AuditRouterAssumption ==
  /\ Prompt \subseteq Sinks /\ Echoing \subseteq Sinks
  /\ EchoesExcluded \in BOOLEAN
  /\ QueueSize \in Nat \ {0}

VARIABLES
  router,          \* "on", "stopping", "closing", "off"
  queue,           \* [Sinks -> what its worker has yet to take]
  worker,          \* [Sinks -> the event its worker writes, 0 when it waits for one]
  gone,            \* the sinks whose worker has ended
  open,            \* the sinks that are not closed yet
  emitted,         \* events reported so far
  sealed,          \* those reported before shutdown put its sentinels
  written,         \* [Sinks -> what has reached it, in order]
  confirmed,       \* [Sinks -> the events counted as a success]
  counted,         \* [Sinks -> the events counted as refused, failed or late]
  late,            \* [Sinks -> the events whose write was given up]
  cut              \* the sinks whose worker the deadline of shutdown cancelled

tallies == <<confirmed, late, cut, written>>
auditVars == <<router, queue, worker, gone, open, emitted, sealed, counted, tallies>>

Sentinel == 0
Getting == 0

(* A queue without a bound.                                                   *)
BugPutAnyway(q, e) == Append(q, e)

(* A full queue forgets its oldest event.                                     *)
BugPut(q, e) == Append(IF Len(q) < QueueSize THEN q ELSE Tail(q), e)

(* put_nowait of one event on every queue.                                    *)
Put(q, e) == IF Len(q) < QueueSize THEN Append(q, e) ELSE q
Refusing(queues) == {s \in Sinks : Len(queues[s]) >= QueueSize}

PutAll(state, e) ==
  [queue   |-> [s \in Sinks |-> Put(state.queue[s], e)],
   counted |-> [s \in Sinks |-> state.counted[s] \union
                                  (IF s \in Refusing(state.queue) THEN {e} ELSE {})]]

(* emit, n times in a row, by someone who counts "counts" as well; nobody     *)
(* reports more than two events at once.  Without a router nothing is kept.   *)
(* During shutdown the queues still take what comes.                          *)
PutNext(state, n) ==
  IF n = 0 THEN state
  ELSE LET first == PutAll(state, emitted + 1)
       IN IF n = 1 THEN first ELSE PutAll(first, emitted + 2)

EmitCounting(n, counts) ==
  LET after == PutNext([queue |-> queue, counted |-> counts], n)
  IN IF router = "off" THEN counted' = counts /\ UNCHANGED <<queue, emitted>>
     ELSE /\ queue' = after.queue /\ counted' = after.counted
          /\ emitted' = emitted + n
Emit(n) == EmitCounting(n, counted) /\ UNCHANGED <<router, worker, gone, open, sealed, tallies>>

(*********************************** Workers *******************************)
Busy(s) == worker[s] # Getting
Count(s) == [counted EXCEPT ![s] = @ \union {worker[s]}]

(* Whatever a sink that writes through the registry does is reported twice:   *)
(* by the observability primitive and by the proxy around its provider.       *)
Echo(s) == IF s \in Echoing /\ ~EchoesExcluded THEN 2 ELSE 0

(* One event at a time is written, whichever the sink.                        *)
BugTake(s) ==
  /\ s \notin gone /\ ~Busy(s) /\ queue[s] # <<>>
  /\ \A t \in Sinks : ~Busy(t)
  /\ queue' = [queue EXCEPT ![s] = Tail(@)]
  /\ worker' = [worker EXCEPT ![s] = Head(queue[s])]
  /\ gone' = IF Head(queue[s]) = Sentinel THEN gone \union {s} ELSE gone
  /\ UNCHANGED <<router, open, emitted, sealed, counted, tallies>>

(* The next item; the sentinel ends the worker, after a flush.                *)
Take(s) ==
  /\ s \notin gone /\ ~Busy(s) /\ queue[s] # <<>>
  /\ queue' = [queue EXCEPT ![s] = Tail(@)]
  /\ worker' = [worker EXCEPT ![s] = Head(queue[s])]
  /\ gone' = IF Head(queue[s]) = Sentinel THEN gone \union {s} ELSE gone
  /\ UNCHANGED <<router, open, emitted, sealed, counted, tallies>>

Writes(s) ==
  /\ Busy(s)
  /\ worker' = [worker EXCEPT ![s] = Getting]
  /\ written' = [written EXCEPT ![s] = Append(@, worker[s])]
  /\ confirmed' = [confirmed EXCEPT ![s] = @ \union {worker[s]}]
  /\ EmitCounting(Echo(s), counted)
  /\ UNCHANGED <<router, gone, open, sealed, late, cut>>

Fails(s) ==
  /\ Busy(s)
  /\ worker' = [worker EXCEPT ![s] = Getting]
  /\ EmitCounting(Echo(s), Count(s))
  /\ UNCHANGED <<router, gone, open, sealed, tallies>>

(* The event of a write that timed out goes back on the queue.                *)
BugTimesOut(s) ==
  /\ Busy(s) /\ Len(queue[s]) < QueueSize
  /\ worker' = [worker EXCEPT ![s] = Getting]
  /\ queue' = [queue EXCEPT ![s] = Append(@, worker[s])]
  /\ late' = [late EXCEPT ![s] = @ \union {worker[s]}]
  /\ UNCHANGED <<router, gone, open, emitted, sealed, written, confirmed, counted, cut>>

TimesOut(s) ==
  /\ Busy(s)
  /\ worker' = [worker EXCEPT ![s] = Getting]
  /\ counted' = Count(s)
  /\ late' = [late EXCEPT ![s] = @ \union {worker[s]}]
  /\ UNCHANGED <<router, gone, queue, open, emitted, sealed, written, confirmed, cut>>

(* A write that was given up reaches the sink after all.                      *)
Lands(s) == \E e \in late[s] :
  /\ written' = [written EXCEPT ![s] = Append(@, e)]
  /\ late' = [late EXCEPT ![s] = @ \ {e}]
  /\ UNCHANGED <<router, queue, worker, gone, open, emitted, sealed, confirmed, counted, cut>>

(********************************** Shutdown *******************************)
(* A queue that is full does not get its sentinel.                            *)
StopRouter ==
  /\ router = "on"
  /\ router' = "stopping"
  /\ queue' = [s \in Sinks |-> Put(queue[s], Sentinel)]
  /\ sealed' = emitted
  /\ UNCHANGED <<worker, gone, open, emitted, counted, tallies>>

WorkersJoin ==
  /\ router = "stopping" /\ gone = Sinks
  /\ router' = "closing"
  /\ UNCHANGED <<queue, worker, gone, open, emitted, sealed, counted, tallies>>

(* After the deadline the workers that are left are cancelled, without a      *)
(* flush and without a count of what they wrote or had still to write.        *)
BugDeadline == WorkersJoin

Deadline == LET left == Sinks \ gone IN
  /\ router = "stopping" /\ left # {}
  /\ router' = "closing"
  /\ cut' = cut \union left
  /\ late' = [s \in Sinks |-> IF s \in left /\ Busy(s) THEN late[s] \union {worker[s]} ELSE late[s]]
  /\ worker' = [s \in Sinks |-> Getting] /\ gone' = Sinks
  /\ UNCHANGED <<queue, open, emitted, sealed, counted, written, confirmed>>

(* close() of one sink after the other; with the last one the queues go, and  *)
(* main.py takes the router away.                                             *)
CloseSink == \E s \in open :
  /\ router = "closing"
  /\ open' = open \ {s}
  /\ IF open = {s} THEN router' = "off" /\ queue' = [t \in Sinks |-> <<>>]
                   ELSE UNCHANGED <<router, queue>>
  /\ UNCHANGED <<worker, gone, emitted, sealed, counted, tallies>>

AuditInit(on) ==
  /\ router = IF on THEN "on" ELSE "off"
  /\ queue = [s \in Sinks |-> <<>>] /\ worker = [s \in Sinks |-> Getting] /\ gone = {}
  /\ open = Sinks
  /\ emitted = 0 /\ sealed = 0
  /\ written = [s \in Sinks |-> <<>>]
  /\ confirmed = [s \in Sinks |-> {}] /\ counted = [s \in Sinks |-> {}]
  /\ late = [s \in Sinks |-> {}] /\ cut = {}

(******************************** Properties *******************************)
AuditTypeOK ==
  /\ router \in {"on", "stopping", "closing", "off"}
  /\ queue \in [Sinks -> Seq(Nat)] /\ \A s \in Sinks : Len(queue[s]) <= QueueSize
  /\ worker \in [Sinks -> 0 .. emitted] /\ gone \subseteq Sinks
  /\ open \subseteq Sinks /\ cut \subseteq Sinks
  /\ emitted \in Nat /\ sealed \in 0 .. emitted
  /\ \A s \in Sinks : /\ ToSet(written[s]) \subseteq 1 .. emitted
                      /\ confirmed[s] \union counted[s] \union late[s] \subseteq 1 .. emitted

(* Every event that was reported before the shutdown is, for every sink,      *)
(* waiting, being written, written or counted, unless the deadline of the     *)
(* shutdown cut the sink off: what the drop counters are trusted for.         *)
Sealed == IF router = "on" THEN emitted ELSE sealed
NoEventVanishes == \A s \in Sinks \ cut, e \in 1 .. Sealed :
  e \in ToSet(queue[s]) \union {worker[s]} \union confirmed[s] \union counted[s]

(* No event reaches a sink twice, and those counted as a success reach it in  *)
(* the order in which they were reported.                                     *)
WrittenOnceInOrder == \A s \in Sinks : \A j, k \in DOMAIN written[s] : j < k =>
  /\ written[s][j] # written[s][k]
  /\ {written[s][j], written[s][k]} \subseteq confirmed[s] => written[s][j] < written[s][k]
=============================================================================
