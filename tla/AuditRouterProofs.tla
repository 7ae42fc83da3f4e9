------------------------- MODULE AuditRouterProofs -------------------------
(* What the fan-out of audit events keeps, whatever the sinks do: the         *)
(* inductive invariant of one sink, and that every operation of the router    *)
(* preserves it.  GatewayProofs puts the router back into its process.        *)
EXTENDS AuditRouter, SequenceTheorems, TLAPS

(* The operations of the router; nobody reports more than two events at once. *)
AuditNext ==
  \/ \E n \in 0 .. 2 : Emit(n)
  \/ \E s \in Sinks : Take(s) \/ Writes(s) \/ Fails(s) \/ TimesOut(s) \/ Lands(s)
  \/ StopRouter \/ WorkersJoin \/ Deadline \/ CloseSink

(* The shape of the state, said of each variable.                             *)
Shape ==
  /\ router \in {"on", "stopping", "closing", "off"}
  /\ queue \in [Sinks -> Seq(Nat)]
  /\ worker \in [Sinks -> Nat]
  /\ gone \subseteq Sinks /\ open \subseteq Sinks /\ cut \subseteq Sinks
  /\ emitted \in Nat /\ sealed \in 0 .. emitted
  /\ written \in [Sinks -> Seq(Nat)]
  /\ confirmed \in [Sinks -> SUBSET Nat]
  /\ counted \in [Sinks -> SUBSET Nat]
  /\ late \in [Sinks -> SUBSET Nat]

(* What waits in a queue q of length n: events that were reported, in that    *)
(* order, all reported after the one that is being written (w), and behind a  *)
(* sentinel only what was reported after the shutdown had begun (em: emitted, *)
(* sl: sealed).                                                               *)
Lined(q, n, w, em, sl) ==
  /\ w <= em
  /\ \A k \in 1 .. n : q[k] \in Nat /\ q[k] <= em /\ (q[k] # 0 => w < q[k])
  /\ \A j, k \in 1 .. n : j < k =>
       /\ q[j] # 0 /\ q[k] # 0 => q[j] < q[k]
       /\ q[j] = 0 => q[k] > sl

(* What a sink has seen, or was given up, is older than what it has yet to    *)
(* see (wr: the m events written, ok: confirmed, no: counted, lt: late).      *)
Past(e, q, n, w, em) ==
  /\ e # 0 /\ e <= em
  /\ w # 0 => e < w
  /\ \A k \in 1 .. n : q[k] # 0 => e < q[k]
Behind(q, n, w, wr, m, ok, lt, em) ==
  /\ \A k \in 1 .. m : wr[k] \in Nat /\ Past(wr[k], q, n, w, em) /\ wr[k] \notin lt
  /\ \A e \in ok : Past(e, q, n, w, em) /\ e \notin lt
  /\ \A e \in lt : Past(e, q, n, w, em)

(* A worker that has ended leaves nothing that was reported before the        *)
(* shutdown, unless it was cancelled.                                         *)
Ended(q, n, w, mode, ended, cancelled, sl) ==
  /\ ended => w = 0
  /\ ended /\ ~cancelled => \A k \in 1 .. n : q[k] > sl
  /\ mode = "on" => ~ended /\ ~cancelled /\ \A k \in 1 .. n : q[k] # 0
  /\ mode = "closing" => ended
  /\ mode = "off" => n = 0 /\ w = 0

(* NoEventVanishes and WrittenOnceInOrder, of one sink.                       *)
Accounted(q, n, w, ok, no, to) == \A e \in 1 .. to :
  (\E k \in 1 .. n : q[k] = e) \/ w = e \/ e \in ok \/ e \in no
InOrder(wr, m, ok) == \A j, k \in 1 .. m : j < k =>
  /\ wr[j] # wr[k]
  /\ wr[j] \in ok /\ wr[k] \in ok => wr[j] < wr[k]

SinkOK(q, n, w, wr, m, ok, no, lt, mode, ended, cancelled, em, sl) ==
  /\ Lined(q, n, w, em, sl)
  /\ Behind(q, n, w, wr, m, ok, lt, em)
  /\ Ended(q, n, w, mode, ended, cancelled, sl)
  /\ ~cancelled => Accounted(q, n, w, ok, no, IF mode = "on" THEN em ELSE sl)
  /\ InOrder(wr, m, ok)

SinkInv(s) ==
  /\ Len(queue[s]) <= QueueSize
  /\ SinkOK(queue[s], Len(queue[s]), worker[s], written[s], Len(written[s]), confirmed[s],
            counted[s], late[s], router, s \in gone, s \in cut, emitted, sealed)
AuditInv == Shape /\ \A s \in Sinks : SinkInv(s)

-----------------------------------------------------------------------------
(* Reporting events.                                                          *)

(* How reporting events a+1 .. b changes a queue and its counter.             *)
Grown(q, c, q2, c2, a, b) ==
  /\ q2 \in Seq(Nat)
  /\ Len(q) <= Len(q2) /\ Len(q2) <= QueueSize
  /\ \A k \in 1 .. Len(q) : q2[k] = q[k]
  /\ \A k \in Len(q) + 1 .. Len(q2) : a < q2[k] /\ q2[k] <= b
  /\ \A j, k \in Len(q) + 1 .. Len(q2) : j < k => q2[j] < q2[k]
  /\ c \subseteq c2 /\ c2 \subseteq c \union (a + 1 .. b)
  /\ \A e \in a + 1 .. b : e \in c2 \/ \E k \in 1 .. Len(q2) : q2[k] = e

(* Reporting one event: it is in the queue, or counted.                       *)
LEMMA PutGrows ==
  ASSUME NEW q \in Seq(Nat), Len(q) <= QueueSize, NEW c \in SUBSET Nat, NEW a \in Nat,
         QueueSize \in Nat
  PROVE  Grown(q, c, Put(q, a + 1), c \union (IF Len(q) >= QueueSize THEN {a + 1} ELSE {}),
               a, a + 1)
<1>1. CASE Len(q) < QueueSize
  <2>1. Put(q, a + 1) = Append(q, a + 1)
    BY <1>1 DEF Put
  <2>2. /\ Append(q, a + 1) \in Seq(Nat) /\ Len(Append(q, a + 1)) = Len(q) + 1
        /\ \A k \in 1 .. Len(q) : Append(q, a + 1)[k] = q[k]
        /\ Append(q, a + 1)[Len(q) + 1] = a + 1
    OBVIOUS
  <2>3. \A k \in Len(q) + 1 .. Len(q) + 1 : k = Len(q) + 1
    BY LenProperties
  <2>4. Len(q) \in Nat /\ ~(Len(q) >= QueueSize)
    BY <1>1
  <2>5. \A e \in a + 1 .. a + 1 : e = a + 1
    OBVIOUS
  <2> DEFINE r == Append(q, a + 1)
  <2>6. /\ r \in Seq(Nat) /\ Len(r) = Len(q) + 1
        /\ \A k \in 1 .. Len(q) : r[k] = q[k]
        /\ r[Len(q) + 1] = a + 1 /\ Put(q, a + 1) = r
    BY <2>1, <2>2
  <2> HIDE DEF r
  <2> QED
    BY <1>1, <2>3, <2>4, <2>5, <2>6 DEF Grown
<1>2. CASE ~(Len(q) < QueueSize)
  BY <1>2 DEF Put, Grown
<1> QED
  BY <1>1, <1>2

(* Nothing reported, nothing changed.                                         *)
LEMMA NothingGrows ==
  ASSUME NEW q \in Seq(Nat), Len(q) <= QueueSize, NEW c \in SUBSET Nat, NEW a \in Nat,
         QueueSize \in Nat
  PROVE  Grown(q, c, q, c, a, a)
BY DEF Grown

(* One after the other.                                                       *)
LEMMA GrowsOn ==
  ASSUME NEW q \in Seq(Nat), NEW q1, NEW q2, NEW c \in SUBSET Nat, NEW c1, NEW c2,
         NEW a \in Nat,
         Grown(q, c, q1, c1, a, a + 1), Grown(q1, c1, q2, c2, a + 1, a + 2)
  PROVE  Grown(q, c, q2, c2, a, a + 2)
<1>1. q1 \in Seq(Nat) /\ q2 \in Seq(Nat) /\ Len(q) <= Len(q2) /\ Len(q2) <= QueueSize
  BY DEF Grown
<1>2. \A k \in 1 .. Len(q) : q2[k] = q[k]
  BY DEF Grown
<1>a. Len(q) \in Nat /\ Len(q1) \in Nat /\ Len(q2) \in Nat /\ Len(q) <= Len(q1) /\ Len(q1) <= Len(q2)
  BY LenProperties DEF Grown
<1>b. \A k \in Len(q) + 1 .. Len(q1) : q2[k] = q1[k] /\ a < q2[k] /\ q2[k] <= a + 1
  <2> TAKE k \in Len(q) + 1 .. Len(q1)
  <2>1. k \in 1 .. Len(q1)
    BY <1>a
  <2>2. q2[k] = q1[k]
    BY <2>1 DEF Grown
  <2>3. a < q1[k] /\ q1[k] <= a + 1
    BY DEF Grown
  <2> QED
    BY <2>2, <2>3
<1>c. \A k \in Len(q1) + 1 .. Len(q2) : q2[k] \in Nat /\ a + 1 < q2[k] /\ q2[k] <= a + 2
  BY <1>1, <1>a DEF Grown
<1>d. \A k \in Len(q) + 1 .. Len(q2) : k \in Len(q) + 1 .. Len(q1) \/ k \in Len(q1) + 1 .. Len(q2)
  BY <1>a
<1>e. \A k \in 1 .. Len(q2) : q2[k] \in Nat
  BY <1>1
<1>3. \A k \in Len(q) + 1 .. Len(q2) : a < q2[k] /\ q2[k] <= a + 2
  <2> TAKE k \in Len(q) + 1 .. Len(q2)
  <2>0. q2[k] \in Nat
    BY <1>a, <1>e
  <2> QED
    BY <2>0, <1>b, <1>c, <1>d
<1>4. \A j, k \in Len(q) + 1 .. Len(q2) : j < k => q2[j] < q2[k]
  <2> TAKE j, k \in Len(q) + 1 .. Len(q2)
  <2> HAVE j < k
  <2>0. q2[j] \in Nat /\ q2[k] \in Nat
    BY <1>a, <1>e
  <2>1. CASE k \in Len(q) + 1 .. Len(q1)
    <3>1. j \in Len(q) + 1 .. Len(q1)
      BY <2>1, <1>a
    <3>2. q1[j] < q1[k]
      BY <2>1, <3>1 DEF Grown
    <3> QED
      BY <2>1, <3>1, <3>2, <1>b
  <2>2. CASE k \in Len(q1) + 1 .. Len(q2) /\ j \in Len(q) + 1 .. Len(q1)
    BY <2>0, <2>2, <1>b, <1>c
  <2>3. CASE k \in Len(q1) + 1 .. Len(q2) /\ j \in Len(q1) + 1 .. Len(q2)
    BY <2>3 DEF Grown
  <2> QED
    BY <1>d, <2>1, <2>2, <2>3
<1>5. c \subseteq c2 /\ c2 \subseteq c \union (a + 1 .. a + 2)
  BY DEF Grown
<1>6. \A e \in a + 1 .. a + 2 : e \in c2 \/ \E k \in 1 .. Len(q2) : q2[k] = e
  <2> SUFFICES ASSUME NEW e \in a + 1 .. a + 2
               PROVE  e \in c2 \/ \E k \in 1 .. Len(q2) : q2[k] = e
    OBVIOUS
  <2>1. CASE e = a + 1
    <3>1. e \in c1 \/ \E k \in 1 .. Len(q1) : q1[k] = e
      BY <2>1 DEF Grown
    <3> QED
      BY <3>1 DEF Grown
  <2>2. CASE e = a + 2
    BY <2>2 DEF Grown
  <2> QED
    BY <2>1, <2>2
<1> QED
  BY <1>1, <1>2, <1>3, <1>4, <1>5, <1>6 DEF Grown

(* Every queue grows by what is reported, or counts it.                       *)
LEMMA EmitGrows ==
  ASSUME AuditRouterAssumption, Shape, \A s \in Sinks : Len(queue[s]) <= QueueSize,
         NEW n \in 0 .. 2, NEW counts \in [Sinks -> SUBSET Nat],
         EmitCounting(n, counts)
  PROVE  /\ emitted' \in Nat /\ emitted <= emitted' /\ (router = "off" => emitted' = emitted)
         /\ queue' \in [Sinks -> Seq(Nat)] /\ counted' \in [Sinks -> SUBSET Nat]
         /\ \A s \in Sinks : Grown(queue[s], counts[s], queue'[s], counted'[s], emitted, emitted')
         /\ router = "off" => queue' = queue
<1> USE DEF AuditRouterAssumption, Shape
<1> DEFINE st == [queue |-> queue, counted |-> counts]
           First == PutAll(st, emitted + 1)
           Second == PutAll(First, emitted + 2)
<1>0. emitted \in Nat /\ QueueSize \in Nat
  OBVIOUS
<1>1. CASE router = "off"
  BY <1>1, NothingGrows DEF EmitCounting
<1>2. CASE router # "off" /\ n = 0
  <2>1. queue' = queue /\ counted' = counts /\ emitted' = emitted
    BY <1>2 DEF EmitCounting, PutNext
  <2> QED
    BY <1>2, <2>1, NothingGrows
<1>3. \A s \in Sinks : /\ First.queue[s] = Put(queue[s], emitted + 1)
                       /\ First.counted[s] = counts[s] \union (IF Len(queue[s]) >= QueueSize
                                                               THEN {emitted + 1} ELSE {})
  BY DEF PutAll, Refusing
<1>4. \A s \in Sinks : Grown(queue[s], counts[s], First.queue[s], First.counted[s], emitted, emitted + 1)
  <2> TAKE s \in Sinks
  <2>1. queue[s] \in Seq(Nat) /\ Len(queue[s]) <= QueueSize /\ counts[s] \in SUBSET Nat
    OBVIOUS
  <2> HIDE DEF First, Shape, AuditRouterAssumption
  <2>2. Grown(queue[s], counts[s], Put(queue[s], emitted + 1),
              counts[s] \union (IF Len(queue[s]) >= QueueSize THEN {emitted + 1} ELSE {}),
              emitted, emitted + 1)
    BY <2>1, <1>0, PutGrows
  <2> QED
    BY <2>2, <1>3
<1>5. /\ DOMAIN First.queue = Sinks /\ First.queue = [s \in Sinks |-> First.queue[s]]
      /\ DOMAIN First.counted = Sinks /\ First.counted = [s \in Sinks |-> First.counted[s]]
  BY DEF PutAll
<1>6. First.queue \in [Sinks -> Seq(Nat)] /\ First.counted \in [Sinks -> SUBSET Nat]
  <2>1. \A s \in Sinks : First.queue[s] \in Seq(Nat) /\ First.counted[s] \in SUBSET Nat
    <3> TAKE s \in Sinks
    <3>1. counts[s] \in SUBSET Nat
      OBVIOUS
    <3> HIDE DEF First
    <3> QED
      BY <3>1, <1>0, <1>4 DEF Grown
  <2> HIDE DEF First
  <2> QED
    BY <2>1, <1>5
<1>7. CASE router # "off" /\ n = 1
  <2>1. queue' = First.queue /\ counted' = First.counted /\ emitted' = emitted + 1
    BY <1>7 DEF EmitCounting, PutNext
  <2> HIDE DEF First
  <2> QED
    BY <1>0, <1>4, <1>6, <1>7, <2>1
<1>8. CASE router # "off" /\ n = 2
  <2>1. queue' = Second.queue /\ counted' = Second.counted /\ emitted' = emitted + 2
    BY <1>8 DEF EmitCounting, PutNext
  <2>2. \A s \in Sinks : /\ Second.queue[s] = Put(First.queue[s], emitted + 2)
                         /\ Second.counted[s] = First.counted[s] \union
                              (IF Len(First.queue[s]) >= QueueSize THEN {emitted + 2} ELSE {})
    BY DEF PutAll, Refusing
  <2>3. /\ DOMAIN Second.queue = Sinks /\ Second.queue = [s \in Sinks |-> Second.queue[s]]
        /\ DOMAIN Second.counted = Sinks /\ Second.counted = [s \in Sinks |-> Second.counted[s]]
    BY DEF PutAll
  <2> HIDE DEF First, Second
  <2>4. \A s \in Sinks : Grown(queue[s], counts[s], Second.queue[s], Second.counted[s], emitted, emitted + 2)
    <3> TAKE s \in Sinks
    <3>1. First.queue[s] \in Seq(Nat) /\ Len(First.queue[s]) <= QueueSize /\ First.counted[s] \in SUBSET Nat
      BY <1>4, <1>6 DEF Grown
    <3> HIDE DEF Shape, AuditRouterAssumption
    <3>2. emitted + 2 = (emitted + 1) + 1 /\ emitted + 1 \in Nat
      BY <1>0
    <3>a. Grown(First.queue[s], First.counted[s], Put(First.queue[s], (emitted + 1) + 1),
                First.counted[s] \union
                  (IF Len(First.queue[s]) >= QueueSize THEN {(emitted + 1) + 1} ELSE {}),
                emitted + 1, (emitted + 1) + 1)
      BY <1>0, <3>1, <3>2, PutGrows
    <3>3. Grown(First.queue[s], First.counted[s], Second.queue[s], Second.counted[s], emitted + 1, emitted + 2)
      BY <2>2, <3>2, <3>a
    <3>4. queue[s] \in Seq(Nat) /\ counts[s] \in SUBSET Nat
      BY DEF Shape
    <3> QED
      BY <1>0, <1>4, <3>3, <3>4, GrowsOn
  <2>5. \A s \in Sinks : Second.queue[s] \in Seq(Nat) /\ Second.counted[s] \in SUBSET Nat
    <3> TAKE s \in Sinks
    <3>1. counts[s] \in SUBSET Nat
      OBVIOUS
    <3> QED
      BY <3>1, <1>0, <2>4 DEF Grown
  <2> QED
    BY <1>0, <1>8, <2>1, <2>3, <2>4, <2>5
<1> QED
  BY <1>1, <1>2, <1>7, <1>8

-----------------------------------------------------------------------------
(* One sink.  The lemmas speak of a queue q of length n, so that no sequence  *)
(* is in the way.                                                             *)

Longer(q, n, q2, n2, a, b) ==
  /\ n <= n2
  /\ \A k \in 1 .. n : q2[k] = q[k]
  /\ \A k \in n + 1 .. n2 : q2[k] \in Nat /\ a < q2[k] /\ q2[k] <= b
  /\ \A j, k \in n + 1 .. n2 : j < k => q2[j] < q2[k]

Noted(c, q2, n2, c2, a, b) ==
  c \subseteq c2 /\ \A e \in a + 1 .. b : e \in c2 \/ \E k \in 1 .. n2 : q2[k] = e

(* What the two say together, and what is noted of the events.                *)
LEMMA GrownIsLonger ==
  ASSUME NEW q \in Seq(Nat), NEW q2 \in Seq(Nat), NEW c, NEW c2, NEW a \in Nat, NEW b \in Nat,
         Grown(q, c, q2, c2, a, b)
  PROVE  /\ Longer(q, Len(q), q2, Len(q2), a, b)
         /\ Len(q2) <= QueueSize /\ Noted(c, q2, Len(q2), c2, a, b)
<1>1. Len(q) \in Nat /\ Len(q2) \in Nat
  OBVIOUS
<1>2. \A k \in 1 .. Len(q2) : q2[k] \in Nat
  OBVIOUS
<1>3. \A k \in Len(q) + 1 .. Len(q2) : k \in 1 .. Len(q2)
  BY <1>1
<1> QED
  BY <1>1, <1>2, <1>3 DEF Grown, Longer, Noted

(* A queue that takes what is reported stays in order.                        *)
LEMMA LinedGrows ==
  ASSUME NEW q, NEW n \in Nat, NEW q2, NEW n2 \in Nat, NEW w \in Nat, NEW a \in Nat, NEW b \in Nat,
         NEW sl \in 0 .. a, a <= b, Lined(q, n, w, a, sl), Longer(q, n, q2, n2, a, b)
  PROVE  Lined(q2, n2, w, b, sl)
<1>1. \A k \in 1 .. n2 : k \in 1 .. n \/ k \in n + 1 .. n2
  BY DEF Longer
<1>2. \A k \in 1 .. n2 : q2[k] \in Nat /\ q2[k] <= b /\ (q2[k] # 0 => w < q2[k])
  <2> SUFFICES ASSUME NEW k \in 1 .. n2
               PROVE  q2[k] \in Nat /\ q2[k] <= b /\ (q2[k] # 0 => w < q2[k])
    OBVIOUS
  <2>1. CASE k \in 1 .. n
    <3>1. q2[k] = q[k] /\ q[k] \in Nat /\ q[k] <= a /\ (q[k] # 0 => w < q[k])
      BY <2>1 DEF Lined, Longer
    <3> QED
      BY <3>1
  <2>2. CASE k \in n + 1 .. n2
    <3>1. q2[k] \in Nat /\ a < q2[k] /\ q2[k] <= b /\ w <= a
      BY <2>2 DEF Lined, Longer
    <3> QED
      BY <3>1
  <2> QED
    BY <1>1, <2>1, <2>2
<1>3. ASSUME NEW j \in 1 .. n2, NEW k \in 1 .. n2, j < k
      PROVE  /\ q2[j] # 0 /\ q2[k] # 0 => q2[j] < q2[k]
             /\ q2[j] = 0 => q2[k] > sl
  <2>1. CASE k \in 1 .. n
    <3>1. j \in 1 .. n
      BY <1>3, <2>1
    <3> QED
      BY <1>3, <2>1, <3>1 DEF Lined, Longer
  <2>2. CASE k \in n + 1 .. n2 /\ j \in 1 .. n
    <3>1. a < q2[k] /\ q2[k] \in Nat /\ q2[j] = q[j] /\ q[j] \in Nat /\ q[j] <= a
      BY <2>2 DEF Lined, Longer
    <3> QED
      BY <3>1
  <2>3. CASE k \in n + 1 .. n2 /\ j \in n + 1 .. n2
    <3>1. a < q2[j] /\ q2[j] \in Nat /\ q2[j] < q2[k] /\ q2[k] \in Nat
      BY <1>3, <2>3 DEF Longer
    <3> QED
      BY <3>1
  <2> QED
    BY <1>1, <2>1, <2>2, <2>3
<1>4. w <= b
  BY DEF Lined
<1> QED
  BY <1>2, <1>3, <1>4 DEF Lined

(* What is past stays past: new events are newer.                             *)
LEMMA PastGrows ==
  ASSUME NEW q, NEW n \in Nat, NEW q2, NEW n2 \in Nat, NEW w \in Nat, NEW a \in Nat, NEW b \in Nat,
         a <= b, Longer(q, n, q2, n2, a, b), NEW e \in Nat, Past(e, q, n, w, a)
  PROVE  Past(e, q2, n2, w, b)
<1>1. ASSUME NEW k \in 1 .. n2, q2[k] # 0 PROVE e < q2[k]
  <2>1. CASE k \in 1 .. n
    BY <1>1, <2>1 DEF Past, Longer
  <2>2. CASE k \in n + 1 .. n2
    <3>1. q2[k] \in Nat /\ a < q2[k] /\ e <= a
      BY <2>2 DEF Past, Longer
    <3> QED
      BY <3>1
  <2> QED
    BY <2>1, <2>2 DEF Longer
<1> QED
  BY <1>1 DEF Past

(* A worker that has ended leaves nothing older than the shutdown behind.     *)
LEMMA EndedGrows ==
  ASSUME NEW q, NEW n \in Nat, NEW q2, NEW n2 \in Nat, NEW w \in Nat, NEW a \in Nat, NEW b \in Nat,
         NEW sl \in 0 .. a, NEW mode, NEW ended \in BOOLEAN, NEW cancelled \in BOOLEAN,
         Longer(q, n, q2, n2, a, b), mode = "off" => n2 = n,
         Ended(q, n, w, mode, ended, cancelled, sl)
  PROVE  Ended(q2, n2, w, mode, ended, cancelled, sl)
<1>1. ASSUME NEW k \in 1 .. n2 PROVE (k \in 1 .. n /\ q2[k] = q[k]) \/ (q2[k] \in Nat /\ q2[k] > a)
  <2>1. k \in 1 .. n \/ k \in n + 1 .. n2
    BY DEF Longer
  <2> QED
    BY <2>1 DEF Longer
<1>2. ended /\ ~cancelled => \A k \in 1 .. n2 : q2[k] > sl
  <2> SUFFICES ASSUME ended, ~cancelled, NEW k \in 1 .. n2 PROVE q2[k] > sl
    OBVIOUS
  <2>1. k \in 1 .. n => q[k] > sl
    BY DEF Ended
  <2> QED
    BY <1>1, <2>1
<1>3. mode = "on" => \A k \in 1 .. n2 : q2[k] # 0
  BY <1>1 DEF Ended
<1> QED
  BY <1>2, <1>3 DEF Ended

(* What is reported is in the queue or counted.                               *)
LEMMA AccountedGrows ==
  ASSUME NEW q, NEW n \in Nat, NEW q2, NEW n2 \in Nat, NEW w, NEW ok, NEW no, NEW no2,
         NEW a \in Nat, NEW b \in Nat, a <= b, NEW sl \in 0 .. a, NEW on \in BOOLEAN,
         Longer(q, n, q2, n2, a, b), Noted(no, q2, n2, no2, a, b),
         Accounted(q, n, w, ok, no, IF on THEN a ELSE sl)
  PROVE  Accounted(q2, n2, w, ok, no2, IF on THEN b ELSE sl)
<1>1. \A k \in 1 .. n : k \in 1 .. n2 /\ q2[k] = q[k]
  BY DEF Longer
<1>2. CASE ~on
  BY <1>1, <1>2 DEF Accounted, Noted
<1>3. CASE on
  <2>1. \A e \in 1 .. b : e \in 1 .. a \/ e \in a + 1 .. b
    OBVIOUS
  <2> QED
    BY <1>1, <1>3, <2>1 DEF Accounted, Noted
<1> QED
  BY <1>2, <1>3

(* A sequence without its first element, one with another at its end, and one *)
(* that has got a sentinel if it got anything.                                *)
Rest(r, q, n) == \A k \in 1 .. n - 1 : r[k] = q[k + 1]
Added(r, q, n, e) == (\A k \in 1 .. n : r[k] = q[k]) /\ r[n + 1] = e
Sealing(r, q, n, n2) ==
  n2 \in {n, n + 1} /\ (\A k \in 1 .. n : r[k] = q[k]) /\ (n2 = n + 1 => r[n + 1] = 0)

(* The worker takes the next item, and ends with the sentinel.                *)
LEMMA SinkTakes ==
  ASSUME NEW q, NEW n \in Nat \ {0}, NEW r, NEW wr, NEW m \in Nat,
         NEW ok \in SUBSET Nat, NEW no, NEW lt \in SUBSET Nat, NEW mode,
         NEW cancelled \in BOOLEAN, NEW em \in Nat, NEW sl \in 0 .. em,
         Rest(r, q, n),
         NEW ended \in BOOLEAN, ended <=> q[1] = 0, NEW before \in BOOLEAN, ~before,
         SinkOK(q, n, 0, wr, m, ok, no, lt, mode, before, cancelled, em, sl)
  PROVE  SinkOK(r, n - 1, q[1], wr, m, ok, no, lt, mode, ended, cancelled, em, sl)
<1> USE DEF Rest
<1>1. /\ Lined(q, n, 0, em, sl) /\ Behind(q, n, 0, wr, m, ok, lt, em)
      /\ Ended(q, n, 0, mode, before, cancelled, sl) /\ InOrder(wr, m, ok)
  BY DEF SinkOK
<1>2. 1 \in 1 .. n /\ q[1] \in Nat /\ q[1] <= em
  BY <1>1 DEF Lined
<1>3. \A k \in 1 .. n - 1 : /\ k + 1 \in 1 .. n /\ 1 < k + 1 /\ r[k] = q[k + 1]
                            /\ r[k] \in Nat /\ r[k] <= em
  BY <1>1 DEF Lined
<1>4. Lined(r, n - 1, q[1], em, sl)
  <2>1. ASSUME NEW k \in 1 .. n - 1, r[k] # 0 PROVE q[1] < r[k]
    <3>1. q[1] # 0 => q[1] < q[k + 1]
      BY <1>1, <1>2, <1>3, <2>1 DEF Lined
    <3> QED
      BY <1>2, <1>3, <2>1, <3>1
  <2>2. ASSUME NEW j \in 1 .. n - 1, NEW k \in 1 .. n - 1, j < k
        PROVE  /\ r[j] # 0 /\ r[k] # 0 => r[j] < r[k]
               /\ r[j] = 0 => r[k] > sl
    <3>1. j + 1 \in 1 .. n /\ k + 1 \in 1 .. n /\ j + 1 < k + 1
      BY <2>2
    <3>2. /\ q[j + 1] # 0 /\ q[k + 1] # 0 => q[j + 1] < q[k + 1]
          /\ q[j + 1] = 0 => q[k + 1] > sl
      BY <1>1, <3>1 DEF Lined
    <3> QED
      BY <1>3, <3>2
  <2> QED
    BY <1>2, <1>3, <2>1, <2>2 DEF Lined
<1>5. \A e \in Nat : Past(e, q, n, 0, em) => Past(e, r, n - 1, q[1], em)
  <2> SUFFICES ASSUME NEW e \in Nat, Past(e, q, n, 0, em) PROVE Past(e, r, n - 1, q[1], em)
    OBVIOUS
  <2>1. q[1] # 0 => e < q[1]
    BY <1>2 DEF Past
  <2>2. ASSUME NEW k \in 1 .. n - 1, r[k] # 0 PROVE e < r[k]
    <3>1. k + 1 \in 1 .. n /\ r[k] = q[k + 1]
      BY <1>3
    <3> QED
      BY <2>2, <3>1 DEF Past
  <2>3. e # 0 /\ e <= em
    BY DEF Past
  <2> QED
    BY <2>1, <2>2, <2>3 DEF Past
<1>6. Behind(r, n - 1, q[1], wr, m, ok, lt, em)
  BY <1>1, <1>5 DEF Behind
<1>7. Ended(r, n - 1, q[1], mode, ended, cancelled, sl)
  <2>1. mode # "closing" /\ mode # "off"
    BY <1>1 DEF Ended
  <2>2. mode = "on" => ~cancelled /\ q[1] # 0 /\ \A k \in 1 .. n - 1 : r[k] # 0
    BY <1>1, <1>2, <1>3 DEF Ended
  <2>3. q[1] = 0 => \A k \in 1 .. n - 1 : r[k] > sl
    <3> SUFFICES ASSUME q[1] = 0, NEW k \in 1 .. n - 1 PROVE r[k] > sl
      OBVIOUS
    <3>1. k + 1 \in 1 .. n /\ 1 < k + 1 /\ r[k] = q[k + 1]
      BY <1>3
    <3> QED
      BY <1>1, <1>2, <3>1 DEF Lined
  <2> QED
    BY <2>1, <2>2, <2>3 DEF Ended
<1>8. ASSUME NEW to \in Nat, Accounted(q, n, 0, ok, no, to) PROVE Accounted(r, n - 1, q[1], ok, no, to)
  <2> SUFFICES ASSUME NEW e \in 1 .. to
               PROVE  (\E k \in 1 .. n - 1 : r[k] = e) \/ q[1] = e \/ e \in ok \/ e \in no
    BY DEF Accounted
  <2>1. CASE e \in ok \/ e \in no
    BY <2>1
  <2>2. CASE \E k \in 1 .. n : q[k] = e
    <3>1. PICK k \in 1 .. n : q[k] = e
      BY <2>2
    <3>2. CASE k # 1
      <4>1. k - 1 \in 1 .. n - 1 /\ (k - 1) + 1 = k
        BY <3>2
      <4>2. r[k - 1] = e
        BY <3>1, <4>1
      <4> QED
        BY <4>1, <4>2
    <3> QED
      BY <3>1, <3>2
  <2> QED
    BY <1>8, <2>1, <2>2 DEF Accounted
<1>9. ~cancelled => Accounted(r, n - 1, q[1], ok, no, IF mode = "on" THEN em ELSE sl)
  <2>1. (IF mode = "on" THEN em ELSE sl) \in Nat
    OBVIOUS
  <2> QED
    BY <1>8, <2>1 DEF SinkOK
<1> QED
  BY <1>1, <1>4, <1>6, <1>7, <1>9 DEF SinkOK

(* A write reaches the sink.                                                  *)
LEMMA SinkWrites ==
  ASSUME NEW q, NEW n \in Nat, NEW w \in Nat \ {0}, NEW wr, NEW wr2, NEW m \in Nat,
         NEW ok \in SUBSET Nat, NEW no, NEW lt \in SUBSET Nat, NEW mode,
         NEW ended \in BOOLEAN, NEW cancelled \in BOOLEAN, NEW em \in Nat, NEW sl \in 0 .. em,
         Added(wr2, wr, m, w),
         SinkOK(q, n, w, wr, m, ok, no, lt, mode, ended, cancelled, em, sl)
  PROVE  SinkOK(q, n, 0, wr2, m + 1, ok \union {w}, no, lt, mode, ended, cancelled, em, sl)
<1> USE DEF Added
<1>1. /\ Lined(q, n, w, em, sl) /\ Behind(q, n, w, wr, m, ok, lt, em)
      /\ Ended(q, n, w, mode, ended, cancelled, sl) /\ InOrder(wr, m, ok)
  BY DEF SinkOK
<1>2. Lined(q, n, 0, em, sl)
  BY <1>1 DEF Lined
<1>3. Past(w, q, n, 0, em)
  BY <1>1 DEF Lined, Past
<1>4. \A e \in Nat : Past(e, q, n, w, em) => Past(e, q, n, 0, em) /\ e < w
  BY DEF Past
<1>5. w \notin lt
  BY <1>1, <1>4 DEF Behind
<1>6. \A k \in 1 .. m + 1 : k \in 1 .. m \/ k = m + 1
  OBVIOUS
<1>7. Behind(q, n, 0, wr2, m + 1, ok \union {w}, lt, em)
  <2>1. ASSUME NEW k \in 1 .. m + 1 PROVE wr2[k] \in Nat /\ Past(wr2[k], q, n, 0, em) /\ wr2[k] \notin lt
    <3>1. CASE k \in 1 .. m
      BY <1>1, <1>4, <3>1 DEF Behind
    <3>2. CASE k = m + 1
      BY <1>3, <1>5, <3>2
    <3> QED
      BY <1>6, <3>1, <3>2
  <2>2. \A e \in ok \union {w} : Past(e, q, n, 0, em) /\ e \notin lt
    BY <1>1, <1>3, <1>4, <1>5 DEF Behind
  <2>3. \A e \in lt : Past(e, q, n, 0, em)
    BY <1>1, <1>4 DEF Behind
  <2> QED
    BY <2>1, <2>2, <2>3 DEF Behind
<1>8. Ended(q, n, 0, mode, ended, cancelled, sl)
  BY <1>1 DEF Ended
<1>9. \A to : Accounted(q, n, w, ok, no, to) => Accounted(q, n, 0, ok \union {w}, no, to)
  BY DEF Accounted
<1>10. InOrder(wr2, m + 1, ok \union {w})
  <2> SUFFICES ASSUME NEW j \in 1 .. m + 1, NEW k \in 1 .. m + 1, j < k
               PROVE  /\ wr2[j] # wr2[k]
                      /\ wr2[j] \in ok \union {w} /\ wr2[k] \in ok \union {w} => wr2[j] < wr2[k]
    BY DEF InOrder
  <2>1. j \in 1 .. m /\ wr2[j] = wr[j]
    OBVIOUS
  <2>2. wr[j] \in Nat /\ wr[j] < w
    BY <1>1, <1>4, <2>1 DEF Behind
  <2>3. CASE k = m + 1
    BY <2>1, <2>2, <2>3
  <2>4. CASE k \in 1 .. m
    <3>1. wr2[k] = wr[k] /\ wr[k] \in Nat /\ wr[k] < w
      BY <1>1, <1>4, <2>4 DEF Behind
    <3>2. wr[j] # wr[k] /\ (wr[j] \in ok /\ wr[k] \in ok => wr[j] < wr[k])
      BY <1>1, <2>1, <2>4 DEF InOrder
    <3> QED
      BY <2>1, <2>2, <3>1, <3>2
  <2> QED
    BY <1>6, <2>3, <2>4
<1> QED
  BY <1>2, <1>7, <1>8, <1>9, <1>10 DEF SinkOK

Lately(lt2, lt, w) == lt2 \subseteq lt \union {w}

(* A write fails, or is given up and may still land: then it is late.         *)
LEMMA SinkGivesUp ==
  ASSUME NEW q, NEW n \in Nat, NEW w \in Nat \ {0}, NEW wr, NEW m \in Nat,
         NEW ok \in SUBSET Nat, NEW no, NEW lt \in SUBSET Nat, NEW lt2, Lately(lt2, lt, w),
         NEW mode, NEW ended \in BOOLEAN, NEW cancelled \in BOOLEAN,
         NEW em \in Nat, NEW sl \in 0 .. em,
         SinkOK(q, n, w, wr, m, ok, no, lt, mode, ended, cancelled, em, sl)
  PROVE  SinkOK(q, n, 0, wr, m, ok, no \union {w}, lt2, mode, ended, cancelled, em, sl)
<1> USE DEF Lately
<1>1. /\ Lined(q, n, w, em, sl) /\ Behind(q, n, w, wr, m, ok, lt, em)
      /\ Ended(q, n, w, mode, ended, cancelled, sl) /\ InOrder(wr, m, ok)
  BY DEF SinkOK
<1>2. Lined(q, n, 0, em, sl)
  BY <1>1 DEF Lined
<1>3. Past(w, q, n, 0, em)
  BY <1>1 DEF Lined, Past
<1>4. \A e \in Nat : Past(e, q, n, w, em) => Past(e, q, n, 0, em) /\ e # w
  BY DEF Past
<1>5. Behind(q, n, 0, wr, m, ok, lt2, em)
  BY <1>1, <1>3, <1>4 DEF Behind
<1>6. Ended(q, n, 0, mode, ended, cancelled, sl)
  BY <1>1 DEF Ended
<1>7. \A to : Accounted(q, n, w, ok, no, to) => Accounted(q, n, 0, ok, no \union {w}, to)
  BY DEF Accounted
<1> QED
  BY <1>1, <1>2, <1>5, <1>6, <1>7 DEF SinkOK

(* What was given up lands after all.                                         *)
LEMMA SinkLands ==
  ASSUME NEW q, NEW n \in Nat, NEW w \in Nat, NEW wr, NEW wr2, NEW m \in Nat,
         NEW ok \in SUBSET Nat, NEW no, NEW lt \in SUBSET Nat, NEW l \in lt, NEW mode,
         NEW ended \in BOOLEAN, NEW cancelled \in BOOLEAN, NEW em \in Nat, NEW sl \in 0 .. em,
         Added(wr2, wr, m, l),
         SinkOK(q, n, w, wr, m, ok, no, lt, mode, ended, cancelled, em, sl)
  PROVE  SinkOK(q, n, w, wr2, m + 1, ok, no, lt \ {l}, mode, ended, cancelled, em, sl)
<1> USE DEF Added
<1>1. Behind(q, n, w, wr, m, ok, lt, em) /\ InOrder(wr, m, ok)
  BY DEF SinkOK
<1>2. \A k \in 1 .. m + 1 : k \in 1 .. m \/ k = m + 1
  OBVIOUS
<1>3. Behind(q, n, w, wr2, m + 1, ok, lt \ {l}, em)
  <2>1. ASSUME NEW k \in 1 .. m + 1
        PROVE  wr2[k] \in Nat /\ Past(wr2[k], q, n, w, em) /\ wr2[k] \notin lt \ {l}
    <3>1. CASE k \in 1 .. m
      BY <1>1, <3>1 DEF Behind
    <3>2. CASE k = m + 1
      BY <1>1, <3>2 DEF Behind
    <3> QED
      BY <1>2, <3>1, <3>2
  <2> QED
    BY <1>1, <2>1 DEF Behind
<1>4. InOrder(wr2, m + 1, ok)
  <2> SUFFICES ASSUME NEW j \in 1 .. m + 1, NEW k \in 1 .. m + 1, j < k
               PROVE  /\ wr2[j] # wr2[k]
                      /\ wr2[j] \in ok /\ wr2[k] \in ok => wr2[j] < wr2[k]
    BY DEF InOrder
  <2>1. j \in 1 .. m /\ wr2[j] = wr[j] /\ wr[j] \notin lt
    BY <1>1 DEF Behind
  <2>2. CASE k = m + 1
    BY <1>1, <2>1, <2>2 DEF Behind
  <2>3. CASE k \in 1 .. m
    BY <1>1, <2>1, <2>3 DEF InOrder
  <2> QED
    BY <1>2, <2>2, <2>3
<1> QED
  BY <1>3, <1>4 DEF SinkOK

(* The shutdown begins; the queue gets its sentinel, or is full.              *)
LEMMA SinkStops ==
  ASSUME NEW q, NEW n \in Nat, NEW q2, NEW n2, NEW w \in Nat, NEW wr, NEW m \in Nat,
         NEW ok \in SUBSET Nat, NEW no, NEW lt \in SUBSET Nat,
         NEW ended \in BOOLEAN, NEW cancelled \in BOOLEAN, NEW em \in Nat, NEW sl \in 0 .. em,
         Sealing(q2, q, n, n2),
         SinkOK(q, n, w, wr, m, ok, no, lt, "on", ended, cancelled, em, sl)
  PROVE  SinkOK(q2, n2, w, wr, m, ok, no, lt, "stopping", ended, cancelled, em, em)
<1> USE DEF Sealing
<1>1. /\ Lined(q, n, w, em, sl) /\ Behind(q, n, w, wr, m, ok, lt, em)
      /\ Ended(q, n, w, "on", ended, cancelled, sl) /\ InOrder(wr, m, ok)
      /\ Accounted(q, n, w, ok, no, em) /\ ~cancelled /\ ~ended
  BY DEF SinkOK, Ended
<1>2. ASSUME NEW k \in 1 .. n2
      PROVE  \/ k \in 1 .. n /\ q2[k] = q[k] /\ q2[k] # 0
             \/ k = n + 1 /\ q2[k] = 0
  <2>1. k \in 1 .. n \/ (k = n + 1 /\ n2 = n + 1)
    OBVIOUS
  <2>2. k \in 1 .. n => q[k] # 0
    BY <1>1 DEF Ended
  <2> QED
    BY <2>1, <2>2
<1>3. Lined(q2, n2, w, em, em)
  <2>1. ASSUME NEW j \in 1 .. n2, NEW k \in 1 .. n2, j < k
        PROVE  /\ q2[j] # 0 /\ q2[k] # 0 => q2[j] < q2[k]
               /\ q2[j] # 0
    <3>1. j \in 1 .. n /\ q2[j] = q[j] /\ q2[j] # 0
      BY <1>2, <2>1
    <3> QED
      BY <1>1, <1>2, <2>1, <3>1 DEF Lined
  <2>2. \A k \in 1 .. n2 : q2[k] \in Nat /\ q2[k] <= em /\ (q2[k] # 0 => w < q2[k])
    BY <1>1, <1>2 DEF Lined
  <2>3. w <= em
    BY <1>1 DEF Lined
  <2> QED
    BY <2>1, <2>2, <2>3 DEF Lined
<1>4. \A e \in Nat : Past(e, q, n, w, em) => Past(e, q2, n2, w, em)
  BY <1>2 DEF Past
<1>5. Behind(q2, n2, w, wr, m, ok, lt, em)
  BY <1>1, <1>4 DEF Behind
<1>6. Ended(q2, n2, w, "stopping", ended, cancelled, em)
  BY <1>1 DEF Ended
<1>7. Accounted(q2, n2, w, ok, no, em)
  <2>1. \A k \in 1 .. n : k \in 1 .. n2
    OBVIOUS
  <2> QED
    BY <1>1, <2>1 DEF Accounted
<1> QED
  BY <1>1, <1>3, <1>5, <1>6, <1>7 DEF SinkOK

(* What is late when the worker is cancelled.                                 *)
Overdue(lt2, lt, w) == lt2 = IF w # 0 THEN lt \union {w} ELSE lt

(* The deadline cancels a worker; the write it was in may still land.         *)
LEMMA SinkIsCut ==
  ASSUME NEW q, NEW n \in Nat, NEW w \in Nat, NEW wr, NEW m \in Nat,
         NEW ok \in SUBSET Nat, NEW no, NEW lt \in SUBSET Nat, NEW lt2,
         Overdue(lt2, lt, w),
         NEW ended \in BOOLEAN, NEW cancelled \in BOOLEAN, NEW em \in Nat, NEW sl \in 0 .. em,
         SinkOK(q, n, w, wr, m, ok, no, lt, "stopping", ended, cancelled, em, sl)
  PROVE  Lined(q, n, 0, em, sl) /\ Behind(q, n, 0, wr, m, ok, lt2, em) /\ InOrder(wr, m, ok)
<1> USE DEF Overdue
<1>1. /\ Lined(q, n, w, em, sl) /\ Behind(q, n, w, wr, m, ok, lt, em) /\ InOrder(wr, m, ok)
  BY DEF SinkOK
<1>2. Lined(q, n, 0, em, sl)
  BY <1>1 DEF Lined
<1>3. w # 0 => Past(w, q, n, 0, em)
  BY <1>1 DEF Lined, Past
<1>4. \A e \in Nat : Past(e, q, n, w, em) => Past(e, q, n, 0, em) /\ e # w
  BY DEF Past
<1>5. Behind(q, n, 0, wr, m, ok, lt2, em)
  <2>1. CASE w = 0
    BY <1>1, <2>1
  <2>2. CASE w # 0
    BY <1>1, <1>3, <1>4, <2>2 DEF Behind
  <2> QED
    BY <2>1, <2>2
<1> QED
  BY <1>1, <1>2, <1>5


(* The queues go away.  What is lost was reported during the shutdown.        *)
LEMMA SinkCloses ==
  ASSUME NEW q, NEW n \in Nat, NEW q2, NEW w \in Nat, NEW wr, NEW m \in Nat,
         NEW ok \in SUBSET Nat, NEW no, NEW lt \in SUBSET Nat,
         NEW ended \in BOOLEAN, NEW cancelled \in BOOLEAN, NEW em \in Nat, NEW sl \in 0 .. em,
         SinkOK(q, n, w, wr, m, ok, no, lt, "closing", ended, cancelled, em, sl)
  PROVE  SinkOK(q2, 0, w, wr, m, ok, no, lt, "off", ended, cancelled, em, sl)
<1>1. /\ Lined(q, n, w, em, sl) /\ Behind(q, n, w, wr, m, ok, lt, em)
      /\ Ended(q, n, w, "closing", ended, cancelled, sl) /\ InOrder(wr, m, ok)
      /\ ~cancelled => Accounted(q, n, w, ok, no, sl)
  BY DEF SinkOK
<1>2. ended /\ w = 0
  BY <1>1 DEF Ended
<1>3. Lined(q2, 0, w, em, sl)
  BY <1>1 DEF Lined
<1>4. Behind(q2, 0, w, wr, m, ok, lt, em)
  BY <1>1 DEF Behind, Past
<1>5. Ended(q2, 0, w, "off", ended, cancelled, sl)
  BY <1>2 DEF Ended
<1>6. ~cancelled => Accounted(q2, 0, w, ok, no, sl)
  <2> SUFFICES ASSUME ~cancelled, NEW e \in 1 .. sl PROVE w = e \/ e \in ok \/ e \in no
    BY DEF Accounted
  <2>1. (\E k \in 1 .. n : q[k] = e) \/ w = e \/ e \in ok \/ e \in no
    BY <1>1 DEF Accounted
  <2>2. \A k \in 1 .. n : q[k] > sl
    BY <1>1, <1>2 DEF Ended
  <2> QED
    BY <2>1, <2>2
<1> QED
  BY <1>1, <1>3, <1>4, <1>5, <1>6 DEF SinkOK

-----------------------------------------------------------------------------
(* The router: every operation preserves the invariant of every sink.         *)

(* What the lemmas above ask of the variables of a sink.                      *)
LEMMA OneSink ==
  ASSUME AuditInv, NEW s \in Sinks
  PROVE  /\ queue[s] \in Seq(Nat) /\ Len(queue[s]) \in Nat /\ Len(queue[s]) <= QueueSize
         /\ worker[s] \in Nat /\ written[s] \in Seq(Nat) /\ Len(written[s]) \in Nat
         /\ confirmed[s] \in SUBSET Nat /\ counted[s] \in SUBSET Nat /\ late[s] \in SUBSET Nat
         /\ (s \in gone) \in BOOLEAN /\ (s \in cut) \in BOOLEAN
         /\ emitted \in Nat /\ sealed \in 0 .. emitted
         /\ SinkOK(queue[s], Len(queue[s]), worker[s], written[s], Len(written[s]), confirmed[s],
                   counted[s], late[s], router, s \in gone, s \in cut, emitted, sealed)
<1>1. queue[s] \in Seq(Nat) /\ written[s] \in Seq(Nat)
  BY DEF AuditInv, Shape
<1>2. Len(queue[s]) \in Nat /\ Len(written[s]) \in Nat
  BY <1>1, LenProperties
<1> QED
  BY <1>1, <1>2 DEF AuditInv, Shape, SinkInv

(* A step that changes a sink and then reports events, counting "counts".     *)
LEMMA ReportingKeeps ==
  ASSUME AuditRouterAssumption, AuditInv, NEW n \in 0 .. 2, NEW counts \in [Sinks -> SUBSET Nat],
         EmitCounting(n, counts),
         UNCHANGED <<router, gone, open, sealed, cut>>,
         worker' \in [Sinks -> Nat], written' \in [Sinks -> Seq(Nat)],
         confirmed' \in [Sinks -> SUBSET Nat], late' \in [Sinks -> SUBSET Nat],
         \A s \in Sinks :
           SinkOK(queue[s], Len(queue[s]), worker'[s], written'[s], Len(written'[s]), confirmed'[s],
                  counts[s], late'[s], router, s \in gone, s \in cut, emitted, sealed)
  PROVE  AuditInv'
<1>1. Shape /\ \A s \in Sinks : Len(queue[s]) <= QueueSize
  BY DEF AuditInv, SinkInv
<1>2. /\ emitted' \in Nat /\ emitted <= emitted' /\ (router = "off" => emitted' = emitted)
      /\ queue' \in [Sinks -> Seq(Nat)] /\ counted' \in [Sinks -> SUBSET Nat]
      /\ \A s \in Sinks : Grown(queue[s], counts[s], queue'[s], counted'[s], emitted, emitted')
      /\ router = "off" => queue' = queue
  BY <1>1, EmitGrows
<1>3. Shape'
  BY <1>1, <1>2 DEF Shape
<1>4. ASSUME NEW s \in Sinks PROVE SinkInv(s)'
  <2> DEFINE q == queue[s]  q2 == queue'[s]  w == worker'[s]  wr == written'[s]  ok == confirmed'[s]
             no == counts[s]  no2 == counted'[s]  lt == late'[s]
             ended == s \in gone  cancelled == s \in cut
  <2>1. /\ q \in Seq(Nat) /\ q2 \in Seq(Nat) /\ wr \in Seq(Nat) /\ w \in Nat
        /\ ok \in SUBSET Nat /\ lt \in SUBSET Nat
        /\ emitted \in Nat /\ emitted' \in Nat /\ emitted <= emitted' /\ sealed \in 0 .. emitted
        /\ ended \in BOOLEAN /\ cancelled \in BOOLEAN
    BY <1>1, <1>2, <1>4 DEF Shape
  <2>2. Len(q) \in Nat /\ Len(q2) \in Nat /\ Len(wr) \in Nat
    BY <2>1, LenProperties
  <2>3. /\ Grown(q, no, q2, no2, emitted, emitted')
        /\ SinkOK(q, Len(q), w, wr, Len(wr), ok, no, lt, router, ended, cancelled, emitted, sealed)
    BY <1>2, <1>4
  <2>4. router = "off" => Len(q2) = Len(q)
    BY <1>2
  <2> DEFINE n1 == Len(q)  n2 == Len(q2)  m == Len(wr)
  <2>5. /\ Longer(q, n1, q2, n2, emitted, emitted')
        /\ n2 <= QueueSize /\ Noted(no, q2, n2, no2, emitted, emitted')
    <3> HIDE DEF q, q2, no, no2
    <3> QED
      BY <2>1, <2>3, GrownIsLonger
  <2>6. /\ Lined(q, n1, w, emitted, sealed) /\ Behind(q, n1, w, wr, m, ok, lt, emitted)
        /\ Ended(q, n1, w, router, ended, cancelled, sealed) /\ InOrder(wr, m, ok)
        /\ ~cancelled => Accounted(q, n1, w, ok, no, IF router = "on" THEN emitted ELSE sealed)
    BY <2>3 DEF SinkOK
  <2>7. n1 \in Nat /\ n2 \in Nat /\ (router = "off" => n2 = n1)
    BY <2>2, <2>4
  <2> DEFINE on == router = "on"
  <2>8. on \in BOOLEAN
    OBVIOUS
  <2>9. ~cancelled => Accounted(q, n1, w, ok, no, IF on THEN emitted ELSE sealed)
    BY <2>6
  <2> HIDE DEF q, q2, n1, n2, m, w, wr, ok, no, no2, lt, ended, cancelled, on
  <2>10. Lined(q2, n2, w, emitted', sealed)
    BY <2>1, <2>5, <2>6, <2>7, LinedGrows
  <2>11. Behind(q2, n2, w, wr, m, ok, lt, emitted')
    <3>1. \A e \in Nat : Past(e, q, n1, w, emitted) => Past(e, q2, n2, w, emitted')
      BY <2>1, <2>5, <2>7, PastGrows
    <3> QED
      BY <2>1, <2>6, <3>1 DEF Behind
  <2>12. Ended(q2, n2, w, router, ended, cancelled, sealed)
    BY <2>1, <2>5, <2>6, <2>7, EndedGrows
  <2>13. ~cancelled => Accounted(q2, n2, w, ok, no2, IF on THEN emitted' ELSE sealed)
    BY <2>1, <2>5, <2>7, <2>8, <2>9, AccountedGrows
  <2>14. SinkOK(q2, n2, w, wr, m, ok, no2, lt, router, ended, cancelled, emitted', sealed)
    BY <2>6, <2>10, <2>11, <2>12, <2>13 DEF SinkOK, on
  <2> QED
    BY <2>5, <2>14 DEF SinkInv, q, q2, n1, n2, m, w, wr, ok, no, no2, lt, ended, cancelled
<1> QED
  BY <1>3, <1>4 DEF AuditInv

(* A sink to which nothing happens.                                           *)
LEMMA OtherSink ==
  ASSUME AuditInv, NEW t \in Sinks,
         queue'[t] = queue[t], worker'[t] = worker[t], written'[t] = written[t],
         confirmed'[t] = confirmed[t], counted'[t] = counted[t], late'[t] = late[t],
         t \in gone' <=> t \in gone, t \in cut' <=> t \in cut,
         UNCHANGED <<router, emitted, sealed>>
  PROVE  SinkInv(t)'
<1>1. SinkInv(t)
  BY DEF AuditInv
<1> QED
  BY <1>1 DEF SinkInv, SinkOK, Ended

(* A worker takes the next item of its queue (router.py, _worker).            *)
LEMMA TakeKeeps ==
  ASSUME AuditInv, NEW s \in Sinks, Take(s)
  PROVE  AuditInv'
<1>1. /\ s \notin gone /\ worker[s] = 0 /\ queue[s] # <<>>
      /\ queue' = [queue EXCEPT ![s] = Tail(queue[s])]
      /\ worker' = [worker EXCEPT ![s] = Head(queue[s])]
      /\ gone' = IF Head(queue[s]) = 0 THEN gone \union {s} ELSE gone
      /\ UNCHANGED <<router, open, emitted, sealed, counted, confirmed, late, cut, written>>
  BY DEF Take, Busy, Getting, Sentinel, tallies
<1> DEFINE q == queue[s]  r == Tail(queue[s])  n == Len(queue[s])
<1>2. /\ q \in Seq(Nat) /\ n \in Nat /\ n <= QueueSize
  BY OneSink
<1>3. /\ r \in Seq(Nat) /\ n \in Nat \ {0} /\ Len(r) = n - 1 /\ Head(q) = q[1] /\ q[1] \in Nat
      /\ Rest(r, q, n)
  <2>1. q # <<>>
    BY <1>1
  <2>2. n # 0 /\ 1 \in 1 .. n
    BY <1>2, <2>1, EmptySeq
  <2>3. r \in Seq(Nat) /\ Len(r) = n - 1 /\ \A k \in 1 .. Len(r) : r[k] = q[k + 1]
    BY <1>2, <2>1, HeadTailProperties
  <2>4. Head(q) = q[1] /\ q[1] \in Nat /\ n \in Nat \ {0}
    BY <1>2, <2>1, <2>2
  <2> HIDE DEF q, r, n
  <2>5. Len(r) = n - 1 /\ 1 .. Len(r) = 1 .. n - 1
    BY <2>3
  <2> QED
    BY <2>3, <2>4, <2>5 DEF Rest
<1>4. Shape'
  <2>1. queue' \in [Sinks -> Seq(Nat)] /\ worker' \in [Sinks -> Nat] /\ gone' \subseteq Sinks
    BY <1>1, <1>3 DEF AuditInv, Shape
  <2> QED
    BY <1>1, <2>1 DEF AuditInv, Shape
<1>5. SinkInv(s)'
  <2> DEFINE wr == written[s]  m == Len(written[s])  ok == confirmed[s]  no == counted[s]
             lt == late[s]  cancelled == s \in cut  ended == s \in gone  stops == q[1] = 0
  <2>1. /\ m \in Nat /\ ok \in SUBSET Nat /\ lt \in SUBSET Nat /\ cancelled \in BOOLEAN
        /\ emitted \in Nat /\ sealed \in 0 .. emitted
        /\ ended \in BOOLEAN /\ ~ended /\ stops \in BOOLEAN /\ (stops <=> q[1] = 0)
    BY <1>1, OneSink
  <2>2. SinkOK(q, n, 0, wr, m, ok, no, lt, router, ended, cancelled, emitted, sealed)
    <3>1. SinkInv(s) /\ ~ended /\ worker[s] = 0
      BY <1>1 DEF AuditInv
    <3> QED
      BY <3>1 DEF SinkInv, SinkOK, Ended
  <2>3. SinkOK(r, n - 1, q[1], wr, m, ok, no, lt, router, stops, cancelled, emitted, sealed)
    <3> HIDE DEF q, r, n, wr, m, ok, no, lt, cancelled, ended, stops
    <3> QED
      BY <1>3, <2>1, <2>2, SinkTakes
  <2>4. /\ queue'[s] = r /\ Len(r) = n - 1 /\ worker'[s] = q[1]
        /\ written'[s] = wr /\ confirmed'[s] = ok /\ counted'[s] = no /\ late'[s] = lt
        /\ (s \in gone' <=> stops) /\ (s \in cut' <=> cancelled)
        /\ router' = router /\ emitted' = emitted /\ sealed' = sealed
    BY <1>1, <1>3 DEF AuditInv, Shape
  <2>5. n - 1 <= QueueSize
    <3>1. QueueSize \in Nat
      BY AuditRouterAssumption
    <3> QED
      BY <1>2, <3>1
  <2>6. Len(written'[s]) = m
    BY <2>4
  <2> HIDE DEF q, r, n, wr, m, ok, no, lt, cancelled, ended, stops
  <2> QED
    BY <2>3, <2>4, <2>5, <2>6 DEF SinkInv, SinkOK, Ended
<1>6. ASSUME NEW t \in Sinks \ {s} PROVE SinkInv(t)'
  <2>1. queue'[t] = queue[t] /\ worker'[t] = worker[t] /\ (t \in gone' <=> t \in gone)
    BY <1>1 DEF AuditInv, Shape
  <2> QED
    BY <1>1, <2>1, OtherSink
<1> QED
  BY <1>4, <1>5, <1>6 DEF AuditInv

(* What the sink reports of itself is nothing, or two events.                 *)
LEMMA EchoIsSmall ==
  ASSUME NEW s \in Sinks
  PROVE  Echo(s) \in 0 .. 2
  BY DEF Echo

(* A write succeeds, and the sink may report itself.                          *)
LEMMA WritesKeeps ==
  ASSUME AuditRouterAssumption, AuditInv, NEW s \in Sinks, Writes(s)
  PROVE  AuditInv'
<1>1. /\ worker[s] # 0
      /\ worker' = [worker EXCEPT ![s] = 0]
      /\ written' = [written EXCEPT ![s] = Append(written[s], worker[s])]
      /\ confirmed' = [confirmed EXCEPT ![s] = confirmed[s] \union {worker[s]}]
      /\ EmitCounting(Echo(s), counted)
      /\ UNCHANGED <<router, gone, open, sealed, late, cut>>
  BY DEF Writes, Busy, Getting
<1>2. /\ queue[s] \in Seq(Nat) /\ Len(queue[s]) \in Nat /\ worker[s] \in Nat \ {0}
      /\ written[s] \in Seq(Nat) /\ Len(written[s]) \in Nat
      /\ confirmed[s] \in SUBSET Nat /\ late[s] \in SUBSET Nat
      /\ (s \in gone) \in BOOLEAN /\ (s \in cut) \in BOOLEAN
      /\ emitted \in Nat /\ sealed \in 0 .. emitted
      /\ SinkOK(queue[s], Len(queue[s]), worker[s], written[s], Len(written[s]), confirmed[s],
                counted[s], late[s], router, s \in gone, s \in cut, emitted, sealed)
  BY <1>1, OneSink
<1>3. /\ worker' \in [Sinks -> Nat] /\ written' \in [Sinks -> Seq(Nat)]
      /\ confirmed' \in [Sinks -> SUBSET Nat] /\ late' \in [Sinks -> SUBSET Nat]
      /\ counted \in [Sinks -> SUBSET Nat]
  BY <1>1, <1>2 DEF AuditInv, Shape
<1>4. ASSUME NEW t \in Sinks
      PROVE  SinkOK(queue[t], Len(queue[t]), worker'[t], written'[t], Len(written'[t]), confirmed'[t],
                    counted[t], late'[t], router, t \in gone, t \in cut, emitted, sealed)
  <2>1. CASE t # s
    <3>1. /\ worker'[t] = worker[t] /\ written'[t] = written[t]
          /\ confirmed'[t] = confirmed[t] /\ late'[t] = late[t]
      BY <1>1, <2>1 DEF AuditInv, Shape
    <3>2. SinkOK(queue[t], Len(queue[t]), worker[t], written[t], Len(written[t]), confirmed[t],
                 counted[t], late[t], router, t \in gone, t \in cut, emitted, sealed)
      BY OneSink
    <3> QED
      BY <3>1, <3>2
  <2>2. CASE t = s
    <3> DEFINE q == queue[s]  n == Len(queue[s])  w == worker[s]  wr == written[s]
               m == Len(written[s])  ok == confirmed[s]  no == counted[s]  lt == late[s]
               ended == s \in gone  cancelled == s \in cut  wr2 == Append(written[s], worker[s])
    <3>1. Added(wr2, wr, m, w) /\ Len(wr2) = m + 1
      BY <1>2 DEF Added
    <3>2. SinkOK(q, n, 0, wr2, m + 1, ok \union {w}, no, lt, router, ended, cancelled, emitted, sealed)
      <4> HIDE DEF q, n, w, wr, m, ok, no, lt, ended, cancelled, wr2
      <4>1. /\ n \in Nat /\ w \in Nat \ {0} /\ m \in Nat /\ ok \in SUBSET Nat /\ lt \in SUBSET Nat
            /\ ended \in BOOLEAN /\ cancelled \in BOOLEAN /\ emitted \in Nat /\ sealed \in 0 .. emitted
            /\ SinkOK(q, n, w, wr, m, ok, no, lt, router, ended, cancelled, emitted, sealed)
        BY <1>2 DEF q, n, w, wr, m, ok, no, lt, ended, cancelled
      <4> QED
        BY <3>1, <4>1, SinkWrites
    <3>3. /\ worker'[s] = 0 /\ written'[s] = wr2 /\ confirmed'[s] = ok \union {w} /\ late'[s] = lt
      BY <1>1 DEF AuditInv, Shape
    <3>4. Len(written'[s]) = m + 1
      BY <3>1, <3>3
    <3> QED
      BY <2>2, <3>2, <3>3, <3>4
  <2> QED
    BY <2>1, <2>2
<1>5. Echo(s) \in 0 .. 2
  BY EchoIsSmall
<1> QED
  BY <1>1, <1>3, <1>4, <1>5, ReportingKeeps

(* A write fails, and the sink may report itself.                             *)
LEMMA FailsKeeps ==
  ASSUME AuditRouterAssumption, AuditInv, NEW s \in Sinks, Fails(s)
  PROVE  AuditInv'
<1>1. /\ worker[s] # 0
      /\ worker' = [worker EXCEPT ![s] = 0]
      /\ EmitCounting(Echo(s), Count(s))
      /\ UNCHANGED <<router, gone, open, sealed, confirmed, late, cut, written>>
      /\ Count(s) = [counted EXCEPT ![s] = counted[s] \union {worker[s]}]
  BY DEF Fails, Busy, Getting, tallies, Count
<1>2. /\ queue[s] \in Seq(Nat) /\ Len(queue[s]) \in Nat /\ worker[s] \in Nat \ {0}
      /\ written[s] \in Seq(Nat) /\ Len(written[s]) \in Nat
      /\ confirmed[s] \in SUBSET Nat /\ late[s] \in SUBSET Nat
      /\ (s \in gone) \in BOOLEAN /\ (s \in cut) \in BOOLEAN
      /\ emitted \in Nat /\ sealed \in 0 .. emitted
      /\ SinkOK(queue[s], Len(queue[s]), worker[s], written[s], Len(written[s]), confirmed[s],
                counted[s], late[s], router, s \in gone, s \in cut, emitted, sealed)
  BY <1>1, OneSink
<1>3. /\ worker' \in [Sinks -> Nat] /\ written' \in [Sinks -> Seq(Nat)]
      /\ confirmed' \in [Sinks -> SUBSET Nat] /\ late' \in [Sinks -> SUBSET Nat]
      /\ Count(s) \in [Sinks -> SUBSET Nat]
  BY <1>1, <1>2 DEF AuditInv, Shape
<1> DEFINE counts == Count(s)
<1>4. ASSUME NEW t \in Sinks
      PROVE  SinkOK(queue[t], Len(queue[t]), worker'[t], written'[t], Len(written'[t]), confirmed'[t],
                    counts[t], late'[t], router, t \in gone, t \in cut, emitted, sealed)
  <2>0. written' = written /\ confirmed' = confirmed /\ late' = late
    BY <1>1
  <2>1. CASE t # s
    <3>1. worker'[t] = worker[t] /\ counts[t] = counted[t]
      BY <1>1, <2>1 DEF AuditInv, Shape
    <3>2. SinkOK(queue[t], Len(queue[t]), worker[t], written[t], Len(written[t]), confirmed[t],
                 counted[t], late[t], router, t \in gone, t \in cut, emitted, sealed)
      BY OneSink
    <3> QED
      BY <2>0, <3>1, <3>2
  <2>2. CASE t = s
    <3> DEFINE q == queue[s]  n == Len(queue[s])  w == worker[s]  wr == written[s]
               m == Len(written[s])  ok == confirmed[s]  no == counted[s]  lt == late[s]
               ended == s \in gone  cancelled == s \in cut
    <3>2. SinkOK(q, n, 0, wr, m, ok, no \union {w}, lt, router, ended, cancelled, emitted, sealed)
      <4> HIDE DEF q, n, w, wr, m, ok, no, lt, ended, cancelled
      <4>1. /\ n \in Nat /\ w \in Nat \ {0} /\ m \in Nat /\ ok \in SUBSET Nat /\ lt \in SUBSET Nat
            /\ ended \in BOOLEAN /\ cancelled \in BOOLEAN /\ emitted \in Nat /\ sealed \in 0 .. emitted
            /\ SinkOK(q, n, w, wr, m, ok, no, lt, router, ended, cancelled, emitted, sealed)
        BY <1>2 DEF q, n, w, wr, m, ok, no, lt, ended, cancelled
      <4>2. Lately(lt, lt, w)
        BY DEF Lately
      <4> QED
        BY <4>1, <4>2, SinkGivesUp
    <3>3. worker'[s] = 0 /\ counts[s] = no \union {w}
      BY <1>1 DEF AuditInv, Shape
    <3> QED
      BY <2>0, <2>2, <3>2, <3>3
  <2> QED
    BY <2>1, <2>2
<1>5. Echo(s) \in 0 .. 2
  BY EchoIsSmall
<1> QED
  <2> HIDE DEF counts
  <2>1. EmitCounting(Echo(s), counts) /\ counts \in [Sinks -> SUBSET Nat]
    BY <1>1, <1>3 DEF counts
  <2> QED
    BY <1>1, <1>3, <1>4, <1>5, <2>1, ReportingKeeps

(* Somebody reports events (router.py, emit).                                 *)
LEMMA EmitKeeps ==
  ASSUME AuditRouterAssumption, AuditInv, NEW n \in 0 .. 2, Emit(n)
  PROVE  AuditInv'
<1>1. /\ EmitCounting(n, counted)
      /\ UNCHANGED <<router, worker, gone, open, sealed, confirmed, late, cut, written>>
  BY DEF Emit, tallies
<1>2. /\ worker' \in [Sinks -> Nat] /\ written' \in [Sinks -> Seq(Nat)]
      /\ confirmed' \in [Sinks -> SUBSET Nat] /\ late' \in [Sinks -> SUBSET Nat]
      /\ counted \in [Sinks -> SUBSET Nat]
  BY <1>1 DEF AuditInv, Shape
<1>3. \A t \in Sinks :
        SinkOK(queue[t], Len(queue[t]), worker'[t], written'[t], Len(written'[t]), confirmed'[t],
               counted[t], late'[t], router, t \in gone, t \in cut, emitted, sealed)
  BY <1>1, OneSink
<1> QED
  BY <1>1, <1>2, <1>3, ReportingKeeps
(* A write misses its deadline.                                               *)
LEMMA TimesOutKeeps ==
  ASSUME AuditInv, NEW s \in Sinks, TimesOut(s)
  PROVE  AuditInv'
<1>1. /\ worker[s] # 0
      /\ worker' = [worker EXCEPT ![s] = 0]
      /\ counted' = [counted EXCEPT ![s] = counted[s] \union {worker[s]}]
      /\ late' = [late EXCEPT ![s] = late[s] \union {worker[s]}]
      /\ UNCHANGED <<router, gone, queue, open, emitted, sealed, written, confirmed, cut>>
  BY DEF TimesOut, Busy, Getting, Count
<1>2. /\ queue[s] \in Seq(Nat) /\ Len(queue[s]) \in Nat /\ worker[s] \in Nat
      /\ Len(queue[s]) <= QueueSize /\ written[s] \in Seq(Nat) /\ Len(written[s]) \in Nat
      /\ confirmed[s] \in SUBSET Nat /\ late[s] \in SUBSET Nat
      /\ (s \in gone) \in BOOLEAN /\ (s \in cut) \in BOOLEAN
      /\ emitted \in Nat /\ sealed \in 0 .. emitted
      /\ SinkOK(queue[s], Len(queue[s]), worker[s], written[s], Len(written[s]), confirmed[s],
                counted[s], late[s], router, s \in gone, s \in cut, emitted, sealed)
  BY <1>1, OneSink
<1>3. Shape'
  <2>1. /\ worker' \in [Sinks -> Nat] /\ counted' \in [Sinks -> SUBSET Nat]
        /\ late' \in [Sinks -> SUBSET Nat]
    BY <1>1, <1>2 DEF AuditInv, Shape
  <2> QED
    BY <1>1, <2>1 DEF AuditInv, Shape
<1>4. SinkInv(s)'
  <2> DEFINE q == queue[s]  n == Len(queue[s])  w == worker[s]  wr == written[s]
             m == Len(written[s])  ok == confirmed[s]  no == counted[s]  lt == late[s]
             ended == s \in gone  cancelled == s \in cut  lt2 == late[s] \union {worker[s]}
  <2>1. SinkOK(q, n, 0, wr, m, ok, no \union {w}, lt2, router, ended, cancelled, emitted, sealed)
    <3>1. Lately(lt2, lt, w)
      BY DEF Lately
    <3> HIDE DEF q, n, w, wr, m, ok, no, lt, ended, cancelled, lt2
    <3>2. /\ n \in Nat /\ w \in Nat \ {0} /\ m \in Nat /\ ok \in SUBSET Nat /\ lt \in SUBSET Nat
          /\ ended \in BOOLEAN /\ cancelled \in BOOLEAN /\ emitted \in Nat /\ sealed \in 0 .. emitted
          /\ SinkOK(q, n, w, wr, m, ok, no, lt, router, ended, cancelled, emitted, sealed)
      BY <1>1, <1>2 DEF q, n, w, wr, m, ok, no, lt, ended, cancelled
    <3> QED
      BY <3>1, <3>2, SinkGivesUp
  <2>2. worker'[s] = 0 /\ counted'[s] = no \union {w} /\ late'[s] = lt2
    BY <1>1 DEF AuditInv, Shape
  <2> QED
    BY <1>1, <1>2, <2>1, <2>2 DEF SinkInv
<1>5. ASSUME NEW t \in Sinks \ {s} PROVE SinkInv(t)'
  <2>1. worker'[t] = worker[t] /\ counted'[t] = counted[t] /\ late'[t] = late[t]
    BY <1>1 DEF AuditInv, Shape
  <2> QED
    BY <1>1, <2>1, OtherSink
<1> QED
  BY <1>3, <1>4, <1>5 DEF AuditInv

(* A write that was given up lands.                                           *)
LEMMA LandsKeeps ==
  ASSUME AuditInv, NEW s \in Sinks, Lands(s)
  PROVE  AuditInv'
<1>0. PICK l \in late[s] :
        /\ written' = [written EXCEPT ![s] = Append(written[s], l)]
        /\ late' = [late EXCEPT ![s] = late[s] \ {l}]
        /\ UNCHANGED <<router, queue, worker, gone, open, emitted, sealed, confirmed, counted, cut>>
  BY DEF Lands
<1>1. /\ written' = [written EXCEPT ![s] = Append(written[s], l)]
      /\ late' = [late EXCEPT ![s] = late[s] \ {l}]
      /\ UNCHANGED <<router, queue, worker, gone, open, emitted, sealed, confirmed, counted, cut>>
  BY <1>0
<1>2. /\ queue[s] \in Seq(Nat) /\ Len(queue[s]) \in Nat /\ worker[s] \in Nat
      /\ Len(queue[s]) <= QueueSize /\ written[s] \in Seq(Nat) /\ Len(written[s]) \in Nat
      /\ confirmed[s] \in SUBSET Nat /\ late[s] \in SUBSET Nat
      /\ (s \in gone) \in BOOLEAN /\ (s \in cut) \in BOOLEAN
      /\ emitted \in Nat /\ sealed \in 0 .. emitted
      /\ SinkOK(queue[s], Len(queue[s]), worker[s], written[s], Len(written[s]), confirmed[s],
                counted[s], late[s], router, s \in gone, s \in cut, emitted, sealed)
  BY <1>1, OneSink
<1>a. l \in Nat
  BY <1>2
<1>3. Shape'
  <2>1. written' \in [Sinks -> Seq(Nat)] /\ late' \in [Sinks -> SUBSET Nat]
    BY <1>1, <1>2, <1>a DEF AuditInv, Shape
  <2> QED
    BY <1>1, <2>1 DEF AuditInv, Shape
<1>4. SinkInv(s)'
  <2> DEFINE q == queue[s]  n == Len(queue[s])  w == worker[s]  wr == written[s]
             m == Len(written[s])  ok == confirmed[s]  no == counted[s]  lt == late[s]
             ended == s \in gone  cancelled == s \in cut  wr2 == Append(written[s], l)
  <2>1. Added(wr2, wr, m, l) /\ Len(wr2) = m + 1
    BY <1>2, <1>a DEF Added
  <2>2. SinkOK(q, n, w, wr2, m + 1, ok, no, lt \ {l}, router, ended, cancelled, emitted, sealed)
    <3>1. l \in lt
      OBVIOUS
    <3> HIDE DEF q, n, w, wr, m, ok, no, lt, ended, cancelled, wr2
    <3>2. /\ n \in Nat /\ w \in Nat /\ m \in Nat /\ ok \in SUBSET Nat /\ lt \in SUBSET Nat
          /\ ended \in BOOLEAN /\ cancelled \in BOOLEAN /\ emitted \in Nat /\ sealed \in 0 .. emitted
          /\ SinkOK(q, n, w, wr, m, ok, no, lt, router, ended, cancelled, emitted, sealed)
      BY <1>2 DEF q, n, w, wr, m, ok, no, lt, ended, cancelled
    <3> QED
      BY <2>1, <3>1, <3>2, SinkLands
  <2>3. written'[s] = wr2 /\ late'[s] = lt \ {l}
    BY <1>1 DEF AuditInv, Shape
  <2>4. Len(written'[s]) = m + 1
    BY <2>1, <2>3
  <2> QED
    BY <1>1, <1>2, <2>2, <2>3, <2>4 DEF SinkInv
<1>5. ASSUME NEW t \in Sinks \ {s} PROVE SinkInv(t)'
  <2>1. written'[t] = written[t] /\ late'[t] = late[t]
    BY <1>1 DEF AuditInv, Shape
  <2> QED
    BY <1>1, <2>1, OtherSink
<1> QED
  BY <1>3, <1>4, <1>5 DEF AuditInv

(* The shutdown puts its sentinels.                                           *)
LEMMA StopKeeps ==
  ASSUME AuditRouterAssumption, AuditInv, StopRouter
  PROVE  AuditInv'
<1>1. /\ router = "on" /\ router' = "stopping" /\ sealed' = emitted
      /\ queue' = [s \in Sinks |-> Put(queue[s], 0)]
      /\ UNCHANGED <<worker, gone, open, emitted, counted, confirmed, late, cut, written>>
  BY DEF StopRouter, Sentinel, tallies
<1>2. ASSUME NEW s \in Sinks PROVE queue'[s] \in Seq(Nat) /\ SinkInv(s)'
  <2>2. /\ queue[s] \in Seq(Nat) /\ Len(queue[s]) \in Nat /\ worker[s] \in Nat
        /\ Len(queue[s]) <= QueueSize /\ written[s] \in Seq(Nat) /\ Len(written[s]) \in Nat
        /\ confirmed[s] \in SUBSET Nat /\ late[s] \in SUBSET Nat
        /\ (s \in gone) \in BOOLEAN /\ (s \in cut) \in BOOLEAN
        /\ emitted \in Nat /\ sealed \in 0 .. emitted
        /\ SinkOK(queue[s], Len(queue[s]), worker[s], written[s], Len(written[s]), confirmed[s],
                  counted[s], late[s], router, s \in gone, s \in cut, emitted, sealed)
    BY OneSink
  <2> DEFINE q == queue[s]  n == Len(queue[s])  w == worker[s]  wr == written[s]
             m == Len(written[s])  ok == confirmed[s]  no == counted[s]  lt == late[s]
             ended == s \in gone  cancelled == s \in cut
             q2 == queue'[s]  n2 == Len(queue'[s])
  <2>3. q2 \in Seq(Nat) /\ n2 <= QueueSize /\ Sealing(q2, q, n, n2)
    <3>1. q2 = Put(q, 0) /\ QueueSize \in Nat
      BY <1>1, AuditRouterAssumption
    <3>2. CASE n < QueueSize
      <4>1. q2 = Append(q, 0)
        BY <3>1, <3>2 DEF Put
      <4>2. /\ Append(q, 0) \in Seq(Nat) /\ Len(Append(q, 0)) = n + 1
            /\ \A k \in 1 .. n : Append(q, 0)[k] = q[k]
            /\ Append(q, 0)[n + 1] = 0
        BY <2>2
      <4>3. n2 = n + 1 /\ n \in Nat
        BY <2>2, <4>1, <4>2
      <4> HIDE DEF n, n2
      <4>4. q2 \in Seq(Nat) /\ Sealing(q2, q, n, n2)
        BY <4>1, <4>2, <4>3 DEF Sealing
      <4> QED
        BY <3>1, <3>2, <4>3, <4>4
    <3>3. CASE ~(n < QueueSize)
      <4>1. q2 = q
        BY <3>1, <3>3 DEF Put
      <4> QED
        BY <2>2, <4>1 DEF Sealing
    <3> QED
      BY <3>2, <3>3
  <2>4. SinkOK(q2, n2, w, wr, m, ok, no, lt, "stopping", ended, cancelled, emitted, emitted)
    <3> HIDE DEF q, n, w, wr, m, ok, no, lt, ended, cancelled, q2, n2
    <3>1. /\ n \in Nat /\ w \in Nat /\ m \in Nat /\ ok \in SUBSET Nat /\ lt \in SUBSET Nat
          /\ ended \in BOOLEAN /\ cancelled \in BOOLEAN /\ emitted \in Nat /\ sealed \in 0 .. emitted
          /\ SinkOK(q, n, w, wr, m, ok, no, lt, "on", ended, cancelled, emitted, sealed)
      BY <1>1, <2>2 DEF q, n, w, wr, m, ok, no, lt, ended, cancelled
    <3> QED
      BY <2>3, <3>1, SinkStops
  <2> QED
    BY <1>1, <2>3, <2>4 DEF SinkInv
<1>3. Shape'
  <2>1. queue' \in [Sinks -> Seq(Nat)]
    BY <1>1, <1>2
  <2> QED
    BY <1>1, <2>1 DEF AuditInv, Shape
<1> QED
  BY <1>2, <1>3 DEF AuditInv
(* A sink whose worker has ended before the shutdown closes the sinks.        *)
LEMMA EndedSink ==
  ASSUME AuditInv, NEW s \in Sinks, s \in gone, router = "stopping", router' = "closing",
         queue'[s] = queue[s], worker'[s] = worker[s], written'[s] = written[s],
         confirmed'[s] = confirmed[s], counted'[s] = counted[s], late'[s] = late[s],
         s \in gone', s \in cut' <=> s \in cut,
         UNCHANGED <<emitted, sealed>>
  PROVE  SinkInv(s)'
<1>1. SinkInv(s)
  BY DEF AuditInv
<1> QED
  BY <1>1 DEF SinkInv, SinkOK, Ended

(* All workers have ended in time.                                            *)
LEMMA JoinKeeps ==
  ASSUME AuditInv, WorkersJoin
  PROVE  AuditInv'
<1>1. /\ router = "stopping" /\ gone = Sinks /\ router' = "closing"
      /\ UNCHANGED <<queue, worker, gone, open, emitted, sealed, counted, confirmed, late, cut, written>>
  BY DEF WorkersJoin, tallies
<1>2. Shape'
  BY <1>1 DEF AuditInv, Shape
<1>3. ASSUME NEW s \in Sinks PROVE SinkInv(s)'
  BY <1>1, <1>3, EndedSink
<1> QED
  BY <1>2, <1>3 DEF AuditInv

(* The deadline cancels the workers that are left.                            *)
LEMMA DeadlineKeeps ==
  ASSUME AuditInv, Deadline
  PROVE  AuditInv'
<1> DEFINE left == Sinks \ gone
<1>1. /\ router = "stopping" /\ router' = "closing"
      /\ cut' = cut \union left
      /\ late' = [s \in Sinks |-> IF s \in left /\ worker[s] # 0 THEN late[s] \union {worker[s]}
                                  ELSE late[s]]
      /\ worker' = [s \in Sinks |-> 0] /\ gone' = Sinks
      /\ UNCHANGED <<queue, open, emitted, sealed, counted, written, confirmed>>
  BY DEF Deadline, Busy, Getting
<1>2. Shape'
  <2>1. worker' \in [Sinks -> Nat] /\ late' \in [Sinks -> SUBSET Nat] /\ cut' \subseteq Sinks
    BY <1>1 DEF AuditInv, Shape
  <2> QED
    BY <1>1, <2>1 DEF AuditInv, Shape
<1>3. ASSUME NEW s \in Sinks PROVE SinkInv(s)'
  <2>1. CASE s \in gone
    <3>1. worker[s] = 0
      BY <2>1, OneSink DEF SinkOK, Ended
    <3>2. worker'[s] = worker[s] /\ late'[s] = late[s] /\ s \in gone' /\ (s \in cut' <=> s \in cut)
      BY <1>1, <1>3, <2>1, <3>1 DEF AuditInv, Shape
    <3> QED
      BY <1>1, <2>1, <3>2, EndedSink
  <2>2. /\ queue[s] \in Seq(Nat) /\ Len(queue[s]) \in Nat /\ worker[s] \in Nat
        /\ Len(queue[s]) <= QueueSize /\ written[s] \in Seq(Nat) /\ Len(written[s]) \in Nat
        /\ confirmed[s] \in SUBSET Nat /\ late[s] \in SUBSET Nat
        /\ (s \in gone) \in BOOLEAN /\ (s \in cut) \in BOOLEAN
        /\ emitted \in Nat /\ sealed \in 0 .. emitted
        /\ SinkOK(queue[s], Len(queue[s]), worker[s], written[s], Len(written[s]), confirmed[s],
                  counted[s], late[s], router, s \in gone, s \in cut, emitted, sealed)
    BY OneSink
  <2>3. CASE s \notin gone
    <3> DEFINE q == queue[s]  n == Len(queue[s])  w == worker[s]  wr == written[s]
               m == Len(written[s])  ok == confirmed[s]  no == counted[s]  lt == late[s]
               ended == s \in gone  cancelled == s \in cut
               ended2 == s \in gone'  cancelled2 == s \in cut'  lt2 == late'[s]
    <3>1. /\ Overdue(lt2, lt, w) /\ ended2 /\ cancelled2
          /\ ended2 \in BOOLEAN /\ cancelled2 \in BOOLEAN
      BY <1>1, <1>3, <2>3 DEF Overdue
    <3>2. SinkOK(q, n, 0, wr, m, ok, no, lt2, "closing", ended2, cancelled2, emitted, sealed)
      <4>1. /\ n \in Nat /\ w \in Nat /\ m \in Nat /\ ok \in SUBSET Nat /\ lt \in SUBSET Nat
            /\ ended \in BOOLEAN /\ cancelled \in BOOLEAN /\ emitted \in Nat /\ sealed \in 0 .. emitted
            /\ SinkOK(q, n, w, wr, m, ok, no, lt, "stopping", ended, cancelled, emitted, sealed)
        BY <1>1, <2>2
      <4> HIDE DEF q, n, w, wr, m, ok, no, lt, lt2, ended, cancelled, ended2, cancelled2
      <4> QED
        <5>1. Lined(q, n, 0, emitted, sealed) /\ Behind(q, n, 0, wr, m, ok, lt2, emitted) /\ InOrder(wr, m, ok)
          BY <3>1, <4>1, SinkIsCut
        <5> QED
          BY <3>1, <5>1 DEF SinkOK, Ended
    <3>3. worker'[s] = 0
      BY <1>1
    <3> QED
      BY <1>1, <2>2, <3>2, <3>3 DEF SinkInv
  <2> QED
    BY <2>1, <2>3
<1> QED
  BY <1>2, <1>3 DEF AuditInv

(* A sink is closed; with the last one the queues go.                         *)
LEMMA CloseKeeps ==
  ASSUME AuditRouterAssumption, AuditInv, CloseSink
  PROVE  AuditInv'
<1>0. PICK c \in open :
        /\ router = "closing"
        /\ open' = open \ {c}
        /\ IF open = {c} THEN router' = "off" /\ queue' = [t \in Sinks |-> <<>>]
                         ELSE UNCHANGED <<router, queue>>
        /\ UNCHANGED <<worker, gone, emitted, sealed, counted, confirmed, late, cut, written>>
  BY DEF CloseSink, tallies
<1>1. CASE open = {c}
  <2>1. queue' \in [Sinks -> Seq(Nat)]
    <3>1. <<>> \in Seq(Nat)
      OBVIOUS
    <3> QED
      BY <1>0, <1>1, <3>1
  <2>2. Shape'
    BY <1>0, <1>1, <2>1 DEF AuditInv, Shape
  <2>3. ASSUME NEW s \in Sinks PROVE SinkInv(s)'
    <3> DEFINE q == queue[s]  n == Len(queue[s])  w == worker[s]  wr == written[s]
               m == Len(written[s])  ok == confirmed[s]  no == counted[s]  lt == late[s]
               ended == s \in gone  cancelled == s \in cut  q2 == queue'[s]
    <3>1. /\ n \in Nat /\ w \in Nat /\ m \in Nat /\ ok \in SUBSET Nat /\ lt \in SUBSET Nat
          /\ ended \in BOOLEAN /\ cancelled \in BOOLEAN /\ emitted \in Nat /\ sealed \in 0 .. emitted
          /\ SinkOK(q, n, w, wr, m, ok, no, lt, "closing", ended, cancelled, emitted, sealed)
      BY <1>0, OneSink
    <3>2. Len(queue'[s]) = 0 /\ QueueSize \in Nat
      BY <1>0, <1>1, AuditRouterAssumption
    <3>3. SinkOK(q2, 0, w, wr, m, ok, no, lt, "off", ended, cancelled, emitted, sealed)
      <4> HIDE DEF q, n, w, wr, m, ok, no, lt, ended, cancelled, q2
      <4> QED
        BY <3>1, SinkCloses
    <3> QED
      BY <1>0, <1>1, <3>2, <3>3 DEF SinkInv
  <2> QED
    BY <2>2, <2>3 DEF AuditInv
<1>2. CASE open # {c}
  <2>1. Shape'
    BY <1>0, <1>2 DEF AuditInv, Shape
  <2>2. ASSUME NEW s \in Sinks PROVE SinkInv(s)'
    BY <1>0, <1>2, OtherSink
  <2> QED
    BY <2>1, <2>2 DEF AuditInv
<1> QED
  BY <1>1, <1>2

-----------------------------------------------------------------------------
(* The invariant holds at the start and is kept by every operation.           *)
LEMMA AuditStarts ==
  ASSUME AuditRouterAssumption, NEW on \in BOOLEAN, AuditInit(on)
  PROVE  AuditInv
<1> USE DEF AuditInit
<1>1. \A s \in Sinks : queue[s] = <<>> /\ written[s] = <<>> /\ worker[s] = 0
  BY DEF Getting
<1>2. Shape
  BY <1>1 DEF Shape, Getting
<1>3. ASSUME NEW s \in Sinks PROVE SinkInv(s)
  <2>1. Len(queue[s]) = 0 /\ Len(written[s]) = 0 /\ QueueSize \in Nat
    BY <1>1, AuditRouterAssumption
  <2>2. confirmed[s] = {} /\ counted[s] = {} /\ late[s] = {} /\ s \notin gone /\ s \notin cut
    OBVIOUS
  <2>3. router \in {"on", "off"} /\ emitted = 0 /\ sealed = 0
    OBVIOUS
  <2> QED
    BY <1>1, <2>1, <2>2, <2>3 DEF SinkInv, SinkOK, Lined, Behind, Ended, Accounted, InOrder
<1> QED
  BY <1>2, <1>3 DEF AuditInv

(* Every operation of the router keeps the invariant.                         *)
LEMMA AuditKeeps ==
  ASSUME AuditRouterAssumption, AuditInv, AuditNext
  PROVE  AuditInv'
<1>1. CASE \E n \in 0 .. 2 : Emit(n)
  BY <1>1, EmitKeeps
<1>2. CASE \E s \in Sinks : Take(s) \/ Writes(s) \/ Fails(s) \/ TimesOut(s) \/ Lands(s)
  BY <1>2, TakeKeeps, WritesKeeps, FailsKeeps, TimesOutKeeps, LandsKeeps
<1>3. CASE StopRouter \/ WorkersJoin \/ Deadline \/ CloseSink
  BY <1>3, StopKeeps, JoinKeeps, DeadlineKeeps, CloseKeeps
<1> QED
  BY <1>1, <1>2, <1>3 DEF AuditNext

(* So does a step that leaves the router alone.                               *)
LEMMA AuditStutters ==
  ASSUME AuditInv, UNCHANGED auditVars
  PROVE  AuditInv'
<1>1. UNCHANGED <<router, queue, worker, gone, open, emitted, sealed, counted, confirmed, late, cut, written>>
  BY DEF auditVars, tallies
<1> QED
  BY <1>1 DEF AuditInv, Shape, SinkInv

(* What the invariant says of the events.                                     *)
LEMMA AuditVanishesNothing ==
  ASSUME AuditInv
  PROVE  NoEventVanishes
<1> SUFFICES ASSUME NEW s \in Sinks \ cut, NEW e \in 1 .. Sealed
             PROVE  e \in ToSet(queue[s]) \union {worker[s]} \union confirmed[s] \union counted[s]
  BY DEF NoEventVanishes
<1>1. Accounted(queue[s], Len(queue[s]), worker[s], confirmed[s], counted[s], Sealed)
  BY OneSink DEF SinkOK, Sealed
<1>2. \A k \in 1 .. Len(queue[s]) : queue[s][k] \in ToSet(queue[s])
  BY OneSink DEF ToSet
<1> QED
  BY <1>1, <1>2 DEF Accounted

(* What the invariant says of the writes.                                     *)
LEMMA AuditWritesInOrder ==
  ASSUME AuditInv
  PROVE  WrittenOnceInOrder
<1> SUFFICES ASSUME NEW s \in Sinks, NEW j \in DOMAIN written[s], NEW k \in DOMAIN written[s], j < k
             PROVE  /\ written[s][j] # written[s][k]
                    /\ {written[s][j], written[s][k]} \subseteq confirmed[s]
                         => written[s][j] < written[s][k]
  BY DEF WrittenOnceInOrder
<1>1. written[s] \in Seq(Nat) /\ InOrder(written[s], Len(written[s]), confirmed[s])
  BY OneSink DEF SinkOK
<1>2. j \in 1 .. Len(written[s]) /\ k \in 1 .. Len(written[s])
  BY <1>1
<1> QED
  BY <1>1, <1>2 DEF InOrder
-----------------------------------------------------------------------------
(* What is counted was reported.                                              *)
CountedInv == \A s \in Sinks : counted[s] \subseteq 1 .. emitted

LEMMA ReportsCount ==
  ASSUME AuditInv, NEW n \in 0 .. 2, NEW counts \in [Sinks -> SUBSET (1 .. emitted)],
         EmitCounting(n, counts)
  PROVE  CountedInv'
<1>1. emitted \in Nat
  BY DEF AuditInv, Shape
<1>2. CASE router = "off" \/ n = 0
  BY <1>1, <1>2 DEF EmitCounting, PutNext, CountedInv
<1>3. CASE router # "off" /\ n = 1
  <2>1. emitted' = emitted + 1 /\ \A s \in Sinks : counted'[s] \subseteq counts[s] \union {emitted + 1}
    BY <1>3 DEF EmitCounting, PutNext, PutAll
  <2> QED
    BY <1>1, <2>1 DEF CountedInv
<1>4. CASE router # "off" /\ n = 2
  <2>1. /\ emitted' = emitted + 2
        /\ \A s \in Sinks : counted'[s] \subseteq counts[s] \union {emitted + 1, emitted + 2}
    <3> DEFINE first == PutAll([queue |-> queue, counted |-> counts], emitted + 1)
               second == PutAll(first, emitted + 2)
    <3>1. \A s \in Sinks : first.counted[s] \subseteq counts[s] \union {emitted + 1}
      BY DEF PutAll
    <3>2. \A s \in Sinks : second.counted[s] \subseteq first.counted[s] \union {emitted + 2}
      BY DEF PutAll
    <3>3. PutNext([queue |-> queue, counted |-> counts], 2) = second
      BY DEF PutNext
    <3> HIDE DEF first, second
    <3>4. counted' = second.counted /\ emitted' = emitted + 2
      BY <1>4, <3>3 DEF EmitCounting
    <3> QED
      BY <3>1, <3>2, <3>4
  <2> QED
    BY <1>1, <2>1 DEF CountedInv
<1> QED
  BY <1>2, <1>3, <1>4

LEMMA CountedKeeps ==
  ASSUME AuditInv, CountedInv, AuditNext \/ UNCHANGED auditVars
  PROVE  CountedInv'
<1>1. \A s \in Sinks : worker[s] \in 0 .. emitted
  BY DEF AuditInv, Shape, SinkInv, SinkOK, Lined
<1>2. counted \in [Sinks -> SUBSET (1 .. emitted)]
  BY DEF AuditInv, Shape, CountedInv
<1>3. \A s \in Sinks : Busy(s) => Count(s) \in [Sinks -> SUBSET (1 .. emitted)]
  BY <1>1, <1>2 DEF Busy, Getting, Count
<1>4. CASE \E n \in 0 .. 2 : Emit(n)
  BY <1>2, <1>4, ReportsCount DEF Emit
<1>5. CASE \E s \in Sinks : Writes(s) \/ Fails(s)
  BY <1>2, <1>3, <1>5, EchoIsSmall, ReportsCount DEF Writes, Fails
<1>6. CASE \E s \in Sinks : TimesOut(s)
  BY <1>3, <1>6 DEF TimesOut, CountedInv
<1>7. CASE UNCHANGED <<counted, emitted>>
  BY <1>7 DEF CountedInv
<1> QED
  BY <1>4, <1>5, <1>6, <1>7 DEF AuditNext, Take, Lands, StopRouter, WorkersJoin, Deadline, CloseSink,
                                tallies, auditVars

(* The shape of the router's state, with the bound of the queues.             *)
LEMMA AuditTypes ==
  ASSUME AuditInv, CountedInv
  PROVE  AuditTypeOK
<1>1. Shape /\ \A s \in Sinks : Len(queue[s]) <= QueueSize
  BY DEF AuditInv, SinkInv
<1>2. worker \in [Sinks -> 0 .. emitted]
  BY DEF AuditInv, Shape, SinkInv, SinkOK, Lined
<1>3. ASSUME NEW s \in Sinks
      PROVE  /\ ToSet(written[s]) \subseteq 1 .. emitted
             /\ confirmed[s] \union counted[s] \union late[s] \subseteq 1 .. emitted
  <2>1. /\ written[s] \in Seq(Nat) /\ confirmed[s] \subseteq Nat /\ late[s] \subseteq Nat
        /\ emitted \in Nat
    BY DEF AuditInv, Shape
  <2>2. /\ \A k \in 1 .. Len(written[s]) : written[s][k] # 0 /\ written[s][k] <= emitted
        /\ \A e \in confirmed[s] \union late[s] : e # 0 /\ e <= emitted
    BY DEF AuditInv, SinkInv, SinkOK, Behind, Past
  <2>3. \A k \in DOMAIN written[s] : written[s][k] \in 1 .. emitted
    BY <2>1, <2>2
  <2> QED
    BY <2>1, <2>2, <2>3 DEF ToSet, CountedInv
<1> QED
  BY <1>1, <1>2, <1>3 DEF Shape, AuditTypeOK
=============================================================================
