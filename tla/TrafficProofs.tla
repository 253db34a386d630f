--------------------------- MODULE TrafficProofs ---------------------------
(***************************************************************************)
(* For every number of threads, limit and pool: the window holds, a retry  *)
(* is honoured, and the pool gets back what it gives out.                  *)
(***************************************************************************)
EXTENDS Traffic, FiniteSetTheorems, TLAPS

(* What the limiter keeps.  The calls that left the deque are older than   *)
(* the window, for some call read a clock that says so; the deque holds no *)
(* more than Times; and while a promise stands the deque is full and its   *)
(* head is the call that the promise was reckoned from.                    *)
ClocksPast ==
  /\ \A t \in Threads : stamp[t] <= clock
  /\ \A i \in DOMAIN log : log[i].stamp <= log[i].at /\ log[i].at <= clock

PoppedAreOld == \A i \in 1..popped : log[i].stamp + Window <= clock

DequeIsShort == Len(log) - popped <= Times

PromisesStand ==
  \A p \in promised : Len(log) - popped = Times /\ log[popped + 1].stamp + Window < p

LimiterInv ==
  TypeOK /\ ClocksPast /\ PoppedAreOld /\ DequeIsShort /\ PromisesStand /\ LimitHolds

(* Rounding up to whole seconds goes past the moment itself.               *)
LEMMA RoundsUp ==
  ASSUME NEW x \in Int, NEW u \in Nat \ {0}
  PROVE  x < u * (x \div u + 1) /\ x \div u \in Int
<1>1. x \div u \in Int /\ x % u \in 0..(u - 1) /\ x = u * (x \div u) + (x % u)
  BY Z3
<1>2. u * (x \div u + 1) = (u * (x \div u)) + u
  BY <1>1, Z3
<1> QED  BY <1>1, <1>2

LEMMA WindowIsPositive == Window \in Nat /\ Window > 0
<1>1. Seconds \in Nat /\ Unit \in Nat /\ Seconds > 0 /\ Unit > 0
  BY TrafficConstantsOK
<1> QED  BY <1>1, Z3 DEF Window

(* A call that stays: its promise is past the moment its head leaves.      *)
LEMMA PromiseIsLate ==
  ASSUME NEW now \in Nat, NEW head \in Nat, now - head < Window
  PROVE  /\ now + Unit * retry_after(now, head) \in Nat
         /\ head + Window < now + Unit * retry_after(now, head)
<1> DEFINE left == Window - (now - head)
           steps == left \div Unit
<1>1. left \in Int /\ left > 0 /\ Unit \in Nat \ {0}
  BY WindowIsPositive, TrafficConstantsOK
<1>2. left < Unit * (steps + 1) /\ steps \in Int
  BY <1>1, RoundsUp
<1>3. retry_after(now, head) = steps + 1
  BY DEF retry_after
<1> HIDE DEF steps
<1> DEFINE wait == Unit * (steps + 1)
<1>4. wait \in Int
  BY <1>1, <1>2
<1>5. left < wait /\ Unit * retry_after(now, head) = wait
  BY <1>2, <1>3
<1> HIDE DEF wait
<1>6. left = Window - (now - head) /\ Window \in Nat
  BY WindowIsPositive
<1> HIDE DEF left
<1> QED  BY <1>1, <1>4, <1>5, <1>6

-----------------------------------------------------------------------------
(* The limiter.                                                            *)
LEMMA InitLimiter == Init => LimiterInv
<1> SUFFICES ASSUME Init PROVE LimiterInv
  OBVIOUS
<1>1. TypeOK
  BY DEF Init, TypeOK, NotRead, Connections
<1> QED
  BY <1>1, TrafficConstantsOK DEF Init, LimiterInv, ClocksPast, PoppedAreOld, DequeIsShort,
     PromisesStand, LimitHolds, NotRead

LEMMA LimiterTypes ==
  ASSUME TypeOK
  PROVE  /\ clock \in Nat /\ Window \in Nat /\ Times \in Nat /\ Times > 0
         /\ Len(log) \in Nat /\ popped \in 0..Len(log) /\ DOMAIN log = 1..Len(log)
         /\ \A i \in 1..Len(log) : log[i] \in Entry /\ log[i].stamp \in Nat /\ log[i].at \in Nat
         /\ \A t \in Threads : stamp[t] \in Int /\ (stamp[t] # NotRead => stamp[t] \in Nat)
<1>1. log \in Seq(Entry)
  BY DEF TypeOK
<1>2. DOMAIN log = 1..Len(log) /\ Len(log) \in Nat /\ \A i \in 1..Len(log) : log[i] \in Entry
  BY <1>1
<1>3. \A e \in Entry : e.stamp \in Nat /\ e.at \in Nat
  BY DEF Entry
<1>4. \A t \in Threads : stamp[t] \in Nat \cup {NotRead}
  BY DEF TypeOK
<1>5. \A t \in Threads : stamp[t] \in Int /\ (stamp[t] # NotRead => stamp[t] \in Nat)
  BY <1>4 DEF NotRead
<1>6. clock \in Nat /\ popped \in 0..Len(log)
  BY DEF TypeOK
<1> QED  BY <1>2, <1>3, <1>5, <1>6, WindowIsPositive, TrafficConstantsOK

(* A step that leaves the limiter and the clock alone.                     *)
LEMMA ElsewhereKeeps ==
  ASSUME LimiterInv, TypeOK', UNCHANGED <<clock, limiter>>,
         \A t \in Threads : stamp'[t] <= clock
  PROVE  LimiterInv'
<1> QED
  BY DEF LimiterInv, ClocksPast, PoppedAreOld, DequeIsShort, PromisesStand, LimitHolds, limiter

LEMMA TickKeeps == LimiterInv /\ Tick => LimiterInv'
<1> SUFFICES ASSUME LimiterInv, Tick PROVE LimiterInv'
  OBVIOUS
<1> USE DEF Tick, limiter, pool
<1>1. clock \in Nat /\ clock' \in Nat /\ clock <= clock' /\ MaxClock \in Nat
  BY TrafficConstantsOK DEF LimiterInv, TypeOK
<1>2. TypeOK'
  BY <1>1 DEF LimiterInv, TypeOK
<1>3. /\ DOMAIN log = 1..Len(log) /\ popped \in 0..Len(log) /\ Window \in Nat /\ Len(log) \in Nat
      /\ \A t \in Threads : stamp[t] \in Int
      /\ \A i \in 1..Len(log) : log[i].stamp \in Nat /\ log[i].at \in Nat
  BY LimiterTypes DEF LimiterInv
<1>4. ClocksPast'
  BY <1>1, <1>3 DEF LimiterInv, ClocksPast
<1>5. PoppedAreOld'
  BY <1>1, <1>3 DEF LimiterInv, PoppedAreOld
<1> QED
  BY <1>2, <1>4, <1>5 DEF LimiterInv, DequeIsShort, PromisesStand, LimitHolds

(* What a call prunes is older than the window, and what it was promised   *)
(* against is not pruned.                                                  *)
LEMMA PopsKeeps ==
  ASSUME LimiterInv, NEW t \in Threads, stamp[t] # NotRead,
         NEW k \in popped..Len(log), Pops(stamp[t], k)
  PROVE  /\ \A i \in 1..k : log[i].stamp + Window <= clock
         /\ Len(log) - k <= Times
         /\ Len(log) - k = Times => k = popped
<1>1. /\ stamp[t] \in Nat /\ stamp[t] <= clock /\ clock \in Nat
      /\ \A i \in 1..Len(log) : log[i].stamp \in Nat
      /\ popped \in 0..Len(log) /\ Len(log) \in Nat /\ Window \in Nat /\ Times \in Nat
  BY LimiterTypes DEF LimiterInv, ClocksPast
<1>2. \A i \in popped + 1..k : log[i].stamp + Window <= clock
  BY <1>1 DEF Pops
<1>3. \A i \in 1..popped : log[i].stamp + Window <= clock
  BY DEF LimiterInv, PoppedAreOld
<1>4. Len(log) - popped <= Times
  BY DEF LimiterInv, DequeIsShort
<1> QED  BY <1>1, <1>2, <1>3, <1>4

(* A request takes the next of its route, or is over.                      *)
LEMMA TodoShrinks ==
  ASSUME TypeOK, NEW t \in Threads, todo[t] # <<>>
  PROVE  /\ [todo EXCEPT ![t] = Tail(todo[t])] \in [Threads -> Seq({"limit", "session", "search"})]
         /\ [todo EXCEPT ![t] = <<>>] \in [Threads -> Seq({"limit", "session", "search"})]
<1> DEFINE Ops == {"limit", "session", "search"}
<1>1. todo \in [Threads -> Seq(Ops)]
  BY DEF TypeOK
<1>2. todo[t] \in Seq(Ops)
  BY <1>1
<1> HIDE DEF Ops
<1>3. Tail(todo[t]) \in Seq(Ops) /\ <<>> \in Seq(Ops)
  BY <1>2
<1> QED  BY <1>1, <1>3 DEF Ops

(* A call that is let through.                                             *)
LEMMA LetThroughKeeps ==
  ASSUME LimiterInv, NEW t \in Threads, Takes(t, "limit"), stamp[t] # NotRead,
         NEW k \in popped..Len(log), Pops(stamp[t], k), LetThrough(t, k),
         popped' = k, UNCHANGED <<clock, state, stamp, pool>>
  PROVE  LimiterInv'
<1> DEFINE n == Len(log)
           call == [stamp |-> stamp[t], at |-> clock]
<1>1. /\ clock \in Nat /\ Window \in Nat /\ Times \in Nat /\ Times > 0 /\ n \in Nat
      /\ popped \in 0..n /\ DOMAIN log = 1..n /\ log \in Seq(Entry) /\ stamp[t] \in Nat
      /\ \A i \in 1..n : log[i] \in Entry /\ log[i].stamp \in Nat /\ log[i].at \in Nat
      /\ stamp[t] <= clock
  BY LimiterTypes DEF LimiterInv, TypeOK, ClocksPast
<1>2. call \in Entry /\ call.stamp = stamp[t] /\ call.at = clock
  BY <1>1 DEF Entry
<1> HIDE DEF call
<1>3. log' = Append(log, call) /\ n - k < Times /\ promised' = {}
  BY DEF LetThrough, call
<1>4. /\ log' \in Seq(Entry) /\ Len(log') = n + 1 /\ log'[n + 1] = call
      /\ \A i \in 1..n : log'[i] = log[i]
      /\ DOMAIN log' = 1..(n + 1)
  BY <1>1, <1>2, <1>3
<1>5. \A i \in 1..k : log[i].stamp + Window <= clock
  BY PopsKeeps
<1>6. k \in 0..n
  BY <1>1
<1> HIDE DEF n
<1>7. TypeOK'
  <2>1. todo' \in [Threads -> Seq({"limit", "session", "search"})]
    BY TodoShrinks DEF LetThrough, Takes, LimiterInv
  <2>2. popped' \in 0..Len(log')
    BY <1>1, <1>4, <1>6
  <2>3. \A s \in Threads : state'[s] = "searches" => todo'[s] # <<>>
    BY DEF LetThrough, Takes, TypeOK, LimiterInv
  <2> QED  BY <2>1, <2>2, <2>3, <1>3, <1>4 DEF TypeOK, LimiterInv, pool
<1>8. ClocksPast'
  <2>1. \A i \in 1..n : log[i].stamp <= log[i].at /\ log[i].at <= clock
    BY <1>1 DEF LimiterInv, ClocksPast
  <2>2. \A i \in 1..(n + 1) : log'[i].stamp <= log'[i].at /\ log'[i].at <= clock
    BY <2>1, <1>1, <1>2, <1>4
  <2> QED  BY <2>2, <1>4 DEF LimiterInv, ClocksPast
<1>9. PoppedAreOld'
  BY <1>1, <1>4, <1>5, <1>6 DEF PoppedAreOld
<1>10. DequeIsShort' /\ PromisesStand'
  BY <1>1, <1>3, <1>4, <1>6 DEF DequeIsShort, PromisesStand
<1>11. LimitHolds'
  <2> SUFFICES ASSUME NEW i \in 1..(n + 1), NEW j \in 1..(n + 1), j - i >= Times
               PROVE  log'[j].at - log'[i].stamp >= Window
    BY <1>4, WindowIsPositive DEF LimitHolds, Window
  <2>1. CASE j <= n
    <3>1. i \in 1..n /\ j \in 1..n
      BY <2>1, <1>1
    <3>2. log[j].at - log[i].stamp >= Window
      BY <3>1, <1>1 DEF LimiterInv, LimitHolds
    <3> QED  BY <3>1, <3>2, <1>4
  <2>2. CASE j = n + 1
    <3>1. i \in 1..k /\ i \in 1..n
      BY <2>2, <1>1, <1>3, <1>6
    <3>2. log[i].stamp + Window <= clock
      BY <3>1, <1>5
    <3> QED  BY <3>1, <3>2, <2>2, <1>1, <1>2, <1>4
  <2> QED  BY <2>1, <2>2, <1>1
<1> QED  BY <1>7, <1>8, <1>9, <1>10, <1>11 DEF LimiterInv

(* A call that is turned away: the deque was full, so nothing has left it. *)
LEMMA TurnedAwayKeeps ==
  ASSUME LimiterInv, NEW t \in Threads, Takes(t, "limit"), stamp[t] # NotRead,
         NEW k \in popped..Len(log), Pops(stamp[t], k), TurnedAway(t, k),
         popped' = k, UNCHANGED <<clock, state, stamp, pool>>
  PROVE  LimiterInv' /\ k = popped /\ \A p \in promised : stamp[t] < p
<1>1. /\ clock \in Nat /\ Window \in Nat /\ Times \in Nat /\ Times > 0 /\ Len(log) \in Nat
      /\ popped \in 0..Len(log) /\ stamp[t] \in Nat
      /\ \A i \in 1..Len(log) : log[i].stamp \in Nat
  BY LimiterTypes DEF LimiterInv
<1>2. k = popped /\ Len(log) - k = Times /\ log' = log
  BY PopsKeeps, <1>1 DEF TurnedAway
<1>3. k + 1 \in 1..Len(log) /\ k < Len(log)
  BY <1>1, <1>2
<1> DEFINE head == log[k + 1].stamp
           promise == stamp[t] + Unit * retry_after(stamp[t], head)
<1>4. head \in Nat /\ stamp[t] - head < Window
  BY <1>1, <1>3 DEF Pops
<1> HIDE DEF head
<1>5. promise \in Nat /\ head + Window < promise
  BY <1>1, <1>4, PromiseIsLate
<1>6. promised' = promised \cup {promise}
  BY DEF TurnedAway, head
<1> HIDE DEF promise
<1>7. \A p \in promised : head + Window < p
  BY <1>2 DEF LimiterInv, PromisesStand, head
<1>8. TypeOK'
  <2>1. todo' \in [Threads -> Seq({"limit", "session", "search"})]
    BY TodoShrinks DEF TurnedAway, Takes, LimiterInv
  <2>2. \A s \in Threads : state'[s] = "searches" => todo'[s] # <<>>
    BY DEF TurnedAway, Takes, TypeOK, LimiterInv
  <2> QED  BY <2>1, <2>2, <1>1, <1>2, <1>5, <1>6 DEF TypeOK, LimiterInv, pool
<1>9. PromisesStand'
  BY <1>2, <1>5, <1>6, <1>7 DEF PromisesStand, head
<1>10. \A p \in promised : stamp[t] < p
  <2> SUFFICES ASSUME NEW p \in promised PROVE stamp[t] < p
    OBVIOUS
  <2>1. p \in Nat
    BY DEF LimiterInv, TypeOK
  <2>2. head + Window < p
    BY <1>7
  <2>3. stamp[t] < head + Window
    BY <1>1, <1>4
  <2> QED  BY <2>1, <2>2, <2>3, <1>1, <1>4
<1> QED
  BY <1>2, <1>8, <1>9, <1>10
  DEF LimiterInv, ClocksPast, PoppedAreOld, DequeIsShort, LimitHolds

(* Steps outside the limiter.                                              *)
LEMMA ElsewhereType ==
  ASSUME TypeOK, NEW t \in Threads,
         \/ \E route \in Routes : Arrive(t, route)
         \/ ReadClock(t) \/ FirstStatement(t) \/ connect(t) \/ SearchEnds(t)
         \/ SearchFails(t) \/ TimesOut(t) \/ Finish(t)
  PROVE  /\ TypeOK' /\ UNCHANGED <<clock, limiter>>
         /\ \A s \in Threads : stamp'[s] \in {stamp[s], clock, NotRead}
<1> USE DEF limiter, pool
<1> DEFINE Ops == {"limit", "session", "search"}
<1>1. CASE \E route \in Routes : Arrive(t, route)
  <2>1. PICK route \in Routes : Arrive(t, route)
    BY <1>1
  <2>2. route \in Seq(Ops)
    BY TrafficConstantsOK
  <2>3. todo' \in [Threads -> Seq(Ops)]
    BY <2>1, <2>2 DEF Arrive, TypeOK
  <2> QED  BY <2>1, <2>3 DEF Arrive, TypeOK
<1>2. CASE ReadClock(t)
  BY <1>2 DEF ReadClock, TypeOK
<1>3. CASE FirstStatement(t)
  <2>1. todo' \in [Threads -> Seq(Ops)]
    BY <1>3, TodoShrinks DEF FirstStatement, Takes
  <2>2. \A s \in Threads : state'[s] = "searches" => todo'[s] # <<>>
    BY <1>3 DEF FirstStatement, Takes, TypeOK
  <2>3. /\ held' \in [Threads -> SUBSET Connections] /\ out' \subseteq Threads \X Connections
        /\ UNCHANGED <<clock, state, stamp, log, popped, promised>>
    BY <1>3 DEF FirstStatement, Checkout, TypeOK, Connections
  <2> QED  BY <2>1, <2>2, <2>3 DEF TypeOK
<1>4. CASE connect(t)
  BY <1>4 DEF connect, Takes, Checkout, TypeOK, Connections
<1>5. CASE SearchEnds(t)
  <2>1. todo' \in [Threads -> Seq(Ops)]
    BY <1>5, TodoShrinks DEF SearchEnds, TypeOK
  <2> QED  BY <1>5, <2>1 DEF SearchEnds, TypeOK
<1>6. CASE SearchFails(t) \/ TimesOut(t) \/ Finish(t)
  <2>1. End(t) /\ UNCHANGED <<clock, limiter>>
    BY <1>6 DEF SearchFails, TimesOut, Finish
  <2>2. <<>> \in Seq(Ops)
    OBVIOUS
  <2>3. todo' \in [Threads -> Seq(Ops)]
    BY <2>1, <2>2 DEF End, TypeOK
  <2> QED  BY <2>1, <2>3 DEF End, TypeOK
<1> QED  BY <1>1, <1>2, <1>3, <1>4, <1>5, <1>6

LEMMA CallKeeps ==
  ASSUME LimiterInv, NEW t \in Threads, Call(t)
  PROVE  LimiterInv' /\ (log' = log => \A p \in promised : stamp[t] < p)
<1>1. PICK k \in popped..Len(log) :
        Pops(stamp[t], k) /\ popped' = k /\ (LetThrough(t, k) \/ TurnedAway(t, k))
  BY DEF Call
<1>2. Takes(t, "limit") /\ stamp[t] # NotRead /\ UNCHANGED <<clock, state, stamp, pool>>
  BY DEF Call
<1>3. CASE LetThrough(t, k)
  <2>1. LimiterInv'
    BY <1>1, <1>2, <1>3, LetThroughKeeps
  <2>2. log' # log
    <3>1. log \in Seq(Entry) /\ Len(log) \in Nat
      BY LimiterTypes DEF LimiterInv, TypeOK
    <3>2. Len(log') = Len(log) + 1
      BY <1>3, <3>1 DEF LetThrough
    <3> QED  BY <3>1, <3>2
  <2> QED  BY <2>1, <2>2
<1>4. CASE TurnedAway(t, k)
  BY <1>1, <1>2, <1>4, TurnedAwayKeeps
<1> QED  BY <1>1, <1>3, <1>4

LEMMA NextLimiter == LimiterInv /\ [Next]_vars => LimiterInv'
<1> SUFFICES ASSUME LimiterInv, [Next]_vars PROVE LimiterInv'
  OBVIOUS
<1>1. CASE Tick
  BY <1>1, TickKeeps
<1>2. ASSUME NEW t \in Threads, Call(t) PROVE LimiterInv'
  BY <1>2, CallKeeps
<1>3. ASSUME NEW t \in Threads,
             \/ \E route \in Routes : Arrive(t, route)
             \/ ReadClock(t) \/ FirstStatement(t) \/ connect(t) \/ SearchEnds(t)
             \/ SearchFails(t) \/ TimesOut(t) \/ Finish(t)
      PROVE  LimiterInv'
  <2>1. /\ TypeOK' /\ UNCHANGED <<clock, limiter>>
        /\ \A s \in Threads : stamp'[s] \in {stamp[s], clock, NotRead}
    BY <1>3, ElsewhereType DEF LimiterInv
  <2>2. \A s \in Threads : stamp[s] <= clock
    BY DEF LimiterInv, ClocksPast
  <2>3. clock \in Nat
    BY DEF LimiterInv, TypeOK
  <2>4. \A s \in Threads : stamp'[s] <= clock
    BY <2>1, <2>2, <2>3 DEF NotRead
  <2> QED  BY <2>1, <2>4, ElsewhereKeeps
<1>4. CASE UNCHANGED vars
  BY <1>4
  DEF vars, limiter, pool, LimiterInv, TypeOK, ClocksPast, PoppedAreOld, DequeIsShort,
      PromisesStand, LimitHolds
<1> QED  BY <1>1, <1>2, <1>3, <1>4 DEF Next, Serve

-----------------------------------------------------------------------------
(* What the pool gave out is finite: it can be counted up and down.        *)
PoolInv == TypeOK /\ PoolHolds /\ IsFiniteSet(out)

LEMMA CheckoutKeeps ==
  ASSUME PoolInv, NEW t \in Threads, NEW c \in Connections, Checkout(t, c),
         state[t] = "runs", state'[t] # "idle", \A s \in Threads \ {t} : state'[s] = state[s]
  PROVE  PoolHolds' /\ IsFiniteSet(out)'
<1>1. out' = out \cup {<<t, c>>} /\ Cardinality(out) < Capacity /\ IsFiniteSet(out)
  BY DEF Checkout, Room, PoolInv
<1>2. IsFiniteSet(out') /\ Cardinality(out') <= Capacity
  <2>1. /\ IsFiniteSet(out')
        /\ Cardinality(out') = Cardinality(out) \/ Cardinality(out') = Cardinality(out) + 1
    BY <1>1, FS_AddElement
  <2>2. Cardinality(out) \in Nat /\ Capacity \in Nat
    BY <1>1, FS_CardinalityType, TrafficConstantsOK
  <2> QED  BY <2>1, <2>2, <1>1
<1>3. held' = [held EXCEPT ![t] = @ \cup {c}] /\ held \in [Threads -> SUBSET Connections]
  BY DEF Checkout, PoolInv, TypeOK
<1>4. \A s \in Threads : \A d \in Connections : <<s, d>> \in out' <=> d \in held'[s]
  BY <1>1, <1>3 DEF PoolInv, PoolHolds
<1>5. \A s \in Threads : state'[s] = "idle" => held'[s] = {}
  BY <1>3 DEF PoolInv, PoolHolds
<1> QED  BY <1>2, <1>4, <1>5 DEF PoolHolds

LEMMA GivesBack ==
  ASSUME PoolInv, NEW t \in Threads, NEW back \in SUBSET Connections,
         out' = out \ {<<t, c>> : c \in back}, held' = [held EXCEPT ![t] = @ \ back],
         \A s \in Threads \ {t} : state'[s] = state[s],
         state'[t] = "idle" => back = Connections
  PROVE  PoolHolds' /\ IsFiniteSet(out)'
<1>1. out' \subseteq out /\ IsFiniteSet(out) /\ Cardinality(out) <= Capacity
  BY DEF PoolInv, PoolHolds
<1>2. IsFiniteSet(out') /\ Cardinality(out') <= Capacity
  <2>1. IsFiniteSet(out') /\ Cardinality(out') <= Cardinality(out)
    BY <1>1, FS_Subset
  <2>2. Cardinality(out) \in Nat /\ Cardinality(out') \in Nat /\ Capacity \in Nat
    BY <1>1, <2>1, FS_CardinalityType, TrafficConstantsOK
  <2> QED  BY <2>1, <2>2, <1>1
<1>3. held \in [Threads -> SUBSET Connections]
  BY DEF PoolInv, TypeOK
<1>4. \A s \in Threads : held'[s] = IF s = t THEN held[s] \ back ELSE held[s]
  BY <1>3
<1>5. \A s \in Threads : \A d \in Connections :
        <<s, d>> \in out' <=> <<s, d>> \in out /\ ~(s = t /\ d \in back)
  OBVIOUS
<1>6. \A s \in Threads : \A d \in Connections : <<s, d>> \in out' <=> d \in held'[s]
  <2> SUFFICES ASSUME NEW s \in Threads, NEW d \in Connections
               PROVE  <<s, d>> \in out' <=> d \in held'[s]
    OBVIOUS
  <2>1. <<s, d>> \in out <=> d \in held[s]
    BY DEF PoolInv, PoolHolds
  <2>2. d \in held'[s] <=> d \in held[s] /\ ~(s = t /\ d \in back)
    BY <1>4
  <2>3. <<s, d>> \in out' <=> <<s, d>> \in out /\ ~(s = t /\ d \in back)
    BY <1>5
  <2> QED  BY <2>1, <2>2, <2>3
<1>7. \A s \in Threads : state'[s] = "idle" => held'[s] = {}
  <2> SUFFICES ASSUME NEW s \in Threads, state'[s] = "idle" PROVE held'[s] = {}
    OBVIOUS
  <2>1. CASE s = t
    BY <2>1, <1>3, <1>4
  <2>2. CASE s # t
    BY <2>2, <1>4 DEF PoolInv, PoolHolds
  <2> QED  BY <2>1, <2>2
<1> QED  BY <1>2, <1>6, <1>7 DEF PoolHolds

(* A step that leaves the pool alone and makes no request idle.            *)
LEMMA PoolStays ==
  ASSUME PoolInv, UNCHANGED pool,
         \A s \in Threads : state'[s] = "idle" => state[s] = "idle"
  PROVE  PoolHolds' /\ IsFiniteSet(out)'
<1> QED  BY DEF PoolInv, PoolHolds, pool

LEMMA ServeKeepsPool ==
  ASSUME PoolInv, NEW t \in Threads, Serve(t)
  PROVE  PoolHolds' /\ IsFiniteSet(out)'
<1>1. state \in [Threads -> {"idle", "runs", "searches"}] /\ held \in [Threads -> SUBSET Connections]
  BY DEF PoolInv, TypeOK
<1>2. CASE ReadClock(t) \/ Call(t)
  <2>1. UNCHANGED <<pool, state>>
    BY <1>2 DEF ReadClock, Call
  <2> QED  BY <2>1, PoolStays
<1>3. CASE FirstStatement(t)
  <2>1. Checkout(t, "session") /\ state[t] = "runs" /\ state' = state /\ "session" \in Connections
    BY <1>3 DEF FirstStatement, Takes, Connections
  <2> QED  BY <2>1, CheckoutKeeps
<1>4. CASE connect(t)
  <2>1. /\ Checkout(t, "search") /\ state[t] = "runs" /\ "search" \in Connections
        /\ state' = [state EXCEPT ![t] = "searches"]
    BY <1>4 DEF connect, Takes, Connections
  <2> QED  BY <2>1, <1>1, CheckoutKeeps
<1>5. CASE SearchEnds(t)
  <2>1. /\ out' = out \ {<<t, c>> : c \in {"search"}} /\ held' = [held EXCEPT ![t] = @ \ {"search"}]
        /\ {"search"} \in SUBSET Connections /\ state' = [state EXCEPT ![t] = "runs"]
    BY <1>5 DEF SearchEnds, Connections
  <2>2. state'[t] # "idle" /\ \A s \in Threads \ {t} : state'[s] = state[s]
    BY <2>1, <1>1
  <2> QED  BY <2>1, <2>2, GivesBack
<1>6. CASE SearchFails(t) \/ TimesOut(t) \/ Finish(t)
  <2>1. End(t)
    BY <1>6 DEF SearchFails, TimesOut, Finish
  <2>2. out' = out \ {<<t, c>> : c \in Connections} /\ state' = [state EXCEPT ![t] = "idle"]
    BY <2>1 DEF End
  <2>3. held' = [held EXCEPT ![t] = @ \ Connections]
    BY <2>1, <1>1 DEF End
  <2> QED  BY <2>2, <2>3, <1>1, GivesBack
<1> QED  BY <1>2, <1>3, <1>4, <1>5, <1>6 DEF Serve

LEMMA NextPool == PoolInv /\ TypeOK' /\ [Next]_vars => PoolInv'
<1> SUFFICES ASSUME PoolInv, TypeOK', [Next]_vars PROVE PoolHolds' /\ IsFiniteSet(out)'
  BY DEF PoolInv
<1>1. CASE Tick
  <2>1. UNCHANGED <<pool, state>>
    BY <1>1 DEF Tick
  <2> QED  BY <2>1, PoolStays
<1>2. ASSUME NEW t \in Threads, NEW route \in Routes, Arrive(t, route)
      PROVE  PoolHolds' /\ IsFiniteSet(out)'
  <2>1. UNCHANGED pool /\ state' = [state EXCEPT ![t] = "runs"]
    BY <1>2 DEF Arrive
  <2>2. state \in [Threads -> {"idle", "runs", "searches"}]
    BY DEF PoolInv, TypeOK
  <2> QED  BY <2>1, <2>2, PoolStays
<1>3. ASSUME NEW t \in Threads, Serve(t) PROVE PoolHolds' /\ IsFiniteSet(out)'
  BY <1>3, ServeKeepsPool
<1>4. CASE UNCHANGED vars
  <2>1. UNCHANGED <<pool, state>>
    BY <1>4 DEF vars, pool
  <2> QED  BY <2>1, PoolStays
<1> QED  BY <1>1, <1>2, <1>3, <1>4 DEF Next

LEMMA InitPool == Init => PoolInv
<1> SUFFICES ASSUME Init PROVE PoolInv
  OBVIOUS
<1>1. TypeOK
  BY InitLimiter DEF LimiterInv
<1>2. out = {} /\ Cardinality(out) = 0 /\ IsFiniteSet(out)
  BY FS_EmptySet DEF Init
<1>3. Capacity \in Nat
  BY TrafficConstantsOK
<1> QED  BY <1>1, <1>2, <1>3 DEF Init, PoolInv, PoolHolds

-----------------------------------------------------------------------------
(* The limiter, the pool and the requests are what the module says.        *)
THEOREM SpecTypeOK == Spec => []TypeOK
<1>1. LimiterInv => TypeOK
  BY DEF LimiterInv
<1> QED  BY InitLimiter, NextLimiter, <1>1, PTL DEF Spec

(* Never more than Times calls in a window, counted from the moment the    *)
(* first of them read the clock (ratelimit.py:31-46).                      *)
THEOREM SpecLimitHolds == Spec => []LimitHolds
<1>1. LimiterInv => LimitHolds
  BY DEF LimiterInv
<1> QED  BY InitLimiter, NextLimiter, <1>1, PTL DEF Spec

(* Who comes back after Retry-After is let through, if nobody was between. *)
THEOREM SpecRetryIsHonoured == Spec => RetryIsHonoured
<1>1. LimiterInv =>
        [\A t \in Threads : Call(t) /\ log' = log => \A p \in promised : stamp[t] < p]_vars
  BY CallKeeps
<1> QED  BY InitLimiter, NextLimiter, <1>1, PTL DEF Spec, RetryIsHonoured

(* What the pool gave out is what requests hold, never more than it has,   *)
(* and a request that is over, however it ended, holds nothing (db.py).    *)
THEOREM SpecPoolHolds == Spec => []PoolHolds
<1>1. PoolInv => PoolHolds
  BY DEF PoolInv
<1> QED  BY InitPool, NextPool, SpecTypeOK, <1>1, PTL DEF Spec
=============================================================================
