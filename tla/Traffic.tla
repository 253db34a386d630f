------------------------------ MODULE Traffic ------------------------------
(***************************************************************************)
(* Requests at the door of the server: the limit of calls in a sliding     *)
(* window (RateLimit) and the pool of database connections.  A request     *)
(* runs in a thread.  What it takes, in order, is its route:               *)
(*                                                                         *)
(*   limit     one call of the RateLimit of its path and address           *)
(*   session   the connection of get_db, taken by the first statement and  *)
(*             kept until the response is sent                             *)
(*   search    the connection of searching.candidates, given back after    *)
(*             the search                                                  *)
(*                                                                         *)
(* The clock counts ticks, Unit of them a second.                          *)
(***************************************************************************)
EXTENDS Integers, Sequences, FiniteSets

CONSTANTS
  Threads,
  Routes,              \* what requests take
  Times, Seconds,      \* the limit: Times calls in Seconds
  Unit,                \* ticks of a second
  Capacity,            \* pool_size + max_overflow
  MaxClock, MaxCalls   \* bounds: ticks, calls let through

ASSUME TrafficConstantsOK ==
  /\ {Times, Seconds, Unit} \subseteq Nat \ {0}
  /\ {Capacity, MaxClock, MaxCalls} \subseteq Nat
  /\ Routes \subseteq Seq({"limit", "session", "search"})
  /\ \A r \in Routes : r # <<>> /\ \A i \in DOMAIN r : r[i] = "limit" => i = 1 /\ Len(r) > 1

NotRead == -1
Window == Seconds * Unit
Connections == {"session", "search"}

VARIABLES
  clock,
  todo,        \* thread -> what its request still takes
  state,       \* thread -> "idle", "runs" or "searches"
  stamp,       \* thread -> the clock as its call of RateLimit read it
  log,         \* the calls let through: their stamps, and when
  popped,      \* how many of them have left the deque on the left
  promised,    \* when a retry was promised to succeed, since the last call let through
  held,        \* thread -> its connections
  out          \* what the pool has given out

vars == <<clock, todo, state, stamp, log, popped, promised, held, out>>
limiter == <<log, popped, promised>>
pool == <<held, out>>

Init ==
  /\ clock = 0
  /\ todo = [t \in Threads |-> <<>>]
  /\ state = [t \in Threads |-> "idle"]
  /\ stamp = [t \in Threads |-> NotRead]
  /\ log = <<>> /\ popped = 0 /\ promised = {}
  /\ held = [t \in Threads |-> {}] /\ out = {}

Takes(t, what) == state[t] = "runs" /\ todo[t] # <<>> /\ Head(todo[t]) = what

Calling == {t \in Threads : Takes(t, "limit")}

Arrive(t, route) ==
  /\ state[t] = "idle"
  /\ Head(route) = "limit" => Len(log) + Cardinality(Calling) < MaxCalls
  /\ state' = [state EXCEPT ![t] = "runs"]
  /\ todo' = [todo EXCEPT ![t] = route]
  /\ UNCHANGED <<clock, stamp, limiter, pool>>

-----------------------------------------------------------------------------
(* RateLimit.__call__: the clock is read before the lock is taken.         *)
ReadClock(t) ==
  /\ Takes(t, "limit") /\ stamp[t] = NotRead
  /\ stamp' = [stamp EXCEPT ![t] = clock]
  /\ UNCHANGED <<clock, todo, state, limiter, pool>>

(* What leaves on the left, seen at now: the calls up to the k-th.         *)
(* Mutant: with the head the whole deque is emptied.                       *)
PopsAll(now, k) ==
  k = IF popped < Len(log) /\ now - log[popped + 1].stamp >= Window THEN Len(log) ELSE popped

Pops(now, k) ==
  /\ k \in popped..Len(log)
  /\ \A i \in popped + 1..k : now - log[i].stamp >= Window
  /\ k < Len(log) => now - log[k + 1].stamp < Window

(* retry_after, in seconds.  Mutant: rounded down.                         *)
RoundedDown(now, head) == (Window - (now - head)) \div Unit

(* Mutant: the subtraction the other way round.                            *)
OtherWayRound(now, head) == ((now - head) - Window) \div Unit + 1

retry_after(now, head) == (Window - (now - head)) \div Unit + 1

LetThrough(t, k) ==
  /\ Len(log) - k < Times
  /\ log' = Append(log, [stamp |-> stamp[t], at |-> clock])
  /\ promised' = {}
  /\ todo' = [todo EXCEPT ![t] = Tail(todo[t])]

(* 429: the request is over.                                               *)
TurnedAway(t, k) ==
  /\ Len(log) - k >= Times
  /\ promised' = promised \cup {stamp[t] + Unit * retry_after(stamp[t], log[k + 1].stamp)}
  /\ todo' = [todo EXCEPT ![t] = <<>>]
  /\ UNCHANGED log

Call(t) ==
  /\ Takes(t, "limit") /\ stamp[t] # NotRead
  /\ \E k \in popped..Len(log) :
       /\ Pops(stamp[t], k)
       /\ popped' = k
       /\ LetThrough(t, k) \/ TurnedAway(t, k)
  /\ UNCHANGED <<clock, state, stamp, pool>>

-----------------------------------------------------------------------------
(* The pool.                                                               *)
Room == Cardinality(out) < Capacity

Checkout(t, c) ==
  /\ Room
  /\ held' = [held EXCEPT ![t] = @ \cup {c}]
  /\ out' = out \cup {<<t, c>>}

(* A request that ends gives everything back (get_db and candidates close  *)
(* in finally).  Mutant: a search that fails keeps its connection.         *)
EndKeeping(t) ==
  /\ state' = [state EXCEPT ![t] = "idle"]
  /\ todo' = [todo EXCEPT ![t] = <<>>]
  /\ stamp' = [stamp EXCEPT ![t] = NotRead]
  /\ held' = [held EXCEPT ![t] = {}]
  /\ out' = out \ {<<t, "session">>}

End(t) ==
  /\ state' = [state EXCEPT ![t] = "idle"]
  /\ todo' = [todo EXCEPT ![t] = <<>>]
  /\ stamp' = [stamp EXCEPT ![t] = NotRead]
  /\ held' = [held EXCEPT ![t] = {}]
  /\ out' = out \ {<<t, c>> : c \in Connections}

FirstStatement(t) ==
  /\ Takes(t, "session") /\ Checkout(t, "session")
  /\ todo' = [todo EXCEPT ![t] = Tail(todo[t])]
  /\ UNCHANGED <<clock, state, stamp, limiter>>

connect(t) ==
  /\ Takes(t, "search") /\ Checkout(t, "search")
  /\ state' = [state EXCEPT ![t] = "searches"]
  /\ UNCHANGED <<clock, todo, stamp, limiter>>

SearchEnds(t) ==
  /\ state[t] = "searches"
  /\ state' = [state EXCEPT ![t] = "runs"]
  /\ todo' = [todo EXCEPT ![t] = Tail(todo[t])]
  /\ held' = [held EXCEPT ![t] = @ \ {"search"}]
  /\ out' = out \ {<<t, "search">>}
  /\ UNCHANGED <<clock, stamp, limiter>>

SearchFails(t) ==
  /\ state[t] = "searches" /\ End(t)
  /\ UNCHANGED <<clock, limiter>>

(* pool_timeout: who waited too long ends with an error.                   *)
(* Mutant: only who waits for a session does.                              *)
WaitsForSession(t) == Takes(t, "session") /\ ~Room

Waits(t) == (\E c \in Connections : Takes(t, c)) /\ ~Room

TimesOut(t) == Waits(t) /\ End(t) /\ UNCHANGED <<clock, limiter>>

Finish(t) ==
  /\ state[t] = "runs" /\ todo[t] = <<>> /\ End(t)
  /\ UNCHANGED <<clock, limiter>>

(* At its bound the clock stands still.                                    *)
Tick ==
  /\ clock' = IF clock < MaxClock THEN clock + 1 ELSE clock
  /\ UNCHANGED <<todo, state, stamp, limiter, pool>>

Serve(t) ==
  \/ ReadClock(t) \/ Call(t)
  \/ FirstStatement(t) \/ connect(t) \/ SearchEnds(t) \/ SearchFails(t)
  \/ TimesOut(t) \/ Finish(t)

Next ==
  \/ Tick
  \/ \E t \in Threads : Serve(t) \/ \E route \in Routes : Arrive(t, route)

(* A thread goes on, and a wait for the pool ends after pool_timeout.      *)
Spec == Init /\ [][Next]_vars /\ \A t \in Threads : WF_vars(Serve(t))

-----------------------------------------------------------------------------
Entry == [stamp: Nat, at: Nat]

TypeOK ==
  /\ clock \in Nat
  /\ todo \in [Threads -> Seq({"limit", "session", "search"})]
  /\ state \in [Threads -> {"idle", "runs", "searches"}]
  /\ \A t \in Threads : state[t] = "searches" => todo[t] # <<>>
  /\ stamp \in [Threads -> Nat \cup {NotRead}]
  /\ log \in Seq(Entry) /\ popped \in 0..Len(log) /\ promised \subseteq Nat
  /\ held \in [Threads -> SUBSET Connections] /\ out \subseteq Threads \X Connections

(* "seconds 안에 times 번을 넘으면 429" (ratelimit.py:23): from the moment a    *)
(* call that is let through reads the clock, no more than Times - 1 later  *)
(* ones are let through within the window, though calls read the clock     *)
(* before they queue for the lock and enter the deque out of order.        *)
LimitHolds ==
  \A i, j \in DOMAIN log : j - i >= Times => log[j].at - log[i].stamp >= Window

(* Who is told to come back in retry_after seconds and does, is not turned *)
(* away again, unless somebody else was let through meanwhile.             *)
RetryIsHonoured ==
  [][\A t \in Threads : Call(t) /\ log' = log => \A p \in promised : stamp[t] < p]_vars

(* The pool never gives out more than it has, what is out is held by a     *)
(* request, and a request that is over holds nothing, however it ended.    *)
PoolHolds ==
  /\ Cardinality(out) <= Capacity
  /\ \A t \in Threads : \A c \in Connections : <<t, c>> \in out <=> c \in held[t]
  /\ \A t \in Threads : state[t] = "idle" => held[t] = {}

(* A request ends, also when all of them hold a session and wait for the   *)
(* connection of the search: nobody can give one back, and pool_timeout    *)
(* alone ends it (db.py:25-27).                                            *)
RequestsEnd == \A t \in Threads : state[t] # "idle" ~> state[t] = "idle"
=============================================================================
