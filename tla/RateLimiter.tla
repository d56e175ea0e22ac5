---------------------------- MODULE RateLimiter ----------------------------
(***************************************************************************)
(* The fixed-window rate limiter (service/app/rate_limit.py), for one      *)
(* client key: windows of different keys never meet.                       *)
(*                                                                         *)
(* allow() reads the clock before it takes the lock, so a thread may count *)
(* its request with a time that is older than the window it finds.         *)
(***************************************************************************)
EXTENDS Integers, FiniteSets, Sequences

CONSTANTS
    Threads,        \* the server's threads
    MaxRequests,    \* max_requests
    WindowSeconds,  \* window_seconds
    Latency,        \* bound: time between reading the clock and the lock
    MaxPerTick,     \* bound: requests at one time
    MaxTime         \* bound: the clock of a behaviour

ASSUME RateLimiterAssumption ==
    /\ MaxRequests \in Nat
    /\ WindowSeconds \in Nat \ {0}
    /\ Latency \in Nat
    /\ MaxPerTick \in Nat
    /\ MaxTime \in Nat

VARIABLES
    now,        \* the clock
    window,     \* the _Window of the key: none, or one with start and count
    waiting,    \* the threads between time.time() and the lock, each with `now`
    admitted,   \* observation: when requests were allowed, in order
    denied      \* observation: when requests were refused, in order

vars == <<now, window, waiting, admitted, denied>>

Window == [start : Nat, count : Nat]

Times == 0 .. MaxTime

Init ==
    /\ now = 0
    /\ window = {}
    /\ waiting = {}
    /\ admitted = <<>>
    /\ denied = <<>>

(* How many of the requests noted in a log were answered at time t.        *)
AnsweredAt(log, t) == Cardinality({i \in DOMAIN log : log[i] = t})

(* now = time.time() *)
ReadClock(th) ==
    /\ \A r \in waiting : r.thread # th
    /\ AnsweredAt(admitted, now) + AnsweredAt(denied, now) + Cardinality(waiting) < MaxPerTick
    /\ waiting' = waiting \union {[thread |-> th, time |-> now]}
    /\ UNCHANGED <<now, window, admitted, denied>>

ElapsedEither(w, t) ==  \* a mistake: to take an old time for a new window
    t >= w.start + WindowSeconds \/ t < w.start

ElapsedLater(w, t) == t > w.start + WindowSeconds  \* a mistake: off by one

Elapsed(w, t) == t >= w.start + WindowSeconds

Current(t) == {w \in window : ~Elapsed(w, t)}

Counted(w) == [w EXCEPT !.count = @ + 1]

OpenedByEnd(t) == [start |-> t + WindowSeconds, count |-> 1]  \* a mistake: its end

Opened(t) == [start |-> t, count |-> 1]

(* The window a request of time t is counted in, with it counted. *)
After(t) ==
    IF Current(t) = {} THEN Opened(t)
    ELSE Counted(CHOOSE w \in Current(t) : TRUE)

Allowed(w) == w.count <= MaxRequests

(* The rest of allow(), under the lock. *)
Allow(th) ==
    \E r \in waiting :
        /\ r.thread = th
        /\ waiting' = waiting \ {r}
        /\ window' = {After(r.time)}
        /\ IF Allowed(After(r.time))
           THEN admitted' = Append(admitted, now) /\ UNCHANGED denied
           ELSE denied' = Append(denied, now) /\ UNCHANGED admitted
        /\ UNCHANGED now

Tick ==
    /\ now < MaxTime
    /\ \A r \in waiting : now < r.time + Latency
    /\ now' = now + 1
    /\ UNCHANGED <<window, waiting, admitted, denied>>

Next == (\E th \in Threads : ReadClock(th) \/ Allow(th)) \/ Tick

Spec == Init /\ [][Next]_vars

-----------------------------------------------------------------------------
(* The clock, the window and the waiting threads keep their types, and a   *)
(* window does not start after the time it is (rate_limit.py:33-39).       *)
TypeOK ==
    /\ now \in Times
    /\ window \subseteq Window /\ Cardinality(window) <= 1
    /\ waiting \subseteq [thread : Threads, time : Times]
    /\ admitted \in Seq(Times)
    /\ denied \in Seq(Times)
    /\ \A w \in window : w.start <= now

(* Windows in which a stretch of WindowSeconds can be admitted, if threads *)
(* reach the lock at most Latency after they read the clock.               *)
Windows == (2 * WindowSeconds + Latency - 2) \div WindowSeconds + 1

(* The documented burst at a window boundary is the worst there is: no     *)
(* stretch of WindowSeconds sees more than two windows' worth of requests  *)
(* admitted, a third only if a thread is late by more than one unit of     *)
(* time, and a late thread never opens a window of the past.  So between   *)
(* a request and the one admitted so many places later at least            *)
(* WindowSeconds pass (rate_limit.py:3-8, 33-42).                          *)
BurstBounded ==
    \A i, j \in DOMAIN admitted :
        j = i + Windows * MaxRequests => admitted[j] - admitted[i] >= WindowSeconds

(* Nobody is refused who has not had MaxRequests admitted just before: a   *)
(* refused request counts, but does not prolong the window it is refused   *)
(* in (rate_limit.py:36-42).                                               *)
RefusalJustified ==
    [][denied' # denied =>
          /\ Len(admitted) >= MaxRequests
          /\ \A i \in DOMAIN admitted : i > Len(admitted) - MaxRequests =>
                 admitted[i] > now - (WindowSeconds + Latency)]_vars

=============================================================================
