------------------------- MODULE RateLimiterProofs -------------------------
(***************************************************************************)
(* How many requests the limiter lets through, and whom it refuses, for    *)
(* any number of threads, any limit, window and lateness of threads.       *)
(***************************************************************************)
EXTENDS RateLimiter, FiniteSetTheorems, TLAPS

N == Len(admitted)

(* How many of the requests counted in a window were admitted.             *)
AdmittedIn(w) == IF w.count <= MaxRequests THEN w.count ELSE MaxRequests

(* A waiting thread is late by no more than Latency, and has not read a    *)
(* time that is yet to come.                                               *)
LateInv == \A r \in waiting : r.time <= now /\ now <= r.time + Latency

(* The last requests admitted are those of the window; no request is ever  *)
(* admitted before a window is opened.                                     *)
WindowInv ==
    /\ window = {} => admitted = <<>>
    /\ \A w \in window :
        /\ AdmittedIn(w) <= N
        /\ \A i \in 1..N : i + AdmittedIn(w) > N => admitted[i] >= w.start
        /\ \A i \in 1..N : admitted[i] <= w.start + WindowSeconds + Latency - 1

(* What was admitted in the windows before, counted back from the present  *)
(* one in steps of MaxRequests, was admitted a whole window earlier for    *)
(* each step.                                                              *)
SpacedInv ==
    \A w \in window : \A k \in Nat : \A i \in 1..N :
        i + AdmittedIn(w) + k * MaxRequests <= N
            => admitted[i] + k * WindowSeconds <= w.start + Latency - 1

IInv == TypeOK /\ LateInv /\ WindowInv /\ SpacedInv /\ BurstBounded

-----------------------------------------------------------------------------
(* The constants.                                                          *)

LEMMA Bounds ==
    /\ MaxRequests \in Nat /\ WindowSeconds \in Nat \ {0} /\ Latency \in Nat
    /\ MaxTime \in Nat
    BY RateLimiterAssumption DEF RateLimiterAssumption

(* That many windows reach over two windows and the time threads are late. *)
LEMMA WindowsReach ==
    /\ Windows \in Nat \ {0}
    /\ 2 * WindowSeconds + Latency - 1 <= Windows * WindowSeconds
<1> DEFINE a == 2 * WindowSeconds + Latency - 2
           q == a \div WindowSeconds
<1>1. a \in Nat
    BY Bounds
<1>2. q \in Nat /\ a < (q + 1) * WindowSeconds
    <2> HIDE DEF a
    <2> QED
        BY <1>1, Bounds
<1>3. Windows = q + 1
    BY DEF Windows
<1> HIDE DEF q
<1> QED
    BY <1>2, <1>3, Bounds

(* The log of the admitted is indexed by 1..N and holds times.             *)
LEMMA LogIsTyped ==
    ASSUME TypeOK
    PROVE  /\ admitted \in Seq(Times) /\ N \in Nat /\ DOMAIN admitted = 1..N
           /\ \A i \in 1..N : admitted[i] \in Nat
<1>1. admitted \in Seq(Times)
    BY DEF TypeOK
<1>2. N \in Nat /\ DOMAIN admitted = 1..N
    BY <1>1 DEF N
<1>3. \A i \in 1..N : admitted[i] \in Times
    BY <1>1 DEF N
<1> QED
    BY <1>1, <1>2, <1>3 DEF Times

-----------------------------------------------------------------------------
(* What was admitted before a request of this step, in terms of the window *)
(* x it is counted in.                                                     *)

BeforeIn(x) == IF x.count <= MaxRequests THEN x.count - 1 ELSE MaxRequests

LEMMA AfterIsTyped ==
    ASSUME IInv, NEW r \in waiting
    PROVE  /\ After(r.time) \in Window /\ After(r.time).count >= 1
           /\ After(r.time).start <= now
           /\ now <= After(r.time).start + WindowSeconds + Latency - 1
<1> DEFINE t == r.time
           x == After(t)
<1>1. t \in Nat /\ t <= now /\ now <= t + Latency /\ now \in Nat
    BY DEF IInv, TypeOK, LateInv, Times
<1>2. CASE Current(t) = {}
    <2>1. x = [start |-> t, count |-> 1]
        BY <1>2 DEF After, Opened
    <2> QED
        BY <1>1, <2>1, Bounds DEF Window
<1>3. CASE Current(t) # {}
    <2>1. PICK v \in Current(t) : x = Counted(v)
        BY <1>3 DEF After
    <2>2. v \in window /\ v \in Window /\ v.start <= now /\ ~(t >= v.start + WindowSeconds)
        BY <2>1 DEF Current, Elapsed, IInv, TypeOK
    <2>3. x = [start |-> v.start, count |-> v.count + 1] /\ v.start \in Nat /\ v.count \in Nat
        BY <2>1, <2>2 DEF Counted, Window
    <2> QED
        BY <1>1, <2>2, <2>3, Bounds DEF Window
<1> QED
    BY <1>2, <1>3

LEMMA AfterFrame ==
    ASSUME IInv, NEW r \in waiting, NEW x, x = After(r.time)
    PROVE  /\ BeforeIn(x) \in 0..MaxRequests /\ BeforeIn(x) <= N
           /\ \A i \in 1..N :
                  /\ i + BeforeIn(x) > N => admitted[i] >= x.start
                  /\ admitted[i] <= x.start + WindowSeconds + Latency - 1
                  /\ \A k \in Nat : i + BeforeIn(x) + k * MaxRequests <= N
                         => admitted[i] + k * WindowSeconds <= x.start + Latency - 1
<1> DEFINE t == r.time
<1>1. x \in Window /\ x.count \in Nat \ {0} /\ x.start \in Nat
    BY AfterIsTyped DEF Window
<1>2. N \in Nat /\ \A i \in 1..N : admitted[i] \in Nat
    BY LogIsTyped DEF IInv
<1>3. BeforeIn(x) \in 0..MaxRequests
    BY <1>1, Bounds DEF BeforeIn
<1>4. CASE Current(t) = {}
    <2>1. x = [start |-> t, count |-> 1]
        BY <1>4 DEF After, Opened
    <2>2. BeforeIn(x) = 0
        BY <2>1, Bounds DEF BeforeIn
    <2>3. CASE window = {}
        <3>1. N = 0
            BY <2>3 DEF IInv, WindowInv, N
        <3> QED
            BY <2>2, <3>1, Bounds
    <2>4. CASE window # {}
        <3>1. PICK v \in window : TRUE
            BY <2>4
        <3>2. v.start + WindowSeconds <= x.start /\ v.start \in Nat /\ v.count \in Nat
            BY <1>4, <2>1, <3>1 DEF Current, Elapsed, IInv, TypeOK, Window, Times
        <3>3. AdmittedIn(v) \in Nat /\ AdmittedIn(v) <= MaxRequests
            BY <3>2, Bounds DEF AdmittedIn
        <3>4. ASSUME NEW i \in 1..N
              PROVE  admitted[i] <= x.start + WindowSeconds + Latency - 1
            <4>1. admitted[i] <= v.start + WindowSeconds + Latency - 1
                BY DEF IInv, WindowInv
            <4> QED
                BY <1>1, <1>2, <3>2, <4>1, Bounds
        <3>5. ASSUME NEW i \in 1..N, NEW k \in Nat, i + k * MaxRequests <= N
              PROVE  admitted[i] + k * WindowSeconds <= x.start + Latency - 1
            <4>1. CASE k = 0
                <5>1. admitted[i] <= v.start + WindowSeconds + Latency - 1
                    BY DEF IInv, WindowInv
                <5> QED
                    BY <1>1, <1>2, <3>2, <4>1, <5>1, Bounds
            <4>2. CASE k # 0
                <5> DEFINE j == k - 1
                <5>1. /\ j \in Nat /\ k * MaxRequests = j * MaxRequests + MaxRequests
                      /\ k * WindowSeconds = j * WindowSeconds + WindowSeconds
                      /\ j * MaxRequests \in Nat /\ j * WindowSeconds \in Nat
                    BY <4>2, Bounds
                <5> HIDE DEF j
                <5>2. i + AdmittedIn(v) + j * MaxRequests <= N
                    BY <1>2, <3>3, <3>5, <5>1, Bounds
                <5>3. admitted[i] + j * WindowSeconds <= v.start + Latency - 1
                    BY <3>1, <5>1, <5>2 DEF IInv, SpacedInv
                <5> QED
                    BY <1>1, <1>2, <3>2, <5>1, <5>3, Bounds
            <4> QED
                BY <4>1, <4>2
        <3>6. \A i \in 1..N, k \in Nat : i + 0 + k * MaxRequests = i + k * MaxRequests
            BY Bounds
        <3> QED
            BY <1>2, <1>3, <2>2, <3>4, <3>5, <3>6
    <2> QED
        BY <2>3, <2>4
<1>5. CASE Current(t) # {}
    <2>1. PICK v \in Current(t) : x = Counted(v)
        BY <1>5 DEF After
    <2>2. v \in window /\ v.start \in Nat /\ v.count \in Nat
        BY <2>1 DEF Current, IInv, TypeOK, Window
    <2>3. x.start = v.start /\ x.count = v.count + 1
        <3>1. v \in Window
            BY <2>2 DEF IInv, TypeOK
        <3> QED
            BY <2>1, <3>1 DEF Counted, Window
    <2>4. BeforeIn(x) = AdmittedIn(v)
        BY <2>2, <2>3, Bounds DEF BeforeIn, AdmittedIn
    <2>5. /\ AdmittedIn(v) <= N
          /\ \A i \in 1..N :
                 /\ i + AdmittedIn(v) > N => admitted[i] >= v.start
                 /\ admitted[i] <= v.start + WindowSeconds + Latency - 1
                 /\ \A k \in Nat : i + AdmittedIn(v) + k * MaxRequests <= N
                        => admitted[i] + k * WindowSeconds <= v.start + Latency - 1
        BY <2>2 DEF IInv, WindowInv, SpacedInv
    <2> QED
        BY <1>3, <2>3, <2>4, <2>5
<1> QED
    BY <1>4, <1>5

-----------------------------------------------------------------------------
(* The steps.                                                              *)

LEMMA InvInit == Init => IInv
<1> SUFFICES ASSUME Init PROVE IInv
    OBVIOUS
<1>1. Cardinality({}) = 0
    BY FS_EmptySet
<1>2. TypeOK
    BY <1>1, Bounds DEF Init, TypeOK, Times
<1> QED
    BY <1>2 DEF Init, IInv, LateInv, WindowInv, SpacedInv, BurstBounded

LEMMA ReadClockStep ==
    ASSUME IInv, NEW th \in Threads, ReadClock(th) PROVE IInv'
<1> USE DEF IInv, ReadClock
<1>1. TypeOK'
    BY DEF TypeOK
<1>2. LateInv'
    BY Bounds DEF LateInv, TypeOK, Times
<1>3. WindowInv' /\ SpacedInv' /\ BurstBounded'
    BY DEF WindowInv, SpacedInv, BurstBounded, N, AdmittedIn
<1> QED
    BY <1>1, <1>2, <1>3

LEMMA TickStep == ASSUME IInv, Tick PROVE IInv'
<1> USE DEF IInv, Tick
<1>1. TypeOK'
    BY Bounds DEF TypeOK, Times, Window
<1>2. LateInv'
    BY Bounds DEF LateInv, TypeOK, Times
<1>3. WindowInv' /\ SpacedInv' /\ BurstBounded'
    BY DEF WindowInv, SpacedInv, BurstBounded, N, AdmittedIn
<1> QED
    BY <1>1, <1>2, <1>3

LEMMA AllowStep ==
    ASSUME IInv, NEW th \in Threads, Allow(th) PROVE IInv'
<1>1. PICK r \in waiting :
          /\ waiting' = waiting \ {r}
          /\ window' = {After(r.time)}
          /\ IF Allowed(After(r.time))
             THEN admitted' = Append(admitted, now) /\ UNCHANGED denied
             ELSE denied' = Append(denied, now) /\ UNCHANGED admitted
          /\ UNCHANGED now
    BY DEF Allow
<1> DEFINE x == After(r.time)
           b == BeforeIn(x)
<1>2. /\ x \in Window /\ x.count \in Nat \ {0} /\ x.start \in Nat
      /\ x.start <= now /\ now <= x.start + WindowSeconds + Latency - 1
    BY AfterIsTyped DEF Window
<1>3. /\ b \in 0..MaxRequests /\ b <= N
      /\ \A i \in 1..N :
             /\ i + b > N => admitted[i] >= x.start
             /\ admitted[i] <= x.start + WindowSeconds + Latency - 1
             /\ \A k \in Nat : i + b + k * MaxRequests <= N
                    => admitted[i] + k * WindowSeconds <= x.start + Latency - 1
    BY AfterFrame
<1>4. window' = {x} /\ waiting' \subseteq waiting /\ now' = now
    BY <1>1
<1>5. /\ now \in Nat /\ now \in Times /\ N \in Nat /\ admitted \in Seq(Times)
      /\ \A i \in 1..N : admitted[i] \in Nat
    <2>1. TypeOK
        BY DEF IInv
    <2> QED
        BY <2>1, LogIsTyped DEF TypeOK, Times
<1>6. Allowed(x) <=> x.count <= MaxRequests
    BY DEF Allowed
<1> HIDE DEF x
<1>BND. b \in Nat /\ b <= MaxRequests
    BY <1>3, Bounds
<1>WIN. ASSUME NEW n, N' = n, AdmittedIn(x) <= n,
              \A i \in 1..n :
                  /\ i + AdmittedIn(x) > n => admitted'[i] >= x.start
                  /\ admitted'[i] <= x.start + WindowSeconds + Latency - 1
       PROVE  WindowInv'
    <2> SUFFICES ASSUME NEW w \in window'
                 PROVE  /\ AdmittedIn(w) <= N'
                        /\ \A i \in 1..N' :
                               i + AdmittedIn(w) > N' => admitted'[i] >= w.start
                        /\ \A i \in 1..N' :
                               admitted'[i] <= w.start + WindowSeconds + Latency - 1
        BY <1>4 DEF WindowInv, AdmittedIn
    <2>1. w = x
        BY <1>4
    <2> QED
        BY <1>WIN, <2>1
<1> HIDE DEF b
<1>7. TypeOK'
    <2>1. Cardinality(window') <= 1
        <3>1. Cardinality({x}) = 1
            BY FS_Singleton
        <3> QED
            BY <1>4, <3>1
    <2>2. window' \subseteq Window /\ \A w \in window' : w.start <= now'
        BY <1>2, <1>4
    <2>3. denied \in Seq(Times)
        BY DEF IInv, TypeOK
    <2>4. admitted' \in Seq(Times) /\ denied' \in Seq(Times)
        <3>1. admitted' = Append(admitted, now) \/ admitted' = admitted
            BY <1>1
        <3>2. denied' = Append(denied, now) \/ denied' = denied
            BY <1>1
        <3>3. \A log \in Seq(Times) : Append(log, now) \in Seq(Times)
            BY <1>5
        <3> QED
            BY <1>5, <2>3, <3>1, <3>2, <3>3
    <2> QED
        BY <1>4, <2>1, <2>2, <2>4 DEF IInv, TypeOK
<1>8. LateInv'
    BY <1>4 DEF IInv, LateInv
<1>9. CASE ~Allowed(x)
    <2>1. N' = N /\ admitted' = admitted
        BY <1>1, <1>9 DEF N, x
    <2>2. AdmittedIn(x) = b
        BY <1>2, <1>6, <1>9, Bounds DEF AdmittedIn, BeforeIn, b
    <2>3. WindowInv'
        BY <1>3, <1>WIN, <2>1, <2>2
    <2>4. SpacedInv'
        BY <1>3, <1>4, <2>1, <2>2 DEF SpacedInv, AdmittedIn
    <2>5. BurstBounded'
        BY <2>1 DEF IInv, BurstBounded
    <2> QED
        BY <1>7, <1>8, <2>3, <2>4, <2>5 DEF IInv
<1>10. CASE Allowed(x)
    <2>1. /\ N' = N + 1 /\ admitted' = Append(admitted, now)
          /\ admitted'[N + 1] = now /\ \A i \in 1..N : admitted'[i] = admitted[i]
          /\ DOMAIN admitted = 1..N /\ DOMAIN admitted' = 1..(N + 1)
        BY <1>1, <1>5, <1>10 DEF N, x
    <2>2. AdmittedIn(x) = b + 1 /\ b + 1 <= MaxRequests
        BY <1>2, <1>6, <1>10, Bounds DEF AdmittedIn, BeforeIn, b
    <2>3. WindowInv'
        <3>1. AdmittedIn(x) <= N + 1
            BY <1>3, <1>5, <2>2, Bounds
        <3>2. ASSUME NEW i \in 1..(N + 1)
              PROVE  /\ i + AdmittedIn(x) > N + 1 => admitted'[i] >= x.start
                     /\ admitted'[i] <= x.start + WindowSeconds + Latency - 1
            <4>1. CASE i = N + 1
                BY <1>2, <2>1, <4>1
            <4>2. CASE i # N + 1
                <5>1. i \in 1..N
                    BY <1>5, <4>2
                <5>2. i + AdmittedIn(x) > N + 1 => i + b > N
                    BY <1>3, <1>5, <2>2, Bounds
                <5> QED
                    BY <1>3, <2>1, <5>1, <5>2
            <4> QED
                BY <4>1, <4>2
        <3> QED
            BY <1>WIN, <2>1, <3>1, <3>2
    <2>4. SpacedInv'
        <3> SUFFICES ASSUME NEW k \in Nat, NEW i \in 1..(N + 1),
                            i + AdmittedIn(x) + k * MaxRequests <= N + 1
                     PROVE  admitted'[i] + k * WindowSeconds <= x.start + Latency - 1
            BY <1>4, <2>1 DEF SpacedInv, AdmittedIn
        <3>1. k * MaxRequests \in Nat
            BY Bounds
        <3> DEFINE m == k * MaxRequests
        <3>2. m \in Nat /\ i + (b + 1) + m <= N + 1
            BY <2>2, <3>1
        <3> HIDE DEF m
        <3>3. i \in 1..N /\ i + b + m <= N
            BY <1>5, <1>BND, <3>2
        <3>4. i \in 1..N /\ i + b + k * MaxRequests <= N
            BY <3>3 DEF m
        <3> QED
            BY <1>3, <2>1, <3>4
    <2>5. BurstBounded'
        <3> SUFFICES ASSUME NEW i \in 1..(N + 1), NEW j \in 1..(N + 1),
                            j = i + Windows * MaxRequests
                     PROVE  admitted'[j] - admitted'[i] >= WindowSeconds
            BY <2>1 DEF BurstBounded
        <3> DEFINE k == Windows - 1
        <3>1. /\ k \in Nat
              /\ Windows * MaxRequests = k * MaxRequests + MaxRequests
              /\ Windows * WindowSeconds = k * WindowSeconds + WindowSeconds
              /\ k * MaxRequests \in Nat /\ k * WindowSeconds \in Nat
            BY WindowsReach, Bounds
        <3> HIDE DEF k
        <3>2. i \in 1..N
            BY <1>3, <1>5, <2>2, <3>1, Bounds
        <3>3. CASE j = N + 1
            <4>1. i + b + k * MaxRequests <= N
                BY <1>3, <1>5, <2>2, <3>1, <3>3, Bounds
            <4>2. admitted[i] + k * WindowSeconds <= x.start + Latency - 1
                BY <1>3, <3>1, <3>2, <4>1
            <4>3. 2 * WindowSeconds + Latency - 1 <= k * WindowSeconds + WindowSeconds
                BY <3>1, WindowsReach
            <4>4. now - admitted[i] >= WindowSeconds
                <5> DEFINE m == k * WindowSeconds
                <5>1. /\ m \in Nat /\ admitted[i] + m <= x.start + Latency - 1
                      /\ 2 * WindowSeconds + Latency - 1 <= m + WindowSeconds
                      /\ admitted[i] \in Nat
                    BY <1>5, <3>1, <3>2, <4>2, <4>3
                <5> HIDE DEF m
                <5> DEFINE s == x.start
                           a == admitted[i]
                <5>2. /\ s \in Nat /\ s <= now /\ now \in Nat /\ a \in Nat
                      /\ a + m <= s + Latency - 1
                    BY <1>2, <1>5, <5>1
                <5> HIDE DEF s, a
                <5>3. now - a >= WindowSeconds
                    BY <5>1, <5>2, Bounds
                <5> QED
                    BY <5>3 DEF a
            <4> QED
                BY <2>1, <3>2, <3>3, <4>4
        <3>4. CASE j # N + 1
            <4>1. j \in 1..N
                BY <1>5, <3>4
            <4> QED
                BY <2>1, <3>2, <4>1 DEF IInv, BurstBounded
        <3> QED
            BY <3>3, <3>4
    <2> QED
        BY <1>7, <1>8, <2>3, <2>4, <2>5 DEF IInv
<1> QED
    BY <1>9, <1>10

LEMMA InvStep == IInv /\ [Next]_vars => IInv'
<1> SUFFICES ASSUME IInv, [Next]_vars PROVE IInv'
    OBVIOUS
<1>1. CASE UNCHANGED vars
    BY <1>1 DEF vars, IInv, TypeOK, LateInv, WindowInv, SpacedInv, BurstBounded, N, AdmittedIn
<1> QED
    BY <1>1, ReadClockStep, AllowStep, TickStep DEF Next

-----------------------------------------------------------------------------
(* The inductive invariant: how far back what was admitted in each window  *)
(* before the present one must lie.                                        *)
THEOREM LimiterInvariant == Spec => []IInv
    BY InvInit, InvStep, PTL DEF Spec

(* The clock, the window and the logs keep their types.                    *)
THEOREM TypeCorrect == Spec => []TypeOK
<1>1. IInv => TypeOK
    BY DEF IInv
<1> QED
    BY <1>1, LimiterInvariant, PTL

(* No stretch of a window's length sees more than Windows windows' worth   *)
(* of requests admitted, whatever the threads do between reading the clock *)
(* and taking the lock.                                                    *)
THEOREM BurstsAreBounded == Spec => []BurstBounded
<1>1. IInv => BurstBounded
    BY DEF IInv
<1> QED
    BY <1>1, LimiterInvariant, PTL

(* Who is refused comes after MaxRequests admitted requests no older than  *)
(* a window and the lateness of a thread.                                  *)
THEOREM RefusalsAreJustified == Spec => RefusalJustified
<1> DEFINE A == denied' # denied =>
                  /\ Len(admitted) >= MaxRequests
                  /\ \A i \in DOMAIN admitted : i > Len(admitted) - MaxRequests =>
                         admitted[i] > now - (WindowSeconds + Latency)
<1>1. ASSUME IInv, [Next]_vars PROVE [A]_vars
    <2> SUFFICES ASSUME denied' # denied PROVE A
        OBVIOUS
    <2>1. PICK th \in Threads : Allow(th)
        BY <1>1 DEF Next, vars, ReadClock, Tick
    <2>2. PICK r \in waiting : ~Allowed(After(r.time))
        BY <2>1 DEF Allow
    <2> DEFINE x == After(r.time)
    <2>3. /\ x.count \in Nat /\ x.start \in Nat
          /\ now <= x.start + WindowSeconds + Latency - 1
        BY <1>1, AfterIsTyped DEF Window
    <2>4. BeforeIn(x) <= N /\ \A i \in 1..N : i + BeforeIn(x) > N => admitted[i] >= x.start
        BY <1>1, AfterFrame
    <2>5. BeforeIn(x) = MaxRequests
        BY <2>2, <2>3, Bounds DEF Allowed, BeforeIn
    <2>6. /\ now \in Nat /\ N = Len(admitted) /\ DOMAIN admitted = 1..N
          /\ N \in Nat /\ \A i \in 1..N : admitted[i] \in Nat
        <3>1. TypeOK
            BY <1>1 DEF IInv
        <3> QED
            BY <3>1, LogIsTyped DEF TypeOK, N, Times
    <2> HIDE DEF x
    <2>7. ASSUME NEW i \in 1..N, i > N - MaxRequests
          PROVE  admitted[i] > now - (WindowSeconds + Latency)
        <3>1. admitted[i] >= x.start
            <4>1. i + MaxRequests > N
                BY <2>6, <2>7, Bounds
            <4> QED
                BY <2>4, <2>5, <4>1
        <3> QED
            BY <2>3, <2>6, <3>1, Bounds
    <2> QED
        BY <2>4, <2>5, <2>6, <2>7, Bounds
<1>2. IInv /\ [Next]_vars => [A]_vars
    BY <1>1
<1> QED
    BY <1>2, LimiterInvariant, PTL DEF Spec, RefusalJustified

=============================================================================
