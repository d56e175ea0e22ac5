------------------------- MODULE LinkServiceProofs -------------------------
(***************************************************************************)
(* What the link service promises, for any codes, requests, lifetimes and  *)
(* cache sizes, and for any latency of the requests.                       *)
(***************************************************************************)
EXTENDS LinkServiceProperties, SequenceTheorems, TLAPS

Request == [pc : PCs, kind : Kinds \union {"none"}, code : SUBSET Codes,
            link : SUBSET Link, expires : Nat, collisions : 0 .. MaxCollisions,
            since : Nat, reply : Replies]

CacheEntry == [code : Codes, link : SUBSET Link, until : Nat]

NoCodeTwice(s) == \A i, j \in DOMAIN s : s[i].code = s[j].code => i = j

CacheOK(s) == s \in Seq(CacheEntry) /\ Len(s) <= CacheMax /\ NoCodeTwice(s)

(* A request in flight, and one answered with a link, is about one code    *)
(* and has had no more time than it may take.                              *)
InService(r) == req[r].pc \notin {"idle", "done"}

RequestInv ==
    \A r \in Requests :
        /\ InService(r) \/ req[r].reply \in {"created", "redirected", "found"}
               => \E c \in Codes : req[r].code = {c}
        /\ req[r].pc # "done" => req[r].reply = "none"
        /\ req[r].pc \in {"fill", "click"} => req[r].kind = "redirect"
        /\ req[r].pc = "select" => req[r].link = {}
        /\ req[r].since <= now
        /\ InService(r) => now <= req[r].since + Latency

ChangedInv == changed \in [Codes -> Nat] /\ \A c \in Codes : changed[c] <= now

(* Who is or will be told to have a code has its row.  Whose row a code    *)
(* has was or will be told so, unless it was lost with the process.        *)
Wins(r, c) == (req[r].pc = "answer" \/ req[r].reply = "created") /\ req[r].code = {c}

Owns(r, c) == Wins(r, c) \/ req[r].reply = "lost"

HasRow(r, c) == \E l \in links : l.code = c /\ l.owner = r

CopyOf(copy, c) == \A l \in copy : l.code = c /\ HasRow(l.owner, c)

AtMostOne(copy) == \A l, m \in copy : l = m

RowsInv ==
    /\ \A l, m \in links : l.code = m.code => l = m
    /\ \A l \in links : Owns(l.owner, l.code)
    /\ \A r \in Requests, c \in Codes : Wins(r, c) => HasRow(r, c)

CopiesInv ==
    /\ \A i \in DOMAIN store :
           CopyOf(store[i].link, store[i].code) /\ AtMostOne(store[i].link)
    /\ \A r \in Requests :
           /\ AtMostOne(req[r].link)
           /\ \A l \in req[r].link : {l.code} = req[r].code /\ HasRow(l.owner, l.code)

(* What was let through at the check had not expired when asked for.       *)
ExpiryInv ==
    \A r \in Requests : req[r].pc = "click" \/ req[r].reply \in {"redirected", "found"} =>
        \A l \in req[r].link : l.expires # 0 => req[r].since <= l.expires

(* A copy that differs from its row was made, or asked for, no later than  *)
(* some time after the row changed.                                        *)
Differs(copy, c) == Active(copy) # Active(Row(c))

Lags(copy, c, t, by) == t <= now + by /\ (Differs(copy, c) => t <= changed[c] + by)

StaleInv ==
    /\ \A i \in DOMAIN store :
           Lags(store[i].link, store[i].code, store[i].until, CacheTTL + Latency)
    /\ \A r \in Requests : req[r].pc = "fill" =>
           Lags(req[r].link, CodeOf(r), req[r].since, 0)
    /\ \A r \in Requests : req[r].pc \in {"check", "click"} /\ req[r].kind = "redirect" =>
           Lags(req[r].link, CodeOf(r), req[r].since, CacheTTL + Latency)

IInv == TypeOK /\ RequestInv /\ ChangedInv /\ RowsInv /\ CopiesInv /\ ExpiryInv
        /\ DeletionReachesCache /\ StaleInv

USE DEF Kinds, PCs, Replies

LEMMA Bounds ==
    /\ CacheTTL \in Nat /\ CacheMax \in Nat \ {0}
    /\ MaxCollisions \in Nat /\ Latency \in Nat /\ MaxTime \in Nat
    BY LinkServiceAssumption DEF LinkServiceAssumption

-----------------------------------------------------------------------------
(* The cache: what its methods leave in it was there before, but for the   *)
(* entry that set adds.                                                    *)

Before(e) == \E j \in DOMAIN store : e = store[j]

LEMMA WithoutOK ==
    ASSUME CacheOK(store), NEW c \in Codes
    PROVE  /\ CacheOK(Without(c))
           /\ \A i \in DOMAIN Without(c) : Before(Without(c)[i]) /\ Without(c)[i].code # c
           /\ Entry(c) # {} => Len(Without(c)) < CacheMax
<1> USE Bounds DEF CacheOK, Before
<1>1. CASE Entry(c) = {}
    BY <1>1 DEF Without, Entry
<1>2. CASE Entry(c) # {}
    <2> DEFINE k == CHOOSE i \in Entry(c) : TRUE
               s == Without(c)
               n == Len(store)
    <2>1. k \in 1..n /\ store[k].code = c
        BY <1>2 DEF Entry
    <2> DEFINE a == SubSeq(store, 1, k - 1)
               b == SubSeq(store, k + 1, n)
    <2>2. s = a \o b
        BY <1>2 DEF Without, RemoveAt
    <2> HIDE DEF k, s
    <2>a. a \in Seq(CacheEntry) /\ Len(a) = k - 1 /\ \A i \in 1..(k - 1) : a[i] = store[i]
        BY <2>1
    <2>b. b \in Seq(CacheEntry) /\ Len(b) = n - k /\ \A i \in 1..(n - k) : b[i] = store[i + k]
        BY <2>1
    <2> HIDE DEF a, b
    <2>3. /\ s \in Seq(CacheEntry)
          /\ Len(s) = n - 1
          /\ \A i \in 1..(n - 1) : s[i] = IF i < k THEN store[i] ELSE store[i + 1]
        <3>1. /\ s \in Seq(CacheEntry)
              /\ Len(s) = (k - 1) + (n - k)
              /\ \A i \in 1..(n - 1) : s[i] = IF i <= k - 1 THEN a[i] ELSE b[i - (k - 1)]
            <4>1. /\ s \in Seq(CacheEntry)
                  /\ Len(s) = Len(a) + Len(b)
                  /\ \A i \in 1..(Len(a) + Len(b)) :
                         s[i] = IF i <= Len(a) THEN a[i] ELSE b[i - Len(a)]
                BY <2>2, <2>a, <2>b, ConcatProperties
            <4>2. Len(a) = k - 1 /\ Len(a) + Len(b) = n - 1
                BY <2>1, <2>a, <2>b
            <4> QED
                BY <2>a, <2>b, <4>1, <4>2
        <3>2. ASSUME NEW i \in 1..(n - 1)
              PROVE  s[i] = IF i < k THEN store[i] ELSE store[i + 1]
            <4>1. CASE i < k
                <5>1. i \in 1..(k - 1) /\ i <= k - 1
                    BY <2>1, <4>1
                <5>2. s[i] = a[i]
                    BY <3>1, <5>1
                <5> QED
                    BY <2>a, <4>1, <5>1, <5>2
            <4>2. CASE ~(i < k)
                <5>1. i - (k - 1) \in 1..(n - k) /\ i - (k - 1) + k = i + 1
                    BY <2>1, <4>2
                <5>2. s[i] = b[i - (k - 1)]
                    BY <2>1, <3>1, <4>2
                <5> QED
                    BY <2>b, <4>2, <5>1, <5>2
            <4> QED
                BY <4>1, <4>2
        <3> QED
            BY <2>1, <3>1, <3>2
    <2>4. DOMAIN s = 1..(n - 1)
        BY <2>3
    <2>5. ASSUME NEW i \in DOMAIN s
          PROVE  \E j \in DOMAIN store : s[i] = store[j] /\ j # k
                                         /\ j = IF i < k THEN i ELSE i + 1
        BY <2>1, <2>3, <2>4
    <2>6. \A i \in DOMAIN s : Before(s[i]) /\ s[i].code # c
        BY <2>1, <2>5 DEF NoCodeTwice
    <2>7. NoCodeTwice(s)
        <3> SUFFICES ASSUME NEW i \in DOMAIN s, NEW j \in DOMAIN s, s[i].code = s[j].code
                     PROVE  i = j
            BY DEF NoCodeTwice
        <3>1. PICK u \in DOMAIN store : s[i] = store[u] /\ u = IF i < k THEN i ELSE i + 1
            BY <2>5
        <3>2. PICK v \in DOMAIN store : s[j] = store[v] /\ v = IF j < k THEN j ELSE j + 1
            BY <2>5
        <3>3. u = v
            BY <3>1, <3>2 DEF NoCodeTwice
        <3>4. i \in Nat /\ j \in Nat /\ k \in Nat
            BY <2>1, <2>4
        <3> QED
            BY <3>1, <3>2, <3>3, <3>4
    <2>8. Len(s) < CacheMax
        BY <2>1, <2>3
    <2>9. CacheOK(s)
        BY <2>3, <2>7, <2>8
    <2> QED
        BY <2>6, <2>8, <2>9 DEF s
<1> QED
    BY <1>1, <1>2

(* Appending an entry of a code that is not there.                         *)
LEMMA AppendOK ==
    ASSUME NEW s \in Seq(CacheEntry), NEW e \in CacheEntry, NoCodeTwice(s),
           \A i \in DOMAIN s : s[i].code # e.code
    PROVE  /\ Append(s, e) \in Seq(CacheEntry)
           /\ Len(Append(s, e)) = Len(s) + 1
           /\ NoCodeTwice(Append(s, e))
           /\ \A i \in DOMAIN Append(s, e) :
                  Append(s, e)[i] = e \/ \E j \in DOMAIN s : Append(s, e)[i] = s[j]
<1> DEFINE t == Append(s, e)
           n == Len(s)
<1>1. /\ t \in Seq(CacheEntry)
      /\ Len(t) = n + 1
      /\ \A i \in 1..n : t[i] = s[i]
      /\ t[n + 1] = e
    OBVIOUS
<1>2. n \in Nat /\ DOMAIN t = 1..(n + 1) /\ DOMAIN s = 1..n
    BY <1>1
<1> HIDE DEF t, n
<1>3. ASSUME NEW i \in DOMAIN t PROVE i = n + 1 \/ (i \in 1..n /\ t[i] = s[i])
    BY <1>1, <1>2
<1>4. NoCodeTwice(t)
    BY <1>1, <1>2, <1>3 DEF NoCodeTwice
<1>5. \A i \in DOMAIN t : t[i] = e \/ \E j \in DOMAIN s : t[i] = s[j]
    BY <1>1, <1>2, <1>3
<1> QED
    BY <1>1, <1>4, <1>5 DEF t, n

LEMMA TailOK ==
    ASSUME NEW s \in Seq(CacheEntry), NoCodeTwice(s), Len(s) > 0
    PROVE  /\ Tail(s) \in Seq(CacheEntry)
           /\ Len(Tail(s)) = Len(s) - 1
           /\ NoCodeTwice(Tail(s))
           /\ \A i \in DOMAIN Tail(s) : \E j \in DOMAIN s : Tail(s)[i] = s[j]
<1> DEFINE t == Tail(s)
           n == Len(s)
<1>1. /\ t \in Seq(CacheEntry)
      /\ Len(t) = n - 1
      /\ \A i \in 1..(n - 1) : t[i] = s[i + 1]
    OBVIOUS
<1>2. n \in Nat \ {0} /\ DOMAIN t = 1..(n - 1) /\ DOMAIN s = 1..n
    BY <1>1
<1> HIDE DEF t, n
<1>3. \A i \in DOMAIN t : i \in Nat /\ i + 1 \in DOMAIN s /\ t[i] = s[i + 1]
    BY <1>1, <1>2
<1>4. NoCodeTwice(t)
    BY <1>3 DEF NoCodeTwice
<1>5. \A i \in DOMAIN t : \E j \in DOMAIN s : t[i] = s[j]
    BY <1>3
<1> QED
    BY <1>1, <1>4, <1>5 DEF t, n

LEMMA AfterGetOK ==
    ASSUME CacheOK(store), NEW c \in Codes
    PROVE  /\ CacheOK(AfterGet(c))
           /\ \A i \in DOMAIN AfterGet(c) : Before(AfterGet(c)[i])
<1>1. CASE Hit(c) = {}
    BY <1>1, WithoutOK DEF AfterGet
<1>2. CASE Hit(c) # {}
    <2> DEFINE k == CHOOSE i \in Hit(c) : TRUE
               w == Without(c)
    <2>1. k \in DOMAIN store /\ store[k].code = c /\ Entry(c) # {}
        BY <1>2 DEF Hit, Entry
    <2>2. AfterGet(c) = Append(w, store[k])
        BY <1>2 DEF AfterGet
    <2> HIDE DEF k
    <2>3. store[k] \in CacheEntry
        BY <2>1 DEF CacheOK
    <2>4. /\ w \in Seq(CacheEntry) /\ NoCodeTwice(w) /\ Len(w) < CacheMax
          /\ \A i \in DOMAIN w : Before(w[i]) /\ w[i].code # store[k].code
        BY <2>1, WithoutOK DEF CacheOK
    <2> HIDE DEF w
    <2>5. /\ Append(w, store[k]) \in Seq(CacheEntry)
          /\ Len(Append(w, store[k])) = Len(w) + 1
          /\ NoCodeTwice(Append(w, store[k]))
          /\ \A i \in DOMAIN Append(w, store[k]) :
                 \/ Append(w, store[k])[i] = store[k]
                 \/ \E j \in DOMAIN w : Append(w, store[k])[i] = w[j]
        BY <2>3, <2>4, AppendOK
    <2>6. Len(w) + 1 <= CacheMax
        BY <2>4, Bounds
    <2>7. CacheOK(AfterGet(c))
        BY <2>2, <2>5, <2>6 DEF CacheOK
    <2>8. \A i \in DOMAIN AfterGet(c) : Before(AfterGet(c)[i])
        BY <2>1, <2>2, <2>4, <2>5 DEF Before
    <2> QED
        BY <2>7, <2>8
<1> QED
    BY <1>1, <1>2

Filled(c, link) == [code |-> c, link |-> link, until |-> now + CacheTTL]

LEMMA AfterSetOK ==
    ASSUME CacheOK(store), now \in Nat, NEW c \in Codes, NEW link \in SUBSET Link
    PROVE  /\ CacheOK(AfterSet(c, link))
           /\ \A i \in DOMAIN AfterSet(c, link) :
                  Before(AfterSet(c, link)[i]) \/ AfterSet(c, link)[i] = Filled(c, link)
<1> DEFINE w == Without(c)
           e == Filled(c, link)
           a == Append(w, e)
<1>1. e \in CacheEntry /\ e.code = c
    BY Bounds DEF Filled, CacheEntry
<1>2. /\ w \in Seq(CacheEntry) /\ NoCodeTwice(w) /\ Len(w) <= CacheMax
      /\ \A i \in DOMAIN w : Before(w[i]) /\ w[i].code # c
    BY WithoutOK DEF CacheOK
<1>3. AfterSet(c, link) = Evict(a)
    BY DEF AfterSet, Filled
<1> HIDE DEF w, e
<1>4. /\ a \in Seq(CacheEntry) /\ Len(a) = Len(w) + 1 /\ NoCodeTwice(a)
      /\ \A i \in DOMAIN a : a[i] = e \/ \E j \in DOMAIN w : a[i] = w[j]
    BY <1>1, <1>2, AppendOK
<1> HIDE DEF a
<1>5. \A i \in DOMAIN a : Before(a[i]) \/ a[i] = e
    BY <1>2, <1>4
<1>6. Len(w) \in Nat /\ Len(a) \in Nat
    BY <1>2, <1>4
<1>7. CASE Len(a) > CacheMax
    <2>1. /\ Tail(a) \in Seq(CacheEntry) /\ Len(Tail(a)) = Len(a) - 1
          /\ NoCodeTwice(Tail(a))
          /\ \A i \in DOMAIN Tail(a) : \E j \in DOMAIN a : Tail(a)[i] = a[j]
        BY <1>4, <1>6, <1>7, Bounds, TailOK
    <2>2. Len(Tail(a)) <= CacheMax
        BY <1>2, <1>4, <1>6, <2>1, Bounds
    <2>3. AfterSet(c, link) = Tail(a)
        BY <1>3, <1>7 DEF Evict
    <2> QED
        BY <1>5, <2>1, <2>2, <2>3 DEF CacheOK, e
<1>8. CASE ~(Len(a) > CacheMax)
    <2>1. AfterSet(c, link) = a
        BY <1>3, <1>8 DEF Evict
    <2>2. Len(a) <= CacheMax
        BY <1>6, <1>8, Bounds
    <2> QED
        BY <1>4, <1>5, <2>1, <2>2 DEF CacheOK, e
<1> QED
    BY <1>7, <1>8

-----------------------------------------------------------------------------
(* The requests.                                                           *)

LEMMA CodeIs == ASSUME NEW r \in Requests, NEW c \in Codes, req[r].code = {c}
                PROVE  CodeOf(r) = c
    BY DEF CodeOf

LEMMA CodeTyped == ASSUME RequestInv, NEW r \in Requests, InService(r)
                   PROVE  CodeOf(r) \in Codes /\ req[r].code = {CodeOf(r)}
    BY CodeIs DEF RequestInv

LEMMA RequestsTyped == TypeOK => req \in [Requests -> Request]
    BY DEF TypeOK, Request

LEMMA IdleTyped == Idle \in Request /\ Idle.link = {} /\ Idle.since = 0 /\ Idle.reply = "none"
    BY Bounds DEF Idle, Request

(* A request with another copy, or with another code to try, is a request. *)
LEMMA LinkPut ==
    ASSUME NEW q \in Request, NEW copy \in SUBSET Link, NEW pc \in PCs
    PROVE  [q EXCEPT !.link = copy, !.pc = pc] \in Request
<1> HIDE DEF PCs, Kinds, Replies
<1> QED
    BY DEF Request

LEMMA CodePut ==
    ASSUME NEW q \in Request, NEW c \in Codes, q.collisions + 1 \in 0 .. MaxCollisions
    PROVE  [q EXCEPT !.code = {c}, !.collisions = @ + 1] \in Request
<1> HIDE DEF PCs, Kinds, Replies
<1> QED
    BY DEF Request

(* Of what a request was about, its answer keeps as much as this.          *)
LEMMA EndedIs ==
    ASSUME TypeOK, NEW r \in Requests, NEW reply \in Replies
    PROVE  /\ Ended(r, reply) \in Request
           /\ Ended(r, reply).pc = "done" /\ Ended(r, reply).reply = reply
           /\ reply \in {"redirected", "found"} =>
                  Ended(r, reply).link = req[r].link /\ Ended(r, reply).since = req[r].since
           /\ reply \notin {"redirected", "found"} =>
                  Ended(r, reply).link = {} /\ Ended(r, reply).since = 0
           /\ Ended(r, reply).since = req[r].since \/ Ended(r, reply).since = 0
           /\ reply \in {"created", "redirected", "found"} =>
                  Ended(r, reply).code = req[r].code
<1> USE DEF Request
<1>1. req[r] \in Request
    BY RequestsTyped
<1>2. ASSUME NEW about \in Request,
             Ended(r, reply) = [about EXCEPT !.pc = "done", !.reply = reply]
      PROVE  /\ Ended(r, reply) \in Request
             /\ Ended(r, reply).pc = "done" /\ Ended(r, reply).reply = reply
             /\ Ended(r, reply).link = about.link
             /\ Ended(r, reply).since = about.since
             /\ Ended(r, reply).code = about.code
    BY <1>2
<1>3. CASE reply \in {"redirected", "found"}
    <2>1. Ended(r, reply) = [req[r] EXCEPT !.pc = "done", !.reply = reply]
        BY <1>3 DEF Ended
    <2> QED
        BY <1>1, <1>2, <1>3, <2>1
<1>4. CASE reply = "created"
    <2> DEFINE about == [Idle EXCEPT !.code = req[r].code]
    <2>1. about \in Request /\ about.link = {} /\ about.since = 0
          /\ about.code = req[r].code
        BY <1>1, IdleTyped
    <2>2. Ended(r, reply) = [about EXCEPT !.pc = "done", !.reply = reply]
        BY <1>4 DEF Ended
    <2> HIDE DEF about
    <2> QED
        BY <1>2, <1>4, <2>1, <2>2
<1>5. CASE reply \notin {"redirected", "found", "created"}
    <2>1. Ended(r, reply) = [Idle EXCEPT !.pc = "done", !.reply = reply]
        BY <1>5 DEF Ended
    <2> QED
        BY <1>2, <1>5, <2>1, IdleTyped
<1> QED
    BY <1>3, <1>4, <1>5

(* The steps of a request change that request only.                        *)
LEMMA Replied ==
    ASSUME TypeOK, NEW r \in Requests, NEW reply \in Replies, Reply(r, reply)
    PROVE  /\ req' \in [Requests -> Request]
           /\ req'[r] = Ended(r, reply)
           /\ \A q \in Requests : q # r => req'[q] = req[q]
<1>1. req \in [Requests -> Request]
    BY RequestsTyped
<1>2. Ended(r, reply) \in Request
    BY EndedIs
<1> QED
    BY <1>1, <1>2 DEF Reply

LEMMA Went ==
    ASSUME TypeOK, NEW r \in Requests, NEW pc \in PCs, Goto(r, pc)
    PROVE  /\ req' \in [Requests -> Request]
           /\ req'[r] = [req[r] EXCEPT !.pc = pc]
           /\ \A q \in Requests : q # r => req'[q] = req[q]
<1>1. req \in [Requests -> Request]
    BY RequestsTyped
<1>2. [req[r] EXCEPT !.pc = pc] \in Request
    BY <1>1 DEF Request
<1> QED
    BY <1>1, <1>2 DEF Goto

LEMMA Began ==
    ASSUME TypeOK, NEW r \in Requests, Client(r)
    PROVE  /\ req' \in [Requests -> Request]
           /\ \A q \in Requests : q # r => req'[q] = req[q]
           /\ req[r].pc = "idle"
           /\ req'[r].link = {} /\ req'[r].since = now /\ req'[r].reply = "none"
           /\ \E c \in Codes : req'[r].code = {c}
           /\ \/ req'[r].pc = "get" /\ req'[r].kind = "redirect"
              \/ req'[r].pc \in {"select", "read", "update"}
           /\ UNCHANGED <<links, clicks, store, now>>
<1>1. req \in [Requests -> Request] /\ now \in Nat
    BY RequestsTyped DEF TypeOK
<1>2. ASSUME NEW kind \in Kinds, NEW c \in Codes, NEW expires \in Nat, NEW pc \in PCs,
             Begin(r, kind, c, expires, pc)
      PROVE  /\ req' \in [Requests -> Request]
             /\ \A q \in Requests : q # r => req'[q] = req[q]
             /\ req[r].pc = "idle"
             /\ req'[r].link = {} /\ req'[r].since = now /\ req'[r].reply = "none"
             /\ req'[r].code = {c} /\ req'[r].pc = pc /\ req'[r].kind = kind
             /\ UNCHANGED <<links, clicks, store, now>>
    <2> DEFINE new == [Idle EXCEPT !.pc = pc, !.kind = kind, !.code = {c},
                                   !.expires = expires, !.since = now]
    <2>1. new \in Request
        <3>1. Idle \in Request /\ {c} \in SUBSET Codes
            BY IdleTyped
        <3> QED
            BY <1>1, <3>1 DEF Request
    <2>2. new.link = {} /\ new.since = now /\ new.reply = "none"
          /\ new.code = {c} /\ new.pc = pc /\ new.kind = kind
        BY IdleTyped DEF Request
    <2>3. req' = [req EXCEPT ![r] = new]
        BY <1>2 DEF Begin
    <2> HIDE DEF new
    <2> QED
        BY <1>1, <1>2, <2>1, <2>2, <2>3 DEF Begin
<1>3. PICK c \in Codes :
          \/ \E ttl \in LinkTTLs[r], kind \in {"alias", "generated"} : Shorten(r, kind, c, ttl)
          \/ Redirect(r, c) \/ Lookup(r, c) \/ Delete(r, c)
    BY DEF Client
<1>4. ASSUME NEW ttl \in LinkTTLs[r], NEW kind \in {"alias", "generated"},
             Shorten(r, kind, c, ttl)
      PROVE  Begin(r, kind, c, Expires(ttl), "select") /\ Expires(ttl) \in Nat
    BY <1>1, <1>4, LinkServiceAssumption DEF LinkServiceAssumption, Shorten, Expires
<1>5. CASE \E ttl \in LinkTTLs[r], kind \in {"alias", "generated"} : Shorten(r, kind, c, ttl)
    BY <1>2, <1>4, <1>5
<1>6. CASE Redirect(r, c)
    BY <1>2, <1>6 DEF Redirect
<1>7. CASE Lookup(r, c)
    BY <1>2, <1>7 DEF Lookup
<1>8. CASE Delete(r, c)
    BY <1>2, <1>8 DEF Delete
<1> QED
    BY <1>3, <1>5, <1>6, <1>7, <1>8

LEMMA TypeIs ==
    TypeOK <=> /\ links \subseteq Link
               /\ clicks \in [Codes -> Nat]
               /\ CacheOK(store)
               /\ now \in Nat
               /\ req \in [Requests -> Request]
    BY DEF TypeOK, CacheOK, CacheEntry, NoCodeTwice, Request

LEMMA RowTyped == ASSUME TypeOK, NEW c \in Codes
                  PROVE  Row(c) \in SUBSET Link /\ Deactivated(c) \in SUBSET Link
<1>1. Row(c) \in SUBSET Link
    BY TypeIs DEF Row
<1>2. \A l \in Link : [l EXCEPT !.active = FALSE] \in Link
    BY DEF Link
<1> QED
    BY <1>1, <1>2 DEF Deactivated

LEMMA TypeStep == TypeOK /\ RequestInv /\ [Next]_vars => TypeOK'
<1> SUFFICES ASSUME TypeOK, RequestInv, [Next]_vars
             PROVE  (/\ links \subseteq Link
                     /\ clicks \in [Codes -> Nat]
                     /\ CacheOK(store)
                     /\ now \in Nat
                     /\ req \in [Requests -> Request])'
    BY DEF TypeOK, CacheOK, CacheEntry, NoCodeTwice, Request
<1>a. /\ links \subseteq Link /\ clicks \in [Codes -> Nat] /\ CacheOK(store)
      /\ now \in Nat /\ req \in [Requests -> Request]
    BY TypeIs
<1>b. CacheOK(store)' <=> CacheOK(store')
    BY DEF CacheOK, NoCodeTwice
<1>1. ASSUME NEW r \in Requests, Client(r)
      PROVE  /\ UNCHANGED <<links, clicks, store, now>>
             /\ req' \in [Requests -> Request]
    BY <1>1, Began
<1>2. ASSUME NEW r \in Requests, Select(r)
      PROVE  /\ UNCHANGED <<links, clicks, store, now>>
             /\ req' \in [Requests -> Request]
    <2>1. UNCHANGED <<links, clicks, store, now>>
        BY <1>2 DEF Select
    <2>2. CASE Goto(r, "insert")
        BY <2>1, <2>2, Went
    <2>3. CASE Reply(r, "taken") \/ Reply(r, "error")
        BY <2>1, <2>3, Replied
    <2>4. CASE /\ req[r].collisions # MaxCollisions
               /\ \E c \in Codes :
                      req' = [req EXCEPT ![r].code = {c}, ![r].collisions = @ + 1]
        <3>1. PICK c \in Codes :
                  req' = [req EXCEPT ![r].code = {c}, ![r].collisions = @ + 1]
            BY <2>4
        <3>2. req[r].collisions + 1 \in 0 .. MaxCollisions
            BY <1>a, <2>4, Bounds DEF Request
        <3>3. [req[r] EXCEPT !.code = {c}, !.collisions = @ + 1] \in Request
            BY <1>a, <3>2, CodePut
        <3> QED
            BY <1>a, <2>1, <3>1, <3>3
    <2> QED
        BY <1>2, <2>2, <2>3, <2>4 DEF Select
<1>3. ASSUME NEW r \in Requests, Insert(r)
      PROVE  /\ UNCHANGED <<clicks, store, now>>
             /\ links' \subseteq Link
             /\ req' \in [Requests -> Request]
    <2>1. CodeOf(r) \in Codes /\ req[r].expires \in Nat
        BY <1>3, <1>a, CodeTyped DEF Insert, InService, Request
    <2>2. [code |-> CodeOf(r), owner |-> r, expires |-> req[r].expires,
           active |-> TRUE] \in Link
        BY <2>1 DEF Link
    <2>3. Goto(r, "answer") \/ Reply(r, "error")
        BY <1>3 DEF Insert
    <2>4. req' \in [Requests -> Request]
        BY <2>3, Replied, Went
    <2>5. links' \subseteq Link
        BY <1>3, <1>a, <2>2 DEF Insert
    <2>6. UNCHANGED <<clicks, store, now>>
        BY <1>3 DEF Insert
    <2> QED
        BY <2>4, <2>5, <2>6
<1>3a. ASSUME NEW r \in Requests, TellCreated(r)
       PROVE  /\ UNCHANGED <<links, clicks, store, now>>
              /\ req' \in [Requests -> Request]
    BY <1>3a, Replied DEF TellCreated
<1>4. ASSUME NEW r \in Requests, CacheGet(r)
      PROVE  /\ UNCHANGED <<links, clicks, now>>
             /\ CacheOK(store')
             /\ req' \in [Requests -> Request]
    <2>1. CodeOf(r) \in Codes
        BY <1>4, CodeTyped DEF CacheGet, InService
    <2>2. CacheOK(store')
        BY <1>4, <1>a, <2>1, AfterGetOK DEF CacheGet
    <2>3. CASE Goto(r, "read")
        BY <1>4, <2>2, <2>3, Went DEF CacheGet
    <2>4. CASE \E i \in Hit(CodeOf(r)) :
                   req' = [req EXCEPT ![r].link = store[i].link, ![r].pc = "check"]
        <3>1. PICK i \in Hit(CodeOf(r)) :
                  req' = [req EXCEPT ![r].link = store[i].link, ![r].pc = "check"]
            BY <2>4
        <3>2. store[i].link \in SUBSET Link
            <4>1. i \in DOMAIN store
                BY <3>1 DEF Hit, Entry
            <4>2. store[i] \in CacheEntry
                BY <1>a, <4>1 DEF CacheOK
            <4> QED
                BY <4>2 DEF CacheEntry
        <3>3. [req[r] EXCEPT !.link = store[i].link, !.pc = "check"] \in Request
            BY <1>a, <3>2, LinkPut
        <3> QED
            BY <1>4, <1>a, <2>2, <3>1, <3>3 DEF CacheGet
    <2> QED
        BY <1>4, <2>3, <2>4 DEF CacheGet
<1>5. ASSUME NEW r \in Requests, Read(r)
      PROVE  /\ UNCHANGED <<links, clicks, store, now>>
             /\ req' \in [Requests -> Request]
    <2> DEFINE pc == IF req[r].kind = "redirect" THEN "fill" ELSE "check"
    <2>1. Row(CodeOf(r)) \in SUBSET Link
        BY <1>5, CodeTyped, RowTyped DEF Read, InService
    <2>2. [req[r] EXCEPT !.link = Row(CodeOf(r)), !.pc = pc] \in Request
        <3>1. pc \in PCs
            OBVIOUS
        <3> HIDE DEF pc
        <3> QED
            BY <1>a, <2>1, <3>1, LinkPut
    <2> QED
        BY <1>5, <1>a, <2>2 DEF Read
<1>6. ASSUME NEW r \in Requests, Fill(r)
      PROVE  /\ UNCHANGED <<links, clicks, now>>
             /\ CacheOK(store')
             /\ req' \in [Requests -> Request]
    <2>1. CodeOf(r) \in Codes /\ req[r].link \in SUBSET Link
        BY <1>6, <1>a, CodeTyped DEF Fill, InService, Request
    <2>2. CacheOK(store')
        BY <1>6, <1>a, <2>1, AfterSetOK DEF Fill
    <2> QED
        BY <1>6, <2>2, Went DEF Fill
<1>7. ASSUME NEW r \in Requests, Check(r)
      PROVE  /\ UNCHANGED <<links, clicks, store, now>>
             /\ req' \in [Requests -> Request]
    <2>1. \/ Reply(r, "missing") \/ Reply(r, "expired") \/ Reply(r, "found")
          \/ Goto(r, "click")
        BY <1>7 DEF Check
    <2> QED
        BY <1>7, <2>1, Replied, Went DEF Check
<1>8. ASSUME NEW r \in Requests, Click(r)
      PROVE  /\ UNCHANGED <<links, store, now>>
             /\ clicks' \in [Codes -> Nat]
             /\ req' \in [Requests -> Request]
    <2>1. UNCHANGED <<links, store, now>> /\ Reply(r, "redirected")
        BY <1>8 DEF Click
    <2>2. clicks' \in [Codes -> Nat]
        <3>1. CodeOf(r) \in Codes
            BY <1>8, CodeTyped DEF Click, InService
        <3>2. PICK c \in Codes : clicks' = [clicks EXCEPT ![c] = @ + 1]
            BY <1>8, <3>1 DEF Click
        <3> QED
            BY <1>a, <3>2
    <2> QED
        BY <2>1, <2>2, Replied
<1>9. ASSUME NEW r \in Requests, Update(r)
      PROVE  /\ UNCHANGED <<clicks, store, now>>
             /\ links' \subseteq Link
             /\ req' \in [Requests -> Request]
    <2>1. CodeOf(r) \in Codes
        BY <1>9, CodeTyped DEF Update, InService
    <2>2. Deactivated(CodeOf(r)) \subseteq Link
        BY <2>1, RowTyped
    <2>3. Reply(r, "missing") \/ Goto(r, "invalidate")
        BY <1>9 DEF Update
    <2> QED
        BY <1>9, <1>a, <2>2, <2>3, Replied, Went DEF Update
<1>10. ASSUME NEW r \in Requests, Invalidate(r)
       PROVE  /\ UNCHANGED <<links, clicks, now>>
              /\ CacheOK(store')
              /\ req' \in [Requests -> Request]
    <2>1. CodeOf(r) \in Codes
        BY <1>10, CodeTyped DEF Invalidate, InService
    <2> QED
        BY <1>10, <1>a, <2>1, WithoutOK, Replied DEF Invalidate, Invalidated
<1>11. ASSUME NEW r \in Requests, DbRaises(r)
       PROVE  /\ UNCHANGED <<links, clicks, store, now>>
              /\ req' \in [Requests -> Request]
    BY <1>11, Replied DEF DbRaises
<1>12. ASSUME Restart
       PROVE  /\ UNCHANGED <<links, clicks, now>>
              /\ CacheOK(store')
              /\ req' \in [Requests -> Request]
    <2>1. CacheOK(<<>>)
        BY Bounds DEF CacheOK, NoCodeTwice
    <2>2. \A r \in Requests : Ended(r, "lost") \in Request
        BY EndedIs
    <2> QED
        BY <1>12, <1>a, <2>1, <2>2 DEF Restart
<1>13. ASSUME Tick
       PROVE  UNCHANGED <<links, clicks, store, req>> /\ now' \in Nat
    BY <1>13, <1>a DEF Tick
<1>14. CASE UNCHANGED vars
    BY <1>14, <1>a, <1>b DEF vars
<1> QED
    BY <1>1, <1>2, <1>3, <1>3a, <1>4, <1>5, <1>6, <1>7, <1>8, <1>9, <1>10, <1>11, <1>12,
       <1>13, <1>14, <1>a, <1>b DEF Next, Serve

(* The invariants of one request, and what keeps them.                     *)
OneRequest(r) ==
    /\ InService(r) \/ req[r].reply \in {"created", "redirected", "found"}
           => \E c \in Codes : req[r].code = {c}
    /\ req[r].pc # "done" => req[r].reply = "none"
    /\ req[r].pc \in {"fill", "click"} => req[r].kind = "redirect"
    /\ req[r].pc = "select" => req[r].link = {}
    /\ req[r].since <= now
    /\ InService(r) => now <= req[r].since + Latency

LEMMA RepliedOK ==
    ASSUME TypeOK, RequestInv, UNCHANGED now, NEW r \in Requests, InService(r),
           NEW reply \in Replies, Reply(r, reply)
    PROVE  RequestInv'
<1>1. ASSUME NEW q \in Requests PROVE OneRequest(q)'
    <2>1. CASE q = r
        <3>a. req'[r] = Ended(r, reply)
            BY Replied
        <3>1. req'[r].pc = "done" /\ req'[r].reply = reply
            BY <3>a, EndedIs
        <3>2. req'[r].since = req[r].since \/ req'[r].since = 0
            BY <3>a, EndedIs
        <3>3. reply \in {"created", "redirected", "found"} => req'[r].code = req[r].code
            BY <3>a, EndedIs
        <3>4. now \in Nat /\ req[r].since <= now
            BY DEF TypeOK, RequestInv
        <3>5. \E c \in Codes : req[r].code = {c}
            BY DEF RequestInv
        <3> QED
            BY <2>1, <3>1, <3>2, <3>3, <3>4, <3>5 DEF OneRequest, InService
    <2>2. CASE q # r
        BY <2>2, Replied DEF OneRequest, RequestInv, InService
    <2> QED
        BY <2>1, <2>2
<1> QED
    BY <1>1 DEF RequestInv, OneRequest

LEMMA WentOK ==
    ASSUME TypeOK, RequestInv, UNCHANGED now, NEW r \in Requests, InService(r),
           NEW new \in Request, req' = [req EXCEPT ![r] = new],
           new.since = req[r].since, new.reply = req[r].reply, new.kind = req[r].kind,
           \E c \in Codes : new.code = {c},
           new.pc # "done",
           new.pc = "select" => new.link = {},
           new.pc \in {"fill", "click"} => req[r].kind = "redirect"
    PROVE  RequestInv'
<1>1. ASSUME NEW q \in Requests PROVE OneRequest(q)'
    <2>1. CASE q = r
        <3>1. req'[r] = new
            BY RequestsTyped
        <3> QED
            BY <2>1, <3>1 DEF OneRequest, RequestInv, InService
    <2>2. CASE q # r
        <3>1. req'[q] = req[q]
            BY <2>2, RequestsTyped
        <3> QED
            BY <3>1 DEF OneRequest, RequestInv, InService
    <2> QED
        BY <2>1, <2>2
<1> QED
    BY <1>1 DEF RequestInv, OneRequest

LEMMA GotoOK ==
    ASSUME TypeOK, RequestInv, UNCHANGED now, NEW r \in Requests, InService(r),
           NEW pc \in PCs \ {"select", "done"}, Goto(r, pc),
           pc \in {"fill", "click"} => req[r].kind = "redirect"
    PROVE  RequestInv'
<1> DEFINE new == [req[r] EXCEPT !.pc = pc]
<1>1. /\ new \in Request /\ new.pc = pc
      /\ new.since = req[r].since /\ new.reply = req[r].reply /\ new.kind = req[r].kind
      /\ new.code = req[r].code
    BY RequestsTyped DEF Request
<1>2. req' = [req EXCEPT ![r] = new]
    BY RequestsTyped DEF Goto
<1>3. \E c \in Codes : req[r].code = {c}
    BY DEF RequestInv
<1> HIDE DEF new
<1> QED
    BY <1>1, <1>2, <1>3, WentOK

LEMMA RequestStep == TypeOK /\ RequestInv /\ [Next]_vars => RequestInv'
<1> SUFFICES ASSUME TypeOK, RequestInv, [Next]_vars PROVE RequestInv'
    OBVIOUS
<1>a. req \in [Requests -> Request] /\ now \in Nat
    BY TypeIs
<1>1. ASSUME NEW r \in Requests, Client(r) PROVE RequestInv'
    <2>1. ASSUME NEW q \in Requests PROVE OneRequest(q)'
        <3>1. CASE q = r
            BY <1>1, <1>a, <3>1, Began, Bounds DEF OneRequest, InService
        <3>2. CASE q # r
            BY <1>1, <3>2, Began DEF OneRequest, InService, RequestInv
        <3> QED
            BY <3>1, <3>2
    <2> QED
        BY <2>1 DEF OneRequest, RequestInv
<1>2. ASSUME NEW r \in Requests, Select(r) PROVE RequestInv'
    <2>1. InService(r) /\ UNCHANGED now
        BY <1>2 DEF Select, InService
    <2>2. CASE Goto(r, "insert")
        BY <2>1, <2>2, GotoOK
    <2>3. CASE Reply(r, "taken") \/ Reply(r, "error")
        BY <2>1, <2>3, RepliedOK
    <2>4. CASE /\ req[r].collisions # MaxCollisions
               /\ \E c \in Codes :
                      req' = [req EXCEPT ![r].code = {c}, ![r].collisions = @ + 1]
        <3>1. PICK c \in Codes :
                  req' = [req EXCEPT ![r].code = {c}, ![r].collisions = @ + 1]
            BY <2>4
        <3> DEFINE new == [req[r] EXCEPT !.code = {c}, !.collisions = @ + 1]
        <3>2. req[r].collisions + 1 \in 0 .. MaxCollisions
            BY <1>a, <2>4, Bounds DEF Request
        <3>3. new \in Request
            BY <1>a, <3>2, CodePut
        <3>4. /\ new.since = req[r].since /\ new.reply = req[r].reply
              /\ new.kind = req[r].kind /\ new.code = {c}
              /\ new.pc = "select" /\ new.link = {}
            BY <1>2, <1>a DEF Request, Select, RequestInv
        <3>5. req' = [req EXCEPT ![r] = new]
            BY <1>a, <3>1
        <3> HIDE DEF new
        <3> QED
            BY <2>1, <3>3, <3>4, <3>5, WentOK
    <2> QED
        BY <1>2, <2>2, <2>3, <2>4 DEF Select
<1>3. ASSUME NEW r \in Requests, Insert(r) PROVE RequestInv'
    BY <1>3, RepliedOK, GotoOK DEF Insert, InService
<1>3a. ASSUME NEW r \in Requests, TellCreated(r) PROVE RequestInv'
    BY <1>3a, RepliedOK DEF TellCreated, InService
<1>4. ASSUME NEW r \in Requests, CacheGet(r) PROVE RequestInv'
    <2>1. InService(r) /\ UNCHANGED now
        BY <1>4 DEF CacheGet, InService
    <2>2. CASE Goto(r, "read")
        BY <2>1, <2>2, GotoOK
    <2>3. CASE \E i \in Hit(CodeOf(r)) :
                   req' = [req EXCEPT ![r].link = store[i].link, ![r].pc = "check"]
        <3>1. PICK i \in Hit(CodeOf(r)) :
                  req' = [req EXCEPT ![r].link = store[i].link, ![r].pc = "check"]
            BY <2>3
        <3> DEFINE new == [req[r] EXCEPT !.link = store[i].link, !.pc = "check"]
        <3>2. store[i].link \in SUBSET Link
            <4>1. i \in DOMAIN store
                BY <3>1 DEF Hit, Entry
            <4>2. store[i] \in CacheEntry
                BY <4>1, TypeIs DEF CacheOK
            <4> QED
                BY <4>2 DEF CacheEntry
        <3>3. new \in Request
            BY <1>a, <3>2, LinkPut
        <3>4. /\ new.since = req[r].since /\ new.reply = req[r].reply
              /\ new.kind = req[r].kind /\ new.code = req[r].code /\ new.pc = "check"
            BY <1>a DEF Request
        <3>5. req' = [req EXCEPT ![r] = new]
            BY <1>a, <3>1
        <3>6. \E c \in Codes : req[r].code = {c}
            BY <2>1 DEF RequestInv
        <3> HIDE DEF new
        <3> QED
            BY <2>1, <3>3, <3>4, <3>5, <3>6, WentOK
    <2> QED
        BY <1>4, <2>2, <2>3 DEF CacheGet
<1>5. ASSUME NEW r \in Requests, Read(r) PROVE RequestInv'
    <2> DEFINE pc == IF req[r].kind = "redirect" THEN "fill" ELSE "check"
               new == [req[r] EXCEPT !.link = Row(CodeOf(r)), !.pc = pc]
    <2>1. InService(r) /\ UNCHANGED now
        BY <1>5 DEF Read, InService
    <2>2. new \in Request
        <3>1. Row(CodeOf(r)) \in SUBSET Link /\ pc \in PCs
            BY <2>1, CodeTyped, RowTyped
        <3> HIDE DEF pc
        <3> QED
            BY <1>a, <3>1, LinkPut
    <2>3. /\ new.since = req[r].since /\ new.reply = req[r].reply
          /\ new.kind = req[r].kind /\ new.code = req[r].code /\ new.pc = pc
        BY <1>a DEF Request
    <2>4. req' = [req EXCEPT ![r] = new]
        BY <1>5, <1>a DEF Read
    <2>5. \E c \in Codes : req[r].code = {c}
        BY <2>1 DEF RequestInv
    <2> HIDE DEF new
    <2> QED
        BY <2>1, <2>2, <2>3, <2>4, <2>5, WentOK
<1>6. ASSUME NEW r \in Requests, Fill(r) PROVE RequestInv'
    BY <1>6, GotoOK DEF Fill, InService
<1>7. ASSUME NEW r \in Requests, Check(r) PROVE RequestInv'
    <2>1. InService(r) /\ UNCHANGED now
        BY <1>7 DEF Check, InService
    <2>2. \/ Reply(r, "missing") \/ Reply(r, "expired") \/ Reply(r, "found")
          \/ Goto(r, "click") /\ req[r].kind = "redirect"
        BY <1>7 DEF Check
    <2> QED
        BY <2>1, <2>2, RepliedOK, GotoOK
<1>8. ASSUME NEW r \in Requests, Click(r) PROVE RequestInv'
    BY <1>8, RepliedOK DEF Click, InService
<1>9. ASSUME NEW r \in Requests, Update(r) PROVE RequestInv'
    <2>1. InService(r) /\ UNCHANGED now
        BY <1>9 DEF Update, InService
    <2>2. Reply(r, "missing") \/ Goto(r, "invalidate")
        BY <1>9 DEF Update
    <2> QED
        BY <2>1, <2>2, RepliedOK, GotoOK
<1>10. ASSUME NEW r \in Requests, Invalidate(r) PROVE RequestInv'
    BY <1>10, RepliedOK DEF Invalidate, InService
<1>11. ASSUME NEW r \in Requests, DbRaises(r) PROVE RequestInv'
    BY <1>11, RepliedOK DEF DbRaises, InService
<1>12. ASSUME Restart PROVE RequestInv'
    <2>1. ASSUME NEW q \in Requests PROVE OneRequest(q)'
        <3>1. CASE q \in InFlight
            <4>1. req'[q] = Ended(q, "lost") /\ UNCHANGED now
                BY <1>12, <3>1 DEF Restart
            <4>2. /\ Ended(q, "lost").pc = "done" /\ Ended(q, "lost").reply = "lost"
                  /\ Ended(q, "lost").since = 0
                BY EndedIs
            <4> QED
                BY <1>a, <4>1, <4>2 DEF OneRequest, InService
        <3>2. CASE q \notin InFlight
            BY <1>12, <3>2 DEF Restart, OneRequest, RequestInv, InService
        <3> QED
            BY <3>1, <3>2
    <2> QED
        BY <2>1 DEF OneRequest, RequestInv
<1>13. ASSUME Tick PROVE RequestInv'
    <2>1. ASSUME NEW q \in Requests PROVE OneRequest(q)'
        <3>1. req[q].since \in Nat /\ UNCHANGED req[q] /\ now' = now + 1
            BY <1>13, <1>a DEF Tick, Request
        <3>2. InService(q) => now < req[q].since + Latency
            BY <1>13 DEF Tick, InService, InFlight
        <3> QED
            BY <1>a, <3>1, <3>2, Bounds DEF OneRequest, RequestInv, InService
    <2> QED
        BY <2>1 DEF OneRequest, RequestInv
<1>14. CASE UNCHANGED vars
    BY <1>14 DEF vars, RequestInv, InService
<1> QED
    BY <1>1, <1>2, <1>3, <1>3a, <1>4, <1>5, <1>6, <1>7, <1>8, <1>9, <1>10, <1>11, <1>12,
       <1>13, <1>14 DEF Next, Serve

-----------------------------------------------------------------------------
(* The copy a request holds: it has read it, found it in the cache, still  *)
(* holds it, or holds none.                                                *)

Kept(r) == /\ req'[r].code = req[r].code
           /\ req'[r].since = req[r].since
           /\ req'[r].kind = req[r].kind

HasRead(r) ==
    /\ Kept(r) /\ req[r].pc = "read"
    /\ req'[r].link = Row(CodeOf(r))
    /\ req'[r].pc = IF req[r].kind = "redirect" THEN "fill" ELSE "check"
    /\ req'[r].reply = req[r].reply
    /\ UNCHANGED links

HasHit(r) ==
    /\ Kept(r) /\ req[r].pc = "get"
    /\ \E i \in Hit(CodeOf(r)) : req'[r].link = store[i].link
    /\ req'[r].pc = "check"
    /\ req'[r].reply = req[r].reply
    /\ UNCHANGED links

HoldsOn(r) ==
    /\ Kept(r) /\ req'[r].link = req[r].link
    /\ req'[r].pc = "fill" => req[r].pc = "fill"
    /\ req'[r].pc \in {"check", "click"} => req[r].pc \in {"fill", "check", "click"}
    /\ \/ req'[r].pc = req[r].pc /\ req'[r].reply = req[r].reply
       \/ req'[r].pc # "click" /\ req'[r].reply \notin {"redirected", "found"}
       \/ req[r].pc = "check" /\ \A l \in req[r].link : ~Expired(l)
       \/ req[r].pc = "click"

HoldsNone(r) == req'[r].link = {} /\ req'[r].pc \notin {"fill", "check", "click"}

HandStep(r) == HasRead(r) \/ HasHit(r) \/ HoldsOn(r) \/ HoldsNone(r)

LEMMA AnswerHolds ==
    ASSUME TypeOK, NEW r \in Requests, NEW reply \in Replies, Reply(r, reply)
    PROVE  reply \notin {"redirected", "found"} => HoldsNone(r)
<1>1. req'[r] = Ended(r, reply)
    BY Replied
<1> QED
    BY <1>1, EndedIs DEF HoldsNone

LEMMA MoveHolds ==
    ASSUME TypeOK, NEW r \in Requests, NEW pc \in PCs, Goto(r, pc),
           pc # "fill",
           pc = "check" => req[r].pc = "fill",
           pc = "click" => req[r].pc = "check" /\ \A l \in req[r].link : ~Expired(l),
           req[r].reply = "none"
    PROVE  HoldsOn(r)
<1>1. req'[r] = [req[r] EXCEPT !.pc = pc]
    BY Went
<1>2. req[r] \in Request
    BY RequestsTyped
<1> QED
    BY <1>1, <1>2 DEF HoldsOn, Kept, Request

LEMMA LetThroughHolds ==
    ASSUME TypeOK, NEW r \in Requests, NEW reply \in {"redirected", "found"},
           Reply(r, reply),
           req[r].pc = "click" \/ (req[r].pc = "check" /\ \A l \in req[r].link : ~Expired(l))
    PROVE  HoldsOn(r)
<1>1. req'[r] = [req[r] EXCEPT !.pc = "done", !.reply = reply]
    <2>1. req' = [req EXCEPT ![r] = Ended(r, reply)]
        BY DEF Reply
    <2>2. Ended(r, reply) = [req[r] EXCEPT !.pc = "done", !.reply = reply]
        BY DEF Ended
    <2> QED
        BY <2>1, <2>2, RequestsTyped
<1>2. req[r] \in Request
    BY RequestsTyped
<1> QED
    BY <1>1, <1>2 DEF HoldsOn, Kept, Request

LEMMA HandSteps ==
    ASSUME TypeOK, RequestInv, CopiesInv, Next, NEW q \in Requests
    PROVE  HandStep(q)
<1>a. req \in [Requests -> Request] /\ now \in Nat
    BY TypeIs
<1>b. req'[q] = req[q] => HoldsOn(q)
    BY DEF HoldsOn, Kept
<1>c. InService(q) => req[q].reply = "none"
    BY DEF RequestInv, InService
<1> USE DEF HandStep
<1>1. ASSUME NEW r \in Requests, Client(r) PROVE HandStep(q)
    <2>1. CASE q = r
        BY <1>1, <2>1, Began DEF HoldsNone
    <2>2. CASE q # r
        BY <1>1, <1>b, <2>2, Began
    <2> QED
        BY <2>1, <2>2
<1>2. ASSUME NEW r \in Requests, Serve(r), q # r PROVE HandStep(q)
    <2>1. req'[q] = req[q]
        BY <1>2, <1>a DEF Serve, Select, Insert, TellCreated, CacheGet, Read, Fill, Check, Click, Update,
                          Invalidate, DbRaises, Goto, Reply
    <2> QED
        BY <1>b, <2>1
<1>3. ASSUME Serve(q) PROVE HandStep(q)
    <2>1. CASE Select(q)
        <3>1. CASE Goto(q, "insert")
            BY <2>1, <1>c, <3>1, MoveHolds DEF Select, InService
        <3>2. CASE Reply(q, "taken") \/ Reply(q, "error")
            BY <3>2, AnswerHolds
        <3>3. CASE \E c \in Codes :
                       req' = [req EXCEPT ![q].code = {c}, ![q].collisions = @ + 1]
            <4>1. req'[q].link = {} /\ req'[q].pc = "select"
                <5>1. PICK c \in Codes :
                          req' = [req EXCEPT ![q].code = {c}, ![q].collisions = @ + 1]
                    BY <3>3
                <5>2. req[q].pc = "select" /\ req[q].link = {} /\ req[q] \in Request
                    BY <1>a, <2>1 DEF Select, RequestInv
                <5>3. req'[q] = [req[q] EXCEPT !.code = {c}, !.collisions = @ + 1]
                    BY <1>a, <5>1
                <5> QED
                    BY <5>2, <5>3 DEF Request
            <4> QED
                BY <4>1 DEF HoldsNone
        <3> QED
            BY <2>1, <3>1, <3>2, <3>3 DEF Select
    <2>2. CASE Insert(q)
        BY <2>2, <1>c, AnswerHolds, MoveHolds DEF Insert, InService
    <2>2a. CASE TellCreated(q)
        BY <2>2a, AnswerHolds DEF TellCreated
    <2>3. CASE CacheGet(q)
        <3>1. CASE Goto(q, "read")
            BY <2>3, <1>c, <3>1, MoveHolds DEF CacheGet, InService
        <3>2. CASE \E i \in Hit(CodeOf(q)) :
                       req' = [req EXCEPT ![q].link = store[i].link, ![q].pc = "check"]
            <4>1. PICK i \in Hit(CodeOf(q)) :
                      req' = [req EXCEPT ![q].link = store[i].link, ![q].pc = "check"]
                BY <3>2
            <4>2. req'[q].link = store[i].link /\ req'[q].pc = "check"
                  /\ req'[q].reply = req[q].reply /\ Kept(q)
                BY <1>a, <4>1 DEF Request, Kept
            <4> QED
                BY <2>3, <4>1, <4>2 DEF HasHit, CacheGet
        <3> QED
            BY <2>3, <3>1, <3>2 DEF CacheGet
    <2>4. CASE Read(q)
        BY <1>a, <2>4 DEF HasRead, Read, Kept, Request
    <2>5. CASE Fill(q)
        BY <2>5, <1>c, MoveHolds DEF Fill, InService
    <2>6. CASE Check(q)
        <3>1. CASE Reply(q, "missing") \/ Reply(q, "expired")
            BY <3>1, AnswerHolds
        <3>2. CASE \E l \in req[q].link : ~Expired(l) /\ l.active
            <4>1. AtMostOne(req[q].link)
                BY DEF CopiesInv
            <4>2. /\ Goto(q, "click") \/ Reply(q, "found")
                  /\ \A l \in req[q].link : ~Expired(l)
                BY <2>6, <3>2, <4>1 DEF Check, AtMostOne
            <4> QED
                BY <2>6, <1>c, <4>1, <4>2, MoveHolds, LetThroughHolds DEF Check, InService
        <3> QED
            BY <2>6, <3>1, <3>2 DEF Check
    <2>7. CASE Click(q)
        BY <2>7, LetThroughHolds DEF Click
    <2>8. CASE Update(q)
        <3>1. Reply(q, "missing") \/ Goto(q, "invalidate")
            BY <2>8 DEF Update
        <3> QED
            BY <2>8, <1>c, <3>1, AnswerHolds, MoveHolds DEF Update, InService
    <2>9. CASE Invalidate(q)
        BY <2>9, AnswerHolds DEF Invalidate
    <2>10. CASE DbRaises(q)
        BY <2>10, AnswerHolds DEF DbRaises
    <2> QED
        BY <1>3, <2>1, <2>2, <2>2a, <2>3, <2>4, <2>5, <2>6, <2>7, <2>8, <2>9, <2>10 DEF Serve
<1>4. ASSUME Restart PROVE HandStep(q)
    <2>1. CASE q \in InFlight
        <3>1. req'[q] = Ended(q, "lost")
            BY <1>4, <2>1 DEF Restart
        <3> QED
            BY <3>1, EndedIs DEF HoldsNone
    <2>2. CASE q \notin InFlight
        BY <1>4, <1>b, <2>2 DEF Restart
    <2> QED
        BY <2>1, <2>2
<1>5. ASSUME Tick PROVE HandStep(q)
    BY <1>5, <1>b DEF Tick
<1> QED
    BY <1>1, <1>2, <1>3, <1>4, <1>5 DEF Next

-----------------------------------------------------------------------------
(* The rows: each is inserted by a request that is about to be told so, and *)
(* after that only deactivated.                                            *)

LEMMA OwnsStays ==
    ASSUME TypeOK, RequestInv, Next, NEW r \in Requests, NEW c, Owns(r, c)
    PROVE  Owns(r, c)'
<1>a. req \in [Requests -> Request]
    BY RequestsTyped
<1>1. req[r].pc = "answer" \/ req[r].pc = "done"
    BY DEF RequestInv, Owns, Wins
<1>2. CASE req'[r] = req[r]
    BY <1>2 DEF Owns, Wins
<1>3. ASSUME NEW q \in Requests, Client(q) PROVE req'[r] = req[r]
    BY <1>1, <1>3, Began
<1>4. ASSUME NEW q \in Requests, Serve(q) PROVE req'[r] = req[r] \/ TellCreated(r)
    <2>1. CASE q # r
        BY <1>4, <1>a, <2>1 DEF Serve, Select, Insert, TellCreated, CacheGet, Read, Fill, Check,
                                Click, Update, Invalidate, DbRaises, Goto, Reply
    <2>2. CASE q = r
        BY <1>1, <1>4, <2>2 DEF Serve, Select, Insert, TellCreated, CacheGet, Read, Fill, Check, Click,
                                Update, Invalidate, DbRaises
    <2> QED
        BY <2>1, <2>2
<1>5. ASSUME TellCreated(r) PROVE Owns(r, c)'
    <2>1. req'[r] = Ended(r, "created") /\ req[r].pc = "answer"
        BY <1>5, Replied DEF TellCreated
    <2>2. req[r].code = {c}
        BY <2>1 DEF Owns, Wins, RequestInv
    <2> QED
        BY <2>1, <2>2, EndedIs DEF Owns, Wins
<1>6. ASSUME Restart PROVE req'[r] = req[r] \/ req'[r] = Ended(r, "lost")
    BY <1>6 DEF Restart
<1>7. ASSUME req'[r] = Ended(r, "lost") PROVE Owns(r, c)'
    BY <1>7, EndedIs DEF Owns
<1>8. ASSUME Tick PROVE req'[r] = req[r]
    BY <1>8 DEF Tick
<1> QED
    BY <1>2, <1>3, <1>4, <1>5, <1>6, <1>7, <1>8 DEF Next

NewRow(r, c) == [code |-> c, owner |-> r, expires |-> req[r].expires, active |-> TRUE]

Inserts(r, c) ==
    /\ Row(c) = {}
    /\ links' = links \union {NewRow(r, c)}
    /\ Wins(r, c)'
    /\ req[r].pc = "insert"

Deactivates(r, c) ==
    /\ Row(c) # {}
    /\ links' = (links \ Row(c)) \union Deactivated(c)
    /\ req'[r].pc = "invalidate" /\ req'[r].code = {c}

(* Who is or will be told to have a code inserted its row before or does   *)
(* so now.                                                                 *)
LEMMA RowSteps ==
    ASSUME TypeOK, RequestInv, Next
    PROVE  /\ \/ UNCHANGED links
              \/ \E r \in Requests, c \in Codes : Inserts(r, c) \/ Deactivates(r, c)
           /\ \A q \in Requests, c \in Codes : Wins(q, c)' => Wins(q, c) \/ Inserts(q, c)
<1>a. req \in [Requests -> Request] /\ now \in Nat
    BY TypeIs
<1>1. ASSUME NEW r \in Requests, Insert(r)
      PROVE  \/ \E c \in Codes : Inserts(r, c) /\ req'[r].code = {c}
             \/ UNCHANGED links /\ req'[r].reply = "error" /\ req'[r].pc = "done"
    <2>1. PICK c \in Codes : CodeOf(r) = c /\ req[r].code = {c}
        BY <1>1, CodeTyped DEF Insert, InService
    <2>2. CASE PrimaryKeyHolds(c)
        <3>1. req'[r] = [req[r] EXCEPT !.pc = "answer"]
            BY <1>1, <2>1, <2>2, Went DEF Insert
        <3>2. req'[r].pc = "answer" /\ req'[r].code = {c}
            BY <1>a, <2>1, <3>1 DEF Request
        <3> QED
            BY <1>1, <2>1, <2>2, <3>2 DEF Insert, Inserts, Wins, NewRow, PrimaryKeyHolds
    <2>3. CASE ~PrimaryKeyHolds(c)
        <3>1. req'[r] = Ended(r, "error")
            BY <1>1, <2>1, <2>3, Replied DEF Insert
        <3> QED
            BY <1>1, <2>1, <2>3, <3>1, EndedIs DEF Insert
    <2> QED
        BY <2>2, <2>3
<1>2. ASSUME NEW r \in Requests, Update(r)
      PROVE  UNCHANGED links \/ \E c \in Codes : Deactivates(r, c)
    <2>1. PICK c \in Codes : CodeOf(r) = c /\ req[r].code = {c}
        BY <1>2, CodeTyped DEF Update, InService
    <2>2. CASE Row(c) # {}
        <3>1. req'[r] = [req[r] EXCEPT !.pc = "invalidate"]
            BY <1>2, <2>1, <2>2, Went DEF Update
        <3>2. req'[r].pc = "invalidate" /\ req'[r].code = req[r].code
            BY <1>a, <3>1 DEF Request
        <3> QED
            BY <1>2, <2>1, <2>2, <3>2 DEF Update, Deactivates
    <2>3. CASE Row(c) = {}
        BY <1>2, <2>1, <2>3 DEF Update
    <2> QED
        BY <2>2, <2>3
<1>3. \/ UNCHANGED links
      \/ \E r \in Requests, c \in Codes : Inserts(r, c) \/ Deactivates(r, c)
    <2>1. ASSUME NEW r \in Requests, Client(r) PROVE UNCHANGED links
        BY <2>1, Began
    <2>2. ASSUME NEW r \in Requests, Serve(r), ~Insert(r), ~Update(r) PROVE UNCHANGED links
        BY <2>2 DEF Serve, Select, TellCreated, CacheGet, Read, Fill, Check, Click,
                    Invalidate, DbRaises
    <2>3. CASE Restart \/ Tick
        BY <2>3 DEF Restart, Tick
    <2> QED
        BY <1>1, <1>2, <2>1, <2>2, <2>3 DEF Next
<1>4. ASSUME NEW q \in Requests, NEW c \in Codes, Wins(q, c)'
      PROVE  Wins(q, c) \/ Inserts(q, c)
    <2>a. (req'[q].pc = "answer" \/ req'[q].reply = "created") /\ req'[q].code = {c}
        BY <1>4 DEF Wins
    <2>1. CASE req'[q] = req[q]
        BY <2>1, <2>a DEF Wins
    <2>2. ASSUME Client(q) PROVE FALSE
        BY <2>a, <2>2, Began
    <2>3. ASSUME Serve(q), ~Insert(q), ~TellCreated(q) PROVE FALSE
        <3>1. InService(q) /\ req[q].reply = "none"
            BY <2>3 DEF Serve, Select, CacheGet, Read, Fill, Check, Click, Update,
                        Invalidate, DbRaises, InService, RequestInv
        <3>2. \A reply \in Replies \ {"created"} : ~Reply(q, reply)
            BY <2>a, Replied, EndedIs
        <3>3. \A pc \in PCs \ {"answer"} : ~Goto(q, pc)
            <4> SUFFICES ASSUME NEW pc \in PCs \ {"answer"}, Goto(q, pc) PROVE FALSE
                OBVIOUS
            <4>1. req'[q] = [req[q] EXCEPT !.pc = pc]
                BY Went
            <4>2. req'[q].reply = req[q].reply /\ req'[q].pc = pc
                BY <1>a, <4>1 DEF Request
            <4> QED
                BY <2>a, <3>1, <4>2
        <3>4. ~Select(q)
            <4> SUFFICES ASSUME Select(q) PROVE FALSE
                OBVIOUS
            <4>1. \E c1 \in Codes :
                      req' = [req EXCEPT ![q].code = {c1}, ![q].collisions = @ + 1]
                BY <3>2, <3>3 DEF Select, Replies, PCs
            <4>2. PICK c1 \in Codes :
                      req' = [req EXCEPT ![q].code = {c1}, ![q].collisions = @ + 1]
                BY <4>1
            <4>3. req'[q].pc = req[q].pc /\ req'[q].reply = req[q].reply
                BY <1>a, <4>2 DEF Request
            <4>4. req[q].pc = "select"
                BY DEF Select
            <4> QED
                BY <2>a, <3>1, <4>3, <4>4
        <3>5. ~CacheGet(q)
            <4> SUFFICES ASSUME CacheGet(q) PROVE FALSE
                OBVIOUS
            <4>1. \E k : req' = [req EXCEPT ![q].link = k, ![q].pc = "check"]
                BY <3>3 DEF CacheGet, PCs
            <4>2. PICK k : req' = [req EXCEPT ![q].link = k, ![q].pc = "check"]
                BY <4>1
            <4>3. req'[q].pc = "check" /\ req'[q].reply = req[q].reply
                BY <1>a, <4>2 DEF Request
            <4> QED
                BY <2>a, <3>1, <4>3
        <3>6. ~Read(q)
            BY <1>a, <2>a, <3>1, <3>2, <3>3 DEF Read, Request
        <3> QED
            BY <2>3, <3>2, <3>3, <3>4, <3>5, <3>6
                DEF Serve, Fill, Check, Click, Update, Invalidate, DbRaises
    <2>4. CASE Insert(q)
        <3>1. PICK d \in Codes : Inserts(q, d) /\ req'[q].code = {d}
            BY <1>1, <2>a, <2>4
        <3> QED
            BY <2>a, <3>1
    <2>4a. CASE TellCreated(q)
        <3>1. req'[q] = Ended(q, "created") /\ req[q].pc = "answer"
            BY <2>4a, Replied DEF TellCreated
        <3> QED
            BY <2>a, <3>1, EndedIs DEF Wins
    <2>5. ASSUME NEW r \in Requests, r # q, Client(r) PROVE req'[q] = req[q]
        BY <2>5, Began
    <2>6. ASSUME NEW r \in Requests, r # q, Serve(r) PROVE req'[q] = req[q]
        BY <1>a, <2>6 DEF Serve, Select, Insert, TellCreated, CacheGet, Read, Fill, Check,
                          Click, Update, Invalidate, DbRaises, Goto, Reply
    <2>7. CASE Restart
        <3>1. CASE q \in InFlight
            <4>1. req'[q] = Ended(q, "lost")
                BY <2>7, <3>1 DEF Restart
            <4> QED
                BY <2>a, <4>1, EndedIs
        <3>2. CASE q \notin InFlight
            BY <2>1, <2>7, <3>2 DEF Restart
        <3> QED
            BY <3>1, <3>2
    <2>8. CASE Tick
        BY <2>1, <2>8 DEF Tick
    <2> QED
        BY <2>1, <2>2, <2>3, <2>4, <2>4a, <2>5, <2>6, <2>7, <2>8 DEF Next
<1> QED
    BY <1>3, <1>4

Off(l) == [l EXCEPT !.active = FALSE]

LEMMA DeactivatedRows ==
    ASSUME TypeOK, NEW r \in Requests, NEW c \in Codes, Deactivates(r, c)
    PROVE  /\ \A m \in links' : \E l \in links :
                  m = (IF l.code = c THEN Off(l) ELSE l) /\ m.code = l.code /\ m.owner = l.owner
           /\ \A l \in links : \E m \in links' : m.code = l.code /\ m.owner = l.owner
<1>1. \A l \in links : Off(l).code = l.code /\ Off(l).owner = l.owner
    BY TypeIs DEF Link, Off
<1>2. links' = (links \ Row(c)) \union {Off(l) : l \in Row(c)}
    BY DEF Deactivates, Deactivated, Off
<1>3. \A l \in links : l \in Row(c) <=> l.code = c
    BY DEF Row
<1>4. Row(c) \subseteq links
    BY DEF Row
<1>5. ASSUME NEW m \in links'
      PROVE  \E l \in links :
                 m = (IF l.code = c THEN Off(l) ELSE l) /\ m.code = l.code /\ m.owner = l.owner
    BY <1>1, <1>2, <1>3, <1>4
<1>6. ASSUME NEW l \in links
      PROVE  \E m \in links' : m.code = l.code /\ m.owner = l.owner
    <2>1. CASE l.code = c
        BY <1>1, <1>2, <1>3, <2>1
    <2>2. CASE l.code # c
        BY <1>2, <1>3, <2>2
    <2> QED
        BY <2>1, <2>2
<1> QED
    BY <1>5, <1>6

(* A row stays with its code and its owner.                                *)
LEMMA HasRowStays ==
    ASSUME TypeOK, RequestInv, Next, NEW r, NEW c, HasRow(r, c)
    PROVE  HasRow(r, c)'
<1>1. PICK l \in links : l.code = c /\ l.owner = r
    BY DEF HasRow
<1>2. ASSUME NEW q \in Requests, NEW d \in Codes, Inserts(q, d)
      PROVE  l \in links'
    BY <1>2 DEF Inserts
<1>3. \E m \in links' : m.code = l.code /\ m.owner = l.owner
    BY <1>2, RowSteps, DeactivatedRows
<1> QED
    BY <1>1, <1>3 DEF HasRow

LEMMA RowsStep ==
    ASSUME TypeOK, RequestInv, RowsInv, Next
    PROVE  RowsInv'
<1>a. /\ \A l, m \in links : l.code = m.code => l = m
      /\ \A l \in links : Owns(l.owner, l.code)
    BY DEF RowsInv
<1>b. \A l \in links : l.owner \in Requests /\ l.code \in Codes
    BY TypeIs DEF Link
<1>c. \A l \in links : Owns(l.owner, l.code)'
    BY <1>a, <1>b, OwnsStays
<1>1. \A l, m \in links' : l.code = m.code => l = m
    <2>1. CASE UNCHANGED links
        BY <1>a, <2>1
    <2>2. ASSUME NEW r \in Requests, NEW c \in Codes, Inserts(r, c)
          PROVE  \A l, m \in links' : l.code = m.code => l = m
        <3>1. \A l \in links : l.code # c
            BY <2>2 DEF Inserts, Row
        <3>2. links' = links \union {NewRow(r, c)} /\ NewRow(r, c).code = c
            BY <2>2 DEF Inserts, NewRow
        <3> QED
            BY <1>a, <3>1, <3>2
    <2>3. ASSUME NEW r \in Requests, NEW c \in Codes, Deactivates(r, c)
          PROVE  \A l, m \in links' : l.code = m.code => l = m
        BY <1>a, <2>3, DeactivatedRows
    <2> QED
        BY <2>1, <2>2, <2>3, RowSteps
<1>2. \A l \in links' : Owns(l.owner, l.code)'
    <2>1. CASE UNCHANGED links
        BY <1>c, <2>1
    <2>2. ASSUME NEW r \in Requests, NEW c \in Codes, Inserts(r, c)
          PROVE  \A l \in links' : Owns(l.owner, l.code)'
        <3>1. /\ links' = links \union {NewRow(r, c)} /\ Owns(r, c)'
              /\ NewRow(r, c).code = c /\ NewRow(r, c).owner = r
            BY <2>2 DEF Inserts, NewRow, Owns
        <3> QED
            BY <1>c, <3>1
    <2>3. ASSUME NEW r \in Requests, NEW c \in Codes, Deactivates(r, c)
          PROVE  \A l \in links' : Owns(l.owner, l.code)'
        BY <1>c, <2>3, DeactivatedRows
    <2> QED
        BY <2>1, <2>2, <2>3, RowSteps
<1>3. ASSUME NEW q \in Requests, NEW c \in Codes, Wins(q, c)' PROVE HasRow(q, c)'
    <2>1. CASE Wins(q, c)
        BY <2>1, HasRowStays DEF RowsInv
    <2>2. CASE Inserts(q, c)
        <3>1. /\ NewRow(q, c) \in links'
              /\ NewRow(q, c).owner = q /\ NewRow(q, c).code = c
            BY <2>2 DEF Inserts, NewRow
        <3> QED
            BY <3>1 DEF HasRow
    <2> QED
        BY <1>3, <2>1, <2>2, RowSteps
<1> QED
    BY <1>1, <1>2, <1>3 DEF RowsInv

-----------------------------------------------------------------------------
(* The entries of the cache: each was there before, or is what a request   *)
(* has read and fills in.                                                  *)

Fills(r, e) == req[r].pc = "fill" /\ e = Filled(CodeOf(r), req[r].link)

LEMMA StoreSteps ==
    ASSUME TypeOK, RequestInv, Next
    PROVE  /\ \A i \in DOMAIN store' :
                  Before(store'[i]) \/ \E r \in Requests : Fills(r, store'[i])
           /\ \A c \in Codes : Deleting(c) => Deleting(c)' \/
                  \A i \in DOMAIN store' : store'[i].code # c
<1>a. CacheOK(store) /\ now \in Nat /\ req \in [Requests -> Request]
    BY TypeIs
<1>1. ASSUME NEW i \in DOMAIN store'
      PROVE  Before(store'[i]) \/ \E r \in Requests : Fills(r, store'[i])
    <2>1. CASE UNCHANGED store
        BY <1>1, <2>1 DEF Before
    <2>2. ASSUME NEW r \in Requests, CacheGet(r) PROVE Before(store'[i])
        <3>1. CodeOf(r) \in Codes /\ store' = AfterGet(CodeOf(r))
            BY <2>2, CodeTyped DEF CacheGet, InService
        <3> QED
            BY <1>a, <3>1, AfterGetOK
    <2>3. ASSUME NEW r \in Requests, Fill(r) PROVE Before(store'[i]) \/ Fills(r, store'[i])
        <3>1. /\ CodeOf(r) \in Codes /\ store' = AfterSet(CodeOf(r), req[r].link)
              /\ req[r].link \in SUBSET Link /\ req[r].pc = "fill"
            BY <1>a, <2>3, CodeTyped DEF Fill, InService, Request
        <3> QED
            BY <1>a, <3>1, AfterSetOK DEF Fills
    <2>4. ASSUME NEW r \in Requests, Invalidate(r) PROVE Before(store'[i])
        <3>1. CodeOf(r) \in Codes /\ store' = Without(CodeOf(r))
            BY <2>4, CodeTyped DEF Invalidate, Invalidated, InService
        <3> QED
            BY <1>a, <3>1, WithoutOK
    <2>5. CASE Restart
        BY <2>5 DEF Restart
    <2>6. ASSUME NEW r \in Requests, Client(r) PROVE UNCHANGED store
        BY <2>6, Began
    <2>7. ASSUME NEW r \in Requests, Serve(r)
          PROVE  UNCHANGED store \/ CacheGet(r) \/ Fill(r) \/ Invalidate(r)
        BY <2>7 DEF Serve, Select, Insert, TellCreated, Read, Check, Click, Update, DbRaises
    <2>8. CASE Tick
        BY <2>1, <2>8 DEF Tick
    <2> QED
        BY <2>1, <2>2, <2>3, <2>4, <2>5, <2>6, <2>7, <2>8 DEF Next
<1>2. ASSUME NEW c \in Codes, Deleting(c), ~Deleting(c)'
      PROVE  \A i \in DOMAIN store' : store'[i].code # c
    <2>1. PICK q \in Requests : req[q].pc = "invalidate" /\ CodeOf(q) = c
        BY <1>2 DEF Deleting
    <2>2. req'[q] # req[q]
        BY <1>2, <2>1 DEF Deleting, CodeOf
    <2>3. ASSUME NEW r \in Requests, Client(r) PROVE FALSE
        BY <2>1, <2>2, <2>3, Began
    <2>4. ASSUME NEW r \in Requests, r # q, Serve(r) PROVE FALSE
        BY <1>a, <2>2, <2>4 DEF Serve, Select, Insert, TellCreated, CacheGet, Read, Fill, Check, Click,
                                Update, Invalidate, DbRaises, Goto, Reply
    <2>5. ASSUME Serve(q) PROVE \A i \in DOMAIN store' : store'[i].code # c
        <3>1. Invalidate(q)
            BY <2>1, <2>5 DEF Serve, Select, Insert, TellCreated, CacheGet, Read, Fill, Check, Click,
                              Update, DbRaises
        <3>2. store' = Without(c)
            BY <2>1, <3>1 DEF Invalidate, Invalidated
        <3> QED
            BY <1>a, <3>2, WithoutOK
    <2>6. CASE Restart
        BY <2>6 DEF Restart
    <2>7. ASSUME Tick PROVE FALSE
        BY <2>2, <2>7 DEF Tick
    <2> QED
        BY <2>3, <2>4, <2>5, <2>6, <2>7 DEF Next
<1> QED
    BY <1>1, <1>2

LEMMA CopiesStep ==
    ASSUME TypeOK, RequestInv, RowsInv, CopiesInv, Next
    PROVE  CopiesInv'
<1>a. req \in [Requests -> Request] /\ links \subseteq Link
    BY TypeIs
<1>1. ASSUME NEW c, NEW copy \in SUBSET Link, CopyOf(copy, c)
      PROVE  \A l \in copy : l.code = c /\ HasRow(l.owner, l.code)'
    BY <1>1, HasRowStays DEF CopyOf
<1>2. ASSUME NEW c \in Codes PROVE CopyOf(Row(c), c) /\ AtMostOne(Row(c)) /\ Row(c) \in SUBSET Link
    BY <1>a DEF RowsInv, CopyOf, HasRow, AtMostOne, Row
<1>3. ASSUME NEW i \in DOMAIN store
      PROVE  CopyOf(store[i].link, store[i].code) /\ AtMostOne(store[i].link)
             /\ store[i].link \in SUBSET Link
    <2>1. store[i] \in CacheEntry
        BY TypeIs DEF CacheOK
    <2> QED
        BY <2>1 DEF CopiesInv, CacheEntry
<1>4. ASSUME NEW r \in Requests, NEW c, req[r].code = {c}
      PROVE  CopyOf(req[r].link, c) /\ AtMostOne(req[r].link) /\ req[r].link \in SUBSET Link
    BY <1>a, <1>4 DEF CopiesInv, CopyOf, Request
<1>5. ASSUME NEW i \in DOMAIN store'
      PROVE  /\ AtMostOne(store'[i].link)
             /\ \A l \in store'[i].link :
                    l.code = store'[i].code /\ HasRow(l.owner, l.code)'
    <2>1. CASE Before(store'[i])
        <3>1. PICK j \in DOMAIN store : store'[i] = store[j]
            BY <2>1 DEF Before
        <3>2. \A l \in store[j].link : l.code = store[j].code /\ HasRow(l.owner, l.code)'
            BY <1>1, <1>3
        <3>3. AtMostOne(store[j].link)
            BY <1>3
        <3> QED
            BY <3>1, <3>2, <3>3
    <2>2. ASSUME NEW r \in Requests, Fills(r, store'[i])
          PROVE  /\ AtMostOne(store'[i].link)
                 /\ \A l \in store'[i].link :
                        l.code = store'[i].code /\ HasRow(l.owner, l.code)'
        <3>1. PICK c \in Codes : CodeOf(r) = c /\ req[r].code = {c}
            BY <2>2, CodeTyped DEF Fills, InService
        <3>2. store'[i].link = req[r].link /\ store'[i].code = c
            BY <2>2, <3>1 DEF Fills, Filled
        <3>3. AtMostOne(req[r].link) /\ CopyOf(req[r].link, c) /\ req[r].link \in SUBSET Link
            BY <1>4, <3>1
        <3>4. \A l \in req[r].link : l.code = c /\ HasRow(l.owner, l.code)'
            BY <1>1, <3>3
        <3> QED
            BY <3>2, <3>3, <3>4
    <2> QED
        BY <2>1, <2>2, StoreSteps
<1>6. ASSUME NEW q \in Requests
      PROVE  /\ AtMostOne(req'[q].link)
             /\ \A l \in req'[q].link : {l.code} = req'[q].code /\ HasRow(l.owner, l.code)'
    <2>1. CASE HasRead(q)
        <3>1. PICK c \in Codes : CodeOf(q) = c /\ req[q].code = {c}
            BY <2>1, CodeTyped DEF HasRead, InService
        <3>2. req'[q].link = Row(c) /\ req'[q].code = {c}
            BY <2>1, <3>1 DEF HasRead, Kept
        <3>3. AtMostOne(Row(c)) /\ CopyOf(Row(c), c) /\ Row(c) \in SUBSET Link
            BY <1>2
        <3>4. \A l \in Row(c) : l.code = c /\ HasRow(l.owner, l.code)'
            BY <1>1, <3>3
        <3> QED
            BY <3>2, <3>3, <3>4
    <2>2. CASE HasHit(q)
        <3>1. PICK c \in Codes : CodeOf(q) = c /\ req[q].code = {c}
            BY <2>2, CodeTyped DEF HasHit, InService
        <3>2. PICK i \in DOMAIN store : store[i].code = c /\ req'[q].link = store[i].link
            BY <2>2, <3>1 DEF HasHit, Hit, Entry
        <3>3. req'[q].code = {c}
            BY <2>2, <3>1 DEF HasHit, Kept
        <3>4. AtMostOne(store[i].link) /\ CopyOf(store[i].link, c)
              /\ store[i].link \in SUBSET Link
            BY <1>3, <3>2
        <3>5. \A l \in store[i].link : l.code = c /\ HasRow(l.owner, l.code)'
            BY <1>1, <3>4
        <3> QED
            BY <3>2, <3>3, <3>4, <3>5
    <2>3. CASE HoldsOn(q)
        <3>1. /\ req'[q].link = req[q].link /\ req'[q].code = req[q].code
              /\ req[q].link \in SUBSET Link
            BY <1>a, <2>3 DEF HoldsOn, Kept, Request
        <3>2. \A l \in req[q].link : HasRow(l.owner, l.code)
            BY DEF CopiesInv
        <3> QED
            BY <3>1, <3>2, HasRowStays DEF CopiesInv
    <2>4. CASE HoldsNone(q)
        BY <2>4 DEF HoldsNone, AtMostOne
    <2> QED
        BY <2>1, <2>2, <2>3, <2>4, HandSteps DEF HandStep
<1> QED
    BY <1>5, <1>6 DEF CopiesInv, CopyOf, AtMostOne, HasRow

LEMMA ExpiryStep ==
    ASSUME TypeOK, RequestInv, CopiesInv, ExpiryInv, Next
    PROVE  ExpiryInv'
<1> SUFFICES ASSUME NEW q \in Requests,
                    req'[q].pc = "click" \/ req'[q].reply \in {"redirected", "found"},
                    NEW l \in req'[q].link, l.expires # 0
             PROVE  req'[q].since <= l.expires
    BY DEF ExpiryInv
<1>1. /\ req[q] \in Request /\ now \in Nat /\ req[q].since <= now
    BY TypeIs DEF RequestInv
<1>2. CASE HasRead(q) \/ HasHit(q)
    <2>1. req'[q].pc # "click" /\ req[q].reply = "none" /\ req'[q].reply = req[q].reply
        BY <1>2 DEF HasRead, HasHit, RequestInv
    <2> QED
        BY <2>1
<1>3. CASE HoldsOn(q)
    <2>1. /\ l \in req[q].link /\ req'[q].since = req[q].since /\ l \in Link
        BY <1>1, <1>3 DEF HoldsOn, Kept, Request
    <2>2. CASE req[q].pc = "check" /\ \A m \in req[q].link : ~Expired(m)
        <3>1. now <= l.expires
            BY <1>1, <2>1, <2>2 DEF Expired, Link
        <3> QED
            BY <1>1, <2>1, <3>1 DEF Request, Link
    <2>3. CASE req[q].pc = "click" \/ req[q].reply \in {"redirected", "found"}
        BY <2>1, <2>3 DEF ExpiryInv
    <2> QED
        BY <1>3, <2>2, <2>3 DEF HoldsOn
<1>4. CASE HoldsNone(q)
    BY <1>4 DEF HoldsNone
<1> QED
    BY <1>2, <1>3, <1>4, HandSteps DEF HandStep

-----------------------------------------------------------------------------
(* The age of copies.                                                      *)

LEMMA ClockStep == ASSUME TypeOK, Next PROVE now' \in Nat /\ now <= now'
<1>1. now \in Nat
    BY TypeIs
<1>2. ASSUME NEW r \in Requests, Client(r) PROVE now' = now
    BY <1>2, Began
<1>3. ASSUME NEW r \in Requests, Serve(r) PROVE now' = now
    BY <1>3 DEF Serve, Select, Insert, TellCreated, CacheGet, Read, Fill, Check, Click, Update,
                Invalidate, DbRaises
<1>4. CASE Restart \/ Tick
    BY <1>1, <1>4 DEF Restart, Tick
<1> QED
    BY <1>1, <1>2, <1>3, <1>4 DEF Next

(* A row appears active, and disappears into being deleted.                *)
LEMMA RowChange ==
    ASSUME TypeOK, RequestInv, Next, NEW c \in Codes
    PROVE  \/ Row(c)' = Row(c)
           \/ Row(c) = {} /\ Active(Row(c))'
           \/ Row(c) # {} /\ Row(c)' # {} /\ ~Active(Row(c))' /\ Deleting(c)'
<1>a. \A l \in links : Off(l).code = l.code /\ ~Off(l).active
    BY TypeIs DEF Link, Off
<1>1. CASE UNCHANGED links
    BY <1>1 DEF Row
<1>2. ASSUME NEW r \in Requests, NEW d \in Codes, Inserts(r, d)
      PROVE  \/ Row(c)' = Row(c)
             \/ Row(c) = {} /\ Active(Row(c))'
    <2>1. /\ links' = links \union {NewRow(r, d)} /\ Row(d) = {}
          /\ NewRow(r, d).code = d /\ NewRow(r, d).active
        BY <1>2 DEF Inserts, NewRow
    <2>2. CASE d = c
        BY <2>1, <2>2 DEF Row, Active
    <2>3. CASE d # c
        BY <2>1, <2>3 DEF Row
    <2> QED
        BY <2>2, <2>3
<1>3. ASSUME NEW r \in Requests, NEW d \in Codes, Deactivates(r, d)
      PROVE  \/ Row(c)' = Row(c)
             \/ Row(c) # {} /\ Row(c)' # {} /\ ~Active(Row(c))' /\ Deleting(c)'
    <2>1. links' = (links \ Row(d)) \union {Off(l) : l \in Row(d)} /\ Row(d) # {}
        BY <1>3 DEF Deactivates, Deactivated, Off
    <2>2. CASE d = c
        <3>1. Row(c)' = {Off(l) : l \in Row(c)} /\ Row(c) \subseteq links
            BY <1>a, <2>1, <2>2 DEF Row
        <3>2. Deleting(c)'
            <4>1. req'[r].pc = "invalidate" /\ req'[r].code = {c}
                BY <1>3, <2>2 DEF Deactivates
            <4>2. CodeOf(r)' = c
                BY <4>1 DEF CodeOf
            <4> QED
                BY <4>1, <4>2 DEF Deleting
        <3>3. ~Active(Row(c))'
            BY <1>a, <3>1 DEF Active
        <3> QED
            BY <2>1, <2>2, <3>1, <3>2, <3>3
    <2>3. CASE d # c
        BY <1>a, <2>1, <2>3 DEF Row
    <2> QED
        BY <2>2, <2>3
<1> QED
    BY <1>1, <1>2, <1>3, RowSteps

LEMMA ChangedStep ==
    ASSUME TypeOK, ChangedInv, Next, Observe
    PROVE  /\ ChangedInv'
           /\ \A c \in Codes : Row(c)' = Row(c) => changed'[c] = changed[c]
           /\ \A c \in Codes : Row(c)' # Row(c) => changed'[c] = now
<1>1. now \in Nat /\ changed \in [Codes -> Nat]
    BY TypeIs DEF ChangedInv
<1>2. \A c \in Codes : changed'[c] = IF Row(c)' # Row(c) THEN now ELSE changed[c]
    BY DEF Observe
<1>3. changed' \in [Codes -> Nat]
    BY <1>1 DEF Observe
<1>4. ASSUME NEW c \in Codes PROVE changed'[c] <= now'
    <2>1. changed[c] \in Nat /\ changed[c] <= now
        BY <1>1 DEF ChangedInv
    <2>2. changed'[c] = now \/ changed'[c] = changed[c]
        BY <1>2
    <2> QED
        BY <1>1, <2>1, <2>2, ClockStep
<1> QED
    BY <1>2, <1>3, <1>4 DEF ChangedInv

LEMMA DeletionStep ==
    ASSUME TypeOK, RequestInv, ChangedInv, DeletionReachesCache, Next, Observe
    PROVE  DeletionReachesCache'
<1> SUFFICES ASSUME NEW i \in DOMAIN store', NEW e, e = store'[i],
                    Active(e.link), Row(e.code)' # {}, ~Active(Row(e.code))',
                    ~Deleting(e.code)'
             PROVE  e.until >= changed'[e.code] + CacheTTL
    BY DEF DeletionReachesCache, Active, Deleting, Row, CodeOf
<1>1. CacheOK(store) /\ CacheOK(store')
    <2>1. TypeOK'
        BY TypeStep
    <2> QED
        BY <2>1, TypeIs DEF TypeOK, CacheOK, CacheEntry, NoCodeTwice
<1>2. e \in CacheEntry
    BY <1>1 DEF CacheOK
<1>3. PICK c \in Codes : e.code = c
    BY <1>2 DEF CacheEntry
<1>4. ~Deleting(c)
    BY <1>3, StoreSteps
<1>5. Row(c)' = Row(c)
    BY <1>3, RowChange
<1>6. Row(c) # {} /\ ~Active(Row(c))
    BY <1>3, <1>5 DEF Active
<1>7. changed'[c] = changed[c] /\ changed[c] \in Nat /\ changed[c] <= now /\ now \in Nat
    BY <1>5, ChangedStep, TypeIs DEF ChangedInv
<1>8. CASE Before(e)
    <2>1. PICK j \in DOMAIN store : e = store[j]
        BY <1>8 DEF Before
    <2>2. e.until >= changed[c] + CacheTTL
        BY <1>3, <1>4, <1>6, <2>1 DEF DeletionReachesCache
    <2> QED
        BY <1>3, <1>7, <2>2
<1>9. ASSUME NEW r \in Requests, Fills(r, e)
      PROVE  e.until >= changed'[e.code] + CacheTTL
    <2>1. e.until = now + CacheTTL
        BY <1>9 DEF Fills, Filled
    <2> QED
        BY <1>3, <1>7, <2>1, Bounds
<1> QED
    BY <1>8, <1>9, StoreSteps

LEMMA LagsStep ==
    ASSUME TypeOK, ChangedInv, Next, Observe,
           NEW copy, NEW c \in Codes, NEW t \in Nat, NEW by \in Nat, Lags(copy, c, t, by)
    PROVE  Lags(copy, c, t, by)'
<1>1. now \in Nat /\ changed[c] \in Nat /\ changed[c] <= now
    BY TypeIs DEF ChangedInv
<1>2. t <= now' + by
    BY <1>1, ClockStep DEF Lags
<1>3. ASSUME Differs(copy, c)' PROVE t <= changed'[c] + by
    <2>1. CASE Row(c)' = Row(c)
        <3>1. Differs(copy, c)
            BY <1>3, <2>1 DEF Differs, Active
        <3> QED
            BY <2>1, <3>1, ChangedStep DEF Lags
    <2>2. CASE Row(c)' # Row(c)
        BY <1>1, <2>2, ChangedStep DEF Lags
    <2> QED
        BY <2>1, <2>2
<1> QED
    BY <1>2, <1>3 DEF Lags

LEMMA StaleStep ==
    ASSUME TypeOK, RequestInv, CopiesInv, ChangedInv, StaleInv, Next, Observe
    PROVE  StaleInv'
<1> DEFINE B == CacheTTL + Latency
<1>a. B \in Nat /\ 0 \in Nat /\ now \in Nat /\ req \in [Requests -> Request]
    BY Bounds, TypeIs
<1>b. TypeOK' /\ RequestInv'
    BY TypeStep, RequestStep
<1>c. ASSUME NEW c \in Codes PROVE changed[c] \in Nat
    BY DEF ChangedInv
<1>1. ASSUME NEW i \in DOMAIN store', NEW e, e = store'[i]
      PROVE  Lags(e.link, e.code, e.until, B)'
    <2>1. e \in CacheEntry
        <3>1. CacheOK(store')
            BY <1>b DEF TypeOK, CacheOK, CacheEntry, NoCodeTwice
        <3> QED
            BY <1>1, <3>1 DEF CacheOK
    <2>2. e.code \in Codes /\ e.until \in Nat
        BY <2>1 DEF CacheEntry
    <2>3. CASE Before(e)
        <3>1. Lags(e.link, e.code, e.until, B)
            BY <2>3 DEF Before, StaleInv
        <3> HIDE DEF B
        <3> QED
            BY <1>a, <2>2, <3>1, LagsStep
    <2>4. ASSUME NEW r \in Requests, Fills(r, e)
          PROVE  Lags(e.link, e.code, e.until, B)'
        <3>1. /\ e.link = req[r].link /\ e.code = CodeOf(r) /\ e.until = now + CacheTTL
              /\ req[r].pc = "fill"
            BY <2>4 DEF Fills, Filled
        <3>2. now <= req[r].since + Latency /\ req[r].since \in Nat
            BY <1>a, <3>1 DEF RequestInv, InService, Request
        <3>3. Lags(e.link, e.code, req[r].since, 0)
            BY <3>1 DEF StaleInv
        <3>4. Lags(e.link, e.code, e.until, B)
            BY <1>a, <1>c, <2>2, <3>1, <3>2, <3>3, Bounds DEF Lags
        <3> HIDE DEF B
        <3> QED
            BY <1>a, <2>2, <3>4, LagsStep
    <2> QED
        BY <1>1, <2>3, <2>4, StoreSteps
<1>2. ASSUME NEW q \in Requests, NEW by \in Nat, NEW c \in Codes, CodeOf(q) = c, HoldsOn(q),
             Lags(req[q].link, c, req[q].since, by)
      PROVE  Lags(req[q].link, CodeOf(q), req[q].since, by)'
    <2>1. req[q].since \in Nat
        BY <1>a DEF Request
    <2>2. ASSUME NEW copy, copy = req[q].link, NEW at \in Nat, at = req[q].since
          PROVE  Lags(copy, c, at, by)'
        BY <1>2, <2>2, LagsStep
    <2>3. req'[q].link = req[q].link /\ req'[q].since = req[q].since /\ CodeOf(q)' = c
        BY <1>2 DEF HoldsOn, Kept, CodeOf
    <2> QED
        BY <2>1, <2>2, <2>3 DEF Lags, Differs
<1>3. ASSUME NEW q \in Requests, req'[q].pc = "fill"
      PROVE  Lags(req[q].link, CodeOf(q), req[q].since, 0)'
    <2>1. CASE HasRead(q)
        <3>1. req'[q].link = Row(CodeOf(q)) /\ Row(CodeOf(q))' = Row(CodeOf(q))
            BY <2>1 DEF HasRead, Kept, CodeOf, Row
        <3>2. ~Differs(req[q].link, CodeOf(q))'
            BY <3>1 DEF Differs, Active
        <3>3. req'[q].since <= now' /\ now' \in Nat /\ req'[q].since \in Nat
            BY <1>b DEF RequestInv, TypeOK, Request
        <3> QED
            BY <3>2, <3>3 DEF Lags
    <2>2. CASE HoldsOn(q)
        <3>1. req[q].pc = "fill"
            BY <1>3, <2>2 DEF HoldsOn
        <3>2. Lags(req[q].link, CodeOf(q), req[q].since, 0) /\ CodeOf(q) \in Codes
            BY <3>1, CodeTyped DEF StaleInv, InService
        <3> QED
            BY <1>2, <1>a, <2>2, <3>2
    <2>3. CASE HasHit(q) \/ HoldsNone(q)
        BY <1>3, <2>3 DEF HasHit, HoldsNone
    <2> QED
        BY <2>1, <2>2, <2>3, HandSteps DEF HandStep
<1>4. ASSUME NEW q \in Requests, req'[q].pc \in {"check", "click"}, req'[q].kind = "redirect"
      PROVE  Lags(req[q].link, CodeOf(q), req[q].since, B)'
    <2>1. CASE HasHit(q)
        <3>1. PICK c \in Codes : CodeOf(q) = c
            BY <2>1, CodeTyped DEF HasHit, InService
        <3>2. PICK i \in DOMAIN store : /\ store[i].code = c /\ req'[q].link = store[i].link
                                       /\ now <= store[i].until /\ store[i].until \in Nat
            <4>1. PICK i \in Hit(c) : req'[q].link = store[i].link
                BY <2>1, <3>1 DEF HasHit
            <4>2. i \in DOMAIN store /\ store[i].code = c /\ ~(store[i].until < now)
                BY <4>1 DEF Hit, Entry, Stale
            <4>3. store[i] \in CacheEntry
                BY <4>2, TypeIs DEF CacheOK
            <4> QED
                BY <1>a, <4>1, <4>2, <4>3 DEF CacheEntry
        <3>3. Lags(store[i].link, c, store[i].until, B)
            BY <3>2 DEF StaleInv
        <3>4. req[q].since \in Nat /\ req[q].since <= now
            BY <1>a DEF RequestInv, Request
        <3>5. Lags(store[i].link, c, req[q].since, B)
            BY <1>a, <1>c, <3>2, <3>3, <3>4 DEF Lags
        <3>6. /\ req'[q].link = store[i].link /\ req'[q].since = req[q].since
              /\ CodeOf(q)' = c
            BY <2>1, <3>1, <3>2 DEF HasHit, Kept, CodeOf
        <3>7. ASSUME NEW copy, copy = store[i].link, NEW at \in Nat, at = req[q].since
              PROVE  Lags(copy, c, at, B)'
            <4> HIDE DEF B
            <4> QED
                BY <1>a, <3>5, <3>7, LagsStep
        <3> QED
            BY <3>4, <3>6, <3>7 DEF Lags, Differs
    <2>2. CASE HoldsOn(q)
        <3>1. /\ req[q].pc \in {"fill", "check", "click"} /\ req[q].kind = "redirect"
            BY <1>4, <2>2 DEF HoldsOn, Kept
        <3>2. CodeOf(q) \in Codes
            BY <3>1, CodeTyped DEF InService
        <3>3. Lags(req[q].link, CodeOf(q), req[q].since, B)
            <4>1. CASE req[q].pc = "fill"
                <5>1. Lags(req[q].link, CodeOf(q), req[q].since, 0) /\ req[q].since \in Nat
                    BY <1>a, <4>1 DEF StaleInv, Request
                <5> QED
                    BY <1>a, <1>c, <3>2, <5>1 DEF Lags
            <4>2. CASE req[q].pc \in {"check", "click"}
                BY <3>1, <4>2 DEF StaleInv
            <4> QED
                BY <3>1, <4>1, <4>2
        <3> QED
            BY <1>2, <1>a, <2>2, <3>2, <3>3
    <2>3. CASE HasRead(q) \/ HoldsNone(q)
        BY <1>4, <2>3 DEF HasRead, HoldsNone, Kept
    <2> QED
        BY <2>1, <2>2, <2>3, HandSteps DEF HandStep
<1> QED
    BY <1>1, <1>3, <1>4 DEF StaleInv, Lags, Differs

-----------------------------------------------------------------------------
(* The theorems.                                                           *)

LEMMA InvInit == ObservedInit => IInv
<1> SUFFICES ASSUME ObservedInit PROVE IInv
    OBVIOUS
<1>1. /\ links = {} /\ store = <<>> /\ now = 0
      /\ clicks = [c \in Codes |-> 0] /\ changed = [c \in Codes |-> 0]
      /\ req = [r \in Requests |-> Idle]
    BY DEF ObservedInit, Init
<1>2. Idle \in Request
    BY IdleTyped
<1>3. /\ Idle.link = {} /\ Idle.since = 0 /\ Idle.reply = "none" /\ Idle.pc = "idle"
      /\ Idle.code = {}
    BY DEF Idle
<1>4. TypeOK
    <2>1. CacheOK(<<>>)
        BY Bounds DEF CacheOK, NoCodeTwice
    <2> QED
        BY <1>1, <1>2, <2>1, TypeIs
<1>5. RequestInv /\ ChangedInv /\ ExpiryInv /\ StaleInv
    BY <1>1, <1>3 DEF RequestInv, InService, ChangedInv, AtMostOne, ExpiryInv, StaleInv
<1>5a. RowsInv
    BY <1>1, <1>3 DEF RowsInv, Wins
<1>5b. CopiesInv
    BY <1>1, <1>3 DEF CopiesInv, AtMostOne
<1>6. DeletionReachesCache
    BY <1>1 DEF DeletionReachesCache
<1> QED
    BY <1>4, <1>5, <1>5a, <1>5b, <1>6 DEF IInv

LEMMA InvStep == IInv /\ [ObservedNext]_<<vars, changed>> => IInv'
<1> SUFFICES ASSUME IInv, [ObservedNext]_<<vars, changed>> PROVE IInv'
    OBVIOUS
<1>1. CASE ObservedNext
    <2>1. Next /\ Observe
        BY <1>1 DEF ObservedNext
    <2>2. TypeOK' /\ RequestInv'
        BY <2>1, TypeStep, RequestStep DEF IInv
    <2>3. RowsInv' /\ CopiesInv' /\ ExpiryInv'
        BY <2>1, RowsStep, CopiesStep, ExpiryStep DEF IInv
    <2>4. ChangedInv' /\ DeletionReachesCache' /\ StaleInv'
        BY <2>1, ChangedStep, DeletionStep, StaleStep DEF IInv
    <2> QED
        BY <2>2, <2>3, <2>4 DEF IInv
<1>2. CASE UNCHANGED <<vars, changed>>
    <2>1. UNCHANGED <<links, clicks, store, now, req, changed>>
        BY <1>2 DEF vars
    <2>2. TypeOK' /\ RequestInv'
        BY <1>2, TypeStep, RequestStep DEF IInv
    <2>3. RowsInv' /\ ChangedInv' /\ ExpiryInv'
        BY <2>1 DEF IInv, RowsInv, ChangedInv, ExpiryInv, Owns, Wins, HasRow
    <2>4. CopiesInv'
        BY <2>1 DEF IInv, CopiesInv, CopyOf, HasRow, AtMostOne
    <2>5. DeletionReachesCache'
        BY <2>1 DEF IInv, DeletionReachesCache, Active, Row, Deleting, CodeOf
    <2>6. StaleInv'
        BY <2>1 DEF IInv, StaleInv, Lags, Differs, Active, Row, CodeOf
    <2> QED
        BY <2>2, <2>3, <2>4, <2>5, <2>6 DEF IInv
<1> QED
    BY <1>1, <1>2

(* The inductive invariant that the theorems below follow from.            *)
THEOREM LinkServiceInvariant == ObservedSpec => []IInv
    BY InvInit, InvStep, PTL DEF ObservedSpec

(* Whatever requests race, crash or fail, the tables, the cache and the    *)
(* requests keep their types, and the cache its size (cache.py:45-51).     *)
THEOREM TypeCorrect == ObservedSpec => []TypeOK
<1>1. IInv => TypeOK
    BY DEF IInv
<1> QED
    BY <1>1, LinkServiceInvariant, PTL

(* At most one request is told that it got a code.  Redirects from the     *)
(* code go where that one asked for, and never to the link of a request    *)
(* that was told anything else (shortener.py:65-95, 127).                  *)
THEOREM OneWinner == ObservedSpec => []OneWinnerPerCode
<1>1. IInv => OneWinnerPerCode
    <2> SUFFICES ASSUME IInv PROVE OneWinnerPerCode
        OBVIOUS
    <2>a. RequestInv /\ RowsInv /\ CopiesInv /\ req \in [Requests -> Request]
          /\ links \subseteq Link
        BY TypeIs DEF IInv
    <2>b. ASSUME NEW r \in Requests, req[r].reply = "created"
          PROVE  CodeOf(r) \in Codes /\ HasRow(r, CodeOf(r))
        <3>1. PICK c \in Codes : req[r].code = {c}
            BY <2>a, <2>b DEF RequestInv
        <3>2. CodeOf(r) = c /\ Wins(r, c)
            BY <2>b, <3>1, CodeIs DEF Wins
        <3> QED
            BY <2>a, <3>2 DEF RowsInv
    <2>c. ASSUME NEW r, NEW q, NEW c, HasRow(r, c), HasRow(q, c) PROVE r = q
        BY <2>a, <2>c DEF HasRow, RowsInv
    <2>1. ASSUME NEW r \in Requests, NEW q \in Requests,
                 req[r].reply = "created", req[q].reply = "created", CodeOf(r) = CodeOf(q)
          PROVE  r = q
        BY <2>1, <2>b, <2>c
    <2>2. ASSUME NEW q \in Requests, req[q].reply = "redirected", NEW l \in req[q].link
          PROVE  /\ l.code = CodeOf(q)
                 /\ \A r \in Requests :
                        req[r].reply = "created" /\ CodeOf(r) = CodeOf(q) => r = l.owner
                 /\ req[l.owner].pc = "answer" \/ req[l.owner].reply \in {"created", "lost"}
        <3>1. {l.code} = req[q].code /\ HasRow(l.owner, l.code)
            BY <2>a DEF CopiesInv
        <3>2. l.code \in Codes
            BY <2>a DEF Request, Link
        <3>3. CodeOf(q) = l.code
            BY <3>1, <3>2, CodeIs
        <3>4. Owns(l.owner, l.code)
            BY <2>a, <3>1 DEF HasRow, RowsInv
        <3> QED
            BY <2>b, <2>c, <3>1, <3>3, <3>4 DEF Owns, Wins
    <2> QED
        BY <2>1, <2>2 DEF OneWinnerPerCode, Answered
<1> QED
    BY <1>1, LinkServiceInvariant, PTL

(* Nobody is sent to a link that had expired when he asked, however old    *)
(* the copy it is checked on (shortener.py:115, 128).                      *)
THEOREM ExpiryIsHonoured == ObservedSpec => []ExpiryHonoured
<1>1. IInv => ExpiryHonoured
    BY DEF IInv, ExpiryInv, ExpiryHonoured
<1> QED
    BY <1>1, LinkServiceInvariant, PTL

(* No active copy of a deactivated link survives the deactivation in the   *)
(* cache (shortener.py:143-146).                                           *)
THEOREM DeletionIsSeen == ObservedSpec => []DeletionReachesCache
<1>1. IInv => DeletionReachesCache
    BY DEF IInv
<1> QED
    BY <1>1, LinkServiceInvariant, PTL

(* A link of which no active copy is left never comes back                 *)
(* (shortener.py:81, 119-127, 143).                                        *)
THEOREM DeletedForGood == ObservedSpec => DeletionIsFinal
<1>1. IInv /\ [ObservedNext]_<<vars, changed>>
          => [\A c \in Codes : Gone(c) => Gone(c)']_<<vars, changed>>
    <2> SUFFICES ASSUME IInv, Next, NEW c \in Codes, Gone(c) PROVE Gone(c)'
        BY DEF ObservedNext
    <2>a. TypeOK /\ RequestInv /\ CopiesInv /\ TypeOK' /\ RequestInv'
        BY TypeStep, RequestStep DEF IInv
    <2>1. Row(c)' # {} /\ ~Active(Row(c))'
        BY <2>a, RowChange DEF Gone, Active
    <2>2. ASSUME NEW i \in DOMAIN store', store'[i].code = c PROVE ~Active(store[i].link)'
        <3>1. CASE Before(store'[i])
            BY <2>2, <3>1 DEF Before, Gone, Active
        <3>2. ASSUME NEW r \in Requests, Fills(r, store'[i]) PROVE ~Active(store[i].link)'
            <4>1. req[r].pc = "fill" /\ CodeOf(r) = c /\ store'[i].link = req[r].link
                BY <2>2, <3>2 DEF Fills, Filled
            <4> QED
                BY <4>1 DEF Gone, InHand, Active
        <3> QED
            BY <2>a, <3>1, <3>2, StoreSteps
    <2>3. ASSUME NEW q \in Requests, req'[q].pc \in {"fill", "check", "click"}, CodeOf(q)' = c
          PROVE  ~Active(req[q].link)'
        <3>1. CASE HasRead(q)
            <4>1. CodeOf(q) = c
                BY <2>3, <3>1 DEF HasRead, Kept, CodeOf
            <4> QED
                BY <3>1, <4>1 DEF HasRead, Gone, Active
        <3>2. CASE HasHit(q)
            <4>1. CodeOf(q) = c
                BY <2>3, <3>2 DEF HasHit, Kept, CodeOf
            <4>2. PICK i \in DOMAIN store : store[i].code = c /\ req'[q].link = store[i].link
                BY <3>2, <4>1 DEF HasHit, Hit, Entry
            <4> QED
                BY <4>2 DEF Gone, Active
        <3>3. CASE HoldsOn(q)
            <4>1. CodeOf(q) = c /\ req'[q].link = req[q].link
                  /\ req[q].pc \in {"fill", "check", "click"}
                BY <2>3, <3>3 DEF HoldsOn, Kept, CodeOf
            <4> QED
                BY <4>1 DEF Gone, InHand, Active
        <3>4. CASE HoldsNone(q)
            BY <2>3, <3>4 DEF HoldsNone
        <3> QED
            BY <2>a, <3>1, <3>2, <3>3, <3>4, HandSteps DEF HandStep
    <2> QED
        BY <2>1, <2>2, <2>3 DEF Gone, InHand
<1> QED
    BY <1>1, LinkServiceInvariant, PTL DEF ObservedSpec, DeletionIsFinal

(* How long a redirect may answer from a copy that the row has moved on    *)
(* from (cache.py:6-8, shortener.py:111, 122, 127).                        *)
THEOREM StaleBounded == ObservedSpec => StaleAnswersBounded
<1>1. IInv => [\A r \in Requests : StaleAnswer(r) =>
                  now <= changed[CodeOf(r)] + CacheTTL + 2 * Latency]_<<vars, changed>>
    <2> SUFFICES ASSUME IInv, NEW r \in Requests, StaleAnswer(r)
                 PROVE  now <= changed[CodeOf(r)] + CacheTTL + 2 * Latency
        OBVIOUS
    <2>1. req[r].pc \in {"check", "click"} /\ req[r].kind = "redirect"
          /\ Differs(req[r].link, CodeOf(r))
        BY DEF StaleAnswer, Differs
    <2>2. CodeOf(r) \in Codes /\ changed[CodeOf(r)] \in Nat
        BY <2>1, CodeTyped DEF IInv, ChangedInv, InService
    <2>3. req[r].since <= changed[CodeOf(r)] + (CacheTTL + Latency)
        BY <2>1 DEF IInv, StaleInv, Lags
    <2>4. now <= req[r].since + Latency /\ now \in Nat /\ req[r].since \in Nat
        <3>1. now \in Nat /\ req[r] \in Request
            BY TypeIs DEF IInv
        <3> QED
            BY <2>1, <3>1 DEF IInv, RequestInv, InService, Request
    <2> QED
        BY <2>2, <2>3, <2>4, Bounds
<1> QED
    BY <1>1, LinkServiceInvariant, PTL DEF ObservedSpec, StaleAnswersBounded

=============================================================================
