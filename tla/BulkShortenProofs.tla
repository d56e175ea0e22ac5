------------------------- MODULE BulkShortenProofs -------------------------
(***************************************************************************)
(* That creating links, one or many at a time, implements LinkAllocation,  *)
(* for any codes, requests, bodies and limits.                             *)
(***************************************************************************)
EXTENDS BulkShorten, TLAPS

(* The codes whose row an item has inserted. *)
Has(i) == {c \in Codes : i \in links[c]}

Serving(r) == pc[r] \in {"item", "insert", "commit"}

(* Between INSERT and COMMIT nobody else writes, so the key stays free.    *)
WriterInv ==
    /\ \A r, q \in Requests : pc[r] = "commit" /\ pc[q] = "commit" => r = q
    /\ \A r \in Requests : pc[r] = "commit" => KeyFree(r)

(* A request in service is within its batch, and an alias is the one code  *)
(* it tries.                                                               *)
Drawn(r) ==
    /\ at[r] <= Len(body[r].items)
    /\ \E c \in Codes : drawn[r] = {c}
    /\ body[r].alias # {} => drawn[r] = body[r].alias

BodyInv ==
    \A r \in Requests : Serving(r) =>
        /\ body[r] \in MayPost[r]
        /\ Len(body[r].items) <= MaxItems
        /\ at[r] <= Len(body[r].items) + 1
        /\ pc[r] \in {"insert", "commit"} => Drawn(r)

(* What a request will answer is what the table holds for its items, and   *)
(* for the items to come it holds nothing.                                 *)
Stored(r) == [k \in 1..(at[r] - 1) |-> Has(<<r, k>>)]

ResultsInv ==
    \A r \in Requests :
        /\ reply[r] = "none" <=> pc[r] # "done"
        /\ pc[r] = "idle" => at[r] = 1
        /\ pc[r] # "done" =>
            /\ results[r] = Stored(r)
            /\ \A k \in 1..MaxItems : k >= at[r] => Has(<<r, k>>) = {}

IInv == TypeOK /\ WriterInv /\ BodyInv /\ ResultsInv

USE DEF PCs, Replies

LEMMA Bounds == MaxItems \in Nat \ {0} /\ Tries \in Nat \ {0}
    BY BulkAssumption

(* What is not put together item by item is one of two answers.            *)
LEMMA Answers ==
    /\ <<>> \in Seq(SUBSET Codes)
    /\ <<{}>> \in Seq(SUBSET Codes)
    /\ \A s \in Seq(SUBSET Codes), C \in SUBSET Codes : Append(s, C) \in Seq(SUBSET Codes)
<1>1. {} \in SUBSET Codes
    OBVIOUS
<1>2. <<{}>> \in Seq(SUBSET Codes)
    BY <1>1
<1> QED
    BY <1>2

-----------------------------------------------------------------------------
(* An item further, the results follow the table.                          *)
LEMMA AppendStored ==
    ASSUME NEW S, NEW n \in Nat, NEW f \in [1..n -> S], NEW g \in [1..(n + 1) -> S],
           \A k \in 1..n : g[k] = f[k]
    PROVE  Append(f, g[n + 1]) = g
<1>1. f \in Seq(S) /\ Len(f) = n
    OBVIOUS
<1>2. DOMAIN Append(f, g[n + 1]) = 1..(n + 1)
    BY <1>1
<1>3. \A k \in 1..(n + 1) : Append(f, g[n + 1])[k] = g[k]
    BY <1>1
<1>4. Append(f, g[n + 1]) = [k \in 1..(n + 1) |-> g[k]]
    BY <1>1, <1>2, <1>3
<1> QED
    BY <1>4

(* The body a request in service has.                                      *)
LEMMA BodyShape ==
    ASSUME NEW r \in Requests, NEW b \in MayPost[r]
    PROVE  /\ b.bulk \in BOOLEAN
           /\ b.alias \subseteq Codes
           /\ b.items \in Seq(ItemKinds)
           /\ Len(b.items) \in Nat
           /\ \A c, d \in b.alias : c = d
           /\ b.bulk => b.alias = {}
           /\ ~b.bulk => Len(b.items) = 1
<1>1. b \in Body
    BY BulkAssumption
<1> QED
    BY <1>1, BulkAssumption DEF Body

-----------------------------------------------------------------------------
LEMMA InService ==
    ASSUME IInv, NEW r \in Requests, Serving(r)
    PROVE  /\ body[r].bulk \in BOOLEAN
           /\ body[r].alias \subseteq Codes
           /\ \A c, d \in body[r].alias : c = d
           /\ body[r].bulk => body[r].alias = {}
           /\ ~body[r].bulk => Len(body[r].items) = 1
           /\ Len(body[r].items) \in 0..MaxItems
           /\ at[r] \in 1..(Len(body[r].items) + 1)
           /\ pc[r] \in {"insert", "commit"} => at[r] \in 1..MaxItems /\ Drawn(r)
<1>1. /\ body[r] \in MayPost[r]
      /\ Len(body[r].items) <= MaxItems
      /\ at[r] <= Len(body[r].items) + 1
      /\ pc[r] \in {"insert", "commit"} => Drawn(r)
    BY DEF IInv, BodyInv
<1>2. at[r] \in 1..(MaxItems + 1)
    BY DEF IInv, TypeOK
<1>3. Len(body[r].items) \in Nat
    BY <1>1, BodyShape
<1>4. pc[r] \in {"insert", "commit"} => at[r] <= Len(body[r].items)
    BY <1>1 DEF Drawn
<1> QED
    BY <1>1, <1>2, <1>3, <1>4, Bounds, BodyShape

-----------------------------------------------------------------------------
LEMMA InitHolds == Init => IInv
<1> SUFFICES ASSUME Init PROVE IInv
    OBVIOUS
<1> USE Bounds
<1>1. TypeOK
    BY DEF Init, TypeOK
<1>2. WriterInv /\ BodyInv
    BY DEF Init, WriterInv, BodyInv, Serving
<1>3. ResultsInv
    <2> SUFFICES ASSUME NEW r \in Requests
                 PROVE  /\ results[r] = Stored(r)
                        /\ \A k \in 1..MaxItems : Has(<<r, k>>) = {}
        BY DEF Init, ResultsInv
    <2>1. \A i : Has(i) = {}
        BY DEF Init, Has
    <2>2. Stored(r) = <<>>
        BY DEF Init, Stored
    <2> QED
        BY <2>1, <2>2 DEF Init
<1> QED
    BY <1>1, <1>2, <1>3 DEF IInv

(* Most steps insert nothing.                                              *)
LEMMA SameTable ==
    ASSUME UNCHANGED links
    PROVE  /\ \A i : Has(i)' = Has(i)
           /\ \A r \in Requests : UNCHANGED at[r] => UNCHANGED Stored(r)
    BY DEF Has, Stored

-----------------------------------------------------------------------------
(* The parts of the invariant, each over every action.                     *)

USE DEF Goto, Reply, NextItem, Reported, AtItem, Item

LEMMA TypeStep == IInv /\ [Next]_vars => TypeOK'
<1> SUFFICES ASSUME IInv, [Next]_vars PROVE TypeOK'
    OBVIOUS
<1> USE Bounds, Answers DEF IInv, TypeOK
<1>1. ASSUME NEW r \in Requests, Limited(r) PROVE TypeOK'
    BY <1>1 DEF Limited
<1>2. ASSUME NEW r \in Requests, Post(r) PROVE TypeOK'
    <2>1. PICK b \in MayPost[r] :
            /\ body' = [body EXCEPT ![r] = b]
            /\ IF BadBatch(b)
               THEN Reply(r, "refused", <<>>)
               ELSE Goto(r, "item") /\ UNCHANGED <<results, reply>>
        BY <1>2 DEF Post
    <2>2. pc[r] = "idle" /\ UNCHANGED <<links, lock, at, tries, drawn>>
        BY <1>2 DEF Post
    <2>3. DOMAIN body' = Requests /\ \A q \in Requests : body'[q] \in MayPost[q] \union {Nothing}
        BY <2>1
    <2>4. CASE Reply(r, "refused", <<>>)
        <3>1. pc' \in [Requests -> PCs] /\ {q \in Requests : pc'[q] = "commit"} = lock
            BY <2>2, <2>4
        <3> QED
            BY <2>2, <2>3, <2>4, <3>1
    <2>5. CASE Goto(r, "item") /\ UNCHANGED <<results, reply>>
        <3>1. pc' \in [Requests -> PCs] /\ {q \in Requests : pc'[q] = "commit"} = lock
            BY <2>2, <2>5
        <3> QED
            BY <2>2, <2>3, <2>5, <3>1
    <2> QED
        BY <2>1, <2>4, <2>5
<1>3. ASSUME NEW r \in Requests, Serve(r) PROVE TypeOK'
    <2>1. CASE Invalid(r)
        <3>1. at[r] + 1 \in 1..(MaxItems + 1)
            BY <2>1, InService DEF Invalid, Serving
        <3>2. CASE body[r].bulk /\ NextItem(r, {})
            <4>1. Append(results[r], {}) \in Seq(SUBSET Codes)
                OBVIOUS
            <4> QED
                BY <2>1, <3>1, <3>2, <4>1 DEF Invalid
        <3>3. CASE ~body[r].bulk /\ Reply(r, "refused", <<{}>>) /\ UNCHANGED at
            BY <2>1, <3>3 DEF Invalid
        <3> QED
            BY <2>1, <3>2, <3>3 DEF Invalid
    <2>2. CASE Malformed(r)
        BY <2>2 DEF Malformed
    <2>3. CASE FirstCode(r)
        <3>1. body[r].alias \subseteq Codes
            BY <2>3, InService DEF FirstCode, Serving
        <3> QED
            BY <2>3, <3>1 DEF FirstCode
    <2>4. CASE Respond(r)
        BY <2>4 DEF Respond
    <2>5. CASE Insert(r)
        BY <2>5 DEF Insert
    <2>6. CASE Conflict(r)
        <3>1. lock' = {} /\ lock = {} /\ pc[r] = "insert"
            BY <2>6 DEF Conflict, RolledBack
        <3>2. CASE Reply(r, "taken", <<{}>>) /\ UNCHANGED <<tries, drawn>>
            BY <2>6, <3>1, <3>2 DEF Conflict
        <3>3. CASE Reply(r, "error", <<>>) /\ UNCHANGED <<tries, drawn>>
            BY <2>6, <3>1, <3>3 DEF Conflict
        <3>4. CASE /\ tries[r] < Tries
                   /\ \E c \in Codes : drawn' = [drawn EXCEPT ![r] = {c}]
                   /\ tries' = [tries EXCEPT ![r] = NextTry(r)]
                   /\ UNCHANGED <<pc, results, reply>>
            <4>1. tries[r] + 1 \in 0..Tries
                BY <3>4
            <4> QED
                BY <2>6, <3>1, <3>4, <4>1 DEF Conflict, NextTry
        <3> QED
            BY <2>6, <3>2, <3>3, <3>4 DEF Conflict
    <2>7. CASE Commit(r)
        <3>a. at[r] \in 1..MaxItems
            BY <2>7, InService DEF Commit, Serving
        <3>1. at[r] + 1 \in 1..(MaxItems + 1) /\ at[r] \in 1..MaxItems
            BY <3>a
        <3>2. links' \in [Codes -> SUBSET (Requests \X (1..MaxItems))]
            BY <2>7, <3>1 DEF Commit
        <3>3. Append(results[r], drawn[r]) \in Seq(SUBSET Codes)
            OBVIOUS
        <3>4. lock' = {q \in Requests : pc'[q] = "commit"}
            BY <2>7 DEF Commit, WriterInv
        <3> QED
            BY <2>7, <3>1, <3>2, <3>3, <3>4 DEF Commit
    <2>8. CASE DbRaises(r)
        BY <2>8 DEF DbRaises, AsFailure
    <2> QED
        BY <1>3, <2>1, <2>2, <2>3, <2>4, <2>5, <2>6, <2>7, <2>8 DEF Serve
<1>4. CASE Crash
    BY <1>4 DEF Crash
<1>5. CASE UNCHANGED vars
    BY <1>5 DEF vars
<1> QED
    BY <1>1, <1>2, <1>3, <1>4, <1>5 DEF Next

LEMMA WriterStep == IInv /\ [Next]_vars => WriterInv'
<1> SUFFICES ASSUME IInv, [Next]_vars PROVE WriterInv'
    OBVIOUS
<1> USE Bounds DEF IInv, TypeOK, WriterInv, KeyFree
<1>1. ASSUME NEW r \in Requests, Limited(r) \/ Post(r) PROVE WriterInv'
    <2>1. \A q \in Requests : pc'[q] = "commit" => pc[q] = "commit"
        BY <1>1 DEF Limited, Post
    <2>2. UNCHANGED <<links, drawn>>
        BY <1>1 DEF Limited, Post
    <2> QED
        BY <2>1, <2>2
<1>2. ASSUME NEW r \in Requests, Serve(r) PROVE WriterInv'
    <2>1. CASE Invalid(r)
        <3>1. \A q \in Requests : pc'[q] = "commit" => pc[q] = "commit"
            BY <2>1 DEF Invalid
        <3> QED
            BY <2>1, <3>1 DEF Invalid
    <2>2. CASE Malformed(r)
        BY <2>2 DEF Malformed
    <2>3. CASE FirstCode(r)
        BY <2>3 DEF FirstCode
    <2>4. CASE Respond(r)
        BY <2>4 DEF Respond
    <2>5. CASE Insert(r)
        BY <2>5 DEF Insert
    <2>6. CASE Conflict(r)
        <3>1. \A q \in Requests : pc'[q] # "commit"
            BY <2>6 DEF Conflict
        <3> QED
            BY <3>1
    <2>7. CASE Commit(r)
        BY <2>7 DEF Commit
    <2>8. CASE DbRaises(r)
        BY <2>8 DEF DbRaises
    <2> QED
        BY <1>2, <2>1, <2>2, <2>3, <2>4, <2>5, <2>6, <2>7, <2>8 DEF Serve
<1>3. CASE Crash
    BY <1>3 DEF Crash
<1>4. CASE UNCHANGED vars
    BY <1>4 DEF vars
<1> QED
    BY <1>1, <1>2, <1>3, <1>4 DEF Next

(* A step of r alone, which leaves the bodies as they are.                 *)
LEMMA BodyStays ==
    ASSUME BodyInv, NEW r \in Requests, UNCHANGED body,
           \A q \in Requests : q # r => UNCHANGED <<pc[q], at[q], drawn[q]>>,
           Serving(r)' =>
               /\ Serving(r)
               /\ at'[r] <= Len(body[r].items) + 1
               /\ pc'[r] \in {"insert", "commit"} => Drawn(r)'
    PROVE  BodyInv'
<1> SUFFICES ASSUME NEW q \in Requests, Serving(q)'
             PROVE  (/\ body[q] \in MayPost[q]
                     /\ Len(body[q].items) <= MaxItems
                     /\ at[q] <= Len(body[q].items) + 1
                     /\ pc[q] \in {"insert", "commit"} => Drawn(q))'
    BY DEF BodyInv
<1>1. CASE q # r
    <2>1. UNCHANGED <<pc[q], at[q], drawn[q]>> /\ Serving(q)
        BY <1>1 DEF Serving
    <2>2. Drawn(q)' <=> Drawn(q)
        BY <2>1 DEF Drawn
    <2> QED
        BY <2>1, <2>2 DEF BodyInv
<1>2. CASE q = r
    BY <1>2 DEF BodyInv
<1> QED
    BY <1>1, <1>2

LEMMA BodyInvalid ==
    ASSUME IInv, NEW r \in Requests, Invalid(r)
    PROVE  BodyInv'
<1>1. /\ pc \in [Requests -> PCs] /\ at \in [Requests -> 1..(MaxItems + 1)]
      /\ BodyInv
    BY DEF IInv, TypeOK
<1>2. pc[r] = "item" /\ at[r] <= Len(body[r].items) /\ UNCHANGED <<body, drawn>>
    BY DEF Invalid
<1>3. at[r] \in Nat /\ Len(body[r].items) \in Nat
    BY <1>2, InService DEF Serving
<1>4. CASE NextItem(r, {})
    <2>1. pc' = [pc EXCEPT ![r] = "item"] /\ at' = [at EXCEPT ![r] = @ + 1]
        BY <1>4
    <2>2. pc'[r] = "item" /\ at'[r] = at[r] + 1
        BY <1>1, <2>1
    <2>3. at'[r] <= Len(body[r].items) + 1
        BY <1>2, <1>3, <2>2
    <2>4. \A q \in Requests : q # r => UNCHANGED <<pc[q], at[q], drawn[q]>>
        BY <1>1, <1>2, <2>1
    <2> QED
        BY <1>1, <1>2, <2>2, <2>3, <2>4, BodyStays DEF Serving
<1>5. CASE Reply(r, "refused", <<{}>>) /\ UNCHANGED at
    <2>1. pc' = [pc EXCEPT ![r] = "done"] /\ UNCHANGED at
        BY <1>5
    <2>2. ~Serving(r)'
        BY <1>1, <2>1 DEF Serving
    <2>3. \A q \in Requests : q # r => UNCHANGED <<pc[q], at[q], drawn[q]>>
        BY <1>1, <1>2, <2>1
    <2> QED
        BY <1>1, <1>2, <2>2, <2>3, BodyStays
<1> QED
    BY <1>4, <1>5 DEF Invalid

LEMMA BodyStep == IInv /\ [Next]_vars => BodyInv'
<1> SUFFICES ASSUME IInv, [Next]_vars PROVE BodyInv'
    OBVIOUS
<1> USE Bounds DEF IInv, TypeOK, BodyInv, Serving, Drawn
<1>1. ASSUME NEW r \in Requests, Limited(r) PROVE BodyInv'
    BY <1>1 DEF Limited
<1>2. ASSUME NEW r \in Requests, Post(r) PROVE BodyInv'
    <2>1. PICK b \in MayPost[r] :
            /\ body' = [body EXCEPT ![r] = b]
            /\ IF BadBatch(b)
               THEN Reply(r, "refused", <<>>)
               ELSE Goto(r, "item") /\ UNCHANGED <<results, reply>>
        BY <1>2 DEF Post
    <2>2. /\ b.bulk \in BOOLEAN /\ Len(b.items) \in Nat
          /\ ~b.bulk => Len(b.items) = 1
        BY BodyShape
    <2>3. ~BadBatch(b) => Len(b.items) <= MaxItems
        <3>1. CASE b.bulk
            BY <3>1 DEF BadBatch
        <3>2. CASE ~b.bulk
            <4>1. Len(b.items) = 1
                BY <2>2, <3>2
            <4> QED
                BY <4>1
        <3> QED
            BY <3>1, <3>2
    <2>4. at[r] = 1 /\ pc[r] = "idle" /\ UNCHANGED <<links, lock, at, tries, drawn>>
        BY <1>2 DEF Post, ResultsInv
    <2>5. CASE BadBatch(b)
        BY <2>1, <2>4, <2>5
    <2>6. CASE ~BadBatch(b)
        <3>1. \A q \in Requests : q # r => pc'[q] = pc[q] /\ body'[q] = body[q]
            BY <2>1, <2>6
        <3>2. pc'[r] = "item" /\ body'[r] = b
            BY <2>1, <2>6
        <3>3. Len(b.items) <= MaxItems /\ 1 <= Len(b.items) + 1 /\ at'[r] = 1
            BY <2>2, <2>3, <2>4, <2>6
        <3> SUFFICES ASSUME NEW q \in Requests, Serving(q)'
                     PROVE  (/\ body[q] \in MayPost[q]
                             /\ Len(body[q].items) <= MaxItems
                             /\ at[q] <= Len(body[q].items) + 1
                             /\ pc[q] \in {"insert", "commit"} => Drawn(q))'
            OBVIOUS
        <3>4. CASE q # r
            <4>1. Serving(q) /\ at'[q] = at[q]
                BY <2>4, <3>1, <3>4
            <4> QED
                BY <2>4, <3>1, <3>4, <4>1
        <3>5. CASE q = r
            BY <3>2, <3>3, <3>5
        <3> QED
            BY <3>4, <3>5
    <2> QED
        BY <2>5, <2>6
<1>3. ASSUME NEW r \in Requests, Serve(r) PROVE BodyInv'
    <2>1. CASE Invalid(r)
        BY <2>1, BodyInvalid
    <2>2. CASE Malformed(r)
        BY <2>2 DEF Malformed
    <2>3. CASE FirstCode(r)
        <3>1. PICK c \in IF body[r].alias = {} THEN Codes ELSE body[r].alias :
                drawn' = [drawn EXCEPT ![r] = {c}]
            BY <2>3 DEF FirstCode
        <3>2. /\ body[r].alias \subseteq Codes
              /\ \A d, e \in body[r].alias : d = e
            BY <2>3, BodyShape DEF FirstCode
        <3>3. c \in Codes /\ (body[r].alias # {} => {c} = body[r].alias)
            BY <3>1, <3>2
        <3> QED
            BY <2>3, <3>1, <3>3 DEF FirstCode
    <2>4. CASE Respond(r)
        BY <2>4 DEF Respond
    <2>5. CASE Insert(r)
        BY <2>5 DEF Insert
    <2>6. CASE Conflict(r)
        <3>1. \A q \in Requests : q # r => pc'[q] = pc[q] /\ drawn'[q] = drawn[q]
            BY <2>6 DEF Conflict
        <3>2. pc'[r] = "done" \/ /\ pc'[r] = "insert" /\ pc[r] = "insert"
                                 /\ body[r].alias = {}
                                 /\ \E c \in Codes : drawn'[r] = {c}
            BY <2>6 DEF Conflict
        <3>3. UNCHANGED <<body, at>>
            BY <2>6 DEF Conflict
        <3>4. \A q \in Requests : q # r /\ Serving(q)' => Serving(q)
            BY <3>1
        <3> SUFFICES ASSUME NEW q \in Requests, Serving(q)'
                     PROVE  /\ body[q] \in MayPost[q]
                            /\ Len(body[q].items) <= MaxItems
                            /\ at[q] <= Len(body[q].items) + 1
                            /\ pc'[q] \in {"insert", "commit"} => Drawn(q)'
            BY <3>3
        <3>5. CASE q # r
            <4>1. Serving(q) /\ pc'[q] = pc[q] /\ drawn'[q] = drawn[q]
                BY <3>1, <3>4, <3>5
            <4>2. pc[q] \in {"insert", "commit"} => Drawn(q)
                BY <4>1
            <4>3. Drawn(q) => Drawn(q)'
                BY <3>3, <4>1
            <4> QED
                BY <4>1, <4>2, <4>3
        <3>6. CASE q = r
            BY <3>2, <3>3, <3>6
        <3> QED
            BY <3>5, <3>6
    <2>7. CASE Commit(r)
        BY <2>7, BodyShape DEF Commit
    <2>8. CASE DbRaises(r)
        BY <2>8 DEF DbRaises
    <2> QED
        BY <1>3, <2>1, <2>2, <2>3, <2>4, <2>5, <2>6, <2>7, <2>8 DEF Serve
<1>4. CASE Crash
    BY <1>4 DEF Crash
<1>5. CASE UNCHANGED vars
    BY <1>5 DEF vars
<1> QED
    BY <1>1, <1>2, <1>3, <1>4, <1>5 DEF Next

LEMMA StillToCome ==
    ASSUME ResultsInv, NEW r \in Requests, pc[r] # "done",
           NEW k \in 1..MaxItems, k >= at[r]
    PROVE  Has(<<r, k>>) = {}
    BY DEF ResultsInv

(* The results are told apart by whether the step ends the request, goes   *)
(* on to the next item, or neither.                                        *)
Kept(r) == /\ UNCHANGED <<at[r], results[r], reply[r]>>
           /\ pc[r] # "done" /\ pc'[r] \notin {"done", "idle"}

Ended(r) == pc'[r] = "done" /\ reply'[r] # "none"

LEMMA ResultsOthers ==
    ASSUME ResultsInv, NEW r \in Requests, UNCHANGED links,
           \A q \in Requests \ {r} : UNCHANGED <<pc[q], at[q], results[q], reply[q]>>,
           Kept(r) \/ Ended(r)
    PROVE  ResultsInv'
<1> SUFFICES ASSUME NEW q \in Requests
             PROVE  (/\ reply[q] = "none" <=> pc[q] # "done"
                     /\ pc[q] = "idle" => at[q] = 1
                     /\ pc[q] # "done" =>
                         /\ results[q] = Stored(q)
                         /\ \A k \in 1..MaxItems : k >= at[q] => Has(<<q, k>>) = {})'
    BY DEF ResultsInv
<1>1. \A i : Has(i)' = Has(i)
    BY SameTable
<1>2. UNCHANGED at[q] => Stored(q)' = Stored(q)
    BY SameTable
<1>3. CASE q # r \/ Kept(r)
    <2>1. /\ UNCHANGED <<at[q], results[q], reply[q]>>
          /\ pc'[q] = "done" <=> pc[q] = "done"
          /\ pc'[q] = "idle" => pc[q] = "idle"
        BY <1>3 DEF Kept, Ended
    <2> QED
        BY <1>1, <1>2, <2>1 DEF ResultsInv
<1>4. CASE q = r /\ Ended(r)
    BY <1>4 DEF Ended
<1> QED
    BY <1>3, <1>4

(* The item a request is at is done with, and the table holds got for it.  *)
LEMMA ResultsNext ==
    ASSUME IInv, NEW r \in Requests, Serving(r), NEW got \in SUBSET Codes,
           NEW i \in 1..MaxItems, i = at[r],
           NextItem(r, got),
           Has(<<r, i>>)' = got,
           \A q \in Requests, k \in 1..MaxItems : <<q, k>> # <<r, i>>
               => Has(<<q, k>>)' = Has(<<q, k>>)
    PROVE  ResultsInv'
<1> USE Bounds DEF IInv, TypeOK
<1>1. at'[r] = i + 1 /\ pc'[r] = "item" /\ reply' = reply
    OBVIOUS
<1>2. ASSUME NEW q \in Requests, q # r
      PROVE  /\ UNCHANGED <<pc[q], at[q], results[q], reply[q]>>
             /\ UNCHANGED Stored(q)
             /\ \A k \in 1..MaxItems : UNCHANGED Has(<<q, k>>)
    <2>1. UNCHANGED <<pc[q], at[q], results[q], reply[q]>>
        BY <1>2
    <2>2. \A k \in 1..MaxItems : Has(<<q, k>>)' = Has(<<q, k>>)
        BY <1>2
    <2>3. at[q] - 1 \in 0..MaxItems
        OBVIOUS
    <2>4. \A k \in 1..(at[q] - 1) : Has(<<q, k>>)' = Has(<<q, k>>)
        BY <2>2, <2>3
    <2> QED
        BY <2>1, <2>2, <2>4 DEF Stored
<1>3. results'[r] = Stored(r)'
    <2> DEFINE n == i - 1
               g == [k \in 1..(n + 1) |-> Has(<<r, k>>)']
    <2>1. n \in Nat /\ n + 1 = i
        OBVIOUS
    <2>2. results[r] = [k \in 1..n |-> Has(<<r, k>>)]
        BY DEF ResultsInv, Stored, Serving
    <2>3. results[r] \in [1..n -> SUBSET Codes]
        BY <2>2 DEF Has
    <2>4. g \in [1..(n + 1) -> SUBSET Codes]
        BY DEF Has
    <2>5. \A k \in 1..n : g[k] = results[r][k]
        BY <2>1, <2>2
    <2>6. g[n + 1] = got
        BY SMTT(30), <2>1
    <2>7. Append(results[r], g[n + 1]) = g
        <3> HIDE DEF n, g
        <3> QED
            BY <2>1, <2>3, <2>4, <2>5, AppendStored
    <2>8. results'[r] = Append(results[r], got)
        OBVIOUS
    <2>9. Stored(r)' = g
        BY <1>1, <2>1 DEF Stored
    <2> QED
        BY <2>6, <2>7, <2>8, <2>9
<1>4. \A k \in 1..MaxItems : k >= at'[r] => Has(<<r, k>>)' = {}
    <2> SUFFICES ASSUME NEW k \in 1..MaxItems, k >= i + 1 PROVE Has(<<r, k>>)' = {}
        BY <1>1
    <2>1. Has(<<r, k>>)' = Has(<<r, k>>)
        OBVIOUS
    <2>2. Has(<<r, k>>) = {}
        <3>1. k >= at[r] /\ pc[r] # "done"
            BY DEF Serving
        <3> QED
            BY <3>1, StillToCome
    <2> QED
        BY <2>1, <2>2
<1>5. reply'[r] = "none"
    BY <1>1 DEF ResultsInv, Serving
<1>6. /\ reply'[r] = "none" <=> pc'[r] # "done"
      /\ pc'[r] = "idle" => at'[r] = 1
    BY <1>1, <1>5
<1>7. ASSUME NEW q \in Requests, q # r
      PROVE  (/\ reply[q] = "none" <=> pc[q] # "done"
              /\ pc[q] = "idle" => at[q] = 1
              /\ pc[q] # "done" =>
                  /\ results[q] = Stored(q)
                  /\ \A k \in 1..MaxItems : k >= at[q] => Has(<<q, k>>) = {})'
    <2>1. /\ reply[q] = "none" <=> pc[q] # "done"
          /\ pc[q] = "idle" => at[q] = 1
          /\ pc[q] # "done" => results[q] = Stored(q)
        BY DEF ResultsInv
    <2>2. ASSUME pc'[q] # "done", NEW k \in 1..MaxItems, k >= at'[q]
          PROVE  Has(<<q, k>>)' = {}
        <3>1. pc[q] # "done" /\ k >= at[q] /\ Has(<<q, k>>)' = Has(<<q, k>>)
            BY <1>2, <1>7, <2>2
        <3> QED
            BY <3>1, StillToCome
    <2> QED
        BY <1>2, <1>7, <2>1, <2>2
<1> QED
    BY <1>3, <1>4, <1>6, <1>7 DEF ResultsInv

LEMMA ResultsStep == IInv /\ [Next]_vars => ResultsInv'
<1> SUFFICES ASSUME IInv, [Next]_vars PROVE ResultsInv'
    OBVIOUS
<1>a. ResultsInv
    BY DEF IInv
<1> USE DEF IInv, TypeOK
<1>1. ASSUME NEW r \in Requests, Limited(r) PROVE ResultsInv'
    <2>1. Ended(r) /\ UNCHANGED links
        BY <1>1 DEF Limited, Ended
    <2>2. \A q \in Requests \ {r} : UNCHANGED <<pc[q], at[q], results[q], reply[q]>>
        BY <1>1 DEF Limited
    <2> QED
        BY <1>a, <2>1, <2>2, ResultsOthers
<1>2. ASSUME NEW r \in Requests, Post(r) PROVE ResultsInv'
    <2>1. UNCHANGED <<links, at>> /\ pc[r] = "idle"
        BY <1>2 DEF Post
    <2>2. \/ Reply(r, "refused", <<>>)
          \/ Goto(r, "item") /\ UNCHANGED <<results, reply>>
        BY <1>2 DEF Post
    <2>3. Kept(r) \/ Ended(r)
        BY <2>1, <2>2 DEF Kept, Ended
    <2>4. \A q \in Requests \ {r} : UNCHANGED <<pc[q], at[q], results[q], reply[q]>>
        BY <2>1, <2>2
    <2> QED
        BY <1>a, <2>1, <2>3, <2>4, ResultsOthers
<1>3. ASSUME NEW r \in Requests, Serve(r), ~Commit(r), ~(Invalid(r) /\ body[r].bulk)
      PROVE  ResultsInv'
    <2>1. UNCHANGED links
        BY <1>3 DEF Serve, Invalid, Malformed, FirstCode, Respond, Insert, Conflict, DbRaises
    <2>2. Kept(r) \/ Ended(r)
        <3> USE DEF Kept, Ended
        <3>1. CASE Invalid(r)
            BY <1>3, <3>1 DEF Invalid
        <3>2. CASE Malformed(r) \/ Respond(r)
            BY <3>2 DEF Malformed, Respond
        <3>3. CASE FirstCode(r) \/ Insert(r)
            BY <3>3 DEF FirstCode, Insert
        <3>4. CASE Conflict(r)
            BY <3>4 DEF Conflict
        <3>5. CASE DbRaises(r)
            BY <3>5 DEF DbRaises, AsFailure
        <3> QED
            BY <1>3, <3>1, <3>2, <3>3, <3>4, <3>5 DEF Serve
    <2>3. \A q \in Requests \ {r} : UNCHANGED <<pc[q], at[q], results[q], reply[q]>>
        BY <1>3 DEF Serve, Invalid, Malformed, FirstCode, Respond, Insert, Conflict, DbRaises
    <2> QED
        BY <1>a, <2>1, <2>2, <2>3, ResultsOthers
<1>4. ASSUME NEW r \in Requests, Invalid(r), body[r].bulk PROVE ResultsInv'
    <2>1. NextItem(r, {}) /\ UNCHANGED links /\ Serving(r)
        BY <1>4 DEF Invalid, Serving
    <2>a. at[r] \in 1..MaxItems
        <3>1. at[r] \in 1..(Len(body[r].items) + 1) /\ Len(body[r].items) \in 0..MaxItems
            BY <2>1, InService
        <3>2. at[r] <= Len(body[r].items)
            BY <1>4 DEF Invalid
        <3> QED
            BY <3>1, <3>2, Bounds
    <2>2. PICK i \in 1..MaxItems : i = at[r]
        BY <2>a
    <2>3. \A j : Has(j)' = Has(j)
        BY <2>1, SameTable
    <2>4. Has(<<r, i>>) = {}
        <3>1. i >= at[r] /\ pc[r] # "done"
            BY <2>1, <2>2, Bounds DEF Serving
        <3> QED
            BY <1>a, <3>1, StillToCome
    <2> QED
        BY <2>1, <2>2, <2>3, <2>4, ResultsNext
<1>5. ASSUME NEW r \in Requests, Commit(r) PROVE ResultsInv'
    <2>1. NextItem(r, drawn[r]) /\ Serving(r) /\ pc[r] = "commit"
        BY <1>5 DEF Commit, Serving
    <2>a. at[r] \in 1..MaxItems /\ drawn[r] \in SUBSET Codes
        BY <2>1, InService
    <2>2. PICK i \in 1..MaxItems : i = at[r]
        BY <2>a
    <2>3. links' = [c \in Codes |-> IF c \in drawn[r] THEN {<<r, i>>} ELSE links[c]]
        BY <1>5, <2>2 DEF Commit
    <2>4. \A c \in drawn[r] : links[c] = {}
        BY <2>1 DEF WriterInv, KeyFree
    <2>5. Has(<<r, i>>) = {}
        <3>1. i >= at[r] /\ pc[r] # "done"
            BY <2>1, <2>2, Bounds DEF Serving
        <3> QED
            BY <1>a, <3>1, StillToCome
    <2>6. Has(<<r, i>>)' = drawn[r]
        BY <2>a, <2>3, <2>5 DEF Has
    <2>7. ASSUME NEW q \in Requests, NEW k \in 1..MaxItems, <<q, k>> # <<r, i>>
          PROVE  Has(<<q, k>>)' = Has(<<q, k>>)
        BY <2>3, <2>4, <2>7 DEF Has
    <2> QED
        BY <2>1, <2>2, <2>a, <2>6, <2>7, ResultsNext
<1>6. CASE Crash
    <2> DEFINE R == {r \in Requests : pc[r] \notin {"idle", "done"}}
    <2>1. /\ pc' = [r \in Requests |-> IF r \in R THEN "done" ELSE pc[r]]
          /\ reply' = [r \in Requests |-> IF r \in R THEN "lost" ELSE reply[r]]
          /\ results' = [r \in Requests |-> IF r \in R THEN <<>> ELSE results[r]]
          /\ UNCHANGED <<links, at>>
        BY <1>6 DEF Crash
    <2> SUFFICES ASSUME NEW q \in Requests
                 PROVE  (/\ reply[q] = "none" <=> pc[q] # "done"
                         /\ pc[q] = "idle" => at[q] = 1
                         /\ pc[q] # "done" =>
                             /\ results[q] = Stored(q)
                             /\ \A k \in 1..MaxItems : k >= at[q] => Has(<<q, k>>) = {})'
        BY DEF ResultsInv
    <2>2. UNCHANGED Stored(q) /\ \A i : Has(i)' = Has(i)
        BY <2>1, SameTable
    <2>3. CASE q \in R
        BY <2>1, <2>3
    <2>4. CASE q \notin R
        <3>1. UNCHANGED <<pc[q], reply[q], results[q], at[q]>>
            BY <2>1, <2>4
        <3> QED
            BY <1>a, <2>2, <3>1 DEF ResultsInv
    <2> QED
        BY <2>3, <2>4
<1>7. CASE UNCHANGED vars
    BY <1>a, <1>7 DEF vars, ResultsInv, Stored, Has
<1> QED
    BY <1>1, <1>2, <1>3, <1>4, <1>5, <1>6, <1>7 DEF Next, Serve

-----------------------------------------------------------------------------
LEMMA Inductive == Spec => []IInv
<1>1. Init => IInv
    BY InitHolds
<1>2. IInv /\ [Next]_vars => IInv'
    BY TypeStep, WriterStep, BodyStep, ResultsStep DEF IInv
<1> QED
    BY <1>1, <1>2, PTL DEF Spec

(* The lock discipline and the bounds of the retry loop hold for any       *)
(* number of requests, codes and items (db.py:32-41, shortener.py:72-88).  *)
THEOREM TypeCorrect == Spec => []TypeOK
<1>1. IInv => TypeOK
    BY DEF IInv
<1> QED
    BY <1>1, Inductive, PTL

(* A 409 is never wrong: the alias is another request's row, and remains   *)
(* so (shortener.py:83-85).                                                *)
TakenInv ==
    \A r \in Requests : reply[r] = "taken" =>
        /\ pc[r] = "done"
        /\ \E c \in Codes \intersect body[r].alias :
                links[c] # {} /\ \A i \in links[c] : i[1] # r

LEMMA TableGrows ==
    ASSUME IInv, [Next]_vars, NEW c \in Codes, links[c] # {}
    PROVE  links'[c] = links[c]
<1>1. ASSUME NEW r \in Requests, Commit(r) PROVE links'[c] = links[c]
    BY <1>1 DEF Commit, IInv, WriterInv, KeyFree
<1>2. ASSUME NEW r \in Requests, Serve(r), ~Commit(r) PROVE links' = links
    BY <1>2 DEF Serve, Invalid, Malformed, FirstCode, Respond, Insert, Conflict, DbRaises
<1>3. ASSUME NEW r \in Requests, Limited(r) \/ Post(r) PROVE links' = links
    BY <1>3 DEF Limited, Post
<1> QED
    BY <1>1, <1>2, <1>3 DEF Next, Crash, vars

LEMMA TakenStep == IInv /\ TakenInv /\ [Next]_vars => TakenInv'
<1> SUFFICES ASSUME IInv, TakenInv, [Next]_vars,
                    NEW q \in Requests, reply'[q] = "taken"
             PROVE  (/\ pc[q] = "done"
                     /\ \E c \in Codes \intersect body[q].alias :
                             links[c] # {} /\ \A i \in links[c] : i[1] # q)'
    BY DEF TakenInv
<1> USE DEF IInv, TypeOK
<1>1. CASE reply[q] = "taken"
    <2>1. PICK c \in Codes \intersect body[q].alias :
            links[c] # {} /\ \A i \in links[c] : i[1] # q
        BY <1>1 DEF TakenInv
    <2>2. links'[c] = links[c]
        BY <2>1, TableGrows
    <2>3. pc[q] = "done"
        BY <1>1 DEF TakenInv
    <2>4. pc'[q] = "done" /\ body'[q] = body[q]
        <3>1. ASSUME NEW r \in Requests, Limited(r) \/ Post(r)
              PROVE  pc'[q] = "done" /\ body'[q] = body[q]
            BY <2>3, <3>1 DEF Limited, Post
        <3>2. ASSUME NEW r \in Requests, Serve(r)
              PROVE  pc'[q] = "done" /\ body'[q] = body[q]
            BY <2>3, <3>2 DEF Serve, Invalid, Malformed, FirstCode, Respond, Insert,
                              Conflict, Commit, DbRaises
        <3> QED
            BY <2>3, <3>1, <3>2 DEF Next, Crash, vars
    <2> QED
        BY <2>1, <2>2, <2>4
<1>2. CASE reply[q] # "taken"
    <2>1. Conflict(q) /\ Reply(q, "taken", <<{}>>) /\ body[q].alias # {}
        <3>1. ASSUME NEW r \in Requests, Limited(r) \/ Post(r) PROVE FALSE
            BY <1>2, <3>1 DEF Limited, Post
        <3>2. ASSUME NEW r \in Requests, Serve(r), ~Conflict(r) PROVE FALSE
            BY <1>2, <3>2 DEF Serve, Invalid, Malformed, FirstCode, Respond, Insert,
                              Commit, DbRaises, AsFailure
        <3>3. ASSUME NEW r \in Requests, Conflict(r)
              PROVE  q = r /\ Reply(q, "taken", <<{}>>) /\ body[q].alias # {}
            BY <1>2, <3>3 DEF Conflict
        <3>4. CASE Crash
            BY <1>2, <3>4 DEF Crash
        <3> QED
            BY <1>2, <3>1, <3>2, <3>3, <3>4 DEF Next, Serve, vars
    <2>2. PICK c \in drawn[q] : links[c] # {}
        BY <2>1 DEF Conflict, KeyFree
    <2>3. Serving(q) /\ Drawn(q)
        BY <2>1, InService DEF Conflict, Serving
    <2>4. c \in Codes \intersect body[q].alias
        BY <2>1, <2>2, <2>3 DEF Drawn
    <2>5. at[q] = 1
        <3>1. ~body[q].bulk
            BY <2>1, <2>3, InService
        <3>2. Len(body[q].items) = 1
            BY <2>3, <3>1, InService
        <3>3. at[q] \in 1..MaxItems /\ at[q] <= Len(body[q].items)
            BY <2>1, <2>3, InService DEF Drawn, Conflict
        <3> QED
            BY <3>2, <3>3
    <2>6. \A k \in 1..MaxItems : <<q, k>> \notin links[c]
        <3> SUFFICES ASSUME NEW k \in 1..MaxItems PROVE <<q, k>> \notin links[c]
            OBVIOUS
        <3>1. k >= at[q] /\ pc[q] # "done"
            BY <2>3, <2>5, Bounds DEF Serving
        <3>2. Has(<<q, k>>) = {}
            BY <3>1, StillToCome
        <3> QED
            BY <2>4, <3>2 DEF Has
    <2>7. links[c] \subseteq Requests \X (1..MaxItems)
        BY <2>4
    <2>8. \A i \in links[c] : i[1] # q
        BY <2>6, <2>7
    <2>9. pc'[q] = "done" /\ UNCHANGED <<links, body>>
        BY <2>1 DEF Conflict
    <2> QED
        BY <2>2, <2>4, <2>8, <2>9
<1> QED
    BY <1>1, <1>2

(* Whoever is told that an alias is taken can see who has it               *)
(* (shortener.py:83-85).                                                   *)
THEOREM TakenCorrect == Spec => []TakenMeansTaken
<1>1. Init => TakenInv
    BY DEF Init, TakenInv
<1>2. TakenInv => TakenMeansTaken
    BY DEF TakenInv, TakenMeansTaken
<1> QED
    BY <1>1, <1>2, TakenStep, Inductive, PTL DEF Spec

-----------------------------------------------------------------------------
(* The refinement.                                                         *)

LEMMA Hidden ==
    ASSUME UNCHANGED <<links, reply>>,
           \A r \in Requests : reply[r] # "none" => UNCHANGED results[r]
    PROVE  UNCHANGED <<links, Told, State>>
    BY DEF Told, State

(* A request breaks off. *)
LEMMA BreaksOff ==
    ASSUME ResultsInv, TypeOK, UNCHANGED links, NEW R \in SUBSET Requests,
           \A r \in R : reply[r] = "none" /\ reply'[r] \in {"error", "lost"},
           \A r \in Requests \ R : UNCHANGED <<reply[r], results[r]>>
    PROVE  Allocation!Break(R)
<1>1. \A r \in R : State[r] = "open" /\ State'[r] = "broken"
    BY DEF State
<1>2. \A r \in Requests \ R : State'[r] = State[r]
    BY DEF State
<1>3. State' = [r \in Requests |-> IF r \in R THEN "broken" ELSE State[r]]
    BY <1>1, <1>2 DEF State
<1>4. \A r \in Requests : Told'[r] = Told[r]
    BY DEF Told
<1>5. Told' = Told
    BY <1>4 DEF Told
<1> QED
    BY <1>1, <1>3, <1>5 DEF Allocation!Break

(* A request is answered with what the table holds for its n items.        *)
LEMMA IsAnswered ==
    ASSUME TypeOK, UNCHANGED links, NEW r \in Requests, NEW n \in 0..MaxItems, NEW told,
           NEW outcome \in {"created", "taken", "refused", "limited"},
           reply[r] = "none", Reply(r, outcome, told),
           told = [k \in 1..n |-> Has(<<r, k>>)],
           \A k \in 1..MaxItems : k > n => Has(<<r, k>>) = {}
    PROVE  Allocation!Answer(r, n)
<1> USE DEF TypeOK
<1>1. \A i : Allocation!Got(i) = Has(i)
    BY DEF Allocation!Got, Has
<1>2. State[r] = "open"
    BY DEF State
<1>3. State' = [State EXCEPT ![r] = "answered"]
    BY DEF State
<1>4. Told' = [Told EXCEPT ![r] = told]
    BY DEF Told
<1>5. told = [k \in 1..n |-> Allocation!Got(<<r, k>>)]
    BY <1>1
<1> QED
    BY <1>1, <1>2, <1>3, <1>4, <1>5 DEF Allocation!Answer

(* Nothing is inserted for a request that has not come past its first item.*)
LEMMA NothingYet ==
    ASSUME IInv, NEW r \in Requests, pc[r] # "done", at[r] = 1
    PROVE  \A k \in 1..MaxItems : Has(<<r, k>>) = {}
    BY Bounds, StillToCome DEF IInv

LEMMA RefusedAtOnce ==
    ASSUME IInv, UNCHANGED links, NEW r \in Requests, pc[r] = "idle",
           NEW outcome \in {"refused", "limited"}, Reply(r, outcome, <<>>)
    PROVE  Allocation!Answer(r, 0)
<1>1. at[r] = 1 /\ reply[r] = "none"
    BY DEF IInv, ResultsInv
<1>2. \A k \in 1..MaxItems : Has(<<r, k>>) = {}
    BY <1>1, NothingYet
<1>3. <<>> = [k \in 1..0 |-> Has(<<r, k>>)]
    OBVIOUS
<1>4. 0 \in 0..MaxItems /\ \A k \in 1..MaxItems : k > 0 => Has(<<r, k>>) = {}
    BY <1>2, Bounds
<1>5. TypeOK /\ outcome \in {"created", "taken", "refused", "limited"}
    BY DEF IInv
<1> QED
    BY <1>1, <1>3, <1>4, <1>5, IsAnswered

LEMMA RefusedSingle ==
    ASSUME IInv, UNCHANGED links, NEW r \in Requests, Serving(r), ~body[r].bulk,
           at[r] <= Len(body[r].items),
           NEW outcome \in {"refused", "taken"}, Reply(r, outcome, <<{}>>)
    PROVE  Allocation!Answer(r, 1)
<1>1. at[r] = 1
    <2>1. Len(body[r].items) = 1
        BY InService
    <2>2. at[r] \in 1..(Len(body[r].items) + 1)
        BY InService
    <2> QED
        BY <2>1, <2>2
<1>2. reply[r] = "none" /\ pc[r] # "done"
    BY DEF IInv, ResultsInv, Serving
<1>3. \A k \in 1..MaxItems : Has(<<r, k>>) = {}
    BY <1>1, <1>2, NothingYet
<1>4. Has(<<r, 1>>) = {} /\ 1 \in 0..MaxItems
    BY <1>3, Bounds
<1>5. <<{}>> = [k \in 1..1 |-> Has(<<r, k>>)]
    <2>1. \A k \in 1..1 : Has(<<r, k>>) = {}
        BY <1>4
    <2>2. [k \in 1..1 |-> Has(<<r, k>>)] = [k \in 1..1 |-> {}]
        BY <2>1
    <2>3. <<{}>> = [k \in 1..1 |-> {}]
        OBVIOUS
    <2> QED
        BY <2>2, <2>3, Zenon
<1> QED
    BY <1>2, <1>3, <1>4, <1>5, Bounds, IsAnswered DEF IInv

LEMMA StepRefines ==
    ASSUME IInv, [Next]_vars
    PROVE  [Allocation!Next]_<<links, Told, State>>
<1> USE DEF IInv, TypeOK
<1>0. \A r \in Requests : reply[r] = "none" <=> pc[r] # "done"
    BY DEF ResultsInv
<1>1. ASSUME NEW r \in Requests, Limited(r) PROVE Allocation!Next
    <2>1. Allocation!Answer(r, 0)
        BY <1>1, RefusedAtOnce DEF Limited
    <2> QED
        BY <2>1, Bounds DEF Allocation!Next
<1>2. ASSUME NEW r \in Requests, Post(r)
      PROVE  Allocation!Next \/ UNCHANGED <<links, Told, State>>
    <2>1. CASE Reply(r, "refused", <<>>)
        <3>1. Allocation!Answer(r, 0)
            BY <1>2, <2>1, RefusedAtOnce DEF Post
        <3> QED
            BY <3>1, Bounds DEF Allocation!Next
    <2>2. CASE UNCHANGED <<results, reply>>
        BY <1>2, <2>2, Hidden DEF Post
    <2> QED
        BY <1>2, <2>1, <2>2 DEF Post
<1>3. ASSUME NEW r \in Requests, Invalid(r)
      PROVE  Allocation!Next \/ UNCHANGED <<links, Told, State>>
    <2>1. CASE NextItem(r, {})
        BY <1>0, <1>3, <2>1, Hidden DEF Invalid
    <2>2. CASE ~body[r].bulk /\ Reply(r, "refused", <<{}>>)
        <3>1. Allocation!Answer(r, 1)
            BY <1>3, <2>2, RefusedSingle DEF Invalid, Serving
        <3> QED
            BY <3>1, Bounds DEF Allocation!Next
    <2> QED
        BY <1>3, <2>1, <2>2 DEF Invalid
<1>4. ASSUME NEW r \in Requests, Reply(r, "error", <<>>), UNCHANGED links, pc[r] # "done"
      PROVE  Allocation!Next
    <2>1. Allocation!Break({r})
        BY <1>0, <1>4, BreaksOff
    <2> QED
        BY <2>1 DEF Allocation!Next
<1>5. ASSUME NEW r \in Requests, Malformed(r) \/ DbRaises(r) PROVE Allocation!Next
    BY <1>4, <1>5 DEF Malformed, DbRaises, AsFailure
<1>6. ASSUME NEW r \in Requests, FirstCode(r) \/ Insert(r)
      PROVE  UNCHANGED <<links, Told, State>>
    BY <1>6, Hidden DEF FirstCode, Insert
<1>7. ASSUME NEW r \in Requests, Respond(r) PROVE Allocation!Next
    <2>1. Serving(r) /\ pc[r] # "done" /\ reply[r] = "none"
        BY <1>0, <1>7 DEF Respond, Serving
    <2>2. PICK n \in 0..MaxItems : n = at[r] - 1
        BY <2>1, InService, Bounds
    <2>3. results[r] = [k \in 1..n |-> Has(<<r, k>>)]
        BY <2>1, <2>2 DEF ResultsInv, Stored
    <2>4. \A k \in 1..MaxItems : k > n => Has(<<r, k>>) = {}
        <3> SUFFICES ASSUME NEW k \in 1..MaxItems, k > n PROVE Has(<<r, k>>) = {}
            OBVIOUS
        <3>1. k >= at[r]
            BY <2>2
        <3> QED
            BY <2>1, <3>1, StillToCome
    <2>5. Allocation!Answer(r, n)
        BY <1>7, <2>1, <2>3, <2>4, IsAnswered DEF Respond
    <2> QED
        BY <2>5 DEF Allocation!Next
<1>8. ASSUME NEW r \in Requests, Conflict(r)
      PROVE  Allocation!Next \/ UNCHANGED <<links, Told, State>>
    <2>1. Serving(r) /\ pc[r] # "done" /\ UNCHANGED links /\ Drawn(r)
        BY <1>8, InService DEF Conflict, Serving
    <2>2. CASE body[r].alias # {} /\ Reply(r, "taken", <<{}>>)
        <3>1. ~body[r].bulk /\ at[r] <= Len(body[r].items)
            BY <2>1, <2>2, InService DEF Drawn
        <3>2. Allocation!Answer(r, 1)
            BY <2>1, <2>2, <3>1, RefusedSingle
        <3> QED
            BY <3>2, Bounds DEF Allocation!Next
    <2>3. CASE Reply(r, "error", <<>>)
        BY <1>4, <2>1, <2>3
    <2>4. CASE UNCHANGED <<results, reply>>
        BY <2>1, <2>4, Hidden
    <2> QED
        BY <1>8, <2>2, <2>3, <2>4 DEF Conflict
<1>9. ASSUME NEW r \in Requests, Commit(r) PROVE Allocation!Next
    <2>1. Serving(r) /\ pc[r] = "commit" /\ reply[r] = "none"
        BY <1>0, <1>9 DEF Commit, Serving
    <2>2. at[r] \in 1..MaxItems /\ Drawn(r)
        BY <2>1, InService
    <2>3. PICK c \in Codes : drawn[r] = {c}
        BY <2>2 DEF Drawn
    <2>4. PICK i \in Allocation!Items : i = <<r, at[r]>>
        BY <2>2 DEF Allocation!Items
    <2>5. links' = [links EXCEPT ![c] = {i}]
        BY <1>9, <2>3, <2>4 DEF Commit
    <2>6. links[c] = {}
        BY <2>1, <2>3 DEF WriterInv, KeyFree
    <2>7. Allocation!Got(i) = {}
        <3>1. PICK k \in 1..MaxItems : k = at[r]
            BY <2>2
        <3>2. k >= at[r] /\ pc[r] # "done"
            BY <2>1, <3>1, Bounds
        <3>3. Has(<<r, k>>) = {}
            BY <3>2, StillToCome
        <3> QED
            BY <2>4, <3>1, <3>3 DEF Has, Allocation!Got
    <2>8. UNCHANGED <<Told, State>>
        <3>1. reply' = reply /\ \A q \in Requests : q # r => results'[q] = results[q]
            BY <1>9 DEF Commit
        <3> QED
            BY <2>1, <3>1 DEF Told, State
    <2>9. State[i[1]] = "open"
        BY <2>1, <2>4 DEF State
    <2>10. Allocation!Claim(i, c)
        BY <2>5, <2>6, <2>7, <2>8, <2>9 DEF Allocation!Claim
    <2> QED
        BY <2>10 DEF Allocation!Next
<1>10. ASSUME Crash PROVE Allocation!Next
    <2> DEFINE R == {r \in Requests : pc[r] \notin {"idle", "done"}}
    <2>1. /\ reply' = [r \in Requests |-> IF r \in R THEN "lost" ELSE reply[r]]
          /\ results' = [r \in Requests |-> IF r \in R THEN <<>> ELSE results[r]]
          /\ UNCHANGED links
        BY <1>10 DEF Crash
    <2>2. Allocation!Break(R)
        BY <1>0, <2>1, BreaksOff
    <2> QED
        BY <2>2 DEF Allocation!Next
<1>11. CASE UNCHANGED vars
    BY <1>11, Hidden DEF vars
<1> QED
    BY <1>1, <1>2, <1>3, <1>5, <1>6, <1>7, <1>8, <1>9, <1>10, <1>11 DEF Next, Serve

(* The answers to any number of requests, for one link or many, with any   *)
(* codes, crashes and database errors, are those of LinkAllocation: every  *)
(* item is told what the table holds for it (main.py:106-115,              *)
(* shortener.py:72-97).                                                    *)
THEOREM BulkKeepsAllocation == Spec => KeepsAllocation
<1>1. Init => Allocation!Init
    BY DEF Init, Allocation!Init, Told, State
<1>2. IInv /\ [Next]_vars => [Allocation!Next]_<<links, Told, State>>
    BY StepRefines
<1> QED
    BY <1>1, <1>2, Inductive, PTL DEF Spec, KeepsAllocation, Allocation!Spec, Allocation!vars

=============================================================================
