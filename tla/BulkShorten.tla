---------------------------- MODULE BulkShorten ----------------------------
(***************************************************************************)
(* How links are created in the service the brownfield scenario produces   *)
(* (runs/brownfield/workspace/app): POST /shorten and the new POST         *)
(* /shorten/bulk, with short codes given out by the primary key of table   *)
(* links instead of a SELECT before the INSERT.                            *)
(*                                                                         *)
(* Flask serves every request in a thread with a connection of its own.    *)
(* An INSERT opens a transaction and takes the write lock of the database, *)
(* which COMMIT or ROLLBACK gives back; a thread waits for the lock until  *)
(* sqlite3 raises "database is locked".  The rows are the committed ones.  *)
(*                                                                         *)
(* A request is a list of items here: one for /shorten, one for every URL  *)
(* for /shorten/bulk.                                                      *)
(***************************************************************************)
EXTENDS Naturals, Sequences, FiniteSets

CONSTANTS
    Codes,     \* what generate_code may return, and aliases
    Requests,  \* the requests of a behaviour, each served once
    MayPost,   \* bound: what each may post
    MaxItems,  \* MAX_BULK_URLS
    Tries      \* how many codes are tried for an item (5)

(* An item is a valid URL, one that validate_url refuses, or something it  *)
(* cannot handle: a number, say, in the place of a string.                 *)
ItemKinds == {"valid", "invalid", "malformed"}

Body == [bulk : BOOLEAN, alias : SUBSET Codes, items : Seq(ItemKinds)]

ASSUME BulkAssumption ==
    /\ MayPost \in [Requests -> SUBSET Body]
    /\ \A r \in Requests : \A b \in MayPost[r] :
        /\ \A c, d \in b.alias : c = d
        /\ b.bulk => b.alias = {}
        /\ ~b.bulk => Len(b.items) = 1
    /\ MaxItems \in Nat \ {0}
    /\ Tries \in Nat \ {0}

VARIABLES
    links,    \* who inserted the row of a code, in a set: request and item
    lock,     \* the thread that holds the write lock, in a set
    pc,       \* how far the thread of a request has come
    body,     \* what it was sent
    at,       \* the item it is at
    tries,    \* attempts in create_short_link
    drawn,    \* code in create_short_link, in a set
    results,  \* results in shorten_bulk: the code an item got, in a set
    reply     \* the outcome of the request

vars == <<links, lock, pc, body, at, tries, drawn, results, reply>>

PCs == {"idle", "item", "insert", "commit", "done"}

(* 201, 409, 400, 429, 500, and no answer at all. *)
Replies == {"none", "created", "taken", "refused", "limited", "error", "lost"}

Nothing == [bulk |-> FALSE, alias |-> {}, items |-> <<"invalid">>]

Init ==
    /\ links = [c \in Codes |-> {}]
    /\ lock = {}
    /\ pc = [r \in Requests |-> "idle"]
    /\ body = [r \in Requests |-> Nothing]
    /\ at = [r \in Requests |-> 1]
    /\ tries = [r \in Requests |-> 0]
    /\ drawn = [r \in Requests |-> {}]
    /\ results = [r \in Requests |-> <<>>]
    /\ reply = [r \in Requests |-> "none"]

Goto(r, l) == pc' = [pc EXCEPT ![r] = l]

Reply(r, outcome, told) ==
    /\ Goto(r, "done")
    /\ reply' = [reply EXCEPT ![r] = outcome]
    /\ results' = [results EXCEPT ![r] = told]

-----------------------------------------------------------------------------
(* shorten and shorten_bulk, around create_short_link.                     *)

(* The rate limiter is asked once for a request, whatever it holds. *)
Limited(r) ==
    /\ pc[r] = "idle"
    /\ Reply(r, "limited", <<>>)
    /\ UNCHANGED <<links, lock, body, at, tries, drawn>>

BadBatch(b) == b.bulk /\ (b.items = <<>> \/ Len(b.items) > MaxItems)

Post(r) ==
    /\ pc[r] = "idle"
    /\ \E b \in MayPost[r] :
        /\ body' = [body EXCEPT ![r] = b]
        /\ IF BadBatch(b)
           THEN Reply(r, "refused", <<>>)
           ELSE Goto(r, "item") /\ UNCHANGED <<results, reply>>
    /\ UNCHANGED <<links, lock, at, tries, drawn>>

Item(r) == body[r].items[at[r]]

AtItem(r, kind) ==
    pc[r] = "item" /\ at[r] <= Len(body[r].items) /\ Item(r) = kind

(* create_short_link has returned code c for the item, or {} stands for an *)
(* AppError it has raised.                                                 *)
LeftOut(r, got) ==  \* a mistake: no entry for an item that failed
    IF got = {} THEN results[r] ELSE Append(results[r], got)

Reported(r, got) == Append(results[r], got)

NextItem(r, got) ==
    /\ Goto(r, "item")
    /\ at' = [at EXCEPT ![r] = @ + 1]
    /\ results' = [results EXCEPT ![r] = Reported(r, got)]
    /\ UNCHANGED reply

(* validate_url raises InvalidURLError, an AppError. *)
Invalid(r) ==
    /\ AtItem(r, "invalid")
    /\ \/ body[r].bulk /\ NextItem(r, {})
       \/ ~body[r].bulk /\ Reply(r, "refused", <<{}>>) /\ UNCHANGED at
    /\ UNCHANGED <<links, lock, body, tries, drawn>>

(* An AttributeError or a TypeError, which nothing catches. *)
Malformed(r) ==
    /\ AtItem(r, "malformed")
    /\ Reply(r, "error", <<>>)
    /\ UNCHANGED <<links, lock, body, at, tries, drawn>>

FirstCode(r) ==
    /\ AtItem(r, "valid")
    /\ \E c \in IF body[r].alias = {} THEN Codes ELSE body[r].alias :
        drawn' = [drawn EXCEPT ![r] = {c}]
    /\ tries' = [tries EXCEPT ![r] = 1]
    /\ Goto(r, "insert")
    /\ UNCHANGED <<links, lock, body, at, results, reply>>

(* After the last item. *)
Respond(r) ==
    /\ pc[r] = "item"
    /\ at[r] > Len(body[r].items)
    /\ Reply(r, "created", results[r])
    /\ UNCHANGED <<links, lock, body, at, tries, drawn>>

-----------------------------------------------------------------------------
(* create_short_link: the transaction.                                     *)

KeyFree(r) == \A c \in drawn[r] : links[c] = {}

Insert(r) ==
    /\ pc[r] = "insert"
    /\ lock = {}
    /\ KeyFree(r)
    /\ lock' = {r}
    /\ Goto(r, "commit")
    /\ UNCHANGED <<links, body, at, tries, drawn, results, reply>>

(* IntegrityError: tx has rolled back, and a generated code is drawn anew. *)
KeepsTx(r) == {r}  \* a mistake: to go on inside the transaction

RolledBack(r) == lock \ {r}

SameTry(r) == tries[r]  \* a mistake: to count the items, not the attempts

NextTry(r) == tries[r] + 1

Conflict(r) ==
    /\ pc[r] = "insert"
    /\ lock = {}
    /\ ~KeyFree(r)
    /\ lock' = RolledBack(r)
    /\ \/ /\ body[r].alias # {}
          /\ Reply(r, "taken", <<{}>>)
          /\ UNCHANGED <<tries, drawn>>
       \/ /\ body[r].alias = {} /\ tries[r] >= Tries
          /\ Reply(r, "error", <<>>)
          /\ UNCHANGED <<tries, drawn>>
       \/ /\ body[r].alias = {} /\ tries[r] < Tries
          /\ \E c \in Codes : drawn' = [drawn EXCEPT ![r] = {c}]
          /\ tries' = [tries EXCEPT ![r] = NextTry(r)]
          /\ UNCHANGED <<pc, results, reply>>
    /\ UNCHANGED <<links, body, at>>

Commit(r) ==
    /\ pc[r] = "commit"
    /\ links' = [c \in Codes |-> IF c \in drawn[r] THEN {<<r, at[r]>>} ELSE links[c]]
    /\ lock' = {}
    /\ NextItem(r, drawn[r])
    /\ UNCHANGED <<body, tries, drawn>>

AsConflict(r) ==  \* a mistake: to catch every sqlite3.Error
    IF body[r].alias # {} THEN "taken" ELSE "error"

AsFailure(r) == "error"

(* An OperationalError: the lock was not to be had, or the disk failed.    *)
DbRaises(r) ==
    /\ pc[r] \in {"insert", "commit"}
    /\ lock' = lock \ {r}
    /\ Reply(r, AsFailure(r), <<>>)
    /\ UNCHANGED <<links, body, at, tries, drawn>>

-----------------------------------------------------------------------------
Serve(r) ==
    \/ Invalid(r) \/ Malformed(r) \/ FirstCode(r) \/ Respond(r)
    \/ Insert(r) \/ Conflict(r) \/ Commit(r) \/ DbRaises(r)

(* The process ends, and what it had not committed is rolled back.         *)
Crash ==
    LET running == {r \in Requests : pc[r] \notin {"idle", "done"}} IN
    /\ running # {}
    /\ lock' = {}
    /\ pc' = [r \in Requests |-> IF r \in running THEN "done" ELSE pc[r]]
    /\ reply' = [r \in Requests |-> IF r \in running THEN "lost" ELSE reply[r]]
    /\ results' = [r \in Requests |-> IF r \in running THEN <<>> ELSE results[r]]
    /\ UNCHANGED <<links, body, at, tries, drawn>>

Next ==
    \/ \E r \in Requests : Limited(r) \/ Post(r)
    \/ \E r \in Requests : Serve(r)
    \/ Crash

Spec == Init /\ [][Next]_vars

(* A thread that has begun goes on; waiting for the lock has an end.       *)
FairSpec == Spec /\ \A r \in Requests : WF_vars(Serve(r))

-----------------------------------------------------------------------------
(* The write lock is held by the thread between its INSERT and its COMMIT, *)
(* also after one that failed, and an item is tried a bounded number of    *)
(* times (db.py:32-41, shortener.py:72-88).                                *)
TypeOK ==
    /\ links \in [Codes -> SUBSET (Requests \X (1..MaxItems))]
    /\ lock = {r \in Requests : pc[r] = "commit"}
    /\ pc \in [Requests -> PCs]
    /\ DOMAIN body = Requests /\ \A r \in Requests : body[r] \in MayPost[r] \union {Nothing}
    /\ at \in [Requests -> 1..(MaxItems + 1)]
    /\ tries \in [Requests -> 0..Tries]
    /\ drawn \in [Requests -> SUBSET Codes]
    /\ results \in [Requests -> Seq(SUBSET Codes)]
    /\ reply \in [Requests -> Replies]

(* Whoever is told that an alias is taken can see who has it: the row is   *)
(* committed, and it is another request's, even if the one that made this  *)
(* request wait has failed (shortener.py:83-85).                           *)
TakenMeansTaken ==
    \A r \in Requests : reply[r] = "taken" =>
        \E c \in body[r].alias : links[c] # {} /\ \A i \in links[c] : i[1] # r

(* What the clients see of all this. *)
Told == [r \in Requests |-> IF reply[r] \in {"created", "taken", "refused", "limited"}
                            THEN results[r] ELSE <<>>]

State ==
    [r \in Requests |->
        CASE reply[r] = "none" -> "open"
          [] reply[r] \in {"error", "lost"} -> "broken"
          [] OTHER -> "answered"]

Allocation == INSTANCE LinkAllocation WITH owner <- links, told <- Told, state <- State

(* The answer to a request, put together item by item while other requests *)
(* insert, fail and crash, says of every item what the table then holds    *)
(* for it, and nothing is stored that no answer tells of unless the        *)
(* request broke off (main.py:106-115, shortener.py:72-97).                *)
KeepsAllocation == Allocation!Spec

(* A request comes to its end: the codes run out, or the lock is held, but *)
(* nothing is tried for ever (shortener.py:86-87).                         *)
EveryRequestEnds == \A r \in Requests : pc[r] # "idle" ~> pc[r] = "done"

=============================================================================
