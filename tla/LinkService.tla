---------------------------- MODULE LinkService ----------------------------
(***************************************************************************)
(* The link service: shortener.py over the SQLite tables (db.py) and the   *)
(* in-memory redirect cache (cache.py), as the routes of main.py use them. *)
(*                                                                         *)
(* Flask serves every request in a thread of its own.  A statement on the  *)
(* database is one step, and so is a method of the cache, which holds the  *)
(* cache's lock; everything else of the other requests, and time, may come *)
(* in between.  Python's sqlite3 opens a transaction at the first write,   *)
(* so create_short_link's SELECT is not part of the one its INSERT is in.  *)
(*                                                                         *)
(* A row, and a copy of it, is told apart from "no row" by being a set of  *)
(* one or of no element; the long URL of a row is known by the request     *)
(* that submitted it.                                                      *)
(***************************************************************************)
EXTENDS Naturals, Sequences, SequencesExt

CONSTANTS
    Codes,          \* short codes
    Requests,       \* the requests of a behaviour, each served once
    MayAsk,         \* bound: what each may ask, kind and code
    LinkTTLs,       \* bound: values of ttl_seconds each may give; 0 stands for
                    \*   none as well
    CacheTTL,       \* CACHE_TTL_SECONDS
    CacheMax,       \* CACHE_MAX_ENTRIES
    MaxCollisions,  \* collisions generate_code is retried after (5)
    Latency,        \* bound: how long a request takes
    MaxTime         \* bound: the clock of a behaviour

Kinds == {"alias", "generated", "redirect", "lookup", "delete"}

ASSUME LinkServiceAssumption ==
    /\ MayAsk \in [Requests -> SUBSET (Kinds \X Codes)]
    /\ LinkTTLs \in [Requests -> SUBSET Nat]
    /\ CacheTTL \in Nat
    /\ CacheMax \in Nat \ {0}
    /\ MaxCollisions \in Nat
    /\ Latency \in Nat
    /\ MaxTime \in Nat

VARIABLES
    links,      \* the rows of table links
    clicks,     \* the number of rows of table clicks, per code
    store,      \* TTLCache._store, the least recently used entry first
    now,        \* the clock
    req         \* the requests: what each is and how far its thread has come

vars == <<links, clicks, store, now, req>>

Link == [code : Codes, owner : Requests, expires : Nat, active : BOOLEAN]

PCs == {"idle", "select", "insert", "answer", "get", "read", "fill", "check",
        "click", "update", "invalidate", "done"}

Replies == {"none", "created", "taken", "redirected", "found", "missing",
            "expired", "deleted", "error", "lost"}

Row(c) == {l \in links : l.code = c}

Idle == [pc |-> "idle", kind |-> "none", code |-> {}, link |-> {}, expires |-> 0,
         collisions |-> 0, since |-> 0, reply |-> "none"]

Init ==
    /\ links = {}
    /\ clicks = [c \in Codes |-> 0]
    /\ store = <<>>
    /\ now = 0
    /\ req = [r \in Requests |-> Idle]

-----------------------------------------------------------------------------
(* The cache.                                                              *)

Entry(c) == {i \in DOMAIN store : store[i].code = c}

(* No code has two entries. *)
Without(c) ==
    IF Entry(c) = {} THEN store ELSE RemoveAt(store, CHOOSE i \in Entry(c) : TRUE)

NeverStale(e) == FALSE  \* a mistake: to keep an entry as long as there is room

Stale(e) == e.until < now

Hit(c) == {i \in Entry(c) : ~Stale(store[i])}

(* TTLCache.get: a hit becomes the most recently used entry, an entry past *)
(* its time goes.                                                          *)
AfterGet(c) ==
    IF Hit(c) # {}
    THEN Append(Without(c), store[CHOOSE i \in Hit(c) : TRUE])
    ELSE Without(c)

EvictLate(s) ==  \* a mistake: one entry too many
    IF Len(s) > CacheMax + 1 THEN Tail(s) ELSE s

Evict(s) == IF Len(s) > CacheMax THEN Tail(s) ELSE s

(* TTLCache.set *)
AfterSet(c, link) ==
    Evict(Append(Without(c), [code |-> c, link |-> link, until |-> now + CacheTTL]))

-----------------------------------------------------------------------------
Goto(r, pc) == req' = [req EXCEPT ![r].pc = pc]

(* The thread of r ends.  Of what it was about, as much is kept as the     *)
(* properties speak of.                                                    *)
Ended(r, reply) ==
    LET about == CASE reply \in {"redirected", "found"} -> req[r]
                   [] reply = "created" -> [Idle EXCEPT !.code = req[r].code]
                   [] OTHER -> Idle
    IN [about EXCEPT !.pc = "done", !.reply = reply]

Reply(r, reply) == req' = [req EXCEPT ![r] = Ended(r, reply)]

Begin(r, kind, c, expires, pc) ==
    /\ req[r].pc = "idle"
    /\ <<kind, c>> \in MayAsk[r]
    /\ req' = [req EXCEPT ![r] = [Idle EXCEPT !.pc = pc, !.kind = kind, !.code = {c},
                                              !.expires = expires, !.since = now]]
    /\ UNCHANGED <<links, clicks, store, now>>

CodeOf(r) == CHOOSE c \in Codes : c \in req[r].code

(* create_short_link up to the transaction.  A link without ttl_seconds,   *)
(* or with 0 of them, has no expiry.                                       *)
Expires(ttl) == IF ttl = 0 THEN 0 ELSE now + ttl

Shorten(r, kind, c, ttl) == Begin(r, kind, c, Expires(ttl), "select")

(* SELECT ... WHERE code = ?: a custom alias in use is refused, a          *)
(* generated code in use is generated anew, at most MaxCollisions times.   *)
Select(r) ==
    /\ req[r].pc = "select"
    /\ \/ /\ Row(CodeOf(r)) = {}
          /\ Goto(r, "insert")
       \/ /\ Row(CodeOf(r)) # {} /\ req[r].kind = "alias"
          /\ Reply(r, "taken")
       \/ /\ Row(CodeOf(r)) # {} /\ req[r].kind = "generated"
          /\ IF req[r].collisions = MaxCollisions
             THEN Reply(r, "error")
             ELSE \E c \in Codes :
                    req' = [req EXCEPT ![r].code = {c}, ![r].collisions = @ + 1]
    /\ UNCHANGED <<links, clicks, store, now>>

NoPrimaryKey(c) == TRUE  \* a mistake: a table without PRIMARY KEY

PrimaryKeyHolds(c) == Row(c) = {}

(* INSERT and commit: whoever comes second violates the primary key, and   *)
(* nothing turns that IntegrityError into an answer of the API.            *)
Insert(r) ==
    /\ req[r].pc = "insert"
    /\ IF PrimaryKeyHolds(CodeOf(r))
       THEN /\ links' = links \union {[code |-> CodeOf(r), owner |-> r,
                                       expires |-> req[r].expires, active |-> TRUE]}
            /\ Goto(r, "answer")
       ELSE /\ Reply(r, "error")
            /\ links' = links
    /\ UNCHANGED <<clicks, store, now>>

(* The 201: from the commit on others see the row, and whoever made it is  *)
(* told only now.                                                          *)
TellCreated(r) ==
    /\ req[r].pc = "answer"
    /\ Reply(r, "created")
    /\ UNCHANGED <<links, clicks, store, now>>

-----------------------------------------------------------------------------
(* get_link with the cache (the redirect) and without (GET /links/<code>). *)

Redirect(r, c) == Begin(r, "redirect", c, 0, "get")

Lookup(r, c) == Begin(r, "lookup", c, 0, "read")

CacheGet(r) ==
    /\ req[r].pc = "get"
    /\ store' = AfterGet(CodeOf(r))
    /\ IF Hit(CodeOf(r)) # {}
       THEN \E i \in Hit(CodeOf(r)) :
                req' = [req EXCEPT ![r].link = store[i].link, ![r].pc = "check"]
       ELSE Goto(r, "read")
    /\ UNCHANGED <<links, clicks, now>>

Read(r) ==
    /\ req[r].pc = "read"
    /\ req' = [req EXCEPT ![r].link = Row(CodeOf(r)),
                          ![r].pc = IF req[r].kind = "redirect" THEN "fill" ELSE "check"]
    /\ UNCHANGED <<links, clicks, store, now>>

(* What was read, a missing row included, goes into the cache. *)
Fill(r) ==
    /\ req[r].pc = "fill"
    /\ store' = AfterSet(CodeOf(r), req[r].link)
    /\ Goto(r, "check")
    /\ UNCHANGED <<links, clicks, now>>

ExpiredUnlessActive(l) ==  \* a mistake: an active link is not looked at further
    ~l.active /\ l.expires # 0 /\ now > l.expires

Expired(l) == l.expires # 0 /\ now > l.expires

(* _check_not_expired, on the copy the request holds. *)
Check(r) ==
    /\ req[r].pc = "check"
    /\ \/ /\ req[r].link = {}
          /\ Reply(r, "missing")
       \/ \E l \in req[r].link :
            \/ Expired(l) /\ Reply(r, "expired")
            \/ ~Expired(l) /\ ~l.active /\ Reply(r, "missing")
            \/ /\ ~Expired(l) /\ l.active
               /\ IF req[r].kind = "redirect" THEN Goto(r, "click") ELSE Reply(r, "found")
    /\ UNCHANGED <<links, clicks, store, now>>

(* record_click, and the redirect. *)
Click(r) ==
    /\ req[r].pc = "click"
    /\ clicks' = [clicks EXCEPT ![CodeOf(r)] = @ + 1]
    /\ Reply(r, "redirected")
    /\ UNCHANGED <<links, store, now>>

-----------------------------------------------------------------------------
(* deactivate_link: UPDATE and commit, and then the cache.                 *)

Delete(r, c) == Begin(r, "delete", c, 0, "update")

Deactivated(c) == {[l EXCEPT !.active = FALSE] : l \in Row(c)}

Update(r) ==
    /\ req[r].pc = "update"
    /\ IF Row(CodeOf(r)) = {}
       THEN Reply(r, "missing") /\ links' = links
       ELSE /\ links' = (links \ Row(CodeOf(r))) \union Deactivated(CodeOf(r))
            /\ Goto(r, "invalidate")
    /\ UNCHANGED <<clicks, store, now>>

MissingOnly(c) ==  \* a mistake: to drop nothing but a "no such link"
    IF \E i \in Entry(c) : store[i].link # {} THEN store ELSE Without(c)

Invalidated(c) == Without(c)

Invalidate(r) ==
    /\ req[r].pc = "invalidate"
    /\ store' = Invalidated(CodeOf(r))
    /\ Reply(r, "deleted")
    /\ UNCHANGED <<links, clicks, now>>

-----------------------------------------------------------------------------
(* sqlite3 raises, when the database stays locked for instance: tx() rolls *)
(* back and the request ends with a 500.                                   *)
DbRaises(r) ==
    /\ req[r].pc \in {"select", "insert", "read", "click", "update"}
    /\ Reply(r, "error")
    /\ UNCHANGED <<links, clicks, store, now>>

InFlight == {r \in Requests : req[r].pc \notin {"idle", "done"}}

(* The process ends and starts again with create_app: the tables stay, the *)
(* cache is empty, and nobody answers the requests there were.             *)
Restart ==
    /\ store' = <<>>
    /\ req' = [r \in Requests |-> IF r \in InFlight THEN Ended(r, "lost") ELSE req[r]]
    /\ UNCHANGED <<links, clicks, now>>

Tick ==
    /\ now < MaxTime
    /\ \A r \in InFlight : now < req[r].since + Latency
    /\ now' = now + 1
    /\ UNCHANGED <<links, clicks, store, req>>

Client(r) ==
    \E c \in Codes :
        \/ \E ttl \in LinkTTLs[r], kind \in {"alias", "generated"} : Shorten(r, kind, c, ttl)
        \/ Redirect(r, c) \/ Lookup(r, c) \/ Delete(r, c)

Serve(r) ==
    \/ Select(r) \/ Insert(r) \/ TellCreated(r)
    \/ CacheGet(r) \/ Read(r) \/ Fill(r) \/ Check(r) \/ Click(r)
    \/ Update(r) \/ Invalidate(r)
    \/ DbRaises(r)

Next == (\E r \in Requests : Client(r) \/ Serve(r)) \/ Restart \/ Tick

Spec == Init /\ [][Next]_vars
=============================================================================
