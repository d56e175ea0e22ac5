----------------------- MODULE LinkServiceProperties -----------------------
(***************************************************************************)
(* What the link service promises.  How old an answer may be is a relation *)
(* between the answer and the time the row last changed, which the program *)
(* does not keep: the observation variable `changed` does.                 *)
(***************************************************************************)
EXTENDS LinkService

VARIABLE changed    \* when the row of a code was last inserted or updated

Observe == changed' = [c \in Codes |-> IF Row(c)' # Row(c) THEN now ELSE changed[c]]

ObservedInit == Init /\ changed = [c \in Codes |-> 0]

ObservedNext == Next /\ Observe

ObservedSpec == ObservedInit /\ [][ObservedNext]_<<vars, changed>>

-----------------------------------------------------------------------------
(* The tables, the cache and the requests keep their types; the cache      *)
(* never holds more than CACHE_MAX_ENTRIES and no code twice (cache.py:50).*)
TypeOK ==
    /\ links \subseteq Link
    /\ clicks \in [Codes -> Nat]
    /\ store \in Seq([code : Codes, link : SUBSET Link, until : Nat])
    /\ Len(store) <= CacheMax
    /\ \A i, j \in DOMAIN store : store[i].code = store[j].code => i = j
    /\ now \in Nat
    /\ req \in [Requests ->
                  [pc : PCs, kind : Kinds \union {"none"}, code : SUBSET Codes,
                   link : SUBSET Link, expires : Nat, collisions : 0 .. MaxCollisions,
                   since : Nat, reply : Replies]]

Answered(r, reply) == req[r].reply = reply

(* However many requests race for a code, at most one is told that it got  *)
(* it, and every redirect from that code, one from the cache or from       *)
(* before the answer included, goes where this one asked for.  Whoever's   *)
(* link it goes to was not told anything else: the request is about to be  *)
(* answered, or was lost with the process (shortener.py:65-95, 127).       *)
OneWinnerPerCode ==
    /\ \A r, q \in Requests :
        Answered(r, "created") /\ Answered(q, "created") /\ CodeOf(r) = CodeOf(q) => r = q
    /\ \A q \in Requests : Answered(q, "redirected") =>
        \A l \in req[q].link :
            /\ l.code = CodeOf(q)
            /\ \A r \in Requests :
                Answered(r, "created") /\ CodeOf(r) = CodeOf(q) => r = l.owner
            /\ req[l.owner].pc = "answer" \/ req[l.owner].reply \in {"created", "lost"}

(* A link that has expired is not redirected to, whether its copy comes    *)
(* from the table or from a cache entry that outlives it (shortener.py:115,*)
(* 128).                                                                   *)
ExpiryHonoured ==
    \A r \in Requests : req[r].reply \in {"redirected", "found"} =>
        \A l \in req[r].link : l.expires # 0 => req[r].since <= l.expires

Active(copy) == \E l \in copy : l.active

Deleting(c) == \E r \in Requests : req[r].pc = "invalidate" /\ CodeOf(r) = c

(* A deactivation takes the entries of before out of the cache: an active  *)
(* copy of a deactivated link that is still there afterwards was put there *)
(* by a request that had read the row before (shortener.py:143-146).       *)
DeletionReachesCache ==
    \A i \in DOMAIN store :
        LET e == store[i] IN
        /\ Active(e.link)
        /\ Row(e.code) # {} /\ ~Active(Row(e.code))
        /\ ~Deleting(e.code)
        => e.until >= changed[e.code] + CacheTTL

InHand(c) == \E r \in Requests : /\ req[r].pc \in {"fill", "check", "click"}
                                 /\ CodeOf(r) = c
                                 /\ Active(req[r].link)

Gone(c) ==
    /\ Row(c) # {} /\ ~Active(Row(c))
    /\ \A i \in DOMAIN store : store[i].code = c => ~Active(store[i].link)
    /\ ~InHand(c)

(* Once no copy of a deactivated link is active, none ever is again: not   *)
(* by a late fill, a restart, or somebody who takes the code over          *)
(* (shortener.py:81, 119-127, 143).                                        *)
DeletionIsFinal == [][\A c \in Codes : Gone(c) => Gone(c)']_<<vars, changed>>

StaleAnswer(r) == /\ req[r].kind = "redirect"
                  /\ req[r].pc \in {"check", "click"} /\ req[r].pc' = "done"
                  /\ req[r].reply' \in {"redirected", "missing", "expired"}
                  /\ Active(req[r].link) # Active(Row(CodeOf(r)))

(* A redirect that answers from a copy the row has moved on from, a cached *)
(* "no such link" included, does so for no longer after the change than    *)
(* CACHE_TTL_SECONDS and the time two requests take: the one that filled   *)
(* the cache late and the one that answers (cache.py:6-8, shortener.py:111,*)
(* 122, 127).                                                              *)
StaleAnswersBounded ==
    [][\A r \in Requests : StaleAnswer(r) =>
          now <= changed[CodeOf(r)] + CacheTTL + 2 * Latency]_<<vars, changed>>

=============================================================================
