--------------------------- MODULE LinkAllocation ---------------------------
(***************************************************************************)
(* What the service of the brownfield scenario promises whoever asks for   *)
(* short codes, without its transactions, drawn codes and threads: a code  *)
(* is claimed once and for ever; a request that is answered is told of all *)
(* its items what each has got, and items that got nothing have left       *)
(* nothing behind; of a request that breaks off, the items claimed by then *)
(* stay claimed.                                                           *)
(***************************************************************************)
EXTENDS Naturals, Sequences

CONSTANTS
    Codes,     \* what can be claimed
    Requests,
    MaxItems   \* items of a request, at most

Items == Requests \X (1..MaxItems)

VARIABLES
    owner,  \* who has claimed a code, in a set
    told,   \* the answer to a request: for each of its items what it got
    state   \* "open", "answered" or "broken"

vars == <<owner, told, state>>

Init ==
    /\ owner = [c \in Codes |-> {}]
    /\ told = [r \in Requests |-> <<>>]
    /\ state = [r \in Requests |-> "open"]

Got(i) == {c \in Codes : i \in owner[c]}

Claim(i, c) ==
    /\ state[i[1]] = "open"
    /\ owner[c] = {}
    /\ Got(i) = {}
    /\ owner' = [owner EXCEPT ![c] = {i}]
    /\ UNCHANGED <<told, state>>

Answer(r, n) ==
    /\ state[r] = "open"
    /\ \A k \in 1..MaxItems : k > n => Got(<<r, k>>) = {}
    /\ told' = [told EXCEPT ![r] = [k \in 1..n |-> Got(<<r, k>>)]]
    /\ state' = [state EXCEPT ![r] = "answered"]
    /\ UNCHANGED owner

Break(R) ==
    /\ \A r \in R : state[r] = "open"
    /\ state' = [r \in Requests |-> IF r \in R THEN "broken" ELSE state[r]]
    /\ UNCHANGED <<owner, told>>

Next ==
    \/ \E i \in Items, c \in Codes : Claim(i, c)
    \/ \E r \in Requests, n \in 0..MaxItems : Answer(r, n)
    \/ \E R \in SUBSET Requests : Break(R)

Spec == Init /\ [][Next]_vars

=============================================================================
