--------------------------- MODULE MCLinkService ---------------------------
(***************************************************************************)
(* The link service with a few requests: two that may race for a code, one *)
(* of which may ask for something else instead, one that deletes it, and a *)
(* redirect before, between or after them.  One of the links may expire.   *)
(***************************************************************************)
EXTENDS LinkServiceProperties, TLC

CONSTANTS maker, rival, killer, reader, code, other

MCCodes == {code, other}

MCRequests == {maker, rival, killer, reader}

MCMayAsk ==
    (maker  :> {<<"alias", code>>})
 @@ (rival  :> {<<"generated", code>>, <<"lookup", code>>,
                <<"redirect", code>>, <<"redirect", other>>})
 @@ (killer :> {<<"delete", code>>})
 @@ (reader :> {<<"redirect", code>>})

MCLinkTTLs == [r \in MCRequests |-> IF r = maker THEN {0, 1} ELSE {0}]
=============================================================================
