--------------------------- MODULE MCBulkShorten ---------------------------
(***************************************************************************)
(* Requests for one alias, for any code, and batches with good, bad and    *)
(* too many items.                                                         *)
(***************************************************************************)
EXTENDS BulkShorten

Single(alias, kind) == [bulk |-> FALSE, alias |-> alias, items |-> <<kind>>]

Batch(items) == [bulk |-> TRUE, alias |-> {}, items |-> items]

(* One request for an alias; one for the same alias or any code; a batch.  *)
ThreeClients ==
    <<{Single({"a"}, "valid")},
      {Single({"a"}, "valid"), Single({}, "valid"), Single({}, "invalid")},
      {Batch(<<>>), Batch(<<"valid", "invalid", "valid">>), Batch(<<"valid", "malformed">>),
       Batch(<<"invalid", "valid">>), Batch(<<"valid", "valid", "valid", "valid">>)}>>
=============================================================================
