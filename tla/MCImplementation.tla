-------------------------- MODULE MCImplementation --------------------------
(* The lexicons of orchestrator/graphs.py and a few seeded workspaces.     *)
EXTENDS Implementation

MCLexicons ==
    {<<"scaffold_service">>,
     <<"fix_alias_race_condition", "add_bulk_shorten_endpoint">>,
     <<"add_analytics_summary_endpoint", "add_latency_percentile">>}

(* The baseline, two workspaces with a secret, one of them in a module     *)
(* that capabilities return, and one whose main module does not hash.      *)
MCSeeds ==
    {Baseline,
     [Baseline EXCEPT !.main = @ \union {"secret"}],
     [Baseline EXCEPT !.db = @ \union {"secret"}],
     [Baseline EXCEPT !.main = @ \ {"hashing"}]}
=============================================================================
