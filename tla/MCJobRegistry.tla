---------------------------- MODULE MCJobRegistry ----------------------------
(* The registries on a small instance: three Works to acquire with two      *)
(* permits, one to expand, with a cache, and a paper whose literature is    *)
(* looked up, without a semaphore.                                          *)
EXTENDS JobRegistry, TLC

CONSTANTS a1, a2, a3, e1, l1

Places ==
  (a1 :> "acquisition") @@ (a2 :> "acquisition") @@ (a3 :> "acquisition")
    @@ (e1 :> "expansion") @@ (l1 :> "literature")

Limits == [acquisition |-> 2, expansion |-> 1, literature |-> Cardinality(Callers)]
=============================================================================
