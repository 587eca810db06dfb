-------------------------- MODULE MCCitationGraph --------------------------
(* Two requests at a time, for jobs of two of the providers: the clocks of  *)
(* Crossref, OpenCitations and Semantic Scholar are one, which makes their  *)
(* requests meet more often and leaves out nothing but requests that do     *)
(* not. The lists are longer and shorter than a page and than the limit.    *)
EXTENDS CitationGraph, TLC

Sources == [j \in Jobs |-> IF j \in {"oa citations", "oa references"} THEN "openalex" ELSE "other"]

ShapeOf ==
  [j \in Jobs |-> CASE j = "oa citations"  -> "cursor"
                    [] j = "oa references" -> "batched"
                    [] j \in {"s2 references", "s2 citations"} -> "offset"
                    [] j = "oc citations"  -> "index"
                    [] j = "cr references" -> "deposit"
                    [] OTHER               -> "refused"]

Lists ==
  [j \in Jobs |-> CASE j \in {"oa references", "s2 references"} -> 3
                    [] j = "oa citations" -> 2
                    [] j \in {"oc citations", "s2 citations"} -> 1
                    [] OTHER              -> None]

AskedFor == {<<"oa citations">>, <<"oc citations", "oa references">>, <<"s2 citations">>,
             <<"cr citations", "s2 references">>, <<"cr references">>}

Same == Permutations(Fetches)
=============================================================================
