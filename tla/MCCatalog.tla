----------------------------- MODULE MCCatalog ------------------------------
(* The catalog on a small instance: three Works in a chain of citations,    *)
(* room for three more, two writers, two papers with a bibliography and two *)
(* the literature flow is run for.                                          *)
EXTENDS Catalog, TLC

CONSTANTS w1, w2, w3, w4, w5, w6, d1, d2, long, short, doi, e1, e2, e3

CitesAtStart == {<<w1, w2>>, <<w2, w3>>}

Completeness == (long :> 1) @@ (short :> 0)

FilesInOrder == <<"a", "b">>

PrintedEntries ==
  (e1 :> [identifier |-> None, title |-> long])
    @@ (e2 :> [identifier |-> doi, title |-> long])
    @@ (e3 :> [identifier |-> doi, title |-> short])

Bibliographies == ("p1" :> <<e1, e3>>) @@ ("p2" :> <<e2>>)

Papers2Works == ("p1" :> w1) @@ ("p2" :> w2)

(* The paper found by its title cites the one with an identifier.           *)
OwnDocuments == ("p1" :> d1) @@ ("p2" :> d2)
FirstPages == ("p1" :> doi) @@ ("p2" :> None)
Searched == ("p1" :> None) @@ ("p2" :> "oa2")
Provider == (doi :> "oa1") @@ ("oa1" :> "oa1") @@ ("oa2" :> "oa2")
ProviderDois == ("oa1" :> doi) @@ ("oa2" :> None)
ProviderReferences == ("oa1" :> <<>>) @@ ("oa2" :> <<"oa1">>)

InProgress == [a \in Areas |-> IF a = "claims" THEN 1 ELSE 2]

Same == Permutations(Requests) \cup Permutations(Contents)
          \cup Permutations({w4, w5, w6})
=============================================================================
