---- MODULE MCExpansion ----
(* Instances of Expansion for TLC.                                         *)
EXTENDS Expansion, TLC

(* Works 1 and 2 cite each other; Work 2, whose paper is held and linked,  *)
(* also cites 3 and 4, so that three levels from Work 1 are one Work too   *)
(* many.  The provider knows no references of the held Work 3, but its     *)
(* paper lists 4.                                                          *)
Citing == <<{2}, {1, 3, 4}, {}, {}>>
Listed == <<{}, {}, {4}, {}>>

(* Requests ask for either of two Works; commands for what is cheapest to  *)
(* interleave.                                                             *)
One(work) == [seed |-> work, depth |-> 1, refresh |-> FALSE]
Again(work) == [seed |-> work, depth |-> 1, refresh |-> TRUE]
Deep(work) == [seed |-> work, depth |-> 3, refresh |-> FALSE]
Asked ==
  [x \in Walks |-> IF x \in Requests THEN {One(1), Again(3), Deep(1)} ELSE {One(1)}]

(* One Work with two references, expanded by everybody.                    *)
Pair == <<{2, 3}, {}, {}>>
NoEntries == <<{}, {}, {}>>
AskedOne == [x \in Walks |-> {One(1)}]
====
