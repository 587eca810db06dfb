------------------------------ MODULE Evidence ------------------------------
(* Local evidence: a run takes the entries of one paper's bibliography in   *)
(* order, resolves each to a Work by its identifier or its title, makes a   *)
(* stub Work where there is none, and folds a stub into a Work that has     *)
(* turned up since an earlier run.  Every step is a statement or a          *)
(* transaction of its own: a run can end after any of them, and is started  *)
(* again later.                                                             *)
EXTENDS Documents

CONSTANTS
  Bibliography,  \* Bibliography[p]: the entries of paper p, in order
  CitingWork,    \* CitingWork[p]: the Work paper p was linked to
  Printed,       \* Printed[e]: the identifier and the title entry e prints
  EntryRank      \* the trust rank of a field parsed from an entry

Papers == DOMAIN Bibliography
Entries == DOMAIN Printed

ASSUME EvidenceAssumption ==
  /\ \A p \in Papers : Bibliography[p] \in Seq(Entries) /\ CitingWork[p] \in Initially
  /\ \A p, q \in Papers : \A i \in DOMAIN Bibliography[p], j \in DOMAIN Bibliography[q] :
       Bibliography[p][i] = Bibliography[q][j] => p = q /\ i = j
  /\ \A e \in Entries : Printed[e].title \in Values \cup {None}
  /\ EntryRank \in Ranks

VARIABLES
  accepted,  \* the Work each entry is accepted as
  how        \* the method of the accepted resolution

evidenceVars == <<accepted, how>>

EvidenceInit ==
  /\ accepted = [e \in Entries |-> None]
  /\ how = [e \in Entries |-> None]

(* The steps of a run; work is what it has found for the first of the       *)
(* entries left, stub the Work of an earlier run that it may fold.          *)
RunSteps == {"resolve", "fold", "folding", "stub", "accept", "attach", "connect", "harvest"}

Running(r) == call[r].op \in RunSteps

Go(r, op, work, method) ==
  call' = [call EXCEPT ![r].op = op, ![r].work = work, ![r].method = method]

NextEntry(r) ==
  call' = [call EXCEPT ![r].op = "resolve", ![r].left = Tail(@), ![r].work = None,
                       ![r].method = None]

-----------------------------------------------------------------------------
(* A paper has one run at a time.  The Works its own Work cites, and their  *)
(* titles, are read once, at the start.                                     *)
StartRun(r) ==
  /\ \E p \in Papers :
       /\ \A q \in Requests : Running(q) => call[q].paper # p
       /\ LET citing == Resolved(CitingWork[p]) IN
            Begin(r, [op |-> "resolve", paper |-> p, left |-> Bibliography[p],
                      citing |-> citing, work |-> None, method |-> None,
                      near |-> {<<w, shown[w].value>> : w \in {v \in Work : <<citing, v>> \in cites}}])
  /\ UNCHANGED <<documentsVars, evidenceVars>> /\ WorksKept

(* What entry e is found to be, but not the Work stub: the Work with its    *)
(* identifier, else a Work with its title, of several the only one near.    *)
(* Whether just one of several carries an OpenAlex ID, and whether the      *)
(* fuzzy match accepts a Work near with another title, is left open.        *)
Found(c, e, stub) ==
  LET title == Printed[e].title
      named == {Resolved(w) : w \in Owners(Printed[e].identifier, owner)} \ {stub}
      near == {p[1] : p \in c.near} \ {stub}
      titled == {w \in works : redirect[w] = None /\ shown[w].value = title}
                  \cup {w \in near : <<w, title>> \in c.near}
      others == titled \ {stub, c.citing}
      pool == IF others \cap near = {} THEN others ELSE others \cap near
      As(S, method) == {[work |-> w, method |-> method] : w \in S}
      Not(reason) == {[work |-> None, method |-> reason]}
  IN IF named # {}
     THEN IF c.citing \in named THEN Not("self") ELSE As(named, "identifier")
     ELSE IF title = None THEN Not("nothing")
     ELSE IF others = {}
     THEN IF c.citing \in titled THEN Not("self")
          ELSE Not("nothing") \cup As({w \in near \ {c.citing} : <<w, None>> \notin c.near}, "title")
     ELSE As(pool, "title") \cup IF Cardinality(pool) = 1 THEN {} ELSE Not("ambiguous")

(* Every accepted resolution of a pure stub is that of a stub, and no       *)
(* document is linked to it.                                                *)
PureStub(w) ==
  /\ \A e \in Entries : accepted[e] = w => how[e] = "stub"
  /\ \A d \in DocumentIds : linked[d] # w

(* Fault for the mutation runs: an entry accepted before is passed over.    *)
ResolveNewEntry(r) ==
  /\ Doing(r, "resolve") /\ call[r].left # <<>>
  /\ LET e == Head(call[r].left) IN
       IF accepted[e] # None THEN NextEntry(r)
       ELSE \E found \in Found(call[r], e, None) :
              \/ found.work # None /\ Go(r, "accept", found.work, found.method)
              \/ found.method = "nothing" /\ Go(r, "stub", None, None)
              \/ found.method \in {"self", "ambiguous"} /\ NextEntry(r)
  /\ UNCHANGED <<documentsVars, evidenceVars>> /\ WorksKept

(* The lookups of one entry, read in one step.                              *)
ResolveEntry(r) ==
  /\ Doing(r, "resolve") /\ call[r].left # <<>>
  /\ LET e == Head(call[r].left)
         before == IF accepted[e] = None THEN None ELSE Resolved(accepted[e]) IN
       \/ before # None /\ how[e] # "stub" /\ Go(r, "connect", before, None)
       \/ /\ before = None \/ how[e] = "stub"
          /\ \E found \in Found(call[r], e, before) :
               \/ /\ before # None
                  /\ IF found.work # None /\ PureStub(before)
                     THEN Go(r, "fold", found.work, before)
                     ELSE Go(r, "connect", before, None)
               \/ /\ before = None
                  /\ \/ found.work # None /\ Go(r, "accept", found.work, found.method)
                     \/ found.method = "nothing" /\ Go(r, "stub", None, None)
                     \/ found.method \in {"self", "ambiguous"} /\ NextEntry(r)
  /\ UNCHANGED <<documentsVars, evidenceVars>> /\ WorksKept

(* The stub is merged into the Work found; when the merge is refused the    *)
(* entry stays with the stub.                                               *)
FoldStub(r) ==
  /\ Doing(r, "fold") /\ merge = NoMerge
  /\ LET stub == call[r].method
         into == call[r].work IN
       IF Mergeable(stub, into)
       THEN OpenMerge(stub, into) /\ Go(r, "folding", into, stub)
       ELSE Go(r, "connect", stub, None) /\ UNCHANGED merge
  /\ UNCHANGED <<works, redirect, owner, cites, claims, shown, documentsVars, evidenceVars>>

StubFolded(r) ==
  /\ Doing(r, "folding") /\ redirect[call[r].method] # None
  /\ Go(r, "connect", call[r].work, None)
  /\ UNCHANGED <<documentsVars, evidenceVars>> /\ WorksKept

(* A stub is the Work with the entry's identifier, made when there is none. *)
CreateStub(r) ==
  /\ Doing(r, "stub")
  /\ LET i == Printed[Head(call[r].left)].identifier IN
       \/ /\ \E w \in Owners(i, owner) : Go(r, "accept", w, "stub")
          /\ UNCHANGED <<works, owner>>
       \/ /\ Owners(i, owner) = {}
          /\ \E w \in Work \ works :
               /\ works' = works \cup {w}
               /\ owner' = IF i = None THEN owner ELSE owner \cup {<<i, w>>}
               /\ Go(r, "accept", w, "stub")
  /\ UNCHANGED <<redirect, cites, claims, shown, merge, documentsVars, evidenceVars>>

(* An entry matched by its title brings its identifier to the Work.         *)
RecordResolution(r) ==
  /\ Doing(r, "accept") /\ Free(r)
  /\ LET c == call[r]
         e == Head(c.left) IN
       /\ accepted' = [accepted EXCEPT ![e] = c.work]
       /\ how' = [how EXCEPT ![e] = c.method]
       /\ Go(r, IF c.method = "title" /\ Printed[e].identifier # None THEN "attach"
                ELSE "connect", c.work, None)
  /\ UNCHANGED documentsVars /\ WorksKept

AttachIdentifiers(r) ==
  /\ Doing(r, "attach") /\ Free(r)
  /\ LET i == Printed[Head(call[r].left)].identifier IN
       owner' = IF Owners(i, owner) # {} THEN owner ELSE owner \cup {<<i, call[r].work>>}
  /\ Go(r, "connect", call[r].work, None)
  /\ UNCHANGED <<works, redirect, cites, claims, shown, merge, documentsVars, evidenceVars>>

(* A citation of the paper itself is refused, and ends the run.             *)
AddEntryAssertion(r) ==
  /\ Doing(r, "connect") /\ Free(r) /\ call[r].citing \notin Locked
  /\ IF call[r].citing = call[r].work THEN Done(r) /\ UNCHANGED cites
     ELSE /\ cites' = cites \cup {<<call[r].citing, call[r].work>>}
          /\ Go(r, "harvest", call[r].work, None)
  /\ UNCHANGED <<works, redirect, owner, claims, shown, merge, documentsVars, evidenceVars>>

(* The title the entry prints becomes a claim about the Work.  Bound:       *)
(* MaxClaims claims are recorded.                                           *)
RecordEntryClaims(r) ==
  /\ Doing(r, "harvest")
  /\ LET title == Printed[Head(call[r].left)].title IN
       IF title = None THEN UNCHANGED <<claims, shown>>
       ELSE Free(r) /\ Recorded(call[r].work, title, EntryRank)
  /\ Len(claims') <= MaxClaims
  /\ NextEntry(r)
  /\ UNCHANGED <<works, redirect, owner, cites, merge, documentsVars, evidenceVars>>

(* A run ends after its last entry, or at any earlier step, lost with the   *)
(* process or to an error of the database.                                  *)
EndRun(r) ==
  /\ Running(r) /\ ~Doing(r, "folding")
  /\ Done(r)
  /\ UNCHANGED <<documentsVars, evidenceVars>> /\ WorksKept

(* A merge moves the accepted resolutions.                                  *)
MoveResolutions ==
  /\ accepted' = [e \in Entries |-> IF accepted[e] = None THEN None ELSE To(accepted[e])]
  /\ how' = [e \in Entries |-> IF accepted[e] = merge.from THEN "merge" ELSE how[e]]

EvidenceStep(r) ==
  \/ StartRun(r) \/ ResolveEntry(r) \/ FoldStub(r) \/ StubFolded(r) \/ CreateStub(r)
  \/ RecordResolution(r) \/ AttachIdentifiers(r) \/ AddEntryAssertion(r)
  \/ RecordEntryClaims(r) \/ EndRun(r)

-----------------------------------------------------------------------------
(* Every entry a run has come past is connected: when it is accepted as a   *)
(* Work, the paper's Work cites that Work, up to the redirects of Works     *)
(* merged meanwhile, also when an earlier run was lost after it accepted    *)
(* the entry, or folded its stub, and before it asserted the citation.      *)
PassedConnected ==
  \A r \in Requests : Running(r) =>
    LET p == call[r].paper
        passed == {Bibliography[p][n] : n \in 1 .. Len(Bibliography[p]) - Len(call[r].left)}
    IN \A e \in passed : accepted[e] # None =>
         \E c \in cites : /\ Resolved(c[1]) = Resolved(call[r].citing)
                          /\ Resolved(c[2]) = Resolved(accepted[e])
=============================================================================
