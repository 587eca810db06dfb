----------------------------- MODULE Literature -----------------------------
(* The literature flow: the document of a paper, registered before, is      *)
(* linked to a Work, found or made by the identifier its first pages print  *)
(* or by a record with its title; then the references of the provider's     *)
(* record become Works and citations, and the Works get titles.  Each look- *)
(* up, insert and claim is a statement or transaction of its own, and other *)
(* flows and merges run in between.                                         *)
EXTENDS Documents

CONSTANTS
  Pdfs,        \* the papers the flow is run for
  DocumentOf,  \* DocumentOf[p]: the document registered for paper p
  Front,       \* Front[p]: the primary identifier on its first pages, or None
  TitleHit,    \* TitleHit[p]: the record found by its title, or None
  Indexed,     \* Indexed[i]: the provider's record for identifier i, or None
  RecordDoi,   \* RecordDoi[o]: the DOI on record o, or None
  References,  \* References[o]: the records that record o refers to, in order
  Title,       \* the title recorded for a Work: its value does not matter here
  TitleRank,   \* the trust rank of the provider's fields
  FlowClaims   \* bound: the claims that flows record in a behaviour

OpenAlex == DOMAIN References

ASSUME LiteratureAssumption ==
  /\ \A p \in Pdfs : DocumentOf[p] \in DocumentIds /\ TitleHit[p] \in OpenAlex \cup {None}
  /\ \A p \in Pdfs : Front[p] # None => Indexed[Front[p]] \in OpenAlex \cup {None}
  /\ \A o \in OpenAlex : References[o] \in Seq(OpenAlex) /\ Indexed[o] = o
  /\ None \notin OpenAlex /\ Title \in Values /\ TitleRank \in Ranks
  /\ FlowClaims \in Nat

(* The steps of a flow.  look are the identifiers it has still to look up,  *)
(* make the one it makes a Work with, attach those it has still to attach;  *)
(* cited is the Work of the reference at the head of left; listed are the   *)
(* Works it has found cited; rows are those it has still to title.          *)
FlowSteps == {"provider", "search", "own work", "identifiers", "linking", "fill",
              "reference", "assert", "cited", "titles", "title"}

Flowing(r) == call[r].op \in FlowSteps

Printable(i) == IF i = None THEN <<>> ELSE <<i>>

ProviderIds(o) == <<o>> \o Printable(RecordDoi[o])

Step(c, op) == [c EXCEPT !.op = op]

Proceed(r, c) == call' = [call EXCEPT ![r] = c]

NoOther == UNCHANGED documentsVars /\ WorksKept

(* The database has one row for an identifier: the Work a look-up finds.    *)
Owner(i) == CHOOSE w \in Work : <<i, w>> \in owner

StartFlow(r) ==
  /\ \E p \in Pdfs :
       Begin(r, [op |-> IF Front[p] = None THEN "search" ELSE "provider", paper |-> p,
                 work |-> None, provider |-> None, look |-> <<>>, make |-> None,
                 attach |-> <<>>, left |-> <<>>, cited |-> None, listed |-> {},
                 rows |-> {}])
  /\ NoOther

-----------------------------------------------------------------------------
(* The paper's Work, by its identifier.  The provider may have no record,   *)
(* or one whose title is another paper's, which is dropped; the Work is     *)
(* looked for by the record's ID, then by the identifier.                   *)
LookUpProvider(r) ==
  /\ Doing(r, "provider")
  /\ \E o \in {Indexed[Front[call[r].paper]], None} :
       LET i == Front[call[r].paper] IN
         Proceed(r, [call[r] EXCEPT !.op = "own work", !.provider = o, !.make = i,
                                    !.look = Printable(o) \o <<i>>, !.attach = <<i>>])
  /\ NoOther

(* Without a record: a search by title, which may find nothing or several.  *)
SearchTitle(r) ==
  /\ Doing(r, "search")
  /\ \E o \in {TitleHit[call[r].paper], None} :
       LET c == [call[r] EXCEPT !.provider = o] IN
         IF o = None
         THEN IF c.work = None THEN Done(r) ELSE Proceed(r, Step(c, "linking"))
         ELSE Proceed(r,
                [c EXCEPT !.op = IF c.work = None THEN "own work" ELSE "identifiers", !.make = o,
                          !.look = IF c.work = None THEN <<o>> ELSE <<>>,
                          !.attach = ProviderIds(o)])
  /\ NoOther

(* One look-up; the first identifier that has a Work decides.               *)
FindWork(r) ==
  /\ Doing(r, "own work") /\ call[r].look # <<>>
  /\ LET i == Head(call[r].look) IN
       Proceed(r, IF Owners(i, owner) = {} THEN [call[r] EXCEPT !.look = Tail(@)]
                  ELSE [call[r] EXCEPT !.op = "identifiers", !.work = Owner(i), !.look = <<>>])
  /\ NoOther

(* resolve_or_create: the Work of identifier i, or a new one for it; of two *)
(* at the same time the second gives its own up and takes the first's.      *)
WorkFor(i) == IF Owners(i, owner) # {} THEN Owners(i, owner) ELSE Work \ works

Gets(i, w) == works' = works \cup {w} /\ owner' = owner \cup {<<i, w>>}

(* Fault for the mutation runs: who loses the race for the identifier goes  *)
(* on with the Work that it has rolled back.                                *)
MakeWorkRolledBack(r) ==
  /\ Doing(r, "own work") /\ call[r].look = <<>>
  /\ \E w \in Work \ works :
       /\ IF Owners(call[r].make, owner) # {} THEN UNCHANGED <<works, owner>>
          ELSE Gets(call[r].make, w)
       /\ Proceed(r, [call[r] EXCEPT !.op = "identifiers", !.work = w])
  /\ UNCHANGED <<redirect, cites, claims, shown, merge, documentsVars>>

MakeWork(r) ==
  /\ Doing(r, "own work") /\ call[r].look = <<>>
  /\ \E w \in WorkFor(call[r].make) :
       /\ Gets(call[r].make, w)
       /\ Proceed(r, [call[r] EXCEPT !.op = "identifiers", !.work = w])
  /\ UNCHANGED <<redirect, cites, claims, shown, merge, documentsVars>>

(* One identifier is attached to the Work, unless a Work has it; then come  *)
(* those of the record, if one is found by now.                             *)
Attach(r) ==
  /\ Doing(r, "identifiers") /\ call[r].attach # <<>> /\ Free(r)
  /\ LET i == Head(call[r].attach) IN
       owner' = IF Owners(i, owner) # {} THEN owner ELSE owner \cup {<<i, call[r].work>>}
  /\ Proceed(r, [call[r] EXCEPT !.attach = Tail(@)])
  /\ UNCHANGED <<works, redirect, cites, claims, shown, merge, documentsVars>>

Attached(r) ==
  /\ Doing(r, "identifiers") /\ call[r].attach = <<>>
  /\ LET c == call[r] IN
       Proceed(r, IF c.provider = None THEN Step(c, "search")
                  ELSE IF c.make # c.provider
                       THEN [c EXCEPT !.attach = ProviderIds(c.provider), !.make = c.provider]
                       ELSE Step(c, "linking"))
  /\ NoOther

LinkDocument(r) ==
  /\ Doing(r, "linking") /\ Free(r)
  /\ linked' = [linked EXCEPT ![DocumentOf[call[r].paper]] = call[r].work]
  /\ Proceed(r, Step(call[r], "fill"))
  /\ UNCHANGED <<disk, path, versions, edits>> /\ WorksKept

-----------------------------------------------------------------------------
(* Claims about a Work, from the record, its summary, the library and the   *)
(* pages.  Bound: past FlowClaims claims nothing is recorded.               *)
RecordFields(r) ==
  /\ Free(r)
  /\ IF Len(claims) < FlowClaims THEN Recorded(call[r].work, Title, TitleRank)
     ELSE UNCHANGED <<claims, shown>>

FillDisplayFields(r) ==
  /\ Doing(r, "fill") /\ RecordFields(r)
  /\ LET o == call[r].provider IN
       IF o = None THEN Done(r)
       ELSE Proceed(r, [call[r] EXCEPT !.op = "reference", !.left = References[o]])
  /\ UNCHANGED <<works, redirect, owner, cites, merge, documentsVars>>

(* Each reference of the record: its Work, then the citation, unless it is  *)
(* the paper's own Work.                                                    *)
ResolveReference(r) ==
  /\ Doing(r, "reference") /\ call[r].left # <<>>
  /\ \E w \in WorkFor(Head(call[r].left)) :
       /\ Gets(Head(call[r].left), w)
       /\ Proceed(r, [call[r] EXCEPT !.op = "assert", !.cited = w])
  /\ UNCHANGED <<redirect, cites, claims, shown, merge, documentsVars>>

AssertReference(r) ==
  /\ Doing(r, "assert")
  /\ LET c == call[r] IN
       /\ IF c.cited = c.work THEN UNCHANGED cites
          ELSE /\ Free(r) /\ c.cited \notin Locked
               /\ cites' = cites \cup {<<c.work, c.cited>>}
       /\ Proceed(r, [c EXCEPT !.op = "reference", !.left = Tail(@), !.cited = None])
  /\ UNCHANGED <<works, redirect, owner, claims, shown, merge, documentsVars>>

(* The Works cited and the paper's own, then their OpenAlex IDs, are read   *)
(* once; then each gets the DOI and the fields of its summary.              *)
ReadCited(r) ==
  /\ Doing(r, "reference") /\ call[r].left = <<>>
  /\ LET c == call[r] IN
       Proceed(r, [c EXCEPT !.op = "cited",
                            !.listed = {w \in Work : <<c.work, w>> \in cites} \cup {c.work}])
  /\ NoOther

ReadIds(r) ==
  /\ Doing(r, "cited")
  /\ LET c == call[r] IN
       Proceed(r, [c EXCEPT !.op = "titles", !.listed = {},
                            !.rows = {p \in owner : p[1] \in OpenAlex /\ p[2] \in c.listed}])
  /\ NoOther

Hydrate(r) ==
  /\ Doing(r, "titles")
  /\ \/ /\ call[r].rows = {} /\ Done(r) /\ NoOther
     \/ \E p \in call[r].rows :
          /\ p[2] \notin Locked
          /\ owner' = IF RecordDoi[p[1]] = None \/ Owners(RecordDoi[p[1]], owner) # {} THEN owner
                      ELSE owner \cup {<<RecordDoi[p[1]], p[2]>>}
          /\ Proceed(r, [call[r] EXCEPT !.op = "title", !.work = p[2],
                                        !.rows = @ \ {p}])
          /\ UNCHANGED <<works, redirect, cites, claims, shown, merge, documentsVars>>

RecordSummary(r) ==
  /\ Doing(r, "title") /\ RecordFields(r)
  /\ Proceed(r, Step(call[r], "titles"))
  /\ UNCHANGED <<works, redirect, owner, cites, merge, documentsVars>>

(* An error of the provider or the database, or a lost process, ends a flow *)
(* after any step.                                                          *)
EndFlow(r) == Flowing(r) /\ Done(r) /\ NoOther

LiteratureStep(r) ==
  \/ StartFlow(r) \/ LookUpProvider(r) \/ SearchTitle(r) \/ FindWork(r) \/ MakeWork(r)
  \/ Attach(r) \/ Attached(r) \/ LinkDocument(r) \/ FillDisplayFields(r)
  \/ ResolveReference(r) \/ AssertReference(r) \/ ReadCited(r) \/ ReadIds(r)
  \/ Hydrate(r) \/ RecordSummary(r) \/ EndFlow(r)

-----------------------------------------------------------------------------
(* What a flow links a document to, cites and describes is what its         *)
(* evidence names: the Work it holds has the identifier of the paper or of  *)
(* the record found for it, each reference is asserted of the Work with the *)
(* ID in the record, and the fields of a summary go to the Work with its    *)
(* ID, up to the redirects of Works merged meanwhile, also when two flows   *)
(* make Works for one identifier at the same time.                          *)
Named(i) == {Resolved(w) : w \in Owners(i, owner)}

EvidenceOf(p) == {Front[p], TitleHit[p]} \cup {o \in OpenAlex : Front[p] # None /\ o = Indexed[Front[p]]}

RecordsMatch ==
  \A r \in Requests : Flowing(r) =>
    LET c == call[r] IN
      /\ c.op \notin {"titles", "title"} /\ c.work # None =>
           \E i \in EvidenceOf(c.paper) : Resolved(c.work) \in Named(i)
      /\ c.op = "assert" => Resolved(c.cited) \in Named(Head(c.left))
      /\ c.op \in {"titles", "title"} =>
           \A p \in c.rows : Resolved(p[2]) \in Named(p[1])

(* literature.rs says of the paper's Work that it is created only when none *)
(* exists: neither for its identifier nor for the record's ID.              *)
MadeOnlyWhenNone ==
  [][\A r \in Requests :
       Doing(r, "own work") /\ call'[r] # call[r] /\ works' # works =>
         \A i \in {call[r].make, call[r].provider} : Owners(i, owner) = {}
    ]_<<worksVars, documentsVars>>
=============================================================================
