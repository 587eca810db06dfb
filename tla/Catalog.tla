------------------------------ MODULE Catalog -------------------------------
(* The catalog database as its writers share it: the Works, the curator's   *)
(* marks and tags and the reading ramps.  What each part keeps about a Work *)
(* follows the Work in the one transaction of a merge.                      *)
EXTENDS Curation, Ramps, Evidence, Literature

CONSTANTS
  Areas,  \* bound: the areas exercised, one in each behaviour
  Busy    \* bound: Busy[a] requests at most are in progress in area a

VARIABLE area   \* the area this behaviour exercises, beside merges

catalogVars == <<worksVars, curationVars, rampsVars, documentsVars,
                 evidenceVars, area>>

CatalogInit ==
  /\ WorksInit /\ CurationInit /\ RampsInit /\ DocumentsInit /\ EvidenceInit
  /\ area \in Areas

Commit == CommitWorks /\ MoveCuration /\ MoveRamps /\ MoveDocuments /\ MoveResolutions

Within(r) == Cardinality({q \in Requests : call[q] # Idle} \cup {r}) <= Busy[area]

Others == <<documentsVars, evidenceVars>>

Write(r) ==
  \/ /\ \/ area = "identity" /\ IdentityStep(r)
        \/ area = "citations" /\ CitationStep(r)
        \/ area = "claims" /\ ClaimStep(r)
     /\ UNCHANGED <<curationVars, rampsVars, Others>>
  \/ /\ area = "curation" /\ (CurationStep(r) \/ TagStep)
     /\ UNCHANGED <<rampsVars, Others>>
  \/ /\ area = "ramps" /\ (RampsStep(r) \/ DeleteStep)
     /\ UNCHANGED <<curationVars, Others>>
  \/ /\ area = "documents" /\ (DocumentsStep(r) \/ EditLibrary)
     /\ UNCHANGED <<curationVars, rampsVars, evidenceVars>>
  \/ /\ area = "evidence" /\ EvidenceStep(r)
     /\ UNCHANGED <<curationVars, rampsVars>>
  \/ /\ area = "literature" /\ LiteratureStep(r)
     /\ UNCHANGED <<curationVars, rampsVars, evidenceVars>>

(* Bound: what the curator merges; an evidence run merges its own stubs.    *)
MayMerge ==
  CASE area = "evidence" -> FALSE
    [] area = "literature" -> /\ {merge'.from, merge'.into} \cap Initially = {}
                              /\ \A w \in Work : redirect[w] = None
    [] OTHER -> TRUE

CatalogNext ==
  /\ \/ \E r \in Requests : Within(r) /\ Write(r)
     \/ /\ MergeStep /\ MayMerge
        /\ UNCHANGED <<curationVars, rampsVars, Others>>
     \/ MoveItems /\ UNCHANGED <<curationVars, Others>>
     \/ Commit
  /\ UNCHANGED area

CatalogSpec == CatalogInit /\ [][CatalogNext]_catalogVars

-----------------------------------------------------------------------------
(* Whatever adds, removals, reorders and merges are mixed, what relates the *)
(* rows of several tables holds after every statement: a redirect leads to  *)
(* a Work that has none, and what the constraints of the schema demand, so  *)
(* that none of them refuses the commit of a merge: no Work cites itself,   *)
(* a Work has one override in force, the items of a ramp have distinct      *)
(* positions and lie on paths of citations.                                 *)
RowsConsistent ==
  RedirectsFlat /\ NoSelfCitation /\ OneOverride /\ PositionsDistinct /\ PathsCited

(* The Works that rows of the catalog are about.                            *)
Referenced ==
  (UNION {On(p) : p \in RampIds}) \cup {seed[p] : p \in RampIds}
    \cup {linked[d] : d \in DocumentIds} \cup {accepted[e] : e \in Entries}
    \cup {p[1] : p \in tagged \cup cites} \cup {p[2] : p \in cites \cup owner}
    \cup {w \in Work : mark[w] # None \/ About(claims, w) # {}}

Held(c) ==
  {c[field] : field \in DOMAIN c \cap {"work", "cited", "citing"}}
    \cup {p[2] : p \in UNION {c[field] : field \in DOMAIN c \cap {"rows"}}}

(* A merge moves whatever the catalog keeps about the merged Work, in every *)
(* table and whatever other transactions insert while it is open: only a    *)
(* request that had found the Work before the merge, and writes after it,   *)
(* leaves a row about a Work that redirects.                                *)
NothingLeft ==
  \A w \in Referenced' \cap Work : redirect'[w] # None =>
    /\ redirect[w] # None
    /\ w \in Referenced \/ \E r \in Requests : w \in Held(call[r])

(* What is kept about a Work follows it when it is merged, and no step      *)
(* loses it.                                                                *)
FollowsMerges == [][CurationKept /\ NothingLeft]_catalogVars
=============================================================================
