------------------------------- MODULE Works --------------------------------
(* The Works of the catalog database: the identifiers that name them, the   *)
(* redirects that merges leave behind, the citations between them and the   *)
(* sourced claims their displayed fields are selected from.                 *)
(*                                                                          *)
(* A request resolves the Work it is about through the redirects in one     *)
(* statement and writes in a later transaction: between the two the Work    *)
(* may be merged into another.  The transactions run at the database's      *)
(* default isolation: each statement reads what has been committed, a Work  *)
(* row locked by a merge makes every transaction wait that locks it or      *)
(* inserts a row that references it, and the rows a transaction changed     *)
(* show when it commits.                                                    *)
EXTENDS Naturals, FiniteSets, Sequences

CONSTANTS
  Work,         \* the Work IDs the database may give out
  Initially,    \* the Works that are there at the start
  Known,        \* the citations that are there at the start, pairs of Works
  Identifiers,  \* Work-level identifiers (DOI, OpenAlex, ...)
  Versioned,    \* identifiers that name a version of a Work (arXiv)
  Values,       \* the values of the one displayed field
  Complete,     \* Complete[v] is the completeness of value v
  Ranks,        \* the trust ranks of sourced claims, above 0, lower wins
  Requests,     \* writers: requests, runs of the server or the command line
  MaxWorks,     \* bound: the Works there are in the end
  Subjects,     \* bound: the Works that requests record claims about
  MaxClaims,    \* bound: the claims recorded in a behaviour
  None

ASSUME WorksAssumption == /\ Initially \subseteq Work
                          /\ Known \subseteq Initially \X Initially
                          /\ \A p \in Known : p[1] # p[2]
                          /\ None \notin Work
                          /\ Ranks \subseteq Nat \ {0}
                          /\ MaxClaims \in Nat /\ MaxWorks \in Nat /\ MaxWorks <= Cardinality(Work)

VARIABLES
  works,     \* the Works that exist
  redirect,  \* the Work a merged one redirects to, None for the others
  owner,     \* the active identifiers, pairs of an identifier and its Work
  cites,     \* the pairs of Works with a citation assertion
  claims,    \* the claims, oldest first
  shown,     \* the value and state displayed for each Work
  call,      \* what each request has resolved and not written yet
  merge      \* the merge transaction that is open

worksVars == <<works, redirect, owner, cites, claims, shown, call, merge>>

Idle == [op |-> "none"]
NoMerge == [at |-> "none"]

(* A claim names the Work it is about; rank 0 is the curator's override.    *)
Claim == [work : Work, value : Values, rank : Ranks \cup {0},
          rejected : BOOLEAN, retracted : BOOLEAN]

(* At most eight redirects are followed.                                    *)
Resolved(w) ==
  LET next(v) == IF redirect[v] = None THEN v ELSE redirect[v]
      hop[n \in 0..8] == IF n = 0 THEN w ELSE next(hop[n - 1])
  IN hop[8]

(* The Works whose rows an open merge has locked.                           *)
Locked == IF merge = NoMerge THEN {} ELSE {merge.from, merge.into}

-----------------------------------------------------------------------------
(* Selection of the displayed value from the claims cs about Work w: among  *)
(* the claims that are neither rejected nor retracted the best rank wins;   *)
(* within it the value most claims agree on, then the more complete, then   *)
(* the older claim.                                                         *)
About(cs, w) == {i \in DOMAIN cs : cs[i].work = w}

Eligible(cs, w) ==
  {i \in About(cs, w) : ~cs[i].rejected /\ ~cs[i].retracted}

Tier(cs, w) ==
  {i \in Eligible(cs, w) : \A j \in Eligible(cs, w) : cs[i].rank <= cs[j].rank}

Support(cs, w, i) == Cardinality({j \in Tier(cs, w) : cs[j].value = cs[i].value})

Beats(cs, w, i, j) ==
  LET si == Support(cs, w, i)
      sj == Support(cs, w, j)
      ci == Complete[cs[i].value]
      cj == Complete[cs[j].value]
  IN \/ si > sj
     \/ si = sj /\ ci > cj
     \/ si = sj /\ ci = cj /\ i <= j

Selection(cs, w) ==
  IF Tier(cs, w) = {} THEN [value |-> None, state |-> "unknown"]
  ELSE LET winner == CHOOSE i \in Tier(cs, w) :
                       \A j \in Tier(cs, w) : Beats(cs, w, i, j)
       IN [value |-> cs[winner].value,
           state |-> IF \E i, j \in Tier(cs, w) : cs[i].value # cs[j].value
                     THEN "conflicting" ELSE "known"]

(* A Work without any claim keeps what it shows.                            *)
Reselect(cs, w) ==
  [shown EXCEPT ![w] = IF About(cs, w) = {} THEN @ ELSE Selection(cs, w)]

-----------------------------------------------------------------------------
WorksInit ==
  /\ works = Initially
  /\ redirect = [w \in Work |-> None]
  /\ owner = {}
  /\ cites = Known
  /\ claims = <<>>
  /\ shown = [w \in Work |-> [value |-> None, state |-> "unknown"]]
  /\ call = [r \in Requests |-> Idle]
  /\ merge = NoMerge

WorksKept == UNCHANGED <<works, redirect, owner, cites, claims, shown, merge>>

(* What request r does next, with the Work it has resolved.                 *)
Begin(r, c) == call[r] = Idle /\ call' = [call EXCEPT ![r] = c]

Done(r) == call' = [call EXCEPT ![r] = Idle]

Doing(r, op) == call[r].op = op

(* Locking the Work a request has resolved, or inserting a row that refers  *)
(* to it, waits for the merge that holds it.                                *)
Free(r) == call[r].work \notin Locked

-----------------------------------------------------------------------------
(* Identity.  An identifier is looked up first; only when no Work has it    *)
(* does the request open a transaction that inserts a Work and claims the   *)
(* identifier for it.                                                       *)
Owners(i, rows) == {w \in Work : <<i, w>> \in rows}

(* Bound: a request creates a Work only while an ID is left for it, up to   *)
(* MaxWorks Works.                                                          *)
IdsLeft == Cardinality({r \in Requests : Doing(r, "create")}) + Cardinality(works)
             < MaxWorks

FindByIdentifier(r, i) ==
  /\ Owners(i, owner) = {} /\ IdsLeft
  /\ Begin(r, [op |-> "create", identifier |-> i])
  /\ WorksKept

(* Fault for the mutation runs: the identifier is inserted unconditionally. *)
CreateAnyway(r, ids) ==
  /\ Doing(r, "create") /\ call[r].identifier \in ids
  /\ \E w \in Work \ works : /\ works' = works \cup {w}
                             /\ owner' = owner \cup {<<call[r].identifier, w>>}
  /\ Done(r)
  /\ UNCHANGED <<redirect, cites, claims, shown, merge>>

(* The insert of the identifier does nothing when another request has       *)
(* claimed it: then the new Work is rolled back and the winner's is         *)
(* returned.                                                                *)
Create(r, ids) ==
  /\ Doing(r, "create") /\ call[r].identifier \in ids
  /\ LET i == call[r].identifier IN
       IF Owners(i, owner) # {} THEN UNCHANGED <<works, owner>>
       ELSE \E w \in Work \ works : /\ works' = works \cup {w}
                                    /\ owner' = owner \cup {<<i, w>>}
  /\ Done(r)
  /\ UNCHANGED <<redirect, cites, claims, shown, merge>>

ResolveOrCreate(r) ==
  (\E i \in Identifiers : FindByIdentifier(r, i)) \/ Create(r, Identifiers)

(* An identifier of a version is claimed for the default version of the new *)
(* Work, which follows the Work from then on.                               *)
ResolveOrCreateVersion(r) ==
  (\E i \in Versioned : FindByIdentifier(r, i)) \/ Create(r, Versioned)

(* A request attaches identifier i to the Work it holds, unless it is some  *)
(* Work's already.                                                          *)
HoldForIdentifier(r) ==
  /\ \E w \in works, i \in Identifiers \cup Versioned :
       Begin(r, [op |-> "identify", work |-> Resolved(w), identifier |-> i])
  /\ WorksKept

AddIdentifier(r) ==
  /\ Doing(r, "identify")
  /\ Free(r)
  /\ owner' = IF Owners(call[r].identifier, owner) # {} THEN owner
              ELSE owner \cup {<<call[r].identifier, call[r].work>>}
  /\ Done(r)
  /\ UNCHANGED <<works, redirect, cites, claims, shown, merge>>

(* A request records that the Work it holds cites another one it holds; a   *)
(* Work cannot cite itself.                                                 *)
HoldForCitation(r) ==
  /\ \E v, w \in works :
       Begin(r, [op |-> "cite", work |-> Resolved(v), cited |-> Resolved(w)])
  /\ WorksKept

AddAssertion(r) ==
  /\ Doing(r, "cite")
  /\ Free(r) /\ call[r].cited \notin Locked
  /\ cites' = IF call[r].work = call[r].cited THEN cites
              ELSE cites \cup {<<call[r].work, call[r].cited>>}
  /\ Done(r)
  /\ UNCHANGED <<works, redirect, owner, claims, shown, merge>>

-----------------------------------------------------------------------------
(* Claims.  Each transaction locks the Work, writes claims and reselects    *)
(* what the Work shows.  Bound: MaxClaims claims are recorded, about the    *)
(* Works in Subjects.                                                       *)
ClaimsLeft ==
  Len(claims) + Cardinality({r \in Requests : call[r].op \in {"record", "override"}})
    < MaxClaims

HoldForClaim(r) ==
  /\ ClaimsLeft
  /\ \E w \in works \cap Subjects, v \in Values :
       \/ \E rank \in Ranks :
            Begin(r, [op |-> "record", work |-> Resolved(w), value |-> v, rank |-> rank])
       \/ Begin(r, [op |-> "override", work |-> Resolved(w), value |-> v])
       \/ Begin(r, [op |-> "clear", work |-> Resolved(w)])
  /\ WorksKept

Insert(cs, w, v, rank) ==
  Append(cs, [work |-> w, value |-> v, rank |-> rank,
              rejected |-> FALSE, retracted |-> FALSE])

(* A claim that is there already is not recorded again.                     *)
Recorded(w, v, rank) ==
  LET same == {i \in About(claims, w) : claims[i].value = v /\ claims[i].rank = rank}
  IN IF same # {} THEN UNCHANGED <<claims, shown>>
     ELSE /\ claims' = Insert(claims, w, v, rank)
          /\ shown' = Reselect(claims', w)

Record(r) ==
  /\ Doing(r, "record")
  /\ Free(r)
  /\ Recorded(call[r].work, call[r].value, call[r].rank)
  /\ Done(r)
  /\ UNCHANGED <<works, redirect, owner, cites, merge>>

Overrides(cs, w) ==
  {i \in About(cs, w) : cs[i].rank = 0 /\ ~cs[i].retracted}

Retract(cs, S) ==
  [i \in DOMAIN cs |-> IF i \in S THEN [cs[i] EXCEPT !.retracted = TRUE] ELSE cs[i]]

SetOverride(r) ==
  /\ Doing(r, "override")
  /\ Free(r)
  /\ LET w == call[r].work IN
       /\ claims' = Insert(Retract(claims, Overrides(claims, w)),
                           w, call[r].value, 0)
       /\ shown' = Reselect(claims', w)
  /\ Done(r)
  /\ UNCHANGED <<works, redirect, owner, cites, merge>>

ClearOverride(r) ==
  /\ Doing(r, "clear")
  /\ Free(r)
  /\ LET w == call[r].work IN
       IF Overrides(claims, w) = {} THEN UNCHANGED <<claims, shown>>
       ELSE /\ claims' = Retract(claims, Overrides(claims, w))
            /\ shown' = Reselect(claims', w)
  /\ Done(r)
  /\ UNCHANGED <<works, redirect, owner, cites, merge>>

(* A review reads the claim first, with the Work it is about at that time,  *)
(* and locks and reselects that Work.                                       *)
ReadClaim(r) ==
  /\ \E i \in DOMAIN claims, rejected \in BOOLEAN :
       /\ claims[i].rank # 0
       /\ Begin(r, [op |-> "review", work |-> claims[i].work, claim |-> i,
                    rejected |-> rejected])
  /\ WorksKept

SetReviewState(r) ==
  /\ Doing(r, "review")
  /\ Free(r)
  /\ claims' = [claims EXCEPT ![call[r].claim].rejected = call[r].rejected]
  /\ shown' = Reselect(claims', call[r].work)
  /\ Done(r)
  /\ UNCHANGED <<works, redirect, owner, cites, merge>>

(* An explicit reselection, of one Work or of each that has claims.         *)
ReselectClaims(r) ==
  /\ call[r] = Idle
  /\ \E w \in works : /\ Resolved(w) \notin Locked
                      /\ shown' = Reselect(claims, Resolved(w))
  /\ UNCHANGED <<works, redirect, owner, cites, claims, call, merge>>

-----------------------------------------------------------------------------
(* Merges.  The transaction locks both Works and is refused when one of     *)
(* them redirects already or when they cite each other; every later         *)
(* statement is covered by the two locks and shows at the commit.  Of two   *)
(* open merges with a Work in common the second waits.  Bound: one merge is *)
(* open at a time.                                                          *)
Cites(v, w) == <<v, w>> \in cites \/ <<w, v>> \in cites

Mergeable(from, into) ==
  /\ from # into
  /\ {from, into} \subseteq works
  /\ redirect[from] = None /\ redirect[into] = None
  /\ ~Cites(from, into)

OpenMerge(from, into) ==
  /\ merge = NoMerge
  /\ merge' = [at |-> "locked", from |-> from, into |-> into]

MergeWork(from, into) ==
  /\ Mergeable(from, into) /\ OpenMerge(from, into)
  /\ UNCHANGED <<works, redirect, owner, cites, claims, shown, call>>

To(w) == IF w = merge.from THEN merge.into ELSE w

(* Fault for the mutation runs: older redirects are left as they are.       *)
MoveRedirectsOnce == redirect' = [redirect EXCEPT ![merge.from] = merge.into]

(* Older redirects to the merged Work are pointed at the survivor.          *)
MoveRedirects ==
  redirect' = [w \in Work |-> IF w = merge.from THEN merge.into
                              ELSE IF redirect[w] = merge.from THEN merge.into
                              ELSE redirect[w]]

RepointAssertions == cites' = {<<To(p[1]), To(p[2])>> : p \in cites}

MoveIdentifiers == owner' = {<<p[1], To(p[2])>> : p \in owner}

(* Fault for the mutation runs: what the survivor shows is left alone.      *)
MoveClaimsUnselected ==
  LET kept == IF Overrides(claims, merge.into) = {} THEN claims
              ELSE Retract(claims, Overrides(claims, merge.from))
  IN /\ claims' = [i \in DOMAIN kept |-> [kept[i] EXCEPT !.work = To(@)]]
     /\ UNCHANGED shown

(* The survivor's override wins; the claims move and keep their age.        *)
MoveClaims ==
  LET kept == IF Overrides(claims, merge.into) = {} THEN claims
              ELSE Retract(claims, Overrides(claims, merge.from))
  IN /\ claims' = [i \in DOMAIN kept |-> [kept[i] EXCEPT !.work = To(@)]]
     /\ shown' = Reselect(claims', merge.into)

CommitWorks ==
  /\ merge # NoMerge
  /\ MoveRedirects
  /\ RepointAssertions
  /\ MoveIdentifiers
  /\ MoveClaims
  /\ merge' = NoMerge
  /\ UNCHANGED <<works, call>>

IdentityStep(r) ==
  \/ ResolveOrCreate(r) \/ ResolveOrCreateVersion(r)
  \/ HoldForIdentifier(r) \/ AddIdentifier(r)

CitationStep(r) == HoldForCitation(r) \/ AddAssertion(r)

ClaimStep(r) ==
  \/ HoldForClaim(r) \/ Record(r) \/ SetOverride(r) \/ ClearOverride(r)
  \/ ReadClaim(r) \/ SetReviewState(r) \/ ReselectClaims(r)

MergeStep == \E from, into \in Work : MergeWork(from, into)

WorksNext == (\E r \in Requests : IdentityStep(r) \/ CitationStep(r) \/ ClaimStep(r)) \/ MergeStep \/ CommitWorks

WorksSpec == WorksInit /\ [][WorksNext]_worksVars

-----------------------------------------------------------------------------
(* What a Work redirects to never redirects itself: the resolution of a     *)
(* Work ID, which gives up after eight redirects, always ends at a Work     *)
(* that has not been merged, whatever merges were open at the same time.    *)
RedirectsFlat ==
  \A w \in Work : redirect[w] # None => redirect[redirect[w]] = None

(* An identifier that names a Work names exactly one after every step, the  *)
(* same or the one it was merged into, however many requests look it up,    *)
(* create a Work for it or attach it at the same time.                      *)
IdentifiersKept ==
  [][\A p \in owner : \E w \in {p[2], redirect'[p[2]]} :
       Owners(p[1], owner') = {w}]_worksVars

(* No Work cites itself, though merges repoint citations on both sides.     *)
NoSelfCitation == \A p \in cites : p[1] # p[2]

(* A Work has one override in force: the merged Work's gives way to the     *)
(* survivor's.                                                              *)
OneOverride == \A w \in Work : Cardinality(Overrides(claims, w)) <= 1

(* Every write that changes the claims of a Work leaves it showing what     *)
(* selection picks from them, but the review of a claim that a merge moved  *)
(* after the review had read it.                                            *)
Current(w) == shown[w] = Selection(claims, w)

Reselects ==
  [][\A w \in Work :
       \/ About(claims', w) = {}
       \/ \A i \in About(claims', w) :
            i \in About(claims, w) /\ claims'[i] = claims[i]
       \/ Current(w)'
       \/ \E r \in Requests :
            Doing(r, "review") /\ call[r].work # claims[call[r].claim].work]_worksVars

(* claim.rs says that every write that can change what is selected, a       *)
(* review among them, reselects the affected Work in the same transaction:  *)
(* a Work with claims shows what selection picks.                           *)
SelectionFollows == \A w \in Work : About(claims, w) # {} => Current(w)
=============================================================================
