---------------------------- MODULE CatalogProofs ----------------------------
(* What holds of the catalog database for any number of Works, requests,    *)
(* claims, ramps, documents and entries, by an inductive invariant.         *)
EXTENDS Catalog, FiniteSetTheorems, WellFoundedInduction, TLAPS

(* A set of natural numbers that is not empty has a least element.          *)
LEMMA Least ==
  ASSUME NEW T \in SUBSET Nat, T # {}
  PROVE  \E n \in T : \A m \in T : n <= m
<1> DEFINE R == {ss \in Nat \X Nat : ss[1] < ss[2]}
<1>1. IsWellFoundedOn(R, Nat)
  BY NatLessThanWellFounded DEF OpToRel
<1>2. \E x \in T : \A y \in T : ~(<<y, x>> \in R)
  <2> HIDE DEF R
  <2>1. QED BY <1>1, WFMin
<1>3. PICK n \in T : \A m \in T : ~(<<m, n>> \in R)
  BY <1>2
<1>4. ASSUME NEW m \in T PROVE n <= m
  <2>1. ~(<<m, n>> \in R) BY <1>3
  <2>2. <<m, n>> \in Nat \X Nat OBVIOUS
  <2>3. ~(m < n) BY <2>1, <2>2
  <2>4. QED BY <2>3
<1>5. QED BY <1>4

-----------------------------------------------------------------------------
(* The Work a redirect leads to, for redirects of one hop.                  *)
Follow(rd, w) == IF rd[w] = None THEN w ELSE rd[w]

(* The recursion of Resolved ends at its first hop.                         *)
LEMMA ResolvedIs ==
  ASSUME redirect \in [Work -> Work \cup {None}], RedirectsFlat, NEW w \in Work
  PROVE  Resolved(w) = Follow(redirect, w) /\ Follow(redirect, w) \in Work
<1> DEFINE next(v) == IF redirect[v] = None THEN v ELSE redirect[v]
           hop == CHOOSE f : f = [n \in 0..8 |-> IF n = 0 THEN w ELSE next(f[n - 1])]
           g == [n \in 0..8 |-> IF n = 0 THEN w ELSE next(w)]
<1>0. None \notin Work
  BY WorksAssumption
<1>1. next(w) \in Work /\ next(next(w)) = next(w)
  BY <1>0 DEF RedirectsFlat
<1>2. g = [n \in 0..8 |-> IF n = 0 THEN w ELSE next(g[n - 1])]
  <2>1. ASSUME NEW n \in 0..8 PROVE g[n] = IF n = 0 THEN w ELSE next(g[n - 1])
    <3> HIDE DEF next
    <3>1. CASE n = 0 BY <3>1
    <3>2. CASE n = 1 BY <3>2
    <3>3. CASE n \in 2..8 BY <3>3, <1>1
    <3>4. QED BY <3>1, <3>2, <3>3
  <2>2. QED BY <2>1
<1>3. hop = [n \in 0..8 |-> IF n = 0 THEN w ELSE next(hop[n - 1])]
  <2> HIDE DEF next, g
  <2>1. QED BY <1>2
<1>4. hop[8] = next(w)
  <2> HIDE DEF next, hop
  <2>0. \A n \in 0..8 : hop[n] = IF n = 0 THEN w ELSE next(hop[n - 1])
    BY <1>3
  <2>1. /\ hop[0] = w /\ hop[1] = next(hop[0]) /\ hop[2] = next(hop[1])
        /\ hop[3] = next(hop[2]) /\ hop[4] = next(hop[3]) /\ hop[5] = next(hop[4])
        /\ hop[6] = next(hop[5]) /\ hop[7] = next(hop[6]) /\ hop[8] = next(hop[7])
    BY <2>0, SMTT(30)
  <2>2. QED BY <2>1, <1>1
<1>5. Resolved(w) = hop[8]
  BY DEF Resolved
<1>6. QED BY <1>1, <1>4, <1>5 DEF Follow

-----------------------------------------------------------------------------
(* What the tables hold.                                                    *)
TablesOK ==
  /\ works \subseteq Work
  /\ redirect \in [Work -> Work \cup {None}]
  /\ \A p \in owner : p = <<p[1], p[2]>> /\ p[2] \in Work
  /\ cites \subseteq Work \X Work
  /\ claims \in Seq(Claim)
  /\ shown = [w \in Work |-> shown[w]]

RowsOK ==
  /\ mark \in [Work -> Marks \cup {None}]
  /\ tags \subseteq Tags /\ tagged \subseteq Work \X Tags
  /\ linked \in [DocumentIds -> Work \cup {None}]
  /\ accepted \in [Entries -> Work \cup {None}]
  /\ how = [e \in Entries |-> how[e]]

(* The items of the ramps.                                                  *)
Item == [position : Nat, via : Work \cup {None}, path : Seq(Work)]

(* The items of one ramp: finitely many, at positions below some bound.     *)
ListOK(f) ==
  /\ DOMAIN f \subseteq Work /\ IsFiniteSet(DOMAIN f)
  /\ f \in [DOMAIN f -> Item]
  /\ \E n \in Nat : \A w \in DOMAIN f : f[w].position < n

ItemsOK(its) ==
  its = [p \in RampIds |-> its[p]] /\ \A p \in RampIds : ListOK(its[p])

RampsOK ==
  /\ seed \in [RampIds -> Work \cup {None}]
  /\ rampLock \in [RampIds -> Requests \cup {None}]
  /\ ItemsOK(items)

(* What a request holds between its steps.                                  *)
OfWork == {"identify", "cite", "record", "override", "clear", "review", "mark", "unmark",
           "tag", "untag", "create ramp", "add", "adding", "remove", "removing", "link"}

OfRamp == {"add", "adding", "remove", "removing", "order"}

RunOK(c) ==
  /\ c \in [op : RunSteps, paper : Papers, left : Seq(Entries), citing : Work,
            work : Work \cup {None}, method : {c.method}, near : {c.near}]
  /\ \A p \in c.near : p[1] \in Work
  /\ c.op \in {"fold", "folding"} => c.method \in Work
  /\ c.op \in {"fold", "folding", "accept", "attach", "connect", "harvest"} => c.work \in Work
  /\ c.op # "resolve" => c.left # <<>>

FlowOK(c) ==
  /\ c \in [op : FlowSteps, paper : Pdfs, work : Work \cup {None}, provider : OpenAlex \cup {None},
            look : Seq(EvidenceOf(c.paper)), make : {c.make}, attach : {c.attach},
            left : Seq(OpenAlex), cited : {c.cited}, listed : SUBSET Work, rows : {c.rows}]
  /\ c.op \in {"identifiers", "linking", "fill", "reference", "assert", "cited", "title"} =>
       c.work \in Work
  /\ c.op = "provider" => Front[c.paper] # None
  /\ c.op = "own work" => c.make \in EvidenceOf(c.paper)
  /\ c.op = "assert" => c.cited \in Work /\ c.left # <<>>
  /\ \A p \in c.rows : p = <<p[1], p[2]>> /\ p[2] \in Work

Typed(c) ==
  /\ c.op \in OfWork => c.work \in Work
  /\ c.op = "cite" => c.cited \in Work
  /\ c.op \in {"record", "override"} => c.value \in Values
  /\ c.op = "record" => c.rank \in Ranks
  /\ c.op = "review" => c.rejected \in BOOLEAN
  /\ c.op = "mark" => c.mark \in Marks
  /\ c.op = "tag" => c.tag \in Tags
  /\ c.op \in OfRamp => c.ramp \in RampIds
  /\ c.op \in {"add", "adding"} => c.via \in Work \cup {None}
  /\ c.op = "adding" => c.path \in Seq(Work)
  /\ c.op \in {"remove", "removing"} =>
       c \in [op : {"remove", "removing"}, ramp : RampIds, work : Work]
  /\ c.op = "order" => \E n \in Nat : DOMAIN c.order = 1 .. n
  /\ c.op \in RunSteps => RunOK(c)
  /\ c.op \in FlowSteps => FlowOK(c)

(* The areas in which requests do what the later invariants are about.      *)
InArea(a, c) ==
  /\ c.op \in {"adding", "removing"} => a = "ramps"
  /\ c.op \in RunSteps => a = "evidence"
  /\ c.op \in FlowSteps => a = "literature"

CallOK(c) == Typed(c) /\ InArea(area, c)

CallsOK ==
  /\ call = [r \in Requests |-> call[r]]
  /\ \A r \in Requests : CallOK(call[r])

(* A merge that is open: the two Works redirect to nothing and do not cite  *)
(* each other.                                                              *)
Merging == merge.at \in {"locked", "moved"}

MergeOK ==
  \/ merge = NoMerge
  \/ /\ Merging
     /\ {merge.from, merge.into} \subseteq works /\ merge.from # merge.into
     /\ redirect[merge.from] = None /\ redirect[merge.into] = None
     /\ ~Cites(merge.from, merge.into)

(* The override of a Work, of which there is one at most.                   *)
Overriding(cs) ==
  \A w \in Work : \A i, j \in Overrides(cs, w) : i = j

TypeInv == TablesOK /\ RowsOK /\ RampsOK /\ CallsOK /\ MergeOK /\ RedirectsFlat

-----------------------------------------------------------------------------
(* The effect of every step but the commit of a merge on the tables of the  *)
(* Works: rows are added, and none about a Work that an open merge holds.   *)
AddsCites ==
  \/ cites' = cites
  \/ \E v, w \in Work \ Locked : v # w /\ cites' = cites \cup {<<v, w>>}

AddsOwner ==
  \/ owner' = owner
  \/ \E i, w : w \in Work /\ Owners(i, owner) = {} /\ owner' = owner \cup {<<i, w>>}

Opens(from, into) == Mergeable(from, into) /\ OpenMerge(from, into)

Adds ==
  /\ redirect' = redirect
  /\ works \subseteq works' /\ works' \subseteq Work
  /\ AddsCites /\ AddsOwner
  /\ claims' \in Seq(Claim) /\ shown' = [w \in Work |-> shown'[w]]
  /\ Overriding(claims) => Overriding(claims')
  /\ \/ merge' = merge
     \/ \E from, into \in Work : Opens(from, into) /\ cites' = cites
     \/ merge' = NoMerge /\ area = "ramps"
     \/ /\ Merging /\ merge'.at = "moved"
        /\ merge'.from = merge.from /\ merge'.into = merge.into

LEMMA WorksKeptAdds ==
  ASSUME TypeInv, WorksKept
  PROVE  Adds
BY DEF TypeInv, TablesOK, WorksKept, Adds, AddsCites, AddsOwner

LEMMA IdleOK == CallOK(Idle)
BY DEF CallOK, Typed, InArea, Idle, OfWork, OfRamp, RunSteps, FlowSteps

LEMMA CallSet ==
  ASSUME CallsOK, UNCHANGED area, NEW r \in Requests, NEW c, CallOK(c),
         call' = [call EXCEPT ![r] = c]
  PROVE  CallsOK'
BY DEF CallsOK, CallOK

LEMMA CallKept ==
  ASSUME CallsOK, UNCHANGED <<area, call>>
  PROVE  CallsOK'
BY DEF CallsOK, CallOK

LEMMA BeginOK ==
  ASSUME CallsOK, UNCHANGED area, NEW r \in Requests, NEW c, CallOK(c), Begin(r, c)
  PROVE  CallsOK'
BY CallSet DEF Begin

LEMMA DoneOK ==
  ASSUME CallsOK, UNCHANGED area, NEW r \in Requests, Done(r)
  PROVE  CallsOK'
BY CallSet, IdleOK DEF Done

LEMMA ResolvedOK ==
  ASSUME TypeInv, NEW w \in Work
  PROVE  Resolved(w) \in Work
BY ResolvedIs DEF TypeInv, TablesOK

-----------------------------------------------------------------------------
(* Identity and citations.                                                  *)
LEMMA CreateAdds ==
  ASSUME TypeInv, UNCHANGED area, NEW r \in Requests, NEW ids, Create(r, ids)
  PROVE  Adds /\ CallsOK'
<1> USE DEF TypeInv
<1>1. CallsOK'
  BY DoneOK DEF Create
<1>2. UNCHANGED <<redirect, cites, claims, shown, merge>>
  BY DEF Create
<1>3. works \subseteq works' /\ works' \subseteq Work /\ AddsOwner
  BY DEF Create, AddsOwner, TablesOK
<1>4. QED BY <1>1, <1>2, <1>3 DEF Adds, TablesOK, AddsCites

LEMMA IdentityAdds ==
  ASSUME TypeInv, UNCHANGED area, NEW r \in Requests, IdentityStep(r)
  PROVE  Adds /\ CallsOK'
<1> USE DEF TypeInv
<1>1. ASSUME NEW i, FindByIdentifier(r, i) PROVE Adds /\ CallsOK'
  <2>1. CallOK([op |-> "create", identifier |-> i])
    BY DEF CallOK, Typed, InArea, OfWork, OfRamp, RunSteps, FlowSteps
  <2>2. QED BY <1>1, <2>1, BeginOK, WorksKeptAdds DEF FindByIdentifier
<1>2. CASE HoldForIdentifier(r)
  <2>1. PICK w \in works, i \in Identifiers \cup Versioned :
          Begin(r, [op |-> "identify", work |-> Resolved(w), identifier |-> i])
    BY <1>2 DEF HoldForIdentifier
  <2>2. Resolved(w) \in Work
    BY ResolvedOK DEF TablesOK
  <2>3. CallOK([op |-> "identify", work |-> Resolved(w), identifier |-> i])
    BY <2>2 DEF CallOK, Typed, InArea, OfWork, OfRamp, RunSteps, FlowSteps
  <2>4. QED BY <1>2, <2>1, <2>3, BeginOK, WorksKeptAdds DEF HoldForIdentifier
<1>3. CASE AddIdentifier(r)
  <2>1. call[r].work \in Work
    BY <1>3 DEF AddIdentifier, Doing, CallsOK, CallOK, Typed, InArea, OfWork
  <2>2. AddsOwner
    BY <1>3, <2>1 DEF AddIdentifier, AddsOwner
  <2>3. CallsOK'
    BY <1>3, DoneOK DEF AddIdentifier
  <2>4. QED BY <1>3, <2>2, <2>3 DEF AddIdentifier, Adds, AddsCites, TablesOK
<1>4. QED
  BY <1>1, <1>2, <1>3, CreateAdds DEF IdentityStep, ResolveOrCreate, ResolveOrCreateVersion

LEMMA CitationAdds ==
  ASSUME TypeInv, UNCHANGED area, NEW r \in Requests, CitationStep(r)
  PROVE  Adds /\ CallsOK'
<1> USE DEF TypeInv
<1>1. CASE HoldForCitation(r)
  <2>1. PICK v \in works, w \in works :
          Begin(r, [op |-> "cite", work |-> Resolved(v), cited |-> Resolved(w)])
    BY <1>1 DEF HoldForCitation
  <2>2. Resolved(v) \in Work /\ Resolved(w) \in Work
    BY ResolvedOK DEF TablesOK
  <2>3. CallOK([op |-> "cite", work |-> Resolved(v), cited |-> Resolved(w)])
    BY <2>2 DEF CallOK, Typed, InArea, OfWork, OfRamp, RunSteps, FlowSteps
  <2>4. QED BY <1>1, <2>1, <2>3, BeginOK, WorksKeptAdds DEF HoldForCitation
<1>2. CASE AddAssertion(r)
  <2>1. call[r].work \in Work /\ call[r].cited \in Work
    BY <1>2 DEF AddAssertion, Doing, CallsOK, CallOK, Typed, InArea, OfWork
  <2>2. AddsCites
    BY <1>2, <2>1 DEF AddAssertion, AddsCites, Free
  <2>3. CallsOK'
    BY <1>2, DoneOK DEF AddAssertion
  <2>4. QED BY <1>2, <2>2, <2>3 DEF AddAssertion, Adds, AddsOwner, TablesOK
<1>3. QED BY <1>1, <1>2 DEF CitationStep

-----------------------------------------------------------------------------
(* Claims.                                                                  *)
LEMMA MapSeq ==
  ASSUME NEW S, NEW cs \in Seq(S), NEW T, NEW f, f = [i \in DOMAIN cs |-> f[i]],
         \A i \in DOMAIN cs : f[i] \in T
  PROVE  f \in Seq(T)
<1>1. DOMAIN cs = 1 .. Len(cs) /\ Len(cs) \in Nat
  OBVIOUS
<1>2. f \in [1 .. Len(cs) -> T]
  BY <1>1
<1>3. QED BY <1>1, <1>2

LEMMA InsertClaim ==
  ASSUME NEW cs \in Seq(Claim), Overriding(cs), NEW w \in Work, NEW v \in Values,
         NEW rank \in Ranks \cup {0}, rank = 0 => Overrides(cs, w) = {}
  PROVE  Insert(cs, w, v, rank) \in Seq(Claim) /\ Overriding(Insert(cs, w, v, rank))
<1> DEFINE new == [work |-> w, value |-> v, rank |-> rank, rejected |-> FALSE, retracted |-> FALSE]
           is == Insert(cs, w, v, rank)
<1>1. new \in Claim
  BY DEF Claim
<1>2. is = Append(cs, new)
  BY DEF Insert
<1>3. /\ is \in Seq(Claim) /\ DOMAIN is = DOMAIN cs \cup {Len(cs) + 1}
      /\ \A i \in DOMAIN cs : is[i] = cs[i]
      /\ is[Len(cs) + 1] = new
  <2> HIDE DEF new, is
  <2>1. QED BY <1>1, <1>2
<1>4. ASSUME NEW x \in Work, NEW i \in Overrides(is, x), NEW j \in Overrides(is, x) PROVE i = j
  <2> HIDE DEF is
  <2>1. \A k \in Overrides(is, x) : k \in Overrides(cs, x) \/ (k = Len(cs) + 1 /\ rank = 0 /\ x = w)
    BY <1>3 DEF Overrides, About
  <2>2. QED BY <2>1 DEF Overriding
<1>5. QED BY <1>3, <1>4 DEF Overriding

LEMMA RetractClaims ==
  ASSUME NEW cs \in Seq(Claim), NEW S
  PROVE  /\ Retract(cs, S) \in Seq(Claim)
         /\ \A w : Overrides(Retract(cs, S), w) = Overrides(cs, w) \ S
<1>1. \A i \in DOMAIN cs : cs[i] \in Claim /\ [cs[i] EXCEPT !.retracted = TRUE] \in Claim
  <2>1. ASSUME NEW i \in DOMAIN cs PROVE cs[i] \in Claim
    OBVIOUS
  <2>2. \A c \in Claim : [c EXCEPT !.retracted = TRUE] \in Claim
    BY DEF Claim
  <2>3. QED BY <2>1, <2>2
<1>2. /\ Retract(cs, S) = [i \in DOMAIN cs |-> Retract(cs, S)[i]]
      /\ \A i \in DOMAIN cs : Retract(cs, S)[i] = IF i \in S THEN [cs[i] EXCEPT !.retracted = TRUE] ELSE cs[i]
  BY DEF Retract
<1>3. \A i \in DOMAIN cs : /\ Retract(cs, S)[i].work = cs[i].work
                           /\ Retract(cs, S)[i].rank = cs[i].rank
                           /\ Retract(cs, S)[i].retracted = IF i \in S THEN TRUE ELSE cs[i].retracted
  BY <1>1, <1>2 DEF Claim
<1>4. ASSUME NEW w, NEW i
      PROVE  i \in Overrides(Retract(cs, S), w) <=> i \in Overrides(cs, w) /\ i \notin S
  BY <1>2, <1>3 DEF Overrides, About
<1>5. Retract(cs, S) \in Seq(Claim)
  BY <1>1, <1>2, MapSeq
<1>6. QED BY <1>4, <1>5

LEMMA ReselectOK ==
  ASSUME TablesOK, NEW cs, NEW w
  PROVE  Reselect(cs, w) = [v \in Work |-> Reselect(cs, w)[v]]
BY DEF Reselect, TablesOK

(* A claim that somebody records for the Work he holds.                     *)
LEMMA RecordedAdds ==
  ASSUME TypeInv, NEW w \in Work, NEW v \in Values, NEW rank \in Ranks, Recorded(w, v, rank)
  PROVE  /\ claims' \in Seq(Claim) /\ shown' = [x \in Work |-> shown'[x]]
         /\ Overriding(claims) => Overriding(claims')
<1> USE DEF TypeInv
<1>1. rank # 0
  BY WorksAssumption
<1>2. CASE UNCHANGED <<claims, shown>>
  BY <1>2 DEF TablesOK
<1>3. CASE claims' = Insert(claims, w, v, rank) /\ shown' = Reselect(claims', w)
  <2>1. claims' \in Seq(Claim) /\ (Overriding(claims) => Overriding(claims'))
    <3>1. Insert(claims, w, v, rank) \in Seq(Claim)
      BY DEF TablesOK, Insert, Claim
    <3>2. QED BY <1>1, <1>3, <3>1, InsertClaim DEF TablesOK
  <2>2. shown' = [x \in Work |-> shown'[x]]
    BY <1>3, ReselectOK
  <2>3. QED BY <2>1, <2>2
<1>4. QED BY <1>2, <1>3 DEF Recorded

LEMMA ReviewClaims ==
  ASSUME NEW cs \in Seq(Claim), NEW new, new = [j \in DOMAIN cs |-> new[j]],
         \A j \in DOMAIN cs : /\ new[j] \in Claim /\ new[j].work = cs[j].work
                              /\ new[j].rank = cs[j].rank /\ new[j].retracted = cs[j].retracted
  PROVE  /\ new \in Seq(Claim)
         /\ \A w : Overrides(new, w) = Overrides(cs, w)
<1>1. new \in Seq(Claim)
  BY MapSeq
<1>2. ASSUME NEW w, NEW j PROVE j \in Overrides(new, w) <=> j \in Overrides(cs, w)
  BY DEF Overrides, About
<1>3. ASSUME NEW w PROVE Overrides(new, w) = Overrides(cs, w)
  <2>1. \A j : j \in Overrides(new, w) <=> j \in Overrides(cs, w)
    BY <1>2
  <2>2. QED BY <2>1
<1>4. QED BY <1>1, <1>3

LEMMA ClaimAdds ==
  ASSUME TypeInv, UNCHANGED area, NEW r \in Requests, ClaimStep(r)
  PROVE  Adds /\ CallsOK'
<1> USE DEF TypeInv
<1> USE DEF OfWork, OfRamp, RunSteps, FlowSteps
<1>0. \A op \in {"record", "override", "clear", "review"} : Doing(r, op) => call[r].work \in Work
  BY DEF Doing, CallsOK, CallOK, Typed, InArea
<1>1. CASE HoldForClaim(r)
  <2>1. PICK w \in works \cap Subjects, v \in Values :
          \/ \E rank \in Ranks :
               Begin(r, [op |-> "record", work |-> Resolved(w), value |-> v, rank |-> rank])
          \/ Begin(r, [op |-> "override", work |-> Resolved(w), value |-> v])
          \/ Begin(r, [op |-> "clear", work |-> Resolved(w)])
    BY <1>1 DEF HoldForClaim
  <2>2. Resolved(w) \in Work
    BY ResolvedOK DEF TablesOK
  <2>3. \A rank \in Ranks : CallOK([op |-> "record", work |-> Resolved(w), value |-> v, rank |-> rank])
    BY <2>2 DEF CallOK, Typed, InArea
  <2>4. CallOK([op |-> "override", work |-> Resolved(w), value |-> v])
    BY <2>2 DEF CallOK, Typed, InArea
  <2>5. CallOK([op |-> "clear", work |-> Resolved(w)])
    BY <2>2 DEF CallOK, Typed, InArea
  <2>6. CallsOK'
    BY <2>1, <2>3, <2>4, <2>5, BeginOK
  <2>7. QED BY <1>1, <2>6, WorksKeptAdds DEF HoldForClaim
<1>2. CASE Record(r)
  <2>1. call[r].value \in Values /\ call[r].rank \in Ranks
    BY <1>2 DEF Record, Doing, CallsOK, CallOK, Typed, InArea
  <2>2. CallsOK'
    BY <1>2, DoneOK DEF Record
  <2>3. QED BY <1>0, <1>2, <2>1, <2>2, RecordedAdds DEF Record, Adds, AddsCites, AddsOwner, TablesOK
<1>3. CASE SetOverride(r)
  <2>1. call[r].value \in Values
    BY <1>3 DEF SetOverride, Doing, CallsOK, CallOK, Typed, InArea
  <2> DEFINE w == call[r].work
             kept == Retract(claims, Overrides(claims, w))
  <2>2. kept \in Seq(Claim) /\ Overrides(kept, w) = {} /\ (Overriding(claims) => Overriding(kept))
    BY RetractClaims DEF TablesOK, Overriding
  <2>3. claims' = Insert(kept, w, call[r].value, 0) /\ shown' = Reselect(claims', w)
    BY <1>3 DEF SetOverride
  <2>4. w \in Work
    BY <1>0, <1>3 DEF SetOverride
  <2>5. claims' \in Seq(Claim)
    <3> HIDE DEF kept, w
    <3>1. QED BY <2>1, <2>2, <2>3, <2>4 DEF Insert, Claim
  <2>6. Overriding(claims) => Overriding(claims')
    <3> HIDE DEF kept, w
    <3>1. QED BY <2>1, <2>2, <2>3, <2>4, InsertClaim
  <2>7. shown' = [x \in Work |-> shown'[x]]
    BY <2>3, ReselectOK
  <2>8. CallsOK'
    BY <1>3, DoneOK DEF SetOverride
  <2>9. QED BY <1>3, <2>5, <2>6, <2>7, <2>8 DEF SetOverride, Adds, AddsCites, AddsOwner, TablesOK
<1>4. CASE ClearOverride(r)
  <2> DEFINE w == call[r].work
             kept == Retract(claims, Overrides(claims, w))
  <2>1. kept \in Seq(Claim) /\ (Overriding(claims) => Overriding(kept))
    BY RetractClaims DEF TablesOK, Overriding
  <2>2. \/ UNCHANGED <<claims, shown>>
        \/ claims' = kept /\ shown' = Reselect(claims', w)
    BY <1>4 DEF ClearOverride
  <2>3. claims' \in Seq(Claim) /\ (Overriding(claims) => Overriding(claims'))
    BY <2>1, <2>2 DEF TablesOK
  <2>4. shown' = [x \in Work |-> shown'[x]]
    BY <2>2, ReselectOK DEF TablesOK
  <2>5. CallsOK'
    BY <1>4, DoneOK DEF ClearOverride
  <2>6. QED BY <1>4, <2>3, <2>4, <2>5 DEF ClearOverride, Adds, AddsCites, AddsOwner, TablesOK
<1>5. CASE ReadClaim(r)
  <2>1. PICK i \in DOMAIN claims, b \in BOOLEAN :
          Begin(r, [op |-> "review", work |-> claims[i].work, claim |-> i, rejected |-> b])
    BY <1>5 DEF ReadClaim
  <2>2. claims[i] \in Claim
    BY DEF TablesOK
  <2>3. claims[i].work \in Work
    BY <2>2 DEF Claim
  <2>4. CallOK([op |-> "review", work |-> claims[i].work, claim |-> i, rejected |-> b])
    BY <2>3 DEF CallOK, Typed, InArea
  <2>5. QED BY <1>5, <2>1, <2>4, BeginOK, WorksKeptAdds DEF ReadClaim
<1>6. CASE SetReviewState(r)
  <2>1. call[r].rejected \in BOOLEAN
    BY <1>6 DEF SetReviewState, Doing, CallsOK, CallOK, Typed, InArea
  <2>2. /\ claims' = [claims EXCEPT ![call[r].claim].rejected = call[r].rejected]
        /\ shown' = Reselect(claims', call[r].work)
    BY <1>6 DEF SetReviewState
  <2>3. claims' \in Seq(Claim) /\ (Overriding(claims) => Overriding(claims'))
    <3>1. claims \in Seq(Claim)
      BY DEF TablesOK
    <3>2. claims' \in Seq(Claim) /\ \A w : Overrides(claims', w) = Overrides(claims, w)
      <4>1. \A j \in DOMAIN claims : claims[j] \in Claim
        BY <3>1
      <4>2. \A c \in Claim, b \in BOOLEAN :
               /\ [c EXCEPT !.rejected = b] \in Claim
               /\ [c EXCEPT !.rejected = b].work = c.work
               /\ [c EXCEPT !.rejected = b].rank = c.rank
               /\ [c EXCEPT !.rejected = b].retracted = c.retracted
        BY DEF Claim
      <4>3. /\ claims' = [j \in DOMAIN claims |-> claims'[j]]
            /\ \A j \in DOMAIN claims : \/ claims'[j] = claims[j]
                                        \/ claims'[j] = [claims[j] EXCEPT !.rejected = call[r].rejected]
        BY <2>2
      <4>4. ASSUME NEW j \in DOMAIN claims
            PROVE  /\ claims'[j] \in Claim /\ claims'[j].work = claims[j].work
                   /\ claims'[j].rank = claims[j].rank /\ claims'[j].retracted = claims[j].retracted
        <5> DEFINE c == claims[j]
                   b == call[r].rejected
        <5>1. c \in Claim /\ b \in BOOLEAN
          BY <2>1, <4>1
        <5>2. claims'[j] = c \/ claims'[j] = [c EXCEPT !.rejected = b]
          BY <4>3
        <5> HIDE DEF c, b
        <5>3. /\ claims'[j] \in Claim /\ claims'[j].work = c.work
              /\ claims'[j].rank = c.rank /\ claims'[j].retracted = c.retracted
          BY <4>2, <5>1, <5>2
        <5>4. QED BY <5>3 DEF c
      <4>5. QED BY <3>1, <4>3, <4>4, ReviewClaims
    <3>3. QED BY <3>2 DEF Overriding
  <2>4. shown' = [x \in Work |-> shown'[x]]
    BY <2>2, ReselectOK
  <2>5. CallsOK'
    BY <1>6, DoneOK DEF SetReviewState
  <2>6. QED BY <1>6, <2>3, <2>4, <2>5 DEF SetReviewState, Adds, AddsCites, AddsOwner, TablesOK
<1>7. CASE ReselectClaims(r)
  <2>1. PICK w \in works : shown' = Reselect(claims, Resolved(w))
    BY <1>7 DEF ReselectClaims
  <2>2. shown' = [x \in Work |-> shown'[x]]
    BY <2>1, ReselectOK
  <2>3. CallsOK'
    BY <1>7, CallKept DEF ReselectClaims
  <2>4. QED BY <1>7, <2>2, <2>3 DEF ReselectClaims, Adds, AddsCites, AddsOwner, TablesOK
<1>8. QED BY <1>1, <1>2, <1>3, <1>4, <1>5, <1>6, <1>7 DEF ClaimStep

-----------------------------------------------------------------------------
(* Curation and documents.                                                  *)
LEMMA CurationAdds ==
  ASSUME TypeInv, UNCHANGED area, NEW r \in Requests, CurationStep(r)
  PROVE  /\ Adds /\ CallsOK'
         /\ mark' \in [Work -> Marks \cup {None}]
         /\ tags' \subseteq Tags /\ tagged' \subseteq Work \X Tags
<1> USE DEF TypeInv
<1> USE DEF OfWork, OfRamp, RunSteps, FlowSteps
<1>0. /\ mark \in [Work -> Marks \cup {None}]
      /\ tags \subseteq Tags /\ tagged \subseteq Work \X Tags
  BY DEF RowsOK
<1>1. CASE HoldForCuration(r)
  <2>1. PICK w \in works :
          \/ \E m \in Marks : Begin(r, [op |-> "mark", work |-> Resolved(w), mark |-> m])
          \/ Begin(r, [op |-> "unmark", work |-> Resolved(w)])
          \/ \E t \in tags : Begin(r, [op |-> "tag", work |-> Resolved(w), tag |-> t])
          \/ \E t \in tags : Begin(r, [op |-> "untag", work |-> Resolved(w), tag |-> t])
    BY <1>1 DEF HoldForCuration
  <2>2. Resolved(w) \in Work
    BY ResolvedOK DEF TablesOK
  <2>3. \A m \in Marks : CallOK([op |-> "mark", work |-> Resolved(w), mark |-> m])
    BY <2>2 DEF CallOK, Typed, InArea
  <2>4. CallOK([op |-> "unmark", work |-> Resolved(w)])
    BY <2>2 DEF CallOK, Typed, InArea
  <2>5. \A t \in tags : /\ CallOK([op |-> "tag", work |-> Resolved(w), tag |-> t])
                        /\ CallOK([op |-> "untag", work |-> Resolved(w), tag |-> t])
    BY <2>2, <1>0 DEF CallOK, Typed, InArea
  <2>6. CallsOK'
    BY <2>1, <2>3, <2>4, <2>5, BeginOK
  <2>7. QED BY <1>0, <1>1, <2>6, WorksKeptAdds DEF HoldForCuration, curationVars
<1>2. ASSUME Done(r), WorksKept PROVE Adds /\ CallsOK'
  BY <1>2, DoneOK, WorksKeptAdds
<1>3. CASE SetMark(r)
  <2>1. call[r].mark \in Marks
    BY <1>3 DEF SetMark, Doing, CallsOK, CallOK, Typed, InArea
  <2>2. QED BY <1>0, <1>2, <1>3, <2>1 DEF SetMark
<1>4. CASE ClearMark(r)
  BY <1>0, <1>2, <1>4 DEF ClearMark
<1>5. CASE AssignTag(r)
  <2>1. call[r].work \in Work /\ call[r].tag \in Tags
    BY <1>5 DEF AssignTag, Doing, CallsOK, CallOK, Typed, InArea
  <2>2. QED BY <1>0, <1>2, <1>5, <2>1 DEF AssignTag
<1>6. CASE UnassignTag(r)
  BY <1>0, <1>2, <1>6 DEF UnassignTag
<1>7. QED BY <1>1, <1>3, <1>4, <1>5, <1>6 DEF CurationStep

LEMMA TagAdds ==
  ASSUME TypeInv, UNCHANGED area, TagStep
  PROVE  /\ Adds /\ CallsOK'
         /\ mark' \in [Work -> Marks \cup {None}]
         /\ tags' \subseteq Tags /\ tagged' \subseteq Work \X Tags
<1> USE DEF TypeInv
<1>1. WorksKept /\ UNCHANGED <<mark, call>>
  BY DEF TagStep, CreateTag, DeleteTag
<1>2. tags' \subseteq Tags /\ tagged' \subseteq Work \X Tags
  BY DEF TagStep, CreateTag, DeleteTag, RowsOK
<1>3. CallsOK'
  BY <1>1, CallKept
<1>4. QED BY <1>1, <1>2, <1>3, WorksKeptAdds DEF RowsOK

LEMMA DocumentsAdds ==
  ASSUME TypeInv, UNCHANGED area, NEW r \in Requests, DocumentsStep(r)
  PROVE  Adds /\ CallsOK' /\ linked' \in [DocumentIds -> Work \cup {None}]
<1> USE DEF TypeInv
<1> USE DEF OfWork, OfRamp, RunSteps, FlowSteps
<1>0. linked \in [DocumentIds -> Work \cup {None}]
  BY DEF RowsOK
<1>1. CASE ListFiles(r)
  <2>1. CallOK([op |-> "scan", full |-> TRUE, files |-> disk])
    BY DEF CallOK, Typed, InArea
  <2>2. \A p : CallOK([op |-> "scan", full |-> FALSE, file |-> p,
                       files |-> [NoFiles EXCEPT ![p] = disk[p]]])
    BY DEF CallOK, Typed, InArea
  <2>3. CallsOK'
    BY <1>1, <2>1, <2>2, BeginOK DEF ListFiles
  <2>4. QED BY <1>0, <1>1, <2>3, WorksKeptAdds DEF ListFiles, documentsVars
<1>2. CASE ApplyScan(r)
  <2>1. CallOK([op |-> "registered", file |-> call[r].file])
    BY DEF CallOK, Typed, InArea
  <2>2. CallsOK'
    <3>1. \/ call' = [call EXCEPT ![r] = Idle]
          \/ call' = [call EXCEPT ![r] = [op |-> "registered", file |-> call[r].file]]
      BY <1>2 DEF ApplyScan, Done
    <3>2. QED BY <2>1, <3>1, CallSet, IdleOK
  <2>3. WorksKept /\ UNCHANGED linked
    BY <1>2 DEF ApplyScan
  <2>4. QED BY <1>0, <2>2, <2>3, WorksKeptAdds
<1>3. CASE FindByPath(r)
  <2>1. \A w \in works : Resolved(w) \in Work
    BY ResolvedOK DEF TablesOK
  <2>2. \A d, w : w \in works => CallOK([op |-> "link", document |-> d, work |-> Resolved(w)])
    BY <2>1 DEF CallOK, Typed, InArea
  <2>3. CallsOK'
    BY <1>3, <2>2, CallSet, DoneOK DEF FindByPath
  <2>4. QED BY <1>0, <1>3, <2>3, WorksKeptAdds DEF FindByPath, documentsVars
<1>4. CASE SetWorkLink(r)
  <2>1. call[r].work \in Work
    BY <1>4 DEF SetWorkLink, Doing, CallsOK, CallOK, Typed, InArea
  <2>2. QED BY <1>0, <1>4, <2>1, DoneOK, WorksKeptAdds DEF SetWorkLink
<1>5. QED BY <1>1, <1>2, <1>3, <1>4 DEF DocumentsStep

LEMMA LibraryAdds ==
  ASSUME TypeInv, UNCHANGED area, EditLibrary
  PROVE  Adds /\ CallsOK' /\ linked' = linked
<1>1. WorksKept /\ UNCHANGED <<linked, call>>
  BY DEF EditLibrary
<1>2. CallsOK'
  BY <1>1, CallKept DEF TypeInv
<1>3. QED BY <1>1, <1>2, WorksKeptAdds

-----------------------------------------------------------------------------
(* Ramps.                                                                   *)

(* The position at the end is above that of every item.                     *)
LEMMA NextPositionOK ==
  ASSUME RampsOK, NEW p \in RampIds
  PROVE  /\ NextPosition(p) \in Nat
         /\ \A w \in On(p) : items[p][w].position < NextPosition(p)
<1> DEFINE pos(w) == items[p][w].position
           above == {n \in {pos(w) + 1 : w \in On(p)} \cup {0} : \A w \in On(p) : pos(w) < n}
           bounds == {n \in Nat : \A w \in On(p) : pos(w) < n}
<1>1. \A w \in On(p) : pos(w) \in Nat
  BY DEF RampsOK, ItemsOK, ListOK, On, Item
<1>2. bounds \in SUBSET Nat /\ bounds # {}
  BY DEF RampsOK, ItemsOK, ListOK, On
<1>3. PICK n \in bounds : \A m \in bounds : n <= m
  <2> HIDE DEF bounds
  <2>1. QED BY <1>2, Least
<1> HIDE DEF pos
<1>4. n \in above
  <2>1. CASE n = 0
    BY <1>3, <2>1
  <2>2. CASE n # 0
    <3>1. n - 1 \in Nat /\ n - 1 < n
      BY <1>3, <2>2
    <3>2. n - 1 \notin bounds
      BY <1>3, <3>1
    <3>3. PICK w \in On(p) : ~(pos(w) < n - 1)
      BY <3>1, <3>2
    <3>4. pos(w) + 1 = n
      BY <1>1, <1>3, <3>1, <3>3
    <3>5. QED BY <1>3, <3>4
  <2>3. QED BY <2>1, <2>2
<1>5. NextPosition(p) = CHOOSE m \in above : TRUE
  BY DEF NextPosition, pos
<1>6. NextPosition(p) \in above
  <2> HIDE DEF above
  <2>1. QED BY <1>4, <1>5
<1>7. \A m \in above : m \in Nat
  BY <1>1
<1>8. QED BY <1>6, <1>7 DEF pos

LEMMA ExtendList ==
  ASSUME NEW g, ListOK(g), NEW w \in Work, NEW item \in Item, NEW f,
         f = [v \in DOMAIN g \cup {w} |-> IF v = w THEN item ELSE g[v]]
  PROVE  ListOK(f)
<1>1. DOMAIN f = DOMAIN g \cup {w} /\ IsFiniteSet(DOMAIN f) /\ DOMAIN f \subseteq Work
  BY FS_AddElement DEF ListOK
<1>2. f \in [DOMAIN f -> Item]
  BY <1>1 DEF ListOK
<1>3. PICK n \in Nat : \A v \in DOMAIN g : g[v].position < n
  BY DEF ListOK
<1>4. item.position \in Nat /\ \A v \in DOMAIN g : g[v].position \in Nat
  BY DEF Item, ListOK
<1> DEFINE m == n + item.position + 1
<1>5. m \in Nat /\ \A v \in DOMAIN f : f[v].position < m
  BY <1>1, <1>3, <1>4
<1> HIDE DEF m
<1>6. QED BY <1>1, <1>2, <1>5 DEF ListOK

LEMMA ShrinkList ==
  ASSUME NEW g, ListOK(g), NEW f, NEW S, f = [v \in DOMAIN g \ S |-> g[v]]
  PROVE  ListOK(f)
<1>1. DOMAIN f \subseteq DOMAIN g /\ IsFiniteSet(DOMAIN f)
  BY FS_Subset DEF ListOK
<1>2. QED BY <1>1 DEF ListOK

LEMMA SetItems ==
  ASSUME RampsOK, NEW p, NEW f, p \in RampIds => ListOK(f), NEW its, its = [items EXCEPT ![p] = f]
  PROVE  ItemsOK(its)
BY DEF RampsOK, ItemsOK

LEMMA WithOK ==
  ASSUME RampsOK, NEW p \in RampIds, NEW w \in Work, NEW item \in Item
  PROVE  ItemsOK(With(p, w, item))
<1> DEFINE f == [v \in On(p) \cup {w} |-> IF v = w THEN item ELSE items[p][v]]
<1>1. ListOK(f)
  <2>1. ListOK(items[p])
    BY DEF RampsOK, ItemsOK
  <2> DEFINE g == items[p]
  <2>2. f = [v \in DOMAIN g \cup {w} |-> IF v = w THEN item ELSE g[v]] /\ ListOK(g)
    BY <2>1 DEF On
  <2> HIDE DEF f, g
  <2>3. QED BY <2>2, ExtendList
<1>2. With(p, w, item) = [items EXCEPT ![p] = f]
  BY DEF With
<1> HIDE DEF f
<1>3. QED BY <1>1, <1>2, SetItems

LEMMA HoldForRampOK ==
  ASSUME TypeInv, UNCHANGED area, NEW r \in Requests, HoldForRamp(r)
  PROVE  Adds /\ CallsOK' /\ RampsOK'
<1> USE DEF TypeInv
<1> USE DEF OfWork, OfRamp, RunSteps, FlowSteps
<1>1. \A w \in works : Resolved(w) \in Work
  BY ResolvedOK DEF TablesOK
<1>2. \A p \in RampIds : \A w \in On(p) : Resolved(w) \in Work
  BY ResolvedOK DEF RampsOK, ItemsOK, ListOK, On
<1>3. \A w \in works : CallOK([op |-> "create ramp", work |-> Resolved(w)])
  BY <1>1 DEF CallOK, Typed, InArea
<1>4. \A p \in RampIds, w \in works : \A v \in On(p) \cup {None} :
        CallOK([op |-> "add", ramp |-> p, work |-> Resolved(w),
                via |-> IF v = None THEN None ELSE Resolved(v)])
  BY <1>1, <1>2 DEF CallOK, Typed, InArea
<1>5. \A p \in RampIds : \A w \in On(p) : CallOK([op |-> "remove", ramp |-> p, work |-> Resolved(w)])
  BY <1>2 DEF CallOK, Typed, InArea
<1>6. CallsOK'
  <2>1. CASE \E w \in works : Begin(r, [op |-> "create ramp", work |-> Resolved(w)])
    BY <1>3, <2>1, BeginOK
  <2>2. CASE \E p \in RampIds, w \in works : \E v \in On(p) \cup {None} :
               Begin(r, [op |-> "add", ramp |-> p, work |-> Resolved(w),
                         via |-> IF v = None THEN None ELSE Resolved(v)])
    BY <1>4, <2>2, BeginOK
  <2>3. CASE \E p \in RampIds : \E w \in On(p) :
               Begin(r, [op |-> "remove", ramp |-> p, work |-> Resolved(w)])
    BY <1>5, <2>3, BeginOK
  <2>4. QED BY <2>1, <2>2, <2>3 DEF HoldForRamp
<1>7. UNCHANGED <<seed, items, rampLock>> /\ WorksKept
  BY DEF HoldForRamp, rampsVars
<1>8. QED BY <1>6, <1>7, WorksKeptAdds DEF RampsOK

LEMMA RampsAdds ==
  ASSUME TypeInv, UNCHANGED area, area = "ramps", NEW r \in Requests, RampsStep(r)
  PROVE  Adds /\ CallsOK' /\ RampsOK'
<1> USE DEF TypeInv
<1> USE DEF OfWork, OfRamp, RunSteps, FlowSteps
<1>0. /\ seed \in [RampIds -> Work \cup {None}]
      /\ rampLock \in [RampIds -> Requests \cup {None}]
      /\ ItemsOK(items)
  BY DEF RampsOK
<1>1. CASE CreateRamp(r)
  <2>1. call[r].work \in Work
    BY <1>1 DEF CreateRamp, Doing, CallsOK, CallOK, Typed
  <2> DEFINE item == [position |-> 0, via |-> None, path |-> <<call[r].work>>]
  <2>2. item \in Item
    BY <2>1 DEF Item
  <2>3. PICK p \in RampIds : /\ seed' = [seed EXCEPT ![p] = call[r].work]
                             /\ items' = With(p, call[r].work, item)
    BY <1>1 DEF CreateRamp
  <2>4. UNCHANGED rampLock /\ WorksKept /\ Done(r)
    BY <1>1 DEF CreateRamp
  <2> HIDE DEF item
  <2>5. ItemsOK(items')
    BY <2>1, <2>2, <2>3, WithOK
  <2>6. QED BY <1>0, <2>1, <2>3, <2>4, <2>5, DoneOK, WorksKeptAdds DEF RampsOK
<1>2. CASE AddItem(r)
  <2> DEFINE c == call[r]
  <2>1. CallOK(c) /\ c.op = "add"
    BY <1>2 DEF AddItem, Doing, CallsOK
  <2>2. c.ramp \in RampIds /\ c.work \in Work /\ c.via \in Work \cup {None}
    BY <2>1 DEF CallOK, Typed
  <2>3. UNCHANGED <<seed, items>> /\ WorksKept
    BY <1>2 DEF AddItem
  <2>4. CASE MayAdd(c)
    <3>1. PathTo(c) \in Seq(Work)
      <4>1. CASE c.via = None
        BY <2>2, <4>1 DEF PathTo
      <4>2. CASE c.via # None
        <5>1. items[c.ramp][c.via] \in Item
          BY <2>2, <2>4, <4>2, <1>0 DEF MayAdd, ItemsOK, ListOK, On
        <5>2. items[c.ramp][c.via].path \in Seq(Work)
          BY <5>1 DEF Item
        <5>3. QED BY <2>2, <4>2, <5>2 DEF PathTo
      <4>3. QED BY <4>1, <4>2
    <3> DEFINE d == [op |-> "adding", ramp |-> c.ramp, work |-> c.work, via |-> c.via,
                     path |-> PathTo(c)]
    <3>2. CallOK(d)
      BY <2>2, <3>1 DEF CallOK, Typed, InArea
    <3>3. call' = [call EXCEPT ![r] = d] /\ rampLock' = [rampLock EXCEPT ![c.ramp] = r]
      BY <1>2, <2>4 DEF AddItem
    <3> HIDE DEF c, d
    <3>4. CallsOK'
      BY <3>2, <3>3, CallSet
    <3>5. QED BY <1>0, <2>3, <3>3, <3>4, WorksKeptAdds DEF RampsOK
  <2>5. CASE ~MayAdd(c)
    <3>1. Done(r) /\ UNCHANGED rampLock
      BY <1>2, <2>5 DEF AddItem
    <3>2. QED BY <1>0, <2>3, <3>1, DoneOK, WorksKeptAdds DEF RampsOK
  <2>6. QED BY <2>4, <2>5
<1>3. CASE InsertItem(r)
  <2> DEFINE c == call[r]
             item == [position |-> NextPosition(c.ramp), via |-> c.via, path |-> c.path]
  <2>1. CallOK(c) /\ c.op = "adding"
    BY <1>3 DEF InsertItem, Doing, CallsOK
  <2>2. /\ c.ramp \in RampIds /\ c.work \in Work /\ c.via \in Work \cup {None}
        /\ c.path \in Seq(Work)
    BY <2>1 DEF CallOK, Typed
  <2>3. item \in Item
    BY <2>2, NextPositionOK DEF Item
  <2>4. items' = items \/ items' = With(c.ramp, c.work, item)
    BY <1>3 DEF InsertItem
  <2>5. UNCHANGED seed /\ WorksKept /\ Done(r) /\ rampLock' = [rampLock EXCEPT ![c.ramp] = None]
    BY <1>3 DEF InsertItem
  <2> HIDE DEF c, item
  <2>6. ItemsOK(items')
    BY <1>0, <2>2, <2>3, <2>4, WithOK
  <2>7. QED BY <1>0, <2>5, <2>6, DoneOK, WorksKeptAdds DEF RampsOK
<1>4. CASE RemoveItem(r)
  <2> DEFINE c == call[r]
  <2>1. CallOK(c) /\ c.op = "remove"
    BY <1>4 DEF RemoveItem, Doing, CallsOK
  <2>2. UNCHANGED <<seed, items>> /\ WorksKept
    BY <1>4 DEF RemoveItem
  <2>3. CASE Done(r) /\ UNCHANGED rampLock
    BY <1>0, <2>2, <2>3, DoneOK, WorksKeptAdds DEF RampsOK
  <2>4. CASE /\ call' = [call EXCEPT ![r].op = "removing"]
             /\ rampLock' = [rampLock EXCEPT ![c.ramp] = r]
    <3> DEFINE d == [c EXCEPT !.op = "removing"]
    <3>1. c \in [op : {"remove", "removing"}, ramp : RampIds, work : Work]
      BY <2>1 DEF CallOK, Typed
    <3>2. d \in [op : {"removing"}, ramp : RampIds, work : Work]
      <4> HIDE DEF c
      <4>1. QED BY <3>1
    <3>3. CallOK(d)
      <4> HIDE DEF c, d
      <4>1. QED BY <3>2 DEF CallOK, Typed, InArea
    <3>4. call' = [call EXCEPT ![r] = d]
      BY <2>4
    <3> HIDE DEF d
    <3>5. CallsOK'
      BY <3>3, <3>4, CallSet
    <3>6. QED BY <1>0, <2>2, <2>4, <3>5, WorksKeptAdds DEF RampsOK
  <2>5. QED BY <1>4, <2>3, <2>4 DEF RemoveItem
<1>5. CASE DeleteItem(r)
  <2> DEFINE p == call[r].ramp
             w == call[r].work
             f == [v \in On(p) \ {w} |-> items[p][v]]
  <2>1. items' = [items EXCEPT ![p] = f]
    BY <1>5 DEF DeleteItem, Without
  <2>2. p \in RampIds => ListOK(f)
    <3>1. p \in RampIds => ListOK(items[p])
      BY <1>0 DEF ItemsOK
    <3> DEFINE g == items[p]
    <3>2. f = [v \in DOMAIN g \ {w} |-> g[v]]
      BY DEF On
    <3>3. QED
      <4> HIDE DEF f
      <4>1. QED BY <3>1, <3>2, ShrinkList
  <2>3. UNCHANGED seed /\ WorksKept /\ Done(r) /\ rampLock' = [rampLock EXCEPT ![p] = None]
    BY <1>5 DEF DeleteItem
  <2> HIDE DEF p, f
  <2>4. ItemsOK(items')
    BY <2>1, <2>2, SetItems
  <2>5. QED BY <1>0, <2>3, <2>4, DoneOK, WorksKeptAdds DEF RampsOK
<1>6. CASE ReadOrder(r)
  <2>1. PICK p \in RampIds : \E o \in Orders(On(p)) :
          Begin(r, [op |-> "order", ramp |-> p, order |-> o])
    BY <1>6 DEF ReadOrder
  <2>0. PICK o \in Orders(On(p)) : Begin(r, [op |-> "order", ramp |-> p, order |-> o])
    BY <2>1
  <2>2. Cardinality(On(p)) \in Nat
    BY <1>0, FS_CardinalityType DEF ItemsOK, ListOK, On
  <2>3. DOMAIN o = 1 .. Cardinality(On(p))
    BY DEF Orders
  <2>4. CallOK([op |-> "order", ramp |-> p, order |-> o])
    BY <2>2, <2>3 DEF CallOK, Typed, InArea
  <2>5. UNCHANGED <<seed, items, rampLock>> /\ WorksKept
    BY <1>6 DEF ReadOrder, rampsVars
  <2>6. QED BY <1>0, <2>0, <2>4, <2>5, BeginOK, WorksKeptAdds DEF RampsOK
<1>7. CASE Reorder(r)
  <2> DEFINE p == call[r].ramp
             o == call[r].order
             at(w) == CHOOSE i \in DOMAIN o : o[i] = w
             f == [w \in On(p) |-> [items[p][w] EXCEPT !.position = at(w) - 1]]
  <2>1. CallOK(call[r]) /\ call[r].op = "order"
    BY <1>7 DEF Reorder, Doing, CallsOK
  <2>2. p \in RampIds /\ \E n \in Nat : DOMAIN o = 1 .. n
    BY <2>1 DEF CallOK, Typed
  <2>3. UNCHANGED <<seed, rampLock>> /\ WorksKept /\ Done(r)
    BY <1>7 DEF Reorder
  <2>4. CASE items' = items
    BY <1>0, <2>3, <2>4, DoneOK, WorksKeptAdds DEF RampsOK
  <2>5. CASE {o[i] : i \in DOMAIN o} = On(p) /\ items' = [items EXCEPT ![p] = f]
    <3>1. PICK n \in Nat : DOMAIN o = 1 .. n
      BY <2>2
    <3>2. \A w \in On(p) : at(w) - 1 \in Nat /\ at(w) - 1 < n
      <4>1. ASSUME NEW w \in On(p) PROVE at(w) \in 1 .. n
        BY <2>5, <3>1
      <4>2. QED
        <5> HIDE DEF at
        <5>1. QED BY <4>1
    <3>3. ListOK(items[p])
      BY <1>0, <2>2 DEF ItemsOK
    <3>4. \A x \in Item, m \in Nat : /\ [x EXCEPT !.position = m] \in Item
                                     /\ [x EXCEPT !.position = m].position = m
      BY DEF Item
    <3>5. \A w \in On(p) : f[w] \in Item /\ f[w].position < n
      <4>1. ASSUME NEW w \in On(p) PROVE f[w] \in Item /\ f[w].position < n
        <5>1. items[p][w] \in Item
          BY <3>3 DEF ListOK, On
        <5>2. f[w] = [items[p][w] EXCEPT !.position = at(w) - 1]
          OBVIOUS
        <5> HIDE DEF at, f
        <5>3. QED BY <3>2, <3>4, <5>1, <5>2
      <4>2. QED BY <4>1
    <3>6. DOMAIN f = On(p) /\ f = [w \in On(p) |-> f[w]]
      OBVIOUS
    <3>7. ListOK(f)
      <4> HIDE DEF f, p
      <4>1. QED BY <3>1, <3>3, <3>5, <3>6 DEF ListOK, On
    <3> HIDE DEF f, p
    <3>8. ItemsOK(items')
      BY <2>5, <3>7, SetItems
    <3>9. QED BY <1>0, <2>3, <3>8, DoneOK, WorksKeptAdds DEF RampsOK
  <2>6. QED BY <1>7, <2>4, <2>5 DEF Reorder
<1>8. CASE BreakDeadlock(r)
  <2>1. UNCHANGED <<seed, items, works, redirect, owner, cites, claims, shown>>
    BY <1>8 DEF BreakDeadlock
  <2>2. CASE Done(r) /\ rampLock' = [rampLock EXCEPT ![call[r].ramp] = None] /\ UNCHANGED merge
    BY <1>0, <2>1, <2>2, DoneOK DEF Adds, AddsCites, AddsOwner, RampsOK, TablesOK
  <2>3. CASE merge' = NoMerge /\ UNCHANGED <<call, rampLock>>
    BY <1>0, <2>1, <2>3, CallKept DEF Adds, AddsCites, AddsOwner, RampsOK, TablesOK
  <2>4. QED BY <1>8, <2>2, <2>3 DEF BreakDeadlock
<1>9. QED
  BY <1>1, <1>2, <1>3, <1>4, <1>5, <1>6, <1>7, <1>8, HoldForRampOK DEF RampsStep

LEMMA DeleteAdds ==
  ASSUME TypeInv, UNCHANGED area, DeleteStep
  PROVE  Adds /\ CallsOK' /\ RampsOK'
<1>1. PICK p \in RampIds : /\ seed' = [seed EXCEPT ![p] = None]
                           /\ items' = [items EXCEPT ![p] = NoItems]
  BY DEF DeleteStep, DeleteRamp
<1>2. UNCHANGED <<rampLock, call>> /\ WorksKept
  BY DEF DeleteStep, DeleteRamp
<1>3. ListOK(NoItems)
  BY FS_EmptySet DEF ListOK, NoItems
<1>4. ItemsOK(items')
  BY <1>1, <1>3, SetItems DEF TypeInv
<1>5. QED BY <1>1, <1>2, <1>4, CallKept, WorksKeptAdds DEF TypeInv, RampsOK

-----------------------------------------------------------------------------
(* Runs of the local evidence.                                              *)
LEMMA RunSet ==
  ASSUME CallsOK, UNCHANGED area, area = "evidence", NEW r \in Requests, NEW c, RunOK(c),
         call' = [call EXCEPT ![r] = c]
  PROVE  CallsOK'
<1>1. CallOK(c)
  <2>1. c.op \in RunSteps
    BY DEF RunOK
  <2>2. QED BY <2>1 DEF CallOK, Typed, InArea, OfWork, OfRamp, RunSteps, FlowSteps
<1>2. QED BY <1>1, CallSet

LEMMA RunOf ==
  ASSUME CallsOK, NEW r \in Requests, call[r].op \in RunSteps
  PROVE  RunOK(call[r])
BY DEF CallsOK, CallOK, Typed

LEMMA GoOK ==
  ASSUME CallsOK, UNCHANGED area, area = "evidence", NEW r \in Requests,
         call[r].op \in RunSteps, NEW op \in RunSteps, NEW work \in Work \cup {None}, NEW method,
         op \in {"fold", "folding", "accept", "attach", "connect", "harvest"} => work \in Work,
         op \in {"fold", "folding"} => method \in Work,
         call[r].left # <<>>, Go(r, op, work, method)
  PROVE  CallsOK'
<1> DEFINE c == call[r]
           d == [c EXCEPT !.op = op, !.work = work, !.method = method]
<1>1. RunOK(c)
  BY RunOf
<1>2. call' = [call EXCEPT ![r] = d]
  BY DEF Go
<1> HIDE DEF c
<1>3. /\ d \in [op : RunSteps, paper : Papers, left : Seq(Entries), citing : Work,
                work : Work \cup {None}, method : {method}, near : {c.near}]
      /\ d.op = op /\ d.work = work /\ d.method = method /\ d.left = c.left /\ d.near = c.near
  BY <1>1 DEF RunOK
<1> HIDE DEF d
<1>4. RunOK(d)
  BY <1>1, <1>3 DEF RunOK, c
<1>5. QED BY <1>2, <1>4, RunSet

LEMMA NextOK ==
  ASSUME CallsOK, UNCHANGED area, area = "evidence", NEW r \in Requests,
         call[r].op \in RunSteps, call[r].left # <<>>, NextEntry(r)
  PROVE  CallsOK'
<1> DEFINE c == call[r]
           d == [c EXCEPT !.op = "resolve", !.left = Tail(@), !.work = None, !.method = None]
<1>1. RunOK(c)
  BY RunOf
<1>2. call' = [call EXCEPT ![r] = d]
  BY DEF NextEntry
<1>3. Tail(c.left) \in Seq(Entries)
  BY <1>1 DEF RunOK
<1> HIDE DEF c
<1>4. /\ d \in [op : RunSteps, paper : Papers, left : Seq(Entries), citing : Work,
                work : Work \cup {None}, method : {None}, near : {c.near}]
      /\ d.op = "resolve" /\ d.method = None /\ d.near = c.near
  BY <1>1, <1>3 DEF RunOK, RunSteps
<1> HIDE DEF d
<1>5. RunOK(d)
  BY <1>1, <1>4 DEF RunOK, c
<1>6. QED BY <1>2, <1>5, RunSet

LEMMA FoundOK ==
  ASSUME TypeInv, NEW c, RunOK(c), NEW e, NEW stub, NEW found \in Found(c, e, stub)
  PROVE  found.work \in Work \cup {None}
<1> DEFINE title == Printed[e].title
           named == {Resolved(w) : w \in Owners(Printed[e].identifier, owner)} \ {stub}
           near == {p[1] : p \in c.near} \ {stub}
           titled == {w \in works : redirect[w] = None /\ shown[w].value = title}
                       \cup {w \in near : <<w, title>> \in c.near}
           others == titled \ {stub, c.citing}
           pool == IF others \cap near = {} THEN others ELSE others \cap near
           As(S, method) == {[work |-> w, method |-> method] : w \in S}
           Not(reason) == {[work |-> None, method |-> reason]}
<1>1. named \subseteq Work
  BY ResolvedOK DEF Owners
<1>2. near \subseteq Work /\ others \subseteq Work
  BY DEF RunOK, TypeInv, TablesOK
<1>3. pool \subseteq Work
  BY <1>2
<1>4. /\ \A S, m, f : S \subseteq Work /\ f \in As(S, m) => f.work \in Work
      /\ \A m, f : f \in Not(m) => f.work = None
  OBVIOUS
<1>5. Found(c, e, stub) =
        IF named # {}
        THEN IF c.citing \in named THEN Not("self") ELSE As(named, "identifier")
        ELSE IF title = None THEN Not("nothing")
        ELSE IF others = {}
        THEN IF c.citing \in titled THEN Not("self")
             ELSE Not("nothing") \cup As({w \in near \ {c.citing} : <<w, None>> \notin c.near}, "title")
        ELSE As(pool, "title") \cup IF Cardinality(pool) = 1 THEN {} ELSE Not("ambiguous")
  BY DEF Found
<1>6. {w \in near \ {c.citing} : <<w, None>> \notin c.near} \subseteq Work
  BY <1>2
<1> HIDE DEF title, named, near, titled, others, pool, As, Not
<1>7. QED BY <1>1, <1>2, <1>3, <1>4, <1>5, <1>6

LEMMA ResolveEntryOK ==
  ASSUME TypeInv, UNCHANGED area, area = "evidence", NEW r \in Requests, ResolveEntry(r)
  PROVE  CallsOK'
<1> USE DEF TypeInv, RunSteps
<1> DEFINE e == Head(call[r].left)
           before == IF accepted[e] = None THEN None ELSE Resolved(accepted[e])
<1>1. RunOK(call[r]) /\ call[r].op = "resolve" /\ call[r].left # <<>>
  BY RunOf DEF ResolveEntry, Doing
<1>2. e \in Entries
  BY <1>1 DEF RunOK
<1>3. before \in Work \cup {None}
  <2>1. accepted[e] \in Work \cup {None}
    BY <1>2 DEF RowsOK
  <2>2. QED BY <2>1, ResolvedOK
<1>4. \/ before # None /\ Go(r, "connect", before, None)
      \/ \E found \in Found(call[r], e, before) :
           \/ before # None /\ found.work # None /\ Go(r, "fold", found.work, before)
           \/ before # None /\ Go(r, "connect", before, None)
           \/ found.work # None /\ Go(r, "accept", found.work, found.method)
           \/ Go(r, "stub", None, None)
           \/ NextEntry(r)
  BY DEF ResolveEntry
<1> HIDE DEF before, e
<1>5. \A found \in Found(call[r], e, before) : found.work \in Work \cup {None}
  BY <1>1, FoundOK
<1>6. CASE before # None /\ Go(r, "connect", before, None)
  BY <1>1, <1>3, <1>6, GoOK
<1>7. ASSUME NEW found \in Found(call[r], e, before), before # None, found.work # None,
             Go(r, "fold", found.work, before)
      PROVE  CallsOK'
  BY <1>1, <1>3, <1>5, <1>7, GoOK
<1>8. ASSUME NEW found \in Found(call[r], e, before), found.work # None,
             Go(r, "accept", found.work, found.method)
      PROVE  CallsOK'
  BY <1>1, <1>5, <1>8, GoOK
<1>9. CASE Go(r, "stub", None, None)
  BY <1>1, <1>9, GoOK
<1>10. CASE NextEntry(r)
  BY <1>1, <1>10, NextOK
<1>11. QED BY <1>4, <1>6, <1>7, <1>8, <1>9, <1>10

LEMMA EvidenceAdds ==
  ASSUME TypeInv, UNCHANGED area, area = "evidence", NEW r \in Requests, EvidenceStep(r)
  PROVE  /\ Adds /\ CallsOK'
         /\ accepted' \in [Entries -> Work \cup {None}]
         /\ how' = [e \in Entries |-> how'[e]]
<1> USE DEF TypeInv, RunSteps
<1>0. accepted \in [Entries -> Work \cup {None}] /\ how = [e \in Entries |-> how[e]]
  BY DEF RowsOK
<1>1. CASE StartRun(r)
  <2> DEFINE c(p) == [op |-> "resolve", paper |-> p, left |-> Bibliography[p],
                      citing |-> Resolved(CitingWork[p]), work |-> None, method |-> None,
                      near |-> {<<w, shown[w].value>> :
                                  w \in {v \in Work : <<Resolved(CitingWork[p]), v>> \in cites}}]
  <2>1. PICK p \in Papers : Begin(r, c(p))
    BY <1>1 DEF StartRun
  <2>2. Bibliography[p] \in Seq(Entries) /\ Resolved(CitingWork[p]) \in Work
    BY EvidenceAssumption, WorksAssumption, ResolvedOK
  <2>3. RunOK(c(p))
    <3>1. ASSUME NEW x \in c(p).near PROVE x[1] \in Work
      <4>1. PICK w \in {v \in Work : <<Resolved(CitingWork[p]), v>> \in cites} :
              x = <<w, shown[w].value>>
        OBVIOUS
      <4>2. QED BY <4>1
    <3>2. c(p) \in [op : RunSteps, paper : Papers, left : Seq(Entries), citing : Work,
                   work : Work \cup {None}, method : {None}, near : {c(p).near}]
      BY <2>2
    <3>3. c(p).op = "resolve" /\ c(p).method = None
      OBVIOUS
    <3> HIDE DEF c
    <3>4. QED BY <3>1, <3>2, <3>3 DEF RunOK
  <2>4. CallsOK'
    <3> HIDE DEF c
    <3>1. QED BY <2>1, <2>3, RunSet DEF Begin
  <2>5. QED BY <1>0, <1>1, <2>4, WorksKeptAdds DEF StartRun, evidenceVars
<1>2. CASE ResolveEntry(r)
  BY <1>0, <1>2, ResolveEntryOK, WorksKeptAdds DEF ResolveEntry, evidenceVars
<1>3. CASE FoldStub(r)
  <2> DEFINE stub == call[r].method
             into == call[r].work
  <2>1. call[r].op = "fold"
    BY <1>3 DEF FoldStub, Doing
  <2>2. RunOK(call[r])
    BY <2>1, RunOf
  <2>3. stub \in Work /\ into \in Work /\ call[r].left # <<>>
    BY <2>1, <2>2 DEF RunOK
  <2>4. UNCHANGED <<works, redirect, owner, cites, claims, shown, accepted, how>>
    BY <1>3 DEF FoldStub, evidenceVars
  <2>5. \/ Opens(stub, into) /\ Go(r, "folding", into, stub)
        \/ Go(r, "connect", stub, None) /\ UNCHANGED merge
    BY <1>3 DEF FoldStub, Opens
  <2> HIDE DEF stub, into
  <2>6. CallsOK'
    BY <2>1, <2>3, <2>5, GoOK
  <2>7. QED BY <1>0, <2>3, <2>4, <2>5, <2>6 DEF Adds, AddsCites, AddsOwner, TablesOK
<1>4. CASE StubFolded(r)
  <2>1. call[r].op = "folding" /\ Go(r, "connect", call[r].work, None)
    BY <1>4 DEF StubFolded, Doing
  <2>2. RunOK(call[r])
    BY <2>1, RunOf
  <2>3. call[r].work \in Work /\ call[r].left # <<>>
    BY <2>1, <2>2 DEF RunOK
  <2>4. CallsOK'
    BY <2>1, <2>3, GoOK
  <2>5. QED BY <1>0, <1>4, <2>4, WorksKeptAdds DEF StubFolded, evidenceVars
<1>5. CASE CreateStub(r)
  <2>1. call[r].op = "stub"
    BY <1>5 DEF CreateStub, Doing
  <2>2. RunOK(call[r])
    BY <2>1, RunOf
  <2>3. call[r].left # <<>>
    BY <2>1, <2>2 DEF RunOK
  <2>4. UNCHANGED <<redirect, cites, claims, shown, merge, accepted, how>>
    BY <1>5 DEF CreateStub, evidenceVars
  <2>5. PICK w \in Work : Go(r, "accept", w, "stub")
    BY <1>5 DEF CreateStub, Owners
  <2>6. works \subseteq works' /\ works' \subseteq Work /\ AddsOwner
    BY <1>5 DEF CreateStub, AddsOwner, TablesOK
  <2>7. CallsOK'
    BY <2>1, <2>3, <2>5, GoOK
  <2>8. QED BY <1>0, <2>4, <2>6, <2>7 DEF Adds, AddsCites, TablesOK
<1>6. CASE RecordResolution(r)
  <2> DEFINE c == call[r]
             e == Head(c.left)
             op == IF c.method = "title" /\ Printed[e].identifier # None THEN "attach" ELSE "connect"
  <2>1. c.op = "accept"
    BY <1>6 DEF RecordResolution, Doing
  <2>2. RunOK(c)
    BY <2>1, RunOf
  <2>3. c.work \in Work /\ c.left # <<>>
    BY <2>1, <2>2 DEF RunOK
  <2>4. /\ accepted' = [accepted EXCEPT ![e] = c.work] /\ how' = [how EXCEPT ![e] = c.method]
        /\ Go(r, op, c.work, None) /\ WorksKept
    BY <1>6 DEF RecordResolution
  <2>5. op \in {"attach", "connect"}
    OBVIOUS
  <2>6. CallsOK'
    <3> HIDE DEF op
    <3>1. QED BY <2>1, <2>3, <2>4, <2>5, GoOK
  <2>7. QED BY <1>0, <2>3, <2>4, <2>6, WorksKeptAdds
<1>7. CASE AttachIdentifiers(r)
  <2>1. call[r].op = "attach" /\ Go(r, "connect", call[r].work, None)
    BY <1>7 DEF AttachIdentifiers, Doing
  <2>2. RunOK(call[r])
    BY <2>1, RunOf
  <2>3. call[r].work \in Work /\ call[r].left # <<>>
    BY <2>1, <2>2 DEF RunOK
  <2>4. CallsOK'
    BY <2>1, <2>3, GoOK
  <2>5. AddsOwner
    BY <1>7, <2>3 DEF AttachIdentifiers, AddsOwner
  <2>6. QED BY <1>0, <1>7, <2>4, <2>5 DEF AttachIdentifiers, Adds, AddsCites, TablesOK, evidenceVars
<1>8. CASE AddEntryAssertion(r)
  <2>1. call[r].op = "connect"
    BY <1>8 DEF AddEntryAssertion, Doing
  <2>2. RunOK(call[r])
    BY <2>1, RunOf
  <2>3. call[r].work \in Work /\ call[r].citing \in Work /\ call[r].left # <<>>
    BY <2>1, <2>2 DEF RunOK
  <2>4. \/ Done(r) /\ UNCHANGED cites
        \/ /\ call[r].citing # call[r].work
           /\ cites' = cites \cup {<<call[r].citing, call[r].work>>}
           /\ Go(r, "harvest", call[r].work, None)
    BY <1>8 DEF AddEntryAssertion
  <2>5. CallsOK'
    BY <2>1, <2>3, <2>4, GoOK, DoneOK
  <2>6. AddsCites
    BY <1>8, <2>3, <2>4 DEF AddEntryAssertion, AddsCites, Free
  <2>7. QED BY <1>0, <1>8, <2>5, <2>6 DEF AddEntryAssertion, Adds, AddsOwner, TablesOK, evidenceVars
<1>9. CASE RecordEntryClaims(r)
  <2>1. call[r].op = "harvest" /\ NextEntry(r)
    BY <1>9 DEF RecordEntryClaims, Doing
  <2>2. RunOK(call[r])
    BY <2>1, RunOf
  <2>3. call[r].work \in Work /\ call[r].left # <<>> /\ Head(call[r].left) \in Entries
    BY <2>1, <2>2 DEF RunOK
  <2>4. CallsOK'
    BY <2>1, <2>3, NextOK
  <2> DEFINE title == Printed[Head(call[r].left)].title
  <2>5. \/ UNCHANGED <<claims, shown>>
        \/ title # None /\ Recorded(call[r].work, title, EntryRank)
    BY <1>9 DEF RecordEntryClaims
  <2>6. title \in Values \cup {None} /\ EntryRank \in Ranks
    BY <2>3, EvidenceAssumption
  <2> HIDE DEF title
  <2>7. /\ claims' \in Seq(Claim) /\ shown' = [x \in Work |-> shown'[x]]
        /\ Overriding(claims) => Overriding(claims')
    BY <2>3, <2>5, <2>6, RecordedAdds DEF TablesOK
  <2>8. QED
    BY <1>0, <1>9, <2>4, <2>7 DEF RecordEntryClaims, Adds, AddsCites, AddsOwner, TablesOK, evidenceVars
<1>10. CASE EndRun(r)
  BY <1>0, <1>10, DoneOK, WorksKeptAdds DEF EndRun, evidenceVars
<1>11. QED
  BY <1>1, <1>2, <1>3, <1>4, <1>5, <1>6, <1>7, <1>8, <1>9, <1>10 DEF EvidenceStep

-----------------------------------------------------------------------------
(* Flows of the literature.                                                 *)
LEMMA FlowSet ==
  ASSUME CallsOK, UNCHANGED area, area = "literature", NEW r \in Requests, NEW c, FlowOK(c),
         Proceed(r, c)
  PROVE  CallsOK'
<1>1. CallOK(c)
  <2>1. c.op \in FlowSteps
    BY DEF FlowOK
  <2>2. QED BY <2>1 DEF CallOK, Typed, InArea, OfWork, OfRamp, RunSteps, FlowSteps
<1>2. QED BY <1>1, CallSet DEF Proceed

LEMMA FlowOf ==
  ASSUME CallsOK, NEW r \in Requests, call[r].op \in FlowSteps
  PROVE  FlowOK(call[r])
BY DEF CallsOK, CallOK, Typed

LEMMA EvidenceOfIs ==
  ASSUME NEW p \in Pdfs
  PROVE  /\ \A o \in {Indexed[Front[p]], None} : Front[p] # None /\ o # None =>
              o \in OpenAlex /\ o \in EvidenceOf(p)
         /\ Front[p] \in EvidenceOf(p)
         /\ TitleHit[p] \in EvidenceOf(p) /\ TitleHit[p] \in OpenAlex \cup {None}
BY LiteratureAssumption DEF EvidenceOf

LEMMA TailOK ==
  ASSUME NEW S, NEW s \in Seq(S), s # <<>>
  PROVE  Head(s) \in S /\ Tail(s) \in Seq(S)
OBVIOUS

LEMMA PrintableOK ==
  ASSUME NEW S, NEW i \in S, NEW o, o # None => o \in S
  PROVE  Printable(o) \o <<i>> \in Seq(S)
<1>1. CASE o = None
  BY <1>1 DEF Printable
<1>2. CASE o # None
  <2>1. <<o>> \in Seq(S) /\ <<i>> \in Seq(S)
    BY <1>2
  <2>2. <<o>> \o <<i>> \in Seq(S)
    BY <2>1
  <2>3. QED BY <1>2, <2>2 DEF Printable
<1>3. QED BY <1>1, <1>2

(* The steps that only ask and remember.                                    *)
LEMMA StartFlowOK ==
  ASSUME TypeInv, UNCHANGED area, area = "literature", NEW r \in Requests, StartFlow(r)
  PROVE  CallsOK'
<1> DEFINE c(p) == [op |-> IF Front[p] = None THEN "search" ELSE "provider", paper |-> p,
                    work |-> None, provider |-> None, look |-> <<>>, make |-> None,
                    attach |-> <<>>, left |-> <<>>, cited |-> None, listed |-> {},
                    rows |-> {}]
<1>1. PICK p \in Pdfs : Begin(r, c(p))
  BY DEF StartFlow
<1>2. FlowOK(c(p))
  BY DEF FlowOK, FlowSteps
<1> HIDE DEF c
<1>3. QED BY <1>1, <1>2, FlowSet DEF TypeInv, Begin, Proceed

LEMMA LookUpProviderOK ==
  ASSUME TypeInv, UNCHANGED area, area = "literature", NEW r \in Requests, LookUpProvider(r)
  PROVE  CallsOK'
<1> USE DEF TypeInv
<1> DEFINE c == call[r]
           i == Front[c.paper]
           d(o) == [c EXCEPT !.op = "own work", !.provider = o, !.make = i,
                             !.look = Printable(o) \o <<i>>, !.attach = <<i>>]
<1>1. c.op = "provider"
  BY DEF LookUpProvider, Doing
<1>2. FlowOK(c)
  BY <1>1, FlowOf DEF FlowSteps
<1>3. PICK o \in {Indexed[i], None} : Proceed(r, d(o))
  BY DEF LookUpProvider
<1>4. c.paper \in Pdfs /\ i # None
  BY <1>1, <1>2 DEF FlowOK
<1>5. o \in OpenAlex \cup {None} /\ i \in EvidenceOf(c.paper)
      /\ (o # None => o \in EvidenceOf(c.paper))
  BY <1>3, <1>4, EvidenceOfIs
<1>6. Printable(o) \o <<i>> \in Seq(EvidenceOf(c.paper))
  BY <1>5, PrintableOK
<1> HIDE DEF c, i
<1>7. FlowOK(d(o))
  BY <1>2, <1>4, <1>5, <1>6 DEF FlowOK, FlowSteps
<1> HIDE DEF d
<1>8. QED BY <1>3, <1>7, FlowSet

LEMMA SearchTitleOK ==
  ASSUME TypeInv, UNCHANGED area, area = "literature", NEW r \in Requests, SearchTitle(r)
  PROVE  CallsOK'
<1> USE DEF TypeInv
<1> DEFINE c == call[r]
           link == [c EXCEPT !.provider = None, !.op = "linking"]
           d(o) == [c EXCEPT !.provider = o,
                             !.op = IF c.work = None THEN "own work" ELSE "identifiers",
                             !.make = o, !.look = IF c.work = None THEN <<o>> ELSE <<>>,
                             !.attach = ProviderIds(o)]
<1>1. c.op = "search"
  BY DEF SearchTitle, Doing
<1>2. FlowOK(c)
  BY <1>1, FlowOf DEF FlowSteps
<1>3. PICK o \in {TitleHit[c.paper], None} :
        \/ o = None /\ c.work = None /\ Done(r)
        \/ o = None /\ c.work # None /\ Proceed(r, link)
        \/ o # None /\ Proceed(r, d(o))
  <2>1. \A o : [[c EXCEPT !.provider = o] EXCEPT
                  !.op = IF c.work = None THEN "own work" ELSE "identifiers", !.make = o,
                  !.look = IF c.work = None THEN <<o>> ELSE <<>>, !.attach = ProviderIds(o)] = d(o)
    BY <1>2 DEF FlowOK
  <2>2. [[c EXCEPT !.provider = None] EXCEPT !.op = "linking"] = link
    BY <1>2 DEF FlowOK
  <2>3. \A o : [c EXCEPT !.provider = o].work = c.work
    BY <1>2 DEF FlowOK
  <2>4. QED BY <2>1, <2>2, <2>3 DEF SearchTitle, Step
<1>4. c.paper \in Pdfs
  BY <1>2 DEF FlowOK
<1>5. o # None => o \in OpenAlex /\ o \in EvidenceOf(c.paper)
  BY <1>3, <1>4, EvidenceOfIs
<1>6. CASE o = None /\ c.work = None /\ Done(r)
  BY <1>6, DoneOK
<1>7. CASE o = None /\ c.work # None /\ Proceed(r, link)
  <2>1. FlowOK(link)
    <3> HIDE DEF c
    <3>1. QED BY <1>2, <1>7 DEF FlowOK, FlowSteps
  <2> HIDE DEF link
  <2>2. QED BY <1>7, <2>1, FlowSet
<1>8. CASE o # None /\ Proceed(r, d(o))
  <2>1. FlowOK(d(o))
    <3> DEFINE E == EvidenceOf(c.paper)
    <3>1. <<>> \in Seq(E) /\ <<o>> \in Seq(E)
      BY <1>5, <1>8
    <3> HIDE DEF c
    <3>2. CASE c.work = None
      BY <1>2, <1>4, <1>5, <1>8, <3>1, <3>2 DEF FlowOK, FlowSteps
    <3>3. CASE c.work # None
      BY <1>2, <1>4, <1>5, <1>8, <3>1, <3>3 DEF FlowOK, FlowSteps
    <3>4. QED BY <3>2, <3>3
  <2> HIDE DEF d
  <2>2. QED BY <1>8, <2>1, FlowSet
<1>9. QED BY <1>3, <1>6, <1>7, <1>8

LEMMA OwnerIs ==
  ASSUME NEW i, Owners(i, owner) # {}
  PROVE  Owner(i) \in Work /\ <<i, Owner(i)>> \in owner
BY DEF Owners, Owner

LEMMA FindWorkOK ==
  ASSUME TypeInv, UNCHANGED area, area = "literature", NEW r \in Requests, FindWork(r)
  PROVE  CallsOK'
<1> USE DEF TypeInv
<1> DEFINE c == call[r]
           i == Head(c.look)
           next == [c EXCEPT !.look = Tail(@)]
           d(w) == [c EXCEPT !.op = "identifiers", !.work = w, !.look = <<>>]
<1>1. c.op = "own work" /\ c.look # <<>>
  BY DEF FindWork, Doing
<1>2. FlowOK(c)
  BY <1>1, FlowOf DEF FlowSteps
<1>3. \/ Proceed(r, next)
      \/ Owners(i, owner) # {} /\ Proceed(r, d(Owner(i)))
  BY DEF FindWork
<1>4. CASE Proceed(r, next)
  <2>1. Tail(c.look) \in Seq(EvidenceOf(c.paper))
    <3>1. c.look \in Seq(EvidenceOf(c.paper))
      BY <1>2 DEF FlowOK
    <3>2. QED BY <1>1, <3>1, TailOK
  <2>2. FlowOK(next)
    <3> HIDE DEF c
    <3>1. QED BY <1>1, <1>2, <2>1 DEF FlowOK, FlowSteps
  <2> HIDE DEF next
  <2>3. QED BY <1>4, <2>2, FlowSet
<1>5. CASE Owners(i, owner) # {} /\ Proceed(r, d(Owner(i)))
  <2>1. Owner(i) \in Work
    BY <1>5, OwnerIs
  <2>2. ASSUME NEW w \in Work PROVE FlowOK(d(w))
    <3>1. <<>> \in Seq(EvidenceOf(c.paper))
      OBVIOUS
    <3> HIDE DEF c, i
    <3>2. QED BY <1>1, <1>2, <3>1 DEF FlowOK, FlowSteps
  <2> HIDE DEF d
  <2>3. QED BY <1>5, <2>1, <2>2, FlowSet
<1>6. QED BY <1>3, <1>4, <1>5

LEMMA AttachedOK ==
  ASSUME TypeInv, UNCHANGED area, area = "literature", NEW r \in Requests, Attached(r)
  PROVE  CallsOK'
<1> USE DEF TypeInv
<1> DEFINE c == call[r]
           again == [c EXCEPT !.attach = ProviderIds(c.provider), !.make = c.provider]
           d(op) == [c EXCEPT !.op = op]
<1>1. c.op = "identifiers"
  BY DEF Attached, Doing
<1>2. FlowOK(c)
  BY <1>1, FlowOf DEF FlowSteps
<1>3. Proceed(r, d("search")) \/ Proceed(r, again) \/ Proceed(r, d("linking"))
  BY DEF Attached, Step
<1>4. FlowOK(again) /\ FlowOK(d("search")) /\ FlowOK(d("linking"))
  <2> HIDE DEF c
  <2>1. QED BY <1>1, <1>2 DEF FlowOK, FlowSteps
<1> HIDE DEF again, d
<1>5. QED BY <1>3, <1>4, FlowSet

LEMMA ReadCitedOK ==
  ASSUME TypeInv, UNCHANGED area, area = "literature", NEW r \in Requests, ReadCited(r)
  PROVE  CallsOK'
<1> USE DEF TypeInv
<1> DEFINE c == call[r]
           S == {w \in Work : <<c.work, w>> \in cites} \cup {c.work}
           d == [c EXCEPT !.op = "cited", !.listed = S]
<1>1. c.op = "reference"
  BY DEF ReadCited, Doing
<1>2. FlowOK(c)
  BY <1>1, FlowOf DEF FlowSteps
<1>3. Proceed(r, d)
  BY DEF ReadCited
<1>4. S \subseteq Work
  BY <1>1, <1>2 DEF FlowOK
<1>5. FlowOK(d)
  <2> HIDE DEF c, S
  <2>1. QED BY <1>1, <1>2, <1>4 DEF FlowOK, FlowSteps
<1> HIDE DEF d
<1>6. QED BY <1>3, <1>5, FlowSet

LEMMA ReadIdsOK ==
  ASSUME TypeInv, UNCHANGED area, area = "literature", NEW r \in Requests, ReadIds(r)
  PROVE  CallsOK'
<1> USE DEF TypeInv
<1> DEFINE c == call[r]
           rows == {p \in owner : p[1] \in OpenAlex /\ p[2] \in c.listed}
           d == [c EXCEPT !.op = "titles", !.listed = {}, !.rows = rows]
<1>1. c.op = "cited"
  BY DEF ReadIds, Doing
<1>2. FlowOK(c)
  BY <1>1, FlowOf DEF FlowSteps
<1>3. Proceed(r, d)
  BY DEF ReadIds
<1>4. \A p \in rows : p = <<p[1], p[2]>> /\ p[2] \in Work
  BY DEF TablesOK
<1>5. FlowOK(d)
  <2> HIDE DEF c, rows
  <2>1. QED BY <1>1, <1>2, <1>4 DEF FlowOK, FlowSteps
<1> HIDE DEF d
<1>6. QED BY <1>3, <1>5, FlowSet

(* The steps that write.                                                    *)
LEMMA MakeWorkAdds ==
  ASSUME TypeInv, UNCHANGED area, area = "literature", NEW r \in Requests, MakeWork(r)
  PROVE  Adds /\ CallsOK'
<1> USE DEF TypeInv
<1> DEFINE c == call[r]
           d(w) == [c EXCEPT !.op = "identifiers", !.work = w]
<1>1. c.op = "own work"
  BY DEF MakeWork, Doing
<1>2. FlowOK(c)
  BY <1>1, FlowOf DEF FlowSteps
<1>3. PICK w \in WorkFor(c.make) : Gets(c.make, w) /\ Proceed(r, d(w))
  BY DEF MakeWork
<1>4. w \in Work
  BY <1>3 DEF WorkFor, Owners
<1>5. AddsOwner /\ works \subseteq works' /\ works' \subseteq Work
  BY <1>3, <1>4 DEF WorkFor, Gets, Owners, AddsOwner, TablesOK
<1>6. FlowOK(d(w))
  <2> HIDE DEF c
  <2>1. QED BY <1>1, <1>2, <1>4 DEF FlowOK, FlowSteps
<1>7. UNCHANGED <<redirect, cites, claims, shown, merge>>
  BY DEF MakeWork
<1> HIDE DEF d
<1>8. QED BY <1>3, <1>5, <1>6, <1>7, FlowSet DEF Adds, AddsCites, TablesOK

LEMMA AttachAdds ==
  ASSUME TypeInv, UNCHANGED area, area = "literature", NEW r \in Requests, Attach(r)
  PROVE  Adds /\ CallsOK'
<1> USE DEF TypeInv
<1> DEFINE c == call[r]
           d == [c EXCEPT !.attach = Tail(@)]
<1>1. c.op = "identifiers"
  BY DEF Attach, Doing
<1>2. FlowOK(c)
  BY <1>1, FlowOf DEF FlowSteps
<1>3. Proceed(r, d) /\ UNCHANGED <<works, redirect, cites, claims, shown, merge>>
  BY DEF Attach
<1>4. AddsOwner
  <2>1. c.work \in Work
    BY <1>1, <1>2 DEF FlowOK
  <2>2. QED BY <2>1 DEF Attach, AddsOwner
<1>5. FlowOK(d)
  <2> HIDE DEF c
  <2>1. QED BY <1>1, <1>2 DEF FlowOK, FlowSteps
<1> HIDE DEF d
<1>6. QED BY <1>3, <1>4, <1>5, FlowSet DEF Adds, AddsCites, TablesOK

LEMMA FieldsAdds ==
  ASSUME TypeInv, NEW r \in Requests, RecordFields(r), call[r].work \in Work,
         UNCHANGED <<works, redirect, owner, cites, merge>>
  PROVE  Adds
<1>1. Title \in Values /\ TitleRank \in Ranks
  BY LiteratureAssumption
<1>2. /\ claims' \in Seq(Claim) /\ shown' = [x \in Work |-> shown'[x]]
      /\ Overriding(claims) => Overriding(claims')
  BY <1>1, RecordedAdds DEF RecordFields, TypeInv, TablesOK
<1>3. QED BY <1>2 DEF Adds, AddsCites, AddsOwner, TypeInv, TablesOK

LEMMA FillAdds ==
  ASSUME TypeInv, UNCHANGED area, area = "literature", NEW r \in Requests, FillDisplayFields(r)
  PROVE  Adds /\ CallsOK'
<1> USE DEF TypeInv
<1> DEFINE c == call[r]
           d == [c EXCEPT !.op = "reference", !.left = References[c.provider]]
<1>1. c.op = "fill"
  BY DEF FillDisplayFields, Doing
<1>2. FlowOK(c)
  BY <1>1, FlowOf DEF FlowSteps
<1>3. IF c.provider = None THEN Done(r) ELSE Proceed(r, d)
  BY DEF FillDisplayFields
<1>4. Adds
  BY <1>1, <1>2, FieldsAdds DEF FillDisplayFields, FlowOK
<1>5. c.provider # None => FlowOK(d)
  <2>1. c.provider # None => References[c.provider] \in Seq(OpenAlex)
    BY <1>2, LiteratureAssumption DEF FlowOK
  <2> HIDE DEF c
  <2>2. QED BY <1>1, <1>2, <2>1 DEF FlowOK, FlowSteps
<1> HIDE DEF d
<1>6. QED BY <1>3, <1>4, <1>5, FlowSet, DoneOK

LEMMA ResolveReferenceAdds ==
  ASSUME TypeInv, UNCHANGED area, area = "literature", NEW r \in Requests, ResolveReference(r)
  PROVE  Adds /\ CallsOK'
<1> USE DEF TypeInv
<1> DEFINE c == call[r]
           i == Head(c.left)
           d(w) == [c EXCEPT !.op = "assert", !.cited = w]
<1>1. c.op = "reference" /\ c.left # <<>>
  BY DEF ResolveReference, Doing
<1>2. FlowOK(c)
  BY <1>1, FlowOf DEF FlowSteps
<1>3. PICK w \in WorkFor(i) : Gets(i, w) /\ Proceed(r, d(w))
  BY DEF ResolveReference
<1>4. w \in Work
  BY <1>3 DEF WorkFor, Owners
<1>5. AddsOwner /\ works \subseteq works' /\ works' \subseteq Work
  BY <1>3, <1>4 DEF WorkFor, Gets, Owners, AddsOwner, TablesOK
<1>6. FlowOK(d(w))
  <2> HIDE DEF c
  <2>1. QED BY <1>1, <1>2, <1>4 DEF FlowOK, FlowSteps
<1>7. UNCHANGED <<redirect, cites, claims, shown, merge>>
  BY DEF ResolveReference
<1> HIDE DEF d
<1>8. QED BY <1>3, <1>5, <1>6, <1>7, FlowSet DEF Adds, AddsCites, TablesOK

LEMMA AssertReferenceAdds ==
  ASSUME TypeInv, UNCHANGED area, area = "literature", NEW r \in Requests, AssertReference(r)
  PROVE  Adds /\ CallsOK'
<1> USE DEF TypeInv
<1> DEFINE c == call[r]
           d == [c EXCEPT !.op = "reference", !.left = Tail(@), !.cited = None]
<1>1. c.op = "assert"
  BY DEF AssertReference, Doing
<1>2. FlowOK(c)
  BY <1>1, FlowOf DEF FlowSteps
<1>3. Proceed(r, d) /\ UNCHANGED <<works, redirect, owner, claims, shown, merge>>
  BY DEF AssertReference
<1>4. c.work \in Work /\ c.cited \in Work /\ c.left # <<>> /\ c.left \in Seq(OpenAlex)
  BY <1>1, <1>2 DEF FlowOK
<1>5. AddsCites
  BY <1>4 DEF AssertReference, AddsCites, Free
<1>6. Tail(c.left) \in Seq(OpenAlex)
  BY <1>4, TailOK
<1>7. FlowOK(d)
  <2> HIDE DEF c
  <2>1. QED BY <1>1, <1>2, <1>6 DEF FlowOK, FlowSteps
<1> HIDE DEF d
<1>8. QED BY <1>3, <1>5, <1>7, FlowSet DEF Adds, AddsOwner, TablesOK

LEMMA HydrateAdds ==
  ASSUME TypeInv, UNCHANGED area, area = "literature", NEW r \in Requests, Hydrate(r)
  PROVE  Adds /\ CallsOK'
<1> USE DEF TypeInv
<1> DEFINE c == call[r]
           d(p) == [c EXCEPT !.op = "title", !.work = p[2], !.rows = @ \ {p}]
<1>1. c.op = "titles"
  BY DEF Hydrate, Doing
<1>2. FlowOK(c)
  BY <1>1, FlowOf DEF FlowSteps
<1>3. CASE Done(r) /\ NoOther
  BY <1>3, DoneOK, WorksKeptAdds DEF NoOther
<1>4. ASSUME NEW p \in c.rows, Proceed(r, d(p)),
             owner' = IF RecordDoi[p[1]] = None \/ Owners(RecordDoi[p[1]], owner) # {} THEN owner
                      ELSE owner \cup {<<RecordDoi[p[1]], p[2]>>},
             UNCHANGED <<works, redirect, cites, claims, shown, merge>>
      PROVE  Adds /\ CallsOK'
  <2>1. p[2] \in Work
    BY <1>2 DEF FlowOK
  <2>2. AddsOwner
    BY <1>4, <2>1 DEF AddsOwner
  <2>3. FlowOK(d(p))
    <3> HIDE DEF c
    <3>1. QED BY <1>1, <1>2, <2>1 DEF FlowOK, FlowSteps
  <2> HIDE DEF d
  <2>4. QED BY <1>4, <2>2, <2>3, FlowSet DEF Adds, AddsCites, TablesOK
<1>5. QED BY <1>3, <1>4 DEF Hydrate

LEMMA LiteratureAdds ==
  ASSUME TypeInv, UNCHANGED area, area = "literature", NEW r \in Requests, LiteratureStep(r)
  PROVE  Adds /\ CallsOK' /\ linked' \in [DocumentIds -> Work \cup {None}]
<1> USE DEF TypeInv
<1>0. linked \in [DocumentIds -> Work \cup {None}]
  BY DEF RowsOK
<1>1. CASE StartFlow(r)
  BY <1>0, <1>1, StartFlowOK, WorksKeptAdds DEF StartFlow, NoOther, documentsVars
<1>2. CASE LookUpProvider(r)
  BY <1>0, <1>2, LookUpProviderOK, WorksKeptAdds DEF LookUpProvider, NoOther, documentsVars
<1>3. CASE SearchTitle(r)
  BY <1>0, <1>3, SearchTitleOK, WorksKeptAdds DEF SearchTitle, NoOther, documentsVars
<1>4. CASE FindWork(r)
  BY <1>0, <1>4, FindWorkOK, WorksKeptAdds DEF FindWork, NoOther, documentsVars
<1>5. CASE MakeWork(r)
  BY <1>0, <1>5, MakeWorkAdds DEF MakeWork, documentsVars
<1>6. CASE Attach(r)
  BY <1>0, <1>6, AttachAdds DEF Attach, documentsVars
<1>7. CASE Attached(r)
  BY <1>0, <1>7, AttachedOK, WorksKeptAdds DEF Attached, NoOther, documentsVars
<1>8. CASE LinkDocument(r)
  <2> DEFINE c == call[r]
             d == [c EXCEPT !.op = "fill"]
  <2>1. c.op = "linking" /\ Proceed(r, d) /\ WorksKept
    BY <1>8 DEF LinkDocument, Doing, Step
  <2>2. FlowOK(c)
    BY <2>1, FlowOf DEF FlowSteps
  <2>3. c.work \in Work
    BY <2>1, <2>2 DEF FlowOK
  <2>4. FlowOK(d)
    <3> HIDE DEF c
    <3>1. QED BY <2>1, <2>2 DEF FlowOK, FlowSteps
  <2>5. linked' = [linked EXCEPT ![DocumentOf[c.paper]] = c.work]
    BY <1>8 DEF LinkDocument
  <2> HIDE DEF c, d
  <2>6. QED BY <1>0, <2>1, <2>3, <2>4, <2>5, FlowSet, WorksKeptAdds
<1>9. CASE FillDisplayFields(r)
  BY <1>0, <1>9, FillAdds DEF FillDisplayFields, documentsVars
<1>10. CASE ResolveReference(r)
  BY <1>0, <1>10, ResolveReferenceAdds DEF ResolveReference, documentsVars
<1>11. CASE AssertReference(r)
  BY <1>0, <1>11, AssertReferenceAdds DEF AssertReference, documentsVars
<1>12. CASE ReadCited(r)
  BY <1>0, <1>12, ReadCitedOK, WorksKeptAdds DEF ReadCited, NoOther, documentsVars
<1>13. CASE ReadIds(r)
  BY <1>0, <1>13, ReadIdsOK, WorksKeptAdds DEF ReadIds, NoOther, documentsVars
<1>14. CASE Hydrate(r)
  BY <1>0, <1>14, HydrateAdds DEF Hydrate, NoOther, documentsVars
<1>15. CASE RecordSummary(r)
  <2> DEFINE c == call[r]
             d == [c EXCEPT !.op = "titles"]
  <2>1. /\ c.op = "title" /\ Proceed(r, d) /\ RecordFields(r)
        /\ UNCHANGED <<works, redirect, owner, cites, merge, linked>>
    BY <1>15 DEF RecordSummary, Doing, Step, documentsVars
  <2>2. FlowOK(c)
    BY <2>1, FlowOf DEF FlowSteps
  <2>3. c.work \in Work
    BY <2>1, <2>2 DEF FlowOK
  <2>4. FlowOK(d)
    <3> HIDE DEF c
    <3>1. QED BY <2>1, <2>2 DEF FlowOK, FlowSteps
  <2>5. Adds
    BY <2>1, <2>3, FieldsAdds
  <2> HIDE DEF c, d
  <2>6. QED BY <1>0, <2>1, <2>4, <2>5, FlowSet
<1>16. CASE EndFlow(r)
  BY <1>0, <1>16, DoneOK, WorksKeptAdds DEF EndFlow, NoOther, documentsVars
<1>17. QED
  BY <1>1, <1>2, <1>3, <1>4, <1>5, <1>6, <1>7, <1>8, <1>9, <1>10, <1>11, <1>12, <1>13, <1>14,
     <1>15, <1>16 DEF LiteratureStep

-----------------------------------------------------------------------------
(* Merges.                                                                  *)
LEMMA OpenAdds ==
  ASSUME TypeInv, UNCHANGED area, MergeStep
  PROVE  Adds /\ CallsOK'
<1>1. PICK from \in Work, into \in Work : MergeWork(from, into)
  BY DEF MergeStep
<1>2. Opens(from, into) /\ UNCHANGED <<works, redirect, owner, cites, claims, shown, call>>
  BY <1>1 DEF MergeWork, Opens
<1>3. QED BY <1>2, CallKept DEF Adds, AddsCites, AddsOwner, TypeInv, TablesOK

LEMMA MoveItemsAdds ==
  ASSUME TypeInv, UNCHANGED area, MoveItems
  PROVE  Adds /\ CallsOK' /\ RampsOK'
<1>1. UNCHANGED <<works, redirect, owner, cites, claims, shown, call, seed, items, rampLock>>
  BY DEF MoveItems
<1>2. Merging /\ merge'.at = "moved" /\ merge'.from = merge.from /\ merge'.into = merge.into
  BY DEF MoveItems, Merging
<1>3. QED BY <1>1, <1>2, CallKept DEF Adds, AddsCites, AddsOwner, TypeInv, TablesOK, RampsOK

LEMMA MergeIs ==
  ASSUME TypeInv, merge # NoMerge
  PROVE  /\ merge.from \in Work /\ merge.into \in Work /\ merge.from # merge.into
         /\ redirect[merge.from] = None /\ redirect[merge.into] = None
         /\ ~Cites(merge.from, merge.into)
         /\ Locked = {merge.from, merge.into}
         /\ \A w \in Work : To(w) \in Work /\ To(w) # merge.from
BY DEF TypeInv, MergeOK, TablesOK, Locked, To

(* After a merge a Work leads where it led, or to the survivor.             *)
LEMMA FollowMoves ==
  ASSUME TypeInv, merge # NoMerge, MoveRedirects, NEW w \in Work
  PROVE  /\ Follow(redirect', w) = To(Follow(redirect, w))
         /\ Follow(redirect', To(w)) = To(Follow(redirect, w))
<1>1. /\ merge.from \in Work /\ merge.into \in Work /\ merge.from # merge.into
      /\ redirect[merge.from] = None /\ redirect[merge.into] = None
  BY MergeIs
<1>2. redirect' = [v \in Work |-> IF v = merge.from THEN merge.into
                                  ELSE IF redirect[v] = merge.from THEN merge.into
                                  ELSE redirect[v]]
  BY DEF MoveRedirects
<1>3. None \notin Work
  BY WorksAssumption
<1>4. Follow(redirect', w) = To(Follow(redirect, w))
  BY <1>1, <1>2, <1>3 DEF Follow, To
<1>5. To(w) = w \/ (w = merge.from /\ To(w) = merge.into)
  BY DEF To
<1>6. Follow(redirect', merge.into) = merge.into /\ To(Follow(redirect, merge.from)) = merge.into
  BY <1>1, <1>2, <1>3 DEF Follow, To
<1>7. QED BY <1>4, <1>5, <1>6

LEMMA RedirectsMove ==
  ASSUME TypeInv, merge # NoMerge, MoveRedirects
  PROVE  redirect' \in [Work -> Work \cup {None}] /\ RedirectsFlat'
<1>1. /\ merge.from \in Work /\ merge.into \in Work /\ merge.from # merge.into
      /\ redirect[merge.from] = None /\ redirect[merge.into] = None
  BY MergeIs
<1>2. redirect' = [v \in Work |-> IF v = merge.from THEN merge.into
                                  ELSE IF redirect[v] = merge.from THEN merge.into
                                  ELSE redirect[v]]
  BY DEF MoveRedirects
<1>3. None \notin Work /\ redirect \in [Work -> Work \cup {None}] /\ RedirectsFlat
  BY WorksAssumption DEF TypeInv, TablesOK
<1>4. redirect' \in [Work -> Work \cup {None}]
  BY <1>1, <1>2, <1>3
<1>5. ASSUME NEW w \in Work, redirect'[w] # None PROVE redirect'[redirect'[w]] = None
  BY <1>1, <1>2, <1>3, <1>5 DEF RedirectsFlat
<1>6. QED BY <1>4, <1>5 DEF RedirectsFlat

LEMMA ClaimsMove ==
  ASSUME TypeInv, merge # NoMerge, MoveClaims
  PROVE  /\ claims' \in Seq(Claim) /\ shown' = [w \in Work |-> shown'[w]]
         /\ Overriding(claims) => Overriding(claims')
<1> DEFINE kept == IF Overrides(claims, merge.into) = {} THEN claims
                   ELSE Retract(claims, Overrides(claims, merge.from))
<1>1. /\ merge.from \in Work /\ merge.into \in Work /\ merge.from # merge.into
      /\ \A w \in Work : To(w) \in Work
  BY MergeIs
<1>2. claims \in Seq(Claim)
  BY DEF TypeInv, TablesOK
<1>3. /\ kept \in Seq(Claim)
      /\ \A w : Overrides(kept, w) \subseteq Overrides(claims, w)
      /\ Overrides(kept, merge.into) = {} \/ Overrides(kept, merge.from) = {}
  <2>1. CASE Overrides(claims, merge.into) = {}
    BY <1>2, <2>1
  <2>2. CASE Overrides(claims, merge.into) # {}
    BY <1>2, <2>2, RetractClaims
  <2>3. QED BY <2>1, <2>2
<1>4. /\ claims' = [i \in DOMAIN kept |-> [kept[i] EXCEPT !.work = To(@)]]
      /\ shown' = Reselect(claims', merge.into)
  BY DEF MoveClaims
<1> HIDE DEF kept
<1>5. \A i \in DOMAIN kept : kept[i] \in Claim
  BY <1>3
<1>6. \A c \in Claim : /\ [c EXCEPT !.work = To(@)] \in Claim
                       /\ [c EXCEPT !.work = To(@)].work = To(c.work)
                       /\ [c EXCEPT !.work = To(@)].rank = c.rank
                       /\ [c EXCEPT !.work = To(@)].retracted = c.retracted
  BY <1>1 DEF Claim
<1>7. ASSUME NEW i \in DOMAIN kept
      PROVE  /\ claims'[i] \in Claim /\ claims'[i].work = To(kept[i].work)
             /\ claims'[i].rank = kept[i].rank /\ claims'[i].retracted = kept[i].retracted
  <2> DEFINE c == kept[i]
  <2>1. c \in Claim /\ claims'[i] = [c EXCEPT !.work = To(@)]
    BY <1>4, <1>5
  <2> HIDE DEF c
  <2>2. /\ claims'[i] \in Claim /\ claims'[i].work = To(c.work)
        /\ claims'[i].rank = c.rank /\ claims'[i].retracted = c.retracted
    BY <1>6, <2>1
  <2>3. QED BY <2>2 DEF c
<1>8. claims' = [i \in DOMAIN kept |-> claims'[i]] /\ DOMAIN claims' = DOMAIN kept
  BY <1>4
<1>9. claims' \in Seq(Claim)
  BY <1>3, <1>7, <1>8, MapSeq
<1>10. ASSUME Overriding(claims), NEW w \in Work,
              NEW i \in Overrides(claims', w), NEW j \in Overrides(claims', w)
       PROVE  i = j
  <2>1. \A k \in Overrides(claims', w) :
           \/ k \in Overrides(kept, w)
           \/ w = merge.into /\ k \in Overrides(kept, merge.from)
    BY <1>7, <1>8 DEF Overrides, About, To
  <2>2. \A v \in Work : \A k, m \in Overrides(kept, v) : k = m
    BY <1>3, <1>10 DEF Overriding
  <2>3. QED BY <1>1, <1>3, <2>1, <2>2
<1>11. QED BY <1>4, <1>9, <1>10, ReselectOK DEF Overriding, TypeInv

LEMMA MovedOK ==
  ASSUME TypeInv, merge # NoMerge, NEW p \in RampIds, NEW w \in On(p)
  PROVE  /\ Moved(p, w) \in Item /\ Moved(p, w).position = items[p][w].position
         /\ \A i \in DOMAIN Moved(p, w).path :
              i \in DOMAIN items[p][w].path /\ Moved(p, w).path[i] \in
                {items[p][w].path[i], To(items[p][w].path[i])}
         /\ Len(Moved(p, w).path) = Len(items[p][w].path)
<1> DEFINE it == items[p][w]
           moved == [it EXCEPT !.via = IF @ = None THEN None ELSE To(@),
                               !.path = [i \in DOMAIN @ |-> To(@[i])]]
           route == [i \in DOMAIN it.path |-> To(it.path[i])]
<1>1. it \in Item
  BY DEF TypeInv, RampsOK, ItemsOK, ListOK, On
<1>2. it.path \in Seq(Work) /\ it.via \in Work \cup {None} /\ it.position \in Nat
  BY <1>1 DEF Item
<1>3. \A v \in Work : To(v) \in Work
  BY MergeIs
<1>4. /\ route \in Seq(Work) /\ Len(route) = Len(it.path) /\ DOMAIN route = DOMAIN it.path
      /\ \A i \in DOMAIN route : route[i] = To(it.path[i])
  <2> HIDE DEF it
  <2>1. \A i \in DOMAIN it.path : it.path[i] \in Work
    BY <1>2
  <2>2. DOMAIN route = DOMAIN it.path /\ \A i \in DOMAIN route : route[i] = To(it.path[i])
    OBVIOUS
  <2>3. route = [i \in DOMAIN it.path |-> route[i]] /\ \A i \in DOMAIN it.path : route[i] \in Work
    BY <1>3, <2>1
  <2>4. route \in Seq(Work)
    <3> DEFINE cs == it.path
    <3>1. cs \in Seq(Work) /\ route = [i \in DOMAIN cs |-> route[i]] /\ \A i \in DOMAIN cs : route[i] \in Work
      BY <1>2, <2>3
    <3> HIDE DEF cs, route
    <3>2. QED BY <3>1, MapSeq
  <2> HIDE DEF route
  <2>5. QED BY <1>2, <2>2, <2>4
<1>5. moved = [it EXCEPT !.via = IF @ = None THEN None ELSE To(@), !.path = route]
  OBVIOUS
<1>6. Moved(p, w) = it \/ Moved(p, w) = moved
  BY DEF Moved, Repointed
<1> HIDE DEF it, route, moved
<1>7. moved \in Item /\ moved.position = it.position /\ moved.path = route
  BY <1>1, <1>2, <1>3, <1>4, <1>5 DEF Item
<1>8. QED BY <1>1, <1>4, <1>6, <1>7 DEF it

LEMMA ItemsMove ==
  ASSUME TypeInv, merge # NoMerge, MoveRamps
  PROVE  RampsOK'
<1>1. /\ merge.from \in Work /\ merge.into \in Work
      /\ \A w \in Work : To(w) \in Work
  BY MergeIs
<1>2. /\ seed \in [RampIds -> Work \cup {None}]
      /\ rampLock \in [RampIds -> Requests \cup {None}]
      /\ \A p \in RampIds : ListOK(items[p])
  BY DEF TypeInv, RampsOK, ItemsOK
<1>3. ASSUME NEW p \in RampIds PROVE ListOK(ItemsAfter(p))
  <2> DEFINE from(w) == IF merge.from \notin On(p) \/ p \in merge.drop THEN w
                        ELSE IF w = merge.into THEN merge.from ELSE w
             f == ItemsAfter(p)
  <2>1. /\ DOMAIN f \subseteq On(p) \cup {merge.into}
        /\ \A w \in DOMAIN f : from(w) \in On(p) /\ f[w] = Moved(p, from(w))
        /\ f = [w \in DOMAIN f |-> f[w]]
    BY DEF ItemsAfter, Stays
  <2> HIDE DEF f, from
  <2>2. DOMAIN f \subseteq Work /\ IsFiniteSet(DOMAIN f)
    <3>1. On(p) \subseteq Work /\ IsFiniteSet(On(p))
      BY <1>2 DEF ListOK, On
    <3>2. IsFiniteSet(On(p) \cup {merge.into})
      BY <3>1, FS_AddElement
    <3>3. QED BY <1>1, <2>1, <3>1, <3>2, FS_Subset
  <2>3. PICK n \in Nat : \A w \in On(p) : items[p][w].position < n
    BY <1>2 DEF ListOK, On
  <2>4. \A w \in DOMAIN f : f[w] \in Item /\ f[w].position < n
    BY <2>1, <2>3, MovedOK
  <2>5. f \in [DOMAIN f -> Item]
    BY <2>1, <2>4
  <2>6. QED BY <2>2, <2>3, <2>4, <2>5 DEF ListOK, f
<1>4. ItemsOK(items')
  BY <1>3 DEF MoveRamps, ItemsOK
<1>5. seed' \in [RampIds -> Work \cup {None}] /\ rampLock' = rampLock
  BY <1>1, <1>2 DEF MoveRamps
<1>6. QED BY <1>2, <1>4, <1>5 DEF RampsOK

LEMMA CommitOK ==
  ASSUME TypeInv, UNCHANGED area, Commit
  PROVE  TypeInv' /\ (Overriding(claims) => Overriding(claims'))
<1>1. /\ merge # NoMerge /\ MoveRedirects /\ RepointAssertions /\ MoveIdentifiers /\ MoveClaims
      /\ merge' = NoMerge /\ UNCHANGED <<works, call>>
      /\ MoveCuration /\ MoveRamps /\ MoveDocuments /\ MoveResolutions
  BY DEF Commit, CommitWorks
<1>2. /\ merge.from \in Work /\ merge.into \in Work
      /\ \A w \in Work : To(w) \in Work
  BY <1>1, MergeIs
<1>3. owner' = {<<p[1], To(p[2])>> : p \in owner} /\ cites' = {<<To(p[1]), To(p[2])>> : p \in cites}
  BY <1>1 DEF MoveIdentifiers, RepointAssertions
<1>4. \A p \in owner' : p = <<p[1], p[2]>> /\ p[2] \in Work
  BY <1>2, <1>3 DEF TypeInv, TablesOK
<1>5. cites' \subseteq Work \X Work
  BY <1>2, <1>3 DEF TypeInv, TablesOK
<1>6. TablesOK'
  BY <1>1, <1>4, <1>5, RedirectsMove, ClaimsMove DEF TypeInv, TablesOK
<1>7. RowsOK'
  <2>1. mark' \in [Work -> Marks \cup {None}]
    BY <1>1, <1>2 DEF MoveCuration, TypeInv, RowsOK
  <2>2. tags' \subseteq Tags /\ tagged' \subseteq Work \X Tags
    BY <1>1, <1>2 DEF MoveCuration, TypeInv, RowsOK
  <2>3. linked' \in [DocumentIds -> Work \cup {None}]
    BY <1>1, <1>2 DEF MoveDocuments, TypeInv, RowsOK
  <2>4. accepted' \in [Entries -> Work \cup {None}] /\ how' = [e \in Entries |-> how'[e]]
    BY <1>1, <1>2 DEF MoveResolutions, TypeInv, RowsOK
  <2>5. QED BY <2>1, <2>2, <2>3, <2>4 DEF RowsOK
<1>8. MergeOK'
  BY <1>1 DEF MergeOK
<1>9. QED
  BY <1>1, <1>6, <1>7, <1>8, RedirectsMove, ClaimsMove, ItemsMove, CallKept DEF TypeInv

(* Every other step.                                                        *)
LEMMA AddsKeeps ==
  ASSUME TypeInv, Adds
  PROVE  TablesOK' /\ MergeOK' /\ RedirectsFlat'
<1>1. cites' \subseteq Work \X Work
  BY DEF TypeInv, TablesOK, Adds, AddsCites
<1>2. \A p \in owner' : p = <<p[1], p[2]>> /\ p[2] \in Work
  BY DEF TypeInv, TablesOK, Adds, AddsOwner
<1>3. TablesOK'
  BY <1>1, <1>2 DEF TypeInv, TablesOK, Adds
<1>4. MergeOK'
  <2>1. CASE merge = NoMerge /\ merge' = NoMerge
    BY <2>1 DEF MergeOK
  <2>2. CASE merge' = NoMerge
    BY <2>2 DEF MergeOK
  <2>3. ASSUME NEW from \in Work, NEW into \in Work, Opens(from, into), cites' = cites PROVE MergeOK'
    BY <2>3 DEF Opens, OpenMerge, Mergeable, MergeOK, Merging, Cites, Adds
  <2>4. ASSUME merge # NoMerge, merge' = merge \/ (merge'.at = "moved" /\ merge'.from = merge.from /\ merge'.into = merge.into)
        PROVE  MergeOK'
    <3>1. ~Cites(merge.from, merge.into)'
      BY <2>4, MergeIs DEF Adds, AddsCites, Cites
    <3>2. QED BY <2>4, <3>1 DEF TypeInv, MergeOK, Merging, Adds
  <2>5. QED BY <2>1, <2>2, <2>3, <2>4 DEF Adds, Merging, NoMerge
<1>5. QED BY <1>3, <1>4 DEF Adds, TypeInv, RedirectsFlat

LEMMA NextAdds ==
  ASSUME TypeInv, CatalogNext
  PROVE  /\ UNCHANGED area
         /\ Commit \/ (Adds /\ CallsOK' /\ RowsOK' /\ RampsOK')
<1>0. UNCHANGED area /\ RowsOK /\ RampsOK
  BY DEF CatalogNext, TypeInv
<1>1. ASSUME NEW r \in Requests, Write(r) PROVE Adds /\ CallsOK' /\ RowsOK' /\ RampsOK'
  <2>1. CASE (IdentityStep(r) \/ CitationStep(r) \/ ClaimStep(r)) /\ UNCHANGED <<curationVars, rampsVars, Others>>
    <3>1. Adds /\ CallsOK'
      BY <1>0, <2>1, IdentityAdds, CitationAdds, ClaimAdds
    <3>2. QED BY <1>0, <2>1, <3>1 DEF curationVars, rampsVars, Others, documentsVars, evidenceVars, RowsOK, RampsOK
  <2>2. CASE (CurationStep(r) \/ TagStep) /\ UNCHANGED <<rampsVars, Others>>
    <3>1. /\ Adds /\ CallsOK'
          /\ mark' \in [Work -> Marks \cup {None}]
          /\ tags' \subseteq Tags /\ tagged' \subseteq Work \X Tags
      BY <1>0, <2>2, CurationAdds, TagAdds
    <3>2. QED BY <1>0, <2>2, <3>1 DEF rampsVars, Others, documentsVars, evidenceVars, RowsOK, RampsOK
  <2>3. CASE area = "ramps" /\ (RampsStep(r) \/ DeleteStep) /\ UNCHANGED <<curationVars, Others>>
    <3>1. Adds /\ CallsOK' /\ RampsOK'
      BY <1>0, <2>3, RampsAdds, DeleteAdds
    <3>2. QED BY <1>0, <2>3, <3>1 DEF curationVars, Others, documentsVars, evidenceVars, RowsOK
  <2>4. CASE (DocumentsStep(r) \/ EditLibrary) /\ UNCHANGED <<curationVars, rampsVars, evidenceVars>>
    <3>1. Adds /\ CallsOK' /\ linked' \in [DocumentIds -> Work \cup {None}]
      BY <1>0, <2>4, DocumentsAdds, LibraryAdds DEF RowsOK
    <3>2. QED BY <1>0, <2>4, <3>1 DEF curationVars, rampsVars, evidenceVars, RowsOK, RampsOK
  <2>5. CASE area = "evidence" /\ EvidenceStep(r) /\ UNCHANGED <<curationVars, rampsVars>>
    <3>1. /\ Adds /\ CallsOK'
          /\ accepted' \in [Entries -> Work \cup {None}] /\ how' = [e \in Entries |-> how'[e]]
      BY <1>0, <2>5, EvidenceAdds
    <3>2. UNCHANGED documentsVars
      BY <2>5 DEF EvidenceStep, StartRun, ResolveEntry, FoldStub, StubFolded, CreateStub,
                  RecordResolution, AttachIdentifiers, AddEntryAssertion, RecordEntryClaims, EndRun
    <3>3. QED BY <1>0, <2>5, <3>1, <3>2 DEF curationVars, rampsVars, documentsVars, RowsOK, RampsOK
  <2>6. CASE area = "literature" /\ LiteratureStep(r) /\ UNCHANGED <<curationVars, rampsVars, evidenceVars>>
    <3>1. Adds /\ CallsOK' /\ linked' \in [DocumentIds -> Work \cup {None}]
      BY <1>0, <2>6, LiteratureAdds
    <3>2. QED BY <1>0, <2>6, <3>1 DEF curationVars, rampsVars, evidenceVars, RowsOK, RampsOK
  <2>7. QED BY <1>1, <2>1, <2>2, <2>3, <2>4, <2>5, <2>6 DEF Write
<1>2. CASE MergeStep /\ UNCHANGED <<curationVars, rampsVars, Others>>
  <2>1. Adds /\ CallsOK'
    BY <1>0, <1>2, OpenAdds
  <2>2. QED BY <1>0, <1>2, <2>1 DEF curationVars, rampsVars, Others, documentsVars, evidenceVars, RowsOK, RampsOK
<1>3. CASE MoveItems /\ UNCHANGED <<curationVars, Others>>
  <2>1. Adds /\ CallsOK' /\ RampsOK'
    BY <1>0, <1>3, MoveItemsAdds
  <2>2. QED BY <1>0, <1>3, <2>1 DEF curationVars, Others, documentsVars, evidenceVars, RowsOK
<1>4. QED BY <1>0, <1>1, <1>2, <1>3 DEF CatalogNext

LEMMA TypeInit == CatalogInit => TypeInv
<1> SUFFICES ASSUME CatalogInit PROVE TypeInv
  OBVIOUS
<1>1. /\ works = Initially /\ redirect = [w \in Work |-> None] /\ owner = {} /\ cites = Known
      /\ claims = <<>> /\ shown = [w \in Work |-> [value |-> None, state |-> "unknown"]]
      /\ call = [r \in Requests |-> Idle] /\ merge = NoMerge
  BY DEF CatalogInit, WorksInit
<1>2. TablesOK
  BY <1>1, WorksAssumption DEF TablesOK
<1>3. RowsOK
  BY DEF CatalogInit, CurationInit, DocumentsInit, EvidenceInit, RowsOK
<1>4. RampsOK
  <2>1. ListOK(NoItems)
    BY FS_EmptySet DEF ListOK, NoItems
  <2>2. QED BY <2>1 DEF CatalogInit, RampsInit, RampsOK, ItemsOK
<1>5. CallsOK
  BY <1>1, IdleOK DEF CallsOK
<1>6. MergeOK /\ RedirectsFlat
  BY <1>1 DEF MergeOK, RedirectsFlat
<1>7. QED BY <1>2, <1>3, <1>4, <1>5, <1>6 DEF TypeInv

LEMMA TypeNext == TypeInv /\ [CatalogNext]_catalogVars => TypeInv'
<1> SUFFICES ASSUME TypeInv, [CatalogNext]_catalogVars PROVE TypeInv'
  OBVIOUS
<1>1. CASE CatalogNext
  BY <1>1, NextAdds, AddsKeeps, CommitOK DEF TypeInv
<1>2. CASE UNCHANGED catalogVars
  <2>1. UNCHANGED <<worksVars, curationVars, rampsVars, documentsVars, evidenceVars, area>>
    BY <1>2 DEF catalogVars
  <2>2. TablesOK' /\ MergeOK' /\ RedirectsFlat' /\ CallsOK'
    BY <2>1, CallKept DEF worksVars, TypeInv, TablesOK, MergeOK, Merging, Cites, RedirectsFlat
  <2>3. RowsOK' /\ RampsOK'
    BY <2>1 DEF curationVars, rampsVars, documentsVars, evidenceVars, TypeInv, RowsOK, RampsOK
  <2>4. QED BY <2>2, <2>3 DEF TypeInv
<1>3. QED BY <1>1, <1>2

-----------------------------------------------------------------------------
(* The items of the ramps.  Works a and b are joined when a citation leads  *)
(* from where a leads to where b leads; a path of an item ends where the    *)
(* Work of the item leads, and its steps are joined.                        *)
Joined(rd, cs, a, b) ==
  \E c \in cs : Follow(rd, c[1]) = Follow(rd, a) /\ Follow(rd, c[2]) = Follow(rd, b)

Linked(rd, cs, a, b) == Follow(rd, a) = Follow(rd, b) \/ Joined(rd, cs, a, b)

LeadsTo(rd, cs, route, w) ==
  /\ route # <<>>
  /\ \A i \in 1 .. Len(route) - 1 : Linked(rd, cs, route[i], route[i + 1])
  /\ Follow(rd, route[Len(route)]) = Follow(rd, w)

GoodList(rd, cs, f) ==
  /\ \A v, w \in DOMAIN f : f[v].position = f[w].position => v = w
  /\ \A w \in DOMAIN f : LeadsTo(rd, cs, f[w].path, w)

RampsInv ==
  /\ \A p \in RampIds : /\ GoodList(redirect, cites, items[p])
                        /\ seed[p] = None => On(p) = {}
  /\ \A r \in Requests :
       /\ Doing(r, "adding") => LeadsTo(redirect, cites, call[r].path, call[r].work)
       /\ call[r].op \in {"adding", "removing"} =>
            rampLock[call[r].ramp] = r /\ Exists(call[r].ramp)

LEMMA JoinedGrows ==
  ASSUME NEW cs, NEW ds, cs \subseteq ds, NEW rd
  PROVE  /\ \A a, b : Joined(rd, cs, a, b) => Joined(rd, ds, a, b)
         /\ \A route, w : LeadsTo(rd, cs, route, w) => LeadsTo(rd, ds, route, w)
         /\ \A f : GoodList(rd, cs, f) => GoodList(rd, ds, f)
<1>1. ASSUME NEW a, NEW b, Joined(rd, cs, a, b) PROVE Joined(rd, ds, a, b)
  BY <1>1 DEF Joined
<1>2. ASSUME NEW route, NEW w, LeadsTo(rd, cs, route, w) PROVE LeadsTo(rd, ds, route, w)
  BY <1>1, <1>2 DEF LeadsTo, Linked
<1>3. QED BY <1>1, <1>2 DEF GoodList

LEMMA CitesGrow ==
  ASSUME Adds
  PROVE  redirect' = redirect /\ cites \subseteq cites'
BY DEF Adds, AddsCites

(* Nothing about the ramps changes but what the steps of the ramps and the  *)
(* commit of a merge change.                                                *)
LEMMA RampsIdle ==
  ASSUME TypeInv, RampsInv, Adds, CallsOK', UNCHANGED <<area, rampLock, items, seed>>,
         area = "ramps" => UNCHANGED call
  PROVE  RampsInv'
<1>1. redirect' = redirect /\ cites \subseteq cites'
  BY CitesGrow
<1>2. ASSUME NEW p \in RampIds
      PROVE  GoodList(redirect', cites', items'[p]) /\ (seed'[p] = None => On(p)' = {})
  BY <1>1, JoinedGrows DEF RampsInv, On
<1>3. ASSUME NEW r \in Requests
      PROVE  /\ call'[r].op = "adding" => LeadsTo(redirect', cites', call'[r].path, call'[r].work)
             /\ call'[r].op \in {"adding", "removing"} =>
                  rampLock'[call'[r].ramp] = r /\ seed'[call'[r].ramp] # None
  <2>1. CASE area = "ramps"
    <3>1. call' = call
      BY <2>1
    <3>2. call[r].op = "adding" => LeadsTo(redirect', cites', call[r].path, call[r].work)
      BY <1>1, JoinedGrows DEF RampsInv, Doing
    <3>3. QED BY <3>1, <3>2 DEF RampsInv, Exists
  <2>2. CASE area # "ramps"
    <3>1. call'[r].op \notin {"adding", "removing"}
      BY <2>2 DEF CallsOK, CallOK, InArea
    <3>2. QED BY <3>1
  <2>3. QED BY <2>1, <2>2
<1>4. QED BY <1>2, <1>3 DEF RampsInv, Doing, Exists

LEMMA OneList ==
  ASSUME TypeInv, RampsInv, NEW p, NEW f,
         UNCHANGED <<redirect, cites>>,
         items' = items \/ (items' = [items EXCEPT ![p] = f]
                              /\ (p \in RampIds => GoodList(redirect, cites, f)))
  PROVE  \A q \in RampIds : GoodList(redirect', cites', items'[q])
<1>1. \A q \in RampIds : GoodList(redirect, cites, items[q])
  BY DEF RampsInv
<1>2. items = [q \in RampIds |-> items[q]]
  BY DEF TypeInv, RampsOK, ItemsOK
<1>3. QED BY <1>1, <1>2

LEMMA ExtendGood ==
  ASSUME NEW rd, NEW cs, NEW g, GoodList(rd, cs, g), NEW w, NEW item, NEW f,
         f = [v \in DOMAIN g \cup {w} |-> IF v = w THEN item ELSE g[v]],
         \A v \in DOMAIN g : g[v].position # item.position,
         LeadsTo(rd, cs, item.path, w)
  PROVE  GoodList(rd, cs, f)
BY DEF GoodList

LEMMA ShrinkGood ==
  ASSUME NEW rd, NEW cs, NEW g, GoodList(rd, cs, g), NEW S, NEW f, f = [v \in DOMAIN g \ S |-> g[v]]
  PROVE  GoodList(rd, cs, f)
BY DEF GoodList

LEMMA WithGood ==
  ASSUME TypeInv, RampsInv, UNCHANGED <<redirect, cites>>, NEW p \in RampIds, NEW w, NEW item,
         items' = items \/ items' = With(p, w, item),
         \A v \in On(p) : items[p][v].position # item.position,
         LeadsTo(redirect, cites, item.path, w)
  PROVE  \A q \in RampIds : GoodList(redirect', cites', items'[q])
<1> DEFINE g == items[p]
           f == [v \in On(p) \cup {w} |-> IF v = w THEN item ELSE items[p][v]]
<1>1. /\ f = [v \in DOMAIN g \cup {w} |-> IF v = w THEN item ELSE g[v]]
      /\ \A v \in DOMAIN g : g[v].position # item.position
      /\ GoodList(redirect, cites, g)
  BY DEF On, RampsInv
<1>2. GoodList(redirect, cites, f)
  <2> HIDE DEF f, g
  <2>1. QED BY <1>1, ExtendGood
<1>3. items' = items \/ items' = [items EXCEPT ![p] = f]
  BY DEF With
<1> HIDE DEF f, g
<1>4. CASE items' = items
  BY <1>4 DEF RampsInv
<1>5. CASE items' = [items EXCEPT ![p] = f]
  BY <1>2, <1>5, OneList
<1>6. QED BY <1>3, <1>4, <1>5

LEMMA RampCalls ==
  ASSUME CallsOK, RampsInv, NEW r \in Requests, NEW c, UNCHANGED <<redirect, cites>>,
         call' = [call EXCEPT ![r] = c],
         c.op = "adding" => LeadsTo(redirect, cites, c.path, c.work),
         c.op \in {"adding", "removing"} => rampLock'[c.ramp] = r /\ seed'[c.ramp] # None,
         \A q \in Requests \ {r} : call[q].op \in {"adding", "removing"} =>
            rampLock'[call[q].ramp] = q /\ seed'[call[q].ramp] # None
  PROVE  \A q \in Requests :
           /\ call'[q].op = "adding" => LeadsTo(redirect', cites', call'[q].path, call'[q].work)
           /\ call'[q].op \in {"adding", "removing"} =>
                rampLock'[call'[q].ramp] = q /\ seed'[call'[q].ramp] # None
<1>1. ASSUME NEW q \in Requests, call'[q].op = "adding"
      PROVE  LeadsTo(redirect', cites', call'[q].path, call'[q].work)
  <2>1. CASE q = r
    <3>1. call'[q] = c BY <2>1 DEF CallsOK
    <3>2. QED BY <1>1, <3>1
  <2>2. CASE q # r
    <3>1. call'[q] = call[q] BY <2>2 DEF CallsOK
    <3>2. QED BY <1>1, <3>1 DEF RampsInv, Doing
  <2>3. QED BY <2>1, <2>2
<1>2. ASSUME NEW q \in Requests, call'[q].op \in {"adding", "removing"}
      PROVE  rampLock'[call'[q].ramp] = q /\ seed'[call'[q].ramp] # None
  <2>1. CASE q = r
    <3>1. call'[q] = c BY <2>1 DEF CallsOK
    <3>2. QED BY <1>2, <2>1, <3>1
  <2>2. CASE q # r
    <3>1. call'[q] = call[q] BY <2>2 DEF CallsOK
    <3>2. QED BY <1>2, <2>2, <3>1
  <2>3. QED BY <2>1, <2>2
<1>3. QED BY <1>1, <1>2

(* The requests that hold no lock lose none, whoever releases or takes his. *)
LEMMA OtherLocks ==
  ASSUME TypeInv, RampsInv, NEW r \in Requests, seed' = seed,
         \/ rampLock' = rampLock
         \/ \E p : rampLock[p] = None /\ rampLock' = [rampLock EXCEPT ![p] = r]
         \/ /\ call[r].op \in {"adding", "removing"}
            /\ rampLock' = [rampLock EXCEPT ![call[r].ramp] = None]
  PROVE  \A q \in Requests \ {r} : call[q].op \in {"adding", "removing"} =>
           rampLock'[call[q].ramp] = q /\ seed'[call[q].ramp] # None
<1> SUFFICES ASSUME NEW q \in Requests, q # r, call[q].op \in {"adding", "removing"}
             PROVE  rampLock'[call[q].ramp] = q /\ seed'[call[q].ramp] # None
  OBVIOUS
<1>1. rampLock[call[q].ramp] = q /\ seed[call[q].ramp] # None
  BY DEF RampsInv, Exists
<1>2. None \notin Requests /\ rampLock = [p \in RampIds |-> rampLock[p]]
  BY RampsAssumption DEF TypeInv, RampsOK
<1>3. call[r].op \in {"adding", "removing"} => rampLock[call[r].ramp] = r
  BY DEF RampsInv
<1>4. call[q].ramp \in RampIds
  BY DEF TypeInv, CallsOK, CallOK, Typed, OfRamp
<1>5. QED BY <1>1, <1>2, <1>3, <1>4

LEMMA RampsStepInv ==
  ASSUME TypeInv, RampsInv, area = "ramps", NEW r \in Requests, RampsStep(r)
  PROVE  RampsInv'
<1> USE DEF TypeInv
<1> DEFINE Lists == \A q \in RampIds : GoodList(redirect', cites', items'[q])
           Calls == \A q \in Requests :
                      /\ call'[q].op = "adding" =>
                           LeadsTo(redirect', cites', call'[q].path, call'[q].work)
                      /\ call'[q].op \in {"adding", "removing"} =>
                           rampLock'[call'[q].ramp] = q /\ seed'[call'[q].ramp] # None
           Empty == \A q \in RampIds : seed'[q] = None => DOMAIN items'[q] = {}
           Quiet(c) == c.op \notin {"adding", "removing"}
<1>0. ASSUME Lists, Calls, Empty PROVE RampsInv'
  BY <1>0 DEF RampsInv, Doing, Exists, On
<1>1. ASSUME UNCHANGED <<seed, items, redirect, cites>> PROVE Lists /\ Empty
  BY <1>1 DEF RampsInv, On
<1>2. Quiet(Idle)
  BY DEF Idle
<1>3. ASSUME NEW c, Quiet(c), Begin(r, c), UNCHANGED <<seed, rampLock, redirect, cites>> PROVE Calls
  <2>1. \A q \in Requests \ {r} : call[q].op \in {"adding", "removing"} =>
          rampLock'[call[q].ramp] = q /\ seed'[call[q].ramp] # None
    BY <1>3, OtherLocks
  <2>2. call' = [call EXCEPT ![r] = c]
    BY <1>3 DEF Begin
  <2>3. QED BY <1>3, <2>1, <2>2, RampCalls
<1>4. ASSUME Done(r), UNCHANGED <<seed, redirect, cites>>,
             \/ rampLock' = rampLock
             \/ /\ call[r].op \in {"adding", "removing"}
                /\ rampLock' = [rampLock EXCEPT ![call[r].ramp] = None]
      PROVE  Calls
  <2>1. \A q \in Requests \ {r} : call[q].op \in {"adding", "removing"} =>
          rampLock'[call[q].ramp] = q /\ seed'[call[q].ramp] # None
    BY <1>4, OtherLocks
  <2>2. call' = [call EXCEPT ![r] = Idle]
    BY <1>4 DEF Done
  <2>3. QED BY <1>2, <1>4, <2>1, <2>2, RampCalls
<1>5. CASE HoldForRamp(r)
  <2>1. PICK c : Quiet(c) /\ Begin(r, c)
    BY <1>5 DEF HoldForRamp
  <2>2. QED
    <3> HIDE DEF Lists, Calls, Empty, Quiet
    <3>1. QED BY <1>0, <1>1, <1>3, <1>5, <2>1 DEF HoldForRamp, rampsVars, WorksKept
<1>6. CASE ReadOrder(r)
  <2>1. PICK c : Quiet(c) /\ Begin(r, c)
    BY <1>6 DEF ReadOrder
  <2>2. QED
    <3> HIDE DEF Lists, Calls, Empty, Quiet
    <3>1. QED BY <1>0, <1>1, <1>3, <1>6, <2>1 DEF ReadOrder, rampsVars, WorksKept
<1>7. CASE CreateRamp(r)
  <2> DEFINE w == call[r].work
             item == [position |-> 0, via |-> None, path |-> <<w>>]
  <2>1. PICK p \in RampIds : /\ ~Exists(p) /\ seed' = [seed EXCEPT ![p] = w]
                             /\ items' = With(p, w, item)
    BY <1>7 DEF CreateRamp
  <2>2. UNCHANGED <<redirect, cites, rampLock>> /\ Done(r) /\ Doing(r, "create ramp")
    BY <1>7 DEF CreateRamp, WorksKept
  <2>3. On(p) = {}
    BY <2>1 DEF RampsInv, Exists
  <2>4. LeadsTo(redirect, cites, item.path, w)
    BY DEF LeadsTo
  <2>5. w \in Work /\ None \notin Work
    BY <2>2, WorksAssumption DEF CallsOK, CallOK, Typed, Doing, OfWork
  <2>6. Lists
    <3> HIDE DEF item
    <3>1. QED BY <2>1, <2>2, <2>3, <2>4, WithGood
  <2>7. Empty
    <3>1. \A q \in RampIds : q # p => items'[q] = items[q]
      BY <2>1 DEF With
    <3>2. seed \in [RampIds -> Work \cup {None}]
      BY DEF RampsOK
    <3>3. seed'[p] # None /\ \A q \in RampIds : q # p => seed'[q] = seed[q]
      BY <2>1, <2>5, <3>2
    <3> HIDE DEF item, w
    <3>4. QED BY <3>1, <3>3 DEF RampsInv, On
  <2>8. Calls
    <3>1. ASSUME NEW q \in Requests, q # r, call[q].op \in {"adding", "removing"}
          PROVE  rampLock'[call[q].ramp] = q /\ seed'[call[q].ramp] # None
      <4>1. rampLock[call[q].ramp] = q /\ seed[call[q].ramp] # None
        BY <3>1 DEF RampsInv, Exists
      <4>2. seed'[call[q].ramp] # None
        BY <2>1, <2>5, <4>1 DEF RampsOK
      <4>3. QED BY <2>2, <4>1, <4>2
    <3>2. call' = [call EXCEPT ![r] = Idle]
      BY <2>2 DEF Done
    <3>3. QED BY <1>2, <2>2, <3>1, <3>2, RampCalls
  <2>9. QED
    <3> HIDE DEF Lists, Calls, Empty
    <3>1. QED BY <1>0, <2>6, <2>7, <2>8
<1>8. CASE AddItem(r)
  <2> DEFINE c == call[r]
             p == c.ramp
  <2>1. UNCHANGED <<seed, items, redirect, cites>> /\ rampLock[p] = None /\ c.op = "add"
    BY <1>8 DEF AddItem, WorksKept, Doing
  <2>2. CASE MayAdd(c)
    <3> DEFINE d == [op |-> "adding", ramp |-> c.ramp, work |-> c.work, via |-> c.via,
                     path |-> PathTo(c)]
    <3>1. call' = [call EXCEPT ![r] = d] /\ rampLock' = [rampLock EXCEPT ![p] = r]
      BY <1>8, <2>2 DEF AddItem
    <3>2. LeadsTo(redirect, cites, PathTo(c), c.work)
      <4>1. CASE c.via = None
        BY <4>1 DEF PathTo, LeadsTo
      <4>2. CASE c.via # None
        <5> DEFINE route == items[p][c.via].path
        <5>1. p \in RampIds /\ c.work \in Work
          BY <2>1 DEF CallsOK, CallOK, Typed, OfRamp, OfWork
        <5>2. c.via \in On(p) /\ <<c.via, c.work>> \in cites
          BY <2>2, <4>2 DEF MayAdd
        <5>3. LeadsTo(redirect, cites, route, c.via)
          BY <5>1, <5>2 DEF RampsInv, GoodList, On
        <5>4. items[p][c.via] \in Item
          BY <5>1, <5>2 DEF RampsOK, ItemsOK, ListOK, On
        <5>5. route \in Seq(Work)
          BY <5>4 DEF Item
        <5>6. Linked(redirect, cites, route[Len(route)], c.work)
          BY <5>2, <5>3 DEF Linked, Joined, LeadsTo
        <5>7. PathTo(c) = Append(route, c.work)
          BY <4>2 DEF PathTo
        <5> HIDE DEF route, c
        <5>8. /\ Append(route, c.work) # <<>> /\ Len(Append(route, c.work)) = Len(route) + 1
              /\ \A i \in 1 .. Len(route) : Append(route, c.work)[i] = route[i]
              /\ Append(route, c.work)[Len(route) + 1] = c.work /\ Len(route) \in Nat
          BY <5>1, <5>5
        <5>9. \A i \in 1 .. Len(route) : Linked(redirect, cites, Append(route, c.work)[i], Append(route, c.work)[i + 1])
          <6>1. ASSUME NEW i \in 1 .. Len(route) - 1
                PROVE  Linked(redirect, cites, Append(route, c.work)[i], Append(route, c.work)[i + 1])
            <7>1. i \in 1 .. Len(route) /\ i + 1 \in 1 .. Len(route)
              BY <5>8
            <7>2. QED BY <5>3, <5>8, <7>1 DEF LeadsTo
          <6>2. Len(route) # 0 => Linked(redirect, cites, Append(route, c.work)[Len(route)], Append(route, c.work)[Len(route) + 1])
            BY <5>6, <5>8
          <6>3. QED BY <5>8, <6>1, <6>2
        <5>10. QED BY <5>7, <5>8, <5>9 DEF LeadsTo
      <4>3. QED BY <4>1, <4>2
    <3>3. Exists(p) /\ p \in RampIds
      BY <2>1, <2>2 DEF MayAdd, CallsOK, CallOK, Typed, OfRamp
    <3>4. \A q \in Requests \ {r} : call[q].op \in {"adding", "removing"} =>
            rampLock'[call[q].ramp] = q /\ seed'[call[q].ramp] # None
      BY <2>1, <3>1, OtherLocks
    <3>5. /\ d.path = PathTo(c) /\ d.work = c.work /\ d.ramp = p
          /\ rampLock'[p] = r /\ seed'[p] # None
      BY <2>1, <3>1, <3>3 DEF Exists, RampsOK
    <3>6. Calls
      <4> HIDE DEF c, d, p
      <4>1. QED BY <2>1, <3>1, <3>2, <3>4, <3>5, RampCalls
    <3>7. QED
      <4> HIDE DEF Lists, Calls, Empty
      <4>1. QED BY <1>0, <1>1, <2>1, <3>6
  <2>3. CASE ~MayAdd(c)
    <3>1. Done(r) /\ UNCHANGED rampLock
      BY <1>8, <2>3 DEF AddItem
    <3>2. QED
      <4> HIDE DEF Lists, Calls, Empty
      <4>1. QED BY <1>0, <1>1, <1>4, <2>1, <3>1
  <2>4. QED BY <2>2, <2>3
<1>9. CASE InsertItem(r)
  <2> DEFINE c == call[r]
             p == c.ramp
             item == [position |-> NextPosition(p), via |-> c.via, path |-> c.path]
  <2>1. /\ UNCHANGED <<seed, redirect, cites>> /\ c.op = "adding" /\ Done(r)
        /\ rampLock' = [rampLock EXCEPT ![p] = None]
        /\ items' = items \/ items' = With(p, c.work, item)
    BY <1>9 DEF InsertItem, WorksKept, Doing
  <2>2. p \in RampIds
    BY <2>1 DEF CallsOK, CallOK, Typed, OfRamp
  <2>3. LeadsTo(redirect, cites, item.path, c.work) /\ seed[p] # None
    BY <2>1 DEF RampsInv, Doing, Exists
  <2>4. \A v \in On(p) : items[p][v].position # item.position
    <3>1. /\ NextPosition(p) \in Nat
          /\ \A w \in On(p) : items[p][w].position < NextPosition(p)
      BY <2>2, NextPositionOK
    <3>2. \A v \in On(p) : items[p][v].position \in Nat
      BY <2>2 DEF RampsOK, ItemsOK, ListOK, On, Item
    <3>3. QED BY <3>1, <3>2
  <2>5. Lists
    <3> HIDE DEF item, c, p
    <3>1. QED BY <2>1, <2>2, <2>3, <2>4, WithGood
  <2>6. Empty
    <3> HIDE DEF item, c, p
    <3>1. \A q \in RampIds : q # p => items'[q] = items[q]
      <4>1. items' = items \/ items' = With(p, c.work, item)
        BY <2>1
      <4>2. \A q \in RampIds : q # p => With(p, c.work, item)[q] = items[q]
        BY DEF With, RampsOK, ItemsOK
      <4>3. QED BY <4>1, <4>2
    <3>2. QED BY <2>1, <2>3, <3>1 DEF RampsInv, On
  <2>7. Calls
    <3> HIDE DEF Lists, Calls, Empty
    <3>1. QED BY <1>4, <2>1
  <2>8. QED
    <3> HIDE DEF Lists, Calls, Empty
    <3>1. QED BY <1>0, <2>5, <2>6, <2>7
<1>10. CASE RemoveItem(r)
  <2> DEFINE c == call[r]
             p == c.ramp
  <2>1. UNCHANGED <<seed, items, redirect, cites>> /\ rampLock[p] = None /\ c.op = "remove"
    BY <1>10 DEF RemoveItem, WorksKept, Doing
  <2>2. CASE Done(r) /\ UNCHANGED rampLock
    <3> HIDE DEF Lists, Calls, Empty
    <3>1. QED BY <1>0, <1>1, <1>4, <2>1, <2>2
  <2>3. CASE /\ Exists(p) /\ rampLock' = [rampLock EXCEPT ![p] = r]
             /\ call' = [call EXCEPT ![r].op = "removing"]
    <3> DEFINE d == [c EXCEPT !.op = "removing"]
    <3>1. c \in [op : {"remove", "removing"}, ramp : RampIds, work : Work]
      BY <2>1 DEF CallsOK, CallOK, Typed
    <3>2. d.op = "removing" /\ d.ramp = p /\ call' = [call EXCEPT ![r] = d] /\ p \in RampIds
      BY <2>3, <3>1
    <3>3. \A q \in Requests \ {r} : call[q].op \in {"adding", "removing"} =>
            rampLock'[call[q].ramp] = q /\ seed'[call[q].ramp] # None
      BY <2>1, <2>3, OtherLocks
    <3>4. rampLock'[p] = r /\ seed'[p] # None
      BY <2>1, <2>3, <3>2 DEF Exists, RampsOK
    <3>5. Calls
      <4> HIDE DEF c, d, p
      <4>1. QED BY <2>1, <3>2, <3>3, <3>4, RampCalls
    <3>6. QED
      <4> HIDE DEF Lists, Calls, Empty
      <4>1. QED BY <1>0, <1>1, <2>1, <3>5
  <2>4. QED BY <1>10, <2>2, <2>3 DEF RemoveItem
<1>11. CASE DeleteItem(r)
  <2> DEFINE p == call[r].ramp
             w == call[r].work
             f == [v \in On(p) \ {w} |-> items[p][v]]
             g == items[p]
  <2>1. /\ UNCHANGED <<seed, redirect, cites>> /\ call[r].op = "removing" /\ Done(r)
        /\ rampLock' = [rampLock EXCEPT ![p] = None]
        /\ items' = [items EXCEPT ![p] = f]
    BY <1>11 DEF DeleteItem, WorksKept, Doing, Without
  <2>2. p \in RampIds /\ GoodList(redirect, cites, g) /\ f = [v \in DOMAIN g \ {w} |-> g[v]]
    BY <2>1 DEF CallsOK, CallOK, Typed, OfRamp, RampsInv, On
  <2>3. GoodList(redirect, cites, f)
    <3> HIDE DEF f, g
    <3>1. QED BY <2>2, ShrinkGood
  <2>4. Lists
    <3> HIDE DEF f, g, p
    <3>1. QED BY <2>1, <2>3, OneList
  <2>5. Empty
    <3>1. \A q \in RampIds : DOMAIN items'[q] \subseteq DOMAIN items[q]
      BY <2>1 DEF RampsOK, ItemsOK, On
    <3> HIDE DEF f, g, p
    <3>2. QED BY <2>1, <3>1 DEF RampsInv, On
  <2>6. Calls
    <3> HIDE DEF Lists, Calls, Empty
    <3>1. QED BY <1>4, <2>1
  <2>7. QED
    <3> HIDE DEF Lists, Calls, Empty
    <3>1. QED BY <1>0, <2>4, <2>5, <2>6
<1>12. CASE Reorder(r)
  <2> DEFINE p == call[r].ramp
             o == call[r].order
             at(w) == CHOOSE i \in DOMAIN o : o[i] = w
             f == [w \in On(p) |-> [items[p][w] EXCEPT !.position = at(w) - 1]]
  <2>1. /\ UNCHANGED <<seed, rampLock, redirect, cites>> /\ call[r].op = "order" /\ Done(r)
    BY <1>12 DEF Reorder, WorksKept, Doing
  <2>2. p \in RampIds /\ \E n \in Nat : DOMAIN o = 1 .. n
    BY <2>1 DEF CallsOK, CallOK, Typed, OfRamp
  <2>3. CASE items' = items
    <3> HIDE DEF Lists, Calls, Empty
    <3>1. QED BY <1>0, <1>1, <1>4, <2>1, <2>3
  <2>4. CASE {o[i] : i \in DOMAIN o} = On(p) /\ items' = [items EXCEPT ![p] = f]
    <3>1. PICK n \in Nat : DOMAIN o = 1 .. n
      BY <2>2
    <3>2. \A w \in On(p) : at(w) \in 1 .. n /\ o[at(w)] = w
      BY <2>4, <3>1
    <3>3. \A x \in Item, m \in Nat : /\ [x EXCEPT !.position = m].position = m
                                     /\ [x EXCEPT !.position = m].path = x.path
      BY DEF Item
    <3>4. ASSUME NEW w \in On(p) PROVE f[w].position = at(w) - 1 /\ f[w].path = items[p][w].path
      <4>1. items[p][w] \in Item
        BY <2>2 DEF RampsOK, ItemsOK, ListOK, On
      <4>2. at(w) - 1 \in Nat
        <5> HIDE DEF at
        <5>1. QED BY <3>1, <3>2
      <4>3. f[w] = [items[p][w] EXCEPT !.position = at(w) - 1]
        OBVIOUS
      <4> HIDE DEF at, f
      <4>4. QED BY <3>3, <4>1, <4>2, <4>3
    <3>5. DOMAIN f = On(p)
      OBVIOUS
    <3>6. GoodList(redirect, cites, items[p])
      BY <2>2 DEF RampsInv
    <3>7. GoodList(redirect, cites, f)
      <4>1. ASSUME NEW v \in On(p), NEW w \in On(p), f[v].position = f[w].position PROVE v = w
        <5>1. at(v) - 1 = at(w) - 1
          <6> HIDE DEF f, at
          <6>1. QED BY <3>4, <4>1
        <5>2. at(v) = at(w)
          <6> HIDE DEF at
          <6>1. QED BY <3>2, <5>1
        <5>3. QED
          <6> HIDE DEF at
          <6>1. QED BY <3>2, <5>2
      <4>2. ASSUME NEW w \in On(p) PROVE LeadsTo(redirect, cites, f[w].path, w)
        BY <3>4, <3>6 DEF GoodList, On
      <4> HIDE DEF f
      <4>3. QED BY <3>5, <4>1, <4>2 DEF GoodList
    <3>8. Lists
      <4> HIDE DEF f, p
      <4>1. QED BY <2>1, <2>4, <3>7, OneList
    <3>9. Empty
      <4>1. \A q \in RampIds : DOMAIN items'[q] = DOMAIN items[q]
        BY <2>4, <3>5 DEF RampsOK, ItemsOK, On
      <4> HIDE DEF f, p
      <4>2. QED BY <2>1, <4>1 DEF RampsInv, On
    <3>10. QED
      <4> HIDE DEF Lists, Calls, Empty
      <4>1. QED BY <1>0, <1>4, <2>1, <3>8, <3>9
  <2>5. QED BY <1>12, <2>3, <2>4 DEF Reorder
<1>13. CASE BreakDeadlock(r)
  <2>1. UNCHANGED <<seed, items, redirect, cites>> /\ call[r].op \in {"adding", "removing"}
    BY <1>13 DEF BreakDeadlock
  <2>2. CASE Done(r) /\ rampLock' = [rampLock EXCEPT ![call[r].ramp] = None]
    <3> HIDE DEF Lists, Calls, Empty
    <3>1. QED BY <1>0, <1>1, <1>4, <2>1, <2>2
  <2>3. CASE UNCHANGED <<call, rampLock>>
    <3>1. Calls
      BY <2>1, <2>3 DEF RampsInv, Doing, Exists
    <3> HIDE DEF Lists, Calls, Empty
    <3>2. QED BY <1>0, <1>1, <2>1, <3>1
  <2>4. QED BY <1>13, <2>2, <2>3 DEF BreakDeadlock
<1>14. QED
  BY <1>5, <1>6, <1>7, <1>8, <1>9, <1>10, <1>11, <1>12, <1>13 DEF RampsStep

LEMMA DeleteInv ==
  ASSUME TypeInv, RampsInv, DeleteStep
  PROVE  RampsInv'
<1>1. PICK p \in RampIds : /\ rampLock[p] = None
                           /\ seed' = [seed EXCEPT ![p] = None]
                           /\ items' = [items EXCEPT ![p] = NoItems]
  BY DEF DeleteStep, DeleteRamp
<1>2. UNCHANGED <<rampLock, call, redirect, cites>>
  BY DEF DeleteStep, DeleteRamp, WorksKept
<1>3. GoodList(redirect, cites, NoItems) /\ DOMAIN NoItems = {}
  BY DEF GoodList, NoItems
<1>4. \A q \in RampIds : GoodList(redirect', cites', items'[q])
  BY <1>1, <1>2, <1>3, OneList
<1>5. \A q \in RampIds : seed'[q] = None => DOMAIN items'[q] = {}
  BY <1>1, <1>3 DEF TypeInv, RampsOK, ItemsOK, RampsInv, On
<1>6. ASSUME NEW r \in Requests, call[r].op \in {"adding", "removing"}
      PROVE  rampLock'[call[r].ramp] = r /\ seed'[call[r].ramp] # None
  <2>1. rampLock[call[r].ramp] = r /\ seed[call[r].ramp] # None
    BY <1>6 DEF RampsInv, Exists
  <2>2. call[r].ramp # p
    BY <1>1, <2>1, RampsAssumption
  <2>3. QED BY <1>1, <1>2, <2>1, <2>2 DEF TypeInv, RampsOK
<1>7. \A r \in Requests : call[r].op = "adding" => LeadsTo(redirect, cites, call[r].path, call[r].work)
  BY DEF RampsInv, Doing
<1>8. QED BY <1>2, <1>4, <1>5, <1>6, <1>7 DEF RampsInv, Doing, Exists, On

(* A merge keeps what is joined joined, whether the names of the Works were *)
(* repointed or not.                                                        *)
LEMMA JoinedMoves ==
  ASSUME TypeInv, merge # NoMerge, MoveRedirects, RepointAssertions,
         NEW a \in Work, NEW b \in Work, NEW a2 \in {a, To(a)}, NEW b2 \in {b, To(b)}
  PROVE  /\ Follow(redirect, a) = Follow(redirect, b) => Follow(redirect', a2) = Follow(redirect', b2)
         /\ Joined(redirect, cites, a, b) => Joined(redirect', cites', a2, b2)
<1>1. /\ Follow(redirect', a2) = To(Follow(redirect, a))
      /\ Follow(redirect', b2) = To(Follow(redirect, b))
  BY FollowMoves
<1>2. ASSUME Joined(redirect, cites, a, b) PROVE Joined(redirect', cites', a2, b2)
  <2>1. PICK c \in cites : /\ Follow(redirect, c[1]) = Follow(redirect, a)
                           /\ Follow(redirect, c[2]) = Follow(redirect, b)
    BY <1>2 DEF Joined
  <2>2. c[1] \in Work /\ c[2] \in Work
    BY DEF TypeInv, TablesOK
  <2> DEFINE d == <<To(c[1]), To(c[2])>>
  <2>3. d \in cites' /\ d[1] = To(c[1]) /\ d[2] = To(c[2])
    BY DEF RepointAssertions
  <2>4. Follow(redirect', d[1]) = To(Follow(redirect, c[1])) /\ Follow(redirect', d[2]) = To(Follow(redirect, c[2]))
    <3> HIDE DEF d
    <3>1. QED BY <2>2, <2>3, FollowMoves
  <2> HIDE DEF d
  <2>5. QED BY <1>1, <2>1, <2>3, <2>4 DEF Joined
<1>3. QED BY <1>1, <1>2

LEMMA LeadsMove ==
  ASSUME TypeInv, merge # NoMerge, MoveRedirects, RepointAssertions,
         NEW route \in Seq(Work), NEW moved \in Seq(Work), Len(moved) = Len(route),
         \A i \in DOMAIN moved : moved[i] \in {route[i], To(route[i])},
         NEW w \in Work, NEW w2 \in {w, To(w)}, LeadsTo(redirect, cites, route, w)
  PROVE  LeadsTo(redirect', cites', moved, w2)
<1>1. /\ moved # <<>> /\ DOMAIN moved = 1 .. Len(route) /\ Len(route) \in Nat \ {0}
      /\ \A i \in 1 .. Len(route) : route[i] \in Work
  BY DEF LeadsTo
<1>2. ASSUME NEW i \in 1 .. Len(moved) - 1
      PROVE  Linked(redirect', cites', moved[i], moved[i + 1])
  <2>1. i \in 1 .. Len(route) /\ i + 1 \in 1 .. Len(route) /\ i \in 1 .. Len(route) - 1
    BY <1>1
  <2>2. Linked(redirect, cites, route[i], route[i + 1])
    BY <2>1 DEF LeadsTo
  <2>3. /\ route[i] \in Work /\ route[i + 1] \in Work
        /\ moved[i] \in {route[i], To(route[i])} /\ moved[i + 1] \in {route[i + 1], To(route[i + 1])}
    BY <1>1, <2>1
  <2>4. QED BY <2>2, <2>3, JoinedMoves DEF Linked
<1>3. Follow(redirect', moved[Len(moved)]) = Follow(redirect', w2)
  <2>1. Len(route) \in 1 .. Len(route)
    BY <1>1
  <2>2. route[Len(route)] \in Work /\ moved[Len(route)] \in {route[Len(route)], To(route[Len(route)])}
    BY <1>1, <2>1
  <2>3. Follow(redirect, route[Len(route)]) = Follow(redirect, w)
    BY DEF LeadsTo
  <2>4. QED BY <2>2, <2>3, JoinedMoves
<1>4. QED BY <1>1, <1>2, <1>3 DEF LeadsTo

LEMMA RampsCommit ==
  ASSUME TypeInv, RampsInv, Commit
  PROVE  RampsInv'
<1>1. /\ merge # NoMerge /\ MoveRedirects /\ RepointAssertions /\ MoveRamps /\ UNCHANGED call
  BY DEF Commit, CommitWorks
<1>2. /\ merge.from \in Work /\ merge.into \in Work
      /\ \A w \in Work : To(w) \in Work
  BY <1>1, MergeIs
<1>3. ASSUME NEW p \in RampIds PROVE GoodList(redirect', cites', ItemsAfter(p))
  <2> DEFINE stays == merge.from \notin On(p) \/ p \in merge.drop
             from(w) == IF stays THEN w ELSE IF w = merge.into THEN merge.from ELSE w
             f == ItemsAfter(p)
  <2>1. /\ f = [w \in DOMAIN f |-> f[w]]
        /\ DOMAIN f = IF stays THEN Stays(p) ELSE Stays(p) \cup {merge.into}
        /\ \A w \in DOMAIN f : f[w] = Moved(p, from(w))
    BY DEF ItemsAfter
  <2> HIDE DEF f
  <2>2. ASSUME NEW w \in DOMAIN f
        PROVE  from(w) \in On(p) /\ from(w) \in Work /\ w \in {from(w), To(from(w))}
    <3>1. On(p) \subseteq Work
      BY DEF TypeInv, RampsOK, ItemsOK, ListOK, On
    <3>2. QED BY <1>2, <2>1, <2>2, <3>1 DEF Stays, To
  <2>3. \A v, w \in DOMAIN f : from(v) = from(w) => v = w
    BY <2>1 DEF Stays
  <2> HIDE DEF from, stays
  <2>4. GoodList(redirect, cites, items[p])
    BY DEF RampsInv
  <2>5. ASSUME NEW v \in DOMAIN f, NEW w \in DOMAIN f, f[v].position = f[w].position PROVE v = w
    <3>1. /\ f[v].position = items[p][from(v)].position
          /\ f[w].position = items[p][from(w)].position
      BY <1>1, <2>1, <2>2, MovedOK
    <3>2. from(v) = from(w)
      BY <2>2, <2>4, <2>5, <3>1 DEF GoodList, On
    <3>3. QED BY <2>3, <3>2
  <2>6. ASSUME NEW w \in DOMAIN f PROVE LeadsTo(redirect', cites', f[w].path, w)
    <3> DEFINE route == items[p][from(w)].path
               moved == f[w].path
    <3>1. items[p][from(w)] \in Item /\ f[w] \in Item
      BY <1>1, <2>1, <2>2, MovedOK DEF TypeInv, RampsOK, ItemsOK, ListOK, On
    <3>2. route \in Seq(Work) /\ moved \in Seq(Work)
      BY <3>1 DEF Item
    <3>3. Len(moved) = Len(route) /\ \A i \in DOMAIN moved : moved[i] \in {route[i], To(route[i])}
      BY <1>1, <2>1, <2>2, MovedOK
    <3>4. LeadsTo(redirect, cites, route, from(w))
      BY <2>2, <2>4 DEF GoodList, On
    <3>5. w \in {from(w), To(from(w))} /\ from(w) \in Work
      BY <2>2
    <3> HIDE DEF route, moved
    <3>6. LeadsTo(redirect', cites', moved, w)
      BY <1>1, <3>2, <3>3, <3>4, <3>5, LeadsMove
    <3>7. QED BY <3>6 DEF moved
  <2>7. GoodList(redirect', cites', f)
    BY <2>5, <2>6 DEF GoodList
  <2>8. QED BY <2>7 DEF f
<1>4. ASSUME NEW p \in RampIds
      PROVE  GoodList(redirect', cites', items'[p]) /\ (seed'[p] = None => DOMAIN items'[p] = {})
  <2>1. items'[p] = ItemsAfter(p) /\ seed'[p] = IF seed[p] = None THEN None ELSE To(seed[p])
    BY <1>1 DEF MoveRamps
  <2>2. seed[p] \in Work \cup {None} /\ None \notin Work
    BY WorksAssumption DEF TypeInv, RampsOK
  <2>3. ASSUME seed'[p] = None PROVE DOMAIN ItemsAfter(p) = {}
    <3>1. seed[p] = None
      BY <1>2, <2>1, <2>2, <2>3
    <3>2. On(p) = {}
      BY <3>1 DEF RampsInv
    <3>3. QED BY <3>2 DEF ItemsAfter, Stays
  <2>4. QED BY <1>3, <2>1, <2>3
<1>5. ASSUME NEW r \in Requests
      PROVE  /\ call[r].op = "adding" => LeadsTo(redirect', cites', call[r].path, call[r].work)
             /\ call[r].op \in {"adding", "removing"} =>
                  rampLock'[call[r].ramp] = r /\ seed'[call[r].ramp] # None
  <2>1. ASSUME call[r].op = "adding"
        PROVE  LeadsTo(redirect', cites', call[r].path, call[r].work)
    <3> DEFINE route == call[r].path
               w == call[r].work
    <3>1. route \in Seq(Work) /\ w \in Work /\ LeadsTo(redirect, cites, route, w)
      BY <2>1 DEF TypeInv, CallsOK, CallOK, Typed, OfWork, RampsInv, Doing
    <3> HIDE DEF route, w
    <3>2. LeadsTo(redirect', cites', route, w)
      BY <1>1, <3>1, LeadsMove
    <3>3. QED BY <3>2 DEF route, w
  <2>2. ASSUME call[r].op \in {"adding", "removing"}
        PROVE  rampLock'[call[r].ramp] = r /\ seed'[call[r].ramp] # None
    <3>1. rampLock[call[r].ramp] = r /\ seed[call[r].ramp] # None /\ call[r].ramp \in RampIds
      BY <2>2 DEF RampsInv, Exists, TypeInv, CallsOK, CallOK, Typed, OfRamp
    <3>2. seed[call[r].ramp] \in Work \cup {None} /\ None \notin Work
      BY <3>1, WorksAssumption DEF TypeInv, RampsOK
    <3>3. QED BY <1>1, <1>2, <3>1, <3>2 DEF MoveRamps
  <2>3. QED BY <2>1, <2>2
<1>6. QED BY <1>1, <1>4, <1>5 DEF RampsInv, Doing, Exists, On

-----------------------------------------------------------------------------
(* The rows of the Works.                                                   *)
WorksInv ==
  /\ NoSelfCitation
  /\ Overriding(claims)
  /\ \A p, q \in owner : p[1] = q[1] => p = q

LEMMA WorksAdds ==
  ASSUME TypeInv, WorksInv, Adds
  PROVE  WorksInv'
<1>1. NoSelfCitation'
  BY DEF Adds, AddsCites, WorksInv, NoSelfCitation
<1>2. \A p, q \in owner' : p[1] = q[1] => p = q
  <2>1. CASE owner' = owner
    BY <2>1 DEF WorksInv
  <2>2. ASSUME NEW i, NEW w, w \in Work, Owners(i, owner) = {}, owner' = owner \cup {<<i, w>>}
        PROVE  \A p, q \in owner' : p[1] = q[1] => p = q
    <3>1. \A p \in owner : p[1] # i
      BY <2>2 DEF Owners, TypeInv, TablesOK
    <3>2. QED BY <2>2, <3>1 DEF WorksInv
  <2>3. QED BY <2>1, <2>2 DEF Adds, AddsOwner
<1>3. QED BY <1>1, <1>2 DEF Adds, WorksInv

LEMMA WorksCommit ==
  ASSUME TypeInv, UNCHANGED area, WorksInv, Commit
  PROVE  WorksInv'
<1>1. /\ merge # NoMerge
      /\ owner' = {<<p[1], To(p[2])>> : p \in owner}
      /\ cites' = {<<To(p[1]), To(p[2])>> : p \in cites}
  BY DEF Commit, CommitWorks, MoveIdentifiers, RepointAssertions
<1>2. NoSelfCitation'
  <2>1. ASSUME NEW p \in cites PROVE To(p[1]) # To(p[2])
    <3>1. p = <<p[1], p[2]>> /\ p[1] # p[2]
      BY DEF TypeInv, TablesOK, WorksInv, NoSelfCitation
    <3>2. ~Cites(merge.from, merge.into)
      BY <1>1, MergeIs
    <3>3. QED BY <3>1, <3>2 DEF Cites, To
  <2>2. QED BY <1>1, <2>1 DEF NoSelfCitation
<1>3. \A p, q \in owner' : p[1] = q[1] => p = q
  BY <1>1 DEF WorksInv
<1>4. QED BY <1>2, <1>3, CommitOK DEF WorksInv

-----------------------------------------------------------------------------
(* The steps, as far as the later invariants tell them apart.               *)
Elsewhere ==
  /\ Adds
  /\ area = "ramps" => UNCHANGED call
  /\ UNCHANGED <<seed, items, rampLock>>

LEMMA NextRamps ==
  ASSUME TypeInv, CatalogNext
  PROVE  \/ Commit
         \/ area = "ramps" /\ \E r \in Requests : RampsStep(r)
         \/ DeleteStep
         \/ Elsewhere
<1>1. CASE Commit
  BY <1>1
<1>2. ASSUME NEW r \in Requests, Write(r), area # "ramps" PROVE UNCHANGED <<seed, items, rampLock>>
  BY <1>2 DEF Write, rampsVars
<1>3. ASSUME NEW r \in Requests, Write(r), area = "ramps" PROVE RampsStep(r) \/ DeleteStep
  BY <1>3 DEF Write
<1>4. CASE MergeStep /\ UNCHANGED <<curationVars, rampsVars, Others>>
  BY <1>4, NextAdds DEF MergeStep, MergeWork, rampsVars, Elsewhere, Commit, CommitWorks, OpenMerge, NoMerge
<1>5. CASE MoveItems /\ UNCHANGED <<curationVars, Others>>
  BY <1>5, NextAdds DEF MoveItems, Elsewhere, Commit, CommitWorks, NoMerge
<1>6. CASE \E r \in Requests : Write(r)
  BY <1>2, <1>3, <1>6, NextAdds DEF Elsewhere
<1>7. QED BY <1>1, <1>4, <1>5, <1>6 DEF CatalogNext

RowsInv == TypeInv /\ WorksInv /\ RampsInv

LEMMA RowsInit == CatalogInit => RowsInv
<1> SUFFICES ASSUME CatalogInit PROVE RowsInv
  OBVIOUS
<1>1. cites = Known /\ claims = <<>> /\ owner = {} /\ call = [r \in Requests |-> Idle]
  BY DEF CatalogInit, WorksInit
<1>2. WorksInv
  BY <1>1, WorksAssumption DEF WorksInv, NoSelfCitation, Overriding, Overrides, About
<1>3. \A p \in RampIds : GoodList(redirect, cites, items[p]) /\ On(p) = {}
  BY DEF CatalogInit, RampsInit, GoodList, NoItems, On
<1>4. RampsInv
  BY <1>1, <1>3 DEF RampsInv, Doing, Idle
<1>5. QED BY <1>2, <1>4, TypeInit DEF RowsInv

LEMMA RowsNext == RowsInv /\ [CatalogNext]_catalogVars => RowsInv'
<1> SUFFICES ASSUME RowsInv, [CatalogNext]_catalogVars PROVE RowsInv'
  OBVIOUS
<1> USE DEF RowsInv
<1>1. TypeInv'
  BY TypeNext
<1>2. CASE CatalogNext
  <2>1. UNCHANGED area /\ (Commit \/ Adds)
    BY <1>2, NextAdds
  <2>2. WorksInv'
    BY <2>1, WorksAdds, WorksCommit
  <2>3. RampsInv'
    <3>1. CASE Elsewhere
      BY <1>1, <2>1, <3>1, RampsIdle DEF Elsewhere, TypeInv
    <3>2. QED BY <1>2, <3>1, NextRamps, RampsCommit, RampsStepInv, DeleteInv
  <2>4. QED BY <1>1, <2>2, <2>3
<1>3. CASE UNCHANGED catalogVars
  <2>1. UNCHANGED <<redirect, owner, cites, claims, call, seed, items, rampLock>>
    BY <1>3 DEF catalogVars, worksVars, rampsVars
  <2>2. WorksInv'
    BY <2>1 DEF WorksInv, NoSelfCitation
  <2>3. RampsInv'
    BY <2>1 DEF RampsInv, Doing, Exists, On
  <2>4. QED BY <1>1, <2>2, <2>3
<1>4. QED BY <1>2, <1>3

LEMMA OneIsOne ==
  ASSUME NEW S, \A i, j \in S : i = j
  PROVE  Cardinality(S) <= 1
<1>1. CASE S = {}
  BY <1>1, FS_EmptySet
<1>2. CASE S # {}
  <2>1. PICK i : S = {i}
    BY <1>2
  <2>2. Cardinality({i}) = 1
    BY FS_Singleton
  <2>3. QED BY <2>1, <2>2
<1>3. QED BY <1>1, <1>2

LEMMA RowsImply == RowsInv => RowsConsistent
<1> SUFFICES ASSUME RowsInv PROVE RowsConsistent
  OBVIOUS
<1> USE DEF RowsInv
<1>1. OneOverride
  BY OneIsOne DEF WorksInv, Overriding, OneOverride
<1>2. PositionsDistinct
  BY DEF RampsInv, GoodList, PositionsDistinct, On
<1>3. PathsCited
  <2> SUFFICES ASSUME NEW p \in RampIds, NEW w \in On(p), NEW i \in 1 .. Len(items[p][w].path) - 1
               PROVE  LET route == items[p][w].path
                          step == <<Resolved(route[i]), Resolved(route[i + 1])>>
                      IN \/ step[1] = step[2]
                         \/ \E c \in cites : <<Resolved(c[1]), Resolved(c[2])>> = step
    BY DEF PathsCited
  <2> DEFINE route == items[p][w].path
  <2>1. items[p][w] \in Item
    BY DEF TypeInv, RampsOK, ItemsOK, ListOK, On
  <2>2. route \in Seq(Work)
    BY <2>1 DEF Item
  <2>3. route[i] \in Work /\ route[i + 1] \in Work
    BY <2>2
  <2>4. Linked(redirect, cites, route[i], route[i + 1])
    BY DEF RampsInv, GoodList, LeadsTo, On
  <2>5. \A v \in Work : Resolved(v) = Follow(redirect, v)
    BY ResolvedIs DEF TypeInv, TablesOK
  <2>6. \A c \in cites : c[1] \in Work /\ c[2] \in Work
    BY DEF TypeInv, TablesOK
  <2>7. QED BY <2>3, <2>4, <2>5, <2>6 DEF Linked, Joined
<1>4. QED BY <1>1, <1>2, <1>3 DEF RowsConsistent, WorksInv, TypeInv

(* Whatever adds, removals, reorders, claims and merges are mixed, by any   *)
(* number of requests: redirects stay flat, no Work cites itself, a Work    *)
(* has one override in force, and the items of a ramp keep distinct         *)
(* positions and paths of citations.                                        *)
THEOREM RowsAreConsistent == CatalogSpec => []RowsConsistent
<1>1. CatalogSpec => []RowsInv
  BY RowsInit, RowsNext, PTL DEF CatalogSpec
<1>2. QED BY <1>1, RowsImply, PTL

(* No step loses an identifier or gives it to another Work than the one it  *)
(* names or the one that was merged into.                                   *)
THEOREM IdentifiersStay == CatalogSpec => IdentifiersKept
<1> DEFINE Keeps == \A p \in owner : \E w \in {p[2], redirect'[p[2]]} : Owners(p[1], owner') = {w}
<1>1. RowsInv /\ [CatalogNext]_catalogVars => [Keeps]_worksVars
  <2> SUFFICES ASSUME RowsInv, CatalogNext, NEW p \in owner
               PROVE  \E w \in {p[2], redirect'[p[2]]} : Owners(p[1], owner') = {w}
    BY DEF catalogVars
  <2> USE DEF RowsInv
  <2>1. p = <<p[1], p[2]>> /\ p[2] \in Work /\ \A q \in owner : q = <<q[1], q[2]>>
    BY DEF TypeInv, TablesOK
  <2>2. \A q \in owner : q[1] = p[1] => q = p
    BY DEF WorksInv
  <2>3. CASE owner' = owner
    BY <2>1, <2>2, <2>3 DEF Owners
  <2>4. ASSUME NEW i, NEW v \in Work, Owners(i, owner) = {}, owner' = owner \cup {<<i, v>>}
        PROVE  Owners(p[1], owner') = {p[2]}
    <3>1. p[1] # i
      BY <2>1, <2>4 DEF Owners
    <3>2. QED BY <2>1, <2>2, <2>4, <3>1 DEF Owners
  <2>5. CASE Commit
    <3>1. /\ merge # NoMerge /\ MoveRedirects
          /\ owner' = {<<q[1], To(q[2])>> : q \in owner}
      BY <2>5 DEF Commit, CommitWorks, MoveIdentifiers
    <3>2. Owners(p[1], owner') = {To(p[2])}
      <4>1. To(p[2]) \in Work
        BY <2>1, <3>1, MergeIs
      <4>2. <<p[1], To(p[2])>> \in owner' /\ \A q \in owner' : q[1] = p[1] => q = <<p[1], To(p[2])>>
        BY <2>2, <3>1
      <4>3. QED BY <4>1, <4>2 DEF Owners
    <3>3. To(p[2]) \in {p[2], redirect'[p[2]]}
      BY <2>1, <3>1 DEF To, MoveRedirects
    <3>4. QED BY <3>2, <3>3
  <2>6. QED BY <2>3, <2>4, <2>5, NextAdds DEF Adds, AddsOwner
<1>2. CatalogSpec => []RowsInv
  BY RowsInit, RowsNext, PTL DEF CatalogSpec
<1>3. QED BY <1>1, <1>2, PTL DEF CatalogSpec, IdentifiersKept

-----------------------------------------------------------------------------
(* Runs of the local evidence.  Entry e is accepted as a Work that leads    *)
(* where w leads.                                                           *)
AcceptedAs(acc, rd, e, w) == acc[e] # None /\ Follow(rd, w) = Follow(rd, acc[e])

Connected(acc, rd, cs, citing, e) == acc[e] # None /\ Joined(rd, cs, citing, acc[e])

(* What is left of the bibliography is its end, and each entry passed is    *)
(* connected when it is accepted.                                           *)
PassedGood(acc, rd, cs, c) ==
  LET entries == Bibliography[c.paper]
      come == Len(entries) - Len(c.left)
  IN /\ come \in Nat
     /\ \A i \in 1 .. Len(c.left) : c.left[i] = entries[come + i]
     /\ \A n \in 1 .. come :
          acc[entries[n]] # None => Connected(acc, rd, cs, c.citing, entries[n])

(* What a run has done for the first of the entries left.                   *)
HeadGood(acc, rd, cs, mg, c) ==
  /\ c.op \in {"fold", "folding"} => AcceptedAs(acc, rd, Head(c.left), c.method)
  /\ c.op = "folding" => \/ Follow(rd, c.method) = Follow(rd, c.work)
                         \/ mg # NoMerge /\ mg.from = c.method /\ mg.into = c.work
  /\ c.op \in {"attach", "connect"} => AcceptedAs(acc, rd, Head(c.left), c.work)
  /\ c.op = "harvest" => Connected(acc, rd, cs, c.citing, Head(c.left))

RunGood(acc, rd, cs, mg, c) == PassedGood(acc, rd, cs, c) /\ HeadGood(acc, rd, cs, mg, c)

RunsInv ==
  \A r \in Requests : Running(r) =>
    /\ RunGood(accepted, redirect, cites, merge, call[r])
    /\ \A q \in Requests : Running(q) /\ call[q].paper = call[r].paper => q = r

LEMMA RunGrows ==
  ASSUME NEW acc, NEW rd, NEW cs, NEW ds, cs \subseteq ds, NEW mg, NEW mh, NEW c,
         mg # NoMerge => mh # NoMerge /\ mh.from = mg.from /\ mh.into = mg.into,
         RunGood(acc, rd, cs, mg, c)
  PROVE  RunGood(acc, rd, ds, mh, c)
<1>1. \A a, b : Joined(rd, cs, a, b) => Joined(rd, ds, a, b)
  BY JoinedGrows
<1>2. \A e : Connected(acc, rd, cs, c.citing, e) => Connected(acc, rd, ds, c.citing, e)
  BY <1>1 DEF Connected
<1>3. PassedGood(acc, rd, ds, c)
  BY <1>2 DEF RunGood, PassedGood
<1>4. HeadGood(acc, rd, ds, mh, c)
  BY <1>2 DEF RunGood, HeadGood
<1>5. QED BY <1>3, <1>4 DEF RunGood

LEMMA AddsMerge ==
  ASSUME TypeInv, Adds, area # "ramps"
  PROVE  /\ merge # NoMerge => merge' # NoMerge /\ merge'.from = merge.from /\ merge'.into = merge.into
         /\ redirect' = redirect /\ cites \subseteq cites'
<1>1. CASE \E from, into \in Work : Opens(from, into)
  BY <1>1, CitesGrow DEF Opens, OpenMerge
<1>2. CASE merge'.at = "moved" /\ merge'.from = merge.from /\ merge'.into = merge.into
  BY <1>2, CitesGrow DEF NoMerge
<1>3. QED BY <1>1, <1>2, CitesGrow DEF Adds

(* A step of request r, whose call becomes d, leaves the other runs good.   *)
LEMMA RunStep ==
  ASSUME TypeInv, RunsInv, Adds, area = "evidence", NEW r \in Requests, NEW d,
         call' = [call EXCEPT ![r] = d], accepted' = accepted,
         d.op \in RunSteps =>
           /\ RunGood(accepted, redirect, cites', merge', d)
           /\ \A q \in Requests \ {r} : Running(q) => call[q].paper # d.paper
  PROVE  RunsInv'
<1>1. /\ merge # NoMerge => merge' # NoMerge /\ merge'.from = merge.from /\ merge'.into = merge.into
      /\ redirect' = redirect /\ cites \subseteq cites'
  BY AddsMerge
<1>2. call'[r] = d /\ \A q \in Requests \ {r} : call'[q] = call[q]
  BY DEF TypeInv, CallsOK
<1>3. \A q \in Requests \ {r} : Running(q) => RunGood(accepted, redirect, cites', merge', call[q])
  BY <1>1, RunGrows DEF RunsInv
<1>4. \A q \in Requests : call'[q].op \in RunSteps =>
        RunGood(accepted', redirect', cites', merge', call'[q])
  BY <1>1, <1>2, <1>3 DEF Running
<1>5. \A p, q \in Requests : call'[p].op \in RunSteps /\ call'[q].op \in RunSteps
                               /\ call'[p].paper = call'[q].paper => p = q
  <2> SUFFICES ASSUME NEW p \in Requests, NEW q \in Requests, call'[p].op \in RunSteps,
                      call'[q].op \in RunSteps, call'[p].paper = call'[q].paper
               PROVE  p = q
    OBVIOUS
  <2>1. CASE p = r BY <1>2, <2>1 DEF Running
  <2>2. CASE q = r BY <1>2, <2>2 DEF Running
  <2>3. CASE p # r /\ q # r BY <1>2, <2>3 DEF Running, RunsInv
  <2>4. QED BY <2>1, <2>2, <2>3
<1>6. QED BY <1>4, <1>5 DEF RunsInv, Running

(* The same for the steps of a run that stay with an entry.                 *)
LEMMA GoStep ==
  ASSUME TypeInv, RunsInv, Adds, area = "evidence", NEW r \in Requests, Running(r),
         NEW op, NEW work, NEW method, Go(r, op, work, method), accepted' = accepted,
         op \in {"fold", "folding"} => AcceptedAs(accepted, redirect, Head(call[r].left), method),
         op = "folding" => \/ Follow(redirect, method) = Follow(redirect, work)
                           \/ merge' # NoMerge /\ merge'.from = method /\ merge'.into = work,
         op \in {"attach", "connect"} => AcceptedAs(accepted, redirect, Head(call[r].left), work),
         op = "harvest" => Connected(accepted, redirect, cites', call[r].citing, Head(call[r].left))
  PROVE  RunsInv'
<1> DEFINE c == call[r]
           d == [c EXCEPT !.op = op, !.work = work, !.method = method]
<1>1. RunOK(c)
  BY RunOf DEF Running, TypeInv
<1>2. /\ d.op = op /\ d.work = work /\ d.method = method
      /\ d.left = c.left /\ d.paper = c.paper /\ d.citing = c.citing
  BY <1>1 DEF RunOK
<1>3. call' = [call EXCEPT ![r] = d]
  BY DEF Go
<1>4. RunGood(accepted, redirect, cites', merge', c)
  <2> HIDE DEF c
  <2>1. RunGood(accepted, redirect, cites, merge, c)
    BY DEF RunsInv, c
  <2>2. QED BY <2>1, AddsMerge, RunGrows
<1>5. \A q \in Requests \ {r} : Running(q) => call[q].paper # c.paper
  BY DEF RunsInv
<1> HIDE DEF d
<1>6. RunGood(accepted, redirect, cites', merge', d)
  BY <1>2, <1>4 DEF RunGood, PassedGood, HeadGood
<1>7. \A q \in Requests \ {r} : Running(q) => call[q].paper # d.paper
  BY <1>2, <1>5
<1>8. QED BY <1>3, <1>6, <1>7, RunStep

(* And for those that go to the next entry.                                 *)
LEMMA NextStep ==
  ASSUME TypeInv, RunsInv, Adds, area = "evidence", NEW r \in Requests, Running(r),
         call[r].left # <<>>, NextEntry(r), accepted' = accepted,
         accepted[Head(call[r].left)] # None =>
           Connected(accepted, redirect, cites, call[r].citing, Head(call[r].left))
  PROVE  RunsInv'
<1> DEFINE c == call[r]
           d == [c EXCEPT !.op = "resolve", !.left = Tail(@), !.work = None, !.method = None]
           entries == Bibliography[c.paper]
           come == Len(entries) - Len(c.left)
<1>1. RunOK(c)
  BY RunOf DEF Running, TypeInv
<1>2. d.op = "resolve" /\ d.left = Tail(c.left) /\ d.paper = c.paper /\ d.citing = c.citing
  BY <1>1 DEF RunOK
<1>3. call' = [call EXCEPT ![r] = d]
  BY DEF NextEntry
<1>4. RunGood(accepted, redirect, cites, merge, c)
  BY DEF RunsInv
<1>5. \A q \in Requests \ {r} : Running(q) => call[q].paper # d.paper
  BY <1>2 DEF RunsInv
<1>6. c.left \in Seq(Entries) /\ c.left # <<>>
  BY <1>1 DEF RunOK
<1> DEFINE conn(e) == accepted[e] # None => Connected(accepted, redirect, cites, c.citing, e)
<1> HIDE DEF d
<1>7. /\ Len(d.left) = Len(c.left) - 1 /\ Len(c.left) \in Nat \ {0}
      /\ \A i \in 1 .. Len(d.left) : d.left[i] = c.left[i + 1]
      /\ Head(c.left) = c.left[1]
  BY <1>2, <1>6
<1>8. entries \in Seq(Entries) /\ Len(entries) \in Nat
  BY <1>1, EvidenceAssumption DEF RunOK
<1>9. /\ come \in Nat
      /\ \A i \in 1 .. Len(c.left) : c.left[i] = entries[come + i]
      /\ \A n \in 1 .. come : conn(entries[n])
  BY <1>4 DEF RunGood, PassedGood
<1>10. conn(Head(c.left))
  OBVIOUS
<1> HIDE DEF conn, c, entries
<1>11. Len(entries) - Len(d.left) = come + 1
  BY <1>7, <1>8, <1>9
<1> HIDE DEF come
<1>12. \A i \in 1 .. Len(d.left) : d.left[i] = entries[come + 1 + i]
  <2> SUFFICES ASSUME NEW i \in 1 .. Len(d.left) PROVE d.left[i] = entries[come + 1 + i]
    OBVIOUS
  <2>1. i + 1 \in 1 .. Len(c.left) /\ d.left[i] = c.left[i + 1]
    BY <1>7
  <2>2. d.left[i] = entries[come + (i + 1)]
    BY <1>9, <2>1
  <2>3. come + (i + 1) = come + 1 + i
    BY <1>7, <1>9
  <2>4. QED BY <2>2, <2>3
<1>13. \A n \in 1 .. come + 1 : conn(entries[n])
  <2>1. conn(entries[come + 1])
    <3>1. 1 \in 1 .. Len(c.left)
      BY <1>7
    <3>2. QED BY <1>7, <1>9, <1>10, <3>1
  <2>2. \A n \in 1 .. come + 1 : n \in 1 .. come \/ n = come + 1
    BY <1>9
  <2>3. QED BY <1>9, <2>1, <2>2
<1>14. PassedGood(accepted, redirect, cites, d)
  <2>1. Bibliography[d.paper] = entries /\ d.citing = c.citing
    BY <1>2 DEF entries
  <2>2. come + 1 \in Nat
    BY <1>9
  <2>3. \A n \in 1 .. come + 1 : accepted[entries[n]] # None =>
          Connected(accepted, redirect, cites, d.citing, entries[n])
    BY <1>13, <2>1 DEF conn
  <2>4. PassedGood(accepted, redirect, cites, d) <=>
          /\ Len(entries) - Len(d.left) \in Nat
          /\ \A i \in 1 .. Len(d.left) : d.left[i] = entries[Len(entries) - Len(d.left) + i]
          /\ \A n \in 1 .. Len(entries) - Len(d.left) : accepted[entries[n]] # None =>
               Connected(accepted, redirect, cites, d.citing, entries[n])
    BY <2>1 DEF PassedGood
  <2>5. QED BY <1>11, <1>12, <2>2, <2>3, <2>4
<1>15. RunGood(accepted, redirect, cites, merge, d)
  BY <1>2, <1>14 DEF RunGood, HeadGood
<1>16. RunGood(accepted, redirect, cites', merge', d)
  BY <1>15, AddsMerge, RunGrows
<1>17. QED BY <1>3, <1>5, <1>16, RunStep

LEMMA ResolvedFlat ==
  ASSUME TypeInv, NEW w \in Work
  PROVE  /\ Resolved(w) = Follow(redirect, w) /\ Resolved(w) \in Work /\ Resolved(w) # None
         /\ Follow(redirect, Resolved(w)) = Resolved(w)
<1>1. Resolved(w) = Follow(redirect, w) /\ Follow(redirect, w) \in Work
  BY ResolvedIs DEF TypeInv, TablesOK
<1>2. QED BY <1>1, WorksAssumption DEF TypeInv, RedirectsFlat, Follow

LEMMA DistinctEntries ==
  ASSUME NEW p \in Papers, NEW q \in Papers,
         NEW i \in DOMAIN Bibliography[p], NEW j \in DOMAIN Bibliography[q],
         Bibliography[p][i] = Bibliography[q][j]
  PROVE  p = q /\ i = j
BY EvidenceAssumption

(* The entries a paper's run is at belong to no other paper.                *)
LEMMA OwnEntry ==
  ASSUME TypeInv, RunsInv, NEW r \in Requests, Running(r), call[r].left # <<>>
  PROVE  /\ Head(call[r].left) \in Entries
         /\ \E n \in DOMAIN Bibliography[call[r].paper] :
              /\ Head(call[r].left) = Bibliography[call[r].paper][n]
              /\ n = Len(Bibliography[call[r].paper]) - Len(call[r].left) + 1
<1> DEFINE c == call[r]
           entries == Bibliography[c.paper]
           come == Len(entries) - Len(c.left)
<1>1. RunOK(c)
  BY RunOf DEF Running, TypeInv
<1>2. c.left \in Seq(Entries) /\ c.left # <<>> /\ entries \in Seq(Entries)
  BY <1>1, EvidenceAssumption DEF RunOK
<1>3. come \in Nat /\ \A i \in 1 .. Len(c.left) : c.left[i] = entries[come + i]
  BY DEF RunsInv, RunGood, PassedGood
<1> HIDE DEF c, entries
<1>4. Head(c.left) = c.left[1] /\ 1 \in 1 .. Len(c.left) /\ c.left[1] \in Entries
  BY <1>2
<1>5. Head(c.left) = entries[come + 1] /\ come + 1 \in DOMAIN entries
  <2>1. Len(entries) \in Nat /\ Len(c.left) \in Nat \ {0} /\ DOMAIN entries = 1 .. Len(entries)
    BY <1>2
  <2>2. come + 1 \in 1 .. Len(entries)
    BY <1>3, <2>1
  <2>3. c.left[1] = entries[come + 1]
    BY <1>3, <1>4
  <2>4. QED BY <1>4, <2>1, <2>2, <2>3
<1>6. Head(c.left) \in Entries
  BY <1>4
<1>7. QED BY <1>5, <1>6 DEF c, entries

LEMMA StartInv ==
  ASSUME TypeInv, RunsInv, Adds, area = "evidence", NEW r \in Requests, StartRun(r)
  PROVE  RunsInv'
<1> DEFINE d(p) == [op |-> "resolve", paper |-> p, left |-> Bibliography[p],
                    citing |-> Resolved(CitingWork[p]), work |-> None, method |-> None,
                    near |-> {<<w, shown[w].value>> :
                                w \in {v \in Work : <<Resolved(CitingWork[p]), v>> \in cites}}]
<1>1. PICK p \in Papers : /\ \A q \in Requests : Running(q) => call[q].paper # p
                          /\ Begin(r, d(p))
  BY DEF StartRun
<1>2. d(p).op = "resolve" /\ d(p).left = Bibliography[p] /\ d(p).paper = p
  OBVIOUS
<1>3. Bibliography[p] \in Seq(Entries)
  BY EvidenceAssumption
<1>4. call' = [call EXCEPT ![r] = d(p)] /\ accepted' = accepted
  BY <1>1 DEF Begin, StartRun, evidenceVars
<1> HIDE DEF d
<1>5. RunGood(accepted, redirect, cites', merge', d(p))
  <2>1. Len(Bibliography[p]) \in Nat /\ Len(Bibliography[p]) - Len(Bibliography[p]) = 0
    BY <1>3
  <2>2. PassedGood(accepted, redirect, cites', d(p))
    BY <1>2, <1>3, <2>1 DEF PassedGood
  <2>3. QED BY <1>2, <2>2 DEF RunGood, HeadGood
<1>6. \A q \in Requests \ {r} : Running(q) => call[q].paper # d(p).paper
  BY <1>1, <1>2
<1>7. QED BY <1>4, <1>5, <1>6, RunStep

LEMMA ResolveInv ==
  ASSUME TypeInv, RunsInv, Adds, area = "evidence", NEW r \in Requests, ResolveEntry(r)
  PROVE  RunsInv'
<1> DEFINE e == Head(call[r].left)
           before == IF accepted[e] = None THEN None ELSE Resolved(accepted[e])
<1>1. /\ Running(r) /\ call[r].left # <<>> /\ accepted' = accepted
      /\ \/ before # None /\ Go(r, "connect", before, None)
         \/ \E w, m : before # None /\ Go(r, "fold", w, before)
         \/ \E w, m : Go(r, "accept", w, m)
         \/ Go(r, "stub", None, None)
         \/ before = None /\ NextEntry(r)
  BY DEF ResolveEntry, Doing, Running, RunSteps, evidenceVars
<1>2. e \in Entries
  BY <1>1, OwnEntry
<1>3. accepted[e] \in Work \cup {None}
  BY <1>2 DEF TypeInv, RowsOK
<1>4. before # None => AcceptedAs(accepted, redirect, e, before)
  <2>1. ASSUME accepted[e] # None PROVE AcceptedAs(accepted, redirect, e, Resolved(accepted[e]))
    BY <1>3, <2>1, ResolvedFlat DEF AcceptedAs
  <2>2. QED BY <2>1
<1>5. before = None => accepted[e] = None
  BY <1>3, ResolvedFlat
<1> HIDE DEF before, e
<1>6. CASE before # None /\ Go(r, "connect", before, None)
  BY <1>1, <1>4, <1>6, GoStep DEF e
<1>7. ASSUME NEW w, before # None, Go(r, "fold", w, before) PROVE RunsInv'
  BY <1>1, <1>4, <1>7, GoStep DEF e
<1>8. ASSUME NEW w, NEW m, Go(r, "accept", w, m) PROVE RunsInv'
  BY <1>1, <1>8, GoStep
<1>9. CASE Go(r, "stub", None, None)
  BY <1>1, <1>9, GoStep
<1>10. CASE before = None /\ NextEntry(r)
  BY <1>1, <1>5, <1>10, NextStep DEF e
<1>11. QED BY <1>1, <1>6, <1>7, <1>8, <1>9, <1>10

LEMMA FoldInv ==
  ASSUME TypeInv, RunsInv, Adds, area = "evidence", NEW r \in Requests, FoldStub(r)
  PROVE  RunsInv'
<1> DEFINE stub == call[r].method
           into == call[r].work
<1>1. /\ Running(r) /\ call[r].op = "fold" /\ accepted' = accepted
      /\ \/ OpenMerge(stub, into) /\ Go(r, "folding", into, stub)
         \/ Go(r, "connect", stub, None)
  BY DEF FoldStub, Doing, Running, RunSteps, evidenceVars
<1>2. AcceptedAs(accepted, redirect, Head(call[r].left), stub)
  BY <1>1 DEF RunsInv, RunGood, HeadGood
<1> HIDE DEF stub, into
<1>3. CASE OpenMerge(stub, into) /\ Go(r, "folding", into, stub)
  <2>1. merge' # NoMerge /\ merge'.from = stub /\ merge'.into = into
    BY <1>3 DEF OpenMerge, NoMerge
  <2>2. QED BY <1>1, <1>2, <1>3, <2>1, GoStep
<1>4. CASE Go(r, "connect", stub, None)
  BY <1>1, <1>2, <1>4, GoStep
<1>5. QED BY <1>1, <1>3, <1>4

LEMMA FoldedInv ==
  ASSUME TypeInv, RunsInv, Adds, area = "evidence", NEW r \in Requests, StubFolded(r)
  PROVE  RunsInv'
<1>1. /\ Running(r) /\ call[r].op = "folding" /\ accepted' = accepted
      /\ redirect[call[r].method] # None /\ Go(r, "connect", call[r].work, None)
  BY DEF StubFolded, Doing, Running, RunSteps, evidenceVars
<1>2. /\ AcceptedAs(accepted, redirect, Head(call[r].left), call[r].method)
      /\ \/ Follow(redirect, call[r].method) = Follow(redirect, call[r].work)
         \/ merge # NoMerge /\ merge.from = call[r].method
  BY <1>1 DEF RunsInv, RunGood, HeadGood
<1>3. Follow(redirect, call[r].method) = Follow(redirect, call[r].work)
  BY <1>1, <1>2, MergeIs
<1>4. AcceptedAs(accepted, redirect, Head(call[r].left), call[r].work)
  BY <1>2, <1>3 DEF AcceptedAs
<1>5. QED BY <1>1, <1>4, GoStep

(* The resolution a run records is that of its own entry: no other run has  *)
(* come to it.                                                              *)
LEMMA RecordInv ==
  ASSUME TypeInv, RunsInv, Adds, area = "evidence", NEW r \in Requests, RecordResolution(r)
  PROVE  RunsInv'
<1> DEFINE c == call[r]
           e == Head(c.left)
           op == IF c.method = "title" /\ Printed[e].identifier # None THEN "attach" ELSE "connect"
           d == [c EXCEPT !.op = op, !.work = c.work, !.method = None]
<1>1. /\ Running(r) /\ c.op = "accept" /\ accepted' = [accepted EXCEPT ![e] = c.work]
      /\ Go(r, op, c.work, None)
  BY DEF RecordResolution, Doing, Running, RunSteps
<1>2. RunOK(c)
  BY <1>1, RunOf DEF Running, TypeInv
<1>3. c.left # <<>> /\ c.work \in Work /\ c.work # None
  BY <1>1, <1>2, WorksAssumption DEF RunOK
<1>4. /\ d.op = op /\ d.work = c.work /\ d.left = c.left /\ d.paper = c.paper /\ d.citing = c.citing
      /\ call' = [call EXCEPT ![r] = d] /\ op \in {"attach", "connect"}
  BY <1>1, <1>2 DEF RunOK, Go
<1> DEFINE entries == Bibliography[c.paper]
           come == Len(entries) - Len(c.left)
<1>5. e \in Entries /\ come + 1 \in DOMAIN entries /\ e = entries[come + 1] /\ come \in Nat
  <2>1. e \in Entries /\ come + 1 \in DOMAIN entries /\ e = entries[come + 1]
    BY <1>1, <1>3, OwnEntry
  <2>2. come \in Nat
    BY <1>1 DEF RunsInv, RunGood, PassedGood
  <2>3. QED BY <2>1, <2>2
<1>6. redirect' = redirect /\ cites \subseteq cites'
  BY AddsMerge
<1> HIDE DEF d, op
(* What is known of the other entries stays.                                *)
<1>7. c.paper \in Papers /\ entries \in Seq(Entries)
  BY <1>2, EvidenceAssumption DEF RunOK
<1>8. ASSUME NEW b \in Papers, NEW n \in DOMAIN Bibliography[b], b = c.paper => n # come + 1
      PROVE  Bibliography[b][n] # e
  <2>1. SUFFICES ASSUME Bibliography[b][n] = e PROVE FALSE
    OBVIOUS
  <2>2. Bibliography[b][n] = Bibliography[c.paper][come + 1] /\ come + 1 \in DOMAIN Bibliography[c.paper]
    BY <2>1, <1>5
  <2> HIDE DEF come, e, c, entries
  <2>3. b = c.paper /\ n = come + 1
    BY <2>2, <1>7, <1>8, DistinctEntries
  <2>4. QED BY <2>3, <1>8
<1>9. accepted'[e] = c.work /\ \A x \in Entries : x # e => accepted'[x] = accepted[x]
  BY <1>1, <1>5 DEF TypeInv, RowsOK
<1>10. RunGood(accepted', redirect', cites', merge', d)
  <2>1. RunGood(accepted, redirect, cites', merge', c)
    <3> HIDE DEF c
    <3>1. RunGood(accepted, redirect, cites, merge, c)
      BY <1>1 DEF RunsInv, c
    <3>2. QED BY <3>1, AddsMerge, RunGrows
  <2>2. \A n \in 1 .. come : entries[n] # e /\ entries[n] \in Entries
    <3> HIDE DEF come, e
    <3>1. \A n \in 1 .. come : n \in DOMAIN entries /\ n # come + 1
      <4> HIDE DEF c, entries
      <4>1. QED BY <1>5, <1>7
    <3>2. QED BY <1>7, <1>8, <3>1
  <2> HIDE DEF c, e, entries
  <2>3. PassedGood(accepted', redirect', cites', d)
    <3>1. PassedGood(accepted, redirect, cites', c)
      BY <2>1 DEF RunGood
    <3>2. \A n \in 1 .. come : accepted'[entries[n]] = accepted[entries[n]]
      BY <1>9, <2>2
    <3>3. QED BY <1>4, <1>6, <3>1, <3>2 DEF PassedGood, Connected, entries
  <2>4. HeadGood(accepted', redirect', cites', merge', d)
    BY <1>3, <1>4, <1>9 DEF HeadGood, AcceptedAs, e
  <2>5. QED BY <2>3, <2>4 DEF RunGood
<1>11. ASSUME NEW q \in Requests, q # r, Running(q)
       PROVE  RunGood(accepted', redirect', cites', merge', call[q]) /\ call[q].paper # c.paper
  <2> DEFINE f == call[q]
  <2>1. f.paper # c.paper
    BY <1>1, <1>11 DEF RunsInv
  <2>2. RunOK(f)
    BY <1>11, RunOf DEF Running, TypeInv
  <2>3. f.paper \in Papers /\ Bibliography[f.paper] \in Seq(Entries)
    BY <2>2, EvidenceAssumption DEF RunOK
  <2>4. \A n \in DOMAIN Bibliography[f.paper] :
          Bibliography[f.paper][n] # e /\ Bibliography[f.paper][n] \in Entries
    <3> HIDE DEF c, e, f, come
    <3>1. QED BY <1>8, <2>1, <2>3
  <2>5. RunGood(accepted, redirect, cites', merge', f)
    <3> HIDE DEF f
    <3>1. RunGood(accepted, redirect, cites, merge, f)
      BY <1>11 DEF RunsInv, f
    <3>2. QED BY <3>1, AddsMerge, RunGrows
  <2>6. f.left # <<>> => Head(f.left) \in Entries /\ Head(f.left) # e
    BY <1>11, <2>4, OwnEntry
  <2>7. f.op # "resolve" => f.left # <<>>
    BY <2>2 DEF RunOK
  <2>8. Len(f.left) \in Nat
    BY <2>2 DEF RunOK
  <2> HIDE DEF f
  <2>9. PassedGood(accepted', redirect', cites', f)
    <3>1. PassedGood(accepted, redirect, cites', f)
      BY <2>5 DEF RunGood
    <3>2. \A n \in 1 .. Len(Bibliography[f.paper]) - Len(f.left) : n \in DOMAIN Bibliography[f.paper]
      BY <2>3, <2>8
    <3>3. \A n \in 1 .. Len(Bibliography[f.paper]) - Len(f.left) :
            accepted'[Bibliography[f.paper][n]] = accepted[Bibliography[f.paper][n]]
      BY <1>9, <2>4, <3>2
    <3>4. QED BY <1>6, <3>1, <3>3 DEF PassedGood, Connected
  <2>10. HeadGood(accepted', redirect', cites', merge', f)
    <3>1. HeadGood(accepted, redirect, cites', merge', f)
      BY <2>5 DEF RunGood
    <3>2. f.op # "resolve" => accepted'[Head(f.left)] = accepted[Head(f.left)]
      BY <1>9, <2>6, <2>7
    <3>3. QED BY <1>6, <3>1, <3>2 DEF HeadGood, AcceptedAs, Connected
  <2>11. QED BY <2>1, <2>9, <2>10 DEF RunGood, f
<1>12. call'[r] = d /\ \A q \in Requests \ {r} : call'[q] = call[q]
  BY <1>4 DEF TypeInv, CallsOK
<1>13. \A q \in Requests : call'[q].op \in RunSteps => RunGood(accepted', redirect', cites', merge', call'[q])
  BY <1>10, <1>11, <1>12 DEF Running
<1>14. ASSUME NEW p \in Requests, NEW q \in Requests, call'[p].op \in RunSteps,
              call'[q].op \in RunSteps, call'[p].paper = call'[q].paper
       PROVE  p = q
  <2>1. CASE p = r BY <1>4, <1>11, <1>12, <1>14, <2>1 DEF Running
  <2>2. CASE q = r BY <1>4, <1>11, <1>12, <1>14, <2>2 DEF Running
  <2>3. CASE p # r /\ q # r BY <1>12, <1>14, <2>3 DEF Running, RunsInv
  <2>4. QED BY <2>1, <2>2, <2>3
<1>15. QED BY <1>13, <1>14 DEF RunsInv, Running

LEMMA ConnectInv ==
  ASSUME TypeInv, RunsInv, Adds, area = "evidence", NEW r \in Requests, AddEntryAssertion(r)
  PROVE  RunsInv'
<1> DEFINE c == call[r]
           e == Head(c.left)
<1>1. /\ Running(r) /\ c.op = "connect" /\ accepted' = accepted
      /\ \/ Done(r)
         \/ /\ cites' = cites \cup {<<c.citing, c.work>>}
            /\ Go(r, "harvest", c.work, None)
  BY DEF AddEntryAssertion, Doing, Running, RunSteps, evidenceVars
<1>2. AcceptedAs(accepted, redirect, e, c.work)
  BY <1>1 DEF RunsInv, RunGood, HeadGood
<1>3. CASE Done(r)
  BY <1>1, <1>3, RunStep DEF Done, Idle, RunSteps
<1>4. CASE cites' = cites \cup {<<c.citing, c.work>>} /\ Go(r, "harvest", c.work, None)
  <2>1. Connected(accepted, redirect, cites', c.citing, e)
    <3>1. <<c.citing, c.work>> \in cites'
      BY <1>4
    <3> HIDE DEF c, e
    <3>2. QED BY <1>2, <3>1 DEF AcceptedAs, Connected, Joined
  <2>2. QED BY <1>1, <1>4, <2>1, GoStep
<1>5. QED BY <1>1, <1>3, <1>4

LEMMA EvidenceInv ==
  ASSUME TypeInv, RunsInv, Adds, area = "evidence", NEW r \in Requests, EvidenceStep(r)
  PROVE  RunsInv'
<1>1. CASE CreateStub(r)
  <2>1. Running(r) /\ accepted' = accepted /\ \E w \in Work : Go(r, "accept", w, "stub")
    BY <1>1 DEF CreateStub, Doing, Running, RunSteps, evidenceVars, Owners
  <2>2. QED BY <2>1, GoStep
<1>2. CASE AttachIdentifiers(r)
  <2>1. Running(r) /\ accepted' = accepted /\ call[r].op = "attach" /\ Go(r, "connect", call[r].work, None)
    BY <1>2 DEF AttachIdentifiers, Doing, Running, RunSteps, evidenceVars
  <2>2. AcceptedAs(accepted, redirect, Head(call[r].left), call[r].work)
    BY <2>1 DEF RunsInv, RunGood, HeadGood
  <2>3. QED BY <2>1, <2>2, GoStep
<1>3. CASE RecordEntryClaims(r)
  <2>1. Running(r) /\ accepted' = accepted /\ call[r].op = "harvest" /\ NextEntry(r)
    BY <1>3 DEF RecordEntryClaims, Doing, Running, RunSteps, evidenceVars
  <2>2. Connected(accepted, redirect, cites, call[r].citing, Head(call[r].left))
    BY <2>1 DEF RunsInv, RunGood, HeadGood
  <2>3. call[r].left # <<>>
    BY <2>1, RunOf DEF Running, TypeInv, RunOK
  <2>4. QED BY <2>1, <2>2, <2>3, NextStep
<1>4. CASE EndRun(r)
  <2>1. accepted' = accepted /\ Done(r)
    BY <1>4 DEF EndRun, evidenceVars
  <2>2. QED BY <2>1, RunStep DEF Done, Idle, RunSteps
<1>5. QED
  BY <1>1, <1>2, <1>3, <1>4, StartInv, ResolveInv, FoldInv, FoldedInv, RecordInv, ConnectInv
     DEF EvidenceStep

(* A merge moves what a run has recorded, and the Works it holds lead where *)
(* the merged ones lead.                                                    *)
LEMMA RunsCommit ==
  ASSUME TypeInv, RunsInv, Commit
  PROVE  RunsInv'
<1>1. /\ merge # NoMerge /\ MoveRedirects /\ RepointAssertions /\ UNCHANGED call
      /\ accepted' = [e \in Entries |-> IF accepted[e] = None THEN None ELSE To(accepted[e])]
  BY DEF Commit, CommitWorks, MoveResolutions
<1>2. /\ merge.from \in Work /\ merge.into \in Work
      /\ redirect[merge.from] = None /\ redirect[merge.into] = None
      /\ \A w \in Work : To(w) \in Work
  BY <1>1, MergeIs
<1>3. None \notin Work
  BY WorksAssumption
<1>4. ASSUME NEW e \in Entries, NEW citing \in Work, NEW w \in Work
      PROVE  /\ accepted'[e] # None <=> accepted[e] # None
             /\ Connected(accepted, redirect, cites, citing, e) =>
                  Connected(accepted', redirect', cites', citing, e)
             /\ AcceptedAs(accepted, redirect, e, w) => AcceptedAs(accepted', redirect', e, w)
  <2>1. accepted[e] \in Work \cup {None} /\ accepted'[e] = IF accepted[e] = None THEN None ELSE To(accepted[e])
    BY <1>1 DEF TypeInv, RowsOK
  <2>2. accepted'[e] # None <=> accepted[e] # None
    BY <1>2, <1>3, <2>1
  <2>3. ASSUME accepted[e] # None
        PROVE  /\ Joined(redirect, cites, citing, accepted[e]) => Joined(redirect', cites', citing, accepted'[e])
               /\ Follow(redirect, w) = Follow(redirect, accepted[e]) =>
                    Follow(redirect', w) = Follow(redirect', accepted'[e])
    <3>1. accepted[e] \in Work /\ accepted'[e] \in {accepted[e], To(accepted[e])}
      BY <2>1, <2>3
    <3>2. QED BY <1>1, <3>1, JoinedMoves
  <2>4. QED BY <2>2, <2>3 DEF Connected, AcceptedAs
<1>5. ASSUME NEW r \in Requests, Running(r)
      PROVE  RunGood(accepted', redirect', cites', NoMerge, call[r])
  <2> DEFINE c == call[r]
             entries == Bibliography[c.paper]
             e == Head(c.left)
  <2>1. RunOK(c) /\ RunGood(accepted, redirect, cites, merge, c)
    BY <1>5, RunOf DEF Running, TypeInv, RunsInv
  <2>2. /\ c.paper \in Papers /\ entries \in Seq(Entries) /\ c.citing \in Work
        /\ c.left \in Seq(Entries)
    BY <2>1, EvidenceAssumption DEF RunOK
  <2>3. /\ c.op # "resolve" => e \in Entries
        /\ c.op \in {"fold", "folding"} => c.method \in Work
        /\ c.op \in {"fold", "folding", "attach", "connect"} => c.work \in Work
    BY <2>1, <2>2 DEF RunOK
  <2>4. \A n \in 1 .. Len(entries) - Len(c.left) : entries[n] \in Entries
    BY <2>2
  <2> HIDE DEF c
  <2>5. PassedGood(accepted', redirect', cites', c)
    <3>1. PassedGood(accepted, redirect, cites, c)
      BY <2>1 DEF RunGood
    <3>2. \A n \in 1 .. Len(entries) - Len(c.left) :
            (accepted[entries[n]] # None => Connected(accepted, redirect, cites, c.citing, entries[n])) =>
            (accepted'[entries[n]] # None => Connected(accepted', redirect', cites', c.citing, entries[n]))
      <4> HIDE DEF entries
      <4>1. QED BY <1>4, <2>2, <2>4
    <3>3. QED BY <3>1, <3>2 DEF PassedGood
  <2> HIDE DEF e
  <2>6. HeadGood(accepted, redirect, cites, merge, c)
    BY <2>1 DEF RunGood
  <2>7. ASSUME c.op \in {"fold", "folding"} PROVE AcceptedAs(accepted', redirect', e, c.method)
    BY <1>4, <2>2, <2>3, <2>6, <2>7 DEF HeadGood, e
  <2>8. ASSUME c.op = "folding" PROVE Follow(redirect', c.method) = Follow(redirect', c.work)
    <3>1. c.method \in Work /\ c.work \in Work
      BY <2>3, <2>8
    <3>2. CASE Follow(redirect, c.method) = Follow(redirect, c.work)
      BY <1>1, <3>1, <3>2, JoinedMoves
    <3>3. CASE merge.from = c.method /\ merge.into = c.work
      <4>1. /\ Follow(redirect', c.method) = To(Follow(redirect, c.method))
            /\ Follow(redirect', c.work) = To(Follow(redirect, c.work))
        BY <1>1, <3>1, FollowMoves
      <4>2. QED BY <1>2, <3>3, <4>1 DEF Follow, To
    <3>4. QED BY <2>6, <2>8, <3>2, <3>3 DEF HeadGood
  <2>9. ASSUME c.op \in {"attach", "connect"} PROVE AcceptedAs(accepted', redirect', e, c.work)
    BY <1>4, <2>2, <2>3, <2>6, <2>9 DEF HeadGood, e
  <2>10. ASSUME c.op = "harvest" PROVE Connected(accepted', redirect', cites', c.citing, e)
    BY <1>4, <2>2, <2>3, <2>6, <2>10 DEF HeadGood, e
  <2>11. HeadGood(accepted', redirect', cites', NoMerge, c)
    BY <2>7, <2>8, <2>9, <2>10 DEF HeadGood, e
  <2>12. QED BY <2>5, <2>11 DEF RunGood, c
<1>6. merge' = NoMerge
  BY DEF Commit, CommitWorks
<1>7. QED BY <1>1, <1>5, <1>6 DEF RunsInv, Running

LEMMA NextRuns ==
  ASSUME TypeInv, CatalogNext
  PROVE  \/ Commit
         \/ Adds /\ area = "evidence" /\ \E r \in Requests : EvidenceStep(r)
         \/ Adds /\ CallsOK' /\ UNCHANGED <<area, accepted>> /\ (area = "evidence" => UNCHANGED call)
<1>1. ASSUME NEW r \in Requests, Write(r), area # "evidence" PROVE UNCHANGED accepted
  BY <1>1 DEF Write, Others, evidenceVars
<1>2. ASSUME NEW r \in Requests, Write(r), area = "evidence" PROVE EvidenceStep(r)
  BY <1>2 DEF Write
<1>3. CASE MergeStep /\ UNCHANGED <<curationVars, rampsVars, Others>>
  BY <1>3, NextAdds DEF MergeStep, MergeWork, Others, evidenceVars
<1>4. CASE MoveItems /\ UNCHANGED <<curationVars, Others>>
  BY <1>4, NextAdds DEF MoveItems, Others, evidenceVars
<1>5. CASE \E r \in Requests : Write(r)
  BY <1>1, <1>2, <1>5, NextAdds
<1>6. QED BY <1>3, <1>4, <1>5 DEF CatalogNext

LEMMA RunsNext == TypeInv /\ RunsInv /\ [CatalogNext]_catalogVars => RunsInv'
<1> SUFFICES ASSUME TypeInv, RunsInv, [CatalogNext]_catalogVars PROVE RunsInv'
  OBVIOUS
<1>1. CASE Adds /\ CallsOK' /\ UNCHANGED <<area, accepted>> /\ (area = "evidence" => UNCHANGED call)
  <2>1. CASE area = "evidence"
    <3>1. call' = call /\ accepted' = accepted
      BY <1>1, <2>1
    <3>2. /\ merge # NoMerge => merge' # NoMerge /\ merge'.from = merge.from /\ merge'.into = merge.into
          /\ redirect' = redirect /\ cites \subseteq cites'
      BY <1>1, <2>1, AddsMerge
    <3>3. \A r \in Requests : Running(r) => RunGood(accepted, redirect, cites', merge', call[r])
      BY <3>2, RunGrows DEF RunsInv
    <3>4. QED BY <3>1, <3>2, <3>3 DEF RunsInv, Running
  <2>2. CASE area # "evidence"
    <3>1. \A r \in Requests : call'[r].op \notin RunSteps
      BY <1>1, <2>2 DEF CallsOK, CallOK, InArea
    <3>2. QED BY <3>1 DEF RunsInv, Running
  <2>3. QED BY <2>1, <2>2
<1>2. CASE UNCHANGED catalogVars
  <2>1. UNCHANGED <<redirect, cites, merge, call, accepted>>
    BY <1>2 DEF catalogVars, worksVars, evidenceVars
  <2>2. QED BY <2>1 DEF RunsInv, Running
<1>3. QED BY <1>1, <1>2, NextRuns, EvidenceInv, RunsCommit

LEMMA RunsInit == CatalogInit => RunsInv
BY DEF CatalogInit, WorksInit, RunsInv, Running, RunSteps, Idle

LEMMA RunsImply == TypeInv /\ RunsInv => PassedConnected
<1> SUFFICES ASSUME TypeInv, RunsInv, NEW r \in Requests, Running(r),
                    NEW n \in 1 .. Len(Bibliography[call[r].paper]) - Len(call[r].left),
                    accepted[Bibliography[call[r].paper][n]] # None
             PROVE  \E c \in cites :
                      /\ Resolved(c[1]) = Resolved(call[r].citing)
                      /\ Resolved(c[2]) = Resolved(accepted[Bibliography[call[r].paper][n]])
  BY DEF PassedConnected
<1> DEFINE c == call[r]
           e == Bibliography[c.paper][n]
<1>1. RunOK(c) /\ RunGood(accepted, redirect, cites, merge, c)
  BY RunOf DEF Running, TypeInv, RunsInv
<1>2. Joined(redirect, cites, c.citing, accepted[e])
  BY <1>1 DEF RunGood, PassedGood, Connected
<1>3. c.citing \in Work /\ Bibliography[c.paper] \in Seq(Entries) /\ Len(c.left) \in Nat
  BY <1>1, EvidenceAssumption DEF RunOK
<1>4. e \in Entries
  BY <1>3
<1>5. accepted[e] \in Work
  BY <1>4 DEF TypeInv, RowsOK
<1>6. \A v \in Work : Resolved(v) = Follow(redirect, v)
  BY ResolvedFlat
<1>7. \A d \in cites : d[1] \in Work /\ d[2] \in Work
  BY DEF TypeInv, TablesOK
<1>8. QED BY <1>2, <1>3, <1>5, <1>6, <1>7 DEF Joined

(* Every entry a run of the local evidence has come past is connected when  *)
(* it is accepted, for any number of papers, entries and requests, also     *)
(* when earlier runs were lost between any two of their steps and Works are *)
(* merged meanwhile.                                                        *)
THEOREM EntriesConnected == CatalogSpec => []PassedConnected
<1>1. CatalogSpec => [](TypeInv /\ RunsInv)
  BY TypeInit, TypeNext, RunsInit, RunsNext, PTL DEF CatalogSpec
<1>2. QED BY <1>1, RunsImply, PTL

-----------------------------------------------------------------------------
(* Flows of the literature.  Identifier i names the Work that w leads to.   *)
Names(ow, rd, i, w) == \E p \in ow : p[1] = i /\ Follow(rd, p[2]) = Follow(rd, w)

FlowGood(ow, rd, c) ==
  /\ c.op \notin {"titles", "title"} /\ c.work # None =>
       \E i \in EvidenceOf(c.paper) : Names(ow, rd, i, c.work)
  /\ c.op = "assert" => Names(ow, rd, Head(c.left), c.cited)
  /\ c.op \in {"titles", "title"} => \A p \in c.rows : Names(ow, rd, p[1], p[2])

FlowsInv == \A r \in Requests : Flowing(r) => FlowGood(owner, redirect, call[r])

LEMMA FlowGrows ==
  ASSUME Adds, NEW c, FlowGood(owner, redirect, c)
  PROVE  FlowGood(owner', redirect', c)
<1>1. owner \subseteq owner' /\ redirect' = redirect
  BY DEF Adds, AddsOwner
<1>2. \A i, w : Names(owner, redirect, i, w) => Names(owner', redirect', i, w)
  BY <1>1 DEF Names
<1>3. QED BY <1>2 DEF FlowGood

(* A step of request r, whose call becomes d, leaves the other flows good.  *)
LEMMA FlowStep ==
  ASSUME TypeInv, FlowsInv, Adds, NEW r \in Requests, NEW d, Proceed(r, d),
         d.op \in FlowSteps => FlowGood(owner', redirect', d)
  PROVE  FlowsInv'
<1>1. call'[r] = d /\ \A q \in Requests \ {r} : call'[q] = call[q]
  BY DEF TypeInv, CallsOK, Proceed
<1>2. ASSUME NEW q \in Requests, q # r, Flowing(q) PROVE FlowGood(owner', redirect', call[q])
  BY <1>2, FlowGrows DEF FlowsInv
<1>3. QED BY <1>1, <1>2 DEF FlowsInv, Flowing

(* The steps that change neither the Work nor what it is compared with.     *)
LEMMA SameWork ==
  ASSUME TypeInv, FlowsInv, Adds, NEW r \in Requests, Flowing(r), NEW d, Proceed(r, d),
         d.paper = call[r].paper, d.work = call[r].work, d.rows = call[r].rows,
         call[r].op \notin {"titles", "title"}, d.op \notin {"assert", "titles", "title"}
  PROVE  FlowsInv'
<1>1. FlowGood(owner', redirect', call[r])
  BY FlowGrows DEF FlowsInv
<1>2. FlowGood(owner', redirect', d)
  BY <1>1 DEF FlowGood
<1>3. QED BY <1>2, FlowStep

LEMMA DoneFlow ==
  ASSUME TypeInv, FlowsInv, Adds, NEW r \in Requests, Done(r)
  PROVE  FlowsInv'
BY FlowStep DEF Done, Proceed, Idle, FlowSteps

LEMMA FlowIs ==
  ASSUME TypeInv, NEW r \in Requests, NEW op \in FlowSteps, Doing(r, op)
  PROVE  /\ Flowing(r) /\ FlowOK(call[r]) /\ call[r].op = op
         /\ DOMAIN call[r] = {"op", "paper", "work", "provider", "look", "make", "attach", "left",
                              "cited", "listed", "rows"}
<1>1. call[r].op = op /\ Flowing(r)
  BY DEF Doing, Flowing
<1>2. FlowOK(call[r])
  BY <1>1, FlowOf DEF Flowing, TypeInv
<1>3. QED BY <1>1, <1>2 DEF FlowOK

(* The Work a look-up of i finds, or that is made for i, has i.             *)
LEMMA GetsNames ==
  ASSUME TypeInv, NEW i, NEW w, Adds, Gets(i, w)
  PROVE  Names(owner', redirect', i, w)
<1>1. <<i, w>> \in owner' /\ <<i, w>>[1] = i /\ <<i, w>>[2] = w
  BY DEF Gets
<1>2. QED BY <1>1 DEF Names

LEMMA StartFlowInv ==
  ASSUME TypeInv, FlowsInv, Adds, NEW r \in Requests, StartFlow(r)
  PROVE  FlowsInv'
<1> DEFINE c(p) == [op |-> IF Front[p] = None THEN "search" ELSE "provider", paper |-> p,
                    work |-> None, provider |-> None, look |-> <<>>, make |-> None,
                    attach |-> <<>>, left |-> <<>>, cited |-> None, listed |-> {},
                    rows |-> {}]
<1>1. PICK p \in Pdfs : Begin(r, c(p))
  BY DEF StartFlow
<1>2. FlowGood(owner', redirect', c(p))
  BY DEF FlowGood
<1> HIDE DEF c
<1>3. QED BY <1>1, <1>2, FlowStep DEF Begin, Proceed

LEMMA LookUpProviderInv ==
  ASSUME TypeInv, FlowsInv, Adds, NEW r \in Requests, LookUpProvider(r)
  PROVE  FlowsInv'
<1> DEFINE c == call[r]
           i == Front[c.paper]
           d(o) == [c EXCEPT !.op = "own work", !.provider = o, !.make = i,
                             !.look = Printable(o) \o <<i>>, !.attach = <<i>>]
<1>1. c.op = "provider" /\ Flowing(r) /\ FlowOK(c)
  BY FlowIs DEF LookUpProvider, FlowSteps
<1>2. PICK o : Proceed(r, d(o))
  BY DEF LookUpProvider
<1>3. d(o).op = "own work" /\ d(o).paper = c.paper /\ d(o).work = c.work /\ d(o).rows = c.rows
  BY <1>1 DEF FlowOK
<1> HIDE DEF d
<1>4. QED BY <1>1, <1>2, <1>3, SameWork

LEMMA SearchTitleInv ==
  ASSUME TypeInv, FlowsInv, Adds, NEW r \in Requests, SearchTitle(r)
  PROVE  FlowsInv'
<1> DEFINE c == call[r]
           b(o) == [c EXCEPT !.provider = o]
           link == Step(b(None), "linking")
           d(o) == [b(o) EXCEPT !.op = IF c.work = None THEN "own work" ELSE "identifiers",
                                !.make = o, !.look = IF c.work = None THEN <<o>> ELSE <<>>,
                                !.attach = ProviderIds(o)]
<1>1. c.op = "search" /\ Flowing(r) /\ FlowOK(c)
  BY FlowIs DEF SearchTitle, FlowSteps
<1>2. \A o : b(o).work = c.work
  BY <1>1 DEF FlowOK
<1>3. Done(r) \/ Proceed(r, link) \/ \E o : Proceed(r, d(o))
  BY <1>2 DEF SearchTitle
<1>4. link.op = "linking" /\ link.paper = c.paper /\ link.work = c.work /\ link.rows = c.rows
  BY <1>1 DEF FlowOK, Step
<1>5. \A o : /\ d(o).op \in {"own work", "identifiers"}
             /\ d(o).paper = c.paper /\ d(o).work = c.work /\ d(o).rows = c.rows
  BY <1>1 DEF FlowOK
<1> HIDE DEF d, link
<1>6. QED BY <1>1, <1>3, <1>4, <1>5, SameWork, DoneFlow

LEMMA FindWorkInv ==
  ASSUME TypeInv, FlowsInv, Adds, NEW r \in Requests, FindWork(r)
  PROVE  FlowsInv'
<1> DEFINE c == call[r]
           i == Head(c.look)
           next == [c EXCEPT !.look = Tail(@)]
           d(w) == [c EXCEPT !.op = "identifiers", !.work = w, !.look = <<>>]
<1>1. c.op = "own work" /\ Flowing(r) /\ FlowOK(c) /\ c.look # <<>> /\ owner' = owner
  BY FlowIs DEF FindWork, FlowSteps, NoOther, WorksKept
<1>2. \/ Proceed(r, next)
      \/ Owners(i, owner) # {} /\ Proceed(r, d(Owner(i)))
  BY DEF FindWork
<1>3. CASE Proceed(r, next)
  <2>1. next.op = "own work" /\ next.paper = c.paper /\ next.work = c.work /\ next.rows = c.rows
    BY <1>1 DEF FlowOK
  <2> HIDE DEF next
  <2>2. QED BY <1>1, <1>3, <2>1, SameWork
<1>4. CASE Owners(i, owner) # {} /\ Proceed(r, d(Owner(i)))
  <2>1. i \in EvidenceOf(c.paper)
    <3>1. c.look \in Seq(EvidenceOf(c.paper))
      BY <1>1 DEF FlowOK
    <3>2. QED BY <1>1, <3>1, TailOK
  <2> DEFINE w == Owner(i)
  <2>2. <<i, w>> \in owner' /\ <<i, w>>[1] = i /\ <<i, w>>[2] = w
    BY <1>1, <1>4, OwnerIs
  <2>3. Names(owner', redirect', i, w)
    <3> HIDE DEF w, i
    <3>1. QED BY <2>2 DEF Names
  <2>4. d(w).op = "identifiers" /\ d(w).paper = c.paper /\ d(w).work = w
    BY <1>1 DEF FlowOK
  <2> HIDE DEF d, w, i
  <2>5. FlowGood(owner', redirect', d(w))
    BY <2>1, <2>3, <2>4 DEF FlowGood
  <2>6. QED BY <1>4, <2>5, FlowStep DEF w
<1>5. QED BY <1>2, <1>3, <1>4

LEMMA MakeWorkInv ==
  ASSUME TypeInv, FlowsInv, Adds, NEW r \in Requests, MakeWork(r)
  PROVE  FlowsInv'
<1> DEFINE c == call[r]
           d(w) == [c EXCEPT !.op = "identifiers", !.work = w]
<1>1. c.op = "own work" /\ Flowing(r) /\ FlowOK(c)
  BY FlowIs DEF MakeWork, FlowSteps
<1>2. PICK w : Gets(c.make, w) /\ Proceed(r, d(w))
  BY DEF MakeWork
<1>3. Names(owner', redirect', c.make, w)
  BY <1>2, GetsNames
<1>4. c.make \in EvidenceOf(c.paper)
  BY <1>1 DEF FlowOK
<1>5. d(w).op = "identifiers" /\ d(w).paper = c.paper /\ d(w).work = w
  BY <1>1 DEF FlowOK
<1> HIDE DEF d
<1>6. FlowGood(owner', redirect', d(w))
  BY <1>3, <1>4, <1>5 DEF FlowGood
<1>7. QED BY <1>2, <1>6, FlowStep

LEMMA AttachInv ==
  ASSUME TypeInv, FlowsInv, Adds, NEW r \in Requests, Attach(r) \/ Attached(r) \/ LinkDocument(r)
  PROVE  FlowsInv'
<1> DEFINE c == call[r]
           next == [c EXCEPT !.attach = Tail(@)]
           again == [c EXCEPT !.attach = ProviderIds(c.provider), !.make = c.provider]
           d(op) == [c EXCEPT !.op = op]
<1>1. c.op \in {"identifiers", "linking"} /\ Flowing(r) /\ FlowOK(c)
  BY FlowIs DEF Attach, Attached, LinkDocument, FlowSteps
<1>2. \/ Proceed(r, next) \/ Proceed(r, again)
      \/ Proceed(r, d("search")) \/ Proceed(r, d("linking")) \/ Proceed(r, d("fill"))
  BY DEF Attach, Attached, LinkDocument, Step
<1>3. /\ next.op = c.op /\ next.paper = c.paper /\ next.work = c.work /\ next.rows = c.rows
      /\ again.op = c.op /\ again.paper = c.paper /\ again.work = c.work /\ again.rows = c.rows
  BY <1>1 DEF FlowOK
<1>4. \A op : d(op).op = op /\ d(op).paper = c.paper /\ d(op).work = c.work /\ d(op).rows = c.rows
  BY <1>1 DEF FlowOK
<1> HIDE DEF next, again, d
<1>5. CASE Proceed(r, next) \/ Proceed(r, again)
  BY <1>1, <1>3, <1>5, SameWork
<1>6. CASE Proceed(r, d("search")) \/ Proceed(r, d("linking")) \/ Proceed(r, d("fill"))
  BY <1>1, <1>4, <1>6, SameWork
<1>7. QED BY <1>2, <1>5, <1>6

LEMMA FillInv ==
  ASSUME TypeInv, FlowsInv, Adds, NEW r \in Requests, FillDisplayFields(r) \/ ReadCited(r)
  PROVE  FlowsInv'
<1> DEFINE c == call[r]
           d == [c EXCEPT !.op = "reference", !.left = References[c.provider]]
           e == [c EXCEPT !.op = "cited",
                          !.listed = {w \in Work : <<c.work, w>> \in cites} \cup {c.work}]
<1>1. c.op \in {"fill", "reference"} /\ Flowing(r) /\ FlowOK(c)
  BY FlowIs DEF FillDisplayFields, ReadCited, FlowSteps
<1>2. Done(r) \/ Proceed(r, d) \/ Proceed(r, e)
  BY DEF FillDisplayFields, ReadCited
<1>3. /\ d.op = "reference" /\ d.paper = c.paper /\ d.work = c.work /\ d.rows = c.rows
      /\ e.op = "cited" /\ e.paper = c.paper /\ e.work = c.work /\ e.rows = c.rows
  BY <1>1 DEF FlowOK
<1> HIDE DEF d, e
<1>4. QED BY <1>1, <1>2, <1>3, SameWork, DoneFlow

LEMMA ResolveReferenceInv ==
  ASSUME TypeInv, FlowsInv, Adds, NEW r \in Requests, ResolveReference(r)
  PROVE  FlowsInv'
<1> DEFINE c == call[r]
           d(w) == [c EXCEPT !.op = "assert", !.cited = w]
<1>1. c.op = "reference" /\ Flowing(r) /\ FlowOK(c)
  BY FlowIs DEF ResolveReference, FlowSteps
<1>2. PICK w : Gets(Head(c.left), w) /\ Proceed(r, d(w))
  BY DEF ResolveReference
<1>3. Names(owner', redirect', Head(c.left), w)
  BY <1>2, GetsNames
<1>4. d(w).op = "assert" /\ d(w).paper = c.paper /\ d(w).work = c.work /\ d(w).cited = w /\ d(w).left = c.left
  BY <1>1 DEF FlowOK
<1>5. FlowGood(owner', redirect', c)
  <2> HIDE DEF c
  <2>1. FlowGood(owner, redirect, c)
    BY <1>1 DEF FlowsInv, c
  <2>2. QED BY <2>1, FlowGrows
<1> HIDE DEF d
<1>6. FlowGood(owner', redirect', d(w))
  BY <1>1, <1>3, <1>4, <1>5 DEF FlowGood
<1>7. QED BY <1>2, <1>6, FlowStep

LEMMA AssertReferenceInv ==
  ASSUME TypeInv, FlowsInv, Adds, NEW r \in Requests, AssertReference(r)
  PROVE  FlowsInv'
<1> DEFINE c == call[r]
           d == [c EXCEPT !.op = "reference", !.left = Tail(@), !.cited = None]
<1>1. c.op = "assert" /\ Flowing(r) /\ FlowOK(c)
  BY FlowIs DEF AssertReference, FlowSteps
<1>2. Proceed(r, d)
  BY DEF AssertReference
<1>3. d.op = "reference" /\ d.paper = c.paper /\ d.work = c.work /\ d.rows = c.rows
  BY <1>1 DEF FlowOK
<1> HIDE DEF d
<1>4. QED BY <1>1, <1>2, <1>3, SameWork

LEMMA ReadIdsInv ==
  ASSUME TypeInv, FlowsInv, Adds, NEW r \in Requests, ReadIds(r)
  PROVE  FlowsInv'
<1> DEFINE c == call[r]
           rows == {p \in owner : p[1] \in OpenAlex /\ p[2] \in c.listed}
           d == [c EXCEPT !.op = "titles", !.listed = {}, !.rows = rows]
<1>1. c.op = "cited" /\ Flowing(r) /\ FlowOK(c) /\ owner' = owner
  BY FlowIs DEF ReadIds, FlowSteps, NoOther, WorksKept
<1>2. Proceed(r, d)
  BY DEF ReadIds
<1>3. d.op = "titles" /\ d.rows = rows
  BY <1>1 DEF FlowOK
<1>4. \A p \in rows : Names(owner', redirect', p[1], p[2])
  BY <1>1 DEF Names
<1> HIDE DEF d
<1>5. FlowGood(owner', redirect', d)
  BY <1>3, <1>4 DEF FlowGood
<1>6. QED BY <1>2, <1>5, FlowStep

LEMMA TitleInv ==
  ASSUME TypeInv, FlowsInv, Adds, NEW r \in Requests, Hydrate(r) \/ RecordSummary(r)
  PROVE  FlowsInv'
<1> DEFINE c == call[r]
           d(p) == [c EXCEPT !.op = "title", !.work = p[2], !.rows = @ \ {p}]
           e == [c EXCEPT !.op = "titles"]
<1>1. c.op \in {"titles", "title"} /\ Flowing(r) /\ FlowOK(c)
  BY FlowIs DEF Hydrate, RecordSummary, FlowSteps
<1>2. Done(r) \/ Proceed(r, e) \/ \E p : Proceed(r, d(p))
  BY DEF Hydrate, RecordSummary, Step
<1>3. /\ e.op = "titles" /\ e.rows = c.rows
      /\ \A p : d(p).op = "title" /\ d(p).rows = c.rows \ {p}
  BY <1>1 DEF FlowOK
<1>4. FlowGood(owner', redirect', c)
  <2> HIDE DEF c
  <2>1. FlowGood(owner, redirect, c)
    BY <1>1 DEF FlowsInv, c
  <2>2. QED BY <2>1, FlowGrows
<1> HIDE DEF d, e
<1>5. FlowGood(owner', redirect', e) /\ \A p : FlowGood(owner', redirect', d(p))
  BY <1>1, <1>3, <1>4 DEF FlowGood
<1>6. QED BY <1>2, <1>5, FlowStep, DoneFlow

LEMMA LiteratureInv ==
  ASSUME TypeInv, FlowsInv, Adds, NEW r \in Requests, LiteratureStep(r)
  PROVE  FlowsInv'
BY StartFlowInv, LookUpProviderInv, SearchTitleInv, FindWorkInv, MakeWorkInv, AttachInv, FillInv,
   ResolveReferenceInv, AssertReferenceInv, ReadIdsInv, TitleInv, DoneFlow
   DEF LiteratureStep, EndFlow

(* A merge moves the identifiers with their Works.                          *)
LEMMA FlowsCommit ==
  ASSUME TypeInv, FlowsInv, Commit
  PROVE  FlowsInv'
<1>1. /\ merge # NoMerge /\ MoveRedirects /\ UNCHANGED call
      /\ owner' = {<<p[1], To(p[2])>> : p \in owner}
  BY DEF Commit, CommitWorks, MoveIdentifiers
<1>2. ASSUME NEW i, NEW w \in Work, Names(owner, redirect, i, w)
      PROVE  Names(owner', redirect', i, w)
  <2>1. PICK p \in owner : p[1] = i /\ Follow(redirect, p[2]) = Follow(redirect, w)
    BY <1>2 DEF Names
  <2>2. p[2] \in Work
    BY DEF TypeInv, TablesOK
  <2>3. /\ Follow(redirect', To(p[2])) = To(Follow(redirect, p[2]))
        /\ Follow(redirect', w) = To(Follow(redirect, w))
    BY <1>1, <2>2, FollowMoves
  <2>4. <<p[1], To(p[2])>> \in owner'
    BY <1>1
  <2>5. QED BY <2>1, <2>3, <2>4 DEF Names
<1>3. ASSUME NEW r \in Requests, Flowing(r) PROVE FlowGood(owner', redirect', call[r])
  <2> DEFINE c == call[r]
  <2>1. FlowOK(c) /\ FlowGood(owner, redirect, c)
    BY <1>3, FlowOf DEF Flowing, FlowsInv, TypeInv
  <2>2. /\ c.work \in Work \cup {None}
        /\ c.op = "assert" => c.cited \in Work
        /\ \A p \in c.rows : p[2] \in Work
    BY <2>1 DEF FlowOK
  <2> HIDE DEF c
  <2>3. FlowGood(owner', redirect', c)
    BY <1>2, <2>1, <2>2 DEF FlowGood
  <2>4. QED BY <2>3 DEF c
<1>4. QED BY <1>1, <1>3 DEF FlowsInv, Flowing

LEMMA NextFlows ==
  ASSUME TypeInv, CatalogNext
  PROVE  \/ Commit
         \/ Adds /\ \E r \in Requests : LiteratureStep(r)
         \/ Adds /\ CallsOK' /\ UNCHANGED area /\ (area = "literature" => UNCHANGED call)
<1>1. ASSUME NEW r \in Requests, Write(r), area = "literature" PROVE LiteratureStep(r)
  BY <1>1 DEF Write
<1>2. CASE MergeStep /\ UNCHANGED <<curationVars, rampsVars, Others>>
  BY <1>2, NextAdds DEF MergeStep, MergeWork
<1>3. CASE MoveItems /\ UNCHANGED <<curationVars, Others>>
  BY <1>3, NextAdds DEF MoveItems
<1>4. CASE \E r \in Requests : Write(r)
  BY <1>1, <1>4, NextAdds
<1>5. QED BY <1>2, <1>3, <1>4 DEF CatalogNext

LEMMA FlowsNext == TypeInv /\ FlowsInv /\ [CatalogNext]_catalogVars => FlowsInv'
<1> SUFFICES ASSUME TypeInv, FlowsInv, [CatalogNext]_catalogVars PROVE FlowsInv'
  OBVIOUS
<1>1. CASE Adds /\ CallsOK' /\ UNCHANGED area /\ (area = "literature" => UNCHANGED call)
  <2>1. CASE area = "literature"
    <3>1. call' = call
      BY <1>1, <2>1
    <3>2. \A r \in Requests : Flowing(r) => FlowGood(owner', redirect', call[r])
      BY <1>1, FlowGrows DEF FlowsInv
    <3>3. QED BY <3>1, <3>2 DEF FlowsInv, Flowing
  <2>2. CASE area # "literature"
    <3>1. \A r \in Requests : call'[r].op \notin FlowSteps
      BY <1>1, <2>2 DEF CallsOK, CallOK, InArea
    <3>2. QED BY <3>1 DEF FlowsInv, Flowing
  <2>3. QED BY <2>1, <2>2
<1>2. CASE UNCHANGED catalogVars
  <2>1. UNCHANGED <<redirect, owner, call>>
    BY <1>2 DEF catalogVars, worksVars
  <2>2. QED BY <2>1 DEF FlowsInv, Flowing
<1>3. QED BY <1>1, <1>2, NextFlows, LiteratureInv, FlowsCommit

LEMMA FlowsInit == CatalogInit => FlowsInv
<1>1. CatalogInit => \A r \in Requests : call[r].op = "none"
  BY DEF CatalogInit, WorksInit, Idle
<1>2. QED BY <1>1 DEF FlowsInv, Flowing, FlowSteps

LEMMA FlowsImply == TypeInv /\ FlowsInv => RecordsMatch
<1> SUFFICES ASSUME TypeInv, FlowsInv, NEW r \in Requests, Flowing(r)
             PROVE  LET c == call[r] IN
                      /\ c.op \notin {"titles", "title"} /\ c.work # None =>
                           \E i \in EvidenceOf(c.paper) : Resolved(c.work) \in Named(i)
                      /\ c.op = "assert" => Resolved(c.cited) \in Named(Head(c.left))
                      /\ c.op \in {"titles", "title"} =>
                           \A p \in c.rows : Resolved(p[2]) \in Named(p[1])
  BY DEF RecordsMatch
<1> DEFINE c == call[r]
<1>1. FlowOK(c) /\ FlowGood(owner, redirect, c)
  BY FlowOf DEF Flowing, FlowsInv, TypeInv
<1>2. /\ c.work \in Work \cup {None}
      /\ c.op = "assert" => c.cited \in Work
      /\ \A p \in c.rows : p[2] \in Work
  BY <1>1 DEF FlowOK
<1>3. ASSUME NEW i, NEW w \in Work, Names(owner, redirect, i, w) PROVE Resolved(w) \in Named(i)
  <2>1. PICK p \in owner : p[1] = i /\ Follow(redirect, p[2]) = Follow(redirect, w)
    BY <1>3 DEF Names
  <2>2. p[2] \in Work /\ <<i, p[2]>> \in owner
    BY <2>1 DEF TypeInv, TablesOK
  <2>3. Resolved(p[2]) = Resolved(w)
    BY <2>1, <2>2, ResolvedFlat
  <2>4. QED BY <2>2, <2>3 DEF Named, Owners
<1> HIDE DEF c
<1>4. /\ c.op \notin {"titles", "title"} /\ c.work # None =>
           \E i \in EvidenceOf(c.paper) : Resolved(c.work) \in Named(i)
      /\ c.op = "assert" => Resolved(c.cited) \in Named(Head(c.left))
      /\ c.op \in {"titles", "title"} => \A p \in c.rows : Resolved(p[2]) \in Named(p[1])
  BY <1>1, <1>2, <1>3 DEF FlowGood
<1>5. QED BY <1>4 DEF c

(* What a flow links, cites and describes is what its evidence names, for   *)
(* any number of papers, records, Works and flows, whichever flows race for *)
(* an identifier and whatever is merged meanwhile.                          *)
THEOREM RecordsAlwaysMatch == CatalogSpec => []RecordsMatch
<1>1. CatalogSpec => [](TypeInv /\ FlowsInv)
  BY TypeInit, TypeNext, FlowsInit, FlowsNext, PTL DEF CatalogSpec
<1>2. QED BY <1>1, FlowsImply, PTL

-----------------------------------------------------------------------------
(* What is displayed.                                                       *)

(* The claims about the other Works stay, and Work w shows what selection   *)
(* picks from its own, if it has any.                                       *)
Same(v) == \A i \in About(claims', v) : i \in About(claims, v) /\ claims'[i] = claims[i]

Shows(w) == shown'[w] = Selection(claims', w)

Rewrites(w) ==
  /\ \A v \in Work : v # w => Same(v)
  /\ About(claims', w) = {} \/ Shows(w)

Reviews ==
  \E r \in Requests : Doing(r, "review") /\ call[r].work # claims[call[r].claim].work

(* What a step of request r does to the claims.                             *)
ClaimsFollow(r) ==
  \/ claims' = claims
  \/ call[r].work \in Work /\ Rewrites(call[r].work)
  \/ Reviews /\ \A v \in Work : About(claims', v) \subseteq About(claims, v)

LEMMA ReselectedIs ==
  ASSUME TablesOK, NEW cs, NEW w \in Work, About(cs, w) # {}
  PROVE  Reselect(cs, w)[w] = Selection(cs, w)
BY DEF TablesOK, Reselect

LEMMA Reselected ==
  ASSUME TablesOK, NEW w \in Work, shown' = Reselect(claims', w)
  PROVE  About(claims', w) = {} \/ Shows(w)
<1>1. CASE About(claims', w) # {}
  <2>1. Reselect(claims', w)[w] = Selection(claims', w)
    BY <1>1, ReselectedIs
  <2>2. QED BY <2>1 DEF Shows
<1>2. QED BY <1>1

(* A claim inserted for a Work changes nothing about the others.            *)
LEMMA InsertSame ==
  ASSUME NEW cs \in Seq(Claim), NEW w, NEW value, NEW rank, NEW v, v # w
  PROVE  \A i \in About(Insert(cs, w, value, rank), v) :
           i \in About(cs, v) /\ Insert(cs, w, value, rank)[i] = cs[i]
<1> DEFINE new == [work |-> w, value |-> value, rank |-> rank, rejected |-> FALSE, retracted |-> FALSE]
           is == Insert(cs, w, value, rank)
<1>1. is = Append(cs, new) /\ new.work = w
  BY DEF Insert
<1>2. /\ DOMAIN is = DOMAIN cs \cup {Len(cs) + 1}
      /\ \A i \in DOMAIN cs : is[i] = cs[i]
      /\ is[Len(cs) + 1] = new
  <2> HIDE DEF new, is
  <2>1. QED BY <1>1
<1> HIDE DEF new, is
<1>3. \A i \in About(is, v) : i \in About(cs, v) /\ is[i] = cs[i]
  BY <1>1, <1>2 DEF About
<1>4. QED BY <1>3 DEF is

(* Claims about a Work that are retracted change nothing about the others.  *)
LEMMA RetractSame ==
  ASSUME NEW cs \in Seq(Claim), NEW w, NEW v, v # w
  PROVE  LET kept == Retract(cs, Overrides(cs, w)) IN
         \A i \in About(kept, v) : i \in About(cs, v) /\ kept[i] = cs[i]
<1> DEFINE S == Overrides(cs, w)
           kept == Retract(cs, S)
<1>1. \A i \in DOMAIN cs : cs[i] \in Claim
  OBVIOUS
<1>2. \A c \in Claim : [c EXCEPT !.retracted = TRUE].work = c.work
  BY DEF Claim
<1>3. /\ DOMAIN kept = DOMAIN cs
      /\ \A i \in DOMAIN cs : kept[i] = IF i \in S THEN [cs[i] EXCEPT !.retracted = TRUE] ELSE cs[i]
  BY DEF Retract
<1>4. \A i \in S : i \in DOMAIN cs /\ cs[i].work = w
  BY DEF Overrides, About
<1> HIDE DEF S, kept
<1>5. ASSUME NEW i \in About(kept, v) PROVE i \in About(cs, v) /\ kept[i] = cs[i]
  <2>1. i \in DOMAIN cs /\ kept[i].work = v
    BY <1>3, <1>5 DEF About
  <2>2. i \notin S
    <3>1. SUFFICES ASSUME i \in S PROVE FALSE
      OBVIOUS
    <3>2. kept[i] = [cs[i] EXCEPT !.retracted = TRUE] /\ cs[i] \in Claim /\ cs[i].work = w
      BY <1>1, <1>3, <1>4, <2>1, <3>1
    <3>3. kept[i].work = w
      BY <1>2, <3>2
    <3>4. QED BY <2>1, <3>3
  <2>3. kept[i] = cs[i]
    BY <1>3, <2>1, <2>2
  <2>4. QED BY <2>1, <2>3 DEF About
<1>6. QED BY <1>5 DEF kept, S

LEMMA RecordedFollows ==
  ASSUME TypeInv, NEW r, call[r].work \in Work, NEW v, NEW rank, Recorded(call[r].work, v, rank)
  PROVE  ClaimsFollow(r)
<1> DEFINE w == call[r].work
<1>1. CASE UNCHANGED <<claims, shown>>
  BY <1>1 DEF ClaimsFollow
<1>2. CASE claims' = Insert(claims, w, v, rank) /\ shown' = Reselect(claims', w)
  <2>1. About(claims', w) = {} \/ Shows(w)
    BY <1>2, Reselected DEF TypeInv
  <2>2. \A x \in Work : x # w => Same(x)
    BY <1>2, InsertSame DEF Same, TypeInv, TablesOK
  <2>3. QED BY <2>1, <2>2 DEF ClaimsFollow, Rewrites
<1>3. QED BY <1>1, <1>2 DEF Recorded

LEMMA ClaimStepFollows ==
  ASSUME TypeInv, NEW r \in Requests, ClaimStep(r)
  PROVE  ClaimsFollow(r)
<1>0. \A op \in {"record", "override", "clear", "review"} : Doing(r, op) => call[r].work \in Work
  BY DEF Doing, TypeInv, CallsOK, CallOK, Typed, OfWork
<1> DEFINE w == call[r].work
<1>1. CASE Record(r)
  BY <1>0, <1>1, RecordedFollows DEF Record
<1>2. CASE SetOverride(r)
  <2> DEFINE kept == Retract(claims, Overrides(claims, w))
  <2>1. /\ w \in Work /\ claims \in Seq(Claim) /\ kept \in Seq(Claim)
        /\ claims' = Insert(kept, w, call[r].value, 0) /\ shown' = Reselect(claims', w)
    BY <1>0, <1>2, RetractClaims DEF SetOverride, TypeInv, TablesOK
  <2>2. ASSUME NEW v \in Work, v # w PROVE Same(v)
    <3>1. \A i \in About(kept, v) : i \in About(claims, v) /\ kept[i] = claims[i]
      BY <2>1, <2>2, RetractSame
    <3> HIDE DEF kept, w
    <3>2. \A i \in About(claims', v) : i \in About(kept, v) /\ claims'[i] = kept[i]
      BY <2>1, <2>2, InsertSame
    <3>3. QED BY <3>1, <3>2 DEF Same
  <2>3. About(claims', w) = {} \/ Shows(w)
    BY <2>1, Reselected DEF TypeInv
  <2>4. QED BY <2>1, <2>2, <2>3 DEF ClaimsFollow, Rewrites
<1>3. CASE ClearOverride(r)
  <2> DEFINE kept == Retract(claims, Overrides(claims, w))
  <2>1. CASE UNCHANGED <<claims, shown>>
    BY <2>1 DEF ClaimsFollow
  <2>2. CASE claims' = kept /\ shown' = Reselect(claims', w)
    <3>1. w \in Work /\ claims \in Seq(Claim)
      BY <1>0, <1>3 DEF ClearOverride, TypeInv, TablesOK
    <3>2. ASSUME NEW v \in Work, v # w PROVE Same(v)
      BY <2>2, <3>1, <3>2, RetractSame DEF Same
    <3>3. About(claims', w) = {} \/ Shows(w)
      BY <2>2, <3>1, Reselected DEF TypeInv
    <3>4. QED BY <3>1, <3>2, <3>3 DEF ClaimsFollow, Rewrites
  <2>3. QED BY <1>3, <2>1, <2>2 DEF ClearOverride
<1>4. CASE SetReviewState(r)
  <2> DEFINE k == call[r].claim
  <2>1. /\ w \in Work /\ Doing(r, "review")
        /\ claims' = [claims EXCEPT ![k].rejected = call[r].rejected]
        /\ shown' = Reselect(claims', w)
    BY <1>0, <1>4 DEF SetReviewState
  <2>2. claims \in Seq(Claim) /\ \A i \in DOMAIN claims : claims[i] \in Claim
    BY DEF TypeInv, TablesOK
  <2>3. \A c \in Claim : \A b : [c EXCEPT !.rejected = b].work = c.work
    BY DEF Claim
  <2>4. /\ DOMAIN claims' = DOMAIN claims
        /\ \A i \in DOMAIN claims : i # k => claims'[i] = claims[i]
        /\ k \in DOMAIN claims => claims'[k] = [claims[k] EXCEPT !.rejected = call[r].rejected]
    BY <2>1
  <2>5. k \in DOMAIN claims => claims'[k].work = claims[k].work
    <3> DEFINE old == claims[k]
    <3>1. SUFFICES ASSUME k \in DOMAIN claims PROVE claims'[k].work = old.work
      OBVIOUS
    <3>2. old \in Claim /\ claims'[k] = [old EXCEPT !.rejected = call[r].rejected]
      BY <2>2, <2>4, <3>1
    <3> HIDE DEF old, k
    <3>3. QED BY <2>3, <3>2
  <2>6. CASE w # claims[k].work
    <3>1. Reviews
      BY <2>1, <2>6 DEF Reviews
    <3> HIDE DEF k, w
    <3>2. \A v \in Work : About(claims', v) \subseteq About(claims, v)
      BY <2>4, <2>5 DEF About
    <3>3. QED BY <3>1, <3>2 DEF ClaimsFollow
  <2>7. CASE w = claims[k].work
    <3> HIDE DEF k
    <3>1. ASSUME NEW v \in Work, v # w PROVE Same(v)
      BY <2>4, <2>5, <2>7, <3>1 DEF Same, About
    <3>2. About(claims', w) = {} \/ Shows(w)
      BY <2>1, Reselected DEF TypeInv
    <3>3. QED BY <2>1, <3>1, <3>2 DEF ClaimsFollow, Rewrites
  <2>8. QED BY <2>6, <2>7
<1>5. CASE HoldForClaim(r) \/ ReadClaim(r) \/ ReselectClaims(r)
  BY <1>5 DEF HoldForClaim, ReadClaim, ReselectClaims, WorksKept, ClaimsFollow
<1>6. QED BY <1>1, <1>2, <1>3, <1>4, <1>5 DEF ClaimStep

(* A merge moves the claims of one Work to another, which it reselects.     *)
LEMMA CommitFollows ==
  ASSUME TypeInv, merge # NoMerge, MoveClaims
  PROVE  /\ About(claims', merge.from) = {}
         /\ About(claims', merge.into) = {} \/ Shows(merge.into)
         /\ \A v \in Work : v \notin {merge.from, merge.into} => Same(v)
<1> DEFINE kept == IF Overrides(claims, merge.into) = {} THEN claims
                   ELSE Retract(claims, Overrides(claims, merge.from))
<1>1. /\ merge.from \in Work /\ merge.into \in Work /\ merge.from # merge.into
      /\ \A w \in Work : To(w) \in Work /\ To(w) # merge.from
  BY MergeIs
<1>2. claims \in Seq(Claim)
  BY DEF TypeInv, TablesOK
<1>3. /\ kept \in Seq(Claim)
      /\ \A v : v # merge.from => \A i \in About(kept, v) : i \in About(claims, v) /\ kept[i] = claims[i]
  <2>1. CASE Overrides(claims, merge.into) = {}
    BY <1>2, <2>1
  <2>2. CASE Overrides(claims, merge.into) # {}
    BY <1>2, <2>2, RetractClaims, RetractSame
  <2>3. QED BY <2>1, <2>2
<1>4. /\ claims' = [i \in DOMAIN kept |-> [kept[i] EXCEPT !.work = To(@)]]
      /\ shown' = Reselect(claims', merge.into)
  BY DEF MoveClaims
<1> HIDE DEF kept
<1>5. \A c \in Claim : /\ [c EXCEPT !.work = To(@)].work = To(c.work)
                       /\ To(c.work) = c.work => [c EXCEPT !.work = To(@)] = c
                       /\ c.work \in Work
  BY DEF Claim
<1>6. ASSUME NEW i \in DOMAIN kept
      PROVE  /\ claims'[i].work = To(kept[i].work) /\ kept[i].work \in Work
             /\ To(kept[i].work) = kept[i].work => claims'[i] = kept[i]
  <2> DEFINE c == kept[i]
  <2>1. c \in Claim /\ claims'[i] = [c EXCEPT !.work = To(@)]
    BY <1>3, <1>4
  <2> HIDE DEF c
  <2>2. /\ claims'[i].work = To(c.work) /\ c.work \in Work
        /\ To(c.work) = c.work => claims'[i] = c
    BY <1>5, <2>1
  <2>3. QED BY <2>2 DEF c
<1>7. DOMAIN claims' = DOMAIN kept
  BY <1>4
<1>8. About(claims', merge.from) = {}
  BY <1>1, <1>6, <1>7 DEF About
<1>9. About(claims', merge.into) = {} \/ Shows(merge.into)
  BY <1>1, <1>4, Reselected DEF TypeInv
<1>10. ASSUME NEW v \in Work, v # merge.from, v # merge.into PROVE Same(v)
  <2>1. \A i \in About(claims', v) : i \in About(kept, v) /\ claims'[i] = kept[i]
    BY <1>6, <1>7, <1>10 DEF About, To
  <2>2. QED BY <1>3, <1>10, <2>1 DEF Same
<1>11. QED BY <1>8, <1>9, <1>10

LEMMA EvidenceFollows ==
  ASSUME TypeInv, NEW r \in Requests, EvidenceStep(r)
  PROVE  ClaimsFollow(r)
<1>1. CASE RecordEntryClaims(r)
  <2>1. CASE UNCHANGED <<claims, shown>>
    BY <2>1 DEF ClaimsFollow
  <2>2. ASSUME NEW v, Recorded(call[r].work, v, EntryRank) PROVE ClaimsFollow(r)
    <3>1. RunOK(call[r]) /\ call[r].op = "harvest"
      BY <1>1, RunOf DEF RecordEntryClaims, Doing, RunSteps, TypeInv
    <3>2. call[r].work \in Work
      BY <3>1 DEF RunOK
    <3>3. QED BY <2>2, <3>2, RecordedFollows
  <2>3. QED BY <1>1, <2>1, <2>2 DEF RecordEntryClaims
<1>2. CASE ~RecordEntryClaims(r)
  BY <1>2 DEF EvidenceStep, StartRun, ResolveEntry, FoldStub, StubFolded, CreateStub, RecordResolution,
              AttachIdentifiers, AddEntryAssertion, EndRun, WorksKept, ClaimsFollow
<1>3. QED BY <1>1, <1>2

LEMMA LiteratureFollows ==
  ASSUME TypeInv, NEW r \in Requests, LiteratureStep(r)
  PROVE  ClaimsFollow(r)
<1>1. CASE FillDisplayFields(r) \/ RecordSummary(r)
  <2>1. CASE UNCHANGED <<claims, shown>>
    BY <2>1 DEF ClaimsFollow
  <2>2. CASE Recorded(call[r].work, Title, TitleRank)
    <3>1. FlowOK(call[r]) /\ call[r].op \in {"fill", "title"}
      BY <1>1, FlowOf DEF FillDisplayFields, RecordSummary, Doing, FlowSteps, TypeInv
    <3>2. call[r].work \in Work
      BY <3>1 DEF FlowOK
    <3>3. QED BY <2>2, <3>2, RecordedFollows
  <2>3. QED BY <1>1, <2>1, <2>2 DEF FillDisplayFields, RecordSummary, RecordFields
<1>2. CASE ~(FillDisplayFields(r) \/ RecordSummary(r))
  BY <1>2 DEF LiteratureStep, StartFlow, LookUpProvider, SearchTitle, FindWork, MakeWork, Attach, Attached,
              LinkDocument, ResolveReference, AssertReference, ReadCited, ReadIds, Hydrate, EndFlow,
              NoOther, WorksKept, ClaimsFollow
<1>3. QED BY <1>1, <1>2

LEMMA OthersFollow ==
  ASSUME NEW r \in Requests,
         \/ IdentityStep(r) \/ CitationStep(r) \/ CurationStep(r) \/ TagStep
         \/ RampsStep(r) \/ DeleteStep \/ DocumentsStep(r) \/ EditLibrary
  PROVE  claims' = claims
<1>1. CASE IdentityStep(r) \/ CitationStep(r)
  BY <1>1 DEF IdentityStep, CitationStep, ResolveOrCreate, ResolveOrCreateVersion, FindByIdentifier, Create,
              HoldForIdentifier, AddIdentifier, HoldForCitation, AddAssertion, WorksKept
<1>2. CASE CurationStep(r) \/ TagStep
  BY <1>2 DEF CurationStep, TagStep, HoldForCuration, SetMark, ClearMark, AssignTag, UnassignTag,
              CreateTag, DeleteTag, WorksKept
<1>3. CASE RampsStep(r) \/ DeleteStep
  BY <1>3 DEF RampsStep, DeleteStep, HoldForRamp, CreateRamp, AddItem, InsertItem, RemoveItem, DeleteItem,
              ReadOrder, Reorder, BreakDeadlock, DeleteRamp, WorksKept
<1>4. CASE DocumentsStep(r) \/ EditLibrary
  BY <1>4 DEF DocumentsStep, ListFiles, ApplyScan, FindByPath, SetWorkLink, EditLibrary, WorksKept
<1>5. QED BY <1>1, <1>2, <1>3, <1>4

(* Every step that changes the claims of a Work reselects what it shows, in *)
(* any area and beside any merge, except a review of a claim that has been  *)
(* moved to another Work since it was read.                                 *)
THEOREM ClaimsReselected == CatalogSpec => Reselects
<1> DEFINE P(w) == About(claims', w) = {} \/ Same(w) \/ Current(w)' \/ Reviews
<1>1. TypeInv /\ [CatalogNext]_catalogVars => [\A w \in Work : P(w)]_worksVars
  <2> SUFFICES ASSUME TypeInv, CatalogNext, NEW w \in Work PROVE P(w)
    BY DEF catalogVars, worksVars
  <2>1. ASSUME NEW r \in Requests, ClaimsFollow(r) PROVE P(w)
    BY <2>1 DEF ClaimsFollow, Rewrites, Same, Shows, Current
  <2>2. CASE Commit
    <3>1. merge # NoMerge /\ MoveClaims
      BY <2>2 DEF Commit, CommitWorks
    <3>2. About(claims', w) = {} \/ Shows(w) \/ Same(w)
      BY <3>1, CommitFollows
    <3>3. QED BY <3>2 DEF Shows, Current
  <2>3. CASE MergeStep \/ MoveItems
    <3>1. claims' = claims
      BY <2>3 DEF MergeStep, MergeWork, MoveItems
    <3>2. QED BY <3>1 DEF Same
  <2>4. ASSUME NEW r \in Requests, Write(r) PROVE ClaimsFollow(r)
    BY <2>4, ClaimStepFollows, EvidenceFollows, LiteratureFollows, OthersFollow DEF Write, ClaimsFollow
  <2>5. QED BY <2>1, <2>2, <2>3, <2>4 DEF CatalogNext
<1>2. (\A w \in Work : P(w)) =>
        \A w \in Work :
          \/ About(claims', w) = {}
          \/ \A i \in About(claims', w) : i \in About(claims, w) /\ claims'[i] = claims[i]
          \/ Current(w)'
          \/ \E r \in Requests : Doing(r, "review") /\ call[r].work # claims[call[r].claim].work
  BY DEF Same, Reviews
<1>3. CatalogInit => TypeInv
  BY TypeInit
<1>4. TypeInv /\ [CatalogNext]_catalogVars => TypeInv'
  BY TypeNext
<1> HIDE DEF P
<1>5. QED BY <1>1, <1>2, <1>3, <1>4, PTL DEF CatalogSpec, Reselects

-----------------------------------------------------------------------------
(* What merges leave.                                                       *)

(* A request that is about a Work holds it, and Works that redirect exist.  *)
Shaped(c) ==
  /\ c.op \in OfWork => "work" \in DOMAIN c
  /\ c.op = "cite" => "cited" \in DOMAIN c

HeldOK == \A r \in Requests : Shaped(call[r])

MergedWorks == \A w \in Work : redirect[w] # None => w \in works

LEMMA IdleShaped == Shaped(Idle)
BY DEF Shaped, Idle, OfWork

LEMMA ShapedSet ==
  ASSUME TypeInv, HeldOK, NEW r \in Requests, NEW d, Shaped(d), call' = [call EXCEPT ![r] = d]
  PROVE  HeldOK'
BY DEF HeldOK, Shaped, TypeInv, CallsOK

LEMMA ShapedBegin ==
  ASSUME TypeInv, HeldOK, NEW r \in Requests, NEW d, Shaped(d), Begin(r, d)
  PROVE  HeldOK'
BY ShapedSet DEF Begin

LEMMA ShapedDone ==
  ASSUME TypeInv, HeldOK, NEW r \in Requests, Done(r)
  PROVE  HeldOK'
BY ShapedSet, IdleShaped DEF Done

LEMMA IdentityHeld ==
  ASSUME TypeInv, HeldOK, NEW r \in Requests, IdentityStep(r) \/ CitationStep(r)
  PROVE  HeldOK'
<1>1. CASE \E i : FindByIdentifier(r, i)
  <2>1. \A i : Shaped([op |-> "create", identifier |-> i])
    BY DEF Shaped, OfWork
  <2>2. QED BY <1>1, <2>1, ShapedBegin DEF FindByIdentifier
<1>2. CASE HoldForIdentifier(r)
  <2>1. \A v, i : Shaped([op |-> "identify", work |-> v, identifier |-> i])
    BY DEF Shaped
  <2>2. QED BY <1>2, <2>1, ShapedBegin DEF HoldForIdentifier
<1>3. CASE HoldForCitation(r)
  <2>1. \A v, w : Shaped([op |-> "cite", work |-> v, cited |-> w])
    BY DEF Shaped
  <2>2. QED BY <1>3, <2>1, ShapedBegin DEF HoldForCitation
<1>4. CASE (\E ids : Create(r, ids)) \/ AddIdentifier(r) \/ AddAssertion(r)
  BY <1>4, ShapedDone DEF Create, AddIdentifier, AddAssertion
<1>5. QED BY <1>1, <1>2, <1>3, <1>4 DEF IdentityStep, CitationStep, ResolveOrCreate, ResolveOrCreateVersion

LEMMA ClaimHeld ==
  ASSUME TypeInv, HeldOK, NEW r \in Requests, ClaimStep(r)
  PROVE  HeldOK'
<1>1. CASE HoldForClaim(r)
  <2>1. \A w, v, k : /\ Shaped([op |-> "record", work |-> w, value |-> v, rank |-> k])
                     /\ Shaped([op |-> "override", work |-> w, value |-> v])
                     /\ Shaped([op |-> "clear", work |-> w])
    BY DEF Shaped
  <2>2. QED BY <1>1, <2>1, ShapedBegin DEF HoldForClaim
<1>2. CASE ReadClaim(r)
  <2>1. \A w, i, b : Shaped([op |-> "review", work |-> w, claim |-> i, rejected |-> b])
    BY DEF Shaped
  <2>2. QED BY <1>2, <2>1, ShapedBegin DEF ReadClaim
<1>3. CASE Record(r) \/ SetOverride(r) \/ ClearOverride(r) \/ SetReviewState(r)
  BY <1>3, ShapedDone DEF Record, SetOverride, ClearOverride, SetReviewState
<1>4. CASE ReselectClaims(r)
  BY <1>4 DEF ReselectClaims, HeldOK, Shaped
<1>5. QED BY <1>1, <1>2, <1>3, <1>4 DEF ClaimStep

LEMMA CurationHeld ==
  ASSUME TypeInv, HeldOK, NEW r \in Requests, CurationStep(r) \/ TagStep
  PROVE  HeldOK'
<1>1. CASE HoldForCuration(r)
  <2>1. \A w, m : /\ Shaped([op |-> "mark", work |-> w, mark |-> m])
                  /\ Shaped([op |-> "unmark", work |-> w])
                  /\ Shaped([op |-> "tag", work |-> w, tag |-> m])
                  /\ Shaped([op |-> "untag", work |-> w, tag |-> m])
    BY DEF Shaped
  <2>2. QED BY <1>1, <2>1, ShapedBegin DEF HoldForCuration
<1>2. CASE SetMark(r) \/ ClearMark(r) \/ AssignTag(r) \/ UnassignTag(r)
  BY <1>2, ShapedDone DEF SetMark, ClearMark, AssignTag, UnassignTag
<1>3. CASE TagStep
  BY <1>3 DEF TagStep, CreateTag, DeleteTag, HeldOK, Shaped
<1>4. QED BY <1>1, <1>2, <1>3 DEF CurationStep

LEMMA RampsHeld ==
  ASSUME TypeInv, HeldOK, NEW r \in Requests, RampsStep(r) \/ DeleteStep
  PROVE  HeldOK'
<1>1. CASE HoldForRamp(r)
  <2>1. \A w, p, v : /\ Shaped([op |-> "create ramp", work |-> w])
                     /\ Shaped([op |-> "add", ramp |-> p, work |-> w, via |-> v])
                     /\ Shaped([op |-> "remove", ramp |-> p, work |-> w])
    BY DEF Shaped
  <2>2. QED BY <1>1, <2>1, ShapedBegin DEF HoldForRamp
<1>2. CASE ReadOrder(r)
  <2>1. \A p, o : Shaped([op |-> "order", ramp |-> p, order |-> o])
    BY DEF Shaped, OfWork
  <2>2. QED BY <1>2, <2>1, ShapedBegin DEF ReadOrder
<1>3. CASE AddItem(r)
  <2>1. \A p, w, v, s : Shaped([op |-> "adding", ramp |-> p, work |-> w, via |-> v, path |-> s])
    BY DEF Shaped
  <2> DEFINE c == call[r]
             d == [op |-> "adding", ramp |-> c.ramp, work |-> c.work, via |-> c.via, path |-> PathTo(c)]
  <2>2. Done(r) \/ call' = [call EXCEPT ![r] = d]
    BY <1>3 DEF AddItem
  <2>3. Shaped(d)
    BY <2>1
  <2> HIDE DEF d
  <2>4. QED BY <2>2, <2>3, ShapedSet, ShapedDone
<1>4. CASE RemoveItem(r)
  <2>1. CASE call' = [call EXCEPT ![r].op = "removing"] /\ Doing(r, "remove")
    <3> DEFINE c == call[r]
               d == [c EXCEPT !.op = "removing"]
    <3>1. c \in [op : {"remove", "removing"}, ramp : RampIds, work : Work]
      BY <2>1 DEF TypeInv, CallsOK, CallOK, Typed, Doing
    <3>2. Shaped(d)
      <4> HIDE DEF c
      <4>1. QED BY <3>1 DEF Shaped
    <3>3. call' = [call EXCEPT ![r] = d]
      BY <2>1
    <3>4. QED BY <3>2, <3>3, ShapedSet
  <2>2. QED BY <1>4, <2>1, ShapedDone DEF RemoveItem
<1>5. CASE CreateRamp(r) \/ InsertItem(r) \/ DeleteItem(r) \/ Reorder(r)
  BY <1>5, ShapedDone DEF CreateRamp, InsertItem, DeleteItem, Reorder
<1>6. CASE BreakDeadlock(r) \/ DeleteStep
  BY <1>6, ShapedDone DEF BreakDeadlock, DeleteStep, DeleteRamp, HeldOK, Shaped
<1>7. QED BY <1>1, <1>2, <1>3, <1>4, <1>5, <1>6 DEF RampsStep

LEMMA DocumentsHeld ==
  ASSUME TypeInv, HeldOK, NEW r \in Requests, DocumentsStep(r) \/ EditLibrary
  PROVE  HeldOK'
<1>1. CASE ListFiles(r)
  <2>1. \A f, p, b : /\ Shaped([op |-> "scan", full |-> b, files |-> f])
                     /\ Shaped([op |-> "scan", full |-> b, file |-> p, files |-> f])
    BY DEF Shaped, OfWork
  <2>2. QED BY <1>1, <2>1, ShapedBegin DEF ListFiles
<1>2. CASE ApplyScan(r)
  <2>1. \A f : Shaped([op |-> "registered", file |-> f])
    BY DEF Shaped, OfWork
  <2>2. Shaped(IF call[r].full THEN Idle ELSE [op |-> "registered", file |-> call[r].file])
    BY <2>1, IdleShaped
  <2>3. QED BY <1>2, <2>2, ShapedSet, ShapedDone DEF ApplyScan
<1>3. CASE FindByPath(r)
  <2>1. \A x, w : Shaped([op |-> "link", document |-> x, work |-> w])
    BY DEF Shaped
  <2>2. QED BY <1>3, <2>1, ShapedSet, ShapedDone DEF FindByPath
<1>4. CASE SetWorkLink(r)
  BY <1>4, ShapedDone DEF SetWorkLink
<1>5. CASE EditLibrary
  BY <1>5 DEF EditLibrary, HeldOK, Shaped
<1>6. QED BY <1>1, <1>2, <1>3, <1>4, <1>5 DEF DocumentsStep

(* A run and a flow stay what they are.                                     *)
LEMMA RunShaped ==
  ASSUME NEW c, RunOK(c), NEW op \in RunSteps, NEW l, NEW w, NEW m
  PROVE  /\ Shaped([c EXCEPT !.op = op, !.work = w, !.method = m])
         /\ Shaped([c EXCEPT !.op = op, !.left = l, !.work = w, !.method = m])
BY DEF RunOK, Shaped, RunSteps, OfWork

LEMMA GoHeld ==
  ASSUME TypeInv, HeldOK, NEW r \in Requests, Running(r), NEW op \in RunSteps, NEW w, NEW m, Go(r, op, w, m)
  PROVE  HeldOK'
<1> DEFINE d == [call[r] EXCEPT !.op = op, !.work = w, !.method = m]
<1>1. RunOK(call[r])
  BY RunOf DEF TypeInv, Running
<1>2. Shaped(d)
  BY <1>1, RunShaped
<1>3. call' = [call EXCEPT ![r] = d]
  BY DEF Go
<1> HIDE DEF d
<1>4. QED BY <1>2, <1>3, ShapedSet

LEMMA NextHeld ==
  ASSUME TypeInv, HeldOK, NEW r \in Requests, Running(r), NextEntry(r)
  PROVE  HeldOK'
<1> DEFINE d == [call[r] EXCEPT !.op = "resolve", !.left = Tail(call[r].left), !.work = None, !.method = None]
<1>1. RunOK(call[r]) /\ "resolve" \in RunSteps
  BY RunOf DEF TypeInv, Running, RunSteps
<1>2. Shaped(d)
  BY <1>1, RunShaped
<1>3. call' = [call EXCEPT ![r] = d]
  BY DEF NextEntry
<1> HIDE DEF d
<1>4. QED BY <1>2, <1>3, ShapedSet

LEMMA EvidenceHeld ==
  ASSUME TypeInv, HeldOK, NEW r \in Requests, EvidenceStep(r)
  PROVE  HeldOK'
<1>1. CASE StartRun(r)
  <2>1. \A p, l, c, n : Shaped([op |-> "resolve", paper |-> p, left |-> l, citing |-> c, work |-> None,
                                method |-> None, near |-> n])
    BY DEF Shaped, OfWork
  <2>2. QED BY <1>1, <2>1, ShapedBegin DEF StartRun
<1>2. CASE ~StartRun(r)
  <2>1. Running(r)
    BY <1>2 DEF EvidenceStep, ResolveEntry, FoldStub, StubFolded, CreateStub, RecordResolution,
                AttachIdentifiers, AddEntryAssertion, RecordEntryClaims, EndRun, Running, Doing, RunSteps
  <2>2. \/ \E op \in RunSteps : \E w, m : Go(r, op, w, m)
        \/ NextEntry(r) \/ Done(r)
    <3>1. CASE ResolveEntry(r)
      BY <3>1 DEF ResolveEntry, RunSteps
    <3>2. CASE FoldStub(r) \/ StubFolded(r)
      BY <3>2 DEF FoldStub, StubFolded, RunSteps
    <3>3. CASE CreateStub(r) \/ AttachIdentifiers(r) \/ AddEntryAssertion(r)
      BY <3>3 DEF CreateStub, AttachIdentifiers, AddEntryAssertion, RunSteps
    <3>4. CASE RecordResolution(r)
      <4>1. PICK op \in {"attach", "connect"} : Go(r, op, call[r].work, None)
        BY <3>4 DEF RecordResolution
      <4>2. QED BY <4>1 DEF RunSteps
    <3>5. CASE RecordEntryClaims(r) \/ EndRun(r)
      BY <3>5 DEF RecordEntryClaims, EndRun
    <3>6. QED BY <1>2, <3>1, <3>2, <3>3, <3>4, <3>5 DEF EvidenceStep
  <2>3. QED BY <2>1, <2>2, GoHeld, NextHeld, ShapedDone
<1>3. QED BY <1>1, <1>2

LEMMA FlowShaped ==
  ASSUME TypeInv, HeldOK, NEW r \in Requests, Flowing(r), NEW d, Proceed(r, d), DOMAIN d = DOMAIN call[r]
  PROVE  HeldOK'
<1>1. FlowOK(call[r])
  BY FlowOf DEF TypeInv, Flowing
<1>2. "work" \in DOMAIN d /\ "cited" \in DOMAIN d
  BY <1>1 DEF FlowOK
<1>3. QED BY <1>2, ShapedSet DEF Shaped, Proceed

(* Every step of a flow keeps its fields.                                   *)
FieldsKept(r) == Done(r) \/ \E d : Proceed(r, d) /\ DOMAIN d = DOMAIN call[r]

LEMMA OwnWorkFields ==
  ASSUME NEW r, LookUpProvider(r) \/ SearchTitle(r) \/ FindWork(r) \/ MakeWork(r)
  PROVE  FieldsKept(r)
<1> DEFINE c == call[r]
           i == Front[c.paper]
           looked(o) == [c EXCEPT !.op = "own work", !.provider = o, !.make = i,
                                  !.look = Printable(o) \o <<i>>, !.attach = <<i>>]
           b(o) == [c EXCEPT !.provider = o]
           link == Step(b(None), "linking")
           searched(o) == [b(o) EXCEPT !.op = IF b(o).work = None THEN "own work" ELSE "identifiers",
                                       !.make = o, !.look = IF b(o).work = None THEN <<o>> ELSE <<>>,
                                       !.attach = ProviderIds(o)]
           next == [c EXCEPT !.look = Tail(@)]
           found(w) == [c EXCEPT !.op = "identifiers", !.work = w, !.look = <<>>]
           made(w) == [c EXCEPT !.op = "identifiers", !.work = w]
<1>1. /\ \A o : DOMAIN looked(o) = DOMAIN c
      /\ \A o : DOMAIN b(o) = DOMAIN c
      /\ \A w : DOMAIN found(w) = DOMAIN c
      /\ \A w : DOMAIN made(w) = DOMAIN c
      /\ DOMAIN next = DOMAIN c
  OBVIOUS
<1>2. DOMAIN link = DOMAIN b(None) /\ \A o : DOMAIN searched(o) = DOMAIN b(o)
  BY DEF Step
<1>3. CASE LookUpProvider(r)
  <2>1. PICK o : Proceed(r, looked(o))
    BY <1>3 DEF LookUpProvider
  <2> HIDE DEF looked, c
  <2>2. QED BY <1>1, <2>1 DEF FieldsKept, c
<1>4. CASE SearchTitle(r)
  <2>1. Done(r) \/ Proceed(r, link) \/ \E o : Proceed(r, searched(o))
    BY <1>4 DEF SearchTitle
  <2> HIDE DEF link, searched, b
  <2>2. QED BY <1>1, <1>2, <2>1 DEF FieldsKept
<1>5. CASE FindWork(r)
  <2>1. Proceed(r, next) \/ \E w : Proceed(r, found(w))
    BY <1>5 DEF FindWork
  <2> HIDE DEF next, found
  <2>2. QED BY <1>1, <2>1 DEF FieldsKept
<1>6. CASE MakeWork(r)
  <2>1. PICK w : Proceed(r, made(w))
    BY <1>6 DEF MakeWork
  <2> HIDE DEF made
  <2>2. QED BY <1>1, <2>1 DEF FieldsKept
<1>7. QED BY <1>3, <1>4, <1>5, <1>6

LEMMA AttachFields ==
  ASSUME NEW r, Attach(r) \/ Attached(r) \/ LinkDocument(r) \/ FillDisplayFields(r)
  PROVE  FieldsKept(r)
<1> DEFINE c == call[r]
           next == [c EXCEPT !.attach = Tail(@)]
           again == [c EXCEPT !.attach = ProviderIds(c.provider), !.make = c.provider]
           goes(op) == [c EXCEPT !.op = op]
           d == [c EXCEPT !.op = "reference", !.left = References[c.provider]]
<1>1. /\ DOMAIN next = DOMAIN c /\ DOMAIN again = DOMAIN c /\ DOMAIN d = DOMAIN c
      /\ \A op : DOMAIN goes(op) = DOMAIN c
  OBVIOUS
<1>2. \/ Proceed(r, next) \/ Proceed(r, again) \/ Proceed(r, d) \/ Done(r)
      \/ Proceed(r, goes("search")) \/ Proceed(r, goes("linking")) \/ Proceed(r, goes("fill"))
  BY DEF Attach, Attached, LinkDocument, FillDisplayFields, Step
<1> HIDE DEF next, again, goes, d
<1>3. QED BY <1>1, <1>2 DEF FieldsKept

LEMMA ReferenceFields ==
  ASSUME NEW r, \/ ResolveReference(r) \/ AssertReference(r) \/ ReadCited(r) \/ ReadIds(r)
                \/ Hydrate(r) \/ RecordSummary(r) \/ EndFlow(r)
  PROVE  FieldsKept(r)
<1> DEFINE c == call[r]
           made(w) == [c EXCEPT !.op = "assert", !.cited = w]
           next == [c EXCEPT !.op = "reference", !.left = Tail(@), !.cited = None]
           read == [c EXCEPT !.op = "cited",
                             !.listed = {w \in Work : <<c.work, w>> \in cites} \cup {c.work}]
           rows == {p \in owner : p[1] \in OpenAlex /\ p[2] \in c.listed}
           ids == [c EXCEPT !.op = "titles", !.listed = {}, !.rows = rows]
           row(p) == [c EXCEPT !.op = "title", !.work = p[2], !.rows = @ \ {p}]
           title == [c EXCEPT !.op = "titles"]
<1>1. /\ DOMAIN next = DOMAIN c /\ DOMAIN read = DOMAIN c /\ DOMAIN ids = DOMAIN c
      /\ DOMAIN title = DOMAIN c
      /\ \A w : DOMAIN made(w) = DOMAIN c
      /\ \A p : DOMAIN row(p) = DOMAIN c
  OBVIOUS
<1>2. CASE ResolveReference(r)
  <2>1. PICK w : Proceed(r, made(w))
    BY <1>2 DEF ResolveReference
  <2> HIDE DEF made
  <2>2. QED BY <1>1, <2>1 DEF FieldsKept
<1>3. CASE Hydrate(r)
  <2>1. Done(r) \/ \E p : Proceed(r, row(p))
    BY <1>3 DEF Hydrate
  <2> HIDE DEF row
  <2>2. QED BY <1>1, <2>1 DEF FieldsKept
<1>4. CASE AssertReference(r) \/ ReadCited(r) \/ ReadIds(r) \/ RecordSummary(r) \/ EndFlow(r)
  <2>1. Done(r) \/ Proceed(r, next) \/ Proceed(r, read) \/ Proceed(r, ids) \/ Proceed(r, title)
    BY <1>4 DEF AssertReference, ReadCited, ReadIds, RecordSummary, EndFlow, Step
  <2> HIDE DEF next, read, ids, title
  <2>2. QED BY <1>1, <2>1 DEF FieldsKept
<1>5. QED BY <1>2, <1>3, <1>4

LEMMA LiteratureHeld ==
  ASSUME TypeInv, HeldOK, NEW r \in Requests, LiteratureStep(r)
  PROVE  HeldOK'
<1>1. CASE StartFlow(r)
  <2> DEFINE c(p) == [op |-> IF Front[p] = None THEN "search" ELSE "provider", paper |-> p,
                      work |-> None, provider |-> None, look |-> <<>>, make |-> None,
                      attach |-> <<>>, left |-> <<>>, cited |-> None, listed |-> {},
                      rows |-> {}]
  <2>1. PICK p \in Pdfs : Begin(r, c(p))
    BY <1>1 DEF StartFlow
  <2>2. "work" \in DOMAIN c(p) /\ "cited" \in DOMAIN c(p)
    OBVIOUS
  <2> HIDE DEF c
  <2>3. QED BY <2>1, <2>2, ShapedBegin DEF Shaped
<1>2. CASE ~StartFlow(r)
  <2>1. Flowing(r)
    BY <1>2 DEF LiteratureStep, LookUpProvider, SearchTitle, FindWork, MakeWork, Attach, Attached,
                LinkDocument, FillDisplayFields, ResolveReference, AssertReference, ReadCited, ReadIds,
                Hydrate, RecordSummary, EndFlow, Flowing, Doing, FlowSteps
  <2>2. FieldsKept(r)
    BY <1>2, OwnWorkFields, AttachFields, ReferenceFields DEF LiteratureStep
  <2>3. QED BY <2>1, <2>2, FlowShaped, ShapedDone DEF FieldsKept
<1>3. QED BY <1>1, <1>2

LEMMA HeldNext ==
  ASSUME TypeInv, HeldOK, MergedWorks, [CatalogNext]_catalogVars
  PROVE  HeldOK' /\ MergedWorks'
<1>1. CASE CatalogNext
  <2>1. HeldOK'
    <3>1. ASSUME NEW r \in Requests, Write(r) PROVE HeldOK'
      BY <3>1, IdentityHeld, ClaimHeld, CurationHeld, RampsHeld, DocumentsHeld, EvidenceHeld, LiteratureHeld
         DEF Write
    <3>2. CASE MergeStep \/ MoveItems \/ Commit
      BY <3>2 DEF MergeStep, MergeWork, MoveItems, Commit, CommitWorks, HeldOK, Shaped
    <3>3. QED BY <1>1, <3>1, <3>2 DEF CatalogNext
  <2>2. CASE Commit
    <3>1. merge # NoMerge /\ MoveRedirects /\ works' = works
      BY <2>2 DEF Commit, CommitWorks
    <3>2. merge.from \in works
      BY <3>1 DEF TypeInv, MergeOK
    <3>3. MergedWorks'
      <4>1. ASSUME NEW w \in Work, redirect'[w] # None, w # merge.from PROVE redirect[w] # None
        BY <3>1, <3>2, <4>1, WorksAssumption DEF MoveRedirects, TypeInv, TablesOK
      <4>2. QED BY <3>1, <3>2, <4>1 DEF MergedWorks
    <3>4. QED BY <2>1, <3>3
  <2>3. CASE Adds
    BY <2>1, <2>3 DEF Adds, MergedWorks
  <2>4. QED BY <1>1, <2>2, <2>3, NextAdds
<1>2. CASE UNCHANGED catalogVars
  BY <1>2 DEF catalogVars, worksVars, HeldOK, Shaped, MergedWorks
<1>3. QED BY <1>1, <1>2

-----------------------------------------------------------------------------
(* The rows a step adds are about Works in S.                               *)
ClaimsGrow(S) == \A v \in Work : About(claims', v) # {} => About(claims, v) # {} \/ v \in S

TablesGrow(S) ==
  /\ \A p \in owner' : p \in owner \/ p[2] \in S
  /\ \A p \in cites' : p \in cites \/ (p[1] \in S /\ p[2] \in S)

CurationGrows(S) ==
  /\ \A w \in Work : mark'[w] \in {mark[w], None} \/ w \in S
  /\ \A p \in tagged' : p \in tagged \/ p[1] \in S

RampsGrow(S) == \A p \in RampIds : On(p)' \subseteq On(p) \cup S /\ seed'[p] \in {seed[p], None} \cup S

DocumentsGrow(S) == \A d \in DocumentIds : linked'[d] \in {linked[d]} \cup S

EvidenceGrows(S) == \A e \in Entries : accepted'[e] \in {accepted[e]} \cup S

Grows(S) ==
  /\ ClaimsGrow(S) /\ TablesGrow(S) /\ CurationGrows(S)
  /\ RampsGrow(S) /\ DocumentsGrow(S) /\ EvidenceGrows(S)

LEMMA OnlyGrows ==
  ASSUME NEW S, Grows(S), NEW w \in Work, w \in Referenced'
  PROVE  w \in Referenced \/ w \in S
<1>1. w # None
  BY WorksAssumption
<1>2. CASE \E p \in RampIds : w \in On(p)' \/ w = seed'[p]
  BY <1>1, <1>2 DEF Grows, RampsGrow, Referenced
<1>3. CASE \E d \in DocumentIds : w = linked'[d]
  BY <1>3 DEF Grows, DocumentsGrow, Referenced
<1>4. CASE \E e \in Entries : w = accepted'[e]
  BY <1>4 DEF Grows, EvidenceGrows, Referenced
<1>5. CASE \E p \in tagged' : w = p[1]
  BY <1>5 DEF Grows, CurationGrows, Referenced
<1>6. CASE \E p \in cites' : w = p[1] \/ w = p[2]
  BY <1>6 DEF Grows, TablesGrow, Referenced
<1>7. CASE \E p \in owner' : w = p[2]
  BY <1>7 DEF Grows, TablesGrow, Referenced
<1>8. CASE mark'[w] # None
  BY <1>8 DEF Grows, CurationGrows, Referenced
<1>9. CASE About(claims', w) # {}
  BY <1>9 DEF Grows, ClaimsGrow, Referenced
<1>10. QED BY <1>2, <1>3, <1>4, <1>5, <1>6, <1>7, <1>8, <1>9 DEF Referenced

LEMMA HeldIs ==
  ASSUME NEW c
  PROVE  /\ "work" \in DOMAIN c => c.work \in Held(c)
         /\ "cited" \in DOMAIN c => c.cited \in Held(c)
         /\ "citing" \in DOMAIN c => c.citing \in Held(c)
         /\ "rows" \in DOMAIN c => \A p \in c.rows : p[2] \in Held(c)
BY DEF Held

(* What request r holds, and the Works it may make.                         *)
Of(r) == Held(call[r]) \cup (Work \ works)

LEMMA HeldWork ==
  ASSUME HeldOK, NEW r \in Requests, call[r].op \in OfWork
  PROVE  call[r].work \in Of(r) /\ (call[r].op = "cite" => call[r].cited \in Of(r))
BY HeldIs DEF HeldOK, Shaped, Of

LEMMA ClaimsHeld ==
  ASSUME NEW r \in Requests, ClaimsFollow(r), claims' # claims => call[r].work \in Of(r)
  PROVE  ClaimsGrow(Of(r))
<1>1. CASE claims' = claims
  BY <1>1 DEF ClaimsGrow
<1>2. CASE claims' # claims /\ Rewrites(call[r].work)
  BY <1>2 DEF ClaimsGrow, Rewrites, Same
<1>3. CASE \A v \in Work : About(claims', v) \subseteq About(claims, v)
  BY <1>3 DEF ClaimsGrow
<1>4. QED BY <1>1, <1>2, <1>3 DEF ClaimsFollow

LEMMA Unchanged ==
  ASSUME NEW S
  PROVE  /\ claims' = claims => ClaimsGrow(S)
         /\ UNCHANGED <<owner, cites>> => TablesGrow(S)
         /\ UNCHANGED curationVars => CurationGrows(S)
         /\ UNCHANGED rampsVars => RampsGrow(S)
         /\ UNCHANGED linked => DocumentsGrow(S)
         /\ UNCHANGED accepted => EvidenceGrows(S)
<1>1. claims' = claims => ClaimsGrow(S)
  BY DEF ClaimsGrow
<1>2. UNCHANGED <<owner, cites>> => TablesGrow(S)
  BY DEF TablesGrow
<1>3. UNCHANGED curationVars => CurationGrows(S)
  BY DEF curationVars, CurationGrows
<1>4. UNCHANGED rampsVars => RampsGrow(S)
  BY DEF rampsVars, RampsGrow, On
<1>5. (UNCHANGED linked => DocumentsGrow(S)) /\ (UNCHANGED accepted => EvidenceGrows(S))
  BY DEF DocumentsGrow, EvidenceGrows
<1>6. QED BY <1>1, <1>2, <1>3, <1>4, <1>5

LEMMA IdentityGrows ==
  ASSUME TypeInv, HeldOK, NEW r \in Requests, IdentityStep(r) \/ CitationStep(r)
  PROVE  TablesGrow(Of(r))
<1>1. ASSUME NEW ids, Create(r, ids) PROVE TablesGrow(Of(r))
  BY <1>1 DEF Create, TablesGrow, Of
<1>2. CASE AddIdentifier(r)
  <2>1. call[r].work \in Of(r)
    BY <1>2, HeldWork DEF AddIdentifier, Doing, OfWork
  <2>2. QED BY <1>2, <2>1 DEF AddIdentifier, TablesGrow
<1>3. CASE AddAssertion(r)
  <2>1. call[r].work \in Of(r) /\ call[r].cited \in Of(r)
    BY <1>3, HeldWork DEF AddAssertion, Doing, OfWork
  <2>2. QED BY <1>3, <2>1 DEF AddAssertion, TablesGrow
<1>4. CASE (\E i : FindByIdentifier(r, i)) \/ HoldForIdentifier(r) \/ HoldForCitation(r)
  BY <1>4, Unchanged DEF FindByIdentifier, HoldForIdentifier, HoldForCitation, WorksKept
<1>5. QED BY <1>1, <1>2, <1>3, <1>4 DEF IdentityStep, CitationStep, ResolveOrCreate, ResolveOrCreateVersion

LEMMA ClaimGrows ==
  ASSUME TypeInv, HeldOK, NEW r \in Requests, ClaimStep(r)
  PROVE  ClaimsGrow(Of(r)) /\ TablesGrow(Of(r))
<1>1. UNCHANGED <<owner, cites>>
  BY DEF ClaimStep, HoldForClaim, Record, SetOverride, ClearOverride, ReadClaim, SetReviewState,
         ReselectClaims, WorksKept
<1>2. claims' # claims => call[r].op \in OfWork
  BY DEF ClaimStep, HoldForClaim, Record, SetOverride, ClearOverride, ReadClaim, SetReviewState,
         ReselectClaims, WorksKept, Doing, OfWork
<1>3. claims' # claims => call[r].work \in Of(r)
  BY <1>2, HeldWork
<1>4. QED BY <1>1, <1>3, ClaimStepFollows, ClaimsHeld, Unchanged

LEMMA CurationStepGrows ==
  ASSUME TypeInv, HeldOK, NEW r \in Requests, CurationStep(r) \/ TagStep
  PROVE  CurationGrows(Of(r))
<1>1. CASE SetMark(r)
  <2>1. call[r].work \in Of(r)
    BY <1>1, HeldWork DEF SetMark, Doing, OfWork
  <2>2. QED BY <1>1, <2>1 DEF SetMark, CurationGrows, TypeInv, RowsOK
<1>2. CASE AssignTag(r)
  <2>1. call[r].work \in Of(r)
    BY <1>2, HeldWork DEF AssignTag, Doing, OfWork
  <2>2. QED BY <1>2, <2>1 DEF AssignTag, CurationGrows
<1>3. CASE ClearMark(r)
  BY <1>3 DEF ClearMark, CurationGrows, TypeInv, RowsOK
<1>4. CASE HoldForCuration(r)
  BY <1>4, Unchanged DEF HoldForCuration
<1>5. CASE UnassignTag(r) \/ TagStep
  BY <1>5 DEF UnassignTag, TagStep, CreateTag, DeleteTag, CurationGrows
<1>6. QED BY <1>1, <1>2, <1>3, <1>4, <1>5 DEF CurationStep

LEMMA WithGrows ==
  ASSUME TypeInv, NEW q \in RampIds, NEW w, NEW item, items' = With(q, w, item)
  PROVE  \A p \in RampIds : On(p)' \subseteq On(p) \cup {w}
<1>1. items = [p \in RampIds |-> items[p]]
  BY DEF TypeInv, RampsOK, ItemsOK
<1>2. \A p \in RampIds : items'[p] = IF p = q THEN [v \in On(q) \cup {w} |-> IF v = w THEN item ELSE items[q][v]]
                                     ELSE items[p]
  BY <1>1 DEF With
<1>3. QED BY <1>2 DEF On

LEMMA RampsStepGrows ==
  ASSUME TypeInv, HeldOK, NEW r \in Requests, RampsStep(r) \/ DeleteStep
  PROVE  RampsGrow(Of(r))
<1>0. /\ items = [p \in RampIds |-> items[p]]
      /\ seed \in [RampIds -> Work \cup {None}]
      /\ call[r].op \in OfRamp => call[r].ramp \in RampIds
  BY DEF TypeInv, RampsOK, ItemsOK, CallsOK, CallOK, Typed
<1>1. CASE CreateRamp(r)
  <2>1. call[r].work \in Of(r)
    BY <1>1, HeldWork DEF CreateRamp, Doing, OfWork
  <2>2. PICK p \in RampIds :
          /\ seed' = [seed EXCEPT ![p] = call[r].work]
          /\ items' = With(p, call[r].work, [position |-> 0, via |-> None, path |-> <<call[r].work>>])
    BY <1>1 DEF CreateRamp
  <2>3. \A q \in RampIds : On(q)' \subseteq On(q) \cup {call[r].work}
    BY <2>2, WithGrows
  <2>4. \A q \in RampIds : seed'[q] \in {seed[q], call[r].work}
    BY <1>0, <2>2
  <2>5. QED BY <2>1, <2>3, <2>4 DEF RampsGrow
<1>2. CASE InsertItem(r)
  <2>1. call[r].work \in Of(r) /\ call[r].ramp \in RampIds
    BY <1>0, <1>2, HeldWork DEF InsertItem, Doing, OfWork, OfRamp
  <2>2. /\ seed' = seed
        /\ \/ items' = items
           \/ items' = With(call[r].ramp, call[r].work,
                            [position |-> NextPosition(call[r].ramp), via |-> call[r].via, path |-> call[r].path])
    BY <1>2 DEF InsertItem
  <2>3. \A q \in RampIds : On(q)' \subseteq On(q) \cup {call[r].work}
    BY <2>1, <2>2, WithGrows DEF On
  <2>4. QED BY <2>1, <2>2, <2>3 DEF RampsGrow
<1>3. CASE DeleteItem(r)
  <2>1. /\ seed' = seed /\ call[r].ramp \in RampIds
        /\ items' = Without(call[r].ramp, call[r].work)
    BY <1>0, <1>3 DEF DeleteItem, Doing, OfRamp
  <2>2. \A p \in RampIds : On(p)' \subseteq On(p)
    BY <1>0, <2>1 DEF Without, On
  <2>3. QED BY <2>1, <2>2 DEF RampsGrow
<1>4. CASE Reorder(r)
  <2>1. /\ seed' = seed /\ call[r].ramp \in RampIds
        /\ \/ items' = items
           \/ \E f : items' = [items EXCEPT ![call[r].ramp] = [w \in On(call[r].ramp) |-> f[w]]]
    <3>1. seed' = seed /\ call[r].ramp \in RampIds
      BY <1>0, <1>4 DEF Reorder, Doing, OfRamp
    <3> DEFINE p == call[r].ramp
               o == call[r].order
               g == [w \in On(p) |-> [items[p][w] EXCEPT !.position = (CHOOSE i \in DOMAIN o : o[i] = w) - 1]]
    <3>2. \/ items' = items
          \/ items' = [items EXCEPT ![p] = g]
      BY <1>4 DEF Reorder
    <3>3. g = [w \in On(p) |-> g[w]]
      OBVIOUS
    <3> HIDE DEF g
    <3>4. QED BY <3>1, <3>2, <3>3
  <2>2. \A p \in RampIds : On(p)' \subseteq On(p)
    BY <1>0, <2>1 DEF On
  <2>3. QED BY <2>1, <2>2 DEF RampsGrow
<1>5. CASE DeleteStep
  <2>1. PICK q \in RampIds : seed' = [seed EXCEPT ![q] = None] /\ items' = [items EXCEPT ![q] = NoItems]
    BY <1>5 DEF DeleteStep, DeleteRamp
  <2>2. \A p \in RampIds : On(p)' \subseteq On(p) /\ seed'[p] \in {seed[p], None}
    BY <1>0, <2>1 DEF On, NoItems
  <2>3. QED BY <2>2 DEF RampsGrow
<1>6. CASE HoldForRamp(r) \/ AddItem(r) \/ RemoveItem(r) \/ ReadOrder(r) \/ BreakDeadlock(r)
  <2>1. UNCHANGED <<seed, items>>
    BY <1>6 DEF HoldForRamp, AddItem, RemoveItem, ReadOrder, BreakDeadlock, rampsVars
  <2>2. QED BY <2>1 DEF RampsGrow, On
<1>7. QED BY <1>1, <1>2, <1>3, <1>4, <1>5, <1>6 DEF RampsStep

LEMMA DocumentsStepGrows ==
  ASSUME TypeInv, HeldOK, NEW r \in Requests, DocumentsStep(r) \/ EditLibrary
  PROVE  DocumentsGrow(Of(r))
<1>1. CASE SetWorkLink(r)
  <2>1. call[r].work \in Of(r)
    BY <1>1, HeldWork DEF SetWorkLink, Doing, OfWork
  <2>2. QED BY <1>1, <2>1 DEF SetWorkLink, DocumentsGrow, TypeInv, RowsOK
<1>2. CASE ListFiles(r) \/ ApplyScan(r) \/ FindByPath(r) \/ EditLibrary
  BY <1>2, Unchanged DEF ListFiles, ApplyScan, FindByPath, EditLibrary, documentsVars
<1>3. QED BY <1>1, <1>2 DEF DocumentsStep

LEMMA RunHolds ==
  ASSUME TypeInv, NEW r \in Requests, Running(r)
  PROVE  call[r].work \in Of(r) /\ call[r].citing \in Of(r)
<1>1. RunOK(call[r])
  BY RunOf DEF TypeInv, Running
<1>2. "work" \in DOMAIN call[r] /\ "citing" \in DOMAIN call[r]
  BY <1>1 DEF RunOK
<1>3. QED BY <1>2, HeldIs DEF Of

LEMMA EvidenceStepGrows ==
  ASSUME TypeInv, HeldOK, NEW r \in Requests, EvidenceStep(r)
  PROVE  ClaimsGrow(Of(r)) /\ TablesGrow(Of(r)) /\ EvidenceGrows(Of(r)) /\ DocumentsGrow(Of(r))
<1>1. CASE CreateStub(r)
  <2>1. TablesGrow(Of(r))
    BY <1>1 DEF CreateStub, TablesGrow, Of
  <2>2. QED BY <1>1, <2>1, Unchanged DEF CreateStub, evidenceVars, documentsVars
<1>2. CASE RecordResolution(r)
  <2>1. call[r].work \in Of(r)
    BY <1>2, RunHolds DEF RecordResolution, Doing, Running, RunSteps
  <2>2. EvidenceGrows(Of(r))
    BY <1>2, <2>1 DEF RecordResolution, EvidenceGrows, TypeInv, RowsOK
  <2>3. QED BY <1>2, <2>2, Unchanged DEF RecordResolution, WorksKept, documentsVars
<1>3. CASE AttachIdentifiers(r)
  <2>1. call[r].work \in Of(r)
    BY <1>3, RunHolds DEF AttachIdentifiers, Doing, Running, RunSteps
  <2>2. TablesGrow(Of(r))
    BY <1>3, <2>1 DEF AttachIdentifiers, TablesGrow
  <2>3. QED BY <1>3, <2>2, Unchanged DEF AttachIdentifiers, documentsVars, evidenceVars
<1>4. CASE AddEntryAssertion(r)
  <2>1. call[r].work \in Of(r) /\ call[r].citing \in Of(r)
    BY <1>4, RunHolds DEF AddEntryAssertion, Doing, Running, RunSteps
  <2>2. TablesGrow(Of(r))
    BY <1>4, <2>1 DEF AddEntryAssertion, TablesGrow
  <2>3. QED BY <1>4, <2>2, Unchanged DEF AddEntryAssertion, documentsVars, evidenceVars
<1>5. CASE RecordEntryClaims(r)
  <2>1. call[r].work \in Of(r)
    BY <1>5, RunHolds DEF RecordEntryClaims, Doing, Running, RunSteps
  <2>2. ClaimsGrow(Of(r))
    BY <2>1, EvidenceFollows, ClaimsHeld
  <2>3. QED BY <1>5, <2>2, Unchanged DEF RecordEntryClaims, documentsVars, evidenceVars
<1>6. CASE StartRun(r) \/ ResolveEntry(r) \/ FoldStub(r) \/ StubFolded(r) \/ EndRun(r)
  BY <1>6, Unchanged DEF StartRun, ResolveEntry, FoldStub, StubFolded, EndRun, WorksKept, documentsVars, evidenceVars
<1>7. QED BY <1>1, <1>2, <1>3, <1>4, <1>5, <1>6 DEF EvidenceStep

LEMMA FlowHolds ==
  ASSUME TypeInv, NEW r \in Requests, Flowing(r)
  PROVE  /\ call[r].work \in Of(r) /\ call[r].cited \in Of(r)
         /\ \A p \in call[r].rows : p[2] \in Of(r)
<1>1. FlowOK(call[r])
  BY FlowOf DEF TypeInv, Flowing
<1>2. "work" \in DOMAIN call[r] /\ "cited" \in DOMAIN call[r] /\ "rows" \in DOMAIN call[r]
  BY <1>1 DEF FlowOK
<1>3. QED BY <1>2, HeldIs DEF Of

(* A look-up that makes a Work where there is none.                         *)
LEMMA GetsGrows ==
  ASSUME TypeInv, NEW i, NEW w \in WorkFor(i), Gets(i, w), cites' = cites, NEW r
  PROVE  TablesGrow(Of(r))
<1>1. <<i, w>> \in owner \/ w \in Work \ works
  BY DEF WorkFor, Owners
<1>2. QED BY <1>1 DEF Gets, TablesGrow, Of

LEMMA LiteratureStepGrows ==
  ASSUME TypeInv, HeldOK, NEW r \in Requests, LiteratureStep(r)
  PROVE  ClaimsGrow(Of(r)) /\ TablesGrow(Of(r)) /\ DocumentsGrow(Of(r))
<1>0. claims' # claims => Flowing(r)
  BY DEF LiteratureStep, StartFlow, LookUpProvider, SearchTitle, FindWork, MakeWork, Attach, Attached,
         LinkDocument, FillDisplayFields, ResolveReference, AssertReference, ReadCited, ReadIds, Hydrate,
         RecordSummary, EndFlow, NoOther, WorksKept, Flowing, Doing, FlowSteps
<1>1. ClaimsGrow(Of(r))
  BY <1>0, FlowHolds, LiteratureFollows, ClaimsHeld
<1>2. TablesGrow(Of(r))
  <2>1. CASE MakeWork(r) \/ ResolveReference(r)
    <3>1. \E i : \E w \in WorkFor(i) : Gets(i, w) /\ cites' = cites
      BY <2>1 DEF MakeWork, ResolveReference
    <3>2. QED BY <3>1, GetsGrows
  <2>2. CASE Attach(r)
    <3>1. call[r].work \in Of(r)
      BY <2>2, FlowHolds DEF Attach, Doing, Flowing, FlowSteps
    <3>2. QED BY <2>2, <3>1 DEF Attach, TablesGrow
  <2>3. CASE AssertReference(r)
    <3>1. call[r].work \in Of(r) /\ call[r].cited \in Of(r)
      BY <2>3, FlowHolds DEF AssertReference, Doing, Flowing, FlowSteps
    <3>2. QED BY <2>3, <3>1 DEF AssertReference, TablesGrow
  <2>4. CASE Hydrate(r)
    <3>1. \A p \in call[r].rows : p[2] \in Of(r)
      BY <2>4, FlowHolds DEF Hydrate, Doing, Flowing, FlowSteps
    <3>2. CASE NoOther
      BY <3>2, Unchanged DEF NoOther, WorksKept
    <3>3. CASE ~NoOther
      <4>1. PICK p \in call[r].rows :
              /\ owner' = IF RecordDoi[p[1]] = None \/ Owners(RecordDoi[p[1]], owner) # {} THEN owner
                          ELSE owner \cup {<<RecordDoi[p[1]], p[2]>>}
              /\ cites' = cites
        BY <2>4, <3>3 DEF Hydrate
      <4>2. \A q \in owner' : q \in owner \/ q[2] = p[2]
        BY <4>1
      <4>3. QED BY <3>1, <4>1, <4>2 DEF TablesGrow
    <3>4. QED BY <3>2, <3>3
  <2>5. CASE \/ StartFlow(r) \/ LookUpProvider(r) \/ SearchTitle(r) \/ FindWork(r) \/ Attached(r)
             \/ LinkDocument(r) \/ FillDisplayFields(r) \/ ReadCited(r) \/ ReadIds(r)
             \/ RecordSummary(r) \/ EndFlow(r)
    BY <2>5, Unchanged DEF StartFlow, LookUpProvider, SearchTitle, FindWork, Attached, LinkDocument,
       FillDisplayFields, ReadCited, ReadIds, RecordSummary, EndFlow, NoOther, WorksKept
  <2>6. QED BY <2>1, <2>2, <2>3, <2>4, <2>5 DEF LiteratureStep
<1>3. DocumentsGrow(Of(r))
  <2>1. CASE LinkDocument(r)
    <3>1. call[r].work \in Of(r)
      BY <2>1, FlowHolds DEF LinkDocument, Doing, Flowing, FlowSteps
    <3>2. QED BY <2>1, <3>1 DEF LinkDocument, DocumentsGrow, TypeInv, RowsOK
  <2>2. CASE ~LinkDocument(r)
    <3>1. linked' = linked
      BY <2>2 DEF LiteratureStep, StartFlow, LookUpProvider, SearchTitle, FindWork, MakeWork, Attach, Attached,
         FillDisplayFields, ResolveReference, AssertReference, ReadCited, ReadIds, Hydrate,
         RecordSummary, EndFlow, NoOther, documentsVars
    <3>2. QED BY <3>1, Unchanged
  <2>3. QED BY <2>1, <2>2
<1>4. QED BY <1>1, <1>2, <1>3

LEMMA TablesStay ==
  ASSUME NEW r \in Requests,
         \/ CurationStep(r) \/ TagStep \/ RampsStep(r) \/ DeleteStep \/ DocumentsStep(r) \/ EditLibrary
  PROVE  UNCHANGED <<owner, cites>>
<1>1. CASE CurationStep(r) \/ TagStep
  BY <1>1 DEF CurationStep, TagStep, HoldForCuration, SetMark, ClearMark, AssignTag, UnassignTag,
              CreateTag, DeleteTag, WorksKept
<1>2. CASE RampsStep(r) \/ DeleteStep
  BY <1>2 DEF RampsStep, DeleteStep, HoldForRamp, CreateRamp, AddItem, InsertItem, RemoveItem, DeleteItem,
              ReadOrder, Reorder, BreakDeadlock, DeleteRamp, WorksKept
<1>3. CASE DocumentsStep(r) \/ EditLibrary
  BY <1>3 DEF DocumentsStep, ListFiles, ApplyScan, FindByPath, SetWorkLink, EditLibrary, WorksKept
<1>4. QED BY <1>1, <1>2, <1>3

(* The rows a request adds are about the Works it holds, or has just made.  *)
LEMMA WriteGrows ==
  ASSUME TypeInv, HeldOK, NEW r \in Requests, Write(r)
  PROVE  Grows(Of(r))
<1> DEFINE S == Of(r)
           Beside == UNCHANGED <<linked, accepted>>
<1>0. /\ UNCHANGED documentsVars => UNCHANGED linked
      /\ UNCHANGED evidenceVars => UNCHANGED accepted
      /\ UNCHANGED Others => Beside
  BY DEF documentsVars, evidenceVars, Others
<1>1. CASE (IdentityStep(r) \/ CitationStep(r)) /\ UNCHANGED <<curationVars, rampsVars, Others>>
  <2>1. TablesGrow(S) /\ claims' = claims
    BY <1>1, IdentityGrows, OthersFollow
  <2>2. QED BY <1>0, <1>1, <2>1, Unchanged DEF Grows
<1>2. CASE ClaimStep(r) /\ UNCHANGED <<curationVars, rampsVars, Others>>
  BY <1>0, <1>2, ClaimGrows, Unchanged DEF Grows
<1>3. CASE (CurationStep(r) \/ TagStep) /\ UNCHANGED <<rampsVars, Others>>
  <2>1. CurationGrows(S) /\ claims' = claims /\ UNCHANGED <<owner, cites>>
    BY <1>3, CurationStepGrows, OthersFollow, TablesStay
  <2>2. QED BY <1>0, <1>3, <2>1, Unchanged DEF Grows
<1>4. CASE (RampsStep(r) \/ DeleteStep) /\ UNCHANGED <<curationVars, Others>>
  <2>1. RampsGrow(S) /\ claims' = claims /\ UNCHANGED <<owner, cites>>
    BY <1>4, RampsStepGrows, OthersFollow, TablesStay
  <2>2. QED BY <1>0, <1>4, <2>1, Unchanged DEF Grows
<1>5. CASE (DocumentsStep(r) \/ EditLibrary) /\ UNCHANGED <<curationVars, rampsVars, evidenceVars>>
  <2>1. DocumentsGrow(S) /\ claims' = claims /\ UNCHANGED <<owner, cites>>
    BY <1>5, DocumentsStepGrows, OthersFollow, TablesStay
  <2>2. QED BY <1>0, <1>5, <2>1, Unchanged DEF Grows
<1>6. CASE EvidenceStep(r) /\ UNCHANGED <<curationVars, rampsVars>>
  BY <1>6, EvidenceStepGrows, Unchanged DEF Grows
<1>7. CASE LiteratureStep(r) /\ UNCHANGED <<curationVars, rampsVars, evidenceVars>>
  BY <1>0, <1>7, LiteratureStepGrows, Unchanged DEF Grows
<1>8. QED BY <1>1, <1>2, <1>3, <1>4, <1>5, <1>6, <1>7 DEF Write

(* A merge adds none before its commit.                                     *)
LEMMA OpenGrows ==
  ASSUME \/ MergeStep /\ UNCHANGED <<curationVars, rampsVars, Others>>
         \/ MoveItems /\ UNCHANGED <<curationVars, Others>>
  PROVE  Grows({})
<1>1. claims' = claims /\ UNCHANGED <<owner, cites>> /\ UNCHANGED curationVars
  BY DEF MergeStep, MergeWork, MoveItems
<1>2. UNCHANGED linked /\ UNCHANGED accepted
  BY DEF Others, documentsVars, evidenceVars
<1>3. UNCHANGED <<seed, items>>
  BY DEF MergeStep, MoveItems, rampsVars
<1>4. RampsGrow({})
  BY <1>3 DEF RampsGrow, On
<1>5. QED BY <1>1, <1>2, <1>4, Unchanged DEF Grows

(* The commit leaves nothing about the Work it merges, and adds rows about  *)
(* no other Work than the one it is merged into.                            *)
LEMMA CommitRefers ==
  ASSUME TypeInv, Commit, NEW w \in Work, w \in Referenced'
  PROVE  w # merge.from /\ (w = merge.into \/ w \in Referenced)
<1> DEFINE Fine == w # merge.from /\ (w = merge.into \/ w \in Referenced)
<1>0. /\ merge # NoMerge /\ MoveClaims /\ RepointAssertions /\ MoveIdentifiers
      /\ MoveCuration /\ MoveRamps /\ MoveDocuments /\ MoveResolutions
  BY DEF Commit, CommitWorks
<1>1. /\ merge.from \in Work /\ merge.into \in Work /\ merge.from # merge.into
      /\ w # None
  BY <1>0, MergeIs, WorksAssumption
<1>2. ASSUME NEW v, v \in Referenced, w = To(v) PROVE Fine
  BY <1>1, <1>2 DEF To
<1>3. CASE \E p \in RampIds : w \in On(p)'
  <2>1. PICK p \in RampIds : w \in DOMAIN items'[p]
    BY <1>3 DEF On
  <2>2. items'[p] = ItemsAfter(p)
    BY <1>0 DEF MoveRamps
  <2>3. w = merge.into \/ (w \in On(p) /\ w # merge.from)
    BY <2>1, <2>2 DEF ItemsAfter, Stays
  <2>4. QED BY <1>1, <2>3 DEF Referenced
<1>4. CASE \E p \in RampIds : w = seed'[p]
  <2>1. PICK p \in RampIds : seed[p] # None /\ w = To(seed[p])
    BY <1>0, <1>1, <1>4 DEF MoveRamps
  <2>2. seed[p] \in Referenced
    BY DEF Referenced
  <2>3. QED BY <1>2, <2>1, <2>2
<1>5. CASE \E d \in DocumentIds : w = linked'[d]
  <2>1. PICK d \in DocumentIds : linked[d] # None /\ w = To(linked[d])
    BY <1>0, <1>1, <1>5 DEF MoveDocuments
  <2>2. linked[d] \in Referenced
    BY DEF Referenced
  <2>3. QED BY <1>2, <2>1, <2>2
<1>6. CASE \E e \in Entries : w = accepted'[e]
  <2>1. PICK e \in Entries : accepted[e] # None /\ w = To(accepted[e])
    BY <1>0, <1>1, <1>6 DEF MoveResolutions
  <2>2. accepted[e] \in Referenced
    BY DEF Referenced
  <2>3. QED BY <1>2, <2>1, <2>2
<1>7. CASE \E q \in tagged' : w = q[1]
  <2>1. PICK p \in tagged : w = To(p[1])
    BY <1>0, <1>7 DEF MoveCuration
  <2>2. p[1] \in Referenced
    BY DEF Referenced
  <2>3. QED BY <1>2, <2>1, <2>2
<1>8. CASE \E q \in cites' : w = q[1] \/ w = q[2]
  <2>1. PICK p \in cites : w = To(p[1]) \/ w = To(p[2])
    BY <1>0, <1>8 DEF RepointAssertions
  <2>2. p[1] \in Referenced /\ p[2] \in Referenced
    BY DEF Referenced
  <2>3. QED BY <1>2, <2>1, <2>2
<1>9. CASE \E q \in owner' : w = q[2]
  <2>1. PICK p \in owner : w = To(p[2])
    BY <1>0, <1>9 DEF MoveIdentifiers
  <2>2. p[2] \in Referenced
    BY DEF Referenced
  <2>3. QED BY <1>2, <2>1, <2>2
<1>10. CASE mark'[w] # None
  <2>1. w # merge.from /\ (w = merge.into \/ mark[w] # None)
    BY <1>0, <1>1, <1>10 DEF MoveCuration, TypeInv, RowsOK
  <2>2. QED BY <2>1 DEF Referenced
<1>11. CASE About(claims', w) # {}
  <2>1. w # merge.from /\ (w = merge.into \/ About(claims, w) # {})
    BY <1>0, <1>11, CommitFollows DEF Same
  <2>2. QED BY <2>1 DEF Referenced
<1>12. QED BY <1>3, <1>4, <1>5, <1>6, <1>7, <1>8, <1>9, <1>10, <1>11 DEF Referenced

LEMMA NothingIsLeft ==
  ASSUME TypeInv, HeldOK, MergedWorks, CatalogNext
  PROVE  NothingLeft
<1> SUFFICES ASSUME NEW w \in Work, w \in Referenced', redirect'[w] # None
             PROVE  redirect[w] # None /\ (w \in Referenced \/ \E r \in Requests : w \in Held(call[r]))
  BY DEF NothingLeft
<1>1. CASE Commit
  <2>1. merge # NoMerge /\ MoveRedirects
    BY <1>1 DEF Commit, CommitWorks
  <2>2. /\ w # merge.from /\ (w = merge.into \/ w \in Referenced)
        /\ merge.from # None
    BY <1>1, <2>1, CommitRefers, MergeIs, WorksAssumption
  <2>3. redirect'[w] = IF redirect[w] = merge.from THEN merge.into ELSE redirect[w]
    BY <2>1, <2>2 DEF MoveRedirects
  <2>4. redirect[w] # None
    BY <2>2, <2>3
  <2>5. w # merge.into
    BY <2>1, <2>4 DEF TypeInv, MergeOK
  <2>6. QED BY <2>2, <2>4, <2>5
<1>2. CASE ~Commit
  <2>1. redirect' = redirect
    BY <1>2, NextAdds DEF Adds
  <2>2. w \in works
    BY <2>1 DEF MergedWorks
  <2>3. ASSUME NEW r \in Requests, Write(r) PROVE w \in Referenced \/ w \in Held(call[r])
    <3>1. w \in Referenced \/ w \in Of(r)
      BY <2>3, WriteGrows, OnlyGrows
    <3>2. QED BY <2>2, <3>1 DEF Of
  <2>4. CASE \/ MergeStep /\ UNCHANGED <<curationVars, rampsVars, Others>>
             \/ MoveItems /\ UNCHANGED <<curationVars, Others>>
    BY <2>1, <2>4, OpenGrows, OnlyGrows
  <2>5. w \in Referenced \/ \E r \in Requests : w \in Held(call[r])
    BY <1>2, <2>3, <2>4 DEF CatalogNext
  <2>6. QED BY <2>1, <2>5
<1>3. QED BY <1>1, <1>2

-----------------------------------------------------------------------------
(* What is curated.                                                         *)
LEMMA CurationStays ==
  ASSUME TypeInv, redirect' = redirect, UNCHANGED curationVars
  PROVE  CurationKept
<1>1. \A w : Where(w) = w
  BY DEF Where
<1>2. \A p \in tagged : p = <<p[1], p[2]>>
  BY DEF TypeInv, RowsOK
<1>3. QED BY <1>1, <1>2 DEF CurationKept, curationVars

LEMMA CurationFollows ==
  ASSUME TypeInv, redirect' = redirect, NEW r \in Requests, CurationStep(r) \/ TagStep
  PROVE  CurationKept
<1>1. \A w : Where(w) = w
  BY DEF Where
<1>2. /\ \A p \in tagged : p = <<p[1], p[2]>>
      /\ mark = [w \in Work |-> mark[w]]
  BY DEF TypeInv, RowsOK
<1>3. Done(r) => call'[r] = Idle
  BY DEF Done, TypeInv, CallsOK
<1>4. CASE SetMark(r) \/ ClearMark(r)
  <2>1. /\ tagged' = tagged /\ call'[r] = Idle /\ call[r].op \in {"mark", "unmark"}
        /\ \A w \in Work : w # call[r].work => mark'[w] = mark[w]
    BY <1>2, <1>3, <1>4 DEF SetMark, ClearMark, Doing
  <2>2. QED BY <1>1, <1>2, <2>1 DEF CurationKept
<1>5. CASE UnassignTag(r)
  <2>1. /\ mark' = mark /\ call'[r] = Idle /\ Doing(r, "untag")
        /\ tagged' = tagged \ {<<call[r].work, call[r].tag>>}
    BY <1>3, <1>5 DEF UnassignTag
  <2>2. ASSUME NEW p \in tagged, p \notin tagged' PROVE p[1] = call[r].work /\ p[2] = call[r].tag
    BY <2>1, <2>2
  <2>3. QED BY <1>1, <1>2, <2>1, <2>2 DEF CurationKept
<1>6. CASE AssignTag(r) \/ HoldForCuration(r) \/ CreateTag
  <2>1. mark' = mark /\ tagged \subseteq tagged'
    BY <1>6 DEF AssignTag, HoldForCuration, CreateTag, curationVars
  <2>2. QED BY <1>1, <1>2, <2>1 DEF CurationKept
<1>7. CASE DeleteTag
  <2>1. mark' = mark /\ \A p \in tagged : p \in tagged' \/ p[2] \notin tags'
    BY <1>7 DEF DeleteTag
  <2>2. QED BY <1>1, <1>2, <2>1 DEF CurationKept
<1>8. QED BY <1>4, <1>5, <1>6, <1>7 DEF CurationStep, TagStep

LEMMA CommitCurates ==
  ASSUME TypeInv, Commit
  PROVE  CurationKept
<1>1. merge # NoMerge /\ MoveRedirects /\ MoveCuration
  BY DEF Commit, CommitWorks
<1>2. /\ merge.from \in Work /\ merge.into \in Work /\ merge.from # merge.into
      /\ redirect[merge.from] = None /\ None \notin Work
  BY <1>1, MergeIs, WorksAssumption DEF TypeInv, MergeOK
<1>3. \A w \in Work : Where(w) = To(w)
  BY <1>1, <1>2 DEF MoveRedirects, Where, To
<1>4. ASSUME NEW w \in Work, mark[w] # None
      PROVE  \/ mark'[To(w)] = mark[w]
             \/ To(w) # w /\ mark'[To(w)] = mark[To(w)] /\ mark[To(w)] # None
  <2>1. /\ mark'[merge.into] = IF mark[merge.into] = None THEN mark[merge.from] ELSE mark[merge.into]
        /\ \A v \in Work : v \notin {merge.from, merge.into} => mark'[v] = mark[v]
    BY <1>1, <1>2 DEF MoveCuration, TypeInv, RowsOK
  <2>2. QED BY <1>2, <1>4, <2>1 DEF To
<1>5. \A p \in tagged : p[1] \in Work /\ <<To(p[1]), p[2]>> \in tagged'
  BY <1>1 DEF MoveCuration, TypeInv, RowsOK
<1>6. QED BY <1>3, <1>4, <1>5 DEF CurationKept

LEMMA CurationIsKept ==
  ASSUME TypeInv, CatalogNext
  PROVE  CurationKept
<1>1. CASE ~Commit
  <2>1. redirect' = redirect
    BY <1>1, NextAdds DEF Adds
  <2>2. ASSUME NEW r \in Requests, Write(r) PROVE CurationKept
    BY <2>1, <2>2, CurationStays, CurationFollows DEF Write
  <2>3. QED BY <1>1, <2>1, <2>2, CurationStays DEF CatalogNext
<1>2. QED BY <1>1, CommitCurates

(* Marks and tags follow a Work when it is merged and no step loses them,   *)
(* and a merge leaves nothing about the merged Work in any table: a row     *)
(* about a Work that redirects was written by a request that had found the  *)
(* Work before the merge.                                                   *)
THEOREM MergesFollowed == CatalogSpec => FollowsMerges
<1> DEFINE Inv == TypeInv /\ HeldOK /\ MergedWorks
<1>1. CatalogInit => Inv
  <2> SUFFICES ASSUME CatalogInit PROVE Inv
    OBVIOUS
  <2>1. TypeInv
    BY TypeInit
  <2>2. HeldOK /\ MergedWorks
    BY IdleShaped DEF CatalogInit, WorksInit, HeldOK, MergedWorks
  <2>3. QED BY <2>1, <2>2
<1>2. Inv /\ [CatalogNext]_catalogVars => Inv'
  BY TypeNext, HeldNext
<1>3. Inv /\ [CatalogNext]_catalogVars => [CurationKept /\ NothingLeft]_catalogVars
  BY CurationIsKept, NothingIsLeft
<1> HIDE DEF Inv
<1>4. QED BY <1>1, <1>2, <1>3, PTL DEF CatalogSpec, FollowsMerges
=============================================================================
