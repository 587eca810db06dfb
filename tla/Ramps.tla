------------------------------- MODULE Ramps --------------------------------
(* Reading ramps: ordered Works with the citation path that led to each.    *)
(* An item is added and removed under a lock on the row of its ramp; a      *)
(* merge repoints the items of every ramp under the locks of the two Works, *)
(* and takes the lock of a ramp only to repoint its seed.                   *)
EXTENDS Works

CONSTANTS
  RampIds,
  PathMax,   \* RAMP_PATH_MAX
  ItemsMax,  \* RAMP_ITEMS_MAX
  LastPosition  \* bound: the largest position a request appends at

ASSUME RampsAssumption == /\ PathMax \in Nat /\ ItemsMax \in Nat \ {0}
                          /\ LastPosition \in Nat
                          /\ None \notin Requests

VARIABLES
  seed,       \* the seed of each ramp, None for a ramp that does not exist
  items,      \* items[p]: the Works on ramp p, each with position, via and path
  rampLock,   \* the request that holds the lock of a ramp's row
  seen        \* the rows an open merge has changed: pairs of a ramp and a Work

rampsVars == <<seed, items, rampLock, seen>>

NoItems == [w \in {} |-> None]

RampsInit ==
  /\ seed = [p \in RampIds |-> None]
  /\ items = [p \in RampIds |-> NoItems]
  /\ rampLock = [p \in RampIds |-> None]
  /\ seen = {}

On(p) == DOMAIN items[p]

Exists(p) == seed[p] # None

(* The rows an open merge has locked make other writers of them wait.       *)
RowsFree(p, S) == \A w \in S : <<p, w>> \notin seen

With(p, w, item) ==
  [items EXCEPT ![p] = [v \in On(p) \cup {w} |-> IF v = w THEN item ELSE @[v]]]

Without(p, w) == [items EXCEPT ![p] = [v \in On(p) \ {w} |-> @[v]]]

(* One past the largest position, 0 on a ramp without items.                *)
NextPosition(p) ==
  LET above == {n \in {items[p][w].position + 1 : w \in On(p)} \cup {0} :
                  \A w \in On(p) : items[p][w].position < n}
  IN CHOOSE n \in above : TRUE

-----------------------------------------------------------------------------
(* A request resolves the Works it names: the via of an add and the item of *)
(* a removal are items it has seen on the ramp.  Bound: nothing is added    *)
(* past LastPosition.                                                       *)
HoldForRamp(r) ==
  /\ \/ \E w \in works : Begin(r, [op |-> "create ramp", work |-> Resolved(w)])
     \/ \E p \in RampIds, w \in works : \E v \in On(p) \cup {None} :
          /\ Exists(p) /\ NextPosition(p) <= LastPosition
          /\ Begin(r, [op |-> "add", ramp |-> p, work |-> Resolved(w),
                       via |-> IF v = None THEN None ELSE Resolved(v)])
     \/ \E p \in RampIds : \E w \in On(p) :
          Begin(r, [op |-> "remove", ramp |-> p, work |-> Resolved(w)])
  /\ UNCHANGED rampsVars /\ WorksKept

(* The ramp and its seed item are inserted in one transaction.              *)
CreateRamp(r) ==
  /\ Doing(r, "create ramp") /\ Free(r)
  /\ \E p \in RampIds :
       /\ ~Exists(p)
       /\ seed' = [seed EXCEPT ![p] = call[r].work]
       /\ items' = With(p, call[r].work,
                        [position |-> 0, via |-> None, path |-> <<call[r].work>>])
  /\ Done(r)
  /\ UNCHANGED <<rampLock, seen>> /\ WorksKept

DeleteRamp(p) ==
  /\ Exists(p) /\ rampLock[p] = None /\ RowsFree(p, On(p))
  /\ seed' = [seed EXCEPT ![p] = None]
  /\ items' = [items EXCEPT ![p] = NoItems]
  /\ UNCHANGED <<rampLock, seen, call>> /\ WorksKept

(* Under the lock of the ramp: the Work is new on it, the Work it was       *)
(* reached from is on it and cites it, and the path stays short enough.     *)
MayAdd(c) ==
  /\ Exists(c.ramp)
  /\ c.work \notin On(c.ramp)
  /\ c.via # None => /\ c.via \in On(c.ramp)
                     /\ <<c.via, c.work>> \in cites
                     /\ Len(items[c.ramp][c.via].path) + 1 <= PathMax

PathTo(c) == IF c.via = None THEN <<c.work>>
             ELSE Append(items[c.ramp][c.via].path, c.work)

AddItem(r) ==
  /\ Doing(r, "add") /\ rampLock[call[r].ramp] = None
  /\ IF MayAdd(call[r])
     THEN /\ rampLock' = [rampLock EXCEPT ![call[r].ramp] = r]
          /\ call' = [call EXCEPT ![r] =
               [op |-> "adding", ramp |-> @.ramp, work |-> @.work, via |-> @.via,
                path |-> PathTo(@)]]
     ELSE Done(r) /\ UNCHANGED rampLock
  /\ UNCHANGED <<seed, items, seen>> /\ WorksKept

(* The insert refers to the Work and the Work it was reached from, and so   *)
(* waits for a merge of either; it fails when the ramp is full or has an    *)
(* item for the Work by then.                                               *)
InsertItem(r) ==
  /\ Doing(r, "adding")
  /\ Free(r) /\ call[r].via \notin Locked
  /\ LET p == call[r].ramp
         w == call[r].work IN
     /\ items' = IF w \in On(p) \/ Cardinality(On(p)) >= ItemsMax THEN items
                 ELSE With(p, w, [position |-> NextPosition(p), via |-> call[r].via,
                                  path |-> call[r].path])
     /\ rampLock' = [rampLock EXCEPT ![p] = None]
  /\ Done(r)
  /\ UNCHANGED <<seed, seen>> /\ WorksKept

(* Under the lock of the ramp the seed is read, and refused.                *)
RemoveItem(r) ==
  /\ Doing(r, "remove") /\ rampLock[call[r].ramp] = None
  /\ IF Exists(call[r].ramp) /\ seed[call[r].ramp] # call[r].work
     THEN /\ rampLock' = [rampLock EXCEPT ![call[r].ramp] = r]
          /\ call' = [call EXCEPT ![r].op = "removing"]
     ELSE Done(r) /\ UNCHANGED rampLock
  /\ UNCHANGED <<seed, items, seen>> /\ WorksKept

DeleteItem(r) ==
  /\ Doing(r, "removing")
  /\ RowsFree(call[r].ramp, {call[r].work})
  /\ items' = Without(call[r].ramp, call[r].work)
  /\ rampLock' = [rampLock EXCEPT ![call[r].ramp] = None]
  /\ Done(r)
  /\ UNCHANGED <<seed, seen>> /\ WorksKept

(* An order, given or suggested (the seed last), lists the items as they    *)
(* were read, and is refused when it is not exactly the items by then.      *)
Orders(S) == {o \in [1 .. Cardinality(S) -> S] : \A i, j \in DOMAIN o : o[i] = o[j] => i = j}

ReadOrder(r) ==
  /\ \E p \in RampIds : /\ Exists(p)
                        /\ \E o \in Orders(On(p)) :
                             Begin(r, [op |-> "order", ramp |-> p, order |-> o])
  /\ UNCHANGED rampsVars /\ WorksKept

Reorder(r) ==
  /\ Doing(r, "order")
  /\ LET p == call[r].ramp
         o == call[r].order IN
     /\ rampLock[p] = None /\ RowsFree(p, On(p))
     /\ items' =
          IF {o[i] : i \in DOMAIN o} # On(p) \/ Len(o) # Cardinality(On(p)) THEN items
          ELSE [items EXCEPT ![p] = [w \in On(p) |->
                 [@[w] EXCEPT !.position = (CHOOSE i \in DOMAIN o : o[i] = w) - 1]]]
  /\ Done(r)
  /\ UNCHANGED <<seed, rampLock, seen>> /\ WorksKept

-----------------------------------------------------------------------------
(* The merge's statements on items: those of the merged Work are deleted    *)
(* where the survivor has one and repointed where it has none, and every    *)
(* path and via is repointed.  The rows stay locked until the commit.       *)
Touched(p) ==
  {w \in On(p) : \/ w = merge.from
                 \/ items[p][w].via = merge.from
                 \/ \E i \in DOMAIN items[p][w].path : items[p][w].path[i] = merge.from}

MoveItems ==
  /\ merge.at = "locked"
  /\ seen' = UNION {{<<p, w>> : w \in Touched(p)} : p \in RampIds}
  /\ merge' = [at |-> "moved", from |-> merge.from, into |-> merge.into,
               drop |-> {p \in RampIds : {merge.from, merge.into} \subseteq On(p)}]
  /\ UNCHANGED <<works, redirect, owner, cites, claims, shown, call>>
  /\ UNCHANGED <<seed, items, rampLock>>

Repointed(item) ==
  [item EXCEPT !.via = IF @ = None THEN None ELSE To(@),
               !.path = [i \in DOMAIN @ |-> To(@[i])]]

(* The item of Work w on ramp p after the merge.                            *)
Moved(p, w) == IF <<p, w>> \in seen THEN Repointed(items[p][w]) ELSE items[p][w]

Stays(p) == {w \in On(p) : w # merge.from}

(* Fault for the mutation runs: an item is repointed only where it can be.  *)
ItemsKeptAfter(p) ==
  IF merge.from \notin On(p) \/ p \in merge.drop
  THEN [w \in On(p) |-> Moved(p, w)]
  ELSE [w \in Stays(p) \cup {merge.into} |->
          Moved(p, IF w = merge.into THEN merge.from ELSE w)]

ItemsAfter(p) ==
  IF merge.from \notin On(p) \/ p \in merge.drop
  THEN [w \in Stays(p) |-> Moved(p, w)]
  ELSE [w \in Stays(p) \cup {merge.into} |->
          Moved(p, IF w = merge.into THEN merge.from ELSE w)]

(* Repointing a seed takes the lock of its ramp; then the merge commits.    *)
MoveRamps ==
  /\ merge.at = "moved"
  /\ \A p \in RampIds : seed[p] = merge.from => rampLock[p] = None
  /\ seed' = [p \in RampIds |-> IF seed[p] = None THEN None ELSE To(seed[p])]
  /\ items' = [p \in RampIds |-> ItemsAfter(p)]
  /\ seen' = {}
  /\ UNCHANGED rampLock

(* The database aborts one of two transactions that wait for each other: a  *)
(* merge for the lock of a ramp, its holder for the rows of the merge.      *)
BreakDeadlock(r) ==
  /\ merge.at = "moved"
  /\ call[r].op \in {"adding", "removing"}
  /\ seed[call[r].ramp] = merge.from
  /\ \/ Doing(r, "adding") /\ (~Free(r) \/ call[r].via \in Locked)
     \/ Doing(r, "removing") /\ ~RowsFree(call[r].ramp, {call[r].work})
  /\ \/ /\ rampLock' = [rampLock EXCEPT ![call[r].ramp] = None]
        /\ Done(r)
        /\ UNCHANGED <<merge, seen>>
     \/ /\ merge' = NoMerge
        /\ seen' = {}
        /\ UNCHANGED <<call, rampLock>>
  /\ UNCHANGED <<seed, items, works, redirect, owner, cites, claims, shown>>

RampsStep(r) ==
  \/ HoldForRamp(r) \/ CreateRamp(r) \/ AddItem(r) \/ InsertItem(r)
  \/ RemoveItem(r) \/ DeleteItem(r) \/ ReadOrder(r) \/ Reorder(r) \/ BreakDeadlock(r)

DeleteStep == \E p \in RampIds : DeleteRamp(p)

-----------------------------------------------------------------------------
(* The positions of a ramp's items are distinct, whatever adds, removals,   *)
(* reorders and merges happen in between.                                   *)
PositionsDistinct ==
  \A p \in RampIds : \A v, w \in On(p) :
    items[p][v].position = items[p][w].position => v = w

(* Each step of a path is a citation: the path of an item was checked hop   *)
(* by hop when it grew, and stays a path in the citation graph when Works   *)
(* on it are merged, up to the redirects of Works merged meanwhile.         *)
PathsCited ==
  \A p \in RampIds : \A w \in On(p) :
    LET path == items[p][w].path
        step(i) == <<Resolved(path[i]), Resolved(path[i + 1])>>
    IN \A i \in 1 .. Len(path) - 1 :
         \/ step(i)[1] = step(i)[2]
         \/ \E c \in cites : <<Resolved(c[1]), Resolved(c[2])>> = step(i)

(* ramp.rs says that the seed item stays until the ramp is deleted: the     *)
(* seed of a ramp is one of its items.                                      *)
SeedIsItem == \A p \in RampIds : Exists(p) => seed[p] \in On(p)
=============================================================================
