-------------------------- MODULE ExpansionProofs --------------------------
(***************************************************************************)
(* Proofs about Expansion for any graph, any walks and any bounds.         *)
(***************************************************************************)
EXTENDS Expansion, FiniteSetTheorems, SequenceTheorems, TLAPS

Expanding == {"expand", "count", "flow", "remote", "ingest", "record"}
Working == Expanding \cup {"plan", "descend"}

(* What the record of a walk in progress is like.                          *)
Shape(w) ==
  /\ w.pc # "idle" => w.seed \in Works
  /\ w.pc \in Working \cup {"check", "queued"} => w.at \in 1..Len(w.level)
  /\ w.pc \in {"plan", "descend"} => w.depth > 1
  /\ w.pc = "descend" => w.at = 1
  /\ w.pc = "check" => w.way = "inline"
  /\ w.pc # "ingest" => w.todo = {}
  /\ w.pc \in {"ingest", "record"} => w.row \in Rows

(* Commands run by themselves; the job that works is the first in the      *)
(* queue of the semaphore.                                                 *)
Owned ==
  /\ \A x \in Commands : walk[x].way = "command" /\ walk[x].pc \in Working \cup {"idle"}
  /\ \A x \in Requests : walk[x].pc # "idle" => walk[x].way \in {"inline", "job"}
  /\ \A x \in Requests : walk[x].way = "job" /\ walk[x].pc \in Working =>
       queue # <<>> /\ Head(queue) = x

TypeInv ==
  /\ TypeOK
  /\ \A x \in Walks : Shape(walk[x])
  /\ Owned

(* How the record of a walk may change while it works.                     *)
Follows(w, v) ==
  /\ v \in WalkStates
  /\ Shape(v)
  /\ \/ v = Idle /\ w.way = "command"
     \/ /\ v.pc \in Working \cup {"publish"}
        /\ v.way = w.way
        /\ v.seed = w.seed
        /\ v.pc = "publish" => w.way # "command"

-----------------------------------------------------------------------------
(* The record of one walk.                                                 *)

(* The record of a walk that does nothing has its type.                    *)
LEMMA IdleType ==
  /\ Idle \in WalkStates
  /\ Idle.pc = "idle" /\ Idle.way = "command" /\ Idle.todo = {}
  /\ Idle.at = 1 /\ Idle.done = <<>>
  /\ Shape(Idle)
<1>1. Idle \in WalkStates
  BY DEF Idle, WalkStates
<1>2. Idle.pc = "idle" /\ Idle.way = "command" /\ Idle.todo = {}
      /\ Idle.at = 1 /\ Idle.done = <<>>
  BY DEF Idle
<1> QED
  BY <1>1, <1>2 DEF Shape, Working, Expanding

(* A walk that begins has a level of one Work.                             *)
LEMMA BegunType ==
  ASSUME NEW ask \in [seed: Works, depth: Nat \ {0}, refresh: BOOLEAN],
         NEW pc \in {"check", "queued", "expand"}, NEW way \in {"inline", "job", "command"},
         pc = "check" => way = "inline"
  PROVE  LET w == Begun(pc, way, ask)
         IN  /\ w \in WalkStates /\ Shape(w)
             /\ w.pc = pc /\ w.way = way /\ w.seed = ask.seed
             /\ w.level = <<ask.seed>> /\ w.at = 1 /\ w.depth = ask.depth
             /\ w.refresh = ask.refresh /\ w.done = <<>>
<1> DEFINE a == [Idle EXCEPT !.pc = pc]
           b == [a EXCEPT !.way = way]
           c == [b EXCEPT !.seed = ask.seed]
           d == [c EXCEPT !.depth = ask.depth]
           e == [d EXCEPT !.refresh = ask.refresh]
           w == [e EXCEPT !.level = <<ask.seed>>]
<1>1. Begun(pc, way, ask) = w
  BY Zenon DEF Begun
<1>2. a \in WalkStates /\ a.pc = pc /\ a.at = 1 /\ a.todo = {} /\ a.done = <<>>
  BY IdleType DEF WalkStates
<1> HIDE DEF a
<1>3. /\ b \in WalkStates /\ b.pc = pc /\ b.at = 1 /\ b.todo = {} /\ b.done = <<>>
      /\ b.way = way
  BY <1>2 DEF WalkStates
<1> HIDE DEF b
<1>4. /\ c \in WalkStates /\ c.pc = pc /\ c.at = 1 /\ c.todo = {} /\ c.done = <<>>
      /\ c.way = way /\ c.seed = ask.seed
  BY <1>3 DEF WalkStates
<1> HIDE DEF c
<1>5. /\ d \in WalkStates /\ d.pc = pc /\ d.at = 1 /\ d.todo = {} /\ d.done = <<>>
      /\ d.way = way /\ d.seed = ask.seed /\ d.depth = ask.depth
  BY <1>4 DEF WalkStates
<1> HIDE DEF d
<1>6. /\ e \in WalkStates /\ e.pc = pc /\ e.at = 1 /\ e.todo = {} /\ e.done = <<>>
      /\ e.way = way /\ e.seed = ask.seed /\ e.depth = ask.depth /\ e.refresh = ask.refresh
  BY <1>5 DEF WalkStates
<1> HIDE DEF e
<1>7. <<ask.seed>> \in Seq(Works) /\ Len(<<ask.seed>>) = 1
  OBVIOUS
<1>8. /\ w \in WalkStates /\ w.pc = pc /\ w.at = 1 /\ w.todo = {} /\ w.done = <<>>
      /\ w.way = way /\ w.seed = ask.seed /\ w.depth = ask.depth /\ w.refresh = ask.refresh
      /\ w.level = <<ask.seed>>
  BY <1>6, <1>7 DEF WalkStates
<1> HIDE DEF w
<1>9. Shape(w)
  BY <1>7, <1>8 DEF Shape, Working, Expanding
<1> QED
  BY <1>1, <1>8, <1>9

(* A walk that ends is idle or has its result to publish.                  *)
LEMMA EndedFollows ==
  ASSUME NEW w \in WalkStates, w.seed \in Works, NEW ok \in BOOLEAN
  PROVE  /\ Follows(w, Ended(w, ok))
         /\ Ended(w, ok).pc \in {"idle", "publish"}
<1>1. CASE w.way = "command"
  BY <1>1, IdleType DEF Ended, Follows
<1>2. CASE w.way # "command"
  <2>1. Ended(w, ok) =
          [pc |-> "publish", way |-> w.way, seed |-> w.seed, depth |-> 0, refresh |-> FALSE,
           level |-> <<>>, at |-> 1, done |-> <<>>, plan |-> <<>>, cut |-> FALSE, todo |-> {},
           row |-> None, ok |-> ok]
    BY <1>2 DEF Ended, Idle
  <2>2. Ended(w, ok) \in WalkStates
    BY <2>1 DEF WalkStates
  <2>3. Shape(Ended(w, ok))
    BY <2>1 DEF Shape, Working, Expanding
  <2> QED
    BY <1>2, <2>1, <2>2, <2>3 DEF Follows
<1> QED
  BY <1>1, <1>2

(* A Work that is expanded makes the walk follow.                          *)
LEMMA AdvancedFollows ==
  ASSUME NEW w \in WalkStates, Shape(w), w.pc \in {"expand", "record"}
  PROVE  /\ Follows(w, Advanced(w))
         /\ Advanced(w).pc \in {"expand", "plan", "idle", "publish"}
<1> DEFINE e == [w EXCEPT !.done = Append(@, Current(w)), !.row = None]
<1>1. /\ w.at \in 1..Len(w.level) /\ w.seed \in Works /\ w.todo = {}
      /\ w.level \in Seq(Works) /\ w.done \in Seq(Works) /\ w.depth \in Nat
  BY DEF Shape, Working, Expanding, WalkStates
<1>2. Current(w) \in Works
  BY <1>1, ElementOfSeq DEF Current
<1>3. Append(w.done, Current(w)) \in Seq(Works)
  BY <1>1, <1>2, AppendProperties
<1>4. /\ e \in WalkStates /\ e.seed = w.seed /\ e.way = w.way /\ e.todo = {}
      /\ e.level = w.level /\ e.at = w.at /\ e.depth = w.depth
  BY <1>1, <1>3 DEF WalkStates
<1> HIDE DEF e
<1>5. CASE w.at < Len(w.level)
  <2> DEFINE n == [e EXCEPT !.at = @ + 1]
             v == [n EXCEPT !.pc = "expand"]
  <2>1. Advanced(w) = v
    BY <1>5, Zenon DEF Advanced, e
  <2>2. e.at + 1 \in Nat
    BY <1>1, <1>4
  <2>3. n \in WalkStates /\ n.at = w.at + 1 /\ n.level = w.level /\ n.todo = {}
        /\ n.way = w.way /\ n.seed = w.seed
    BY <1>4, <2>2 DEF WalkStates
  <2> HIDE DEF n
  <2>4. /\ v \in WalkStates /\ v.at = w.at + 1 /\ v.level = w.level /\ v.todo = {}
        /\ v.way = w.way /\ v.seed = w.seed /\ v.pc = "expand"
    BY <2>3 DEF WalkStates
  <2>5. v.at \in 1..Len(v.level)
    BY <1>1, <1>5, <2>4
  <2> HIDE DEF v
  <2> QED
    BY <1>1, <2>1, <2>4, <2>5 DEF Follows, Shape, Working, Expanding
<1>6. CASE ~(w.at < Len(w.level)) /\ w.depth > 1
  <2> DEFINE n == [e EXCEPT !.at = 1]
             v == [n EXCEPT !.pc = "plan"]
  <2>1. Advanced(w) = v
    BY <1>6, Zenon DEF Advanced, e
  <2>3. n \in WalkStates /\ n.at = 1 /\ n.level = w.level /\ n.todo = {}
        /\ n.way = w.way /\ n.seed = w.seed /\ n.depth = w.depth
    BY <1>4 DEF WalkStates
  <2> HIDE DEF n
  <2>4. /\ v \in WalkStates /\ v.at = 1 /\ v.level = w.level /\ v.todo = {}
        /\ v.way = w.way /\ v.seed = w.seed /\ v.pc = "plan" /\ v.depth = w.depth
    BY <2>3 DEF WalkStates
  <2>5. v.at \in 1..Len(v.level)
    BY <1>1, <2>4
  <2> HIDE DEF v
  <2> QED
    BY <1>1, <1>6, <2>1, <2>4, <2>5 DEF Follows, Shape, Working, Expanding
<1>7. CASE ~(w.at < Len(w.level)) /\ ~(w.depth > 1)
  <2>1. Advanced(w) = Ended(e, TRUE)
    BY <1>7, Zenon DEF Advanced, e
  <2>2. Follows(e, Ended(e, TRUE)) /\ Ended(e, TRUE).pc \in {"idle", "publish"}
    BY <1>1, <1>4, EndedFollows
  <2> QED
    BY <1>4, <2>1, <2>2 DEF Follows
<1> QED
  BY <1>5, <1>6, <1>7

-----------------------------------------------------------------------------
(* Type correctness.                                                       *)

(* A step of a walk at work: the graph grows, the ledger keeps its rows    *)
(* or replaces them, and the record of the walk follows.                   *)
Progress(x) ==
  /\ edges' \in [Works -> SUBSET Works]
  /\ \A w \in Works : edges[w] \subseteq edges'[w]
  /\ ledger' \in [Works -> Rows \cup {None}]
  /\ \A w \in Works : ledger[w] # None => ledger'[w] # None
  /\ job' = job
  /\ \E v : Put(x, v) /\ Follows(walk[x], v)

(* Marking the stage of a walk keeps its type.                             *)
LEMMA StageType ==
  ASSUME NEW w \in WalkStates, Shape(w), w.pc \in Expanding,
         NEW pc \in {"count", "flow", "remote", "expand"}, w.todo = {}
  PROVE  /\ Follows(w, [w EXCEPT !.pc = pc])
         /\ [w EXCEPT !.pc = pc].row = w.row
<1> DEFINE v == [w EXCEPT !.pc = pc]
<1>1. /\ v \in WalkStates /\ v.pc = pc /\ v.way = w.way /\ v.seed = w.seed /\ v.todo = w.todo
      /\ v.at = w.at /\ v.level = w.level /\ v.row = w.row
  BY DEF WalkStates, Expanding
<1> HIDE DEF v
<1>2. w.seed \in Works /\ w.at \in 1..Len(w.level)
  BY DEF Shape, Working, Expanding
<1>3. Follows(w, v)
  BY <1>1, <1>2 DEF Follows, Shape, Working, Expanding
<1> QED
  BY <1>1, <1>3 DEF v

(* A row to be written keeps the type of a walk.                           *)
LEMMA RecordType ==
  ASSUME NEW w \in WalkStates, Shape(w), w.pc \in Expanding, w.todo = {}, NEW row \in Rows
  PROVE  Follows(w, [w EXCEPT !.pc = "record", !.row = row])
<1> DEFINE n == [w EXCEPT !.pc = "record"]
           v == [n EXCEPT !.row = row]
<1>1. /\ n \in WalkStates /\ n.pc = "record" /\ n.way = w.way /\ n.seed = w.seed
      /\ n.todo = w.todo /\ n.at = w.at /\ n.level = w.level
  BY DEF WalkStates
<1> HIDE DEF n
<1>2. /\ v \in WalkStates /\ v.pc = "record" /\ v.way = w.way /\ v.seed = w.seed
      /\ v.todo = w.todo /\ v.at = w.at /\ v.level = w.level /\ v.row = row
  BY <1>1 DEF WalkStates
<1> HIDE DEF v
<1>3. w.seed \in Works /\ w.at \in 1..Len(w.level)
  BY DEF Shape, Working, Expanding
<1>4. Follows(w, v)
  BY <1>2, <1>3 DEF Follows, Shape, Working, Expanding
<1> QED
  BY <1>4 DEF v, n

(* Works are finitely many, and so are the Works of any set of them.       *)
LEMMA WorksFinite ==
  /\ IsFiniteSet(Works)
  /\ \A S \in SUBSET Works : IsFiniteSet(S) /\ Cardinality(S) \in Nat
  /\ \A S, T \in SUBSET Works : S \subseteq T => Cardinality(S) <= Cardinality(T)
<1>1. IsFiniteSet(1..NWorks)
  BY FS_Interval, GraphAssumption
<1>2. IsFiniteSet(Works)
  BY <1>1 DEF Works
<1>3. ASSUME NEW S \in SUBSET Works PROVE IsFiniteSet(S) /\ Cardinality(S) \in Nat
  BY <1>2, FS_Subset, FS_CardinalityType
<1>4. ASSUME NEW S \in SUBSET Works, NEW T \in SUBSET Works, S \subseteq T
      PROVE  Cardinality(S) <= Cardinality(T)
  BY <1>3, <1>4, FS_Subset
<1> QED
  BY <1>2, <1>3, <1>4

(* A flow that asserts references keeps the type of a walk.                *)
LEMMA IngestingType ==
  ASSUME NEW w \in WalkStates, Shape(w), w.pc \in Expanding,
         NEW method \in {"local", "provider"}, NEW found \in SUBSET Works
  PROVE  LET v == Ingesting(w, method, found)
         IN  /\ Follows(w, v)
             /\ v.pc = "ingest" /\ v.todo = found /\ v.at = w.at /\ v.level = w.level
             /\ v.row = [state |-> "expanded", method |-> method, count |-> Cardinality(found)]
<1> DEFINE row == [state |-> "expanded", method |-> method, count |-> Cardinality(found)]
           m == [w EXCEPT !.pc = "ingest"]
           n == [m EXCEPT !.todo = found]
           v == [n EXCEPT !.row = row]
<1>1. Ingesting(w, method, found) = v
  BY Zenon DEF Ingesting
<1>2. row \in Rows
  BY WorksFinite DEF Rows, Methods
<1> HIDE DEF row
<1>3. /\ m \in WalkStates /\ m.pc = "ingest" /\ m.way = w.way /\ m.seed = w.seed
      /\ m.at = w.at /\ m.level = w.level
  BY DEF WalkStates
<1> HIDE DEF m
<1>4. /\ n \in WalkStates /\ n.pc = "ingest" /\ n.way = w.way /\ n.seed = w.seed
      /\ n.at = w.at /\ n.level = w.level /\ n.todo = found
  BY <1>3 DEF WalkStates
<1> HIDE DEF n
<1>5. /\ v \in WalkStates /\ v.pc = "ingest" /\ v.way = w.way /\ v.seed = w.seed
      /\ v.at = w.at /\ v.level = w.level /\ v.todo = found /\ v.row = row
  BY <1>2, <1>4 DEF WalkStates
<1> HIDE DEF v
<1>6. w.seed \in Works /\ w.at \in 1..Len(w.level)
  BY DEF Shape, Working, Expanding
<1>7. Follows(w, v)
  BY <1>2, <1>5, <1>6 DEF Follows, Shape, Working, Expanding
<1> QED
  BY <1>1, <1>5, <1>7 DEF row

(* The plan of the next level grows by Works.                              *)
LEMMA PlanFollows ==
  ASSUME NEW w \in WalkStates, Shape(w), w.pc = "plan", NEW taken \in SUBSET Works,
         NEW s \in [1..Cardinality(taken) -> taken]
  PROVE  Follows(w, IF w.at < Len(w.level)
                      THEN [w EXCEPT !.plan = @ \o s, !.at = @ + 1]
                      ELSE [w EXCEPT !.plan = @ \o s, !.at = 1, !.pc = "descend"])
<1>1. /\ w.seed \in Works /\ w.at \in 1..Len(w.level) /\ w.depth > 1 /\ w.todo = {}
      /\ w.level \in Seq(Works) /\ w.plan \in Seq(Works)
  BY DEF Shape, Working, WalkStates
<1>2. s \in Seq(Works)
  <2>1. Cardinality(taken) \in Nat
    BY WorksFinite
  <2>2. s \in [1..Cardinality(taken) -> Works]
    OBVIOUS
  <2> QED
    BY <2>1, <2>2
<1>3. w.plan \o s \in Seq(Works)
  BY <1>1, <1>2, ConcatProperties
<1> DEFINE m == [w EXCEPT !.plan = @ \o s]
<1>4. /\ m \in WalkStates /\ m.pc = "plan" /\ m.way = w.way /\ m.seed = w.seed /\ m.todo = {}
      /\ m.at = w.at /\ m.level = w.level /\ m.depth = w.depth
  BY <1>1, <1>3 DEF WalkStates
<1> HIDE DEF m
<1>5. CASE w.at < Len(w.level)
  <2> DEFINE v == [m EXCEPT !.at = @ + 1]
  <2>1. m.at + 1 \in Nat
    BY <1>1, <1>4
  <2>2. /\ v \in WalkStates /\ v.pc = "plan" /\ v.way = w.way /\ v.seed = w.seed /\ v.todo = {}
        /\ v.at = w.at + 1 /\ v.level = w.level /\ v.depth = w.depth
    BY <1>4, <2>1 DEF WalkStates
  <2>3. v.at \in 1..Len(v.level)
    BY <1>1, <1>5, <2>2
  <2> HIDE DEF v
  <2>4. Follows(w, v)
    BY <1>1, <2>2, <2>3 DEF Follows, Shape, Working, Expanding
  <2> QED
    BY <1>5, <2>4, Zenon DEF v, m
<1>6. CASE ~(w.at < Len(w.level))
  <2> DEFINE n == [m EXCEPT !.at = 1]
             v == [n EXCEPT !.pc = "descend"]
  <2>1. /\ n \in WalkStates /\ n.way = w.way /\ n.seed = w.seed /\ n.todo = {}
        /\ n.at = 1 /\ n.level = w.level /\ n.depth = w.depth
    BY <1>4 DEF WalkStates
  <2> HIDE DEF n
  <2>2. /\ v \in WalkStates /\ v.pc = "descend" /\ v.way = w.way /\ v.seed = w.seed
        /\ v.todo = {} /\ v.at = 1 /\ v.level = w.level /\ v.depth = w.depth
    BY <2>1 DEF WalkStates
  <2>3. v.at \in 1..Len(v.level)
    BY <1>1, <2>2
  <2> HIDE DEF v
  <2>4. Follows(w, v)
    BY <1>1, <2>2, <2>3 DEF Follows, Shape, Working, Expanding
  <2> QED
    BY <1>6, <2>4, Zenon DEF v, n, m
<1> QED
  BY <1>5, <1>6

(* What the budget keeps of the plan are Works, no more than remain.       *)
LEMMA KeptType ==
  ASSUME NEW w \in WalkStates
  PROVE  /\ Kept(w) \in Seq(Works)
         /\ Len(Kept(w)) <= Remaining(w)
         /\ Kept(w) # w.plan => Len(Kept(w)) = Remaining(w)
         /\ \A i \in 1..Len(Kept(w)) : i \in 1..Len(w.plan) /\ Kept(w)[i] = w.plan[i]
<1>1. w.plan \in Seq(Works) /\ Len(w.plan) \in Nat /\ Len(w.done) \in Nat /\ Budget \in Nat
  BY BoundsAssumption DEF WalkStates
<1>2. Remaining(w) \in Nat
  BY <1>1 DEF Remaining
<1>3. CASE Len(w.plan) > Remaining(w)
  <2>1. \A i \in 1..Remaining(w) : i \in 1..Len(w.plan) /\ w.plan[i] \in Works
    BY <1>1, <1>2, <1>3, ElementOfSeq
  <2>2. /\ SubSeq(w.plan, 1, Remaining(w)) \in Seq(Works)
        /\ Len(SubSeq(w.plan, 1, Remaining(w))) = Remaining(w)
        /\ \A i \in 1..Remaining(w) : SubSeq(w.plan, 1, Remaining(w))[i] = w.plan[i]
    BY <1>2, <2>1
  <2> QED
    BY <1>3, <2>1, <2>2 DEF Kept
<1>4. CASE ~(Len(w.plan) > Remaining(w))
  BY <1>1, <1>2, <1>4 DEF Kept
<1> QED
  BY <1>3, <1>4

(* The walk descends to the Works that are kept, or ends.                  *)
LEMMA DescendFollows ==
  ASSUME NEW w \in WalkStates, Shape(w), w.pc = "descend"
  PROVE  Follows(w, IF Kept(w) = <<>> THEN Ended(w, TRUE)
                    ELSE [w EXCEPT !.level = Kept(w), !.plan = <<>>, !.depth = @ - 1,
                                   !.cut = @ \/ Kept(w) # w.plan, !.pc = "expand"])
<1>1. w.seed \in Works /\ w.at = 1 /\ w.depth > 1 /\ w.todo = {} /\ w.depth \in Nat
  BY DEF Shape, Working, WalkStates
<1>2. CASE Kept(w) = <<>>
  BY <1>1, <1>2, EndedFollows
<1>3. CASE Kept(w) # <<>>
  <2>1. Kept(w) \in Seq(Works)
    BY KeptType
  <2> DEFINE a == [w EXCEPT !.level = Kept(w)]
             none == <<>>
             b == [a EXCEPT !.plan = none]
             c == [b EXCEPT !.depth = @ - 1]
             d == [c EXCEPT !.cut = @ \/ Kept(w) # w.plan]
             v == [d EXCEPT !.pc = "expand"]
  <2>2. /\ a \in WalkStates /\ a.way = w.way /\ a.seed = w.seed /\ a.todo = {} /\ a.at = w.at
        /\ a.level = Kept(w) /\ a.depth = w.depth
    BY <1>1, <2>1 DEF WalkStates
  <2> HIDE DEF a
  <2>a. none \in Seq(Works)
    BY EmptySeq
  <2> HIDE DEF none
  <2>3. /\ b \in WalkStates /\ b.way = w.way /\ b.seed = w.seed /\ b.todo = {} /\ b.at = w.at
        /\ b.level = Kept(w) /\ b.depth = w.depth
    BY <2>2, <2>a DEF WalkStates
  <2> HIDE DEF b
  <2>4. b.depth - 1 \in Nat
    BY <1>1, <2>3
  <2>5. /\ c \in WalkStates /\ c.way = w.way /\ c.seed = w.seed /\ c.todo = {} /\ c.at = w.at
        /\ c.level = Kept(w)
    BY <2>3, <2>4 DEF WalkStates
  <2> HIDE DEF c
  <2>6. (c.cut \/ Kept(w) # w.plan) \in BOOLEAN
    OBVIOUS
  <2>7. /\ d \in WalkStates /\ d.way = w.way /\ d.seed = w.seed /\ d.todo = {} /\ d.at = w.at
        /\ d.level = Kept(w)
    BY <2>5, <2>6 DEF WalkStates
  <2> HIDE DEF d
  <2>8. /\ v \in WalkStates /\ v.way = w.way /\ v.seed = w.seed /\ v.todo = {} /\ v.at = w.at
        /\ v.level = Kept(w) /\ v.pc = "expand"
    BY <2>7 DEF WalkStates
  <2> HIDE DEF v
  <2>9. Len(Kept(w)) \in Nat \ {0}
    BY <1>3, <2>1, EmptySeq
  <2>10. Follows(w, v)
    BY <1>1, <2>8, <2>9 DEF Follows, Shape, Working, Expanding
  <2> QED
    BY <1>3, <2>10, Zenon DEF v, d, c, b, a, none
<1> QED
  BY <1>2, <1>3

(* What is known of a walk that expands a Work.                            *)
LEMMA CurrentType ==
  ASSUME TypeInv, NEW x \in Walks, walk[x].pc \in Working
  PROVE  /\ walk[x] \in WalkStates /\ Shape(walk[x]) /\ walk[x].seed \in Works
         /\ Current(walk[x]) \in Works
<1>1. walk[x] \in WalkStates /\ Shape(walk[x])
  BY DEF TypeInv, TypeOK
<1>2. walk[x].at \in 1..Len(walk[x].level) /\ walk[x].seed \in Works
  BY <1>1 DEF Shape, Working, Expanding
<1>3. walk[x].level \in Seq(Works)
  BY <1>1 DEF WalkStates
<1> QED
  BY <1>1, <1>2, <1>3, ElementOfSeq DEF Current

(* Every step of a walk at work makes progress.                            *)
LEMMA WorkProgress ==
  ASSUME TypeInv, NEW x \in Walks,
         \/ Cached(x) \/ Missed(x) \/ CountEdges(x) \/ LocalFlow(x) \/ LocalElsewhere(x)
         \/ RemoteFlow(x) \/ Ingest(x) \/ Harvest(x) \/ Record(x) \/ Fail(x)
         \/ Plan(x) \/ Descend(x)
  PROVE  walk[x].pc \in Working /\ Progress(x)
<1> DEFINE w == walk[x]
<1>1. walk[x].pc \in Working
  BY DEF At, Cached, Missed, CountEdges, LocalFlow, LocalElsewhere, RemoteFlow, Ingest, Harvest,
         Record, Fail, Plan, Descend, Working, Expanding
<1>2. /\ w \in WalkStates /\ Shape(w) /\ w.seed \in Works /\ Current(w) \in Works
  BY <1>1, CurrentType
<1>3. /\ edges \in [Works -> SUBSET Works] /\ ledger \in [Works -> Rows \cup {None}]
  BY DEF TypeInv, TypeOK
<1>4. w.pc # "ingest" => w.todo = {}
  BY <1>2 DEF Shape
<1>5. ASSUME UNCHANGED <<edges, ledger, job>>, NEW v, Put(x, v), Follows(walk[x], v)
      PROVE  Progress(x)
  BY <1>3, <1>5 DEF Progress
<1>6. Cites(Current(w)) \in SUBSET Works
  BY <1>2, GraphAssumption DEF Cites
<1>7. CASE Cached(x)
  <2>1. w.pc = "expand" /\ Put(x, Advanced(w)) /\ UNCHANGED <<edges, ledger, job>>
    BY <1>7 DEF Cached, At
  <2>2. Follows(w, Advanced(w))
    BY <1>2, <2>1, AdvancedFollows
  <2> QED
    BY <1>1, <1>5, <2>1, <2>2
<1>8. CASE Missed(x)
  <2>1. w.pc = "expand" /\ UNCHANGED <<edges, ledger, job>>
    BY <1>8 DEF Missed, At
  <2>2. \E pc \in {"flow", "count"} : Put(x, [w EXCEPT !.pc = pc])
    BY <1>8 DEF Missed
  <2>3. \A pc \in {"flow", "count"} : Follows(w, [w EXCEPT !.pc = pc])
    BY <1>2, <1>4, <2>1, StageType DEF Expanding
  <2> QED
    BY <1>1, <1>5, <2>1, <2>2, <2>3
<1>9. CASE CountEdges(x)
  <2> DEFINE row == [state |-> "expanded", method |-> "existing",
                     count |-> Cardinality(edges[Current(w)])]
  <2>1. w.pc = "count" /\ UNCHANGED <<edges, ledger, job>>
    BY <1>9 DEF CountEdges, At
  <2>2. \/ Put(x, [w EXCEPT !.pc = "record", !.row = row])
        \/ Put(x, [w EXCEPT !.pc = "flow"])
    BY <1>9, Zenon DEF CountEdges
  <2>3. row \in Rows
    BY <1>2, <1>3, WorksFinite DEF Rows, Methods
  <2> HIDE DEF row
  <2>4. Follows(w, [w EXCEPT !.pc = "record", !.row = row])
    BY <1>2, <1>4, <2>1, <2>3, RecordType DEF Expanding
  <2>5. Follows(w, [w EXCEPT !.pc = "flow"])
    BY <1>2, <1>4, <2>1, StageType DEF Expanding
  <2> QED
    BY <1>1, <1>5, <2>1, <2>2, <2>4, <2>5
<1>10. CASE LocalFlow(x)
  <2>1. w.pc = "flow" /\ UNCHANGED <<edges, ledger, job>>
    BY <1>10 DEF LocalFlow, At
  <2>2. PICK found \in {Cites(Current(w)), {}} : Put(x, Ingesting(w, "local", found))
    BY <1>10 DEF LocalFlow
  <2>3. Follows(w, Ingesting(w, "local", found))
    BY <1>2, <1>6, <2>1, IngestingType DEF Expanding
  <2> QED
    BY <1>1, <1>5, <2>1, <2>2, <2>3
<1>11. CASE LocalElsewhere(x)
  <2>1. /\ w.pc = "flow" /\ UNCHANGED <<ledger, job>>
        /\ Put(x, [w EXCEPT !.pc = "remote"])
    BY <1>11 DEF LocalElsewhere, At
  <2>2. Follows(w, [w EXCEPT !.pc = "remote"])
    BY <1>2, <1>4, <2>1, StageType DEF Expanding
  <2>3. /\ edges' \in [Works -> SUBSET Works]
        /\ \A y \in Works : edges[y] \subseteq edges'[y]
    <3>1. CASE UNCHANGED edges
      BY <1>3, <3>1
    <3>2. CASE \E other \in Works \ {Current(w)} :
                 edges' = [edges EXCEPT ![other] = @ \cup Cites(other)]
      <4>1. PICK other \in Works : edges' = [edges EXCEPT ![other] = @ \cup Cites(other)]
        BY <3>2
      <4>2. Cites(other) \in SUBSET Works
        BY GraphAssumption DEF Cites
      <4> QED
        BY <1>3, <4>1, <4>2
    <3> QED
      BY <1>11, <3>1, <3>2 DEF LocalElsewhere
  <2> QED
    BY <1>1, <1>3, <2>1, <2>2, <2>3 DEF Progress
<1>12. CASE RemoteFlow(x)
  <2> DEFINE row == [state |-> "unavailable", method |-> None, count |-> 0]
  <2>1. w.pc \in {"remote", "flow"} /\ UNCHANGED <<edges, ledger, job>>
    BY <1>12 DEF RemoteFlow, At
  <2>2. \/ Put(x, Ingesting(w, "provider", Cites(Current(w))))
        \/ Put(x, [w EXCEPT !.pc = "record", !.row = row])
    BY <1>12, Zenon DEF RemoteFlow
  <2>3. row \in Rows
    BY DEF Rows, Methods
  <2> HIDE DEF row
  <2>4. Follows(w, [w EXCEPT !.pc = "record", !.row = row])
    BY <1>2, <1>4, <2>1, <2>3, RecordType DEF Expanding
  <2>5. Follows(w, Ingesting(w, "provider", Cites(Current(w))))
    BY <1>2, <1>6, <2>1, IngestingType DEF Expanding
  <2> QED
    BY <1>1, <1>5, <2>1, <2>2, <2>4, <2>5
<1>13. CASE Ingest(x)
  <2>1. /\ w.pc = "ingest" /\ UNCHANGED <<ledger, job>> /\ w.todo \in SUBSET Works
    BY <1>2, <1>13 DEF Ingest, At, WalkStates
  <2>2. PICK cited \in w.todo :
          /\ edges' = [edges EXCEPT ![Current(w)] = @ \cup {cited}]
          /\ Put(x, [w EXCEPT !.todo = @ \ {cited}])
    BY <1>13 DEF Ingest
  <2> DEFINE v == [w EXCEPT !.todo = @ \ {cited}]
  <2>3. /\ v \in WalkStates /\ v.pc = "ingest" /\ v.way = w.way /\ v.seed = w.seed
        /\ v.at = w.at /\ v.level = w.level /\ v.row = w.row
    BY <1>2, <2>1 DEF WalkStates
  <2>4. w.row \in Rows /\ w.at \in 1..Len(w.level)
    BY <1>2, <2>1 DEF Shape, Working, Expanding
  <2>5. Put(x, v)
    BY <2>2
  <2> HIDE DEF v
  <2>6. Follows(w, v)
    BY <1>2, <2>3, <2>4 DEF Follows, Shape, Working, Expanding
  <2> QED
    BY <1>1, <1>2, <1>3, <2>1, <2>2, <2>5, <2>6 DEF Progress
<1>14. CASE Harvest(x)
  <2>1. /\ w.pc = "ingest" /\ w.todo = {} /\ UNCHANGED <<ledger, job>>
        /\ Put(x, [w EXCEPT !.pc = "record"])
    BY <1>14 DEF Harvest, At
  <2>2. w.row \in Rows /\ w.at \in 1..Len(w.level)
    BY <1>2, <2>1 DEF Shape, Working, Expanding
  <2> DEFINE v == [w EXCEPT !.pc = "record"]
  <2>3. /\ v \in WalkStates /\ v.pc = "record" /\ v.way = w.way /\ v.seed = w.seed
        /\ v.at = w.at /\ v.level = w.level /\ v.row = w.row /\ v.todo = w.todo
    BY <1>2 DEF WalkStates
  <2>4. Put(x, v)
    BY <2>1
  <2> HIDE DEF v
  <2>5. Follows(w, v)
    BY <1>2, <2>1, <2>2, <2>3 DEF Follows, Shape, Working, Expanding
  <2>6. PICK found \in SUBSET (IF w.row.method = "local" THEN Entries[Current(w)] \ {Current(w)}
                               ELSE {}) :
          edges' = [edges EXCEPT ![Current(w)] = @ \cup found]
    BY <1>14 DEF Harvest
  <2>7. found \in SUBSET Works
    BY <1>2, GraphAssumption
  <2>8. /\ edges' \in [Works -> SUBSET Works]
        /\ \A y \in Works : edges[y] \subseteq edges'[y]
    BY <1>2, <1>3, <2>6, <2>7
  <2> QED
    BY <1>1, <1>3, <2>1, <2>4, <2>5, <2>8 DEF Progress
<1>15. CASE Record(x)
  <2>1. /\ w.pc = "record" /\ UNCHANGED <<edges, job>> /\ Put(x, Advanced(w))
        /\ ledger' = [ledger EXCEPT ![Current(w)] = w.row]
    BY <1>15 DEF Record, At
  <2>2. w.row \in Rows
    BY <1>2, <2>1 DEF Shape
  <2>3. /\ ledger' \in [Works -> Rows \cup {None}]
        /\ \A y \in Works : ledger[y] # None => ledger'[y] # None
    BY <1>2, <1>3, <2>1, <2>2, NoneAssumption
  <2>4. Follows(w, Advanced(w))
    BY <1>2, <2>1, AdvancedFollows
  <2> QED
    BY <1>1, <1>3, <2>1, <2>3, <2>4 DEF Progress
<1>16. CASE Fail(x)
  <2>1. Put(x, Ended(w, FALSE)) /\ UNCHANGED <<edges, ledger, job>>
    BY <1>16 DEF Fail
  <2>2. Follows(w, Ended(w, FALSE))
    BY <1>2, EndedFollows
  <2> QED
    BY <1>1, <1>5, <2>1, <2>2
<1>17. CASE Plan(x)
  <2> DEFINE taken == Best(Eligible(w, edges[Current(w)]))
  <2>1. w.pc = "plan" /\ UNCHANGED <<edges, ledger, job>>
    BY <1>17 DEF Plan, At
  <2>2. PICK s \in [1..Cardinality(taken) -> taken] :
          Put(x, IF w.at < Len(w.level)
                   THEN [w EXCEPT !.plan = @ \o s, !.at = @ + 1]
                   ELSE [w EXCEPT !.plan = @ \o s, !.at = 1, !.pc = "descend"])
    BY <1>17 DEF Plan
  <2>3. taken \in SUBSET Works
    BY <1>2, <1>3 DEF Best, Eligible
  <2> HIDE DEF taken
  <2>4. Follows(w, IF w.at < Len(w.level)
                     THEN [w EXCEPT !.plan = @ \o s, !.at = @ + 1]
                     ELSE [w EXCEPT !.plan = @ \o s, !.at = 1, !.pc = "descend"])
    BY <1>2, <2>1, <2>3, PlanFollows
  <2> QED
    BY <1>1, <1>5, <2>1, <2>2, <2>4
<1>18. CASE Descend(x)
  <2>1. w.pc = "descend" /\ UNCHANGED <<edges, ledger, job>>
    BY <1>18 DEF Descend, At
  <2>2. Put(x, IF Kept(w) = <<>> THEN Ended(w, TRUE)
               ELSE [w EXCEPT !.level = Kept(w), !.plan = <<>>, !.depth = @ - 1,
                              !.cut = @ \/ Kept(w) # w.plan, !.pc = "expand"])
    BY <1>18, Zenon DEF Descend
  <2>3. Follows(w, IF Kept(w) = <<>> THEN Ended(w, TRUE)
                   ELSE [w EXCEPT !.level = Kept(w), !.plan = <<>>, !.depth = @ - 1,
                                  !.cut = @ \/ Kept(w) # w.plan, !.pc = "expand"])
    BY <1>2, <2>1, DescendFollows, Zenon
  <2> QED
    BY <1>1, <1>5, <2>1, <2>2, <2>3, Zenon
<1> QED
  BY <1>7, <1>8, <1>9, <1>10, <1>11, <1>12, <1>13, <1>14, <1>15, <1>16, <1>17, <1>18

(* Walks are idle at first.                                                *)
LEMMA InitType == Init => TypeInv
<1> SUFFICES ASSUME Init PROVE TypeInv
  OBVIOUS
<1>1. \A x \in Walks : walk[x] = Idle
  BY DEF Init
<1>2. walk \in [Walks -> WalkStates]
  BY IdleType DEF Init
<1>3. TypeOK
  <2>1. edges \in [Works -> SUBSET Works]
    <3>1. \A w \in Works : Refs[w] \ {w} \in SUBSET Works
      BY GraphAssumption
    <3> QED
      BY <3>1 DEF Init
  <2>2. ledger \in [Works -> Rows \cup {None}]
    BY DEF Init
  <2>3. job \in [Works -> {"idle", "running", "succeeded", "failed"}]
    BY DEF Init
  <2>4. queue \in Seq(Requests)
    BY DEF Init
  <2> QED
    BY <1>2, <2>1, <2>2, <2>3, <2>4 DEF TypeOK
<1>4. \A x \in Walks : Shape(walk[x])
  BY <1>1, IdleType
<1>5. Owned
  BY <1>1, IdleType DEF Owned, Walks, Working, Expanding
<1> QED
  BY <1>3, <1>4, <1>5 DEF TypeInv

(* A step of a walk at work keeps every record and the queue in order.     *)
LEMMA ProgressType ==
  ASSUME TypeInv, NEW x \in Walks, walk[x].pc \in Working, Progress(x)
  PROVE  TypeInv'
<1>1. PICK v : Put(x, v) /\ Follows(walk[x], v)
  BY DEF Progress
<1>2. /\ walk \in [Walks -> WalkStates] /\ queue \in Seq(Requests)
      /\ \A y \in Walks : Shape(walk[y])
      /\ Owned
  BY DEF TypeInv, TypeOK
<1>3. walk' = [walk EXCEPT ![x] = v]
  BY <1>1 DEF Put
<1>4. v \in WalkStates /\ Shape(v)
  BY <1>1 DEF Follows
<1>5. walk' \in [Walks -> WalkStates] /\ walk'[x] = v
      /\ \A y \in Walks \ {x} : walk'[y] = walk[y]
  BY <1>2, <1>3, <1>4
<1>6. CASE v.pc = "publish" /\ v.way = "job"
  <2>1. walk[x].way = "job" /\ x \in Requests
    BY <1>1, <1>2, <1>6, IdleType DEF Follows, Owned, Walks
  <2>2. queue # <<>> /\ Head(queue) = x
    BY <1>2, <2>1 DEF Owned
  <2>3. queue' = Tail(queue)
    BY <1>1, <1>6 DEF Put
  <2>4. queue' \in Seq(Requests)
    BY <1>2, <2>2, <2>3, HeadTailProperties
  <2>5. \A y \in Requests : ~(walk'[y].way = "job" /\ walk'[y].pc \in Working)
    <3> SUFFICES ASSUME NEW y \in Requests, walk'[y].way = "job", walk'[y].pc \in Working
                 PROVE  FALSE
      OBVIOUS
    <3>1. CASE y = x
      BY <1>5, <1>6, <3>1 DEF Working, Expanding
    <3>2. CASE y # x
      <4>1. walk[y].way = "job" /\ walk[y].pc \in Working
        BY <1>5, <3>2 DEF Walks
      <4> QED
        BY <1>2, <2>2, <3>2, <4>1 DEF Owned
    <3> QED
      BY <3>1, <3>2
  <2>6. Owned'
    <3>1. \A y \in Commands : walk'[y].way = "command" /\ walk'[y].pc \in Working \cup {"idle"}
      BY <1>2, <1>5, <2>1, WalksAssumption DEF Owned, Walks
    <3>2. \A y \in Requests : walk'[y].pc # "idle" => walk'[y].way \in {"inline", "job"}
      BY <1>2, <1>5, <1>6 DEF Owned, Walks
    <3> QED
      BY <2>5, <3>1, <3>2 DEF Owned
  <2> QED
    BY <1>2, <1>4, <1>5, <2>4, <2>6 DEF TypeInv, TypeOK, Progress
<1>7. CASE ~(v.pc = "publish" /\ v.way = "job")
  <2>1. queue' = queue
    BY <1>1, <1>7 DEF Put
  <2>2. Owned'
    <3>1. \A y \in Commands : walk'[y].way = "command" /\ walk'[y].pc \in Working \cup {"idle"}
      BY <1>1, <1>2, <1>5, IdleType DEF Owned, Walks, Follows
    <3>2. \A y \in Requests : walk'[y].pc # "idle" => walk'[y].way \in {"inline", "job"}
      <4> SUFFICES ASSUME NEW y \in Requests, walk'[y].pc # "idle"
                   PROVE  walk'[y].way \in {"inline", "job"}
        OBVIOUS
      <4>1. CASE y = x
        <5>1. walk[x].pc # "idle"
          BY DEF Working, Expanding
        <5> QED
          BY <1>1, <1>2, <1>5, <4>1, <5>1, IdleType DEF Owned, Walks, Follows
      <4>2. CASE y # x
        BY <1>2, <1>5, <4>2 DEF Owned, Walks
      <4> QED
        BY <4>1, <4>2
    <3>3. \A y \in Requests : walk'[y].way = "job" /\ walk'[y].pc \in Working =>
            queue' # <<>> /\ Head(queue') = y
      <4> SUFFICES ASSUME NEW y \in Requests, walk'[y].way = "job", walk'[y].pc \in Working
                   PROVE  queue # <<>> /\ Head(queue) = y
        BY <2>1
      <4>1. CASE y = x
        <5>1. walk[x].way = "job"
          BY <1>1, <1>5, <4>1, IdleType DEF Follows, Working, Expanding
        <5> QED
          BY <1>2, <4>1, <5>1 DEF Owned
      <4>2. CASE y # x
        BY <1>2, <1>5, <4>2 DEF Owned, Walks
      <4> QED
        BY <4>1, <4>2
    <3> QED
      BY <3>1, <3>2, <3>3 DEF Owned
  <2> QED
    BY <1>2, <1>4, <1>5, <2>1, <2>2 DEF TypeInv, TypeOK, Progress
<1> QED
  BY <1>6, <1>7

(* A record in place of that of one walk, which may join the queue, keeps  *)
(* the types.                                                              *)
LEMMA ReplaceType ==
  ASSUME TypeInv, NEW x \in Walks, NEW v \in WalkStates, Shape(v),
         walk' = [walk EXCEPT ![x] = v], UNCHANGED <<edges, ledger>>,
         job' \in [Works -> {"idle", "running", "succeeded", "failed"}],
         queue' = queue \/ (x \in Requests /\ queue' = Append(queue, x)),
         x \in Commands => v.way = "command" /\ v.pc \in Working \cup {"idle"},
         x \in Requests /\ v.pc # "idle" => v.way \in {"inline", "job"},
         x \in Requests /\ v.way = "job" /\ v.pc \in Working => queue # <<>> /\ Head(queue) = x
  PROVE  TypeInv'
<1>1. /\ walk \in [Walks -> WalkStates] /\ queue \in Seq(Requests)
      /\ \A y \in Walks : Shape(walk[y])
      /\ Owned
  BY DEF TypeInv, TypeOK
<1>2. walk' \in [Walks -> WalkStates] /\ walk'[x] = v
      /\ \A y \in Walks \ {x} : walk'[y] = walk[y]
  BY <1>1
<1>3. /\ queue' \in Seq(Requests)
      /\ queue # <<>> => queue' # <<>> /\ Head(queue') = Head(queue)
  <2>1. CASE queue' = queue
    BY <1>1, <2>1
  <2>2. CASE x \in Requests /\ queue' = Append(queue, x)
    BY <1>1, <2>2, AppendProperties, HeadTailAppend
  <2> QED
    BY <2>1, <2>2
<1>4. Owned'
  <2>1. \A y \in Commands : walk'[y].way = "command" /\ walk'[y].pc \in Working \cup {"idle"}
    BY <1>1, <1>2 DEF Owned, Walks
  <2>2. \A y \in Requests : walk'[y].pc # "idle" => walk'[y].way \in {"inline", "job"}
    BY <1>1, <1>2 DEF Owned, Walks
  <2>3. \A y \in Requests : walk'[y].way = "job" /\ walk'[y].pc \in Working =>
          queue # <<>> /\ Head(queue) = y
    BY <1>1, <1>2 DEF Owned, Walks
  <2> QED
    BY <1>3, <2>1, <2>2, <2>3 DEF Owned
<1>5. TypeOK'
  BY <1>2, <1>3 DEF TypeInv, TypeOK
<1>6. \A y \in Walks : Shape(walk'[y])
  BY <1>1, <1>2
<1>7. \A y \in Walks : Shape(walk[y])'
  BY <1>6 DEF Shape
<1> QED
  BY <1>4, <1>5, <1>7 DEF TypeInv

(* What the handler and the semaphore do to a walk keeps the types.        *)
LEMMA EntryType ==
  ASSUME TypeInv, NEW x \in Walks,
         Inline(x) \/ Background(x) \/ Acquire(x) \/ Publish(x)
  PROVE  TypeInv'
<1> DEFINE w == walk[x]
<1>1. /\ w \in WalkStates /\ Shape(w)
      /\ job \in [Works -> {"idle", "running", "succeeded", "failed"}]
  BY DEF TypeInv, TypeOK
<1>2. x \in Requests /\ w.pc # "idle" /\ w.way \in {"inline", "job"}
  <2>1. w.pc \in {"check", "queued", "publish"}
    BY DEF Inline, Background, Acquire, Publish, At
  <2>2. x \notin Commands
    BY <2>1 DEF TypeInv, Owned, Working, Expanding
  <2> QED
    BY <2>1, <2>2 DEF Walks, TypeInv, Owned
<1>3. x \notin Commands
  BY <1>2, WalksAssumption
<1>4. w.todo = {}
  <2>1. w.pc # "ingest"
    BY DEF Inline, Background, Acquire, Publish, At
  <2> QED
    BY <1>1, <2>1 DEF Shape
<1>5. CASE Inline(x)
  <2>1. w.pc = "check" /\ UNCHANGED <<edges, ledger, job>> /\ Put(x, [w EXCEPT !.pc = "expand"])
    BY <1>5 DEF Inline, At
  <2> DEFINE v == [w EXCEPT !.pc = "expand"]
  <2>2. /\ v \in WalkStates /\ v.pc = "expand" /\ v.way = w.way /\ v.seed = w.seed
        /\ v.todo = {} /\ v.at = w.at /\ v.level = w.level
    BY <1>1, <1>4 DEF WalkStates
  <2>3. walk' = [walk EXCEPT ![x] = v] /\ queue' = queue
    BY <2>1, <2>2 DEF Put
  <2> HIDE DEF v
  <2>4. Shape(v)
    BY <1>1, <2>1, <2>2 DEF Shape, Working, Expanding
  <2>5. w.way = "inline"
    BY <1>1, <2>1 DEF Shape
  <2> QED
    BY <1>1, <1>2, <1>3, <2>1, <2>2, <2>3, <2>4, <2>5, ReplaceType
<1>6. CASE Background(x)
  <2> DEFINE n == [w EXCEPT !.pc = "queued"]
             v == [n EXCEPT !.way = "job"]
  <2>1. /\ w.pc = "check" /\ UNCHANGED <<edges, ledger, job>> /\ queue' = Append(queue, x)
        /\ walk' = [walk EXCEPT ![x].pc = "queued", ![x].way = "job"]
    BY <1>6 DEF Background, At
  <2>2. /\ n \in WalkStates /\ n.pc = "queued" /\ n.seed = w.seed
        /\ n.todo = {} /\ n.at = w.at /\ n.level = w.level
    BY <1>1, <1>4 DEF WalkStates
  <2>3. walk' = [walk EXCEPT ![x] = v]
    BY <1>1, <2>1 DEF TypeInv, TypeOK
  <2> HIDE DEF n
  <2>4. /\ v \in WalkStates /\ v.pc = "queued" /\ v.way = "job" /\ v.seed = w.seed
        /\ v.todo = {} /\ v.at = w.at /\ v.level = w.level
    BY <2>2 DEF WalkStates
  <2> HIDE DEF v
  <2>5. Shape(v)
    BY <1>1, <2>1, <2>4 DEF Shape, Working, Expanding
  <2> QED
    BY <1>1, <1>2, <1>3, <2>1, <2>3, <2>4, <2>5, ReplaceType DEF Working, Expanding
<1>7. CASE Acquire(x)
  <2>1. /\ w.pc = "queued" /\ UNCHANGED <<edges, ledger, job>> /\ Put(x, [w EXCEPT !.pc = "expand"])
        /\ queue # <<>> /\ Head(queue) = x
    BY <1>7 DEF Acquire, At
  <2> DEFINE v == [w EXCEPT !.pc = "expand"]
  <2>2. /\ v \in WalkStates /\ v.pc = "expand" /\ v.way = w.way /\ v.seed = w.seed
        /\ v.todo = {} /\ v.at = w.at /\ v.level = w.level
    BY <1>1, <1>4 DEF WalkStates
  <2>3. walk' = [walk EXCEPT ![x] = v] /\ queue' = queue
    BY <2>1, <2>2 DEF Put
  <2> HIDE DEF v
  <2>4. Shape(v)
    BY <1>1, <2>1, <2>2 DEF Shape, Working, Expanding
  <2> QED
    BY <1>1, <1>2, <1>3, <2>1, <2>2, <2>3, <2>4, ReplaceType
<1>8. CASE Publish(x)
  <2>1. /\ w.pc = "publish" /\ UNCHANGED <<edges, ledger, queue>>
        /\ walk' = [walk EXCEPT ![x] = Idle]
        /\ job' = [job EXCEPT ![w.seed] = IF w.ok THEN "succeeded" ELSE "failed"]
    BY <1>8 DEF Publish, At
  <2>2. job' \in [Works -> {"idle", "running", "succeeded", "failed"}]
    BY <1>1, <2>1
  <2> QED
    BY <1>2, <1>3, <2>1, <2>2, IdleType, ReplaceType DEF Working, Expanding
<1> QED
  BY <1>5, <1>6, <1>7, <1>8

(* What clients, commands and the end of the server do keeps the types.    *)
LEMMA OutsideType ==
  ASSUME TypeInv,
         \/ \E x \in Requests : Start(x) \/ Leave(x)
         \/ \E x \in Commands : Command(x) \/ Kill(x)
         \/ Restart
  PROVE  TypeInv'
<1>1. /\ walk \in [Walks -> WalkStates] /\ queue \in Seq(Requests)
      /\ job \in [Works -> {"idle", "running", "succeeded", "failed"}]
      /\ edges \in [Works -> SUBSET Works] /\ ledger \in [Works -> Rows \cup {None}]
      /\ \A y \in Walks : Shape(walk[y])
      /\ Owned
  BY DEF TypeInv, TypeOK
<1>2. \A x \in Walks : \A ask \in Asks[x] :
        ask \in [seed: Works, depth: Nat \ {0}, refresh: BOOLEAN]
  BY BoundsAssumption
<1>3. ASSUME NEW x \in Requests, Start(x) PROVE TypeInv'
  <2>1. x \in Walks /\ x \notin Commands
    BY WalksAssumption DEF Walks
  <2>2. PICK ask \in Asks[x] : Enter(x, ask)
    BY <1>3 DEF Start
  <2>3. ask \in [seed: Works, depth: Nat \ {0}, refresh: BOOLEAN]
    BY <1>2, <2>1, <2>2
  <2>4. job' \in [Works -> {"idle", "running", "succeeded", "failed"}] /\ UNCHANGED <<edges, ledger>>
    BY <1>1, <2>2, <2>3 DEF Enter
  <2>5. CASE Single(ask)
    <3> DEFINE v == Begun("check", "inline", ask)
    <3>1. walk' = [walk EXCEPT ![x] = v] /\ queue' = queue
      BY <2>2, <2>5 DEF Enter
    <3>2. v \in WalkStates /\ Shape(v) /\ v.pc = "check" /\ v.way = "inline"
      BY <2>3, BegunType
    <3> HIDE DEF v
    <3> QED
      BY <2>1, <2>4, <3>1, <3>2, ReplaceType
  <2>6. CASE ~Single(ask)
    <3> DEFINE v == Begun("queued", "job", ask)
    <3>1. walk' = [walk EXCEPT ![x] = v] /\ queue' = Append(queue, x)
      BY <2>2, <2>6 DEF Enter
    <3>2. v \in WalkStates /\ Shape(v) /\ v.pc = "queued" /\ v.way = "job"
      BY <2>3, BegunType
    <3> HIDE DEF v
    <3> QED
      BY <2>1, <2>4, <3>1, <3>2, ReplaceType DEF Working, Expanding
  <2> QED
    BY <2>5, <2>6
<1>4. ASSUME NEW x \in Requests, Leave(x) PROVE TypeInv'
  <2>1. x \in Walks /\ x \notin Commands
    BY WalksAssumption DEF Walks
  <2>2. walk' = [walk EXCEPT ![x] = Idle] /\ UNCHANGED <<edges, ledger, job, queue>>
    BY <1>4 DEF Leave
  <2> QED
    BY <1>1, <2>1, <2>2, IdleType, ReplaceType DEF Working, Expanding
<1>5. ASSUME NEW x \in Commands, Command(x) PROVE TypeInv'
  <2>1. x \in Walks /\ x \notin Requests
    BY WalksAssumption DEF Walks
  <2>2. PICK ask \in Asks[x] : Put(x, Begun("expand", "command", ask))
    BY <1>5 DEF Command
  <2>3. ask \in [seed: Works, depth: Nat \ {0}, refresh: BOOLEAN]
    BY <1>2, <2>1, <2>2
  <2> DEFINE v == Begun("expand", "command", ask)
  <2>4. v \in WalkStates /\ Shape(v) /\ v.pc = "expand" /\ v.way = "command"
    BY <2>3, BegunType
  <2>5. Put(x, v) /\ UNCHANGED <<edges, ledger, job>>
    BY <1>5, <2>2 DEF Command
  <2> HIDE DEF v
  <2>6. walk' = [walk EXCEPT ![x] = v] /\ queue' = queue
    BY <2>4, <2>5 DEF Put
  <2> QED
    BY <1>1, <2>1, <2>4, <2>5, <2>6, ReplaceType DEF Working, Expanding
<1>6. ASSUME NEW x \in Commands, Kill(x) PROVE TypeInv'
  <2>1. x \in Walks /\ x \notin Requests
    BY WalksAssumption DEF Walks
  <2>2. walk' = [walk EXCEPT ![x] = Idle] /\ UNCHANGED <<edges, ledger, job, queue>>
    BY <1>6 DEF Kill
  <2> QED
    BY <1>1, <2>1, <2>2, IdleType, ReplaceType DEF Working, Expanding
<1>7. CASE Restart
  <2>1. /\ \A y \in Requests : walk'[y] = Idle
        /\ \A y \in Commands : walk'[y] = walk[y]
        /\ walk' \in [Walks -> WalkStates]
    BY <1>1, <1>7, IdleType, WalksAssumption DEF Restart, Walks
  <2>2. TypeOK'
    BY <1>1, <1>7, <2>1, EmptySeq DEF Restart, TypeOK
  <2>3. \A y \in Walks : Shape(walk'[y])
    BY <1>1, <2>1, IdleType DEF Walks
  <2>4. \A y \in Walks : Shape(walk[y])'
    BY <2>3 DEF Shape
  <2>5. Owned'
    BY <1>1, <2>1, IdleType DEF Owned, Working, Expanding
  <2> QED
    BY <2>2, <2>4, <2>5 DEF TypeInv
<1> QED
  BY <1>3, <1>4, <1>5, <1>6, <1>7

(* No step violates the types.                                             *)
LEMMA TypeInvInductive == TypeInv /\ [Next]_vars => TypeInv'
<1> SUFFICES ASSUME TypeInv, [Next]_vars PROVE TypeInv'
  OBVIOUS
<1>1. ASSUME NEW x \in Walks, Step(x) PROVE TypeInv'
  <2>1. CASE Inline(x) \/ Background(x) \/ Acquire(x) \/ Publish(x)
    BY <2>1, EntryType
  <2>2. CASE \/ Cached(x) \/ Missed(x) \/ CountEdges(x) \/ LocalFlow(x) \/ LocalElsewhere(x)
             \/ RemoteFlow(x) \/ Ingest(x) \/ Harvest(x) \/ Record(x) \/ Fail(x)
             \/ Plan(x) \/ Descend(x)
    BY <2>2, WorkProgress, ProgressType
  <2> QED
    BY <1>1, <2>1, <2>2 DEF Step
<1>2. CASE UNCHANGED vars
  <2>1. UNCHANGED <<edges, ledger, job, queue, walk>>
    BY <1>2 DEF vars
  <2> QED
    BY <2>1 DEF TypeInv, TypeOK, Owned, Shape
<1> QED
  BY <1>1, <1>2, OutsideType DEF Next

(* The graph, the ledger, the jobs, the queue of the semaphore and every   *)
(* walk keep their types, whatever fails, leaves or restarts, and only the *)
(* job that holds the permit works.                                        *)
THEOREM TypeCorrect == Spec => []TypeOK
<1>1. Spec => []TypeInv
  BY InitType, TypeInvInductive, PTL DEF Spec
<1>2. TypeInv => TypeOK
  BY DEF TypeInv
<1> QED
  BY <1>1, <1>2, PTL

-----------------------------------------------------------------------------
(* One walk per Work.                                                      *)

(* A walk of the server has its job entered as running.                    *)
Entered ==
  \A x \in Requests : InFlight(x) => job[walk[x].seed] = "running"

SeedInv == Entered /\ OneWalkPerWork

(* The walks in flight stay what they are, or there are fewer of them.     *)
SeedsKept ==
  \A x \in Requests : InFlight(x)' =>
    InFlight(x) /\ walk'[x].seed = walk[x].seed

(* Steps that start no walk and enter no result keep the walks and their   *)
(* jobs in line.                                                           *)
LEMMA KeptSeeds ==
  ASSUME SeedInv, SeedsKept, job' = job
  PROVE  SeedInv'
  BY DEF SeedInv, Entered, OneWalkPerWork, SeedsKept

(* A walk at work keeps its seed.                                          *)
LEMMA ProgressSeeds ==
  ASSUME TypeInv, NEW x \in Walks, walk[x].pc \in Working, Progress(x)
  PROVE  SeedsKept /\ job' = job
<1>1. PICK v : Put(x, v) /\ Follows(walk[x], v)
  BY DEF Progress
<1>2. walk \in [Walks -> WalkStates] /\ walk' = [walk EXCEPT ![x] = v]
  BY <1>1 DEF TypeInv, TypeOK, Put
<1>3. ASSUME NEW y \in Requests, InFlight(y)'
      PROVE  InFlight(y) /\ walk'[y].seed = walk[y].seed
  <2>1. y \in Walks
    BY DEF Walks
  <2>2. CASE y = x
    <3>1. walk'[y] = v
      BY <1>2, <2>1, <2>2
    <3>2. v.pc # "idle"
      BY <1>3, <3>1 DEF InFlight
    <3> QED
      BY <1>1, <2>2, <3>1, <3>2, IdleType DEF Follows, InFlight, Working, Expanding
  <2>3. CASE y # x
    BY <1>2, <1>3, <2>1, <2>3 DEF InFlight
  <2> QED
    BY <2>2, <2>3
<1> QED
  BY <1>3 DEF SeedsKept, Progress

(* Steps of the handler and the semaphore keep walks and jobs in line.     *)
LEMMA EntrySeeds ==
  ASSUME TypeInv, SeedInv, NEW x \in Walks,
         Inline(x) \/ Background(x) \/ Acquire(x) \/ Publish(x)
  PROVE  SeedInv'
<1>1. walk \in [Walks -> WalkStates]
  BY DEF TypeInv, TypeOK
<1>2. CASE Inline(x) \/ Background(x) \/ Acquire(x)
  <2>1. /\ job' = job /\ walk[x].pc # "idle"
    BY <1>2 DEF Inline, Background, Acquire, At
  <2>2. \A y \in Walks : walk'[y].seed = walk[y].seed /\ (y # x => walk'[y].pc = walk[y].pc)
    <3>1. CASE Inline(x) \/ Acquire(x)
      <4> DEFINE v == [walk[x] EXCEPT !.pc = "expand"]
      <4>1. walk' = [walk EXCEPT ![x] = v]
        BY <3>1 DEF Inline, Acquire, Put
      <4>2. v.seed = walk[x].seed
        BY <1>1 DEF WalkStates
      <4> HIDE DEF v
      <4> QED
        BY <1>1, <4>1, <4>2
    <3>2. CASE Background(x)
      BY <1>1, <3>2 DEF Background, WalkStates
    <3> QED
      BY <1>2, <3>1, <3>2
  <2>3. SeedsKept
    BY <2>1, <2>2 DEF SeedsKept, InFlight, Walks
  <2> QED
    BY <2>1, <2>3, KeptSeeds
<1>3. CASE Publish(x)
  <2>1. /\ walk[x].pc = "publish" /\ walk' = [walk EXCEPT ![x] = Idle]
        /\ job' = [job EXCEPT ![walk[x].seed] = IF walk[x].ok THEN "succeeded" ELSE "failed"]
    BY <1>3 DEF Publish, At
  <2>2. x \in Requests
    BY <2>1 DEF TypeInv, Owned, Working, Expanding, Walks
  <2>3. /\ ~InFlight(x)'
        /\ \A y \in Requests \ {x} : walk'[y] = walk[y]
    BY <1>1, <2>1, <2>2, IdleType DEF InFlight, Walks
  <2>4. \A y \in Requests \ {x} : InFlight(y) => walk[y].seed # walk[x].seed
    BY <2>1, <2>2 DEF SeedInv, OneWalkPerWork, InFlight
  <2>5. ASSUME NEW y \in Requests, InFlight(y)' PROVE job'[walk'[y].seed] = "running"
    <3>1. y # x /\ InFlight(y) /\ walk'[y] = walk[y]
      BY <2>3, <2>5 DEF InFlight
    <3>2. job[walk[y].seed] = "running" /\ walk[y].seed # walk[x].seed
      BY <2>4, <3>1 DEF SeedInv, Entered
    <3>3. walk[y].seed \in Works
      BY <3>1 DEF TypeInv, Shape, InFlight, Walks
    <3>4. job \in [Works -> {"idle", "running", "succeeded", "failed"}]
      BY DEF TypeInv, TypeOK
    <3> QED
      BY <2>1, <3>1, <3>2, <3>3, <3>4
  <2>6. OneWalkPerWork'
    BY <2>3 DEF SeedInv, OneWalkPerWork, InFlight
  <2> QED
    BY <2>5, <2>6 DEF SeedInv, Entered
<1> QED
  BY <1>2, <1>3

(* So do clients, commands and the end of the server.                      *)
LEMMA OutsideSeeds ==
  ASSUME TypeInv, SeedInv,
         \/ \E x \in Requests : Start(x) \/ Leave(x)
         \/ \E x \in Commands : Command(x) \/ Kill(x)
         \/ Restart
  PROVE  SeedInv'
<1>1. /\ walk \in [Walks -> WalkStates]
      /\ job \in [Works -> {"idle", "running", "succeeded", "failed"}]
  BY DEF TypeInv, TypeOK
<1>2. ASSUME NEW x \in Requests, Start(x) PROVE SeedInv'
  <2>1. PICK ask \in Asks[x] : job[ask.seed] # "running" /\ Enter(x, ask)
    BY <1>2 DEF Start
  <2>2. ask \in [seed: Works, depth: Nat \ {0}, refresh: BOOLEAN]
    BY <2>1, BoundsAssumption DEF Walks
  <2>3. PICK v : /\ walk' = [walk EXCEPT ![x] = v] /\ v.seed = ask.seed /\ v.pc # "idle"
                 /\ job' = [job EXCEPT ![ask.seed] = "running"]
    <3>1. \A pc \in {"check", "queued"}, way \in {"inline", "job"} :
            (pc = "check" => way = "inline") =>
              /\ Begun(pc, way, ask).seed = ask.seed
              /\ Begun(pc, way, ask).pc # "idle"
      BY <2>2, BegunType
    <3> QED
      BY <2>1, <3>1 DEF Enter
  <2>4. \A y \in Requests \ {x} : walk'[y] = walk[y]
    BY <1>1, <2>3 DEF Walks
  <2>5. walk'[x] = v
    BY <1>1, <2>3 DEF Walks
  <2>6. \A y \in Requests : InFlight(y) => walk[y].seed # ask.seed
    BY <2>1 DEF SeedInv, Entered
  <2>7. Entered'
    <3> SUFFICES ASSUME NEW y \in Requests, InFlight(y)' PROVE job'[walk'[y].seed] = "running"
      BY DEF Entered
    <3>1. CASE y = x
      BY <1>1, <2>2, <2>3, <2>5, <3>1
    <3>2. CASE y # x
      <4>1. InFlight(y) /\ walk'[y] = walk[y]
        BY <2>4, <3>2 DEF InFlight
      <4>2. walk[y].seed \in Works /\ job[walk[y].seed] = "running"
        BY <4>1 DEF TypeInv, Shape, InFlight, SeedInv, Entered, Walks
      <4> QED
        BY <1>1, <2>3, <4>1, <4>2
    <3> QED
      BY <3>1, <3>2
  <2>8. OneWalkPerWork'
    BY <2>3, <2>4, <2>5, <2>6 DEF SeedInv, OneWalkPerWork, InFlight
  <2> QED
    BY <2>7, <2>8 DEF SeedInv
<1>3. ASSUME NEW x \in Requests, Leave(x) PROVE SeedInv'
  <2>1. walk' = [walk EXCEPT ![x] = Idle] /\ job' = job
    BY <1>3 DEF Leave
  <2>2. SeedsKept
    BY <1>1, <2>1, IdleType DEF SeedsKept, InFlight, Walks
  <2> QED
    BY <2>1, <2>2, KeptSeeds
<1>4. ASSUME NEW x \in Commands, Command(x) \/ Kill(x) PROVE SeedInv'
  <2>1. job' = job /\ \E v : walk' = [walk EXCEPT ![x] = v]
    BY <1>4 DEF Command, Kill, Put
  <2>2. \A y \in Requests : walk'[y] = walk[y]
    BY <1>1, <2>1, WalksAssumption DEF Walks
  <2>3. SeedsKept
    BY <2>2 DEF SeedsKept, InFlight
  <2> QED
    BY <2>1, <2>3, KeptSeeds
<1>5. CASE Restart
  <2>1. \A y \in Requests : walk'[y] = Idle
    BY <1>5 DEF Restart, Walks
  <2>2. \A y \in Requests : ~InFlight(y)'
    BY <2>1, IdleType DEF InFlight
  <2> QED
    BY <2>2 DEF SeedInv, Entered, OneWalkPerWork
<1> QED
  BY <1>2, <1>3, <1>4, <1>5

(* No step starts a second walk for a Work.                                *)
LEMMA SeedInvInductive == TypeInv /\ SeedInv /\ [Next]_vars => SeedInv'
<1> SUFFICES ASSUME TypeInv, SeedInv, [Next]_vars PROVE SeedInv'
  OBVIOUS
<1>1. ASSUME NEW x \in Walks, Step(x) PROVE SeedInv'
  <2>1. CASE Inline(x) \/ Background(x) \/ Acquire(x) \/ Publish(x)
    BY <2>1, EntrySeeds
  <2>2. CASE \/ Cached(x) \/ Missed(x) \/ CountEdges(x) \/ LocalFlow(x) \/ LocalElsewhere(x)
             \/ RemoteFlow(x) \/ Ingest(x) \/ Harvest(x) \/ Record(x) \/ Fail(x)
             \/ Plan(x) \/ Descend(x)
    BY <2>2, WorkProgress, ProgressSeeds, KeptSeeds
  <2> QED
    BY <1>1, <2>1, <2>2 DEF Step
<1>2. CASE UNCHANGED vars
  <2>1. walk' = walk /\ job' = job
    BY <1>2 DEF vars
  <2> QED
    BY <2>1 DEF SeedInv, Entered, OneWalkPerWork, InFlight
<1> QED
  BY <1>1, <1>2, OutsideSeeds DEF Next

(* The server never runs two walks for the same Work: the registry of jobs *)
(* is looked at and entered in one critical section.                       *)
THEOREM OneWalk == Spec => []OneWalkPerWork
<1>1. Init => SeedInv
  <2> SUFFICES ASSUME Init PROVE SeedInv
    OBVIOUS
  <2>1. \A x \in Requests : ~InFlight(x)
    BY IdleType DEF Init, InFlight, Walks
  <2> QED
    BY <2>1 DEF SeedInv, Entered, OneWalkPerWork
<1>2. Spec => [](TypeInv /\ SeedInv)
  BY <1>1, InitType, TypeInvInductive, SeedInvInductive, PTL DEF Spec
<1>3. SeedInv => OneWalkPerWork
  BY DEF SeedInv
<1> QED
  BY <1>2, <1>3, PTL

-----------------------------------------------------------------------------
(* The ledger and the graph.                                               *)

(* The row a walk is about to write counts Works that are in the graph, or *)
(* that the walk has still to assert.                                      *)
Claim(w, graph) ==
  w.pc \in {"ingest", "record"} =>
    \E found \in SUBSET Works :
      /\ found \subseteq graph[Current(w)] \cup w.todo
      /\ w.row.count = Cardinality(found)
      /\ w.row.method = "provider" => Cites(Current(w)) \subseteq found

LedgerInv ==
  /\ LedgerBacked
  /\ \A x \in Walks : Claim(walk[x], edges)

Grown ==
  /\ edges' \in [Works -> SUBSET Works]
  /\ \A w \in Works : edges[w] \subseteq edges'[w]

(* A larger graph backs what a smaller one did.                            *)
LEMMA ClaimGrows ==
  ASSUME TypeInv, Grown, NEW x \in Walks, Claim(walk[x], edges)
  PROVE  Claim(walk[x], edges')
<1>1. CASE walk[x].pc \in {"ingest", "record"}
  <2>1. Current(walk[x]) \in Works
    BY <1>1, CurrentType DEF Working, Expanding
  <2> QED
    BY <1>1, <2>1 DEF Claim, Grown
<1>2. CASE walk[x].pc \notin {"ingest", "record"}
  BY <1>2 DEF Claim
<1> QED
  BY <1>1, <1>2

(* The ledger stays backed while the graph grows.                          *)
LEMMA BackedGrows ==
  ASSUME TypeInv, Grown, LedgerBacked, ledger' = ledger
  PROVE  LedgerBacked'
<1> SUFFICES ASSUME NEW w \in Works, ledger[w] # None
             PROVE  /\ ledger[w].count <= Cardinality(edges'[w])
                    /\ ledger[w].method = "provider" => Cites(w) \subseteq edges'[w]
  BY DEF LedgerBacked
<1>1. /\ ledger[w].count <= Cardinality(edges[w])
      /\ ledger[w].method = "provider" => Cites(w) \subseteq edges[w]
  BY DEF LedgerBacked
<1>2. edges[w] \in SUBSET Works /\ edges'[w] \in SUBSET Works /\ edges[w] \subseteq edges'[w]
  BY DEF TypeInv, TypeOK, Grown
<1>3. Cardinality(edges[w]) <= Cardinality(edges'[w])
  BY <1>2, WorksFinite
<1>4. Cardinality(edges[w]) \in Nat /\ Cardinality(edges'[w]) \in Nat
  BY <1>2, WorksFinite
<1>5. ledger[w].count \in Nat
  BY DEF TypeInv, TypeOK, Rows
<1> QED
  BY <1>1, <1>2, <1>3, <1>4, <1>5

(* A step of one walk that writes no row keeps the ledger backed if the    *)
(* walk claims no more than the graph and its references.                  *)
LEMMA StepBacked ==
  ASSUME TypeInv, LedgerInv, NEW x \in Walks, NEW v, walk' = [walk EXCEPT ![x] = v],
         Grown, ledger' = ledger, Claim(v, edges')
  PROVE  LedgerInv'
<1>1. walk \in [Walks -> WalkStates]
  BY DEF TypeInv, TypeOK
<1>2. ASSUME NEW y \in Walks PROVE Claim(walk'[y], edges')
  <2>1. CASE y = x
    BY <1>1, <2>1
  <2>2. CASE y # x
    <3>1. walk'[y] = walk[y] /\ Claim(walk[y], edges)
      BY <1>1, <2>2 DEF LedgerInv
    <3> QED
      BY <3>1, ClaimGrows
  <2> QED
    BY <2>1, <2>2
<1>3. \A y \in Walks : Claim(walk[y], edges)'
  BY <1>2 DEF Claim, Current, Cites
<1>4. LedgerBacked'
  BY BackedGrows DEF LedgerInv
<1> QED
  BY <1>3, <1>4 DEF LedgerInv

(* A walk that ends or begins claims nothing.                              *)
LEMMA NoClaim ==
  ASSUME NEW v, v.pc \notin {"ingest", "record"}, NEW graph
  PROVE  Claim(v, graph)
  BY DEF Claim

(* Steps that assert no reference and write no row.                        *)
LEMMA QuietBacked ==
  ASSUME TypeInv, LedgerInv, NEW x \in Walks, NEW v, walk' = [walk EXCEPT ![x] = v],
         v.pc \notin {"ingest", "record"}, UNCHANGED <<edges, ledger>>
  PROVE  LedgerInv'
<1>1. Grown
  BY DEF Grown, TypeInv, TypeOK
<1> QED
  BY <1>1, NoClaim, StepBacked

(* Counting, asserting and writing keep the ledger backed.                 *)
LEMMA WorkBacked ==
  ASSUME TypeInv, LedgerInv, NEW x \in Walks,
         \/ Cached(x) \/ Missed(x) \/ CountEdges(x) \/ LocalFlow(x) \/ LocalElsewhere(x)
         \/ RemoteFlow(x) \/ Ingest(x) \/ Harvest(x) \/ Record(x) \/ Fail(x)
         \/ Plan(x) \/ Descend(x)
  PROVE  LedgerInv'
<1> DEFINE w == walk[x]
<1>1. walk[x].pc \in Working /\ Progress(x)
  BY WorkProgress
<1>2. /\ w \in WalkStates /\ Shape(w) /\ w.seed \in Works /\ Current(w) \in Works
  BY <1>1, CurrentType
<1>3. /\ edges \in [Works -> SUBSET Works] /\ ledger \in [Works -> Rows \cup {None}]
      /\ walk \in [Walks -> WalkStates]
  BY DEF TypeInv, TypeOK
<1>4. Grown
  BY <1>1 DEF Progress, Grown
<1>5. Claim(w, edges)
  BY DEF LedgerInv
<1>6. Cites(Current(w)) \in SUBSET Works
  BY <1>2, GraphAssumption DEF Cites
<1>7. ASSUME NEW v, Put(x, v), v.pc \notin {"ingest", "record"}, UNCHANGED ledger
      PROVE  LedgerInv'
  BY <1>4, <1>7, NoClaim, StepBacked DEF Put
<1>8. ASSUME NEW v, Put(x, v), Claim(v, edges'), UNCHANGED ledger
      PROVE  LedgerInv'
  BY <1>4, <1>8, StepBacked DEF Put
<1>9. CASE Cached(x)
  <2>1. Put(x, Advanced(w)) /\ UNCHANGED ledger /\ w.pc = "expand"
    BY <1>9 DEF Cached, At
  <2>2. Advanced(w).pc \notin {"ingest", "record"}
    BY <1>2, <2>1, AdvancedFollows
  <2> QED
    BY <1>7, <2>1, <2>2
<1>10. CASE Missed(x)
  <2>1. /\ UNCHANGED ledger
        /\ \E pc \in {"flow", "count"} : Put(x, [w EXCEPT !.pc = pc])
    BY <1>10 DEF Missed
  <2>2. \A pc \in {"flow", "count"} : [w EXCEPT !.pc = pc].pc = pc
    BY <1>2 DEF WalkStates
  <2> QED
    BY <1>7, <2>1, <2>2
<1>11. CASE CountEdges(x)
  <2> DEFINE row == [state |-> "expanded", method |-> "existing",
                     count |-> Cardinality(edges[Current(w)])]
             n == [w EXCEPT !.pc = "record"]
             v == [n EXCEPT !.row = row]
  <2>1. UNCHANGED <<edges, ledger>>
    BY <1>11 DEF CountEdges
  <2>2. Put(x, v) \/ Put(x, [w EXCEPT !.pc = "flow"])
    BY <1>11, Zenon DEF CountEdges
  <2>3. /\ row.method = "existing" /\ row.count = Cardinality(edges[Current(w)])
    OBVIOUS
  <2> HIDE DEF row
  <2>4. n.at = w.at /\ n.level = w.level /\ n.pc = "record" /\ DOMAIN n = DOMAIN w /\ n \in WalkStates
    BY <1>2 DEF WalkStates
  <2> HIDE DEF n
  <2>5. v.at = w.at /\ v.level = w.level /\ v.row = row
    BY <2>4 DEF WalkStates
  <2> HIDE DEF v
  <2>6. Claim(v, edges)
    BY <1>2, <1>3, <2>3, <2>5 DEF Claim, Current
  <2>7. [w EXCEPT !.pc = "flow"].pc = "flow"
    BY <1>2 DEF WalkStates
  <2> QED
    BY <1>7, <1>8, <2>1, <2>2, <2>6, <2>7
<1>12. CASE LocalFlow(x)
  <2>1. w.pc = "flow" /\ UNCHANGED <<edges, ledger>>
    BY <1>12 DEF LocalFlow, At
  <2>2. PICK found \in {Cites(Current(w)), {}} : Put(x, Ingesting(w, "local", found))
    BY <1>12 DEF LocalFlow
  <2> DEFINE v == Ingesting(w, "local", found)
  <2>3. /\ v.todo = found /\ v.at = w.at /\ v.level = w.level
        /\ v.row = [state |-> "expanded", method |-> "local", count |-> Cardinality(found)]
    BY <1>2, <1>6, <2>1, IngestingType DEF Expanding
  <2>4. Put(x, v)
    BY <2>2
  <2> HIDE DEF v
  <2>5. Claim(v, edges)
    BY <1>6, <2>3 DEF Claim
  <2> QED
    BY <1>8, <2>1, <2>4, <2>5
<1>13. CASE LocalElsewhere(x)
  <2>1. Put(x, [w EXCEPT !.pc = "remote"]) /\ UNCHANGED ledger
    BY <1>13 DEF LocalElsewhere
  <2>2. [w EXCEPT !.pc = "remote"].pc = "remote"
    BY <1>2 DEF WalkStates
  <2> QED
    BY <1>7, <2>1, <2>2
<1>14. CASE RemoteFlow(x)
  <2> DEFINE row == [state |-> "unavailable", method |-> None, count |-> 0]
             n == [w EXCEPT !.pc = "record"]
             v == [n EXCEPT !.row = row]
             u == Ingesting(w, "provider", Cites(Current(w)))
  <2>1. w.pc \in {"remote", "flow"} /\ UNCHANGED <<edges, ledger>>
    BY <1>14 DEF RemoteFlow, At
  <2>2. Put(x, u) \/ Put(x, v)
    BY <1>14, Zenon DEF RemoteFlow
  <2>3. row.count = 0 /\ row.method = None
    OBVIOUS
  <2> HIDE DEF row
  <2>4. n \in WalkStates
    BY <1>2 DEF WalkStates
  <2> HIDE DEF n
  <2>5. v.row = row
    BY <2>4 DEF WalkStates
  <2> HIDE DEF v
  <2>6. None # "provider"
    BY NoneAssumption DEF Methods
  <2>7. Cardinality({}) = 0
    BY FS_EmptySet
  <2>8. Claim(v, edges)
    BY <2>3, <2>5, <2>6, <2>7 DEF Claim
  <2>9. /\ u.todo = Cites(Current(w)) /\ u.at = w.at /\ u.level = w.level
        /\ u.row = [state |-> "expanded", method |-> "provider",
                    count |-> Cardinality(Cites(Current(w)))]
    BY <1>2, <1>6, <2>1, IngestingType DEF Expanding
  <2> HIDE DEF u
  <2>10. Claim(u, edges)
    BY <1>6, <2>9 DEF Claim, Current
  <2> QED
    BY <1>8, <2>1, <2>2, <2>8, <2>10
<1>15. CASE Ingest(x)
  <2>1. w.pc = "ingest" /\ UNCHANGED ledger
    BY <1>15 DEF Ingest, At
  <2>2. PICK cited \in w.todo :
          /\ edges' = [edges EXCEPT ![Current(w)] = @ \cup {cited}]
          /\ Put(x, [w EXCEPT !.todo = @ \ {cited}])
    BY <1>15 DEF Ingest
  <2> DEFINE v == [w EXCEPT !.todo = @ \ {cited}]
  <2>3. /\ v.at = w.at /\ v.level = w.level /\ v.row = w.row /\ v.todo = w.todo \ {cited}
    BY <1>2 DEF WalkStates
  <2>4. Put(x, v)
    BY <2>2
  <2> HIDE DEF v
  <2>5. edges'[Current(w)] = edges[Current(w)] \cup {cited}
    BY <1>2, <1>3, <2>2
  <2>6. Claim(v, edges')
    BY <1>5, <2>1, <2>3, <2>5 DEF Claim, Current
  <2> QED
    BY <1>8, <2>1, <2>4, <2>6
<1>16. CASE Harvest(x)
  <2>1. /\ w.pc = "ingest" /\ UNCHANGED ledger /\ Put(x, [w EXCEPT !.pc = "record"])
    BY <1>16 DEF Harvest, At
  <2> DEFINE v == [w EXCEPT !.pc = "record"]
  <2>2. /\ v.at = w.at /\ v.level = w.level /\ v.row = w.row /\ v.todo = w.todo
    BY <1>2 DEF WalkStates
  <2>3. Put(x, v)
    BY <2>1
  <2> HIDE DEF v
  <2>4. edges[Current(w)] \subseteq edges'[Current(w)]
    BY <1>2, <1>4 DEF Grown
  <2>5. Claim(v, edges')
    BY <1>5, <2>1, <2>2, <2>4 DEF Claim, Current
  <2> QED
    BY <1>8, <2>1, <2>3, <2>5
<1>17. CASE Record(x)
  <2>1. /\ w.pc = "record" /\ UNCHANGED edges /\ Put(x, Advanced(w))
        /\ ledger' = [ledger EXCEPT ![Current(w)] = w.row]
    BY <1>17 DEF Record, At
  <2>2. Advanced(w).pc \notin {"ingest", "record"}
    BY <1>2, <2>1, AdvancedFollows
  <2>3. w.todo = {} /\ w.row \in Rows
    BY <1>2, <2>1 DEF Shape
  <2>4. PICK found \in SUBSET Works :
          /\ found \subseteq edges[Current(w)]
          /\ w.row.count = Cardinality(found)
          /\ w.row.method = "provider" => Cites(Current(w)) \subseteq found
    BY <1>5, <2>1, <2>3 DEF Claim
  <2>5. /\ w.row.count <= Cardinality(edges[Current(w)])
        /\ w.row.method = "provider" => Cites(Current(w)) \subseteq edges[Current(w)]
    BY <1>2, <1>3, <2>4, WorksFinite
  <2>6. LedgerBacked'
    <3> SUFFICES ASSUME NEW y \in Works, ledger'[y] # None
                 PROVE  /\ ledger'[y].count <= Cardinality(edges[y])
                        /\ ledger'[y].method = "provider" => Cites(y) \subseteq edges[y]
      BY <2>1 DEF LedgerBacked
    <3>1. CASE y = Current(w)
      BY <1>2, <1>3, <2>1, <2>5, <3>1
    <3>2. CASE y # Current(w)
      BY <1>3, <2>1, <3>2 DEF LedgerInv, LedgerBacked
    <3> QED
      BY <3>1, <3>2
  <2>7. \A y \in Walks : Claim(walk'[y], edges)
    <3>1. walk'[x] = Advanced(w) /\ \A y \in Walks \ {x} : walk'[y] = walk[y]
      BY <1>3, <2>1 DEF Put
    <3> QED
      BY <2>2, <3>1, NoClaim DEF LedgerInv
  <2>8. \A y \in Walks : Claim(walk[y], edges)'
    BY <2>1, <2>7 DEF Claim, Current, Cites
  <2> QED
    BY <2>6, <2>8 DEF LedgerInv
<1>18. CASE Fail(x)
  <2>1. Put(x, Ended(w, FALSE)) /\ UNCHANGED ledger
    BY <1>18 DEF Fail
  <2>2. Ended(w, FALSE).pc \notin {"ingest", "record"}
    BY <1>2, EndedFollows
  <2> QED
    BY <1>7, <2>1, <2>2
<1>19. CASE Plan(x)
  <2>1. UNCHANGED ledger /\ w.pc = "plan"
    BY <1>19 DEF Plan, At
  <2>2. PICK s : Put(x, IF w.at < Len(w.level)
                          THEN [w EXCEPT !.plan = @ \o s, !.at = @ + 1]
                          ELSE [w EXCEPT !.plan = @ \o s, !.at = 1, !.pc = "descend"])
    BY <1>19 DEF Plan
  <2> DEFINE v == IF w.at < Len(w.level)
                    THEN [w EXCEPT !.plan = @ \o s, !.at = @ + 1]
                    ELSE [w EXCEPT !.plan = @ \o s, !.at = 1, !.pc = "descend"]
  <2>3. v.pc \in {"plan", "descend"}
    <3>1. DOMAIN w = DOMAIN Idle /\ "pc" \in DOMAIN w
      BY <1>2, IdleType DEF WalkStates
    <3> QED
      BY <2>1, <3>1, Zenon
  <2>4. Put(x, v)
    BY <2>2
  <2> HIDE DEF v
  <2> QED
    BY <1>7, <2>1, <2>3, <2>4
<1>20. CASE Descend(x)
  <2>1. UNCHANGED ledger /\ w.pc = "descend"
    BY <1>20 DEF Descend, At
  <2> DEFINE v == IF Kept(w) = <<>> THEN Ended(w, TRUE)
                  ELSE [w EXCEPT !.level = Kept(w), !.plan = <<>>, !.depth = @ - 1,
                                 !.cut = @ \/ Kept(w) # w.plan, !.pc = "expand"]
  <2>2. Put(x, v)
    BY <1>20, Zenon DEF Descend
  <2>3. v.pc \notin {"ingest", "record"}
    <3>1. Ended(w, TRUE).pc \notin {"ingest", "record"}
      BY <1>2, EndedFollows
    <3>2. "pc" \in DOMAIN w
      BY <1>2 DEF WalkStates
    <3> QED
      BY <3>1, <3>2, Zenon
  <2> HIDE DEF v
  <2> QED
    BY <1>7, <2>1, <2>2, <2>3
<1> QED
  BY <1>9, <1>10, <1>11, <1>12, <1>13, <1>14, <1>15, <1>16, <1>17, <1>18, <1>19, <1>20

(* Nor does anything else than a walk at work write the ledger.            *)
LEMMA OtherBacked ==
  ASSUME TypeInv, LedgerInv,
         \/ \E x \in Walks : Inline(x) \/ Background(x) \/ Acquire(x) \/ Publish(x)
         \/ \E x \in Requests : Start(x) \/ Leave(x)
         \/ \E x \in Commands : Command(x) \/ Kill(x)
         \/ Restart
  PROVE  LedgerInv'
<1>1. walk \in [Walks -> WalkStates]
  BY DEF TypeInv, TypeOK
<1>2. ASSUME NEW x \in Walks, Inline(x) \/ Acquire(x) PROVE LedgerInv'
  <2> DEFINE v == [walk[x] EXCEPT !.pc = "expand"]
  <2>1. walk' = [walk EXCEPT ![x] = v] /\ UNCHANGED <<edges, ledger>>
    BY <1>2 DEF Inline, Acquire, Put
  <2>2. v.pc = "expand"
    BY <1>1 DEF WalkStates
  <2> HIDE DEF v
  <2> QED
    BY <2>1, <2>2, QuietBacked
<1>3. ASSUME NEW x \in Walks, Background(x) PROVE LedgerInv'
  <2> DEFINE n == [walk[x] EXCEPT !.pc = "queued"]
             v == [n EXCEPT !.way = "job"]
  <2>1. /\ walk' = [walk EXCEPT ![x].pc = "queued", ![x].way = "job"]
        /\ UNCHANGED <<edges, ledger>>
    BY <1>3 DEF Background
  <2>2. walk' = [walk EXCEPT ![x] = v]
    BY <1>1, <2>1
  <2>3. walk[x] \in WalkStates
    BY <1>1
  <2>4. n.pc = "queued" /\ n \in WalkStates
    BY ONLY <2>3, SMTT(30) DEF WalkStates
  <2> HIDE DEF n
  <2>5. v.pc = "queued"
    BY ONLY <2>4 DEF WalkStates
  <2> HIDE DEF v
  <2> QED
    BY <2>1, <2>2, <2>5, QuietBacked
<1>4. ASSUME NEW x \in Walks, Publish(x) \/ Leave(x) \/ Kill(x) PROVE LedgerInv'
  <2>1. walk' = [walk EXCEPT ![x] = Idle] /\ UNCHANGED <<edges, ledger>>
    BY <1>4 DEF Publish, Leave, Kill
  <2> QED
    BY <2>1, IdleType, QuietBacked
<1>5. \A x \in Walks : \A ask \in Asks[x] :
        ask \in [seed: Works, depth: Nat \ {0}, refresh: BOOLEAN]
  BY BoundsAssumption
<1>6. ASSUME NEW x \in Walks, Start(x) \/ Command(x) PROVE LedgerInv'
  <2>1. PICK ask \in Asks[x] : Enter(x, ask) \/ Put(x, Begun("expand", "command", ask))
    BY <1>6 DEF Start, Command
  <2>2. UNCHANGED <<edges, ledger>>
    BY <1>6 DEF Start, Enter, Command
  <2>3. PICK pc \in {"check", "queued", "expand"}, way \in {"inline", "job", "command"} :
          /\ pc = "check" => way = "inline"
          /\ walk' = [walk EXCEPT ![x] = Begun(pc, way, ask)]
    BY <2>1 DEF Enter, Put
  <2>4. Begun(pc, way, ask).pc = pc
    BY <1>5, <2>1, <2>3, BegunType
  <2> QED
    BY <2>2, <2>3, <2>4, QuietBacked
<1>7. CASE Restart
  <2>1. /\ \A y \in Walks : walk'[y] = Idle \/ walk'[y] = walk[y]
        /\ UNCHANGED <<edges, ledger>>
    BY <1>7 DEF Restart
  <2>2. \A y \in Walks : Claim(walk'[y], edges)
    BY <2>1, IdleType, NoClaim DEF LedgerInv
  <2>3. \A y \in Walks : Claim(walk[y], edges)'
    BY <2>1, <2>2 DEF Claim, Current, Cites
  <2>4. LedgerBacked'
    BY <2>1 DEF LedgerInv, LedgerBacked
  <2> QED
    BY <2>3, <2>4 DEF LedgerInv
<1> QED
  BY <1>2, <1>3, <1>4, <1>6, <1>7 DEF Walks

(* No row claims more than the graph has, whatever fails or runs beside    *)
(* the walk that writes it.                                                *)
THEOREM Ledger == Spec => []LedgerBacked
<1>1. Init => LedgerInv
  <2> SUFFICES ASSUME Init PROVE LedgerInv
    OBVIOUS
  <2>1. LedgerBacked
    BY DEF Init, LedgerBacked
  <2>2. \A x \in Walks : Claim(walk[x], edges)
    BY IdleType, NoClaim DEF Init
  <2> QED
    BY <2>1, <2>2 DEF LedgerInv
<1>2. TypeInv /\ LedgerInv /\ [Next]_vars => LedgerInv'
  <2> SUFFICES ASSUME TypeInv, LedgerInv, [Next]_vars PROVE LedgerInv'
    OBVIOUS
  <2>1. ASSUME NEW x \in Walks, Step(x) PROVE LedgerInv'
    <3>1. CASE Inline(x) \/ Background(x) \/ Acquire(x) \/ Publish(x)
      BY <3>1, OtherBacked
    <3>2. CASE \/ Cached(x) \/ Missed(x) \/ CountEdges(x) \/ LocalFlow(x) \/ LocalElsewhere(x)
               \/ RemoteFlow(x) \/ Ingest(x) \/ Harvest(x) \/ Record(x) \/ Fail(x)
               \/ Plan(x) \/ Descend(x)
      BY <3>2, WorkBacked
    <3> QED
      BY <2>1, <3>1, <3>2 DEF Step
  <2>2. CASE UNCHANGED vars
    <3>1. walk' = walk /\ edges' = edges /\ ledger' = ledger
      BY <2>2 DEF vars
    <3> QED
      BY <3>1 DEF LedgerInv, LedgerBacked, Claim
  <2> QED
    BY <2>1, <2>2, OtherBacked DEF Next
<1>3. Spec => [](TypeInv /\ LedgerInv)
  BY <1>1, <1>2, InitType, TypeInvInductive, PTL DEF Spec
<1>4. LedgerInv => LedgerBacked
  BY DEF LedgerInv
<1> QED
  BY <1>3, <1>4, PTL

-----------------------------------------------------------------------------
(* The permit.                                                             *)

(* A walk that the handler does itself is one Work that was found known    *)
(* before, and what is known stays known.                                  *)
Cheap(w, graph, rows) ==
  w.way = "inline" =>
    /\ w.pc \in {"check", "expand", "count", "record", "publish"}
    /\ w.pc # "publish" =>
         w.at = 1 /\ w.depth = 1 /\ w.refresh = FALSE /\ w.level = <<w.seed>>
    /\ w.pc = "expand" => rows[w.seed] # None \/ graph[w.seed] # {}
    /\ w.pc = "count" => graph[w.seed] # {}

InlineInv == \A x \in Requests : Cheap(walk[x], edges, ledger)

(* The graph and the set of rows only grow.                                *)
Growing ==
  /\ \A w \in Works : edges[w] \subseteq edges'[w]
  /\ \A w \in Works : ledger[w] # None => ledger'[w] # None

(* A step of one walk that leaves it cheap, or is no request's, leaves all *)
(* walks of the handler cheap.                                             *)
LEMMA StepCheap ==
  ASSUME TypeInv, InlineInv, Growing, NEW x \in Walks, NEW v,
         walk' = [walk EXCEPT ![x] = v], x \in Requests => Cheap(v, edges', ledger')
  PROVE  InlineInv'
<1>1. walk \in [Walks -> WalkStates]
  BY DEF TypeInv, TypeOK
<1>2. ASSUME NEW y \in Requests PROVE Cheap(walk'[y], edges', ledger')
  <2>1. y \in Walks
    BY DEF Walks
  <2>2. CASE y = x
    BY <1>1, <2>1, <2>2
  <2>3. CASE y # x
    <3>1. walk'[y] = walk[y] /\ Cheap(walk[y], edges, ledger)
      BY <1>1, <2>1, <2>3 DEF InlineInv
    <3>2. walk[y].way = "inline" /\ walk[y].pc # "idle" => walk[y].seed \in Works
      BY <2>1 DEF TypeInv, Shape
    <3> QED
      BY <3>1, <3>2 DEF Cheap, Growing
  <2> QED
    BY <2>2, <2>3
<1> QED
  BY <1>2 DEF InlineInv, Cheap

(* A walk of one Work ends with it.                                        *)
LEMMA AdvancedCheap ==
  ASSUME NEW w \in WalkStates, w.at = 1, w.depth = 1, w.seed \in Works, w.level = <<w.seed>>
  PROVE  Advanced(w).pc \in {"idle", "publish"}
<1> DEFINE e == [w EXCEPT !.done = Append(@, Current(w)), !.row = None]
<1>1. ~(w.at < Len(w.level)) /\ ~(w.depth > 1)
  OBVIOUS
<1>2. Advanced(w) = Ended(e, TRUE)
  BY <1>1, Zenon DEF Advanced
<1> HIDE DEF e
<1>3. CASE e.way = "command"
  BY <1>2, <1>3, IdleType DEF Ended
<1>4. CASE e.way # "command"
  <2>1. Ended(e, TRUE) = [Idle EXCEPT !.pc = "publish", !.way = e.way, !.seed = e.seed, !.ok = TRUE]
    BY <1>4, Zenon DEF Ended
  <2>2. "pc" \in DOMAIN Idle
    BY DEF Idle
  <2>3. [Idle EXCEPT !.pc = "publish", !.way = e.way, !.seed = e.seed, !.ok = TRUE].pc = "publish"
    BY <2>2, Zenon
  <2> QED
    BY <1>2, <2>1, <2>3
<1> QED
  BY <1>3, <1>4

(* A walk of the handler at work stays cheap.                              *)
LEMMA WorkCheap ==
  ASSUME TypeInv, InlineInv, NEW x \in Walks,
         \/ Cached(x) \/ Missed(x) \/ CountEdges(x) \/ LocalFlow(x) \/ LocalElsewhere(x)
         \/ RemoteFlow(x) \/ Ingest(x) \/ Harvest(x) \/ Record(x) \/ Fail(x)
         \/ Plan(x) \/ Descend(x)
  PROVE  InlineInv'
<1> DEFINE w == walk[x]
<1>1. walk[x].pc \in Working /\ Progress(x)
  BY WorkProgress
<1>2. /\ w \in WalkStates /\ Shape(w) /\ w.seed \in Works /\ Current(w) \in Works
  BY <1>1, CurrentType
<1>3. Growing
  BY <1>1 DEF Progress, Growing
<1>4. CASE ~(x \in Requests /\ w.way = "inline")
  <2>1. PICK v : Put(x, v) /\ Follows(w, v)
    BY <1>1 DEF Progress
  <2>2. x \in Requests => v.way # "inline"
    BY <1>4, <2>1, IdleType DEF Follows
  <2> QED
    BY <1>3, <2>1, <2>2, StepCheap DEF Put, Cheap
<1>5. CASE x \in Requests /\ w.way = "inline"
  <2>1. /\ w.pc \in {"expand", "count", "record"}
        /\ w.at = 1 /\ w.depth = 1 /\ w.refresh = FALSE /\ w.level = <<w.seed>>
        /\ w.pc = "expand" => ledger[w.seed] # None \/ edges[w.seed] # {}
        /\ w.pc = "count" => edges[w.seed] # {}
    BY <1>1, <1>5 DEF InlineInv, Cheap, Working, Expanding
  <2>2. Current(w) = w.seed
    BY <2>1 DEF Current
  <2>3. ASSUME NEW v, Put(x, v), v.pc = "publish" \/ v.pc = "idle", Follows(w, v)
        PROVE  InlineInv'
    <3>1. Cheap(v, edges', ledger')
      BY <2>3, IdleType DEF Cheap, Follows, Working, Expanding
    <3> QED
      BY <1>3, <2>3, <3>1, StepCheap DEF Put
  <2>4. CASE Cached(x) \/ Record(x)
    <3>1. Put(x, Advanced(w)) /\ w.pc \in {"expand", "record"}
      BY <2>4 DEF Cached, Record, At
    <3>2. Follows(w, Advanced(w)) /\ Advanced(w).pc \in {"idle", "publish"}
      BY <1>2, <2>1, <3>1, AdvancedFollows, AdvancedCheap
    <3> QED
      BY <2>3, <3>1, <3>2
  <2>5. CASE Missed(x)
    <3> DEFINE v == [w EXCEPT !.pc = "count"]
    <3>1. /\ ledger[w.seed] = None /\ w.pc = "expand" /\ UNCHANGED <<edges, ledger>>
          /\ Put(x, v)
      BY <2>1, <2>2, <2>5 DEF Missed, At
    <3>2. /\ v.pc = "count" /\ v.way = w.way /\ v.seed = w.seed /\ v.at = w.at
          /\ v.level = w.level /\ v.depth = w.depth /\ v.refresh = w.refresh
      BY <1>2 DEF WalkStates
    <3> HIDE DEF v
    <3>3. Cheap(v, edges', ledger')
      BY <2>1, <3>1, <3>2 DEF Cheap
    <3> QED
      BY <1>3, <3>1, <3>3, StepCheap DEF Put
  <2>6. CASE CountEdges(x)
    <3> DEFINE row == [state |-> "expanded", method |-> "existing",
                       count |-> Cardinality(edges[Current(w)])]
               n == [w EXCEPT !.pc = "record"]
               v == [n EXCEPT !.row = row]
    <3>1. w.pc = "count"
      BY <2>6 DEF CountEdges, At
    <3>2. edges[Current(w)] # {}
      BY <2>1, <2>2, <3>1
    <3>3. Put(x, v)
      BY <2>6, <3>2, Zenon DEF CountEdges
    <3> HIDE DEF row
    <3>4. /\ n.pc = "record" /\ n.way = w.way /\ n.seed = w.seed /\ n.at = w.at
          /\ n.level = w.level /\ n.depth = w.depth /\ n.refresh = w.refresh /\ n \in WalkStates
      BY <1>2 DEF WalkStates
    <3> HIDE DEF n
    <3>5. /\ v.pc = "record" /\ v.way = w.way /\ v.seed = w.seed /\ v.at = w.at
          /\ v.level = w.level /\ v.depth = w.depth /\ v.refresh = w.refresh
      BY <3>4 DEF WalkStates
    <3> HIDE DEF v
    <3>6. Cheap(v, edges', ledger')
      BY <2>1, <3>5 DEF Cheap
    <3> QED
      BY <1>3, <3>3, <3>6, StepCheap DEF Put
  <2>7. CASE Fail(x)
    <3>1. Put(x, Ended(w, FALSE))
      BY <2>7 DEF Fail
    <3>2. Follows(w, Ended(w, FALSE)) /\ Ended(w, FALSE).pc \in {"idle", "publish"}
      BY <1>2, EndedFollows
    <3> QED
      BY <2>3, <3>1, <3>2
  <2> QED
    BY <2>1, <2>4, <2>5, <2>6, <2>7
       DEF At, LocalFlow, LocalElsewhere, RemoteFlow, Ingest, Harvest, Plan, Descend
<1> QED
  BY <1>4, <1>5

(* What enters and leaves keeps the walks of the handler cheap.            *)
LEMMA OtherCheap ==
  ASSUME TypeInv, InlineInv,
         \/ \E x \in Walks : Inline(x) \/ Background(x) \/ Acquire(x) \/ Publish(x)
         \/ \E x \in Requests : Start(x) \/ Leave(x)
         \/ \E x \in Commands : Command(x) \/ Kill(x)
         \/ Restart
  PROVE  InlineInv'
<1>1. /\ walk \in [Walks -> WalkStates]
      /\ \A y \in Walks : Shape(walk[y])
  BY DEF TypeInv, TypeOK
<1>2. UNCHANGED <<edges, ledger>> /\ Growing
  BY DEF Inline, Background, Acquire, Publish, Start, Enter, Leave, Command, Kill, Restart, Growing
<1>3. ASSUME NEW x \in Walks, Inline(x) \/ Acquire(x) PROVE InlineInv'
  <2> DEFINE w == walk[x]
             v == [w EXCEPT !.pc = "expand"]
  <2>1. walk' = [walk EXCEPT ![x] = v]
    BY <1>3 DEF Inline, Acquire, Put
  <2>2. /\ v.pc = "expand" /\ v.way = w.way /\ v.seed = w.seed /\ v.at = w.at
        /\ v.level = w.level /\ v.depth = w.depth /\ v.refresh = w.refresh
    BY <1>1 DEF WalkStates
  <2> HIDE DEF v
  <2>3. ASSUME x \in Requests PROVE Cheap(v, edges', ledger')
    <3>1. CASE Inline(x)
      <4>1. w.pc = "check" /\ (ledger[w.seed] # None \/ edges[w.seed] # {})
        BY <3>1 DEF Inline, At, Known
      <4> QED
        BY <1>2, <2>2, <2>3, <4>1 DEF InlineInv, Cheap
    <3>2. CASE Acquire(x)
      <4>1. w.pc = "queued"
        BY <3>2 DEF Acquire, At
      <4>2. w.way # "inline"
        BY <2>3, <4>1 DEF InlineInv, Cheap
      <4> QED
        BY <2>2, <4>2 DEF Cheap
    <3> QED
      BY <1>3, <3>1, <3>2
  <2> QED
    BY <1>2, <2>1, <2>3, StepCheap
<1>4. ASSUME NEW x \in Walks, Background(x) PROVE InlineInv'
  <2> DEFINE n == [walk[x] EXCEPT !.pc = "queued"]
             v == [n EXCEPT !.way = "job"]
  <2>1. walk' = [walk EXCEPT ![x].pc = "queued", ![x].way = "job"]
    BY <1>4 DEF Background
  <2>2. walk' = [walk EXCEPT ![x] = v]
    BY <1>1, <2>1
  <2>3. walk[x] \in WalkStates
    BY <1>1
  <2>4. n \in WalkStates
    BY <2>3 DEF WalkStates
  <2> HIDE DEF n
  <2>5. v.way = "job"
    BY <2>4 DEF WalkStates
  <2> HIDE DEF v
  <2> QED
    BY <1>2, <2>2, <2>5, StepCheap DEF Cheap
<1>5. ASSUME NEW x \in Walks, Publish(x) \/ Leave(x) \/ Kill(x) PROVE InlineInv'
  <2>1. walk' = [walk EXCEPT ![x] = Idle]
    BY <1>5 DEF Publish, Leave, Kill
  <2>2. Cheap(Idle, edges', ledger')
    BY IdleType DEF Cheap
  <2> QED
    BY <1>2, <2>1, <2>2, StepCheap
<1>6. ASSUME NEW x \in Requests, Start(x) PROVE InlineInv'
  <2>1. PICK ask \in Asks[x] : Enter(x, ask)
    BY <1>6 DEF Start
  <2>2. ask \in [seed: Works, depth: Nat \ {0}, refresh: BOOLEAN] /\ x \in Walks
    BY <2>1, BoundsAssumption DEF Walks
  <2>3. CASE Single(ask)
    <3> DEFINE v == Begun("check", "inline", ask)
    <3>1. walk' = [walk EXCEPT ![x] = v]
      BY <2>1, <2>3 DEF Enter
    <3>2. /\ v.pc = "check" /\ v.seed = ask.seed /\ v.level = <<ask.seed>> /\ v.at = 1
          /\ v.depth = ask.depth /\ v.refresh = ask.refresh
      BY <2>2, BegunType
    <3>3. ask.depth = 1 /\ ask.refresh = FALSE
      BY <2>2, <2>3 DEF Single
    <3> HIDE DEF v
    <3>4. Cheap(v, edges', ledger')
      BY <3>2, <3>3 DEF Cheap
    <3> QED
      BY <1>2, <2>2, <3>1, <3>4, StepCheap
  <2>4. CASE ~Single(ask)
    <3> DEFINE v == Begun("queued", "job", ask)
    <3>1. walk' = [walk EXCEPT ![x] = v]
      BY <2>1, <2>4 DEF Enter
    <3>2. v.way = "job"
      BY <2>2, BegunType
    <3> HIDE DEF v
    <3> QED
      BY <1>2, <2>2, <3>1, <3>2, StepCheap DEF Cheap
  <2> QED
    BY <2>3, <2>4
<1>7. ASSUME NEW x \in Commands, Command(x) PROVE InlineInv'
  <2>1. x \in Walks /\ x \notin Requests
    BY WalksAssumption DEF Walks
  <2>2. \E v : walk' = [walk EXCEPT ![x] = v]
    BY <1>7 DEF Command, Put
  <2> QED
    BY <1>2, <2>1, <2>2, StepCheap
<1>8. CASE Restart
  <2>1. \A y \in Requests : walk'[y] = Idle
    BY <1>8 DEF Restart, Walks
  <2> QED
    BY <2>1, IdleType DEF InlineInv, Cheap
<1> QED
  BY <1>3, <1>4, <1>5, <1>6, <1>7, <1>8 DEF Walks

(* A request that is answered without the permit never asks a provider,    *)
(* although other walks change the ledger between its look and its walk,   *)
(* and of the jobs only the one with the permit does.                      *)
THEOREM Polite == Spec => []PoliteProvider
<1>1. Init => InlineInv
  <2> SUFFICES ASSUME Init PROVE InlineInv
    OBVIOUS
  <2>1. \A x \in Requests : walk[x] = Idle
    BY DEF Init, Walks
  <2> QED
    BY <2>1, IdleType DEF InlineInv, Cheap
<1>2. TypeInv /\ InlineInv /\ [Next]_vars => InlineInv'
  <2> SUFFICES ASSUME TypeInv, InlineInv, [Next]_vars PROVE InlineInv'
    OBVIOUS
  <2>1. ASSUME NEW x \in Walks, Step(x) PROVE InlineInv'
    <3>1. CASE Inline(x) \/ Background(x) \/ Acquire(x) \/ Publish(x)
      BY <3>1, OtherCheap
    <3>2. CASE \/ Cached(x) \/ Missed(x) \/ CountEdges(x) \/ LocalFlow(x) \/ LocalElsewhere(x)
               \/ RemoteFlow(x) \/ Ingest(x) \/ Harvest(x) \/ Record(x) \/ Fail(x)
               \/ Plan(x) \/ Descend(x)
      BY <3>2, WorkCheap
    <3> QED
      BY <2>1, <3>1, <3>2 DEF Step
  <2>2. CASE UNCHANGED vars
    <3>1. walk' = walk /\ edges' = edges /\ ledger' = ledger
      BY <2>2 DEF vars
    <3> QED
      BY <3>1 DEF InlineInv, Cheap
  <2> QED
    BY <2>1, <2>2, OtherCheap DEF Next
<1>3. Spec => [](TypeInv /\ InlineInv)
  BY <1>1, <1>2, InitType, TypeInvInductive, PTL DEF Spec
<1>4. TypeInv /\ InlineInv => PoliteProvider
  <2> SUFFICES ASSUME TypeInv, InlineInv, NEW x \in Requests,
                      walk[x].pc \in {"flow", "remote", "ingest"}
               PROVE  walk[x].way = "job" /\ queue # <<>> /\ Head(queue) = x
    BY DEF PoliteProvider
  <2>1. walk[x].way # "inline"
    BY DEF InlineInv, Cheap
  <2>2. walk[x].way = "job"
    BY <2>1 DEF TypeInv, Owned
  <2> QED
    BY <2>2 DEF TypeInv, Owned, Working, Expanding
<1> QED
  BY <1>3, <1>4, PTL

-----------------------------------------------------------------------------
(* The bounds of a walk.                                                   *)

(* A level is expanded, or is about to be.                                 *)
Reading == Expanding \cup {"check", "queued"}

(* No Work comes up twice.                                                  *)
Apart(s) == \A i, j \in 1..Len(s) : s[i] = s[j] => i = j

Within(n, w) == (n <= Budget \/ n <= 1) /\ (w.cut => n >= Budget)

(* A level still to be expanded, and a plan, name Works that the walk has   *)
(* not expanded, each once, and what it has expanded and what is left of    *)
(* the level stay within the budget.                                        *)
Bounded(w) ==
  /\ Apart(w.done)
  /\ w.pc \in Reading =>
       /\ Apart(w.level)
       /\ \A i \in w.at..Len(w.level), j \in 1..Len(w.done) : w.level[i] # w.done[j]
       /\ w.plan = <<>>
       /\ Within(Len(w.done) + (Len(w.level) - w.at + 1), w)
       /\ w.pc \in {"check", "queued"} => ~w.cut
  /\ w.pc \in {"plan", "descend"} =>
       /\ Apart(w.plan)
       /\ \A i \in 1..Len(w.plan), j \in 1..Len(w.done) : w.plan[i] # w.done[j]
       /\ Within(Len(w.done), w)
  /\ w.pc \in {"idle", "publish"} => w.done = <<>> /\ ~w.cut

BoundInv == \A x \in Walks : Bounded(walk[x])

(* A walk goes on with its level as it is.                                  *)
LEMMA SameBounded ==
  ASSUME NEW w \in WalkStates, NEW v \in WalkStates, Bounded(w),
         w.pc \in Reading, v.pc \in Expanding \/ (v.pc = "queued" /\ w.pc = "check"),
         v.level = w.level, v.at = w.at, v.done = w.done, v.plan = w.plan, v.cut = w.cut
  PROVE  Bounded(v)
<1>1. v.pc \in Reading /\ v.pc \notin {"plan", "descend", "idle", "publish"}
  BY DEF Reading, Expanding
<1>2. v.pc \in {"check", "queued"} => w.pc \in {"check", "queued"}
  BY DEF Expanding
<1> QED
  BY <1>1, <1>2 DEF Bounded, Within

(* Stage, row and references are no part of the bounds.                     *)
LEMMA StageBounded ==
  ASSUME NEW w \in WalkStates, Bounded(w), w.pc \in Reading,
         NEW pc \in Expanding, NEW row \in Rows \cup {None}, NEW todo \in SUBSET Works
  PROVE  /\ Bounded([w EXCEPT !.pc = pc])
         /\ w.pc \in Expanding => Bounded([w EXCEPT !.todo = todo])
         /\ Bounded([w EXCEPT !.pc = pc, !.row = row])
         /\ Bounded([w EXCEPT !.pc = pc, !.todo = todo, !.row = row])
<1> DEFINE a == [w EXCEPT !.pc = pc]
           b == [a EXCEPT !.row = row]
           c == [a EXCEPT !.todo = todo]
           d == [c EXCEPT !.row = row]
           t == [w EXCEPT !.todo = todo]
<1>1. /\ a \in WalkStates /\ a.pc = pc /\ a.level = w.level /\ a.at = w.at
      /\ a.done = w.done /\ a.plan = w.plan /\ a.cut = w.cut
  BY DEF WalkStates, Expanding
<1>2. /\ t \in WalkStates /\ t.pc = w.pc /\ t.level = w.level /\ t.at = w.at
      /\ t.done = w.done /\ t.plan = w.plan /\ t.cut = w.cut
  BY DEF WalkStates
<1> HIDE DEF a
<1>3. /\ b \in WalkStates /\ b.pc = pc /\ b.level = w.level /\ b.at = w.at
      /\ b.done = w.done /\ b.plan = w.plan /\ b.cut = w.cut
  BY <1>1 DEF WalkStates
<1>4. /\ c \in WalkStates /\ c.pc = pc /\ c.level = w.level /\ c.at = w.at
      /\ c.done = w.done /\ c.plan = w.plan /\ c.cut = w.cut
  BY <1>1 DEF WalkStates
<1> HIDE DEF c
<1>5. /\ d \in WalkStates /\ d.pc = pc /\ d.level = w.level /\ d.at = w.at
      /\ d.done = w.done /\ d.plan = w.plan /\ d.cut = w.cut
  BY <1>4 DEF WalkStates
<1> HIDE DEF b, d, t
<1>6. Bounded(a) /\ Bounded(b) /\ Bounded(d)
  BY <1>1, <1>3, <1>5, SameBounded
<1>7. w.pc \in Expanding => Bounded(t)
  BY <1>2, SameBounded
<1>8. b = [w EXCEPT !.pc = pc, !.row = row] /\ d = [w EXCEPT !.pc = pc, !.todo = todo, !.row = row]
  BY Zenon DEF a, b, c, d
<1> QED
  BY <1>6, <1>7, <1>8 DEF a, t

(* What has not begun, and what has ended, is bounded.                      *)
LEMMA EndedBounded ==
  ASSUME NEW w \in WalkStates, NEW ok \in BOOLEAN
  PROVE  Bounded(Idle) /\ Bounded(Ended(w, ok))
<1>1. Bounded(Idle)
  BY DEF Idle, Bounded, Reading, Expanding, Apart
<1>2. CASE w.way = "command"
  BY <1>1, <1>2 DEF Ended
<1>3. CASE w.way # "command"
  <2> DEFINE v == [Idle EXCEPT !.pc = "publish", !.way = w.way, !.seed = w.seed, !.ok = ok]
  <2>1. v.pc = "publish" /\ v.done = <<>> /\ v.cut = FALSE
    BY DEF Idle
  <2>2. Ended(w, ok) = v
    BY <1>3, Zenon DEF Ended
  <2> HIDE DEF v
  <2>3. Bounded(v)
    BY <2>1 DEF Bounded, Reading, Expanding, Apart
  <2> QED
    BY <1>1, <2>2, <2>3
<1> QED
  BY <1>1, <1>2, <1>3

(* A walk that begins is bounded. *)
LEMMA BegunBounded ==
  ASSUME NEW ask \in [seed: Works, depth: Nat \ {0}, refresh: BOOLEAN],
         NEW pc \in {"check", "queued", "expand"}, NEW way \in {"inline", "job", "command"}
  PROVE  Bounded(Begun(pc, way, ask))
<1> DEFINE v == Begun(pc, way, ask)
<1>1. /\ v.pc = pc /\ v.level = <<ask.seed>> /\ v.at = 1 /\ v.done = <<>> /\ v.plan = <<>>
      /\ v.cut = FALSE
  BY DEF Begun, Idle
<1> HIDE DEF v
<1>2. Len(v.level) = 1 /\ Len(v.done) = 0
  BY <1>1
<1>3. Within(Len(v.done) + (Len(v.level) - v.at + 1), v)
  BY <1>1, <1>2 DEF Within
<1>4. Apart(v.level) /\ Apart(v.done)
  BY <1>2 DEF Apart
<1>5. Bounded(v)
  BY <1>1, <1>2, <1>3, <1>4 DEF Bounded
<1> QED
  BY <1>5 DEF v

(* A Work that is not there yet is added.                                   *)
LEMMA AppendApart ==
  ASSUME NEW s \in Seq(Works), NEW c \in Works, Apart(s), \A j \in 1..Len(s) : s[j] # c
  PROVE  Apart(Append(s, c))
<1> DEFINE t == Append(s, c)
<1>1. /\ Len(s) \in Nat /\ Len(t) = Len(s) + 1
      /\ \A j \in 1..Len(s) : t[j] = s[j]
      /\ t[Len(s) + 1] = c
  BY AppendProperties
<1> HIDE DEF t
<1>2. ASSUME NEW i \in 1..Len(t), NEW j \in 1..Len(t), t[i] = t[j] PROVE i = j
  <2>1. i \in 1..Len(s) \/ i = Len(s) + 1
    BY <1>1
  <2>2. j \in 1..Len(s) \/ j = Len(s) + 1
    BY <1>1
  <2> QED
    BY <1>1, <1>2, <2>1, <2>2 DEF Apart
<1> QED
  BY <1>2 DEF t, Apart

(* The current Work joins those that are done.                              *)
LEMMA AdvancedBounded ==
  ASSUME NEW w \in WalkStates, Shape(w), Bounded(w), w.pc \in Expanding
  PROVE  Bounded(Advanced(w))
<1> DEFINE e == [w EXCEPT !.done = Append(@, Current(w)), !.row = None]
<1>1. /\ w.at \in 1..Len(w.level) /\ w.level \in Seq(Works) /\ w.done \in Seq(Works)
      /\ w.depth \in Nat /\ Len(w.done) \in Nat /\ Len(w.level) \in Nat /\ Budget \in Nat
      /\ w.cut \in BOOLEAN
  BY BoundsAssumption DEF Shape, Working, Expanding, WalkStates
<1>2. Current(w) \in Works /\ Current(w) = w.level[w.at]
  BY <1>1, ElementOfSeq DEF Current
<1>3. /\ Append(w.done, Current(w)) \in Seq(Works)
      /\ Len(Append(w.done, Current(w))) = Len(w.done) + 1
      /\ \A j \in 1..Len(w.done) : Append(w.done, Current(w))[j] = w.done[j]
      /\ Append(w.done, Current(w))[Len(w.done) + 1] = Current(w)
  BY <1>1, <1>2, AppendProperties
<1>4. /\ e \in WalkStates /\ e.done = Append(w.done, Current(w))
      /\ e.level = w.level /\ e.at = w.at /\ e.depth = w.depth /\ e.plan = w.plan /\ e.cut = w.cut
  BY <1>1, <1>3 DEF WalkStates
<1>5. /\ Apart(w.level) /\ Apart(w.done) /\ w.plan = <<>>
      /\ \A i \in w.at..Len(w.level), j \in 1..Len(w.done) : w.level[i] # w.done[j]
      /\ Within(Len(w.done) + (Len(w.level) - w.at + 1), w)
  BY DEF Bounded, Reading
<1>6. Apart(e.done)
  <2>1. ASSUME NEW j \in 1..Len(w.done)
        PROVE  w.done[j] # Current(w)
    <3>1. w.at \in w.at..Len(w.level)
      BY <1>1
    <3>2. w.level[w.at] # w.done[j]
      BY <1>5, <3>1
    <3> QED
      BY <1>2, <3>2
  <2> QED
    BY <1>1, <1>2, <1>4, <1>5, <2>1, AppendApart
<1> HIDE DEF e
<1>7. CASE w.at < Len(w.level)
  <2> DEFINE n == [e EXCEPT !.at = @ + 1]
             v == [n EXCEPT !.pc = "expand"]
  <2>1. Advanced(w) = v
    BY <1>7, Zenon DEF Advanced, e
  <2>2. e.at + 1 \in Nat
    BY <1>1, <1>4
  <2>3. /\ n \in WalkStates /\ n.at = w.at + 1 /\ n.level = e.level /\ n.done = e.done
        /\ n.plan = e.plan /\ n.cut = e.cut
    BY <1>4, <2>2 DEF WalkStates
  <2> HIDE DEF n
  <2>4. /\ v.at = w.at + 1 /\ v.level = w.level /\ v.done = e.done /\ v.pc = "expand"
        /\ v.plan = w.plan /\ v.cut = w.cut
    BY <1>4, <2>3 DEF WalkStates
  <2> HIDE DEF v
  <2>5. \A i \in v.at..Len(v.level), j \in 1..Len(v.done) : v.level[i] # v.done[j]
    <3> SUFFICES ASSUME NEW i \in (w.at + 1)..Len(w.level), NEW j \in 1..(Len(w.done) + 1)
                 PROVE  w.level[i] # e.done[j]
      BY <1>3, <1>4, <2>4
    <3>1. i \in w.at..Len(w.level) /\ i \in 1..Len(w.level) /\ i # w.at
      BY <1>1
    <3>2. CASE j = Len(w.done) + 1
      BY <1>1, <1>2, <1>3, <1>4, <1>5, <3>1, <3>2 DEF Apart
    <3>3. CASE j # Len(w.done) + 1
      <4>1. j \in 1..Len(w.done)
        BY <1>1, <3>3
      <4> QED
        BY <1>3, <1>4, <1>5, <3>1, <4>1
    <3> QED
      BY <3>2, <3>3
  <2>6. Len(v.done) + (Len(v.level) - v.at + 1) = Len(w.done) + (Len(w.level) - w.at + 1)
    <3>1. Len(v.done) = Len(w.done) + 1 /\ Len(v.level) = Len(w.level) /\ v.at = w.at + 1
      BY <1>3, <1>4, <2>4
    <3>2. \A d, l, a \in Nat : (d + 1) + (l - (a + 1) + 1) = d + (l - a + 1)
      OBVIOUS
    <3>3. (Len(w.done) + 1) + (Len(w.level) - (w.at + 1) + 1)
            = Len(w.done) + (Len(w.level) - w.at + 1)
      <4>1. w.at \in Nat
        BY <1>1
      <4> QED
        BY <1>1, <3>2, <4>1
    <3> QED
      BY <3>1, <3>3, Zenon
  <2>7. Within(Len(v.done) + (Len(v.level) - v.at + 1), v)
    BY <1>5, <2>4, <2>6 DEF Within
  <2>8. Bounded(v)
    BY <1>5, <1>6, <2>4, <2>5, <2>7 DEF Bounded
  <2> QED
    BY <2>1, <2>8
<1>8. CASE ~(w.at < Len(w.level)) /\ w.depth > 1
  <2> DEFINE n == [e EXCEPT !.at = 1]
             v == [n EXCEPT !.pc = "plan"]
  <2>1. Advanced(w) = v
    BY <1>8, Zenon DEF Advanced, e
  <2>2. n \in WalkStates /\ n.done = e.done /\ n.plan = e.plan /\ n.cut = e.cut
    BY <1>4 DEF WalkStates
  <2> HIDE DEF n
  <2>3. v.done = e.done /\ v.plan = <<>> /\ v.cut = w.cut /\ v.pc = "plan"
    BY <1>4, <1>5, <2>2 DEF WalkStates
  <2> HIDE DEF v
  <2>4. Len(v.done) = Len(w.done) + (Len(w.level) - w.at + 1)
    BY <1>1, <1>3, <1>4, <1>8, <2>3
  <2>5. Within(Len(v.done), v)
    BY <1>5, <2>3, <2>4 DEF Within
  <2>6. Len(v.plan) = 0 /\ Apart(v.plan)
    BY <2>3 DEF Apart
  <2>7. Bounded(v)
    BY <1>6, <2>3, <2>5, <2>6 DEF Bounded, Reading, Expanding
  <2> QED
    BY <2>1, <2>7
<1>9. CASE ~(w.at < Len(w.level)) /\ ~(w.depth > 1)
  <2>1. Advanced(w) = Ended(e, TRUE)
    BY <1>9, Zenon DEF Advanced, e
  <2> QED
    BY <1>4, <2>1, EndedBounded
<1> QED
  BY <1>7, <1>8, <1>9

(* The plan goes on with Works that are neither done nor planned.           *)
LEMMA PlanBounded ==
  ASSUME NEW w \in WalkStates, Shape(w), Bounded(w), w.pc = "plan", NEW children \in SUBSET Works,
         NEW s \in [1..Cardinality(Best(Eligible(w, children))) -> Best(Eligible(w, children))],
         Ranked(s)
  PROVE  Bounded(IF w.at < Len(w.level)
                   THEN [w EXCEPT !.plan = @ \o s, !.at = @ + 1]
                   ELSE [w EXCEPT !.plan = @ \o s, !.at = 1, !.pc = "descend"])
<1> DEFINE taken == Best(Eligible(w, children))
<1>1. /\ w.at \in Nat /\ w.plan \in Seq(Works) /\ w.done \in Seq(Works)
      /\ Len(w.plan) \in Nat /\ Len(w.done) \in Nat
  BY DEF WalkStates
<1>2. /\ taken \in SUBSET Works /\ taken \cap Range(w.done) = {} /\ taken \cap Range(w.plan) = {}
  BY DEF Best, Eligible, Visited
<1> HIDE DEF taken
<1>3. /\ Cardinality(taken) \in Nat /\ s \in Seq(Works) /\ Len(s) = Cardinality(taken)
      /\ \A i \in 1..Len(s) : s[i] \in taken /\ s[i] \in Nat
  <2>1. Cardinality(taken) \in Nat
    BY <1>2, WorksFinite
  <2>2. s \in [1..Cardinality(taken) -> taken]
    BY DEF taken
  <2>3. s \in [1..Cardinality(taken) -> Works]
    BY <1>2, <2>2
  <2>4. s \in Seq(Works) /\ Len(s) = Cardinality(taken)
    BY <2>1, <2>3
  <2>5. \A i \in 1..Len(s) : s[i] \in taken
    BY <2>2, <2>4
  <2>6. \A c \in Works : c \in Nat
    BY GraphAssumption DEF Works
  <2> QED
    BY <1>2, <2>1, <2>4, <2>5, <2>6
<1>4. Apart(s)
  <2> SUFFICES ASSUME NEW i \in 1..Len(s), NEW j \in 1..Len(s), s[i] = s[j] PROVE i = j
    BY DEF Apart
  <2>1. DOMAIN s = 1..Len(s)
    BY <1>3
  <2>2. ~(i < j) /\ ~(j < i)
    BY <1>3, <2>1 DEF Ranked
  <2> QED
    BY <1>3, <2>2
<1> DEFINE p == w.plan \o s
<1>5. /\ p \in Seq(Works) /\ Len(p) = Len(w.plan) + Len(s)
      /\ \A i \in 1..Len(w.plan) : p[i] = w.plan[i]
      /\ \A i \in (Len(w.plan) + 1)..Len(p) : p[i] = s[i - Len(w.plan)]
  <2>1. /\ p \in Seq(Works) /\ Len(p) = Len(w.plan) + Len(s)
        /\ \A i \in 1..Len(w.plan) + Len(s) :
             p[i] = IF i <= Len(w.plan) THEN w.plan[i] ELSE s[i - Len(w.plan)]
    BY <1>1, <1>3, ConcatProperties, Zenon
  <2> HIDE DEF p
  <2> QED
    BY <1>1, <1>3, <2>1
<1> HIDE DEF p
<1>6. /\ Apart(w.plan) /\ Apart(w.done)
      /\ \A i \in 1..Len(w.plan), j \in 1..Len(w.done) : w.plan[i] # w.done[j]
      /\ Within(Len(w.done), w)
  BY DEF Bounded
<1>7. /\ \A i \in 1..Len(s), j \in 1..Len(w.done) : s[i] # w.done[j]
      /\ \A i \in 1..Len(s), j \in 1..Len(w.plan) : s[i] # w.plan[j]
  BY <1>1, <1>2, <1>3 DEF Range
<1>8. \A i \in 1..Len(p) : i \in 1..Len(w.plan) \/
                             (i \in (Len(w.plan) + 1)..Len(p) /\ i - Len(w.plan) \in 1..Len(s))
  BY <1>1, <1>3, <1>5
<1>9. Apart(p)
  <2> SUFFICES ASSUME NEW i \in 1..Len(p), NEW j \in 1..Len(p), p[i] = p[j] PROVE i = j
    BY DEF Apart
  <2>1. CASE i \in 1..Len(w.plan) /\ j \in 1..Len(w.plan)
    BY <1>5, <1>6, <2>1 DEF Apart
  <2>2. CASE i \notin 1..Len(w.plan) /\ j \notin 1..Len(w.plan)
    <3>1. /\ i - Len(w.plan) \in 1..Len(s) /\ j - Len(w.plan) \in 1..Len(s)
          /\ s[i - Len(w.plan)] = s[j - Len(w.plan)]
      BY <1>5, <1>8, <2>2
    <3>2. i - Len(w.plan) = j - Len(w.plan)
      BY <1>4, <3>1 DEF Apart
    <3> QED
      BY <1>1, <1>3, <1>5, <3>2
  <2>3. CASE i \in 1..Len(w.plan) /\ j \notin 1..Len(w.plan)
    <3>1. p[i] = w.plan[i] /\ p[j] = s[j - Len(w.plan)] /\ j - Len(w.plan) \in 1..Len(s)
      BY <1>5, <1>8, <2>3
    <3> QED
      BY <1>7, <2>3, <3>1
  <2>4. CASE i \notin 1..Len(w.plan) /\ j \in 1..Len(w.plan)
    <3>1. p[j] = w.plan[j] /\ p[i] = s[i - Len(w.plan)] /\ i - Len(w.plan) \in 1..Len(s)
      BY <1>5, <1>8, <2>4
    <3> QED
      BY <1>7, <2>4, <3>1
  <2> QED
    BY <2>1, <2>2, <2>3, <2>4
<1>10. ASSUME NEW i \in 1..Len(p), NEW j \in 1..Len(w.done)
       PROVE  p[i] # w.done[j]
  <2>1. CASE i \in 1..Len(w.plan)
    BY <1>5, <1>6, <2>1
  <2>2. CASE i \in (Len(w.plan) + 1)..Len(p) /\ i - Len(w.plan) \in 1..Len(s)
    <3>1. p[i] = s[i - Len(w.plan)]
      BY <1>5, <2>2
    <3> QED
      BY <1>7, <2>2, <3>1
  <2> QED
    BY <1>8, <2>1, <2>2
<1> DEFINE m == [w EXCEPT !.plan = w.plan \o s]
<1>11. m \in WalkStates /\ m.plan = p /\ m.done = w.done /\ m.cut = w.cut /\ m.pc = "plan"
       /\ m.at = w.at
  BY <1>5 DEF WalkStates, p
<1> HIDE DEF m
<1>12. ASSUME NEW v \in WalkStates, v.plan = p, v.done = w.done, v.cut = w.cut,
              v.pc \in {"plan", "descend"}
       PROVE  Bounded(v)
  BY <1>6, <1>9, <1>10, <1>12 DEF Bounded, Within, Reading, Expanding
<1>13. CASE w.at < Len(w.level)
  <2> DEFINE v == [m EXCEPT !.at = w.at + 1]
  <2>a. w.at + 1 \in Nat
    BY <1>1
  <2>1. v \in WalkStates /\ v.plan = p /\ v.done = w.done /\ v.cut = w.cut /\ v.pc = "plan"
    BY <1>11, <2>a DEF WalkStates
  <2>2. Bounded(v)
    BY <1>12, <2>1
  <2> QED
    BY <1>13, <2>2, Zenon DEF m
<1>14. CASE ~(w.at < Len(w.level))
  <2> DEFINE n == [m EXCEPT !.at = 1]
             v == [n EXCEPT !.pc = "descend"]
  <2>1. n \in WalkStates /\ n.plan = p /\ n.done = w.done /\ n.cut = w.cut
    BY <1>11 DEF WalkStates
  <2> HIDE DEF n
  <2>2. v \in WalkStates /\ v.plan = p /\ v.done = w.done /\ v.cut = w.cut /\ v.pc = "descend"
    BY <2>1 DEF WalkStates
  <2>3. Bounded(v)
    BY <1>12, <2>2
  <2> QED
    BY <1>14, <2>3, Zenon DEF m, n
<1> QED
  BY <1>13, <1>14

(* The next level is what the budget keeps of the plan.                     *)
LEMMA DescendBounded ==
  ASSUME NEW w \in WalkStates, Shape(w), Bounded(w), w.pc = "descend"
  PROVE  Bounded(IF Kept(w) = <<>> THEN Ended(w, TRUE)
                 ELSE [w EXCEPT !.level = Kept(w), !.plan = <<>>, !.depth = @ - 1,
                                !.cut = @ \/ Kept(w) # w.plan, !.pc = "expand"])
<1>1. /\ w.at = 1 /\ w.depth > 1 /\ w.depth \in Nat /\ w.plan \in Seq(Works)
      /\ w.done \in Seq(Works) /\ Len(w.plan) \in Nat /\ Len(w.done) \in Nat
      /\ Budget \in Nat /\ w.cut \in BOOLEAN
  BY BoundsAssumption DEF Shape, Working, WalkStates
<1>2. CASE Kept(w) = <<>>
  BY <1>2, EndedBounded
<1>3. CASE Kept(w) # <<>>
  <2> DEFINE k == Kept(w)
             none == <<>>
             a == [w EXCEPT !.level = k]
             b == [a EXCEPT !.plan = none]
             c == [b EXCEPT !.depth = @ - 1]
             d == [c EXCEPT !.cut = @ \/ k # w.plan]
             v == [d EXCEPT !.pc = "expand"]
  <2>1. /\ k \in Seq(Works) /\ Len(k) <= Remaining(w)
        /\ k # w.plan => Len(k) = Remaining(w)
        /\ \A i \in 1..Len(k) : i \in 1..Len(w.plan) /\ k[i] = w.plan[i]
    BY KeptType
  <2>2. k # none
    BY <1>3
  <2> HIDE DEF k
  <2>3. Len(k) \in Nat /\ Len(k) > 0
    BY <2>1, <2>2
  <2>4. Remaining(w) = Budget - Len(w.done) /\ Len(w.done) + Len(k) <= Budget
    <3>1. Remaining(w) > 0 /\ Remaining(w) \in Nat
      BY <1>1, <2>1, <2>3 DEF Remaining
    <3>2. Budget > Len(w.done)
      BY <3>1 DEF Remaining
    <3>3. Remaining(w) = Budget - Len(w.done)
      BY <3>2 DEF Remaining
    <3> QED
      BY <1>1, <2>1, <2>3, <3>3
  <2>a. none \in Seq(Works)
    BY EmptySeq
  <2>5. a \in WalkStates /\ a.level = k /\ a.at = 1 /\ a.done = w.done /\ a.cut = w.cut
        /\ a.depth = w.depth
    BY <1>1, <2>1 DEF WalkStates
  <2> HIDE DEF a
  <2>6. b \in WalkStates /\ b.level = k /\ b.at = 1 /\ b.done = w.done /\ b.cut = w.cut
        /\ b.plan = none /\ b.depth = w.depth
    BY <2>5, <2>a DEF WalkStates
  <2> HIDE DEF b
  <2>7. b.depth - 1 \in Nat
    BY <1>1, <2>6
  <2>8. c \in WalkStates /\ c.level = k /\ c.at = 1 /\ c.done = w.done /\ c.cut = w.cut
        /\ c.plan = none
    BY <2>6, <2>7 DEF WalkStates
  <2> HIDE DEF c
  <2>9. (c.cut \/ k # w.plan) \in BOOLEAN
    OBVIOUS
  <2>10. d \in WalkStates /\ d.level = k /\ d.at = 1 /\ d.done = w.done
         /\ d.cut = (w.cut \/ k # w.plan) /\ d.plan = none
    BY <2>8, <2>9 DEF WalkStates
  <2> HIDE DEF d
  <2>11. v.level = k /\ v.at = 1 /\ v.done = w.done /\ v.pc = "expand"
         /\ v.cut = (w.cut \/ k # w.plan) /\ v.plan = <<>>
    BY <2>10 DEF WalkStates
  <2> HIDE DEF v
  <2>12. /\ Apart(w.plan) /\ Apart(w.done)
         /\ \A i \in 1..Len(w.plan), j \in 1..Len(w.done) : w.plan[i] # w.done[j]
         /\ Within(Len(w.done), w)
    BY DEF Bounded
  <2>13. Apart(k)
    BY <2>1, <2>12 DEF Apart
  <2>14. \A i \in 1..Len(k), j \in 1..Len(w.done) : k[i] # w.done[j]
    BY <2>1, <2>12
  <2>15. Len(v.done) + (Len(v.level) - v.at + 1) = Len(w.done) + Len(k)
    BY <1>1, <2>3, <2>11
  <2>16. w.cut \/ k # w.plan => Len(w.done) + Len(k) >= Budget
    BY <1>1, <2>1, <2>3, <2>4, <2>12 DEF Within
  <2>17. Within(Len(v.done) + (Len(v.level) - v.at + 1), v)
    BY <2>4, <2>11, <2>15, <2>16 DEF Within
  <2>18. Bounded(v)
    BY <2>11, <2>12, <2>13, <2>14, <2>17 DEF Bounded
  <2> QED
    BY <1>3, <2>18, Zenon DEF k, none, a, b, c, d, v
<1> QED
  BY <1>2, <1>3

(* A step that leaves one walk bounded leaves all of them.                  *)
LEMMA StepBounded ==
  ASSUME TypeInv, BoundInv, NEW x \in Walks, NEW v, Bounded(v), walk' = [walk EXCEPT ![x] = v]
  PROVE  BoundInv'
<1>1. walk \in [Walks -> WalkStates]
  BY DEF TypeInv, TypeOK
<1>2. \A y \in Walks : Bounded(walk'[y])
  BY <1>1 DEF BoundInv
<1> QED
  BY <1>2 DEF BoundInv, Bounded, Apart, Within

(* A walk at work stays bounded.                                            *)
LEMMA WorkBounded ==
  ASSUME TypeInv, BoundInv, NEW x \in Walks,
         \/ Cached(x) \/ Missed(x) \/ CountEdges(x) \/ LocalFlow(x) \/ LocalElsewhere(x)
         \/ RemoteFlow(x) \/ Ingest(x) \/ Harvest(x) \/ Record(x) \/ Fail(x)
         \/ Plan(x) \/ Descend(x)
  PROVE  BoundInv'
<1> DEFINE w == walk[x]
<1>1. /\ w \in WalkStates /\ Shape(w) /\ Bounded(w)
      /\ edges \in [Works -> SUBSET Works] /\ w.pc \in Working
  BY WorkProgress DEF TypeInv, TypeOK, BoundInv
<1>2. Current(w) \in Works /\ w.todo \in SUBSET Works
  BY <1>1, CurrentType DEF WalkStates
<1> HIDE DEF w
<1>3. SUFFICES \E v : Put(x, v) /\ Bounded(v)
  BY StepBounded DEF Put
<1>4. ASSUME NEW pc \in Expanding, w.pc \in Expanding, Put(x, [w EXCEPT !.pc = pc])
      PROVE  \E v : Put(x, v) /\ Bounded(v)
  BY <1>1, <1>4, StageBounded DEF Reading
<1>5. ASSUME NEW pc \in Expanding, NEW row \in Rows, w.pc \in Expanding,
             Put(x, [w EXCEPT !.pc = pc, !.row = row])
      PROVE  \E v : Put(x, v) /\ Bounded(v)
  BY <1>1, <1>5, StageBounded DEF Reading
<1>6. ASSUME NEW method \in {"local", "provider"}, NEW found \in SUBSET Works, w.pc \in Expanding,
             Put(x, Ingesting(w, method, found))
      PROVE  \E v : Put(x, v) /\ Bounded(v)
  <2> DEFINE row == [state |-> "expanded", method |-> method, count |-> Cardinality(found)]
  <2>1. row \in Rows
    BY WorksFinite DEF Rows, Methods
  <2>2. Put(x, [w EXCEPT !.pc = "ingest", !.todo = found, !.row = row])
    BY <1>6, Zenon DEF Ingesting
  <2> HIDE DEF row
  <2>3. Bounded([w EXCEPT !.pc = "ingest", !.todo = found, !.row = row])
    BY <1>1, <1>6, <2>1, StageBounded DEF Reading, Expanding
  <2> QED
    BY <2>2, <2>3
<1>7. CASE Cached(x) \/ Record(x)
  <2>1. Put(x, Advanced(w)) /\ w.pc \in Expanding
    BY <1>7 DEF Cached, Record, At, Expanding, w
  <2> QED
    BY <1>1, <2>1, AdvancedBounded
<1>8. CASE Missed(x)
  BY <1>4, <1>8 DEF Missed, At, Expanding, w
<1>9. CASE CountEdges(x)
  <2> DEFINE row == [state |-> "expanded", method |-> "existing",
                     count |-> Cardinality(edges[Current(w)])]
  <2>1. row \in Rows
    BY <1>1, <1>2, WorksFinite DEF Rows, Methods
  <2>2. w.pc \in Expanding
    BY <1>9 DEF CountEdges, At, Expanding, w
  <2>3. \/ Put(x, [w EXCEPT !.pc = "record", !.row = row])
        \/ Put(x, [w EXCEPT !.pc = "flow"])
    BY <1>9, Zenon DEF CountEdges, w
  <2> HIDE DEF row
  <2> QED
    BY <1>4, <1>5, <2>1, <2>2, <2>3 DEF Expanding
<1>10. CASE LocalFlow(x)
  <2>1. w.pc \in Expanding
    BY <1>10 DEF LocalFlow, At, Expanding, w
  <2>2. Cites(Current(w)) \in SUBSET Works
    BY <1>2, GraphAssumption DEF Cites
  <2>3. PICK found \in {Cites(Current(w)), {}} : Put(x, Ingesting(w, "local", found))
    BY <1>10, Zenon DEF LocalFlow, w
  <2> QED
    BY <1>6, <2>1, <2>2, <2>3
<1>11. CASE LocalElsewhere(x)
  BY <1>4, <1>11 DEF LocalElsewhere, At, Expanding, w
<1>12. CASE RemoteFlow(x)
  <2> DEFINE row == [state |-> "unavailable", method |-> None, count |-> 0]
  <2>1. row \in Rows
    BY DEF Rows
  <2>2. w.pc \in Expanding
    BY <1>12 DEF RemoteFlow, At, Expanding, w
  <2>3. Cites(Current(w)) \in SUBSET Works
    BY <1>2, GraphAssumption DEF Cites
  <2>4. \/ Put(x, Ingesting(w, "provider", Cites(Current(w))))
        \/ Put(x, [w EXCEPT !.pc = "record", !.row = row])
    BY <1>12, Zenon DEF RemoteFlow, w
  <2> HIDE DEF row
  <2> QED
    BY <1>5, <1>6, <2>1, <2>2, <2>3, <2>4 DEF Expanding
<1>13. CASE Ingest(x)
  <2>1. w.pc = "ingest"
    BY <1>13 DEF Ingest, At, w
  <2>2. PICK cited \in w.todo : Put(x, [w EXCEPT !.todo = @ \ {cited}])
    BY <1>13, Zenon DEF Ingest, w
  <2> DEFINE left == w.todo \ {cited}
  <2>3. left \in SUBSET Works
    BY <1>2
  <2>4. Put(x, [w EXCEPT !.todo = left])
    BY <2>2
  <2> HIDE DEF left
  <2>5. Bounded([w EXCEPT !.todo = left])
    BY <1>1, <2>1, <2>3, StageBounded DEF Reading, Expanding
  <2> QED
    BY <2>4, <2>5
<1>14. CASE Harvest(x)
  BY <1>4, <1>14 DEF Harvest, At, Expanding, w
<1>15. CASE Fail(x)
  BY <1>1, <1>15, EndedBounded DEF Fail, w
<1>16. CASE Plan(x)
  <2> DEFINE children == edges[Current(w)]
             taken == Best(Eligible(w, children))
  <2>1. w.pc = "plan"
    BY <1>16 DEF Plan, At, w
  <2>2. PICK s \in [1..Cardinality(taken) -> taken] :
          /\ Ranked(s)
          /\ Put(x, IF w.at < Len(w.level)
                      THEN [w EXCEPT !.plan = @ \o s, !.at = @ + 1]
                      ELSE [w EXCEPT !.plan = @ \o s, !.at = 1, !.pc = "descend"])
    BY <1>16, Zenon DEF Plan, w
  <2>3. children \in SUBSET Works
    BY <1>1, <1>2
  <2>4. Bounded(IF w.at < Len(w.level)
                  THEN [w EXCEPT !.plan = @ \o s, !.at = @ + 1]
                  ELSE [w EXCEPT !.plan = @ \o s, !.at = 1, !.pc = "descend"])
    BY <1>1, <2>1, <2>2, <2>3, PlanBounded
  <2> QED
    BY <2>2, <2>4
<1>17. CASE Descend(x)
  <2>1. w.pc = "descend"
    BY <1>17 DEF Descend, At, w
  <2>2. Put(x, IF Kept(w) = <<>> THEN Ended(w, TRUE)
               ELSE [w EXCEPT !.level = Kept(w), !.plan = <<>>, !.depth = @ - 1,
                              !.cut = @ \/ Kept(w) # w.plan, !.pc = "expand"])
    BY <1>17, Zenon DEF Descend, w
  <2> QED
    BY <1>1, <2>1, <2>2, DescendBounded
<1> QED
  BY <1>7, <1>8, <1>9, <1>10, <1>11, <1>12, <1>13, <1>14, <1>15, <1>16, <1>17

(* What enters and leaves keeps all walks bounded.                          *)
LEMMA OtherBounded ==
  ASSUME TypeInv, BoundInv,
         \/ \E x \in Walks : Inline(x) \/ Background(x) \/ Acquire(x) \/ Publish(x)
         \/ \E x \in Requests : Start(x) \/ Leave(x)
         \/ \E x \in Commands : Command(x) \/ Kill(x)
         \/ Restart
  PROVE  BoundInv'
<1>1. /\ walk \in [Walks -> WalkStates]
      /\ \A y \in Walks : Bounded(walk[y])
      /\ \A ask \in UNION {Asks[y] : y \in Walks} :
           ask \in [seed: Works, depth: Nat \ {0}, refresh: BOOLEAN]
  BY BoundsAssumption DEF TypeInv, TypeOK, BoundInv
<1>2. ASSUME NEW x \in Walks, Inline(x) \/ Acquire(x) PROVE BoundInv'
  <2>1. walk[x].pc \in Reading /\ walk' = [walk EXCEPT ![x] = [walk[x] EXCEPT !.pc = "expand"]]
    BY <1>2 DEF Inline, Acquire, Put, At, Reading
  <2>2. Bounded([walk[x] EXCEPT !.pc = "expand"])
    BY <1>1, <2>1, StageBounded DEF Expanding
  <2> QED
    BY <2>1, <2>2, StepBounded
<1>3. ASSUME NEW x \in Walks, Background(x) PROVE BoundInv'
  <2> DEFINE w == walk[x]
             n == [w EXCEPT !.pc = "queued"]
             v == [n EXCEPT !.way = "job"]
  <2>1. walk' = [walk EXCEPT ![x].pc = "queued", ![x].way = "job"] /\ w.pc = "check"
    BY <1>3 DEF Background, At
  <2>2. walk' = [walk EXCEPT ![x] = v]
    BY <1>1, <2>1
  <2>3. w \in WalkStates /\ Bounded(w)
    BY <1>1
  <2> HIDE DEF w
  <2>4. n \in WalkStates /\ n.pc = "queued" /\ n.level = w.level /\ n.at = w.at
        /\ n.done = w.done /\ n.plan = w.plan /\ n.cut = w.cut
    BY <2>3 DEF WalkStates
  <2> HIDE DEF n
  <2>5. v \in WalkStates /\ v.pc = "queued" /\ v.level = w.level /\ v.at = w.at
        /\ v.done = w.done /\ v.plan = w.plan /\ v.cut = w.cut
    BY <2>4 DEF WalkStates
  <2> HIDE DEF v
  <2>6. w.pc \in Reading
    BY <2>1 DEF Reading, w
  <2>7. Bounded(v)
    BY <2>1, <2>3, <2>5, <2>6, SameBounded DEF w
  <2> QED
    BY <2>2, <2>7, StepBounded
<1>4. ASSUME NEW x \in Walks, Publish(x) \/ Leave(x) \/ Kill(x) PROVE BoundInv'
  <2>1. walk' = [walk EXCEPT ![x] = Idle]
    BY <1>4 DEF Publish, Leave, Kill
  <2>2. Bounded(Idle)
    BY <1>1, EndedBounded
  <2> QED
    BY <2>1, <2>2, StepBounded
<1>5. ASSUME NEW x \in Requests, Start(x) PROVE BoundInv'
  <2>1. PICK ask \in Asks[x] : Enter(x, ask)
    BY <1>5 DEF Start
  <2>2. ask \in [seed: Works, depth: Nat \ {0}, refresh: BOOLEAN] /\ x \in Walks
    BY <2>1, BoundsAssumption DEF Walks
  <2>3. \/ walk' = [walk EXCEPT ![x] = Begun("check", "inline", ask)]
        \/ walk' = [walk EXCEPT ![x] = Begun("queued", "job", ask)]
    BY <2>1 DEF Enter
  <2>4. Bounded(Begun("check", "inline", ask)) /\ Bounded(Begun("queued", "job", ask))
    BY <2>2, BegunBounded
  <2> QED
    BY <2>2, <2>3, <2>4, StepBounded
<1>6. ASSUME NEW x \in Commands, Command(x) PROVE BoundInv'
  <2>1. PICK ask \in Asks[x] : walk' = [walk EXCEPT ![x] = Begun("expand", "command", ask)]
    BY <1>6 DEF Command, Put
  <2>2. ask \in [seed: Works, depth: Nat \ {0}, refresh: BOOLEAN] /\ x \in Walks
    BY <2>1, BoundsAssumption DEF Walks
  <2>3. Bounded(Begun("expand", "command", ask))
    BY <2>2, BegunBounded
  <2> QED
    BY <2>1, <2>2, <2>3, StepBounded
<1>7. CASE Restart
  <2>1. \A y \in Walks : walk'[y] = Idle \/ walk'[y] = walk[y]
    BY <1>7 DEF Restart
  <2>2. \A y \in Walks : Bounded(Idle)
    BY <1>1, EndedBounded
  <2>3. \A y \in Walks : Bounded(walk'[y])
    BY <1>1, <2>1, <2>2
  <2> QED
    BY <2>3 DEF BoundInv, Bounded, Apart, Within
<1> QED
  BY <1>2, <1>3, <1>4, <1>5, <1>6, <1>7 DEF Walks

(* No walk, of whatever depth, over whatever graph and beside whatever      *)
(* others, expands a Work twice or more Works than its budget, and none is  *)
(* reported as truncated that had budget left.                              *)
THEOREM Bounds == Spec => []WalkBounded
<1>1. Init => BoundInv
  <2> SUFFICES ASSUME Init PROVE BoundInv
    OBVIOUS
  <2>1. \A x \in Walks : walk[x] = Idle /\ Idle \in WalkStates
    BY IdleType DEF Init
  <2> QED
    BY <2>1, EndedBounded DEF BoundInv
<1>2. TypeInv /\ BoundInv /\ [Next]_vars => BoundInv'
  <2> SUFFICES ASSUME TypeInv, BoundInv, [Next]_vars PROVE BoundInv'
    OBVIOUS
  <2>1. ASSUME NEW x \in Walks, Step(x) PROVE BoundInv'
    <3>1. CASE Inline(x) \/ Background(x) \/ Acquire(x) \/ Publish(x)
      BY <3>1, OtherBounded
    <3>2. CASE \/ Cached(x) \/ Missed(x) \/ CountEdges(x) \/ LocalFlow(x) \/ LocalElsewhere(x)
               \/ RemoteFlow(x) \/ Ingest(x) \/ Harvest(x) \/ Record(x) \/ Fail(x)
               \/ Plan(x) \/ Descend(x)
      BY <3>2, WorkBounded
    <3> QED
      BY <2>1, <3>1, <3>2 DEF Step
  <2>2. CASE UNCHANGED vars
    BY <2>2 DEF vars, BoundInv, Bounded, Apart, Within
  <2> QED
    BY <2>1, <2>2, OtherBounded DEF Next
<1>3. Spec => [](TypeInv /\ BoundInv)
  BY <1>1, <1>2, InitType, TypeInvInductive, PTL DEF Spec
<1>4. TypeInv /\ BoundInv => WalkBounded
  <2> SUFFICES ASSUME TypeInv, BoundInv PROVE ExpandsOnce /\ WithinBudget
    BY DEF WalkBounded
  <2>1. ASSUME NEW x \in Walks
        PROVE  /\ IsInjective(walk[x].done)
               /\ walk[x].pc \in Expanding => Current(walk[x]) \notin Range(walk[x].done)
               /\ Within(Len(walk[x].done) + Ahead(walk[x]), walk[x])
    <3> DEFINE w == walk[x]
    <3>1. /\ w \in WalkStates /\ Shape(w) /\ Bounded(w)
          /\ w.level \in Seq(Works) /\ w.done \in Seq(Works) /\ Budget \in Nat
      BY BoundsAssumption DEF TypeInv, TypeOK, BoundInv, WalkStates
    <3> HIDE DEF w
    <3>2. Len(w.done) \in Nat /\ DOMAIN w.done = 1..Len(w.done)
      BY <3>1
    <3>3. IsInjective(w.done)
      BY <3>1, <3>2 DEF Bounded, Apart, IsInjective
    <3>4. CASE w.pc \in Expanding
      <4>1. w.at \in w.at..Len(w.level) /\ Ahead(w) = Len(w.level) - w.at + 1
        BY <3>1, <3>4 DEF Shape, Working, Expanding, Ahead, WalkStates
      <4>2. Current(w) \notin Range(w.done)
        BY <3>1, <3>2, <3>4, <4>1 DEF Bounded, Reading, Current, Range
      <4>3. Within(Len(w.done) + Ahead(w), w)
        BY <3>1, <3>4, <4>1 DEF Bounded, Reading
      <4> QED
        BY <3>3, <4>2, <4>3 DEF w
    <3>5. CASE w.pc \notin Expanding
      <4>1. Ahead(w) = 0
        BY <3>5 DEF Ahead, Expanding
      <4>2. Within(Len(w.done), w)
        <5>1. CASE w.pc \in {"plan", "descend"}
          BY <3>1, <5>1 DEF Bounded
        <5>2. CASE w.pc \in {"idle", "publish"}
          BY <3>1, <5>2 DEF Bounded, Within
        <5>3. CASE w.pc \in {"check", "queued"}
          BY <3>1, <3>2, <5>3 DEF Bounded, Within, Reading, Shape, Working
        <5> QED
          BY <3>1, <3>5, <5>1, <5>2, <5>3 DEF WalkStates, Expanding
      <4>3. Len(w.done) + 0 = Len(w.done)
        BY <3>2
      <4> QED
        BY <3>3, <3>5, <4>1, <4>2, <4>3 DEF w
    <3> QED
      BY <3>4, <3>5
  <2>2. ExpandsOnce
    BY <2>1 DEF ExpandsOnce, Expanding
  <2>3. WithinBudget
    BY <2>1 DEF WithinBudget, Within
  <2> QED
    BY <2>2, <2>3
<1> QED
  BY <1>3, <1>4, PTL

-----------------------------------------------------------------------------
(* Expansion implements JobRegistry, for any graph, any walks, any bounds: *)
(* whatever a walk does between its start and its end, the registry sees   *)
(* a job that is entered, waits for the permit, works and ends.            *)

(* What JobRegistry has as its variables task and queue.                   *)
Seen == [x \in Requests |-> TaskOf(walk[x])]
Lines == [g \in {"expansion"} |-> Awaiting]

(* Who is in the queue of the semaphore: jobs, each once, of which only    *)
(* the first may work; nobody else waits.                                  *)
InLine ==
  /\ \A x \in Walks : walk[x].pc = "queued" => walk[x].way = "job"
  /\ \A i \in 1..Len(queue) :
       /\ walk[queue[i]].way = "job"
       /\ walk[queue[i]].pc = "queued" \/ (i = 1 /\ walk[queue[i]].pc \in Working)
  /\ \A i, j \in 1..Len(queue) : queue[i] = queue[j] => i = j

(* The record of one walk is replaced.                                     *)
LEMMA SeenReplaced ==
  ASSUME TypeInv, NEW x \in Walks, NEW v \in WalkStates, walk' = [walk EXCEPT ![x] = v]
  PROVE  /\ walk'[x] = v
         /\ \A y \in Walks \ {x} : walk'[y] = walk[y]
         /\ x \in Requests => Seen' = [Seen EXCEPT ![x] = TaskOf(v)]
         /\ x \notin Requests => Seen' = Seen
<1>1. walk'[x] = v /\ \A y \in Walks \ {x} : walk'[y] = walk[y]
  BY DEF TypeInv, TypeOK
<1>2. Requests \subseteq Walks
  BY DEF Walks
<1>3. Seen' = [y \in Requests |-> TaskOf(walk'[y])]
  BY DEF Seen, TaskOf
<1>4. CASE x \in Requests
  <2>1. [Seen EXCEPT ![x] = TaskOf(v)]
          = [y \in Requests |-> IF y = x THEN TaskOf(v) ELSE TaskOf(walk[y])]
    BY <1>4 DEF Seen
  <2>2. \A y \in Requests :
          TaskOf(walk'[y]) = IF y = x THEN TaskOf(v) ELSE TaskOf(walk[y])
    BY <1>1, <1>2
  <2> QED
    BY <1>1, <1>3, <1>4, <2>1, <2>2
<1>5. CASE x \notin Requests
  <2>1. \A y \in Requests : TaskOf(walk'[y]) = TaskOf(walk[y])
    BY <1>1, <1>2, <1>5
  <2> QED
    BY <1>1, <1>3, <1>5, <2>1 DEF Seen
<1> QED
  BY <1>4, <1>5

-----------------------------------------------------------------------------
(* The queue.                                                              *)

(* Who joins the queue comes after all others, for the registry as well.   *)
LEMMA Joined ==
  ASSUME TypeInv, InLine, NEW x \in Requests, NEW v \in WalkStates,
         walk' = [walk EXCEPT ![x] = v], queue' = Append(queue, x),
         v.pc = "queued", v.way = "job", walk[x].pc \in {"idle", "check"}
  PROVE  InLine' /\ Awaiting' = Append(Awaiting, x)
<1>1. x \in Walks /\ queue \in Seq(Requests) /\ Requests \subseteq Walks
  BY DEF TypeInv, TypeOK, Walks
<1>2. walk'[x] = v /\ \A y \in Walks \ {x} : walk'[y] = walk[y]
  BY <1>1, SeenReplaced
<1>3. /\ Len(queue') = Len(queue) + 1 /\ Len(queue) \in Nat
      /\ queue'[Len(queue) + 1] = x
      /\ \A i \in 1..Len(queue) : queue'[i] = queue[i]
  BY <1>1, AppendProperties
<1>4. \A i \in 1..Len(queue) : queue[i] \in Walks /\ queue[i] # x
  <2> SUFFICES ASSUME NEW i \in 1..Len(queue) PROVE queue[i] \in Walks /\ queue[i] # x
    OBVIOUS
  <2>1. queue[i] \in Requests
    BY <1>1, ElementOfSeq
  <2> QED
    BY <1>1, <2>1 DEF InLine, Working, Expanding
<1>5. InLine'
  <2>1. ASSUME NEW i \in 1..Len(queue')
        PROVE  /\ walk'[queue'[i]].way = "job"
               /\ \/ walk'[queue'[i]].pc = "queued"
                  \/ i = 1 /\ walk'[queue'[i]].pc \in Working
    <3>1. CASE i \in 1..Len(queue)
      BY <1>2, <1>3, <1>4, <3>1 DEF InLine
    <3>2. CASE i = Len(queue) + 1
      BY <1>2, <1>3, <3>2
    <3> QED
      BY <1>3, <3>1, <3>2
  <2>2. ASSUME NEW i \in 1..Len(queue'), NEW j \in 1..Len(queue'), queue'[i] = queue'[j]
        PROVE  i = j
    <3>1. CASE i \in 1..Len(queue) /\ j \in 1..Len(queue)
      BY <1>3, <2>2, <3>1 DEF InLine
    <3>2. CASE i = Len(queue) + 1 \/ j = Len(queue) + 1
      BY <1>3, <1>4, <2>2, <3>2
    <3> QED
      BY <1>3, <3>1, <3>2
  <2>3. \A y \in Walks : walk'[y].pc = "queued" => walk'[y].way = "job"
    BY <1>2 DEF InLine
  <2> QED
    BY <2>1, <2>2, <2>3 DEF InLine
<1>6. CASE queue = <<>>
  <2>1. queue' = <<x>> /\ queue' # <<>> /\ Head(queue') = x
    BY <1>6
  <2>2. Awaiting' = queue'
    BY <1>2, <2>1 DEF Awaiting, At
  <2>3. Awaiting = <<>>
    BY <1>6 DEF Awaiting
  <2> QED
    BY <1>5, <2>1, <2>2, <2>3
<1>7. CASE queue # <<>>
  <2>1. /\ queue' # <<>> /\ Head(queue') = Head(queue) /\ Head(queue) = queue[1]
        /\ Tail(queue') = Append(Tail(queue), x)
    BY <1>1, <1>7, AppendProperties, HeadTailAppend, HeadTailProperties
  <2>2. 1 \in 1..Len(queue)
    BY <1>1, <1>3, <1>7, EmptySeq
  <2>3. walk'[Head(queue)] = walk[Head(queue)]
    BY <1>2, <1>4, <2>1, <2>2
  <2>4. (~At(Head(queue), "queued"))' <=> ~At(Head(queue), "queued")
    BY <2>1, <2>3 DEF At
  <2>5. Awaiting' = IF ~At(Head(queue), "queued") THEN Tail(queue') ELSE queue'
    BY <2>1, <2>4 DEF Awaiting
  <2> QED
    BY <1>5, <1>7, <2>1, <2>5 DEF Awaiting
<1> QED
  BY <1>6, <1>7

(* A step of somebody who is not in the queue, or of the one who works,    *)
(* leaves the queue as the registry sees it.                               *)
LEMMA Stayed ==
  ASSUME TypeInv, InLine, NEW x \in Walks, NEW v \in WalkStates,
         walk' = [walk EXCEPT ![x] = v], queue' = queue, v.pc # "queued",
         \/ \A i \in 1..Len(queue) : queue[i] # x
         \/ walk[x].pc \in Working /\ v.pc \in Working /\ v.way = walk[x].way
  PROVE  InLine' /\ Awaiting' = Awaiting
<1>1. /\ queue \in Seq(Requests) /\ Requests \subseteq Walks
      /\ walk'[x] = v /\ \A y \in Walks \ {x} : walk'[y] = walk[y]
  BY SeenReplaced DEF TypeInv, TypeOK, Walks
<1>2. \A i \in 1..Len(queue) : queue[i] \in Walks
  BY <1>1, ElementOfSeq
<1>3. "queued" \notin Working
  BY DEF Working, Expanding
<1>4. InLine'
  <2>1. ASSUME NEW i \in 1..Len(queue)
        PROVE  /\ walk'[queue[i]].way = "job"
               /\ \/ walk'[queue[i]].pc = "queued"
                  \/ i = 1 /\ walk'[queue[i]].pc \in Working
    BY <1>1, <1>2, <1>3 DEF InLine
  <2>2. \A y \in Walks : walk'[y].pc = "queued" => walk'[y].way = "job"
    BY <1>1 DEF InLine
  <2> QED
    BY <2>1, <2>2 DEF InLine
<1>5. Awaiting' = Awaiting
  <2>1. CASE queue = <<>>
    BY <2>1 DEF Awaiting
  <2>2. CASE queue # <<>>
    <3>1. Head(queue) = queue[1] /\ 1 \in 1..Len(queue)
      BY <1>1, <2>2, HeadTailProperties, EmptySeq
    <3>2. walk'[Head(queue)].pc = "queued" <=> walk[Head(queue)].pc = "queued"
      BY <1>1, <1>2, <1>3, <3>1
    <3>3. At(Head(queue), "queued")' <=> At(Head(queue), "queued")
      BY <3>2 DEF At
    <3>4. Awaiting' = IF ~At(Head(queue), "queued") THEN Tail(queue) ELSE queue
      BY <2>2, <3>3 DEF Awaiting
    <3> QED
      BY <2>2, <3>4 DEF Awaiting
  <2> QED
    BY <2>1, <2>2
<1> QED
  BY <1>4, <1>5

(* The job that works is out of the queue of the registry, and stays out   *)
(* when it gives its permit back.                                          *)
LEMMA Passed ==
  ASSUME TypeInv, InLine, NEW x \in Requests, NEW v \in WalkStates,
         walk' = [walk EXCEPT ![x] = v], queue' = Tail(queue),
         walk[x].way = "job", walk[x].pc \in Working, v.pc = "publish"
  PROVE  InLine' /\ Awaiting' = Awaiting
<1>1. /\ queue \in Seq(Requests) /\ Requests \subseteq Walks /\ x \in Walks
      /\ walk'[x] = v /\ \A y \in Walks \ {x} : walk'[y] = walk[y]
      /\ queue # <<>> /\ Head(queue) = x
  BY SeenReplaced DEF TypeInv, TypeOK, Walks, Owned
<1>2. /\ Tail(queue) \in Seq(Requests) /\ Len(queue) \in Nat /\ Len(queue) >= 1
      /\ Len(Tail(queue)) = Len(queue) - 1
      /\ \A i \in 1..Len(Tail(queue)) : Tail(queue)[i] = queue[i + 1]
      /\ queue[1] = x
  BY <1>1, HeadTailProperties, EmptySeq
<1>3. \A i \in 1..Len(Tail(queue)) :
        /\ i + 1 \in 1..Len(queue) /\ i + 1 # 1
        /\ Tail(queue)[i] \in Walks /\ Tail(queue)[i] # x
  <2> SUFFICES ASSUME NEW i \in 1..Len(Tail(queue))
               PROVE  /\ i + 1 \in 1..Len(queue) /\ i + 1 # 1
                      /\ Tail(queue)[i] \in Walks /\ Tail(queue)[i] # x
    OBVIOUS
  <2>1. i + 1 \in 1..Len(queue) /\ i + 1 # 1 /\ 1 \in 1..Len(queue)
    BY <1>2
  <2>2. Tail(queue)[i] \in Walks
    BY <1>1, <1>2, ElementOfSeq
  <2>3. queue[i + 1] # queue[1]
    BY <2>1 DEF InLine
  <2> QED
    BY <1>2, <2>1, <2>2, <2>3
<1>4. \A i \in 1..Len(Tail(queue)) :
        /\ walk'[Tail(queue)[i]].way = "job"
        /\ walk'[Tail(queue)[i]].pc = "queued"
  BY <1>1, <1>2, <1>3 DEF InLine
<1>5. InLine'
  <2>1. ASSUME NEW i \in 1..Len(Tail(queue)), NEW j \in 1..Len(Tail(queue)),
               Tail(queue)[i] = Tail(queue)[j]
        PROVE  i = j
    <3>1. i + 1 = j + 1
      BY <1>2, <1>3, <2>1 DEF InLine
    <3> QED
      BY <1>2, <3>1
  <2>2. \A y \in Walks : walk'[y].pc = "queued" => walk'[y].way = "job"
    BY <1>1 DEF InLine
  <2> QED
    BY <1>4, <2>1, <2>2 DEF InLine
<1>6. Awaiting = Tail(queue)
  BY <1>1 DEF Awaiting, At, Working, Expanding
<1>7. Awaiting' = Tail(queue)
  <2>1. CASE Tail(queue) = <<>>
    BY <2>1 DEF Awaiting
  <2>2. CASE Tail(queue) # <<>>
    <3>1. Head(Tail(queue)) = Tail(queue)[1] /\ 1 \in 1..Len(Tail(queue))
      BY <1>2, <2>2, HeadTailProperties, EmptySeq
    <3>2. walk'[Head(queue')].pc = "queued"
      BY <1>4, <3>1
    <3> QED
      BY <3>2 DEF Awaiting, At
  <2> QED
    BY <2>1, <2>2
<1> QED
  BY <1>5, <1>6, <1>7

(* The first in the queue takes the permit.                                *)
LEMMA Served ==
  ASSUME TypeInv, InLine, NEW x \in Requests, NEW v \in WalkStates,
         walk' = [walk EXCEPT ![x] = v], queue' = queue, queue # <<>>, Head(queue) = x,
         walk[x].pc = "queued", v.pc = "expand", v.way = walk[x].way
  PROVE  InLine' /\ Awaiting = queue /\ Awaiting' = Tail(queue)
<1>1. /\ queue \in Seq(Requests) /\ Requests \subseteq Walks /\ x \in Walks
      /\ walk'[x] = v /\ \A y \in Walks \ {x} : walk'[y] = walk[y]
  BY SeenReplaced DEF TypeInv, TypeOK, Walks
<1>2. queue[1] = x /\ 1 \in 1..Len(queue) /\ \A i \in 1..Len(queue) : queue[i] \in Walks
  BY <1>1, HeadTailProperties, EmptySeq, ElementOfSeq
<1>3. \A i \in 1..Len(queue) : i # 1 => queue[i] # x
  BY <1>2 DEF InLine
<1>4. v.pc \in Working
  BY DEF Working, Expanding
<1>5. ASSUME NEW i \in 1..Len(queue)
      PROVE  /\ walk'[queue[i]].way = "job"
             /\ \/ walk'[queue[i]].pc = "queued"
                \/ i = 1 /\ walk'[queue[i]].pc \in Working
  BY <1>1, <1>2, <1>3, <1>4 DEF InLine
<1>6. InLine'
  <2>1. \A y \in Walks : walk'[y].pc = "queued" => walk'[y].way = "job"
    BY <1>1 DEF InLine
  <2> QED
    BY <1>5, <2>1 DEF InLine
<1>7. Awaiting = queue
  BY DEF Awaiting, At
<1>8. Awaiting' = Tail(queue)
  BY <1>1 DEF Awaiting, At
<1> QED
  BY <1>6, <1>7, <1>8

-----------------------------------------------------------------------------
(* The steps of the registry.                                              *)

(* The record of a task that has just begun.                               *)
LEMMA BegunTask ==
  ASSUME NEW t, NEW k
  PROVE  [Jobs!Idle EXCEPT !.pc = t, !.key = k] = [pc |-> t, key |-> k, ok |-> FALSE]
<1>1. PICK no : no = FALSE
  OBVIOUS
<1>2. [[pc |-> "idle", key |-> None, ok |-> no] EXCEPT !.pc = t]
        = [pc |-> t, key |-> None, ok |-> no]
  OBVIOUS
<1>3. [[pc |-> t, key |-> None, ok |-> no] EXCEPT !.key = k]
        = [pc |-> t, key |-> k, ok |-> no]
  OBVIOUS
<1> QED
  BY <1>1, <1>2, <1>3, Zenon DEF Jobs!Idle

(* The record of a task whose stage, or stage and outcome, change.         *)
LEMMA MovedTask ==
  ASSUME NEW w, NEW v, v.seed = w.seed
  PROVE  /\ TaskOf(v) = [TaskOf(w) EXCEPT !.pc = TaskOf(v).pc, !.ok = TaskOf(v).ok]
         /\ TaskOf(v).ok = TaskOf(w).ok => TaskOf(v) = [TaskOf(w) EXCEPT !.pc = TaskOf(v).pc]
<1>1. PICK s, t, k, b, o :
        TaskOf(w) = [pc |-> s, key |-> k, ok |-> b] /\ TaskOf(v) = [pc |-> t, key |-> k, ok |-> o]
  BY ZenonT(60) DEF TaskOf
<1>2. /\ TaskOf(v).pc = t /\ TaskOf(v).ok = o /\ TaskOf(w).ok = b
  BY <1>1
<1>3. [[pc |-> s, key |-> k, ok |-> b] EXCEPT !.pc = t] = [pc |-> t, key |-> k, ok |-> b]
  OBVIOUS
<1>4. [[pc |-> t, key |-> k, ok |-> b] EXCEPT !.ok = o] = [pc |-> t, key |-> k, ok |-> o]
  OBVIOUS
<1> QED
  BY <1>1, <1>2, <1>3, <1>4, Zenon

(* Who joins the queue is spawned.                                         *)
LEMMA SpawnStep ==
  ASSUME NEW x \in Requests, NEW k \in Works, Awaiting' = Append(Awaiting, x),
         Seen' = [Seen EXCEPT ![x] = [pc |-> "queued", key |-> k, ok |-> FALSE]]
  PROVE  Jobs!Spawned(x, k)
<1>1. [Jobs!Idle EXCEPT !.pc = "queued", !.key = k] = [pc |-> "queued", key |-> k, ok |-> FALSE]
  BY BegunTask
<1>2. Lines' = [Lines EXCEPT !["expansion"] = Append(@, x)]
  BY DEF Lines
<1>3. [w \in Works |-> "expansion"][k] = "expansion"
  OBVIOUS
<1> QED
  BY <1>1, <1>2, <1>3 DEF Jobs!Spawned, Lines, Seen

(* A request that is let through is a start.                               *)
LEMMA StartStep ==
  ASSUME TypeInv, InLine, NEW x \in Requests, Start(x)
  PROVE  InLine' /\ Jobs!Start(x)
<1>1. x \in Walks
  BY DEF Walks
<1>2. PICK ask \in Asks[x] : job[ask.seed] # "running" /\ Enter(x, ask)
  BY DEF Start
<1>3. ask \in [seed: Works, depth: Nat \ {0}, refresh: BOOLEAN]
  BY <1>1, <1>2, BoundsAssumption
<1>4. walk[x].pc = "idle" /\ Seen[x].pc = "idle"
  BY DEF Start, At, Seen, TaskOf
<1>5. job' = [job EXCEPT ![ask.seed] = "running"] /\ ask.seed \in Works
  BY <1>2, <1>3 DEF Enter
<1>6. ~Jobs!InFlight(x)
  BY <1>4 DEF Jobs!InFlight, Seen
<1>7. CASE Single(ask)
  <2> DEFINE v == Begun("check", "inline", ask)
  <2>1. walk' = [walk EXCEPT ![x] = v] /\ queue' = queue
    BY <1>2, <1>7 DEF Enter
  <2>2. v \in WalkStates /\ v.pc = "check" /\ v.seed = ask.seed
    BY <1>3, BegunType
  <2> HIDE DEF v
  <2>3. \A i \in 1..Len(queue) : queue[i] # x
    BY <1>4 DEF InLine, Working, Expanding
  <2>4. InLine' /\ Awaiting' = Awaiting
    BY <1>1, <2>1, <2>2, <2>3, Stayed
  <2>5. TaskOf(v) = [pc |-> "check", key |-> ask.seed, ok |-> FALSE]
    BY <2>2 DEF TaskOf
  <2>6. Seen' = [Seen EXCEPT ![x] = [pc |-> "check", key |-> ask.seed, ok |-> FALSE]]
    <3>1. Seen' = [Seen EXCEPT ![x] = TaskOf(v)]
      BY <1>1, <2>1, <2>2, SeenReplaced
    <3> QED
      BY <2>5, <3>1, Zenon
  <2>7. [Jobs!Idle EXCEPT !.pc = "check", !.key = ask.seed]
          = [pc |-> "check", key |-> ask.seed, ok |-> FALSE]
    BY BegunTask
  <2>8. [w \in Works |-> "expansion"][ask.seed] \in {"expansion"}
    BY <1>5
  <2>9. Jobs!Start(x)
    BY <1>2, <1>5, <1>6, <2>4, <2>6, <2>7, <2>8 DEF Jobs!Start, Seen
  <2> QED
    BY <2>4, <2>9
<1>8. CASE ~Single(ask)
  <2> DEFINE v == Begun("queued", "job", ask)
  <2>1. walk' = [walk EXCEPT ![x] = v] /\ queue' = Append(queue, x)
    BY <1>2, <1>8 DEF Enter
  <2>2. v \in WalkStates /\ v.pc = "queued" /\ v.way = "job" /\ v.seed = ask.seed
    BY <1>3, BegunType
  <2> HIDE DEF v
  <2>4. InLine' /\ Awaiting' = Append(Awaiting, x)
    BY <1>4, <2>1, <2>2, Joined
  <2>5. TaskOf(v) = [pc |-> "queued", key |-> ask.seed, ok |-> FALSE]
    BY <2>2 DEF TaskOf
  <2>6. Seen' = [Seen EXCEPT ![x] = [pc |-> "queued", key |-> ask.seed, ok |-> FALSE]]
    <3>1. Seen' = [Seen EXCEPT ![x] = TaskOf(v)]
      BY <1>1, <2>1, <2>2, SeenReplaced
    <3> QED
      BY <2>5, <3>1, Zenon
  <2>7. Jobs!Spawned(x, ask.seed)
    BY <1>5, <2>4, <2>6, SpawnStep
  <2>8. Jobs!Start(x)
    BY <1>2, <1>5, <1>6, <2>7 DEF Jobs!Start
  <2> QED
    BY <2>4, <2>8
<1> QED
  BY <1>7, <1>8

(* The two ways out of the look at the cache.                              *)
LEMMA CheckStep ==
  ASSUME TypeInv, InLine, NEW x \in Walks, Inline(x) \/ Background(x)
  PROVE  InLine' /\ x \in Requests /\ (Jobs!AnswerCached(x) \/ Jobs!Background(x))
<1>1. walk[x].pc = "check" /\ walk[x] \in WalkStates /\ walk[x].seed \in Works
      /\ walk[x].way = "inline" /\ UNCHANGED job
  BY DEF Inline, Background, At, TypeInv, TypeOK, Shape
<1>2. x \in Requests
  BY <1>1 DEF TypeInv, Owned, Walks, Working, Expanding
<1>3. Seen[x] = [pc |-> "check", key |-> walk[x].seed, ok |-> FALSE]
  BY <1>1, <1>2 DEF Seen, TaskOf
<1>4. CASE Inline(x)
  <2> DEFINE v == [walk[x] EXCEPT !.pc = "expand"]
  <2>1. v \in WalkStates /\ v.pc = "expand" /\ v.way = "inline" /\ v.seed = walk[x].seed
    BY <1>1 DEF WalkStates
  <2>2. walk' = [walk EXCEPT ![x] = v] /\ queue' = queue
    BY <1>4, <2>1 DEF Inline, Put
  <2> HIDE DEF v
  <2>3. \A i \in 1..Len(queue) : queue[i] # x
    BY <1>1 DEF InLine
  <2>4. InLine' /\ Awaiting' = Awaiting
    BY <2>1, <2>2, <2>3, Stayed
  <2>5. TaskOf(v) = [pc |-> "inline", key |-> walk[x].seed, ok |-> FALSE]
    BY <2>1 DEF TaskOf
  <2>6. Seen' = [Seen EXCEPT ![x] = [pc |-> "inline", key |-> walk[x].seed, ok |-> FALSE]]
    <3>1. Seen' = [Seen EXCEPT ![x] = TaskOf(v)]
      BY <1>2, <2>1, <2>2, SeenReplaced
    <3> QED
      BY <2>5, <3>1, Zenon
  <2>7. Seen' = [Seen EXCEPT ![x] = [Seen[x] EXCEPT !.pc = "inline"]]
    <3>1. Seen[x] = TaskOf(walk[x])
      BY <1>2 DEF Seen
    <3>2. TaskOf(v) = [TaskOf(walk[x]) EXCEPT !.pc = "inline"]
      BY <1>1, <2>1, <2>5, MovedTask DEF TaskOf
    <3> QED
      BY <2>5, <2>6, <3>1, <3>2, Zenon
  <2>8. Jobs!AnswerCached(x)
    <3>1. Seen[x].pc = "check"
      BY <1>3
    <3>2. UNCHANGED <<job, Lines>>
      BY <1>1, <2>4 DEF Lines
    <3> QED
      BY <2>7, <3>1, <3>2, Zenon DEF Jobs!AnswerCached, Seen, Lines
  <2> QED
    BY <1>2, <2>4, <2>8
<1>5. CASE Background(x)
  <2> DEFINE n == [walk[x] EXCEPT !.pc = "queued"]
             v == [n EXCEPT !.way = "job"]
  <2>1. walk' = [walk EXCEPT ![x] = v] /\ queue' = Append(queue, x)
    BY <1>1, <1>5 DEF Background, TypeInv, TypeOK
  <2>2. n \in WalkStates /\ n.pc = "queued" /\ n.seed = walk[x].seed
    BY <1>1 DEF WalkStates
  <2> HIDE DEF n
  <2>3. v \in WalkStates /\ v.pc = "queued" /\ v.way = "job" /\ v.seed = walk[x].seed
    BY <2>2 DEF WalkStates
  <2> HIDE DEF v
  <2>4. InLine' /\ Awaiting' = Append(Awaiting, x)
    BY <1>1, <1>2, <2>1, <2>3, Joined
  <2>5. TaskOf(v) = [pc |-> "queued", key |-> walk[x].seed, ok |-> FALSE]
    BY <2>3 DEF TaskOf
  <2>6. Seen' = [Seen EXCEPT ![x] = [pc |-> "queued", key |-> walk[x].seed, ok |-> FALSE]]
    <3>1. Seen' = [Seen EXCEPT ![x] = TaskOf(v)]
      BY <1>2, <2>1, <2>3, SeenReplaced
    <3> QED
      BY <2>5, <3>1, Zenon
  <2>7. Jobs!Spawned(x, walk[x].seed)
    BY <1>1, <1>2, <2>4, <2>6, SpawnStep
  <2>8. Jobs!Background(x)
    BY <1>1, <1>2, <1>3, <2>7 DEF Jobs!Background, Seen
  <2> QED
    BY <1>2, <2>4, <2>8
<1> QED
  BY <1>4, <1>5

(* The permit of the semaphore is the permit of the registry.              *)
LEMMA AcquireStep ==
  ASSUME TypeInv, InLine, NEW x \in Walks, Acquire(x)
  PROVE  InLine' /\ x \in Requests /\ Jobs!Acquire(x)
<1>1. /\ walk[x].pc = "queued" /\ walk[x] \in WalkStates /\ walk[x].seed \in Works
      /\ queue # <<>> /\ Head(queue) = x /\ UNCHANGED job
  BY DEF Acquire, At, TypeInv, TypeOK, Shape
<1>2. x \in Requests
  BY <1>1 DEF TypeInv, Owned, Walks, Working, Expanding
<1>3. Seen[x] = TaskOf(walk[x]) /\ Seen[x].pc = "queued" /\ Seen[x].key \in Works
  BY <1>1, <1>2 DEF Seen, TaskOf
<1> DEFINE v == [walk[x] EXCEPT !.pc = "expand"]
<1>4. v \in WalkStates /\ v.pc = "expand" /\ v.way = walk[x].way /\ v.seed = walk[x].seed
  BY <1>1 DEF WalkStates
<1>5. walk' = [walk EXCEPT ![x] = v] /\ queue' = queue
  BY <1>4 DEF Acquire, Put
<1> HIDE DEF v
<1>6. InLine' /\ Awaiting = queue /\ Awaiting' = Tail(queue)
  BY <1>1, <1>2, <1>4, <1>5, Served
<1>7. walk[x].way = "job"
  BY <1>1 DEF InLine
<1>8. TaskOf(v) = [pc |-> "working", key |-> walk[x].seed, ok |-> FALSE]
  BY <1>1, <1>4, <1>7 DEF TaskOf
<1>9. Seen' = [Seen EXCEPT ![x] = [Seen[x] EXCEPT !.pc = "working"]]
  <2>1. Seen' = [Seen EXCEPT ![x] = TaskOf(v)]
    BY <1>2, <1>4, <1>5, SeenReplaced
  <2>2. TaskOf(v) = [TaskOf(walk[x]) EXCEPT !.pc = "working"]
    <3>1. TaskOf(v).pc = "working"
      BY <1>8
    <3>2. TaskOf(v).ok = TaskOf(walk[x]).ok
      BY <1>1, <1>8 DEF TaskOf
    <3>3. TaskOf(v) = [TaskOf(walk[x]) EXCEPT !.pc = TaskOf(v).pc]
      BY <1>4, <3>2, MovedTask
    <3> QED
      BY <3>1, <3>3, Zenon
  <2> QED
    BY <1>3, <2>1, <2>2, Zenon
<1>10. Jobs!Of(x) = "expansion"
  BY <1>3 DEF Jobs!Of, Seen
<1>11. Jobs!Working("expansion") = {}
  <2> SUFFICES ASSUME NEW y \in Requests, Seen[y].pc = "working" PROVE FALSE
    BY DEF Jobs!Working, Seen
  <2>1. walk[y].way # "inline" /\ walk[y].pc \in Working
    <3>1. Seen[y] = TaskOf(walk[y]) /\ walk[y] \in WalkStates
      BY DEF Seen, TypeInv, TypeOK, Walks
    <3> QED
      BY <3>1 DEF TaskOf, WalkStates, Working, Expanding
  <2>2. walk[y].way = "job"
    BY <2>1 DEF TypeInv, Owned, Working, Expanding
  <2> QED
    BY <1>1, <2>1, <2>2 DEF TypeInv, Owned, Working, Expanding
<1>12. Lines["expansion"] = queue /\ Lines' = [Lines EXCEPT !["expansion"] = Tail(@)]
  BY <1>6 DEF Lines
<1>13. Jobs!Acquire(x)
  <2>1. Cardinality(Jobs!Working("expansion")) < 1
    BY <1>11, FS_EmptySet
  <2>2. Jobs!Cardinality(Jobs!Working("expansion")) < [g \in {"expansion"} |-> 1]["expansion"]
    BY <2>1, Zenon DEF Jobs!Cardinality, Cardinality
  <2> QED
    BY <1>1, <1>3, <1>9, <1>10, <1>12, <2>2, Zenon DEF Jobs!Acquire, Seen, Lines
<1> QED
  BY <1>2, <1>6, <1>13

(* A result is entered.                                                    *)
LEMMA PublishStep ==
  ASSUME TypeInv, InLine, NEW x \in Walks, Publish(x)
  PROVE  InLine' /\ x \in Requests /\ Jobs!PublishJob(x)
<1>1. /\ walk[x].pc = "publish" /\ walk[x] \in WalkStates /\ walk[x].seed \in Works
      /\ walk' = [walk EXCEPT ![x] = Idle] /\ UNCHANGED queue
      /\ job' = [job EXCEPT ![walk[x].seed] = IF walk[x].ok THEN "succeeded" ELSE "failed"]
  BY DEF Publish, At, TypeInv, TypeOK, Shape
<1>2. x \in Requests
  BY <1>1 DEF TypeInv, Owned, Walks, Working, Expanding
<1>3. /\ Seen[x] = TaskOf(walk[x]) /\ Seen[x].pc \in {"publish", "reply"}
      /\ Seen[x].key = walk[x].seed
  BY <1>1, <1>2 DEF Seen, TaskOf
<1>4. Seen[x].ok <=> walk[x].ok
  <2>1. TaskOf(walk[x]).ok = (walk[x].pc = "publish" /\ walk[x].ok)
    BY Zenon DEF TaskOf
  <2> QED
    BY <1>1, <1>3, <2>1, Zenon
<1>5. \A i \in 1..Len(queue) : queue[i] # x
  BY <1>1 DEF InLine, Working, Expanding
<1>6. InLine' /\ Awaiting' = Awaiting
  BY <1>1, <1>5, IdleType, Stayed
<1>7. TaskOf(Idle) = Jobs!Idle
  BY DEF TaskOf, Idle, Jobs!Idle
<1>8. Seen' = [Seen EXCEPT ![x] = Jobs!Idle]
  <2>1. Seen' = [Seen EXCEPT ![x] = TaskOf(Idle)]
    BY <1>1, <1>2, IdleType, SeenReplaced
  <2> QED
    BY <1>7, <2>1, Zenon
<1>9. job' = [job EXCEPT ![Seen[x].key] = IF Seen[x].ok THEN "succeeded" ELSE "failed"]
  BY <1>1, <1>3, <1>4, Zenon
<1>10. Lines' = Lines
  BY <1>6 DEF Lines
<1> QED
  BY <1>2, <1>3, <1>6, <1>8, <1>9, <1>10, Zenon DEF Jobs!PublishJob, Seen, Lines

(* A handler that is dropped leaves its job as it is.                      *)
LEMMA LeaveStep ==
  ASSUME TypeInv, InLine, NEW x \in Requests, Leave(x)
  PROVE  InLine' /\ Jobs!Leave(x)
<1>1. /\ walk[x].pc # "idle" /\ walk[x].way = "inline" /\ walk[x] \in WalkStates
      /\ walk' = [walk EXCEPT ![x] = Idle] /\ UNCHANGED <<queue, job>> /\ x \in Walks
  BY DEF Leave, TypeInv, TypeOK, Walks
<1>2. Seen[x] = TaskOf(walk[x])
  BY DEF Seen
<1>3. \A i \in 1..Len(queue) : queue[i] # x
  BY <1>1 DEF InLine
<1>4. InLine' /\ Awaiting' = Awaiting
  BY <1>1, <1>3, IdleType, Stayed
<1>5. walk[x].pc # "queued"
  BY <1>1 DEF InLine
<1>6. Seen[x].pc \in Jobs!Handler
  BY <1>1, <1>2, <1>5 DEF TaskOf, Jobs!Handler
<1>7. TaskOf(Idle) = Jobs!Idle
  BY DEF TaskOf, Idle, Jobs!Idle
<1>8. Seen' = [Seen EXCEPT ![x] = Jobs!Idle]
  <2>1. Seen' = [Seen EXCEPT ![x] = TaskOf(Idle)]
    BY <1>1, IdleType, SeenReplaced
  <2> QED
    BY <1>7, <2>1, Zenon
<1>9. UNCHANGED <<job, Lines>>
  BY <1>1, <1>4 DEF Lines
<1> QED
  BY <1>4, <1>6, <1>8, <1>9, Zenon DEF Jobs!Leave, Seen, Lines

-----------------------------------------------------------------------------
(* What the registry does not see.                                         *)

(* The registry sees a walk at work as a job at work, until it ends.       *)
LEMMA WorkStep ==
  ASSUME TypeInv, InLine, NEW x \in Walks, walk[x].pc \in Working, Progress(x)
  PROVE  InLine' /\ ((Jobs!End(x) /\ x \in Requests) \/ UNCHANGED <<job, Lines, Seen>>)
<1>1. PICK v : Put(x, v) /\ Follows(walk[x], v)
  BY DEF Progress
<1>2. /\ walk[x] \in WalkStates /\ v \in WalkStates /\ UNCHANGED job
      /\ walk' = [walk EXCEPT ![x] = v]
  BY <1>1 DEF TypeInv, TypeOK, Follows, Progress, Put
<1>3. CASE x \in Commands
  <2>1. x \notin Requests /\ walk[x].way = "command"
    BY <1>3, WalksAssumption DEF TypeInv, Owned
  <2>2. v.pc # "publish" /\ v.pc # "queued"
    BY <1>1, <2>1, IdleType DEF Follows, Working, Expanding
  <2>3. queue' = queue
    BY <1>1, <2>2 DEF Put
  <2>4. \A i \in 1..Len(queue) : queue[i] # x
    BY <2>1 DEF InLine
  <2>5. InLine' /\ Awaiting' = Awaiting
    BY <1>2, <2>2, <2>3, <2>4, Stayed
  <2>6. Seen' = Seen
    BY <1>2, <2>1, SeenReplaced
  <2> QED
    BY <1>2, <2>5, <2>6 DEF Lines
<1>4. CASE x \notin Commands
  <2>1. x \in Requests /\ walk[x].way \in {"inline", "job"}
    BY <1>4 DEF Walks, TypeInv, Owned, Working, Expanding
  <2>2. /\ v.pc \in Working \cup {"publish"} /\ v.way = walk[x].way /\ v.seed = walk[x].seed
    BY <1>1, <2>1 DEF Follows
  <2>3. v.pc # "queued"
    BY <2>2 DEF Working, Expanding
  <2>4. InLine' /\ Awaiting' = Awaiting
    <3>1. CASE v.pc = "publish" /\ v.way = "job"
      <4>1. queue' = Tail(queue)
        BY <1>1, <3>1 DEF Put
      <4> QED
        BY <1>2, <2>1, <2>2, <3>1, <4>1, Passed
    <3>2. CASE v.pc = "publish" /\ v.way = "inline"
      <4>1. queue' = queue
        BY <1>1, <3>2 DEF Put
      <4>2. \A i \in 1..Len(queue) : queue[i] # x
        BY <2>2, <3>2 DEF InLine
      <4> QED
        BY <1>2, <2>3, <4>1, <4>2, Stayed
    <3>3. CASE v.pc # "publish"
      <4>1. queue' = queue
        BY <1>1, <3>3 DEF Put
      <4> QED
        BY <1>2, <2>2, <2>3, <3>3, <4>1, Stayed
    <3> QED
      BY <2>1, <2>2, <3>1, <3>2, <3>3
  <2>5. Seen' = [Seen EXCEPT ![x] = TaskOf(v)] /\ Seen[x] = TaskOf(walk[x])
    BY <1>2, <2>1, SeenReplaced DEF Seen
  <2>6. UNCHANGED <<job, Lines>>
    BY <1>2, <2>4 DEF Lines
  <2>7. Seen[x].pc = IF walk[x].way = "inline" THEN "inline" ELSE "working"
    BY <2>1, <2>5 DEF TaskOf, Working, Expanding
  <2>8. CASE v.pc = "publish"
    <3>1. TaskOf(v).pc = IF Seen[x].pc = "inline" THEN "reply" ELSE "publish"
      BY <2>1, <2>2, <2>7, <2>8 DEF TaskOf
    <3>2. TaskOf(v).ok \in BOOLEAN
      BY DEF TaskOf
    <3>3. TaskOf(v) = [Seen[x] EXCEPT !.pc = TaskOf(v).pc, !.ok = TaskOf(v).ok]
      <4>1. TaskOf(v) = [TaskOf(walk[x]) EXCEPT !.pc = TaskOf(v).pc, !.ok = TaskOf(v).ok]
        BY <2>2, MovedTask
      <4> QED
        BY <2>5, <4>1, Zenon
    <3>4. Seen' = [Seen EXCEPT ![x] = [Seen[x] EXCEPT !.pc = TaskOf(v).pc, !.ok = TaskOf(v).ok]]
      BY <2>5, <3>3, Zenon
    <3>5. \E ok \in BOOLEAN : Seen' =
            [Seen EXCEPT ![x] =
              [Seen[x] EXCEPT !.pc = IF Seen[x].pc = "inline" THEN "reply" ELSE "publish",
                              !.ok = ok]]
      BY <3>1, <3>2, <3>4, Zenon
    <3>6. Seen[x].pc \in {"working", "inline"}
      BY <2>7
    <3>7. Jobs!End(x)
      BY <2>6, <3>5, <3>6, Zenon DEF Jobs!End, Seen, Lines
    <3> QED
      BY <2>1, <2>4, <3>7
  <2>9. CASE v.pc # "publish"
    <3>1. TaskOf(v) = TaskOf(walk[x])
      <4>1. TaskOf(v).ok = FALSE /\ TaskOf(walk[x]).ok = FALSE
        BY <2>9 DEF TaskOf, Working, Expanding
      <4>2. TaskOf(v).pc = TaskOf(walk[x]).pc
        BY <2>2, <2>9 DEF TaskOf, Working, Expanding
      <4> QED
        BY <2>2, <2>9 DEF TaskOf, Working, Expanding
    <3>2. Seen' = Seen
      <4>1. Seen' = [Seen EXCEPT ![x] = Seen[x]]
        BY <2>5, <3>1, Zenon
      <4> QED
        BY <2>1, <4>1 DEF Seen
    <3> QED
      BY <2>4, <2>6, <3>2
  <2> QED
    BY <2>8, <2>9
<1> QED
  BY <1>3, <1>4

(* Commands are outside of the registry.                                   *)
LEMMA CommandStep ==
  ASSUME TypeInv, InLine, NEW x \in Commands, Command(x) \/ Kill(x)
  PROVE  InLine' /\ UNCHANGED <<job, Lines, Seen>>
<1>1. x \in Walks /\ x \notin Requests /\ UNCHANGED job
  BY WalksAssumption DEF Walks, Command, Kill
<1>2. \A i \in 1..Len(queue) : queue[i] # x
  BY <1>1 DEF InLine, TypeInv, Owned
<1>3. PICK v \in WalkStates : v.pc # "queued" /\ walk' = [walk EXCEPT ![x] = v] /\ queue' = queue
  <2>1. CASE Command(x)
    <3>1. PICK ask \in Asks[x] : Put(x, Begun("expand", "command", ask))
      BY <2>1 DEF Command
    <3>2. ask \in [seed: Works, depth: Nat \ {0}, refresh: BOOLEAN]
      BY <1>1, <3>1, BoundsAssumption
    <3> DEFINE v == Begun("expand", "command", ask)
    <3>3. v \in WalkStates /\ v.pc = "expand"
      BY <3>2, BegunType
    <3> HIDE DEF v
    <3>4. Put(x, v)
      BY <3>1 DEF v
    <3> QED
      BY <3>3, <3>4 DEF Put
  <2>2. CASE Kill(x)
    BY <2>2, IdleType DEF Kill
  <2> QED
    BY <2>1, <2>2
<1>4. InLine' /\ Awaiting' = Awaiting
  BY <1>1, <1>2, <1>3, Stayed
<1>5. Seen' = Seen
  BY <1>1, <1>3, SeenReplaced
<1> QED
  BY <1>1, <1>4, <1>5 DEF Lines

(* A restart empties the registry.                                         *)
LEMMA RestartStep ==
  ASSUME TypeInv, InLine, Restart
  PROVE  InLine' /\ Jobs!Restart
<1>1. /\ \A y \in Requests : walk'[y] = Idle
      /\ \A y \in Commands : walk'[y] = walk[y]
      /\ queue' = <<>> /\ job' = [w \in Works |-> "idle"]
  BY WalksAssumption DEF Restart, Walks
<1>2. InLine'
  <2>1. \A y \in Walks : walk'[y].pc = "queued" => walk'[y].way = "job"
    BY <1>1, IdleType DEF InLine, Walks
  <2> QED
    BY <1>1, <2>1 DEF InLine
<1>3. TaskOf(Idle) = Jobs!Idle
  BY DEF TaskOf, Idle, Jobs!Idle
<1>4. Seen' = [y \in Requests |-> Jobs!Idle]
  <2>1. Seen' = [y \in Requests |-> TaskOf(walk'[y])]
    BY DEF Seen, TaskOf
  <2>2. \A y \in Requests : TaskOf(walk'[y]) = Jobs!Idle
    BY <1>1, <1>3, Zenon
  <2> QED
    BY <2>1, <2>2, Zenon
<1>5. Lines' = [g \in {"expansion"} |-> <<>>]
  BY <1>1 DEF Lines, Awaiting
<1> QED
  BY <1>1, <1>2, <1>4, <1>5, Zenon DEF Jobs!Restart, Seen, Lines

-----------------------------------------------------------------------------
(* Expansion implements JobRegistry.                                       *)

(* Every step is one of the registry, or one it does not see.              *)
LEMMA Simulates == TypeInv /\ InLine /\ [Next]_vars => InLine' /\ [Jobs!RegistryNext]_(Jobs!registryVars)
<1> SUFFICES ASSUME TypeInv, InLine, [Next]_vars PROVE InLine' /\ [Jobs!RegistryNext]_(Jobs!registryVars)
  OBVIOUS
<1>1. UNCHANGED <<job, Lines, Seen>> => UNCHANGED Jobs!registryVars
  BY Zenon DEF Jobs!registryVars, Lines, Seen
<1>2. ASSUME NEW x \in Walks, Step(x) PROVE InLine' /\ [Jobs!RegistryNext]_(Jobs!registryVars)
  <2>1. CASE Inline(x) \/ Background(x)
    BY <2>1, CheckStep DEF Jobs!RegistryNext, Jobs!Step
  <2>2. CASE Acquire(x)
    BY <2>2, AcquireStep DEF Jobs!RegistryNext, Jobs!Step
  <2>3. CASE Publish(x)
    BY <2>3, PublishStep DEF Jobs!RegistryNext, Jobs!Step
  <2>4. CASE \/ Cached(x) \/ Missed(x) \/ CountEdges(x) \/ LocalFlow(x) \/ LocalElsewhere(x)
             \/ RemoteFlow(x) \/ Ingest(x) \/ Harvest(x) \/ Record(x) \/ Fail(x)
             \/ Plan(x) \/ Descend(x)
    <3>1. walk[x].pc \in Working /\ Progress(x)
      BY <2>4, WorkProgress
    <3> QED
      BY <1>1, <3>1, WorkStep DEF Jobs!RegistryNext, Jobs!Step
  <2> QED
    BY <1>2, <2>1, <2>2, <2>3, <2>4 DEF Step
<1>3. ASSUME NEW x \in Requests, Start(x) \/ Leave(x) PROVE InLine' /\ [Jobs!RegistryNext]_(Jobs!registryVars)
  BY <1>3, StartStep, LeaveStep DEF Jobs!RegistryNext
<1>4. ASSUME NEW x \in Commands, Command(x) \/ Kill(x) PROVE InLine' /\ [Jobs!RegistryNext]_(Jobs!registryVars)
  BY <1>1, <1>4, CommandStep
<1>5. CASE Restart
  BY <1>5, RestartStep DEF Jobs!RegistryNext
<1>6. CASE UNCHANGED vars
  <2>1. InLine'
    BY <1>6 DEF vars, InLine
  <2>2. UNCHANGED <<job, Lines, Seen>>
    BY <1>6 DEF vars, Lines, Awaiting, At, Seen, TaskOf
  <2> QED
    BY <1>1, <2>1, <2>2
<1> QED
  BY <1>2, <1>3, <1>4, <1>5, <1>6 DEF Next

(* At first the registry is empty.                                         *)
LEMMA InitMaps == Init => InLine /\ Jobs!RegistryInit
<1> SUFFICES ASSUME Init PROVE InLine /\ Jobs!RegistryInit
  OBVIOUS
<1>1. \A y \in Walks : walk[y] = Idle
  BY DEF Init
<1>2. InLine
  BY <1>1, IdleType DEF InLine, Init
<1>3. TaskOf(Idle) = Jobs!Idle
  BY DEF TaskOf, Idle, Jobs!Idle
<1>4. [y \in Requests |-> TaskOf(walk[y])] = [y \in Requests |-> Jobs!Idle]
  BY <1>1, <1>3, Zenon DEF Walks
<1>5. [g \in {"expansion"} |-> Awaiting] = [g \in {"expansion"} |-> <<>>]
  BY DEF Init, Awaiting
<1> QED
  BY <1>2, <1>4, <1>5, Zenon DEF Jobs!RegistryInit, Init

(* The walks of the server keep to the protocol of the registries of jobs, *)
(* for any graph, requests, commands and bounds: what is proved of         *)
(* JobRegistry for one permit and a cache holds of the jobs of expansion.  *)
THEOREM KeepsTheRegistry == Spec => KeepsRegistry
  BY InitType, InitMaps, TypeInvInductive, Simulates, PTL DEF Spec, KeepsRegistry, Jobs!RegistrySpec
=============================================================================
