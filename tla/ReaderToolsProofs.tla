------------------------- MODULE ReaderToolsProofs -------------------------
(***************************************************************************)
(* Proofs about ReaderTools for any references, papers, tasks and          *)
(* requests.  Types hold whatever opens the data directory; the rest holds *)
(* as long as no command does so beside the server.                        *)
(***************************************************************************)
EXTENDS ReaderTools, TLAPS

(* What the record of a task at work is like.                              *)
Shape(w) ==
  /\ w.pc # "idle" => w.action \in ToolAction
  /\ w.pc = "fold" => w.at \in Refs
  /\ w.pc \in {"call", "take", "save"} /\ w.put \notin {"cut", "end"} => w.at \in Refs
  /\ w.pc \in {"resolve", "fold"} \/ w.put = "resolution" => w.action.kind = "resolve"

TypeInv ==
  /\ TypeOK
  /\ \A r \in Requests : request[r] # "idle" => draft[r] \in ReaderFiles
  /\ \A j \in Jobs : worker[j].pc = "save" => draft[j] \in ReaderFiles
  /\ \A j \in Jobs : Shape(worker[j])

(* The references a task is about, and the one it stores an answer for.    *)
Aims(w) == w.action.refs \cup w.todo \cup ({w.at} \ {None})

AtWork(w) == w.pc \in {"call", "take", "save", "fold"}

Unsettled(w) == w.todo \cup (IF AtWork(w) THEN {w.at} \ {None} ELSE {})

(* What a task at work relies on in a file.                                *)
Relies(f, w) ==
  /\ \A x \in Aims(w) : x \in Refs /\ Saved(f, x) /\ Touches(w.action, x)
  /\ w.action.kind = "resolve" =>
       /\ \A x \in Unsettled(w) : f.refs[x].resolution # "resolved"
       /\ AtWork(w) => w.at \notin w.todo
  /\ w.pc \in {"call", "take", "save"} /\ w.put = "connection" =>
       f.refs[w.at].linked = w.cited

Matched(f) ==
  \A x \in Refs : Saved(f, x) /\ f.refs[x].connection # None =>
    f.refs[x].connection = f.refs[x].linked

(* Whoever goes on to write holds the mutex.                               *)
Owner ==
  /\ \A r \in Requests : request[r] # "idle" => lock = r
  /\ \A j \in Jobs : worker[j].pc = "save" => lock = j

(* What a request writes: the file as it is, with one change.              *)
NewReference(f, g) == \E x \in Refs : ~Saved(f, x) /\ g = WithRef(f, x, Unwritten)

ChangedReference(f, g) ==
  \E x \in Refs :
    /\ Saved(f, x)
    /\ ~reference_busy(f, x)
    /\ \/ g = WithRef(f, x, None)
       \/ \E paper \in Papers : g = WithRef(f, x, LinkedTo(f.refs[x], paper))

NewTask(f, g) ==
  \E j \in Jobs, action \in ToolAction :
    /\ \A i \in Jobs : ~Running(f, i)
    /\ Startable(f, action)
    /\ g = WithJob(f, j, action)

Drafts ==
  /\ \A r \in Requests : request[r] = "save" =>
       NewReference(file, draft[r]) \/ ChangedReference(file, draft[r])
  /\ \A r \in Requests : request[r] = "start" => NewTask(file, draft[r])
  /\ \A j \in Jobs : worker[j].pc = "save" =>
       ~Missing(worker[j]) /\ draft[j] = Changed(worker[j], j)

Single(f) == \A i, j \in Jobs : Running(f, i) /\ Running(f, j) => i = j

Tasks ==
  \A j \in Jobs : InFlight(j) =>
    file.jobs[j] = worker[j].action /\ Relies(file, worker[j])

(* The invariant while no command opens the data directory.                *)
Alone ==
  /\ TypeInv
  /\ Owner
  /\ Drafts
  /\ Single(file)
  /\ Matched(file)
  /\ Tasks

(* How the record of a task may change inside the server, as long as it    *)
(* stores nothing.                                                         *)
Moves(f, w, v) ==
  /\ v \in WorkerStates
  /\ Shape(v)
  /\ v.pc \notin {"idle", "begin", "save"}
  /\ v.action = w.action
  /\ Relies(f, w) => Relies(f, v)

-----------------------------------------------------------------------------
(* The records of tasks.                                                   *)

(* The record of a task that begins.                                       *)
LEMMA StartedType ==
  ASSUME NEW action \in ToolAction
  PROVE  LET v == Started(action)
         IN  /\ v \in WorkerStates
             /\ v.pc = "begin" /\ v.action = action /\ v.put = "end" /\ v.at = None
             /\ v.todo = {}
<1> DEFINE a == [Idle EXCEPT !.pc = "begin"]
           v == [a EXCEPT !.action = action]
<1>1. Started(action) = v
  BY Zenon DEF Started
<1>2. Idle \in WorkerStates
  BY DEF Idle, WorkerStates
<1>3. Idle.put = "end" /\ Idle.at = None /\ Idle.todo = {}
  BY DEF Idle
<1>4. a \in WorkerStates /\ a.pc = "begin" /\ a.put = "end" /\ a.at = None /\ a.todo = {}
  BY <1>2, <1>3 DEF WorkerStates
<1> HIDE DEF a
<1>5. /\ v \in WorkerStates
      /\ v.pc = "begin" /\ v.action = action /\ v.put = "end" /\ v.at = None
      /\ v.todo = {}
  BY <1>4 DEF WorkerStates
<1> QED
  BY <1>1, <1>5

(* The record of a task that calls somebody.                               *)
LEMMA CallsType ==
  ASSUME NEW w \in WorkerStates,
         NEW stage \in {"cut", "candidate", "paper", "resolution", "connection"},
         NEW x \in Refs \cup {None}
  PROVE  LET v == Calls(w, stage, x)
         IN  /\ v \in WorkerStates
             /\ v.pc = "call" /\ v.action = w.action /\ v.put = stage /\ v.at = x
             /\ v.todo = w.todo
<1> DEFINE a == [w EXCEPT !.pc = "call"]
           b == [a EXCEPT !.put = stage]
           v == [b EXCEPT !.at = x]
<1>1. Calls(w, stage, x) = v
  BY Zenon DEF Calls
<1>2. /\ a \in WorkerStates /\ a.pc = "call" /\ a.action = w.action
      /\ a.todo = w.todo
  BY DEF WorkerStates
<1> HIDE DEF a
<1>3. /\ b \in WorkerStates /\ b.pc = "call" /\ b.action = w.action /\ b.put = stage
      /\ b.todo = w.todo
  BY <1>2 DEF WorkerStates
<1> HIDE DEF b
<1>4. /\ v \in WorkerStates
      /\ v.pc = "call" /\ v.action = w.action /\ v.put = stage /\ v.at = x
      /\ v.todo = w.todo
  BY <1>3 DEF WorkerStates
<1> QED
  BY <1>1, <1>4

(* The record of a task that comes to its end.                             *)
LEMMA EndsType ==
  ASSUME NEW w \in WorkerStates
  PROVE  LET v == Ends(w)
         IN  /\ v \in WorkerStates
             /\ v.pc = "take" /\ v.action = w.action /\ v.put = "end" /\ v.at = None
             /\ v.todo = w.todo
<1> DEFINE a == [w EXCEPT !.pc = "take"]
           b == [a EXCEPT !.put = "end"]
           v == [b EXCEPT !.at = None]
<1>1. Ends(w) = v
  BY Zenon DEF Ends
<1>2. a \in WorkerStates /\ a.pc = "take" /\ a.action = w.action /\ a.todo = w.todo
  BY DEF WorkerStates
<1> HIDE DEF a
<1>3. /\ b \in WorkerStates /\ b.pc = "take" /\ b.action = w.action /\ b.put = "end"
      /\ b.todo = w.todo
  BY <1>2 DEF WorkerStates
<1> HIDE DEF b
<1>4. /\ v \in WorkerStates
      /\ v.pc = "take" /\ v.action = w.action /\ v.put = "end" /\ v.at = None
      /\ v.todo = w.todo
  BY <1>3 DEF WorkerStates
<1> QED
  BY <1>1, <1>4

(* A task may come to its end at any time.                                 *)
LEMMA EndsMoves ==
  ASSUME NEW f, NEW w \in WorkerStates, Shape(w), w.pc # "idle"
  PROVE  Moves(f, w, Ends(w))
<1> DEFINE v == Ends(w)
<1>1. /\ v \in WorkerStates
      /\ v.pc = "take" /\ v.action = w.action /\ v.put = "end" /\ v.at = None
      /\ v.todo = w.todo
  BY EndsType
<1> HIDE DEF v
<1>2. Shape(v)
  BY <1>1 DEF Shape
<1>3. ASSUME Relies(f, w)
      PROVE  Relies(f, v)
  <2>1. Aims(v) \subseteq Aims(w) /\ Unsettled(v) \subseteq Unsettled(w) /\ AtWork(v)
    BY <1>1 DEF Aims, Unsettled, AtWork
  <2>2. None \notin v.todo
    BY <1>1, NoneAssumption DEF WorkerStates
  <2> QED
    BY <1>1, <1>3, <2>1, <2>2 DEF Relies
<1>4. Moves(f, w, v)
  BY <1>1, <1>2, <1>3 DEF Moves
<1> QED
  BY <1>4 DEF v

(* A task calls somebody about a reference that it was to work on anyway.  *)
LEMMA CallMoves ==
  ASSUME NEW f, NEW w \in WorkerStates, Shape(w), w.pc # "idle",
         NEW v \in WorkerStates, v.pc = "call", v.action = w.action,
         v.todo \subseteq w.todo,
         v.put \in {"cut", "candidate", "paper", "resolution"},
         v.put # "cut" => v.at \in Refs,
         v.put = "resolution" => w.action.kind = "resolve",
         Relies(f, w) =>
           /\ v.at # None => v.at \in Aims(w)
           /\ w.action.kind = "resolve" =>
                v.at \notin v.todo /\ (v.at # None => f.refs[v.at].resolution # "resolved")
  PROVE  Moves(f, w, v)
<1>1. Shape(v)
  BY DEF Shape
<1>2. ASSUME Relies(f, w)
      PROVE  Relies(f, v)
  <2>1. Aims(v) \subseteq Aims(w)
    BY <1>2 DEF Aims
  <2>2. ASSUME w.action.kind = "resolve"
        PROVE  \A y \in Unsettled(v) : f.refs[y].resolution # "resolved"
    BY <1>2, <2>2 DEF Relies, Unsettled, AtWork
  <2> QED
    BY <1>2, <2>1, <2>2 DEF Relies
<1> QED
  BY <1>1, <1>2 DEF Moves

(* A search for a reference.                                               *)
LEMMA SearchesMoves ==
  ASSUME NEW w \in WorkerStates, Shape(w), w.pc # "idle",
         NEW n \in WorkerStates, Shape(n), n.pc # "idle", n.action = w.action,
         n.todo \subseteq w.todo, NEW x \in Refs,
         Relies(file, w) => Relies(file, n),
         Relies(file, w) =>
           /\ x \in Aims(w)
           /\ w.action.kind = "resolve" =>
                x \notin n.todo /\ file.refs[x].resolution # "resolved"
  PROVE  Moves(file, w, Searches(n, x))
<1>1. CASE Saved(file, x)
  <2> DEFINE v == Calls(n, "candidate", x)
  <2>1. /\ v \in WorkerStates
        /\ v.pc = "call" /\ v.action = n.action /\ v.put = "candidate" /\ v.at = x
        /\ v.todo = n.todo
    BY Z3, CallsType
  <2> HIDE DEF v
  <2>2. Moves(file, w, v)
    BY <2>1, CallMoves, NoneAssumption
  <2> QED
    BY <1>1, <2>2 DEF Searches, v
<1>2. CASE ~Saved(file, x)
  <2>1. Moves(file, n, Ends(n))
    BY EndsMoves
  <2>2. Moves(file, w, Ends(n))
    BY <2>1 DEF Moves
  <2> QED
    BY <1>2, <2>2 DEF Searches
<1> QED
  BY <1>1, <1>2

(* The references an action names are among those it may write to.         *)
LEMMA ActionType ==
  ASSUME NEW action \in ToolAction
  PROVE  /\ action.refs \subseteq Refs
         /\ action.kind \in {"supercut", "find", "connect", "resolve"}
         /\ \A x \in action.refs : Touches(action, x)
<1>1. CASE action \in [kind: {"supercut"}, refs: {{}}]
  BY <1>1 DEF Touches
<1>2. CASE action \in [kind: {"find", "connect"}, refs: {{x} : x \in Refs}]
  BY <1>2 DEF Touches
<1>3. CASE action \in [kind: {"resolve"}, refs: SUBSET Refs]
  BY <1>3 DEF Touches
<1> QED
  BY <1>1, <1>2, <1>3 DEF ToolAction

-----------------------------------------------------------------------------
(* The steps of a task that store nothing.                                 *)

Inside(j) ==
  \/ BeginCut(j) \/ BeginFind(j) \/ BeginConnect(j) \/ BeginResolve(j)
  \/ Resolve(j) \/ Fold(j) \/ Call(j)
  \/ Missing(worker[j]) /\ TakeLock(j)

(* How such a step changes the record of its task and nothing else.        *)
Internal(j, v) ==
  /\ worker[j].pc \notin {"idle", "save"}
  /\ worker' = [worker EXCEPT ![j] = v]
  /\ Moves(file, worker[j], v)
  /\ UNCHANGED <<file, lock, draft, request>>

LEMMA RecordType ==
  ASSUME TypeInv, NEW j \in Jobs
  PROVE  /\ worker[j] \in WorkerStates /\ Shape(worker[j])
         /\ worker[j].pc # "idle" => worker[j].action \in ToolAction
         /\ file \in ReaderFiles
  BY DEF TypeInv, TypeOK, Shape

(* A task begins to search for its reference.                              *)
LEMMA BeginFindInside ==
  ASSUME TypeInv, NEW j \in Jobs, BeginFind(j)
  PROVE  \E v : Internal(j, v)
<1> DEFINE w == worker[j]
<1>1. w \in WorkerStates /\ Shape(w) /\ w.action \in ToolAction /\ w.pc = "begin"
      /\ w.action.kind = "find"
  BY RecordType DEF BeginFind
<1>2. PICK x \in w.action.refs : Put(j, Searches(w, x))
  BY DEF BeginFind
<1>3. x \in Refs
  BY <1>1, ActionType
<1> HIDE DEF w
<1>4. Relies(file, w) => x \in Aims(w)
  BY DEF Aims
<1>5. Moves(file, w, Searches(w, x))
  BY <1>1, <1>3, <1>4, SearchesMoves
<1> QED
  BY <1>1, <1>2, <1>5 DEF Internal, Put, BeginFind, w

(* A task begins to connect its reference with the paper it is linked to.  *)
LEMMA BeginConnectInside ==
  ASSUME TypeInv, NEW j \in Jobs, BeginConnect(j)
  PROVE  \E v : Internal(j, v)
<1> DEFINE w == worker[j]
<1>1. w \in WorkerStates /\ Shape(w) /\ w.action \in ToolAction /\ w.pc = "begin"
      /\ w.action.kind = "connect" /\ file \in ReaderFiles
  BY RecordType DEF BeginConnect
<1>2. PICK x \in w.action.refs :
        Put(j, IF Saved(file, x) /\ file.refs[x].linked # None
                 THEN [Calls(w, "connection", x) EXCEPT !.cited = file.refs[x].linked]
                 ELSE Ends(w))
  BY DEF BeginConnect
<1>3. x \in Refs
  BY <1>1, ActionType
<1> HIDE DEF w
<1>4. CASE Saved(file, x) /\ file.refs[x].linked # None
  <2> DEFINE c == Calls(w, "connection", x)
             v == [c EXCEPT !.cited = file.refs[x].linked]
  <2>1. /\ c \in WorkerStates
        /\ c.pc = "call" /\ c.action = w.action /\ c.put = "connection" /\ c.at = x
        /\ c.todo = w.todo
    BY Z3, <1>1, <1>3, CallsType
  <2> HIDE DEF c
  <2>2. file.refs[x].linked \in Papers \cup {None}
    BY <1>1, <1>3, <1>4 DEF ReaderFiles, SavedReference, Saved
  <2>3. /\ v \in WorkerStates
        /\ v.pc = "call" /\ v.action = w.action /\ v.put = "connection" /\ v.at = x
        /\ v.todo = w.todo /\ v.cited = file.refs[x].linked
    BY <2>1, <2>2 DEF WorkerStates
  <2> HIDE DEF v
  <2>4. Shape(v)
    BY <1>1, <1>3, <2>3 DEF Shape
  <2>5. Relies(file, w) => Relies(file, v)
    <3>1. Aims(v) \subseteq Aims(w) \cup {x} /\ x \in Aims(w)
      BY <2>3 DEF Aims
    <3> QED
      BY <1>1, <2>3, <3>1 DEF Relies
  <2>6. Moves(file, w, v)
    BY <2>3, <2>4, <2>5 DEF Moves
  <2>7. Put(j, v)
    BY <1>2, <1>4 DEF v, c
  <2> QED
    BY <1>1, <2>6, <2>7 DEF Internal, Put, BeginConnect, w
<1>5. CASE ~(Saved(file, x) /\ file.refs[x].linked # None)
  <2>1. Moves(file, w, Ends(w))
    BY <1>1, EndsMoves
  <2> QED
    BY <1>1, <1>2, <1>5, <2>1 DEF Internal, Put, BeginConnect, w
<1> QED
  BY <1>4, <1>5

(* A task begins to resolve the references that are not resolved yet.      *)
LEMMA BeginResolveInside ==
  ASSUME TypeInv, NEW j \in Jobs, BeginResolve(j)
  PROVE  \E v : Internal(j, v)
<1> DEFINE w == worker[j]
           t == Targets(w.action)
           a == [w EXCEPT !.pc = "resolve"]
           v == [a EXCEPT !.todo = t]
<1>1. w \in WorkerStates /\ Shape(w) /\ w.action \in ToolAction /\ w.pc = "begin"
      /\ w.action.kind = "resolve"
  BY RecordType DEF BeginResolve
<1>2. worker' = [worker EXCEPT ![j] = [w EXCEPT !.pc = "resolve", !.todo = t]]
      /\ UNCHANGED <<file, lock, draft, request>>
  BY DEF BeginResolve, Put
<1>3. \A x \in t : /\ x \in Refs /\ Saved(file, x) /\ Touches(w.action, x)
                   /\ file.refs[x].resolution # "resolved"
  BY DEF Targets
<1>4. [w EXCEPT !.pc = "resolve", !.todo = t] = v
  BY Zenon
<1> HIDE DEF w, t
<1>5. a \in WorkerStates /\ a.pc = "resolve" /\ a.action = w.action /\ a.put = w.put
      /\ a.at = w.at
  BY <1>1 DEF WorkerStates
<1> HIDE DEF a
<1>6. v \in WorkerStates /\ v.pc = "resolve" /\ v.action = w.action /\ v.put = w.put
      /\ v.at = w.at /\ v.todo = t
  BY <1>3, <1>5 DEF WorkerStates
<1> HIDE DEF v
<1>7. Shape(v)
  BY <1>1, <1>6 DEF Shape
<1>8. Relies(file, w) => Relies(file, v)
  <2>1. Aims(v) \subseteq Aims(w) \cup t
    BY <1>6 DEF Aims
  <2>2. Unsettled(v) = t /\ ~AtWork(v)
    BY <1>6 DEF Unsettled, AtWork
  <2> QED
    BY <1>3, <1>6, <2>1, <2>2 DEF Relies
<1>9. Moves(file, w, v)
  BY <1>6, <1>7, <1>8 DEF Moves
<1> QED
  BY <1>1, <1>2, <1>4, <1>9 DEF Internal, w

(* A task takes the next reference to resolve, or has none left.           *)
LEMMA ResolveInside ==
  ASSUME TypeInv, NEW j \in Jobs, Resolve(j)
  PROVE  \E v : Internal(j, v)
<1> DEFINE w == worker[j]
<1>1. w \in WorkerStates /\ Shape(w) /\ w.action \in ToolAction /\ w.pc = "resolve"
      /\ UNCHANGED <<file, lock, draft, request>>
  BY RecordType DEF Resolve
<1>2. CASE Put(j, Ends(w))
  <2>1. Moves(file, w, Ends(w))
    BY <1>1, EndsMoves
  <2> QED
    BY <1>1, <1>2, <2>1 DEF Internal, Put
<1>3. ASSUME NEW x \in w.todo, NEW found \in Resolutions,
             LET n == [w EXCEPT !.todo = @ \ {x}, !.found = found]
             IN  \/ Put(j, Calls(n, "resolution", x))
                 \/ /\ found = "open" /\ Cardinality(w.action.refs) = 1
                    /\ Put(j, Searches(n, x))
      PROVE  \E v : Internal(j, v)
  <2> DEFINE a == [w EXCEPT !.todo = w.todo \ {x}]
             n == [a EXCEPT !.found = found]
  <2>1. [w EXCEPT !.todo = @ \ {x}, !.found = found] = n
    BY Zenon
  <2>2. Put(j, Calls(n, "resolution", x)) \/ Put(j, Searches(n, x))
    BY <1>3, <2>1
  <2> HIDE DEF w
  <2>3. /\ a \in WorkerStates /\ a.pc = "resolve" /\ a.action = w.action /\ a.put = w.put
        /\ a.at = w.at /\ a.todo = w.todo \ {x}
    BY <1>1 DEF WorkerStates
  <2> HIDE DEF a
  <2>4. /\ n \in WorkerStates /\ n.pc = "resolve" /\ n.action = w.action /\ n.put = w.put
        /\ n.at = w.at /\ n.todo = w.todo \ {x}
    BY <2>3, <1>3 DEF WorkerStates
  <2> HIDE DEF n
  <2>5. Shape(n)
    BY <1>1, <2>4 DEF Shape
  <2>6. x \in Refs
    BY <1>1 DEF WorkerStates
  <2>7. Relies(file, w) => /\ x \in Aims(w)
                           /\ w.action.kind = "resolve" => file.refs[x].resolution # "resolved"
    BY DEF Relies, Aims, Unsettled
  <2>8. ASSUME Relies(file, w)
        PROVE  Relies(file, n)
    <3>1. Aims(n) \subseteq Aims(w) /\ Unsettled(n) \subseteq Unsettled(w) /\ ~AtWork(n)
      BY <1>1, <2>4 DEF Aims, Unsettled, AtWork
    <3> QED
      BY <2>4, <2>8, <3>1 DEF Relies
  <2>9. CASE Put(j, Searches(n, x))
    <3>1. Moves(file, w, Searches(n, x))
      BY <1>1, <2>4, <2>5, <2>6, <2>7, <2>8, SearchesMoves
    <3> QED
      BY <1>1, <2>9, <3>1 DEF Internal, Put, w
  <2>10. CASE Put(j, Calls(n, "resolution", x))
    <3> DEFINE v == Calls(n, "resolution", x)
    <3>1. /\ v \in WorkerStates
          /\ v.pc = "call" /\ v.action = n.action /\ v.put = "resolution" /\ v.at = x
          /\ v.todo = n.todo
      BY Z3, <2>4, <2>6, CallsType
    <3> HIDE DEF v
    <3>2. w.action.kind = "resolve"
      BY <1>1 DEF Shape
    <3>3. Moves(file, w, v)
      BY <1>1, <2>4, <2>6, <2>7, <3>1, <3>2, CallMoves
    <3>4. Put(j, v)
      BY <2>10 DEF v
    <3> QED
      BY <1>1, <3>3, <3>4 DEF Internal, Put, w
  <2> QED
    BY <2>2, <2>9, <2>10
<1> QED
  BY <1>2, <1>3 DEF Resolve

(* What a search found stands for the answer of the registries.            *)
LEMMA FoldInside ==
  ASSUME TypeInv, NEW j \in Jobs, Fold(j)
  PROVE  \E v : Internal(j, v)
<1> DEFINE w == worker[j]
<1>1. w \in WorkerStates /\ Shape(w) /\ w.pc = "fold" /\ w.at \in Refs
      /\ w.action.kind = "resolve" /\ UNCHANGED <<file, lock, draft, request>>
  BY RecordType DEF Fold, Shape
<1>2. CASE Put(j, Ends(w))
  <2>1. Moves(file, w, Ends(w))
    BY <1>1, EndsMoves
  <2> QED
    BY <1>1, <1>2, <2>1 DEF Internal, Put
<1>3. ASSUME NEW found \in {"resolved", w.found},
             Put(j, [Calls(w, "resolution", w.at) EXCEPT !.found = found])
      PROVE  \E v : Internal(j, v)
  <2> DEFINE c == Calls(w, "resolution", w.at)
             v == [c EXCEPT !.found = found]
  <2>1. Put(j, v)
    BY <1>3
  <2>2. found \in Resolutions \cup {None}
    BY <1>1 DEF WorkerStates, Resolutions
  <2> HIDE DEF w
  <2>3. /\ c \in WorkerStates
        /\ c.pc = "call" /\ c.action = w.action /\ c.put = "resolution" /\ c.at = w.at
        /\ c.todo = w.todo
    BY Z3T(60), <1>1, CallsType
  <2> HIDE DEF c
  <2>4. /\ v \in WorkerStates
        /\ v.pc = "call" /\ v.action = w.action /\ v.put = "resolution" /\ v.at = w.at
        /\ v.todo = w.todo
    BY <2>2, <2>3 DEF WorkerStates
  <2> HIDE DEF v
  <2>5. Relies(file, w) => /\ w.at \in Aims(w) /\ w.at \notin w.todo
                           /\ file.refs[w.at].resolution # "resolved"
    BY <1>1, NoneAssumption DEF Relies, Aims, Unsettled, AtWork
  <2>6. Moves(file, w, v)
    BY <1>1, <2>4, <2>5, CallMoves
  <2> QED
    BY <1>1, <2>1, <2>6 DEF Internal, Put, w
<1> QED
  BY <1>2, <1>3 DEF Fold

(* Somebody answers a task.                                                *)
LEMMA CallInside ==
  ASSUME TypeInv, NEW j \in Jobs, Call(j)
  PROVE  \E v : Internal(j, v)
<1> DEFINE w == worker[j]
<1>1. w \in WorkerStates /\ Shape(w) /\ w.action \in ToolAction /\ w.pc = "call"
      /\ UNCHANGED <<file, lock, draft, request>>
  BY RecordType DEF Call
<1>2. CASE Put(j, Ends(w))
  <2>1. Moves(file, w, Ends(w))
    BY <1>1, EndsMoves
  <2> QED
    BY <1>1, <1>2, <2>1 DEF Internal, Put
<1>3. ASSUME NEW paper \in IF w.put = "paper" THEN Papers ELSE {w.cited},
             Put(j, [w EXCEPT !.pc = "take", !.cited = paper])
      PROVE  \E v : Internal(j, v)
  <2> DEFINE a == [w EXCEPT !.pc = "take"]
             v == [a EXCEPT !.cited = paper]
  <2>1. [w EXCEPT !.pc = "take", !.cited = paper] = v
    BY Zenon
  <2>2. Put(j, v)
    BY <1>3, <2>1
  <2>3. paper \in Papers \cup {None} /\ (w.put = "connection" => paper = w.cited)
    BY <1>1 DEF WorkerStates
  <2> HIDE DEF w
  <2>4. /\ a \in WorkerStates /\ a.pc = "take" /\ a.action = w.action /\ a.put = w.put
        /\ a.at = w.at /\ a.todo = w.todo
    BY <1>1 DEF WorkerStates
  <2> HIDE DEF a
  <2>5. /\ v \in WorkerStates /\ v.pc = "take" /\ v.action = w.action /\ v.put = w.put
        /\ v.at = w.at /\ v.todo = w.todo /\ v.cited = paper
    BY <2>3, <2>4 DEF WorkerStates
  <2> HIDE DEF v
  <2>6. Shape(v)
    BY <1>1, <2>5 DEF Shape
  <2>7. ASSUME Relies(file, w)
        PROVE  Relies(file, v)
    <3>1. Aims(v) = Aims(w) /\ Unsettled(v) = Unsettled(w) /\ AtWork(w)
      BY <1>1, <2>5 DEF Aims, Unsettled, AtWork
    <3> QED
      BY <1>1, <2>3, <2>5, <2>7, <3>1 DEF Relies
  <2>8. Moves(file, w, v)
    BY <2>5, <2>6, <2>7 DEF Moves
  <2> QED
    BY <1>1, <2>2, <2>8 DEF Internal, Put, w
<1> QED
  BY <1>2, <1>3 DEF Call

(* Steps of a task that store nothing change its record only.              *)
LEMMA InsideStep ==
  ASSUME TypeInv, NEW j \in Jobs, Inside(j)
  PROVE  \E v : Internal(j, v)
<1> DEFINE w == worker[j]
<1>1. w \in WorkerStates /\ Shape(w)
  BY RecordType
<1>2. CASE BeginCut(j)
  <2> DEFINE v == Calls(w, "cut", None)
  <2>1. w.pc = "begin" /\ w.action.kind = "supercut" /\ Put(j, v)
        /\ UNCHANGED <<file, lock, draft, request>>
    BY <1>2 DEF BeginCut
  <2> HIDE DEF w
  <2>2. /\ v \in WorkerStates
        /\ v.pc = "call" /\ v.action = w.action /\ v.put = "cut" /\ v.at = None
        /\ v.todo = w.todo
    BY Z3, <1>1, CallsType
  <2> HIDE DEF v
  <2>3. Moves(file, w, v)
    BY <1>1, <2>1, <2>2, CallMoves
  <2> QED
    BY <2>1, <2>3 DEF Internal, Put, w
<1>3. CASE Missing(w) /\ TakeLock(j)
  <2>1. w.pc = "take" /\ Put(j, Ends(w)) /\ UNCHANGED <<file, lock, draft, request>>
    BY <1>3 DEF TakeLock
  <2>2. Moves(file, w, Ends(w))
    BY <1>1, <2>1, EndsMoves
  <2> QED
    BY <2>1, <2>2 DEF Internal, Put
<1> QED
  BY <1>2, <1>3, BeginFindInside, BeginConnectInside, BeginResolveInside, ResolveInside,
     FoldInside, CallInside DEF Inside

-----------------------------------------------------------------------------
(* The file.                                                               *)

LEMMA WithRefType ==
  ASSUME NEW f \in ReaderFiles, NEW x \in Refs, NEW v \in SavedReference \cup {None}
  PROVE  LET g == WithRef(f, x, v)
         IN  g \in ReaderFiles /\ g.refs = [f.refs EXCEPT ![x] = v] /\ g.jobs = f.jobs
  BY DEF WithRef, ReaderFiles

LEMMA WithJobType ==
  ASSUME NEW f \in ReaderFiles, NEW j \in Jobs, NEW v \in ToolAction \cup {None}
  PROVE  LET g == WithJob(f, j, v)
         IN  g \in ReaderFiles /\ g.jobs = [f.jobs EXCEPT ![j] = v] /\ g.refs = f.refs
  BY DEF WithJob, ReaderFiles

LEMMA UnwrittenType ==
  /\ Unwritten \in SavedReference
  /\ Unwritten.connection = None
  BY DEF Unwritten, SavedReference

(* A new link leaves the resolution and drops the answer.                  *)
LEMMA LinkedToType ==
  ASSUME NEW saved \in SavedReference, NEW paper \in Papers \cup {None}
  PROVE  LET v == LinkedTo(saved, paper)
         IN  /\ v \in SavedReference
             /\ v.resolution = saved.resolution /\ v.connection = None
<1> DEFINE a == [saved EXCEPT !.linked = paper]
           v == [a EXCEPT !.connection = None]
<1>1. LinkedTo(saved, paper) = v
  BY Zenon DEF LinkedTo
<1>2. a \in SavedReference /\ a.resolution = saved.resolution
  BY DEF SavedReference
<1> HIDE DEF a
<1>3. v \in SavedReference /\ v.resolution = saved.resolution /\ v.connection = None
  BY <1>2 DEF SavedReference
<1> QED
  BY <1>1, <1>3

(* What a task makes of the file, stage by stage.                          *)
Writes(w, j, g) ==
  /\ g \in ReaderFiles
  /\ g.jobs = IF w.put = "end" THEN [file.jobs EXCEPT ![j] = None] ELSE file.jobs
  /\ \/ g.refs = file.refs
     \/ /\ w.put \in {"paper", "connection", "resolution"}
        /\ w.at \in Refs
        /\ file.refs[w.at] \in SavedReference
        /\ \E v \in SavedReference :
             /\ g.refs = [file.refs EXCEPT ![w.at] = v]
             /\ w.put # "resolution" => v.resolution = file.refs[w.at].resolution
             /\ w.put = "paper" => v.connection = None
             /\ w.put = "connection" => v.connection = w.cited
             /\ w.put # "paper" => v.linked = file.refs[w.at].linked
             /\ w.put = "resolution" => v.connection = file.refs[w.at].connection

LEMMA ChangedType ==
  ASSUME TypeInv, NEW j \in Jobs, worker[j].pc \in {"take", "save"}, ~Missing(worker[j])
  PROVE  Writes(worker[j], j, Changed(worker[j], j))
<1> DEFINE w == worker[j]
           g == Changed(w, j)
           saved == file.refs[w.at]
<1>1. w \in WorkerStates /\ Shape(w) /\ file \in ReaderFiles
  BY RecordType
<1> SUFFICES Writes(w, j, g)
  OBVIOUS
<1>2. CASE w.put \in {"cut", "candidate"}
  BY <1>1, <1>2 DEF Changed, Writes
<1>3. CASE w.put = "end"
  BY <1>1, <1>3, WithJobType DEF Changed, Writes
<1>4. CASE w.put = "resolution" /\ saved = None
  BY <1>1, <1>4 DEF Changed, Writes
<1>5. CASE w.put = "resolution" /\ saved # None
  <2> DEFINE v == [saved EXCEPT !.resolution = w.found]
  <2>1. w.at \in Refs
    BY <1>1, <1>5 DEF Shape
  <2>2. saved \in SavedReference
    BY <1>1, <1>5, <2>1 DEF ReaderFiles
  <2>3. v \in SavedReference /\ v.linked = saved.linked /\ v.connection = saved.connection
    BY <1>1, <2>2 DEF SavedReference, WorkerStates
  <2>4. g = WithRef(file, w.at, v)
    BY <1>5 DEF Changed
  <2> HIDE DEF w, v
  <2>5. g \in ReaderFiles /\ g.refs = [file.refs EXCEPT ![w.at] = v] /\ g.jobs = file.jobs
    BY <1>1, <2>1, <2>3, <2>4, WithRefType
  <2> HIDE DEF g, saved
  <2>6. w.put # "end" /\ w.put \in {"paper", "connection", "resolution"}
    BY <1>5
  <2> QED
    BY <1>5, <2>1, <2>2, <2>3, <2>5, <2>6 DEF saved, Writes
<1>6. CASE w.put = "paper"
  <2> DEFINE v == LinkedTo(saved, w.cited)
  <2>1. w.at \in Refs /\ saved # None
    BY <1>1, <1>6 DEF Shape, Missing, Saved
  <2>2. saved \in SavedReference
    BY <1>1, <2>1 DEF ReaderFiles
  <2>3. w.cited \in Papers \cup {None}
    BY <1>1 DEF WorkerStates
  <2>4. v \in SavedReference /\ v.resolution = saved.resolution /\ v.connection = None
    BY <2>2, <2>3, LinkedToType
  <2>5. g = WithRef(file, w.at, v)
    BY <1>6 DEF Changed
  <2> HIDE DEF w, v
  <2>6. g \in ReaderFiles /\ g.refs = [file.refs EXCEPT ![w.at] = v] /\ g.jobs = file.jobs
    BY <1>1, <2>1, <2>4, <2>5, WithRefType
  <2> HIDE DEF g, saved
  <2>7. w.put # "end" /\ w.put \in {"paper", "connection", "resolution"}
    BY <1>6
  <2> QED
    BY <1>6, <2>1, <2>2, <2>4, <2>6, <2>7 DEF saved, Writes
<1>7. CASE w.put = "connection"
  <2> DEFINE v == [saved EXCEPT !.connection = w.cited]
  <2>1. w.at \in Refs /\ saved # None
    BY <1>1, <1>7 DEF Shape, Missing, Saved
  <2>2. saved \in SavedReference
    BY <1>1, <2>1 DEF ReaderFiles
  <2>3. /\ v \in SavedReference /\ v.linked = saved.linked /\ v.connection = w.cited
        /\ v.resolution = saved.resolution
    BY <1>1, <2>2 DEF SavedReference, WorkerStates
  <2>4. g = WithRef(file, w.at, v)
    BY <1>7 DEF Changed
  <2> HIDE DEF w, v
  <2>5. g \in ReaderFiles /\ g.refs = [file.refs EXCEPT ![w.at] = v] /\ g.jobs = file.jobs
    BY <1>1, <2>1, <2>3, <2>4, WithRefType
  <2> HIDE DEF g, saved
  <2>6. w.put # "end" /\ w.put \in {"paper", "connection", "resolution"}
    BY <1>7
  <2> QED
    BY <1>7, <2>1, <2>2, <2>3, <2>5, <2>6 DEF saved, Writes
<1> QED
  BY <1>1, <1>2, <1>3, <1>4, <1>5, <1>6, <1>7 DEF WorkerStates

-----------------------------------------------------------------------------
(* Types.                                                                  *)

(* What becomes of a task that stores something, or fails to.              *)
Onward(w, v) ==
  /\ v \in WorkerStates
  /\ Shape(v)
  /\ v.pc # "save"
  /\ \/ v = Idle
     \/ /\ w.put # "end"
        /\ v.pc \notin {"idle", "begin"}
        /\ v.action = w.action
        /\ v.todo = w.todo
        /\ v.at = w.at \/ (v.at = None /\ v.put = "end")
        /\ v.put # "connection" \/ ~AtWork(v)
        /\ AtWork(v) /\ v.at # None => w.put \in {"candidate", "paper"}

LEMMA IdleType ==
  /\ Idle \in WorkerStates
  /\ Idle.pc = "idle" /\ Idle.put = "end" /\ Idle.at = None
  /\ Shape(Idle)
<1>1. Idle \in WorkerStates
  BY DEF Idle, WorkerStates
<1>2. Idle.pc = "idle" /\ Idle.put = "end" /\ Idle.at = None
  BY DEF Idle
<1> QED
  BY <1>1, <1>2 DEF Shape

LEMMA EndsOnward ==
  ASSUME NEW w \in WorkerStates, Shape(w), w.pc = "save", w.put # "end"
  PROVE  Onward(w, Ends(w))
<1> DEFINE v == Ends(w)
<1>1. /\ v \in WorkerStates
      /\ v.pc = "take" /\ v.action = w.action /\ v.put = "end" /\ v.at = None
      /\ v.todo = w.todo
  BY EndsType
<1>2. Shape(v)
  BY EndsMoves DEF Moves
<1> HIDE DEF v
<1>3. Onward(w, v)
  BY <1>1, <1>2 DEF Onward
<1> QED
  BY <1>3 DEF v

LEMMA StoreOnward ==
  ASSUME TypeInv, NEW j \in Jobs, Store(j) \/ StoreFails(j)
  PROVE  \E v : worker' = [worker EXCEPT ![j] = v] /\ Onward(worker[j], v)
<1> DEFINE w == worker[j]
<1>1. w \in WorkerStates /\ Shape(w) /\ w.pc = "save" /\ w.action \in ToolAction
  BY RecordType DEF Store, StoreFails
<1>2. Onward(w, Idle)
  BY <1>1, IdleType DEF Onward
<1>3. w.put # "end" => Onward(w, Ends(w))
  BY <1>1, EndsOnward
<1>4. CASE Put(j, Idle)
  BY <1>2, <1>4 DEF Put
<1>5. CASE w.put # "end" /\ Put(j, Ends(w))
  BY <1>3, <1>5 DEF Put
<1>6. CASE w.put = "resolution" /\ Put(j, [w EXCEPT !.pc = "resolve"])
  <2> DEFINE v == [w EXCEPT !.pc = "resolve"]
  <2>1. Put(j, v)
    BY <1>6
  <2> HIDE DEF w
  <2>2. /\ v \in WorkerStates /\ v.pc = "resolve" /\ v.action = w.action /\ v.put = w.put
        /\ v.at = w.at /\ v.todo = w.todo
    BY <1>1 DEF WorkerStates
  <2> HIDE DEF v
  <2>3. Shape(v) /\ ~AtWork(v)
    BY <1>1, <1>6, <2>2 DEF Shape, AtWork
  <2>4. Onward(w, v)
    BY <1>6, <2>2, <2>3 DEF Onward
  <2> QED
    BY <2>1, <2>4 DEF Put, w
<1>7. CASE w.put = "candidate" /\ Put(j, Calls(w, "paper", w.at))
  <2> DEFINE v == Calls(w, "paper", w.at)
  <2>1. Put(j, v)
    BY <1>7
  <2>2. w.at \in Refs
    BY <1>1, <1>7 DEF Shape
  <2> HIDE DEF w
  <2>3. /\ v \in WorkerStates
        /\ v.pc = "call" /\ v.action = w.action /\ v.put = "paper" /\ v.at = w.at
        /\ v.todo = w.todo
    BY Z3T(60), <1>1, <2>2, CallsType
  <2> HIDE DEF v
  <2>4. Shape(v)
    BY <1>1, <2>2, <2>3 DEF Shape
  <2>5. Onward(w, v)
    BY <1>7, <2>3, <2>4 DEF Onward
  <2> QED
    BY <2>1, <2>5 DEF Put, w
<1>8. CASE /\ w.put \in {"candidate", "paper"} /\ w.action.kind = "resolve"
           /\ Put(j, [w EXCEPT !.pc = "fold"])
  <2> DEFINE v == [w EXCEPT !.pc = "fold"]
  <2>1. Put(j, v)
    BY <1>8
  <2>2. w.at \in Refs
    BY <1>1, <1>8 DEF Shape
  <2> HIDE DEF w
  <2>3. /\ v \in WorkerStates /\ v.pc = "fold" /\ v.action = w.action /\ v.put = w.put
        /\ v.at = w.at /\ v.todo = w.todo
    BY <1>1 DEF WorkerStates
  <2> HIDE DEF v
  <2>4. Shape(v)
    BY <1>1, <1>8, <2>2, <2>3 DEF Shape
  <2>5. Onward(w, v)
    BY <1>8, <2>3, <2>4 DEF Onward
  <2> QED
    BY <2>1, <2>5 DEF Put, w
<1>9. CASE w.put \in {"candidate", "paper"} /\ Put(j, Searched(w))
  BY <1>5, <1>8, <1>9 DEF Searched
<1> QED
  BY <1>4, <1>5, <1>6, <1>7, <1>9 DEF Store, StoreFails

(* What a request that is not refused goes on to write.                    *)
Asked(kind, g) ==
  \/ kind = "save" /\ (NewReference(file, g) \/ ChangedReference(file, g))
  \/ kind = "start" /\ NewTask(file, g)

LEMMA AskTaking ==
  ASSUME NEW r \in Requests, Ask(r)
  PROVE  \E kind, g : Taking(r, kind, g) /\ Asked(kind, g)
<1>1. ASSUME SaveReference(r) PROVE \E g : Taking(r, "save", g) /\ NewReference(file, g)
  BY <1>1 DEF SaveReference, NewReference
<1>2. ASSUME RemoveReference(r) PROVE \E g : Taking(r, "save", g) /\ ChangedReference(file, g)
  BY <1>2 DEF RemoveReference, ChangedReference
<1>3. ASSUME LinkReference(r) PROVE \E g : Taking(r, "save", g) /\ ChangedReference(file, g)
  BY <1>3 DEF LinkReference, ChangedReference
<1>4. ASSUME StartJob(r) PROVE \E g : Taking(r, "start", g) /\ NewTask(file, g)
  BY <1>4 DEF StartJob, NewTask
<1> QED
  BY <1>1, <1>2, <1>3, <1>4 DEF Ask, Asked

LEMMA AskedType ==
  ASSUME file \in ReaderFiles, NEW kind, NEW g, Asked(kind, g)
  PROVE  kind \in {"save", "start"} /\ g \in ReaderFiles
<1>1. ASSUME NEW x \in Refs, NEW v \in SavedReference \cup {None}
      PROVE  WithRef(file, x, v) \in ReaderFiles
  BY WithRefType
<1>2. ASSUME NewReference(file, g) PROVE g \in ReaderFiles
  <2>1. PICK x \in Refs : g = WithRef(file, x, Unwritten)
    BY <1>2 DEF NewReference
  <2> QED
    BY <1>1, <2>1, UnwrittenType
<1>3. ASSUME ChangedReference(file, g) PROVE g \in ReaderFiles
  <2>1. PICK x \in Refs :
          /\ Saved(file, x)
          /\ \/ g = WithRef(file, x, None)
             \/ \E paper \in Papers : g = WithRef(file, x, LinkedTo(file.refs[x], paper))
    BY <1>3 DEF ChangedReference
  <2>2. file.refs[x] \in SavedReference
    BY <2>1 DEF ReaderFiles, Saved
  <2>3. \A paper \in Papers : LinkedTo(file.refs[x], paper) \in SavedReference
    BY <2>2, LinkedToType
  <2> QED
    BY <1>1, <2>1, <2>3
<1>4. ASSUME NewTask(file, g) PROVE g \in ReaderFiles
  <2>1. PICK j \in Jobs, action \in ToolAction : g = WithJob(file, j, action)
    BY <1>4 DEF NewTask
  <2>2. WithJob(file, j, action) \in ReaderFiles
    BY WithJobType
  <2> QED
    BY <2>1, <2>2
<1> QED
  BY <1>2, <1>3, <1>4 DEF Asked

(* A file without running tasks.                                           *)
LEMMA FailedType ==
  ASSUME NEW f \in ReaderFiles
  PROVE  /\ Failed(f) \in ReaderFiles
         /\ Failed(f).refs = f.refs
         /\ \A j \in Jobs : ~Running(Failed(f), j)
  BY DEF Failed, ReaderFiles, Running

LEMMA InitType == Init => TypeInv
<1> SUFFICES ASSUME Init PROVE TypeInv
  OBVIOUS
<1>1. file \in ReaderFiles
  BY DEF Init, ReaderFiles
<1>2. lock = None /\ draft = [x \in Writers |-> None] /\ request = [r \in Requests |-> "idle"]
      /\ worker = [j \in Jobs |-> Idle]
  BY DEF Init
<1>3. worker \in [Jobs -> WorkerStates] /\ \A j \in Jobs : worker[j] = Idle
  BY <1>2, IdleType
<1> QED
  BY <1>1, <1>2, <1>3, IdleType DEF TypeInv, TypeOK

(* Requests keep the types.                                                *)
LEMMA RequestKeepsTypes ==
  ASSUME TypeInv, NEW r \in Requests, Ask(r) \/ Finish(r)
  PROVE  TypeInv'
<1>1. /\ file \in ReaderFiles /\ draft \in [Writers -> ReaderFiles \cup {None}]
      /\ request \in [Requests -> {"idle", "save", "start"}]
      /\ worker \in [Jobs -> WorkerStates]
      /\ \A q \in Requests : request[q] # "idle" => draft[q] \in ReaderFiles
      /\ \A j \in Jobs : worker[j].pc = "save" => draft[j] \in ReaderFiles
      /\ \A j \in Jobs : Shape(worker[j])
  BY DEF TypeInv, TypeOK
<1>2. r \in Writers /\ r \notin Jobs /\ Requests \subseteq Writers /\ Jobs \subseteq Writers
  BY WritersAssumption DEF Writers
<1>3. CASE Ask(r)
  <2>1. PICK kind, g : Taking(r, kind, g) /\ Asked(kind, g)
    BY <1>3, AskTaking
  <2>2. kind \in {"save", "start"} /\ g \in ReaderFiles
    BY <1>1, <2>1, AskedType
  <2>3. /\ request' = [request EXCEPT ![r] = kind] /\ draft' = [draft EXCEPT ![r] = g]
        /\ lock' = r /\ UNCHANGED <<file, worker>>
    BY <2>1 DEF Taking, Holds
  <2> QED
    BY <1>1, <1>2, <2>2, <2>3 DEF TypeInv, TypeOK
<1>4. CASE Finish(r)
  <2>1. /\ request' = [request EXCEPT ![r] = "idle"] /\ draft' = [draft EXCEPT ![r] = None]
        /\ lock' = None /\ draft[r] \in ReaderFiles /\ file' \in {file, draft[r]}
    BY <1>1, <1>2, <1>4 DEF Finish, Reply, Drop, Leaving
  <2>2. \A j \in Jobs :
          \/ worker'[j] = worker[j]
          \/ worker[j].pc = "idle" /\ Running(draft[r], j) /\ worker'[j] = Started(draft[r].jobs[j])
    BY <1>4 DEF Finish, Reply, Drop, InFlight
  <2>3. worker' = [j \in Jobs |-> worker'[j]]
    BY <1>1, <1>4 DEF Finish, Reply, Drop
  <2>4. \A j \in Jobs : /\ worker'[j] \in WorkerStates /\ Shape(worker'[j])
                        /\ worker'[j].pc = "save" => worker[j].pc = "save"
    <3> TAKE j \in Jobs
    <3>1. CASE worker'[j] = worker[j]
      BY <1>1, <3>1
    <3>2. CASE Running(draft[r], j) /\ worker'[j] = Started(draft[r].jobs[j])
      <4>1. draft[r].jobs[j] \in ToolAction
        BY <2>1, <3>2 DEF ReaderFiles, Running
      <4>2. /\ worker'[j] \in WorkerStates
            /\ worker'[j].pc = "begin" /\ worker'[j].action = draft[r].jobs[j]
            /\ worker'[j].put = "end"
        BY <3>2, <4>1, StartedType
      <4> QED
        BY <4>1, <4>2 DEF Shape
    <3> QED
      BY <2>2, <3>1, <3>2
  <2> QED
    BY <1>1, <1>2, <2>1, <2>3, <2>4 DEF TypeInv, TypeOK
<1> QED
  BY <1>3, <1>4

(* Tasks keep the types.                                                   *)
LEMMA JobKeepsTypes ==
  ASSUME TypeInv, NEW j \in Jobs, Step(j) \/ TakeLock(j)
  PROVE  TypeInv'
<1>1. /\ file \in ReaderFiles /\ draft \in [Writers -> ReaderFiles \cup {None}]
      /\ lock \in Requests \cup Jobs \cup {None}
      /\ request \in [Requests -> {"idle", "save", "start"}]
      /\ worker \in [Jobs -> WorkerStates]
      /\ \A q \in Requests : request[q] # "idle" => draft[q] \in ReaderFiles
      /\ \A i \in Jobs : worker[i].pc = "save" => draft[i] \in ReaderFiles
      /\ \A i \in Jobs : Shape(worker[i])
  BY DEF TypeInv, TypeOK
<1>2. j \in Writers /\ j \notin Requests /\ Requests \subseteq Writers /\ Jobs \subseteq Writers
  BY WritersAssumption DEF Writers
<1>3. CASE Inside(j)
  <2>1. PICK v : Internal(j, v)
    BY <1>3, InsideStep
  <2>2. /\ v \in WorkerStates /\ Shape(v) /\ v.pc # "save"
        /\ worker' = [worker EXCEPT ![j] = v] /\ UNCHANGED <<file, lock, draft, request>>
    BY <2>1 DEF Internal, Moves
  <2> QED
    BY <1>1, <1>2, <2>2 DEF TypeInv, TypeOK
<1>4. CASE ~Missing(worker[j]) /\ TakeLock(j)
  <2> DEFINE w == worker[j]
             g == Changed(w, j)
             v == [w EXCEPT !.pc = "save"]
  <2>1. /\ w.pc = "take" /\ draft' = [draft EXCEPT ![j] = g] /\ lock' = j
        /\ worker' = [worker EXCEPT ![j] = v] /\ UNCHANGED <<file, request>>
    BY <1>4 DEF TakeLock, Holds, Put
  <2>2. g \in ReaderFiles
    BY <1>4, <2>1, ChangedType DEF Writes
  <2>3. v \in WorkerStates /\ Shape(v)
    <3>1. w \in WorkerStates /\ Shape(w)
      BY <1>1
    <3> HIDE DEF w
    <3>2. /\ v \in WorkerStates /\ v.pc = "save" /\ v.action = w.action /\ v.put = w.put
          /\ v.at = w.at
      BY <3>1 DEF WorkerStates
    <3> HIDE DEF v
    <3> QED
      BY <2>1, <3>1, <3>2 DEF Shape
  <2> HIDE DEF g, v
  <2> QED
    BY <1>1, <1>2, <2>1, <2>2, <2>3 DEF TypeInv, TypeOK
<1>5. CASE Store(j) \/ StoreFails(j)
  <2>1. PICK v : worker' = [worker EXCEPT ![j] = v] /\ Onward(worker[j], v)
    BY <1>5, StoreOnward
  <2>2. v \in WorkerStates /\ Shape(v) /\ v.pc # "save"
    BY <2>1 DEF Onward
  <2>3. /\ worker[j].pc = "save" /\ lock' = None /\ draft' = [draft EXCEPT ![j] = None]
        /\ file' \in {file, draft[j]} /\ UNCHANGED request
    BY <1>5 DEF Store, StoreFails
  <2> QED
    BY <1>1, <1>2, <2>1, <2>2, <2>3 DEF TypeInv, TypeOK
<1> QED
  BY <1>3, <1>4, <1>5 DEF Step, Inside

(* Commands that open the data directory keep the types, and so does a     *)
(* restart.                                                                *)
LEMMA OpenKeepsTypes ==
  ASSUME TypeInv, (\E c \in Openers : Open(c) \/ Recover(c)) \/ Restart
  PROVE  TypeInv'
<1>1. /\ file \in ReaderFiles /\ draft \in [Writers -> ReaderFiles \cup {None}]
      /\ lock \in Requests \cup Jobs \cup {None}
      /\ request \in [Requests -> {"idle", "save", "start"}]
      /\ worker \in [Jobs -> WorkerStates]
      /\ \A q \in Requests : request[q] # "idle" => draft[q] \in ReaderFiles
      /\ \A i \in Jobs : worker[i].pc = "save" => draft[i] \in ReaderFiles
      /\ \A i \in Jobs : Shape(worker[i])
  BY DEF TypeInv, TypeOK
<1>2. Failed(file) \in ReaderFiles
  BY <1>1, FailedType
<1>3. ASSUME NEW c \in Openers, Open(c) \/ Recover(c) PROVE TypeInv'
  <2>1. c \in Writers /\ c \notin Requests /\ c \notin Jobs
        /\ Requests \subseteq Writers /\ Jobs \subseteq Writers
    BY WritersAssumption DEF Writers
  <2>2. UNCHANGED <<lock, request, worker>>
    BY <1>3 DEF Open, Recover
  <2>3. CASE Open(c)
    <3>1. draft' = [draft EXCEPT ![c] = Failed(file)] /\ file' = file
      BY <2>3 DEF Open
    <3> QED
      BY <1>1, <1>2, <2>1, <2>2, <3>1 DEF TypeInv, TypeOK
  <2>4. CASE Recover(c)
    <3>1. draft[c] # None /\ draft' = [draft EXCEPT ![c] = None] /\ file' = draft[c]
      BY <2>4 DEF Recover
    <3> QED
      BY <1>1, <2>1, <2>2, <3>1 DEF TypeInv, TypeOK
  <2> QED
    BY <1>3, <2>3, <2>4
<1>4. CASE Restart
  <2>1. /\ file' = Failed(file) /\ lock' = None
        /\ draft' = [x \in Writers |-> IF x \in Openers THEN draft[x] ELSE None]
        /\ request' = [r \in Requests |-> "idle"] /\ worker' = [j \in Jobs |-> Idle]
    BY <1>4 DEF Restart
  <2>2. draft' \in [Writers -> ReaderFiles \cup {None}]
    BY <1>1, <2>1
  <2>3. worker' \in [Jobs -> WorkerStates] /\ \A j \in Jobs : worker'[j] = Idle
    BY <2>1, IdleType
  <2> QED
    BY <1>2, <2>1, <2>2, <2>3, IdleType DEF TypeInv, TypeOK
<1> QED
  BY <1>3, <1>4

LEMMA TypeInvInductive == TypeInv /\ [Next]_vars => TypeInv'
<1> SUFFICES ASSUME TypeInv, [Next]_vars PROVE TypeInv'
  OBVIOUS
<1>1. CASE UNCHANGED vars
  BY <1>1 DEF vars, TypeInv, TypeOK
<1> QED
  BY <1>1, RequestKeepsTypes, JobKeepsTypes, OpenKeepsTypes DEF Next

(* The file, the mutex, what the writers hold and the records of the tasks *)
(* keep their types, whatever opens the data directory beside the server.  *)
THEOREM TypeCorrect == Spec => []TypeOK
<1>1. TypeInv => TypeOK
  BY DEF TypeInv
<1> QED
  BY <1>1, InitType, TypeInvInductive, PTL DEF Spec

-----------------------------------------------------------------------------
(* No command opens the data directory beside the server.                  *)

(* A task may rely on a file that is the same as far as it may write.      *)
LEMMA ReliesKept ==
  ASSUME NEW f, NEW g, NEW w \in WorkerStates, Shape(w), Relies(f, w),
         \A y \in Refs : Saved(f, y) /\ Touches(w.action, y) => g.refs[y] = f.refs[y]
  PROVE  Relies(g, w)
<1>1. \A y \in Aims(w) : y \in Refs /\ g.refs[y] = f.refs[y]
  BY DEF Relies
<1>2. Unsettled(w) \subseteq Aims(w)
  BY DEF Unsettled, Aims
<1>3. w.pc \in {"call", "take", "save"} /\ w.put = "connection" => w.at \in Aims(w)
  BY NoneAssumption DEF Shape, Aims
<1> QED
  BY <1>1, <1>2, <1>3 DEF Relies, Saved

(* What a request writes keeps everything that the tasks at work rely on.  *)
LEMMA RequestWrites ==
  ASSUME Alone, NEW r \in Requests, request[r] # "idle"
  PROVE  LET g == draft[r]
         IN  /\ g \in ReaderFiles /\ Single(g) /\ Matched(g)
             /\ \A j \in Jobs : InFlight(j) =>
                  g.jobs[j] = worker[j].action /\ Relies(g, worker[j])
             /\ request[r] = "start" =>
                  /\ g.refs = file.refs
                  /\ \A j \in Jobs : Running(g, j) => Startable(g, g.jobs[j])
             /\ \A y \in Refs : Saved(file, y) /\ Saved(g, y) =>
                  g.refs[y].resolution = file.refs[y].resolution
<1> DEFINE g == draft[r]
<1>1. /\ TypeInv /\ Single(file) /\ Matched(file) /\ Tasks /\ file \in ReaderFiles
      /\ g \in ReaderFiles
      /\ request[r] = "save" => NewReference(file, g) \/ ChangedReference(file, g)
      /\ request[r] = "start" => NewTask(file, g)
      /\ request[r] \in {"save", "start"}
      /\ worker \in [Jobs -> WorkerStates] /\ \A j \in Jobs : Shape(worker[j])
  BY DEF Alone, Drafts, TypeInv, TypeOK
<1> HIDE DEF g
<1> SUFFICES /\ Single(g) /\ Matched(g)
             /\ \A j \in Jobs : InFlight(j) =>
                  g.jobs[j] = worker[j].action /\ Relies(g, worker[j])
             /\ request[r] = "start" =>
                  /\ g.refs = file.refs
                  /\ \A j \in Jobs : Running(g, j) => Startable(g, g.jobs[j])
             /\ \A y \in Refs : Saved(file, y) /\ Saved(g, y) =>
                  g.refs[y].resolution = file.refs[y].resolution
  BY <1>1 DEF g
<1>2. ASSUME request[r] = "save",
             NEW x \in Refs, NEW v \in SavedReference \cup {None}, g = WithRef(file, x, v),
             v # None => v.connection = None,
             v # None /\ Saved(file, x) => v.resolution = file.refs[x].resolution,
             Saved(file, x) => ~reference_busy(file, x)
      PROVE  /\ Single(g) /\ Matched(g)
             /\ \A j \in Jobs : InFlight(j) =>
                  g.jobs[j] = worker[j].action /\ Relies(g, worker[j])
             /\ \A y \in Refs : Saved(file, y) /\ Saved(g, y) =>
                  g.refs[y].resolution = file.refs[y].resolution
  <2>1. g.refs = [file.refs EXCEPT ![x] = v] /\ g.jobs = file.jobs
    BY <1>1, <1>2, WithRefType
  <2>2. file.refs \in [Refs -> SavedReference \cup {None}]
    BY <1>1 DEF ReaderFiles
  <2>3. g.refs[x] = v /\ \A y \in Refs : y # x => g.refs[y] = file.refs[y]
    BY <2>1, <2>2
  <2>4. Single(g)
    BY <1>1, <2>1 DEF Single, Running
  <2>5. Matched(g)
    BY <1>1, <1>2, <2>3 DEF Matched, Saved
  <2>6. ASSUME NEW j \in Jobs, InFlight(j)
        PROVE  g.jobs[j] = worker[j].action /\ Relies(g, worker[j])
    <3>1. file.jobs[j] = worker[j].action /\ Relies(file, worker[j])
      BY <1>1, <2>6 DEF Tasks
    <3>2. Running(file, j)
      BY <1>1, <2>6, <3>1, RecordType, NoneAssumption DEF Running, InFlight
    <3>3. Saved(file, x) => ~Touches(worker[j].action, x)
      BY <1>2, <3>1, <3>2 DEF reference_busy
    <3>4. \A y \in Refs :
            Saved(file, y) /\ Touches(worker[j].action, y) => g.refs[y] = file.refs[y]
      BY <2>3, <3>3
    <3>5. worker[j] \in WorkerStates /\ Shape(worker[j])
      BY <1>1
    <3>6. Relies(g, worker[j])
      BY <3>1, <3>4, <3>5, ReliesKept
    <3> QED
      BY <2>1, <3>1, <3>6
  <2>7. ASSUME NEW y \in Refs, Saved(file, y), Saved(g, y)
        PROVE  g.refs[y].resolution = file.refs[y].resolution
    BY <1>2, <2>3, <2>7 DEF Saved
  <2> QED
    BY <2>4, <2>5, <2>6, <2>7
<1>3. CASE request[r] = "save" /\ NewReference(file, g)
  <2>1. PICK x \in Refs : ~Saved(file, x) /\ g = WithRef(file, x, Unwritten)
    BY <1>3 DEF NewReference
  <2> QED
    BY <1>2, <1>3, <2>1, UnwrittenType
<1>4. CASE request[r] = "save" /\ ChangedReference(file, g)
  <2>1. PICK x \in Refs :
          /\ Saved(file, x) /\ ~reference_busy(file, x)
          /\ \/ g = WithRef(file, x, None)
             \/ \E paper \in Papers : g = WithRef(file, x, LinkedTo(file.refs[x], paper))
    BY <1>4 DEF ChangedReference
  <2>2. file.refs[x] \in SavedReference
    BY <1>1, <2>1 DEF ReaderFiles, Saved
  <2>3. CASE g = WithRef(file, x, None)
    BY <1>2, <1>4, <2>1, <2>3
  <2>4. ASSUME NEW paper \in Papers, g = WithRef(file, x, LinkedTo(file.refs[x], paper))
        PROVE  /\ Single(g) /\ Matched(g)
               /\ \A j \in Jobs : InFlight(j) =>
                    g.jobs[j] = worker[j].action /\ Relies(g, worker[j])
               /\ \A y \in Refs : Saved(file, y) /\ Saved(g, y) =>
                    g.refs[y].resolution = file.refs[y].resolution
    <3> DEFINE v == LinkedTo(file.refs[x], paper)
    <3>1. v \in SavedReference /\ v.resolution = file.refs[x].resolution /\ v.connection = None
      BY <2>2, LinkedToType
    <3> HIDE DEF v
    <3>2. g = WithRef(file, x, v)
      BY <2>4 DEF v
    <3> QED
      BY <1>2, <1>4, <2>1, <3>1, <3>2
  <2> QED
    BY <1>4, <2>1, <2>3, <2>4
<1>5. CASE request[r] = "start"
  <2>1. PICK j \in Jobs, action \in ToolAction :
          /\ \A i \in Jobs : ~Running(file, i)
          /\ Startable(file, action)
          /\ g = WithJob(file, j, action)
    BY <1>1, <1>5 DEF NewTask
  <2>2. g.refs = file.refs /\ g.jobs = [file.jobs EXCEPT ![j] = action]
    BY <1>1, <2>1, WithJobType
  <2>3. file.jobs \in [Jobs -> ToolAction \cup {None}]
    BY <1>1 DEF ReaderFiles
  <2>4. \A i \in Jobs : Running(g, i) => i = j /\ g.jobs[i] = action
    BY <2>1, <2>2, <2>3 DEF Running
  <2>5. Startable(g, action)
    BY <2>1, <2>2 DEF Startable, Saved
  <2>6. \A i \in Jobs : ~InFlight(i)
    BY <1>1, <2>1, RecordType, NoneAssumption DEF Tasks, InFlight, Running
  <2>7. Single(g) /\ Matched(g)
    BY <1>1, <2>2, <2>4 DEF Single, Matched, Saved
  <2> QED
    BY <1>5, <2>2, <2>4, <2>5, <2>6, <2>7
<1> QED
  BY <1>1, <1>3, <1>4, <1>5

(* A task that goes on relies on nothing new.                              *)
LEMMA OnwardRelies ==
  ASSUME NEW f, NEW w \in WorkerStates, w.pc = "save", Relies(f, w),
         NEW v, Onward(w, v), v # Idle
  PROVE  Relies(f, v)
<1>1. /\ v \in WorkerStates /\ v.action = w.action /\ v.todo = w.todo
      /\ v.at = w.at \/ v.at = None
      /\ v.put # "connection" \/ ~AtWork(v)
  BY DEF Onward
<1>2. Aims(v) \subseteq Aims(w) /\ AtWork(w) /\ Unsettled(v) \subseteq Unsettled(w)
  BY <1>1 DEF Aims, AtWork, Unsettled
<1>3. None \notin w.todo
  BY NoneAssumption DEF WorkerStates
<1> QED
  BY <1>1, <1>2, <1>3 DEF Relies, AtWork

(* While a task works, no other does.                                      *)
LEMMA AtWorkAlone ==
  ASSUME Alone, NEW j \in Jobs, InFlight(j)
  PROVE  Running(file, j) /\ \A i \in Jobs : InFlight(i) => i = j
<1>1. \A i \in Jobs : InFlight(i) => worker[i].action \in ToolAction
  BY RecordType DEF InFlight, Alone
<1>2. \A i \in Jobs : InFlight(i) => Running(file, i)
  BY <1>1, NoneAssumption DEF Alone, Tasks, Running
<1> QED
  BY <1>2 DEF Alone, Single

(* What a task writes loses neither a reference nor a resolution, and      *)
(* keeps what the task relies on when it goes on.                          *)
Preserves(w, g) ==
  /\ g \in ReaderFiles /\ Single(g) /\ Matched(g)
  /\ w.put # "end" => g.jobs = file.jobs
  /\ \A y \in Refs : Saved(file, y) => Saved(g, y)
  /\ \A y \in Refs : Saved(file, y) /\ file.refs[y].resolution = "resolved" =>
       g.refs[y].resolution = "resolved"
  /\ \A v : Onward(w, v) /\ v # Idle => Relies(g, v)

LEMMA JobWrites ==
  ASSUME Alone, NEW j \in Jobs, worker[j].pc = "save"
  PROVE  Preserves(worker[j], draft[j])
<1> DEFINE w == worker[j]
           g == draft[j]
<1>1. /\ TypeInv /\ Single(file) /\ Matched(file) /\ file \in ReaderFiles
      /\ w \in WorkerStates /\ Shape(w) /\ w.pc = "save" /\ w.action \in ToolAction
      /\ Relies(file, w)
  BY RecordType DEF Alone, Tasks, InFlight
<1>2. Writes(w, j, g)
  BY ChangedType DEF Alone, Drafts
<1> SUFFICES Preserves(w, g)
  OBVIOUS
<1> HIDE DEF w, g
<1>3. g \in ReaderFiles /\ file.refs \in [Refs -> SavedReference \cup {None}]
      /\ file.jobs \in [Jobs -> ToolAction \cup {None}]
  BY <1>1, <1>2 DEF Writes, ReaderFiles
<1>4. Single(g) /\ (w.put # "end" => g.jobs = file.jobs)
  BY <1>1, <1>2, <1>3 DEF Writes, Single, Running
<1>5. CASE g.refs = file.refs
  <2>1. Matched(g)
    BY <1>1, <1>5 DEF Matched, Saved
  <2>2. ASSUME NEW v, Onward(w, v), v # Idle PROVE Relies(g, v)
    <3>1. Relies(file, v) /\ v \in WorkerStates /\ Shape(v)
      BY <1>1, <2>2, OnwardRelies DEF Onward
    <3>2. \A y \in Refs : g.refs[y] = file.refs[y]
      BY <1>5
    <3> QED
      BY <3>1, <3>2, ReliesKept
  <2> QED
    BY <1>3, <1>4, <1>5, <2>1, <2>2 DEF Preserves, Saved
<1>6. ASSUME w.put \in {"paper", "connection", "resolution"}, w.at \in Refs,
             file.refs[w.at] \in SavedReference,
             NEW u \in SavedReference,
             g.refs = [file.refs EXCEPT ![w.at] = u],
             w.put # "resolution" => u.resolution = file.refs[w.at].resolution,
             w.put = "paper" => u.connection = None,
             w.put = "connection" => u.connection = w.cited,
             w.put # "paper" => u.linked = file.refs[w.at].linked,
             w.put = "resolution" => u.connection = file.refs[w.at].connection
      PROVE  Preserves(w, g)
  <2>1. g.refs[w.at] = u /\ \A y \in Refs : y # w.at => g.refs[y] = file.refs[y]
    BY <1>3, <1>6
  <2>2. u # None /\ Saved(file, w.at) /\ Saved(g, w.at)
    BY <1>6, <2>1, NoneAssumption DEF Saved
  <2>3. w.put = "connection" => u.linked = w.cited
    BY <1>1, <1>6 DEF Relies
  <2>4. Matched(g)
    BY <1>1, <1>6, <2>1, <2>2, <2>3 DEF Matched, Saved
  <2>5. \A y \in Refs : Saved(file, y) => Saved(g, y)
    BY <2>1, <2>2 DEF Saved
  <2>6. w.put = "resolution" => file.refs[w.at].resolution # "resolved"
    <3>1. w.put = "resolution" => w.action.kind = "resolve" /\ w.at \in Unsettled(w)
      BY <1>1, <1>6, NoneAssumption DEF Shape, Unsettled, AtWork
    <3> QED
      BY <1>1, <3>1 DEF Relies
  <2>7. \A y \in Refs : Saved(file, y) /\ file.refs[y].resolution = "resolved" =>
          g.refs[y].resolution = "resolved"
    BY <1>6, <2>1, <2>6
  <2>8. ASSUME NEW v, Onward(w, v), v # Idle PROVE Relies(g, v)
    <3>1. /\ v \in WorkerStates /\ Shape(v) /\ v.action = w.action /\ v.todo = w.todo
          /\ v.at = w.at \/ v.at = None
          /\ v.put # "connection" \/ ~AtWork(v)
          /\ AtWork(v) /\ v.at # None => w.put = "paper"
      BY <1>6, <2>8 DEF Onward
    <3>2. Aims(v) \subseteq Aims(w) /\ AtWork(w) /\ Unsettled(v) \subseteq Unsettled(w)
      BY <1>1, <3>1 DEF Aims, AtWork, Unsettled
    <3>3. \A y \in Aims(v) : y \in Refs /\ Saved(g, y) /\ Touches(v.action, y)
      BY <1>1, <2>5, <3>1, <3>2 DEF Relies
    <3>4. v.put = "connection" => v.pc \notin {"call", "take", "save"}
      BY <3>1 DEF AtWork
    <3>5. ASSUME v.action.kind = "resolve"
          PROVE  /\ AtWork(v) => v.at \notin v.todo
                 /\ \A y \in Unsettled(v) : g.refs[y].resolution # "resolved"
      <4>1. w.at \notin w.todo /\ \A y \in Unsettled(w) : file.refs[y].resolution # "resolved"
        BY <1>1, <3>1, <3>2, <3>5 DEF Relies
      <4>2. None \notin w.todo /\ w.todo \subseteq Refs
        BY <1>1, NoneAssumption DEF WorkerStates
      <4>3. \A y \in w.todo : g.refs[y] = file.refs[y]
        BY <2>1, <4>1, <4>2
      <4>4. \A y \in w.todo : g.refs[y].resolution # "resolved"
        BY <4>1, <4>3 DEF Unsettled
      <4>5. AtWork(v) /\ v.at # None =>
              v.at = w.at /\ g.refs[w.at].resolution # "resolved"
        BY <1>6, <2>1, <3>1, <4>1, <3>2, NoneAssumption DEF Unsettled
      <4> QED
        BY <3>1, <4>1, <4>2, <4>4, <4>5 DEF Unsettled
    <3> QED
      BY <3>3, <3>4, <3>5 DEF Relies
  <2> QED
    BY <1>3, <1>4, <2>4, <2>5, <2>7, <2>8 DEF Preserves
<1> QED
  BY <1>2, <1>5, <1>6 DEF Writes

LEMMA InitAlone == Init => Alone
<1> SUFFICES ASSUME Init PROVE Alone
  OBVIOUS
<1>1. TypeInv
  BY InitType
<1>2. /\ file = [refs |-> [x \in Refs |-> None], jobs |-> [j \in Jobs |-> None]]
      /\ \A r \in Requests : request[r] = "idle"
      /\ \A j \in Jobs : worker[j].pc = "idle"
  BY IdleType DEF Init
<1>3. Owner /\ Drafts /\ Tasks
  BY <1>2 DEF Owner, Drafts, Tasks, InFlight
<1>4. Single(file) /\ Matched(file)
  BY <1>2 DEF Single, Matched, Running, Saved
<1> QED
  BY <1>1, <1>3, <1>4 DEF Alone

(* A request that takes the mutex.                                         *)
LEMMA AskAlone ==
  ASSUME Alone, TypeInv', NEW r \in Requests, Ask(r)
  PROVE  Alone'
<1>1. PICK kind, g : Taking(r, kind, g) /\ Asked(kind, g)
  BY AskTaking
<1>2. /\ request' = [request EXCEPT ![r] = kind] /\ draft' = [draft EXCEPT ![r] = g]
      /\ lock = None /\ lock' = r /\ UNCHANGED <<file, worker>>
  BY <1>1 DEF Taking, Holds, Free
<1>3. request \in [Requests -> {"idle", "save", "start"}] /\ r \in DOMAIN draft
  BY DEF Alone, TypeInv, TypeOK, Writers
<1>4. /\ \A q \in Requests : request[q] = "idle"
      /\ \A j \in Jobs : worker[j].pc # "save"
  BY <1>2, WritersAssumption DEF Alone, Owner
<1>5. /\ request'[r] = kind /\ draft'[r] = g
      /\ \A q \in Requests : q # r => request'[q] = "idle"
      /\ \A j \in Jobs : worker'[j].pc # "save"
  BY <1>2, <1>3, <1>4 DEF Alone, TypeInv, TypeOK
<1>6. Owner'
  BY <1>2, <1>5 DEF Owner
<1>7. Drafts'
  <2>1. kind = "save" => NewReference(file, g) \/ ChangedReference(file, g)
    BY <1>1 DEF Asked
  <2>2. kind = "start" => NewTask(file, g)
    BY <1>1 DEF Asked
  <2> QED
    BY <1>2, <1>5, <2>1, <2>2 DEF Drafts
<1>8. Single(file)' /\ Matched(file)'
  BY <1>2 DEF Alone, Single, Matched, Running, Saved
<1>9. Tasks'
  BY <1>2 DEF Alone, Tasks, InFlight
<1> QED
  BY <1>6, <1>7, <1>8, <1>9 DEF Alone

(* A request that ends gives the mutex back, and nobody else held it.      *)
LEMMA FinishAlone ==
  ASSUME Alone, TypeInv', NEW r \in Requests, Finish(r)
  PROVE  Alone'
<1> DEFINE g == draft[r]
<1>1. /\ request[r] # "idle" /\ request' = [request EXCEPT ![r] = "idle"]
      /\ lock' = None /\ file' \in {file, g}
  BY DEF Finish, Reply, Drop, Leaving
<1>2. /\ Single(g) /\ Matched(g)
      /\ \A j \in Jobs : InFlight(j) => g.jobs[j] = worker[j].action /\ Relies(g, worker[j])
      /\ request[r] = "start" => \A j \in Jobs : Running(g, j) => Startable(g, g.jobs[j])
      /\ g \in ReaderFiles
  BY <1>1, RequestWrites
<1>3. request \in [Requests -> {"idle", "save", "start"}]
  BY DEF Alone, TypeInv, TypeOK
<1>4. lock = r
  BY <1>1 DEF Alone, Owner
<1>5. /\ \A q \in Requests : request'[q] = "idle"
      /\ \A j \in Jobs : worker[j].pc # "save"
  BY <1>1, <1>3, <1>4, WritersAssumption DEF Alone, Owner
<1>6. \A j \in Jobs :
        \/ worker'[j] = worker[j]
        \/ /\ request[r] = "start" /\ file' = g /\ Running(g, j)
           /\ worker'[j] = Started(g.jobs[j])
  BY DEF Finish, Reply, Drop
<1> HIDE DEF g
<1>7. ASSUME NEW j \in Jobs, worker'[j] = Started(g.jobs[j]), file' = g, Running(g, j),
             request[r] = "start"
      PROVE  worker'[j].pc = "begin" /\ g.jobs[j] = worker'[j].action /\ Relies(g, worker'[j])
  <2> DEFINE v == worker'[j]
  <2>1. g.jobs[j] \in ToolAction
    BY <1>2, <1>7 DEF ReaderFiles, Running
  <2>2. v.pc = "begin" /\ v.action = g.jobs[j] /\ v.put = "end" /\ v.at = None /\ v.todo = {}
    BY <1>7, <2>1, StartedType
  <2> HIDE DEF v
  <2>3. Aims(v) = g.jobs[j].refs /\ Unsettled(v) = {} /\ ~AtWork(v)
    BY <2>2 DEF Aims, Unsettled, AtWork
  <2>4. \A x \in g.jobs[j].refs : x \in Refs /\ Touches(g.jobs[j], x) /\ Saved(g, x)
    BY <1>2, <1>7, <2>1, ActionType DEF Startable
  <2>5. Relies(g, v)
    BY <2>2, <2>3, <2>4 DEF Relies
  <2> QED
    BY <2>2, <2>5 DEF v
<1>8. \A j \in Jobs : worker'[j].pc # "save"
  BY <1>5, <1>6, <1>7
<1>9. Owner' /\ Drafts'
  BY <1>5, <1>8 DEF Owner, Drafts
<1>10. Single(file') /\ Matched(file')
  BY <1>1, <1>2 DEF Alone
<1>11. ASSUME NEW j \in Jobs, worker'[j].pc # "idle"
       PROVE  file'.jobs[j] = worker'[j].action /\ Relies(file', worker'[j])
  <2>1. CASE worker'[j] = worker[j]
    <3>1. InFlight(j)
      BY <1>11, <2>1 DEF InFlight
    <3>2. file.jobs[j] = worker[j].action /\ Relies(file, worker[j])
      BY <3>1 DEF Alone, Tasks
    <3> QED
      BY <1>1, <1>2, <2>1, <3>1, <3>2
  <2>2. CASE /\ request[r] = "start" /\ file' = g /\ Running(g, j)
             /\ worker'[j] = Started(g.jobs[j])
    BY <1>7, <2>2
  <2> QED
    BY <1>6, <2>1, <2>2
<1>12. Tasks'
  BY <1>11 DEF Tasks, InFlight
<1> QED
  BY <1>9, <1>10, <1>12 DEF Alone

(* A step of a task that stores nothing.                                   *)
LEMMA InsideAlone ==
  ASSUME Alone, TypeInv', NEW j \in Jobs, Inside(j)
  PROVE  Alone'
<1>1. PICK v : Internal(j, v)
  BY InsideStep DEF Alone
<1>2. /\ worker' = [worker EXCEPT ![j] = v] /\ UNCHANGED <<file, lock, draft, request>>
      /\ worker[j].pc # "idle" /\ v.pc # "save" /\ v.action = worker[j].action
      /\ Relies(file, worker[j]) => Relies(file, v)
  BY <1>1 DEF Internal, Moves
<1>3. worker \in [Jobs -> WorkerStates]
  BY DEF Alone, TypeInv, TypeOK
<1>4. worker'[j] = v /\ \A i \in Jobs : i # j => worker'[i] = worker[i]
  BY <1>2, <1>3
<1>5. Owner'
  BY <1>2, <1>4 DEF Alone, Owner
<1>6. Drafts'
  <2>1. ASSUME NEW i \in Jobs, worker'[i].pc = "save"
        PROVE  (~Missing(worker[i]) /\ draft[i] = Changed(worker[i], i))'
    <3>1. worker'[i] = worker[i] /\ worker[i].pc = "save"
      BY <1>2, <1>4, <2>1
    <3>2. ~Missing(worker[i]) /\ draft[i] = Changed(worker[i], i)
      BY <3>1 DEF Alone, Drafts
    <3> QED
      BY <1>2, <3>1, <3>2 DEF Missing, Changed
  <2> QED
    BY <1>2, <2>1 DEF Alone, Drafts
<1>7. Single(file)' /\ Matched(file)'
  BY <1>2 DEF Alone, Single, Matched, Running, Saved
<1>8. Tasks'
  BY <1>2, <1>4 DEF Alone, Tasks, InFlight
<1> QED
  BY <1>5, <1>6, <1>7, <1>8 DEF Alone

(* A task that takes the mutex to store something.                         *)
LEMMA TakeAlone ==
  ASSUME Alone, TypeInv', NEW j \in Jobs, ~Missing(worker[j]), TakeLock(j)
  PROVE  Alone'
<1> DEFINE w == worker[j]
           v == [w EXCEPT !.pc = "save"]
<1>1. /\ w.pc = "take" /\ lock = None /\ lock' = j
      /\ draft' = [draft EXCEPT ![j] = Changed(w, j)]
      /\ worker' = [worker EXCEPT ![j] = v] /\ UNCHANGED <<file, request>>
  BY DEF TakeLock, Holds, Free, Put
<1>2. /\ worker \in [Jobs -> WorkerStates] /\ j \in DOMAIN draft
      /\ w \in WorkerStates /\ Shape(w)
  BY DEF Alone, TypeInv, TypeOK, Writers
<1>3. /\ \A q \in Requests : request[q] = "idle"
      /\ \A i \in Jobs : worker[i].pc # "save"
  BY <1>1, WritersAssumption DEF Alone, Owner
<1>4. /\ worker'[j] = v /\ \A i \in Jobs : i # j => worker'[i] = worker[i]
      /\ draft'[j] = Changed(w, j)
  BY <1>1, <1>2
<1>5. file.jobs[j] = w.action /\ Relies(file, w)
  BY <1>1 DEF Alone, Tasks, InFlight
<1>6. ~Missing(w)
  OBVIOUS
<1> HIDE DEF w
<1>7. /\ v.pc = "save" /\ v.action = w.action /\ v.put = w.put /\ v.at = w.at
      /\ v.todo = w.todo /\ v.cited = w.cited /\ v.found = w.found
  BY <1>2 DEF WorkerStates
<1> HIDE DEF v
<1>8. Changed(v, j) = Changed(w, j) /\ ~Missing(v)
  BY <1>6, <1>7 DEF Changed, Missing
<1>9. Relies(file, v)
  <2>1. Aims(v) = Aims(w) /\ Unsettled(v) = Unsettled(w) /\ AtWork(w)
    BY <1>1, <1>7 DEF Aims, Unsettled, AtWork
  <2> QED
    BY <1>1, <1>5, <1>7, <2>1 DEF Relies
<1>10. Owner'
  BY <1>1, <1>3, <1>4 DEF Owner
<1>11. Drafts'
  <2>1. (~Missing(worker[j]) /\ draft[j] = Changed(worker[j], j))'
    <3>1. ~Missing(v) /\ draft'[j] = Changed(v, j) /\ worker'[j] = v /\ file' = file
      BY <1>1, <1>4, <1>8
    <3> QED
      BY <3>1 DEF Missing, Changed
  <2> QED
    BY <1>1, <1>3, <1>4, <2>1 DEF Drafts
<1>12. Single(file)' /\ Matched(file)'
  BY <1>1 DEF Alone, Single, Matched, Running, Saved
<1>13. Tasks'
  BY <1>1, <1>4, <1>5, <1>7, <1>9 DEF Alone, Tasks, InFlight
<1> QED
  BY <1>10, <1>11, <1>12, <1>13 DEF Alone

(* A task that stores something or fails to gives the mutex back.          *)
LEMMA StoreAlone ==
  ASSUME Alone, TypeInv', NEW j \in Jobs, Store(j) \/ StoreFails(j)
  PROVE  Alone'
<1> DEFINE w == worker[j]
           g == draft[j]
<1>1. w.pc = "save" /\ lock' = None /\ file' \in {file, g} /\ UNCHANGED request
  BY DEF Store, StoreFails
<1>2. PICK v : worker' = [worker EXCEPT ![j] = v] /\ Onward(w, v)
  BY StoreOnward DEF Alone
<1>3. Preserves(w, g)
  BY <1>1, JobWrites
<1>4. \A i \in Jobs : InFlight(i) => i = j
  BY <1>1, AtWorkAlone DEF InFlight
<1>5. worker \in [Jobs -> WorkerStates]
  BY DEF Alone, TypeInv, TypeOK
<1>6. worker'[j] = v /\ v.pc # "save" /\ \A i \in Jobs : i # j => worker'[i].pc = "idle"
  BY <1>2, <1>4, <1>5 DEF Onward, InFlight
<1>7. lock = j /\ \A q \in Requests : request[q] = "idle"
  BY <1>1, WritersAssumption DEF Alone, Owner, TypeInv, TypeOK
<1>8. Owner' /\ Drafts'
  BY <1>1, <1>6, <1>7 DEF Owner, Drafts
<1>9. Single(file') /\ Matched(file')
  BY <1>1, <1>3 DEF Alone, Preserves
<1>10. ASSUME v.pc # "idle"
       PROVE  file'.jobs[j] = v.action /\ Relies(file', v)
  <2>1. v # Idle /\ w.put # "end" /\ v.action = w.action
    BY <1>2, <1>10, IdleType DEF Onward
  <2>2. file.jobs[j] = w.action
    BY <1>1 DEF Alone, Tasks, InFlight
  <2>3. g.jobs = file.jobs /\ Relies(g, v)
    BY <1>2, <1>3, <2>1 DEF Preserves
  <2>4. Relies(file, v)
    <3>1. w \in WorkerStates /\ Relies(file, w)
      BY <1>1, <1>5 DEF Alone, Tasks, InFlight
    <3> QED
      BY <1>1, <1>2, <2>1, <3>1, OnwardRelies
  <2> QED
    BY <1>1, <2>1, <2>2, <2>3, <2>4
<1>11. Tasks'
  BY <1>6, <1>10 DEF Tasks, InFlight
<1> QED
  BY <1>8, <1>9, <1>11 DEF Alone

LEMMA RestartAlone ==
  ASSUME Alone, TypeInv', Restart
  PROVE  Alone'
<1>1. /\ file' = Failed(file) /\ request' = [r \in Requests |-> "idle"]
      /\ worker' = [j \in Jobs |-> Idle]
  BY DEF Restart
<1>2. file \in ReaderFiles
  BY DEF Alone, TypeInv, TypeOK
<1>3. file'.refs = file.refs /\ \A j \in Jobs : ~Running(file', j)
  BY <1>1, <1>2, FailedType
<1>4. \A j \in Jobs : worker'[j].pc = "idle"
  BY <1>1, IdleType
<1>5. Owner' /\ Drafts' /\ Tasks'
  BY <1>1, <1>4 DEF Owner, Drafts, Tasks, InFlight
<1>6. Single(file') /\ Matched(file')
  BY <1>3 DEF Alone, Single, Matched, Saved
<1> QED
  BY <1>5, <1>6 DEF Alone

LEMMA AloneInductive ==
  ASSUME Openers = {}
  PROVE  Alone /\ [Next]_vars => Alone'
<1> SUFFICES ASSUME Alone, [Next]_vars PROVE Alone'
  OBVIOUS
<1>1. TypeInv'
  BY TypeInvInductive DEF Alone
<1>2. CASE UNCHANGED vars
  <2>1. Owner' /\ Tasks' /\ Single(file)' /\ Matched(file)'
    BY <1>2 DEF vars, Alone, Owner, Tasks, Single, Matched, InFlight, Running, Saved
  <2>2. Drafts'
    BY <1>2 DEF vars, Alone, Drafts, Missing, Changed
  <2> QED
    BY <1>1, <2>1, <2>2 DEF Alone
<1>3. ASSUME NEW r \in Requests, Ask(r) \/ Finish(r) PROVE Alone'
  BY <1>1, <1>3, AskAlone, FinishAlone
<1>4. ASSUME NEW j \in Jobs, Step(j) \/ TakeLock(j) PROVE Alone'
  BY <1>1, <1>4, InsideAlone, TakeAlone, StoreAlone DEF Step, Inside
<1> QED
  BY <1>1, <1>2, <1>3, <1>4, RestartAlone DEF Next

LEMMA AlwaysAlone ==
  ASSUME Openers = {}
  PROVE  Spec => []Alone
  BY InitAlone, AloneInductive, PTL DEF Spec

-----------------------------------------------------------------------------
(* What holds while no command opens the data directory beside the server. *)

(* One task at a time works on a paper, and the panel shows every task at  *)
(* work as running.                                                        *)
THEOREM OneTaskShown ==
  ASSUME Openers = {}
  PROVE  Spec => []TasksExact
<1>1. Alone => OneTask
  BY AtWorkAlone DEF OneTask
<1>2. Alone => WorkedIsRunning
  BY AtWorkAlone DEF WorkedIsRunning
<1>3. Alone => TasksExact
  BY <1>1, <1>2 DEF TasksExact
<1> QED
  BY <1>3, AlwaysAlone, PTL

(* The reference a task works on stays saved: no request removes it, and   *)
(* no older file is written over it; a stored answer compares with the     *)
(* paper the reference is linked to.                                       *)
THEOREM AnswersAlwaysFit ==
  ASSUME Openers = {}
  PROVE  Spec => []AnswersFit
<1>1. Alone => TargetKept
  BY DEF Alone, Tasks, InFlight, Relies, Aims, TargetKept
<1>2. Alone => ConnectionMatches
  BY DEF Alone, Matched, ConnectionMatches
<1>3. Alone => AnswersFit
  BY <1>1, <1>2 DEF AnswersFit
<1> QED
  BY <1>3, AlwaysAlone, PTL

(* What the steps that write the file do to it.                            *)
LEMMA FileSteps ==
  ASSUME Alone, Openers = {}, [Next]_vars
  PROVE  \/ file'.refs = file.refs
         \/ \E r \in Requests : request[r] # "idle" /\ file' = draft[r]
         \/ \E j \in Jobs : worker[j].pc = "save" /\ file' = draft[j]
<1>1. CASE UNCHANGED vars
  BY <1>1 DEF vars
<1>2. ASSUME NEW r \in Requests, Ask(r) \/ Finish(r)
      PROVE  file' = file \/ (request[r] # "idle" /\ file' = draft[r])
  BY <1>2 DEF Ask, Finish, SaveReference, RemoveReference, LinkReference, StartJob, Taking,
    Reply, Drop
<1>3. ASSUME NEW j \in Jobs, Step(j) \/ TakeLock(j)
      PROVE  file' = file \/ (worker[j].pc = "save" /\ file' = draft[j])
  <2>1. CASE Inside(j)
    BY <2>1, InsideStep DEF Alone, Internal
  <2>2. CASE Store(j) \/ StoreFails(j) \/ TakeLock(j)
    BY <2>2 DEF Store, StoreFails, TakeLock
  <2> QED
    BY <1>3, <2>1, <2>2 DEF Step, Inside
<1>4. CASE Restart
  BY <1>4, FailedType DEF Restart, Alone, TypeInv, TypeOK
<1> QED
  BY <1>1, <1>2, <1>3, <1>4 DEF Next

(* A saved reference disappears only with the request to remove it.        *)
LEMMA ReferencesAreKept ==
  ASSUME Openers = {}
  PROVE  Spec => ReferencesKept
<1>1. ASSUME Alone, [Next]_vars, NEW x \in Refs, Saved(file, x), ~Saved(file', x)
      PROVE  \E r \in Requests : request[r] = "save" /\ ~Saved(draft[r], x)
  <2>1. file'.refs # file.refs
    BY <1>1 DEF Saved
  <2>2. ASSUME NEW j \in Jobs, worker[j].pc = "save", file' = draft[j]
        PROVE  FALSE
    BY <1>1, <2>2, JobWrites DEF Preserves
  <2>3. ASSUME NEW r \in Requests, request[r] # "idle", file' = draft[r]
        PROVE  request[r] = "save" /\ ~Saved(draft[r], x)
    <3>1. request[r] \in {"save", "start"}
      BY <1>1, <2>3 DEF Alone, TypeInv, TypeOK
    <3>2. request[r] = "start" => draft[r].refs = file.refs
      BY <1>1, <2>3, RequestWrites
    <3> QED
      BY <1>1, <2>1, <2>3, <3>1, <3>2
  <2> QED
    BY <1>1, <2>1, <2>2, <2>3, FileSteps
<1>2. Alone /\ [Next]_vars =>
        [\A x \in Refs : Saved(file, x) /\ ~Saved(file', x) =>
           \E r \in Requests : request[r] = "save" /\ ~Saved(draft[r], x)]_vars
  BY <1>1
<1> QED
  BY <1>2, AlwaysAlone, PTL DEF Spec, ReferencesKept

(* An accepted resolution is never taken back.                             *)
LEMMA ResolutionsAreKept ==
  ASSUME Openers = {}
  PROVE  Spec => ResolutionKept
<1>1. ASSUME Alone, [Next]_vars, NEW x \in Refs, Saved(file, x), Saved(file', x),
             file.refs[x].resolution = "resolved"
      PROVE  file'.refs[x].resolution = "resolved"
  <2>1. ASSUME NEW j \in Jobs, worker[j].pc = "save", file' = draft[j]
        PROVE  file'.refs[x].resolution = "resolved"
    BY <1>1, <2>1, JobWrites DEF Preserves
  <2>2. ASSUME NEW r \in Requests, request[r] # "idle", file' = draft[r]
        PROVE  file'.refs[x].resolution = "resolved"
    BY <1>1, <2>2, RequestWrites
  <2> QED
    BY <1>1, <2>1, <2>2, FileSteps
<1>2. Alone /\ [Next]_vars =>
        [\A x \in Refs :
           Saved(file, x) /\ Saved(file', x) /\ file.refs[x].resolution = "resolved" =>
             file'.refs[x].resolution = "resolved"]_vars
  BY <1>1
<1> QED
  BY <1>2, AlwaysAlone, PTL DEF Spec, ResolutionKept

(* No write takes back what another request or task has stored.            *)
THEOREM NothingIsTakenBack ==
  ASSUME Openers = {}
  PROVE  Spec => NothingTakenBack
BY ReferencesAreKept, ResolutionsAreKept DEF NothingTakenBack
=============================================================================
