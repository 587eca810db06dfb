----------------------------- MODULE ReaderTools -----------------------------
(***************************************************************************)
(* The reader tools of one paper: src/api/reader_tools.rs over the file    *)
(* reader-tools.json of src/store.rs.                                      *)
(*                                                                         *)
(* The file holds the saved references and the tasks of the paper.         *)
(* Requests and tasks of the server read it, change it in memory and write *)
(* the whole of it back, under the mutex tools_write.  A task reads what   *)
(* it needs without the mutex, works for minutes, and takes the mutex to   *)
(* store what it found.  Every process that opens the data directory, the  *)
(* commands too, first marks the running tasks failed, without the mutex.  *)
(*                                                                         *)
(* Supercuts, candidates, notes and the records of finished tasks are left  *)
(* out: what a step stores is told apart as far as a later step looks at   *)
(* it.                                                                     *)
(***************************************************************************)
EXTENDS Naturals, FiniteSets

CONSTANTS
  Refs,       \* IDs of saved references
  Papers,     \* papers a reference may be linked to
  Jobs,       \* IDs of tasks; a finished one is forgotten and may come again
  Requests,   \* requests that write, each repeated at will
  Openers,    \* further processes that open the data directory
  None

ASSUME WritersAssumption ==
  /\ Requests \cap Jobs = {}
  /\ (Requests \cup Jobs) \cap Openers = {}
  /\ None \notin Requests \cup Jobs \cup Openers

VARIABLES
  file,     \* reader-tools.json
  lock,     \* who holds tools_write
  draft,    \* draft[x]: what writer x is about to write
  request,  \* request[r]: whether r writes a new task or anything else
  worker    \* worker[j]: the task j at work in the server

vars == <<file, lock, draft, request, worker>>

Writers == Requests \cup Jobs \cup Openers

\* open: ambiguous or unresolved
Resolutions == {"resolved", "open"}

\* connection: the paper that the stored answer compares with
SavedReference ==
  [resolution: Resolutions \cup {None}, linked: Papers \cup {None},
   connection: Papers \cup {None}]

\* an empty list of references to resolve stands for all of them
ToolAction ==
  [kind: {"supercut"}, refs: {{}}] \cup
  [kind: {"find", "connect"}, refs: {{x} : x \in Refs}] \cup
  [kind: {"resolve"}, refs: SUBSET Refs]

ASSUME NoneAssumption ==
  None \notin Papers \cup Refs \cup Resolutions \cup SavedReference \cup ToolAction

\* jobs: the actions of the running tasks
ReaderFiles ==
  [refs: [Refs -> SavedReference \cup {None}], jobs: [Jobs -> ToolAction \cup {None}]]

\* put: what the task is to store next; at: the reference it works on;
\* cited: the paper it compares with; todo: references still to resolve
WorkerStates ==
  [pc: {"idle", "begin", "resolve", "fold", "call", "take", "save"},
   action: ToolAction \cup {None},
   put: {"cut", "candidate", "paper", "resolution", "connection", "end"},
   at: Refs \cup {None}, cited: Papers \cup {None}, todo: SUBSET Refs,
   found: Resolutions \cup {None}]

Idle ==
  [pc |-> "idle", action |-> None, put |-> "end", at |-> None, cited |-> None,
   todo |-> {}, found |-> None]

Started(action) == [Idle EXCEPT !.pc = "begin", !.action = action]

TypeOK ==
  /\ file \in ReaderFiles
  /\ lock \in Requests \cup Jobs \cup {None}
  /\ draft \in [Writers -> ReaderFiles \cup {None}]
  /\ request \in [Requests -> {"idle", "save", "start"}]
  /\ worker \in [Jobs -> WorkerStates]

(* The file exists: something was stored before and is gone again.         *)
Init ==
  /\ file = [refs |-> [x \in Refs |-> None], jobs |-> [j \in Jobs |-> None]]
  /\ lock = None
  /\ draft = [x \in Writers |-> None]
  /\ request = [r \in Requests |-> "idle"]
  /\ worker = [j \in Jobs |-> Idle]

-----------------------------------------------------------------------------
(* The contents of the file.                                               *)

Saved(f, x) == f.refs[x] # None

Running(f, j) == f.jobs[j] # None

(* The references a task may write to.                                     *)
Touches(action, x) ==
  CASE action.kind = "supercut" -> FALSE
    [] action.kind = "resolve"  -> action.refs = {} \/ x \in action.refs
    [] OTHER                    -> x \in action.refs

(* Fault for the mutation runs: tasks for all references are overlooked.   *)
BusyByName(f, x) == \E j \in Jobs : Running(f, j) /\ x \in f.jobs[j].refs

reference_busy(f, x) == \E j \in Jobs : Running(f, j) /\ Touches(f.jobs[j], x)

Unwritten == [resolution |-> None, linked |-> None, connection |-> None]

WithRef(f, x, v) == [f EXCEPT !.refs = [@ EXCEPT ![x] = v]]
WithJob(f, j, v) == [f EXCEPT !.jobs = [@ EXCEPT ![j] = v]]

(* A new link drops the answer that compares with another paper.           *)
LinkedTo(saved, paper) == [saved EXCEPT !.linked = paper, !.connection = None]

-----------------------------------------------------------------------------
(* Requests.  Each takes the mutex, reads the file and is refused at once, *)
(* or goes on to write the changed file.                                   *)

Free(x) == lock = None

Holds(x, f) ==
  /\ Free(x)
  /\ lock' = x
  /\ draft' = [draft EXCEPT ![x] = f]

Taking(r, kind, f) ==
  /\ request[r] = "idle"
  /\ request' = [request EXCEPT ![r] = kind]
  /\ Holds(r, f)
  /\ UNCHANGED <<file, worker>>

SaveReference(r) ==
  \E x \in Refs :
    /\ ~Saved(file, x)
    /\ Taking(r, "save", WithRef(file, x, Unwritten))

RemoveReference(r) ==
  \E x \in Refs :
    /\ Saved(file, x)
    /\ ~reference_busy(file, x)
    /\ Taking(r, "save", WithRef(file, x, None))

LinkReference(r) ==
  \E x \in Refs, paper \in Papers :
    /\ Saved(file, x)
    /\ ~reference_busy(file, x)
    /\ Taking(r, "save", WithRef(file, x, LinkedTo(file.refs[x], paper)))

(* The references a task names are saved, and the one it connects with a   *)
(* paper is linked to one.                                                 *)
Startable(f, action) ==
  \A x \in action.refs :
    Saved(f, x) /\ (action.kind = "connect" => f.refs[x].linked # None)

(* Fault for the mutation runs: a second task of a paper is not refused.   *)
StartBeside(r) ==
  \E j \in Jobs, action \in ToolAction :
    /\ worker[j].pc = "idle"
    /\ Startable(file, action)
    /\ Taking(r, "start", WithJob(file, j, action))

StartJob(r) ==
  \E j \in Jobs, action \in ToolAction :
    /\ \A i \in Jobs : ~Running(file, i)
    /\ worker[j].pc = "idle"
    /\ Startable(file, action)
    /\ Taking(r, "start", WithJob(file, j, action))

InFlight(j) == worker[j].pc # "idle"

(* The mutex is given back with the handler or the block that took it.     *)
Leaving(r) ==
  /\ request' = [request EXCEPT ![r] = "idle"]
  /\ draft' = [draft EXCEPT ![r] = None]
  /\ lock' = None

(* The file is written and the request is answered; a new task is spawned. *)
Reply(r) ==
  /\ request[r] # "idle"
  /\ file' = draft[r]
  /\ worker' = [j \in Jobs |->
                  IF request[r] = "start" /\ Running(draft[r], j) /\ ~InFlight(j)
                    THEN Started(draft[r].jobs[j]) ELSE worker[j]]
  /\ Leaving(r)

(* The write fails; or the client leaves, and the handler is dropped with  *)
(* the write under way: it may be done all the same.                       *)
Drop(r) ==
  /\ request[r] # "idle"
  /\ file' \in {file, draft[r]}
  /\ Leaving(r)
  /\ UNCHANGED worker

-----------------------------------------------------------------------------
(* A task at work.                                                         *)

Put(j, w) == worker' = [worker EXCEPT ![j] = w]

(* Done or failed, the task has its end to store.                          *)
Ends(w) == [w EXCEPT !.pc = "take", !.put = "end", !.at = None]

Calls(w, put, x) == [w EXCEPT !.pc = "call", !.put = put, !.at = x]

(* A search for reference x ends at once when x is gone.                   *)
Searches(w, x) == IF Saved(file, x) THEN Calls(w, "candidate", x) ELSE Ends(w)

(* A task begins with what it reads without the mutex.                     *)
BeginCut(j) ==
  /\ worker[j].pc = "begin"
  /\ worker[j].action.kind = "supercut"
  /\ Put(j, Calls(worker[j], "cut", None))
  /\ UNCHANGED <<file, lock, draft, request>>

BeginFind(j) ==
  /\ worker[j].pc = "begin"
  /\ worker[j].action.kind = "find"
  /\ \E x \in worker[j].action.refs : Put(j, Searches(worker[j], x))
  /\ UNCHANGED <<file, lock, draft, request>>

BeginConnect(j) ==
  /\ worker[j].pc = "begin"
  /\ worker[j].action.kind = "connect"
  /\ \E x \in worker[j].action.refs :
       Put(j, IF Saved(file, x) /\ file.refs[x].linked # None
                THEN [Calls(worker[j], "connection", x) EXCEPT !.cited = file.refs[x].linked]
                ELSE Ends(worker[j]))
  /\ UNCHANGED <<file, lock, draft, request>>

(* Fault for the mutation runs: resolved references are resolved again.    *)
TargetsAgain(action) == {x \in Refs : Saved(file, x) /\ Touches(action, x)}

(* References that are resolved already are left alone.                    *)
Targets(action) ==
  {x \in Refs : Saved(file, x) /\ Touches(action, x) /\ file.refs[x].resolution # "resolved"}

BeginResolve(j) ==
  /\ worker[j].pc = "begin"
  /\ worker[j].action.kind = "resolve"
  /\ Put(j, [worker[j] EXCEPT !.pc = "resolve", !.todo = Targets(worker[j].action)])
  /\ UNCHANGED <<file, lock, draft, request>>

(* The registries are asked for the next reference.  A task for one alone  *)
(* may search for what they do not know.                                   *)
Resolve(j) ==
  LET w == worker[j]
  IN  /\ w.pc = "resolve"
      /\ \/ w.todo = {} /\ Put(j, Ends(w))
         \/ \E x \in w.todo, found \in Resolutions :
              LET n == [w EXCEPT !.todo = @ \ {x}, !.found = found]
              IN  \/ Put(j, Calls(n, "resolution", x))
                  \/ /\ found = "open" /\ Cardinality(w.action.refs) = 1
                     /\ Put(j, Searches(n, x))
      /\ UNCHANGED <<file, lock, draft, request>>

(* What the search found stands for the answer of the registries, unless   *)
(* it is missing from the file.                                            *)
Fold(j) ==
  LET w == worker[j]
  IN  /\ w.pc = "fold"
      /\ \/ ~Saved(file, w.at) /\ Put(j, Ends(w))
         \/ /\ Saved(file, w.at)
            /\ \E found \in {"resolved", w.found} :
                 Put(j, [Calls(w, "resolution", w.at) EXCEPT !.found = found])
      /\ UNCHANGED <<file, lock, draft, request>>

(* The extraction, the model, the download or the database.                *)
Call(j) ==
  LET w == worker[j]
  IN  /\ w.pc = "call"
      /\ \/ \E paper \in IF w.put = "paper" THEN Papers ELSE {w.cited} :
              Put(j, [w EXCEPT !.pc = "take", !.cited = paper])
         \/ Put(j, Ends(w))
      /\ UNCHANGED <<file, lock, draft, request>>

Missing(w) == w.put \in {"candidate", "paper", "connection"} /\ ~Saved(file, w.at)

(* What the file becomes; only a resolution is dropped without an error    *)
(* when its reference is gone.                                             *)
Changed(w, j) ==
  LET saved == file.refs[w.at]
  IN  CASE w.put \in {"cut", "candidate"} -> file
        [] w.put = "paper"      -> WithRef(file, w.at, LinkedTo(saved, w.cited))
        [] w.put = "connection" -> WithRef(file, w.at, [saved EXCEPT !.connection = w.cited])
        [] w.put = "resolution" -> IF saved = None THEN file
             ELSE WithRef(file, w.at, [saved EXCEPT !.resolution = w.found])
        [] w.put = "end"        -> WithJob(file, j, None)

TakeLock(j) ==
  LET w == worker[j]
  IN  /\ w.pc = "take"
      /\ \/ /\ ~Missing(w)
            /\ Holds(j, Changed(w, j))
            /\ Put(j, [w EXCEPT !.pc = "save"])
         \/ /\ Missing(w)
            /\ Free(j)
            /\ Put(j, Ends(w))
            /\ UNCHANGED <<lock, draft>>
      /\ UNCHANGED <<file, request>>

(* A search that found no copy to import, or imported it, is done.         *)
Searched(w) ==
  IF w.action.kind = "resolve" THEN [w EXCEPT !.pc = "fold"] ELSE Ends(w)

Store(j) ==
  LET w == worker[j]
  IN  /\ w.pc = "save"
      /\ file' = draft[j]
      /\ lock' = None
      /\ draft' = [draft EXCEPT ![j] = None]
      /\ \/ w.put = "end" /\ Put(j, Idle)
         \/ w.put \in {"cut", "connection"} /\ Put(j, Ends(w))
         \/ w.put = "resolution" /\ Put(j, [w EXCEPT !.pc = "resolve"])
         \/ w.put = "candidate" /\ Put(j, Calls(w, "paper", w.at))
         \/ w.put \in {"candidate", "paper"} /\ Put(j, Searched(w))
      /\ UNCHANGED request

(* Fault for the mutation runs: a failing write keeps the mutex.           *)
StoreFailsLocked(j) ==
  LET w == worker[j]
  IN  /\ w.pc = "save"
      /\ draft' = [draft EXCEPT ![j] = None]
      /\ Put(j, IF w.put = "end" THEN Idle ELSE Ends(w))
      /\ UNCHANGED <<file, lock, request>>

(* The write fails: the task fails, or nothing is known of its end.        *)
StoreFails(j) ==
  LET w == worker[j]
  IN  /\ w.pc = "save"
      /\ lock' = None
      /\ draft' = [draft EXCEPT ![j] = None]
      /\ Put(j, IF w.put = "end" THEN Idle ELSE Ends(w))
      /\ UNCHANGED <<file, request>>

-----------------------------------------------------------------------------
(* ArtifactStore::initialize.                                              *)

(* No task is left running.                                                *)
Failed(f) == [f EXCEPT !.jobs = [j \in Jobs |-> None]]

(* A command that opens the data directory while the server runs.          *)
Open(c) ==
  /\ draft[c] = None
  /\ draft' = [draft EXCEPT ![c] = Failed(file)]
  /\ UNCHANGED <<file, lock, request, worker>>

Recover(c) ==
  /\ draft[c] # None
  /\ file' = draft[c]
  /\ draft' = [draft EXCEPT ![c] = None]
  /\ UNCHANGED <<lock, request, worker>>

(* The server stops at any moment, and the next one recovers the file.     *)
Restart ==
  /\ file' = Failed(file)
  /\ lock' = None
  /\ draft' = [x \in Writers |-> IF x \in Openers THEN draft[x] ELSE None]
  /\ request' = [r \in Requests |-> "idle"]
  /\ worker' = [j \in Jobs |-> Idle]

-----------------------------------------------------------------------------
Ask(r) ==
  SaveReference(r) \/ RemoveReference(r) \/ LinkReference(r) \/ StartJob(r)

Finish(r) == Reply(r) \/ Drop(r)

Step(j) ==
  \/ BeginCut(j) \/ BeginFind(j) \/ BeginConnect(j) \/ BeginResolve(j)
  \/ Resolve(j) \/ Fold(j) \/ Call(j) \/ Store(j) \/ StoreFails(j)

Next ==
  \/ \E r \in Requests : Ask(r) \/ Finish(r)
  \/ \E j \in Jobs : Step(j) \/ TakeLock(j)
  \/ \E c \in Openers : Open(c) \/ Recover(c)
  \/ Restart

Spec == Init /\ [][Next]_vars

(* Every task and handler is polled, model calls end by their timeout, and *)
(* the mutex is granted in the order it was asked for.                     *)
FairSpec ==
  /\ Spec
  /\ \A r \in Requests : WF_vars(Finish(r))
  /\ \A j \in Jobs : WF_vars(Step(j)) /\ SF_vars(TakeLock(j))

-----------------------------------------------------------------------------
(* Properties.                                                             *)

(* One task at a time works on a paper (StartJob refuses the next one:     *)
(* "Lysilogos already has a task running for this paper").                 *)
OneTask == \A i, j \in Jobs : InFlight(i) /\ InFlight(j) => i = j

(* What a task works on stays saved until it is done: nobody is told that  *)
(* a "saved reference no longer exists".                                   *)
TargetKept ==
  \A j \in Jobs : worker[j].pc \in {"call", "take", "save", "fold"} /\ worker[j].at # None =>
    Saved(file, worker[j].at)

(* A stored answer compares with the paper the reference is linked to,     *)
(* whatever was linked, imported or asked since.                           *)
ConnectionMatches ==
  \A x \in Refs : Saved(file, x) /\ file.refs[x].connection # None =>
    file.refs[x].connection = file.refs[x].linked

(* A task finds its reference, and stores an answer that fits it.          *)
AnswersFit == TargetKept /\ ConnectionMatches

(* A saved reference disappears only with the request to remove it, and no *)
(* write of another request or task brings an older file back.             *)
ReferencesKept ==
  [][\A x \in Refs : Saved(file, x) /\ ~Saved(file', x) =>
       \E r \in Requests : request[r] = "save" /\ ~Saved(draft[r], x)]_vars

(* An accepted resolution is never taken back.                             *)
ResolutionKept ==
  [][\A x \in Refs :
       Saved(file, x) /\ Saved(file', x) /\ file.refs[x].resolution = "resolved" =>
         file'.refs[x].resolution = "resolved"]_vars

(* No write takes back what another request or task has stored.            *)
NothingTakenBack == ReferencesKept /\ ResolutionKept

(* The panel shows a task as running while the server works on it.         *)
WorkedIsRunning == \A j \in Jobs : InFlight(j) => Running(file, j)

(* One task at a time, and the record of the file is that of the task.     *)
TasksExact == OneTask /\ WorkedIsRunning

(* A task comes to its end.                                                *)
TasksEnd == \A j \in Jobs : InFlight(j) ~> ~InFlight(j)
=============================================================================
