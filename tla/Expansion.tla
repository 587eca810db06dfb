----------------------------- MODULE Expansion -----------------------------
(***************************************************************************)
(* Expansion of Works: src/expansion.rs and the jobs of                    *)
(* src/api/expansion.rs, over the citation graph and the ledger            *)
(* ops.work_expansion of lysilogy-db.                                      *)
(*                                                                         *)
(* A walk makes the outgoing citations of a seed known, then those of its  *)
(* best-ranked children, level by level.  Requests run walks on the        *)
(* server: one job per seed, one job at a time behind a semaphore, except  *)
(* for what the cache answers, which the handler does itself.  Commands    *)
(* are walks of other processes (`lysilogy expand`).  All of them write    *)
(* the same graph and ledger, statement by statement.                      *)
(*                                                                         *)
(* Works are numbered by rank: score, year and ID put 1 before 2.          *)
(***************************************************************************)
EXTENDS Naturals, Sequences, FiniteSets, Functions

CONSTANTS
  Requests,     \* walks asked of the server, each repeated at will
  Commands,     \* walks of command-line processes
  NWorks,       \* Works of the graph
  Refs,         \* Refs[w]: the Works the provider's record of w references
  Entries,      \* Entries[w]: the Works local evidence finds in paper w
  Held,         \* Works with a paper in the library
  Skipped,      \* Works marked hidden or downplayed
  Asks,         \* Asks[x]: what walk x may be asked for
  Fanout,       \* children taken per parent
  Budget,       \* WALK_EXPANSIONS_MAX
  None

Works == 1..NWorks
Walks == Requests \cup Commands

ASSUME WalksAssumption == Requests \cap Commands = {}
ASSUME GraphAssumption ==
  /\ NWorks \in Nat
  /\ Refs \in [Works -> SUBSET Works]
  /\ Entries \in [Works -> SUBSET Works]
ASSUME BoundsAssumption ==
  /\ Asks \in [Walks -> SUBSET [seed: Works, depth: Nat \ {0}, refresh: BOOLEAN]]
  /\ {Fanout, Budget} \subseteq Nat

Methods == {"existing", "local", "provider"}
Rows == [state: {"expanded", "unavailable"}, method: Methods \cup {None}, count: Nat]

ASSUME NoneAssumption == None \notin Works \cup Rows \cup Methods

VARIABLES
  edges,   \* edges[w]: Works with a live assertion that w cites them
  ledger,  \* ledger[w]: the row of w, or None
  job,     \* job[w]: the server's job for seed w
  queue,   \* background jobs in the order of the semaphore; the first may run
  walk     \* walk[x]: the state of walk x

vars == <<edges, ledger, job, queue, walk>>

WalkStates ==
  [pc: {"idle", "check", "queued", "expand", "count", "flow", "remote", "ingest",
        "record", "plan", "descend", "publish"},
   way: {"inline", "job", "command"}, seed: Works \cup {None}, depth: Nat,
   refresh: BOOLEAN, level: Seq(Works), at: Nat, done: Seq(Works), plan: Seq(Works),
   cut: BOOLEAN, todo: SUBSET Works, row: Rows \cup {None}, ok: BOOLEAN]

Idle ==
  [pc |-> "idle", way |-> "command", seed |-> None, depth |-> 0, refresh |-> FALSE,
   level |-> <<>>, at |-> 1, done |-> <<>>, plan |-> <<>>, cut |-> FALSE, todo |-> {},
   row |-> None, ok |-> FALSE]

TypeOK ==
  /\ edges \in [Works -> SUBSET Works]
  /\ ledger \in [Works -> Rows \cup {None}]
  /\ job \in [Works -> {"idle", "running", "succeeded", "failed"}]
  /\ queue \in Seq(Requests)
  /\ walk \in [Walks -> WalkStates]

(* Before this ledger existed, the papers of the library were linked and   *)
(* their references were asserted.                                         *)
Init ==
  /\ edges = [w \in Works |-> IF w \in Held THEN Refs[w] \ {w} ELSE {}]
  /\ ledger = [w \in Works |-> None]
  /\ job = [w \in Works |-> "idle"]
  /\ queue = <<>>
  /\ walk = [x \in Walks |-> Idle]

-----------------------------------------------------------------------------
(* The state of one walk.                                                  *)

Begun(pc, way, ask) ==
  [Idle EXCEPT !.pc = pc, !.way = way, !.seed = ask.seed, !.depth = ask.depth,
               !.refresh = ask.refresh, !.level = <<ask.seed>>]

Current(w) == w.level[w.at]

(* A job or a handler has a result to publish; a command exits.            *)
Ended(w, ok) ==
  IF w.way = "command" THEN Idle
  ELSE [Idle EXCEPT !.pc = "publish", !.way = w.way, !.seed = w.seed, !.ok = ok]

(* The current Work is expanded: on to the next one of the level, or to    *)
(* the plan of the next level.                                             *)
Advanced(w) ==
  LET e == [w EXCEPT !.done = Append(@, Current(w)), !.row = None]
  IN  IF w.at < Len(w.level) THEN [e EXCEPT !.at = @ + 1, !.pc = "expand"]
      ELSE IF w.depth > 1 THEN [e EXCEPT !.at = 1, !.pc = "plan"]
      ELSE Ended(e, TRUE)

(* Fault for the mutation runs: the permit is kept until the next one.     *)
PutKeeping(x, w) ==
  /\ walk' = [walk EXCEPT ![x] = w]
  /\ UNCHANGED queue

(* Walk x goes on as w; a job that has ended gives its permit back.        *)
Put(x, w) ==
  /\ walk' = [walk EXCEPT ![x] = w]
  /\ queue' = IF w.pc = "publish" /\ w.way = "job" THEN Tail(queue) ELSE queue

At(x, stage) == walk[x].pc = stage

-----------------------------------------------------------------------------
(* ExpansionJobs::start, and the command.                                  *)

(* Fault for the mutation runs: a refresh counts as a request of one level.*)
SingleDepth(ask) == ask.depth = 1

(* Only a request for one level, not a refresh, is looked up in the cache. *)
Single(ask) == ask.depth = 1 /\ ~ask.refresh

Enter(x, ask) ==
  /\ job' = [job EXCEPT ![ask.seed] = "running"]
  /\ IF Single(ask)
       THEN /\ walk' = [walk EXCEPT ![x] = Begun("check", "inline", ask)]
            /\ UNCHANGED queue
       ELSE /\ walk' = [walk EXCEPT ![x] = Begun("queued", "job", ask)]
            /\ queue' = Append(queue, x)
  /\ UNCHANGED <<edges, ledger>>

(* A seed with a running job is only told so, and nothing changes.         *)
Start(x) ==
  /\ At(x, "idle")
  /\ \E ask \in Asks[x] : job[ask.seed] # "running" /\ Enter(x, ask)

Known(w) == ledger[w] # None \/ edges[w] # {}

(* What the cache answers the handler does without a permit.               *)
Inline(x) ==
  /\ At(x, "check")
  /\ Known(walk[x].seed)
  /\ Put(x, [walk[x] EXCEPT !.pc = "expand"])
  /\ UNCHANGED <<edges, ledger, job>>

(* The rest, or a request whose lookup fails, is spawned.                  *)
Background(x) ==
  /\ At(x, "check")
  /\ walk' = [walk EXCEPT ![x].pc = "queued", ![x].way = "job"]
  /\ queue' = Append(queue, x)
  /\ UNCHANGED <<edges, ledger, job>>

(* Fault for the mutation runs: any queued job takes the permit.           *)
AcquireOutOfTurn(x) ==
  /\ At(x, "queued")
  /\ Put(x, [walk[x] EXCEPT !.pc = "expand"])
  /\ UNCHANGED <<edges, ledger, job>>

Acquire(x) ==
  /\ At(x, "queued")
  /\ queue # <<>>
  /\ Head(queue) = x
  /\ Put(x, [walk[x] EXCEPT !.pc = "expand"])
  /\ UNCHANGED <<edges, ledger, job>>

Command(x) ==
  /\ At(x, "idle")
  /\ \E ask \in Asks[x] : Put(x, Begun("expand", "command", ask))
  /\ UNCHANGED <<edges, ledger, job>>

-----------------------------------------------------------------------------
(* expand_work: the current Work of a walk.                                *)

(* The row of a known or unavailable Work answers.                         *)
Cached(x) ==
  /\ At(x, "expand")
  /\ ~walk[x].refresh
  /\ ledger[Current(walk[x])] # None
  /\ Put(x, Advanced(walk[x]))
  /\ UNCHANGED <<edges, ledger, job>>

Missed(x) ==
  /\ At(x, "expand")
  /\ \/ walk[x].refresh /\ Put(x, [walk[x] EXCEPT !.pc = "flow"])
     \/ /\ ~walk[x].refresh
        /\ ledger[Current(walk[x])] = None
        /\ Put(x, [walk[x] EXCEPT !.pc = "count"])
  /\ UNCHANGED <<edges, ledger, job>>

(* Without a row, any outgoing assertion makes the fanout known; the row   *)
(* is written afterwards.                                                  *)
CountEdges(x) ==
  LET out == edges[Current(walk[x])]
      row == [state |-> "expanded", method |-> "existing", count |-> Cardinality(out)]
  IN  /\ At(x, "count")
      /\ Put(x, IF out # {} THEN [walk[x] EXCEPT !.pc = "record", !.row = row]
                            ELSE [walk[x] EXCEPT !.pc = "flow"])
      /\ UNCHANGED <<edges, ledger, job>>

(* The flow goes on to assert the references of the provider's record.     *)
Ingesting(w, method, found) ==
  [w EXCEPT !.pc = "ingest", !.todo = found,
            !.row = [state |-> "expanded", method |-> method, count |-> Cardinality(found)]]

Cites(w) == Refs[w] \ {w}

(* A held paper is linked to the Work, with the provider's record or not.  *)
LocalFlow(x) ==
  /\ At(x, "flow")
  /\ Current(walk[x]) \in Held
  /\ \E found \in {Cites(Current(walk[x])), {}} :
       Put(x, Ingesting(walk[x], "local", found))
  /\ UNCHANGED <<edges, ledger, job>>

(* It is linked to no Work, or to another one, whose references it has     *)
(* then asserted.                                                          *)
LocalElsewhere(x) ==
  /\ At(x, "flow")
  /\ Current(walk[x]) \in Held
  /\ \/ UNCHANGED edges
     \/ \E other \in Works \ {Current(walk[x])} :
          edges' = [edges EXCEPT ![other] = @ \cup Cites(other)]
  /\ Put(x, [walk[x] EXCEPT !.pc = "remote"])
  /\ UNCHANGED <<ledger, job>>

(* expand_from_provider: the record is found, or the Work has no           *)
(* identifier, is unknown there or in conflict with another Work.          *)
RemoteFlow(x) ==
  LET row == [state |-> "unavailable", method |-> None, count |-> 0]
  IN  /\ At(x, "remote") \/ (At(x, "flow") /\ Current(walk[x]) \notin Held)
      /\ \/ Put(x, Ingesting(walk[x], "provider", Cites(Current(walk[x]))))
         \/ Put(x, [walk[x] EXCEPT !.pc = "record", !.row = row])
      /\ UNCHANGED <<edges, ledger, job>>

(* Each reference is a statement of its own.                               *)
Ingest(x) ==
  /\ At(x, "ingest")
  /\ \E cited \in walk[x].todo :
       /\ edges' = [edges EXCEPT ![Current(walk[x])] = @ \cup {cited}]
       /\ Put(x, [walk[x] EXCEPT !.todo = @ \ {cited}])
  /\ UNCHANGED <<ledger, job>>

(* Fault for the mutation runs: the row is written before the references.  *)
HarvestEarly(x) ==
  /\ At(x, "ingest")
  /\ Put(x, [walk[x] EXCEPT !.pc = "record"])
  /\ UNCHANGED <<edges, ledger, job>>

(* The references are in.  Local evidence asserts what it finds in the     *)
(* paper, as far as it comes.                                              *)
Harvest(x) ==
  LET w == Current(walk[x])
  IN  /\ At(x, "ingest")
      /\ walk[x].todo = {}
      /\ \E found \in SUBSET (IF walk[x].row.method = "local" THEN Entries[w] \ {w} ELSE {}) :
           edges' = [edges EXCEPT ![w] = @ \cup found]
      /\ Put(x, [walk[x] EXCEPT !.pc = "record"])
      /\ UNCHANGED <<ledger, job>>

(* ExpansionRepository::record replaces whatever row there is.             *)
Record(x) ==
  /\ At(x, "record")
  /\ ledger' = [ledger EXCEPT ![Current(walk[x])] = walk[x].row]
  /\ Put(x, Advanced(walk[x]))
  /\ UNCHANGED <<edges, job>>

(* A provider or database error aborts the walk; the rows it has written   *)
(* and the assertions it has made stay.                                    *)
Fail(x) ==
  /\ walk[x].pc \in {"expand", "count", "flow", "remote", "ingest", "record", "plan"}
  /\ Put(x, Ended(walk[x], FALSE))
  /\ UNCHANGED <<edges, ledger, job>>

-----------------------------------------------------------------------------
(* walk_from: the next level.                                              *)

Visited(w) == Range(w.level) \cup Range(w.done)

(* Fault for the mutation runs: Works of earlier levels are planned again. *)
EligibleAgain(w, children) == children \ (Skipped \cup Range(w.plan))

(* Children that are neither marked, nor visited, nor taken by an earlier  *)
(* parent.                                                                 *)
Eligible(w, children) == children \ (Skipped \cup Visited(w) \cup Range(w.plan))

Best(works) == {c \in works : Cardinality({d \in works : d < c}) < Fanout}

Ranked(s) == \A i, j \in DOMAIN s : i < j => s[i] < s[j]

(* The children of the next parent are read and its best are planned, in   *)
(* rank order and as if the budget were unbounded.                         *)
Plan(x) ==
  LET w     == walk[x]
      taken == Best(Eligible(w, edges[Current(w)]))
  IN  /\ At(x, "plan")
      /\ \E s \in [1..Cardinality(taken) -> taken] :
           /\ Ranked(s)
           /\ Put(x, IF w.at < Len(w.level)
                       THEN [w EXCEPT !.plan = @ \o s, !.at = @ + 1]
                       ELSE [w EXCEPT !.plan = @ \o s, !.at = 1, !.pc = "descend"])
      /\ UNCHANGED <<edges, ledger, job>>

Remaining(w) == IF Budget > Len(w.done) THEN Budget - Len(w.done) ELSE 0

(* The budget keeps the first pairs of the plan.                           *)
Kept(w) == IF Len(w.plan) > Remaining(w) THEN SubSeq(w.plan, 1, Remaining(w)) ELSE w.plan

Descend(x) ==
  LET w == walk[x]
  IN  /\ At(x, "descend")
      /\ Put(x, IF Kept(w) = <<>> THEN Ended(w, TRUE)
                ELSE [w EXCEPT !.level = Kept(w), !.plan = <<>>, !.depth = @ - 1,
                               !.cut = @ \/ Kept(w) # w.plan, !.pc = "expand"])
      /\ UNCHANGED <<edges, ledger, job>>

-----------------------------------------------------------------------------
(* The end of a walk.                                                      *)

Publish(x) ==
  /\ At(x, "publish")
  /\ job' = [job EXCEPT ![walk[x].seed] = IF walk[x].ok THEN "succeeded" ELSE "failed"]
  /\ walk' = [walk EXCEPT ![x] = Idle]
  /\ UNCHANGED <<edges, ledger, queue>>

(* A closed connection drops the handler, and with it the walk it does     *)
(* itself.                                                                 *)
Leave(x) ==
  /\ walk[x].pc # "idle"
  /\ walk[x].way = "inline"
  /\ walk' = [walk EXCEPT ![x] = Idle]
  /\ UNCHANGED <<edges, ledger, job, queue>>

Kill(x) ==
  /\ walk[x].pc # "idle"
  /\ walk' = [walk EXCEPT ![x] = Idle]
  /\ UNCHANGED <<edges, ledger, job, queue>>

(* The registry lives in memory.                                           *)
Restart ==
  /\ walk' = [x \in Walks |-> IF x \in Requests THEN Idle ELSE walk[x]]
  /\ job' = [w \in Works |-> "idle"]
  /\ queue' = <<>>
  /\ UNCHANGED <<edges, ledger>>

Step(x) ==
  \/ Inline(x) \/ Background(x) \/ Acquire(x)
  \/ Cached(x) \/ Missed(x) \/ CountEdges(x) \/ LocalFlow(x) \/ LocalElsewhere(x)
  \/ RemoteFlow(x) \/ Ingest(x) \/ Harvest(x) \/ Record(x) \/ Fail(x)
  \/ Plan(x) \/ Descend(x) \/ Publish(x)

Next ==
  \/ \E x \in Walks : Step(x)
  \/ \E x \in Requests : Start(x) \/ Leave(x)
  \/ \E x \in Commands : Command(x) \/ Kill(x)
  \/ Restart

Spec == Init /\ [][Next]_vars

(* Every task is polled, the semaphore serves in order and the provider    *)
(* client gives up after its timeout.  Nobody has to send a request.       *)
FairSpec == Spec /\ \A x \in Walks : WF_vars(Step(x))

-----------------------------------------------------------------------------
(* Properties.                                                             *)

InFlight(x) == walk[x].pc # "idle"

(* One running job per Work: two server walks never have the same seed.    *)
OneWalkPerWork ==
  \A x, y \in Requests :
    InFlight(x) /\ InFlight(y) /\ walk[x].seed = walk[y].seed => x = y

(* One walk at a time asks the provider: a request the handler answers     *)
(* without a permit stays with the cache, whatever happens after the look  *)
(* that let it through.                                                    *)
PoliteProvider ==
  \A x \in Requests :
    walk[x].pc \in {"flow", "remote", "ingest"} =>
      walk[x].way = "job" /\ queue # <<>> /\ Head(queue) = x

(* No walk expands a Work twice.                                           *)
ExpandsOnce ==
  \A x \in Walks :
    /\ IsInjective(walk[x].done)
    /\ walk[x].pc \in {"expand", "count", "flow", "remote", "ingest", "record"} =>
         Current(walk[x]) \notin Range(walk[x].done)

(* The Works of the level that a walk still has to expand.                 *)
Ahead(w) ==
  IF w.pc \in {"expand", "count", "flow", "remote", "ingest", "record"}
    THEN Len(w.level) - w.at + 1 ELSE 0

(* A walk expands at most the budget, or its seed, and is reported as      *)
(* truncated only when it spends all of it.                                *)
WithinBudget ==
  \A x \in Walks :
    LET used == Len(walk[x].done) + Ahead(walk[x])
    IN  /\ used <= Budget \/ used <= 1
        /\ walk[x].cut => used >= Budget

(* A walk stays within its bounds, on every level and over all of them.    *)
WalkBounded == ExpandsOnce /\ WithinBudget

(* A row that says expanded claims no more references than the graph has,  *)
(* and one written from the provider's record stands for all of them,      *)
(* whatever failed or ran at the same time.                                *)
LedgerBacked ==
  \A w \in Works : ledger[w] # None =>
    /\ ledger[w].count <= Cardinality(edges[w])
    /\ ledger[w].method = "provider" => Cites(w) \subseteq edges[w]

(* What the registry of jobs sees of a walk of the server, and of the      *)
(* semaphore: the first in the queue may have its permit.                  *)
TaskOf(w) ==
  [pc |-> CASE w.pc \in {"idle", "check", "queued"} -> w.pc
            [] w.pc = "publish" -> IF w.way = "inline" THEN "reply" ELSE "publish"
            [] OTHER            -> IF w.way = "inline" THEN "inline" ELSE "working",
   key |-> w.seed, ok |-> w.pc = "publish" /\ w.ok]

Awaiting == IF queue # <<>> /\ ~At(Head(queue), "queued") THEN Tail(queue) ELSE queue

Jobs == INSTANCE JobRegistry WITH
  Keys <- Works, Registries <- {"expansion"}, CacheFirst <- {"expansion"},
  Registry <- [w \in Works |-> "expansion"], Permits <- [g \in {"expansion"} |-> 1],
  Callers <- Requests, NoKey <- None, permitQueue <- [g \in {"expansion"} |-> Awaiting],
  task <- [x \in Requests |-> TaskOf(walk[x])]

(* The walks of the server keep to the protocol of the registries          *)
(* (JobRegistry), wherever they fail, are dropped or are answered by the   *)
(* cache, and whatever commands do.                                        *)
KeepsRegistry == Jobs!RegistrySpec

(* A job that waits for the permit comes to its end, and its result is     *)
(* entered, as long as the server runs.                                    *)
JobsFinish ==
  \A x \in Requests : At(x, "queued") ~> At(x, "idle")

(* The ledger records that the fanout of a Work was made known             *)
(* (docs/ramps/ramp-e.md, decision 1), and two processes that expand one   *)
(* Work are harmless (decision 8): when nobody is at work, a Work recorded *)
(* as expanded has all its references in the graph and in the count.       *)
KnownIsComplete ==
  (\A x \in Walks : ~InFlight(x)) =>
    \A w \in Works \ Held :
      ledger[w] # None /\ ledger[w].state = "expanded" =>
        Cites(w) \subseteq edges[w] /\ Cardinality(Cites(w)) <= ledger[w].count
=============================================================================
