---------------------------- MODULE JobRegistry ----------------------------
(***************************************************************************)
(* The registries of background jobs of the server: AcquisitionJobs,       *)
(* ExpansionJobs and LiteratureJobs of src/api.                            *)
(*                                                                         *)
(* A registry remembers the latest job of each key, a Work or a paper.  A  *)
(* request enters a job unless one is running and spawns a task, which     *)
(* waits for one of the permits of its registry, works in a task of its    *)
(* own, whose panic is a result like any other, and enters the result.     *)
(* Some registries ask a cache first and let the handler of the request    *)
(* answer from it, without a permit.  Everything is in memory.             *)
(***************************************************************************)
EXTENDS Naturals, Sequences, FiniteSets

CONSTANTS
  Callers,    \* requests, each repeated at will
  Keys,       \* Works and papers, each key of one registry
  Registries,
  Registry,   \* Registry[k]: the registry of key k
  Permits,    \* Permits[g]: how many jobs of g work at a time
  CacheFirst, \* registries whose handlers ask a cache first
  NoKey       \* the key of a request without a job

ASSUME RegistryAssumption ==
  /\ Registry \in [Keys -> Registries]
  /\ Permits \in [Registries -> Nat \ {0}]
  /\ CacheFirst \subseteq Registries
ASSUME AbsenceAssumption == NoKey \notin Keys

VARIABLES
  job,         \* job[k]: the latest job of key k
  permitQueue, \* permitQueue[g]: who waits for a permit of g, in order
  task         \* task[x]: the handler of request x, and what it spawned

registryVars == <<job, permitQueue, task>>

(* In "check", "inline" and "reply" the handler itself is at work.         *)
Handler == {"check", "inline", "reply"}

Tasks ==
  [pc: Handler \cup {"idle", "queued", "working", "publish"}, key: Keys \cup {NoKey},
   ok: BOOLEAN]

Idle == [pc |-> "idle", key |-> NoKey, ok |-> FALSE]

RegistryTypeOK ==
  /\ job \in [Keys -> {"idle", "running", "succeeded", "failed"}]
  /\ permitQueue \in [Registries -> Seq(Callers)]
  /\ task \in [Callers -> Tasks]

RegistryInit ==
  /\ job = [k \in Keys |-> "idle"]
  /\ permitQueue = [g \in Registries |-> <<>>]
  /\ task = [x \in Callers |-> Idle]

InFlight(x) == task[x].pc # "idle"

Of(x) == Registry[task[x].key]

Working(g) == {x \in Callers : task[x].pc = "working" /\ Of(x) = g}

-----------------------------------------------------------------------------
Spawned(x, k) ==
  /\ task' = [task EXCEPT ![x] = [Idle EXCEPT !.pc = "queued", !.key = k]]
  /\ permitQueue' = [permitQueue EXCEPT ![Registry[k]] = Append(@, x)]

(* Fault for the mutation runs: the registry is not looked at.             *)
StartAgain(x) ==
  /\ ~InFlight(x)
  /\ \E k \in Keys :
       /\ job' = [job EXCEPT ![k] = "running"]
       /\ Spawned(x, k)

(* A key with a running job is only told so.  The job is entered and the   *)
(* task spawned without an await in between, unless the cache is asked.    *)
Start(x) ==
  /\ ~InFlight(x)
  /\ \E k \in Keys :
       /\ job[k] # "running"
       /\ job' = [job EXCEPT ![k] = "running"]
       /\ \/ Spawned(x, k)
          \/ /\ Registry[k] \in CacheFirst
             /\ task' = [task EXCEPT ![x] = [Idle EXCEPT !.pc = "check", !.key = k]]
             /\ UNCHANGED permitQueue

AnswerCached(x) ==
  /\ task[x].pc = "check"
  /\ task' = [task EXCEPT ![x] = [@ EXCEPT !.pc = "inline"]]
  /\ UNCHANGED <<job, permitQueue>>

Background(x) ==
  /\ task[x].pc = "check"
  /\ Spawned(x, task[x].key)
  /\ UNCHANGED job

(* The semaphore serves in order.                                          *)
Acquire(x) ==
  /\ task[x].pc = "queued"
  /\ permitQueue[Of(x)] # <<>>
  /\ Head(permitQueue[Of(x)]) = x
  /\ Cardinality(Working(Of(x))) < Permits[Of(x)]
  /\ task' = [task EXCEPT ![x] = [@ EXCEPT !.pc = "working"]]
  /\ permitQueue' = [permitQueue EXCEPT ![Of(x)] = Tail(@)]
  /\ UNCHANGED job

(* Fault for the mutation runs: a panic ends the task with the work.       *)
EndSilently(x) ==
  /\ task[x].pc \in {"working", "inline"}
  /\ \E next \in {"publish", "idle"} :
       task' = [task EXCEPT ![x] = IF next = "idle" THEN Idle ELSE [@ EXCEPT !.pc = next]]
  /\ UNCHANGED <<job, permitQueue>>

(* The work is done, or ends in an error or a panic.                       *)
End(x) ==
  /\ task[x].pc \in {"working", "inline"}
  /\ LET next == IF task[x].pc = "inline" THEN "reply" ELSE "publish"
     IN  \E ok \in BOOLEAN : task' = [task EXCEPT ![x] = [@ EXCEPT !.pc = next, !.ok = ok]]
  /\ UNCHANGED <<job, permitQueue>>

PublishJob(x) ==
  /\ task[x].pc \in {"publish", "reply"}
  /\ job' = [job EXCEPT ![task[x].key] = IF task[x].ok THEN "succeeded" ELSE "failed"]
  /\ task' = [task EXCEPT ![x] = Idle]
  /\ UNCHANGED permitQueue

(* A closed connection drops the handler; what it spawned goes on.         *)
Leave(x) ==
  /\ task[x].pc \in Handler
  /\ task' = [task EXCEPT ![x] = Idle]
  /\ UNCHANGED <<job, permitQueue>>

Restart ==
  /\ job' = [k \in Keys |-> "idle"]
  /\ permitQueue' = [g \in Registries |-> <<>>]
  /\ task' = [x \in Callers |-> Idle]

Step(x) ==
  AnswerCached(x) \/ Background(x) \/ Acquire(x) \/ End(x) \/ PublishJob(x)

RegistryNext ==
  \/ \E x \in Callers : Start(x) \/ Step(x) \/ Leave(x)
  \/ Restart

RegistrySpec == RegistryInit /\ [][RegistryNext]_registryVars

(* Every task is polled and its work ends.                                 *)
FairRegistry == RegistrySpec /\ \A x \in Callers : WF_registryVars(Step(x))

-----------------------------------------------------------------------------
(* One job per key: two tasks never have the same key.                     *)
OneJobPerKey ==
  \A x, y \in Callers : InFlight(x) /\ InFlight(y) /\ task[x].key = task[y].key => x = y

(* A registry without a cache shows a job as running exactly while a task  *)
(* is there that will enter its result: requests of that key are refused   *)
(* for no other reason, whatever panics and whoever leaves.                *)
RunningIsWorked ==
  \A k \in Keys : Registry[k] \notin CacheFirst =>
    (job[k] = "running" <=> \E x \in Callers : InFlight(x) /\ task[x].key = k)

(* No more jobs of a registry work at a time than it has permits.          *)
PermitsKept == \A g \in Registries : Cardinality(Working(g)) <= Permits[g]

(* The registries say what is at work, and keep to their permits.          *)
RegistryExact == OneJobPerKey /\ RunningIsWorked /\ PermitsKept

(* Every job of such a registry ends.                                      *)
JobsEnd ==
  \A k \in Keys : Registry[k] \notin CacheFirst => (job[k] = "running" ~> job[k] # "running")
=============================================================================
