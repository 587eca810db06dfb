----------------------------- MODULE PaperTasks -----------------------------
(***************************************************************************)
(* The tasks that work on one paper of the library, src/api.rs: initial    *)
(* analyses, component refreshes and feedback revisions, which reserve the *)
(* paper through the processing status of its catalog entry, and the       *)
(* requests that may extract it on the way: the Markdown view, the paper   *)
(* map and the sources of clarifications and reader tools.                 *)
(*                                                                         *)
(* The catalog, the job tracker and the stored artifacts are shared; every *)
(* await is a point where another task may run, where the client of a      *)
(* handler may leave and where the server may be restarted.                *)
(***************************************************************************)
EXTENDS Naturals

CONSTANTS
  Tasks,          \* requests, each handled once
  Kinds,          \* the kinds of request of this instance
  InitExtraction, \* whether the paper may be extracted at the start
  ReadFaults,     \* whether reading a stored extraction may fail
  ClientsLeave,   \* whether clients close their connections early
  None,           \* no task, no job, no analysis
  Old,            \* an analysis whose quotations still need validation
  Checked         \* that analysis after the paper map validated it

Runs     == {"analyze", "refresh", "feedback"}
AllKinds == Runs \cup {"markdown", "map", "source"}

ASSUME KindsAssumption  == Kinds \subseteq AllKinds
ASSUME FlagsAssumption  == /\ InitExtraction \subseteq BOOLEAN
                           /\ ReadFaults \in BOOLEAN
                           /\ ClientsLeave \in BOOLEAN
ASSUME TokensAssumption == /\ {None, Old, Checked} \cap Tasks = {}
                           /\ None \notin {Old, Checked} \cup AllKinds

VARIABLES
  status,     \* ProcessingStatus of the catalog entry
  extraction, \* extraction.json is stored and valid
  analysis,   \* analysis.json: the task that generated it, Old, Checked or None
  job,        \* the tracker's AnalysisJob, or None; by: the last task to end it
  lock,       \* holder of highlight_write
  guard,      \* holder of tools_extract, which the sources take
  scan,       \* a library scan: what it found on disk, or None
  pc,         \* where task t stands
  kind,       \* what task t is
  prev,       \* previous.status of a refresh
  loaded      \* the analysis task t has loaded

shared == <<status, extraction, analysis, job, lock, guard, scan>>
local  == <<pc, kind, prev, loaded>>
vars   == <<shared, local>>

Statuses == {"discovered", "queued", "extracting", "extracted", "analyzing",
             "ready", "failed"}
JobStates == {"queued", "running", "completed", "failed", "interrupted"}
Analyses  == Tasks \cup {None, Old, Checked}

InFlight == {"reserve", "begin", "record", "run", "guard", "load", "extract", "peek", "mark", "prepare",
             "inspect", "render", "model", "lock", "save", "complete", "settle",
             "restore", "failjob", "markfail"}

TypeOK ==
  /\ status \in Statuses
  /\ extraction \in BOOLEAN
  /\ analysis \in Analyses
  /\ job \in [owner: Tasks, state: JobStates, by: Tasks] \cup {None}
  /\ lock \in Tasks \cup {None}
  /\ guard \in Tasks \cup {None}
  /\ scan \in Statuses \cup {None}
  /\ pc \in [Tasks -> InFlight \cup {"idle", "done", "gone"}]
  /\ kind \in [Tasks -> AllKinds \cup {None}]
  /\ prev \in [Tasks -> Statuses]
  /\ loaded \in [Tasks -> Analyses]

Busy == status \in {"queued", "extracting", "analyzing"}

(* What LibraryCatalog::scan_all makes of the stored artifacts.            *)
DiskStatus ==
  IF analysis # None THEN "ready" ELSE IF extraction THEN "extracted" ELSE "discovered"

Init ==
  /\ extraction \in InitExtraction
  /\ analysis \in {None, Old}
  /\ status = DiskStatus
  /\ job = None
  /\ lock = None
  /\ guard = None
  /\ scan = None
  /\ pc = [t \in Tasks |-> "idle"]
  /\ kind = [t \in Tasks |-> None]
  /\ prev = [t \in Tasks |-> "discovered"]
  /\ loaded = [t \in Tasks |-> None]

Goto(t, from, to) ==
  /\ pc[t] = from
  /\ pc' = [pc EXCEPT ![t] = to]

-----------------------------------------------------------------------------
(* Reservation: queue_analysis and analyze_now, refresh_component,         *)
(* queue_feedback, markdown.                                               *)

(* Feedback needs an analysis; a stored extraction answers the Markdown    *)
(* request without a reservation; the map and the sources never reserve.   *)
Start(t) ==
  \E k \in Kinds :
    /\ kind' = [kind EXCEPT ![t] = k]
    /\ Goto(t, "idle",
            CASE k = "map" -> "load"
              [] k = "source" -> "guard"
              [] k = "feedback" /\ analysis = None -> "done"
              [] k = "markdown" /\ extraction -> "done"
              [] OTHER -> "reserve")
    /\ UNCHANGED <<shared, prev, loaded>>

(* Fault for the mutation runs: the status is not looked at.               *)
ReserveBlindly(t) ==
  /\ Goto(t, "reserve", IF kind[t] = "markdown" THEN "load" ELSE "begin")
  /\ status' = CASE kind[t] = "markdown" -> "extracting"
                 [] kind[t] = "refresh"  -> "analyzing"
                 [] OTHER                -> "queued"
  /\ prev' = [prev EXCEPT ![t] = status]
  /\ UNCHANGED <<extraction, analysis, job, lock, guard, scan, kind, loaded>>

Reserve(t) ==
  /\ ~Busy
  /\ Goto(t, "reserve", IF kind[t] = "markdown" THEN "load" ELSE "begin")
  /\ status' = CASE kind[t] = "markdown" -> "extracting"
                 [] kind[t] = "refresh"  -> "analyzing"
                 [] OTHER                -> "queued"
  /\ prev' = [prev EXCEPT ![t] = status]
  /\ UNCHANGED <<extraction, analysis, job, lock, guard, scan, kind, loaded>>

(* AlreadyProcessing, or an analysis that is ready and not forced.         *)
Refuse(t) ==
  /\ Busy \/ (kind[t] = "analyze" /\ status = "ready")
  /\ Goto(t, "reserve", "done")
  /\ UNCHANGED <<shared, kind, prev, loaded>>

-----------------------------------------------------------------------------
(* The job record: JobTracker::begin, transition, complete and fail write  *)
(* whatever job the paper has by then.                                     *)
Begin(t) ==
  /\ Goto(t, "begin", IF kind[t] = "feedback" THEN "record" ELSE "run")
  /\ job' = [owner |-> t, state |-> "queued", by |-> t]
  /\ UNCHANGED <<status, extraction, analysis, lock, guard, scan, kind, prev, loaded>>

(* begin_feedback_record appends to feedback.jsonl; the revision is        *)
(* spawned after it.                                                       *)
Record(t) ==
  /\ Goto(t, "record", "run")
  /\ UNCHANGED <<shared, kind, prev, loaded>>

EndJob(t, state) ==
  job' = IF job = None THEN None ELSE [job EXCEPT !.state = state, !.by = t]

Run(t) ==
  /\ Goto(t, "run", "load")
  /\ EndJob(t, "running")
  /\ UNCHANGED <<status, extraction, analysis, lock, guard, scan, kind, prev, loaded>>

-----------------------------------------------------------------------------
(* load_or_extract, shared by every kind.  The sources hold tools_extract  *)
(* meanwhile; the other callers do not.                                    *)
TakeGuard(t) ==
  /\ guard = None
  /\ Goto(t, "guard", "load")
  /\ guard' = t
  /\ UNCHANGED <<status, extraction, analysis, job, lock, scan, kind, prev, loaded>>

DropGuard(t) == guard' = IF guard = t THEN None ELSE guard

AfterLoad(t) ==
  CASE kind[t] \in Runs      -> "prepare"
    [] kind[t] = "markdown"  -> "render"
    [] kind[t] = "map"       -> "inspect"
    [] OTHER                 -> "done"

LoadStored(t) ==
  /\ extraction
  /\ Goto(t, "load", AfterLoad(t))
  /\ DropGuard(t)
  /\ UNCHANGED <<status, extraction, analysis, job, lock, scan, kind, prev, loaded>>

BeginExtraction(t) ==
  /\ ~extraction
  /\ Goto(t, "load", "extract")
  /\ status' = "extracting"
  /\ UNCHANGED <<extraction, analysis, job, lock, guard, scan, kind, prev, loaded>>

Extract(t) ==
  /\ Goto(t, "extract", "peek")
  /\ extraction' = TRUE
  /\ UNCHANGED <<status, analysis, job, lock, guard, scan, kind, prev, loaded>>

(* has_analysis is read before the catalog is locked again.                *)
Peek(t) ==
  /\ Goto(t, "peek", "mark")
  /\ loaded' = [loaded EXCEPT ![t] = analysis]
  /\ UNCHANGED <<shared, kind, prev>>

(* Fault for the mutation runs: every extraction counts as an analysis.    *)
MarkReady(t) ==
  /\ Goto(t, "mark", AfterLoad(t))
  /\ status' = "ready"
  /\ DropGuard(t)
  /\ UNCHANGED <<extraction, analysis, job, lock, scan, kind, prev, loaded>>

Mark(t) ==
  /\ Goto(t, "mark", AfterLoad(t))
  /\ status' = IF loaded[t] # None THEN "ready" ELSE "extracted"
  /\ DropGuard(t)
  /\ UNCHANGED <<extraction, analysis, job, lock, scan, kind, prev, loaded>>

-----------------------------------------------------------------------------
(* run_analysis, refresh_component and run_feedback after the extraction.  *)

(* A run sets Analyzing now; a refresh did so when it reserved the paper,  *)
(* and loads the analysis it will amend.                                   *)
Prepare(t) ==
  /\ Goto(t, "prepare", "model")
  /\ IF kind[t] = "refresh"
       THEN analysis # None /\ loaded' = [loaded EXCEPT ![t] = analysis] /\ UNCHANGED status
       ELSE /\ kind[t] = "feedback" => analysis # None
            /\ status' = "analyzing"
            /\ UNCHANGED loaded
  /\ UNCHANGED <<extraction, analysis, job, lock, guard, scan, kind, prev>>

Generate(t) ==
  /\ Goto(t, "model", "lock")
  /\ UNCHANGED <<shared, kind, prev, loaded>>

(* paper_map loads the analysis before it waits for highlight_write.       *)
Inspect(t) ==
  /\ Goto(t, "inspect", IF analysis = Old THEN "lock" ELSE "done")
  /\ loaded' = [loaded EXCEPT ![t] = analysis]
  /\ UNCHANGED <<shared, kind, prev>>

TakeLock(t) ==
  /\ lock = None
  /\ Goto(t, "lock", "save")
  /\ lock' = t
  /\ UNCHANGED <<status, extraction, analysis, job, guard, scan, kind, prev, loaded>>

(* save_analysis; a refresh keeps highlight_write until it is through.     *)
Save(t) ==
  /\ Goto(t, "save", IF kind[t] = "map" THEN "done" ELSE "complete")
  /\ analysis' = IF kind[t] = "map" THEN Checked ELSE t
  /\ lock' = IF kind[t] = "refresh" THEN t ELSE None
  /\ UNCHANGED <<status, extraction, job, guard, scan, kind, prev, loaded>>

Unlock(t) == lock' = IF lock = t THEN None ELSE lock

Release(t) == Unlock(t) /\ DropGuard(t)

Complete(t) ==
  /\ Goto(t, "complete", "settle")
  /\ EndJob(t, "completed")
  /\ Unlock(t)
  /\ UNCHANGED <<status, extraction, analysis, guard, scan, kind, prev, loaded>>

Settle(t) ==
  /\ Goto(t, "settle", "done")
  /\ status' = IF kind[t] = "refresh" THEN prev[t] ELSE "ready"
  /\ UNCHANGED <<extraction, analysis, job, lock, guard, scan, kind, prev, loaded>>

(* ensure_markdown of the Markdown request.                                *)
Render(t) ==
  /\ Goto(t, "render", "done")
  /\ UNCHANGED <<shared, kind, prev, loaded>>

-----------------------------------------------------------------------------
(* Failure.  Where a task can fail, and what its handler does then.        *)
MayFail(t) ==
  \/ pc[t] \in {"begin", "record", "run", "extract", "peek", "prepare", "render", "model",
                "save", "complete", "inspect"}
  \/ pc[t] = "load" /\ ReadFaults

(* An analysis or revision fails its job, then marks the entry; a refresh  *)
(* restores the status it found and fails the job afterwards; the Markdown *)
(* and map requests mark the entry when the extraction fails, the other    *)
(* sources only return the error.                                          *)
(* Fault for the mutation runs: a failed refresh does not restore the      *)
(* status it found.                                                        *)
FailToJob(t) ==
  CASE kind[t] \in {"refresh"} -> "failjob"
    [] kind[t] \in {"analyze", "feedback"} ->
         IF pc[t] = "begin" THEN "markfail" ELSE "failjob"
    [] kind[t] = "markdown" -> "markfail"
    [] kind[t] = "map" /\ pc[t] \in {"load", "extract", "peek"} -> "markfail"
    [] OTHER -> "done"

FailTo(t) ==
  CASE kind[t] = "refresh" -> "restore"
    [] kind[t] \in {"analyze", "feedback"} ->
         IF pc[t] = "begin" THEN "markfail" ELSE "failjob"
    [] kind[t] = "markdown" -> "markfail"
    [] kind[t] = "map" /\ pc[t] \in {"load", "extract", "peek"} -> "markfail"
    [] OTHER -> "done"

Fail(t) ==
  /\ MayFail(t)
  /\ pc' = [pc EXCEPT ![t] = FailTo(t)]
  /\ Release(t)
  /\ UNCHANGED <<status, extraction, analysis, job, scan, kind, prev, loaded>>

Restore(t) ==
  /\ Goto(t, "restore", "failjob")
  /\ status' = prev[t]
  /\ UNCHANGED <<extraction, analysis, job, lock, guard, scan, kind, prev, loaded>>

FailJob(t) ==
  /\ Goto(t, "failjob", IF kind[t] = "refresh" THEN "done" ELSE "markfail")
  /\ EndJob(t, "failed")
  /\ UNCHANGED <<status, extraction, analysis, lock, guard, scan, kind, prev, loaded>>

MarkFailure(t) ==
  /\ Goto(t, "markfail", "done")
  /\ status' = "failed"
  /\ UNCHANGED <<extraction, analysis, job, lock, guard, scan, kind, prev, loaded>>

(* A closed connection drops the handler's future at its await.  Analyses  *)
(* and revisions are spawned once their job has begun.                     *)
Handled(t) ==
  /\ pc[t] \in InFlight
  /\ kind[t] \in {"analyze", "feedback"} => pc[t] \in {"reserve", "begin", "record"}

Leave(t) ==
  /\ ClientsLeave
  /\ Handled(t)
  /\ pc' = [pc EXCEPT ![t] = "gone"]
  /\ Release(t)
  /\ UNCHANGED <<status, extraction, analysis, job, scan, kind, prev, loaded>>

-----------------------------------------------------------------------------
(* AppState::refresh: the disk is scanned first, the catalog replaced      *)
(* later; replace_with keeps the status of a paper that is in work.        *)
Scan ==
  /\ scan = None
  /\ scan' = DiskStatus
  /\ UNCHANGED <<status, extraction, analysis, job, lock, guard, local>>

ReplaceCatalog ==
  /\ scan # None
  /\ status' = IF Busy THEN status ELSE scan
  /\ scan' = None
  /\ UNCHANGED <<extraction, analysis, job, lock, guard, local>>

(* A restart loses the tasks and rebuilds the catalog and the jobs from    *)
(* disk: JobTracker::load turns an active job into an interrupted one.     *)
Restart ==
  /\ pc' = [t \in Tasks |-> IF pc[t] \in InFlight THEN "gone" ELSE pc[t]]
  /\ status' = DiskStatus
  /\ job' = IF job # None /\ job.state \in {"queued", "running"}
              THEN [job EXCEPT !.state = "interrupted"] ELSE job
  /\ lock' = None
  /\ guard' = None
  /\ scan' = None
  /\ UNCHANGED <<extraction, analysis, kind, prev, loaded>>

Step(t) ==
  \/ Reserve(t) \/ Refuse(t) \/ Begin(t) \/ Record(t) \/ Run(t)
  \/ TakeGuard(t) \/ LoadStored(t) \/ BeginExtraction(t) \/ Extract(t) \/ Peek(t) \/ Mark(t)
  \/ Prepare(t) \/ Generate(t) \/ Inspect(t) \/ TakeLock(t) \/ Save(t)
  \/ Complete(t) \/ Settle(t) \/ Render(t)
  \/ Fail(t) \/ Restore(t) \/ FailJob(t) \/ MarkFailure(t)

Next ==
  \/ \E t \in Tasks : Start(t) \/ Step(t) \/ Leave(t)
  \/ Scan \/ ReplaceCatalog
  \/ Restart

Spec == Init /\ [][Next]_vars

(* The runtime polls every task until it ends; models and subprocesses run *)
(* under timeouts.  Nothing forces a scan, a restart or a departure.       *)
FairSpec == Spec /\ \A t \in Tasks : WF_vars(Step(t))

-----------------------------------------------------------------------------
(* A task between the reservation it made and the step that gives it up.   *)
Reserved(t) ==
  /\ kind[t] \in Runs
  /\ pc[t] \in InFlight \ {"reserve"}
  /\ ~(kind[t] = "refresh" /\ pc[t] = "failjob")

(* "a task is already running for paper": the per-paper reservation lets   *)
(* only one analysis, refresh or revision work at a time.                  *)
ExclusiveRuns ==
  \A s, t \in Tasks : Reserved(s) /\ Reserved(t) => s = t

(* The status claims no artifact that is not stored, whatever order the    *)
(* tasks, the scans and the restarts take.                                 *)
StatusBacked ==
  /\ status = "ready" => analysis # None
  /\ status = "extracted" => extraction

(* A paper is refused as being in work only while somebody works on it.    *)
BusyMeansRunning ==
  Busy => \E t \in Tasks : pc[t] \in InFlight

(* A paper in work is not in work for ever, provided its clients stay and  *)
(* the server runs.                                                        *)
Settles == Busy ~> ~Busy

(* An analysis is only amended by somebody who had loaded it: no refresh   *)
(* or map writes back an older one over a newer.                           *)
NoLostAnalysis ==
  [][\A t \in Tasks : pc[t] = "save" /\ pc'[t] \in {"complete", "done"}
                      /\ analysis' # analysis /\ kind[t] \in {"refresh", "map"}
       => analysis = loaded[t]]_vars
=============================================================================
