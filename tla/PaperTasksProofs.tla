-------------------------- MODULE PaperTasksProofs --------------------------
(***************************************************************************)
(* Proofs about PaperTasks for any number of tasks and any kinds of them.  *)
(***************************************************************************)
EXTENDS PaperTasks, TLAPS

-----------------------------------------------------------------------------
(* Type correctness.  TypeOK is inductive as it stands.                    *)

(* JobTracker::update_job keeps the record of a job a record.              *)
LEMMA EndJobType ==
  ASSUME NEW Job, job \in Job \cup {None}, Job = [owner: Tasks, state: JobStates, by: Tasks],
         NEW t \in Tasks, NEW state \in JobStates, EndJob(t, state)
  PROVE  job' \in Job \cup {None}
<1>1. CASE job = None
  BY <1>1 DEF EndJob
<1>2. CASE job # None
  <2>1. [job EXCEPT !.state = state, !.by = t] \in Job
    BY <1>2
  <2> QED
    BY <1>2, <2>1 DEF EndJob
<1> QED
  BY <1>1, <1>2

(* Every step a task takes on its own keeps the types: Reserve to          *)
(* MarkFailure of queue_analysis, refresh_component, queue_feedback,       *)
(* markdown, paper_map and load_or_extract.                                *)
LEMMA StepType ==
  ASSUME TypeOK, NEW t \in Tasks, Step(t)
  PROVE  TypeOK'
<1> USE DEF TypeOK, Goto, shared, Statuses, Analyses, JobStates, InFlight
<1>1. CASE Reserve(t) \/ Refuse(t)
  BY <1>1 DEF Reserve, Refuse
<1>2. CASE Begin(t)
  BY <1>2 DEF Begin
<1>3. CASE Record(t)
  BY <1>3 DEF Record
<1>4. CASE Run(t)
  <2>1. job' \in [owner: Tasks, state: JobStates, by: Tasks] \cup {None}
    BY <1>4, EndJobType DEF Run
  <2> QED
    BY <1>4, <2>1 DEF Run
<1>5. CASE TakeGuard(t)
  BY <1>5 DEF TakeGuard
<1>6. CASE LoadStored(t)
  BY <1>6 DEF LoadStored, AfterLoad, DropGuard
<1>7. CASE BeginExtraction(t) \/ Extract(t) \/ Peek(t)
  <2>1. CASE BeginExtraction(t)
    BY <2>1 DEF BeginExtraction
  <2>2. CASE Extract(t)
    BY <2>2 DEF Extract
  <2>3. CASE Peek(t)
    BY <2>3 DEF Peek
  <2> QED
    BY <1>7, <2>1, <2>2, <2>3
<1>8. CASE Mark(t)
  BY <1>8 DEF Mark, AfterLoad, DropGuard
<1>9. CASE Prepare(t)
  BY <1>9 DEF Prepare
<1>10. CASE Generate(t) \/ Inspect(t) \/ Render(t)
  BY <1>10 DEF Generate, Inspect, Render
<1>11. CASE TakeLock(t)
  BY <1>11 DEF TakeLock
<1>12. CASE Save(t)
  BY <1>12 DEF Save
<1>13. CASE Complete(t)
  <2>1. job' \in [owner: Tasks, state: JobStates, by: Tasks] \cup {None}
    BY <1>13, EndJobType DEF Complete
  <2> QED
    BY <1>13, <2>1 DEF Complete, Unlock
<1>14. CASE Settle(t)
  BY <1>14 DEF Settle
<1>15. CASE Fail(t)
  <2>1. FailTo(t) \in InFlight \cup {"idle", "done", "gone"}
    BY DEF FailTo
  <2> QED
    BY <1>15, <2>1 DEF Fail, Release, Unlock, DropGuard
<1>16. CASE Restore(t)
  BY <1>16 DEF Restore
<1>17. CASE FailJob(t)
  <2>1. job' \in [owner: Tasks, state: JobStates, by: Tasks] \cup {None}
    BY <1>17, EndJobType DEF FailJob
  <2> QED
    BY <1>17, <2>1 DEF FailJob
<1>18. CASE MarkFailure(t)
  BY <1>18 DEF MarkFailure
<1> QED
  BY <1>1, <1>2, <1>3, <1>4, <1>5, <1>6, <1>7, <1>8, <1>9, <1>10, <1>11, <1>12,
     <1>13, <1>14, <1>15, <1>16, <1>17, <1>18 DEF Step

(* The initial states have the types, and every step of the server keeps   *)
(* them: the tasks, departures, catalog refreshes and restarts.            *)
LEMMA TypeInductive ==
  /\ Init => TypeOK
  /\ TypeOK /\ [Next]_vars => TypeOK'
<1>1. ASSUME Init PROVE TypeOK
  BY <1>1, FlagsAssumption DEF Init, TypeOK, DiskStatus, Statuses, Analyses
<1>2. ASSUME TypeOK, [Next]_vars PROVE TypeOK'
  <2> USE <1>2 DEF TypeOK
  <2>1. ASSUME NEW t \in Tasks, Start(t) PROVE TypeOK'
    BY <2>1, KindsAssumption DEF Start, Goto, shared, AllKinds, Runs, InFlight
  <2>2. ASSUME NEW t \in Tasks, Leave(t) PROVE TypeOK'
    BY <2>2 DEF Leave, Release, Unlock, DropGuard
  <2>3. CASE Scan \/ ReplaceCatalog
    BY <2>3 DEF Scan, ReplaceCatalog, DiskStatus, Statuses, local
  <2>4. CASE Restart
    BY <2>4 DEF Restart, DiskStatus, Statuses, JobStates
  <2>5. CASE UNCHANGED vars
    BY <2>5 DEF vars, shared, local
  <2> QED
    BY <2>1, <2>2, <2>3, <2>4, <2>5, StepType DEF Next
<1> QED
  BY <1>1, <1>2

(* The catalog, the job record and the tasks keep the types of the code's  *)
(* ProcessingStatus, AnalysisJob and control states, whatever interleaves. *)
THEOREM TypeCorrect == Spec => []TypeOK
<1>1. Init => TypeOK
  BY TypeInductive
<1>2. TypeOK /\ [Next]_vars => TypeOK'
  BY TypeInductive
<1> QED
  BY <1>1, <1>2, PTL DEF Spec

-----------------------------------------------------------------------------
(* Exclusion of the runs of an extracted paper.  The reservation is the    *)
(* status, so that one run at a time works follows only if nobody else     *)
(* takes a busy status away: load_or_extract must not extract, and reading *)
(* the stored extraction must not fail, which paper_map would mark.        *)
Extracted == InitExtraction = {TRUE} /\ ReadFaults = FALSE

(* No task is inside an extraction.                                        *)
NoExtraction ==
  /\ extraction = TRUE
  /\ \A t \in Tasks : pc[t] \notin {"extract", "peek", "mark", "render"}

(* Which kinds of task reach the steps that give a reservation up.         *)
Roles ==
  \A t \in Tasks :
    /\ kind[t] = "markdown" => pc[t] \in {"done", "gone"}
    /\ pc[t] \in {"reserve", "begin", "record", "run", "prepare", "model", "complete", "settle",
                  "restore", "failjob"} => kind[t] \in Runs
    /\ pc[t] \in {"lock", "save"} => kind[t] \in Runs \cup {"map"}
    /\ pc[t] = "markfail" => kind[t] \in {"analyze", "feedback"}
    /\ pc[t] = "restore" => kind[t] = "refresh"
    /\ pc[t] = "inspect" => kind[t] = "map"

ReservedBusy == \A t \in Tasks : Reserved(t) => Busy

ExclInv == TypeOK /\ NoExtraction /\ Roles /\ ReservedBusy /\ ExclusiveRuns

(* A task that reserves nothing new, and leaves a reserved paper busy,     *)
(* keeps the reservations apart.                                           *)
LEMMA KeepsReservations ==
  ASSUME ReservedBusy, ExclusiveRuns, Busy => Busy',
         \A s \in Tasks : Reserved(s)' => Reserved(s)
  PROVE  ReservedBusy' /\ ExclusiveRuns'
BY DEF ReservedBusy, ExclusiveRuns

(* A task that ends its own reservation ends the only one there is.        *)
LEMMA EndsReservation ==
  ASSUME ExclusiveRuns, NEW t \in Tasks, Reserved(t), ~Reserved(t)',
         \A s \in Tasks \ {t} : Reserved(s)' => Reserved(s)
  PROVE  ReservedBusy' /\ ExclusiveRuns'
BY DEF ReservedBusy, ExclusiveRuns

(* The steps of a task keep the invariant of an extracted paper.           *)
LEMMA StepExclusion ==
  ASSUME Extracted, ExclInv, NEW t \in Tasks, Step(t)
  PROVE  ExclInv'
<1>0. TypeOK'
  BY StepType DEF ExclInv
<1> USE DEF ExclInv, TypeOK, Goto, shared, NoExtraction, Roles, Reserved, Runs, InFlight
<1>1. CASE Reserve(t)
  <2>1. ~Busy /\ \A s \in Tasks : ~Reserved(s)
    BY <1>1 DEF Reserve, ReservedBusy
  <2>2. Busy' /\ \A s \in Tasks \ {t} : ~Reserved(s)'
    BY <1>1, <2>1 DEF Reserve, Busy
  <2>3. ReservedBusy' /\ ExclusiveRuns'
    BY <2>2 DEF ReservedBusy, ExclusiveRuns
  <2>4. kind[t] # "markdown"
    BY <1>1 DEF Reserve
  <2>5. pc'[t] = "begin" /\ kind' = kind
    BY <1>1, <2>4 DEF Reserve
  <2>6. NoExtraction' /\ Roles'
    BY <1>1, <2>4, <2>5 DEF Reserve
  <2> QED
    BY <1>0, <2>3, <2>6
<1>2. CASE Refuse(t) \/ Begin(t) \/ Record(t) \/ Run(t) \/ TakeGuard(t) \/ LoadStored(t)
  <2>1. pc' = [pc EXCEPT ![t] = pc'[t]] /\ kind' = kind /\ extraction' = extraction
    BY <1>2 DEF Refuse, Begin, Record, Run, TakeGuard, LoadStored
  <2>2. \/ pc'[t] = "done"
        \/ pc'[t] \in {"run", "record", "load"} /\ pc[t] \in {"begin", "record", "run"}
        \/ pc'[t] = "load" /\ pc[t] = "guard"
        \/ pc'[t] = AfterLoad(t) /\ pc[t] = "load"
    BY <1>2 DEF Refuse, Begin, Record, Run, TakeGuard, LoadStored
  <2>3. NoExtraction' /\ Roles'
    BY <2>1, <2>2 DEF AfterLoad
  <2>4. \A s \in Tasks : Reserved(s)' => Reserved(s)
    BY <2>1, <2>2 DEF AfterLoad
  <2>5. Busy => Busy'
    BY <1>2 DEF Refuse, Begin, Record, Run, TakeGuard, LoadStored, Busy
  <2> QED
    BY <1>0, <2>3, <2>4, <2>5, KeepsReservations
<1>3. CASE BeginExtraction(t) \/ Extract(t) \/ Peek(t) \/ Mark(t) \/ Render(t)
  BY <1>3 DEF BeginExtraction, Extract, Peek, Mark, Render
<1>4. CASE Prepare(t) \/ Generate(t) \/ Inspect(t) \/ TakeLock(t) \/ Save(t) \/ Complete(t)
  <2>1. pc' = [pc EXCEPT ![t] = pc'[t]] /\ kind' = kind /\ extraction' = extraction
    BY <1>4 DEF Prepare, Generate, Inspect, TakeLock, Save, Complete
  <2>2. \/ pc'[t] \in {"model", "lock", "settle"} /\ pc[t] \in {"prepare", "model", "complete"}
        \/ pc'[t] \in {"lock", "done"} /\ pc[t] = "inspect"
        \/ pc'[t] = "save" /\ pc[t] = "lock"
        \/ pc'[t] = (IF kind[t] = "map" THEN "done" ELSE "complete") /\ pc[t] = "save"
    BY <1>4 DEF Prepare, Generate, Inspect, TakeLock, Save, Complete
  <2>3. NoExtraction' /\ Roles'
    BY <2>1, <2>2
  <2>4. \A s \in Tasks : Reserved(s)' => Reserved(s)
    BY <2>1, <2>2
  <2>5. Busy => Busy'
    BY <1>4 DEF Prepare, Generate, Inspect, TakeLock, Save, Complete, Busy
  <2> QED
    BY <1>0, <2>3, <2>4, <2>5, KeepsReservations
<1>5. CASE Settle(t) \/ Restore(t) \/ MarkFailure(t)
  <2>1. NoExtraction' /\ Roles'
    BY ZenonT(60), <1>5 DEF Settle, Restore, MarkFailure
  <2>2. Reserved(t) /\ ~Reserved(t)'
    BY <1>5 DEF Settle, Restore, MarkFailure
  <2>3. \A s \in Tasks \ {t} : Reserved(s)' => Reserved(s)
    BY <1>5 DEF Settle, Restore, MarkFailure
  <2> QED
    BY <1>0, <2>1, <2>2, <2>3, EndsReservation
<1>6. CASE Fail(t)
  <2>1. /\ pc' = [pc EXCEPT ![t] = FailTo(t)] /\ kind' = kind /\ extraction' = extraction
        /\ pc[t] \in {"begin", "record", "run", "prepare", "model", "save", "complete", "inspect"}
    BY <1>6 DEF Fail, MayFail, Extracted
  <2>2. Busy => Busy'
    BY <1>6 DEF Fail, Busy
  <2>3. CASE kind[t] \in Runs
    <3>1. FailTo(t) \in {"restore", "markfail", "failjob"}
      BY <2>3 DEF FailTo
    <3>2. /\ FailTo(t) = "restore" <=> kind[t] = "refresh"
          /\ FailTo(t) = "markfail" => kind[t] \in {"analyze", "feedback"}
      BY <2>3 DEF FailTo
    <3>3. Reserved(t)
      BY <2>1, <2>3
    <3>4. NoExtraction' /\ Roles'
      <4>1. \A s \in Tasks \ {t} : pc'[s] = pc[s]
        BY <2>1
      <4>2. pc'[t] = FailTo(t)
        BY <2>1
      <4> QED
        BY <2>1, <2>3, <3>1, <3>2, <4>1, <4>2
    <3>5. \A s \in Tasks : Reserved(s)' => Reserved(s)
      BY <2>1, <3>3
    <3> QED
      BY <1>0, <2>2, <3>4, <3>5, KeepsReservations
  <2>4. CASE kind[t] \notin Runs
    <3>1. kind[t] = "map" /\ pc[t] \in {"save", "inspect"}
      BY <2>1, <2>4
    <3>2. FailTo(t) = "done"
      BY <3>1 DEF FailTo
    <3>3. NoExtraction' /\ Roles'
      BY <2>1, <3>1, <3>2
    <3>4. \A s \in Tasks : Reserved(s)' => Reserved(s)
      BY <2>1, <3>1, <3>2
    <3> QED
      BY <1>0, <2>2, <3>3, <3>4, KeepsReservations
  <2> QED
    BY <2>3, <2>4
<1>7. CASE FailJob(t)
  <2>1. NoExtraction' /\ Roles'
    BY <1>7 DEF FailJob
  <2>2. \A s \in Tasks : Reserved(s)' => Reserved(s)
    BY <1>7 DEF FailJob
  <2>3. Busy => Busy'
    BY <1>7 DEF FailJob, Busy
  <2> QED
    BY <1>0, <2>1, <2>2, <2>3, KeepsReservations
<1> QED
  BY <1>1, <1>2, <1>3, <1>4, <1>5, <1>6, <1>7 DEF Step

(* The invariant holds at the start and is kept by every step.             *)
LEMMA ExclInductive ==
  ASSUME Extracted
  PROVE  /\ Init => ExclInv
         /\ ExclInv /\ [Next]_vars => ExclInv'
<1>1. ASSUME Init PROVE ExclInv
  BY <1>1, TypeInductive, TokensAssumption
     DEF Init, AllKinds, ExclInv, Extracted, NoExtraction, Roles, ReservedBusy, ExclusiveRuns,
         Reserved, Runs, InFlight
<1>2. ASSUME ExclInv, [Next]_vars PROVE ExclInv'
  <2>0. TypeOK'
    BY <1>2, TypeInductive DEF ExclInv
  <2> USE <1>2 DEF ExclInv, TypeOK, NoExtraction, Roles, Reserved, Runs, InFlight
  <2>1. ASSUME NEW t \in Tasks, Start(t) PROVE ExclInv'
    <3>1. NoExtraction' /\ Roles'
      BY <2>1, KindsAssumption DEF Start, Goto, shared, AllKinds
    <3>2. (\A s \in Tasks : Reserved(s)' => Reserved(s)) /\ (Busy => Busy')
      BY <2>1, KindsAssumption DEF Start, Goto, shared, AllKinds, Busy
    <3> QED
      BY <2>0, <3>1, <3>2, KeepsReservations
  <2>2. ASSUME NEW t \in Tasks, Leave(t) PROVE ExclInv'
    <3>1. NoExtraction' /\ Roles'
      BY <2>2 DEF Leave
    <3>2. (\A s \in Tasks : Reserved(s)' => Reserved(s)) /\ (Busy => Busy')
      BY <2>2 DEF Leave, Busy
    <3> QED
      BY <2>0, <3>1, <3>2, KeepsReservations
  <2>3. CASE Scan \/ ReplaceCatalog
    <3>1. NoExtraction' /\ Roles'
      BY <2>3 DEF Scan, ReplaceCatalog, local
    <3>2. (\A s \in Tasks : Reserved(s)' => Reserved(s)) /\ (Busy => Busy')
      BY <2>3 DEF Scan, ReplaceCatalog, local, Busy
    <3> QED
      BY <2>0, <3>1, <3>2, KeepsReservations
  <2>4. CASE Restart
    <3>1. NoExtraction' /\ Roles'
      BY <2>4 DEF Restart
    <3>2. \A s \in Tasks : ~Reserved(s)'
      BY <2>4 DEF Restart
    <3> QED
      BY <2>0, <3>1, <3>2 DEF ReservedBusy, ExclusiveRuns
  <2>5. CASE UNCHANGED vars
    <3>1. NoExtraction' /\ Roles'
      BY <2>5 DEF vars, shared, local
    <3>2. (\A s \in Tasks : Reserved(s)' => Reserved(s)) /\ (Busy => Busy')
      BY <2>5 DEF vars, shared, local, Busy
    <3> QED
      BY <2>0, <3>1, <3>2, KeepsReservations
  <2> QED
    BY <2>1, <2>2, <2>3, <2>4, <2>5, StepExclusion DEF Next
<1> QED
  BY <1>1, <1>2

(* Once a paper is extracted and its extraction can be read, the status    *)
(* reservation lets one analysis, refresh or revision work at a time.      *)
THEOREM ExtractedExclusion ==
  ASSUME Extracted
  PROVE  Spec => []ExclusiveRuns
<1>1. Init => ExclInv
  BY ExclInductive
<1>2. ExclInv /\ [Next]_vars => ExclInv'
  BY ExclInductive
<1>3. ExclInv => ExclusiveRuns
  BY DEF ExclInv
<1> QED
  BY <1>1, <1>2, <1>3, PTL DEF Spec

-----------------------------------------------------------------------------
(* The status claims only what is stored, without any assumption on the    *)
(* kinds of task.  Statuses are also carried along: by a scan until it     *)
(* replaces the catalog, by a refresh until it restores what it found, and *)
(* by an extraction between its look at the analysis and its mark.         *)
Backed(s) ==
  /\ s = "ready" => analysis # None
  /\ s = "extracted" => extraction

CarriedBacked ==
  /\ scan # None => Backed(scan)
  /\ \A t \in Tasks : Backed(prev[t])

StepsBacked ==
  \A t \in Tasks :
    /\ pc[t] \in {"peek", "mark"} => extraction
    /\ pc[t] = "mark" /\ loaded[t] # None => analysis # None
    /\ pc[t] \in {"complete", "settle"} => analysis # None

BackInv == TypeOK /\ Backed(status) /\ CarriedBacked /\ StepsBacked

(* Artifacts are replaced but never removed, so what a status claimed      *)
(* remains stored.                                                         *)
LEMMA ArtifactsStay ==
  ASSUME TypeOK, [Next]_vars
  PROVE  /\ extraction => extraction'
         /\ analysis # None => analysis' # None
<1>1. ASSUME NEW t \in Tasks, Step(t)
      PROVE  (extraction => extraction') /\ (analysis # None => analysis' # None)
  BY <1>1, TokensAssumption
     DEF Step, Reserve, Refuse, Begin, Record, Run, TakeGuard, LoadStored,
         BeginExtraction, Extract, Peek, Mark, Prepare, Generate, Inspect, TakeLock, Save,
         Complete, Settle, Render, Fail, Restore, FailJob, MarkFailure, shared
<1> QED
  BY <1>1 DEF Next, vars, shared, Start, Leave, Scan, ReplaceCatalog, Restart

(* The steps of a task keep every status that is shown or carried backed.  *)
LEMMA StepBacked ==
  ASSUME BackInv, NEW t \in Tasks, Step(t)
  PROVE  BackInv'
<1>0. /\ TypeOK'
      /\ extraction => extraction'
      /\ analysis # None => analysis' # None
  BY StepType, ArtifactsStay DEF BackInv, Next
<1> USE <1>0 DEF BackInv, TypeOK, Backed, CarriedBacked, StepsBacked, Goto, shared, InFlight
<1>1. CASE Reserve(t)
  <2>1. prev' = [prev EXCEPT ![t] = status] /\ status' \notin {"ready", "extracted"}
    BY <1>1 DEF Reserve
  <2> QED
    BY <1>1, <2>1 DEF Reserve
<1>2. CASE Refuse(t) \/ Begin(t) \/ Record(t) \/ Run(t) \/ TakeGuard(t) \/ Generate(t) \/ Render(t)
  BY <1>2 DEF Refuse, Begin, Record, Run, TakeGuard, Generate, Render
<1>3. CASE LoadStored(t)
  <2>1. pc'[t] \notin {"peek", "mark", "complete", "settle"}
    BY <1>3 DEF LoadStored, AfterLoad
  <2> QED
    BY <1>3, <2>1 DEF LoadStored
<1>4. CASE BeginExtraction(t) \/ Extract(t)
  BY <1>4 DEF BeginExtraction, Extract
<1>5. CASE Peek(t)
  BY <1>5 DEF Peek
<1>6. CASE Mark(t)
  <2>1. pc'[t] \notin {"peek", "mark", "complete", "settle"}
    BY <1>6 DEF Mark, AfterLoad
  <2> QED
    BY <1>6, <2>1 DEF Mark
<1>7. CASE Prepare(t)
  BY <1>7 DEF Prepare
<1>8. CASE Inspect(t) \/ TakeLock(t)
  BY <1>8 DEF Inspect, TakeLock
<1>9. CASE Save(t)
  <2>1. analysis' # None
    BY <1>9, TokensAssumption DEF Save
  <2> QED
    BY <1>9, <2>1 DEF Save
<1>10. CASE Complete(t)
  BY <1>10 DEF Complete
<1>11. CASE Settle(t)
  BY <1>11 DEF Settle
<1>12. CASE Fail(t)
  <2>1. pc'[t] \notin {"peek", "mark", "complete", "settle"}
    BY <1>12 DEF Fail, FailTo
  <2> QED
    BY <1>12, <2>1 DEF Fail
<1>13. CASE Restore(t) \/ FailJob(t) \/ MarkFailure(t)
  BY <1>13 DEF Restore, FailJob, MarkFailure
<1> QED
  BY <1>1, <1>2, <1>3, <1>4, <1>5, <1>6, <1>7, <1>8, <1>9, <1>10, <1>11, <1>12, <1>13
     DEF Step

(* Every step of the server keeps them backed.                             *)
LEMMA BackInductive ==
  /\ Init => BackInv
  /\ BackInv /\ [Next]_vars => BackInv'
<1>1. ASSUME Init PROVE BackInv
  BY <1>1, TypeInductive
     DEF Init, DiskStatus, BackInv, Backed, CarriedBacked, StepsBacked
<1>2. ASSUME BackInv, [Next]_vars PROVE BackInv'
  <2>0. /\ TypeOK'
        /\ extraction => extraction'
        /\ analysis # None => analysis' # None
    BY <1>2, TypeInductive, ArtifactsStay DEF BackInv
  <2> USE <1>2, <2>0 DEF BackInv, TypeOK, Backed, CarriedBacked, StepsBacked
  <2>1. ASSUME NEW t \in Tasks, Start(t) PROVE BackInv'
    <3>1. pc[t] = "idle" /\ pc'[t] \notin {"peek", "mark", "complete", "settle"}
      BY <2>1 DEF Start, Goto
    <3> QED
      BY <2>1, <3>1 DEF Start, Goto, shared
  <2>2. ASSUME NEW t \in Tasks, Leave(t) PROVE BackInv'
    BY <2>2 DEF Leave
  <2>3. CASE Scan \/ ReplaceCatalog
    BY <2>3 DEF Scan, ReplaceCatalog, DiskStatus, local
  <2>4. CASE Restart
    BY <2>4 DEF Restart, DiskStatus, InFlight
  <2>5. CASE UNCHANGED vars
    BY <2>5 DEF vars, shared, local
  <2> QED
    BY <2>1, <2>2, <2>3, <2>4, <2>5, StepBacked DEF Next
<1> QED
  BY <1>1, <1>2

(* The catalog shows Ready or Extracted only when load_analysis or         *)
(* load_extraction would find the artifact.                                *)
THEOREM Backing == Spec => []StatusBacked
<1>1. Init => BackInv
  BY BackInductive
<1>2. BackInv /\ [Next]_vars => BackInv'
  BY BackInductive
<1>3. BackInv => StatusBacked
  BY DEF BackInv, Backed, StatusBacked
<1> QED
  BY <1>1, <1>2, <1>3, PTL DEF Spec

-----------------------------------------------------------------------------
(* The reservation is given up.  A paper in work is held by a task, since  *)
(* the statuses that are carried along, by a scan and by a refresh until   *)
(* it restores what it found, are none of a paper in work, and no client   *)
(* leaves a handler before the handler has given the paper back.           *)
Idle(s) == s \notin {"queued", "extracting", "analyzing"}

CarriedIdle ==
  /\ scan # None => Idle(scan)
  /\ \A t \in Tasks : Idle(prev[t])

HeldInv == ExclInv /\ CarriedIdle /\ (Busy => \E t \in Tasks : Reserved(t))

(* A step that puts no paper to work and takes no reservation keeps it.    *)
LEMMA StaysHeld ==
  ASSUME Busy => \E t \in Tasks : Reserved(t), Busy' => Busy,
         \A s \in Tasks : Reserved(s) => Reserved(s)'
  PROVE  Busy' => \E t \in Tasks : Reserved(t)'
OBVIOUS

(* The steps of a task keep every paper in work held by a task.            *)
LEMMA StepHeld ==
  ASSUME Extracted, HeldInv, NEW t \in Tasks, Step(t)
  PROVE  HeldInv'
<1>0. ExclInv'
  BY StepExclusion DEF HeldInv
<1> USE DEF HeldInv, ExclInv, TypeOK, Goto, shared, NoExtraction, Roles, Reserved, Runs,
            InFlight, CarriedIdle, Idle
<1>1. CASE Reserve(t)
  <2>1. kind[t] \in Runs /\ pc'[t] = "begin" /\ kind' = kind
    BY <1>1 DEF Reserve
  <2>2. Reserved(t)'
    BY <2>1
  <2>3. CarriedIdle'
    BY <1>1 DEF Reserve, Busy
  <2> QED
    BY <1>0, <2>2, <2>3
<1>2. CASE Refuse(t)
  <2>1. CarriedIdle' /\ (Busy' => Busy) /\ \A s \in Tasks : Reserved(s) => Reserved(s)'
    BY <1>2 DEF Refuse, Busy
  <2> QED
    BY <1>0, <2>1, StaysHeld
<1>3. CASE \/ Begin(t) \/ Record(t) \/ Run(t) \/ TakeGuard(t) \/ LoadStored(t)
           \/ Generate(t) \/ Inspect(t) \/ TakeLock(t) \/ Save(t) \/ Complete(t)
  <2>1. /\ pc' = [pc EXCEPT ![t] = pc'[t]]
        /\ UNCHANGED <<kind, status, scan, prev>>
    BY <1>3 DEF Begin, Record, Run, TakeGuard, LoadStored, Generate, Inspect, TakeLock, Save,
                Complete
  <2>2. kind[t] \in Runs => pc'[t] \in {"run", "record", "load", "prepare", "lock", "save",
                                        "complete", "settle"}
    BY <1>3 DEF Begin, Record, Run, TakeGuard, LoadStored, Generate, Inspect, TakeLock, Save,
                Complete, AfterLoad
  <2>3. CarriedIdle' /\ (Busy' => Busy)
    BY <2>1 DEF Busy
  <2>4. \A s \in Tasks : Reserved(s) => Reserved(s)'
    BY <2>1, <2>2
  <2> QED
    BY <1>0, <2>3, <2>4, StaysHeld
<1>4. CASE BeginExtraction(t) \/ Extract(t) \/ Peek(t) \/ Mark(t) \/ Render(t)
  BY <1>4 DEF BeginExtraction, Extract, Peek, Mark, Render
<1>5. CASE Prepare(t)
  <2>1. kind[t] \in Runs /\ pc'[t] = "model" /\ kind' = kind
    BY <1>5 DEF Prepare
  <2>2. Reserved(t)'
    BY <2>1
  <2>3. CarriedIdle'
    BY <1>5 DEF Prepare
  <2> QED
    BY <1>0, <2>2, <2>3
<1>6. CASE Settle(t) \/ Restore(t) \/ MarkFailure(t)
  <2>1. status' \in {prev[t], "ready", "failed"} /\ UNCHANGED <<scan, prev>>
    BY <1>6 DEF Settle, Restore, MarkFailure
  <2>2. ~Busy' /\ CarriedIdle'
    BY <2>1 DEF Busy
  <2> QED
    BY <1>0, <2>2
<1>7. CASE Fail(t)
  <2>1. /\ pc' = [pc EXCEPT ![t] = FailTo(t)]
        /\ UNCHANGED <<kind, status, scan, prev>>
    BY <1>7 DEF Fail
  <2>2. kind[t] \in Runs => FailTo(t) = (IF kind[t] = "refresh" THEN "restore"
                                         ELSE IF pc[t] = "begin" THEN "markfail" ELSE "failjob")
    BY DEF FailTo
  <2>3. CarriedIdle' /\ (Busy' => Busy)
    BY <2>1 DEF Busy
  <2>4. \A s \in Tasks : Reserved(s) => Reserved(s)'
    BY <2>1, <2>2
  <2> QED
    BY <1>0, <2>3, <2>4, StaysHeld
<1>8. CASE FailJob(t)
  <2>1. CarriedIdle' /\ (Busy' => Busy) /\ \A s \in Tasks : Reserved(s) => Reserved(s)'
    BY <1>8 DEF FailJob, Busy
  <2> QED
    BY <1>0, <2>1, StaysHeld
<1> QED
  BY <1>1, <1>2, <1>3, <1>4, <1>5, <1>6, <1>7, <1>8 DEF Step

(* The invariant holds at the start and is kept by every step, as long as  *)
(* clients wait for their answers.                                         *)
LEMMA HeldInductive ==
  ASSUME Extracted, ~ClientsLeave
  PROVE  /\ Init => HeldInv
         /\ HeldInv /\ [Next]_vars => HeldInv'
<1>1. ASSUME Init PROVE HeldInv
  <2>1. ExclInv
    BY <1>1, ExclInductive
  <2>2. CarriedIdle /\ ~Busy
    BY <1>1, <2>1 DEF Init, DiskStatus, Busy, CarriedIdle, Idle
  <2> QED
    BY <2>1, <2>2 DEF HeldInv
<1>2. ASSUME HeldInv, [Next]_vars PROVE HeldInv'
  <2>0. ExclInv'
    BY <1>2, ExclInductive DEF HeldInv
  <2> USE <1>2 DEF HeldInv, ExclInv, TypeOK, Reserved, Runs, InFlight, CarriedIdle, Idle
  <2>1. ASSUME NEW t \in Tasks, Start(t) PROVE HeldInv'
    <3>1. /\ pc[t] = "idle" /\ UNCHANGED <<status, scan, prev>>
          /\ \A s \in Tasks \ {t} : pc'[s] = pc[s] /\ kind'[s] = kind[s]
      BY <2>1 DEF Start, Goto, shared
    <3>2. CarriedIdle' /\ (Busy' => Busy)
      BY <3>1 DEF Busy
    <3>3. \A s \in Tasks : Reserved(s) => Reserved(s)'
      BY <3>1
    <3> QED
      BY <2>0, <3>2, <3>3, StaysHeld
  <2>2. ASSUME NEW t \in Tasks, Leave(t) PROVE HeldInv'
    BY <2>2 DEF Leave
  <2>3. CASE Scan \/ ReplaceCatalog
    <3>1. CarriedIdle'
      BY <2>3 DEF Scan, ReplaceCatalog, DiskStatus, local
    <3>2. Busy' => Busy
      BY <2>3 DEF Scan, ReplaceCatalog, local, Busy
    <3>3. \A s \in Tasks : Reserved(s) => Reserved(s)'
      BY <2>3 DEF Scan, ReplaceCatalog, local
    <3> QED
      BY <2>0, <3>1, <3>2, <3>3, StaysHeld
  <2>4. CASE Restart
    <3>1. ~Busy' /\ CarriedIdle'
      BY <2>4 DEF Restart, DiskStatus, Busy
    <3> QED
      BY <2>0, <3>1
  <2>5. CASE UNCHANGED vars
    <3>1. CarriedIdle' /\ (Busy' => Busy) /\ \A s \in Tasks : Reserved(s) => Reserved(s)'
      BY <2>5 DEF vars, shared, local, Busy
    <3> QED
      BY <2>0, <3>1, StaysHeld
  <2> QED
    BY <2>1, <2>2, <2>3, <2>4, <2>5, StepHeld DEF Next
<1> QED
  BY <1>1, <1>2

(* An extracted paper is refused as being in work only while a task works  *)
(* on it, provided no client closes its connection.                        *)
THEOREM NoStrandedPaper ==
  ASSUME Extracted, ~ClientsLeave
  PROVE  Spec => []BusyMeansRunning
<1>1. Init => HeldInv
  BY HeldInductive
<1>2. HeldInv /\ [Next]_vars => HeldInv'
  BY HeldInductive
<1>3. HeldInv => BusyMeansRunning
  BY DEF HeldInv, Reserved, BusyMeansRunning
<1> QED
  BY <1>1, <1>2, <1>3, PTL DEF Spec

-----------------------------------------------------------------------------
(* No analysis is lost to a refresh.  Only the holder of the reservation   *)
(* replaces the analysis when nobody asks for the paper map, so the one a  *)
(* refresh has loaded is still the stored one when it saves.               *)
Amending ==
  \A t \in Tasks :
    /\ kind[t] # "map"
    /\ kind[t] = "refresh" /\ pc[t] \in {"model", "lock", "save"} => loaded[t] = analysis

AmendInv == ExclInv /\ Amending

(* The steps of a task keep what a refresh has loaded current.             *)
LEMMA StepAmending ==
  ASSUME Extracted, AmendInv, NEW t \in Tasks, Step(t)
  PROVE  Amending'
<1> USE DEF AmendInv, ExclInv, TypeOK, Goto, shared, NoExtraction, Roles, Reserved, Runs,
            InFlight, Amending
<1>1. CASE Reserve(t) \/ Refuse(t) \/ Begin(t) \/ Record(t) \/ Run(t) \/ TakeGuard(t)
  BY <1>1 DEF Reserve, Refuse, Begin, Record, Run, TakeGuard
<1>2. CASE LoadStored(t)
  <2>1. pc'[t] \notin {"model", "lock", "save"}
    BY <1>2 DEF LoadStored, AfterLoad
  <2> QED
    BY <1>2, <2>1 DEF LoadStored
<1>3. CASE BeginExtraction(t) \/ Extract(t) \/ Peek(t) \/ Mark(t) \/ Render(t) \/ Inspect(t)
  BY <1>3 DEF BeginExtraction, Extract, Peek, Mark, Render, Inspect
<1>4. CASE Prepare(t)
  BY <1>4 DEF Prepare
<1>5. CASE Generate(t) \/ TakeLock(t)
  BY <1>5 DEF Generate, TakeLock
<1>6. CASE Save(t)
  <2>1. pc' = [pc EXCEPT ![t] = "complete"] /\ UNCHANGED <<kind, loaded>>
    BY <1>6 DEF Save
  <2>2. Reserved(t)
    BY <1>6 DEF Save
  <2>3. ASSUME NEW s \in Tasks, kind[s] = "refresh", pc'[s] \in {"model", "lock", "save"}
        PROVE  FALSE
    <3>1. s # t /\ pc[s] \in {"model", "lock", "save"}
      BY <2>1, <2>3
    <3>2. Reserved(s)
      BY <2>3, <3>1
    <3> QED
      BY <2>2, <3>1, <3>2 DEF ExclusiveRuns
  <2> QED
    BY <2>1, <2>3
<1>7. CASE Complete(t) \/ Settle(t) \/ Restore(t) \/ FailJob(t) \/ MarkFailure(t)
  BY <1>7 DEF Complete, Settle, Restore, FailJob, MarkFailure
<1>8. CASE Fail(t)
  <2>1. FailTo(t) \notin {"model", "lock", "save"}
    BY DEF FailTo
  <2> QED
    BY <1>8, <2>1 DEF Fail
<1> QED
  BY <1>1, <1>2, <1>3, <1>4, <1>5, <1>6, <1>7, <1>8 DEF Step

(* Every step of the server keeps it current.                              *)
LEMMA AmendInductive ==
  ASSUME Extracted, "map" \notin Kinds
  PROVE  /\ Init => AmendInv
         /\ AmendInv /\ [Next]_vars => AmendInv'
<1>1. ASSUME Init PROVE AmendInv
  BY <1>1, ExclInductive, TokensAssumption DEF Init, AmendInv, Amending, AllKinds
<1>2. ASSUME AmendInv, [Next]_vars PROVE AmendInv'
  <2>0. ExclInv'
    BY <1>2, ExclInductive DEF AmendInv
  <2> USE <1>2 DEF AmendInv, ExclInv, TypeOK, Amending
  <2>1. ASSUME NEW t \in Tasks, Start(t) PROVE Amending'
    <3>1. pc'[t] \notin {"model", "lock", "save"} /\ kind'[t] # "map"
      BY <2>1 DEF Start, Goto
    <3> QED
      BY <2>1, <3>1 DEF Start, Goto, shared
  <2>2. ASSUME NEW t \in Tasks, Leave(t) PROVE Amending'
    BY <2>2 DEF Leave
  <2>3. CASE Scan \/ ReplaceCatalog
    BY <2>0, <2>3 DEF Scan, ReplaceCatalog, local
  <2>4. CASE Restart
    BY <2>0, <2>4 DEF Restart, InFlight
  <2>5. CASE UNCHANGED vars
    BY <2>0, <2>5 DEF vars, shared, local
  <2> QED
    BY <2>0, <2>1, <2>2, <2>3, <2>4, <2>5, StepAmending DEF Next
<1> QED
  BY <1>1, <1>2

(* A refresh of an extracted paper amends the analysis it has loaded, as   *)
(* long as nobody asks for the paper map meanwhile.                        *)
THEOREM AmendsWhatItLoaded ==
  ASSUME Extracted, "map" \notin Kinds
  PROVE  Spec => NoLostAnalysis
<1>1. Init => AmendInv
  BY AmendInductive
<1>2. AmendInv /\ [Next]_vars => AmendInv'
  BY AmendInductive
<1>3. AmendInv =>
        \A t \in Tasks : pc[t] = "save" /\ pc'[t] \in {"complete", "done"}
                         /\ analysis' # analysis /\ kind[t] \in {"refresh", "map"}
                         => analysis = loaded[t]
  BY DEF AmendInv, Amending
<1> QED
  BY <1>1, <1>2, <1>3, PTL DEF Spec, NoLostAnalysis
=============================================================================
