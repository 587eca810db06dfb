---------------------------- MODULE Experiments ----------------------------
(***************************************************************************)
(* Learning-ramp experiments: the handlers of src/api.rs, the commands of  *)
(* src/main.rs that use them, and the recovery of src/store.rs.            *)
(*                                                                         *)
(* A run generates two arms under blind labels, at the same time, and      *)
(* writes its file when the first and when the second is there; a person   *)
(* judges it once both are.  A command can prepare a run whose outputs are *)
(* made elsewhere, and import them.  The files are all that is shared: the *)
(* server and each command is a process with memory and a mutex of its     *)
(* own, and each of them, when it opens the data directory, marks the runs *)
(* it finds running as interrupted.                                        *)
(***************************************************************************)
EXTENDS Naturals, FiniteSets

CONSTANTS
  Runs,      \* the experiment runs of one paper
  Server,    \* the server process
  Commands,  \* command-line processes, each with one operation to do
  Handlers,  \* requests of the server and the operations of the commands
  Beside,    \* whether a process opens the directory while another has it open
  MaxOpens,  \* bound: the times a process is started
  Absent

Processes == {Server} \cup Commands
Arms == {"A", "B"}

ASSUME ProcessAssumption ==
  /\ Server \notin Commands /\ Absent \notin Processes \cup Runs \cup Handlers
  /\ Beside \in BOOLEAN /\ MaxOpens \in Nat

VARIABLES
  file,       \* the file of each run: its status and arms, Absent before
  judgments,  \* the judgments file: each run judged, with the arms it is about
  opens,      \* how often a process has been started
  todo,       \* for an open process the runs its recovery has still to look
              \* at, Absent for one that is not open
  found,      \* the running record its recovery has read and not written
  exec,       \* what each run's execution holds in memory, Absent without one
  call,       \* what each handler has read and not written yet
  lock        \* the handler that holds a process's experiment_write

experimentsVars == <<file, judgments, opens, todo, found, exec, call, lock>>

Idle == [op |-> "none"]
Outputs == {"generated", "imported", Absent}
Arm == [output : Outputs, error : BOOLEAN]
Record == [status : {"running", "completed", "failed"}, arms : [Arms -> Arm]]

Blank == [a \in Arms |-> [output |-> Absent, error |-> FALSE]]

(* An arm without an output and without an error of its own takes the      *)
(* run's.                                                                  *)
Errored(arms) ==
  [a \in Arms |-> [arms[a] EXCEPT !.error = @ \/ arms[a].output = Absent]]

WrittenAs(x, status, arms) ==
  file' = [file EXCEPT ![x] = [status |-> status, arms |-> arms]]

Status(x) == IF file[x] = Absent THEN "none" ELSE file[x].status

Judged(js) == {j.run : j \in js}

-----------------------------------------------------------------------------
ExperimentsInit ==
  /\ file = [x \in Runs |-> Absent] /\ judgments = {}
  /\ opens = 0
  /\ todo = [p \in Processes |-> Absent] /\ found = [p \in Processes |-> Absent]
  /\ exec = [x \in Runs |-> Absent]
  /\ call = [h \in Handlers |-> Idle] /\ lock = [p \in Processes |-> Absent]

Open(p) == todo[p] # Absent

(* AppState::with_services, for the server and for a command: recovery     *)
(* looks at every run before anything else is done.                        *)
OpenDirectory(p) ==
  /\ ~Open(p) /\ opens < MaxOpens
  /\ Beside \/ \A q \in Processes : ~Open(q)
  /\ todo' = [todo EXCEPT ![p] = Runs] /\ opens' = opens + 1
  /\ UNCHANGED <<file, judgments, found, exec, call, lock>>

(* recover_running_experiments reads a record, and writes it back failed   *)
(* if it was running.                                                      *)
RecoverRead(p, x) ==
  /\ Open(p) /\ x \in todo[p] /\ found[p] = Absent
  /\ IF Status(x) = "running"
     THEN found' = [found EXCEPT ![p] = [run |-> x, arms |-> file[x].arms]] /\ UNCHANGED todo
     ELSE todo' = [todo EXCEPT ![p] = @ \ {x}] /\ UNCHANGED found
  /\ UNCHANGED <<file, judgments, opens, exec, call, lock>>

(* Fault for the mutation runs: the record of an interrupted run is left   *)
(* as it is.                                                               *)
RecoverSkip(p) ==
  /\ found[p] # Absent
  /\ todo' = [todo EXCEPT ![p] = @ \ {found[p].run}] /\ found' = [found EXCEPT ![p] = Absent]
  /\ UNCHANGED <<file, judgments, opens, exec, call, lock>>

RecoverWrite(p) ==
  /\ found[p] # Absent
  /\ WrittenAs(found[p].run, "failed", Errored(found[p].arms))
  /\ todo' = [todo EXCEPT ![p] = @ \ {found[p].run}] /\ found' = [found EXCEPT ![p] = Absent]
  /\ UNCHANGED <<judgments, opens, exec, call, lock>>

Serves(p) == Open(p) /\ todo[p] = {}

(* A command imports or judges one run, or prepares or executes runs.      *)
Executes(p) == \E x \in Runs : exec[x] # Absent /\ exec[x].by = p
Handles(p) == \E h \in Handlers : call[h] # Idle /\ call[h].by = p
Free(p) == Serves(p) /\ (p \in Commands => ~Executes(p) /\ ~Handles(p))

-----------------------------------------------------------------------------
(* Executing a run.  prepare_experiment writes it as running;              *)
(* prepare_experiment_only, of a command, leaves it at that.               *)
Prepare(p, x) ==
  /\ Serves(p) /\ file[x] = Absent /\ (p \in Commands => ~Handles(p))
  /\ WrittenAs(x, "running", Blank)
  /\ \/ exec' = [exec EXCEPT ![x] = [by |-> p, arms |-> Blank, left |-> Arms]]
     \/ p \in Commands /\ UNCHANGED exec
  /\ UNCHANGED <<judgments, opens, todo, found, call, lock>>

(* execute_experiment waits for both arms; the first to end is written     *)
(* while the other goes on, the last decides the status.                   *)
ArmEnds(x, a) ==
  /\ exec[x] # Absent /\ a \in exec[x].left
  /\ \E ok \in BOOLEAN :
       LET arms == [exec[x].arms EXCEPT ![a] =
                      IF ok THEN [output |-> "generated", error |-> FALSE]
                      ELSE [output |-> Absent, error |-> TRUE]]
           left == exec[x].left \ {a}
           all == \A b \in Arms : arms[b].output # Absent
       IN \/ /\ left # {}
             /\ WrittenAs(x, "running", arms)
             /\ exec' = [exec EXCEPT ![x].arms = arms, ![x].left = left]
          \/ /\ left = {}
             /\ WrittenAs(x, IF all THEN "completed" ELSE "failed", arms)
             /\ exec' = [exec EXCEPT ![x] = Absent]
  /\ UNCHANGED <<judgments, opens, todo, found, call, lock>>

(* The experiment or the paper's text cannot be loaded: fail_experiment.   *)
ExecutionFails(x) ==
  /\ exec[x] # Absent /\ exec[x].left = Arms
  /\ WrittenAs(x, "failed", Errored(Blank))
  /\ exec' = [exec EXCEPT ![x] = Absent]
  /\ UNCHANGED <<judgments, opens, todo, found, call, lock>>

-----------------------------------------------------------------------------
(* Requests.  A handler reads, and writes later.                           *)
Begin(h, c) == call[h] = Idle /\ call' = [call EXCEPT ![h] = c]
Done(h) == call' = [call EXCEPT ![h] = Idle]

(* import_experiment_outputs, of a command: a run without a judgment; the  *)
(* paper is loaded before the outputs are written.                         *)
ImportRead(h, p, x) ==
  /\ p \in Commands /\ Free(p) /\ file[x] # Absent
  /\ x \notin Judged(judgments)
  /\ Begin(h, [op |-> "import", by |-> p, run |-> x])
  /\ UNCHANGED <<file, judgments, opens, todo, found, exec, lock>>

ImportWrite(h) ==
  /\ call[h].op = "import"
  /\ WrittenAs(call[h].run, "completed",
               [a \in Arms |-> [output |-> "imported", error |-> FALSE]])
  /\ Done(h)
  /\ UNCHANGED <<judgments, opens, todo, found, exec, lock>>

(* judge_experiment: the run is read and must be completed.                *)
(* Fault for the mutation runs: a run is judged by what there is of it.    *)
JudgeReadEarly(h, p, x) ==
  /\ Free(p) /\ file[x] # Absent
  /\ Begin(h, [op |-> "judge", by |-> p, run |-> x, about |-> file[x].arms])
  /\ UNCHANGED <<file, judgments, opens, todo, found, exec, lock>>

JudgeRead(h, p, x) ==
  /\ Free(p) /\ Status(x) = "completed"
  /\ Begin(h, [op |-> "judge", by |-> p, run |-> x, about |-> file[x].arms])
  /\ UNCHANGED <<file, judgments, opens, todo, found, exec, lock>>

(* Then the judgments are read and written back with the new one, under    *)
(* the mutex of the process.                                               *)
JudgeLoad(h) ==
  /\ call[h].op = "judge" /\ lock[call[h].by] = Absent
  /\ lock' = [lock EXCEPT ![call[h].by] = h]
  /\ call' = [call EXCEPT ![h] = [op |-> "store", by |-> @.by, run |-> @.run,
                                  about |-> @.about, read |-> judgments]]
  /\ UNCHANGED <<file, judgments, opens, todo, found, exec>>

JudgeSave(h) ==
  /\ call[h].op = "store"
  /\ judgments' = {j \in call[h].read : j.run # call[h].run}
                    \cup {[run |-> call[h].run, about |-> call[h].about]}
  /\ lock' = [lock EXCEPT ![call[h].by] = Absent]
  /\ Done(h)
  /\ UNCHANGED <<file, opens, todo, found, exec>>

(* A process stops: the server may at any time, a command once it has done *)
(* its work or when it is interrupted.                                     *)
Stop(p) ==
  /\ Open(p)
  /\ todo' = [todo EXCEPT ![p] = Absent] /\ found' = [found EXCEPT ![p] = Absent]
  /\ exec' = [x \in Runs |-> IF exec[x] # Absent /\ exec[x].by = p THEN Absent ELSE exec[x]]
  /\ call' = [h \in Handlers |->
                IF call[h] # Idle /\ call[h].by = p THEN Idle ELSE call[h]]
  /\ lock' = [lock EXCEPT ![p] = Absent]
  /\ UNCHANGED <<file, judgments, opens>>

Recovery(p) == RecoverWrite(p) \/ \E x \in Runs : RecoverRead(p, x)

Execution(x) == ExecutionFails(x) \/ \E a \in Arms : ArmEnds(x, a)

ExperimentsNext ==
  \/ \E p \in Processes : OpenDirectory(p) \/ Recovery(p) \/ Stop(p)
  \/ \E p \in Processes, x \in Runs : Prepare(p, x)
  \/ \E x \in Runs : Execution(x)
  \/ \E h \in Handlers, p \in Processes, x \in Runs :
       ImportRead(h, p, x) \/ JudgeRead(h, p, x)
  \/ \E h \in Handlers : ImportWrite(h) \/ JudgeLoad(h) \/ JudgeSave(h)

ExperimentsSpec == ExperimentsInit /\ [][ExperimentsNext]_experimentsVars

(* A process that goes on recovers what it finds and finishes what it      *)
(* executes: the reader is stopped by its timeout at the latest.           *)
Fairness == /\ \A p \in Processes : WF_experimentsVars(Recovery(p))
            /\ \A x \in Runs : WF_experimentsVars(Execution(x))

FairSpec == ExperimentsSpec /\ Fairness

-----------------------------------------------------------------------------
(* The sets of values of the variables.                                    *)
ExperimentsTypeOK ==
  /\ file \in [Runs -> Record \cup {Absent}]
  /\ judgments \subseteq [run : Runs, about : [Arms -> Arm]]
  /\ opens \in 0..MaxOpens
  /\ todo \in [Processes -> (SUBSET Runs) \cup {Absent}]
  /\ \A x \in Runs : exec[x] # Absent =>
       exec[x] \in [by : Processes, arms : [Arms -> Arm], left : SUBSET Arms]
  /\ lock \in [Processes -> Handlers \cup {Absent}]

(* A judgment stands: the run stays judged, completed and with the outputs *)
(* that the person has judged, whatever the server is asked at the same    *)
(* time and whenever it is stopped and started.                            *)
JudgedStands ==
  [][/\ Judged(judgments) \subseteq Judged(judgments')
     /\ \A j \in judgments' :
          file'[j.run].status = "completed" /\ file'[j.run].arms = j.about]_experimentsVars

(* A run that a process executes, or finds running when it opens the       *)
(* directory, ends, unless the process stops: a stopped server leaves no   *)
(* run running for ever once the directory is opened again.                *)
Pending(p, x) ==
  /\ Status(x) = "running"
  /\ \/ exec[x] # Absent /\ exec[x].by = p
     \/ Open(p) /\ x \in todo[p]

RunsEnd ==
  \A p \in Processes, x \in Runs :
    Pending(p, x) ~> Status(x) # "running" \/ ~Open(p)
=============================================================================
