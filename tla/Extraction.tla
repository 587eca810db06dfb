----------------------------- MODULE Extraction -----------------------------
(***************************************************************************)
(* The extraction of a paper's artifacts: src/paper_artifacts/run.rs, the  *)
(* saved answers of checkpoint.rs and the reader's analysis that runs it   *)
(* (analyze_core_artifacts of src/analysis/mod.rs).                        *)
(*                                                                         *)
(* A run asks the model for the fields of a plan: the core first, then the *)
(* features a few calls at a time, the object inventory in chunks of pages *)
(* that are in flight together; then it has the draft checked, repairs the *)
(* quotations that are not verbatim, and writes a record.  Each call that  *)
(* starts looks at what the paper has cost so far, and pays when it is     *)
(* answered.                                                               *)
(*                                                                         *)
(* The command line runs a plan with features and saves no answers.  The   *)
(* reader of the server runs the core alone; it saves every answer it can  *)
(* parse, so that the run after a failure or a crash can replay it.        *)
(*                                                                         *)
(* A call costs one unit.  The text of an answer is reduced to what the    *)
(* run does with it.                                                       *)
(***************************************************************************)
EXTENDS Naturals, Sequences, FiniteSets

CONSTANTS
  Features,          \* the text calls that follow the core, in plan order
  NChunks,           \* the page chunks of the object pass, 0 for no such pass
  PlanConcurrency,   \* PLAN_CONCURRENCY
  ChunkConcurrency,  \* CHUNK_CONCURRENCY
  Budget,            \* the paper budget, in calls
  MaxRuns,           \* bound: the runs of a behaviour
  None

(* A call to the model: the stage of a text call, or a chunk of the object *)
(* pass.                                                                   *)
Text(c) == <<c, 0>>
Chunk(i) == <<"objects", i>>
Core == Text("core")
Pass2 == Text("pass2")
Repair == Text("repair")

FeatureCalls == {Features[i] : i \in DOMAIN Features}
Chunks == {Chunk(i) : i \in 1..NChunks}
Checks == {Pass2, Repair}

(* Everything a run may ask the model.                                      *)
Asks == {Core} \cup {Text(c) : c \in FeatureCalls} \cup Checks \cup Chunks

(* The object pass as a whole fails when the pages cannot be read.         *)
ObjectPass == Chunk(0)

ASSUME PlanAssumption ==
  /\ Features \in Seq(STRING) /\ NChunks \in Nat
  /\ FeatureCalls \cap {"core", "objects", "pass2", "repair"} = {}
ASSUME BoundsAssumption ==
  /\ PlanConcurrency \in Nat \ {0} /\ ChunkConcurrency \in Nat \ {0}
  /\ Budget \in Nat \ {0} /\ MaxRuns \in Nat \ {0}
ASSUME NoneAssumption ==
  None \notin {"full", "loose", "bare", "thin", "corrected", "kept"}

(* CALL_ATTEMPTS *)
Attempts == 2

VARIABLES
  mode,      \* "command" or "reader"
  runs,      \* the runs started so far
  phase,     \* where the run is
  ready,     \* the plan calls of this round that no batch has taken yet
  batch,     \* the plan calls that are under way together
  over,      \* the plan calls that have ended
  at,        \* where each call is
  attempt,   \* how often a call under way has been sent
  again,     \* the chunks that have been asked a second time
  first,     \* the first answer of such a chunk
  got,       \* the value each ended call has, None without one
  spent,     \* what the run has paid
  stopped,   \* the budget has kept a call from starting
  failures,  \* the calls with a failure in the record
  recovered, \* the chunks whose failures a retry made good
  saved,     \* the saved answers, with what was asked
  outcome    \* how the last run ended

session == <<spent, stopped, failures, recovered>>
calls == <<at, attempt, again, first, got>>
plan == <<ready, batch, over>>
vars == <<mode, runs, phase, plan, calls, session, saved, outcome>>

-----------------------------------------------------------------------------
(* default_pipeline: the core, then the objects and the features, each of  *)
(* which requires the core.                                                *)
Plan ==
  IF mode = "reader" THEN <<"core">>
  ELSE <<"core">> \o (IF NChunks = 0 THEN <<>> ELSE <<"objects">>) \o Features

Requires(c) == IF c = "core" THEN {} ELSE {"core"}

PlanCalls == {Plan[i] : i \in DOMAIN Plan}

Before(c, d) == \E i, j \in DOMAIN Plan : i < j /\ Plan[i] = c /\ Plan[j] = d

Ready(done) == {c \in PlanCalls \ done : Requires(c) \subseteq done}

(* The calls to the model that a plan call makes.                          *)
AsksOf(c) == IF c = "objects" THEN Chunks ELSE {Text(c)}

(* What the model may answer.  A core answer may lack the thesis or the    *)
(* sections ("bare"), or quote what the paper does not say ("loose"); a    *)
(* chunk answer may list under half the equations of its checklist         *)
(* ("thin"); the check may correct the draft or leave it.                  *)
Answers(a) ==
  IF a = Core THEN {"full", "loose", "bare"}
  ELSE IF a \in Chunks THEN {"full", "thin"}
  ELSE IF a = Pass2 THEN {"corrected", "kept"}
  ELSE {"full"}

Values == {"full", "loose", "bare", "thin", "corrected", "kept", None}

(* The draft once the plan is over: the values of its calls.  The object   *)
(* pass gives an inventory, empty or not, unless the pages are unreadable. *)
Draft == {<<a, got[a]>> : a \in {a \in Asks \ Checks : got[a] # None}}

HasDraft == \/ Draft # {}
            \/ "objects" \in PlanCalls /\ ObjectPass \notin failures

(* What a saved answer is an answer to: the prompt holds the draft as far  *)
(* as it has come.  The stage is no part of it.                            *)
Key(a) == [ask |-> a,
           draft |-> IF a \in Checks THEN Draft ELSE {},
           check |-> IF a = Repair THEN got[Pass2] ELSE None]

Kept(a) == {s \in saved : s.key = Key(a)}

WithinBudget == spent < Budget

-----------------------------------------------------------------------------
Fresh(a) == [x \in Asks |-> a]

Init ==
  /\ mode \in {"command", "reader"}
  /\ runs = 0 /\ phase = "idle"
  /\ ready = {} /\ batch = {} /\ over = {}
  /\ at = Fresh("waiting") /\ attempt = Fresh(1) /\ again = {}
  /\ first = Fresh(None) /\ got = Fresh(None)
  /\ spent = 0 /\ stopped = FALSE /\ failures = {} /\ recovered = {}
  /\ saved = {} /\ outcome = "none"

(* A run begins: the reader's for a paper to analyze, to refresh or to try *)
(* again.  Bound: the command runs once, it leaves nothing that a later    *)
(* run reads.                                                              *)
Start ==
  /\ phase = "idle" /\ runs < IF mode = "reader" THEN MaxRuns ELSE 1
  /\ runs' = runs + 1 /\ phase' = "planning" /\ outcome' = "none"
  /\ UNCHANGED <<mode, plan, calls, session, saved>>

(* run_plan: the next calls of the round, once those of the last batch     *)
(* have ended; a new round when all of them have.                          *)
Ended(c) == \A a \in AsksOf(c) : at[a] = "over"

Left == IF ready = {} THEN Ready(over \cup batch) ELSE ready

(* The first of them that run together.                                    *)
Batches(left) ==
  {b \in SUBSET left :
     /\ Cardinality(b) <= PlanConcurrency
     /\ b # left => Cardinality(b) = PlanConcurrency
     /\ \A c \in b, d \in left \ b : Before(c, d)}

NextBatch ==
  /\ phase = "planning" /\ \A c \in batch : Ended(c)
  /\ Left # {}
  /\ batch' \in Batches(Left) /\ ready' = Left \ batch'
  /\ over' = over \cup batch
  /\ UNCHANGED <<mode, runs, phase, calls, session, saved, outcome>>

PlanOver ==
  /\ phase = "planning" /\ \A c \in batch : Ended(c)
  /\ Left = {}
  /\ batch' = {} /\ over' = over \cup batch
  /\ phase' = IF HasDraft THEN "checking" ELSE "writing"
  /\ UNCHANGED <<mode, runs, ready, calls, session, saved, outcome>>

(* The calls that may start now.  A chunk starts when those ChunkConcurrency *)
(* places before it have ended: buffered gives its answers in order.       *)
Startable(a) ==
  /\ at[a] = "waiting"
  /\ \/ phase = "planning" /\ a \in Chunks /\ "objects" \in batch
        /\ \A b \in Chunks : b[2] + ChunkConcurrency <= a[2] => at[b] = "over"
     \/ phase = "planning" /\ \E c \in batch \ {"objects"} : a = Text(c)
     \/ phase = "checking" /\ a = Pass2
     \/ phase = "admitting" /\ a = Repair

InFlight == {a \in Asks : at[a] = "sent"}

-----------------------------------------------------------------------------
(* A call ends with value r and the failures fs.  A chunk that failed or   *)
(* listed too little is asked once more, and the better answer is taken;   *)
(* its failures are recovered when there is one.                           *)
NeedsRetry(a, r) == a \in Chunks /\ a \notin again /\ r \in {None, "thin"}

Better(r, s) == IF s = None \/ (r # None /\ s = "thin") THEN r ELSE s

(* Fault for the mutation runs: every failure counts as recovered.         *)
RecoverAll(a, fs) == /\ failures' = {}
                     /\ recovered' = recovered \cup fs

Recover(a, fs) == /\ failures' = fs \ {a}
                  /\ recovered' = recovered \cup (fs \cap {a})

Settle(a, r, fs) ==
  \/ /\ NeedsRetry(a, r)
     /\ again' = again \cup {a} /\ first' = [first EXCEPT ![a] = r]
     /\ at' = [at EXCEPT ![a] = "waiting"]
     /\ failures' = fs
     /\ UNCHANGED <<got, recovered>>
  \/ /\ ~NeedsRetry(a, r)
     /\ at' = [at EXCEPT ![a] = "over"]
     /\ got' = [got EXCEPT ![a] = IF a \in again THEN Better(first[a], r) ELSE r]
     /\ IF a \in again /\ got'[a] # None THEN Recover(a, fs)
        ELSE failures' = fs /\ UNCHANGED recovered
     /\ UNCHANGED <<again, first>>

Rest == UNCHANGED <<mode, runs, phase, plan, outcome>>

(* call_with: a saved answer is replayed; otherwise the call is sent, if   *)
(* the budget has not been spent.                                          *)
Replay(a) ==
  /\ Startable(a)
  /\ \E s \in Kept(a) : Settle(a, s.value, failures)
  /\ Rest /\ UNCHANGED <<attempt, spent, stopped, saved>>

Skip(a) ==
  /\ Startable(a) /\ Kept(a) = {} /\ ~WithinBudget
  /\ stopped' = TRUE
  /\ Settle(a, None, failures)
  /\ Rest /\ UNCHANGED <<attempt, spent, saved>>

Send(a) ==
  /\ Startable(a) /\ Kept(a) = {} /\ WithinBudget
  /\ at' = [at EXCEPT ![a] = "sent"] /\ attempt' = [attempt EXCEPT ![a] = 1]
  /\ Rest /\ UNCHANGED <<again, first, got, session, saved>>

(* The call is sent a second time, if the budget still allows it; the cost *)
(* of the first answer counts already.                                     *)
(* Fault for the mutation runs: it is sent whatever has been paid.         *)
ResendAnyway(a, cost) == attempt[a] < Attempts

Resendable(a, cost) == attempt[a] < Attempts /\ spent + cost < Budget

Resend(a, cost) ==
  /\ Resendable(a, cost)
  /\ attempt' = [attempt EXCEPT ![a] = @ + 1]
  /\ UNCHANGED <<at, again, first, got, stopped, failures, recovered>>

GiveUp(a, cost) ==
  /\ ~Resendable(a, cost)
  /\ stopped' = (stopped \/ attempt[a] < Attempts)
  /\ Settle(a, None, failures \cup {a})
  /\ UNCHANGED attempt

(* The provider gives no answer (an error, which costs nothing here) or    *)
(* one that is empty or cut off, which is paid for.                        *)
Fails(a) ==
  /\ at[a] = "sent"
  /\ \E cost \in {0, 1} :
       /\ spent' = spent + cost
       /\ Resend(a, cost) \/ GiveUp(a, cost)
  /\ Rest /\ UNCHANGED saved

(* An answer that does not match the schema is not asked for again.        *)
Unreadable(a) ==
  /\ at[a] = "sent"
  /\ spent' = spent + 1
  /\ Settle(a, None, failures \cup {a})
  /\ Rest /\ UNCHANGED <<attempt, stopped, saved>>

(* The reader saves an answer before it uses it.                           *)
Answered(a) ==
  /\ at[a] = "sent"
  /\ spent' = spent + 1
  /\ \E v \in Answers(a) :
       \/ /\ mode = "command"
          /\ Settle(a, v, failures)
       \/ /\ mode = "reader"
          /\ at' = [at EXCEPT ![a] = "saving"] /\ got' = [got EXCEPT ![a] = v]
          /\ UNCHANGED <<again, first, failures, recovered>>
  /\ Rest /\ UNCHANGED <<attempt, stopped, saved>>

(* A save that fails loses the saving only.                                *)
Save(a) ==
  /\ at[a] = "saving"
  /\ saved' \in {saved, saved \cup {[key |-> Key(a), value |-> got[a]]}}
  /\ Settle(a, got[a], failures)
  /\ Rest /\ UNCHANGED <<attempt, spent, stopped>>

(* The page images cannot be read: the object call fails as a whole.       *)
PagesUnreadable ==
  /\ phase = "planning" /\ "objects" \in batch
  /\ \A a \in Chunks : at[a] = "waiting" /\ a \notin again
  /\ at' = [a \in Asks |-> IF a \in Chunks THEN "over" ELSE at[a]]
  /\ failures' = failures \cup {ObjectPass}
  /\ Rest /\ UNCHANGED <<attempt, again, first, got, spent, stopped, recovered, saved>>

-----------------------------------------------------------------------------
(* self_check and admit: the check may correct the draft; the repair of    *)
(* quotations is asked for when some are not in the paper.  Quotations     *)
(* that stay so are removed.                                               *)
Corrected == got[Pass2] = "corrected"

Failing == got[Core] = "loose" /\ ~Corrected

Checked ==
  /\ phase = "checking" /\ at[Pass2] = "over"
  /\ phase' = IF Failing THEN "admitting" ELSE "writing"
  /\ UNCHANGED <<mode, runs, plan, calls, session, saved, outcome>>

Admitted ==
  /\ phase = "admitting" /\ at[Repair] = "over"
  /\ phase' = "writing"
  /\ UNCHANGED <<mode, runs, plan, calls, session, saved, outcome>>

(* The analysis needs a thesis and sections; a correction may add them.    *)
Usable == got[Core] \in {"full", "loose"} \/ (got[Core] = "bare" /\ Corrected)

(* What a run held in memory goes with it.                                 *)
End(o) ==
  /\ phase' = "idle" /\ outcome' = o
  /\ ready' = {} /\ batch' = {} /\ over' = {}
  /\ at' = Fresh("waiting") /\ attempt' = Fresh(1) /\ again' = {}
  /\ first' = Fresh(None) /\ got' = Fresh(None)
  /\ spent' = 0 /\ stopped' = FALSE /\ failures' = {} /\ recovered' = {}
  /\ UNCHANGED <<mode, runs>>

(* The record is written; the command succeeds with artifacts and without  *)
(* a failure.                                                              *)
Write ==
  /\ phase = "writing"
  /\ \/ End("error")
     \/ mode = "command"
        /\ End(IF HasDraft /\ failures = {} THEN "succeeded" ELSE "incomplete")
     \/ /\ mode = "reader" /\ phase' = "analyzing"
        /\ UNCHANGED <<mode, runs, plan, calls, session, outcome>>
  /\ UNCHANGED saved

(* analyze_core_artifacts: a run without a failure clears the saved        *)
(* answers, so that a refresh asks the model again; a directory that can   *)
(* only be removed in part makes the run fail.                             *)
(* Fault for the mutation runs: they are cleared before the answers are    *)
(* known to make an analysis.                                              *)
ConcludeCleared ==
  /\ phase = "analyzing"
  /\ saved' = IF failures = {} THEN {} ELSE saved
  /\ End(IF Usable THEN "succeeded" ELSE "error")

Conclude ==
  /\ phase = "analyzing"
  /\ \/ /\ ~Usable
        /\ End("error") /\ UNCHANGED saved
     \/ /\ Usable /\ failures # {}
        /\ End("succeeded") /\ UNCHANGED saved
     \/ /\ Usable /\ failures = {}
        /\ saved' = {} /\ End("succeeded")
     \/ /\ Usable /\ failures = {}
        /\ saved' \in SUBSET saved /\ End("error")

(* The process stops.  What was saved is on disk.                          *)
Crash ==
  /\ phase # "idle"
  /\ End("crashed")
  /\ UNCHANGED saved

Call(a) ==
  \/ Replay(a) \/ Skip(a) \/ Send(a)
  \/ Fails(a) \/ Unreadable(a) \/ Answered(a) \/ Save(a)

Step ==
  \/ NextBatch \/ PlanOver \/ PagesUnreadable \/ Checked \/ Admitted \/ Write \/ Conclude
  \/ \E a \in Asks : Call(a)

Next == Start \/ Step \/ Crash

Spec == Init /\ [][Next]_vars

-----------------------------------------------------------------------------
(* The sets of values of the variables.                                    *)
TypeOK ==
  /\ mode \in {"command", "reader"} /\ runs \in 0..MaxRuns
  /\ phase \in {"idle", "planning", "checking", "admitting", "writing", "analyzing"}
  /\ ready \subseteq PlanCalls /\ batch \subseteq PlanCalls /\ over \subseteq PlanCalls
  /\ at \in [Asks -> {"waiting", "sent", "saving", "over"}]
  /\ attempt \in [Asks -> 1..Attempts] /\ again \subseteq Chunks
  /\ first \in [Asks -> Values] /\ got \in [Asks -> Values]
  /\ spent \in Nat /\ stopped \in BOOLEAN
  /\ failures \subseteq Asks \cup {ObjectPass} /\ recovered \subseteq Chunks
  /\ outcome \in {"none", "succeeded", "incomplete", "error", "crashed"}

(* What the budget bounds.  A call is charged when it is answered, so      *)
(* those under way pass it together: the chunks of the object pass in      *)
(* flight and the text calls of the same batch.  Nothing passes it by      *)
(* more, however often calls are cut off and sent again.                   *)
Width == PlanConcurrency - 1 + ChunkConcurrency

SpendBounded == spent + Cardinality(InFlight) < Budget + Width

(* What run.rs says of it: the calls in flight can pass the budget by      *)
(* CHUNK_CONCURRENCY - 1 calls.                                            *)
ChunksPassOnly == spent < Budget + ChunkConcurrency

(* A run whose record has no failure and no budget stop lost nothing: each *)
(* call it asked has a value.  A call with a value has no failure left,    *)
(* and only a chunk with a value is recovered.                             *)
Asked == (UNION {AsksOf(c) : c \in over}) \cup {a \in Checks : at[a] = "over"}

LossesRecorded ==
  phase \in {"writing", "analyzing"} =>
    \A a \in Asked :
      /\ got[a] = None => stopped \/ a \in failures \/ (a \in Chunks /\ ObjectPass \in failures)
      /\ got[a] # None => a \notin failures
      /\ a \in recovered => got[a] # None

(* A saved answer is on disk until a run has what it needs for an analysis *)
(* without a failure: neither a crash nor a failed run nor a run that lost *)
(* a check makes the next one pay for it again.                            *)
SavedKept ==
  [][~(saved \subseteq saved') => phase = "analyzing" /\ failures = {} /\ Usable]_vars

(* What checkpoint.rs says of the saved answers: only usable ones are      *)
(* saved.  Without the sections every later run replays the answer, makes  *)
(* no analysis of it and keeps it.                                         *)
SavedUsable == \A s \in saved : s.value # "bare"
=============================================================================
