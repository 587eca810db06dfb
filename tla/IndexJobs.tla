----------------------------- MODULE IndexJobs -----------------------------
(***************************************************************************)
(* The reading-index builds of src/api/source_index/jobs.rs and the disk   *)
(* cache of src/source_index/cache.rs.                                     *)
(*                                                                         *)
(* Every HTTP request for a paper's reading index is a Request.  It is     *)
(* answered from the disk cache, by joining the build that is under way    *)
(* for the paper's directory, or by spawning a build.  A build runs in a   *)
(* detached task and shares one extraction mutex with the foreground       *)
(* extractions (Users) of the other handlers.                              *)
(***************************************************************************)
EXTENDS Naturals, Sequences

CONSTANTS
  Requests,   \* calls of get_or_build
  Builds,     \* identities of spawned builds, their generation on disk
  Users,      \* foreground callers of the extraction mutex outside the builds
  Dirs,       \* paper directories, the keys of the jobs map
  MaxStamp,   \* bound: how often the PDF of a directory may change
  None,       \* absence: no job, no document, nobody holds the mutex
  Error       \* an error result

ASSUME StampAssumption == MaxStamp \in Nat
ASSUME NoneAssumption == None \notin Builds \cup Users
ASSUME HoldersAssumption == Builds \cap Users = {}

Stamps == 0..MaxStamp
Doc    == [stamp: Stamps, text: Stamps, build: Builds]

ASSUME ResultAssumption == None \notin Doc /\ Error \notin Doc /\ Error # None

VARIABLES
  stamp,      \* stamp[d]: size and modification time of the PDF, a version
  disk,       \* disk[d]: reading-index.json, a Doc or None
  jobs,       \* jobs[d]: the build the jobs map holds for d, or None
  rpc,        \* where request r stands
  want,       \* what request r asked for
  asked,      \* history: the stamp of the PDF when request r began
  seen,       \* the stamp request r read before it read the cache
  joined,     \* the build request r waits for
  answer,     \* what request r returned: a Doc, Error, or None
  bpc,        \* where build b stands
  bdir,       \* the directory build b is for
  interactive,\* the priority flag a later request may raise
  built,      \* the stamp build b read before it built
  text,       \* the version of the PDF build b extracted its text from
  made,       \* the result of build b: a Doc, Error, or None
  starter,    \* history: the request that spawned build b, or None
  holder,     \* who holds the extraction mutex
  queue       \* who queues for it: tokio's mutex is fair

fileVars  == <<stamp, disk>>
reqVars   == <<rpc, want, asked, seen, joined, answer>>
buildVars == <<bpc, bdir, interactive, built, text, made,
                 starter>>
lockVars  == <<holder, queue>>
vars == <<fileVars, jobs, reqVars, buildVars, lockVars>>

Want   == [dir: Dirs, refresh: BOOLEAN, urgent: BOOLEAN]

Waiting  == {"stat", "read", "lock", "await"}
Guarded  == {"build", "check", "write", "release"}
Active   == {"poll", "take"} \cup Guarded \cup {"publish"}

FilesOK ==
  /\ stamp \in [Dirs -> Stamps]
  /\ disk \in [Dirs -> Doc \cup {None}]
  /\ jobs \in [Dirs -> Builds \cup {None}]

RequestsOK ==
  /\ rpc \in [Requests -> {"idle", "done", "cancelled"} \cup Waiting]
  /\ want \in [Requests -> Want \cup {None}]
  /\ asked \in [Requests -> Stamps]
  /\ seen \in [Requests -> Stamps]
  /\ joined \in [Requests -> Builds \cup {None}]
  /\ answer \in [Requests -> Doc \cup {Error, None}]

BuildsOK ==
  /\ bpc \in [Builds -> {"unborn", "done"} \cup Active]
  /\ bdir \in [Builds -> Dirs \cup {None}]
  /\ interactive \in [Builds -> BOOLEAN]
  /\ built \in [Builds -> Stamps]
  /\ text \in [Builds -> Stamps]
  /\ made \in [Builds -> Doc \cup {Error, None}]
  /\ starter \in [Builds -> Requests \cup {None}]

LockOK ==
  /\ holder \in Builds \cup Users \cup {None}
  /\ queue \in Seq(Builds \cup Users)

TypeOK == FilesOK /\ RequestsOK /\ BuildsOK /\ LockOK

Init ==
  /\ stamp = [d \in Dirs |-> 0]
  /\ disk = [d \in Dirs |-> None]
  /\ jobs = [d \in Dirs |-> None]
  /\ rpc = [r \in Requests |-> "idle"]
  /\ want = [r \in Requests |-> None]
  /\ asked = [r \in Requests |-> 0]
  /\ seen = [r \in Requests |-> 0]
  /\ joined = [r \in Requests |-> None]
  /\ answer = [r \in Requests |-> None]
  /\ bpc = [b \in Builds |-> "unborn"]
  /\ bdir = [b \in Builds |-> None]
  /\ interactive = [b \in Builds |-> FALSE]
  /\ built = [b \in Builds |-> 0]
  /\ text = [b \in Builds |-> 0]
  /\ made = [b \in Builds |-> None]
  /\ starter = [b \in Builds |-> None]
  /\ holder = None
  /\ queue = <<>>

-----------------------------------------------------------------------------
(* Requests: IndexJobs::get_or_build.                                      *)

(* Fault for the mutation runs: a document is served whatever its stamp.   *)
ValidAnyStamp(d, s) == disk[d] # None

(* The cache serves a document only for the stamp the source has now.      *)
Valid(d, s) == disk[d] # None /\ disk[d].stamp = s

Answer(r, value) ==
  /\ rpc' = [rpc EXCEPT ![r] = "done"]
  /\ answer' = [answer EXCEPT ![r] = value]

Call(r) ==
  /\ rpc[r] = "idle"
  /\ \E w \in Want :
       /\ want' = [want EXCEPT ![r] = w]
       /\ asked' = [asked EXCEPT ![r] = stamp[w.dir]]
       /\ rpc' = [rpc EXCEPT ![r] = IF w.refresh THEN "lock" ELSE "stat"]
  /\ UNCHANGED <<fileVars, jobs, seen, joined, answer, buildVars, lockVars>>

(* load_cached reads the source's stamp first; without a source it fails.  *)
StatSource(r) ==
  /\ rpc[r] = "stat"
  /\ \/ /\ seen' = [seen EXCEPT ![r] = stamp[want[r].dir]]
        /\ rpc' = [rpc EXCEPT ![r] = "read"]
        /\ UNCHANGED answer
     \/ /\ Answer(r, Error)
        /\ UNCHANGED seen
  /\ UNCHANGED <<fileVars, jobs, want, asked, joined, buildVars, lockVars>>

ReadCache(r) ==
  /\ rpc[r] = "read"
  /\ IF Valid(want[r].dir, seen[r])
       THEN Answer(r, disk[want[r].dir])
       ELSE rpc' = [rpc EXCEPT ![r] = "lock"] /\ UNCHANGED answer
  /\ UNCHANGED <<fileVars, jobs, want, asked, seen, joined, buildVars, lockVars>>

(* The jobs map is locked across the lookup, the second look at the cache  *)
(* and the insertion.  No build of this directory runs while its slot is   *)
(* empty and the map is locked, so the cache cannot change in between and  *)
(* each branch is one step.                                                *)
(* Fault for the mutation runs: the join forgets to raise the flag.        *)
JoinUnpromoted(r) ==
  /\ rpc[r] = "lock"
  /\ jobs[want[r].dir] # None
  /\ joined' = [joined EXCEPT ![r] = jobs[want[r].dir]]
  /\ rpc' = [rpc EXCEPT ![r] = "await"]
  /\ UNCHANGED <<fileVars, jobs, want, asked, seen, answer, buildVars, lockVars>>

Join(r) ==
  LET b == jobs[want[r].dir] IN
  /\ rpc[r] = "lock"
  /\ b # None
  /\ interactive' = [interactive EXCEPT ![b] = @ \/ want[r].urgent]
  /\ joined' = [joined EXCEPT ![r] = b]
  /\ rpc' = [rpc EXCEPT ![r] = "await"]
  /\ UNCHANGED <<fileVars, jobs, want, asked, seen, answer,
                 bpc, bdir, built, text, made, starter, lockVars>>

Recheck(r) ==
  LET d == want[r].dir IN
  /\ rpc[r] = "lock"
  /\ jobs[d] = None
  /\ ~want[r].refresh
  /\ \/ Valid(d, stamp[d]) /\ Answer(r, disk[d])
     \/ Answer(r, Error)
  /\ UNCHANGED <<fileVars, jobs, want, asked, seen, joined, buildVars, lockVars>>

(* Fault for the mutation runs: no second look at the cache.               *)
MustBuildBlind(r) == TRUE

MustBuild(r) == want[r].refresh \/ ~Valid(want[r].dir, stamp[want[r].dir])

Spawn(r) ==
  LET d == want[r].dir IN
  /\ rpc[r] = "lock"
  /\ jobs[d] = None
  /\ MustBuild(r)
  /\ \E b \in Builds :
       /\ bpc[b] = "unborn"
       /\ jobs' = [jobs EXCEPT ![d] = b]
       /\ bpc' = [bpc EXCEPT ![b] = "poll"]
       /\ bdir' = [bdir EXCEPT ![b] = d]
       /\ interactive' = [interactive EXCEPT ![b] = want[r].urgent]
       /\ starter' = [starter EXCEPT ![b] = r]
       /\ joined' = [joined EXCEPT ![r] = b]
  /\ rpc' = [rpc EXCEPT ![r] = "await"]
  /\ UNCHANGED <<fileVars, want, asked, seen, answer, built, text, made, lockVars>>

(* The watch channel: a waiter returns once its build has published.       *)
Receive(r) ==
  /\ rpc[r] = "await"
  /\ bpc[joined[r]] = "done"
  /\ Answer(r, made[joined[r]])
  /\ UNCHANGED <<fileVars, jobs, want, asked, seen, joined, buildVars, lockVars>>

(* The client goes away: axum drops the future at an await.                *)
Cancel(r) ==
  /\ rpc[r] \in Waiting
  /\ rpc' = [rpc EXCEPT ![r] = "cancelled"]
  /\ UNCHANGED <<fileVars, jobs, want, asked, seen, joined, answer,
                 buildVars, lockVars>>

-----------------------------------------------------------------------------
(* The extraction mutex, AppState::tools_extract.                          *)

(* lock_owned: taken at once when free, otherwise first come first served. *)
Lock(x) ==
  IF holder = None
    THEN holder' = x /\ UNCHANGED queue
    ELSE queue' = Append(queue, x) /\ UNCHANGED holder

(* A dropped guard is handed to the first in the queue.                    *)
Unlock ==
  IF queue = <<>>
    THEN holder' = None /\ UNCHANGED queue
    ELSE holder' = Head(queue) /\ queue' = Tail(queue)

InQueue(x) == \E i \in DOMAIN queue : queue[i] = x

UserLock(u) ==
  /\ holder # u
  /\ ~InQueue(u)
  /\ Lock(u)
  /\ UNCHANGED <<fileVars, jobs, reqVars, buildVars>>

UserUnlock(u) ==
  /\ holder = u
  /\ Unlock
  /\ UNCHANGED <<fileVars, jobs, reqVars, buildVars>>

-----------------------------------------------------------------------------
(* Builds: the task of IndexJobs::spawn.                                   *)

(* acquire: an interactive build queues, a background one tries the mutex  *)
(* every 75 ms and looks at its flag again.                                *)
Enqueue(b) ==
  /\ bpc[b] = "poll"
  /\ interactive[b]
  /\ Lock(b)
  /\ bpc' = [bpc EXCEPT ![b] = "take"]
  /\ UNCHANGED <<fileVars, jobs, reqVars, bdir, interactive, built, text, made,
                 starter>>

TryLock(b) ==
  /\ bpc[b] = "poll"
  /\ ~interactive[b]
  /\ holder = None
  /\ holder' = b
  /\ bpc' = [bpc EXCEPT ![b] = "take"]
  /\ UNCHANGED <<fileVars, jobs, reqVars, bdir, interactive, built, text, made,
                 starter, queue>>

(* load_or_build_priority reads the stamp under the guard, then builds.    *)
Begin(b) ==
  /\ bpc[b] = "take"
  /\ holder = b
  /\ built' = [built EXCEPT ![b] = stamp[bdir[b]]]
  /\ bpc' = [bpc EXCEPT ![b] = "build"]
  /\ UNCHANGED <<fileVars, jobs, reqVars, bdir, interactive, text, made,
                 starter, lockVars>>

(* pdftotext and the OCR read the PDF as it is by then.                    *)
Extract(b) ==
  /\ bpc[b] = "build"
  /\ text' = [text EXCEPT ![b] = stamp[bdir[b]]]
  /\ bpc' = [bpc EXCEPT ![b] = "check"]
  /\ UNCHANGED <<fileVars, jobs, reqVars, bdir, interactive, built, made,
                 starter, lockVars>>

(* Fault for the mutation runs: persist does not look at the source again. *)
CheckNothing(b) ==
  /\ bpc[b] = "check"
  /\ bpc' = [bpc EXCEPT ![b] = "write"]
  /\ UNCHANGED <<fileVars, jobs, reqVars, bdir, interactive, built, text, made,
                 starter, lockVars>>

(* persist goes on only when the source still has the stamp it had before. *)
Check(b) ==
  /\ bpc[b] = "check"
  /\ stamp[bdir[b]] = built[b]
  /\ bpc' = [bpc EXCEPT ![b] = "write"]
  /\ UNCHANGED <<fileVars, jobs, reqVars, bdir, interactive, built, text, made,
                 starter, lockVars>>

Write(b) ==
  LET doc == [stamp |-> built[b], text |-> text[b], build |-> b] IN
  /\ bpc[b] = "write"
  /\ disk' = [disk EXCEPT ![bdir[b]] = doc]
  /\ made' = [made EXCEPT ![b] = doc]
  /\ bpc' = [bpc EXCEPT ![b] = "release"]
  /\ UNCHANGED <<stamp, jobs, reqVars, bdir, interactive, built, text,
                 starter, lockVars>>

(* Fault for the mutation runs: a panic of the inner task leaves no result.*)
FailSilently(b) ==
  /\ \/ bpc[b] = "take" /\ holder = b
     \/ bpc[b] \in {"build", "check", "write"}
  /\ bpc' = [bpc EXCEPT ![b] = "release"]
  /\ UNCHANGED <<fileVars, jobs, reqVars, bdir, interactive, built, text, made,
                 starter, lockVars>>

(* A failed command, the 180 s timeout, a changed source, a failed write   *)
(* or a panic of the inner task.                                           *)
Fail(b) ==
  /\ \/ bpc[b] = "take" /\ holder = b
     \/ bpc[b] \in {"build", "check", "write"}
  /\ made' = [made EXCEPT ![b] = Error]
  /\ bpc' = [bpc EXCEPT ![b] = "release"]
  /\ UNCHANGED <<fileVars, jobs, reqVars, bdir, interactive, built, text,
                 starter, lockVars>>

Release(b) ==
  /\ bpc[b] = "release"
  /\ Unlock
  /\ bpc' = [bpc EXCEPT ![b] = "publish"]
  /\ UNCHANGED <<fileVars, jobs, reqVars, bdir, interactive, built, text, made,
                 starter>>

(* Under the lock of the jobs map: send the result, then free the slot.    *)
Publish(b) ==
  /\ bpc[b] = "publish"
  /\ bpc' = [bpc EXCEPT ![b] = "done"]
  /\ jobs' = [jobs EXCEPT ![bdir[b]] = None]
  /\ UNCHANGED <<fileVars, reqVars, bdir, interactive, built, text, made, starter, lockVars>>

(* Somebody replaces the PDF in the library.                               *)
EditSource(d) ==
  /\ stamp[d] < MaxStamp
  /\ stamp' = [stamp EXCEPT ![d] = @ + 1]
  /\ UNCHANGED <<disk, jobs, reqVars, buildVars, lockVars>>

-----------------------------------------------------------------------------
Request(r) ==
  \/ Call(r) \/ StatSource(r) \/ ReadCache(r) \/ Join(r) \/ Recheck(r)
  \/ Spawn(r) \/ Receive(r) \/ Cancel(r)

Work(b) ==
  \/ Enqueue(b) \/ TryLock(b) \/ Begin(b) \/ Extract(b) \/ Check(b) \/ Write(b)
  \/ Fail(b) \/ Release(b) \/ Publish(b)

Next ==
  \/ \E r \in Requests : Request(r)
  \/ \E b \in Builds : Work(b)
  \/ \E u \in Users : UserLock(u) \/ UserUnlock(u)
  \/ \E d \in Dirs : EditSource(d)

Spec == Init /\ [][Next]_vars

(* The runtime polls every ready task, and every holder of the mutex is    *)
(* bounded by a timeout.  Nothing forces a call, a cancellation or an edit.*)
Progress(r) ==
  StatSource(r) \/ ReadCache(r) \/ Join(r) \/ Recheck(r) \/ Spawn(r) \/ Receive(r)

FairSpec ==
  /\ Spec
  /\ \A r \in Requests : WF_vars(Progress(r))
  /\ \A b \in Builds : WF_vars(Work(b))
  /\ \A u \in Users : WF_vars(UserUnlock(u))

-----------------------------------------------------------------------------
(* A directory has at most one live build, the one its slot in the jobs    *)
(* map names: concurrent requests of jobs.rs are coalesced.                *)
SingleFlight ==
  /\ \A b \in Builds : bpc[b] \in Active => jobs[bdir[b]] = b
  /\ \A d \in Dirs : jobs[d] # None => bpc[jobs[d]] \in Active /\ bdir[jobs[d]] = d

(* A build reads, extracts and persists only under the extraction mutex,   *)
(* so no two builds, and no build and foreground extraction, overlap.      *)
GuardedExtraction ==
  \A b \in Builds : bpc[b] \in Guarded => holder = b

(* Nobody waits for a build that is gone without a result: the error       *)
(* "worker stopped before publishing" of get_or_build cannot be returned.  *)
NoOrphan ==
  \A r \in Requests : rpc[r] = "await" =>
    \/ jobs[want[r].dir] = joined[r]
    \/ bpc[joined[r]] = "done" /\ made[joined[r]] # None

(* Concurrent requests share one build, which works under the mutex, and    *)
(* every one of them is answered.                                           *)
Coalesced == SingleFlight /\ GuardedExtraction /\ NoOrphan

(* The index on disk was made from the PDF its stamp names, although the   *)
(* stamp, the text and the second stamp are read in separate steps.        *)
IndexMatchesStamp ==
  \A d \in Dirs : disk[d] # None => disk[d].text = disk[d].stamp

(* The same source is not indexed twice unless a refresh asked for it: the *)
(* second look at the cache catches a build that finished since the first. *)
OneBuildPerSource ==
  \A b, c \in Builds :
    /\ made[b] \in Doc /\ made[c] \in Doc
    /\ bdir[b] = bdir[c] /\ built[b] = built[c]
    /\ ~want[starter[b]].refresh /\ ~want[starter[c]].refresh
    => b = c

(* An interactive request is answered, whoever else keeps using the mutex, *)
(* unless its client leaves: also when it joined a background build.       *)
InteractiveAnswered ==
  \A r \in Requests :
    (rpc[r] \in Waiting /\ want[r].urgent) ~> rpc[r] \in {"done", "cancelled"}

(* An index is reused until the PDF changes (docs/reading-index.md): a     *)
(* request answered from the cache never gets the index of a PDF that was  *)
(* replaced before it began, and one that waited for a build gets nothing  *)
(* older than the request its build was spawned for.                       *)
AnswerIsCurrent ==
  \A r \in Requests : answer[r] \in Doc =>
    LET asker == IF joined[r] = None THEN r ELSE starter[joined[r]]
    IN answer[r].stamp >= asked[asker]
=============================================================================
