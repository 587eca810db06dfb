----------------------------- MODULE JobsProofs -----------------------------
(***************************************************************************)
(* Proofs about the background jobs of the server: the builds of the       *)
(* reading index (IndexJobs), for any requests, builds, users and          *)
(* directories, and the registries (JobRegistry), for any requests, keys,  *)
(* registries and permits.                                                 *)
(***************************************************************************)
EXTENDS IndexJobs, JobRegistry, SequenceTheorems, FiniteSetTheorems, TLAPS

-----------------------------------------------------------------------------
(* The builds of the reading index.                                        *)

(* Type correctness.  A request that is under way knows what it wants, one *)
(* that awaits knows its build, and a spawned build knows its directory:   *)
(* without these the types of the functions indexed by them do not follow. *)
Known ==
  /\ \A r \in Requests : rpc[r] \in Waiting => want[r] \in Want
  /\ \A r \in Requests : rpc[r] = "await" => joined[r] \in Builds
  /\ \A b \in Builds : bpc[b] # "unborn" => bdir[b] \in Dirs

TypeInv == TypeOK /\ Known

(* Taking the mutex or queueing for it keeps its type.                     *)
LEMMA LockType ==
  ASSUME LockOK, NEW x \in Builds \cup Users, Lock(x)
  PROVE  LockOK'
<1>1. Append(queue, x) \in Seq(Builds \cup Users)
  BY AppendProperties DEF LockOK
<1> QED
  BY <1>1 DEF LockOK, Lock

(* Giving the mutex back, to the next waiter or to nobody, keeps its type. *)
LEMMA UnlockType ==
  ASSUME LockOK, Unlock
  PROVE  LockOK'
<1>1. queue # <<>> => /\ Head(queue) \in Builds \cup Users
                      /\ Tail(queue) \in Seq(Builds \cup Users)
  BY HeadTailProperties DEF LockOK
<1> QED
  BY <1>1 DEF LockOK, Unlock

(* Every step of a request keeps the types.                                *)
LEMMA RequestType ==
  ASSUME TypeInv, NEW r \in Requests, Request(r)
  PROVE  TypeInv'
<1> USE DEF TypeInv, TypeOK, Known, fileVars, buildVars, lockVars, Waiting
<1>1. CASE Call(r)
  <2>1. PICK w \in Want : 
           /\ want' = [want EXCEPT ![r] = w]
           /\ asked' = [asked EXCEPT ![r] = stamp[w.dir]]
           /\ rpc' = [rpc EXCEPT ![r] = IF w.refresh THEN "lock" ELSE "stat"]
    BY <1>1 DEF Call
  <2>2. RequestsOK'
    BY <1>1, <2>1 DEF Call, RequestsOK, FilesOK, Want
  <2> QED
    BY <1>1, <2>1, <2>2 DEF Call, RequestsOK, FilesOK, BuildsOK, LockOK
<1>2. CASE StatSource(r)
  <2>1. RequestsOK'
    BY <1>2 DEF StatSource, Answer, RequestsOK, FilesOK, Want
  <2> QED
    BY <1>2, <2>1 DEF StatSource, Answer, RequestsOK, FilesOK, BuildsOK, LockOK
<1>3. CASE ReadCache(r)
  <2>1. RequestsOK'
    BY <1>3 DEF ReadCache, Answer, Valid, RequestsOK, FilesOK, Want
  <2> QED
    BY <1>3, <2>1 DEF ReadCache, Answer, RequestsOK, FilesOK, BuildsOK, LockOK
<1>4. CASE Join(r)
  <2>1. want[r].dir \in Dirs /\ want[r].urgent \in BOOLEAN
    BY <1>4 DEF Join, Want
  <2>2. jobs[want[r].dir] \in Builds
    BY <1>4, <2>1 DEF Join, FilesOK
  <2>3. RequestsOK'
    BY <1>4, <2>2 DEF Join, RequestsOK
  <2>4. BuildsOK'
    BY <1>4, <2>1, <2>2 DEF Join, BuildsOK
  <2> QED
    BY <1>4, <2>2, <2>3, <2>4 DEF Join, RequestsOK, FilesOK, BuildsOK, LockOK
<1>5. CASE Recheck(r)
  <2>1. RequestsOK'
    BY <1>5 DEF Recheck, Answer, Valid, RequestsOK, FilesOK, Want
  <2> QED
    BY <1>5, <2>1 DEF Recheck, Answer, RequestsOK, FilesOK, BuildsOK, LockOK
<1>6. CASE Spawn(r)
  <2>1. want[r].dir \in Dirs /\ want[r].urgent \in BOOLEAN /\ want[r].refresh \in BOOLEAN
    BY <1>6 DEF Spawn, Want
  <2>2. PICK b \in Builds :
          /\ jobs' = [jobs EXCEPT ![want[r].dir] = b]
          /\ bpc' = [bpc EXCEPT ![b] = "poll"]
          /\ bdir' = [bdir EXCEPT ![b] = want[r].dir]
          /\ interactive' = [interactive EXCEPT ![b] = want[r].urgent]
          /\ starter' = [starter EXCEPT ![b] = r]
          /\ joined' = [joined EXCEPT ![r] = b]
    BY <1>6 DEF Spawn
  <2>3. FilesOK'
    BY <1>6, <2>1, <2>2 DEF Spawn, FilesOK
  <2>4. RequestsOK'
    BY <1>6, <2>2 DEF Spawn, RequestsOK
  <2>5. BuildsOK'
    BY <1>6, <2>1, <2>2 DEF Spawn, BuildsOK, Active
  <2>6. Known'
    BY <1>6, <2>1, <2>2 DEF Spawn, RequestsOK, BuildsOK
  <2> QED
    BY <1>6, <2>3, <2>4, <2>5, <2>6 DEF Spawn, LockOK
<1>7. CASE Receive(r)
  <2>1. RequestsOK'
    BY <1>7 DEF Receive, Answer, RequestsOK, BuildsOK
  <2> QED
    BY <1>7, <2>1 DEF Receive, Answer, RequestsOK, FilesOK, BuildsOK, LockOK
<1>8. CASE Cancel(r)
  <2>1. RequestsOK'
    BY <1>8 DEF Cancel, RequestsOK
  <2> QED
    BY <1>8, <2>1 DEF Cancel, RequestsOK, FilesOK, BuildsOK, LockOK
<1> QED
  BY <1>1, <1>2, <1>3, <1>4, <1>5, <1>6, <1>7, <1>8 DEF Request

(* Every step of a build keeps the types.                                  *)
LEMMA WorkType ==
  ASSUME TypeInv, NEW b \in Builds, Work(b)
  PROVE  TypeInv'
<1> USE DEF TypeInv, TypeOK, fileVars, reqVars, lockVars
<1>1. ASSUME b \in Builds, Lock(b) PROVE LockOK'
  BY <1>1, LockType
<1>2. CASE Enqueue(b)
  BY <1>1, <1>2 DEF Enqueue, RequestsOK, FilesOK, BuildsOK, Active, Known
<1>3. CASE TryLock(b)
  BY <1>3 DEF TryLock, RequestsOK, FilesOK, BuildsOK, LockOK, Active, Known
<1>4. CASE Begin(b)
  BY <1>4 DEF Begin, RequestsOK, FilesOK, BuildsOK, LockOK, Active, Guarded, Known
<1>5. CASE Extract(b)
  BY <1>5 DEF Extract, RequestsOK, FilesOK, BuildsOK, LockOK, Active, Guarded, Known
<1>6. CASE Check(b)
  BY <1>6 DEF Check, RequestsOK, FilesOK, BuildsOK, LockOK, Active, Guarded, Known
<1>7. CASE Write(b)
  <2>1. [stamp |-> built[b], text |-> text[b], build |-> b] \in Doc
    BY DEF BuildsOK, Doc
  <2> QED
    BY <1>7, <2>1 DEF Write, RequestsOK, FilesOK, BuildsOK, LockOK, Active, Guarded, Known
<1>8. CASE Fail(b)
  BY <1>8 DEF Fail, RequestsOK, FilesOK, BuildsOK, LockOK, Active, Guarded, Known
<1>9. CASE Release(b)
  <2>1. LockOK'
    BY <1>9, UnlockType DEF Release
  <2> QED
    BY <1>9, <2>1 DEF Release, RequestsOK, FilesOK, BuildsOK, Active, Known
<1>10. CASE Publish(b)
  BY <1>10 DEF Publish, RequestsOK, FilesOK, BuildsOK, LockOK, Known
<1> QED
  BY <1>2, <1>3, <1>4, <1>5, <1>6, <1>7, <1>8, <1>9, <1>10 DEF Work

(* The type invariant is kept by every step.                               *)
LEMMA TypeInvInductive ==
  /\ Init => TypeInv
  /\ TypeInv /\ [Next]_vars => TypeInv'
<1>1. ASSUME Init PROVE TypeInv
  <2>1. <<>> \in Seq(Builds \cup Users)
    BY EmptySeq
  <2>2. 0 \in Stamps
    BY StampAssumption DEF Stamps
  <2> QED
    BY <1>1, <2>1, <2>2 DEF Init, TypeInv, TypeOK, Known, RequestsOK, FilesOK, BuildsOK,
          LockOK, Waiting
<1>2. ASSUME TypeInv, [Next]_vars PROVE TypeInv'
  <2> USE DEF fileVars, reqVars, buildVars
  <2>1. CASE \E r \in Requests : Request(r)
    BY <1>2, <2>1, RequestType
  <2>2. CASE \E b \in Builds : Work(b)
    BY <1>2, <2>2, WorkType
  <2>3. ASSUME NEW u \in Users, UserLock(u) \/ UserUnlock(u) PROVE TypeInv'
    <3>1. LockOK'
      BY <1>2, <2>3, LockType, UnlockType DEF UserLock, UserUnlock, TypeInv, TypeOK
    <3> QED
      BY <1>2, <2>3, <3>1 DEF UserLock, UserUnlock, TypeInv, TypeOK, RequestsOK, FilesOK,
            BuildsOK, Known
  <2>4. ASSUME NEW d \in Dirs, EditSource(d) PROVE TypeInv'
    BY <1>2, <2>4, StampAssumption DEF EditSource, TypeInv, TypeOK, RequestsOK, FilesOK,
          BuildsOK, LockOK, Known, Stamps, lockVars
  <2>5. CASE UNCHANGED vars
    BY <1>2, <2>5 DEF vars, TypeInv, TypeOK, RequestsOK, FilesOK, BuildsOK, LockOK, Known,
          lockVars
  <2> QED
    BY <1>2, <2>1, <2>2, <2>3, <2>4, <2>5 DEF Next
<1> QED
  BY <1>1, <1>2

(* Every state of get_or_build and of its builds stays within the declared *)
(* sets, whatever the order in which requests, builds and users step.      *)
THEOREM TypeCorrect == Spec => []TypeOK
<1>1. TypeInv => TypeOK
  BY DEF TypeInv
<1> QED
  BY <1>1, TypeInvInductive, PTL DEF Spec

-----------------------------------------------------------------------------
(* Exclusion.  Inductive on its own: the mutex has one holder, it changes  *)
(* hands only when it is free or when its holder lets go, and a build that *)
(* holds it stays in its guarded steps until then.                         *)
LEMMA LockStep ==
  ASSUME NEW x, Lock(x)
  PROVE  holder' = holder \/ holder = None
  BY DEF Lock

(* No two builds, and no build and foreground extraction, work at once.    *)
THEOREM Exclusion == Spec => []GuardedExtraction
<1>1. Init => GuardedExtraction
  BY DEF Init, GuardedExtraction, Guarded
<1>2. TypeInv /\ GuardedExtraction /\ [Next]_vars => GuardedExtraction'
  <2> SUFFICES ASSUME TypeInv, GuardedExtraction, [Next]_vars,
                      NEW b \in Builds, bpc'[b] \in Guarded
               PROVE  holder' = b
    BY DEF GuardedExtraction
  <2> USE NoneAssumption, HoldersAssumption
      DEF TypeInv, TypeOK, GuardedExtraction, Guarded, lockVars, buildVars
  <2>1. ASSUME NEW r \in Requests, Request(r) PROVE holder' = b
    <3>1. holder' = holder /\ bpc'[b] \in {bpc[b], "poll"}
      BY <2>1 DEF Request, Call, StatSource, ReadCache, Join, Recheck, Spawn, Receive,
            Cancel, BuildsOK
    <3> QED
      BY <3>1
  <2>2. ASSUME NEW c \in Builds, Work(c) PROVE holder' = b
    <3>1. CASE Enqueue(c) \/ TryLock(c)
      <4>1. bpc[b] \in Guarded /\ (holder' = holder \/ holder = None)
        BY <3>1, LockStep DEF Enqueue, TryLock, BuildsOK
      <4> QED
        BY <4>1
    <3>2. CASE Begin(c) \/ Extract(c) \/ Check(c) \/ Write(c) \/ Fail(c)
      BY <3>2 DEF Begin, Extract, Check, Write, Fail, BuildsOK
    <3>3. CASE Release(c) \/ Publish(c)
      BY <3>3 DEF Release, Publish, BuildsOK
    <3> QED
      BY <2>2, <3>1, <3>2, <3>3 DEF Work
  <2>3. ASSUME NEW u \in Users, UserLock(u) \/ UserUnlock(u) PROVE holder' = b
    <3>1. bpc' = bpc
      BY <2>3 DEF UserLock, UserUnlock
    <3>2. holder = b
      BY <3>1
    <3> QED
      BY <2>3, <3>2, LockStep DEF UserLock, UserUnlock
  <2>4. CASE \E d \in Dirs : EditSource(d)
    BY <2>4 DEF EditSource
  <2>5. CASE UNCHANGED vars
    BY <2>5 DEF vars
  <2> QED
    BY <2>1, <2>2, <2>3, <2>4, <2>5 DEF Next
<1> QED
  BY <1>1, <1>2, TypeInvInductive, PTL DEF Spec

-----------------------------------------------------------------------------
(* Coalescing.  A build that has a result to publish has made one.         *)
Made == \A b \in Builds : bpc[b] \in {"release", "publish", "done"} => made[b] # None

FlightInv == SingleFlight /\ NoOrphan /\ Made

(* A request joins a live build or spawns the only one of its directory.   *)
LEMMA RequestFlight ==
  ASSUME TypeInv, FlightInv, NEW r \in Requests, Request(r)
  PROVE  FlightInv'
<1> USE NoneAssumption
    DEF TypeInv, TypeOK, Known, FlightInv, SingleFlight, NoOrphan, Made, fileVars, buildVars
<1>1. CASE Call(r)
  BY <1>1 DEF Call, RequestsOK, Waiting
<1>2. CASE StatSource(r) \/ ReadCache(r) \/ Recheck(r) \/ Receive(r) \/ Cancel(r)
  BY <1>2 DEF StatSource, ReadCache, Recheck, Receive, Cancel, Answer, RequestsOK
<1>3. CASE Join(r)
  BY <1>3 DEF Join, RequestsOK, BuildsOK
<1>4. CASE Spawn(r)
  <2>1. want[r].dir \in Dirs
    BY <1>4 DEF Spawn, Want, Waiting
  <2>2. PICK b \in Builds :
          /\ bpc[b] = "unborn"
          /\ jobs' = [jobs EXCEPT ![want[r].dir] = b]
          /\ bpc' = [bpc EXCEPT ![b] = "poll"]
          /\ bdir' = [bdir EXCEPT ![b] = want[r].dir]
          /\ joined' = [joined EXCEPT ![r] = b]
    BY <1>4 DEF Spawn
  <2>3. SingleFlight'
    BY <1>4, <2>1, <2>2 DEF Spawn, FilesOK, BuildsOK, Active, Guarded
  <2>4. ASSUME NEW q \in Requests, rpc'[q] = "await"
        PROVE  \/ jobs'[want'[q].dir] = joined'[q]
               \/ bpc'[joined'[q]] = "done" /\ made'[joined'[q]] # None
    <3>1. CASE q = r
      BY <1>4, <2>1, <2>2, <3>1 DEF Spawn, FilesOK, RequestsOK
    <3>2. CASE q # r
      <4>1. /\ rpc[q] = "await" /\ joined'[q] = joined[q] /\ joined[q] \in Builds
            /\ want' = want /\ want[q].dir \in Dirs
        BY <1>4, <2>2, <2>4, <3>2 DEF Spawn, RequestsOK, Waiting, Want
      <4>2. CASE jobs[want[q].dir] = joined[q]
        BY <1>4, <2>1, <2>2, <4>1, <4>2 DEF Spawn, FilesOK
      <4>3. CASE bpc[joined[q]] = "done" /\ made[joined[q]] # None
        BY <1>4, <2>2, <4>1, <4>3 DEF Spawn, BuildsOK
      <4> QED
        BY <4>1, <4>2, <4>3
    <3> QED
      BY <3>1, <3>2
  <2>5. Made'
    BY <1>4, <2>2 DEF Spawn, BuildsOK
  <2> QED
    BY <2>3, <2>4, <2>5
<1> QED
  BY <1>1, <1>2, <1>3, <1>4 DEF Request

(* A build leaves its slot only with its result.                           *)
LEMMA WorkFlight ==
  ASSUME TypeInv, FlightInv, NEW b \in Builds, Work(b)
  PROVE  FlightInv'
<1> USE NoneAssumption, ResultAssumption
    DEF TypeInv, TypeOK, Known, FlightInv, SingleFlight, NoOrphan, Made, fileVars, reqVars,
        Active, Guarded
<1>1. CASE Publish(b)
  <2>1. bdir[b] \in Dirs /\ jobs[bdir[b]] = b
    BY <1>1 DEF Publish
  <2>2. SingleFlight'
    BY <1>1, <2>1 DEF Publish, FilesOK, BuildsOK
  <2>3. NoOrphan'
    BY <1>1, <2>1 DEF Publish, FilesOK, BuildsOK
  <2>4. Made'
    BY <1>1 DEF Publish, BuildsOK
  <2> QED
    BY <2>2, <2>3, <2>4
<1>2. CASE Write(b)
  <2> DEFINE doc == [stamp |-> built[b], text |-> text[b], build |-> b]
  <2>1. doc \in Doc
    BY DEF BuildsOK, Doc
  <2>2. doc # None
    BY <2>1
  <2> HIDE DEF doc
  <2>3. made' = [made EXCEPT ![b] = doc]
    BY <1>2 DEF Write, doc
  <2> QED
    BY <1>2, <2>2, <2>3 DEF Write, BuildsOK, FilesOK
<1>3. CASE Enqueue(b) \/ TryLock(b) \/ Begin(b) \/ Extract(b) \/ Check(b)
  BY <1>3 DEF Enqueue, TryLock, Begin, Extract, Check, BuildsOK, FilesOK
<1>4. CASE Fail(b)
  BY <1>4 DEF Fail, BuildsOK, FilesOK
<1>5. CASE Release(b)
  BY <1>5 DEF Release, BuildsOK, FilesOK
<1> QED
  BY <1>1, <1>2, <1>3, <1>4, <1>5 DEF Work

(* The slots and the builds stay in step.                                  *)
LEMMA FlightInvInductive ==
  /\ Init => FlightInv
  /\ TypeInv /\ FlightInv /\ [Next]_vars => FlightInv'
<1>1. Init => FlightInv
  BY DEF Init, FlightInv, SingleFlight, NoOrphan, Made, Active, Guarded
<1>2. ASSUME TypeInv, FlightInv, [Next]_vars PROVE FlightInv'
  <2>1. CASE \E r \in Requests : Request(r)
    BY <1>2, <2>1, RequestFlight
  <2>2. CASE \E b \in Builds : Work(b)
    BY <1>2, <2>2, WorkFlight
  <2>3. CASE UNCHANGED <<jobs, reqVars, buildVars>>
    BY <1>2, <2>3 DEF FlightInv, SingleFlight, NoOrphan, Made, reqVars, buildVars
  <2> QED
    BY <1>2, <2>1, <2>2, <2>3 DEF Next, vars, UserLock, UserUnlock, EditSource
<1> QED
  BY <1>1, <1>2

(* Concurrent requests of one paper share one build, which works under the *)
(* mutex, and no waiter is left with a channel nobody will write to.       *)
THEOREM Coalescing == Spec => []Coalesced
<1>1. FlightInv /\ GuardedExtraction => Coalesced
  BY DEF FlightInv, Coalesced
<1> QED
  BY <1>1, TypeInvInductive, FlightInvInductive, Exclusion, PTL DEF Spec

-----------------------------------------------------------------------------
(* Freshness.  The stamps of a source only grow, so what a build read of   *)
(* it lies between the stamp it took and the stamp of now; when the check  *)
(* finds the two equal, all three are.                                     *)
Bracketed ==
  \A b \in Builds :
    /\ bpc[b] \in {"build", "check"} => built[b] <= stamp[bdir[b]]
    /\ bpc[b] = "check" => built[b] <= text[b] /\ text[b] <= stamp[bdir[b]]
    /\ bpc[b] = "write" => text[b] = built[b]

FreshInv == Bracketed /\ IndexMatchesStamp

(* A persisted reading index was extracted from the PDF its stamp names.   *)
THEOREM Freshness == Spec => []IndexMatchesStamp
<1>1. Init => FreshInv
  BY DEF Init, FreshInv, Bracketed, IndexMatchesStamp
<1>2. TypeInv /\ FreshInv /\ [Next]_vars => FreshInv'
  <2> SUFFICES ASSUME TypeInv, FreshInv, [Next]_vars PROVE FreshInv'
    OBVIOUS
  <2> USE DEF TypeInv, TypeOK, Known, FreshInv, Bracketed, IndexMatchesStamp, fileVars,
              buildVars
  <2>1. ASSUME NEW r \in Requests, Request(r) PROVE FreshInv'
    <3>1. CASE Spawn(r)
      BY <2>1, <3>1 DEF Spawn, BuildsOK
    <3>2. CASE ~Spawn(r)
      BY <2>1, <3>2 DEF Request, Call, StatSource, ReadCache, Join, Recheck, Receive, Cancel
    <3> QED
      BY <3>1, <3>2
  <2>2. ASSUME NEW b \in Builds, Work(b) PROVE FreshInv'
    <3> USE StampAssumption DEF Stamps
    <3>1. CASE Begin(b)
      BY <3>1 DEF Begin, BuildsOK, FilesOK
    <3>2. CASE Extract(b)
      BY <3>2 DEF Extract, BuildsOK, FilesOK
    <3>3. CASE Check(b)
      BY <3>3 DEF Check, BuildsOK, FilesOK
    <3>4. CASE Write(b)
      BY <3>4 DEF Write, BuildsOK, FilesOK
    <3>5. CASE Enqueue(b) \/ TryLock(b) \/ Fail(b) \/ Release(b) \/ Publish(b)
      BY <3>5 DEF Enqueue, TryLock, Fail, Release, Publish, BuildsOK, FilesOK
    <3> QED
      BY <2>2, <3>1, <3>2, <3>3, <3>4, <3>5 DEF Work
  <2>3. ASSUME NEW d \in Dirs, EditSource(d) PROVE FreshInv'
    BY <2>3, StampAssumption DEF EditSource, FilesOK, BuildsOK, Stamps
  <2>4. CASE UNCHANGED <<fileVars, buildVars>>
    BY <2>4
  <2> QED
    BY <2>1, <2>2, <2>3, <2>4 DEF Next, vars, UserLock, UserUnlock
<1>3. FreshInv => IndexMatchesStamp
  BY DEF FreshInv
<1> QED
  BY <1>1, <1>2, <1>3, TypeInvInductive, PTL DEF Spec

-----------------------------------------------------------------------------
(* Currency of the answers.  A request never changes what it wants once it *)
(* has begun, so the stamp it began with bounds, from below, the stamp of  *)
(* its directory, the one it read, and the one of a build it spawned.      *)
Begun(r) == rpc[r] # "idle"

AskedBefore ==
  \A r \in Requests :
    /\ Begun(r) => want[r] \in Want /\ asked[r] <= stamp[want[r].dir]
    /\ rpc[r] = "read" => asked[r] <= seen[r]
    /\ rpc[r] \in {"idle", "stat", "read", "lock"} => joined[r] = None
    /\ rpc[r] # "done" => answer[r] = None
    /\ joined[r] # None => bpc[joined[r]] # "unborn"

SpawnedFor ==
  \A b \in Builds :
    /\ bpc[b] = "unborn" => made[b] = None
    /\ bpc[b] # "unborn" => /\ starter[b] \in Requests
                            /\ Begun(starter[b])
                            /\ want[starter[b]].dir = bdir[b]

BuiltAfter ==
  \A b \in Builds :
    /\ bpc[b] \in {"build", "check", "write"} => asked[starter[b]] <= built[b]
    /\ made[b] \in Doc => asked[starter[b]] <= made[b].stamp

CurrentInv == AskedBefore /\ SpawnedFor /\ BuiltAfter /\ AnswerIsCurrent

(* The asked stamp of a request that has begun is the one it began with,   *)
(* so beginning another request leaves every bound alone.                  *)
LEMMA CallCurrent ==
  ASSUME TypeInv, CurrentInv, NEW r \in Requests, Call(r)
  PROVE  CurrentInv'
<1> USE StampAssumption, ResultAssumption
    DEF TypeInv, TypeOK, Known, CurrentInv, RequestsOK, FilesOK, BuildsOK, Begun, Stamps
<1>1. PICK w \in Want :
         /\ want' = [want EXCEPT ![r] = w]
         /\ asked' = [asked EXCEPT ![r] = stamp[w.dir]]
         /\ rpc' = [rpc EXCEPT ![r] = IF w.refresh THEN "lock" ELSE "stat"]
  BY DEF Call
<1>2. /\ rpc[r] = "idle" /\ w.dir \in Dirs
      /\ UNCHANGED <<stamp, disk, seen, joined, answer, bpc, bdir, built, made, starter>>
  BY DEF Call, Want, fileVars, buildVars
<1>3. \A q \in Requests : Begun(q) => /\ q # r /\ Begun(q)'
                                      /\ want'[q] = want[q] /\ asked'[q] = asked[q]
  BY <1>1, <1>2
<1>4. rpc'[r] \in {"lock", "stat"} /\ want'[r] = w /\ asked'[r] = stamp[w.dir]
  BY <1>1
<1>5. AskedBefore'
  <2> SUFFICES ASSUME NEW q \in Requests
               PROVE  /\ Begun(q)' => want'[q] \in Want /\ asked'[q] <= stamp'[want'[q].dir]
                      /\ rpc'[q] = "read" => asked'[q] <= seen'[q]
                      /\ rpc'[q] \in {"idle", "stat", "read", "lock"} => joined'[q] = None
                      /\ rpc'[q] # "done" => answer'[q] = None
                      /\ joined'[q] # None => bpc'[joined'[q]] # "unborn"
    BY DEF AskedBefore
  <2>1. CASE q = r
    BY <1>2, <1>4, <2>1 DEF AskedBefore
  <2>2. CASE q # r
    <3>1. rpc'[q] = rpc[q] /\ want'[q] = want[q] /\ asked'[q] = asked[q]
      BY <1>1, <2>2
    <3> QED
      BY <1>2, <3>1 DEF AskedBefore
  <2> QED
    BY <2>1, <2>2
<1>6. SpawnedFor'
  BY <1>2, <1>3 DEF SpawnedFor
<1>7. \A b \in Builds : bpc[b] # "unborn" => asked'[starter[b]] = asked[starter[b]]
  BY <1>3 DEF SpawnedFor
<1>8. \A b \in Builds : made[b] \in Doc => bpc[b] # "unborn"
  BY DEF SpawnedFor
<1>9. BuiltAfter'
  BY <1>2, <1>7, <1>8 DEF BuiltAfter
<1>10. AnswerIsCurrent'
  <2> SUFFICES ASSUME NEW q \in Requests, answer[q] \in Doc
               PROVE  LET asker == IF joined[q] = None THEN q ELSE starter[joined[q]]
                      IN  answer[q].stamp >= asked'[asker]
    BY <1>2 DEF AnswerIsCurrent
  <2>1. Begun(q)
    BY DEF AskedBefore
  <2>2. CASE joined[q] = None
    BY <1>3, <2>1, <2>2 DEF AnswerIsCurrent
  <2>3. CASE joined[q] # None
    <3>1. joined[q] \in Builds /\ bpc[joined[q]] # "unborn"
      BY <2>3 DEF AskedBefore
    <3> QED
      BY <1>7, <2>3, <3>1 DEF AnswerIsCurrent
  <2> QED
    BY <2>2, <2>3
<1> QED
  BY <1>5, <1>6, <1>9, <1>10

(* A request is answered from a cache whose stamp it read after it began,  *)
(* or by the build it joined.                                              *)
LEMMA RequestCurrent ==
  ASSUME TypeInv, FlightInv, CurrentInv, NEW r \in Requests, Request(r)
  PROVE  CurrentInv'
<1> USE NoneAssumption, StampAssumption, ResultAssumption
    DEF TypeInv, TypeOK, Known, CurrentInv, RequestsOK, FilesOK, BuildsOK, Begun, Waiting,
        Stamps, fileVars, buildVars
<1>1. CASE Call(r)
  BY <1>1, CallCurrent
<1>2. CASE StatSource(r)
  <2>1. want[r].dir \in Dirs /\ stamp[want[r].dir] \in Stamps
    BY <1>2 DEF StatSource, Want
  <2>2. AskedBefore'
    BY <1>2, <2>1 DEF StatSource, Answer, AskedBefore
  <2>3. SpawnedFor' /\ BuiltAfter'
    BY <1>2 DEF StatSource, Answer, SpawnedFor, BuiltAfter
  <2>4. AnswerIsCurrent'
    BY <1>2 DEF StatSource, Answer, AnswerIsCurrent
  <2> QED
    BY <2>2, <2>3, <2>4
<1>3. CASE ReadCache(r)
  <2>1. want[r].dir \in Dirs
    BY <1>3 DEF ReadCache, Want
  <2>2. AskedBefore'
    BY <1>3 DEF ReadCache, Answer, AskedBefore
  <2>3. SpawnedFor' /\ BuiltAfter'
    BY <1>3 DEF ReadCache, Answer, SpawnedFor, BuiltAfter
  <2>4. AnswerIsCurrent'
    BY <1>3, <2>1 DEF ReadCache, Valid, Answer, AnswerIsCurrent, AskedBefore
  <2> QED
    BY <2>2, <2>3, <2>4
<1>4. CASE Join(r)
  <2>1. want[r].dir \in Dirs /\ jobs[want[r].dir] \in Builds
    BY <1>4 DEF Join, Want
  <2>2. answer[r] = None
    BY <1>4 DEF Join, AskedBefore
  <2>3. bpc[jobs[want[r].dir]] # "unborn"
    BY <1>4, <2>1 DEF Join, SingleFlight, Active, Guarded, FlightInv
  <2>4. AskedBefore'
    BY <1>4, <2>1, <2>3 DEF Join, AskedBefore
  <2>5. SpawnedFor' /\ BuiltAfter'
    BY <1>4 DEF Join, SpawnedFor, BuiltAfter
  <2>6. AnswerIsCurrent'
    BY <1>4, <2>2 DEF Join, AnswerIsCurrent
  <2> QED
    BY <2>4, <2>5, <2>6
<1>5. CASE Recheck(r)
  <2>1. want[r].dir \in Dirs
    BY <1>5 DEF Recheck, Want
  <2>2. AskedBefore'
    BY <1>5 DEF Recheck, Answer, AskedBefore
  <2>3. SpawnedFor' /\ BuiltAfter'
    BY <1>5 DEF Recheck, Answer, SpawnedFor, BuiltAfter
  <2>4. AnswerIsCurrent'
    BY <1>5, <2>1 DEF Recheck, Valid, Answer, AnswerIsCurrent, AskedBefore
  <2> QED
    BY <2>2, <2>3, <2>4
<1>6. CASE Spawn(r)
  <2>1. want[r].dir \in Dirs /\ answer[r] = None
    BY <1>6 DEF Spawn, Want, AskedBefore
  <2>2. PICK b \in Builds :
          /\ bpc[b] = "unborn"
          /\ bpc' = [bpc EXCEPT ![b] = "poll"]
          /\ bdir' = [bdir EXCEPT ![b] = want[r].dir]
          /\ starter' = [starter EXCEPT ![b] = r]
          /\ joined' = [joined EXCEPT ![r] = b]
    BY <1>6 DEF Spawn
  <2>3. made[b] = None
    BY <2>2 DEF SpawnedFor
  <2>4. AskedBefore'
    BY <1>6, <2>2 DEF Spawn, AskedBefore
  <2>5. SpawnedFor'
    BY <1>6, <2>2 DEF Spawn, SpawnedFor
  <2>6. BuiltAfter'
    BY <1>6, <2>2, <2>3 DEF Spawn, BuiltAfter
  <2>7. ASSUME NEW q \in Requests, answer[q] \in Doc
        PROVE  LET asker == IF joined'[q] = None THEN q ELSE starter'[joined'[q]]
               IN  answer[q].stamp >= asked[asker]
    <3>1. q # r /\ joined'[q] = joined[q]
      BY <2>1, <2>2, <2>7
    <3>2. joined[q] # None => joined[q] # b /\ starter'[joined[q]] = starter[joined[q]]
      BY <2>2 DEF AskedBefore
    <3> QED
      BY <2>7, <3>1, <3>2 DEF AnswerIsCurrent
  <2>8. AnswerIsCurrent'
    BY <1>6, <2>7 DEF Spawn, AnswerIsCurrent
  <2> QED
    BY <2>4, <2>5, <2>6, <2>8
<1>7. CASE Receive(r)
  <2>1. joined[r] \in Builds
    BY <1>7 DEF Receive
  <2>2. AskedBefore'
    BY <1>7 DEF Receive, Answer, AskedBefore
  <2>3. SpawnedFor' /\ BuiltAfter'
    BY <1>7 DEF Receive, Answer, SpawnedFor, BuiltAfter
  <2>4. AnswerIsCurrent'
    BY <1>7, <2>1 DEF Receive, Answer, AnswerIsCurrent, BuiltAfter, SpawnedFor, Doc
  <2> QED
    BY <2>2, <2>3, <2>4
<1>8. CASE Cancel(r)
  BY <1>8 DEF Cancel, AskedBefore, SpawnedFor, BuiltAfter, AnswerIsCurrent
<1> QED
  BY <1>1, <1>2, <1>3, <1>4, <1>5, <1>6, <1>7, <1>8 DEF Request

(* A build takes the stamp after it was spawned, so after the request it   *)
(* was spawned for began.                                                  *)
LEMMA WorkCurrent ==
  ASSUME TypeInv, CurrentInv, NEW b \in Builds, Work(b)
  PROVE  CurrentInv'
<1> USE StampAssumption, ResultAssumption
    DEF TypeInv, TypeOK, Known, CurrentInv, RequestsOK, FilesOK, BuildsOK, Begun, Active,
        Guarded, Stamps, fileVars, reqVars
<1>1. ASSUME UNCHANGED <<stamp, rpc, want, asked, seen, joined, answer, bdir, starter>>,
             \A c \in Builds : bpc[c] # "unborn" <=> bpc'[c] # "unborn"
      PROVE  AskedBefore' /\ AnswerIsCurrent'
  BY <1>1 DEF AskedBefore, AnswerIsCurrent
<1>2. CASE Begin(b)
  <2>1. bdir[b] \in Dirs /\ starter[b] \in Requests /\ Begun(starter[b])
        /\ want[starter[b]].dir = bdir[b]
    BY <1>2 DEF Begin, SpawnedFor
  <2>2. asked[starter[b]] <= stamp[bdir[b]]
    BY <2>1 DEF AskedBefore
  <2>3. SpawnedFor'
    BY <1>2 DEF Begin, SpawnedFor
  <2>4. BuiltAfter'
    BY <1>2, <2>2 DEF Begin, BuiltAfter
  <2> QED
    BY <1>1, <1>2, <2>3, <2>4 DEF Begin
<1>3. CASE Write(b)
  <2> DEFINE doc == [stamp |-> built[b], text |-> text[b], build |-> b]
  <2>1. doc.stamp = built[b]
    OBVIOUS
  <2> HIDE DEF doc
  <2>2. made' = [made EXCEPT ![b] = doc]
    BY <1>3 DEF Write, doc
  <2>3. SpawnedFor'
    BY <1>3, <2>2 DEF Write, SpawnedFor
  <2>4. BuiltAfter'
    BY <1>3, <2>1, <2>2 DEF Write, BuiltAfter
  <2> QED
    BY <1>1, <1>3, <2>3, <2>4 DEF Write
<1>4. CASE Fail(b)
  <2>1. SpawnedFor'
    BY <1>4 DEF Fail, SpawnedFor
  <2>2. BuiltAfter'
    BY <1>4 DEF Fail, BuiltAfter
  <2> QED
    BY <1>1, <1>4, <2>1, <2>2 DEF Fail
<1>5. CASE Enqueue(b) \/ TryLock(b) \/ Extract(b) \/ Check(b) \/ Release(b) \/ Publish(b)
  <2> USE <1>5 DEF Enqueue, TryLock, Extract, Check, Release, Publish
  <2>1. SpawnedFor'
    BY DEF SpawnedFor
  <2>2. BuiltAfter'
    BY DEF BuiltAfter
  <2>3. UNCHANGED <<stamp, rpc, want, asked, seen, joined, answer, bdir, starter>>
    OBVIOUS
  <2>4. \A c \in Builds : bpc[c] # "unborn" <=> bpc'[c] # "unborn"
    OBVIOUS
  <2> QED
    BY <1>1, <2>1, <2>2, <2>3, <2>4
<1> QED
  BY <1>2, <1>3, <1>4, <1>5 DEF Work

(* The bounds hold at the start, and an edit of a source only raises them. *)
LEMMA CurrentInvInductive ==
  /\ Init => CurrentInv
  /\ TypeInv /\ FlightInv /\ CurrentInv /\ [Next]_vars => CurrentInv'
<1>1. Init => CurrentInv
  BY ResultAssumption
     DEF Init, CurrentInv, AskedBefore, SpawnedFor, BuiltAfter, AnswerIsCurrent, Begun
<1>2. TypeInv /\ FlightInv /\ CurrentInv /\ [Next]_vars => CurrentInv'
  <2> SUFFICES ASSUME TypeInv, FlightInv, CurrentInv, [Next]_vars PROVE CurrentInv'
    OBVIOUS
  <2>1. CASE \E r \in Requests : Request(r)
    BY <2>1, RequestCurrent
  <2>2. CASE \E b \in Builds : Work(b)
    BY <2>2, WorkCurrent
  <2>3. ASSUME NEW d \in Dirs, EditSource(d) PROVE CurrentInv'
    <3>1. /\ \A e \in Dirs : stamp[e] <= stamp'[e] /\ stamp[e] \in Nat /\ stamp'[e] \in Nat
          /\ \A r \in Requests : asked[r] \in Nat
      BY <2>3, StampAssumption DEF EditSource, TypeInv, TypeOK, FilesOK, RequestsOK, Stamps
    <3>2. UNCHANGED <<reqVars, buildVars>>
      BY <2>3 DEF EditSource
    <3>3. AskedBefore'
      BY <3>1, <3>2 DEF CurrentInv, AskedBefore, Begun, Want, reqVars, buildVars
    <3> QED
      BY <3>2, <3>3 DEF CurrentInv, SpawnedFor, BuiltAfter, AnswerIsCurrent, Begun, reqVars,
                        buildVars
  <2>4. CASE UNCHANGED <<stamp, reqVars, buildVars>>
    BY <2>4 DEF CurrentInv, AskedBefore, SpawnedFor, BuiltAfter, AnswerIsCurrent, Begun,
                reqVars, buildVars
  <2> QED
    BY <2>1, <2>2, <2>3, <2>4 DEF Next, vars, fileVars, UserLock, UserUnlock
<1> QED
  BY <1>1, <1>2

(* A request answered from the cache never gets the index of a PDF that    *)
(* was replaced before it began, and one that waited for a build nothing   *)
(* older than the request its build was spawned for.                       *)
THEOREM Currency == Spec => []AnswerIsCurrent
<1>1. CurrentInv => AnswerIsCurrent
  BY DEF CurrentInv
<1> QED
  BY <1>1, TypeInvInductive, FlightInvInductive, CurrentInvInductive, PTL DEF Spec

-----------------------------------------------------------------------------
(* One build per source.  The index on disk only gets newer, and it is at  *)
(* least as new as every one that was ever built.  A build spawned because *)
(* the cache would not do finds it older than the source, and then older   *)
(* than the stamp it took, until it writes: nobody else writes meanwhile.  *)
Persisted ==
  \A b \in Builds : made[b] \in Doc =>
    /\ bpc[b] \in {"release", "publish", "done"}
    /\ disk[bdir[b]] # None
    /\ built[b] <= disk[bdir[b]].stamp

Grown ==
  /\ \A d \in Dirs : disk[d] # None => disk[d].stamp <= stamp[d]
  /\ \A b \in Builds : bpc[b] \in {"build", "check", "write"} =>
       /\ built[b] <= stamp[bdir[b]]
       /\ disk[bdir[b]] # None => disk[bdir[b]].stamp <= built[b]

Outdated ==
  \A b \in Builds : ~want[starter[b]].refresh /\ disk[bdir[b]] # None =>
    /\ bpc[b] \in {"poll", "take"} => disk[bdir[b]].stamp < stamp[bdir[b]]
    /\ bpc[b] \in {"build", "check", "write"} => disk[bdir[b]].stamp < built[b]

OnceInv == Persisted /\ Grown /\ Outdated /\ OneBuildPerSource

(* A request changes none of it, except that it may spawn a build, and one *)
(* that asks for no refresh does so only when the index is outdated.       *)
LEMMA RequestOnce ==
  ASSUME TypeInv, CurrentInv, OnceInv, NEW r \in Requests, Request(r)
  PROVE  OnceInv'
<1> USE NoneAssumption, StampAssumption, ResultAssumption
    DEF TypeInv, TypeOK, Known, RequestsOK, FilesOK, BuildsOK, Stamps, OnceInv, fileVars,
        buildVars
<1>1. CASE Call(r)
  <2>1. PICK w \in Want : want' = [want EXCEPT ![r] = w]
    BY <1>1 DEF Call
  <2>2. rpc[r] = "idle" /\ UNCHANGED <<stamp, disk, bpc, bdir, built, made, starter>>
    BY <1>1 DEF Call
  <2>3. \A b \in Builds : bpc[b] # "unborn" => want'[starter[b]] = want[starter[b]]
    BY <2>1, <2>2 DEF CurrentInv, SpawnedFor, Begun
  <2>4. Persisted' /\ Grown'
    BY <2>2 DEF Persisted, Grown
  <2>5. Outdated'
    BY <2>2, <2>3 DEF Outdated
  <2>6. OneBuildPerSource'
    BY <2>2, <2>3 DEF OneBuildPerSource, Persisted
  <2> QED
    BY <2>4, <2>5, <2>6
<1>2. CASE StatSource(r) \/ ReadCache(r) \/ Join(r) \/ Recheck(r) \/ Receive(r) \/ Cancel(r)
  <2>1. UNCHANGED <<stamp, disk, want, bpc, bdir, built, made, starter>>
    BY <1>2 DEF StatSource, ReadCache, Join, Recheck, Receive, Cancel
  <2> QED
    BY <2>1 DEF Persisted, Grown, Outdated, OneBuildPerSource
<1>3. CASE Spawn(r)
  <2>1. want[r].dir \in Dirs /\ want[r].refresh \in BOOLEAN
    BY <1>3 DEF Spawn, Want, Waiting
  <2>2. PICK b \in Builds :
          /\ bpc[b] = "unborn"
          /\ bpc' = [bpc EXCEPT ![b] = "poll"]
          /\ bdir' = [bdir EXCEPT ![b] = want[r].dir]
          /\ starter' = [starter EXCEPT ![b] = r]
    BY <1>3 DEF Spawn
  <2>3. UNCHANGED <<stamp, disk, want, built, made>>
    BY <1>3 DEF Spawn
  <2>4. /\ bpc'[b] = "poll" /\ bdir'[b] = want[r].dir /\ starter'[b] = r /\ made[b] = None
        /\ \A c \in Builds : c # b => /\ bpc'[c] = bpc[c] /\ bdir'[c] = bdir[c]
                                      /\ starter'[c] = starter[c]
    BY <2>2 DEF CurrentInv, SpawnedFor
  <2>5. ~want[r].refresh /\ disk[want[r].dir] # None =>
          disk[want[r].dir].stamp < stamp[want[r].dir]
    <3>1. ~want[r].refresh => ~Valid(want[r].dir, stamp[want[r].dir])
      BY <1>3 DEF Spawn, MustBuild
    <3>2. stamp[want[r].dir] \in Nat
      BY <2>1
    <3>3. disk[want[r].dir] # None => disk[want[r].dir].stamp \in Nat
      BY <2>1 DEF Doc
    <3>4. disk[want[r].dir] # None => disk[want[r].dir].stamp <= stamp[want[r].dir]
      BY <2>1 DEF Grown
    <3>5. ~want[r].refresh /\ disk[want[r].dir] # None =>
            disk[want[r].dir].stamp # stamp[want[r].dir]
      BY <3>1 DEF Valid
    <3> QED
      BY <3>2, <3>3, <3>4, <3>5
  <2>6. Persisted'
    BY <2>3, <2>4 DEF Persisted
  <2>7. Grown'
    BY <2>3, <2>4 DEF Grown
  <2>8. Outdated'
    BY <2>3, <2>4, <2>5 DEF Outdated
  <2>9. OneBuildPerSource'
    BY <2>3, <2>4 DEF OneBuildPerSource
  <2> QED
    BY <2>6, <2>7, <2>8, <2>9
<1> QED
  BY <1>1, <1>2, <1>3 DEF Request

(* A build that writes is the only live one of its directory, and every    *)
(* earlier one was built from an older stamp or for a refresh.             *)
LEMMA WorkOnce ==
  ASSUME TypeInv, FlightInv, CurrentInv, OnceInv, NEW b \in Builds, Work(b)
  PROVE  OnceInv'
<1> USE NoneAssumption, StampAssumption, ResultAssumption
    DEF TypeInv, TypeOK, Known, RequestsOK, FilesOK, BuildsOK, Stamps, OnceInv, fileVars,
        reqVars
<1>1. CASE Begin(b)
  <2>1. bdir[b] \in Dirs /\ stamp[bdir[b]] \in Nat
    BY <1>1 DEF Begin
  <2>2. /\ UNCHANGED <<stamp, disk, want, bdir, made, starter>>
        /\ bpc[b] = "take" /\ bpc'[b] = "build" /\ built'[b] = stamp[bdir[b]]
        /\ \A c \in Builds : c # b => bpc'[c] = bpc[c] /\ built'[c] = built[c]
    BY <1>1 DEF Begin
  <2>3. made[b] \notin Doc
    BY <2>2 DEF Persisted
  <2>4. Persisted'
    BY <2>2, <2>3 DEF Persisted
  <2>5. Grown'
    BY <2>1, <2>2 DEF Grown
  <2>6. Outdated'
    BY <2>1, <2>2 DEF Outdated
  <2>7. OneBuildPerSource'
    BY <2>2, <2>3 DEF OneBuildPerSource
  <2> QED
    BY <2>4, <2>5, <2>6, <2>7
<1>2. CASE Write(b)
  <2> DEFINE doc == [stamp |-> built[b], text |-> text[b], build |-> b]
             d == bdir[b]
  <2>1. doc \in Doc /\ doc # None /\ doc.stamp = built[b]
    BY DEF Doc
  <2> HIDE DEF doc
  <2>2. /\ disk' = [disk EXCEPT ![d] = doc] /\ made' = [made EXCEPT ![b] = doc]
        /\ bpc' = [bpc EXCEPT ![b] = "release"] /\ bpc[b] = "write"
        /\ UNCHANGED <<stamp, want, bdir, built, starter>>
    BY <1>2 DEF Write, doc
  <2>3. d \in Dirs /\ built[b] \in Nat
    BY <2>2
  <2> HIDE DEF d
  <2>4. /\ disk'[d] = doc /\ made'[b] = doc /\ bpc'[b] = "release"
        /\ \A e \in Dirs : e # d => disk'[e] = disk[e]
        /\ \A c \in Builds : c # b => made'[c] = made[c] /\ bpc'[c] = bpc[c]
    BY <2>2, <2>3
  <2>5. \A c \in Builds : bpc[c] # "unborn" => bdir[c] \in Dirs
    OBVIOUS
  <2>6. ASSUME NEW c \in Builds, c # b, bpc[c] \in Active
        PROVE  bdir[c] # d
    BY <2>2, <2>6 DEF FlightInv, SingleFlight, Active, Guarded, d
  <2>7. ASSUME NEW c \in Builds, made[c] \in Doc, bdir[c] = d
        PROVE  c # b /\ built[c] <= built[b] /\ (~want[starter[b]].refresh => built[c] < built[b])
    <3>1. bpc[c] \in {"release", "publish", "done"} /\ disk[d] # None
          /\ built[c] <= disk[d].stamp
      BY <2>7 DEF Persisted
    <3>2. disk[d].stamp \in Nat /\ built[c] \in Nat
      BY <2>3, <3>1 DEF Doc
    <3>3. disk[d].stamp <= built[b]
      BY <2>2, <3>1 DEF Grown, d
    <3>4. ~want[starter[b]].refresh => disk[d].stamp < built[b]
      BY <2>2, <3>1 DEF Outdated, d
    <3> QED
      BY <2>2, <2>3, <3>1, <3>2, <3>3, <3>4
  <2>8. Persisted'
    <3> SUFFICES ASSUME NEW c \in Builds, made'[c] \in Doc
                 PROVE  /\ bpc'[c] \in {"release", "publish", "done"}
                        /\ disk'[bdir[c]] # None /\ built[c] <= disk'[bdir[c]].stamp
      BY <2>2 DEF Persisted
    <3>1. CASE c = b
      BY <2>1, <2>3, <2>4, <3>1 DEF d
    <3>2. CASE c # b /\ bdir[c] = d
      BY <2>1, <2>4, <2>7, <3>2 DEF Persisted
    <3>3. CASE c # b /\ bdir[c] # d
      BY <2>4, <2>5, <3>3 DEF Persisted
    <3> QED
      BY <3>1, <3>2, <3>3
  <2>9. Grown'
    <3>1. built[b] <= stamp[d]
      BY <2>2 DEF Grown, d
    <3>2. \A e \in Dirs : disk'[e] # None => disk'[e].stamp <= stamp[e]
      BY <2>1, <2>4, <3>1 DEF Grown
    <3>3. ASSUME NEW c \in Builds, bpc'[c] \in {"build", "check", "write"}
          PROVE  /\ built[c] <= stamp[bdir[c]]
                 /\ disk'[bdir[c]] # None => disk'[bdir[c]].stamp <= built[c]
      <4>1. c # b /\ bpc[c] \in {"build", "check", "write"}
        BY <2>4, <3>3
      <4>2. bdir[c] \in Dirs /\ bdir[c] # d
        BY <2>5, <2>6, <4>1 DEF Active, Guarded
      <4> QED
        BY <2>4, <4>1, <4>2 DEF Grown
    <3> QED
      BY <2>2, <3>2, <3>3 DEF Grown
  <2>10. Outdated'
    <3> SUFFICES ASSUME NEW c \in Builds, ~want[starter[c]].refresh, disk'[bdir[c]] # None,
                        bpc'[c] \in {"poll", "take", "build", "check", "write"}
                 PROVE  /\ bpc'[c] \in {"poll", "take"} => disk'[bdir[c]].stamp < stamp[bdir[c]]
                        /\ bpc'[c] \in {"build", "check", "write"} =>
                             disk'[bdir[c]].stamp < built[c]
      BY <2>2 DEF Outdated
    <3>1. c # b /\ bpc[c] = bpc'[c]
      BY <2>4
    <3>2. bdir[c] \in Dirs /\ bdir[c] # d
      BY <2>5, <2>6, <3>1 DEF Active, Guarded
    <3> QED
      BY <2>4, <3>1, <3>2 DEF Outdated
  <2>11. OneBuildPerSource'
    <3> SUFFICES ASSUME NEW x \in Builds, NEW y \in Builds, made'[x] \in Doc, made'[y] \in Doc,
                        bdir[x] = bdir[y], built[x] = built[y],
                        ~want[starter[x]].refresh, ~want[starter[y]].refresh
                 PROVE  x = y
      BY <2>2 DEF OneBuildPerSource
    <3>1. CASE x # b /\ y # b
      BY <2>4, <3>1 DEF OneBuildPerSource
    <3>2. CASE x = b /\ y # b
      BY <2>3, <2>4, <2>7, <3>2 DEF d
    <3>3. CASE x # b /\ y = b
      BY <2>3, <2>4, <2>7, <3>3 DEF d
    <3> QED
      BY <3>1, <3>2, <3>3
  <2> QED
    BY <2>8, <2>9, <2>10, <2>11
<1>3. CASE Fail(b)
  <2>1. /\ UNCHANGED <<stamp, disk, want, bdir, built, starter>>
        /\ made'[b] = Error /\ bpc'[b] = "release"
        /\ \A c \in Builds : c # b => made'[c] = made[c] /\ bpc'[c] = bpc[c]
    BY <1>3 DEF Fail
  <2>2. Error \notin Doc
    OBVIOUS
  <2>3. Persisted'
    BY <2>1, <2>2 DEF Persisted
  <2>4. Grown'
    BY <2>1 DEF Grown
  <2>5. Outdated'
    BY <2>1 DEF Outdated
  <2>6. OneBuildPerSource'
    BY <2>1, <2>2 DEF OneBuildPerSource
  <2> QED
    BY <2>3, <2>4, <2>5, <2>6
<1>4. CASE Enqueue(b) \/ TryLock(b) \/ Extract(b) \/ Check(b) \/ Release(b) \/ Publish(b)
  <2>1. UNCHANGED <<stamp, disk, want, bdir, built, made, starter>>
    BY <1>4 DEF Enqueue, TryLock, Extract, Check, Release, Publish
  <2>2. /\ bpc[b] = "poll" => bpc'[b] = "take"
        /\ bpc[b] # "poll" => /\ bpc[b] \in {"build", "check", "release", "publish"}
                              /\ bpc[b] = "build" => bpc'[b] = "check"
                              /\ bpc[b] = "check" => bpc'[b] = "write"
                              /\ bpc[b] = "release" => bpc'[b] = "publish"
                              /\ bpc[b] = "publish" => bpc'[b] = "done"
        /\ \A c \in Builds : c # b => bpc'[c] = bpc[c]
    BY <1>4 DEF Enqueue, TryLock, Extract, Check, Release, Publish
  <2>3. Persisted'
    BY <2>1, <2>2 DEF Persisted
  <2>4. Grown'
    BY <2>1, <2>2 DEF Grown
  <2>5. Outdated'
    BY <2>1, <2>2 DEF Outdated
  <2>6. OneBuildPerSource'
    BY <2>1 DEF OneBuildPerSource
  <2> QED
    BY <2>3, <2>4, <2>5, <2>6
<1> QED
  BY <1>1, <1>2, <1>3, <1>4 DEF Work

(* A source is indexed once, unless a refresh asks for it again.           *)
THEOREM BuiltOnce == Spec => []OneBuildPerSource
<1>1. Init => OnceInv
  BY ResultAssumption
     DEF Init, OnceInv, Persisted, Grown, Outdated, OneBuildPerSource
<1>2. TypeInv /\ FlightInv /\ CurrentInv /\ OnceInv /\ [Next]_vars => OnceInv'
  <2> SUFFICES ASSUME TypeInv, FlightInv, CurrentInv, OnceInv, [Next]_vars PROVE OnceInv'
    OBVIOUS
  <2>1. CASE \E r \in Requests : Request(r)
    BY <2>1, RequestOnce
  <2>2. CASE \E b \in Builds : Work(b)
    BY <2>2, WorkOnce
  <2>3. ASSUME NEW d \in Dirs, EditSource(d) PROVE OnceInv'
    <3>1. /\ \A e \in Dirs : stamp[e] <= stamp'[e] /\ stamp[e] \in Nat /\ stamp'[e] \in Nat
          /\ \A e \in Dirs : disk[e] # None => disk[e].stamp \in Nat
          /\ \A b \in Builds : built[b] \in Nat
      BY <2>3, StampAssumption
         DEF EditSource, TypeInv, TypeOK, FilesOK, BuildsOK, Stamps, Doc
    <3>2. UNCHANGED <<disk, want, bpc, bdir, built, made, starter>>
      BY <2>3 DEF EditSource, reqVars, buildVars
    <3>3. \A b \in Builds : bpc[b] # "unborn" => bdir[b] \in Dirs
      BY DEF TypeInv, Known
    <3>4. Persisted' /\ OneBuildPerSource'
      BY <3>2 DEF OnceInv, Persisted, OneBuildPerSource
    <3>5. Grown'
      BY <3>1, <3>2, <3>3 DEF OnceInv, Grown
    <3>6. Outdated'
      BY <3>1, <3>2, <3>3 DEF OnceInv, Outdated
    <3> QED
      BY <3>4, <3>5, <3>6 DEF OnceInv
  <2>4. CASE UNCHANGED <<fileVars, reqVars, buildVars>>
    BY <2>4 DEF OnceInv, Persisted, Grown, Outdated, OneBuildPerSource, fileVars, reqVars,
                buildVars
  <2> QED
    BY <2>1, <2>2, <2>3, <2>4 DEF Next, vars, UserLock, UserUnlock
<1>3. OnceInv => OneBuildPerSource
  BY DEF OnceInv
<1> QED
  BY <1>1, <1>2, <1>3, TypeInvInductive, FlightInvInductive, CurrentInvInductive, PTL DEF Spec
-----------------------------------------------------------------------------
(* The registries.                                                         *)

(* A task in flight has a key; only a registry with a cache has handlers   *)
(* at work.                                                                *)
Keyed ==
  \A x \in Callers : InFlight(x) =>
    /\ task[x].key \in Keys
    /\ task[x].pc \in Handler => Of(x) \in CacheFirst

RegistryTypeInv == RegistryTypeOK /\ Keyed

-----------------------------------------------------------------------------
(* The types are inductive.                                                *)

(* Before anything is asked, all is idle.                                  *)
LEMMA InitType == RegistryInit => RegistryTypeInv
<1> SUFFICES ASSUME RegistryInit PROVE RegistryTypeInv
  OBVIOUS
<1>1. Idle \in Tasks /\ Idle.pc = "idle"
  BY DEF Idle, Tasks
<1>2. <<>> \in Seq(Callers)
  OBVIOUS
<1>3. RegistryTypeOK
  BY <1>1, <1>2 DEF RegistryInit, RegistryTypeOK
<1>4. Keyed
  BY <1>1 DEF RegistryInit, Keyed, InFlight
<1> QED
  BY <1>3, <1>4 DEF RegistryTypeInv

(* What Spawned leaves behind.                                             *)
LEMMA SpawnedType ==
  ASSUME RegistryTypeInv, NEW x \in Callers, NEW k \in Keys, Spawned(x, k)
  PROVE  /\ task' \in [Callers -> Tasks]
         /\ permitQueue' \in [Registries -> Seq(Callers)]
         /\ Keyed'
         /\ task'[x].pc = "queued" /\ task'[x].key = k
         /\ \A y \in Callers \ {x} : task'[y] = task[y]
<1> DEFINE t == [Idle EXCEPT !.pc = "queued", !.key = k]
<1>1. t \in Tasks /\ t.pc = "queued" /\ t.key = k
  BY DEF Idle, Tasks
<1> HIDE DEF t
<1>2. task' = [task EXCEPT ![x] = t]
  BY DEF Spawned, t
<1>3. task' \in [Callers -> Tasks] /\ task'[x] = t
      /\ \A y \in Callers \ {x} : task'[y] = task[y]
  BY <1>1, <1>2 DEF RegistryTypeInv, RegistryTypeOK
<1>4. permitQueue' \in [Registries -> Seq(Callers)]
  BY RegistryAssumption DEF RegistryTypeInv, RegistryTypeOK, Spawned
<1>5. Keyed'
  BY <1>1, <1>3 DEF Keyed, InFlight, Of, Handler, RegistryTypeInv
<1> QED
  BY <1>1, <1>3, <1>4, <1>5

(* The record of one task is replaced by one of its type.                  *)
LEMMA ReplacedType ==
  ASSUME RegistryTypeInv, NEW x \in Callers, NEW t \in Tasks, task' = [task EXCEPT ![x] = t],
         t.pc # "idle" => /\ t.key \in Keys
                          /\ t.pc \in Handler => Registry[t.key] \in CacheFirst
  PROVE  /\ task' \in [Callers -> Tasks] /\ Keyed'
         /\ task'[x] = t
         /\ \A y \in Callers \ {x} : task'[y] = task[y]
BY DEF RegistryTypeInv, RegistryTypeOK, Keyed, InFlight, Of

(* Every step keeps the types.                                             *)
LEMMA TypeInductive == RegistryTypeInv /\ [RegistryNext]_registryVars => RegistryTypeInv'
<1> SUFFICES ASSUME RegistryTypeInv, [RegistryNext]_registryVars PROVE RegistryTypeInv'
  OBVIOUS
<1>1. ASSUME NEW x \in Callers, Start(x) PROVE RegistryTypeInv'
  <2>1. PICK k \in Keys :
          /\ job' = [job EXCEPT ![k] = "running"]
          /\ \/ Spawned(x, k)
             \/ /\ Registry[k] \in CacheFirst
                /\ task' = [task EXCEPT ![x] = [Idle EXCEPT !.pc = "check", !.key = k]]
                /\ UNCHANGED permitQueue
    BY <1>1 DEF Start
  <2>2. job' \in [Keys -> {"idle", "running", "succeeded", "failed"}]
    BY <2>1 DEF RegistryTypeInv, RegistryTypeOK
  <2>3. CASE Spawned(x, k)
    BY <2>2, <2>3, SpawnedType DEF RegistryTypeInv, RegistryTypeOK
  <2>4. CASE /\ Registry[k] \in CacheFirst
             /\ task' = [task EXCEPT ![x] = [Idle EXCEPT !.pc = "check", !.key = k]]
             /\ UNCHANGED permitQueue
    <3> DEFINE t == [Idle EXCEPT !.pc = "check", !.key = k]
    <3>1. t \in Tasks /\ t.key = k
      BY DEF Idle, Tasks, Handler
    <3> HIDE DEF t
    <3>2. task' = [task EXCEPT ![x] = t]
      BY <2>4 DEF t
    <3> QED
      BY <2>2, <2>4, <3>1, <3>2, ReplacedType DEF RegistryTypeInv, RegistryTypeOK
  <2> QED
    BY <2>1, <2>3, <2>4
<1>2. ASSUME NEW x \in Callers, Background(x) PROVE RegistryTypeInv'
  <2>1. task[x].key \in Keys
    BY <1>2 DEF Background, RegistryTypeInv, Keyed, InFlight
  <2> QED
    BY <1>2, <2>1, SpawnedType DEF Background, RegistryTypeInv, RegistryTypeOK
<1>3. ASSUME NEW x \in Callers, AnswerCached(x) PROVE RegistryTypeInv'
  <2> DEFINE t == [task[x] EXCEPT !.pc = "inline"]
  <2>1. t \in Tasks /\ t.key = task[x].key
    BY DEF RegistryTypeInv, RegistryTypeOK, Tasks, Handler
  <2>2. t.key \in Keys /\ Registry[t.key] \in CacheFirst
    BY <1>3, <2>1 DEF AnswerCached, RegistryTypeInv, Keyed, InFlight, Of, Handler
  <2> HIDE DEF t
  <2>3. task' = [task EXCEPT ![x] = t]
    BY <1>3 DEF AnswerCached, t
  <2> QED
    BY <1>3, <2>1, <2>2, <2>3, ReplacedType DEF AnswerCached, RegistryTypeInv, RegistryTypeOK
<1>4. ASSUME NEW x \in Callers, Acquire(x) PROVE RegistryTypeInv'
  <2> DEFINE t == [task[x] EXCEPT !.pc = "working"]
  <2>1. t \in Tasks /\ t.key = task[x].key /\ t.pc = "working"
    BY DEF RegistryTypeInv, RegistryTypeOK, Tasks
  <2>2. t.key \in Keys /\ Of(x) \in Registries
    BY <1>4, <2>1, RegistryAssumption DEF Acquire, RegistryTypeInv, Keyed, InFlight, Of
  <2> HIDE DEF t
  <2>3. task' = [task EXCEPT ![x] = t]
    BY <1>4 DEF Acquire, t
  <2>4. permitQueue' \in [Registries -> Seq(Callers)]
    BY <1>4, <2>2 DEF Acquire, RegistryTypeInv, RegistryTypeOK
  <2> QED
    BY <1>4, <2>1, <2>2, <2>3, <2>4, ReplacedType DEF Acquire, RegistryTypeInv, RegistryTypeOK, Handler
<1>5. ASSUME NEW x \in Callers, End(x) PROVE RegistryTypeInv'
  <2> DEFINE next == IF task[x].pc = "inline" THEN "reply" ELSE "publish"
  <2>1. PICK ok \in BOOLEAN : task' = [task EXCEPT ![x] = [@ EXCEPT !.pc = next, !.ok = ok]]
    BY <1>5 DEF End
  <2> DEFINE t == [task[x] EXCEPT !.pc = next, !.ok = ok]
  <2>2. /\ t \in Tasks /\ t.key = task[x].key
        /\ t.pc = next
    BY DEF RegistryTypeInv, RegistryTypeOK, Tasks, Handler
  <2>3. t.key \in Keys /\ (t.pc \in Handler => Registry[t.key] \in CacheFirst)
    BY <1>5, <2>2 DEF End, RegistryTypeInv, Keyed, InFlight, Of, Handler
  <2>4. task' = [task EXCEPT ![x] = t]
    BY <2>1 DEF t
  <2> HIDE DEF t
  <2> QED
    BY <1>5, <2>2, <2>3, <2>4, ReplacedType DEF End, RegistryTypeInv, RegistryTypeOK
<1>6. ASSUME NEW x \in Callers, PublishJob(x) PROVE RegistryTypeInv'
  <2>1. Idle \in Tasks /\ Idle.pc = "idle"
    BY DEF Idle, Tasks
  <2>2. job' \in [Keys -> {"idle", "running", "succeeded", "failed"}]
    BY <1>6 DEF PublishJob, RegistryTypeInv, RegistryTypeOK
  <2> QED
    BY <1>6, <2>1, <2>2, ReplacedType DEF PublishJob, RegistryTypeInv, RegistryTypeOK
<1>7. ASSUME NEW x \in Callers, Leave(x) PROVE RegistryTypeInv'
  <2>1. Idle \in Tasks /\ Idle.pc = "idle"
    BY DEF Idle, Tasks
  <2> QED
    BY <1>7, <2>1, ReplacedType DEF Leave, RegistryTypeInv, RegistryTypeOK
<1>8. CASE Restart
  <2>1. Idle \in Tasks /\ Idle.pc = "idle"
    BY DEF Idle, Tasks
  <2>2. <<>> \in Seq(Callers)
    OBVIOUS
  <2> QED
    BY <1>8, <2>1, <2>2 DEF Restart, RegistryTypeInv, RegistryTypeOK, Keyed, InFlight
<1>9. CASE UNCHANGED registryVars
  BY <1>9 DEF registryVars, RegistryTypeInv, RegistryTypeOK, Keyed, InFlight, Of
<1> QED
  BY <1>1, <1>2, <1>3, <1>4, <1>5, <1>6, <1>7, <1>8, <1>9 DEF RegistryNext, Step

(* The registry, the queues and the tasks keep their types for any         *)
(* requests, keys, registries and permits.                                 *)
THEOREM RegistryTypeCorrect == RegistrySpec => []RegistryTypeOK
<1>1. RegistryTypeInv => RegistryTypeOK
  BY DEF RegistryTypeInv
<1> QED
  BY <1>1, InitType, TypeInductive, PTL DEF RegistrySpec

-----------------------------------------------------------------------------
(* One job per key.                                                        *)

(* A task in flight has its job entered as running, and no other task has  *)
(* its key.                                                                *)
Entered ==
  /\ \A x \in Callers : InFlight(x) => job[task[x].key] = "running"
  /\ OneJobPerKey

JobInv == Entered /\ RunningIsWorked

(* A step that leaves job and key of every task alone, and puts no task to *)
(* sleep, keeps the invariant.                                             *)
LEMMA KeptJobs ==
  ASSUME RegistryTypeInv, JobInv, UNCHANGED job,
         \A y \in Callers : /\ InFlight(y)' <=> InFlight(y)
                            /\ InFlight(y) => task'[y].key = task[y].key
  PROVE  JobInv'
<1>1. Entered'
  BY DEF JobInv, Entered, OneJobPerKey
<1>2. ASSUME NEW k \in Keys, Registry[k] \notin CacheFirst
      PROVE  job'[k] = "running" <=> \E x \in Callers : InFlight(x)' /\ task'[x].key = k
  BY <1>2 DEF JobInv, RunningIsWorked
<1> QED
  BY <1>1, <1>2 DEF JobInv, RunningIsWorked

(* A new task for a key without a running job.                             *)
LEMMA NewJob ==
  ASSUME RegistryTypeInv, JobInv, NEW x \in Callers, NEW k \in Keys, ~InFlight(x),
         job[k] # "running", job' = [job EXCEPT ![k] = "running"],
         InFlight(x)', task'[x].key = k,
         \A y \in Callers \ {x} : task'[y] = task[y]
  PROVE  JobInv'
<1>1. /\ job'[k] = "running"
      /\ \A l \in Keys \ {k} : job'[l] = job[l]
  BY DEF RegistryTypeInv, RegistryTypeOK
<1>2. \A y \in Callers \ {x} : InFlight(y)' <=> InFlight(y)
  BY DEF InFlight
<1>3. \A y \in Callers : InFlight(y) => task[y].key \in Keys /\ task[y].key # k
  BY DEF JobInv, Entered, RegistryTypeInv, Keyed
<1>4. Entered'
  BY <1>1, <1>2, <1>3 DEF JobInv, Entered, OneJobPerKey
<1>5. RunningIsWorked'
  BY <1>1, <1>2, <1>3 DEF JobInv, RunningIsWorked
<1> QED
  BY <1>4, <1>5 DEF JobInv

(* The task of a job is gone, with its result entered or, for a handler,   *)
(* without.                                                                *)
LEMMA GoneJob ==
  ASSUME RegistryTypeInv, JobInv, NEW x \in Callers, InFlight(x), ~InFlight(x)',
         \A y \in Callers \ {x} : task'[y] = task[y],
         \/ /\ job' \in [Keys -> {"idle", "running", "succeeded", "failed"}]
            /\ job'[task[x].key] # "running"
            /\ \A k \in Keys \ {task[x].key} : job'[k] = job[k]
         \/ UNCHANGED job /\ Of(x) \in CacheFirst
  PROVE  JobInv'
<1>1. \A y \in Callers \ {x} : InFlight(y)' <=> InFlight(y)
  BY DEF InFlight
<1>2. \A y \in Callers : InFlight(y) => task[y].key \in Keys
  BY DEF RegistryTypeInv, Keyed
<1>3. \A y \in Callers \ {x} : InFlight(y) => task[y].key # task[x].key
  BY DEF JobInv, Entered, OneJobPerKey
<1>4. Entered'
  BY <1>1, <1>2, <1>3 DEF JobInv, Entered, OneJobPerKey
<1>5. RunningIsWorked'
  BY <1>1, <1>2, <1>3 DEF JobInv, RunningIsWorked, Of
<1> QED
  BY <1>4, <1>5 DEF JobInv

(* Every step keeps one job per key.                                       *)
LEMMA JobInductive == RegistryTypeInv /\ JobInv /\ [RegistryNext]_registryVars => JobInv'
<1> SUFFICES ASSUME RegistryTypeInv, JobInv, [RegistryNext]_registryVars PROVE JobInv'
  OBVIOUS
<1>1. ASSUME NEW x \in Callers, Start(x) PROVE JobInv'
  <2>1. PICK k \in Keys :
          /\ job[k] # "running"
          /\ job' = [job EXCEPT ![k] = "running"]
          /\ \/ Spawned(x, k)
             \/ /\ Registry[k] \in CacheFirst
                /\ task' = [task EXCEPT ![x] = [Idle EXCEPT !.pc = "check", !.key = k]]
                /\ UNCHANGED permitQueue
    BY <1>1 DEF Start
  <2>2. ~InFlight(x)
    BY <1>1 DEF Start
  <2>3. task'[x].pc \in {"queued", "check"} /\ task'[x].key = k
        /\ \A y \in Callers \ {x} : task'[y] = task[y]
    <3>1. CASE Spawned(x, k)
      BY <3>1, SpawnedType
    <3>2. CASE task' = [task EXCEPT ![x] = [Idle EXCEPT !.pc = "check", !.key = k]]
      BY <3>2 DEF Idle, RegistryTypeInv, RegistryTypeOK
    <3> QED
      BY <2>1, <3>1, <3>2
  <2> QED
    BY <2>1, <2>2, <2>3, NewJob DEF InFlight
<1>2. ASSUME NEW x \in Callers, Background(x) PROVE JobInv'
  <2>1. task[x].key \in Keys /\ InFlight(x)
    BY <1>2 DEF Background, RegistryTypeInv, Keyed, InFlight
  <2>2. task'[x].pc = "queued" /\ task'[x].key = task[x].key
        /\ \A y \in Callers \ {x} : task'[y] = task[y]
    BY <1>2, <2>1, SpawnedType DEF Background
  <2> QED
    BY <1>2, <2>1, <2>2, KeptJobs DEF Background, InFlight
<1>3. ASSUME NEW x \in Callers, AnswerCached(x) \/ Acquire(x) \/ End(x) PROVE JobInv'
  <2>1. UNCHANGED job /\ InFlight(x)
    BY <1>3 DEF AnswerCached, Acquire, End, InFlight
  <2>2. /\ task'[x].pc \in {"inline", "working", "reply", "publish"}
        /\ task'[x].key = task[x].key
        /\ \A y \in Callers \ {x} : task'[y] = task[y]
    <3>1. CASE AnswerCached(x)
      BY <3>1 DEF AnswerCached, RegistryTypeInv, RegistryTypeOK, Tasks
    <3>2. CASE Acquire(x)
      BY <3>2 DEF Acquire, RegistryTypeInv, RegistryTypeOK, Tasks
    <3>3. CASE End(x)
      BY <3>3 DEF End, RegistryTypeInv, RegistryTypeOK, Tasks
    <3> QED
      BY <1>3, <3>1, <3>2, <3>3
  <2> QED
    BY <2>1, <2>2, KeptJobs DEF InFlight
<1>4. ASSUME NEW x \in Callers, PublishJob(x) PROVE JobInv'
  <2>1. InFlight(x) /\ task[x].key \in Keys
    BY <1>4 DEF PublishJob, InFlight, RegistryTypeInv, Keyed
  <2>2. task'[x] = Idle /\ \A y \in Callers \ {x} : task'[y] = task[y]
    BY <1>4 DEF PublishJob, RegistryTypeInv, RegistryTypeOK
  <2>3. /\ job' \in [Keys -> {"idle", "running", "succeeded", "failed"}]
        /\ job'[task[x].key] # "running"
        /\ \A k \in Keys \ {task[x].key} : job'[k] = job[k]
    BY <1>4, <2>1 DEF PublishJob, RegistryTypeInv, RegistryTypeOK
  <2> QED
    BY <2>1, <2>2, <2>3, GoneJob DEF InFlight, Idle
<1>5. ASSUME NEW x \in Callers, Leave(x) PROVE JobInv'
  <2>1. InFlight(x) /\ Of(x) \in CacheFirst
    BY <1>5 DEF Leave, InFlight, RegistryTypeInv, Keyed, Handler
  <2>2. task'[x] = Idle /\ \A y \in Callers \ {x} : task'[y] = task[y]
    BY <1>5 DEF Leave, RegistryTypeInv, RegistryTypeOK
  <2> QED
    BY <1>5, <2>1, <2>2, GoneJob DEF Leave, InFlight, Idle
<1>6. CASE Restart
  BY <1>6 DEF Restart, JobInv, Entered, OneJobPerKey, RunningIsWorked, InFlight, Idle
<1>7. CASE UNCHANGED registryVars
  BY <1>7, KeptJobs DEF registryVars, InFlight
<1> QED
  BY <1>1, <1>2, <1>3, <1>4, <1>5, <1>6, <1>7 DEF RegistryNext, Step

(* The invariant of one job per key, of every behaviour.                   *)
LEMMA JobsAlways == RegistrySpec => []JobInv
<1>1. RegistryInit => JobInv
  BY DEF RegistryInit, JobInv, Entered, OneJobPerKey, RunningIsWorked, InFlight, Idle
<1> QED
  BY <1>1, InitType, TypeInductive, JobInductive, PTL DEF RegistrySpec

(* Two tasks never have the same key, whatever ends, panics, leaves or     *)
(* restarts: "Start a job unless one is already running" of start.         *)
LEMMA OneJob == RegistrySpec => []OneJobPerKey
<1>1. JobInv => OneJobPerKey
  BY DEF JobInv, Entered
<1> QED
  BY <1>1, JobsAlways, PTL

(* In a registry that asks no cache, a job is shown as running exactly     *)
(* while a task is there that will enter its result.                       *)
LEMMA Worked == RegistrySpec => []RunningIsWorked
<1>1. JobInv => RunningIsWorked
  BY DEF JobInv
<1> QED
  BY <1>1, JobsAlways, PTL

-----------------------------------------------------------------------------
(* The permits.                                                            *)

(* The jobs at work are finitely many, also if there are infinitely many   *)
(* requests.                                                               *)
PermitInv ==
  \A g \in Registries : IsFiniteSet(Working(g)) /\ Cardinality(Working(g)) <= Permits[g]

(* A step after which no other task works keeps the permits.               *)
LEMMA FewerWork ==
  ASSUME PermitInv, RegistryTypeInv, RegistryTypeInv', \A g \in Registries : Working(g)' \subseteq Working(g)
  PROVE  PermitInv'
<1> SUFFICES ASSUME NEW g \in Registries
             PROVE  IsFiniteSet(Working(g)') /\ Cardinality(Working(g)') <= Permits[g]
  BY DEF PermitInv
<1>1. IsFiniteSet(Working(g)) /\ Cardinality(Working(g)) <= Permits[g]
  BY DEF PermitInv
<1>2. Working(g)' \in SUBSET Working(g)
  OBVIOUS
<1>3. IsFiniteSet(Working(g)') /\ Cardinality(Working(g)') <= Cardinality(Working(g))
  BY <1>1, <1>2, FS_Subset
<1>4. Cardinality(Working(g)) \in Nat /\ Cardinality(Working(g)') \in Nat
  BY <1>1, <1>3, FS_CardinalityType
<1>5. Permits[g] \in Nat
  BY RegistryAssumption
<1> QED
  BY <1>1, <1>3, <1>4, <1>5

(* Every step keeps the permits.                                           *)
LEMMA PermitInductive == RegistryTypeInv /\ PermitInv /\ [RegistryNext]_registryVars => PermitInv'
<1> SUFFICES ASSUME RegistryTypeInv, PermitInv, [RegistryNext]_registryVars PROVE PermitInv'
  OBVIOUS
<1>0. RegistryTypeInv'
  BY TypeInductive
<1>1. ASSUME NEW x \in Callers, Acquire(x) PROVE PermitInv'
  <2>1. PICK g \in Registries : g = Of(x)
    BY <1>1, RegistryAssumption DEF Acquire, RegistryTypeInv, Keyed, InFlight, Of
  <2>2. /\ task'[x].key = task[x].key
        /\ \A y \in Callers \ {x} : task'[y] = task[y]
    BY <1>1 DEF Acquire, RegistryTypeInv, RegistryTypeOK, Tasks
  <2>3. Working(g)' \subseteq Working(g) \cup {x}
    BY <2>1, <2>2 DEF Working, Of
  <2>4. \A h \in Registries \ {g} : Working(h)' \subseteq Working(h)
    BY <2>1, <2>2 DEF Working, Of
  <2>5. IsFiniteSet(Working(g)) /\ Cardinality(Working(g)) < Permits[g]
    BY <1>1, <2>1 DEF Acquire, PermitInv
  <2>6. IsFiniteSet(Working(g)') /\ Cardinality(Working(g)') <= Permits[g]
    <3> DEFINE more == Working(g) \cup {x}
    <3>1. IsFiniteSet(more) /\ Cardinality(more) <= Cardinality(Working(g)) + 1
      <4>1. Cardinality(Working(g)) \in Nat
        BY <2>5, FS_CardinalityType
      <4>2. IsFiniteSet(Working(g))
        BY <2>5
      <4>3. /\ IsFiniteSet(more)
            /\ Cardinality(more) =
                 IF x \in Working(g) THEN Cardinality(Working(g)) ELSE Cardinality(Working(g)) + 1
        BY <4>2, FS_AddElement
      <4> QED
        BY <4>1, <4>3
    <3>2. Working(g)' \in SUBSET more
      BY <2>3
    <3>3. IsFiniteSet(Working(g)') /\ Cardinality(Working(g)') <= Cardinality(more)
      BY <3>1, <3>2, FS_Subset
    <3>4. /\ Cardinality(Working(g)) \in Nat /\ Cardinality(more) \in Nat
          /\ Cardinality(Working(g)') \in Nat /\ Permits[g] \in Nat
      BY <2>1, <2>5, <3>1, <3>3, FS_CardinalityType, RegistryAssumption
    <3> QED
      BY <2>5, <3>1, <3>3, <3>4
  <2>7. ASSUME NEW h \in Registries \ {g}
        PROVE  IsFiniteSet(Working(h)') /\ Cardinality(Working(h)') <= Permits[h]
    <3>1. IsFiniteSet(Working(h)) /\ Cardinality(Working(h)) <= Permits[h]
      BY DEF PermitInv
    <3>2. Working(h)' \in SUBSET Working(h)
      BY <2>4
    <3>3. IsFiniteSet(Working(h)') /\ Cardinality(Working(h)') <= Cardinality(Working(h))
      BY <3>1, <3>2, FS_Subset
    <3>4. /\ Cardinality(Working(h)) \in Nat /\ Cardinality(Working(h)') \in Nat
          /\ Permits[h] \in Nat
      BY <3>1, <3>3, FS_CardinalityType, RegistryAssumption
    <3> QED
      BY <3>1, <3>3, <3>4
  <2>8. ASSUME NEW h \in Registries
        PROVE  IsFiniteSet(Working(h)') /\ Cardinality(Working(h)') <= Permits[h]
    BY <2>6, <2>7
  <2> QED
    BY <2>8 DEF PermitInv
<1>2. ASSUME NEW x \in Callers, ~Acquire(x), Start(x) \/ Step(x) \/ Leave(x)
      PROVE  PermitInv'
  <2>1. task'[x].pc # "working" /\ \A y \in Callers \ {x} : task'[y] = task[y]
    <3>1. CASE Start(x)
      <4>1. PICK k \in Keys :
              \/ Spawned(x, k)
              \/ task' = [task EXCEPT ![x] = [Idle EXCEPT !.pc = "check", !.key = k]]
        BY <3>1 DEF Start
      <4>2. CASE Spawned(x, k)
        BY <4>2, SpawnedType
      <4>3. CASE task' = [task EXCEPT ![x] = [Idle EXCEPT !.pc = "check", !.key = k]]
        BY <4>3 DEF Idle, RegistryTypeInv, RegistryTypeOK
      <4> QED
        BY <4>1, <4>2, <4>3
    <3>2. CASE Background(x)
      BY <3>2, SpawnedType DEF Background, RegistryTypeInv, Keyed, InFlight
    <3>3. CASE AnswerCached(x)
      BY <3>3 DEF AnswerCached, RegistryTypeInv, RegistryTypeOK, Tasks
    <3>4. CASE End(x)
      BY <3>4 DEF End, RegistryTypeInv, RegistryTypeOK, Tasks
    <3>5. CASE PublishJob(x) \/ Leave(x)
      BY <3>5 DEF PublishJob, Leave, Idle, RegistryTypeInv, RegistryTypeOK
    <3> QED
      BY <1>2, <3>1, <3>2, <3>3, <3>4, <3>5 DEF Step
  <2>2. \A g \in Registries : Working(g)' \subseteq Working(g)
    BY <2>1 DEF Working, Of
  <2> QED
    BY <1>0, <2>2, FewerWork
<1>3. CASE Restart
  <2>1. \A g \in Registries : Working(g)' \subseteq Working(g)
    BY <1>3 DEF Restart, Working, Idle
  <2> QED
    BY <1>0, <2>1, FewerWork
<1>4. CASE UNCHANGED registryVars
  <2>1. \A g \in Registries : Working(g)' \subseteq Working(g)
    BY <1>4 DEF registryVars, Working, Of
  <2> QED
    BY <1>0, <2>1, FewerWork
<1> QED
  BY <1>1, <1>2, <1>3, <1>4 DEF RegistryNext

(* No more jobs of a registry work at a time than it has permits, for any  *)
(* number of requests.                                                     *)
LEMMA Bounded == RegistrySpec => []PermitsKept
<1>1. RegistryInit => PermitInv
  <2> SUFFICES ASSUME RegistryInit, NEW g \in Registries
               PROVE  IsFiniteSet(Working(g)) /\ Cardinality(Working(g)) <= Permits[g]
    BY DEF PermitInv
  <2>1. Working(g) = {}
    BY DEF RegistryInit, Working, Idle
  <2>2. Permits[g] \in Nat
    BY RegistryAssumption
  <2> QED
    BY <2>1, <2>2, FS_EmptySet
<1>2. PermitInv => PermitsKept
  BY DEF PermitInv, PermitsKept
<1> QED
  BY <1>1, <1>2, InitType, TypeInductive, PermitInductive, PTL DEF RegistrySpec

(* The registries say what is at work, and keep to their permits.          *)
THEOREM Exact == RegistrySpec => []RegistryExact
BY OneJob, Worked, Bounded, PTL DEF RegistryExact
=============================================================================
