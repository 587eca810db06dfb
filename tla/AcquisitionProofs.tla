------------------------ MODULE AcquisitionProofs --------------------------
(***************************************************************************)
(* Proofs about Acquisition for any number of runs, links and trials.      *)
(***************************************************************************)
EXTENDS Acquisition, TLAPS

-----------------------------------------------------------------------------
(* The log of trials.                                                      *)

(* How many of the oldest entries push_trial drops.                        *)
Dropped(trials) ==
  IF Len(trials) + 1 > MaxTrials THEN Len(trials) + 1 - MaxTrials ELSE 0

(* push_trial keeps a suffix of the log, ended by the new trial, that is   *)
(* never longer than MAX_TRIALS.                                           *)
LEMMA PushSuffix ==
  ASSUME NEW trials \in Seq(Trials), Len(trials) <= MaxTrials, NEW t \in Trials
  PROVE  /\ Push(trials, t) \in Seq(Trials)
         /\ Len(Push(trials, t)) = Len(trials) + 1 - Dropped(trials)
         /\ Len(Push(trials, t)) \in 1..MaxTrials
         /\ Push(trials, t)[Len(Push(trials, t))] = t
         /\ \A i \in 1..(Len(Push(trials, t)) - 1) :
              Push(trials, t)[i] = trials[i + Dropped(trials)]
<1> DEFINE n == Len(trials)
           k == Dropped(trials)
           all == Append(trials, t)
<1>1. n \in Nat /\ MaxTrials \in Nat \ {0} /\ n <= MaxTrials
  BY BoundsAssumption
<1>2. k \in 0..n /\ n + 1 - k \in 1..MaxTrials
  BY <1>1 DEF Dropped
<1>3. /\ all \in Seq(Trials) /\ Len(all) = n + 1 /\ all[n + 1] = t
      /\ \A i \in 1..n : all[i] = trials[i]
  BY <1>1
<1>4. Push(trials, t) = SubSeq(all, 1 + k, n + 1)
  <2>1. (IF Len(all) > MaxTrials THEN Len(all) - MaxTrials ELSE 0) = k
    BY <1>1, <1>3 DEF Dropped
  <2>2. Push(trials, t) =
          SubSeq(all, 1 + (IF Len(all) > MaxTrials THEN Len(all) - MaxTrials ELSE 0), Len(all))
    BY DEF Push
  <2> HIDE DEF all, k
  <2> QED
    BY <1>3, <2>1, <2>2
<1> HIDE DEF n, k, all
<1>5. /\ SubSeq(all, 1 + k, n + 1) \in Seq(Trials)
      /\ Len(SubSeq(all, 1 + k, n + 1)) = n + 1 - k
      /\ \A i \in 1..(n + 1 - k) : SubSeq(all, 1 + k, n + 1)[i] = all[i + k]
  BY <1>1, <1>2, <1>3
<1>6. \A i \in 1..(n - k) : i + k \in 1..n /\ all[i + k] = trials[i + k]
  BY <1>1, <1>2, <1>3
<1>7. SubSeq(all, 1 + k, n + 1)[n + 1 - k] = t
  BY <1>1, <1>2, <1>3, <1>5
<1>8. (n + 1 - k) - 1 = n - k
  BY <1>1, <1>2
<1>9. \A i \in 1..(n - k) : SubSeq(all, 1 + k, n + 1)[i] = trials[i + k]
  <2>1. \A i \in 1..(n - k) : i \in 1..(n + 1 - k)
    BY <1>1, <1>2
  <2> QED
    BY <1>5, <1>6, <2>1
<1> QED
  BY <1>2, <1>4, <1>5, <1>7, <1>8, <1>9 DEF n, k

(* After a trial of url, the log takes url for dead exactly if that trial  *)
(* failed permanently, and no other link that it did not take for dead.    *)
LEMMA PushFailed ==
  ASSUME NEW w \in Rows, Len(w.trials) <= MaxTrials, NEW v \in Rows,
         NEW url \in Links \cup {Page}, NEW failed \in BOOLEAN,
         v.trials = Push(w.trials, [url |-> url, permanent |-> failed]),
         NEW c \in Links, FailedPermanently(v, c)
  PROVE  IF c = url THEN failed ELSE FailedPermanently(w, c)
<1> DEFINE t == [url |-> url, permanent |-> failed]
           n == Len(w.trials)
           m == Len(v.trials)
           k == Dropped(w.trials)
<1>1. t \in Trials /\ w.trials \in Seq(Trials)
  BY DEF Trials, Rows
<1>2. /\ m = n + 1 - k /\ m \in 1..MaxTrials /\ v.trials[m] = t
      /\ \A i \in 1..(m - 1) : v.trials[i] = w.trials[i + k]
  <2>1. /\ Len(Push(w.trials, t)) = Len(w.trials) + 1 - Dropped(w.trials)
        /\ Len(Push(w.trials, t)) \in 1..MaxTrials
        /\ Push(w.trials, t)[Len(Push(w.trials, t))] = t
        /\ \A i \in 1..(Len(Push(w.trials, t)) - 1) :
             Push(w.trials, t)[i] = w.trials[i + Dropped(w.trials)]
    BY <1>1, PushSuffix, Zenon
  <2>2. v.trials = Push(w.trials, t)
    OBVIOUS
  <2> HIDE DEF t
  <2> QED
    BY <2>1, <2>2
<1>3. n \in Nat /\ k \in 0..n
  BY SMTT(60), <1>1, <1>2, BoundsAssumption DEF Dropped
<1>4. PICK i \in 1..m : /\ v.trials[i] = [url |-> c, permanent |-> TRUE]
                        /\ \A j \in (i + 1)..m : v.trials[j].url # c
  BY DEF FailedPermanently
<1> HIDE DEF n, m, k
<1>5. CASE i = m
  BY <1>2, <1>4, <1>5
<1>6. CASE i # m
  <2>1. i \in 1..(m - 1) /\ m \in (i + 1)..m
    BY <1>2, <1>3, <1>4, <1>6
  <2>2. c # url
    BY <1>2, <1>4, <2>1
  <2>3. i + k \in 1..n /\ w.trials[i + k] = [url |-> c, permanent |-> TRUE]
    BY <1>2, <1>3, <1>4, <2>1
  <2>4. \A j \in (i + k + 1)..n : w.trials[j].url # c
    <3> SUFFICES ASSUME NEW j \in (i + k + 1)..n PROVE w.trials[j].url # c
      OBVIOUS
    <3>1. j - k \in 1..(m - 1) /\ j - k \in (i + 1)..m /\ (j - k) + k = j
      BY <1>2, <1>3, <2>1
    <3> QED
      BY <1>2, <1>4, <3>1
  <2> QED
    BY <2>2, <2>3, <2>4 DEF FailedPermanently, n
<1> QED
  BY <1>5, <1>6

-----------------------------------------------------------------------------
(* Type correctness.                                                       *)

(* The statements of AcquisitionRepository make a row of a row, and leave  *)
(* its log alone.                                                          *)
LEMMA RowOperators ==
  ASSUME NEW w \in Rows
  PROVE  /\ \A s \in States : SetState(w, s) \in Rows /\ SetState(w, s).trials = w.trials
         /\ \A x \in Reasons : Unavailable(w, x) \in Rows /\ Unavailable(w, x).trials = w.trials
         /\ Failure(w) \in Rows /\ Failure(w).trials = w.trials
         /\ Reset(w) \in Rows /\ Reset(w).trials = w.trials
<1>1. ASSUME NEW s \in States PROVE SetState(w, s) \in Rows /\ SetState(w, s).trials = w.trials
  BY DEF Rows, SetState
<1>2. ASSUME NEW x \in Reasons
      PROVE  Unavailable(w, x) \in Rows /\ Unavailable(w, x).trials = w.trials
  BY DEF Rows, States, Unavailable
<1>3. Failure(w) \in Rows /\ Failure(w).trials = w.trials
  BY DEF Rows, Failure
<1>4. Reset(w) \in Rows /\ Reset(w).trials = w.trials
  <2>1. SetState(w, "unresolved") \in Rows /\ SetState(w, "unresolved").trials = w.trials
    BY <1>1 DEF States
  <2> QED
    BY <2>1 DEF Rows, Reset
<1> QED
  BY <1>1, <1>2, <1>3, <1>4

(* The stages a run may turn to.                                           *)
LEMMA StageTypes ==
  ASSUME NEW w \in Rows, NEW stages
  PROVE  /\ StageOf(w, stages) \in {"identify", "links", "try", "map", "release"}
         /\ StageOf(w, stages) # "release" => StageOf(w, stages) \in stages
         /\ StageOf(w, stages) = "identify" => w.state = "unresolved"
         /\ StageOf(w, stages) = "links" => w.state = "identifier_found"
         /\ StageOf(w, stages) = "try" => w.state = "link_found"
         /\ StageOf(w, stages) = "map" => w.state = "downloaded"
BY DEF Rows, States, StageOf

(* Writing a row and turning to the next stage keeps the types.            *)
LEMMA ProceedType ==
  ASSUME TypeOK, NEW r \in Runners, NEW from, NEW stages,
         NEW w \in Rows, Len(w.trials) <= MaxTrials, Proceed(r, from, w, stages),
         UNCHANGED <<lease, blob, dead, library, retry, got>>,
         net' \in [Runners -> {"none", "used", "counted"}]
  PROVE  TypeOK'
<1>1. StageOf(w, stages) \in {"identify", "links", "try", "map", "release"}
  BY StageTypes
<1>2. Planned(w, retry[r]) \in SUBSET Links
  BY DEF Planned, Eligible, Rows
<1>3. (IF StageOf(w, stages) = "try" THEN Planned(w, retry[r]) ELSE {}) \in SUBSET Links
  BY <1>2
<1> QED
  BY <1>1, <1>3 DEF TypeOK, Proceed, Turn, Goto, library

(* Ending the run with a row keeps the types.                              *)
LEMMA EndType ==
  ASSUME TypeOK, NEW r \in Runners, NEW from,
         NEW w \in Rows, Len(w.trials) <= MaxTrials, End(r, from, w),
         UNCHANGED <<lease, blob, dead, library, retry, got>>,
         net' \in [Runners -> {"none", "used", "counted"}]
  PROVE  TypeOK'
BY DEF TypeOK, End, Goto, library

(* Logging a trial keeps the log short and the row a row.                  *)
LEMMA LogType ==
  ASSUME TypeOK, NEW url \in Links \cup {Page}, NEW o, Log(url, o)
  PROVE  /\ row' \in Rows /\ Len(row'.trials) <= MaxTrials
         /\ dead' \in SUBSET Links
         /\ row' = [row EXCEPT !.trials = Push(row.trials, [url |-> url, permanent |-> (o = "permanent")])]
<1> DEFINE t == [url |-> url, permanent |-> (o = "permanent")]
<1>1. t \in Trials /\ row.trials \in Seq(Trials) /\ Len(row.trials) <= MaxTrials
  BY DEF TypeOK, Trials, Rows
<1>2. Push(row.trials, t) \in Seq(Trials) /\ Len(Push(row.trials, t)) \in 1..MaxTrials
  BY <1>1, PushSuffix
<1>3. row' = [row EXCEPT !.trials = Push(row.trials, t)] /\ dead' \in SUBSET Links
  BY DEF Log, TypeOK
<1>4. Len(Push(row.trials, t)) <= MaxTrials
  BY <1>2, BoundsAssumption
<1> HIDE DEF t
<1>5. row' \in Rows /\ row'.trials = Push(row.trials, t)
  BY <1>2, <1>3 DEF TypeOK, Rows
<1> QED
  BY <1>3, <1>4, <1>5 DEF t

(* Every step of a run keeps the types.                                    *)
LEMMA StepType ==
  ASSUME TypeOK, NEW r \in Runners, Step(r)
  PROVE  TypeOK'
<1> DEFINE Nets == [Runners -> {"none", "used", "counted"}]
<1>1. CASE Load(r)
  BY <1>1 DEF TypeOK, Load, Goto, stored, library
<1>2. CASE AlreadyMapped(r) \/ SkipUnavailable(r)
  <2>1. PICK from \in {"presence", "verdict"} : End(r, from, row)
    BY <1>2 DEF AlreadyMapped, SkipUnavailable
  <2>2. UNCHANGED <<lease, blob, dead, library, retry, got, net>>
    BY <1>2 DEF AlreadyMapped, SkipUnavailable
  <2> QED
    BY <2>1, <2>2, EndType DEF TypeOK
<1>3. CASE MapAgain(r)
  <2>1. SetState(row, "downloaded") \in Rows /\ SetState(row, "downloaded").trials = row.trials
    BY RowOperators DEF TypeOK, States
  <2> QED
    BY <1>3, <2>1 DEF TypeOK, MapAgain, Goto, library
<1>4. CASE LookAgain(r)
  <2>1. Reset(row) \in Rows /\ Reset(row).trials = row.trials
    BY RowOperators DEF TypeOK
  <2> QED
    BY <1>4, <2>1 DEF TypeOK, LookAgain, Goto, library
<1>5. CASE AlreadyLocal(r)
  <2>1. PICK d \in Docs : End(r, "local", [SetState(row, "mapped") EXCEPT !.document = d])
    BY <1>5 DEF AlreadyLocal, Local, TypeOK
  <2>2. SetState(row, "mapped") \in Rows /\ SetState(row, "mapped").trials = row.trials
    BY RowOperators DEF TypeOK, States
  <2>3. /\ [SetState(row, "mapped") EXCEPT !.document = d] \in Rows
        /\ [SetState(row, "mapped") EXCEPT !.document = d].trials = row.trials
    BY <2>2 DEF Rows
  <2>4. UNCHANGED <<lease, blob, dead, library, retry, got, net>>
    BY <1>5 DEF AlreadyLocal
  <2> QED
    BY <2>1, <2>3, <2>4, EndType DEF TypeOK
<1>6. CASE NotLocal(r)
  <2>1. StageOf(seen[r], {"identify", "links", "try", "map"})
          \in {"identify", "links", "try", "map", "release"}
    BY StageTypes DEF TypeOK
  <2>2. Planned(seen[r], retry[r]) \in SUBSET Links
    BY DEF Planned, Eligible, Rows, TypeOK
  <2> QED
    BY <1>6, <2>1, <2>2 DEF TypeOK, NotLocal, Turn, Goto, stored, library
<1>7. CASE StageIdentifiers(r)
  <2>0. UNCHANGED <<lease, blob, dead, library, retry, got, net>>
    BY <1>7 DEF StageIdentifiers
  <2>1. CASE End(r, "identify", Unavailable(row, "no_identifier"))
    BY <2>0, <2>1, RowOperators, EndType DEF TypeOK, Reasons
  <2>2. CASE Proceed(r, "identify", SetState(row, "identifier_found"), {"links", "try", "map"})
    BY <2>0, <2>2, RowOperators, ProceedType DEF TypeOK, States
  <2> QED
    BY <1>7, <2>1, <2>2 DEF StageIdentifiers
<1>8. CASE StageLinks(r)
  <2>0. UNCHANGED <<lease, blob, dead, library, retry, got>> /\ net' \in Nets
    BY <1>8 DEF StageLinks, TypeOK
  <2>1. ASSUME NEW found \in (SUBSET Links) \ {{}},
               Proceed(r, "links", [SetState(row, "link_found") EXCEPT !.candidates = found],
                       {"try", "map"})
        PROVE  TypeOK'
    <3>1. SetState(row, "link_found") \in Rows /\ SetState(row, "link_found").trials = row.trials
      BY RowOperators DEF TypeOK, States
    <3>2. /\ [SetState(row, "link_found") EXCEPT !.candidates = found] \in Rows
          /\ [SetState(row, "link_found") EXCEPT !.candidates = found].trials = row.trials
      BY <3>1 DEF Rows
    <3> QED
      BY <2>0, <2>1, <3>2, ProceedType DEF TypeOK
  <2>2. CASE End(r, "links", Failure(row))
    BY <2>0, <2>2, RowOperators, EndType DEF TypeOK
  <2>3. CASE End(r, "links", Unavailable(row, "no_oa_location"))
    BY <2>0, <2>3, RowOperators, EndType DEF TypeOK, Reasons
  <2> QED
    BY <1>8, <2>1, <2>2, <2>3 DEF StageLinks
<1>9. CASE TryCandidate(r) \/ LogLanding(r)
  <2>1. PICK c \in Links, o \in Outcomes \cup Works, from \in {"try", "landing"} :
          Settle(r, from, c, o)
    BY <1>9 DEF TryCandidate, LogLanding, TypeOK
  <2>2. row' \in Rows /\ Len(row'.trials) <= MaxTrials /\ dead' \in SUBSET Links
    BY <2>1, LogType DEF Settle
  <2>3. UNCHANGED <<lease, blob, library, seen, retry>> /\ net' \in Nets
    BY <1>9 DEF TryCandidate, LogLanding, TypeOK
  <2>4. got' \in [Runners -> Outcomes \cup Works]
    BY <1>9 DEF TryCandidate, LogLanding, TypeOK, Works
  <2>5. /\ pc' = [pc EXCEPT ![r] = IF o = "pdf" THEN "store" ELSE "try"]
        /\ todo' \in [Runners -> SUBSET Links]
        /\ flaky' \in [Runners -> BOOLEAN]
    BY <2>1 DEF Settle, Goto, TypeOK
  <2> QED
    BY <2>2, <2>3, <2>4, <2>5 DEF TypeOK, library
<1>10. CASE FollowLanding(r)
  <2>1. PICK o \in Outcomes, url \in Links \cup {Page} :
          Log(url, o) /\ got' = [got EXCEPT ![r] = o]
    BY <1>10 DEF FollowLanding
  <2>2. row' \in Rows /\ Len(row'.trials) <= MaxTrials /\ dead' \in SUBSET Links
    BY <2>1, LogType
  <2> QED
    BY <1>10, <2>1, <2>2 DEF TypeOK, FollowLanding, Goto, library
<1>11. CASE StayPending(r) \/ AllLinksFailed(r)
  <2>0. UNCHANGED <<lease, blob, dead, library, retry, got>> /\ net' \in Nets
    BY <1>11 DEF StayPending, AllLinksFailed, TypeOK
  <2>1. PICK w \in {Failure(row), Unavailable(row, "all_links_failed")} : End(r, "try", w)
    BY <1>11 DEF StayPending, AllLinksFailed
  <2>2. w \in Rows /\ w.trials = row.trials
    BY RowOperators DEF TypeOK, Reasons
  <2> QED
    BY <2>0, <2>1, <2>2, EndType DEF TypeOK
<1>12. CASE StoreBlob(r) \/ BlobFound(r) \/ LinkDocument(r)
  <2>1. CASE StoreBlob(r)
    BY <2>1 DEF TypeOK, StoreBlob, Goto, library
  <2>2. CASE BlobFound(r)
    BY <2>2 DEF TypeOK, BlobFound, Goto, stored, library
  <2>3. CASE LinkDocument(r)
    BY <2>3, DocsAssumption DEF TypeOK, LinkDocument, Goto, stored, Works
  <2> QED
    BY <1>12, <2>1, <2>2, <2>3
<1>13. CASE RecordDownload(r)
  <2>1. SetState(row, "downloaded") \in Rows /\ SetState(row, "downloaded").trials = row.trials
    BY RowOperators DEF TypeOK, States
  <2>2. /\ [SetState(row, "downloaded") EXCEPT !.sha256 = TRUE] \in Rows
        /\ [SetState(row, "downloaded") EXCEPT !.sha256 = TRUE].trials = row.trials
    BY <2>1 DEF Rows
  <2> QED
    BY <1>13, <2>2, ProceedType DEF RecordDownload, TypeOK
<1>14. CASE BlobMissing(r)
  <2>1. PICK w \in {Reset(row), SetState(row, "link_found")} : End(r, "map", w)
    BY <1>14 DEF BlobMissing
  <2>2. w \in Rows /\ w.trials = row.trials
    BY RowOperators DEF TypeOK, States
  <2> QED
    BY <1>14, <2>1, <2>2, EndType DEF BlobMissing, TypeOK
<1>15. CASE PlaceCopy(r)
  BY <1>15, DocsAssumption DEF TypeOK, PlaceCopy, Goto, stored
<1>16. CASE MarkMapped(r)
  <2>1. SetState(row, "mapped") \in Rows /\ SetState(row, "mapped").trials = row.trials
    BY RowOperators DEF TypeOK, States
  <2>2. /\ [SetState(row, "mapped") EXCEPT !.document = "fetched"] \in Rows
        /\ [SetState(row, "mapped") EXCEPT !.document = "fetched"].trials = row.trials
    BY <2>1, DocsAssumption DEF Rows
  <2> QED
    BY <1>16, <2>2, EndType DEF MarkMapped, TypeOK
<1>17. CASE Summarize(r)
  <2>1. Bumped(r) \in Rows /\ Bumped(r).trials = row.trials
    <3>1. Bumped(r) \in {Failure(row), row}
      BY DEF Bumped, Failure
    <3>2. Failure(row) \in Rows /\ Failure(row).trials = row.trials
      BY RowOperators DEF TypeOK
    <3> QED
      BY <3>1, <3>2 DEF TypeOK
  <2> QED
    BY <1>17, <2>1 DEF TypeOK, Summarize, Goto, library
<1>18. CASE Fail(r)
  BY <1>18 DEF TypeOK, Fail, stored, library
<1>19. CASE Release(r)
  <2>1. NewRow \in Rows
    BY DEF NewRow, Rows, States
  <2> QED
    BY <1>19, <2>1 DEF TypeOK, Release, Leave, library, Works
<1> QED
  BY <1>1, <1>2, <1>3, <1>4, <1>5, <1>6, <1>7, <1>8, <1>9, <1>10, <1>11, <1>12, <1>13,
     <1>14, <1>15, <1>16, <1>17, <1>18, <1>19 DEF Step

(* The initial states have the types, and every step of the runs, the      *)
(* clock, the library and the disk keeps them.                             *)
LEMMA TypeInductive ==
  /\ Init => TypeOK
  /\ TypeOK /\ [Next]_vars => TypeOK'
<1>0. NewRow \in Rows /\ Len(NewRow.trials) <= MaxTrials
  BY BoundsAssumption DEF NewRow, Rows, States
<1>1. ASSUME Init PROVE TypeOK
  BY <1>0, <1>1 DEF Init, TypeOK, Works
<1>2. ASSUME TypeOK, [Next]_vars PROVE TypeOK'
  <2>1. ASSUME NEW r \in Runners, Claim(r) PROVE TypeOK'
    BY <1>2, <2>1 DEF TypeOK, Claim, Goto, library
  <2>2. ASSUME NEW r \in Runners, Crash(r) PROVE TypeOK'
    BY <1>0, <1>2, <2>2 DEF TypeOK, Crash, Leave, library, Works
  <2>3. CASE Expire \/ LoseBlob
    BY <1>2, <2>3 DEF TypeOK, Expire, LoseBlob, library, run
  <2>4. CASE Age
    <3>1. [row EXCEPT !.recent = FALSE] \in Rows /\ [row EXCEPT !.recent = FALSE].trials = row.trials
      BY <1>2 DEF TypeOK, Rows
    <3> QED
      BY <1>2, <2>4, <3>1 DEF TypeOK, Age, library, run
  <2>5. ASSUME NEW d \in Docs, Scan(d) \/ Match(d) PROVE TypeOK'
    BY <1>2, <2>5 DEF TypeOK, Scan, Match, stored, run
  <2>6. CASE UNCHANGED vars
    BY <1>2, <2>6 DEF TypeOK, vars, stored, library, run
  <2> QED
    BY <1>2, <2>1, <2>2, <2>3, <2>4, <2>5, <2>6, StepType DEF Next
<1> QED
  BY <1>1, <1>2

(* The row, its log of at most MAX_TRIALS trials, the lease and every run  *)
(* keep the types of AcquisitionRow and Run, whatever interleaves, fails   *)
(* or dies.                                                                *)
THEOREM TypeCorrect == Spec => []TypeOK
<1>1. Init => TypeOK
  BY TypeInductive
<1>2. TypeOK /\ [Next]_vars => TypeOK'
  BY TypeInductive
<1> QED
  BY <1>1, <1>2, PTL DEF Spec

-----------------------------------------------------------------------------
(* The verdicts, the downloads and the count of attempts.  While live runs *)
(* end within their lease the row has one writer at a time, which acts on  *)
(* the row it loaded last; what it may conclude from its own progress      *)
(* follows from how every candidate of the list is accounted for.          *)

(* At most one run is live, and the lease is.                              *)
LeaseHeld ==
  \A r \in Runners : Active(r) => lease = "live" /\ \A q \in Runners : Active(q) => q = r

(* A row w is sound when only verdicts have a reason, links to try and     *)
(* downloads come with their list, and what the log takes for dead is.     *)
RowSound(w, d) ==
  /\ (w.state = "unavailable") = (w.reason # None)
  /\ w.state = "link_found" => w.candidates # {}
  /\ w.sha256 => w.candidates # {}
  /\ w.reason = "all_links_failed" => w.candidates # {} /\ w.candidates \subseteq d
  /\ \A c \in Links : FailedPermanently(w, c) => c \in d

(* Each candidate is still to be tried, beyond the limit, dead, or has     *)
(* made a run pend.                                                        *)
Accounted(r) ==
  \A c \in row.candidates :
    \/ c \in todo[r]
    \/ c \in Eligible(seen[r], retry[r]) \ Planned(seen[r], retry[r])
    \/ c \in dead
    \/ flaky[r]
    \/ pc[r] = "landing" /\ got[r] # "permanent"

Downloading == {"try", "landing", "store", "record"}
Mapping     == {"map", "place", "link", "mark"}
Working     == {"presence", "verdict", "local", "identify", "links"}
                 \cup Downloading \cup Mapping

(* The run works on the row as it is, in the state its stage is for.       *)
Current(r) ==
  /\ seen[r].state = row.state
  /\ seen[r].candidates = row.candidates
  /\ seen[r].sha256 = row.sha256
  /\ seen[r].attempts = row.attempts
  /\ pc[r] \notin Downloading => seen[r] = row
  /\ net[r] \in {"none", "used"}
  /\ pc[r] = "presence" => row.state = "mapped"
  /\ pc[r] = "verdict" => row.state = "unavailable"
  /\ pc[r] = "local" => row.state \notin {"mapped", "unavailable"}
  /\ pc[r] = "identify" => row.state = "unresolved"
  /\ pc[r] = "links" => row.state = "identifier_found"
  /\ pc[r] \in Downloading => row.state = "link_found"
  /\ pc[r] \in Mapping => row.state = "downloaded"

RunSound(r) ==
  /\ pc[r] \in {"idle", "load"} => net[r] = "none"
  /\ pc[r] \in Working => Current(r)
  /\ pc[r] \in {"try", "landing"} => Accounted(r)
  /\ pc[r] = "landing" => got[r] \in Outcomes
  /\ pc[r] = "summarize" =>
       Bumped(r).attempts = seen[r].attempts + (IF net[r] = "none" THEN 0 ELSE 1)

Inv ==
  /\ TypeOK
  /\ LeaseHeld
  /\ RowSound(row, dead)
  /\ \A r \in Runners : RunSound(r)

(* What the statements of AcquisitionRepository keep of a sound row.       *)
LEMMA RowOperatorsSound ==
  ASSUME NEW w \in Rows, NEW d, RowSound(w, d)
  PROVE  /\ \A s \in States :
              /\ SetState(w, s).state = s /\ SetState(w, s).candidates = w.candidates
              /\ SetState(w, s).sha256 = w.sha256 /\ SetState(w, s).attempts = w.attempts
              /\ s # "unavailable" /\ (s = "link_found" => w.candidates # {})
                   => RowSound(SetState(w, s), d)
         /\ \A x \in Reasons :
              /\ Unavailable(w, x).attempts = w.attempts
              /\ (x = "all_links_failed" => w.candidates # {} /\ w.candidates \subseteq d)
                   => RowSound(Unavailable(w, x), d)
         /\ Failure(w).attempts = w.attempts + 1 /\ RowSound(Failure(w), d)
         /\ Reset(w).state = "unresolved" /\ Reset(w).attempts = w.attempts
         /\ RowSound(Reset(w), d)
<1>0. \A v \in Rows, c \in Links :
        v.trials = w.trials /\ FailedPermanently(v, c) => FailedPermanently(w, c)
  BY DEF FailedPermanently
<1>1. ASSUME NEW s \in States
      PROVE  /\ SetState(w, s).state = s /\ SetState(w, s).candidates = w.candidates
             /\ SetState(w, s).sha256 = w.sha256 /\ SetState(w, s).attempts = w.attempts
             /\ s # "unavailable" /\ (s = "link_found" => w.candidates # {})
                  => RowSound(SetState(w, s), d)
  <2>1. /\ SetState(w, s).state = s /\ SetState(w, s).candidates = w.candidates
        /\ SetState(w, s).sha256 = w.sha256 /\ SetState(w, s).attempts = w.attempts
        /\ SetState(w, s).reason = None
    BY DEF SetState, Rows
  <2>2. SetState(w, s) \in Rows /\ SetState(w, s).trials = w.trials
    BY RowOperators
  <2> QED
    BY <1>0, <2>1, <2>2, NoneAssumption DEF RowSound, Reasons
<1>2. ASSUME NEW x \in Reasons
      PROVE  /\ Unavailable(w, x).attempts = w.attempts
             /\ (x = "all_links_failed" => w.candidates # {} /\ w.candidates \subseteq d)
                  => RowSound(Unavailable(w, x), d)
  <2>1. /\ Unavailable(w, x).state = "unavailable" /\ Unavailable(w, x).reason = x
        /\ Unavailable(w, x).candidates = w.candidates
        /\ Unavailable(w, x).sha256 = w.sha256 /\ Unavailable(w, x).attempts = w.attempts
    BY DEF Unavailable, Rows
  <2>2. Unavailable(w, x) \in Rows /\ Unavailable(w, x).trials = w.trials
    BY RowOperators
  <2> QED
    BY <1>0, <2>1, <2>2, NoneAssumption DEF RowSound
<1>3. Failure(w).attempts = w.attempts + 1 /\ RowSound(Failure(w), d)
  <2>1. /\ Failure(w).state = w.state /\ Failure(w).reason = w.reason
        /\ Failure(w).candidates = w.candidates
        /\ Failure(w).sha256 = w.sha256 /\ Failure(w).attempts = w.attempts + 1
    BY DEF Failure, Rows
  <2>2. Failure(w) \in Rows /\ Failure(w).trials = w.trials
    BY RowOperators
  <2> QED
    BY <1>0, <2>1, <2>2 DEF RowSound
<1>4. /\ Reset(w).state = "unresolved" /\ Reset(w).attempts = w.attempts
      /\ RowSound(Reset(w), d)
  <2>1. /\ Reset(w).state = "unresolved" /\ Reset(w).reason = None
        /\ Reset(w).sha256 = FALSE /\ Reset(w).attempts = w.attempts
    BY DEF Reset, SetState, Rows
  <2>2. Reset(w) \in Rows /\ Reset(w).trials = w.trials
    BY RowOperators
  <2> QED
    BY <1>0, <2>1, <2>2, NoneAssumption DEF RowSound, Reasons
<1> QED
  BY <1>1, <1>2, <1>3, <1>4

(* The one live run r acts: the others stay idle, and the lease is live    *)
(* for as long as the run is.                                              *)
LEMMA OnlyWriter ==
  ASSUME Inv, NEW r \in Runners, Active(r), NEW to,
         pc' = [pc EXCEPT ![r] = to], lease' = lease \/ to = "idle",
         \A q \in Runners \ {r} : net'[q] = net[q],
         TypeOK', RowSound(row, dead)', RunSound(r)'
  PROVE  Inv'
<1>1. \A q \in Runners \ {r} : pc[q] = "idle" /\ pc'[q] = "idle" /\ net'[q] = "none"
  BY DEF Inv, LeaseHeld, Active, RunSound, TypeOK
<1>2. \A q \in Runners \ {r} : RunSound(q)'
  BY <1>1 DEF RunSound, Working, Downloading, Mapping
<1>3. LeaseHeld'
  BY <1>1 DEF Inv, LeaseHeld, Active, TypeOK
<1> QED
  BY <1>2, <1>3 DEF Inv

(* Ending a run with a sound row that counts the attempt, if any, either   *)
(* in the row or in the run.                                               *)
LEMMA EndSound ==
  ASSUME Inv, NEW r \in Runners, NEW from \in Working, NEW w \in Rows, End(r, from, w),
         UNCHANGED <<lease, dead>>, TypeOK', RowSound(w, dead),
         NEW n, net' = [net EXCEPT ![r] = n],
         \/ n \in {"none", "used"} /\ w.attempts = row.attempts
         \/ n = "counted" /\ w.attempts = row.attempts + 1
  PROVE  Inv'
<1>1. pc[r] = from /\ pc' = [pc EXCEPT ![r] = "summarize"] /\ row' = w /\ seen' = seen
  BY DEF End, Goto
<1>2. Active(r) /\ Current(r)
  BY <1>1 DEF Active, Working, Downloading, Mapping, Inv, RunSound
<1>3. net'[r] = n /\ pc'[r] = "summarize"
  BY <1>1 DEF Inv, TypeOK
<1>4. Bumped(r)'.attempts = seen'[r].attempts + (IF net'[r] = "none" THEN 0 ELSE 1)
  <2>1. CASE n = "used"
    <3>1. Bumped(r)' = [w EXCEPT !.attempts = w.attempts + 1]
      BY <1>1, <1>3, <2>1 DEF Bumped
    <3>2. Bumped(r)'.attempts = w.attempts + 1
      BY <3>1 DEF Rows
    <3> QED
      BY <1>1, <1>2, <1>3, <2>1, <3>2 DEF Current
  <2>2. CASE n # "used"
    <3>1. Bumped(r)' = w
      BY <1>1, <1>3, <2>2 DEF Bumped
    <3>2. w.attempts \in Nat /\ seen[r].attempts = row.attempts
      BY <1>2 DEF Rows, Current
    <3> QED
      BY <1>1, <1>3, <2>2, <3>1, <3>2
  <2> QED
    BY <2>1, <2>2
<1>5. RunSound(r)'
  BY <1>3, <1>4 DEF RunSound, Working, Downloading, Mapping
<1>6. RowSound(row, dead)'
  BY <1>1 DEF RowSound, FailedPermanently
<1>7. \A q \in Runners \ {r} : net'[q] = net[q]
  BY DEF Inv, TypeOK
<1> QED
  BY <1>1, <1>2, <1>5, <1>6, <1>7, OnlyWriter

(* A run that turns to the next stage for the row it has loaded has every  *)
(* candidate planned, beyond the limit or dead.                            *)
LEMMA TurnSound ==
  ASSUME TypeOK, TypeOK', NEW r \in Runners, NEW from, NEW stages, NEW w \in Rows,
         Turn(r, from, w, stages), seen'[r] = w, row' = w, UNCHANGED <<retry, dead>>,
         net'[r] \in {"none", "used"}, RowSound(w, dead)
  PROVE  RunSound(r)' /\ RowSound(row, dead)'
<1> DEFINE to == StageOf(w, stages)
<1>1. pc'[r] = to
  BY DEF Turn, Goto, TypeOK
<1>2. to = "try" => todo'[r] = Planned(w, retry[r])
  BY DEF Turn, TypeOK
<1>3. /\ to \in {"identify", "links", "try", "map", "release"}
      /\ to = "identify" => w.state = "unresolved"
      /\ to = "links" => w.state = "identifier_found"
      /\ to = "try" => w.state = "link_found"
      /\ to = "map" => w.state = "downloaded"
  BY StageTypes
<1>4. RowSound(row, dead)'
  BY DEF RowSound, FailedPermanently
<1> HIDE DEF to
<1>5. to # "release" => Current(r)'
  BY <1>1, <1>3 DEF Current, Downloading, Mapping
<1>6. ASSUME to = "try" PROVE Accounted(r)'
  <2>0. Eligible(seen[r], retry[r])' = Eligible(w, retry[r])
    BY DEF Eligible, FailedPermanently
  <2>1. Planned(seen[r], retry[r])' = Planned(w, retry[r])
    BY <2>0 DEF Planned
  <2> SUFFICES ASSUME NEW c \in w.candidates
               PROVE  \/ c \in Planned(w, retry[r])
                      \/ c \in Eligible(w, retry[r]) \ Planned(w, retry[r])
                      \/ c \in dead
    BY <1>2, <1>6, <2>0, <2>1 DEF Accounted
  <2>2. c \in Links /\ (FailedPermanently(w, c) => c \in dead)
    BY DEF Rows, RowSound
  <2> QED
    BY <2>2 DEF Eligible
<1> QED
  BY <1>1, <1>3, <1>4, <1>5, <1>6 DEF RunSound, Working, Downloading, Mapping

(* Writing a sound row with the same count of attempts and turning to the  *)
(* next stage.                                                             *)
LEMMA ProceedSound ==
  ASSUME Inv, NEW r \in Runners, NEW from \in Working, NEW stages, NEW w \in Rows,
         Proceed(r, from, w, stages), UNCHANGED <<lease, dead, retry>>, TypeOK',
         RowSound(w, dead), NEW n \in {"none", "used"}, net' = [net EXCEPT ![r] = n]
  PROVE  Inv'
<1>1. pc[r] = from /\ pc' = [pc EXCEPT ![r] = StageOf(w, stages)] /\ Active(r)
  BY DEF Proceed, Turn, Goto, Active, Working, Downloading, Mapping
<1>2. seen'[r] = w /\ row' = w /\ Turn(r, from, w, stages) /\ net'[r] = n
  BY DEF Inv, TypeOK, Proceed
<1>3. RunSound(r)' /\ RowSound(row, dead)'
  BY <1>2, TurnSound DEF Inv
<1>4. \A q \in Runners \ {r} : net'[q] = net[q]
  BY DEF Inv, TypeOK
<1> QED
  BY <1>1, <1>3, <1>4, OnlyWriter

(* Moving on within a stage leaves the row as it is.                       *)
LEMMA MoveSound ==
  ASSUME Inv, NEW r \in Runners, Active(r), NEW to, Goto(r, pc[r], to),
         UNCHANGED <<row, lease, dead, net>>, TypeOK', RunSound(r)'
  PROVE  Inv'
<1>1. RowSound(row, dead)'
  BY DEF Inv, RowSound, FailedPermanently
<1>2. pc' = [pc EXCEPT ![r] = to]
  BY DEF Goto
<1> QED
  BY <1>1, <1>2, OnlyWriter

(* A logged trial leaves a row of links to try sound.                      *)
LEMMA LogSound ==
  ASSUME Inv, TypeOK', NEW url \in Links \cup {Page}, NEW o, Log(url, o),
         row.state = "link_found"
  PROVE  /\ RowSound(row, dead)'
         /\ row'.state = row.state /\ row'.candidates = row.candidates
         /\ row'.sha256 = row.sha256 /\ row'.attempts = row.attempts
         /\ dead' = IF o = "permanent" /\ url \in Links THEN dead \cup {url} ELSE dead \ {url}
<1> DEFINE t == [url |-> url, permanent |-> (o = "permanent")]
<1>1. row' = [row EXCEPT !.trials = Push(row.trials, t)]
  BY LogType DEF Inv
<1>2. row \in Rows /\ row' \in Rows /\ Len(row.trials) <= MaxTrials
  BY DEF Inv, TypeOK
<1> HIDE DEF t
<1>3. /\ row'.state = row.state /\ row'.candidates = row.candidates
      /\ row'.sha256 = row.sha256 /\ row'.attempts = row.attempts
      /\ row'.reason = row.reason /\ row'.trials = Push(row.trials, t)
  BY <1>1, <1>2 DEF Rows
<1>4. dead' = IF o = "permanent" /\ url \in Links THEN dead \cup {url} ELSE dead \ {url}
  BY DEF Log
<1>5. ASSUME NEW c \in Links, FailedPermanently(row', c) PROVE c \in dead'
  <2>1. IF c = url THEN o = "permanent" ELSE FailedPermanently(row, c)
    <3>1. (o = "permanent") \in BOOLEAN
      OBVIOUS
    <3> QED
      BY ZenonT(60), <1>2, <1>3, <1>5, <3>1, PushFailed DEF t
  <2>2. ~(c = url) => c \in dead
    BY <2>1 DEF Inv, RowSound
  <2> QED
    BY <1>4, <2>1, <2>2
<1>6. row.reason = None
  BY DEF Inv, RowSound
<1>7. RowSound(row', dead')
  BY <1>3, <1>5, <1>6, NoneAssumption DEF Inv, RowSound, Reasons
<1>8. RowSound(row, dead)'
  BY <1>7 DEF RowSound, FailedPermanently
<1> QED
  BY <1>3, <1>4, <1>8

(* The end of the attempt on a candidate accounts for it.                  *)
LEMMA SettleSound ==
  ASSUME Inv, TypeOK', NEW r \in Runners, NEW from \in {"try", "landing"},
         NEW c \in Links, NEW o \in Outcomes, Settle(r, from, c, o),
         from = "landing" => o = got[r],
         UNCHANGED <<lease, seen, retry>>, NEW n \in {"none", "used"},
         net' = [net EXCEPT ![r] = n]
  PROVE  Inv'
<1> DEFINE to == IF o = "pdf" THEN "store" ELSE "try"
<1>1. /\ pc[r] = from /\ pc' = [pc EXCEPT ![r] = to] /\ pc'[r] = to
      /\ Active(r) /\ Current(r) /\ Accounted(r)
  BY DEF Settle, Goto, Active, Working, Downloading, Inv, TypeOK, RunSound
<1>2. row.state = "link_found"
  BY <1>1 DEF Current, Downloading
<1>3. /\ RowSound(row, dead)'
      /\ row'.state = row.state /\ row'.candidates = row.candidates
      /\ row'.sha256 = row.sha256 /\ row'.attempts = row.attempts
      /\ dead' = IF o = "permanent" THEN dead \cup {c} ELSE dead \ {c}
  BY <1>2, LogSound DEF Settle
<1>4. net'[r] = n /\ seen'[r] = seen[r]
  BY DEF Inv, TypeOK
<1>5. Current(r)'
  BY <1>1, <1>2, <1>3, <1>4 DEF Current, Downloading, Mapping
<1>6. ASSUME to = "try" PROVE Accounted(r)'
  <2>1. o # "pdf" /\ o \in {"permanent", "transient"}
    BY <1>6, OutcomesAssumption
  <2>2. todo'[r] = todo[r] \ {c} /\ (flaky'[r] = (flaky[r] \/ o = "transient"))
    BY <2>1 DEF Settle, Inv, TypeOK
  <2>3. Eligible(seen[r], retry[r])' = Eligible(seen[r], retry[r])
    BY DEF Eligible, FailedPermanently
  <2>4. Planned(seen[r], retry[r])' = Planned(seen[r], retry[r])
    BY <2>3 DEF Planned
  <2> SUFFICES ASSUME NEW d \in row.candidates
               PROVE  \/ d \in todo'[r]
                      \/ d \in Eligible(seen[r], retry[r]) \ Planned(seen[r], retry[r])
                      \/ d \in dead'
                      \/ flaky'[r]
    BY <1>3, <2>3, <2>4 DEF Accounted
  <2>5. CASE d = c
    BY <1>3, <2>1, <2>2, <2>5
  <2>6. CASE d # c
    <3>1. \/ d \in todo[r]
          \/ d \in Eligible(seen[r], retry[r]) \ Planned(seen[r], retry[r])
          \/ d \in dead
          \/ flaky[r]
          \/ from = "landing" /\ got[r] # "permanent"
      BY <1>1 DEF Accounted
    <3>2. from = "landing" /\ got[r] # "permanent" => o = "transient"
      BY <2>1
    <3> QED
      BY <1>3, <2>2, <2>6, <3>1, <3>2
  <2> QED
    BY <2>5, <2>6
<1>7. RunSound(r)'
  BY <1>1, <1>5, <1>6 DEF RunSound
<1>8. \A q \in Runners \ {r} : net'[q] = net[q]
  BY DEF Inv, TypeOK
<1> QED
  BY <1>1, <1>3, <1>7, <1>8, OnlyWriter

(* A run that ends or dies leaves a sound row to the next.                 *)
LEMMA LeaveSound ==
  ASSUME Inv, TypeOK', NEW r \in Runners, Active(r), Leave(r)
  PROVE  Inv'
<1>1. /\ pc' = [pc EXCEPT ![r] = "idle"] /\ net' = [net EXCEPT ![r] = "none"]
      /\ UNCHANGED <<row, dead>>
  BY DEF Leave
<1>2. pc'[r] = "idle" /\ net'[r] = "none" /\ \A q \in Runners \ {r} : net'[q] = net[q]
  BY <1>1 DEF Inv, TypeOK
<1>3. RunSound(r)'
  BY <1>2 DEF RunSound, Working, Downloading, Mapping
<1>4. RowSound(row, dead)'
  BY <1>1 DEF Inv, RowSound, FailedPermanently
<1> QED
  BY <1>1, <1>2, <1>3, <1>4, OnlyWriter

(* Every step of a run keeps the invariant.                                *)
LEMMA StepSound ==
  ASSUME Inv, NEW r \in Runners, Step(r)
  PROVE  Inv'
<1> USE DEF Active
<1>0. TypeOK /\ TypeOK' /\ RowSound(row, dead) /\ RunSound(r) /\ row \in Rows
  BY StepType DEF Inv, TypeOK
<1>1. /\ \E n \in {"none", "used", "counted"} : net' = [net EXCEPT ![r] = n]
      /\ net' = net => net' = [net EXCEPT ![r] = net[r]]
  <2>1. net \in [Runners -> {"none", "used", "counted"}]
    BY <1>0 DEF TypeOK
  <2>2. net = [net EXCEPT ![r] = net[r]] /\ net[r] \in {"none", "used", "counted"}
    BY <2>1
  <2>3. net' \in {net} \cup {[net EXCEPT ![r] = n] : n \in {"none", "used", "counted"}}
    BY <2>2 DEF Step, Load, AlreadyMapped, MapAgain, SkipUnavailable, LookAgain, AlreadyLocal,
       NotLocal, StageIdentifiers, StageLinks, TryCandidate, FollowLanding, LogLanding,
       StayPending, AllLinksFailed, StoreBlob, RecordDownload, BlobMissing, BlobFound,
       PlaceCopy, LinkDocument, MarkMapped, Summarize, Fail, Release, Leave
  <2> QED
    BY <2>2, <2>3
<1>2. pc[r] \in Working => Current(r)
  BY <1>0 DEF RunSound
<1>2a. /\ Failure(row) \in Rows /\ RowSound(Failure(row), dead)
       /\ Failure(row).attempts = row.attempts + 1
  <2>1. Failure(row) \in Rows
    BY <1>0, RowOperators
  <2>2. RowSound(Failure(row), dead) /\ Failure(row).attempts = row.attempts + 1
    BY <1>0, RowOperatorsSound
  <2> QED
    BY <2>1, <2>2
<1>3. CASE Load(r)
  <2>1. /\ pc[r] = "load" /\ net[r] = "none"
        /\ pc' = [pc EXCEPT ![r] = CASE row.state = "mapped" -> "presence"
                                     [] row.state = "unavailable" -> "verdict"
                                     [] OTHER -> "local"]
        /\ UNCHANGED <<row, lease, dead, net>> /\ seen'[r] = row'
    BY <1>0, <1>3 DEF Load, Goto, RunSound, stored, TypeOK
  <2>2. RunSound(r)'
    BY <1>0, <2>1 DEF TypeOK, RunSound, Current, Working, Downloading, Mapping
  <2> QED
    BY <1>0, <2>1, <2>2, MoveSound DEF Goto
<1>4. CASE AlreadyMapped(r) \/ SkipUnavailable(r)
  <2>1. PICK from \in {"presence", "verdict"} : End(r, from, row)
    BY <1>4 DEF AlreadyMapped, SkipUnavailable
  <2>2. UNCHANGED <<lease, dead, net>> /\ from \in Working /\ pc[r] = from
    BY <1>4, <2>1 DEF AlreadyMapped, SkipUnavailable, Working, End, Goto
  <2>3. net[r] \in {"none", "used"}
    BY <1>2, <2>2 DEF Current
  <2> QED
    BY <1>0, <1>1, <2>1, <2>2, <2>3, EndSound
<1>5. CASE MapAgain(r) \/ LookAgain(r)
  <2>1. PICK w \in {SetState(row, "downloaded"), Reset(row)} :
          row' = w /\ seen' = [seen EXCEPT ![r] = w]
    BY <1>5 DEF MapAgain, LookAgain
  <2>2. /\ UNCHANGED <<lease, dead, net>> /\ pc' = [pc EXCEPT ![r] = "local"]
        /\ pc[r] \in {"presence", "verdict"}
    BY <1>5 DEF MapAgain, LookAgain, Goto
  <2>3. RowSound(w, dead) /\ w.state \in {"downloaded", "unresolved"}
    BY <1>0, <2>1, RowOperatorsSound DEF States
  <2>4. seen'[r] = row' /\ net'[r] \in {"none", "used"} /\ pc'[r] = "local"
    BY <1>0, <1>2, <2>1, <2>2 DEF TypeOK, Current, Working
  <2>5. RunSound(r)'
    BY <2>1, <2>3, <2>4 DEF RunSound, Current, Working, Downloading, Mapping
  <2>6. RowSound(row, dead)'
    BY <2>1, <2>2, <2>3 DEF RowSound, FailedPermanently
  <2> QED
    BY <1>0, <2>2, <2>5, <2>6, OnlyWriter
<1>6. CASE AlreadyLocal(r)
  <2>1. PICK d \in Docs : End(r, "local", [SetState(row, "mapped") EXCEPT !.document = d])
    BY <1>0, <1>6 DEF AlreadyLocal, Local, TypeOK
  <2> DEFINE v == SetState(row, "mapped")
             w == [v EXCEPT !.document = d]
  <2>2. v \in Rows /\ RowSound(v, dead) /\ v.attempts = row.attempts
    BY <1>0, RowOperators, RowOperatorsSound DEF States
  <2>3. w \in Rows /\ RowSound(w, dead) /\ w.attempts = row.attempts
    <3> HIDE DEF v
    <3>1. /\ w \in Rows /\ w.attempts = v.attempts /\ w.state = v.state /\ w.reason = v.reason
          /\ w.candidates = v.candidates /\ w.sha256 = v.sha256 /\ w.trials = v.trials
      BY <2>2 DEF Rows
    <3> QED
      BY <2>2, <3>1 DEF RowSound, FailedPermanently
  <2>4. UNCHANGED <<lease, dead, net>> /\ net[r] \in {"none", "used"} /\ "local" \in Working
    BY <1>2, <1>6 DEF AlreadyLocal, Current, Working, End, Goto
  <2> HIDE DEF w
  <2>5. End(r, "local", w)
    BY <2>1 DEF w
  <2> QED
    BY <1>0, <1>1, <2>3, <2>4, <2>5, EndSound
<1>7. CASE NotLocal(r)
  <2> DEFINE stages == {"identify", "links", "try", "map"}
  <2>1. Turn(r, "local", seen[r], stages) /\ UNCHANGED <<row, lease, dead, seen, retry, net>>
    BY <1>7 DEF NotLocal, stored
  <2>2. pc[r] = "local" /\ seen[r] = row /\ net[r] \in {"none", "used"}
    BY <1>2, <2>1 DEF Turn, Goto, Current, Working, Downloading
  <2> HIDE DEF stages
  <2>3. RunSound(r)' /\ RowSound(row, dead)'
    BY <1>0, <2>1, <2>2, TurnSound
  <2>4. Goto(r, pc[r], StageOf(seen[r], stages))
    BY <2>1, <2>2 DEF Turn
  <2> QED
    BY <1>0, <2>1, <2>2, <2>3, <2>4, MoveSound
<1>8. CASE StageIdentifiers(r)
  <2>0. /\ UNCHANGED <<lease, dead, retry, net>> /\ pc[r] = "identify" /\ "identify" \in Working
    BY <1>8 DEF StageIdentifiers, End, Proceed, Turn, Goto, Working
  <2>1. net[r] \in {"none", "used"}
    BY <1>2, <2>0 DEF Current
  <2>2. CASE End(r, "identify", Unavailable(row, "no_identifier"))
    <3>1. /\ Unavailable(row, "no_identifier") \in Rows
          /\ Unavailable(row, "no_identifier").attempts = row.attempts
          /\ RowSound(Unavailable(row, "no_identifier"), dead)
      BY <1>0, RowOperators, RowOperatorsSound DEF Reasons
    <3> QED
      BY <1>0, <1>1, <2>0, <2>1, <2>2, <3>1, EndSound
  <2>3. CASE Proceed(r, "identify", SetState(row, "identifier_found"), {"links", "try", "map"})
    <3>1. /\ SetState(row, "identifier_found") \in Rows
          /\ RowSound(SetState(row, "identifier_found"), dead)
      BY <1>0, RowOperators, RowOperatorsSound DEF States
    <3> QED
      BY <1>0, <1>1, <2>0, <2>1, <2>3, <3>1, ProceedSound
  <2> QED
    BY <1>8, <2>2, <2>3 DEF StageIdentifiers
<1>9. CASE StageLinks(r)
  <2>0. UNCHANGED <<lease, dead, retry>> /\ pc[r] = "links" /\ "links" \in Working
    BY <1>9 DEF StageLinks, End, Proceed, Turn, Goto, Working
  <2>1. net[r] \in {"none", "used"}
    BY <1>2, <2>0 DEF Current
  <2>2. ASSUME NEW found \in (SUBSET Links) \ {{}},
               Proceed(r, "links", [SetState(row, "link_found") EXCEPT !.candidates = found],
                       {"try", "map"}),
               NEW use \in {net[r], "used"}, net' = [net EXCEPT ![r] = use]
        PROVE  Inv'
    <3> DEFINE v == SetState(row, "link_found")
               w == [v EXCEPT !.candidates = found]
    <3>1. /\ v \in Rows /\ v.state = "link_found" /\ v.trials = row.trials
          /\ v.reason = None
      <4>1. v \in Rows /\ v.trials = row.trials
        BY <1>0, RowOperators DEF States
      <4>2. v.state = "link_found" /\ v.reason = None
        BY <1>0 DEF SetState, Rows
      <4> QED
        BY <4>1, <4>2
    <3>2. w \in Rows /\ RowSound(w, dead)
      <4> HIDE DEF v
      <4>1. /\ w \in Rows /\ w.state = v.state /\ w.reason = None
            /\ w.candidates = found /\ w.trials = row.trials
        BY <3>1 DEF Rows
      <4> HIDE DEF w
      <4>2. \A c \in Links : FailedPermanently(w, c) => c \in dead
        BY <1>0, <4>1 DEF RowSound, FailedPermanently
      <4> QED
        BY <3>1, <4>1, <4>2, NoneAssumption DEF RowSound, Reasons
    <3>3. Proceed(r, "links", w, {"try", "map"})
      BY <2>2
    <3> HIDE DEF w
    <3>4. use \in {"none", "used"}
      BY <2>1
    <3> QED
      BY <1>0, <2>0, <2>2, <3>2, <3>3, <3>4, ProceedSound
  <2>3. CASE End(r, "links", Failure(row)) /\ net' = [net EXCEPT ![r] = "counted"]
    BY <1>0, <1>2a, <2>0, <2>3, EndSound
  <2>4. CASE End(r, "links", Unavailable(row, "no_oa_location")) /\ net' = [net EXCEPT ![r] = "used"]
    <3>1. /\ Unavailable(row, "no_oa_location") \in Rows
          /\ Unavailable(row, "no_oa_location").attempts = row.attempts
          /\ RowSound(Unavailable(row, "no_oa_location"), dead)
      BY <1>0, RowOperators, RowOperatorsSound DEF Reasons
    <3> QED
      BY <1>0, <2>0, <2>4, <3>1, EndSound
  <2> QED
    BY <1>9, <2>2, <2>3, <2>4 DEF StageLinks
<1>10. CASE TryCandidate(r)
  <2>1. PICK c \in Links, o \in Outcomes : Settle(r, "try", c, o)
    BY <1>10 DEF TryCandidate
  <2>2. UNCHANGED <<lease, seen, retry>> /\ net' = [net EXCEPT ![r] = "used"]
    BY <1>10 DEF TryCandidate
  <2> QED
    BY <1>0, <2>1, <2>2, SettleSound
<1>11. CASE LogLanding(r)
  <2>1. PICK c \in Links : Settle(r, "landing", c, got[r])
    BY <1>11 DEF LogLanding
  <2>2. /\ UNCHANGED <<lease, seen, retry, net>> /\ pc[r] = "landing"
        /\ got[r] \in Outcomes /\ net[r] \in {"none", "used"}
    BY <1>0, <1>2, <1>11, <2>1
       DEF LogLanding, Settle, Goto, RunSound, Current, Working, Downloading
  <2> QED
    BY <1>0, <1>1, <2>1, <2>2, SettleSound
<1>12. CASE FollowLanding(r)
  <2>1. PICK o \in Outcomes, url \in Links \cup {Page} :
          Log(url, o) /\ got' = [got EXCEPT ![r] = o]
    BY <1>12 DEF FollowLanding
  <2>2. /\ pc[r] = "try" /\ pc' = [pc EXCEPT ![r] = "landing"] /\ pc'[r] = "landing"
        /\ net' = [net EXCEPT ![r] = "used"] /\ net'[r] = "used"
        /\ UNCHANGED <<lease, seen, retry, todo, flaky>> /\ got'[r] = o
        /\ \A q \in Runners \ {r} : net'[q] = net[q]
    BY <1>0, <1>12, <2>1 DEF FollowLanding, Goto, TypeOK
  <2>3. Current(r) /\ Accounted(r) /\ row.state = "link_found"
    BY <1>0, <2>2 DEF RunSound, Working, Downloading, Current
  <2>4. /\ RowSound(row, dead)'
        /\ row'.state = row.state /\ row'.candidates = row.candidates
        /\ row'.sha256 = row.sha256 /\ row'.attempts = row.attempts
        /\ dead' = IF o = "permanent" /\ url \in Links THEN dead \cup {url} ELSE dead \ {url}
    BY <1>0, <2>1, <2>3, LogSound
  <2>5. Current(r)'
    BY <2>2, <2>3, <2>4 DEF Current, Downloading, Mapping
  <2>6. Accounted(r)'
    <3>1. Eligible(seen[r], retry[r])' = Eligible(seen[r], retry[r])
      BY <2>2 DEF Eligible, FailedPermanently
    <3>2. Planned(seen[r], retry[r])' = Planned(seen[r], retry[r])
      BY <3>1 DEF Planned
    <3>3. pc[r] # "landing" /\ row.candidates \subseteq Links
      BY <1>0, <2>2 DEF Rows
    <3> QED
      BY <2>2, <2>3, <2>4, <3>1, <3>2, <3>3 DEF Accounted
  <2>7. RunSound(r)'
    BY <2>2, <2>5, <2>6 DEF RunSound
  <2> QED
    BY <1>0, <2>2, <2>4, <2>7, OnlyWriter
<1>13. CASE StayPending(r)
  <2>1. /\ End(r, "try", Failure(row)) /\ net' = [net EXCEPT ![r] = "counted"]
        /\ UNCHANGED <<lease, dead>> /\ "try" \in Working
    BY <1>13 DEF StayPending, Working, Downloading
  <2> QED
    BY <1>0, <1>2a, <2>1, EndSound
<1>14. CASE AllLinksFailed(r)
  <2>1. /\ End(r, "try", Unavailable(row, "all_links_failed"))
        /\ UNCHANGED <<lease, dead, net>> /\ pc[r] = "try" /\ "try" \in Working
        /\ todo[r] = {} /\ ~flaky[r] /\ Eligible(seen[r], retry[r]) = Planned(seen[r], retry[r])
    BY <1>14 DEF AllLinksFailed, Working, Downloading, End, Goto, Untried
  <2>2. Current(r) /\ Accounted(r) /\ row.state = "link_found" /\ net[r] \in {"none", "used"}
    BY <1>0, <2>1 DEF RunSound, Downloading, Current
  <2>3. row.candidates # {} /\ row.candidates \subseteq dead
    BY <1>0, <2>1, <2>2 DEF RowSound, Accounted
  <2>4. /\ Unavailable(row, "all_links_failed") \in Rows
        /\ Unavailable(row, "all_links_failed").attempts = row.attempts
        /\ RowSound(Unavailable(row, "all_links_failed"), dead)
    BY <1>0, <2>3, RowOperators, RowOperatorsSound DEF Reasons
  <2> QED
    BY <1>0, <1>1, <2>1, <2>2, <2>4, EndSound
<1>15. CASE StoreBlob(r) \/ BlobFound(r) \/ PlaceCopy(r) \/ LinkDocument(r)
  <2>1. PICK to \in {"record", "place", "link", "mark"} :
          /\ pc' = [pc EXCEPT ![r] = to]
          /\ pc[r] \in Downloading \cup Mapping
          /\ to = "record" <=> pc[r] \in Downloading
          /\ pc[r] \notin {"try", "landing"}
    BY <1>15 DEF StoreBlob, BlobFound, PlaceCopy, LinkDocument, Goto, Downloading, Mapping
  <2>2. UNCHANGED <<row, lease, dead, seen, net>> /\ pc'[r] = to
    BY <1>0, <1>15, <2>1 DEF StoreBlob, BlobFound, PlaceCopy, LinkDocument, stored, TypeOK
  <2>3. Current(r)
    BY <1>2, <2>1 DEF Working
  <2>4. Current(r)'
    BY <2>1, <2>2, <2>3 DEF Current, Downloading, Mapping
  <2>5. RunSound(r)'
    BY <2>1, <2>2, <2>4 DEF RunSound
  <2> QED
    BY <1>0, <2>1, <2>2, <2>5, MoveSound DEF Goto, Downloading, Mapping
<1>16. CASE RecordDownload(r)
  <2> DEFINE v == SetState(row, "downloaded")
             w == [v EXCEPT !.sha256 = TRUE]
  <2>1. /\ Proceed(r, "record", w, {"map"}) /\ UNCHANGED <<lease, dead, retry, net>>
        /\ pc[r] = "record" /\ "record" \in Working
    BY <1>16 DEF RecordDownload, Working, Downloading, Proceed, Turn, Goto
  <2>2. Current(r) /\ row.state = "link_found" /\ net[r] \in {"none", "used"}
    BY <1>2, <2>1 DEF Current, Downloading
  <2>3. v \in Rows /\ RowSound(v, dead) /\ v.candidates # {}
    <3>1. v \in Rows /\ RowSound(v, dead) /\ v.candidates = row.candidates
      BY <1>0, RowOperators, RowOperatorsSound DEF States
    <3> QED
      BY <1>0, <2>2, <3>1 DEF RowSound
  <2>4. w \in Rows /\ RowSound(w, dead)
    <3> HIDE DEF v
    <3>1. /\ w \in Rows /\ w.state = v.state /\ w.reason = v.reason
          /\ w.candidates = v.candidates /\ w.trials = v.trials
      BY <2>3 DEF Rows
    <3> QED
      BY <2>3, <3>1 DEF RowSound, FailedPermanently
  <2> HIDE DEF w
  <2> QED
    BY <1>0, <1>1, <2>1, <2>2, <2>4, ProceedSound
<1>17. CASE BlobMissing(r)
  <2>1. PICK w \in {Reset(row), SetState(row, "link_found")} :
          /\ End(r, "map", w)
          /\ w = SetState(row, "link_found") /\ w # Reset(row) => seen[r].candidates # {}
    BY <1>17 DEF BlobMissing
  <2>2. UNCHANGED <<lease, dead, net>> /\ pc[r] = "map" /\ "map" \in Working
    BY <1>17, <2>1 DEF BlobMissing, End, Goto, Working, Mapping
  <2>3. net[r] \in {"none", "used"} /\ seen[r].candidates = row.candidates
    BY <1>2, <2>2 DEF Current
  <2>4. w \in Rows /\ w.attempts = row.attempts /\ RowSound(w, dead)
    <3>1. CASE w = Reset(row)
      BY <1>0, <3>1, RowOperators, RowOperatorsSound
    <3>2. CASE w # Reset(row)
      <4>1. w = SetState(row, "link_found") /\ row.candidates # {}
        BY <2>1, <2>3, <3>2
      <4>2. SetState(row, "link_found") \in Rows
        BY <1>0, RowOperators DEF States
      <4>3. /\ SetState(row, "link_found").attempts = row.attempts
            /\ RowSound(SetState(row, "link_found"), dead)
        BY <1>0, <4>1, RowOperatorsSound DEF States
      <4> QED
        BY <4>1, <4>2, <4>3
    <3> QED
      BY <3>1, <3>2
  <2> QED
    BY <1>0, <1>1, <2>1, <2>2, <2>3, <2>4, EndSound
<1>18. CASE MarkMapped(r)
  <2> DEFINE v == SetState(row, "mapped")
             w == [v EXCEPT !.document = "fetched"]
  <2>1. /\ End(r, "mark", w) /\ UNCHANGED <<lease, dead, net>>
        /\ pc[r] = "mark" /\ "mark" \in Working
    BY <1>18 DEF MarkMapped, End, Goto, Working, Mapping
  <2>2. v \in Rows /\ RowSound(v, dead) /\ v.attempts = row.attempts
    BY <1>0, RowOperators, RowOperatorsSound DEF States
  <2>3. w \in Rows /\ RowSound(w, dead) /\ w.attempts = row.attempts
    <3> HIDE DEF v
    <3>1. /\ w \in Rows /\ w.attempts = v.attempts /\ w.state = v.state /\ w.reason = v.reason
          /\ w.candidates = v.candidates /\ w.sha256 = v.sha256 /\ w.trials = v.trials
      BY <2>2, DocsAssumption DEF Rows
    <3> QED
      BY <2>2, <3>1 DEF RowSound, FailedPermanently
  <2>4. net[r] \in {"none", "used"}
    BY <1>2, <2>1 DEF Current
  <2> HIDE DEF w
  <2> QED
    BY <1>0, <1>1, <2>1, <2>3, <2>4, EndSound
<1>19. CASE Summarize(r)
  <2>1. /\ pc[r] = "summarize" /\ pc' = [pc EXCEPT ![r] = "release"]
        /\ UNCHANGED <<lease, dead, net>> /\ row' = Bumped(r) /\ pc'[r] = "release"
    BY <1>0, <1>19 DEF Summarize, Goto, TypeOK
  <2>2. RowSound(row, dead)'
    <3>1. Bumped(r) \in {Failure(row), row}
      BY DEF Bumped, Failure
    <3>2. RowSound(row', dead)
      BY <1>0, <2>1, <3>1, RowOperatorsSound
    <3> QED
      BY <2>1, <3>2 DEF RowSound, FailedPermanently
  <2>3. RunSound(r)'
    BY <2>1 DEF RunSound, Working, Downloading, Mapping
  <2> QED
    BY <1>0, <2>1, <2>2, <2>3, OnlyWriter
<1>20. CASE Fail(r)
  <2>1. /\ pc[r] # "idle" /\ Goto(r, pc[r], "release") /\ pc'[r] = "release"
        /\ UNCHANGED <<row, lease, dead, net>>
    BY <1>0, <1>20 DEF Fail, Goto, TypeOK, stored
  <2>2. RunSound(r)'
    BY <2>1 DEF RunSound, Working, Downloading, Mapping
  <2> QED
    BY <1>0, <2>1, <2>2, MoveSound
<1>21. CASE Release(r)
  BY <1>0, <1>21, LeaveSound DEF Release
<1> QED
  BY <1>3, <1>4, <1>5, <1>6, <1>7, <1>8, <1>9, <1>10, <1>11, <1>12, <1>13, <1>14, <1>15,
     <1>16, <1>17, <1>18, <1>19, <1>20, <1>21 DEF Step

(* The invariant holds of a new row, and every step of the runs, the       *)
(* clock, the library and the disk keeps it, if leases outlast their runs. *)
LEMMA InvInductive ==
  ASSUME Timely
  PROVE  /\ Init => Inv
         /\ Inv /\ [Next]_vars => Inv'
<1>1. ASSUME Init PROVE Inv
  <2>1. TypeOK
    BY <1>1, TypeInductive
  <2>2. NewRow.trials = <<>> /\ NewRow.state = "unresolved" /\ NewRow.reason = None /\ ~NewRow.sha256
    BY DEF NewRow
  <2>3. \A c \in Links : ~FailedPermanently(NewRow, c)
    BY <2>2 DEF FailedPermanently
  <2>4. RowSound(row, dead)
    BY <1>1, <2>2, <2>3, NoneAssumption DEF Init, RowSound, Reasons
  <2> QED
    BY <1>1, <2>1, <2>4
       DEF Init, Inv, LeaseHeld, Active, RunSound, Working, Downloading, Mapping
<1>2. ASSUME Inv, [Next]_vars PROVE Inv'
  <2>0. TypeOK'
    BY <1>2, TypeInductive DEF Inv
  <2>1. ASSUME NEW r \in Runners, Claim(r) PROVE Inv'
    <3>1. \A q \in Runners : pc[q] = "idle"
      BY <1>2, <2>1 DEF Claim, Claimable, Inv, LeaseHeld, Active
    <3>2. /\ pc' = [pc EXCEPT ![r] = "load"] /\ lease' = "live"
          /\ UNCHANGED <<row, dead, net>>
      BY <2>1 DEF Claim, Goto
    <3>3. LeaseHeld'
      BY <1>2, <3>1, <3>2 DEF LeaseHeld, Active, Inv, TypeOK
    <3>4. \A q \in Runners : RunSound(q)'
      BY <1>2, <3>1, <3>2 DEF RunSound, Inv, TypeOK, Working, Downloading, Mapping
    <3>5. RowSound(row, dead)'
      BY <1>2, <3>2 DEF Inv, RowSound, FailedPermanently
    <3> QED
      BY <2>0, <3>3, <3>4, <3>5 DEF Inv
  <2>2. ASSUME NEW r \in Runners, Crash(r) PROVE Inv'
    BY <1>2, <2>0, <2>2, LeaveSound DEF Crash
  <2>3. CASE Expire \/ Age
    <3>1. \A q \in Runners : pc[q] = "idle"
      BY <2>3 DEF Expire, Age, Active
    <3>2. UNCHANGED <<pc, net, dead>>
      BY <2>3 DEF Expire, Age, run
    <3>3. LeaseHeld' /\ \A q \in Runners : RunSound(q)'
      BY <1>2, <3>1, <3>2
         DEF LeaseHeld, Active, RunSound, Inv, Working, Downloading, Mapping
    <3>4. RowSound(row, dead)'
      <4>1. row \in Rows /\ RowSound(row, dead)
        BY <1>2 DEF Inv, TypeOK
      <4>2. CASE Expire
        BY <4>1, <4>2 DEF Expire, RowSound, FailedPermanently
      <4>3. CASE Age
        <5>1. /\ row'.state = row.state /\ row'.reason = row.reason
              /\ row'.candidates = row.candidates /\ row'.sha256 = row.sha256
              /\ row'.trials = row.trials
          BY <4>1, <4>3 DEF Age, Rows
        <5> QED
          BY <3>2, <4>1, <5>1 DEF RowSound, FailedPermanently
      <4> QED
        BY <2>3, <4>2, <4>3
    <3> QED
      BY <2>0, <3>3, <3>4 DEF Inv
  <2>4. CASE UNCHANGED <<row, lease, dead, run>>
    <3>1. LeaseHeld' /\ RowSound(row, dead)'
      BY <1>2, <2>4 DEF Inv, LeaseHeld, Active, RowSound, FailedPermanently, run
    <3>2. ASSUME NEW r \in Runners PROVE RunSound(r)'
      <4>1. RunSound(r) /\ UNCHANGED <<row, dead, pc, seen, retry, net, todo, flaky, got>>
        BY <1>2, <2>4 DEF Inv, run
      <4>2. Current(r)' = Current(r) /\ Bumped(r)' = Bumped(r)
        BY <4>1 DEF Current, Bumped
      <4>3. Accounted(r)' = Accounted(r)
        <5>1. Eligible(seen[r], retry[r])' = Eligible(seen[r], retry[r])
          BY <4>1 DEF Eligible, FailedPermanently
        <5>2. Planned(seen[r], retry[r])' = Planned(seen[r], retry[r])
          BY <5>1 DEF Planned
        <5> QED
          BY <4>1, <5>1, <5>2 DEF Accounted
      <4> QED
        BY <4>1, <4>2, <4>3 DEF RunSound
    <3> QED
      BY <2>0, <3>1, <3>2 DEF Inv
  <2>5. LoseBlob \/ (\E d \in Docs : Scan(d) \/ Match(d)) \/ UNCHANGED vars
          => UNCHANGED <<row, lease, dead, run>>
    BY DEF LoseBlob, Scan, Match, stored, vars
  <2> QED
    BY <1>2, <2>1, <2>2, <2>3, <2>4, <2>5, StepSound DEF Next
<1> QED
  BY <1>1, <1>2

(* No second run works on a Work while one does: a concurrent run finds    *)
(* the lease live and returns Busy, for any number of runs that all end    *)
(* within their lease.                                                     *)
THEOREM OneRunner ==
  ASSUME Timely
  PROVE  Spec => []SingleRunner
<1>1. Init => Inv
  BY InvInductive
<1>2. Inv /\ [Next]_vars => Inv'
  BY InvInductive
<1>3. Inv => SingleRunner
  BY DEF Inv, LeaseHeld, SingleRunner
<1> QED
  BY <1>1, <1>2, <1>3, PTL DEF Spec

(* The verdict all_links_failed is only recorded for a list of links that  *)
(* is not empty and of which each failed permanently when it was last      *)
(* tried, however the runs that tried them crashed, failed and resumed,    *)
(* and however much the bounded log forgot; and a run that comes to its    *)
(* summary counts one attempt if it used the network and none otherwise.   *)
THEOREM RowsTrue ==
  ASSUME Timely
  PROVE  Spec => []RowTrue
<1>1. Init => Inv
  BY InvInductive
<1>2. Inv /\ [Next]_vars => Inv'
  BY InvInductive
<1>3. Inv => NoFalseVerdict
  BY DEF Inv, RowSound, NoFalseVerdict
<1>4. Inv => CountedOnce
  BY DEF Inv, RunSound, CountedOnce
<1> QED
  BY <1>1, <1>2, <1>3, <1>4, PTL DEF Spec, RowTrue

(* No retry, crash or removed document makes a row that reached its        *)
(* download start over while the stored copy backs it.                     *)
THEOREM DownloadsKept ==
  ASSUME Timely
  PROVE  Spec => DownloadKept
<1> DEFINE Kept == {"downloaded", "mapped"}
           Keeps == row.state \in Kept /\ row'.state \notin Kept => ~(row.sha256 /\ blob)
<1>1. Init => Inv
  BY InvInductive
<1>2. Inv /\ [Next]_vars => Inv'
  BY InvInductive
<1>3. Inv /\ [Next]_vars => [Keeps]_vars
  <2> SUFFICES ASSUME Inv, Next, row.state \in Kept, row'.state \notin Kept
               PROVE  ~(row.sha256 /\ blob)
    OBVIOUS
  <2>0. row \in Rows
    BY DEF Inv, TypeOK
  <2>1. PICK r \in Runners : Step(r)
    <3>1. ASSUME NEW r \in Runners, Claim(r) \/ Crash(r) PROVE row' = row
      BY <3>1 DEF Claim, Crash, Leave
    <3>2. ASSUME Expire \/ LoseBlob \/ \E d \in Docs : Scan(d) \/ Match(d) PROVE row' = row
      BY <3>2 DEF Expire, LoseBlob, Scan, Match, stored
    <3>3. ASSUME Age PROVE row'.state = row.state
      BY <2>0, <3>3 DEF Age, Rows
    <3> QED
      BY <3>1, <3>2, <3>3 DEF Next
  <2>2. row' # row /\ (pc[r] \in Working => Current(r))
    BY DEF Inv, RunSound
  <2>3. CASE BlobMissing(r)
    <3>1. pc[r] = "map" /\ ~(seen[r].sha256 /\ blob)
      BY <2>3 DEF BlobMissing, BlobOk, End, Goto
    <3> QED
      BY <2>2, <3>1 DEF Current, Working, Mapping
  <2>4. CASE LookAgain(r) \/ StageIdentifiers(r) \/ StageLinks(r) \/ AllLinksFailed(r)
             \/ TryCandidate(r) \/ LogLanding(r) \/ FollowLanding(r) \/ StayPending(r)
    <3>1. pc[r] \in {"verdict", "identify", "links", "try", "landing"}
      BY <2>4 DEF LookAgain, StageIdentifiers, StageLinks, AllLinksFailed, TryCandidate,
         LogLanding, FollowLanding, StayPending, Settle, Proceed, Turn, End, Goto
    <3> QED
      BY <2>2, <3>1 DEF Current, Working, Downloading
  <2>5. CASE MapAgain(r) \/ AlreadyLocal(r) \/ RecordDownload(r) \/ MarkMapped(r)
    <3>1. PICK s \in Kept : row'.state = SetState(row, s).state
      <4>1. ASSUME NEW s \in Kept PROVE SetState(row, s) \in Rows
        BY <2>0, <4>1, RowOperators DEF States
      <4>2. /\ \A d : [SetState(row, "mapped") EXCEPT !.document = d].state
                        = SetState(row, "mapped").state
            /\ [SetState(row, "downloaded") EXCEPT !.sha256 = TRUE].state
                        = SetState(row, "downloaded").state
        BY <4>1 DEF Rows
      <4> QED
        BY <2>5, <4>2 DEF MapAgain, AlreadyLocal, RecordDownload, MarkMapped, End, Proceed
    <3>2. SetState(row, s).state = s
      BY <2>0 DEF SetState, Rows
    <3> QED
      BY <3>1, <3>2
  <2>6. CASE Summarize(r)
    <3>1. row'.state = row.state
      BY <2>0, <2>6 DEF Summarize, Bumped, Rows
    <3> QED
      BY <3>1
  <2>7. CASE Load(r) \/ AlreadyMapped(r) \/ SkipUnavailable(r) \/ NotLocal(r) \/ StoreBlob(r)
             \/ BlobFound(r) \/ PlaceCopy(r) \/ LinkDocument(r) \/ Fail(r) \/ Release(r)
    BY <2>2, <2>7 DEF Load, AlreadyMapped, SkipUnavailable, NotLocal, StoreBlob, BlobFound,
       PlaceCopy, LinkDocument, Fail, Release, Leave, End, stored
  <2> QED
    BY <2>1, <2>3, <2>4, <2>5, <2>6, <2>7 DEF Step
<1> QED
  BY <1>1, <1>2, <1>3, PTL DEF Spec, DownloadKept
=============================================================================
