---------------------------- MODULE Acquisition ----------------------------
(***************************************************************************)
(* Acquisition of an open-access copy of one Work:                         *)
(* run_acquisition of lysilogy-ingest over the Work's ops.acquisition row  *)
(* of lysilogy-db.  A run claims the row's lease, resumes at the stage the *)
(* row has reached and writes each stage's output before the next starts,  *)
(* so that a run may fail, or its process die, at every await.             *)
(*                                                                         *)
(* Runs of several processes and jobs share the row, the blob of the       *)
(* download and the library documents, which scans and users change too.   *)
(* `dead` is history: the links whose newest trial failed permanently,     *)
(* which the bounded log of the row may have forgotten.                    *)
(***************************************************************************)
EXTENDS Naturals, Sequences, FiniteSets

CONSTANTS
  Runners,     \* runs of this Work, each a job or a command repeated at will
  NLinks,      \* links the providers know, in candidate order
  Outcomes,    \* how a fetch may end
  MaxPerRun,   \* MAX_CANDIDATES_PER_RUN
  MaxTrials,   \* MAX_TRIALS
  MaxAttempts, \* bound of the model: no run is started at this count
  Docs,        \* library documents: "fetched" has the bytes of the download
  Timely,      \* whether every live run ends within its ten-minute lease
  None

Links == 1..NLinks
Page  == 0     \* a link found on a landing page that no provider listed

States  == {"unresolved", "identifier_found", "link_found", "downloaded",
            "mapped", "unavailable"}
Reasons == {"no_identifier", "no_oa_location", "all_links_failed"}
Works   == {None, "this", "other"}
Trials  == [url: Links \cup {Page}, permanent: BOOLEAN]

ASSUME BoundsAssumption ==
  /\ {NLinks, MaxPerRun, MaxTrials, MaxAttempts} \subseteq Nat \ {0}
  /\ Timely \in BOOLEAN
ASSUME DocsAssumption == "fetched" \in Docs /\ None \notin Docs
ASSUME NoneAssumption == None \notin Reasons
ASSUME OutcomesAssumption == Outcomes \subseteq {"permanent", "transient", "pdf"}

VARIABLES
  row,     \* the stored acquisition row
  lease,   \* lease_until: null, ahead or past
  blob,    \* the download is in the blob store, complete
  present, \* library documents with a file
  link,    \* the Work each document is linked to
  dead,    \* links whose newest trial failed permanently
  pc,      \* where run r stands
  seen,    \* the row run r loaded last
  retry,   \* options.retry_unavailable of run r
  net,     \* NetworkUse of run r
  todo,    \* candidates run r still has to try
  flaky,   \* a candidate of run r failed transiently
  got      \* outcome of the landing page's link, or the Work of the document

stored == <<row, lease, blob, dead>>
library == <<present, link>>
run    == <<pc, seen, retry, net, todo, flaky, got>>
vars   == <<stored, library, run>>

Rows == [state: States, reason: Reasons \cup {None}, candidates: SUBSET Links,
         trials: Seq(Trials), sha256: BOOLEAN, document: Docs \cup {None},
         attempts: Nat, recent: BOOLEAN]

TypeOK ==
  /\ row \in Rows /\ Len(row.trials) <= MaxTrials
  /\ lease \in {"free", "live", "expired"}
  /\ blob \in BOOLEAN
  /\ present \in SUBSET Docs
  /\ link \in [Docs -> Works]
  /\ dead \in SUBSET Links
  /\ pc \in [Runners -> {"idle", "load", "presence", "verdict", "local", "identify",
                         "links", "try", "landing", "store", "record",
                         "map", "place", "link", "mark", "summarize", "release"}]
  /\ seen \in [Runners -> Rows]
  /\ retry \in [Runners -> BOOLEAN]
  /\ net \in [Runners -> {"none", "used", "counted"}]
  /\ todo \in [Runners -> SUBSET Links]
  /\ flaky \in [Runners -> BOOLEAN]
  /\ got \in [Runners -> Outcomes \cup Works]

NewRow == [state |-> "unresolved", reason |-> None, candidates |-> {}, trials |-> <<>>,
           sha256 |-> FALSE, document |-> None, attempts |-> 0, recent |-> FALSE]

Init ==
  /\ row = NewRow
  /\ lease = "free"
  /\ blob = FALSE
  /\ present = {}
  /\ link = [d \in Docs |-> None]
  /\ dead = {}
  /\ pc = [r \in Runners |-> "idle"]
  /\ seen = [r \in Runners |-> NewRow]
  /\ retry = [r \in Runners |-> FALSE]
  /\ net = [r \in Runners |-> "none"]
  /\ todo = [r \in Runners |-> {}]
  /\ flaky = [r \in Runners |-> FALSE]
  /\ got = [r \in Runners |-> None]

Active(r) == pc[r] # "idle"

-----------------------------------------------------------------------------
(* AcquisitionRepository: what each statement makes of the row.  Of        *)
(* checked_at it matters only how old a verdict is: `recent`.              *)

SetState(w, s)    == [w EXCEPT !.state = s, !.reason = None, !.recent = FALSE]
Unavailable(w, x) == [w EXCEPT !.state = "unavailable", !.reason = x, !.recent = TRUE]
Failure(w)        == [w EXCEPT !.attempts = @ + 1]
Reset(w)          == [SetState(w, "unresolved") EXCEPT
                        !.candidates = {}, !.sha256 = FALSE, !.document = None]

(* push_trial keeps the newest entries.                                    *)
Push(trials, t) ==
  LET all == Append(trials, t)
  IN  SubSeq(all, 1 + (IF Len(all) > MaxTrials THEN Len(all) - MaxTrials ELSE 0), Len(all))

(* Fault for the mutation runs: the statement does not look at the lease.  *)
AnyLease == TRUE

(* The statement of `claim` finds the lease null or past.                  *)
Claimable == lease \in {"free", "expired"}

-----------------------------------------------------------------------------
(* Which candidates stage_download leaves out, and which it tries.         *)

FailedPermanently(w, c) ==
  \E i \in 1..Len(w.trials) :
    /\ w.trials[i] = [url |-> c, permanent |-> TRUE]
    /\ \A j \in (i + 1)..Len(w.trials) : w.trials[j].url # c

Eligible(w, retrying) ==
  {c \in w.candidates : retrying \/ ~FailedPermanently(w, c)}

Planned(w, retrying) ==
  {c \in Eligible(w, retrying) :
     Cardinality({d \in Eligible(w, retrying) : d < c}) < MaxPerRun}

(* The stage that follows in run_claimed once the row has been loaded      *)
(* again, the earlier stages being behind the run; any other state is the  *)
(* run's "unexpected state" error.                                         *)
StageOf(w, stages) ==
  LET of == [unresolved |-> "identify", identifier_found |-> "links",
             link_found |-> "try", downloaded |-> "map",
             mapped |-> "release", unavailable |-> "release"]
  IN  IF of[w.state] \in stages THEN of[w.state] ELSE "release"

Goto(r, from, to) ==
  /\ pc[r] = from
  /\ pc' = [pc EXCEPT ![r] = to]

(* Run r turns to the next of the stages for the row w it has loaded.      *)
Turn(r, from, w, stages) ==
  /\ Goto(r, from, StageOf(w, stages))
  /\ todo' = [todo EXCEPT ![r] = IF StageOf(w, stages) = "try"
                                 THEN Planned(w, retry[r]) ELSE {}]
  /\ flaky' = [flaky EXCEPT ![r] = FALSE]

(* It writes w, loads the row again and turns to the next of the stages.   *)
Proceed(r, from, w, stages) ==
  /\ Turn(r, from, w, stages)
  /\ row' = w
  /\ seen' = [seen EXCEPT ![r] = w]

-----------------------------------------------------------------------------
(* The run.                                                                *)

(* The lease is claimed; while it is live the outcome is Busy and nothing  *)
(* changes.                                                                *)
Claim(r) ==
  /\ Goto(r, "idle", "load")
  /\ Claimable
  /\ row.attempts < MaxAttempts
  /\ lease' = "live"
  /\ \E t \in BOOLEAN : retry' = [retry EXCEPT ![r] = t]
  /\ UNCHANGED <<row, blob, dead, library, seen, net, todo, flaky, got>>

Load(r) ==
  /\ Goto(r, "load", CASE row.state = "mapped" -> "presence"
                       [] row.state = "unavailable" -> "verdict"
                       [] OTHER -> "local")
  /\ seen' = [seen EXCEPT ![r] = row]
  /\ UNCHANGED <<stored, library, retry, net, todo, flaky, got>>

(* Each stage below that ends the run leaves w in the row.                 *)
End(r, from, w) ==
  /\ Goto(r, from, "summarize")
  /\ row' = w
  /\ UNCHANGED <<seen, todo, flaky>>

(* A mapped row whose document is still present is final.                  *)
AlreadyMapped(r) ==
  /\ seen[r].document \in present
  /\ End(r, "presence", row)
  /\ UNCHANGED <<lease, blob, dead, library, retry, net, got>>

MapAgain(r) ==
  LET w == SetState(row, "downloaded")
  IN  /\ seen[r].document \notin present
      /\ Goto(r, "presence", "local")
      /\ row' = w
      /\ seen' = [seen EXCEPT ![r] = w]
      /\ UNCHANGED <<lease, blob, dead, library, retry, net, todo, flaky, got>>

(* A verdict is trusted while it is recent, unless the run retries.        *)
SkipUnavailable(r) ==
  /\ ~retry[r]
  /\ seen[r].recent
  /\ End(r, "verdict", row)
  /\ UNCHANGED <<lease, blob, dead, library, retry, net, got>>

LookAgain(r) ==
  /\ retry[r] \/ ~seen[r].recent
  /\ Goto(r, "verdict", "local")
  /\ row' = Reset(row)
  /\ seen' = [seen EXCEPT ![r] = Reset(row)]
  /\ UNCHANGED <<lease, blob, dead, library, retry, net, todo, flaky, got>>

Local == {d \in present : link[d] = "this"}

AlreadyLocal(r) ==
  /\ \E d \in Local :
       End(r, "local", [SetState(row, "mapped") EXCEPT !.document = d])
  /\ UNCHANGED <<lease, blob, dead, library, retry, net, got>>

NotLocal(r) ==
  /\ Local = {}
  /\ Turn(r, "local", seen[r], {"identify", "links", "try", "map"})
  /\ UNCHANGED <<stored, library, seen, retry, net, got>>

StageIdentifiers(r) ==
  /\ \/ End(r, "identify", Unavailable(row, "no_identifier"))
     \/ Proceed(r, "identify", SetState(row, "identifier_found"), {"links", "try", "map"})
  /\ UNCHANGED <<lease, blob, dead, library, retry, net, got>>

(* The providers offer some links, fail transiently or offer none.  An     *)
(* arXiv identifier alone yields a link without the network.               *)
StageLinks(r) ==
  /\ \/ /\ \E found \in (SUBSET Links) \ {{}} :
             Proceed(r, "links", [SetState(row, "link_found") EXCEPT !.candidates = found],
                     {"try", "map"})
        /\ \E use \in {net[r], "used"} : net' = [net EXCEPT ![r] = use]
     \/ /\ End(r, "links", Failure(row))
        /\ net' = [net EXCEPT ![r] = "counted"]
     \/ /\ End(r, "links", Unavailable(row, "no_oa_location"))
        /\ net' = [net EXCEPT ![r] = "used"]
  /\ UNCHANGED <<lease, blob, dead, library, retry, got>>

-----------------------------------------------------------------------------
(* stage_download, one candidate at a time.                                *)

Log(url, o) ==
  LET failed == o = "permanent"
  IN  /\ row' = [row EXCEPT !.trials = Push(@, [url |-> url, permanent |-> failed])]
      /\ dead' = IF failed /\ url \in Links THEN dead \cup {url} ELSE dead \ {url}

(* The candidate whose turn it is.                                         *)
First(r, c) == c \in todo[r] /\ \A d \in todo[r] : c <= d

(* The attempt on candidate c has ended as o.                              *)
Settle(r, from, c, o) ==
  /\ Goto(r, from, IF o = "pdf" THEN "store" ELSE "try")
  /\ Log(c, o)
  /\ todo' = [todo EXCEPT ![r] = IF o = "pdf" THEN {} ELSE @ \ {c}]
  /\ flaky' = [flaky EXCEPT ![r] = o # "pdf" /\ (@ \/ o = "transient")]

(* The candidate answers itself: a PDF, a failure, or a page without a     *)
(* link to follow, which fails too.                                        *)
TryCandidate(r) ==
  /\ \E c \in Links, o \in Outcomes : First(r, c) /\ Settle(r, "try", c, o)
  /\ net' = [net EXCEPT ![r] = "used"]
  /\ UNCHANGED <<lease, blob, library, seen, retry, got>>

(* It is a landing page whose link, to another address, is fetched first.  *)
FollowLanding(r) ==
  /\ todo[r] # {}
  /\ Goto(r, "try", "landing")
  /\ \E o \in Outcomes, url \in Links \cup {Page} :
       /\ ~First(r, url)
       /\ Log(url, o)
       /\ got' = [got EXCEPT ![r] = o]
  /\ net' = [net EXCEPT ![r] = "used"]
  /\ UNCHANGED <<lease, blob, library, seen, retry, todo, flaky>>

LogLanding(r) ==
  /\ \E c \in Links : First(r, c) /\ Settle(r, "landing", c, got[r])
  /\ got' = [got EXCEPT ![r] = None]
  /\ UNCHANGED <<lease, blob, library, seen, retry, net>>

(* Fault for the mutation runs: candidates beyond the limit are forgotten. *)
NoneUntried(r) == FALSE

(* Candidates beyond the limit of this run.                                *)
Untried(r) == Eligible(seen[r], retry[r]) # Planned(seen[r], retry[r])

(* No candidate of this run is left: a transient failure or a candidate    *)
(* beyond the limit leaves the row for a later run.                        *)
StayPending(r) ==
  /\ todo[r] = {}
  /\ flaky[r] \/ Untried(r)
  /\ End(r, "try", Failure(row))
  /\ net' = [net EXCEPT ![r] = "counted"]
  /\ UNCHANGED <<lease, blob, dead, library, retry, got>>

AllLinksFailed(r) ==
  /\ todo[r] = {}
  /\ ~flaky[r]
  /\ ~Untried(r)
  /\ End(r, "try", Unavailable(row, "all_links_failed"))
  /\ UNCHANGED <<lease, blob, dead, library, retry, net, got>>

(* save_download: the blob is in place before the row names it.            *)
StoreBlob(r) ==
  /\ Goto(r, "store", "record")
  /\ blob' = TRUE
  /\ UNCHANGED <<row, lease, dead, library, seen, retry, net, todo, flaky, got>>

RecordDownload(r) ==
  /\ Proceed(r, "record", [SetState(row, "downloaded") EXCEPT !.sha256 = TRUE], {"map"})
  /\ UNCHANGED <<lease, blob, dead, library, retry, net, got>>

-----------------------------------------------------------------------------
(* stage_map.                                                              *)

(* Fault for the mutation runs: the sizes are compared wrongly.           *)
SizeDiffers(r) == FALSE

BlobOk(r) == seen[r].sha256 /\ blob

(* Without a download and links to retry the row starts over.              *)
BlobMissing(r) ==
  /\ ~BlobOk(r)
  /\ End(r, "map", IF ~seen[r].sha256 \/ seen[r].candidates = {}
                   THEN Reset(row) ELSE SetState(row, "link_found"))
  /\ UNCHANGED <<lease, blob, dead, library, retry, net, got>>

BlobFound(r) ==
  /\ BlobOk(r)
  /\ Goto(r, "map", "place")
  /\ UNCHANGED <<stored, library, seen, retry, net, todo, flaky, got>>

(* A document with these bytes is taken as it is; else the blob is copied  *)
(* into the library and registered, which keeps a document's link.         *)
PlaceCopy(r) ==
  /\ Goto(r, "place", "link")
  /\ "fetched" \in present \/ blob
  /\ present' = present \cup {"fetched"}
  /\ got' = [got EXCEPT ![r] = link["fetched"]]
  /\ UNCHANGED <<stored, link, seen, retry, net, todo, flaky>>

LinkDocument(r) ==
  /\ Goto(r, "link", "mark")
  /\ link' = IF got[r] = None THEN [link EXCEPT !["fetched"] = "this"] ELSE link
  /\ got' = [got EXCEPT ![r] = None]
  /\ UNCHANGED <<stored, present, seen, retry, net, todo, flaky>>

MarkMapped(r) ==
  /\ End(r, "mark", [SetState(row, "mapped") EXCEPT !.document = "fetched"])
  /\ UNCHANGED <<lease, blob, dead, library, retry, net, got>>

-----------------------------------------------------------------------------
(* The end of a run.                                                       *)

(* An attempt is counted for a run that used the network, unless the       *)
(* failure it recorded has counted it.                                     *)
Bumped(r) == IF net[r] = "used" THEN [row EXCEPT !.attempts = @ + 1] ELSE row

Summarize(r) ==
  /\ Goto(r, "summarize", "release")
  /\ row' = Bumped(r)
  /\ UNCHANGED <<lease, blob, dead, library, seen, retry, net, todo, flaky, got>>

(* A database or I/O error at any step; the lease is still released.       *)
Fail(r) ==
  /\ pc[r] \notin {"idle", "release"}
  /\ pc' = [pc EXCEPT ![r] = "release"]
  /\ UNCHANGED <<stored, library, seen, retry, net, todo, flaky, got>>

Leave(r) ==
  /\ pc' = [pc EXCEPT ![r] = "idle"]
  /\ seen' = [seen EXCEPT ![r] = NewRow]
  /\ retry' = [retry EXCEPT ![r] = FALSE]
  /\ net' = [net EXCEPT ![r] = "none"]
  /\ todo' = [todo EXCEPT ![r] = {}]
  /\ flaky' = [flaky EXCEPT ![r] = FALSE]
  /\ got' = [got EXCEPT ![r] = None]
  /\ UNCHANGED <<row, blob, dead, library>>

(* The statement does not ask whose lease it is; its failure is logged.    *)
Release(r) ==
  /\ pc[r] = "release"
  /\ Leave(r)
  /\ lease' \in {"free", lease}

Crash(r) ==
  /\ Active(r)
  /\ Leave(r)
  /\ UNCHANGED lease

-----------------------------------------------------------------------------
(* The clock, the library and the disk.                                    *)

Expire ==
  /\ lease = "live"
  /\ Timely => \A r \in Runners : ~Active(r)
  /\ lease' = "expired"
  /\ UNCHANGED <<row, blob, dead, library, run>>

(* UNAVAILABLE_RECHECK_DAYS pass.                                          *)
Age ==
  /\ row.recent
  /\ \A r \in Runners : ~Active(r)
  /\ row' = [row EXCEPT !.recent = FALSE]
  /\ UNCHANGED <<lease, blob, dead, library, run>>

(* A scan registers or tombstones a document; another job links it.        *)
Scan(d) ==
  /\ present' = IF d \in present THEN present \ {d} ELSE present \cup {d}
  /\ UNCHANGED <<stored, link, run>>

Match(d) ==
  /\ d \in present
  /\ link[d] = None
  /\ \E w \in Works \ {None} : link' = [link EXCEPT ![d] = w]
  /\ UNCHANGED <<stored, present, run>>

LoseBlob ==
  /\ blob
  /\ blob' = FALSE
  /\ UNCHANGED <<row, lease, dead, library, run>>

Step(r) ==
  \/ Load(r) \/ AlreadyMapped(r) \/ MapAgain(r) \/ SkipUnavailable(r) \/ LookAgain(r)
  \/ AlreadyLocal(r) \/ NotLocal(r) \/ StageIdentifiers(r) \/ StageLinks(r)
  \/ TryCandidate(r) \/ FollowLanding(r) \/ LogLanding(r)
  \/ StayPending(r) \/ AllLinksFailed(r) \/ StoreBlob(r) \/ RecordDownload(r)
  \/ BlobMissing(r) \/ BlobFound(r) \/ PlaceCopy(r) \/ LinkDocument(r) \/ MarkMapped(r)
  \/ Summarize(r) \/ Fail(r) \/ Release(r)

Next ==
  \/ \E r \in Runners : Claim(r) \/ Step(r) \/ Crash(r)
  \/ Expire \/ Age \/ LoseBlob
  \/ \E d \in Docs : Scan(d) \/ Match(d)

Spec == Init /\ [][Next]_vars

-----------------------------------------------------------------------------
(* Properties.                                                             *)

(* Two runs never work on the Work at the same time: a second concurrent   *)
(* run returns Busy and touches nothing (acquire/mod.rs, run_acquisition). *)
SingleRunner ==
  \A r, q \in Runners : Active(r) /\ Active(q) => r = q

(* The verdict all_links_failed is never a replay of an empty list, and    *)
(* every link of the list failed permanently when it was last tried, by    *)
(* whatever runs, resumed at whatever stages, those trials were made.      *)
NoFalseVerdict ==
  row.reason = "all_links_failed" =>
    row.candidates # {} /\ row.candidates \subseteq dead

(* A run that comes to its summary leaves exactly one attempt counted if   *)
(* it used the network and none otherwise, whether or not it recorded a    *)
(* failure, which counts itself.                                           *)
CountedOnce ==
  \A r \in Runners : pc[r] = "summarize" =>
    Bumped(r).attempts = seen[r].attempts + (IF net[r] = "none" THEN 0 ELSE 1)

(* What a row says of the Work is what was tried: its verdict and its       *)
(* number of attempts.                                                      *)
RowTrue == NoFalseVerdict /\ CountedOnce

(* A row that reached its download goes back to earlier stages only when   *)
(* no stored copy backs it: retries, crashes and removed documents never   *)
(* throw a finished download away.                                         *)
DownloadKept ==
  [][row.state \in {"downloaded", "mapped"} /\ row'.state \notin {"downloaded", "mapped"}
       => ~(row.sha256 /\ blob)]_vars
=============================================================================
