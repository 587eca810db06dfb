--------------------------- MODULE CitationGraph ---------------------------
(* Fetching the citation graph of a paper: requests of the reader ask       *)
(* several providers for references and citing works, page by page, through *)
(* one client that spaces the requests to each provider and keeps away from *)
(* it while it cools down; each job ends in a report of what was found.     *)
EXTENDS Naturals, Sequences

CONSTANTS
  Fetches,    \* the requests the server handles at the same time
  Jobs,       \* the pairs of a provider and a direction
  Providers,
  Source,     \* Source[j]: the provider of job j
  Shape,      \* Shape[j]: how it answers: see Shapes
  Entries,    \* Entries[j]: how many entries its list has, None without a list
  Asked,      \* the sequences of jobs a request asks for, without repetition
  Limits,     \* the edge limits a request asks for, per job
  PerPage,    \* the most entries asked for at once
  PageMax,    \* the most pages asked for
  Gap,        \* the spacing of requests to one provider, in ticks
  RetryAfter, \* the cooldowns a provider may answer with, in ticks
  None

(* Citing works of OpenAlex come by cursor, those of Semantic Scholar by    *)
(* offset; references of OpenAlex are a list whose metadata is fetched in   *)
(* batches; OpenCitations and Crossref answer once, and Crossref refuses to *)
(* name citing works.                                                       *)
Shapes == {"cursor", "offset", "batched", "index", "deposit", "refused"}

ASSUME GraphAssumption ==
  /\ Source \in [Jobs -> Providers] /\ Shape \in [Jobs -> Shapes]
  /\ Entries \in [Jobs -> Nat \cup {None}]
  /\ \A j \in Jobs : Entries[j] = None => Shape[j] \in {"deposit", "refused"}
  /\ Asked \subseteq Seq(Jobs) /\ Limits \subseteq Nat \ {0}
  /\ PerPage \in Nat \ {0} /\ PageMax \in Nat \ {0} /\ Gap \in Nat \ {0}
  /\ RetryAfter \subseteq Nat /\ None \notin Nat

VARIABLES
  fetch,        \* what each request is doing
  line,         \* who holds the mutex of each provider's slot, then who waits
  next_request, \* the ticks until each provider's slot
  seen          \* what each provider sees: the ticks since the last request,
                \* and what is left of the cooldown it answered with

vars == <<fetch, line, next_request, seen>>

Least(a, b) == IF a < b THEN a ELSE b

Idle == [pc |-> "idle"]

At(f, pc) == fetch[f].pc = pc
Job(f) == Head(fetch[f].left)
Slot(f) == Source[Job(f)]

Become(f, c) == fetch' = [fetch EXCEPT ![f] = c]
Goto(f, pc) == fetch' = [fetch EXCEPT ![f].pc = pc]

(* A line that f leaves: nobody is in it twice.                             *)
Minus(s, f) ==
  IF \A i \in 1 .. Len(s) : s[i] # f THEN s
  ELSE LET at == CHOOSE i \in 1 .. Len(s) : s[i] = f IN
       [i \in 1 .. Len(s) - 1 |-> IF i < at THEN s[i] ELSE s[i + 1]]

Without(f) == [p \in Providers |-> Minus(line[p], f)]

-----------------------------------------------------------------------------
Init ==
  /\ fetch = [f \in Fetches |-> Idle]
  /\ line = [p \in Providers |-> <<>>]
  /\ next_request = [p \in Providers |-> 0]
  /\ seen = [p \in Providers |-> [since |-> Gap, pause |-> None]]

(* A cooldown that ended as long ago as the spacing needs no memory.        *)
Passing(s) ==
  [since |-> Least(Gap, s.since + 1),
   pause |-> CASE s.pause = None  -> None
               [] s.pause = 0     -> IF s.since >= Gap - 1 THEN None ELSE 0
               [] OTHER           -> s.pause - 1]

Tick ==
  /\ next_request' = [p \in Providers |-> IF next_request[p] = 0 THEN 0 ELSE next_request[p] - 1]
  /\ seen' = [p \in Providers |-> Passing(seen[p])]
  /\ UNCHANGED <<fetch, line>>

Post(f) ==
  /\ At(f, "idle")
  /\ \E left \in Asked, limit \in Limits :
       Become(f, [pc |-> "ask", left |-> left, limit |-> limit, at |-> "lookup",
                  edges |-> 0, pages |-> 0, reports |-> <<>>])
  /\ UNCHANGED <<line, next_request, seen>>

(* The request with its job reported on, and the next one before it.        *)
Reported(c, coverage, failed) ==
  [c EXCEPT !.pc = "ask", !.left = Tail(@), !.at = "lookup", !.edges = 0, !.pages = 0,
            !.reports = Append(@, [job |-> Head(c.left), edges |-> c.edges, pages |-> c.pages,
                                   limit |-> c.limit, coverage |-> coverage,
                                   failed |-> failed])]

(* fail: what was retrieved before stays in the report.                     *)
Fails(c) == Reported(c, IF c.edges = 0 THEN "unavailable" ELSE "partial", TRUE)

-----------------------------------------------------------------------------
(* GraphHttp: one request at a time has the slot of its provider, until it  *)
(* is answered; who waits is served in order.                               *)
Ask(f) ==
  /\ At(f, "ask") /\ fetch[f].left # <<>>
  /\ IF Shape[Job(f)] = "refused"
     THEN Become(f, Fails(fetch[f])) /\ UNCHANGED line
     ELSE Goto(f, "line") /\ line' = [line EXCEPT ![Slot(f)] = Append(@, f)]
  /\ UNCHANGED <<next_request, seen>>

(* A long cooldown fails the request at once, a short one is waited for.    *)
Enter(f) ==
  /\ At(f, "line") /\ Head(line[Slot(f)]) = f
  /\ IF next_request[Slot(f)] > Gap
     THEN Become(f, Fails(fetch[f])) /\ line' = Without(f)
     ELSE Goto(f, "sleep") /\ UNCHANGED line
  /\ UNCHANGED <<next_request, seen>>

(* Fault for the mutation runs: the mutex is given up with the request on   *)
(* its way.                                                                 *)
SendUnguarded(f) ==
  /\ At(f, "sleep") /\ next_request[Slot(f)] = 0
  /\ Goto(f, "sent") /\ line' = Without(f)
  /\ next_request' = [next_request EXCEPT ![Slot(f)] = Gap]
  /\ seen' = [seen EXCEPT ![Slot(f)] = [since |-> 0, pause |-> None]]

Send(f) ==
  /\ At(f, "sleep") /\ next_request[Slot(f)] = 0
  /\ Goto(f, "sent")
  /\ next_request' = [next_request EXCEPT ![Slot(f)] = Gap]
  /\ seen' = [seen EXCEPT ![Slot(f)] = [since |-> 0, pause |-> None]]
  /\ UNCHANGED <<line>>

(* The answer: none, or not in time; a status, with a Retry-After or        *)
(* without; or success, and the body is read after the mutex is given up.   *)
Answer(f) ==
  /\ At(f, "sent") /\ line' = Without(f)
  /\ \/ /\ Become(f, Fails(fetch[f]))
        /\ UNCHANGED <<next_request, seen>>
     \/ \E s \in RetryAfter :
          /\ Become(f, Fails(fetch[f]))
          /\ next_request' = [next_request EXCEPT ![Slot(f)] = s]
          /\ seen' = [seen EXCEPT ![Slot(f)].pause = s]
     \/ Goto(f, "body") /\ UNCHANGED <<next_request, seen>>

-----------------------------------------------------------------------------
(* The entries that the answer under way can add.                           *)
Room(c) ==
  LET j == Head(c.left) IN
  IF c.at = "lookup"
  THEN IF Shape[j] \in {"cursor", "offset"} \/ Entries[j] = None THEN 0
       ELSE Least(c.limit, Entries[j])
  ELSE IF Shape[j] = "batched" THEN 0
       ELSE Least(PerPage, Least(c.limit, Entries[j]) - c.edges)

(* The body breaks off, is no JSON, or has an entry that makes no sense,    *)
(* after some that do; publishers' entries always make sense.               *)
Malformed(f) ==
  /\ At(f, "body")
  /\ \E k \in 0 .. Room(fetch[f]) :
       /\ Shape[Job(f)] = "deposit" => k = 0
       /\ Become(f, Fails([fetch[f] EXCEPT !.edges = @ + k]))
  /\ UNCHANGED <<line, next_request, seen>>

(* The first answer: the target, and with it the list where it is not       *)
(* paged; without a list there is a failure, which an empty list is not.    *)
Listed(c) == IF Entries[Head(c.left)] > c.limit THEN "capped" ELSE "complete"

ReadFirst(f) ==
  /\ At(f, "body") /\ fetch[f].at = "lookup"
  /\ LET c == [fetch[f] EXCEPT !.edges = Room(fetch[f])]
         j == Job(f) IN
       Become(f, CASE Shape[j] \in {"cursor", "offset"} -> [c EXCEPT !.pc = "ask", !.at = "list"]
                   [] Shape[j] = "batched" /\ c.edges > 0 -> [c EXCEPT !.pc = "ask", !.at = "list"]
                   [] Entries[j] = None -> Fails(c)
                   [] OTHER -> Reported(c, Listed(c), FALSE))
  /\ UNCHANGED <<line, next_request, seen>>

(* A batch of metadata; it adds nothing to the list.                        *)
ReadBatch(f) ==
  /\ At(f, "body") /\ fetch[f].at = "list" /\ Shape[Job(f)] = "batched"
  /\ LET c == [fetch[f] EXCEPT !.pages = @ + 1] IN
       Become(f, IF c.pages * PerPage >= c.edges THEN Reported(c, Listed(c), FALSE)
                 ELSE [c EXCEPT !.pc = "ask"])
  /\ UNCHANGED <<line, next_request, seen>>

(* Fault for the mutation runs: there is no last page.                      *)
GoOnForEver(c, more) ==
  IF c.edges >= c.limit THEN Reported(c, "capped", FALSE)
  ELSE IF more = "same" THEN Fails(c)
  ELSE [c EXCEPT !.pc = "ask", !.pages = Least(@, PageMax - 1)]

(* The next page is asked for unless the limit, or the last page that may   *)
(* be asked for, is reached.                                                *)
GoOn(c, more) ==
  IF c.edges >= c.limit THEN Reported(c, "capped", FALSE)
  ELSE IF more = "same" THEN Fails(c)
  ELSE IF c.pages = PageMax THEN Reported(c, "capped", FALSE)
  ELSE [c EXCEPT !.pc = "ask"]

(* Fault for the mutation runs: the end is believed, whatever the count.    *)
ByCursorUncounted(c, empty, more) ==
  IF empty \/ more = None \/ c.edges = Entries[Head(c.left)] THEN Reported(c, "complete", FALSE)
  ELSE GoOn(c, more)

(* A page adds k entries; the others are repetitions, or there are none:    *)
(* the cursor it names may be none, the same or another.                    *)
ByCursor(c, empty, more) ==
  IF (empty \/ more = None) /\ c.edges < Entries[Head(c.left)] THEN Fails(c)
  ELSE IF empty \/ more = None \/ c.edges = Entries[Head(c.left)] THEN Reported(c, "complete", FALSE)
  ELSE GoOn(c, more)

(* By offset, the end is where no further offset is named.                  *)
ByOffset(c, empty, more) ==
  IF empty /\ more # None THEN Fails(c)
  ELSE IF more = None THEN Reported(c, "complete", FALSE)
  ELSE GoOn(c, more)

(* What is assumed of the providers: a page has no more entries than asked  *)
(* for; the count of OpenAlex is right; Semantic Scholar repeats nothing,   *)
(* and names no further offset at the end of its list and only there.       *)
ReadPage(f) ==
  /\ At(f, "body") /\ fetch[f].at = "list" /\ Shape[Job(f)] # "batched"
  /\ \E k \in 0 .. Room(fetch[f]), empty \in BOOLEAN, more \in {None, "same", "other"} :
       LET c == [fetch[f] EXCEPT !.edges = @ + k, !.pages = @ + 1] IN
       /\ empty => k = 0
       /\ IF Shape[Job(f)] = "cursor" THEN Become(f, ByCursor(c, empty, more))
          ELSE /\ empty = (k = 0)
               /\ more = None <=> c.edges = Entries[Job(f)]
               /\ Become(f, ByOffset(c, empty, more))
  /\ UNCHANGED <<line, next_request, seen>>

-----------------------------------------------------------------------------
(* The reports replace the snapshot of the paper, or cannot be written; no  *)
(* request reads it.                                                        *)
Save(f) ==
  /\ At(f, "ask") /\ fetch[f].left = <<>>
  /\ Become(f, Idle)
  /\ UNCHANGED <<line, next_request, seen>>

(* The client goes away: the handler is dropped, with the mutex or its      *)
(* place in the line.                                                       *)
Leave(f) ==
  /\ ~At(f, "idle")
  /\ Become(f, Idle) /\ line' = Without(f)
  /\ UNCHANGED <<next_request, seen>>

Progress(f) ==
  \/ Ask(f) \/ Enter(f) \/ Send(f) \/ Answer(f) \/ Malformed(f)
  \/ ReadFirst(f) \/ ReadBatch(f) \/ ReadPage(f) \/ Save(f)

Next == Tick \/ \E f \in Fetches : Post(f) \/ Progress(f) \/ Leave(f)

Spec == Init /\ [][Next]_vars

(* Time passes, and a request whose client stays goes on: answers come, or  *)
(* the client's timeout does.                                               *)
Fairness == WF_vars(Tick) /\ \A f \in Fetches : WF_vars(Progress(f))

FairSpec == Spec /\ Fairness

-----------------------------------------------------------------------------
TypeOK ==
  /\ \A f \in Fetches : fetch[f] # Idle =>
       /\ fetch[f].pc \in {"ask", "line", "sleep", "sent", "body"}
       /\ fetch[f].left \in Seq(Jobs) /\ fetch[f].limit \in Limits
       /\ fetch[f].at \in {"lookup", "list"}
       /\ fetch[f].edges \in 0 .. fetch[f].limit /\ fetch[f].pages \in Nat
  /\ line \in [Providers -> Seq(Fetches)]
  /\ next_request \in [Providers -> Nat]
  /\ seen \in [Providers -> [since : 0 .. Gap, pause : Nat \cup {None}]]

(* No provider gets a request while another of this server is unanswered,   *)
(* nor within the spacing of two requests, nor before the end of a cooldown *)
(* it answered with, whoever asks, waits, fails or goes away in between.    *)
(* The cooldown answered takes the place of the spacing.                    *)
Sends(f) == At(f, "sleep") /\ fetch'[f].pc = "sent"

Polite ==
  [][\A f \in Fetches : Sends(f) =>
       LET p == Slot(f) IN
       /\ \A g \in Fetches : At(g, "sent") => Slot(g) # p
       /\ IF seen[p].pause = None THEN seen[p].since = Gap ELSE seen[p].pause = 0
    ]_vars

(* docs/citation-graph-sources.md gives each provider a spacing of 1.1      *)
(* seconds, which a Retry-After of zero or of a date in the past undercuts. *)
Spaced == [][\A f \in Fetches : Sends(f) => seen[Slot(f)].since = Gap]_vars

(* A report says what it is: complete has the provider's whole list, capped *)
(* stopped at a limit before its end, and where a request failed, with some *)
(* of the list or with nothing, the report says so and keeps what it had.   *)
Honest(r) ==
  /\ r.failed <=> r.coverage \in {"partial", "unavailable"}
  /\ r.coverage = "unavailable" <=> r.failed /\ r.edges = 0
  /\ r.coverage = "complete" => r.edges = Entries[r.job]
  /\ r.coverage = "capped" => /\ r.edges < Entries[r.job]
                              /\ r.edges = r.limit \/ r.pages = PageMax

CoverageTrue ==
  \A f \in Fetches : ~At(f, "idle") =>
    \A i \in DOMAIN fetch[f].reports : Honest(fetch[f].reports[i])

(* Every request is answered, or its client goes away: not kept for ever by *)
(* a cooldown, by those before it in line, or by a list without an end.     *)
FetchEnds == \A f \in Fetches : ~At(f, "idle") ~> At(f, "idle")
=============================================================================
