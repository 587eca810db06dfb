------------------------ MODULE CitationGraphProofs ------------------------
(***************************************************************************)
(* Proofs about CitationGraph for any providers, lists, limits, pages,     *)
(* spacing, cooldowns and number of requests.                              *)
(***************************************************************************)
EXTENDS CitationGraph, TLAPS

Steps == {"ask", "line", "sleep", "sent", "body"}
Coverages == {"complete", "capped", "partial", "unavailable"}
InLine == {"line", "sleep", "sent"}
Served == {"sleep", "sent"}

(* What a report may be: its fields, and that it says what it is.          *)
Reports ==
  {r \in [job : Jobs, edges : Nat, pages : Nat, limit : Limits,
          coverage : Coverages, failed : BOOLEAN] : Honest(r)}

Records ==
  [pc : Steps, left : Seq(Jobs), limit : Limits, at : {"lookup", "list"},
   edges : Nat, pages : Nat, reports : Seq(Reports)]

(* A list that is read in parts is one that has entries: those found are   *)
(* some of them and no more than the limit, and of a list fetched in       *)
(* batches as many as there can be.                                        *)
Counted(c) ==
  LET j == Head(c.left) IN
  /\ c.left # <<>> /\ j \in Jobs
  /\ Shape[j] \in {"cursor", "offset", "batched"} /\ Entries[j] \in Nat
  /\ c.edges <= c.limit /\ c.edges <= Entries[j]
  /\ Shape[j] = "batched" => c.edges = Least(c.limit, Entries[j])

Sound(c) ==
  /\ c.pc # "ask" => c.left # <<>>
  /\ c.at = "lookup" => c.edges = 0
  /\ c.at = "list" => Counted(c)

Calls == {c \in Records : Sound(c)}
Asking == {c \in Calls : c.pc = "ask"}

TypeInv ==
  /\ fetch \in [Fetches -> {Idle} \cup Calls]
  /\ line \in [Providers -> Seq(Fetches)]
  /\ next_request \in [Providers -> Nat]
  /\ seen \in [Providers -> [since : 0 .. Gap, pause : Nat \cup {None}]]

-----------------------------------------------------------------------------
(* What becomes of a request.                                              *)

LEMMA LimitsPositive == \A l \in Limits : l \in Nat /\ l > 0
BY GraphAssumption

LEMMA NotIdle == \A c \in Records : c # Idle /\ c.pc # "idle"
BY DEF Records, Idle, Steps

LEMMA HeadJob ==
  ASSUME NEW c \in Records, c.left # <<>>
  PROVE  /\ Head(c.left) \in Jobs /\ Tail(c.left) \in Seq(Jobs)
         /\ Source[Head(c.left)] \in Providers
BY GraphAssumption DEF Records

LEMMA ReportedCall ==
  ASSUME NEW c \in Records, c.left # <<>>,
         NEW coverage \in Coverages, NEW failed \in BOOLEAN,
         Honest([job |-> Head(c.left), edges |-> c.edges, pages |-> c.pages,
                 limit |-> c.limit, coverage |-> coverage, failed |-> failed])
  PROVE  Reported(c, coverage, failed) \in Asking
<1> DEFINE r == [job |-> Head(c.left), edges |-> c.edges, pages |-> c.pages,
                 limit |-> c.limit, coverage |-> coverage, failed |-> failed]
<1>1. r \in Reports
  BY HeadJob DEF Reports, Records
<1>2. Append(c.reports, r) \in Seq(Reports)
  BY <1>1 DEF Records
<1>3. Reported(c, coverage, failed) =
        [c EXCEPT !.pc = "ask", !.left = Tail(c.left), !.at = "lookup", !.edges = 0,
                  !.pages = 0, !.reports = Append(c.reports, r)]
  BY DEF Reported, Records
<1>4. ASSUME NEW rs \in Seq(Reports), NEW t \in Seq(Jobs)
      PROVE  [c EXCEPT !.pc = "ask", !.left = t, !.at = "lookup", !.edges = 0,
                       !.pages = 0, !.reports = rs] \in Asking
  BY DEF Asking, Calls, Records, Sound, Steps
<1> QED
  BY <1>2, <1>3, <1>4, HeadJob

LEMMA FailsCall ==
  ASSUME NEW c \in Records, c.left # <<>>
  PROVE  Fails(c) \in Asking
<1>1. c.edges \in Nat
  BY DEF Records
<1>2. CASE c.edges = 0
  BY <1>2, ReportedCall DEF Fails, Honest, Coverages
<1>3. CASE c.edges # 0
  BY <1>3, ReportedCall DEF Fails, Honest, Coverages
<1> QED
  BY <1>2, <1>3

(* The list was read to its end, or to the limit.                          *)
LEMMA ListedCall ==
  ASSUME NEW c \in Records, c.left # <<>>, Entries[Head(c.left)] \in Nat,
         c.edges = Least(c.limit, Entries[Head(c.left)])
  PROVE  Reported(c, Listed(c), FALSE) \in Asking
<1>1. c.limit \in Nat /\ c.limit > 0
  BY LimitsPositive DEF Records
<1>2. CASE Entries[Head(c.left)] > c.limit
  <2>1. c.edges = c.limit /\ c.edges < Entries[Head(c.left)]
    BY <1>1, <1>2 DEF Least
  <2> QED
    BY <1>2, <2>1, ReportedCall DEF Listed, Honest, Coverages
<1>3. CASE ~(Entries[Head(c.left)] > c.limit)
  <2>1. c.edges = Entries[Head(c.left)]
    BY <1>1, <1>3 DEF Least
  <2> QED
    BY <1>3, <2>1, ReportedCall DEF Listed, Honest, Coverages
<1> QED
  BY <1>2, <1>3

(* A page of a list that has more entries than were found.                 *)
LEMMA GoOnCall ==
  ASSUME NEW c \in Records, c.at = "list", Counted(c), NEW more,
         c.edges # Entries[Head(c.left)]
  PROVE  GoOn(c, more) \in Asking
<1>1. /\ c.left # <<>> /\ c.limit \in Nat /\ c.edges \in Nat
      /\ Entries[Head(c.left)] \in Nat
      /\ c.edges <= c.limit /\ c.edges < Entries[Head(c.left)]
  BY LimitsPositive DEF Counted, Records
<1>2. CASE c.edges >= c.limit
  <2>1. c.edges = c.limit
    BY <1>1, <1>2
  <2> QED
    BY <1>1, <1>2, <2>1, ReportedCall DEF GoOn, Honest, Coverages
<1>3. CASE ~(c.edges >= c.limit) /\ more = "same"
  BY <1>1, <1>3, FailsCall DEF GoOn
<1>4. CASE ~(c.edges >= c.limit) /\ more # "same" /\ c.pages = PageMax
  BY <1>1, <1>4, ReportedCall DEF GoOn, Honest, Coverages
<1>5. CASE ~(c.edges >= c.limit) /\ more # "same" /\ c.pages # PageMax
  <2>1. GoOn(c, more) = [c EXCEPT !.pc = "ask"]
    BY <1>5 DEF GoOn
  <2>2. [c EXCEPT !.pc = "ask"] \in Asking
    BY DEF Asking, Calls, Records, Sound, Counted, Steps
  <2> QED
    BY <2>1, <2>2
<1> QED
  BY <1>2, <1>3, <1>4, <1>5

-----------------------------------------------------------------------------
(* The line of a provider.                                                 *)

In(f, s) == \E i \in 1 .. Len(s) : s[i] = f
First(f, s) == Len(s) > 0 /\ s[1] = f

LEMMA MinusFacts ==
  ASSUME NEW s \in Seq(Fetches), NEW f
  PROVE  /\ Minus(s, f) \in Seq(Fetches)
         /\ \A g \in Fetches \ {f} : In(g, s) => In(g, Minus(s, f))
         /\ \A g \in Fetches \ {f} : First(g, s) => First(g, Minus(s, f))
<1>1. CASE \A i \in 1 .. Len(s) : s[i] # f
  BY <1>1 DEF Minus
<1>2. CASE ~(\A i \in 1 .. Len(s) : s[i] # f)
  <2> DEFINE k == CHOOSE i \in 1 .. Len(s) : s[i] = f
             t == [i \in 1 .. Len(s) - 1 |-> IF i < k THEN s[i] ELSE s[i + 1]]
  <2>1. k \in 1 .. Len(s) /\ s[k] = f
    BY <1>2
  <2>2. Minus(s, f) = t
    BY <1>2 DEF Minus
  <2> HIDE DEF k
  <2>3. Len(s) \in Nat /\ Len(s) - 1 \in Nat
    BY <2>1
  <2>4. \A i \in 1 .. Len(s) - 1 : (IF i < k THEN s[i] ELSE s[i + 1]) \in Fetches
    BY <2>1, <2>3
  <2>5. t \in Seq(Fetches) /\ Len(t) = Len(s) - 1
    BY <2>3, <2>4
  <2>6. ASSUME NEW g \in Fetches \ {f}, In(g, s)
        PROVE  In(g, t)
    <3>1. PICK i \in 1 .. Len(s) : s[i] = g
      BY <2>6 DEF In
    <3>2. CASE i < k
      <4>1. i \in 1 .. Len(t) /\ t[i] = g
        BY <2>1, <2>3, <2>5, <3>1, <3>2
      <4> QED
        BY <4>1 DEF In
    <3>3. CASE ~(i < k)
      <4>1. i > k
        BY <2>1, <3>1, <3>3
      <4>2. i - 1 \in 1 .. Len(t) /\ t[i - 1] = g
        BY <2>1, <2>3, <2>5, <3>1, <4>1
      <4> QED
        BY <4>2 DEF In
    <3> QED
      BY <3>2, <3>3
  <2>7. ASSUME NEW g \in Fetches \ {f}, First(g, s)
        PROVE  First(g, t)
    <3>1. s[1] # f /\ k > 1
      BY <2>1, <2>7 DEF First
    <3>2. Len(t) > 0 /\ t[1] = s[1]
      BY <2>1, <2>3, <2>5, <3>1
    <3> QED
      BY <2>7, <3>2 DEF First
  <2> QED
    BY <2>2, <2>5, <2>6, <2>7
<1> QED
  BY <1>1, <1>2

LEMMA WithoutType ==
  ASSUME line \in [Providers -> Seq(Fetches)], NEW f
  PROVE  Without(f) \in [Providers -> Seq(Fetches)]
BY MinusFacts DEF Without

(* What of a request the line depends on.                                  *)
Queued ==
  \A f \in Fetches : fetch[f].pc \in InLine => In(f, line[Slot(f)])

Heads ==
  \A f \in Fetches : fetch[f].pc \in Served => First(f, line[Slot(f)])

LineInv == Queued /\ Heads

(* The clock of the code against the clock of the provider.                *)
Timed ==
  \A p \in Providers :
    IF seen[p].pause = None THEN next_request[p] + seen[p].since >= Gap
    ELSE next_request[p] >= seen[p].pause

Inv == TypeInv /\ LineInv /\ Timed

-----------------------------------------------------------------------------
LEMMA InitInv == Init => Inv
<1> SUFFICES ASSUME Init PROVE Inv
  OBVIOUS
<1>1. TypeInv
  BY GraphAssumption DEF Init, TypeInv
<1>2. LineInv
  BY DEF Init, LineInv, Queued, Heads, InLine, Served, Idle
<1>3. Timed
  BY GraphAssumption DEF Init, Timed
<1> QED
  BY <1>1, <1>2, <1>3 DEF Inv

(* A request that is not idle has the fields of one.                       *)
LEMMA BusyCall ==
  ASSUME TypeInv, NEW f \in Fetches, ~At(f, "idle")
  PROVE  /\ fetch[f] \in Calls /\ fetch[f] \in Records /\ Sound(fetch[f])
         /\ fetch[f].pc \in Steps
BY DEF TypeInv, At, Idle, Calls, Records

LEMMA JobOfCall ==
  ASSUME TypeInv, NEW f \in Fetches, ~At(f, "idle"), fetch[f].left # <<>>
  PROVE  /\ Job(f) \in Jobs /\ Slot(f) \in Providers
         /\ Entries[Job(f)] = None => Shape[Job(f)] \in {"deposit", "refused"}
BY BusyCall, HeadJob, GraphAssumption DEF Job, Slot

(* One request becomes something else.                                     *)
LEMMA BecomeType ==
  ASSUME TypeInv, NEW f \in Fetches, NEW c \in {Idle} \cup Calls, Become(f, c),
         line' \in [Providers -> Seq(Fetches)],
         next_request' \in [Providers -> Nat],
         seen' \in [Providers -> [since : 0 .. Gap, pause : Nat \cup {None}]]
  PROVE  TypeInv'
BY DEF TypeInv, Become

LEMMA GotoCall ==
  ASSUME TypeInv, NEW f \in Fetches, ~At(f, "idle"), fetch[f].left # <<>>,
         NEW pc \in Steps, Goto(f, pc)
  PROVE  /\ [fetch[f] EXCEPT !.pc = pc] \in Calls
         /\ Become(f, [fetch[f] EXCEPT !.pc = pc])
<1>1. fetch[f] \in Calls
  BY BusyCall
<1>2. [fetch[f] EXCEPT !.pc = pc] \in Calls
  BY <1>1 DEF Calls, Records, Sound, Counted
<1> QED
  BY <1>2 DEF Goto, Become

-----------------------------------------------------------------------------
(* Each step keeps the types and the counts.                               *)

LEMMA TickType == TypeInv /\ Tick => TypeInv'
<1> SUFFICES ASSUME TypeInv, Tick PROVE TypeInv'
  OBVIOUS
<1>1. next_request' \in [Providers -> Nat]
  BY DEF TypeInv, Tick
<1>2. ASSUME NEW s \in [since : 0 .. Gap, pause : Nat \cup {None}]
      PROVE  Passing(s) \in [since : 0 .. Gap, pause : Nat \cup {None}]
  BY GraphAssumption DEF Passing, Least
<1>3. seen' \in [Providers -> [since : 0 .. Gap, pause : Nat \cup {None}]]
  BY <1>2 DEF TypeInv, Tick
<1> QED
  BY <1>1, <1>3 DEF TypeInv, Tick

LEMMA PostType ==
  ASSUME TypeInv, NEW f \in Fetches, Post(f)
  PROVE  TypeInv'
<1>1. PICK left \in Asked, limit \in Limits :
        Become(f, [pc |-> "ask", left |-> left, limit |-> limit, at |-> "lookup",
                   edges |-> 0, pages |-> 0, reports |-> <<>>])
  BY DEF Post
<1>2. left \in Seq(Jobs)
  BY GraphAssumption
<1>3. [pc |-> "ask", left |-> left, limit |-> limit, at |-> "lookup",
       edges |-> 0, pages |-> 0, reports |-> <<>>] \in Calls
  BY <1>2 DEF Calls, Records, Sound, Steps
<1> QED
  BY <1>1, <1>3, BecomeType DEF Post, TypeInv

(* A step after which the request fails, or goes on with the same fields.  *)
LEMMA FailType ==
  ASSUME TypeInv, NEW f \in Fetches, ~At(f, "idle"), fetch[f].left # <<>>,
         Become(f, Fails(fetch[f])),
         line' \in [Providers -> Seq(Fetches)],
         next_request' \in [Providers -> Nat],
         seen' \in [Providers -> [since : 0 .. Gap, pause : Nat \cup {None}]]
  PROVE  TypeInv'
<1>1. Fails(fetch[f]) \in Calls
  BY BusyCall, FailsCall DEF Asking
<1> QED
  BY <1>1, BecomeType

LEMMA GotoType ==
  ASSUME TypeInv, NEW f \in Fetches, ~At(f, "idle"), fetch[f].left # <<>>,
         NEW pc \in Steps, Goto(f, pc),
         line' \in [Providers -> Seq(Fetches)],
         next_request' \in [Providers -> Nat],
         seen' \in [Providers -> [since : 0 .. Gap, pause : Nat \cup {None}]]
  PROVE  TypeInv'
BY GotoCall, BecomeType

LEMMA AskType ==
  ASSUME TypeInv, NEW f \in Fetches, Ask(f)
  PROVE  TypeInv'
<1>1. ~At(f, "idle") /\ fetch[f].left # <<>>
  BY DEF Ask, At
<1>2. CASE Shape[Job(f)] = "refused"
  BY <1>1, <1>2, FailType DEF Ask, TypeInv
<1>3. CASE Shape[Job(f)] # "refused"
  <2>1. line' \in [Providers -> Seq(Fetches)]
    <3>1. line' = [line EXCEPT ![Slot(f)] = Append(line[Slot(f)], f)]
      BY <1>3 DEF Ask
    <3>2. line \in [Providers -> Seq(Fetches)] /\ Slot(f) \in Providers
      BY <1>1, JobOfCall DEF TypeInv
    <3>3. Append(line[Slot(f)], f) \in Seq(Fetches)
      BY <3>2
    <3> QED
      BY <3>1, <3>2, <3>3
  <2> QED
    BY <1>1, <1>3, <2>1, GotoType DEF Ask, TypeInv, Steps
<1> QED
  BY <1>2, <1>3

(* Who asks a provider has a job.                                          *)
LEMMA Working ==
  ASSUME TypeInv, NEW f \in Fetches, fetch[f].pc \in InLine \cup {"body"}
  PROVE  ~At(f, "idle") /\ fetch[f].left # <<>>
<1>1. ~At(f, "idle")
  BY DEF At, InLine
<1> QED
  BY <1>1, BusyCall DEF Sound, InLine

LEMMA EnterType ==
  ASSUME TypeInv, NEW f \in Fetches, Enter(f)
  PROVE  TypeInv'
<1>1. ~At(f, "idle") /\ fetch[f].left # <<>>
  BY Working DEF Enter, At, InLine
<1>2. CASE next_request[Slot(f)] > Gap
  BY <1>1, <1>2, FailType, WithoutType DEF Enter, TypeInv
<1>3. CASE ~(next_request[Slot(f)] > Gap)
  BY <1>1, <1>3, GotoType DEF Enter, TypeInv, Steps
<1> QED
  BY <1>2, <1>3

LEMMA SendType ==
  ASSUME TypeInv, NEW f \in Fetches, Send(f)
  PROVE  TypeInv'
<1>1. ~At(f, "idle") /\ fetch[f].left # <<>>
  BY Working DEF Send, At, InLine
<1>2. /\ next_request' \in [Providers -> Nat]
      /\ seen' \in [Providers -> [since : 0 .. Gap, pause : Nat \cup {None}]]
  <2>1. Gap \in Nat /\ 0 \in 0 .. Gap
    BY GraphAssumption
  <2>2. [since |-> 0, pause |-> None] \in [since : 0 .. Gap, pause : Nat \cup {None}]
    BY <2>1
  <2>3. /\ next_request' = [next_request EXCEPT ![Slot(f)] = Gap]
        /\ seen' = [seen EXCEPT ![Slot(f)] = [since |-> 0, pause |-> None]]
        /\ next_request \in [Providers -> Nat]
        /\ seen \in [Providers -> [since : 0 .. Gap, pause : Nat \cup {None}]]
    BY DEF Send, TypeInv
  <2> QED
    BY <2>1, <2>2, <2>3
<1> QED
  BY <1>1, <1>2, GotoType DEF Send, TypeInv, Steps

LEMMA AnswerType ==
  ASSUME TypeInv, NEW f \in Fetches, Answer(f)
  PROVE  TypeInv'
<1>1. ~At(f, "idle") /\ fetch[f].left # <<>>
  BY Working DEF Answer, At, InLine
<1>2. line' \in [Providers -> Seq(Fetches)]
  BY WithoutType DEF Answer, TypeInv
<1>3. CASE Become(f, Fails(fetch[f])) /\ UNCHANGED <<next_request, seen>>
  BY <1>1, <1>2, <1>3, FailType DEF TypeInv
<1>4. ASSUME NEW s \in RetryAfter,
             Become(f, Fails(fetch[f])),
             next_request' = [next_request EXCEPT ![Slot(f)] = s],
             seen' = [seen EXCEPT ![Slot(f)].pause = s]
      PROVE  TypeInv'
  <2>1. /\ next_request' \in [Providers -> Nat]
        /\ seen' \in [Providers -> [since : 0 .. Gap, pause : Nat \cup {None}]]
    BY <1>4, GraphAssumption DEF TypeInv
  <2> QED
    BY <1>1, <1>2, <1>4, <2>1, FailType
<1>5. CASE Goto(f, "body") /\ UNCHANGED <<next_request, seen>>
  BY <1>1, <1>2, <1>5, GotoType DEF TypeInv, Steps
<1> QED
  BY <1>3, <1>4, <1>5 DEF Answer

(* Reading answers.                                                        *)

LEMMA RoomFacts ==
  ASSUME NEW c \in Calls, c.left # <<>>
  PROVE  /\ Room(c) \in Nat
         /\ c.at = "lookup" /\ Room(c) > 0 =>
              /\ Entries[Head(c.left)] \in Nat
              /\ Room(c) = Least(c.limit, Entries[Head(c.left)])
              /\ Shape[Head(c.left)] \notin {"cursor", "offset"}
         /\ c.at = "list" =>
              /\ c.edges + Room(c) <= c.limit
              /\ c.edges + Room(c) <= Entries[Head(c.left)]
<1> DEFINE j == Head(c.left)
<1>1. /\ j \in Jobs /\ Entries[j] \in Nat \cup {None} /\ None \notin Nat
      /\ PerPage \in Nat
  BY HeadJob, GraphAssumption DEF Calls
<1>2. c.limit \in Nat /\ c.edges \in Nat /\ c.at \in {"lookup", "list"}
  BY LimitsPositive DEF Calls, Records
<1>3. CASE c.at = "lookup"
  BY <1>1, <1>2, <1>3 DEF Room, Least
<1>4. CASE c.at = "list"
  <2>1. /\ Entries[j] \in Nat /\ c.edges <= c.limit /\ c.edges <= Entries[j]
    BY <1>4 DEF Calls, Sound, Counted
  <2>2. CASE Shape[j] = "batched"
    BY <1>2, <1>4, <2>1, <2>2 DEF Room
  <2>3. CASE Shape[j] # "batched"
    <3> DEFINE rest == Least(c.limit, Entries[j]) - c.edges
    <3>1. rest \in Nat /\ c.edges + rest <= c.limit /\ c.edges + rest <= Entries[j]
      BY <1>2, <2>1 DEF Least
    <3>2. Room(c) = Least(PerPage, rest)
      BY <1>4, <2>3 DEF Room
    <3> HIDE DEF rest
    <3> QED
      BY <1>1, <1>2, <1>4, <2>1, <3>1, <3>2 DEF Least
  <2> QED
    BY <2>2, <2>3
<1> QED
  BY <1>2, <1>3, <1>4

LEMMA MalformedAsks ==
  ASSUME TypeInv, NEW f \in Fetches, Malformed(f)
  PROVE  \E c \in Asking : Become(f, c)
<1>1. ~At(f, "idle") /\ fetch[f].left # <<>>
  BY Working DEF Malformed, At, InLine
<1>2. PICK k \in 0 .. Room(fetch[f]) : Become(f, Fails([fetch[f] EXCEPT !.edges = @ + k]))
  BY DEF Malformed
<1>3. fetch[f] \in Calls /\ fetch[f] \in Records /\ k \in Nat
  BY <1>1, BusyCall, RoomFacts
<1>4. [fetch[f] EXCEPT !.edges = @ + k] \in Records
      /\ [fetch[f] EXCEPT !.edges = @ + k].left # <<>>
  BY <1>1, <1>3 DEF Records
<1>5. Fails([fetch[f] EXCEPT !.edges = @ + k]) \in Asking
  BY <1>4, FailsCall
<1> QED
  BY <1>2, <1>5

LEMMA ReadFirstAsks ==
  ASSUME TypeInv, NEW f \in Fetches, ReadFirst(f)
  PROVE  \E c \in Asking : Become(f, c)
<1> DEFINE n == Room(fetch[f])
           c == [fetch[f] EXCEPT !.edges = n]
           j == Job(f)
<1>1. ~At(f, "idle") /\ fetch[f].left # <<>> /\ fetch[f].at = "lookup"
  BY Working DEF ReadFirst, At, InLine
<1>2. /\ fetch[f] \in Calls /\ fetch[f] \in Records /\ n \in Nat /\ j \in Jobs
      /\ fetch[f].limit \in Nat /\ fetch[f].limit > 0
      /\ n > 0 => /\ Entries[j] \in Nat /\ n = Least(fetch[f].limit, Entries[j])
                  /\ Shape[j] \notin {"cursor", "offset"}
      /\ Entries[j] = None => Shape[j] \in {"deposit", "refused"}
      /\ Entries[j] \in Nat \cup {None}
  BY <1>1, BusyCall, RoomFacts, JobOfCall, LimitsPositive, GraphAssumption DEF Job, Records
<1>3. c \in Records /\ c.left = fetch[f].left /\ c.limit = fetch[f].limit /\ c.edges = n
  BY <1>2 DEF Records
<1>4. CASE Shape[j] \in {"cursor", "offset"} \/ (Shape[j] = "batched" /\ n > 0)
  <2>1. [c EXCEPT !.pc = "ask", !.at = "list"] \in Asking
    <3> DEFINE d == [c EXCEPT !.pc = "ask", !.at = "list"]
    <3>1. /\ d \in Records /\ d.pc = "ask" /\ d.at = "list" /\ d.left = fetch[f].left
          /\ d.edges = n /\ d.limit = fetch[f].limit
      BY <1>2 DEF Records, Steps
    <3>2. /\ Entries[j] \in Nat /\ n <= fetch[f].limit /\ n <= Entries[j]
          /\ Shape[j] = "batched" => n = Least(fetch[f].limit, Entries[j])
      BY <1>2, <1>4 DEF Least
    <3> HIDE DEF d, n
    <3>3. Counted(d)
      BY <1>1, <1>2, <1>4, <3>1, <3>2 DEF Counted, Job
    <3> QED
      BY <3>1, <3>3 DEF Asking, Calls, Sound, d
  <2>2. Become(f, [c EXCEPT !.pc = "ask", !.at = "list"])
    BY <1>2, <1>3, <1>4 DEF ReadFirst
  <2> QED
    BY <2>1, <2>2
<1>5. CASE ~(Shape[j] \in {"cursor", "offset"} \/ (Shape[j] = "batched" /\ n > 0))
           /\ Entries[j] = None
  <2>1. Become(f, Fails(c))
    BY <1>3, <1>5 DEF ReadFirst
  <2>2. Fails(c) \in Asking
    BY <1>1, <1>3, FailsCall
  <2> QED
    BY <2>1, <2>2
<1>6. CASE ~(Shape[j] \in {"cursor", "offset"} \/ (Shape[j] = "batched" /\ n > 0))
           /\ Entries[j] # None
  <2>1. Become(f, Reported(c, Listed(c), FALSE))
    BY <1>3, <1>6 DEF ReadFirst
  <2>2. n = Least(fetch[f].limit, Entries[j]) /\ Entries[j] \in Nat
    BY <1>1, <1>2, <1>6 DEF Room, Job
  <2>3. Reported(c, Listed(c), FALSE) \in Asking
    BY <1>1, <1>3, <2>2, ListedCall DEF Job
  <2> QED
    BY <2>1, <2>3
<1> QED
  BY <1>4, <1>5, <1>6

(* A request in its list has what it has found counted.                    *)
LEMMA InList ==
  ASSUME TypeInv, NEW f \in Fetches, At(f, "body"), fetch[f].at = "list"
  PROVE  /\ ~At(f, "idle") /\ fetch[f] \in Calls /\ fetch[f] \in Records
         /\ fetch[f].left # <<>> /\ Counted(fetch[f])
         /\ fetch[f].edges \in Nat /\ fetch[f].pages \in Nat
         /\ fetch[f].limit \in Nat
<1>1. ~At(f, "idle") /\ fetch[f].left # <<>>
  BY Working DEF At, InLine
<1>2. fetch[f] \in Calls /\ fetch[f] \in Records /\ Sound(fetch[f])
  BY <1>1, BusyCall
<1> QED
  BY <1>1, <1>2, LimitsPositive DEF Sound, Records

LEMMA ReadBatchAsks ==
  ASSUME TypeInv, NEW f \in Fetches, ReadBatch(f)
  PROVE  \E c \in Asking : Become(f, c)
<1> DEFINE c == [fetch[f] EXCEPT !.pages = @ + 1]
<1>1. At(f, "body") /\ fetch[f].at = "list" /\ Shape[Job(f)] = "batched"
  BY DEF ReadBatch
<1>2. /\ fetch[f] \in Records /\ fetch[f].left # <<>> /\ Counted(fetch[f])
      /\ fetch[f].pages \in Nat
  BY <1>1, InList
<1>3. /\ c \in Records /\ c.left = fetch[f].left /\ c.limit = fetch[f].limit
      /\ c.edges = fetch[f].edges /\ c.at = "list"
  BY <1>1, <1>2 DEF Records
<1>4. Counted(c)
  BY <1>2, <1>3 DEF Counted
<1>5. CASE c.pages * PerPage >= c.edges
  <2>1. Become(f, Reported(c, Listed(c), FALSE))
    BY <1>5 DEF ReadBatch
  <2>2. Reported(c, Listed(c), FALSE) \in Asking
    <3> HIDE DEF c
    <3>1. c.edges = Least(c.limit, Entries[Head(c.left)]) /\ Entries[Head(c.left)] \in Nat
      BY <1>1, <1>3, <1>4 DEF Counted, Job
    <3> QED
      BY <1>2, <1>3, <3>1, ListedCall
  <2> QED
    BY <2>1, <2>2
<1>6. CASE ~(c.pages * PerPage >= c.edges)
  <2>1. Become(f, [c EXCEPT !.pc = "ask"])
    BY <1>6 DEF ReadBatch
  <2>2. [c EXCEPT !.pc = "ask"] \in Asking
    <3> HIDE DEF c
    <3> QED
      BY <1>3, <1>4 DEF Asking, Calls, Records, Sound, Counted, Steps
  <2> QED
    BY <2>1, <2>2
<1> QED
  BY <1>5, <1>6

LEMMA ReadPageAsks ==
  ASSUME TypeInv, NEW f \in Fetches, ReadPage(f)
  PROVE  \E c \in Asking : Become(f, c)
<1>1. At(f, "body") /\ fetch[f].at = "list" /\ Shape[Job(f)] # "batched"
  BY DEF ReadPage
<1>2. /\ fetch[f] \in Records /\ fetch[f].left # <<>> /\ Counted(fetch[f])
      /\ fetch[f].pages \in Nat /\ fetch[f].edges \in Nat /\ fetch[f].limit \in Nat
      /\ fetch[f] \in Calls
  BY <1>1, InList
<1>3. PICK k \in 0 .. Room(fetch[f]), empty \in BOOLEAN, more \in {None, "same", "other"} :
        LET c == [fetch[f] EXCEPT !.edges = @ + k, !.pages = @ + 1] IN
        /\ empty => k = 0
        /\ IF Shape[Job(f)] = "cursor" THEN Become(f, ByCursor(c, empty, more))
           ELSE /\ empty = (k = 0)
                /\ more = None <=> c.edges = Entries[Job(f)]
                /\ Become(f, ByOffset(c, empty, more))
  BY DEF ReadPage
<1> DEFINE c == [fetch[f] EXCEPT !.edges = @ + k, !.pages = @ + 1]
           whole == Entries[Head(c.left)]
<1>4. /\ k \in Nat /\ fetch[f].edges + k <= fetch[f].limit
      /\ fetch[f].edges + k <= Entries[Head(fetch[f].left)]
  <2>1. /\ Room(fetch[f]) \in Nat
        /\ fetch[f].edges + Room(fetch[f]) <= fetch[f].limit
        /\ fetch[f].edges + Room(fetch[f]) <= Entries[Head(fetch[f].left)]
    BY <1>1, <1>2, RoomFacts
  <2>2. Entries[Head(fetch[f].left)] \in Nat
    BY <1>2 DEF Counted
  <2> QED
    BY <1>2, <2>1, <2>2
<1>5. /\ c \in Records /\ c.left = fetch[f].left /\ c.limit = fetch[f].limit
      /\ c.edges = fetch[f].edges + k /\ c.at = "list"
  <2>1. fetch[f].edges + k \in Nat /\ fetch[f].pages + 1 \in Nat
    BY <1>2, <1>4
  <2> QED
    BY <1>1, <1>2, <2>1 DEF Records
<1>6. Counted(c)
  BY <1>1, <1>2, <1>4, <1>5 DEF Counted, Job
<1>7. /\ c.left # <<>> /\ whole \in Nat /\ c.edges \in Nat /\ c.edges <= whole
  BY <1>2, <1>4, <1>5, <1>6 DEF Counted
<1>8. \/ Become(f, ByCursor(c, empty, more))
      \/ (more = None <=> c.edges = whole) /\ Become(f, ByOffset(c, empty, more))
  BY <1>3, <1>5 DEF Job
<1> HIDE DEF c
<1>9. Fails(c) \in Asking
  BY <1>5, <1>7, FailsCall
<1>10. c.edges # whole => GoOn(c, more) \in Asking
  BY <1>5, <1>6, GoOnCall
<1>11. c.edges = whole => Reported(c, "complete", FALSE) \in Asking
  BY <1>5, <1>7, ReportedCall DEF Honest, Coverages
<1>12. ByCursor(c, empty, more) \in Asking
  <2>1. CASE c.edges = whole
    <3>1. ~(c.edges < whole)
      BY <1>7, <2>1
    <3>2. ByCursor(c, empty, more) = Reported(c, "complete", FALSE)
      BY <2>1, <3>1, Zenon DEF ByCursor
    <3> QED
      BY <1>11, <2>1, <3>2
  <2>2. CASE c.edges # whole
    <3>1. c.edges < whole
      BY <1>7, <2>2
    <3>2. ByCursor(c, empty, more) \in {Fails(c), GoOn(c, more)}
      BY <2>2, <3>1, Zenon DEF ByCursor
    <3> QED
      BY <1>9, <1>10, <2>2, <3>2
  <2> QED
    BY <2>1, <2>2
<1>13. (more = None <=> c.edges = whole) => ByOffset(c, empty, more) \in Asking
  BY <1>9, <1>10, <1>11 DEF ByOffset
<1> QED
  BY <1>8, <1>12, <1>13

(* Reading an answer: the request asks again, or for its next job.          *)
Read(f) == Malformed(f) \/ ReadFirst(f) \/ ReadBatch(f) \/ ReadPage(f)

LEMMA ReadAsks ==
  ASSUME TypeInv, NEW f \in Fetches, Read(f)
  PROVE  /\ \E c \in Asking : Become(f, c)
         /\ UNCHANGED <<line, next_request, seen>>
BY MalformedAsks, ReadFirstAsks, ReadBatchAsks, ReadPageAsks
   DEF Read, Malformed, ReadFirst, ReadBatch, ReadPage

LEMMA ReadType ==
  ASSUME TypeInv, NEW f \in Fetches, Read(f)
  PROVE  TypeInv'
<1>1. PICK c \in Asking : Become(f, c)
  BY ReadAsks
<1>2. c \in Calls
  BY DEF Asking
<1> QED
  BY <1>1, <1>2, ReadAsks, BecomeType DEF TypeInv

LEMMA EndType ==
  ASSUME TypeInv, NEW f \in Fetches, Save(f) \/ Leave(f)
  PROVE  TypeInv'
BY BecomeType, WithoutType DEF Save, Leave, TypeInv

-----------------------------------------------------------------------------
(* Each step keeps the line in order.                                      *)

(* A request that becomes something else without a place in a line, while  *)
(* the lines keep those of the others.                                     *)
LEMMA OutOfLine ==
  ASSUME TypeInv, LineInv, NEW f \in Fetches, fetch'[f].pc \notin InLine,
         \A g \in Fetches \ {f} : fetch'[g] = fetch[g],
         line' = line \/ line' = Without(f)
  PROVE  LineInv'
<1> SUFFICES ASSUME NEW g \in Fetches, fetch'[g].pc \in InLine
             PROVE  /\ In(g, line'[Slot(g)'])
                    /\ fetch'[g].pc \in Served => First(g, line'[Slot(g)'])
  BY DEF LineInv, Queued, Heads, InLine, Served
<1>1. g # f /\ fetch'[g] = fetch[g] /\ Slot(g)' = Slot(g)
  BY DEF Slot, Job
<1>2. Slot(g) \in Providers
  BY <1>1, Working, JobOfCall
<1>3. /\ In(g, line[Slot(g)])
      /\ fetch[g].pc \in Served => First(g, line[Slot(g)])
  BY <1>1 DEF LineInv, Queued, Heads
<1>4. CASE line' = line
  BY <1>1, <1>3, <1>4
<1>5. CASE line' = Without(f)
  <2>1. line'[Slot(g)] = Minus(line[Slot(g)], f) /\ line[Slot(g)] \in Seq(Fetches)
    BY <1>2, <1>5 DEF Without, TypeInv
  <2> QED
    BY <1>1, <1>3, <2>1, MinusFacts
<1> QED
  BY <1>4, <1>5

LEMMA BecomeOthers ==
  ASSUME TypeInv, NEW f \in Fetches, NEW c, Become(f, c)
  PROVE  fetch'[f] = c /\ \A g \in Fetches \ {f} : fetch'[g] = fetch[g]
BY DEF TypeInv, Become

LEMMA GotoOthers ==
  ASSUME TypeInv, NEW f \in Fetches, NEW pc \in Steps, Goto(f, pc), ~At(f, "idle")
  PROVE  /\ fetch'[f].pc = pc /\ fetch'[f].left = fetch[f].left
         /\ \A g \in Fetches \ {f} : fetch'[g] = fetch[g]
<1>1. fetch[f] \in Records
  BY BusyCall
<1>2. fetch' = [fetch EXCEPT ![f] = [fetch[f] EXCEPT !.pc = pc]]
  BY DEF Goto
<1>3. fetch'[f] = [fetch[f] EXCEPT !.pc = pc] /\ \A g \in Fetches \ {f} : fetch'[g] = fetch[g]
  BY <1>2 DEF TypeInv
<1>4. [fetch[f] EXCEPT !.pc = pc].pc = pc /\ [fetch[f] EXCEPT !.pc = pc].left = fetch[f].left
  BY <1>1 DEF Records
<1> QED
  BY <1>3, <1>4

LEMMA FailsOut ==
  ASSUME TypeInv, NEW f \in Fetches, ~At(f, "idle"), fetch[f].left # <<>>,
         Become(f, Fails(fetch[f]))
  PROVE  /\ fetch'[f].pc \notin InLine
         /\ \A g \in Fetches \ {f} : fetch'[g] = fetch[g]
<1>1. Fails(fetch[f]) \in Asking
  BY BusyCall, FailsCall
<1> QED
  BY <1>1, BecomeOthers DEF Asking, InLine

LEMMA PostLine ==
  ASSUME TypeInv, LineInv, NEW f \in Fetches, Post(f)
  PROVE  LineInv'
<1>1. /\ fetch'[f].pc \notin InLine
      /\ \A g \in Fetches \ {f} : fetch'[g] = fetch[g]
  BY BecomeOthers DEF Post, InLine
<1> QED
  BY <1>1, OutOfLine DEF Post

LEMMA AskLine ==
  ASSUME TypeInv, LineInv, NEW f \in Fetches, Ask(f)
  PROVE  LineInv'
<1>1. ~At(f, "idle") /\ fetch[f].left # <<>>
  BY DEF Ask, At
<1>2. CASE Shape[Job(f)] = "refused"
  BY <1>1, <1>2, FailsOut, OutOfLine DEF Ask
<1>3. CASE Shape[Job(f)] # "refused"
  <2>1. /\ Goto(f, "line") /\ Slot(f) \in Providers
        /\ line' = [line EXCEPT ![Slot(f)] = Append(line[Slot(f)], f)]
        /\ line \in [Providers -> Seq(Fetches)]
    BY <1>1, <1>3, JobOfCall DEF Ask, TypeInv
  <2>2. /\ fetch'[f].pc = "line" /\ Slot(f)' = Slot(f)
        /\ \A g \in Fetches \ {f} : fetch'[g] = fetch[g]
    BY <1>1, <2>1, GotoOthers DEF Steps, Slot, Job
  <2>3. ASSUME NEW p \in Providers, NEW g \in Fetches
        PROVE  /\ In(g, line[p]) => In(g, line'[p])
               /\ First(g, line[p]) => First(g, line'[p])
    BY <2>1 DEF In, First
  <2>4. In(f, line'[Slot(f)])
    <3>1. line'[Slot(f)] = Append(line[Slot(f)], f) /\ line[Slot(f)] \in Seq(Fetches)
      BY <2>1
    <3>2. /\ Len(line'[Slot(f)]) \in 1 .. Len(line'[Slot(f)])
          /\ line'[Slot(f)][Len(line'[Slot(f)])] = f
      BY <3>1
    <3> QED
      BY <3>2 DEF In
  <2>5. ASSUME NEW g \in Fetches \ {f}, fetch'[g].pc \in InLine
        PROVE  /\ In(g, line'[Slot(g)'])
               /\ fetch'[g].pc \in Served => First(g, line'[Slot(g)'])
    <3>1. fetch'[g] = fetch[g] /\ Slot(g)' = Slot(g)
      BY <2>2 DEF Slot, Job
    <3>2. Slot(g) \in Providers
      BY <2>5, <3>1, Working, JobOfCall
    <3> QED
      BY <2>3, <2>5, <3>1, <3>2 DEF LineInv, Queued, Heads
  <2> QED
    BY <2>2, <2>4, <2>5 DEF LineInv, Queued, Heads, InLine, Served
<1> QED
  BY <1>2, <1>3

(* A step from one place in the line to another, which is served only to   *)
(* its head.                                                               *)
LEMMA Onward ==
  ASSUME TypeInv, LineInv, NEW f \in Fetches, NEW pc \in Served,
         fetch[f].pc \in InLine, First(f, line[Slot(f)]),
         Goto(f, pc), UNCHANGED line
  PROVE  LineInv'
<1>1. ~At(f, "idle")
  BY Working
<1>2. /\ fetch'[f].pc = pc /\ Slot(f)' = Slot(f)
      /\ \A g \in Fetches \ {f} : fetch'[g] = fetch[g]
  BY <1>1, GotoOthers DEF Steps, Served, Slot, Job
<1>3. \A g \in Fetches : Slot(g)' = Slot(g)
  BY <1>2 DEF Slot, Job
<1> QED
  BY <1>2, <1>3 DEF LineInv, Queued, Heads

LEMMA EnterLine ==
  ASSUME TypeInv, LineInv, NEW f \in Fetches, Enter(f)
  PROVE  LineInv'
<1>1. /\ fetch[f].pc \in InLine /\ ~At(f, "idle") /\ fetch[f].left # <<>>
  BY Working DEF Enter, At, InLine
<1>2. CASE next_request[Slot(f)] > Gap
  BY <1>1, <1>2, FailsOut, OutOfLine DEF Enter
<1>3. CASE ~(next_request[Slot(f)] > Gap)
  <2>1. line[Slot(f)] \in Seq(Fetches) /\ In(f, line[Slot(f)])
    BY <1>1, JobOfCall DEF TypeInv, LineInv, Queued
  <2>2. First(f, line[Slot(f)])
    BY <2>1 DEF Enter, In, First
  <2> QED
    BY <1>1, <1>3, <2>2, Onward DEF Enter, Served
<1> QED
  BY <1>2, <1>3

LEMMA SendLine ==
  ASSUME TypeInv, LineInv, NEW f \in Fetches, Send(f)
  PROVE  LineInv'
<1>1. fetch[f].pc \in InLine /\ fetch[f].pc \in Served
  BY DEF Send, At, InLine, Served
<1> QED
  BY <1>1, Onward DEF Send, LineInv, Heads, Served

LEMMA AnswerLine ==
  ASSUME TypeInv, LineInv, NEW f \in Fetches, Answer(f)
  PROVE  LineInv'
<1>1. ~At(f, "idle") /\ fetch[f].left # <<>> /\ line' = Without(f)
  BY Working DEF Answer, At, InLine
<1>2. CASE Become(f, Fails(fetch[f]))
  BY <1>1, <1>2, FailsOut, OutOfLine
<1>3. CASE Goto(f, "body")
  <2>1. /\ fetch'[f].pc \notin InLine
        /\ \A g \in Fetches \ {f} : fetch'[g] = fetch[g]
    BY <1>1, <1>3, GotoOthers DEF Steps, InLine
  <2> QED
    BY <1>1, <2>1, OutOfLine
<1> QED
  BY <1>2, <1>3 DEF Answer

LEMMA ReadLine ==
  ASSUME TypeInv, LineInv, NEW f \in Fetches, Read(f)
  PROVE  LineInv'
<1>1. PICK c \in Asking : Become(f, c)
  BY ReadAsks
<1>2. /\ fetch'[f].pc \notin InLine
      /\ \A g \in Fetches \ {f} : fetch'[g] = fetch[g]
  BY <1>1, BecomeOthers DEF Asking, InLine
<1> QED
  BY <1>2, ReadAsks, OutOfLine

LEMMA EndLine ==
  ASSUME TypeInv, LineInv, NEW f \in Fetches, Save(f) \/ Leave(f)
  PROVE  LineInv'
<1>1. Become(f, Idle) /\ (line' = line \/ line' = Without(f))
  BY DEF Save, Leave
<1>2. /\ fetch'[f].pc \notin InLine
      /\ \A g \in Fetches \ {f} : fetch'[g] = fetch[g]
  BY <1>1, BecomeOthers DEF Idle, InLine
<1> QED
  BY <1>1, <1>2, OutOfLine

-----------------------------------------------------------------------------
(* The slot of a provider is never earlier than the spacing or the cooldown *)
(* that the provider counts.                                               *)

LEMMA TickTimed == TypeInv /\ Timed /\ Tick => Timed'
<1> SUFFICES ASSUME TypeInv, Timed, Tick, NEW p \in Providers
             PROVE  (IF seen[p].pause = None THEN next_request[p] + seen[p].since >= Gap
                     ELSE next_request[p] >= seen[p].pause)'
  BY DEF Timed
<1> DEFINE n == next_request[p]
           s == seen[p]
<1>1. /\ n \in Nat /\ s.since \in 0 .. Gap /\ s.pause \in Nat \cup {None}
      /\ Gap \in Nat /\ Gap > 0 /\ None \notin Nat
      /\ IF s.pause = None THEN n + s.since >= Gap ELSE n >= s.pause
  BY GraphAssumption DEF TypeInv, Timed
<1>2. /\ next_request'[p] = IF n = 0 THEN 0 ELSE n - 1
      /\ seen'[p] = Passing(s)
  BY DEF Tick
<1>3. seen'[p].since = Least(Gap, s.since + 1)
  BY <1>2 DEF Passing
<1>4. CASE s.pause = None
  <2>1. seen'[p].pause = None
    BY <1>2, <1>4 DEF Passing
  <2> QED
    BY <1>1, <1>2, <1>3, <1>4, <2>1 DEF Least
<1>5. CASE s.pause = 0
  <2>1. seen'[p].pause = IF s.since >= Gap - 1 THEN None ELSE 0
    BY <1>1, <1>2, <1>5 DEF Passing
  <2> QED
    BY <1>1, <1>2, <1>3, <1>5, <2>1 DEF Least
<1>6. CASE s.pause \notin {None, 0}
  <2>1. seen'[p].pause = s.pause - 1
    BY <1>1, <1>2, <1>6 DEF Passing
  <2> QED
    BY <1>1, <1>2, <1>3, <1>6, <2>1
<1> QED
  BY <1>4, <1>5, <1>6

LEMMA SendTimed ==
  ASSUME TypeInv, Timed, NEW f \in Fetches, Send(f)
  PROVE  Timed'
<1>1. Slot(f) \in Providers
  BY Working, JobOfCall DEF Send, At, InLine
<1>2. Gap \in Nat
  BY GraphAssumption
<1> QED
  BY <1>1, <1>2 DEF Timed, TypeInv, Send

LEMMA AnswerTimed ==
  ASSUME TypeInv, Timed, NEW f \in Fetches, Answer(f)
  PROVE  Timed'
<1>1. Slot(f) \in Providers
  BY Working, JobOfCall DEF Answer, At, InLine
<1>2. CASE UNCHANGED <<next_request, seen>>
  BY <1>2 DEF Timed
<1>3. ASSUME NEW s \in RetryAfter,
             next_request' = [next_request EXCEPT ![Slot(f)] = s],
             seen' = [seen EXCEPT ![Slot(f)].pause = s]
      PROVE  Timed'
  <2>1. s \in Nat /\ s # None
    BY GraphAssumption
  <2>2. /\ next_request'[Slot(f)] = s /\ seen'[Slot(f)].pause = s
        /\ \A p \in Providers \ {Slot(f)} :
             next_request'[p] = next_request[p] /\ seen'[p] = seen[p]
    BY <1>1, <1>3 DEF TypeInv
  <2> QED
    BY <2>1, <2>2 DEF Timed
<1> QED
  BY <1>2, <1>3 DEF Answer

-----------------------------------------------------------------------------
LEMMA NextInv == Inv /\ [Next]_vars => Inv'
<1> SUFFICES ASSUME Inv, [Next]_vars PROVE Inv'
  OBVIOUS
<1>1. TypeInv /\ LineInv /\ Timed
  BY DEF Inv
<1>2. CASE UNCHANGED vars
  BY <1>1, <1>2
     DEF vars, Inv, TypeInv, LineInv, Queued, Heads, Timed, Slot, Job
<1>3. CASE Tick
  <2>1. LineInv'
    BY <1>1, <1>3 DEF Tick, LineInv, Queued, Heads, Slot, Job
  <2> QED
    BY <1>1, <1>3, <2>1, TickType, TickTimed DEF Inv
<1>4. ASSUME NEW f \in Fetches, Post(f)
      PROVE  Inv'
  <2>1. Timed'
    BY <1>1, <1>4 DEF Post, Timed
  <2> QED
    BY <1>1, <1>4, <2>1, PostType, PostLine DEF Inv
<1>5. ASSUME NEW f \in Fetches, Ask(f)
      PROVE  Inv'
  <2>1. Timed'
    BY <1>1, <1>5 DEF Ask, Timed
  <2> QED
    BY <1>1, <1>5, <2>1, AskType, AskLine DEF Inv
<1>6. ASSUME NEW f \in Fetches, Enter(f)
      PROVE  Inv'
  <2>1. Timed'
    BY <1>1, <1>6 DEF Enter, Timed
  <2> QED
    BY <1>1, <1>6, <2>1, EnterType, EnterLine DEF Inv
<1>7. ASSUME NEW f \in Fetches, Send(f)
      PROVE  Inv'
  BY <1>1, <1>7, SendType, SendLine, SendTimed DEF Inv
<1>8. ASSUME NEW f \in Fetches, Answer(f)
      PROVE  Inv'
  BY <1>1, <1>8, AnswerType, AnswerLine, AnswerTimed DEF Inv
<1>9. ASSUME NEW f \in Fetches, Read(f)
      PROVE  Inv'
  <2>1. Timed'
    BY <1>1, <1>9, ReadAsks DEF Timed
  <2> QED
    BY <1>1, <1>9, <2>1, ReadType, ReadLine DEF Inv
<1>10. ASSUME NEW f \in Fetches, Save(f) \/ Leave(f)
       PROVE  Inv'
  <2>1. Timed'
    BY <1>1, <1>10 DEF Save, Leave, Timed
  <2> QED
    BY <1>1, <1>10, <2>1, EndType, EndLine DEF Inv
<1> QED
  BY <1>2, <1>3, <1>4, <1>5, <1>6, <1>7, <1>8, <1>9, <1>10
     DEF Next, Progress, Read

LEMMA InvHolds == Spec => []Inv
<1> QED
  BY InitInv, NextInv, PTL DEF Spec

(* The state has the shape that the comments beside the variables give it, *)
(* and no request finds more entries than it asked for.                    *)
THEOREM TypeCorrect == Spec => []TypeOK
<1>1. Inv => TypeOK
  <2> SUFFICES ASSUME Inv PROVE TypeOK
    OBVIOUS
  <2>1. TypeInv
    BY DEF Inv
  <2>2. ASSUME NEW f \in Fetches, fetch[f] # Idle
        PROVE  /\ fetch[f].pc \in {"ask", "line", "sleep", "sent", "body"}
               /\ fetch[f].left \in Seq(Jobs) /\ fetch[f].limit \in Limits
               /\ fetch[f].at \in {"lookup", "list"}
               /\ fetch[f].edges \in 0 .. fetch[f].limit /\ fetch[f].pages \in Nat
    <3>1. fetch[f] \in Calls
      BY <2>1, <2>2 DEF TypeInv
    <3>2. fetch[f].edges \in Nat /\ fetch[f].limit \in Nat /\ fetch[f].edges <= fetch[f].limit
      BY <3>1, LimitsPositive DEF Calls, Records, Sound, Counted
    <3> QED
      BY <3>1, <3>2 DEF Calls, Records, Steps
  <2> QED
    BY <2>1, <2>2 DEF TypeOK, TypeInv
<1> QED
  BY <1>1, InvHolds, PTL

(* Every report says what it is, whatever the lists, limits and pages are   *)
(* and wherever requests fail: complete with the whole list, capped at a    *)
(* limit before its end, partial or unavailable after a failure.            *)
THEOREM CoverageIsTrue == Spec => []CoverageTrue
<1>1. Inv => CoverageTrue
  <2> SUFFICES ASSUME Inv, NEW f \in Fetches, ~At(f, "idle"),
                      NEW i \in DOMAIN fetch[f].reports
               PROVE  Honest(fetch[f].reports[i])
    BY DEF CoverageTrue
  <2>1. fetch[f].reports \in Seq(Reports)
    BY BusyCall DEF Inv, Records
  <2>2. fetch[f].reports[i] \in Reports
    BY <2>1
  <2> QED
    BY <2>2 DEF Reports
<1> QED
  BY <1>1, InvHolds, PTL

(* A request goes out in one step of the code only.                         *)
LEMMA OnlySend ==
  ASSUME TypeInv, Next, NEW f \in Fetches, Sends(f)
  PROVE  Send(f)
<1>1. fetch[f].pc = "sleep" /\ fetch'[f].pc = "sent"
  BY DEF Sends, At
<1>2. ~Tick
  BY <1>1 DEF Tick
<1>3. PICK g \in Fetches : Post(g) \/ Progress(g) \/ Leave(g)
  BY <1>2 DEF Next
<1>4. g = f
  <2>1. SUFFICES ASSUME g # f PROVE fetch'[f] = fetch[f]
    BY <1>1
  <2>2. CASE \E c : Become(g, c)
    BY <2>1, <2>2, BecomeOthers
  <2>3. CASE \E pc : Goto(g, pc)
    BY <2>1, <2>3 DEF Goto, TypeInv
  <2>4. Read(g) => \E c : Become(g, c)
    BY ReadAsks
  <2> QED
    BY <1>3, <2>2, <2>3, <2>4
       DEF Post, Progress, Read, Ask, Enter, Send, Answer, Save, Leave
<1>5. ~Leave(f)
  <2>1. Leave(f) => fetch'[f] = Idle
    BY BecomeOthers DEF Leave
  <2> QED
    BY <1>1, <2>1 DEF Idle
<1> QED
  BY <1>1, <1>3, <1>4, <1>5
     DEF Post, Progress, Ask, Enter, Answer, Malformed, ReadFirst, ReadBatch, ReadPage,
         Save, At

(* A provider gets one request at a time, and none before the spacing or    *)
(* the cooldown it answered with is over, for any number of requests that   *)
(* ask, wait, fail or go away.                                              *)
THEOREM Politeness == Spec => Polite
<1>1. Inv /\ [Next]_vars =>
        [\A f \in Fetches : Sends(f) =>
           LET p == Slot(f) IN
           /\ \A g \in Fetches : At(g, "sent") => Slot(g) # p
           /\ IF seen[p].pause = None THEN seen[p].since = Gap ELSE seen[p].pause = 0]_vars
  <2> SUFFICES ASSUME Inv, Next, NEW f \in Fetches, Sends(f)
               PROVE  /\ \A g \in Fetches : At(g, "sent") => Slot(g) # Slot(f)
                      /\ IF seen[Slot(f)].pause = None THEN seen[Slot(f)].since = Gap
                         ELSE seen[Slot(f)].pause = 0
    OBVIOUS
  <2>1. TypeInv /\ Heads /\ Timed
    BY DEF Inv, LineInv
  <2>2. /\ fetch[f].pc = "sleep" /\ fetch'[f].pc = "sent"
        /\ First(f, line[Slot(f)]) /\ Slot(f) \in Providers
    <3>1. fetch[f].pc = "sleep" /\ fetch'[f].pc = "sent"
      BY DEF Sends, At
    <3>2. ~At(f, "idle") /\ fetch[f].left # <<>>
      BY <2>1, <3>1, Working DEF InLine
    <3> QED
      BY <2>1, <3>1, <3>2, JobOfCall DEF Heads, Served
  <2>3. ASSUME NEW g \in Fetches, At(g, "sent"), Slot(g) = Slot(f)
        PROVE  FALSE
    BY <2>1, <2>2, <2>3 DEF Heads, Served, First, At
  <2>4. next_request[Slot(f)] = 0
    BY <2>1, OnlySend DEF Send
  <2>5. /\ next_request[Slot(f)] \in Nat /\ Gap \in Nat /\ None \notin Nat
        /\ seen[Slot(f)] \in [since : 0 .. Gap, pause : Nat \cup {None}]
    BY <2>1, <2>2, GraphAssumption DEF TypeInv
  <2>6. IF seen[Slot(f)].pause = None THEN seen[Slot(f)].since = Gap
        ELSE seen[Slot(f)].pause = 0
    BY <2>1, <2>2, <2>4, <2>5 DEF Timed
  <2> QED
    BY <2>3, <2>6
<1> QED
  BY <1>1, InvHolds, PTL DEF Spec, Polite
=============================================================================
