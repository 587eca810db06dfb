---------------------------- MODULE PaperProofs ----------------------------
(***************************************************************************)
(* Proofs about what is kept of a paper: about Extraction for any plan,    *)
(* chunks, concurrency, budget and number of runs, and about Experiments,  *)
(* Notes, Highlights and Labels for any processes, savers, markers, passes *)
(* and readers.                                                            *)
(***************************************************************************)
EXTENDS Extraction, MCRecords, FiniteSetTheorems, SequenceTheorems, WellFoundedInduction, TLAPS

(* A saved answer has a value; so has an answer that is being saved.       *)
Solid ==
  /\ \A s \in saved : s.value \in Values \ {None}
  /\ \A a \in Asks : at[a] = "saving" => got[a] # None

TypeInv == TypeOK /\ Solid

Places == {"waiting", "sent", "saving", "over"}
Losable == Asks \cup {ObjectPass}

-----------------------------------------------------------------------------
(* Calls.                                                                  *)

LEMMA ChunkAsks == Chunks \subseteq Asks
BY DEF Asks

LEMMA SamePlan == mode' = mode => PlanCalls' = PlanCalls
BY DEF PlanCalls, Plan

LEMMA AnswerValues ==
  ASSUME NEW a \in Asks
  PROVE  Answers(a) \subseteq Values \ {None}
BY NoneAssumption DEF Answers, Values

LEMMA InitType == Init => TypeInv
<1> SUFFICES ASSUME Init PROVE TypeInv
  OBVIOUS
<1>1. None \in Values
  BY DEF Values
<1>2. /\ at \in [Asks -> {"waiting", "sent", "saving", "over"}]
      /\ attempt \in [Asks -> 1..Attempts]
      /\ first \in [Asks -> Values] /\ got \in [Asks -> Values]
  BY <1>1 DEF Init, Fresh, Attempts
<1>3. /\ mode \in {"command", "reader"} /\ runs \in 0..MaxRuns /\ phase = "idle"
      /\ ready = {} /\ batch = {} /\ over = {} /\ again = {}
      /\ spent = 0 /\ stopped = FALSE /\ failures = {} /\ recovered = {} /\ outcome = "none"
  BY BoundsAssumption DEF Init
<1>4. TypeOK
  BY <1>2, <1>3 DEF TypeOK
<1>5. Solid
  BY DEF Init, Solid, Fresh
<1> QED
  BY <1>4, <1>5 DEF TypeInv

(* What the end of a call with value r and failures fs does.               *)
LEMMA SettleEffect ==
  ASSUME TypeOK, NEW a \in Asks, NEW r \in Values, NEW fs \in SUBSET Losable,
         Settle(a, r, fs)
  PROVE  /\ at' \in [Asks -> Places]
         /\ at'[a] \in {"waiting", "over"}
         /\ \A b \in Asks \ {a} : at'[b] = at[b]
         /\ again' \in SUBSET Chunks /\ again \subseteq again' /\ again' \subseteq again \cup {a}
         /\ first' \in [Asks -> Values] /\ got' \in [Asks -> Values]
         /\ \A b \in Asks \ {a} : got'[b] = got[b] /\ first'[b] = first[b]
         /\ failures' \in SUBSET Losable /\ recovered' \in SUBSET Chunks
         /\ fs \ {a} \subseteq failures' /\ failures' \subseteq fs
         /\ recovered \subseteq recovered' /\ recovered' \subseteq recovered \cup {a}
<1>1. CASE NeedsRetry(a, r)
  <2>1. /\ again' = again \cup {a} /\ first' = [first EXCEPT ![a] = r]
        /\ at' = [at EXCEPT ![a] = "waiting"]
        /\ failures' = fs
        /\ UNCHANGED <<got, recovered>>
    BY <1>1 DEF Settle
  <2>2. a \in Chunks
    BY <1>1 DEF NeedsRetry
  <2> QED
    BY <2>1, <2>2 DEF TypeOK, Places, Losable
<1>2. CASE ~NeedsRetry(a, r)
  <2> DEFINE v == IF a \in again THEN Better(first[a], r) ELSE r
  <2>1. /\ at' = [at EXCEPT ![a] = "over"]
        /\ got' = [got EXCEPT ![a] = v]
        /\ IF a \in again /\ got'[a] # None THEN Recover(a, fs)
           ELSE failures' = fs /\ UNCHANGED recovered
        /\ UNCHANGED <<again, first>>
    BY <1>2 DEF Settle
  <2>2. v \in Values
    BY DEF TypeOK, Better
  <2> HIDE DEF v
  <2>3. /\ failures' \in SUBSET Losable /\ recovered' \in SUBSET Chunks
        /\ fs \ {a} \subseteq failures' /\ failures' \subseteq fs
        /\ recovered \subseteq recovered' /\ recovered' \subseteq recovered \cup {a}
    BY <2>1 DEF Recover, TypeOK
  <2> QED
    BY <2>1, <2>2, <2>3 DEF TypeOK, Places
<1> QED
  BY <1>1, <1>2

(* The end of a run leaves nothing in memory.                              *)
LEMMA EndEffect ==
  ASSUME TypeOK, NEW o \in {"succeeded", "incomplete", "error", "crashed"}, End(o)
  PROVE  TypeOK' /\ \A a \in Asks : at'[a] = "waiting" /\ got'[a] = None
<1>1. None \in Values
  BY DEF Values
<1>2. /\ at' \in [Asks -> {"waiting", "sent", "saving", "over"}]
      /\ attempt' \in [Asks -> 1..Attempts]
      /\ first' \in [Asks -> Values] /\ got' \in [Asks -> Values]
      /\ \A a \in Asks : at'[a] = "waiting" /\ got'[a] = None
  BY <1>1 DEF End, Fresh, Attempts
<1>3. /\ mode' \in {"command", "reader"} /\ runs' \in 0..MaxRuns
      /\ phase' = "idle" /\ ready' = {} /\ batch' = {} /\ over' = {}
      /\ again' = {} /\ spent' = 0 /\ stopped' = FALSE /\ failures' = {} /\ recovered' = {}
      /\ outcome' = o
  BY DEF End, TypeOK
<1>4. TypeOK'
  BY <1>2, <1>3 DEF TypeOK
<1> QED
  BY <1>2, <1>4

-----------------------------------------------------------------------------
(* The calls to the model keep the types.                                  *)

(* The other parts of a state that the end of a call leaves alone.         *)
LEMMA SettleType ==
  ASSUME TypeInv, NEW a \in Asks, NEW r \in Values, NEW fs \in SUBSET Losable,
         Settle(a, r, fs), Rest, attempt' = attempt,
         spent' \in Nat, stopped' \in BOOLEAN,
         \A s \in saved' : s.value \in Values \ {None}
  PROVE  TypeInv'
<1>1. TypeOK
  BY DEF TypeInv
<1>2. /\ at' \in [Asks -> {"waiting", "sent", "saving", "over"}]
      /\ again' \subseteq Chunks /\ recovered' \subseteq Chunks
      /\ first' \in [Asks -> Values] /\ got' \in [Asks -> Values]
      /\ failures' \subseteq Asks \cup {ObjectPass}
  BY <1>1, SettleEffect DEF Places, Losable
<1>3. TypeOK'
  BY <1>1, <1>2, SamePlan DEF TypeOK, Rest, plan
<1>4. Solid'
  BY <1>1, SettleEffect DEF TypeInv, Solid
<1> QED
  BY <1>3, <1>4 DEF TypeInv

LEMMA CallType ==
  ASSUME TypeInv, NEW a \in Asks, Call(a)
  PROVE  TypeInv'
<1>1. TypeOK /\ spent \in Nat /\ stopped \in BOOLEAN /\ attempt \in [Asks -> 1..Attempts]
      /\ failures \in SUBSET Losable /\ failures \cup {a} \in SUBSET Losable
      /\ None \in Values
  BY DEF TypeInv, TypeOK, Losable, Values
<1>2. \A s \in saved : s.value \in Values \ {None}
  BY DEF TypeInv, Solid
<1>3. CASE Replay(a)
  <2>1. PICK s \in Kept(a) : Settle(a, s.value, failures)
    BY <1>3 DEF Replay
  <2>2. s.value \in Values /\ Rest /\ UNCHANGED <<attempt, spent, stopped, saved>>
    BY <1>2, <1>3 DEF Replay, Kept
  <2> QED
    BY <1>1, <1>2, <2>1, <2>2, SettleType
<1>4. CASE Skip(a)
  <2>1. /\ Settle(a, None, failures) /\ Rest /\ stopped' = TRUE
        /\ UNCHANGED <<attempt, spent, saved>>
    BY <1>4 DEF Skip
  <2> QED
    BY <1>1, <1>2, <2>1, SettleType
<1>5. CASE Send(a)
  <2>1. TypeOK'
    BY <1>1, <1>5, SamePlan DEF TypeOK, Send, Rest, plan, session, PlanCalls, Plan, Attempts
  <2>2. Solid'
    BY <1>1, <1>5 DEF TypeInv, Solid, TypeOK, Send
  <2> QED
    BY <2>1, <2>2 DEF TypeInv
<1>6. CASE Fails(a)
  <2>1. PICK cost \in {0, 1} : spent' = spent + cost /\ (Resend(a, cost) \/ GiveUp(a, cost))
    BY <1>6 DEF Fails
  <2>2. Rest /\ saved' = saved /\ spent' \in Nat
    BY <1>1, <1>6, <2>1 DEF Fails
  <2>3. CASE Resend(a, cost)
    <3>1. attempt' \in [Asks -> 1..Attempts]
      BY <1>1, <2>3 DEF Resend, Resendable, Attempts
    <3>2. UNCHANGED <<at, again, first, got, stopped, failures, recovered>>
      BY <2>3 DEF Resend
    <3>3. TypeOK'
      BY <1>1, <2>2, <3>1, <3>2, SamePlan DEF TypeOK, Rest, plan
    <3> QED
      BY <1>1, <2>2, <3>2, <3>3 DEF TypeInv, Solid
  <2>4. CASE GiveUp(a, cost)
    <3>1. /\ Settle(a, None, failures \cup {a}) /\ attempt' = attempt
          /\ stopped' \in BOOLEAN
      BY <1>1, <2>4 DEF GiveUp
    <3> QED
      BY <1>1, <1>2, <2>2, <3>1, SettleType
  <2> QED
    BY <2>1, <2>3, <2>4
<1>7. CASE Unreadable(a)
  <2>1. /\ Settle(a, None, failures \cup {a}) /\ Rest /\ spent' \in Nat
        /\ UNCHANGED <<attempt, stopped, saved>>
    BY <1>1, <1>7 DEF Unreadable
  <2> QED
    BY <1>1, <1>2, <2>1, SettleType
<1>8. CASE Answered(a)
  <2>1. PICK v \in Answers(a) :
          \/ mode = "command" /\ Settle(a, v, failures)
          \/ /\ at' = [at EXCEPT ![a] = "saving"] /\ got' = [got EXCEPT ![a] = v]
             /\ UNCHANGED <<again, first, failures, recovered>>
    BY <1>8 DEF Answered
  <2>2. v \in Values \ {None}
    BY AnswerValues
  <2>3. Rest /\ spent' \in Nat /\ UNCHANGED <<attempt, stopped, saved>>
    BY <1>1, <1>8 DEF Answered
  <2>4. CASE Settle(a, v, failures)
    BY <1>1, <1>2, <2>2, <2>3, <2>4, SettleType
  <2>5. CASE /\ at' = [at EXCEPT ![a] = "saving"] /\ got' = [got EXCEPT ![a] = v]
             /\ UNCHANGED <<again, first, failures, recovered>>
    <3>1. /\ at' \in [Asks -> {"waiting", "sent", "saving", "over"}] /\ got' \in [Asks -> Values]
      BY <1>1, <2>2, <2>5 DEF TypeOK
    <3>2. TypeOK'
      <4>1. UNCHANGED <<mode, runs, phase, ready, batch, over, outcome>>
        BY <2>3 DEF Rest, plan
      <4>2. UNCHANGED <<again, first, failures, recovered, attempt, stopped>> /\ spent' \in Nat
        BY <2>3, <2>5
      <4> QED
        BY <1>1, <4>1, <4>2, <3>1, SamePlan DEF TypeOK
    <3>3. Solid'
      BY <1>1, <2>2, <2>3, <2>5 DEF TypeInv, Solid, TypeOK
    <3> QED
      BY <3>2, <3>3 DEF TypeInv
  <2> QED
    BY <2>1, <2>4, <2>5
<1>9. CASE Save(a)
  <2>1. got[a] \in Values \ {None}
    BY <1>1, <1>9 DEF TypeInv, TypeOK, Solid, Save
  <2>2. /\ Settle(a, got[a], failures) /\ Rest /\ UNCHANGED <<attempt, spent, stopped>>
        /\ saved' \in {saved, saved \cup {[key |-> Key(a), value |-> got[a]]}}
    BY <1>9 DEF Save
  <2>3. \A s \in saved' : s.value \in Values \ {None}
    BY <1>2, <2>1, <2>2
  <2> QED
    BY <1>1, <2>1, <2>2, <2>3, SettleType
<1> QED
  BY <1>3, <1>4, <1>5, <1>6, <1>7, <1>8, <1>9 DEF Call

LEMMA TypeStep == TypeInv /\ [Next]_vars => TypeInv'
<1> SUFFICES ASSUME TypeInv, [Next]_vars PROVE TypeInv'
  OBVIOUS
<1> USE DEF TypeInv
<1>1. CASE Start
  <2>1. runs' \in 0..MaxRuns
    BY <1>1, BoundsAssumption DEF TypeOK, Start
  <2> QED
    BY <1>1, <2>1, SamePlan DEF TypeOK, Solid, Start, plan, calls, session
<1>2. CASE NextBatch
  <2>1. /\ Left \subseteq PlanCalls
    BY DEF TypeOK, Left, Ready
  <2>2. batch' \subseteq PlanCalls /\ ready' \subseteq PlanCalls /\ over' \subseteq PlanCalls
    BY <1>2, <2>1 DEF NextBatch, Batches, TypeOK
  <2>3. UNCHANGED <<mode, runs, phase, at, attempt, again, first, got, spent, stopped,
                    failures, recovered, saved, outcome>>
    BY <1>2 DEF NextBatch, calls, session
  <2>4. TypeOK'
    BY <2>2, <2>3, SamePlan DEF TypeOK
  <2> QED
    BY <2>3, <2>4 DEF Solid
<1>3. CASE PlanOver
  BY <1>3, SamePlan DEF TypeOK, Solid, PlanOver, calls, session
<1>4. CASE PagesUnreadable
  <2>1. /\ at' = [a \in Asks |-> IF a \in Chunks THEN "over" ELSE at[a]]
        /\ failures' = failures \cup {ObjectPass}
        /\ UNCHANGED <<attempt, again, first, got, spent, stopped, recovered, saved>>
        /\ Rest
    BY <1>4 DEF PagesUnreadable
  <2>2. at' \in [Asks -> {"waiting", "sent", "saving", "over"}]
    BY <2>1 DEF TypeOK
  <2>3. TypeOK'
    BY <2>1, <2>2, SamePlan DEF TypeOK, Rest, plan
  <2> QED
    BY <2>1, <2>3 DEF TypeOK, Solid
<1>5. CASE Checked
  BY <1>5, SamePlan DEF TypeOK, Solid, Checked, plan, calls, session
<1>6. CASE Admitted
  BY <1>6, SamePlan DEF TypeOK, Solid, Admitted, plan, calls, session
<1>7. ASSUME NEW o \in {"succeeded", "incomplete", "error", "crashed"}, End(o),
             saved' \subseteq saved
      PROVE  TypeInv'
  BY <1>7, EndEffect DEF Solid
<1>8. CASE Write
  <2>1. CASE mode = "reader" /\ phase' = "analyzing"
             /\ UNCHANGED <<mode, runs, plan, calls, session, outcome>>
    BY <1>8, <2>1, SamePlan DEF Write, TypeOK, Solid, plan, calls, session
  <2> QED
    BY <1>7, <1>8, <2>1 DEF Write
<1>9. CASE Conclude
  BY <1>7, <1>9 DEF Conclude
<1>10. CASE Crash
  BY <1>7, <1>10 DEF Crash
<1>11. CASE \E a \in Asks : Call(a)
  BY <1>11, CallType
<1>12. CASE UNCHANGED vars
  BY <1>12, SamePlan DEF TypeOK, Solid, vars, plan, calls, session
<1> QED
  BY <1>1, <1>2, <1>3, <1>4, <1>5, <1>6, <1>8, <1>9, <1>10, <1>11, <1>12 DEF Next, Step

(* Every variable keeps its set of values.                                 *)
THEOREM TypeCorrect == Spec => []TypeOK
<1>1. Spec => []TypeInv
  BY InitType, TypeStep, PTL DEF Spec
<1> QED
  BY <1>1, PTL DEF TypeInv

-----------------------------------------------------------------------------
(* A saved answer goes away only with a run that has used it, without a    *)
(* failure, for an analysis.                                               *)
THEOREM SavedAnswersKept == Spec => SavedKept
<1> DEFINE Keeps == ~(saved \subseteq saved') => phase = "analyzing" /\ failures = {} /\ Usable
<1>1. [Next]_vars => Keeps
  <2> SUFFICES ASSUME [Next]_vars, ~(saved \subseteq saved')
               PROVE  phase = "analyzing" /\ failures = {} /\ Usable
    OBVIOUS
  <2>1. ~(\E a \in Asks : Call(a))
    BY DEF Call, Replay, Skip, Send, Fails, Unreadable, Answered, Save
  <2>2. CASE Conclude
    BY <2>2 DEF Conclude
  <2>3. ~(Start \/ NextBatch \/ PlanOver \/ PagesUnreadable \/ Checked \/ Admitted \/ Write \/ Crash)
    BY DEF Start, NextBatch, PlanOver, PagesUnreadable, Checked, Admitted, Write, Crash
  <2>4. ~UNCHANGED vars
    BY DEF vars
  <2> QED
    BY <2>1, <2>2, <2>3, <2>4 DEF Next, Step
<1>2. [Next]_vars => [Keeps]_vars
  BY <1>1
<1> HIDE DEF Keeps
<1>3. Spec => [][Keeps]_vars
  BY <1>2, PTL DEF Spec
<1> QED
  BY <1>3 DEF SavedKept, Keeps

-----------------------------------------------------------------------------
(* The calls under way together.                                           *)

(* Where a call that is in flight belongs.                                 *)
Place(a) ==
  \/ phase = "planning" /\ a \in Chunks /\ "objects" \in batch
  \/ phase = "planning" /\ \E c \in batch \ {"objects"} : a = Text(c)
  \/ phase = "checking" /\ a = Pass2
  \/ phase = "admitting" /\ a = Repair

Placed == \A a \in Asks : at[a] = "sent" => Place(a)

(* The chunks a window behind one in flight have ended.                    *)
Windowed ==
  \A a, b \in Chunks : at[a] = "sent" /\ b[2] + ChunkConcurrency <= a[2] => at[b] = "over"

Narrow == IsFiniteSet(batch) /\ Cardinality(batch) <= PlanConcurrency

Shape == Placed /\ Windowed /\ Narrow

(* The plan is a sequence of its names.                                     *)
Names == {"core", "objects"} \cup FeatureCalls

LEMMA OneSeq == ASSUME NEW S, NEW x \in S PROVE <<x>> \in Seq(S)
<1>1. <<x>> \in [1..1 -> S]
  OBVIOUS
<1> QED
  BY <1>1, SeqDef

LEMMA PlanSeq == Plan \in Seq(Names)
<1>1. <<"core">> \in Seq(Names) /\ <<"objects">> \in Seq(Names)
  BY OneSeq DEF Names
<1>2. <<>> \in Seq(Names)
  BY EmptySeq
<1>3. Features \in Seq(Names)
  <2>1. Len(Features) \in Nat /\ Features \in [1..Len(Features) -> Names]
    BY PlanAssumption, SeqDef DEF FeatureCalls, Names
  <2> QED
    BY <2>1, SeqDef
<1>4. CASE mode = "reader"
  BY <1>1, <1>4 DEF Plan
<1>5. CASE mode # "reader"
  <2> DEFINE o == IF NChunks = 0 THEN <<>> ELSE <<"objects">>
  <2>1. o \in Seq(Names)
    BY <1>1, <1>2
  <2>2. Plan = <<"core">> \o o \o Features
    BY <1>5 DEF Plan
  <2> HIDE DEF o
  <2>3. <<"core">> \o o \in Seq(Names)
    BY <1>1, <2>1
  <2> QED
    BY <1>3, <2>2, <2>3
<1> QED
  BY <1>4, <1>5

LEMMA PlanFinite == IsFiniteSet(PlanCalls) /\ PlanCalls \subseteq Names
<1> DEFINE p == Plan
           f == [i \in 1..Len(p) |-> p[i]]
<1>1. p \in Seq(Names)
  BY PlanSeq
<1> HIDE DEF p
<1>2. DOMAIN p = 1..Len(p) /\ Len(p) \in Nat /\ \A i \in DOMAIN p : p[i] \in Names
  BY <1>1
<1>3. PlanCalls = {p[i] : i \in 1..Len(p)}
  BY <1>2 DEF PlanCalls, p
<1>4. f \in Surjection(1..Len(p), PlanCalls)
  BY <1>3 DEF Surjection
<1>5. IsFiniteSet(1..Len(p))
  BY <1>2, FS_Interval
<1> QED
  BY <1>2, <1>3, <1>4, <1>5, FS_Surjection

LEMMA Least ==
  ASSUME NEW T \in SUBSET Nat, T # {}
  PROVE  \E x \in T : \A y \in T : x <= y
<1> DEFINE R == OpToRel(<, Nat)
<1>1. \A x, y \in Nat : <<x, y>> \in R <=> x < y
  BY DEF OpToRel
<1>2. IsWellFoundedOn(R, Nat)
  BY NatLessThanWellFounded
<1> HIDE DEF R
<1>3. PICK x \in T : \A y \in T : <<y, x>> \notin R
  BY <1>2, WFMin
<1>4. \A y \in T : x \in Nat /\ y \in Nat /\ ~(y < x)
  BY <1>1, <1>3
<1>5. \A y \in T : x <= y
  BY <1>4
<1> QED
  BY <1>5

(* The chunks in flight lie in a window.                                   *)
LEMMA ChunksWide ==
  ASSUME TypeOK, Windowed
  PROVE  /\ IsFiniteSet(InFlight \cap Chunks)
         /\ Cardinality(InFlight \cap Chunks) <= ChunkConcurrency
<1> DEFINE C == InFlight \cap Chunks
           I == {i \in 1..NChunks : Chunk(i) \in C}
<1>1. CASE C = {}
  BY <1>1, FS_EmptySet, BoundsAssumption
<1>2. CASE C # {}
  <2>1. I # {} /\ I \in SUBSET Nat
    BY <1>2, PlanAssumption DEF Chunks
  <2> HIDE DEF I
  <2>2. PICK m \in I : \A i \in I : m <= i
    BY <2>1, Least
  <2> USE DEF I
  <2> DEFINE W == m..(m + ChunkConcurrency - 1)
             f == [i \in W |-> Chunk(i)]
             T == {Chunk(i) : i \in W}
  <2>3. m \in Nat /\ Chunk(m) \in Chunks /\ m + ChunkConcurrency - 1 \in Nat
        /\ ChunkConcurrency \in Nat \ {0}
    BY <2>1, BoundsAssumption
  <2>4. at[Chunk(m)] # "over"
    BY DEF InFlight
  <2>5. C \subseteq T
    <3> SUFFICES ASSUME NEW a \in C PROVE a \in T
      OBVIOUS
    <3>1. PICK i \in 1..NChunks : a = Chunk(i)
      BY DEF Chunks
    <3>2. i \in I /\ m <= i /\ i \in Nat
      BY <3>1, <2>2, PlanAssumption
    <3>3. at[a] = "sent" /\ a[2] = i /\ Chunk(m)[2] = m
      BY <3>1 DEF InFlight, Chunk
    <3>4. ~(m + ChunkConcurrency <= i)
      BY <2>3, <2>4, <3>3 DEF Windowed
    <3>5. i \in W
      BY <2>3, <3>2, <3>4
    <3> QED
      BY <3>1, <3>5
  <2>6. f \in Surjection(W, T)
    BY DEF Surjection
  <2>7. IsFiniteSet(W) /\ Cardinality(W) = ChunkConcurrency
    <3>1. IsFiniteSet(W) /\ Cardinality(W) = IF m > m + ChunkConcurrency - 1 THEN 0
                                             ELSE (m + ChunkConcurrency - 1) - m + 1
      BY <2>3, FS_Interval
    <3> QED
      BY <3>1, <2>3
  <2> HIDE DEF f, W, C, I
  <2>8. IsFiniteSet(T) /\ Cardinality(T) <= Cardinality(W)
    BY <2>6, <2>7, FS_Surjection
  <2>9. IsFiniteSet(C) /\ Cardinality(C) <= Cardinality(T)
    BY <2>5, <2>8, FS_Subset
  <2>10. Cardinality(C) \in Nat /\ Cardinality(T) \in Nat
    BY <2>8, <2>9, FS_CardinalityType
  <2> QED
    BY <2>3, <2>7, <2>8, <2>9, <2>10 DEF C
<1> QED
  BY <1>1, <1>2

(* A set of text calls has as many members as there are plan calls.        *)
LEMMA TextsWide ==
  ASSUME NEW S, IsFiniteSet(S)
  PROVE  LET T == {Text(c) : c \in S} IN
         IsFiniteSet(T) /\ Cardinality(T) <= Cardinality(S) /\ Cardinality(T) \in Nat
<1> DEFINE T == {Text(c) : c \in S}
           f == [c \in S |-> Text(c)]
<1>1. f \in Surjection(S, T)
  BY DEF Surjection
<1> HIDE DEF f
<1>2. IsFiniteSet(T) /\ Cardinality(T) <= Cardinality(S)
  BY <1>1, FS_Surjection
<1> QED
  BY <1>2, FS_CardinalityType

LEMMA ChunkPlaces ==
  ASSUME NEW a \in Chunks, Place(a)
  PROVE  phase = "planning" /\ "objects" \in batch
BY DEF Place, Chunks, Chunk, Text, Pass2, Repair

(* No more calls are under way together than a batch with the object pass  *)
(* allows.                                                                 *)
NoWider ==
  /\ IsFiniteSet(InFlight) /\ Cardinality(InFlight) \in Nat
  /\ Cardinality(InFlight) <= Width /\ Width \in Nat

LEMMA Wide == TypeOK /\ Shape => NoWider
<1> SUFFICES ASSUME TypeOK, Shape PROVE NoWider
  OBVIOUS
<1> DEFINE S == batch \ {"objects"}
           T == {Text(c) : c \in S}
           C == InFlight \cap Chunks
<1>1. PlanConcurrency \in Nat \ {0} /\ ChunkConcurrency \in Nat \ {0}
      /\ Width = PlanConcurrency - 1 + ChunkConcurrency
  BY BoundsAssumption DEF Width
<1>2. \A a \in InFlight : Place(a)
  BY DEF Shape, Placed, InFlight
<1>3. CASE phase = "planning"
  <2>1. InFlight \subseteq T \cup C
    BY <1>2, <1>3 DEF Place
  <2>2. /\ IsFiniteSet(S) /\ Cardinality(S) \in Nat /\ Cardinality(batch) \in Nat
        /\ Cardinality(S) = IF "objects" \in batch THEN Cardinality(batch) - 1 ELSE Cardinality(batch)
        /\ Cardinality(batch) <= PlanConcurrency
    BY FS_RemoveElement, FS_CardinalityType DEF Shape, Narrow
  <2>3. IsFiniteSet(T) /\ Cardinality(T) <= Cardinality(S) /\ Cardinality(T) \in Nat
    BY <2>2, TextsWide
  <2>4. IsFiniteSet(C) /\ Cardinality(C) <= ChunkConcurrency /\ Cardinality(C) \in Nat
    BY ChunksWide, FS_CardinalityType DEF Shape
  <2>5. "objects" \in batch \/ Cardinality(C) = 0
    <3>1. CASE C = {}
      BY <3>1, FS_EmptySet
    <3>2. CASE C # {}
      BY <1>2, <3>2, ChunkPlaces
    <3> QED
      BY <3>1, <3>2
  <2> HIDE DEF S, T, C
  <2>6. /\ IsFiniteSet(T \cup C) /\ Cardinality(T \cup C) \in Nat
        /\ Cardinality(T \cup C) <= Cardinality(T) + Cardinality(C)
    <3>1. IsFiniteSet(T \cup C)
          /\ Cardinality(T \cup C) = Cardinality(T) + Cardinality(C) - Cardinality(T \cap C)
      BY <2>3, <2>4, FS_Union
    <3>2. IsFiniteSet(T \cap C) /\ Cardinality(T \cap C) \in Nat
      BY <2>3, FS_Intersection, FS_CardinalityType
    <3>3. Cardinality(T \cup C) \in Nat
      BY <3>1, FS_CardinalityType
    <3> QED
      BY <2>3, <2>4, <3>1, <3>2, <3>3
  <2>7. IsFiniteSet(InFlight) /\ Cardinality(InFlight) <= Cardinality(T \cup C)
        /\ Cardinality(InFlight) \in Nat
    BY <2>1, <2>6, FS_Subset, FS_CardinalityType
  <2>8. Cardinality(T) + Cardinality(C) <= Width
    BY <1>1, <2>2, <2>3, <2>4, <2>5
  <2> QED
    BY <1>1, <2>3, <2>4, <2>6, <2>7, <2>8 DEF NoWider
<1>4. CASE phase # "planning"
  <2>1. \E x : InFlight \subseteq {x}
    BY <1>2, <1>4 DEF Place
  <2>2. PICK x : InFlight \subseteq {x}
    BY <2>1
  <2>3. IsFiniteSet({x}) /\ Cardinality({x}) = 1
    BY FS_Singleton
  <2>4. IsFiniteSet(InFlight) /\ Cardinality(InFlight) <= 1 /\ Cardinality(InFlight) \in Nat
    BY <2>2, <2>3, FS_Subset, FS_CardinalityType
  <2> QED
    BY <1>1, <2>4 DEF NoWider
<1> QED
  BY <1>3, <1>4

LEMMA WideNext == TypeOK' /\ Shape' => NoWider'
BY Wide, PTL

LEMMA InitShape == Init => Shape
<1> SUFFICES ASSUME Init PROVE Shape
  OBVIOUS
<1>1. batch = {} /\ \A a \in Asks : at[a] = "waiting"
  BY DEF Init, Fresh
<1>2. Narrow
  BY <1>1, FS_EmptySet, BoundsAssumption DEF Narrow
<1> QED
  BY <1>1, <1>2, ChunkAsks DEF Shape, Placed, Windowed

(* The end of a call, or a pause of it, takes it out of flight.            *)
LEMMA LeaveShape ==
  ASSUME TypeOK, Shape, NEW a \in Asks, at[a] # "over", at'[a] # "sent",
         \A b \in Asks \ {a} : at'[b] = at[b], Rest
  PROVE  Shape'
<1>1. UNCHANGED <<phase, batch>>
  BY DEF Rest, plan
<1>2. Placed'
  BY <1>1 DEF Shape, Placed, Place
<1>3. Windowed'
  BY ChunkAsks DEF Shape, Windowed
<1>4. Narrow'
  BY <1>1 DEF Shape, Narrow
<1> QED
  BY <1>2, <1>3, <1>4 DEF Shape

LEMMA SettleShape ==
  ASSUME TypeInv, Shape, NEW a \in Asks, at[a] # "over", NEW r \in Values,
         NEW fs \in SUBSET Losable, Settle(a, r, fs), Rest
  PROVE  Shape' /\ InFlight' = InFlight \ {a}
<1>1. /\ at'[a] # "sent" /\ \A b \in Asks \ {a} : at'[b] = at[b]
  BY SettleEffect DEF TypeInv
<1> QED
  BY <1>1, LeaveShape DEF InFlight, TypeInv

(* A call starts where it belongs.                                         *)
LEMMA SendShape ==
  ASSUME TypeInv, Shape, NEW a \in Asks, Send(a)
  PROVE  Shape'
<1>1. /\ at' = [at EXCEPT ![a] = "sent"] /\ at[a] = "waiting" /\ Startable(a)
      /\ UNCHANGED <<phase, batch>>
  BY DEF Send, Startable, Rest, plan
<1>2. at'[a] = "sent" /\ \A b \in Asks \ {a} : at'[b] = at[b]
  BY <1>1 DEF TypeInv, TypeOK
<1>3. Place(a)
  BY <1>1 DEF Startable, Place
<1>4. Placed'
  BY <1>1, <1>2, <1>3 DEF Shape, Placed, Place
<1>5. a \in Chunks => \A b \in Chunks : b[2] + ChunkConcurrency <= a[2] => at[b] = "over"
  BY <1>1 DEF Startable, Chunks, Chunk, Text, Pass2, Repair
<1>6. Windowed'
  BY <1>1, <1>2, <1>5, ChunkAsks DEF Shape, Windowed
<1>7. Narrow'
  BY <1>1 DEF Shape, Narrow
<1> QED
  BY <1>4, <1>6, <1>7 DEF Shape

(* What every call does to the shape; the calls that end pay at most one.  *)
LEMMA CallShape ==
  ASSUME TypeInv, Shape, NEW a \in Asks, Call(a)
  PROVE  /\ Shape'
         /\ \/ spent' = spent /\ InFlight' \subseteq InFlight
            \/ spent' = spent /\ spent < Budget
            \/ spent' < Budget
            \/ spent' \in {spent, spent + 1} /\ a \in InFlight /\ InFlight' = InFlight \ {a}
<1>1. /\ TypeOK /\ spent \in Nat /\ None \in Values
      /\ failures \in SUBSET Losable /\ failures \cup {a} \in SUBSET Losable
  BY DEF TypeInv, TypeOK, Losable, Values
<1>2. \A s \in saved : s.value \in Values
  BY DEF TypeInv, Solid
<1>3. CASE Replay(a)
  <2>1. PICK s \in Kept(a) : Settle(a, s.value, failures)
    BY <1>3 DEF Replay
  <2>2. s.value \in Values /\ Rest /\ spent' = spent /\ at[a] # "over"
    BY <1>2, <1>3 DEF Replay, Kept, Startable
  <2> QED
    BY <1>1, <2>1, <2>2, SettleShape
<1>4. CASE Skip(a)
  BY <1>1, <1>4, SettleShape DEF Skip, Startable
<1>5. CASE Send(a)
  <2>1. spent' = spent /\ spent < Budget
    BY <1>5 DEF Send, session, WithinBudget
  <2> QED
    BY <1>5, <2>1, SendShape
<1>6. CASE Fails(a)
  <2>1. PICK cost \in {0, 1} : spent' = spent + cost /\ (Resend(a, cost) \/ GiveUp(a, cost))
    BY <1>6 DEF Fails
  <2>2. Rest /\ spent' \in {spent, spent + 1} /\ at[a] = "sent" /\ a \in InFlight
    BY <1>1, <1>6, <2>1 DEF Fails, InFlight
  <2>3. CASE Resend(a, cost)
    <3>1. at' = at /\ spent' < Budget
      BY <2>1, <2>3 DEF Resend, Resendable
    <3>2. Shape'
      BY <2>2, <3>1 DEF Shape, Placed, Place, Windowed, Narrow, Rest, plan
    <3> QED
      BY <3>1, <3>2
  <2>4. CASE GiveUp(a, cost)
    <3>1. Settle(a, None, failures \cup {a})
      BY <2>4 DEF GiveUp
    <3> QED
      BY <1>1, <2>2, <3>1, SettleShape
  <2> QED
    BY <2>1, <2>3, <2>4
<1>7. CASE Unreadable(a)
  <2>1. /\ Settle(a, None, failures \cup {a}) /\ Rest /\ spent' = spent + 1
        /\ at[a] = "sent" /\ a \in InFlight
    BY <1>7 DEF Unreadable, InFlight
  <2> QED
    BY <1>1, <2>1, SettleShape
<1>8. CASE Answered(a)
  <2>1. PICK v \in Answers(a) :
          \/ Settle(a, v, failures)
          \/ at' = [at EXCEPT ![a] = "saving"]
    BY <1>8 DEF Answered
  <2>2. v \in Values
    BY AnswerValues
  <2>3. Rest /\ spent' = spent + 1 /\ at[a] = "sent" /\ a \in InFlight
    BY <1>8 DEF Answered, InFlight
  <2>4. CASE Settle(a, v, failures)
    BY <1>1, <2>2, <2>3, <2>4, SettleShape
  <2>5. CASE at' = [at EXCEPT ![a] = "saving"]
    <3>1. at'[a] = "saving" /\ \A b \in Asks \ {a} : at'[b] = at[b]
      BY <1>1, <2>5 DEF TypeOK
    <3>2. Shape'
      BY <1>1, <2>3, <3>1, LeaveShape
    <3> QED
      BY <2>3, <3>1, <3>2 DEF InFlight
  <2> QED
    BY <2>1, <2>4, <2>5
<1>9. CASE Save(a)
  <2>1. got[a] \in Values
    BY <1>1 DEF TypeOK
  <2>2. Settle(a, got[a], failures) /\ Rest /\ spent' = spent /\ at[a] # "over"
    BY <1>9 DEF Save
  <2> QED
    BY <1>1, <2>1, <2>2, SettleShape
<1> QED
  BY <1>3, <1>4, <1>5, <1>6, <1>7, <1>8, <1>9 DEF Call

(* When the calls of a batch have ended none is in flight.                 *)
LEMMA BatchOver ==
  ASSUME TypeOK, Shape, phase = "planning", \A c \in batch : Ended(c)
  PROVE  \A a \in Asks : at[a] # "sent"
<1> SUFFICES ASSUME NEW a \in Asks, at[a] = "sent" PROVE FALSE
  OBVIOUS
<1>1. Place(a)
  BY DEF Shape, Placed
<1>2. CASE a \in Chunks /\ "objects" \in batch
  BY <1>2 DEF Ended, AsksOf
<1>3. CASE \E c \in batch \ {"objects"} : a = Text(c)
  BY <1>3 DEF Ended, AsksOf
<1> QED
  BY <1>1, <1>2, <1>3 DEF Place

LEMMA ShapeStep == TypeInv /\ Shape /\ [Next]_vars => Shape'
<1> SUFFICES ASSUME TypeInv, Shape, [Next]_vars PROVE Shape'
  OBVIOUS
<1>0. TypeOK
  BY DEF TypeInv
<1>a. ASSUME UNCHANGED <<phase, batch, at>> PROVE Shape'
  BY <1>a DEF Shape, Placed, Place, Windowed, Narrow
<1>b. ASSUME \A a \in Asks : at'[a] # "sent", Narrow' PROVE Shape'
  BY <1>b, ChunkAsks DEF Shape, Placed, Windowed
<1>c. ASSUME UNCHANGED batch PROVE Narrow'
  BY <1>c DEF Shape, Narrow
<1>1. CASE Start
  <2>1. \A a \in Asks : at'[a] # "sent"
    BY <1>1 DEF Start, calls, Shape, Placed, Place
  <2> QED
    BY <1>1, <1>b, <1>c, <2>1 DEF Start, plan
<1>2. CASE NextBatch
  <2>1. \A a \in Asks : at'[a] # "sent"
    BY <1>0, <1>2, BatchOver DEF NextBatch, calls
  <2>2. batch' \in SUBSET PlanCalls /\ Cardinality(batch') <= PlanConcurrency
    BY <1>0, <1>2 DEF NextBatch, Batches, Left, Ready, TypeOK
  <2>3. Narrow'
    BY <2>2, PlanFinite, FS_Subset DEF Narrow
  <2> QED
    BY <1>b, <2>1, <2>3
<1>3. CASE PlanOver
  <2>1. \A a \in Asks : at'[a] # "sent"
    BY <1>0, <1>3, BatchOver DEF PlanOver, calls
  <2>2. Narrow'
    BY <1>3, FS_EmptySet, BoundsAssumption DEF PlanOver, Narrow
  <2> QED
    BY <1>b, <2>1, <2>2
<1>4. CASE PagesUnreadable
  <2>1. /\ at' = [a \in Asks |-> IF a \in Chunks THEN "over" ELSE at[a]]
        /\ UNCHANGED <<phase, batch>>
    BY <1>4 DEF PagesUnreadable, Rest, plan
  <2>2. Placed'
    BY <2>1 DEF Shape, Placed, Place
  <2>3. Windowed'
    BY <2>1, ChunkAsks DEF Windowed
  <2> QED
    BY <1>c, <2>1, <2>2, <2>3 DEF Shape
<1>5. CASE Checked
  <2>1. \A a \in Asks : at'[a] # "sent"
    BY <1>5 DEF Checked, calls, Shape, Placed, Place
  <2> QED
    BY <1>5, <1>b, <1>c, <2>1 DEF Checked, plan
<1>6. CASE Admitted
  <2>1. \A a \in Asks : at'[a] # "sent"
    BY <1>6 DEF Admitted, calls, Shape, Placed, Place
  <2> QED
    BY <1>6, <1>b, <1>c, <2>1 DEF Admitted, plan
<1>7. ASSUME NEW o \in {"succeeded", "incomplete", "error", "crashed"}, End(o)
      PROVE  Shape'
  <2>1. \A a \in Asks : at'[a] # "sent"
    BY <1>0, <1>7, EndEffect
  <2>2. Narrow'
    BY <1>7, FS_EmptySet, BoundsAssumption DEF End, Narrow
  <2> QED
    BY <1>b, <2>1, <2>2
<1>8. CASE Write
  <2>1. CASE /\ phase' = "analyzing" /\ UNCHANGED <<mode, runs, plan, calls, session, outcome>>
    <3>1. \A a \in Asks : at'[a] # "sent"
      BY <1>8, <2>1 DEF Write, calls, Shape, Placed, Place
    <3> QED
      BY <1>b, <1>c, <2>1, <3>1 DEF plan
  <2> QED
    BY <1>7, <1>8, <2>1 DEF Write
<1>9. CASE Conclude
  BY <1>7, <1>9 DEF Conclude
<1>10. CASE Crash
  BY <1>7, <1>10 DEF Crash
<1>11. CASE \E a \in Asks : Call(a)
  BY <1>11, CallShape
<1>12. CASE UNCHANGED vars
  BY <1>12, <1>a DEF vars, plan, calls
<1> QED
  BY <1>1, <1>2, <1>3, <1>4, <1>5, <1>6, <1>8, <1>9, <1>10, <1>11, <1>12 DEF Next, Step

(* What is spent and what is in flight pass the budget by no more than the *)
(* calls that run together, and by none that is sent again.                *)
LEMMA SpendStep == TypeInv /\ Shape /\ SpendBounded /\ [Next]_vars => SpendBounded'
<1> SUFFICES ASSUME TypeInv, Shape, SpendBounded, [Next]_vars PROVE SpendBounded'
  OBVIOUS
<1>1. /\ TypeOK /\ TypeOK' /\ Shape'
  BY TypeStep, ShapeStep DEF TypeInv
<1>2. /\ IsFiniteSet(InFlight) /\ Cardinality(InFlight) \in Nat
      /\ Cardinality(InFlight) <= Width /\ Width \in Nat
  BY <1>1, Wide DEF NoWider
<1>3. /\ IsFiniteSet(InFlight') /\ Cardinality(InFlight') \in Nat
      /\ Cardinality(InFlight') <= Width
  BY <1>1, WideNext DEF NoWider, Width
<1>4. spent \in Nat /\ spent' \in Nat /\ Budget \in Nat \ {0}
      /\ spent + Cardinality(InFlight) < Budget + Width
  BY <1>1, BoundsAssumption DEF TypeOK, SpendBounded
<1>5. SpendBounded' <=> spent' + Cardinality(InFlight') < Budget + Width
  BY DEF SpendBounded, Width
<1>a. ASSUME spent' < Budget PROVE SpendBounded'
  BY <1>2, <1>3, <1>4, <1>5, <1>a
<1>b. ASSUME spent' = spent, InFlight' \subseteq InFlight PROVE SpendBounded'
  <2>1. Cardinality(InFlight') <= Cardinality(InFlight)
    BY <1>2, <1>b, FS_Subset
  <2> QED
    BY <1>2, <1>3, <1>4, <1>5, <1>b, <2>1
<1>c. ASSUME \E a \in Asks : Call(a) PROVE SpendBounded'
  <2>1. PICK a \in Asks : Call(a)
    BY <1>c
  <2>2. CASE spent' \in {spent, spent + 1} /\ a \in InFlight /\ InFlight' = InFlight \ {a}
    <3>1. Cardinality(InFlight') = Cardinality(InFlight) - 1
      BY <1>2, <2>2, FS_RemoveElement
    <3> QED
      BY <1>2, <1>3, <1>4, <1>5, <2>2, <3>1
  <2> QED
    BY <1>a, <1>b, <2>1, <2>2, CallShape
<1>d. ASSUME NEW o \in {"succeeded", "incomplete", "error", "crashed"}, End(o)
      PROVE  SpendBounded'
  <2>1. spent' = 0
    BY <1>d DEF End
  <2> QED
    BY <1>4, <1>a, <2>1
<1>e. ASSUME UNCHANGED <<spent, at>> PROVE SpendBounded'
  BY <1>b, <1>e DEF InFlight
<1>6. CASE PagesUnreadable
  <2>1. spent' = spent /\ at' = [a \in Asks |-> IF a \in Chunks THEN "over" ELSE at[a]]
    BY <1>6 DEF PagesUnreadable
  <2>2. InFlight' \subseteq InFlight
    BY <2>1 DEF InFlight
  <2> QED
    BY <1>b, <2>1, <2>2
<1>7. CASE Write \/ Conclude \/ Crash
  BY <1>7, <1>d, <1>e DEF Write, Conclude, Crash, calls, session
<1>8. CASE Start \/ NextBatch \/ PlanOver \/ Checked \/ Admitted \/ UNCHANGED vars
  BY <1>8, <1>e DEF Start, NextBatch, PlanOver, Checked, Admitted, vars, calls, session
<1> QED
  BY <1>6, <1>7, <1>8, <1>c DEF Next, Step

THEOREM SpendIsBounded == Spec => []SpendBounded
<1>1. Init => SpendBounded
  <2> SUFFICES ASSUME Init PROVE SpendBounded
    OBVIOUS
  <2>1. TypeOK /\ Shape /\ spent = 0 /\ Budget \in Nat \ {0}
    BY InitType, InitShape, BoundsAssumption DEF Init, TypeInv
  <2>2. Cardinality(InFlight) \in Nat /\ Cardinality(InFlight) <= Width /\ Width \in Nat
    BY <2>1, Wide DEF NoWider
  <2> QED
    BY <2>1, <2>2 DEF SpendBounded
<1>2. Spec => [](TypeInv /\ Shape /\ SpendBounded)
  BY <1>1, InitType, TypeStep, InitShape, ShapeStep, SpendStep, PTL DEF Spec
<1> QED
  BY <1>2, PTL

-----------------------------------------------------------------------------
(* What the record says of the calls that have ended, from the moment they *)
(* end.                                                                    *)
Accounted ==
  \A a \in Asks : at[a] = "over" =>
    /\ got[a] = None => stopped \/ a \in failures \/ (a \in Chunks /\ ObjectPass \in failures)
    /\ got[a] # None => a \notin failures

(* Only a chunk that is asked again has a failure before it has ended.     *)
Early == \A a \in Asks : at[a] # "over" /\ a \in failures => a \in again

Regained == \A a \in recovered : at[a] = "over" /\ got[a] # None

Complete == \A c \in over : \A a \in AsksOf(c) : at[a] = "over"

Ledger == Accounted /\ Early /\ Regained /\ Complete

LEMMA InitLedger == Init => Ledger
<1> SUFFICES ASSUME Init PROVE Ledger
  OBVIOUS
<1>1. /\ over = {} /\ recovered = {} /\ failures = {}
      /\ \A a \in Asks : at[a] = "waiting"
  BY DEF Init, Fresh
<1> QED
  BY <1>1 DEF Ledger, Accounted, Early, Regained, Complete

LEMMA ObjectPassApart == ObjectPass \notin Asks
<1>1. \A i \in 1..NChunks : i # 0
  BY PlanAssumption
<1> QED
  BY <1>1, PlanAssumption DEF ObjectPass, Asks, Chunks, Checks, Chunk, Text, Core, Pass2, Repair, FeatureCalls

LEMMA CallsAsked == \A c \in PlanCalls : AsksOf(c) \subseteq Asks
BY PlanFinite DEF Names, AsksOf, Asks, Core

(* The calls of over stay ended while no ended call is touched.            *)
LEMMA CompleteKept ==
  ASSUME TypeOK, Complete, over' = over,
         \A a \in Asks : at[a] = "over" => at'[a] = "over"
  PROVE  Complete'
<1> SUFFICES ASSUME NEW c \in over, NEW a \in AsksOf(c) PROVE at'[a] = "over"
  BY DEF Complete, AsksOf
<1>1. a \in Asks
  BY CallsAsked DEF TypeOK
<1> QED
  BY <1>1 DEF Complete

(* The end of a call keeps the account, when the failures it brings fit    *)
(* its value.                                                              *)
LEMMA SettleLedger ==
  ASSUME TypeInv, Ledger, NEW a \in Asks, at[a] # "over", NEW r \in Values,
         NEW fs \in SUBSET Losable, fs \in {failures, failures \cup {a}},
         r # None => fs = failures, r = None => stopped' \/ a \in fs,
         stopped => stopped', Settle(a, r, fs), over' = over
  PROVE  Ledger'
<1>1. TypeOK
  BY DEF TypeInv
<1>2. /\ at'[a] \in {"waiting", "over"}
      /\ \A b \in Asks \ {a} : at'[b] = at[b] /\ got'[b] = got[b]
      /\ again \subseteq again'
      /\ fs \ {a} \subseteq failures' /\ failures' \subseteq fs
      /\ recovered' \subseteq recovered \cup {a}
  BY <1>1, SettleEffect
<1>3. ObjectPass # a
  BY ObjectPassApart
<1>4. \A b \in Asks \ {a} : b \in failures' <=> b \in failures
  BY <1>2
<1>5. ObjectPass \in failures => ObjectPass \in failures'
  BY <1>2, <1>3
<1>6. Complete'
  BY <1>1, <1>2, CompleteKept DEF Ledger
<1>7. recovered \subseteq Asks /\ a \notin recovered /\ recovered' \subseteq Asks
  BY <1>1, <1>2, ChunkAsks DEF TypeOK, Ledger, Regained
<1>8. \A b \in Asks \ {a} :
        /\ at'[b] = "over" =>
             /\ got'[b] = None =>
                  stopped' \/ b \in failures' \/ (b \in Chunks /\ ObjectPass \in failures')
             /\ got'[b] # None => b \notin failures'
        /\ at'[b] # "over" /\ b \in failures' => b \in again'
        /\ b \in recovered' => at'[b] = "over" /\ got'[b] # None
  BY <1>2, <1>4, <1>5 DEF Ledger, Accounted, Early, Regained
<1>9. CASE NeedsRetry(a, r)
  <2>1. at' = [at EXCEPT ![a] = "waiting"] /\ again' = again \cup {a} /\ recovered' = recovered
    BY <1>9 DEF Settle
  <2>2. at'[a] = "waiting" /\ a \in again' /\ a \notin recovered'
    BY <1>1, <1>7, <2>1 DEF TypeOK
  <2> QED
    BY <1>6, <1>7, <1>8, <2>2 DEF Ledger, Accounted, Early, Regained
<1>10. CASE ~NeedsRetry(a, r)
  <2> DEFINE v == IF a \in again THEN Better(first[a], r) ELSE r
  <2>1. /\ at' = [at EXCEPT ![a] = "over"] /\ got' = [got EXCEPT ![a] = v]
        /\ IF a \in again /\ got'[a] # None THEN Recover(a, fs)
           ELSE failures' = fs /\ UNCHANGED recovered
    BY <1>10 DEF Settle
  <2>2. v = None => r = None
    BY DEF Better
  <2>3. v # None /\ a \notin again => a \notin fs
    BY <2>2 DEF Ledger, Early
  <2> HIDE DEF v
  <2>4. at'[a] = "over" /\ got'[a] = v
    BY <1>1, <2>1 DEF TypeOK
  <2>5. CASE a \in again /\ v # None
    <3>1. a \notin failures'
      BY <2>1, <2>4, <2>5 DEF Recover
    <3> QED
      BY <1>6, <1>7, <1>8, <2>4, <2>5, <3>1 DEF Ledger, Accounted, Early, Regained
  <2>6. CASE ~(a \in again /\ v # None)
    <3>1. failures' = fs /\ recovered' = recovered
      BY <2>1, <2>4, <2>6
    <3>2. /\ v = None => stopped' \/ a \in failures'
          /\ v # None => a \notin failures'
      BY <2>2, <2>3, <2>6, <3>1
    <3> QED
      BY <1>6, <1>7, <1>8, <2>4, <3>1, <3>2 DEF Ledger, Accounted, Early, Regained
  <2> QED
    BY <2>5, <2>6
<1> QED
  BY <1>9, <1>10

(* A call that has not ended and does not end now leaves the account.      *)
LEMMA PauseLedger ==
  ASSUME TypeOK, Ledger, NEW a \in Asks, at[a] # "over", at'[a] # "over",
         \A b \in Asks \ {a} : at'[b] = at[b] /\ got'[b] = got[b],
         UNCHANGED <<again, failures, recovered, stopped, over>>
  PROVE  Ledger'
<1>1. Complete'
  BY CompleteKept DEF Ledger
<1>2. a \notin recovered /\ recovered \subseteq Asks
  BY ChunkAsks DEF TypeOK, Ledger, Regained
<1> QED
  BY <1>1, <1>2 DEF Ledger, Accounted, Early, Regained

LEMMA CallLedger ==
  ASSUME TypeInv, Ledger, NEW a \in Asks, Call(a)
  PROVE  Ledger'
<1>1. /\ TypeOK /\ None \in Values
      /\ failures \in SUBSET Losable /\ failures \cup {a} \in SUBSET Losable
  BY DEF TypeInv, TypeOK, Losable, Values
<1>2. \A s \in saved : s.value \in Values \ {None}
  BY DEF TypeInv, Solid
<1>3. CASE Replay(a)
  <2>1. PICK s \in Kept(a) : Settle(a, s.value, failures)
    BY <1>3 DEF Replay
  <2>2. s.value \in Values \ {None} /\ over' = over /\ stopped' = stopped /\ at[a] # "over"
    BY <1>2, <1>3 DEF Replay, Kept, Startable, Rest, plan
  <2> QED
    BY <1>1, <2>1, <2>2, SettleLedger
<1>4. CASE Skip(a)
  <2>1. /\ Settle(a, None, failures) /\ stopped' = TRUE /\ over' = over /\ at[a] # "over"
    BY <1>4 DEF Skip, Startable, Rest, plan
  <2> QED
    BY <1>1, <2>1, SettleLedger
<1>5. CASE Send(a)
  <2>1. /\ at[a] # "over" /\ at' = [at EXCEPT ![a] = "sent"]
        /\ UNCHANGED <<again, got, failures, recovered, stopped, over>>
    BY <1>5 DEF Send, Startable, Rest, plan, session
  <2>2. at'[a] = "sent" /\ \A b \in Asks \ {a} : at'[b] = at[b]
    BY <1>1, <2>1 DEF TypeOK
  <2> QED
    BY <1>1, <2>1, <2>2, PauseLedger
<1>6. CASE Fails(a)
  <2>1. PICK cost \in {0, 1} : Resend(a, cost) \/ GiveUp(a, cost)
    BY <1>6 DEF Fails
  <2>2. over' = over /\ at[a] # "over"
    BY <1>6 DEF Fails, Rest, plan
  <2>3. CASE Resend(a, cost)
    <3>1. UNCHANGED <<at, again, got, failures, recovered, stopped>>
      BY <2>3 DEF Resend
    <3> QED
      BY <1>1, <2>2, <3>1, PauseLedger
  <2>4. CASE GiveUp(a, cost)
    <3>1. Settle(a, None, failures \cup {a}) /\ (stopped => stopped')
      BY <2>4 DEF GiveUp
    <3> QED
      BY <1>1, <2>2, <3>1, SettleLedger
  <2> QED
    BY <2>1, <2>3, <2>4
<1>7. CASE Unreadable(a)
  <2>1. /\ Settle(a, None, failures \cup {a}) /\ over' = over /\ stopped' = stopped
        /\ at[a] # "over"
    BY <1>7 DEF Unreadable, Rest, plan
  <2> QED
    BY <1>1, <2>1, SettleLedger
<1>8. CASE Answered(a)
  <2>1. PICK v \in Answers(a) :
          \/ Settle(a, v, failures)
          \/ /\ at' = [at EXCEPT ![a] = "saving"] /\ got' = [got EXCEPT ![a] = v]
             /\ UNCHANGED <<again, first, failures, recovered>>
    BY <1>8 DEF Answered
  <2>2. v \in Values \ {None}
    BY AnswerValues
  <2>3. over' = over /\ stopped' = stopped /\ at[a] # "over"
    BY <1>8 DEF Answered, Rest, plan
  <2>4. CASE Settle(a, v, failures)
    BY <1>1, <2>2, <2>3, <2>4, SettleLedger
  <2>5. CASE /\ at' = [at EXCEPT ![a] = "saving"] /\ got' = [got EXCEPT ![a] = v]
             /\ UNCHANGED <<again, first, failures, recovered>>
    <3>1. /\ at'[a] = "saving"
          /\ \A b \in Asks \ {a} : at'[b] = at[b] /\ got'[b] = got[b]
      BY <1>1, <2>5 DEF TypeOK
    <3> QED
      BY <1>1, <2>3, <2>5, <3>1, PauseLedger
  <2> QED
    BY <2>1, <2>4, <2>5
<1>9. CASE Save(a)
  <2>1. got[a] \in Values \ {None}
    BY <1>1, <1>9 DEF TypeInv, TypeOK, Solid, Save
  <2>2. Settle(a, got[a], failures) /\ over' = over /\ stopped' = stopped /\ at[a] # "over"
    BY <1>9 DEF Save, Rest, plan
  <2> QED
    BY <1>1, <2>1, <2>2, SettleLedger
<1> QED
  BY <1>3, <1>4, <1>5, <1>6, <1>7, <1>8, <1>9 DEF Call

LEMMA LedgerStep == TypeInv /\ Ledger /\ [Next]_vars => Ledger'
<1> SUFFICES ASSUME TypeInv, Ledger, [Next]_vars PROVE Ledger'
  OBVIOUS
<1>0. TypeOK /\ TypeOK'
  BY TypeStep DEF TypeInv
<1>a. ASSUME UNCHANGED <<at, got, again, stopped, failures, recovered>>, Complete' PROVE Ledger'
  BY <1>a DEF Ledger, Accounted, Early, Regained
<1>b. ASSUME UNCHANGED <<at, over>> PROVE Complete'
  BY <1>0, <1>b, CompleteKept DEF Ledger
<1>1. CASE NextBatch \/ PlanOver
  <2>1. /\ over' = over \cup batch /\ \A c \in batch : Ended(c)
        /\ UNCHANGED <<at, got, again, stopped, failures, recovered>>
    BY <1>1 DEF NextBatch, PlanOver, calls, session
  <2>2. Complete'
    BY <2>1 DEF Ledger, Complete, Ended, AsksOf
  <2> QED
    BY <1>a, <2>1, <2>2
<1>2. CASE Start \/ Checked \/ Admitted \/ UNCHANGED vars
  BY <1>2, <1>a, <1>b DEF Start, Checked, Admitted, vars, plan, calls, session
<1>3. CASE PagesUnreadable
  <2>1. /\ at' = [a \in Asks |-> IF a \in Chunks THEN "over" ELSE at[a]]
        /\ failures' = failures \cup {ObjectPass}
        /\ \A a \in Chunks : at[a] = "waiting" /\ a \notin again
        /\ UNCHANGED <<again, got, stopped, recovered, over>>
    BY <1>3 DEF PagesUnreadable, Rest, plan
  <2>2. Complete'
    BY <1>0, <2>1, CompleteKept DEF Ledger
  <2>3. Accounted'
    BY <2>1, ObjectPassApart DEF Ledger, Accounted, Early
  <2>4. Early'
    BY <2>1, ObjectPassApart DEF Ledger, Early
  <2>5. Regained'
    BY <1>0, <2>1, ChunkAsks DEF Ledger, Regained, TypeOK
  <2> QED
    BY <2>2, <2>3, <2>4, <2>5 DEF Ledger
<1>4. ASSUME NEW o \in {"succeeded", "incomplete", "error", "crashed"}, End(o)
      PROVE  Ledger'
  <2>1. \A a \in Asks : at'[a] = "waiting"
    BY <1>0, <1>4, EndEffect
  <2>2. over' = {} /\ failures' = {} /\ recovered' = {}
    BY <1>4 DEF End
  <2> QED
    BY <2>1, <2>2 DEF Ledger, Accounted, Early, Regained, Complete
<1>5. CASE Write
  <2>1. CASE UNCHANGED <<mode, runs, plan, calls, session, outcome>>
    BY <2>1, <1>a, <1>b DEF plan, calls, session
  <2> QED
    BY <1>4, <1>5, <2>1 DEF Write
<1>6. CASE Conclude \/ Crash
  BY <1>4, <1>6 DEF Conclude, Crash
<1>7. CASE \E a \in Asks : Call(a)
  BY <1>7, CallLedger
<1> QED
  BY <1>1, <1>2, <1>3, <1>5, <1>6, <1>7 DEF Next, Step

(* A record without a failure and without a stop of the budget lacks no    *)
(* answer it asked for.                                                    *)
THEOREM LossesAreRecorded == Spec => []LossesRecorded
<1>1. TypeInv /\ Ledger => LossesRecorded
  <2> SUFFICES ASSUME TypeInv, Ledger, NEW a \in Asked
               PROVE  /\ got[a] = None =>
                           stopped \/ a \in failures \/ (a \in Chunks /\ ObjectPass \in failures)
                      /\ got[a] # None => a \notin failures
                      /\ a \in recovered => got[a] # None
    BY DEF LossesRecorded
  <2>1. a \in Asks /\ at[a] = "over"
    <3>1. CASE a \in {x \in Checks : at[x] = "over"}
      BY <3>1 DEF Asks
    <3>2. CASE a \in UNION {AsksOf(c) : c \in over}
      <4>1. PICK c \in over : a \in AsksOf(c)
        BY <3>2
      <4> QED
        BY <4>1, CallsAsked DEF TypeInv, TypeOK, Ledger, Complete
    <3> QED
      BY <3>1, <3>2 DEF Asked
  <2> QED
    BY <2>1 DEF Ledger, Accounted, Regained
<1>2. Spec => [](TypeInv /\ Ledger)
  BY InitType, TypeStep, InitLedger, LedgerStep, PTL DEF Spec
<1> QED
  BY <1>1, <1>2, PTL

-----------------------------------------------------------------------------
(* Experiments, with one process at a time: what is executed or handled is  *)
(* so by the process that is open, what is recovered by one that serves     *)
(* nothing yet, and nobody is about to write a run that is judged.          *)
RunTables ==
  /\ file = [x \in Runs |-> file[x]] /\ exec = [x \in Runs |-> exec[x]]
  /\ todo = [p \in Processes |-> todo[p]] /\ found = [p \in Processes |-> found[p]]
  /\ call = [h \in Handlers |-> call[h]] /\ lock = [p \in Processes |-> lock[p]]

OneOpen == \A p, q \in Processes : Open(p) /\ Open(q) => p = q

ExecutionsOK ==
  \A x \in Runs : exec[x] # Absent =>
    /\ exec[x] = [by |-> exec[x].by, arms |-> exec[x].arms, left |-> exec[x].left]
    /\ exec[x].by \in Processes /\ Serves(exec[x].by)
    /\ Status(x) # "completed"

RecoveriesOK ==
  \A p \in Processes : found[p] # Absent =>
    /\ Open(p) /\ found[p].run \in todo[p] /\ found[p].run \in Runs
    /\ Status(found[p].run) # "completed"

CallOK(c, h) ==
  /\ c.op \in {"import", "judge", "store"} /\ c.run \in Runs
  /\ c.by \in Processes /\ Serves(c.by)
  /\ c.by \in Commands => /\ \A x \in Runs : exec[x] = Absent
                          /\ \A g \in Handlers : call[g] # Idle => g = h
  /\ c.op = "import" => c.by \in Commands /\ c.run \notin Judged(judgments)
  /\ c.op \in {"judge", "store"} => Status(c.run) = "completed" /\ file[c.run].arms = c.about
  /\ c.op = "store" => lock[c.by] = h /\ c.read = judgments

HandlersOK == \A h \in Handlers : call[h] # Idle => CallOK(call[h], h)

JudgmentsOK ==
  \A j \in judgments : j.run \in Runs /\ Status(j.run) = "completed" /\ file[j.run].arms = j.about

RunsInv ==
  RunTables /\ OneOpen /\ ExecutionsOK /\ RecoveriesOK /\ HandlersOK /\ JudgmentsOK

LEMMA NoCall == \A h \in Handlers : call[h].op # "none" => call[h] # Idle
BY DEF Idle

LEMMA RunsInit ==
  ASSUME ExperimentsInit
  PROVE  RunsInv
BY DEF ExperimentsInit, RunsInv, RunTables, OneOpen, ExecutionsOK, RecoveriesOK, HandlersOK,
       JudgmentsOK, Open

(* The status and the arms of a run are those of its file.                  *)
LEMMA SameFile ==
  ASSUME NEW x, file'[x] = file[x]
  PROVE  Status(x)' = Status(x)
BY DEF Status

(* Nothing is under way without a process that serves.                      *)
LEMMA NobodyServes ==
  ASSUME RunsInv, \A p \in Processes : ~Serves(p)
  PROVE  /\ \A x \in Runs : exec[x] = Absent
         /\ \A h \in Handlers : call[h] = Idle
BY DEF RunsInv, ExecutionsOK, HandlersOK, CallOK

LEMMA OpenKeeps ==
  ASSUME RunsInv, ~Beside, NEW p \in Processes, OpenDirectory(p)
  PROVE  RunsInv'
<1>1. \A q \in Processes : ~Open(q)
  BY DEF OpenDirectory
<1>2. /\ \A x \in Runs : exec[x] = Absent
      /\ \A h \in Handlers : call[h] = Idle
      /\ \A q \in Processes : found[q] = Absent
  BY <1>1, NobodyServes DEF Serves, RunsInv, RecoveriesOK
<1>3. /\ UNCHANGED <<file, judgments, found, exec, call, lock>>
      /\ todo' = [todo EXCEPT ![p] = Runs]
  BY DEF OpenDirectory
<1>4. RunTables'
  BY <1>3 DEF RunsInv, RunTables
<1>5. OneOpen'
  BY <1>1, <1>3 DEF OneOpen, Open, RunsInv, RunTables
<1>6. ExecutionsOK' /\ HandlersOK' /\ RecoveriesOK'
  BY <1>2, <1>3 DEF ExecutionsOK, HandlersOK, RecoveriesOK
<1>7. JudgmentsOK'
  BY <1>3 DEF RunsInv, JudgmentsOK, Status
<1>8. QED BY <1>4, <1>5, <1>6, <1>7 DEF RunsInv

LEMMA RecoverReadKeeps ==
  ASSUME RunsInv, NEW p \in Processes, NEW x \in Runs, RecoverRead(p, x)
  PROVE  RunsInv'
<1>1. /\ Open(p) /\ x \in todo[p] /\ found[p] = Absent
      /\ UNCHANGED <<file, judgments, exec, call, lock>>
      /\ \/ Status(x) = "running" /\ UNCHANGED todo
            /\ found' = [found EXCEPT ![p] = [run |-> x, arms |-> file[x].arms]]
         \/ todo' = [todo EXCEPT ![p] = @ \ {x}] /\ UNCHANGED found
  BY DEF RecoverRead
<1>2. \A q \in Processes : ~Serves(q)
  BY <1>1 DEF Serves, RunsInv, OneOpen
<1>3. /\ \A y \in Runs : exec[y] = Absent
      /\ \A h \in Handlers : call[h] = Idle
      /\ \A q \in Processes : found[q] = Absent
  BY <1>1, <1>2, NobodyServes DEF RunsInv, RecoveriesOK, OneOpen
<1>4. RunTables' /\ OneOpen'
  BY <1>1 DEF OneOpen, Open, RunsInv, RunTables
<1>5. ExecutionsOK' /\ HandlersOK'
  BY <1>1, <1>3 DEF ExecutionsOK, HandlersOK
<1>6. JudgmentsOK' /\ Status(x)' = Status(x)
  BY <1>1 DEF RunsInv, JudgmentsOK, Status
<1>7. RecoveriesOK'
  <2>1. CASE UNCHANGED found
    BY <1>3, <2>1 DEF RecoveriesOK
  <2>2. CASE /\ Status(x) = "running" /\ UNCHANGED todo
             /\ found' = [found EXCEPT ![p] = [run |-> x, arms |-> file[x].arms]]
    <3>1. ASSUME NEW q \in Processes, found'[q] # Absent
          PROVE  q = p /\ found'[q].run = x
      BY <1>3, <2>2, <3>1 DEF RunsInv, RunTables
    <3>2. QED BY <1>1, <1>6, <2>2, <3>1 DEF RecoveriesOK, Open
  <2>3. QED BY <1>1, <2>1, <2>2
<1>8. QED BY <1>4, <1>5, <1>6, <1>7 DEF RunsInv

LEMMA RecoverWriteKeeps ==
  ASSUME RunsInv, NEW p \in Processes, RecoverWrite(p)
  PROVE  RunsInv'
<1> DEFINE x == found[p].run
<1>1. /\ found[p] # Absent /\ UNCHANGED <<judgments, exec, call, lock>>
      /\ file' = [file EXCEPT ![x] = [status |-> "failed", arms |-> Errored(found[p].arms)]]
      /\ todo' = [todo EXCEPT ![p] = @ \ {x}] /\ found' = [found EXCEPT ![p] = Absent]
  BY DEF RecoverWrite, WrittenAs
<1>2. Open(p) /\ x \in todo[p] /\ x \in Runs /\ Status(x) # "completed"
  BY <1>1 DEF RunsInv, RecoveriesOK
<1> HIDE DEF x
<1>3. \A q \in Processes : ~Serves(q)
  BY <1>2 DEF Serves, RunsInv, OneOpen
<1>4. /\ \A y \in Runs : exec[y] = Absent
      /\ \A h \in Handlers : call[h] = Idle
      /\ \A q \in Processes : q # p => found[q] = Absent
  BY <1>2, <1>3, NobodyServes DEF RunsInv, RecoveriesOK, OneOpen
<1>5. RunTables' /\ OneOpen'
  BY <1>1, <1>2 DEF OneOpen, Open, RunsInv, RunTables
<1>6. ExecutionsOK' /\ HandlersOK'
  BY <1>1, <1>4 DEF ExecutionsOK, HandlersOK
<1>7. RecoveriesOK'
  BY <1>1, <1>4 DEF RecoveriesOK, RunsInv, RunTables
<1>8. JudgmentsOK'
  <2>1. ASSUME NEW j \in judgments PROVE file'[j.run] = file[j.run]
    BY <1>1, <1>2, <2>1 DEF RunsInv, JudgmentsOK, RunTables
  <2>2. QED BY <1>1, <2>1 DEF RunsInv, JudgmentsOK, Status
<1>9. QED BY <1>5, <1>6, <1>7, <1>8 DEF RunsInv

(* A run that is not completed is written: nothing that is known of the     *)
(* completed ones changes.                                                  *)
LEMMA OthersStay ==
  ASSUME RunsInv, NEW x \in Runs, Status(x) # "completed",
         \A y \in Runs : y # x => file'[y] = file[y], UNCHANGED judgments
  PROVE  /\ JudgmentsOK'
         /\ \A y \in Runs : Status(y) = "completed" => Status(y)' = "completed" /\ file'[y] = file[y]
BY DEF RunsInv, JudgmentsOK, Status

LEMMA PrepareKeeps ==
  ASSUME RunsInv, NEW p \in Processes, NEW x \in Runs, Prepare(p, x)
  PROVE  RunsInv'
<1> DEFINE record == [status |-> "running", arms |-> Blank]
<1>1. /\ Serves(p) /\ file[x] = Absent /\ (p \in Commands => ~Handles(p))
      /\ UNCHANGED <<judgments, todo, found, call, lock>>
      /\ file' = [file EXCEPT ![x] = record]
      /\ \/ exec' = [exec EXCEPT ![x] = [by |-> p, arms |-> Blank, left |-> Arms]]
         \/ UNCHANGED exec
  BY DEF Prepare, WrittenAs
<1>2. Status(x) # "completed" /\ record.status # "completed"
  BY <1>1 DEF Status
<1> HIDE DEF record
<1>3. /\ file'[x] = record /\ \A y \in Runs : y # x => file'[y] = file[y]
      /\ \A y \in Runs : y # x => exec'[y] = exec[y]
  BY <1>1 DEF RunsInv, RunTables
<1>4. JudgmentsOK' /\ \A y \in Runs : Status(y) = "completed" => Status(y)' = "completed" /\ file'[y] = file[y]
  BY <1>1, <1>2, <1>3, OthersStay
<1>5. Status(x)' # "completed"
  BY <1>2, <1>3 DEF Status
<1>6. RunTables' /\ OneOpen'
  BY <1>1 DEF OneOpen, Open, RunsInv, RunTables
<1>7. \A q \in Processes : Serves(q) = Serves(q)'
  BY <1>1 DEF Serves, Open
<1>8. ExecutionsOK'
  <2> SUFFICES ASSUME NEW y \in Runs, exec'[y] # Absent
               PROVE  /\ exec'[y] = [by |-> exec'[y].by, arms |-> exec'[y].arms, left |-> exec'[y].left]
                      /\ exec'[y].by \in Processes /\ Serves(exec[y].by)'
                      /\ Status(y)' # "completed"
    BY DEF ExecutionsOK
  <2>1. CASE exec'[y] = exec[y]
    <3>1. Status(y)' # "completed"
      BY <1>3, <1>5, <2>1 DEF RunsInv, ExecutionsOK, Status
    <3>2. QED BY <1>7, <2>1, <3>1 DEF RunsInv, ExecutionsOK
  <2>2. CASE y = x /\ exec' = [exec EXCEPT ![x] = [by |-> p, arms |-> Blank, left |-> Arms]]
    <3>1. exec'[y] = [by |-> p, arms |-> Blank, left |-> Arms]
      BY <2>2 DEF RunsInv, RunTables
    <3>2. QED BY <1>1, <1>5, <1>7, <2>2, <3>1
  <2>3. QED BY <1>1, <1>3, <2>1, <2>2
<1>9. RecoveriesOK'
  <2>1. \A q \in Processes : found[q] = Absent
    BY <1>1 DEF RunsInv, RecoveriesOK, OneOpen, Serves
  <2>2. QED BY <1>1, <2>1 DEF RecoveriesOK
<1>10. HandlersOK'
  <2> SUFFICES ASSUME NEW h \in Handlers, call[h] # Idle PROVE CallOK(call[h], h)'
    BY <1>1 DEF HandlersOK
  <2> DEFINE c == call[h]
  <2>1. CallOK(c, h) BY DEF RunsInv, HandlersOK
  <2>2. c.by = p
    BY <1>1, <2>1 DEF CallOK, RunsInv, OneOpen, Serves
  <2>3. c.by \notin Commands
    BY <1>1, <2>2 DEF Handles
  <2>4. (Status(c.run) = Status(c.run)' /\ file'[c.run] = file[c.run]) \/ c.op = "import"
    BY <1>1, <1>4, <2>1 DEF CallOK
  <2>5. QED BY <1>1, <1>4, <1>7, <2>1, <2>3, <2>4 DEF CallOK
<1>11. QED BY <1>4, <1>6, <1>8, <1>9, <1>10 DEF RunsInv

(* A step of an execution, which ends it or leaves the run running.         *)
LEMMA ExecutionWrites ==
  ASSUME RunsInv, NEW x \in Runs, exec[x] # Absent,
         UNCHANGED <<judgments, todo, found, call, lock>>,
         NEW record, file' = [file EXCEPT ![x] = record],
         NEW e, exec' = [exec EXCEPT ![x] = e],
         e = Absent \/ /\ e = [by |-> exec[x].by, arms |-> e.arms, left |-> e.left]
                       /\ record.status # "completed"
  PROVE  RunsInv'
<1>1. Serves(exec[x].by) /\ exec[x].by \in Processes /\ Status(x) # "completed"
  BY DEF RunsInv, ExecutionsOK
<1>3. /\ file'[x] = record /\ \A y \in Runs : y # x => file'[y] = file[y]
      /\ exec'[x] = e /\ \A y \in Runs : y # x => exec'[y] = exec[y]
  BY DEF RunsInv, RunTables
<1>4. JudgmentsOK' /\ \A y \in Runs : Status(y) = "completed" => Status(y)' = "completed" /\ file'[y] = file[y]
  BY <1>1, <1>3, OthersStay
<1>6. RunTables' /\ OneOpen'
  BY DEF OneOpen, Open, RunsInv, RunTables
<1>7. \A q \in Processes : Serves(q) = Serves(q)'
  BY DEF Serves, Open
<1>8. ExecutionsOK'
  <2> SUFFICES ASSUME NEW y \in Runs, exec'[y] # Absent
               PROVE  /\ exec'[y] = [by |-> exec'[y].by, arms |-> exec'[y].arms, left |-> exec'[y].left]
                      /\ exec'[y].by \in Processes /\ Serves(exec[y].by)'
                      /\ Status(y)' # "completed"
    BY DEF ExecutionsOK
  <2>1. CASE y # x
    <3>1. Status(y)' # "completed"
      BY <1>3, <2>1 DEF RunsInv, ExecutionsOK, Status
    <3>2. QED BY <1>3, <1>7, <2>1, <3>1 DEF RunsInv, ExecutionsOK
  <2>2. CASE y = x
    <3>1. Status(y)' # "completed"
      BY <1>3, <2>2 DEF Status
    <3>2. QED BY <1>1, <1>3, <1>7, <2>2, <3>1
  <2>3. QED BY <2>1, <2>2
<1>9. RecoveriesOK'
  <2>1. \A q \in Processes : found[q] = Absent
    BY <1>1 DEF RunsInv, RecoveriesOK, OneOpen, Serves
  <2>2. QED BY <2>1 DEF RecoveriesOK
<1>10. HandlersOK'
  <2> SUFFICES ASSUME NEW h \in Handlers, call[h] # Idle PROVE CallOK(call[h], h)'
    BY DEF HandlersOK
  <2> DEFINE c == call[h]
  <2>1. CallOK(c, h) BY DEF RunsInv, HandlersOK
  <2>2. c.by \notin Commands
    BY <2>1 DEF CallOK
  <2>4. (Status(c.run) = Status(c.run)' /\ file'[c.run] = file[c.run]) \/ c.op = "import"
    BY <1>4, <2>1 DEF CallOK
  <2>5. QED BY <1>4, <1>7, <2>1, <2>2, <2>4 DEF CallOK
<1>11. QED BY <1>4, <1>6, <1>8, <1>9, <1>10 DEF RunsInv

LEMMA ExecutionKeeps ==
  ASSUME RunsInv, NEW x \in Runs, Execution(x)
  PROVE  RunsInv'
<1>1. CASE ExecutionFails(x)
  BY <1>1, ExecutionWrites DEF ExecutionFails, WrittenAs
<1>2. ASSUME NEW a \in Arms, ArmEnds(x, a) PROVE RunsInv'
  <2>1. exec[x] = [by |-> exec[x].by, arms |-> exec[x].arms, left |-> exec[x].left]
    BY <1>2 DEF RunsInv, ExecutionsOK, ArmEnds
  <2>2. PICK arms, left, status :
          /\ file' = [file EXCEPT ![x] = [status |-> status, arms |-> arms]]
          /\ \/ status = "running" /\ exec' = [exec EXCEPT ![x].arms = arms, ![x].left = left]
             \/ exec' = [exec EXCEPT ![x] = Absent]
    BY <1>2 DEF ArmEnds, WrittenAs
  <2>3. exec[x] # Absent /\ UNCHANGED <<judgments, todo, found, call, lock>>
    BY <1>2 DEF ArmEnds
  <2>4. CASE exec' = [exec EXCEPT ![x] = Absent]
    BY <2>2, <2>3, <2>4, ExecutionWrites
  <2>5. CASE status = "running" /\ exec' = [exec EXCEPT ![x].arms = arms, ![x].left = left]
    <3> DEFINE e == [by |-> exec[x].by, arms |-> arms, left |-> left]
               record == [status |-> status, arms |-> arms]
    <3>1. [exec[x] EXCEPT !.arms = arms, !.left = left] = e
      <4> DEFINE f == [exec[x] EXCEPT !.arms = arms, !.left = left]
                 fields == {"by", "arms", "left"}
      <4>1. DOMAIN exec[x] = fields
        BY <2>1
      <4>2. f = [k \in DOMAIN exec[x] |-> f[k]] /\ e = [k \in fields |-> e[k]]
        OBVIOUS
      <4>3. f.by = exec[x].by /\ f.arms = arms /\ f.left = left
        BY <4>1
      <4>4. e.by = exec[x].by /\ e.arms = arms /\ e.left = left
        OBVIOUS
      <4> HIDE DEF f, e
      <4>5. f = e
        BY <4>1, <4>2, <4>3, <4>4
      <4>6. QED BY <4>5 DEF f
    <3>2. exec' = [exec EXCEPT ![x] = [exec[x] EXCEPT !.arms = arms, !.left = left]]
      BY <2>5
    <3>3. exec' = [exec EXCEPT ![x] = e] /\ file' = [file EXCEPT ![x] = record]
      BY <2>2, <3>1, <3>2
    <3>4. /\ e = [by |-> exec[x].by, arms |-> e.arms, left |-> e.left]
          /\ record.status # "completed"
      BY <2>5
    <3> HIDE DEF e, record
    <3>5. QED BY <2>3, <3>3, <3>4, ExecutionWrites
  <2>6. QED BY <2>2, <2>4, <2>5
<1>3. QED BY <1>1, <1>2 DEF Execution

LEMMA BeginKeeps ==
  ASSUME RunsInv, NEW h \in Handlers, NEW p \in Processes, Free(p), NEW c, Begin(h, c),
         UNCHANGED <<file, judgments, opens, todo, found, exec, lock>>,
         c.op \in {"import", "judge"}, c.run \in Runs, c.by = p,
         c.op = "import" => p \in Commands /\ c.run \notin Judged(judgments),
         c.op = "judge" => Status(c.run) = "completed" /\ file[c.run].arms = c.about
  PROVE  RunsInv'
<1>1. /\ call' = [call EXCEPT ![h] = c] /\ call'[h] = c
      /\ \A g \in Handlers : g # h => call'[g] = call[g]
  BY DEF Begin, RunsInv, RunTables
<1>2. Serves(p) /\ (p \in Commands => ~Executes(p) /\ ~Handles(p))
  BY DEF Free
<1>3. /\ RunTables' /\ OneOpen' /\ JudgmentsOK' /\ ExecutionsOK' /\ RecoveriesOK'
      /\ \A q \in Processes : Serves(q)' = Serves(q)
      /\ \A x \in Runs : Status(x)' = Status(x)
  <2>1. RunTables' /\ OneOpen'
    BY <1>1 DEF RunsInv, RunTables, OneOpen, Open
  <2>2. (\A q \in Processes : Serves(q)' = Serves(q)) /\ \A x \in Runs : Status(x)' = Status(x)
    BY DEF Serves, Open, Status
  <2>3. JudgmentsOK'
    BY DEF RunsInv, JudgmentsOK, Status
  <2>4. ExecutionsOK'
    BY DEF RunsInv, ExecutionsOK, Status, Serves, Open
  <2>5. RecoveriesOK'
    BY DEF RunsInv, RecoveriesOK, Status, Open
  <2>6. QED BY <2>1, <2>2, <2>3, <2>4, <2>5
<1>4. p \in Commands => /\ \A x \in Runs : exec[x] = Absent
                        /\ \A g \in Handlers : call[g] = Idle
  BY <1>2 DEF Executes, Handles, RunsInv, OneOpen, ExecutionsOK, HandlersOK, CallOK, Serves
<1>5. ASSUME NEW g \in Handlers, call'[g] # Idle PROVE CallOK(call[g], g)'
  <2>1. CASE g = h
    <3>1. \A k \in Handlers : p \in Commands /\ call'[k] # Idle => k = h
      BY <1>1, <1>4
    <3>2. QED BY <1>1, <1>2, <1>3, <1>4, <2>1, <3>1 DEF CallOK
  <2>2. CASE g # h
    <3>1. call[g] # Idle /\ call'[g] = call[g] /\ CallOK(call[g], g)
      BY <1>1, <1>5, <2>2 DEF RunsInv, HandlersOK
    <3>2. call[g].by = p
      BY <1>2, <3>1 DEF CallOK, RunsInv, OneOpen, Serves
    <3>3. p \notin Commands
      BY <1>4, <3>1
    <3>4. QED BY <1>3, <3>1, <3>2, <3>3 DEF CallOK
  <2>3. QED BY <2>1, <2>2
<1>6. QED BY <1>3, <1>5 DEF RunsInv, HandlersOK

LEMMA ReadKeeps ==
  ASSUME RunsInv, NEW h \in Handlers, NEW p \in Processes, NEW x \in Runs,
         ImportRead(h, p, x) \/ JudgeRead(h, p, x)
  PROVE  RunsInv'
<1>1. CASE ImportRead(h, p, x)
  <2> DEFINE c == [op |-> "import", by |-> p, run |-> x]
  <2>1. c.op = "import" /\ c.run = x /\ c.by = p
    OBVIOUS
  <2>2. /\ Free(p) /\ p \in Commands /\ x \notin Judged(judgments) /\ Begin(h, c)
        /\ UNCHANGED <<file, judgments, opens, todo, found, exec, lock>>
    BY <1>1 DEF ImportRead
  <2> HIDE DEF c
  <2>3. QED BY <2>1, <2>2, BeginKeeps
<1>2. CASE JudgeRead(h, p, x)
  <2> DEFINE c == [op |-> "judge", by |-> p, run |-> x, about |-> file[x].arms]
  <2>1. c.op = "judge" /\ c.run = x /\ c.by = p /\ c.about = file[x].arms
    OBVIOUS
  <2>2. /\ Free(p) /\ Status(x) = "completed" /\ Begin(h, c)
        /\ UNCHANGED <<file, judgments, opens, todo, found, exec, lock>>
    BY <1>2 DEF JudgeRead
  <2> HIDE DEF c
  <2>3. QED BY <2>1, <2>2, BeginKeeps
<1>3. QED BY <1>1, <1>2

LEMMA ImportKeeps ==
  ASSUME RunsInv, NEW h \in Handlers, ImportWrite(h)
  PROVE  RunsInv'
<1> DEFINE x == call[h].run
           record == [status |-> "completed",
                      arms |-> [a \in Arms |-> [output |-> "imported", error |-> FALSE]]]
<1>1. /\ call[h].op = "import" /\ call[h] # Idle
      /\ file' = [file EXCEPT ![x] = record] /\ call' = [call EXCEPT ![h] = Idle]
      /\ UNCHANGED <<judgments, todo, found, exec, lock>>
  BY NoCall DEF ImportWrite, WrittenAs, Done
<1>2. /\ x \in Runs /\ x \notin Judged(judgments) /\ call[h].by \in Processes /\ Serves(call[h].by)
      /\ \A y \in Runs : exec[y] = Absent
      /\ \A g \in Handlers : call[g] # Idle => g = h
  BY <1>1 DEF RunsInv, HandlersOK, CallOK
<1> HIDE DEF x, record
<1>3. \A y \in Runs : y # x => file'[y] = file[y]
  BY <1>1, <1>2 DEF RunsInv, RunTables
<1>4. JudgmentsOK'
  <2>1. ASSUME NEW j \in judgments PROVE file'[j.run] = file[j.run]
    BY <1>2, <1>3 DEF Judged, RunsInv, JudgmentsOK
  <2>2. QED BY <1>1, <2>1 DEF RunsInv, JudgmentsOK, Status
<1>5. \A g \in Handlers : call'[g] = Idle
  BY <1>1, <1>2 DEF RunsInv, RunTables
<1>6. \A q \in Processes : found[q] = Absent
  BY <1>2 DEF RunsInv, RecoveriesOK, OneOpen, Serves
<1>7. RunTables' /\ OneOpen'
  BY <1>1 DEF RunsInv, RunTables, OneOpen, Open
<1>8. QED BY <1>1, <1>2, <1>4, <1>5, <1>6, <1>7 DEF RunsInv, ExecutionsOK, RecoveriesOK, HandlersOK

LEMMA LoadKeeps ==
  ASSUME RunsInv, NEW h \in Handlers, JudgeLoad(h)
  PROVE  RunsInv'
<1> DEFINE c == call[h]
           d == [op |-> "store", by |-> c.by, run |-> c.run, about |-> c.about, read |-> judgments]
<1>1. /\ c.op = "judge" /\ c # Idle /\ lock[c.by] = Absent
      /\ lock' = [lock EXCEPT ![c.by] = h] /\ call' = [call EXCEPT ![h] = d]
      /\ UNCHANGED <<file, judgments, todo, found, exec>>
  BY NoCall DEF JudgeLoad
<1>2. CallOK(c, h)
  BY <1>1 DEF RunsInv, HandlersOK
<1>3. /\ call'[h] = d /\ \A g \in Handlers : g # h => call'[g] = call[g]
      /\ lock'[c.by] = h
  BY <1>1, <1>2 DEF CallOK, RunsInv, RunTables
<1>4. /\ RunTables' /\ OneOpen' /\ JudgmentsOK' /\ ExecutionsOK' /\ RecoveriesOK'
      /\ \A q \in Processes : Serves(q)' = Serves(q)
      /\ \A x \in Runs : Status(x)' = Status(x)
  <2> HIDE DEF d
  <2>1. \A q \in Processes : Open(q)' = Open(q) /\ Serves(q)' = Serves(q)
    BY <1>1 DEF Open, Serves
  <2>2. \A x : Status(x)' = Status(x)
    BY <1>1 DEF Status
  <2>3. RunTables'
    BY <1>1 DEF RunsInv, RunTables
  <2>4. OneOpen' /\ JudgmentsOK' /\ RecoveriesOK'
    BY <1>1, <2>1, <2>2 DEF RunsInv, OneOpen, JudgmentsOK, RecoveriesOK, Open, Status
  <2>5. ExecutionsOK'
    BY <1>1 DEF RunsInv, ExecutionsOK, Status, Serves, Open
  <2>6. QED BY <2>1, <2>2, <2>3, <2>4, <2>5
<1>5. /\ d.op = "store" /\ d.by = c.by /\ d.run = c.run /\ d.about = c.about /\ d.read = judgments
  OBVIOUS
<1>6. ASSUME NEW g \in Handlers, call'[g] # Idle PROVE CallOK(call[g], g)'
  <2>1. CASE g = h
    <3>1. c.by \in Commands => \A k \in Handlers : call'[k] # Idle => k = h
      BY <1>2, <1>3 DEF CallOK
    <3> HIDE DEF d
    <3>2. QED BY <1>1, <1>2, <1>3, <1>4, <1>5, <2>1, <3>1 DEF CallOK
  <2>2. CASE g # h
    <3>1. call[g] # Idle /\ call'[g] = call[g] /\ CallOK(call[g], g)
      BY <1>3, <1>6, <2>2 DEF RunsInv, HandlersOK
    <3>2. c.by \notin Commands /\ call[g].by = c.by
      BY <1>2, <2>2, <3>1 DEF CallOK, RunsInv, OneOpen, Serves
    <3>3. call[g].op # "store"
      BY <1>1, <3>1, <3>2, ProcessAssumption DEF CallOK
    <3>4. QED BY <1>1, <1>4, <3>1, <3>2, <3>3 DEF CallOK
  <2>3. QED BY <2>1, <2>2
<1>7. QED BY <1>4, <1>6 DEF RunsInv, HandlersOK

LEMMA SaveKeeps ==
  ASSUME RunsInv, NEW h \in Handlers, JudgeSave(h)
  PROVE  RunsInv' /\ Judged(judgments) \subseteq Judged(judgments)'
<1> DEFINE c == call[h]
<1>1. /\ c.op = "store" /\ c # Idle /\ CallOK(c, h)
      /\ judgments' = {j \in c.read : j.run # c.run} \cup {[run |-> c.run, about |-> c.about]}
      /\ lock' = [lock EXCEPT ![c.by] = Absent] /\ call' = [call EXCEPT ![h] = Idle]
      /\ UNCHANGED <<file, todo, found, exec>>
  BY NoCall DEF JudgeSave, Done, RunsInv, HandlersOK
<1>2. c.read = judgments
  BY <1>1 DEF CallOK
<1>3. /\ call'[h] = Idle /\ \A g \in Handlers : g # h => call'[g] = call[g]
  BY <1>1 DEF RunsInv, RunTables
<1>4. /\ RunTables' /\ OneOpen' /\ RecoveriesOK'
      /\ \A q \in Processes : Serves(q)' = Serves(q)
      /\ \A x \in Runs : Status(x)' = Status(x)
  BY <1>1 DEF RunsInv, RunTables, OneOpen, Open, Status, RecoveriesOK, Serves
<1>5. ExecutionsOK'
  BY <1>1 DEF RunsInv, ExecutionsOK, Status, Serves, Open
<1>6. JudgmentsOK'
  <2>1. c.run \in Runs /\ Status(c.run) = "completed" /\ file[c.run].arms = c.about
    BY <1>1 DEF CallOK
  <2>2. \A j \in judgments' : j \in judgments \/ j = [run |-> c.run, about |-> c.about]
    BY <1>1, <1>2
  <2> HIDE DEF c
  <2>3. QED BY <1>1, <2>1, <2>2 DEF RunsInv, JudgmentsOK, Status
<1>7. Judged(judgments) \subseteq Judged(judgments)'
  <2>1. ASSUME NEW j \in judgments PROVE \E k \in judgments' : k.run = j.run
    <3>1. CASE j.run = c.run
      <4>1. [run |-> c.run, about |-> c.about] \in judgments'
        BY <1>1
      <4>2. QED BY <3>1, <4>1
    <3>2. CASE j.run # c.run
      BY <1>1, <1>2, <3>2
    <3>3. QED BY <3>1, <3>2
  <2>2. QED BY <2>1 DEF Judged
<1>8. ASSUME NEW g \in Handlers, call'[g] # Idle PROVE CallOK(call[g], g)'
  <2>1. g # h /\ call[g] # Idle /\ call'[g] = call[g] /\ CallOK(call[g], g)
    BY <1>3, <1>8 DEF RunsInv, HandlersOK
  <2>2. c.by \notin Commands /\ call[g].by = c.by
    BY <1>1, <2>1 DEF CallOK, RunsInv, OneOpen, Serves
  <2>3. call[g].op # "store"
    BY <1>1, <2>1, <2>2 DEF CallOK
  <2>4. call[g].op # "import"
    BY <2>1, <2>2 DEF CallOK
  <2>5. QED BY <1>1, <1>4, <2>1, <2>2, <2>3, <2>4 DEF CallOK
<1>9. QED BY <1>4, <1>5, <1>6, <1>7, <1>8 DEF RunsInv, HandlersOK

LEMMA StopKeeps ==
  ASSUME RunsInv, NEW p \in Processes, Stop(p)
  PROVE  RunsInv'
<1>1. /\ Open(p) /\ UNCHANGED <<file, judgments>>
      /\ todo' = [todo EXCEPT ![p] = Absent] /\ found' = [found EXCEPT ![p] = Absent]
      /\ exec' = [x \in Runs |-> IF exec[x] # Absent /\ exec[x].by = p THEN Absent ELSE exec[x]]
      /\ call' = [h \in Handlers |-> IF call[h] # Idle /\ call[h].by = p THEN Idle ELSE call[h]]
      /\ lock' = [lock EXCEPT ![p] = Absent]
  BY DEF Stop
<1>2. \A x \in Runs : exec'[x] = Absent
  BY <1>1 DEF RunsInv, ExecutionsOK, OneOpen, Serves
<1>3. \A h \in Handlers : call'[h] = Idle
  BY <1>1 DEF RunsInv, HandlersOK, CallOK, OneOpen, Serves
<1>4. \A q \in Processes : found'[q] = Absent
  BY <1>1 DEF RunsInv, RunTables, RecoveriesOK, OneOpen
<1>5. RunTables'
  BY <1>1 DEF RunsInv, RunTables
<1>6. OneOpen'
  BY <1>1 DEF RunsInv, RunTables, OneOpen, Open
<1>7. JudgmentsOK'
  BY <1>1 DEF RunsInv, JudgmentsOK, Status
<1>8. QED BY <1>2, <1>3, <1>4, <1>5, <1>6, <1>7 DEF RunsInv, ExecutionsOK, RecoveriesOK, HandlersOK

LEMMA RunsKept ==
  ASSUME RunsInv, UNCHANGED experimentsVars
  PROVE  RunsInv' /\ Judged(judgments) \subseteq Judged(judgments)'
<1>1. /\ RunTables' /\ OneOpen' /\ ExecutionsOK' /\ RecoveriesOK' /\ JudgmentsOK'
  BY DEF experimentsVars, RunsInv, RunTables, OneOpen, ExecutionsOK, RecoveriesOK, JudgmentsOK,
         Status, Serves, Open
<1>2. HandlersOK'
  BY DEF experimentsVars, RunsInv, HandlersOK, CallOK, Status, Serves, Open, Judged
<1>3. Judged(judgments)' = Judged(judgments)
  BY DEF experimentsVars, Judged
<1>4. QED BY <1>1, <1>2, <1>3 DEF RunsInv

LEMMA RunsNext ==
  ASSUME ~Beside, RunsInv, ExperimentsNext
  PROVE  RunsInv' /\ Judged(judgments) \subseteq Judged(judgments)'
<1>1. ASSUME judgments' = judgments PROVE Judged(judgments)' = Judged(judgments)
  BY <1>1 DEF Judged
<1>2. ASSUME NEW p \in Processes, OpenDirectory(p) \/ Recovery(p) \/ Stop(p)
      PROVE  RunsInv' /\ judgments' = judgments
  BY <1>2, OpenKeeps, RecoverReadKeeps, RecoverWriteKeeps, StopKeeps
     DEF OpenDirectory, Recovery, RecoverRead, RecoverWrite, Stop
<1>3. ASSUME NEW p \in Processes, NEW x \in Runs, Prepare(p, x)
      PROVE  RunsInv' /\ judgments' = judgments
  BY <1>3, PrepareKeeps DEF Prepare
<1>4. ASSUME NEW x \in Runs, Execution(x)
      PROVE  RunsInv' /\ judgments' = judgments
  BY <1>4, ExecutionKeeps DEF Execution, ExecutionFails, ArmEnds
<1>5. ASSUME NEW h \in Handlers, NEW p \in Processes, NEW x \in Runs,
             ImportRead(h, p, x) \/ JudgeRead(h, p, x)
      PROVE  RunsInv' /\ judgments' = judgments
  BY <1>5, ReadKeeps DEF ImportRead, JudgeRead
<1>6. ASSUME NEW h \in Handlers, ImportWrite(h) \/ JudgeLoad(h)
      PROVE  RunsInv' /\ judgments' = judgments
  BY <1>6, ImportKeeps, LoadKeeps DEF ImportWrite, JudgeLoad
<1>7. QED BY <1>1, <1>2, <1>3, <1>4, <1>5, <1>6, SaveKeeps DEF ExperimentsNext

(* A judgment stands: the run stays judged, completed and with the outputs  *)
(* that were judged, with one process at a time on the data directory (the  *)
(* handlers of src/api.rs on experiments, the recovery of src/store.rs).    *)
THEOREM JudgmentsStand ==
  ASSUME ~Beside
  PROVE  RecordsSpec => JudgedStands
<1>1. RecordsInit => RunsInv
  BY RunsInit DEF RecordsInit
<1>2. RunsInv /\ [RecordsNext]_recordsVars => RunsInv' /\ Judged(judgments) \subseteq Judged(judgments)'
  BY RunsNext, RunsKept DEF RecordsNext, recordsVars
<1>3. RunsInv /\ [RecordsNext]_recordsVars =>
        [/\ Judged(judgments) \subseteq Judged(judgments')
         /\ \A j \in judgments' :
              file'[j.run].status = "completed" /\ file'[j.run].arms = j.about]_experimentsVars
  BY <1>2 DEF RunsInv, JudgmentsOK, Status, Judged
<1>4. QED BY <1>1, <1>2, <1>3, PTL DEF RecordsSpec, JudgedStands

-----------------------------------------------------------------------------
(* Notes: who has passed the mutex holds it, and after its first look the   *)
(* note is what its client has seen, or an editor has changed it since.     *)
HasMutex == {"check", "again", "verify", "publish"}

NotesInv ==
  /\ save = [s \in Savers |-> save[s]]
  /\ \A s \in Savers : save[s].pc \in HasMutex => write = s
  /\ \A s \in Savers : save[s].pc \in {"again", "verify", "publish"} =>
       note = save[s].revision \/ outside
  /\ \A s \in Savers : save[s] # NoSave =>
       save[s] = [pc |-> save[s].pc, text |-> save[s].text,
                  revision |-> save[s].revision, op |-> save[s].op]

LEMMA NotesInitKeeps ==
  ASSUME NotesInit
  PROVE  NotesInv
BY DEF NotesInit, NotesInv, NoSave, HasMutex

(* A request goes to another place, with or without the mutex.              *)
LEMMA NoteMoves ==
  ASSUME NotesInv, NEW s \in Savers, NEW c, Saves(s, c), UNCHANGED <<note, outside>>,
         c = NoSave \/ c = [pc |-> c.pc, text |-> c.text, revision |-> c.revision, op |-> c.op],
         c.pc \in HasMutex => write' = s /\ (write = s \/ write = Missing),
         c.pc \in {"again", "verify", "publish"} => note = c.revision \/ outside,
         write' # write => write = Missing \/ write = s
  PROVE  NotesInv' /\ NoteKept
<1>1. /\ save' = [save EXCEPT ![s] = c] /\ save'[s] = c
      /\ \A t \in Savers : t # s => save'[t] = save[t]
  BY DEF Saves, NotesInv
<1>2. ASSUME NEW t \in Savers, save'[t].pc \in HasMutex PROVE write' = t
  <2>1. CASE t = s
    BY <1>1, <1>2, <2>1
  <2>2. CASE t # s
    BY <1>1, <1>2, <2>2, NotesAssumption DEF NotesInv
  <2>3. QED BY <2>1, <2>2
<1>3. save' = [t \in Savers |-> save'[t]]
  BY <1>1 DEF NotesInv
<1>4. QED BY <1>1, <1>2, <1>3 DEF NotesInv, NoteKept

LEMMA NoSaveIs == \A s \in Savers : save[s].pc # "idle" => save[s] # NoSave
BY DEF NoSave

LEMMA NextLook ==
  ASSUME NEW k \in DOMAIN Looks
  PROVE  /\ k \in HasMutex /\ Looks[k] \in {"again", "verify", "publish"}
         /\ DOMAIN Looks = {"check", "again", "verify"}
BY DEF Looks, HasMutex

LEMMA NotesNextKeeps ==
  ASSUME NotesInv, NotesNext
  PROVE  NotesInv' /\ NoteKept
<1>1. ASSUME NEW s \in Savers, PutNote(s) \/ OpenNote(s) PROVE NotesInv' /\ NoteKept
  <2>1. PICK text, revision, op : Saves(s, Saving(text, revision, op))
    BY <1>1 DEF PutNote, OpenNote
  <2> DEFINE c == Saving(text, revision, op)
  <2>2. /\ c = [pc |-> c.pc, text |-> c.text, revision |-> c.revision, op |-> c.op]
        /\ c.pc = "lock"
    BY DEF Saving
  <2>3. UNCHANGED <<note, outside, write>>
    BY <1>1 DEF PutNote, OpenNote
  <2> HIDE DEF c
  <2>4. QED BY <2>1, <2>2, <2>3, NoteMoves DEF HasMutex, c
<1>2. ASSUME NEW s \in Savers, LockNotes(s) PROVE NotesInv' /\ NoteKept
  <2> DEFINE c == [save[s] EXCEPT !.pc = "check"]
  <2>1. Saves(s, c) /\ write = Missing /\ write' = s /\ UNCHANGED <<note, outside>>
    BY <1>2 DEF LockNotes
  <2>2. save[s] # NoSave
    BY <1>2, NoSaveIs DEF LockNotes
  <2>3. /\ c = [pc |-> c.pc, text |-> c.text, revision |-> c.revision, op |-> c.op]
        /\ c.pc = "check"
    BY <2>2 DEF NotesInv
  <2> HIDE DEF c
  <2>4. QED BY <2>1, <2>3, NoteMoves
<1>3. ASSUME NEW s \in Savers, CheckNote(s) \/ FailSave(s) PROVE NotesInv' /\ NoteKept
  <2>1. save[s].pc \in HasMutex /\ write = s /\ UNCHANGED <<note, outside>>
    BY <1>3, NextLook DEF CheckNote, FailSave, NotesInv, HasMutex
  <2>2. CASE EndSave(s)
    <3>1. Saves(s, NoSave) /\ write' = Missing /\ NoSave.pc = "idle"
      BY <2>2 DEF EndSave, NoSave
    <3> DEFINE c == NoSave
    <3>2. Saves(s, c) /\ c = NoSave /\ c.pc = "idle"
      BY <3>1
    <3> HIDE DEF c
    <3>3. QED BY <2>1, <3>1, <3>2, NoteMoves DEF HasMutex
  <2>3. CASE ~EndSave(s)
    <3> DEFINE k == Looks[save[s].pc]
               c == [save[s] EXCEPT !.pc = k]
    <3>1. /\ Saves(s, c) /\ note = save[s].revision /\ UNCHANGED write
          /\ k \in {"again", "verify", "publish"}
      BY <1>3, <2>3, NextLook DEF CheckNote, FailSave
    <3> HIDE DEF k
    <3>2. save[s] # NoSave
      BY <2>1, NoSaveIs DEF HasMutex
    <3>3. /\ c = [pc |-> c.pc, text |-> c.text, revision |-> c.revision, op |-> c.op]
          /\ c.pc = k /\ c.revision = save[s].revision
      BY <3>2 DEF NotesInv
    <3> HIDE DEF c
    <3>4. QED BY <2>1, <3>1, <3>3, NoteMoves DEF HasMutex
  <2>4. QED BY <2>2, <2>3
<1>4. ASSUME NEW s \in Savers, LeaveNote(s) PROVE NotesInv' /\ NoteKept
  <2> DEFINE c == NoSave
  <2>1. Saves(s, c) /\ c = NoSave /\ c.pc = "idle" /\ UNCHANGED <<note, outside, write>>
    BY <1>4 DEF LeaveNote, NoSave
  <2> HIDE DEF c
  <2>2. QED BY <2>1, NoteMoves DEF HasMutex
<1>5. ASSUME NEW s \in Savers, Publish(s) PROVE NotesInv' /\ NoteKept
  <2>1. /\ write = s /\ write' = Missing /\ save[s].pc = "publish"
        /\ save' = [save EXCEPT ![s] = NoSave]
        /\ \/ UNCHANGED <<note, outside>>
           \/ outside' = FALSE /\ ~(save[s].revision = Missing /\ note # Missing)
    BY <1>5 DEF Publish, EndSave, Saves, NotesInv, HasMutex
  <2>2. save'[s] = NoSave /\ \A t \in Savers : t # s => save'[t] = save[t] /\ save[t].pc \notin HasMutex
    BY <2>1 DEF NotesInv
  <2>3. NoSave.pc = "idle"
    BY DEF NoSave
  <2>4. \A t \in Savers : save'[t].pc \notin HasMutex
    BY <2>2, <2>3 DEF HasMutex
  <2>5. NotesInv'
    BY <2>1, <2>2, <2>4 DEF NotesInv, HasMutex
  <2>6. note = save[s].revision \/ outside
    BY <2>1 DEF NotesInv
  <2>7. \A t \in Savers : save[t].pc = "publish" => t = s
    BY <2>1 DEF NotesInv, HasMutex
  <2>8. QED BY <2>1, <2>5, <2>6, <2>7 DEF NoteKept
<1>6. CASE EditOutside
  <2>1. NotesInv'
    BY <1>6 DEF EditOutside, NotesInv
  <2>2. \A s \in Savers : save[s].pc = "publish" => save'[s] # NoSave
    BY <1>6 DEF EditOutside, NoSave
  <2>3. QED BY <2>1, <2>2 DEF NoteKept
<1>7. CASE RestartNotes
  <2>1. \A s \in Savers : save'[s] = NoSave /\ NoSave.pc = "idle"
    BY <1>7 DEF RestartNotes, NoSave
  <2>2. QED BY <1>7, <2>1 DEF RestartNotes, NotesInv, HasMutex, NoteKept
<1>8. QED BY <1>1, <1>2, <1>3, <1>4, <1>5, <1>6, <1>7 DEF NotesNext, NoteStep

LEMMA NotesStay ==
  ASSUME NotesInv, UNCHANGED notesVars
  PROVE  NotesInv' /\ NoteKept
BY DEF notesVars, NotesInv, NoteKept

-----------------------------------------------------------------------------
(* Highlights: who writes holds the mutex, what it is to write is one       *)
(* change of the marks there are, and highlights.md shows them unless a     *)
(* write was cut short or is about to print.                                *)
HasMarks == {"analysis", "load", "marks", "print"}

Whole(c) == DOMAIN c = {"op", "pc", "put", "passage", "remark", "draft"}

MarksOK ==
  /\ DOMAIN marks = {"reader", "quoted"} /\ marks.reader = [p \in Passages |-> marks.reader[p]]
  /\ marker = [m \in Markers |-> marker[m]]
  /\ \A m \in Markers : marker[m] # Resting => Whole(marker[m])

MarksHeld ==
  /\ \A m \in Markers : marker[m].pc \in HasMarks => writing = m
  /\ writing # Unmarked => writing \in Markers /\ marker[writing].pc \in HasMarks

MarksDrafted ==
  /\ \A m \in Markers : marker[m].pc = "marks" => marker[m].draft = Changed(marker[m])
  /\ \A m \in Markers : marker[m].pc = "print" => marker[m].draft = marks
  /\ ~cut /\ (\A m \in Markers : marker[m].pc # "print") => printed = marks

MarksInv == MarksOK /\ MarksHeld /\ MarksDrafted

LEMMA MarksInitKeeps ==
  ASSUME HighlightsInit
  PROVE  MarksInv
BY DEF HighlightsInit, MarksInv, MarksOK, MarksHeld, MarksDrafted, Resting, HasMarks

LEMMA RestingIs ==
  /\ \A m \in Markers : marker[m].pc # "idle" => marker[m] # Resting
  /\ Resting.pc = "idle" /\ Resting.op = "none"
BY DEF Resting

LEMMA WholeExcept ==
  ASSUME NEW w, Whole(w), NEW p, NEW r
  PROVE  /\ Whole([w EXCEPT !.passage = p]) /\ [w EXCEPT !.passage = p].pc = w.pc
         /\ Whole([w EXCEPT !.passage = p, !.remark = r])
         /\ [w EXCEPT !.passage = p, !.remark = r].pc = w.pc
BY DEF Whole

(* What a map keeps after it is a mark to be made, or nothing.              *)
LEMMA AfterMapIs ==
  ASSUME NEW c, Whole(c)
  PROVE  AfterMap(c) = Resting \/ (Whole(AfterMap(c)) /\ AfterMap(c).pc = "lock")
<1> DEFINE d == [c EXCEPT !.pc = "lock", !.put = Unmarked, !.draft = Unmarked]
<1>1. Whole(d) /\ d.pc = "lock"
  BY DEF Whole
<1>2. AfterMap(c) = IF c.op = "mark" THEN d ELSE Resting
  BY DEF AfterMap
<1> HIDE DEF d
<1>3. CASE c.op = "mark"
  <2>1. AfterMap(c) = d BY <1>2, <1>3
  <2>2. QED BY <1>1, <2>1
<1>4. CASE c.op # "mark"
  <2>1. AfterMap(c) = Resting BY <1>2, <1>4
  <2>2. QED BY <2>1
<1>5. QED BY <1>3, <1>4

(* A step that writes neither the marks nor the printed ones, of one that   *)
(* does not print.                                                          *)
LEMMA MarkerMoves ==
  ASSUME MarksInv, NEW m \in Markers, NEW c, marker' = [marker EXCEPT ![m] = c],
         UNCHANGED <<marks, printed>>, c = Resting \/ Whole(c),
         cut => cut', marker[m].pc # "print" \/ cut', c.pc # "print",
         c.pc = "marks" => c.draft = Changed(c),
         c.pc \in HasMarks => writing \in {m, Unmarked} /\ writing' = m,
         c.pc \notin HasMarks => writing' = IF writing = m THEN Unmarked ELSE writing
  PROVE  MarksInv' /\ MarksKept
<1>1. /\ marker'[m] = c /\ \A n \in Markers : n # m => marker'[n] = marker[n]
      /\ marker' = [n \in Markers |-> marker'[n]]
  BY DEF MarksInv, MarksOK
<1>2. MarksOK'
  <2>1. \A n \in Markers : marker'[n] # Resting => Whole(marker[n])'
    BY <1>1 DEF MarksInv, MarksOK, Whole
  <2>2. QED BY <1>1, <2>1 DEF MarksInv, MarksOK, Whole
<1>3. MarksHeld'
  <2>1. ASSUME NEW n \in Markers, marker'[n].pc \in HasMarks PROVE writing' = n
    BY <1>1, <2>1, HighlightsAssumption DEF MarksInv, MarksHeld
  <2>2. ASSUME writing' # Unmarked PROVE writing' \in Markers /\ marker'[writing'].pc \in HasMarks
    <3>1. CASE c.pc \in HasMarks
      BY <1>1, <3>1
    <3>2. CASE c.pc \notin HasMarks
      <4>1. writing' = writing /\ writing # m
        BY <2>2, <3>2
      <4>2. QED BY <1>1, <2>2, <4>1 DEF MarksInv, MarksHeld
    <3>3. QED BY <3>1, <3>2
  <2>3. QED BY <2>1, <2>2 DEF MarksHeld
<1>4. MarksDrafted'
  <2>1. ASSUME NEW n \in Markers, marker'[n].pc = "marks" PROVE marker'[n].draft = Changed(marker[n])'
    <3>1. Changed(marker[n])' = Changed(marker'[n])
      BY DEF Changed
    <3>2. QED BY <1>1, <2>1, <3>1 DEF MarksInv, MarksDrafted
  <2>2. ASSUME NEW n \in Markers, marker'[n].pc = "print" PROVE marker'[n].draft = marks'
    BY <1>1, <2>2 DEF MarksInv, MarksDrafted
  <2>3. ~cut' /\ (\A n \in Markers : marker'[n].pc # "print") => printed' = marks'
    BY <1>1 DEF MarksInv, MarksDrafted
  <2>4. QED BY <2>1, <2>2, <2>3 DEF MarksDrafted
<1>5. writing' = Unmarked /\ ~cut' => printed' = marks'
  <2>1. ASSUME writing' = Unmarked PROVE \A n \in Markers : marker'[n].pc # "print"
    BY <1>3, <2>1, HighlightsAssumption DEF MarksHeld, HasMarks
  <2>2. QED BY <1>4, <2>1 DEF MarksDrafted
<1>6. QED BY <1>2, <1>3, <1>4, <1>5 DEF MarksInv, MarksKept

LEMMA MarksNext ==
  ASSUME MarksInv, HighlightsNext
  PROVE  MarksInv' /\ MarksKept
<1>1. ASSUME NEW m \in Markers, StartAnalysis(m) \/ OpenMap(m) \/ Unmark(m)
      PROVE  MarksInv' /\ MarksKept
  <2>1. PICK c : /\ marker' = [marker EXCEPT ![m] = c] /\ Whole(c) /\ c.pc \in {"look", "lock"}
    <3>1. CASE StartAnalysis(m)
      <4>1. PICK op, put : marker' = [marker EXCEPT ![m] = Wanted(op, "lock", put)]
        BY <3>1 DEF StartAnalysis, Does
      <4> DEFINE d == Wanted(op, "lock", put)
      <4>2. Whole(d) /\ d.pc = "lock"
        BY DEF Wanted, Whole
      <4>3. marker' = [marker EXCEPT ![m] = d]
        BY <4>1
      <4> HIDE DEF d
      <4>4. QED BY <4>2, <4>3
    <3>2. CASE OpenMap(m)
      <4>1. CASE marker' = [marker EXCEPT ![m] = Wanted("map", "look", Unmarked)]
        <5> DEFINE d == Wanted("map", "look", Unmarked)
        <5>1. Whole(d) /\ d.pc = "look"
          BY DEF Wanted, Whole
        <5>2. marker' = [marker EXCEPT ![m] = d]
          BY <4>1
        <5> HIDE DEF d
        <5>3. QED BY <5>1, <5>2
      <4>2. ASSUME NEW p, NEW r,
                   marker' = [marker EXCEPT ![m] =
                     [Wanted("mark", "look", Unmarked) EXCEPT !.passage = p, !.remark = r]]
            PROVE  \E c : /\ marker' = [marker EXCEPT ![m] = c] /\ Whole(c)
                          /\ c.pc \in {"look", "lock"}
        <5> DEFINE w == Wanted("mark", "look", Unmarked)
                   d == [w EXCEPT !.passage = p, !.remark = r]
        <5>1. Whole(w) /\ w.pc = "look"
          BY DEF Wanted, Whole
        <5>2. marker' = [marker EXCEPT ![m] = d]
          BY <4>2
        <5> HIDE DEF w
        <5>3. Whole(d) /\ d.pc = "look"
          BY <5>1, WholeExcept
        <5> HIDE DEF d
        <5>4. QED BY <5>2, <5>3
      <4>3. QED BY <3>2, <4>1, <4>2 DEF OpenMap, Does
    <3>3. CASE Unmark(m)
      <4>1. PICK p : marker' = [marker EXCEPT ![m] = [Wanted("unmark", "lock", Unmarked) EXCEPT !.passage = p]]
        BY <3>3 DEF Unmark, Does
      <4> DEFINE w == Wanted("unmark", "lock", Unmarked)
                 d == [w EXCEPT !.passage = p]
      <4>2. Whole(w) /\ w.pc = "lock"
        BY DEF Wanted, Whole
      <4>3. marker' = [marker EXCEPT ![m] = d]
        BY <4>1
      <4> HIDE DEF w
      <4>4. Whole(d) /\ d.pc = "lock"
        BY <4>2, WholeExcept
      <4> HIDE DEF d
      <4>5. QED BY <4>3, <4>4
    <3>4. QED BY <1>1, <3>1, <3>2, <3>3
  <2>2. marker[m] = Resting /\ UNCHANGED <<marks, printed, writing, cut>>
    BY <1>1 DEF StartAnalysis, OpenMap, Unmark, Unchanging
  <2>3. marker[m].pc = "idle" /\ writing # m
    BY <2>2, RestingIs, HighlightsAssumption DEF MarksInv, MarksHeld, HasMarks
  <2>4. QED BY <2>1, <2>2, <2>3, MarkerMoves DEF HasMarks
<1>2. ASSUME NEW m \in Markers, LookForMap(m) PROVE MarksInv' /\ MarksKept
  <2>1. /\ marker[m].pc = "look" /\ marker[m] # Resting /\ Whole(marker[m])
        /\ UNCHANGED <<marks, printed, writing, cut>>
    BY <1>2, RestingIs DEF LookForMap, Unchanging, MarksInv, MarksOK
  <2>2. writing # m
    BY <2>1, HighlightsAssumption DEF MarksInv, MarksHeld, HasMarks
  <2>3. PICK c : /\ marker' = [marker EXCEPT ![m] = c]
                 /\ c = AfterMap(marker[m]) \/
                    c = [marker[m] EXCEPT !.pc = "lock", !.put = [analysis EXCEPT !.checked = TRUE]]
    BY <1>2 DEF LookForMap, Does
  <2>4. c = Resting \/ (Whole(c) /\ c.pc = "lock")
    BY <2>1, <2>3, AfterMapIs DEF Whole
  <2>5. c.pc \in {"idle", "lock"}
    BY <2>4, RestingIs
  <2>6. QED BY <2>1, <2>2, <2>3, <2>4, <2>5, MarkerMoves DEF HasMarks
<1>3. ASSUME NEW m \in Markers, LockMarks(m) PROVE MarksInv' /\ MarksKept
  <2> DEFINE pc == IF marker[m].put = Unmarked THEN "load" ELSE "analysis"
             c == [marker[m] EXCEPT !.pc = pc]
  <2>1. /\ marker[m].pc = "lock" /\ writing = Unmarked /\ writing' = m
        /\ marker' = [marker EXCEPT ![m] = c] /\ UNCHANGED <<marks, printed, cut>>
    BY <1>3 DEF LockMarks, Moves, Does
  <2>2. Whole(marker[m])
    BY <2>1, RestingIs DEF MarksInv, MarksOK
  <2>3. Whole(c) /\ c.pc = pc
    BY <2>2 DEF Whole
  <2>4. pc \in {"load", "analysis"}
    OBVIOUS
  <2> HIDE DEF pc, c
  <2>5. QED BY <2>1, <2>3, <2>4, MarkerMoves DEF HasMarks
<1>4. ASSUME NEW m \in Markers, WriteAnalysis(m) PROVE MarksInv' /\ MarksKept
  <2> DEFINE d == [marker[m] EXCEPT !.pc = "load"]
  <2>1. /\ marker[m].pc = "analysis" /\ UNCHANGED <<marks, printed, cut>>
        /\ \/ writing' = Unmarked /\ marker' = [marker EXCEPT ![m] = Resting]
           \/ writing' = writing /\ marker' = [marker EXCEPT ![m] = d]
    BY <1>4 DEF WriteAnalysis, Ends, Moves, Does
  <2>2. Whole(marker[m]) /\ writing = m
    BY <2>1, RestingIs DEF MarksInv, MarksOK, MarksHeld, HasMarks
  <2>3. Whole(d) /\ d.pc = "load"
    BY <2>2 DEF Whole
  <2> HIDE DEF d
  <2>4. CASE writing' = Unmarked /\ marker' = [marker EXCEPT ![m] = Resting]
    <3> DEFINE c == Resting
    <3>1. c = Resting /\ c.pc = "idle" /\ marker' = [marker EXCEPT ![m] = c]
      BY <2>4, RestingIs
    <3> HIDE DEF c
    <3>2. QED BY <2>1, <2>2, <2>4, <3>1, MarkerMoves DEF HasMarks
  <2>5. CASE writing' = writing /\ marker' = [marker EXCEPT ![m] = d]
    BY <2>1, <2>2, <2>3, <2>5, MarkerMoves DEF HasMarks
  <2>6. QED BY <2>1, <2>4, <2>5
<1>5. ASSUME NEW m \in Markers, LoadMarks(m) PROVE MarksInv' /\ MarksKept
  <2> DEFINE d == [marker[m] EXCEPT !.pc = "marks", !.draft = Changed(marker[m])]
  <2>1. /\ marker[m].pc = "load" /\ UNCHANGED <<marks, printed, cut>>
        /\ \/ writing' = Unmarked /\ marker' = [marker EXCEPT ![m] = Resting]
           \/ writing' = writing /\ marker' = [marker EXCEPT ![m] = d]
    BY <1>5 DEF LoadMarks, Ends, Does
  <2>2. Whole(marker[m]) /\ writing = m
    BY <2>1, RestingIs DEF MarksInv, MarksOK, MarksHeld, HasMarks
  <2>3. /\ Whole(d) /\ d.pc = "marks" /\ d.draft = Changed(marker[m])
        /\ d.put = marker[m].put /\ d.passage = marker[m].passage /\ d.remark = marker[m].remark
    BY <2>2 DEF Whole
  <2> HIDE DEF d
  <2>4. CASE writing' = Unmarked /\ marker' = [marker EXCEPT ![m] = Resting]
    <3> DEFINE c == Resting
    <3>1. c = Resting /\ c.pc = "idle" /\ marker' = [marker EXCEPT ![m] = c]
      BY <2>4, RestingIs
    <3> HIDE DEF c
    <3>2. QED BY <2>1, <2>2, <2>4, <3>1, MarkerMoves DEF HasMarks
  <2>5. CASE writing' = writing /\ marker' = [marker EXCEPT ![m] = d]
    <3>1. d.draft = Changed(d)
      BY <2>3 DEF Changed
    <3>2. QED BY <2>1, <2>2, <2>3, <2>5, <3>1, MarkerMoves DEF HasMarks
  <2>6. QED BY <2>1, <2>4, <2>5
<1>6. ASSUME NEW m \in Markers, WriteMarks(m) PROVE MarksInv' /\ MarksKept
  <2> DEFINE c == [marker[m] EXCEPT !.pc = "print"]
  <2>1. /\ marker[m].pc = "marks" /\ marks' = marker[m].draft
        /\ marker' = [marker EXCEPT ![m] = c] /\ UNCHANGED <<printed, writing, cut>>
    BY <1>6 DEF WriteMarks, Moves, Does
  <2>2. Whole(marker[m]) /\ writing = m
    BY <2>1, RestingIs DEF MarksInv, MarksOK, MarksHeld, HasMarks
  <2>3. Whole(c) /\ c.pc = "print" /\ c.draft = marker[m].draft
    BY <2>2 DEF Whole
  <2> HIDE DEF c
  <2>4. /\ marker'[m] = c /\ \A n \in Markers : n # m => marker'[n] = marker[n] /\ marker[n].pc \notin HasMarks
    BY <2>1, <2>2 DEF MarksInv, MarksOK, MarksHeld
  <2>5. marks' = Changed(marker[m])
    BY <2>1 DEF MarksInv, MarksDrafted
  <2>6. CASE marker[m].put # Unmarked
    <3>1. marks' = [marks EXCEPT !.quoted = Quoted(marker[m].put)]
      BY <2>5, <2>6 DEF Changed
    <3>2. DOMAIN marks' = DOMAIN marks /\ marks'.reader = marks.reader
      BY <3>1 DEF MarksInv, MarksOK
    <3>3. MarksInv'
      BY <2>1, <2>2, <2>3, <2>4, <3>2 DEF MarksInv, MarksOK, MarksHeld, MarksDrafted, HasMarks
    <3>4. writing' # Unmarked
      BY <2>1, <2>2, HighlightsAssumption
    <3>5. QED BY <3>2, <3>3, <3>4 DEF MarksKept
  <2>7. CASE marker[m].put = Unmarked
    <3>1. marks' = [marks EXCEPT !.reader[marker[m].passage] = marker[m].remark]
      BY <2>5, <2>7 DEF Changed
    <3>2. /\ DOMAIN marks' = DOMAIN marks
          /\ marks'.reader = [marks.reader EXCEPT ![marker[m].passage] = marker[m].remark]
      BY <3>1 DEF MarksInv, MarksOK
    <3>3. /\ marks'.reader = [p \in Passages |-> marks'.reader[p]]
          /\ \A p \in Passages : marks'.reader[p] # marks.reader[p] =>
               marker[m].passage = p /\ marks'.reader[p] = marker[m].remark
      BY <3>2 DEF MarksInv, MarksOK
    <3>4. MarksInv'
      BY <2>1, <2>2, <2>3, <2>4, <3>2, <3>3 DEF MarksInv, MarksOK, MarksHeld, MarksDrafted, HasMarks
    <3>5. writing' # Unmarked
      BY <2>1, <2>2, HighlightsAssumption
    <3>6. QED BY <2>1, <2>7, <3>3, <3>4, <3>5 DEF MarksKept
  <2>8. QED BY <2>6, <2>7
<1>7. ASSUME NEW m \in Markers, PrintMarks(m) PROVE MarksInv' /\ MarksKept
  <2> DEFINE c == IF marker[m].put = Unmarked THEN Resting ELSE AfterMap(marker[m])
  <2>1. /\ marker[m].pc = "print" /\ printed' = marker[m].draft /\ writing' = Unmarked
        /\ marker' = [marker EXCEPT ![m] = c] /\ UNCHANGED marks
    BY <1>7 DEF PrintMarks, Ends, Does
  <2>2. Whole(marker[m]) /\ writing = m /\ marker[m].draft = marks
    BY <2>1, RestingIs DEF MarksInv, MarksOK, MarksHeld, MarksDrafted, HasMarks
  <2>3. (c = Resting \/ Whole(c)) /\ c.pc \in {"idle", "lock"}
    BY <2>2, AfterMapIs, RestingIs
  <2> HIDE DEF c
  <2>4. /\ marker'[m] = c /\ \A n \in Markers : n # m => marker'[n] = marker[n] /\ marker[n].pc \notin HasMarks
        /\ marker' = [n \in Markers |-> marker'[n]]
    BY <2>1, <2>2 DEF MarksInv, MarksOK, MarksHeld
  <2>5. \A n \in Markers : marker'[n].pc \notin HasMarks
    BY <2>3, <2>4 DEF HasMarks
  <2>6. \A n \in Markers : marker'[n] # Resting => Whole(marker'[n])
    BY <2>3, <2>4 DEF MarksInv, MarksOK
  <2>7. MarksOK'
    BY <2>1, <2>4, <2>6 DEF MarksInv, MarksOK, Whole
  <2>8. QED BY <2>1, <2>2, <2>5, <2>7 DEF MarksInv, MarksHeld, MarksDrafted, MarksKept, HasMarks
<1>8. ASSUME NEW m \in Markers, CutShort(m) PROVE MarksInv' /\ MarksKept
  <2> DEFINE c == Resting
  <2>1. /\ marker' = [marker EXCEPT ![m] = c] /\ c = Resting /\ c.pc = "idle"
        /\ writing' = IF writing = m THEN Unmarked ELSE writing
        /\ cut' = \/ cut \/ marker[m].pc = "print"
                  \/ marker[m].pc \in {"load", "marks"} /\ marker[m].put # Unmarked
        /\ UNCHANGED <<marks, printed>>
    BY <1>8, RestingIs DEF CutShort, Does
  <2>2. (cut => cut') /\ (marker[m].pc # "print" \/ cut')
    BY <2>1
  <2> HIDE DEF c
  <2>3. QED BY <2>1, <2>2, MarkerMoves DEF HasMarks
<1>9. QED BY <1>1, <1>2, <1>3, <1>4, <1>5, <1>6, <1>7, <1>8 DEF HighlightsNext, MarkStep

LEMMA MarksStay ==
  ASSUME MarksInv, UNCHANGED highlightsVars
  PROVE  MarksInv' /\ MarksKept
<1>1. MarksInv'
  BY DEF highlightsVars, MarksInv, MarksOK, MarksHeld, MarksDrafted, Changed, Whole
<1>2. writing = Unmarked => \A m \in Markers : marker[m].pc # "print"
  BY HighlightsAssumption DEF MarksInv, MarksHeld, HasMarks
<1>3. QED BY <1>1, <1>2 DEF highlightsVars, MarksKept, MarksInv, MarksDrafted

-----------------------------------------------------------------------------
(* Labels, with one model and merges beside no other writer: a citation     *)
(* with claims has one that was made of the record of its request, so that  *)
(* a second pass finds it and a merge of two such citations is refused.     *)
RowFields == {"edge", "origin", "says", "record", "review", "by", "gone"}

ClaimsOK ==
  /\ \E n \in Nat : labels = [c \in 1..n |-> labels[c]]
  /\ \A c \in DOMAIN labels :
       /\ DOMAIN labels[c] = RowFields /\ ~labels[c].gone /\ labels[c].says \in Grounded
       /\ \A d \in DOMAIN labels :
            labels[c].edge = labels[d].edge /\ labels[c].by = Null /\ labels[d].by = Null => c = d
       /\ \E d \in DOMAIN labels, m \in Models :
            /\ labels[d].edge = labels[c].edge
            /\ labels[d].record = <<m, Request[labels[c].edge]>>

PassesOK ==
  /\ pass = [p \in Passes |-> pass[p]]
  /\ \A p \in Passes : pass[p] # NoPass => "model" \in DOMAIN pass[p] /\ pass[p].model \in Models

EditsOK ==
  /\ edit = [u \in Readers |-> edit[u]]
  /\ \A u \in Readers : edit[u] # NoEdit =>
       /\ DOMAIN edit[u] = {"pc", "claim", "says"} /\ edit[u].pc \in {"read", "edit"}
       /\ edit[u].says \in Grounded /\ edit[u].claim \in DOMAIN labels
       /\ edit[u].pc = "edit" =>
            /\ labels[edit[u].claim].by = Null
            /\ \A v \in Readers : edit[v].pc = "edit" /\ edit[v].claim = edit[u].claim => v = u

FoldOK ==
  fold # NoFold =>
    /\ DOMAIN fold = {"pc", "from", "into", "rows"} /\ fold.pc \in {"move", "delete"}
    /\ \E f \in Folds : fold.from = f[1] /\ fold.into = f[2]
    /\ fold.rows = {c \in DOMAIN labels : labels[c].edge = fold.from}
    /\ \A p \in Passes : pass[p] = NoPass
    /\ \A u \in Readers : edit[u] = NoEdit
    /\ fold.pc = "delete" => \A c \in fold.rows, d \in DOMAIN labels :
         labels[d].edge = fold.into => labels[c].record = Null \/ labels[c].record # labels[d].record

LabelsInv == ClaimsOK /\ PassesOK /\ EditsOK /\ FoldOK

OneModel == \A m, n \in Models : m = n

SameRequests == \A f \in Folds : Request[f[1]] = Request[f[2]]

LEMMA PcIs ==
  /\ \A p \in Passes : pass[p].pc # "idle" => pass[p] # NoPass
  /\ \A u \in Readers : edit[u].pc # "idle" => edit[u] # NoEdit
  /\ fold.pc # "idle" => fold # NoFold
  /\ NoPass.pc = "idle" /\ NoEdit.pc = "idle" /\ NoFold.pc = "idle"
BY DEF NoPass, NoEdit, NoFold

LEMMA LabelsInitKeeps ==
  ASSUME LabelsInit
  PROVE  LabelsInv
<1>1. labels = <<>> /\ DOMAIN labels = {} /\ labels = [c \in 1..0 |-> labels[c]]
  BY DEF LabelsInit
<1>2. ClaimsOK
  BY <1>1 DEF ClaimsOK
<1>3. QED BY <1>2 DEF LabelsInit, LabelsInv, PassesOK, EditsOK, FoldOK

(* No claim is gone, so the rows are all.                                   *)
LEMMA RowsAre ==
  ASSUME ClaimsOK
  PROVE  /\ Rows = DOMAIN labels
         /\ \A e : On(e) = {c \in DOMAIN labels : labels[c].edge = e}
         /\ \A e : Current(e) = {c \in DOMAIN labels : labels[c].edge = e /\ labels[c].by = Null}
BY DEF ClaimsOK, Rows, On, Current

LEMMA AtMostOne ==
  ASSUME NEW T, \A c, d \in T : c = d
  PROVE  Cardinality(T) <= 1
<1>1. CASE T = {}
  BY <1>1, FS_EmptySet
<1>2. CASE T # {}
  <2>1. PICK c \in T : TRUE
    BY <1>2
  <2>2. T = {c}
    BY <2>1
  <2>3. Cardinality({c}) = 1
    BY FS_Singleton
  <2>4. QED BY <2>2, <2>3
<1>3. QED BY <1>1, <1>2

LEMMA OneInForce ==
  ASSUME ClaimsOK
  PROVE  OneLabel
<1>1. ASSUME NEW e \in Edges PROVE Cardinality(Current(e)) <= 1
  <2>1. \A c, d \in Current(e) : c = d
    <3>1. Current(e) = {c \in DOMAIN labels : labels[c].edge = e /\ labels[c].by = Null}
      BY RowsAre
    <3>2. QED BY <3>1 DEF ClaimsOK
  <2> DEFINE T == Current(e)
  <2> HIDE DEF T
  <2>2. \A c, d \in T : c = d
    BY <2>1 DEF T
  <2>3. Cardinality(T) <= 1
    BY <2>2, AtMostOne
  <2>4. QED BY <2>3 DEF T
<1>2. \A e \in Edges : \A c \in Current(e) : labels[c].says \in Grounded
  <2>1. ASSUME NEW e \in Edges PROVE Current(e) \subseteq DOMAIN labels
    BY RowsAre
  <2>2. QED BY <2>1 DEF ClaimsOK
<1>3. QED BY <1>1, <1>2 DEF OneLabel

(* What Append does, whatever the rows hold.                                *)
LEMMA AppendIs ==
  ASSUME NEW n \in Nat, NEW f, f = [c \in 1..n |-> f[c]], NEW row
  PROVE  LET g == Append(f, row)
         IN /\ Len(f) = n /\ DOMAIN f = 1..n /\ DOMAIN g = 1 .. n + 1
            /\ g = [c \in 1 .. n + 1 |-> g[c]]
            /\ g[n + 1] = row /\ \A c \in 1..n : g[c] = f[c]
<1> DEFINE S == {f[c] : c \in 1..n} \cup {row}
<1>1. f \in Seq(S)
  <2>1. f \in [1..n -> S]
    OBVIOUS
  <2> HIDE DEF S
  <2>2. QED BY <2>1, SeqDef
<1>2. Len(f) = n /\ DOMAIN f = 1..n
  BY <1>1, LenProperties
<1>3. row \in S
  OBVIOUS
<1> HIDE DEF S
<1>4. /\ Append(f, row) \in Seq(S) /\ Len(Append(f, row)) = n + 1
      /\ \A c \in 1..n : Append(f, row)[c] = f[c]
      /\ Append(f, row)[n + 1] = row
  BY <1>1, <1>2, <1>3, AppendProperties
<1>5. DOMAIN Append(f, row) = 1 .. n + 1
  BY <1>4, LenProperties
<1>6. QED BY <1>2, <1>4, <1>5

(* A step that leaves of each claim all but its review.                     *)
SameRows ==
  /\ \E n \in Nat : labels' = [c \in 1..n |-> labels'[c]]
  /\ DOMAIN labels' = DOMAIN labels
  /\ \A c \in DOMAIN labels :
       /\ DOMAIN labels'[c] = RowFields
       /\ labels'[c].edge = labels[c].edge /\ labels'[c].origin = labels[c].origin
       /\ labels'[c].says = labels[c].says /\ labels'[c].record = labels[c].record
       /\ labels'[c].by = labels[c].by /\ labels'[c].gone = labels[c].gone

LEMMA SameKeeps ==
  ASSUME ClaimsOK, SameRows
  PROVE  ClaimsOK' /\ ClaimsStay
<1>1. ClaimsOK'
  <2>1. ASSUME NEW c \in DOMAIN labels
        PROVE  /\ DOMAIN labels'[c] = RowFields /\ ~labels'[c].gone /\ labels'[c].says \in Grounded
               /\ \A d \in DOMAIN labels : labels'[c].edge = labels'[d].edge
                    /\ labels'[c].by = Null /\ labels'[d].by = Null => c = d
    BY DEF ClaimsOK, SameRows
  <2>2. ASSUME NEW c \in DOMAIN labels
        PROVE  \E d \in DOMAIN labels, m \in Models :
                 /\ labels'[d].edge = labels'[c].edge
                 /\ labels'[d].record = <<m, Request[labels'[c].edge]>>
    <3>1. PICK d \in DOMAIN labels, m \in Models :
            /\ labels[d].edge = labels[c].edge
            /\ labels[d].record = <<m, Request[labels[c].edge]>>
      BY DEF ClaimsOK
    <3>2. labels'[d].edge = labels[d].edge /\ labels'[c].edge = labels[c].edge
          /\ labels'[d].record = labels[d].record
      BY DEF SameRows
    <3>3. QED BY <3>1, <3>2
  <2>3. DOMAIN labels' = DOMAIN labels /\ \E n \in Nat : labels' = [c \in 1..n |-> labels'[c]]
    BY DEF SameRows
  <2>4. ASSUME NEW c \in DOMAIN labels'
        PROVE  \E d \in DOMAIN labels', m \in Models :
                 /\ labels'[d].edge = labels'[c].edge
                 /\ labels'[d].record = <<m, Request[labels'[c].edge]>>
    BY <2>2, <2>3
  <2>5. ASSUME NEW c \in DOMAIN labels'
        PROVE  /\ DOMAIN labels'[c] = RowFields /\ ~labels'[c].gone /\ labels'[c].says \in Grounded
               /\ \A d \in DOMAIN labels' : labels'[c].edge = labels'[d].edge
                    /\ labels'[c].by = Null /\ labels'[d].by = Null => c = d
    BY <2>1, <2>3
  <2>6. QED BY <2>3, <2>4, <2>5 DEF ClaimsOK
<1>2. Rows = DOMAIN labels
  BY RowsAre
<1>3. ClaimsStay
  BY <1>2 DEF ClaimsOK, SameRows, ClaimsStay
<1>4. QED BY <1>1, <1>3

LEMMA UnchangedSame ==
  ASSUME ClaimsOK, UNCHANGED labels
  PROVE  SameRows
BY DEF ClaimsOK, SameRows

(* A step of a pass that writes no claim.                                   *)
LEMMA PassKeeps ==
  ASSUME LabelsInv, NEW p \in Passes, NEW c, Passing(p, c), fold = NoFold,
         UNCHANGED <<labels, edit, fold>>,
         c = NoPass \/ ("model" \in DOMAIN c /\ c.model \in Models)
  PROVE  LabelsInv' /\ ClaimsStay
<1>1. ClaimsOK' /\ ClaimsStay
  BY UnchangedSame, SameKeeps DEF LabelsInv
<1>2. PassesOK'
  <2>1. pass' = [pass EXCEPT ![p] = c]
    BY DEF Passing
  <2>2. pass' = [q \in Passes |-> pass'[q]] /\ pass'[p] = c /\ \A q \in Passes : q # p => pass'[q] = pass[q]
    BY <2>1 DEF LabelsInv, PassesOK
  <2>3. QED BY <2>2 DEF LabelsInv, PassesOK
<1>3. EditsOK' /\ FoldOK'
  BY DEF LabelsInv, EditsOK, FoldOK
<1>4. QED BY <1>1, <1>2, <1>3 DEF LabelsInv

LEMMA PassingNoFold ==
  ASSUME LabelsInv, NEW p \in Passes, pass[p] # NoPass
  PROVE  fold = NoFold /\ "model" \in DOMAIN pass[p] /\ pass[p].model \in Models
BY DEF LabelsInv, FoldOK, PassesOK

LEMMA StartPassKeeps ==
  ASSUME ~FoldsBeside, LabelsInv, NEW p \in Passes, StartPass(p)
  PROVE  LabelsInv' /\ ClaimsStay
<1>1. PICK m \in Models :
        Passing(p, [pc |-> "look", model |-> m, pending |-> <<>>, drafted |-> <<>>,
                    left |-> SelectSeq(Citations, LAMBDA e : e \in mentioned \ folded)])
  BY DEF StartPass
<1>2. fold = NoFold /\ UNCHANGED <<labels, edit, fold>>
  BY DEF StartPass
<1> DEFINE left == SelectSeq(Citations, LAMBDA e : e \in mentioned \ folded)
<1> HIDE DEF left
<1> DEFINE c == [pc |-> "look", model |-> m, pending |-> <<>>, drafted |-> <<>>, left |-> left]
<1>3. "model" \in DOMAIN c /\ c.model \in Models
  OBVIOUS
<1>4. Passing(p, c)
  BY <1>1 DEF left
<1> HIDE DEF c
<1>5. QED BY <1>2, <1>3, <1>4, PassKeeps

(* The other steps of a pass but the one that makes claims.                 *)
LEMMA PassStepKeeps ==
  ASSUME LabelsInv, NEW p \in Passes,
         \/ LookForClaim(p) \/ FindAnswer(p) \/ AskModel(p) \/ ModelAnswers(p)
         \/ CacheAnswer(p) \/ CallsEnd(p) \/ PassEnds(p) \/ StopPass(p)
  PROVE  LabelsInv' /\ ClaimsStay
<1>1. pass[p] # NoPass /\ UNCHANGED <<labels, edit, fold>>
  BY PcIs DEF LookForClaim, FindAnswer, AskModel, ModelAnswers, CacheAnswer, CallsEnd, PassEnds,
              StopPass, Planned, PassOnly
<1> DEFINE Good(c) == c = NoPass \/ ("model" \in DOMAIN c /\ c.model \in Models)
<1>2. fold = NoFold /\ "model" \in DOMAIN pass[p] /\ pass[p].model \in Models
  BY <1>1, PassingNoFold
<1>3. \E c : Passing(p, c) /\ Good(c)
  <2>1. CASE LookForClaim(p)
    BY <1>2, <2>1 DEF LookForClaim
  <2>2. CASE FindAnswer(p)
    <3> DEFINE e == Head(pass[p].left)
               rest == [pass[p] EXCEPT !.pc = "look", !.left = Tail(@)]
    <3>1. "model" \in DOMAIN rest /\ rest.model \in Models
      BY <1>2
    <3> HIDE DEF rest
    <3>2. \A x : Good([rest EXCEPT !.drafted = x]) /\ Good([rest EXCEPT !.pending = x])
      BY <3>1
    <3>3. \E x : \/ Passing(p, [rest EXCEPT !.drafted = x])
                 \/ Passing(p, rest)
                 \/ Passing(p, [rest EXCEPT !.pending = x])
      BY <2>2 DEF FindAnswer, rest
    <3>4. QED BY <3>1, <3>2, <3>3
  <2>3. ASSUME NEW i, NEW to, NEW draft, CallMoves(p, i, to, draft)
        PROVE  \E c : Passing(p, c) /\ Good(c)
    <3> DEFINE c == [pass[p] EXCEPT !.pending[i].at = to, !.pending[i].draft = draft]
    <3>1. Passing(p, c)
      BY <2>3 DEF CallMoves
    <3>2. Good(c)
      BY <1>2
    <3>3. QED BY <3>1, <3>2
  <2>4. CASE AskModel(p) \/ ModelAnswers(p) \/ CacheAnswer(p)
    BY <2>3, <2>4 DEF AskModel, ModelAnswers, CacheAnswer
  <2>5. CASE CallsEnd(p)
    <3>1. \A x : Good([pass[p] EXCEPT !.pc = "record", !.pending = <<>>, !.drafted = @ \o x])
      BY <1>2
    <3>2. \/ Passing(p, NoPass)
          \/ \E x : Passing(p, [pass[p] EXCEPT !.pc = "record", !.pending = <<>>, !.drafted = @ \o x])
      BY <2>5 DEF CallsEnd
    <3>3. QED BY <3>1, <3>2
  <2>6. CASE PassEnds(p) \/ StopPass(p)
    BY <2>6 DEF PassEnds, StopPass
  <2>7. QED BY <2>1, <2>2, <2>4, <2>5, <2>6
<1>4. PICK c : Passing(p, c) /\ Good(c)
  BY <1>3
<1>5. QED BY <1>1, <1>2, <1>4, PassKeeps

(* A pass makes a claim on a citation that has none.                        *)
LEMMA RecordKeeps ==
  ASSUME OneModel, LabelsInv, NEW p \in Passes, RecordDraft(p)
  PROVE  LabelsInv' /\ ClaimsStay
<1> DEFINE e == Head(pass[p].drafted).edge
           draft == Head(pass[p].drafted).draft
           goes == [pass[p] EXCEPT !.drafted = Tail(@)]
           record == RecordKey(p, e)
           row == Row(e, "ai", draft, record, "unreviewed")
<1>1. pass[p] # NoPass /\ UNCHANGED <<edit, fold>>
  BY PcIs DEF RecordDraft
<1>2. fold = NoFold /\ "model" \in DOMAIN pass[p] /\ pass[p].model \in Models
  BY <1>1, PassingNoFold
<1>3. "model" \in DOMAIN goes /\ goes.model \in Models
  BY <1>2
<1>4. \/ UNCHANGED labels /\ (Passing(p, goes) \/ Passing(p, NoPass))
      \/ /\ draft \in Grounded /\ ~\E c \in On(e) : labels[c].record = record
         /\ labels' = Append(labels, row) /\ Passing(p, goes)
  BY DEF RecordDraft
<1> HIDE DEF goes
<1>5. CASE UNCHANGED labels /\ (Passing(p, goes) \/ Passing(p, NoPass))
  BY <1>1, <1>2, <1>3, <1>5, PassKeeps
<1>6. CASE /\ draft \in Grounded /\ ~\E c \in On(e) : labels[c].record = record
           /\ labels' = Append(labels, row) /\ Passing(p, goes)
  <2>1. /\ DOMAIN row = RowFields /\ ~row.gone /\ row.says = draft /\ row.edge = e
        /\ row.by = Null /\ row.record = record
    BY DEF Row, RowFields
  <2>2. record = <<pass[p].model, Request[e]>>
    BY DEF RecordKey
  <2> HIDE DEF row, record, e, draft
  <2>3. PICK n \in Nat : labels = [c \in 1..n |-> labels[c]]
    BY DEF LabelsInv, ClaimsOK
  <2>4. /\ DOMAIN labels = 1..n /\ DOMAIN labels' = 1 .. n + 1
        /\ labels' = [c \in 1 .. n + 1 |-> labels'[c]]
        /\ labels'[n + 1] = row /\ \A c \in 1..n : labels'[c] = labels[c]
    BY <1>6, <2>3, AppendIs
  <2>5. \A c \in 1..n : labels[c].edge # e
    <3>1. ASSUME NEW c \in 1..n, labels[c].edge = e PROVE FALSE
      <4>0. PICK d \in DOMAIN labels, m \in Models :
              /\ labels[d].edge = labels[c].edge
              /\ labels[d].record = <<m, Request[labels[c].edge]>>
        BY <2>4 DEF LabelsInv, ClaimsOK
      <4>1. labels[d].edge = e /\ labels[d].record = <<m, Request[e]>>
        BY <3>1, <4>0
      <4>2. d \in On(e)
        BY <4>1, RowsAre DEF LabelsInv
      <4>3. m = pass[p].model
        BY <1>2 DEF OneModel
      <4>4. QED BY <1>6, <2>2, <4>1, <4>2, <4>3
    <3>2. QED BY <3>1
  <2>6. \A c \in DOMAIN labels' : c \in 1..n \/ c = n + 1
    BY <2>4
  <2>7. ASSUME NEW c \in DOMAIN labels'
        PROVE  /\ DOMAIN labels'[c] = RowFields /\ ~labels'[c].gone /\ labels'[c].says \in Grounded
               /\ \A d \in DOMAIN labels' : labels'[c].edge = labels'[d].edge
                    /\ labels'[c].by = Null /\ labels'[d].by = Null => c = d
    <3>1. CASE c = n + 1
      BY <1>6, <2>1, <2>4, <2>5, <2>6, <3>1
    <3>2. CASE c \in 1..n
      <4>1. /\ DOMAIN labels[c] = RowFields /\ ~labels[c].gone /\ labels[c].says \in Grounded
            /\ \A d \in 1..n : labels[c].edge = labels[d].edge
                 /\ labels[c].by = Null /\ labels[d].by = Null => c = d
        BY <2>4, <3>2 DEF LabelsInv, ClaimsOK
      <4>2. QED BY <2>1, <2>4, <2>5, <2>6, <3>2, <4>1
    <3>3. QED BY <2>6, <3>1, <3>2
  <2>8. ASSUME NEW c \in DOMAIN labels'
        PROVE  \E d \in DOMAIN labels', m \in Models :
                 /\ labels'[d].edge = labels'[c].edge
                 /\ labels'[d].record = <<m, Request[labels'[c].edge]>>
    <3>1. CASE c = n + 1
      BY <1>2, <2>1, <2>2, <2>4, <3>1
    <3>2. CASE c \in 1..n
      <4>1. PICK d \in DOMAIN labels, m \in Models :
              /\ labels[d].edge = labels[c].edge
              /\ labels[d].record = <<m, Request[labels[c].edge]>>
        BY <2>4, <3>2 DEF LabelsInv, ClaimsOK
      <4>2. labels'[d] = labels[d] /\ labels'[c] = labels[c] /\ d \in DOMAIN labels'
        BY <2>4, <3>2
      <4>3. QED BY <4>1, <4>2
    <3>3. QED BY <2>6, <3>1, <3>2
  <2>9. ClaimsOK'
    <3>1. \E k \in Nat : labels' = [c \in 1..k |-> labels'[c]]
      BY <2>4
    <3>2. QED BY <2>7, <2>8, <3>1 DEF ClaimsOK
  <2>10. PassesOK'
    <3>1. pass' = [pass EXCEPT ![p] = goes]
      BY <1>6 DEF Passing
    <3>2. QED BY <1>3, <3>1 DEF LabelsInv, PassesOK
  <2>11. EditsOK'
    BY <1>1, <2>4 DEF LabelsInv, EditsOK
  <2>12. FoldOK'
    BY <1>1, <1>2 DEF FoldOK
  <2>13. ClaimsStay
    <3>1. Rows = 1..n
      BY <2>4, RowsAre DEF LabelsInv
    <3>2. QED BY <2>4, <3>1 DEF ClaimsStay, LabelsInv, ClaimsOK
  <2>14. QED BY <2>9, <2>10, <2>11, <2>12, <2>13 DEF LabelsInv
<1>7. QED BY <1>4, <1>5, <1>6

(* A step of a reader that writes no claim but a review.                    *)
LEMMA ReaderMoves ==
  ASSUME LabelsInv, NEW u \in Readers, NEW c, Edits(u, c), SameRows, fold = NoFold,
         UNCHANGED <<pass, fold>>,
         c = NoEdit \/ /\ DOMAIN c = {"pc", "claim", "says"} /\ c.pc \in {"read", "edit"}
                       /\ c.says \in Grounded /\ c.claim \in DOMAIN labels
                       /\ c.pc = "edit" =>
                            /\ labels[c.claim].by = Null
                            /\ \A v \in Readers : edit[v].pc = "edit" => edit[v].claim # c.claim
  PROVE  LabelsInv' /\ ClaimsStay
<1>1. ClaimsOK' /\ ClaimsStay
  BY SameKeeps DEF LabelsInv
<1>2. PassesOK' /\ FoldOK'
  BY DEF LabelsInv, PassesOK, FoldOK
<1>3. edit' = [edit EXCEPT ![u] = c]
  BY DEF Edits
<1>4. /\ edit' = [v \in Readers |-> edit'[v]] /\ edit'[u] = c
      /\ \A v \in Readers : v # u => edit'[v] = edit[v]
  BY <1>3 DEF LabelsInv, EditsOK
<1>5. /\ DOMAIN labels' = DOMAIN labels
      /\ \A k \in DOMAIN labels : labels'[k].by = labels[k].by
  BY DEF SameRows
<1>6. ASSUME NEW v \in Readers, edit'[v] # NoEdit
      PROVE  /\ DOMAIN edit'[v] = {"pc", "claim", "says"} /\ edit'[v].pc \in {"read", "edit"}
             /\ edit'[v].says \in Grounded /\ edit'[v].claim \in DOMAIN labels'
             /\ edit'[v].pc = "edit" => labels'[edit'[v].claim].by = Null
  BY <1>4, <1>5, <1>6 DEF LabelsInv, EditsOK
<1>7. ASSUME NEW v \in Readers, NEW w \in Readers, edit'[v].pc = "edit", edit'[w].pc = "edit",
             edit'[v].claim = edit'[w].claim
      PROVE  v = w
  <2>1. \A x \in Readers : edit'[x].pc = "edit" => edit'[x] # NoEdit
    BY DEF NoEdit
  <2>2. CASE v # u /\ w # u
    BY <1>4, <1>7, <2>2, PcIs DEF LabelsInv, EditsOK
  <2>3. CASE v = u \/ w = u
    BY <1>4, <1>7, <2>1, <2>3
  <2>4. QED BY <2>2, <2>3
<1>8. EditsOK'
  BY <1>4, <1>6, <1>7 DEF EditsOK
<1>9. QED BY <1>1, <1>2, <1>8 DEF LabelsInv

LEMMA ReviewKeeps ==
  ASSUME LabelsInv, NEW u \in Readers, ReviewClaim(u)
  PROVE  LabelsInv' /\ ClaimsStay
<1>1. PICK c \in Rows, state \in {"accepted", "rejected"} : labels' = [labels EXCEPT ![c].review = state]
  BY DEF ReviewClaim
<1>2. UNCHANGED <<edit, pass, fold>>
  BY DEF ReviewClaim, ReaderOnly
<1>3. SameRows
  <2>1. PICK n \in Nat : labels = [k \in 1..n |-> labels[k]]
    BY DEF LabelsInv, ClaimsOK
  <2>2. DOMAIN labels' = DOMAIN labels /\ labels' = [k \in 1..n |-> labels'[k]]
    BY <1>1, <2>1
  <2>3. ASSUME NEW k \in DOMAIN labels
        PROVE  /\ DOMAIN labels'[k] = RowFields
               /\ labels'[k].edge = labels[k].edge /\ labels'[k].origin = labels[k].origin
               /\ labels'[k].says = labels[k].says /\ labels'[k].record = labels[k].record
               /\ labels'[k].by = labels[k].by /\ labels'[k].gone = labels[k].gone
    BY <1>1 DEF LabelsInv, ClaimsOK
  <2>4. QED BY <2>2, <2>3 DEF SameRows
<1>4. ClaimsOK' /\ ClaimsStay
  BY <1>3, SameKeeps DEF LabelsInv
<1>5. PassesOK'
  BY <1>2 DEF LabelsInv, PassesOK
<1>6. EditsOK'
  BY <1>2, <1>3 DEF LabelsInv, EditsOK, SameRows
<1>7. FoldOK'
  BY <1>2, <1>3 DEF LabelsInv, FoldOK, SameRows
<1>8. QED BY <1>4, <1>5, <1>6, <1>7 DEF LabelsInv

LEMMA ReaderOpens ==
  ASSUME ~FoldsBeside, LabelsInv, NEW u \in Readers, OpenClaim(u) \/ LockClaim(u)
  PROVE  LabelsInv' /\ ClaimsStay
<1>1. UNCHANGED <<labels, pass, fold>>
  BY DEF OpenClaim, LockClaim, ReaderOnly
<1>2. fold = NoFold
  BY PcIs DEF OpenClaim, LockClaim, LabelsInv, FoldOK
<1>3. SameRows
  BY <1>1, UnchangedSame DEF LabelsInv
<1>4. CASE OpenClaim(u)
  <2>1. PICK c \in Rows, says \in Grounded : Edits(u, [pc |-> "read", claim |-> c, says |-> says])
    BY <1>4 DEF OpenClaim
  <2> DEFINE e == [pc |-> "read", claim |-> c, says |-> says]
  <2>2. DOMAIN e = {"pc", "claim", "says"} /\ e.pc = "read" /\ e.says \in Grounded /\ e.claim \in DOMAIN labels
    BY RowsAre DEF LabelsInv
  <2>3. Edits(u, e)
    BY <2>1
  <2> HIDE DEF e
  <2>4. QED BY <1>1, <1>2, <1>3, <2>2, <2>3, ReaderMoves
<1>5. CASE LockClaim(u)
  <2> DEFINE e == [edit[u] EXCEPT !.pc = "edit"]
  <2>1. (Edits(u, e) /\ edit[u].claim \in Rows /\ labels[edit[u].claim].by = Null) \/ Edits(u, NoEdit)
    BY <1>5 DEF LockClaim
  <2>2. edit[u] # NoEdit /\ edit[u].claim \notin Locked
    BY <1>5, PcIs DEF LockClaim
  <2>3. /\ DOMAIN e = {"pc", "claim", "says"} /\ e.pc = "edit" /\ e.says \in Grounded
        /\ e.claim = edit[u].claim /\ e.claim \in DOMAIN labels
    BY <2>2 DEF LabelsInv, EditsOK
  <2>4. \A v \in Readers : edit[v].pc = "edit" => edit[v].claim # edit[u].claim
    BY <2>2 DEF Locked
  <2> HIDE DEF e
  <2>5. QED BY <1>1, <1>2, <1>3, <2>1, <2>3, <2>4, ReaderMoves
<1>6. QED BY <1>4, <1>5

(* An edit makes the reader's claim in place of the one it names.           *)
LEMMA EditKeeps ==
  ASSUME LabelsInv, NEW u \in Readers, CommitEdit(u)
  PROVE  LabelsInv' /\ ClaimsStay
<1> DEFINE c == edit[u].claim
           row == Row(labels[c].edge, "user", edit[u].says, Null, "accepted")
           old == [labels EXCEPT ![c].by = Len(labels) + 1]
<1>1. edit[u] # NoEdit /\ edit[u].pc = "edit" /\ Edits(u, NoEdit) /\ UNCHANGED <<pass, fold>>
  BY PcIs DEF CommitEdit, ReaderOnly
<1>2. fold = NoFold
  BY <1>1 DEF LabelsInv, FoldOK
<1>3. /\ c \in DOMAIN labels /\ labels[c].by = Null /\ edit[u].says \in Grounded
      /\ \A v \in Readers : edit[v].pc = "edit" /\ edit[v].claim = c => v = u
  BY <1>1 DEF LabelsInv, EditsOK
<1>4. \/ UNCHANGED labels
      \/ Len(labels) < MaxLabels /\ labels' = Append(old, row)
  BY DEF CommitEdit
<1>5. CASE UNCHANGED labels
  BY <1>1, <1>2, <1>5, UnchangedSame, ReaderMoves DEF LabelsInv
<1>6. CASE Len(labels) < MaxLabels /\ labels' = Append(old, row)
  <2>1. PICK n \in Nat : labels = [k \in 1..n |-> labels[k]]
    BY DEF LabelsInv, ClaimsOK
  <2>2. Len(labels) = n /\ DOMAIN labels = 1..n
    BY <2>1, AppendIs
  <2>3. /\ DOMAIN row = RowFields /\ ~row.gone /\ row.says = edit[u].says /\ row.edge = labels[c].edge
        /\ row.by = Null
    BY DEF Row, RowFields
  <2>4. n + 1 # Null
    <3>1. n + 1 \in 1..MaxLabels
      BY <1>6, <2>2, LabelsAssumption
    <3>2. QED BY <3>1, LabelsAssumption
  <2>5. /\ old = [k \in 1..n |-> old[k]] /\ old[c].by = n + 1
        /\ \A k \in 1..n : k # c => old[k] = labels[k]
        /\ \A k \in 1..n :
             /\ DOMAIN old[k] = RowFields
             /\ old[k].edge = labels[k].edge /\ old[k].origin = labels[k].origin
             /\ old[k].says = labels[k].says /\ old[k].record = labels[k].record
             /\ old[k].gone = labels[k].gone
    <3>1. old[c].by = n + 1
      BY <1>3, <2>2 DEF LabelsInv, ClaimsOK, RowFields
    <3>2. \A k \in 1..n : k # c => old[k] = labels[k]
      BY <2>2
    <3>3. old = [k \in 1..n |-> old[k]]
      BY <2>1
    <3>4. ASSUME NEW k \in 1..n
          PROVE  /\ DOMAIN old[k] = RowFields
                 /\ old[k].edge = labels[k].edge /\ old[k].origin = labels[k].origin
                 /\ old[k].says = labels[k].says /\ old[k].record = labels[k].record
                 /\ old[k].gone = labels[k].gone
      BY <2>2 DEF LabelsInv, ClaimsOK
    <3>5. QED BY <3>1, <3>2, <3>3, <3>4
  <2> HIDE DEF row, old
  <2>6. /\ DOMAIN labels' = 1 .. n + 1 /\ labels' = [k \in 1 .. n + 1 |-> labels'[k]]
        /\ labels'[n + 1] = row /\ \A k \in 1..n : labels'[k] = old[k]
    BY <1>6, <2>5, AppendIs
  <2>7. \A k \in 1..n : labels[k].edge = labels[c].edge => labels'[k].by # Null
    <3>1. ASSUME NEW k \in 1..n, labels[k].edge = labels[c].edge PROVE labels'[k].by # Null
      <4>1. CASE k = c
        BY <2>4, <2>5, <2>6, <4>1
      <4>2. CASE k # c
        <5>1. labels[k].by # Null
          BY <1>3, <2>2, <3>1, <4>2 DEF LabelsInv, ClaimsOK
        <5>2. labels'[k] = labels[k]
          BY <2>5, <2>6, <4>2
        <5>3. QED BY <5>1, <5>2
      <4>3. QED BY <4>1, <4>2
    <3>2. QED BY <3>1
  <2>8. \A k \in DOMAIN labels' : k \in 1..n \/ k = n + 1
    BY <2>6
  <2>9. ASSUME NEW k \in DOMAIN labels'
        PROVE  /\ DOMAIN labels'[k] = RowFields /\ ~labels'[k].gone /\ labels'[k].says \in Grounded
               /\ \A d \in DOMAIN labels' : labels'[k].edge = labels'[d].edge
                    /\ labels'[k].by = Null /\ labels'[d].by = Null => k = d
    <3>1. CASE k = n + 1
      <4>1. \A d \in 1..n : labels'[d].edge = labels[d].edge
        BY <2>5, <2>6
      <4>2. QED BY <1>3, <2>3, <2>6, <2>7, <2>8, <3>1, <4>1
    <3>2. CASE k \in 1..n
      <4>1. /\ ~labels[k].gone /\ labels[k].says \in Grounded
            /\ \A d \in 1..n : labels[k].edge = labels[d].edge
                 /\ labels[k].by = Null /\ labels[d].by = Null => k = d
        BY <2>2, <3>2 DEF LabelsInv, ClaimsOK
      <4>2. \A d \in 1..n : /\ labels'[d].edge = labels[d].edge
                            /\ labels'[d].by = Null => labels[d].by = Null
        BY <1>3, <2>5, <2>6
      <4>3. \A d \in 1..n : labels'[k].edge = labels'[d].edge
              /\ labels'[k].by = Null /\ labels'[d].by = Null => k = d
        BY <3>2, <4>1, <4>2
      <4>4. labels'[k].by = Null => labels'[k].edge # labels'[n + 1].edge
        BY <2>3, <2>6, <2>7, <3>2, <4>2
      <4>5. DOMAIN labels'[k] = RowFields /\ ~labels'[k].gone /\ labels'[k].says \in Grounded
        BY <2>5, <2>6, <3>2, <4>1
      <4>6. QED BY <2>8, <4>3, <4>4, <4>5
    <3>3. QED BY <2>8, <3>1, <3>2
  <2>10. ASSUME NEW k \in DOMAIN labels'
         PROVE  \E d \in DOMAIN labels', m \in Models :
                  /\ labels'[d].edge = labels'[k].edge
                  /\ labels'[d].record = <<m, Request[labels'[k].edge]>>
    <3>1. PICK j \in 1..n : labels'[k].edge = labels[j].edge
      BY <1>3, <2>2, <2>3, <2>5, <2>6, <2>8
    <3>2. PICK d \in 1..n, m \in Models :
            /\ labels[d].edge = labels[j].edge
            /\ labels[d].record = <<m, Request[labels[j].edge]>>
      BY <2>2 DEF LabelsInv, ClaimsOK
    <3>3. labels'[d].edge = labels[d].edge /\ labels'[d].record = labels[d].record /\ d \in DOMAIN labels'
      BY <2>5, <2>6
    <3>4. QED BY <3>1, <3>2, <3>3
  <2>11. ClaimsOK'
    <3>1. \E i \in Nat : labels' = [k \in 1..i |-> labels'[k]]
      BY <2>6
    <3>2. QED BY <2>9, <2>10, <3>1 DEF ClaimsOK
  <2>12. EditsOK'
    <3>1. edit' = [edit EXCEPT ![u] = NoEdit]
      BY <1>1 DEF Edits
    <3>2. /\ edit' = [v \in Readers |-> edit'[v]] /\ edit'[u] = NoEdit
          /\ \A v \in Readers : v # u => edit'[v] = edit[v]
      BY <3>1 DEF LabelsInv, EditsOK
    <3>3. ASSUME NEW v \in Readers, edit'[v] # NoEdit
          PROVE  /\ DOMAIN edit'[v] = {"pc", "claim", "says"} /\ edit'[v].pc \in {"read", "edit"}
                 /\ edit'[v].says \in Grounded /\ edit'[v].claim \in DOMAIN labels'
                 /\ edit'[v].pc = "edit" =>
                      /\ labels'[edit'[v].claim].by = Null
                      /\ \A w \in Readers : edit'[w].pc = "edit" /\ edit'[w].claim = edit'[v].claim => w = v
      <4>1. v # u /\ edit'[v] = edit[v]
        BY <3>2, <3>3
      <4>2. /\ DOMAIN edit[v] = {"pc", "claim", "says"} /\ edit[v].pc \in {"read", "edit"}
            /\ edit[v].says \in Grounded /\ edit[v].claim \in 1..n
            /\ edit[v].pc = "edit" =>
                 /\ labels[edit[v].claim].by = Null /\ edit[v].claim # c
                 /\ \A w \in Readers : edit[w].pc = "edit" /\ edit[w].claim = edit[v].claim => w = v
        BY <1>3, <2>2, <3>3, <4>1 DEF LabelsInv, EditsOK
      <4>3. edit[v].pc = "edit" => labels'[edit[v].claim].by = Null
        BY <2>5, <2>6, <4>2
      <4>4. edit'[u].pc # "edit"
        BY <3>2, PcIs
      <4>5. edit[v].pc = "edit" =>
              \A w \in Readers : edit'[w].pc = "edit" /\ edit'[w].claim = edit[v].claim => w = v
        BY <3>2, <4>2, <4>4
      <4>6. edit[v].claim \in DOMAIN labels'
        BY <2>6, <4>2
      <4>7. QED BY <4>1, <4>2, <4>3, <4>5, <4>6
    <3>4. QED BY <3>2, <3>3 DEF EditsOK
  <2>13. PassesOK' /\ FoldOK'
    BY <1>1, <1>2 DEF LabelsInv, PassesOK, FoldOK
  <2>14. ClaimsStay
    <3>1. Rows = 1..n
      BY <2>2, RowsAre DEF LabelsInv
    <3>2. ASSUME NEW k \in 1..n
          PROVE  /\ ~labels'[k].gone
                 /\ labels'[k].says = labels[k].says /\ labels'[k].origin = labels[k].origin
                 /\ labels'[k].by # labels[k].by => k = c
      BY <2>2, <2>5, <2>6 DEF LabelsInv, ClaimsOK
    <3>3. QED BY <1>1, <1>3, <3>1, <3>2 DEF ClaimsStay
  <2>15. QED BY <2>11, <2>12, <2>13, <2>14 DEF LabelsInv
<1>7. QED BY <1>4, <1>5, <1>6

(* A merge sees all claims of the folded citation.                          *)
LEMMA BeginFoldKeeps ==
  ASSUME ~FoldsBeside, LabelsInv, BeginFold \/ MoveLabels
  PROVE  LabelsInv' /\ ClaimsStay
<1>1. UNCHANGED <<labels, pass, edit>>
  BY DEF BeginFold, MoveLabels
<1>2. ClaimsOK' /\ ClaimsStay
  BY <1>1, UnchangedSame, SameKeeps DEF LabelsInv
<1>3. PassesOK' /\ EditsOK'
  BY <1>1 DEF LabelsInv, PassesOK, EditsOK
<1>4. FoldOK'
  <2>1. CASE BeginFold
    <3>1. PICK f \in Folds :
            fold' = [pc |-> "move", from |-> f[1], into |-> f[2], rows |-> On(f[1])]
      BY <2>1 DEF BeginFold
    <3>2. /\ DOMAIN fold' = {"pc", "from", "into", "rows"} /\ fold'.pc = "move"
          /\ fold'.from = f[1] /\ fold'.into = f[2] /\ fold'.rows = On(f[1])
      BY <3>1
    <3>3. (\A p \in Passes : pass[p] = NoPass) /\ \A u \in Readers : edit[u] = NoEdit
      BY <2>1 DEF BeginFold, Writing
    <3>4. On(f[1]) = {c \in DOMAIN labels : labels[c].edge = f[1]}
      BY RowsAre DEF LabelsInv
    <3>5. QED BY <1>1, <3>2, <3>3, <3>4 DEF FoldOK
  <2>2. CASE MoveLabels
    <3>1. fold # NoFold
      BY <2>2, PcIs DEF MoveLabels
    <3>2. CASE fold' = NoFold
      BY <3>2 DEF FoldOK
    <3>3. CASE fold' # NoFold
      <4>1. /\ fold' = [fold EXCEPT !.pc = "delete"]
            /\ ~\E c \in fold.rows, d \in On(fold.into) :
                  labels[c].record # Null /\ labels[c].record = labels[d].record
        BY <2>2, <3>3 DEF MoveLabels
      <4>2. On(fold.into) = {d \in DOMAIN labels : labels[d].edge = fold.into}
        BY RowsAre DEF LabelsInv
      <4>3. /\ DOMAIN fold' = DOMAIN fold /\ fold'.from = fold.from /\ fold'.into = fold.into
            /\ fold'.rows = fold.rows /\ fold'.pc = "delete"
        BY <3>1, <4>1 DEF LabelsInv, FoldOK
      <4>4. \A c \in fold.rows, d \in DOMAIN labels :
              labels[d].edge = fold.into => labels[c].record = Null \/ labels[c].record # labels[d].record
        BY <4>1, <4>2
      <4>5. /\ DOMAIN fold = {"pc", "from", "into", "rows"}
            /\ \E f \in Folds : fold.from = f[1] /\ fold.into = f[2]
            /\ fold.rows = {c \in DOMAIN labels : labels[c].edge = fold.from}
            /\ \A p \in Passes : pass[p] = NoPass
            /\ \A u \in Readers : edit[u] = NoEdit
        BY <3>1 DEF LabelsInv, FoldOK
      <4>6. QED BY <1>1, <4>3, <4>4, <4>5 DEF FoldOK
    <3>4. QED BY <3>2, <3>3
  <2>3. QED BY <2>1, <2>2
<1>5. QED BY <1>2, <1>3, <1>4 DEF LabelsInv

(* So no claim is lost with it, and the survivor had none.                  *)
LEMMA CommitFoldKeeps ==
  ASSUME SameRequests, OneModel, LabelsInv, CommitFold
  PROVE  LabelsInv' /\ ClaimsStay
<1> DEFINE lost == On(fold.from) \ fold.rows
           new(c) == [labels[c] EXCEPT
                        !.edge = IF c \in fold.rows THEN fold.into ELSE @,
                        !.gone = @ \/ c \in lost,
                        !.by = IF @ \in lost THEN Null ELSE @]
<1>1. fold # NoFold /\ fold.pc = "delete" /\ UNCHANGED <<pass, edit>> /\ fold' = NoFold
  BY PcIs DEF CommitFold
<1>2. PICK f \in Folds : fold.from = f[1] /\ fold.into = f[2]
  BY <1>1 DEF LabelsInv, FoldOK
<1>3. /\ fold.rows = {c \in DOMAIN labels : labels[c].edge = fold.from}
      /\ \A p \in Passes : pass[p] = NoPass
      /\ \A u \in Readers : edit[u] = NoEdit
      /\ \A c \in fold.rows, d \in DOMAIN labels :
           labels[d].edge = fold.into => labels[c].record = Null \/ labels[c].record # labels[d].record
  BY <1>1 DEF LabelsInv, FoldOK
<1>4. lost = {}
  BY <1>3, RowsAre DEF LabelsInv
<1>5. labels' = [c \in DOMAIN labels |-> new(c)]
  BY DEF CommitFold
<1>6. ASSUME NEW c \in DOMAIN labels
      PROVE  /\ DOMAIN new(c) = RowFields /\ new(c).origin = labels[c].origin
             /\ new(c).says = labels[c].says /\ new(c).record = labels[c].record
             /\ new(c).by = labels[c].by /\ new(c).gone = (labels[c].gone \/ FALSE)
             /\ new(c).edge = IF c \in fold.rows THEN fold.into ELSE labels[c].edge
  <2>1. DOMAIN labels[c] = RowFields
    BY DEF LabelsInv, ClaimsOK
  <2> HIDE DEF lost
  <2>2. QED BY <1>4, <2>1 DEF RowFields
<1> HIDE DEF new, lost
<1>7. /\ DOMAIN labels' = DOMAIN labels
      /\ \A c \in DOMAIN labels :
           /\ DOMAIN labels'[c] = RowFields /\ labels'[c].origin = labels[c].origin
           /\ labels'[c].says = labels[c].says /\ labels'[c].record = labels[c].record
           /\ labels'[c].by = labels[c].by /\ labels'[c].gone = (labels[c].gone \/ FALSE)
           /\ labels'[c].edge = IF c \in fold.rows THEN fold.into ELSE labels[c].edge
  BY <1>5, <1>6
<1>8. \A m \in Models : <<m, Request[fold.from]>> # Null
  BY <1>2, LabelsAssumption DEF Keys
<1>9. Request[fold.from] = Request[fold.into]
  BY <1>2 DEF SameRequests
<1>10. ASSUME NEW c \in fold.rows, NEW d \in DOMAIN labels, labels[d].edge = fold.into
       PROVE  FALSE
  <2>1. c \in DOMAIN labels /\ labels[c].edge = fold.from
    BY <1>3
  <2>2. PICK i \in DOMAIN labels, m \in Models :
          /\ labels[i].edge = labels[c].edge
          /\ labels[i].record = <<m, Request[labels[c].edge]>>
    BY <2>1 DEF LabelsInv, ClaimsOK
  <2>3. PICK j \in DOMAIN labels, o \in Models :
          /\ labels[j].edge = labels[d].edge
          /\ labels[j].record = <<o, Request[labels[d].edge]>>
    BY DEF LabelsInv, ClaimsOK
  <2>4. i \in fold.rows /\ labels[i].record = <<m, Request[fold.from]>>
    BY <1>3, <2>1, <2>2
  <2>5. labels[j].edge = fold.into /\ labels[j].record = <<m, Request[fold.from]>>
    BY <1>9, <1>10, <2>3 DEF OneModel
  <2>6. QED BY <1>3, <1>8, <2>4, <2>5
<1>11. ASSUME NEW c \in DOMAIN labels, NEW d \in DOMAIN labels, labels'[c].edge = labels'[d].edge
       PROVE  labels[c].edge = labels[d].edge
  BY <1>3, <1>7, <1>10, <1>11
<1>12. ClaimsOK'
  <2>1. \E n \in Nat : labels' = [c \in 1..n |-> labels'[c]]
    <3>1. PICK n \in Nat : labels = [c \in 1..n |-> labels[c]]
      BY DEF LabelsInv, ClaimsOK
    <3>2. QED BY <1>5, <3>1
  <2>2. ASSUME NEW c \in DOMAIN labels'
        PROVE  /\ DOMAIN labels'[c] = RowFields /\ ~labels'[c].gone /\ labels'[c].says \in Grounded
               /\ \A d \in DOMAIN labels' : labels'[c].edge = labels'[d].edge
                    /\ labels'[c].by = Null /\ labels'[d].by = Null => c = d
    <3>1. c \in DOMAIN labels
      BY <1>7
    <3>2. /\ ~labels[c].gone /\ labels[c].says \in Grounded
          /\ \A d \in DOMAIN labels : labels[c].edge = labels[d].edge
               /\ labels[c].by = Null /\ labels[d].by = Null => c = d
      BY <3>1 DEF LabelsInv, ClaimsOK
    <3>3. DOMAIN labels'[c] = RowFields /\ ~labels'[c].gone /\ labels'[c].says \in Grounded
      BY <1>7, <3>1, <3>2
    <3>4. ASSUME NEW d \in DOMAIN labels, labels'[c].edge = labels'[d].edge,
                 labels'[c].by = Null, labels'[d].by = Null
          PROVE  c = d
      <4>1. labels[c].edge = labels[d].edge
        BY <1>11, <3>1, <3>4
      <4>2. labels[c].by = Null /\ labels[d].by = Null
        BY <1>7, <3>1, <3>4
      <4>3. QED BY <3>2, <4>1, <4>2
    <3>5. DOMAIN labels' = DOMAIN labels
      BY <1>7
    <3>6. QED BY <3>3, <3>4, <3>5
  <2>3. ASSUME NEW c \in DOMAIN labels'
        PROVE  \E d \in DOMAIN labels', m \in Models :
                 /\ labels'[d].edge = labels'[c].edge
                 /\ labels'[d].record = <<m, Request[labels'[c].edge]>>
    <3>1. c \in DOMAIN labels
      BY <1>7
    <3>2. PICK d \in DOMAIN labels, m \in Models :
            /\ labels[d].edge = labels[c].edge
            /\ labels[d].record = <<m, Request[labels[c].edge]>>
      BY <3>1 DEF LabelsInv, ClaimsOK
    <3>3. d \in fold.rows <=> c \in fold.rows
      BY <1>3, <3>1, <3>2
    <3>4. labels'[d].edge = labels'[c].edge /\ labels'[d].record = labels[d].record
      BY <1>7, <3>1, <3>2, <3>3
    <3>5. Request[labels'[c].edge] = Request[labels[c].edge]
      BY <1>3, <1>7, <1>9, <3>1
    <3>6. QED BY <1>7, <3>2, <3>4, <3>5
  <2>4. QED BY <2>1, <2>2, <2>3 DEF ClaimsOK
<1>13. PassesOK' /\ FoldOK'
  BY <1>1 DEF LabelsInv, PassesOK, FoldOK
<1>14. EditsOK'
  BY <1>1, <1>3 DEF LabelsInv, EditsOK
<1>15. ClaimsStay
  <2>1. Rows = DOMAIN labels
    BY RowsAre DEF LabelsInv
  <2>2. QED BY <1>7, <2>1 DEF ClaimsStay, LabelsInv, ClaimsOK
<1>16. QED BY <1>12, <1>13, <1>14, <1>15 DEF LabelsInv

LEMMA LabelsNextKeeps ==
  ASSUME ~FoldsBeside, OneModel, SameRequests, LabelsInv, LabelsNext
  PROVE  LabelsInv' /\ ClaimsStay
<1>1. ASSUME NEW p \in Passes, PassStep(p) PROVE LabelsInv' /\ ClaimsStay
  BY <1>1, StartPassKeeps, PassStepKeeps, RecordKeeps DEF PassStep
<1>2. ASSUME NEW u \in Readers, ReaderStep(u) PROVE LabelsInv' /\ ClaimsStay
  BY <1>2, ReaderOpens, ReviewKeeps, EditKeeps DEF ReaderStep
<1>3. CASE BeginFold \/ MoveLabels
  BY <1>3, BeginFoldKeeps
<1>4. CASE CommitFold
  BY <1>4, CommitFoldKeeps
<1>5. QED BY <1>1, <1>2, <1>3, <1>4 DEF LabelsNext

LEMMA LabelsStay ==
  ASSUME LabelsInv, UNCHANGED labelsVars
  PROVE  LabelsInv' /\ ClaimsStay
<1>1. UNCHANGED <<labels, pass, edit, fold>>
  BY DEF labelsVars
<1>2. ClaimsOK' /\ ClaimsStay
  BY <1>1, UnchangedSame, SameKeeps DEF LabelsInv
<1>3. PassesOK' /\ EditsOK' /\ FoldOK'
  BY <1>1 DEF LabelsInv, PassesOK, EditsOK, FoldOK
<1>4. QED BY <1>2, <1>3 DEF LabelsInv

-----------------------------------------------------------------------------
(* The record files as a whole.                                             *)
RecordsInv == NotesInv /\ MarksInv /\ LabelsInv

LEMMA RecordsNextKeeps ==
  ASSUME ~FoldsBeside, OneModel, SameRequests, RecordsInv, RecordsNext
  PROVE  RecordsInv' /\ NoteKept /\ MarksKept /\ ClaimsStay
<1>1. NotesNext \/ UNCHANGED notesVars
  BY DEF RecordsNext
<1>2. HighlightsNext \/ UNCHANGED highlightsVars
  BY DEF RecordsNext
<1>3. LabelsNext \/ UNCHANGED labelsVars
  BY DEF RecordsNext
<1>4. NotesInv' /\ NoteKept
  BY <1>1, NotesNextKeeps, NotesStay DEF RecordsInv
<1>5. MarksInv' /\ MarksKept
  BY <1>2, MarksNext, MarksStay DEF RecordsInv
<1>6. LabelsInv' /\ ClaimsStay
  BY <1>3, LabelsNextKeeps, LabelsStay DEF RecordsInv
<1>7. QED BY <1>4, <1>5, <1>6 DEF RecordsInv

LEMMA RecordsStay ==
  ASSUME RecordsInv, UNCHANGED recordsVars
  PROVE  RecordsInv' /\ NoteKept /\ MarksKept /\ ClaimsStay
<1>1. UNCHANGED notesVars /\ UNCHANGED highlightsVars /\ UNCHANGED labelsVars
  BY DEF recordsVars
<1>2. QED BY <1>1, NotesStay, MarksStay, LabelsStay DEF RecordsInv

(* A note, a mark and a claim are replaced only as FilesKept says, for any  *)
(* savers, markers, passes and readers: with one model, with requests that  *)
(* do not tell folded citations apart, and with no merge while others write *)
(* claims (src/notes.rs, the handlers of src/api.rs on highlights,          *)
(* relationship.rs, labels.rs).                                             *)
THEOREM FilesAreKept ==
  ASSUME ~FoldsBeside, OneModel, SameRequests
  PROVE  RecordsSpec => FilesKept
<1>1. RecordsInit => RecordsInv
  BY NotesInitKeeps, MarksInitKeeps, LabelsInitKeeps DEF RecordsInit, RecordsInv
<1>2. RecordsInv => OneLabel
  BY OneInForce DEF RecordsInv, LabelsInv
<1>3. RecordsInv /\ [RecordsNext]_recordsVars => RecordsInv' /\ NoteKept /\ MarksKept /\ ClaimsStay
  BY RecordsNextKeeps, RecordsStay
<1>4. RecordsInv' => OneLabel'
  BY <1>2, PTL
<1>5. RecordsInv /\ [RecordsNext]_recordsVars =>
        RecordsInv' /\ [NoteKept /\ MarksKept /\ LabelsKept]_recordsVars
  BY <1>3, <1>4 DEF LabelsKept
<1>6. QED BY <1>1, <1>5, PTL DEF RecordsSpec, FilesKept
=============================================================================
