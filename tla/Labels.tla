------------------------------- MODULE Labels -------------------------------
(* The labels of the citations of one paper: passes that ask a model why    *)
(* the paper cites a work, the records its answers are cached in, the       *)
(* claims made of them, the readers who review and edit claims, and merges  *)
(* that fold one citation into another.                                     *)
EXTENDS Naturals, Sequences, FiniteSets, SequencesExt

CONSTANTS
  Passes,       \* processes that label: jobs of the server and commands
  Readers,      \* requests that edit or review a claim
  Citations,    \* the assertions of the paper, by mentions, most first
  Mentioned,    \* those that have mentions at the start
  Folds,        \* pairs of citations a merge folds, the first into the second
  Request,      \* Request[e]: the text a model is shown about citation e
  Models,       \* the models that passes are started with
  Drafts,       \* answers of a model
  Grounded,     \* the drafts that quote a passage and give a relation
  Limit,        \* Limit[p]: the model calls of pass p
  AtOnce,     \* its calls at one time
  FoldsBeside,  \* do merges run while others write claims?
  MaxLabels,    \* bound: claims made in a behaviour
  MaxPasses,    \* bound: passes started in a behaviour
  Null

Edges == Range(Citations)
Keys == Models \X {Request[e] : e \in Edges}

ASSUME LabelsAssumption ==
  /\ IsInjective(Citations) /\ Mentioned \subseteq Edges /\ Folds \subseteq Edges \X Edges
  /\ Grounded \subseteq Drafts /\ Null \notin Drafts \cup Edges \cup Keys \cup 1..MaxLabels
  /\ Limit \in [Passes -> Nat] /\ AtOnce \in Nat \ {0} /\ MaxLabels \in Nat /\ MaxPasses \in Nat

VARIABLES
  labels,    \* the claims, by their number
  answered,  \* the records: the answer cached for each key
  mentioned, \* the citations that have mentions
  folded,    \* the citations that are gone
  pass,      \* what each pass is doing
  edit,      \* what each reader is doing
  fold,      \* the merge in progress
  passes     \* the passes that were started

labelsVars == <<labels, answered, mentioned, folded, pass, edit, fold, passes>>

NoPass == [pc |-> "idle"]
NoEdit == [pc |-> "idle"]
NoFold == [pc |-> "idle"]

LabelsInit ==
  /\ labels = <<>>
  /\ answered = [k \in Keys |-> Null]
  /\ mentioned = Mentioned /\ folded = {}
  /\ pass = [p \in Passes |-> NoPass]
  /\ edit = [u \in Readers |-> NoEdit]
  /\ fold = NoFold
  /\ passes = 0

(* The rows that are there, and those of a citation nobody has replaced.    *)
Rows == {c \in DOMAIN labels : ~labels[c].gone}
On(e) == {c \in Rows : labels[c].edge = e}
Current(e) == {c \in On(e) : labels[c].by = Null}

Passing(p, c) == pass' = [pass EXCEPT ![p] = c]
Edits(u, c) == edit' = [edit EXCEPT ![u] = c]

Row(e, origin, says, record, review) ==
  [edge |-> e, origin |-> origin, says |-> says, record |-> record,
   review |-> review, by |-> Null, gone |-> FALSE]

-----------------------------------------------------------------------------
(* A pass lists the citations with mentions, and looks at one after the     *)
(* other.                                                                   *)
StartPass(p) ==
  /\ pass[p] = NoPass /\ passes < MaxPasses /\ passes' = passes + 1
  /\ FoldsBeside \/ fold = NoFold
  /\ \E m \in Models :
       Passing(p, [pc |-> "look", model |-> m, pending |-> <<>>, drafted |-> <<>>,
                  left |-> SelectSeq(Citations, LAMBDA e : e \in mentioned \ folded)])
  /\ UNCHANGED <<labels, answered, mentioned, folded, edit, fold>>

RecordKey(p, e) == <<pass[p].model, Request[e]>>

PassOnly == UNCHANGED <<labels, answered, mentioned, folded, edit, fold, passes>>

(* A citation that has a claim in force is passed over.                     *)
LookForClaim(p) ==
  /\ pass[p].pc = "look" /\ pass[p].left # <<>>
  /\ IF Current(Head(pass[p].left)) # {}
     THEN Passing(p, [pass[p] EXCEPT !.left = Tail(@)])
     ELSE Passing(p, [pass[p] EXCEPT !.pc = "find"])
  /\ PassOnly

(* An answer that is cached for the same request is used again; what is     *)
(* over the limit of calls is left out.                                     *)
FindAnswer(p) ==
  /\ pass[p].pc = "find"
  /\ LET e == Head(pass[p].left)
         draft == answered[RecordKey(p, e)]
         rest == [pass[p] EXCEPT !.pc = "look", !.left = Tail(@)] IN
       Passing(p, IF draft # Null
                 THEN [rest EXCEPT !.drafted = Append(@, [edge |-> e, draft |-> draft])]
                 ELSE IF Len(rest.pending) >= Limit[p] THEN rest
                 ELSE [rest EXCEPT !.pending = Append(@, [edge |-> e, at |-> "wait", draft |-> Null])])
  /\ PassOnly

(* All are planned: the calls begin.                                        *)
Planned(p) == pass[p].pc = "look" /\ pass[p].left = <<>>

CallMoves(p, i, at, draft) ==
  Passing(p, [pass[p] EXCEPT !.pending[i].at = at, !.pending[i].draft = draft])

Calls(p, at) == {i \in DOMAIN pass[p].pending : pass[p].pending[i].at = at}

(* The calls get their permits in order.                                    *)
AskModel(p) ==
  /\ Planned(p) /\ Calls(p, "wait") # {}
  /\ Cardinality(Calls(p, "asked") \cup Calls(p, "answered")) < AtOnce
  /\ LET i == CHOOSE i \in Calls(p, "wait") : \A j \in Calls(p, "wait") : i <= j IN
       CallMoves(p, i, "asked", Null)
  /\ PassOnly

ModelAnswers(p) ==
  /\ Planned(p)
  /\ \E i \in Calls(p, "asked") :
       \/ \E d \in Drafts : CallMoves(p, i, "answered", d)
       \/ CallMoves(p, i, "failed", Null)
  /\ PassOnly

(* The answer is cached at once, over one that another pass has cached.     *)
CacheAnswer(p) ==
  /\ Planned(p)
  /\ \E i \in Calls(p, "answered") :
       LET call == pass[p].pending[i] IN
       \/ /\ answered' = [answered EXCEPT ![RecordKey(p, call.edge)] = call.draft]
          /\ CallMoves(p, i, "cached", call.draft)
       \/ CallMoves(p, i, "error", Null) /\ UNCHANGED answered
  /\ UNCHANGED <<labels, mentioned, folded, edit, fold, passes>>

(* All calls have ended.  An error of the database ends the pass.           *)
CallsEnd(p) ==
  /\ Planned(p)
  /\ \A i \in DOMAIN pass[p].pending : pass[p].pending[i].at \in {"cached", "failed", "error"}
  /\ LET calls == SelectSeq(pass[p].pending, LAMBDA c : c.at = "cached")
         answers == [i \in DOMAIN calls |-> [edge |-> calls[i].edge, draft |-> calls[i].draft]] IN
       Passing(p, IF Calls(p, "error") # {} THEN NoPass
                 ELSE [pass[p] EXCEPT !.pc = "record", !.pending = <<>>, !.drafted = @ \o answers])
  /\ PassOnly

(* A draft that is grounded makes a claim, unless the same record has made  *)
(* one for the citation.  The row of a citation that is gone is refused,    *)
(* which ends the pass.                                                     *)
RecordDraft(p) ==
  /\ pass[p].pc = "record" /\ pass[p].drafted # <<>>
  /\ LET e == Head(pass[p].drafted).edge
         draft == Head(pass[p].drafted).draft
         goes == [pass[p] EXCEPT !.drafted = Tail(@)] IN
       IF draft \notin Grounded \/ \E c \in On(e) : labels[c].record = RecordKey(p, e)
       THEN Passing(p, goes) /\ UNCHANGED labels
       ELSE IF e \in folded THEN Passing(p, NoPass) /\ UNCHANGED labels
       ELSE /\ Len(labels) < MaxLabels
            /\ labels' = Append(labels, Row(e, "ai", draft, RecordKey(p, e), "unreviewed"))
            /\ Passing(p, goes)
  /\ UNCHANGED <<answered, mentioned, folded, edit, fold, passes>>

PassEnds(p) ==
  /\ pass[p].pc = "record" /\ pass[p].drafted = <<>>
  /\ Passing(p, NoPass)
  /\ PassOnly

(* The command is stopped, or the server, or the database is lost.          *)
StopPass(p) ==
  /\ pass[p] # NoPass
  /\ Passing(p, NoPass)
  /\ PassOnly

-----------------------------------------------------------------------------
(* The rows that transactions in progress have locked.                      *)
Locked ==
  {edit[u].claim : u \in {v \in Readers : edit[v].pc = "edit"}}
    \cup IF fold.pc = "delete" THEN fold.rows ELSE {}

ReaderOnly == UNCHANGED <<answered, mentioned, folded, pass, fold, passes>>

(* A reader reviews or edits a claim the graph has shown: what is written   *)
(* must be grounded in the passage.                                         *)
OpenClaim(u) ==
  /\ edit[u] = NoEdit /\ (FoldsBeside \/ fold = NoFold)
  /\ \E c \in Rows, says \in Grounded :
       labels[c].by = Null /\ Edits(u, [pc |-> "read", claim |-> c, says |-> says])
  /\ UNCHANGED labels /\ ReaderOnly

ReviewClaim(u) ==
  /\ edit[u] = NoEdit
  /\ \E c \in Rows \ Locked, state \in {"accepted", "rejected"} :
       /\ labels[c].by = Null /\ labels[c].review # state
       /\ labels' = [labels EXCEPT ![c].review = state]
  /\ UNCHANGED edit /\ ReaderOnly

(* The edit locks the row; it is refused when the claim is gone or has been *)
(* replaced.                                                                *)
LockClaim(u) ==
  /\ edit[u].pc = "read" /\ edit[u].claim \notin Locked
  /\ LET c == edit[u].claim IN
       Edits(u, IF c \in Rows /\ labels[c].by = Null
                THEN [edit[u] EXCEPT !.pc = "edit"] ELSE NoEdit)
  /\ UNCHANGED labels /\ ReaderOnly

(* The claim of the reader on the same citation, and the old one points at  *)
(* it.  An error or a lost connection leaves things as they were.           *)
CommitEdit(u) ==
  /\ edit[u].pc = "edit"
  /\ \/ /\ Len(labels) < MaxLabels
        /\ LET c == edit[u].claim IN
             labels' = Append([labels EXCEPT ![c].by = Len(labels) + 1],
                              Row(labels[c].edge, "user", edit[u].says, Null, "accepted"))
     \/ UNCHANGED labels
  /\ Edits(u, NoEdit) /\ ReaderOnly

-----------------------------------------------------------------------------
(* A merge of two Works folds a citation into another of the same entry.    *)
(* The statement that moves the claims has begun, and sees those that are   *)
(* there by now.                                                            *)
Writing == (\E p \in Passes : pass[p] # NoPass) \/ \E u \in Readers : edit[u] # NoEdit

BeginFold ==
  /\ fold = NoFold /\ (FoldsBeside \/ ~Writing)
  /\ \E f \in Folds :
       /\ f[1] \notin folded
       /\ fold' = [pc |-> "move", from |-> f[1], into |-> f[2], rows |-> On(f[1])]
  /\ UNCHANGED <<labels, answered, mentioned, folded, pass, edit, passes>>

(* It waits for edits of those claims.  Two claims of one record on the     *)
(* survivor are refused, and so is the merge.                               *)
MoveLabels ==
  /\ fold.pc = "move" /\ fold.rows \cap Locked = {}
  /\ fold' = IF \E c \in fold.rows, d \in On(fold.into) :
                  labels[c].record # Null /\ labels[c].record = labels[d].record
             THEN NoFold
             ELSE [fold EXCEPT !.pc = "delete"]
  /\ UNCHANGED <<labels, answered, mentioned, folded, pass, edit, passes>>

(* The folded citation is deleted, with the claims that were made on it     *)
(* since, and claims that those had replaced are in force again; then the   *)
(* merge commits.  An edit under way on the citation is waited for.         *)
CommitFold ==
  /\ fold.pc = "delete"
  /\ \A u \in Readers : edit[u].pc = "edit" => labels[edit[u].claim].edge # fold.from
  /\ LET lost == On(fold.from) \ fold.rows IN
       labels' = [c \in DOMAIN labels |->
                   [labels[c] EXCEPT
                      !.edge = IF c \in fold.rows THEN fold.into ELSE @,
                      !.gone = @ \/ c \in lost,
                      !.by = IF @ \in lost THEN Null ELSE @]]
  /\ folded' = folded \cup {fold.from}
  /\ mentioned' = (mentioned \ {fold.from})
                    \cup IF fold.from \in mentioned THEN {fold.into} ELSE {}
  /\ fold' = NoFold
  /\ UNCHANGED <<answered, pass, edit, passes>>

-----------------------------------------------------------------------------
PassStep(p) ==
  \/ StartPass(p) \/ LookForClaim(p) \/ FindAnswer(p)
  \/ AskModel(p) \/ ModelAnswers(p) \/ CacheAnswer(p) \/ CallsEnd(p)
  \/ RecordDraft(p) \/ PassEnds(p) \/ StopPass(p)

ReaderStep(u) == OpenClaim(u) \/ ReviewClaim(u) \/ LockClaim(u) \/ CommitEdit(u)

LabelsNext ==
  \/ \E p \in Passes : PassStep(p)
  \/ \E u \in Readers : ReaderStep(u)
  \/ BeginFold \/ MoveLabels \/ CommitFold

LabelsSpec == LabelsInit /\ [][LabelsNext]_labelsVars

-----------------------------------------------------------------------------
LabelsTypeOK ==
  /\ \A c \in DOMAIN labels :
       labels[c] \in [edge : Edges, origin : {"ai", "user"}, says : Drafts,
                      record : Keys \cup {Null}, by : DOMAIN labels \cup {Null},
                      review : {"unreviewed", "accepted", "rejected"}, gone : BOOLEAN]
  /\ answered \in [Keys -> Drafts \cup {Null}]
  /\ mentioned \subseteq Edges /\ folded \subseteq Edges

(* relationship.rs says that claims are never destroyed and that an edit    *)
(* leaves the old row as it was: a claim stays, with what it says, and is   *)
(* replaced once at most, by the edit of a reader who named it.             *)
ClaimsStay ==
  \A c \in Rows :
    /\ ~labels'[c].gone
    /\ labels'[c].says = labels[c].says /\ labels'[c].origin = labels[c].origin
    /\ labels'[c].by # labels[c].by =>
         labels[c].by = Null /\ \E u \in Readers : edit[u].pc = "edit" /\ edit[u].claim = c

(* A citation has one label in force, whoever labels, edits and merges at   *)
(* the same time: no model speaks beside a reader, and the label quotes a   *)
(* passage that the model was shown.                                        *)
OneLabel ==
  \A e \in Edges : Cardinality(Current(e)) <= 1 /\ \A c \in Current(e) : labels[c].says \in Grounded

(* The step of FilesKept (MCRecords) for the labels.                        *)
LabelsKept == ClaimsStay /\ OneLabel'

(* NewAiClaim names the record as the cached model output that produced the *)
(* claim.                                                                   *)
RecordsBack ==
  \A c \in Rows : labels[c].record # Null => labels[c].says = answered[labels[c].record]
=============================================================================
