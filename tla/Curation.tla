------------------------------ MODULE Curation ------------------------------
(* The curator's private marks and tags on Works (one workspace).  A merge  *)
(* moves them to the surviving Work in its own transaction.                 *)
EXTENDS Works

CONSTANTS
  Marks,  \* pinned, downplayed, hidden
  Tags    \* the tag IDs the database may give out

VARIABLES
  mark,    \* the mark on each Work, None without one
  tags,    \* the tags that exist
  tagged   \* the pairs of a Work and a tag it carries

curationVars == <<mark, tags, tagged>>

CurationInit ==
  /\ mark = [w \in Work |-> None]
  /\ tags = {}
  /\ tagged = {}

(* The handler resolves the Work and has seen that it, and the tag, exist.  *)
HoldForCuration(r) ==
  /\ \E w \in works :
       \/ \E m \in Marks : Begin(r, [op |-> "mark", work |-> Resolved(w), mark |-> m])
       \/ Begin(r, [op |-> "unmark", work |-> Resolved(w)])
       \/ \E t \in tags : Begin(r, [op |-> "tag", work |-> Resolved(w), tag |-> t])
       \/ \E t \in tags : Begin(r, [op |-> "untag", work |-> Resolved(w), tag |-> t])
  /\ UNCHANGED curationVars /\ WorksKept

(* A mark replaces the one before.                                          *)
SetMark(r) ==
  /\ Doing(r, "mark") /\ Free(r)
  /\ mark' = [mark EXCEPT ![call[r].work] = call[r].mark]
  /\ Done(r)
  /\ UNCHANGED <<tags, tagged>> /\ WorksKept

ClearMark(r) ==
  /\ Doing(r, "unmark")
  /\ mark' = [mark EXCEPT ![call[r].work] = None]
  /\ Done(r)
  /\ UNCHANGED <<tags, tagged>> /\ WorksKept

(* Assigning a tag that has been deleted since fails on its foreign key.    *)
AssignTag(r) ==
  /\ Doing(r, "tag") /\ Free(r)
  /\ tagged' = IF call[r].tag \in tags
               THEN tagged \cup {<<call[r].work, call[r].tag>>} ELSE tagged
  /\ Done(r)
  /\ UNCHANGED <<mark, tags>> /\ WorksKept

UnassignTag(r) ==
  /\ Doing(r, "untag")
  /\ tagged' = tagged \ {<<call[r].work, call[r].tag>>}
  /\ Done(r)
  /\ UNCHANGED <<mark, tags>> /\ WorksKept

CreateTag ==
  /\ \E t \in Tags \ tags : tags' = tags \cup {t}
  /\ UNCHANGED <<mark, tagged, call>> /\ WorksKept

(* Deleting a tag deletes its assignments.                                  *)
DeleteTag ==
  /\ \E t \in tags : /\ tags' = tags \ {t}
                     /\ tagged' = {p \in tagged : p[2] # t}
  /\ UNCHANGED <<mark, call>> /\ WorksKept

(* The survivor's own mark wins; its tags and the merged Work's are united. *)
MoveCuration ==
  /\ mark' = [mark EXCEPT
       ![merge.into] = IF @ = None THEN mark[merge.from] ELSE @,
       ![merge.from] = None]
  /\ tagged' = {<<To(p[1]), p[2]>> : p \in tagged}
  /\ UNCHANGED tags

CurationStep(r) ==
  HoldForCuration(r) \/ SetMark(r) \/ ClearMark(r) \/ AssignTag(r) \/ UnassignTag(r)

TagStep == CreateTag \/ DeleteTag

-----------------------------------------------------------------------------
(* A curated Work stays curated until the curator says otherwise: a mark    *)
(* and a tag only go when a request clears or replaces them (a tag also     *)
(* when it is deleted), and a merge carries them to the Work it redirects   *)
(* to, where only a mark of its own takes precedence.  What a request wrote *)
(* about a Work merged before stays with that Work.                         *)
Where(w) == IF redirect[w] = None /\ redirect'[w] # None THEN redirect'[w] ELSE w

CurationKept ==
  /\ \A w \in Work : mark[w] # None =>
       \/ mark'[Where(w)] = mark[w]
       \/ Where(w) # w /\ mark'[Where(w)] = mark[Where(w)] /\ mark[Where(w)] # None
       \/ \E r \in Requests : /\ call[r].op \in {"mark", "unmark"}
                              /\ call[r].work = w /\ call'[r] = Idle
  /\ \A p \in tagged :
       \/ <<Where(p[1]), p[2]>> \in tagged'
       \/ p[2] \notin tags'
       \/ \E r \in Requests : /\ Doing(r, "untag") /\ call'[r] = Idle
                              /\ call[r].work = p[1] /\ call[r].tag = p[2]
=============================================================================
