----------------------------- MODULE Highlights -----------------------------
(* The marks of a paper: highlights.jsonl holds those of the reader and     *)
(* those made of the verified quotes of the analysis, highlights.md is      *)
(* printed from it.  Handlers and runs rewrite them, one file after the     *)
(* other, under the mutex highlight_write; runs and refreshes of the paper  *)
(* exclude each other by its status (PaperTasks), the map, which checks the *)
(* quotes of an old analysis, does not.                                     *)
EXTENDS Naturals

CONSTANTS
  Markers,     \* handlers and runs at the same time
  Passages,    \* passages of the paper
  Remarks,     \* the kinds and notes a reader marks a passage with
  Sectionings, \* the sections, with their quotes, that analyses find
  Unmarked     \* no mark, no marks of an analysis, nobody, nothing

ASSUME HighlightsAssumption == Unmarked \notin Markers

VARIABLES
  analysis, \* analysis.json: its sections, and whether their quotes are checked
  marks,    \* highlights.jsonl: the remark at each passage, and whose sections'
            \* quotes are marked
  printed,  \* highlights.md, as the marks it was printed from
  writing,  \* who holds highlight_write
  marker,   \* what each of the Markers is doing
  cut       \* a write was cut short, and no analysis saved since

highlightsVars == <<analysis, marks, printed, writing, marker, cut>>

Resting == [pc |-> "idle", op |-> "none"]

Does(m, c) == marker' = [marker EXCEPT ![m] = c]
Moves(m, pc) == Does(m, [marker[m] EXCEPT !.pc = pc])

(* The quotes of unchecked sections are not marked.                         *)
Quoted(a) == IF a.checked THEN a.sections ELSE Unmarked

HighlightsInit ==
  /\ analysis \in [sections : Sectionings, checked : BOOLEAN]
  /\ marks = [reader |-> [p \in Passages |-> Unmarked], quoted |-> Quoted(analysis)]
  /\ printed = marks
  /\ writing = Unmarked
  /\ marker = [m \in Markers |-> Resting]
  /\ cut = FALSE

-----------------------------------------------------------------------------
(* What is asked for: put is an analysis to write, passage and remark are   *)
(* the mark to set or, without a remark, to remove, draft is what is to be  *)
(* written of the marks.                                                    *)
Wanted(op, pc, put) ==
  [op |-> op, pc |-> pc, put |-> put, passage |-> Unmarked, remark |-> Unmarked,
   draft |-> Unmarked]

Unchanging == UNCHANGED <<analysis, marks, printed, writing, cut>>

(* An analysis, a revision or a refresh of the structure brings sections; a *)
(* refresh of the abstract writes back those it has loaded.                 *)
StartAnalysis(m) ==
  /\ marker[m] = Resting
  /\ \A n \in Markers : marker[n].op \notin {"analyze", "abstract"}
  /\ \/ \E s \in Sectionings :
          Does(m, Wanted("analyze", "lock", [sections |-> s, checked |-> TRUE]))
     \/ Does(m, Wanted("abstract", "lock", analysis))
  /\ Unchanging

(* The map is asked for, by itself or to mark a passage.                    *)
OpenMap(m) ==
  /\ marker[m] = Resting
  /\ \/ Does(m, Wanted("map", "look", Unmarked))
     \/ \E p \in Passages, r \in Remarks :
          Does(m, [Wanted("mark", "look", Unmarked) EXCEPT !.passage = p, !.remark = r])
  /\ Unchanging

Unmark(m) ==
  /\ marker[m] = Resting
  /\ \E p \in Passages : Does(m, [Wanted("unmark", "lock", Unmarked) EXCEPT !.passage = p])
  /\ Unchanging

(* After the map the mark is made, under the mutex again.                   *)
AfterMap(c) ==
  IF c.op = "mark" THEN [c EXCEPT !.pc = "lock", !.put = Unmarked, !.draft = Unmarked]
  ELSE Resting

(* The map shows an analysis whose quotes are checked, or checks them.      *)
LookForMap(m) ==
  /\ marker[m].pc = "look"
  /\ Does(m, IF analysis.checked THEN AfterMap(marker[m])
             ELSE [marker[m] EXCEPT !.pc = "lock", !.put = [analysis EXCEPT !.checked = TRUE]])
  /\ Unchanging

-----------------------------------------------------------------------------
(* Under the mutex.  Fault for the mutation runs: it is not waited for.     *)
LockMarksShared(m) ==
  /\ marker[m].pc = "lock"
  /\ writing' = m
  /\ Moves(m, IF marker[m].put = Unmarked THEN "load" ELSE "analysis")
  /\ UNCHANGED <<analysis, marks, printed, cut>>

LockMarks(m) ==
  /\ marker[m].pc = "lock" /\ writing = Unmarked
  /\ writing' = m
  /\ Moves(m, IF marker[m].put = Unmarked THEN "load" ELSE "analysis")
  /\ UNCHANGED <<analysis, marks, printed, cut>>

Ends(m, c) == writing' = Unmarked /\ Does(m, c)

(* analysis.json, then digest.md, which holds nothing else.                 *)
WriteAnalysis(m) ==
  /\ marker[m].pc = "analysis"
  /\ analysis' = marker[m].put
  /\ IF marker[m].op = "abstract" THEN Ends(m, Resting)
     ELSE Moves(m, "load") /\ UNCHANGED writing
  /\ UNCHANGED <<marks, printed, cut>>

(* The marks with those of the quotes of an analysis, or the reader's one.  *)
Changed(c) ==
  IF c.put # Unmarked THEN [marks EXCEPT !.quoted = Quoted(c.put)]
  ELSE [marks EXCEPT !.reader[c.passage] = c.remark]

(* A mark to be removed may be gone, or be another one at the passage.      *)
LoadMarks(m) ==
  /\ marker[m].pc = "load"
  /\ \/ marker[m].op = "unmark" /\ Ends(m, Resting)
     \/ /\ marker[m].op = "unmark" => marks.reader[marker[m].passage] # Unmarked
        /\ Does(m, [marker[m] EXCEPT !.pc = "marks", !.draft = Changed(marker[m])])
        /\ UNCHANGED writing
  /\ UNCHANGED <<analysis, marks, printed, cut>>

WriteMarks(m) ==
  /\ marker[m].pc = "marks"
  /\ marks' = marker[m].draft
  /\ Moves(m, "print")
  /\ UNCHANGED <<analysis, printed, writing, cut>>

(* The last file; a whole save makes up for those cut short before.         *)
PrintMarks(m) ==
  /\ marker[m].pc = "print"
  /\ printed' = marker[m].draft
  /\ Ends(m, IF marker[m].put = Unmarked THEN Resting ELSE AfterMap(marker[m]))
  /\ cut' = (cut /\ marker[m].put = Unmarked)
  /\ UNCHANGED <<analysis, marks>>

(* An error, a client that leaves, or a lost server ends it between two     *)
(* files; what was being written is there or is not.                        *)
CutShort(m) ==
  /\ marker[m] # Resting
  /\ Does(m, Resting)
  /\ writing' = IF writing = m THEN Unmarked ELSE writing
  /\ cut' = \/ cut \/ marker[m].pc = "print"
            \/ marker[m].pc \in {"load", "marks"} /\ marker[m].put # Unmarked
  /\ UNCHANGED <<analysis, marks, printed>>

MarkStep(m) ==
  \/ LookForMap(m) \/ LockMarks(m) \/ WriteAnalysis(m) \/ LoadMarks(m)
  \/ WriteMarks(m) \/ PrintMarks(m)

HighlightsNext ==
  \E m \in Markers : StartAnalysis(m) \/ OpenMap(m) \/ Unmark(m) \/ MarkStep(m) \/ CutShort(m)

HighlightsSpec == HighlightsInit /\ [][HighlightsNext]_highlightsVars

-----------------------------------------------------------------------------
HighlightsTypeOK ==
  LET Analyses == [sections : Sectionings, checked : BOOLEAN]
      Marks == [reader : [Passages -> Remarks \cup {Unmarked}],
                quoted : Sectionings \cup {Unmarked}]
  IN /\ analysis \in Analyses /\ marks \in Marks /\ printed \in Marks
     /\ writing \in Markers \cup {Unmarked} /\ cut \in BOOLEAN
     /\ \A m \in Markers : marker[m] # Resting =>
          marker[m] \in [op : {"analyze", "abstract", "map", "mark", "unmark"},
                         pc : {"look", "lock", "analysis", "load", "marks", "print"},
                         put : Analyses \cup {Unmarked}, passage : Passages \cup {Unmarked},
                         remark : Remarks \cup {Unmarked}, draft : Marks \cup {Unmarked}]

(* The step of FilesKept (MCRecords) for the marks: the reader's change     *)
(* only as the reader asks, whatever analyses, maps and other marks are     *)
(* written at the same time, and survive a new analysis; and once nobody    *)
(* writes, highlights.md shows highlights.jsonl, unless a write was cut     *)
(* short.                                                                   *)
MarksKept ==
  /\ \A p \in Passages : marks'.reader[p] # marks.reader[p] =>
       \E m \in Markers : /\ marker[m].pc = "marks" /\ marker[m].put = Unmarked
                          /\ marker[m].passage = p /\ marks'.reader[p] = marker[m].remark
  /\ writing' = Unmarked /\ ~cut' => printed' = marks'

(* A finding, checked by MCRecordsMarked: docs/architecture.md says that AI marks are regenerated from the quotes  *)
(* that are verified at present: those of the analysis that is stored.      *)
MarksFollow ==
  writing = Unmarked /\ ~cut /\ analysis.checked => marks.quoted = analysis.sections
=============================================================================
