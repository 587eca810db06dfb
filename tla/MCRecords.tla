----------------------------- MODULE MCRecords -----------------------------
(* Instances of Experiments, Notes, Highlights and Labels, which share      *)
(* nothing: a behaviour is one of the four.                                 *)
EXTENDS Experiments, Notes, Highlights, Labels, TLC

CONSTANTS Parts, k1, k2, k3, t1, t2

(* The citations of the labelled paper, of which two have one entry.        *)
Cited == <<k1, k3, k2>>
Folded == {<<k1, k3>>}
Texts == (k1 :> t1) @@ (k2 :> t2) @@ (k3 :> t1)
Calls1 == [p \in Passes |-> 1]

VARIABLE part

recordsVars == <<experimentsVars, notesVars, highlightsVars, labelsVars, part>>

RecordsInit ==
  /\ ExperimentsInit /\ NotesInit /\ HighlightsInit /\ LabelsInit
  /\ part \in Parts
  /\ part # "notes" => note = Missing
  /\ part # "highlights" => analysis = CHOOSE a \in [sections : Sectionings, checked : BOOLEAN] : TRUE

RecordsNext ==
  /\ UNCHANGED part
  /\ \/ part = "experiments" /\ ExperimentsNext /\ UNCHANGED <<notesVars, highlightsVars, labelsVars>>
     \/ part = "notes" /\ NotesNext /\ UNCHANGED <<experimentsVars, highlightsVars, labelsVars>>
     \/ part = "highlights" /\ HighlightsNext /\ UNCHANGED <<experimentsVars, notesVars, labelsVars>>
     \/ part = "labels" /\ LabelsNext /\ UNCHANGED <<experimentsVars, notesVars, highlightsVars>>

RecordsSpec == RecordsInit /\ [][RecordsNext]_recordsVars /\ Fairness

(* What somebody wrote into a note, marked in a paper or said of a citation *)
(* is replaced only by one who has seen it or was asked to, whoever writes  *)
(* at the same time.                                                        *)
FilesKept == [][NoteKept /\ MarksKept /\ LabelsKept]_recordsVars
=============================================================================
