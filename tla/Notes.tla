------------------------------- MODULE Notes -------------------------------
(* The Markdown note of a paper: handlers that open and save it, each save  *)
(* on a blocking thread under the mutex of the store, and editors outside   *)
(* the program that change or remove the file whenever they like.           *)
EXTENDS Naturals

CONSTANTS
  Savers,    \* requests handled at the same time
  Contents,  \* texts of a note
  Template,  \* the text that a missing note is opened with
  Missing    \* the revision of a note without a file

ASSUME NotesAssumption == Template \in Contents /\ Missing \notin Contents \cup Savers

VARIABLES
  note,    \* the text of the file, Missing without one
  outside, \* the last change of the file was made outside the program
  write,   \* who has the mutex of the store
  save     \* what each request is doing

notesVars == <<note, outside, write, save>>

NoSave == [pc |-> "idle"]

(* A revision is a hash of the text, and so the text.                       *)
Saving(text, revision, op) ==
  [pc |-> "lock", text |-> text, revision |-> revision, op |-> op]

Saves(s, c) == save' = [save EXCEPT ![s] = c]

NotesInit ==
  /\ note \in Contents \cup {Missing} /\ outside = FALSE
  /\ write = Missing
  /\ save = [s \in Savers |-> NoSave]

(* PUT: the client names the revision it read, whenever that was.           *)
PutNote(s) ==
  /\ save[s] = NoSave
  /\ \E text \in Contents, revision \in Contents \cup {Missing} :
       Saves(s, Saving(text, revision, "put"))
  /\ UNCHANGED <<note, outside, write>>

(* open: an existing note is returned as it is, and a missing one is made   *)
(* by a save that expects none.                                             *)
OpenNote(s) ==
  /\ save[s] = NoSave /\ note = Missing
  /\ Saves(s, Saving(Template, Missing, "open"))
  /\ UNCHANGED <<note, outside, write>>

LockNotes(s) ==
  /\ save[s].pc = "lock" /\ write = Missing
  /\ write' = s
  /\ Saves(s, [save[s] EXCEPT !.pc = "check"])
  /\ UNCHANGED <<note, outside>>

(* The save ends, with a conflict or an error too, and the mutex with it.   *)
(* After a conflict, open returns the note that won, or the conflict.       *)
EndSave(s) == Saves(s, NoSave) /\ write' = Missing

(* Before a directory is made, before and after the temporary file is       *)
(* written, the file must have the revision that the client has seen.       *)
Looks == [check |-> "again", again |-> "verify", verify |-> "publish"]

CheckNote(s) ==
  /\ save[s].pc \in DOMAIN Looks
  /\ IF note = save[s].revision
     THEN Saves(s, [save[s] EXCEPT !.pc = Looks[@]]) /\ UNCHANGED write
     ELSE EndSave(s)
  /\ UNCHANGED <<note, outside>>

(* A new note is linked, which fails where there is a file by now; a saved  *)
(* one is renamed over the file that is there, or is not.                   *)
Publish(s) ==
  /\ save[s].pc = "publish"
  /\ IF save[s].revision = Missing /\ note # Missing
     THEN UNCHANGED <<note, outside>>
     ELSE note' = save[s].text /\ outside' = FALSE
  /\ EndSave(s)

(* A path, a permission or the disk fails it.                               *)
FailSave(s) ==
  /\ save[s].pc \in DOMAIN Looks \cup {"publish"}
  /\ EndSave(s)
  /\ UNCHANGED <<note, outside>>

(* The client leaves before the blocking thread is started, which then goes *)
(* on without it.                                                           *)
LeaveNote(s) ==
  /\ save[s].pc = "lock"
  /\ Saves(s, NoSave)
  /\ UNCHANGED <<note, outside, write>>

EditOutside ==
  /\ note' \in (Contents \cup {Missing}) \ {note} /\ outside' = TRUE
  /\ UNCHANGED <<write, save>>

(* The server stops and starts again.                                       *)
RestartNotes ==
  /\ write' = Missing /\ save' = [s \in Savers |-> NoSave]
  /\ save' # save
  /\ UNCHANGED <<note, outside>>

NoteStep(s) == LockNotes(s) \/ CheckNote(s) \/ Publish(s)

NotesNext ==
  \/ \E s \in Savers : PutNote(s) \/ OpenNote(s) \/ NoteStep(s) \/ FailSave(s) \/ LeaveNote(s)
  \/ EditOutside \/ RestartNotes

NotesSpec == NotesInit /\ [][NotesNext]_notesVars

-----------------------------------------------------------------------------
NotesTypeOK ==
  /\ note \in Contents \cup {Missing} /\ outside \in BOOLEAN
  /\ write \in Savers \cup {Missing}
  /\ \A s \in Savers : save[s] # NoSave =>
       /\ save[s].pc \in {"lock", "check", "again", "verify", "publish"}
       /\ save[s].text \in Contents /\ save[s].revision \in Contents \cup {Missing}

(* The step of FilesKept (MCRecords) for the note: a save replaces only the *)
(* text its client has seen.  What another save wrote in between is never   *)
(* lost, a note that appeared in between, from wherever, is never           *)
(* overwritten by one that was to be created, and what an editor wrote is   *)
(* lost only when it comes in between the last look and the rename.         *)
NoteKept ==
  \A s \in Savers :
    save[s].pc = "publish" /\ save'[s] = NoSave /\ note' # note =>
      \/ note = save[s].revision
      \/ save[s].revision # Missing /\ outside
=============================================================================
