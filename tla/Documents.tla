----------------------------- MODULE Documents ------------------------------
(* The documents of the catalog database: where the files of the library    *)
(* are, which contents each document has had, and the Work it is linked to. *)
(* A scan reads files first and reconciles them with the documents in one   *)
(* transaction afterwards: the whole library, or, as the literature flow    *)
(* and an acquisition do, the one file they register.                       *)
EXTENDS Works

CONSTANTS
  Paths,       \* the paths of the library
  PathOrder,   \* the paths in the order files are reconciled in
  Contents,    \* the contents of files, as their hashes
  DocumentIds, \* the document IDs the database may give out
  Edits        \* bound: the changes the user makes to the library

ASSUME DocumentsAssumption == /\ PathOrder \in Seq(Paths) /\ None \notin Paths
                              /\ None \notin Contents /\ Edits \in Nat

VARIABLES
  disk,      \* the contents of the file at each path, None without a file
  path,      \* where each document is, None for one without a file
  versions,  \* the contents each document has had, none before it exists
  linked,    \* the Work each document is linked to
  edits

documentsVars == <<disk, path, versions, linked, edits>>

NoFiles == [p \in Paths |-> None]

DocumentsInit ==
  /\ disk = NoFiles
  /\ path = [d \in DocumentIds |-> None]
  /\ versions = [d \in DocumentIds |-> {}]
  /\ linked = [d \in DocumentIds |-> None]
  /\ edits = 0

At(where, p) == {d \in DocumentIds : where[d] = p}

Listed(files) == {p \in Paths : files[p] # None}

-----------------------------------------------------------------------------
(* The user copies, moves, replaces, adds and deletes files.                *)
EditLibrary ==
  /\ edits < Edits
  /\ \E p \in Paths :
       \/ \E c \in Contents \cup {None} : disk' = [disk EXCEPT ![p] = c]
       \/ \E q \in Listed(disk) : disk' = [disk EXCEPT ![p] = disk[q], ![q] = None]
  /\ edits' = edits + 1
  /\ UNCHANGED <<path, versions, linked, call>> /\ WorksKept

(* A scan lists and hashes the files of the library, or the one file it is  *)
(* to register.                                                             *)
ListFiles(r) ==
  /\ \/ Begin(r, [op |-> "scan", full |-> TRUE, files |-> disk])
     \/ \E p \in Listed(disk) :
          Begin(r, [op |-> "scan", full |-> FALSE, file |-> p,
                    files |-> [NoFiles EXCEPT ![p] = disk[p]]])
  /\ UNCHANGED documentsVars /\ WorksKept

(* Reconciling one file: a document at its path gets a new version unless   *)
(* it has had these contents; otherwise a document with these contents      *)
(* whose path is not listed moves; otherwise the file gets a document.      *)
(* Fault for the mutation runs: a document whose file is there moves, too.  *)
MovablePresent(scan, files, c) ==
  {d \in DocumentIds : c \in scan.versions[d] /\ d \notin scan.claimed}

Movable(scan, files, c) ==
  {d \in DocumentIds : /\ c \in scan.versions[d]
                       /\ d \notin scan.claimed
                       /\ scan.path[d] \notin Listed(files)}

Claimed(scan, d, p, c) ==
  [path |-> [scan.path EXCEPT ![d] = p],
   versions |-> [scan.versions EXCEPT ![d] = @ \cup {c}],
   claimed |-> scan.claimed \cup {d}]

Reconciled(scan, files, p) ==
  LET c == files[p]
      here == At(scan.path, p)
      movable == Movable(scan, files, c)
      unused == {d \in DocumentIds : scan.versions[d] = {}}
  IN IF c = None \/ \E d \in here : c \in scan.versions[d] THEN {scan}
     ELSE IF here # {} THEN {Claimed(scan, d, p, c) : d \in here}
     ELSE IF movable # {} THEN {Claimed(scan, d, p, c) : d \in movable}
     ELSE {Claimed(scan, CHOOSE d \in unused : TRUE, p, c)}

(* The files are reconciled in order.                                       *)
AllReconciled(files) ==
  LET after[n \in 0 .. Len(PathOrder)] ==
        IF n = 0 THEN {[path |-> path, versions |-> versions, claimed |-> {}]}
        ELSE UNION {Reconciled(scan, files, PathOrder[n]) : scan \in after[n - 1]}
  IN after[Len(PathOrder)]

(* A full scan leaves without a path the documents whose path is not listed *)
(* and that it has not moved.                                               *)
Tombstoned(scan, files) ==
  [d \in DocumentIds |-> IF scan.path[d] \in Listed(files) \/ d \in scan.claimed
                         THEN scan.path[d] ELSE None]

(* The transaction, which overlapping ones may fail on the unique index of  *)
(* paths, and then changes nothing.  A flow goes on with the document at    *)
(* the path it registered, and the Work it has identified.                  *)
ApplyScan(r) ==
  /\ Doing(r, "scan")
  /\ LET c == call[r] IN
       \/ \E scan \in AllReconciled(c.files) :
            /\ path' = IF c.full THEN Tombstoned(scan, c.files) ELSE scan.path
            /\ versions' = scan.versions
            /\ call' = [call EXCEPT ![r] = IF c.full THEN Idle
                                           ELSE [op |-> "registered", file |-> c.file]]
       \/ UNCHANGED <<path, versions>> /\ Done(r)
  /\ UNCHANGED <<disk, linked, edits>> /\ WorksKept

FindByPath(r) ==
  /\ Doing(r, "registered")
  /\ \/ Done(r)
     \/ \E d \in At(path, call[r].file), w \in works :
          call' = [call EXCEPT ![r] = [op |-> "link", document |-> d, work |-> Resolved(w)]]
  /\ UNCHANGED documentsVars /\ WorksKept

SetWorkLink(r) ==
  /\ Doing(r, "link") /\ Free(r)
  /\ linked' = [linked EXCEPT ![call[r].document] = call[r].work]
  /\ Done(r)
  /\ UNCHANGED <<disk, path, versions, edits>> /\ WorksKept

MoveDocuments ==
  /\ linked' = [d \in DocumentIds |-> IF linked[d] = None THEN None ELSE To(linked[d])]
  /\ UNCHANGED <<disk, path, versions, edits>>

DocumentsStep(r) == ListFiles(r) \/ ApplyScan(r) \/ FindByPath(r) \/ SetWorkLink(r)

-----------------------------------------------------------------------------
(* A full scan of a library that did not change meanwhile leaves the        *)
(* documents matching the files, whatever was copied, moved, replaced and   *)
(* registered in between: every file has one document, which has had its    *)
(* contents, every other document has no path, and no document was made for *)
(* contents a document without a file has had.                              *)
Exact ==
  /\ \A p \in Paths : Cardinality(At(path, p)) = IF disk[p] = None THEN 0 ELSE 1
  /\ \A d \in DocumentIds : path[d] # None => disk[path[d]] \in versions[d]

ScanExact ==
  [][\A r \in Requests :
       /\ Doing(r, "scan") /\ call[r].full /\ call[r].files = disk
       /\ call'[r] # call[r] /\ <<path, versions>>' # <<path, versions>>
       => /\ Exact'
          /\ \A d, e \in DocumentIds :
               versions[d] = {} /\ path'[e] = None =>
                 versions'[d] \cap versions'[e] = {}]_<<worksVars, documentsVars>>

(* document.rs says that a partial scan leaves the documents absent from    *)
(* its files untouched.                                                     *)
PartialKeepsOthers ==
  [][\A r \in Requests :
       Doing(r, "scan") /\ ~call[r].full /\ call'[r] # call[r] =>
         \A d \in DocumentIds :
           path[d] # None /\ path[d] # call[r].file => path'[d] = path[d]
    ]_<<worksVars, documentsVars>>
=============================================================================
