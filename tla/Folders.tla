------------------------------- MODULE Folders --------------------------------
(***************************************************************************)
(* Folders of organization.py: rows in the database, directories with a    *)
(* manifest on disk.  A manifest is written inside the transaction, before *)
(* its commit; a new folder's directory is made again after it, outside    *)
(* the generation barrier; a rename moves the tree and then commits.       *)
(***************************************************************************)
EXTENDS Naturals

CONSTANTS
    FolderIds,
    Places,             \* folder paths, none inside another
    Nowhere,
    MaxFolderChanges          \* bound on the metadata version

ASSUME FolderAssumption == Nowhere \notin Places

VARIABLES
    folder,             \* rows of folders: place and metadata_version
    directory,          \* on disk: the manifest there, and whether the file is
    documentAt,         \* the folder the document's row is under
    lateDirectory,      \* the path create_folder() has still to make
    rename,             \* the rename that holds the barrier
    torn                \* a crash or a failed undo left a rename halfway

folderVars == <<folder, directory, documentAt, lateDirectory, rename, torn>>

NoFolder == [place |-> Nowhere, version |-> 0]
NoDirectory == [exists |-> FALSE, of |-> Nowhere, version |-> 0, file |-> FALSE]
NoRename == [of |-> Nowhere, from |-> Nowhere, to |-> Nowhere]

FolderInit ==
    /\ folder = [f \in FolderIds |-> NoFolder]
    /\ directory = [p \in Places |-> NoDirectory]
    /\ documentAt = Nowhere
    /\ lateDirectory = Nowhere
    /\ rename = NoRename
    /\ torn = FALSE

Barred == rename # NoRename
FolderAt(p) == {f \in FolderIds : folder[f].place = p}

(* _sync_folder_manifest() *)
WithManifest(p, f, version) ==
    [directory EXCEPT ![p] = [@ EXCEPT !.exists = TRUE, !.of = f, !.version = version]]

(* create_folder(): the manifest stays when the commit fails.              *)
CreateFolder(f, p, commits) ==
    /\ ~Barred /\ lateDirectory = Nowhere
    /\ folder[f] = NoFolder /\ FolderAt(p) = {}
    /\ directory' = WithManifest(p, f, 1)
    /\ folder' = IF commits THEN [folder EXCEPT ![f] = [place |-> p, version |-> 1]] ELSE folder
    /\ lateDirectory' = IF commits THEN p ELSE Nowhere
    /\ UNCHANGED <<documentAt, rename, torn>>

(* A second request under the same key finds its record and makes the      *)
(* directory it names again.                                               *)
ReplayCreate(p) ==
    /\ ~Barred /\ lateDirectory = Nowhere
    /\ \E f \in FolderIds : folder[f] # NoFolder
    /\ lateDirectory' = p
    /\ UNCHANGED <<folder, directory, documentAt, rename, torn>>

MakeDirectory ==
    /\ lateDirectory # Nowhere
    /\ directory' = [directory EXCEPT ![lateDirectory].exists = TRUE]
    /\ lateDirectory' = Nowhere
    /\ UNCHANGED <<folder, documentAt, rename, torn>>

(* The row, and the manifest before the commit of the row.                 *)
WriteMetadata(f, commits) ==
    LET row == folder[f] IN
    /\ directory' = WithManifest(row.place, f, row.version + 1)
    /\ folder' = IF commits THEN [folder EXCEPT ![f].version = @ + 1] ELSE folder

(* update_folder_metadata()                                                *)
UpdateFolderMetadata(f, commits) ==
    /\ ~Barred /\ folder[f] # NoFolder /\ folder[f].version < MaxFolderChanges
    /\ WriteMetadata(f, commits)
    /\ UNCHANGED <<documentAt, lateDirectory, rename, torn>>

(* A document is created in a folder, its file with it.                    *)
CreateDocument(p) ==
    /\ ~Barred /\ documentAt = Nowhere /\ FolderAt(p) # {}
    /\ documentAt' = p
    /\ directory' = [directory EXCEPT ![p].exists = TRUE, ![p].file = TRUE]
    /\ UNCHANGED <<folder, lateDirectory, rename, torn>>

-----------------------------------------------------------------------------
(* rename_folder(): validation, then the tree is moved.                    *)
RenameIsValid(f, p) ==
    /\ folder[f].place \notin {Nowhere, p}
    /\ FolderAt(p) = {}
    /\ documentAt # p

MoveTree(from, to) ==
    directory' = [directory EXCEPT ![to] = directory[from], ![from] = NoDirectory]

RenameTree(f, p) ==
    /\ ~Barred /\ RenameIsValid(f, p)
    /\ directory[folder[f].place].exists /\ ~directory[p].exists
    /\ MoveTree(folder[f].place, p)
    /\ rename' = [of |-> f, from |-> folder[f].place, to |-> p]
    /\ UNCHANGED <<folder, documentAt, lateDirectory, torn>>

CommitRenameOfFolderOnly ==
    /\ Barred
    /\ directory' = WithManifest(rename.to, rename.of, folder[rename.of].version)
    /\ folder' = [folder EXCEPT ![rename.of].place = rename.to]
    /\ rename' = NoRename
    /\ UNCHANGED <<documentAt, lateDirectory, torn>>

(* _commit_folder_move(): the rows of the folder and of what is in it.     *)
CommitRename ==
    /\ Barred
    /\ directory' = WithManifest(rename.to, rename.of, folder[rename.of].version)
    /\ folder' = [folder EXCEPT ![rename.of].place = rename.to]
    /\ documentAt' = IF documentAt = rename.from THEN rename.to ELSE documentAt
    /\ rename' = NoRename
    /\ UNCHANGED <<lateDirectory, torn>>

(* The transaction fails: the tree is moved back, if the source path is    *)
(* still free.                                                             *)
UndoRename ==
    LET back == ~directory[rename.from].exists IN
    /\ Barred
    /\ IF back THEN MoveTree(rename.to, rename.from) ELSE UNCHANGED directory
    /\ torn' = (torn \/ ~back)
    /\ rename' = NoRename
    /\ UNCHANGED <<folder, documentAt, lateDirectory>>

FolderCrash ==
    /\ Barred \/ lateDirectory # Nowhere
    /\ torn' = (torn \/ Barred)
    /\ rename' = NoRename /\ lateDirectory' = Nowhere
    /\ UNCHANGED <<folder, directory, documentAt>>

FolderNext ==
    \/ \E commits \in BOOLEAN, f \in FolderIds :
         \/ \E p \in Places : CreateFolder(f, p, commits)
         \/ UpdateFolderMetadata(f, commits)
    \/ \E p \in Places : ReplayCreate(p) \/ CreateDocument(p)
    \/ \E f \in FolderIds, p \in Places : RenameTree(f, p)
    \/ MakeDirectory \/ CommitRename \/ UndoRename \/ FolderCrash

FolderSpec == FolderInit /\ [][FolderNext]_folderVars

-----------------------------------------------------------------------------
(* Properties.                                                             *)

FolderTypeOK ==
    /\ \A f \in FolderIds : folder[f].place \in Places \cup {Nowhere}
                              /\ folder[f].version \in 0 .. MaxFolderChanges
    /\ documentAt \in Places \cup {Nowhere}
    /\ lateDirectory \in Places \cup {Nowhere}

(* "Move a folder as one database/workspace generation": unless a crash or *)
(* a failed undo came between the two halves of a rename, every folder has *)
(* its directory, with its own manifest, at least as new as the row; and   *)
(* the document's file is where its row says.                              *)
FoldersAreOnDisk ==
    ~Barred /\ ~torn =>
        /\ \A f \in FolderIds : folder[f] # NoFolder =>
             LET d == directory[folder[f].place] IN
             d.exists /\ d.of = f /\ d.version >= folder[f].version
        /\ documentAt # Nowhere => directory[documentAt].file
=============================================================================
