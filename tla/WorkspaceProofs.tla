-------------------------- MODULE WorkspaceProofs ---------------------------
(***************************************************************************)
(* Proofs about the operations that change rows and files which no one     *)
(* transaction covers: folders (Folders), plans over them                  *)
(* (OrganizationPlan), PDF documents (PdfDocuments) and backups (Backups); *)
(* and about the scans that find what was changed behind the service's     *)
(* back (Reconciliation).  What is done first, what is left by a failure   *)
(* between two steps, and who may take it up.                              *)
(***************************************************************************)
EXTENDS Folders, OrganizationPlan, PdfDocuments, Backups, Reconciliation,
        FiniteSetTheorems, TLAPS

-----------------------------------------------------------------------------
(* Folders                                                                 *)

FolderRow == [place : Places \cup {Nowhere}, version : Nat]
Directory == [exists : BOOLEAN, of : FolderIds \cup {Nowhere}, version : Nat, file : BOOLEAN]

FolderShape ==
    /\ folder \in [FolderIds -> FolderRow]
    /\ directory \in [Places -> Directory]
    /\ documentAt \in Places \cup {Nowhere}
    /\ lateDirectory \in Places \cup {Nowhere}
    /\ torn \in BOOLEAN

PlacesSound ==
    /\ \A f \in FolderIds : folder[f] # NoFolder => folder[f].place # Nowhere
    /\ \A f, g \in FolderIds :
         folder[f].place # Nowhere /\ folder[f].place = folder[g].place => f = g

(* The rename that is under way keeps its destination for itself.          *)
RenameSound ==
    Barred =>
        /\ rename.of \in FolderIds /\ rename.from \in Places /\ rename.to \in Places
        /\ rename.from = folder[rename.of].place /\ rename.from # rename.to
        /\ \A f \in FolderIds : folder[f].place # rename.to
        /\ documentAt # rename.to

(* Where the tree of a folder is, which a rename moves before the row, and *)
(* where the file of the document is.                                      *)
TreeOf(f) == IF Barred /\ rename.of = f THEN rename.to ELSE folder[f].place
FileAt == IF Barred /\ documentAt = rename.from THEN rename.to ELSE documentAt

IsManifestOf(f, d) == d.exists /\ d.of = f /\ d.version >= folder[f].version

DiskSound ==
    ~torn =>
        /\ \A f \in FolderIds : folder[f] # NoFolder => IsManifestOf(f, directory[TreeOf(f)])
        /\ documentAt # Nowhere => directory[FileAt].file

FolderInv == FolderShape /\ PlacesSound /\ RenameSound /\ DiskSound

LEMMA NoDirectoryIs == NoDirectory \in Directory
BY DEF NoDirectory, Directory

LEMMA NoFolderIs == NoFolder \in FolderRow /\ NoFolder.place = Nowhere
BY DEF NoFolder, FolderRow

LEMMA FolderInitInv == FolderInit => FolderInv
<1> SUFFICES ASSUME FolderInit PROVE FolderInv
  OBVIOUS
<1>1. FolderShape
  BY NoDirectoryIs, NoFolderIs DEF FolderInit, FolderShape
<1>2. \A f \in FolderIds : folder[f] = NoFolder
  BY DEF FolderInit
<1>3. ~Barred /\ documentAt = Nowhere
  BY DEF FolderInit, Barred
<1> QED
  BY <1>1, <1>2, <1>3, NoFolderIs DEF FolderInv, PlacesSound, RenameSound, DiskSound

(* A manifest is written into a directory and leaves its files alone.      *)
LEMMA WithManifestIs ==
    ASSUME FolderInv, NEW p \in Places, NEW f \in FolderIds, NEW version \in Nat
    PROVE  /\ WithManifest(p, f, version) \in [Places -> Directory]
           /\ WithManifest(p, f, version)[p].exists
           /\ WithManifest(p, f, version)[p].of = f
           /\ WithManifest(p, f, version)[p].version = version
           /\ WithManifest(p, f, version)[p].file <=> directory[p].file
           /\ \A q \in Places \ {p} : WithManifest(p, f, version)[q] = directory[q]
<1> DEFINE made == [directory[p] EXCEPT !.exists = TRUE]
           owned == [made EXCEPT !.of = f]
           entry == [owned EXCEPT !.version = version]
<1>1. directory \in [Places -> Directory] /\ directory[p] \in Directory
  BY DEF FolderInv, FolderShape
<1>2. WithManifest(p, f, version) = [directory EXCEPT ![p] = entry]
  BY <1>1 DEF WithManifest
<1>3. made \in Directory /\ made.exists /\ (made.file <=> directory[p].file)
  BY <1>1 DEF Directory
<1> HIDE DEF made
<1>4. /\ owned \in Directory /\ owned.exists /\ owned.of = f
      /\ owned.file <=> directory[p].file
  BY <1>3 DEF Directory
<1> HIDE DEF owned
<1>5. /\ entry \in Directory /\ entry.exists /\ entry.of = f /\ entry.version = version
      /\ entry.file <=> directory[p].file
  BY <1>4 DEF Directory
<1> HIDE DEF entry
<1> QED
  BY <1>1, <1>2, <1>5

(* A row that exists says where the folder is.                             *)
LEMMA FolderHasPlace ==
    ASSUME FolderInv, NEW f \in FolderIds, folder[f] # NoFolder
    PROVE  folder[f].place \in Places /\ folder[f].version \in Nat /\ folder[f] \in FolderRow
<1>1. folder[f] \in FolderRow /\ folder[f].place # Nowhere
  BY DEF FolderInv, FolderShape, PlacesSound
<1> QED
  BY <1>1 DEF FolderRow

(* The steps: what a folder write does to the tree, it does before the row *)
(* says so.                                                                *)
LEMMA CreateFolderKeepsInv ==
    ASSUME FolderInv, NEW f \in FolderIds, NEW p \in Places, NEW commits \in BOOLEAN,
           CreateFolder(f, p, commits)
    PROVE  FolderInv'
<1> DEFINE entry == [place |-> p, version |-> 1]
<1>1. p # Nowhere /\ ~Barred /\ folder[f] = NoFolder /\ \A g \in FolderIds : folder[g].place # p
  BY FolderAssumption DEF CreateFolder, FolderAt
<1>2. entry \in FolderRow /\ entry.place = p /\ entry.version = 1
  BY DEF FolderRow
<1>3. /\ directory' = WithManifest(p, f, 1)
      /\ UNCHANGED <<documentAt, rename, torn>>
      /\ lateDirectory' \in Places \cup {Nowhere}
      /\ folder' = IF commits THEN [folder EXCEPT ![f] = entry] ELSE folder
  BY DEF CreateFolder
<1> HIDE DEF entry
<1>4. /\ directory' \in [Places -> Directory]
      /\ directory'[p].exists /\ directory'[p].of = f /\ directory'[p].version = 1
      /\ directory'[p].file <=> directory[p].file
      /\ \A q \in Places \ {p} : directory'[q] = directory[q]
  BY <1>3, WithManifestIs
<1>5. /\ folder' \in [FolderIds -> FolderRow]
      /\ \A g \in FolderIds : folder'[g] = folder[g] \/ (g = f /\ folder'[g] = entry)
  BY <1>2, <1>3 DEF FolderInv, FolderShape
<1>6. FolderShape'
  BY <1>3, <1>4, <1>5 DEF FolderInv, FolderShape
<1>7. PlacesSound'
  BY <1>1, <1>2, <1>5 DEF FolderInv, PlacesSound
<1>8. ~Barred' /\ RenameSound'
  BY <1>1, <1>3 DEF Barred, RenameSound
<1>9. ASSUME ~torn, NEW g \in FolderIds, folder'[g] # NoFolder
      PROVE  directory'[folder'[g].place].exists /\ directory'[folder'[g].place].of = g
             /\ directory'[folder'[g].place].version >= folder'[g].version
  <2>1. CASE folder'[g] = folder[g]
    <3>1. folder[g].place \in Places \ {p}
      BY <1>1, <1>9, <2>1, FolderHasPlace
    <3>2. IsManifestOf(g, directory[folder[g].place])
      BY <1>1, <1>9, <2>1 DEF FolderInv, DiskSound, TreeOf
    <3> QED
      BY <1>4, <2>1, <3>1, <3>2 DEF IsManifestOf
  <2>2. CASE g = f /\ folder'[g] = entry
    BY <1>2, <1>4, <2>2
  <2> QED
    BY <1>5, <2>1, <2>2
<1>10. ASSUME ~torn, documentAt # Nowhere PROVE directory'[documentAt].file
  <2>1. documentAt \in Places /\ directory[documentAt].file
    BY <1>1, <1>10 DEF FolderInv, FolderShape, DiskSound, FileAt
  <2> QED
    BY <1>4, <2>1
<1>11. DiskSound'
  BY <1>3, <1>8, <1>9, <1>10 DEF DiskSound, TreeOf, FileAt, IsManifestOf
<1> QED
  BY <1>6, <1>7, <1>8, <1>11 DEF FolderInv

LEMMA UpdateFolderMetadataKeepsInv ==
    ASSUME FolderInv, NEW f \in FolderIds, NEW commits \in BOOLEAN,
           UpdateFolderMetadata(f, commits)
    PROVE  FolderInv'
<1> DEFINE p == folder[f].place
           version == folder[f].version + 1
           entry == [folder[f] EXCEPT !.version = version]
<1>1. ~Barred /\ folder[f] # NoFolder
  BY DEF UpdateFolderMetadata
<1>2. p \in Places /\ folder[f].version \in Nat /\ folder[f] \in FolderRow /\ p # Nowhere
  BY <1>1, FolderHasPlace, FolderAssumption
<1>3. version \in Nat /\ version > folder[f].version
  BY <1>2
<1>4. entry \in FolderRow /\ entry.place = p /\ entry.version = version
  BY <1>2, <1>3 DEF FolderRow
<1>5. /\ directory' = WithManifest(p, f, version)
      /\ UNCHANGED <<documentAt, lateDirectory, rename, torn>>
      /\ folder' = IF commits THEN [folder EXCEPT ![f] = entry] ELSE folder
  BY DEF UpdateFolderMetadata, WriteMetadata
<1> HIDE DEF entry, version, p
<1>6. /\ directory' \in [Places -> Directory]
      /\ directory'[p].exists /\ directory'[p].of = f /\ directory'[p].version = version
      /\ directory'[p].file <=> directory[p].file
      /\ \A q \in Places \ {p} : directory'[q] = directory[q]
  BY <1>2, <1>3, <1>5, WithManifestIs
<1>7. /\ folder' \in [FolderIds -> FolderRow]
      /\ \A g \in FolderIds : folder'[g] = folder[g] \/ (g = f /\ folder'[g] = entry)
  BY <1>4, <1>5 DEF FolderInv, FolderShape
<1>8. FolderShape'
  BY <1>5, <1>6, <1>7 DEF FolderInv, FolderShape
<1>9. \A g \in FolderIds : folder'[g].place = folder[g].place
  BY <1>4, <1>7 DEF p
<1>10. \A g \in FolderIds : folder'[g] # NoFolder => folder[g] # NoFolder
  BY <1>1, <1>7
<1>11. PlacesSound'
  BY <1>9, <1>10 DEF FolderInv, PlacesSound
<1>12. ~Barred' /\ RenameSound'
  BY <1>1, <1>5 DEF Barred, RenameSound
<1>13. ASSUME ~torn, NEW g \in FolderIds, folder'[g] # NoFolder
       PROVE  directory'[folder'[g].place].exists /\ directory'[folder'[g].place].of = g
              /\ directory'[folder'[g].place].version >= folder'[g].version
  <2>1. CASE g = f
    <3>1. folder'[g].place = p
      BY <1>9, <2>1 DEF p
    <3>2. folder'[g].version = version \/ folder'[g].version = folder[f].version
      BY <1>4, <1>7, <2>1
    <3> QED
      BY <1>2, <1>3, <1>6, <2>1, <3>1, <3>2
  <2>2. CASE g # f
    <3>1. folder[g] # NoFolder /\ folder'[g] = folder[g]
      BY <1>7, <1>10, <1>13, <2>2
    <3>2. folder[g].place \in Places \ {p}
      BY <1>2, <2>2, <3>1, FolderHasPlace DEF FolderInv, PlacesSound, p
    <3>3. IsManifestOf(g, directory[folder[g].place])
      BY <1>1, <1>13, <3>1 DEF FolderInv, DiskSound, TreeOf
    <3> QED
      BY <1>6, <3>1, <3>2, <3>3 DEF IsManifestOf
  <2> QED
    BY <2>1, <2>2
<1>14. ASSUME ~torn, documentAt # Nowhere PROVE directory'[documentAt].file
  <2>1. documentAt \in Places /\ directory[documentAt].file
    BY <1>1, <1>14 DEF FolderInv, FolderShape, DiskSound, FileAt
  <2> QED
    BY <1>6, <2>1
<1>15. DiskSound'
  BY <1>5, <1>12, <1>13, <1>14 DEF DiskSound, TreeOf, FileAt, IsManifestOf
<1> QED
  BY <1>8, <1>11, <1>12, <1>15 DEF FolderInv

(* A directory that only comes to be, or gets a file.                      *)
LEMMA DirectoryGrows ==
    ASSUME FolderInv, NEW p \in Places, NEW entry \in Directory,
           entry.exists, entry.of = directory[p].of, entry.version = directory[p].version,
           directory[p].file => entry.file,
           directory' = [directory EXCEPT ![p] = entry], UNCHANGED folder
    PROVE  /\ directory' \in [Places -> Directory]
           /\ \A q \in Places :
                /\ directory[q].file => directory'[q].file
                /\ \A f \in FolderIds :
                     IsManifestOf(f, directory[q]) => IsManifestOf(f, directory[q])'
<1>1. /\ directory' \in [Places -> Directory]
      /\ \A q \in Places : directory'[q] = IF q = p THEN entry ELSE directory[q]
  BY DEF FolderInv, FolderShape
<1> QED
  BY <1>1 DEF IsManifestOf

(* The tree of a folder is at a place, during a rename as well.            *)
LEMMA TreesAreSomewhere ==
    ASSUME FolderInv
    PROVE  /\ \A f \in FolderIds : folder[f] # NoFolder => TreeOf(f) \in Places
           /\ documentAt # Nowhere => FileAt \in Places
BY FolderHasPlace DEF FolderInv, FolderShape, RenameSound, TreeOf, FileAt

LEMMA MakeDirectoryKeepsInv ==
    ASSUME FolderInv, MakeDirectory
    PROVE  FolderInv'
<1> DEFINE p == lateDirectory
           entry == [directory[p] EXCEPT !.exists = TRUE]
<1>1. p \in Places /\ directory[p] \in Directory
  BY DEF FolderInv, FolderShape, MakeDirectory
<1>2. /\ entry \in Directory /\ entry.exists /\ entry.of = directory[p].of
      /\ entry.version = directory[p].version /\ (entry.file <=> directory[p].file)
  BY <1>1 DEF Directory
<1>3. /\ directory' = [directory EXCEPT ![p] = entry] /\ lateDirectory' = Nowhere
      /\ UNCHANGED <<folder, documentAt, rename, torn>>
  BY DEF MakeDirectory
<1> HIDE DEF entry, p
<1>4. /\ directory' \in [Places -> Directory]
      /\ \A q \in Places :
           /\ directory[q].file => directory'[q].file
           /\ \A f \in FolderIds : IsManifestOf(f, directory[q]) => IsManifestOf(f, directory[q])'
  BY <1>1, <1>2, <1>3, DirectoryGrows
<1>5. FolderShape'
  BY <1>3, <1>4 DEF FolderInv, FolderShape
<1>6. PlacesSound' /\ RenameSound'
  BY <1>3 DEF FolderInv, PlacesSound, RenameSound, Barred
<1>7. /\ \A f \in FolderIds : TreeOf(f)' = TreeOf(f)
      /\ FileAt' = FileAt
  BY <1>3 DEF TreeOf, FileAt, Barred
<1>8. ASSUME ~torn, NEW f \in FolderIds, folder[f] # NoFolder
      PROVE  IsManifestOf(f, directory[TreeOf(f)])'
  <2>1. TreeOf(f) \in Places /\ IsManifestOf(f, directory[TreeOf(f)])
    BY <1>8, TreesAreSomewhere DEF FolderInv, DiskSound
  <2> QED
    BY <1>3, <1>4, <1>7, <2>1 DEF IsManifestOf
<1>9. ASSUME ~torn, documentAt # Nowhere PROVE directory'[FileAt'].file
  BY <1>4, <1>7, <1>9, TreesAreSomewhere DEF FolderInv, DiskSound
<1>10. DiskSound'
  BY <1>3, <1>8, <1>9 DEF DiskSound
<1> QED
  BY <1>5, <1>6, <1>10 DEF FolderInv

LEMMA CreateDocumentKeepsInv ==
    ASSUME FolderInv, NEW p \in Places, CreateDocument(p)
    PROVE  FolderInv'
<1> DEFINE made == [directory[p] EXCEPT !.exists = TRUE]
           entry == [made EXCEPT !.file = TRUE]
<1>1. directory[p] \in Directory /\ directory \in [Places -> Directory] /\ p # Nowhere
  BY FolderAssumption DEF FolderInv, FolderShape
<1>2. /\ directory' = [directory EXCEPT ![p] = entry] /\ documentAt' = p /\ ~Barred
      /\ UNCHANGED <<folder, lateDirectory, rename, torn>>
  BY <1>1 DEF CreateDocument
<1>3. /\ made \in Directory /\ made.exists /\ made.of = directory[p].of
      /\ made.version = directory[p].version
  BY <1>1 DEF Directory
<1> HIDE DEF made
<1>4. /\ entry \in Directory /\ entry.exists /\ entry.of = directory[p].of
      /\ entry.version = directory[p].version /\ entry.file
  BY <1>3 DEF Directory
<1> HIDE DEF entry
<1>5. /\ directory' \in [Places -> Directory]
      /\ \A q \in Places :
           \A f \in FolderIds : IsManifestOf(f, directory[q]) => IsManifestOf(f, directory[q])'
  BY <1>2, <1>4, DirectoryGrows
<1>6. directory'[p].file
  BY <1>1, <1>2, <1>4
<1>7. FolderShape'
  BY <1>2, <1>5 DEF FolderInv, FolderShape
<1>8. PlacesSound' /\ ~Barred' /\ RenameSound'
  BY <1>2 DEF FolderInv, PlacesSound, RenameSound, Barred
<1>9. ASSUME ~torn, NEW f \in FolderIds, folder[f] # NoFolder
      PROVE  IsManifestOf(f, directory[TreeOf(f)])'
  <2>1. TreeOf(f) \in Places /\ IsManifestOf(f, directory[TreeOf(f)])
    BY <1>9, TreesAreSomewhere DEF FolderInv, DiskSound
  <2>2. TreeOf(f)' = TreeOf(f)
    BY <1>2 DEF TreeOf, Barred
  <2> QED
    BY <1>2, <1>5, <2>1, <2>2 DEF IsManifestOf
<1>10. DiskSound'
  BY <1>2, <1>6, <1>8, <1>9 DEF DiskSound, FileAt
<1> QED
  BY <1>7, <1>8, <1>10 DEF FolderInv

-----------------------------------------------------------------------------
(* The rename                                                              *)

(* Moving the tree: the row still names the place the tree has left, and   *)
(* the file of the document went along.                                    *)
LEMMA RenameTreeKeepsInv ==
    ASSUME FolderInv, NEW f \in FolderIds, NEW p \in Places, RenameTree(f, p)
    PROVE  FolderInv'
<1> DEFINE from == folder[f].place
           moving == [of |-> f, from |-> from, to |-> p]
<1>1. /\ ~Barred /\ from # p /\ from # Nowhere /\ documentAt # p
      /\ \A g \in FolderIds : folder[g].place # p
  BY DEF RenameTree, RenameIsValid, FolderAt
<1>2. from \in Places /\ p # Nowhere
  BY <1>1, FolderAssumption DEF FolderInv, FolderShape, FolderRow
<1>3. /\ directory' = [directory EXCEPT ![p] = directory[from], ![from] = NoDirectory]
      /\ rename' = moving /\ UNCHANGED <<folder, documentAt, lateDirectory, torn>>
  BY DEF RenameTree, MoveTree
<1>4. moving.of = f /\ moving.from = from /\ moving.to = p
  OBVIOUS
<1>5. Barred'
  BY <1>2, <1>3, <1>4 DEF Barred, NoRename
<1> HIDE DEF moving, from
<1>6. /\ directory' \in [Places -> Directory]
      /\ directory'[p] = directory[from]
      /\ \A q \in Places \ {p, from} : directory'[q] = directory[q]
  BY <1>1, <1>2, <1>3, NoDirectoryIs DEF FolderInv, FolderShape
<1>7. FolderShape'
  BY <1>3, <1>6 DEF FolderInv, FolderShape
<1>8. PlacesSound'
  BY <1>3 DEF FolderInv, PlacesSound
<1>9. RenameSound'
  BY <1>1, <1>2, <1>3, <1>4 DEF RenameSound, from
<1>10. ASSUME ~torn, NEW g \in FolderIds, folder[g] # NoFolder
       PROVE  IsManifestOf(g, directory[TreeOf(g)])'
  <2>1. IsManifestOf(g, directory[folder[g].place]) /\ folder[g].place \in Places
    BY <1>1, <1>10, FolderHasPlace DEF FolderInv, DiskSound, TreeOf
  <2>2. CASE g = f
    <3>1. TreeOf(g)' = p
      BY <1>3, <1>4, <1>5, <2>2 DEF TreeOf
    <3> QED
      BY <1>3, <1>6, <2>1, <2>2, <3>1 DEF IsManifestOf, from
  <2>3. CASE g # f
    <3>1. TreeOf(g)' = folder[g].place
      BY <1>3, <1>4, <2>3 DEF TreeOf
    <3>2. folder[g].place \notin {p, from}
      BY <1>1, <1>2, <2>3 DEF FolderInv, PlacesSound, from
    <3> QED
      BY <1>3, <1>6, <2>1, <3>1, <3>2 DEF IsManifestOf
  <2> QED
    BY <2>2, <2>3
<1>11. ASSUME ~torn, documentAt # Nowhere PROVE directory'[FileAt'].file
  <2>1. documentAt \in Places /\ directory[documentAt].file
    BY <1>1, <1>11 DEF FolderInv, FolderShape, DiskSound, FileAt
  <2>2. FileAt' = IF documentAt = from THEN p ELSE documentAt
    BY <1>3, <1>4, <1>5 DEF FileAt
  <2> QED
    BY <1>1, <1>6, <2>1, <2>2
<1>12. DiskSound'
  BY <1>3, <1>10, <1>11 DEF DiskSound
<1> QED
  BY <1>7, <1>8, <1>9, <1>12 DEF FolderInv

(* The row follows, and a document below the folder with it.               *)
LEMMA CommitRenameKeepsInv ==
    ASSUME FolderInv, CommitRename
    PROVE  FolderInv'
<1> DEFINE f == rename.of
           p == rename.to
           from == rename.from
           entry == [folder[f] EXCEPT !.place = p]
<1>1. /\ Barred /\ f \in FolderIds /\ p \in Places /\ from \in Places /\ p # Nowhere
      /\ from = folder[f].place /\ from # p /\ documentAt # p /\ from # Nowhere
      /\ \A g \in FolderIds : folder[g].place # p
  BY FolderAssumption DEF CommitRename, FolderInv, RenameSound
<1>2. folder[f] \in FolderRow /\ folder[f].version \in Nat /\ folder[f] # NoFolder
  BY <1>1, NoFolderIs DEF FolderInv, FolderShape, FolderRow
<1>3. entry \in FolderRow /\ entry.place = p /\ entry.version = folder[f].version
  BY <1>1, <1>2 DEF FolderRow
<1>4. /\ directory' = WithManifest(p, f, folder[f].version)
      /\ folder' = [folder EXCEPT ![f] = entry]
      /\ documentAt' = IF documentAt = from THEN p ELSE documentAt
      /\ rename' = NoRename /\ UNCHANGED <<lateDirectory, torn>>
  BY DEF CommitRename
<1> HIDE DEF entry
<1>5. TreeOf(f) = p /\ FileAt = documentAt'
  BY <1>1, <1>4 DEF TreeOf, FileAt
<1>6. \A g \in FolderIds \ {f} : TreeOf(g) = folder[g].place
  BY DEF TreeOf
<1> HIDE DEF f, p, from
<1>7. /\ directory' \in [Places -> Directory]
      /\ directory'[p].exists /\ directory'[p].of = f /\ directory'[p].version = folder[f].version
      /\ directory'[p].file <=> directory[p].file
      /\ \A q \in Places \ {p} : directory'[q] = directory[q]
  BY <1>1, <1>2, <1>4, WithManifestIs
<1>8. /\ folder' \in [FolderIds -> FolderRow]
      /\ \A g \in FolderIds : folder'[g] = IF g = f THEN entry ELSE folder[g]
  BY <1>3, <1>4 DEF FolderInv, FolderShape
<1>9. FolderShape'
  BY <1>1, <1>4, <1>7, <1>8 DEF FolderInv, FolderShape
<1>10. PlacesSound'
  BY <1>1, <1>3, <1>8 DEF FolderInv, PlacesSound
<1>11. ~Barred' /\ RenameSound'
  BY <1>4 DEF Barred, RenameSound
<1>12. ASSUME ~torn, NEW g \in FolderIds, folder'[g] # NoFolder
       PROVE  IsManifestOf(g, directory[folder[g].place])'
  <2>1. CASE g = f
    BY <1>2, <1>3, <1>7, <1>8, <2>1 DEF IsManifestOf
  <2>2. CASE g # f
    <3>1. folder'[g] = folder[g] /\ folder[g].place \in Places \ {p}
      BY <1>1, <1>8, <1>12, <2>2, FolderHasPlace
    <3>2. IsManifestOf(g, directory[folder[g].place])
      BY <1>6, <1>12, <2>2, <3>1 DEF FolderInv, DiskSound
    <3> QED
      BY <1>7, <3>1, <3>2 DEF IsManifestOf
  <2> QED
    BY <2>1, <2>2
<1>13. ASSUME ~torn, documentAt' # Nowhere PROVE directory'[documentAt'].file
  <2>1. documentAt # Nowhere
    BY <1>1, <1>4, <1>13
  <2>2. documentAt' \in Places /\ directory[documentAt'].file
    BY <1>5, <1>13, <2>1, TreesAreSomewhere DEF FolderInv, DiskSound
  <2> QED
    BY <1>7, <2>2
<1>14. DiskSound'
  BY <1>4, <1>11, <1>12, <1>13 DEF DiskSound, TreeOf, FileAt
<1> QED
  BY <1>9, <1>10, <1>11, <1>14 DEF FolderInv

(* A commit that fails moves the tree back, or leaves it torn.             *)
LEMMA UndoRenameKeepsInv ==
    ASSUME FolderInv, UndoRename
    PROVE  FolderInv'
<1> DEFINE f == rename.of
           p == rename.to
           from == rename.from
<1>1. /\ Barred /\ f \in FolderIds /\ p \in Places /\ from \in Places
      /\ from = folder[f].place /\ from # p /\ documentAt # p
      /\ \A g \in FolderIds : folder[g].place # p
  BY DEF UndoRename, FolderInv, RenameSound
<1>2. /\ TreeOf(f) = p
      /\ \A g \in FolderIds \ {f} : TreeOf(g) = folder[g].place
      /\ FileAt = IF documentAt = from THEN p ELSE documentAt
  BY <1>1 DEF TreeOf, FileAt
<1>3. rename' = NoRename /\ UNCHANGED <<folder, documentAt, lateDirectory>>
  BY DEF UndoRename
<1>4. ~Barred' /\ RenameSound'
  BY <1>3 DEF Barred, RenameSound
<1>5. PlacesSound'
  BY <1>3 DEF FolderInv, PlacesSound
<1>6. CASE directory[from].exists
  <2>1. torn' /\ UNCHANGED directory
    BY <1>6 DEF UndoRename
  <2> QED
    BY <1>3, <1>4, <1>5, <2>1 DEF FolderInv, FolderShape, DiskSound
<1>7. CASE ~directory[from].exists
  <2>1. /\ directory' = [directory EXCEPT ![from] = directory[p], ![p] = NoDirectory]
        /\ torn' \in BOOLEAN /\ (~torn' => ~torn)
    BY <1>7 DEF UndoRename, MoveTree
  <2> HIDE DEF f, p, from
  <2>2. /\ directory' \in [Places -> Directory]
        /\ directory'[from] = directory[p]
        /\ \A q \in Places \ {p, from} : directory'[q] = directory[q]
    BY <1>1, <2>1, NoDirectoryIs DEF FolderInv, FolderShape
  <2>3. FolderShape'
    BY <1>3, <2>1, <2>2 DEF FolderInv, FolderShape
  <2>4. ASSUME ~torn, NEW g \in FolderIds, folder[g] # NoFolder
        PROVE  IsManifestOf(g, directory[folder[g].place])'
    <3>1. IsManifestOf(g, directory[TreeOf(g)]) /\ folder[g].place \in Places
      BY <2>4, FolderHasPlace DEF FolderInv, DiskSound
    <3>2. CASE g = f
      BY <1>1, <1>2, <1>3, <2>2, <3>1, <3>2 DEF IsManifestOf
    <3>3. CASE g # f
      <4>1. folder[g].place \in Places \ {p, from}
        BY <1>1, <2>4, <3>1, <3>3, FolderAssumption DEF FolderInv, PlacesSound
      <4> QED
        BY <1>2, <1>3, <2>2, <3>1, <3>3, <4>1 DEF IsManifestOf
    <3> QED
      BY <3>2, <3>3
  <2>5. ASSUME ~torn, documentAt # Nowhere PROVE directory'[documentAt].file
    <3>1. directory[FileAt].file /\ documentAt \in Places
      BY <2>5 DEF FolderInv, FolderShape, DiskSound
    <3> QED
      BY <1>1, <1>2, <2>2, <3>1
  <2>6. DiskSound'
    BY <1>3, <1>4, <2>1, <2>4, <2>5 DEF DiskSound, TreeOf, FileAt
  <2> QED
    BY <1>4, <1>5, <2>3, <2>6 DEF FolderInv
<1> QED
  BY <1>6, <1>7

LEMMA FolderCrashKeepsInv ==
    ASSUME FolderInv, FolderCrash
    PROVE  FolderInv'
<1>1. /\ rename' = NoRename /\ lateDirectory' = Nowhere
      /\ UNCHANGED <<folder, directory, documentAt>>
      /\ torn' \in BOOLEAN /\ (~torn' => ~torn /\ ~Barred)
  BY DEF FolderCrash, FolderInv, FolderShape
<1>2. ~Barred' /\ RenameSound'
  BY <1>1 DEF Barred, RenameSound
<1>3. FolderShape' /\ PlacesSound'
  BY <1>1 DEF FolderInv, FolderShape, PlacesSound
<1>4. DiskSound'
  BY <1>1, <1>2 DEF FolderInv, DiskSound, TreeOf, FileAt, IsManifestOf
<1> QED
  BY <1>2, <1>3, <1>4 DEF FolderInv

LEMMA FolderRestKeepsInv ==
    ASSUME FolderInv, UNCHANGED <<folder, directory, documentAt, rename, torn>>,
           lateDirectory' \in Places \cup {Nowhere}
    PROVE  FolderInv'
<1>1. FolderShape' /\ PlacesSound' /\ RenameSound'
  BY DEF FolderInv, FolderShape, PlacesSound, RenameSound, Barred
<1>2. DiskSound'
  BY DEF FolderInv, DiskSound, TreeOf, FileAt, IsManifestOf, Barred
<1> QED
  BY <1>1, <1>2 DEF FolderInv

LEMMA FolderNextKeepsInv == FolderInv /\ [FolderNext]_folderVars => FolderInv'
<1> SUFFICES ASSUME FolderInv, [FolderNext]_folderVars PROVE FolderInv'
  OBVIOUS
<1>1. ASSUME NEW commits \in BOOLEAN, NEW f \in FolderIds, NEW p \in Places,
             CreateFolder(f, p, commits)
      PROVE  FolderInv'
  BY <1>1, CreateFolderKeepsInv
<1>2. ASSUME NEW commits \in BOOLEAN, NEW f \in FolderIds, UpdateFolderMetadata(f, commits)
      PROVE  FolderInv'
  BY <1>2, UpdateFolderMetadataKeepsInv
<1>3. ASSUME NEW p \in Places, ReplayCreate(p) PROVE FolderInv'
  BY <1>3, FolderRestKeepsInv DEF ReplayCreate
<1>4. ASSUME NEW p \in Places, CreateDocument(p) PROVE FolderInv'
  BY <1>4, CreateDocumentKeepsInv
<1>5. ASSUME NEW f \in FolderIds, NEW p \in Places, RenameTree(f, p) PROVE FolderInv'
  BY <1>5, RenameTreeKeepsInv
<1>6. CASE MakeDirectory
  BY <1>6, MakeDirectoryKeepsInv
<1>7. CASE CommitRename
  BY <1>7, CommitRenameKeepsInv
<1>8. CASE UndoRename
  BY <1>8, UndoRenameKeepsInv
<1>9. CASE FolderCrash
  BY <1>9, FolderCrashKeepsInv
<1>10. CASE UNCHANGED folderVars
  BY <1>10, FolderRestKeepsInv DEF folderVars, FolderInv, FolderShape
<1> QED
  BY <1>1, <1>2, <1>3, <1>4, <1>5, <1>6, <1>7, <1>8, <1>9, <1>10 DEF FolderNext

(* What the invariant says between two operations is the property.         *)
LEMMA FolderInvShows == FolderInv => FoldersAreOnDisk
BY DEF FolderInv, DiskSound, TreeOf, FileAt, IsManifestOf, FoldersAreOnDisk

(* Unless a crash or a failed undo tore a rename, whatever requests        *)
(* interleave: every folder has its directory with its own manifest, not   *)
(* older than the row, and the document's file is where its row says.      *)
THEOREM FoldersStayOnDisk == FolderSpec => []FoldersAreOnDisk
BY FolderInitInv, FolderNextKeepsInv, FolderInvShows, PTL DEF FolderSpec

-----------------------------------------------------------------------------
(* Organization plans                                                      *)

PlanPlaces == {"away", "next", "unchecked", "checked", "performed", "over"}
PlanCall == [at : PlanPlaces, done : 0 .. Operations, items : Seq(Outcomes)]
PlanStatuses == {"none", "running", "partial"} \cup Outcomes
Execution == [status : PlanStatuses, next : 0 .. Operations, items : Seq(Outcomes)]

(* What counts as done, and what is reported completed, has been performed. *)
AccountsFor(done, items) ==
    /\ \A i \in 1 .. done : performed[i] = 1
    /\ \A i \in 1 .. Len(items) : items[i] = "completed" => i \in Steps /\ performed[i] = 1

PlanCallSound(entry) ==
    /\ AccountsFor(entry.done, entry.items)
    /\ entry.at # "over" => Len(entry.items) = entry.done
    /\ entry.at \in {"unchecked", "checked", "performed"} => entry.done + 1 \in Steps
    /\ entry.at = "performed" => performed[entry.done + 1] = 1

ExecutionSound(entry) ==
    /\ AccountsFor(entry.next, entry.items)
    /\ entry.status = "running" => Len(entry.items) = entry.next
    /\ entry.status = "completed" => \A i \in Steps : performed[i] = 1

PlanInv ==
    /\ execution \in Execution /\ ExecutionSound(execution)
    /\ performed \in [Steps -> 0 .. 1]
    /\ planCall \in [PlanCalls -> PlanCall]
    /\ \A c \in PlanCalls : PlanCallSound(planCall[c])
    /\ \A i \in 1 .. Operations - 1 : performed[i] >= performed[i + 1]

(* A call that has not begun has nothing to account for.                   *)
LEMMA NoPlanCallSound ==
    NoPlanCall \in PlanCall /\ PlanCallSound(NoPlanCall) /\ NoPlanCall.at = "away"
<1>1. <<>> \in Seq(Outcomes) /\ Len(<<>>) = 0
  OBVIOUS
<1>2. NoPlanCall \in PlanCall
  BY <1>1, PlanAssumption DEF NoPlanCall, PlanCall, PlanPlaces
<1> QED
  BY <1>1, <1>2, PlanAssumption DEF NoPlanCall, PlanCallSound, AccountsFor

LEMMA PlanInitInv == PlanInit => PlanInv
<1> SUFFICES ASSUME PlanInit PROVE PlanInv
  OBVIOUS
<1>1. <<>> \in Seq(Outcomes) /\ Len(<<>>) = 0
  OBVIOUS
<1>2. execution \in Execution
  BY <1>1, PlanAssumption DEF PlanInit, NoExecution, Execution, PlanStatuses
<1>3. ExecutionSound(execution)
  BY <1>1, PlanAssumption DEF PlanInit, NoExecution, ExecutionSound, AccountsFor
<1>4. \A i \in 1 .. Operations - 1 : i \in Steps /\ i + 1 \in Steps
  BY PlanAssumption DEF Steps
<1> QED
  BY <1>2, <1>3, <1>4, NoPlanCallSound DEF PlanInit, PlanInv

(* A step of one call that performs nothing.                               *)
LEMMA PlanCallMoves ==
    ASSUME PlanInv, NEW c \in PlanCalls, NEW entry \in PlanCall, PlanCallSound(entry),
           planCall' = [planCall EXCEPT ![c] = entry],
           UNCHANGED performed, execution' \in Execution, ExecutionSound(execution')
    PROVE  PlanInv'
<1>1. planCall' \in [PlanCalls -> PlanCall]
  BY DEF PlanInv
<1>2. \A d \in PlanCalls : planCall'[d] = IF d = c THEN entry ELSE planCall[d]
  BY DEF PlanInv
<1>3. ASSUME NEW d \in PlanCalls PROVE PlanCallSound(planCall[d])'
  <2>1. PlanCallSound(planCall'[d])
    BY <1>2 DEF PlanInv
  <2> QED
    BY <2>1 DEF PlanCallSound, AccountsFor
<1>4. ExecutionSound(execution)'
  BY DEF ExecutionSound, AccountsFor
<1> QED
  BY <1>1, <1>3, <1>4 DEF PlanInv

LEMMA PlanCallGoes ==
    ASSUME PlanInv, NEW c \in PlanCalls, NEW place \in PlanPlaces, PlanGoes(c, place),
           UNCHANGED <<execution, performed>>,
           planCall[c].at # "over",
           place \in {"unchecked", "checked"} => CurrentOperation(c) \in Steps,
           place # "performed"
    PROVE  PlanInv'
<1> DEFINE entry == [planCall[c] EXCEPT !.at = place]
<1>1. planCall[c] \in PlanCall /\ PlanCallSound(planCall[c])
  BY DEF PlanInv
<1>2. /\ entry \in PlanCall /\ entry.at = place
      /\ entry.done = planCall[c].done /\ entry.items = planCall[c].items
  BY <1>1 DEF PlanCall
<1>3. planCall' = [planCall EXCEPT ![c] = entry]
  BY DEF PlanGoes
<1> HIDE DEF entry
<1>4. PlanCallSound(entry)
  BY <1>1, <1>2 DEF PlanCallSound, AccountsFor, CurrentOperation
<1> QED
  BY <1>2, <1>3, <1>4, PlanCallMoves DEF PlanInv

(* The steps: beginning, failing, saving, performing and finishing.        *)
LEMMA BeginsKeepInv ==
    ASSUME PlanInv, NEW c \in PlanCalls, Admit(c) \/ Resume(c)
    PROVE  PlanInv'
<1>1. CASE Admit(c)
  <2> DEFINE entry == [NoPlanCall EXCEPT !.at = "next"]
             begun == [NoExecution EXCEPT !.status = "running"]
  <2>1. entry \in PlanCall /\ entry.at = "next" /\ entry.done = 0 /\ entry.items = <<>>
    BY NoPlanCallSound DEF PlanCall, PlanPlaces, NoPlanCall
  <2>2. <<>> \in Seq(Outcomes) /\ Len(<<>>) = 0
    OBVIOUS
  <2>3. /\ begun \in Execution
        /\ begun.status = "running" /\ begun.next = 0 /\ begun.items = <<>>
    <3>1. "none" \in PlanStatuses /\ "running" \in PlanStatuses
      BY DEF PlanStatuses
    <3>2. /\ NoExecution \in Execution
          /\ NoExecution.next = 0 /\ NoExecution.items = <<>>
      BY <2>2, <3>1, PlanAssumption DEF Execution, NoExecution
    <3> QED
      BY <3>1, <3>2 DEF Execution
  <2>4. planCall' = [planCall EXCEPT ![c] = entry] /\ execution' = begun
    BY <1>1 DEF Admit
  <2> HIDE DEF entry, begun
  <2>5. PlanCallSound(entry) /\ ExecutionSound(begun)
    BY <2>1, <2>2, <2>3 DEF PlanCallSound, ExecutionSound, AccountsFor
  <2> QED
    BY <1>1, <2>1, <2>3, <2>4, <2>5, PlanCallMoves DEF Admit
<1>2. CASE Resume(c)
  <2> DEFINE entry == [at |-> "next", done |-> execution.next, items |-> execution.items]
  <2>1. entry \in PlanCall
    BY DEF PlanInv, PlanCall, PlanPlaces, Execution
  <2>2. PlanCallSound(entry)
    BY <1>2 DEF PlanInv, ExecutionSound, PlanCallSound, AccountsFor, Resume
  <2>3. planCall' = [planCall EXCEPT ![c] = entry]
    BY <1>2 DEF Resume
  <2> HIDE DEF entry
  <2> QED
    BY <1>2, <2>1, <2>2, <2>3, PlanCallMoves DEF Resume, PlanInv
<1> QED
  BY <1>1, <1>2

(* The items of a plan that fails report nothing new as completed.         *)
LEMMA FailedItems ==
    ASSUME PlanInv, NEW c \in PlanCalls, planCall[c].at \in {"unchecked", "checked", "performed"},
           NEW outcome \in {"conflicted", "failed"}
    PROVE  /\ ItemsAfter(c, outcome) \in Seq(Outcomes)
           /\ AccountsFor(planCall[c].done, ItemsAfter(c, outcome))
<1> DEFINE done == planCall[c].done
           items == planCall[c].items
           left == Operations - done
           rest == [i \in 1 .. left |-> IF i = 1 THEN outcome ELSE "skipped"]
<1>1. /\ items \in Seq(Outcomes) /\ Len(items) = done
      /\ AccountsFor(done, items) /\ left \in Nat
  BY PlanAssumption DEF PlanInv, PlanCall, PlanCallSound
<1>2. rest \in [1 .. left -> Outcomes]
  BY DEF Outcomes
<1>3. \A i \in 1 .. left : rest[i] # "completed"
  OBVIOUS
<1>4. ItemsAfter(c, outcome) = items \o rest
  BY DEF ItemsAfter
<1> HIDE DEF done, items, left, rest
<1>5. rest \in Seq(Outcomes) /\ Len(rest) = left
  BY <1>1, <1>2
<1>6. items \o rest \in Seq(Outcomes)
  BY <1>1, <1>5
<1>7. ASSUME NEW i \in 1 .. Len(items \o rest), (items \o rest)[i] = "completed"
      PROVE  i \in Steps /\ performed[i] = 1
  <2>1. CASE i <= Len(items)
    <3>1. (items \o rest)[i] = items[i]
      BY <1>1, <1>5, <2>1
    <3> QED
      BY <1>1, <1>7, <2>1, <3>1 DEF AccountsFor
  <2>2. CASE i > Len(items)
    <3>1. (items \o rest)[i] = rest[i - Len(items)] /\ i - Len(items) \in 1 .. left
      BY <1>1, <1>5, <2>2
    <3> QED
      BY <1>3, <1>7, <3>1
  <2> QED
    BY <1>1, <2>1, <2>2
<1> QED
  BY <1>1, <1>4, <1>6, <1>7 DEF AccountsFor, done

LEMMA FailOperationKeepsInv ==
    ASSUME PlanInv, NEW c \in PlanCalls, NEW outcome \in {"conflicted", "failed"},
           FailOperation(c, outcome)
    PROVE  PlanInv'
<1> DEFINE items == ItemsAfter(c, outcome)
           over == [planCall[c] EXCEPT !.at = "over"]
           entry == [over EXCEPT !.items = items]
<1>1. /\ items \in Seq(Outcomes) /\ AccountsFor(planCall[c].done, items)
      /\ planCall[c] \in PlanCall
  BY FailedItems DEF FailOperation, PlanInv
<1>2. planCall' = [planCall EXCEPT ![c] = entry]
  BY DEF FailOperation, PlanInv
<1> HIDE DEF items
<1>3. over \in PlanCall /\ over.at = "over" /\ over.done = planCall[c].done
  BY <1>1 DEF PlanCall, PlanPlaces
<1> HIDE DEF over
<1>4. entry \in PlanCall /\ entry.at = "over" /\ entry.done = planCall[c].done /\ entry.items = items
  BY <1>1, <1>3 DEF PlanCall
<1> HIDE DEF entry
<1>5. PlanCallSound(entry)
  BY <1>1, <1>4 DEF PlanCallSound
<1> QED
  BY <1>2, <1>4, <1>5, PlanCallMoves DEF FailOperation, PlanInv

LEMMA SaveProgressKeepsInv ==
    ASSUME PlanInv, NEW c \in PlanCalls, SaveProgress(c)
    PROVE  PlanInv'
<1> DEFINE old == planCall[c].items
           items == Append(old, "completed")
           current == planCall[c].done + 1
           place == IF Len(items) = Operations THEN "over" ELSE "next"
           entry == [at |-> place, done |-> current, items |-> items]
           counted == [execution EXCEPT !.next = current]
           saved == [counted EXCEPT !.items = items]
<1>1. /\ old \in Seq(Outcomes) /\ Len(old) = planCall[c].done
      /\ AccountsFor(planCall[c].done, old)
      /\ current \in Steps /\ performed[current] = 1
      /\ planCall[c].done \in Nat
  BY PlanAssumption DEF PlanInv, PlanCall, PlanCallSound, SaveProgress, PlanAt
<1>2. "completed" \in Outcomes /\ place \in PlanPlaces
  BY DEF Outcomes, PlanPlaces
<1>3. items \in Seq(Outcomes) /\ Len(items) = current
  BY <1>1, <1>2
<1>4. current \in 0 .. Operations
  BY <1>1 DEF Steps
<1>5. planCall' = [planCall EXCEPT ![c] = entry] /\ execution' = saved
  BY DEF SaveProgress, CurrentOperation
<1>6. AccountsFor(current, items)
  <2>1. ASSUME NEW i \in 1 .. current PROVE performed[i] = 1
    BY <1>1 DEF AccountsFor
  <2>2. \A i \in 1 .. Len(items) : i \in Steps
    BY <1>1, <1>3, PlanAssumption DEF Steps
  <2> QED
    BY <1>3, <2>1, <2>2 DEF AccountsFor
<1> HIDE DEF items, current, place
<1>7. entry \in PlanCall
  BY <1>2, <1>3, <1>4 DEF PlanCall
<1>8. PlanCallSound(entry)
  BY <1>3, <1>6 DEF PlanCallSound, place
<1>9. /\ counted \in Execution /\ counted.next = current
      /\ counted.status = execution.status
  BY <1>4 DEF PlanInv, Execution
<1> HIDE DEF counted
<1>10. /\ saved \in Execution /\ saved.next = current /\ saved.items = items
       /\ saved.status = execution.status
  BY <1>3, <1>9 DEF Execution
<1> HIDE DEF entry, saved
<1>11. ExecutionSound(saved)
  BY <1>3, <1>6, <1>10 DEF PlanInv, ExecutionSound
<1> QED
  BY <1>5, <1>7, <1>8, <1>10, <1>11, PlanCallMoves DEF SaveProgress

(* An operation is carried out under the key of its step: whoever comes    *)
(* second finds it done.                                                   *)
LEMMA PerformPlannedKeepsInv ==
    ASSUME PlanInv, NEW c \in PlanCalls, PerformPlanned(c)
    PROVE  PlanInv'
<1> DEFINE current == planCall[c].done + 1
           entry == [planCall[c] EXCEPT !.at = "performed"]
<1>1. /\ planCall[c] \in PlanCall /\ PlanCallSound(planCall[c])
      /\ current \in Steps /\ planCall[c].done \in Nat
  BY PlanAssumption DEF PlanInv, PlanCallSound, PlanCall, PerformPlanned, PlanAt
<1>2. /\ entry \in PlanCall /\ entry.at = "performed"
      /\ entry.done = planCall[c].done /\ entry.items = planCall[c].items
  BY <1>1 DEF PlanCall, PlanPlaces
<1>3. planCall' = [planCall EXCEPT ![c] = entry]
  BY DEF PerformPlanned, PlanGoes
<1>4. /\ performed' \in [Steps -> 0 .. 1]
      /\ \A i \in Steps : performed'[i] = IF i = current THEN 1 ELSE performed[i]
  <2>1. performed' = [performed EXCEPT ![current] = 1]
    BY DEF PerformPlanned, CurrentOperation
  <2>2. performed \in [Steps -> 0 .. 1] /\ 1 \in 0 .. 1
    BY DEF PlanInv
  <2> HIDE DEF current
  <2> QED
    BY <2>1, <2>2
<1> HIDE DEF entry
<1>5. /\ planCall' \in [PlanCalls -> PlanCall]
      /\ \A d \in PlanCalls : planCall'[d] = IF d = c THEN entry ELSE planCall[d]
  BY <1>2, <1>3 DEF PlanInv
<1>6. \A i \in Steps : performed[i] = 1 => performed'[i] = 1
  BY <1>4
<1>7. ASSUME NEW n \in 0 .. Operations, NEW items, AccountsFor(n, items)
      PROVE  AccountsFor(n, items)'
  <2>1. 1 .. n \subseteq Steps
    BY PlanAssumption DEF Steps
  <2> QED
    BY <1>6, <1>7, <2>1 DEF AccountsFor
<1>8. ASSUME NEW d \in PlanCalls PROVE PlanCallSound(planCall[d])'
  <2>1. PlanCallSound(planCall[d]) /\ planCall[d] \in PlanCall
    BY DEF PlanInv
  <2>2. planCall[d].done \in 0 .. Operations
    BY <2>1 DEF PlanCall
  <2>3. AccountsFor(planCall[d].done, planCall[d].items)'
    BY <1>2, <1>5, <1>7, <2>1, <2>2 DEF PlanCallSound
  <2>4. CASE d = c
    BY <1>1, <1>2, <1>4, <1>5, <2>3, <2>4 DEF PlanCallSound, PerformPlanned, PlanAt
  <2>5. CASE d # c
    BY <1>5, <1>6, <2>1, <2>3, <2>5 DEF PlanCallSound
  <2> QED
    BY <2>4, <2>5
<1>9. /\ execution' \in Execution /\ ExecutionSound(execution)'
  <2>1. execution \in Execution /\ execution.next \in 0 .. Operations /\ ExecutionSound(execution)
    BY DEF PlanInv, Execution
  <2>2. UNCHANGED execution
    BY DEF PerformPlanned
  <2>3. AccountsFor(execution.next, execution.items)'
    BY <1>7, <2>1, <2>2 DEF ExecutionSound
  <2> QED
    BY <1>6, <2>1, <2>2, <2>3 DEF ExecutionSound
<1>10. ASSUME NEW i \in 1 .. Operations - 1 PROVE performed'[i] >= performed'[i + 1]
  <2>1. i \in Steps /\ i + 1 \in Steps
    BY PlanAssumption DEF Steps
  <2>2. performed[i] >= performed[i + 1]
    BY DEF PlanInv
  <2>3. CASE i + 1 = current
    <3>1. performed[i] = 1
      BY <1>1, <2>3 DEF PlanCallSound, AccountsFor
    <3>2. performed'[i] = 1 /\ performed'[i + 1] = 1
      BY <1>4, <1>6, <2>1, <2>3, <3>1
    <3> QED
      BY <3>2
  <2>4. CASE i + 1 # current /\ i = current
    <3>1. performed'[i] = 1 /\ performed'[i + 1] \in 0 .. 1
      BY <1>4, <2>1, <2>4
    <3> QED
      BY <3>1
  <2>5. CASE i + 1 # current /\ i # current
    BY <1>4, <2>1, <2>2, <2>5
  <2> QED
    BY <2>3, <2>4, <2>5
<1> QED
  BY <1>4, <1>5, <1>8, <1>9, <1>10 DEF PlanInv

LEMMA FinishPlanKeepsInv ==
    ASSUME PlanInv, NEW c \in PlanCalls, FinishPlan(c)
    PROVE  PlanInv'
<1> DEFINE items == planCall[c].items
           status == IF CompletedItems(items) = Steps THEN "completed"
                     ELSE IF CompletedItems(items) # {} THEN "partial" ELSE "failed"
           over == [status |-> status, next |-> planCall[c].done, items |-> items]
<1>1. /\ items \in Seq(Outcomes) /\ planCall[c].done \in 0 .. Operations
      /\ AccountsFor(planCall[c].done, items)
  BY DEF PlanInv, PlanCall, PlanCallSound
<1>2. status \in PlanStatuses /\ status # "running"
  BY DEF PlanStatuses, Outcomes
<1>3. status = "completed" => CompletedItems(items) = Steps
  OBVIOUS
<1>4. execution' = over /\ planCall' = [planCall EXCEPT ![c] = NoPlanCall]
  BY DEF FinishPlan
<1> HIDE DEF items, status
<1>5. over \in Execution
  BY <1>1, <1>2 DEF Execution
<1>6. CompletedItems(items) = Steps => \A i \in Steps : performed[i] = 1
  BY <1>1 DEF CompletedItems, AccountsFor
<1>7. ExecutionSound(over)
  BY <1>1, <1>2, <1>3, <1>6 DEF ExecutionSound
<1> QED
  BY <1>4, <1>5, <1>7, NoPlanCallSound, PlanCallMoves DEF FinishPlan

LEMMA PlanNextKeepsInv == PlanInv /\ [PlanNext]_planVars => PlanInv'
<1> SUFFICES ASSUME PlanInv, [PlanNext]_planVars PROVE PlanInv'
  OBVIOUS
<1> USE DEF PlanAt, PlanPlaces
<1>1. ASSUME NEW c \in PlanCalls, Admit(c) \/ Resume(c) PROVE PlanInv'
  BY <1>1, BeginsKeepInv
<1>2. ASSUME NEW c \in PlanCalls, SkipPreflight(c) PROVE PlanInv'
  BY <1>2, PlanCallGoes DEF SkipPreflight
<1>3. ASSUME NEW c \in PlanCalls, BeginPreflight(c) PROVE PlanInv'
  BY <1>3, PlanCallGoes DEF BeginPreflight
<1>4. ASSUME NEW c \in PlanCalls, PassPreflight(c) PROVE PlanInv'
  <2>1. CurrentOperation(c) \in Steps
    BY <1>4 DEF PassPreflight, PlanInv, PlanCallSound, CurrentOperation
  <2> QED
    BY <1>4, <2>1, PlanCallGoes DEF PassPreflight
<1>5. ASSUME NEW c \in PlanCalls, PerformPlanned(c) PROVE PlanInv'
  BY <1>5, PerformPlannedKeepsInv
<1>6. ASSUME NEW c \in PlanCalls, SaveProgress(c) PROVE PlanInv'
  BY <1>6, SaveProgressKeepsInv
<1>7. ASSUME NEW c \in PlanCalls, FinishPlan(c) PROVE PlanInv'
  BY <1>7, FinishPlanKeepsInv
<1>8. ASSUME NEW c \in PlanCalls,
             FailOperation(c, "conflicted") \/ FailOperation(c, "failed")
      PROVE  PlanInv'
  BY <1>8, FailOperationKeepsInv
<1>9. CASE PlanCrash
  <2>1. planCall' = [c \in PlanCalls |-> NoPlanCall] /\ UNCHANGED <<execution, performed>>
    BY <1>9 DEF PlanCrash
  <2>2. \A c \in PlanCalls : PlanCallSound(planCall[c])'
    BY <2>1, NoPlanCallSound DEF PlanCallSound, AccountsFor
  <2> QED
    BY <2>1, <2>2, NoPlanCallSound DEF PlanInv, ExecutionSound, AccountsFor
<1>10. CASE UNCHANGED planVars
  BY <1>10 DEF planVars, PlanInv, ExecutionSound, PlanCallSound, AccountsFor
<1> QED
  BY <1>1, <1>2, <1>3, <1>4, <1>5, <1>6, <1>7, <1>8, <1>9, <1>10 DEF PlanNext, Over

(* What is done is done in order, and what is reported is done.            *)
LEMMA PlanInvShows == PlanInv => PlanRunsOnce
<1> SUFFICES ASSUME PlanInv PROVE PlanRunsOnce
  OBVIOUS
<1>1. \A i \in Steps : performed[i] <= 1
  BY DEF PlanInv
<1>2. \A i \in CompletedItems(execution.items) : performed[i] = 1
  BY DEF PlanInv, ExecutionSound, AccountsFor, CompletedItems
<1>3. execution.status = "completed" => \A i \in Steps : performed[i] = 1
  BY DEF PlanInv, ExecutionSound
<1> QED
  BY <1>1, <1>2, <1>3 DEF PlanInv, PlanRunsOnce

(* However often a plan is interrupted and called again, also by calls     *)
(* that overlap, no operation is carried out twice or out of order, and    *)
(* one that is reported completed has been carried out.                    *)
THEOREM PlansRunOnce == PlanSpec => []PlanRunsOnce
BY PlanInitInv, PlanNextKeepsInv, PlanInvShows, PTL DEF PlanSpec

-----------------------------------------------------------------------------
(* PDF documents                                                           *)

PdfStates == {"none", "live", "deleted"}
Extractions == {"none", "pending", "processing", "ready", "failed"}
PdfRow == [state : PdfStates, path : PdfPaths \cup {NoPdfPath}, extraction : Extractions,
           pages : BOOLEAN]

PlaceOf == PdfPaths \cup {NoPdfPath}
PdfSteps == [does : {"nothing", "import", "adopt", "move", "rename", "delete", "restore"},
             of : Pdfs \cup {NoPdf}, from : PlaceOf, to : PlaceOf,
             at : {"idle", "linked", "applied"}]

PdfShape ==
    /\ fileStep \in PdfSteps
    /\ pdf \in [Pdfs -> PdfRow]
    /\ pdfFile \in [PdfPaths -> Pdfs \cup {NoPdf}]
    /\ trash \subseteq Pdfs
    /\ extractor \in [Workers -> Pdfs \cup {NoPdf}]

Idle == StepAt("idle")

(* A document has a path of its own.                                       *)
PathsSound ==
    /\ \A d \in Pdfs : pdf[d].state # "none" => pdf[d].path \in PdfPaths
    /\ \A d, e \in Pdfs : pdf[d].state = "live" /\ pdf[e].state = "live"
                          /\ pdf[d].path = pdf[e].path => d = e

(* How far the operation under way has come, by what it does.  Only the    *)
(* file of a document that was left halfway before may be adopted or be    *)
(* missing.                                                                *)
StepSound ==
    LET d == Doing
        from == fileStep.from
        to == fileStep.to
        sound == d \notin moved
    IN
    IF Idle THEN fileStep = NoStep ELSE
    /\ d \in Pdfs /\ fileStep.at \in {"linked", "applied"}
    /\ \/ /\ fileStep.does \in {"import", "adopt"} /\ StepAt("applied")
          /\ pdf[d].state = "none" /\ from = NoPdfPath
          /\ to \in PdfPaths /\ ~Owned(to) /\ pdfFile[to] = d
          /\ sound => d \notin trash /\ fileStep.does = "import"
       \/ /\ fileStep.does = "move"
          /\ pdf[d].state = "live" /\ from = pdf[d].path
          /\ to \in PdfPaths /\ ~Owned(to) /\ pdfFile[to] # NoPdf
          /\ pdfFile[from] = IF StepAt("linked") THEN pdfFile[to] ELSE NoPdf
          /\ sound => d \notin trash /\ pdfFile[to] = d
       \/ /\ fileStep.does = "rename" /\ StepAt("applied")
          /\ pdf[d].state = "live" /\ to \in PdfPaths /\ ~Owned(to)
          /\ ~sound
       \/ /\ fileStep.does = "delete"
          /\ pdf[d].state = "live" /\ from = pdf[d].path /\ to = NoPdfPath
          /\ d \in trash
          /\ pdfFile[from] = IF StepAt("linked") THEN d ELSE NoPdf
       \/ /\ fileStep.does = "restore"
          /\ pdf[d].state = "deleted" /\ from = NoPdfPath /\ to = pdf[d].path
          /\ ~Owned(to) /\ pdfFile[to] = d
          /\ StepAt("applied") => d \notin trash

(* Where the bytes of a document may be that was never left halfway.       *)
Homes(d) ==
    IF Doing = d THEN {fileStep.from, fileStep.to}
    ELSE IF pdf[d].state = "live" THEN {pdf[d].path} ELSE {}

FilesSound(d) ==
    /\ pdf[d].state # "none" => d \in trash \/ \E p \in PdfPaths : pdfFile[p] = d
    /\ d \notin moved => \A p \in PdfPaths : pdfFile[p] = d => p \in Homes(d)
    /\ d \notin moved /\ Doing # d =>
         /\ pdf[d].state = "live" => pdfFile[pdf[d].path] = d
         /\ d \in trash <=> pdf[d].state = "deleted"

PdfFileInv == PathsSound /\ StepSound /\ \A d \in Pdfs : FilesSound(d)

ClaimInv ==
    /\ \A d \in Pdfs :
         /\ pdf[d].extraction = "processing" <=> \E w \in Workers : extractor[w] = d
         /\ pdf[d].extraction = "ready" => pdf[d].pages
         /\ pdf[d].state = "none" => pdf[d].extraction = "none"
    /\ \A v, w \in Workers : extractor[v] # NoPdf /\ extractor[v] = extractor[w] => v = w

PdfInv == PdfShape /\ PdfFileInv /\ ClaimInv

-----------------------------------------------------------------------------

SameWhere ==
    \A d \in Pdfs : pdf'[d].state = pdf[d].state /\ pdf'[d].path = pdf[d].path

(* A step that neither moves a file nor a row, and goes on with the        *)
(* operation under way or leaves it halfway, keeps the files in order.     *)
LEMMA HalfwayKeepsFiles ==
    ASSUME PdfInv, PdfShape', SameWhere, UNCHANGED <<pdfFile, trash>>,
           UNCHANGED <<fileStep, moved>> \/ LeaveHalfway
    PROVE  PdfFileInv'
<1>1. PathsSound' BY DEF PdfInv, PdfFileInv, PathsSound, SameWhere
<1>2. StepSound'
  <2>1. CASE UNCHANGED <<fileStep, moved>>
    BY <2>1 DEF PdfInv, PdfFileInv, StepSound, SameWhere, Idle, StepAt, Doing, Owned
  <2>2. CASE LeaveHalfway
    BY <2>2 DEF LeaveHalfway, PdfStepEnds, StepSound, Idle, StepAt, NoStep
  <2> QED BY <2>1, <2>2
<1>3. ASSUME NEW d \in Pdfs PROVE FilesSound(d)'
  <2>1. FilesSound(d) BY DEF PdfInv, PdfFileInv
  <2>2. CASE UNCHANGED <<fileStep, moved>>
    BY <2>1, <2>2 DEF FilesSound, Homes, SameWhere, Doing
  <2>3. CASE LeaveHalfway /\ d # Doing
    <3>1. d # NoPdf BY PdfAssumption
    <3>2. Doing' # d BY <2>3, <3>1 DEF LeaveHalfway, PdfStepEnds, NoStep, Doing
    <3>3. d \in moved' <=> d \in moved BY <2>3 DEF LeaveHalfway
    <3> QED BY <2>1, <2>3, <3>2, <3>3 DEF FilesSound, Homes, SameWhere
  <2>4. CASE LeaveHalfway /\ d = Doing
    <3>1. d \in moved' BY <2>4 DEF LeaveHalfway
    <3> QED BY <2>1, <3>1 DEF FilesSound, SameWhere
  <2> QED BY <2>2, <2>3, <2>4
<1> QED BY <1>1, <1>2, <1>3 DEF PdfFileInv

(* A step of the workers is none of the files.                             *)
LEMMA ExtractionKeepsFiles ==
    ASSUME PdfInv, NEW d, NEW status \in Extractions, NEW p \in BOOLEAN,
           pdf' = [pdf EXCEPT ![d].extraction = status]
           \/ pdf' = [pdf EXCEPT ![d].extraction = status, ![d].pages = p],
           UNCHANGED <<pdfFile, trash, fileStep, moved>>,
           extractor' \in [Workers -> Pdfs \cup {NoPdf}]
    PROVE  PdfShape' /\ PdfFileInv'
<1>1. pdf \in [Pdfs -> PdfRow] BY DEF PdfInv, PdfShape
<1>2. pdf' \in [Pdfs -> PdfRow]
  <2>1. ASSUME NEW e \in Pdfs PROVE pdf'[e] \in PdfRow
    <3>1. pdf[e] \in PdfRow BY <1>1
    <3>2. CASE e # d BY <3>1, <3>2, <1>1
    <3>3. CASE e = d BY <3>1, <3>3, <1>1 DEF PdfRow
    <3> QED BY <3>2, <3>3
  <2> QED BY <2>1, <1>1
<1>3. PdfShape' BY <1>2 DEF PdfInv, PdfShape
<1>4. SameWhere
  <2>1. ASSUME NEW e \in Pdfs PROVE pdf'[e].state = pdf[e].state /\ pdf'[e].path = pdf[e].path
    <3>1. pdf[e] \in PdfRow BY <1>1
    <3>2. CASE e # d BY <3>1, <3>2, <1>1
    <3>3. CASE e = d BY <3>1, <3>3, <1>1 DEF PdfRow
    <3> QED BY <3>2, <3>3
  <2> QED BY <2>1 DEF SameWhere
<1> QED BY <1>3, <1>4, HalfwayKeepsFiles

(* A step of the files is none of the workers', except that the commit of  *)
(* an import has a row wait for them.                                      *)
LEMMA FilesKeepClaims ==
    ASSUME PdfInv, UNCHANGED extractor,
           \A d \in Pdfs :
               \/ /\ pdf'[d].extraction = pdf[d].extraction
                  /\ pdf'[d].pages = pdf[d].pages
                  /\ pdf'[d].state = "none" => pdf[d].state = "none"
               \/ /\ pdf[d].state = "none" /\ pdf'[d].state = "live"
                  /\ pdf'[d].extraction = "pending"
    PROVE  ClaimInv'
<1>1. ASSUME NEW d \in Pdfs
      PROVE /\ pdf'[d].extraction = "processing" <=> \E w \in Workers : extractor'[w] = d
            /\ pdf'[d].extraction = "ready" => pdf'[d].pages
            /\ pdf'[d].state = "none" => pdf'[d].extraction = "none"
  <2>0. /\ pdf[d].extraction = "processing" <=> \E w \in Workers : extractor[w] = d
        /\ pdf[d].extraction = "ready" => pdf[d].pages
        /\ pdf[d].state = "none" => pdf[d].extraction = "none"
    BY DEF PdfInv, ClaimInv
  <2>1. CASE /\ pdf'[d].extraction = pdf[d].extraction
             /\ pdf'[d].pages = pdf[d].pages
             /\ pdf'[d].state = "none" => pdf[d].state = "none"
    BY <2>0, <2>1
  <2>2. CASE /\ pdf[d].state = "none" /\ pdf'[d].state = "live"
             /\ pdf'[d].extraction = "pending"
    BY <2>0, <2>2
  <2> QED BY <2>1, <2>2
<1>2. \A v, w \in Workers : extractor'[v] # NoPdf /\ extractor'[v] = extractor'[w] => v = w
  BY DEF PdfInv, ClaimInv
<1> QED BY <1>1, <1>2 DEF ClaimInv

(* Neither does a step that moves files.                                   *)
LEMMA FilesOnlyKeepClaims ==
    ASSUME PdfInv, UNCHANGED <<pdf, extractor>> PROVE ClaimInv'
BY FilesKeepClaims

-----------------------------------------------------------------------------

(* The steps that begin or continue an operation on the files.             *)
LEMMA ImportKeepsPdfInv ==
    ASSUME PdfInv, NEW d \in Pdfs, NEW p \in PdfPaths, ImportFile(d, p) PROVE PdfInv'
<1> USE DEF ImportFile
<1>0. /\ PdfShape /\ PathsSound /\ StepSound /\ fileStep = NoStep /\ Doing = NoPdf
      /\ NoPdf \notin Pdfs /\ NoPdfPath \notin PdfPaths
  BY PdfAssumption DEF PdfInv, PdfFileInv, StepSound, Idle, NoStep, Doing
<1>1. /\ pdfFile \in [PdfPaths -> Pdfs \cup {NoPdf}] /\ pdfFile[p] \in {NoPdf, d}
      /\ pdfFile' = [pdfFile EXCEPT ![p] = d] /\ pdf[d].state = "none" /\ ~Owned(p)
      /\ UNCHANGED <<pdf, trash, extractor, moved>>
  BY <1>0 DEF PdfShape
<1>s. fileStep' \in PdfSteps BY <1>0, <1>1 DEF ImportFile, Begin, PdfSteps, PlaceOf
<1>2. PdfShape' BY <1>0, <1>1, <1>s DEF PdfShape
<1>3. PathsSound' BY <1>0, <1>1 DEF PathsSound
<1>4. ClaimInv' BY <1>1, FilesOnlyKeepClaims
<1>5. /\ fileStep'.of = d /\ fileStep'.from = NoPdfPath /\ fileStep'.to = p
      /\ fileStep'.at = "applied" /\ fileStep'.does \in {"import", "adopt"}
      /\ fileStep'.does = "adopt" => pdfFile[p] = d
  BY DEF Begin
<1>6. d \notin moved => d \notin trash /\ pdfFile[p] # d
  BY <1>0, <1>1 DEF PdfInv, PdfFileInv, FilesSound, Homes
<1>7. StepSound'
  <2>1. pdfFile'[p] = d BY <1>1
  <2>2. ~Owned(p)' BY <1>1 DEF Owned
  <2> QED BY <1>1, <1>5, <1>6, <2>1, <2>2 DEF StepSound, Idle, StepAt, Doing
<1>8. ASSUME NEW e \in Pdfs PROVE FilesSound(e)'
  <2>0. FilesSound(e) BY DEF PdfInv, PdfFileInv
  <2>1. CASE e = d
    BY <2>1, <1>1, <1>5, <1>6, <2>0, <1>0 DEF FilesSound, Homes, Doing
  <2>2. CASE e # d
    <3>1. Homes(e)' = Homes(e) BY <2>2, <1>0, <1>1, <1>5 DEF Homes, Doing
    <3>2. \A q \in PdfPaths : pdfFile'[q] = e <=> pdfFile[q] = e BY <2>2, <1>0, <1>1
    <3>3. Doing # e /\ Doing' # e BY <2>2, <1>0, <1>5 DEF Doing
    <3>4. pdf[e].state = "live" => pdf[e].path \in PdfPaths /\ pdf[e].path # p
      BY <1>0, <1>1 DEF PathsSound, Owned
    <3> QED BY <2>0, <3>1, <3>2, <3>3, <3>4, <1>1 DEF FilesSound
  <2> QED BY <2>1, <2>2
<1> QED BY <1>2, <1>3, <1>4, <1>7, <1>8 DEF PdfInv, PdfFileInv

LEMMA LinkMoveKeepsPdfInv ==
    ASSUME PdfInv, NEW d \in Pdfs, NEW p \in PdfPaths, LinkMove(d, p) PROVE PdfInv'
<1> DEFINE from == pdf[d].path
           moves == pdfFile[from] # NoPdf
<1>0. /\ PdfShape /\ PathsSound /\ StepSound /\ fileStep = NoStep /\ Doing = NoPdf
      /\ NoPdf \notin Pdfs /\ NoPdfPath \notin PdfPaths
  BY PdfAssumption DEF LinkMove, PdfInv, PdfFileInv, StepSound, Idle, NoStep, Doing
<1>1. /\ pdfFile \in [PdfPaths -> Pdfs \cup {NoPdf}] /\ from \in PdfPaths /\ p # from
      /\ moves => pdfFile[p] = NoPdf
      /\ moves => pdfFile' = [pdfFile EXCEPT ![p] = pdfFile[from]]
      /\ ~moves => pdfFile' = pdfFile
      /\ pdf[d].state = "live" /\ ~Owned(p)
      /\ UNCHANGED <<pdf, trash, extractor, moved>>
  BY <1>0 DEF PdfShape, LinkMove, PathsSound
<1>s. fileStep' \in PdfSteps BY <1>0, <1>1 DEF LinkMove, Begin, PdfSteps, PlaceOf
<1>2. PdfShape' BY <1>0, <1>1, <1>s DEF PdfShape
<1>3. PathsSound' BY <1>0, <1>1 DEF PathsSound
<1>4. ClaimInv' BY <1>1, FilesOnlyKeepClaims
<1>5. /\ fileStep'.of = d /\ fileStep'.from = from /\ fileStep'.to = p
      /\ moves => fileStep'.at = "linked" /\ fileStep'.does = "move"
      /\ ~moves => fileStep'.at = "applied" /\ fileStep'.does = "rename"
  BY DEF Begin, LinkMove
<1>6. d \notin moved => d \notin trash /\ pdfFile[from] = d
  BY <1>0, <1>1 DEF PdfInv, PdfFileInv, FilesSound
<1>7. ASSUME moves, NEW e \in Pdfs, e # d, pdfFile[from] = e PROVE e \in moved
  <2>1. SUFFICES ASSUME e \notin moved PROVE FALSE OBVIOUS
  <2>2. from \in Homes(e) BY <1>1, <1>7, <2>1 DEF PdfInv, PdfFileInv, FilesSound
  <2>3. pdf[e].state = "live" /\ pdf[e].path = from BY <2>2, <1>0 DEF Homes
  <2> QED BY <2>3, <1>1, <1>7, <1>0 DEF PathsSound
<1> HIDE DEF from, moves
<1>8. StepSound'
  <2>1. ~Owned(p)' BY <1>1 DEF Owned
  <2>2. CASE moves
    <3>1. pdfFile'[p] = pdfFile[from] /\ pdfFile'[from] = pdfFile[from] /\ pdfFile[from] # NoPdf
      BY <1>1, <2>2 DEF moves
    <3>2. from = pdf'[d].path BY <1>1 DEF from
    <3> QED BY <2>1, <2>2, <3>1, <3>2, <1>1, <1>5, <1>6 DEF StepSound, Idle, StepAt, Doing
  <2>3. CASE ~moves
    <3>1. d \in moved BY <2>3, <1>6, <1>0 DEF moves
    <3> QED BY <2>1, <2>3, <3>1, <1>1, <1>5 DEF StepSound, Idle, StepAt, Doing
  <2> QED BY <2>2, <2>3
<1>9. ASSUME NEW e \in Pdfs PROVE FilesSound(e)'
  <2>0. FilesSound(e) BY DEF PdfInv, PdfFileInv
  <2>a. \A q \in PdfPaths : pdfFile[q] = e => pdfFile'[q] = e
    BY <1>0, <1>1 
  <2>b. \A q \in PdfPaths : pdfFile'[q] = e /\ e # d /\ e \notin moved => pdfFile[q] = e
    BY <1>0, <1>1, <1>7
  <2>1. CASE e = d
    <3>1. \A q \in PdfPaths : pdfFile'[q] = d => pdfFile[q] = d \/ q = p
      BY <1>0, <1>1
    <3>2. Doing' = d /\ Homes(d)' = {from, p} BY <1>5 DEF Homes, Doing
    <3>3. Homes(d) = {from} BY <1>0, <1>1 DEF Homes, from
    <3> QED BY <2>1, <3>1, <3>2, <3>3, <1>1, <2>0, <2>a DEF FilesSound
  <2>2. CASE e # d
    <3>1. Homes(e)' = Homes(e) BY <2>2, <1>0, <1>1, <1>5 DEF Homes, Doing
    <3>3. Doing # e /\ Doing' # e BY <2>2, <1>0, <1>5 DEF Doing
    <3>4. pdf[e].state = "live" => pdf[e].path \in PdfPaths
      BY <1>0, <1>1 DEF PathsSound
    <3> QED BY <2>0, <2>2, <2>a, <2>b, <3>1, <3>3, <3>4, <1>1 DEF FilesSound
  <2> QED BY <2>1, <2>2
<1> QED BY <1>2, <1>3, <1>4, <1>8, <1>9 DEF PdfInv, PdfFileInv

LEMMA RetainKeepsPdfInv ==
    ASSUME PdfInv, NEW d \in Pdfs, RetainCopy(d) PROVE PdfInv'
<1>0. /\ PdfShape /\ PathsSound /\ StepSound /\ fileStep = NoStep /\ Doing = NoPdf
      /\ NoPdf \notin Pdfs /\ NoPdfPath \notin PdfPaths
  BY PdfAssumption DEF RetainCopy, PdfInv, PdfFileInv, StepSound, Idle, NoStep, Doing
<1>1. /\ pdf[d].path \in PdfPaths /\ pdfFile[pdf[d].path] = d
      /\ trash' = trash \cup {d} /\ pdf[d].state = "live"
      /\ UNCHANGED <<pdf, pdfFile, extractor, moved>>
  BY <1>0 DEF PdfShape, RetainCopy, PathsSound, Intact
<1>s. fileStep' \in PdfSteps BY <1>0, <1>1 DEF RetainCopy, Begin, PdfSteps, PlaceOf
<1>2. PdfShape' BY <1>0, <1>1, <1>s DEF PdfShape
<1>3. PathsSound' BY <1>0, <1>1 DEF PathsSound
<1>4. ClaimInv' BY <1>1, FilesOnlyKeepClaims
<1>5. /\ fileStep'.of = d /\ fileStep'.from = pdf[d].path /\ fileStep'.to = NoPdfPath
      /\ fileStep'.at = "linked" /\ fileStep'.does = "delete"
  BY DEF Begin, RetainCopy
<1>7. StepSound'
  BY <1>1, <1>5 DEF StepSound, Idle, StepAt, Doing
<1>8. ASSUME NEW e \in Pdfs PROVE FilesSound(e)'
  <2>0. FilesSound(e) BY DEF PdfInv, PdfFileInv
  <2>1. CASE e = d
    <3>1. Doing' = d /\ Homes(d)' = {pdf[d].path, NoPdfPath} BY <1>5 DEF Homes, Doing
    <3>2. Homes(d) = {pdf[d].path} BY <1>0, <1>1 DEF Homes
    <3> QED BY <2>1, <3>1, <3>2, <1>1, <2>0 DEF FilesSound
  <2>2. CASE e # d
    <3>1. Homes(e)' = Homes(e) BY <2>2, <1>0, <1>1, <1>5 DEF Homes, Doing
    <3>2. Doing # e /\ Doing' # e BY <2>2, <1>0, <1>5 DEF Doing
    <3> QED BY <2>0, <2>2, <3>1, <3>2, <1>1 DEF FilesSound
  <2> QED BY <2>1, <2>2
<1> QED BY <1>2, <1>3, <1>4, <1>7, <1>8 DEF PdfInv, PdfFileInv

LEMMA RestoreKeepsPdfInv ==
    ASSUME PdfInv, NEW d \in Pdfs, LinkRestored(d) PROVE PdfInv'
<1> DEFINE p == pdf[d].path
<1>0. /\ PdfShape /\ PathsSound /\ StepSound /\ fileStep = NoStep /\ Doing = NoPdf
      /\ NoPdf \notin Pdfs /\ NoPdfPath \notin PdfPaths
  BY PdfAssumption DEF LinkRestored, PdfInv, PdfFileInv, StepSound, Idle, NoStep, Doing
<1>1. /\ p \in PdfPaths /\ pdfFile[p] = NoPdf /\ d \in trash
      /\ pdfFile \in [PdfPaths -> Pdfs \cup {NoPdf}]
      /\ pdfFile' = [pdfFile EXCEPT ![p] = d] /\ pdf[d].state = "deleted" /\ ~Owned(p)
      /\ UNCHANGED <<pdf, trash, extractor, moved>>
  BY <1>0 DEF PdfShape, LinkRestored, PathsSound
<1>s. fileStep' \in PdfSteps BY <1>0, <1>1 DEF LinkRestored, Begin, PdfSteps, PlaceOf
<1>2. PdfShape' BY <1>0, <1>1, <1>s DEF PdfShape
<1>3. PathsSound' BY <1>0, <1>1 DEF PathsSound
<1>4. ClaimInv' BY <1>1, FilesOnlyKeepClaims
<1>5. /\ fileStep'.of = d /\ fileStep'.from = NoPdfPath /\ fileStep'.to = p
      /\ fileStep'.at = "linked" /\ fileStep'.does = "restore"
  BY DEF Begin, LinkRestored
<1>7. StepSound'
  <2>1. pdfFile'[p] = d BY <1>1
  <2>2. \A e \in Pdfs : ~(pdf'[e].state = "live" /\ pdf'[e].path = p) BY <1>1 DEF Owned
  <2>3. p = pdf'[d].path BY <1>1
  <2> HIDE DEF p
  <2> QED BY <1>1, <1>5, <2>1, <2>2, <2>3 DEF StepSound, Idle, StepAt, Doing, Owned
<1>8. ASSUME NEW e \in Pdfs PROVE FilesSound(e)'
  <2>0. FilesSound(e) BY DEF PdfInv, PdfFileInv
  <2>1. CASE e = d
    <3>1. Doing' = d /\ Homes(d)' = {NoPdfPath, p} BY <1>5 DEF Homes, Doing
    <3>2. Homes(d) = {} BY <1>0, <1>1 DEF Homes
    <3>3. \A q \in PdfPaths : pdfFile'[q] = d => pdfFile[q] = d \/ q = p
      BY <1>0, <1>1
    <3> QED BY <2>1, <3>1, <3>2, <3>3, <1>1, <2>0 DEF FilesSound
  <2>2. CASE e # d
    <3>1. Homes(e)' = Homes(e) BY <2>2, <1>0, <1>1, <1>5 DEF Homes, Doing
    <3>2. \A q \in PdfPaths : pdfFile'[q] = e <=> pdfFile[q] = e BY <2>2, <1>0, <1>1
    <3>3. Doing # e /\ Doing' # e BY <2>2, <1>0, <1>5 DEF Doing
    <3>4. pdf[e].state = "live" => pdf[e].path \in PdfPaths /\ pdf[e].path # p
      BY <1>0, <1>1 DEF PathsSound, Owned
    <3> QED BY <2>0, <3>1, <3>2, <3>3, <3>4, <1>1 DEF FilesSound
  <2> QED BY <2>1, <2>2
<1> QED BY <1>2, <1>3, <1>4, <1>7, <1>8 DEF PdfInv, PdfFileInv

-----------------------------------------------------------------------------

(* What a file may be that the operation under way moves: its own, or that *)
(* of a document that was left halfway.                                    *)
LEMMA CarriedBytes ==
    ASSUME PdfInv, fileStep.does = "move", ~Idle, NEW e \in Pdfs, e # Doing,
           pdfFile[fileStep.to] = e
    PROVE  e \in moved
<1>1. SUFFICES ASSUME e \notin moved PROVE FALSE OBVIOUS
<1>2. /\ fileStep.to \in PdfPaths /\ ~Owned(fileStep.to)
  BY DEF PdfInv, PdfFileInv, StepSound
<1>3. fileStep.to \in Homes(e) BY <1>1, <1>2 DEF PdfInv, PdfFileInv, FilesSound
<1>4. pdf[e].state = "live" /\ pdf[e].path = fileStep.to BY <1>3 DEF Homes
<1> QED BY <1>2, <1>4 DEF Owned

(* The old name goes only after the new one is there.                      *)
LEMMA UnlinkKeepsPdfInv ==
    ASSUME PdfInv, UnlinkOld PROVE PdfInv'
<1> DEFINE d == fileStep.of
           from == fileStep.from
           to == fileStep.to
<1>0. /\ PdfShape /\ PathsSound /\ StepSound /\ ~Idle /\ fileStep.at = "linked"
      /\ NoPdf \notin Pdfs /\ NoPdfPath \notin PdfPaths /\ d \in Pdfs /\ Doing = d
  BY PdfAssumption DEF UnlinkOld, PdfInv, PdfFileInv, StepSound, Idle, StepAt, Doing
<1>1. /\ pdfFile \in [PdfPaths -> Pdfs \cup {NoPdf}]
      /\ from = NoPdfPath => pdfFile' = pdfFile
      /\ from # NoPdfPath => pdfFile' = [pdfFile EXCEPT ![from] = NoPdf]
      /\ fileStep.does = "restore" => trash' = trash \ {d}
      /\ fileStep.does # "restore" => trash' = trash
      /\ UNCHANGED <<pdf, extractor, moved>>
  BY <1>0 DEF PdfShape, UnlinkOld, Doing
<1>2. /\ fileStep'.of = d /\ fileStep'.from = from /\ fileStep'.to = to
      /\ fileStep'.does = fileStep.does /\ fileStep'.at = "applied"
  <2>1. fileStep' = [fileStep EXCEPT !.at = "applied"] BY DEF UnlinkOld
  <2> QED BY <2>1, <1>0 DEF PdfShape, PdfSteps
<1>3. PdfShape'
  <2>1. fileStep' \in PdfSteps
    <3>1. fileStep \in PdfSteps BY <1>0 DEF PdfShape
    <3>2. fileStep' = [fileStep EXCEPT !.at = "applied"] BY DEF UnlinkOld
    <3> QED BY <3>1, <3>2 DEF PdfSteps
  <2>2. pdfFile' \in [PdfPaths -> Pdfs \cup {NoPdf}] BY <1>1
  <2>3. trash' \subseteq Pdfs BY <1>0, <1>1 DEF PdfShape
  <2> QED BY <2>1, <2>2, <2>3, <1>0, <1>1 DEF PdfShape
<1>4. PathsSound' BY <1>0, <1>1 DEF PathsSound
<1>5. ClaimInv' BY <1>1, FilesOnlyKeepClaims
<1>6. from # to /\ (from \in PdfPaths \/ fileStep.does = "restore")
  BY <1>0 DEF StepSound, Idle, StepAt, Owned, PathsSound, Doing
<1> HIDE DEF d, from, to
<1>7. StepSound'
  <2>1. CASE fileStep.does = "move"
    <3>1. /\ pdf[d].state = "live" /\ from = pdf[d].path
          /\ to \in PdfPaths /\ ~Owned(to) /\ pdfFile[to] # NoPdf
          /\ d \notin moved => d \notin trash /\ pdfFile[to] = d
      BY <2>1, <1>0 DEF StepSound, d, from, to, Doing
    <3>2. pdfFile'[to] = pdfFile[to] /\ pdfFile'[from] = NoPdf
      BY <3>1, <1>1, <1>6, <1>0, <2>1 DEF PathsSound
    <3>3. \A e \in Pdfs : ~(pdf'[e].state = "live" /\ pdf'[e].path = to) BY <3>1, <1>1 DEF Owned
    <3> QED BY <2>1, <3>1, <3>2, <3>3, <1>0, <1>1, <1>2
             DEF StepSound, Idle, StepAt, Doing, Owned
  <2>2. CASE fileStep.does = "delete"
    <3>1. /\ pdf[d].state = "live" /\ from = pdf[d].path /\ to = NoPdfPath
          /\ d \in trash
      BY <2>2, <1>0 DEF StepSound, d, from, to, Doing
    <3>2. pdfFile'[from] = NoPdf
      BY <3>1, <1>1, <1>6, <1>0, <2>2 DEF PathsSound
    <3> QED BY <2>2, <3>1, <3>2, <1>0, <1>1, <1>2
             DEF StepSound, Idle, StepAt, Doing
  <2>3. CASE fileStep.does = "restore"
    <3>1. /\ pdf[d].state = "deleted" /\ from = NoPdfPath /\ to = pdf[d].path
          /\ ~Owned(to) /\ pdfFile[to] = d
      BY <2>3, <1>0 DEF StepSound, d, from, to, Doing
    <3>3. \A e \in Pdfs : ~(pdf'[e].state = "live" /\ pdf'[e].path = to) BY <3>1, <1>1 DEF Owned
    <3> QED BY <2>3, <3>1, <3>3, <1>0, <1>1, <1>2
             DEF StepSound, Idle, StepAt, Doing, Owned
  <2> QED BY <2>1, <2>2, <2>3, <1>0 DEF StepSound, Idle, StepAt
<1>8. ASSUME NEW e \in Pdfs PROVE FilesSound(e)'
  <2>0. FilesSound(e) BY DEF PdfInv, PdfFileInv
  <2>a. \A q \in PdfPaths : pdfFile'[q] = e => pdfFile[q] = e
    BY <1>0, <1>1, PdfAssumption
  <2>b. \A q \in PdfPaths : pdfFile[q] = e /\ q # from => pdfFile'[q] = e
    BY <1>0, <1>1
  <2>h. Homes(e)' = Homes(e) BY <1>0, <1>1, <1>2 DEF Homes, Doing, d, from, to
  <2>i. Doing' = Doing BY <1>2 DEF Doing, d
  <2>1. CASE e = d
    <3>1. e \in trash' \/ \E q \in PdfPaths : pdfFile'[q] = e
      <4>1. CASE fileStep.does = "move"
        <5>1. pdfFile[from] = pdfFile[to] /\ to \in PdfPaths /\ from \in PdfPaths
          BY <4>1, <1>0, <1>6 DEF StepSound, StepAt, from, to, Doing
        <5>2. CASE e \in trash BY <5>2, <4>1, <1>1
        <5>3. CASE e \notin trash
          <6>1. pdf[e].state = "live" BY <2>1, <4>1, <1>0 DEF StepSound, d, Doing
          <6>2. PICK q \in PdfPaths : pdfFile[q] = e BY <6>1, <5>3, <2>0 DEF FilesSound
          <6>3. CASE q = from BY <6>2, <6>3, <5>1, <2>b, <1>6
          <6>4. CASE q # from BY <6>2, <6>4, <2>b
          <6> QED BY <6>3, <6>4
        <5> QED BY <5>2, <5>3
      <4>2. CASE fileStep.does = "delete"
        BY <4>2, <2>1, <1>0, <1>1 DEF StepSound, d, Doing
      <4>3. CASE fileStep.does = "restore"
        <5>1. to \in PdfPaths /\ pdfFile[to] = d
          BY <4>3, <1>0 DEF StepSound, StepAt, to, d, Doing, PathsSound
        <5> QED BY <5>1, <2>1, <2>b, <1>6
      <4> QED BY <4>1, <4>2, <4>3, <1>0 DEF StepSound, Idle, StepAt
    <3>2. Doing' = e BY <2>1, <2>i, <1>0
    <3> QED BY <3>1, <3>2, <2>a, <2>h, <2>0, <1>1 DEF FilesSound
  <2>2. CASE e # d
    <3>0. e \in trash' <=> e \in trash BY <2>2, <1>1
    <3>1. pdfFile[from] = e /\ from \in PdfPaths =>
             fileStep.does = "move" /\ pdfFile[to] = e /\ to \in PdfPaths /\ e \in moved
      <4>1. SUFFICES ASSUME pdfFile[from] = e, from \in PdfPaths
                     PROVE  fileStep.does = "move" /\ pdfFile[to] = e /\ to \in PdfPaths /\ e \in moved
        OBVIOUS
      <4>2. fileStep.does = "move" /\ pdfFile[to] = e /\ to \in PdfPaths
        BY <4>1, <2>2, <1>0 DEF StepSound, StepAt, from, to, d, Doing
      <4> QED BY <4>2, <2>2, <1>0, CarriedBytes DEF to, d
    <3>2. \A q \in PdfPaths : pdfFile[q] = e => pdfFile'[q] = e \/ (q = from /\ pdfFile'[to] = e /\ to \in PdfPaths)
      BY <3>1, <2>b, <1>6
    <3>3. e \notin moved => \A q \in PdfPaths : pdfFile[q] = e => pdfFile'[q] = e
      BY <3>1, <2>b
    <3>4. pdf[e].state = "live" => pdf[e].path \in PdfPaths BY <1>0 DEF PathsSound
    <3>5. Doing # e /\ Doing' # e BY <2>2, <2>i, <1>0
    <3>6. pdf[e].state # "none" => e \in trash' \/ \E q \in PdfPaths : pdfFile'[q] = e
      <4>1. ASSUME pdf[e].state # "none", e \notin trash' PROVE \E q \in PdfPaths : pdfFile'[q] = e
        <5>1. PICK q \in PdfPaths : pdfFile[q] = e BY <4>1, <3>0, <2>0 DEF FilesSound
        <5> QED BY <5>1, <3>2
      <4> QED BY <4>1
    <3> QED BY <3>0, <3>3, <3>4, <3>5, <3>6, <2>0, <2>a, <2>h, <1>1 DEF FilesSound
  <2> QED BY <2>1, <2>2
<1> QED BY <1>3, <1>4, <1>5, <1>7, <1>8 DEF PdfInv, PdfFileInv

-----------------------------------------------------------------------------

(* The end of an operation.                                                *)
LEMMA NoStepIsAStep == NoStep \in PdfSteps
BY DEF NoStep, PdfSteps, PlaceOf

LEMMA CommitKeepsPdfInv ==
    ASSUME PdfInv, CommitStep PROVE PdfInv'
<1> DEFINE d == fileStep.of
           from == fileStep.from
           to == fileStep.to
           entry == CommittedRow
<1>0. /\ PdfShape /\ PathsSound /\ StepSound /\ ~Idle /\ fileStep.at = "applied"
      /\ NoPdf \notin Pdfs /\ NoPdfPath \notin PdfPaths /\ d \in Pdfs /\ Doing = d
      /\ fileStep' = NoStep
  BY PdfAssumption DEF CommitStep, PdfStepEnds, PdfInv, PdfFileInv, StepSound, Idle, StepAt, Doing
<1>1. /\ pdf \in [Pdfs -> PdfRow] /\ pdf' = [pdf EXCEPT ![d] = entry] /\ pdf[d] \in PdfRow
      /\ UNCHANGED <<pdfFile, trash, extractor, moved>>
  BY <1>0 DEF PdfShape, CommitStep, Doing
<1> DEFINE Fits == /\ entry \in PdfRow /\ entry.state # "none" /\ entry.path \in PdfPaths
                   /\ entry.state = "live" =>
                        \A e \in Pdfs : e # d /\ pdf[e].state = "live" => pdf[e].path # entry.path
                   /\ \/ entry.extraction = pdf[d].extraction /\ (entry.pages <=> pdf[d].pages)
                      \/ pdf[d].state = "none" /\ entry.state = "live" /\ entry.extraction = "pending"
           Found == /\ d \in trash \/ \E q \in PdfPaths : pdfFile[q] = d
                    /\ d \notin moved =>
                         /\ \A q \in PdfPaths : pdfFile[q] = d => entry.state = "live" /\ q = entry.path
                         /\ entry.state = "live" => pdfFile[entry.path] = d
                         /\ d \in trash <=> entry.state = "deleted"
<1>o. ASSUME ~Owned(to), NEW e \in Pdfs, pdf[e].state = "live" PROVE pdf[e].path # to
  BY <1>o DEF Owned
<1>f. FilesSound(d) BY <1>0 DEF PdfInv, PdfFileInv
<1>g. pdf[d].state # "none" => d \in trash \/ \E q \in PdfPaths : pdfFile[q] = d
  BY <1>f DEF FilesSound
<1>h. d \notin moved => \A q \in PdfPaths : pdfFile[q] = d => q \in {from, to}
  BY <1>f, <1>0 DEF FilesSound, Homes
<1>2. ASSUME fileStep.does \in {"import", "adopt"} PROVE Fits /\ Found
  <2>1. /\ pdf[d].state = "none" /\ from = NoPdfPath
        /\ to \in PdfPaths /\ ~Owned(to) /\ pdfFile[to] = d
        /\ d \notin moved => d \notin trash
    BY <1>0, <1>2 DEF StepSound, Doing
  <2>2. entry = [state |-> "live", path |-> to, extraction |-> "pending", pages |-> FALSE]
    BY <1>2 DEF CommittedRow
  <2>3. entry.state = "live" /\ entry.path = to /\ entry.extraction = "pending" /\ entry \in PdfRow
    BY <2>1, <2>2 DEF PdfRow, PdfStates, Extractions
  <2> HIDE DEF d, from, to, entry
  <2>4. Fits BY <2>1, <2>3, <1>o
  <2>5. Found BY <2>1, <2>3, <1>h, <1>0
  <2> QED BY <2>4, <2>5
<1>3. ASSUME fileStep.does = "move" PROVE Fits /\ Found
  <2>1. /\ pdf[d].state = "live" /\ from = pdf[d].path
        /\ to \in PdfPaths /\ ~Owned(to)
        /\ pdfFile[from] = NoPdf
        /\ d \notin moved => d \notin trash /\ pdfFile[to] = d
    BY <1>0, <1>3 DEF StepSound, Doing, StepAt
  <2>2. entry = [pdf[d] EXCEPT !.path = to]
    BY <1>3, <1>0 DEF CommittedRow
  <2>3. /\ entry.state = "live" /\ entry.path = to /\ entry.extraction = pdf[d].extraction
        /\ (entry.pages <=> pdf[d].pages) /\ entry \in PdfRow
    BY <2>1, <2>2, <1>1 DEF PdfRow, PdfStates, Extractions
  <2> HIDE DEF d, from, to, entry
  <2>4. Fits BY <2>1, <2>3, <1>o
  <2>5. Found BY <2>1, <2>3, <1>h, <1>0, <1>g
  <2> QED BY <2>4, <2>5
<1>4. ASSUME fileStep.does = "rename" PROVE Fits /\ Found
  <2>1. /\ pdf[d].state = "live" /\ to \in PdfPaths /\ ~Owned(to) /\ d \in moved
    BY <1>0, <1>4 DEF StepSound, Doing, StepAt
  <2>2. entry = [pdf[d] EXCEPT !.path = to]
    BY <1>4, <1>0 DEF CommittedRow
  <2>3. /\ entry.state = "live" /\ entry.path = to /\ entry.extraction = pdf[d].extraction
        /\ (entry.pages <=> pdf[d].pages) /\ entry \in PdfRow
    BY <2>1, <2>2, <1>1 DEF PdfRow, PdfStates, Extractions
  <2> HIDE DEF d, from, to, entry
  <2>4. Fits BY <2>1, <2>3, <1>o
  <2>5. Found BY <2>1, <2>3, <1>h, <1>0, <1>g
  <2> QED BY <2>4, <2>5
<1>5. ASSUME fileStep.does = "delete" PROVE Fits /\ Found
  <2>1. /\ pdf[d].state = "live" /\ from = pdf[d].path /\ to = NoPdfPath
        /\ d \in trash /\ pdfFile[from] = NoPdf /\ from \in PdfPaths
    BY <1>0, <1>5 DEF StepSound, Doing, StepAt, PathsSound
  <2>2. entry = [pdf[d] EXCEPT !.state = "deleted"]
    BY <1>5, <1>0 DEF CommittedRow
  <2>3. /\ entry.state = "deleted" /\ entry.path = from /\ entry.extraction = pdf[d].extraction
        /\ (entry.pages <=> pdf[d].pages) /\ entry \in PdfRow
    BY <2>1, <2>2, <1>1 DEF PdfRow, PdfStates, Extractions
  <2> HIDE DEF d, from, to, entry
  <2>4. Fits BY <2>1, <2>3, <1>o
  <2>5. Found BY <2>1, <2>3, <1>h, <1>0, <1>g
  <2> QED BY <2>4, <2>5
<1>6. ASSUME fileStep.does = "restore" PROVE Fits /\ Found
  <2>1. /\ pdf[d].state = "deleted" /\ from = NoPdfPath /\ to = pdf[d].path
        /\ ~Owned(to) /\ pdfFile[to] = d /\ d \notin trash /\ to \in PdfPaths
    BY <1>0, <1>6 DEF StepSound, Doing, StepAt, PathsSound
  <2>2. entry = [pdf[d] EXCEPT !.state = "live"]
    BY <1>6, <1>0 DEF CommittedRow
  <2>3. /\ entry.state = "live" /\ entry.path = to /\ entry.extraction = pdf[d].extraction
        /\ (entry.pages <=> pdf[d].pages) /\ entry \in PdfRow
    BY <2>1, <2>2, <1>1 DEF PdfRow, PdfStates, Extractions
  <2> HIDE DEF d, from, to, entry
  <2>4. Fits BY <2>1, <2>3, <1>o
  <2>5. Found BY <2>1, <2>3, <1>h, <1>0, <1>g
  <2> QED BY <2>4, <2>5
<1>7. Fits /\ Found
  BY <1>2, <1>3, <1>4, <1>5, <1>6, <1>0 DEF StepSound
<1>8. pdf'[d] = entry /\ d \in Pdfs /\ \A e \in Pdfs : e # d => pdf'[e] = pdf[e] BY <1>0, <1>1
<1>9. Doing # NoPdf /\ Doing' = NoPdf /\ fileStep' \in PdfSteps /\ Idle'
  BY <1>0, NoStepIsAStep DEF NoStep, Doing, Idle, StepAt
<1> HIDE DEF d, from, to, entry
<1>10. PdfShape'
  <2>1. entry \in PdfRow BY <1>7
  <2>2. pdf' \in [Pdfs -> PdfRow] BY <2>1, <1>1
  <2> QED BY <2>2, <1>9, <1>0, <1>1 DEF PdfShape
<1>11. PathsSound'
  <2>1. ASSUME NEW e \in Pdfs, pdf'[e].state # "none" PROVE pdf'[e].path \in PdfPaths
    BY <2>1, <1>8, <1>7, <1>0 DEF PathsSound
  <2>2. ASSUME NEW a \in Pdfs, NEW b \in Pdfs, pdf'[a].state = "live", pdf'[b].state = "live",
               pdf'[a].path = pdf'[b].path
        PROVE  a = b
    <3>1. CASE a # d /\ b # d BY <3>1, <2>2, <1>8, <1>0 DEF PathsSound
    <3>2. CASE a = d /\ b # d
      <4>1. pdf'[a] = entry /\ pdf'[b] = pdf[b] BY <3>2, <1>8
      <4> QED BY <4>1, <3>2, <2>2, <1>7
    <3>3. CASE a # d /\ b = d
      <4>1. pdf'[b] = entry /\ pdf'[a] = pdf[a] BY <3>3, <1>8
      <4> QED BY <4>1, <3>3, <2>2, <1>7
    <3> QED BY <3>1, <3>2, <3>3
  <2> QED BY <2>1, <2>2 DEF PathsSound
<1>12. StepSound' BY <1>9, <1>0 DEF StepSound
<1>13. ASSUME NEW e \in Pdfs PROVE FilesSound(e)'
  <2>1. CASE e = d
    <3>1. Homes(e)' = IF entry.state = "live" THEN {entry.path} ELSE {}
      BY <2>1, <1>8, <1>9, <1>0 DEF Homes
    <3> QED BY <2>1, <3>1, <1>7, <1>8, <1>1 DEF FilesSound
  <2>2. CASE e # d
    <3>0. FilesSound(e) BY DEF PdfInv, PdfFileInv
    <3>1. pdf'[e] = pdf[e] /\ Doing # e /\ Doing' # e BY <2>2, <1>8, <1>9, <1>0
    <3>2. Homes(e)' = Homes(e) BY <3>1 DEF Homes
    <3> QED BY <3>0, <3>1, <3>2, <1>1 DEF FilesSound
  <2> QED BY <2>1, <2>2
<1>14. ClaimInv'
  <2>1. ASSUME NEW e \in Pdfs
        PROVE  \/ /\ pdf'[e].extraction = pdf[e].extraction
                  /\ pdf'[e].pages = pdf[e].pages
                  /\ pdf'[e].state = "none" => pdf[e].state = "none"
               \/ /\ pdf[e].state = "none" /\ pdf'[e].state = "live"
                  /\ pdf'[e].extraction = "pending"
    <3>1. CASE e = d
      <4>1. entry \in PdfRow /\ pdf[d] \in PdfRow BY <1>7, <1>1
      <4>2. entry.pages \in BOOLEAN /\ pdf[d].pages \in BOOLEAN BY <4>1 DEF PdfRow
      <4> QED BY <3>1, <4>2, <1>7, <1>8
    <3>2. CASE e # d BY <3>2, <1>8
    <3> QED BY <3>1, <3>2
  <2> QED BY <2>1, <1>1, FilesKeepClaims
<1> QED BY <1>10, <1>11, <1>12, <1>13, <1>14 DEF PdfInv, PdfFileInv

(* A failure before the commit: the files go back, or the document is left *)
(* halfway.                                                                *)
LEMMA UndoKeepsPdfInv ==
    ASSUME PdfInv, UndoStep PROVE PdfInv'
<1> DEFINE d == fileStep.of
           from == fileStep.from
           to == fileStep.to
<1>0. /\ PdfShape /\ PathsSound /\ StepSound /\ ~Idle /\ fileStep.at = "applied"
      /\ NoPdf \notin Pdfs /\ NoPdfPath \notin PdfPaths /\ d \in Pdfs /\ Doing = d
      /\ fileStep' = NoStep
  BY PdfAssumption DEF UndoStep, PdfStepEnds, PdfInv, PdfFileInv, StepSound, Idle, StepAt, Doing
<1>1. /\ pdfFile \in [PdfPaths -> Pdfs \cup {NoPdf}] /\ pdfFile' = UndoneFiles
      /\ UNCHANGED <<pdf, extractor, moved>> /\ trash \subseteq Pdfs
      /\ fileStep.does = "restore" => trash' = trash \cup {d}
      /\ fileStep.does = "delete" => trash' = trash \ {d}
      /\ fileStep.does \notin {"restore", "delete"} => trash' = trash
  BY <1>0 DEF PdfShape, UndoStep, Doing
<1>f. FilesSound(d) BY <1>0 DEF PdfInv, PdfFileInv
<1>g. pdf[d].state # "none" => d \in trash \/ \E q \in PdfPaths : pdfFile[q] = d
  BY <1>f DEF FilesSound
<1>h. d \notin moved => \A q \in PdfPaths : pdfFile[q] = d => q \in {from, to}
  BY <1>f, <1>0 DEF FilesSound, Homes
<1> DEFINE Back == /\ pdf[d].state # "none" => d \in trash' \/ \E q \in PdfPaths : pdfFile'[q] = d
                   /\ d \notin moved =>
                        /\ \A q \in PdfPaths :
                             pdfFile'[q] = d => pdf[d].state = "live" /\ q = pdf[d].path
                        /\ pdf[d].state = "live" => pdfFile'[pdf[d].path] = d
                        /\ d \in trash' <=> pdf[d].state = "deleted"
           Others == \A e \in Pdfs : e # d =>
                        /\ e \notin moved => \A q \in PdfPaths : pdfFile'[q] = e <=> pdfFile[q] = e
                        /\ \A q \in PdfPaths :
                             pdfFile[q] = e => \E r \in PdfPaths : pdfFile'[r] = e
           Undone == Back /\ Others /\ pdfFile' \in [PdfPaths -> Pdfs \cup {NoPdf}]
<1>2. ASSUME fileStep.does = "adopt" \/ fileStep.does = "rename" PROVE Undone
  <2>1. d \in moved BY <1>0, <1>2 DEF StepSound, Doing
  <2>2. pdfFile' = pdfFile /\ trash' = trash BY <1>1, <1>2 DEF UndoneFiles
  <2> HIDE DEF d, from, to
  <2> QED BY <2>1, <2>2, <1>g, <1>1
<1>3. ASSUME fileStep.does = "import" PROVE Undone
  <2>1. /\ pdf[d].state = "none" /\ from = NoPdfPath /\ to \in PdfPaths /\ pdfFile[to] = d
        /\ d \notin moved => d \notin trash
    BY <1>0, <1>3 DEF StepSound, Doing
  <2>2. pdfFile' = [pdfFile EXCEPT ![to] = NoPdf] BY <1>1, <1>3 DEF UndoneFiles
  <2>3. trash' = trash BY <1>1, <1>3
  <2> HIDE DEF d, from, to
  <2>4. Back BY <2>1, <2>2, <2>3, <1>h, <1>0, <1>1
  <2>5. Others BY <2>1, <2>2, <1>0, <1>1
  <2> QED BY <2>2, <2>4, <2>5, <1>1
<1>4. ASSUME fileStep.does = "move" PROVE Undone
  <2>1. /\ pdf[d].state = "live" /\ from = pdf[d].path /\ from \in PdfPaths
        /\ to \in PdfPaths /\ ~Owned(to) /\ pdfFile[to] # NoPdf
        /\ pdfFile[from] = NoPdf
        /\ d \notin moved => d \notin trash /\ pdfFile[to] = d
    BY <1>0, <1>4 DEF StepSound, Doing, StepAt, PathsSound
  <2>2. pdfFile' = [pdfFile EXCEPT ![to] = NoPdf, ![from] = pdfFile[to]]
    BY <1>1, <1>4 DEF UndoneFiles
  <2>3. trash' = trash BY <1>1, <1>4
  <2>6. ASSUME NEW e \in Pdfs, e # d, pdfFile[to] = e PROVE e \in moved
    BY <2>6, <1>4, <1>0, CarriedBytes
  <2> HIDE DEF d, from, to
  <2>7. /\ pdfFile' \in [PdfPaths -> Pdfs \cup {NoPdf}] /\ from # to
        /\ pdfFile'[to] = NoPdf /\ pdfFile'[from] = pdfFile[to]
        /\ \A q \in PdfPaths \ {from, to} : pdfFile'[q] = pdfFile[q]
    BY <2>1, <2>2, <1>1
  <2>4. Back
    <3>1. d \in trash' \/ \E q \in PdfPaths : pdfFile'[q] = d
      <4>1. CASE d \in trash BY <4>1, <2>3
      <4>2. CASE d \notin trash
        <5>1. PICK q \in PdfPaths : pdfFile[q] = d BY <4>2, <1>g, <2>1
        <5>2. q # from BY <5>1, <2>1, <1>0
        <5> QED BY <5>1, <5>2, <2>7, <2>1
      <4> QED BY <4>1, <4>2
    <3> QED BY <3>1, <2>1, <2>3, <2>7, <1>h, <1>0
  <2>5. Others
    <3>1. ASSUME NEW e \in Pdfs, e # d, e \notin moved, NEW q \in PdfPaths
          PROVE  pdfFile'[q] = e <=> pdfFile[q] = e
      <4>1. pdfFile[to] # e BY <3>1, <2>6
      <4> QED BY <4>1, <2>1, <2>7, <1>0
    <3>2. ASSUME NEW e \in Pdfs, e # d, NEW q \in PdfPaths, pdfFile[q] = e
          PROVE  \E r \in PdfPaths : pdfFile'[r] = e
      <4>1. q # from BY <3>2, <2>1, <1>0
      <4> QED BY <4>1, <3>2, <2>7, <2>1
    <3> QED BY <3>1, <3>2
  <2> QED BY <2>7, <2>4, <2>5
<1>5. ASSUME fileStep.does = "delete" PROVE Undone
  <2>1. /\ pdf[d].state = "live" /\ from = pdf[d].path /\ to = NoPdfPath
        /\ pdfFile[from] = NoPdf /\ from \in PdfPaths
    BY <1>0, <1>5 DEF StepSound, Doing, StepAt, PathsSound
  <2>2. pdfFile' = [pdfFile EXCEPT ![from] = d] BY <1>1, <1>5 DEF UndoneFiles, Doing
  <2>3. trash' = trash \ {d} BY <1>1, <1>5
  <2> HIDE DEF d, from, to
  <2>4. Back BY <2>1, <2>2, <2>3, <1>h, <1>0, <1>1
  <2>5. Others BY <2>1, <2>2, <1>0, <1>1
  <2>6. d \in Pdfs BY <1>0
  <2>7. pdfFile' \in [PdfPaths -> Pdfs \cup {NoPdf}] BY <2>2, <2>6, <1>1
  <2> QED BY <2>4, <2>5, <2>7
<1>6. ASSUME fileStep.does = "restore" PROVE Undone
  <2>1. /\ pdf[d].state = "deleted" /\ from = NoPdfPath /\ to = pdf[d].path
        /\ pdfFile[to] = d /\ to \in PdfPaths
    BY <1>0, <1>6 DEF StepSound, Doing, StepAt, PathsSound
  <2>2. pdfFile' = [pdfFile EXCEPT ![to] = NoPdf] BY <1>1, <1>6 DEF UndoneFiles, Doing
  <2>3. trash' = trash \cup {d} BY <1>1, <1>6
  <2> HIDE DEF d, from, to
  <2>4. Back BY <2>1, <2>2, <2>3, <1>h, <1>0, <1>1
  <2>5. Others BY <2>1, <2>2, <1>0, <1>1
  <2> QED BY <2>2, <2>4, <2>5, <1>1
<1>7. Undone
  <2>1. fileStep.does \in {"import", "adopt", "move", "rename", "delete", "restore"}
    BY <1>0 DEF StepSound
  <2> QED BY <2>1, <1>2, <1>3, <1>4, <1>5, <1>6
<1>8. \A e \in Pdfs : e # d => (e \in trash' <=> e \in trash) BY <1>1
<1>9. Doing # NoPdf /\ Doing' = NoPdf /\ fileStep' \in PdfSteps /\ Idle'
  BY <1>0, NoStepIsAStep DEF NoStep, Doing, Idle, StepAt
<1>10. PdfShape'
  <2>1. trash' \subseteq Pdfs BY <1>1, <1>0
  <2> QED BY <2>1, <1>7, <1>9, <1>0, <1>1 DEF PdfShape
<1>11. PathsSound' BY <1>0, <1>1 DEF PathsSound
<1>12. StepSound' BY <1>9, <1>0 DEF StepSound
<1> HIDE DEF d, from, to
<1>13. ASSUME NEW e \in Pdfs PROVE FilesSound(e)'
  <2>1. CASE e = d
    <3>1. Homes(e)' = IF pdf[d].state = "live" THEN {pdf[d].path} ELSE {}
      BY <2>1, <1>1, <1>9, <1>0 DEF Homes
    <3> QED BY <2>1, <3>1, <1>7, <1>1 DEF FilesSound
  <2>2. CASE e # d
    <3>0. FilesSound(e) BY DEF PdfInv, PdfFileInv
    <3>1. Doing # e /\ Doing' # e BY <2>2, <1>9, <1>0
    <3>2. Homes(e)' = Homes(e) BY <3>1, <1>1 DEF Homes
    <3>3. pdf[e].state = "live" => pdf[e].path \in PdfPaths BY <1>0 DEF PathsSound
    <3> QED BY <2>2, <3>0, <3>1, <3>2, <3>3, <1>1, <1>7, <1>8 DEF FilesSound
  <2> QED BY <2>1, <2>2
<1>14. ClaimInv' BY <1>1, FilesOnlyKeepClaims
<1> QED BY <1>10, <1>11, <1>12, <1>13, <1>14 DEF PdfInv, PdfFileInv

LEMMA FailKeepsPdfInv ==
    ASSUME PdfInv, FailStep PROVE PdfInv'
<1>1. PdfShape'
  BY NoStepIsAStep DEF FailStep, LeaveHalfway, PdfStepEnds, PdfInv, PdfShape
<1>2. SameWhere BY DEF SameWhere, FailStep
<1>3. PdfFileInv' BY <1>1, <1>2, HalfwayKeepsFiles DEF FailStep
<1>4. ClaimInv' BY FilesOnlyKeepClaims DEF FailStep
<1> QED BY <1>1, <1>3, <1>4 DEF PdfInv

(* A restart forgets the operation under way and the claims; what it       *)
(* leaves halfway is in moved.                                             *)
LEMMA RestartKeepsPdfInv ==
    ASSUME PdfInv, Restart PROVE PdfInv'
<1>1. pdf \in [Pdfs -> PdfRow] BY DEF PdfInv, PdfShape
<1>2. ASSUME NEW d \in Pdfs
      PROVE  /\ pdf'[d] \in PdfRow
             /\ pdf'[d].state = pdf[d].state /\ pdf'[d].path = pdf[d].path
             /\ pdf'[d].pages = pdf[d].pages
             /\ pdf'[d].extraction =
                  IF pdf[d].extraction = "processing" THEN "pending" ELSE pdf[d].extraction
  <2>1. pdf[d] \in PdfRow BY <1>1
  <2>2. CASE pdf[d].extraction = "processing"
    <3>1. pdf'[d] = [pdf[d] EXCEPT !.extraction = "pending"] BY <2>2 DEF Restart
    <3> QED BY <2>1, <2>2, <3>1 DEF PdfRow, Extractions
  <2>3. CASE pdf[d].extraction # "processing"
    <3>1. pdf'[d] = pdf[d] BY <2>3 DEF Restart
    <3> QED BY <2>1, <2>3, <3>1
  <2> QED BY <2>2, <2>3
<1>3. PdfShape'
  <2>1. pdf' \in [Pdfs -> PdfRow] BY <1>2 DEF Restart
  <2>2. fileStep' \in PdfSteps
    BY NoStepIsAStep DEF Restart, LeaveHalfway, PdfStepEnds, PdfInv, PdfShape
  <2> QED BY <2>1, <2>2 DEF Restart, PdfInv, PdfShape
<1>4. SameWhere BY <1>2 DEF SameWhere
<1>5. PdfFileInv' BY <1>3, <1>4, HalfwayKeepsFiles DEF Restart
<1>6. ClaimInv'
  <2>1. \A w \in Workers : extractor'[w] = NoPdf BY DEF Restart
  <2>2. ASSUME NEW d \in Pdfs
        PROVE  /\ pdf'[d].extraction # "processing" /\ \A w \in Workers : extractor'[w] # d
               /\ pdf'[d].extraction = "ready" => pdf'[d].pages
               /\ pdf'[d].state = "none" => pdf'[d].extraction = "none"
    <3>1. /\ pdf[d].extraction = "ready" => pdf[d].pages
          /\ pdf[d].state = "none" => pdf[d].extraction = "none"
      BY DEF PdfInv, ClaimInv
    <3>2. d # NoPdf BY PdfAssumption
    <3> QED BY <1>2, <2>1, <3>1, <3>2
  <2> QED BY <2>1, <2>2 DEF ClaimInv
<1> QED BY <1>3, <1>5, <1>6 DEF PdfInv

-----------------------------------------------------------------------------

(* The extraction: a claim is one row that says processing and one worker  *)
(* that holds it.                                                          *)
LEMMA ClaimKeepsPdfInv ==
    ASSUME PdfInv, NEW d \in Pdfs, NEW w \in Workers, Claim(w, d) PROVE PdfInv'
<1>1. /\ pdf \in [Pdfs -> PdfRow] /\ extractor \in [Workers -> Pdfs \cup {NoPdf}] /\ ClaimInv
      /\ extractor[w] = NoPdf /\ pdf[d].extraction = "pending" /\ pdf[d].state # "none"
      /\ pdf' = [pdf EXCEPT ![d].extraction = "processing"]
      /\ extractor' = [extractor EXCEPT ![w] = d]
      /\ UNCHANGED <<pdfFile, trash, fileStep, moved>> /\ pdf[d] \in PdfRow
  BY DEF PdfInv, PdfShape, ClaimInv, Claim, Extraction
<1>2. PdfShape' /\ PdfFileInv'
  <2>1. "processing" \in Extractions BY DEF Extractions
  <2>2. extractor' \in [Workers -> Pdfs \cup {NoPdf}] BY <1>1
  <2>3. TRUE \in BOOLEAN OBVIOUS
  <2> QED BY <1>1, <2>1, <2>2, <2>3, ExtractionKeepsFiles
<1>3. /\ pdf'[d].extraction = "processing" /\ pdf'[d].state # "none"
      /\ \A e \in Pdfs : e # d => pdf'[e] = pdf[e]
  BY <1>1 DEF PdfRow
<1>4. \A v \in Workers : extractor[v] # d
  BY <1>1 DEF ClaimInv
<1>5. extractor'[w] = d /\ \A v \in Workers : v # w => extractor'[v] = extractor[v]
  BY <1>1
<1>6. \A v, u \in Workers : extractor'[v] # NoPdf /\ extractor'[v] = extractor'[u] => v = u
  BY <1>1, <1>4, <1>5 DEF ClaimInv
<1>7. ASSUME NEW e \in Pdfs
      PROVE  /\ pdf'[e].extraction = "processing" <=> \E v \in Workers : extractor'[v] = e
             /\ pdf'[e].extraction = "ready" => pdf'[e].pages
             /\ pdf'[e].state = "none" => pdf'[e].extraction = "none"
  <2>1. CASE e = d BY <2>1, <1>3, <1>5
  <2>2. CASE e # d
    <3>1. e # NoPdf BY PdfAssumption
    <3>2. (\E v \in Workers : extractor'[v] = e) <=> \E v \in Workers : extractor[v] = e
      BY <2>2, <3>1, <1>1, <1>5
    <3> QED BY <2>2, <3>2, <1>3, <1>1 DEF ClaimInv
  <2> QED BY <2>1, <2>2
<1> QED BY <1>2, <1>6, <1>7 DEF PdfInv, ClaimInv

(* A worker lets go of its document.                                       *)
LEMMA LeavingKeepsClaims ==
    ASSUME PdfInv, NEW w \in Workers, NEW d \in Pdfs, extractor[w] = d, ExtractorLeaves(w),
           \A e \in Pdfs : e # d => pdf'[e] = pdf[e],
           pdf'[d].extraction # "processing", pdf'[d].state = pdf[d].state,
           pdf'[d].extraction = "ready" => pdf'[d].pages
    PROVE  ClaimInv'
<1>1. /\ extractor \in [Workers -> Pdfs \cup {NoPdf}] /\ ClaimInv /\ d # NoPdf
      /\ extractor' = [extractor EXCEPT ![w] = NoPdf]
  BY PdfAssumption DEF PdfInv, PdfShape, ExtractorLeaves
<1>2. extractor'[w] = NoPdf /\ \A v \in Workers : v # w => extractor'[v] = extractor[v]
  BY <1>1
<1>3. \A v, u \in Workers : extractor'[v] # NoPdf /\ extractor'[v] = extractor'[u] => v = u
  BY <1>1, <1>2 DEF ClaimInv
<1>4. \A v \in Workers : extractor'[v] # d BY <1>1, <1>2 DEF ClaimInv
<1>5. pdf[d].state # "none" BY <1>1 DEF ClaimInv
<1>6. ASSUME NEW e \in Pdfs
      PROVE  /\ pdf'[e].extraction = "processing" <=> \E v \in Workers : extractor'[v] = e
             /\ pdf'[e].extraction = "ready" => pdf'[e].pages
             /\ pdf'[e].state = "none" => pdf'[e].extraction = "none"
  <2>1. CASE e = d BY <2>1, <1>4, <1>5
  <2>2. CASE e # d
    <3>1. e # NoPdf BY PdfAssumption
    <3>2. (\E v \in Workers : extractor'[v] = e) <=> \E v \in Workers : extractor[v] = e
      BY <2>2, <3>1, <1>1, <1>2
    <3> QED BY <2>2, <3>2, <1>1 DEF ClaimInv
  <2> QED BY <2>1, <2>2
<1> QED BY <1>3, <1>6 DEF ClaimInv

LEMMA StorePagesKeepsPdfInv ==
    ASSUME PdfInv, NEW w \in Workers, StorePages(w) PROVE PdfInv'
<1> DEFINE d == extractor[w]
           status == IF pdf[d].extraction = "processing" THEN "ready" ELSE pdf[d].extraction
<1>1. /\ pdf \in [Pdfs -> PdfRow] /\ extractor \in [Workers -> Pdfs \cup {NoPdf}] /\ ClaimInv
      /\ d \in Pdfs /\ pdf[d] \in PdfRow
      /\ pdf' = [pdf EXCEPT ![d].extraction = status, ![d].pages = TRUE]
      /\ ExtractorLeaves(w) /\ extractor' = [extractor EXCEPT ![w] = NoPdf]
      /\ UNCHANGED <<pdfFile, trash, fileStep, moved>>
  BY DEF PdfInv, PdfShape, StorePages, ExtractorLeaves
<1>2. pdf[d].extraction = "processing" BY <1>1 DEF ClaimInv
<1>3. status = "ready" /\ "ready" \in Extractions BY <1>2 DEF Extractions
<1>4. extractor[w] = d OBVIOUS
<1> HIDE DEF d, status
<1>5. PdfShape' /\ PdfFileInv'
  <2>1. extractor' \in [Workers -> Pdfs \cup {NoPdf}] BY <1>1
  <2>2. TRUE \in BOOLEAN OBVIOUS
  <2> QED BY <1>1, <1>3, <2>1, <2>2, ExtractionKeepsFiles
<1>6. /\ pdf'[d].extraction = "ready" /\ pdf'[d].state = pdf[d].state /\ pdf'[d].pages
      /\ \A e \in Pdfs : e # d => pdf'[e] = pdf[e]
  BY <1>1, <1>3 DEF PdfRow
<1>7. ClaimInv' BY <1>1, <1>4, <1>6, LeavingKeepsClaims
<1> QED BY <1>5, <1>7 DEF PdfInv

LEMMA EndKeepsPdfInv ==
    ASSUME PdfInv, NEW w \in Workers, NEW status \in {"failed", "pending"},
           EndExtraction(w, status)
    PROVE  PdfInv'
<1> DEFINE d == extractor[w]
<1>1. /\ pdf \in [Pdfs -> PdfRow] /\ extractor \in [Workers -> Pdfs \cup {NoPdf}] /\ ClaimInv
      /\ d \in Pdfs /\ pdf[d] \in PdfRow
      /\ pdf[d].extraction = "processing" => pdf' = [pdf EXCEPT ![d].extraction = status]
      /\ ExtractorLeaves(w) /\ extractor' = [extractor EXCEPT ![w] = NoPdf]
      /\ UNCHANGED <<pdfFile, trash, fileStep, moved>>
  BY DEF PdfInv, PdfShape, EndExtraction, ExtractorLeaves, Extraction
<1>2. pdf[d].extraction = "processing" BY <1>1 DEF ClaimInv
<1>3. status \in Extractions BY DEF Extractions
<1>4. extractor[w] = d OBVIOUS
<1> HIDE DEF d
<1>5. PdfShape' /\ PdfFileInv'
  <2>1. extractor' \in [Workers -> Pdfs \cup {NoPdf}] BY <1>1
  <2>2. TRUE \in BOOLEAN OBVIOUS
  <2> QED BY <1>1, <1>2, <1>3, <2>1, <2>2, ExtractionKeepsFiles
<1>6. /\ pdf'[d].extraction = status /\ pdf'[d].state = pdf[d].state
      /\ \A e \in Pdfs : e # d => pdf'[e] = pdf[e]
  BY <1>1, <1>2 DEF PdfRow
<1>7. status # "processing" /\ status # "ready" OBVIOUS
<1>8. ClaimInv' BY <1>1, <1>4, <1>6, <1>7, LeavingKeepsClaims
<1> QED BY <1>5, <1>8 DEF PdfInv

LEMMA RetryKeepsPdfInv ==
    ASSUME PdfInv, NEW d \in Pdfs, RetryExtraction(d) PROVE PdfInv'
<1>1. /\ pdf \in [Pdfs -> PdfRow] /\ extractor \in [Workers -> Pdfs \cup {NoPdf}] /\ ClaimInv
      /\ pdf[d].extraction \in {"ready", "failed"} /\ pdf[d].state = "live"
      /\ pdf' = [pdf EXCEPT ![d].extraction = "pending"]
      /\ UNCHANGED <<pdfFile, trash, fileStep, extractor, moved>> /\ pdf[d] \in PdfRow
  BY DEF PdfInv, PdfShape, RetryExtraction, Extraction
<1>2. PdfShape' /\ PdfFileInv'
  <2>1. "pending" \in Extractions BY DEF Extractions
  <2>2. extractor' \in [Workers -> Pdfs \cup {NoPdf}] BY <1>1
  <2>3. TRUE \in BOOLEAN OBVIOUS
  <2> QED BY <1>1, <2>1, <2>2, <2>3, ExtractionKeepsFiles
<1>3. /\ pdf'[d].extraction = "pending" /\ pdf'[d].state = "live"
      /\ \A e \in Pdfs : e # d => pdf'[e] = pdf[e]
  BY <1>1 DEF PdfRow
<1>4. ASSUME NEW e \in Pdfs
      PROVE  /\ pdf'[e].extraction = "processing" <=> \E v \in Workers : extractor'[v] = e
             /\ pdf'[e].extraction = "ready" => pdf'[e].pages
             /\ pdf'[e].state = "none" => pdf'[e].extraction = "none"
  <2>1. CASE e = d BY <2>1, <1>1, <1>3 DEF ClaimInv
  <2>2. CASE e # d BY <2>2, <1>1, <1>3 DEF ClaimInv
  <2> QED BY <2>1, <2>2
<1>5. \A v, u \in Workers : extractor'[v] # NoPdf /\ extractor'[v] = extractor'[u] => v = u
  BY <1>1 DEF ClaimInv
<1> QED BY <1>2, <1>4, <1>5 DEF PdfInv, ClaimInv

-----------------------------------------------------------------------------

LEMMA PdfInvInitially == PdfInit => PdfInv
<1> SUFFICES ASSUME PdfInit PROVE PdfInv OBVIOUS
<1>1. /\ NoPdfRow \in PdfRow /\ NoPdfRow.state = "none" /\ NoPdfRow.extraction = "none"
      /\ NoPdfRow.pages = FALSE
  BY DEF NoPdfRow, PdfRow, PdfStates, Extractions
<1>2. /\ \A d \in Pdfs : pdf[d] = NoPdfRow /\ d # NoPdf
      /\ \A p \in PdfPaths : pdfFile[p] = NoPdf
      /\ \A w \in Workers : extractor[w] = NoPdf
      /\ trash = {} /\ fileStep = NoStep /\ moved = {}
  BY PdfAssumption DEF PdfInit
<1>3. PdfShape BY <1>1, NoStepIsAStep DEF PdfInit, PdfShape
<1>4. PathsSound BY <1>1, <1>2 DEF PathsSound
<1>5. StepSound BY <1>2 DEF StepSound, Idle, StepAt, NoStep
<1>6. ASSUME NEW d \in Pdfs PROVE FilesSound(d)
  <2>1. pdf[d].state = "none" /\ d # NoPdf BY <1>1, <1>2
  <2> QED BY <2>1, <1>2 DEF FilesSound
<1>7. ClaimInv BY <1>1, <1>2 DEF ClaimInv
<1> QED BY <1>3, <1>4, <1>5, <1>6, <1>7 DEF PdfInv, PdfFileInv

(* Every step keeps the invariant.                                         *)
LEMMA PdfInvInductive == PdfInv /\ [PdfNext]_pdfVars => PdfInv'
<1> SUFFICES ASSUME PdfInv, [PdfNext]_pdfVars PROVE PdfInv' OBVIOUS
<1>1. ASSUME NEW d \in Pdfs, NEW p \in PdfPaths, ImportFile(d, p) PROVE PdfInv'
  BY <1>1, ImportKeepsPdfInv
<1>2. ASSUME NEW d \in Pdfs, NEW p \in PdfPaths, LinkMove(d, p) PROVE PdfInv'
  BY <1>2, LinkMoveKeepsPdfInv
<1>3. ASSUME NEW d \in Pdfs, RetainCopy(d) PROVE PdfInv' BY <1>3, RetainKeepsPdfInv
<1>4. ASSUME NEW d \in Pdfs, LinkRestored(d) PROVE PdfInv' BY <1>4, RestoreKeepsPdfInv
<1>5. ASSUME NEW d \in Pdfs, RetryExtraction(d) PROVE PdfInv' BY <1>5, RetryKeepsPdfInv
<1>6. ASSUME NEW d \in Pdfs, NEW w \in Workers, Claim(w, d) PROVE PdfInv'
  BY <1>6, ClaimKeepsPdfInv
<1>7. ASSUME UnlinkOld PROVE PdfInv' BY <1>7, UnlinkKeepsPdfInv
<1>8. ASSUME CommitStep PROVE PdfInv' BY <1>8, CommitKeepsPdfInv
<1>9. ASSUME UndoStep PROVE PdfInv' BY <1>9, UndoKeepsPdfInv
<1>10. ASSUME FailStep PROVE PdfInv' BY <1>10, FailKeepsPdfInv
<1>11. ASSUME Restart PROVE PdfInv' BY <1>11, RestartKeepsPdfInv
<1>12. ASSUME NEW w \in Workers, StorePages(w) PROVE PdfInv' BY <1>12, StorePagesKeepsPdfInv
<1>13. ASSUME NEW w \in Workers, EndExtraction(w, "failed") PROVE PdfInv'
  BY <1>13, EndKeepsPdfInv
<1>14. ASSUME NEW w \in Workers, EndExtraction(w, "pending") PROVE PdfInv'
  BY <1>14, EndKeepsPdfInv
<1>15. ASSUME UNCHANGED pdfVars PROVE PdfInv'
  <2>1. PdfShape' BY <1>15 DEF pdfVars, PdfInv, PdfShape
  <2>2. SameWhere BY <1>15 DEF pdfVars, SameWhere
  <2>3. PdfFileInv' BY <1>15, <2>1, <2>2, HalfwayKeepsFiles DEF pdfVars
  <2>4. ClaimInv' BY <1>15, FilesOnlyKeepClaims DEF pdfVars
  <2> QED BY <2>1, <2>3, <2>4 DEF PdfInv
<1> QED
  BY <1>1, <1>2, <1>3, <1>4, <1>5, <1>6, <1>7, <1>8, <1>9, <1>10, <1>11, <1>12, <1>13, <1>14,
     <1>15 DEF PdfNext

(* And it says what the property says: a claimed row has its one worker.   *)
LEMMA PdfInvSurvives == PdfInv => PdfsSurvive
<1> SUFFICES ASSUME PdfInv PROVE PdfsSurvive OBVIOUS
<1>1. BytesSurvive
  <2>1. ASSUME NEW d \in Pdfs, pdf[d].state # "none"
        PROVE  /\ d \in trash \/ \E p \in PdfPaths : pdfFile[p] = d
               /\ d \notin moved /\ Doing # d =>
                    IF pdf[d].state = "live" THEN Intact(d) /\ d \notin trash
                    ELSE d \in trash /\ \A p \in PdfPaths : pdfFile[p] # d
    <3>1. FilesSound(d) /\ PathsSound /\ pdf[d] \in PdfRow BY DEF PdfInv, PdfFileInv, PdfShape
    <3>2. pdf[d].state \in {"live", "deleted"} BY <2>1, <3>1 DEF PdfRow, PdfStates
    <3>3. pdf[d].path \in PdfPaths /\ pdf[d].path # NoPdfPath
      BY <2>1, <3>1, PdfAssumption DEF PathsSound
    <3> QED BY <2>1, <3>1, <3>2, <3>3 DEF FilesSound, Homes, Intact
  <2> QED BY <2>1 DEF BytesSurvive
<1>2. ClaimIsExclusive
  <2>1. ASSUME NEW d \in Pdfs PROVE Cardinality({w \in Workers : extractor[w] = d}) <= 1
    <3> DEFINE claimants == {w \in Workers : extractor[w] = d}
    <3>1. d # NoPdf BY PdfAssumption
    <3>2. \A v, w \in claimants : v = w BY <3>1 DEF PdfInv, ClaimInv
    <3>3. CASE claimants = {} BY <3>3, FS_EmptySet
    <3>4. CASE claimants # {}
      <4>1. PICK w : claimants = {w} BY <3>2, <3>4
      <4>2. Cardinality(claimants) = 1 BY <4>1, FS_Singleton
      <4> QED BY <4>2
    <3> QED BY <3>3, <3>4
  <2> QED BY <2>1 DEF ClaimIsExclusive, PdfInv, ClaimInv
<1> QED BY <1>1, <1>2 DEF PdfsSurvive

(* Whatever operation fails or is cut off at any of its steps, and whoever *)
(* extracts meanwhile: no document loses its last file, and no two workers *)
(* extract one document.                                                   *)
THEOREM PdfsAlwaysSurvive == PdfSpec => []PdfsSurvive
<1>1. PdfSpec => []PdfInv BY PdfInvInitially, PdfInvInductive, PTL DEF PdfSpec
<1> QED BY <1>1, PdfInvSurvives, PTL

-----------------------------------------------------------------------------
(* Backups                                                                 *)

BackupPlaces == {"reserved", "found", "whole", "to make", "staging", "verifying",
                 "published", "made"}
SetStates == {"none", "published", "verified"}
BackupCall == [at : BackupPlaces \cup {"away"}, key : BackupKeys \cup {Nobody}, name : Nat,
               completed : BOOLEAN]

BackupShape ==
    /\ set \in [Names -> SetStates]
    /\ key \in [BackupKeys -> [name : 0 .. MaxNames, completed : BOOLEAN]]
    /\ call \in [BackupCallers -> BackupCall]

(* A call works on the name its key was given, and nothing takes a name    *)
(* from a key; "verified" and "whole" are only said of what was verified.  *)
CallSound(c) ==
    call[c].at # "away" =>
        /\ call[c].key \in BackupKeys
        /\ call[c].name = key[call[c].key].name /\ call[c].name \in Names
        /\ call[c].at = "whole" => call[c].name \in proven

BackupInv ==
    /\ BackupShape
    /\ \A n \in Names : set[n] = "verified" => n \in proven
    /\ \A c \in BackupCallers : CallSound(c)
    /\ \A k \in BackupKeys : key[k].completed => key[k].name # 0
    /\ AnsweredIsVerified

LEMMA BackupInitInv == BackupInit => BackupInv
<1> SUFFICES ASSUME BackupInit PROVE BackupInv
  OBVIOUS
<1>1. UnusedKey \in [name : 0 .. MaxNames, completed : BOOLEAN] /\ ~UnusedKey.completed
  BY BackupAssumption DEF UnusedKey
<1>2. NoBackupCall \in BackupCall /\ NoBackupCall.at = "away"
  BY DEF NoBackupCall, BackupCall
<1>3. BackupShape
  BY <1>1, <1>2 DEF BackupInit, BackupShape, SetStates
<1> QED
  BY <1>1, <1>2, <1>3 DEF BackupInit, BackupInv, CallSound, AnsweredIsVerified

(* A step that gives no key a name and completes none.                     *)
LEMMA BackupStepKeepsInv ==
    ASSUME BackupInv, UNCHANGED key,
           set' \in [Names -> SetStates], proven \subseteq proven',
           \A n \in Names : set'[n] = "verified" => n \in proven',
           NEW c \in BackupCallers,
           \/ UNCHANGED call
           \/ BackupEnds(c)
           \/ \E place \in BackupPlaces :
                /\ BackupGoes(c, place) /\ call[c].at # "away"
                /\ place = "whole" => Name(c) \in proven'
    PROVE  BackupInv'
<1>1. call[c] \in BackupCall
  BY DEF BackupInv, BackupShape
<1>2. \A d \in BackupCallers : CallSound(d)
  BY DEF BackupInv
<1>3. AnsweredIsVerified'
  BY DEF BackupInv, AnsweredIsVerified
<1>4. CASE UNCHANGED call
  BY <1>2, <1>3, <1>4 DEF BackupInv, BackupShape, CallSound
<1>5. CASE BackupEnds(c)
  <2>1. NoBackupCall \in BackupCall /\ NoBackupCall.at = "away"
    BY DEF NoBackupCall, BackupCall
  <2>2. BackupShape'
    BY <1>5, <2>1 DEF BackupInv, BackupShape, BackupEnds
  <2>3. \A d \in BackupCallers : call'[d] = IF d = c THEN NoBackupCall ELSE call[d]
    BY <1>5 DEF BackupInv, BackupShape, BackupEnds
  <2> QED
    BY <1>2, <1>3, <2>1, <2>2, <2>3 DEF BackupInv, CallSound
<1>6. ASSUME NEW place \in BackupPlaces, BackupGoes(c, place), call[c].at # "away",
             place = "whole" => Name(c) \in proven'
      PROVE  BackupInv'
  <2> DEFINE next == [call[c] EXCEPT !.at = place]
  <2>1. /\ next \in BackupCall /\ next.at = place
        /\ next.key = call[c].key /\ next.name = call[c].name
    BY <1>1 DEF BackupCall
  <2>2. call' = [call EXCEPT ![c] = next]
    BY <1>6 DEF BackupGoes
  <2> HIDE DEF next
  <2>3. BackupShape'
    BY <2>1, <2>2 DEF BackupInv, BackupShape
  <2>4. \A d \in BackupCallers : call'[d] = IF d = c THEN next ELSE call[d]
    BY <2>2 DEF BackupInv, BackupShape
  <2>5. CallSound(c)'
    BY <1>2, <1>6, <2>1, <2>4 DEF CallSound, Name
  <2>6. \A d \in BackupCallers \ {c} : CallSound(d)'
    BY <1>2, <2>4 DEF CallSound
  <2> QED
    BY <1>3, <2>3, <2>5, <2>6 DEF BackupInv
<1> QED
  BY <1>4, <1>5, <1>6

(* A name that is given out is one of the names.                           *)
LEMMA NextNameIsNew ==
    ASSUME BackupShape, Cardinality(Given) < MaxNames
    PROVE  Cardinality(Given) + 1 \in Names
<1>1. Given \subseteq 1 .. MaxNames
  BY BackupAssumption DEF BackupShape, Given
<1>2. IsFiniteSet(1 .. MaxNames)
  BY BackupAssumption, FS_Interval
<1>3. Cardinality(Given) \in Nat
  BY <1>1, <1>2, FS_Subset, FS_CardinalityType
<1> QED
  BY <1>3, BackupAssumption DEF Names

(* A key gets a name no other key has, and keeps it through every retry.   *)
LEMMA ReserveNameKeepsInv ==
    ASSUME BackupInv, NEW c \in BackupCallers, NEW k \in BackupKeys, ReserveName(c, k)
    PROVE  BackupInv'
<1> DEFINE given == [key[k] EXCEPT !.name = Cardinality(Given) + 1]
           begun == [at |-> "reserved", key |-> k, name |-> key'[k].name,
                     completed |-> key[k].completed]
<1>1. key[k] \in [name : 0 .. MaxNames, completed : BOOLEAN]
  BY DEF BackupInv, BackupShape
<1>2. /\ key' \in [BackupKeys -> [name : 0 .. MaxNames, completed : BOOLEAN]]
      /\ key'[k].name \in Names
      /\ \A j \in BackupKeys : j # k \/ key[j].name # 0 => key'[j] = key[j]
      /\ key'[k].completed = key[k].completed
  <2>1. CASE key[k].name = 0
    <3>1. Cardinality(Given) + 1 \in Names
      BY <2>1, NextNameIsNew DEF BackupInv, ReserveName
    <3>2. /\ given \in [name : 0 .. MaxNames, completed : BOOLEAN]
          /\ given.name \in Names /\ given.completed = key[k].completed
      BY <1>1, <3>1, BackupAssumption DEF Names
    <3>3. key' = [key EXCEPT ![k] = given]
      BY <2>1 DEF ReserveName
    <3> HIDE DEF given
    <3>4. /\ key' \in [BackupKeys -> [name : 0 .. MaxNames, completed : BOOLEAN]]
          /\ \A j \in BackupKeys : key'[j] = IF j = k THEN given ELSE key[j]
      BY <3>2, <3>3 DEF BackupInv, BackupShape
    <3> QED
      BY <2>1, <3>2, <3>4
  <2>2. CASE key[k].name # 0
    BY <1>1, <2>2, BackupAssumption DEF ReserveName, BackupInv, BackupShape, Names
  <2> QED
    BY <2>1, <2>2
<1>3. /\ begun.at = "reserved" /\ begun.key = k /\ begun.name = key'[k].name
      /\ begun \in BackupCall
  BY <1>1, <1>2, BackupAssumption DEF BackupCall, BackupPlaces, Names
<1>4. call' = [call EXCEPT ![c] = begun]
  BY DEF ReserveName
<1> HIDE DEF begun
<1>5. /\ BackupShape'
      /\ \A d \in BackupCallers : call'[d] = IF d = c THEN begun ELSE call[d]
  BY <1>2, <1>3, <1>4 DEF ReserveName, BackupInv, BackupShape
<1>6. ASSUME NEW d \in BackupCallers PROVE CallSound(d)'
  <2>1. CASE d = c
    BY <1>2, <1>3, <1>5, <2>1 DEF CallSound
  <2>2. CASE d # c
    <3>1. CallSound(d)
      BY DEF BackupInv
    <3> QED
      BY <1>2, <1>5, <2>2, <3>1 DEF CallSound, Names, ReserveName
  <2> QED
    BY <2>1, <2>2
<1>7. ASSUME NEW j \in BackupKeys, key'[j].completed
      PROVE  key'[j].name \in proven' /\ key'[j].name # 0
  <2>1. key[j].completed
    BY <1>2, <1>7
  <2>2. key[j].name \in proven /\ key[j].name # 0
    BY <2>1 DEF BackupInv, AnsweredIsVerified
  <2> QED
    BY <1>2, <2>2 DEF ReserveName
<1> QED
  BY <1>5, <1>6, <1>7 DEF BackupInv, AnsweredIsVerified, ReserveName

(* A key is completed by a call that has verified the backup of its name,  *)
(* or found it verified.                                                   *)
LEMMA CompleteKeyKeepsInv ==
    ASSUME BackupInv, NEW c \in BackupCallers, CompleteKey(c)
    PROVE  BackupInv'
<1> DEFINE k == call[c].key
           done == [key[k] EXCEPT !.completed = TRUE]
<1>1. /\ k \in BackupKeys /\ key[k].name \in Names /\ key[k].name \in proven
      /\ key[k] \in [name : 0 .. MaxNames, completed : BOOLEAN]
  <2>1. CallSound(c)
    BY DEF BackupInv
  <2> QED
    BY <2>1 DEF CallSound, CompleteKey, BackupAt, BackupInv, BackupShape
<1>2. done \in [name : 0 .. MaxNames, completed : BOOLEAN] /\ done.name = key[k].name
  BY <1>1
<1>3. key' = [key EXCEPT ![k] = done]
  BY DEF CompleteKey
<1>4. NoBackupCall \in BackupCall /\ NoBackupCall.at = "away"
  BY DEF NoBackupCall, BackupCall
<1> HIDE DEF done, k
<1>5. /\ BackupShape'
      /\ \A j \in BackupKeys : key'[j] = IF j = k THEN done ELSE key[j]
      /\ \A d \in BackupCallers : call'[d] = IF d = c THEN NoBackupCall ELSE call[d]
  BY <1>1, <1>2, <1>3, <1>4 DEF CompleteKey, BackupEnds, BackupInv, BackupShape
<1>6. ASSUME NEW d \in BackupCallers PROVE CallSound(d)'
  <2>1. CallSound(d)
    BY DEF BackupInv
  <2> QED
    BY <1>1, <1>2, <1>4, <1>5, <2>1 DEF CallSound, CompleteKey
<1>7. ASSUME NEW j \in BackupKeys, key'[j].completed
      PROVE  key'[j].name \in proven' /\ key'[j].name # 0
  <2>1. CASE j = k
    BY <1>1, <1>2, <1>5, <2>1, BackupAssumption DEF CompleteKey, Names
  <2>2. CASE j # k
    <3>1. key'[j] = key[j]
      BY <1>5, <2>2
    <3>2. key[j].completed
      BY <1>7, <3>1
    <3>3. key[j].name \in proven /\ key[j].name # 0
      BY <3>2 DEF BackupInv, AnsweredIsVerified
    <3> QED
      BY <3>1, <3>3 DEF CompleteKey
  <2> QED
    BY <2>1, <2>2
<1> QED
  BY <1>5, <1>6, <1>7 DEF BackupInv, AnsweredIsVerified, CompleteKey

(* Every step keeps the invariant.                                         *)
LEMMA BackupNextKeepsInv == BackupInv /\ [BackupNext]_backupVars => BackupInv'
<1> SUFFICES ASSUME BackupInv, [BackupNext]_backupVars PROVE BackupInv'
  OBVIOUS
<1> USE DEF SetStates, BackupPlaces
<1>1. set \in [Names -> SetStates] /\ \A n \in Names : set[n] = "verified" => n \in proven
  BY DEF BackupInv, BackupShape
<1>2. ASSUME NEW c \in BackupCallers, NEW k \in BackupKeys, ReserveName(c, k) PROVE BackupInv'
  BY <1>2, ReserveNameKeepsInv
<1>3. ASSUME NEW c \in BackupCallers, Look(c) PROVE BackupInv'
  BY <1>1, <1>3, BackupStepKeepsInv DEF Look, BackupAt
<1>4. ASSUME NEW c \in BackupCallers, VerifyFound(c) PROVE BackupInv'
  <2>1. Name(c) \in Names
    BY <1>4 DEF BackupInv, CallSound, VerifyFound, BackupAt, Name
  <2>2. CASE ~There(Name(c))
    BY <1>1, <1>4, <2>2, BackupStepKeepsInv DEF VerifyFound, BackupAt
  <2>3. CASE There(Name(c)) /\ set[Name(c)] = "verified"
    BY <1>1, <1>4, <2>1, <2>3, BackupStepKeepsInv DEF VerifyFound, BackupAt
  <2>4. CASE There(Name(c)) /\ set[Name(c)] # "verified"
    BY <1>1, <1>4, <2>1, <2>4, BackupStepKeepsInv DEF VerifyFound, BackupAt
  <2> QED
    BY <2>2, <2>3, <2>4
<1>5. ASSUME NEW c \in BackupCallers, RefuseFound(c) PROVE BackupInv'
  BY <1>1, <1>5, BackupStepKeepsInv DEF RefuseFound
<1>6. ASSUME NEW c \in BackupCallers, CompleteKey(c) PROVE BackupInv'
  BY <1>6, CompleteKeyKeepsInv
<1>7. ASSUME NEW c \in BackupCallers, TakeLock(c) PROVE BackupInv'
  BY <1>1, <1>7, BackupStepKeepsInv DEF TakeLock, BackupAt
<1>8. ASSUME NEW c \in BackupCallers, PublishSet(c) PROVE BackupInv'
  BY <1>1, <1>8, BackupStepKeepsInv DEF PublishSet, BackupAt
<1>9. ASSUME NEW c \in BackupCallers, FailToMake(c) PROVE BackupInv'
  BY <1>1, <1>9, BackupStepKeepsInv DEF FailToMake
<1>10. ASSUME NEW c \in BackupCallers, Verify(c) PROVE BackupInv'
  BY <1>1, <1>10, BackupStepKeepsInv DEF Verify, BackupAt
<1>11. ASSUME NEW c \in BackupCallers, ApplyRetention(c) PROVE BackupInv'
  BY <1>1, <1>11, BackupStepKeepsInv DEF ApplyRetention, BackupAt
<1>12. ASSUME NEW c \in BackupCallers, ReturnExisting(c) PROVE BackupInv'
  BY <1>1, <1>12, BackupStepKeepsInv DEF ReturnExisting, BackupAt
<1>13. ASSUME NEW n \in Names, DeleteBackup(n) PROVE BackupInv'
  BY <1>1, <1>13 DEF DeleteBackup, BackupInv, BackupShape, CallSound, AnsweredIsVerified
<1>14. CASE BackupCrash
  <2>1. NoBackupCall \in BackupCall /\ NoBackupCall.at = "away"
    BY DEF NoBackupCall, BackupCall
  <2> QED
    BY <1>14, <2>1 DEF BackupCrash, BackupInv, BackupShape, CallSound, AnsweredIsVerified
<1>15. CASE UNCHANGED backupVars
  BY <1>15 DEF backupVars, BackupInv, BackupShape, CallSound, AnsweredIsVerified
<1> QED
  BY <1>2, <1>3, <1>4, <1>5, <1>6, <1>7, <1>8, <1>9, <1>10, <1>11, <1>12, <1>13, <1>14, <1>15
  DEF BackupNext

(* However attempts, crashes, deletions and the retention interleave, a    *)
(* key that is answered stands for a backup that was verified.             *)
THEOREM AnsweredBackupsAreVerified == BackupSpec => []AnsweredIsVerified
<1>1. BackupInv => AnsweredIsVerified
  BY DEF BackupInv
<1> QED
  BY <1>1, BackupInitInv, BackupNextKeepsInv, PTL DEF BackupSpec

-----------------------------------------------------------------------------
(* Reconciliation                                                          *)

StoreRow == [head : Nat, path : Paths \cup {Nothing},
             state : {"none", "pending", "clean", "conflict"},
             deleted : BOOLEAN, version : Nat]

StoreJob == [stage : {"idle", "waiting", "locked", "committed", "written", "marked"},
             key : Keys \cup {Nothing}, request : StoreRequest \cup {Nothing},
             doc : Docs \cup {Nothing}, paths : SUBSET Paths,
             target : Paths \cup {Nothing}, revision : Nat,
             stale : Paths \cup {Nothing}]

Directories == [Paths -> Contents \cup {Nothing}]

(* What a job carries: a request has its key, its content and its document *)
(* when the code needs them, and a repair the path it is to write.         *)
JobCarries(j) ==
    /\ j.stage = "idle" => j = Store!Idle
    /\ j.stage # "idle" =>
         /\ j.request \in StoreRequest
         /\ j.request.op = "create" => j.request.content \in Contents
         /\ j.request.op # "create" => j.doc \in Docs /\ row[j.doc].head # 0
         /\ j.request.op # "repair" => j.key \in Keys
         /\ j.request.op = "repair" => j.request.path \in Paths
    /\ j.stage \in {"locked", "committed", "written", "marked"} => j.doc \in Docs
    /\ j.stage \in {"committed", "written", "marked"} => j.revision \in 1 .. Len(revisions)

HistoryBacks ==
    /\ \A d \in Docs : row[d].head <= Len(revisions)
    /\ \A k \in Keys : keys[k] # Store!Unbound => keys[k].revision \in 1 .. Len(revisions)

StoreSound ==
    /\ row \in [Docs -> StoreRow]
    /\ revisions \in Seq(Store!Revisions)
    /\ keys \in [Keys -> [request : StoreRequest \cup {Nothing}, revision : Nat]]
    /\ disk \in Directories
    /\ job \in [Clients -> StoreJob]
    /\ HistoryBacks
    /\ \A c \in Clients : JobCarries(job[c])

OneRowPerPath ==
    \A d, e \in Docs : row[d].path # Nothing /\ row[d].path = row[e].path => d = e

-----------------------------------------------------------------------------
Entries == [doc : Docs, path : Paths, content : Contents]

Scans == [stage : {"idle", "recover", "listed", "read", "repair", "done"},
          todo : SUBSET Docs, listed : SUBSET Entries, files : Directories \cup {<<>>},
          planned : SUBSET Conflicts, quiet : BOOLEAN]

(* The scanner repairs, and only during a scan.                            *)
ScanSound ==
    /\ scan \in Scans
    /\ scan.stage \in {"read", "repair"} => scan.files \in Directories
    /\ scan.stage = "done" => scan.todo = {}
    /\ \A f \in conflicts \cup scan.planned : f.type # "unknown_file" => f.doc \in Docs
    /\ job[Scanner] # Store!Idle =>
         Repairing(Scanner) /\ scan.stage \in {"recover", "repair"}

(* The documents with a path, as a scan lists them.                        *)
Listing == {[doc |-> d, path |-> row[d].path, content |-> Store!HeadContent(d)] :
              d \in {e \in Docs : HasPath(e)}}

(* The scan has still to write the file of this document.                  *)
Owed(d) ==
    \/ d \in scan.todo
    \/ Repairing(Scanner) /\ job[Scanner].stage \in {"waiting", "locked"} /\ job[Scanner].doc = d

DocumentsAccounted(found) ==
    \A d \in Docs : HasPath(d) /\ disk[row[d].path] # Store!HeadContent(d) =>
        Owed(d) \/ \E f \in found : f.doc = d /\ f.path = row[d].path

FileAccounted(p, found) ==
    \/ \E d \in Docs : HasPath(d) /\ row[d].path = p
    \/ ignored[p] = disk[p]
    \/ \E f \in found : /\ f.type # "unexpected_hash"
                        /\ f.type = "unknown_file" => f.path = p
                        /\ f.actual = disk[p]

FilesAccounted(found) == \A p \in Paths : disk[p] # Nothing => FileAccounted(p, found)

(* As long as nobody disturbs a scan, what it has read is so, and what it  *)
(* has planned, with the repairs still owed, accounts for the tree.        *)
UndisturbedScan ==
    scan.quiet =>
        /\ Repairing(Scanner) => StillCurrent(Scanner)
        /\ scan.stage \in {"listed", "read"} => scan.listed = Listing
        /\ scan.stage = "read" => scan.files = disk
        /\ scan.stage = "repair" =>
             DocumentsAccounted(scan.planned) /\ FilesAccounted(scan.planned)
        /\ scan.stage = "done" => DocumentsAccounted(conflicts) /\ FilesAccounted(conflicts)

ReconcileInv ==
    TypeOK /\ StoreSound /\ OneRowPerPath /\ ScanSound /\ UndisturbedScan

(* What every step keeps of the store.                                     *)
StoreKept == StoreSound' /\ OneRowPerPath'

LEMMA RequestFacts ==
  /\ Scanner \in Clients
  /\ Nothing \notin Docs \cup Paths \cup Contents \cup Keys
  /\ Nothing \notin StoreRequest
  /\ \A w \in Writes :
       /\ w.op \in Store!Ops /\ w.doc \in Docs \cup {Nothing}
       /\ w.content \in Contents \cup {Nothing} /\ w.path \in Paths \cup {Nothing}
       /\ w.doc = Nothing <=> w.op = "create"
       /\ w.op \in {"create", "update"} => w.content \in Contents
BY ScannerAssumption, PipelineAssumption DEF Store!StoreAssumption

LEMMA IdleCarries == Store!Idle \in StoreJob /\ JobCarries(Store!Idle) /\ Store!Idle.stage = "idle"
BY DEF Store!Idle, StoreJob, JobCarries

LEMMA StoreStarts == Init => StoreSound /\ OneRowPerPath
<1> SUFFICES ASSUME Init
             PROVE  StoreSound /\ OneRowPerPath
  OBVIOUS
<1>1. Store!Unborn \in StoreRow /\ Store!Unborn.head = 0 /\ Store!Unborn.path = Nothing
  BY DEF Store!Unborn, StoreRow
<1>2. Store!Unbound \in [request : StoreRequest \cup {Nothing}, revision : Nat]
  BY DEF Store!Unbound
<1>3. /\ row \in [Docs -> StoreRow] /\ revisions \in Seq(Store!Revisions) /\ disk \in Directories
      /\ keys \in [Keys -> [request : StoreRequest \cup {Nothing}, revision : Nat]]
      /\ job \in [Clients -> StoreJob] /\ HistoryBacks
  BY <1>1, <1>2, IdleCarries DEF Init, Store!Init, Directories, HistoryBacks
<1>4. \A c \in Clients : JobCarries(job[c])
  BY IdleCarries DEF Init, Store!Init
<1>5. OneRowPerPath
  BY <1>1 DEF OneRowPerPath, Init, Store!Init
<1> QED
  BY <1>3, <1>4, <1>5 DEF StoreSound

(* A job moves on, and no head, path, revision or key changes.             *)
LEMMA JobMoves ==
  ASSUME StoreSound, OneRowPerPath, NEW c \in Clients, NEW j \in StoreJob, JobCarries(j),
         job' = [job EXCEPT ![c] = j], UNCHANGED <<revisions, keys>>,
         row' \in [Docs -> StoreRow],
         \A d \in Docs : row'[d].head = row[d].head /\ row'[d].path = row[d].path,
         disk' \in Directories
  PROVE  StoreKept
<1>1. job' \in [Clients -> StoreJob] /\ HistoryBacks'
  BY DEF StoreSound, HistoryBacks
<1>2. ASSUME NEW o \in Clients
      PROVE  JobCarries(job[o])'
  <2>1. JobCarries(job'[o])
    BY DEF StoreSound
  <2> QED
    BY <2>1 DEF JobCarries
<1>3. OneRowPerPath'
  BY DEF OneRowPerPath
<1> QED
  BY <1>1, <1>2, <1>3 DEF StoreSound, StoreKept

LEMMA JobEnds ==
  ASSUME StoreSound, OneRowPerPath, NEW c \in Clients, Store!End(c),
         UNCHANGED <<row, revisions, keys>>, disk' \in Directories
  PROVE  StoreKept
BY IdleCarries, JobMoves DEF Store!End, StoreSound

LEMMA RequestIsMade ==
  ASSUME StoreSound, OneRowPerPath, NEW c \in Clients,
         NEW w, w \in Writes \/ w \in [op : {"create"}, doc : {Nothing}, content : Contents, path : Paths]
           \/ w \in [op : {"update"}, doc : Docs, content : Contents, path : {Nothing}]
           \/ w \in [op : {"move"}, doc : Docs, content : {Nothing}, path : Paths],
         NEW k \in Keys, Store!Submit(c, w, k)
  PROVE  StoreKept /\ job'[c].stage = "waiting" /\ job'[c].request.op # "repair"
         /\ \A o \in Clients \ {c} : job'[o] = job[o]
<1>1. PICK e \in Store!Expectations(w), b \in Store!Bodies(w) :
         job' = [job EXCEPT
                    ![c] = [Store!Idle EXCEPT
                              !.stage = "waiting", !.key = k, !.doc = w.doc,
                              !.paths = Store!PathsToLock(w),
                              !.request = [op |-> w.op, doc |-> w.doc,
                                           content |-> b, path |-> w.path,
                                           expected |-> e]]]
  BY DEF Store!Submit
<1>2. UNCHANGED <<row, revisions, keys, disk, edited, edits>> /\ Store!Found(w)
  BY DEF Store!Submit
<1>3. /\ w.op \in Store!Ops /\ w.doc \in Docs \cup {Nothing}
      /\ w.content \in Contents \cup {Nothing} /\ w.path \in Paths \cup {Nothing}
      /\ w.doc = Nothing <=> w.op = "create"
      /\ w.op \in {"create", "update"} => w.content \in Contents
      /\ Nothing \notin Docs \cup Paths \cup Contents \cup Keys
  BY RequestFacts DEF Store!Ops
<1>4. w.op # "create" => w.doc \in Docs /\ row[w.doc].head # 0
  BY <1>2, <1>3 DEF Store!Found, Store!Live
<1>5. w.op # "create" => row[w.doc] \in StoreRow
  BY <1>4 DEF StoreSound
<1>6. e \in Nat
  BY <1>4, <1>5 DEF Store!Expectations, Store!RevisionsOf, StoreSound, StoreRow
<1>7. b \in Contents \cup {Nothing} /\ (w.op = "create" => b \in Contents)
  <2>1. CASE w.op = "restore"
    <3>1. PICK r \in Store!RevisionsOf(w.doc) : b = revisions[r].content
      BY <2>1 DEF Store!Bodies
    <3>2. revisions[r] \in Store!Revisions
      BY DEF Store!RevisionsOf, StoreSound
    <3> QED
      BY <2>1, <3>1, <3>2 DEF Store!Revisions
  <2>2. CASE w.op # "restore"
    BY <2>2, <1>3 DEF Store!Bodies
  <2> QED
    BY <2>1, <2>2
<1>8. Store!PathsToLock(w) \in SUBSET Paths
  BY <1>3, <1>5 DEF Store!PathsToLock, StoreRow
<1> DEFINE q == [op |-> w.op, doc |-> w.doc, content |-> b, path |-> w.path, expected |-> e]
           j == [Store!Idle EXCEPT !.stage = "waiting", !.key = k, !.doc = w.doc,
                                   !.paths = Store!PathsToLock(w), !.request = q]
<1>9. q \in StoreRequest /\ q.op = w.op /\ q.content = b /\ q.op # "repair"
  BY <1>3, <1>6, <1>7 DEF StoreRequest, Store!Ops
<1> HIDE DEF q
<1>10. /\ j \in StoreJob /\ j.stage = "waiting" /\ j.request = q /\ j.key = k
       /\ j.doc = w.doc
  BY <1>3, <1>8, <1>9 DEF Store!Idle, StoreJob
<1>11. job' = [job EXCEPT ![c] = j]
  BY <1>1 DEF q
<1> HIDE DEF j
<1>12. JobCarries(j)
  BY <1>4, <1>7, <1>9, <1>10 DEF JobCarries
<1>13. StoreKept
  BY <1>2, <1>10, <1>11, <1>12, JobMoves DEF StoreSound
<1> QED
  BY <1>9, <1>10, <1>11, <1>13 DEF StoreSound

LEMMA LocksAreTaken ==
  ASSUME StoreSound, OneRowPerPath, NEW c \in Clients, Store!Acquire(c)
  PROVE  StoreKept /\ UNCHANGED <<row, revisions, keys, disk>>
<1>1. UNCHANGED <<row, revisions, keys, disk, edited, edits>>
  BY DEF Store!Acquire
<1>2. job[c] \in StoreJob /\ JobCarries(job[c]) /\ job[c].stage = "waiting"
  BY DEF StoreSound, Store!Acquire
<1>3. CASE job[c].request.op # "create" /\ job' = [job EXCEPT ![c].stage = "locked"]
  <2> DEFINE j == [job[c] EXCEPT !.stage = "locked"]
  <2>1. j \in StoreJob /\ JobCarries(j)
    BY <1>2, <1>3 DEF StoreJob, JobCarries
  <2>2. job' = [job EXCEPT ![c] = j]
    BY <1>3
  <2> QED
    BY <1>1, <2>1, <2>2, JobMoves DEF StoreSound
<1>4. ASSUME NEW d \in Docs, job[c].request.op = "create",
             job' = [job EXCEPT ![c].stage = "locked", ![c].doc = d]
      PROVE  StoreKept
  <2> DEFINE j == [job[c] EXCEPT !.stage = "locked", !.doc = d]
  <2>1. j \in StoreJob /\ JobCarries(j)
    BY <1>2, <1>4 DEF StoreJob, JobCarries
  <2>2. job' = [job EXCEPT ![c] = j]
    BY <1>4
  <2> QED
    BY <1>1, <2>1, <2>2, JobMoves DEF StoreSound
<1>5. CASE Store!End(c)
  BY <1>1, <1>5, JobEnds DEF StoreSound
<1>6. job[c].request.op = "create" /\ Store!Replayed(c) =>
        revisions[keys[job[c].key].revision].doc \in Docs
  <2> SUFFICES ASSUME job[c].request.op = "create", Store!Replayed(c)
               PROVE  revisions[keys[job[c].key].revision].doc \in Docs
    OBVIOUS
  <2>1. job[c].key \in Keys
    BY <1>2 DEF JobCarries
  <2>2. keys[job[c].key].revision \in 1..Len(revisions)
    BY <2>1 DEF StoreSound, HistoryBacks, Store!Replayed
  <2>3. revisions[keys[job[c].key].revision] \in Store!Revisions
    BY <2>2 DEF StoreSound
  <2> QED
    BY <2>3 DEF Store!Revisions
<1> QED
  BY <1>1, <1>3, <1>4, <1>5, <1>6 DEF Store!Acquire

LEMMA LockedJob ==
  ASSUME StoreSound, NEW c \in Clients, job[c].stage = "locked"
  PROVE  /\ job[c] \in StoreJob /\ job[c].doc \in Docs /\ job[c].request \in StoreRequest
         /\ job[c].request.op # "repair" => job[c].key \in Keys
         /\ job[c].request.op = "create" => job[c].request.content \in Contents
         /\ row[job[c].doc] \in StoreRow /\ row[job[c].doc].head <= Len(revisions)
BY DEF StoreSound, HistoryBacks, JobCarries

LEMMA ContentOfHead ==
  ASSUME StoreSound, NEW d \in Docs, row[d].head # 0
  PROVE  Store!HeadContent(d) \in Contents
<1>1. row[d].head \in 1 .. Len(revisions)
  BY DEF StoreSound, HistoryBacks, StoreRow
<1>2. revisions[row[d].head] \in Store!Revisions
  BY <1>1 DEF StoreSound
<1> QED
  BY <1>2 DEF Store!HeadContent, Store!Revisions
-----------------------------------------------------------------------------
(* The committing transaction                                              *)

LEMMA CommittedContent ==
  ASSUME StoreSound, NEW c \in Clients, job[c].stage = "locked", ~Repairing(c)
  PROVE  Store!NextContent(c) \in Contents
<1>1. CASE job[c].request.op = "create"
  BY <1>1, LockedJob, RequestFacts DEF Store!NextContent
<1>2. CASE job[c].request.op # "create"
  <2>1. row[job[c].doc].head # 0
    BY <1>2 DEF StoreSound, JobCarries
  <2>2. Store!HeadContent(job[c].doc) \in Contents
    BY <2>1, LockedJob, ContentOfHead
  <2> QED
    BY <2>2, LockedJob DEF Store!NextContent, StoreRequest
<1> QED
  BY <1>1, <1>2

LEMMA AppendSound ==
  ASSUME StoreSound, OneRowPerPath, NEW c \in Clients, job[c].stage = "locked", ~Repairing(c),
         Store!PathUnique(c), Store!AppendRevision(c), UNCHANGED disk
  PROVE  StoreKept /\ job'[c].stage = "committed" /\ \A o \in Clients \ {c} : job'[o] = job[o]
<1> DEFINE d == job[c].doc
           r == Len(revisions) + 1
<1>1. /\ job[c] \in StoreJob /\ d \in Docs /\ job[c].key \in Keys
      /\ job[c].request \in StoreRequest
      /\ job[c].request.op = "create" => job[c].request.content \in Contents
      /\ row[d] \in StoreRow
  BY LockedJob, RequestFacts DEF Repairing, StoreRequest, StoreSound, JobCarries
<1>2. row \in [Docs -> StoreRow] /\ revisions \in Seq(Store!Revisions) /\ Len(revisions) \in Nat
  BY DEF StoreSound
<1>3. Store!NextPath(c) \in Paths \cup {Nothing}
  BY <1>1 DEF Store!NextPath, StoreRow, StoreRequest
<1>4. Store!NextState(c) \in {"none", "pending"} /\ Store!NextDeleted(c) \in BOOLEAN
  BY DEF Store!NextState, Store!NextDeleted
<1>5. [doc |-> d, parent |-> row[d].head, content |-> Store!NextContent(c)] \in Store!Revisions
  BY <1>1, CommittedContent DEF Store!Revisions, StoreRow
<1>6. revisions' \in Seq(Store!Revisions) /\ Len(revisions') = r
  BY <1>2, <1>5 DEF Store!AppendRevision
<1> DEFINE x == [row[d] EXCEPT !.head = r, !.path = Store!NextPath(c),
                               !.state = Store!NextState(c), !.deleted = Store!NextDeleted(c)]
           s == IF row[d].path # Store!NextPath(c) THEN row[d].path ELSE Nothing
           j == [job[c] EXCEPT !.stage = "committed", !.revision = r, !.stale = s]
<1>7. row' = [row EXCEPT ![d] = x] /\ job' = [job EXCEPT ![c] = j]
      /\ keys' = [keys EXCEPT ![job[c].key] = [request |-> job[c].request, revision |-> r]]
  BY DEF Store!AppendRevision
<1>8. r = Len(revisions) + 1 /\ r \in Nat /\ s \in Paths \cup {Nothing}
  BY <1>1, <1>2 DEF StoreRow
<1> HIDE DEF r, s
<1>9. x \in StoreRow /\ x.head = r /\ x.path = Store!NextPath(c)
  BY <1>1, <1>3, <1>4, <1>8 DEF StoreRow
<1> HIDE DEF x
<1>10. /\ row' \in [Docs -> StoreRow] /\ row'[d] = x
       /\ \A e \in Docs \ {d} : row'[e] = row[e]
  BY <1>1, <1>2, <1>7, <1>9
<1>11. /\ j \in StoreJob /\ j.stage = "committed" /\ j.revision = r /\ j.doc = d
       /\ j.request = job[c].request /\ j.key = job[c].key
  BY <1>1, <1>8 DEF StoreJob
<1> HIDE DEF j
<1>12. job' \in [Clients -> StoreJob] /\ job'[c] = j /\ \A o \in Clients \ {c} : job'[o] = job[o]
  BY <1>7, <1>11 DEF StoreSound
<1>13. keys' \in [Keys -> [request : StoreRequest \cup {Nothing}, revision : Nat]]
  BY <1>1, <1>7, <1>8 DEF StoreSound
<1>14. HistoryBacks'
  <2>1. ASSUME NEW e \in Docs
        PROVE  row'[e].head <= Len(revisions')
    <3>1. CASE e = d
      BY <3>1, <1>6, <1>8, <1>9, <1>10
    <3>2. CASE e # d
      <4>1. row'[e] = row[e] /\ row[e].head \in Nat /\ row[e].head <= Len(revisions)
        BY <3>2, <1>2, <1>10 DEF StoreSound, HistoryBacks, StoreRow
      <4> QED
        BY <4>1, <1>2, <1>6, <1>8
    <3> QED
      BY <3>1, <3>2
  <2>2. ASSUME NEW k \in Keys, keys'[k] # Store!Unbound
        PROVE  keys'[k].revision \in 1 .. Len(revisions')
    <3>1. CASE k = job[c].key
      <4>1. keys'[k].revision = r
        BY <3>1, <1>1, <1>7 DEF StoreSound
      <4> QED
        BY <4>1, <1>2, <1>6, <1>8
    <3>2. CASE k # job[c].key
      <4>1. keys'[k] = keys[k]
        BY <3>2, <1>7 DEF StoreSound
      <4>2. keys[k].revision \in 1 .. Len(revisions)
        BY <4>1, <2>2 DEF StoreSound, HistoryBacks
      <4> QED
        BY <4>1, <4>2, <1>2, <1>6, <1>8
    <3> QED
      BY <3>1, <3>2
  <2> QED
    BY <2>1, <2>2 DEF HistoryBacks, Store!Unbound
<1>15. ASSUME NEW o \in Clients
       PROVE  JobCarries(job[o])'
  <2>1. /\ \A e \in Docs : row[e].head # 0 => row'[e].head # 0
        /\ row'[d].head # 0
        /\ \A i \in 1 .. Len(revisions) : i \in 1 .. Len(revisions')
        /\ r \in 1 .. Len(revisions')
    BY <1>1, <1>2, <1>6, <1>8, <1>9, <1>10
  <2>2. JobCarries(job[c]) /\ JobCarries(job[o])
    BY DEF StoreSound
  <2>3. CASE o = c
    BY <2>1, <2>2, <2>3, <1>1, <1>11, <1>12 DEF JobCarries
  <2>4. CASE o # c
    <3>1. job'[o] = job[o]
      BY <2>4, <1>12
    <3> QED
      BY <3>1, <2>1, <2>2 DEF JobCarries
  <2> QED
    BY <2>3, <2>4
<1>16. OneRowPerPath'
  <2> SUFFICES ASSUME NEW e \in Docs, NEW f \in Docs, row'[e].path # Nothing,
                      row'[e].path = row'[f].path
               PROVE  e = f
    BY DEF OneRowPerPath
  <2>1. Store!NextPath(c) # Nothing => \A g \in Docs \ {d} : row[g].path # Store!NextPath(c)
    BY DEF Store!PathUnique
  <2> QED
    BY <2>1, <1>9, <1>10 DEF OneRowPerPath
<1>17. disk' \in Directories
  BY DEF StoreSound
<1> QED
  BY <1>6, <1>10, <1>11, <1>12, <1>13, <1>14, <1>15, <1>16, <1>17 DEF StoreKept, StoreSound

LEMMA MetadataSound ==
  ASSUME StoreSound, OneRowPerPath, NEW c \in Clients, job[c].stage = "locked",
         Store!UpdateMetadata(c), UNCHANGED disk
  PROVE  StoreKept /\ job'[c].stage = "committed" /\ \A o \in Clients \ {c} : job'[o] = job[o]
<1> DEFINE d == job[c].doc
           r == row[d].head
           j == [job[c] EXCEPT !.stage = "committed", !.revision = r]
           x == [row[d] EXCEPT !.version = @ + 1]
<1>1. /\ job[c] \in StoreJob /\ d \in Docs /\ job[c].key \in Keys
      /\ job[c].request \in StoreRequest /\ job[c].request.op = "tag"
      /\ row[d] \in StoreRow
  BY LockedJob DEF Store!UpdateMetadata
<1>2. row \in [Docs -> StoreRow] /\ Len(revisions) \in Nat
  BY DEF StoreSound
<1>3. r \in 1 .. Len(revisions) /\ r # 0 /\ r \in Nat
  <2>1. JobCarries(job[c])
    BY DEF StoreSound
  <2>2. r # 0
    BY <1>1, <2>1 DEF JobCarries
  <2>3. r \in Nat /\ r <= Len(revisions)
    BY <1>1, LockedJob DEF StoreRow
  <2> QED
    BY <1>2, <2>2, <2>3
<1>4. x \in StoreRow /\ x.head = r /\ x.path = row[d].path
  BY <1>1 DEF StoreRow
<1>5. /\ row' = [row EXCEPT ![d] = x] /\ job' = [job EXCEPT ![c] = j]
      /\ keys' = [keys EXCEPT ![job[c].key] = [request |-> job[c].request, revision |-> r]]
      /\ revisions' = revisions
  BY DEF Store!UpdateMetadata
<1> HIDE DEF r, x
<1>6. /\ j \in StoreJob /\ j.stage = "committed" /\ j.revision = r /\ j.doc = d
      /\ j.request = job[c].request /\ j.key = job[c].key
  BY <1>1, <1>3 DEF StoreJob
<1> HIDE DEF j
<1>7. /\ row' \in [Docs -> StoreRow]
      /\ \A e \in Docs : row'[e].head = row[e].head /\ row'[e].path = row[e].path
  BY <1>1, <1>2, <1>4, <1>5 DEF r
<1>8. job' \in [Clients -> StoreJob] /\ job'[c] = j /\ \A o \in Clients \ {c} : job'[o] = job[o]
  BY <1>5, <1>6 DEF StoreSound
<1>9. keys' \in [Keys -> [request : StoreRequest \cup {Nothing}, revision : Nat]]
  BY <1>1, <1>3, <1>5 DEF StoreSound
<1>10. HistoryBacks'
  <2>1. \A e \in Docs : row'[e].head <= Len(revisions')
    BY <1>5, <1>7 DEF StoreSound, HistoryBacks
  <2>2. ASSUME NEW k \in Keys, keys'[k] # Store!Unbound
        PROVE  keys'[k].revision \in 1 .. Len(revisions')
    <3>1. CASE k = job[c].key
      BY <3>1, <1>1, <1>3, <1>5 DEF StoreSound
    <3>2. CASE k # job[c].key
      BY <3>2, <2>2, <1>5 DEF StoreSound, HistoryBacks
    <3> QED
      BY <3>1, <3>2
  <2> QED
    BY <2>1, <2>2 DEF HistoryBacks, Store!Unbound
<1>11. ASSUME NEW o \in Clients
       PROVE  JobCarries(job[o])'
  <2>1. JobCarries(job[c]) /\ JobCarries(job[o])
    BY DEF StoreSound
  <2>2. CASE o = c
    BY <2>1, <2>2, <1>1, <1>3, <1>5, <1>6, <1>7, <1>8 DEF JobCarries, r
  <2>3. CASE o # c
    <3>1. job'[o] = job[o]
      BY <2>3, <1>8
    <3> QED
      BY <3>1, <2>1, <1>5, <1>7 DEF JobCarries
  <2> QED
    BY <2>2, <2>3
<1>12. OneRowPerPath' /\ disk' \in Directories /\ revisions' \in Seq(Store!Revisions)
  BY <1>5, <1>7 DEF OneRowPerPath, StoreSound
<1> QED
  BY <1>6, <1>7, <1>8, <1>9, <1>10, <1>11, <1>12 DEF StoreKept, StoreSound

-----------------------------------------------------------------------------
(* After the commit, and repairs                                           *)

LEMMA ReplaySound ==
  ASSUME StoreSound, OneRowPerPath, NEW c \in Clients, ~Repairing(c), Store!Replay(c)
  PROVE  StoreKept /\ job'[c].stage = "committed"
<1> DEFINE r == keys[job[c].key].revision
           j == [job[c] EXCEPT !.stage = "committed", !.revision = r]
<1>1. /\ job[c] \in StoreJob /\ JobCarries(job[c]) /\ job[c].stage = "locked"
      /\ job[c].key \in Keys /\ Len(revisions) \in Nat
  BY LockedJob, RequestFacts DEF StoreSound, Store!Replay, Repairing, StoreRequest, JobCarries
<1>2. r \in 1 .. Len(revisions)
  BY <1>1 DEF StoreSound, HistoryBacks, Store!Replay, Store!Replayed
<1>3. job' = [job EXCEPT ![c] = j] /\ UNCHANGED <<row, revisions, keys, disk>>
  BY DEF Store!Replay
<1> HIDE DEF r
<1>4. r \in Nat
  BY <1>1, <1>2
<1>5. /\ j \in StoreJob /\ j.stage = "committed" /\ j.revision = r /\ j.doc = job[c].doc
      /\ j.request = job[c].request /\ j.key = job[c].key
  BY <1>1, <1>4 DEF StoreJob
<1> HIDE DEF j
<1>6. JobCarries(j)
  BY <1>1, <1>2, <1>5 DEF JobCarries
<1> QED
  BY <1>3, <1>5, <1>6, JobMoves DEF StoreSound

LEMMA WriteSound ==
  ASSUME StoreSound, OneRowPerPath, NEW c \in Clients, Store!WriteFile(c)
  PROVE  StoreKept /\ job'[c].stage = "written"
<1> DEFINE d == job[c].doc
           p == row[d].path
           j == [job[c] EXCEPT !.stage = "written", !.target = p]
<1>1. /\ job[c] \in StoreJob /\ JobCarries(job[c]) /\ job[c].stage = "committed"
      /\ d \in Docs /\ p \in Paths
  BY DEF StoreSound, JobCarries, Store!WriteFile, Store!Unfinished, StoreRow
<1>2. row[d].head # 0
  <2>1. row[d].head = job[c].revision
    BY DEF Store!WriteFile, Store!Unfinished
  <2>2. job[c].revision \in 1 .. Len(revisions) /\ Len(revisions) \in Nat
    BY <1>1 DEF JobCarries, StoreSound
  <2> QED
    BY <2>1, <2>2
<1>3. Store!HeadContent(d) \in Contents
  BY <1>1, <1>2, ContentOfHead
<1>4. /\ job' = [job EXCEPT ![c] = j] /\ UNCHANGED <<row, revisions, keys>>
      /\ disk' = [disk EXCEPT ![p] = Store!HeadContent(d)]
  BY DEF Store!WriteFile
<1> HIDE DEF p
<1>5. j \in StoreJob /\ JobCarries(j) /\ j.stage = "written"
  BY <1>1 DEF StoreJob, JobCarries
<1> HIDE DEF j
<1>6. disk' \in Directories
  BY <1>3, <1>4 DEF StoreSound, Directories
<1> QED
  BY <1>4, <1>5, <1>6, JobMoves DEF StoreSound

LEMMA RepairWriteSound ==
  ASSUME StoreSound, OneRowPerPath, NEW c \in Clients, WriteRepair(c)
  PROVE  StoreKept /\ job'[c].stage = "written"
<1> DEFINE d == job[c].doc
           p == job[c].request.path
           j == [job[c] EXCEPT !.stage = "written"]
<1>1. /\ job[c] \in StoreJob /\ JobCarries(job[c]) /\ job[c].stage = "locked"
      /\ d \in Docs /\ row[d] \in StoreRow /\ row[d].head = job[c].revision /\ row[d].head # 0
  BY DEF StoreSound, JobCarries, WriteRepair, StillCurrent, Store!Live
<1>2. Store!HeadContent(d) \in Contents
  BY <1>1, ContentOfHead
<1>3. /\ job' = [job EXCEPT ![c] = j] /\ UNCHANGED <<row, revisions, keys>>
      /\ disk' = [disk EXCEPT ![p] = Store!HeadContent(d)]
  BY DEF WriteRepair
<1>4. job[c].revision \in 1 .. Len(revisions)
  BY <1>1 DEF StoreSound, HistoryBacks, StoreRow
<1>5. j \in StoreJob /\ JobCarries(j) /\ j.stage = "written"
  BY <1>1, <1>4 DEF StoreJob, JobCarries
<1> HIDE DEF j, p
<1>6. disk' \in Directories
  BY <1>2, <1>3 DEF StoreSound, Directories
<1> QED
  BY <1>3, <1>5, <1>6, JobMoves DEF StoreSound

LEMMA MarkSound ==
  ASSUME StoreSound, OneRowPerPath, NEW c \in Clients, Store!MarkClean(c)
  PROVE  /\ StoreKept /\ job'[c].stage = "marked" /\ UNCHANGED <<disk, revisions>>
         /\ \A d \in Docs : /\ row'[d].head = row[d].head /\ row'[d].path = row[d].path
                            /\ row'[d].deleted = row[d].deleted
<1> DEFINE d == job[c].doc
           s == IF row[d].head = job[c].revision THEN "clean" ELSE row[d].state
           j == [job[c] EXCEPT !.stage = "marked", !.target = Nothing]
<1>1. /\ job[c] \in StoreJob /\ JobCarries(job[c]) /\ job[c].stage = "written"
      /\ d \in Docs /\ row[d] \in StoreRow
  BY DEF StoreSound, JobCarries, Store!MarkClean
<1>2. /\ job' = [job EXCEPT ![c] = j] /\ row' = [row EXCEPT ![d].state = s]
      /\ UNCHANGED <<revisions, keys, disk>>
  BY DEF Store!MarkClean
<1>3. s \in {"none", "pending", "clean", "conflict"}
  BY <1>1 DEF StoreRow
<1> HIDE DEF s
<1>4. /\ row' \in [Docs -> StoreRow]
      /\ \A e \in Docs : /\ row'[e].head = row[e].head /\ row'[e].path = row[e].path
                         /\ row'[e].deleted = row[e].deleted
  BY <1>1, <1>2, <1>3 DEF StoreSound, StoreRow
<1>5. j \in StoreJob /\ JobCarries(j) /\ j.stage = "marked"
  BY <1>1, RequestFacts DEF StoreJob, JobCarries
<1> HIDE DEF j
<1> QED
  BY <1>2, <1>4, <1>5, JobMoves DEF StoreSound

LEMMA NothingToFinishSound ==
  ASSUME StoreSound, OneRowPerPath, NEW c \in Clients, Store!NothingToFinish(c)
  PROVE  StoreKept /\ job'[c].stage = "marked"
<1> DEFINE j == [job[c] EXCEPT !.stage = "marked"]
<1>1. job[c] \in StoreJob /\ JobCarries(job[c]) /\ job[c].stage = "committed"
  BY DEF StoreSound, Store!NothingToFinish
<1>2. job' = [job EXCEPT ![c] = j] /\ UNCHANGED <<row, revisions, keys, disk>>
  BY DEF Store!NothingToFinish
<1>3. j \in StoreJob /\ JobCarries(j) /\ j.stage = "marked"
  BY <1>1 DEF StoreJob, JobCarries
<1> HIDE DEF j
<1> QED
  BY <1>2, <1>3, JobMoves DEF StoreSound

LEMMA RepairStarts ==
  ASSUME StoreSound, OneRowPerPath, NEW c \in Clients, NEW d \in Docs, StartRepair(c, d),
         UNCHANGED <<row, revisions, keys, disk>>
  PROVE  /\ StoreKept /\ job'[c].stage = "waiting" /\ job'[c].doc = d
         /\ job'[c].request # Nothing /\ job'[c].request.op = "repair"
         /\ job'[c].request.path = row[d].path /\ job'[c].revision = row[d].head
         /\ \A o \in Clients \ {c} : job'[o] = job[o]
<1> DEFINE q == [op |-> "repair", doc |-> d, content |-> Nothing,
                 path |-> row[d].path, expected |-> row[d].head]
           j == [Store!Idle EXCEPT !.stage = "waiting", !.doc = d, !.paths = {row[d].path},
                                   !.revision = row[d].head, !.request = q]
<1>1. job' = [job EXCEPT ![c] = j] /\ Store!Live(d) /\ row[d].path # Nothing
  BY DEF StartRepair
<1>2. row[d].path \in Paths /\ row[d].head \in Nat /\ row[d].head # 0
  BY <1>1 DEF StoreSound, StoreRow, Store!Live
<1>3. q \in StoreRequest /\ q.op = "repair" /\ q.path = row[d].path
  BY <1>2 DEF StoreRequest
<1> HIDE DEF q
<1>4. /\ j \in StoreJob /\ j.stage = "waiting" /\ j.doc = d /\ j.request = q
      /\ j.revision = row[d].head
  BY <1>2, <1>3 DEF StoreJob, Store!Idle
<1> HIDE DEF j
<1>5. JobCarries(j)
  BY <1>2, <1>3, <1>4 DEF JobCarries
<1>6. StoreKept
  BY <1>1, <1>4, <1>5, JobMoves DEF StoreSound
<1>7. q # Nothing
  BY <1>3, RequestFacts
<1> QED
  BY <1>1, <1>3, <1>4, <1>6, <1>7 DEF StoreSound
-----------------------------------------------------------------------------
(* A client's request moves on, or ends.                                   *)

LEMMA IdleRepairsNothing == \A c \in Clients : job[c] = Store!Idle => ~Repairing(c)
BY DEF Repairing, Store!Idle

LEMMA BusyStage == \A c \in Clients : job[c].stage # "idle" => job[c] # Store!Idle
BY DEF Store!Idle

LEMMA SameStore ==
  ASSUME StoreSound, OneRowPerPath, UNCHANGED storeVars
  PROVE  StoreKept
<1>1. UNCHANGED <<row, revisions, keys, disk, job>>
  BY DEF storeVars
<1>2. HistoryBacks' /\ \A c \in Clients : JobCarries(job[c])'
  BY <1>1 DEF StoreSound, HistoryBacks, JobCarries
<1> QED
  BY <1>1, <1>2 DEF StoreKept, StoreSound, OneRowPerPath

LEMMA RepairMoves ==
  ASSUME StoreSound, OneRowPerPath, NEW c \in Clients, RepairStep(c)
  PROVE  /\ StoreKept /\ job'[c] # Store!Idle /\ job[c] # Store!Idle
         /\ Repairing(c)'
         /\ \A o \in Clients \ {c} : job'[o] = job[o]
<1>1. Repairing(c) /\ job[c] # Store!Idle /\ job[c] \in StoreJob
  BY IdleRepairsNothing DEF RepairStep, WriteRepair, StoreSound
<1>2. CASE Store!Acquire(c)
  <2>1. job' = [job EXCEPT ![c].stage = "locked"]
    BY <1>1, <1>2 DEF Store!Acquire, Repairing
  <2>2. job'[c] = [job[c] EXCEPT !.stage = "locked"] /\ \A o \in Clients \ {c} : job'[o] = job[o]
    BY <2>1 DEF StoreSound
  <2>3. job'[c].stage = "locked" /\ job'[c].request = job[c].request
    BY <1>1, <2>2 DEF StoreJob
  <2> QED
    BY <1>1, <1>2, <2>2, <2>3, LocksAreTaken DEF Repairing, Store!Idle
<1>3. CASE WriteRepair(c)
  <2>1. job' = [job EXCEPT ![c].stage = "written"]
    BY <1>3 DEF WriteRepair
  <2>2. job'[c] = [job[c] EXCEPT !.stage = "written"] /\ \A o \in Clients \ {c} : job'[o] = job[o]
    BY <2>1 DEF StoreSound
  <2>3. job'[c].stage = "written" /\ job'[c].request = job[c].request
    BY <1>1, <2>2 DEF StoreJob
  <2> QED
    BY <1>1, <1>3, <2>2, <2>3, RepairWriteSound DEF Repairing, Store!Idle
<1>4. CASE Store!MarkClean(c)
  <2>1. job' = [job EXCEPT ![c].stage = "marked", ![c].target = Nothing]
    BY <1>4 DEF Store!MarkClean
  <2>2. /\ job'[c] = [job[c] EXCEPT !.stage = "marked", !.target = Nothing]
        /\ \A o \in Clients \ {c} : job'[o] = job[o]
    BY <2>1 DEF StoreSound
  <2>3. job'[c].stage = "marked" /\ job'[c].request = job[c].request
    BY <1>1, <2>2 DEF StoreJob
  <2> QED
    BY <1>1, <1>4, <2>2, <2>3, MarkSound DEF Repairing, Store!Idle
<1> QED
  BY <1>2, <1>3, <1>4 DEF RepairStep

LEMMA ClientMoves ==
  ASSUME StoreSound, OneRowPerPath, NEW c \in Clients, MovesOn(c)
  PROVE  /\ StoreKept /\ job'[c] # Store!Idle /\ job[c] # Store!Idle
         /\ \A o \in Clients \ {c} : job'[o] = job[o]
<1>1. CASE Plain(c) /\ Store!Acquire(c) /\ job'[c] # Store!Idle
  BY <1>1, LocksAreTaken DEF Plain, Store!Acquire, Store!End, StoreSound
<1>2. CASE Plain(c) /\ Store!Commit(c)
  <2>1. /\ job[c].stage = "locked" /\ ~Repairing(c) /\ job[c] # Store!Idle
        /\ Store!PathUnique(c) /\ UNCHANGED disk
        /\ Store!AppendRevision(c) \/ Store!UpdateMetadata(c)
    BY <1>2 DEF Store!Commit, Store!Writable, Plain
  <2>2. /\ StoreKept /\ job'[c].stage = "committed"
        /\ \A o \in Clients \ {c} : job'[o] = job[o]
    BY <2>1, AppendSound, MetadataSound
  <2> QED
    BY <2>1, <2>2 DEF Store!Idle
<1>3. CASE Plain(c) /\ Store!Replay(c)
  <2>1. StoreKept /\ job'[c].stage = "committed"
    BY <1>3, ReplaySound DEF Plain
  <2>2. \A o \in Clients \ {c} : job'[o] = job[o]
    BY <1>3 DEF Store!Replay, StoreSound
  <2> QED
    BY <1>3, <2>1, <2>2 DEF Store!Idle, Plain
<1>4. CASE Plain(c) /\ Store!WriteFile(c)
  <2>1. StoreKept /\ job'[c].stage = "written"
    BY <1>4, WriteSound
  <2>2. \A o \in Clients \ {c} : job'[o] = job[o]
    BY <1>4 DEF Store!WriteFile, StoreSound
  <2> QED
    BY <1>4, <2>1, <2>2 DEF Store!Idle, Plain
<1>5. CASE Plain(c) /\ Store!MarkClean(c)
  <2>1. StoreKept /\ job'[c].stage = "marked"
    BY <1>5, MarkSound
  <2>2. \A o \in Clients \ {c} : job'[o] = job[o]
    BY <1>5 DEF Store!MarkClean, StoreSound
  <2> QED
    BY <1>5, <2>1, <2>2 DEF Store!Idle, Plain
<1>6. CASE Plain(c) /\ Store!NothingToFinish(c)
  <2>1. StoreKept /\ job'[c].stage = "marked"
    BY <1>6, NothingToFinishSound
  <2>2. \A o \in Clients \ {c} : job'[o] = job[o]
    BY <1>6 DEF Store!NothingToFinish, StoreSound
  <2> QED
    BY <1>6, <2>1, <2>2 DEF Store!Idle, Plain
<1>7. CASE RepairStep(c)
  BY <1>7, RepairMoves
<1> QED
  BY <1>1, <1>2, <1>3, <1>4, <1>5, <1>6, <1>7 DEF MovesOn

LEMMA RepairFails ==
  ASSUME StoreSound, OneRowPerPath, NEW c \in Clients, FailRepair(c) \/ EndRepair(c)
  PROVE  /\ StoreKept /\ job'[c] = Store!Idle /\ UNCHANGED <<row, revisions, disk>>
         /\ \A o \in Clients \ {c} : job'[o] = job[o]
<1>1. Store!End(c) /\ UNCHANGED <<row, revisions, keys, disk>>
  BY DEF FailRepair, EndRepair
<1>2. disk' \in Directories
  BY <1>1 DEF StoreSound
<1> QED
  BY <1>1, <1>2, JobEnds DEF Store!End, StoreSound

LEMMA ClientEnds ==
  ASSUME StoreSound, OneRowPerPath, NEW c \in Clients, Succeeds(c) \/ Fails(c)
  PROVE  /\ StoreKept /\ job'[c] = Store!Idle
         /\ \A o \in Clients \ {c} : job'[o] = job[o]
<1>1. CASE Store!Answer(c)
  <2>1. Store!End(c) /\ UNCHANGED <<row, revisions, keys>> /\ disk' \in Directories
    BY <1>1 DEF Store!Answer, StoreSound, Directories
  <2> QED
    BY <2>1, JobEnds DEF Store!End, StoreSound
<1>2. CASE Store!Refuse(c) \/ Store!FailFile(c)
  <2>1. Store!End(c) /\ UNCHANGED <<row, revisions, keys, disk>>
    BY <1>2 DEF Store!Refuse, Store!FailFile
  <2>2. disk' \in Directories
    BY <2>1 DEF StoreSound
  <2> QED
    BY <2>1, <2>2, JobEnds DEF Store!End, StoreSound
<1>3. CASE FailRepair(c) \/ EndRepair(c)
  BY <1>3, RepairFails
<1>4. CASE Store!Acquire(c) /\ job'[c] = Store!Idle
  BY <1>4, LocksAreTaken DEF Store!Acquire, Store!End, StoreSound
<1> QED
  BY <1>1, <1>2, <1>3, <1>4 DEF Succeeds, Fails

-----------------------------------------------------------------------------
(* What others do while the scan is between two steps                      *)

LEMMA ScanIsDisturbed ==
  ASSUME ScanSound, scan' = Disturbed, job'[Scanner] = job[Scanner], conflicts' \subseteq conflicts
  PROVE  ScanSound' /\ UndisturbedScan'
<1>1. Scanner \in Clients /\ scan \in Scans
  BY RequestFacts DEF ScanSound
<1>2. CASE scan.stage \in {"idle", "done"}
  <2>1. scan' = NoScan /\ NoScan \in Scans /\ NoScan.stage = "idle" /\ NoScan.planned = {}
    BY <1>2 DEF Disturbed, NoScan, Scans
  <2>2. job'[Scanner] = Store!Idle
    BY <1>2 DEF ScanSound
  <2>3. ~Repairing(Scanner)'
    BY <2>2 DEF Repairing, Store!Idle
  <2> QED
    BY <2>1, <2>2, <2>3 DEF ScanSound, UndisturbedScan
<1>3. CASE scan.stage \notin {"idle", "done"}
  <2>1. scan' = [scan EXCEPT !.quiet = FALSE]
    BY <1>3 DEF Disturbed
  <2>2. /\ scan' \in Scans /\ ~scan'.quiet /\ scan'.stage = scan.stage
        /\ scan'.files = scan.files /\ scan'.planned = scan.planned
    BY <1>1, <2>1 DEF Scans
  <2>3. Repairing(Scanner)' <=> Repairing(Scanner)
    BY DEF Repairing
  <2> QED
    BY <1>3, <2>2, <2>3 DEF ScanSound, UndisturbedScan
<1> QED
  BY <1>2, <1>3

(* A step of one client keeps the types, given what becomes of its own.    *)
LEMMA TypesStay ==
  ASSUME TypeOK, ScanSound, StoreSound', NEW c \in Clients,
         \A o \in Clients \ {c} : job'[o] = job[o],
         conflicts' \subseteq conflicts, ignored' \in [Paths -> Contents \cup {Nothing}],
         scan' = Disturbed, settling' \in [Clients -> SUBSET ConflictKeys],
         \A o \in Clients \ {c} : settling'[o] = settling[o] /\ (o \in due' <=> o \in due),
         due' \subseteq Clients \ {Scanner},
         c \in due' => job'[c] = Store!Idle,
         settling'[c] # {} => c # Scanner /\ (c \in due' \/ job'[c] # Store!Idle)
  PROVE  TypeOK'
<1>1. \A d \in Docs : row'[d].state \in {"none", "pending", "clean", "conflict"}
  BY DEF StoreSound, StoreRow
<1>2. /\ scan'.stage \in {"idle", "recover", "listed", "read", "repair", "done"}
      /\ scan'.todo \subseteq Docs
  BY DEF Disturbed, NoScan, TypeOK, ScanSound, Scans
<1>3. ASSUME NEW o \in Clients
      PROVE  /\ settling'[o] # {} => o # Scanner /\ (o \in due' \/ job'[o] # Store!Idle)
             /\ o \in due' => job'[o] = Store!Idle
  BY DEF TypeOK
<1> QED
  BY <1>1, <1>2, <1>3 DEF TypeOK

(* So a step of a client keeps the invariant.                              *)
LEMMA ClientKeeps ==
  ASSUME ReconcileInv, NEW c \in Clients \ {Scanner}, StoreKept,
         \A o \in Clients \ {c} : job'[o] = job[o],
         conflicts' \subseteq conflicts, ignored' \in [Paths -> Contents \cup {Nothing}],
         scan' = Disturbed, settling' \in [Clients -> SUBSET ConflictKeys],
         \A o \in Clients \ {c} : settling'[o] = settling[o] /\ (o \in due' <=> o \in due),
         due' \subseteq Clients \ {Scanner},
         c \in due' => job'[c] = Store!Idle,
         settling'[c] # {} => c \in due' \/ job'[c] # Store!Idle
  PROVE  ReconcileInv'
<1>1. TypeOK /\ ScanSound /\ StoreSound' /\ OneRowPerPath'
  BY DEF ReconcileInv, StoreKept
<1>2. TypeOK'
  BY <1>1, TypesStay
<1>3. job'[Scanner] = job[Scanner]
  BY RequestFacts
<1>4. ScanSound' /\ UndisturbedScan'
  BY <1>1, <1>3, ScanIsDisturbed
<1> QED
  BY <1>1, <1>2, <1>4 DEF ReconcileInv

LEMMA OpenConflict ==
  ASSUME ReconcileInv, NEW f \in conflicts
  PROVE  /\ f \in Conflicts /\ KeyOf(f) \in ConflictKeys /\ f.path \in Paths
         /\ f.type # "unknown_file" => f.doc \in Docs
BY DEF ReconcileInv, TypeOK, ScanSound, ConflictKeys, Conflicts

LEMMA SettleKeeps ==
  ASSUME ReconcileInv, scan' = Disturbed, NEW c \in Clients, NEW k \in Keys,
         NEW f, KeyOf(f) \in ConflictKeys,
         NEW w, w \in [op : {"create"}, doc : {Nothing}, content : Contents, path : Paths]
           \/ w \in [op : {"update"}, doc : Docs, content : Contents, path : {Nothing}]
           \/ w \in [op : {"move"}, doc : Docs, content : {Nothing}, path : Paths],
         Settle(c, f, w, k)
  PROVE  ReconcileInv'
<1>1. /\ Free(c) /\ Store!Submit(c, w, k)
      /\ settling' = [settling EXCEPT ![c] = {KeyOf(f)}]
      /\ UNCHANGED <<conflicts, ignored, due>>
  BY DEF Settle
<1>2. /\ StoreKept /\ job'[c].stage = "waiting"
      /\ \A o \in Clients \ {c} : job'[o] = job[o]
  BY <1>1, RequestIsMade DEF ReconcileInv
<1>3. job'[c] # Store!Idle
  BY <1>2 DEF Store!Idle
<1>4. /\ settling' \in [Clients -> SUBSET ConflictKeys]
      /\ \A o \in Clients \ {c} : settling'[o] = settling[o]
  BY <1>1 DEF ReconcileInv, TypeOK
<1> QED
  BY <1>1, <1>2, <1>3, <1>4, ClientKeeps DEF Free, ReconcileInv, TypeOK

(* A conflict is resolved, or a file ignored, and the store stays.         *)
LEMMA DropKeeps ==
  ASSUME ReconcileInv, scan' = Disturbed, NEW c \in Clients \ {Scanner},
         conflicts' \subseteq conflicts, ignored' \in [Paths -> Contents \cup {Nothing}],
         UNCHANGED <<storeVars, settling, due>>
  PROVE  ReconcileInv'
<1>1. StoreKept /\ job' = job
  BY SameStore DEF ReconcileInv, storeVars
<1> QED
  BY <1>1, ClientKeeps DEF ReconcileInv, TypeOK

LEMMA AcceptDiskKeeps ==
  ASSUME ReconcileInv, scan' = Disturbed, NEW c \in Clients \ {Scanner}, NEW k \in Keys,
         NEW f \in conflicts, AcceptDisk(c, f, k)
  PROVE  ReconcileInv'
<1>1. f.doc \in Docs /\ f.path \in Paths /\ KeyOf(f) \in ConflictKeys
  BY OpenConflict DEF AcceptDisk
<1>2. disk[f.path] \in Contents
  BY <1>1 DEF ReconcileInv, StoreSound, Directories, AcceptDisk
<1>3. CASE Drop(f) /\ UNCHANGED <<storeVars, ignored, settling, due>>
  <2>1. conflicts' \subseteq conflicts /\ ignored' \in [Paths -> Contents \cup {Nothing}]
    BY <1>3 DEF Drop, ReconcileInv, TypeOK
  <2> QED
    BY <1>3, <2>1, DropKeeps
<1>4. CASE Settle(c, f, [op |-> "update", doc |-> f.doc, content |-> disk[f.path],
                         path |-> Nothing], k)
  BY <1>1, <1>2, <1>4, SettleKeeps
<1> QED
  BY <1>3, <1>4 DEF AcceptDisk

LEMMA RecognizeMoveKeeps ==
  ASSUME ReconcileInv, scan' = Disturbed, NEW c \in Clients \ {Scanner}, NEW k \in Keys,
         NEW f \in conflicts, RecognizeMove(c, f, k)
  PROVE  ReconcileInv'
<1>1. f.doc \in Docs /\ f.candidate \in Paths /\ KeyOf(f) \in ConflictKeys
  BY OpenConflict DEF RecognizeMove, Conflicts
<1>2. CASE Drop(f) /\ UNCHANGED <<storeVars, ignored, settling, due>>
  <2>1. conflicts' \subseteq conflicts /\ ignored' \in [Paths -> Contents \cup {Nothing}]
    BY <1>2 DEF Drop, ReconcileInv, TypeOK
  <2> QED
    BY <1>2, <2>1, DropKeeps
<1>3. CASE Settle(c, f, [op |-> "move", doc |-> f.doc, content |-> Nothing,
                         path |-> f.candidate], k)
  BY <1>1, <1>3, SettleKeeps
<1> QED
  BY <1>2, <1>3 DEF RecognizeMove

LEMMA RestoreDatabaseKeeps ==
  ASSUME ReconcileInv, scan' = Disturbed, NEW c \in Clients \ {Scanner},
         NEW f \in conflicts, RestoreDatabase(c, f)
  PROVE  ReconcileInv'
<1>1. f.doc \in Docs /\ KeyOf(f) \in ConflictKeys
  BY OpenConflict DEF RestoreDatabase
<1>2. /\ StoreKept /\ job'[c].stage = "waiting"
      /\ \A o \in Clients \ {c} : job'[o] = job[o]
  BY <1>1, RepairStarts DEF ReconcileInv, RestoreDatabase
<1>3. job'[c] # Store!Idle
  BY <1>2 DEF Store!Idle
<1>4. /\ settling' \in [Clients -> SUBSET ConflictKeys]
      /\ \A o \in Clients \ {c} : settling'[o] = settling[o]
  BY <1>1 DEF ReconcileInv, TypeOK, RestoreDatabase
<1> QED
  BY <1>2, <1>3, <1>4, ClientKeeps DEF RestoreDatabase, Free, ReconcileInv, TypeOK

LEMMA ReindexKeeps ==
  ASSUME ReconcileInv, scan' = Disturbed, NEW c \in Clients \ {Scanner}, NEW k \in Keys,
         NEW p \in Paths, Reindex(c, p, k)
  PROVE  ReconcileInv'
<1>1. disk[p] \in Contents
  BY DEF ReconcileInv, StoreSound, Directories, Reindex
<1> DEFINE f == [type |-> "unknown_file", doc |-> Nothing, path |-> p, candidate |-> Nothing]
           g == [type |-> "unknown_file", doc |-> Nothing, path |-> p, candidate |-> Nothing,
                 actual |-> disk[p]]
<1>2. g \in Conflicts /\ KeyOf(g) = KeyOf(f)
  BY <1>1 DEF Conflicts, KeyOf
<1>3. KeyOf(f) \in ConflictKeys
  BY <1>2 DEF ConflictKeys
<1>4. Settle(c, f, [op |-> "create", doc |-> Nothing, content |-> disk[p], path |-> p], k)
  BY DEF Reindex
<1> HIDE DEF f
<1> QED
  BY <1>1, <1>3, <1>4, SettleKeeps

LEMMA IgnoreKeeps ==
  ASSUME ReconcileInv, scan' = Disturbed, NEW c \in Clients \ {Scanner},
         NEW f \in conflicts, Ignore(c, f)
  PROVE  ReconcileInv'
<1>1. f.actual \in Contents /\ f.path \in Paths
  BY OpenConflict DEF Conflicts
<1>2. conflicts' \subseteq conflicts /\ ignored' \in [Paths -> Contents \cup {Nothing}]
  BY <1>1 DEF Ignore, Drop, ReconcileInv, TypeOK
<1> QED
  BY <1>2, DropKeeps DEF Ignore

LEMMA ResolvedKeeps ==
  ASSUME ReconcileInv, scan' = Disturbed, NEW c \in Clients \ {Scanner}, Resolved(c)
  PROVE  ReconcileInv'
<1>1. StoreKept /\ job' = job /\ ignored' = ignored
  BY SameStore DEF Resolved, ReconcileInv, storeVars
<1>2. /\ settling' \in [Clients -> SUBSET ConflictKeys] /\ settling'[c] = {}
      /\ \A o \in Clients \ {c} : settling'[o] = settling[o]
      /\ due' = due \ {c} /\ conflicts' \subseteq conflicts
  BY DEF ReconcileInv, TypeOK, Resolved
<1> QED
  BY <1>1, <1>2, ClientKeeps DEF ReconcileInv, TypeOK

LEMMA RequestKeeps ==
  ASSUME ReconcileInv, scan' = Disturbed, NEW c \in Clients \ {Scanner},
         Ask(c) \/ MovesOn(c) \/ Succeeds(c) \/ Fails(c), UNCHANGED <<conflicts, ignored>>
  PROVE  ReconcileInv'
<1>1. CASE Ask(c)
  <2>1. PICK w \in Writes, k \in Keys : Store!Submit(c, w, k)
    BY <1>1 DEF Ask
  <2>2. StoreKept /\ \A o \in Clients \ {c} : job'[o] = job[o]
    BY <2>1, RequestIsMade DEF ReconcileInv
  <2>3. settling[c] = {} /\ c \notin due /\ UNCHANGED <<settling, due>>
    BY <1>1 DEF Ask, Free, ReconcileInv, TypeOK
  <2> QED
    BY <2>2, <2>3, ClientKeeps DEF ReconcileInv, TypeOK
<1>2. CASE MovesOn(c)
  <2>1. /\ StoreKept /\ job'[c] # Store!Idle /\ job[c] # Store!Idle
        /\ \A o \in Clients \ {c} : job'[o] = job[o]
    BY <1>2, ClientMoves DEF ReconcileInv
  <2>2. UNCHANGED <<settling, due>>
    BY <1>2 DEF MovesOn
  <2> QED
    BY <2>1, <2>2, ClientKeeps DEF ReconcileInv, TypeOK
<1>3. CASE Succeeds(c)
  <2>1. StoreKept /\ job'[c] = Store!Idle /\ \A o \in Clients \ {c} : job'[o] = job[o]
    BY <1>3, ClientEnds DEF ReconcileInv
  <2>2. settling' = settling /\ due' = IF settling[c] # {} THEN due \cup {c} ELSE due
    BY <1>3 DEF Succeeds
  <2> QED
    BY <2>1, <2>2, ClientKeeps DEF ReconcileInv, TypeOK
<1>4. CASE Fails(c)
  <2>1. StoreKept /\ job'[c] = Store!Idle /\ \A o \in Clients \ {c} : job'[o] = job[o]
    BY <1>4, ClientEnds DEF ReconcileInv
  <2>2. settling' = [settling EXCEPT ![c] = {}] /\ due' = due
    BY <1>4 DEF Fails
  <2> QED
    BY <2>1, <2>2, ClientKeeps DEF ReconcileInv, TypeOK
<1> QED
  BY <1>1, <1>2, <1>3, <1>4

LEMMA EditKeeps ==
  ASSUME ReconcileInv, scan' = Disturbed, Edit, UNCHANGED <<conflicts, ignored>>
  PROVE  ReconcileInv'
<1>1. PICK p \in Paths, x \in Contents \cup {Nothing} : Store!EditFile(p, x)
  BY DEF Edit
<1>2. UNCHANGED <<row, revisions, keys, job, settling, due>> /\ disk' \in Directories
  BY <1>1 DEF Edit, Store!EditFile, ReconcileInv, StoreSound, Directories
<1>3. StoreKept
  <2>1. HistoryBacks' /\ \A c \in Clients : JobCarries(job[c])'
    BY <1>2 DEF ReconcileInv, StoreSound, HistoryBacks, JobCarries
  <2> QED
    BY <1>2, <2>1 DEF ReconcileInv, StoreKept, StoreSound, OneRowPerPath
<1>4. TypeOK'
  BY <1>2, <1>3, RequestFacts, TypesStay DEF ReconcileInv, TypeOK, StoreKept
<1>5. ScanSound' /\ UndisturbedScan'
  BY <1>2, ScanIsDisturbed DEF ReconcileInv
<1> QED
  BY <1>3, <1>4, <1>5 DEF ReconcileInv, StoreKept

LEMMA OthersKeep ==
  ASSUME ReconcileInv, OtherStep, scan' = Disturbed
  PROVE  ReconcileInv'
<1>1. ASSUME NEW c \in Clients \ {Scanner}, Resolution(c)
      PROVE  ReconcileInv'
  BY <1>1, AcceptDiskKeeps, RecognizeMoveKeeps, RestoreDatabaseKeeps, IgnoreKeeps,
     ReindexKeeps, ResolvedKeeps DEF Resolution
<1> QED
  BY <1>1, RequestKeeps, EditKeeps DEF OtherStep

-----------------------------------------------------------------------------
(* The steps of a scan                                                     *)

(* A step of the scan keeps the types, given that of what it plans.        *)
LEMMA ScannerTypes ==
  ASSUME TypeOK, StoreSound', ScanSound',
         \A o \in Clients \ {Scanner} : job'[o] = job[o],
         conflicts' \subseteq Conflicts, ignored' \in [Paths -> Contents \cup {Nothing}],
         settling' \in [Clients -> SUBSET ConflictKeys],
         \A o \in Clients : settling'[o] \subseteq settling[o], due' = due
  PROVE  TypeOK'
<1>1. \A d \in Docs : row'[d].state \in {"none", "pending", "clean", "conflict"}
  BY DEF StoreSound, StoreRow
<1>2. /\ scan'.stage \in {"idle", "recover", "listed", "read", "repair", "done"}
      /\ scan'.todo \subseteq Docs
  BY DEF ScanSound, Scans
<1>3. ASSUME NEW o \in Clients
      PROVE  /\ settling'[o] # {} => o # Scanner /\ (o \in due' \/ job'[o] # Store!Idle)
             /\ o \in due' => job'[o] = Store!Idle
  BY DEF TypeOK
<1> QED
  BY <1>1, <1>2, <1>3 DEF TypeOK

LEMMA StartScanKeeps == ASSUME ReconcileInv, StartScan PROVE ReconcileInv'
<1>1. StoreKept /\ job' = job /\ UNCHANGED <<conflicts, ignored, settling, due>>
  BY SameStore DEF StartScan, ReconcileInv, storeVars
<1>2. job'[Scanner] = Store!Idle /\ ~Repairing(Scanner)'
  BY <1>1 DEF ReconcileInv, ScanSound, StartScan, Repairing, Store!Idle
<1>3. /\ scan' \in Scans /\ scan'.stage = "recover" /\ scan'.planned = {}
  BY DEF StartScan, NoScan, Scans
<1>4. ScanSound' /\ UndisturbedScan'
  BY <1>1, <1>2, <1>3 DEF ReconcileInv, ScanSound, UndisturbedScan
<1> QED
  BY <1>1, <1>4, ScannerTypes DEF ReconcileInv, StoreKept, TypeOK

LEMMA AbortScanKeeps == ASSUME ReconcileInv, AbortScan PROVE ReconcileInv'
<1>1. scan' = NoScan /\ UNCHANGED <<conflicts, ignored, settling, due>>
  BY DEF AbortScan
<1>2. /\ StoreKept /\ job'[Scanner] = Store!Idle
      /\ \A o \in Clients \ {Scanner} : job'[o] = job[o]
  <2>1. CASE job[Scanner] = Store!Idle /\ UNCHANGED storeVars
    BY <2>1, SameStore DEF ReconcileInv, storeVars
  <2>2. CASE FailRepair(Scanner)
    BY <2>2, RequestFacts, RepairFails DEF ReconcileInv
  <2> QED
    BY <2>1, <2>2 DEF AbortScan
<1>3. NoScan \in Scans /\ NoScan.stage = "idle" /\ NoScan.planned = {}
  BY DEF NoScan, Scans
<1>4. ~Repairing(Scanner)'
  BY <1>2 DEF Repairing, Store!Idle
<1>5. ScanSound' /\ UndisturbedScan'
  BY <1>1, <1>2, <1>3, <1>4 DEF ReconcileInv, ScanSound, UndisturbedScan
<1> QED
  BY <1>1, <1>2, <1>5, ScannerTypes DEF ReconcileInv, StoreKept, TypeOK

LEMMA RepairNextKeeps == ASSUME ReconcileInv, RepairNext PROVE ReconcileInv'
<1>1. PICK d \in scan.todo : StartRepair(Scanner, d) /\ scan' = [scan EXCEPT !.todo = @ \ {d}]
  BY DEF RepairNext
<1>2. /\ UNCHANGED <<row, revisions, keys, disk, edited, edits, conflicts, ignored, settling, due>>
      /\ scan.stage \in {"recover", "repair"} /\ d \in Docs
  BY DEF RepairNext, ReconcileInv, TypeOK
<1>3. /\ StoreKept /\ job'[Scanner].stage = "waiting" /\ job'[Scanner].doc = d
      /\ Repairing(Scanner)' /\ job'[Scanner].request.path = row[d].path
      /\ job'[Scanner].revision = row[d].head
      /\ \A o \in Clients \ {Scanner} : job'[o] = job[o]
  BY <1>1, <1>2, RequestFacts, RepairStarts DEF ReconcileInv, Repairing
<1>4. /\ scan' \in Scans /\ scan'.stage = scan.stage /\ scan'.todo = scan.todo \ {d}
      /\ scan'.planned = scan.planned /\ scan'.files = scan.files /\ scan'.quiet = scan.quiet
  BY <1>1 DEF ReconcileInv, ScanSound, Scans
<1>5. ScanSound'
  BY <1>2, <1>3, <1>4 DEF ReconcileInv, ScanSound
<1>6. StillCurrent(Scanner)'
  BY <1>1, <1>2, <1>3 DEF StillCurrent, StartRepair, Store!Live
<1>7. \A e \in Docs : Owed(e) => Owed(e)'
  <2>1. ~Repairing(Scanner)
    BY <1>1 DEF StartRepair, Repairing, Store!Idle
  <2> QED
    BY <1>1, <1>3, <1>4, <2>1 DEF Owed
<1>8. DocumentsAccounted(scan.planned) /\ FilesAccounted(scan.planned)
        => DocumentsAccounted(scan.planned)' /\ FilesAccounted(scan.planned)'
  BY <1>2, <1>4, <1>7 DEF DocumentsAccounted, FilesAccounted, FileAccounted, HasPath,
     Store!Live, Store!HeadContent
<1>9. UndisturbedScan'
  BY <1>2, <1>4, <1>6, <1>8 DEF ReconcileInv, UndisturbedScan
<1> QED
  BY <1>2, <1>3, <1>5, <1>9, ScannerTypes DEF ReconcileInv, StoreKept, TypeOK

LEMMA ListingIsTyped == StoreSound => Listing \in SUBSET Entries
<1> SUFFICES ASSUME StoreSound, NEW d \in Docs, HasPath(d)
             PROVE  [doc |-> d, path |-> row[d].path, content |-> Store!HeadContent(d)] \in Entries
  BY DEF Listing
<1>1. row[d].path \in Paths
  BY DEF StoreSound, StoreRow, HasPath
<1>2. Store!HeadContent(d) \in Contents
  BY ContentOfHead DEF HasPath, Store!Live
<1> QED
  BY <1>1, <1>2 DEF Entries

LEMMA ListDocumentsKeeps == ASSUME ReconcileInv, ListDocuments PROVE ReconcileInv'
<1>1. StoreKept /\ UNCHANGED <<row, revisions, disk, job, conflicts, ignored, settling, due>>
  BY SameStore DEF ListDocuments, ReconcileInv, storeVars
<1>2. scan' = [scan EXCEPT !.stage = "listed", !.listed = Listing] /\ job[Scanner] = Store!Idle
  BY DEF ListDocuments, Listing
<1>3. /\ scan' \in Scans /\ scan'.stage = "listed" /\ scan'.listed = Listing
      /\ scan'.planned = scan.planned
  BY <1>2, ListingIsTyped DEF ReconcileInv, ScanSound, Scans
<1>4. ~Repairing(Scanner)' /\ Listing' = Listing
  BY <1>1, <1>2 DEF Repairing, Store!Idle, Listing, HasPath, Store!Live, Store!HeadContent
<1>5. ScanSound' /\ UndisturbedScan'
  BY <1>1, <1>2, <1>3, <1>4 DEF ReconcileInv, ScanSound, UndisturbedScan
<1> QED
  BY <1>1, <1>5, ScannerTypes DEF ReconcileInv, StoreKept, TypeOK

LEMMA ReadDirectoryKeeps == ASSUME ReconcileInv, ReadDirectory PROVE ReconcileInv'
<1>1. StoreKept /\ UNCHANGED <<row, revisions, disk, job, conflicts, ignored, settling, due>>
  BY SameStore DEF ReadDirectory, ReconcileInv, storeVars
<1>2. scan.stage = "listed" /\ scan' = [scan EXCEPT !.stage = "read", !.files = disk]
  BY DEF ReadDirectory
<1>3. job[Scanner] = Store!Idle
  BY <1>2 DEF ReconcileInv, ScanSound
<1>4. /\ scan' \in Scans /\ scan'.stage = "read" /\ scan'.listed = scan.listed
      /\ scan'.files = disk /\ scan'.planned = scan.planned /\ scan'.quiet = scan.quiet
  BY <1>2 DEF ReconcileInv, ScanSound, Scans, StoreSound
<1>5. ~Repairing(Scanner)' /\ Listing' = Listing
  BY <1>1, <1>3 DEF Repairing, Store!Idle, Listing, HasPath, Store!Live, Store!HeadContent
<1>6. ScanSound' /\ UndisturbedScan'
  BY <1>1, <1>2, <1>3, <1>4, <1>5 DEF ReconcileInv, ScanSound, UndisturbedScan, StoreSound
<1> QED
  BY <1>1, <1>6, ScannerTypes DEF ReconcileInv, StoreKept, TypeOK

-----------------------------------------------------------------------------
(* The planner                                                             *)

LEMMA PlanIsTyped ==
  ASSUME NEW listed \in SUBSET Entries, NEW files \in Directories
  PROVE  /\ PlannedConflicts(listed, files) \in SUBSET Conflicts
         /\ \A f \in PlannedConflicts(listed, files) : f.type # "unknown_file" => f.doc \in Docs
         /\ ToRematerialize(listed, files) \in SUBSET Docs
<1>1. /\ \A m \in listed : m.doc \in Docs /\ m.path \in Paths /\ m.content \in Contents
      /\ \A p \in Paths : files[p] # Nothing => files[p] \in Contents
  BY DEF Entries, Directories
<1>2. Missing(listed, files) \subseteq listed
  BY DEF Missing
<1>3. \A m \in listed : Matches(m, listed, files) \subseteq Paths
  BY DEF Matches, Unknown
<1>4. ASSUME NEW m \in listed
      PROVE  Candidate(m, listed, files) \in Paths \cup {Nothing}
  <2>1. Cardinality(Matches(m, listed, files)) = 1 => Matches(m, listed, files) # {}
    BY FS_EmptySet
  <2> QED
    BY <1>3, <2>1 DEF Candidate
<1>5. ASSUME NEW f \in PlannedConflicts(listed, files)
      PROVE  f \in Conflicts /\ (f.type # "unknown_file" => f.doc \in Docs)
  <2>1. CASE \E m \in Missing(listed, files) :
               f = [type |-> "possible_move", doc |-> m.doc, path |-> m.path,
                    candidate |-> Candidate(m, listed, files), actual |-> m.content]
    BY <1>1, <1>2, <1>4, <2>1 DEF Conflicts
  <2>2. CASE \E m \in listed \ Missing(listed, files) :
               f = [type |-> "unexpected_hash", doc |-> m.doc, path |-> m.path,
                    candidate |-> Nothing, actual |-> files[m.path]]
    BY <1>1, <2>2 DEF Conflicts, Missing
  <2>3. CASE \E p \in Unknown(listed, files) :
               f = [type |-> "unknown_file", doc |-> Nothing, path |-> p,
                    candidate |-> Nothing, actual |-> files[p]]
    BY <1>1, <2>3 DEF Conflicts, Unknown
  <2> QED
    BY <2>1, <2>2, <2>3 DEF PlannedConflicts
<1>6. ToRematerialize(listed, files) \in SUBSET Docs
  BY <1>1, <1>2 DEF ToRematerialize
<1> QED
  BY <1>5, <1>6

(* A document whose file differs is planned for, and a file no document    *)
(* has is a conflict, or the one a conflict takes for a moved file.        *)
LEMMA PlanMeetsDocuments ==
  ASSUME NEW listed, NEW files, NEW m \in listed, files[m.path] # m.content
  PROVE  \/ m.doc \in ToRematerialize(listed, files)
         \/ \E f \in PlannedConflicts(listed, files) : f.doc = m.doc /\ f.path = m.path
<1>1. CASE m \in Missing(listed, files) /\ Matches(m, listed, files) = {}
  BY <1>1 DEF ToRematerialize
<1>2. CASE m \in Missing(listed, files) /\ Matches(m, listed, files) # {}
  <2> DEFINE f == [type |-> "possible_move", doc |-> m.doc, path |-> m.path,
                   candidate |-> Candidate(m, listed, files), actual |-> m.content]
  <2>1. f \in PlannedConflicts(listed, files)
    BY <1>2 DEF PlannedConflicts
  <2> QED
    BY <2>1
<1>3. CASE m \notin Missing(listed, files)
  <2> DEFINE f == [type |-> "unexpected_hash", doc |-> m.doc, path |-> m.path,
                   candidate |-> Nothing, actual |-> files[m.path]]
  <2>1. f \in PlannedConflicts(listed, files)
    BY <1>3 DEF PlannedConflicts
  <2> QED
    BY <2>1
<1> QED
  BY <1>1, <1>2, <1>3

LEMMA PlanMeetsFiles ==
  ASSUME NEW listed, NEW files, NEW p \in Paths, files[p] # Nothing
  PROVE  \/ \E m \in listed : m.path = p
         \/ \E f \in PlannedConflicts(listed, files) :
               /\ f.type # "unexpected_hash" /\ (f.type = "unknown_file" => f.path = p)
               /\ f.actual = files[p]
<1> SUFFICES ASSUME ~ \E m \in listed : m.path = p
             PROVE  \E f \in PlannedConflicts(listed, files) :
                       /\ f.type # "unexpected_hash" /\ (f.type = "unknown_file" => f.path = p)
                       /\ f.actual = files[p]
  OBVIOUS
<1>1. p \in Unknown(listed, files)
  BY DEF Unknown
<1>2. CASE \E m \in Missing(listed, files) : p \in Matches(m, listed, files)
  <2>1. PICK m \in Missing(listed, files) : p \in Matches(m, listed, files)
    BY <1>2
  <2> DEFINE f == [type |-> "possible_move", doc |-> m.doc, path |-> m.path,
                   candidate |-> Candidate(m, listed, files), actual |-> m.content]
  <2>2. f \in PlannedConflicts(listed, files) /\ f.actual = files[p]
    BY <2>1 DEF PlannedConflicts, Matches
  <2> QED
    BY <2>2
<1>3. CASE ~ \E m \in Missing(listed, files) : p \in Matches(m, listed, files)
  <2> DEFINE f == [type |-> "unknown_file", doc |-> Nothing, path |-> p,
                   candidate |-> Nothing, actual |-> files[p]]
  <2>1. f \in PlannedConflicts(listed, files)
    BY <1>1, <1>3 DEF PlannedConflicts
  <2> QED
    BY <2>1
<1> QED
  BY <1>2, <1>3

LEMMA PlanKeeps == ASSUME ReconcileInv, Plan PROVE ReconcileInv'
<1> DEFINE hidden == IgnoredFiles(scan.files)
           seen == [p \in Paths |-> IF p \in hidden THEN Nothing ELSE scan.files[p]]
<1>1. /\ scan.stage = "read" /\ UNCHANGED <<storeVars, conflicts, settling, due>>
      /\ ignored' = [p \in Paths |-> IF p \in hidden THEN ignored[p] ELSE Nothing]
      /\ scan' = [scan EXCEPT !.stage = "repair", !.files = seen,
                              !.todo = ToRematerialize(scan.listed, seen),
                              !.planned = PlannedConflicts(scan.listed, seen)]
  BY DEF Plan
<1>2. StoreKept /\ UNCHANGED <<row, revisions, disk, job>>
  BY <1>1, SameStore DEF ReconcileInv, storeVars
<1>3. scan.files \in Directories /\ scan.listed \in SUBSET Entries /\ scan \in Scans
  BY <1>1 DEF ReconcileInv, ScanSound, Scans
<1>4. seen \in Directories /\ ignored' \in [Paths -> Contents \cup {Nothing}]
  BY <1>1, <1>3 DEF ReconcileInv, TypeOK, Directories
<1>5. \A p \in Paths : /\ p \notin hidden => seen[p] = scan.files[p]
                       /\ p \in hidden => seen[p] = Nothing /\ ignored'[p] = scan.files[p]
  BY <1>1 DEF IgnoredFiles
<1> HIDE DEF seen, hidden
<1>6. /\ scan' \in Scans /\ scan'.stage = "repair" /\ scan'.files = seen
      /\ scan'.todo = ToRematerialize(scan.listed, seen)
      /\ scan'.planned = PlannedConflicts(scan.listed, seen) /\ scan'.quiet = scan.quiet
  BY <1>1, <1>3, <1>4, PlanIsTyped DEF Scans
<1>7. \A f \in scan'.planned : f.type # "unknown_file" => f.doc \in Docs
  BY <1>3, <1>4, <1>6, PlanIsTyped
<1>8. job[Scanner] = Store!Idle /\ ~Repairing(Scanner)'
  BY <1>1, <1>2 DEF ReconcileInv, ScanSound, Repairing, Store!Idle
<1>9. ScanSound'
  BY <1>1, <1>2, <1>4, <1>6, <1>7, <1>8 DEF ReconcileInv, ScanSound
<1>10. ASSUME scan.quiet
       PROVE  DocumentsAccounted(scan.planned)' /\ FilesAccounted(scan.planned)'
  <2>1. scan.listed = Listing /\ scan.files = disk
    BY <1>1, <1>10 DEF ReconcileInv, UndisturbedScan
  <2>2. ASSUME NEW d \in Docs, HasPath(d)', disk'[row'[d].path] # Store!HeadContent(d)'
        PROVE  Owed(d)' \/ \E f \in scan'.planned : f.doc = d /\ f.path = row'[d].path
    <3> DEFINE m == [doc |-> d, path |-> row[d].path, content |-> Store!HeadContent(d)]
    <3>1. m \in scan.listed /\ disk[m.path] # m.content
      BY <1>2, <2>1, <2>2 DEF Listing, HasPath, Store!Live, Store!HeadContent
    <3>2. m.path \in Paths /\ m.content # Nothing
      BY <1>3, <3>1, RequestFacts DEF Entries
    <3>3. seen[m.path] # m.content
      BY <1>5, <2>1, <3>1, <3>2
    <3>4. \/ d \in scan'.todo
          \/ \E f \in scan'.planned : f.doc = m.doc /\ f.path = m.path
      BY <1>6, <3>1, <3>3, PlanMeetsDocuments
    <3> QED
      BY <1>2, <3>4 DEF Owed
  <2>3. ASSUME NEW p \in Paths, disk'[p] # Nothing
        PROVE  FileAccounted(p, scan.planned)'
    <3>1. CASE p \in hidden
      BY <1>2, <1>5, <2>1, <3>1 DEF FileAccounted
    <3>2. CASE p \notin hidden
      <4>1. seen[p] = disk[p] /\ seen[p] # Nothing
        BY <1>2, <1>5, <2>1, <2>3, <3>2
      <4>2. CASE \E m \in scan.listed : m.path = p
        BY <1>2, <2>1, <4>2 DEF FileAccounted, Listing, HasPath, Store!Live
      <4>3. CASE \E f \in scan'.planned :
                   /\ f.type # "unexpected_hash" /\ (f.type = "unknown_file" => f.path = p)
                   /\ f.actual = seen[p]
        BY <1>2, <4>1, <4>3 DEF FileAccounted
      <4>4. \/ \E m \in scan.listed : m.path = p
            \/ \E f \in PlannedConflicts(scan.listed, seen) :
                  /\ f.type # "unexpected_hash" /\ (f.type = "unknown_file" => f.path = p)
                  /\ f.actual = seen[p]
        BY <4>1, PlanMeetsFiles
      <4> QED
        BY <1>6, <4>2, <4>3, <4>4
    <3> QED
      BY <3>1, <3>2
  <2> QED
    BY <2>2, <2>3 DEF DocumentsAccounted, FilesAccounted
<1>11. UndisturbedScan'
  BY <1>6, <1>8, <1>10 DEF UndisturbedScan
<1> QED
  BY <1>1, <1>2, <1>4, <1>9, <1>11, ScannerTypes DEF ReconcileInv, StoreKept, TypeOK

LEMMA SynchronizeKeeps == ASSUME ReconcileInv, Synchronize PROVE ReconcileInv'
<1> DEFINE named == {f.doc : f \in scan.planned} \ {Nothing}
           freed == {d \in {f.doc : f \in conflicts} \ ({Nothing} \cup named) :
                        HasPath(d) /\ scan.files[row[d].path] = Store!HeadContent(d)}
           kept == {KeyOf(f) : f \in scan.planned}
<1>1. /\ scan.stage = "repair" /\ scan.todo = {} /\ job[Scanner] = Store!Idle
      /\ conflicts' = scan.planned
      /\ row' = [d \in Docs |-> IF d \in named THEN [row[d] EXCEPT !.state = "conflict"]
                                ELSE IF d \in freed THEN [row[d] EXCEPT !.state = "clean"]
                                ELSE row[d]]
      /\ settling' = [c \in Clients |->
                         {k \in settling[c] : k \in kept \/ k[1] = "unknown_file"}]
      /\ scan' = [NoScan EXCEPT !.stage = "done", !.quiet = scan.quiet]
      /\ UNCHANGED <<revisions, keys, disk, edited, edits, job, ignored, due>>
  BY DEF Synchronize
<1> HIDE DEF named, freed, kept
<1>2. /\ row' \in [Docs -> StoreRow]
      /\ \A d \in Docs : /\ row'[d].head = row[d].head /\ row'[d].path = row[d].path
                         /\ row'[d].deleted = row[d].deleted
  <2>1. row' = [d \in Docs |-> row'[d]]
    BY <1>1
  <2>2. ASSUME NEW d \in Docs
        PROVE  /\ row'[d] \in StoreRow /\ row'[d].head = row[d].head
               /\ row'[d].path = row[d].path /\ row'[d].deleted = row[d].deleted
    <3>1. row[d] \in StoreRow
      BY DEF ReconcileInv, StoreSound
    <3>2. \/ row'[d] = [row[d] EXCEPT !.state = "conflict"]
          \/ row'[d] = [row[d] EXCEPT !.state = "clean"]
          \/ row'[d] = row[d]
      BY <1>1
    <3> QED
      BY <3>1, <3>2 DEF StoreRow
  <2> QED
    BY <2>1, <2>2
<1>3. StoreKept
  <2>1. /\ job' = [job EXCEPT ![Scanner] = job[Scanner]] /\ Scanner \in Clients
        /\ job[Scanner] \in StoreJob /\ JobCarries(job[Scanner]) /\ disk' \in Directories
    BY <1>1, RequestFacts DEF ReconcileInv, StoreSound
  <2> QED
    BY <1>1, <1>2, <2>1, JobMoves DEF ReconcileInv
<1>4. /\ scan' \in Scans /\ scan'.stage = "done" /\ scan'.todo = {} /\ scan'.planned = {}
      /\ scan'.quiet = scan.quiet
  BY <1>1 DEF NoScan, Scans, ReconcileInv, ScanSound
<1>5. ~Repairing(Scanner) /\ ~Repairing(Scanner)'
  BY <1>1 DEF Repairing, Store!Idle
<1>6. ScanSound'
  BY <1>1, <1>4 DEF ReconcileInv, ScanSound
<1>7. DocumentsAccounted(scan.planned) => DocumentsAccounted(conflicts)'
  BY <1>1, <1>2, <1>5 DEF DocumentsAccounted, Owed, HasPath, Store!Live, Store!HeadContent
<1>8. FilesAccounted(scan.planned) => FilesAccounted(conflicts)'
  BY <1>1, <1>2 DEF FilesAccounted, FileAccounted, HasPath, Store!Live
<1>9. UndisturbedScan'
  BY <1>1, <1>4, <1>5, <1>7, <1>8 DEF ReconcileInv, UndisturbedScan
<1>10. /\ settling' \in [Clients -> SUBSET ConflictKeys]
       /\ \A o \in Clients : settling'[o] \subseteq settling[o]
  BY <1>1 DEF ReconcileInv, TypeOK
<1>11. conflicts' \subseteq Conflicts
  BY <1>1 DEF ReconcileInv, ScanSound, Scans
<1> QED
  BY <1>1, <1>3, <1>6, <1>9, <1>10, <1>11, ScannerTypes DEF ReconcileInv, StoreKept, TypeOK

(* What a repair does to its own request, and to rows and files.           *)
LEMMA RepairChanges ==
  ASSUME ReconcileInv, NEW c \in Clients, RepairStep(c)
  PROVE  /\ job'[c].doc = job[c].doc /\ job'[c].request = job[c].request
         /\ job'[c].revision = job[c].revision /\ job[c].doc \in Docs
         /\ revisions' = revisions
         /\ \A d \in Docs : /\ row'[d].head = row[d].head /\ row'[d].path = row[d].path
                            /\ row'[d].deleted = row[d].deleted
         /\ \/ /\ job[c].stage \in {"waiting", "written"}
               /\ job[c].stage = "waiting" => job'[c].stage = "locked"
               /\ disk' = disk
            \/ /\ StillCurrent(c)
               /\ disk' = [disk EXCEPT ![job[c].request.path] = Store!HeadContent(job[c].doc)]
<1>1. /\ Repairing(c) /\ job[c] \in StoreJob /\ JobCarries(job[c]) /\ job[c].stage # "idle"
  BY DEF RepairStep, WriteRepair, Store!Acquire, Store!MarkClean, ReconcileInv, StoreSound
<1>2. job[c].doc \in Docs
  BY <1>1 DEF JobCarries, Repairing
<1>3. CASE Store!Acquire(c)
  <2>1. /\ job' = [job EXCEPT ![c].stage = "locked"] /\ job[c].stage = "waiting"
        /\ UNCHANGED <<row, revisions, disk>>
    BY <1>1, <1>3 DEF Store!Acquire, Repairing
  <2>2. job'[c] = [job[c] EXCEPT !.stage = "locked"]
    BY <2>1 DEF ReconcileInv, StoreSound
  <2> QED
    BY <1>1, <1>2, <2>1, <2>2 DEF StoreJob
<1>4. CASE WriteRepair(c)
  <2>1. job'[c] = [job[c] EXCEPT !.stage = "written"]
    BY <1>4 DEF WriteRepair, ReconcileInv, StoreSound
  <2> QED
    BY <1>1, <1>2, <1>4, <2>1 DEF StoreJob, WriteRepair
<1>5. CASE Store!MarkClean(c)
  <2>1. job'[c] = [job[c] EXCEPT !.stage = "marked", !.target = Nothing]
    BY <1>5 DEF Store!MarkClean, ReconcileInv, StoreSound
  <2>2. job[c].stage = "written"
    BY <1>5 DEF Store!MarkClean
  <2> QED
    BY <1>1, <1>2, <1>5, <2>1, <2>2, MarkSound DEF StoreJob, ReconcileInv
<1> QED
  BY <1>3, <1>4, <1>5 DEF RepairStep

LEMMA RepairStepKeeps ==
  ASSUME ReconcileInv, RepairStep(Scanner), UNCHANGED <<conflicts, ignored, scan, settling, due>>
  PROVE  ReconcileInv'
<1> DEFINE d == job[Scanner].doc
           p == job[Scanner].request.path
<1>1. /\ StoreKept /\ job'[Scanner] # Store!Idle /\ job[Scanner] # Store!Idle
      /\ Repairing(Scanner)' /\ \A o \in Clients \ {Scanner} : job'[o] = job[o]
  BY RequestFacts, RepairMoves DEF ReconcileInv
<1>2. /\ job'[Scanner].doc = d /\ job'[Scanner].request = job[Scanner].request
      /\ job'[Scanner].revision = job[Scanner].revision /\ d \in Docs
      /\ revisions' = revisions
      /\ \A e \in Docs : /\ row'[e].head = row[e].head /\ row'[e].path = row[e].path
                         /\ row'[e].deleted = row[e].deleted
      /\ \/ /\ job[Scanner].stage \in {"waiting", "written"}
            /\ job[Scanner].stage = "waiting" => job'[Scanner].stage = "locked"
            /\ disk' = disk
         \/ /\ StillCurrent(Scanner)
            /\ disk' = [disk EXCEPT ![p] = Store!HeadContent(d)]
  BY RequestFacts, RepairChanges
<1>3. Repairing(Scanner) /\ scan.stage \in {"recover", "repair"}
  BY <1>1 DEF ReconcileInv, ScanSound
<1>4. ScanSound'
  BY <1>1, <1>3 DEF ReconcileInv, ScanSound
<1>5. StillCurrent(Scanner) => StillCurrent(Scanner)'
  BY <1>2 DEF StillCurrent, Store!Live
<1>6. DocumentsAccounted(scan.planned) => DocumentsAccounted(scan.planned)'
  <2> SUFFICES ASSUME DocumentsAccounted(scan.planned), NEW e \in Docs, HasPath(e)',
                      disk'[row'[e].path] # Store!HeadContent(e)'
               PROVE  Owed(e)' \/ \E f \in scan.planned : f.doc = e /\ f.path = row[e].path
    BY <1>2 DEF DocumentsAccounted
  <2>1. HasPath(e) /\ Store!HeadContent(e)' = Store!HeadContent(e) /\ row'[e].path = row[e].path
    BY <1>2 DEF HasPath, Store!Live, Store!HeadContent
  <2>2. CASE /\ job[Scanner].stage \in {"waiting", "written"}
             /\ job[Scanner].stage = "waiting" => job'[Scanner].stage = "locked"
             /\ disk' = disk
    BY <1>1, <1>2, <2>1, <2>2 DEF DocumentsAccounted, Owed
  <2>3. CASE StillCurrent(Scanner) /\ disk' = [disk EXCEPT ![p] = Store!HeadContent(d)]
    <3>1. row[d].path = p /\ disk \in Directories /\ row[e].path \in Paths /\ p \in Paths
      <4>1. row[e].path \in Paths
        BY <2>1 DEF ReconcileInv, StoreSound, StoreRow, HasPath
      <4>2. job[Scanner] # Store!Idle /\ JobCarries(job[Scanner])
        BY <1>1, RequestFacts DEF ReconcileInv, StoreSound
      <4>3. p \in Paths
        BY <1>3, <4>2 DEF JobCarries, Repairing
      <4> QED
        BY <2>3, <4>1, <4>3 DEF StillCurrent, ReconcileInv, StoreSound
    <3>2. e # d
      BY <2>1, <2>3, <3>1 DEF Directories
    <3>3. row[e].path # p
      BY <1>2, <2>1, <3>1, <3>2 DEF ReconcileInv, OneRowPerPath, HasPath
    <3>4. disk[row[e].path] # Store!HeadContent(e)
      BY <2>1, <2>3, <3>1, <3>3 DEF Directories
    <3>5. Owed(e) \/ \E f \in scan.planned : f.doc = e /\ f.path = row[e].path
      BY <2>1, <3>4 DEF DocumentsAccounted
    <3> QED
      BY <3>2, <3>5 DEF Owed
  <2> QED
    BY <1>2, <2>2, <2>3
<1>7. FilesAccounted(scan.planned) => FilesAccounted(scan.planned)'
  <2> SUFFICES ASSUME FilesAccounted(scan.planned), NEW q \in Paths, disk'[q] # Nothing
               PROVE  FileAccounted(q, scan.planned)'
    BY DEF FilesAccounted
  <2>1. \A e \in Docs : (HasPath(e)' <=> HasPath(e)) /\ row'[e].path = row[e].path
    BY <1>2 DEF HasPath, Store!Live
  <2>2. CASE disk'[q] = disk[q]
    BY <2>1, <2>2 DEF FilesAccounted, FileAccounted
  <2>3. CASE disk'[q] # disk[q]
    <3>1. StillCurrent(Scanner) /\ q = p
      BY <1>2, <2>3 DEF ReconcileInv, StoreSound, Directories
    <3>2. HasPath(d) /\ row[d].path = q
      BY <1>2, <3>1, RequestFacts DEF StillCurrent, HasPath
    <3> QED
      BY <1>2, <2>1, <3>2 DEF FileAccounted
  <2> QED
    BY <2>2, <2>3
<1>8. UndisturbedScan'
  BY <1>3, <1>5, <1>6, <1>7 DEF ReconcileInv, UndisturbedScan
<1> QED
  BY <1>1, <1>4, <1>8, ScannerTypes DEF ReconcileInv, StoreKept, TypeOK

LEMMA EndRepairKeeps ==
  ASSUME ReconcileInv, EndRepair(Scanner), UNCHANGED <<conflicts, ignored, scan, settling, due>>
  PROVE  ReconcileInv'
<1>1. /\ StoreKept /\ job'[Scanner] = Store!Idle /\ UNCHANGED <<row, revisions, disk>>
      /\ \A o \in Clients \ {Scanner} : job'[o] = job[o]
  BY RequestFacts, RepairFails DEF ReconcileInv
<1>2. ~Repairing(Scanner)'
  BY <1>1 DEF Repairing, Store!Idle
<1>3. Repairing(Scanner) /\ scan.stage \in {"recover", "repair"}
  BY IdleRepairsNothing, RequestFacts DEF EndRepair, ReconcileInv, ScanSound
<1>4. ScanSound'
  BY <1>1 DEF ReconcileInv, ScanSound
<1>5. ASSUME scan.quiet
      PROVE  job[Scanner].stage = "marked"
  BY <1>3, <1>5 DEF EndRepair, ReconcileInv, UndisturbedScan
<1>6. ASSUME scan.quiet
      PROVE  \A e \in Docs : Owed(e) => Owed(e)'
  BY <1>5, <1>6 DEF Owed
<1>7. ASSUME scan.quiet, DocumentsAccounted(scan.planned), FilesAccounted(scan.planned)
      PROVE  DocumentsAccounted(scan.planned)' /\ FilesAccounted(scan.planned)'
  BY <1>1, <1>6, <1>7 DEF DocumentsAccounted, FilesAccounted, FileAccounted, HasPath,
     Store!Live, Store!HeadContent
<1>8. UndisturbedScan'
  BY <1>2, <1>3, <1>7 DEF ReconcileInv, UndisturbedScan
<1> QED
  BY <1>1, <1>4, <1>8, ScannerTypes DEF ReconcileInv, StoreKept, TypeOK

-----------------------------------------------------------------------------
LEMMA CrashKeeps == ASSUME ReconcileInv, Crash PROVE ReconcileInv'
<1>1. /\ job' = [c \in Clients |-> Store!Idle] /\ settling' = [c \in Clients |-> {}]
      /\ due' = {} /\ scan' = NoScan
      /\ UNCHANGED <<row, revisions, keys, disk, conflicts, ignored>>
  BY DEF Crash
<1>2. StoreSound' /\ OneRowPerPath'
  <2>1. job' \in [Clients -> StoreJob] /\ \A c \in Clients : JobCarries(job[c])'
    BY <1>1, IdleCarries DEF JobCarries, Store!Idle
  <2> QED
    BY <1>1, <2>1 DEF ReconcileInv, StoreSound, HistoryBacks, OneRowPerPath
<1>3. NoScan \in Scans /\ NoScan.stage = "idle" /\ NoScan.planned = {}
  BY DEF NoScan, Scans
<1>4. job'[Scanner] = Store!Idle /\ ~Repairing(Scanner)'
  BY <1>1, RequestFacts DEF Repairing, Store!Idle
<1>5. ScanSound' /\ UndisturbedScan'
  BY <1>1, <1>3, <1>4 DEF ReconcileInv, ScanSound, UndisturbedScan
<1>6. TypeOK'
  BY <1>1, <1>2, <1>5 DEF ReconcileInv, TypeOK, StoreSound, StoreRow, ScanSound, Scans
<1> QED
  BY <1>2, <1>5, <1>6 DEF ReconcileInv

LEMMA ReconcileInit == Init => ReconcileInv
<1> SUFFICES ASSUME Init
             PROVE  ReconcileInv
  OBVIOUS
<1>1. StoreSound /\ OneRowPerPath
  BY StoreStarts
<1>2. NoScan \in Scans /\ NoScan.stage = "idle" /\ NoScan.planned = {} /\ scan = NoScan
  BY DEF NoScan, Scans, Init
<1>3. job[Scanner] = Store!Idle /\ ~Repairing(Scanner) /\ conflicts = {}
  BY RequestFacts DEF Init, Store!Init, Repairing, Store!Idle
<1>4. ScanSound /\ UndisturbedScan
  BY <1>2, <1>3 DEF ScanSound, UndisturbedScan
<1>5. TypeOK
  BY <1>1, <1>2 DEF Init, TypeOK, StoreSound, StoreRow, Scans
<1> QED
  BY <1>1, <1>4, <1>5 DEF ReconcileInv

LEMMA ReconcileSteps == ReconcileInv /\ [Next]_vars => ReconcileInv'
<1> SUFFICES ASSUME ReconcileInv, [Next]_vars
             PROVE  ReconcileInv'
  OBVIOUS
<1>1. CASE ScanStep
  BY <1>1, StartScanKeeps, RepairNextKeeps, AbortScanKeeps, ListDocumentsKeeps,
     ReadDirectoryKeeps, PlanKeeps, SynchronizeKeeps, RepairStepKeeps, EndRepairKeeps
     DEF ScanStep
<1>2. CASE OtherStep /\ scan' = Disturbed
  BY <1>2, OthersKeep
<1>3. CASE Crash
  BY <1>3, CrashKeeps
<1>4. CASE UNCHANGED vars
  <2>1. StoreKept /\ UNCHANGED <<row, revisions, disk, job, conflicts, ignored, scan, settling, due>>
    BY <1>4, SameStore DEF ReconcileInv, vars, storeVars
  <2>2. TypeOK' /\ ScanSound'
    BY <2>1 DEF ReconcileInv, TypeOK, ScanSound, Repairing
  <2>3. UndisturbedScan'
    BY <2>1 DEF ReconcileInv, UndisturbedScan, Repairing, StillCurrent, Listing, HasPath,
       Store!Live, Store!HeadContent, DocumentsAccounted, Owed, FilesAccounted, FileAccounted
  <2> QED
    BY <2>1, <2>2, <2>3 DEF ReconcileInv, StoreKept
<1> QED
  BY <1>1, <1>2, <1>3, <1>4 DEF Next

LEMMA ReconcileAlways == Spec => []ReconcileInv
BY ReconcileInit, ReconcileSteps, PTL DEF Spec

(* reconciliation.py: a client has a conflict in hand exactly while the    *)
(* request that is to settle it is under way or has just succeeded, and    *)
(* the scan only ever plans conflicts of documents and files there are.    *)
THEOREM SettlementsAreHeld == Spec => []TypeOK
<1>1. ReconcileInv => TypeOK
  BY DEF ReconcileInv
<1> QED
  BY <1>1, ReconcileAlways, PTL

(* ReconciliationService.scan: when nobody disturbs it, a scan that has    *)
(* ended leaves no document without its file or a conflict, and no file    *)
(* that no document, conflict or choice to ignore it accounts for.         *)
THEOREM ScansAccountForTheTree == Spec => []ScanAccountsForTree
<1>1. ASSUME ReconcileInv
      PROVE  ScanAccountsForTree
  <2> SUFFICES ASSUME scan.stage = "done", scan.quiet
               PROVE  ScanAccountsForTree
    BY DEF ScanAccountsForTree
  <2>1. scan.todo = {} /\ job[Scanner] = Store!Idle
    BY <1>1 DEF ReconcileInv, ScanSound
  <2>2. \A d \in Docs : ~Owed(d)
    BY <2>1 DEF Owed, Repairing, Store!Idle
  <2> QED
    BY <1>1, <2>2 DEF ReconcileInv, UndisturbedScan, DocumentsAccounted, FilesAccounted,
       FileAccounted, ScanAccountsForTree
<1> QED
  BY <1>1, ReconcileAlways, PTL
=============================================================================
