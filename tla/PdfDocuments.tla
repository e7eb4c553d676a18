----------------------------- MODULE PdfDocuments -----------------------------
(***************************************************************************)
(* PDF documents of pdf_research.py and service.py.  The bytes of a PDF    *)
(* live on disk only, so its file is moved before the row is committed and *)
(* moved back when the commit fails; a worker claims a pending row and     *)
(* parses its pages.  One operation at a time is under way on a path or a  *)
(* document, by their locks, and the model has one at a time.              *)
(***************************************************************************)
EXTENDS Naturals, FiniteSets

CONSTANTS
    Pdfs,               \* documents; each has bytes of its own
    PdfPaths,
    NoPdf, NoPdfPath,
    Workers             \* threads of PdfExtractionScheduler

ASSUME PdfAssumption == NoPdf \notin Pdfs /\ NoPdfPath \notin PdfPaths

VARIABLES
    pdf,                \* rows of documents and pdf_documents
    pdfFile,            \* what is at each path: whose bytes, NoPdf if none
    trash,              \* the documents with a file in .sangam-trash
    fileStep,           \* the operation under way and how far it has come
    extractor,          \* the document each worker has claimed
    moved               \* documents an interrupted operation left elsewhere

pdfVars == <<pdf, pdfFile, trash, fileStep, extractor, moved>>

NoPdfRow == [state |-> "none", path |-> NoPdfPath, extraction |-> "none", pages |-> FALSE]
NoStep == [does |-> "nothing", of |-> NoPdf, from |-> NoPdfPath, to |-> NoPdfPath, at |-> "idle"]

PdfInit ==
    /\ pdf = [d \in Pdfs |-> NoPdfRow]
    /\ pdfFile = [p \in PdfPaths |-> NoPdf]
    /\ trash = {}
    /\ fileStep = NoStep
    /\ extractor = [w \in Workers |-> NoPdf]
    /\ moved = {}

Owned(p) == \E d \in Pdfs : pdf[d].state = "live" /\ pdf[d].path = p
Intact(d) == pdf[d].path # NoPdfPath /\ pdfFile[pdf[d].path] = d

Doing == fileStep.of
StepAt(place) == fileStep.at = place
Begin(does, d, from, to, at) ==
    fileStep' = [does |-> does, of |-> d, from |-> from, to |-> to, at |-> at]
PdfStepEnds == fileStep' = NoStep

-----------------------------------------------------------------------------
(* The file half of each operation, in the order its parts are done.       *)

(* import_pdf(): a file that is there already is adopted if its bytes are  *)
(* the ones uploaded.                                                      *)
ImportFile(d, p) ==
    /\ StepAt("idle") /\ pdf[d].state = "none" /\ ~Owned(p)
    /\ pdfFile[p] \in {NoPdf, d}
    /\ pdfFile' = [pdfFile EXCEPT ![p] = d]
    /\ Begin(IF pdfFile[p] = d THEN "adopt" ELSE "import", d, NoPdfPath, p, "applied")
    /\ UNCHANGED <<pdf, trash, extractor, moved>>

(* The prepare() of a move: a destination file is looked for only when     *)
(* there is a file to move.                                                *)
LinkMove(d, p) ==
    LET from == pdf[d].path
        moves == pdfFile[from] # NoPdf
    IN
    /\ StepAt("idle") /\ pdf[d].state = "live" /\ p # from /\ ~Owned(p)
    /\ moves => pdfFile[p] = NoPdf
    /\ pdfFile' = IF moves THEN [pdfFile EXCEPT ![p] = pdfFile[from]] ELSE pdfFile
    /\ Begin(IF moves THEN "move" ELSE "rename", d, from, p, IF moves THEN "linked" ELSE "applied")
    /\ UNCHANGED <<pdf, trash, extractor, moved>>

(* trash_document() verifies the bytes and retains a copy.                 *)
RetainCopy(d) ==
    /\ StepAt("idle") /\ pdf[d].state = "live" /\ Intact(d)
    /\ trash' = trash \cup {d}
    /\ Begin("delete", d, pdf[d].path, NoPdfPath, "linked")
    /\ UNCHANGED <<pdf, pdfFile, extractor, moved>>

LinkRestored(d) ==
    LET p == pdf[d].path IN
    /\ StepAt("idle") /\ pdf[d].state = "deleted" /\ ~Owned(p)
    /\ pdfFile[p] = NoPdf /\ d \in trash
    /\ pdfFile' = [pdfFile EXCEPT ![p] = d]
    /\ Begin("restore", d, NoPdfPath, p, "linked")
    /\ UNCHANGED <<pdf, trash, extractor, moved>>

(* The old name goes once the new one is there.                            *)
UnlinkOld ==
    /\ StepAt("linked")
    /\ trash' = IF fileStep.does = "restore" THEN trash \ {Doing} ELSE trash
    /\ pdfFile' = IF fileStep.from = NoPdfPath THEN pdfFile
                  ELSE [pdfFile EXCEPT ![fileStep.from] = NoPdf]
    /\ fileStep' = [fileStep EXCEPT !.at = "applied"]
    /\ UNCHANGED <<pdf, extractor, moved>>

-----------------------------------------------------------------------------
(* The transaction of _commit() and of the import                          *)

CommittedRow ==
    LET row == pdf[Doing] IN
    CASE fileStep.does \in {"import", "adopt"} ->
           [state |-> "live", path |-> fileStep.to, extraction |-> "pending", pages |-> FALSE]
      [] fileStep.does \in {"move", "rename"} -> [row EXCEPT !.path = fileStep.to]
      [] fileStep.does = "delete" -> [row EXCEPT !.state = "deleted"]
      [] fileStep.does = "restore" -> [row EXCEPT !.state = "live"]

CommitStep ==
    /\ StepAt("applied")
    /\ pdf' = [pdf EXCEPT ![Doing] = CommittedRow]
    /\ PdfStepEnds
    /\ UNCHANGED <<pdfFile, trash, extractor, moved>>

UndoneFiles ==
    CASE fileStep.does = "import" -> [pdfFile EXCEPT ![fileStep.to] = NoPdf]
      [] fileStep.does = "move" -> [pdfFile EXCEPT ![fileStep.to] = NoPdf,
                                                   ![fileStep.from] = pdfFile[fileStep.to]]
      [] fileStep.does = "delete" -> [pdfFile EXCEPT ![fileStep.from] = Doing]
      [] fileStep.does = "restore" -> [pdfFile EXCEPT ![fileStep.to] = NoPdf]
      [] OTHER -> pdfFile

UndoAdopted ==
    /\ StepAt("applied")
    /\ pdfFile' = IF fileStep.to = NoPdfPath THEN UndoneFiles
                  ELSE [UndoneFiles EXCEPT ![fileStep.to] = NoPdf]
    /\ trash' = IF fileStep.does = "restore" THEN trash \cup {Doing} ELSE trash \ {Doing}
    /\ PdfStepEnds
    /\ UNCHANGED <<pdf, extractor, moved>>

(* The commit fails: undo() of the step, or the import deletes the file it *)
(* has written; a file that was only adopted stays.                        *)
UndoStep ==
    /\ StepAt("applied")
    /\ pdfFile' = UndoneFiles
    /\ trash' = IF fileStep.does = "restore" THEN trash \cup {Doing}
                ELSE IF fileStep.does = "delete" THEN trash \ {Doing} ELSE trash
    /\ PdfStepEnds
    /\ UNCHANGED <<pdf, extractor, moved>>

(* A step or its undo fails halfway, or the process dies: nothing is       *)
(* recorded, the file stays where it is.                                   *)
LeaveHalfway ==
    /\ ~StepAt("idle")
    /\ PdfStepEnds
    /\ moved' = moved \cup {Doing}

FailStep == LeaveHalfway /\ UNCHANGED <<pdf, pdfFile, trash, extractor>>

(* A restart runs recover_interrupted_extractions() before the workers.    *)
Restart ==
    /\ IF StepAt("idle") THEN UNCHANGED <<fileStep, moved>> ELSE LeaveHalfway
    /\ extractor' = [w \in Workers |-> NoPdf]
    /\ pdf' = [d \in Pdfs |-> IF pdf[d].extraction = "processing"
                              THEN [pdf[d] EXCEPT !.extraction = "pending"] ELSE pdf[d]]
    /\ UNCHANGED <<pdfFile, trash>>

-----------------------------------------------------------------------------
(* extract_text()                                                          *)

Extraction(d, status) == [pdf EXCEPT ![d].extraction = status]

(* Only one worker's UPDATE finds the row pending, which may be of a       *)
(* document that was deleted since the worker listed it.                   *)
Claim(w, d) ==
    /\ extractor[w] = NoPdf
    /\ pdf[d].extraction = "pending"
    /\ pdf' = Extraction(d, "processing")
    /\ extractor' = [extractor EXCEPT ![w] = d]
    /\ UNCHANGED <<pdfFile, trash, fileStep, moved>>

ExtractorLeaves(w) == extractor' = [extractor EXCEPT ![w] = NoPdf]

(* pdf_stream_info() and the spooling hash the bytes they parse.           *)
StorePages(w) ==
    LET d == extractor[w] IN
    /\ d # NoPdf /\ Intact(d)
    /\ pdf' = [pdf EXCEPT ![d].extraction = IF @ = "processing" THEN "ready" ELSE @,
                          ![d].pages = TRUE]
    /\ ExtractorLeaves(w)
    /\ UNCHANGED <<pdfFile, trash, fileStep, moved>>

(* A failed parse, or shutdown, which gives the claim back.                *)
EndExtraction(w, status) ==
    LET d == extractor[w] IN
    /\ d # NoPdf
    /\ pdf' = IF pdf[d].extraction = "processing" THEN Extraction(d, status) ELSE pdf
    /\ ExtractorLeaves(w)
    /\ UNCHANGED <<pdfFile, trash, fileStep, moved>>

RetryExtraction(d) ==
    /\ pdf[d].state = "live" /\ pdf[d].extraction \in {"ready", "failed"}
    /\ pdf' = Extraction(d, "pending")
    /\ UNCHANGED <<pdfFile, trash, fileStep, extractor, moved>>

PdfNext ==
    \/ \E d \in Pdfs :
         \/ \E p \in PdfPaths : ImportFile(d, p) \/ LinkMove(d, p)
         \/ RetainCopy(d) \/ LinkRestored(d) \/ RetryExtraction(d)
         \/ \E w \in Workers : Claim(w, d)
    \/ UnlinkOld \/ CommitStep \/ UndoStep \/ FailStep \/ Restart
    \/ \E w \in Workers :
         StorePages(w) \/ EndExtraction(w, "failed") \/ EndExtraction(w, "pending")

PdfSpec == PdfInit /\ [][PdfNext]_pdfVars

-----------------------------------------------------------------------------
(* Properties.                                                             *)

PdfTypeOK ==
    /\ \A d \in Pdfs : /\ pdf[d].state \in {"none", "live", "deleted"}
                       /\ pdf[d].path \in PdfPaths \cup {NoPdfPath}
    /\ pdfFile \in [PdfPaths -> Pdfs \cup {NoPdf}]
    /\ trash \subseteq Pdfs
    /\ extractor \in [Workers -> Pdfs \cup {NoPdf}]

(* The bytes of an imported PDF are never lost, at whatever step an        *)
(* operation on it is interrupted; and unless one was, they are where the  *)
(* row says, at the path or in the trash, and not in both.                 *)
BytesSurvive ==
    \A d \in Pdfs :
        pdf[d].state # "none" =>
            /\ d \in trash \/ \E p \in PdfPaths : pdfFile[p] = d
            /\ d \notin moved /\ Doing # d =>
                 IF pdf[d].state = "live" THEN Intact(d) /\ d \notin trash
                 ELSE d \in trash /\ \A p \in PdfPaths : pdfFile[p] # d

(* "only its claimant processes it": a row that is being processed belongs *)
(* to exactly one worker, and a row that is ready has its pages.           *)
ClaimIsExclusive ==
    \A d \in Pdfs :
        /\ pdf[d].extraction = "processing" <=> \E w \in Workers : extractor[w] = d
        /\ Cardinality({w \in Workers : extractor[w] = d}) <= 1
        /\ pdf[d].extraction = "ready" => pdf[d].pages

(* The bytes of a PDF are not lost between the database and the files, and *)
(* one worker at a time extracts it.                                       *)
PdfsSurvive == BytesSurvive /\ ClaimIsExclusive
=============================================================================
