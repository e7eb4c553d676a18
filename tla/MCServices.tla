------------------------------- MODULE MCServices -------------------------------
(***************************************************************************)
(* One instance of each service for TLC.  The services share no state      *)
(* beyond the database's transactions, so one run checks them side by      *)
(* side: part names the one that moves, the others rest in their initial   *)
(* states.                                                                 *)
(***************************************************************************)
EXTENDS Access, Annotations, Publications, Tokens, Folders, OrganizationPlan, PdfDocuments,
        ChatEffects, ChatProposals, ChatPool, ChatRuns, Backups, Karakeep,
        SearchPassages, ChatContext, TLC

CONSTANTS a, b, c1, c2, d1, d2, p1, p2, r1, r2, None

VARIABLE part

(* The hits of two terms in a text of five places.                         *)
HitSetChoices == {h \in SUBSET [start : 0 .. 4, term : {1, 2}] : Cardinality(h) <= 4}

Parts == {"access", "tokens", "folders", "plans", "pdfs", "annotations",
          "search", "passages", "effects", "proposals", "pool", "runs",
          "publications", "imports", "backups",
          "task", "facts", "skills", "assignments", "projects"}

ServicesInit ==
    /\ part \in Parts
    /\ Init
    /\ part # "access" => grants = {} /\ documentPath = NoPath
    /\ part # "passages" => occurrences = {}
    /\ AnnotationInit /\ PublicationInit
    /\ TokenInit /\ FolderInit /\ PlanInit /\ PdfInit
    /\ SearchInit /\ PassageInit /\ EffectInit /\ ProposalInit /\ PoolInit /\ RunInit
    /\ ImportInit /\ BackupInit
    /\ TaskInit /\ FactInit /\ SkillInit /\ AssignmentInit /\ ProjectInit

Rest ==
    /\ UNCHANGED part
    /\ IF part = "access" THEN TRUE ELSE UNCHANGED accessVars
    /\ IF part = "tokens" THEN TRUE
       ELSE UNCHANGED tokenVars
    /\ IF part = "folders" THEN TRUE
       ELSE UNCHANGED folderVars
    /\ IF part = "plans" THEN TRUE
       ELSE UNCHANGED planVars
    /\ IF part = "pdfs" THEN TRUE
       ELSE UNCHANGED pdfVars
    /\ IF part = "annotations" THEN TRUE
       ELSE UNCHANGED annotationVars
    /\ IF part = "search" THEN TRUE
       ELSE UNCHANGED searchVars
    /\ IF part = "passages" THEN TRUE ELSE UNCHANGED passageVars
    /\ IF part = "effects" THEN TRUE ELSE UNCHANGED effectVars
    /\ IF part = "proposals" THEN TRUE
       ELSE UNCHANGED proposalVars
    /\ IF part = "pool" THEN TRUE
       ELSE UNCHANGED poolVars
    /\ IF part = "runs" THEN TRUE
       ELSE UNCHANGED runVars
    /\ IF part = "publications" THEN TRUE
       ELSE UNCHANGED publicationVars
    /\ IF part = "imports" THEN TRUE
       ELSE UNCHANGED importVars
    /\ IF part = "backups" THEN TRUE
       ELSE UNCHANGED backupVars
    /\ IF part = "task" THEN TRUE ELSE UNCHANGED taskVars
    /\ IF part = "facts" THEN TRUE ELSE UNCHANGED factVars
    /\ IF part = "skills" THEN TRUE ELSE UNCHANGED skillVars
    /\ IF part = "assignments" THEN TRUE ELSE UNCHANGED assignmentVars
    /\ IF part = "projects" THEN TRUE ELSE UNCHANGED projectVars

ServicesNext ==
    \/ part = "access" /\ Next /\ Rest
    \/ part = "tokens" /\ TokenNext /\ Rest
    \/ part = "folders" /\ FolderNext /\ Rest
    \/ part = "plans" /\ PlanNext /\ Rest
    \/ part = "pdfs" /\ PdfNext /\ Rest
    \/ part = "annotations" /\ AnnotationNext /\ Rest
    \/ part = "search" /\ SearchNext /\ Rest
    \/ part = "passages" /\ Locate /\ Rest
    \/ part = "effects" /\ EffectNext /\ Rest
    \/ part = "proposals" /\ ProposalNext /\ Rest
    \/ part = "pool" /\ PoolNext /\ Rest
    \/ part = "runs" /\ RunNext /\ Rest
    \/ part = "publications" /\ PublicationNext /\ Rest
    \/ part = "imports" /\ ImportNext /\ Rest
    \/ part = "backups" /\ BackupNext /\ Rest
    \/ part = "task" /\ TaskNext /\ Rest
    \/ part = "facts" /\ FactNext /\ Rest
    \/ part = "skills" /\ SkillNext /\ Rest
    \/ part = "assignments" /\ AssignmentNext /\ Rest
    \/ part = "projects" /\ ProjectNext /\ Rest

vars == <<accessVars, tokenVars, folderVars, planVars, pdfVars,
          annotationVars, searchVars, passageVars, effectVars,
          proposalVars, poolVars, runVars, publicationVars, importVars, backupVars,
          taskVars, factVars, skillVars, assignmentVars, projectVars, part>>

ServicesSpec == ServicesInit /\ [][ServicesNext]_vars

(* Services at rest keep their initial state: a state is known by the part  *)
(* that moves.                                                             *)
ServicesView ==
    <<part,
      CASE part = "access" -> accessVars
        [] part = "tokens" -> tokenVars
        [] part = "folders" -> folderVars
        [] part = "plans" -> planVars
        [] part = "pdfs" -> pdfVars
        [] part = "annotations" -> annotationVars
        [] part = "search" -> searchVars
        [] part = "passages" -> passageVars
        [] part = "effects" -> effectVars
        [] part = "proposals" -> proposalVars
        [] part = "pool" -> poolVars
        [] part = "runs" -> runVars
        [] part = "publications" -> publicationVars
        [] part = "imports" -> importVars
        [] part = "backups" -> backupVars
        [] part = "task" -> taskVars
        [] part = "facts" -> factVars
        [] part = "skills" -> skillVars
        [] part = "assignments" -> assignmentVars
        [] part = "projects" -> projectVars>>

-----------------------------------------------------------------------------
(* The instance of Access                                                  *)

PrefixSet == {<<>>, <<"a">>, <<"a", "b">>, <<"b">>}
PathSet == {<<"a", "n">>, <<"a", "b", "n">>, <<"b", "n">>}

GrantsOf(capabilities, prefixes) == [capability : capabilities, prefix : prefixes]

GrantSet ==
    LET choices == {{}, {<<>>}, {<<"a">>}, {<<"a", "b">>, <<"b">>}, {<<"a">>, <<"a", "b">>}} IN
    {GrantsOf({"read"}, r) \cup GrantsOf({"search", "update", "move", "create"}, s) :
       r \in choices, s \in choices}

(* Callers, workers and reviewers are alike.                               *)
ServiceSymmetry == Permutations({c1, c2})

(* Two turns answer one message; the second one's model calls no tool.     *)
ItemOfTurn == [t \in {a, b} |-> r1]
ToolCalls == [t \in {a, b} |-> IF t = a THEN 1 ELSE 0]

(* The first revision of the skill refers to a resource, the one after it  *)
(* does not.                                                               *)
SkillReferences == {<<[of |-> d1, number |-> 1], r1>>}

(* One review is delegated by the other, and both resume after a restart.  *)
Delegations == [x \in {a, b} |-> IF x = a THEN None ELSE a]
ResumesAfterRestart == [x \in {a, b} |-> TRUE]

-----------------------------------------------------------------------------
(* The properties of the services are written where they are defined; here *)
(* are the types of all.                                                   *)

(* Every row has the shape its table's constraints and columns give it;    *)
(* the rows of the services that rest are those of their initial states.   *)
TypesOK ==
    /\ part = "access" => TypeOK
    /\ part = "tokens" => TokenTypeOK
    /\ part = "folders" => FolderTypeOK
    /\ part = "plans" => PlanTypeOK
    /\ part = "pdfs" => PdfTypeOK
    /\ part = "annotations" => AnnotationTypeOK
    /\ part = "search" => SearchTypeOK
    /\ part = "effects" => EffectTypeOK
    /\ part = "proposals" => ProposalTypeOK
    /\ part = "pool" => PoolTypeOK
    /\ part = "runs" => RunTypeOK
    /\ part = "publications" => PublicationTypeOK
    /\ part = "imports" => ImportTypeOK
    /\ part = "backups" => BackupTypeOK
    /\ part = "task" => TaskTypeOK
    /\ part = "facts" => FactTypeOK
    /\ part = "skills" => SkillTypeOK
    /\ part = "assignments" => AssignmentTypeOK
    /\ part = "projects" => ProjectTypeOK
=============================================================================
