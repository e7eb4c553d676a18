--------------------------------- MODULE Projects --------------------------------
(***************************************************************************)
(* A project (projects.py) holds references: member documents with their   *)
(* roles, a purpose brief, an active draft, conversations, passages of     *)
(* member documents and a saved layout.  Every operation is one            *)
(* transaction of an administrator.  What a project refers to is trashed,  *)
(* restored and deleted elsewhere, so it stores references that it does    *)
(* not show.  A document has one passage.                                  *)
(***************************************************************************)
EXTENDS Naturals, FiniteSets

CONSTANTS
    ProjectDocuments, Threads,
    Null, Keep,                         \* Keep: a field the request leaves out
    Roles,                              \* "draft" and others
    MaxVersions                         \* versions of the project row

(* NULL and a field left out are neither documents, conversations, roles   *)
(* nor layouts.                                                            *)
ASSUME ProjectAssumption ==
    /\ Null \notin ProjectDocuments \cup Threads \cup Roles \cup {"note", "draft"}
    /\ Keep \notin ProjectDocuments \cup Threads \cup {Null}

VARIABLES
    project,    \* the row of projects
    role,       \* project_documents: the role of each member, or Null
    attached,   \* project_threads
    collected,  \* project_annotations
    trashed,    \* documents.deleted
    threads     \* chat_threads

projectVars == <<project, role, attached, collected, trashed, threads>>

NoLayout == [saved |-> FALSE, tabs |-> {}, selected |-> Null]
NoProject == [version |-> 0, brief |-> Null, active |-> Null, thread |-> Null, layout |-> NoLayout]

ProjectInit ==
    /\ project = NoProject
    /\ role = [d \in ProjectDocuments |-> Null]
    /\ attached = {}
    /\ collected = {}
    /\ trashed = {}
    /\ threads = Threads

LiveDocuments == ProjectDocuments \ trashed
Members == {d \in ProjectDocuments : role[d] # Null}
ProjectExists == project.version > 0
MayChange == ProjectExists /\ project.version < MaxVersions

-----------------------------------------------------------------------------
(* get_project() shows the members that are live                           *)

ShownDocuments == Members \cap LiveDocuments

-----------------------------------------------------------------------------
(* create_project() and delete_project(), whose rows cascade               *)

CreateProject(brief) ==
    /\ ~ProjectExists
    /\ brief \in LiveDocuments \cup {Null}
    /\ project' = [NoProject EXCEPT !.version = 1, !.brief = brief]
    /\ role' = [d \in ProjectDocuments |-> IF d = brief THEN "note" ELSE Null]
    /\ UNCHANGED <<attached, collected, trashed, threads>>

DeleteProject ==
    /\ ProjectExists
    /\ project' = NoProject
    /\ role' = [d \in ProjectDocuments |-> Null]
    /\ attached' = {} /\ collected' = {}
    /\ UNCHANGED <<trashed, threads>>

-----------------------------------------------------------------------------
(* update_project()                                                        *)

Asked(field, stored) == IF field = Keep THEN stored ELSE field

(* The purpose brief becomes a member; nothing else changes roles.         *)
RolesWith(brief) ==
    [d \in ProjectDocuments |-> IF d = brief /\ role[d] = Null THEN "note" ELSE role[d]]

(* A stored draft that has left is cleared; a draft that is asked for, or  *)
(* stays, must be a live draft other than the brief.                       *)
LiveDraft(d, roles) == d \in LiveDocuments /\ roles[d] = "draft"
NextActive(brief, active) ==
    LET wanted == Asked(active, project.active) IN
    IF active = Keep /\ wanted # Null /\ ~LiveDraft(wanted, RolesWith(brief)) THEN Null ELSE wanted
MayBeActive(d, brief) ==
    d # Null => LiveDraft(d, RolesWith(brief)) /\ d # Asked(brief, project.brief)

(* Choosing a draft selects its tab in the saved layout.                   *)
NextLayout(active, layout, chosen) ==
    IF layout # Keep THEN layout
    ELSE IF active # Keep /\ chosen # Null /\ project.layout.saved
    THEN [project.layout EXCEPT !.tabs = @ \cup {chosen}, !.selected = chosen]
    ELSE project.layout

ValidLayout(layout, brief, chosen) ==
    /\ \A d \in layout.tabs : d \in LiveDocuments /\ RolesWith(brief)[d] # Null
    /\ chosen # Null => layout.selected = chosen

UpdateProject(brief, active, thread, layout) ==
    LET chosen == NextActive(brief, active) IN
    /\ MayChange
    /\ brief \in ProjectDocuments => brief \in LiveDocuments
    /\ MayBeActive(chosen, brief)
    /\ thread \in Threads => thread \in attached
    /\ layout \notin {Keep, NoLayout} => ValidLayout(layout, brief, chosen)
    /\ role' = RolesWith(brief)
    /\ project' = [version |-> project.version + 1,
                   brief |-> Asked(brief, project.brief),
                   active |-> chosen,
                   thread |-> Asked(thread, project.thread),
                   layout |-> NextLayout(active, layout, chosen)]
    /\ UNCHANGED <<attached, collected, trashed, threads>>

-----------------------------------------------------------------------------
(* Members                                                                 *)

Touched == [project EXCEPT !.version = @ + 1]

(* add_document(): a member keeps its role, and the first draft that is    *)
(* added is chosen.                                                        *)
AddDocument(d, r) ==
    /\ MayChange /\ d \in LiveDocuments
    /\ role' = [role EXCEPT ![d] = IF @ = Null THEN r ELSE @]
    /\ project' = IF r = "draft" /\ project.active = Null /\ d # project.brief
                  THEN [Touched EXCEPT !.active = d] ELSE Touched
    /\ UNCHANGED <<attached, collected, trashed, threads>>

(* update_document()                                                       *)
ChangeRole(d, r) ==
    /\ MayChange /\ d \in ShownDocuments
    /\ role' = [role EXCEPT ![d] = r]
    /\ project' = IF r # "draft" /\ project.active = d
                  THEN [Touched EXCEPT !.active = Null] ELSE Touched
    /\ UNCHANGED <<attached, collected, trashed, threads>>

Without(d, reference) == IF reference = d THEN Null ELSE reference

RemoveDocumentOnly(d) ==
    /\ MayChange
    /\ role' = [role EXCEPT ![d] = Null]
    /\ project' = [Touched EXCEPT !.brief = Without(d, @), !.active = Without(d, @)]
    /\ UNCHANGED <<attached, collected, trashed, threads>>

(* remove_document(): its passages and the references to it with it.       *)
RemoveDocument(d) ==
    /\ MayChange
    /\ role' = [role EXCEPT ![d] = Null]
    /\ collected' = collected \ {d}
    /\ project' = [Touched EXCEPT !.brief = Without(d, @), !.active = Without(d, @)]
    /\ UNCHANGED <<attached, trashed, threads>>

AddThread(t) ==
    /\ MayChange /\ t \in threads
    /\ attached' = attached \cup {t}
    /\ project' = [Touched EXCEPT !.thread = IF @ = Null THEN t ELSE @]
    /\ UNCHANGED <<role, collected, trashed, threads>>

RemoveThread(t) ==
    /\ MayChange
    /\ attached' = attached \ {t}
    /\ project' = [Touched EXCEPT !.thread = Without(t, @)]
    /\ UNCHANGED <<role, collected, trashed, threads>>

(* add_annotation(): of a live document that is a member.                  *)
AddPassage(d) ==
    /\ MayChange /\ d \in LiveDocuments \cap Members
    /\ collected' = collected \cup {d}
    /\ project' = Touched
    /\ UNCHANGED <<role, attached, trashed, threads>>

RemovePassage(d) ==
    /\ MayChange
    /\ collected' = collected \ {d}
    /\ project' = Touched
    /\ UNCHANGED <<role, attached, trashed, threads>>

-----------------------------------------------------------------------------
(* What the other services do to the things a project refers to            *)

TrashOrRestore(d) ==
    /\ trashed' = IF d \in trashed THEN trashed \ {d} ELSE trashed \cup {d}
    /\ UNCHANGED <<project, role, attached, collected, threads>>

(* The foreign keys cascade.                                               *)
DeleteThread(t) ==
    /\ t \in threads
    /\ threads' = threads \ {t}
    /\ attached' = attached \ {t}
    /\ project' = [project EXCEPT !.thread = Without(t, @)]
    /\ UNCHANGED <<role, collected, trashed>>

Layouts == {[saved |-> TRUE, tabs |-> tabs, selected |-> selected] :
              tabs \in SUBSET ProjectDocuments, selected \in ProjectDocuments \cup {Null}}
AskedLayouts == {l \in Layouts : IF l.tabs = {} THEN l.selected = Null ELSE l.selected \in l.tabs}

ProjectNext ==
    \/ \E brief \in ProjectDocuments \cup {Null} : CreateProject(brief)
    \/ \E brief, active \in ProjectDocuments \cup {Null, Keep}, thread \in Threads \cup {Null, Keep},
          layout \in AskedLayouts \cup {Keep, NoLayout} : UpdateProject(brief, active, thread, layout)
    \/ \E d \in ProjectDocuments :
         \/ \E r \in Roles : AddDocument(d, r) \/ ChangeRole(d, r)
         \/ RemoveDocument(d) \/ AddPassage(d) \/ RemovePassage(d) \/ TrashOrRestore(d)
    \/ \E t \in Threads : AddThread(t) \/ RemoveThread(t) \/ DeleteThread(t)
    \/ DeleteProject

ProjectSpec == ProjectInit /\ [][ProjectNext]_projectVars

-----------------------------------------------------------------------------
(* Properties.                                                             *)

ProjectTypeOK ==
    /\ project.version \in 0 .. MaxVersions
    /\ \A d \in ProjectDocuments : role[d] \in Roles \cup {"note", Null}
    /\ attached \subseteq threads /\ threads \subseteq Threads

(* What a project refers to belongs to it, however members come, change    *)
(* their roles, are trashed, restored and detached: the brief and the      *)
(* active draft are members and never one document, the conversation to    *)
(* resume is attached, and every passage is of a member.                   *)
ReferencesAreMembers ==
    /\ {project.brief, project.active} \subseteq Members \cup {Null}
    /\ project.active # Null => project.active # project.brief
    /\ project.thread \in attached \cup {Null}
    /\ collected \subseteq Members
=============================================================================
