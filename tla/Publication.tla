------------------------------ MODULE Publication ------------------------------
(***************************************************************************)
(* What becomes of files: MediaPublicationService::publish, the object     *)
(* store it uploads to (src/storage/r2.rs), and the other requests that    *)
(* put files there or take them away: the avatar upload, the admin's       *)
(* upload, delete and recommended-project form.  The topics, contents and  *)
(* recommended_projects rows they create share one name with the call that *)
(* created them; a file is named by the call and its kind.                 *)
(*                                                                         *)
(* publish holds the generation's row lock over its downloads and uploads; *)
(* its inserts become visible at the commit.  A call may fail at any       *)
(* external step, or be cut off (worker or process gone).                  *)
(***************************************************************************)
EXTENDS Naturals, FiniteSets

CONSTANTS
  Generation,   \* generations to publish
  Call,         \* calls of publish, of the admin's form and of the avatar upload
  Form,         \* the calls that may be the admin's recommended-project form
  Avatar,       \* the calls that may be avatar uploads of one user
  OutputType,   \* resolved_output_type of every generation
  NoCall,       \* NULL in a column that refers to a row
  MaxRemoved,   \* bound: objects an admin deletes by path
  MaxCutOff     \* bound: calls that are cut off

ASSUME PublicationAssumption ==
  /\ Form \subseteq Call /\ Avatar \subseteq Call
  /\ NoCall \notin Call
  /\ MaxRemoved \in Nat /\ MaxCutOff \in Nat
  /\ OutputType \in [Generation -> {"pdf", "pptx", "docx", "png", "null"}]

Publisher == Call \ (Form \cup Avatar)

VARIABLES
  store,      \* objects in the R2 bucket: <<call, kind>>
  topics,     \* ids of topics rows
  contents,   \* contents rows: the call that inserted each (its topic too)
  projects,   \* recommended_projects rows
  gen,        \* per generation: status, lock and what its columns refer to
  avatarUrl,  \* users.avatar_url: the call whose object it names
  call,       \* where each call stands
  removed,    \* objects an admin deleted by path
  ackLost     \* publish calls whose commit happened but was reported as failed

rowVars == <<topics, contents, projects>>
vars == <<store, rowVars, gen, avatarUrl, call, removed, ackLost>>

--------------------------------------------------------------------------------
(* storage/r2.rs: what may be uploaded where.                              *)

AllowedExtensions(category) ==
  CASE category = "avatars"     -> {"jpg", "jpeg", "png", "webp"}
    [] category = "gallery"     -> {"jpg", "jpeg", "png", "webp", "gif", "svg"}
    [] category = "materials"   -> {"pdf", "doc", "docx", "ppt", "pptx", "xls",
                                    "xlsx", "txt", "md"}
    [] category = "attachments" -> {"jpg", "jpeg", "png", "webp", "gif", "pdf",
                                    "doc", "docx", "zip"}
    [] OTHER                    -> {}

\* A content type stands here for its subtype; the unknown ones have no extension.
MimeToExtension(mime) ==
  IF mime \in {"jpg", "png", "webp", "gif", "svg", "pdf", "doc", "docx", "ppt",
               "pptx", "xls", "xlsx", "txt", "md", "zip"}
  THEN mime ELSE "none"

\* Size is within the category's limit (big: it is not), the type is known and
\* allowed.  Object keys hold a random part, so no upload overwrites another.
UploadAccepted(category, mime, big) ==
  ~big /\ MimeToExtension(mime) \in AllowedExtensions(category)

DefaultMimeFor(type) == IF type \in {"pdf", "pptx", "docx"} THEN type ELSE "octet-stream"

\* An artifact is judged by its first bytes and, for a PDF, its trailer.
Artifact == {[head |-> h, eof |-> e] : h \in {"empty", "%PDF", "PK"}, e \in BOOLEAN}

\* validate_integrity.
ValidateIntegrity(a, mime) ==
  /\ a.head # "empty"
  /\ mime = "pdf" => a.head = "%PDF" /\ a.eof
  /\ mime \in {"docx", "pptx"} => a.head = "PK"

--------------------------------------------------------------------------------
Init ==
  /\ store = {}
  /\ topics = {} /\ contents = {} /\ projects = {}
  /\ gen = [g \in Generation |->
              [status |-> "publishing", lock |-> NoCall, topic |-> NoCall,
               content |-> NoCall, project |-> NoCall, file |-> NoCall]]
  /\ avatarUrl = NoCall
  /\ call = [c \in Call |-> [pc |-> "idle", gen |-> CHOOSE g \in Generation : TRUE,
                             old |-> NoCall, result |-> "none"]]
  /\ removed = {}
  /\ ackLost = {}

Goto(c, pc) == call' = [call EXCEPT ![c].pc = pc]

Return(c, result) ==
  call' = [call EXCEPT ![c].pc = "done", ![c].result = result, ![c].old = NoCall]

OutputOf(g) == IF OutputType[g] = "null" THEN "pdf" ELSE OutputType[g]

\* process() starts publish after it read the row and found no entities.
StartPublish(c) ==
  /\ c \in Publisher /\ call[c].pc = "idle"
  /\ \E g \in Generation :
       /\ gen[g].topic = NoCall
       /\ call' = [call EXCEPT ![c].pc = "lock", ![c].gen = g]
  /\ UNCHANGED <<store, rowVars, gen, avatarUrl, removed, ackLost>>

\* SELECT ... FOR UPDATE, which waits for the lock; an ended row is left alone.
LockGeneration(c) ==
  LET g == call[c].gen IN
  /\ call[c].pc = "lock"
  /\ gen[g].lock = NoCall
  /\ IF gen[g].status \in {"completed", "cancelled"}
     THEN Return(c, "nothing") /\ UNCHANGED gen
     ELSE gen' = [gen EXCEPT ![g].lock = c] /\ Goto(c, "download")
  /\ UNCHANGED <<store, rowVars, avatarUrl, removed, ackLost>>

\* download_artifact and validate_integrity.
DownloadArtifact(c) ==
  /\ call[c].pc = "download"
  /\ \E a \in Artifact :
       Goto(c, IF ValidateIntegrity(a, DefaultMimeFor(OutputOf(call[c].gen)))
               THEN "thumbnail" ELSE "fail")
  /\ UNCHANGED <<store, rowVars, gen, avatarUrl, removed, ackLost>>

\* resolve_thumbnail: the renderer's picture goes to "materials" as an SVG, the
\* fallback to "gallery".  Neither path is remembered for the compensation.
ResolveThumbnail(c) ==
  /\ call[c].pc = "thumbnail"
  /\ \E category \in {"materials", "gallery"} :
       IF UploadAccepted(category, "svg", FALSE)
       THEN store' = store \cup {<<c, "thumbnail">>} /\ Goto(c, "upload")
       ELSE Goto(c, "fail") /\ UNCHANGED store
  /\ UNCHANGED <<rowVars, gen, avatarUrl, removed, ackLost>>

\* Mutant: the rows are inserted before the artifact is known to be stored.
MutantUploadArtifact(c) ==
  /\ call[c].pc = "upload"
  /\ \E big \in BOOLEAN :
       /\ store' = IF UploadAccepted("materials", DefaultMimeFor(OutputOf(call[c].gen)), big)
                   THEN store \cup {<<c, "file">>} ELSE store
       /\ Goto(c, "commit")
  /\ UNCHANGED <<rowVars, gen, avatarUrl, removed, ackLost>>

UploadArtifact(c) ==
  /\ call[c].pc = "upload"
  /\ \E big \in BOOLEAN :
       IF UploadAccepted("materials", DefaultMimeFor(OutputOf(call[c].gen)), big)
       THEN store' = store \cup {<<c, "file">>} /\ Goto(c, "commit")
       ELSE Goto(c, "fail") /\ UNCHANGED store
  /\ UNCHANGED <<rowVars, gen, avatarUrl, removed, ackLost>>

\* Mutant: the entities of an earlier publication are kept.
MutantPublish(c, g) ==
  /\ topics' = topics \cup {c}
  /\ contents' = contents \cup {c}
  /\ projects' = projects \cup {c}
  /\ gen' = [gen EXCEPT ![g] = [@ EXCEPT !.topic = IF @ = NoCall THEN c ELSE @,
                                         !.content = c, !.project = c,
                                         !.file = c, !.lock = NoCall]]

\* The inserts, the UPDATE of the generation and COMMIT.
Publish(c, g) ==
  /\ topics' = topics \cup {c}
  /\ contents' = contents \cup {c}
  /\ projects' = projects \cup {c}
  /\ gen' = [gen EXCEPT ![g] = [@ EXCEPT !.topic = c, !.content = c, !.project = c,
                                         !.file = c, !.lock = NoCall]]

CommitPublication(c) ==
  /\ call[c].pc = "commit"
  /\ Publish(c, call[c].gen)
  /\ Return(c, "ok")
  /\ UNCHANGED <<store, avatarUrl, removed, ackLost>>

\* The commit is carried out and its answer is lost: publish takes it for failed.
CommitAnswerLost(c) ==
  /\ call[c].pc = "commit"
  /\ Publish(c, call[c].gen)
  /\ ackLost' = ackLost \cup {c}
  /\ Goto(c, "fail")
  /\ UNCHANGED <<store, avatarUrl, removed>>

\* An external call or a statement fails.
StepFails(c) ==
  /\ call[c].pc \in {"download", "thumbnail", "upload", "commit"}
  /\ Goto(c, "fail")
  /\ UNCHANGED <<store, rowVars, gen, avatarUrl, removed, ackLost>>

Unlock(c) ==
  gen' = [g \in Generation |-> IF gen[g].lock = c THEN [gen[g] EXCEPT !.lock = NoCall]
                               ELSE gen[g]]

\* Mutant: nothing is deleted after a failure.
MutantCompensateUploadedFiles(c) ==
  /\ call[c].pc = "fail"
  /\ Unlock(c)
  /\ Return(c, "error")
  /\ UNCHANGED <<store, rowVars, avatarUrl, removed, ackLost>>

\* The transaction is rolled back and compensate_uploaded_files deletes the
\* artifact, the only path it was given.  A delete that fails is only logged.
CompensateUploadedFiles(c) ==
  /\ call[c].pc = "fail"
  /\ Unlock(c)
  /\ \/ store' = store \ {<<c, "file">>} /\ Return(c, "error")
     \/ store' = store /\ <<c, "file">> \in store /\ Return(c, "error, file kept")
  /\ UNCHANGED <<rowVars, avatarUrl, removed, ackLost>>

CutOffResult == {"cut off", "cut off, old avatar deleted"}

\* The process ends: the connection is closed and the lock with it.
CutOff(c) ==
  /\ call[c].pc \notin {"idle", "done"}
  /\ Cardinality({d \in Call : call[d].result \in CutOffResult}) < MaxCutOff
  /\ Unlock(c)
  /\ Return(c, IF call[c].pc = "update" THEN "cut off, old avatar deleted" ELSE "cut off")
  /\ UNCHANGED <<store, rowVars, avatarUrl, removed, ackLost>>

\* process() ends the generation after publish returned.
CompleteGeneration(g) ==
  /\ gen[g].status = "publishing" /\ gen[g].lock = NoCall
  /\ \E c \in Publisher : call[c].gen = g /\ call[c].result = "ok"
  /\ gen' = [gen EXCEPT ![g].status = "completed"]
  /\ UNCHANGED <<store, rowVars, avatarUrl, call, removed, ackLost>>

--------------------------------------------------------------------------------
(* The admin.                                                              *)

\* The recommended-project form: file, thumbnail (sent, or drawn for the file),
\* then the dates are parsed and the row inserted.  Nothing undoes an upload.
FormUpload(c) ==
  /\ c \in Form /\ call[c].pc = "idle"
  /\ \E mime \in {"pdf", "exe"}, thumb \in {"png", "pdf"} :
       LET fileOk  == UploadAccepted("materials", mime, FALSE)
           thumbOk == UploadAccepted("gallery", thumb, FALSE)
       IN  /\ store' = store \cup (IF fileOk THEN {<<c, "file">>} ELSE {})
                             \cup (IF fileOk /\ thumbOk THEN {<<c, "thumbnail">>} ELSE {})
           /\ IF fileOk /\ thumbOk THEN Goto(c, "insert") ELSE Return(c, "error")
  /\ UNCHANGED <<rowVars, gen, avatarUrl, removed, ackLost>>

FormInsert(c) ==
  /\ call[c].pc = "insert"
  /\ \/ projects' = projects \cup {c} /\ Return(c, "ok")
     \/ projects' = projects /\ Return(c, "error")       \* a date does not parse
  /\ UNCHANGED <<store, topics, contents, gen, avatarUrl, removed, ackLost>>

\* POST /admin/upload/{category}: the object stays when the activity log fails.
AdminUpload(c) ==
  /\ c \in Form /\ call[c].pc = "idle"
  /\ \E category \in {"materials", "attachments", "unknown"} :
       IF UploadAccepted(category, "zip", FALSE)
       THEN store' = store \cup {<<c, "upload">>} /\ Return(c, "ok")
       ELSE UNCHANGED store /\ Return(c, "error")
  /\ UNCHANGED <<rowVars, gen, avatarUrl, removed, ackLost>>

\* DELETE /admin/upload: any object by its path, whoever refers to it.
DeleteUpload(o) ==
  /\ Cardinality(removed) < MaxRemoved
  /\ store' = store \ {o}
  /\ removed' = removed \cup {o}
  /\ UNCHANGED <<rowVars, gen, avatarUrl, call, ackLost>>

\* Deleting rows: contents go with their topic (ON DELETE CASCADE), columns that
\* refer to a deleted row become NULL, files stay.
Forget(column, c) ==
  gen' = [g \in Generation |-> IF gen[g][column] = c
                               THEN [gen[g] EXCEPT ![column] = NoCall] ELSE gen[g]]

DeleteTopic(c) ==
  /\ c \in topics
  /\ topics' = topics \ {c}
  /\ contents' = contents \ {c}
  /\ gen' = [g \in Generation |->
               [gen[g] EXCEPT !.topic = IF @ = c THEN NoCall ELSE @,
                              !.content = IF @ = c THEN NoCall ELSE @]]
  /\ UNCHANGED <<store, projects, avatarUrl, call, removed, ackLost>>

DeleteContent(c) ==
  /\ c \in contents
  /\ contents' = contents \ {c}
  /\ Forget("content", c)
  /\ UNCHANGED <<store, topics, projects, avatarUrl, call, removed, ackLost>>

DeleteProject(c) ==
  /\ c \in projects
  /\ projects' = projects \ {c}
  /\ Forget("project", c)
  /\ UNCHANGED <<store, topics, contents, avatarUrl, call, removed, ackLost>>

--------------------------------------------------------------------------------
(* upload_avatar: upload, read the user, delete the old object, then write *)
(* the new URL.                                                            *)

AvatarUpload(c) ==
  /\ c \in Avatar /\ call[c].pc = "idle"
  /\ \E mime \in {"png", "gif"} :
       IF UploadAccepted("avatars", mime, FALSE)
       THEN store' = store \cup {<<c, "avatar">>} /\ Goto(c, "read")
       ELSE UNCHANGED store /\ Return(c, "error")
  /\ UNCHANGED <<rowVars, gen, avatarUrl, removed, ackLost>>

AvatarRead(c) ==
  /\ call[c].pc = "read"
  /\ call' = [call EXCEPT ![c].pc = "delete", ![c].old = avatarUrl]
  /\ UNCHANGED <<store, rowVars, gen, avatarUrl, removed, ackLost>>

AvatarDeleteOld(c) ==
  /\ call[c].pc = "delete"
  /\ store' = store \ {<<call[c].old, "avatar">>}
  /\ Goto(c, "update")
  /\ UNCHANGED <<rowVars, gen, avatarUrl, removed, ackLost>>

AvatarUpdate(c) ==
  /\ call[c].pc = "update"
  /\ avatarUrl' = c
  /\ Return(c, "ok")
  /\ UNCHANGED <<store, rowVars, gen, removed, ackLost>>

CallStep(c) ==
  \/ StartPublish(c) \/ LockGeneration(c) \/ DownloadArtifact(c) \/ ResolveThumbnail(c)
  \/ UploadArtifact(c) \/ CommitPublication(c) \/ CommitAnswerLost(c) \/ StepFails(c)
  \/ CompensateUploadedFiles(c) \/ CutOff(c) \/ FormUpload(c) \/ FormInsert(c)
  \/ AdminUpload(c)
  \/ AvatarUpload(c) \/ AvatarRead(c) \/ AvatarDeleteOld(c) \/ AvatarUpdate(c)

Next ==
  \/ \E c \in Call : CallStep(c) \/ DeleteTopic(c) \/ DeleteContent(c) \/ DeleteProject(c)
  \/ \E g \in Generation : CompleteGeneration(g)
  \/ \E o \in store : DeleteUpload(o)

Spec == Init /\ [][Next]_vars

--------------------------------------------------------------------------------
(* Properties.                                                             *)

\* What users can open is in the store.  The file of a content or project is,
\* unless an admin deleted the object by its path, or publish compensated for a
\* commit that had in fact been carried out.  A user's avatar is too: upload_avatar
\* deletes only the object it is about to replace, so only a request between the
\* delete and the UPDATE, or cut off there, or an admin's delete, breaks the link.
RowsHaveTheirFiles ==
  /\ \A c \in contents \cup projects :
       <<c, "file">> \in store \/ <<c, "file">> \in removed \/ c \in ackLost
  /\ \/ avatarUrl = NoCall
     \/ <<avatarUrl, "avatar">> \in store \cup removed
     \/ \E c \in Avatar : call[c].pc = "update"
                          \/ call[c].result = "cut off, old avatar deleted"

\* The entities a generation refers to come from one publication, even when two
\* workers publish it one after the other: the row lock and the transaction keep
\* publish from mixing them.
RefersToOnePublication ==
  \A g \in Generation :
    Cardinality({gen[g].topic, gen[g].content, gen[g].project, gen[g].file} \ {NoCall}) <= 1

\* A publish that failed and could delete leaves no artifact behind; what it
\* leaves is the thumbnail, which compensate_uploaded_files is never told of.
FailureLeavesOnlyTheThumbnail ==
  \A c \in Publisher :
    call[c].result = "error"
      => {o \in store : o[1] = c} \subseteq {<<c, "thumbnail">>}
================================================================================
