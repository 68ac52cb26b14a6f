-------------------------- MODULE DocumentVersions --------------------------
(***************************************************************************)
(* The versions of one document: uploads of the same file name register    *)
(* them, import tasks index them, administrators rebuild them, activate    *)
(* older ones and delete the document.  The metadata is in the database,   *)
(* the vectors in Milvus, the sources in the local output directories and  *)
(* in object storage; each is written by its own call, and between two     *)
(* calls every other actor may move: the upload handler of the import      *)
(* service, an administrator's handler (the query service has it too), the *)
(* import runners and the cleanup worker.                                  *)
(*                                                                         *)
(* A task stands for one attempt at one import: its id also names its      *)
(* output directory, its object and its chunks.                            *)
(***************************************************************************)
EXTENDS Integers, Sequences, FiniteSets

CONSTANTS
    Tasks,        \* the import tasks that may be created
    Contents,     \* what an uploaded file may hold (its hash)
    None,         \* no task
    Parallel,     \* how many runners may be at work at a time
    MinIO,        \* settings.minio_enabled
    Requests,     \* what administrators do: "rebuild", "activate", "delete"
    Faults,       \* "upload": the handler dies; "disk": an output directory is lost
    MaxFailures   \* bound on failing imports and faults together

ASSUME VersionsAssumption ==
    /\ None \notin Tasks
    /\ IsFiniteSet(Tasks)
    /\ Parallel \in Nat \ {0}
    /\ MinIO \in BOOLEAN
    /\ MaxFailures \in Nat

VARIABLES
    lifecycle,   \* Document.lifecycle_status, "NONE" before the first upload
    current,     \* Document.current_version
    versions,    \* DocumentVersion rows: number -> the task that uploaded it, its hash
    active,      \* the version numbers with is_active
    path,        \* DocumentVersion.source_object_path, by number
    docPath,     \* Document.object_storage_path
    rows,        \* ImportTask rows in the order of created_at
    version,     \* ImportTask.document_version
    content,     \* what the file in the task's output directory holds
    chunks,      \* ChunkRecord rows: version number -> the task that wrote them
    vectors,     \* the imports whose chunks Milvus holds: task, version and content
    files,       \* the tasks whose output directory exists
    objects,     \* the tasks whose source is in object storage
    run,         \* where each task is
    base,        \* document.current_version as the runner of the task read it
    upload,      \* the upload handler: the task it is registering, or None
    admin,       \* an administrator's handler: the version and content it will use
    cleanup,     \* where the cleanup of the document is
    context,     \* the tasks, directories and objects the cleanup has read
    failures     \* failing imports and faults so far

document == <<lifecycle, current, versions, active, path, docPath>>
tasks == <<rows, version, content>>
stores == <<chunks, vectors, files, objects>>
runners == <<run, base>>
handlers == <<upload, admin>>
deletion == <<cleanup, context>>
vars == <<lifecycle, current, versions, active, path, docPath, rows, version, content,
          chunks, vectors, files, objects, run, base, upload, admin, cleanup, context,
          failures>>

----------------------------------------------------------------------------
Lifecycles == {"NONE", "ACTIVE", "DELETING", "DELETED"}
RunStates == {"unused", "uploading", "created", "loaded", "cleaned", "inserted", "replaced",
              "completed", "failed"}
Running(t) == run[t] \in {"loaded", "cleaned", "inserted", "replaced"}
Numbers == DOMAIN versions

(* get_document finds the row: deleted_at is null. *)
Found == lifecycle \in {"ACTIVE", "DELETING"}

(* Document.content_hash: the last registered file, whatever is active. *)
ContentHash == versions[Cardinality(Numbers)].hash

Update(f, k, x) == [i \in DOMAIN f \cup {k} |-> IF i = k THEN x ELSE f[i]]

Goto(t, state) == run' = [run EXCEPT ![t] = state]

Fail == failures < MaxFailures /\ failures' = failures + 1

NoRequest == [step |-> "idle", version |-> 0, content |-> None]

Init ==
    /\ lifecycle = "NONE"
    /\ current = 0
    /\ versions = <<>>
    /\ active = {}
    /\ path = <<>>
    /\ docPath = None
    /\ rows = <<>>
    /\ version = [t \in Tasks |-> 0]
    /\ content = [t \in Tasks |-> None]
    /\ chunks = <<>>
    /\ vectors = {}
    /\ files = {}
    /\ objects = {}
    /\ run = [t \in Tasks |-> "unused"]
    /\ base = [t \in Tasks |-> 0]
    /\ upload = None
    /\ admin = NoRequest
    /\ cleanup = "none"
    /\ context = [tasks |-> {}, directories |-> {}, objects |-> {}]
    /\ failures = 0

----------------------------------------------------------------------------
(* upload_files, one file.  The handlers of the import service, uploads and *)
(* rebuilds, have no await between their steps: one is in progress at a     *)
(* time.  An activation may come through the query service as well.         *)
ImportServiceIdle == upload = None /\ admin.step # "rebuild"

(* The number register_document gives a new version. *)
NextNumber == current + 1

(* register_document: the first version of a new document, or the next     *)
(* version of the document of that name, active before it is imported.  A  *)
(* number that exists already is refused by uq_document_version, the       *)
(* content of the last version is a duplicate: neither changes anything.   *)
Register(t) ==
    /\ ImportServiceIdle
    /\ run[t] = "unused"
    /\ \/ lifecycle = "NONE"
       \/ Found /\ NextNumber \notin Numbers
    /\ \E c \in Contents :
        /\ lifecycle # "NONE" => c # ContentHash
        /\ content' = [content EXCEPT ![t] = c]
        /\ versions' = Update(versions, NextNumber, [task |-> t, hash |-> c])
    /\ lifecycle' = IF lifecycle = "NONE" THEN "ACTIVE" ELSE lifecycle
    /\ current' = NextNumber
    /\ active' = {NextNumber}
    /\ path' = Update(path, NextNumber, None)
    /\ docPath' = None
    /\ version' = [version EXCEPT ![t] = NextNumber]
    /\ files' = files \cup {t}
    /\ upload' = t
    /\ Goto(t, "uploading")
    /\ UNCHANGED <<rows, chunks, vectors, objects, base, admin, deletion, failures>>

(* _upload_to_minio and set_document_object_path, which looks for the      *)
(* version that is current by now.                                         *)
StoreObject ==
    /\ MinIO
    /\ upload # None
    /\ upload \notin objects
    /\ objects' = objects \cup {upload}
    /\ docPath' = upload
    /\ path' = IF current \in Numbers THEN [path EXCEPT ![current] = upload] ELSE path
    /\ UNCHANGED <<lifecycle, current, versions, active, tasks, chunks, vectors, files,
                   runners, handlers, deletion, failures>>

(* create_import_task and the dispatch.  A failed object upload is logged  *)
(* and the import goes on without it.                                      *)
CreateTask ==
    /\ upload # None
    /\ rows' = Append(rows, upload)
    /\ Goto(upload, "created")
    /\ upload' = None
    /\ UNCHANGED <<document, version, content, stores, base, admin, deletion, failures>>

(* The API process dies: the version stays registered without a task. *)
AbortUpload ==
    /\ "upload" \in Faults
    /\ upload # None
    /\ Fail
    /\ upload' = None
    /\ UNCHANGED <<document, tasks, stores, runners, admin, deletion>>

----------------------------------------------------------------------------
(* An administrator's requests for another import of the document. *)

(* The file of task t, or else the object of task o. *)
Source(t, o) ==
    IF t \in files THEN content[t] ELSE IF o \in objects THEN content[o] ELSE None

(* rebuild_document: the source of the latest task, under the number of    *)
(* the current version.                                                    *)
LatestSource == Source(IF rows = <<>> THEN None ELSE rows[Len(rows)], docPath)

RequestRebuild ==
    /\ "rebuild" \in Requests
    /\ admin.step = "idle"
    /\ ImportServiceIdle
    /\ Found
    /\ LatestSource # None
    /\ admin' = [step |-> "rebuild", version |-> current, content |-> LatestSource]
    /\ UNCHANGED <<document, tasks, stores, runners, upload, deletion, failures>>

LatestSourceFor(v) == LatestSource  \* mutant: as a rebuild does

(* rebuild_document_version, for an activation or a rollback. *)
VersionSource(v) == Source(versions[v].task, path[v])

RequestActivation ==
    /\ "activate" \in Requests
    /\ admin.step = "idle"
    /\ Found
    /\ \E v \in Numbers \ active :
        /\ VersionSource(v) # None
        /\ admin' = [step |-> "activate", version |-> v, content |-> VersionSource(v)]
    /\ UNCHANGED <<document, tasks, stores, runners, upload, deletion, failures>>

Copied == admin.content

(* The task both create, with a copy of the source in its own directory. *)
CreateRequestedTask(t) ==
    /\ admin.step # "idle"
    /\ run[t] = "unused"
    /\ rows' = Append(rows, t)
    /\ version' = [version EXCEPT ![t] = admin.version]
    /\ content' = [content EXCEPT ![t] = Copied]
    /\ files' = files \cup {t}
    /\ Goto(t, "created")
    /\ admin' = NoRequest
    /\ UNCHANGED <<document, chunks, vectors, objects, base, upload, deletion, failures>>

----------------------------------------------------------------------------
(* The runner of a task. *)

(* _run_import_graph_in_context reads the task and the document once; a    *)
(* deleted document or a missing file ends the graph before Milvus.        *)
Load(t) ==
    /\ run[t] = "created"
    /\ Cardinality({u \in Tasks : Running(u)}) < Parallel
    /\ base' = [base EXCEPT ![t] = current]
    /\ Goto(t, IF Found /\ t \in files THEN "loaded" ELSE "failed")
    /\ UNCHANGED <<document, tasks, stores, handlers, deletion, failures>>

(* The vectors _step_3_clean_old_data leaves: none, whatever the version. *)
CleanedBy(t) == {}

(* node_import_milvus first deletes all chunks of the document, *)
CleanOldData(t) ==
    /\ run[t] = "loaded"
    /\ vectors' = CleanedBy(t)
    /\ Goto(t, "cleaned")
    /\ UNCHANGED <<document, tasks, chunks, files, objects, base, handlers, deletion, failures>>

(* and then inserts those of the task. *)
InsertData(t) ==
    /\ run[t] = "cleaned"
    /\ vectors' = vectors \cup {[task |-> t, version |-> version[t], content |-> content[t]]}
    /\ Goto(t, "inserted")
    /\ UNCHANGED <<document, tasks, chunks, files, objects, base, handlers, deletion, failures>>

(* replace_chunk_metadata finds the document even when it is deleted. *)
ReplaceChunks(t) ==
    /\ run[t] = "inserted"
    /\ chunks' = Update(chunks, version[t], t)
    /\ Goto(t, "replaced")
    /\ UNCHANGED <<document, tasks, vectors, files, objects, base, handlers, deletion, failures>>

NeverActivates(t) == FALSE  \* mutant: the version of the task is never activated

(* The version the runner read decides whether it activates its own. *)
NeedsActivation(t) == version[t] # base[t]

AddActive(t) == active \cup {version[t]}  \* mutant: the other versions stay active

ActiveAfter(t) == {version[t]}

(* activate_document_version, which wants a document that is not being     *)
(* deleted; then the task is completed.                                    *)
Finish(t) ==
    /\ run[t] = "replaced"
    /\ \/ /\ ~NeedsActivation(t)
          /\ Goto(t, "completed")
          /\ UNCHANGED document
       \/ /\ NeedsActivation(t)
          /\ lifecycle = "ACTIVE"
          /\ version[t] \in Numbers
          /\ active' = ActiveAfter(t)
          /\ current' = version[t]
          /\ Goto(t, "completed")
          /\ UNCHANGED <<lifecycle, versions, path, docPath>>
       \/ /\ NeedsActivation(t)
          /\ ~(lifecycle = "ACTIVE" /\ version[t] \in Numbers)
          /\ Goto(t, "failed")
          /\ UNCHANGED document
    /\ UNCHANGED <<tasks, stores, base, handlers, deletion, failures>>

(* A node or a transaction of the runner raises. *)
FailRun(t) ==
    /\ Running(t)
    /\ Fail
    /\ Goto(t, "failed")
    /\ UNCHANGED <<document, tasks, stores, base, handlers, deletion>>

(* Celery, or retry_task for the administrator, has the failed task run    *)
(* again; retry_task restores a lost file from the document's object.      *)
RetryRun(t) ==
    /\ run[t] = "failed"
    /\ \/ t \in files /\ UNCHANGED <<content, files>>
       \/ /\ t \notin files
          /\ Found
          /\ docPath \in objects
          /\ content' = [content EXCEPT ![t] = content[docPath]]
          /\ files' = files \cup {t}
    /\ Goto(t, "created")
    /\ UNCHANGED <<document, rows, version, chunks, vectors, objects, base, handlers, deletion,
                   failures>>

(* The output directory of a task is gone, with its volume. *)
LoseFile(t) ==
    /\ "disk" \in Faults
    /\ t \in files
    /\ Fail
    /\ files' = files \ {t}
    /\ UNCHANGED <<document, tasks, chunks, vectors, objects, runners, handlers, deletion>>

----------------------------------------------------------------------------
(* The deletion of the document; DocumentCleanup has its failures.         *)

RequestDeletion ==
    /\ "delete" \in Requests
    /\ lifecycle = "ACTIVE"
    /\ lifecycle' = "DELETING"
    /\ cleanup' = "context"
    /\ UNCHANGED <<current, versions, active, path, docPath, tasks, stores, runners, handlers,
                   context, failures>>

(* get_document_cleanup_context: the tasks that have a row, and the output *)
(* directories and objects that the rows refer to.                         *)
References ==
    LET withRow == {rows[i] : i \in DOMAIN rows}
    IN  [tasks       |-> withRow,
         directories |-> withRow \cup {versions[v].task : v \in Numbers},
         objects     |-> ({docPath} \cup {path[v] : v \in Numbers}) \ {None}]

LoadContext ==
    /\ cleanup = "context"
    /\ context' = References
    /\ cleanup' = "vectors"
    /\ UNCHANGED <<document, tasks, stores, runners, handlers, failures>>

CleanupVectors ==
    /\ cleanup = "vectors"
    /\ vectors' = {}
    /\ cleanup' = "object_storage"
    /\ UNCHANGED <<document, tasks, chunks, files, objects, runners, handlers, context, failures>>

CleanupObjectStorage ==
    /\ cleanup = "object_storage"
    /\ objects' = objects \ context.objects
    /\ cleanup' = "local_output"
    /\ UNCHANGED <<document, tasks, chunks, vectors, files, runners, handlers, context, failures>>

(* validated_task_output_directories refuses to remove anything when a     *)
(* directory belongs to no task that has a row.                            *)
DirectoriesAreTasks == context.directories \subseteq context.tasks

CleanupLocalOutput ==
    /\ cleanup = "local_output"
    /\ DirectoriesAreTasks
    /\ files' = files \ context.directories
    /\ cleanup' = "sql_metadata"
    /\ UNCHANGED <<document, tasks, chunks, vectors, objects, runners, handlers, context, failures>>

KeptReferences == context  \* mutant: every attempt uses the context of the first

ReloadedReferences == References

(* The stage has failed; the next attempt reads the context again and      *)
(* skips the stages the event's payload records.                           *)
RetryLocalOutput ==
    /\ cleanup = "local_output"
    /\ ~DirectoriesAreTasks
    /\ context' = ReloadedReferences
    /\ UNCHANGED <<document, tasks, stores, runners, handlers, cleanup, failures>>

(* finalize_document_deletion; the pending task rows it cancels are not    *)
(* what a runner looks at.                                                 *)
FinalizeDeletion ==
    /\ cleanup = "sql_metadata"
    /\ lifecycle' = "DELETED"
    /\ active' = {}
    /\ chunks' = <<>>
    /\ cleanup' = "done"
    /\ UNCHANGED <<current, versions, path, docPath, tasks, vectors, files, objects, runners,
                   handlers, context, failures>>

----------------------------------------------------------------------------
TaskStep(t) ==
    \/ Register(t) \/ CreateRequestedTask(t)
    \/ Load(t) \/ CleanOldData(t) \/ InsertData(t) \/ ReplaceChunks(t) \/ Finish(t)
    \/ FailRun(t) \/ RetryRun(t) \/ LoseFile(t)

CleanupStep ==
    \/ LoadContext \/ CleanupVectors \/ CleanupObjectStorage
    \/ CleanupLocalOutput \/ RetryLocalOutput \/ FinalizeDeletion

DeletionStep == RequestDeletion \/ CleanupStep

HandlerStep ==
    StoreObject \/ CreateTask \/ AbortUpload \/ RequestRebuild \/ RequestActivation

Next ==
    \/ \E t \in Tasks : TaskStep(t)
    \/ HandlerStep
    \/ DeletionStep

Spec == Init /\ [][Next]_vars

(* The cleanup goes on, an upload handler that has started finishes unless *)
(* it dies, and nothing else has to happen.                                *)
FairSpec ==
    /\ Spec
    /\ WF_vars(CleanupStep)
    /\ WF_vars(CreateTask \/ AbortUpload)
=============================================================================
