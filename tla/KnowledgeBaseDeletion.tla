------------------------ MODULE KnowledgeBaseDeletion ------------------------
(***************************************************************************)
(* The deletion of a knowledge base by delete_kb, and the uploads and      *)
(* imports that go on meanwhile.  The deletion clears the stores one after *)
(* the other, then marks the rows; when a store fails the base stays, and  *)
(* the administrator may delete it again.                                  *)
(***************************************************************************)
EXTENDS Naturals, FiniteSets

CONSTANTS
    Documents,    \* one file each
    Deleters,     \* requests of administrators
    MaxOutages    \* bound on the failures of stores

ASSUME DeletionAssumption == MaxOutages \in Nat

VARIABLES
    closed,       \* the knowledge base is deleted: "no", "yes"
    row,          \* rows of documents: "none", "live", "deleted"
    import,       \* upload and import of a document, by its next step
    vectors,      \* documents with vectors in Milvus
    names,        \* documents with an entry in the catalogue of item names
    objects,      \* documents with a source object in MinIO
    deleter,      \* deletions in progress
    outages,      \* failures of stores so far
    overlapped    \* ghost: documents that were imported while a deletion ran

storage == <<vectors, names, objects>>
deletion == <<closed, row, import, storage, deleter, outages, overlapped>>

Waiting == [step |-> "idle", documents |-> {}]
Importing == {d \in Documents : import[d] \notin {"none", "done", "refused"}}
Deleting == \E k \in Deleters : deleter[k].step # "idle"

DeletionInit ==
    /\ closed = "no"
    /\ row = [d \in Documents |-> "none"]
    /\ import = [d \in Documents |-> "none"]
    /\ vectors = {} /\ names = {} /\ objects = {}
    /\ deleter = [k \in Deleters |-> Waiting]
    /\ outages = 0
    /\ overlapped = {}

----------------------------------------------------------------------------
Advance(d, from, to) ==
    /\ import[d] = from
    /\ import' = [import EXCEPT ![d] = to]
    /\ UNCHANGED <<closed, deleter, outages>>

(* upload_files: the access check finds the knowledge base. *)
Accept(d) ==
    /\ closed = "no"
    /\ Advance(d, "none", "register")
    /\ overlapped' = IF Deleting THEN overlapped \cup {d} ELSE overlapped
    /\ UNCHANGED <<row, storage>>

Open == closed = "no"

(* register_document looks at the knowledge base again. *)
RegisterDocument(d) ==
    /\ \/ Open /\ Advance(d, "register", "object") /\ row' = [row EXCEPT ![d] = "live"]
       \/ ~Open /\ Advance(d, "register", "refused") /\ UNCHANGED row
    /\ UNCHANGED <<storage, overlapped>>

PutObject(d) ==
    /\ Advance(d, "object", "name")
    /\ objects' = objects \cup {d}
    /\ UNCHANGED <<row, vectors, names, overlapped>>

SaveItemName(d) ==
    /\ Advance(d, "name", "vectors")
    /\ names' = names \cup {d}
    /\ UNCHANGED <<row, vectors, objects, overlapped>>

InsertVectors(d) ==
    /\ Advance(d, "vectors", "done")
    /\ vectors' = vectors \cup {d}
    /\ UNCHANGED <<row, names, objects, overlapped>>

----------------------------------------------------------------------------
On(k, step) == deleter[k].step = step
Then(k, step) == deleter' = [deleter EXCEPT ![k].step = step]

(* delete_kb: the access check and the list of the documents. *)
BeginDeletion(k) ==
    /\ On(k, "idle")
    /\ closed = "no"
    /\ deleter' = [deleter EXCEPT ![k] = [step |-> "vectors",
                                          documents |-> {d \in Documents : row[d] = "live"}]]
    /\ overlapped' = overlapped \cup Importing
    /\ UNCHANGED <<closed, row, import, storage, outages>>

DeleteVectors(k) ==
    /\ On(k, "vectors")
    /\ vectors' = {}
    /\ Then(k, "names")
    /\ UNCHANGED <<closed, row, import, names, objects, outages, overlapped>>

DeleteItemNames(k) ==
    /\ On(k, "names")
    /\ names' = {}
    /\ Then(k, "objects")
    /\ UNCHANGED <<closed, row, import, vectors, objects, outages, overlapped>>

(* The paths were read with the list; one object after the other goes.     *)
RemoveObject(k) ==
    /\ On(k, "objects")
    /\ \/ \E d \in deleter[k].documents :
            /\ objects' = objects \ {d}
            /\ deleter' = [deleter EXCEPT ![k].documents = @ \ {d}]
       \/ /\ deleter[k].documents = {}
          /\ Then(k, "rows")
          /\ UNCHANGED objects
    /\ UNCHANGED <<closed, row, import, vectors, names, outages, overlapped>>

\* mutant: the deletion goes on without the store
AfterOutageOn(k) == [deleter EXCEPT ![k].step = "rows"]

AfterOutage(k) == [deleter EXCEPT ![k] = Waiting]

(* Any store may fail: 503, the rest stays as it is. *)
FailStore(k) ==
    /\ deleter[k].step \in {"vectors", "names", "objects"}
    /\ outages < MaxOutages
    /\ outages' = outages + 1
    /\ deleter' = AfterOutage(k)
    /\ UNCHANGED <<closed, row, import, storage, overlapped>>

(* soft_delete_knowledge_base: the second of two deletions finds nothing.  *)
MarkDeleted(k) ==
    /\ On(k, "rows")
    /\ \/ /\ closed = "no"
          /\ closed' = "yes"
          /\ row' = [d \in Documents |-> IF row[d] = "live" THEN "deleted" ELSE row[d]]
       \/ closed = "yes" /\ UNCHANGED <<closed, row>>
    /\ deleter' = [deleter EXCEPT ![k] = Waiting]
    /\ UNCHANGED <<import, storage, outages, overlapped>>

DeletionNext ==
    \/ \E d \in Documents :
        Accept(d) \/ RegisterDocument(d) \/ PutObject(d) \/ SaveItemName(d) \/ InsertVectors(d)
    \/ \E k \in Deleters :
        \/ BeginDeletion(k) \/ DeleteVectors(k) \/ DeleteItemNames(k)
        \/ RemoveObject(k) \/ FailStore(k) \/ MarkDeleted(k)

DeletionSpec == DeletionInit /\ [][DeletionNext]_deletion

----------------------------------------------------------------------------
(* "metadata, vectors, aliases, stored source objects": nothing is left of *)
(* a deleted knowledge base but what was imported while it was deleted,    *)
(* however often the deletion failed, or was asked for, before; and it     *)
(* gets no document any more, from uploads that were accepted before.      *)
DeletedBaseIsEmpty ==
    closed = "yes" =>
        /\ vectors \cup names \cup objects \subseteq overlapped
        /\ \A d \in Documents : row[d] # "live"
============================================================================
