-------------------------- MODULE IndexingWorkflow --------------------------
(***************************************************************************)
(* The import graph (kb_import_workflow.py and its nodes) for documents of *)
(* one knowledge base that are indexed at the same time.  The nodes of one *)
(* import run one after the other; between two calls of a node to a store  *)
(* or a model the imports of the other documents go on.  The documents     *)
(* share the catalogue of item names; images and vectors are their own.    *)
(*                                                                         *)
(* Text and chunks are data here: how a text is split and its links are    *)
(* replaced is in DocumentSplit and MarkdownImages.                        *)
(***************************************************************************)
EXTENDS Integers, FiniteSets

CONSTANTS
    Docs,        \* documents, each imported by one task
    Items,       \* item names the model may recognise
    Images,      \* image files of a document
    Batches,     \* batches of five chunks to embed
    MaxPolls,    \* polls of MinerU within the 600 seconds
    MaxRuns,     \* runs of one import: one and its retries
    Faults,      \* "mineru", "model", "minio", "milvus", "database"
    MaxFaults    \* bound on the faults

ASSUME IndexingAssumption ==
    /\ Batches \in Nat \ {0}
    /\ MaxPolls \in Nat /\ MaxRuns \in Nat /\ MaxFaults \in Nat

VARIABLES
    kind,        \* the type of the uploaded file
    node,        \* where the import of a document is
    polls,       \* polls of MinerU in this run
    runs,        \* runs so far
    links,       \* images whose links in md_content are addresses in MinIO
    failed,      \* images whose last upload failed
    item,        \* state["item_name"]; a document stands for its file title
    embedded,    \* batches embedded in this run
    objects,     \* image objects in MinIO, by document
    catalogue,   \* entries of the item name collection: item, document
    catalogued,  \* the last run saved its entry
    vectors,     \* the chunks in Milvus, by document: item and links, or Nothing
    lost,        \* history: items whose entry a failure or a deletion removed
    faults       \* faults so far

stores == <<objects, catalogue, vectors>>
state == <<polls, links, failed, item, embedded, catalogued>>
vars == <<kind, node, polls, runs, links, failed, item, embedded, objects, catalogue,
          catalogued, vectors, lost, faults>>

Nothing == [item |-> "none", links |-> {}]
Names == Items \cup Docs
Nodes == {"node_entry", "submit", "poll", "download", "node_md_img", "clean_images",
          "upload_images", "node_document_split", "node_item_name_recognition",
          "clear_name", "save_name", "node_bge_embedding", "node_import_milvus",
          "clean_chunks", "insert_chunks"}
Running(d) == node[d] \in Nodes

Goto(d, n) == node' = [node EXCEPT ![d] = n]
Fault(f) == f \in Faults /\ faults < MaxFaults /\ faults' = faults + 1
NoFault == UNCHANGED faults

Init ==
    /\ kind \in [Docs -> {"pdf", "md"}]
    /\ node = [d \in Docs |-> "queued"]
    /\ polls = [d \in Docs |-> 0]
    /\ runs = [d \in Docs |-> 0]
    /\ links = [d \in Docs |-> {}]
    /\ failed = [d \in Docs |-> {}]
    /\ item = [d \in Docs |-> d]
    /\ embedded = [d \in Docs |-> 0]
    /\ objects = [d \in Docs |-> {}]
    /\ catalogue = {}
    /\ catalogued = [d \in Docs |-> FALSE]
    /\ vectors = [d \in Docs |-> Nothing]
    /\ lost = {}
    /\ faults = 0

----------------------------------------------------------------------------
(* A worker starts the graph, or starts it again after a retryable error:  *)
(* create_default_state, from the entry.                                   *)
Start(d) ==
    /\ node[d] \in {"queued", "failed"}
    /\ runs[d] < MaxRuns
    /\ runs' = [runs EXCEPT ![d] = @ + 1]
    /\ polls' = [polls EXCEPT ![d] = 0]
    /\ links' = [links EXCEPT ![d] = {}]
    /\ item' = [item EXCEPT ![d] = d]
    /\ embedded' = [embedded EXCEPT ![d] = 0]
    /\ catalogued' = [catalogued EXCEPT ![d] = FALSE]
    /\ Goto(d, "node_entry")
    /\ UNCHANGED <<kind, failed, stores, lost, faults>>

(* An exception in a node ends the run. *)
RunFails(d, f) ==
    /\ Fault(f)
    /\ Goto(d, "failed")
    /\ UNCHANGED <<kind, runs, state, stores, lost>>

\* mutant: the chunks of the last import are deleted at the start
EntryCleans(d) ==
    /\ node[d] = "node_entry"
    /\ vectors' = [vectors EXCEPT ![d] = Nothing]
    /\ Goto(d, IF kind[d] = "md" THEN "node_md_img" ELSE "submit")
    /\ UNCHANGED <<kind, runs, state, objects, catalogue, lost, faults>>

(* NodeEntry and _route_after_entry.  The stored file name ends in .pdf or *)
(* .md: validate_upload_metadata admits nothing else.                      *)
Entry(d) ==
    /\ node[d] = "node_entry"
    /\ Goto(d, IF kind[d] = "md" THEN "node_md_img" ELSE "submit")
    /\ UNCHANGED <<kind, runs, state, stores, lost, faults>>

(* _step_1_validate_paths and the upload of _step_2_upload_and_poll. *)
SubmitPdf(d) ==
    /\ node[d] = "submit"
    /\ \/ Goto(d, "poll") /\ NoFault /\ UNCHANGED <<kind, runs, state, stores, lost>>
       \/ RunFails(d, "mineru")

(* One turn of the loop in _step_2_upload_and_poll: done, failed, still    *)
(* working, or the time is over.                                           *)
Poll(d) ==
    /\ node[d] = "poll"
    /\ \/ /\ polls[d] >= MaxPolls
          /\ Goto(d, "failed")
          /\ UNCHANGED polls
          /\ NoFault
       \/ /\ polls[d] < MaxPolls
          /\ \/ Goto(d, "download") /\ UNCHANGED polls
             \/ polls' = [polls EXCEPT ![d] = @ + 1] /\ UNCHANGED node
          /\ NoFault
       \/ /\ polls[d] < MaxPolls
          /\ Goto(d, "failed")
          /\ UNCHANGED polls
          /\ Fault("mineru")
    /\ UNCHANGED <<kind, runs, links, failed, item, embedded, catalogued, stores, lost>>

(* _step_3_download_and_extract, with the attempts and the other addresses *)
(* of _download_with_dns_fallback.                                         *)
Download(d) ==
    /\ node[d] = "download"
    /\ \/ Goto(d, "node_md_img") /\ NoFault /\ UNCHANGED <<kind, runs, state, stores, lost>>
       \/ RunFails(d, "mineru")

(* NodeMdImg: a Markdown file was uploaded without an images directory; a  *)
(* summary that fails fails the run.                                       *)
DescribeImages(d) ==
    /\ node[d] = "node_md_img"
    /\ \/ /\ Goto(d, IF kind[d] = "md" \/ Images = {} THEN "node_document_split"
                     ELSE "clean_images")
          /\ NoFault
          /\ UNCHANGED <<kind, runs, state, stores, lost>>
       \/ kind[d] = "pdf" /\ Images # {} /\ RunFails(d, "model")

(* _clean_minio_directory: the objects of earlier runs; errors are logged. *)
CleanImages(d) ==
    /\ node[d] = "clean_images"
    /\ \/ objects' = [objects EXCEPT ![d] = {}] /\ NoFault
       \/ UNCHANGED objects /\ Fault("minio")
    /\ Goto(d, "upload_images")
    /\ UNCHANGED <<kind, runs, state, catalogue, vectors, lost>>

\* mutant: every image gets an address, uploaded or not
UploadImagesAll(d) ==
    /\ node[d] = "upload_images"
    /\ \E uploaded \in SUBSET Images :
        /\ IF uploaded = Images THEN NoFault ELSE Fault("minio")
        /\ objects' = [objects EXCEPT ![d] = @ \cup uploaded]
        /\ links' = [links EXCEPT ![d] = Images]
        /\ failed' = [failed EXCEPT ![d] = {}]
    /\ Goto(d, "node_document_split")
    /\ UNCHANGED <<kind, runs, polls, item, embedded, catalogued, catalogue, vectors, lost>>

(* _upload_images_batch and _process_md_file: an image whose upload fails  *)
(* keeps its local link.                                                   *)
UploadImages(d) ==
    /\ node[d] = "upload_images"
    /\ \E uploaded \in SUBSET Images :
        /\ IF uploaded = Images THEN NoFault ELSE Fault("minio")
        /\ objects' = [objects EXCEPT ![d] = @ \cup uploaded]
        /\ links' = [links EXCEPT ![d] = uploaded]
        /\ failed' = [failed EXCEPT ![d] = Images \ uploaded]
    /\ Goto(d, "node_document_split")
    /\ UNCHANGED <<kind, runs, polls, item, embedded, catalogued, catalogue, vectors, lost>>

(* NodeDocumentSplit: see the module DocumentSplit. *)
Split(d) ==
    /\ node[d] = "node_document_split"
    /\ Goto(d, "node_item_name_recognition")
    /\ UNCHANGED <<kind, runs, state, stores, lost, faults>>

(* _step_1 to _step_5 of NodeItemNameRecognition: any name the model       *)
(* answers; the file title when it fails; a name that cannot be embedded   *)
(* fails the run.                                                          *)
RecognizeItem(d) ==
    /\ node[d] = "node_item_name_recognition"
    /\ \/ /\ \/ \E i \in Items : item' = [item EXCEPT ![d] = i] /\ NoFault
             \/ item' = [item EXCEPT ![d] = d] /\ Fault("model")
          /\ Goto(d, "clear_name")
          /\ UNCHANGED <<kind, runs, polls, links, failed, embedded, catalogued, stores, lost>>
       \/ RunFails(d, "model")

\* mutant: the filter leaves out the item name
EntriesOfAll(d) == {e \in catalogue : TRUE}

(* _step_6_save_to_milvus deletes every entry of the name in the knowledge *)
(* base, whose document it is of; an error only skips the rest of it.      *)
EntriesOf(d) == {e \in catalogue : e.item = item[d]}

ClearName(d) ==
    /\ node[d] = "clear_name"
    /\ \/ catalogue' = catalogue \ EntriesOf(d) /\ Goto(d, "save_name") /\ NoFault
       \/ UNCHANGED catalogue /\ Goto(d, "node_bge_embedding") /\ Fault("milvus")
    /\ UNCHANGED <<kind, runs, state, objects, vectors, lost>>

SaveName(d) ==
    /\ node[d] = "save_name"
    /\ \/ /\ catalogue' = catalogue \cup {[item |-> item[d], doc |-> d]}
          /\ catalogued' = [catalogued EXCEPT ![d] = TRUE]
          /\ lost' = lost \ {item[d]}
          /\ NoFault
       \/ /\ lost' = lost \cup {item[d]}
          /\ UNCHANGED <<catalogue, catalogued>>
          /\ Fault("milvus")
    /\ Goto(d, "node_bge_embedding")
    /\ UNCHANGED <<kind, runs, polls, links, failed, item, embedded, objects, vectors>>

(* NodeBgeEmbedding, batch by batch. *)
Embed(d) ==
    /\ node[d] = "node_bge_embedding"
    /\ \/ /\ embedded' = [embedded EXCEPT ![d] = @ + 1]
          /\ Goto(d, IF embedded[d] + 1 = Batches THEN "node_import_milvus" ELSE node[d])
          /\ NoFault
          /\ UNCHANGED <<kind, runs, polls, links, failed, item, catalogued, stores, lost>>
       \/ RunFails(d, "model")

(* NodeImportMilvus, _step_1_check_input and _step_2_prepare_collection:   *)
(* every chunk has its vectors and its scope, the collection is there.     *)
Prepare(d) ==
    /\ node[d] = "node_import_milvus"
    /\ \/ Goto(d, "clean_chunks") /\ NoFault /\ UNCHANGED <<kind, runs, state, stores, lost>>
       \/ RunFails(d, "milvus")

(* _step_3_clean_old_data: the chunks of every version of the document. *)
CleanChunks(d) ==
    /\ node[d] = "clean_chunks"
    /\ \/ /\ vectors' = [vectors EXCEPT ![d] = Nothing]
          /\ Goto(d, "insert_chunks")
          /\ NoFault
          /\ UNCHANGED <<kind, runs, state, objects, catalogue, lost>>
       \/ RunFails(d, "milvus")

(* _step_4_insert_data, all chunks in one call, and what follows the graph *)
(* in the task: the chunk rows, whose failure fails the run as well.       *)
InsertChunks(d) ==
    /\ node[d] = "insert_chunks"
    /\ \/ /\ vectors' = [vectors EXCEPT ![d] = [item |-> item[d], links |-> links[d]]]
          /\ \/ Goto(d, "completed") /\ NoFault
             \/ Goto(d, "failed") /\ Fault("database")
          /\ UNCHANGED <<kind, runs, state, objects, catalogue, lost>>
       \/ RunFails(d, "milvus")

(* The cleanup of a deleted document: both collections by document, its    *)
(* objects by task.                                                        *)
DeleteDocument(d) ==
    /\ node[d] = "completed"
    /\ Goto(d, "deleted")
    /\ vectors' = [vectors EXCEPT ![d] = Nothing]
    /\ catalogue' = {e \in catalogue : e.doc # d}
    /\ lost' = lost \cup {e.item : e \in {x \in catalogue : x.doc = d}}
    /\ objects' = [objects EXCEPT ![d] = {}]
    /\ UNCHANGED <<kind, runs, state, faults>>

----------------------------------------------------------------------------
Step(d) ==
    \/ Entry(d) \/ SubmitPdf(d) \/ Poll(d) \/ Download(d)
    \/ DescribeImages(d) \/ CleanImages(d) \/ UploadImages(d)
    \/ Split(d) \/ RecognizeItem(d) \/ ClearName(d) \/ SaveName(d)
    \/ Embed(d) \/ Prepare(d) \/ CleanChunks(d) \/ InsertChunks(d)

Next == \E d \in Docs : Start(d) \/ Step(d) \/ DeleteDocument(d)

Spec == Init /\ [][Next]_vars
============================================================================
