--------------------- MODULE IndexingWorkflowProperties ---------------------
(***************************************************************************)
(* What the imports of several documents into one knowledge base are       *)
(* expected to guarantee.                                                  *)
(***************************************************************************)
EXTENDS IndexingWorkflow

(* Every variable keeps its type. *)
TypeOK ==
    /\ kind \in [Docs -> {"pdf", "md"}]
    /\ node \in [Docs -> Nodes \cup {"queued", "completed", "failed", "deleted"}]
    /\ polls \in [Docs -> 0 .. MaxPolls]
    /\ runs \in [Docs -> 0 .. MaxRuns]
    /\ links \in [Docs -> SUBSET Images]
    /\ failed \in [Docs -> SUBSET Images]
    /\ item \in [Docs -> Names]
    /\ embedded \in [Docs -> 0 .. Batches]
    /\ objects \in [Docs -> SUBSET Images]
    /\ catalogue \subseteq [item : Names, doc : Docs]
    /\ catalogued \in [Docs -> BOOLEAN]
    /\ vectors \in [Docs -> [item : Names, links : SUBSET Images] \cup {Nothing}]
    /\ lost \subseteq Names
    /\ faults \in 0 .. MaxFaults

(* The question of a user is matched with the catalogue before anything is *)
(* searched: the item name of a served document is in it, under some       *)
(* document, while imports of the same name replace each other's entry.    *)
(* Only a failed save, or the deletion of the document that owns the       *)
(* entry, loses the name of another one.                                   *)
NameFound ==
    \A d \in Docs : node[d] = "completed" /\ catalogued[d] =>
        \/ \E e \in catalogue : e.item = item[d]
        \/ \E e \in Docs \ {d} : node[e] = "save_name" /\ item[e] = item[d]
        \/ item[d] \in lost

(* A link to an image in the served chunks is to an object that exists,    *)
(* unless a later run of the same import is replacing the images, or could *)
(* not upload this one again.                                              *)
LinksResolve ==
    \A d \in Docs : node[d] # "upload_images" =>
        vectors[d].links \subseteq objects[d] \cup failed[d]

(* Chunks that are served are only taken away by a deletion, or by a run   *)
(* that has all the vectors to replace them with.                          *)
ServedUntilReplaced ==
    [][\A d \in Docs : vectors[d] # Nothing /\ vectors'[d] # vectors[d] =>
            embedded[d] = Batches \/ node'[d] = "deleted"]_vars

----------------------------------------------------------------------------
(* The inductive invariants behind these properties. *)

(* The types that the proofs need. *)
WorkflowTypeOK ==
    /\ kind \in [Docs -> {"pdf", "md"}]
    /\ node \in [Docs -> Nodes \cup {"queued", "completed", "failed", "deleted"}]
    /\ links \in [Docs -> SUBSET Images]
    /\ failed \in [Docs -> SUBSET Images]
    /\ item \in [Docs -> Names]
    /\ embedded \in [Docs -> Nat]
    /\ objects \in [Docs -> SUBSET Images]
    /\ catalogued \in [Docs -> BOOLEAN]
    /\ vectors \in [Docs -> [item : Names \cup {"none"}, links : SUBSET Images]]

BeforeImages == {"node_entry", "submit", "poll", "download", "node_md_img", "clean_images",
                 "upload_images"}
BeforeEntry == BeforeImages \cup {"node_document_split", "node_item_name_recognition",
                                 "clear_name", "save_name"}
WithVectors == {"node_import_milvus", "clean_chunks", "insert_chunks"}

(* How far a run has come by the node it is at: no links and no entry of   *)
(* its own before the nodes that make them, all the vectors before it      *)
(* touches Milvus; and its images are there for its links, and for the     *)
(* ones that are served.                                                   *)
RunInv(d) ==
    /\ node[d] \in BeforeImages => links[d] = {}
    /\ node[d] \in BeforeEntry => ~catalogued[d]
    /\ node[d] \in WithVectors => embedded[d] = Batches
    /\ node[d] # "deleted" => links[d] \subseteq objects[d]
    /\ node[d] # "upload_images" => vectors[d].links \subseteq objects[d] \cup failed[d]

RunsInv == \A d \in Docs : RunInv(d)

(* The name of a document with an entry is in the catalogue, about to be   *)
(* saved by another document, or lost, and not only when it is completed.  *)
NameKept(d) ==
    catalogued[d] =>
        \/ \E e \in catalogue : e.item = item[d]
        \/ \E e \in Docs \ {d} : node[e] = "save_name" /\ item[e] = item[d]
        \/ item[d] \in lost

NamesInv == \A d \in Docs : NameKept(d)
============================================================================
