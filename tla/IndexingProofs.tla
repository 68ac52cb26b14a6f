--------------------------- MODULE IndexingProofs ---------------------------
(***************************************************************************)
(* Proofs about the imports of any number of documents into a knowledge    *)
(* base, with any number of retries and faults, and about the upgrade of   *)
(* its collection by any number of imports.                                *)
(***************************************************************************)
EXTENDS MCIndexing, Functions, FiniteSetTheorems, TLAPS

(***************************************************************************)
(* The import workflow.  A step belongs to one document.                   *)
(***************************************************************************)

Acts(d) == Start(d) \/ Step(d) \/ DeleteDocument(d)

LEMMA OneActs == Next <=> \E d \in Docs : Acts(d)
BY DEF Next, Acts

LEMMA Kinds ==
    /\ \A d \in Docs : d \in Names
    /\ \A i \in Items : i \in Names
    /\ Nothing \in [item : Names \cup {"none"}, links : SUBSET Images]
    /\ Nothing.links = {}
BY DEF Names, Nothing

(* What a document keeps while another one goes on. *)
Untouched(e) ==
    /\ node'[e] = node[e] /\ links'[e] = links[e] /\ failed'[e] = failed[e]
    /\ item'[e] = item[e] /\ embedded'[e] = embedded[e] /\ objects'[e] = objects[e]
    /\ catalogued'[e] = catalogued[e] /\ vectors'[e] = vectors[e]

LEMMA RunStep ==
    ASSUME WorkflowTypeOK, NEW d \in Docs, RunInv(d), Acts(d)
    PROVE  /\ WorkflowTypeOK'
           /\ RunInv(d)'
           /\ \A e \in Docs \ {d} : Untouched(e)
<1> USE DEF WorkflowTypeOK, Untouched, RunInv, Goto, stores, state, RunFails, BeforeImages, BeforeEntry,
        WithVectors, Nodes
<1> DEFINE Fine == WorkflowTypeOK' /\ RunInv(d)' /\ \A e \in Docs \ {d} : Untouched(e)
<1>0. ASSUME NEW f, RunFails(d, f), node[d] \in Nodes \ {"upload_images"} PROVE Fine
  BY <1>0
<1>1. CASE Start(d)
  BY <1>1, Kinds DEF Start
<1>2. CASE Entry(d)
  BY <1>2 DEF Entry
<1>3. CASE SubmitPdf(d) \/ Download(d)
  BY <1>3 DEF SubmitPdf, Download
<1>4. CASE Poll(d)
  BY <1>4 DEF Poll
<1>5. CASE DescribeImages(d)
  BY <1>5 DEF DescribeImages
<1>6. CASE CleanImages(d)
  BY <1>6 DEF CleanImages
<1>7. CASE UploadImages(d)
  BY <1>7 DEF UploadImages
<1>8. CASE Split(d)
  BY <1>8 DEF Split
<1>9. CASE RecognizeItem(d)
  <2>1. ASSUME NEW i \in Names, item' = [item EXCEPT ![d] = i], Goto(d, "clear_name"),
               UNCHANGED <<kind, links, failed, embedded, catalogued, stores>>
        PROVE  Fine
    BY <1>9, <2>1 DEF RecognizeItem
  <2>2. CASE RunFails(d, "model")
    BY <1>0, <1>9, <2>2 DEF RecognizeItem
  <2>3. ASSUME ~RunFails(d, "model")
        PROVE  \E i \in Names : /\ item' = [item EXCEPT ![d] = i] /\ Goto(d, "clear_name")
                                /\ UNCHANGED <<kind, links, failed, embedded, catalogued, stores>>
    BY <1>9, <2>3, Kinds DEF RecognizeItem
  <2> QED
    BY <2>1, <2>2, <2>3
<1>10. CASE ClearName(d)
  BY <1>10 DEF ClearName
<1>11. CASE SaveName(d)
  BY <1>11 DEF SaveName
<1>12. CASE Embed(d)
  BY <1>12 DEF Embed
<1>13. CASE Prepare(d)
  BY <1>13 DEF Prepare
<1>14. CASE CleanChunks(d)
  <2>1. ASSUME vectors' = [vectors EXCEPT ![d] = Nothing]
        PROVE  /\ vectors' \in [Docs -> [item : Names \cup {"none"}, links : SUBSET Images]]
               /\ vectors'[d].links = {}
    BY <2>1, Kinds
  <2>2. CASE RunFails(d, "milvus")
    BY <1>14, <2>2 DEF CleanChunks
  <2>3. CASE ~RunFails(d, "milvus")
    BY <1>14, <2>1, <2>3 DEF CleanChunks
  <2> QED
    BY <2>2, <2>3
<1>15. CASE InsertChunks(d)
  <2>1. ASSUME vectors' = [vectors EXCEPT ![d] = [item |-> item[d], links |-> links[d]]]
        PROVE  /\ vectors' \in [Docs -> [item : Names \cup {"none"}, links : SUBSET Images]]
               /\ vectors'[d].links = links[d]
    BY <2>1
  <2>2. CASE RunFails(d, "milvus")
    BY <1>15, <2>2 DEF InsertChunks
  <2>3. CASE ~RunFails(d, "milvus")
    BY <1>15, <2>1, <2>3 DEF InsertChunks
  <2> QED
    BY <2>2, <2>3
<1>16. CASE DeleteDocument(d)
  BY <1>16, Kinds DEF DeleteDocument
<1> QED
  BY <1>1, <1>2, <1>3, <1>4, <1>5, <1>6, <1>7, <1>8, <1>9, <1>10, <1>11, <1>12, <1>13, <1>14,
     <1>15, <1>16 DEF Acts, Step

(* A document whose own import does not move keeps what it has reached. *)
LEMMA RunElsewhere ==
    ASSUME NEW e \in Docs, RunInv(e), Untouched(e)
    PROVE  RunInv(e)'
BY DEF RunInv, Untouched

LEMMA RunsHold == Spec => [](WorkflowTypeOK /\ RunsInv)
<1>1. Init => WorkflowTypeOK /\ RunsInv
  BY Kinds DEF Init, WorkflowTypeOK, RunsInv, RunInv, BeforeImages, BeforeEntry, WithVectors
<1>2. WorkflowTypeOK /\ RunsInv /\ [Next]_vars => (WorkflowTypeOK /\ RunsInv)'
  <2> SUFFICES ASSUME WorkflowTypeOK, RunsInv, [Next]_vars
               PROVE  WorkflowTypeOK' /\ RunsInv'
    OBVIOUS
  <2>1. CASE UNCHANGED vars
    BY <2>1 DEF vars, WorkflowTypeOK, RunsInv, RunInv
  <2>2. ASSUME NEW d \in Docs, Acts(d) PROVE WorkflowTypeOK' /\ RunsInv'
    BY <2>2, RunStep, RunElsewhere DEF RunsInv
  <2> QED
    BY <2>1, <2>2, OneActs
<1> QED
  BY <1>1, <1>2, PTL DEF Spec

(* node_md_img: a link of the served chunks is to an object that is there, *)
(* or to one that the last run failed to upload again, however often the   *)
(* imports are run and wherever they fail.                                 *)
THEOREM LinksAreServed == Spec => []LinksResolve
<1>1. RunsInv => LinksResolve
  BY DEF RunsInv, RunInv, LinksResolve
<1> QED
  BY <1>1, RunsHold, PTL

(* _step_3_clean_old_data comes after all that can fail before it: only a  *)
(* deletion, or a run with all its vectors, takes served chunks away.      *)
THEOREM ChunksAreServedUntilReplaced == Spec => ServedUntilReplaced
<1> DEFINE Spared(d) == vectors[d] # Nothing /\ vectors'[d] # vectors[d] =>
                          embedded[d] = Batches \/ node'[d] = "deleted"
<1>1. ASSUME WorkflowTypeOK, RunsInv, NEW e \in Docs, Acts(e) PROVE \A d \in Docs : Spared(d)
  <2>1. RunInv(e)
    BY <1>1 DEF RunsInv
  <2>2. ASSUME vectors'[e] # vectors[e] PROVE embedded[e] = Batches \/ node'[e] = "deleted"
    <3> USE DEF stores, state, RunFails, Goto
    <3>1. CASE CleanChunks(e) \/ InsertChunks(e)
      BY <2>1, <3>1 DEF CleanChunks, InsertChunks, RunInv, WithVectors
    <3>2. CASE DeleteDocument(e)
      BY <1>1, <3>2 DEF DeleteDocument, WorkflowTypeOK
    <3>3. CASE \/ Start(e) \/ Entry(e) \/ SubmitPdf(e) \/ Poll(e) \/ Download(e)
               \/ DescribeImages(e) \/ CleanImages(e) \/ UploadImages(e)
      BY <2>2, <3>3 DEF Start, Entry, SubmitPdf, Poll, Download, DescribeImages, CleanImages, UploadImages
    <3>4. CASE \/ Split(e) \/ RecognizeItem(e) \/ ClearName(e) \/ SaveName(e)
               \/ Embed(e) \/ Prepare(e)
      BY <2>2, <3>4 DEF Split, RecognizeItem, ClearName, SaveName, Embed, Prepare
    <3> QED
      BY <1>1, <3>1, <3>2, <3>3, <3>4 DEF Acts, Step
  <2> QED
    BY <1>1, <2>1, <2>2, RunStep DEF Untouched
<1>2. WorkflowTypeOK /\ RunsInv /\ [Next]_vars => [\A d \in Docs : Spared(d)]_vars
  BY <1>1, OneActs
<1> HIDE DEF Spared
<1>3. Spec => [][\A d \in Docs : Spared(d)]_vars
  BY <1>2, RunsHold, PTL DEF Spec
<1> QED
  BY <1>3 DEF ServedUntilReplaced, Spared

(***************************************************************************)
(* The catalogue of item names.                                            *)
(***************************************************************************)

(* The steps that leave the catalogue, and what was lost of it, alone. *)
LEMMA NameSteps ==
    ASSUME WorkflowTypeOK, NEW d \in Docs, RunInv(d), Acts(d),
           ~ClearName(d), ~SaveName(d), ~DeleteDocument(d)
    PROVE  /\ UNCHANGED <<catalogue, lost>> /\ node[d] # "save_name"
           /\ catalogued'[d] => catalogued[d] /\ item'[d] = item[d]
<1> USE DEF stores, state, RunFails, Goto
<1>1. CASE Start(d)
  BY <1>1 DEF Start, WorkflowTypeOK
<1>2. CASE \/ Entry(d) \/ SubmitPdf(d) \/ Poll(d) \/ Download(d)
           \/ DescribeImages(d) \/ CleanImages(d) \/ UploadImages(d)
  BY <1>2 DEF Entry, SubmitPdf, Poll, Download, DescribeImages, CleanImages, UploadImages
<1>3. CASE RecognizeItem(d)
  BY <1>3 DEF RecognizeItem, RunInv, BeforeEntry
<1>4. CASE Split(d) \/ Embed(d) \/ Prepare(d) \/ CleanChunks(d) \/ InsertChunks(d)
  BY <1>4 DEF Split, Embed, Prepare, CleanChunks, InsertChunks
<1> QED
  BY <1>1, <1>2, <1>3, <1>4 DEF Acts, Step

LEMMA NamesStep ==
    ASSUME WorkflowTypeOK, RunsInv, NamesInv, NEW d \in Docs, Acts(d)
    PROVE  NamesInv'
<1>1. /\ RunInv(d) /\ RunInv(d)' /\ WorkflowTypeOK'
      /\ \A e \in Docs \ {d} : /\ node'[e] = node[e] /\ item'[e] = item[e]
                                /\ catalogued'[e] = catalogued[e]
  BY RunStep DEF RunsInv, Untouched
<1>2. CASE ~ClearName(d) /\ ~SaveName(d) /\ ~DeleteDocument(d)
  <2>1. /\ UNCHANGED <<catalogue, lost>> /\ node[d] # "save_name"
        /\ catalogued'[d] => catalogued[d] /\ item'[d] = item[d]
    BY <1>1, <1>2, NameSteps
  <2> QED
    BY <1>1, <2>1 DEF NamesInv, NameKept
<1>3. CASE ClearName(d)
  <2>1. /\ node[d] = "clear_name" /\ UNCHANGED <<item, catalogued, lost>> /\ ~catalogued[d]
    BY <1>1, <1>3 DEF ClearName, state, RunInv, BeforeEntry
  <2>2. CASE UNCHANGED catalogue
    BY <1>1, <2>1, <2>2 DEF NamesInv, NameKept
  <2>3. CASE catalogue' = catalogue \ EntriesOf(d) /\ Goto(d, "save_name")
    <3>1. /\ node'[d] = "save_name"
          /\ \A e \in catalogue : e.item # item[d] => e \in catalogue'
      BY <2>3 DEF Goto, WorkflowTypeOK, EntriesOf
    <3> QED
      BY <1>1, <2>1, <3>1 DEF NamesInv, NameKept
  <2> QED
    BY <1>3, <2>2, <2>3 DEF ClearName
<1>4. CASE SaveName(d)
  <2>1. node[d] = "save_name" /\ UNCHANGED item /\ catalogue \subseteq catalogue'
    BY <1>4 DEF SaveName
  <2>2. CASE /\ [item |-> item[d], doc |-> d] \in catalogue'
             /\ lost' = lost \ {item[d]}
    <3>1. \E e \in catalogue' : e.item = item[d]
      BY <2>2
    <3> QED
      BY <1>1, <2>1, <2>2, <3>1 DEF NamesInv, NameKept
  <2>3. CASE lost' = lost \cup {item[d]}
    BY <1>1, <2>1, <2>3 DEF NamesInv, NameKept
  <2> QED
    BY <1>4, <2>2, <2>3 DEF SaveName
<1>5. CASE DeleteDocument(d)
  <2>1. /\ node[d] = "completed" /\ UNCHANGED <<item, catalogued>>
        /\ \A e \in catalogue : e \in catalogue' \/ e.item \in lost'
        /\ lost \subseteq lost'
    BY <1>5 DEF DeleteDocument, state
  <2> QED
    BY <1>1, <2>1 DEF NamesInv, NameKept
<1> QED
  BY <1>2, <1>3, <1>4, <1>5

(* _step_6_save_to_milvus: imports of the same item delete each other's    *)
(* entry before they save their own, and the name of every document that   *)
(* has one stays in the catalogue, but for failures and deletions.         *)
THEOREM NamesAreFound == Spec => []NameFound
<1>1. Init => NamesInv
  BY DEF Init, NamesInv, NameKept
<1>2. WorkflowTypeOK /\ RunsInv /\ NamesInv /\ [Next]_vars => NamesInv'
  <2> SUFFICES ASSUME WorkflowTypeOK, RunsInv, NamesInv, [Next]_vars PROVE NamesInv'
    OBVIOUS
  <2>1. CASE UNCHANGED vars
    BY <2>1 DEF vars, NamesInv, NameKept
  <2> QED
    BY <2>1, NamesStep, OneActs
<1>3. NamesInv => NameFound
  BY DEF NamesInv, NameKept, NameFound
<1> QED
  BY <1>1, <1>2, <1>3, RunsHold, PTL DEF Spec

(***************************************************************************)
(* The collection.  What an assignment to the collections does to each of  *)
(* them.                                                                   *)
(***************************************************************************)

CollectionType == [schema : {"legacy", "extended", "dynamic", "v2"}, rows : [Rows -> Nat]]
Typed(cs) == DOMAIN cs \subseteq CollectionNames /\ \A n \in DOMAIN cs : cs[n] \in CollectionType

LEMMA NamesDiffer ==
    /\ Live \in CollectionNames /\ Target \in CollectionNames /\ Live # Target
    /\ \A p \in Imports : Backup(p) \in CollectionNames /\ Backup(p) # Live /\ Backup(p) # Target
    /\ \A p, q \in Imports : Backup(p) = Backup(q) => p = q
    /\ NoAlias # Target
BY DEF Live, Target, Backup, CollectionNames, NoAlias

LEMMA Bags ==
    /\ NoRows \in [Rows -> Nat]
    /\ \A rows : Bag(rows) \in [Rows -> Nat]
    /\ \A b \in [Rows -> Nat], r \in Rows :
        /\ Plus(b, r) \in [Rows -> Nat]
        /\ Plus(b, r)[r] = b[r] + 1
        /\ \A s \in Rows \ {r} : Plus(b, r)[s] = b[s]
    /\ \A b \in [Rows -> Nat], r \in Rows : b[r] > 0 =>
        /\ Minus(b, r) \in [Rows -> Nat]
        /\ Minus(b, r)[r] = b[r] - 1
        /\ \A s \in Rows \ {r} : Minus(b, r)[s] = b[s]
BY DEF NoRows, Bag, Plus, Minus

LEMMA OneRowOver ==
    ASSUME NEW a \in [Rows -> Nat], NEW b \in [Rows -> Nat], NEW r \in Rows, b[r] > 0
    PROVE  \A s \in Rows : Plus(a, r)[s] + Minus(b, r)[s] = a[s] + b[s]
BY DEF Plus, Minus

LEMMA OneRowMore ==
    ASSUME NEW a \in [Rows -> Nat], NEW r \in Rows
    PROVE  Plus(a, r)[r] > 0 /\ \A s \in Rows : a[s] > 0 => Plus(a, r)[s] > 0
BY DEF Plus

LEMMA PutEffect ==
    ASSUME Typed(collections), NEW name \in CollectionNames, NEW c \in CollectionType, Put(name, c)
    PROVE  /\ Typed(collections')
           /\ DOMAIN collections' = DOMAIN collections \cup {name}
           /\ collections'[name] = c
           /\ \A n \in DOMAIN collections \ {name} : collections'[n] = collections[n]
BY DEF Put, Typed

LEMMA InsertEffect ==
    ASSUME Typed(collections), NEW name \in DOMAIN collections, NEW r \in Rows, InsertRow(name, r)
    PROVE  /\ Typed(collections')
           /\ DOMAIN collections' = DOMAIN collections
           /\ collections'[name].schema = collections[name].schema
           /\ collections'[name].rows = Plus(collections[name].rows, r)
           /\ \A n \in DOMAIN collections \ {name} : collections'[n] = collections[n]
<1> DEFINE c == [collections[name] EXCEPT !.rows = Plus(@, r)]
<1>1. collections[name] \in CollectionType /\ name \in CollectionNames
  BY DEF Typed
<1>2. Plus(collections[name].rows, r) \in [Rows -> Nat]
  BY <1>1, Bags DEF CollectionType
<1>3. /\ c \in CollectionType /\ c.schema = collections[name].schema
      /\ c.rows = Plus(collections[name].rows, r)
  BY <1>1, <1>2 DEF CollectionType
<1>4. Put(name, c)
  BY DEF InsertRow
<1> HIDE DEF c
<1>5. DOMAIN collections \cup {name} = DOMAIN collections
  OBVIOUS
<1> QED
  BY <1>1, <1>3, <1>4, <1>5, PutEffect

LEMMA RenameEffect ==
    ASSUME Typed(collections), NEW p \in Imports, Exists(Live), ~Exists(Backup(p)),
           collections' = Renamed(Live, Backup(p), collections)
    PROVE  /\ Typed(collections')
           /\ DOMAIN collections' = (DOMAIN collections \ {Live}) \cup {Backup(p)}
           /\ collections'[Backup(p)] = collections[Live]
           /\ \A n \in DOMAIN collections \ {Live} : collections'[n] = collections[n]
BY NamesDiffer DEF Typed, Renamed, Exists

LEMMA RestoreEffect ==
    ASSUME Typed(collections), NEW p \in Imports, Exists(Backup(p)), collections' = Restored(p)
    PROVE  /\ Typed(collections')
           /\ DOMAIN collections' = (DOMAIN collections \ {Backup(p)}) \cup {Live}
           /\ collections'[Live] = collections[Backup(p)]
           /\ \A n \in DOMAIN collections \ {Live, Backup(p)} : collections'[n] = collections[n]
BY NamesDiffer DEF Typed, Restored, Renamed, Exists

(* The types, and that an upgrade finds what it works on.                  *)
CollectionsInv == CollectionsTypeOK /\ StepsInv

LEMMA TypedCollections == CollectionsTypeOK => Typed(collections)
BY DEF CollectionsTypeOK, Typed, CollectionType

ByImport(p) ==
    \/ PrepareCollection(p) \/ Describe(p) \/ AddFields(p)
    \/ ReadRows(p) \/ RenameToBackup(p) \/ CreateDynamic(p) \/ CopyRows(p)
    \/ Restore(p) \/ Insert(p) \/ Crash(p) \/ Again(p)
ByScript == ReadSource \/ CreateTarget \/ CopyToTarget \/ Verify \/ StopScript

LEMMA OneUpgrades ==
    UpgradeNext <=> ((\E p \in Imports : ByImport(p)) \/ ByScript) /\ UNCHANGED addField
BY DEF UpgradeNext, ByImport, ByScript

LEMMA ImportKeepsTypes ==
    ASSUME CollectionsInv, NEW p \in Imports, ByImport(p), UNCHANGED addField
    PROVE  CollectionsInv'
<1> USE CollectionsAssumption, NamesDiffer, Bags DEF CollectionsInv, CollectionsTypeOK, StepsInv,
        Exists, Move, operator, Outage, Abandon, Release, None
<1>0. Typed(collections)
  BY TypedCollections
<1>1. ASSUME NEW c \in CollectionType, Put(Live, c), UNCHANGED operator,
             NEW s \in {"describe", "insert", "copy"}, Move(p, s), s = "copy" => step[p] = "create",
             UNCHANGED memory, lock' \in {lock, None}, outages' = outages
      PROVE  CollectionsInv'
  <2>1. Typed(collections') /\ DOMAIN collections' = DOMAIN collections \cup {Live}
    BY <1>0, <1>1, PutEffect
  <2>2. step' \in [Imports -> {"idle", "describe", "add_fields", "read", "rename", "create", "copy",
                               "restore", "insert", "done", "failed", "crashed"}]
    BY <1>1
  <2>3. CollectionsTypeOK'
    BY <1>1, <2>1, <2>2 DEF Typed, CollectionType
  <2>4. StepsInv'
    BY <1>1, <2>1
  <2> QED
    BY <2>3, <2>4
<1>2. ASSUME NEW name \in DOMAIN collections, NEW r \in Rows, InsertRow(name, r)
      PROVE  Typed(collections') /\ DOMAIN collections' = DOMAIN collections
  BY <1>0, <1>2, InsertEffect
<1>3. CASE PrepareCollection(p)
  <2>1. CASE Exists(Live)
    BY <1>3, <2>1 DEF PrepareCollection
  <2>2. CASE ~Exists(Live)
    <3>1. Collection("dynamic", NoRows) \in CollectionType
      BY DEF Collection, CollectionType
    <3> QED
      BY <1>1, <1>3, <2>2, <3>1 DEF PrepareCollection
  <2> QED
    BY <2>1, <2>2
<1>4. CASE Describe(p)
  <2>1. /\ UNCHANGED <<collections, memory, operator, outages>> /\ step[p] = "describe"
        /\ lock' \in {lock, p}
        /\ \/ Move(p, "add_fields") /\ addField
           \/ Move(p, "read") /\ ~addField
           \/ Move(p, "insert")
           \/ Move(p, "failed")
    BY <1>4 DEF Describe, Take
  <2>2. CASE Move(p, "add_fields") /\ addField
    BY <2>1, <2>2
  <2>3. CASE Move(p, "read") /\ ~addField
    BY <2>1, <2>3
  <2>4. CASE Move(p, "insert")
    BY <2>1, <2>4
  <2>5. CASE Move(p, "failed")
    BY <2>1, <2>5
  <2> QED
    BY <2>1, <2>2, <2>3, <2>4, <2>5
<1>5. CASE AddFields(p)
  <2> DEFINE c == [collections[Live] EXCEPT !.schema = IF @ = "legacy" THEN "extended" ELSE @]
  <2>1. Exists(Live) /\ collections[Live] \in CollectionType
    BY <1>5 DEF AddFields, CollectionType
  <2>2. c \in CollectionType
    BY <2>1 DEF CollectionType
  <2>3. Put(Live, c) /\ Move(p, "insert") /\ UNCHANGED <<memory, operator, outages>> /\ lock' \in {lock, None}
    BY <1>5 DEF AddFields
  <2> HIDE DEF c
  <2> QED
    BY <1>1, <2>2, <2>3
<1>6. CASE ReadRows(p)
  <2>1. Exists(Live) => collections[Live].rows \in [Rows -> Nat]
    BY DEF CollectionType
  <2>2. CASE /\ Exists(Live) /\ memory' = [memory EXCEPT ![p] = collections[Live].rows]
             /\ Move(p, "rename") /\ UNCHANGED <<lock, outages>>
    <3>1. memory' \in [Imports -> [Rows -> Nat]]
      BY <2>1, <2>2
    <3> QED
      BY <1>6, <2>2, <3>1 DEF ReadRows
  <2>3. CASE outages' \in 0 .. MaxOutages /\ Abandon(p) /\ UNCHANGED memory
    BY <1>6, <2>3 DEF ReadRows
  <2> QED
    BY <1>6, <2>2, <2>3 DEF ReadRows
<1>7. CASE RenameToBackup(p)
  <2>1. CASE /\ Exists(Live) /\ ~Exists(Backup(p))
             /\ collections' = Renamed(Live, Backup(p), collections)
             /\ Move(p, "create") /\ UNCHANGED <<lock, outages>>
    <3>1. Typed(collections') /\ DOMAIN collections' = (DOMAIN collections \ {Live}) \cup {Backup(p)}
      BY <1>0, <2>1, RenameEffect
    <3> QED
      BY <1>7, <2>1, <3>1 DEF RenameToBackup, Typed, CollectionType
  <2>2. CASE outages' \in 0 .. MaxOutages /\ Abandon(p) /\ UNCHANGED collections
    BY <1>7, <2>2 DEF RenameToBackup
  <2>3. <2>1!1 \/ <2>2!1
    BY <1>7 DEF RenameToBackup
  <2> QED
    BY <2>1, <2>2, <2>3
<1>8. CASE CreateDynamic(p)
  <2>1. CASE Put(Live, Collection("dynamic", NoRows)) /\ Move(p, "copy") /\ UNCHANGED outages
    <3>1. Collection("dynamic", NoRows) \in CollectionType
      BY DEF Collection, CollectionType
    <3> QED
      BY <1>1, <1>8, <2>1, <3>1 DEF CreateDynamic
  <2>2. CASE outages' \in 0 .. MaxOutages /\ Move(p, "restore") /\ UNCHANGED collections
    BY <1>8, <2>2 DEF CreateDynamic
  <2> QED
    BY <1>8, <2>1, <2>2 DEF CreateDynamic
<1>9. CASE CopyRows(p)
  <2>1. ASSUME NEW r \in Support(memory[p]), Exists(Live), InsertRow(Live, r),
               memory' = [memory EXCEPT ![p] = Minus(@, r)], UNCHANGED <<step, lock, outages>>
        PROVE  CollectionsInv'
    <3>1. memory' \in [Imports -> [Rows -> Nat]]
      BY <2>1 DEF Support
    <3> QED
      BY <1>2, <1>9, <2>1, <3>1 DEF CopyRows, Support, Typed, CollectionType
  <2>2. CASE Move(p, "insert") /\ Release(p) /\ UNCHANGED <<collections, memory, outages>>
    BY <1>9, <2>2 DEF CopyRows
  <2>3. CASE Outage("milvus") /\ Move(p, "restore") /\ UNCHANGED <<collections, memory, lock>>
    BY <1>9, <2>3 DEF CopyRows
  <2> QED
    BY <1>9, <2>1, <2>2, <2>3 DEF CopyRows
<1>10. CASE Restore(p)
  <2>1. /\ Typed(collections')
        /\ DOMAIN collections' = (DOMAIN collections \ {Backup(p)}) \cup {Live}
    BY <1>0, <1>10, RestoreEffect DEF Restore
  <2> QED
    BY <1>10, <2>1 DEF Restore, Typed, CollectionType
<1>11. CASE Insert(p)
  <2>1. CASE Exists(Live)
    <3>1. p \in Rows
      BY DEF Rows
    <3>2. Typed(collections') /\ DOMAIN collections' = DOMAIN collections
      BY <1>2, <1>11, <2>1, <3>1 DEF Insert
    <3>3. CollectionsTypeOK'
      BY <1>11, <2>1, <3>2 DEF Insert, Typed, CollectionType
    <3>4. Move(p, "done") /\ UNCHANGED <<memory, lock, operator, outages>>
      BY <1>11, <2>1 DEF Insert
    <3>5. StepsInv'
      BY <3>2, <3>4
    <3> QED
      BY <3>3, <3>5
  <2>2. CASE ~Exists(Live)
    <3>1. Move(p, "failed") /\ UNCHANGED <<collections, memory, lock, operator, outages>>
      BY <1>11, <2>2 DEF Insert
    <3> QED
      BY <3>1
  <2> QED
    BY <2>1, <2>2
<1>12. CASE Crash(p)
  <2>1. memory' \in [Imports -> [Rows -> Nat]]
    BY <1>12 DEF Crash
  <2> QED
    BY <1>12, <2>1 DEF Crash
<1>13. CASE Again(p)
  BY <1>13 DEF Again
<1> QED
  BY <1>3, <1>4, <1>5, <1>6, <1>7, <1>8, <1>9, <1>10, <1>11, <1>12, <1>13 DEF ByImport

LEMMA ScriptKeepsTypes ==
    ASSUME CollectionsInv, ByScript, UNCHANGED addField
    PROVE  CollectionsInv'
<1> USE CollectionsAssumption, NamesDiffer, Bags DEF CollectionsInv, CollectionsTypeOK, StepsInv,
        Exists, Outage, imports
<1>0. Typed(collections)
  BY TypedCollections
<1>1. CASE ReadSource
  <2>1. collections[Live].rows \in [Rows -> Nat]
    BY <1>1 DEF ReadSource
  <2> QED
    BY <1>1, <2>1 DEF ReadSource
<1>2. CASE CreateTarget
  <2>1. CASE Exists(Target)
    BY <1>2, <2>1 DEF CreateTarget
  <2>2. CASE ~Exists(Target)
    <3>1. Collection("v2", NoRows) \in CollectionType
      BY DEF Collection, CollectionType
    <3>2. Typed(collections') /\ DOMAIN collections' = DOMAIN collections \cup {Target}
      BY <1>0, <1>2, <2>2, <3>1, PutEffect DEF CreateTarget
    <3> QED
      BY <1>2, <2>2, <3>2 DEF CreateTarget, Typed, CollectionType
  <2> QED
    BY <2>1, <2>2
<1>3. CASE CopyToTarget
  <2>1. ASSUME NEW r \in Support(uncopied), InsertRow(Target, r), uncopied' = Minus(uncopied, r),
               UNCHANGED script
        PROVE  CollectionsInv'
    <3>1. Typed(collections') /\ DOMAIN collections' = DOMAIN collections
      BY <1>0, <1>3, <2>1, InsertEffect DEF CopyToTarget, Support
    <3>2. uncopied' \in [Rows -> Nat]
      BY <2>1 DEF Support
    <3> QED
      BY <1>3, <2>1, <3>1, <3>2 DEF CopyToTarget, Typed, CollectionType
  <2> QED
    BY <1>3, <2>1 DEF CopyToTarget
<1>4. CASE Verify
  BY <1>4 DEF Verify
<1>5. CASE StopScript
  BY <1>5 DEF StopScript
<1> QED
  BY <1>1, <1>2, <1>3, <1>4, <1>5 DEF ByScript

LEMMA TypesHoldAtFirst == UpgradeInit => CollectionsInv
<1> SUFFICES ASSUME UpgradeInit PROVE CollectionsInv
  OBVIOUS
<1> USE CollectionsAssumption, NamesDiffer, Bags DEF UpgradeInit
<1>1. CollectionsTypeOK
  BY DEF CollectionsTypeOK, Collection
<1>2. StepsInv
  BY DEF StepsInv, Exists
<1> QED
  BY <1>1, <1>2 DEF CollectionsInv

LEMMA TypesHoldOn == CollectionsInv /\ [UpgradeNext]_upgrade => CollectionsInv'
<1> SUFFICES ASSUME CollectionsInv, [UpgradeNext]_upgrade PROVE CollectionsInv'
  OBVIOUS
<1>1. CASE UNCHANGED upgrade
  BY <1>1 DEF upgrade, CollectionsInv, CollectionsTypeOK, StepsInv, Exists
<1> QED
  BY <1>1, ImportKeepsTypes, ScriptKeepsTypes, OneUpgrades

(***************************************************************************)
(* The upgrade by threads of one process.  The collection is whole, or the *)
(* holder of the lock rebuilds it, or a rebuild was cut off.               *)
(***************************************************************************)

LEMMA ImportFromWhole ==
    ASSUME OneProcess, CollectionsInv, LockInv, Whole, NEW p \in Imports, ByImport(p)
    PROVE  LockInv' /\ (Whole' \/ Rebuilding')
<1> USE CollectionsAssumption, NamesDiffer DEF LockInv, Exists, Move, Outage, None, Upgrading
<1>0. /\ Typed(collections)
      /\ Whole /\ step \in [Imports -> {"idle", "describe", "add_fields", "read", "rename", "create",
            "copy", "restore", "insert", "done", "failed", "crashed"}]
      /\ memory \in [Imports -> [Rows -> Nat]]
      /\ lock \in Imports \cup {None}
      /\ Live \in DOMAIN collections
  BY TypedCollections DEF CollectionsInv, CollectionsTypeOK, Whole
<1>1. Untold => Done = {}
  BY DEF Untold, Done
<1>2. ASSUME Done' = Done, UNCHANGED collections, Untold => Untold',
             \/ lock' = None
             \/ /\ lock' = lock
                /\ lock # None => step'[lock] = step[lock] /\ memory'[lock] = memory[lock]
      PROVE  Whole'
  <2>1. Live \in DOMAIN collections' /\ collections'[Live].rows = Bag(Legacy \cup Done')
    BY <1>2 DEF Whole
  <2>2. collections'[Live].schema = "legacy" => Untold'
    BY <1>2 DEF Whole
  <2>3. CASE lock' = None
    BY <2>1, <2>2, <2>3 DEF Whole
  <2>4. CASE /\ lock' = lock
             /\ lock # None => step'[lock] = step[lock] /\ memory'[lock] = memory[lock]
    BY <1>2, <2>1, <2>2, <2>4 DEF Whole
  <2> QED
    BY <1>2, <2>3, <2>4
<1>3. CASE PrepareCollection(p)
  <2>1. step[p] = "idle" /\ step' = [step EXCEPT ![p] = "describe"] /\ UNCHANGED <<collections, memory, lock>>
    BY <1>0, <1>3 DEF PrepareCollection
  <2>2. Done' = Done /\ (Untold => Untold') /\ lock # p
    BY <1>0, <2>1 DEF Done, Untold, Whole
  <2> QED
    BY <1>0, <1>2, <2>1, <2>2
<1>4. CASE Describe(p)
  <2>1. lock = None /\ step[p] = "describe" /\ UNCHANGED <<collections, memory>>
    BY <1>4 DEF Describe, LockFree
  <2>2. CASE /\ collections[Live].schema = "legacy" /\ lock' = p
             /\ step' = [step EXCEPT ![p] = IF addField THEN "add_fields" ELSE "read"]
    <3>1. Done' = Done /\ (Untold => Untold')
      BY <1>0, <2>1, <2>2 DEF Done, Untold
    <3>2. step'[p] \in {"add_fields", "read"} /\ \A q \in Imports \ {p} : step'[q] = step[q]
      BY <1>0, <2>2
    <3>3. Whole'
      BY <1>0, <2>1, <2>2, <3>1, <3>2 DEF Whole
    <3> QED
      BY <1>0, <2>1, <2>2, <3>2, <3>3
  <2>3. CASE /\ collections[Live].schema # "legacy" /\ lock' = lock
             /\ step' = [step EXCEPT ![p] = "insert"]
    <3>1. Done' = Done
      BY <1>0, <2>1, <2>3 DEF Done
    <3>2. Whole'
      BY <1>0, <2>1, <2>3, <3>1 DEF Whole
    <3> QED
      BY <1>0, <2>1, <2>3, <3>2
  <2> QED
    BY <1>0, <1>4, <2>2, <2>3 DEF Describe, Take
<1>5. CASE AddFields(p)
  <2> DEFINE c == [collections[Live] EXCEPT !.schema = IF @ = "legacy" THEN "extended" ELSE @]
  <2>1. step[p] = "add_fields" /\ lock = p /\ lock' = None /\ step' = [step EXCEPT ![p] = "insert"]
    BY <1>5 DEF AddFields, Release
  <2>2. collections[Live] \in CollectionType
    BY <1>0 DEF Typed
  <2>3. c \in CollectionType /\ c.rows = collections[Live].rows /\ c.schema # "legacy"
    BY <2>2 DEF CollectionType
  <2>4. Put(Live, c)
    BY <1>5 DEF AddFields
  <2> HIDE DEF c
  <2>5. DOMAIN collections' = DOMAIN collections \cup {Live} /\ collections'[Live] = c
    BY <1>0, <2>3, <2>4, PutEffect
  <2>6. Done' = Done
    BY <1>0, <2>1 DEF Done
  <2>7. Whole'
    BY <2>1, <2>3, <2>5, <2>6 DEF Whole
  <2> QED
    BY <1>0, <2>1, <2>7
<1>6. ASSUME Abandon(p), lock = p, UNCHANGED collections, step[p] \in Upgrading
      PROVE  LockInv' /\ Whole'
  <2>1. lock' = None /\ step' = [step EXCEPT ![p] = "failed"]
    BY <1>6 DEF Abandon, Release
  <2>2. Done' = Done /\ (Untold => Untold')
    BY <1>0, <1>6, <2>1 DEF Done, Untold
  <2> QED
    BY <1>0, <1>2, <1>6, <2>1, <2>2
<1>7. CASE ReadRows(p)
  <2>1. step[p] = "read" /\ lock = p /\ UNCHANGED collections
    BY <1>7 DEF ReadRows
  <2>2. CASE /\ memory' = [memory EXCEPT ![p] = collections[Live].rows]
             /\ step' = [step EXCEPT ![p] = "rename"] /\ lock' = lock
    <3>1. collections[Live].rows = Bag(Legacy)
      BY <1>1, <2>1 DEF Whole
    <3>2. Done' = Done /\ (Untold => Untold')
      BY <1>0, <2>1, <2>2 DEF Done, Untold
    <3>3. step'[p] = "rename" /\ memory'[p] = Bag(Legacy)
      BY <1>0, <2>2, <3>1
    <3>4. Whole'
      BY <1>0, <2>1, <2>2, <3>2, <3>3 DEF Whole
    <3> QED
      BY <1>0, <2>1, <2>2, <3>4
  <2> QED
    BY <1>6, <1>7, <2>1, <2>2 DEF ReadRows
<1>8. CASE RenameToBackup(p)
  <2>1. step[p] = "rename" /\ lock = p /\ UNCHANGED memory
    BY <1>8 DEF RenameToBackup
  <2>2. CASE /\ ~Exists(Backup(p)) /\ collections' = Renamed(Live, Backup(p), collections)
             /\ step' = [step EXCEPT ![p] = "create"] /\ lock' = lock
    <3>1. /\ DOMAIN collections' = (DOMAIN collections \ {Live}) \cup {Backup(p)}
          /\ collections'[Backup(p)] = collections[Live]
      BY <1>0, <2>2, RenameEffect
    <3>2. collections[Live].rows = Bag(Legacy) /\ memory[p] = Bag(Legacy) /\ Untold
      BY <1>1, <2>1 DEF Whole
    <3>3. step'[p] = "create" /\ Untold'
      BY <1>0, <2>2, <3>2 DEF Untold
    <3>4. Rebuilding'
      BY <2>1, <2>2, <3>1, <3>2, <3>3 DEF Rebuilding
    <3> QED
      BY <1>0, <2>1, <2>2, <3>4
  <2> QED
    BY <1>6, <1>8, <2>1, <2>2 DEF RenameToBackup
<1>9. CASE CreateDynamic(p) \/ CopyRows(p) \/ Restore(p)
  BY <1>9 DEF CreateDynamic, CopyRows, Restore, Whole
<1>10. CASE Insert(p)
  <2>1. step[p] = "insert" /\ InsertRow(Live, p) /\ step' = [step EXCEPT ![p] = "done"] /\ lock' = lock
    BY <1>0, <1>10 DEF Insert
  <2>2. collections[Live].schema # "legacy" /\ lock = None
    BY <2>1 DEF Whole, Untold
  <2>3. p \in Rows /\ Done' = Done \cup {p} /\ p \notin Legacy /\ p \notin Done
    BY <1>0, <2>1 DEF Rows, Done
  <2>4. /\ DOMAIN collections' = DOMAIN collections
        /\ collections'[Live].schema # "legacy"
        /\ collections'[Live].rows = Plus(Bag(Legacy \cup Done), p)
    BY <1>0, <2>1, <2>2, <2>3, InsertEffect DEF Whole
  <2>5. Plus(Bag(Legacy \cup Done), p) = Bag(Legacy \cup (Done \cup {p}))
    <3> DEFINE b == Bag(Legacy \cup Done)
               c == Bag(Legacy \cup (Done \cup {p}))
    <3>1. \A r \in Rows : b[r] = (IF r \in Legacy \cup Done THEN 1 ELSE 0)
      BY DEF Bag
    <3>2. \A r \in Rows : c[r] = (IF r \in Legacy \cup (Done \cup {p}) THEN 1 ELSE 0)
      BY DEF Bag
    <3>3. b \in [Rows -> Nat] /\ c \in [Rows -> Nat]
      BY Bags
    <3> HIDE DEF b, c
    <3>4. Plus(b, p) \in [Rows -> Nat] /\ \A r \in Rows : Plus(b, p)[r] = c[r]
      BY <2>3, <3>1, <3>2, <3>3, Bags
    <3>5. Plus(b, p) = c
      BY <3>3, <3>4
    <3> QED
      BY <3>5 DEF b, c
  <2>6. Whole'
    BY <1>0, <2>1, <2>2, <2>3, <2>4, <2>5 DEF Whole
  <2> QED
    BY <1>0, <2>1, <2>6
<1>11. CASE Crash(p)
  <2>1. lock' = None /\ UNCHANGED collections
    BY <1>11 DEF Crash
  <2>2. /\ step' \in [Imports -> {"done", "failed", "crashed"}]
        /\ \A q \in Imports : step'[q] = "done" <=> step[q] = "done"
    BY <1>0, <1>11 DEF Crash
  <2>3. Done' = Done /\ (Untold => Untold')
    BY <2>2 DEF Done, Untold
  <2> QED
    BY <1>2, <2>1, <2>2, <2>3
<1>12. CASE Again(p)
  <2>1. step[p] = "failed" /\ step' = [step EXCEPT ![p] = "idle"] /\ UNCHANGED <<collections, memory, lock>>
    BY <1>12 DEF Again
  <2>2. Done' = Done /\ (Untold => Untold') /\ lock # p
    BY <1>0, <2>1 DEF Done, Untold, Whole
  <2> QED
    BY <1>0, <1>2, <2>1, <2>2
<1> QED
  BY <1>3, <1>4, <1>5, <1>7, <1>8, <1>9, <1>10, <1>11, <1>12 DEF ByImport

LEMMA ImportFromRebuilding ==
    ASSUME OneProcess, CollectionsInv, LockInv, Rebuilding, NEW p \in Imports, ByImport(p)
    PROVE  LockInv' /\ (Whole' \/ Rebuilding' \/ Torn')
<1> USE CollectionsAssumption, NamesDiffer DEF LockInv, Exists, Move, Outage, None, Upgrading
<1>0. /\ Typed(collections)
      /\ step \in [Imports -> {"idle", "describe", "add_fields", "read", "rename", "create",
            "copy", "restore", "insert", "done", "failed", "crashed"}]
      /\ memory \in [Imports -> [Rows -> Nat]]
      /\ lock \in Imports
      /\ step[lock] \in {"create", "copy", "restore"}
      /\ Backup(lock) \in DOMAIN collections
      /\ Untold
  BY TypedCollections DEF CollectionsInv, CollectionsTypeOK, Rebuilding, StepsInv
<1>1. ASSUME Done' = {}, lock' = None, Live \in DOMAIN collections', Untold',
             collections'[Live].rows = Bag(Legacy)
      PROVE  Whole'
  <2>1. Legacy \cup {} = Legacy
    OBVIOUS
  <2> QED
    BY <1>1, <2>1 DEF Whole
<1>2. ASSUME NEW q \in Imports, step' = [step EXCEPT ![p] = "failed"] \/ step' = [step EXCEPT ![p] = "insert"]
                                \/ step' = [step EXCEPT ![p] = "describe"]
                                \/ step' = [step EXCEPT ![p] = "idle"]
      PROVE  step'[p] \notin Upgrading /\ (q # p => step'[q] = step[q])
  BY <1>0, <1>2
<1>3. CASE PrepareCollection(p)
  <2>1. /\ step[p] = "idle" /\ step' = [step EXCEPT ![p] = "describe"] /\ UNCHANGED <<memory, lock>>
        /\ lock # p
    BY <1>0, <1>3 DEF PrepareCollection
  <2>2. Untold'
    BY <1>0, <2>1 DEF Untold
  <2>3. step'[lock] = step[lock]
    BY <1>0, <2>1
  <2>4. CASE UNCHANGED collections
    <3>1. Rebuilding'
      BY <2>1, <2>2, <2>3, <2>4 DEF Rebuilding
    <3> QED
      BY <1>0, <2>1, <3>1
  <2>5. CASE ~Exists(Live) /\ Put(Live, Collection("dynamic", NoRows))
    <3>1. Collection("dynamic", NoRows) \in CollectionType /\ Collection("dynamic", NoRows).schema # "legacy"
      BY Bags DEF Collection, CollectionType
    <3>2. /\ Backup(lock) \in DOMAIN collections' /\ collections'[Backup(lock)] = collections[Backup(lock)]
          /\ collections'[Live].schema # "legacy"
      BY <1>0, <2>5, <3>1, PutEffect
    <3>3. Rebuilding'
      BY <2>1, <2>2, <2>3, <2>5, <3>2 DEF Rebuilding
    <3> QED
      BY <1>0, <2>1, <3>3
  <2> QED
    BY <1>3, <2>4, <2>5 DEF PrepareCollection
<1>4. CASE Describe(p)
  BY <1>0, <1>4 DEF Describe, LockFree
<1>5. CASE AddFields(p) \/ ReadRows(p) \/ RenameToBackup(p)
  BY <1>0, <1>5 DEF AddFields, ReadRows, RenameToBackup
<1>6. CASE CreateDynamic(p)
  <2>1. step[p] = "create" /\ lock = p /\ lock' = lock /\ UNCHANGED memory
    BY <1>6 DEF CreateDynamic
  <2>2. CASE ~Exists(Live) /\ Put(Live, Collection("dynamic", NoRows)) /\ step' = [step EXCEPT ![p] = "copy"]
    <3>1. /\ Collection("dynamic", NoRows) \in CollectionType
          /\ Collection("dynamic", NoRows).schema # "legacy"
          /\ Collection("dynamic", NoRows).rows = NoRows
      BY Bags DEF Collection, CollectionType
    <3>2. /\ Backup(p) \in DOMAIN collections' /\ collections'[Backup(p)] = collections[Backup(p)]
          /\ collections'[Live].schema # "legacy" /\ collections'[Live].rows = NoRows
          /\ Live \in DOMAIN collections'
      BY <1>0, <2>1, <2>2, <3>1, PutEffect
    <3>3. memory'[p] = Bag(Legacy)
      BY <2>1 DEF Rebuilding
    <3>4. \A r \in Rows : collections'[Live].rows[r] + memory'[p][r] = Bag(Legacy)[r]
      BY <3>2, <3>3, Bags DEF NoRows
    <3>5. step'[p] = "copy" /\ Untold'
      BY <1>0, <2>2 DEF Untold
    <3>6. Rebuilding'
      BY <2>1, <3>2, <3>4, <3>5 DEF Rebuilding
    <3> QED
      BY <1>0, <2>1, <2>2, <3>6
  <2>3. CASE step' = [step EXCEPT ![p] = "restore"] /\ UNCHANGED collections
    <3>1. step'[p] = "restore" /\ Untold'
      BY <1>0, <2>3 DEF Untold
    <3>2. Rebuilding'
      BY <2>1, <2>3, <3>1 DEF Rebuilding
    <3> QED
      BY <1>0, <2>1, <2>3, <3>2
  <2> QED
    BY <1>6, <2>2, <2>3 DEF CreateDynamic
<1>7. CASE CopyRows(p)
  <2>1. step[p] = "copy" /\ lock = p
    BY <1>7 DEF CopyRows
  <2>2. /\ Live \in DOMAIN collections /\ collections[Live].schema # "legacy"
        /\ collections[Live].rows \in [Rows -> Nat] /\ memory[p] \in [Rows -> Nat]
        /\ \A r \in Rows : collections[Live].rows[r] + memory[p][r] = Bag(Legacy)[r]
    BY <1>0, <2>1 DEF Rebuilding, Typed, CollectionType
  <2>3. ASSUME NEW r \in Support(memory[p]), InsertRow(Live, r),
               memory' = [memory EXCEPT ![p] = Minus(@, r)], UNCHANGED <<step, lock>>
        PROVE  LockInv' /\ Rebuilding'
    <3>1. r \in Rows /\ memory[p][r] > 0
      BY <2>3 DEF Support
    <3>2. /\ DOMAIN collections' = DOMAIN collections
          /\ collections'[Live].schema # "legacy"
          /\ collections'[Live].rows = Plus(collections[Live].rows, r)
          /\ collections'[Backup(p)] = collections[Backup(p)]
      BY <1>0, <2>1, <2>2, <2>3, <3>1, InsertEffect
    <3>3. memory'[p] = Minus(memory[p], r)
      BY <1>0, <2>3
    <3>4. ASSUME NEW s \in Rows
          PROVE  collections'[Live].rows[s] + memory'[p][s] = Bag(Legacy)[s]
      <4>1. /\ collections'[Live].rows[s] = Plus(collections[Live].rows, r)[s]
            /\ memory'[p][s] = Minus(memory[p], r)[s]
        BY <3>2, <3>3
      <4> QED
        BY <2>2, <3>1, <4>1, OneRowOver
    <3>5. Untold'
      BY <1>0, <2>3 DEF Untold
    <3>6. Rebuilding'
      BY <2>1, <2>2, <2>3, <3>2, <3>4, <3>5 DEF Rebuilding
    <3> QED
      BY <2>3, <3>6
  <2>4. CASE /\ Support(memory[p]) = {} /\ step' = [step EXCEPT ![p] = "insert"]
             /\ Release(p) /\ UNCHANGED collections
    <3>1. \A r \in Rows : memory[p][r] = 0
      BY <2>2, <2>4 DEF Support
    <3>2. collections[Live].rows = Bag(Legacy)
      BY <2>2, <3>1, Bags
    <3>3. Done' = {}
      BY <1>0, <2>4 DEF Done, Untold
    <3>4. Legacy \cup {} = Legacy
      OBVIOUS
    <3>5. lock' = None
      BY <2>1, <2>4 DEF Release
    <3>6. Whole'
      BY <2>2, <2>4, <3>2, <3>3, <3>4, <3>5 DEF Whole
    <3> QED
      BY <1>0, <1>2, <2>1, <2>4, <3>6
  <2>5. CASE step' = [step EXCEPT ![p] = "restore"] /\ UNCHANGED <<collections, lock>>
    <3>1. step'[p] = "restore" /\ Untold'
      BY <1>0, <2>5 DEF Untold
    <3>2. Rebuilding'
      BY <2>1, <2>5, <3>1 DEF Rebuilding
    <3> QED
      BY <1>0, <2>1, <2>5, <3>2
  <2> QED
    BY <1>7, <2>3, <2>4, <2>5 DEF CopyRows
<1>8. CASE Restore(p)
  <2>1. step[p] = "restore" /\ lock = p /\ lock' = None /\ step' = [step EXCEPT ![p] = "failed"]
    BY <1>8 DEF Restore, Abandon, Release
  <2>2. Live \in DOMAIN collections' /\ collections'[Live] = collections[Backup(p)]
    BY <1>0, <1>8, <2>1, RestoreEffect DEF Restore
  <2>3. collections'[Live].rows = Bag(Legacy)
    BY <2>1, <2>2 DEF Rebuilding
  <2>4. Untold' /\ Done' = {}
    BY <1>0, <2>1 DEF Untold, Done
  <2> QED
    BY <1>0, <1>1, <1>2, <2>1, <2>2, <2>3, <2>4
<1>9. CASE Insert(p)
  BY <1>0, <1>9 DEF Insert, Untold
<1>10. CASE Crash(p)
  <2>1. lock' = None /\ UNCHANGED collections
    BY <1>10 DEF Crash
  <2>2. /\ step' \in [Imports -> {"failed", "crashed"}]
        /\ step'[lock] = "crashed"
    BY <1>0, <1>10 DEF Crash, Untold
  <2>3. Done' = {}
    BY <2>2 DEF Done
  <2>4. PICK q \in Imports : q = lock
    BY <1>0
  <2>5. Torn'
    BY <1>0, <2>1, <2>2, <2>3, <2>4 DEF Torn, Rebuilding
  <2> QED
    BY <2>2, <2>5
<1>11. CASE Again(p)
  <2>1. /\ step[p] = "failed" /\ step' = [step EXCEPT ![p] = "idle"]
        /\ UNCHANGED <<collections, memory, lock>> /\ lock # p
    BY <1>0, <1>11 DEF Again
  <2>2. Untold' /\ step'[lock] = step[lock]
    BY <1>0, <2>1 DEF Untold
  <2>3. Rebuilding'
    BY <2>1, <2>2 DEF Rebuilding
  <2> QED
    BY <1>0, <2>1, <2>3
<1> QED
  BY <1>3, <1>4, <1>5, <1>6, <1>7, <1>8, <1>9, <1>10, <1>11 DEF ByImport

LEMMA ImportFromTorn ==
    ASSUME OneProcess, CollectionsInv, LockInv, Torn, NEW p \in Imports, ByImport(p)
    PROVE  LockInv' /\ Torn'
<1> USE CollectionsAssumption, NamesDiffer DEF LockInv, Exists, Move, Outage, None, Upgrading
<1>0. /\ Typed(collections)
      /\ step \in [Imports -> {"idle", "describe", "add_fields", "read", "rename", "create",
            "copy", "restore", "insert", "done", "failed", "crashed"}]
      /\ lock = None
      /\ \A q \in Imports : step[q] \notin Upgrading
  BY TypedCollections DEF CollectionsInv, CollectionsTypeOK, Torn
<1>1. PICK b \in Imports : /\ step[b] = "crashed" /\ Backup(b) \in DOMAIN collections
                           /\ collections[Backup(b)].rows = Bag(Legacy)
  BY DEF Torn
<1>2. ASSUME NEW s \in {"idle", "describe", "insert", "failed"}, step[p] \notin {"done", "crashed"},
             step' = [step EXCEPT ![p] = s], UNCHANGED <<collections, lock>>
      PROVE  LockInv' /\ Torn'
  <2>1. step'[b] = "crashed" /\ Done' = Done /\ \A q \in Imports : step'[q] \notin Upgrading
    BY <1>0, <1>1, <1>2 DEF Done
  <2> QED
    BY <1>0, <1>1, <1>2, <2>1 DEF Torn
<1>3. CASE PrepareCollection(p)
  <2>1. CASE UNCHANGED collections
    BY <1>2, <1>3, <2>1 DEF PrepareCollection
  <2>2. CASE ~Exists(Live) /\ Put(Live, Collection("dynamic", NoRows))
    <3>1. Collection("dynamic", NoRows) \in CollectionType /\ Collection("dynamic", NoRows).schema # "legacy"
      BY Bags DEF Collection, CollectionType
    <3>2. /\ Backup(b) \in DOMAIN collections' /\ collections'[Backup(b)] = collections[Backup(b)]
          /\ collections'[Live].schema # "legacy"
      BY <1>0, <1>1, <2>2, <3>1, PutEffect
    <3>3. step'[b] = "crashed" /\ Done' = Done /\ \A q \in Imports : step'[q] \notin Upgrading
      BY <1>0, <1>1, <1>3 DEF Done, PrepareCollection
    <3>4. Done = {} /\ lock' = None
      BY <1>0, <1>3, <2>2 DEF Torn, PrepareCollection
    <3>5. Torn'
      BY <1>1, <3>2, <3>3, <3>4 DEF Torn
    <3> QED
      BY <3>3, <3>5
  <2> QED
    BY <1>3, <2>1, <2>2 DEF PrepareCollection
<1>4. CASE Describe(p)
  <2>1. \E s \in {"insert", "failed"} :
            step' = [step EXCEPT ![p] = s] /\ UNCHANGED <<collections, lock>> /\ step[p] = "describe"
    BY <1>4 DEF Describe, Torn
  <2> QED
    BY <1>2, <2>1
<1>5. CASE \/ AddFields(p) \/ ReadRows(p) \/ RenameToBackup(p)
           \/ CreateDynamic(p) \/ CopyRows(p) \/ Restore(p)
  BY <1>0, <1>5 DEF AddFields, ReadRows, RenameToBackup, CreateDynamic, CopyRows, Restore
<1>6. CASE Insert(p)
  <2>1. CASE Exists(Live)
    <3>1. InsertRow(Live, p) /\ step[p] = "insert" /\ step' = [step EXCEPT ![p] = "done"] /\ lock' = None
      BY <1>0, <1>6, <2>1 DEF Insert
    <3>2. p \in Rows /\ Done' = Done \cup {p} /\ \A q \in Done : q \in Rows
      BY <1>0, <3>1 DEF Rows, Done
    <3>3. /\ DOMAIN collections' = DOMAIN collections
          /\ collections'[Live].schema = collections[Live].schema
          /\ collections'[Live].rows = Plus(collections[Live].rows, p)
          /\ collections'[Backup(b)] = collections[Backup(b)]
      BY <1>0, <1>1, <2>1, <3>1, <3>2, InsertEffect
    <3>4. collections[Live].rows \in [Rows -> Nat]
      BY <1>0, <2>1 DEF Typed, CollectionType
    <3>5. ASSUME NEW q \in Done' PROVE collections'[Live].rows[q] > 0
      <4>1. q = p \/ q \in Done
        BY <3>2
      <4>2. q \in Done => collections[Live].rows[q] > 0
        BY DEF Torn
      <4> QED
        BY <3>2, <3>3, <3>4, <4>1, <4>2, OneRowMore
    <3>6. step'[b] = "crashed" /\ \A q \in Imports : step'[q] \notin Upgrading
      BY <1>0, <1>1, <3>1
    <3>7. Torn'
      BY <1>1, <2>1, <3>1, <3>3, <3>5, <3>6 DEF Torn
    <3> QED
      BY <3>6, <3>7
  <2>2. CASE ~Exists(Live)
    BY <1>2, <1>6, <2>2 DEF Insert
  <2> QED
    BY <2>1, <2>2
<1>7. CASE Crash(p)
  <2>1. lock' = None /\ UNCHANGED collections
    BY <1>7 DEF Crash
  <2>2. /\ step' \in [Imports -> {"done", "failed", "crashed"}]
        /\ step'[b] = "crashed"
        /\ \A q \in Imports : step'[q] = "done" <=> step[q] = "done"
    BY <1>0, <1>1, <1>7 DEF Crash
  <2>3. Done' = Done
    BY <2>2 DEF Done
  <2>4. Torn'
    BY <1>1, <2>1, <2>2, <2>3 DEF Torn
  <2> QED
    BY <2>2, <2>4
<1>8. CASE Again(p)
  BY <1>2, <1>8 DEF Again
<1> QED
  BY <1>3, <1>4, <1>5, <1>6, <1>7, <1>8 DEF ByImport

(* The script only writes to its target.                                   *)
LEMMA ScriptElsewhere ==
    ASSUME CollectionsInv, ByScript
    PROVE  /\ UNCHANGED imports
           /\ \A n \in CollectionNames \ {Target} :
                /\ n \in DOMAIN collections' <=> n \in DOMAIN collections
                /\ n \in DOMAIN collections => collections'[n] = collections[n]
<1> USE NamesDiffer DEF Exists
<1>0. Typed(collections)
  BY TypedCollections DEF CollectionsInv
<1>1. CASE ReadSource \/ Verify \/ StopScript
  BY <1>1 DEF ReadSource, Verify, StopScript, imports
<1>2. CASE CreateTarget
  <2>1. Collection("v2", NoRows) \in CollectionType
    BY Bags DEF Collection, CollectionType
  <2> QED
    BY <1>0, <1>2, <2>1, PutEffect DEF CreateTarget
<1>3. CASE CopyToTarget
  <2>1. script = "copy" /\ Target \in DOMAIN collections /\ UNCHANGED imports
    BY <1>3 DEF CopyToTarget, CollectionsInv, StepsInv
  <2>2. ASSUME NEW r \in Support(uncopied), InsertRow(Target, r)
        PROVE  /\ DOMAIN collections' = DOMAIN collections
               /\ \A n \in DOMAIN collections \ {Target} : collections'[n] = collections[n]
    BY <1>0, <2>1, <2>2, InsertEffect DEF Support
  <2> QED
    BY <1>3, <2>1, <2>2 DEF CopyToTarget
<1> QED
  BY <1>1, <1>2, <1>3 DEF ByScript

LEMMA ScriptKeepsUpgrade ==
    ASSUME CollectionsInv, UpgradeInv, ByScript PROVE UpgradeInv'
<1> USE NamesDiffer DEF Exists
<1>1. /\ UNCHANGED imports
      /\ Live \in DOMAIN collections' <=> Live \in DOMAIN collections
      /\ Live \in DOMAIN collections => collections'[Live] = collections[Live]
      /\ \A p \in Imports :
            /\ Backup(p) \in DOMAIN collections' <=> Backup(p) \in DOMAIN collections
            /\ Backup(p) \in DOMAIN collections => collections'[Backup(p)] = collections[Backup(p)]
  BY ScriptElsewhere
<1>2. UNCHANGED <<step, memory, lock>> /\ Done' = Done /\ Untold' = Untold /\ LockInv'
  BY <1>1 DEF imports, Done, Untold, UpgradeInv, LockInv
<1>3. CASE Whole
  <2>1. Whole'
    BY <1>1, <1>2, <1>3 DEF Whole
  <2> QED
    BY <1>2, <2>1 DEF UpgradeInv
<1>4. CASE Rebuilding
  <2>1. Backup(lock) \in DOMAIN collections
    BY <1>4 DEF Rebuilding, CollectionsInv, StepsInv
  <2>2. Rebuilding'
    BY <1>1, <1>2, <1>4, <2>1 DEF Rebuilding
  <2> QED
    BY <1>2, <2>2 DEF UpgradeInv
<1>5. CASE Torn
  <2>1. Torn'
    BY <1>1, <1>2, <1>5 DEF Torn
  <2> QED
    BY <1>2, <2>1 DEF UpgradeInv
<1> QED
  BY <1>3, <1>4, <1>5 DEF UpgradeInv

LEMMA UpgradeHoldsAtFirst == UpgradeInit => UpgradeInv
<1> SUFFICES ASSUME UpgradeInit PROVE UpgradeInv
  OBVIOUS
<1>1. /\ Live \in DOMAIN collections /\ collections[Live].rows = Bag(Legacy)
      /\ lock = None /\ \A p \in Imports : step[p] = "idle"
  BY DEF UpgradeInit, Collection
<1>2. Done = {} /\ Untold /\ LockInv /\ Legacy \cup {} = Legacy
  BY <1>1 DEF Done, Untold, LockInv, Upgrading
<1> QED
  BY <1>1, <1>2 DEF UpgradeInv, Whole, Exists

LEMMA UpgradeHoldsOn ==
    ASSUME OneProcess
    PROVE  CollectionsInv /\ UpgradeInv /\ [UpgradeNext]_upgrade => UpgradeInv'
<1> SUFFICES ASSUME CollectionsInv, UpgradeInv, [UpgradeNext]_upgrade PROVE UpgradeInv'
  OBVIOUS
<1>1. CASE UNCHANGED upgrade
  BY <1>1 DEF upgrade, UpgradeInv, LockInv, Whole, Rebuilding, Torn, Exists, Done, Untold
<1>2. ASSUME NEW p \in Imports, ByImport(p) PROVE UpgradeInv'
  BY <1>2, ImportFromWhole, ImportFromRebuilding, ImportFromTorn DEF UpgradeInv
<1> QED
  BY <1>1, <1>2, ScriptKeepsUpgrade, OneUpgrades

LEMMA UpgradeKeepsRows == CollectionsInv /\ UpgradeInv => RowsKept
<1> SUFFICES ASSUME CollectionsInv, UpgradeInv PROVE RowsKept
  OBVIOUS
<1> USE CollectionsAssumption DEF Exists, None
<1>1. ASSUME NEW rows, NEW r \in Rows, r \in rows PROVE Bag(rows)[r] > 0
  BY <1>1 DEF Bag
<1>2. \A r \in Rows : r \in Legacy \/ r \in Imports
  BY DEF Rows
<1>3. CASE Whole
  <2>1. ASSUME NEW r \in Rows, r \in Legacy \/ step[r] = "done" PROVE Kept(r)
    <3>1. r \in Legacy \cup Done
      BY <1>2, <2>1 DEF Done
    <3> QED
      BY <1>1, <1>3, <3>1 DEF Whole, Kept
  <2> QED
    BY <1>3, <2>1 DEF RowsKept, NothingDestroyed, ServedWhole, Whole, Done
<1>4. CASE Rebuilding
  <2>1. Backup(lock) \in DOMAIN collections /\ collections[Backup(lock)].rows = Bag(Legacy)
    BY <1>4 DEF Rebuilding, CollectionsInv, StepsInv
  <2>2. ASSUME NEW r \in Rows, r \in Legacy \/ step[r] = "done" PROVE Kept(r)
    <3>1. r \in Legacy
      BY <1>2, <1>4, <2>2 DEF Rebuilding, Untold
    <3> QED
      BY <1>1, <2>1, <3>1 DEF Kept
  <2>3. ~AtRest
    BY <1>4 DEF Rebuilding, AtRest
  <2> QED
    BY <2>2, <2>3 DEF RowsKept, NothingDestroyed, ServedWhole
<1>5. CASE Torn
  <2>1. ASSUME NEW r \in Rows, r \in Legacy \/ step[r] = "done" PROVE Kept(r)
    <3>1. CASE r \in Legacy
      BY <1>1, <1>5, <3>1 DEF Torn, Kept
    <3>2. CASE r \notin Legacy
      BY <1>2, <1>5, <2>1, <3>2 DEF Torn, Kept, Done
    <3> QED
      BY <3>1, <3>2
  <2>2. ~AtRest
    BY <1>5 DEF Torn, AtRest
  <2> QED
    BY <2>1, <2>2 DEF RowsKept, NothingDestroyed, ServedWhole
<1> QED
  BY <1>3, <1>4, <1>5 DEF UpgradeInv

(* ensure_collection_schema under _schema_migration_lock: however often a  *)
(* call of Milvus fails and wherever the process dies, an upgrade by any   *)
(* number of threads of one process keeps every row of the first release   *)
(* and every row an import was told is inserted, and when nothing is under *)
(* way and nothing was cut off the searched collection has exactly these.  *)
THEOREM OneLockLosesNoRow == ASSUME OneProcess PROVE UpgradeSpec => []RowsKept
BY TypesHoldAtFirst, TypesHoldOn, UpgradeHoldsAtFirst, UpgradeHoldsOn, UpgradeKeepsRows, PTL
   DEF UpgradeSpec

(* The same of the behaviours that are checked beside others.              *)
THEOREM ThreadsLoseNoRow == ASSUME OneProcess PROVE MCSpec => []ThreadsKeepRows
<1> DEFINE ThreadsInv == part = "threads" => CollectionsInv /\ UpgradeInv
<1>1. MCInit => ThreadsInv
  BY TypesHoldAtFirst, UpgradeHoldsAtFirst DEF MCInit
<1>2. ThreadsInv /\ [MCNext]_<<vars, upgrade, part>> => ThreadsInv'
  BY TypesHoldOn, UpgradeHoldsOn DEF MCNext
<1>3. ThreadsInv => ThreadsKeepRows
  BY UpgradeKeepsRows DEF ThreadsKeepRows
<1> QED
  BY <1>1, <1>2, <1>3, PTL DEF MCSpec

(***************************************************************************)
(* The script, beside any number of imports in threads or processes.       *)
(***************************************************************************)

LEMMA FinitelyMany ==
    ASSUME NEW b \in [Rows -> Nat] PROVE IsFiniteSet(Copies(b))
<1> DEFINE CopiesOf(r) == {r} \X (1 .. b[r])
           parts == {CopiesOf(r) : r \in Rows}
           f == [r \in Rows |-> CopiesOf(r)]
<1>1. IsFiniteSet(Rows)
  BY CollectionsAssumption, FS_Union DEF Rows
<1>2. f \in Surjection(Rows, parts)
  BY DEF Surjection
<1>3. IsFiniteSet(parts)
  BY <1>1, <1>2, FS_Surjection
<1>4. ASSUME NEW T \in parts PROVE IsFiniteSet(T)
  <2>1. PICK r \in Rows : T = {r} \X (1 .. b[r])
    OBVIOUS
  <2>2. 1 \in Int /\ b[r] \in Int
    OBVIOUS
  <2>3. IsFiniteSet(1 .. b[r])
    BY <2>2, FS_Interval
  <2>4. IsFiniteSet({r})
    BY FS_Singleton
  <2> QED
    BY <2>1, <2>3, <2>4, FS_Product
<1> QED
  BY <1>3, <1>4, FS_UNION DEF Copies

(* A collection that has as many rows as none has none.                    *)
LEMMA EmptyWhenCountedSo ==
    ASSUME NEW b \in [Rows -> Nat], Size(b) = Size(NoRows) PROVE b = NoRows
<1>1. Copies(NoRows) = {}
  BY DEF Copies, NoRows
<1>2. Copies(b) = {}
  BY <1>1, FinitelyMany, FS_EmptySet DEF Size
<1>3. ASSUME NEW r \in Rows PROVE b[r] = 0
  <2>1. <<r, 1>> \notin Copies(b)
    BY <1>2
  <2>2. ~(1 \in 1 .. b[r])
    BY <2>1 DEF Copies
  <2> QED
    BY <2>2
<1> QED
  BY <1>3 DEF NoRows

(* An import leaves the script and its target alone.                       *)
LEMMA ImportElsewhere ==
    ASSUME CollectionsInv, NEW p \in Imports, ByImport(p)
    PROVE  /\ UNCHANGED operator
           /\ Target \in DOMAIN collections => collections'[Target] = collections[Target]
<1> USE NamesDiffer DEF Exists
<1>0. Typed(collections) /\ p \in Rows
  BY TypedCollections DEF CollectionsInv, Rows
<1>1. CASE Describe(p) \/ ReadRows(p) \/ Crash(p) \/ Again(p)
  BY <1>1 DEF Describe, ReadRows, Crash, Again
<1>2. CASE PrepareCollection(p) \/ CreateDynamic(p)
  <2>1. Collection("dynamic", NoRows) \in CollectionType
    BY Bags DEF Collection, CollectionType
  <2>2. UNCHANGED operator /\ (UNCHANGED collections \/ Put(Live, Collection("dynamic", NoRows)))
    BY <1>2 DEF PrepareCollection, CreateDynamic
  <2> QED
    BY <1>0, <2>1, <2>2, PutEffect
<1>3. CASE AddFields(p)
  <2> DEFINE c == [collections[Live] EXCEPT !.schema = IF @ = "legacy" THEN "extended" ELSE @]
  <2>1. collections[Live] \in CollectionType
    BY <1>0, <1>3 DEF AddFields, Typed, CollectionsInv, StepsInv
  <2>2. c \in CollectionType
    BY <2>1 DEF CollectionType
  <2>3. Put(Live, c) /\ UNCHANGED operator
    BY <1>3 DEF AddFields
  <2> HIDE DEF c
  <2> QED
    BY <1>0, <2>2, <2>3, PutEffect
<1>4. CASE RenameToBackup(p)
  BY <1>0, <1>4, RenameEffect DEF RenameToBackup
<1>5. CASE CopyRows(p)
  <2>1. ASSUME NEW r \in Support(memory[p]), Exists(Live), InsertRow(Live, r)
        PROVE  collections'[Target] = collections[Target] \/ Target \notin DOMAIN collections
    BY <1>0, <2>1, InsertEffect DEF Support
  <2> QED
    BY <1>5, <2>1 DEF CopyRows
<1>6. CASE Restore(p)
  <2>1. Backup(p) \in DOMAIN collections
    BY <1>6 DEF Restore, CollectionsInv, StepsInv
  <2> QED
    BY <1>0, <1>6, <2>1, RestoreEffect DEF Restore
<1>7. CASE Insert(p)
  BY <1>0, <1>7, InsertEffect DEF Insert
<1> QED
  BY <1>1, <1>2, <1>3, <1>4, <1>5, <1>6, <1>7 DEF ByImport

LEMMA ImportKeepsScript ==
    ASSUME CollectionsInv, ScriptInv, NEW p \in Imports, ByImport(p) PROVE ScriptInv'
<1>1. /\ script' = script /\ snapshot' = snapshot /\ uncopied' = uncopied /\ alias' = alias
      /\ Target \in DOMAIN collections => collections'[Target] = collections[Target]
  BY ImportElsewhere DEF operator
<1>2. script \in {"copy", "verify", "done"} => Target \in DOMAIN collections
  BY DEF CollectionsInv, StepsInv, Exists
<1> QED
  BY <1>1, <1>2 DEF ScriptInv, Balanced

LEMMA ScriptKeepsScript ==
    ASSUME CollectionsInv, ScriptInv, ByScript PROVE ScriptInv'
<1> USE NamesDiffer DEF Exists
<1>0. /\ Typed(collections) /\ snapshot \in [Rows -> Nat] /\ uncopied \in [Rows -> Nat]
      /\ script \in {"copy", "verify", "done"} => Target \in DOMAIN collections
  BY TypedCollections DEF CollectionsInv, CollectionsTypeOK, StepsInv
<1>1. CASE ReadSource
  BY <1>1 DEF ReadSource, ScriptInv
<1>2. CASE CreateTarget
  <2>1. script = "read" /\ uncopied = snapshot /\ alias # Target /\ UNCHANGED <<snapshot, uncopied, alias>>
    BY <1>2 DEF CreateTarget, ScriptInv
  <2>2. CASE script' = "verify"
    BY <2>1, <2>2 DEF ScriptInv
  <2>3. CASE script' = "copy" /\ Put(Target, Collection("v2", NoRows))
    <3>1. Collection("v2", NoRows) \in CollectionType /\ Collection("v2", NoRows).rows = NoRows
      BY Bags DEF Collection, CollectionType
    <3>2. collections'[Target].rows = NoRows
      BY <1>0, <2>3, <3>1, PutEffect
    <3>3. Balanced'
      BY <1>0, <2>1, <3>2 DEF Balanced, NoRows
    <3> QED
      BY <2>1, <2>3, <3>3 DEF ScriptInv
  <2> QED
    BY <1>2, <2>2, <2>3 DEF CreateTarget
<1>3. CASE CopyToTarget
  <2>1. script = "copy" /\ Balanced /\ alias # Target /\ UNCHANGED <<snapshot, alias>>
    BY <1>3 DEF CopyToTarget, ScriptInv
  <2>2. Target \in DOMAIN collections /\ collections[Target].rows \in [Rows -> Nat]
    BY <1>0, <2>1 DEF Typed, CollectionType
  <2>3. ASSUME NEW r \in Support(uncopied), InsertRow(Target, r), uncopied' = Minus(uncopied, r),
               UNCHANGED script
        PROVE  ScriptInv'
    <3>1. r \in Rows /\ uncopied[r] > 0
      BY <2>3 DEF Support
    <3>2. collections'[Target].rows = Plus(collections[Target].rows, r)
      BY <1>0, <2>2, <2>3, <3>1, InsertEffect
    <3>3. \A s \in Rows : Plus(collections[Target].rows, r)[s] + Minus(uncopied, r)[s]
                            = collections[Target].rows[s] + uncopied[s]
      BY <1>0, <2>2, <3>1, OneRowOver
    <3>4. Balanced'
      BY <2>1, <2>3, <3>2, <3>3 DEF Balanced
    <3> QED
      BY <2>1, <2>3, <3>4 DEF ScriptInv
  <2>4. CASE script' = "verify" /\ UNCHANGED <<collections, uncopied>>
    BY <2>1, <2>4 DEF ScriptInv, Balanced
  <2> QED
    BY <1>3, <2>3, <2>4 DEF CopyToTarget
<1>4. CASE Verify
  BY <1>4 DEF Verify, ScriptInv, Balanced
<1>5. CASE StopScript
  BY <1>5 DEF StopScript, ScriptInv
<1> QED
  BY <1>1, <1>2, <1>3, <1>4, <1>5 DEF ByScript

(* migrate_milvus_v2.py --switch-alias: the alias only comes to stand for  *)
(* a copy with as many rows as were last read from the source, and for     *)
(* those very rows when the copying was not cut off; whatever imports do   *)
(* meanwhile, and however often the script is stopped and run again.       *)
THEOREM AliasIsVerified == UpgradeSpec => []AliasVerified
<1>1. UpgradeInit => ScriptInv
  BY NamesDiffer DEF UpgradeInit, ScriptInv
<1>2. CollectionsInv /\ ScriptInv /\ [UpgradeNext]_upgrade => ScriptInv'
  <2> SUFFICES ASSUME CollectionsInv, ScriptInv, [UpgradeNext]_upgrade PROVE ScriptInv'
    OBVIOUS
  <2>1. CASE UNCHANGED upgrade
    BY <2>1 DEF upgrade, ScriptInv, Balanced
  <2> QED
    BY <2>1, ImportKeepsScript, ScriptKeepsScript, OneUpgrades
<1>3. CollectionsInv /\ ScriptInv => AliasVerified
  <2> SUFFICES ASSUME CollectionsInv, ScriptInv, alias = Target
               PROVE  /\ Size(collections[Target].rows) = Size(snapshot)
                      /\ uncopied = NoRows => collections[Target].rows = snapshot
    BY DEF AliasVerified
  <2>1. script = "done" /\ Size(collections[Target].rows) = Size(snapshot)
    BY DEF ScriptInv
  <2>2. collections[Target].rows \in [Rows -> Nat] /\ snapshot \in [Rows -> Nat]
    BY <2>1, TypedCollections DEF CollectionsInv, CollectionsTypeOK, StepsInv, Exists, Typed, CollectionType
  <2>3. CASE uncopied = NoRows /\ Balanced
    BY <2>2, <2>3 DEF Balanced, NoRows
  <2>4. CASE uncopied = NoRows /\ uncopied = snapshot
    BY <2>1, <2>2, <2>4, EmptyWhenCountedSo
  <2> QED
    BY <2>1, <2>3, <2>4 DEF ScriptInv
<1> QED
  BY <1>1, <1>2, <1>3, TypesHoldAtFirst, TypesHoldOn, PTL DEF UpgradeSpec
============================================================================
