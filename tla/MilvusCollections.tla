------------------------- MODULE MilvusCollections -------------------------
(***************************************************************************)
(* What happens to a Milvus collection of the first release: an import     *)
(* upgrades it in place (ensure_collection_fields), an operator copies it  *)
(* to a new collection and switches an alias (migrate_milvus_v2.py).       *)
(* Imports run in threads of one process, which share a lock, or in        *)
(* processes of their own; every call to Milvus is a step.                 *)
(***************************************************************************)
EXTENDS Integers, FiniteSets

CONSTANTS
    Imports,      \* imports that reach NodeImportMilvus; each inserts one row
    Legacy,       \* the rows of the first release
    OneProcess,   \* the imports are threads of one process
    Outages,      \* "milvus": a call fails; "crash", "stop": a process dies
    MaxOutages    \* bound on the outages

ASSUME CollectionsAssumption ==
    /\ OneProcess \in BOOLEAN
    /\ MaxOutages \in Nat
    /\ IsFiniteSet(Imports) /\ IsFiniteSet(Legacy)
    /\ Imports \cap Legacy = {}
    /\ "none" \notin Imports

VARIABLES
    addField,     \* the server implements add_collection_field
    collections,  \* the collections: name -> schema and rows, a bag
    step,         \* where an import is
    memory,       \* the rows an import has read and not copied yet
    lock,         \* who holds _schema_migration_lock
    script,       \* where the migration script is
    snapshot,     \* the rows the script has read
    uncopied,     \* those it has not copied yet
    alias,        \* the collection the alias stands for
    outages       \* outages so far

upgrade == <<addField, collections, step, memory, lock, script, snapshot, uncopied,
             alias, outages>>
operator == <<script, snapshot, uncopied, alias>>

Rows == Legacy \cup Imports
None == "none"
Live == <<"chunks">>
Backup(p) == <<"backup", p>>
Target == <<"chunks_v2">>
NoAlias == <<>>
CollectionNames == {Live, Target} \cup {Backup(p) : p \in Imports}

NoRows == [r \in Rows |-> 0]
Bag(rows) == [r \in Rows |-> IF r \in rows THEN 1 ELSE 0]
Plus(bag, row) == [bag EXCEPT ![row] = @ + 1]
Minus(bag, row) == [bag EXCEPT ![row] = @ - 1]

Support(bag) == {r \in Rows : bag[r] > 0}

Exists(name) == name \in DOMAIN collections
Put(name, c) ==
    collections' = [n \in DOMAIN collections \cup {name} |->
                        IF n = name THEN c ELSE collections[n]]
Collection(schema, rows) == [schema |-> schema, rows |-> rows]
InsertRow(name, row) ==
    Put(name, [collections[name] EXCEPT !.rows = Plus(@, row)])
Renamed(from, to, of) ==
    [n \in (DOMAIN of \ {from}) \cup {to} |-> IF n = to THEN of[from] ELSE of[n]]

Move(p, s) == step' = [step EXCEPT ![p] = s]
Outage(f) == f \in Outages /\ outages < MaxOutages /\ outages' = outages + 1

\* mutant: no lock around the upgrade
LockFreeAlways == TRUE

LockFree == ~OneProcess \/ lock = None
Take(p) == lock' = IF OneProcess THEN p ELSE lock
Release(p) == lock' = IF lock = p THEN None ELSE lock

UpgradeInit ==
    /\ addField \in BOOLEAN
    /\ collections = [n \in {Live} |-> Collection("legacy", Bag(Legacy))]
    /\ step = [p \in Imports |-> "idle"]
    /\ memory = [p \in Imports |-> NoRows]
    /\ lock = None
    /\ script = "idle"
    /\ snapshot = NoRows
    /\ uncopied = NoRows
    /\ alias = NoAlias
    /\ outages = 0

----------------------------------------------------------------------------
(* _step_2_prepare_collection: a collection that is not there is created. *)
PrepareCollection(p) ==
    /\ step[p] = "idle"
    /\ IF Exists(Live) THEN UNCHANGED collections ELSE Put(Live, Collection("dynamic", NoRows))
    /\ Move(p, "describe")
    /\ UNCHANGED <<memory, lock, operator, outages>>

(* ensure_collection_fields: the lock, and what is missing. *)
Describe(p) ==
    /\ step[p] = "describe"
    /\ LockFree
    /\ \/ /\ Exists(Live)
          /\ collections[Live].schema = "legacy"
          /\ Take(p)
          /\ Move(p, IF addField THEN "add_fields" ELSE "read")
       \/ /\ Exists(Live)
          /\ collections[Live].schema # "legacy"
          /\ Move(p, "insert")
          /\ UNCHANGED lock
       \/ /\ ~Exists(Live)
          /\ Move(p, "failed")
          /\ UNCHANGED lock
    /\ UNCHANGED <<collections, memory, operator, outages>>

(* The missing fields one after the other; a field another worker added    *)
(* meanwhile is no error.                                                  *)
AddFields(p) ==
    /\ step[p] = "add_fields"
    /\ Put(Live, [collections[Live] EXCEPT !.schema = IF @ = "legacy" THEN "extended" ELSE @])
    /\ Move(p, "insert")
    /\ Release(p)
    /\ UNCHANGED <<memory, operator, outages>>

(* A call of the rebuild that fails before the rename leaves all as it is. *)
Abandon(p) == Move(p, "failed") /\ Release(p)

(* _rebuild_legacy_collection: every row into memory, *)
ReadRows(p) ==
    /\ step[p] = "read"
    /\ \/ /\ Exists(Live)
          /\ memory' = [memory EXCEPT ![p] = collections[Live].rows]
          /\ Move(p, "rename")
          /\ UNCHANGED <<lock, outages>>
       \/ (IF Exists(Live) THEN Outage("milvus") ELSE UNCHANGED outages)
          /\ Abandon(p) /\ UNCHANGED memory
    /\ UNCHANGED <<collections, operator>>

(* the collection out of the way, *)
RenameToBackup(p) ==
    /\ step[p] = "rename"
    /\ \/ /\ Exists(Live)
          /\ ~Exists(Backup(p))
          /\ collections' = Renamed(Live, Backup(p), collections)
          /\ Move(p, "create")
          /\ UNCHANGED <<lock, outages>>
       \/ /\ IF Exists(Live) /\ ~Exists(Backup(p)) THEN Outage("milvus") ELSE UNCHANGED outages
          /\ Abandon(p)
          /\ UNCHANGED collections
    /\ UNCHANGED <<memory, operator>>

(* a new collection in its place, *)
CreateDynamic(p) ==
    /\ step[p] = "create"
    /\ \/ /\ ~Exists(Live)
          /\ Put(Live, Collection("dynamic", NoRows))
          /\ Move(p, "copy")
          /\ UNCHANGED outages
       \/ /\ IF Exists(Live) THEN UNCHANGED outages ELSE Outage("milvus")
          /\ Move(p, "restore")
          /\ UNCHANGED collections
    /\ UNCHANGED <<memory, lock, operator>>

(* the rows into it, batch by batch, and it is loaded. *)
CopyRows(p) ==
    /\ step[p] = "copy"
    /\ \/ \E r \in Support(memory[p]) :
            /\ Exists(Live)
            /\ InsertRow(Live, r)
            /\ memory' = [memory EXCEPT ![p] = Minus(@, r)]
            /\ UNCHANGED <<step, lock, outages>>
       \/ /\ Support(memory[p]) = {}
          /\ Move(p, "insert")
          /\ Release(p)
          /\ UNCHANGED <<collections, memory, outages>>
       \/ /\ Outage("milvus")
          /\ Move(p, "restore")
          /\ UNCHANGED <<collections, memory, lock>>
    /\ UNCHANGED operator

(* The handler of an error: what stands in the place is dropped, the old   *)
(* collection gets its name back.                                          *)
Restored(p) == Renamed(Backup(p), Live, [n \in DOMAIN collections \ {Live} |-> collections[n]])

Restore(p) ==
    /\ step[p] = "restore"
    /\ collections' = Restored(p)
    /\ memory' = [memory EXCEPT ![p] = NoRows]
    /\ Abandon(p)
    /\ UNCHANGED <<operator, outages>>

(* The import inserts its chunks. *)
Insert(p) ==
    /\ step[p] = "insert"
    /\ IF Exists(Live) THEN InsertRow(Live, p) /\ Move(p, "done")
                       ELSE Move(p, "failed") /\ UNCHANGED collections
    /\ UNCHANGED <<memory, lock, operator, outages>>

(* The process of an import dies, with all of its threads. *)
Crash(p) ==
    /\ step[p] \notin {"idle", "done", "failed", "crashed"}
    /\ Outage("crash")
    /\ step' = [q \in Imports |->
                    IF q = p \/ (OneProcess /\ step[q] \notin {"done", "failed"})
                    THEN "crashed" ELSE step[q]]
    /\ memory' = [q \in Imports |-> IF q = p \/ OneProcess THEN NoRows ELSE memory[q]]
    /\ lock' = None
    /\ UNCHANGED <<collections, operator>>

(* The import is run again; what a dead process was importing is not. *)
Again(p) ==
    /\ step[p] = "failed"
    /\ Move(p, "idle")
    /\ UNCHANGED <<collections, memory, lock, operator, outages>>

----------------------------------------------------------------------------
(* migrate_milvus_v2.py --execute --switch-alias, and a second run of it   *)
(* with --verify-existing after the first one stopped half way.            *)
imports == <<step, memory, lock>>

ReadSource ==
    /\ script \in {"idle", "stopped"}
    /\ Exists(Live)
    /\ snapshot' = collections[Live].rows
    /\ uncopied' = collections[Live].rows
    /\ script' = "read"
    /\ UNCHANGED <<collections, imports, alias, outages>>

(* A target that exists is never written to, only verified. *)
CreateTarget ==
    /\ script = "read"
    /\ IF Exists(Target)
       THEN script' = "verify" /\ UNCHANGED collections
       ELSE script' = "copy" /\ Put(Target, Collection("v2", NoRows))
    /\ UNCHANGED <<imports, snapshot, uncopied, alias, outages>>

CopyToTarget ==
    /\ script = "copy"
    /\ \/ \E r \in Support(uncopied) :
            InsertRow(Target, r) /\ uncopied' = Minus(uncopied, r) /\ UNCHANGED script
       \/ Support(uncopied) = {} /\ script' = "verify" /\ UNCHANGED <<collections, uncopied>>
    /\ UNCHANGED <<imports, snapshot, alias, outages>>

(* What a count of the rows counts: every copy of every row. *)
Copies(bag) == UNION {{r} \X (1 .. bag[r]) : r \in Rows}
Size(bag) == Cardinality(Copies(bag))

\* mutant: the alias is switched without counting
VerifyNothing ==
    /\ script = "verify"
    /\ alias' = Target
    /\ script' = "done"
    /\ UNCHANGED <<collections, imports, snapshot, uncopied, outages>>

(* The number of rows, in all and by scope; not the rows themselves. *)
Verify ==
    /\ script = "verify"
    /\ IF Size(collections[Target].rows) = Size(snapshot)
       THEN alias' = Target /\ script' = "done"
       ELSE script' = "refused" /\ UNCHANGED alias
    /\ UNCHANGED <<collections, imports, snapshot, uncopied, outages>>

StopScript ==
    /\ script \in {"read", "copy", "verify"}
    /\ Outage("stop")
    /\ script' = "stopped"
    /\ UNCHANGED <<collections, imports, snapshot, uncopied, alias>>

----------------------------------------------------------------------------
UpgradeNext ==
    /\ \/ \E p \in Imports :
            \/ PrepareCollection(p) \/ Describe(p) \/ AddFields(p)
            \/ ReadRows(p) \/ RenameToBackup(p) \/ CreateDynamic(p) \/ CopyRows(p)
            \/ Restore(p) \/ Insert(p) \/ Crash(p) \/ Again(p)
       \/ ReadSource \/ CreateTarget \/ CopyToTarget \/ Verify \/ StopScript
    /\ UNCHANGED addField

UpgradeSpec == UpgradeInit /\ [][UpgradeNext]_upgrade
============================================================================
