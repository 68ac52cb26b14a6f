-------------------- MODULE MilvusCollectionsProperties --------------------
(***************************************************************************)
(* What the upgrade and the migration of a collection are expected to      *)
(* guarantee.                                                              *)
(***************************************************************************)
EXTENDS MilvusCollections

(* Every variable keeps its type. *)
CollectionsTypeOK ==
    /\ addField \in BOOLEAN
    /\ DOMAIN collections \subseteq CollectionNames
    /\ \A n \in DOMAIN collections :
        collections[n] \in [schema : {"legacy", "extended", "dynamic", "v2"}, rows : [Rows -> Nat]]
    /\ step \in [Imports -> {"idle", "describe", "add_fields", "read", "rename", "create", "copy",
                             "restore", "insert", "done", "failed", "crashed"}]
    /\ memory \in [Imports -> [Rows -> Nat]]
    /\ lock \in Imports \cup {None}
    /\ script \in {"idle", "read", "copy", "verify", "done", "refused", "stopped"}
    /\ snapshot \in [Rows -> Nat]
    /\ uncopied \in [Rows -> Nat]
    /\ alias \in {NoAlias, Target}
    /\ outages \in 0 .. MaxOutages

Kept(row) == \E n \in DOMAIN collections : collections[n].rows[row] > 0

(* Whatever fails or dies in an upgrade, no row is destroyed: each row of  *)
(* the first release and each that an import was told is inserted is in    *)
(* the collection or in the backup.                                        *)
NothingDestroyed ==
    \A r \in Rows : r \in Legacy \/ step[r] = "done" => Kept(r)

AtRest == \A p \in Imports : step[p] \in {"idle", "failed", "done"}

(* When no upgrade is under way and none was cut off by the death of its   *)
(* process, the searched collection has every row, and each of them once.  *)
ServedWhole ==
    AtRest =>
        /\ Exists(Live)
        /\ collections[Live].rows =
             Bag(Legacy \cup {p \in Imports : step[p] = "done"})

(* An upgrade loses no row: none is destroyed, and when all is done or     *)
(* undone the rows that are searched are the same as before and the new.   *)
RowsKept == NothingDestroyed /\ ServedWhole

(* The alias is only switched to a copy with as many rows as the script    *)
(* last read from the source, and with those very rows when it was not cut *)
(* off: a second run only counts what the first one has copied.            *)
AliasVerified ==
    alias = Target =>
        /\ Size(collections[Target].rows) = Size(snapshot)
        /\ uncopied = NoRows => collections[Target].rows = snapshot

----------------------------------------------------------------------------
(* The inductive invariants behind these properties. *)

(* An upgrade finds what it works on: the collection when the server can   *)
(* add fields, for nothing is renamed then, and else its own backup.       *)
StepsInv ==
    /\ addField => Exists(Live)
    /\ \A p \in Imports :
        /\ step[p] = "add_fields" => addField
        /\ step[p] \in {"read", "rename", "create", "copy", "restore"} => ~addField
        /\ step[p] \in {"create", "copy", "restore"} => Exists(Backup(p))
    /\ script \in {"copy", "verify", "done", "refused"} => Exists(Target)

(* What the script has copied and what it has still to copy are what it    *)
(* has read, unless it found a target and copies nothing; the alias is the *)
(* last thing it does.                                                     *)
Balanced == \A r \in Rows : collections[Target].rows[r] + uncopied[r] = snapshot[r]

ScriptInv ==
    /\ script = "read" => uncopied = snapshot
    /\ script = "copy" => Balanced
    /\ script \in {"verify", "done"} => Balanced \/ uncopied = snapshot
    /\ alias = Target =>
        script = "done" /\ Size(collections[Target].rows) = Size(snapshot)

Done == {p \in Imports : step[p] = "done"}
Untold == \A p \in Imports : step[p] \notin {"insert", "done"}
Upgrading == {"add_fields", "read", "rename", "create", "copy", "restore"}

(* The collection is whole: nobody has begun to take it away. *)
Whole ==
    /\ Exists(Live)
    /\ collections[Live].rows = Bag(Legacy \cup Done)
    /\ collections[Live].schema = "legacy" => Untold
    /\ lock # None =>
        /\ step[lock] \in {"add_fields", "read", "rename"}
        /\ collections[Live].schema = "legacy"
        /\ step[lock] = "rename" => memory[lock] = Bag(Legacy)

(* One import rebuilds it, and has the backup; the others wait for it, or  *)
(* have not come to the lock.                                              *)
Rebuilding ==
    /\ lock \in Imports
    /\ step[lock] \in {"create", "copy", "restore"}
    /\ collections[Backup(lock)].rows = Bag(Legacy)
    /\ Untold
    /\ Exists(Live) => collections[Live].schema # "legacy"
    /\ step[lock] = "create" => memory[lock] = Bag(Legacy)
    /\ step[lock] = "copy" =>
        /\ Exists(Live)
        /\ \A r \in Rows : collections[Live].rows[r] + memory[lock][r] = Bag(Legacy)[r]

(* It was cut off: the backup stays, and nobody rebuilds what is there. *)
Torn ==
    /\ lock = None
    /\ \E p \in Imports : /\ step[p] = "crashed" /\ Exists(Backup(p))
                          /\ collections[Backup(p)].rows = Bag(Legacy)
    /\ Exists(Live) => collections[Live].schema # "legacy"
    /\ \A p \in Done : Exists(Live) /\ collections[Live].rows[p] > 0

LockInv == \A p \in Imports : step[p] \in Upgrading => lock = p

UpgradeInv == LockInv /\ (Whole \/ Rebuilding \/ Torn)
============================================================================
