--------------------- MODULE DocumentVersionsProperties ---------------------
(***************************************************************************)
(* What the versions of a document are expected to guarantee.              *)
(***************************************************************************)
EXTENDS DocumentVersions

(* Every variable keeps its type. *)
TypeOK ==
    /\ lifecycle \in Lifecycles
    /\ current \in Nat
    /\ DOMAIN versions \subseteq Nat
    /\ \A v \in DOMAIN versions : versions[v] \in [task : Tasks, hash : Contents]
    /\ active \subseteq Nat
    /\ DOMAIN path = DOMAIN versions
    /\ \A v \in DOMAIN path : path[v] \in Tasks \cup {None}
    /\ docPath \in Tasks \cup {None}
    /\ rows \in Seq(Tasks)
    /\ version \in [Tasks -> Nat]
    /\ content \in [Tasks -> Contents \cup {None}]
    /\ \A v \in DOMAIN chunks : chunks[v] \in Tasks
    /\ vectors \subseteq [task : Tasks, version : Nat, content : Contents]
    /\ files \subseteq Tasks
    /\ objects \subseteq Tasks
    /\ run \in [Tasks -> RunStates]
    /\ base \in [Tasks -> Nat]
    /\ upload \in Tasks \cup {None}
    /\ admin \in [step : {"idle", "rebuild", "activate"}, version : Nat, content : Contents \cup {None}]
    /\ cleanup \in {"none", "context", "vectors", "object_storage", "local_output",
                    "sql_metadata", "done"}
    /\ context \in [tasks : SUBSET Tasks, directories : SUBSET Tasks, objects : SUBSET Tasks]
    /\ failures \in Nat

(* uq_document_active_version and current_version agree: the version that  *)
(* is active is the current one and exists, and a deleted document has     *)
(* none, whatever registers, activates or deletes at the same time.        *)
ActiveIsCurrent ==
    /\ lifecycle \in {"ACTIVE", "DELETING"} => active = {current} /\ current \in Numbers
    /\ lifecycle \in {"NONE", "DELETED"} => active = {}

(* "Exactly one active vector version": no search finds chunks of two      *)
(* versions of the document, nor of two imports of it.                     *)
OneVersionServed == \A x, y \in vectors : x = y

(* Every import that was asked for is over and succeeded. *)
Settled ==
    /\ lifecycle = "ACTIVE"
    /\ upload = None
    /\ admin = NoRequest
    /\ \A t \in Tasks : run[t] \in {"unused", "completed"}

(* Then Milvus serves exactly the version that the database says is        *)
(* active, and the chunk metadata is that of the vectors served.           *)
SettledServesCurrent ==
    Settled =>
        \E t \in Tasks :
            /\ version[t] = current
            /\ {x.task : x \in vectors} = {t}
            /\ current \in DOMAIN chunks
            /\ chunks[current] = t

(* What Milvus serves as version v is the file that was registered as v. *)
ServedAsRegistered ==
    \A x \in vectors : x.version \in Numbers /\ x.content = versions[x.version].hash

(* A source object a version refers to holds that version's file. *)
ObjectIsVersions ==
    \A v \in Numbers : path[v] # None => path[v] = versions[v].task

(* A new content under a known file name can be registered: the number the *)
(* next version will get is free.                                          *)
NextVersionIsFree == Found => NextNumber \notin Numbers

(* "The SQL terminal state only after all external stages succeeded": a    *)
(* deleted document has no chunk, no vector, no output directory and no    *)
(* source object.                                                          *)
DeletedIsEmpty ==
    lifecycle = "DELETED" => vectors = {} /\ chunks = <<>> /\ files = {} /\ objects = {}

(* A deletion that was accepted comes to its end, while uploads register   *)
(* further versions of the document in between.                            *)
DeletionEnds == cleanup = "context" ~> cleanup = "done"

----------------------------------------------------------------------------
(* The inductive invariants behind these properties. *)

(* A deletion has its place in the life of the document. *)
LifeInv ==
    /\ lifecycle \in Lifecycles
    /\ lifecycle \in {"NONE", "ACTIVE"} => cleanup = "none"
    /\ lifecycle = "NONE" =>
        /\ Numbers = {}
        /\ upload = None
        /\ admin.step = "idle"
        /\ \A t \in Tasks : run[t] = "unused"

(* One runner at a time finds what it does to the vectors undisturbed. *)
RunnerInv ==
    /\ run \in [Tasks -> RunStates]
    /\ \A t, u \in Tasks : Running(t) /\ Running(u) => t = u
    /\ \A t \in Tasks : run[t] = "cleaned" => vectors = {}
    /\ OneVersionServed

(* An import that was asked for and is not over. *)
Pending(t) == run[t] \notin {"unused", "completed"}

Serves(t) ==
    /\ version[t] = current
    /\ {x.task : x \in vectors} = {t}
    /\ current \in DOMAIN chunks
    /\ chunks[current] = t

(* Either another import is still to come, or the running one knows the    *)
(* current version and the last one left what the database says.           *)
CurrentInv ==
    /\ DOMAIN base = Tasks /\ DOMAIN version = Tasks
    /\ lifecycle = "ACTIVE" =>
        /\ \A t \in Tasks :
            /\ run[t] \in {"inserted", "replaced"} => {x.task : x \in vectors} = {t}
            /\ run[t] = "replaced" => version[t] \in DOMAIN chunks /\ chunks[version[t]] = t
            /\ Running(t) => base[t] = current \/ \E u \in Tasks \ {t} : Pending(u)
        /\ (\E t \in Tasks : Pending(t)) \/ (\E t \in Tasks : Serves(t))

(* As long as nothing takes a file away, and nobody rebuilds, every task   *)
(* has the file that was registered as its version.                        *)
SourceInv ==
    /\ DOMAIN run = Tasks /\ DOMAIN version = Tasks /\ DOMAIN content = Tasks
    /\ lifecycle \in {"NONE", "ACTIVE"}
    /\ \A t \in Tasks : run[t] # "unused" =>
        t \in files /\ version[t] \in Numbers /\ content[t] = versions[version[t]].hash
    /\ \A v \in Numbers :
        LET t == versions[v].task IN t \in Tasks /\ run[t] # "unused" /\ version[t] = v
    /\ upload # None => upload \in Tasks /\ run[upload] # "unused"
    /\ admin.step \in {"idle", "activate"}
    /\ admin.step = "activate" =>
        admin.version \in Numbers /\ admin.content = versions[admin.version].hash
    /\ ServedAsRegistered
============================================================================
