----------------------- MODULE DocumentVersionsProofs -----------------------
(***************************************************************************)
(* Proofs about the versions of a document, for any number of tasks and    *)
(* contents: with any number of runners for what the database says, with   *)
(* one runner for what Milvus serves.                                      *)
(***************************************************************************)
EXTENDS MCVersionsSequential, FiniteSetTheorems, TLAPS

(***************************************************************************)
(* What the database says: the active version is the current one.          *)
(***************************************************************************)

LEMMA LifeInit == Init => LifeInv /\ ActiveIsCurrent
BY DEF Init, LifeInv, ActiveIsCurrent, Lifecycles, Numbers, NoRequest

(* Steps that leave the document and its deletion alone.  There is none    *)
(* but a retry that does not happen before the first upload.               *)
LEMMA LifeQuiet ==
    ASSUME LifeInv, ActiveIsCurrent, lifecycle # "NONE",
           UNCHANGED <<lifecycle, current, Numbers, active, cleanup>>
    PROVE  LifeInv' /\ ActiveIsCurrent'
BY DEF LifeInv, ActiveIsCurrent

(* The first upload of a document, and every further one, is active at once. *)
LEMMA LifeRegister ==
    ASSUME LifeInv, ActiveIsCurrent, NEW t \in Tasks, Register(t)
    PROVE  LifeInv' /\ ActiveIsCurrent'
<1>1. PICK c \in Contents : versions' = Update(versions, NextNumber, [task |-> t, hash |-> c])
  BY DEF Register
<1>2. Numbers' = Numbers \cup {NextNumber}
  BY <1>1 DEF Update, Numbers
<1>3. current' = NextNumber /\ active' = {NextNumber} /\ UNCHANGED cleanup
  BY DEF Register, deletion
<1>4. lifecycle' \in {"ACTIVE", "DELETING"} /\ (lifecycle' = "ACTIVE" => lifecycle \in {"NONE", "ACTIVE"})
  BY DEF Register, Found
<1> QED
  BY <1>2, <1>3, <1>4 DEF LifeInv, ActiveIsCurrent, Lifecycles

(* A runner activates an existing version of a document nobody deletes. *)
LEMMA LifeFinish ==
    ASSUME LifeInv, ActiveIsCurrent, NEW t \in Tasks, Finish(t)
    PROVE  LifeInv' /\ ActiveIsCurrent'
<1>1. lifecycle # "NONE" /\ UNCHANGED <<lifecycle, versions, cleanup>>
  BY DEF Finish, LifeInv, document, deletion
<1>2. \/ UNCHANGED <<current, active>>
      \/ lifecycle = "ACTIVE" /\ version[t] \in Numbers /\ active' = {current'} /\ current' = version[t]
  BY DEF Finish, ActiveAfter, document
<1> QED
  BY <1>1, <1>2 DEF LifeInv, ActiveIsCurrent, Numbers

LEMMA LifeTask ==
    ASSUME LifeInv, ActiveIsCurrent, NEW t \in Tasks, TaskStep(t)
    PROVE  LifeInv' /\ ActiveIsCurrent'
<1>1. CASE CreateRequestedTask(t) \/ Load(t) \/ CleanOldData(t) \/ InsertData(t)
           \/ ReplaceChunks(t) \/ FailRun(t) \/ RetryRun(t)
  <2>1. UNCHANGED <<lifecycle, current, Numbers, active, cleanup>>
    BY <1>1 DEF CreateRequestedTask, Load, CleanOldData, InsertData, ReplaceChunks, FailRun,
       RetryRun, document, deletion, Numbers
  <2>2. lifecycle # "NONE"
    BY <1>1 DEF LifeInv, CreateRequestedTask, Load, CleanOldData, InsertData, ReplaceChunks,
       FailRun, Running, RetryRun
  <2> QED
    BY <2>1, <2>2, LifeQuiet
<1>2. CASE LoseFile(t)
  BY <1>2 DEF LoseFile, LifeInv, ActiveIsCurrent, document, runners, handlers, deletion, Numbers
<1> QED
  BY <1>1, <1>2, LifeRegister, LifeFinish DEF TaskStep

LEMMA LifeHandler ==
    ASSUME LifeInv, ActiveIsCurrent, HandlerStep
    PROVE  LifeInv' /\ ActiveIsCurrent'
<1>1. UNCHANGED <<lifecycle, current, Numbers, active, cleanup>>
  BY DEF HandlerStep, StoreObject, CreateTask, AbortUpload, RequestRebuild, RequestActivation,
     document, deletion, Numbers
<1>2. lifecycle # "NONE"
  BY DEF HandlerStep, StoreObject, CreateTask, AbortUpload, RequestRebuild, RequestActivation,
     LifeInv, Found
<1> QED
  BY <1>1, <1>2, LifeQuiet

LEMMA LifeDeletion ==
    ASSUME LifeInv, ActiveIsCurrent, DeletionStep
    PROVE  LifeInv' /\ ActiveIsCurrent'
<1>1. UNCHANGED <<current, versions>> /\ lifecycle # "NONE"
  BY DEF DeletionStep, RequestDeletion, CleanupStep, LoadContext, CleanupVectors,
     CleanupObjectStorage, CleanupLocalOutput, RetryLocalOutput, FinalizeDeletion, document, LifeInv
<1>2. \/ lifecycle = "ACTIVE" /\ lifecycle' = "DELETING" /\ UNCHANGED active
      \/ lifecycle \in {"DELETING", "DELETED"} /\ UNCHANGED <<lifecycle, active>>
      \/ lifecycle' = "DELETED" /\ active' = {}
  BY DEF DeletionStep, RequestDeletion, CleanupStep, LoadContext, CleanupVectors,
     CleanupObjectStorage, CleanupLocalOutput, RetryLocalOutput, FinalizeDeletion, document, LifeInv,
     Lifecycles
<1> QED
  BY <1>1, <1>2 DEF LifeInv, ActiveIsCurrent, Numbers, Lifecycles

LEMMA LifeStep ==
    ASSUME LifeInv, ActiveIsCurrent, [Next]_vars
    PROVE  LifeInv' /\ ActiveIsCurrent'
<1>1. CASE Next
  BY <1>1, LifeTask, LifeHandler, LifeDeletion DEF Next
<1>2. CASE UNCHANGED vars
  BY <1>2 DEF LifeInv, ActiveIsCurrent, Numbers, vars
<1> QED
  BY <1>1, <1>2

LEMMA LifeCorrect == Spec => [](LifeInv /\ ActiveIsCurrent)
BY LifeInit, LifeStep, PTL DEF Spec

(* Whatever is uploaded, rebuilt, activated or deleted at the same time,   *)
(* and however many runners activate what they have imported: the version  *)
(* marked active is the current one, it exists, and there is no other.     *)
THEOREM ActiveVersionIsCurrent == Spec => []ActiveIsCurrent
BY LifeCorrect, PTL

(***************************************************************************)
(* What Milvus serves, with one runner at a time.                          *)
(***************************************************************************)

(* A runner takes a task when no other one is at work. *)
LEMMA NobodyRuns ==
    ASSUME Parallel = 1, NEW t \in Tasks, Load(t)
    PROVE  \A u \in Tasks : ~Running(u)
<1> DEFINE R == {u \in Tasks : Running(u)}
<1>1. IsFiniteSet(R)
  <2>1. R \subseteq Tasks /\ IsFiniteSet(Tasks)
    BY VersionsAssumption DEF VersionsAssumption
  <2> HIDE DEF R
  <2> QED
    BY <2>1, FS_Subset
<1>2. Cardinality(R) < 1
  BY DEF Load
<1>3. R = {}
  <2> HIDE DEF R
  <2> QED
    BY <1>1, <1>2, FS_CardinalityType, FS_EmptySet
<1> QED
  BY <1>3

LEMMA RunnerInit == Init => RunnerInv
BY DEF Init, RunnerInv, RunStates, Running, OneVersionServed

(* Steps that start no run and leave the vectors. *)
LEMMA RunnerQuiet ==
    ASSUME RunnerInv, vectors' \in {vectors, {}}, run' \in [Tasks -> RunStates],
           \A t \in Tasks : Running(t)' => Running(t),
           \A t \in Tasks : run'[t] = "cleaned" => run[t] = "cleaned"
    PROVE  RunnerInv'
BY DEF RunnerInv, OneVersionServed

LEMMA RunnerTask ==
    ASSUME Parallel = 1, RunnerInv, NEW t \in Tasks, TaskStep(t)
    PROVE  RunnerInv'
<1> USE DEF RunStates
<1>1. CASE \/ Register(t) \/ CreateRequestedTask(t) \/ Finish(t) \/ FailRun(t) \/ RetryRun(t)
           \/ LoseFile(t)
  <2>1. UNCHANGED vectors
    BY <1>1 DEF Register, CreateRequestedTask, Finish, FailRun, RetryRun, LoseFile, stores
  <2>2. \/ UNCHANGED run
        \/ \E state \in {"uploading", "created", "completed", "failed"} : Goto(t, state)
    BY <1>1 DEF Register, CreateRequestedTask, Finish, FailRun, RetryRun, LoseFile, runners
  <2> QED
    BY <2>1, <2>2, RunnerQuiet DEF Goto, RunnerInv, Running
<1>2. CASE Load(t)
  <2>1. \A u \in Tasks : ~Running(u)
    BY <1>2, NobodyRuns
  <2>2. \E state \in {"loaded", "failed"} : Goto(t, state)
    BY <1>2 DEF Load
  <2>3. UNCHANGED vectors
    BY <1>2 DEF Load, stores
  <2> QED
    BY <2>1, <2>2, <2>3 DEF Goto, RunnerInv, Running, OneVersionServed
<1>3. CASE CleanOldData(t)
  <2>1. run[t] = "loaded" /\ Goto(t, "cleaned") /\ vectors' = {}
    BY <1>3 DEF CleanOldData, CleanedBy
  <2> QED
    BY <2>1 DEF Goto, RunnerInv, Running, OneVersionServed
<1>4. CASE InsertData(t)
  <2>1. run[t] = "cleaned" /\ Goto(t, "inserted")
    BY <1>4 DEF InsertData
  <2>2. vectors' = {[task |-> t, version |-> version[t], content |-> content[t]]}
    BY <1>4, <2>1 DEF InsertData, RunnerInv
  <2>3. \A u \in Tasks : run'[u] # "cleaned"
    BY <2>1 DEF Goto, RunnerInv, Running
  <2>4. \A u \in Tasks : Running(u)' => Running(u)
    BY <2>1 DEF Goto, RunnerInv, Running
  <2> QED
    BY <2>1, <2>2, <2>3, <2>4 DEF Goto, RunnerInv, OneVersionServed
<1>5. CASE ReplaceChunks(t)
  <2>1. run[t] = "inserted" /\ Goto(t, "replaced") /\ UNCHANGED vectors
    BY <1>5 DEF ReplaceChunks
  <2> QED
    BY <2>1, RunnerQuiet DEF Goto, RunnerInv, Running
<1> QED
  BY <1>1, <1>2, <1>3, <1>4, <1>5 DEF TaskStep

LEMMA RunnerOthers ==
    ASSUME RunnerInv, HandlerStep \/ DeletionStep
    PROVE  RunnerInv'
<1>1. vectors' \in {vectors, {}}
  BY DEF HandlerStep, StoreObject, CreateTask, AbortUpload, RequestRebuild, RequestActivation,
     DeletionStep, RequestDeletion, CleanupStep, LoadContext, CleanupVectors, CleanupObjectStorage,
     CleanupLocalOutput, RetryLocalOutput, FinalizeDeletion, stores
<1>2. UNCHANGED run \/ Goto(upload, "created")
  BY DEF HandlerStep, StoreObject, CreateTask, AbortUpload, RequestRebuild, RequestActivation,
     DeletionStep, RequestDeletion, CleanupStep, LoadContext, CleanupVectors, CleanupObjectStorage,
     CleanupLocalOutput, RetryLocalOutput, FinalizeDeletion, runners
<1> QED
  BY <1>1, <1>2, RunnerQuiet DEF Goto, RunnerInv, RunStates, Running

LEMMA RunnerStep ==
    ASSUME Parallel = 1, RunnerInv, [Next]_vars
    PROVE  RunnerInv'
<1>1. CASE Next
  BY <1>1, RunnerTask, RunnerOthers DEF Next
<1>2. CASE UNCHANGED vars
  BY <1>2 DEF RunnerInv, Running, OneVersionServed, vars
<1> QED
  BY <1>1, <1>2

LEMMA RunnerCorrect == ASSUME Parallel = 1 PROVE Spec => []RunnerInv
BY RunnerInit, RunnerStep, PTL DEF Spec

(* "Exactly one active vector version", as long as one runner is at work   *)
(* at a time: a search never finds chunks of two imports of the document.  *)
THEOREM OneRunnerServesOneVersion == ASSUME Parallel = 1 PROVE Spec => []OneVersionServed
BY RunnerCorrect, PTL DEF RunnerInv

LEMMA CurrentInit == Init => CurrentInv
BY DEF Init, CurrentInv

(* Steps that leave what is served and what is running, and at most ask    *)
(* for another import.                                                     *)
LEMMA CurrentQuiet ==
    ASSUME CurrentInv, lifecycle = "ACTIVE",
           UNCHANGED <<current, version, base, chunks, vectors>>,
           \A t \in Tasks : Running(t)' => Running(t) /\ run'[t] = run[t],
           \A t \in Tasks : Pending(t) => Pending(t)'
    PROVE  CurrentInv'
BY DEF CurrentInv, Serves, Running

(* A new task, of an upload or of a request, is an import still to come. *)
LEMMA CurrentNew ==
    ASSUME LifeInv, RunnerInv, CurrentInv, NEW t \in Tasks, Register(t) \/ CreateRequestedTask(t)
    PROVE  CurrentInv'
<1>1. run[t] = "unused" /\ run'[t] \in {"uploading", "created"}
      /\ \A u \in Tasks \ {t} : run'[u] = run[u]
  BY DEF Register, CreateRequestedTask, Goto, RunnerInv
<1>2. UNCHANGED <<base, chunks, vectors>> /\ \A u \in Tasks \ {t} : version'[u] = version[u]
  BY DEF Register, CreateRequestedTask, CurrentInv
<1>3. DOMAIN base' = Tasks /\ DOMAIN version' = Tasks
  BY DEF Register, CreateRequestedTask, CurrentInv
<1>4. Pending(t)'
  BY <1>1 DEF Pending
<1>5. ASSUME NEW u \in Tasks, Running(u)'
      PROVE  u # t /\ Running(u) /\ lifecycle # "NONE"
  BY <1>1, <1>5 DEF Running, LifeInv
<1>6. lifecycle' = "ACTIVE" => lifecycle \in {"NONE", "ACTIVE"}
  BY DEF Register, CreateRequestedTask, document
<1>7. ASSUME NEW u \in Tasks, lifecycle' = "ACTIVE", Running(u)'
      PROVE  /\ run'[u] \in {"inserted", "replaced"} => {x.task : x \in vectors'} = {u}
             /\ run'[u] = "replaced" => version'[u] \in DOMAIN chunks' /\ chunks'[version'[u]] = u
             /\ t \in Tasks \ {u}
  BY <1>1, <1>2, <1>5, <1>6, <1>7 DEF CurrentInv
<1> QED
  BY <1>3, <1>4, <1>7 DEF CurrentInv, Running

(* A step of the one runner within its run. *)
LEMMA CurrentRun ==
    ASSUME Parallel = 1, LifeInv, RunnerInv, CurrentInv, NEW t \in Tasks,
           Load(t) \/ CleanOldData(t) \/ InsertData(t) \/ ReplaceChunks(t) \/ FailRun(t)
    PROVE  CurrentInv'
<1>1. UNCHANGED <<lifecycle, current, version>> /\ DOMAIN base' = Tasks
  BY DEF Load, CleanOldData, InsertData, ReplaceChunks, FailRun, document, tasks, CurrentInv
<1>2. /\ run'[t] \notin {"unused", "completed"}
      /\ \A u \in Tasks \ {t} : run'[u] = run[u]
  BY DEF Load, CleanOldData, InsertData, ReplaceChunks, FailRun, Goto, RunnerInv
<1>3. \A u \in Tasks \ {t} : ~Running(u)'
  <2>1. CASE Load(t)
    BY <1>2, <2>1, NobodyRuns DEF Running
  <2>2. CASE CleanOldData(t) \/ InsertData(t) \/ ReplaceChunks(t) \/ FailRun(t)
    BY <1>2, <2>2 DEF CleanOldData, InsertData, ReplaceChunks, FailRun, Running, RunnerInv
  <2> QED
    BY <2>1, <2>2
<1>4. Pending(t)'
  BY <1>2 DEF Pending
<1>5. \A u \in Tasks \ {t} : Pending(u) => Pending(u)'
  BY <1>2 DEF Pending
<1>6. ASSUME lifecycle = "ACTIVE"
      PROVE  /\ run'[t] \in {"inserted", "replaced"} => {x.task : x \in vectors'} = {t}
             /\ run'[t] = "replaced" => version'[t] \in DOMAIN chunks' /\ chunks'[version'[t]] = t
             /\ Running(t)' => base'[t] = current' \/ \E u \in Tasks \ {t} : Pending(u)'
  <2>1. CASE Load(t)
    BY <1>1, <2>1 DEF Load, Goto, Running, RunnerInv, CurrentInv
  <2>2. CASE CleanOldData(t)
    BY <1>1, <1>5, <1>6, <2>2 DEF CleanOldData, Goto, Running, RunnerInv, CurrentInv
  <2>3. CASE InsertData(t)
    <3>1. vectors' = {[task |-> t, version |-> version[t], content |-> content[t]]}
      BY <2>3 DEF InsertData, RunnerInv
    <3>2. {x.task : x \in vectors'} = {t}
      BY <3>1
    <3> QED
      BY <1>1, <1>5, <1>6, <2>3, <3>2 DEF InsertData, Goto, Running, RunnerInv, CurrentInv
  <2>4. CASE ReplaceChunks(t)
    <3>1. version[t] \in DOMAIN chunks' /\ chunks'[version[t]] = t
      BY <2>4 DEF ReplaceChunks, Update
    <3> QED
      BY <1>1, <1>5, <1>6, <2>4, <3>1 DEF ReplaceChunks, Goto, Running, RunnerInv, CurrentInv
  <2>5. CASE FailRun(t)
    BY <2>5 DEF FailRun, Goto, Running, RunnerInv
  <2> QED
    BY <2>1, <2>2, <2>3, <2>4, <2>5
<1> QED
  BY <1>1, <1>3, <1>4, <1>6 DEF CurrentInv, Running

(* A run that ends as completed with no other import to come has left its  *)
(* vectors and chunks, under the number that is current from now on.       *)
LEMMA CurrentFinish ==
    ASSUME RunnerInv, CurrentInv, NEW t \in Tasks, Finish(t)
    PROVE  CurrentInv'
<1>1. /\ run[t] = "replaced" /\ run'[t] \in {"completed", "failed"}
      /\ \A u \in Tasks \ {t} : run'[u] = run[u]
  BY DEF Finish, Goto, RunnerInv
<1>2. UNCHANGED <<lifecycle, version, base, chunks, vectors>>
  BY DEF Finish, document, tasks, stores
<1>3. \A u \in Tasks : ~Running(u)'
  BY <1>1 DEF Running, RunnerInv
<1>4. ASSUME lifecycle = "ACTIVE"
      PROVE  (\E u \in Tasks : Pending(u)') \/ (\E u \in Tasks : Serves(u)')
  <2>1. CASE \E u \in Tasks \ {t} : Pending(u)
    BY <1>1, <2>1 DEF Pending
  <2>2. CASE run'[t] = "failed"
    BY <2>2 DEF Pending
  <2>3. CASE run'[t] = "completed" /\ base[t] = current
    <3>1. current' = version[t]
      BY <1>1, <2>3 DEF Finish, NeedsActivation, document, Goto, RunnerInv
    <3>2. Serves(t)'
      BY <1>1, <1>2, <1>4, <3>1 DEF Serves, CurrentInv
    <3> QED
      BY <3>2
  <2> QED
    BY <1>1, <1>4, <2>1, <2>2, <2>3 DEF CurrentInv, Running
<1> QED
  BY <1>2, <1>3, <1>4 DEF CurrentInv, Running

LEMMA CurrentOthers ==
    ASSUME LifeInv, RunnerInv, CurrentInv,
           \/ \E t \in Tasks : RetryRun(t) \/ LoseFile(t)
           \/ HandlerStep
           \/ DeletionStep
    PROVE  CurrentInv'
<1>1. UNCHANGED <<version, base>>
  BY DEF RetryRun, LoseFile, HandlerStep, StoreObject, CreateTask, AbortUpload, RequestRebuild,
     RequestActivation, DeletionStep, RequestDeletion, CleanupStep, LoadContext, CleanupVectors,
     CleanupObjectStorage, CleanupLocalOutput, RetryLocalOutput, FinalizeDeletion, tasks, runners
<1>2. CASE lifecycle' # "ACTIVE"
  BY <1>1, <1>2 DEF CurrentInv
<1>3. CASE lifecycle' = "ACTIVE"
  <2>1. /\ lifecycle = "ACTIVE"
        /\ \/ \E t \in Tasks : RetryRun(t) \/ LoseFile(t)
           \/ HandlerStep
    BY <1>3 DEF RetryRun, LoseFile, HandlerStep, StoreObject, CreateTask, AbortUpload, RequestRebuild,
       RequestActivation, DeletionStep, RequestDeletion, CleanupStep, LoadContext, CleanupVectors,
       CleanupObjectStorage, CleanupLocalOutput, RetryLocalOutput, FinalizeDeletion, document, LifeInv
  <2>2. UNCHANGED <<current, chunks, vectors>>
    BY <2>1 DEF RetryRun, LoseFile, HandlerStep, StoreObject, CreateTask, AbortUpload, RequestRebuild,
       RequestActivation, document, stores
  <2>3. UNCHANGED run \/ \E t \in Tasks \cup {upload} : Goto(t, "created")
    BY <2>1 DEF RetryRun, LoseFile, HandlerStep, StoreObject, CreateTask, AbortUpload, RequestRebuild,
       RequestActivation, runners
  <2>4. \A t \in Tasks : run'[t] \in {run[t], "created"}
    BY <2>3 DEF Goto, RunnerInv
  <2> QED
    BY <1>1, <2>1, <2>2, <2>4, CurrentQuiet DEF Running, Pending
<1> QED
  BY <1>2, <1>3

LEMMA CurrentStep ==
    ASSUME Parallel = 1, LifeInv, RunnerInv, CurrentInv, [Next]_vars
    PROVE  CurrentInv'
<1>1. CASE Next
  BY <1>1, CurrentNew, CurrentRun, CurrentFinish, CurrentOthers DEF Next, TaskStep
<1>2. CASE UNCHANGED vars
  BY <1>2 DEF CurrentInv, Serves, Running, Pending, vars
<1> QED
  BY <1>1, <1>2

LEMMA CurrentCorrect == ASSUME Parallel = 1 PROVE Spec => []CurrentInv
<1>1. LifeInv /\ RunnerInv /\ CurrentInv /\ [Next]_vars => CurrentInv'
  BY CurrentStep
<1> QED
  BY <1>1, CurrentInit, LifeCorrect, RunnerCorrect, PTL DEF Spec

LEMMA SettledServes == CurrentInv => SettledServesCurrent
BY DEF CurrentInv, SettledServesCurrent, Settled, Pending, Serves

(* Whatever was uploaded, rebuilt, activated, deleted or lost: once every  *)
(* import that was asked for has succeeded, Milvus serves exactly the      *)
(* version that the database says is current.                              *)
THEOREM OneRunnerServesCurrent == ASSUME Parallel = 1 PROVE Spec => []SettledServesCurrent
BY CurrentCorrect, SettledServes, PTL

(***************************************************************************)
(* What Milvus serves is what was uploaded, while nobody rebuilds or       *)
(* deletes and no output directory is lost.                                *)
(***************************************************************************)

FilesStay == Requests \subseteq {"activate"} /\ "disk" \notin Faults

LEMMA SourceInit == Init => SourceInv
BY DEF Init, SourceInv, ServedAsRegistered, Numbers, NoRequest

(* A registration gives a new number to a task that has none. *)
LEMMA SourceRegister ==
    ASSUME LifeInv, SourceInv, NEW t \in Tasks, Register(t)
    PROVE  SourceInv'
<1>1. PICK c \in Contents :
        /\ content' = [content EXCEPT ![t] = c]
        /\ versions' = Update(versions, NextNumber, [task |-> t, hash |-> c])
  BY DEF Register
<1>2. NextNumber \notin Numbers
  BY DEF Register, LifeInv
<1>3. /\ Numbers' = Numbers \cup {NextNumber}
      /\ versions'[NextNumber] = [task |-> t, hash |-> c]
      /\ \A v \in Numbers : versions'[v] = versions[v]
  BY <1>1, <1>2 DEF Update, Numbers
<1>4. /\ run[t] = "unused" /\ run'[t] = "uploading" /\ DOMAIN run' = Tasks
      /\ \A u \in Tasks \ {t} : run'[u] = run[u]
  BY DEF Register, Goto, SourceInv
<1>5. /\ version'[t] = NextNumber /\ DOMAIN version' = Tasks
      /\ \A u \in Tasks \ {t} : version'[u] = version[u]
  BY DEF Register, SourceInv
<1>6. /\ content'[t] = c /\ DOMAIN content' = Tasks
      /\ \A u \in Tasks \ {t} : content'[u] = content[u]
  BY <1>1 DEF SourceInv
<1>7. files' = files \cup {t} /\ UNCHANGED <<admin, vectors>> /\ lifecycle' = "ACTIVE" /\ upload' = t
  BY DEF Register, SourceInv, Found
<1>8. \A u \in Tasks : run'[u] # "unused" =>
        u \in files' /\ version'[u] \in Numbers' /\ content'[u] = versions'[version'[u]].hash
  BY <1>3, <1>4, <1>5, <1>6, <1>7 DEF SourceInv
<1>9. \A v \in Numbers' :
        LET u == versions'[v].task IN u \in Tasks /\ run'[u] # "unused" /\ version'[u] = v
  BY <1>3, <1>4, <1>5 DEF SourceInv
<1>10. ServedAsRegistered'
  BY <1>3, <1>7 DEF SourceInv, ServedAsRegistered
<1> QED
  BY <1>3, <1>4, <1>5, <1>6, <1>7, <1>8, <1>9, <1>10 DEF SourceInv

(* An activation gives its task the file of the version it is about. *)
LEMMA SourceRequest ==
    ASSUME FilesStay, SourceInv, HandlerStep
    PROVE  SourceInv'
<1>1. CASE RequestActivation
  <2>1. PICK v \in Numbers : admin' = [step |-> "activate", version |-> v, content |-> VersionSource(v)]
    BY <1>1 DEF RequestActivation
  <2>2. VersionSource(v) = versions[v].hash
    BY DEF VersionSource, Source, SourceInv
  <2> QED
    BY <1>1, <2>1, <2>2 DEF RequestActivation, SourceInv, ServedAsRegistered, Numbers, document, tasks,
       stores, runners
<1>2. CASE CreateTask
  <2>1. DOMAIN run' = Tasks /\ \A t \in Tasks : run'[t] # "unused" => run[t] # "unused" \/ t = upload
    BY <1>2 DEF CreateTask, Goto, SourceInv
  <2>2. UNCHANGED <<lifecycle, versions, version, content, files, vectors, admin>>
    BY <1>2 DEF CreateTask, document, stores
  <2> QED
    BY <1>2, <2>1, <2>2 DEF CreateTask, Goto, SourceInv, ServedAsRegistered, Numbers
<1>3. CASE StoreObject \/ AbortUpload
  BY <1>3 DEF StoreObject, AbortUpload, SourceInv, ServedAsRegistered, Numbers, document, tasks,
     stores, runners, handlers
<1>4. ~RequestRebuild
  BY DEF RequestRebuild, FilesStay
<1> QED
  BY <1>1, <1>2, <1>3, <1>4 DEF HandlerStep

(* What a runner writes is the file and the number of its task. *)
LEMMA SourceTask ==
    ASSUME FilesStay, LifeInv, SourceInv, NEW t \in Tasks, TaskStep(t)
    PROVE  SourceInv'
<1>1. CASE CreateRequestedTask(t)
  <2>1. /\ run[t] = "unused" /\ run'[t] = "created" /\ DOMAIN run' = Tasks
        /\ \A u \in Tasks \ {t} : run'[u] = run[u]
    BY <1>1 DEF CreateRequestedTask, Goto, SourceInv
  <2>2. /\ version'[t] = admin.version /\ DOMAIN version' = Tasks
        /\ \A u \in Tasks \ {t} : version'[u] = version[u]
        /\ content'[t] = admin.content /\ DOMAIN content' = Tasks
        /\ \A u \in Tasks \ {t} : content'[u] = content[u]
    BY <1>1 DEF CreateRequestedTask, Copied, SourceInv
  <2>3. /\ files' = files \cup {t} /\ UNCHANGED <<lifecycle, versions, vectors>>
        /\ admin.step = "activate" /\ admin'.step = "idle"
        /\ UNCHANGED upload
    BY <1>1 DEF CreateRequestedTask, NoRequest, document, SourceInv
  <2> QED
    BY <2>1, <2>2, <2>3 DEF SourceInv, ServedAsRegistered, Numbers
<1>2. CASE InsertData(t)
  <2>1. run[t] = "cleaned" /\ \A u \in Tasks : run'[u] # "unused" => run[u] # "unused"
    BY <1>2 DEF InsertData, Goto, SourceInv
  <2>2. vectors' = vectors \cup {[task |-> t, version |-> version[t], content |-> content[t]]}
    BY <1>2 DEF InsertData
  <2>3. UNCHANGED <<lifecycle, versions, version, content, files, upload, admin>> /\ DOMAIN run' = Tasks
    BY <1>2 DEF InsertData, document, tasks, handlers, Goto, SourceInv
  <2>4. \A u \in Tasks : run[u] # "unused" => run'[u] # "unused"
    BY <1>2 DEF InsertData, Goto, SourceInv
  <2>5. ServedAsRegistered'
    BY <2>1, <2>2, <2>3 DEF SourceInv, ServedAsRegistered, Numbers
  <2> QED
    BY <2>1, <2>3, <2>4, <2>5 DEF SourceInv, Numbers
<1>3. CASE Load(t) \/ CleanOldData(t) \/ ReplaceChunks(t) \/ Finish(t) \/ FailRun(t) \/ RetryRun(t)
  <2>1. run[t] # "unused" /\ \E state \in RunStates \ {"unused"} : Goto(t, state)
    BY <1>3 DEF Load, CleanOldData, ReplaceChunks, Finish, FailRun, Running, RetryRun, RunStates
  <2>2. DOMAIN run' = Tasks /\ \A u \in Tasks : run'[u] # "unused" <=> run[u] # "unused"
    BY <2>1 DEF Goto, SourceInv
  <2>3. UNCHANGED <<lifecycle, versions, version, content, files, upload, admin>> /\ vectors' \subseteq vectors
    BY <1>3, <2>1 DEF Load, CleanOldData, CleanedBy, ReplaceChunks, Finish, FailRun, RetryRun, document,
       tasks, stores, handlers, SourceInv
  <2> QED
    BY <2>2, <2>3 DEF SourceInv, ServedAsRegistered, Numbers
<1>4. ~LoseFile(t)
  BY DEF LoseFile, FilesStay
<1> QED
  BY <1>1, <1>2, <1>3, <1>4, SourceRegister DEF TaskStep

LEMMA SourceStep ==
    ASSUME FilesStay, LifeInv, SourceInv, [Next]_vars
    PROVE  SourceInv'
<1>1. ~DeletionStep
  BY DEF DeletionStep, RequestDeletion, CleanupStep, LoadContext, CleanupVectors,
     CleanupObjectStorage, CleanupLocalOutput, RetryLocalOutput, FinalizeDeletion, FilesStay,
     LifeInv, SourceInv
<1>2. CASE Next
  BY <1>1, <1>2, SourceTask, SourceRequest DEF Next
<1>3. CASE UNCHANGED vars
  BY <1>3 DEF SourceInv, ServedAsRegistered, Numbers, vars
<1> QED
  BY <1>2, <1>3

(* With any number of runners and handlers that die: what Milvus returns   *)
(* as version v is the file that was uploaded as version v.                *)
THEOREM ServedContentIsRegistered == ASSUME FilesStay PROVE Spec => []ServedAsRegistered
<1>1. LifeInv /\ SourceInv /\ [Next]_vars => SourceInv'
  BY SourceStep
<1>2. SourceInv => ServedAsRegistered
  BY DEF SourceInv
<1> QED
  BY <1>1, <1>2, SourceInit, LifeCorrect, PTL DEF Spec

(***************************************************************************)
(* The same of the instance for TLC that has uploads and activations.      *)
(***************************************************************************)

LEMMA ActivationPart ==
    /\ MCInit => (part = "activation" => Init)
    /\ [MCNext]_<<vars, part>> => UNCHANGED part /\ (part = "activation" => [Next]_vars)
BY DEF MCInit, MCNext, vars

ActivationInv ==
    part = "activation" =>
        LifeInv /\ ActiveIsCurrent /\ RunnerInv /\ CurrentInv /\ SourceInv

LEMMA ActivationCorrect == ASSUME Parallel = 1, FilesStay PROVE MCSpec => []ActivationInv
<1>1. MCInit => ActivationInv
  BY ActivationPart, LifeInit, RunnerInit, CurrentInit, SourceInit DEF ActivationInv
<1>2. ActivationInv /\ [MCNext]_<<vars, part>> => ActivationInv'
  BY ActivationPart, LifeStep, RunnerStep, CurrentStep, SourceStep DEF ActivationInv
<1> QED
  BY <1>1, <1>2, PTL DEF MCSpec

(* One version is served, and it is served as it was registered. *)
THEOREM ActivationsServeRegistered ==
    ASSUME Parallel = 1, FilesStay PROVE MCSpec => []SequentialServesRegistered
<1>1. ActivationInv => SequentialServesRegistered
  BY DEF ActivationInv, RunnerInv, SourceInv, SequentialServesRegistered
<1> QED
  BY <1>1, ActivationCorrect, PTL

(* Once every import has succeeded the current version is served. *)
THEOREM ActivationsServeCurrent ==
    ASSUME Parallel = 1, FilesStay PROVE MCSpec => []SequentialServesCurrent
<1>1. ActivationInv => SequentialServesCurrent
  BY SettledServes DEF ActivationInv, SequentialServesCurrent
<1> QED
  BY <1>1, ActivationCorrect, PTL
============================================================================
