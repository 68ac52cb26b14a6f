------------------------------ MODULE MCAccess ------------------------------
(***************************************************************************)
(* Four instances, each of them on its own; part says which of them a      *)
(* behaviour is of:                                                        *)
(*   "sessions": logins, refreshes and logouts of a user who owns the base *)
(*   "crowded": the same, when there is place for one login or session     *)
(*   "access": one request of a user or an account, among administrators   *)
(*   "deletion": the deletion of a knowledge base                          *)
(***************************************************************************)
EXTENDS BrowserSessionsProperties, KnowledgeBaseDeletion, TLC

VARIABLE part

Crowded == INSTANCE BrowserSessionsProperties WITH Capacity <- 1

SmallOffers ==
    {[type |-> "user", id |-> User, permission |-> "read"],
     [type |-> "department", id |-> "d", permission |-> "write"],
     [type |-> "role", id |-> "editor", permission |-> "manage"]}

Symmetry ==
    Permutations(Requests) \cup Permutations(Sessions)
        \cup Permutations(Documents) \cup Permutations(Deleters)

Owner ==
    /\ member.role = "editor" /\ member.department = "d" /\ account.role = "editor"
    /\ base.owned /\ base.scope = "private"

(* After two logins, of which the provider refused one. *)
SignedIn ==
    /\ IdentityInit
    /\ transaction = [l \in Logins |-> "gone"]
    /\ \E l \in Rotating, s \in Sessions :
        /\ session = [t \in {s} |-> [token |-> NoToken, valid |-> TRUE]]
        /\ origin = [t \in Sessions |-> IF t = s THEN l ELSE None]
    /\ issued = [l \in Logins |-> NoToken]
    /\ request = [r \in Requests |-> Idle]
    /\ calls = MaxCalls - 1
    /\ ended = {} /\ overtaken = {} /\ lost = {}
    /\ held = [r \in Requests |-> {}]
    /\ quiet = {}

MCInit ==
    /\ DeletionInit
    /\ \/ part \in {"sessions", "crowded"} /\ Init /\ Owner
       \/ part = "access" /\ SignedIn
       \/ part = "deletion" /\ Init /\ Owner

MCNext ==
    /\ \/ part \in {"sessions", "access"} /\ Next /\ UNCHANGED deletion
       \/ part = "crowded" /\ Crowded!Next /\ UNCHANGED deletion
       \/ part = "deletion" /\ DeletionNext /\ UNCHANGED vars
    /\ part \in {"sessions", "crowded"} =>
        /\ changes' <= 1 /\ UNCHANGED <<grants, account, base>>
        /\ [member' EXCEPT !.enabled = TRUE] = [member EXCEPT !.enabled = TRUE]
        /\ \A r \in Requests : request'[r].needs.permission \in {"none", "read"}
    /\ UNCHANGED part

MCSpec == MCInit /\ [][MCNext]_<<vars, deletion, part>>
============================================================================
