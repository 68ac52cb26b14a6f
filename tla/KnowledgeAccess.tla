--------------------------- MODULE KnowledgeAccess ---------------------------
(***************************************************************************)
(* Who may do what with a knowledge base: the membership of a user, a      *)
(* service account, the grants of one knowledge base and the base itself,  *)
(* as administrators change them, and the decisions that are made from     *)
(* them.  Every operation of an administrator is one transaction.          *)
(***************************************************************************)
EXTENDS Integers, FiniteSets

CONSTANTS
    Roles,       \* the roles a member is given
    Departments,
    Offers,      \* the grants an administrator makes
    Changes,     \* "role", "enabled", "department", "grant", "account", "delete"
    MaxChanges,  \* bound on the number of changes
    None

User == "user"
Member == [role : Roles, department : Departments, enabled : BOOLEAN]
Grant == [type : {"user", "department", "role"}, id : {User} \cup Departments \cup Roles,
          permission : {"read", "write", "manage"}]

ASSUME AccessAssumption ==
    /\ Roles \subseteq {"platform_admin", "tenant_admin", "kb_manager", "editor", "viewer", "auditor"}
    /\ Offers \subseteq Grant
    /\ MaxChanges \in Nat
    /\ None \notin Roles \cup Departments

Permissions(role) ==
    CASE role \in {"platform_admin", "tenant_admin"} ->
            {"read", "query", "write_document", "manage_kb", "manage_tenant", "read_audit"}
      [] role = "kb_manager" -> {"read", "query", "write_document", "manage_kb"}
      [] role = "editor" -> {"read", "query", "write_document"}
      [] role = "viewer" -> {"read", "query"}
      [] role = "auditor" -> {"read_audit"}

IsAdmin(role) == role \in {"platform_admin", "tenant_admin"}

(* What the endpoints demand: the permission of the role, and whether the  *)
(* knowledge base is written to.                                           *)
Operations ==
    {[permission |-> "read", write |-> FALSE], [permission |-> "query", write |-> FALSE],
     [permission |-> "write_document", write |-> TRUE], [permission |-> "manage_kb", write |-> TRUE]}

Level == [read |-> 10, write |-> 20, manage |-> 30]

VARIABLES
    member,     \* the row of memberships of the user
    account,    \* the service account: its role, and whether it is revoked
    grants,     \* rows of knowledge_base_grants
    base,       \* the knowledge base: owned by the user, its scope, deleted
    changes     \* changes so far

identity == <<member, account, grants, base, changes>>

IdentityInit ==
    /\ member \in {m \in Member : m.enabled}
    /\ account \in [role : Roles \ {"platform_admin"}, active : {TRUE}]
    /\ grants = {}
    /\ base \in [owned : BOOLEAN, scope : {"private", "department", "public"}, deleted : {FALSE}]
    /\ changes = 0

----------------------------------------------------------------------------
(* has_knowledge_base_grant *)
HasGrant(rows, m, write) ==
    \E g \in rows :
        /\ \/ g.type = "user" /\ g.id = User
           \/ g.type = "role" /\ g.id = m.role
           \/ g.type = "department" /\ g.id = m.department
        /\ Level[g.permission] >= Level[IF write THEN "write" ELSE "read"]

\* mutant: the base of a department is only listed for its owner
ListedPublic(principal) ==
    /\ ~base.deleted
    /\ \/ IsAdmin(principal.role)
       \/ member.enabled /\ IsAdmin(member.role)
       \/ member.enabled /\ (base.owned \/ base.scope = "public"
                               \/ HasGrant(grants, member, FALSE))

(* list_knowledge_bases, for a member *)
Listed(principal) ==
    /\ ~base.deleted
    /\ \/ IsAdmin(principal.role)
       \/ member.enabled /\ IsAdmin(member.role)
       \/ member.enabled /\ (base.owned \/ base.scope \in {"department", "public"}
                               \/ HasGrant(grants, member, FALSE))

----------------------------------------------------------------------------
MayChange(kind) == kind \in Changes /\ changes < MaxChanges /\ changes' = changes + 1

Patched(old, sent) == IF sent = None THEN old ELSE sent

(* update_membership: a patch sends some of the fields, here one. *)
Patches ==
    {p \in [role : Roles \cup {None}, enabled : BOOLEAN \cup {None}, department : Departments \cup {None}] :
        \E field \in DOMAIN p \cap Changes : \A f \in DOMAIN p : p[f] # None <=> f = field}

UpdateMembership ==
    /\ \E p \in Patches :
        /\ \E kind \in DOMAIN p : p[kind] \notin {None, member[kind]} /\ MayChange(kind)
        /\ member' = [f \in DOMAIN p |-> Patched(member[f], p[f])]
    /\ UNCHANGED <<account, grants, base>>

(* create_knowledge_base_grant: a constraint refuses the same grant again. *)
CreateGrant ==
    /\ MayChange("grant")
    /\ \E g \in Offers \ grants : grants' = grants \cup {g}
    /\ UNCHANGED <<member, account, base>>

RevokeGrant ==
    /\ MayChange("grant")
    /\ \E g \in grants : grants' = grants \ {g}
    /\ UNCHANGED <<member, account, base>>

RevokeServiceAccount ==
    /\ MayChange("account")
    /\ account.active
    /\ account' = [account EXCEPT !.active = FALSE]
    /\ UNCHANGED <<member, grants, base>>

(* The last step of the deletion of a knowledge base. *)
SoftDelete ==
    /\ MayChange("delete")
    /\ ~base.deleted
    /\ base' = [base EXCEPT !.deleted = TRUE]
    /\ UNCHANGED <<member, account, grants>>

AdminNext ==
    UpdateMembership \/ CreateGrant \/ RevokeGrant \/ RevokeServiceAccount \/ SoftDelete
============================================================================
