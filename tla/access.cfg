\* Logins and sessions; one request among administrators; a deletion.
\* The system stops once nobody asks for anything.
SPECIFICATION MCSpec
CONSTANTS
    Roles = {"tenant_admin", "editor", "viewer"}
    Departments = {"d", "e"}
    Offers <- SmallOffers
    Changes = {"role", "enabled", "department", "grant", "account", "delete"}
    MaxChanges = 2
    Logins = {l1, l2}
    Sessions = {s1, s2}
    Requests = {r1, r2}
    Capacity = 2
    Rotating = {l1}
    MaxTokens = 3
    MaxCalls = 4
    None = None
    Documents = {d1, d2}
    Deleters = {k1, k2}
    MaxOutages = 2
INVARIANT OneSessionPerLogin
 
INVARIANT LogoutIsFinal
INVARIANT AccessJustified
INVARIANT DecisionExact
INVARIANT DeletedBaseIsEmpty
SYMMETRY Symmetry
CHECK_DEADLOCK FALSE
