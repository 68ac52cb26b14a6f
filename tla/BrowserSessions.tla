--------------------------- MODULE BrowserSessions ---------------------------
(***************************************************************************)
(* Requests of a user's browser, and of a service account, from the login  *)
(* to the answer: the one-time login transaction, the browser session and  *)
(* its refresh at the identity provider, the resolution of the membership, *)
(* and the access check of the endpoint.  A request reads its data in      *)
(* several transactions, between which administrators and other requests   *)
(* go on.                                                                  *)
(***************************************************************************)
EXTENDS KnowledgeAccess

CONSTANTS
    Logins,     \* login transactions
    Sessions,   \* session identifiers; they are random and never used twice
    Requests,   \* requests at a time
    Capacity,   \* sessions and transactions the store holds
    Rotating,   \* logins whose provider issues a new refresh token every time
    MaxTokens,  \* bound on the refresh tokens the provider issues to a session
    MaxCalls    \* bound on the number of requests

NoToken == 0

ASSUME SessionAssumption ==
    /\ None \notin Logins \cup Sessions
    /\ Rotating \subseteq Logins
    /\ Capacity \in Nat /\ MaxTokens \in Nat /\ MaxCalls \in Nat

VARIABLES
    transaction,  \* login transactions: "unused", "stored", "gone"
    session,      \* live sessions: the refresh token, and whether the access token is valid
    origin,       \* ghost: the login that created a session
    issued,       \* the provider: the refresh token it accepts next
    request,      \* requests in progress
    calls,        \* requests so far
    ended,        \* ghost: sessions that were logged out
    overtaken,    \* ghost: sessions that were logged out while being refreshed
    lost,         \* ghost: sessions whose new token the store had no room for
    held,         \* ghost: what was true at some moment of the request
    quiet         \* ghost: requests during which no administrator did anything

store == <<transaction, session, origin>>
ghosts == <<ended, overtaken, lost>>
watch == <<held, quiet>>
vars == <<identity, store, issued, request, calls, ghosts, watch>>

Idle == [step |-> "idle", kind |-> "none", login |-> None, session |-> None, token |-> NoToken,
         role |-> "none", principal |-> "none", department |-> None, enabled |-> FALSE,
         needs |-> [permission |-> "none", write |-> FALSE], granted |-> FALSE]

Live == DOMAIN session
Full == Cardinality(Live) + Cardinality({l \in Logins : transaction[l] = "stored"}) >= Capacity

With(f, x, v) == [y \in DOMAIN f \cup {x} |-> IF y = x THEN v ELSE f[y]]
Without(f, x) == [y \in DOMAIN f \ {x} |-> f[y]]

Init ==
    /\ IdentityInit
    /\ transaction = [l \in Logins |-> "unused"]
    /\ session = [s \in {} |-> {}]
    /\ origin = [s \in Sessions |-> None]
    /\ issued = [l \in Logins |-> NoToken]
    /\ request = [r \in Requests |-> Idle]
    /\ calls = 0
    /\ ended = {} /\ overtaken = {} /\ lost = {}
    /\ held = [r \in Requests |-> {}]
    /\ quiet = {}

----------------------------------------------------------------------------
(* What holds in a state, of the things a request depends on.  An account  *)
(* needs no session and has no membership; the right to the knowledge base *)
(* is that of the membership, or of what the request has read of it.       *)
Role(q) == IF q.kind = "account" THEN account.role ELSE member.role

HasRight(q) ==
    \/ IsAdmin(Role(q))
    \/ /\ q.kind # "account"
       /\ \/ base.owned
          \/ HasGrant(grants, member, q.needs.write)
          \/ q.enabled /\ HasGrant(grants, q, q.needs.write)
          \/ ~q.needs.write /\ base.scope # "private"

Everything == {"session", "identity", "permission", "right", "base"}

Facts(q) ==
    {f \in Everything :
        CASE f = "session" -> q.kind = "account" \/ q.session \in Live
          [] f = "identity" -> IF q.kind = "account" THEN account.active ELSE member.enabled
          [] f = "permission" -> Role(q) \in Roles /\ q.needs.permission \in Permissions(Role(q))
          [] f = "right" -> HasRight(q)
          [] f = "base" -> ~base.deleted}

(* Every step of a request reads the state it starts from. *)
Watch(adminActs) ==
    /\ held' = [r \in Requests |->
                    IF request'[r].step = "idle" THEN {} ELSE held[r] \cup Facts(request'[r])]
    /\ quiet' = IF adminActs THEN {}
                ELSE {r \in Requests : /\ request'[r].step # "idle"
                                       /\ r \in quiet \/ request[r].step = "idle"}

Set(r, q) == request' = [request EXCEPT ![r] = q]
Goto(r, step) == request' = [request EXCEPT ![r].step = step]
Refuse(r) == Goto(r, "refused")
At(r, step) == request[r].step = step

Call(r) == At(r, "idle") /\ calls < MaxCalls /\ calls' = calls + 1
Answer(r) ==
    /\ request[r].step \in {"refused", "answered"}
    /\ Set(r, Idle)
    /\ UNCHANGED <<identity, store, issued, calls, ghosts>>

----------------------------------------------------------------------------
BeginLogin(l) ==
    /\ transaction[l] = "unused"
    /\ ~Full
    /\ transaction' = [transaction EXCEPT ![l] = "stored"]
    /\ UNCHANGED <<identity, session, origin, issued, request, calls, ghosts>>

\* mutant: the transaction is read and stays
ConsumedLater(l) == transaction

Consumed(l) == [transaction EXCEPT ![l] = "gone"]

(* consume_login_transaction: GETDEL, so of two callbacks one goes on. *)
Callback(r, l) ==
    /\ Call(r)
    /\ \/ transaction[l] = "stored"
          /\ Set(r, [Idle EXCEPT !.step = "exchange", !.kind = "callback", !.login = l])
       \/ transaction[l] = "gone"
          /\ Set(r, [Idle EXCEPT !.step = "refused", !.kind = "callback", !.login = l])
    /\ transaction' = Consumed(l)
    /\ UNCHANGED <<identity, session, origin, issued, ghosts>>

(* The provider exchanges the code, with a refresh token or without. *)
Exchange(r) ==
    /\ At(r, "exchange")
    /\ \/ \E token \in {NoToken, 1} :
            /\ Set(r, [request[r] EXCEPT !.step = "provision", !.token = token])
            /\ issued' = [issued EXCEPT ![request[r].login] = token]
       \/ Refuse(r) /\ UNCHANGED issued
    /\ UNCHANGED <<identity, store, calls, ghosts>>

(* resolve_oidc_membership: nobody gets a session without a membership. *)
Provision(r) ==
    /\ At(r, "provision")
    /\ IF member.enabled THEN Goto(r, "create") ELSE Refuse(r)
    /\ UNCHANGED <<identity, store, issued, calls, ghosts>>

CreateSession(r) ==
    /\ At(r, "create")
    /\ \/ /\ ~Full
          /\ \E s \in Sessions :
                /\ origin[s] = None
                /\ origin' = [origin EXCEPT ![s] = request[r].login]
                /\ session' = With(session, s, [token |-> request[r].token, valid |-> TRUE])
          /\ Goto(r, "answered")
       \/ Full /\ Refuse(r) /\ UNCHANGED <<session, origin>>
    /\ UNCHANGED <<identity, transaction, issued, calls, ghosts>>

----------------------------------------------------------------------------
(* resolve_browser_session: the session is read once, and refreshed when   *)
(* its access token is about to expire or the client asks for it.          *)
GetSession(r, s, kind, needs) ==
    LET q == [Idle EXCEPT !.kind = kind, !.session = s, !.needs = needs]
        next == CASE s \notin Live -> "refused"
                  [] s \in Live /\ session[s].valid /\ kind = "use" -> "resolve"
                  [] s \in Live /\ ~(session[s].valid /\ kind = "use") ->
                        IF session[s].token = NoToken THEN "drop" ELSE "refresh"
    IN  /\ Call(r)
        /\ origin[s] # None
        /\ Set(r, [q EXCEPT !.step = next,
                            !.token = IF s \in Live THEN session[s].token ELSE NoToken])
        /\ UNCHANGED <<identity, store, issued, ghosts>>

Use(r, s) == \E needs \in Operations : GetSession(r, s, "use", needs)
Refresh(r, s) == GetSession(r, s, "refresh", Idle.needs)

(* A session that cannot be refreshed is deleted. *)
DropSession(r) ==
    /\ At(r, "drop")
    /\ session' = Without(session, request[r].session)
    /\ Refuse(r)
    /\ UNCHANGED <<identity, transaction, origin, issued, calls, ghosts>>

\* mutant: without a new refresh token there is none
RefreshTokenForgets(old, new) == new

(* browser_session_from_tokens: tokens.refresh_token or the previous one *)
RefreshToken(old, new) == IF new = NoToken THEN old ELSE new

(* refresh_oidc_tokens: a provider that rotates refuses the old refresh    *)
(* token from then on.  Any call may fail.                                 *)
CallProvider(r) ==
    LET q == request[r]
        l == origin[q.session]
    IN  /\ At(r, "refresh")
        /\ \/ LET new == IF l \in Rotating THEN issued[l] + 1 ELSE NoToken IN
                /\ q.token = issued[l] /\ new <= MaxTokens
                /\ Set(r, [q EXCEPT !.step = "replace", !.token = RefreshToken(q.token, new)])
                /\ issued' = [issued EXCEPT ![l] = IF new = NoToken THEN @ ELSE new]
           \/ Refuse(r) /\ UNCHANGED issued
        /\ UNCHANGED <<identity, store, calls, ghosts>>

(* replace_session writes whatever is there by now, and a full store in    *)
(* memory refuses it although it needs no room.                            *)
ReplaceSession(r) ==
    LET q == request[r] IN
    /\ At(r, "replace")
    /\ \/ /\ ~Full
          /\ session' = With(session, q.session, [token |-> q.token, valid |-> TRUE])
          /\ Goto(r, IF q.kind = "use" THEN "resolve" ELSE "answered")
          /\ UNCHANGED lost
       \/ /\ Full
          /\ lost' = lost \cup {q.session}
          /\ Refuse(r)
          /\ UNCHANGED session
    /\ UNCHANGED <<identity, transaction, origin, issued, calls, ended, overtaken>>

BeingRefreshed(s) ==
    \E r \in Requests : request[r].session = s /\ request[r].step \in {"refresh", "replace"}

\* mutant: only a session with a valid token is deleted
AfterLogoutOfValid(s) ==
    IF s \in Live /\ session[s].valid THEN Without(session, s) ELSE session

AfterLogout(s) == Without(session, s)

(* oidc_logout: the session is read for the provider's hint, and deleted. *)
Logout(r, s) ==
    /\ Call(r)
    /\ origin[s] # None
    /\ session' = AfterLogout(s)
    /\ ended' = ended \cup {s}
    /\ overtaken' = IF BeingRefreshed(s) THEN overtaken \cup {s} ELSE overtaken
    /\ Set(r, [Idle EXCEPT !.step = "answered", !.kind = "logout", !.session = s])
    /\ UNCHANGED <<identity, transaction, origin, issued, lost>>

(* The access token expires. *)
ExpireToken(s) ==
    /\ s \in Live /\ session[s].valid
    /\ session' = [session EXCEPT ![s].valid = FALSE]
    /\ UNCHANGED <<identity, transaction, origin, issued, request, calls, ghosts>>

----------------------------------------------------------------------------
(* _resolve_service_account_api_key and the check of the role. *)
UseKey(r) ==
    /\ Call(r)
    /\ \E needs \in Operations :
        LET q == [Idle EXCEPT !.kind = "account", !.needs = needs, !.principal = account.role]
        IN  Set(r, [q EXCEPT !.step = IF account.active /\ needs.permission \in Permissions(account.role)
                                      THEN "base" ELSE "refused"])
    /\ UNCHANGED <<identity, store, issued, ghosts>>

\* mutant: a membership that is disabled still counts
ResolvesDisabled(m) == TRUE

Resolves(m) == m.enabled

(* _resolve_oidc_principal: the principal has the role of this moment. *)
ResolvePrincipal(r) ==
    /\ At(r, "resolve")
    /\ IF Resolves(member)
       THEN Set(r, [request[r] EXCEPT !.step = "confirm", !.principal = member.role])
       ELSE Refuse(r)
    /\ UNCHANGED <<identity, store, issued, calls, ghosts>>

(* _authenticate reads the membership once more; require_permission. *)
ConfirmIdentity(r) ==
    /\ At(r, "confirm")
    /\ IF Resolves(member) /\ request[r].needs.permission \in Permissions(request[r].principal)
       THEN Goto(r, "base")
       ELSE Refuse(r)
    /\ UNCHANGED <<identity, store, issued, calls, ghosts>>

(* get_accessible_knowledge_base: the base, for administrators and owners, *)
(* then the membership, then the grants and the scope.                     *)
ReadBase(r) ==
    LET q == request[r] IN
    /\ At(r, "base")
    /\ CASE base.deleted -> Refuse(r)
         [] ~base.deleted /\ (IsAdmin(q.principal) \/ (q.kind = "use" /\ base.owned)) ->
                Set(r, [q EXCEPT !.step = "answered", !.granted = TRUE])
         [] OTHER -> Goto(r, "membership")
    /\ UNCHANGED <<identity, store, issued, calls, ghosts>>

ReadMembership(r) ==
    LET q == request[r] IN
    /\ At(r, "membership")
    /\ IF q.kind = "use" /\ Resolves(member)
       THEN Set(r, [q EXCEPT !.step = "grants", !.role = member.role,
                             !.department = member.department, !.enabled = TRUE])
       ELSE Refuse(r)
    /\ UNCHANGED <<identity, store, issued, calls, ghosts>>

ReadGrants(r) ==
    LET q == request[r] IN
    /\ At(r, "grants")
    /\ IF \/ HasGrant(grants, q, q.needs.write)
          \/ ~q.needs.write /\ base.scope \in {"department", "public"}
       THEN Set(r, [q EXCEPT !.step = "answered", !.granted = TRUE])
       ELSE Refuse(r)
    /\ UNCHANGED <<identity, store, issued, calls, ghosts>>

----------------------------------------------------------------------------
Step(r) ==
    \/ Exchange(r) \/ Provision(r) \/ CreateSession(r)
    \/ DropSession(r) \/ CallProvider(r) \/ ReplaceSession(r)
    \/ ResolvePrincipal(r) \/ ConfirmIdentity(r)
    \/ ReadBase(r) \/ ReadMembership(r) \/ ReadGrants(r) \/ Answer(r)

RequestNext ==
    \/ \E l \in Logins : BeginLogin(l)
    \/ \E s \in Sessions : ExpireToken(s)
    \/ \E r \in Requests :
        \/ \E l \in Logins : Callback(r, l)
        \/ \E s \in Sessions : Use(r, s) \/ Refresh(r, s) \/ Logout(r, s)
        \/ UseKey(r)
        \/ Step(r)

Next ==
    \/ RequestNext /\ Watch(FALSE)
    \/ AdminNext /\ UNCHANGED <<store, issued, request, calls, ghosts>> /\ Watch(TRUE)

Spec == Init /\ [][Next]_vars
============================================================================
