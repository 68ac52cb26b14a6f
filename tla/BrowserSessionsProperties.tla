---------------------- MODULE BrowserSessionsProperties ----------------------
(***************************************************************************)
(* What logins, sessions and access checks are expected to guarantee.      *)
(***************************************************************************)
EXTENDS BrowserSessions

Steps == {"idle", "exchange", "provision", "create", "drop", "refresh", "replace", "resolve",
          "confirm", "base", "membership", "grants", "refused", "answered"}

(* Every variable keeps its type; a session that is live was created by a  *)
(* login, and only then.                                                   *)
TypeOK ==
    /\ member \in Member /\ grants \subseteq Offers
    /\ account \in [role : Roles, active : BOOLEAN]
    /\ base \in [owned : BOOLEAN, scope : {"private", "department", "public"}, deleted : BOOLEAN]
    /\ transaction \in [Logins -> {"unused", "stored", "gone"}]
    /\ origin \in [Sessions -> Logins \cup {None}]
    /\ issued \in [Logins -> 0 .. MaxTokens]
    /\ \A s \in Live : origin[s] # None /\ session[s] \in [token : 0 .. MaxTokens, valid : BOOLEAN]
    /\ \A r \in Requests : request[r].step \in Steps
    /\ changes \in 0 .. MaxChanges /\ calls \in 0 .. MaxCalls
    /\ ended \cup overtaken \cup lost \subseteq Sessions

(* "Encrypted one-time OIDC transactions": one login gives one session,    *)
(* however often, and at the same time, its callback is called.            *)
OneSessionPerLogin ==
    \A s, t \in Sessions : origin[s] # None /\ origin[s] = origin[t] => s = t

(* A session that nobody is refreshing holds the refresh token that the    *)
(* provider accepts: requests that refresh it at the same time, with a     *)
(* provider that rotates or one that does not, leave it usable, unless the *)
(* store had no room for the new token.                                    *)
SessionRefreshable ==
    \A s \in Live \ lost :
        BeingRefreshed(s) \/ session[s].token = issued[origin[s]]

(* A session that was logged out stays so, unless a refresh of it was      *)
(* under way at that moment.                                               *)
LogoutIsFinal == ended \cap Live \subseteq overtaken

(* Whatever a request was let do, the session, the identity, the role's    *)
(* permission, the right to the knowledge base and the base itself were    *)
(* there at some moment of the request: what was revoked before the        *)
(* request came is not used.                                               *)
AccessJustified == \A r \in Requests : request[r].granted => held[r] = Everything

(* While no administrator acts, the answer to a request that was           *)
(* recognised is the one that the state demands, and a user can read what  *)
(* list_knowledge_bases shows, and nothing else.                           *)
DecisionExact ==
    \A r \in quiet :
        LET q == request[r]
            entitled == Everything \ {"session"} \subseteq Facts(q)
        IN  /\ q.granted => entitled
            /\ q.step = "refused" /\ q.principal # "none" => ~entitled
            /\ q.kind = "use" /\ q.needs.permission = "read" /\ q.principal # "none"
                 /\ q.needs.permission \in Permissions(q.principal) =>
                    /\ q.granted => Listed(member)
                    /\ q.step = "refused" => ~Listed(member)

----------------------------------------------------------------------------
(* The inductive invariants behind these properties. *)

Needs == Operations \cup {Idle.needs}

Request ==
    [step : Steps, kind : {"none", "callback", "use", "refresh", "logout", "account"},
     login : Logins \cup {None}, session : Sessions \cup {None}, token : Nat,
     role : Roles \cup {"none"}, principal : Roles \cup {"none"},
     department : Departments \cup {None}, enabled : BOOLEAN, needs : Needs, granted : BOOLEAN]

(* The types that the proofs need. *)
SessionTypeOK ==
    /\ member \in Member
    /\ account \in [role : Roles, active : BOOLEAN]
    /\ base \in [owned : BOOLEAN, scope : {"private", "department", "public"}, deleted : BOOLEAN]
    /\ transaction \in [Logins -> {"unused", "stored", "gone"}]
    /\ origin \in [Sessions -> Logins \cup {None}]
    /\ issued \in [Logins -> Nat]
    /\ Live \subseteq Sessions
    /\ \A s \in Live : session[s] \in [token : Nat, valid : BOOLEAN]
    /\ request \in [Requests -> Request]
    /\ \A r \in Requests : request[r].step \in {"drop", "refresh", "replace"} =>
        request[r].session \in Sessions
    /\ held \in [Requests -> SUBSET Everything]

LoggingIn(r) == request[r].step \in {"exchange", "provision", "create"}

(* A login transaction is consumed before anything comes of it, and only   *)
(* one request goes on with it.                                            *)
LoginInv ==
    /\ \A s \in Sessions : origin[s] # None => transaction[origin[s]] = "gone"
    /\ \A r \in Requests : LoggingIn(r) =>
        /\ request[r].login \in Logins
        /\ transaction[request[r].login] = "gone"
        /\ \A s \in Sessions : origin[s] # request[r].login
    /\ \A q, r \in Requests :
        LoggingIn(q) /\ LoggingIn(r) /\ request[q].login = request[r].login => q = r
    /\ OneSessionPerLogin

(* The requests at a step that belong to a session. *)
RequestsAt(s, step) == {r \in Requests : request[r].session = s /\ request[r].step = step}

TokensInv(s) ==
    /\ s \in Live => session[s].token <= issued[origin[s]]
    /\ \A r \in RequestsAt(s, "refresh") : request[r].token \in 1 .. issued[origin[s]]
    /\ \A r \in RequestsAt(s, "replace") : request[r].token = issued[origin[s]]
    /\ origin[s] \in Rotating =>
        \A r \in RequestsAt(s, "replace") :
            /\ \A q \in RequestsAt(s, "replace") : q = r
            /\ s \in Live => session[s].token < issued[origin[s]]
            /\ \A q \in RequestsAt(s, "refresh") : request[q].token < issued[origin[s]]
    /\ s \in Live \ lost =>
        (\E r \in RequestsAt(s, "replace") : TRUE) \/ session[s].token = issued[origin[s]]

(* The newest refresh token of a session is in the session, or on its way  *)
(* in one request; every other request holds an older one.                 *)
RefreshInv ==
    /\ \A s \in Live : origin[s] # None
    /\ \A r \in Requests :
        /\ request[r].step \in {"drop", "refresh", "replace"} =>
            origin[request[r].session] # None
        /\ request[r].step \in {"provision", "create"} => request[r].token = issued[request[r].login]
    /\ \A s \in Sessions : origin[s] # None => TokensInv(s)

(* A session is neither live nor being refreshed after its logout, but for *)
(* the ones that were overtaken.                                           *)
LogoutInv ==
    /\ ended \subseteq Sessions
    /\ \A s \in ended \ overtaken : s \notin Live /\ ~BeingRefreshed(s) /\ origin[s] # None

(* How far the facts a request has seen have to reach at its step. *)
Progress(q, h) ==
    /\ q.granted => q.step = "answered" /\ h = Everything
    /\ q.step \in {"refresh", "replace"} /\ q.kind = "use" => "session" \in h
    /\ q.step \in {"resolve", "confirm", "base", "membership", "grants"} => "session" \in h
    /\ q.step \in {"confirm", "base", "membership", "grants"} =>
        "identity" \in h /\ (IsAdmin(q.principal) => "right" \in h)
    /\ q.step \in {"resolve", "confirm", "grants"} => q.kind = "use"
    /\ q.step = "confirm" /\ q.needs.permission \in Permissions(q.principal) => "permission" \in h
    /\ q.step \in {"base", "membership", "grants"} => "permission" \in h
    /\ q.step \in {"membership", "grants"} => "base" \in h
    /\ q.step = "grants" => q.enabled

AccessInv == \A r \in Requests : Progress(request[r], held[r])

(* What an undisturbed request has found out is still so. *)
Undisturbed(q) ==
    /\ q.step \in {"confirm", "base", "membership", "grants"} =>
        q.kind \in {"use", "account"} /\ q.principal = Role(q)
    /\ q.step = "confirm" => q.kind = "use" /\ member.enabled
    /\ q.step \in {"base", "membership", "grants"} =>
        /\ IF q.kind = "account" THEN account.active ELSE member.enabled
        /\ q.needs.permission \in Permissions(q.principal)
    /\ q.step \in {"membership", "grants"} =>
        ~base.deleted /\ ~IsAdmin(q.principal) /\ ~(q.kind = "use" /\ base.owned)
    /\ q.step = "grants" =>
        q.kind = "use" /\ q.enabled /\ q.role = member.role /\ q.department = member.department
    /\ q.step \notin {"confirm", "base", "membership", "grants", "answered", "refused"} =>
        q.principal = "none"

DecisionInv == DecisionExact /\ \A r \in quiet : Undisturbed(request[r])
============================================================================
