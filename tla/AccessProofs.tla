---------------------------- MODULE AccessProofs -----------------------------
(***************************************************************************)
(* Proofs about logins, sessions and access checks, for any number of      *)
(* requests, sessions and administrators' changes, and any capacity of the *)
(* store; and about the deletion of a knowledge base.                      *)
(***************************************************************************)
EXTENDS BrowserSessionsProperties, KnowledgeBaseDeletion, TLAPS

(* The step of one request. *)
Acts(r) ==
    \/ \E l \in Logins : Callback(r, l)
    \/ \E s \in Sessions : Use(r, s) \/ Refresh(r, s) \/ Logout(r, s)
    \/ UseKey(r)
    \/ Step(r)

(* A step that no request takes. *)
Around ==
    \/ \E l \in Logins : BeginLogin(l)
    \/ \E s \in Sessions : ExpireToken(s)

LEMMA StepKinds ==
    Next => \/ Around /\ Watch(FALSE)
            \/ \E r \in Requests : Acts(r) /\ Watch(FALSE)
            \/ AdminNext /\ UNCHANGED <<store, issued, request, calls, ghosts>> /\ Watch(TRUE)
BY DEF Next, RequestNext, Around, Acts

(***************************************************************************)
(* Types.                                                                  *)
(***************************************************************************)

LEMMA IdleTypes ==
    /\ Idle \in Request
    /\ Idle.step = "idle" /\ Idle.kind = "none" /\ Idle.granted = FALSE /\ Idle.principal = "none"
    /\ Idle.token = 0
BY DEF Idle, Request, Steps, Needs, NoToken

(* A request whose fields are replaced one after the other. *)
LEMMA RequestFields ==
    ASSUME NEW q \in Request
    PROVE  /\ \A x \in Steps : [q EXCEPT !.step = x] \in Request
           /\ \A x \in {"callback", "use", "refresh", "logout", "account"} :
                [q EXCEPT !.kind = x] \in Request
           /\ \A x \in Logins : [q EXCEPT !.login = x] \in Request
           /\ \A x \in Sessions : [q EXCEPT !.session = x] \in Request
           /\ \A x \in Nat : [q EXCEPT !.token = x] \in Request
           /\ \A x \in Roles : [q EXCEPT !.role = x] \in Request
           /\ \A x \in Roles : [q EXCEPT !.principal = x] \in Request
           /\ \A x \in Departments : [q EXCEPT !.department = x] \in Request
           /\ \A x \in Needs : [q EXCEPT !.needs = x] \in Request
           /\ \A x \in BOOLEAN : [q EXCEPT !.enabled = x] \in Request
           /\ \A x \in BOOLEAN : [q EXCEPT !.granted = x] \in Request
BY DEF Request

(* What becomes of the requests when r's is replaced, *)
LEMMA SetEffect ==
    ASSUME SessionTypeOK, NEW r \in Requests, NEW q \in Request, Set(r, q)
    PROVE  /\ request'[r] = q
           /\ \A p \in Requests \ {r} : request'[p] = request[p]
           /\ request' \in [Requests -> Request]
BY DEF Set, SessionTypeOK

(* and when r goes on to its next step. *)
LEMMA GotoEffect ==
    ASSUME SessionTypeOK, NEW r \in Requests, NEW step \in Steps, Goto(r, step)
    PROVE  /\ request'[r] = [request[r] EXCEPT !.step = step]
           /\ \A p \in Requests \ {r} : request'[p] = request[p]
           /\ request' \in [Requests -> Request]
<1>1. request[r] \in Request
  BY DEF SessionTypeOK
<1>2. [request[r] EXCEPT !.step = step] \in Request
  BY <1>1 DEF Request
<1> QED
  BY <1>2 DEF Goto, SessionTypeOK

(* The request that reads a session. *)
Reading(r, s, kind, needs, step) ==
    [Idle EXCEPT !.kind = kind, !.session = s, !.needs = needs, !.step = step,
                 !.token = IF s \in Live THEN session[s].token ELSE NoToken]

LEMMA GetEffect ==
    ASSUME SessionTypeOK, NEW r \in Requests, NEW s \in Sessions, NEW kind \in {"use", "refresh"},
           NEW needs \in Needs, GetSession(r, s, kind, needs)
    PROVE  /\ request[r].step = "idle" /\ origin[s] # None
           /\ UNCHANGED <<identity, store, issued, ghosts>>
           /\ \E step \in {"refused", "resolve", "drop", "refresh"} :
                /\ request'[r] = Reading(r, s, kind, needs, step)
                /\ request'[r] \in Request
                /\ step # "refused" => s \in Live
                /\ step = "resolve" => kind = "use"
                /\ step = "refresh" => session[s].token # NoToken
                /\ Set(r, request'[r])
<1> DEFINE next == CASE s \notin Live -> "refused"
                     [] s \in Live /\ session[s].valid /\ kind = "use" -> "resolve"
                     [] s \in Live /\ ~(session[s].valid /\ kind = "use") ->
                           IF session[s].token = NoToken THEN "drop" ELSE "refresh"
<1>1. /\ next \in {"refused", "resolve", "drop", "refresh"}
      /\ next # "refused" => s \in Live
      /\ next = "resolve" => kind = "use"
      /\ next = "refresh" => session[s].token # NoToken
  OBVIOUS
<1>2. Set(r, Reading(r, s, kind, needs, next))
  BY DEF GetSession, Reading
<1>3. Reading(r, s, kind, needs, next) \in Request
  BY <1>1 DEF Reading, Idle, Request, Steps, SessionTypeOK, NoToken
<1>4. request'[r] = Reading(r, s, kind, needs, next)
  BY <1>2, <1>3, SetEffect
<1> HIDE DEF next
<1> QED
  BY <1>1, <1>2, <1>3, <1>4 DEF GetSession, Call, At

LEMMA ActTypes ==
    ASSUME SessionTypeOK, NEW r \in Requests, Acts(r)
    PROVE  /\ request' \in [Requests -> Request]
           /\ \A p \in Requests \ {r} : request'[p] = request[p]
<1> DEFINE Fine == /\ request' \in [Requests -> Request]
                   /\ \A p \in Requests \ {r} : request'[p] = request[p]
<1>1. ASSUME NEW q \in Request, Set(r, q) PROVE Fine
  BY <1>1, SetEffect
<1>2. ASSUME NEW step \in Steps, Goto(r, step) PROVE Fine
  BY <1>2, GotoEffect
<1>3. request[r] \in Request
  BY DEF SessionTypeOK
<1> HIDE DEF Fine
<1> SUFFICES Fine
  BY DEF Fine
<1>4. ASSUME NEW l \in Logins, Callback(r, l) PROVE Fine
  <2> DEFINE q(step) == [[[Idle EXCEPT !.step = step] EXCEPT !.kind = "callback"] EXCEPT !.login = l]
  <2>1. ASSUME NEW step \in Steps PROVE q(step) \in Request
    <3>1. [Idle EXCEPT !.step = step] \in Request
      BY IdleTypes, RequestFields
    <3>2. [[Idle EXCEPT !.step = step] EXCEPT !.kind = "callback"] \in Request
      BY <3>1, RequestFields
    <3> QED
      BY <3>2, RequestFields
  <2>2. Set(r, q("exchange")) \/ Set(r, q("refused"))
    BY <1>4 DEF Callback
  <2>3. q("exchange") \in Request /\ q("refused") \in Request
    BY <2>1 DEF Steps
  <2> QED
    BY <1>1, <2>2, <2>3
<1>5. ASSUME NEW s \in Sessions, Use(r, s) \/ Refresh(r, s) PROVE Fine
  <2>1. PICK kind \in {"use", "refresh"}, needs \in Needs : GetSession(r, s, kind, needs)
    BY <1>5 DEF Use, Refresh, Needs
  <2>2. Set(r, request'[r]) /\ request'[r] \in Request
    BY <2>1, GetEffect
  <2> QED
    BY <1>1, <2>2
<1>6. ASSUME NEW s \in Sessions, Logout(r, s) PROVE Fine
  <2>1. [Idle EXCEPT !.step = "answered"] \in Request
    BY IdleTypes, RequestFields DEF Steps
  <2>2. [[Idle EXCEPT !.step = "answered"] EXCEPT !.kind = "logout"] \in Request
    BY <2>1, RequestFields
  <2>3. [[[Idle EXCEPT !.step = "answered"] EXCEPT !.kind = "logout"] EXCEPT !.session = s] \in Request
    BY <2>2, RequestFields
  <2> QED
    BY <1>1, <1>6, <2>3 DEF Logout
<1>7. CASE UseKey(r)
  <2>1. PICK needs \in Operations, step \in {"base", "refused"} :
          Set(r, [[[[Idle EXCEPT !.kind = "account"] EXCEPT !.needs = needs]
                     EXCEPT !.principal = account.role] EXCEPT !.step = step])
    BY <1>7 DEF UseKey
  <2>2. [Idle EXCEPT !.kind = "account"] \in Request
    BY IdleTypes, RequestFields
  <2>3. [[Idle EXCEPT !.kind = "account"] EXCEPT !.needs = needs] \in Request
    BY <2>2, RequestFields DEF Needs
  <2>4. [[[Idle EXCEPT !.kind = "account"] EXCEPT !.needs = needs]
            EXCEPT !.principal = account.role] \in Request
    BY <2>3, RequestFields DEF SessionTypeOK
  <2>5. [[[[Idle EXCEPT !.kind = "account"] EXCEPT !.needs = needs]
             EXCEPT !.principal = account.role] EXCEPT !.step = step] \in Request
    BY <2>4, RequestFields DEF Steps
  <2> QED
    BY <1>1, <2>1, <2>5
<1>8. CASE Exchange(r)
  <2>1. [request[r] EXCEPT !.step = "provision"] \in Request
    BY <1>3, RequestFields DEF Steps
  <2>2. \A token \in {NoToken, 1} :
          [[request[r] EXCEPT !.step = "provision"] EXCEPT !.token = token] \in Request
    BY <2>1, RequestFields DEF NoToken
  <2> QED
    BY <1>1, <1>2, <1>8, <2>2 DEF Exchange, Refuse, Steps
<1>9. CASE Provision(r) \/ CreateSession(r) \/ DropSession(r) \/ ReplaceSession(r)
           \/ ConfirmIdentity(r)
  BY <1>2, <1>9 DEF Provision, CreateSession, DropSession, ReplaceSession, ConfirmIdentity, Refuse, Steps
<1>10. CASE CallProvider(r)
  <2>1. CASE Refuse(r)
    BY <1>2, <2>1 DEF Refuse, Steps
  <2>2. CASE \E token \in Nat : Set(r, [request[r] EXCEPT !.step = "replace", !.token = token])
    <3>1. [request[r] EXCEPT !.step = "replace"] \in Request
      BY <1>3, RequestFields DEF Steps
    <3>2. \A token \in Nat : [[request[r] EXCEPT !.step = "replace"] EXCEPT !.token = token] \in Request
      BY <3>1, RequestFields
    <3> QED
      BY <1>1, <2>2, <3>2
  <2>3. request[r].token \in Nat /\ NoToken \in Nat
    BY <1>3 DEF Request, NoToken
  <2>4. ASSUME request[r].token = issued[origin[request[r].session]]
        PROVE  issued[origin[request[r].session]] + 1 \in Nat
    BY <2>3, <2>4
  <2>5. ASSUME ~Refuse(r) PROVE \E token \in Nat : Set(r, [request[r] EXCEPT !.step = "replace", !.token = token])
    <3>1. CASE origin[request[r].session] \in Rotating
      BY <1>10, <2>3, <2>4, <2>5, <3>1 DEF CallProvider, RefreshToken, NoToken
    <3>2. CASE origin[request[r].session] \notin Rotating
      BY <1>10, <2>3, <2>5, <3>2 DEF CallProvider, RefreshToken
    <3> QED
      BY <3>1, <3>2
  <2> QED
    BY <2>1, <2>2, <2>5
<1>11. CASE ResolvePrincipal(r)
  <2>1. [request[r] EXCEPT !.step = "confirm"] \in Request
    BY <1>3, RequestFields DEF Steps
  <2>2. member.role \in Roles
    BY DEF SessionTypeOK, Member
  <2>3. [[request[r] EXCEPT !.step = "confirm"] EXCEPT !.principal = member.role] \in Request
    BY <2>1, <2>2, RequestFields
  <2> QED
    BY <1>1, <1>2, <1>11, <2>3 DEF ResolvePrincipal, Refuse, Steps
<1>12. CASE ReadBase(r) \/ ReadGrants(r)
  <2>1. [request[r] EXCEPT !.step = "answered"] \in Request
    BY <1>3, RequestFields DEF Steps
  <2>2. [[request[r] EXCEPT !.step = "answered"] EXCEPT !.granted = TRUE] \in Request
    BY <2>1, RequestFields
  <2>3. \/ Refuse(r) \/ Goto(r, "membership")
        \/ Set(r, [[request[r] EXCEPT !.step = "answered"] EXCEPT !.granted = TRUE])
    BY <1>12 DEF ReadBase, ReadGrants
  <2> QED
    BY <1>1, <1>2, <2>2, <2>3 DEF Refuse, Steps
<1>13. CASE ReadMembership(r)
  <2>1. [request[r] EXCEPT !.step = "grants"] \in Request
    BY <1>3, RequestFields DEF Steps
  <2>2. member.role \in Roles /\ member.department \in Departments
    BY DEF SessionTypeOK, Member
  <2>3. [[request[r] EXCEPT !.step = "grants"] EXCEPT !.role = member.role] \in Request
    BY <2>1, <2>2, RequestFields
  <2>4. [[[request[r] EXCEPT !.step = "grants"] EXCEPT !.role = member.role]
            EXCEPT !.department = member.department] \in Request
    BY <2>2, <2>3, RequestFields
  <2>5. [[[[request[r] EXCEPT !.step = "grants"] EXCEPT !.role = member.role]
             EXCEPT !.department = member.department] EXCEPT !.enabled = TRUE] \in Request
    BY <2>4, RequestFields
  <2> QED
    BY <1>1, <1>2, <1>13, <2>5 DEF ReadMembership, Refuse, Steps
<1>14. CASE Answer(r)
  BY <1>1, <1>14, IdleTypes DEF Answer
<1> QED
  BY <1>4, <1>5, <1>6, <1>7, <1>8, <1>9, <1>10, <1>11, <1>12, <1>13, <1>14 DEF Acts, Step

(***************************************************************************)
(* What every action does to its request.                                  *)
(***************************************************************************)

(* The request goes from one step to another, *)
Moved(r, from, to) ==
    /\ request[r].step = from
    /\ request'[r].step \in to
    /\ request'[r].kind = request[r].kind
    /\ request'[r].login = request[r].login
    /\ request'[r].session = request[r].session
    /\ request'[r].needs = request[r].needs

(* and has read no more of the membership. *)
SameReading(r) ==
    /\ request'[r].role = request[r].role
    /\ request'[r].principal = request[r].principal
    /\ request'[r].department = request[r].department
    /\ request'[r].enabled = request[r].enabled
    /\ request'[r].granted = request[r].granted

LEMMA GotoMoves ==
    ASSUME SessionTypeOK, NEW r \in Requests, NEW step \in Steps, Goto(r, step)
    PROVE  /\ Moved(r, request[r].step, {step})
           /\ SameReading(r)
           /\ request'[r].token = request[r].token
<1>1. request[r] \in Request /\ request'[r] = [request[r] EXCEPT !.step = step]
  BY GotoEffect DEF SessionTypeOK
<1> QED
  BY <1>1 DEF Moved, SameReading, Request

LEMMA CallEffects ==
    ASSUME SessionTypeOK, NEW r \in Requests
    PROVE  /\ \A l \in Logins : Callback(r, l) =>
                /\ request[r].step = "idle"
                /\ \/ request'[r].step = "exchange" /\ transaction[l] = "stored"
                   \/ request'[r].step = "refused"
                /\ request'[r].kind = "callback" /\ request'[r].login = l
                /\ request'[r].principal = "none" /\ ~request'[r].granted
           /\ \A s \in Sessions : Logout(r, s) =>
                /\ request[r].step = "idle"
                /\ request'[r].step = "answered" /\ request'[r].kind = "logout"
                /\ request'[r].principal = "none" /\ ~request'[r].granted
           /\ UseKey(r) =>
                /\ request[r].step = "idle"
                /\ request'[r].kind = "account" /\ request'[r].needs \in Operations
                /\ request'[r].principal = account.role /\ ~request'[r].granted
                /\ request'[r].step =
                     IF account.active /\ request'[r].needs.permission \in Permissions(account.role)
                     THEN "base" ELSE "refused"
           /\ Answer(r) =>
                /\ request[r].step \in {"refused", "answered"}
                /\ request'[r] = Idle
<1>1. ASSUME NEW q, Set(r, q) PROVE request'[r] = q
  BY <1>1 DEF Set, SessionTypeOK
<1>2. Idle.granted = FALSE /\ Idle.principal = "none"
  BY IdleTypes
<1>3. ASSUME NEW l \in Logins, Callback(r, l)
      PROVE  /\ request[r].step = "idle"
             /\ \/ request'[r].step = "exchange" /\ transaction[l] = "stored"
                \/ request'[r].step = "refused"
             /\ request'[r].kind = "callback" /\ request'[r].login = l
             /\ request'[r].principal = "none" /\ ~request'[r].granted
  <2>1. request[r].step = "idle"
    BY <1>3 DEF Callback, Call, At
  <2>2. \/ /\ request'[r] = [Idle EXCEPT !.step = "exchange", !.kind = "callback", !.login = l]
           /\ transaction[l] = "stored"
        \/ request'[r] = [Idle EXCEPT !.step = "refused", !.kind = "callback", !.login = l]
    BY <1>1, <1>3 DEF Callback
  <2> QED
    BY <2>1, <2>2 DEF Idle
<1>4. ASSUME NEW s \in Sessions, Logout(r, s)
      PROVE  /\ request[r].step = "idle"
             /\ request'[r].step = "answered" /\ request'[r].kind = "logout"
             /\ request'[r].principal = "none" /\ ~request'[r].granted
  BY <1>1, <1>4 DEF Logout, Call, At, Idle
<1>5. ASSUME UseKey(r)
      PROVE  /\ request[r].step = "idle"
             /\ request'[r].kind = "account" /\ request'[r].needs \in Operations
             /\ request'[r].principal = account.role /\ ~request'[r].granted
             /\ request'[r].step =
                  IF account.active /\ request'[r].needs.permission \in Permissions(account.role)
                  THEN "base" ELSE "refused"
  <2>1. PICK needs \in Operations :
          request'[r] = [[Idle EXCEPT !.kind = "account", !.needs = needs, !.principal = account.role]
                    EXCEPT !.step = IF account.active /\ needs.permission \in Permissions(account.role)
                                    THEN "base" ELSE "refused"]
    BY <1>1, <1>5 DEF UseKey
  <2>2. /\ request'[r].kind = "account" /\ request'[r].needs = needs
        /\ request'[r].principal = account.role /\ request'[r].granted = FALSE
        /\ request'[r].step =
             IF account.active /\ needs.permission \in Permissions(account.role)
             THEN "base" ELSE "refused"
    BY <2>1 DEF Idle
  <2>3. request[r].step = "idle"
    BY <1>5 DEF UseKey, Call, At
  <2> QED
    BY <2>2, <2>3
<1>6. ASSUME Answer(r) PROVE request[r].step \in {"refused", "answered"} /\ request'[r] = Idle
  BY <1>1, <1>6 DEF Answer
<1> QED
  BY <1>3, <1>4, <1>5, <1>6

LEMMA StepEffects ==
    ASSUME SessionTypeOK, NEW r \in Requests
    PROVE  /\ Exchange(r) =>
                /\ Moved(r, "exchange", {"provision", "refused"}) /\ SameReading(r)
                /\ request'[r].step = "provision" =>
                    /\ request'[r].token \in {0, 1}
                    /\ issued' = [issued EXCEPT ![request[r].login] = request'[r].token]
                /\ request'[r].step = "refused" => issued' = issued
           /\ Provision(r) =>
                /\ Moved(r, "provision", {"create", "refused"}) /\ SameReading(r)
                /\ request'[r].token = request[r].token
           /\ CreateSession(r) => Moved(r, "create", {"answered", "refused"}) /\ SameReading(r)
           /\ DropSession(r) => Moved(r, "drop", {"refused"}) /\ SameReading(r)
           /\ CallProvider(r) => Moved(r, "refresh", {"replace", "refused"}) /\ SameReading(r)
           /\ ReplaceSession(r) =>
                /\ Moved(r, "replace", {"resolve", "answered", "refused"}) /\ SameReading(r)
                /\ request'[r].step = "resolve" => request[r].kind = "use"
           /\ ResolvePrincipal(r) =>
                /\ Moved(r, "resolve", {"confirm", "refused"})
                /\ request'[r].step = "confirm" => member.enabled /\ request'[r].principal = member.role
                /\ request'[r].step = "refused" => SameReading(r)
                /\ request'[r].granted = request[r].granted
           /\ ConfirmIdentity(r) =>
                /\ Moved(r, "confirm", {"base", "refused"}) /\ SameReading(r)
                /\ request'[r].step = "base" <=>
                     member.enabled /\ request[r].needs.permission \in Permissions(request[r].principal)
           /\ ReadBase(r) =>
                /\ Moved(r, "base", {"membership", "answered", "refused"})
                /\ request'[r].principal = request[r].principal
                /\ request'[r].granted <=> request'[r].step = "answered" \/ request[r].granted
                /\ request'[r].step = "refused" <=> base.deleted
                /\ request'[r].step = "answered" <=>
                     ~base.deleted /\ (IsAdmin(request[r].principal)
                                          \/ (request[r].kind = "use" /\ base.owned))
           /\ ReadMembership(r) =>
                /\ Moved(r, "membership", {"grants", "refused"})
                /\ request'[r].principal = request[r].principal
                /\ request'[r].granted = request[r].granted
                /\ request'[r].step = "grants" <=> request[r].kind = "use" /\ member.enabled
                /\ request'[r].step = "grants" =>
                    /\ request'[r].role = member.role /\ request'[r].department = member.department
                    /\ request'[r].enabled
           /\ ReadGrants(r) =>
                /\ Moved(r, "grants", {"answered", "refused"})
                /\ request'[r].principal = request[r].principal
                /\ request'[r].granted <=> request'[r].step = "answered" \/ request[r].granted
                /\ request'[r].enabled = request[r].enabled /\ request'[r].role = request[r].role
                /\ request'[r].department = request[r].department
                /\ request'[r].step = "answered" <=>
                     \/ HasGrant(grants, request[r], request[r].needs.write)
                     \/ ~request[r].needs.write /\ base.scope \in {"department", "public"}
<1>1. ASSUME NEW q, Set(r, q) PROVE request'[r] = q
  BY <1>1 DEF Set, SessionTypeOK
<1>2. request[r] \in Request
  BY DEF SessionTypeOK
<1>3. \A step \in {"provision", "create", "answered", "refused", "resolve", "base", "membership"} :
        Goto(r, step) => Moved(r, request[r].step, {step}) /\ SameReading(r)
                           /\ request'[r].token = request[r].token
  BY GotoMoves DEF Steps
<1>4. ASSUME Exchange(r)
      PROVE  /\ Moved(r, "exchange", {"provision", "refused"}) /\ SameReading(r)
             /\ request'[r].step = "provision" =>
                 /\ request'[r].token \in {0, 1}
                 /\ issued' = [issued EXCEPT ![request[r].login] = request'[r].token]
             /\ request'[r].step = "refused" => issued' = issued
  <2>1. CASE Refuse(r) /\ UNCHANGED issued
    BY <1>3, <1>4, <2>1 DEF Exchange, Refuse, At, Moved
  <2>2. ASSUME NEW token \in {NoToken, 1},
               Set(r, [request[r] EXCEPT !.step = "provision", !.token = token]),
               issued' = [issued EXCEPT ![request[r].login] = token]
        PROVE  /\ Moved(r, "exchange", {"provision", "refused"}) /\ SameReading(r)
               /\ request'[r].step = "provision" /\ request'[r].token = token
    BY <1>1, <1>2, <1>4, <2>2 DEF Exchange, At, Moved, SameReading, Request
  <2> QED
    BY <1>4, <2>1, <2>2 DEF Exchange, NoToken
<1>5. ASSUME Provision(r)
      PROVE  /\ Moved(r, "provision", {"create", "refused"}) /\ SameReading(r)
             /\ request'[r].token = request[r].token
  BY <1>3, <1>5 DEF Provision, Refuse, At, Moved
<1>6. ASSUME CreateSession(r)
      PROVE  Moved(r, "create", {"answered", "refused"}) /\ SameReading(r)
  BY <1>3, <1>6 DEF CreateSession, Refuse, At, Moved
<1>7. ASSUME DropSession(r) PROVE Moved(r, "drop", {"refused"}) /\ SameReading(r)
  BY <1>3, <1>7 DEF DropSession, Refuse, At, Moved
<1>8. ASSUME CallProvider(r) PROVE Moved(r, "refresh", {"replace", "refused"}) /\ SameReading(r)
  <2>1. CASE Refuse(r)
    BY <1>3, <1>8, <2>1 DEF CallProvider, Refuse, At, Moved
  <2>2. ASSUME NEW token, Set(r, [request[r] EXCEPT !.step = "replace", !.token = token])
        PROVE  Moved(r, "refresh", {"replace", "refused"}) /\ SameReading(r)
    BY <1>1, <1>2, <1>8, <2>2 DEF CallProvider, At, Moved, SameReading, Request
  <2> QED
    BY <1>8, <2>1, <2>2 DEF CallProvider
<1>9. ASSUME ReplaceSession(r)
      PROVE  /\ Moved(r, "replace", {"resolve", "answered", "refused"}) /\ SameReading(r)
             /\ request'[r].step = "resolve" => request[r].kind = "use"
  BY <1>3, <1>9 DEF ReplaceSession, Refuse, At, Moved
<1>10. ASSUME ResolvePrincipal(r)
       PROVE  /\ Moved(r, "resolve", {"confirm", "refused"})
              /\ request'[r].step = "confirm" => member.enabled /\ request'[r].principal = member.role
              /\ request'[r].step = "refused" => SameReading(r)
              /\ request'[r].granted = request[r].granted
  <2>1. CASE Refuse(r)
    BY <1>3, <1>10, <2>1 DEF ResolvePrincipal, Refuse, At, Moved, SameReading
  <2>2. CASE member.enabled /\ Set(r, [request[r] EXCEPT !.step = "confirm", !.principal = member.role])
    BY <1>1, <1>2, <1>10, <2>2 DEF ResolvePrincipal, At, Moved, Request
  <2> QED
    BY <1>10, <2>1, <2>2 DEF ResolvePrincipal, Resolves
<1>11. ASSUME ConfirmIdentity(r)
       PROVE  /\ Moved(r, "confirm", {"base", "refused"}) /\ SameReading(r)
              /\ request'[r].step = "base" <=>
                   member.enabled /\ request[r].needs.permission \in Permissions(request[r].principal)
  BY <1>3, <1>11 DEF ConfirmIdentity, Resolves, Refuse, At, Moved
<1>12. ASSUME ReadBase(r)
       PROVE  /\ Moved(r, "base", {"membership", "answered", "refused"})
              /\ request'[r].principal = request[r].principal
              /\ request'[r].granted <=> request'[r].step = "answered" \/ request[r].granted
              /\ request'[r].step = "refused" <=> base.deleted
              /\ request'[r].step = "answered" <=>
                   ~base.deleted /\ (IsAdmin(request[r].principal)
                                        \/ (request[r].kind = "use" /\ base.owned))
  <2> DEFINE direct == IsAdmin(request[r].principal) \/ (request[r].kind = "use" /\ base.owned)
  <2>1. CASE base.deleted
    BY <1>3, <1>12, <2>1 DEF ReadBase, Refuse, At, Moved, SameReading
  <2>2. CASE ~base.deleted /\ direct
    BY <1>1, <1>2, <1>12, <2>2 DEF ReadBase, At, Moved, Request
  <2>3. CASE ~base.deleted /\ ~direct
    BY <1>3, <1>12, <2>3 DEF ReadBase, At, Moved, SameReading
  <2> QED
    BY <2>1, <2>2, <2>3
<1>13. ASSUME ReadMembership(r)
       PROVE  /\ Moved(r, "membership", {"grants", "refused"})
              /\ request'[r].principal = request[r].principal
              /\ request'[r].granted = request[r].granted
              /\ request'[r].step = "grants" <=> request[r].kind = "use" /\ member.enabled
              /\ request'[r].step = "grants" =>
                  /\ request'[r].role = member.role /\ request'[r].department = member.department
                  /\ request'[r].enabled
  <2>1. CASE request[r].kind = "use" /\ member.enabled
    <3>1. /\ At(r, "membership")
          /\ Set(r, [request[r] EXCEPT !.step = "grants", !.role = member.role,
                                       !.department = member.department, !.enabled = TRUE])
      BY <1>13, <2>1 DEF ReadMembership, Resolves
    <3>2. request'[r] = [request[r] EXCEPT !.step = "grants", !.role = member.role,
                                           !.department = member.department, !.enabled = TRUE]
      BY <1>1, <3>1
    <3> QED
      BY <1>1, <2>1, <3>1, <3>2 DEF At, Moved, Request
  <2>2. CASE ~(request[r].kind = "use" /\ member.enabled)
    BY <1>3, <1>13, <2>2 DEF ReadMembership, Resolves, Refuse, At, Moved, SameReading
  <2> QED
    BY <2>1, <2>2
<1>14. ASSUME ReadGrants(r)
       PROVE  /\ Moved(r, "grants", {"answered", "refused"})
              /\ request'[r].principal = request[r].principal
              /\ request'[r].granted <=> request'[r].step = "answered" \/ request[r].granted
              /\ request'[r].enabled = request[r].enabled /\ request'[r].role = request[r].role
              /\ request'[r].department = request[r].department
              /\ request'[r].step = "answered" <=>
                   \/ HasGrant(grants, request[r], request[r].needs.write)
                   \/ ~request[r].needs.write /\ base.scope \in {"department", "public"}
  <2> DEFINE right == \/ HasGrant(grants, request[r], request[r].needs.write)
                      \/ ~request[r].needs.write /\ base.scope \in {"department", "public"}
  <2>1. CASE right
    <3>1. request'[r] = [request[r] EXCEPT !.step = "answered", !.granted = TRUE]
      BY <1>1, <1>14, <2>1 DEF ReadGrants
    <3>2. request[r].step = "grants"
      BY <1>14 DEF ReadGrants, At
    <3>3. /\ Moved(r, "grants", {"answered", "refused"})
          /\ request'[r].principal = request[r].principal
          /\ request'[r].granted = TRUE /\ request'[r].step = "answered"
          /\ request'[r].enabled = request[r].enabled /\ request'[r].role = request[r].role
          /\ request'[r].department = request[r].department
      BY <1>2, <3>1, <3>2 DEF Moved, Request
    <3> QED
      BY <2>1, <3>3
  <2>2. CASE ~right
    BY <1>3, <1>14, <2>2 DEF ReadGrants, Refuse, At, Moved, SameReading
  <2> QED
    BY <2>1, <2>2
<1> QED
  BY <1>4, <1>5, <1>6, <1>7, <1>8, <1>9, <1>10, <1>11, <1>12, <1>13, <1>14

LEMMA GetFields ==
    ASSUME SessionTypeOK, NEW r \in Requests, NEW s \in Sessions, Use(r, s) \/ Refresh(r, s)
    PROVE  /\ request[r].step = "idle" /\ origin[s] # None
           /\ UNCHANGED <<identity, store, issued, ghosts>>
           /\ request'[r].kind \in {"use", "refresh"} /\ request'[r].session = s
           /\ request'[r].principal = "none" /\ ~request'[r].granted
           /\ request'[r].step \in {"refused", "resolve", "drop", "refresh"}
           /\ request'[r].step # "refused" => s \in Live /\ request'[r].token = session[s].token
           /\ request'[r].step = "resolve" => request'[r].kind = "use"
           /\ request'[r].step = "refresh" => request'[r].token # 0
           /\ request'[r].kind = "use" => request'[r].needs \in Operations
<1>1. PICK kind \in {"use", "refresh"}, needs \in Needs :
        /\ GetSession(r, s, kind, needs)
        /\ kind = "use" => needs \in Operations
  BY DEF Use, Refresh, Needs
<1>2. PICK step \in {"refused", "resolve", "drop", "refresh"} :
        /\ request'[r] = Reading(r, s, kind, needs, step)
        /\ step # "refused" => s \in Live
        /\ step = "resolve" => kind = "use"
        /\ step = "refresh" => session[s].token # NoToken
  BY <1>1, GetEffect
<1>3. /\ request'[r].kind = kind /\ request'[r].session = s /\ request'[r].needs = needs
      /\ request'[r].step = step /\ request'[r].principal = "none" /\ request'[r].granted = FALSE
      /\ request'[r].token = IF s \in Live THEN session[s].token ELSE NoToken
  BY <1>2 DEF Reading, Idle
<1>4. /\ request[r].step = "idle" /\ origin[s] # None
      /\ UNCHANGED <<identity, store, issued, ghosts>>
  BY <1>1, GetEffect
<1> QED
  BY <1>1, <1>2, <1>3, <1>4 DEF NoToken

LEMMA InitTypes == Init => SessionTypeOK
<1> SUFFICES ASSUME Init PROVE SessionTypeOK
  OBVIOUS
<1>1. member \in Member /\ account \in [role : Roles, active : BOOLEAN]
  BY DEF Init, IdentityInit
<1>2. base \in [owned : BOOLEAN, scope : {"private", "department", "public"}, deleted : BOOLEAN]
  BY DEF Init, IdentityInit
<1>3. request \in [Requests -> Request] /\ \A r \in Requests : request[r].step = "idle"
  BY IdleTypes DEF Init
<1> QED
  BY <1>1, <1>2, <1>3 DEF Init, SessionTypeOK, NoToken, Live

(* The store of sessions, and the tokens of the provider. *)
StoreTypeOK ==
    /\ transaction \in [Logins -> {"unused", "stored", "gone"}]
    /\ origin \in [Sessions -> Logins \cup {None}]
    /\ issued \in [Logins -> Nat]
    /\ Live \subseteq Sessions
    /\ \A s \in Live : session[s] \in [token : Nat, valid : BOOLEAN]
    /\ \A r \in Requests : request[r].step \in {"drop", "refresh", "replace"} =>
        request[r].session \in Sessions

LEMMA StoreStep ==
    ASSUME SessionTypeOK, NEW r \in Requests, Acts(r)
    PROVE  StoreTypeOK'
<1>1. \A p \in Requests \ {r} : request'[p] = request[p]
  BY ActTypes
<1>2. StoreTypeOK /\ request[r] \in Request
  BY DEF SessionTypeOK, StoreTypeOK
<1> USE DEF store
<1>3. ASSUME NEW l \in Logins, Callback(r, l) PROVE StoreTypeOK'
  <2>1. request'[r].step \in {"exchange", "refused"}
    BY <1>3, CallEffects
  <2> QED
    BY <1>1, <1>2, <1>3, <2>1 DEF Callback, Consumed, StoreTypeOK, Live
<1>4. ASSUME NEW s \in Sessions, Use(r, s) \/ Refresh(r, s) PROVE StoreTypeOK'
  BY <1>1, <1>2, <1>4, GetFields DEF StoreTypeOK, Live
<1>5. ASSUME NEW s \in Sessions, Logout(r, s) PROVE StoreTypeOK'
  <2>1. request'[r].step = "answered"
    BY <1>5, CallEffects
  <2> QED
    BY <1>1, <1>2, <1>5, <2>1 DEF Logout, AfterLogout, Without, StoreTypeOK, Live
<1>6. CASE UseKey(r) \/ Answer(r)
  <2>1. request'[r].step \in {"base", "refused", "idle"}
    BY <1>6, CallEffects DEF Idle
  <2> QED
    BY <1>1, <1>2, <1>6, <2>1 DEF UseKey, Answer, StoreTypeOK, Live
<1>7. CASE Exchange(r)
  <2>1. request'[r].step \in {"provision", "refused"} /\ issued' \in [Logins -> Nat]
    BY <1>2, <1>7, StepEffects DEF Moved, StoreTypeOK
  <2> QED
    BY <1>1, <1>2, <1>7, <2>1 DEF Exchange, StoreTypeOK, Live
<1>8. CASE CreateSession(r)
  <2>1. request'[r].step \in {"answered", "refused"}
    BY <1>8, StepEffects DEF Moved
  <2>2. request[r].token \in Nat /\ request[r].login \in Logins \cup {None}
    BY <1>2 DEF Request
  <2>3. CASE UNCHANGED <<session, origin>>
    BY <1>1, <1>2, <1>8, <2>1, <2>3 DEF CreateSession, StoreTypeOK, Live
  <2>4. ASSUME NEW s \in Sessions,
               origin' = [origin EXCEPT ![s] = request[r].login],
               session' = With(session, s, [token |-> request[r].token, valid |-> TRUE])
        PROVE  StoreTypeOK'
    <3>1. \A t \in DOMAIN session' : t \in Sessions /\ session'[t] \in [token : Nat, valid : BOOLEAN]
      BY <1>2, <2>2, <2>4 DEF With, StoreTypeOK, Live
    <3>2. origin' \in [Sessions -> Logins \cup {None}]
      BY <1>2, <2>2, <2>4 DEF StoreTypeOK
    <3> QED
      BY <1>1, <1>2, <1>8, <2>1, <3>1, <3>2 DEF CreateSession, StoreTypeOK, Live
  <2> QED
    BY <1>8, <2>3, <2>4 DEF CreateSession
<1>9. CASE DropSession(r)
  <2>1. request'[r].step = "refused"
    BY <1>9, StepEffects DEF Moved
  <2> QED
    BY <1>1, <1>2, <1>9, <2>1 DEF DropSession, Without, StoreTypeOK, Live
<1>10. CASE CallProvider(r)
  <2>1. /\ request'[r].step \in {"replace", "refused"} /\ request[r].step = "refresh"
        /\ request'[r].session = request[r].session
    BY <1>10, StepEffects DEF Moved
  <2>2. issued' \in [Logins -> Nat]
    BY <1>2, <1>10 DEF CallProvider, NoToken, StoreTypeOK
  <2> QED
    BY <1>1, <1>2, <1>10, <2>1, <2>2 DEF CallProvider, StoreTypeOK, Live
<1>11. CASE ReplaceSession(r)
  <2>1. request'[r].step \in {"resolve", "answered", "refused"} /\ request[r].step = "replace"
    BY <1>11, StepEffects DEF Moved
  <2>2. request[r].token \in Nat /\ request[r].session \in Sessions
    BY <1>2, <2>1 DEF Request, StoreTypeOK
  <2>3. \A t \in DOMAIN session' : t \in Sessions /\ session'[t] \in [token : Nat, valid : BOOLEAN]
    <3>1. CASE session' = With(session, request[r].session, [token |-> request[r].token, valid |-> TRUE])
      BY <1>2, <2>2, <3>1 DEF With, StoreTypeOK, Live
    <3>2. CASE UNCHANGED session
      BY <1>2, <3>2 DEF StoreTypeOK, Live
    <3> QED
      BY <1>11, <3>1, <3>2 DEF ReplaceSession
  <2> QED
    BY <1>1, <1>2, <1>11, <2>1, <2>3 DEF ReplaceSession, StoreTypeOK, Live
<1>12. CASE \/ Provision(r) \/ ResolvePrincipal(r) \/ ConfirmIdentity(r)
            \/ ReadBase(r) \/ ReadMembership(r) \/ ReadGrants(r)
  <2>1. request'[r].step \notin {"drop", "refresh", "replace"}
    BY <1>12, StepEffects DEF Moved
  <2>2. UNCHANGED <<store, issued>>
    BY <1>12 DEF Provision, ResolvePrincipal, ConfirmIdentity, ReadBase, ReadMembership, ReadGrants
  <2> QED
    BY <1>1, <1>2, <2>1, <2>2 DEF StoreTypeOK, Live
<1> QED
  BY <1>3, <1>4, <1>5, <1>6, <1>7, <1>8, <1>9, <1>10, <1>11, <1>12 DEF Acts, Step

LEMMA AdminTypes ==
    ASSUME SessionTypeOK, AdminNext
    PROVE  /\ member' \in Member
           /\ account' \in [role : Roles, active : BOOLEAN]
           /\ base' \in [owned : BOOLEAN, scope : {"private", "department", "public"}, deleted : BOOLEAN]
<1>1. CASE UpdateMembership
  <2>1. PICK p \in Patches : member' = [f \in DOMAIN p |-> Patched(member[f], p[f])]
    BY <1>1 DEF UpdateMembership
  <2>2. p \in [role : Roles \cup {None}, enabled : BOOLEAN \cup {None}, department : Departments \cup {None}]
    BY DEF Patches
  <2> QED
    BY <1>1, <2>1, <2>2 DEF UpdateMembership, Patched, SessionTypeOK, Member
<1>2. CASE ~UpdateMembership
  BY <1>2 DEF AdminNext, CreateGrant, RevokeGrant, RevokeServiceAccount, SoftDelete, SessionTypeOK
<1> QED
  BY <1>1, <1>2

LEMMA WatchTypes ==
    ASSUME SessionTypeOK, NEW adminActs, Watch(adminActs)
    PROVE  held' \in [Requests -> SUBSET Everything]
BY DEF Watch, Facts, SessionTypeOK

LEMMA TypeStep == SessionTypeOK /\ [Next]_vars => SessionTypeOK'
<1> SUFFICES ASSUME SessionTypeOK, [Next]_vars PROVE SessionTypeOK'
  OBVIOUS
<1>1. StoreTypeOK
  BY DEF SessionTypeOK, StoreTypeOK
<1>2. ASSUME StoreTypeOK', UNCHANGED identity, request' \in [Requests -> Request], Watch(FALSE)
      PROVE  SessionTypeOK'
  BY <1>2, WatchTypes DEF SessionTypeOK, StoreTypeOK, identity, Live
<1>3. CASE UNCHANGED vars
  BY <1>3 DEF vars, identity, store, watch, SessionTypeOK, Live
<1>4. CASE Around /\ Watch(FALSE)
  <2>1. ASSUME NEW l \in Logins, BeginLogin(l) PROVE StoreTypeOK' /\ UNCHANGED <<identity, request>>
    BY <1>1, <2>1 DEF BeginLogin, StoreTypeOK, Live
  <2>2. ASSUME NEW s \in Sessions, ExpireToken(s) PROVE StoreTypeOK' /\ UNCHANGED <<identity, request>>
    BY <1>1, <2>2 DEF ExpireToken, StoreTypeOK, Live
  <2> QED
    BY <1>2, <1>4, <2>1, <2>2 DEF Around, SessionTypeOK
<1>5. ASSUME NEW r \in Requests, Acts(r), Watch(FALSE) PROVE SessionTypeOK'
  <2>1. UNCHANGED identity
    BY <1>5 DEF Acts, Step, Callback, Use, Refresh, GetSession, Logout, UseKey, Exchange, Provision,
      CreateSession, DropSession, CallProvider, ReplaceSession, ResolvePrincipal, ConfirmIdentity,
      ReadBase, ReadMembership, ReadGrants, Answer
  <2> QED
    BY <1>2, <1>5, <2>1, StoreStep, ActTypes
<1>6. CASE AdminNext /\ UNCHANGED <<store, issued, request, calls, ghosts>> /\ Watch(TRUE)
  BY <1>6, AdminTypes, WatchTypes DEF SessionTypeOK, store, Live
<1> QED
  BY <1>3, <1>4, <1>5, <1>6, StepKinds

LEMMA TypesHold == Spec => []SessionTypeOK
BY InitTypes, TypeStep, PTL DEF Spec

(***************************************************************************)
(* One session per login: a transaction is consumed by one request, which  *)
(* creates one session of it.                                              *)
(***************************************************************************)

LEMMA LoginStep ==
    ASSUME SessionTypeOK, LoginInv, NEW r \in Requests, Acts(r)
    PROVE  LoginInv'
<1> USE DEF store
<1>1. \A p \in Requests \ {r} :
        /\ request'[p] = request[p]
        /\ LoggingIn(p)' <=> LoggingIn(p)
  BY ActTypes DEF LoggingIn
<1>2. /\ transaction \in [Logins -> {"unused", "stored", "gone"}]
      /\ origin \in [Sessions -> Logins \cup {None}]
  BY DEF SessionTypeOK
<1>3. ASSUME ~LoggingIn(r)', UNCHANGED <<transaction, origin>> PROVE LoginInv'
  BY <1>1, <1>2, <1>3 DEF LoginInv, OneSessionPerLogin
<1>4. ASSUME UNCHANGED <<transaction, origin>>, LoggingIn(r), request'[r].login = request[r].login
      PROVE  LoginInv'
  BY <1>1, <1>2, <1>4 DEF LoginInv, OneSessionPerLogin
<1>5. ASSUME NEW l \in Logins, Callback(r, l) PROVE LoginInv'
  <2>1. /\ transaction' = [transaction EXCEPT ![l] = "gone"] /\ UNCHANGED origin
        /\ transaction[l] \in {"stored", "gone"}
    BY <1>5 DEF Callback, Consumed
  <2>2. \A k \in Logins : transaction[k] = "gone" => transaction'[k] = "gone"
    BY <1>2, <2>1
  <2>3. transaction'[l] = "gone"
    BY <1>2, <2>1
  <2>4. CASE request'[r].step = "refused"
    <3>1. ~LoggingIn(r)'
      BY <2>4 DEF LoggingIn
    <3> QED
      BY <1>1, <1>2, <2>1, <2>2, <3>1 DEF LoginInv, OneSessionPerLogin
  <2>5. CASE transaction[l] = "stored" /\ request'[r].step = "exchange"
    <3>1. request'[r].login = l
      BY <1>5, CallEffects
    <3>2. \A s \in Sessions : origin[s] # l
      BY <1>2, <2>5, SessionAssumption DEF LoginInv
    <3>3. \A p \in Requests : LoggingIn(p) => request[p].login # l
      BY <1>2, <2>5 DEF LoginInv
    <3> QED
      BY <1>1, <1>2, <2>1, <2>2, <2>3, <3>1, <3>2, <3>3 DEF LoginInv, OneSessionPerLogin
  <2> QED
    BY <1>5, <2>4, <2>5, CallEffects
<1>6. ASSUME NEW s \in Sessions, Use(r, s) \/ Refresh(r, s) PROVE LoginInv'
  BY <1>3, <1>6, GetFields DEF LoggingIn
<1>7. ASSUME NEW s \in Sessions, Logout(r, s) PROVE LoginInv'
  BY <1>3, <1>7, CallEffects DEF LoggingIn, Logout
<1>8. CASE UseKey(r) \/ Answer(r)
  <2>1. request'[r].step \in {"base", "refused", "idle"}
    BY <1>8, CallEffects DEF Idle
  <2>2. UNCHANGED store
    BY <1>8 DEF UseKey, Answer
  <2> QED
    BY <1>3, <2>1, <2>2 DEF LoggingIn
<1>9. CASE Exchange(r) \/ Provision(r)
  BY <1>4, <1>9, StepEffects DEF Exchange, Provision, Moved, LoggingIn
<1>10. CASE CreateSession(r)
  <2>1. /\ ~LoggingIn(r)' /\ LoggingIn(r) /\ UNCHANGED transaction
    BY <1>10, StepEffects DEF Moved, LoggingIn, CreateSession
  <2>2. CASE UNCHANGED origin
    BY <1>3, <2>1, <2>2
  <2>3. ASSUME NEW s \in Sessions, origin[s] = None, origin' = [origin EXCEPT ![s] = request[r].login]
        PROVE  LoginInv'
    <3>1. /\ \A t \in Sessions \ {s} : origin'[t] = origin[t]
          /\ origin'[s] = request[r].login
      BY <1>2, <2>3
    <3> QED
      BY <1>1, <1>2, <2>1, <3>1 DEF LoginInv, OneSessionPerLogin
  <2> QED
    BY <1>10, <2>2, <2>3 DEF CreateSession
<1>11. CASE DropSession(r) \/ CallProvider(r) \/ ReplaceSession(r)
  BY <1>3, <1>11, StepEffects DEF DropSession, CallProvider, ReplaceSession, Moved, LoggingIn
<1>12. CASE \/ ResolvePrincipal(r) \/ ConfirmIdentity(r)
            \/ ReadBase(r) \/ ReadMembership(r) \/ ReadGrants(r)
  <2>1. ~LoggingIn(r)'
    BY <1>12, StepEffects DEF Moved, LoggingIn
  <2>2. UNCHANGED store
    BY <1>12 DEF ResolvePrincipal, ConfirmIdentity, ReadBase, ReadMembership, ReadGrants
  <2> QED
    BY <1>3, <2>1, <2>2
<1> QED
  BY <1>5, <1>6, <1>7, <1>8, <1>9, <1>10, <1>11, <1>12 DEF Acts, Step

LEMMA LoginHolds == Spec => []LoginInv
<1>1. Init => LoginInv
  BY IdleTypes DEF Init, LoginInv, LoggingIn, OneSessionPerLogin
<1>2. SessionTypeOK /\ LoginInv /\ [Next]_vars => LoginInv'
  <2> SUFFICES ASSUME SessionTypeOK, LoginInv, [Next]_vars PROVE LoginInv'
    OBVIOUS
  <2>1. ASSUME UNCHANGED <<transaction, origin, request>> PROVE LoginInv'
    BY <2>1 DEF LoginInv, LoggingIn, OneSessionPerLogin
  <2>2. ASSUME NEW l \in Logins, BeginLogin(l) PROVE LoginInv'
    BY <2>2 DEF BeginLogin, LoginInv, LoggingIn, OneSessionPerLogin, SessionTypeOK
  <2>3. ASSUME NEW s \in Sessions, ExpireToken(s) PROVE LoginInv'
    BY <2>1, <2>3 DEF ExpireToken
  <2> QED
    BY <2>1, <2>2, <2>3, StepKinds, LoginStep DEF vars, store, Around
<1> QED
  BY <1>1, <1>2, TypesHold, PTL DEF Spec

(* "Encrypted one-time OIDC transactions" (app/core/oidc_session.py): for *)
(* any number of callbacks at the same time, a login gives one session.    *)
THEOREM LoginsGiveOneSession == Spec => []OneSessionPerLogin
<1>1. LoginInv => OneSessionPerLogin
  BY DEF LoginInv
<1> QED
  BY <1>1, LoginHolds, PTL

(***************************************************************************)
(* Refreshes: the newest refresh token of a session is in the session or   *)
(* on its way there.                                                       *)
(***************************************************************************)

Steady(r) == request'[r].step \notin {"drop", "refresh", "replace", "provision", "create"}

(* The store loses sessions at most, and keeps the tokens of the others. *)
Keeps ==
    /\ UNCHANGED <<origin, issued>> /\ Live' \subseteq Live /\ lost \subseteq lost'
    /\ \A s \in Live' : session'[s].token = session[s].token

LEMMA TokensKept ==
    ASSUME NEW s \in Sessions, TokensInv(s), UNCHANGED <<issued, origin>>,
           s \in Live' => s \in Live /\ session'[s].token = session[s].token,
           lost \subseteq lost',
           \A r \in Requests : request[r].step = "replace" /\ request[r].session = s =>
             request'[r] = request[r],
           \A r \in Requests :
             request'[r].step \in {"refresh", "replace"} /\ request'[r].session = s =>
             request'[r] = request[r]
    PROVE  TokensInv(s)'
BY DEF TokensInv, RequestsAt

LEMMA SteadyKeeps ==
    ASSUME SessionTypeOK, RefreshInv, NEW r \in Requests, Steady(r), request[r].step # "replace", Keeps,
           \A p \in Requests \ {r} : request'[p] = request[p]
    PROVE  RefreshInv'
<1>1. ASSUME NEW s \in Sessions, TokensInv(s) PROVE TokensInv(s)'
  BY <1>1, TokensKept DEF Keeps, Steady
<1> QED
  BY <1>1 DEF RefreshInv, Keeps, Steady, SessionTypeOK

LEMMA TokensElsewhere ==
    ASSUME SessionTypeOK, NEW r \in Requests, NEW s \in Sessions, NEW t \in Sessions \ {s},
           TokensInv(t), \A p \in Requests \ {r} : request'[p] = request[p],
           request[r].step \in {"refresh", "replace"} => request[r].session = s,
           request'[r].step \in {"refresh", "replace"} => request'[r].session = s,
           t \in Live' => t \in Live /\ session'[t] = session[t],
           origin'[t] = origin[t], issued'[origin[t]] = issued[origin[t]], lost \subseteq lost'
    PROVE  TokensInv(t)'
BY DEF TokensInv, RequestsAt

LEMMA RefreshStep ==
    ASSUME SessionTypeOK, SessionTypeOK', LoginInv, RefreshInv, NEW r \in Requests, Acts(r)
    PROVE  RefreshInv'
<1>1. \A p \in Requests \ {r} : request'[p] = request[p]
  BY ActTypes
<1>2. ASSUME Steady(r), request[r].step # "replace", Keeps PROVE RefreshInv'
  BY <1>1, <1>2, SteadyKeeps
<1>3. ASSUME UNCHANGED <<store, issued, ghosts>> PROVE Keeps
  BY <1>3 DEF Keeps, store, ghosts, Live
<1>4. ASSUME NEW l \in Logins, Callback(r, l) PROVE RefreshInv'
  <2>1. Steady(r) /\ request[r].step # "replace"
    BY <1>4, CallEffects DEF Steady
  <2> QED
    BY <1>2, <1>4, <2>1 DEF Callback, Keeps, ghosts, Live
<1>5. ASSUME NEW s \in Sessions, Use(r, s) \/ Refresh(r, s) PROVE RefreshInv'
  <2>1. /\ request[r].step = "idle" /\ origin[s] # None /\ request'[r].session = s /\ Keeps
        /\ UNCHANGED <<store, issued, ghosts>>
    BY <1>3, <1>5, GetFields
  <2>2. CASE Steady(r)
    BY <1>2, <2>1, <2>2
  <2>3. CASE request'[r].step = "drop"
    <3>1. ASSUME NEW t \in Sessions, TokensInv(t) PROVE TokensInv(t)'
      BY <1>1, <2>1, <2>3, <3>1, TokensKept DEF Keeps
    <3> QED
      BY <1>1, <2>1, <2>3, <3>1 DEF RefreshInv, store, Live
  <2>4. CASE request'[r].step = "refresh"
    <3>1. s \in Live /\ request'[r].token = session[s].token /\ request'[r].token # 0
      BY <1>5, <2>4, GetFields
    <3>2. session[s].token \in Nat /\ issued[origin[s]] \in Nat
      BY <2>1, <3>1 DEF SessionTypeOK
    <3>3. TokensInv(s)
      BY <2>1 DEF RefreshInv
    <3>4. request'[r].token \in 1 .. issued[origin[s]]
      BY <3>1, <3>2, <3>3 DEF TokensInv
    <3>5. TokensInv(s)'
      BY <1>1, <2>1, <2>4, <3>1, <3>3, <3>4 DEF TokensInv, RequestsAt, store, ghosts, Live
    <3>6. ASSUME NEW t \in Sessions, t # s, TokensInv(t) PROVE TokensInv(t)'
      BY <1>1, <2>1, <2>4, <3>6, TokensKept DEF Keeps
    <3> QED
      BY <1>1, <2>1, <2>4, <3>5, <3>6 DEF RefreshInv, store, Live
  <2> QED
    BY <1>5, <2>2, <2>3, <2>4, GetFields DEF Steady
<1>6. ASSUME NEW s \in Sessions, Logout(r, s) PROVE RefreshInv'
  <2>1. Steady(r) /\ request[r].step # "replace"
    BY <1>6, CallEffects DEF Steady
  <2> QED
    BY <1>2, <1>6, <2>1 DEF Logout, AfterLogout, Without, Keeps, Live
<1>7. CASE UseKey(r) \/ Answer(r)
  <2>1. Steady(r) /\ request[r].step # "replace"
    BY <1>7, CallEffects DEF Steady, Idle
  <2>2. UNCHANGED <<store, issued, ghosts>>
    BY <1>7 DEF UseKey, Answer
  <2> QED
    BY <1>2, <1>3, <2>1, <2>2
<1>8. CASE Exchange(r)
  <2>1. /\ request[r].step = "exchange" /\ request'[r].step \in {"provision", "refused"}
        /\ request'[r].login = request[r].login /\ UNCHANGED <<store, ghosts>>
    BY <1>8, StepEffects DEF Exchange, Moved
  <2>2. CASE request'[r].step = "refused"
    <3>1. Steady(r) /\ UNCHANGED issued
      BY <1>8, <2>2, StepEffects DEF Steady
    <3> QED
      BY <1>2, <1>3, <2>1, <3>1
  <2>3. CASE request'[r].step = "provision"
    <3> DEFINE l == request[r].login
    <3>1. /\ l \in Logins /\ \A s \in Sessions : origin[s] # l
          /\ \A p \in Requests \ {r} : LoggingIn(p) => request[p].login # l /\ request[p].login \in Logins
      BY <2>1 DEF LoginInv, LoggingIn
    <3>2. issued' = [issued EXCEPT ![l] = request'[r].token]
      BY <1>8, <2>3, StepEffects
    <3>3. issued'[l] = request'[r].token /\ \A k \in Logins \ {l} : issued'[k] = issued[k]
      BY <3>1, <3>2 DEF SessionTypeOK
    <3>4. ASSUME NEW s \in Sessions, origin[s] # None, TokensInv(s) PROVE TokensInv(s)'
      <4>1. origin[s] \in Logins \ {l}
        BY <3>1, <3>4 DEF SessionTypeOK
      <4> QED
        BY <1>1, <2>1, <2>3, <3>3, <3>4, <4>1 DEF TokensInv, RequestsAt, store, ghosts, Live
    <3>5. \A p \in Requests :
            /\ request'[p].step \in {"drop", "refresh", "replace"} => request'[p] = request[p]
            /\ request'[p].step \in {"provision", "create"} =>
                request'[p].token = issued'[request'[p].login]
      BY <1>1, <2>1, <2>3, <3>1, <3>3 DEF RefreshInv, LoggingIn
    <3> QED
      BY <2>1, <3>4, <3>5 DEF RefreshInv, store, Live
  <2> QED
    BY <2>1, <2>2, <2>3
<1>9. CASE Provision(r)
  <2>1. /\ request[r].step = "provision" /\ request'[r].step \in {"create", "refused"}
        /\ request'[r].login = request[r].login /\ request'[r].token = request[r].token
        /\ UNCHANGED <<store, issued, ghosts>>
    BY <1>9, StepEffects DEF Provision, Moved
  <2>2. ASSUME NEW s \in Sessions, TokensInv(s) PROVE TokensInv(s)'
    BY <1>1, <1>3, <2>1, <2>2, TokensKept DEF Keeps
  <2> QED
    BY <1>1, <2>1, <2>2 DEF RefreshInv, store, Live
<1>10. CASE CreateSession(r)
  <2>1. /\ request[r].step = "create" /\ Steady(r) /\ UNCHANGED <<issued, ghosts>>
    BY <1>10, StepEffects DEF CreateSession, Moved, Steady
  <2>2. CASE UNCHANGED <<session, origin>>
    BY <1>2, <2>1, <2>2 DEF Keeps, ghosts, Live
  <2>3. ASSUME NEW s \in Sessions, origin[s] = None, origin' = [origin EXCEPT ![s] = request[r].login],
               session' = With(session, s, [token |-> request[r].token, valid |-> TRUE])
        PROVE  RefreshInv'
    <3>1. /\ origin'[s] = request[r].login /\ \A t \in Sessions \ {s} : origin'[t] = origin[t]
          /\ s \in Live' /\ session'[s].token = request[r].token
          /\ \A t \in Sessions \ {s} : (t \in Live' <=> t \in Live) /\ (t \in Live => session'[t] = session[t])
      BY <2>3 DEF With, Live, SessionTypeOK
    <3>2. request[r].login \in Logins /\ request[r].token = issued[request[r].login]
      BY <2>1 DEF RefreshInv, LoginInv, LoggingIn
    <3>3. issued[request[r].login] \in Nat /\ request[r].login # None
      BY <3>2, SessionAssumption DEF SessionTypeOK
    <3>4. \A p \in Requests : request'[p].step \in {"drop", "refresh", "replace"} =>
            /\ p # r /\ request'[p] = request[p]
            /\ request[p].session \in Sessions \ {s} /\ origin[request[p].session] # None
      BY <1>1, <2>1, <2>3 DEF RefreshInv, Steady, SessionTypeOK
    <3>5. TokensInv(s)'
      BY <2>1, <3>1, <3>2, <3>3, <3>4 DEF TokensInv, RequestsAt
    <3>6. ASSUME NEW t \in Sessions, t # s, TokensInv(t) PROVE TokensInv(t)'
      BY <1>1, <2>1, <3>1, <3>6 DEF TokensInv, RequestsAt, Steady, ghosts
    <3>7. \A t \in Live' : origin'[t] # None
      BY <3>1, <3>2, <3>3 DEF RefreshInv, SessionTypeOK
    <3>8. \A p \in Requests : request'[p].step \in {"drop", "refresh", "replace"} =>
            origin'[request'[p].session] # None
      BY <3>1, <3>4
    <3>9. \A p \in Requests : request'[p].step \in {"provision", "create"} =>
            request'[p].token = issued'[request'[p].login]
      BY <1>1, <2>1 DEF RefreshInv, Steady
    <3> QED
      BY <3>1, <3>5, <3>6, <3>7, <3>8, <3>9 DEF RefreshInv
  <2> QED
    BY <1>10, <2>2, <2>3 DEF CreateSession
<1>11. CASE DropSession(r)
  <2>1. Steady(r) /\ request[r].step # "replace"
    BY <1>11, StepEffects DEF Steady, Moved
  <2> QED
    BY <1>2, <1>11, <2>1 DEF DropSession, Without, Keeps, ghosts, Live
<1>12. CASE CallProvider(r)
  <2>a. request[r].step = "refresh"
    BY <1>12 DEF CallProvider, At
  <2>b. PICK s \in Sessions : s = request[r].session
    BY <2>a DEF SessionTypeOK
  <2>c. PICK l \in Logins : l = origin[s]
    BY <2>a, <2>b DEF RefreshInv, SessionTypeOK
  <2>1. /\ request[r].step = "refresh" /\ request'[r].step \in {"replace", "refused"}
        /\ request'[r].session = s /\ UNCHANGED <<store, ghosts>>
    BY <1>12, <2>b, StepEffects DEF CallProvider, Moved
  <2>2. l # None /\ TokensInv(s) /\ issued[l] \in Nat
    BY <2>a, <2>b, <2>c DEF RefreshInv, SessionTypeOK
  <2>3. CASE Refuse(r) /\ UNCHANGED issued
    <3>1. Steady(r)
      BY <2>3, GotoMoves DEF Refuse, Steps, Moved, Steady
    <3> QED
      BY <1>2, <1>3, <2>1, <2>3, <3>1
  <2>4. CASE ~(Refuse(r) /\ UNCHANGED issued)
    <3>1. /\ request[r].token = issued[l]
          /\ request'[r].step = "replace" /\ request'[r].token = issued'[l]
          /\ IF l \in Rotating THEN issued' = [issued EXCEPT ![l] = issued[l] + 1]
             ELSE issued' = issued
      <4> DEFINE new == IF l \in Rotating THEN issued[l] + 1 ELSE 0
      <4>1. /\ request[r].token = issued[l]
            /\ Set(r, [request[r] EXCEPT !.step = "replace", !.token = RefreshToken(request[r].token, new)])
            /\ issued' = [issued EXCEPT ![l] = IF new = 0 THEN @ ELSE new]
        BY <1>12, <2>b, <2>c, <2>4 DEF CallProvider, NoToken
      <4>2. request'[r].step = "replace" /\ request'[r].token = RefreshToken(request[r].token, new)
        BY <4>1 DEF Set, SessionTypeOK, Request
      <4>3. CASE l \in Rotating
        <5>1. new = issued[l] + 1 /\ new # 0
          BY <2>2, <4>3
        <5>2. issued' = [issued EXCEPT ![l] = issued[l] + 1]
          BY <4>1, <5>1
        <5>3. issued'[l] = issued[l] + 1
          BY <5>2 DEF SessionTypeOK
        <5> HIDE DEF new
        <5> QED
          BY <4>1, <4>2, <4>3, <5>1, <5>2, <5>3 DEF RefreshToken, NoToken
      <4>4. CASE l \notin Rotating
        <5>1. issued' = issued
          BY <2>c, <2>2, <4>1, <4>4 DEF SessionTypeOK
        <5> QED
          BY <2>c, <2>2, <4>1, <4>2, <4>4, <5>1 DEF RefreshToken, NoToken, SessionTypeOK
      <4> QED
        BY <4>3, <4>4
    <3>2. /\ issued'[l] >= issued[l] /\ issued'[l] \in Nat
          /\ l \in Rotating => issued'[l] = issued[l] + 1
          /\ l \notin Rotating => issued'[l] = issued[l]
          /\ \A k \in Logins \ {l} : issued'[k] = issued[k]
      BY <2>2, <3>1 DEF SessionTypeOK
    <3>3. ASSUME l \in Rotating, NEW p \in RequestsAt(s, "replace") PROVE FALSE
      <4>1. r \in RequestsAt(s, "refresh")
        BY <2>b, <2>1 DEF RequestsAt
      <4> QED
        BY <2>c, <2>2, <3>1, <3>3, <4>1 DEF TokensInv
    <3>4. TokensInv(s)'
      <4>1. s \in Live => session[s].token \in Nat /\ session[s].token <= issued[l]
        BY <2>c, <2>2 DEF TokensInv, SessionTypeOK
      <4>2. \A p \in RequestsAt(s, "refresh")' :
              p # r /\ request'[p].token = request[p].token /\ request[p].token \in 1 .. issued[l]
        BY <1>1, <2>c, <2>2, <3>1 DEF TokensInv, RequestsAt
      <4>3. \A p \in RequestsAt(s, "replace")' : p = r \/ p \in RequestsAt(s, "replace")
        BY <1>1 DEF RequestsAt
      <4>4. r \in RequestsAt(s, "replace")'
        BY <2>1, <3>1 DEF RequestsAt
      <4>5. \A p \in RequestsAt(s, "replace")' : request'[p].token = issued'[l]
        BY <1>1, <2>c, <2>2, <3>1, <3>2, <3>3, <4>3 DEF TokensInv, RequestsAt
      <4>6. l \in Rotating => \A p \in RequestsAt(s, "replace")' : p = r
        BY <3>3, <4>3
      <4>7. l \in Rotating => \A p \in RequestsAt(s, "refresh")' : request'[p].token < issued'[l]
        BY <2>2, <3>2, <4>2
      <4>8. l \in Rotating => (s \in Live => session[s].token < issued'[l])
        BY <2>2, <3>2, <4>1
      <4>9. \A p \in RequestsAt(s, "refresh")' : request'[p].token \in 1 .. issued'[l]
        BY <2>2, <3>2, <4>2
      <4>10. s \in Live => session[s].token <= issued'[l]
        BY <2>2, <3>2, <4>1
      <4>11. UNCHANGED <<session, origin, lost>>
        BY <2>1 DEF store, ghosts
      <4> QED
        BY <2>c, <4>4, <4>5, <4>6, <4>7, <4>8, <4>9, <4>10, <4>11 DEF TokensInv, Live
    <3>5. ASSUME NEW t \in Sessions, t # s, origin[t] # None, TokensInv(t) PROVE TokensInv(t)'
      <4>1. origin[t] \in Logins \ {l}
        BY <2>c, <2>2, <3>5 DEF LoginInv, OneSessionPerLogin, SessionTypeOK
      <4> QED
        BY <1>1, <2>b, <2>1, <3>1, <3>2, <3>5, <4>1, TokensElsewhere DEF store, ghosts, Live
    <3>6. \A p \in Requests :
            /\ request'[p].step \in {"provision", "create"} =>
                /\ request'[p] = request[p] /\ request[p].login \in Logins \ {l}
            /\ request'[p].step \in {"drop", "refresh", "replace"} =>
                origin'[request'[p].session] # None
      BY <1>1, <2>c, <2>1, <2>2, <3>1 DEF RefreshInv, LoginInv, LoggingIn, store
    <3>7. \A p \in Requests : request'[p].step \in {"provision", "create"} =>
            request'[p].token = issued'[request'[p].login]
      BY <3>2, <3>6 DEF RefreshInv
    <3> QED
      BY <2>1, <3>4, <3>5, <3>6, <3>7 DEF RefreshInv, store, Live
  <2> QED
    BY <2>3, <2>4
<1>13. CASE ReplaceSession(r)
  <2>a. request[r].step = "replace"
    BY <1>13 DEF ReplaceSession, At
  <2>b. PICK s \in Sessions : s = request[r].session
    BY <2>a DEF SessionTypeOK
  <2>c. PICK l \in Logins : l = origin[s]
    BY <2>a, <2>b DEF RefreshInv, SessionTypeOK
  <2>1. /\ request[r].step = "replace" /\ Steady(r) /\ UNCHANGED <<issued, origin>>
        /\ lost \subseteq lost'
    BY <1>13, StepEffects DEF ReplaceSession, Moved, Steady
  <2>2. l # None /\ TokensInv(s) /\ issued[l] \in Nat
    BY <2>a, <2>b, <2>c DEF RefreshInv, SessionTypeOK
  <2>3. /\ r \in RequestsAt(s, "replace") /\ request[r].token = issued[l]
    BY <2>b, <2>c, <2>1, <2>2 DEF TokensInv, RequestsAt
  <2>4. /\ \A p \in RequestsAt(s, "replace")' : p # r /\ p \in RequestsAt(s, "replace")
                                                  /\ request'[p] = request[p]
        /\ \A p \in RequestsAt(s, "refresh")' : p # r /\ p \in RequestsAt(s, "refresh")
                                                  /\ request'[p] = request[p]
    BY <1>1, <2>1 DEF RequestsAt, Steady
  <2>5. TokensInv(s)' /\ Live' \subseteq Live \cup {s}
        /\ \A t \in Sessions \ {s} : t \in Live => session'[t] = session[t]
    <3> USE <2>c
    <3>1. CASE session' = With(session, s, [token |-> request[r].token, valid |-> TRUE])
      <4>1. s \in Live' /\ session'[s].token = issued[l]
        BY <2>3, <3>1 DEF With, Live
      <4>2. TokensInv(s)'
        BY <2>1, <2>2, <2>3, <2>4, <4>1 DEF TokensInv
      <4> QED
        BY <3>1, <4>2 DEF With, Live
    <3>2. CASE UNCHANGED session /\ lost' = lost \cup {s}
      BY <2>1, <2>2, <2>3, <2>4, <3>2 DEF TokensInv, Live
    <3> QED
      BY <1>13, <2>b, <3>1, <3>2 DEF ReplaceSession
  <2>6. ASSUME NEW t \in Sessions, t # s, TokensInv(t) PROVE TokensInv(t)'
    BY <1>1, <2>b, <2>1, <2>5, <2>6, TokensElsewhere DEF Steady
  <2>7. \A t \in Live' : origin[t] # None
    BY <2>c, <2>2, <2>5 DEF RefreshInv
  <2> QED
    BY <1>1, <2>1, <2>5, <2>6, <2>7 DEF RefreshInv, Steady
<1>14. CASE \/ ResolvePrincipal(r) \/ ConfirmIdentity(r)
            \/ ReadBase(r) \/ ReadMembership(r) \/ ReadGrants(r)
  <2>1. Steady(r) /\ request[r].step # "replace"
    BY <1>14, StepEffects DEF Moved, Steady
  <2>2. UNCHANGED <<store, issued, ghosts>>
    BY <1>14 DEF ResolvePrincipal, ConfirmIdentity, ReadBase, ReadMembership, ReadGrants
  <2> QED
    BY <1>2, <1>3, <2>1, <2>2
<1> QED
  BY <1>4, <1>5, <1>6, <1>7, <1>8, <1>9, <1>10, <1>11, <1>12, <1>13, <1>14 DEF Acts, Step

LEMMA RefreshHolds == Spec => []RefreshInv
<1>1. Init => RefreshInv
  BY IdleTypes DEF Init, RefreshInv, Live
<1>2. SessionTypeOK /\ SessionTypeOK' /\ LoginInv /\ RefreshInv /\ [Next]_vars => RefreshInv'
  <2> SUFFICES ASSUME SessionTypeOK, SessionTypeOK', LoginInv, RefreshInv, [Next]_vars
               PROVE  RefreshInv'
    OBVIOUS
  <2>1. ASSUME UNCHANGED request, Keeps PROVE RefreshInv'
    <3>1. ASSUME NEW s \in Sessions, TokensInv(s) PROVE TokensInv(s)'
      BY <2>1, <3>1, TokensKept DEF Keeps
    <3> QED
      BY <2>1, <3>1 DEF RefreshInv, Keeps
  <2>2. ASSUME UNCHANGED <<store, issued, ghosts>> PROVE Keeps
    BY <2>2 DEF Keeps, store, ghosts, Live
  <2>3. ASSUME NEW l \in Logins, BeginLogin(l) PROVE RefreshInv'
    BY <2>1, <2>3 DEF BeginLogin, Keeps, ghosts, Live
  <2>4. ASSUME NEW s \in Sessions, ExpireToken(s) PROVE RefreshInv'
    <3>1. Live' = Live /\ \A t \in Live : session'[t].token = session[t].token
      BY <2>4 DEF ExpireToken, SessionTypeOK, Live
    <3> QED
      BY <2>1, <2>4, <3>1 DEF ExpireToken, Keeps, ghosts
  <2> QED
    BY <2>1, <2>2, <2>3, <2>4, StepKinds, RefreshStep DEF vars, Around
<1> QED
  BY <1>1, <1>2, TypesHold, LoginHolds, PTL DEF Spec

(* A session whose new token the store accepted can be refreshed: requests *)
(* that refresh it at the same time (resolve_browser_session), with a      *)
(* provider that rotates its refresh tokens or one that does not, leave it *)
(* the token that the provider accepts, or one of them is bringing it.     *)
THEOREM SessionsStayRefreshable == Spec => []SessionRefreshable
<1>1. SessionTypeOK /\ RefreshInv => SessionRefreshable
  BY DEF SessionTypeOK, RefreshInv, TokensInv, RequestsAt, SessionRefreshable, BeingRefreshed
<1> QED
  BY <1>1, TypesHold, RefreshHolds, PTL

(***************************************************************************)
(* Logout: a session comes back only if it was overtaken.                  *)
(***************************************************************************)

LEMMA LogoutStep ==
    ASSUME SessionTypeOK, LogoutInv, RefreshInv, NEW r \in Requests, Acts(r)
    PROVE  LogoutInv'
<1>1. \A p \in Requests \ {r} : request'[p] = request[p]
  BY ActTypes
<1>2. ASSUME UNCHANGED origin, ended' = ended, overtaken \subseteq overtaken',
             Live' \subseteq Live,
             request'[r].step \in {"refresh", "replace"} =>
                 request'[r].session \in Live \/ BeingRefreshed(request'[r].session)
      PROVE  LogoutInv'
  BY <1>1, <1>2 DEF LogoutInv, BeingRefreshed
<1>3. ASSUME NEW l \in Logins, Callback(r, l) PROVE LogoutInv'
  <2>1. request'[r].step \in {"exchange", "refused"}
    BY <1>3, CallEffects
  <2> QED
    BY <1>2, <1>3, <2>1 DEF Callback, ghosts, Live
<1>4. ASSUME NEW s \in Sessions, Use(r, s) \/ Refresh(r, s) PROVE LogoutInv'
  <2>1. /\ UNCHANGED <<store, ghosts>>
        /\ request'[r].step = "refresh" => request'[r].session \in Live
        /\ request'[r].step # "replace"
    BY <1>4, GetFields
  <2> QED
    BY <1>2, <2>1 DEF store, ghosts, Live
<1>5. ASSUME NEW s \in Sessions, Logout(r, s) PROVE LogoutInv'
  <2>1. /\ request'[r].step = "answered" /\ origin[s] # None /\ UNCHANGED origin
        /\ ended' = ended \cup {s} /\ Live' = Live \ {s}
        /\ overtaken \subseteq overtaken'
        /\ BeingRefreshed(s) => s \in overtaken'
    BY <1>5, CallEffects DEF Logout, AfterLogout, Without, Live
  <2>2. \A t : BeingRefreshed(t)' => BeingRefreshed(t)
    BY <1>1, <2>1 DEF BeingRefreshed
  <2> QED
    BY <2>1, <2>2 DEF LogoutInv
<1>6. CASE UseKey(r) \/ Answer(r)
  <2>1. request'[r].step \in {"base", "refused", "idle"}
    BY <1>6, CallEffects DEF Idle
  <2>2. UNCHANGED <<store, ghosts>>
    BY <1>6 DEF UseKey, Answer
  <2> QED
    BY <1>2, <2>1, <2>2 DEF store, ghosts, Live
<1>7. CASE CreateSession(r)
  <2>1. /\ request'[r].step \in {"answered", "refused"} /\ UNCHANGED ghosts
        /\ request[r].login \in Logins \cup {None}
    BY <1>7, StepEffects DEF Moved, CreateSession, SessionTypeOK, Request
  <2>2. CASE UNCHANGED <<session, origin>>
    BY <1>2, <2>1, <2>2 DEF ghosts, Live
  <2>3. ASSUME NEW s \in Sessions, origin[s] = None, origin' = [origin EXCEPT ![s] = request[r].login],
               session' = With(session, s, [token |-> request[r].token, valid |-> TRUE])
        PROVE  LogoutInv'
    <3>1. /\ \A t \in Sessions \ {s} : origin'[t] = origin[t]
          /\ Live' = Live \cup {s} /\ s \notin ended \ overtaken
      BY <2>3 DEF With, Live, LogoutInv, SessionTypeOK
    <3>2. \A t : BeingRefreshed(t)' => BeingRefreshed(t)
      BY <1>1, <2>1 DEF BeingRefreshed
    <3> QED
      BY <2>1, <3>1, <3>2 DEF LogoutInv, ghosts
  <2> QED
    BY <1>7, <2>2, <2>3 DEF CreateSession
<1>8. CASE DropSession(r)
  <2>1. request'[r].step = "refused"
    BY <1>8, StepEffects DEF Moved
  <2> QED
    BY <1>2, <1>8, <2>1 DEF DropSession, Without, ghosts, Live
<1>9. CASE CallProvider(r)
  <2>1. request[r].step = "refresh" /\ request'[r].session = request[r].session
    BY <1>9, StepEffects DEF Moved
  <2>2. BeingRefreshed(request'[r].session)
    BY <2>1 DEF BeingRefreshed
  <2> QED
    BY <1>2, <1>9, <2>2 DEF CallProvider, store, ghosts, Live
<1>10. CASE ReplaceSession(r)
  <2>1. /\ request[r].step = "replace" /\ request'[r].step \in {"resolve", "answered", "refused"}
        /\ UNCHANGED <<origin, ended, overtaken>>
    BY <1>10, StepEffects DEF Moved, ReplaceSession
  <2>2. request[r].session \notin ended \ overtaken
    BY <2>1 DEF LogoutInv, BeingRefreshed
  <2>3. Live' \subseteq Live \cup {request[r].session}
    BY <1>10 DEF ReplaceSession, With, Live
  <2>4. \A t : BeingRefreshed(t)' => BeingRefreshed(t)
    BY <1>1, <2>1 DEF BeingRefreshed
  <2> QED
    BY <2>1, <2>2, <2>3, <2>4 DEF LogoutInv
<1>11. CASE \/ Exchange(r) \/ Provision(r) \/ ResolvePrincipal(r) \/ ConfirmIdentity(r)
            \/ ReadBase(r) \/ ReadMembership(r) \/ ReadGrants(r)
  <2>1. request'[r].step \notin {"refresh", "replace"}
    BY <1>11, StepEffects DEF Moved
  <2>2. UNCHANGED <<store, ghosts>>
    BY <1>11 DEF Exchange, Provision, ResolvePrincipal, ConfirmIdentity, ReadBase, ReadMembership, ReadGrants
  <2> QED
    BY <1>2, <2>1, <2>2 DEF store, ghosts, Live
<1> QED
  BY <1>3, <1>4, <1>5, <1>6, <1>7, <1>8, <1>9, <1>10, <1>11 DEF Acts, Step

LEMMA LogoutHolds == Spec => []LogoutInv
<1>1. Init => LogoutInv
  BY DEF Init, LogoutInv
<1>2. SessionTypeOK /\ RefreshInv /\ LogoutInv /\ [Next]_vars => LogoutInv'
  <2> SUFFICES ASSUME SessionTypeOK, RefreshInv, LogoutInv, [Next]_vars PROVE LogoutInv'
    OBVIOUS
  <2>1. ASSUME UNCHANGED <<request, origin, ghosts>>, Live' = Live PROVE LogoutInv'
    BY <2>1 DEF LogoutInv, BeingRefreshed, ghosts
  <2>2. ASSUME NEW l \in Logins, BeginLogin(l) PROVE LogoutInv'
    BY <2>1, <2>2 DEF BeginLogin, Live
  <2>3. ASSUME NEW s \in Sessions, ExpireToken(s) PROVE LogoutInv'
    BY <2>1, <2>3 DEF ExpireToken, Live
  <2>4. ASSUME UNCHANGED <<store, request, ghosts>> PROVE LogoutInv'
    BY <2>1, <2>4 DEF store, Live
  <2> QED
    BY <2>2, <2>3, <2>4, StepKinds, LogoutStep DEF vars, Around
<1> QED
  BY <1>1, <1>2, TypesHold, RefreshHolds, PTL DEF Spec

(* oidc_logout: a session that was logged out is not live again, unless it *)
(* was being refreshed when the logout came.                               *)
THEOREM LogoutsAreFinal == Spec => []LogoutIsFinal
<1>1. LogoutInv => LogoutIsFinal
  BY DEF LogoutInv, LogoutIsFinal
<1> QED
  BY <1>1, LogoutHolds, PTL

(***************************************************************************)
(* Access: a request collects what it needs before it is let through.      *)
(***************************************************************************)

LEMMA FactsOf ==
    ASSUME NEW q
    PROVE  /\ Facts(q) \subseteq Everything
           /\ "session" \in Facts(q) <=> (q.kind = "account" \/ q.session \in Live)
           /\ "identity" \in Facts(q) <=> IF q.kind = "account" THEN account.active ELSE member.enabled
           /\ "permission" \in Facts(q) <=>
                 (Role(q) \in Roles /\ q.needs.permission \in Permissions(Role(q)))
           /\ "right" \in Facts(q) <=> HasRight(q)
           /\ "base" \in Facts(q) <=> ~base.deleted
BY DEF Facts, Everything

(* What a request has seen stays seen. *)
LEMMA MoreSeen ==
    ASSUME NEW q, NEW h, NEW more, Progress(q, h), h \subseteq more, more \subseteq Everything
    PROVE  Progress(q, more)
BY DEF Progress

LEMMA ProgressStep ==
    ASSUME SessionTypeOK, AccessInv, NEW r \in Requests, Acts(r),
           NEW h, h = held[r] \cup Facts(request'[r])
    PROVE  Progress(request'[r], IF request'[r].step = "idle" THEN {} ELSE h)
<1>1. Progress(request[r], held[r]) /\ held[r] \subseteq h
  BY DEF AccessInv
<1>2. h \subseteq Everything
  BY FactsOf DEF SessionTypeOK
<1>3. ASSUME "session" \in h, "identity" \in h, "permission" \in h, "right" \in h, "base" \in h
      PROVE  h = Everything
  BY <1>2, <1>3 DEF Everything
<1>4. ASSUME NEW l \in Logins, Callback(r, l)
      PROVE  Progress(request'[r], h) /\ request'[r].step # "idle"
  BY <1>4, CallEffects DEF Progress
<1>5. ASSUME NEW s \in Sessions, Use(r, s) \/ Refresh(r, s)
      PROVE  Progress(request'[r], h) /\ request'[r].step # "idle"
  <2>1. /\ ~request'[r].granted /\ request'[r].step \in {"refused", "resolve", "drop", "refresh"}
        /\ request'[r].step # "refused" => request'[r].session \in Live
        /\ request'[r].step = "resolve" => request'[r].kind = "use"
    BY <1>5, GetFields
  <2>2. request'[r].step # "refused" => "session" \in h
    BY <2>1, FactsOf
  <2> QED
    BY <2>1, <2>2 DEF Progress
<1>6. ASSUME NEW s \in Sessions, Logout(r, s)
      PROVE  Progress(request'[r], h) /\ request'[r].step # "idle"
  BY <1>6, CallEffects DEF Progress
<1>7. ASSUME UseKey(r) PROVE Progress(request'[r], h) /\ request'[r].step # "idle"
  <2>1. /\ request'[r].kind = "account" /\ ~request'[r].granted
        /\ request'[r].principal = account.role
        /\ request'[r].step =
             IF account.active /\ request'[r].needs.permission \in Permissions(account.role)
             THEN "base" ELSE "refused"
    BY <1>7, CallEffects
  <2>2. Role(request'[r]) = account.role /\ account.role \in Roles
    BY <2>1 DEF Role, SessionTypeOK
  <2>3. "session" \in h /\ (IsAdmin(account.role) => "right" \in h)
    BY <2>1, <2>2, FactsOf DEF HasRight
  <2>4. request'[r].step = "base" => "identity" \in h /\ "permission" \in h
    BY <2>1, <2>2, FactsOf
  <2> QED
    BY <2>1, <2>3, <2>4 DEF Progress
<1>8. CASE Answer(r)
  BY <1>8, CallEffects, IdleTypes DEF Progress
<1>9. ASSUME \/ Exchange(r) \/ Provision(r) \/ CreateSession(r) \/ DropSession(r)
             \/ CallProvider(r) \/ ReplaceSession(r)
      PROVE  Progress(request'[r], h) /\ request'[r].step # "idle"
  <2>1. SameReading(r)
    BY <1>9, StepEffects
  <2>2. /\ request[r].step \in {"exchange", "provision", "create", "drop", "refresh", "replace"}
        /\ request'[r].kind = request[r].kind
        /\ request'[r].step \in {"provision", "create", "replace", "resolve", "answered", "refused"}
        /\ request'[r].step = "replace" => request[r].step = "refresh"
        /\ request'[r].step = "resolve" => request[r].step = "replace" /\ request[r].kind = "use"
    BY <1>9, StepEffects DEF Moved
  <2> QED
    BY <1>1, <2>1, <2>2 DEF Progress, SameReading
<1>10. ASSUME ResolvePrincipal(r) PROVE Progress(request'[r], h) /\ request'[r].step # "idle"
  <2>1. /\ request[r].step = "resolve" /\ request'[r].step \in {"confirm", "refused"}
        /\ request'[r].kind = request[r].kind /\ request'[r].granted = request[r].granted
        /\ request'[r].step = "confirm" => member.enabled /\ request'[r].principal = member.role
    BY <1>10, StepEffects DEF Moved
  <2>2. request'[r].kind = "use" /\ ~request'[r].granted /\ "session" \in h
    BY <1>1, <2>1 DEF Progress, SessionTypeOK, Request
  <2>3. Role(request'[r]) = member.role /\ member.role \in Roles
    BY <2>2 DEF Role, SessionTypeOK, Member
  <2>4. CASE request'[r].step = "confirm"
    <3>1. "identity" \in h /\ (IsAdmin(request'[r].principal) => "right" \in h)
      BY <2>1, <2>2, <2>3, <2>4, FactsOf DEF HasRight
    <3>2. request'[r].needs.permission \in Permissions(request'[r].principal) => "permission" \in h
      BY <2>1, <2>3, <2>4, FactsOf
    <3> QED
      BY <2>2, <2>4, <3>1, <3>2 DEF Progress
  <2>5. CASE request'[r].step = "refused"
    BY <2>2, <2>5 DEF Progress
  <2> QED
    BY <2>1, <2>4, <2>5
<1>11. ASSUME ConfirmIdentity(r) PROVE Progress(request'[r], h) /\ request'[r].step # "idle"
  <2>1. /\ request[r].step = "confirm" /\ request'[r].step \in {"base", "refused"}
        /\ request'[r].kind = request[r].kind /\ SameReading(r)
        /\ request'[r].step = "base" => request[r].needs.permission \in Permissions(request[r].principal)
    BY <1>11, StepEffects DEF Moved
  <2> QED
    BY <1>1, <2>1 DEF Progress, SameReading
<1>12. ASSUME ReadBase(r) PROVE Progress(request'[r], h) /\ request'[r].step # "idle"
  <2>1. /\ request[r].step = "base" /\ request'[r].step \in {"membership", "answered", "refused"}
        /\ request'[r].kind = request[r].kind /\ request'[r].principal = request[r].principal
        /\ request'[r].granted <=> request'[r].step = "answered" \/ request[r].granted
        /\ request'[r].step # "refused" => ~base.deleted
        /\ request'[r].step = "answered" =>
             IsAdmin(request[r].principal) \/ (request[r].kind = "use" /\ base.owned)
    BY <1>12, StepEffects DEF Moved
  <2>2. /\ ~request[r].granted /\ "session" \in h /\ "identity" \in h /\ "permission" \in h
        /\ IsAdmin(request[r].principal) => "right" \in h
    BY <1>1, <2>1 DEF Progress
  <2>3. /\ request'[r].step # "refused" => "base" \in h
        /\ request'[r].kind = "use" /\ base.owned => "right" \in h
    BY <2>1, FactsOf DEF HasRight
  <2> QED
    BY <1>3, <2>1, <2>2, <2>3 DEF Progress
<1>13. ASSUME ReadMembership(r) PROVE Progress(request'[r], h) /\ request'[r].step # "idle"
  <2>1. /\ request[r].step = "membership" /\ request'[r].step \in {"grants", "refused"}
        /\ request'[r].kind = request[r].kind /\ request'[r].principal = request[r].principal
        /\ request'[r].granted = request[r].granted
        /\ request'[r].step = "grants" => request[r].kind = "use" /\ request'[r].enabled
    BY <1>13, StepEffects DEF Moved
  <2> QED
    BY <1>1, <2>1 DEF Progress
<1>14. ASSUME ReadGrants(r) PROVE Progress(request'[r], h) /\ request'[r].step # "idle"
  <2>1. /\ request[r].step = "grants" /\ request'[r].step \in {"answered", "refused"}
        /\ request'[r].kind = request[r].kind /\ request'[r].needs = request[r].needs
        /\ request'[r].enabled = request[r].enabled /\ request'[r].role = request[r].role
        /\ request'[r].department = request[r].department
        /\ request'[r].granted <=> request'[r].step = "answered" \/ request[r].granted
    BY <1>14, StepEffects DEF Moved
  <2>2. request'[r].step = "answered" =>
             \/ HasGrant(grants, request[r], request[r].needs.write)
             \/ ~request[r].needs.write /\ base.scope \in {"department", "public"}
    BY <1>14, StepEffects
  <2>3. /\ ~request[r].granted /\ "session" \in h /\ "identity" \in h /\ "permission" \in h
        /\ "base" \in h /\ request[r].enabled /\ request[r].kind = "use"
    BY <1>1, <2>1 DEF Progress
  <2>4. HasGrant(grants, request'[r], request'[r].needs.write) <=>
          HasGrant(grants, request[r], request[r].needs.write)
    BY <2>1 DEF HasGrant
  <2>5. request'[r].step = "answered" => "right" \in h
    BY <2>1, <2>2, <2>3, <2>4, FactsOf DEF HasRight
  <2> QED
    BY <1>3, <2>1, <2>3, <2>5 DEF Progress
<1> QED
  BY <1>4, <1>5, <1>6, <1>7, <1>8, <1>9, <1>10, <1>11, <1>12, <1>13, <1>14 DEF Acts, Step

LEMMA AccessHolds == Spec => []AccessInv
<1>1. Init => AccessInv
  BY IdleTypes DEF Init, AccessInv, Progress
<1>2. SessionTypeOK /\ AccessInv /\ [Next]_vars => AccessInv'
  <2> SUFFICES ASSUME SessionTypeOK, AccessInv, [Next]_vars PROVE AccessInv'
    OBVIOUS
  <2>1. ASSUME NEW p \in Requests, NEW adminActs, Watch(adminActs), request'[p] = request[p]
        PROVE  Progress(request'[p], held'[p])
    <3>1. Progress(request[p], held[p]) /\ held[p] \subseteq Everything
      BY DEF AccessInv, SessionTypeOK
    <3>2. held'[p] = IF request'[p].step = "idle" THEN {} ELSE held[p] \cup Facts(request'[p])
      BY <2>1 DEF Watch
    <3>3. CASE request[p].step = "idle"
      BY <2>1, <3>1, <3>2, <3>3 DEF Progress
    <3>4. CASE request[p].step # "idle"
      BY <2>1, <3>1, <3>2, <3>4, FactsOf, MoreSeen
    <3> QED
      BY <3>3, <3>4
  <2>2. ASSUME UNCHANGED request, NEW adminActs, Watch(adminActs) PROVE AccessInv'
    BY <2>1, <2>2 DEF AccessInv
  <2>3. ASSUME NEW r \in Requests, Acts(r), Watch(FALSE) PROVE AccessInv'
    <3>1. held'[r] = IF request'[r].step = "idle" THEN {} ELSE held[r] \cup Facts(request'[r])
      BY <2>3 DEF Watch
    <3>2. Progress(request'[r], held'[r])
      BY <2>3, <3>1, ProgressStep
    <3> QED
      BY <2>1, <2>3, <3>2, ActTypes DEF AccessInv
  <2>4. CASE Around /\ Watch(FALSE)
    BY <2>2, <2>4 DEF Around, BeginLogin, ExpireToken
  <2>5. CASE UNCHANGED vars
    BY <2>5 DEF vars, watch, AccessInv
  <2> QED
    BY <2>2, <2>3, <2>4, <2>5, StepKinds
<1> QED
  BY <1>1, <1>2, TypesHold, PTL DEF Spec

(* get_accessible_knowledge_base, after the authentication of the request: *)
(* what a request was let do, its session, identity, permission, right and *)
(* knowledge base allowed at some moment of it.                            *)
THEOREM AccessIsJustified == Spec => []AccessJustified
<1>1. AccessInv => AccessJustified
  BY DEF AccessInv, Progress, AccessJustified
<1> QED
  BY <1>1, AccessHolds, PTL

(***************************************************************************)
(* Decisions: while nobody changes anything, what a request has read is    *)
(* what is there, and its answer is the one the state demands.             *)
(***************************************************************************)

Entitled(q) ==
    /\ IF q.kind = "account" THEN account.active ELSE member.enabled
    /\ Role(q) \in Roles /\ q.needs.permission \in Permissions(Role(q))
    /\ HasRight(q)
    /\ ~base.deleted

Reads(q) ==
    /\ q.kind = "use" /\ q.needs.permission = "read" /\ q.principal # "none"
    /\ q.needs.permission \in Permissions(q.principal)

Exact(q) ==
    /\ q.granted => Entitled(q)
    /\ q.step = "refused" /\ q.principal # "none" => ~Entitled(q)
    /\ Reads(q) /\ q.granted => Listed(member)
    /\ Reads(q) /\ q.step = "refused" => ~Listed(member)

AllExact == \A r \in quiet : Exact(request[r])

LEMMA ExactDecisions == DecisionExact <=> AllExact
<1>1. ASSUME NEW q PROVE (Everything \ {"session"} \subseteq Facts(q)) <=> Entitled(q)
  BY FactsOf DEF Everything, Entitled
<1> QED
  BY <1>1 DEF DecisionExact, AllExact, Exact, Reads

(* A step of a request leaves what administrators change alone. *)
LEMMA SameDecisions ==
    ASSUME UNCHANGED identity, NEW r
    PROVE  /\ Exact(request[r])' <=> Exact(request'[r])
           /\ Undisturbed(request[r])' <=> Undisturbed(request'[r])
BY DEF identity, Exact, Entitled, Reads, Undisturbed, Role, HasRight, Listed

LEMMA DecisionStep ==
    ASSUME SessionTypeOK, AccessInv, NEW r \in Requests, Acts(r),
           request[r].step = "idle" \/ (Undisturbed(request[r]) /\ Exact(request[r])),
           request'[r].step # "idle"
    PROVE  Undisturbed(request'[r]) /\ Exact(request'[r])
<1> DEFINE q == request[r]
           n == request'[r]
           Right == Undisturbed(n) /\ Exact(n)
<1>1. ASSUME n.principal = "none", ~n.granted,
             n.step \notin {"confirm", "base", "membership", "grants"}
      PROVE  Right
  BY <1>1 DEF Undisturbed, Exact, Reads
<1>2. /\ q.granted => q.step = "answered"
      /\ q.step \in {"resolve", "confirm", "grants"} => q.kind = "use"
      /\ member.role \in Roles /\ account.role \in Roles
      /\ base.scope # "private" <=> base.scope \in {"department", "public"}
      /\ q.granted \in BOOLEAN
  BY DEF AccessInv, Progress, SessionTypeOK, Member, Request
<1>3. ASSUME NEW m PROVE Role(m) \in Roles
  BY <1>2 DEF Role
<1>4. ASSUME NEW l \in Logins, Callback(r, l) PROVE Right
  BY <1>1, <1>4, CallEffects
<1>5. ASSUME NEW s \in Sessions, Use(r, s) \/ Refresh(r, s) PROVE Right
  BY <1>1, <1>5, GetFields
<1>6. ASSUME NEW s \in Sessions, Logout(r, s) PROVE Right
  BY <1>1, <1>6, CallEffects
<1>7. CASE UseKey(r)
  <2>1. /\ n.kind = "account" /\ n.principal = account.role /\ ~n.granted
        /\ n.step = IF account.active /\ n.needs.permission \in Permissions(account.role)
                    THEN "base" ELSE "refused"
        /\ Role(n) = account.role
    BY <1>7, CallEffects DEF Role
  <2> QED
    BY <1>2, <2>1 DEF Undisturbed, Exact, Entitled, Reads
<1>8. CASE Answer(r)
  BY <1>8, CallEffects, IdleTypes
<1>9. CASE \/ Exchange(r) \/ Provision(r) \/ CreateSession(r) \/ DropSession(r)
           \/ CallProvider(r) \/ ReplaceSession(r)
  <2>1. SameReading(r)
    BY <1>9, StepEffects
  <2>2. /\ q.step \in {"exchange", "provision", "create", "drop", "refresh", "replace"}
        /\ n.step \in {"provision", "create", "replace", "resolve", "answered", "refused"}
    BY <1>9, StepEffects DEF Moved
  <2>3. q.principal = "none"
    BY <2>2 DEF Undisturbed
  <2> QED
    BY <1>1, <1>2, <2>1, <2>2, <2>3 DEF SameReading
<1>10. CASE ResolvePrincipal(r)
  <2>1. /\ q.step = "resolve" /\ n.step \in {"confirm", "refused"}
        /\ n.kind = q.kind /\ n.granted = q.granted
        /\ n.step = "confirm" => member.enabled /\ n.principal = member.role
        /\ n.step = "refused" => n.principal = q.principal
    BY <1>10, StepEffects DEF Moved, SameReading
  <2>2. n.kind = "use" /\ ~n.granted /\ q.principal = "none"
    BY <1>2, <2>1 DEF Undisturbed
  <2>3. CASE n.step = "confirm"
    BY <2>1, <2>2, <2>3 DEF Undisturbed, Exact, Role
  <2>4. CASE n.step = "refused"
    BY <1>1, <2>1, <2>2, <2>4
  <2> QED
    BY <2>1, <2>3, <2>4
<1>11. CASE ConfirmIdentity(r)
  <2>1. /\ q.step = "confirm" /\ n.step \in {"base", "refused"}
        /\ n.kind = q.kind /\ n.needs = q.needs /\ SameReading(r)
        /\ n.step = "base" <=> (member.enabled /\ q.needs.permission \in Permissions(q.principal))
    BY <1>11, StepEffects DEF Moved
  <2>2. /\ q.kind = "use" /\ q.principal = Role(q) /\ member.enabled /\ ~q.granted
    BY <1>2, <2>1 DEF Undisturbed
  <2>3. /\ n.kind = "use" /\ n.principal = Role(n) /\ ~n.granted /\ Role(n) = member.role
        /\ n.step = "base" <=> n.needs.permission \in Permissions(n.principal)
    BY <2>1, <2>2 DEF SameReading, Role
  <2> QED
    BY <2>1, <2>2, <2>3 DEF Undisturbed, Exact, Entitled, Reads
<1>12. CASE ReadBase(r)
  <2>1. /\ q.step = "base" /\ n.step \in {"membership", "answered", "refused"}
        /\ n.kind = q.kind /\ n.needs = q.needs /\ n.principal = q.principal
        /\ n.granted <=> (n.step = "answered" \/ q.granted)
        /\ n.step = "refused" <=> base.deleted
        /\ n.step = "answered" <=>
             (~base.deleted /\ (IsAdmin(q.principal) \/ (q.kind = "use" /\ base.owned)))
    BY <1>12, StepEffects DEF Moved
  <2>2. /\ n.kind \in {"use", "account"} /\ n.principal = Role(n)
        /\ n.granted <=> n.step = "answered"
        /\ IF n.kind = "account" THEN account.active ELSE member.enabled
        /\ n.needs.permission \in Permissions(n.principal)
    BY <1>2, <2>1 DEF Undisturbed, Role
  <2>3. CASE n.step = "refused"
    BY <2>1, <2>2, <2>3 DEF Undisturbed, Exact, Entitled, Reads, Listed
  <2>4. CASE n.step = "answered"
    <3>1. Entitled(n)
      BY <1>3, <2>1, <2>2, <2>4 DEF Entitled, HasRight
    <3>2. n.kind = "use" => Listed(member)
      BY <2>1, <2>2, <2>4 DEF Listed, Role
    <3> QED
      BY <2>2, <2>4, <3>1, <3>2 DEF Undisturbed, Exact, Reads
  <2>5. CASE n.step = "membership"
    BY <2>1, <2>2, <2>5 DEF Undisturbed, Exact
  <2> QED
    BY <2>1, <2>3, <2>4, <2>5
<1>13. CASE ReadMembership(r)
  <2>1. /\ q.step = "membership" /\ n.step \in {"grants", "refused"}
        /\ n.kind = q.kind /\ n.needs = q.needs /\ n.principal = q.principal /\ n.granted = q.granted
        /\ n.step = "grants" <=> (q.kind = "use" /\ member.enabled)
        /\ n.step = "grants" =>
             n.role = member.role /\ n.department = member.department /\ n.enabled
    BY <1>13, StepEffects DEF Moved
  <2>2. /\ n.kind \in {"use", "account"} /\ n.principal = Role(n) /\ ~n.granted
        /\ IF n.kind = "account" THEN account.active ELSE member.enabled
        /\ n.needs.permission \in Permissions(n.principal)
        /\ ~base.deleted /\ ~IsAdmin(n.principal) /\ ~(n.kind = "use" /\ base.owned)
    BY <1>2, <2>1 DEF Undisturbed, Role
  <2>3. CASE n.step = "grants"
    BY <2>1, <2>2, <2>3 DEF Undisturbed, Exact
  <2>4. CASE n.step = "refused"
    <3>1. n.kind = "account"
      BY <2>1, <2>2, <2>4
    <3>2. ~Entitled(n)
      BY <2>2, <3>1 DEF Entitled, HasRight
    <3> QED
      BY <2>2, <2>4, <3>1, <3>2 DEF Undisturbed, Exact, Reads
  <2> QED
    BY <2>1, <2>3, <2>4
<1>14. CASE ReadGrants(r)
  <2>1. /\ q.step = "grants" /\ n.step \in {"answered", "refused"}
        /\ n.kind = q.kind /\ n.needs = q.needs /\ n.principal = q.principal
        /\ n.enabled = q.enabled /\ n.role = q.role /\ n.department = q.department
        /\ n.granted <=> (n.step = "answered" \/ q.granted)
    BY <1>14, StepEffects DEF Moved
  <2>2. n.step = "answered" <=>
          \/ HasGrant(grants, q, q.needs.write)
          \/ ~q.needs.write /\ base.scope \in {"department", "public"}
    BY <1>14, StepEffects
  <2>3. /\ n.kind = "use" /\ n.principal = Role(n) /\ Role(n) = member.role /\ member.enabled
        /\ n.granted <=> n.step = "answered"
        /\ n.needs.permission \in Permissions(n.principal)
        /\ ~base.deleted /\ ~IsAdmin(n.principal) /\ ~base.owned
        /\ n.role = member.role /\ n.department = member.department
    BY <1>2, <2>1 DEF Undisturbed, Role
  <2>4. \A write : (HasGrant(grants, n, write) <=> HasGrant(grants, member, write))
                    /\ (HasGrant(grants, q, write) <=> HasGrant(grants, member, write))
    BY <2>1, <2>3 DEF HasGrant
  <2>5. HasRight(n) <=> n.step = "answered"
    BY <1>2, <2>1, <2>2, <2>3, <2>4 DEF HasRight
  <2>6. Entitled(n) <=> n.step = "answered"
    BY <1>3, <2>3, <2>5 DEF Entitled
  <2>7. Reads(n) => n.needs.write = FALSE
    <3>1. n.needs \in Needs
      BY ActTypes DEF Request
    <3> QED
      BY <3>1 DEF Reads, Needs, Operations, Idle
  <2>8. Reads(n) => (Listed(member) <=> n.step = "answered")
    BY <1>2, <2>1, <2>2, <2>3, <2>4, <2>7 DEF Listed
  <2> QED
    BY <2>1, <2>3, <2>6, <2>8 DEF Undisturbed, Exact
<1> QED
  BY <1>4, <1>5, <1>6, <1>7, <1>8, <1>9, <1>10, <1>11, <1>12, <1>13, <1>14 DEF Acts, Step

LEMMA DecisionHolds == Spec => []DecisionInv
<1>1. Init => DecisionInv
  BY DEF Init, DecisionInv, DecisionExact
<1>2. SessionTypeOK /\ AccessInv /\ DecisionInv /\ [Next]_vars => DecisionInv'
  <2> SUFFICES ASSUME SessionTypeOK, AccessInv, DecisionInv, [Next]_vars PROVE DecisionInv'
    OBVIOUS
  <2>1. \A p \in quiet : Undisturbed(request[p]) /\ Exact(request[p])
    BY ExactDecisions DEF DecisionInv, AllExact
  <2>2. ASSUME UNCHANGED identity,
               \A p \in quiet' : Undisturbed(request'[p]) /\ Exact(request'[p])
        PROVE  DecisionInv'
    <3>1. \A p \in quiet' : Undisturbed(request[p])' /\ Exact(request[p])'
      BY <2>2, SameDecisions
    <3>2. DecisionExact' <=> AllExact'
      BY ExactDecisions, PTL
    <3> QED
      BY <3>1, <3>2 DEF DecisionInv, AllExact
  <2>3. ASSUME UNCHANGED <<identity, request>>, Watch(FALSE) PROVE DecisionInv'
    BY <2>1, <2>2, <2>3 DEF Watch
  <2>4. ASSUME NEW r \in Requests, Acts(r), Watch(FALSE) PROVE DecisionInv'
    <3>1. UNCHANGED identity
      BY <2>4 DEF Acts, Step, Callback, Use, Refresh, GetSession, Logout, UseKey, Exchange, Provision,
        CreateSession, DropSession, CallProvider, ReplaceSession, ResolvePrincipal, ConfirmIdentity,
        ReadBase, ReadMembership, ReadGrants, Answer
    <3>2. quiet' = {p \in Requests : request'[p].step # "idle"
                                      /\ (p \in quiet \/ request[p].step = "idle")}
      BY <2>4 DEF Watch
    <3>3. ASSUME r \in quiet' PROVE Undisturbed(request'[r]) /\ Exact(request'[r])
      BY <2>1, <2>4, <3>2, <3>3, DecisionStep
    <3>4. ASSUME NEW p \in quiet', p # r PROVE Undisturbed(request'[p]) /\ Exact(request'[p])
      BY <2>1, <2>4, <3>2, <3>4, ActTypes
    <3> QED
      BY <2>2, <3>1, <3>2, <3>3, <3>4
  <2>5. CASE Around /\ Watch(FALSE)
    BY <2>3, <2>5 DEF Around, BeginLogin, ExpireToken
  <2>6. CASE Watch(TRUE)
    BY <2>6 DEF Watch, DecisionInv, DecisionExact
  <2>7. CASE UNCHANGED vars
    BY <2>1, <2>2, <2>7 DEF vars, watch
  <2> QED
    BY <2>4, <2>5, <2>6, <2>7, StepKinds
<1> QED
  BY <1>1, <1>2, TypesHold, AccessHolds, PTL DEF Spec

(* Between the changes of administrators, an endpoint lets a request do    *)
(* what the state demands and refuses the rest, and a member may read just *)
(* the knowledge bases that list_knowledge_bases shows.                    *)
THEOREM DecisionsAreExact == Spec => []DecisionExact
<1>1. DecisionInv => DecisionExact
  BY DEF DecisionInv
<1> QED
  BY <1>1, DecisionHolds, PTL

(***************************************************************************)
(* The deletion of a knowledge base, for any documents, any number of      *)
(* deletions at a time and of failures of the stores.                      *)
(***************************************************************************)
ImportSteps == {"none", "register", "object", "name", "vectors", "done", "refused"}
DeleterSteps == {"idle", "vectors", "names", "objects", "rows"}

DeletionTypes ==
    /\ closed \in {"no", "yes"}
    /\ row \in [Documents -> {"none", "live", "deleted"}]
    /\ import \in [Documents -> ImportSteps]
    /\ deleter \in [Deleters -> [step : DeleterSteps, documents : SUBSET Documents]]

(* Once a deletion runs, or the base is closed, an import that goes on is  *)
(* one of those that overlap with a deletion.                              *)
OverlapInv == Deleting \/ closed = "yes" => Importing \subseteq overlapped

(* Every document of an open base that left anything anywhere has a live   *)
(* row, and so is in the list that a deletion begins with; a closed base   *)
(* has no live rows.                                                       *)
RowInv ==
    /\ closed = "no" =>
        /\ \A d \in Documents : import[d] \in {"object", "name", "vectors"} => row[d] = "live"
        /\ objects \subseteq {d \in Documents : row[d] = "live"}
    /\ closed = "yes" => \A d \in Documents : row[d] # "live"

(* What a deletion has cleared stays clear but for imports it overlaps.    *)
Cleared(k) ==
    /\ deleter[k].step \in {"names", "objects", "rows"} => vectors \subseteq overlapped
    /\ deleter[k].step \in {"objects", "rows"} => names \subseteq overlapped
    /\ deleter[k].step \in {"vectors", "names", "objects"} =>
        objects \subseteq overlapped \cup deleter[k].documents
    /\ deleter[k].step = "rows" => objects \subseteq overlapped

ClearedInv == \A k \in Deleters : Cleared(k)

DeletionInv == DeletionTypes /\ OverlapInv /\ RowInv /\ ClearedInv /\ DeletedBaseIsEmpty

----------------------------------------------------------------------------
LEMMA DeletionInvInit == DeletionInit => DeletionInv
BY DEF DeletionInit, DeletionInv, DeletionTypes, ImportSteps, DeleterSteps, Waiting,
       OverlapInv, Deleting, Importing, RowInv, ClearedInv, Cleared, DeletedBaseIsEmpty

(* An import takes a step: what it adds to a store belongs to an import    *)
(* that goes on, so a deletion in progress or a closed base has counted it.*)
LEMMA ImportKeeps ==
    ASSUME DeletionInv, NEW d \in Documents,
           Accept(d) \/ RegisterDocument(d) \/ PutObject(d) \/ SaveItemName(d) \/ InsertVectors(d)
    PROVE  DeletionInv'
<1> USE DEF DeletionInv, Importing, Deleting
<1>1. /\ closed' = closed /\ deleter' = deleter
      /\ overlapped \subseteq overlapped'
      /\ vectors' # vectors => d \in Importing /\ vectors' = vectors \cup {d}
      /\ names' # names => d \in Importing /\ names' = names \cup {d}
      /\ objects' # objects => d \in Importing /\ objects' = objects \cup {d}
  BY DEF Accept, RegisterDocument, PutObject, SaveItemName, InsertVectors, Advance, storage,
         DeletionTypes, ImportSteps
<1>2. DeletionTypes'
  BY DEF DeletionTypes, ImportSteps, Accept, RegisterDocument, PutObject, SaveItemName,
         InsertVectors, Advance
<1>3. OverlapInv'
  <2>1. CASE Accept(d)
    BY <2>1 DEF Accept, Advance, OverlapInv, DeletionTypes
  <2>2. CASE RegisterDocument(d) \/ PutObject(d) \/ SaveItemName(d) \/ InsertVectors(d)
    BY <2>2 DEF RegisterDocument, PutObject, SaveItemName, InsertVectors, Advance, OverlapInv,
                DeletionTypes
  <2> QED
    BY <2>1, <2>2
<1>4. RowInv'
  <2>1. CASE Accept(d)
    BY <2>1 DEF Accept, Advance, RowInv, DeletionTypes, storage
  <2>2. CASE RegisterDocument(d)
    BY <2>2 DEF RegisterDocument, Advance, Open, RowInv,
                DeletionTypes, storage
  <2>3. CASE PutObject(d)
    BY <2>3 DEF PutObject, Advance, RowInv, DeletionTypes
  <2>4. CASE SaveItemName(d) \/ InsertVectors(d)
    BY <2>4 DEF SaveItemName, InsertVectors, Advance, RowInv,
                DeletionTypes
  <2> QED
    BY <2>1, <2>2, <2>3, <2>4
<1>5. ClearedInv'
  <2> SUFFICES ASSUME NEW k \in Deleters PROVE Cleared(k)'
    BY DEF ClearedInv
  <2>1. deleter[k].step # "idle" => Importing \subseteq overlapped
    BY DEF OverlapInv
  <2> QED
    BY <1>1, <2>1 DEF ClearedInv, Cleared
<1>6. DeletedBaseIsEmpty'
  <2>1. closed = "yes" => Importing \subseteq overlapped
    BY DEF OverlapInv
  <2>2. closed' = "yes" => \A x \in Documents : row'[x] # "live"
    BY <1>4 DEF RowInv
  <2> QED
    BY <1>1, <2>1, <2>2 DEF DeletedBaseIsEmpty
<1> QED
  BY <1>2, <1>3, <1>4, <1>5, <1>6

(* A deletion takes a step: it only takes away from the stores, and it     *)
(* begins with every document that has an object.                          *)
LEMMA DeletionKeeps ==
    ASSUME DeletionInv, NEW k \in Deleters,
           \/ BeginDeletion(k) \/ DeleteVectors(k) \/ DeleteItemNames(k)
           \/ RemoveObject(k) \/ FailStore(k) \/ MarkDeleted(k)
    PROVE  DeletionInv'
<1> USE DEF DeletionInv
<1>1. /\ import' = import
      /\ vectors' \subseteq vectors /\ names' \subseteq names /\ objects' \subseteq objects
      /\ overlapped \subseteq overlapped'
      /\ \A j \in Deleters \ {k} : deleter'[j] = deleter[j]
  BY DEF BeginDeletion, DeleteVectors, DeleteItemNames, RemoveObject, FailStore, AfterOutage,
         MarkDeleted, Then, DeletionTypes, storage
<1>2. DeletionTypes'
  BY DEF DeletionTypes, DeleterSteps, BeginDeletion, DeleteVectors, DeleteItemNames,
         RemoveObject, FailStore, AfterOutage, MarkDeleted, Then, Waiting
<1>3. OverlapInv'
  <2>1. CASE BeginDeletion(k)
    BY <2>1 DEF BeginDeletion, OverlapInv, Importing
  <2>2. CASE ~BeginDeletion(k)
    <3>1. Deleting /\ overlapped' = overlapped
      BY <2>2 DEF DeleteVectors, DeleteItemNames, RemoveObject, FailStore, MarkDeleted, On,
                  Deleting
    <3> QED
      BY <1>1, <3>1 DEF OverlapInv, Importing
  <2> QED
    BY <2>1, <2>2
<1>4. RowInv'
  <2>1. CASE MarkDeleted(k)
    BY <2>1 DEF MarkDeleted, RowInv, DeletionTypes
  <2>2. CASE ~MarkDeleted(k)
    <3>1. closed' = closed /\ row' = row
      BY <2>2 DEF BeginDeletion, DeleteVectors, DeleteItemNames, RemoveObject, FailStore
    <3> QED
      BY <1>1, <3>1 DEF RowInv
  <2> QED
    BY <2>1, <2>2
<1>5. ClearedInv'
  <2>1. \A j \in Deleters \ {k} : Cleared(j)'
    BY <1>1 DEF ClearedInv, Cleared
  <2>2. Cleared(k)'
    <3>1. CASE BeginDeletion(k)
      BY <3>1 DEF BeginDeletion, Cleared, RowInv, DeletionTypes, storage
    <3>2. CASE DeleteVectors(k)
      BY <3>2 DEF DeleteVectors, ClearedInv, Cleared, On, Then, DeletionTypes
    <3>3. CASE DeleteItemNames(k)
      BY <3>3 DEF DeleteItemNames, ClearedInv, Cleared, On, Then, DeletionTypes
    <3>4. CASE RemoveObject(k)
      BY <3>4 DEF RemoveObject, ClearedInv, Cleared, On, Then, DeletionTypes
    <3>5. CASE FailStore(k) \/ MarkDeleted(k)
      BY <3>5 DEF FailStore, AfterOutage, MarkDeleted, Cleared, Waiting, DeletionTypes
    <3> QED
      BY <3>1, <3>2, <3>3, <3>4, <3>5
  <2> QED
    BY <2>1, <2>2 DEF ClearedInv
<1>6. DeletedBaseIsEmpty'
  <2> USE <1>4 DEF RowInv
  <2>1. CASE MarkDeleted(k)
    BY <2>1 DEF MarkDeleted, On, ClearedInv, Cleared, DeletedBaseIsEmpty, storage
  <2>2. CASE ~MarkDeleted(k)
    <3>1. closed' = closed
      BY <2>2 DEF BeginDeletion, DeleteVectors, DeleteItemNames, RemoveObject, FailStore
    <3> QED
      BY <1>1, <3>1 DEF DeletedBaseIsEmpty
  <2> QED
    BY <2>1, <2>2
<1> QED
  BY <1>2, <1>3, <1>4, <1>5, <1>6

THEOREM DeletionCorrect == DeletionSpec => []DeletionInv
<1>1. DeletionInv /\ [DeletionNext]_deletion => DeletionInv'
  <2> SUFFICES ASSUME DeletionInv, [DeletionNext]_deletion PROVE DeletionInv'
    OBVIOUS
  <2>1. CASE DeletionNext
    BY <2>1, ImportKeeps, DeletionKeeps DEF DeletionNext
  <2>2. CASE UNCHANGED deletion
    BY <2>2 DEF DeletionInv, DeletionTypes, OverlapInv, Deleting, Importing, RowInv, ClearedInv, Cleared, DeletedBaseIsEmpty,
                deletion, storage
  <2> QED
    BY <2>1, <2>2
<1> QED
  BY <1>1, DeletionInvInit, PTL DEF DeletionSpec

(* Nothing is left of a deleted knowledge base but what was imported while *)
(* it was deleted, however many deletions ran at a time and failed before; *)
(* and register_document, which looks at the base again, adds no document. *)
THEOREM DeletedBasesAreEmpty == DeletionSpec => []DeletedBaseIsEmpty
BY DeletionCorrect, PTL DEF DeletionInv
=============================================================================
