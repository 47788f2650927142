---------------------------- MODULE RequestGuards ----------------------------
(***************************************************************************)
(* What stands between a request and a handler of StoriesController or     *)
(* StoriesAdminController: JwtAuthGuard; AdminJwtAuthGuard and             *)
(* AdminPermissionsGuard.  A token says who its bearer is, and of an admin *)
(* what was granted when it was issued.  Identity (external) says what is  *)
(* granted now, and is asked on every admin request with a timeout of 3 s. *)
(* Grants change, and admins are suspended, between the steps of a         *)
(* request.                                                                *)
(***************************************************************************)
EXTENDS FiniteSets

CONSTANTS
    Users, Admins,  \* accounts
    Permissions,    \* permission names, "*" for all of them
    Requests,       \* requests that may be in progress at once
    None

ASSUME GuardsAssumption == Users \cap Admins = {} /\ None \notin Users \cup Admins

VARIABLES
    config,   \* identity: identity.baseUrl is set; production: app.env says so
    granted,  \* Identity: the permissions of each admin, None while suspended
    reqs,     \* progress of each request
    during    \* history: what the bearer was granted at some moment since the request began

guardVars == <<config, granted, reqs, during>>

Accounts == Users \cup Admins
Named == (SUBSET Permissions) \cup {None}  \* None: no array of permissions

\* What Identity issues.  The permissions are those at the time of issue, which
\* may be any: a token outlives what it was issued for.
Token == [typ : {"access"}, sub : Users, permissions : {None}]
             \cup [typ : {"admin_access"}, sub : Admins, permissions : Named]
NoToken == [typ |-> "none", sub |-> None, permissions |-> None]
Snapshot == [id : Admins \cup {None}, permissions : Named]
NoSnapshot == [id |-> None, permissions |-> None]

\* @RequireAdminPermissions of each admin handler; "user" is any handler of
\* StoriesController.
AdminRoutes == {"getMetrics", "listStories", "updateStatus", "deleteStory"}
Required(route) ==
    CASE route = "getMetrics" -> {"stats.read"}
      [] route = "listStories" -> {"stories.read"}
      [] route \in {"updateStatus", "deleteStory"} -> {"stories.moderate"}
      [] OTHER -> {}

Request == [pc : {"idle", "verify", "identity", "snapshot", "permissions", "handler", "refused"},
            route : AdminRoutes \cup {"user"},
            token : Token \cup {NoToken},
            snapshot : Snapshot,
            actor : Accounts \cup {None},       \* request.user or request.adminUser
            permissions : SUBSET Permissions]   \* request.adminUser.permissions

NoRequest == [pc |-> "idle", route |-> "user", token |-> NoToken, snapshot |-> NoSnapshot,
              actor |-> None, permissions |-> {}]

GuardsTypeOK ==
    /\ config \in [identity : BOOLEAN, production : BOOLEAN]
    /\ granted \in [Admins -> Named]
    /\ reqs \in [Requests -> Request]
    /\ during \in [Requests -> SUBSET SUBSET Permissions]

GuardsInit ==
    /\ config \in [identity : BOOLEAN, production : BOOLEAN]
    /\ granted = [a \in Admins |-> None]
    /\ reqs = [r \in Requests |-> NoRequest]
    /\ during = [r \in Requests |-> {}]

-----------------------------------------------------------------------------
(* The guards. *)

Become(r, request) == reqs' = [reqs EXCEPT ![r] = request]
Refuse(r) == Become(r, [reqs[r] EXCEPT !.pc = "refused"])

NamedOr(permissions, others) == IF permissions # None THEN permissions ELSE others

\* Mutant: the permissions in the token come before those Identity reports.
AdminPermissionsOfToken(token, snapshot) ==
    NamedOr(token.permissions, NamedOr(snapshot.permissions, {}))

\* request.adminUser.permissions: Identity's array, else the token's, else none.
AdminPermissionsOf(token, snapshot) ==
    NamedOr(snapshot.permissions, NamedOr(token.permissions, {}))

\* Mutant: request.adminUser is the snapshot itself.
WithAdminSnapshot(request, snapshot) ==
    [pc |-> "permissions", route |-> request.route, token |-> request.token,
     snapshot |-> snapshot, actor |-> snapshot,
     permissions |-> AdminPermissionsOf(request.token, snapshot)]

\* The request with its adminUser, from what resolveAdminSnapshot returned.
WithAdmin(request, snapshot) ==
    [pc |-> "permissions", route |-> request.route, token |-> request.token,
     snapshot |-> snapshot, actor |-> snapshot.id,
     permissions |-> AdminPermissionsOf(request.token, snapshot)]

AttachAdmin(r, snapshot) == Become(r, WithAdmin(reqs[r], snapshot))

\* Somebody calls a handler with a token.
Arrive(r, token, route) ==
    /\ reqs[r].pc = "idle"
    /\ Become(r, [pc |-> "verify", route |-> route, token |-> token,
                  snapshot |-> NoSnapshot, actor |-> None, permissions |-> {}])
    /\ UNCHANGED <<config, granted>>

\* No token, one that is forged or expired, or a payload without sub or sid.
VerifyFails(r) ==
    /\ reqs[r].pc = "verify"
    /\ Refuse(r)
    /\ UNCHANGED <<config, granted>>

\* JwtAuthGuard.canActivate
VerifyUser(r) ==
    /\ reqs[r].pc = "verify" /\ reqs[r].route = "user"
    /\ IF reqs[r].token.typ = "access"
       THEN Become(r, [reqs[r] EXCEPT !.pc = "handler", !.actor = reqs[r].token.sub])
       ELSE Refuse(r)
    /\ UNCHANGED <<config, granted>>

\* Without identity.baseUrl: the claims of the token, or in production a refusal.
WithoutIdentity(r) ==
    IF config.production THEN Refuse(r)
    ELSE AttachAdmin(r, [id |-> reqs[r].token.sub,
                         permissions |-> NamedOr(reqs[r].token.permissions, {})])

\* Mutant: in production, too, the token is enough.
VerifyAdminByToken(r) ==
    /\ reqs[r].pc = "verify" /\ reqs[r].route \in AdminRoutes
    /\ CASE reqs[r].token.typ # "admin_access" -> Refuse(r)
         [] reqs[r].token.typ = "admin_access" /\ config.identity ->
                Become(r, [reqs[r] EXCEPT !.pc = "identity"])
         [] OTHER ->
                AttachAdmin(r, [id |-> reqs[r].token.sub,
                                permissions |-> NamedOr(reqs[r].token.permissions, {})])
    /\ UNCHANGED <<config, granted>>

\* AdminJwtAuthGuard.canActivate up to the call of Identity
VerifyAdmin(r) ==
    /\ reqs[r].pc = "verify" /\ reqs[r].route \in AdminRoutes
    /\ CASE reqs[r].token.typ # "admin_access" -> Refuse(r)
         [] reqs[r].token.typ = "admin_access" /\ config.identity ->
                Become(r, [reqs[r] EXCEPT !.pc = "identity"])
         [] OTHER -> WithoutIdentity(r)
    /\ UNCHANGED <<config, granted>>

\* Identity answers for an admin who is not suspended, with or without an array
\* of permissions.  The code relies on its status, not on whose snapshot it is.
IdentityAnswers(r) ==
    /\ reqs[r].pc = "identity"
    /\ \E a \in Admins : \E permissions \in {granted[a], None} :
           /\ granted[a] # None
           /\ Become(r, [reqs[r] EXCEPT !.pc = "snapshot",
                             !.snapshot = [id |-> a, permissions |-> permissions]])
    /\ UNCHANGED <<config, granted>>

\* Mutant: the request has no timeout, and only an answer that arrived can fail.
IdentityFailsAnswered(r) ==
    /\ reqs[r].pc = "snapshot"
    /\ Refuse(r)
    /\ UNCHANGED <<config, granted>>

\* Identity refuses, is down, or has not answered within 3 s.
IdentityFails(r) ==
    /\ reqs[r].pc \in {"identity", "snapshot"}
    /\ Refuse(r)
    /\ UNCHANGED <<config, granted>>

\* Mutant: the snapshot is not compared with the token.
SnapshotOfAnybody(r) ==
    /\ reqs[r].pc = "snapshot"
    /\ AttachAdmin(r, reqs[r].snapshot)
    /\ UNCHANGED <<config, granted>>

SnapshotArrives(r) ==
    /\ reqs[r].pc = "snapshot"
    /\ IF reqs[r].snapshot.id # reqs[r].token.sub THEN Refuse(r)
       ELSE AttachAdmin(r, reqs[r].snapshot)
    /\ UNCHANGED <<config, granted>>

Suffices(permissions, route) == "*" \in permissions \/ Required(route) \subseteq permissions

\* AdminPermissionsGuard.canActivate
CheckPermissions(r) ==
    /\ reqs[r].pc = "permissions"
    /\ IF Suffices(reqs[r].permissions, reqs[r].route)
       THEN Become(r, [reqs[r] EXCEPT !.pc = "handler"])
       ELSE Refuse(r)
    /\ UNCHANGED <<config, granted>>

\* The handler runs, or the refusal is sent, and the request is over.
Finish(r) ==
    /\ reqs[r].pc \in {"handler", "refused"}
    /\ Become(r, NoRequest)
    /\ UNCHANGED <<config, granted>>

-----------------------------------------------------------------------------
(* Identity. *)

\* Permissions are granted or withdrawn; an admin is suspended or reinstated.
GrantsChange(a, permissions) ==
    /\ granted' = [granted EXCEPT ![a] = permissions]
    /\ UNCHANGED <<config, reqs>>

\* The history takes in the state each step leads to.
Observe ==
    during' = [r \in Requests |->
        IF reqs'[r].pc = "idle" THEN {}
        ELSE during[r] \cup {g \in SUBSET Permissions :
                                \E a \in Admins : a = reqs'[r].token.sub /\ g = granted'[a]}]

GuardStep(r) ==
    \/ VerifyFails(r) \/ VerifyUser(r) \/ VerifyAdmin(r)
    \/ IdentityFails(r) \/ SnapshotArrives(r) \/ CheckPermissions(r)

GuardsNext ==
    /\ \/ \E r \in Requests :
              \/ \E token \in Token, route \in AdminRoutes \cup {"user"} : Arrive(r, token, route)
              \/ GuardStep(r)
              \/ IdentityAnswers(r)
              \/ Finish(r)
       \/ \E a \in Admins, permissions \in Named : GrantsChange(a, permissions)
    /\ Observe

GuardsSpec == GuardsInit /\ [][GuardsNext]_guardVars

\* The event loop runs what is ready, and the timer of 3 s fires; Identity owes nothing.
GuardsFairSpec ==
    GuardsSpec /\ \A r \in Requests : WF_guardVars(GuardStep(r) /\ Observe)

-----------------------------------------------------------------------------
(* Properties. *)

Handling(r) == reqs[r].pc = "handler"

\* A handler acts for the bearer of the token, whatever Identity answers, and
\* the handlers of users never act for an admin, nor those of admins for a user.
ActsForBearer ==
    \A r \in Requests : Handling(r) =>
        /\ reqs[r].actor = reqs[r].token.sub
        /\ reqs[r].actor \in (IF reqs[r].route = "user" THEN Users ELSE Admins)

\* Where Identity is configured, and in production always, an admin handler runs
\* only for an admin who was not suspended at some moment of the request: a token
\* alone is not enough (AdminJwtAuthGuard.resolveAdminSnapshot).
VouchedByIdentity ==
    \A r \in Requests :
        Handling(r) /\ reqs[r].route \in AdminRoutes /\ (config.identity \/ config.production)
            => during[r] # {}

\* An admin handler runs on what was granted during the request, and not on what
\* an older token says, unless Identity did not name any permissions.
ActsOnGrant ==
    \A r \in Requests : Handling(r) /\ reqs[r].route \in AdminRoutes =>
        \E g \in (IF config.identity /\ reqs[r].snapshot.permissions # None
                  THEN during[r] ELSE {NamedOr(reqs[r].token.permissions, {})}) :
            Suffices(g, reqs[r].route)

\* Every request gets to its handler or is refused, also when Identity never
\* answers.
EveryRequestDecided ==
    \A r \in Requests : reqs[r].pc = "verify" ~> reqs[r].pc \in {"handler", "refused"}
=============================================================================
