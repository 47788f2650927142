------------------------- MODULE RequestGuardsProofs -------------------------
(***************************************************************************)
(* Proofs about RequestGuards, for any accounts, permissions and numbers   *)
(* of concurrent requests.                                                 *)
(***************************************************************************)
EXTENDS RequestGuards, TLAPS

\* What Identity has said of the bearer, once its answer is there: it is of the
\* time of the request.
Answered(q, d) ==
    /\ d # {}
    /\ q.snapshot.permissions # None => q.snapshot.permissions \in d

\* What AdminJwtAuthGuard leaves behind in the request, under configuration c.
Attached(c, q, d) ==
    /\ q.actor = q.token.sub /\ q.token.sub \in Admins
    /\ q.permissions = AdminPermissionsOf(q.token, q.snapshot)
    /\ c.identity => Answered(q, d)
    /\ ~c.identity => /\ ~c.production
                      /\ q.snapshot.permissions = NamedOr(q.token.permissions, {})

\* What a request q may rely on at each of its steps, with d its history.
Sound(c, q, d) ==
    /\ q.pc = "verify" => q.token \in Token
    /\ q.pc \in {"identity", "snapshot"} =>
           /\ q.route \in AdminRoutes /\ c.identity
           /\ q.token \in Token /\ q.token.sub \in Admins
    /\ q.pc = "snapshot" => (q.snapshot.id = q.token.sub => Answered(q, d))
    /\ q.pc = "permissions" => q.route \in AdminRoutes /\ Attached(c, q, d)
    /\ q.pc = "handler" /\ q.route = "user" => q.actor = q.token.sub /\ q.actor \in Users
    /\ q.pc = "handler" /\ q.route \in AdminRoutes =>
           Attached(c, q, d) /\ Suffices(q.permissions, q.route)

GInv == GuardsTypeOK /\ \A r \in Requests : Sound(config, reqs[r], during[r])

\* What Identity grants the bearer of a token, if it is an admin not suspended:
\* this is what each step adds to the history.
GrantsOf(granting, token) ==
    {g \in SUBSET Permissions : \E a \in Admins : a = token.sub /\ g = granting[a]}

-----------------------------------------------------------------------------
(* Facts about the records. *)

\* A token of the type of users, or of admins, has a bearer of that kind.
LEMMA TokenKinds ==
    ASSUME NEW t \in Token
    PROVE  /\ t.typ \in {"access", "admin_access"}
           /\ t.typ = "access" => t.sub \in Users
           /\ t.typ = "admin_access" => t.sub \in Admins
           /\ t.permissions \in Named
  BY SMT DEF Token, Named

\* The fields of a request are of their types.
LEMMA RequestFields ==
    ASSUME NEW q \in Request
    PROVE  /\ q.pc \in {"idle", "verify", "identity", "snapshot", "permissions", "handler", "refused"}
           /\ q.route \in AdminRoutes \cup {"user"}
           /\ q.token \in Token \cup {NoToken}
           /\ q.snapshot \in Snapshot
           /\ q.actor \in Accounts \cup {None}
           /\ q.permissions \in SUBSET Permissions
  BY SMT DEF Request

\* The request that AttachAdmin makes of one whose bearer the snapshot is about.
LEMMA AttachedFields ==
    ASSUME NEW q \in Request, q.token \in Token, q.token.sub \in Admins,
           NEW s \in Snapshot, s.id = q.token.sub
    PROVE  /\ WithAdmin(q, s) \in Request
           /\ WithAdmin(q, s).pc = "permissions" /\ WithAdmin(q, s).route = q.route
           /\ WithAdmin(q, s).token = q.token /\ WithAdmin(q, s).snapshot = s
           /\ WithAdmin(q, s).actor = q.token.sub
           /\ WithAdmin(q, s).permissions = AdminPermissionsOf(q.token, s)
  <1>1. s.permissions \in Named  BY SMT DEF Snapshot
  <1>2. q.token.permissions \in Named  BY TokenKinds
  <1>3. AdminPermissionsOf(q.token, s) \in SUBSET Permissions
    BY <1>1, <1>2 DEF AdminPermissionsOf, NamedOr, Named
  <1>4. s.id \in Accounts \cup {None}  BY DEF Accounts
  <1>5. q.route \in AdminRoutes \cup {"user"}  BY RequestFields
  <1> QED  BY <1>3, <1>4, <1>5, SMT DEF WithAdmin, Request

\* A change of pc alone leaves a request a request.
LEMMA GotoFields ==
    ASSUME NEW q \in Request, NEW where \in {"identity", "snapshot", "handler", "refused"}
    PROVE  LET new == [q EXCEPT !.pc = where]
           IN  /\ new \in Request
               /\ new.pc = where /\ new.route = q.route /\ new.token = q.token
               /\ new.snapshot = q.snapshot /\ new.actor = q.actor
               /\ new.permissions = q.permissions
  BY SMT DEF Request

\* So does a change of one other field.
LEMMA ActorFields ==
    ASSUME NEW q \in Request, NEW a \in Accounts
    PROVE  LET new == [q EXCEPT !.actor = a]
           IN  /\ new \in Request
               /\ new.pc = q.pc /\ new.route = q.route /\ new.token = q.token
               /\ new.actor = a
  BY SMT DEF Request

LEMMA SnapshotFields ==
    ASSUME NEW q \in Request, NEW s \in Snapshot
    PROVE  LET new == [q EXCEPT !.snapshot = s]
           IN  /\ new \in Request
               /\ new.pc = q.pc /\ new.route = q.route /\ new.token = q.token
               /\ new.snapshot = s
  BY SMT DEF Request

-----------------------------------------------------------------------------
(* What a step leaves as it was. *)

\* The history only grows while a request is in progress.
LEMMA SoundGrows ==
    ASSUME NEW c, NEW q, NEW d, NEW e, d \subseteq e, Sound(c, q, d)
    PROVE  Sound(c, q, e)
  BY SMT DEF Sound, Attached, Answered

\* Observe adds to the history of a request what its bearer is granted now.
LEMMA HistoryGrows ==
    ASSUME GuardsTypeOK, Observe
    PROVE  /\ during' \in [Requests -> SUBSET SUBSET Permissions]
           /\ \A r \in Requests : reqs'[r].pc # "idle" =>
                  during[r] \cup GrantsOf(granted', reqs'[r].token) \subseteq during'[r]
  BY SMT DEF GuardsTypeOK, Observe, GrantsOf

\* A step that makes q of request r preserves the invariant if q is sound with
\* what the history then holds.
LEMMA OneRequestMoves ==
    ASSUME GInv, Observe, UNCHANGED config, UNCHANGED granted,
           NEW r \in Requests, NEW q \in Request, Become(r, q),
           \A e \in SUBSET SUBSET Permissions :
               (q.pc # "idle" => during[r] \cup GrantsOf(granted, q.token) \subseteq e)
               => Sound(config, q, e)
    PROVE  GInv'
  <1> USE DEF GInv
  <1>1. reqs' \in [Requests -> Request] /\ reqs'[r] = q
        /\ \A o \in Requests \ {r} : reqs'[o] = reqs[o]
    BY SMT DEF GuardsTypeOK, Become
  <1>2. GuardsTypeOK'
    BY <1>1, HistoryGrows DEF GuardsTypeOK
  <1>3. Sound(config, reqs[r], during[r])'
    BY <1>1, HistoryGrows
  <1>4. ASSUME NEW o \in Requests \ {r} PROVE Sound(config, reqs[o], during[o])'
    <2>1. CASE reqs[o].pc = "idle"
      BY <1>1, <2>1 DEF Sound
    <2>2. CASE reqs[o].pc # "idle"
      <3>1. during[o] \subseteq during'[o]
        BY <1>1, <2>2, HistoryGrows
      <3> QED  BY <1>1, <3>1, SoundGrows
    <2> QED  BY <2>1, <2>2
  <1> QED  BY <1>2, <1>3, <1>4

\* So it does if q is refused.
LEMMA RefusePreserves ==
    ASSUME GInv, Observe, UNCHANGED config, UNCHANGED granted,
           NEW r \in Requests, Refuse(r)
    PROVE  GInv'
  <1> DEFINE q == [reqs[r] EXCEPT !.pc = "refused"]
  <1>1. q \in Request /\ q.pc = "refused"
    BY GotoFields DEF GInv, GuardsTypeOK
  <1>2. Become(r, q)  BY DEF Refuse
  <1>3. \A e : Sound(config, q, e)  BY <1>1 DEF Sound
  <1> HIDE DEF q
  <1> QED  BY <1>1, <1>2, <1>3, OneRequestMoves

\* And if q has what AdminJwtAuthGuard attaches to it.
LEMMA AttachPreserves ==
    ASSUME GInv, Observe, UNCHANGED config, UNCHANGED granted,
           NEW r \in Requests, NEW s \in Snapshot, AttachAdmin(r, s),
           reqs[r].route \in AdminRoutes, reqs[r].token \in Token,
           reqs[r].token.sub \in Admins, s.id = reqs[r].token.sub,
           config.identity => Answered(WithAdmin(reqs[r], s), during[r]),
           ~config.identity => /\ ~config.production
                               /\ s.permissions = NamedOr(reqs[r].token.permissions, {})
    PROVE  GInv'
  <1> DEFINE q == WithAdmin(reqs[r], s)
  <1>1. reqs[r] \in Request  BY DEF GInv, GuardsTypeOK
  <1>2. /\ q \in Request
        /\ q.pc = "permissions" /\ q.route = reqs[r].route /\ q.token = reqs[r].token
        /\ q.snapshot = s /\ q.actor = reqs[r].token.sub
        /\ q.permissions = AdminPermissionsOf(reqs[r].token, s)
    BY <1>1, AttachedFields
  <1>3. Become(r, q)  BY DEF AttachAdmin
  <1>4. config.identity => Answered(q, during[r])  OBVIOUS
  <1> HIDE DEF q
  <1>5. Sound(config, q, during[r])
    BY <1>2, <1>4 DEF Sound, Attached
  <1>6. \A e : during[r] \subseteq e => Sound(config, q, e)
    BY <1>5, SoundGrows
  <1> QED  BY <1>2, <1>3, <1>6, OneRequestMoves

-----------------------------------------------------------------------------
(* The invariant. *)

LEMMA InitGInv == GuardsInit => GInv
  <1> SUFFICES ASSUME GuardsInit PROVE GInv  OBVIOUS
  <1>1. NoRequest \in Request /\ NoRequest.pc = "idle"
    BY SMT DEF NoRequest, Request, NoSnapshot, Snapshot, Named
  <1>2. GuardsTypeOK
    BY <1>1, SMT DEF GuardsInit, GuardsTypeOK, Named
  <1>3. \A r \in Requests : Sound(config, reqs[r], during[r])
    BY <1>1 DEF GuardsInit, Sound
  <1> QED  BY <1>2, <1>3 DEF GInv

\* A request begins, and ends, with nothing to rely on but its token.
LEMMA RequestBoundsGInv ==
    ASSUME GInv, Observe, NEW r \in Requests
    PROVE  /\ \A token \in Token, route \in AdminRoutes \cup {"user"} :
                  Arrive(r, token, route) => GInv'
           /\ Finish(r) => GInv'
  <1>1. NoRequest \in Request /\ NoRequest.pc = "idle"
    BY SMT DEF NoRequest, Request, NoSnapshot, Snapshot, Named
  <1>2. ASSUME NEW token \in Token, NEW route \in AdminRoutes \cup {"user"},
               Arrive(r, token, route)
        PROVE  GInv'
    <2> DEFINE q == [pc |-> "verify", route |-> route, token |-> token,
                     snapshot |-> NoSnapshot, actor |-> None, permissions |-> {}]
    <2>1. q \in Request /\ q.pc = "verify" /\ q.token = token
      <3>1. NoSnapshot \in Snapshot  BY SMT DEF NoSnapshot, Snapshot, Named
      <3> QED  BY <3>1, SMT DEF Request
    <2>2. Become(r, q) /\ UNCHANGED <<config, granted>>
      BY <1>2 DEF Arrive
    <2> HIDE DEF q
    <2>3. \A e : Sound(config, q, e)  BY <2>1 DEF Sound
    <2> QED  BY <2>1, <2>2, <2>3, OneRequestMoves
  <1>3. ASSUME Finish(r) PROVE GInv'
    <2>1. \A e : Sound(config, NoRequest, e)  BY <1>1 DEF Sound
    <2> QED  BY <1>1, <1>3, <2>1, OneRequestMoves DEF Finish
  <1> QED  BY <1>2, <1>3

\* JwtAuthGuard lets a token of type access through to a handler of users.
LEMMA VerifyUserGInv ==
    ASSUME GInv, Observe, NEW r \in Requests, VerifyUser(r)
    PROVE  GInv'
  <1>1. UNCHANGED config /\ UNCHANGED granted  BY DEF VerifyUser
  <1>2. reqs[r] \in Request /\ reqs[r].token \in Token
    BY DEF GInv, GuardsTypeOK, VerifyUser, Sound
  <1>3. CASE reqs[r].token.typ = "access"
    <2> DEFINE q == [reqs[r] EXCEPT !.pc = "handler", !.actor = reqs[r].token.sub]
    <2>1. reqs[r].token.sub \in Users  BY <1>2, <1>3, TokenKinds
    <2>2. /\ q \in Request /\ q.pc = "handler" /\ q.route = reqs[r].route
          /\ q.token = reqs[r].token /\ q.actor = reqs[r].token.sub
      <3> DEFINE x == [reqs[r] EXCEPT !.pc = "handler"]
      <3>1. /\ x \in Request /\ x.pc = "handler" /\ x.route = reqs[r].route
            /\ x.token = reqs[r].token
        BY <1>2, GotoFields
      <3>2. q = [x EXCEPT !.actor = reqs[r].token.sub]  OBVIOUS
      <3> HIDE DEF x, q
      <3> QED  BY <2>1, <3>1, <3>2, ActorFields DEF Accounts
    <2>4. Become(r, q) /\ reqs[r].route = "user"
      BY <1>3 DEF VerifyUser
    <2> HIDE DEF q
    <2>5. \A e : Sound(config, q, e)
      BY <2>1, <2>2, <2>4 DEF Sound, AdminRoutes
    <2> QED  BY <1>1, <2>2, <2>4, <2>5, OneRequestMoves
  <1>4. CASE reqs[r].token.typ # "access"
    BY <1>1, <1>4, RefusePreserves DEF VerifyUser
  <1> QED  BY <1>3, <1>4

\* AdminJwtAuthGuard goes on to Identity, or, without one, to the claims of the
\* token outside production.
LEMMA VerifyAdminGInv ==
    ASSUME GInv, Observe, NEW r \in Requests, VerifyAdmin(r)
    PROVE  GInv'
  <1>1. UNCHANGED config /\ UNCHANGED granted  BY DEF VerifyAdmin
  <1>2. /\ reqs[r] \in Request /\ reqs[r].token \in Token
        /\ reqs[r].route \in AdminRoutes
    BY DEF GInv, GuardsTypeOK, VerifyAdmin, Sound
  <1>3. CASE Refuse(r)
    BY <1>1, <1>3, RefusePreserves
  <1>4. CASE /\ reqs[r].token.typ = "admin_access" /\ config.identity
             /\ Become(r, [reqs[r] EXCEPT !.pc = "identity"])
    <2> DEFINE q == [reqs[r] EXCEPT !.pc = "identity"]
    <2>1. /\ q \in Request /\ q.pc = "identity" /\ q.route = reqs[r].route
          /\ q.token = reqs[r].token
      BY <1>2, GotoFields
    <2>2. Become(r, q)  BY <1>4
    <2> HIDE DEF q
    <2>3. \A e : Sound(config, q, e)
      BY <1>2, <1>4, <2>1, TokenKinds DEF Sound
    <2> QED  BY <1>1, <2>1, <2>2, <2>3, OneRequestMoves
  <1>5. CASE /\ reqs[r].token.typ = "admin_access" /\ ~config.identity
             /\ ~config.production
             /\ AttachAdmin(r, [id |-> reqs[r].token.sub,
                                permissions |-> NamedOr(reqs[r].token.permissions, {})])
    <2> DEFINE s == [id |-> reqs[r].token.sub,
                     permissions |-> NamedOr(reqs[r].token.permissions, {})]
    <2>1. reqs[r].token.sub \in Admins /\ reqs[r].token.permissions \in Named
      BY <1>2, <1>5, TokenKinds
    <2>2. NamedOr(reqs[r].token.permissions, {}) \in Named
      BY <2>1 DEF NamedOr, Named
    <2>3. s \in Snapshot /\ s.id = reqs[r].token.sub
          /\ s.permissions = NamedOr(reqs[r].token.permissions, {})
      BY <2>1, <2>2, SMT DEF Snapshot
    <2>4. AttachAdmin(r, s)  BY <1>5
    <2> HIDE DEF s
    <2> QED  BY <1>1, <1>2, <1>5, <2>1, <2>3, <2>4, AttachPreserves
  <1>6. config.identity \in BOOLEAN /\ config.production \in BOOLEAN
    BY SMT DEF GInv, GuardsTypeOK
  <1>7. reqs[r].token.typ # "admin_access" => Refuse(r)
    BY DEF VerifyAdmin
  <1>8. reqs[r].token.typ = "admin_access" /\ config.identity
            => Become(r, [reqs[r] EXCEPT !.pc = "identity"])
    BY DEF VerifyAdmin
  <1>9. reqs[r].token.typ = "admin_access" /\ ~config.identity => WithoutIdentity(r)
    BY DEF VerifyAdmin
  <1> QED  BY <1>3, <1>4, <1>5, <1>7, <1>8, <1>9 DEF WithoutIdentity

\* Identity's answer is of the time of the request, and what it names of the
\* bearer is what the bearer is granted at that moment.
LEMMA IdentityAnswersGInv ==
    ASSUME GInv, Observe, NEW r \in Requests, IdentityAnswers(r)
    PROVE  GInv'
  <1>1. UNCHANGED config /\ UNCHANGED granted  BY DEF IdentityAnswers
  <1>a. PICK a \in Admins : \E permissions \in {granted[a], None} :
            /\ granted[a] # None
            /\ Become(r, [reqs[r] EXCEPT !.pc = "snapshot",
                              !.snapshot = [id |-> a, permissions |-> permissions]])
    BY DEF IdentityAnswers
  <1>2. PICK permissions \in {granted[a], None} :
            /\ granted[a] # None
            /\ Become(r, [reqs[r] EXCEPT !.pc = "snapshot",
                              !.snapshot = [id |-> a, permissions |-> permissions]])
    BY <1>a
  <1>3. /\ reqs[r] \in Request /\ reqs[r].token \in Token /\ reqs[r].token.sub \in Admins
        /\ reqs[r].route \in AdminRoutes /\ config.identity
    BY DEF GInv, GuardsTypeOK, IdentityAnswers, Sound
  <1>4. granted[a] \in SUBSET Permissions
    BY <1>2, SMT DEF GInv, GuardsTypeOK, Named
  <1> DEFINE s == [id |-> a, permissions |-> permissions]
             q == [reqs[r] EXCEPT !.pc = "snapshot", !.snapshot = s]
             x == [reqs[r] EXCEPT !.pc = "snapshot"]
  <1>5. s \in Snapshot /\ s.id = a /\ s.permissions = permissions
    BY <1>4, SMT DEF Snapshot, Named
  <1>6. /\ x \in Request /\ x.pc = "snapshot" /\ x.route = reqs[r].route
        /\ x.token = reqs[r].token
    BY <1>3, GotoFields
  <1>7. q = [x EXCEPT !.snapshot = s] /\ Become(r, q)
    BY <1>2
  <1> HIDE DEF s, q, x
  <1>8. /\ q \in Request /\ q.pc = "snapshot" /\ q.route = reqs[r].route
        /\ q.token = reqs[r].token /\ q.snapshot = s
    BY <1>5, <1>6, <1>7, SnapshotFields
  <1>9. ASSUME NEW e \in SUBSET SUBSET Permissions,
               during[r] \cup GrantsOf(granted, q.token) \subseteq e
        PROVE  Sound(config, q, e)
    <2>1. s.id = q.token.sub => granted[a] \in e
      BY <1>4, <1>5, <1>8, <1>9 DEF GrantsOf
    <2>2. s.id = q.token.sub => Answered(q, e)
      BY <1>2, <1>5, <1>8, <2>1 DEF Answered
    <2> QED  BY <1>3, <1>8, <2>2 DEF Sound
  <1> QED  BY <1>1, <1>7, <1>8, <1>9, OneRequestMoves

\* The answer is attached only if it is about the bearer of the token.
LEMMA SnapshotArrivesGInv ==
    ASSUME GInv, Observe, NEW r \in Requests, SnapshotArrives(r)
    PROVE  GInv'
  <1>1. UNCHANGED config /\ UNCHANGED granted  BY DEF SnapshotArrives
  <1>2. /\ reqs[r] \in Request /\ reqs[r].token \in Token /\ reqs[r].token.sub \in Admins
        /\ reqs[r].route \in AdminRoutes /\ config.identity
        /\ reqs[r].snapshot.id = reqs[r].token.sub => Answered(reqs[r], during[r])
    BY DEF GInv, GuardsTypeOK, SnapshotArrives, Sound
  <1>3. CASE reqs[r].snapshot.id # reqs[r].token.sub
    BY <1>1, <1>3, RefusePreserves DEF SnapshotArrives
  <1>4. CASE reqs[r].snapshot.id = reqs[r].token.sub
    <2>1. reqs[r].snapshot \in Snapshot  BY <1>2, RequestFields
    <2>2. WithAdmin(reqs[r], reqs[r].snapshot).snapshot = reqs[r].snapshot
      BY <1>2, <1>4, <2>1, AttachedFields
    <2>3. Answered(WithAdmin(reqs[r], reqs[r].snapshot), during[r])
      BY <1>2, <1>4, <2>2 DEF Answered
    <2> QED  BY <1>1, <1>2, <1>4, <2>1, <2>3, AttachPreserves DEF SnapshotArrives
  <1> QED  BY <1>3, <1>4

\* AdminPermissionsGuard lets through whom the permissions suffice for.
LEMMA CheckPermissionsGInv ==
    ASSUME GInv, Observe, NEW r \in Requests, CheckPermissions(r)
    PROVE  GInv'
  <1>1. UNCHANGED config /\ UNCHANGED granted  BY DEF CheckPermissions
  <1>2. /\ reqs[r] \in Request /\ reqs[r].route \in AdminRoutes
        /\ Attached(config, reqs[r], during[r])
    BY DEF GInv, GuardsTypeOK, CheckPermissions, Sound
  <1>3. CASE Suffices(reqs[r].permissions, reqs[r].route)
    <2> DEFINE q == [reqs[r] EXCEPT !.pc = "handler"]
    <2>1. /\ q \in Request /\ q.pc = "handler" /\ q.route = reqs[r].route
          /\ q.token = reqs[r].token /\ q.snapshot = reqs[r].snapshot
          /\ q.actor = reqs[r].actor /\ q.permissions = reqs[r].permissions
      BY <1>2, GotoFields
    <2>2. Become(r, q)  BY <1>3 DEF CheckPermissions
    <2> HIDE DEF q
    <2>3. Attached(config, q, during[r])
      BY <1>2, <2>1 DEF Attached, Answered
    <2>4. Sound(config, q, during[r])
      BY <1>2, <1>3, <2>1, <2>3 DEF Sound, AdminRoutes
    <2>5. \A e : during[r] \subseteq e => Sound(config, q, e)
      BY <2>4, SoundGrows
    <2> QED  BY <1>1, <2>1, <2>2, <2>5, OneRequestMoves
  <1>4. CASE ~Suffices(reqs[r].permissions, reqs[r].route)
    BY <1>1, <1>4, RefusePreserves DEF CheckPermissions
  <1> QED  BY <1>3, <1>4

\* What Identity grants may change at any time: no request loses what it had.
LEMMA GrantsChangeGInv ==
    ASSUME GInv, Observe, NEW a \in Admins, NEW permissions \in Named,
           GrantsChange(a, permissions)
    PROVE  GInv'
  <1>1. GuardsTypeOK /\ UNCHANGED <<config, reqs>>
    BY DEF GInv, GrantsChange
  <1>2. granted' \in [Admins -> Named]
    BY <1>1, SMT DEF GrantsChange, GuardsTypeOK
  <1>3. GuardsTypeOK'
    BY <1>1, <1>2, HistoryGrows DEF GuardsTypeOK
  <1>4. ASSUME NEW r \in Requests PROVE Sound(config, reqs[r], during[r])'
    <2>1. CASE reqs[r].pc = "idle"
      BY <1>1, <2>1 DEF Sound
    <2>2. CASE reqs[r].pc # "idle"
      <3>1. during[r] \subseteq during'[r]
        BY <1>1, <2>2, HistoryGrows
      <3> QED  BY <1>1, <3>1, SoundGrows DEF GInv
    <2> QED  BY <2>1, <2>2
  <1> QED  BY <1>3, <1>4 DEF GInv

LEMMA NextGInv == GInv /\ [GuardsNext]_guardVars => GInv'
  <1>1. ASSUME GInv, GuardsNext PROVE GInv'
    <2>1. Observe  BY <1>1 DEF GuardsNext
    <2>2. ASSUME NEW r \in Requests, VerifyFails(r) \/ IdentityFails(r) PROVE GInv'
      BY <1>1, <2>1, <2>2, RefusePreserves DEF VerifyFails, IdentityFails
    <2>3. ASSUME NEW r \in Requests, GuardStep(r) PROVE GInv'
      BY <1>1, <2>1, <2>2, <2>3, VerifyUserGInv, VerifyAdminGInv, SnapshotArrivesGInv,
         CheckPermissionsGInv DEF GuardStep
    <2> QED  BY <1>1, <2>1, <2>3, RequestBoundsGInv, IdentityAnswersGInv,
                GrantsChangeGInv DEF GuardsNext
  <1>2. ASSUME GInv, UNCHANGED guardVars PROVE GInv'
    BY <1>2, SMT DEF guardVars, GInv, GuardsTypeOK
  <1> QED  BY <1>1, <1>2

-----------------------------------------------------------------------------
(* The theorems. *)

\* GInv holds of every reachable state.
THEOREM GuardsInvariance == GuardsSpec => []GInv
  BY InitGInv, NextGInv, PTL DEF GuardsSpec

\* The state of every request stays well formed.
THEOREM GuardsTypeCorrect == GuardsSpec => []GuardsTypeOK
  <1>1. GInv => GuardsTypeOK  BY DEF GInv
  <1> QED  BY <1>1, GuardsInvariance, PTL

\* Handlers act for the bearer of the token, and keep users and admins apart
\* (JwtAuthGuard and AdminJwtAuthGuard.canActivate).
THEOREM HandlersActForBearer == GuardsSpec => []ActsForBearer
  <1>1. GInv => ActsForBearer
    BY RequestFields DEF GInv, GuardsTypeOK, Sound, Attached, ActsForBearer, Handling
  <1> QED  BY <1>1, GuardsInvariance, PTL

\* With Identity configured, or in production, no admin handler runs for an admin
\* who was suspended all through the request (resolveAdminSnapshot).
THEOREM AdminsAreVouchedFor == GuardsSpec => []VouchedByIdentity
  <1>1. GInv => VouchedByIdentity
    BY SMT DEF GInv, Sound, Attached, Answered, VouchedByIdentity, Handling
  <1> QED  BY <1>1, GuardsInvariance, PTL

\* No admin handler runs on permissions that only an old token names, while
\* Identity names others (AdminJwtAuthGuard with AdminPermissionsGuard).
THEOREM AdminsActOnGrants == GuardsSpec => []ActsOnGrant
  <1>1. ASSUME GInv, NEW r \in Requests, Handling(r), reqs[r].route \in AdminRoutes
        PROVE  \E g \in (IF config.identity /\ reqs[r].snapshot.permissions # None
                         THEN during[r] ELSE {NamedOr(reqs[r].token.permissions, {})}) :
                   Suffices(g, reqs[r].route)
    <2>1. /\ Attached(config, reqs[r], during[r])
          /\ Suffices(reqs[r].permissions, reqs[r].route)
      BY <1>1 DEF GInv, Sound, Handling
    <2>2. CASE config.identity /\ reqs[r].snapshot.permissions # None
      <3>1. reqs[r].permissions = reqs[r].snapshot.permissions
        BY <2>1, <2>2 DEF Attached, AdminPermissionsOf, NamedOr
      <3> QED  BY <2>1, <2>2, <3>1 DEF Attached, Answered
    <2>3. CASE ~(config.identity /\ reqs[r].snapshot.permissions # None)
      <3>1. reqs[r].permissions = NamedOr(reqs[r].token.permissions, {})
        BY <2>1, <2>3 DEF Attached, AdminPermissionsOf, NamedOr
      <3> QED  BY <2>1, <2>3, <3>1
    <2> QED  BY <2>2, <2>3
  <1>2. GInv => ActsOnGrant  BY <1>1 DEF ActsOnGrant
  <1> QED  BY <1>2, GuardsInvariance, PTL
=============================================================================
