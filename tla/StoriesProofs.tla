--------------------------- MODULE StoriesProofs ---------------------------
(***************************************************************************)
(* Proofs about Stories, for any users, uploads, rows, requests and ages:  *)
(* its invariants, and that it implements StoryLifecycle.                  *)
(***************************************************************************)
EXTENDS Stories, TLAPS

(***************************************************************************)
(* The inductive invariant: what is true of the rows, and of what every    *)
(* handler in progress remembers of them.                                  *)
(***************************************************************************)

\* A row that exists has an owner and a key.
RowsOK ==
    \A s \in StoryIds : Exists(s) => rows[s].owner \in Users /\ rows[s].key \in Keys

DataOK == RowsOK /\ OneStoryPerUpload /\ ActiveNeverRejected /\ LiveMediaExists

\* What handler state q knows of a table t and a bucket o.  Past the sweep a
\* confirmation has passed assertStoryOwnership; past ensureObjectExists the
\* object is there, or it has become a story's and was removed with it; a
\* deletion knows the key of its row; an admin's ACTIVE goes with APPROVED.
KeyKept(k, t, o) == k \in o \/ \E s \in StoryIds : t[s].status # "ABSENT" /\ t[s].key = k

RequestOK(q, t, o) ==
    /\ q.op = "confirm" => q.actor \in Users /\ q.key \in Keys
    /\ q.pc \in {"head", "lookup", "create", "sign"} =>
           q.actor \in Users /\ q.key \in Keys /\ KeyOwner[q.key] = q.actor
    /\ q.pc \in {"lookup", "create"} => KeyKept(q.key, t, o)
    /\ q.due \subseteq {s \in StoryIds : t[s].status # "ABSENT"}
    /\ q.pc \in {"find", "mark", "cleanup", "write", "sign"} =>
           q.id \in StoryIds /\ t[q.id].status # "ABSENT"
    /\ q.pc \in {"mark", "cleanup"} => q.key = t[q.id].key
    /\ q.pc = "cleanup" => t[q.id].deleted
    /\ q.op = "adminStatus" => q.status \in StoryStatus
    /\ q.pc = "write" => /\ q.op = "adminStatus"
                         /\ q.status = "ACTIVE" => q.moderation = "APPROVED"

RequestsOK == \A h \in Handlers : RequestOK(reqs[h], rows, objects)

\* What the moderation m of story s knows.
ModerationOK(s, m, t) ==
    /\ m.pc # "none" => t[s].status # "ABSENT"
    /\ m.pc \in {"analyze", "write"} => m.status \in StoryStatus
    /\ m.pc = "write" => (m.status = "ACTIVE" => m.moderation = "APPROVED")

ModerationsOK == \A s \in StoryIds : ModerationOK(s, mods[s], rows)

IInv == TypeOK /\ DataOK /\ RequestsOK /\ ModerationsOK

-----------------------------------------------------------------------------
(* Records. *)

\* A handler that does nothing is well formed and remembers nothing.
LEMMA IdleType == Idle \in Request /\ \A t, o : RequestOK(Idle, t, o)
<1>1. Idle \in Request
  BY DEF Idle, Request, AllOps, StoryModerationStatus
<1>2. ASSUME NEW t, NEW o PROVE RequestOK(Idle, t, o)
  BY DEF Idle, RequestOK
<1>3. QED BY <1>1, <1>2

\* So is a moderation that has not started.
LEMMA NotStartedType == NotStarted \in ModerationRun
  BY DEF NotStarted, ModerationRun, StoryModerationStatus

\* So is an id without a row.
LEMMA NoRowType == NoRow \in Row
  BY StoriesAssumption DEF NoRow, Row, StoryModerationStatus

\* The empty service satisfies the invariant.
LEMMA InitIInv == Init => IInv
<1> SUFFICES ASSUME Init PROVE IInv
    OBVIOUS
<1>1. TypeOK
  BY IdleType, NotStartedType, NoRowType DEF Init, TypeOK
<1>2. \A s \in StoryIds : ~Exists(s) /\ rows[s].status # "ACTIVE"
  BY DEF Init, Exists, NoRow
<1>3. DataOK
  BY <1>2 DEF DataOK, RowsOK, OneStoryPerUpload, ActiveNeverRejected, LiveMediaExists
<1>4. RequestsOK
  BY IdleType DEF Init, RequestsOK
<1>5. ModerationsOK
  BY DEF Init, ModerationsOK, ModerationOK, NotStarted
<1>6. QED
  BY <1>1, <1>3, <1>4, <1>5 DEF IInv

-----------------------------------------------------------------------------
(* Whatever a step does, rows keep their owner, their key and their deletion, *)
(* and an object goes only once its key is some story's: what a handler knows *)
(* stays true while other handlers move.                                      *)

Kept ==
    /\ \A s \in StoryIds : Exists(s) =>
           /\ Exists(s)' /\ rows'[s].key = rows[s].key /\ rows'[s].owner = rows[s].owner
           /\ rows[s].deleted => rows'[s].deleted
    /\ \A k \in objects : KeyKept(k, rows', objects')

\* What a handler knows of the table and the bucket survives a step that keeps both.
LEMMA RequestKept ==
  ASSUME Kept, NEW q, RequestOK(q, rows, objects)
  PROVE  RequestOK(q, rows', objects')
  BY DEF Kept, RequestOK, KeyKept, Exists

\* One handler moves to a well-formed state: all handlers are well formed.
LEMMA HandlerMoves ==
  ASSUME IInv, Kept, NEW h \in Handlers, NEW q \in Request, Become(h, q),
         RequestOK(q, rows', objects')
  PROVE  reqs' \in [Handlers -> Request] /\ RequestsOK'
<1>1. reqs \in [Handlers -> Request]
  BY DEF IInv, TypeOK
<1>2. reqs' = [reqs EXCEPT ![h] = q]
  BY DEF Become
<1>3. reqs' \in [Handlers -> Request]
  BY <1>1, <1>2
<1>4. ASSUME NEW g \in Handlers PROVE RequestOK(reqs'[g], rows', objects')
  <2>1. CASE g = h
    BY <1>1, <1>2, <2>1
  <2>2. CASE g # h
    <3>1. reqs'[g] = reqs[g]
      BY <1>1, <1>2, <2>2
    <3>2. RequestOK(reqs[g], rows, objects)
      BY DEF IInv, RequestsOK
    <3>3. QED BY <3>1, <3>2, RequestKept
  <2>3. QED BY <2>1, <2>2
<1>5. QED BY <1>3, <1>4 DEF RequestsOK

\* No handler moves: all handlers are well formed.
LEMMA HandlersStay ==
  ASSUME IInv, Kept, UNCHANGED reqs
  PROVE  reqs' \in [Handlers -> Request] /\ RequestsOK'
  BY RequestKept DEF IInv, TypeOK, RequestsOK

\* One moderation moves to a well-formed state: all moderations are well formed.
LEMMA ModerationMoves ==
  ASSUME IInv, Kept, NEW s \in StoryIds, NEW m \in ModerationRun, Moderate(s, m),
         ModerationOK(s, m, rows')
  PROVE  mods' \in [StoryIds -> ModerationRun] /\ ModerationsOK'
<1>1. mods \in [StoryIds -> ModerationRun]
  BY DEF IInv, TypeOK
<1>2. mods' = [mods EXCEPT ![s] = m]
  BY DEF Moderate
<1>3. mods' \in [StoryIds -> ModerationRun]
  BY <1>1, <1>2
<1>4. ASSUME NEW t \in StoryIds PROVE ModerationOK(t, mods'[t], rows')
  <2>1. CASE t = s
    BY <1>1, <1>2, <2>1
  <2>2. CASE t # s
    <3>1. mods'[t] = mods[t]
      BY <1>1, <1>2, <2>2
    <3>2. QED BY <3>1 DEF IInv, ModerationsOK, ModerationOK, Kept, Exists
  <2>3. QED BY <2>1, <2>2
<1>5. QED BY <1>3, <1>4 DEF ModerationsOK

\* No moderation moves: all moderations are well formed.
LEMMA ModerationsStay ==
  ASSUME IInv, Kept, UNCHANGED mods
  PROVE  mods' \in [StoryIds -> ModerationRun] /\ ModerationsOK'
  BY DEF IInv, TypeOK, ModerationsOK, ModerationOK, Kept, Exists

\* The table stays, and objects may be added.
LEMMA TableStays ==
  ASSUME IInv, UNCHANGED rows, objects \subseteq objects', objects' \subseteq Keys
  PROVE  /\ rows' \in [StoryIds -> Row] /\ objects' \subseteq Keys
         /\ DataOK' /\ Kept
  BY DEF IInv, TypeOK, DataOK, RowsOK, OneStoryPerUpload, ActiveNeverRejected, LiveMediaExists,
         Kept, KeyKept, Exists

\* One row is written, by id.
LEMMA RowWritten ==
  ASSUME IInv, NEW s \in StoryIds, Exists(s), NEW row \in Row, Write(s, row), UNCHANGED objects,
         row.owner = rows[s].owner, row.key = rows[s].key, rows[s].deleted => row.deleted,
         row.status # "ABSENT",
         row.status = "ACTIVE" => row.moderation \notin {"NEEDS_REVIEW", "BLOCKED"}
  PROVE  /\ rows' \in [StoryIds -> Row] /\ objects' \subseteq Keys
         /\ DataOK' /\ Kept
<1> DEFINE new == [row EXCEPT !.idle = 0]
<1>1. /\ new \in Row /\ new.owner = row.owner /\ new.key = row.key /\ new.deleted = row.deleted
      /\ new.status = row.status /\ new.moderation = row.moderation
  BY StoriesAssumption DEF Row
<1>2. rows \in [StoryIds -> Row] /\ objects \subseteq Keys
  BY DEF IInv, TypeOK
<1>3. rows' = [rows EXCEPT ![s] = new]
  BY DEF Write
<1> HIDE DEF new
<1>4. rows' \in [StoryIds -> Row] /\ objects' \subseteq Keys
  BY <1>1, <1>2, <1>3
<1>5. rows'[s] = new /\ \A t \in StoryIds \ {s} : rows'[t] = rows[t]
  BY <1>2, <1>3
<1>6. \A t \in StoryIds : /\ Exists(t)' <=> Exists(t)
                          /\ rows'[t].owner = rows[t].owner /\ rows'[t].key = rows[t].key
                          /\ rows[t].deleted => rows'[t].deleted
  BY <1>1, <1>5 DEF Exists
<1>7. ActiveNeverRejected'
  BY <1>1, <1>5 DEF IInv, DataOK, ActiveNeverRejected
<1>8. RowsOK' /\ OneStoryPerUpload'
  BY <1>6 DEF IInv, DataOK, RowsOK, OneStoryPerUpload
<1>9. LiveMediaExists'
  <2>1. ASSUME NEW t \in StoryIds, Exists(t)', ~rows'[t].deleted PROVE rows'[t].key \in objects'
    BY <1>6, <2>1 DEF IInv, DataOK, LiveMediaExists
  <2>2. QED BY <2>1 DEF LiveMediaExists
<1>10. Kept
  BY <1>6 DEF Kept, KeyKept, Exists
<1>11. QED BY <1>4, <1>7, <1>8, <1>9, <1>10 DEF DataOK

-----------------------------------------------------------------------------
(* One lemma per group of actions.  In each, a step shows that the state the   *)
(* handler goes on with is well typed and knows what it must, and the lemmas   *)
(* above do the rest.                                                          *)

\* An upload keeps the invariant.
LEMMA UploadStep ==
  ASSUME IInv, NEW k \in Keys, Upload(k)
  PROVE  IInv'
<1>1. /\ rows' \in [StoryIds -> Row] /\ objects' \subseteq Keys
      /\ DataOK' /\ Kept
  BY TableStays DEF Upload, IInv, TypeOK
<1>2. QED
  BY <1>1, HandlersStay, ModerationsStay DEF Upload, IInv, TypeOK

\* A request alone moves: from the well-formed q it moves to, all follows.
LEMMA RequestAloneMoves ==
  ASSUME IInv, NEW h \in Handlers, NEW q \in Request, Become(h, q),
         UNCHANGED <<rows, objects, mods, events>>, RequestOK(q, rows, objects)
  PROVE  IInv'
<1>1. /\ rows' \in [StoryIds -> Row] /\ objects' \subseteq Keys
      /\ DataOK' /\ Kept
  BY TableStays DEF IInv, TypeOK
<1>2. RequestOK(q, rows', objects')
  OBVIOUS
<1>3. QED
  BY <1>1, <1>2, HandlerMoves, ModerationsStay DEF IInv, TypeOK

\* Answering or abandoning a request keeps the invariant.
LEMMA Answered ==
  ASSUME IInv, NEW h \in Handlers, Answer(h), UNCHANGED <<rows, objects, mods, events>>
  PROVE  IInv'
  BY RequestAloneMoves, IdleType DEF Answer

\* What the invariant says of one handler.
LEMMA RequestType ==
  ASSUME IInv, NEW h \in Handlers
  PROVE  reqs[h] \in Request /\ RequestOK(reqs[h], rows, objects)
  BY DEF IInv, TypeOK, RequestsOK

\* A confirmation that comes in keeps the invariant.
LEMMA StartConfirmStep ==
  ASSUME IInv, NEW r \in Requests, NEW u \in Users, NEW k \in Keys, StartConfirm(r, u, k)
  PROVE  IInv'
<1> DEFINE q == [Idle EXCEPT !.op = "confirm", !.pc = "sweep", !.actor = u, !.key = k]
<1>1. q \in Request
  BY IdleType DEF Request, AllOps
<1>2. RequestOK(q, rows, objects)
  BY DEF RequestOK, Idle
<1>3. Become(r, q) /\ UNCHANGED <<rows, objects, mods, events>>
  BY DEF StartConfirm
<1> HIDE DEF q
<1>4. QED
  BY <1>1, <1>2, <1>3, RequestAloneMoves DEF Handlers

\* So does a call that names an existing story.
LEMMA StartOnStoryStep ==
  ASSUME IInv, NEW r \in Requests, NEW op \in {"remove", "adminStatus", "adminDelete"},
         NEW u \in Users \cup {None}, NEW s \in StoryIds, Exists(s),
         NEW status \in StoryStatus \cup {"ABSENT"}, op = "adminStatus" => status \in StoryStatus,
         StartOnStory(r, op, u, s, status)
  PROVE  IInv'
<1> DEFINE q == [Idle EXCEPT !.op = op, !.pc = "find", !.actor = u, !.id = s, !.status = status]
<1>1. q \in Request
  BY IdleType DEF Request, AllOps
<1>2. RequestOK(q, rows, objects)
  BY DEF RequestOK, Idle, Exists
<1>3. Become(r, q) /\ UNCHANGED <<rows, objects, mods, events>>
  BY DEF StartOnStory
<1> HIDE DEF q
<1>4. QED
  BY <1>1, <1>2, <1>3, RequestAloneMoves DEF Handlers

\* So does any request that comes in.
LEMMA StartStep ==
  ASSUME IInv, NEW r \in Requests, RequestStarts(r)
  PROVE  IInv'
<1>1. ASSUME NEW u \in Users, NEW k \in Keys, StartConfirm(r, u, k) PROVE IInv'
  BY <1>1, StartConfirmStep
<1>2. ASSUME NEW u \in Users, NEW s \in StoryIds, StartRemove(r, u, s) PROVE IInv'
  BY <1>2, StartOnStoryStep DEF StartRemove
<1>3. ASSUME NEW s \in StoryIds, StartAdminDelete(r, s) PROVE IInv'
  BY <1>3, StartOnStoryStep DEF StartAdminDelete
<1>4. ASSUME NEW s \in StoryIds, NEW status \in AdminStatuses, StartAdminStatus(r, s, status) PROVE IInv'
  BY <1>4, StoriesAssumption, StartOnStoryStep DEF StartAdminStatus
<1>5. QED
  BY <1>1, <1>2, <1>3, <1>4 DEF RequestStarts

-----------------------------------------------------------------------------
(* The sweep. *)

\* The handler that AfterSweep goes on with is well formed: ownership has been checked.
LEMMA AfterSweepType ==
  ASSUME IInv, NEW h \in Handlers, AfterSweep(h), NEW t, NEW o
  PROVE  \E q \in Request : Become(h, q) /\ RequestOK(q, t, o)
<1>1. CASE reqs[h].op = "confirm" /\ KeyOwner[reqs[h].key] = reqs[h].actor
  <2> DEFINE q == [reqs[h] EXCEPT !.pc = "head", !.due = {}]
  <2>1. q \in Request
    BY RequestType DEF Request
  <2>2. RequestOK(q, t, o)
    BY <1>1, RequestType DEF RequestOK, Request
  <2>3. Become(h, q)
    BY <1>1 DEF AfterSweep
  <2>4. QED BY <2>1, <2>2, <2>3
<1>2. CASE ~(reqs[h].op = "confirm" /\ KeyOwner[reqs[h].key] = reqs[h].actor)
  BY <1>2, IdleType DEF AfterSweep, Answer
<1>3. QED BY <1>1, <1>2

\* The find of the sweep keeps the invariant.
LEMMA SweepFindManyStep ==
  ASSUME IInv, NEW h \in Handlers, SweepFindMany(h)
  PROVE  IInv'
<1> DEFINE due == {s \in StoryIds : Due(rows[s])}
<1>1. CASE due = {}
  BY <1>1, AfterSweepType, RequestAloneMoves DEF SweepFindMany
<1>2. CASE due # {}
  <2> DEFINE q == [reqs[h] EXCEPT !.pc = "expire", !.due = due]
  <2>1. q \in Request
    BY RequestType DEF Request
  <2>2. RequestOK(q, rows, objects)
    BY RequestType DEF RequestOK, Request, Due, IInv, TypeOK
  <2>3. Become(h, q) /\ UNCHANGED <<rows, objects, mods, events>>
    BY <1>2 DEF SweepFindMany
  <2> HIDE DEF q
  <2>4. QED BY <2>1, <2>2, <2>3, RequestAloneMoves
<1>3. QED BY <1>1, <1>2

\* A swept row keeps what the invariant says of it.
LEMMA SweptRow ==
  ASSUME NEW row \in Row
  PROVE  /\ [row EXCEPT !.status = "EXPIRED", !.idle = 0] \in Row
         /\ [row EXCEPT !.status = "EXPIRED", !.idle = 0].owner = row.owner
         /\ [row EXCEPT !.status = "EXPIRED", !.idle = 0].key = row.key
         /\ [row EXCEPT !.status = "EXPIRED", !.idle = 0].deleted = row.deleted
         /\ [row EXCEPT !.status = "EXPIRED", !.idle = 0].moderation = row.moderation
         /\ [row EXCEPT !.status = "EXPIRED", !.idle = 0].status = "EXPIRED"
<1>1. 0 \in 0..StaleRetention /\ "EXPIRED" \in StoryStatus \cup {"ABSENT"}
  BY StoriesAssumption DEF StoryStatus
<1>2. [row EXCEPT !.status = "EXPIRED", !.idle = 0] \in Row
  BY <1>1 DEF Row
<1>3. QED BY <1>2 DEF Row

\* A sweep touches only what its find had chosen and may still expire; the rest of
\* the row stays.
LEMMA SweptRows ==
  ASSUME IInv, NEW due \in SUBSET StoryIds, rows' = Swept(due), NEW s \in StoryIds
  PROVE  /\ rows'[s] \in Row
         /\ rows'[s].owner = rows[s].owner /\ rows'[s].key = rows[s].key
         /\ rows'[s].deleted = rows[s].deleted /\ rows'[s].moderation = rows[s].moderation
         /\ rows'[s].status = IF s \in due /\ Expirable(rows[s]) THEN "EXPIRED" ELSE rows[s].status
         /\ s \notin due => rows'[s] = rows[s]
<1> DEFINE swept == s \in due /\ Expirable(rows[s])
<1>1. rows[s] \in Row
  BY DEF IInv, TypeOK
<1>2. rows'[s] = IF swept THEN [rows[s] EXCEPT !.status = "EXPIRED", !.idle = 0] ELSE rows[s]
  BY DEF Swept
<1>3. CASE swept
  <2>1. rows'[s] = [rows[s] EXCEPT !.status = "EXPIRED", !.idle = 0]
    BY <1>2, <1>3
  <2>2. QED BY <1>1, <1>3, <2>1, SweptRow
<1>4. CASE ~swept
  BY <1>1, <1>2, <1>4
<1>5. QED BY <1>3, <1>4

\* So the table keeps all that the invariant says of it.
LEMMA TableSwept ==
  ASSUME IInv, NEW due \in SUBSET StoryIds, rows' = Swept(due), UNCHANGED objects
  PROVE  /\ rows' \in [StoryIds -> Row] /\ objects' \subseteq Keys
         /\ DataOK' /\ Kept
<1>1. \A s \in StoryIds : Exists(s)' <=> Exists(s)
  BY SweptRows DEF Exists, Expirable
<1>2. rows' \in [StoryIds -> Row]
  BY SweptRows DEF Swept
<1>3. RowsOK' /\ OneStoryPerUpload'
  BY <1>1, SweptRows DEF IInv, DataOK, RowsOK, OneStoryPerUpload
<1>4. ActiveNeverRejected'
  BY SweptRows DEF IInv, DataOK, ActiveNeverRejected
<1>5. LiveMediaExists'
  <2>1. ASSUME NEW t \in StoryIds, Exists(t)', ~rows'[t].deleted PROVE rows'[t].key \in objects'
    BY <1>1, <2>1, SweptRows DEF IInv, DataOK, LiveMediaExists
  <2>2. QED BY <2>1 DEF LiveMediaExists
<1>6. Kept
  BY <1>1, SweptRows DEF Kept, KeyKept
<1>7. QED BY <1>2, <1>3, <1>4, <1>5, <1>6 DEF IInv, TypeOK, DataOK

\* The update of the sweep keeps the invariant, answered or not.
LEMMA SweepUpdateManyStep ==
  ASSUME IInv, NEW h \in Handlers, SweepUpdateMany(h) \/ SweepUnanswered(h)
  PROVE  IInv'
<1>1. reqs[h].due \in SUBSET StoryIds /\ rows' = Swept(reqs[h].due) /\ UNCHANGED <<objects, mods>>
  BY DEF SweepUpdateMany, SweepUnanswered, ExpireDue, IInv, TypeOK, Request
<1>2. /\ rows' \in [StoryIds -> Row] /\ objects' \subseteq Keys
      /\ DataOK' /\ Kept
  BY <1>1, TableSwept
<1>3. events' \subseteq Users
  <2>1. ASSUME NEW s \in reqs[h].due PROVE rows[s].owner \in Users
    BY <2>1, RequestType DEF RequestOK, IInv, DataOK, RowsOK, Exists
  <2>2. QED BY <2>1 DEF SweepUpdateMany, SweepUnanswered, IInv, TypeOK
<1>4. PICK q \in Request : Become(h, q) /\ RequestOK(q, rows', objects')
  BY AfterSweepType, IdleType DEF SweepUpdateMany, SweepUnanswered, Answer
<1>5. QED
  BY <1>1, <1>2, <1>3, <1>4, HandlerMoves, ModerationsStay DEF IInv, TypeOK

-----------------------------------------------------------------------------
(* confirmUpload. *)

\* Moving on to another step leaves the record a Request.
LEMMA GotoType ==
  ASSUME NEW q \in Request,
         NEW where \in {"idle", "sweep", "expire", "head", "lookup", "create", "sign",
                        "find", "mark", "cleanup", "write"}
  PROVE  /\ [q EXCEPT !.pc = where] \in Request
         /\ [q EXCEPT !.pc = where].pc = where
         /\ \A f \in {"op", "actor", "key", "id", "due", "status", "moderation"} :
                [q EXCEPT !.pc = where][f] = q[f]
  BY DEF Request

\* confirmUpload: the HEAD of the object keeps the invariant.
LEMMA EnsureObjectExistsStep ==
  ASSUME IInv, NEW r \in Requests, EnsureObjectExists(r)
  PROVE  IInv'
<1> r \in Handlers
  BY DEF Handlers
<1>1. CASE reqs[r].key \in objects
  <2> DEFINE q == [reqs[r] EXCEPT !.pc = "lookup"]
  <2>1. q \in Request
    BY RequestType, GotoType
  <2>2. RequestOK(q, rows, objects)
    BY <1>1, RequestType DEF EnsureObjectExists, RequestOK, KeyKept, Request
  <2>3. Become(r, q) /\ UNCHANGED <<rows, objects, mods, events>>
    BY <1>1 DEF EnsureObjectExists, Goto
  <2> HIDE DEF q
  <2>4. QED BY <2>1, <2>2, <2>3, RequestAloneMoves
<1>2. CASE reqs[r].key \notin objects
  BY <1>2, Answered DEF EnsureObjectExists
<1>3. QED BY <1>1, <1>2

\* confirmUpload: the lookup by key keeps the invariant.
LEMMA ConfirmLookupStep ==
  ASSUME IInv, NEW r \in Requests, ConfirmLookup(r)
  PROVE  IInv'
<1> r \in Handlers
  BY DEF Handlers
<1>1. CASE Answer(r)
  BY <1>1, Answered DEF ConfirmLookup
<1>2. CASE Goto(r, "create")
  <2> DEFINE q == [reqs[r] EXCEPT !.pc = "create"]
  <2>1. q \in Request
    BY RequestType, GotoType
  <2>2. RequestOK(q, rows, objects)
    BY RequestType DEF ConfirmLookup, RequestOK, Request
  <2>3. Become(r, q) /\ UNCHANGED <<rows, objects, mods, events>>
    BY <1>2 DEF ConfirmLookup, Goto
  <2> HIDE DEF q
  <2>4. QED BY <2>1, <2>2, <2>3, RequestAloneMoves
<1>3. QED BY <1>1, <1>2 DEF ConfirmLookup

\* confirmUpload: the insert keeps the invariant, answered or not; the key was
\* no story's yet.
LEMMA CreateStoryStep ==
  ASSUME IInv, NEW r \in Requests, NEW s \in StoryIds, CreateStory(r, s) \/ CreateUnanswered(r, s)
  PROVE  IInv'
<1> DEFINE row == NewRow(reqs[r].actor, reqs[r].key)
           q == [reqs[r] EXCEPT !.pc = "sign", !.id = s]
<1>1. r \in Handlers
  BY DEF Handlers
<1>2. /\ reqs[r].actor \in Users /\ reqs[r].key \in Keys
      /\ KeyOwner[reqs[r].key] = reqs[r].actor
  BY <1>1, RequestType DEF CreateStory, CreateUnanswered, InsertStory, RequestOK
<1>3. reqs[r].key \in objects
  BY <1>1, RequestType DEF CreateStory, CreateUnanswered, InsertStory, RequestOK, KeyKept, Stored, Exists
<1>4. rows \in [StoryIds -> Row] /\ objects \subseteq Keys /\ events \subseteq Users
  BY DEF IInv, TypeOK
<1>5. /\ row \in Row /\ row.owner = reqs[r].actor /\ row.key = reqs[r].key
      /\ row.status = "ACTIVE" /\ row.moderation = "none"
  BY <1>2, StoriesAssumption DEF NewRow, Row, StoryStatus, StoryModerationStatus
<1>6. rows' = [rows EXCEPT ![s] = row] /\ UNCHANGED objects
  BY DEF CreateStory, CreateUnanswered, InsertStory
<1>7. q \in Request
  BY <1>1, RequestType DEF Request
<1>8. q.pc = "sign" /\ q.op = reqs[r].op /\ q.actor = reqs[r].actor /\ q.key = reqs[r].key
      /\ q.id = s /\ q.due = reqs[r].due /\ q.status = reqs[r].status
  BY <1>1, RequestType DEF Request
<1>9. Become(r, q) \/ Become(r, Idle)
  BY DEF CreateStory, CreateUnanswered, Answer
<1> HIDE DEF row, q
<1>10. rows' \in [StoryIds -> Row]
  BY <1>4, <1>5, <1>6
<1>11. rows'[s] = row /\ \A t \in StoryIds \ {s} : rows'[t] = rows[t]
  BY <1>4, <1>6
<1>12. Exists(s)' /\ \A t \in StoryIds \ {s} : Exists(t)' <=> Exists(t)
  BY <1>5, <1>11 DEF Exists
<1>13. ~Exists(s) /\ \A t \in StoryIds : Exists(t) => rows[t].key # reqs[r].key
  BY DEF CreateStory, CreateUnanswered, InsertStory, Stored
<1>14. RowsOK' /\ OneStoryPerUpload'
  BY <1>2, <1>5, <1>11, <1>12, <1>13 DEF IInv, DataOK, RowsOK, OneStoryPerUpload
<1>15. ActiveNeverRejected'
  BY <1>5, <1>11 DEF IInv, DataOK, ActiveNeverRejected
<1>16. LiveMediaExists'
  <2>1. ASSUME NEW t \in StoryIds, Exists(t)', ~rows'[t].deleted PROVE rows'[t].key \in objects'
    BY <1>3, <1>5, <1>6, <1>11, <1>12, <2>1 DEF IInv, DataOK, LiveMediaExists
  <2>2. QED BY <2>1 DEF LiveMediaExists
<1>17. Kept
  BY <1>6, <1>11, <1>12, <1>13 DEF Kept, KeyKept
<1>18. RequestOK(q, rows', objects')
  <2>1. RequestOK(reqs[r], rows', objects')
    BY <1>1, <1>17, RequestType, RequestKept
  <2>2. QED BY <1>2, <1>8, <1>12, <2>1 DEF RequestOK, Exists
<1>19. QED
  BY <1>1, <1>2, <1>4, <1>6, <1>7, <1>9, <1>10, <1>14, <1>15, <1>16, <1>17, <1>18, IdleType,
     HandlerMoves, ModerationsStay
     DEF CreateStory, CreateUnanswered, InsertStory, IInv, TypeOK, DataOK

\* confirmUpload: starting the moderation keeps the invariant.
LEMMA StartModerationStep ==
  ASSUME IInv, NEW r \in Requests, StartModeration(r)
  PROVE  IInv'
<1> DEFINE m == [NotStarted EXCEPT !.pc = "find"]
<1>1. r \in Handlers
  BY DEF Handlers
<1>2. reqs[r].id \in StoryIds /\ Exists(reqs[r].id)
  BY <1>1, RequestType DEF StartModeration, RequestOK, Exists
<1>3. m \in ModerationRun /\ ModerationOK(reqs[r].id, m, rows)
  BY <1>2, NotStartedType DEF NotStarted, ModerationRun, ModerationOK, Exists
<1>4. Moderate(reqs[r].id, m) /\ Answer(r) /\ UNCHANGED <<rows, objects, events>>
  BY DEF StartModeration, Settle
<1> HIDE DEF m
<1>5. /\ rows' \in [StoryIds -> Row] /\ objects' \subseteq Keys
      /\ DataOK' /\ Kept
  BY <1>4, TableStays DEF IInv, TypeOK
<1>6. ModerationOK(reqs[r].id, m, rows')
  BY <1>3, <1>4
<1>7. mods' \in [StoryIds -> ModerationRun] /\ ModerationsOK'
  BY <1>2, <1>3, <1>4, <1>5, <1>6, ModerationMoves
<1>8. reqs' \in [Handlers -> Request] /\ RequestsOK'
  BY <1>1, <1>4, <1>5, IdleType, HandlerMoves DEF Answer
<1>9. QED
  BY <1>4, <1>5, <1>7, <1>8 DEF IInv, TypeOK

-----------------------------------------------------------------------------
(* removeStory and adminDeleteStory. *)

\* removeStory, adminDeleteStory: the find keeps the invariant.
LEMMA DeletionFindStep ==
  ASSUME IInv, NEW r \in Requests, DeletionFind(r)
  PROVE  IInv'
<1> DEFINE row == rows[reqs[r].id]
           refused == row.deleted \/ (reqs[r].op = "remove" /\ row.owner # reqs[r].actor)
<1> r \in Handlers
  BY DEF Handlers
<1>1. CASE refused
  BY <1>1, Answered DEF DeletionFind
<1>2. CASE ~refused
  <2> DEFINE q == [reqs[r] EXCEPT !.pc = "mark", !.key = row.key]
  <2>1. reqs[r].id \in StoryIds /\ row.key \in Keys
    BY RequestType DEF DeletionFind, RequestOK, IInv, DataOK, RowsOK, Exists
  <2>2. q \in Request
    BY <2>1, RequestType DEF Request
  <2>3. RequestOK(q, rows, objects)
    BY <2>1, RequestType DEF DeletionFind, RequestOK, Request
  <2>4. Become(r, q) /\ UNCHANGED <<rows, objects, mods, events>>
    BY <1>2 DEF DeletionFind
  <2> HIDE DEF q
  <2>5. QED BY <2>2, <2>3, <2>4, RequestAloneMoves
<1>3. QED BY <1>1, <1>2

\* A row that is marked as deleted keeps what the invariant says of it.
LEMMA DeletedRow ==
  ASSUME NEW row \in Row
  PROVE  /\ [row EXCEPT !.deleted = TRUE, !.status = "EXPIRED"] \in Row
         /\ [row EXCEPT !.deleted = TRUE, !.status = "EXPIRED"].owner = row.owner
         /\ [row EXCEPT !.deleted = TRUE, !.status = "EXPIRED"].key = row.key
         /\ [row EXCEPT !.deleted = TRUE, !.status = "EXPIRED"].deleted
         /\ [row EXCEPT !.deleted = TRUE, !.status = "EXPIRED"].status = "EXPIRED"
<1>1. "EXPIRED" \in StoryStatus \cup {"ABSENT"}
  BY DEF StoryStatus
<1>2. [row EXCEPT !.deleted = TRUE, !.status = "EXPIRED"] \in Row
  BY <1>1 DEF Row
<1>3. QED BY <1>2 DEF Row

\* removeStory, adminDeleteStory: the update keeps the invariant.
LEMMA DeletionMarkStep ==
  ASSUME IInv, NEW r \in Requests, DeletionMark(r)
  PROVE  IInv'
<1> DEFINE s == reqs[r].id
           row == [rows[s] EXCEPT !.deleted = TRUE, !.status = "EXPIRED"]
           q == [reqs[r] EXCEPT !.pc = "cleanup"]
<1>1. r \in Handlers
  BY DEF Handlers
<1>2. s \in StoryIds /\ Exists(s) /\ rows[s] \in Row
  BY <1>1, RequestType DEF DeletionMark, RequestOK, Exists, IInv, TypeOK
<1>3. /\ row \in Row /\ row.owner = rows[s].owner /\ row.key = rows[s].key
      /\ row.deleted /\ row.status = "EXPIRED"
  BY <1>2, DeletedRow
<1>4. Write(s, row) /\ Become(r, q) /\ UNCHANGED <<objects, mods, events>>
  BY DEF DeletionMark, Goto
<1>5. /\ q \in Request /\ q.pc = "cleanup"
      /\ \A f \in {"op", "actor", "key", "id", "due", "status", "moderation"} : q[f] = reqs[r][f]
  BY <1>1, RequestType, GotoType
<1> HIDE DEF row, q
<1>6. /\ rows' \in [StoryIds -> Row] /\ objects' \subseteq Keys
      /\ DataOK' /\ Kept
  BY <1>2, <1>3, <1>4, RowWritten
<1>7. rows'[s].deleted
  BY <1>2, <1>3, <1>4 DEF Write, IInv, TypeOK, Row
<1>8. RequestOK(q, rows', objects')
  <2>1. RequestOK(reqs[r], rows', objects')
    BY <1>1, <1>6, RequestType, RequestKept
  <2>2. reqs[r].pc = "mark"
    BY DEF DeletionMark
  <2>3. /\ q.op = reqs[r].op /\ q.actor = reqs[r].actor /\ q.key = reqs[r].key
        /\ q.id = reqs[r].id /\ q.due = reqs[r].due /\ q.status = reqs[r].status
    BY <1>1, <1>5, RequestType DEF Request
  <2>4. QED BY <1>5, <1>7, <2>1, <2>2, <2>3 DEF RequestOK
<1>9. QED
  BY <1>1, <1>4, <1>5, <1>6, <1>8, HandlerMoves, ModerationsStay DEF IInv, TypeOK

\* removeStory, adminDeleteStory: deleting the object keeps the invariant.
LEMMA DeletionCleanupStep ==
  ASSUME IInv, NEW r \in Requests, DeletionCleanup(r)
  PROVE  IInv'
<1> DEFINE s == reqs[r].id
<1>1. r \in Handlers
  BY DEF Handlers
<1>2. s \in StoryIds /\ Exists(s) /\ rows[s].deleted /\ rows[s].key = reqs[r].key
  BY <1>1, RequestType DEF DeletionCleanup, RequestOK, Exists
<1>3. UNCHANGED <<rows, mods>> /\ objects' \subseteq objects /\ Answer(r)
      /\ \A k \in objects : k # reqs[r].key => k \in objects'
  BY DEF DeletionCleanup
<1>4. events' \subseteq Users
  BY <1>2 DEF DeletionCleanup, IInv, TypeOK, DataOK, RowsOK
<1>5. RowsOK' /\ OneStoryPerUpload' /\ ActiveNeverRejected'
  BY <1>3 DEF IInv, DataOK, RowsOK, OneStoryPerUpload, ActiveNeverRejected, Exists
<1>6. LiveMediaExists'
  <2>1. ASSUME NEW t \in StoryIds, Exists(t), ~rows[t].deleted PROVE rows[t].key \in objects'
    <3>1. t # s /\ rows[t].key # reqs[r].key
      BY <1>2, <2>1 DEF IInv, DataOK, OneStoryPerUpload
    <3>2. QED BY <1>3, <2>1, <3>1 DEF IInv, DataOK, LiveMediaExists
  <2>2. QED BY <1>3, <2>1 DEF LiveMediaExists, Exists
<1>7. Kept
  BY <1>2, <1>3 DEF Kept, KeyKept, Exists
<1>8. QED
  BY <1>1, <1>3, <1>4, <1>5, <1>6, <1>7, IdleType, HandlerMoves, ModerationsStay
     DEF Answer, IInv, TypeOK, DataOK

-----------------------------------------------------------------------------
(* updateAdminStoryStatus. *)

\* updateAdminStoryStatus: the find keeps the invariant.
LEMMA AdminFindStep ==
  ASSUME IInv, NEW r \in Requests, AdminFind(r)
  PROVE  IInv'
<1> DEFINE row == rows[reqs[r].id]
           v == AdminModeration(reqs[r].status, row)
           b == (reqs[r].status # row.status)
<1> r \in Handlers
  BY DEF Handlers
<1>1. CASE row.deleted
  BY <1>1, Answered DEF AdminFind
<1>2. CASE ~row.deleted
  <2> DEFINE q == [reqs[r] EXCEPT !.pc = "write", !.moderation = v, !.announce = b]
  <2>1. reqs[r].id \in StoryIds /\ row \in Row
    BY RequestType DEF AdminFind, RequestOK, IInv, TypeOK
  <2>2. v \in StoryModerationStatus /\ (reqs[r].status = "ACTIVE" => v = "APPROVED") /\ b \in BOOLEAN
    BY <2>1 DEF AdminModeration, Row, StoryModerationStatus
  <2>3. Become(r, q) /\ UNCHANGED <<rows, objects, mods, events>>
    BY <1>2 DEF AdminFind
  <2> HIDE DEF v, b
  <2>4. q \in Request
    BY <2>2, RequestType DEF Request
  <2>5. RequestOK(q, rows, objects)
    BY <2>1, <2>2, RequestType DEF AdminFind, RequestOK, Request
  <2> HIDE DEF q
  <2>6. QED BY <2>3, <2>4, <2>5, RequestAloneMoves
<1>3. QED BY <1>1, <1>2

\* A row with a new status and verdict.
Ruled(row, st, v) == [row EXCEPT !.status = st, !.moderation = v]

\* A row that is given a status and a verdict keeps what the invariant says of it.
LEMMA RuledRow ==
  ASSUME NEW row \in Row, NEW st \in StoryStatus, NEW v \in StoryModerationStatus
  PROVE  /\ Ruled(row, st, v) \in Row
         /\ Ruled(row, st, v).owner = row.owner /\ Ruled(row, st, v).key = row.key
         /\ Ruled(row, st, v).deleted = row.deleted
         /\ Ruled(row, st, v).status = st /\ Ruled(row, st, v).moderation = v
<1>1. Ruled(row, st, v) \in Row
  BY DEF Row, Ruled
<1>2. QED BY <1>1 DEF Row, Ruled

\* No update can make a row absent.
LEMMA AbsentIsNoStatus == "ABSENT" \notin StoryStatus
  BY DEF StoryStatus

\* updateAdminStoryStatus: the update keeps the invariant, answered or not.
LEMMA AdminWriteStep ==
  ASSUME IInv, NEW r \in Requests, AdminWrite(r) \/ AdminWriteUnanswered(r)
  PROVE  IInv'
<1> DEFINE s == reqs[r].id
           row == Ruled(rows[s], reqs[r].status, reqs[r].moderation)
<1>1. r \in Handlers
  BY DEF Handlers
<1>2. s \in StoryIds /\ Exists(s) /\ rows[s] \in Row
  BY <1>1, RequestType DEF AdminWrite, AdminWriteUnanswered, StoreStatus, RequestOK, Exists, IInv, TypeOK
<1>3. /\ reqs[r].status \in StoryStatus /\ reqs[r].moderation \in StoryModerationStatus
      /\ reqs[r].status = "ACTIVE" => reqs[r].moderation = "APPROVED"
  BY <1>1, RequestType DEF AdminWrite, AdminWriteUnanswered, StoreStatus, RequestOK, Request
<1>4. /\ row \in Row /\ row.owner = rows[s].owner /\ row.key = rows[s].key
      /\ row.deleted = rows[s].deleted
      /\ row.status = reqs[r].status /\ row.moderation = reqs[r].moderation
  BY <1>2, <1>3, RuledRow
<1>5. Write(s, row) /\ Answer(r) /\ UNCHANGED <<objects, mods>>
  BY DEF AdminWrite, AdminWriteUnanswered, StoreStatus, Ruled
<1> HIDE DEF row
<1>6. /\ rows' \in [StoryIds -> Row] /\ objects' \subseteq Keys
      /\ DataOK' /\ Kept
  BY <1>2, <1>3, <1>4, <1>5, RowWritten, AbsentIsNoStatus
<1>7. events' \subseteq Users
  BY <1>2 DEF AdminWrite, AdminWriteUnanswered, StoreStatus, IInv, TypeOK, DataOK, RowsOK
<1>8. reqs' \in [Handlers -> Request] /\ RequestsOK'
  BY <1>1, <1>5, <1>6, IdleType, HandlerMoves DEF Answer
<1>9. mods' \in [StoryIds -> ModerationRun] /\ ModerationsOK'
  BY <1>5, <1>6, ModerationsStay
<1>10. QED
  BY <1>6, <1>7, <1>8, <1>9 DEF IInv, TypeOK

-----------------------------------------------------------------------------
(* moderateStoryAfterPublish. *)

\* The moderation of s alone moves.
LEMMA ModerationAloneMoves ==
  ASSUME IInv, NEW s \in StoryIds, NEW m \in ModerationRun, Moderate(s, m),
         ModerationOK(s, m, rows), UNCHANGED <<rows, objects, reqs, events>>
  PROVE  IInv'
<1>1. /\ rows' \in [StoryIds -> Row] /\ objects' \subseteq Keys
      /\ DataOK' /\ Kept
  BY TableStays DEF IInv, TypeOK
<1>2. ModerationOK(s, m, rows')
  OBVIOUS
<1>3. QED
  BY <1>1, <1>2, HandlersStay, ModerationMoves DEF IInv, TypeOK

\* What the invariant says of one moderation and its row.
LEMMA ModerationType ==
  ASSUME IInv, NEW s \in StoryIds
  PROVE  mods[s] \in ModerationRun /\ ModerationOK(s, mods[s], rows) /\ rows[s] \in Row
  BY DEF IInv, TypeOK, ModerationsOK

\* A moderation that has stopped or failed holds nothing.
LEMMA SettledType ==
  ASSUME NEW s \in StoryIds, NEW t, t[s].status # "ABSENT", NEW where \in {"find", "fail", "done"}
  PROVE  /\ [NotStarted EXCEPT !.pc = where] \in ModerationRun
         /\ ModerationOK(s, [NotStarted EXCEPT !.pc = where], t)
  BY NotStartedType DEF NotStarted, ModerationRun, ModerationOK

\* moderateStoryAfterPublish: the find keeps the invariant.
LEMMA ModerationFindStep ==
  ASSUME IInv, NEW s \in StoryIds, ModerationFind(s)
  PROVE  IInv'
<1>1. rows[s].status # "ABSENT"
  BY ModerationType DEF ModerationFind, ModerationOK
<1>2. UNCHANGED <<rows, objects, reqs, events>>
  BY DEF ModerationFind
<1>3. ASSUME NEW where \in {"find", "fail", "done"}, Settle(s, where) PROVE IInv'
  <2> DEFINE m == [NotStarted EXCEPT !.pc = where]
  <2>1. m \in ModerationRun /\ ModerationOK(s, m, rows)
    BY <1>1, SettledType
  <2>2. Moderate(s, m)
    BY <1>3 DEF Settle
  <2> HIDE DEF m
  <2>3. QED BY <1>2, <2>1, <2>2, ModerationAloneMoves
<1>4. ASSUME Moderate(s, [NotStarted EXCEPT !.pc = "analyze", !.status = rows[s].status]) PROVE IInv'
  <2> DEFINE m == [NotStarted EXCEPT !.pc = "analyze", !.status = rows[s].status]
  <2>1. rows[s].status \in StoryStatus
    BY <1>1, ModerationType DEF Row
  <2>2. m \in ModerationRun /\ ModerationOK(s, m, rows)
    BY <1>1, <2>1, NotStartedType DEF NotStarted, ModerationRun, ModerationOK
  <2>3. Moderate(s, m)
    BY <1>4
  <2> HIDE DEF m
  <2>4. QED BY <1>2, <2>2, <2>3, ModerationAloneMoves
<1>5. QED BY <1>3, <1>4 DEF ModerationFind

\* moderateStoryAfterPublish: the answer of the analyzer keeps the invariant.
LEMMA ModerationAnalyzeStep ==
  ASSUME IInv, NEW s \in StoryIds, ModerationAnalyze(s)
  PROVE  IInv'
<1>1. /\ rows[s].status # "ABSENT" /\ mods[s].status \in StoryStatus
      /\ UNCHANGED <<rows, objects, reqs, events>>
  BY ModerationType DEF ModerationAnalyze, ModerationOK
<1>2. ASSUME NEW action \in RecommendedAction, Moderate(s, Verdict(action, mods[s].status)) PROVE IInv'
  <2> DEFINE m == Verdict(action, mods[s].status)
  <2>1. m \in ModerationRun
    BY <1>1 DEF Verdict, ModerationRun, StoryModerationStatus, StoryStatus
  <2>2. ModerationOK(s, m, rows)
    BY <1>1 DEF Verdict, ModerationOK, StoryStatus
  <2>3. QED BY <1>1, <1>2, <2>1, <2>2, ModerationAloneMoves
<1>3. CASE Settle(s, "fail")
  <2> DEFINE m == [NotStarted EXCEPT !.pc = "fail"]
  <2>1. m \in ModerationRun /\ ModerationOK(s, m, rows)
    BY <1>1, SettledType
  <2>2. Moderate(s, m)
    BY <1>3 DEF Settle
  <2> HIDE DEF m
  <2>3. QED BY <1>1, <2>1, <2>2, ModerationAloneMoves
<1>4. QED BY <1>2, <1>3 DEF ModerationAnalyze

\* moderateStoryAfterPublish: an update that fails keeps the invariant.
LEMMA ModerationWriteFailsStep ==
  ASSUME IInv, NEW s \in StoryIds, ModerationWriteFails(s)
  PROVE  IInv'
<1> DEFINE m == [NotStarted EXCEPT !.pc = "fail"]
<1>1. rows[s].status # "ABSENT" /\ UNCHANGED <<rows, objects, reqs, events>> /\ Moderate(s, m)
  BY ModerationType DEF ModerationWriteFails, ModerationOK, Settle
<1>2. m \in ModerationRun /\ ModerationOK(s, m, rows)
  BY <1>1, SettledType
<1> HIDE DEF m
<1>3. QED BY <1>1, <1>2, ModerationAloneMoves

\* The moderation writes a row, and settles.
LEMMA ModerationRules ==
  ASSUME IInv, NEW s \in StoryIds, Exists(s), NEW st \in StoryStatus, NEW v \in StoryModerationStatus,
         st = "ACTIVE" => v \notin {"NEEDS_REVIEW", "BLOCKED"},
         Write(s, Ruled(rows[s], st, v)),
         NEW where \in {"find", "fail", "done"}, Settle(s, where),
         UNCHANGED <<objects, reqs>>, events' \subseteq events \cup {rows[s].owner}
  PROVE  IInv'
<1> DEFINE row == Ruled(rows[s], st, v)
           m == [NotStarted EXCEPT !.pc = where]
<1>1. rows[s] \in Row
  BY ModerationType
<1>2. /\ row \in Row /\ row.owner = rows[s].owner /\ row.key = rows[s].key
      /\ row.deleted = rows[s].deleted /\ row.status = st /\ row.moderation = v
  BY <1>1, RuledRow
<1>3. Write(s, row) /\ Moderate(s, m)
  BY DEF Settle
<1> HIDE DEF row
<1>4. /\ rows' \in [StoryIds -> Row] /\ objects' \subseteq Keys
      /\ DataOK' /\ Kept
  BY <1>2, <1>3, RowWritten, AbsentIsNoStatus
<1>5. Exists(s)'
  BY <1>4 DEF Kept
<1>6. m \in ModerationRun /\ ModerationOK(s, m, rows')
  BY <1>5, SettledType DEF Exists
<1> HIDE DEF m
<1>7. mods' \in [StoryIds -> ModerationRun] /\ ModerationsOK'
  BY <1>3, <1>4, <1>6, ModerationMoves
<1>8. reqs' \in [Handlers -> Request] /\ RequestsOK'
  BY <1>4, HandlersStay
<1>9. events' \subseteq Users
  BY DEF IInv, TypeOK, DataOK, RowsOK
<1>10. QED
  BY <1>4, <1>7, <1>8, <1>9 DEF IInv, TypeOK

\* moderateStoryAfterPublish: the update keeps the invariant, answered or not.
LEMMA ModerationWriteStep ==
  ASSUME IInv, NEW s \in StoryIds, ModerationWrite(s) \/ ModerationWriteUnanswered(s)
  PROVE  IInv'
<1>1. /\ Exists(s) /\ mods[s].status \in StoryStatus /\ mods[s].moderation \in StoryModerationStatus
      /\ mods[s].status = "ACTIVE" => mods[s].moderation = "APPROVED"
  BY ModerationType DEF ModerationWrite, ModerationWriteUnanswered, StoreVerdict, ModerationOK,
     ModerationRun, Exists
<1>2. /\ Write(s, Ruled(rows[s], mods[s].status, mods[s].moderation))
      /\ UNCHANGED <<objects, reqs>> /\ events' \subseteq events \cup {rows[s].owner}
      /\ Settle(s, "done") \/ Settle(s, "fail")
  BY DEF ModerationWrite, ModerationWriteUnanswered, StoreVerdict, Ruled
<1>3. QED BY <1>1, <1>2, ModerationRules

\* moderateStoryAfterPublish: the catch keeps the invariant.
LEMMA ModerationErrorStep ==
  ASSUME IInv, NEW s \in StoryIds, ModerationError(s)
  PROVE  IInv'
<1>1. Exists(s) /\ rows[s] \in Row
  BY ModerationType DEF ModerationError, ModerationOK, Exists
<1>2. CASE UNCHANGED rows
  <2> DEFINE m == [NotStarted EXCEPT !.pc = "done"]
  <2>1. m \in ModerationRun /\ ModerationOK(s, m, rows)
    BY <1>1, SettledType DEF Exists
  <2>2. Moderate(s, m) /\ UNCHANGED <<rows, objects, reqs, events>>
    BY <1>2 DEF ModerationError, Settle
  <2> HIDE DEF m
  <2>3. QED BY <2>1, <2>2, ModerationAloneMoves
<1>3. CASE Write(s, [rows[s] EXCEPT !.moderation = "ERROR"])
  <2>1. [rows[s] EXCEPT !.moderation = "ERROR"] = Ruled(rows[s], rows[s].status, "ERROR")
    BY <1>1 DEF Ruled, Row
  <2>2. rows[s].status \in StoryStatus /\ "ERROR" \in StoryModerationStatus
    BY <1>1 DEF Exists, Row, StoryModerationStatus
  <2>3. UNCHANGED <<objects, reqs, events>> /\ Settle(s, "done")
    BY DEF ModerationError
  <2>4. Write(s, Ruled(rows[s], rows[s].status, "ERROR"))
    BY <1>3, <2>1
  <2>5. QED BY <1>1, <2>2, <2>3, <2>4, ModerationRules
<1>4. QED BY <1>2, <1>3 DEF ModerationError

-----------------------------------------------------------------------------
(* Time, the network and failures. *)

\* A row that grows older keeps what the invariant says of it.
LEMMA OlderRow ==
  ASSUME NEW row \in Row
  PROVE  /\ Older(row) \in Row
         /\ Older(row).owner = row.owner /\ Older(row).key = row.key
         /\ Older(row).deleted = row.deleted
         /\ Older(row).status = row.status /\ Older(row).moderation = row.moderation
<1> DEFINE left == IF row.ttl > 0 THEN row.ttl - 1 ELSE 0
           age == IF row.idle < StaleRetention THEN row.idle + 1 ELSE row.idle
<1>1. row.ttl \in 0..Lifetime /\ row.idle \in 0..StaleRetention
  BY DEF Row
<1>2. left \in 0..Lifetime /\ age \in 0..StaleRetention
  BY <1>1, StoriesAssumption
<1>3. Older(row) = IF row.status = "ABSENT" THEN row
                   ELSE [row EXCEPT !.ttl = left, !.idle = age]
  BY DEF Older, Row
<1> HIDE DEF left, age
<1>4. CASE row.status = "ABSENT"
  BY <1>3, <1>4
<1>5. CASE row.status # "ABSENT"
  <2>1. Older(row) = [row EXCEPT !.ttl = left, !.idle = age]
    BY <1>3, <1>5
  <2>2. Older(row) \in Row
    BY <1>2, <2>1 DEF Row
  <2>3. QED BY <2>1, <2>2 DEF Row
<1>6. QED BY <1>4, <1>5

\* Time keeps the invariant.
LEMMA TickStep ==
  ASSUME IInv, Tick
  PROVE  IInv'
<1>1. rows \in [StoryIds -> Row] /\ UNCHANGED <<objects, reqs, mods, events>>
  BY DEF Tick, IInv, TypeOK
<1>2. rows' = [s \in StoryIds |-> Older(rows[s])]
  BY DEF Tick
<1>3. ASSUME NEW s \in StoryIds
      PROVE  /\ rows'[s] \in Row
             /\ rows'[s].owner = rows[s].owner /\ rows'[s].key = rows[s].key
             /\ rows'[s].deleted = rows[s].deleted
             /\ rows'[s].status = rows[s].status /\ rows'[s].moderation = rows[s].moderation
  BY <1>1, <1>2, OlderRow
<1>4. rows' \in [StoryIds -> Row]
  BY <1>2, <1>3
<1>5. \A s \in StoryIds : Exists(s)' <=> Exists(s)
  BY <1>3 DEF Exists
<1>6. RowsOK' /\ OneStoryPerUpload' /\ ActiveNeverRejected'
  BY <1>3, <1>5 DEF IInv, DataOK, RowsOK, OneStoryPerUpload, ActiveNeverRejected
<1>7. LiveMediaExists'
  <2>1. ASSUME NEW t \in StoryIds, Exists(t)', ~rows'[t].deleted PROVE rows'[t].key \in objects'
    BY <1>1, <1>3, <1>5, <2>1 DEF IInv, DataOK, LiveMediaExists
  <2>2. QED BY <2>1 DEF LiveMediaExists
<1>8. Kept
  BY <1>1, <1>3, <1>5 DEF Kept, KeyKept
<1>9. QED
  BY <1>1, <1>4, <1>6, <1>7, <1>8, HandlersStay, ModerationsStay DEF IInv, TypeOK, DataOK

\* A crash keeps the invariant.
LEMMA CrashStep ==
  ASSUME IInv, Crash
  PROVE  IInv'
<1>1. UNCHANGED <<rows, objects>> /\ events' = {}
  BY DEF Crash
<1>2. /\ rows' \in [StoryIds -> Row] /\ objects' \subseteq Keys
      /\ DataOK' /\ Kept
  BY <1>1, TableStays DEF IInv, TypeOK
<1>3. reqs' \in [Handlers -> Request] /\ RequestsOK'
  BY IdleType DEF Crash, RequestsOK
<1>4. ASSUME NEW s \in StoryIds PROVE mods'[s] \in ModerationRun /\ ModerationOK(s, mods'[s], rows')
  <2>1. mods'[s] = IF mods[s].pc = "none" THEN mods[s] ELSE Finished
    BY DEF Crash
  <2>2. Finished \in ModerationRun /\ Finished.pc = "done"
    BY NotStartedType DEF Finished, NotStarted, ModerationRun
  <2>3. QED BY <1>1, <2>1, <2>2, ModerationType DEF ModerationOK
<1>5. mods' \in [StoryIds -> ModerationRun] /\ ModerationsOK'
  BY <1>4 DEF Crash, ModerationsOK
<1>6. QED
  BY <1>1, <1>2, <1>3, <1>5 DEF IInv, TypeOK

\* So does an event that arrives or is lost.
LEMMA EventSettlesStep ==
  ASSUME IInv, NEW u \in Users, EventSettles(u)
  PROVE  IInv'
<1>1. UNCHANGED <<rows, objects, reqs, mods>> /\ events' \subseteq Users
  BY DEF EventSettles, IInv, TypeOK
<1>2. /\ rows' \in [StoryIds -> Row] /\ objects' \subseteq Keys
      /\ DataOK' /\ Kept
  BY <1>1, TableStays DEF IInv, TypeOK
<1>3. QED
  BY <1>1, <1>2, HandlersStay, ModerationsStay DEF IInv, TypeOK

\* So does a step that changes nothing.
LEMMA StutterStep ==
  ASSUME IInv, UNCHANGED vars
  PROVE  IInv'
  BY TableStays, HandlersStay, ModerationsStay DEF vars, IInv, TypeOK

-----------------------------------------------------------------------------
(* Every step. *)

\* Every step of the service keeps the invariant.
LEMMA NextIInv == IInv /\ [Next]_vars => IInv'
<1> SUFFICES ASSUME IInv, [Next]_vars PROVE IInv'
    OBVIOUS
<1>1. ASSUME NEW k \in Keys, Upload(k) PROVE IInv'
  BY <1>1, UploadStep
<1>2. ASSUME NEW r \in Requests, RequestStarts(r) PROVE IInv'
  BY <1>2, StartStep
<1>3. ASSUME NEW r \in Requests, RequestStep(r) PROVE IInv'
  <2>1. r \in Handlers
    BY DEF Handlers
  <2>2. CASE CreateRefused(r)
    BY <2>1, <2>2, Answered DEF CreateRefused
  <2>3. QED
    BY <1>3, <2>2, EnsureObjectExistsStep, ConfirmLookupStep, CreateStoryStep, StartModerationStep,
       DeletionFindStep, DeletionMarkStep, DeletionCleanupStep, AdminFindStep, AdminWriteStep
       DEF RequestStep
<1>4. ASSUME NEW h \in Handlers, Sweep(h) \/ SweepUnanswered(h) PROVE IInv'
  BY <1>4, SweepFindManyStep, SweepUpdateManyStep DEF Sweep
<1>5. ASSUME NEW h \in Handlers, Abandon(h) PROVE IInv'
  BY <1>5, Answered DEF Abandon
<1>6. ASSUME NEW s \in StoryIds, ModerationStep(s) \/ ModerationWriteUnanswered(s) PROVE IInv'
  BY <1>6, ModerationFindStep, ModerationAnalyzeStep, ModerationWriteStep, ModerationWriteFailsStep,
     ModerationErrorStep DEF ModerationStep
<1>7. ASSUME NEW u \in Users, EventSettles(u) PROVE IInv'
  BY <1>7, EventSettlesStep
<1>8. CASE Tick
  BY <1>8, TickStep
<1>9. ASSUME NEW r \in Requests, AdminWriteUnanswered(r) PROVE IInv'
  BY <1>9, AdminWriteStep
<1>10. ASSUME NEW r \in Requests, NEW s \in StoryIds, CreateUnanswered(r, s) PROVE IInv'
  BY <1>10, CreateStoryStep
<1>11. CASE Crash
  BY <1>11, CrashStep
<1>12. CASE UNCHANGED vars
  BY <1>12, StutterStep
<1>13. QED
  BY <1>1, <1>2, <1>3, <1>4, <1>5, <1>6, <1>7, <1>8, <1>9, <1>10, <1>11, <1>12 DEF Next, Work, Fault

-----------------------------------------------------------------------------
(* What a step of one handler, or of one moderation, leaves alone.         *)

\* The steps of one handler.
HandlerStep(h) ==
    \/ h \in Requests /\ (RequestStarts(h) \/ RequestStep(h))
    \/ Sweep(h)

\* A step of one handler leaves the others alone.
LEMMA HandlerAlone ==
  ASSUME IInv, NEW h \in Handlers, HandlerStep(h), NEW g \in Handlers \ {h}
  PROVE  reqs'[g] = reqs[g]
<1>1. reqs \in [Handlers -> Request]
  BY DEF IInv, TypeOK
<1>2. \A q : Become(h, q) => reqs'[g] = reqs[g]
  BY <1>1 DEF Become
<1>3. \A where : Goto(h, where) => reqs'[g] = reqs[g]
  BY <1>2 DEF Goto
<1>4. Answer(h) => reqs'[g] = reqs[g]
  BY <1>2 DEF Answer
<1>5. RequestStarts(h) => reqs'[g] = reqs[g]
  BY <1>2 DEF RequestStarts, StartConfirm, StartRemove, StartAdminDelete, StartAdminStatus, StartOnStory
<1>6. RequestStep(h) => reqs'[g] = reqs[g]
  BY <1>2, <1>3, <1>4 DEF RequestStep, EnsureObjectExists, ConfirmLookup, CreateRefused, CreateStory,
     StartModeration, DeletionFind, DeletionMark, DeletionCleanup, AdminFind, AdminWrite, StoreStatus
<1>7. Sweep(h) => reqs'[g] = reqs[g]
  BY <1>2, <1>4 DEF Sweep, SweepFindMany, SweepUpdateMany, AfterSweep
<1>8. QED BY <1>5, <1>6, <1>7 DEF HandlerStep

\* What works is one handler, or one moderation, or neither: the requests that
\* do not move stay as they are.
LEMMA RequestWorks ==
  ASSUME IInv, Work, NEW r \in Requests, reqs'[r] # reqs[r]
  PROVE  RequestStarts(r) \/ RequestStep(r) \/ Sweep(r)
<1>1. r \in Handlers
  BY DEF Handlers
<1>2. ASSUME NEW h \in Handlers, HandlerStep(h) PROVE h = r
  BY <1>1, <1>2, HandlerAlone
<1>3. \E h \in Handlers : HandlerStep(h)
  BY DEF Work, Upload, ModerationStep, ModerationFind, ModerationAnalyze, ModerationWrite, StoreVerdict,
     ModerationWriteFails, ModerationError, Tick, HandlerStep, Handlers
<1>4. QED BY <1>2, <1>3 DEF HandlerStep

\* Where a fault hits a request, it is over.
LEMMA RequestFails ==
  ASSUME IInv, Fault, NEW r \in Requests
  PROVE  reqs'[r] = reqs[r] \/ reqs'[r] = Idle
<1>1. reqs \in [Handlers -> Request] /\ r \in Handlers /\ Requests \subseteq Handlers
  BY DEF IInv, TypeOK, Handlers
<1>2. ASSUME NEW h \in Handlers, Answer(h) PROVE reqs'[r] = reqs[r] \/ reqs'[r] = Idle
  BY <1>1, <1>2 DEF Answer, Become
<1>3. CASE Crash
  BY <1>1, <1>3 DEF Crash
<1>4. (\E h \in Handlers : Answer(h)) \/ UNCHANGED reqs \/ Crash
  BY <1>1 DEF Fault, Abandon, SweepUnanswered, AdminWriteUnanswered, StoreStatus, CreateUnanswered,
     ModerationWriteUnanswered, StoreVerdict, EventSettles
<1>5. QED BY <1>2, <1>3, <1>4

\* Only a fault takes an event away.
LEMMA EventsKept ==
  ASSUME Work PROVE events \subseteq events'
<1>1. ASSUME NEW r \in Requests, RequestStarts(r) \/ RequestStep(r) PROVE events \subseteq events'
  BY <1>1 DEF RequestStarts, StartConfirm, StartRemove, StartAdminDelete, StartAdminStatus, StartOnStory,
     RequestStep, EnsureObjectExists, ConfirmLookup, CreateRefused, CreateStory, StartModeration,
     DeletionFind, DeletionMark, DeletionCleanup, AdminFind, AdminWrite
<1>2. ASSUME NEW h \in Handlers, Sweep(h) PROVE events \subseteq events'
  BY <1>2 DEF Sweep, SweepFindMany, SweepUpdateMany
<1>3. ASSUME NEW s \in StoryIds, ModerationStep(s) PROVE events \subseteq events'
  BY <1>3 DEF ModerationStep, ModerationFind, ModerationAnalyze, ModerationWrite, ModerationWriteFails,
     ModerationError
<1>4. QED BY <1>1, <1>2, <1>3 DEF Work, Upload, Tick

\* The moderation of s only moves by a step of its own, or begins.
LEMMA ModerationWorks ==
  ASSUME IInv, Work, NEW s \in StoryIds, mods'[s] # mods[s]
  PROVE  \/ ModerationStep(s)
         \/ mods'[s].pc = "find" /\ \E r \in Requests : StartModeration(r) /\ reqs[r].id = s
<1>1. mods \in [StoryIds -> ModerationRun] /\ NotStarted \in ModerationRun
  BY NotStartedType DEF IInv, TypeOK
<1>2. ASSUME NEW t \in StoryIds, ModerationStep(t) PROVE t = s
  BY <1>1, <1>2 DEF ModerationStep, ModerationFind, ModerationAnalyze, ModerationWrite, ModerationWriteFails,
     ModerationError, Settle, Moderate
<1>3. ASSUME NEW r \in Requests, StartModeration(r) PROVE mods'[s].pc = "find" /\ reqs[r].id = s
  BY <1>1, <1>3 DEF StartModeration, Settle, Moderate, NotStarted
<1>4. ASSUME NEW r \in Requests, RequestStarts(r) \/ RequestStep(r) PROVE StartModeration(r)
  BY <1>4 DEF RequestStarts, StartConfirm, StartRemove, StartAdminDelete, StartAdminStatus, StartOnStory,
     RequestStep, EnsureObjectExists, ConfirmLookup, CreateRefused, CreateStory, InsertStory,
     DeletionFind, DeletionMark, DeletionCleanup, AdminFind, AdminWrite, StoreStatus
<1>5. ASSUME NEW h \in Handlers, Sweep(h) PROVE FALSE
  BY <1>5 DEF Sweep, SweepFindMany, SweepUpdateMany, ExpireDue
<1>6. QED BY <1>2, <1>3, <1>4, <1>5 DEF Work, Upload, Tick

\* A fault ends a moderation that has begun, or sends it to its catch.
LEMMA ModerationFails ==
  ASSUME IInv, Fault, NEW s \in StoryIds, mods'[s] # mods[s]
  PROVE  /\ mods[s].pc # "none"
         /\ \/ Crash /\ mods'[s].pc = "done"
            \/ ModerationWriteUnanswered(s) /\ mods'[s].pc = "fail"
<1>1. mods \in [StoryIds -> ModerationRun] /\ NotStarted \in ModerationRun
  BY NotStartedType DEF IInv, TypeOK
<1>2. ASSUME NEW t \in StoryIds, ModerationWriteUnanswered(t)
      PROVE  t = s /\ mods[s].pc = "write" /\ mods'[s].pc = "fail"
  BY <1>1, <1>2 DEF ModerationWriteUnanswered, StoreVerdict, Settle, Moderate, NotStarted
<1>3. ASSUME Crash PROVE mods[s].pc # "none" /\ mods'[s].pc = "done"
  BY <1>1, <1>3 DEF Crash, Finished, NotStarted
<1>4. QED
  BY <1>2, <1>3 DEF Fault, Abandon, SweepUnanswered, ExpireDue, AdminWriteUnanswered, StoreStatus,
     CreateUnanswered, InsertStory, EventSettles

\* A moderation comes to wait for the analyzer with the status it has just read.
LEMMA AnalysisBegins ==
  ASSUME IInv, Work, NEW s \in StoryIds, mods'[s].pc = "analyze", mods'[s] # mods[s]
  PROVE  mods[s].pc = "find" /\ mods'[s].status = rows[s].status /\ UNCHANGED rows
<1>1. mods \in [StoryIds -> ModerationRun] /\ NotStarted \in ModerationRun
  BY NotStartedType DEF IInv, TypeOK
<1>2. \A m : Moderate(s, m) => mods'[s] = m
  BY <1>1 DEF Moderate
<1>3. \A where \in {"fail", "done"} : ~Settle(s, where)
  BY <1>1, <1>2 DEF Settle, NotStarted
<1>4. \A action, seen : ~Moderate(s, Verdict(action, seen))
  BY <1>2 DEF Verdict
<1>5. ModerationFind(s)
  BY <1>3, <1>4, ModerationWorks DEF ModerationStep, ModerationAnalyze, ModerationWrite,
     ModerationWriteFails, ModerationError
<1>6. Moderate(s, [NotStarted EXCEPT !.pc = "analyze", !.status = rows[s].status])
  BY <1>3, <1>5 DEF ModerationFind
<1>7. mods'[s].status = rows[s].status
  BY <1>2, <1>6 DEF NotStarted
<1>8. QED BY <1>5, <1>7 DEF ModerationFind

\* It comes to its write with the verdict that the answer and this status give.
LEMMA VerdictBegins ==
  ASSUME IInv, Work, NEW s \in StoryIds, mods'[s].pc = "write", mods'[s] # mods[s]
  PROVE  /\ mods[s].pc = "analyze" /\ UNCHANGED rows
         /\ \E action \in RecommendedAction : mods'[s] = Verdict(action, mods[s].status)
<1>1. mods \in [StoryIds -> ModerationRun] /\ NotStarted \in ModerationRun
  BY NotStartedType DEF IInv, TypeOK
<1>2. \A m : Moderate(s, m) => mods'[s] = m
  BY <1>1 DEF Moderate
<1>3. \A where \in {"fail", "done"} : ~Settle(s, where)
  BY <1>1, <1>2 DEF Settle, NotStarted
<1>4. ~ModerationFind(s)
  BY <1>1, <1>2, <1>3 DEF ModerationFind, NotStarted
<1>5. ModerationAnalyze(s)
  BY <1>3, <1>4, ModerationWorks DEF ModerationStep, ModerationWrite, ModerationWriteFails, ModerationError
<1>6. PICK action \in RecommendedAction : Moderate(s, Verdict(action, mods[s].status))
  BY <1>3, <1>5 DEF ModerationAnalyze
<1>7. mods'[s] = Verdict(action, mods[s].status)
  BY <1>2, <1>6
<1>8. QED BY <1>5, <1>7 DEF ModerationAnalyze

\* What a request that comes in, or has just swept, goes on to.
LEMMA EarlySteps ==
  ASSUME IInv, NEW r \in Requests, RequestStarts(r) \/ Sweep(r)
  PROVE  reqs'[r].pc \in {"idle", "sweep", "find", "expire", "head"}
<1>1. reqs \in [Handlers -> Request] /\ r \in Handlers /\ reqs[r] \in Request
  BY DEF IInv, TypeOK, Handlers
<1>2. \A q : Become(r, q) => reqs'[r] = q
  BY <1>1 DEF Become
<1>3. ASSUME RequestStarts(r) PROVE reqs'[r].pc \in {"sweep", "find"}
  <2>1. ASSUME NEW u \in Users, NEW k \in Keys, StartConfirm(r, u, k) PROVE reqs'[r].pc = "sweep"
    BY <1>2, <2>1 DEF StartConfirm, Idle
  <2>2. ASSUME NEW op, NEW u, NEW s, NEW status, StartOnStory(r, op, u, s, status)
        PROVE  reqs'[r].pc = "find"
    BY <1>2, <2>2 DEF StartOnStory, Idle
  <2>3. QED BY <1>3, <2>1, <2>2 DEF RequestStarts, StartRemove, StartAdminDelete, StartAdminStatus
<1>4. ASSUME Sweep(r) PROVE reqs'[r].pc \in {"idle", "expire", "head"}
  <2>1. ASSUME AfterSweep(r) PROVE reqs'[r].pc \in {"idle", "head"}
    <3>1. Become(r, [reqs[r] EXCEPT !.pc = "head", !.due = {}]) \/ Become(r, Idle)
      BY <2>1 DEF AfterSweep, Answer
    <3>2. reqs'[r] = [reqs[r] EXCEPT !.pc = "head", !.due = {}] \/ reqs'[r] = Idle
      BY <1>2, <3>1
    <3>3. [reqs[r] EXCEPT !.pc = "head", !.due = {}].pc = "head" /\ Idle.pc = "idle"
      BY <1>1 DEF Idle, Request
    <3>4. QED BY <3>2, <3>3
  <2>2. QED BY <1>1, <1>2, <1>4, <2>1 DEF Sweep, SweepFindMany, SweepUpdateMany, Request
<1>5. QED BY <1>3, <1>4

\* A request comes to write a status only from the row it has just read.
LEMMA WriteBegins ==
  ASSUME IInv, Work, NEW r \in Requests, reqs'[r].pc = "write", reqs'[r] # reqs[r]
  PROVE  AdminFind(r)
<1>1. reqs \in [Handlers -> Request] /\ r \in Handlers /\ reqs[r] \in Request
  BY DEF IInv, TypeOK, Handlers
<1>2. \A q : Become(r, q) => reqs'[r] = q
  BY <1>1 DEF Become
<1>3. \A where : Goto(r, where) => reqs'[r].pc = where
  BY <1>1, <1>2 DEF Goto, Request
<1>4. ~Answer(r)
  BY <1>2 DEF Answer, Idle
<1>5. RequestStep(r)
  BY EarlySteps, RequestWorks
<1>6. ASSUME NEW s \in StoryIds, CreateStory(r, s) PROVE FALSE
  BY <1>1, <1>2, <1>6 DEF CreateStory, Request
<1>7. ~DeletionFind(r)
  BY <1>1, <1>2, <1>4 DEF DeletionFind, Request
<1>8. QED
  BY <1>3, <1>4, <1>5, <1>6, <1>7 DEF RequestStep, EnsureObjectExists, ConfirmLookup,
     CreateRefused, StartModeration, DeletionMark, DeletionCleanup, AdminWrite, StoreStatus

\* A request comes to sign the URL of a new story, whose moderation it will start,
\* only by creating it.
LEMMA SignBegins ==
  ASSUME IInv, Work, NEW r \in Requests, reqs'[r].pc = "sign", reqs'[r] # reqs[r]
  PROVE  \E s \in StoryIds : CreateStory(r, s) /\ reqs'[r].id = s
<1>1. reqs \in [Handlers -> Request] /\ r \in Handlers /\ reqs[r] \in Request
  BY DEF IInv, TypeOK, Handlers
<1>2. \A q : Become(r, q) => reqs'[r] = q
  BY <1>1 DEF Become
<1>3. \A where : Goto(r, where) => reqs'[r].pc = where
  BY <1>1, <1>2 DEF Goto, Request
<1>4. ~Answer(r)
  BY <1>2 DEF Answer, Idle
<1>5. RequestStep(r)
  BY EarlySteps, RequestWorks
<1>6. ~DeletionFind(r) /\ ~AdminFind(r)
  BY <1>1, <1>2, <1>4 DEF DeletionFind, AdminFind, Request
<1>7. PICK s \in StoryIds : CreateStory(r, s)
  BY <1>3, <1>4, <1>5, <1>6 DEF RequestStep, EnsureObjectExists, ConfirmLookup,
     CreateRefused, StartModeration, DeletionMark, DeletionCleanup, AdminWrite, StoreStatus
<1>8. reqs'[r].id = s
  BY <1>1, <1>2, <1>7 DEF CreateStory, Request
<1>9. QED BY <1>7, <1>8

-----------------------------------------------------------------------------
(* The theorems.                                                           *)

\* The inductive invariant holds in every state of every behaviour of the service.
THEOREM Invariance == Spec => []IInv
<1>1. QED
  BY InitIInv, NextIInv, PTL DEF Spec

\* The state of the table, the bucket and every handler stays well formed.
THEOREM TypeCorrect == Spec => []TypeOK
<1>1. IInv => TypeOK
  BY DEF IInv
<1>2. QED BY <1>1, Invariance, PTL

\* However many requests confirm an upload, in whatever order they run or fail,
\* at most one story is created for it, and it is its uploader's.
THEOREM UploadBacksOneStory == Spec => []OneStoryPerUpload
<1>1. IInv => OneStoryPerUpload
  BY DEF IInv, DataOK
<1>2. QED BY <1>1, Invariance, PTL

\* No interleaving of moderation, sweeps and admins leaves a story ACTIVE under
\* a rejection.
THEOREM ActiveIsNeverRejected == Spec => []ActiveNeverRejected
<1>1. IInv => ActiveNeverRejected
  BY DEF IInv, DataOK
<1>2. QED BY <1>1, Invariance, PTL

\* A story that is not deleted has its object in the bucket.
THEOREM MediaOutlivesStory == Spec => []LiveMediaExists
<1>1. IInv => LiveMediaExists
  BY DEF IInv, DataOK
<1>2. QED BY <1>1, Invariance, PTL

-----------------------------------------------------------------------------
(***************************************************************************)
(* Stories implements StoryLifecycle.  What a step may do to the rows is   *)
(* first put in one place (RowSteps); what a single row goes through then  *)
(* decides both the action property and the refinement.                    *)
(***************************************************************************)

\* The row of s is written with a status and a verdict.
Ruling(s, st, v) ==
    /\ Exists(s)
    /\ st = "ACTIVE" => \/ v = "APPROVED"
                        \/ v = "ERROR" /\ rows[s].status = "ACTIVE"
    /\ Write(s, Ruled(rows[s], st, v))

Sweeping(S) ==
    /\ \A s \in S : Exists(s)
    /\ rows' = [s \in StoryIds |-> IF s \in S
                   THEN [rows[s] EXCEPT !.status = "EXPIRED", !.idle = 0] ELSE rows[s]]

Deleting(s) ==
    Exists(s) /\ Write(s, [rows[s] EXCEPT !.deleted = TRUE, !.status = "EXPIRED"])

Creating(s) ==
    ~Exists(s) /\ \E u \in Users, k \in Keys : rows' = [rows EXCEPT ![s] = NewRow(u, k)]

RowStep ==
    \/ UNCHANGED rows
    \/ \E s \in StoryIds : Creating(s) \/ Deleting(s)
    \/ \E s \in StoryIds, st \in StoryStatus, v \in StoryModerationStatus : Ruling(s, st, v)
    \/ \E S \in SUBSET StoryIds : Sweeping(S)
    \/ Tick

\* Whoever runs the update of a sweep, it sweeps those that may still expire.
LEMMA SweptIsStep ==
  ASSUME NEW due, rows' = Swept(due)
  PROVE  RowStep
<1> DEFINE S == {s \in StoryIds : s \in due /\ Expirable(rows[s])}
<1>1. \A s \in S : Exists(s)
  BY DEF Expirable, Exists
<1>2. rows' = [s \in StoryIds |-> IF s \in S
                  THEN [rows[s] EXCEPT !.status = "EXPIRED", !.idle = 0] ELSE rows[s]]
  BY DEF Swept
<1> HIDE DEF S
<1>3. Sweeping(S)
  BY <1>1, <1>2 DEF Sweeping
<1>4. S \in SUBSET StoryIds
  BY DEF S
<1>5. QED BY <1>3, <1>4 DEF RowStep

\* Every step of the service does one of five things to the table.
LEMMA RowSteps == IInv /\ [Next]_vars => RowStep
<1> SUFFICES ASSUME IInv, [Next]_vars PROVE RowStep
    OBVIOUS
<1>1. ASSUME NEW r \in Requests,
             RequestStep(r) \/ AdminWriteUnanswered(r) \/ \E s \in StoryIds : CreateUnanswered(r, s)
      PROVE  RowStep
  <2> r \in Handlers
    BY DEF Handlers
  <2>1. ASSUME NEW s \in StoryIds, CreateStory(r, s) \/ CreateUnanswered(r, s) PROVE RowStep
    <3>1. reqs[r].actor \in Users /\ reqs[r].key \in Keys
      BY <2>1, RequestType DEF CreateStory, CreateUnanswered, InsertStory, RequestOK
    <3>2. QED BY <2>1, <3>1 DEF CreateStory, CreateUnanswered, InsertStory, Creating, RowStep
  <2>2. CASE DeletionMark(r)
    <3>1. reqs[r].id \in StoryIds /\ Exists(reqs[r].id)
      BY <2>2, RequestType DEF DeletionMark, RequestOK, Exists
    <3>2. Deleting(reqs[r].id)
      BY <2>2, <3>1 DEF DeletionMark, Deleting
    <3>3. QED BY <3>1, <3>2 DEF RowStep
  <2>3. CASE AdminWrite(r) \/ AdminWriteUnanswered(r)
    <3>1. /\ reqs[r].id \in StoryIds /\ Exists(reqs[r].id)
          /\ reqs[r].status \in StoryStatus /\ reqs[r].moderation \in StoryModerationStatus
          /\ reqs[r].status = "ACTIVE" => reqs[r].moderation = "APPROVED"
      BY <2>3, RequestType DEF AdminWrite, AdminWriteUnanswered, StoreStatus, RequestOK, Request, Exists
    <3>2. Ruling(reqs[r].id, reqs[r].status, reqs[r].moderation)
      BY <2>3, <3>1 DEF AdminWrite, AdminWriteUnanswered, StoreStatus, Ruling, Ruled
    <3>3. QED BY <3>1, <3>2 DEF RowStep
  <2>4. QED
    BY <1>1, <2>1, <2>2, <2>3 DEF RequestStep, EnsureObjectExists, ConfirmLookup, CreateRefused,
       StartModeration, DeletionFind, DeletionCleanup, AdminFind, RowStep
<1>2. ASSUME NEW h \in Handlers, Sweep(h) \/ SweepUnanswered(h) PROVE RowStep
  <2>1. CASE SweepFindMany(h)
    BY <2>1 DEF SweepFindMany, RowStep
  <2>2. CASE SweepUpdateMany(h) \/ SweepUnanswered(h)
    BY <2>2, SweptIsStep DEF SweepUpdateMany, SweepUnanswered, ExpireDue
  <2>3. QED BY <1>2, <2>1, <2>2 DEF Sweep
<1>3. ASSUME NEW s \in StoryIds, ModerationStep(s) \/ ModerationWriteUnanswered(s) PROVE RowStep
  <2>1. CASE ModerationWrite(s) \/ ModerationWriteUnanswered(s)
    <3>1. /\ Exists(s) /\ mods[s].status \in StoryStatus /\ mods[s].moderation \in StoryModerationStatus
          /\ mods[s].status = "ACTIVE" => mods[s].moderation = "APPROVED"
      BY <2>1, ModerationType DEF ModerationWrite, ModerationWriteUnanswered, StoreVerdict, ModerationOK,
         ModerationRun, Exists
    <3>2. Ruling(s, mods[s].status, mods[s].moderation)
      BY <2>1, <3>1 DEF ModerationWrite, ModerationWriteUnanswered, StoreVerdict, Ruling, Ruled
    <3>3. QED BY <3>1, <3>2 DEF RowStep
  <2>2. CASE ModerationError(s)
    <3>1. Exists(s) /\ rows[s] \in Row
      BY <2>2, ModerationType DEF ModerationError, ModerationOK, Exists
    <3>2. rows[s].status \in StoryStatus /\ "ERROR" \in StoryModerationStatus
      BY <3>1 DEF Exists, Row, StoryModerationStatus
    <3>3. [rows[s] EXCEPT !.moderation = "ERROR"] = Ruled(rows[s], rows[s].status, "ERROR")
      BY <3>1 DEF Ruled, Row
    <3>4. UNCHANGED rows \/ Ruling(s, rows[s].status, "ERROR")
      BY <2>2, <3>1, <3>3 DEF ModerationError, Ruling
    <3>5. QED BY <3>2, <3>4 DEF RowStep
  <2>3. QED
    BY <1>3, <2>1, <2>2 DEF ModerationStep, ModerationFind, ModerationAnalyze, ModerationWriteFails, RowStep
<1>4. ASSUME NEW r \in Requests, RequestStarts(r) PROVE RowStep
  BY <1>4 DEF RequestStarts, StartConfirm, StartRemove, StartAdminDelete, StartAdminStatus, StartOnStory, RowStep
<1>5. QED
  BY <1>1, <1>2, <1>3, <1>4 DEF Next, Work, Fault, Upload, Abandon, EventSettles, Crash, vars, RowStep

-----------------------------------------------------------------------------
(* What each kind of step does to a single row. *)

\* A row that is ruled on has the status and the verdict of the ruling.
LEMMA RulingRow ==
  ASSUME IInv, NEW s \in StoryIds, NEW st \in StoryStatus, NEW v \in StoryModerationStatus, Ruling(s, st, v)
  PROVE  /\ rows[s] \in Row /\ rows'[s] \in Row
         /\ rows'[s].status = st /\ rows'[s].moderation = v
         /\ rows'[s].deleted = rows[s].deleted /\ rows'[s].ttl = rows[s].ttl
         /\ \A t \in StoryIds \ {s} : rows'[t] = rows[t]
<1> DEFINE row == Ruled(rows[s], st, v)
<1>1. rows \in [StoryIds -> Row] /\ rows[s] \in Row
  BY DEF IInv, TypeOK
<1>2. /\ row \in Row /\ row.status = st /\ row.moderation = v /\ row.deleted = rows[s].deleted
      /\ row.ttl = rows[s].ttl
  BY <1>1, RuledRow DEF Ruled, Row
<1>3. Write(s, row)
  BY DEF Ruling
<1> HIDE DEF row
<1>4. rows' = [rows EXCEPT ![s] = [row EXCEPT !.idle = 0]]
  BY <1>3 DEF Write
<1>5. /\ [row EXCEPT !.idle = 0] \in Row
      /\ [row EXCEPT !.idle = 0].status = row.status /\ [row EXCEPT !.idle = 0].moderation = row.moderation
      /\ [row EXCEPT !.idle = 0].deleted = row.deleted /\ [row EXCEPT !.idle = 0].ttl = row.ttl
  BY <1>2, StoriesAssumption DEF Row
<1>6. QED BY <1>1, <1>2, <1>4, <1>5

\* A row that is deleted is EXPIRED, and keeps its verdict.
LEMMA DeletingRow ==
  ASSUME IInv, NEW s \in StoryIds, Deleting(s)
  PROVE  /\ rows'[s].status = "EXPIRED" /\ rows'[s].deleted
         /\ rows'[s].moderation = rows[s].moderation
         /\ \A t \in StoryIds \ {s} : rows'[t] = rows[t]
<1> DEFINE row == [rows[s] EXCEPT !.deleted = TRUE, !.status = "EXPIRED"]
<1>1. rows \in [StoryIds -> Row] /\ rows[s] \in Row
  BY DEF IInv, TypeOK
<1>2. row \in Row /\ row.deleted /\ row.status = "EXPIRED"
  BY <1>1, DeletedRow
<1>3. row.moderation = rows[s].moderation
  BY <1>1 DEF Row
<1>4. Write(s, row)
  BY DEF Deleting
<1> HIDE DEF row
<1>5. rows' = [rows EXCEPT ![s] = [row EXCEPT !.idle = 0]]
  BY <1>4 DEF Write
<1>6. /\ [row EXCEPT !.idle = 0].status = row.status /\ [row EXCEPT !.idle = 0].moderation = row.moderation
      /\ [row EXCEPT !.idle = 0].deleted = row.deleted
  BY <1>2 DEF Row
<1>7. QED BY <1>1, <1>2, <1>3, <1>5, <1>6

\* A row that is created is ACTIVE, with no verdict.
LEMMA CreatingRow ==
  ASSUME IInv, NEW s \in StoryIds, Creating(s)
  PROVE  /\ rows'[s].status = "ACTIVE" /\ rows'[s].moderation = "none" /\ ~rows'[s].deleted
         /\ rows'[s].ttl = Lifetime
         /\ \A t \in StoryIds \ {s} : rows'[t] = rows[t]
  BY DEF IInv, TypeOK, Creating, NewRow

\* A row that is swept is EXPIRED; the others stay.
LEMMA SweepingRow ==
  ASSUME IInv, NEW S \in SUBSET StoryIds, Sweeping(S), NEW s \in StoryIds
  PROVE  /\ rows'[s].status = IF s \in S THEN "EXPIRED" ELSE rows[s].status
         /\ rows'[s].moderation = rows[s].moderation
         /\ rows'[s].deleted = rows[s].deleted /\ rows'[s].ttl = rows[s].ttl
<1>1. rows[s] \in Row
  BY DEF IInv, TypeOK
<1>2. rows'[s] = IF s \in S THEN [rows[s] EXCEPT !.status = "EXPIRED", !.idle = 0] ELSE rows[s]
  BY DEF Sweeping
<1>3. CASE s \in S
  <2>1. [rows[s] EXCEPT !.status = "EXPIRED", !.idle = 0].ttl = rows[s].ttl
    BY <1>1 DEF Row
  <2>2. QED BY <1>1, <1>2, <1>3, <2>1, SweptRow
<1>4. CASE s \notin S
  BY <1>2, <1>4
<1>5. QED BY <1>3, <1>4

\* Time changes neither the status nor the verdict of a row.
LEMMA TickRow ==
  ASSUME IInv, Tick, NEW s \in StoryIds
  PROVE  /\ rows'[s].status = rows[s].status /\ rows'[s].moderation = rows[s].moderation
         /\ rows'[s].deleted = rows[s].deleted
         /\ rows[s].ttl = 0 => rows'[s].ttl = 0
<1>1. rows[s] \in Row
  BY DEF IInv, TypeOK
<1>2. rows'[s] = Older(rows[s])
  BY DEF Tick
<1>3. rows[s].ttl = 0 => Older(rows[s]).ttl = 0
  BY <1>1 DEF Older, Row
<1>4. QED BY <1>1, <1>2, <1>3, OlderRow

-----------------------------------------------------------------------------
(* What the steps keep of a row, and who rules on it.                      *)

\* A row that exists keeps its owner, and stays deleted once it is.
LEMMA RowsKept ==
  ASSUME IInv, [Next]_vars, NEW s \in StoryIds, Exists(s)
  PROVE  /\ Exists(s)' /\ rows'[s].owner = rows[s].owner
         /\ rows[s].deleted => rows'[s].deleted
<1>1. rows[s] \in Row /\ rows \in [StoryIds -> Row]
  BY DEF IInv, TypeOK
<1>2. RowStep
  BY RowSteps
<1>3. CASE UNCHANGED rows
  BY <1>3 DEF Exists
<1>4. ASSUME NEW t \in StoryIds, Creating(t)
      PROVE  rows'[s] = rows[s]
  BY <1>1, <1>4 DEF Creating
<1>5. ASSUME NEW t \in StoryIds, Deleting(t)
      PROVE  /\ rows'[s].status \in {rows[s].status, "EXPIRED"}
             /\ rows'[s].owner = rows[s].owner
             /\ rows[s].deleted => rows'[s].deleted
  <2>1. CASE s # t
    BY <1>5, <2>1, DeletingRow
  <2>2. CASE s = t
    <3> DEFINE row == [rows[s] EXCEPT !.deleted = TRUE, !.status = "EXPIRED"]
    <3>1. row \in Row /\ row.owner = rows[s].owner
      BY <1>1, DeletedRow DEF Row
    <3>2. rows'[s] = [row EXCEPT !.idle = 0]
      BY <1>1, <1>5, <2>2 DEF Deleting, Write
    <3> HIDE DEF row
    <3>3. [row EXCEPT !.idle = 0].owner = row.owner
      BY <3>1 DEF Row
    <3>4. QED BY <1>5, <2>2, <3>1, <3>2, <3>3, DeletingRow
  <2>3. QED BY <2>1, <2>2
<1>6. ASSUME NEW t \in StoryIds, NEW st \in StoryStatus, NEW v \in StoryModerationStatus,
             Ruling(t, st, v)
      PROVE  /\ rows'[s].status \in StoryStatus \cup {rows[s].status}
             /\ rows'[s].owner = rows[s].owner /\ rows'[s].deleted = rows[s].deleted
  <2>1. CASE s # t
    BY <1>6, <2>1, RulingRow
  <2>2. CASE s = t
    <3> DEFINE row == Ruled(rows[s], st, v)
    <3>1. row \in Row /\ row.owner = rows[s].owner
      BY <1>1, RuledRow DEF Row, Ruled
    <3>2. rows'[s] = [row EXCEPT !.idle = 0]
      BY <1>1, <1>6, <2>2 DEF Ruling, Write
    <3> HIDE DEF row
    <3>3. [row EXCEPT !.idle = 0].owner = row.owner
      BY <3>1 DEF Row
    <3>4. QED BY <1>6, <2>2, <3>1, <3>2, <3>3, RulingRow
  <2>3. QED BY <2>1, <2>2
<1>7. ASSUME NEW S \in SUBSET StoryIds, Sweeping(S)
      PROVE  /\ rows'[s].status \in {rows[s].status, "EXPIRED"}
             /\ rows'[s].owner = rows[s].owner /\ rows'[s].deleted = rows[s].deleted
  BY <1>1, <1>7, SweptRow DEF Sweeping
<1>8. CASE Tick
  BY <1>1, <1>8, OlderRow DEF Tick, Exists
<1>9. ASSUME /\ rows'[s].status \in StoryStatus \cup {rows[s].status, "EXPIRED"}
             /\ rows'[s].owner = rows[s].owner
             /\ rows[s].deleted => rows'[s].deleted
      PROVE  /\ Exists(s)' /\ rows'[s].owner = rows[s].owner
             /\ rows[s].deleted => rows'[s].deleted
  BY <1>9 DEF Exists, StoryStatus
<1>10. QED
  BY <1>2, <1>3, <1>4, <1>5, <1>6, <1>7, <1>8, <1>9 DEF RowStep

\* updateMany writes only rows its find has chosen.
LEMMA ExpireRow ==
  ASSUME IInv, NEW h \in Handlers, ExpireDue(h), NEW s \in StoryIds
  PROVE  /\ rows'[s].deleted = rows[s].deleted
         /\ s \notin reqs[h].due => rows'[s] = rows[s]
<1>1. reqs[h].due \in SUBSET StoryIds /\ rows' = Swept(reqs[h].due)
  BY DEF ExpireDue, IInv, TypeOK, Request
<1>2. QED BY <1>1, SweptRows

\* An admin's write rules on the row of its request.
LEMMA StoreStatusRow ==
  ASSUME IInv, NEW r \in Requests, StoreStatus(r), NEW s \in StoryIds
  PROVE  /\ rows'[s].deleted = rows[s].deleted
         /\ s # reqs[r].id => rows'[s] = rows[s]
         /\ s = reqs[r].id => /\ rows'[s].status = reqs[r].status
                              /\ rows'[s].moderation = reqs[r].moderation
<1>1. /\ r \in Handlers /\ reqs[r].id \in StoryIds /\ Exists(reqs[r].id)
      /\ reqs[r].status \in StoryStatus /\ reqs[r].moderation \in StoryModerationStatus
      /\ reqs[r].status = "ACTIVE" => reqs[r].moderation = "APPROVED"
  BY RequestType DEF StoreStatus, RequestOK, Request, Exists, Handlers
<1>2. Ruling(reqs[r].id, reqs[r].status, reqs[r].moderation)
  BY <1>1 DEF StoreStatus, Ruling, Ruled
<1>3. QED BY <1>1, <1>2, RulingRow

\* A moderation's write rules on its story.
LEMMA StoreVerdictRow ==
  ASSUME IInv, NEW t \in StoryIds, StoreVerdict(t), NEW s \in StoryIds
  PROVE  /\ rows'[s].deleted = rows[s].deleted
         /\ s # t => rows'[s] = rows[s]
         /\ s = t => /\ rows'[s].status = mods[s].status
                    /\ rows'[s].moderation = mods[s].moderation
<1>1. /\ Exists(t)
      /\ mods[t].status \in StoryStatus /\ mods[t].moderation \in StoryModerationStatus
      /\ mods[t].status = "ACTIVE" => mods[t].moderation = "APPROVED"
  BY ModerationType DEF StoreVerdict, ModerationOK, ModerationRun, Exists
<1>2. Ruling(t, mods[t].status, mods[t].moderation)
  BY <1>1 DEF StoreVerdict, Ruling, Ruled
<1>3. QED BY <1>1, <1>2, RulingRow

\* The catch of moderation touches neither the status nor the deletion.
LEMMA ModerationErrorRow ==
  ASSUME IInv, NEW t \in StoryIds, ModerationError(t), NEW s \in StoryIds
  PROVE  rows'[s].status = rows[s].status /\ rows'[s].deleted = rows[s].deleted
<1>1. rows \in [StoryIds -> Row] /\ rows[t] \in Row
  BY DEF IInv, TypeOK
<1> DEFINE row == [[rows[t] EXCEPT !.moderation = "ERROR"] EXCEPT !.idle = 0]
<1>2. row.status = rows[t].status /\ row.deleted = rows[t].deleted
  BY <1>1 DEF Row
<1>3. UNCHANGED rows \/ rows' = [rows EXCEPT ![t] = row]
  BY DEF ModerationError, Write
<1> HIDE DEF row
<1>4. QED BY <1>1, <1>2, <1>3

\* While the service works, the status or the deletion of a row changes by a
\* deletion, a sweep that had chosen it, an admin's write or its moderation's.
LEMMA WorkRules ==
  ASSUME IInv, Work, NEW s \in StoryIds, Exists(s),
         rows'[s].status # rows[s].status \/ rows'[s].deleted # rows[s].deleted
  PROVE  \/ \E r \in Requests : DeletionMark(r) /\ reqs[r].id = s
         \/ /\ rows'[s].deleted = rows[s].deleted
            /\ \/ \E h \in Handlers : SweepUpdateMany(h) /\ s \in reqs[h].due
               \/ \E r \in Requests : AdminWrite(r) /\ reqs[r].id = s
               \/ ModerationWrite(s)
<1>1. rows \in [StoryIds -> Row]
  BY DEF IInv, TypeOK
<1>2. ASSUME NEW r \in Requests, DeletionMark(r) PROVE reqs[r].id = s
  BY <1>1, <1>2 DEF DeletionMark, Write
<1>3. ASSUME NEW r \in Requests, AdminWrite(r)
      PROVE  reqs[r].id = s /\ rows'[s].deleted = rows[s].deleted
  BY <1>3, StoreStatusRow DEF AdminWrite
<1>4. ASSUME NEW r \in Requests, NEW t \in StoryIds, CreateStory(r, t) PROVE FALSE
  BY <1>1, <1>4 DEF CreateStory, InsertStory
<1>5. ASSUME NEW r \in Requests, RequestStarts(r) \/ RequestStep(r)
      PROVE  DeletionMark(r) \/ AdminWrite(r)
  BY <1>4, <1>5 DEF RequestStarts, StartConfirm, StartRemove, StartAdminDelete, StartAdminStatus, StartOnStory,
     RequestStep, EnsureObjectExists, ConfirmLookup, CreateRefused, StartModeration, DeletionFind,
     DeletionCleanup, AdminFind
<1>6. ASSUME NEW h \in Handlers, Sweep(h)
      PROVE  SweepUpdateMany(h) /\ s \in reqs[h].due /\ rows'[s].deleted = rows[s].deleted
  <2>1. SweepUpdateMany(h)
    BY <1>6 DEF Sweep, SweepFindMany
  <2>2. QED BY <2>1, ExpireRow DEF SweepUpdateMany
<1>7. ASSUME NEW t \in StoryIds, ModerationStep(t)
      PROVE  ModerationWrite(t) /\ s = t /\ rows'[s].deleted = rows[s].deleted
  <2>1. ModerationWrite(t)
    BY <1>7, ModerationErrorRow DEF ModerationStep, ModerationFind, ModerationAnalyze, ModerationWriteFails
  <2>2. QED BY <2>1, StoreVerdictRow DEF ModerationWrite
<1>8. ~Tick
  BY TickRow
<1>9. QED
  BY <1>2, <1>3, <1>5, <1>6, <1>7, <1>8 DEF Work, Upload

\* A fault deletes nothing.
LEMMA FaultDeletesNothing ==
  ASSUME IInv, Fault, NEW s \in StoryIds, Exists(s)
  PROVE  rows'[s].deleted = rows[s].deleted
<1>1. ASSUME NEW h \in Handlers, SweepUnanswered(h) PROVE rows'[s].deleted = rows[s].deleted
  BY <1>1, ExpireRow DEF SweepUnanswered
<1>2. ASSUME NEW r \in Requests, AdminWriteUnanswered(r) PROVE rows'[s].deleted = rows[s].deleted
  BY <1>2, StoreStatusRow DEF AdminWriteUnanswered
<1>3. ASSUME NEW r \in Requests, NEW t \in StoryIds, CreateUnanswered(r, t)
      PROVE  rows'[s].deleted = rows[s].deleted
  BY <1>3 DEF CreateUnanswered, InsertStory, IInv, TypeOK
<1>4. ASSUME NEW t \in StoryIds, ModerationWriteUnanswered(t) PROVE rows'[s].deleted = rows[s].deleted
  BY <1>4, StoreVerdictRow DEF ModerationWriteUnanswered
<1>5. QED BY <1>1, <1>2, <1>3, <1>4 DEF Fault, Abandon, EventSettles, Crash

-----------------------------------------------------------------------------

\* One step takes a story back to ACTIVE only with an approval.
LEMMA ReturnStep ==
  ASSUME IInv, [Next]_vars, NEW s \in StoryIds, Exists(s), rows[s].status # "ACTIVE",
         rows'[s].status = "ACTIVE"
  PROVE  rows'[s].moderation = "APPROVED"
<1>1. ASSUME NEW t \in StoryIds, Creating(t) PROVE t # s
  BY <1>1 DEF Creating
<1>2. ASSUME NEW t \in StoryIds, Creating(t) PROVE FALSE
  BY <1>1, <1>2, CreatingRow
<1>3. ASSUME NEW t \in StoryIds, Deleting(t) PROVE FALSE
  BY <1>3, DeletingRow
<1>4. ASSUME NEW t \in StoryIds, NEW st \in StoryStatus, NEW v \in StoryModerationStatus, Ruling(t, st, v)
      PROVE  rows'[s].moderation = "APPROVED"
  <2>1. s = t
    BY <1>4, RulingRow
  <2>2. QED BY <1>4, <2>1, RulingRow DEF Ruling
<1>5. ASSUME NEW S \in SUBSET StoryIds, Sweeping(S) PROVE FALSE
  BY <1>5, SweepingRow
<1>6. CASE Tick
  BY <1>6, TickRow
<1>7. QED
  BY <1>2, <1>3, <1>4, <1>5, <1>6, RowSteps DEF RowStep

\* A story taken out of ACTIVE returns only by a write that approves it.
THEOREM OnlyApprovalReturns == Spec => ReturnsOnlyApproved
<1>1. IInv /\ [Next]_vars =>
        [\A s \in StoryIds :
           /\ Exists(s) /\ rows[s].status # "ACTIVE"
           /\ rows'[s].status = "ACTIVE"
           => rows'[s].moderation = "APPROVED"]_vars
  BY ReturnStep
<1>2. QED BY <1>1, Invariance, PTL DEF Spec, ReturnsOnlyApproved

-----------------------------------------------------------------------------
(* The refinement: each kind of step is one of StoryLifecycle's, or a stutter. *)

PhaseOf == [s \in StoryIds |-> Phase(rows[s])]
VerdictsOf == [s \in StoryIds |-> VerdictOn(rows[s])]

\* A row created is a story published.
LEMMA CreatingPublishes ==
  ASSUME IInv, NEW s \in StoryIds, Creating(s)
  PROVE  Lifecycle!Publish(s)
<1>2. Phase(rows[s]) = "absent" /\ Phase(rows'[s]) = "shown"
  BY CreatingRow, StoriesAssumption DEF Creating, Exists, Phase
<1>3. VerdictOn(rows[s]) = "pending" /\ VerdictOn(rows'[s]) = "pending"
  BY CreatingRow DEF Creating, Exists, VerdictOn
<1>4. \A t \in StoryIds : t # s => rows'[t] = rows[t]
  BY CreatingRow
<1>5. PhaseOf' = [PhaseOf EXCEPT ![s] = "shown"]
  BY <1>2, <1>4 DEF PhaseOf
<1>6. VerdictsOf' = VerdictsOf
  BY <1>3, <1>4 DEF VerdictsOf
<1>7. QED BY <1>2, <1>5, <1>6 DEF Lifecycle!Publish, PhaseOf, VerdictsOf

\* A row deleted is a story ended.
LEMMA DeletingEnds ==
  ASSUME IInv, NEW s \in StoryIds, Deleting(s)
  PROVE  Lifecycle!End({s})
<1>1. Phase(rows[s]) # "absent" /\ Phase(rows'[s]) = "ended"
  BY DeletingRow DEF Deleting, Exists, Phase
<1>2. VerdictOn(rows'[s]) = VerdictOn(rows[s])
  BY DeletingRow DEF Deleting, Exists, VerdictOn
<1>3. \A t \in StoryIds : t # s => rows'[t] = rows[t]
  BY DeletingRow
<1>4. PhaseOf' = [t \in StoryIds |-> IF t \in {s} THEN "ended" ELSE PhaseOf[t]]
  BY <1>1, <1>3 DEF PhaseOf
<1>5. VerdictsOf' = VerdictsOf
  BY <1>2, <1>3 DEF VerdictsOf
<1>6. QED BY <1>1, <1>4, <1>5 DEF Lifecycle!End, PhaseOf, VerdictsOf

\* Rows swept are stories retired.
LEMMA SweepingRetires ==
  ASSUME IInv, NEW S \in SUBSET StoryIds, Sweeping(S)
  PROVE  Lifecycle!Retire(S)
<1>1. ASSUME NEW s \in StoryIds
      PROVE  /\ Phase(rows'[s]) = IF s \in S /\ Phase(rows[s]) = "shown" THEN "hidden" ELSE Phase(rows[s])
             /\ VerdictOn(rows'[s]) = VerdictOn(rows[s])
  <2>1. CASE s \in S
    <3>1. /\ rows[s].status # "ABSENT" /\ rows'[s].status = "EXPIRED"
          /\ rows'[s].moderation = rows[s].moderation
          /\ rows'[s].deleted = rows[s].deleted /\ rows'[s].ttl = rows[s].ttl
      <4>1. Exists(s)
        BY <2>1 DEF Sweeping
      <4>2. /\ rows'[s].status = IF s \in S THEN "EXPIRED" ELSE rows[s].status
            /\ rows'[s].moderation = rows[s].moderation
            /\ rows'[s].deleted = rows[s].deleted /\ rows'[s].ttl = rows[s].ttl
        BY SweepingRow
      <4>3. QED BY <2>1, <4>1, <4>2 DEF Exists
    <3>2. QED BY <2>1, <3>1 DEF Phase, VerdictOn
  <2>2. CASE s \notin S
    <3>1. rows'[s] = rows[s]
      BY <2>2 DEF Sweeping
    <3>2. QED BY <2>2, <3>1
  <2>3. QED BY <2>1, <2>2
<1>2. PhaseOf' = [s \in StoryIds |-> IF s \in S /\ PhaseOf[s] = "shown" THEN "hidden" ELSE PhaseOf[s]]
  BY <1>1 DEF PhaseOf
<1>3. VerdictsOf' = VerdictsOf
  BY <1>1 DEF VerdictsOf
<1>4. QED BY <1>2, <1>3 DEF Lifecycle!Retire, PhaseOf, VerdictsOf

\* A row ruled on is a story judged.
LEMMA RulingJudges ==
  ASSUME IInv, NEW s \in StoryIds, NEW st \in StoryStatus, NEW v \in StoryModerationStatus, Ruling(s, st, v)
  PROVE  \E w \in Lifecycle!Verdicts : Lifecycle!Judge(s, w)
<1> DEFINE w == VerdictOn(rows'[s])
<1>1. /\ rows'[s].status # "ABSENT" /\ Phase(rows[s]) # "absent"
      /\ w \in Lifecycle!Verdicts
  BY RulingRow, AbsentIsNoStatus DEF Ruling, Exists, Phase, VerdictOn, Lifecycle!Verdicts
<1>2. Phase(rows'[s]) \in Lifecycle!Outcomes(Phase(rows[s]), w)
  <2>1. /\ rows[s].status # "ABSENT" /\ rows'[s].status = st /\ st # "ABSENT"
        /\ rows'[s].moderation = v
        /\ rows'[s].deleted = rows[s].deleted /\ rows'[s].ttl = rows[s].ttl
        /\ st = "ACTIVE" => v = "APPROVED" \/ (v = "ERROR" /\ rows[s].status = "ACTIVE")
    BY <1>1, RulingRow DEF Ruling, Exists
  <2>2. CASE rows[s].deleted \/ rows[s].ttl = 0
    <3>1. Phase(rows'[s]) = "ended" /\ Phase(rows[s]) = "ended"
      BY <2>1, <2>2 DEF Phase
    <3> HIDE DEF w
    <3>2. QED BY <3>1 DEF Lifecycle!Outcomes
  <2>3. CASE ~(rows[s].deleted \/ rows[s].ttl = 0)
    <3>1. /\ Phase(rows'[s]) = IF st = "ACTIVE" THEN "shown" ELSE "hidden"
          /\ Phase(rows[s]) = IF rows[s].status = "ACTIVE" THEN "shown" ELSE "hidden"
      BY <2>1, <2>3 DEF Phase
    <3>2. w = IF v \in {"none", "ERROR"} THEN "pending"
              ELSE IF v = "APPROVED" THEN "approved" ELSE "rejected"
      BY <2>1 DEF VerdictOn
    <3> HIDE DEF w
    <3>3. Phase(rows[s]) # "ended"
      BY <3>1
    <3>4. CASE st = "ACTIVE"
      <4>1. w = "approved" \/ (w = "pending" /\ Phase(rows[s]) = "shown")
        BY <2>1, <3>1, <3>2, <3>4
      <4>2. QED BY <3>1, <3>3, <3>4, <4>1 DEF Lifecycle!Outcomes
    <3>5. CASE st # "ACTIVE"
      <4>1. w \in {"pending", "approved", "rejected"} /\ Phase(rows'[s]) = "hidden"
        BY <3>1, <3>2, <3>5
      <4>2. QED BY <3>3, <4>1 DEF Lifecycle!Outcomes
    <3>6. QED BY <3>4, <3>5
  <2>4. QED BY <2>2, <2>3
<1>3. \A t \in StoryIds : t # s => rows'[t] = rows[t]
  BY RulingRow
<1>4. PhaseOf' = [PhaseOf EXCEPT ![s] = Phase(rows'[s])]
  BY <1>3 DEF PhaseOf
<1>5. VerdictsOf' = [VerdictsOf EXCEPT ![s] = w]
  BY <1>3 DEF VerdictsOf
<1>6. Lifecycle!Judge(s, w)
  BY <1>1, <1>2, <1>4, <1>5 DEF Lifecycle!Judge, PhaseOf, VerdictsOf
<1>7. QED BY <1>1, <1>6

\* Time ends the stories whose lifetime it completes.
LEMMA TickEnds ==
  ASSUME IInv, Tick
  PROVE  \E S \in SUBSET StoryIds : Lifecycle!End(S)
<1> DEFINE S == {s \in StoryIds : Exists(s) /\ rows'[s].ttl = 0}
<1>1. ASSUME NEW s \in StoryIds
      PROVE  /\ s \in S => Phase(rows[s]) # "absent"
             /\ Phase(rows'[s]) = IF s \in S THEN "ended" ELSE Phase(rows[s])
             /\ VerdictOn(rows'[s]) = VerdictOn(rows[s])
  BY TickRow DEF Exists, Phase, VerdictOn
<1> HIDE DEF S
<1>2. PhaseOf' = [s \in StoryIds |-> IF s \in S THEN "ended" ELSE PhaseOf[s]]
  BY <1>1 DEF PhaseOf
<1>3. VerdictsOf' = VerdictsOf
  BY <1>1 DEF VerdictsOf
<1>4. S \in SUBSET StoryIds
  BY DEF S
<1>5. \A s \in S : PhaseOf[s] # "absent"
  BY <1>1, <1>4 DEF PhaseOf
<1>6. Lifecycle!End(S)
  BY <1>2, <1>3, <1>5 DEF Lifecycle!End, PhaseOf, VerdictsOf
<1>7. QED BY <1>4, <1>6

\* Whatever a step may do to the rows is a step of the lifecycle, or leaves it as it is.
LEMMA RowStepImplements == IInv /\ RowStep => [Lifecycle!Next]_(Lifecycle!vars)
<1> SUFFICES ASSUME IInv, RowStep PROVE [Lifecycle!Next]_(Lifecycle!vars)
    OBVIOUS
<1>1. CASE UNCHANGED rows
  BY <1>1 DEF Lifecycle!vars
<1>2. ASSUME NEW s \in StoryIds, Creating(s) PROVE Lifecycle!Next
  BY <1>2, CreatingPublishes DEF Lifecycle!Next
<1>3. ASSUME NEW s \in StoryIds, Deleting(s) PROVE Lifecycle!Next
  BY <1>3, DeletingEnds DEF Lifecycle!Next
<1>4. ASSUME NEW s \in StoryIds, NEW st \in StoryStatus, NEW v \in StoryModerationStatus, Ruling(s, st, v)
      PROVE  Lifecycle!Next
  BY <1>4, RulingJudges DEF Lifecycle!Next
<1>5. ASSUME NEW S \in SUBSET StoryIds, Sweeping(S) PROVE Lifecycle!Next
  BY <1>5, SweepingRetires DEF Lifecycle!Next
<1>6. CASE Tick
  BY <1>6, TickEnds DEF Lifecycle!Next
<1>7. QED
  BY <1>1, <1>2, <1>3, <1>4, <1>5, <1>6 DEF RowStep

\* So is every step of the service.
LEMMA StepImplements == IInv /\ [Next]_vars => [Lifecycle!Next]_(Lifecycle!vars)
  BY RowSteps, RowStepImplements

\* The empty service is an empty lifecycle.
LEMMA InitImplements == Init => Lifecycle!Init
  BY DEF Init, NoRow, Phase, VerdictOn, Lifecycle!Init

\* Every behaviour of the handlers is a behaviour of the abstract lifecycle.
THEOREM StoriesImplementLifecycle == Spec => ImplementsLifecycle
<1>1. QED
  BY InitImplements, StepImplements, Invariance, PTL DEF Spec, ImplementsLifecycle, Lifecycle!Spec
=============================================================================
