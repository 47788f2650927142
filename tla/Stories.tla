------------------------------ MODULE Stories ------------------------------
(***************************************************************************)
(* The writers of the Story table: StoriesService in                       *)
(* src/stories/stories.service.ts, with the two StorageService calls and   *)
(* the catalog cache events it makes on the way.                           *)
(*                                                                         *)
(* Every handler is an async function, so other handlers run at each of    *)
(* its awaits.  An action here is one awaited call together with the       *)
(* synchronous code that follows its answer, up to the next await: the     *)
(* update data an admin request computes from the row it has just read is  *)
(* computed in the action that reads.  A cache event is fire and forget;   *)
(* it is put in flight by the action that commits the write, and stays in  *)
(* flight for as long as the code may delay it or until it is lost.        *)
(*                                                                         *)
(* Time is kept as ages: `ttl' is what is left until expiresAt and `idle'  *)
(* what has passed since updatedAt, cut off at the retention of stale      *)
(* states, so that no absolute clock has to be bounded.                    *)
(***************************************************************************)
EXTENDS Naturals, FiniteSets

CONSTANTS
    Users,           \* authenticated user ids
    Keys,            \* storage keys `stories/<userId>/<uuid>.<ext>'
    KeyOwner,        \* the userId in the prefix of a key
    StoryIds,        \* ids of Story rows
    Requests,        \* HTTP requests that may be in progress at once
    Timer,           \* the expiration sweep that setInterval starts
    Ops,             \* the operations clients call in this instance
    AdminStatuses,   \* the statuses admins ask for in this instance
    Lifetime,        \* 24 hours, in ticks
    StaleRetention,  \* STALE_STORY_STATE_RETENTION_MS, in ticks
    None             \* null

AllOps == {"confirm", "remove", "adminStatus", "adminDelete"}
StoryStatus == {"UNDER_REVIEW", "ACTIVE", "BLOCKED", "EXPIRED"}

ASSUME StoriesAssumption ==
    /\ KeyOwner \in [Keys -> Users]
    /\ Timer \notin Requests
    /\ Ops \subseteq AllOps
    /\ AdminStatuses \subseteq StoryStatus
    /\ Lifetime \in Nat \ {0}
    /\ StaleRetention \in Nat \ {0}
    /\ None \notin Users \cup Keys \cup StoryIds

VARIABLES
    rows,     \* the Story table
    objects,  \* keys with an object in the bucket
    reqs,     \* progress of each request, and of the timer's sweep
    mods,     \* progress of moderateStoryAfterPublish, per story
    events    \* owners with a catalog cache event in flight

vars == <<rows, objects, reqs, mods, events>>

-----------------------------------------------------------------------------
(* The table and the local state of the handlers. *)

StoryModerationStatus == {"none", "APPROVED", "NEEDS_REVIEW", "BLOCKED", "ERROR"}
RecommendedAction == {"APPROVE", "KEEP_VISIBLE", "SEND_TO_REVIEW", "REMOVE_PRODUCT"}

Row == [status : StoryStatus \cup {"ABSENT"}, moderation : StoryModerationStatus,
        deleted : BOOLEAN, owner : Users \cup {None}, key : Keys \cup {None},
        ttl : 0..Lifetime, idle : 0..StaleRetention]

\* An id no row has been created under.
NoRow == [status |-> "ABSENT", moderation |-> "none", deleted |-> FALSE,
          owner |-> None, key |-> None, ttl |-> 0, idle |-> 0]

\* What story.create writes.
NewRow(owner, key) ==
    [status |-> "ACTIVE", moderation |-> "none", deleted |-> FALSE,
     owner |-> owner, key |-> key, ttl |-> Lifetime, idle |-> 0]

Handlers == Requests \cup {Timer}

\* `status', `moderation' and `announce' are the update data and the
\* publish decision a handler computes from the row it has read.
Request == [op : AllOps \cup {"none"},
            pc : {"idle", "sweep", "expire", "head", "lookup", "create", "sign",
                  "find", "mark", "cleanup", "write"},
            actor : Users \cup {None}, key : Keys \cup {None},
            id : StoryIds \cup {None}, due : SUBSET StoryIds,
            status : StoryStatus \cup {"ABSENT"}, moderation : StoryModerationStatus,
            announce : BOOLEAN]

Idle == [op |-> "none", pc |-> "idle", actor |-> None, key |-> None, id |-> None,
         due |-> {}, status |-> "ABSENT", moderation |-> "none", announce |-> FALSE]

ModerationRun == [pc : {"none", "find", "analyze", "write", "fail", "done"},
                  status : StoryStatus \cup {"ABSENT"},
                  moderation : StoryModerationStatus, announce : BOOLEAN]

NotStarted == [pc |-> "none", status |-> "ABSENT", moderation |-> "none", announce |-> FALSE]
Finished == [NotStarted EXCEPT !.pc = "done"]

Exists(s) == rows[s].status # "ABSENT"
Stored(k) == \E s \in StoryIds : Exists(s) /\ rows[s].key = k

\* The where clause that listFeed, listUserStories and markViewed share.
Visible(s) == rows[s].status = "ACTIVE" /\ rows[s].ttl > 0 /\ ~rows[s].deleted

TypeOK ==
    /\ rows \in [StoryIds -> Row]
    /\ objects \subseteq Keys
    /\ reqs \in [Handlers -> Request]
    /\ mods \in [StoryIds -> ModerationRun]
    /\ events \subseteq Users

Init ==
    /\ rows = [s \in StoryIds |-> NoRow]
    /\ objects = {}
    /\ reqs = [h \in Handlers |-> Idle]
    /\ mods = [s \in StoryIds |-> NotStarted]
    /\ events = {}

\* Request h goes on as q, goes on at step `where', or is answered.
Become(h, q) == reqs' = [reqs EXCEPT ![h] = q]
Goto(h, where) == Become(h, [reqs[h] EXCEPT !.pc = where])
Answer(h) == Become(h, Idle)

\* The moderation of s goes on as m, or goes on at step `where' with nothing read.
Moderate(s, m) == mods' = [mods EXCEPT ![s] = m]
Settle(s, where) == Moderate(s, [NotStarted EXCEPT !.pc = where])

\* story.update on row s: @updatedAt moves with every write.
Write(s, row) == rows' = [rows EXCEPT ![s] = [row EXCEPT !.idle = 0]]

-----------------------------------------------------------------------------
(* Uploads and requests come in. *)

\* The client PUTs the object at the URL that createUploadUrl signed for it.
Upload(k) ==
    /\ k \notin objects
    /\ objects' = objects \cup {k}
    /\ UNCHANGED <<rows, reqs, mods, events>>

StartConfirm(r, u, k) ==
    /\ "confirm" \in Ops /\ reqs[r].pc = "idle"
    /\ Become(r, [Idle EXCEPT !.op = "confirm", !.pc = "sweep", !.actor = u, !.key = k])
    /\ UNCHANGED <<rows, objects, mods, events>>

\* The calls that name a story; an id without a row is answered 404 at once.
StartOnStory(r, op, u, s, status) ==
    /\ op \in Ops /\ reqs[r].pc = "idle"
    /\ Become(r, [Idle EXCEPT !.op = op, !.pc = "find", !.actor = u, !.id = s, !.status = status])
    /\ UNCHANGED <<rows, objects, mods, events>>

StartRemove(r, u, s) == Exists(s) /\ StartOnStory(r, "remove", u, s, "ABSENT")
StartAdminDelete(r, s) == Exists(s) /\ StartOnStory(r, "adminDelete", None, s, "ABSENT")
StartAdminStatus(r, s, status) == Exists(s) /\ StartOnStory(r, "adminStatus", None, s, status)

-----------------------------------------------------------------------------
(* expireDueStories: started by the timer, and the first thing confirmUpload does. *)

Due(row) ==
    /\ ~row.deleted
    /\ \/ row.ttl = 0 /\ row.status \in {"ACTIVE", "UNDER_REVIEW"}
       \/ /\ row.idle = StaleRetention
          /\ \/ row.status \in {"BLOCKED", "UNDER_REVIEW"}
             \/ row.status = "ACTIVE" /\ row.moderation \in {"none", "ERROR", "NEEDS_REVIEW"}

\* The sweep of h is over: confirmUpload goes on once assertStoryOwnership passes.
AfterSweep(h) ==
    IF reqs[h].op = "confirm" /\ KeyOwner[reqs[h].key] = reqs[h].actor
    THEN Become(h, [reqs[h] EXCEPT !.pc = "head", !.due = {}])
    ELSE Answer(h)

MaySweep(h) == reqs[h].pc = IF h = Timer THEN "idle" ELSE "sweep"

SweepFindMany(h) ==
    /\ MaySweep(h)
    /\ LET due == {s \in StoryIds : Due(rows[s])}
       IN  IF due = {} THEN AfterSweep(h)
           ELSE Become(h, [reqs[h] EXCEPT !.pc = "expire", !.due = due])
    /\ UNCHANGED <<rows, objects, mods, events>>

\* Mutant: updateMany does not accept the BLOCKED rows that the find is after.
ExpirableVisible(row) == ~row.deleted /\ row.status \in {"ACTIVE", "UNDER_REVIEW"}

\* updateMany repeats only these conditions, not the ages the find had checked.
Expirable(row) == ~row.deleted /\ row.status \in {"ACTIVE", "UNDER_REVIEW", "BLOCKED"}

Swept(due) ==
    [s \in StoryIds |->
        IF s \in due /\ Expirable(rows[s])
        THEN [rows[s] EXCEPT !.status = "EXPIRED", !.idle = 0] ELSE rows[s]]

ExpireDue(h) ==
    /\ reqs[h].pc = "expire"
    /\ rows' = Swept(reqs[h].due)
    /\ UNCHANGED <<objects, mods>>

SweepUpdateMany(h) ==
    /\ ExpireDue(h)
    /\ events' = events \cup {rows[s].owner : s \in reqs[h].due}
    /\ AfterSweep(h)

\* The update is committed but its answer is lost: the sweep, and the call that
\* awaits it, end there.
SweepUnanswered(h) ==
    /\ ExpireDue(h)
    /\ Answer(h)
    /\ UNCHANGED events

-----------------------------------------------------------------------------
(* confirmUpload *)

EnsureObjectExists(r) ==
    /\ reqs[r].pc = "head"
    /\ IF reqs[r].key \in objects THEN Goto(r, "lookup") ELSE Answer(r)
    /\ UNCHANGED <<rows, objects, mods, events>>

\* Mutant: confirming an upload again moderates its story again.
ConfirmLookupModerates(r) ==
    /\ reqs[r].pc = "lookup"
    /\ \/ \E s \in StoryIds :
             /\ Exists(s) /\ rows[s].key = reqs[r].key
             /\ Become(r, [reqs[r] EXCEPT !.pc = "sign", !.id = s])
       \/ ~Stored(reqs[r].key) /\ Goto(r, "create")
    /\ UNCHANGED <<rows, objects, mods, events>>

\* An existing story is returned as it is; an empty caption is refused.
ConfirmLookup(r) ==
    /\ reqs[r].pc = "lookup"
    /\ \/ Answer(r)
       \/ ~Stored(reqs[r].key) /\ Goto(r, "create")
    /\ UNCHANGED <<rows, objects, mods, events>>

\* The unique index on storagePath refuses a second row for the key.
CreateRefused(r) ==
    /\ reqs[r].pc = "create" /\ Stored(reqs[r].key)
    /\ Answer(r)
    /\ UNCHANGED <<rows, objects, mods, events>>

\* Mutant: storagePath is not unique.
CreateStoryAgain(r, s) ==
    /\ reqs[r].pc = "create" /\ ~Exists(s)
    /\ rows' = [rows EXCEPT ![s] = NewRow(reqs[r].actor, reqs[r].key)]
    /\ events' = events \cup {reqs[r].actor}
    /\ Become(r, [reqs[r] EXCEPT !.pc = "sign", !.id = s])
    /\ UNCHANGED <<objects, mods>>

InsertStory(r, s) ==
    /\ reqs[r].pc = "create" /\ ~Stored(reqs[r].key) /\ ~Exists(s)
    /\ rows' = [rows EXCEPT ![s] = NewRow(reqs[r].actor, reqs[r].key)]
    /\ UNCHANGED <<objects, mods>>

CreateStory(r, s) ==
    /\ InsertStory(r, s)
    /\ events' = events \cup {reqs[r].actor}
    /\ Become(r, [reqs[r] EXCEPT !.pc = "sign", !.id = s])

\* The insert is committed but its answer is lost: nothing is published, and the
\* story is not moderated.
CreateUnanswered(r, s) ==
    /\ InsertStory(r, s)
    /\ Answer(r)
    /\ UNCHANGED events

\* createStoryReadUrl has answered: moderation starts, without being awaited.
StartModeration(r) ==
    /\ reqs[r].pc = "sign"
    /\ Settle(reqs[r].id, "find")
    /\ Answer(r)
    /\ UNCHANGED <<rows, objects, events>>

-----------------------------------------------------------------------------
(* removeStory and adminDeleteStory *)

\* Mutant: the object is deleted before the row is marked.
DeletionFindObject(r) ==
    /\ reqs[r].pc = "find" /\ reqs[r].op \in {"remove", "adminDelete"}
    /\ LET row == rows[reqs[r].id] IN
       IF row.deleted \/ (reqs[r].op = "remove" /\ row.owner # reqs[r].actor)
       THEN Answer(r) /\ UNCHANGED objects
       ELSE /\ Become(r, [reqs[r] EXCEPT !.pc = "mark", !.key = row.key])
            /\ objects' = objects \ {row.key}
    /\ UNCHANGED <<rows, mods, events>>

DeletionFind(r) ==
    /\ reqs[r].pc = "find" /\ reqs[r].op \in {"remove", "adminDelete"}
    /\ LET row == rows[reqs[r].id] IN
       IF row.deleted \/ (reqs[r].op = "remove" /\ row.owner # reqs[r].actor)
       THEN Answer(r)
       ELSE Become(r, [reqs[r] EXCEPT !.pc = "mark", !.key = row.key])
    /\ UNCHANGED <<rows, objects, mods, events>>

DeletionMark(r) ==
    /\ reqs[r].pc = "mark"
    /\ Write(reqs[r].id, [rows[reqs[r].id] EXCEPT !.deleted = TRUE, !.status = "EXPIRED"])
    /\ Goto(r, "cleanup")
    /\ UNCHANGED <<objects, mods, events>>

\* Mutant: a failing deleteObject is not caught, and nothing is published.
DeletionCleanupUncaught(r) ==
    /\ reqs[r].pc = "cleanup"
    /\ \/ UNCHANGED <<objects, events>>
       \/ /\ objects' = objects \ {reqs[r].key}
          /\ events' = events \cup {rows[reqs[r].id].owner}
    /\ Answer(r)
    /\ UNCHANGED <<rows, mods>>

\* deleteObject succeeds or fails, the event is published either way.
DeletionCleanup(r) ==
    /\ reqs[r].pc = "cleanup"
    /\ objects' \in {objects, objects \ {reqs[r].key}}
    /\ events' = events \cup {rows[reqs[r].id].owner}
    /\ Answer(r)
    /\ UNCHANGED <<rows, mods>>

-----------------------------------------------------------------------------
(* updateAdminStoryStatus.  publishedAt is set at creation and kept by every *)
(* writer, so the event depends on the status alone.                         *)

\* Mutant: the status requested is stored as the moderation status too.
AdminModerationOfStatus(status, row) == IF status = "ACTIVE" THEN "APPROVED" ELSE status

\* Mutant: making a story ACTIVE keeps the moderation status it had.
AdminModerationKept(status, row) == IF status = "BLOCKED" THEN "BLOCKED" ELSE row.moderation

AdminModeration(status, row) ==
    CASE status = "ACTIVE"  -> "APPROVED"
      [] status = "BLOCKED" -> "BLOCKED"
      [] OTHER              -> row.moderation

\* Mutant: only a story that an admin makes ACTIVE is announced.
AdminFindQuiet(r) ==
    /\ reqs[r].pc = "find" /\ reqs[r].op = "adminStatus"
    /\ LET row == rows[reqs[r].id] IN
       IF row.deleted THEN Answer(r)
       ELSE Become(r, [reqs[r] EXCEPT !.pc = "write",
                                      !.moderation = AdminModeration(reqs[r].status, row),
                                      !.announce = (reqs[r].status = "ACTIVE" /\ row.status # "ACTIVE")])
    /\ UNCHANGED <<rows, objects, mods, events>>

AdminFind(r) ==
    /\ reqs[r].pc = "find" /\ reqs[r].op = "adminStatus"
    /\ LET row == rows[reqs[r].id] IN
       IF row.deleted THEN Answer(r)
       ELSE Become(r, [reqs[r] EXCEPT !.pc = "write",
                                      !.moderation = AdminModeration(reqs[r].status, row),
                                      !.announce = (reqs[r].status # row.status)])
    /\ UNCHANGED <<rows, objects, mods, events>>

\* The update is by id alone: whatever happened to the row since is overwritten.
StoreStatus(r) ==
    /\ reqs[r].pc = "write"
    /\ Write(reqs[r].id, [rows[reqs[r].id] EXCEPT !.status = reqs[r].status,
                                                  !.moderation = reqs[r].moderation])
    /\ Answer(r)
    /\ UNCHANGED <<objects, mods>>

AdminWrite(r) ==
    /\ StoreStatus(r)
    /\ events' = IF reqs[r].announce THEN events \cup {rows[reqs[r].id].owner} ELSE events

AdminWriteUnanswered(r) == StoreStatus(r) /\ UNCHANGED events

-----------------------------------------------------------------------------
(* moderateStoryAfterPublish *)

\* A deleted or expired story is left alone; a failing query goes to the catch.
ModerationFind(s) ==
    /\ mods[s].pc = "find"
    /\ \/ Settle(s, "fail")
       \/ (rows[s].deleted \/ rows[s].status = "EXPIRED") /\ Settle(s, "done")
       \/ /\ ~rows[s].deleted /\ rows[s].status # "EXPIRED"
          /\ Moderate(s, [NotStarted EXCEPT !.pc = "analyze", !.status = rows[s].status])
    /\ UNCHANGED <<rows, objects, reqs, events>>

IsApproved(action) == action \in {"APPROVE", "KEEP_VISIBLE"}

\* Mutant: a rejection leaves the status as it was.
VerdictWithoutBlocking(action, seen) ==
    [pc |-> "write", status |-> seen,
     moderation |-> IF IsApproved(action) THEN "APPROVED" ELSE "NEEDS_REVIEW",
     announce |-> ~IsApproved(action)]

\* Mutant: KEEP_VISIBLE keeps the story as it was, but is not stored as APPROVED.
VerdictOfApprove(action, seen) ==
    IF IsApproved(action)
    THEN [pc |-> "write", status |-> seen, announce |-> FALSE,
          moderation |-> IF action = "APPROVE" THEN "APPROVED" ELSE "none"]
    ELSE [pc |-> "write", status |-> "BLOCKED", moderation |-> "BLOCKED",
          announce |-> seen # "BLOCKED"]

\* Mutant: a removal by the verdict is not announced.
VerdictQuietRemoval(action, seen) ==
    IF IsApproved(action)
    THEN [pc |-> "write", status |-> seen, moderation |-> "APPROVED", announce |-> FALSE]
    ELSE [pc |-> "write", status |-> "BLOCKED",
          moderation |-> IF action = "REMOVE_PRODUCT" THEN "BLOCKED" ELSE "NEEDS_REVIEW",
          announce |-> seen # "BLOCKED" /\ action # "REMOVE_PRODUCT"]

\* The update data for an answer of the analyzer, from the status read before the call.
Verdict(action, seen) ==
    IF IsApproved(action)
    THEN [pc |-> "write", status |-> seen, moderation |-> "APPROVED", announce |-> FALSE]
    ELSE [pc |-> "write", status |-> "BLOCKED",
          moderation |-> IF action = "REMOVE_PRODUCT" THEN "BLOCKED" ELSE "NEEDS_REVIEW",
          announce |-> seen # "BLOCKED"]

\* No worker, an HTTP error, a timeout or an unusable answer: the catch.
ModerationAnalyze(s) ==
    /\ mods[s].pc = "analyze"
    /\ \/ \E action \in RecommendedAction : Moderate(s, Verdict(action, mods[s].status))
       \/ Settle(s, "fail")
    /\ UNCHANGED <<rows, objects, reqs, events>>

StoreVerdict(s) ==
    /\ mods[s].pc = "write"
    /\ Write(s, [rows[s] EXCEPT !.status = mods[s].status, !.moderation = mods[s].moderation])
    /\ UNCHANGED <<objects, reqs>>

ModerationWrite(s) ==
    /\ StoreVerdict(s)
    /\ events' = IF mods[s].announce THEN events \cup {rows[s].owner} ELSE events
    /\ Settle(s, "done")

\* The update is committed but its answer is lost: the catch, without an event.
ModerationWriteUnanswered(s) ==
    /\ StoreVerdict(s)
    /\ UNCHANGED events
    /\ Settle(s, "fail")

ModerationWriteFails(s) ==
    /\ mods[s].pc = "write"
    /\ Settle(s, "fail")
    /\ UNCHANGED <<rows, objects, reqs, events>>

\* The catch stores ERROR; when that fails too, nothing is stored.
ModerationError(s) ==
    /\ mods[s].pc = "fail"
    /\ \/ UNCHANGED rows
       \/ Write(s, [rows[s] EXCEPT !.moderation = "ERROR"])
    /\ Settle(s, "done")
    /\ UNCHANGED <<objects, reqs, events>>

-----------------------------------------------------------------------------
(* Time, the network and failures. *)

Older(row) ==
    IF row.status = "ABSENT" THEN row
    ELSE [row EXCEPT !.ttl = IF @ > 0 THEN @ - 1 ELSE 0,
                     !.idle = IF @ < StaleRetention THEN @ + 1 ELSE @]

Tick ==
    /\ rows' = [s \in StoryIds |-> Older(rows[s])]
    /\ rows' # rows
    /\ UNCHANGED <<objects, reqs, mods, events>>

\* publishAsync: the event has reached Catalog, or the call has failed for good.
EventSettles(u) ==
    /\ u \in events
    /\ events' = events \ {u}
    /\ UNCHANGED <<rows, objects, reqs, mods>>

\* An awaited call of h rejects and the handler ends with it.
Abandon(h) ==
    /\ reqs[h].pc # "idle"
    /\ Answer(h)
    /\ UNCHANGED <<rows, objects, mods, events>>

\* The process dies: what was in memory is gone, and nobody resumes it.
Crash ==
    /\ reqs' = [h \in Handlers |-> Idle]
    /\ mods' = [s \in StoryIds |-> IF mods[s].pc = "none" THEN mods[s] ELSE Finished]
    /\ events' = {}
    /\ UNCHANGED <<rows, objects>>

-----------------------------------------------------------------------------

RequestStarts(r) ==
    \/ \E u \in Users, k \in Keys : StartConfirm(r, u, k)
    \/ \E u \in Users, s \in StoryIds : StartRemove(r, u, s)
    \/ \E s \in StoryIds : StartAdminDelete(r, s)
    \/ \E s \in StoryIds, status \in AdminStatuses : StartAdminStatus(r, s, status)

RequestStep(r) ==
    \/ EnsureObjectExists(r) \/ ConfirmLookup(r) \/ CreateRefused(r)
    \/ \E s \in StoryIds : CreateStory(r, s)
    \/ StartModeration(r)
    \/ DeletionFind(r) \/ DeletionMark(r) \/ DeletionCleanup(r)
    \/ AdminFind(r) \/ AdminWrite(r)

Sweep(h) == SweepFindMany(h) \/ SweepUpdateMany(h)

ModerationStep(s) ==
    \/ ModerationFind(s) \/ ModerationAnalyze(s) \/ ModerationWrite(s)
    \/ ModerationWriteFails(s) \/ ModerationError(s)

Work ==
    \/ \E k \in Keys : Upload(k)
    \/ \E r \in Requests : RequestStarts(r) \/ RequestStep(r)
    \/ \E h \in Handlers : Sweep(h)
    \/ \E s \in StoryIds : ModerationStep(s)
    \/ Tick

Fault ==
    \/ \E h \in Handlers : Abandon(h) \/ SweepUnanswered(h)
    \/ \E r \in Requests : AdminWriteUnanswered(r) \/ \E s \in StoryIds : CreateUnanswered(r, s)
    \/ \E s \in StoryIds : ModerationWriteUnanswered(s)
    \/ \E u \in Users : EventSettles(u)
    \/ Crash

Next == Work \/ Fault

Spec == Init /\ [][Next]_vars

(***************************************************************************)
(* Fairness.  setInterval keeps starting sweeps whatever became of the     *)
(* last one (main.ts only logs an unhandled rejection), and a database     *)
(* that is up again and again lets one of them complete again and again:   *)
(* strong fairness for its update.  Time passes.  Clients owe nothing.     *)
(***************************************************************************)
Fairness ==
    /\ WF_vars(Tick)
    /\ WF_vars(SweepFindMany(Timer))
    /\ SF_vars(SweepUpdateMany(Timer))

FairSpec == Spec /\ Fairness

-----------------------------------------------------------------------------
(* What the writers keep. *)

\* However confirmations are interleaved, retried, abandoned or sent by someone
\* else, an uploaded object backs at most one story, and that story belongs to
\* the user under whose prefix the object was uploaded (confirmUpload checks the
\* prefix, looks the key up, and only then inserts).
OneStoryPerUpload ==
    \A s \in StoryIds : Exists(s) =>
        /\ rows[s].owner = KeyOwner[rows[s].key]
        /\ \A t \in StoryIds \ {s} : Exists(t) => rows[t].key # rows[s].key

\* No order of the moderation verdict, the sweep and the admins' updates leaves
\* a story ACTIVE under a rejection, although each of them writes status and
\* moderationStatus from a row it read earlier.
ActiveNeverRejected ==
    \A s \in StoryIds :
        rows[s].status = "ACTIVE" => rows[s].moderation \notin {"NEEDS_REVIEW", "BLOCKED"}

\* A story that is not deleted has its image: removeStory and adminDeleteStory
\* delete the object only after deletedAt is stored, also when two deletions of
\* the story overlap or either of them stops half way.
LiveMediaExists ==
    \A s \in StoryIds : Exists(s) /\ ~rows[s].deleted => rows[s].key \in objects

\* A story that has been taken out of ACTIVE comes back only by a write that
\* stores APPROVED with it, be it the admin's or a late moderation's.
ReturnsOnlyApproved ==
    [][\A s \in StoryIds :
           /\ Exists(s) /\ rows[s].status # "ACTIVE"
           /\ rows'[s].status = "ACTIVE"
           => rows'[s].moderation = "APPROVED"]_vars

Ended(s) == rows[s].deleted \/ rows[s].status = "EXPIRED"

\* Every story ends up deleted or EXPIRED and stays so, whatever state moderation
\* or the admins left it in, even if a late verdict revives it, and however often
\* sweeps fail or the process restarts; unless admins update it for ever.
EveryStoryEnds ==
    \A s \in StoryIds :
        \/ Exists(s) ~> []Ended(s)
        \/ []<><<\E r \in Requests : reqs[r].id = s /\ StoreStatus(r)>>_vars

\* What users see of a story, and the last verdict on it.
Phase(row) ==
    IF row.status = "ABSENT" THEN "absent"
    ELSE IF row.deleted \/ row.ttl = 0 THEN "ended"
    ELSE IF row.status = "ACTIVE" THEN "shown" ELSE "hidden"

VerdictOn(row) ==
    IF row.status = "ABSENT" \/ row.moderation \in {"none", "ERROR"} THEN "pending"
    ELSE IF row.moderation = "APPROVED" THEN "approved" ELSE "rejected"

Lifecycle == INSTANCE StoryLifecycle WITH
    phase <- [s \in StoryIds |-> Phase(rows[s])],
    verdict <- [s \in StoryIds |-> VerdictOn(rows[s])]

\* Every interleaving of the handlers, with the failures and restarts between
\* their steps, is a behaviour of StoryLifecycle: no stale write shows a story
\* that has ended, or one that is hidden without an approval.
ImplementsLifecycle == Lifecycle!Spec

\* The text stored with ERROR: "Tu historia sigue visible mientras lo
\* reintentamos".  A story that is visible under ERROR stays visible until its
\* owner removes it, its 24 hours are over, or a retry stores another verdict.
ErrorKeepsVisible ==
    [][\A s \in StoryIds :
           Visible(s) /\ rows[s].moderation = "ERROR"
           => \/ Visible(s)'
              \/ rows'[s].deleted \/ rows'[s].ttl = 0
              \/ rows'[s].moderation # "ERROR"]_vars
=============================================================================
