------------------------- MODULE CompositionProofs --------------------------
(***************************************************************************)
(* Proofs about what is composed with Stories, for any users, uploads,     *)
(* rows, requests and ages.  CatalogSync: what Catalog still lists of a    *)
(* story that may no longer be seen is about to be corrected, or there is  *)
(* a reason on record why it is not.  OwnerNotices, and OwnerLists in it:  *)
(* what the owner's lists show, and when an owner is told of a removal.    *)
(***************************************************************************)
EXTENDS CatalogSync, OwnerNotices, StoriesProofs

(***************************************************************************)
(*                               CatalogSync                               *)
(*                                                                         *)
(* The inductive invariant, on top of that of Stories.                     *)
(***************************************************************************)

\* Catalog files a story under its owner.
FiledByOwner ==
    \A u \in Users : \A s \in catalog[u] : Exists(s) /\ rows[s].owner = u

\* As long as the row has not changed status since they read it, an admin's
\* update announces its write exactly when the write is news, and so does a
\* moderation, which until its verdict also remembers the status.
FreshlyJudged(r) ==
    reqs[r].pc = "write" => (reqs[r].announce <=> reqs[r].status # rows[reqs[r].id].status)

FreshlySeen(s) ==
    /\ mods[s].pc = "analyze" => mods[s].status = rows[s].status
    /\ mods[s].pc = "write" => (mods[s].announce <=> mods[s].status # rows[s].status)

\* A list on its way to Catalog may be out of date only if it is late, or the event
\* that will correct it is still to come.
AnswersOK ==
    \A f \in fills : \A s \in f.stories :
        /\ Exists(s) /\ rows[s].owner = f.owner
        /\ ~f.late /\ (rows[s].status # "ACTIVE" \/ rows[s].deleted) => Announcing(f.owner)

DecisionsOK ==
    /\ stale \subseteq Deciding
    /\ \A r \in Requests \ stale : FreshlyJudged(r)
    /\ \A s \in StoryIds \ stale : FreshlySeen(s)

SyncInv ==
    /\ IInv /\ SyncTypeOK
    /\ FiledByOwner /\ AnswersOK /\ DecisionsOK
    /\ RemovalReachesCatalog /\ StaleCopyExplained

-----------------------------------------------------------------------------
(* What a step leaves alone.                                               *)

\* The service's steps are Stories' steps, and a change of Catalog's is none.
LEMMA SyncSteps == [SyncNext]_syncVars => [Next]_vars
  BY DEF SyncNext, ServiceWorks, ServiceFails, CatalogRead, CatalogFill, EventDelivered, Next, Fault, syncVars

\* Where a request moves on its own, the table it has read is as it was: a
\* deletion that is being cleaned up is over once its event is published.
LEMMA CleanupWorks ==
  ASSUME IInv, Work, NEW r \in Cleaning
  PROVE  reqs'[r] = reqs[r] \/ rows[reqs[r].id].owner \in events'
<1>1. r \in Requests /\ reqs[r].pc = "cleanup" /\ r # Timer
  BY StoriesAssumption DEF Cleaning
<1>2. ASSUME reqs'[r] # reqs[r] PROVE DeletionCleanup(r)
  <2>1. RequestStarts(r) \/ RequestStep(r) \/ Sweep(r)
    BY <1>1, <1>2, RequestWorks
  <2>2. ~RequestStarts(r)
    BY <1>1 DEF RequestStarts, StartConfirm, StartRemove, StartAdminDelete, StartAdminStatus, StartOnStory
  <2>3. ~Sweep(r)
    BY <1>1 DEF Sweep, SweepFindMany, MaySweep, SweepUpdateMany, ExpireDue
  <2>4. QED
    BY <1>1, <2>1, <2>2, <2>3 DEF RequestStep, EnsureObjectExists, ConfirmLookup, CreateRefused,
       CreateStory, InsertStory, StartModeration, DeletionFind, DeletionMark, AdminFind, AdminWrite, StoreStatus
<1>3. QED BY <1>2 DEF DeletionCleanup

\* An admin's update that has just read its row knows whether its write is news.
LEMMA JudgementBegins ==
  ASSUME IInv, Work, NEW r \in Requests, reqs'[r].pc = "write", reqs'[r] # reqs[r]
  PROVE  FreshlyJudged(r)'
<1>1. reqs \in [Handlers -> Request] /\ r \in Handlers /\ reqs[r] \in Request
  BY DEF IInv, TypeOK, Handlers
<1>2. AdminFind(r) /\ ~Answer(r)
  BY <1>1, WriteBegins DEF Answer, Become, Idle
<1> DEFINE news == (reqs[r].status # rows[reqs[r].id].status)
<1>3. /\ reqs'[r].announce = news
      /\ reqs'[r].status = reqs[r].status /\ reqs'[r].id = reqs[r].id
  <2>1. \A q : Become(r, q) => reqs'[r] = q
    BY <1>1 DEF Become
  <2>2. \A v : Become(r, [reqs[r] EXCEPT !.pc = "write", !.moderation = v, !.announce = news])
          => /\ reqs'[r].announce = news
             /\ reqs'[r].status = reqs[r].status /\ reqs'[r].id = reqs[r].id
    BY <1>1, <2>1 DEF Request
  <2>3. QED BY <1>2, <2>2 DEF AdminFind
<1>4. UNCHANGED rows
  BY <1>2 DEF AdminFind
<1>5. QED BY <1>3, <1>4 DEF FreshlyJudged

\* A moderation comes to wait for the analyzer, and to its write, only by what it
\* has just read and been told.
LEMMA SeenBegins ==
  ASSUME IInv, Work, NEW s \in StoryIds, mods'[s].pc \in {"analyze", "write"}, mods'[s] # mods[s],
         mods[s].pc \in {"analyze", "write"} => FreshlySeen(s)
  PROVE  FreshlySeen(s)'
<1>1. CASE mods'[s].pc = "analyze"
  BY <1>1, AnalysisBegins DEF FreshlySeen
<1>2. CASE mods'[s].pc = "write"
  <2>1. mods[s].pc = "analyze" /\ UNCHANGED rows
    BY <1>2, VerdictBegins
  <2>2. PICK action \in RecommendedAction : mods'[s] = Verdict(action, rows[s].status)
    BY <1>2, <2>1, VerdictBegins DEF FreshlySeen
  <2>3. mods'[s].announce <=> mods'[s].status # rows[s].status
    <3>1. CASE IsApproved(action)
      BY <2>2, <3>1 DEF Verdict
    <3>2. CASE ~IsApproved(action)
      <4>1. mods'[s].status = "BLOCKED" /\ mods'[s].announce = (rows[s].status # "BLOCKED")
        BY <2>2, <3>2 DEF Verdict
      <4>2. QED BY <4>1, Zenon
    <3>3. QED BY <3>1, <3>2
  <2>4. QED BY <1>2, <2>1, <2>3 DEF FreshlySeen
<1>3. QED BY <1>1, <1>2

-----------------------------------------------------------------------------
(* Who rules on a row, and whether it is announced.                        *)

\* A deletion that has been committed is still to be announced.
LEMMA MarkIsCleaning ==
  ASSUME IInv, NEW r \in Requests, DeletionMark(r)
  PROVE  r \in Cleaning' /\ reqs'[r].id = reqs[r].id
<1>1. reqs \in [Handlers -> Request] /\ r \in Handlers /\ reqs[r] \in Request
  BY DEF IInv, TypeOK, Handlers
<1>2. QED BY <1>1 DEF DeletionMark, Goto, Become, Cleaning, Request

\* The service announces every change of a row's status, has it still to
\* announce as a deletion, or has been misled by what a stale handler had read.
LEMMA RulingAnnounced ==
  ASSUME IInv, DecisionsOK, Work, NEW s \in StoryIds, Exists(s),
         RulesAnew(s) \/ rows'[s].deleted # rows[s].deleted
  PROVE  \/ rows[s].owner \in events' \cup JudgedStale
         \/ \E r \in Cleaning' : reqs'[r].id = s
<1>1. ASSUME NEW r \in Requests, AdminWrite(r), reqs[r].id = s, RulesAnew(s)
      PROVE  rows[s].owner \in events' \cup JudgedStale
  <2>1. reqs[r].status # rows[s].status /\ reqs[r].pc = "write"
    BY <1>1, StoreStatusRow DEF AdminWrite, StoreStatus, RulesAnew
  <2>2. CASE r \notin stale
    <3>1. reqs[r].announce
      BY <1>1, <2>1, <2>2 DEF DecisionsOK, FreshlyJudged
    <3>2. QED BY <1>1, <3>1 DEF AdminWrite
  <2>3. CASE r \in stale
    <3>1. reqs'[r].pc = "idle"
      BY <1>1 DEF AdminWrite, StoreStatus, Answer, Become, Idle, IInv, TypeOK, Handlers
    <3>2. r \notin Deciding' /\ RowOf(r) = s
      BY <1>1, <3>1, SyncAssumption DEF Deciding, RowOf
    <3>3. QED BY <1>1, <2>3, <3>2 DEF JudgedStale
  <2>4. QED BY <2>2, <2>3
<1>2. ASSUME ModerationWrite(s), RulesAnew(s)
      PROVE  rows[s].owner \in events' \cup JudgedStale
  <2>1. mods[s].status # rows[s].status /\ mods[s].pc = "write"
    BY <1>2, StoreVerdictRow DEF ModerationWrite, StoreVerdict, RulesAnew
  <2>2. CASE s \notin stale
    <3>1. mods[s].announce
      BY <2>1, <2>2 DEF DecisionsOK, FreshlySeen
    <3>2. QED BY <1>2, <3>1 DEF ModerationWrite
  <2>3. CASE s \in stale
    <3>1. mods'[s].pc = "done"
      BY <1>2 DEF ModerationWrite, Settle, Moderate, NotStarted, IInv, TypeOK
    <3>2. s \notin Deciding' /\ RowOf(s) = s
      BY <3>1, SyncAssumption DEF Deciding, RowOf
    <3>3. QED BY <1>2, <2>3, <3>2 DEF JudgedStale
  <2>4. QED BY <2>2, <2>3
<1>3. QED BY <1>1, <1>2, WorkRules, MarkIsCleaning DEF SweepUpdateMany, RulesAnew

-----------------------------------------------------------------------------
(* What is to be announced stays so until Catalog hears of it or it is lost. *)

\* While the service works, what is to be announced of an owner stays so.
LEMMA AnnouncingWorks ==
  ASSUME IInv, Work, NEW u \in Users, Announcing(u)
  PROVE  Announcing(u)'
<1>1. [Next]_vars
  BY DEF Next
<1>2. CASE u \in events
  BY <1>2, EventsKept DEF Announcing
<1>3. ASSUME NEW r \in Cleaning, rows[reqs[r].id].owner = u PROVE Announcing(u)'
  <2>1. r \in Requests /\ r \in Handlers /\ reqs[r].id \in StoryIds /\ Exists(reqs[r].id)
    BY RequestType DEF Cleaning, RequestOK, Exists, Handlers
  <2>2. CASE reqs'[r] = reqs[r]
    <3>1. r \in Cleaning' /\ reqs'[r].id = reqs[r].id
      BY <2>2 DEF Cleaning
    <3>2. rows'[reqs[r].id].owner = u
      BY <1>1, <1>3, <2>1, RowsKept
    <3>3. QED BY <3>1, <3>2 DEF Announcing
  <2>3. CASE reqs'[r] # reqs[r]
    BY <1>3, <2>3, CleanupWorks DEF Announcing
  <2>4. QED BY <2>2, <2>3
<1>4. QED BY <1>2, <1>3 DEF Announcing

\* A fault that takes it away leaves the owner among those an event was lost for.
LEMMA AnnouncingFails ==
  ASSUME IInv, Fault, NEW u \in Users, Announcing(u)
  PROVE  Announcing(u)' \/ u \in Lost
<1>1. [Next]_vars
  BY DEF Next
<1>2. u \in Unannounced => Announcing(u)' \/ u \in Lost
  BY DEF Lost, Announcing
<1>3. CASE u \in events
  BY <1>2, <1>3 DEF Announcing, Unannounced
<1>4. ASSUME NEW r \in Cleaning, rows[reqs[r].id].owner = u PROVE Announcing(u)' \/ u \in Lost
  <2>1. r \in Requests /\ r \in Handlers /\ reqs[r].id \in StoryIds /\ Exists(reqs[r].id)
    BY RequestType DEF Cleaning, RequestOK, Exists, Handlers
  <2>2. CASE r \in Cleaning'
    <3>1. reqs'[r].id = reqs[r].id
      BY <2>1, <2>2, RequestFails DEF Cleaning, Idle
    <3>2. rows'[reqs[r].id].owner = u
      BY <1>1, <1>4, <2>1, RowsKept
    <3>3. QED BY <2>2, <3>1, <3>2 DEF Announcing
  <2>3. CASE r \notin Cleaning'
    BY <1>2, <1>4, <2>3 DEF Unannounced
  <2>4. QED BY <2>2, <2>3
<1>5. QED BY <1>3, <1>4 DEF Announcing

\* So it is with what Catalog has a copy of.
LEMMA PendingKept ==
  ASSUME SyncInv, ServiceWorks \/ ServiceFails, NEW u \in Users, catalog[u] # {}, Pending(u)
  PROVE  Pending(u)'
<1>1. IInv /\ dropped \subseteq dropped' /\ u \in Copied
  BY DEF SyncInv, ServiceWorks, ServiceFails, Copied
<1>2. CASE ServiceWorks
  BY <1>1, <1>2, AnnouncingWorks DEF ServiceWorks, Pending
<1>3. CASE ServiceFails
  BY <1>1, <1>3, AnnouncingFails DEF ServiceFails, Pending
<1>4. QED BY <1>2, <1>3

\* A change of a story is to be announced, or made by a stale handler that tells
\* nobody.
LEMMA ChangeWorks ==
  ASSUME SyncInv, Work, NEW u \in Users, NEW s \in StoryIds, Exists(s), rows[s].owner = u,
         RulesAnew(s) \/ rows'[s].deleted # rows[s].deleted
  PROVE  Announcing(u)' \/ u \in Misjudged
<1>1. IInv /\ DecisionsOK /\ [Next]_vars
  BY DEF SyncInv, Next
<1>2. rows'[s].owner = u
  BY <1>1, RowsKept
<1>3. u \in events' \cup JudgedStale \/ \E r \in Cleaning' : reqs'[r].id = s
  BY <1>1, RulingAnnounced
<1>4. CASE u \in events' \cup JudgedStale
  BY <1>4 DEF Misjudged, Announcing
<1>5. CASE \E r \in Cleaning' : reqs'[r].id = s
  BY <1>2, <1>5 DEF Announcing
<1>6. QED BY <1>3, <1>4, <1>5

\* One that comes with a fault has its event lost.
LEMMA ChangeFails ==
  ASSUME SyncInv, Fault, NEW u \in Users, NEW s \in StoryIds, Exists(s), rows[s].owner = u,
         RulesAnew(s) \/ rows'[s].deleted # rows[s].deleted
  PROVE  Announcing(u)' \/ u \in Lost
<1>1. IInv /\ [Next]_vars
  BY DEF SyncInv, Next
<1>2. rows'[s].owner = u /\ RulesAnew(s)
  BY <1>1, RowsKept, FaultDeletesNothing
<1>3. u \in Unannounced
  BY <1>2 DEF Unannounced
<1>4. QED BY <1>3 DEF Lost, Announcing

\* Answers on their way stay in order if those are late now, U, whose announcement
\* the step has settled, and whom a change of the step is not announced of.
LEMMA AnswersKept ==
  ASSUME SyncInv, [Next]_vars, NEW U, Outrun(U),
         \A u \in Users : Announcing(u) => Announcing(u)' \/ u \in U,
         \A u \in Users, s \in StoryIds :
            Exists(s) /\ rows[s].owner = u /\ (RulesAnew(s) \/ rows'[s].deleted # rows[s].deleted)
            => Announcing(u)' \/ u \in U
  PROVE  AnswersOK' /\ fills' \subseteq Fill
<1>1. IInv /\ fills \subseteq Fill
  BY DEF SyncInv, SyncTypeOK
<1>2. ASSUME NEW g \in fills'
      PROVE  \E f \in fills : /\ g.owner = f.owner /\ g.stories = f.stories /\ g \in Fill
                              /\ f.late \/ f.owner \in U => g.late
  <2>1. PICK f \in fills : g = [f EXCEPT !.late = @ \/ f.owner \in U]
    BY DEF Outrun
  <2>2. f \in [owner : Users, stories : SUBSET StoryIds, late : BOOLEAN]
    BY <1>1 DEF Fill
  <2>3. /\ g.owner = f.owner /\ g.stories = f.stories /\ g.late = (f.late \/ f.owner \in U)
        /\ g \in [owner : Users, stories : SUBSET StoryIds, late : BOOLEAN]
    BY <2>1, <2>2
  <2>4. QED BY <2>3 DEF Fill
<1>3. ASSUME NEW g \in fills', NEW s \in g.stories
      PROVE  /\ Exists(s)' /\ rows'[s].owner = g.owner
             /\ ~g.late /\ (rows'[s].status # "ACTIVE" \/ rows'[s].deleted) => Announcing(g.owner)'
  <2>1. PICK f \in fills : /\ g.owner = f.owner /\ g.stories = f.stories /\ g \in Fill
                           /\ f.late \/ f.owner \in U => g.late
    BY <1>2
  <2>2. /\ s \in StoryIds /\ g.owner \in Users
        /\ Exists(s) /\ rows[s].owner = g.owner
        /\ ~f.late /\ (rows[s].status # "ACTIVE" \/ rows[s].deleted) => Announcing(g.owner)
    BY <2>1 DEF SyncInv, AnswersOK, Fill
  <2>3. Exists(s)' /\ rows'[s].owner = g.owner
    BY <1>1, <2>2, RowsKept
  <2>4. ASSUME ~g.late, rows'[s].status # "ACTIVE" \/ rows'[s].deleted PROVE Announcing(g.owner)'
    <3>1. ~f.late /\ g.owner \notin U
      BY <2>1, <2>4
    <3>2. CASE RulesAnew(s) \/ rows'[s].deleted # rows[s].deleted
      BY <2>2, <3>1, <3>2
    <3>3. CASE ~RulesAnew(s) /\ rows'[s].deleted = rows[s].deleted
      BY <2>2, <2>4, <3>1, <3>3 DEF RulesAnew
    <3>4. QED BY <3>2, <3>3
  <2>5. QED BY <2>3, <2>4
<1>4. AnswersOK'
  BY <1>3 DEF AnswersOK
<1>5. QED BY <1>2, <1>4

\* So they do with every step of the service.
LEMMA ServiceAnswers ==
  ASSUME SyncInv, ServiceWorks \/ ServiceFails
  PROVE  AnswersOK' /\ fills' \subseteq Fill
<1>1. IInv
  BY DEF SyncInv
<1>2. CASE ServiceWorks
  <2>1. Work /\ Outrun(Misjudged) /\ [Next]_vars
    BY <1>2 DEF ServiceWorks, Next
  <2>2. QED BY <1>1, <2>1, AnnouncingWorks, ChangeWorks, AnswersKept
<1>3. CASE ServiceFails
  <2>1. Fault /\ Outrun(Misjudged \cup Lost) /\ [Next]_vars
    BY <1>3 DEF ServiceFails, Next
  <2>2. QED BY <1>1, <2>1, AnnouncingFails, ChangeFails, AnswersKept
<1>4. QED BY <1>2, <1>3

\* The service never leaves a story that Catalog lists removed, or hidden, without
\* an announcement or a reason on record.
LEMMA ServiceExplains ==
  ASSUME SyncInv, ServiceWorks \/ ServiceFails
  PROVE  RemovalReachesCatalog' /\ StaleCopyExplained'
<1>1. /\ IInv /\ [Next]_vars /\ UNCHANGED <<catalog, overtaken>>
      /\ misjudged' = misjudged \cup (Misjudged \cap Copied)
      /\ ServiceFails => dropped' = dropped \cup (Lost \cap Copied)
  BY DEF SyncInv, ServiceWorks, ServiceFails, Next
<1>2. ASSUME NEW u \in Users, NEW s \in catalog[u]
      PROVE  /\ s \in StoryIds /\ Exists(s) /\ rows[s].owner = u /\ u \in Copied
             /\ Exists(s)' /\ rows'[s].owner = u
  BY <1>1, RowsKept DEF SyncInv, SyncTypeOK, FiledByOwner, Copied
<1>3. ASSUME NEW u \in Users, NEW s \in catalog[u], Pending(u) PROVE Pending(u)'
  BY <1>3, PendingKept
<1>4. ASSUME NEW u \in Users, NEW s \in catalog[u],
             RulesAnew(s) \/ rows'[s].deleted # rows[s].deleted
      PROVE  Pending(u)' \/ u \in misjudged'
  <2>1. CASE ServiceWorks
    BY <1>1, <1>2, <1>4, <2>1, ChangeWorks DEF ServiceWorks, Pending
  <2>2. CASE ServiceFails
    BY <1>1, <1>2, <1>4, <2>2, ChangeFails DEF ServiceFails, Pending
  <2>3. QED BY <2>1, <2>2
<1>5. ASSUME NEW u \in Users, NEW s \in catalog[u], ~rows[s].deleted, rows'[s].deleted
      PROVE  Pending(u)'
  <2>1. CASE ServiceWorks
    <3>1. PICK r \in Requests : DeletionMark(r) /\ reqs[r].id = s
      BY <1>1, <1>2, <1>5, <2>1, WorkRules DEF ServiceWorks
    <3>2. r \in Cleaning' /\ reqs'[r].id = s
      BY <1>1, <3>1, MarkIsCleaning
    <3>3. QED BY <1>2, <3>2 DEF Pending, Announcing
  <2>2. CASE ServiceFails
    BY <1>1, <1>2, <1>5, <2>2, FaultDeletesNothing DEF ServiceFails
  <2>3. QED BY <2>1, <2>2
<1>6. RemovalReachesCatalog'
  <2> SUFFICES ASSUME NEW u \in Users, NEW s \in catalog[u], rows'[s].deleted
               PROVE  Pending(u)' \/ u \in overtaken
      BY <1>1 DEF RemovalReachesCatalog
  <2>1. rows[s].deleted => Pending(u) \/ u \in overtaken
    BY DEF SyncInv, RemovalReachesCatalog
  <2>2. QED BY <1>3, <1>5, <2>1
<1>7. StaleCopyExplained'
  <2> SUFFICES ASSUME NEW u \in Users, NEW s \in catalog[u],
                      rows'[s].status # "ACTIVE" \/ rows'[s].deleted
               PROVE  Pending(u)' \/ u \in misjudged' \cup overtaken
      BY <1>1 DEF StaleCopyExplained
  <2>1. CASE RulesAnew(s) \/ rows'[s].deleted # rows[s].deleted
    BY <1>4, <2>1
  <2>2. CASE ~RulesAnew(s) /\ rows'[s].deleted = rows[s].deleted
    <3>1. Pending(u) \/ u \in misjudged \cup overtaken
      BY <2>2 DEF SyncInv, StaleCopyExplained, RulesAnew
    <3>2. QED BY <1>1, <1>3, <3>1
  <2>3. QED BY <2>1, <2>2
<1>8. QED BY <1>6, <1>7

-----------------------------------------------------------------------------
(* What Catalog does.                                                      *)

\* What a query that Catalog has asked for returns is up to date.
LEMMA CatalogReadKeeps ==
  ASSUME SyncInv, NEW v \in Users, CatalogRead(v)
  PROVE  AnswersOK' /\ fills' \subseteq Fill
<1> DEFINE S == {s \in StoryIds : Visible(s) /\ rows[s].owner = v}
           a == [owner |-> v, late |-> FALSE, stories |-> S]
<1>1. UNCHANGED <<rows, reqs, events>> /\ fills' = fills \cup {a}
  BY DEF CatalogRead, vars
<1>2. a \in Fill /\ a.owner = v /\ a.stories = S
  BY DEF Fill
<1>3. \A s \in S : Exists(s) /\ rows[s].owner = v /\ rows[s].status = "ACTIVE" /\ ~rows[s].deleted
  BY DEF Visible, Exists
<1> HIDE DEF a
<1>4. \A u \in Users : Announcing(u) => Announcing(u)'
  BY <1>1 DEF Announcing, Cleaning
<1>5. \A f \in fills : f.owner \in Users
  BY DEF SyncInv, SyncTypeOK, Fill
<1>6. AnswersOK'
  BY <1>1, <1>2, <1>3, <1>4, <1>5 DEF SyncInv, AnswersOK, Exists
<1>7. QED BY <1>1, <1>2, <1>6 DEF SyncInv, SyncTypeOK

\* Caching an answer, or dropping what there was with an event, leaves nothing
\* unexplained: u is whom it is about, S what Catalog has of u afterwards.
LEMMA CachesExplains ==
  ASSUME SyncInv, NEW u \in Users, NEW S \in SUBSET StoryIds, NEW late \in BOOLEAN,
         Caches(u, S, late), UNCHANGED <<rows, reqs>>, events \ {u} \subseteq events',
         \A s \in S : /\ Exists(s) /\ rows[s].owner = u
                      /\ ~late /\ (rows[s].status # "ACTIVE" \/ rows[s].deleted) => Announcing(u)'
  PROVE  /\ RemovalReachesCatalog' /\ StaleCopyExplained' /\ FiledByOwner'
         /\ catalog' \in [Users -> SUBSET StoryIds]
         /\ overtaken' \subseteq Users /\ dropped' \subseteq Users /\ misjudged' \subseteq Users
<1>1. /\ catalog \in [Users -> SUBSET StoryIds]
      /\ overtaken \subseteq Users /\ dropped \subseteq Users /\ misjudged \subseteq Users
  BY DEF SyncInv, SyncTypeOK
<1>2. /\ catalog'[u] = S /\ \A v \in Users \ {u} : catalog'[v] = catalog[v]
      /\ catalog' \in [Users -> SUBSET StoryIds]
  BY <1>1 DEF Caches
<1>3. /\ dropped' = dropped \ {u} /\ misjudged' = misjudged \ {u}
      /\ overtaken \ {u} \subseteq overtaken' /\ overtaken' \subseteq Users
      /\ late /\ S # {} => u \in overtaken'
  BY <1>1 DEF Caches
<1>4. ASSUME NEW v \in Users \ {u}
      PROVE  /\ Pending(v) => Pending(v)'
             /\ v \in misjudged \cup overtaken => v \in misjudged' \cup overtaken'
             /\ v \in overtaken => v \in overtaken'
  <2>1. Cleaning' = Cleaning
    BY DEF Cleaning
  <2>2. QED BY <1>3, <2>1 DEF Pending, Announcing
<1>5. FiledByOwner'
  BY <1>2 DEF SyncInv, FiledByOwner, Exists
<1>6. RemovalReachesCatalog'
  BY <1>2, <1>3, <1>4 DEF SyncInv, RemovalReachesCatalog, Pending
<1>7. StaleCopyExplained'
  BY <1>2, <1>3, <1>4 DEF SyncInv, StaleCopyExplained, Pending
<1>8. QED BY <1>1, <1>2, <1>3, <1>5, <1>6, <1>7

\* An answer that arrives is late, or is still to be corrected if it has to be.
LEMMA CatalogFillKeeps ==
  ASSUME SyncInv, NEW f \in fills, CatalogFill(f)
  PROVE  /\ RemovalReachesCatalog' /\ StaleCopyExplained' /\ FiledByOwner' /\ AnswersOK'
         /\ catalog' \in [Users -> SUBSET StoryIds] /\ fills' \subseteq Fill
         /\ overtaken' \subseteq Users /\ dropped' \subseteq Users /\ misjudged' \subseteq Users
<1>1. /\ f.owner \in Users /\ f.stories \in SUBSET StoryIds /\ f.late \in BOOLEAN
      /\ fills \subseteq Fill
  BY DEF SyncInv, SyncTypeOK, Fill
<1>2. UNCHANGED <<rows, reqs, events>> /\ fills' \subseteq fills /\ Caches(f.owner, f.stories, f.late)
  BY DEF CatalogFill, vars
<1>3. \A u : Announcing(u) => Announcing(u)'
  BY <1>2 DEF Announcing, Cleaning
<1>4. AnswersOK'
  BY <1>2, <1>3 DEF SyncInv, AnswersOK, Exists
<1>5. \A s \in f.stories :
         /\ Exists(s) /\ rows[s].owner = f.owner
         /\ ~f.late /\ (rows[s].status # "ACTIVE" \/ rows[s].deleted) => Announcing(f.owner)'
  BY <1>3 DEF SyncInv, AnswersOK
<1>6. QED BY <1>1, <1>2, <1>4, <1>5, CachesExplains

\* An event that arrives makes the answers about its owner late.
LEMMA EventDeliveredKeeps ==
  ASSUME SyncInv, NEW v \in Users, EventDelivered(v)
  PROVE  /\ RemovalReachesCatalog' /\ StaleCopyExplained' /\ FiledByOwner' /\ AnswersOK'
         /\ catalog' \in [Users -> SUBSET StoryIds] /\ fills' \subseteq Fill
         /\ overtaken' \subseteq Users /\ dropped' \subseteq Users /\ misjudged' \subseteq Users
<1>1. /\ UNCHANGED <<rows, reqs>> /\ events' = events \ {v} /\ [Next]_vars
      /\ Caches(v, {}, FALSE) /\ Outrun({v})
  BY SyncSteps DEF EventDelivered, EventSettles, SyncNext
<1>2. \A u \in Users \ {v} : Announcing(u) => Announcing(u)'
  BY <1>1 DEF Announcing, Cleaning
<1>3. AnswersOK' /\ fills' \subseteq Fill
  BY <1>1, <1>2, AnswersKept DEF RulesAnew
<1> DEFINE none == {s \in StoryIds : FALSE}
<1>4. Caches(v, none, FALSE) /\ none \in SUBSET StoryIds /\ none = {}
  BY <1>1
<1> HIDE DEF none
<1>5. QED BY <1>1, <1>3, <1>4, CachesExplains

-----------------------------------------------------------------------------
(* The invariant and the theorems.                                         *)

\* Who decides, decides about a row that exists.
LEMMA DecidingRow ==
  ASSUME IInv, NEW a \in Deciding
  PROVE  RowOf(a) \in StoryIds /\ Exists(RowOf(a)) /\ rows[RowOf(a)].owner \in Users
<1>1. CASE a \in Requests
  <2>1. reqs[a].pc = "write" /\ a \in Handlers
    BY <1>1, SyncAssumption DEF Deciding, Handlers
  <2>2. reqs[a].id \in StoryIds /\ Exists(reqs[a].id)
    BY <2>1, RequestType DEF RequestOK, Exists
  <2>3. QED BY <1>1, <2>2 DEF RowOf, IInv, DataOK, RowsOK
<1>2. CASE a \notin Requests
  <2>1. a \in StoryIds /\ mods[a].pc # "none"
    BY <1>2 DEF Deciding
  <2>2. Exists(a)
    BY <2>1, ModerationType DEF ModerationOK, Exists
  <2>3. QED BY <1>2, <2>1, <2>2 DEF RowOf, IInv, DataOK, RowsOK
<1>3. QED BY <1>1, <1>2

\* What is recorded of a step of the service is well typed.
LEMMA RecordsType ==
  ASSUME SyncInv, ServiceWorks \/ ServiceFails
  PROVE  SyncTypeOK'
<1>1. IInv /\ [Next]_vars /\ GoesStale
  BY DEF SyncInv, ServiceWorks, ServiceFails, Next
<1>2. IInv'
  BY <1>1, NextIInv
<1>3. stale \subseteq Deciding
  BY DEF SyncInv, DecisionsOK
<1>4. JudgedStale \subseteq Users
  BY <1>1, <1>3, DecidingRow DEF JudgedStale
<1>5. Unannounced \subseteq Users
  <2>1. events \subseteq Users
    BY <1>1 DEF IInv, TypeOK
  <2>2. \A r \in Cleaning : rows[reqs[r].id].owner \in Users
    BY <1>1, RequestType DEF Cleaning, RequestOK, Handlers, IInv, DataOK, RowsOK, Exists
  <2>3. ASSUME NEW s \in StoryIds, RulesAnew(s) PROVE rows'[s].owner \in Users
    <3>1. Exists(s)'
      BY <1>1, <2>3, RowsKept DEF RulesAnew, Exists
    <3>2. QED BY <1>2, <3>1 DEF IInv, DataOK, RowsOK
  <2>4. QED BY <2>1, <2>2, <2>3 DEF Unannounced
<1>6. /\ TypeOK' /\ catalog' \in [Users -> SUBSET StoryIds]
      /\ dropped' \subseteq Users /\ misjudged' \subseteq Users
  BY <1>1, <1>2, <1>4, <1>5 DEF IInv, SyncInv, SyncTypeOK, Misjudged, Lost, ServiceWorks, ServiceFails
<1>7. stale' \subseteq Requests \cup StoryIds
  BY <1>1 DEF GoesStale, Deciding
<1>8. fills' \subseteq Fill /\ overtaken' \subseteq Users
  BY ServiceAnswers DEF SyncInv, SyncTypeOK, ServiceWorks, ServiceFails
<1>9. QED BY <1>6, <1>7, <1>8 DEF SyncTypeOK

\* A handler that is not stale keeps knowing the status of its row.
LEMMA DecisionsKept ==
  ASSUME SyncInv, ServiceWorks \/ ServiceFails
  PROVE  DecisionsOK'
<1>1. IInv /\ DecisionsOK /\ GoesStale /\ (Work \/ Fault)
  BY DEF SyncInv, ServiceWorks, ServiceFails
<1>2. \A a \in Deciding : a \in Deciding' /\ a \notin stale' => a \notin stale /\ ~RulesAnew(RowOf(a))
  BY <1>1 DEF GoesStale
<1>3. stale' \subseteq Deciding'
  BY <1>1 DEF GoesStale
<1>4. ASSUME NEW r \in Requests, r \notin stale' PROVE FreshlyJudged(r)'
  <2> SUFFICES ASSUME reqs'[r].pc = "write" PROVE FreshlyJudged(r)'
      BY DEF FreshlyJudged
  <2>1. CASE reqs'[r] = reqs[r]
    <3>1. r \in Deciding /\ r \in Deciding'
      BY <2>1 DEF Deciding
    <3>2. r \notin stale /\ ~RulesAnew(reqs[r].id)
      BY <1>2, <1>4, <3>1 DEF RowOf
    <3>3. FreshlyJudged(r)
      BY <1>1, <3>2 DEF DecisionsOK
    <3>4. QED BY <2>1, <3>2, <3>3 DEF FreshlyJudged, RulesAnew
  <2>2. CASE reqs'[r] # reqs[r]
    <3>1. Work
      BY <1>1, <2>2, RequestFails DEF Idle
    <3>2. QED BY <1>1, <2>2, <3>1, JudgementBegins
  <2>3. QED BY <2>1, <2>2
<1>5. ASSUME NEW s \in StoryIds, s \notin stale' PROVE FreshlySeen(s)'
  <2> SUFFICES ASSUME mods'[s].pc \in {"analyze", "write"} PROVE FreshlySeen(s)'
      BY DEF FreshlySeen
  <2>1. s \in Deciding'
    BY DEF Deciding
  <2>2. ASSUME mods[s].pc \in {"analyze", "write"} PROVE FreshlySeen(s) /\ ~RulesAnew(s)
    <3>1. s \in Deciding /\ RowOf(s) = s
      BY <2>2, SyncAssumption DEF Deciding, RowOf
    <3>2. s \notin stale /\ ~RulesAnew(s)
      BY <1>2, <1>5, <2>1, <3>1
    <3>3. QED BY <1>1, <3>2 DEF DecisionsOK
  <2>3. CASE mods'[s] = mods[s]
    BY <2>2, <2>3 DEF FreshlySeen, RulesAnew
  <2>4. CASE mods'[s] # mods[s]
    <3>1. Work
      BY <1>1, <2>4, ModerationFails
    <3>2. QED BY <1>1, <2>2, <2>4, <3>1, SeenBegins
  <2>5. QED BY <2>3, <2>4
<1>6. QED BY <1>3, <1>4, <1>5 DEF DecisionsOK

\* With nothing cached there is nothing to explain.
LEMMA InitSyncInv == SyncInit => SyncInv
<1> SUFFICES ASSUME SyncInit PROVE SyncInv
    OBVIOUS
<1>1. IInv
  BY InitIInv DEF SyncInit
<1>2. SyncTypeOK
  BY <1>1 DEF IInv, SyncInit, SyncTypeOK
<1>3. FiledByOwner /\ AnswersOK /\ RemovalReachesCatalog /\ StaleCopyExplained
  BY DEF SyncInit, FiledByOwner, AnswersOK, RemovalReachesCatalog, StaleCopyExplained
<1>4. ASSUME NEW r \in Requests PROVE FreshlyJudged(r)
  BY DEF SyncInit, Init, FreshlyJudged, Idle, Handlers
<1>5. ASSUME NEW s \in StoryIds PROVE FreshlySeen(s)
  BY DEF SyncInit, Init, FreshlySeen, NotStarted
<1>6. DecisionsOK
  BY <1>4, <1>5 DEF SyncInit, DecisionsOK
<1>7. QED BY <1>1, <1>2, <1>3, <1>6 DEF SyncInv

\* Every step of the service, of the network and of Catalog keeps the invariant.
LEMMA NextSyncInv == SyncInv /\ [SyncNext]_syncVars => SyncInv'
<1> SUFFICES ASSUME SyncInv, [SyncNext]_syncVars PROVE SyncInv'
    OBVIOUS
<1>1. IInv /\ IInv' /\ [Next]_vars
  BY SyncSteps, NextIInv DEF SyncInv
<1>2. CASE ServiceWorks \/ ServiceFails
  <2>1. FiledByOwner'
    <3>1. UNCHANGED catalog
      BY <1>2 DEF ServiceWorks, ServiceFails
    <3>2. QED BY <1>1, <3>1, RowsKept DEF SyncInv, SyncTypeOK, FiledByOwner
  <2>2. QED BY <1>1, <1>2, <2>1, RecordsType, DecisionsKept, ServiceAnswers, ServiceExplains DEF SyncInv
<1>3. ASSUME NEW v \in Users, CatalogRead(v) PROVE SyncInv'
  <2>1. UNCHANGED <<rows, reqs, mods, events, catalog, overtaken, dropped, stale, misjudged>>
    BY <1>3 DEF CatalogRead, vars
  <2>2. SyncTypeOK' /\ AnswersOK'
    BY <1>1, <1>3, <2>1, CatalogReadKeeps DEF SyncInv, SyncTypeOK, IInv
  <2>3. DecisionsOK' /\ FiledByOwner'
    BY <2>1 DEF SyncInv, DecisionsOK, Deciding, FreshlyJudged, FreshlySeen, FiledByOwner, Exists
  <2>4. RemovalReachesCatalog' /\ StaleCopyExplained'
    BY <2>1 DEF SyncInv, RemovalReachesCatalog, StaleCopyExplained, Pending, Announcing, Cleaning
  <2>5. QED BY <1>1, <2>2, <2>3, <2>4 DEF SyncInv
<1>4. ASSUME (\E f \in fills : CatalogFill(f)) \/ (\E v \in Users : EventDelivered(v)) PROVE SyncInv'
  <2>1. UNCHANGED <<rows, reqs, mods, stale>>
    BY <1>4 DEF CatalogFill, EventDelivered, EventSettles, Caches, vars
  <2>2. DecisionsOK'
    BY <2>1 DEF SyncInv, DecisionsOK, Deciding, FreshlyJudged, FreshlySeen
  <2>3. /\ RemovalReachesCatalog' /\ StaleCopyExplained' /\ FiledByOwner' /\ AnswersOK'
        /\ catalog' \in [Users -> SUBSET StoryIds] /\ fills' \subseteq Fill
        /\ overtaken' \subseteq Users /\ dropped' \subseteq Users /\ misjudged' \subseteq Users
    BY <1>4, CatalogFillKeeps, EventDeliveredKeeps
  <2>4. SyncTypeOK'
    BY <1>1, <2>1, <2>3 DEF SyncInv, SyncTypeOK, IInv
  <2>5. QED BY <1>1, <2>2, <2>3, <2>4 DEF SyncInv
<1>5. CASE UNCHANGED syncVars
  <2>1. UNCHANGED <<rows, reqs, mods, events, catalog, fills, overtaken, dropped, stale, misjudged>>
    BY <1>5 DEF syncVars, vars
  <2>2. SyncTypeOK'
    BY <1>1, <2>1 DEF SyncInv, SyncTypeOK, IInv
  <2>3. DecisionsOK' /\ FiledByOwner' /\ AnswersOK'
    BY <2>1 DEF SyncInv, DecisionsOK, Deciding, FreshlyJudged, FreshlySeen, FiledByOwner, Exists,
       AnswersOK, Announcing, Cleaning
  <2>4. RemovalReachesCatalog' /\ StaleCopyExplained'
    BY <2>1 DEF SyncInv, RemovalReachesCatalog, StaleCopyExplained, Pending, Announcing, Cleaning
  <2>5. QED BY <1>1, <2>2, <2>3, <2>4 DEF SyncInv
<1>6. QED BY <1>2, <1>3, <1>4, <1>5 DEF SyncNext

\* Stories and Catalog's copy of it stay well formed together.
THEOREM SyncInvariance == SyncSpec => []SyncInv
<1>1. QED BY InitSyncInv, NextSyncInv, PTL DEF SyncSpec

\* The service and Catalog keep their types.
THEOREM SyncTypeCorrect == SyncSpec => []SyncTypeOK
<1>1. SyncInv => SyncTypeOK
  BY DEF SyncInv
<1>2. QED BY <1>1, SyncInvariance, PTL

\* A removed story is listed by Catalog only while its removal is being announced,
\* after an event for its owner was lost, or because the list was queried before
\* such an event and answered after it.
THEOREM RemovalIsAnnounced == SyncSpec => []RemovalReachesCatalog
<1>1. SyncInv => RemovalReachesCatalog
  BY DEF SyncInv
<1>2. QED BY <1>1, SyncInvariance, PTL

\* A story that may not be seen any more is listed by Catalog only for one of the
\* reasons StaleCopyExplained names: an event on its way, lost, or left out by a
\* handler that judged by a stale read; or an answer that came after the event.
THEOREM StaleCopyHasReason == SyncSpec => []StaleCopyExplained
<1>1. SyncInv => StaleCopyExplained
  BY DEF SyncInv
<1>2. QED BY <1>1, SyncInvariance, PTL

\* Composing Stories with Catalog adds no behaviour to the writers: what is proved
\* of Stories holds of the composition.
THEOREM SyncImplementsStories == SyncSpec => Spec
<1>1. SyncInit => Init
  BY DEF SyncInit
<1>2. QED BY <1>1, SyncSteps, PTL DEF SyncSpec, Spec

\* So a story, as its owner's writers and Catalog's events treat it together,
\* still lives the life StoryLifecycle allows.
THEOREM SyncImplementsLifecycle == SyncSpec => ImplementsLifecycle
<1>1. QED BY SyncImplementsStories, StoriesImplementLifecycle, PTL

-----------------------------------------------------------------------------
(***************************************************************************)
(*                        OwnerNotices, OwnerLists                         *)
(*                                                                         *)
(* The inductive invariant, on top of that of Stories.                     *)
(***************************************************************************)

\* What a list knows.  Once its sweep is over, a story that was due is EXPIRED or
\* deleted, or somebody has put it back since; the query finds none of the first.
ListOK(l, back, t) ==
    /\ l.pc # "sign" => l.found = {}
    /\ l.due \subseteq {s \in StoryIds : t[s].status # "ABSENT"}
    /\ l.pc = "find" =>
           \A s \in l.due : t[s].status = "EXPIRED" \/ t[s].deleted \/ s \in back
    /\ \A e \in l.found : e[2] # "EXPIRED" /\ e[1] \in l.due => e[1] \in back

ListsOK == \A c \in Lists : ListOK(lists[c], revived[c], rows)

\* One request at most is about to start the moderation of a story, and only while
\* it has not run.
OneSigner ==
    \A r \in Requests : reqs[r].pc = "sign" =>
        /\ mods[reqs[r].id].pc = "none"
        /\ \A q \in Requests : reqs[q].pc = "sign" /\ reqs[q].id = reqs[r].id => q = r

\* No notice leaves before the moderation is over.
QuietUntilDone ==
    \A s \in StoryIds : mods[s].pc # "done" => told[s] = 0 /\ s \notin outbox

\* The owner of s has been told, will be, or there is a reason why not.
Accounted(s) == told[s] = 1 \/ s \in outbox \/ s \in untold

\* A moderation that will not tell has a reason; and an admin who stores a
\* NEEDS_REVIEW again has read it.
VerdictsAccounted ==
    /\ \A s \in StoryIds :
           /\ mods[s].pc = "analyze" /\ mods[s].status = "BLOCKED" => s \in untold
           /\ mods[s].pc = "write" /\ s \in Rejections
              => mods[s].announce \/ s \in untold
    /\ \A r \in Requests :
           reqs[r].pc = "write" /\ reqs[r].moderation = "NEEDS_REVIEW" => Accounted(reqs[r].id)

NoticesOK ==
    /\ OneSigner /\ QuietUntilDone /\ VerdictsAccounted
    /\ AtMostOneNotice /\ RejectionTold

NoticesInv == IInv /\ NoticesTypeOK /\ ListsOK /\ NoticesOK

-----------------------------------------------------------------------------
(* The lists.                                                              *)

\* No row is lost, and none that is deleted comes back.
NoneLost ==
    \A s \in StoryIds : Exists(s) => Exists(s)' /\ (rows[s].deleted => rows'[s].deleted)

LeavesExpired(s) == rows[s].status = "EXPIRED" /\ rows'[s].status # "EXPIRED"

\* What a list knows stays true beside the writers, as long as those who leave
\* EXPIRED are on record.
LEMMA ListKept ==
  ASSUME NEW l, NEW back, NEW more, ListOK(l, back, rows), NoneLost,
         back \subseteq more, \A s \in StoryIds : LeavesExpired(s) => s \in more
  PROVE  ListOK(l, more, rows')
  BY DEF ListOK, NoneLost, LeavesExpired, Exists

\* One list goes on, knowing what it must, and no row leaves EXPIRED: all lists are
\* well formed.
LEMMA ListMoves ==
  ASSUME NoticesTypeOK, ListsOK, NoneLost, \A s \in StoryIds : ~LeavesExpired(s),
         NEW c \in Lists, NEW l \in List, NEW back \in SUBSET StoryIds,
         Listing(c, l), revived' = [revived EXCEPT ![c] = back], ListOK(l, back, rows')
  PROVE  /\ lists' \in [Lists -> List] /\ revived' \in [Lists -> SUBSET StoryIds]
         /\ ListsOK'
<1>1. lists \in [Lists -> List] /\ revived \in [Lists -> SUBSET StoryIds]
  BY DEF NoticesTypeOK, ListsTypeOK
<1>2. lists' = [lists EXCEPT ![c] = l]
  BY DEF Listing
<1>3. ASSUME NEW d \in Lists PROVE ListOK(lists'[d], revived'[d], rows')
  <2>1. CASE d = c
    BY <1>1, <1>2, <2>1
  <2>2. CASE d # c
    <3>1. lists'[d] = lists[d] /\ revived'[d] = revived[d]
      BY <1>1, <1>2, <2>2
    <3>2. ListOK(lists[d], revived[d], rows)
      BY DEF ListsOK
    <3>3. QED BY <3>1, <3>2, ListKept
  <2>3. QED BY <2>1, <2>2
<1>4. QED BY <1>1, <1>2, <1>3 DEF ListsOK

\* A list that does nothing is well formed and knows nothing.
LEMMA NoListType == NoList \in List /\ \A back, t : ListOK(NoList, back, t)
<1>1. NoList \in List
  BY DEF NoList, List
<1>2. ASSUME NEW back, NEW t PROVE ListOK(NoList, back, t)
  BY DEF NoList, ListOK
<1>3. QED BY <1>1, <1>2

\* A list's query for what is due, and the beginning of the list.
LEMMA ListSweepStep ==
  ASSUME NoticesTypeOK, ListsOK, NoneLost, \A s \in StoryIds : ~LeavesExpired(s),
         NEW c \in Lists, NEW owner \in Users \cup {None}, NEW wanted \in SUBSET StoryStatus,
         ListSweep(c, owner, wanted)
  PROVE  /\ lists' \in [Lists -> List] /\ revived' \in [Lists -> SUBSET StoryIds]
         /\ ListsOK'
<1> DEFINE due == {s \in StoryIds : Due(rows[s])}
           pc == IF due = {} THEN "find" ELSE "expire"
           l == [NoList EXCEPT !.pc = pc, !.owner = owner, !.wanted = wanted, !.due = due]
<1>1. pc \in {"find", "expire"} /\ due \in SUBSET StoryIds /\ (pc = "find" => due = {})
  OBVIOUS
<1>2. \A s \in due : rows[s].status # "ABSENT"
  BY DEF Due, NoticesTypeOK, ListsTypeOK, TypeOK
<1>3. Listing(c, l) /\ revived' = [revived EXCEPT ![c] = {}] /\ UNCHANGED rows
  BY DEF ListSweep, vars
<1> HIDE DEF pc, due
<1>4. l \in List /\ l.pc = pc /\ l.due = due /\ l.found = {}
  BY <1>1 DEF NoList, List
<1> HIDE DEF l
<1>5. ListOK(l, {}, rows')
  BY <1>1, <1>2, <1>3, <1>4 DEF ListOK
<1>6. {} \in SUBSET StoryIds
  OBVIOUS
<1>7. QED BY <1>3, <1>4, <1>5, <1>6, ListMoves

\* The query of the list itself.
LEMMA ListFindStep ==
  ASSUME NoticesTypeOK, ListsOK, NoneLost, \A s \in StoryIds : ~LeavesExpired(s),
         NEW c \in Lists, ListFind(c)
  PROVE  /\ lists' \in [Lists -> List] /\ revived' \in [Lists -> SUBSET StoryIds]
         /\ ListsOK'
<1> DEFINE shown == {s \in StoryIds :
               /\ rows[s].status \in lists[c].wanted /\ ~rows[s].deleted
               /\ lists[c].owner \in {None, rows[s].owner}}
           found == {<<s, rows[s].status>> : s \in shown}
           l == [lists[c] EXCEPT !.pc = "sign", !.found = found]
<1>1. /\ lists[c] \in List /\ revived \in [Lists -> SUBSET StoryIds] /\ revived[c] \in SUBSET StoryIds
      /\ lists[c].pc = "find" /\ ListOK(lists[c], revived[c], rows)
  BY DEF NoticesTypeOK, ListsTypeOK, ListFind, ListsOK
<1>2. found \in SUBSET (StoryIds \X StoryStatus)
  BY <1>1 DEF List
<1>3. \A e \in found : /\ e[1] \in StoryIds /\ e[2] = rows[e[1]].status /\ ~rows[e[1]].deleted
  OBVIOUS
<1>4. Listing(c, l) /\ UNCHANGED <<rows, revived>>
  BY DEF ListFind, vars
<1> HIDE DEF found
<1>5. l \in List /\ l.pc = "sign" /\ l.due = lists[c].due /\ l.found = found
  BY <1>1, <1>2 DEF List
<1> HIDE DEF l
<1>6. ListOK(l, revived[c], rows')
  <2>1. l.due \subseteq {s \in StoryIds : rows[s].status # "ABSENT"}
    BY <1>1, <1>5 DEF ListOK
  <2>2. \A e \in l.found : e[2] # "EXPIRED" /\ e[1] \in l.due => e[1] \in revived[c]
    BY <1>1, <1>3, <1>5 DEF ListOK
  <2>3. QED BY <1>4, <1>5, <2>1, <2>2 DEF ListOK
<1>7. revived' = [revived EXCEPT ![c] = revived[c]]
  BY <1>1, <1>4
<1>8. QED BY <1>1, <1>4, <1>5, <1>6, <1>7, ListMoves

\* The update of the list's sweep: what was due is EXPIRED, unless it is deleted.
LEMMA ListExpireStep ==
  ASSUME IInv, NoticesTypeOK, ListsOK, NEW c \in Lists, ListExpire(c)
  PROVE  /\ IInv' /\ \A s \in StoryIds : rows'[s].moderation = rows[s].moderation
         /\ lists' \in [Lists -> List] /\ revived' \in [Lists -> SUBSET StoryIds]
         /\ ListsOK'
<1> DEFINE due == lists[c].due
           l == [lists[c] EXCEPT !.pc = "find"]
<1>1. /\ lists[c] \in List /\ due \in SUBSET StoryIds /\ lists[c].pc = "expire"
      /\ ListOK(lists[c], revived[c], rows)
      /\ rows \in [StoryIds -> Row]
  BY DEF NoticesTypeOK, ListsTypeOK, TypeOK, ListsOK, ListExpire, List
<1>2. /\ rows' = Swept(due) /\ UNCHANGED <<objects, reqs, mods>>
      /\ events' = events \cup {rows[s].owner : s \in due}
      /\ Listing(c, l) /\ revived' = [revived EXCEPT ![c] = {}]
  BY DEF ListExpire
<1>3. l \in List /\ l.pc = "find" /\ l.due = due /\ l.found = {}
  BY <1>1 DEF List, ListOK
<1>4. \A s \in due : Exists(s)
  BY <1>1 DEF ListOK, Exists
<1> HIDE DEF l, due
<1>5. /\ rows' \in [StoryIds -> Row] /\ objects' \subseteq Keys
      /\ DataOK' /\ Kept
  BY <1>1, <1>2, TableSwept
<1>6. events' \subseteq Users
  BY <1>1, <1>2, <1>4 DEF IInv, TypeOK, DataOK, RowsOK
<1>7. IInv'
  BY <1>2, <1>5, <1>6, HandlersStay, ModerationsStay DEF IInv, TypeOK
<1>8. NoneLost
  BY <1>5 DEF Kept, NoneLost
<1>9. \A s \in StoryIds : ~LeavesExpired(s) /\ rows'[s].moderation = rows[s].moderation
  BY <1>1, <1>2, SweptRows DEF LeavesExpired
<1>10. ASSUME NEW s \in due
       PROVE  rows'[s].status # "ABSENT" /\ (rows'[s].status = "EXPIRED" \/ rows'[s].deleted)
  <2>1. s \in StoryIds /\ rows[s].status \in StoryStatus /\ rows[s].deleted \in BOOLEAN
    BY <1>1, <1>4 DEF Row, Exists
  <2>2. /\ rows'[s].deleted = rows[s].deleted
        /\ rows'[s].status = IF s \in due /\ Expirable(rows[s]) THEN "EXPIRED" ELSE rows[s].status
    BY <1>1, <1>2, <2>1, SweptRows
  <2>3. QED BY <2>1, <2>2 DEF Expirable, StoryStatus
<1>11. ListOK(l, {}, rows')
  BY <1>1, <1>3, <1>10 DEF ListOK
<1>12. {} \in SUBSET StoryIds
  OBVIOUS
<1>13. QED BY <1>2, <1>3, <1>7, <1>8, <1>9, <1>11, <1>12, ListMoves

\* A step of a list keeps what the writers and the lists rest on, and touches no
\* verdict and no handler.
LEMMA ListsStepKeeps ==
  ASSUME IInv, NoticesTypeOK, ListsOK, ListsStep
  PROVE  /\ IInv' /\ ListsTypeOK' /\ ListsOK'
         /\ UNCHANGED <<reqs, mods>>
         /\ \A s \in StoryIds : rows'[s].moderation = rows[s].moderation
<1> SUFFICES /\ IInv' /\ ListsOK'
             /\ lists' \in [Lists -> List] /\ revived' \in [Lists -> SUBSET StoryIds]
             /\ UNCHANGED <<reqs, mods>>
             /\ \A s \in StoryIds : rows'[s].moderation = rows[s].moderation
    BY DEF ListsTypeOK, IInv
<1>1. PICK c \in Lists : \/ \E u \in Users : ListMine(c, u)
                         \/ ListAdminStories(c)
                         \/ ListExpire(c) \/ ListFind(c) \/ ListEnds(c)
  BY DEF ListsStep
<1>2. CASE ListExpire(c)
  BY <1>2, ListExpireStep DEF ListExpire
<1>3. CASE ~ListExpire(c)
  <2>1. UNCHANGED vars
    BY <1>1, <1>3 DEF ListMine, ListAdminStories, ListSweep, ListFind, ListEnds
  <2>2. IInv' /\ UNCHANGED <<rows, reqs, mods>>
    BY <2>1, StutterStep DEF vars
  <2>3. NoneLost /\ \A s \in StoryIds : ~LeavesExpired(s)
    BY <2>2 DEF NoneLost, LeavesExpired, Exists
  <2>4. ASSUME NEW u \in Users, ListMine(c, u)
        PROVE  /\ lists' \in [Lists -> List] /\ revived' \in [Lists -> SUBSET StoryIds]
               /\ ListsOK'
    <3>1. Current \in SUBSET StoryStatus
      BY DEF Current, StoryStatus
    <3>2. QED BY <2>3, <2>4, <3>1, ListSweepStep DEF ListMine
  <2>5. ASSUME ListAdminStories(c)
        PROVE  /\ lists' \in [Lists -> List] /\ revived' \in [Lists -> SUBSET StoryIds]
               /\ ListsOK'
    <3>1. PICK wanted \in AdminFilters : ListSweep(c, None, wanted)
      BY <2>5 DEF ListAdminStories
    <3>2. QED BY <2>3, <3>1, ListSweepStep, ListsAssumption
  <2>6. ASSUME ListEnds(c)
        PROVE  /\ lists' \in [Lists -> List] /\ revived' \in [Lists -> SUBSET StoryIds]
               /\ ListsOK'
    <3>1. Listing(c, NoList) /\ revived' = [revived EXCEPT ![c] = {}] /\ {} \in SUBSET StoryIds
      BY <2>6 DEF ListEnds
    <3>2. QED BY <2>3, <3>1, NoListType, ListMoves
  <2>7. QED BY <1>1, <1>3, <2>2, <2>3, <2>4, <2>5, <2>6, ListFindStep
<1>4. QED BY <1>2, <1>3

\* The lists stay what they are beside a step of the writers.
LEMMA ListsWaitKeeps ==
  ASSUME IInv, NoticesTypeOK, ListsOK, [Next]_vars, ListsWait
  PROVE  /\ lists' \in [Lists -> List] /\ revived' \in [Lists -> SUBSET StoryIds]
         /\ ListsOK'
<1> DEFINE more(c) == IF lists[c].pc = "idle" THEN {}
                      ELSE revived[c] \cup {s \in StoryIds : LeavesExpired(s)}
<1>1. /\ lists \in [Lists -> List] /\ revived \in [Lists -> SUBSET StoryIds]
      /\ UNCHANGED lists /\ revived' = [c \in Lists |-> more(c)]
  BY DEF NoticesTypeOK, ListsTypeOK, ListsWait, LeavesExpired
<1>2. NoneLost
  BY RowsKept DEF NoneLost
<1>3. ASSUME NEW c \in Lists PROVE more(c) \in SUBSET StoryIds /\ ListOK(lists[c], more(c), rows')
  <2>1. ListOK(lists[c], revived[c], rows) /\ revived[c] \in SUBSET StoryIds
    BY <1>1 DEF ListsOK
  <2>2. CASE lists[c].pc = "idle"
    BY <1>2, <2>1, <2>2 DEF ListOK, NoneLost, Exists
  <2>3. CASE lists[c].pc # "idle"
    <3>1. more(c) = revived[c] \cup {s \in StoryIds : LeavesExpired(s)}
      BY <2>3
    <3>2. QED BY <1>2, <2>1, <3>1, ListKept
  <2>4. QED BY <2>2, <2>3
<1> HIDE DEF more
<1>4. QED BY <1>1, <1>3 DEF ListsOK

-----------------------------------------------------------------------------
(* The notices: what the writers decide.                                   *)

\* A verdict of NEEDS_REVIEW is stored by an admin who has read one, or by the
\* moderation; every other write keeps the verdict or stores another.
LEMMA WhoRejects ==
  ASSUME IInv, Work \/ Fault, NEW s \in StoryIds,
         rows'[s].moderation = "NEEDS_REVIEW", rows[s].moderation # "NEEDS_REVIEW"
  PROVE  \/ \E r \in Requests : /\ reqs[r].pc = "write" /\ reqs[r].id = s
                                /\ reqs[r].moderation = "NEEDS_REVIEW"
         \/ /\ mods[s].moderation = "NEEDS_REVIEW"
            /\ \/ Work /\ ModerationWrite(s)
               \/ ModerationWriteUnanswered(s) /\ mods'[s].pc = "fail"
<1>1. rows \in [StoryIds -> Row] /\ mods \in [StoryIds -> ModerationRun]
  BY DEF IInv, TypeOK
<1>2. ASSUME NEW r \in Requests, StoreStatus(r)
      PROVE  reqs[r].pc = "write" /\ reqs[r].id = s /\ reqs[r].moderation = "NEEDS_REVIEW"
  BY <1>2, StoreStatusRow DEF StoreStatus
<1>3. ASSUME NEW r \in Requests, NEW t \in StoryIds, InsertStory(r, t) PROVE FALSE
  BY <1>1, <1>3 DEF InsertStory, NewRow
<1>4. ASSUME NEW r \in Requests, DeletionMark(r) PROVE FALSE
  <2>1. reqs[r].id \in StoryIds /\ Exists(reqs[r].id)
    BY <1>4, RequestType DEF DeletionMark, RequestOK, Exists, Handlers
  <2>2. Deleting(reqs[r].id)
    BY <1>4, <2>1 DEF DeletionMark, Deleting
  <2>3. QED BY <2>1, <2>2, DeletingRow
<1>5. ASSUME NEW h \in Handlers, ExpireDue(h) PROVE FALSE
  <2>1. reqs[h].due \in SUBSET StoryIds /\ rows' = Swept(reqs[h].due)
    BY <1>5 DEF ExpireDue, IInv, TypeOK, Request
  <2>2. QED BY <2>1, SweptRows
<1>6. ASSUME NEW t \in StoryIds, StoreVerdict(t)
      PROVE  t = s /\ mods[s].moderation = "NEEDS_REVIEW"
  BY <1>6, StoreVerdictRow
<1>7. ASSUME NEW t \in StoryIds, ModerationError(t) PROVE FALSE
  <2>1. rows[t] \in Row
    BY <1>1
  <2>2. [[rows[t] EXCEPT !.moderation = "ERROR"] EXCEPT !.idle = 0].moderation = "ERROR"
    BY <2>1 DEF Row
  <2>3. UNCHANGED rows \/ (rows'[t].moderation = "ERROR" /\ \A u \in StoryIds \ {t} : rows'[u] = rows[u])
    BY <1>1, <1>7, <2>2 DEF ModerationError, Write
  <2>4. QED BY <2>3
<1>8. ~Tick
  BY TickRow
<1>9. rows' # rows
  OBVIOUS
<1>10. ASSUME Work
       PROVE  \/ \E r \in Requests : StoreStatus(r)
              \/ ModerationWrite(s) /\ mods[s].moderation = "NEEDS_REVIEW"
  <2>1. ASSUME NEW r \in Requests, RequestStarts(r) \/ RequestStep(r) PROVE StoreStatus(r)
    BY <1>3, <1>4, <1>9, <2>1 DEF RequestStarts, StartConfirm, StartRemove, StartAdminDelete,
       StartAdminStatus, StartOnStory, RequestStep, EnsureObjectExists, ConfirmLookup, CreateRefused,
       CreateStory, StartModeration, DeletionFind, DeletionCleanup, AdminFind, AdminWrite
  <2>2. ASSUME NEW h \in Handlers, Sweep(h) PROVE FALSE
    BY <1>5, <1>9, <2>2 DEF Sweep, SweepFindMany, SweepUpdateMany
  <2>3. ASSUME NEW t \in StoryIds, ModerationStep(t)
        PROVE  t = s /\ ModerationWrite(s) /\ mods[s].moderation = "NEEDS_REVIEW"
    BY <1>6, <1>7, <1>9, <2>3 DEF ModerationStep, ModerationFind, ModerationAnalyze, ModerationWrite,
       ModerationWriteFails
  <2>4. QED BY <1>8, <1>9, <1>10, <2>1, <2>2, <2>3 DEF Work, Upload
<1>11. ASSUME Fault
       PROVE  \/ \E r \in Requests : StoreStatus(r)
              \/ ModerationWriteUnanswered(s) /\ mods[s].moderation = "NEEDS_REVIEW"
  BY <1>3, <1>5, <1>6, <1>9, <1>11 DEF Fault, Abandon, SweepUnanswered, AdminWriteUnanswered,
     CreateUnanswered, ModerationWriteUnanswered, EventSettles, Crash
<1>12. ModerationWriteUnanswered(s) => mods'[s].pc = "fail"
  BY <1>1 DEF ModerationWriteUnanswered, Settle, Moderate, NotStarted
<1>13. QED BY <1>2, <1>10, <1>11, <1>12

\* A moderation that is over does not run again: whoever would start it has created
\* the story, and it had not run then.
LEMMA DoneStays ==
  ASSUME IInv, OneSigner, Work \/ Fault, NEW s \in StoryIds, mods[s].pc = "done"
  PROVE  mods'[s].pc = "done"
<1>1. ASSUME NEW r \in Requests, StartModeration(r), reqs[r].id = s PROVE FALSE
  BY <1>1 DEF StartModeration, OneSigner
<1>2. ~ModerationStep(s)
  BY DEF ModerationStep, ModerationFind, ModerationAnalyze, ModerationWrite, StoreVerdict,
     ModerationWriteFails, ModerationError
<1>3. ~ModerationWriteUnanswered(s)
  BY DEF ModerationWriteUnanswered, StoreVerdict
<1>4. QED BY <1>1, <1>2, <1>3, ModerationWorks, ModerationFails

\* A moderation that has not begun is begun by nobody but a request that has created
\* the story.
LEMMA NoneStays ==
  ASSUME IInv, Work \/ Fault, NEW s \in StoryIds, mods[s].pc = "none",
         \A r \in Requests : reqs[r].id = s => ~StartModeration(r)
  PROVE  mods'[s].pc = "none"
<1>1. ~ModerationStep(s)
  BY DEF ModerationStep, ModerationFind, ModerationAnalyze, ModerationWrite, StoreVerdict,
     ModerationWriteFails, ModerationError
<1>2. QED BY <1>1, ModerationWorks, ModerationFails

\* One request at most starts the moderation of a story, and it does so once.
LEMMA OneSignerKept ==
  ASSUME IInv, OneSigner, Work \/ Fault
  PROVE  OneSigner'
<1>1. ASSUME NEW r \in Requests, reqs[r].pc = "sign"
      PROVE  reqs[r].id \in StoryIds /\ Exists(reqs[r].id)
  BY <1>1, RequestType DEF RequestOK, Exists, Handlers
<1>2. \A r \in Requests : StartModeration(r) => reqs[r].pc = "sign" /\ reqs'[r] = Idle
  BY DEF StartModeration, Answer, Become, IInv, TypeOK, Handlers
<1>3. ASSUME NEW r \in Requests, reqs'[r].pc = "sign", reqs'[r] # reqs[r]
      PROVE  /\ reqs'[r].id \in StoryIds /\ ~Exists(reqs'[r].id)
             /\ \A q \in Requests : q # r => reqs'[q] = reqs[q]
  <2>1. Work
    BY <1>3, RequestFails DEF Idle
  <2>2. PICK s \in StoryIds : CreateStory(r, s) /\ reqs'[r].id = s
    BY <1>3, <2>1, SignBegins
  <2>3. HandlerStep(r) /\ r \in Handlers /\ Requests \subseteq Handlers
    BY <2>2 DEF HandlerStep, RequestStep, Handlers
  <2>4. QED BY <2>2, <2>3, HandlerAlone DEF CreateStory, InsertStory
<1>4. ASSUME NEW r \in Requests, reqs'[r].pc = "sign" PROVE mods'[reqs'[r].id].pc = "none"
  <2>1. CASE reqs'[r] = reqs[r]
    <3>1. mods[reqs[r].id].pc = "none" /\ reqs[r].id \in StoryIds
      BY <1>1, <1>4, <2>1 DEF OneSigner
    <3>2. ASSUME NEW q \in Requests, reqs[q].id = reqs[r].id, StartModeration(q) PROVE FALSE
      <4>1. q = r
        BY <1>2, <1>4, <2>1, <3>2 DEF OneSigner
      <4>2. QED BY <1>2, <1>4, <3>2, <4>1 DEF Idle
    <3>3. QED BY <2>1, <3>1, <3>2, NoneStays
  <2>2. CASE reqs'[r] # reqs[r]
    <3> DEFINE s == reqs'[r].id
    <3>1. s \in StoryIds /\ ~Exists(s)
      BY <1>3, <1>4, <2>2
    <3>2. mods[s].pc = "none"
      BY <3>1, ModerationType DEF ModerationOK, Exists
    <3>3. \A q \in Requests : reqs[q].id = s => ~StartModeration(q)
      BY <1>1, <1>2, <3>1
    <3>4. QED BY <3>1, <3>2, <3>3, NoneStays
  <2>3. QED BY <2>1, <2>2
<1>5. ASSUME NEW r \in Requests, NEW q \in Requests, reqs'[r].pc = "sign", reqs'[q].pc = "sign",
             reqs'[q].id = reqs'[r].id
      PROVE  q = r
  <2>1. CASE reqs'[r] = reqs[r] /\ reqs'[q] = reqs[q]
    BY <1>5, <2>1 DEF OneSigner
  <2>2. CASE reqs'[r] # reqs[r]
    BY <1>1, <1>3, <1>5, <2>2
  <2>3. CASE reqs'[q] # reqs[q]
    BY <1>1, <1>3, <1>5, <2>3
  <2>4. QED BY <2>1, <2>2, <2>3
<1>6. QED BY <1>4, <1>5 DEF OneSigner

-----------------------------------------------------------------------------
(* The notices: what is told.                                              *)

\* Whose owner is accounted for stays so: a notice arrives, or is lost on record.
LEMMA AccountedKept ==
  ASSUME NoticesTypeOK, AtMostOneNotice, [NoticesNext]_noticeVars, NEW s \in StoryIds, Accounted(s)
  PROVE  Accounted(s)'
<1>1. told \in [StoryIds -> Nat]
  BY DEF NoticesTypeOK
<1>2. CASE WritersWork
  BY <1>2 DEF WritersWork, Accounted
<1>3. CASE WritersFail
  <2>1. outbox \ outbox' \subseteq untold' /\ untold \subseteq untold' /\ UNCHANGED told
    BY <1>3 DEF WritersFail
  <2>2. QED BY <2>1 DEF Accounted
<1>4. ASSUME NEW t \in StoryIds, NoticeArrives(t) PROVE Accounted(s)'
  <2>1. /\ t \in outbox /\ outbox' = outbox \ {t} /\ UNCHANGED untold
        /\ told' = [told EXCEPT ![t] = @ + 1]
    BY <1>4 DEF NoticeArrives
  <2>2. CASE s = t
    <3>1. told[s] = 0
      BY <1>1, <2>1, <2>2 DEF AtMostOneNotice
    <3>2. QED BY <1>1, <2>1, <2>2, <3>1 DEF Accounted
  <2>3. CASE s # t
    BY <1>1, <2>1, <2>3 DEF Accounted
  <2>4. QED BY <2>2, <2>3
<1>5. ASSUME NEW t \in StoryIds, NoticeFails(t) PROVE Accounted(s)'
  BY <1>5 DEF NoticeFails, Accounted
<1>6. CASE ServiceLists \/ UNCHANGED noticeVars
  BY <1>6 DEF ServiceLists, noticeVars, Accounted
<1>7. QED BY <1>2, <1>3, <1>4, <1>5, <1>6 DEF NoticesNext

\* A verdict is told by the step that ends its moderation, and by no other.
LEMMA QuietKept ==
  ASSUME IInv, NoticesTypeOK, NoticesOK, WritersWork \/ WritersFail
  PROVE  QuietUntilDone' /\ AtMostOneNotice'
<1>1. Work \/ Fault
  BY DEF WritersWork, WritersFail
<1>2. ASSUME NEW s \in StoryIds, mods'[s].pc # "done" PROVE told[s] = 0 /\ s \notin outbox
  BY <1>1, <1>2, DoneStays DEF NoticesOK, QuietUntilDone
<1>3. UNCHANGED told /\ (outbox' \subseteq outbox \/ outbox' = outbox \cup Notices)
  BY DEF WritersWork, WritersFail
<1>4. ASSUME NEW s \in Notices PROVE mods'[s].pc = "done" /\ told[s] = 0 /\ s \notin outbox
  BY DEF Notices, VerdictStored, NoticesOK, QuietUntilDone
<1>5. QuietUntilDone'
  BY <1>2, <1>3, <1>4 DEF QuietUntilDone
<1>6. ASSUME NEW s \in StoryIds PROVE told[s] + (IF s \in outbox' THEN 1 ELSE 0) <= 1
  <2>1. told[s] \in Nat /\ told[s] + (IF s \in outbox THEN 1 ELSE 0) <= 1
    BY DEF NoticesTypeOK, NoticesOK, AtMostOneNotice
  <2>2. CASE s \in Notices
    BY <1>4, <2>2
  <2>3. CASE s \notin Notices
    BY <1>3, <2>1, <2>3
  <2>4. QED BY <2>2, <2>3
<1>7. QED BY <1>3, <1>5, <1>6 DEF AtMostOneNotice

\* Whoever is about to store a rejection without telling has a reason on record.
LEMMA VerdictsKept ==
  ASSUME IInv, NoticesTypeOK, NoticesOK, WritersWork \/ WritersFail
  PROVE  VerdictsAccounted'
<1>1. Work \/ Fault
  BY DEF WritersWork, WritersFail
<1>2. untold \subseteq untold' /\ (Work \/ ~WritersWork)
  BY DEF WritersWork, WritersFail
<1>3. ASSUME NEW s \in StoryIds, mods'[s].pc \in {"analyze", "write"}, mods'[s] # mods[s]
      PROVE  WritersWork
  BY <1>3, ModerationFails DEF WritersFail
<1>4. ASSUME NEW s \in StoryIds, mods'[s].pc = "analyze", mods'[s].status = "BLOCKED"
      PROVE  s \in untold'
  <2>1. CASE mods'[s] = mods[s]
    BY <1>2, <1>4, <2>1 DEF NoticesOK, VerdictsAccounted
  <2>2. CASE mods'[s] # mods[s]
    <3>1. WritersWork
      BY <1>3, <1>4, <2>2
    <3>2. mods[s].pc = "find" /\ rows[s].status = "BLOCKED"
      BY <1>4, <2>2, <3>1, AnalysisBegins DEF WritersWork
    <3>3. QED BY <1>4, <3>1, <3>2 DEF WritersWork, FoundBlocked
  <2>3. QED BY <2>1, <2>2
<1>5. ASSUME NEW s \in StoryIds, mods'[s].pc = "write", s \in Rejections'
      PROVE  mods'[s].announce \/ s \in untold'
  <2>1. CASE mods'[s] = mods[s]
    BY <1>2, <1>5, <2>1 DEF NoticesOK, VerdictsAccounted, Rejections
  <2>2. CASE mods'[s] # mods[s]
    <3>1. Work
      BY <1>3, <1>5, <2>2 DEF WritersWork
    <3>2. mods[s].pc = "analyze"
      BY <1>5, <2>2, <3>1, VerdictBegins
    <3>3. PICK action \in RecommendedAction : mods'[s] = Verdict(action, mods[s].status)
      BY <1>5, <2>2, <3>1, VerdictBegins
    <3>4. CASE mods[s].status = "BLOCKED"
      BY <1>2, <3>2, <3>4 DEF NoticesOK, VerdictsAccounted
    <3>5. CASE mods[s].status # "BLOCKED"
      <4>1. ~IsApproved(action)
        BY <1>5, <3>3 DEF Verdict, Rejections
      <4>2. mods'[s].announce = (mods[s].status # "BLOCKED")
        BY <3>3, <4>1 DEF Verdict
      <4>3. QED BY <3>5, <4>2, Zenon
    <3>6. QED BY <3>4, <3>5
  <2>3. QED BY <2>1, <2>2
<1> DEFINE Later(s) == told'[s] = 1 \/ s \in outbox' \/ s \in untold'
<1>6. ASSUME NEW r \in Requests, reqs'[r].pc = "write", reqs'[r].moderation = "NEEDS_REVIEW"
      PROVE  Later(reqs'[r].id)
  <2>1. \A s \in StoryIds : Accounted(s) => Later(s)
    BY AccountedKept DEF NoticesNext, NoticesOK, Accounted
  <2>2. /\ reqs \in [Handlers -> Request] /\ r \in Handlers /\ reqs[r] \in Request
        /\ reqs[r].pc \in {"find", "write"} => reqs[r].id \in StoryIds
    BY RequestType DEF IInv, TypeOK, Handlers, RequestOK
  <2>3. CASE reqs'[r] = reqs[r]
    <3>1. reqs[r].id \in StoryIds /\ Accounted(reqs[r].id)
      BY <1>6, <2>2, <2>3 DEF NoticesOK, VerdictsAccounted
    <3>2. QED BY <2>1, <2>3, <3>1
  <2>4. CASE reqs'[r] # reqs[r]
    <3>1. Work
      BY <1>1, <1>6, <2>4, RequestFails DEF Idle
    <3>2. AdminFind(r)
      BY <1>6, <2>4, <3>1, WriteBegins
    <3> DEFINE row == rows[reqs[r].id]
               q == [reqs[r] EXCEPT !.pc = "write", !.moderation = AdminModeration(reqs[r].status, row),
                                    !.announce = (reqs[r].status # row.status)]
    <3>3. reqs'[r] = q
      BY <1>6, <2>2, <3>2 DEF AdminFind, Answer, Become, Idle
    <3>4. q.moderation = AdminModeration(reqs[r].status, row) /\ q.id = reqs[r].id
      BY <2>2 DEF Request
    <3>5. reqs[r].id \in StoryIds /\ row.moderation = "NEEDS_REVIEW"
      <4>1. AdminModeration(reqs[r].status, row) = "NEEDS_REVIEW"
        BY <1>6, <3>3, <3>4
      <4>2. QED BY <2>2, <3>2, <4>1 DEF AdminFind, AdminModeration
    <3>6. Accounted(reqs[r].id)
      BY <3>5 DEF NoticesOK, RejectionTold, Accounted
    <3> HIDE DEF q
    <3>7. QED BY <2>1, <3>3, <3>4, <3>5, <3>6
  <2>5. QED BY <2>3, <2>4
<1>7. QED BY <1>4, <1>5, <1>6 DEF VerdictsAccounted, Accounted

\* A rejection that is stored is told, or there is a reason why not.
LEMMA RejectionKept ==
  ASSUME IInv, NoticesTypeOK, NoticesOK, WritersWork \/ WritersFail
  PROVE  RejectionTold'
<1> SUFFICES ASSUME NEW s \in StoryIds, rows'[s].moderation = "NEEDS_REVIEW" \/ s \in rejected'
             PROVE  Accounted(s)'
    BY DEF RejectionTold, Accounted
<1>1. Work \/ Fault
  BY DEF WritersWork, WritersFail
<1>2. Accounted(s) => Accounted(s)'
  BY AccountedKept DEF NoticesNext, NoticesOK
<1>3. CASE rows[s].moderation = "NEEDS_REVIEW"
  BY <1>2, <1>3 DEF NoticesOK, RejectionTold, Accounted
<1>4. ASSUME NEW r \in Requests, reqs[r].pc = "write", reqs[r].id = s, reqs[r].moderation = "NEEDS_REVIEW"
      PROVE  Accounted(s)'
  BY <1>2, <1>4 DEF NoticesOK, VerdictsAccounted
<1>5. ASSUME mods[s].moderation = "NEEDS_REVIEW", ModerationWrite(s) \/ ModerationWriteUnanswered(s)
      PROVE  mods[s].pc = "write" /\ (mods[s].announce \/ Accounted(s))
  BY <1>5 DEF ModerationWrite, ModerationWriteUnanswered, StoreVerdict, NoticesOK, VerdictsAccounted,
     Rejections, Accounted
<1>6. ASSUME mods[s].moderation = "NEEDS_REVIEW", Work, ModerationWrite(s),
             rows'[s].moderation = "NEEDS_REVIEW"
      PROVE  Accounted(s)'
  <2>1. mods'[s].pc = "done" /\ mods \in [StoryIds -> ModerationRun]
    BY <1>6 DEF ModerationWrite, Settle, Moderate, NotStarted, IInv, TypeOK
  <2>2. CASE mods[s].announce
    <3>1. s \in Notices
      BY <1>5, <1>6, <2>1, <2>2 DEF Notices, VerdictStored
    <3>2. CASE WritersWork
      BY <3>1, <3>2 DEF WritersWork, Accounted
    <3>3. CASE WritersFail
      <4>1. mods'[s] # mods[s]
        BY <1>5, <1>6, <2>1
      <4>2. Crash \/ mods'[s].pc = "fail"
        BY <3>3, <4>1, ModerationFails DEF WritersFail
      <4>3. rows' = rows
        BY <2>1, <4>2 DEF Crash
      <4>4. QED BY <1>2, <1>6, <4>3 DEF NoticesOK, RejectionTold, Accounted
    <3>4. QED BY <3>2, <3>3
  <2>3. QED BY <1>2, <1>5, <1>6, <2>2
<1>7. ASSUME mods[s].moderation = "NEEDS_REVIEW", ModerationWriteUnanswered(s), mods'[s].pc = "fail",
             rows'[s].moderation = "NEEDS_REVIEW"
      PROVE  Accounted(s)'
  <2>1. s \in VerdictUnanswered /\ mods'[s] # mods[s]
    BY <1>5, <1>7 DEF VerdictUnanswered
  <2>2. ~Work \/ WritersFail \/ ModerationStep(s)
    BY <1>7, <2>1, ModerationWorks
  <2>3. CASE WritersFail
    BY <2>1, <2>3 DEF WritersFail, Accounted
  <2>4. CASE WritersWork
    <3>1. ModerationStep(s)
      BY <1>7, <2>1, <2>4, ModerationWorks DEF WritersWork
    <3>2. ModerationWriteFails(s)
      BY <1>5, <1>7, <3>1 DEF ModerationStep, ModerationFind, ModerationAnalyze, ModerationError,
         ModerationWrite, Settle, Moderate, NotStarted, IInv, TypeOK
    <3>3. rows' = rows
      BY <3>2 DEF ModerationWriteFails
    <3>4. QED BY <1>2, <1>7, <3>3 DEF NoticesOK, RejectionTold, Accounted
  <2>5. QED BY <2>3, <2>4
<1>8. CASE rows'[s].moderation = "NEEDS_REVIEW"
  BY <1>1, <1>3, <1>4, <1>6, <1>7, <1>8, WhoRejects
<1>9. CASE s \in rejected
  BY <1>2, <1>9 DEF NoticesOK, RejectionTold, Accounted
<1>10. CASE s \in rejected' \ rejected
  <2>1. CASE WritersWork
    <3>1. s \in VerdictStored /\ s \in Rejections /\ mods[s].pc = "write"
      BY <1>10, <2>1 DEF WritersWork, VerdictStored
    <3>2. mods[s].announce \/ s \in untold
      BY <3>1 DEF NoticesOK, VerdictsAccounted
    <3>3. QED BY <2>1, <3>1, <3>2 DEF WritersWork, Notices, Accounted
  <2>2. CASE WritersFail
    BY <1>10, <2>2 DEF WritersFail, Accounted
  <2>3. QED BY <2>1, <2>2
<1>11. QED BY <1>8, <1>9, <1>10

-----------------------------------------------------------------------------
(* The invariant and the theorems.                                         *)

\* The service, with neither list nor notice, satisfies the invariant.
LEMMA InitNoticesInv == NoticesInit => NoticesInv
<1> SUFFICES ASSUME NoticesInit PROVE NoticesInv
    OBVIOUS
<1>1. IInv
  BY InitIInv DEF NoticesInit, ListsInit
<1>2. NoticesTypeOK
  BY <1>1, NoListType DEF IInv, NoticesInit, ListsInit, NoticesTypeOK, ListsTypeOK
<1>3. ListsOK
  BY NoListType DEF NoticesInit, ListsInit, ListsOK
<1>4. /\ outbox = {} /\ rejected = {} /\ told = [s \in StoryIds |-> 0]
      /\ \A s \in StoryIds : mods[s].pc = "none" /\ rows[s].moderation = "none"
      /\ \A r \in Requests : reqs[r].pc = "idle"
  BY DEF NoticesInit, ListsInit, Init, NotStarted, NoRow, Idle, Handlers
<1>5. NoticesOK
  BY <1>4 DEF NoticesOK, OneSigner, QuietUntilDone, VerdictsAccounted, AtMostOneNotice, RejectionTold,
     Rejections
<1>6. QED BY <1>1, <1>2, <1>3, <1>5 DEF NoticesInv

\* A step of the service keeps it, with the lists and the notices waiting.
LEMMA ServiceKeeps ==
  ASSUME NoticesInv, WritersWork \/ WritersFail
  PROVE  NoticesInv'
<1>1. IInv /\ NoticesTypeOK /\ ListsOK /\ NoticesOK /\ [Next]_vars /\ ListsWait /\ (Work \/ Fault)
  BY DEF NoticesInv, WritersWork, WritersFail, Next
<1>2. IInv'
  BY <1>1, NextIInv
<1>3. /\ lists' \in [Lists -> List] /\ revived' \in [Lists -> SUBSET StoryIds]
      /\ ListsOK'
  BY <1>1, ListsWaitKeeps
<1>4. /\ outbox' \subseteq StoryIds /\ told' \in [StoryIds -> Nat]
      /\ rejected' \subseteq StoryIds /\ untold' \subseteq StoryIds
  BY <1>1 DEF WritersWork, WritersFail, NoticesTypeOK, Notices, VerdictStored, Rejections, FoundBlocked,
     VerdictUnanswered
<1>5. NoticesTypeOK'
  BY <1>2, <1>3, <1>4 DEF NoticesTypeOK, ListsTypeOK, IInv
<1>6. OneSigner'
  BY <1>1, OneSignerKept DEF NoticesOK
<1>7. NoticesOK'
  BY <1>1, <1>6, QuietKept, VerdictsKept, RejectionKept DEF NoticesOK
<1>8. QED BY <1>2, <1>3, <1>5, <1>7 DEF NoticesInv

\* So does a list.
LEMMA ServiceListsKeeps ==
  ASSUME NoticesInv, ServiceLists
  PROVE  NoticesInv'
<1>1. /\ IInv' /\ ListsTypeOK' /\ ListsOK'
      /\ UNCHANGED <<reqs, mods, outbox, told, rejected, untold>>
      /\ \A s \in StoryIds : rows'[s].moderation = rows[s].moderation
  BY ListsStepKeeps DEF NoticesInv, ServiceLists
<1>2. NoticesTypeOK'
  BY <1>1 DEF NoticesInv, NoticesTypeOK
<1>3. NoticesOK'
  BY <1>1 DEF NoticesInv, NoticesOK, OneSigner, QuietUntilDone, VerdictsAccounted, Accounted,
     AtMostOneNotice, RejectionTold, Rejections
<1>4. QED BY <1>1, <1>2, <1>3 DEF NoticesInv

\* So does a notice that arrives or is lost.
LEMMA NoticeKeeps ==
  ASSUME NoticesInv, NEW t \in StoryIds, NoticeArrives(t) \/ NoticeFails(t)
  PROVE  NoticesInv'
<1>1. IInv /\ NoticesTypeOK /\ ListsOK /\ NoticesOK
  BY DEF NoticesInv
<1>2. /\ UNCHANGED <<vars, rows, objects, reqs, mods, events, lists, revived>>
      /\ t \in outbox /\ outbox' = outbox \ {t}
      /\ rejected' = rejected /\ (untold' = untold \/ untold' = untold \cup {t})
      /\ told' = told \/ told' = [told EXCEPT ![t] = @ + 1]
  BY DEF NoticeArrives, NoticeFails, listVars, vars
<1>3. IInv' /\ ListsOK'
  BY <1>1, <1>2, StutterStep DEF ListsOK
<1>4. told \in [StoryIds -> Nat] /\ told[t] = 0 /\ mods[t].pc = "done"
  BY <1>1, <1>2 DEF NoticesTypeOK, NoticesOK, AtMostOneNotice, QuietUntilDone
<1>5. told' \in [StoryIds -> Nat] /\ told'[t] \in {0, 1} /\ \A s \in StoryIds \ {t} : told'[s] = told[s]
  BY <1>2, <1>4
<1>6. NoticesTypeOK'
  BY <1>1, <1>2, <1>3, <1>5 DEF NoticesTypeOK, ListsTypeOK, IInv
<1>7. OneSigner'
  BY <1>1, <1>2 DEF NoticesOK, OneSigner
<1>8. QuietUntilDone'
  BY <1>1, <1>2, <1>4, <1>5 DEF NoticesOK, QuietUntilDone
<1>9. AtMostOneNotice'
  <2> SUFFICES ASSUME NEW s \in StoryIds PROVE told'[s] + (IF s \in outbox' THEN 1 ELSE 0) <= 1
      BY DEF AtMostOneNotice
  <2>1. CASE s = t
    BY <1>2, <1>5, <2>1
  <2>2. CASE s # t
    BY <1>1, <1>2, <1>5, <2>2 DEF NoticesOK, AtMostOneNotice
  <2>3. QED BY <2>1, <2>2
<1>10. \A s \in StoryIds : Accounted(s) => Accounted(s)'
  BY <1>1, AccountedKept DEF NoticesOK, NoticesNext
<1>11. RejectionTold'
  BY <1>1, <1>2, <1>10 DEF NoticesOK, RejectionTold, Accounted
<1>12. VerdictsAccounted'
  <2>1. \A r \in Requests : reqs[r].pc = "write" => reqs[r].id \in StoryIds
    BY <1>1, RequestType DEF RequestOK, Handlers
  <2>2. \A s \in StoryIds : (told[s] = 1 \/ s \in outbox \/ s \in untold)
                            => (told'[s] = 1 \/ s \in outbox' \/ s \in untold')
    BY <1>10 DEF Accounted
  <2>3. QED BY <1>1, <1>2, <2>1, <2>2 DEF NoticesOK, VerdictsAccounted, Accounted, Rejections
<1>13. QED BY <1>3, <1>6, <1>7, <1>8, <1>9, <1>11, <1>12 DEF NoticesInv, NoticesOK

\* Every step of the service, of the lists and of the notices keeps the invariant.
LEMMA NextNoticesInv == NoticesInv /\ [NoticesNext]_noticeVars => NoticesInv'
<1> SUFFICES ASSUME NoticesInv, [NoticesNext]_noticeVars PROVE NoticesInv'
    OBVIOUS
<1>1. CASE UNCHANGED noticeVars
  <2>1. UNCHANGED <<vars, rows, objects, reqs, mods, events, lists, revived, outbox, told, rejected, untold>>
    BY <1>1 DEF noticeVars, listVars, vars
  <2>2. IInv'
    BY <2>1, StutterStep DEF NoticesInv
  <2>3. NoticesTypeOK' /\ ListsOK'
    BY <2>1, <2>2 DEF NoticesInv, IInv, NoticesTypeOK, ListsTypeOK, ListsOK
  <2>4. NoticesOK'
    BY <2>1 DEF NoticesInv, NoticesOK, OneSigner, QuietUntilDone, VerdictsAccounted, Accounted,
       AtMostOneNotice, RejectionTold, Rejections
  <2>5. QED BY <2>2, <2>3, <2>4 DEF NoticesInv
<1>2. QED BY <1>1, ServiceKeeps, ServiceListsKeeps, NoticeKeeps DEF NoticesNext

\* Writers, lists and notices keep the invariant together.
THEOREM NoticesInvariance == NoticesSpec => []NoticesInv
<1>1. QED BY InitNoticesInv, NextNoticesInv, PTL DEF NoticesSpec

\* Writers, lists and notices keep their types.
THEOREM NoticesTypeCorrect == NoticesSpec => []NoticesTypeOK
<1>1. NoticesInv => NoticesTypeOK
  BY DEF NoticesInv
<1>2. QED BY <1>1, NoticesInvariance, PTL

\* What a list shows as current was not due when the call began, unless somebody
\* has put it back since the call's own sweep.
THEOREM ListsShowNothingDue == NoticesSpec => []ListsNothingDue
<1>1. NoticesInv => ListsNothingDue
  BY DEF NoticesInv, ListsOK, ListOK, ListsNothingDue
<1>2. QED BY <1>1, NoticesInvariance, PTL

\* An owner is told of a story's rejection at most once.
THEOREM OneNoticeAtMost == NoticesSpec => []AtMostOneNotice
<1>1. NoticesInv => AtMostOneNotice
  BY DEF NoticesInv, NoticesOK
<1>2. QED BY <1>1, NoticesInvariance, PTL

\* An owner is told of every rejection, whether it sends the story to review or
\* removes it, or it is on record why not.
THEOREM EveryRejectionTold == NoticesSpec => []RejectionTold
<1>1. NoticesInv => RejectionTold
  BY DEF NoticesInv, NoticesOK
<1>2. QED BY <1>1, NoticesInvariance, PTL

\* A story lives the life StoryLifecycle allows although every list sweeps too: a
\* step of a list is a sweep of the table, or none at all.
THEOREM ListsKeepLifecycle == NoticesSpec => ImplementsLifecycle
<1>1. NoticesInit => Lifecycle!Init
  BY InitImplements DEF NoticesInit, ListsInit
<1>2. ASSUME NEW c \in Lists, ListExpire(c) PROVE RowStep
  BY <1>2, SweptIsStep DEF ListExpire
<1>3. ListsStep => RowStep
  BY <1>2 DEF ListsStep, ListMine, ListAdminStories, ListSweep, ListFind, ListEnds, vars, RowStep
<1>4. NoticesInv /\ [NoticesNext]_noticeVars => RowStep
  BY <1>3, RowSteps DEF NoticesNext, WritersWork, WritersFail, ServiceLists, NoticeArrives, NoticeFails,
     noticeVars, listVars, vars, NoticesInv, Next, RowStep
<1>5. NoticesInv /\ [NoticesNext]_noticeVars => [Lifecycle!Next]_(Lifecycle!vars)
  BY <1>4, RowStepImplements DEF NoticesInv
<1>6. QED
  BY <1>1, <1>5, NoticesInvariance, PTL DEF NoticesSpec, ImplementsLifecycle, Lifecycle!Spec
=============================================================================
