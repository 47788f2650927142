----------------------------- MODULE CatalogSync -----------------------------
(***************************************************************************)
(* Stories together with the service on the other end of its cache events. *)
(* Catalog (external) keeps the stories of an owner that it read from here *)
(* until a story.created or story.expired event for the owner arrives.     *)
(* CatalogCacheEventsService sends each event once, gives up after its     *)
(* timeout and only logs the failure, so that an owner whose event is lost *)
(* stays stale: `dropped' remembers whom that has happened to.             *)
(*                                                                         *)
(* listFeed and listUserStories query the table, then await Identity and   *)
(* the signing of URLs, and answer: `fills' are answers on their way.  An  *)
(* event may arrive in between, and find nothing yet to drop: `overtaken'  *)
(* remembers the owners Catalog has cached such an answer for.             *)
(*                                                                         *)
(* updateAdminStoryStatus and moderateStoryAfterPublish decide by the row  *)
(* they have read whether the status they are about to store is news.      *)
(* `stale' and `misjudged' follow what becomes of such a decision when the *)
(* status changes before the write.                                        *)
(***************************************************************************)
EXTENDS Stories

CONSTANT MaxAnswers  \* bound: answers to Catalog on their way at a time

\* `stale' holds ids of both kinds.
ASSUME SyncAssumption == Requests \cap StoryIds = {}

VARIABLES
    catalog,   \* the stories Catalog has cached, per owner
    fills,     \* answers to Catalog on their way; late: since the query an
               \* event for the owner has arrived, was lost, or was left out
    overtaken, \* owners whose copy in Catalog is of a late answer
    dropped,   \* owners an event was lost for since Catalog cached what it has
    stale,     \* requests, and stories under moderation, whose row has changed
               \* status since they read it
    misjudged  \* owners a stale handler has written for, and told nobody, since
               \* Catalog cached what it has

syncVars == <<vars, catalog, fills, overtaken, dropped, stale, misjudged>>

Fill == [owner : Users, stories : SUBSET StoryIds, late : BOOLEAN]

SyncTypeOK ==
    /\ TypeOK
    /\ catalog \in [Users -> SUBSET StoryIds]
    /\ fills \subseteq Fill /\ overtaken \subseteq Users
    /\ dropped \subseteq Users
    /\ stale \subseteq Requests \cup StoryIds
    /\ misjudged \subseteq Users

SyncInit ==
    /\ Init
    /\ catalog = [u \in Users |-> {}]
    /\ fills = {} /\ overtaken = {}
    /\ dropped = {}
    /\ stale = {}
    /\ misjudged = {}

\* Catalog has S of u from now on, read late or not: whatever was missed for the
\* copy it had no longer matters.
Caches(u, S, late) ==
    /\ catalog' = [catalog EXCEPT ![u] = S]
    /\ overtaken' = IF late /\ S # {} THEN overtaken \cup {u} ELSE overtaken \ {u}
    /\ dropped' = dropped \ {u}
    /\ misjudged' = misjudged \ {u}
    /\ UNCHANGED stale

\* The answers on their way to Catalog that are about U's are late now.
Outrun(U) == fills' = {[f EXCEPT !.late = @ \/ f.owner \in U] : f \in fills}

\* Mutant: the stories go by their storagePath in the answer.
CatalogReadOfPaths(u) ==
    /\ Cardinality(fills) < MaxAnswers
    /\ fills' = fills \cup {[owner |-> u, late |-> FALSE, stories |-> {rows[s].key :
                              s \in {t \in StoryIds : Visible(t) /\ rows[t].owner = u}}]}
    /\ UNCHANGED <<vars, catalog, overtaken, dropped, stale, misjudged>>

\* The query of a list that Catalog has asked for.
CatalogRead(u) ==
    /\ Cardinality(fills) < MaxAnswers
    /\ fills' = fills \cup {[owner |-> u, late |-> FALSE,
                            stories |-> {s \in StoryIds : Visible(s) /\ rows[s].owner = u}]}
    /\ UNCHANGED <<vars, catalog, overtaken, dropped, stale, misjudged>>

\* The answer arrives and is cached.  Equal answers are one element of `fills',
\* so that another one may still be on its way.
CatalogFill(f) ==
    /\ f \in fills
    /\ fills' \in {fills, fills \ {f}}
    /\ Caches(f.owner, f.stories, f.late)
    /\ UNCHANGED vars

\* The event is answered 2xx: Catalog has dropped what it had of u.
EventDelivered(u) ==
    /\ EventSettles(u)
    /\ Caches(u, {}, FALSE)
    /\ Outrun({u})

\* Handlers between the read they decide by and the write.
Deciding ==
    {r \in Requests : reqs[r].pc = "write"}
    \cup {s \in StoryIds : mods[s].pc \in {"analyze", "write"}}
RowOf(a) == IF a \in Requests THEN reqs[a].id ELSE a

RulesAnew(s) == rows'[s].status # rows[s].status
GoesStale ==
    stale' = {a \in Deciding \cap Deciding' : a \in stale \/ RulesAnew(RowOf(a))}

\* Owners of the rows that stale handlers have just ruled on, and those of them
\* that nobody is told of.
JudgedStale == {rows[RowOf(a)].owner : a \in {b \in stale \ Deciding' : RulesAnew(RowOf(b))}}
Misjudged == JudgedStale \ events'

\* Deletions that are committed and have not published their event yet.
Cleaning == {r \in Requests : reqs[r].pc = "cleanup"}

\* Owners a fault leaves without the event they were owed: it was in flight, or
\* the handler ended between its write and its publish.
Unannounced ==
    (events \ events')
    \cup {rows[reqs[r].id].owner : r \in Cleaning \ Cleaning'}
    \cup {rows'[s].owner : s \in {t \in StoryIds : RulesAnew(t)}}
Lost == Unannounced \ events'

\* Owners of whom Catalog has a copy.
Copied == {u \in Users : catalog[u] # {}}

ServiceWorks ==
    /\ Work
    /\ GoesStale
    /\ misjudged' = misjudged \cup (Misjudged \cap Copied)
    /\ Outrun(Misjudged)
    /\ UNCHANGED <<catalog, overtaken, dropped>>

ServiceFails ==
    /\ Fault
    /\ GoesStale
    /\ misjudged' = misjudged \cup (Misjudged \cap Copied)
    /\ dropped' = dropped \cup (Lost \cap Copied)
    /\ Outrun(Misjudged \cup Lost)
    /\ UNCHANGED <<catalog, overtaken>>

SyncNext ==
    \/ ServiceWorks \/ ServiceFails
    \/ \E u \in Users : CatalogRead(u) \/ EventDelivered(u)
    \/ \E f \in fills : CatalogFill(f)

SyncSpec == SyncInit /\ [][SyncNext]_syncVars

(***************************************************************************)
(* Fairness: that of the sweep and of time; the timer of publishAsync ends *)
(* every call of Catalog; S3 answers deleteObject, or the connection       *)
(* fails.                                                                  *)
(***************************************************************************)
EventEnds(u) == EventDelivered(u) \/ (EventSettles(u) /\ ServiceFails)
CleanupEnds(r) ==
    (DeletionCleanup(r) /\ ServiceWorks) \/ (reqs[r].pc = "cleanup" /\ Abandon(r) /\ ServiceFails)

SyncFairSpec ==
    /\ SyncSpec
    /\ Fairness
    /\ \A u \in Users : WF_syncVars(EventEnds(u))
    /\ \A r \in Requests : WF_syncVars(CleanupEnds(r))

-----------------------------------------------------------------------------

\* An event for u is in flight, or a deletion of a story of u is about to publish it.
Announcing(u) == u \in events \/ \E r \in Cleaning : rows[reqs[r].id].owner = u

\* ... or it was, and was lost.
Pending(u) == u \in dropped \/ Announcing(u)

\* Catalog lists a removed story only while its removal is being announced, after
\* an event for its owner was lost, or because the list it cached had been queried
\* before such an event, which was there, or lost, before the answer: removeStory
\* and adminDeleteStory publish after the write, so that no answer to a later
\* query, and none that is there before the event, is the last word.
RemovalReachesCatalog ==
    \A u \in Users : \A s \in catalog[u] :
        rows[s].deleted => Pending(u) \/ u \in overtaken

\* So a removed story leaves Catalog in the end, unless an event for its owner
\* is lost, or is there before an answer that had been queried earlier.
RemovalTakesEffect ==
    \A u \in Users, s \in StoryIds :
        s \in catalog[u] /\ rows[s].deleted ~> s \notin catalog[u] \/ u \in dropped \cup overtaken

\* The same holds for a story that is hidden, by moderation, an admin or the
\* sweep, whose update is not atomic with the query that chose whom to announce
\* it for; the one other way to a stale copy is a handler that compares the
\* status it stores with one the row no longer had (updateAdminStoryStatus, and
\* the verdict of moderateStoryAfterPublish).
StaleCopyExplained ==
    \A u \in Users : \A s \in catalog[u] :
        rows[s].status # "ACTIVE" \/ rows[s].deleted
        => Pending(u) \/ u \in misjudged \cup overtaken
=============================================================================
