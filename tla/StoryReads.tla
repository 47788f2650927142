----------------------------- MODULE StoryReads -----------------------------
(***************************************************************************)
(* The read side of StoriesService: listFeed, listUserStories and          *)
(* markViewed.  The writers are StoryLifecycle, which Stories implements:  *)
(* "shown" is exactly the where clause of these queries (status ACTIVE,    *)
(* expiresAt ahead, deletedAt null), and every change of it, the sweep     *)
(* these calls begin with included, is a step of StoryLifecycle.           *)
(*                                                                         *)
(* Whom a viewer may see is Identity's to say (external), asked once per   *)
(* call with a timeout of 1500 ms.  A call awaits Identity, the database   *)
(* and the URL signer in turn, and stories and follows change in between.  *)
(***************************************************************************)
EXTENDS StoryLifecycle

CONSTANTS
    Users,
    Owner,  \* the owner of each story
    Calls,  \* HTTP requests that may be in progress at once
    None

ASSUME ReadsAssumption == Owner \in [StoryIds -> Users] /\ None \notin Users \cup StoryIds

VARIABLES
    audience,  \* <<v, u>>: Identity has u premium or followed by v
    views,     \* the StoryView rows, <<story, viewer>>
    calls,     \* progress of each call
    during     \* history: what was shown, and open to the viewer, since a call began

readVars == <<phase, verdict, audience, views, calls, during>>

Call == [op : {"none", "feed", "user", "view"},
         pc : {"idle", "find", "audience", "sign", "upsert", "answered"},
         viewer : Users \cup {None}, target : Users \cup StoryIds \cup {None},
         found : SUBSET StoryIds]

NoCall == [op |-> "none", pc |-> "idle", viewer |-> None, target |-> None, found |-> {}]

ReadsTypeOK ==
    /\ phase \in [StoryIds -> Phases] /\ verdict \in [StoryIds -> Verdicts]
    /\ audience \subseteq Users \X Users
    /\ views \subseteq StoryIds \X Users
    /\ calls \in [Calls -> Call]
    /\ during \in [Calls -> [shown : SUBSET StoryIds, open : SUBSET Users]]

Shown == {s \in StoryIds : phase[s] = "shown"}

\* isStoryOwnerVisibleToViewer, on Identity's answer `vouched' (the owners that
\* are premium or followed).
IsStoryOwnerVisibleToViewer(u, v, vouched) == u = v \/ u \in vouched

\* The owners that `vouching' lets v see.
Open(v, vouching) == {u \in Users : <<v, u>> \in vouching}

\* Mutant: without Identity's answer every owner is vouched for.
AudienceAnswersOpen(v, owners) == {owners \cap Open(v, audience), owners}

\* fetchStoryOwnerAudienceSummaries: Identity's answer for the owners asked for,
\* or an empty one when it is not configured, late, or answers with an error.
AudienceAnswers(v, owners) == {owners \cap Open(v, audience), {}}

ReadsInit ==
    /\ Init
    /\ audience = {}
    /\ views = {}
    /\ calls = [c \in Calls |-> NoCall]
    /\ during = [c \in Calls |-> [shown |-> {}, open |-> {}]]

\* The history takes in the state each step leads to.
Observe ==
    during' = [c \in Calls |->
        IF calls'[c].pc = "idle" THEN [shown |-> {}, open |-> {}]
        ELSE [shown |-> during[c].shown \cup Shown',
              open |-> during[c].open \cup Open(calls'[c].viewer, audience')]]

Become(c, call) == calls' = [calls EXCEPT ![c] = call]
Goto(c, where, found) == Become(c, [calls[c] EXCEPT !.pc = where, !.found = found])
Answer(c, found) == Goto(c, "answered", found)

-----------------------------------------------------------------------------

StartFeed(c, v) ==
    /\ calls[c].pc = "idle"
    /\ Become(c, [NoCall EXCEPT !.op = "feed", !.pc = "find", !.viewer = v])
    /\ UNCHANGED <<phase, verdict, audience, views>>

\* canViewerAccessStoryOwner does not ask Identity about the viewer's own stories.
StartUser(c, v, u) ==
    /\ calls[c].pc = "idle"
    /\ Become(c, [NoCall EXCEPT !.op = "user", !.viewer = v, !.target = u,
                                !.pc = IF u = v THEN "find" ELSE "audience"])
    /\ UNCHANGED <<phase, verdict, audience, views>>

StartView(c, v, s) ==
    /\ calls[c].pc = "idle"
    /\ Become(c, [NoCall EXCEPT !.op = "view", !.pc = "find", !.viewer = v, !.target = s])
    /\ UNCHANGED <<phase, verdict, audience, views>>

\* listFeed: the shown stories of others; with none, Identity is not asked.
FeedFind(c) ==
    /\ calls[c].pc = "find" /\ calls[c].op = "feed"
    /\ LET found == {s \in Shown : Owner[s] # calls[c].viewer}
       IN  IF found = {} THEN Answer(c, {}) ELSE Goto(c, "audience", found)
    /\ UNCHANGED <<phase, verdict, audience, views>>

\* The feed keeps the owners that Identity has vouched for.
FeedFilter(c) ==
    /\ calls[c].pc = "audience" /\ calls[c].op = "feed"
    /\ \E vouched \in AudienceAnswers(calls[c].viewer, {Owner[s] : s \in calls[c].found}) :
           Goto(c, "sign", {s \in calls[c].found :
               IsStoryOwnerVisibleToViewer(Owner[s], calls[c].viewer, vouched)})
    /\ UNCHANGED <<phase, verdict, audience, views>>

\* listUserStories asks first: no access, an empty list.
UserAccess(c) ==
    /\ calls[c].pc = "audience" /\ calls[c].op = "user"
    /\ \E vouched \in AudienceAnswers(calls[c].viewer, {calls[c].target}) :
           IF IsStoryOwnerVisibleToViewer(calls[c].target, calls[c].viewer, vouched)
           THEN Goto(c, "find", {}) ELSE Answer(c, {})
    /\ UNCHANGED <<phase, verdict, audience, views>>

UserFind(c) ==
    /\ calls[c].pc = "find" /\ calls[c].op = "user"
    /\ Goto(c, "sign", {s \in Shown : Owner[s] = calls[c].target})
    /\ UNCHANGED <<phase, verdict, audience, views>>

\* createStoryReadUrl has answered for every story of the list.
SignAll(c) ==
    /\ calls[c].pc = "sign"
    /\ Answer(c, calls[c].found)
    /\ UNCHANGED <<phase, verdict, audience, views>>

\* Mutant: the story is looked up by its id alone.
ViewFindHidden(c) ==
    /\ calls[c].pc = "find" /\ calls[c].op = "view"
    /\ IF Owner[calls[c].target] # calls[c].viewer
       THEN Goto(c, "audience", {}) ELSE Answer(c, {})
    /\ UNCHANGED <<phase, verdict, audience, views>>

\* markViewed: 404 for a story that is not shown; an owner's view does not count.
ViewFind(c) ==
    /\ calls[c].pc = "find" /\ calls[c].op = "view"
    /\ IF calls[c].target \in Shown /\ Owner[calls[c].target] # calls[c].viewer
       THEN Goto(c, "audience", {}) ELSE Answer(c, {})
    /\ UNCHANGED <<phase, verdict, audience, views>>

ViewAccess(c) ==
    /\ calls[c].pc = "audience" /\ calls[c].op = "view"
    /\ LET owner == Owner[calls[c].target] IN
       \E vouched \in AudienceAnswers(calls[c].viewer, {owner}) :
           IF IsStoryOwnerVisibleToViewer(owner, calls[c].viewer, vouched)
           THEN Goto(c, "upsert", {}) ELSE Answer(c, {})
    /\ UNCHANGED <<phase, verdict, audience, views>>

\* Mutant: the ids of the story and of the viewer are swapped.
ViewUpsertSwapped(c) ==
    /\ calls[c].pc = "upsert"
    /\ views' = views \cup {<<calls[c].viewer, calls[c].target>>}
    /\ Answer(c, {})
    /\ UNCHANGED <<phase, verdict, audience>>

ViewUpsert(c) ==
    /\ calls[c].pc = "upsert"
    /\ views' = views \cup {<<calls[c].target, calls[c].viewer>>}
    /\ Answer(c, {})
    /\ UNCHANGED <<phase, verdict, audience>>

\* The client has its answer, or an awaited call has failed the request.
Finish(c) ==
    /\ calls[c].pc # "idle"
    /\ Become(c, NoCall)
    /\ UNCHANGED <<phase, verdict, audience, views>>

\* Identity: somebody follows or unfollows, becomes premium or stops being so.
AudienceChanges(v, u) ==
    /\ v # u
    /\ audience' = IF <<v, u>> \in audience THEN audience \ {<<v, u>>} ELSE audience \cup {<<v, u>>}
    /\ UNCHANGED <<phase, verdict, views, calls>>

StoriesChange == Next /\ UNCHANGED <<audience, views, calls>>

CallStep(c) ==
    \/ \E v \in Users : StartFeed(c, v)
    \/ \E v, u \in Users : StartUser(c, v, u)
    \/ \E v \in Users, s \in StoryIds : StartView(c, v, s)
    \/ FeedFind(c) \/ FeedFilter(c)
    \/ UserAccess(c) \/ UserFind(c)
    \/ SignAll(c)
    \/ ViewFind(c) \/ ViewAccess(c) \/ ViewUpsert(c)
    \/ Finish(c)

ReadsNext ==
    /\ \/ \E c \in Calls : CallStep(c)
       \/ \E v, u \in Users : AudienceChanges(v, u)
       \/ StoriesChange
    /\ Observe

ReadsSpec == ReadsInit /\ [][ReadsNext]_readVars

-----------------------------------------------------------------------------

\* A list never serves a story that was not shown at some moment of the call, nor
\* one of an owner who was not open to the viewer at some moment of the call,
\* although the query and Identity's answer belong to different moments, in
\* either order, and Identity may fail.
ServedWithinCall ==
    \A c \in Calls : calls[c].pc = "answered" =>
        \A s \in calls[c].found :
            /\ s \in during[c].shown
            /\ Owner[s] \in during[c].open \cup {calls[c].viewer}

\* A view is only ever recorded for somebody else's story, which was shown, and
\* open to the viewer, while the call that records it was in progress.
ViewsFromAudience ==
    [][\A w \in views' \ views :
           /\ Owner[w[1]] # w[2]
           /\ \E c \in Calls : /\ calls[c].viewer = w[2]
                               /\ w[1] \in during[c].shown
                               /\ Owner[w[1]] \in during[c].open]_readVars
=============================================================================
