---------------------------- MODULE OwnerNotices ----------------------------
(***************************************************************************)
(* What an owner sees of a story: the lists of OwnerLists, and the notice  *)
(* ("Bajamos tu historia") that moderateStoryAfterPublish sends of a story *)
(* it has rejected (publishStoryModerationNotification): one POST to the   *)
(* notifications API once the verdict is stored, under the condition of    *)
(* the cache event.  Its failure and its timeout are logged, and nothing   *)
(* sends it again.  Writers, lists and notices run side by side.           *)
(***************************************************************************)
EXTENDS OwnerLists

VARIABLES
    outbox,    \* stories whose notice is on its way
    told,      \* how many notices about a story its owner has received
    rejected,  \* history: stories their moderation has stored a rejection of
    untold     \* history: stories whose notice a fault has lost, or that were
               \* BLOCKED already when their moderation read them

noticeVars == <<listVars, outbox, told, rejected, untold>>

NoticesTypeOK ==
    /\ ListsTypeOK
    /\ outbox \subseteq StoryIds
    /\ rejected \subseteq StoryIds /\ untold \subseteq StoryIds
    /\ told \in [StoryIds -> Nat]

NoticesInit ==
    /\ ListsInit
    /\ outbox = {} /\ rejected = {} /\ untold = {}
    /\ told = [s \in StoryIds |-> 0]

-----------------------------------------------------------------------------

\* The verdict a step of the service stores, and one that is to be told.
VerdictStored == {s \in StoryIds : mods[s].pc = "write" /\ mods'[s].pc = "done"}

\* Mutant: storyId in the body of the notice is the id of the user.
NoticesOfUser == {rows[s].owner : s \in {t \in VerdictStored : mods[t].announce}}

Notices == {s \in VerdictStored : mods[s].announce}

\* Moderations whose verdict is SEND_TO_REVIEW, or REMOVE_PRODUCT.
Rejections == {s \in StoryIds : mods[s].moderation \in {"NEEDS_REVIEW", "BLOCKED"}}

\* The moderation reads a story that is BLOCKED already, and will not tell.
FoundBlocked ==
    {s \in StoryIds : rows[s].status = "BLOCKED" /\ mods[s].pc = "find" /\ mods'[s].pc = "analyze"}

\* The answer to the verdict's update is lost, and the catch does not tell.
VerdictUnanswered == {s \in StoryIds : mods[s].pc = "write" /\ mods'[s].pc = "fail"}

WritersWork ==
    /\ Work /\ ListsWait
    /\ outbox' = outbox \cup Notices
    /\ rejected' = rejected \cup (VerdictStored \cap Rejections)
    /\ untold' = untold \cup FoundBlocked
    /\ UNCHANGED told

\* When the process dies, a notice that is on its way may have left already.
WritersFail ==
    /\ Fault /\ ListsWait
    /\ outbox' \in IF Crash THEN SUBSET outbox ELSE {outbox}
    /\ rejected' = rejected \cup (VerdictUnanswered \cap Rejections)
    /\ untold' = untold \cup (outbox \ outbox') \cup VerdictUnanswered
    /\ UNCHANGED told

\* The notice arrives; whether its answer does, or the timeout comes first, is
\* all the same.
NoticeArrives(s) ==
    /\ s \in outbox
    /\ outbox' = outbox \ {s}
    /\ told' = [told EXCEPT ![s] = @ + 1]
    /\ UNCHANGED <<listVars, rejected, untold>>

\* The notifications API is not configured, refuses, fails or is timed out.
NoticeFails(s) ==
    /\ s \in outbox
    /\ outbox' = outbox \ {s}
    /\ untold' = untold \cup {s}
    /\ UNCHANGED <<listVars, told, rejected>>

ServiceLists == ListsStep /\ UNCHANGED <<outbox, told, rejected, untold>>

NoticesNext ==
    \/ WritersWork \/ WritersFail \/ ServiceLists
    \/ \E s \in StoryIds : NoticeArrives(s) \/ NoticeFails(s)

NoticesSpec == NoticesInit /\ [][NoticesNext]_noticeVars

-----------------------------------------------------------------------------

\* However often an upload is confirmed, and whatever admins make of the story
\* in between, its owner is told of its rejection at most once: a story is
\* moderated once, by the request that created it.
AtMostOneNotice ==
    \A s \in StoryIds : told[s] + (IF s \in outbox THEN 1 ELSE 0) <= 1

\* An owner learns of every rejection: a story that the moderation has found in
\* need of review, or has removed, has had its notice, or will have it, or a fault
\* lost it, or the story had been BLOCKED before the moderation looked at it.
\* NEEDS_REVIEW in a row is always such a verdict; a BLOCKED may be an admin's.
RejectionTold ==
    \A s \in StoryIds : rows[s].moderation = "NEEDS_REVIEW" \/ s \in rejected =>
        told[s] = 1 \/ s \in outbox \/ s \in untold

\* The title of the notice: "Bajamos tu historia".  The verdict that it tells of
\* took down a story that was visible until then.
NoticeTellsTakedown ==
    [][\A s \in outbox' \ outbox : Visible(s)]_noticeVars
=============================================================================
