----------------------------- MODULE FeedAssembly -----------------------------
(***************************************************************************)
(* How listFeed of StoriesService turns the stories it has read into a     *)
(* feed: one group per visible owner, the groups sorted and cut at `take'. *)
(*                                                                         *)
(* The query returns the stories newest first.  publishedAt is the clock   *)
(* of the process, createdAt that of the insert a little later, so that    *)
(* two stories of an owner may be in one order by the first and in another *)
(* by the second.  sort() is stable and works in place.                    *)
(***************************************************************************)
EXTENDS Integers, SequencesExt

CONSTANTS
    Shown,    \* the stories that the query finds
    Owners,
    OwnerOf,  \* the owner of each
    Latest,   \* bound: instants are 0..Latest
    MaxTake,  \* bound: `take' is at most this
    None

ASSUME FeedAssumption ==
    /\ OwnerOf \in [Shown -> Owners] /\ IsFiniteSet(Shown)
    /\ Latest \in Nat /\ MaxTake \in Nat \ {0}

VARIABLES
    published, created,  \* publishedAt and createdAt of each story
    viewed,              \* the stories this viewer has a view of
    visible,             \* resolveVisibleStoryOwnerIds
    take,
    feed                 \* the answer, a sequence of groups, or None before

feedVars == <<published, created, viewed, visible, take, feed>>

Group == [owner : Owners, preview : Shown, latestPublishedAt : 0..Latest,
          hasUnviewed : BOOLEAN, stories : Seq(Shown)]

StoriesBy(u) == {s \in Shown : OwnerOf[s] = u}
ActiveOwners == {OwnerOf[s] : s \in Shown} \cap visible

FeedTypeOK ==
    /\ published \in [Shown -> 0..Latest] /\ created \in [Shown -> Nat]
    /\ viewed \subseteq Shown /\ visible \subseteq Owners /\ take \in 1..MaxTake
    /\ feed = None \/ feed \in Seq(Group)

-----------------------------------------------------------------------------

\* Pairs of a key and a place in a sequence, sorted as sort() does it: by the key,
\* and what has the same key stays in order.  The i-th has i - 1 pairs before it.
InOrder(pairs) ==
    LET Before(p) == {q \in pairs : q[1] < p[1] \/ (q[1] = p[1] /\ q[2] < p[2])}
    IN  [i \in 1..Cardinality(pairs) |-> CHOOSE p \in pairs : Cardinality(Before(p)) = i - 1]

\* The orders in which the query may return the stories.
ReadOrders ==
    {read \in SetToSeqs(Shown) : \A i, j \in DOMAIN read : i < j =>
        \/ published[read[i]] > published[read[j]]
        \/ published[read[i]] = published[read[j]] /\ created[read[i]] >= created[read[j]]}

\* Where in read the Map gets its keys: the first story of each visible owner.
FirstPlaces(read) ==
    {i \in DOMAIN read : /\ OwnerOf[read[i]] \in visible
                         /\ \A j \in DOMAIN read : OwnerOf[read[j]] = OwnerOf[read[i]] => i <= j}

\* orderedStories: the bucket of u, which has its stories as they were read, sorted
\* by createdAt.
StoriesOf(read, u) ==
    LET bucket == {i \in DOMAIN read : OwnerOf[read[i]] = u}
        order == InOrder({<<created[read[i]], i>> : i \in bucket})
    IN  [k \in DOMAIN order |-> read[order[k][2]]]

\* Mutant: the group is unviewed if its preview is.
GroupOfPreview(read, u) ==
    LET stories == StoriesOf(read, u) IN
    [owner |-> u, preview |-> stories[1], latestPublishedAt |-> published[stories[1]],
     hasUnviewed |-> stories[1] \notin viewed, stories |-> stories]

\* Mutant: latestPublishedAt is read from createdAt.
GroupByCreation(read, u) ==
    LET stories == StoriesOf(read, u) IN
    [owner |-> u, preview |-> stories[1], latestPublishedAt |-> created[stories[1]],
     hasUnviewed |-> \E i \in DOMAIN stories : stories[i] \notin viewed,
     stories |-> stories]

\* ownerStories and orderedStories are one array: the preview is the first of
\* the sorted stories.
GroupOf(read, u) ==
    LET stories == StoriesOf(read, u) IN
    [owner |-> u, preview |-> stories[1], latestPublishedAt |-> published[stories[1]],
     hasUnviewed |-> \E i \in DOMAIN stories : stories[i] \notin viewed,
     stories |-> stories]

\* The groups whose keys the Map got at these places, latest first.
GroupsAt(read, places) ==
    LET GroupFrom(i) == GroupOf(read, OwnerOf[read[i]])
        order == InOrder({<<-GroupFrom(i).latestPublishedAt, i>> : i \in places})
    IN  [k \in DOMAIN order |-> GroupFrom(order[k][2])]

Cut(seq) == SubSeq(seq, 1, IF take < Len(seq) THEN take ELSE Len(seq))

\* Mutant: the groups are cut in the order the Map has them, and then sorted.
FeedCutFirst(read) ==
    LET places == FirstPlaces(read)
        kept == {i \in places : Cardinality({j \in places : j < i}) < take}
    IN  GroupsAt(read, kept)

Feed(read) == Cut(GroupsAt(read, FirstPlaces(read)))

-----------------------------------------------------------------------------

FeedInit ==
    /\ published \in [Shown -> 0..Latest]
    /\ \E late \in SUBSET Shown :
           created = [s \in Shown |-> published[s] + (IF s \in late THEN 1 ELSE 0)]
    /\ viewed \in SUBSET Shown
    /\ visible \in SUBSET Owners
    /\ take \in 1..MaxTake
    /\ feed = None

ListFeed ==
    /\ feed = None
    /\ \E read \in ReadOrders : feed' = Feed(read)
    /\ UNCHANGED <<published, created, viewed, visible, take>>

FeedSpec == FeedInit /\ [][ListFeed]_feedVars

-----------------------------------------------------------------------------

\* The stories of its owner, all and once, oldest first, and what they say of it.
Whole(g) ==
    /\ ToSet(g.stories) = StoriesBy(g.owner)
    /\ Len(g.stories) = Cardinality(ToSet(g.stories))
    /\ \A m, n \in DOMAIN g.stories : m < n => created[g.stories[m]] <= created[g.stories[n]]
    /\ g.hasUnviewed <=> ~(ToSet(g.stories) \subseteq viewed)

\* What a feed is, however it is computed: each visible owner with stories at
\* most once, `take' of them if there are so many; with an owner all their
\* stories, oldest first; marked as unviewed exactly if one of them is.
FeedIsWhole ==
    feed # None =>
        /\ \A i \in DOMAIN feed : feed[i].owner \in ActiveOwners
        /\ \A i, j \in DOMAIN feed : feed[i].owner = feed[j].owner => i = j
        /\ \/ Len(feed) = take /\ take <= Cardinality(ActiveOwners)
           \/ Len(feed) = Cardinality(ActiveOwners) /\ Cardinality(ActiveOwners) <= take
        /\ \A i \in DOMAIN feed : Whole(feed[i])

\* The earliest publication of u's.
Oldest(u) == LET times == {published[s] : s \in StoriesBy(u)}
             IN  CHOOSE t \in times : \A w \in times : t <= w

\* An owner is left out of the feed only for owners whose oldest story is as
\* recent, give or take the distance between publishedAt and createdAt: the field
\* latestPublishedAt, by which the groups are sorted, is that of the oldest.
CutIsFair ==
    feed # None =>
        \A u \in ActiveOwners :
            \/ \E i \in DOMAIN feed : feed[i].owner = u
            \/ \A i \in DOMAIN feed : Oldest(u) <= Oldest(feed[i].owner) + 1
=============================================================================
