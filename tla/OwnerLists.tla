----------------------------- MODULE OwnerLists -----------------------------
(***************************************************************************)
(* listMine and listAdminStories beside the writers.  Unlike the lists of  *)
(* the audience, they filter by status alone and not by expiresAt: that no *)
(* story past its time is listed as if it were current rests on the sweep  *)
(* that each of them runs, and awaits, before it reads.  OwnerNotices has  *)
(* the specification in which lists and writers run together.              *)
(***************************************************************************)
EXTENDS Stories

CONSTANTS
    Lists,        \* calls of listMine, and of listAdminStories, at once
    AdminFilters  \* the statuses admins ask for; none is AnyStatus

ASSUME ListsAssumption == AdminFilters \subseteq SUBSET StoryStatus

AnyStatus == StoryStatus
Current == {"ACTIVE", "UNDER_REVIEW", "BLOCKED"}

VARIABLES
    lists,   \* progress of each list
    revived  \* history: stories that have left EXPIRED since the list's sweep

listVars == <<vars, lists, revived>>

\* `wanted' are the statuses in the where clause, `owner' is None for an admin.
List == [pc : {"idle", "expire", "find", "sign"}, owner : Users \cup {None},
         wanted : SUBSET StoryStatus, due : SUBSET StoryIds,
         found : SUBSET (StoryIds \X StoryStatus)]

NoList == [pc |-> "idle", owner |-> None, wanted |-> {}, due |-> {}, found |-> {}]

ListsTypeOK ==
    /\ TypeOK
    /\ lists \in [Lists -> List]
    /\ revived \in [Lists -> SUBSET StoryIds]

ListsInit ==
    /\ Init
    /\ lists = [c \in Lists |-> NoList]
    /\ revived = [c \in Lists |-> {}]

Listing(c, list) == lists' = [lists EXCEPT ![c] = list]

\* The query of the list's sweep; with nothing due there is nothing to update.
ListSweep(c, owner, wanted) ==
    /\ lists[c].pc = "idle"
    /\ LET due == {s \in StoryIds : Due(rows[s])} IN
       Listing(c, [NoList EXCEPT !.pc = IF due = {} THEN "find" ELSE "expire",
                                 !.owner = owner, !.wanted = wanted, !.due = due])
    /\ revived' = [revived EXCEPT ![c] = {}]
    /\ UNCHANGED vars

ListMine(c, u) == ListSweep(c, u, Current)

ListAdminStories(c) == \E wanted \in AdminFilters : ListSweep(c, None, wanted)

\* Mutant: the list goes on before the update has been made.
ListExpireLate(c) ==
    /\ lists[c].pc = "expire"
    /\ Listing(c, [lists[c] EXCEPT !.pc = "find"])
    /\ revived' = [revived EXCEPT ![c] = {}]
    /\ UNCHANGED vars

\* The update of the list's sweep, and its events.
ListExpire(c) ==
    /\ lists[c].pc = "expire"
    /\ rows' = Swept(lists[c].due)
    /\ events' = events \cup {rows[s].owner : s \in lists[c].due}
    /\ Listing(c, [lists[c] EXCEPT !.pc = "find"])
    /\ revived' = [revived EXCEPT ![c] = {}]
    /\ UNCHANGED <<objects, reqs, mods>>

ListFind(c) ==
    /\ lists[c].pc = "find"
    /\ LET found == {s \in StoryIds :
               /\ rows[s].status \in lists[c].wanted /\ ~rows[s].deleted
               /\ lists[c].owner \in {None, rows[s].owner}}
       IN  Listing(c, [lists[c] EXCEPT !.pc = "sign", !.found = {<<s, rows[s].status>> : s \in found}])
    /\ UNCHANGED <<vars, revived>>

\* The URLs are signed and the list is answered; or an awaited call has failed.
ListEnds(c) ==
    /\ lists[c].pc # "idle"
    /\ Listing(c, NoList)
    /\ revived' = [revived EXCEPT ![c] = {}]
    /\ UNCHANGED vars

\* Beside a step of the writers the lists stay where they are, also when a
\* process crashes, which need not be the one that lists.
ListsWait ==
    /\ revived' = [c \in Lists |->
           IF lists[c].pc = "idle" THEN {}
           ELSE revived[c] \cup {s \in StoryIds :
                    rows[s].status = "EXPIRED" /\ rows'[s].status # "EXPIRED"}]
    /\ UNCHANGED lists

ListsStep ==
    \E c \in Lists :
        \/ \E u \in Users : ListMine(c, u)
        \/ ListAdminStories(c)
        \/ ListExpire(c) \/ ListFind(c) \/ ListEnds(c)

-----------------------------------------------------------------------------

\* What a list shows as current was not due for expiry when the call began,
\* whatever moderation, admins and other sweeps did to it on the way; unless
\* somebody has put it back since the call's own sweep.
ListsNothingDue ==
    \A c \in Lists : \A e \in lists[c].found :
        e[2] # "EXPIRED" /\ e[1] \in lists[c].due => e[1] \in revived[c]
=============================================================================
