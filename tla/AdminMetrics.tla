---------------------------- MODULE AdminMetrics ----------------------------
(***************************************************************************)
(* getAdminMetrics beside the writers: one call makes eight counts, which  *)
(* the database answers one by one and in any order, each from what is     *)
(* committed by then.  A write carries the time at which its handler or    *)
(* Prisma asked the clock, and is committed later.                         *)
(*                                                                         *)
(* The writers are those of Stories and markViewed, reduced to what they   *)
(* may do to the columns that are counted.                                 *)
(***************************************************************************)
EXTENDS Naturals, FiniteSets

CONSTANTS
    StoryIds,  \* ids of Story rows, and of the view that somebody may have of each
    Writers,   \* writes that may be on their way at once
    WriteOps,  \* what is written in this instance
    Periods,   \* the periods <<from, to>> that admins name; they may name none
    Counts,    \* the counts looked at in this instance
    Span,      \* what the period is by default, 29 days
    MaxTime,   \* bound of the clock
    None       \* null

Totals == {"activeStories", "underReviewStories", "blockedStories"}
Period == {"storiesCreated", "storiesPublished", "storiesBlocked", "storiesExpired", "storyViews"}

ASSUME MetricsAssumption ==
    /\ WriteOps \subseteq {"publish", "rewrite", "view"}
    /\ Counts \subseteq Totals \cup Period
    /\ Periods \subseteq (0..MaxTime) \X (0..MaxTime)
    /\ Span \in Nat /\ MaxTime \in Nat \ {0}
    /\ IsFiniteSet(StoryIds)

VARIABLES
    now,      \* the clock
    rows,     \* the Story table
    viewed,   \* viewedAt of each story's view, 0 if there is none
    writes,   \* progress of each write
    call,     \* progress of the call, and its answers so far
    changed,  \* history: stories written since the call began
    first     \* history: what the first settled call about its period answered

metricsVars == <<now, rows, viewed, writes, call, changed, first>>

StoryStatus == {"UNDER_REVIEW", "ACTIVE", "BLOCKED", "EXPIRED"}
Time == 0..MaxTime

Row == [status : StoryStatus \cup {"ABSENT"}, deleted : BOOLEAN,
        publishedAt : Time, createdAt : Time, updatedAt : Time]
NoRow == [status |-> "ABSENT", deleted |-> FALSE, publishedAt |-> 0, createdAt |-> 0, updatedAt |-> 0]

Pending == [pc : {"idle", "clock", "stamped"}, op : {"publish", "rewrite", "view"}, id : StoryIds \cup {None}, row : Row]
Nothing == [pc |-> "idle", op |-> "view", id |-> None, row |-> NoRow]

\* A call is about the period from..to; `settled' says that no write from within
\* the period was still on its way when it began.
Call == [period : (Time \X Time), left : SUBSET Counts, settled : BOOLEAN,
         counts : [Counts -> 0..Cardinality(StoryIds)]]
NoCall == [period |-> <<0, 0>>, left |-> {}, settled |-> FALSE, counts |-> [n \in Counts |-> 0]]

MetricsTypeOK ==
    /\ now \in 1..MaxTime
    /\ rows \in [StoryIds -> Row] /\ viewed \in [StoryIds -> Time]
    /\ writes \in [Writers -> Pending]
    /\ call \in Call /\ first \in Call /\ changed \subseteq StoryIds

MetricsInit ==
    /\ now = 1
    /\ rows = [s \in StoryIds |-> NoRow] /\ viewed = [s \in StoryIds |-> 0]
    /\ writes = [w \in Writers |-> Nothing]
    /\ call = NoCall /\ first = NoCall /\ changed = {}

Exists(s) == rows[s].status # "ABSENT"

-----------------------------------------------------------------------------
(* The writers. *)

Writing(w, pending) ==
    /\ writes' = [writes EXCEPT ![w] = pending]
    /\ UNCHANGED <<now, call, first>>

Begin(w, pc, op, s, row) ==
    /\ op \in WriteOps /\ writes[w].pc = "idle"
    /\ Writing(w, [pc |-> pc, op |-> op, id |-> s, row |-> row])
    /\ UNCHANGED <<rows, viewed, changed>>

\* Mutant: publishedAt and expiresAt are swapped.
BeginPublishSwapped(w, s) ==
    /\ ~Exists(s) /\ \A v \in Writers : writes[v].pc = "idle" \/ writes[v].id # s
    /\ Begin(w, "clock", "publish", s, [NoRow EXCEPT !.status = "ACTIVE", !.publishedAt = now + Span])

\* confirmUpload has set publishedAt, and is about to insert the row.
BeginPublish(w, s) ==
    /\ ~Exists(s) /\ \A v \in Writers : writes[v].pc = "idle" \/ writes[v].id # s
    /\ Begin(w, "clock", "publish", s, [NoRow EXCEPT !.status = "ACTIVE", !.publishedAt = now])

\* createdAt and updatedAt are set when the insert is sent.
Stamp(w) ==
    /\ writes[w].pc = "clock"
    /\ Writing(w, [writes[w] EXCEPT !.pc = "stamped", !.row.createdAt = now, !.row.updatedAt = now])
    /\ UNCHANGED <<rows, viewed, changed>>

\* An admin, a verdict or the sweep stores a status; a deletion stores EXPIRED.
BeginRewrite(w, s, status, deleted) ==
    /\ Exists(s) /\ (deleted => status = "EXPIRED")
    /\ Begin(w, "stamped", "rewrite", s,
             [NoRow EXCEPT !.status = status, !.deleted = deleted, !.updatedAt = now])

\* markViewed records a view, or renews the time of the one there is.
BeginView(w, s) ==
    Exists(s) /\ Begin(w, "stamped", "view", s, [NoRow EXCEPT !.updatedAt = now])

\* A rewrite leaves alone what it does not set.
Written(w) ==
    LET p == writes[w] IN
    CASE p.op = "view" -> UNCHANGED rows /\ viewed' = [viewed EXCEPT ![p.id] = p.row.updatedAt]
      [] p.op = "publish" -> rows' = [rows EXCEPT ![p.id] = p.row] /\ UNCHANGED viewed
      [] OTHER -> /\ rows' = [rows EXCEPT ![p.id].status = p.row.status,
                                          ![p.id].deleted = @ \/ p.row.deleted,
                                          ![p.id].updatedAt = p.row.updatedAt]
                  /\ UNCHANGED viewed

Commit(w) ==
    /\ writes[w].pc = "stamped"
    /\ Written(w)
    /\ changed' = changed \cup {writes[w].id}
    /\ Writing(w, Nothing)

Refused(w) ==
    /\ writes[w].pc # "idle"
    /\ Writing(w, Nothing)
    /\ UNCHANGED <<rows, viewed, changed>>

Tick ==
    /\ now < MaxTime
    /\ now' = now + 1
    /\ UNCHANGED <<rows, viewed, writes, call, changed, first>>

-----------------------------------------------------------------------------
(* The call. *)

Within(t) == t \in call.period[1]..call.period[2]

\* Mutant: stories that are deleted count too.
InStateOrDeleted(status) == {s \in StoryIds : rows[s].status = status}

InState(status) == {s \in StoryIds : rows[s].status = status /\ ~rows[s].deleted}

UpdatedAs(status) == {s \in StoryIds : rows[s].status = status /\ Within(rows[s].updatedAt)}

\* Mutant: a story counts as published when it was last ACTIVE.
CountedByUpdate(name) ==
    CASE name = "storiesCreated"     -> {s \in StoryIds : Exists(s) /\ Within(rows[s].createdAt)}
      [] name = "storiesPublished"   -> UpdatedAs("ACTIVE")
      [] name = "storiesBlocked"     -> UpdatedAs("BLOCKED")
      [] name = "storiesExpired"     -> UpdatedAs("EXPIRED")
      [] name = "storyViews"         -> {s \in StoryIds : viewed[s] # 0 /\ Within(viewed[s])}
      [] name = "activeStories"      -> InState("ACTIVE")
      [] name = "underReviewStories" -> InState("UNDER_REVIEW")
      [] name = "blockedStories"     -> InState("BLOCKED")

\* What the where clause of a count selects.
Counted(name) ==
    CASE name = "storiesCreated"     -> {s \in StoryIds : Exists(s) /\ Within(rows[s].createdAt)}
      [] name = "storiesPublished"   -> {s \in StoryIds : Exists(s) /\ Within(rows[s].publishedAt)}
      [] name = "storiesBlocked"     -> UpdatedAs("BLOCKED")
      [] name = "storiesExpired"     -> UpdatedAs("EXPIRED")
      [] name = "storyViews"         -> {s \in StoryIds : viewed[s] # 0 /\ Within(viewed[s])}
      [] name = "activeStories"      -> InState("ACTIVE")
      [] name = "underReviewStories" -> InState("UNDER_REVIEW")
      [] name = "blockedStories"     -> InState("BLOCKED")

\* resolveMetricsRange: up to now, and from the day Span before, if none is named.
Ranges == Periods \cup {<<IF now > Span THEN now - Span ELSE 0, now>>}

\* Nothing that the clock dates up to `to' is still to be committed.
SettledUpTo(to) ==
    /\ to < now
    /\ \A w \in Writers : LET row == writes[w].row IN
           /\ writes[w].pc = "stamped" => row.updatedAt > to
           /\ writes[w].op = "publish" /\ writes[w].pc # "idle" => row.publishedAt > to

GetAdminMetrics(period) ==
    /\ call.left = {}
    /\ call' = [NoCall EXCEPT !.period = period, !.left = Counts, !.settled = SettledUpTo(period[2])]
    /\ changed' = {}
    /\ UNCHANGED <<now, rows, viewed, writes, first>>

\* The call is answered with the last of its counts.
CountAnswered(name) ==
    /\ name \in call.left
    /\ call' = [call EXCEPT !.left = @ \ {name}, !.counts[name] = Cardinality(Counted(name))]
    /\ first' = IF call.settled /\ call'.left = {} /\ ~first.settled THEN call' ELSE first
    /\ UNCHANGED <<now, rows, viewed, writes, changed>>

MetricsNext ==
    \/ Tick
    \/ \E w \in Writers :
           \/ \E s \in StoryIds :
                  \/ BeginPublish(w, s) \/ BeginView(w, s)
                  \/ \E status \in StoryStatus, deleted \in BOOLEAN : BeginRewrite(w, s, status, deleted)
           \/ Stamp(w) \/ Commit(w) \/ Refused(w)
    \/ \E period \in Ranges : GetAdminMetrics(period)
    \/ \E name \in Counts : CountAnswered(name)

MetricsSpec == MetricsInit /\ [][MetricsNext]_metricsVars

-----------------------------------------------------------------------------

\* The state that a total counts.
StateOf(total) ==
    CASE total = "activeStories" -> "ACTIVE"
      [] total = "underReviewStories" -> "UNDER_REVIEW"
      [] total = "blockedStories" -> "BLOCKED"

\* However the counts of a call fall between the writes of others, a total is off
\* by no more than the stories written meanwhile.  (Two totals together may count
\* such a story twice, or not at all.)
TotalsRightButForWrites ==
    call.period # NoCall.period => \A total \in (Counts \cap Totals) \ call.left :
        LET sure == {s \in StoryIds \ changed : rows[s].status = StateOf(total) /\ ~rows[s].deleted} IN
        call.counts[total] \in Cardinality(sure)..Cardinality(sure \cup changed)

\* Once a period is over and its last writes are in, what was created and
\* published in it is always reported the same, and the other numbers can only
\* fall, as stories and views are written again: no later call finds more.
PastPeriodsOnlyShrink ==
    first.settled /\ call.period = first.period =>
        \A name \in (Counts \cap Period) \ call.left :
            IF name \in {"storiesCreated", "storiesPublished"}
            THEN call.counts[name] = first.counts[name]
            ELSE call.counts[name] <= first.counts[name]
=============================================================================
