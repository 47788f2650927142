------------------------- MODULE AdminMetricsProofs -------------------------
(***************************************************************************)
(* Proofs about AdminMetrics, for any finite number of stories, and any    *)
(* writers, periods, counts and length of time.                            *)
(***************************************************************************)
EXTENDS AdminMetrics, FiniteSetTheorems, TLAPS

(***************************************************************************)
(* The inductive invariant.                                                *)
(***************************************************************************)

\* A story that is being published is not there yet, and nobody else writes it;
\* whatever else is written is there.
WriteOK(w) ==
    LET p == writes[w] IN
    /\ p.pc = "idle" => p = Nothing
    /\ p.pc = "clock" => p.op = "publish"
    /\ p.pc # "idle" => p.id \in StoryIds
    /\ p.pc # "idle" /\ p.op = "publish" =>
           /\ ~Exists(p.id)
           /\ \A v \in Writers \ {w} : writes[v].pc = "idle" \/ writes[v].id # p.id
           /\ p.row.status = "ACTIVE"
           /\ p.pc = "stamped" => p.row.createdAt = p.row.updatedAt
    /\ p.pc # "idle" /\ p.op # "publish" => Exists(p.id)
    /\ p.op = "rewrite" => p.row.status \in StoryStatus

WritesOK == \A w \in Writers : WriteOK(w)

\* What a number of the period p counts, whatever period the call is about.
Dated(s, name, p) ==
    LET in(t) == t \in p[1]..p[2] IN
    \/ name = "storiesCreated" /\ Exists(s) /\ in(rows[s].createdAt)
    \/ name = "storiesPublished" /\ Exists(s) /\ in(rows[s].publishedAt)
    \/ name = "storiesBlocked" /\ rows[s].status = "BLOCKED" /\ in(rows[s].updatedAt)
    \/ name = "storiesExpired" /\ rows[s].status = "EXPIRED" /\ in(rows[s].updatedAt)
    \/ name = "storyViews" /\ viewed[s] # 0 /\ in(viewed[s])

Found(name, p) == {s \in StoryIds : Dated(s, name, p)}

Lasting == {"storiesCreated", "storiesPublished"}

\* How a number n of a period may compare with an earlier answer m.
Fits(name, n, m) == IF name \in Lasting THEN n = m ELSE n <= m

\* A call that began with nothing outstanding for its period: nothing ever is again,
\* and what it has answered is not outgrown.
Reported(q) ==
    q.settled =>
        /\ SettledUpTo(q.period[2])
        /\ \A name \in (Counts \cap Period) \ q.left :
               Fits(name, Cardinality(Found(name, q.period)), q.counts[name])

AnswersOK ==
    /\ Reported(call) /\ Reported(first)
    /\ first.settled => first.left = {}

MetricsInv ==
    /\ MetricsTypeOK /\ WritesOK /\ AnswersOK
    /\ TotalsRightButForWrites /\ PastPeriodsOnlyShrink

-----------------------------------------------------------------------------
(* What is counted.                                                        *)

\* Sets of stories have sizes, which grow with the sets.
LEMMA Sizes ==
  ASSUME NEW T \in SUBSET StoryIds
  PROVE  /\ Cardinality(T) \in Nat /\ Cardinality(T) <= Cardinality(StoryIds)
         /\ Cardinality(StoryIds) \in Nat
         /\ \A S \in SUBSET T : Cardinality(S) \in Nat /\ Cardinality(S) <= Cardinality(T)
<1>1. IsFiniteSet(StoryIds) /\ IsFiniteSet(T)
  BY FS_Subset, MetricsAssumption
<1>2. QED BY <1>1, FS_Subset, FS_CardinalityType

\* A number of the period counts what is dated within it.
LEMMA PeriodCounted ==
  ASSUME NEW name \in Period
  PROVE  Counted(name) = Found(name, call.period)
  BY DEF Period, Counted, Found, Dated, Within, UpdatedAs

\* A total counts the stories in its state.
LEMMA TotalCounted ==
  ASSUME NEW total \in Totals
  PROVE  Counted(total) = {s \in StoryIds : rows[s].status = StateOf(total) /\ ~rows[s].deleted}
  BY DEF Totals, Counted, InState, StateOf

\* Either way it counts stories.
LEMMA StoriesCounted ==
  ASSUME NEW name \in Counts
  PROVE  Counted(name) \in SUBSET StoryIds
<1>1. name \in Totals \/ name \in Period
  BY MetricsAssumption
<1>2. QED BY <1>1, PeriodCounted, TotalCounted DEF Found

-----------------------------------------------------------------------------
(* What a step does to the writes on their way, and to what is counted.    *)

\* What is dated anew in a step is dated with its clock.
DatedNow(v) ==
    LET p == writes[v] IN
    /\ p'.pc = "stamped" => \/ p.pc = "stamped" /\ p'.row.updatedAt = p.row.updatedAt
                            \/ p'.row.updatedAt = now
    /\ p'.op = "publish" /\ p'.pc # "idle" =>
           \/ p.op = "publish" /\ p.pc # "idle" /\ p'.row.publishedAt = p.row.publishedAt
           \/ p'.row.publishedAt = now

ClockGoesOn == now' >= now /\ \A v \in Writers : DatedNow(v)

\* Nothing outstanding up to a time: nothing ever is again.
LEMMA SettledKept ==
  ASSUME MetricsTypeOK, ClockGoesOn, NEW to \in Time, SettledUpTo(to), now' \in Nat
  PROVE  SettledUpTo(to)'
<1>1. now \in Nat /\ to \in Nat /\ to < now'
  BY MetricsAssumption DEF MetricsTypeOK, Time, SettledUpTo, ClockGoesOn
<1>2. ASSUME NEW w \in Writers
      PROVE  /\ writes'[w].pc = "stamped" => writes'[w].row.updatedAt > to
             /\ writes'[w].op = "publish" /\ writes'[w].pc # "idle" => writes'[w].row.publishedAt > to
  <2>1. DatedNow(w) /\ now > to
    BY <1>1 DEF ClockGoesOn, SettledUpTo
  <2>2. /\ writes[w].pc = "stamped" => writes[w].row.updatedAt > to
        /\ writes[w].op = "publish" /\ writes[w].pc # "idle" => writes[w].row.publishedAt > to
    BY DEF SettledUpTo
  <2>3. QED BY <2>1, <2>2 DEF DatedNow
<1>3. QED BY <1>1, <1>2 DEF SettledUpTo

\* A writer begins to write q, to the story s.
Begun(w, s, q) ==
    /\ writes[w].pc = "idle" /\ writes' = [writes EXCEPT ![w] = q]
    /\ UNCHANGED <<now, rows, viewed, call, changed, first>>
    /\ q.pc # "idle" /\ q.id = s
    /\ \/ /\ q.op = "publish" /\ q.pc = "clock" /\ q.row.publishedAt = now
          /\ q.row.status = "ACTIVE" /\ ~Exists(s)
          /\ \A v \in Writers : writes[v].pc = "idle" \/ writes[v].id # s
       \/ q.op = "view" /\ q.pc = "stamped" /\ q.row.updatedAt = now /\ Exists(s)
       \/ /\ q.op = "rewrite" /\ q.pc = "stamped" /\ q.row.updatedAt = now /\ Exists(s)
          /\ q.row.status \in StoryStatus

\* What is begun is well formed and dated now.
LEMMA BeginStep ==
  ASSUME MetricsTypeOK, WritesOK, NEW w \in Writers, NEW s \in StoryIds,
         \/ BeginPublish(w, s) \/ BeginView(w, s)
         \/ \E status \in StoryStatus, deleted \in BOOLEAN : BeginRewrite(w, s, status, deleted)
  PROVE  /\ WritesOK' /\ writes' \in [Writers -> Pending] /\ ClockGoesOn
         /\ UNCHANGED <<now, rows, viewed, call, changed, first>>
<1>1. now \in Time /\ now \in Nat /\ 0 \in Time
  BY MetricsAssumption DEF MetricsTypeOK, Time
<1>2. NoRow \in Row
  BY <1>1 DEF NoRow, Row
<1>3. PICK q \in Pending : Begun(w, s, q)
  <2>1. CASE BeginPublish(w, s)
    <3> DEFINE q == [pc |-> "clock", op |-> "publish", id |-> s,
                     row |-> [NoRow EXCEPT !.status = "ACTIVE", !.publishedAt = now]]
    <3>1. q \in Pending
      BY <1>1, <1>2 DEF Pending, Row, StoryStatus, NoRow
    <3>2. QED BY <2>1, <3>1 DEF Begun, BeginPublish, Begin, Writing, NoRow
  <2>2. CASE BeginView(w, s)
    <3> DEFINE q == [pc |-> "stamped", op |-> "view", id |-> s, row |-> [NoRow EXCEPT !.updatedAt = now]]
    <3>1. q \in Pending
      BY <1>1, <1>2 DEF Pending, Row, NoRow
    <3>2. QED BY <2>2, <3>1 DEF Begun, BeginView, Begin, Writing, NoRow
  <2>3. ASSUME NEW status \in StoryStatus, NEW deleted \in BOOLEAN, BeginRewrite(w, s, status, deleted)
        PROVE  \E q \in Pending : Begun(w, s, q)
    <3> DEFINE q == [pc |-> "stamped", op |-> "rewrite", id |-> s,
                     row |-> [NoRow EXCEPT !.status = status, !.deleted = deleted, !.updatedAt = now]]
    <3>1. q \in Pending
      BY <1>1, <1>2 DEF Pending, Row, NoRow
    <3>2. QED BY <2>3, <3>1 DEF Begun, BeginRewrite, Begin, Writing, NoRow
  <2>4. QED BY <2>1, <2>2, <2>3
<1>4. /\ writes \in [Writers -> Pending] /\ writes'[w] = q
      /\ \A v \in Writers \ {w} : writes'[v] = writes[v]
  BY <1>3 DEF MetricsTypeOK, Begun
<1>5. ClockGoesOn
  BY <1>1, <1>3, <1>4 DEF ClockGoesOn, DatedNow, Begun
<1>6. WritesOK'
  <2>1. WriteOK(w)'
    BY <1>3, <1>4 DEF WriteOK, Exists, Nothing, Begun
  <2>2. ASSUME NEW v \in Writers \ {w} PROVE WriteOK(v)'
    <3>1. WriteOK(v) /\ WriteOK(w)
      BY DEF WritesOK
    <3>2. QED BY <1>3, <1>4, <3>1 DEF WriteOK, Exists, Begun
  <2>3. QED BY <2>1, <2>2 DEF WritesOK
<1>7. QED BY <1>3, <1>4, <1>5, <1>6 DEF MetricsTypeOK, Begun

\* An insert that is sent carries the time, and what is refused is forgotten.
LEMMA StampOrRefusal ==
  ASSUME MetricsTypeOK, WritesOK, NEW w \in Writers, Stamp(w) \/ Refused(w)
  PROVE  /\ WritesOK' /\ writes' \in [Writers -> Pending] /\ ClockGoesOn
         /\ UNCHANGED <<now, rows, viewed, call, changed, first>>
<1>1. /\ writes \in [Writers -> Pending] /\ writes[w] \in Pending
      /\ now \in Time /\ now \in Nat /\ 0 \in Time
  BY MetricsAssumption DEF MetricsTypeOK, Time
<1>2. Nothing \in Pending
  BY <1>1 DEF Nothing, NoRow, Pending, Row
<1> DEFINE stamped == [writes[w] EXCEPT !.pc = "stamped", !.row.createdAt = now, !.row.updatedAt = now]
<1>3. /\ stamped \in Pending /\ stamped.pc = "stamped"
      /\ stamped.op = writes[w].op /\ stamped.id = writes[w].id
      /\ stamped.row.createdAt = now /\ stamped.row.updatedAt = now
      /\ stamped.row.publishedAt = writes[w].row.publishedAt
      /\ stamped.row.status = writes[w].row.status
  <2>1. [writes[w].row EXCEPT !.createdAt = now, !.updatedAt = now] \in Row
    BY <1>1 DEF Pending, Row
  <2>2. stamped = [writes[w] EXCEPT !.pc = "stamped",
                       !.row = [writes[w].row EXCEPT !.createdAt = now, !.updatedAt = now]]
    BY <1>1 DEF Pending, Row
  <2>3. QED BY <1>1, <2>1, <2>2 DEF Pending, Row
<1> HIDE DEF stamped
<1>4. PICK q \in Pending :
        /\ writes' = [writes EXCEPT ![w] = q]
        /\ UNCHANGED <<now, rows, viewed, call, changed, first>>
        /\ writes[w].pc # "idle"
        /\ q = Nothing \/ (writes[w].pc = "clock" /\ q = stamped)
  <2>1. CASE Stamp(w)
    BY <2>1, <1>3 DEF Stamp, Writing, stamped
  <2>2. CASE Refused(w)
    <3>1. /\ writes' = [writes EXCEPT ![w] = Nothing] /\ writes[w].pc # "idle"
          /\ UNCHANGED <<now, rows, viewed, call, changed, first>>
      BY <2>2 DEF Refused, Writing
    <3>2. QED BY <1>2, <3>1
  <2>3. QED BY <2>1, <2>2
<1>5. writes'[w] = q /\ \A v \in Writers \ {w} : writes'[v] = writes[v]
  BY <1>1, <1>4
<1>6. ClockGoesOn
  BY <1>1, <1>3, <1>4, <1>5 DEF ClockGoesOn, DatedNow, Nothing
<1>7. WritesOK'
  <2>1. WriteOK(w)'
    BY <1>3, <1>4, <1>5 DEF WritesOK, WriteOK, Exists, Nothing
  <2>2. ASSUME NEW v \in Writers \ {w} PROVE WriteOK(v)'
    <3>1. WriteOK(v) /\ WriteOK(w)
      BY DEF WritesOK
    <3>2. QED BY <1>3, <1>4, <1>5, <3>1 DEF WriteOK, Exists, Nothing
  <2>3. QED BY <2>1, <2>2 DEF WritesOK
<1>8. QED BY <1>1, <1>4, <1>6, <1>7

\* What a commit makes of the row and the view of its story.
WrittenTo(s, p) ==
    \/ p.op = "publish" /\ rows'[s] = p.row /\ viewed'[s] = viewed[s]
    \/ p.op = "view" /\ rows'[s] = rows[s] /\ viewed'[s] = p.row.updatedAt
    \/ /\ p.op = "rewrite" /\ viewed'[s] = viewed[s]
       /\ rows'[s].status = p.row.status /\ rows'[s].updatedAt = p.row.updatedAt
       /\ rows'[s].createdAt = rows[s].createdAt /\ rows'[s].publishedAt = rows[s].publishedAt

\* A commit changes one story, and leaves the table and the writes well formed.
LEMMA CommitStep ==
  ASSUME MetricsTypeOK, WritesOK, NEW w \in Writers, Commit(w)
  PROVE  /\ WritesOK' /\ writes' \in [Writers -> Pending] /\ ClockGoesOn
         /\ rows' \in [StoryIds -> Row] /\ viewed' \in [StoryIds -> Time]
         /\ UNCHANGED <<now, call, first>>
         /\ changed' = changed \cup {writes[w].id} /\ writes[w].id \in StoryIds
         /\ WrittenTo(writes[w].id, writes[w])
         /\ \A s \in StoryIds \ {writes[w].id} : rows'[s] = rows[s] /\ viewed'[s] = viewed[s]
<1> DEFINE p == writes[w]
<1>1. /\ writes \in [Writers -> Pending] /\ p \in Pending /\ p.row \in Row
      /\ rows \in [StoryIds -> Row] /\ viewed \in [StoryIds -> Time]
      /\ now \in Time /\ now \in Nat /\ 0 \in Time
  BY MetricsAssumption DEF MetricsTypeOK, Time, Pending
<1>2. p.pc = "stamped" /\ WriteOK(w)
  BY DEF WritesOK, Commit
<1>3. p.id \in StoryIds /\ (p.op = "rewrite" => p.row.status \in StoryStatus)
  BY <1>2 DEF WriteOK
<1>4. Nothing \in Pending
  BY <1>1 DEF Nothing, NoRow, Pending, Row
<1>5. /\ writes' = [writes EXCEPT ![w] = Nothing]
      /\ changed' = changed \cup {p.id} /\ UNCHANGED <<now, call, first>>
  BY DEF Commit, Writing
<1>6. /\ rows' \in [StoryIds -> Row] /\ viewed' \in [StoryIds -> Time]
      /\ WrittenTo(p.id, p)
      /\ \A s \in StoryIds \ {p.id} : rows'[s] = rows[s] /\ viewed'[s] = viewed[s]
  <2>1. Written(w)
    BY DEF Commit
  <2>2. CASE p.op = "view"
    BY <1>1, <1>3, <2>1, <2>2 DEF Written, WrittenTo, Row
  <2>3. CASE p.op = "publish"
    BY <1>1, <1>3, <2>1, <2>3 DEF Written, WrittenTo
  <2>4. CASE p.op = "rewrite"
    <3> DEFINE r == [rows[p.id] EXCEPT !.status = p.row.status,
                                       !.deleted = @ \/ p.row.deleted,
                                       !.updatedAt = p.row.updatedAt]
    <3>1. rows' = [rows EXCEPT ![p.id] = r] /\ viewed' = viewed
      BY <1>1, <1>3, <2>1, <2>4 DEF Written, Row
    <3>2. /\ r \in Row /\ r.status = p.row.status /\ r.updatedAt = p.row.updatedAt
          /\ r.createdAt = rows[p.id].createdAt /\ r.publishedAt = rows[p.id].publishedAt
      BY <1>1, <1>3 DEF Row
    <3> HIDE DEF r
    <3>3. QED BY <1>1, <1>3, <2>4, <3>1, <3>2 DEF WrittenTo
  <2>5. QED BY <1>1, <2>2, <2>3, <2>4 DEF Pending
<1>7. writes'[w] = Nothing /\ \A v \in Writers \ {w} : writes'[v] = writes[v]
  BY <1>1, <1>5
<1>8. ClockGoesOn
  BY <1>1, <1>5, <1>7 DEF ClockGoesOn, DatedNow, Nothing
<1>9. WritesOK'
  <2>1. WriteOK(w)'
    BY <1>7 DEF WriteOK, Nothing
  <2>2. \A s \in StoryIds : Exists(s) => Exists(s)'
    BY <1>1, <1>2, <1>3, <1>6 DEF WrittenTo, WriteOK, Exists, StoryStatus
  <2>3. \A s \in StoryIds \ {p.id} : Exists(s)' = Exists(s)
    BY <1>6 DEF Exists
  <2>4. ASSUME NEW v \in Writers \ {w} PROVE WriteOK(v)'
    <3>1. WriteOK(v) /\ WriteOK(w)
      BY DEF WritesOK
    <3>2. writes[v].pc # "idle" /\ writes[v].op = "publish" => writes[v].id # p.id
      BY <1>2, <3>1 DEF WriteOK
    <3>3. QED BY <1>7, <2>2, <2>3, <3>1, <3>2 DEF WriteOK, Nothing
  <2>5. QED BY <2>1, <2>4 DEF WritesOK
<1>10. QED BY <1>1, <1>3, <1>4, <1>5, <1>6, <1>8, <1>9

\* What is found for a period nothing is outstanding for: nothing new.
OldOnly(p) == \A name \in Period :
    /\ Found(name, p)' \subseteq Found(name, p)
    /\ name \in Lasting => Found(name, p)' = Found(name, p)

LEMMA CommitFindsOldOnly ==
  ASSUME MetricsTypeOK, WritesOK, NEW w \in Writers, Commit(w),
         NEW p \in Time \X Time, SettledUpTo(p[2])
  PROVE  OldOnly(p)
<1> DEFINE q == writes[w]
<1>1. /\ q.id \in StoryIds /\ WrittenTo(q.id, q)
      /\ \A s \in StoryIds \ {q.id} : rows'[s] = rows[s] /\ viewed'[s] = viewed[s]
  BY CommitStep
<1>2. q.pc = "stamped" /\ WriteOK(w) /\ q.row \in Row /\ q \in Pending
  BY DEF WritesOK, Commit, MetricsTypeOK, Pending
<1>3. q.row.updatedAt > p[2] /\ (q.op = "publish" => q.row.publishedAt > p[2])
  BY <1>2 DEF SettledUpTo
<1>4. \A t \in Time : t > p[2] => t \notin p[1]..p[2]
  BY MetricsAssumption DEF Time
<1>5. q.row.updatedAt \notin p[1]..p[2] /\ (q.op = "publish" => q.row.publishedAt \notin p[1]..p[2])
  BY <1>2, <1>3, <1>4 DEF Row
<1>6. ASSUME NEW name \in Period, NEW s \in StoryIds
      PROVE  /\ Dated(s, name, p)' => Dated(s, name, p)
             /\ name \in Lasting => (Dated(s, name, p)' <=> Dated(s, name, p))
  <2>1. CASE s # q.id
    BY <1>1, <2>1 DEF Dated, Exists
  <2>2. CASE s = q.id /\ q.op = "publish"
    <3>1. /\ ~Exists(s) /\ rows'[s] = q.row /\ viewed'[s] = viewed[s]
          /\ q.row.createdAt = q.row.updatedAt
          /\ q.row.status = "ACTIVE"
      BY <1>1, <1>2, <2>2 DEF WriteOK, WrittenTo
    <3>2. QED BY <1>5, <2>2, <3>1 DEF Dated, Exists, Lasting
  <2>3. CASE s = q.id /\ q.op = "view"
    BY <1>1, <1>5, <2>3 DEF Dated, Exists, WrittenTo, Lasting
  <2>4. CASE s = q.id /\ q.op = "rewrite"
    <3>1. Exists(s) /\ Exists(s)'
      BY <1>1, <1>2, <2>4 DEF WriteOK, WrittenTo, Exists, StoryStatus
    <3>2. QED BY <1>1, <1>5, <2>4, <3>1 DEF Dated, WrittenTo, Lasting
  <2>5. QED BY <1>2, <2>1, <2>2, <2>3, <2>4 DEF Pending
<1>7. QED BY <1>6 DEF OldOnly, Found

\* A step that leaves the rows and the views alone finds what was found before.
LEMMA NothingFound ==
  ASSUME UNCHANGED <<rows, viewed>>, NEW p
  PROVE  OldOnly(p)
<1>1. \A name \in Period, s \in StoryIds : Dated(s, name, p)' <=> Dated(s, name, p)
  BY DEF Dated, Exists
<1>2. QED BY <1>1 DEF OldOnly, Found

\* What has been reported stays as good as it was.
LEMMA ReportedKept ==
  ASSUME MetricsTypeOK, ClockGoesOn, now' \in Nat, NEW q \in Call, Reported(q),
         SettledUpTo(q.period[2]) => OldOnly(q.period)
  PROVE  Reported(q)'
<1> SUFFICES ASSUME q.settled
             PROVE  /\ SettledUpTo(q.period[2])'
                    /\ \A name \in (Counts \cap Period) \ q.left :
                           Fits(name, Cardinality(Found(name, q.period))', q.counts[name])
    BY DEF Reported, Fits
<1>1. /\ q.period \in Time \X Time /\ q.period[2] \in Time
      /\ q.counts \in [Counts -> 0..Cardinality(StoryIds)]
  BY DEF Call
<1>2. SettledUpTo(q.period[2]) /\ OldOnly(q.period)
  BY DEF Reported
<1>3. SettledUpTo(q.period[2])'
  BY <1>1, <1>2, SettledKept
<1>4. ASSUME NEW name \in (Counts \cap Period) \ q.left
      PROVE  Fits(name, Cardinality(Found(name, q.period))', q.counts[name])
  <2> DEFINE F == Found(name, q.period)
             G == Found(name, q.period)'
  <2>1. F \in SUBSET StoryIds /\ G \subseteq F /\ (name \in Lasting => G = F)
    BY <1>2 DEF Found, OldOnly
  <2>2. Fits(name, Cardinality(F), q.counts[name])
    BY DEF Reported
  <2>3. q.counts[name] \in Nat
    BY <1>1, Sizes DEF Call
  <2> HIDE DEF F, G
  <2>4. Cardinality(F) \in Nat /\ Cardinality(G) \in Nat /\ Cardinality(G) <= Cardinality(F)
    BY <2>1, Sizes
  <2>5. Fits(name, Cardinality(G), q.counts[name])
    BY <2>1, <2>2, <2>3, <2>4 DEF Fits
  <2>6. QED BY <2>5 DEF G
<1>5. QED BY <1>3, <1>4

-----------------------------------------------------------------------------
(* The steps.                                                              *)

Sure(total) == {s \in StoryIds \ changed : rows[s].status = StateOf(total) /\ ~rows[s].deleted}

\* A total stays right while the stories that change are on record.
LEMMA TotalsKept ==
  ASSUME MetricsTypeOK, TotalsRightButForWrites, call' = call,
         changed \subseteq changed', changed' \subseteq StoryIds,
         \A s \in StoryIds \ changed' : rows'[s] = rows[s]
  PROVE  TotalsRightButForWrites'
<1> SUFFICES ASSUME call.period # NoCall.period, NEW total \in (Counts \cap Totals) \ call.left
             PROVE  call.counts[total] \in
                        Cardinality(Sure(total)')..Cardinality(Sure(total)' \cup changed')
    BY DEF TotalsRightButForWrites, Sure, StateOf, NoCall
<1> DEFINE S == Sure(total)
           T == Sure(total)'
<1>1. T \subseteq S /\ S \cup changed \subseteq T \cup changed' /\ T \cup changed' \subseteq StoryIds
  BY DEF Sure
<1>2. S \in SUBSET StoryIds /\ S \cup changed \in SUBSET StoryIds
  BY DEF Sure, MetricsTypeOK
<1>3. call.counts[total] \in Cardinality(S)..Cardinality(S \cup changed)
  BY DEF TotalsRightButForWrites, Sure
<1> HIDE DEF S, T
<1>4. /\ Cardinality(S) \in Nat /\ Cardinality(T) \in Nat /\ Cardinality(T) <= Cardinality(S)
  BY <1>1, <1>2, Sizes
<1>5. /\ Cardinality(S \cup changed) \in Nat /\ Cardinality(T \cup changed') \in Nat
      /\ Cardinality(S \cup changed) <= Cardinality(T \cup changed')
  BY <1>1, <1>2, Sizes
<1>6. call.counts[total] \in Cardinality(T)..Cardinality(T \cup changed')
  BY <1>3, <1>4, <1>5
<1>7. QED BY <1>6 DEF T

\* Beside a call, the clock and the writers keep what the calls know.
LEMMA WritersKeep ==
  ASSUME MetricsInv, MetricsTypeOK', WritesOK', ClockGoesOn, UNCHANGED <<call, first>>,
         \A p \in Time \X Time : SettledUpTo(p[2]) => OldOnly(p),
         changed \subseteq changed', \A s \in StoryIds \ changed' : rows'[s] = rows[s]
  PROVE  MetricsInv'
<1>1. MetricsTypeOK /\ now' \in Nat /\ changed' \subseteq StoryIds
  BY MetricsAssumption DEF MetricsTypeOK, MetricsInv
<1>2. \A q \in Call : q.period \in Time \X Time
  BY DEF Call
<1>3. \A q \in Call : Reported(q) => Reported(q)'
  BY <1>1, <1>2, ReportedKept
<1>4. PICK q \in Call, r \in Call : q = call /\ r = first
  BY <1>1 DEF MetricsTypeOK
<1>5. Reported(q)' /\ Reported(r)'
  BY <1>3, <1>4 DEF MetricsInv, AnswersOK
<1>6. AnswersOK'
  BY <1>4, <1>5 DEF MetricsInv, AnswersOK
<1>7. TotalsRightButForWrites' /\ PastPeriodsOnlyShrink'
  BY <1>1, TotalsKept DEF MetricsInv, PastPeriodsOnlyShrink
<1>8. QED BY <1>6, <1>7 DEF MetricsInv

\* A call begins, knowing whether anything is outstanding for its period.
LEMMA GetStep ==
  ASSUME MetricsInv, NEW period \in Ranges, GetAdminMetrics(period)
  PROVE  MetricsInv'
<1>1. MetricsTypeOK /\ now \in Time /\ now \in Nat /\ 0 \in Nat
  BY MetricsAssumption DEF MetricsInv, MetricsTypeOK, Time
<1>2. period \in Time \X Time
  <2>1. (IF now > Span THEN now - Span ELSE 0) \in Time
    BY <1>1, MetricsAssumption DEF Time
  <2>2. QED BY <1>1, <2>1, MetricsAssumption DEF Ranges, Time
<1>3. /\ call' \in Call /\ call'.period = period /\ call'.left = Counts
      /\ call'.settled = SettledUpTo(period[2])
  <2>1. [n \in Counts |-> 0] \in [Counts -> 0..Cardinality(StoryIds)]
    BY Sizes
  <2>2. SettledUpTo(period[2]) \in BOOLEAN
    BY DEF SettledUpTo
  <2>3. QED BY <1>2, <2>1, <2>2 DEF GetAdminMetrics, NoCall, Call
<1>4. UNCHANGED <<now, rows, viewed, writes, first>> /\ changed' = {}
  BY DEF GetAdminMetrics
<1>5. MetricsTypeOK' /\ WritesOK'
  BY <1>1, <1>3, <1>4 DEF MetricsInv, MetricsTypeOK, WritesOK, WriteOK, Exists
<1>6. AnswersOK'
  <2>1. Reported(call)'
    BY <1>3, <1>4 DEF Reported, SettledUpTo
  <2>2. Reported(first)'
    BY <1>4 DEF MetricsInv, AnswersOK, Reported, SettledUpTo, Found, Dated, Exists
  <2>3. QED BY <1>4, <2>1, <2>2 DEF MetricsInv, AnswersOK
<1>7. TotalsRightButForWrites' /\ PastPeriodsOnlyShrink'
  BY <1>3 DEF TotalsRightButForWrites, PastPeriodsOnlyShrink
<1>8. QED BY <1>5, <1>6, <1>7 DEF MetricsInv

\* A count is what the table says when it is made; the first call to be complete for
\* a period that is over is the one later calls are compared with.
LEMMA CountStep ==
  ASSUME MetricsInv, NEW name \in Counts, CountAnswered(name)
  PROVE  MetricsInv'
<1> DEFINE n == Cardinality(Counted(name))
<1>1. /\ MetricsTypeOK /\ call \in Call /\ first \in Call
      /\ Reported(call) /\ Reported(first)
  BY DEF MetricsInv, MetricsTypeOK, AnswersOK
<1>2. n \in Nat /\ n \in 0..Cardinality(StoryIds)
  BY StoriesCounted, Sizes
<1>3. UNCHANGED <<now, rows, viewed, writes, changed>> /\ name \in call.left
  BY DEF CountAnswered
<1>4. /\ call' \in Call /\ call'.period = call.period /\ call'.settled = call.settled
      /\ call'.left = call.left \ {name} /\ call'.counts[name] = n
      /\ \A m \in Counts \ {name} : call'.counts[m] = call.counts[m]
  <2>1. call' = [call EXCEPT !.left = call.left \ {name}, !.counts = [call.counts EXCEPT ![name] = n]]
    BY <1>1 DEF CountAnswered, Call
  <2>2. call.counts \in [Counts -> 0..Cardinality(StoryIds)]
    BY <1>1 DEF Call
  <2> HIDE DEF n
  <2>3. QED BY <1>1, <1>2, <2>1, <2>2 DEF Call
<1> HIDE DEF n
<1>5. /\ first' \in Call
      /\ first' = first \/ (first' = call' /\ call'.settled /\ call'.left = {} /\ ~first.settled)
  BY <1>1, <1>4 DEF CountAnswered
<1>6. MetricsTypeOK' /\ WritesOK'
  BY <1>1, <1>3, <1>4, <1>5 DEF MetricsInv, MetricsTypeOK, WritesOK, WriteOK, Exists
<1>7. \A q \in Call : Reported(q)' <=> Reported(q)
  BY <1>3 DEF Reported, SettledUpTo, Found, Dated, Exists
<1>8. name \in Period => n = Cardinality(Found(name, call.period))
  BY PeriodCounted DEF n
<1>9. \A m \in Counts : call.counts[m] \in Nat /\ call'.counts[m] \in Nat /\ first.counts[m] \in Nat
  BY <1>1, <1>4, Sizes DEF Call
<1>10. AnswersOK'
  <2>1. PICK q \in Call, r \in Call : q = call' /\ r = first'
    BY <1>4, <1>5
  <2>2. Reported(q)
    BY <1>1, <1>2, <1>4, <1>8, <2>1 DEF Reported, Fits
  <2>3. Reported(r)
    BY <1>1, <1>5, <2>1, <2>2
  <2>4. Reported(q)' /\ Reported(r)'
    BY <1>7, <2>2, <2>3
  <2>5. QED BY <1>5, <2>1, <2>4 DEF AnswersOK, MetricsInv
<1>11. PastPeriodsOnlyShrink'
  <2>1. ASSUME first.settled, first' = first, call.period = first.period,
               NEW m \in (Counts \cap Period) \ call'.left
        PROVE  Fits(m, call'.counts[m], first.counts[m])
    <3>1. CASE m = name
      <4>1. Fits(m, Cardinality(Found(m, first.period)), first.counts[m])
        BY <1>1, <2>1 DEF Reported, MetricsInv, AnswersOK
      <4>2. QED BY <1>4, <1>8, <2>1, <3>1, <4>1
    <3>2. CASE m # name
      BY <1>4, <2>1, <3>2 DEF MetricsInv, PastPeriodsOnlyShrink, Fits, Lasting
    <3>3. QED BY <3>1, <3>2
  <2>2. ASSUME first' = call', NEW m \in Counts PROVE Fits(m, call'.counts[m], first'.counts[m])
    BY <1>9, <2>2 DEF Fits
  <2>3. QED BY <1>4, <1>5, <2>1, <2>2 DEF PastPeriodsOnlyShrink, Fits, Lasting
<1>12. TotalsRightButForWrites'
  <2> SUFFICES ASSUME call.period # NoCall.period, NEW total \in (Counts \cap Totals) \ call'.left
               PROVE  call'.counts[total] \in Cardinality(Sure(total))..Cardinality(Sure(total) \cup changed)
    BY <1>3, <1>4 DEF TotalsRightButForWrites, Sure, StateOf, NoCall
  <2>1. CASE total # name
    BY <1>4, <2>1 DEF MetricsInv, TotalsRightButForWrites, Sure
  <2>2. CASE total = name
    <3>1. Sure(total) \subseteq Counted(name) /\ Counted(name) \subseteq Sure(total) \cup changed
      BY <2>2, TotalCounted DEF Sure
    <3>2. Counted(name) \in SUBSET StoryIds /\ Sure(total) \cup changed \in SUBSET StoryIds
      BY <1>1, StoriesCounted DEF Sure, MetricsTypeOK
    <3>3. /\ Cardinality(Sure(total)) \in Nat /\ Cardinality(Sure(total)) <= Cardinality(Counted(name))
      BY <3>1, <3>2, Sizes
    <3>4. /\ Cardinality(Sure(total) \cup changed) \in Nat
          /\ Cardinality(Counted(name)) <= Cardinality(Sure(total) \cup changed)
      BY <3>1, <3>2, Sizes
    <3>5. QED BY <1>2, <1>4, <2>2, <3>3, <3>4 DEF n
  <2>3. QED BY <2>1, <2>2
<1>13. QED BY <1>6, <1>10, <1>11, <1>12 DEF MetricsInv

LEMMA InitMetricsInv == MetricsInit => MetricsInv
<1> SUFFICES ASSUME MetricsInit PROVE MetricsInv
    OBVIOUS
<1>1. 0 \in Time /\ 1 \in 1..MaxTime /\ [n \in Counts |-> 0] \in [Counts -> 0..Cardinality(StoryIds)]
  BY MetricsAssumption, Sizes DEF Time
<1>2. NoRow \in Row
  BY <1>1 DEF NoRow, Row
<1>3. Nothing \in Pending /\ NoCall \in Call /\ ~NoCall.settled
  BY <1>1, <1>2 DEF Nothing, Pending, NoCall, Call
<1>4. MetricsTypeOK
  BY <1>1, <1>2, <1>3 DEF MetricsInit, MetricsTypeOK
<1>5. WritesOK
  BY DEF MetricsInit, WritesOK, WriteOK, Nothing
<1>6. QED
  BY <1>3, <1>4, <1>5 DEF MetricsInit, MetricsInv, AnswersOK, Reported, TotalsRightButForWrites, PastPeriodsOnlyShrink

LEMMA NextMetricsInv == MetricsInv /\ [MetricsNext]_metricsVars => MetricsInv'
<1> SUFFICES ASSUME MetricsInv, [MetricsNext]_metricsVars PROVE MetricsInv'
    OBVIOUS
<1>1. MetricsTypeOK /\ WritesOK /\ now \in Nat
  BY MetricsAssumption DEF MetricsInv, MetricsTypeOK
<1>2. ASSUME UNCHANGED <<rows, viewed, call, changed, first>>, now' \in 1..MaxTime, ClockGoesOn,
             WritesOK', writes' \in [Writers -> Pending]
      PROVE  MetricsInv'
  <2>1. MetricsTypeOK'
    BY <1>1, <1>2 DEF MetricsTypeOK
  <2>2. \A p \in Time \X Time : OldOnly(p)
    BY <1>2, NothingFound
  <2>3. QED BY <1>2, <2>1, <2>2, WritersKeep
<1>3. CASE UNCHANGED metricsVars \/ Tick
  <2>1. /\ UNCHANGED <<rows, viewed, writes, call, changed, first>>
        /\ now' \in 1..MaxTime /\ now' >= now
    BY <1>1, <1>3, MetricsAssumption DEF metricsVars, Tick, MetricsTypeOK
  <2>2. WritesOK'
    BY <1>1, <2>1 DEF WritesOK, WriteOK, Exists
  <2>3. ClockGoesOn
    BY <2>1 DEF ClockGoesOn, DatedNow, WritesOK, WriteOK
  <2>4. QED BY <1>1, <1>2, <2>1, <2>2, <2>3 DEF MetricsTypeOK
<1>4. ASSUME NEW w \in Writers, NEW s \in StoryIds,
             \/ BeginPublish(w, s) \/ BeginView(w, s)
             \/ \E status \in StoryStatus, deleted \in BOOLEAN : BeginRewrite(w, s, status, deleted)
      PROVE  MetricsInv'
  BY <1>1, <1>2, <1>4, BeginStep DEF MetricsTypeOK
<1>5. ASSUME NEW w \in Writers, Stamp(w) \/ Refused(w) PROVE MetricsInv'
  BY <1>1, <1>2, <1>5, StampOrRefusal DEF MetricsTypeOK
<1>6. ASSUME NEW w \in Writers, Commit(w) PROVE MetricsInv'
  <2>1. /\ WritesOK' /\ ClockGoesOn /\ UNCHANGED <<call, first>>
        /\ changed' = changed \cup {writes[w].id}
        /\ \A s \in StoryIds \ {writes[w].id} : rows'[s] = rows[s]
    BY <1>1, <1>6, CommitStep
  <2>2. MetricsTypeOK'
    BY <1>1, <1>6, CommitStep DEF MetricsTypeOK
  <2>3. \A p \in Time \X Time : SettledUpTo(p[2]) => OldOnly(p)
    BY <1>1, <1>6, CommitFindsOldOnly
  <2>4. QED BY <2>1, <2>2, <2>3, WritersKeep
<1>7. QED BY <1>3, <1>4, <1>5, <1>6, GetStep, CountStep DEF MetricsNext

\* The metrics, and the writes they count, keep the invariant.
THEOREM MetricsInvariance == MetricsSpec => []MetricsInv
<1>1. QED BY InitMetricsInv, NextMetricsInv, PTL DEF MetricsSpec

\* Rows, writes on their way and answers stay well formed.
THEOREM MetricsTypeCorrect == MetricsSpec => []MetricsTypeOK
<1>1. MetricsInv => MetricsTypeOK
  BY DEF MetricsInv
<1>2. QED BY <1>1, MetricsInvariance, PTL

\* A total is off by no more than the stories written while the counts were made.
THEOREM TotalsAreRightButForWrites == MetricsSpec => []TotalsRightButForWrites
<1>1. MetricsInv => TotalsRightButForWrites
  BY DEF MetricsInv
<1>2. QED BY <1>1, MetricsInvariance, PTL

\* What is reported of a period that is over never grows, and of what was created
\* and published in it never changes.
THEOREM PastPeriodsNeverGrow == MetricsSpec => []PastPeriodsOnlyShrink
<1>1. MetricsInv => PastPeriodsOnlyShrink
  BY DEF MetricsInv
<1>2. QED BY <1>1, MetricsInvariance, PTL
=============================================================================
