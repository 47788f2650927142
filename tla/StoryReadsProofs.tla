-------------------------- MODULE StoryReadsProofs --------------------------
(***************************************************************************)
(* Proofs about StoryReads, for any users, stories, follows and number of  *)
(* calls in progress at once.                                              *)
(***************************************************************************)
EXTENDS StoryReads, TLAPS

(***************************************************************************)
(* The inductive invariant: what the local state of a call in progress     *)
(* says about what was shown, and open to its viewer, since it began.      *)
(***************************************************************************)

\* The stories found were shown.  Before Identity is asked nothing is known of
\* their owners: the feed asks about all it has found, a user's list asks before
\* it looks, and a view asks about the owner of a story it has seen shown.
CallOK(q, h) ==
    /\ q.pc = "idle" => q = NoCall
    /\ q.pc # "idle" => q.viewer \in Users
    /\ q.op = "user" => q.target \in Users
    /\ q.op = "view" => q.target \in StoryIds
    /\ q.pc = "upsert" => q.op = "view"
    /\ q.found \subseteq h.shown
    /\ q.pc \in {"sign", "answered"} =>
           \A s \in q.found : Owner[s] \in h.open \cup {q.viewer}
    /\ q.op = "user" /\ q.pc = "find" => q.target \in h.open \cup {q.viewer}
    /\ q.op = "view" /\ q.pc \in {"audience", "upsert"} =>
           q.target \in h.shown /\ Owner[q.target] # q.viewer
    /\ q.pc = "upsert" => Owner[q.target] \in h.open

CallsOK == \A c \in Calls : CallOK(calls[c], during[c])

ReadsInv == ReadsTypeOK /\ CallsOK

-----------------------------------------------------------------------------
(* Calls and their history. *)

\* No call in progress is well formed and remembers nothing.
LEMMA NoCallOK == NoCall \in Call /\ \A h : CallOK(NoCall, h)
  BY DEF NoCall, Call, CallOK

\* What a call remembers stays true as its history grows.
LEMMA CallKept ==
  ASSUME NEW q, NEW g, NEW h, CallOK(q, g),
         g.shown \subseteq h.shown, g.open \subseteq h.open
  PROVE  CallOK(q, h)
  BY DEF CallOK

\* The history of a call in progress keeps what it holds and takes in what is
\* shown, and open to the viewer, after the step.
LEMMA HistoryGrows ==
  ASSUME Observe, NEW c \in Calls, calls'[c].pc # "idle"
  PROVE  /\ during'[c].shown = during[c].shown \cup Shown'
         /\ during'[c].open = during[c].open \cup Open(calls'[c].viewer, audience')
  BY DEF Observe

\* The history is made of stories and users.
LEMMA HistoryType ==
  ASSUME ReadsTypeOK, Observe
  PROVE  during' \in [Calls -> [shown : SUBSET StoryIds, open : SUBSET Users]]
  BY DEF ReadsTypeOK, Observe, Shown, Open

\* A call that does not move stays well formed.
LEMMA CallStays ==
  ASSUME ReadsInv, Observe, NEW c \in Calls, calls'[c] = calls[c]
  PROVE  CallOK(calls'[c], during'[c])
<1>1. CallOK(calls[c], during[c])
  BY DEF ReadsInv, CallsOK
<1>2. CASE calls'[c].pc = "idle"
  BY <1>1, <1>2, NoCallOK DEF CallOK
<1>3. CASE calls'[c].pc # "idle"
  BY <1>1, <1>3, HistoryGrows, CallKept
<1>4. QED BY <1>2, <1>3

\* One call moves to a well-formed state: all calls are well formed.
LEMMA CallMoves ==
  ASSUME ReadsInv, Observe, NEW c \in Calls, NEW q \in Call, Become(c, q),
         q.pc # "idle" => CallOK(q, during'[c]), q.pc = "idle" => q = NoCall
  PROVE  calls' \in [Calls -> Call] /\ CallsOK'
<1>1. calls \in [Calls -> Call]
  BY DEF ReadsInv, ReadsTypeOK
<1>2. calls' = [calls EXCEPT ![c] = q]
  BY DEF Become
<1>3. calls' \in [Calls -> Call]
  BY <1>1, <1>2
<1>4. ASSUME NEW d \in Calls PROVE CallOK(calls'[d], during'[d])
  <2>1. CASE d = c
    <3>1. calls'[d] = q
      BY <1>1, <1>2, <2>1
    <3>2. QED BY <2>1, <3>1, NoCallOK
  <2>2. CASE d # c
    BY <1>1, <1>2, <2>2, CallStays
  <2>3. QED BY <2>1, <2>2
<1>5. QED BY <1>3, <1>4 DEF CallsOK

\* What is known of a call in progress.
LEMMA CallType ==
  ASSUME ReadsInv, NEW c \in Calls
  PROVE  calls[c] \in Call /\ CallOK(calls[c], during[c])
  BY DEF ReadsInv, ReadsTypeOK, CallsOK

\* Nothing is in progress at first.
LEMMA InitReadsInv == ReadsInit => ReadsInv
<1> SUFFICES ASSUME ReadsInit PROVE ReadsInv
    OBVIOUS
<1>1. ReadsTypeOK
  BY NoCallOK DEF ReadsInit, Init, ReadsTypeOK, Phases, Verdicts
<1>2. CallsOK
  BY NoCallOK DEF ReadsInit, CallsOK
<1>3. QED BY <1>1, <1>2 DEF ReadsInv

-----------------------------------------------------------------------------
(* The steps of a call.  Each moves it to a well-formed state.             *)

\* A call begins.
LEMMA StartMoves ==
  ASSUME ReadsInv, Observe, NEW c \in Calls,
         \/ \E v \in Users : StartFeed(c, v)
         \/ \E v, u \in Users : StartUser(c, v, u)
         \/ \E v \in Users, s \in StoryIds : StartView(c, v, s)
  PROVE  calls' \in [Calls -> Call] /\ CallsOK'
<1>1. ASSUME NEW v \in Users, StartFeed(c, v) PROVE calls' \in [Calls -> Call] /\ CallsOK'
  <2> DEFINE q == [NoCall EXCEPT !.op = "feed", !.pc = "find", !.viewer = v]
  <2>1. q \in Call /\ CallOK(q, during'[c]) /\ q.pc # "idle"
    BY DEF Call, NoCall, CallOK
  <2>2. Become(c, q)
    BY <1>1 DEF StartFeed
  <2>3. QED BY <2>1, <2>2, CallMoves
<1>2. ASSUME NEW v \in Users, NEW u \in Users, StartUser(c, v, u)
      PROVE  calls' \in [Calls -> Call] /\ CallsOK'
  <2> DEFINE q == [NoCall EXCEPT !.op = "user", !.viewer = v, !.target = u,
                                 !.pc = IF u = v THEN "find" ELSE "audience"]
  <2>1. q \in Call /\ CallOK(q, during'[c]) /\ q.pc # "idle"
    BY DEF Call, NoCall, CallOK
  <2>2. Become(c, q)
    BY <1>2 DEF StartUser
  <2>3. QED BY <2>1, <2>2, CallMoves
<1>3. ASSUME NEW v \in Users, NEW s \in StoryIds, StartView(c, v, s)
      PROVE  calls' \in [Calls -> Call] /\ CallsOK'
  <2> DEFINE q == [NoCall EXCEPT !.op = "view", !.pc = "find", !.viewer = v, !.target = s]
  <2>1. q \in Call /\ CallOK(q, during'[c]) /\ q.pc # "idle"
    BY DEF Call, NoCall, CallOK
  <2>2. Become(c, q)
    BY <1>3 DEF StartView
  <2>3. QED BY <2>1, <2>2, CallMoves
<1>4. QED BY <1>1, <1>2, <1>3

\* A call in progress goes on, or is answered, with the stories `found', when
\* what it then remembers follows from its history.
LEMMA GotoMoves ==
  ASSUME ReadsInv, Observe, NEW c \in Calls, NEW found \in SUBSET StoryIds,
         NEW where \in {"find", "audience", "sign", "upsert", "answered"},
         calls[c].pc # "idle", Goto(c, where, found),
         CallOK([calls[c] EXCEPT !.pc = where, !.found = found], during'[c])
  PROVE  calls' \in [Calls -> Call] /\ CallsOK'
<1> DEFINE q == [calls[c] EXCEPT !.pc = where, !.found = found]
<1>1. q \in Call /\ q.pc # "idle"
  BY CallType DEF Call
<1>2. Become(c, q)
  BY DEF Goto
<1>3. QED BY <1>1, <1>2, CallMoves

\* An answer with no stories is always well formed.
LEMMA EmptyAnswerMoves ==
  ASSUME ReadsInv, Observe, NEW c \in Calls, calls[c].pc # "idle", Answer(c, {})
  PROVE  calls' \in [Calls -> Call] /\ CallsOK'
<1> DEFINE q == [calls[c] EXCEPT !.pc = "answered", !.found = {}]
<1>1. CallOK(q, during'[c])
  BY CallType DEF CallOK, Call
<1>2. QED BY <1>1, GotoMoves DEF Answer

\* The history of a call that goes on takes in what is shown and open now.
LEMMA GotoHistory ==
  ASSUME ReadsInv, Observe, NEW c \in Calls, NEW found \in SUBSET StoryIds,
         NEW where \in {"find", "audience", "sign", "upsert", "answered"},
         Goto(c, where, found)
  PROVE  /\ during'[c].shown = during[c].shown \cup Shown'
         /\ during'[c].open = during[c].open \cup Open(calls[c].viewer, audience')
<1>1. calls'[c].pc = where /\ calls'[c].viewer = calls[c].viewer
  BY CallType DEF Goto, Become, ReadsInv, ReadsTypeOK, Call
<1>2. QED BY <1>1, HistoryGrows

\* What the query of the feed finds is shown at that moment.
LEMMA FeedFindMoves ==
  ASSUME ReadsInv, Observe, NEW c \in Calls, FeedFind(c)
  PROVE  calls' \in [Calls -> Call] /\ CallsOK'
<1> DEFINE found == {s \in Shown : Owner[s] # calls[c].viewer}
<1>1. calls[c].pc # "idle" /\ found \in SUBSET StoryIds
  BY DEF FeedFind, Shown
<1>2. CASE found = {}
  <2>1. Answer(c, {})
    BY <1>2 DEF FeedFind
  <2>2. QED BY <1>1, <2>1, EmptyAnswerMoves
<1>3. CASE found # {}
  <2>1. Goto(c, "audience", found)
    BY <1>3 DEF FeedFind
  <2>2. Shown' = Shown
    BY DEF FeedFind, Shown
  <2>3. found \subseteq during'[c].shown
    BY <1>1, <2>1, <2>2, GotoHistory
  <2>4. CallOK([calls[c] EXCEPT !.pc = "audience", !.found = found], during'[c])
    BY <2>3, CallType DEF FeedFind, CallOK, Call
  <2>5. QED BY <1>1, <2>1, <2>4, GotoMoves
<1>4. QED BY <1>2, <1>3

\* Identity vouches only for owners that are open to the viewer as it answers.
LEMMA VouchedOpen ==
  ASSUME ReadsInv, Observe, NEW c \in Calls, UNCHANGED audience, NEW owners,
         NEW vouched \in AudienceAnswers(calls[c].viewer, owners),
         NEW found \in SUBSET StoryIds,
         NEW where \in {"find", "audience", "sign", "upsert", "answered"},
         Goto(c, where, found)
  PROVE  vouched \subseteq during'[c].open
<1>1. vouched \subseteq Open(calls[c].viewer, audience)
  BY DEF AudienceAnswers
<1>2. during'[c].open = during[c].open \cup Open(calls[c].viewer, audience')
  BY GotoHistory
<1>3. Open(calls[c].viewer, audience') = Open(calls[c].viewer, audience)
  BY DEF Open
<1>4. QED BY <1>1, <1>2, <1>3

\* The feed keeps the owners that were open when Identity answered.
LEMMA FeedFilterMoves ==
  ASSUME ReadsInv, Observe, NEW c \in Calls, FeedFilter(c)
  PROVE  calls' \in [Calls -> Call] /\ CallsOK'
<1> DEFINE owners == {Owner[s] : s \in calls[c].found}
<1>1. PICK vouched \in AudienceAnswers(calls[c].viewer, owners) :
          Goto(c, "sign", {s \in calls[c].found :
              IsStoryOwnerVisibleToViewer(Owner[s], calls[c].viewer, vouched)})
  BY DEF FeedFilter
<1> DEFINE found == {s \in calls[c].found :
               IsStoryOwnerVisibleToViewer(Owner[s], calls[c].viewer, vouched)}
<1>2. calls[c].pc # "idle" /\ found \in SUBSET StoryIds
  BY CallType DEF FeedFilter, Call
<1>3. UNCHANGED audience
  BY DEF FeedFilter
<1> HIDE DEF owners
<1>4. vouched \subseteq during'[c].open
  BY <1>1, <1>2, <1>3, VouchedOpen
<1>5. found \subseteq during'[c].shown
  BY <1>1, <1>2, GotoHistory, CallType DEF CallOK
<1>6. \A s \in found : Owner[s] \in during'[c].open \cup {calls[c].viewer}
  BY <1>4 DEF IsStoryOwnerVisibleToViewer
<1> HIDE DEF found
<1>7. CallOK([calls[c] EXCEPT !.pc = "sign", !.found = found], during'[c])
  BY <1>2, <1>5, <1>6, CallType DEF FeedFilter, CallOK, Call
<1>8. QED BY <1>1, <1>2, <1>7, GotoMoves DEF found

\* A user's list goes on only when the owner is the viewer or was open.
LEMMA UserAccessMoves ==
  ASSUME ReadsInv, Observe, NEW c \in Calls, UserAccess(c)
  PROVE  calls' \in [Calls -> Call] /\ CallsOK'
<1>1. PICK vouched \in AudienceAnswers(calls[c].viewer, {calls[c].target}) :
          IF IsStoryOwnerVisibleToViewer(calls[c].target, calls[c].viewer, vouched)
          THEN Goto(c, "find", {}) ELSE Answer(c, {})
  BY DEF UserAccess
<1>2. calls[c].pc # "idle" /\ UNCHANGED audience /\ calls[c].op = "user"
  BY DEF UserAccess
<1>3. CASE IsStoryOwnerVisibleToViewer(calls[c].target, calls[c].viewer, vouched)
  <2>1. Goto(c, "find", {})
    BY <1>1, <1>3
  <2>2. calls[c].target \in during'[c].open \cup {calls[c].viewer}
    BY <1>2, <1>3, <2>1, VouchedOpen DEF IsStoryOwnerVisibleToViewer
  <2>3. CallOK([calls[c] EXCEPT !.pc = "find", !.found = {}], during'[c])
    BY <1>2, <2>2, CallType DEF CallOK, Call
  <2>4. QED BY <1>2, <2>1, <2>3, GotoMoves
<1>4. CASE ~IsStoryOwnerVisibleToViewer(calls[c].target, calls[c].viewer, vouched)
  BY <1>1, <1>2, <1>4, EmptyAnswerMoves
<1>5. QED BY <1>3, <1>4

\* It lists the stories of an owner whose access has been settled.
LEMMA UserFindMoves ==
  ASSUME ReadsInv, Observe, NEW c \in Calls, UserFind(c)
  PROVE  calls' \in [Calls -> Call] /\ CallsOK'
<1> DEFINE found == {s \in Shown : Owner[s] = calls[c].target}
<1>1. calls[c].pc = "find" /\ calls[c].op = "user" /\ found \in SUBSET StoryIds
  BY DEF UserFind, Shown
<1>2. Goto(c, "sign", found) /\ Shown' = Shown
  BY DEF UserFind, Shown
<1>3. /\ found \subseteq during'[c].shown
      /\ during[c].open \subseteq during'[c].open
  BY <1>1, <1>2, GotoHistory
<1>4. calls[c].target \in during[c].open \cup {calls[c].viewer}
  BY <1>1, CallType DEF CallOK
<1>5. \A s \in found : Owner[s] \in during'[c].open \cup {calls[c].viewer}
  BY <1>3, <1>4
<1> HIDE DEF found
<1>6. CallOK([calls[c] EXCEPT !.pc = "sign", !.found = found], during'[c])
  BY <1>1, <1>3, <1>5, CallType DEF CallOK, Call
<1>7. QED BY <1>1, <1>2, <1>6, GotoMoves

\* Signing changes nothing of what was found.
LEMMA SignAllMoves ==
  ASSUME ReadsInv, Observe, NEW c \in Calls, SignAll(c)
  PROVE  calls' \in [Calls -> Call] /\ CallsOK'
<1>1. calls[c].pc = "sign" /\ calls[c].found \in SUBSET StoryIds
  BY CallType DEF SignAll, Call
<1>2. Goto(c, "answered", calls[c].found)
  BY DEF SignAll, Answer
<1>3. /\ during[c].shown \subseteq during'[c].shown
      /\ during[c].open \subseteq during'[c].open
  BY <1>1, <1>2, GotoHistory
<1>4. CallOK([calls[c] EXCEPT !.pc = "answered", !.found = calls[c].found], during'[c])
  BY <1>1, <1>3, CallType DEF CallOK, Call
<1>5. QED BY <1>1, <1>2, <1>4, GotoMoves

\* A view goes on for a story that is shown and is somebody else's.
LEMMA ViewFindMoves ==
  ASSUME ReadsInv, Observe, NEW c \in Calls, ViewFind(c)
  PROVE  calls' \in [Calls -> Call] /\ CallsOK'
<1>1. calls[c].pc = "find" /\ calls[c].op = "view" /\ Shown' = Shown
  BY DEF ViewFind, Shown
<1>2. CASE calls[c].target \in Shown /\ Owner[calls[c].target] # calls[c].viewer
  <2>1. Goto(c, "audience", {})
    BY <1>2 DEF ViewFind
  <2>2. calls[c].target \in during'[c].shown
    BY <1>1, <1>2, <2>1, GotoHistory
  <2>3. CallOK([calls[c] EXCEPT !.pc = "audience", !.found = {}], during'[c])
    BY <1>1, <1>2, <2>2, CallType DEF CallOK, Call
  <2>4. QED BY <1>1, <2>1, <2>3, GotoMoves
<1>3. CASE ~(calls[c].target \in Shown /\ Owner[calls[c].target] # calls[c].viewer)
  <2>1. Answer(c, {})
    BY <1>3 DEF ViewFind
  <2>2. QED BY <1>1, <2>1, EmptyAnswerMoves
<1>4. QED BY <1>2, <1>3

\* It is recorded only once the owner was open to the viewer.
LEMMA ViewAccessMoves ==
  ASSUME ReadsInv, Observe, NEW c \in Calls, ViewAccess(c)
  PROVE  calls' \in [Calls -> Call] /\ CallsOK'
<1> DEFINE owner == Owner[calls[c].target]
<1>1. PICK vouched \in AudienceAnswers(calls[c].viewer, {owner}) :
          IF IsStoryOwnerVisibleToViewer(owner, calls[c].viewer, vouched)
          THEN Goto(c, "upsert", {}) ELSE Answer(c, {})
  BY DEF ViewAccess
<1>2. /\ calls[c].pc = "audience" /\ calls[c].op = "view" /\ UNCHANGED audience
      /\ owner # calls[c].viewer /\ calls[c].target \in during[c].shown
  BY CallType DEF ViewAccess, CallOK
<1>3. CASE IsStoryOwnerVisibleToViewer(owner, calls[c].viewer, vouched)
  <2>1. Goto(c, "upsert", {})
    BY <1>1, <1>3
  <2>2. owner \in vouched
    BY <1>2, <1>3 DEF IsStoryOwnerVisibleToViewer
  <2>3. owner \in during'[c].open /\ calls[c].target \in during'[c].shown
    BY <1>2, <2>1, <2>2, VouchedOpen, GotoHistory
  <2>4. CallOK([calls[c] EXCEPT !.pc = "upsert", !.found = {}], during'[c])
    BY <1>2, <2>3, CallType DEF CallOK, Call
  <2>5. QED BY <1>2, <2>1, <2>4, GotoMoves
<1>4. CASE ~IsStoryOwnerVisibleToViewer(owner, calls[c].viewer, vouched)
  BY <1>1, <1>2, <1>4, EmptyAnswerMoves
<1>5. QED BY <1>3, <1>4

\* Every step of a call leaves all calls well formed.
LEMMA CallStepMoves ==
  ASSUME ReadsInv, Observe, NEW c \in Calls, CallStep(c)
  PROVE  calls' \in [Calls -> Call] /\ CallsOK'
<1>1. CASE ViewUpsert(c)
  BY <1>1, EmptyAnswerMoves DEF ViewUpsert
<1>2. CASE Finish(c)
  BY <1>2, NoCallOK, CallMoves DEF Finish
<1>3. QED
  BY <1>1, <1>2, StartMoves, FeedFindMoves, FeedFilterMoves, UserAccessMoves, UserFindMoves,
     SignAllMoves, ViewFindMoves, ViewAccessMoves DEF CallStep

-----------------------------------------------------------------------------
(* The invariant and the two properties.                                   *)

\* The lifecycle keeps its types.
LEMMA LifecycleType ==
  ASSUME phase \in [StoryIds -> Phases], verdict \in [StoryIds -> Verdicts], Next
  PROVE  phase' \in [StoryIds -> Phases] /\ verdict' \in [StoryIds -> Verdicts]
<1>1. ASSUME NEW s \in StoryIds, Publish(s)
      PROVE  phase' \in [StoryIds -> Phases] /\ verdict' \in [StoryIds -> Verdicts]
  BY <1>1 DEF Publish, Phases
<1>2. ASSUME NEW s \in StoryIds, NEW v \in Verdicts, Judge(s, v)
      PROVE  phase' \in [StoryIds -> Phases] /\ verdict' \in [StoryIds -> Verdicts]
  <2>1. Outcomes(phase[s], v) \subseteq Phases
    BY DEF Outcomes, Phases, Verdicts
  <2>2. QED BY <1>2, <2>1 DEF Judge
<1>3. ASSUME NEW S \in SUBSET StoryIds, Retire(S) \/ End(S)
      PROVE  phase' \in [StoryIds -> Phases] /\ verdict' \in [StoryIds -> Verdicts]
  BY <1>3 DEF Retire, End, Phases
<1>4. QED BY <1>1, <1>2, <1>3 DEF Next

\* A view is recorded only by the upsert of a call, for its story and its viewer.
LEMMA ViewsGrow ==
  ASSUME ReadsInv, ReadsNext
  PROVE  \A w \in views' \ views : \E c \in Calls :
             calls[c].pc = "upsert" /\ w = <<calls[c].target, calls[c].viewer>>
<1>1. ASSUME NEW c \in Calls, CallStep(c), views' # views PROVE ViewUpsert(c)
  BY <1>1 DEF CallStep, StartFeed, StartUser, StartView, FeedFind, FeedFilter, UserAccess,
     UserFind, SignAll, ViewFind, ViewAccess, Finish
<1>2. views' # views => \E c \in Calls : ViewUpsert(c)
  BY <1>1 DEF ReadsNext, AudienceChanges, StoriesChange
<1>3. QED BY <1>2 DEF ViewUpsert

\* Every step keeps the invariant.
LEMMA NextReadsInv == ReadsInv /\ [ReadsNext]_readVars => ReadsInv'
<1> SUFFICES ASSUME ReadsInv, [ReadsNext]_readVars PROVE ReadsInv'
    OBVIOUS
<1>1. CASE UNCHANGED readVars
  BY <1>1 DEF readVars, ReadsInv, ReadsTypeOK, CallsOK
<1>2. CASE ReadsNext
  <2>1. Observe
    BY <1>2 DEF ReadsNext
  <2>2. calls' \in [Calls -> Call] /\ CallsOK'
    <3>1. CASE UNCHANGED calls
      BY <2>1, <3>1, CallStays DEF ReadsInv, ReadsTypeOK, CallsOK
    <3>2. CASE \E c \in Calls : CallStep(c)
      BY <2>1, <3>2, CallStepMoves
    <3>3. QED
      BY <1>2, <3>1, <3>2 DEF ReadsNext, AudienceChanges, StoriesChange
  <2>3. \/ UNCHANGED <<phase, verdict>>
        \/ Next
    BY <1>2 DEF ReadsNext, CallStep, StartFeed, StartUser, StartView, FeedFind, FeedFilter,
       UserAccess, UserFind, SignAll, ViewFind, ViewAccess, ViewUpsert, Finish,
       AudienceChanges, StoriesChange
  <2>4. phase' \in [StoryIds -> Phases] /\ verdict' \in [StoryIds -> Verdicts]
    BY <2>3, LifecycleType DEF ReadsInv, ReadsTypeOK
  <2>5. \/ UNCHANGED audience
        \/ \E v, u \in Users : AudienceChanges(v, u)
    BY <1>2 DEF ReadsNext, CallStep, StartFeed, StartUser, StartView, FeedFind, FeedFilter,
       UserAccess, UserFind, SignAll, ViewFind, ViewAccess, ViewUpsert, Finish, StoriesChange
  <2>6. audience' \subseteq Users \X Users
    <3>1. audience \subseteq Users \X Users
      BY DEF ReadsInv, ReadsTypeOK
    <3>2. ASSUME NEW v \in Users, NEW u \in Users, AudienceChanges(v, u)
          PROVE  audience' \subseteq Users \X Users
      <4>1. <<v, u>> \in Users \X Users
        OBVIOUS
      <4>2. audience' = audience \ {<<v, u>>} \/ audience' = audience \cup {<<v, u>>}
        BY <3>2 DEF AudienceChanges
      <4>3. QED BY <3>1, <4>1, <4>2
    <3>3. QED BY <2>5, <3>1, <3>2
  <2>7. ASSUME NEW c \in Calls, calls[c].pc = "upsert"
        PROVE  <<calls[c].target, calls[c].viewer>> \in StoryIds \X Users
    BY <2>7, CallType DEF CallOK
  <2>8. views' \subseteq StoryIds \X Users
    BY <1>2, <2>7, ViewsGrow DEF ReadsInv, ReadsTypeOK
  <2>9. QED
    BY <2>1, <2>2, <2>4, <2>6, <2>8, HistoryType DEF ReadsInv, ReadsTypeOK
<1>3. QED BY <1>1, <1>2

\* Every call in progress, with its history, stays well formed.
THEOREM ReadsInvariance == ReadsSpec => []ReadsInv
<1>1. QED BY InitReadsInv, NextReadsInv, PTL DEF ReadsSpec

\* The read side keeps its types.
THEOREM ReadsTypeCorrect == ReadsSpec => []ReadsTypeOK
<1>1. ReadsInv => ReadsTypeOK
  BY DEF ReadsInv
<1>2. QED BY <1>1, ReadsInvariance, PTL

\* A list serves a story only when, during the call, it was shown and its owner
\* was open to the viewer, however queries, Identity's answers and changes of
\* stories and follows interleave.
THEOREM ServedIsWithinCall == ReadsSpec => []ServedWithinCall
<1>1. ReadsInv => ServedWithinCall
  <2> SUFFICES ASSUME ReadsInv, NEW c \in Calls, calls[c].pc = "answered",
                      NEW s \in calls[c].found
               PROVE  s \in during[c].shown /\ Owner[s] \in during[c].open \cup {calls[c].viewer}
      BY DEF ServedWithinCall
  <2>1. QED BY CallType DEF CallOK
<1>2. QED BY <1>1, ReadsInvariance, PTL

\* A view is recorded only for somebody else's story, shown and open to the viewer
\* while the call was in progress.
THEOREM ViewsAreFromAudience == ReadsSpec => ViewsFromAudience
<1> DEFINE A == \A w \in views' \ views :
                   /\ Owner[w[1]] # w[2]
                   /\ \E c \in Calls : /\ calls[c].viewer = w[2]
                                       /\ w[1] \in during[c].shown
                                       /\ Owner[w[1]] \in during[c].open
<1>1. ReadsInv /\ [ReadsNext]_readVars => [A]_readVars
  <2> SUFFICES ASSUME ReadsInv, ReadsNext PROVE A
      OBVIOUS
  <2> SUFFICES ASSUME NEW w \in views' \ views
               PROVE  /\ Owner[w[1]] # w[2]
                      /\ \E c \in Calls : /\ calls[c].viewer = w[2]
                                          /\ w[1] \in during[c].shown
                                          /\ Owner[w[1]] \in during[c].open
      OBVIOUS
  <2>1. PICK c \in Calls : calls[c].pc = "upsert" /\ w = <<calls[c].target, calls[c].viewer>>
    BY ViewsGrow
  <2>2. w[1] = calls[c].target /\ w[2] = calls[c].viewer
    BY <2>1
  <2>3. /\ calls[c].target \in during[c].shown /\ Owner[calls[c].target] # calls[c].viewer
        /\ Owner[calls[c].target] \in during[c].open
    BY <2>1, CallType DEF CallOK
  <2>4. QED BY <2>2, <2>3
<1>2. QED BY <1>1, ReadsInvariance, PTL DEF ReadsSpec, ViewsFromAudience
=============================================================================
