--------------------------- MODULE StoryLifecycle ---------------------------
(***************************************************************************)
(* What the service promises of a story, whatever handlers, sweeps and     *)
(* moderation runs it is written by: it is shown when it is published; a   *)
(* rejection hides it; once hidden only an approval shows it again; and    *)
(* when it has ended, by removal or by its 24 hours, nothing brings it     *)
(* back.  Stories.tla is shown to implement this.                          *)
(***************************************************************************)
CONSTANT StoryIds

VARIABLES
    phase,   \* "absent", "shown", "hidden" or "ended"
    verdict  \* "pending", "approved" or "rejected"

vars == <<phase, verdict>>

Phases == {"absent", "shown", "hidden", "ended"}
Verdicts == {"pending", "approved", "rejected"}

Init ==
    /\ phase = [s \in StoryIds |-> "absent"]
    /\ verdict = [s \in StoryIds |-> "pending"]

Publish(s) ==
    /\ phase[s] = "absent"
    /\ phase' = [phase EXCEPT ![s] = "shown"]
    /\ UNCHANGED verdict

\* What a verdict v may make of a story in phase p.
Outcomes(p, v) ==
    IF p = "ended" THEN {"ended"}
    ELSE CASE v = "approved" -> {"shown", "hidden"}
           [] v = "pending"  -> {p, "hidden"}
           [] v = "rejected" -> {"hidden"}

\* Moderation or an admin decides.
Judge(s, v) ==
    /\ phase[s] # "absent"
    /\ \E p \in Outcomes(phase[s], v) :
           phase' = [phase EXCEPT ![s] = p]
    /\ verdict' = [verdict EXCEPT ![s] = v]

\* The sweep takes stories out of sight.
Retire(S) ==
    /\ phase' = [s \in StoryIds |-> IF s \in S /\ phase[s] = "shown" THEN "hidden" ELSE phase[s]]
    /\ UNCHANGED verdict

\* Stories are removed, or their time is over.
End(S) ==
    /\ \A s \in S : phase[s] # "absent"
    /\ phase' = [s \in StoryIds |-> IF s \in S THEN "ended" ELSE phase[s]]
    /\ UNCHANGED verdict

Next ==
    \/ \E s \in StoryIds : Publish(s) \/ \E v \in Verdicts : Judge(s, v)
    \/ \E S \in SUBSET StoryIds : Retire(S) \/ End(S)

Spec == Init /\ [][Next]_vars
=============================================================================
