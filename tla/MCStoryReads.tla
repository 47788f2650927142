---------------------------- MODULE MCStoryReads ----------------------------
(* Two stories of two users who may or may not see each other's. *)
EXTENDS StoryReads, TLC

CONSTANTS u1, u2, s1, s2

OneStoryEach == s1 :> u1 @@ s2 :> u2
=============================================================================
