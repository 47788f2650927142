----------------------------- MODULE MCStories -----------------------------
(* Small instances of Stories for TLC. *)
EXTENDS Stories, TLC

CONSTANTS u1, u2, k1

\* One upload, of u1; u2 is the other user who may try to confirm or remove it.
OneUpload == k1 :> u1

\* Requests and row ids are interchangeable.
Symmetry == Permutations(Requests) \cup Permutations(StoryIds)
=============================================================================
