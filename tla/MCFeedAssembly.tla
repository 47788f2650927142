--------------------------- MODULE MCFeedAssembly ---------------------------
(* Three owners, of whom one has two stories. *)
EXTENDS FeedAssembly

CONSTANTS u1, u2, u3, s1, s2, s3, s4

FourStories == s1 :> u1 @@ s2 :> u1 @@ s3 :> u2 @@ s4 :> u3
=============================================================================
