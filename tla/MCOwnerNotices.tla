--------------------------- MODULE MCOwnerNotices ---------------------------
(* Instances of OwnerNotices; see the configurations. *)
EXTENDS OwnerNotices, TLC
CONSTANTS u1, k1

OneUpload == k1 :> u1

\* Everything, as listAdminStories has it without a status.
WithoutStatus == {AnyStatus}
=============================================================================
