--------------------------- MODULE MCCatalogSync ---------------------------
(* A small instance of CatalogSync for TLC. *)
EXTENDS CatalogSync, TLC

CONSTANTS u1, k1

OneUpload == k1 :> u1
=============================================================================
