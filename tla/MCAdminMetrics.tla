--------------------------- MODULE MCAdminMetrics ---------------------------
(* A small instance of AdminMetrics for TLC. *)
EXTENDS AdminMetrics

\* The clock starts at 1 and ends at 3: both are over in the end.
EarlyPeriods == {<<1, 1>>, <<1, 2>>}
=============================================================================
