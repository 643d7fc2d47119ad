---------------------------- MODULE MCDiskMetric ----------------------------
(***************************************************************************)
(* An empty and a full volume that fills or empties once, a window that    *)
(* holds a measurement, a scrape and a step at their latest, and a run     *)
(* long enough for a value to be too old for the row.                      *)
(***************************************************************************)
EXTENDS DiskMetric

=============================================================================
