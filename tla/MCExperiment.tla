---------------------------- MODULE MCExperiment ----------------------------
(***************************************************************************)
(* A batch of a log experiment, a metrics experiment and an entry that     *)
(* does not pass validation, tried by up to two processes.                 *)
(***************************************************************************)
EXTENDS Experiment

CONSTANTS prometheus, loki

MCInstruments == {prometheus, loki}
MCLogBackends == {loki}
MCEntry == <<loki, prometheus, loki>>
MCValidEntries == {1, 2}

=============================================================================
