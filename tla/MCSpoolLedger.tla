---------------------------- MODULE MCSpoolLedger ---------------------------
(***************************************************************************)
(* SpoolLedger on small instances.  The constants are given by each .cfg.  *)
(***************************************************************************)
EXTENDS SpoolLedger
=============================================================================
