--------------------------- MODULE MCScanPipeline ----------------------------
(* A small instance of ScanPipeline: carving has two units, the rest one. *)
EXTENDS ScanPipeline

MCUnits == [s \in STAGES |-> IF s = "carving" THEN 2 ELSE 1]
MCSlots == STAGES
=============================================================================
