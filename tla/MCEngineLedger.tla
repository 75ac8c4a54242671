--------------------------- MODULE MCEngineLedger ---------------------------
(* A small instance of the engine, its ledger and the evidence rebuilt     *)
(* from its fills: the bars of MCEngine.                                   *)
EXTENDS LedgerEvidence, MCEngine
=============================================================================
