---------------------------- MODULE MCResearchRun ----------------------------
(* One symbol and every set of gates it may fail, in every setting.         *)
EXTENDS ResearchRun

MCOneSymbol == <<"AAPL">>
MCAnyOutlook == SUBSET Range(AllGates)
==============================================================================
