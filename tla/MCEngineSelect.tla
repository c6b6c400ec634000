--------------------------- MODULE MCEngineSelect ---------------------------
(* Instances of EngineSelect for TLC: two descriptors with one between them *)
(* that is never registered.                                               *)
EXTENDS EngineSelect

MCInterests == {<<1, {"Wr"}>>, <<3, {"Rd"}>>, <<3, {"Rd", "Wr"}>>}
MCArrivals == {<<"Wr", 1>>, <<"Rd", 3>>}
=============================================================================
