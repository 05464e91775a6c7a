----------------------------- MODULE MCExporter -----------------------------
(***************************************************************************)
(* An instance of Exporter for TLC.  The names are chosen to meet: "A_01", *)
(* the second candidate of "A", and "a_01" differ in case only.            *)
(***************************************************************************)
EXTENDS Exporter

MCBase == {"A", "a_01"}

MCCandidate == [b \in MCBase |->
    IF b = "A" THEN <<"A", "A_01">> ELSE <<"a_01", "a_01_01">>]

MCFold == [t \in {"A", "A_01", "a_01", "a_01_01"} |->
    CASE t = "A" -> "a"
      [] t = "A_01" -> "a_01"
      [] OTHER -> t]

MCQueueSize == {1, 2}
=============================================================================
