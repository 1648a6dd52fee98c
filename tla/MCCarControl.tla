---------------------------- MODULE MCCarControl ----------------------------
(* The tables and boards of the code as values for TLC. *)
EXTENDS CarControlProof

CodeDuty == <<1000, 750, 500, 300, 100>>
CodeInner == <<700, 400, 200>>
AllIds == {"A1", "A2", "A3", "A4", "A5", "other"}
NoWheels == {}
RearLeft == {1}
MiddleWheel == {2}

(* The tables meet the hypotheses of the ramps' theorems.                  *)
ASSUME CodeTables == StopTables /\ SoftTables(1000)
=============================================================================
