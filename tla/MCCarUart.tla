------------------------------ MODULE MCCarUart ------------------------------
(* Frames of the protocol as values for TLC. *)
EXTENDS CarUartProof

Forward == <<170, 170, 7, 161, 1, 1, 92>>
Backward == <<170, 170, 7, 161, 2, 5, 87>>
TurnLeft == <<170, 170, 6, 163, 3, 89>>
Query == <<170, 170, 5, 164, 91>>
Stop == <<170, 170, 5, 165, 90>>
Damaged == <<170, 170, 5, 165, 91>>
Blip == <<0, 0>>

AllFrames == {Forward, Backward, TurnLeft, Query, Stop, Damaged}
BurstFrames == {Forward, Stop}
BothBoards == {FALSE, TRUE}
F103 == {FALSE}

(* The frames meet the hypotheses of the theorems about a module that      *)
(* waits for its answers.                                                  *)
ASSUME FramesProper == \A f \in AllFrames : Proper(f) /\ Len(f) < MaxSize
=============================================================================
