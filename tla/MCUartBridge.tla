----------------------------- MODULE MCUartBridge -----------------------------
(* Replies of the protocol as values for TLC. *)
EXTENDS UartBridgeProof
LOCAL INSTANCE SequencesExt

RunDone == <<170, 170, 6, 161, 0, 94>>
Status == <<170, 170, 9, 164, 2, 5, 0, 3, 81>>
BadChecksum == <<170, 170, 5, 166, 89>>

SomeReplies == {RunDone, Status, BadChecksum}

-----------------------------------------------------------------------------
(* Every reply my_uart3_tx_to_BLE can pack.                                *)
Sum(s) == FoldLeft(+, 0, s) % 256
Packed(payload) == <<Header, Header, Len(payload) + 4>> \o payload \o <<255 - Sum(payload)>>
Acks == {Packed(<<id, ret>>) : id \in {161, 162}, ret \in 0..1}
          \cup {Packed(<<165, 0>>), Packed(<<166>>)}
Statuses == {Packed(<<164, direction, speed, turn, level>>) :
               direction \in 0..2, speed \in 0..5, turn \in 0..2, level \in 0..3}
EveryReply == Acks \cup Statuses

CellSums == [r \in EveryReply |-> [k \in 3..Len(r) |-> Sum(SubSeq(r, 4, k))]]
ByteSums == [r \in EveryReply |-> [k \in 0..Len(r) |-> Sum(SubSeq(r, 1, k))]]

(* What a cut reply other than a status leaves for the frame, and what is  *)
(* left of that after one and two more replies: at most 3 cells.           *)
Left0 == UNION {{<<Len(r) - k, CellSums[r][k]>> : k \in 3..(Len(r) - 1)} :
                  r \in {q \in EveryReply : Len(q) # StatusLength}}
LeftAfter(X) == X \cup UNION {UNION {{<<e[1] - k, (e[2] + ByteSums[r][k]) % 256>> :
                                        k \in 1..(e[1] - 1)} : r \in EveryReply} : e \in X}
Left2 == LeftAfter(LeftAfter(Left0))

(* The hypotheses of the theorems hold of all replies of the code.         *)
ASSUME SomeAreReplies == SomeReplies \subseteq EveryReply
ASSUME EveryReplyWellFormed == \A r \in EveryReply : WellFormed(r, CellSums[r])
ASSUME EveryMixtureRefused == MixturesRefused(EveryReply, CellSums, ByteSums, Left2)
=============================================================================
