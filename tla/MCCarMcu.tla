------------------------------ MODULE MCCarMcu ------------------------------
(* Frames and small tables for TLC; ramps of two iterations. *)
EXTENDS CarMcu, MCCarUart

CarFrames == {TurnLeft, Stop, Blip}
FrameBytes == {0} \cup UNION {{f[i] : i \in DOMAIN f} : f \in Frames}
ShortDuty == <<6, 5, 4, 3, 2>>
ShortInner == <<4, 3, 2>>
NoWheels == {}
RearLeft == {1}
AllIds == {"A1", "A2", "A3", "A4", "A5", "other"}
=============================================================================
