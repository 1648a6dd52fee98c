---------------------------- MODULE UartBridgeProof ----------------------------
(***************************************************************************)
(* Proofs about the parser of the BLE module, for every set of replies and *)
(* however many of them are cut short: it stays inside its array, takes    *)
(* for a length only what is one or a header byte, and finds the next      *)
(* header before the app has missed more than 36 replies.                  *)
(***************************************************************************)
EXTENDS UartBridge, TLAPS

LEMMA HeadTail ==
  ASSUME NEW s \in Seq(Byte), s # <<>>
  PROVE  Head(s) \in Byte /\ Tail(s) \in Seq(Byte)
  OBVIOUS

LEMMA InitBridge == Init => TypeOK
  BY BridgeAssumption DEF Init, TypeOK, IndexInFrame, Byte, Nothing

LEMMA StartReplyBridge ==
  ASSUME TypeOK, NEW r \in Replies, StartReply(r)
  PROVE  TypeOK'
<1>1. r \in Seq(Byte)
  BY BridgeAssumption
<1> QED
  BY <1>1 DEF StartReply, TypeOK, IndexInFrame, mcu, parser

LEMMA CutReplyBridge ==
  ASSUME TypeOK, CutReply
  PROVE  TypeOK'
  BY BridgeAssumption DEF CutReply, TypeOK, IndexInFrame, parser

(* The header and the length: index and flag advance together.             *)
LEMMA HeaderBridge ==
  ASSUME TypeOK, NEW b \in Byte, FirstHeader(b) \/ SecondHeader(b) \/ LengthByte(b)
  PROVE  /\ rece_flag' \in 0..3 /\ rece_len' \in Byte /\ index' \in 0..254 /\ sum' \in Byte
         /\ IndexInFrame'
<1>1. rece_flag < 3 /\ index = rece_flag /\ rece_flag \in 0..3 /\ rece_len \in Byte /\ sum \in Byte
  BY DEF TypeOK, IndexInFrame, FirstHeader, SecondHeader, LengthByte
<1>2. CASE FirstHeader(b)
  BY <1>1, <1>2 DEF FirstHeader, Restart, IndexInFrame
<1>3. CASE SecondHeader(b)
  BY <1>1, <1>3 DEF SecondHeader, Restart, IndexInFrame
<1>4. CASE LengthByte(b)
  BY <1>1, <1>4 DEF LengthByte, IndexInFrame, Byte
<1> QED
  BY <1>2, <1>3, <1>4

(* The rest of a frame: the index stays below a length of at most 255.     *)
LEMMA FrameByteBridge ==
  ASSUME TypeOK, NEW b \in Byte, FrameByte(b)
  PROVE  /\ rece_flag' \in 0..3 /\ rece_len' \in Byte /\ index' \in 0..254 /\ sum' \in Byte
         /\ app' \in Replies \cup {Nothing} \cup [1..1 -> Byte]
         /\ IndexInFrame'
<1>1. rece_flag = 3 /\ index \in 0..254 /\ rece_len \in Byte /\ sum \in Byte
      /\ reply \in Replies \cup {Nothing}
  BY DEF TypeOK, FrameByte
<1> DEFINE total == (sum + b) % 256
<1>2. total \in Byte
  BY <1>1 DEF Byte
<1>3. CASE ~LastByte(rece_len) /\ index' = index + 1 /\ sum' = total /\ app' = Nothing
           /\ UNCHANGED <<rece_flag, rece_len>>
  <2>1. rece_len > index + 1
    BY <1>3 DEF LastByte
  <2>2. index' \in 0..254 /\ index' < rece_len' /\ rece_flag' = 3
    BY <1>1, <1>3, <2>1 DEF Byte
  <2> QED
    BY <1>1, <1>2, <1>3, <2>2 DEF IndexInFrame
<1>4. CASE LastByte(rece_len) /\ FrameDone /\ sum' = 0
           /\ app' = IF ~FrameChecked(total) THEN Nothing
                     ELSE IF InPlace /\ rece_len = Len(reply) THEN reply ELSE <<rece_len>>
  <2>1. rece_flag' = 0 /\ index' = 0 /\ rece_len' = 0 /\ sum' = 0
    BY <1>4 DEF FrameDone, Restart
  <2>2. <<rece_len>> \in [1..1 -> Byte]
    BY <1>1
  <2>3. app' \in Replies \cup {Nothing} \cup [1..1 -> Byte]
    BY <1>1, <1>4, <2>2
  <2> QED
    BY <2>1, <2>3 DEF IndexInFrame, Byte
<1> QED
  BY <1>3, <1>4 DEF FrameByte

LEMMA ReceiveByteBridge ==
  ASSUME TypeOK, ReceiveByte
  PROVE  TypeOK'
<1>1. Head(wire) \in Byte /\ wire' \in Seq(Byte)
  BY HeadTail DEF ReceiveByte, TypeOK
<1>2. /\ reply' \in Replies \cup {Nothing} /\ cuts' \in 0..MaxCuts
      /\ missed' \in Nat
  BY DEF ReceiveByte, TypeOK
<1>3. whole' \in BOOLEAN
  BY Zenon DEF ReceiveByte, InPlace
<1>4. CASE (FirstHeader(Head(wire)) \/ SecondHeader(Head(wire)) \/ LengthByte(Head(wire)))
           /\ app' = Nothing
  BY <1>1, <1>2, <1>3, <1>4, HeaderBridge DEF TypeOK
<1>5. CASE FrameByte(Head(wire))
  BY <1>1, <1>2, <1>3, <1>5, FrameByteBridge DEF TypeOK
<1> QED
  BY <1>4, <1>5 DEF ReceiveByte

LEMMA NextBridge == TypeOK /\ [Next]_vars => TypeOK'
<1> SUFFICES ASSUME TypeOK, [Next]_vars PROVE TypeOK'
  OBVIOUS
<1>1. CASE UNCHANGED vars
  BY <1>1 DEF vars, mcu, parser, TypeOK, IndexInFrame
<1> QED
  BY <1>1, StartReplyBridge, CutReplyBridge, ReceiveByteBridge DEF Next

(* Whatever the MCU sends and wherever it is cut off, the parser's uint8   *)
(* index does not wrap, and every byte is written inside data_array.       *)
THEOREM BridgeTypeCorrect == Spec => []TypeOK
  BY InitBridge, NextBridge, PTL DEF Spec

-----------------------------------------------------------------------------
(* What cut replies cost.  Outside its header a reply has no byte of 0xAA, *)
(* and its checksum is right; the running sums of its cells are given, so  *)
(* that this can be said without a recursive definition.                   *)

WellFormed(r, s) ==
  /\ r[1] = Header /\ r[2] = Header /\ r[3] = Len(r) /\ Len(r) < Header
  /\ \A i \in 3..Len(r) : r[i] # Header
  /\ s[3] = 0 /\ s[Len(r)] = 255
  /\ \A i \in 4..Len(r) : s[i] = (s[i - 1] + r[i]) % 256

Sums(S) == \A r \in Replies : WellFormed(r, S[r])

(* Bytes of the reply that have arrived, and the parser reading it from    *)
(* its first byte on.                                                      *)
Got == Len(reply) - Len(wire)
InSync == InPlace

(* The wire carries the rest of a reply; of a frame, three bytes are read. *)
WireInv ==
  /\ Len(wire) <= Len(reply)
  /\ wire # <<>> => reply \in Replies
  /\ \A i \in 1..Len(wire) : wire[i] = reply[Got + i]
  /\ rece_flag \in {1, 2} /\ wire # <<>> => Got <= 2
  /\ rece_flag = 3 => index >= 3

(* Between two replies: a header half read can only be that of a cut one,  *)
(* and all of the replies missed lie in the frame the parser is filling.   *)
GapInv ==
  wire = <<>> =>
    /\ rece_flag = 0 => missed <= 34
    /\ rece_flag \in {1, 2} => missed = 0
    /\ rece_flag = 3 => 5 * missed <= index

(* In a reply that is read from its first byte on: it will end the count.  *)
SyncInv(S) ==
  wire # <<>> /\ InSync =>
    /\ missed <= 35
    /\ rece_flag = 3 => rece_len = Len(reply) /\ sum = S[reply][index]

(* In any other: the parser is filling a frame with it, or looking for the *)
(* next header, of which this reply has at most one byte left.             *)
LostInv ==
  wire # <<>> /\ ~InSync =>
    /\ rece_flag = 0 => Got >= 1 /\ missed <= 34
    /\ rece_flag = 1 => (Got = 0 /\ missed <= 1) \/ (Got = 2 /\ missed <= 34)
    /\ rece_flag = 2 => Got <= 1 /\ missed <= 1
    /\ rece_flag = 3 => 5 * missed + Got <= index + 5

LossInv(S) == TypeOK /\ LengthSane /\ WireInv /\ GapInv /\ SyncInv(S) /\ LostInv

LEMMA InitLoss ==
  ASSUME NEW S
  PROVE  Init => LossInv(S)
<1> SUFFICES ASSUME Init PROVE LossInv(S)
  OBVIOUS
<1>1. TypeOK
  BY InitBridge
<1>2. wire = <<>> /\ reply = <<>> /\ rece_flag = 0 /\ missed = 0
  BY DEF Init, Nothing
<1> QED
  BY <1>1, <1>2 DEF LossInv, LengthSane, WireInv, GapInv, SyncInv, LostInv

(* A reply that starts finds the parser at rest, or amid something else.   *)
LEMMA StartReplyLoss ==
  ASSUME NEW S, LossInv(S), NEW r \in Replies, StartReply(r)
  PROVE  LossInv(S)'
<1>1. TypeOK'
  BY StartReplyBridge DEF LossInv
<1>2. r \in Seq(Byte) /\ Len(r) >= 5
  BY BridgeAssumption
<1>3. /\ wire = <<>> /\ wire' = r /\ reply' = r /\ missed' = missed + 1
      /\ rece_flag' = rece_flag /\ rece_len' = rece_len /\ index' = index
      /\ sum' = sum /\ whole' = whole
  BY DEF StartReply, parser
<1>4. Got' = 0 /\ wire' # <<>>
  BY <1>2, <1>3 DEF Got
<1>5. LengthSane'
  BY <1>3 DEF LossInv, LengthSane
<1>6. WireInv'
  BY <1>2, <1>3, <1>4 DEF LossInv, WireInv
<1>7. /\ missed \in Nat /\ rece_flag \in 0..3 /\ index \in 0..254
      /\ rece_flag < 3 => index = rece_flag
      /\ rece_flag = 3 => index >= 3
  BY DEF LossInv, TypeOK, IndexInFrame, WireInv
<1>8. /\ rece_flag = 0 => missed <= 34
      /\ rece_flag \in {1, 2} => missed = 0
      /\ rece_flag = 3 => 5 * missed <= index
  BY <1>3 DEF LossInv, GapInv
<1>9. InSync' <=> rece_flag = 0
  BY <1>2, <1>3, <1>7 DEF InSync, InPlace
<1>10. GapInv' /\ SyncInv(S)' /\ LostInv'
  BY <1>3, <1>4, <1>7, <1>8, <1>9 DEF GapInv, SyncInv, LostInv
<1> QED
  BY <1>1, <1>5, <1>6, <1>10 DEF LossInv

LEMMA CutReplyLoss ==
  ASSUME NEW S, LossInv(S), CutReply
  PROVE  LossInv(S)'
<1>1. TypeOK'
  BY CutReplyBridge DEF LossInv
<1>2. /\ wire' = <<>> /\ missed' = 0 /\ reply' = reply
      /\ rece_flag' = rece_flag /\ rece_len' = rece_len /\ index' = index
  BY DEF CutReply, parser
<1>3. index \in 0..254 /\ Len(reply) \in Nat
  BY BridgeAssumption DEF LossInv, TypeOK, Nothing
<1>4. LengthSane' /\ WireInv'
  BY <1>2, <1>3 DEF LossInv, LengthSane, WireInv
<1>5. GapInv' /\ SyncInv(S)' /\ LostInv'
  BY <1>2, <1>3 DEF GapInv, SyncInv, LostInv
<1> QED
  BY <1>1, <1>4, <1>5 DEF LossInv

(* The byte that arrives, as one of the reply.                             *)
LEMMA ByteArrives ==
  ASSUME TypeOK, WireInv, ReceiveByte
  PROVE  /\ reply \in Replies /\ reply' = reply /\ wire # <<>>
         /\ Head(wire) = reply[Got + 1]
         /\ Got \in 0..(Len(reply) - 1) /\ Got' = Got + 1
         /\ wire' = <<>> => Got + 1 >= Len(reply)
         /\ wire' # <<>> => Got + 1 < Len(reply)
         /\ Len(wire') <= Len(reply)
         /\ \A i \in 1..Len(wire') : wire'[i] = reply[Got' + i]
<1>1. wire \in Seq(Byte) /\ wire # <<>> /\ reply' = reply /\ wire' = Tail(wire)
  BY DEF TypeOK, ReceiveByte
<1>2. reply \in Replies /\ Len(wire) <= Len(reply)
      /\ \A i \in 1..Len(wire) : wire[i] = reply[Got + i]
  BY <1>1 DEF WireInv
<1>3. reply \in Seq(Byte)
  BY <1>2, BridgeAssumption
<1>4. Len(wire) \in Nat /\ Len(reply) \in Nat /\ Len(wire) >= 1
  BY <1>1, <1>3
<1>5. Len(wire') = Len(wire) - 1 /\ wire' \in Seq(Byte)
  BY <1>1, <1>4
<1>6. Got \in 0..(Len(reply) - 1) /\ Got' = Got + 1
  BY <1>1, <1>2, <1>4, <1>5 DEF Got
<1>7. Head(wire) = reply[Got + 1]
  BY <1>1, <1>2, <1>4
<1>8. wire' = <<>> <=> Len(wire') = 0
  BY <1>5
<1>9. ASSUME NEW i \in 1..Len(wire') PROVE wire'[i] = reply[Got' + i]
  <2>1. wire'[i] = wire[i + 1] /\ i + 1 \in 1..Len(wire)
    BY <1>1, <1>4, <1>5
  <2>2. wire[i + 1] = reply[Got + (i + 1)]
    BY <1>2, <2>1
  <2> QED
    BY <1>6, <2>1, <2>2
<1> QED
  BY <1>1, <1>2, <1>4, <1>5, <1>6, <1>7, <1>8, <1>9 DEF Got

(* The shape of the reply a byte is of, and where the parser is.           *)
LEMMA Shape ==
  ASSUME NEW S, Sums(S), NEW r \in Replies
  PROVE  /\ Len(r) \in Nat /\ 5 <= Len(r) /\ Len(r) <= 169
         /\ r[1] = Header /\ r[2] = Header /\ r[3] = Len(r)
         /\ \A i \in 3..Len(r) : r[i] # Header
         /\ S[r][3] = 0 /\ S[r][Len(r)] = 255
         /\ \A i \in 4..Len(r) : S[r][i] = (S[r][i - 1] + r[i]) % 256
<1>1. WellFormed(r, S[r])
  BY Zenon DEF Sums
<1>2. Len(r) \in Nat /\ 5 <= Len(r)
  BY BridgeAssumption
<1>3. Len(r) < 170
  BY <1>1, Zenon DEF WellFormed, Header
<1> QED
  <2>1. Len(r) <= 169
    BY <1>2, <1>3
  <2> QED
    BY <1>1, <1>2, <2>1, Zenon DEF WellFormed

LEMMA Reading ==
  ASSUME NEW S, Sums(S), LossInv(S), ReceiveByte
  PROVE  /\ Len(reply) \in Nat /\ 5 <= Len(reply) /\ Len(reply) <= 169 /\ missed \in Nat
         /\ rece_flag \in 0..3 /\ index \in 0..254 /\ rece_len \in Byte
         /\ rece_flag < 3 => index = rece_flag
         /\ rece_flag = 3 => index >= 3 /\ rece_len <= 170 /\ (index = 3 \/ index < rece_len)
         /\ InSync \in BOOLEAN /\ (InSync => Got = index) /\ whole' = InSync
         /\ rece_flag \in {1, 2} => Got <= 2
<1>1. TypeOK /\ WireInv /\ LengthSane
  BY DEF LossInv
<1>2. reply \in Replies /\ wire # <<>>
  BY <1>1, ByteArrives
<1>3. \A r \in Replies : Len(r) \in Nat /\ 5 <= Len(r) /\ Len(r) <= 169
  BY Shape, Zenon
<1>4. rece_flag = 3 => rece_len <= 170
  <2>1. rece_flag = 3 => rece_len = 170 \/ \E r \in Replies : rece_len = Len(r)
    BY <1>1, Zenon DEF LengthSane, Header
  <2>2. CASE \E r \in Replies : rece_len = Len(r)
    <3>1. PICK r \in Replies : rece_len = Len(r)
      BY <2>2
    <3> QED
      BY <1>3, <3>1
  <2> QED
    BY <2>1, <2>2
<1>5. InSync \in BOOLEAN /\ (InSync => Got = index)
  BY DEF InSync, InPlace, Got
<1>6. whole' = InSync
  BY DEF ReceiveByte, InSync
<1> QED
  BY <1>1, <1>2, <1>3, <1>4, <1>5, <1>6 DEF TypeOK, IndexInFrame, WireInv

(* What the parser does with a byte, state by state.                       *)
LEMMA HeaderStep ==
  ASSUME TypeOK, ReceiveByte, rece_flag # 3
  PROVE  /\ missed' = missed
         /\ rece_flag = 0 => \/ Head(wire) = Header /\ rece_flag' = 1 /\ index' = index + 1
                             \/ Head(wire) # Header /\ rece_flag' = 0 /\ index' = 0
         /\ rece_flag = 1 => \/ Head(wire) = Header /\ rece_flag' = 2 /\ index' = index + 1
                             \/ Head(wire) # Header /\ rece_flag' = 0 /\ index' = 0
         /\ rece_flag = 2 => /\ rece_flag' = 3 /\ index' = index + 1
                             /\ rece_len' = Head(wire) /\ sum' = 0
<1>1. missed' = missed
  BY DEF ReceiveByte
<1>2. FirstHeader(Head(wire)) \/ SecondHeader(Head(wire)) \/ LengthByte(Head(wire))
  BY DEF ReceiveByte, FrameByte
<1> QED
  BY <1>1, <1>2 DEF FirstHeader, SecondHeader, LengthByte, Restart

LEMMA FrameStep ==
  ASSUME TypeOK, ReceiveByte, rece_flag = 3,
         NEW total, total = (sum + Head(wire)) % 256
  PROVE  \/ /\ rece_len > index + 1 /\ rece_flag' = 3 /\ rece_len' = rece_len
            /\ index' = index + 1 /\ sum' = total /\ missed' = missed
         \/ /\ ~(rece_len > index + 1) /\ rece_flag' = 0 /\ index' = 0
            /\ missed' = IF rece_len > 3 /\ total = 255 THEN 0 ELSE missed
<1>1. FrameByte(Head(wire))
  BY DEF ReceiveByte, FirstHeader, SecondHeader, LengthByte
<1>2. missed' = IF LastByte(rece_len) /\ FrameChecked(total) THEN 0 ELSE missed
  BY DEF ReceiveByte
<1> QED
  BY <1>1, <1>2 DEF FrameByte, LastByte, FrameChecked, FrameDone, Restart

(* The whole of the invariant from its parts that a byte can disturb.      *)
LEMMA WireKept ==
  ASSUME TypeOK, WireInv, ReceiveByte,
         rece_flag' \in {1, 2} /\ wire' # <<>> => Got' <= 2,
         rece_flag' = 3 => index' >= 3
  PROVE  TypeOK' /\ WireInv'
<1>1. TypeOK'
  BY ReceiveByteBridge
<1> QED
  BY <1>1, ByteArrives DEF WireInv

(* A reply read from its first byte on: its length is the frame's, and its *)
(* sums are the parser's, so that the last byte completes the frame.       *)
LEMMA ReceiveInSync ==
  ASSUME NEW S, Sums(S), LossInv(S), ReceiveByte, InSync
  PROVE  LossInv(S)'
<1>1. /\ TypeOK /\ WireInv /\ LengthSane /\ SyncInv(S)
  BY DEF LossInv
<1>2. /\ reply \in Replies /\ reply' = reply /\ wire # <<>>
      /\ Head(wire) = reply[Got + 1]
      /\ Got \in 0..(Len(reply) - 1) /\ Got' = Got + 1
      /\ wire' = <<>> => Got + 1 >= Len(reply)
      /\ wire' # <<>> => Got + 1 < Len(reply)
  BY <1>1, ByteArrives
<1>3. Got' = Got + 1
  BY <1>2
<1>4. /\ Len(reply) \in Nat /\ 5 <= Len(reply) /\ Len(reply) <= 169
      /\ missed \in Nat /\ rece_flag \in 0..3 /\ index \in 0..254 /\ Got = index /\ whole' = TRUE
      /\ rece_flag < 3 => index = rece_flag
      /\ rece_flag = 3 => index >= 3
  BY Reading
<1>5. missed <= 35
  BY <1>1, <1>2 DEF SyncInv
<1>6. InSync' <=> Got' = index'
  BY <1>4 DEF InSync, InPlace, Got
<1>7. CASE rece_flag = 0
  <2>1. Head(wire) = Header
    BY <1>2, <1>4, <1>7, Shape
  <2>2. rece_flag' = 1 /\ index' = index + 1 /\ missed' = missed
    BY <1>1, <1>7, <2>1, HeaderStep
  <2>3. rece_flag' = 1 /\ index' = 1 /\ missed' = missed /\ Got' = 1 /\ wire' # <<>>
    <3>1. index' = 1 /\ Got' = 1
      BY <1>4, <1>7, <1>3, <2>2
    <3>2. Got + 1 < Len(reply)
      BY <1>4, <1>7
    <3>3. wire' # <<>>
      BY <1>2, <1>4, <3>2
    <3> QED
      BY <2>2, <3>1, <3>3
  <2>4. TypeOK' /\ WireInv'
    BY <1>1, <2>3, WireKept
  <2>5. LengthSane' /\ GapInv' /\ SyncInv(S)' /\ LostInv'
    BY <1>5, <1>6, <2>3 DEF LengthSane, GapInv, SyncInv, LostInv
  <2> QED
    BY <2>4, <2>5 DEF LossInv
<1>8. CASE rece_flag = 1
  <2>1. Head(wire) = Header
    BY <1>2, <1>4, <1>8, Shape
  <2>2. rece_flag' = 2 /\ index' = index + 1 /\ missed' = missed
    BY <1>1, <1>8, <2>1, HeaderStep
  <2>3. rece_flag' = 2 /\ index' = 2 /\ missed' = missed /\ Got' = 2 /\ wire' # <<>>
    <3>1. index' = 2 /\ Got' = 2
      BY <1>4, <1>8, <1>3, <2>2
    <3>2. Got + 1 < Len(reply)
      BY <1>4, <1>8
    <3>3. wire' # <<>>
      BY <1>2, <1>4, <3>2
    <3> QED
      BY <2>2, <3>1, <3>3
  <2>4. TypeOK' /\ WireInv'
    BY <1>1, <2>3, WireKept
  <2>5. LengthSane' /\ GapInv' /\ SyncInv(S)' /\ LostInv'
    BY <1>5, <1>6, <2>3 DEF LengthSane, GapInv, SyncInv, LostInv
  <2> QED
    BY <2>4, <2>5 DEF LossInv
<1>9. CASE rece_flag = 2
  <2>1. Head(wire) = Len(reply) /\ S[reply][3] = 0
    BY <1>2, <1>4, <1>9, Shape
  <2>2. /\ rece_flag' = 3 /\ index' = index + 1 /\ missed' = missed
        /\ rece_len' = Head(wire) /\ sum' = 0
    BY <1>1, <1>9, HeaderStep
  <2>3. /\ rece_flag' = 3 /\ index' = 3 /\ missed' = missed /\ Got' = 3 /\ wire' # <<>>
        /\ rece_len' = Len(reply) /\ sum' = 0
    BY <1>2, <1>4, <1>9, <2>1, <2>2
  <2>4. TypeOK' /\ WireInv'
    BY <1>1, <2>3, WireKept
  <2>5. LengthSane'
    BY <1>2, <2>3 DEF LengthSane
  <2>6. GapInv' /\ SyncInv(S)' /\ LostInv'
    BY <1>2, <1>5, <1>6, <2>1, <2>3 DEF GapInv, SyncInv, LostInv
  <2> QED
    BY <2>4, <2>5, <2>6 DEF LossInv
<1>10. CASE rece_flag = 3
  <2> DEFINE total == (sum + Head(wire)) % 256
  <2>1. rece_len = Len(reply) /\ sum = S[reply][index]
    BY <1>1, <1>2, <1>10 DEF SyncInv
  <2>2. total = S[reply][index + 1]
    <3>1. index + 1 \in 4..Len(reply) /\ index + 1 - 1 = index
      BY <1>2, <1>4, <1>10
    <3>2. \A i \in 4..Len(reply) : S[reply][i] = (S[reply][i - 1] + reply[i]) % 256
      BY <1>2, Shape
    <3>3. S[reply][index + 1] = (S[reply][(index + 1) - 1] + reply[index + 1]) % 256
      BY <3>1, <3>2, Zenon
    <3> QED
      BY <1>2, <1>4, <2>1, <3>1, <3>3
  <2> HIDE DEF total
  <2>3. \/ /\ rece_len > index + 1 /\ rece_flag' = 3 /\ rece_len' = rece_len
           /\ index' = index + 1 /\ sum' = total /\ missed' = missed
        \/ /\ ~(rece_len > index + 1) /\ rece_flag' = 0 /\ index' = 0
           /\ missed' = IF rece_len > 3 /\ total = 255 THEN 0 ELSE missed
    BY <1>1, <1>10, FrameStep DEF total
  <2>4. rece_flag' \in {0, 3} /\ (rece_flag' = 3 => index' >= 3)
    <3>1. index + 1 >= 3
      BY <1>4, <1>10
    <3> QED
      BY <2>3, <3>1
  <2>5. TypeOK' /\ WireInv'
    BY <1>1, <2>4, WireKept
  <2>6. LengthSane'
    BY <1>1, <1>10, <2>3 DEF LengthSane
  <2>7. CASE rece_len > index + 1
    <3>1. wire' # <<>> /\ Got' = index'
      BY <1>2, <1>4, <2>1, <2>3, <2>7
    <3>2. GapInv' /\ SyncInv(S)' /\ LostInv'
      BY <1>2, <1>5, <1>6, <2>1, <2>2, <2>3, <2>7, <3>1 DEF GapInv, SyncInv, LostInv
    <3> QED
      BY <2>5, <2>6, <3>2 DEF LossInv
  <2>8. CASE ~(rece_len > index + 1)
    <3>1. index + 1 = Len(reply) /\ wire' = <<>>
      BY <1>2, <1>4, <1>10, <2>1, <2>8
    <3>2. total = 255
      BY <1>2, <2>2, <3>1, Shape
    <3>3. rece_flag' = 0 /\ missed' = 0
      <4>1. rece_len > 3
        BY <1>4, <2>1
      <4> QED
        BY <2>3, <2>8, <3>2, <4>1
    <3>4. GapInv' /\ SyncInv(S)' /\ LostInv'
      BY <3>1, <3>3 DEF GapInv, SyncInv, LostInv
    <3> QED
      BY <2>5, <2>6, <3>4 DEF LossInv
  <2> QED
    BY <2>7, <2>8
<1> QED
  BY <1>4, <1>7, <1>8, <1>9, <1>10

(* A reply the parser is not reading from its first byte on.  Header bytes *)
(* come first in it, so that it is filling a frame or skipping to the next *)
(* header; in the former case every byte of the reply is one of the frame. *)
LEMMA ReceiveLost ==
  ASSUME NEW S, Sums(S), LossInv(S), ReceiveByte, ~InSync
  PROVE  LossInv(S)'
<1>1. /\ TypeOK /\ WireInv /\ LengthSane /\ LostInv
  BY DEF LossInv
<1>2. /\ reply \in Replies /\ reply' = reply /\ wire # <<>>
      /\ Head(wire) = reply[Got + 1]
      /\ Got \in 0..(Len(reply) - 1) /\ Got' = Got + 1
      /\ wire' = <<>> => Got + 1 >= Len(reply)
      /\ wire' # <<>> => Got + 1 < Len(reply)
  BY <1>1, ByteArrives
<1>3. /\ Len(reply) \in Nat /\ 5 <= Len(reply) /\ Len(reply) <= 169
      /\ missed \in Nat /\ rece_flag \in 0..3 /\ index \in 0..254 /\ rece_len \in Byte
      /\ rece_flag < 3 => index = rece_flag
      /\ rece_flag = 3 => index >= 3 /\ rece_len <= 170 /\ (index = 3 \/ index < rece_len)
  BY Reading
<1>4. ~whole'
  BY Reading
<1>5. /\ rece_flag = 0 => Got >= 1 /\ missed <= 34
      /\ rece_flag = 1 => (Got = 0 /\ missed <= 1) \/ (Got = 2 /\ missed <= 34)
      /\ rece_flag = 2 => Got <= 1 /\ missed <= 1
      /\ rece_flag = 3 => 5 * missed + Got <= index + 5
  BY <1>1, <1>2 DEF LostInv
<1>6. InSync' => (Got' = 0 /\ index' = 0) \/ whole'
  BY DEF InSync, InPlace, Got
<1>7. ~InSync'
  BY <1>2, <1>4, <1>6
<1>8. CASE rece_flag = 0
  <2>1. CASE Head(wire) = Header
    <3>1. rece_flag' = 1 /\ missed' = missed
      BY <1>1, <1>8, <2>1, HeaderStep
    <3>2. ~(Got + 1 >= 3)
      BY <1>2, <1>3, <2>1, Shape
    <3>3. Got' = 2 /\ wire' # <<>>
      BY <1>2, <1>3, <1>5, <1>8, <3>2
    <3>4. TypeOK' /\ WireInv'
      BY <1>1, <3>1, <3>3, WireKept
    <3>5. LengthSane' /\ GapInv' /\ SyncInv(S)' /\ LostInv'
      BY <1>5, <1>7, <1>8, <3>1, <3>3 DEF LengthSane, GapInv, SyncInv, LostInv
    <3> QED
      BY <3>4, <3>5 DEF LossInv
  <2>2. CASE Head(wire) # Header
    <3>1. rece_flag' = 0 /\ missed' = missed
      BY <1>1, <1>8, <2>2, HeaderStep
    <3>2. Got' >= 1
      BY <1>2
    <3>3. TypeOK' /\ WireInv'
      BY <1>1, <3>1, WireKept
    <3>4. LengthSane' /\ GapInv' /\ SyncInv(S)' /\ LostInv'
      BY <1>5, <1>7, <1>8, <3>1, <3>2 DEF LengthSane, GapInv, SyncInv, LostInv
    <3> QED
      BY <3>3, <3>4 DEF LossInv
  <2> QED
    BY <2>1, <2>2
<1>9. CASE rece_flag = 1 /\ Got = 0
  <2>1. Head(wire) = Header
    BY <1>2, <1>9, Shape
  <2>2. rece_flag' = 2 /\ missed' = missed
    BY <1>1, <1>9, <2>1, HeaderStep
  <2>3. Got' = 1 /\ wire' # <<>>
    BY <1>2, <1>3, <1>9
  <2>4. TypeOK' /\ WireInv'
    BY <1>1, <2>2, <2>3, WireKept
  <2>5. missed' <= 1
    BY <1>5, <1>9, <2>2
  <2>6. LengthSane' /\ GapInv' /\ SyncInv(S)' /\ LostInv'
    BY <1>7, <2>2, <2>3, <2>5 DEF LengthSane, GapInv, SyncInv, LostInv
  <2> QED
    BY <2>4, <2>6 DEF LossInv
<1>10. CASE rece_flag = 1 /\ Got = 2
  <2>1. Head(wire) # Header
    BY <1>2, <1>3, <1>10, Shape
  <2>2. rece_flag' = 0 /\ missed' = missed
    BY <1>1, <1>10, <2>1, HeaderStep
  <2>3. Got' = 3 /\ missed' <= 34
    BY <1>2, <1>3, <1>5, <1>10, <2>2
  <2>4. TypeOK' /\ WireInv'
    BY <1>1, <2>2, WireKept
  <2>5. LengthSane' /\ GapInv' /\ SyncInv(S)' /\ LostInv'
    BY <1>7, <2>2, <2>3 DEF LengthSane, GapInv, SyncInv, LostInv
  <2> QED
    BY <2>4, <2>5 DEF LossInv
<1>11. CASE rece_flag = 2
  <2>1. Got = 0 \/ Got = 1
    BY <1>2, <1>5, <1>11
  <2>2. Head(wire) = Header
    BY <1>2, <2>1, Shape
  <2>3. rece_flag' = 3 /\ index' = 3 /\ rece_len' = Header /\ missed' = missed
    BY <1>1, <1>3, <1>11, <2>2, HeaderStep
  <2>4. Got' \in 1..2 /\ wire' # <<>> /\ missed' \in 0..1
    BY <1>2, <1>3, <1>5, <1>11, <2>1, <2>3
  <2>5. TypeOK' /\ WireInv'
    BY <1>1, <2>3, WireKept
  <2>6. LengthSane'
    BY <2>3 DEF LengthSane
  <2>7. 5 * missed' + Got' <= index' + 5
    <3>1. index' = 3 /\ index' \in 0..254
      BY <2>3
    <3>2. \A m \in 0..1, g \in 1..2 : 5 * m + g <= 3 + 5
      OBVIOUS
    <3>3. 5 * missed' + Got' <= 3 + 5
      BY <2>4, <3>2
    <3> QED
      BY <3>1, <3>3
  <2>8. GapInv' /\ SyncInv(S)' /\ LostInv'
    <3>1. rece_flag' = 3
      BY <2>3
    <3> QED
      BY <1>7, <2>4, <2>7, <3>1 DEF GapInv, SyncInv, LostInv
  <2> QED
    BY <2>5, <2>6, <2>8 DEF LossInv
<1>12. CASE rece_flag = 3
  <2> DEFINE total == (sum + Head(wire)) % 256
  <2>1. \/ /\ rece_len > index + 1 /\ rece_flag' = 3 /\ rece_len' = rece_len
           /\ index' = index + 1 /\ sum' = total /\ missed' = missed
        \/ /\ ~(rece_len > index + 1) /\ rece_flag' = 0 /\ index' = 0
           /\ missed' = IF rece_len > 3 /\ total = 255 THEN 0 ELSE missed
    BY <1>1, <1>12, FrameStep
  <2>2. 5 * missed + Got <= index + 5 /\ index >= 3
    BY <1>3, <1>5, <1>12
  <2>3. CASE rece_len > index + 1
    <3>1. rece_flag' = 3 /\ rece_len' = rece_len /\ index' = index + 1 /\ missed' = missed
      BY <2>1, <2>3
    <3>2. TypeOK' /\ WireInv'
      <4>1. index' >= 3
        BY <1>3, <2>2, <3>1
      <4> QED
        BY <1>1, <3>1, <4>1, WireKept
    <3>3. LengthSane'
      BY <1>1, <1>2, <1>12, <3>1 DEF LengthSane
    <3>4. 5 * missed' + Got' <= index' + 5
      BY <1>2, <1>3, <2>2, <3>1
    <3>5. wire' = <<>> => 5 * missed' <= index'
      BY <1>2, <1>3, <2>2, <3>1
    <3>6. GapInv' /\ SyncInv(S)' /\ LostInv'
      BY <1>7, <3>1, <3>4, <3>5 DEF GapInv, SyncInv, LostInv
    <3> QED
      BY <3>2, <3>3, <3>6 DEF LossInv
  <2>4. CASE ~(rece_len > index + 1)
    <3>1. rece_flag' = 0 /\ missed' \in {0, missed}
      BY <2>1, <2>4
    <3>2. index <= 169
      BY <1>3, <1>12 DEF Byte
    <3>3. missed' <= 34
      BY <1>2, <1>3, <2>2, <3>1, <3>2
    <3>4. TypeOK' /\ WireInv'
      BY <1>1, <3>1, WireKept
    <3>5. Got' >= 1
      BY <1>2
    <3>6. LengthSane' /\ GapInv' /\ SyncInv(S)' /\ LostInv'
      BY <1>7, <3>1, <3>3, <3>5 DEF LengthSane, GapInv, SyncInv, LostInv
    <3> QED
      BY <3>4, <3>6 DEF LossInv
  <2> QED
    BY <2>3, <2>4
<1> QED
  BY <1>3, <1>5, <1>8, <1>9, <1>10, <1>11, <1>12

LEMMA NextLoss ==
  ASSUME NEW S, Sums(S)
  PROVE  LossInv(S) /\ [Next]_vars => LossInv(S)'
<1> SUFFICES ASSUME LossInv(S), [Next]_vars PROVE LossInv(S)'
  OBVIOUS
<1>1. CASE UNCHANGED vars
  <2>1. /\ reply' = reply /\ wire' = wire /\ cuts' = cuts /\ rece_flag' = rece_flag
        /\ rece_len' = rece_len /\ index' = index /\ sum' = sum
        /\ whole' = whole /\ app' = app /\ missed' = missed
    BY <1>1 DEF vars, mcu, parser
  <2>2. TypeOK'
    BY <1>1, NextBridge DEF LossInv
  <2> QED
    BY <2>1, <2>2 DEF LossInv, LengthSane, WireInv, GapInv, SyncInv, LostInv,
                      Got, InSync, InPlace
<1>2. ASSUME NEW r \in Replies, StartReply(r) PROVE LossInv(S)'
  BY <1>2, StartReplyLoss
<1>3. CASE CutReply
  BY <1>3, CutReplyLoss
<1>4. CASE ReceiveByte
  BY <1>4, ReceiveInSync, ReceiveLost
<1> QED
  BY <1>1, <1>2, <1>3, <1>4 DEF Next

LEMMA LossInductive ==
  ASSUME NEW S, Sums(S)
  PROVE  Spec => []LossInv(S)
<1>1. Init => LossInv(S)
  BY InitLoss
<1>2. LossInv(S) /\ [Next]_vars => LossInv(S)'
  BY NextLoss
<1> QED
  BY <1>1, <1>2, PTL DEF Spec

(* Whatever is cut, the parser never takes for a length anything but a     *)
(* reply's own or a header byte, so that the checksum loop of              *)
(* my_check_code_analysis is never entered with a length below 3.          *)
THEOREM LengthsAreSane ==
  ASSUME NEW S, Sums(S)
  PROVE  Spec => []LengthSane
<1>1. LossInv(S) => LengthSane
  BY DEF LossInv
<1> QED
  BY <1>1, LossInductive, PTL

(* A cut reply costs the app at most the replies that fill a frame of 170  *)
(* bytes, however many replies are cut and wherever: uart_event_handle     *)
(* needs no timeout to find the next header.                               *)
THEOREM LossIsBounded ==
  ASSUME NEW S, Sums(S)
  PROVE  Spec => []LossBounded
<1>1. ASSUME LossInv(S) PROVE missed <= 35
  <2>1. /\ TypeOK /\ WireInv /\ GapInv /\ SyncInv(S) /\ LostInv
    BY <1>1 DEF LossInv
  <2>2. missed \in Nat /\ rece_flag \in 0..3 /\ index \in 0..254
    BY <2>1 DEF TypeOK
  <2>3. rece_flag = 3 => index <= 169
    <3>1. ASSUME NEW r \in Replies PROVE Len(r) \in Nat /\ Len(r) <= 169
      BY Shape
    <3>2. rece_flag = 3 => rece_len = 170 \/ \E r \in Replies : rece_len = Len(r)
      BY <1>1, Zenon DEF LossInv, LengthSane, Header
    <3>3. rece_flag = 3 => index = 3 \/ index < rece_len
      BY <2>1 DEF TypeOK, IndexInFrame
    <3>4. CASE \E r \in Replies : rece_len = Len(r)
      BY <2>2, <3>1, <3>3, <3>4
    <3> QED
      BY <2>2, <3>2, <3>3, <3>4
  <2>4. CASE wire = <<>>
    BY <2>1, <2>2, <2>3, <2>4 DEF GapInv
  <2>5. CASE wire # <<>> /\ InSync
    BY <2>1, <2>5 DEF SyncInv
  <2>6. CASE wire # <<>> /\ ~InSync
    <3>1. Got \in Nat
      <4>1. wire \in Seq(Byte) /\ reply \in Replies /\ Len(wire) <= Len(reply)
        BY <2>1, <2>6 DEF TypeOK, WireInv
      <4> QED
        BY <4>1, BridgeAssumption DEF Got
    <3> QED
      BY <2>1, <2>2, <2>3, <2>6, <3>1 DEF LostInv
  <2> QED
    BY <2>4, <2>5, <2>6
<1>2. LossInv(S) => LossBounded
  <2>1. Header \div 5 + 2 = 36
    BY DEF Header
  <2> QED
    BY <1>1, <2>1 DEF LossInv, TypeOK, LossBounded
<1> QED
  BY <1>2, LossInductive, PTL

-----------------------------------------------------------------------------
(* Mixtures.  A frame that begins with a cut reply ends with bytes of the  *)
(* next ones, and every such frame is refused by its checksum, unless it   *)
(* is as long as a status or a header byte says.  This depends on what the *)
(* replies are: X holds what a frame may lack when the wire falls silent,  *)
(* as the number of cells missing and the sum of those it has, and P the   *)
(* sums of the first cells of each reply of R.                             *)

PrefixSums(r, p) ==
  /\ p \in [0..Len(r) -> Byte] /\ p[0] = 0
  /\ \A i \in 1..Len(r) : p[i] = (p[i - 1] + r[i]) % 256

(* A reply read from its first byte on is cut after k bytes.               *)
Begun(r, s, X) ==
  Len(r) # StatusLength => \A k \in 3..(Len(r) - 1) : <<Len(r) - k, s[k]>> \in X

(* The frame takes in k bytes of a reply, and is still not complete.       *)
Continued(r, p, X) ==
  \A e \in X, k \in 1..Len(r) : k < e[1] => <<e[1] - k, (e[2] + p[k]) % 256>> \in X

(* The k-th byte of a reply completes the frame.                           *)
Refused(r, p, X) ==
  \A e \in X, k \in 1..Len(r) : k = e[1] => (e[2] + p[k]) % 256 # 255

MixturesRefused(R, S, P, X) ==
  /\ X \subseteq Nat \X Byte
  /\ \A r \in R : /\ PrefixSums(r, P[r])
                  /\ Begun(r, S[r], X) /\ Continued(r, P[r], X) /\ Refused(r, P[r], X)

(* An incomplete frame other than those, between two replies and with Got  *)
(* bytes of a reply at its end.                                            *)
MixInv(P, X) ==
  rece_flag = 3 /\ rece_len \notin {Header, StatusLength} =>
    /\ wire = <<>> => <<rece_len - index, sum>> \in X
    /\ wire # <<>> /\ ~InSync =>
         \E e \in X : /\ e[1] = rece_len - index + Got /\ Got < e[1]
                      /\ sum = (e[2] + P[reply][Got]) % 256

FrameInv(S, P, X) == LossInv(S) /\ MixInv(P, X) /\ AcksAreReplies

LEMMA MixtureFacts ==
  ASSUME NEW S, NEW P, NEW X, MixturesRefused(Replies, S, P, X), NEW r \in Replies
  PROVE  /\ P[r][0] = 0 /\ \A k \in 0..Len(r) : P[r][k] \in Byte
         /\ \A k \in 1..Len(r) : P[r][k] = (P[r][k - 1] + r[k]) % 256
         /\ \A e \in X : /\ e[1] \in Nat /\ e[2] \in Byte /\ e = <<e[1], e[2]>>
         /\ Begun(r, S[r], X) /\ Continued(r, P[r], X) /\ Refused(r, P[r], X)
<1>1. X \subseteq Nat \X Byte /\ PrefixSums(r, P[r])
      /\ Begun(r, S[r], X) /\ Continued(r, P[r], X) /\ Refused(r, P[r], X)
  BY Zenon DEF MixturesRefused
<1>2. \A e \in X : e[1] \in Nat /\ e[2] \in Byte /\ e = <<e[1], e[2]>>
  BY <1>1
<1>3. /\ P[r][0] = 0 /\ \A k \in 0..Len(r) : P[r][k] \in Byte
      /\ \A k \in 1..Len(r) : P[r][k] = (P[r][k - 1] + r[k]) % 256
  BY <1>1 DEF PrefixSums
<1> QED
  BY <1>1, <1>2, <1>3

(* A frame being filled lacks a byte at least.                             *)
LEMMA FrameOpen ==
  ASSUME NEW S, LossInv(S), rece_flag = 3
  PROVE  /\ rece_len \in Nat /\ index \in Nat /\ sum \in Byte
         /\ index >= 3 /\ index < rece_len
<1>1. /\ rece_len \in Byte /\ index \in 0..254 /\ sum \in Byte /\ index >= 3
      /\ index = 3 \/ index < rece_len
  BY DEF LossInv, TypeOK, IndexInFrame, WireInv
<1>2. rece_len >= 5
  <2>1. rece_len = 170 \/ \E r \in Replies : rece_len = Len(r)
    BY Zenon DEF LossInv, LengthSane, Header
  <2>2. \A r \in Replies : Len(r) >= 5
    BY BridgeAssumption
  <2> QED
    BY <2>1, <2>2
<1> QED
  BY <1>1, <1>2 DEF Byte

LEMMA StartReplyMix ==
  ASSUME NEW S, NEW P, NEW X, MixturesRefused(Replies, S, P, X),
         FrameInv(S, P, X), NEW r \in Replies, StartReply(r)
  PROVE  MixInv(P, X)' /\ AcksAreReplies'
<1>1. /\ wire = <<>> /\ wire' = r /\ reply' = r /\ app' = app
      /\ rece_flag' = rece_flag /\ rece_len' = rece_len /\ index' = index /\ sum' = sum
  BY DEF StartReply, parser
<1>2. AcksAreReplies'
  BY <1>1 DEF FrameInv, AcksAreReplies
<1>3. r \in Seq(Byte) /\ Len(r) >= 5
  BY BridgeAssumption
<1>4. wire' # <<>> /\ Got' = 0
  BY <1>1, <1>3 DEF Got
<1>5. ASSUME rece_flag' = 3, rece_len' \notin {Header, StatusLength}
      PROVE  \E e \in X : /\ e[1] = rece_len' - index' + Got' /\ Got' < e[1]
                          /\ sum' = (e[2] + P[reply'][Got']) % 256
  <2>1. <<rece_len - index, sum>> \in X
    BY <1>1, <1>5 DEF FrameInv, MixInv
  <2>2. rece_len \in Nat /\ index \in Nat /\ sum \in Byte /\ index < rece_len
    BY <1>1, <1>5, FrameOpen DEF FrameInv
  <2>3. P[r][0] = 0
    BY MixtureFacts
  <2>4. sum = (sum + 0) % 256
    BY <2>2 DEF Byte
  <2> DEFINE e == <<rece_len - index, sum>>
  <2>5. e[1] = rece_len' - index' + Got' /\ Got' < e[1]
    BY <1>1, <1>4, <2>2
  <2>6. sum' = (e[2] + P[reply'][Got']) % 256
    BY <1>1, <1>4, <2>3, <2>4
  <2> QED
    BY <2>1, <2>5, <2>6
<1> QED
  BY <1>2, <1>4, <1>5 DEF MixInv

LEMMA CutReplyMix ==
  ASSUME NEW S, Sums(S), NEW P, NEW X, MixturesRefused(Replies, S, P, X),
         FrameInv(S, P, X), CutReply
  PROVE  MixInv(P, X)' /\ AcksAreReplies'
<1>1. /\ wire # <<>> /\ wire # reply /\ wire' = <<>> /\ app' = app
      /\ rece_flag' = rece_flag /\ rece_len' = rece_len /\ index' = index /\ sum' = sum
  BY DEF CutReply, parser
<1>2. AcksAreReplies'
  BY <1>1 DEF FrameInv, AcksAreReplies
<1>3. TypeOK /\ WireInv /\ SyncInv(S) /\ MixInv(P, X)
  BY DEF FrameInv, LossInv
<1>4. reply \in Replies /\ reply \in Seq(Byte) /\ wire \in Seq(Byte)
      /\ Len(reply) \in Nat /\ Len(wire) \in Nat
  BY <1>1, <1>3, BridgeAssumption DEF TypeOK, WireInv
<1>5. Got \in 1..(Len(reply) - 1)
  <2>1. Len(wire) >= 1 /\ Len(wire) <= Len(reply)
    BY <1>1, <1>3, <1>4 DEF WireInv
  <2>2. Len(wire) # Len(reply)
    <3>1. SUFFICES ASSUME Len(wire) = Len(reply) PROVE FALSE
      OBVIOUS
    <3>2. Got = 0
      BY <1>4, <3>1 DEF Got
    <3>3. \A i \in 1..Len(reply) : wire[i] = reply[i]
      BY <1>3, <1>4, <3>1, <3>2 DEF WireInv
    <3>4. wire = reply
      BY <1>4, <3>1, <3>3
    <3> QED
      BY <1>1, <3>4
  <2> QED
    BY <1>4, <2>1, <2>2 DEF Got
<1>6. ASSUME rece_flag = 3, rece_len \notin {Header, StatusLength}
      PROVE  <<rece_len - index, sum>> \in X
  <2>1. rece_len \in Nat /\ index \in Nat /\ sum \in Byte /\ index >= 3 /\ index < rece_len
    BY <1>6, FrameOpen DEF FrameInv
  <2>2. CASE InSync
    <3>1. index = Got /\ rece_len = Len(reply) /\ sum = S[reply][index]
      BY <1>1, <1>3, <1>6, <2>2 DEF SyncInv, InSync, InPlace, Got
    <3>2. index \in 3..(Len(reply) - 1) /\ Len(reply) # StatusLength
      BY <1>5, <1>6, <2>1, <3>1
    <3>3. Begun(reply, S[reply], X)
      BY <1>4, MixtureFacts
    <3> QED
      BY <3>1, <3>2, <3>3 DEF Begun
  <2>3. CASE ~InSync
    <3>1. PICK e \in X : /\ e[1] = rece_len - index + Got /\ Got < e[1]
                         /\ sum = (e[2] + P[reply][Got]) % 256
      BY <1>1, <1>3, <1>6, <2>3 DEF MixInv
    <3>2. Continued(reply, P[reply], X)
      BY <1>4, MixtureFacts
    <3>3. <<e[1] - Got, (e[2] + P[reply][Got]) % 256>> \in X
      BY <1>4, <1>5, <3>1, <3>2 DEF Continued
    <3>4. e[1] - Got = rece_len - index
      BY <1>4, <1>5, <2>1, <3>1
    <3> QED
      BY <3>1, <3>3, <3>4
  <2> QED
    BY <2>2, <2>3
<1> QED
  BY <1>1, <1>2, <1>6 DEF MixInv

(* What the app is notified of, header and frame.                          *)
LEMMA NotifiedStep ==
  ASSUME ReceiveByte, NEW total, total = (sum + Head(wire)) % 256
  PROVE  /\ rece_flag # 3 => app' = Nothing
         /\ rece_flag = 3 /\ rece_len > index + 1 => app' = Nothing
         /\ rece_flag = 3 /\ ~(rece_len > index + 1) =>
              app' = IF ~(rece_len > 3 /\ total = 255) THEN Nothing
                     ELSE IF InSync /\ rece_len = Len(reply) THEN reply ELSE <<rece_len>>
<1>1. CASE (FirstHeader(Head(wire)) \/ SecondHeader(Head(wire)) \/ LengthByte(Head(wire)))
           /\ app' = Nothing
  BY <1>1 DEF FirstHeader, SecondHeader, LengthByte
<1>2. CASE FrameByte(Head(wire))
  BY <1>2 DEF FrameByte, LastByte, FrameChecked, InSync
<1> QED
  BY <1>1, <1>2 DEF ReceiveByte

(* A reply read from its first byte on is notified as it is.               *)
LEMMA ReceiveInSyncMix ==
  ASSUME NEW S, Sums(S), NEW P, NEW X, FrameInv(S, P, X), ReceiveByte, InSync
  PROVE  MixInv(P, X)' /\ AcksAreReplies'
<1>1. LossInv(S) /\ TypeOK /\ WireInv /\ SyncInv(S)
  BY DEF FrameInv, LossInv
<1>2. /\ reply \in Replies /\ reply' = reply /\ wire # <<>>
      /\ Got \in 0..(Len(reply) - 1) /\ Got' = Got + 1
      /\ wire' = <<>> => Got + 1 >= Len(reply)
  BY <1>1, ByteArrives
<1>3. /\ Len(reply) \in Nat /\ 5 <= Len(reply) /\ rece_flag \in 0..3 /\ index \in 0..254
      /\ Got = index /\ whole' = TRUE
      /\ rece_flag < 3 => index = rece_flag
  BY <1>1, Reading
<1>4. InSync' <=> Got' = index'
  BY <1>3 DEF InSync, InPlace, Got
<1> DEFINE total == (sum + Head(wire)) % 256
<1>5. rece_flag = 3 => rece_len = Len(reply)
  BY <1>1, <1>2 DEF SyncInv
<1>6. MixInv(P, X)'
  <2>1. SUFFICES ASSUME rece_flag' = 3 PROVE wire' # <<>> /\ InSync'
    BY DEF MixInv
  <2>2. rece_flag \in {2, 3}
    BY <1>1, <1>3, <2>1, HeaderStep
  <2>3. CASE rece_flag = 2
    <3>1. index' = index + 1
      BY <1>1, <2>3, HeaderStep
    <3> QED
      BY <1>2, <1>3, <1>4, <2>3, <3>1
  <2>4. CASE rece_flag = 3
    <3>1. rece_len > index + 1 /\ index' = index + 1
      BY <1>1, <2>1, <2>4, FrameStep
    <3> QED
      BY <1>2, <1>3, <1>4, <1>5, <2>4, <3>1
  <2> QED
    BY <2>2, <2>3, <2>4
<1>7. AcksAreReplies'
  <2>1. app' = Nothing \/ app' = reply
    BY <1>5, NotifiedStep
  <2>2. Len(Nothing) = 0
    BY DEF Nothing
  <2>3. CASE app' = Nothing
    BY <2>2, <2>3 DEF AcksAreReplies
  <2>4. CASE app' = reply
    BY <1>3, <2>4 DEF AcksAreReplies
  <2> QED
    BY <2>1, <2>3, <2>4
<1> QED
  BY <1>6, <1>7

(* Any other goes into the frame at hand, and does not complete it well.   *)
LEMMA ReceiveLostMix ==
  ASSUME NEW S, Sums(S), NEW P, NEW X, MixturesRefused(Replies, S, P, X),
         FrameInv(S, P, X), ReceiveByte, ~InSync
  PROVE  MixInv(P, X)' /\ AcksAreReplies'
<1>1. LossInv(S) /\ TypeOK /\ WireInv /\ LostInv /\ MixInv(P, X)
  BY DEF FrameInv, LossInv
<1>2. /\ reply \in Replies /\ reply' = reply /\ wire # <<>>
      /\ Head(wire) = reply[Got + 1]
      /\ Got \in 0..(Len(reply) - 1) /\ Got' = Got + 1
      /\ wire' = <<>> => Got + 1 >= Len(reply)
  BY <1>1, ByteArrives
<1>3. /\ Len(reply) \in Nat /\ 5 <= Len(reply) /\ rece_flag \in 0..3
      /\ rece_flag = 2 => Got <= 1
  BY <1>1, <1>2, Reading DEF LostInv
<1>4. CASE rece_flag # 3
  <2>1. app' = Nothing
    BY <1>4, NotifiedStep
  <2>2. rece_flag' = 3 => rece_len' = Header
    <3>1. SUFFICES ASSUME rece_flag' = 3 PROVE rece_len' = Header
      OBVIOUS
    <3>2. rece_flag = 2 /\ rece_len' = Head(wire)
      BY <1>1, <1>3, <1>4, <3>1, HeaderStep
    <3>3. Got + 1 \in 1..2
      BY <1>2, <1>3, <3>2
    <3> QED
      BY <1>2, <3>2, <3>3, Shape
  <2> QED
    BY <2>1, <2>2 DEF MixInv, AcksAreReplies, Nothing
<1>5. CASE rece_flag = 3 /\ rece_len \in {Header, StatusLength}
  <2> DEFINE total == (sum + Head(wire)) % 256
  <2>1. app' = Nothing \/ app' = reply \/ app' = <<rece_len>>
    BY <1>5, NotifiedStep
  <2>2. AcksAreReplies'
    <3>1. Len(Nothing) = 0 /\ <<rece_len>>[1] = rece_len
      BY DEF Nothing
    <3>2. CASE app' = Nothing
      BY <3>1, <3>2 DEF AcksAreReplies
    <3>3. CASE app' = reply
      BY <1>3, <3>3 DEF AcksAreReplies
    <3>4. CASE app' = <<rece_len>>
      BY <1>5, <3>1, <3>4 DEF AcksAreReplies
    <3> QED
      BY <2>1, <3>2, <3>3, <3>4
  <2>3. rece_flag' = 3 => rece_len' = rece_len
    BY <1>1, <1>5, FrameStep
  <2> QED
    BY <1>5, <2>2, <2>3 DEF MixInv
<1>6. CASE rece_flag = 3 /\ rece_len \notin {Header, StatusLength}
  <2> DEFINE total == (sum + Head(wire)) % 256
             k == Got + 1
  <2>1. PICK e \in X : /\ e[1] = rece_len - index + Got /\ Got < e[1]
                       /\ sum = (e[2] + P[reply][Got]) % 256
    BY <1>1, <1>2, <1>6 DEF MixInv
  <2>2. e[1] \in Nat /\ e[2] \in Byte
    BY <1>2, MixtureFacts
  <2>3. rece_len \in Nat /\ index \in Nat /\ index < rece_len
    BY <1>1, <1>6, FrameOpen
  <2>4. k \in 1..Len(reply) /\ k - 1 = Got /\ Got \in 0..Len(reply)
    BY <1>2, <1>3
  <2>5. total = (e[2] + P[reply][k]) % 256
    <3>1. P[reply][k] = (P[reply][k - 1] + reply[k]) % 256
      BY <1>2, <2>4, MixtureFacts
    <3>2. P[reply][Got] \in Byte
      BY <1>2, <2>4, MixtureFacts
    <3>3. reply[k] \in Byte
      BY <1>2, <2>4, BridgeAssumption
    <3> DEFINE a == e[2]
               p == P[reply][Got]
               b == reply[k]
    <3>4. a \in Byte /\ p \in Byte /\ b \in Byte
      BY <2>2, <3>2, <3>3
    <3>5. sum = (a + p) % 256 /\ Head(wire) = b /\ P[reply][k] = (p + b) % 256
      BY <1>2, <2>1, <2>4, <3>1
    <3> HIDE DEF a, p, b
    <3>6. (((a + p) % 256) + b) % 256 = (a + ((p + b) % 256)) % 256
      BY <3>4 DEF Byte
    <3> QED
      BY <3>5, <3>6 DEF a
  <2> HIDE DEF total, k
  <2>6. CASE rece_len > index + 1
    <3>1. rece_flag' = 3 /\ rece_len' = rece_len /\ index' = index + 1 /\ sum' = total
      BY <1>1, <1>6, <2>6, FrameStep DEF total
    <3>2. e[1] = rece_len' - index' + Got' /\ Got' < e[1] /\ Got' = k
      BY <1>2, <2>1, <2>2, <2>3, <2>6, <3>1 DEF k
    <3>3. sum' = (e[2] + P[reply'][Got']) % 256
      BY <1>2, <2>5, <3>1, <3>2
    <3>4. wire' = <<>> => <<rece_len' - index', sum'>> \in X
      <4>1. Continued(reply, P[reply], X)
        BY <1>2, MixtureFacts
      <4>2. <<e[1] - k, (e[2] + P[reply][k]) % 256>> \in X
        BY <2>4, <3>2, <4>1 DEF Continued
      <4>3. e[1] - k = rece_len' - index'
        BY <1>2, <2>2, <2>3, <3>1, <3>2
      <4> QED
        BY <2>5, <3>1, <4>2, <4>3
    <3>5. MixInv(P, X)'
      BY <3>2, <3>3, <3>4 DEF MixInv
    <3>6. app' = Nothing
      BY <1>6, <2>6, NotifiedStep
    <3> QED
      BY <3>5, <3>6 DEF AcksAreReplies, Nothing
  <2>7. CASE ~(rece_len > index + 1)
    <3>1. rece_flag' = 0
      BY <1>1, <1>6, <2>7, FrameStep DEF total
    <3>2. k = e[1]
      BY <1>2, <2>1, <2>2, <2>3, <2>7 DEF k
    <3>3. total # 255
      <4>1. Refused(reply, P[reply], X)
        BY <1>2, MixtureFacts
      <4> QED
        BY <2>4, <2>5, <3>2, <4>1 DEF Refused
    <3>4. app' = Nothing
      BY <1>6, <2>7, <3>3, NotifiedStep DEF total
    <3> QED
      BY <3>1, <3>4 DEF MixInv, AcksAreReplies, Nothing
  <2> QED
    BY <2>6, <2>7
<1> QED
  BY <1>4, <1>5, <1>6

LEMMA NextMix ==
  ASSUME NEW S, Sums(S), NEW P, NEW X, MixturesRefused(Replies, S, P, X)
  PROVE  FrameInv(S, P, X) /\ [Next]_vars => FrameInv(S, P, X)'
<1> SUFFICES ASSUME FrameInv(S, P, X), [Next]_vars PROVE FrameInv(S, P, X)'
  OBVIOUS
<1>1. LossInv(S)'
  BY NextLoss DEF FrameInv
<1>2. CASE UNCHANGED vars
  <2>1. /\ reply' = reply /\ wire' = wire /\ rece_flag' = rece_flag /\ rece_len' = rece_len
        /\ index' = index /\ sum' = sum /\ whole' = whole /\ app' = app
    BY <1>2 DEF vars, mcu, parser
  <2> QED
    BY <1>1, <2>1 DEF FrameInv, MixInv, AcksAreReplies, Got, InSync, InPlace
<1>3. ASSUME NEW r \in Replies, StartReply(r) PROVE FrameInv(S, P, X)'
  BY <1>1, <1>3, StartReplyMix DEF FrameInv
<1>4. CASE CutReply
  BY <1>1, <1>4, CutReplyMix DEF FrameInv
<1>5. CASE ReceiveByte
  BY <1>1, <1>5, ReceiveInSyncMix, ReceiveLostMix DEF FrameInv
<1> QED
  BY <1>2, <1>3, <1>4, <1>5 DEF Next

(* However many replies are cut and wherever, an answer that tells of a    *)
(* command's success is one the MCU sent: uart_event_handle has no timeout *)
(* and fills the frame of a cut answer from the next one, but the checksum *)
(* refuses every such mixture, unless the cut answer was a status or its   *)
(* length was lost.                                                        *)
THEOREM AcksAreGenuine ==
  ASSUME NEW S, Sums(S), NEW P, NEW X, MixturesRefused(Replies, S, P, X)
  PROVE  Spec => []AcksAreReplies
<1>1. Init => FrameInv(S, P, X)
  <2>1. Init => LossInv(S)
    BY InitLoss
  <2> QED
    BY <2>1 DEF FrameInv, MixInv, AcksAreReplies, Init, Nothing
<1>2. FrameInv(S, P, X) /\ [Next]_vars => FrameInv(S, P, X)'
  BY NextMix
<1>3. FrameInv(S, P, X) => AcksAreReplies
  BY DEF FrameInv
<1> QED
  BY <1>1, <1>2, <1>3, PTL DEF Spec
=============================================================================
