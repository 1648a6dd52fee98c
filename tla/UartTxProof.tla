------------------------------ MODULE UartTxProof ------------------------------
(***************************************************************************)
(* Proofs about the transmit path of the BLE module, for every size of     *)
(* FIFO and write and wherever a write event falls into the transmit       *)
(* interrupt: the positions keep to their type, bytes are never left in    *)
(* the FIFO with nothing to send them, they go out in order, and each such *)
(* event costs at most one byte passed over and one sent twice.            *)
(***************************************************************************)
EXTENDS UartTx, TLAPS

LEMMA Sizes == Cap \in Nat /\ Cap > 0 /\ Wrap \in Nat /\ Wrap > 0 /\ MaxWrite \in Nat
  BY TxAssumption

LEMMA AfterPosition ==
  ASSUME NEW pos \in Position
  PROVE  After(pos) \in Position
  BY Sizes DEF After, Position

LEMMA AtCell ==
  ASSUME NEW pos \in Position
  PROVE  At(pos) \in 0..Cap - 1
  BY Sizes DEF At, Position

LEMMA ShiftTypes ==
  ASSUME NEW b \in Nat, Shift(b), last \in Nat, skipped \in Nat, twice \in Nat
  PROVE  last' \in Nat /\ skipped' \in Nat /\ twice' \in Nat
  BY DEF Shift

LEMMA StartTypes ==
  ASSUME TypeOK, NEW b \in Nat, StartTransmitter(b)
  PROVE  /\ busy' = TRUE /\ endtx' = FALSE /\ line' = TRUE
         /\ last' \in Nat /\ skipped' \in Nat /\ twice' \in Nat
  BY ShiftTypes DEF StartTransmitter, TypeOK, sent

LEMMA QueueTypes ==
  ASSUME TypeOK, Queue
  PROVE  buf' \in [0..Cap - 1 -> Nat] /\ write_pos' \in Position /\ put' \in Nat
  BY AfterPosition, AtCell DEF TypeOK, Queue

LEMMA EmptyBuffer == [i \in 0..Cap - 1 |-> 0] \in [0..Cap - 1 -> Nat]
  OBVIOUS

LEMMA InitType == Init => TypeOK
<1> SUFFICES ASSUME Init PROVE TypeOK
  OBVIOUS
<1>1. 0 \in Position
  BY Sizes DEF Position
<1>2. buf \in [0..Cap - 1 -> Nat]
  BY EmptyBuffer DEF Init
<1> QED
  BY <1>1, <1>2 DEF Init, TypeOK, Place

LEMMA PutType ==
  ASSUME TypeOK, Put
  PROVE  TypeOK'
<1>1. buf' \in [0..Cap - 1 -> Nat] /\ write_pos' \in Position /\ put' \in Nat
  BY QueueTypes DEF Put
<1>2. /\ left' \in Nat /\ isr' \in Place /\ tmp' \in Position
      /\ raced' \in Nat /\ stray' \in BOOLEAN
  BY DEF Put, TypeOK
<1>3. CASE UNCHANGED <<read_pos, tx_buffer, busy, line, endtx, sent>>
  BY <1>1, <1>2, <1>3 DEF TypeOK, sent
<1>4. CASE /\ tx_buffer' = buf'[At(read_pos)] /\ read_pos' = After(read_pos)
           /\ StartTransmitter(tx_buffer')
  <2>1. tx_buffer' \in Nat /\ read_pos' \in Position
    BY <1>1, <1>4, AfterPosition, AtCell DEF TypeOK
  <2> QED
    BY <1>1, <1>2, <1>4, <2>1, StartTypes DEF TypeOK
<1> QED
  BY <1>3, <1>4 DEF Put

LEMMA WriterType ==
  ASSUME TypeOK, (\E n \in 1..MaxWrite : WriteEvent(n)) \/ PutFails \/ LineDone
  PROVE  TypeOK'
<1>1. CASE \E n \in 1..MaxWrite : WriteEvent(n)
  BY <1>1, Sizes DEF WriteEvent, TypeOK, fifo, sent
<1>2. CASE PutFails
  <2>1. 0 \in Position
    BY Sizes DEF Position
  <2> QED
    BY <1>2, <2>1, EmptyBuffer DEF PutFails, TypeOK, Place
<1>3. CASE LineDone
  BY <1>3 DEF LineDone, TypeOK, fifo, sent
<1> QED
  BY <1>1, <1>2, <1>3

LEMMA IsrType ==
  ASSUME TypeOK, Isr
  PROVE  TypeOK'
<1>1. CASE IsrDone
  BY <1>1 DEF IsrDone, TypeOK, Place, fifo, sent
<1>2. CASE IsrGet
  BY <1>2 DEF IsrGet, TypeOK, Place, fifo, sent
<1>3. CASE IsrSize
  BY <1>3 DEF IsrSize, TypeOK, Place, fifo, sent
<1>4. CASE IsrPeek
  BY <1>4, AtCell DEF IsrPeek, TypeOK, Place, fifo, sent
<1>5. CASE IsrLoad
  BY <1>5 DEF IsrLoad, TypeOK, Place, fifo, sent
<1>6. CASE IsrStore
  <2>1. read_pos' \in Position
    BY <1>6, AfterPosition DEF IsrStore, TypeOK
  <2>2. stray' \in BOOLEAN
    BY <1>6, Zenon DEF IsrStore, TypeOK
  <2> QED
    BY <1>6, <2>1, <2>2 DEF IsrStore, TypeOK, Place, sent
<1>7. CASE IsrTx
  BY <1>7 DEF IsrTx, TypeOK, Place, fifo, sent
<1>8. CASE IsrStart
  BY <1>8, StartTypes DEF IsrStart, TypeOK, Place, fifo, sent
<1> QED
  BY <1>1, <1>2, <1>3, <1>4, <1>5, <1>6, <1>7, <1>8 DEF Isr

LEMMA NextType == TypeOK /\ [Next]_vars => TypeOK'
<1> SUFFICES ASSUME TypeOK, [Next]_vars PROVE TypeOK'
  OBVIOUS
<1>1. CASE UNCHANGED vars
  BY <1>1 DEF vars, fifo, sent, TypeOK
<1> QED
  BY <1>1, PutType, WriterType, IsrType DEF Next

(* No order of writes and interrupts drives a position out of uint32 or a  *)
(* cell index out of the FIFO's buffer.                                    *)
THEOREM TxTypeCorrect == Spec => []TypeOK
  BY InitType, NextType, PTL DEF Spec

-----------------------------------------------------------------------------
(* NoStall is not inductive: an interrupt that has found the FIFO empty    *)
(* must know that this is still so.  It is, or else read_pos has moved     *)
(* under it, and then the writer that moved it has started the line.       *)

StaleReadStarted == isr = "size" /\ tmp # read_pos => busy

StallInv == NoStall /\ StaleReadStarted

LEMMA InitStall == Init => StallInv
<1> SUFFICES ASSUME Init PROVE StallInv
  OBVIOUS
<1>1. Length = 0
  BY Sizes DEF Init, Length, LengthFrom
<1> QED
  BY <1>1 DEF Init, StallInv, NoStall, StaleReadStarted

LEMMA PutStall ==
  ASSUME StallInv, Put
  PROVE  StallInv'
<1>1. CASE busy /\ UNCHANGED <<read_pos, tx_buffer, busy, line, endtx, sent>>
  BY <1>1 DEF Put, StallInv, NoStall, StaleReadStarted
<1>2. CASE StartTransmitter(tx_buffer')
  BY <1>2 DEF StartTransmitter, StallInv, NoStall, StaleReadStarted
<1> QED
  BY <1>1, <1>2 DEF Put

LEMMA WriterStall ==
  ASSUME StallInv, TypeOK,
         (\E n \in 1..MaxWrite : WriteEvent(n)) \/ PutFails \/ LineDone
  PROVE  StallInv'
<1>1. CASE \E n \in 1..MaxWrite : WriteEvent(n)
  BY <1>1, Sizes
     DEF WriteEvent, StallInv, NoStall, StaleReadStarted, fifo, Length, LengthFrom
<1>2. CASE PutFails
  <2>1. Length' = 0
    BY <1>2, Sizes DEF PutFails, Length, LengthFrom
  <2> QED
    BY <1>2, <2>1 DEF PutFails, StallInv, NoStall, StaleReadStarted
<1>3. CASE LineDone
  BY <1>3 DEF LineDone, StallInv, NoStall, StaleReadStarted, fifo, Length, LengthFrom
<1> QED
  BY <1>1, <1>2, <1>3

LEMMA IsrStall ==
  ASSUME StallInv, TypeOK, Isr
  PROVE  StallInv'
<1> USE DEF StallInv, NoStall, StaleReadStarted, Interrupt, fifo, Length, LengthFrom
<1>1. CASE IsrDone
  BY <1>1 DEF IsrDone, TypeOK
<1>2. CASE IsrGet
  BY <1>2 DEF IsrGet
<1>3. CASE IsrSize
  BY <1>3 DEF IsrSize
<1>4. CASE IsrPeek
  BY <1>4 DEF IsrPeek
<1>5. CASE IsrLoad
  BY <1>5 DEF IsrLoad
<1>6. CASE IsrStore
  BY <1>6 DEF IsrStore
<1>7. CASE IsrTx
  BY <1>7 DEF IsrTx
<1>8. CASE IsrStart
  BY <1>8 DEF IsrStart, StartTransmitter
<1> QED
  BY <1>1, <1>2, <1>3, <1>4, <1>5, <1>6, <1>7, <1>8 DEF Isr

LEMMA NextStall == TypeOK /\ StallInv /\ [Next]_vars => StallInv'
<1> SUFFICES ASSUME TypeOK, StallInv, [Next]_vars PROVE StallInv'
  OBVIOUS
<1>1. CASE UNCHANGED vars
  BY <1>1 DEF vars, fifo, StallInv, NoStall, StaleReadStarted, Length, LengthFrom
<1> QED
  BY <1>1, PutStall, WriterStall, IsrStall DEF Next

(* However writes fall into the interrupt, the FIFO is never left waiting  *)
(* for a transmitter that nobody will start.                               *)
THEOREM NeverStalls == Spec => []NoStall
<1>1. StallInv => NoStall
  BY DEF StallInv
<1> QED
  BY <1>1, InitStall, NextStall, TxTypeCorrect, PTL DEF Spec

-----------------------------------------------------------------------------
(* Division with a remainder is unique.                                    *)
LEMMA RemainderIs ==
  ASSUME NEW c \in Nat, c > 0, NEW q \in Int, NEW r \in 0..c - 1
  PROVE  (c * q + r) % c = r
<1> DEFINE n == c * q + r
           p == n \div c
           s == n % c
<1>1. n \in Int /\ p \in Int /\ s \in 0..c - 1 /\ n = c * p + s
  BY SMT
<1>2. c * q + r = c * p + s
  BY <1>1
<1> HIDE DEF n, p, s
<1>3. ASSUME q > p PROVE FALSE
  <2>1. c * q >= c * (p + 1)
    BY <1>1, <1>3, SMT
  <2>2. c * (p + 1) = c * p + c
    BY <1>1, SMT
  <2> QED
    BY <1>1, <1>2, <2>1, <2>2, SMT
<1>4. ASSUME p > q PROVE FALSE
  <2>1. c * p >= c * (q + 1)
    BY <1>1, <1>4, SMT
  <2>2. c * (q + 1) = c * q + c
    BY SMT
  <2> QED
    BY <1>1, <1>2, <2>1, <2>2, SMT
<1>5. q = p
  BY <1>1, <1>3, <1>4
<1>6. s = r
  BY <1>1, <1>2, <1>5, SMT
<1> QED
  BY <1>6 DEF n, s

LEMMA SmallRemainder ==
  ASSUME NEW c \in Nat, c > 0, NEW n \in Int
  PROVE  /\ n \in 0..c - 1 => n % c = n
         /\ n \in -c..-1 => n % c = n + c
         /\ n = c => n % c = 0
  BY SMT

(* The number of bytes between two positions.                              *)
Distance(w, p) == IF w >= p THEN w - p ELSE w - p + Wrap

LEMMA LengthIs ==
  ASSUME NEW w \in Position, NEW p \in Position
  PROVE  (w - p) % Wrap = Distance(w, p)
<1>1. Wrap \in Nat /\ Wrap > 0
  BY TxAssumption
<1>2. w - p \in 0..Wrap - 1 \/ w - p \in -Wrap..-1
  BY <1>1 DEF Position
<1> QED
  BY <1>1, <1>2, SmallRemainder DEF Distance, Position

LEMMA AfterIs ==
  ASSUME NEW pos \in Position
  PROVE  After(pos) = IF pos + 1 = Wrap THEN 0 ELSE pos + 1
<1>1. Wrap \in Nat /\ Wrap > 0
  BY TxAssumption
<1>2. pos + 1 \in 0..Wrap - 1 \/ pos + 1 = Wrap
  BY <1>1 DEF Position
<1> QED
  BY <1>1, <1>2, SmallRemainder DEF After, Position

(* The cell of the next position is the next cell.                         *)
Forward(c) == IF c + 1 = Cap THEN 0 ELSE c + 1

LEMMA AtAfter ==
  ASSUME NEW pos \in Position
  PROVE  /\ At(pos) \in 0..Cap - 1
         /\ At(After(pos)) = Forward(At(pos))
<1>1. /\ Cap \in Nat /\ Cap > 0 /\ Wrap \in Nat /\ Wrap > 0 /\ Wrap % Cap = 0
      /\ pos \in Nat /\ pos < Wrap
  BY TxAssumption DEF Position
<1> DEFINE q == pos \div Cap
           k == Wrap \div Cap
<1>2. q \in Int /\ At(pos) \in 0..Cap - 1 /\ pos = Cap * q + At(pos)
  BY <1>1, SMT DEF At
<1>3. k \in Int /\ Wrap = Cap * k
  BY <1>1, SMT
<1> HIDE DEF q, k
<1>4. CASE At(pos) + 1 < Cap
  <2>1. pos + 1 = Cap * q + (At(pos) + 1) /\ At(pos) + 1 \in 0..Cap - 1
    BY <1>1, <1>2, <1>4, SMT
  <2>2. (pos + 1) % Cap = At(pos) + 1
    BY <1>1, <1>2, <2>1, RemainderIs
  <2>3. pos + 1 # Wrap
    <3>1. Wrap = Cap * k + 0 /\ 0 \in 0..Cap - 1
      BY <1>1, <1>3, SMT
    <3>2. Wrap % Cap = 0
      BY <1>1
    <3> QED
      BY <1>1, <1>2, <2>2, <3>2, SMT
  <2>4. After(pos) = pos + 1
    BY <2>3, AfterIs
  <2> QED
    BY <1>1, <1>2, <1>4, <2>2, <2>4 DEF At, Forward
<1>5. CASE At(pos) + 1 = Cap
  <2>1. pos + 1 = Cap * (q + 1) + 0 /\ q + 1 \in Int /\ 0 \in 0..Cap - 1
    <3>1. Cap * (q + 1) = Cap * q + Cap
      BY <1>1, <1>2, SMT
    <3> QED
      BY <1>1, <1>2, <1>5, <3>1, SMT
  <2>2. (pos + 1) % Cap = 0
    BY <1>1, <2>1, RemainderIs
  <2>3. 0 % Cap = 0
    BY <1>1, SmallRemainder
  <2>4. After(pos) = 0 \/ After(pos) = pos + 1
    BY AfterIs
  <2> QED
    BY <1>2, <1>5, <2>2, <2>3, <2>4 DEF At, Forward
<1> QED
  BY <1>1, <1>2, <1>4, <1>5

(* A byte queued makes the FIFO longer by one, a byte taken out shorter;   *)
(* one taken out of an empty FIFO makes it nearly Wrap long.               *)
LEMMA Distances ==
  ASSUME NEW w \in Position, NEW p \in Position
  PROVE  /\ Distance(w, p) \in 0..Wrap - 1
         /\ Distance(w, p) < Wrap - 1 => Distance(After(w), p) = Distance(w, p) + 1
         /\ Distance(w, p) > 0 => Distance(w, After(p)) = Distance(w, p) - 1
         /\ Distance(w, p) = 0 => Distance(w, After(p)) = Wrap - 1
<1>1. /\ Wrap \in Nat /\ Wrap > 1 /\ w \in 0..Wrap - 1 /\ p \in 0..Wrap - 1
  BY TxAssumption DEF Position
<1>2. /\ After(w) = IF w + 1 = Wrap THEN 0 ELSE w + 1
      /\ After(p) = IF p + 1 = Wrap THEN 0 ELSE p + 1
  BY AfterIs
<1> QED
  BY <1>1, <1>2 DEF Distance

(* More than twice the FIFO fits into the range of its positions.          *)
LEMMA WrapIsTwice ==
  ASSUME Cap > 1
  PROVE  Wrap - 1 > Cap
<1>1. /\ Cap \in Nat /\ Wrap \in Nat /\ Wrap % Cap = 0 /\ Wrap > Cap
  BY TxAssumption
<1> DEFINE k == Wrap \div Cap
<1>2. k \in Int /\ Wrap = Cap * k
  BY <1>1, SMT
<1> HIDE DEF k
<1>3. k >= 2
  <2>1. ASSUME k <= 1 PROVE FALSE
    <3>1. Cap * k <= Cap * 1
      BY <1>1, <1>2, <2>1, SMT
    <3> QED
      BY <1>1, <1>2, <3>1, SMT
  <2> QED
    BY <1>2, <2>1
<1>4. Cap * k >= Cap * 2
  BY <1>1, <1>2, <1>3, SMT
<1> QED
  BY <1>1, <1>2, <1>4, SMT

-----------------------------------------------------------------------------
(* What a write event that falls into the interrupt can cost.  Taken is    *)
(* the number of bytes that have left the FIFO, and so the ordinal of the  *)
(* last of them; Back(c, n) is the cell n before cell c.                   *)

Taken == put - Length
Back(c, n) == IF c >= n THEN c - n ELSE c + Cap - n

(* The FIFO holds the bytes put last, in order.                            *)
CellsInv ==
  /\ Length <= Cap /\ Length <= put
  /\ At(read_pos) = Back(At(write_pos), Length)
  /\ \A n \in 1..Cap : n <= put => buf[Back(At(write_pos), n)] = put - n + 1

(* An interrupt no write event fell into has the oldest byte in hand, and  *)
(* sends it; after one that did, it sends nothing, or that byte again.     *)
PlaceInv ==
  /\ last <= Taken
  /\ isr = "size" => busy \/ tmp = read_pos
  /\ isr \in {"peek", "load", "store"} => busy \/ Length > 0
  /\ isr \in {"load", "store"} => busy \/ tx_buffer = Taken + 1
  /\ isr = "store" => tmp = read_pos \/ (busy /\ read_pos = After(tmp))
  /\ isr \in {"tx", "start"} /\ ~busy => tx_buffer = Taken /\ last < Taken
  /\ isr = "start" /\ busy => tx_buffer = last

(* The byte the interrupt will pass over, the byte it will send again, and *)
(* those it may still come to lose to the write event that is running; the *)
(* byte it has in hand is not lost.                                        *)
ToSkip == IF busy /\ (isr \in {"get", "size", "peek", "load"} \/ (isr = "store" /\ tmp = read_pos))
            THEN 1 ELSE 0
ToDouble == IF busy /\ isr = "start" THEN 1 ELSE 0
AtRisk == IF ~busy /\ isr # "idle" /\ left > 0 THEN 1 ELSE 0
InHand == IF ~busy /\ isr \in {"tx", "start"} THEN 1 ELSE 0

DebtInv ==
  /\ skipped + (Taken - last) + ToSkip + AtRisk <= raced + InHand
  /\ twice + ToDouble + AtRisk <= raced

(* The transmitter is busy while a byte is on the line, and until its end  *)
(* has been handled.                                                       *)
LineInv == ~(line /\ endtx) /\ (~busy => ~line /\ ~endtx)

(* Once read_pos has overtaken write_pos, nothing is known but why.        *)
RaceInv ==
  /\ LineInv
  /\ IF stray THEN raced > 0 ELSE CellsInv /\ PlaceInv /\ DebtInv

LEMMA Backs ==
  ASSUME NEW c \in 0..Cap - 1, NEW n \in 0..Cap
  PROVE  /\ Back(c, n) \in 0..Cap - 1
         /\ Back(Forward(c), 1) = c
         /\ n < Cap => Back(Forward(c), n + 1) = Back(c, n)
         /\ n < Cap /\ n > 0 => Back(Forward(c), n + 1) # c
         /\ n > 0 => Back(c, n - 1) = Forward(Back(c, n))
  BY Sizes DEF Back, Forward

LEMMA LengthTypes ==
  ASSUME TypeOK
  PROVE  /\ Length = Distance(write_pos, read_pos) /\ Length \in 0..Wrap - 1
         /\ Taken \in Int /\ put \in Nat /\ Length \in Nat
<1>1. write_pos \in Position /\ read_pos \in Position /\ put \in Nat
  BY DEF TypeOK
<1>2. Length = Distance(write_pos, read_pos)
  BY <1>1, LengthIs DEF Length, LengthFrom
<1>3. Length \in 0..Wrap - 1
  BY <1>1, <1>2, Distances
<1> QED
  BY <1>1, <1>2, <1>3, Sizes DEF Taken

(* A byte queued: read_pos, which is still the old one, is one further     *)
(* from the end, and the byte there is the first not taken.                *)
LEMMA QueueCells ==
  ASSUME TypeOK, CellsInv, Cap > 1, Queue, Room
  PROVE  /\ Distance(write_pos', read_pos) = Length + 1
         /\ At(read_pos) = Back(At(write_pos'), Length + 1)
         /\ \A n \in 1..Cap : n <= put' => buf'[Back(At(write_pos'), n)] = put' - n + 1
         /\ buf'[At(read_pos)] = Taken + 1
<1> DEFINE c == At(write_pos)
           d == At(write_pos')
<1>1. /\ write_pos \in Position /\ read_pos \in Position /\ put \in Nat
      /\ buf \in [0..Cap - 1 -> Nat] /\ Cap \in Nat /\ Cap > 0
  BY Sizes DEF TypeOK
<1>2. /\ write_pos' = After(write_pos) /\ put' = put + 1
      /\ buf' = [buf EXCEPT ![c] = put + 1]
  BY DEF Queue
<1>3. c \in 0..Cap - 1 /\ d = Forward(c)
  BY <1>1, <1>2, AtAfter
<1>4. Length = Distance(write_pos, read_pos) /\ Length \in Nat /\ Length < Cap /\ Length <= put
  BY LengthTypes DEF Room, CellsInv
<1>5. Distance(write_pos', read_pos) = Length + 1
  <2>1. Length < Wrap - 1
    BY <1>1, <1>4, WrapIsTwice, TxAssumption
  <2> QED
    BY <1>1, <1>2, <1>4, <2>1, Distances
<1> HIDE DEF c, d
<1>6. \A m \in 0..Cap :
        /\ Back(c, m) \in 0..Cap - 1
        /\ Back(d, 1) = c
        /\ m < Cap => Back(d, m + 1) = Back(c, m)
        /\ m < Cap /\ m > 0 => Back(d, m + 1) # c
  BY <1>3, Backs
<1>7. At(read_pos) = Back(d, Length + 1)
  <2>1. At(read_pos) = Back(c, Length)
    BY DEF CellsInv, c
  <2>2. Length \in 0..Cap
    BY <1>1, <1>4
  <2> QED
    BY <1>4, <1>6, <2>1, <2>2
<1>8. ASSUME NEW n \in 1..Cap, n <= put' PROVE buf'[Back(d, n)] = put' - n + 1
  <2>1. CASE n = 1
    <3>1. Back(d, n) = c
      <4>1. 0 \in 0..Cap
        BY <1>1
      <4> QED
        BY <1>6, <2>1, <4>1
    <3> QED
      BY <1>1, <1>2, <1>3, <2>1, <3>1
  <2>2. CASE n # 1
    <3> DEFINE m == n - 1
    <3>1. m \in 1..Cap /\ m \in 0..Cap /\ m < Cap /\ m > 0 /\ n = m + 1 /\ m <= put
      BY <1>1, <1>2, <1>8, <2>2
    <3> HIDE DEF m
    <3>2. Back(d, n) = Back(c, m) /\ Back(d, n) # c /\ Back(c, m) \in 0..Cap - 1
      BY <1>6, <3>1
    <3>3. buf[Back(c, m)] = put - m + 1
      BY <3>1 DEF CellsInv, c
    <3>4. buf'[Back(d, n)] = buf[Back(d, n)]
      BY <1>1, <1>2, <1>3, <3>2
    <3> QED
      BY <1>1, <1>2, <3>1, <3>2, <3>3, <3>4
  <2> QED
    BY <2>1, <2>2
<1>9. buf'[At(read_pos)] = Taken + 1
  <2>1. Length + 1 \in 1..Cap /\ Length + 1 <= put'
    BY <1>1, <1>2, <1>4
  <2>2. buf'[Back(d, Length + 1)] = put' - (Length + 1) + 1
    BY <1>8, <2>1
  <2>3. put' - (Length + 1) + 1 = Taken + 1
    BY <1>1, <1>2, <1>4 DEF Taken
  <2> QED
    BY <1>7, <2>2, <2>3
<1> QED
  BY <1>5, <1>7, <1>8, <1>9 DEF d

LEMMA LengthNext ==
  ASSUME write_pos' \in Position, read_pos' \in Position
  PROVE  Length' = Distance(write_pos', read_pos')
  BY LengthIs DEF Length, LengthFrom

(* app_uart_put queues a byte; the transmitter being at rest, it takes out *)
(* the first one not taken.                                                *)
LEMMA PutCells ==
  ASSUME TypeOK, CellsInv, Cap > 1, Put
  PROVE  /\ CellsInv'
         /\ busy => Taken' = Taken
         /\ ~busy => Taken' = Taken + 1 /\ tx_buffer' = Taken + 1 /\ (Shift(Taken + 1) \/ line)
<1>1. Queue /\ Room
  BY DEF Put
<1>2. /\ write_pos \in Position /\ read_pos \in Position /\ put \in Nat
      /\ Cap \in Nat /\ Cap > 0
  BY Sizes DEF TypeOK
<1>3. /\ write_pos' = After(write_pos) /\ write_pos' \in Position
      /\ put' = put + 1
  BY <1>1, <1>2, AfterPosition DEF Queue
<1>4. /\ Length \in Nat /\ Length < Cap /\ Length <= put
  BY <1>1, LengthTypes DEF Room, CellsInv
<1>5. /\ Distance(write_pos', read_pos) = Length + 1
      /\ At(read_pos) = Back(At(write_pos'), Length + 1)
      /\ \A n \in 1..Cap : n <= put' => buf'[Back(At(write_pos'), n)] = put' - n + 1
      /\ buf'[At(read_pos)] = Taken + 1
  BY <1>1, QueueCells
<1>6. At(read_pos)' = At(read_pos') /\ At(write_pos)' = At(write_pos')
  BY DEF At
<1>7. CASE busy
  <2>1. read_pos' = read_pos
    BY <1>7 DEF Put
  <2>2. Length' = Length + 1
    BY <1>2, <1>3, <1>5, <2>1, LengthNext
  <2>3. CellsInv'
    BY <1>2, <1>3, <1>4, <1>5, <2>1, <2>2 DEF CellsInv, Back, At
  <2>4. Taken' = Taken
    BY <1>2, <1>3, <1>4, <2>2 DEF Taken
  <2> QED
    BY <1>7, <2>3, <2>4
<1>8. CASE ~busy
  <2>1. /\ read_pos' = After(read_pos) /\ read_pos' \in Position
        /\ tx_buffer' = buf'[At(read_pos)] /\ StartTransmitter(tx_buffer')
    BY <1>2, <1>8, AfterPosition DEF Put
  <2>2. Length' = Length
    <3>1. Distance(write_pos', read_pos') = Distance(write_pos', read_pos) - 1
      BY <1>2, <1>3, <1>4, <1>5, <2>1, Distances
    <3> QED
      BY <1>3, <1>4, <1>5, <2>1, <3>1, LengthNext
  <2>3. At(read_pos') = Back(At(write_pos'), Length)
    <3>1. At(read_pos') = Forward(At(read_pos))
      BY <1>2, <2>1, AtAfter
    <3>2. At(write_pos') \in 0..Cap - 1
      BY <1>3, AtAfter
    <3>3. Length + 1 \in 0..Cap /\ Length + 1 > 0 /\ (Length + 1) - 1 = Length
      BY <1>2, <1>4
    <3>4. Back(At(write_pos'), Length) = Forward(Back(At(write_pos'), Length + 1))
      BY <3>2, <3>3, Backs
    <3> QED
      BY <1>5, <3>1, <3>4
  <2>4. CellsInv'
    BY <1>2, <1>3, <1>4, <1>5, <2>2, <2>3 DEF CellsInv, Back, At
  <2>5. Taken' = Taken + 1
    BY <1>2, <1>3, <1>4, <2>2 DEF Taken
  <2>6. tx_buffer' = Taken + 1
    BY <1>5, <2>1
  <2>7. Shift(Taken + 1) \/ line
    BY <2>1, <2>6 DEF StartTransmitter
  <2> QED
    BY <1>8, <2>4, <2>5, <2>6, <2>7
<1> QED
  BY <1>7, <1>8

(* The interrupt takes out a byte that is there.                           *)
LEMMA StoreCells ==
  ASSUME TypeOK, CellsInv, Length > 0, put' = put, buf' = buf, write_pos' = write_pos,
         read_pos' = After(read_pos)
  PROVE  CellsInv' /\ Taken' = Taken + 1
<1>1. /\ write_pos \in Position /\ read_pos \in Position /\ put \in Nat
      /\ Cap \in Nat /\ Cap > 0 /\ read_pos' \in Position
  BY Sizes, AfterPosition DEF TypeOK
<1>2. /\ Length \in Nat /\ Length = Distance(write_pos, read_pos)
      /\ Length <= Cap /\ Length <= put
  BY LengthTypes DEF CellsInv
<1>3. Length' = Length - 1
  <2>1. Distance(write_pos', read_pos') = Distance(write_pos, read_pos) - 1
    BY <1>1, <1>2, Distances
  <2> QED
    BY <1>1, <1>2, <2>1, LengthNext
<1>4. At(read_pos') = Back(At(write_pos), Length - 1)
  <2>1. At(read_pos') = Forward(At(read_pos))
    BY <1>1, AtAfter
  <2>2. At(write_pos) \in 0..Cap - 1 /\ Length \in 0..Cap
    BY <1>1, <1>2, AtAfter
  <2>3. Back(At(write_pos), Length - 1) = Forward(Back(At(write_pos), Length))
    BY <2>2, Backs
  <2> QED
    BY <2>1, <2>3 DEF CellsInv
<1>5. CellsInv'
  BY <1>1, <1>2, <1>3, <1>4 DEF CellsInv, Back, At
<1>6. Taken' = Taken + 1
  BY <1>1, <1>2, <1>3 DEF Taken
<1> QED
  BY <1>5, <1>6

LEMMA LineKept ==
  ASSUME TypeOK, LineInv, [Next]_vars
  PROVE  LineInv'
<1>1. CASE UNCHANGED vars
  BY <1>1 DEF vars, LineInv
<1>2. CASE \E n \in 1..MaxWrite : WriteEvent(n)
  BY <1>2 DEF WriteEvent, LineInv
<1>3. CASE Put
  BY <1>3 DEF Put, StartTransmitter, LineInv
<1>4. CASE PutFails
  BY <1>4 DEF PutFails, LineInv
<1>5. CASE LineDone
  BY <1>5 DEF LineDone, LineInv
<1>6. CASE Isr
  BY <1>6 DEF Isr, IsrDone, IsrGet, IsrSize, IsrPeek, IsrLoad, IsrStore, IsrTx, IsrStart,
              StartTransmitter, LineInv
<1> QED
  BY <1>1, <1>2, <1>3, <1>4, <1>5, <1>6 DEF Next

LEMMA FifoKept ==
  ASSUME UNCHANGED fifo, put' = put
  PROVE  Length' = Length /\ Taken' = Taken /\ (CellsInv => CellsInv')
  BY DEF fifo, Length, LengthFrom, Taken, CellsInv, Back, At

(* The numbers of the invariant, as numbers.                               *)
LEMMA RaceTypes ==
  ASSUME TypeOK
  PROVE  /\ Taken \in Int /\ put \in Nat /\ Length \in Nat
         /\ last \in Nat /\ skipped \in Nat /\ twice \in Nat /\ raced \in Nat /\ left \in Nat
         /\ ToSkip \in 0..1 /\ ToDouble \in 0..1 /\ AtRisk \in 0..1 /\ InHand \in 0..1
  BY LengthTypes DEF TypeOK, ToSkip, ToDouble, AtRisk, InHand

(* A write event that falls into the interrupt puts one byte at risk, if   *)
(* none has before it in the same interrupt.                               *)
LEMMA WriteEventRace ==
  ASSUME TypeOK, CellsInv, PlaceInv, DebtInv, NEW n \in 1..MaxWrite, WriteEvent(n)
  PROVE  CellsInv' /\ PlaceInv' /\ DebtInv'
<1>1. /\ left = 0 /\ left' = n /\ n > 0
      /\ raced' = IF isr = "idle" THEN raced ELSE raced + 1
      /\ UNCHANGED <<fifo, tx_buffer, busy, isr, tmp, put, last, skipped, twice>>
  BY Sizes DEF WriteEvent, sent
<1>2. Length' = Length /\ Taken' = Taken /\ CellsInv'
  BY <1>1, FifoKept
<1>3. PlaceInv'
  BY <1>1, <1>2 DEF PlaceInv, fifo, After
<1>4. ToSkip' = ToSkip /\ ToDouble' = ToDouble /\ InHand' = InHand
  BY <1>1 DEF ToSkip, ToDouble, InHand, fifo
<1>5. AtRisk = 0 /\ (AtRisk' = 0 \/ (AtRisk' = 1 /\ raced' = raced + 1)) /\ raced' >= raced
  BY <1>1, RaceTypes DEF AtRisk
<1>6. DebtInv'
  BY <1>1, <1>2, <1>4, <1>5, RaceTypes DEF DebtInv
<1> QED
  BY <1>2, <1>3, <1>6

(* The writer takes a byte only from a transmitter at rest.  If it does so *)
(* inside the interrupt, the byte at risk is lost, doubled, or the one the *)
(* interrupt has in hand.                                                  *)
LEMMA PutRace ==
  ASSUME TypeOK, Cap > 1, LineInv, CellsInv, PlaceInv, DebtInv, Put
  PROVE  CellsInv' /\ PlaceInv' /\ DebtInv' /\ last' >= last
<1>1. /\ left > 0 /\ left' = left - 1 /\ isr' = isr /\ tmp' = tmp /\ raced' = raced
  BY DEF Put
<1>2. CellsInv'
  BY PutCells
<1>3. CASE busy
  <2>1. UNCHANGED <<read_pos, tx_buffer, busy, last, skipped, twice>> /\ Taken' = Taken
    BY <1>3, PutCells DEF Put, sent
  <2>2. PlaceInv'
    BY <1>1, <1>3, <2>1 DEF PlaceInv, After
  <2>3. ToSkip' = ToSkip /\ ToDouble' = ToDouble /\ InHand' = InHand /\ AtRisk' = AtRisk
    BY <1>1, <1>3, <2>1 DEF ToSkip, ToDouble, InHand, AtRisk
  <2>4. DebtInv'
    BY <1>1, <2>1, <2>3 DEF DebtInv
  <2> QED
    BY <1>2, <2>1, <2>2, <2>4, RaceTypes
<1>4. CASE ~busy
  <2>1. /\ Taken' = Taken + 1 /\ tx_buffer' = Taken + 1 /\ busy'
        /\ read_pos' = After(read_pos) /\ Shift(Taken + 1)
    BY <1>4, PutCells DEF Put, StartTransmitter, LineInv
  <2>2. last <= Taken /\ Taken + 1 > last
    BY RaceTypes DEF PlaceInv
  <2>3. last' = Taken + 1 /\ skipped' = skipped + (Taken - last) /\ twice' = twice
    BY <2>1, <2>2, RaceTypes DEF Shift
  <2>4. read_pos' # read_pos
    <3>1. read_pos \in Position
      BY DEF TypeOK
    <3> QED
      BY <2>1, <3>1, AfterIs, WrapIsTwice, Sizes DEF Position
  <2>5. PlaceInv'
    BY <1>1, <1>4, <2>1, <2>3, RaceTypes DEF PlaceInv, After
  <2>6. /\ isr = "idle" => ToSkip' = 0 /\ ToDouble' = 0
        /\ isr \in {"tx", "start"} => ToSkip' = 0
        /\ isr # "start" => ToDouble' = 0
        /\ isr = "store" => ToSkip' = 0
        /\ AtRisk' = 0 /\ InHand' = 0
        /\ ToSkip' \in 0..1 /\ ToDouble' \in 0..1
    BY <1>1, <1>4, <2>1, <2>4 DEF PlaceInv, ToSkip, ToDouble, AtRisk, InHand
  <2>7. /\ ToSkip = 0 /\ ToDouble = 0
        /\ isr # "idle" => AtRisk = 1
        /\ isr \in {"tx", "start"} <=> InHand = 1
        /\ isr \notin {"tx", "start"} <=> InHand = 0
    BY <1>1, <1>4 DEF ToSkip, ToDouble, AtRisk, InHand
  <2>8. twice' + ToDouble' + AtRisk' <= raced'
    BY <1>1, <2>3, <2>6, <2>7, RaceTypes DEF DebtInv
  <2>9. skipped' + (Taken' - last') + ToSkip' + AtRisk' <= raced' + InHand'
    <3>1. skipped + (Taken - last) + AtRisk <= raced + InHand
      BY <2>7, RaceTypes DEF DebtInv
    <3>2. skipped' + (Taken' - last') = skipped + (Taken - last)
      BY <2>1, <2>3, RaceTypes
    <3>3. ToSkip' <= AtRisk - InHand
      BY <2>6, <2>7, RaceTypes
    <3> QED
      BY <1>1, <2>6, <3>1, <3>2, <3>3, RaceTypes
  <2>10. DebtInv'
    BY <2>8, <2>9 DEF DebtInv
  <2> QED
    BY <1>2, <2>2, <2>3, <2>5, <2>10, RaceTypes
<1> QED
  BY <1>3, <1>4

(* The steps of the interrupt.                                             *)
LEMMA IsrBegins ==
  ASSUME TypeOK, LineInv, CellsInv, PlaceInv, DebtInv, IsrDone \/ IsrGet \/ IsrSize
  PROVE  CellsInv' /\ PlaceInv' /\ DebtInv' /\ last' = last
<1>1. /\ UNCHANGED <<fifo, put, tx_buffer, last, skipped, twice, left, raced>> /\ left = 0
  BY DEF IsrDone, IsrGet, IsrSize, Interrupt, sent
<1>2. Length' = Length /\ Taken' = Taken /\ CellsInv' /\ read_pos' = read_pos
  BY <1>1, FifoKept DEF fifo
<1>3. CASE IsrDone
  <2>1. isr = "idle" /\ isr' = "get" /\ ~busy' /\ busy
    BY <1>3 DEF IsrDone, LineInv
  <2>2. PlaceInv'
    BY <1>1, <1>2, <2>1 DEF PlaceInv
  <2>3. ToSkip' = 0 /\ ToDouble' = 0 /\ AtRisk' = 0 /\ InHand' = 0 /\ AtRisk = 0 /\ InHand = 0
    BY <1>1, <2>1 DEF ToSkip, ToDouble, AtRisk, InHand
  <2>4. DebtInv'
    BY <1>1, <1>2, <2>3, RaceTypes DEF DebtInv
  <2> QED
    BY <1>1, <1>2, <2>2, <2>4
<1>4. CASE IsrGet
  <2>1. isr = "get" /\ isr' = "size" /\ busy' = busy /\ tmp' = read_pos
    BY <1>4 DEF IsrGet
  <2>2. PlaceInv'
    BY <1>1, <1>2, <2>1 DEF PlaceInv
  <2>3. ToSkip' = ToSkip /\ ToDouble' = ToDouble /\ AtRisk' = AtRisk /\ InHand' = InHand
    BY <1>1, <1>2, <2>1 DEF ToSkip, ToDouble, AtRisk, InHand
  <2>4. DebtInv'
    BY <1>1, <1>2, <2>3, RaceTypes DEF DebtInv
  <2> QED
    BY <1>1, <1>2, <2>2, <2>4
<1>5. CASE IsrSize
  <2>1. /\ isr = "size" /\ busy' = busy /\ tmp' = tmp
        /\ isr' = "idle" \/ (isr' = "peek" /\ LengthFrom(tmp) # 0)
    BY <1>5 DEF IsrSize
  <2>2. isr' = "peek" => busy \/ Length > 0
    BY <2>1, RaceTypes DEF PlaceInv, Length
  <2>3. PlaceInv'
    BY <1>1, <1>2, <2>1, <2>2 DEF PlaceInv
  <2>4. ToSkip' <= ToSkip /\ ToDouble' = ToDouble /\ AtRisk' = 0 /\ AtRisk = 0
        /\ InHand' = 0 /\ InHand = 0 /\ ToSkip' \in 0..1
    BY <1>1, <1>2, <2>1 DEF ToSkip, ToDouble, AtRisk, InHand
  <2>5. DebtInv'
    BY <1>1, <1>2, <2>4, RaceTypes DEF DebtInv
  <2> QED
    BY <1>1, <1>2, <2>3, <2>5
<1> QED
  BY <1>3, <1>4, <1>5

LEMMA IsrReads ==
  ASSUME TypeOK, CellsInv, PlaceInv, DebtInv, IsrPeek \/ IsrLoad
  PROVE  CellsInv' /\ PlaceInv' /\ DebtInv' /\ last' = last
<1>1. /\ UNCHANGED <<fifo, put, busy, last, skipped, twice, left, raced>> /\ left = 0
  BY DEF IsrPeek, IsrLoad, Interrupt, sent
<1>2. Length' = Length /\ Taken' = Taken /\ CellsInv' /\ read_pos' = read_pos
  BY <1>1, FifoKept DEF fifo
<1>3. CASE IsrPeek
  <2>1. isr = "peek" /\ isr' = "load" /\ tmp' = tmp /\ tx_buffer' = buf[At(read_pos)]
    BY <1>3 DEF IsrPeek
  <2>2. Length > 0 => tx_buffer' = Taken + 1
    <3>1. ASSUME Length > 0 PROVE tx_buffer' = Taken + 1
      <4>1. Length \in 1..Cap /\ Length <= put /\ Length \in Nat /\ put \in Nat
        BY <3>1, RaceTypes, Sizes DEF CellsInv
      <4>2. buf[Back(At(write_pos), Length)] = put - Length + 1
        BY <4>1 DEF CellsInv
      <4> QED
        BY <2>1, <4>1, <4>2 DEF CellsInv, Taken
    <3> QED
      BY <3>1
  <2>3. PlaceInv'
    BY <1>1, <1>2, <2>1, <2>2 DEF PlaceInv
  <2>4. ToSkip' = ToSkip /\ ToDouble' = ToDouble /\ AtRisk' = AtRisk /\ InHand' = InHand
    BY <1>1, <1>2, <2>1 DEF ToSkip, ToDouble, AtRisk, InHand
  <2>5. DebtInv'
    BY <1>1, <1>2, <2>4, RaceTypes DEF DebtInv
  <2> QED
    BY <1>1, <1>2, <2>3, <2>5
<1>4. CASE IsrLoad
  <2>1. isr = "load" /\ isr' = "store" /\ tmp' = read_pos /\ tx_buffer' = tx_buffer
    BY <1>4 DEF IsrLoad
  <2>2. PlaceInv'
    BY <1>1, <1>2, <2>1 DEF PlaceInv
  <2>3. ToSkip' = ToSkip /\ ToDouble' = ToDouble /\ AtRisk' = AtRisk /\ InHand' = InHand
    BY <1>1, <1>2, <2>1 DEF ToSkip, ToDouble, AtRisk, InHand
  <2>4. DebtInv'
    BY <1>1, <1>2, <2>3, RaceTypes DEF DebtInv
  <2> QED
    BY <1>1, <1>2, <2>2, <2>4
<1> QED
  BY <1>3, <1>4

(* read_pos++ takes a byte, or does again what the writer did; from a FIFO *)
(* the writer has emptied, it takes what is not there.                     *)
LEMMA IsrStoreRace ==
  ASSUME TypeOK, Cap > 1, ~stray, CellsInv, PlaceInv, DebtInv, IsrStore
  PROVE  /\ last' = last
         /\ IF stray' THEN raced' > 0 ELSE CellsInv' /\ PlaceInv' /\ DebtInv'
<1>1. /\ UNCHANGED <<buf, write_pos, put, tx_buffer, busy, last, skipped, twice, left, raced, tmp>>
      /\ left = 0 /\ isr = "store" /\ isr' = "tx" /\ read_pos' = After(tmp)
      /\ stray' = (stray \/ (write_pos - read_pos') % Wrap > Cap)
  BY DEF IsrStore, Interrupt, sent
<1>2. read_pos \in Position /\ write_pos \in Position /\ Wrap \in Nat /\ Cap \in Nat
  BY Sizes DEF TypeOK
<1>3. ToSkip' = 0 /\ ToDouble' = 0 /\ AtRisk' = 0 /\ AtRisk = 0 /\ InHand = 0
  BY <1>1 DEF ToSkip, ToDouble, AtRisk, InHand
<1>4. CASE tmp = read_pos /\ Length > 0
  <2>1. CellsInv' /\ Taken' = Taken + 1
    BY <1>1, <1>4, StoreCells
  <2>2. ~stray'
    <3>1. Distance(write_pos, read_pos') = Length - 1 /\ read_pos' \in Position
      BY <1>1, <1>2, <1>4, LengthTypes, Distances, AfterPosition
    <3>2. (write_pos - read_pos') % Wrap = Length - 1
      BY <1>2, <3>1, LengthIs
    <3>3. ~(Length - 1 > Cap)
      BY <1>2, RaceTypes DEF CellsInv
    <3> QED
      BY <1>1, <3>2, <3>3
  <2>3. PlaceInv'
    BY <1>1, <2>1, RaceTypes DEF PlaceInv
  <2>4. busy => ToSkip = 1 /\ InHand' = 0
    BY <1>1, <1>4 DEF ToSkip, InHand
  <2>5. ~busy => ToSkip = 0 /\ InHand' = 1
    BY <1>1 DEF ToSkip, InHand
  <2>6. DebtInv'
    BY <1>1, <1>3, <2>1, <2>4, <2>5, RaceTypes DEF DebtInv
  <2> QED
    BY <1>1, <2>1, <2>2, <2>3, <2>6
<1>5. CASE tmp = read_pos /\ ~(Length > 0)
  <2>1. busy /\ ToSkip = 1
    BY <1>1, <1>5 DEF PlaceInv, ToSkip
  <2>2. raced > 0
    BY <1>3, <2>1, RaceTypes DEF DebtInv, PlaceInv
  <2>3. stray'
    <3>1. Length = 0
      BY <1>5, RaceTypes
    <3>2. Distance(write_pos, read_pos') = Wrap - 1 /\ read_pos' \in Position
      BY <1>1, <1>2, <1>5, <3>1, LengthTypes, Distances, AfterPosition
    <3>3. (write_pos - read_pos') % Wrap = Wrap - 1
      BY <1>2, <3>2, LengthIs
    <3> QED
      BY <1>1, <3>3, WrapIsTwice
  <2> QED
    BY <1>1, <2>2, <2>3
<1>6. CASE ~(tmp = read_pos)
  <2>1. busy /\ read_pos' = read_pos
    BY <1>1, <1>6 DEF PlaceInv
  <2>2. Length' = Length /\ Taken' = Taken /\ CellsInv'
    BY <1>1, <2>1, FifoKept DEF fifo
  <2>3. ~stray'
    <3>1. (write_pos - read_pos') % Wrap = Length
      BY <2>1 DEF Length, LengthFrom
    <3>2. ~(Length > Cap)
      BY <1>2, RaceTypes DEF CellsInv
    <3> QED
      BY <1>1, <3>1, <3>2
  <2>4. PlaceInv'
    BY <1>1, <2>1, <2>2 DEF PlaceInv
  <2>5. InHand' = 0
    BY <1>1, <2>1 DEF InHand
  <2>6. DebtInv'
    BY <1>1, <1>3, <2>2, <2>5, RaceTypes DEF DebtInv
  <2> QED
    BY <1>1, <2>2, <2>3, <2>4, <2>6
<1> QED
  BY <1>4, <1>5, <1>6

LEMMA IsrSends ==
  ASSUME TypeOK, LineInv, CellsInv, PlaceInv, DebtInv, IsrTx \/ IsrStart
  PROVE  CellsInv' /\ PlaceInv' /\ DebtInv' /\ last' >= last
<1>1. /\ UNCHANGED <<fifo, put, tx_buffer, left, raced, tmp>> /\ left = 0
  BY DEF IsrTx, IsrStart, Interrupt
<1>2. Length' = Length /\ Taken' = Taken /\ CellsInv' /\ read_pos' = read_pos
  BY <1>1, FifoKept DEF fifo
<1>3. CASE IsrTx
  <2>1. /\ isr = "tx" /\ UNCHANGED <<busy, last, skipped, twice>>
        /\ isr' = IF busy THEN "idle" ELSE "start"
    BY <1>3 DEF IsrTx, sent
  <2>2. PlaceInv'
    BY <1>1, <1>2, <2>1 DEF PlaceInv
  <2>3. ToSkip' = ToSkip /\ ToDouble' = ToDouble /\ AtRisk' = AtRisk /\ InHand' = InHand
    BY <1>1, <1>2, <2>1 DEF ToSkip, ToDouble, AtRisk, InHand
  <2>4. DebtInv'
    BY <1>1, <1>2, <2>1, <2>3, RaceTypes DEF DebtInv
  <2> QED
    BY <1>2, <2>1, <2>2, <2>4, RaceTypes
<1>4. CASE IsrStart
  <2>1. /\ isr = "start" /\ isr' = "idle" /\ busy'
        /\ Shift(tx_buffer) \/ (busy /\ UNCHANGED sent)
    BY <1>4 DEF IsrStart, StartTransmitter, LineInv
  <2>2. ToSkip' = 0 /\ ToDouble' = 0 /\ AtRisk' = 0 /\ InHand' = 0 /\ ToSkip = 0 /\ AtRisk = 0
    BY <1>1, <2>1 DEF ToSkip, ToDouble, AtRisk, InHand
  <2>3. CASE UNCHANGED sent /\ busy
    <3>1. PlaceInv'
      BY <1>1, <1>2, <2>1, <2>3 DEF PlaceInv, sent
    <3>2. InHand = 0
      BY <2>3 DEF InHand
    <3>3. DebtInv'
      BY <1>1, <1>2, <2>2, <2>3, <3>2, RaceTypes DEF DebtInv, sent
    <3> QED
      BY <1>2, <2>3, <3>1, <3>3, RaceTypes DEF sent
  <2>4. CASE Shift(tx_buffer) /\ busy
    <3>1. tx_buffer = last /\ InHand = 0 /\ ToDouble = 1
      BY <2>1, <2>4 DEF PlaceInv, InHand, ToDouble
    <3>2. last' = last /\ skipped' = skipped /\ twice' = twice + 1
      BY <2>4, <3>1, RaceTypes DEF Shift
    <3>3. PlaceInv'
      BY <1>1, <1>2, <2>1, <3>2 DEF PlaceInv
    <3>4. DebtInv'
      BY <1>1, <1>2, <2>2, <3>1, <3>2, RaceTypes DEF DebtInv
    <3> QED
      BY <1>2, <3>2, <3>3, <3>4, RaceTypes
  <2>5. CASE ~busy
    <3>1. tx_buffer = Taken /\ last < Taken /\ InHand = 1 /\ ToDouble = 0
      BY <2>1, <2>5 DEF PlaceInv, InHand, ToDouble
    <3>2. last' = Taken /\ skipped' = skipped + (Taken - last - 1) /\ twice' = twice
      BY <2>1, <2>5, <3>1, RaceTypes DEF Shift
    <3>3. PlaceInv'
      BY <1>1, <1>2, <2>1, <3>2, RaceTypes DEF PlaceInv
    <3>4. DebtInv'
      BY <1>1, <1>2, <2>2, <3>1, <3>2, RaceTypes DEF DebtInv
    <3> QED
      BY <1>2, <3>1, <3>2, <3>3, <3>4, RaceTypes
  <2> QED
    BY <2>1, <2>3, <2>4, <2>5
<1> QED
  BY <1>3, <1>4

(* The state after a reset, and the first.                                 *)
LEMMA InitRace == Init => RaceInv
<1> SUFFICES ASSUME Init PROVE RaceInv
  OBVIOUS
<1>1. /\ put = 0 /\ read_pos = 0 /\ write_pos = 0 /\ isr = "idle" /\ ~stray
      /\ last = 0 /\ skipped = 0 /\ twice = 0 /\ raced = 0 /\ left = 0
      /\ ~line /\ ~endtx
  BY DEF Init
<1>2. Length = 0 /\ Taken = 0 /\ At(0) = 0
  BY <1>1, Sizes, SmallRemainder DEF Length, LengthFrom, Taken, At
<1>3. CellsInv
  BY <1>1, <1>2, Sizes DEF CellsInv, Back
<1>4. PlaceInv
  BY <1>1, <1>2 DEF PlaceInv
<1>5. DebtInv
  BY <1>1, <1>2 DEF DebtInv, ToSkip, ToDouble, AtRisk, InHand
<1> QED
  BY <1>1, <1>3, <1>4, <1>5 DEF RaceInv, LineInv

LEMMA ResetRace ==
  ASSUME TypeOK, PutFails
  PROVE  ~stray' /\ CellsInv' /\ PlaceInv' /\ DebtInv'
<1>1. /\ put' = 0 /\ read_pos' = 0 /\ write_pos' = 0 /\ isr' = "idle" /\ ~stray'
      /\ last' = 0 /\ skipped' = 0 /\ twice' = 0 /\ raced' = 0 /\ left' = 0
  BY DEF PutFails
<1>2. Length' = 0 /\ Taken' = 0 /\ At(0) = 0 /\ At(read_pos)' = 0 /\ At(write_pos)' = 0
  BY <1>1, Sizes, SmallRemainder DEF Length, LengthFrom, Taken, At
<1>3. CellsInv'
  BY <1>1, <1>2, Sizes DEF CellsInv, Back
<1>4. PlaceInv'
  BY <1>1, <1>2 DEF PlaceInv
<1>5. DebtInv'
  BY <1>1, <1>2 DEF DebtInv, ToSkip, ToDouble, AtRisk, InHand
<1> QED
  BY <1>1, <1>3, <1>4, <1>5

(* A step from a FIFO that is in order; with the order of the bytes sent.  *)
LEMMA StepInOrder ==
  ASSUME TypeOK, Cap > 1, RaceInv, ~stray, [Next]_vars
  PROVE  /\ IF stray' THEN raced' > 0 ELSE CellsInv' /\ PlaceInv' /\ DebtInv'
         /\ last' >= last \/ put' = 0
<1>1. LineInv /\ CellsInv /\ PlaceInv /\ DebtInv
  BY DEF RaceInv
<1>2. last \in Nat /\ last >= last
  BY RaceTypes
<1>3. CASE UNCHANGED vars \/ LineDone
  <2>1. /\ UNCHANGED <<fifo, put, isr, tmp, busy, tx_buffer, left, last, skipped, twice,
                       raced, stray>>
    BY <1>3 DEF vars, LineDone, sent, fifo
  <2>2. Length' = Length /\ Taken' = Taken /\ CellsInv' /\ read_pos' = read_pos
    BY <1>1, <2>1, FifoKept DEF fifo
  <2>3. PlaceInv'
    BY <1>1, <2>1, <2>2 DEF PlaceInv, After
  <2>4. DebtInv'
    BY <1>1, <2>1, <2>2 DEF DebtInv, ToSkip, ToDouble, AtRisk, InHand
  <2> QED
    BY <1>2, <2>1, <2>2, <2>3, <2>4
<1>4. ASSUME NEW n \in 1..MaxWrite, WriteEvent(n)
      PROVE  ~stray' /\ last' = last /\ CellsInv' /\ PlaceInv' /\ DebtInv'
  BY <1>1, <1>4, WriteEventRace DEF WriteEvent, sent
<1>5. CASE Put
  <2>1. stray' = stray
    BY <1>5 DEF Put
  <2> QED
    BY <1>1, <1>5, <2>1, PutRace
<1>6. CASE PutFails
  <2>1. put' = 0
    BY <1>6 DEF PutFails
  <2> QED
    BY <1>6, <2>1, ResetRace
<1>7. CASE IsrDone \/ IsrGet \/ IsrSize
  <2>1. stray' = stray
    BY <1>7 DEF IsrDone, IsrGet, IsrSize
  <2> QED
    BY <1>1, <1>2, <1>7, <2>1, IsrBegins
<1>8. CASE IsrPeek \/ IsrLoad
  <2>1. stray' = stray
    BY <1>8 DEF IsrPeek, IsrLoad
  <2> QED
    BY <1>1, <1>2, <1>8, <2>1, IsrReads
<1>9. CASE IsrStore
  BY <1>1, <1>2, <1>9, IsrStoreRace
<1>10. CASE IsrTx \/ IsrStart
  <2>1. stray' = stray
    BY <1>10 DEF IsrTx, IsrStart
  <2> QED
    BY <1>1, <1>10, <2>1, IsrSends
<1> QED
  BY <1>2, <1>3, <1>4, <1>5, <1>6, <1>7, <1>8, <1>9, <1>10 DEF Next, Isr

LEMMA StepAstray ==
  ASSUME TypeOK, stray, raced > 0, [Next]_vars, ~PutFails
  PROVE  stray' /\ raced' > 0
<1>1. raced \in Nat
  BY RaceTypes
<1>2. CASE UNCHANGED vars
  BY <1>2 DEF vars
<1>3. CASE \E n \in 1..MaxWrite : WriteEvent(n)
  BY <1>1, <1>3 DEF WriteEvent
<1>4. CASE Put \/ LineDone
  BY <1>4 DEF Put, LineDone
<1>5. CASE Isr
  BY <1>5 DEF Isr, IsrDone, IsrGet, IsrSize, IsrPeek, IsrLoad, IsrStore, IsrTx, IsrStart
<1> QED
  BY <1>2, <1>3, <1>4, <1>5 DEF Next

LEMMA NextRace ==
  ASSUME Cap > 1
  PROVE  TypeOK /\ RaceInv /\ [Next]_vars => RaceInv'
<1> SUFFICES ASSUME TypeOK, RaceInv, [Next]_vars PROVE RaceInv'
  OBVIOUS
<1>1. LineInv'
  BY LineKept DEF RaceInv
<1>2. CASE ~stray
  BY <1>1, <1>2, StepInOrder DEF RaceInv
<1>3. CASE stray /\ PutFails
  BY <1>1, <1>3, ResetRace DEF RaceInv
<1>4. CASE stray /\ ~PutFails
  <2>1. raced > 0
    BY <1>4 DEF RaceInv
  <2> QED
    BY <1>1, <1>4, <2>1, StepAstray DEF RaceInv
<1> QED
  BY <1>2, <1>3, <1>4

LEMMA RaceInductive ==
  ASSUME Cap > 1
  PROVE  Spec => []RaceInv
<1>1. TypeOK /\ RaceInv /\ [Next]_vars => RaceInv'
  BY NextRace
<1> QED
  BY <1>1, InitRace, TxTypeCorrect, PTL DEF Spec

(* However many write events fall into the interrupt of app_uart_fifo.c,   *)
(* each costs at most one byte passed over and one sent twice; without any *)
(* the FIFO's positions never cross and every byte is sent once.           *)
THEOREM LossIsPerRace ==
  ASSUME Cap > 1
  PROVE  Spec => []LossPerRace
<1>1. ASSUME TypeOK, RaceInv PROVE LossPerRace
  <2>1. CASE stray
    BY <1>1, <2>1 DEF RaceInv, LossPerRace
  <2>2. CASE ~stray
    <3>1. last <= Taken /\ DebtInv /\ CellsInv /\ PlaceInv
      BY <1>1, <2>2 DEF RaceInv, PlaceInv
    <3>2. InHand = 1 => last < Taken
      BY <3>1 DEF PlaceInv, InHand
    <3>3. skipped <= raced /\ twice <= raced
      BY <1>1, <3>1, <3>2, RaceTypes DEF DebtInv
    <3> QED
      BY <2>2, <3>3 DEF LossPerRace
  <2> QED
    BY <2>1, <2>2
<1>2. TypeOK /\ RaceInv => LossPerRace
  BY <1>1
<1> QED
  BY <1>2, RaceInductive, TxTypeCorrect, PTL

(* Bytes go out in the order of app_uart_put: a write event that falls     *)
(* into the interrupt makes it repeat or drop a byte, never go back.       *)
THEOREM OrderIsKept ==
  ASSUME Cap > 1
  PROVE  Spec => OrderKept
<1>1. TypeOK /\ RaceInv /\ [Next]_vars => [~stray => last' >= last \/ put' = 0]_vars
  BY StepInOrder
<1> QED
  BY <1>1, RaceInductive, TxTypeCorrect, PTL DEF Spec, OrderKept
=============================================================================
