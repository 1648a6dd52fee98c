----------------------------- MODULE FdsStoreProof -----------------------------
(***************************************************************************)
(* Proofs about the configuration in flash, for every page size and any    *)
(* number of stores: fds stays in its pages, and the configuration that    *)
(* was stored survives every reset and every operation that times out, in  *)
(* an update, a collection or the boot that cleans up after one.           *)
(***************************************************************************)
EXTENDS FdsStore, WellFoundedInduction, TLAPS

LEMMA Sizes == Slots \in Nat /\ Slots > 0 /\ MaxStores \in Nat
  BY StoreAssumption

(* Every set of numbers that is not empty has a least one.                 *)
LEMMA LeastNumber ==
  ASSUME NEW S, S \subseteq Nat, S # {}
  PROVE  Min(S) \in S /\ \A y \in S : Min(S) <= y
  <1> DEFINE R == OpToRel(<, Nat)
  <1>1. \A x, y \in Nat : y < x => <<y, x>> \in R
    BY DEF OpToRel
  <1>2. PICK x \in S : \A y \in S : <<y, x>> \notin R
    <2> HIDE DEF R
    <2> QED  BY WFMin, NatLessThanWellFounded DEF R
  <1>3. ASSUME NEW y \in S  PROVE x <= y
    <2> HIDE DEF R
    <2>1. x \in Nat /\ y \in Nat /\ ~(y < x)
      BY <1>1, <1>2
    <2> QED  BY <2>1
  <1>4. \E z \in S : \A y \in S : z =< y
    BY <1>3
  <1> QED  BY <1>4 DEF Min

LEMMA LeastPage ==
  ASSUME NEW S, S \subseteq Phys, S # {}
  PROVE  Min(S) \in S /\ \A y \in S : Min(S) <= y
  <1>1. S \subseteq Nat
    BY DEF Phys
  <1> QED  BY <1>1, LeastNumber

LEMMA GreatestPage ==
  ASSUME NEW S, S \subseteq Phys, S # {}
  PROVE  Max(S) \in S /\ \A y \in S : Max(S) >= y
  <1>1. \E z \in S : \A y \in S : z >= y
    <2>1. CASE 3 \in S  BY <2>1 DEF Phys
    <2>2. CASE 3 \notin S /\ 2 \in S  BY <2>2 DEF Phys
    <2>3. CASE 3 \notin S /\ 2 \notin S
      <3>1. \A y \in S : y = 1
        BY <2>3 DEF Phys
      <3>2. PICK z \in S : z = 1
        BY <3>1
      <3> QED  BY <3>1, <3>2
    <2> QED  BY <2>1, <2>2, <2>3
  <1> QED  BY <1>1 DEF Max

LEMMA BootPages ==
  ASSUME Swaps \cup Erased # {}
  PROVE  /\ SwapPage \in Phys /\ (Swaps # {} => SwapPage \in Swaps)
         /\ (Swaps = {} => SwapPage \in Erased)
         /\ DataPages \in [1..2 -> Phys] /\ DataPages[1] # DataPages[2]
         /\ DataPages[1] # SwapPage /\ DataPages[2] # SwapPage
  <1>1. SwapPage \in Phys /\ (Swaps # {} => SwapPage \in Swaps) /\ (Swaps = {} => SwapPage \in Erased)
    BY LeastPage DEF SwapPage, Swaps, Erased
  <1> DEFINE rest == Phys \ {SwapPage}
  <1>2. rest \subseteq Phys /\ rest # {}
    BY DEF Phys
  <1>3. Min(rest) \in rest /\ Max(rest) \in rest /\ Min(rest) # Max(rest)
    <2>1. /\ Min(rest) \in rest /\ \A y \in rest : Min(rest) <= y
          /\ Max(rest) \in rest /\ \A y \in rest : Max(rest) >= y
      BY <1>2, LeastPage, GreatestPage
    <2> QED  BY <2>1, <1>1 DEF Phys
  <1>4. DataPages = <<Max(rest), Min(rest)>> \/ DataPages = <<Min(rest), Max(rest)>>
    BY DEF DataPages
  <1> QED
    <2> HIDE DEF rest
    <2>1. Min(rest) \in Phys /\ Max(rest) \in Phys /\ Min(rest) # SwapPage /\ Max(rest) # SwapPage
      BY <1>3 DEF rest
    <2> QED  BY <1>1, <1>3, <1>4, <2>1

-----------------------------------------------------------------------------
(* Sequences of records.                                                   *)

LEMMA RecordFields ==
  ASSUME NEW r \in Record
  PROVE  r.ver \in 0..MaxStores /\ r.st \in {"torn", "half", "valid", "dirty"}
  BY DEF Record

LEMMA Added ==
  ASSUME NEW s \in Seq(Record), NEW r \in Record
  PROVE  /\ Append(s, r) \in Seq(Record) /\ Len(Append(s, r)) = Len(s) + 1
         /\ Append(s, r)[Len(s) + 1] = r /\ Append(s, r) # <<>>
         /\ \A i \in 1..Len(s) : Append(s, r)[i] = s[i]
  OBVIOUS

LEMMA Marked ==
  ASSUME NEW s \in Seq(Record), s # <<>>, NEW st \in {"torn", "half", "valid", "dirty"},
         NEW t, t = [s EXCEPT ![Len(s)].st = st]
  PROVE  /\ t \in Seq(Record) /\ Len(t) = Len(s) /\ t # <<>>
         /\ t[Len(s)].st = st /\ t[Len(s)].ver = s[Len(s)].ver
         /\ \A i \in 1..Len(s) : i # Len(s) => t[i] = s[i]
  <1>1. Len(s) \in 1..Len(s) /\ DOMAIN s = 1..Len(s)
    OBVIOUS
  <1>2. s[Len(s)] \in Record
    BY <1>1
  <1>3. [s[Len(s)] EXCEPT !.st = st] \in Record
    BY <1>2 DEF Record
  <1>4. t = [s EXCEPT ![Len(s)] = [s[Len(s)] EXCEPT !.st = st]]
    OBVIOUS
  <1>5. t \in Seq(Record) /\ Len(t) = Len(s)
    BY <1>1, <1>3, <1>4
  <1>6. t[Len(s)] = [s[Len(s)] EXCEPT !.st = st]
    BY <1>1, <1>4
  <1> QED  BY <1>1, <1>2, <1>4, <1>5, <1>6 DEF Record

LEMMA FlaggedIs ==
  ASSUME recs \in [Phys -> Seq(Record)], NEW p \in Phys
  PROVE  /\ Flagged(p) \in Seq(Record) /\ Len(Flagged(p)) = Len(recs[p])
         /\ \A i \in 1..Len(recs[p]) :
              Flagged(p)[i] = IF recs[p][i].ver = old /\ IsLive(recs[p][i])
                              THEN [recs[p][i] EXCEPT !.st = "dirty"] ELSE recs[p][i]
  <1> DEFINE s == recs[p]
  <1>1. s \in Seq(Record) /\ DOMAIN s = 1..Len(s) /\ Len(s) \in Nat
    OBVIOUS
  <1>2. \A i \in 1..Len(s) : s[i] \in Record /\ [s[i] EXCEPT !.st = "dirty"] \in Record
    <2>1. \A i \in 1..Len(s) : s[i] \in Record
      BY <1>1
    <2>2. \A r \in Record : [r EXCEPT !.st = "dirty"] \in Record
      BY DEF Record
    <2> HIDE DEF s
    <2> QED  BY <2>1, <2>2
  <1>3. Flagged(p) = [i \in 1..Len(s) |-> IF s[i].ver = old /\ IsLive(s[i])
                                           THEN [s[i] EXCEPT !.st = "dirty"] ELSE s[i]]
    BY <1>1 DEF Flagged
  <1>4. Flagged(p) \in [1..Len(s) -> Record]
    BY <1>2, <1>3
  <1>5. Flagged(p) \in Seq(Record) /\ Len(Flagged(p)) = Len(s)
    BY <1>1, <1>4
  <1> QED  BY <1>3, <1>5

-----------------------------------------------------------------------------
Data == {pages[1], pages[2]}
BootOps == {"tag swap", "tag data", "erase swap", "promote swap"}
WriteOps == {"begin", "body", "finalize", "flag", "done"}
CopyOps == {"gc find", "gc copying"}
GcOps == CopyOps \cup {"gc next", "gc promote", "gc tag"}

(* Where main waits, and what fds does meanwhile.                          *)
PhaseInv ==
  /\ pc = "off" => op = "none"
  /\ pc = "init" => op \in BootOps \/ (op = "none" /\ "init" \in flags)
  /\ "init" \in flags => op \notin BootOps
  /\ pc = "first" => op \in {"none", "begin", "body", "finalize", "done"} /\ old = None
  /\ pc = "main" => op = "none"
  /\ pc = "update" => (op \in WriteOps /\ "update" \notin flags) \/ op = "none"
  /\ pc = "gc" => (op \in GcOps /\ "gc" \notin flags) \/ op = "none"
  /\ pc = "gc" => "update" \notin flags
  /\ pc = "off" => flags = {}
  /\ pc \in {"update", "gc"} => old \in 0..MaxStores /\ old < m_dummy_cfg
  /\ m_dummy_cfg <= version

(* Nothing more is written before the next boot.                           *)
Quiet == pc = "off" \/ (pc \in {"update", "gc"} /\ op = "none" /\ pc \notin flags)

(* The tags, whatever a reset cut.                                         *)
FlashInv ==
  /\ \A p \in Phys : tag[p] = "erased" => recs[p] = <<>>
  /\ \A p, q \in Phys : tag[p] = "swap" /\ tag[q] = "swap" => p = q
  /\ \A s, p, q \in Phys : tag[s] = "swap" /\ recs[s] # <<>> /\ tag[p] = "erased"
                             /\ tag[q] = "erased" => p = q
  /\ \E p \in Phys : tag[p] \in {"swap", "erased"}

(* The swap page in the RAM is that of the flash, where no step is half    *)
(* done.                                                                   *)
TagInv ==
  /\ op = "tag swap" => Swaps = {} /\ tag[swap] = "erased"
  /\ op = "tag data" => tag[swap] = "swap" /\ recs[swap] = <<>>
  /\ op = "erase swap" => tag[swap] = "swap" /\ Erased = {}
  /\ op = "promote swap" => tag[swap] = "swap" /\ Erased # {} /\ recs[swap] # <<>>
  /\ ~Quiet /\ op \notin BootOps \cup {"gc promote", "gc tag"} =>
       tag[swap] = "swap" /\ Erased = {} /\ (op \notin CopyOps => recs[swap] = <<>>)
  /\ op = "gc promote" => tag[target] = "swap" /\ Erased = {swap}
  /\ op = "gc tag" => Swaps = {} /\ Erased = {swap}

(* The page that is written to or collected.                               *)
TargetInv ==
  /\ op \in (WriteOps \ {"done"}) \cup (GcOps \ {"gc next"}) => target \in Data
  /\ op = "begin" => HasSpace(target)
  /\ op \in {"body", "finalize", "flag"} =>
       recs[target] # <<>> /\ recs[target][Len(recs[target])].ver = m_dummy_cfg
  /\ op \in {"body", "finalize"} => recs[target][Len(recs[target])].st = "torn"
  /\ op = "flag" => recs[target][Len(recs[target])].st = "valid"
  /\ op \in CopyOps => src <= Len(recs[target]) /\ Len(recs[swap]) <= src
  /\ op = "gc copying" => recs[swap] # <<>> /\ src > 0 /\ IsLive(recs[target][src])
        /\ recs[swap][Len(recs[swap])].ver = recs[target][src].ver

(* Something counts.                                                       *)
HasLive == \E p \in Home : Live(p) # {}

(* Record k of the swap page is a whole copy; record i is copied so.       *)
Whole(k) == k \in 1..Len(recs[swap]) /\ (op = "gc copying" => k < Len(recs[swap]))
IsCopied(i) == i \in Live(target) /\ i <= src /\ (op = "gc copying" => i < src)

CopyInv ==
  op \in CopyOps =>
    /\ \A k \in 1..Len(recs[swap]) : Whole(k) =>
         /\ recs[swap][k].st = "valid"
         /\ \E i \in Live(target) : IsCopied(i) /\ recs[swap][k].ver = recs[target][i].ver
    /\ \A i \in Live(target) : IsCopied(i) =>
         \E k \in 1..Len(recs[swap]) : Whole(k) /\ recs[swap][k].ver = recs[target][i].ver

(* What counts is whole; and there is something, but before the first      *)
(* record is written.                                                      *)
LiveInv ==
  /\ \A p \in Phys : \A i \in 1..Len(recs[p]) : recs[p][i].ver <= version
  /\ \A p \in Home : \A i \in Live(p) : recs[p][i].st = "valid"
  /\ pc \in {"main", "update", "gc"} \/ (pc = "first" /\ op \in {"none", "done"}) => HasLive
  /\ pc = "first" /\ op \in {"begin", "body", "finalize"} => ~HasLive

BaseInv == TypeOK /\ PhaseInv /\ FlashInv /\ TagInv /\ TargetInv /\ CopyInv /\ LiveInv

(* A new record of an update that is not yet the only one.                 *)
New(p, i) == op = "flag" /\ p = target /\ i = Len(recs[target])

(* Where what counts is the version in the RAM; where it is the one before.*)
Settled == pc = "main" \/ (pc \in {"first", "update"} /\ op = "done") \/ (pc = "first" /\ op = "none")
             \/ (pc = "update" /\ "update" \in flags)
Updating == (pc = "update" /\ op \in WriteOps \ {"done"}) \/ pc = "gc"

Unique ==
  \A p, q \in Home : \A i \in Live(p), j \in Live(q) : ~New(p, i) /\ ~New(q, j) => p = q /\ i = j

Says ==
  \A p \in Home : \A i \in Live(p) :
    /\ recs[p][i].ver >= confirmed
    /\ Settled => recs[p][i].ver = m_dummy_cfg
    /\ Updating => recs[p][i].ver = old \/ New(p, i)

(* Unless an update was cut, one record counts, and what it says.          *)
SingleInv ==
  ~cut => /\ confirmed <= version /\ (HasLive \/ confirmed = None)
          /\ op \in CopyOps => Len(recs[swap]) <= 1
          /\ Unique /\ Says

(* Room that only a collection gives back.                                 *)
Waste(p) == \E i \in 1..Len(recs[p]) : ~IsLive(recs[p][i])

(* A swap page that fds_init would take up has none.                       *)
CleanInv == \A p \in Phys : tag[p] = "swap" /\ Erased # {} => ~Waste(p)

(* A page that has it is in can_gc, but for the record being written.      *)
KnownInv ==
  ~Quiet => \A p \in Data : \A i \in 1..Len(recs[p]) :
    ~IsLive(recs[p][i]) =>
      p \in can_gc \/ (op \in {"body", "finalize"} /\ p = target /\ i = Len(recs[p]))

(* A collection that is needed finds some.                                 *)
RoomInv ==
  ~cut /\ pc = "gc" =>
    /\ ~Quiet => \/ ~NoSpace
                 \/ \E p \in Data : p \in gcleft \cap can_gc /\ Waste(p)
                 \/ op \in CopyOps /\ Waste(target)
    /\ "gc" \in flags => ~NoSpace

StoreInv == BaseInv /\ SingleInv /\ CleanInv /\ KnownInv /\ RoomInv

-----------------------------------------------------------------------------
(* What the type invariant says of pages and records.                      *)

LEMMA PagesAre ==
  ASSUME TypeOK
  PROVE  /\ swap \in Phys /\ swap \notin Data /\ Data \cup {swap} = Phys
         /\ pages[1] \in Phys /\ pages[2] \in Phys /\ pages[1] # pages[2]
         /\ Data = Phys \ {swap}
  <1>1. pages[1] \in Phys /\ pages[2] \in Phys /\ swap \in Phys /\ {pages[1], pages[2], swap} = Phys
    BY DEF TypeOK
  <1>2. \A x \in Phys : x = pages[1] \/ x = pages[2] \/ x = swap
    BY <1>1
  <1>3. pages[1] # pages[2] /\ pages[1] # swap /\ pages[2] # swap
    BY <1>1, <1>2 DEF Phys
  <1> QED  BY <1>1, <1>2, <1>3 DEF Data

LEMMA RecordsAre ==
  ASSUME TypeOK, NEW p \in Phys
  PROVE  /\ recs[p] \in Seq(Record) /\ Len(recs[p]) \in Nat /\ Len(recs[p]) <= Slots
         /\ DOMAIN recs[p] = 1..Len(recs[p])
         /\ \A i \in 1..Len(recs[p]) : recs[p][i] \in Record
         /\ Live(p) = {i \in 1..Len(recs[p]) : IsLive(recs[p][i])}
  <1>1. recs[p] \in Seq(Record) /\ Len(recs[p]) <= Slots
    BY DEF TypeOK
  <1> QED  BY <1>1 DEF Live

LEMMA LeastLive ==
  ASSUME TypeOK, NEW p \in Phys, Live(p) # {}
  PROVE  Min(Live(p)) \in Live(p) /\ Min(Live(p)) \in 1..Len(recs[p])
  <1>1. Live(p) \subseteq Nat /\ Live(p) \subseteq 1..Len(recs[p])
    BY RecordsAre
  <1> QED  BY <1>1, LeastNumber

LEMMA FoundIs ==
  ASSUME TypeOK, IsFound
  PROVE  /\ FoundPage \in Data /\ FoundPage \in Phys /\ Found \in Record
         /\ \E i \in 1..Len(recs[FoundPage]) : i \in Live(FoundPage) /\ Found = recs[FoundPage][i]
  <1>1. FoundPage \in Data /\ FoundPage \in Phys /\ Live(FoundPage) # {}
    BY PagesAre DEF IsFound, FoundPage, Data
  <1>2. Min(Live(FoundPage)) \in Live(FoundPage) /\ Min(Live(FoundPage)) \in 1..Len(recs[FoundPage])
    BY <1>1, LeastLive
  <1> QED  BY <1>1, <1>2, RecordsAre DEF Found

(* With the swap page known and nothing half erased, the data pages count. *)
LEMMA HomeIsData ==
  ASSUME TypeOK, FlashInv, tag[swap] = "swap", Erased = {}
  PROVE  Home = Data /\ \A p \in Data : tag[p] = "data"
  <1>1. \A p \in Phys : tag[p] \in {"erased", "data", "swap"} /\ tag[p] # "erased"
    BY DEF TypeOK, Erased
  <1>2. \A p \in Phys : tag[p] = "swap" <=> p = swap
    BY PagesAre DEF FlashInv
  <1> QED  BY <1>1, <1>2, PagesAre DEF Home

LEMMA LiveIsFound ==
  ASSUME TypeOK, Home = Data, pc # "off", HasLive
  PROVE  IsFound
  BY DEF IsFound, HasLive, Data

LEMMA AtRest ==
  ASSUME BaseInv, pc \in {"init", "first", "main"}, op = "none"
  PROVE  /\ tag[swap] = "swap" /\ Erased = {} /\ recs[swap] = <<>> /\ Home = Data /\ ~Quiet
         /\ pc = "main" => IsFound
  <1>1. ~Quiet
    BY DEF Quiet
  <1>2. tag[swap] = "swap" /\ Erased = {} /\ recs[swap] = <<>>
    BY <1>1 DEF BaseInv, TagInv, BootOps, CopyOps
  <1>3. Home = Data
    BY <1>2, HomeIsData DEF BaseInv
  <1> QED  BY <1>1, <1>2, <1>3, LiveIsFound DEF BaseInv, LiveInv

LEMMA FoundVersion ==
  ASSUME BaseInv, IsFound
  PROVE  Found.ver \in 0..MaxStores /\ Found.ver <= version
  BY FoundIs, RecordFields DEF BaseInv, LiveInv

-----------------------------------------------------------------------------
(* Where main waits.                                                       *)

LEMMA ResetPhase ==
  ASSUME ResetEffect, version \in Nat
  PROVE  PhaseInv'
  BY DEF ResetEffect, PhaseInv, BootOps

LEMMA StoreVersions ==
  ASSUME BaseInv, Store
  PROVE  /\ old' \in 0..MaxStores /\ version' \in 0..MaxStores
         /\ m_dummy_cfg' \in 0..MaxStores /\ old' < m_dummy_cfg' /\ m_dummy_cfg' <= version' /\ m_dummy_cfg' = version + 1
  <1>1. Found.ver \in 0..MaxStores /\ Found.ver <= version /\ version \in 0..MaxStores
    BY AtRest, FoundVersion DEF Store, BaseInv, TypeOK, PhaseInv
  <1>2. old' = Found.ver /\ version' = version + 1 /\ m_dummy_cfg' = version + 1 /\ version < MaxStores
    BY DEF Store, Enqueue
  <1> QED  BY <1>1, <1>2, Sizes

LEMMA PhaseStep ==
  ASSUME BaseInv, [Next]_vars
  PROVE  PhaseInv'
  <1>1. /\ PhaseInv /\ version \in Nat /\ 0 <= version /\ m_dummy_cfg \in Nat
        /\ pc \in {"off", "init", "first", "main", "update", "gc"}
    BY Sizes DEF BaseInv, TypeOK
  <1> USE <1>1, Sizes DEF PhaseInv, BootOps, WriteOps, GcOps, CopyOps, main
  <1>2. CASE TagSwap  BY <1>2 DEF TagSwap
  <1>3. CASE TagData  BY <1>3 DEF TagData, work
  <1>4. CASE EraseSwap  BY <1>4 DEF EraseSwap
  <1>5. CASE PromoteSwap  BY <1>5 DEF PromoteSwap
  <1>6. CASE Initialized  BY <1>6 DEF Initialized
  <1>7. CASE WriteBegin  BY <1>7 DEF WriteBegin
  <1>8. CASE WriteBody  BY <1>8 DEF WriteBody
  <1>9. CASE WriteFinalize  BY <1>9 DEF WriteFinalize
  <1>10. CASE FlagDirty  BY <1>10 DEF FlagDirty
  <1>11. CASE WriteDone  BY <1>11 DEF WriteDone
  <1>12. CASE GcNextPage  BY <1>12 DEF GcNextPage
  <1>13. CASE GcDone  BY <1>13 DEF GcDone
  <1>14. CASE GcCopy  BY <1>14 DEF GcCopy
  <1>15. CASE GcCopied  BY <1>15 DEF GcCopied
  <1>16. CASE GcErase  BY <1>16 DEF GcErase
  <1>17. CASE GcPromote  BY <1>17 DEF GcPromote
  <1>18. CASE GcTagSwap  BY <1>18 DEF GcTagSwap
  <1>19. CASE Boot
    <2>1. op' \in BootOps
      BY <1>19 DEF Boot, FirstStep
    <2>2. "init" \notin flags' /\ pc' = "init" /\ m_dummy_cfg' = 0 /\ version' = version
      BY <1>19 DEF Boot
    <2> QED  BY <2>1, <2>2
  <1>20. CASE ReadConfig
    <2>1. CASE IsFound /\ pc' = "main" /\ m_dummy_cfg' = Found.ver
      BY <1>20, <2>1, FoundVersion DEF ReadConfig, ResetEffect, work
    <2>2. CASE ~IsFound /\ ~NoSpace
      BY <1>20, <2>2 DEF ReadConfig, Enqueue
    <2>3. CASE ResetEffect
      BY <2>3, ResetPhase
    <2> QED  BY <1>20, <2>1, <2>2, <2>3 DEF ReadConfig
  <1>21. CASE FirstWritten  BY <1>21 DEF FirstWritten, work
  <1>22. CASE Store
    <2>1. CASE Enqueue(Found.ver) /\ pc' = "update"
      BY <1>22, <2>1, StoreVersions DEF Store, Enqueue
    <2>2. CASE StartGc /\ pc' = "gc"
      BY <1>22, <2>2, StoreVersions DEF Store, StartGc
    <2> QED  BY <1>22, <2>1, <2>2 DEF Store
  <1>23. CASE UpdateAgain  BY <1>23 DEF UpdateAgain, Enqueue, work
  <1>24. CASE Updated  BY <1>24 DEF Updated, work
  <1>25. CASE TimesOut  BY <1>25 DEF TimesOut
  <1>26. CASE Reset  BY <1>26, ResetPhase DEF Reset
  <1>27. CASE Watchdog  BY <1>27, ResetPhase DEF Watchdog
  <1>28. CASE UNCHANGED vars  BY <1>28 DEF vars, work
  <1> QED
    BY <1>2, <1>3, <1>4, <1>5, <1>6, <1>7, <1>8, <1>9, <1>10, <1>11, <1>12, <1>13, <1>14, <1>15, <1>16,
       <1>17, <1>18, <1>19, <1>20, <1>21, <1>22, <1>23, <1>24, <1>25, <1>26, <1>27, <1>28
    DEF Next, FdsStep, MainStep

-----------------------------------------------------------------------------
(* What an operation does to the records.                                  *)

LEMMA Appended ==
  ASSUME TypeOK, NEW p \in Phys, NEW r \in Record, recs' = [recs EXCEPT ![p] = Append(@, r)]
  PROVE  /\ recs' \in [Phys -> Seq(Record)]
         /\ Len(recs'[p]) = Len(recs[p]) + 1 /\ recs'[p][Len(recs[p]) + 1] = r
         /\ recs'[p] # <<>>
         /\ \A i \in 1..Len(recs[p]) : recs'[p][i] = recs[p][i]
         /\ \A q \in Phys : q # p => recs'[q] = recs[q]
  <1>1. recs \in [Phys -> Seq(Record)] /\ recs[p] \in Seq(Record)
    BY DEF TypeOK
  <1>2. recs'[p] = Append(recs[p], r) /\ \A q \in Phys : q # p => recs'[q] = recs[q]
    BY <1>1
  <1>3. recs'[p] \in Seq(Record)
    BY <1>1, <1>2, Added
  <1>4. recs' \in [Phys -> Seq(Record)]
    BY <1>1, <1>2, <1>3
  <1> QED  BY <1>1, <1>2, <1>4, Added

LEMMA LastMarked ==
  ASSUME TypeOK, NEW p \in Phys, recs[p] # <<>>, NEW st \in {"torn", "half", "valid", "dirty"},
         recs' = LastTo(p, st)
  PROVE  /\ recs' \in [Phys -> Seq(Record)]
         /\ Len(recs'[p]) = Len(recs[p]) /\ recs'[p] # <<>>
         /\ recs'[p][Len(recs[p])].st = st /\ recs'[p][Len(recs[p])].ver = recs[p][Len(recs[p])].ver
         /\ \A i \in 1..Len(recs[p]) : i # Len(recs[p]) => recs'[p][i] = recs[p][i]
         /\ \A q \in Phys : q # p => recs'[q] = recs[q]
  <1>1. recs \in [Phys -> Seq(Record)] /\ recs[p] \in Seq(Record)
    BY DEF TypeOK
  <1>2. recs'[p] = [recs[p] EXCEPT ![Len(recs[p])].st = st] /\ \A q \in Phys : q # p => recs'[q] = recs[q]
    BY <1>1 DEF LastTo
  <1> DEFINE s == recs[p]
  <1>3. \A t : t = [s EXCEPT ![Len(s)].st = st] =>
          /\ t \in Seq(Record) /\ Len(t) = Len(s) /\ t # <<>>
          /\ t[Len(s)].st = st /\ t[Len(s)].ver = s[Len(s)].ver
          /\ \A i \in 1..Len(s) : i # Len(s) => t[i] = s[i]
    <2>1. s \in Seq(Record) /\ s # <<>>
      BY <1>1
    <2> HIDE DEF s
    <2> QED  BY <2>1, Marked
  <1>4. recs'[p] \in Seq(Record)
    BY <1>2, <1>3
  <1>5. recs' \in [Phys -> Seq(Record)]
    BY <1>1, <1>2, <1>4 DEF LastTo
  <1> QED  BY <1>2, <1>3, <1>5

LEMMA BeginEffect ==
  ASSUME BaseInv, WriteBegin
  PROVE  /\ recs' \in [Phys -> Seq(Record)]
         /\ Len(recs'[target]) = Len(recs[target]) + 1 /\ Len(recs[target]) < Slots
         /\ recs'[target][Len(recs[target]) + 1] = [ver |-> m_dummy_cfg, st |-> "torn"]
         /\ recs'[target] # <<>>
         /\ \A i \in 1..Len(recs[target]) : recs'[target][i] = recs[target][i]
         /\ \A q \in Phys : q # target => recs'[q] = recs[q]
  <1>1. TypeOK /\ target \in Phys /\ Len(recs[target]) < Slots /\ m_dummy_cfg \in 0..MaxStores
    BY DEF BaseInv, TypeOK, TargetInv, HasSpace, WriteBegin
  <1>2. [ver |-> m_dummy_cfg, st |-> "torn"] \in Record
    BY <1>1 DEF Record
  <1> QED  BY <1>1, <1>2, Appended DEF WriteBegin

LEMMA FinalizeEffect ==
  ASSUME BaseInv, WriteFinalize
  PROVE  /\ recs' \in [Phys -> Seq(Record)] /\ target \in Phys
         /\ Len(recs'[target]) = Len(recs[target]) /\ recs'[target] # <<>>
         /\ recs'[target][Len(recs[target])].st = "valid"
         /\ recs'[target][Len(recs[target])].ver = m_dummy_cfg
         /\ \A i \in 1..Len(recs[target]) : i # Len(recs[target]) => recs'[target][i] = recs[target][i]
         /\ \A q \in Phys : q # target => recs'[q] = recs[q]
  <1>1. /\ TypeOK /\ target \in Phys /\ recs[target] # <<>>
        /\ recs[target][Len(recs[target])].ver = m_dummy_cfg
    BY DEF BaseInv, TypeOK, TargetInv, WriteFinalize
  <1> QED  BY <1>1, LastMarked DEF WriteFinalize

LEMMA FlagEffect ==
  ASSUME BaseInv, FlagDirty
  PROVE  /\ recs' \in [Phys -> Seq(Record)]
         /\ \A p \in Phys : /\ Len(recs'[p]) = Len(recs[p])
                            /\ \A i \in 1..Len(recs[p]) :
                                 recs'[p][i] = IF recs[p][i].ver = old /\ IsLive(recs[p][i])
                                               THEN [recs[p][i] EXCEPT !.st = "dirty"]
                                               ELSE recs[p][i]
  <1>1. recs \in [Phys -> Seq(Record)]
    BY DEF BaseInv, TypeOK
  <1>2. \A p \in Phys : recs'[p] = Flagged(p)
    BY DEF FlagDirty
  <1>3. recs' \in [Phys -> Seq(Record)]
    BY <1>1, FlaggedIs DEF FlagDirty
  <1> QED  BY <1>1, <1>2, <1>3, FlaggedIs

LEMMA UncopiedIs ==
  ASSUME TypeOK, Uncopied # {}
  PROVE  /\ Min(Uncopied) \in Uncopied /\ Min(Uncopied) \in 1..Len(recs[target])
         /\ Min(Uncopied) > src /\ Min(Uncopied) \in Live(target)
         /\ \A i \in Live(target) : i > src => i >= Min(Uncopied)
  <1>1. target \in Phys /\ src \in Nat
    BY DEF TypeOK
  <1>2. Uncopied \subseteq Nat /\ Uncopied \subseteq 1..Len(recs[target])
    BY <1>1, RecordsAre DEF Uncopied
  <1>3. Min(Uncopied) \in Uncopied /\ \A i \in Uncopied : Min(Uncopied) <= i
    BY <1>2, LeastNumber
  <1> QED  BY <1>1, <1>2, <1>3, RecordsAre DEF Uncopied

LEMMA CopyEffect ==
  ASSUME BaseInv, GcCopy
  PROVE  /\ recs' \in [Phys -> Seq(Record)] /\ recs'[swap] # <<>>
         /\ Len(recs'[swap]) = Len(recs[swap]) + 1 /\ Len(recs'[swap]) <= src'
         /\ src' \in 1..Len(recs[target]) /\ src' \in Live(target) /\ src' > src
         /\ \A i \in Live(target) : i > src => i >= src'
         /\ recs'[swap][Len(recs[swap]) + 1].ver = recs[target][src'].ver
         /\ \A i \in 1..Len(recs[swap]) : recs'[swap][i] = recs[swap][i]
         /\ \A q \in Phys : q # swap => recs'[q] = recs[q]
  <1>1. TypeOK /\ swap \in Phys /\ target \in Phys /\ Len(recs[swap]) <= src
    BY DEF BaseInv, TypeOK, TargetInv, GcCopy, CopyOps
  <1>2. /\ src' \in 1..Len(recs[target]) /\ src' \in Live(target) /\ src' > src
        /\ \A i \in Live(target) : i > src => i >= src'
    BY <1>1, UncopiedIs DEF GcCopy
  <1>3. recs[target][src'] \in Record
    BY <1>1, <1>2, RecordsAre
  <1>4. PICK st \in {"torn", "half"} :
          recs' = [recs EXCEPT ![swap] = Append(@, [ver |-> recs[target][src'].ver, st |-> st])]
    BY DEF GcCopy
  <1>5. [ver |-> recs[target][src'].ver, st |-> st] \in Record
    BY <1>3 DEF Record
  <1>6. /\ recs' \in [Phys -> Seq(Record)] /\ recs'[swap] # <<>>
        /\ Len(recs'[swap]) = Len(recs[swap]) + 1
        /\ recs'[swap][Len(recs[swap]) + 1] = [ver |-> recs[target][src'].ver, st |-> st]
        /\ \A i \in 1..Len(recs[swap]) : recs'[swap][i] = recs[swap][i]
        /\ \A q \in Phys : q # swap => recs'[q] = recs[q]
    BY <1>1, <1>4, <1>5, Appended
  <1>7. Len(recs'[swap]) <= src'
    <2>1. Len(recs[swap]) \in Nat /\ src \in Nat /\ src' \in Nat
      BY <1>1, <1>2, RecordsAre DEF TypeOK
    <2> QED  BY <2>1, <1>1, <1>2, <1>6
  <1> QED  BY <1>2, <1>6, <1>7

LEMMA CopiedEffect ==
  ASSUME BaseInv, GcCopied
  PROVE  /\ recs' \in [Phys -> Seq(Record)] /\ swap \in Phys
         /\ Len(recs'[swap]) = Len(recs[swap]) /\ recs'[swap] # <<>>
         /\ recs'[swap][Len(recs[swap])].st = "valid"
         /\ recs'[swap][Len(recs[swap])].ver = recs[target][src].ver
         /\ \A i \in 1..Len(recs[swap]) : i # Len(recs[swap]) => recs'[swap][i] = recs[swap][i]
         /\ \A q \in Phys : q # swap => recs'[q] = recs[q]
  <1>1. /\ TypeOK /\ swap \in Phys /\ recs[swap] # <<>>
        /\ recs[swap][Len(recs[swap])].ver = recs[target][src].ver
    BY DEF BaseInv, TypeOK, TargetInv, GcCopied
  <1> QED  BY <1>1, LastMarked DEF GcCopied

LEMMA EmptyPage == <<>> \in Seq(Record) /\ Len(<<>>) = 0 /\ 1..0 = {}
  OBVIOUS

LEMMA Traded ==
  ASSUME TypeOK, NEW p \in Data, Trade(p)
  PROVE  /\ pages' \in [1..2 -> Phys] /\ swap' = p /\ swap' \in Phys
         /\ {pages'[1], pages'[2], swap'} = Phys
         /\ Data' = (Data \ {p}) \cup {swap} /\ can_gc' = can_gc \ {p}
  <1>1. /\ pages[1] \in Phys /\ pages[2] \in Phys /\ swap \in Phys /\ swap \notin Data
        /\ Data \cup {swap} = Phys /\ pages[1] # pages[2]
    BY PagesAre
  <1>2. pages'[1] = (IF pages[1] = p THEN swap ELSE pages[1]) /\ pages'[2] = (IF pages[2] = p THEN swap ELSE pages[2])
    BY DEF Trade
  <1>3. swap' = p /\ can_gc' = can_gc \ {p} /\ p \in Phys /\ (p = pages[1] \/ p = pages[2])
    BY <1>1 DEF Trade, Data
  <1>4. pages' \in [1..2 -> Phys]
    BY <1>1 DEF Trade
  <1>5. Data' = (Data \ {p}) \cup {swap} /\ {pages'[1], pages'[2], swap'} = Phys
    BY <1>1, <1>2, <1>3 DEF Data
  <1> QED  BY <1>3, <1>4, <1>5

(* The page that takes the place of the swap page when fds_init has found  *)
(* records on it.                                                          *)
LEMMA PromotedPage ==
  ASSUME BaseInv, PromoteSwap
  PROVE  Candidate \in Data /\ tag[Candidate] = "erased" /\ tag[swap] = "swap"
  <1>1. tag[swap] = "swap" /\ Erased # {}
    BY DEF BaseInv, TagInv, PromoteSwap
  <1>2. \E p \in Data : tag[p] = "erased"
    BY <1>1, PagesAre DEF BaseInv, Erased
  <1> QED  BY <1>1, <1>2 DEF Candidate, Data

LEMMA ResetType ==
  ASSUME BaseInv, ResetEffect
  PROVE  TypeOK'
  <1>1. /\ tag' = tag /\ recs' = recs /\ version' = version /\ confirmed' = confirmed
        /\ op' = "none" /\ pc' = "off" /\ old' = None /\ src' = 0 /\ target' = 1 /\ m_dummy_cfg' = 0
        /\ swap' = 3 /\ pages' = <<1, 2>> /\ can_gc' = {} /\ gcleft' = {} /\ flags' = {}
    BY DEF ResetEffect, flash
  <1>2. cut' \in BOOLEAN
    BY DEF ResetEffect, BaseInv, TypeOK
  <1>3. pages' \in [1..2 -> Phys] /\ swap' \in Phys /\ {pages'[1], pages'[2], swap'} = Phys /\ target' \in Phys
    BY <1>1 DEF Phys
  <1>4. m_dummy_cfg' \in 0..MaxStores /\ src' \in 0..Slots /\ old' \in {None} \cup 0..MaxStores
    BY <1>1, Sizes
  <1>5. op' \in Steps /\ pc' \in {"off", "init", "first", "main", "update", "gc"}
    BY <1>1 DEF Steps
  <1> QED  BY <1>1, <1>2, <1>3, <1>4, <1>5 DEF BaseInv, TypeOK

LEMMA BootEffect ==
  ASSUME BaseInv, Boot
  PROVE  /\ pages' \in [1..2 -> Phys] /\ swap' \in Phys /\ {pages'[1], pages'[2], swap'} = Phys
         /\ swap' \notin Data' /\ Data' = Phys \ {swap'}
         /\ (Swaps # {} => swap' \in Swaps) /\ (Swaps = {} => swap' \in Erased)
  <1>1. /\ swap' \in Phys /\ pages' \in [1..2 -> Phys] /\ pages'[1] # pages'[2]
        /\ pages'[1] # swap' /\ pages'[2] # swap'
        /\ (Swaps # {} => swap' \in Swaps) /\ (Swaps = {} => swap' \in Erased)
    BY BootPages DEF Boot
  <1>2. pages'[1] \in Phys /\ pages'[2] \in Phys
    BY <1>1
  <1>3. {pages'[1], pages'[2], swap'} = Phys
    BY <1>1, <1>2 DEF Phys
  <1> QED  BY <1>1, <1>2, <1>3 DEF Data

-----------------------------------------------------------------------------
(* Type correctness, step by step.                                         *)

LEMMA Emptied ==
  ASSUME TypeOK, NEW p \in Phys, recs' = [recs EXCEPT ![p] = <<>>]
  PROVE  /\ recs' \in [Phys -> Seq(Record)] /\ recs'[p] = <<>>
         /\ \A q \in Phys : q # p => recs'[q] = recs[q]
         /\ \A q \in Phys : Len(recs'[q]) <= Slots
  <1>1. recs \in [Phys -> Seq(Record)] /\ \A q \in Phys : Len(recs[q]) <= Slots
    BY DEF TypeOK
  <1>2. recs'[p] = <<>> /\ \A q \in Phys : q # p => recs'[q] = recs[q]
    BY <1>1
  <1>3. recs' \in [Phys -> Seq(Record)]
    BY <1>1, EmptyPage
  <1>4. Len(recs'[p]) <= Slots
    BY <1>2, EmptyPage, Sizes
  <1> QED  BY <1>1, <1>2, <1>3, <1>4

LEMMA TypeStep ==
  ASSUME BaseInv, [Next]_vars
  PROVE  TypeOK'
  <1>1. TypeOK
    BY DEF BaseInv
  <1>2. CASE TagSwap  BY <1>1, <1>2 DEF TagSwap, TypeOK, Steps, main, history, ram
  <1>3. CASE TagData  BY <1>1, <1>3 DEF TagData, TypeOK, Steps, main, history, ram, work
  <1>4. CASE EraseSwap
    <2>1. recs' \in [Phys -> Seq(Record)] /\ \A p \in Phys : Len(recs'[p]) <= Slots
      BY <1>1, <1>4, PagesAre, Emptied DEF EraseSwap
    <2> QED  BY <1>1, <1>4, <2>1 DEF EraseSwap, TypeOK, Steps, main, history, ram
  <1>5. CASE PromoteSwap
    <2>1. pages' \in [1..2 -> Phys] /\ swap' \in Phys /\ {pages'[1], pages'[2], swap'} = Phys
          /\ can_gc' \subseteq Phys
      BY <1>1, <1>5, PromotedPage, Traded DEF PromoteSwap, TypeOK
    <2> QED  BY <1>1, <1>5, <2>1 DEF PromoteSwap, TypeOK, Steps, main, history
  <1>6. CASE Initialized  BY <1>1, <1>6 DEF Initialized, TypeOK, Steps, main, history, ram, flash
  <1>7. CASE WriteBegin
    <2>1. recs' \in [Phys -> Seq(Record)] /\ \A p \in Phys : Len(recs'[p]) <= Slots
      <3>1. target \in Phys /\ Len(recs[target]) \in Nat
        BY <1>1, RecordsAre DEF TypeOK
      <3>2. Len(recs'[target]) <= Slots
        BY <1>7, <3>1, BeginEffect, Sizes
      <3> QED  BY <1>1, <1>7, <3>2, BeginEffect DEF TypeOK
    <2> QED  BY <1>1, <1>7, <2>1 DEF WriteBegin, TypeOK, Steps, main, history, ram
  <1>8. CASE WriteBody  BY <1>1, <1>8 DEF WriteBody, TypeOK, Steps, main, history, ram, flash
  <1>9. CASE WriteFinalize
    <2>1. recs' \in [Phys -> Seq(Record)] /\ \A p \in Phys : Len(recs'[p]) <= Slots
      BY <1>1, <1>9, FinalizeEffect, RecordsAre DEF TypeOK
    <2> QED  BY <1>1, <1>9, <2>1 DEF WriteFinalize, TypeOK, Steps, main, history, ram
  <1>10. CASE FlagDirty
    <2>1. recs' \in [Phys -> Seq(Record)] /\ \A p \in Phys : Len(recs'[p]) <= Slots
      BY <1>1, <1>10, FlagEffect, RecordsAre DEF TypeOK
    <2> QED  BY <1>1, <1>10, <2>1 DEF FlagDirty, TypeOK, Steps, main, history
  <1>11. CASE WriteDone  BY <1>1, <1>11 DEF WriteDone, TypeOK, Steps, main, ram, flash
  <1>12. CASE GcNextPage
    <2>1. target' \in Phys /\ src' = 0 /\ gcleft' \subseteq Phys
      BY <1>1, <1>12, PagesAre DEF GcNextPage, TypeOK
    <2>2. src' \in 0..Slots
      BY <2>1, Sizes
    <2> QED  BY <1>1, <1>12, <2>1, <2>2 DEF GcNextPage, TypeOK, Steps, main, history, ram, flash
  <1>13. CASE GcDone  BY <1>1, <1>13 DEF GcDone, TypeOK, Steps, main, history, ram, flash
  <1>14. CASE GcCopy
    <2>1. src' \in 1..Len(recs[target]) /\ Len(recs[target]) <= Slots /\ Len(recs[target]) \in Nat
      BY <1>1, <1>14, CopyEffect, RecordsAre DEF TypeOK
    <2>2. src' \in 0..Slots /\ src' <= Slots
      BY <2>1, Sizes
    <2>3. recs' \in [Phys -> Seq(Record)] /\ Len(recs'[swap]) <= src' /\ Len(recs'[swap]) \in Nat
      BY <1>1, <1>14, CopyEffect DEF TypeOK
    <2>4. \A p \in Phys : Len(recs'[p]) <= Slots
      <3>1. Len(recs'[swap]) <= Slots
        BY <2>2, <2>3, Sizes
      <3> QED  BY <1>1, <1>14, <3>1, CopyEffect DEF TypeOK
    <2> QED  BY <1>1, <1>14, <2>2, <2>3, <2>4 DEF GcCopy, TypeOK, Steps, main, history, ram
  <1>15. CASE GcCopied
    <2>1. recs' \in [Phys -> Seq(Record)] /\ \A p \in Phys : Len(recs'[p]) <= Slots
      BY <1>1, <1>15, CopiedEffect, RecordsAre DEF TypeOK
    <2> QED  BY <1>1, <1>15, <2>1 DEF GcCopied, TypeOK, Steps, main, history, ram
  <1>16. CASE GcErase
    <2>1. target \in Data /\ target \in Phys
      BY <1>1, <1>16 DEF BaseInv, TargetInv, GcErase, GcOps, CopyOps, TypeOK
    <2>2. recs' \in [Phys -> Seq(Record)] /\ \A p \in Phys : Len(recs'[p]) <= Slots
      BY <1>1, <1>16, <2>1, Emptied DEF GcErase
    <2>3. pages' \in [1..2 -> Phys] /\ swap' \in Phys /\ {pages'[1], pages'[2], swap'} = Phys
          /\ can_gc' \subseteq Phys
      BY <1>1, <1>16, <2>1, Traded DEF GcErase, TypeOK
    <2> QED  BY <1>1, <1>16, <2>2, <2>3 DEF GcErase, TypeOK, Steps, main, history
  <1>17. CASE GcPromote  BY <1>1, <1>17 DEF GcPromote, TypeOK, Steps, main, history, ram
  <1>18. CASE GcTagSwap  BY <1>1, <1>18 DEF GcTagSwap, TypeOK, Steps, main, history, ram
  <1>19. CASE Boot
    <2>1. op' \in Steps
      BY <1>19 DEF Boot, FirstStep, Steps
    <2>2. can_gc' \subseteq Phys /\ m_dummy_cfg' \in 0..MaxStores
      BY <1>19, Sizes DEF Boot
    <2> QED  BY <1>1, <1>19, <2>1, <2>2, BootEffect DEF Boot, TypeOK, flash, history
  <1>20. CASE ReadConfig
    <2>1. CASE IsFound /\ pc' = "main" /\ m_dummy_cfg' = Found.ver
      <3>1. Found.ver \in 0..MaxStores
        BY <2>1, FoundVersion
      <3> QED
        BY <1>1, <1>20, <2>1, <3>1 DEF ReadConfig, ResetEffect, TypeOK, flash, ram, work, history
    <2>2. CASE ~IsFound /\ ~NoSpace
      <3>1. target' \in Phys
        BY <1>20, <2>2, <1>1, PagesAre DEF ReadConfig, Enqueue
      <3> QED
        BY <1>1, <1>20, <2>2, <3>1 DEF ReadConfig, Enqueue, TypeOK, Steps, flash, ram, history
    <2>3. CASE ResetEffect
      BY <2>3, ResetType
    <2> QED  BY <1>20, <2>1, <2>2, <2>3 DEF ReadConfig
  <1>21. CASE FirstWritten  BY <1>1, <1>21 DEF FirstWritten, TypeOK, flash, ram, work, history
  <1>22. CASE Store
    <2>1. CASE Enqueue(Found.ver) /\ pc' = "update"
      <3>1. target' \in Phys
        BY <2>1, <1>1, PagesAre DEF Enqueue
      <3>2. m_dummy_cfg' \in 0..MaxStores
        BY <1>22, StoreVersions
      <3> QED
        BY <1>1, <1>22, <2>1, <3>1, <3>2, StoreVersions
        DEF Store, Enqueue, TypeOK, Steps, flash, ram, history
    <2>2. CASE StartGc /\ pc' = "gc"
      <3>1. m_dummy_cfg' \in 0..MaxStores
        BY <1>22, StoreVersions
      <3> QED
        BY <1>1, <1>22, <2>2, <3>1, StoreVersions
        DEF Store, StartGc, TypeOK, Steps, flash, ram, history
    <2> QED  BY <1>22, <2>1, <2>2 DEF Store
  <1>23. CASE UpdateAgain
    <2>1. CASE Enqueue(old) /\ pc' = "update"
      <3>1. target' \in Phys
        BY <2>1, <1>1, PagesAre DEF Enqueue
      <3> QED
        BY <1>1, <1>23, <2>1, <3>1 DEF UpdateAgain, Enqueue, TypeOK, Steps, flash, ram, history
    <2>2. CASE pc' = "main" /\ UNCHANGED work
      BY <1>1, <1>23, <2>2 DEF UpdateAgain, TypeOK, flash, ram, work, history
    <2> QED  BY <1>23, <2>1, <2>2 DEF UpdateAgain
  <1>24. CASE Updated  BY <1>1, <1>24 DEF Updated, TypeOK, flash, ram, work, history
  <1>25. CASE TimesOut  BY <1>1, <1>25 DEF TimesOut, TypeOK, Steps, flash, ram, main
  <1>26. CASE Reset  BY <1>26, ResetType DEF Reset
  <1>27. CASE Watchdog  BY <1>27, ResetType DEF Watchdog
  <1>28. CASE UNCHANGED vars  BY <1>1, <1>28 DEF vars, TypeOK, flash, ram, work, main, history
  <1> QED
    BY <1>2, <1>3, <1>4, <1>5, <1>6, <1>7, <1>8, <1>9, <1>10, <1>11, <1>12, <1>13, <1>14, <1>15, <1>16,
       <1>17, <1>18, <1>19, <1>20, <1>21, <1>22, <1>23, <1>24, <1>25, <1>26, <1>27, <1>28
    DEF Next, FdsStep, MainStep

-----------------------------------------------------------------------------
(* The tags, step by step.                                                 *)

(* Between boot and the next reset the swap page is known, but for the two *)
(* steps in which a collection changes it.                                 *)
LEMMA SwapKnown ==
  ASSUME BaseInv, op \notin BootOps \cup {"none", "gc promote", "gc tag"}
  PROVE  /\ ~Quiet /\ tag[swap] = "swap" /\ Erased = {} /\ (op \notin CopyOps => recs[swap] = <<>>)
         /\ Home = Data /\ \A p \in Data : tag[p] = "data"
         /\ pc \in {"first", "update", "gc"}
  <1>1. ~Quiet /\ pc \in {"first", "update", "gc"}
    BY DEF BaseInv, TypeOK, PhaseInv, Quiet
  <1>2. tag[swap] = "swap" /\ Erased = {} /\ (op \notin CopyOps => recs[swap] = <<>>)
    BY <1>1 DEF BaseInv, TagInv
  <1> QED  BY <1>1, <1>2, HomeIsData DEF BaseInv

LEMMA FlashKept ==
  ASSUME FlashInv, UNCHANGED flash
  PROVE  FlashInv'
  BY DEF FlashInv, flash

(* Writing on a page that carries no erased tag.                           *)
LEMMA RecordsWritten ==
  ASSUME TypeOK, FlashInv, Erased = {}, UNCHANGED tag
  PROVE  FlashInv'
  <1>1. \A p \in Phys : tag[p] # "erased"
    BY DEF Erased
  <1> QED  BY <1>1 DEF FlashInv

LEMMA FlashStep ==
  ASSUME BaseInv, [Next]_vars
  PROVE  FlashInv'
  <1>1. TypeOK /\ FlashInv /\ tag \in [Phys -> {"erased", "data", "swap"}] /\ swap \in Phys
    BY DEF BaseInv, TypeOK
  <1>2. CASE TagSwap
    <2>1. Swaps = {} /\ tag[swap] = "erased" /\ recs[swap] = <<>>
      BY <1>2, <1>1 DEF BaseInv, TagInv, FlashInv, TagSwap
    <2>2. \A p \in Phys : tag[p] # "swap"
      BY <2>1 DEF Swaps
    <2>3. recs' = recs /\ tag'[swap] = "swap" /\ \A p \in Phys : p # swap => tag'[p] = tag[p]
      BY <1>2, <1>1 DEF TagSwap
    <2> QED  BY <1>1, <2>1, <2>2, <2>3 DEF FlashInv
  <1>3. CASE TagData
    <2>1. PICK i \in 1..2 : tag' = [tag EXCEPT ![pages[i]] = "data"]
      BY <1>3 DEF TagData
    <2>2. pages[i] \in Phys /\ pages[i] # swap /\ tag[swap] = "swap" /\ recs' = recs
      <3>1. i = 1 \/ i = 2
        OBVIOUS
      <3> QED  BY <1>3, <1>1, <3>1, PagesAre DEF TagData, BaseInv, TagInv, Data
    <2>3. tag'[pages[i]] = "data" /\ \A p \in Phys : p # pages[i] => tag'[p] = tag[p]
      BY <1>1, <2>1, <2>2
    <2> QED  BY <1>1, <2>2, <2>3 DEF FlashInv
  <1>4. CASE EraseSwap
    <2>1. tag[swap] = "swap" /\ Erased = {}
      BY <1>4 DEF BaseInv, TagInv, EraseSwap
    <2>2. recs'[swap] = <<>> /\ \A q \in Phys : q # swap => recs'[q] = recs[q]
      BY <1>1, <1>4, Emptied DEF EraseSwap
    <2>3. tag'[swap] = "erased" /\ \A p \in Phys : p # swap => tag'[p] = tag[p]
      BY <1>4, <1>1 DEF EraseSwap
    <2>4. \A p \in Phys : tag'[p] # "swap"
      BY <1>1, <2>1, <2>3 DEF FlashInv
    <2> QED  BY <1>1, <2>2, <2>3, <2>4 DEF FlashInv
  <1>5. CASE PromoteSwap
    <2>1. Candidate \in Phys /\ tag[Candidate] = "erased" /\ tag[swap] = "swap"
      BY <1>5, <1>1, PromotedPage, PagesAre
    <2>2. recs' = recs /\ tag'[swap] = "data" /\ \A p \in Phys : p # swap => tag'[p] = tag[p]
      BY <1>5, <1>1 DEF PromoteSwap
    <2>3. \A p \in Phys : tag'[p] # "swap"
      BY <1>1, <2>1, <2>2 DEF FlashInv
    <2> QED  BY <1>1, <2>1, <2>2, <2>3 DEF FlashInv
  <1>6. CASE GcErase
    <2>1. tag[swap] = "swap" /\ Erased = {} /\ target \in Phys /\ target # swap
      BY <1>6, <1>1, SwapKnown, PagesAre
      DEF GcErase, BootOps, BaseInv, TargetInv, GcOps, CopyOps, WriteOps
    <2>2. recs'[target] = <<>> /\ \A q \in Phys : q # target => recs'[q] = recs[q]
      BY <1>1, <1>6, <2>1, Emptied DEF GcErase
    <2>3. tag'[target] = "erased" /\ \A p \in Phys : p # target => tag'[p] = tag[p]
      BY <1>6, <1>1, <2>1 DEF GcErase
    <2>4. \A p \in Phys : tag[p] # "erased"
      BY <2>1 DEF Erased
    <2> QED  BY <1>1, <2>1, <2>2, <2>3, <2>4 DEF FlashInv
  <1>7. CASE GcPromote
    <2>1. tag[target] = "swap" /\ Erased = {swap} /\ target \in Phys
      BY <1>7, <1>1 DEF BaseInv, TagInv, GcPromote, TypeOK
    <2>2. recs' = recs /\ tag'[target] = "data" /\ \A p \in Phys : p # target => tag'[p] = tag[p]
      BY <1>7, <1>1, <2>1 DEF GcPromote
    <2>3. tag[swap] = "erased"
      BY <2>1 DEF Erased
    <2> QED  BY <1>1, <2>1, <2>2, <2>3 DEF FlashInv
  <1>8. CASE GcTagSwap
    <2>1. Swaps = {} /\ Erased = {swap}
      BY <1>8 DEF BaseInv, TagInv, GcTagSwap
    <2>2. recs' = recs /\ tag'[swap] = "swap" /\ \A p \in Phys : p # swap => tag'[p] = tag[p]
      BY <1>8, <1>1 DEF GcTagSwap
    <2>3. \A p \in Phys : tag[p] # "swap" /\ (tag[p] = "erased" <=> p = swap)
      BY <1>1, <2>1 DEF Swaps, Erased
    <2> QED  BY <1>1, <2>2, <2>3 DEF FlashInv
  <1>9. CASE UNCHANGED tag /\ Erased = {}
    BY <1>9, <1>1, RecordsWritten
  <1>10. CASE UNCHANGED flash
    BY <1>10, <1>1, FlashKept
  <1>11. CASE WriteBegin \/ WriteFinalize \/ FlagDirty \/ GcCopy \/ GcCopied
    <2>1. UNCHANGED tag /\ op \notin BootOps \cup {"none", "gc promote", "gc tag"}
      BY <1>11 DEF WriteBegin, WriteFinalize, FlagDirty, GcCopy, GcCopied, BootOps
    <2> QED  BY <2>1, <1>9, SwapKnown
  <1>12. CASE Initialized \/ WriteBody \/ WriteDone \/ GcNextPage \/ GcDone
    BY <1>12, <1>10 DEF Initialized, WriteBody, WriteDone, GcNextPage, GcDone
  <1>13. CASE Boot \/ ReadConfig \/ FirstWritten \/ UpdateAgain \/ Updated
    BY <1>13, <1>10 DEF Boot, ReadConfig, FirstWritten, UpdateAgain, Updated, ResetEffect
  <1>14. CASE Store \/ TimesOut \/ Reset \/ Watchdog \/ UNCHANGED vars
    BY <1>14, <1>10 DEF Store, TimesOut, Reset, Watchdog, ResetEffect, vars
  <1> QED
    BY <1>2, <1>3, <1>4, <1>5, <1>6, <1>7, <1>8, <1>11, <1>12, <1>13, <1>14
    DEF Next, FdsStep, MainStep

LEMMA ResetTag ==
  ASSUME ResetEffect
  PROVE  TagInv'
  BY DEF ResetEffect, TagInv, Quiet, CopyOps

(* Where no step is half done, only the place in the RAM moves on.         *)
LEMMA TagAtRest ==
  ASSUME tag[swap] = "swap", Erased = {}, recs[swap] = <<>>, UNCHANGED <<tag, recs, swap>>,
         op' \in {"none", "begin", "body", "finalize", "flag", "done", "gc next", "gc find"}
  PROVE  TagInv'
  <1>1. tag'[swap'] = "swap" /\ Erased' = {} /\ recs'[swap'] = <<>>
    BY DEF Erased
  <1> QED  BY <1>1 DEF TagInv

LEMMA TagStep ==
  ASSUME BaseInv, [Next]_vars
  PROVE  TagInv'
  <1>1. /\ TypeOK /\ FlashInv /\ TagInv /\ PhaseInv /\ tag \in [Phys -> {"erased", "data", "swap"}]
        /\ swap \in Phys /\ swap \notin Data /\ Data \subseteq Phys
    BY PagesAre DEF BaseInv, TypeOK
  <1>2. CASE TagSwap
    <2>1. Swaps = {} /\ tag[swap] = "erased" /\ recs[swap] = <<>>
      BY <1>2, <1>1 DEF TagInv, FlashInv, TagSwap
    <2>2. tag'[swap'] = "swap" /\ recs'[swap'] = <<>> /\ op' = "tag data"
      BY <1>2, <1>1, <2>1 DEF TagSwap, ram
    <2> QED  BY <2>2 DEF TagInv, BootOps
  <1>3. CASE TagData
    <2>1. PICK i \in 1..2 : tag' = [tag EXCEPT ![pages[i]] = "data"]
      BY <1>3 DEF TagData
    <2>2. i = 1 \/ i = 2
      OBVIOUS
    <2>3. pages[i] \in Phys /\ pages[i] # swap /\ tag[swap] = "swap" /\ recs[swap] = <<>>
      BY <1>3, <1>1, <2>2, PagesAre DEF TagData, TagInv, Data
    <2>4. tag'[swap'] = "swap" /\ recs'[swap'] = <<>> /\ op' = "tag data"
      BY <1>3, <1>1, <2>1, <2>3 DEF TagData, ram, work
    <2> QED  BY <2>4 DEF TagInv, BootOps
  <1>4. CASE EraseSwap
    <2>1. tag[swap] = "swap" /\ Erased = {}
      BY <1>4, <1>1 DEF TagInv, EraseSwap
    <2>2. op' = "tag swap" /\ swap' = swap /\ tag'[swap] = "erased"
          /\ \A p \in Phys : p # swap => tag'[p] = tag[p]
      BY <1>4, <1>1 DEF EraseSwap, ram
    <2>3. \A p \in Phys : tag'[p] # "swap"
      BY <1>1, <2>1, <2>2 DEF FlashInv
    <2>4. Swaps' = {}
      BY <2>3 DEF Swaps
    <2> QED  BY <2>2, <2>4 DEF TagInv, BootOps
  <1>5. CASE PromoteSwap
    <2>1. Candidate \in Data /\ tag[Candidate] = "erased" /\ tag[swap] = "swap"
      BY <1>5, <1>1, PromotedPage
    <2>2. swap' = Candidate /\ op' = "tag swap"
          /\ tag'[swap] = "data" /\ \A p \in Phys : p # swap => tag'[p] = tag[p]
      BY <1>5, <1>1 DEF PromoteSwap, Trade
    <2>3. \A p \in Phys : tag'[p] # "swap"
      BY <1>1, <2>1, <2>2 DEF FlashInv
    <2>4. Swaps' = {} /\ tag'[swap'] = "erased"
      BY <1>1, <2>1, <2>2, <2>3 DEF Swaps
    <2> QED  BY <2>2, <2>4 DEF TagInv, BootOps
  <1>6. CASE Initialized
    <2>1. tag[swap] = "swap" /\ Erased = {} /\ recs[swap] = <<>>
      BY <1>6, <1>1 DEF TagInv, Initialized
    <2> QED  BY <1>6, <2>1, TagAtRest DEF Initialized, flash, ram
  <1>7. CASE WriteBegin \/ WriteFinalize \/ FlagDirty
    <2>1. op \notin BootOps \cup {"none", "gc promote", "gc tag"} \cup CopyOps /\ op \in WriteOps \ {"done"}
      BY <1>7 DEF WriteBegin, WriteFinalize, FlagDirty, BootOps, CopyOps, WriteOps
    <2>2. tag[swap] = "swap" /\ Erased = {} /\ recs[swap] = <<>>
      BY <2>1, SwapKnown
    <2>3. op' \in {"body", "finalize", "done", "flag"} /\ tag' = tag /\ swap' = swap
      BY <1>7 DEF WriteBegin, WriteFinalize, FlagDirty, ram
    <2>4. recs'[swap] = <<>>
      <3>1. CASE WriteBegin \/ WriteFinalize
        <4>1. target \in Data
          BY <2>1 DEF BaseInv, TargetInv
        <4> QED  BY <3>1, <4>1, <2>2, <1>1, BeginEffect, FinalizeEffect
      <3>2. CASE FlagDirty
        <4>1. recs' \in [Phys -> Seq(Record)] /\ Len(recs'[swap]) = Len(recs[swap])
          BY <3>2, <1>1, FlagEffect
        <4>2. recs'[swap] \in Seq(Record) /\ Len(recs'[swap]) = 0
          BY <4>1, <2>2, <1>1, EmptyPage
        <4> QED  BY <4>2
      <3> QED  BY <1>7, <3>1, <3>2
    <2>5. Erased' = {}
      BY <2>2, <2>3 DEF Erased
    <2> QED  BY <2>2, <2>3, <2>4, <2>5 DEF TagInv, BootOps
  <1>8. CASE WriteBody \/ WriteDone \/ GcNextPage \/ GcDone
    <2>1. op \notin BootOps \cup {"none", "gc promote", "gc tag"} \cup CopyOps
      BY <1>8 DEF WriteBody, WriteDone, GcNextPage, GcDone, BootOps, CopyOps
    <2>2. tag[swap] = "swap" /\ Erased = {} /\ recs[swap] = <<>>
      BY <2>1, SwapKnown
    <2> QED  BY <1>8, <2>2, TagAtRest DEF WriteBody, WriteDone, GcNextPage, GcDone, flash, ram
  <1>9. CASE GcCopy \/ GcCopied
    <2>1. op \notin BootOps \cup {"none", "gc promote", "gc tag"}
      BY <1>9 DEF GcCopy, GcCopied, BootOps
    <2>2. tag[swap] = "swap" /\ Erased = {}
      BY <2>1, SwapKnown
    <2>3. op' \in CopyOps /\ tag' = tag /\ swap' = swap
      BY <1>9 DEF GcCopy, GcCopied, CopyOps, ram
    <2>4. Erased' = {}
      BY <2>2, <2>3 DEF Erased
    <2> QED  BY <2>2, <2>3, <2>4 DEF TagInv, CopyOps
  <1>10. CASE GcErase
    <2>1. tag[swap] = "swap" /\ Erased = {} /\ target \in Data
      BY <1>10, <1>1, SwapKnown DEF GcErase, BootOps, BaseInv, TargetInv, GcOps, CopyOps, WriteOps
    <2>2. op' = "gc promote" /\ swap' = target /\ target' = swap /\ tag'[target] = "erased"
          /\ \A p \in Phys : p # target => tag'[p] = tag[p]
      BY <1>10, <1>1, <2>1 DEF GcErase, Trade
    <2>3. \A p \in Phys : tag'[p] = "erased" <=> p = target
      BY <1>1, <2>1, <2>2 DEF Erased
    <2>4. Erased' = {swap'} /\ tag'[target'] = "swap"
      BY <1>1, <2>1, <2>2, <2>3 DEF Erased
    <2> QED  BY <2>2, <2>4 DEF TagInv, BootOps
  <1>11. CASE GcPromote
    <2>1. tag[target] = "swap" /\ Erased = {swap} /\ target \in Phys
      BY <1>11, <1>1 DEF TagInv, GcPromote, TypeOK
    <2>2. op' = "gc tag" /\ swap' = swap /\ tag'[target] = "data"
          /\ \A p \in Phys : p # target => tag'[p] = tag[p]
      BY <1>11, <1>1, <2>1 DEF GcPromote, ram
    <2>3. \A p \in Phys : tag'[p] # "swap" /\ (tag'[p] = "erased" <=> tag[p] = "erased")
      BY <1>1, <2>1, <2>2 DEF FlashInv
    <2>4. Swaps' = {} /\ Erased' = {swap'}
      BY <2>1, <2>2, <2>3 DEF Swaps, Erased
    <2> QED  BY <2>2, <2>4 DEF TagInv, BootOps
  <1>12. CASE GcTagSwap
    <2>1. Erased = {swap}
      BY <1>12, <1>1 DEF TagInv, GcTagSwap
    <2>2. op' = "gc next" /\ swap' = swap /\ tag'[swap] = "swap" /\ recs' = recs
          /\ \A p \in Phys : p # swap => tag'[p] = tag[p]
      BY <1>12, <1>1 DEF GcTagSwap, ram
    <2>3. \A p \in Phys : (tag[p] = "erased" <=> p = swap) /\ tag'[p] # "erased"
      BY <1>1, <2>1, <2>2 DEF Erased
    <2>4. Erased' = {} /\ recs'[swap] = <<>>
      BY <1>1, <2>2, <2>3 DEF Erased, FlashInv
    <2> QED  BY <2>2, <2>4 DEF TagInv, BootOps
  <1>13. CASE Boot
    <2>1. /\ tag' = tag /\ recs' = recs /\ swap' = SwapPage /\ op' = FirstStep
          /\ (Swaps # {} => swap' \in Swaps) /\ (Swaps = {} => swap' \in Erased)
      BY <1>13, BootEffect DEF Boot, flash
    <2>2. Swaps' = Swaps /\ Erased' = Erased
      BY <2>1 DEF Swaps, Erased
    <2>3. CASE Swaps = {}
      BY <2>1, <2>2, <2>3 DEF TagInv, FirstStep, Erased, BootOps
    <2>4. CASE Swaps # {}
      <3>1. tag'[swap'] = "swap"
        BY <2>1, <2>4 DEF Swaps
      <3> QED  BY <2>1, <2>2, <2>4, <3>1 DEF TagInv, FirstStep, BootOps
    <2> QED  BY <2>3, <2>4
  <1>14. CASE ReadConfig
    <2>1. tag[swap] = "swap" /\ Erased = {} /\ recs[swap] = <<>> /\ op = "none"
      <3>1. op = "none" /\ pc = "init"
        BY <1>14, <1>1 DEF ReadConfig, PhaseInv
      <3> QED  BY <3>1, AtRest
    <2>2. CASE ResetEffect
      BY <2>2, ResetTag
    <2>3. CASE UNCHANGED <<flash, ram>> /\ op' \in {"none", "begin"}
      BY <2>1, <2>3, TagAtRest DEF flash, ram
    <2> QED  BY <1>14, <2>1, <2>2, <2>3 DEF ReadConfig, Enqueue, work
  <1>15. CASE Store
    <2>1. tag[swap] = "swap" /\ Erased = {} /\ recs[swap] = <<>>
      BY <1>15, <1>1, AtRest DEF Store, PhaseInv
    <2> QED  BY <1>15, <2>1, TagAtRest DEF Store, Enqueue, StartGc, flash, ram
  <1>16. CASE FirstWritten \/ UpdateAgain \/ Updated
    <2>1. ~Quiet /\ (op = "none" \/ op = "done")
      BY <1>16, <1>1 DEF FirstWritten, UpdateAgain, Updated, PhaseInv, Quiet
    <2>2. tag[swap] = "swap" /\ Erased = {} /\ recs[swap] = <<>>
      BY <2>1, <1>1 DEF TagInv, BootOps, CopyOps
    <2>3. op' \in {"none", "done", "begin"} /\ UNCHANGED <<flash, ram>>
      BY <1>16, <2>1 DEF FirstWritten, UpdateAgain, Updated, Enqueue, work
    <2> QED  BY <2>2, <2>3, TagAtRest DEF flash, ram
  <1>17. CASE TimesOut
    <2>1. Quiet' /\ op' = "none"
      BY <1>17, <1>1 DEF TimesOut, PhaseInv, Quiet, main
    <2> QED  BY <2>1 DEF TagInv
  <1>18. CASE Reset \/ Watchdog
    BY <1>18, ResetTag DEF Reset, Watchdog
  <1>19. CASE UNCHANGED vars
    BY <1>19, <1>1 DEF vars, TagInv, Quiet, Erased, Swaps, flash, ram, work, main
  <1> QED
    BY <1>2, <1>3, <1>4, <1>5, <1>6, <1>7, <1>8, <1>9, <1>10, <1>11, <1>12, <1>13, <1>14, <1>15, <1>16,
       <1>17, <1>18, <1>19
    DEF Next, FdsStep, MainStep

-----------------------------------------------------------------------------
(* The page written to or collected, step by step.                         *)

LEMMA EnqueueTarget ==
  ASSUME TypeOK, ~NoSpace, NEW v, Enqueue(v), UNCHANGED <<recs, pages, swap>>
  PROVE  TargetInv'
  <1>1. target' \in Data /\ HasSpace(target')
    BY DEF NoSpace, Enqueue, Data
  <1>2. target' \in Data' /\ Len(recs'[target']) < Slots /\ op' = "begin"
    BY <1>1 DEF Data, HasSpace, Enqueue
  <1> QED  BY <1>2 DEF TargetInv, HasSpace, CopyOps

LEMMA TargetStep ==
  ASSUME BaseInv, [Next]_vars
  PROVE  TargetInv'
  <1>1. /\ TypeOK /\ TargetInv /\ PhaseInv /\ target \in Phys /\ swap \in Phys
        /\ swap \notin Data /\ Data \subseteq Phys
    BY PagesAre DEF BaseInv, TypeOK
  <1>2. CASE op' \in BootOps \cup {"none", "done", "gc next"}
    BY <1>2 DEF TargetInv, BootOps, WriteOps, GcOps, CopyOps
  <1>3. CASE TagSwap \/ TagData \/ EraseSwap \/ PromoteSwap \/ Initialized \/ Boot
    BY <1>3, <1>2 DEF TagSwap, TagData, EraseSwap, PromoteSwap, Initialized, Boot, FirstStep, BootOps, work
  <1>4. CASE FlagDirty \/ WriteDone \/ GcDone \/ GcTagSwap \/ TimesOut \/ Reset \/ Watchdog
    BY <1>4, <1>2 DEF FlagDirty, WriteDone, GcDone, GcTagSwap, TimesOut, Reset, Watchdog, ResetEffect
  <1>5. CASE FirstWritten \/ Updated
    BY <1>5, <1>2, <1>1 DEF FirstWritten, Updated, PhaseInv, work
  <1>6. CASE UNCHANGED vars
    BY <1>6, <1>1 DEF vars, flash, ram, work, main, TargetInv, Data, HasSpace
  <1>7. CASE WriteBegin
    <2>1. op' = "body" /\ target' = target /\ target \in Data /\ Data' = Data /\ m_dummy_cfg' = m_dummy_cfg
      BY <1>7, <1>1 DEF WriteBegin, TargetInv, WriteOps, Data, ram, main
    <2>2. Len(recs'[target]) = Len(recs[target]) + 1 /\ recs'[target] # <<>>
          /\ recs'[target][Len(recs[target]) + 1] = [ver |-> m_dummy_cfg, st |-> "torn"]
      BY <1>7, BeginEffect
    <2>3. recs'[target][Len(recs'[target])] = [ver |-> m_dummy_cfg, st |-> "torn"]
      BY <2>2
    <2> QED  BY <2>1, <2>2, <2>3 DEF TargetInv, CopyOps
  <1>8. CASE WriteBody
    <2>1. op = "body" /\ op' = "finalize" /\ target' = target /\ recs' = recs /\ Data' = Data
          /\ m_dummy_cfg' = m_dummy_cfg
      BY <1>8 DEF WriteBody, ram, main, flash, Data
    <2> QED  BY <1>1, <2>1 DEF TargetInv, CopyOps, WriteOps
  <1>9. CASE WriteFinalize
    <2>1. op' \in {"flag", "done"} /\ target' = target /\ target \in Data /\ Data' = Data
          /\ m_dummy_cfg' = m_dummy_cfg
      BY <1>9, <1>1 DEF WriteFinalize, TargetInv, WriteOps, Data, ram, main
    <2>2. Len(recs'[target]) = Len(recs[target]) /\ recs'[target] # <<>>
          /\ recs'[target][Len(recs[target])].st = "valid"
          /\ recs'[target][Len(recs[target])].ver = m_dummy_cfg
      BY <1>9, FinalizeEffect
    <2>3. recs'[target][Len(recs'[target])].st = "valid" /\ recs'[target][Len(recs'[target])].ver = m_dummy_cfg
      BY <2>2
    <2> QED  BY <2>1, <2>2, <2>3 DEF TargetInv, CopyOps
  <1>10. CASE GcNextPage
    <2>1. PICK i \in 1..2 : target' = pages[i] /\ src' = 0
      BY <1>10 DEF GcNextPage
    <2>2. target' \in Data /\ src' = 0 /\ op' = "gc find" /\ recs' = recs /\ swap' = swap /\ Data' = Data
      <3>1. i = 1 \/ i = 2
        OBVIOUS
      <3> QED  BY <1>10, <2>1, <3>1 DEF GcNextPage, Data, flash, ram
    <2>3. recs[swap] = <<>>
      BY <1>10, SwapKnown DEF GcNextPage, BootOps, CopyOps
    <2>4. src' <= Len(recs'[target']) /\ Len(recs'[swap']) <= src'
      <3>1. target' \in Phys /\ Len(recs[target']) \in Nat /\ Len(recs[swap]) = 0
        BY <1>1, <2>2, <2>3, RecordsAre, EmptyPage
      <3>2. 0 <= Len(recs[target']) /\ Len(recs[swap]) <= 0
        BY <3>1
      <3> QED  BY <2>2, <3>2
    <2> QED  BY <2>2, <2>4 DEF TargetInv
  <1>11. CASE GcCopy
    <2>1. op' = "gc copying" /\ target' = target /\ target \in Data /\ swap' = swap /\ Data' = Data
      BY <1>11, <1>1 DEF GcCopy, TargetInv, GcOps, CopyOps, WriteOps, ram, Data
    <2>2. recs'[target] = recs[target] /\ IsLive(recs[target][src']) /\ src' \in 1..Len(recs[target])
      BY <1>11, <1>1, <2>1, CopyEffect, RecordsAre
    <2>3. src' <= Len(recs'[target]) /\ src' > 0
      BY <1>1, <2>2, RecordsAre
    <2>4. recs'[swap] # <<>> /\ Len(recs'[swap]) <= src'
          /\ recs'[swap][Len(recs'[swap])].ver = recs[target][src'].ver
      BY <1>11, CopyEffect
    <2> QED  BY <2>1, <2>2, <2>3, <2>4 DEF TargetInv, IsLive
  <1>12. CASE GcCopied
    <2>1. op' = "gc find" /\ target' = target /\ target \in Data /\ swap' = swap /\ src' = src /\ Data' = Data
      BY <1>12, <1>1 DEF GcCopied, TargetInv, GcOps, CopyOps, WriteOps, ram, Data
    <2>2. recs'[target] = recs[target] /\ Len(recs'[swap]) = Len(recs[swap])
      BY <1>12, <1>1, <2>1, CopiedEffect
    <2>3. src <= Len(recs[target]) /\ Len(recs[swap]) <= src
      BY <1>12, <1>1 DEF GcCopied, TargetInv, CopyOps
    <2> QED  BY <2>1, <2>2, <2>3 DEF TargetInv
  <1>13. CASE GcErase
    <2>1. target \in Data
      BY <1>13, <1>1 DEF GcErase, TargetInv, GcOps, CopyOps, WriteOps
    <2>2. op' = "gc promote" /\ target' \in Data'
      BY <1>13, <1>1, <2>1, Traded DEF GcErase
    <2> QED  BY <2>2 DEF TargetInv, CopyOps
  <1>14. CASE GcPromote
    <2>1. target \in Data /\ op' = "gc tag" /\ target' = target /\ Data' = Data
      BY <1>14, <1>1 DEF GcPromote, TargetInv, GcOps, CopyOps, WriteOps, ram, Data
    <2> QED  BY <2>1 DEF TargetInv, CopyOps
  <1>15. CASE ReadConfig
    <2>1. CASE ~IsFound /\ ~NoSpace
      BY <1>15, <2>1, <1>1, EnqueueTarget DEF ReadConfig, flash, ram
    <2>2. CASE IsFound \/ NoSpace
      <3>1. op' = "none"
        BY <1>15, <2>2, <1>1 DEF ReadConfig, ResetEffect, work, PhaseInv
      <3> QED  BY <1>2, <3>1
    <2> QED  BY <2>1, <2>2
  <1>16. CASE Store
    <2>1. CASE NoSpace
      BY <1>16, <2>1, <1>2 DEF Store, StartGc
    <2>2. CASE ~NoSpace
      BY <1>16, <2>2, <1>1, EnqueueTarget DEF Store, flash, ram
    <2> QED  BY <2>1, <2>2
  <1>17. CASE UpdateAgain
    <2>1. CASE NoSpace
      <3>1. op' = "none"
        BY <1>17, <2>1, <1>1 DEF UpdateAgain, work, PhaseInv
      <3> QED  BY <1>2, <3>1
    <2>2. CASE ~NoSpace
      BY <1>17, <2>2, <1>1, EnqueueTarget DEF UpdateAgain, flash, ram
    <2> QED  BY <2>1, <2>2
  <1> QED
    BY <1>3, <1>4, <1>5, <1>6, <1>7, <1>8, <1>9, <1>10, <1>11, <1>12, <1>13, <1>14, <1>15, <1>16, <1>17
    DEF Next, FdsStep, MainStep

-----------------------------------------------------------------------------
(* The copies of a collection, step by step.                               *)

LEMMA Copies ==
  ASSUME CopyInv, op \in CopyOps
  PROVE  /\ \A k : Whole(k) => /\ recs[swap][k].st = "valid"
                               /\ \E i : IsCopied(i) /\ recs[swap][k].ver = recs[target][i].ver
         /\ \A i : IsCopied(i) => \E k : Whole(k) /\ recs[swap][k].ver = recs[target][i].ver
  BY DEF CopyInv, Whole, IsCopied

LEMMA CopiesKept ==
  ASSUME \A k : Whole(k)' => /\ recs'[swap'][k].st = "valid"
                             /\ \E i : IsCopied(i)' /\ recs'[swap'][k].ver = recs'[target'][i].ver,
         \A i : IsCopied(i)' => \E k : Whole(k)' /\ recs'[swap'][k].ver = recs'[target'][i].ver
  PROVE  CopyInv'
  BY DEF CopyInv, Whole, IsCopied

LEMMA CopyStep ==
  ASSUME BaseInv, [Next]_vars
  PROVE  CopyInv'
  <1>1. TypeOK /\ CopyInv /\ TargetInv /\ PhaseInv /\ target \in Phys /\ swap \in Phys /\ src \in Nat
    BY DEF BaseInv, TypeOK
  <1>2. Live(target) \subseteq Nat
    BY <1>1, RecordsAre
  <1>3. PICK n \in Nat : n = Len(recs[swap])
    BY <1>1, RecordsAre
  <1>4. CASE op' \notin CopyOps
    BY <1>4 DEF CopyInv
  <1>5. CASE GcNextPage
    <2>1. src' = 0 /\ op' = "gc find" /\ recs' = recs /\ swap' = swap /\ target' \in Phys
      BY <1>5, TypeStep DEF GcNextPage, flash, ram, TypeOK
    <2>2. recs[swap] = <<>>
      BY <1>5, SwapKnown DEF GcNextPage, BootOps, CopyOps
    <2>3. 1..Len(recs'[swap']) = {}
      BY <2>1, <2>2, EmptyPage
    <2>4. Live(target') \subseteq 1..Len(recs[target'])
      BY <1>1, <2>1, RecordsAre
    <2>5. \A i \in Live(target') : ~(i <= 0)
      <3>1. PICK m \in Nat : m = Len(recs[target'])
        BY <2>1, <1>1, RecordsAre
      <3>2. Live(target') \subseteq 1..m
        BY <2>4, <3>1
      <3> QED  BY <3>2
    <2>6. Live(target)' = Live(target')
      BY <2>1 DEF Live
    <2>7. \A i : ~IsCopied(i)'
      BY <2>1, <2>5, <2>6 DEF IsCopied
    <2>8. \A k : ~Whole(k)'
      BY <2>3, <2>1 DEF Whole
    <2> QED  BY <2>7, <2>8, CopiesKept
  <1>6. CASE GcCopy
    <2>1. op = "gc find" /\ op' = "gc copying" /\ target' = target /\ swap' = swap
      BY <1>6 DEF GcCopy, ram
    <2>2. /\ Len(recs'[swap]) = Len(recs[swap]) + 1
          /\ \A k \in 1..Len(recs[swap]) : recs'[swap][k] = recs[swap][k]
          /\ src' \in 1..Len(recs[target]) /\ src' > src
          /\ \A i \in Live(target) : i > src => i >= src'
      BY <1>6, CopyEffect
    <2>3. target # swap /\ recs'[target] = recs[target]
      BY <1>6, <1>1, <2>1, PagesAre, CopyEffect DEF TargetInv, GcOps, CopyOps
    <2>4. Live(target)' = Live(target)
      BY <2>1, <2>3 DEF Live
    <2>5. \A k : Whole(k)' <=> Whole(k)
      <3>1. Len(recs'[swap']) = n + 1
        BY <2>1, <2>2, <1>3
      <3>2. \A k : Whole(k) <=> k \in 1..n
        BY <2>1, <1>3 DEF Whole
      <3>3. \A k : Whole(k)' <=> k \in 1..n + 1 /\ k < n + 1
        BY <2>1, <3>1 DEF Whole
      <3>4. \A k : k \in 1..n + 1 /\ k < n + 1 <=> k \in 1..n
        OBVIOUS
      <3> QED  BY <3>2, <3>3, <3>4
    <2>6. \A k : Whole(k) => recs'[swap][k] = recs[swap][k]
      BY <2>2 DEF Whole
    <2>7. \A i : IsCopied(i)' <=> IsCopied(i)
      <3>1. src \in Nat /\ src' \in Nat
        BY <1>1, <2>2, TypeStep DEF TypeOK
      <3>2. \A i \in Live(target) : i <= src' /\ i < src' <=> i <= src
        BY <1>2, <2>2, <3>1
      <3>3. \A i : IsCopied(i)' <=> i \in Live(target) /\ i <= src' /\ i < src'
        BY <2>1, <2>4 DEF IsCopied
      <3>4. \A i : IsCopied(i) <=> i \in Live(target) /\ i <= src
        BY <2>1 DEF IsCopied
      <3> QED  BY <3>2, <3>3, <3>4
    <2>8. /\ \A k : Whole(k) => /\ recs[swap][k].st = "valid"
                                 /\ \E i : IsCopied(i) /\ recs[swap][k].ver = recs[target][i].ver
          /\ \A i : IsCopied(i) => \E k : Whole(k) /\ recs[swap][k].ver = recs[target][i].ver
      BY <1>1, <2>1, Copies DEF CopyOps
    <2>9. \A k : Whole(k)' => /\ recs'[swap][k].st = "valid"
                              /\ \E i : IsCopied(i)' /\ recs'[swap][k].ver = recs[target][i].ver
      BY <2>5, <2>6, <2>7, <2>8
    <2>10. \A i : IsCopied(i)' => \E k : Whole(k)' /\ recs'[swap][k].ver = recs[target][i].ver
      BY <2>5, <2>6, <2>7, <2>8
    <2>11. swap' = swap /\ target' = target /\ recs'[target] = recs[target]
      BY <2>1, <2>3
    <2> QED  BY <2>9, <2>10, <2>11, CopiesKept
  <1>7. CASE GcCopied
    <2>1. op = "gc copying" /\ op' = "gc find" /\ target' = target /\ swap' = swap /\ src' = src
      BY <1>7 DEF GcCopied, ram
    <2>2. /\ Len(recs'[swap]) = Len(recs[swap])
          /\ recs'[swap][Len(recs[swap])].st = "valid"
          /\ recs'[swap][Len(recs[swap])].ver = recs[target][src].ver
          /\ \A k \in 1..Len(recs[swap]) : k # Len(recs[swap]) => recs'[swap][k] = recs[swap][k]
      BY <1>7, CopiedEffect
    <2>3. target # swap /\ recs'[target] = recs[target]
      BY <1>7, <1>1, <2>1, PagesAre, CopiedEffect DEF TargetInv, GcOps, CopyOps
    <2>4. Live(target)' = Live(target)
      BY <2>1, <2>3 DEF Live
    <2>5. src \in Live(target) /\ n \in 1..n
      <3>1. /\ src <= Len(recs[target]) /\ src > 0 /\ IsLive(recs[target][src])
            /\ recs[swap] # <<>> /\ recs[swap] \in Seq(Record) /\ Len(recs[target]) \in Nat
        BY <1>1, <2>1, RecordsAre DEF TargetInv, CopyOps
      <3>2. src \in 1..Len(recs[target])
        BY <3>1, <1>1
      <3>3. n > 0
        BY <3>1, <1>3
      <3> QED  BY <3>1, <3>2, <3>3, <1>1, RecordsAre
    <2>6. \A k : Whole(k)' <=> Whole(k) \/ k = n
      <3>1. \A k : Whole(k) <=> k \in 1..n /\ k < n
        BY <2>1, <1>3 DEF Whole
      <3>2. \A k : Whole(k)' <=> k \in 1..n
        BY <2>1, <2>2, <1>3 DEF Whole
      <3>3. \A k : k \in 1..n <=> (k \in 1..n /\ k < n) \/ k = n
        BY <2>5
      <3> QED  BY <3>1, <3>2, <3>3
    <2>7. \A k : Whole(k) => recs'[swap][k] = recs[swap][k]
      <3>1. \A k : Whole(k) => k \in 1..n /\ k # n
        <4>1. \A k : Whole(k) => k \in 1..n /\ k < n
          BY <2>1, <1>3 DEF Whole
        <4> QED  BY <4>1
      <3> QED  BY <3>1, <2>2, <1>3
    <2>8. \A i : IsCopied(i)' <=> IsCopied(i) \/ i = src
      <3>1. \A i : IsCopied(i)' <=> i \in Live(target) /\ i <= src
        BY <2>1, <2>4 DEF IsCopied
      <3>2. \A i : IsCopied(i) <=> i \in Live(target) /\ i <= src /\ i < src
        BY <2>1 DEF IsCopied
      <3>3. \A i \in Live(target) : i <= src <=> (i <= src /\ i < src) \/ i = src
        BY <1>2, <1>1
      <3> QED  BY <2>5, <3>1, <3>2, <3>3
    <2>9. /\ recs'[swap][n].st = "valid" /\ recs'[swap][n].ver = recs[target][src].ver
      BY <2>2, <1>3
    <2>10. /\ \A k : Whole(k) => /\ recs[swap][k].st = "valid"
                                 /\ \E i : IsCopied(i) /\ recs[swap][k].ver = recs[target][i].ver
          /\ \A i : IsCopied(i) => \E k : Whole(k) /\ recs[swap][k].ver = recs[target][i].ver
      BY <1>1, <2>1, Copies DEF CopyOps
    <2>11. \A k : Whole(k)' => /\ recs'[swap][k].st = "valid"
                              /\ \E i : IsCopied(i)' /\ recs'[swap][k].ver = recs[target][i].ver
      <3>1. \A k : Whole(k) => /\ recs'[swap][k].st = "valid"
                               /\ \E i : IsCopied(i)' /\ recs'[swap][k].ver = recs[target][i].ver
        BY <2>8, <2>7, <2>10
      <3>2. \E i : IsCopied(i)' /\ recs'[swap][n].ver = recs[target][i].ver
        BY <2>8, <2>9
      <3> QED  BY <2>6, <2>9, <3>1, <3>2
    <2>12. \A i : IsCopied(i)' => \E k : Whole(k)' /\ recs'[swap][k].ver = recs[target][i].ver
      <3>1. \A i : IsCopied(i) => \E k : Whole(k)' /\ recs'[swap][k].ver = recs[target][i].ver
        BY <2>6, <2>7, <2>10
      <3>2. Whole(n)' /\ recs'[swap][n].ver = recs[target][src].ver
        BY <2>6, <2>9
      <3> QED  BY <2>8, <3>1, <3>2
    <2>13. swap' = swap /\ target' = target /\ recs'[target] = recs[target]
      BY <2>1, <2>3
    <2> QED  BY <2>11, <2>12, <2>13, CopiesKept
  <1>8. CASE TagSwap \/ TagData \/ EraseSwap \/ PromoteSwap \/ Initialized \/ Boot
    BY <1>8, <1>4 DEF TagSwap, TagData, EraseSwap, PromoteSwap, Initialized, Boot, FirstStep, CopyOps, work
  <1>9. CASE WriteBegin \/ WriteBody \/ WriteFinalize \/ FlagDirty \/ WriteDone \/ GcDone
    BY <1>9, <1>4 DEF WriteBegin, WriteBody, WriteFinalize, FlagDirty, WriteDone, GcDone, CopyOps
  <1>10. CASE GcErase \/ GcPromote \/ GcTagSwap \/ TimesOut \/ Reset \/ Watchdog
    BY <1>10, <1>4 DEF GcErase, GcPromote, GcTagSwap, TimesOut, Reset, Watchdog, ResetEffect, CopyOps
  <1>11. CASE ReadConfig \/ FirstWritten \/ UpdateAgain \/ Updated \/ Store
    <2>1. op \notin CopyOps
      BY <1>11, <1>1 DEF ReadConfig, FirstWritten, UpdateAgain, Updated, Store, PhaseInv, BootOps, CopyOps, WriteOps
    <2>2. op' \notin CopyOps
      BY <1>11, <2>1 DEF ReadConfig, FirstWritten, UpdateAgain, Updated, Store, Enqueue, StartGc,
        ResetEffect, CopyOps, work
    <2> QED  BY <2>2, <1>4
  <1>12. CASE UNCHANGED vars
    <2>1. op' = op /\ recs' = recs /\ swap' = swap /\ target' = target /\ src' = src
      BY <1>12 DEF vars, flash, ram, work
    <2>2. Live(target)' = Live(target)
      BY <2>1 DEF Live
    <2>3. (\A k : Whole(k)' <=> Whole(k)) /\ (\A i : IsCopied(i)' <=> IsCopied(i))
      BY <2>1, <2>2 DEF Whole, IsCopied
    <2>4. CASE op \in CopyOps
      BY <1>1, <2>1, <2>3, <2>4, Copies, CopiesKept
    <2> QED  BY <2>1, <2>4, <1>4
  <1> QED
    BY <1>5, <1>6, <1>7, <1>8, <1>9, <1>10, <1>11, <1>12 DEF Next, FdsStep, MainStep

(* No record is newer than the last store.                                 *)
VersionInv == \A p \in Phys : \A i \in 1..Len(recs[p]) : recs[p][i].ver <= version

LEMMA VersionsKept ==
  ASSUME BaseInv, UNCHANGED <<recs, version>> \/ (recs' = recs /\ version' = version + 1)
  PROVE  VersionInv'
  <1>1. version \in Nat /\ VersionInv
    BY Sizes DEF BaseInv, TypeOK, LiveInv, VersionInv
  <1>2. \A p \in Phys : \A i \in 1..Len(recs[p]) : recs[p][i].ver \in Nat
    BY RecordsAre, RecordFields, Sizes DEF BaseInv
  <1> QED  BY <1>1, <1>2 DEF VersionInv

LEMMA VersionStep ==
  ASSUME BaseInv, [Next]_vars
  PROVE  VersionInv'
  <1>1. /\ TypeOK /\ VersionInv /\ PhaseInv /\ target \in Phys /\ swap \in Phys
        /\ m_dummy_cfg <= version
    BY DEF BaseInv, TypeOK, LiveInv, VersionInv, PhaseInv
  <1>2. \A p \in Phys : Len(recs[p]) \in Nat
    BY <1>1, RecordsAre
  <1>3. CASE WriteBegin
    <2>1. version' = version
      BY <1>3 DEF WriteBegin, main
    <2>2. /\ Len(recs'[target]) = Len(recs[target]) + 1
          /\ recs'[target][Len(recs[target]) + 1].ver = m_dummy_cfg
          /\ \A i \in 1..Len(recs[target]) : recs'[target][i] = recs[target][i]
          /\ \A q \in Phys : q # target => recs'[q] = recs[q]
      BY <1>3, BeginEffect
    <2>3. \A i \in 1..Len(recs'[target]) : i \in 1..Len(recs[target]) \/ i = Len(recs[target]) + 1
      BY <2>2, <1>2, <1>1
    <2> QED  BY <1>1, <2>1, <2>2, <2>3 DEF VersionInv
  <1>4. CASE WriteFinalize
    <2>1. version' = version
      BY <1>4 DEF WriteFinalize, main
    <2> QED  BY <1>4, <1>1, <2>1, FinalizeEffect DEF VersionInv
  <1>5. CASE FlagDirty
    <2>1. version' = version
      BY <1>5 DEF FlagDirty, main
    <2>2. \A p \in Phys : \A i \in 1..Len(recs[p]) : recs'[p][i].ver = recs[p][i].ver
      <3>1. \A r \in Record : [r EXCEPT !.st = "dirty"].ver = r.ver
        BY DEF Record
      <3>2. \A p \in Phys : \A i \in 1..Len(recs[p]) : recs[p][i] \in Record
        BY <1>1, RecordsAre
      <3> QED  BY <1>5, <3>1, <3>2, FlagEffect
    <2> QED  BY <1>5, <1>1, <2>1, <2>2, FlagEffect DEF VersionInv
  <1>6. CASE GcCopy
    <2>1. version' = version
      BY <1>6 DEF GcCopy, main
    <2>2. /\ Len(recs'[swap]) = Len(recs[swap]) + 1
          /\ src' \in 1..Len(recs[target])
          /\ recs'[swap][Len(recs[swap]) + 1].ver = recs[target][src'].ver
          /\ \A i \in 1..Len(recs[swap]) : recs'[swap][i] = recs[swap][i]
          /\ \A q \in Phys : q # swap => recs'[q] = recs[q]
      BY <1>6, CopyEffect
    <2>3. \A i \in 1..Len(recs'[swap]) : i \in 1..Len(recs[swap]) \/ i = Len(recs[swap]) + 1
      BY <2>2, <1>2, <1>1
    <2> QED  BY <1>1, <2>1, <2>2, <2>3 DEF VersionInv
  <1>7. CASE GcCopied
    <2>1. version' = version
      BY <1>7 DEF GcCopied, main
    <2>2. src \in 1..Len(recs[target])
      <3>1. src <= Len(recs[target]) /\ src > 0 /\ src \in Nat
        <4>1. src \in Nat
          BY <1>1, Sizes DEF TypeOK
        <4> QED  BY <4>1, <1>7 DEF GcCopied, BaseInv, TargetInv, CopyOps
      <3> QED  BY <3>1, <1>2, <1>1
    <2> QED  BY <1>7, <1>1, <2>1, <2>2, CopiedEffect DEF VersionInv
  <1>8. CASE EraseSwap \/ GcErase
    <2>1. version' = version /\ \E p \in Phys : recs' = [recs EXCEPT ![p] = <<>>]
      BY <1>8, <1>1 DEF EraseSwap, GcErase, main
    <2>2. PICK p \in Phys : recs'[p] = <<>> /\ \A q \in Phys : q # p => recs'[q] = recs[q]
      BY <1>1, <2>1, Emptied
    <2> QED  BY <1>1, <2>1, <2>2, EmptyPage DEF VersionInv
  <1>9. CASE TagSwap \/ TagData \/ PromoteSwap \/ Initialized \/ WriteBody \/ WriteDone
             \/ GcNextPage \/ GcDone \/ GcPromote \/ GcTagSwap
    BY <1>9, VersionsKept DEF TagSwap, TagData, PromoteSwap, Initialized, WriteBody, WriteDone,
       GcNextPage, GcDone, GcPromote, GcTagSwap, flash, main
  <1>10. CASE Boot \/ ReadConfig \/ FirstWritten \/ UpdateAgain \/ Updated \/ Store \/ TimesOut
             \/ Reset \/ Watchdog \/ UNCHANGED vars
    BY <1>10, VersionsKept DEF Boot, ReadConfig, FirstWritten, UpdateAgain, Updated, Store, TimesOut,
       Reset, Watchdog, ResetEffect, vars, flash, main
  <1> QED
    BY <1>3, <1>4, <1>5, <1>6, <1>7, <1>8, <1>9, <1>10 DEF Next, FdsStep, MainStep

-----------------------------------------------------------------------------
(* The records that count, step by step.                                   *)

(* Nothing that counts comes, goes or changes.                             *)
SameLive ==
  \A p \in Phys : \A i :
    /\ p \in Home' /\ i \in Live(p)' <=> p \in Home /\ i \in Live(p)
    /\ p \in Home /\ i \in Live(p) => recs'[p][i] = recs[p][i]

LEMMA PageWise ==
  ASSUME \A p \in Phys : \/ (p \in Home' <=> p \in Home) /\ recs'[p] = recs[p]
                         \/ (p \notin Home \/ recs[p] = <<>>) /\ (p \notin Home' \/ recs'[p] = <<>>)
  PROVE  SameLive
  <1> SUFFICES ASSUME NEW p \in Phys
               PROVE  \A i : /\ p \in Home' /\ i \in Live(p)' <=> p \in Home /\ i \in Live(p)
                             /\ p \in Home /\ i \in Live(p) => recs'[p][i] = recs[p][i]
    BY DEF SameLive
  <1>1. recs[p] = <<>> => \A i : i \notin Live(p)
    BY DEF Live
  <1>2. recs'[p] = <<>> => \A i : i \notin Live(p)'
    BY DEF Live
  <1>3. CASE (p \in Home' <=> p \in Home) /\ recs'[p] = recs[p]
    <2>1. \A i : i \in Live(p)' <=> i \in Live(p)
      BY <1>3 DEF Live
    <2> QED  BY <1>3, <2>1
  <1> QED  BY <1>1, <1>2, <1>3

LEMMA HomeKept ==
  ASSUME UNCHANGED tag
  PROVE  Home' = Home /\ Erased' = Erased
  BY DEF Home, Erased

LEMMA HomeIs ==
  ASSUME NEW p \in Phys
  PROVE  /\ p \in Home <=> tag[p] = "data" \/ (tag[p] = "swap" /\ Erased # {})
         /\ p \in Home' <=> tag'[p] = "data" \/ (tag'[p] = "swap" /\ Erased' # {})
  BY DEF Home

LEMMA BootKeeps ==
  ASSUME BaseInv, TagSwap \/ TagData \/ EraseSwap \/ PromoteSwap
  PROVE  SameLive
  <1>1. /\ TypeOK /\ FlashInv /\ TagInv /\ tag \in [Phys -> {"erased", "data", "swap"}]
        /\ swap \in Phys /\ swap \notin Data /\ Data \subseteq Phys
    BY PagesAre DEF BaseInv, TypeOK
  <1>2. CASE TagSwap
    <2>1. \A p \in Phys : tag[p] # "swap"
      BY <1>2, <1>1 DEF TagInv, TagSwap, Swaps
    <2>2. recs' = recs /\ tag'[swap] = "swap" /\ recs[swap] = <<>>
          /\ \A p \in Phys : p # swap => tag'[p] = tag[p]
      BY <1>2, <1>1 DEF TagSwap, TagInv, FlashInv
    <2>3. \A p \in Phys : p # swap => (p \in Home' <=> p \in Home)
      BY <2>1, <2>2, HomeIs
    <2> QED  BY <2>2, <2>3, PageWise
  <1>3. CASE TagData
    <2>1. PICK i \in 1..2 : tag[pages[i]] = "erased" /\ tag' = [tag EXCEPT ![pages[i]] = "data"]
      BY <1>3 DEF TagData
    <2>2. pages[i] \in Phys /\ pages[i] # swap /\ tag[swap] = "swap" /\ recs' = recs
      <3>1. i = 1 \/ i = 2
        OBVIOUS
      <3> QED  BY <1>3, <1>1, <3>1, PagesAre DEF TagData, TagInv, Data
    <2>3. tag'[pages[i]] = "data" /\ \A p \in Phys : p # pages[i] => tag'[p] = tag[p]
      BY <1>1, <2>1, <2>2
    <2>4. recs[pages[i]] = <<>> /\ recs[swap] = <<>>
      BY <1>3, <1>1, <2>1, <2>2 DEF FlashInv, TagInv, TagData
    <2>5. \A p \in Phys : p # pages[i] /\ p # swap => (p \in Home' <=> p \in Home)
      BY <1>1, <2>2, <2>3, HomeIs DEF FlashInv
    <2> QED  BY <2>2, <2>4, <2>5, PageWise
  <1>4. CASE EraseSwap
    <2>1. tag[swap] = "swap" /\ Erased = {} /\ swap \notin Home
      BY <1>4, <1>1, HomeIs DEF TagInv, EraseSwap
    <2>2. \A q \in Phys : q # swap => recs'[q] = recs[q]
      BY <1>1, <1>4, Emptied DEF EraseSwap
    <2>3. tag'[swap] = "erased" /\ \A p \in Phys : p # swap => tag'[p] = tag[p]
      BY <1>4, <1>1 DEF EraseSwap
    <2>4. swap \notin Home' /\ \A p \in Phys : p # swap => (p \in Home' <=> p \in Home)
      BY <1>1, <2>1, <2>3, HomeIs DEF FlashInv
    <2> QED  BY <2>1, <2>2, <2>4, PageWise
  <1>5. CASE PromoteSwap
    <2>1. tag[swap] = "swap" /\ Erased # {}
      BY <1>5, <1>1 DEF TagInv, PromoteSwap
    <2>2. recs' = recs /\ tag'[swap] = "data" /\ \A p \in Phys : p # swap => tag'[p] = tag[p]
      BY <1>5, <1>1 DEF PromoteSwap
    <2>3. \A p \in Phys : p \in Home' <=> p \in Home
      BY <1>1, <2>1, <2>2, HomeIs DEF FlashInv
    <2> QED  BY <2>2, <2>3, PageWise
  <1> QED  BY <1>2, <1>3, <1>4, <1>5

LEMMA CollectionKeeps ==
  ASSUME BaseInv, GcCopy \/ GcCopied \/ GcPromote \/ GcTagSwap
  PROVE  SameLive
  <1>1. /\ TypeOK /\ FlashInv /\ TagInv /\ tag \in [Phys -> {"erased", "data", "swap"}]
        /\ swap \in Phys /\ target \in Phys
    BY DEF BaseInv, TypeOK
  <1>2. CASE GcCopy \/ GcCopied
    <2>1. tag[swap] = "swap" /\ Erased = {} /\ tag' = tag
      BY <1>2, SwapKnown DEF GcCopy, GcCopied, BootOps
    <2>2. swap \notin Home /\ Home' = Home
      BY <1>1, <2>1, HomeIs, HomeKept
    <2>3. \A q \in Phys : q # swap => recs'[q] = recs[q]
      BY <1>2, CopyEffect, CopiedEffect
    <2> QED  BY <2>2, <2>3, PageWise
  <1>3. CASE GcPromote
    <2>1. tag[target] = "swap" /\ Erased = {swap}
      BY <1>3, <1>1 DEF TagInv, GcPromote
    <2>2. recs' = recs /\ tag'[target] = "data" /\ \A p \in Phys : p # target => tag'[p] = tag[p]
      BY <1>3, <1>1 DEF GcPromote
    <2>3. \A p \in Phys : p \in Home' <=> p \in Home
      BY <1>1, <2>1, <2>2, HomeIs DEF FlashInv
    <2> QED  BY <2>2, <2>3, PageWise
  <1>4. CASE GcTagSwap
    <2>1. (\A p \in Phys : tag[p] # "swap") /\ tag[swap] = "erased"
      BY <1>4, <1>1 DEF TagInv, GcTagSwap, Swaps, Erased
    <2>2. recs' = recs /\ tag'[swap] = "swap" /\ recs[swap] = <<>>
          /\ \A p \in Phys : p # swap => tag'[p] = tag[p]
      BY <1>4, <1>1, <2>1 DEF GcTagSwap, FlashInv
    <2>3. \A p \in Phys : p # swap => (p \in Home' <=> p \in Home)
      BY <2>1, <2>2, HomeIs
    <2> QED  BY <2>2, <2>3, PageWise
  <1> QED  BY <1>2, <1>3, <1>4

(* The record that is begun does not count yet.                            *)
LEMMA BeginKeeps ==
  ASSUME BaseInv, WriteBegin
  PROVE  SameLive /\ \A p \in Phys : Live(p)' = Live(p)
  <1>1. TypeOK /\ target \in Phys /\ tag' = tag
    BY DEF BaseInv, TypeOK, WriteBegin
  <1>2. PICK n \in Nat : n = Len(recs[target])
    BY <1>1, RecordsAre
  <1>3. /\ Len(recs'[target]) = n + 1 /\ ~IsLive(recs'[target][n + 1])
        /\ \A i \in 1..n : recs'[target][i] = recs[target][i]
        /\ \A q \in Phys : q # target => recs'[q] = recs[q]
        /\ recs'[target] \in Seq(Record)
    BY <1>2, <1>1, BeginEffect DEF IsLive
  <1>4. \A i : i \in 1..n + 1 <=> i \in 1..n \/ i = n + 1
    OBVIOUS
  <1>5. DOMAIN recs'[target] = 1..n + 1 /\ DOMAIN recs[target] = 1..n
    BY <1>1, <1>3, <1>2, RecordsAre
  <1>6. \A i : i \in Live(target)' <=> i \in Live(target)
    <2>1. \A i : i \in Live(target)' <=> i \in 1..n + 1 /\ IsLive(recs'[target][i])
      <3>1. target' = target
        BY DEF WriteBegin
      <3> QED  BY <1>5, <3>1 DEF Live, IsLive
    <2>2. \A i : i \in Live(target) <=> i \in 1..n /\ IsLive(recs[target][i])
      BY <1>5 DEF Live
    <2>3. n + 1 \notin 1..n
      OBVIOUS
    <2> QED  BY <1>3, <1>4, <2>1, <2>2
  <1>7. \A p \in Phys : p # target => Live(p)' = Live(p)
    BY <1>3 DEF Live
  <1>8. \A p \in Phys : \A i : i \in Live(p)' <=> i \in Live(p)
    <2>1. target' = target
      BY DEF WriteBegin
    <2> QED  BY <1>6, <1>7, <2>1
  <1>9. \A p \in Phys : \A i \in Live(p) : recs'[p][i] = recs[p][i]
    <2>1. \A i \in Live(target) : i \in 1..n
      BY <1>5 DEF Live
    <2> QED  BY <1>3, <2>1
  <1> QED  BY <1>1, <1>8, <1>9, HomeKept DEF SameLive

LEMMA FlashStill ==
  ASSUME UNCHANGED flash
  PROVE  SameLive /\ \A p \in Phys : Live(p)' = Live(p)
  BY PageWise, HomeKept DEF flash, Live

LEMMA SameLiveStep ==
  ASSUME BaseInv, [Next]_vars, ~WriteFinalize, ~FlagDirty, ~GcErase
  PROVE  SameLive
  <1>1. CASE UNCHANGED flash
    BY <1>1, FlashStill
  <1>2. CASE Initialized \/ WriteBody \/ WriteDone \/ GcNextPage \/ GcDone
    BY <1>2, <1>1 DEF Initialized, WriteBody, WriteDone, GcNextPage, GcDone
  <1>3. CASE Boot \/ ReadConfig \/ FirstWritten \/ UpdateAgain \/ Updated
    BY <1>3, <1>1 DEF Boot, ReadConfig, FirstWritten, UpdateAgain, Updated, ResetEffect
  <1>4. CASE Store \/ TimesOut \/ Reset \/ Watchdog \/ UNCHANGED vars
    BY <1>4, <1>1 DEF Store, TimesOut, Reset, Watchdog, ResetEffect, vars
  <1> QED
    BY <1>2, <1>3, <1>4, BootKeeps, CollectionKeeps, BeginKeeps DEF Next, FdsStep, MainStep

(* The new record begins to count when it is finished.                     *)
LEMMA FinalizeLive ==
  ASSUME BaseInv, WriteFinalize, NEW n, n = Len(recs[target])
  PROVE  /\ Home' = Home /\ target \in Home /\ target' = target /\ Len(recs'[target]) = n
         /\ \A p \in Phys : p # target => Live(p)' = Live(p) /\ recs'[p] = recs[p]
         /\ \A i : i \in Live(target)' <=> i \in Live(target) \/ i = n
         /\ n \notin Live(target) /\ \A i \in Live(target) : recs'[target][i] = recs[target][i]
         /\ recs'[target][n].st = "valid" /\ recs'[target][n].ver = m_dummy_cfg
  <1>1. TypeOK /\ target \in Phys /\ tag' = tag /\ target' = target
    BY DEF BaseInv, TypeOK, WriteFinalize
  <1>2. Home' = Home /\ target \in Home
    BY <1>1, SwapKnown, HomeKept DEF WriteFinalize, BootOps, BaseInv, TargetInv, WriteOps
  <1>3. /\ recs'[target] \in Seq(Record) /\ Len(recs'[target]) = n
        /\ recs'[target][n].st = "valid" /\ recs'[target][n].ver = m_dummy_cfg
        /\ \A i \in 1..n : i # n => recs'[target][i] = recs[target][i]
        /\ \A q \in Phys : q # target => recs'[q] = recs[q]
    BY <1>1, FinalizeEffect
  <1>4. recs[target][n].st = "torn" /\ recs[target] # <<>> /\ recs[target] \in Seq(Record)
    BY <1>1, RecordsAre DEF BaseInv, TargetInv, WriteFinalize
  <1>5. DOMAIN recs'[target] = 1..n /\ DOMAIN recs[target] = 1..n /\ n \in 1..n
    BY <1>3, <1>4
  <1>6. \A i : i \in Live(target)' <=> i \in Live(target) \/ i = n
    <2>1. \A i : i \in Live(target)' <=> i \in 1..n /\ IsLive(recs'[target][i])
      BY <1>1, <1>5 DEF Live, IsLive
    <2>2. \A i : i \in Live(target) <=> i \in 1..n /\ IsLive(recs[target][i])
      BY <1>5 DEF Live
    <2>3. IsLive(recs'[target][n])
      BY <1>3 DEF IsLive
    <2> QED  BY <1>3, <1>5, <2>1, <2>2, <2>3
  <1>7. n \notin Live(target)
    BY <1>4 DEF Live, IsLive
  <1>8. \A i \in Live(target) : recs'[target][i] = recs[target][i]
    <2>1. \A i \in Live(target) : i \in 1..n
      BY <1>5 DEF Live
    <2> QED  BY <1>3, <1>7, <2>1
  <1>9. \A p \in Phys : p # target => Live(p)' = Live(p)
    BY <1>3 DEF Live
  <1> QED  BY <1>1, <1>2, <1>3, <1>6, <1>7, <1>8, <1>9

(* What is flagged no longer counts; the rest does.                        *)
LEMMA FlagLive ==
  ASSUME BaseInv, FlagDirty
  PROVE  /\ Home' = Home /\ target \in Home
         /\ \A p \in Phys : \A i :
              /\ i \in Live(p)' <=> i \in Live(p) /\ recs[p][i].ver # old
              /\ i \in Live(p) /\ recs[p][i].ver # old => recs'[p][i] = recs[p][i]
  <1>1. TypeOK /\ tag' = tag
    BY DEF BaseInv, TypeOK, FlagDirty
  <1>2. Home' = Home /\ target \in Home
    BY <1>1, SwapKnown, HomeKept DEF FlagDirty, BootOps, BaseInv, TargetInv, WriteOps
  <1>3. SUFFICES ASSUME NEW p \in Phys
                 PROVE  \A i : /\ i \in Live(p)' <=> i \in Live(p) /\ recs[p][i].ver # old
                               /\ i \in Live(p) /\ recs[p][i].ver # old => recs'[p][i] = recs[p][i]
    BY <1>2
  <1>4. PICK n \in Nat : n = Len(recs[p])
    BY <1>1, RecordsAre
  <1>5. /\ recs'[p] \in Seq(Record) /\ Len(recs'[p]) = n
        /\ \A i \in 1..n : recs'[p][i] = IF recs[p][i].ver = old /\ IsLive(recs[p][i])
                                         THEN [recs[p][i] EXCEPT !.st = "dirty"] ELSE recs[p][i]
    BY <1>4, FlagEffect
  <1>6. DOMAIN recs'[p] = 1..n /\ DOMAIN recs[p] = 1..n
    BY <1>1, <1>5, <1>4, RecordsAre
  <1>7. \A i \in 1..n : ~IsLive([recs[p][i] EXCEPT !.st = "dirty"])
    <2>1. \A r \in Record : ~IsLive([r EXCEPT !.st = "dirty"])
      BY DEF Record, IsLive
    <2>2. \A i \in 1..n : recs[p][i] \in Record
      BY <1>1, <1>4, RecordsAre
    <2> QED  BY <2>1, <2>2
  <1>8. \A i : i \in Live(p)' <=> i \in 1..n /\ IsLive(recs'[p][i])
    BY <1>6 DEF Live, IsLive
  <1>9. \A i : i \in Live(p) <=> i \in 1..n /\ IsLive(recs[p][i])
    BY <1>6 DEF Live
  <1> QED  BY <1>5, <1>7, <1>8, <1>9

(* The copies count when the page they were taken from, t, is erased.      *)
LEMMA EraseLive ==
  ASSUME BaseInv, GcErase, NEW s, s = swap, NEW t, t = target
  PROVE  /\ t \in Data /\ s \notin Data /\ Home = Data /\ Home' = (Data \ {t}) \cup {s}
         /\ \A p \in Phys : p # t => recs'[p] = recs[p] /\ Live(p)' = Live(p)
         /\ \A k : k \in Live(s)' <=> k \in 1..Len(recs[s])
         /\ \A k \in Live(s)' : /\ recs'[s][k].st = "valid"
                               /\ \E i \in Live(t) : recs'[s][k].ver = recs[t][i].ver
         /\ \A i \in Live(t) : \E k \in Live(s)' : recs'[s][k].ver = recs[t][i].ver
         /\ Live(t) # {} => Live(s)' # {}
         /\ recs'[t] = <<>>
  <1>1. /\ TypeOK /\ FlashInv /\ CopyInv /\ tag \in [Phys -> {"erased", "data", "swap"}]
        /\ s \in Phys /\ s \notin Data /\ Data \subseteq Phys /\ Data = Phys \ {s}
    BY PagesAre DEF BaseInv, TypeOK
  <1>2. t \in Data /\ op = "gc find" /\ op \in CopyOps
    BY <1>1 DEF GcErase, BaseInv, TargetInv, GcOps, CopyOps, WriteOps
  <1>3. tag[s] = "swap" /\ Erased = {} /\ Home = Data /\ \A p \in Data : tag[p] = "data"
    BY <1>2, SwapKnown DEF BootOps
  <1>4. recs'[t] = <<>> /\ \A q \in Phys : q # t => recs'[q] = recs[q]
    BY <1>1, <1>2, Emptied DEF GcErase
  <1>5. tag'[t] = "erased" /\ \A p \in Phys : p # t => tag'[p] = tag[p]
    BY <1>1, <1>2 DEF GcErase
  <1>6. Erased' # {}
    BY <1>1, <1>2, <1>5 DEF Erased
  <1>7. Home' = (Data \ {t}) \cup {s}
    <2>1. \A p \in Phys : p \in Home' <=> p \in (Data \ {t}) \cup {s}
      BY <1>1, <1>2, <1>3, <1>5, <1>6, HomeIs
    <2>2. Home' \subseteq Phys
      BY DEF Home
    <2> QED  BY <1>1, <2>1, <2>2
  <1>8. \A p \in Phys : p # t => Live(p)' = Live(p)
    BY <1>4 DEF Live
  <1>9. \A k : Whole(k) <=> k \in 1..Len(recs[s])
    BY <1>2 DEF Whole
  <1>10. \A i : i \in Live(t) => IsCopied(i)
    <2>1. src \in Nat
      BY <1>1, Sizes DEF TypeOK
    <2>2. Live(t) \subseteq Nat
      <3>1. TypeOK /\ t \in Phys
        BY <1>1, <1>2
      <3> QED  BY <3>1, RecordsAre
    <2>3. \A i \in Live(t) : ~(i > src)
      BY DEF GcErase, Uncopied
    <2>4. \A i \in Live(t) : i <= src
      BY <2>1, <2>2, <2>3
    <2> QED  BY <1>2, <2>4 DEF IsCopied
  <1>11. /\ \A k : Whole(k) => /\ recs[s][k].st = "valid"
                              /\ \E i : IsCopied(i) /\ recs[s][k].ver = recs[t][i].ver
        /\ \A i : IsCopied(i) => \E k : Whole(k) /\ recs[s][k].ver = recs[t][i].ver
    BY <1>1, <1>2, Copies
  <1>12. \A k : k \in Live(s) <=> k \in 1..Len(recs[s])
    <2>1. \A k : k \in Live(s) <=> k \in 1..Len(recs[s]) /\ IsLive(recs[s][k])
      BY <1>1, RecordsAre
    <2> QED  BY <1>9, <1>11, <2>1 DEF IsLive
  <1>13. recs'[s] = recs[s] /\ \A k : k \in Live(s)' <=> k \in Live(s)
    BY <1>1, <1>2, <1>4, <1>8
  <1>14. \A i : IsCopied(i) => i \in Live(t)
    BY DEF IsCopied
  <1>15. \A k \in Live(s)' : /\ recs'[s][k].st = "valid"
                           /\ \E i \in Live(t) : recs'[s][k].ver = recs[t][i].ver
    BY <1>9, <1>11, <1>12, <1>13, <1>14
  <1>16. \A i \in Live(t) : \E k \in Live(s)' : recs'[s][k].ver = recs[t][i].ver
    BY <1>9, <1>10, <1>11, <1>12, <1>13
  <1>17. Live(t) # {} => Live(s)' # {}
    BY <1>16
  <1> QED  BY <1>1, <1>2, <1>3, <1>4, <1>7, <1>8, <1>12, <1>13, <1>15, <1>16, <1>17

(* When the old record is to be flagged, the new one counts.               *)
LEMMA NewIsLive ==
  ASSUME BaseInv, op = "flag", NEW n, n = Len(recs[target])
  PROVE  /\ n \in Live(target) /\ recs[target][n].ver = m_dummy_cfg /\ recs[target][n].ver # old
         /\ pc = "update" /\ target \in Data /\ Home = Data
  <1>1. TypeOK /\ target \in Phys /\ m_dummy_cfg \in Nat
    BY Sizes DEF BaseInv, TypeOK
  <1>2. pc = "update" /\ old \in Nat /\ old < m_dummy_cfg
    BY <1>1 DEF BaseInv, TypeOK, PhaseInv, BootOps, GcOps, CopyOps, WriteOps
  <1>3. /\ target \in Data /\ recs[target] # <<>> /\ recs[target] \in Seq(Record)
        /\ recs[target][n].ver = m_dummy_cfg /\ recs[target][n].st = "valid"
    BY <1>1, RecordsAre DEF BaseInv, TargetInv, WriteOps
  <1>4. n \in DOMAIN recs[target]
    BY <1>3
  <1>5. n \in Live(target)
    BY <1>3, <1>4 DEF Live, IsLive
  <1>6. old # m_dummy_cfg
    BY <1>1, <1>2
  <1> QED  BY <1>2, <1>3, <1>5, <1>6, SwapKnown DEF BootOps

LEMMA LiveStep ==
  ASSUME BaseInv, [Next]_vars
  PROVE  LiveInv'
  <1>1. /\ TypeOK /\ LiveInv /\ PhaseInv /\ VersionInv' /\ target \in Phys /\ swap \in Phys
        /\ op \in Steps /\ pc \in {"off", "init", "first", "main", "update", "gc"}
        /\ Home \subseteq Phys /\ Home' \subseteq Phys
    BY VersionStep DEF BaseInv, TypeOK, Home
  <1>2. CASE SameLive /\ ~WriteFinalize /\ ~FlagDirty /\ ~GcErase
    <2>1. HasLive' <=> HasLive
      BY <1>1, <1>2 DEF SameLive, HasLive
    <2>2. \A p \in Home' : \A i \in Live(p)' : recs'[p][i].st = "valid"
      BY <1>1, <1>2 DEF SameLive, LiveInv
    <2> DEFINE Filled == pc \in {"main", "update", "gc"} \/ (pc = "first" /\ op \in {"none", "done"})
               Blank == pc = "first" /\ op \in {"begin", "body", "finalize"}
    <2>3. CASE (Filled' => Filled) /\ (Blank' => Blank)
      BY <1>1, <2>1, <2>2, <2>3 DEF LiveInv, VersionInv
    <2>4. CASE TagSwap \/ TagData \/ EraseSwap \/ PromoteSwap \/ Initialized \/ Boot
      <3>1. pc' \in {"off", "init"}
        BY <2>4, <1>1 DEF TagSwap, TagData, EraseSwap, PromoteSwap, Initialized, Boot, PhaseInv,
           BootOps, WriteOps, GcOps, CopyOps, main
      <3> QED  BY <2>3, <3>1
    <2>5. CASE WriteBegin \/ WriteBody \/ WriteDone
      BY <2>3, <2>5 DEF WriteBegin, WriteBody, WriteDone, main
    <2>6. CASE GcNextPage \/ GcDone \/ GcCopy \/ GcCopied \/ GcPromote \/ GcTagSwap
      <3>1. pc' = pc /\ pc # "first"
        BY <2>6, <1>1 DEF GcNextPage, GcDone, GcCopy, GcCopied, GcPromote, GcTagSwap, PhaseInv, main
      <3> QED  BY <2>3, <3>1
    <2>7. CASE ReadConfig
      <3>1. pc = "init" /\ op = "none"
        BY <2>7, <1>1 DEF ReadConfig, PhaseInv
      <3>2. Home = Data
        BY <3>1, AtRest
      <3>3. HasLive <=> IsFound
        BY <3>1, <3>2 DEF IsFound, HasLive, Data
      <3>4. pc' = "main" => HasLive
        BY <2>7, <3>3 DEF ReadConfig, ResetEffect
      <3>5. pc' = "first" => ~HasLive /\ op' = "begin"
        BY <2>7, <3>3 DEF ReadConfig, ResetEffect, Enqueue
      <3>6. pc' \in {"main", "first", "off"}
        BY <2>7 DEF ReadConfig, ResetEffect
      <3> QED  BY <1>1, <2>1, <2>2, <3>4, <3>5, <3>6 DEF LiveInv, VersionInv
    <2>8. CASE FirstWritten \/ UpdateAgain \/ Updated \/ Store \/ TimesOut
      <3>1. Filled /\ pc' \in {"main", "update", "gc"}
        BY <2>8, <1>1 DEF FirstWritten, UpdateAgain, Updated, Store, TimesOut, main
      <3> QED  BY <2>3, <3>1
    <2>9. CASE Reset \/ Watchdog
      <3>1. pc' = "off"
        BY <2>9 DEF Reset, Watchdog, ResetEffect
      <3> QED  BY <2>3, <3>1
    <2>10. CASE UNCHANGED vars
      BY <2>3, <2>10 DEF vars, work, main
    <2> QED
      BY <1>2, <2>4, <2>5, <2>6, <2>7, <2>8, <2>9, <2>10 DEF Next, FdsStep, MainStep
  <1>3. CASE WriteFinalize
    <2>1. PICK n : n = Len(recs[target])
      OBVIOUS
    <2>2. /\ Home' = Home /\ target \in Home /\ target' = target
          /\ \A p \in Phys : p # target => Live(p)' = Live(p) /\ recs'[p] = recs[p]
          /\ \A i : i \in Live(target)' <=> i \in Live(target) \/ i = n
          /\ \A i \in Live(target) : recs'[target][i] = recs[target][i]
          /\ recs'[target][n].st = "valid"
      BY <1>3, <2>1, FinalizeLive
    <2>3. HasLive'
      BY <2>2 DEF HasLive
    <2>4. \A i \in Live(target)' : recs'[target][i].st = "valid"
      BY <1>1, <2>2 DEF LiveInv
    <2>5. \A p \in Home' : \A i \in Live(p)' : recs'[p][i].st = "valid"
      BY <1>1, <2>2, <2>4 DEF LiveInv
    <2>6. op' \notin {"begin", "body", "finalize"}
      BY <1>3 DEF WriteFinalize
    <2> QED  BY <1>1, <2>3, <2>5, <2>6 DEF LiveInv, VersionInv
  <1>4. CASE FlagDirty
    <2>1. /\ Home' = Home /\ target \in Home
          /\ \A p \in Phys : \A i :
               /\ i \in Live(p)' <=> i \in Live(p) /\ recs[p][i].ver # old
               /\ i \in Live(p) /\ recs[p][i].ver # old => recs'[p][i] = recs[p][i]
      BY <1>4, FlagLive
    <2>2. PICK n : n = Len(recs[target])
      OBVIOUS
    <2>3. n \in Live(target) /\ recs[target][n].ver # old
      BY <1>4, <2>2, NewIsLive DEF FlagDirty
    <2>4. HasLive'
      BY <1>1, <2>1, <2>3 DEF HasLive
    <2>5. \A p \in Home' : \A i \in Live(p)' : recs'[p][i].st = "valid"
      BY <1>1, <2>1 DEF LiveInv
    <2>6. op' \notin {"begin", "body", "finalize"}
      BY <1>4 DEF FlagDirty
    <2> QED  BY <1>1, <2>4, <2>5, <2>6 DEF LiveInv, VersionInv
  <1>5. CASE GcErase
    <2>1. PICK s, t : s = swap /\ t = target
      OBVIOUS
    <2>2. /\ t \in Data /\ s \notin Data /\ Home = Data /\ Home' = (Data \ {t}) \cup {s}
          /\ \A p \in Phys : p # t => recs'[p] = recs[p] /\ Live(p)' = Live(p)
          /\ \A k \in Live(s)' : recs'[s][k].st = "valid"
          /\ Live(t) # {} => Live(s)' # {}
      BY <1>5, <2>1, EraseLive
    <2>3. pc = "gc" /\ HasLive /\ pc' = pc
      BY <1>5, <1>1 DEF GcErase, PhaseInv, LiveInv, BootOps, WriteOps, main
    <2>4. HasLive'
      BY <1>1, <2>2, <2>3 DEF HasLive
    <2>5. \A p \in Home' : \A i \in Live(p)' : recs'[p][i].st = "valid"
      BY <1>1, <2>2 DEF LiveInv
    <2> QED  BY <1>1, <2>3, <2>4, <2>5 DEF LiveInv, VersionInv
  <1> QED  BY <1>2, <1>3, <1>4, <1>5, SameLiveStep

LEMMA InitBase == Init => BaseInv
  <1> SUFFICES ASSUME Init  PROVE BaseInv
    OBVIOUS
  <1>1. /\ tag \in [Phys -> {"erased", "data", "swap"}] /\ recs \in [Phys -> Seq(Record)]
        /\ \A p \in Phys : tag[p] = "erased" /\ recs[p] = <<>> /\ Len(recs[p]) = 0
    BY EmptyPage DEF Init
  <1>2. pages \in [1..2 -> Phys] /\ {pages[1], pages[2], swap} = Phys /\ swap \in Phys /\ 1 \in Phys
    BY DEF Init, Phys
  <1>3. TypeOK
    <2>1. \A p \in Phys : Len(recs[p]) <= Slots
      BY <1>1, Sizes
    <2>2. 0 \in 0..Slots /\ 0 \in 0..MaxStores
      BY Sizes
    <2> QED  BY <1>1, <1>2, <2>1, <2>2 DEF Init, TypeOK, Steps
  <1>4. PhaseInv /\ TargetInv /\ TagInv /\ CopyInv
    BY DEF Init, PhaseInv, TargetInv, TagInv, CopyInv, Quiet, BootOps, WriteOps, GcOps, CopyOps
  <1>5. FlashInv
    BY <1>1, <1>2 DEF FlashInv
  <1>6. Home = {}
    BY <1>1 DEF Home
  <1>7. LiveInv
    <2>1. \A p \in Phys : 1..Len(recs[p]) = {}
      BY <1>1, EmptyPage
    <2> QED  BY <1>6, <2>1 DEF LiveInv, Init
  <1> QED  BY <1>3, <1>4, <1>5, <1>7 DEF BaseInv

LEMMA BaseStep == BaseInv /\ [Next]_vars => BaseInv'
  BY TypeStep, PhaseStep, FlashStep, TagStep, TargetStep, CopyStep, LiveStep DEF BaseInv

LEMMA BaseAlways == Spec => []BaseInv
  BY InitBase, BaseStep, PTL DEF Spec

(* Wherever resets and time-outs fall, fds stays inside its pages: they    *)
(* remain three different ones, and no page is written to beyond its end,  *)
(* neither by an update nor by a collection.                               *)
THEOREM TypeCorrect == Spec => []TypeOK
  <1>1. BaseInv => TypeOK
    BY DEF BaseInv
  <1> QED  BY <1>1, BaseAlways, PTL

-----------------------------------------------------------------------------
(* One record that counts, step by step.                                   *)

LEMMA HomePages == Home \subseteq Phys /\ Home' \subseteq Phys
  BY DEF Home

LEMMA TwoAreOne ==
  ASSUME Unique, op # "flag", NEW p \in Home, NEW q \in Home, NEW i \in Live(p), NEW j \in Live(q)
  PROVE  p = q /\ i = j
  BY DEF Unique, New

(* With nothing new and nothing gone, what was said is still said.         *)
LEMMA SingleKept ==
  ASSUME Unique, Says, SameLive, op # "flag", op' # "flag", UNCHANGED confirmed,
         Settled' => Settled /\ UNCHANGED m_dummy_cfg,
         Updating' => Updating /\ UNCHANGED old
  PROVE  Unique' /\ Says'
  <1>1. \A p \in Home' : \A i \in Live(p)' : p \in Home /\ i \in Live(p) /\ recs'[p][i] = recs[p][i]
    BY HomePages DEF SameLive
  <1>2. \A p, i : ~New(p, i) /\ ~New(p, i)'
    BY DEF New
  <1>3. Unique'
    BY <1>1, <1>2 DEF Unique
  <1>4. Says'
    BY <1>1, <1>2 DEF Says
  <1> QED  BY <1>3, <1>4

LEMMA HasLiveKept ==
  ASSUME SameLive
  PROVE  HasLive' <=> HasLive
  BY HomePages DEF SameLive, HasLive

(* The next collection starts with an empty swap page.                     *)
LEMMA OneCopy ==
  ASSUME BaseInv, [Next]_vars, SingleInv, ~cut, op' \in CopyOps
  PROVE  Len(recs'[swap']) <= 1
  <1>1. TypeOK /\ swap \in Phys /\ target \in Phys /\ Len(recs[swap]) \in Nat /\ PhaseInv
    BY RecordsAre DEF BaseInv, TypeOK
  <1>2. CASE GcNextPage
    <2>1. recs[swap] = <<>> /\ recs' = recs /\ swap' = swap
      BY <1>2, SwapKnown DEF GcNextPage, BootOps, CopyOps, flash, ram
    <2>2. Len(recs'[swap']) = 0
      BY <2>1, EmptyPage
    <2> QED  BY <2>2
  <1>3. CASE GcCopy
    <2>1. op = "gc find" /\ swap' = swap /\ op \in CopyOps
      BY <1>3 DEF GcCopy, CopyOps, ram
    <2>2. target \in Home
      BY <2>1, SwapKnown DEF BootOps, BaseInv, TargetInv, GcOps, CopyOps, WriteOps
    <2>3. /\ Len(recs'[swap]) = Len(recs[swap]) + 1
          /\ src' \in Live(target) /\ src' > src
      BY <1>3, CopyEffect
    <2>4. \A k : ~Whole(k)
      <3>1. SUFFICES ASSUME NEW k, Whole(k)  PROVE FALSE
        OBVIOUS
      <3>2. PICK i : IsCopied(i)
        BY <3>1, <2>1, Copies DEF BaseInv
      <3>3. i \in Live(target) /\ i <= src
        BY <3>2 DEF IsCopied
      <3>4. i = src'
        BY <2>1, <2>2, <2>3, <3>3, TwoAreOne DEF SingleInv
      <3>5. src \in Nat /\ src' \in Nat
        BY <1>1, TypeStep DEF TypeOK
      <3> QED  BY <2>3, <3>3, <3>4, <3>5
    <2>5. Len(recs[swap]) = 0
      <3>1. PICK n \in Nat : n = Len(recs[swap])
        BY <1>1
      <3>2. \A k : k \notin 1..n
        BY <2>1, <2>4, <3>1 DEF Whole
      <3>3. n = 0
        BY <3>2
      <3> QED  BY <3>1, <3>3
    <2>6. Len(recs'[swap']) = 1
      <3>1. recs'[swap'] = recs'[swap]
        BY <2>1
      <3>2. \A x, y : x = y + 1 /\ y = 0 => x = 1
        OBVIOUS
      <3> QED  BY <2>3, <2>5, <3>1, <3>2
    <2> QED  BY <2>6
  <1>4. CASE GcCopied
    <2>1. op \in CopyOps /\ swap' = swap /\ Len(recs'[swap]) = Len(recs[swap])
      BY <1>4, CopiedEffect DEF GcCopied, CopyOps, ram
    <2> QED  BY <2>1 DEF SingleInv
  <1>5. CASE UNCHANGED vars
    BY <1>5 DEF vars, flash, ram, work, SingleInv
  <1>6. CASE TagSwap \/ TagData \/ EraseSwap \/ PromoteSwap \/ Initialized \/ Boot
    BY <1>6 DEF TagSwap, TagData, EraseSwap, PromoteSwap, Initialized, Boot, FirstStep, CopyOps, work
  <1>7. CASE WriteBegin \/ WriteBody \/ WriteFinalize \/ FlagDirty \/ WriteDone \/ GcDone
    BY <1>7 DEF WriteBegin, WriteBody, WriteFinalize, FlagDirty, WriteDone, GcDone, CopyOps
  <1>8. CASE GcErase \/ GcPromote \/ GcTagSwap \/ TimesOut \/ Reset \/ Watchdog
    BY <1>8 DEF GcErase, GcPromote, GcTagSwap, TimesOut, Reset, Watchdog, ResetEffect, CopyOps
  <1>9. CASE ReadConfig \/ FirstWritten \/ UpdateAgain \/ Updated \/ Store
    <2>1. op \notin CopyOps
      BY <1>9, <1>1 DEF ReadConfig, FirstWritten, UpdateAgain, Updated, Store, PhaseInv, BootOps, CopyOps, WriteOps
    <2>2. op' \notin CopyOps
      BY <1>9, <2>1 DEF ReadConfig, FirstWritten, UpdateAgain, Updated, Store, Enqueue, StartGc,
        ResetEffect, CopyOps, work
    <2> QED  BY <2>2
  <1> QED
    BY <1>2, <1>3, <1>4, <1>5, <1>6, <1>7, <1>8, <1>9 DEF Next, FdsStep, MainStep

(* The record of fds_record_find is one of those that count.               *)
LEMMA FoundCounts ==
  ASSUME BaseInv, pc \in {"init", "main"}, op = "none", IsFound
  PROVE  \E p \in Home : \E i \in Live(p) : Found = recs[p][i]
  BY AtRest, FoundIs DEF BaseInv

LEMMA FinalizeSingle ==
  ASSUME BaseInv, SingleInv, ~cut, WriteFinalize
  PROVE  Unique' /\ Says' /\ HasLive'
  <1>1. /\ TypeOK /\ PhaseInv /\ TargetInv /\ LiveInv /\ Unique /\ Says
        /\ m_dummy_cfg \in Nat /\ op = "finalize" /\ (HasLive \/ confirmed = None)
        /\ \A p \in Phys : \A i : ~New(p, i)
    BY Sizes DEF BaseInv, TypeOK, SingleInv, WriteFinalize, New
  <1>2. PICK n : n = Len(recs[target])
    OBVIOUS
  <1>3. /\ Home' = Home /\ target \in Home /\ target' = target /\ Len(recs'[target]) = n
        /\ \A p \in Phys : p # target => Live(p)' = Live(p) /\ recs'[p] = recs[p]
        /\ \A i : i \in Live(target)' <=> i \in Live(target) \/ i = n
        /\ \A i \in Live(target) : recs'[target][i] = recs[target][i]
        /\ recs'[target][n].ver = m_dummy_cfg
    BY <1>2, FinalizeLive
  <1>4. HasLive'
    BY <1>3 DEF HasLive
  <1>5. /\ confirmed' = confirmed /\ old' = old /\ m_dummy_cfg' = m_dummy_cfg /\ pc' = pc /\ flags' = flags
        /\ op' = IF old = None THEN "done" ELSE "flag"
    BY DEF WriteFinalize, history, main
  <1>6. \A p \in Home' : \A i \in Live(p)' :
           (p = target /\ i = n) \/ (p \in Home /\ i \in Live(p) /\ recs'[p][i] = recs[p][i])
    BY <1>3, HomePages
  <1>7. CASE old = None
    <2>1. pc = "first"
      <3>1. pc \in {"first", "update"}
        BY <1>1 DEF PhaseInv, TypeOK, BootOps, GcOps, CopyOps
      <3>2. pc = "update" => old \in Nat
        BY <1>1, Sizes DEF PhaseInv
      <3> QED  BY <1>7, <3>1, <3>2 DEF None
    <2>2. ~HasLive
      BY <1>1, <2>1 DEF LiveInv
    <2>3. \A p \in Home' : \A i \in Live(p)' : p = target /\ i = n
      BY <1>6, <2>2 DEF HasLive
    <2>4. Unique'
      BY <2>3 DEF Unique
    <2>5. m_dummy_cfg >= confirmed
      BY <1>1, <2>2 DEF None
    <2>6. ~Updating'
      BY <1>5, <1>7, <2>1 DEF Updating
    <2>7. Says'
      BY <1>3, <1>5, <2>3, <2>5, <2>6 DEF Says
    <2> QED  BY <1>4, <2>4, <2>7
  <1>8. CASE old # None
    <2>1. pc = "update" /\ old \in Nat /\ old < m_dummy_cfg /\ op' = "flag" /\ "update" \notin flags
      BY <1>1, <1>5, <1>8, Sizes DEF PhaseInv, TypeOK, BootOps, GcOps, CopyOps, WriteOps
    <2>2. \A p : \A i : New(p, i)' <=> p = target /\ i = n
      BY <1>3, <2>1 DEF New
    <2>3. Unique'
      BY <1>1, <1>6, <2>2, HomePages DEF Unique
    <2>4. Updating /\ ~Settled'
      BY <1>1, <1>5, <2>1 DEF Updating, Settled, WriteOps
    <2>5. \A p \in Home : \A i \in Live(p) : recs[p][i].ver = old /\ old >= confirmed
      BY <1>1, <2>4, HomePages DEF Says
    <2>6. HasLive
      BY <1>1, <2>1 DEF LiveInv
    <2>7. old >= confirmed
      BY <2>5, <2>6 DEF HasLive
    <2>8. m_dummy_cfg >= confirmed
      <3>1. confirmed \in Int
        BY <1>1, Sizes DEF TypeOK, None
      <3> QED  BY <1>1, <2>1, <2>7, <3>1
    <2>9. Says'
      <3>1. SUFFICES ASSUME NEW p \in Home', NEW i \in Live(p)'
                     PROVE  recs'[p][i].ver >= confirmed /\ (recs'[p][i].ver = old \/ New(p, i)')
        BY <1>5, <2>4 DEF Says
      <3>2. CASE p = target /\ i = n
        BY <1>3, <2>2, <2>8, <3>2
      <3>3. CASE p \in Home /\ i \in Live(p) /\ recs'[p][i] = recs[p][i]
        BY <2>5, <3>3
      <3> QED  BY <1>6, <3>2, <3>3
    <2> QED  BY <1>4, <2>3, <2>9
  <1> QED  BY <1>7, <1>8

LEMMA FlagSingle ==
  ASSUME BaseInv, SingleInv, ~cut, FlagDirty
  PROVE  Unique' /\ Says' /\ HasLive'
  <1>1. TypeOK /\ PhaseInv /\ Unique /\ Says /\ op = "flag" /\ op' = "done"
    BY DEF BaseInv, SingleInv, FlagDirty
  <1>2. PICK n : n = Len(recs[target])
    OBVIOUS
  <1>3. /\ Home' = Home /\ target \in Home
        /\ \A p \in Phys : \A i :
             /\ i \in Live(p)' <=> i \in Live(p) /\ recs[p][i].ver # old
             /\ i \in Live(p) /\ recs[p][i].ver # old => recs'[p][i] = recs[p][i]
    BY FlagLive
  <1>4. /\ n \in Live(target) /\ recs[target][n].ver = m_dummy_cfg /\ recs[target][n].ver # old
        /\ pc = "update"
    BY <1>1, <1>2, NewIsLive
  <1>5. Updating
    BY <1>1, <1>4 DEF Updating, WriteOps
  <1>6. \A p \in Home : \A i \in Live(p) : recs[p][i].ver = old \/ (p = target /\ i = n)
    BY <1>1, <1>2, <1>5 DEF Says, New
  <1>7. \A p \in Home' : \A i \in Live(p)' : p = target /\ i = n
    BY <1>3, <1>6, HomePages
  <1>8. recs'[target][n] = recs[target][n] /\ n \in Live(target)' /\ target \in Phys
    <2>1. target' = target /\ target \in Phys
      BY <1>1 DEF FlagDirty, TypeOK
    <2> QED  BY <1>3, <1>4, <2>1
  <1>9. Unique'
    BY <1>7 DEF Unique
  <1>10. HasLive'
    <2>1. \E p \in Home' : \E i : i \in Live(p)'
      <3>1. target' = target
        BY DEF FlagDirty
      <3> QED  BY <1>3, <1>8, <3>1
    <2> QED  BY <2>1 DEF HasLive
  <1>11. recs[target][n].ver >= confirmed
    BY <1>1, <1>3, <1>4 DEF Says
  <1>12. ~Updating' /\ confirmed' = confirmed /\ m_dummy_cfg' = m_dummy_cfg
    BY <1>1, <1>4 DEF Updating, FlagDirty, main, history
  <1>13. Says'
    <2>1. \A p \in Home' : \A i \in Live(p)' : recs'[p][i] = recs[target][n]
      BY <1>7, <1>8
    <2> QED  BY <1>4, <1>11, <1>12, <2>1 DEF Says
  <1> QED  BY <1>9, <1>10, <1>13

LEMMA EraseSingle ==
  ASSUME BaseInv, SingleInv, ~cut, GcErase
  PROVE  Unique' /\ Says' /\ (HasLive => HasLive')
  <1>1. /\ TypeOK /\ PhaseInv /\ Unique /\ Says /\ op = "gc find" /\ op' = "gc promote"
        /\ pc = "gc" /\ pc' = pc /\ old' = old /\ confirmed' = confirmed
    BY DEF BaseInv, SingleInv, GcErase, PhaseInv, TypeOK, BootOps, WriteOps, main, history
  <1>2. PICK s, t : s = swap /\ t = target
    OBVIOUS
  <1>3. Data \subseteq Phys /\ s \in Phys /\ Len(recs[s]) \in Nat
    BY <1>1, <1>2, PagesAre, RecordsAre
  <1>4. /\ t \in Data /\ s \notin Data /\ Home = Data /\ Home' = (Data \ {t}) \cup {s}
        /\ \A p \in Phys : p # t => recs'[p] = recs[p] /\ Live(p)' = Live(p)
        /\ \A k : k \in Live(s)' <=> k \in 1..Len(recs[s])
        /\ \A k \in Live(s)' : \E i \in Live(t) : recs'[s][k].ver = recs[t][i].ver
        /\ Live(t) # {} => Live(s)' # {}
    BY <1>2, EraseLive
  <1>5. \A k \in Live(s)' : k = 1
    <2>1. PICK n \in Nat : n = Len(recs[s])
      BY <1>3
    <2>2. n <= 1
      BY <1>1, <1>2, <2>1 DEF SingleInv, CopyOps
    <2>3. \A k : k \in 1..n => k = 1
      BY <2>2
    <2> QED  BY <1>4, <2>1, <2>3
  <1>6. \A p \in Home' : \A i \in Live(p)' :
          \/ p \in Data /\ p # t /\ i \in Live(p) /\ recs'[p][i] = recs[p][i]
          \/ p = s /\ i = 1 /\ \E j \in Live(t) : recs'[p][i].ver = recs[t][j].ver
    BY <1>4, <1>5, <1>3
  <1>7. \A p, i : ~New(p, i) /\ ~New(p, i)'
    BY <1>1 DEF New
  <1>8. Unique'
    <2>1. SUFFICES ASSUME NEW p \in Home', NEW q \in Home', NEW i \in Live(p)', NEW j \in Live(q)'
                   PROVE  p = q /\ i = j
      BY DEF Unique
    <2>2. \A x \in Data, y \in Data : \A k \in Live(x), l \in Live(y) : x = y /\ k = l
      BY <1>1, <1>4, TwoAreOne
    <2> QED  BY <1>4, <1>6, <2>1, <2>2
  <1>9. Updating /\ ~Settled'
    BY <1>1 DEF Updating, Settled
  <1>10. \A p \in Data : \A i \in Live(p) : recs[p][i].ver >= confirmed /\ recs[p][i].ver = old
    BY <1>1, <1>4, <1>7, <1>9 DEF Says
  <1>11. Says'
    <2>1. SUFFICES ASSUME NEW p \in Home', NEW i \in Live(p)'
                   PROVE  recs'[p][i].ver >= confirmed /\ recs'[p][i].ver = old
      BY <1>1, <1>9 DEF Says
    <2>2. \E q \in Data : \E j \in Live(q) : recs'[p][i].ver = recs[q][j].ver
      BY <1>4, <1>6
    <2> QED  BY <1>10, <2>2
  <1>12. HasLive => HasLive'
    <2>1. HasLive => \E p \in Home' : Live(p)' # {}
      BY <1>4, <1>3 DEF HasLive
    <2> QED  BY <2>1 DEF HasLive
  <1> QED  BY <1>8, <1>11, <1>12

LEMMA CutIsKept ==
  ASSUME [Next]_vars, ~cut'
  PROVE  ~cut /\ (op = "flag" => ~TimesOut /\ ~ResetEffect)
  <1>1. TimesOut \/ Reset \/ Watchdog => ~cut
    BY DEF TimesOut, Reset, Watchdog, ResetEffect
  <1>2. ReadConfig => ~cut
    BY DEF ReadConfig, ResetEffect, history
  <1>3. Boot \/ FirstWritten \/ UpdateAgain \/ Updated \/ Store \/ UNCHANGED vars => ~cut
    BY DEF Boot, FirstWritten, UpdateAgain, Updated, Store, vars, history
  <1>4. TagSwap \/ TagData \/ EraseSwap \/ PromoteSwap \/ Initialized => ~cut
    BY DEF TagSwap, TagData, EraseSwap, PromoteSwap, Initialized, history
  <1>5. WriteBegin \/ WriteBody \/ WriteFinalize \/ FlagDirty \/ WriteDone => ~cut
    BY DEF WriteBegin, WriteBody, WriteFinalize, FlagDirty, WriteDone, history
  <1>6. GcNextPage \/ GcDone \/ GcCopy \/ GcCopied \/ GcErase \/ GcPromote \/ GcTagSwap => ~cut
    BY DEF GcNextPage, GcDone, GcCopy, GcCopied, GcErase, GcPromote, GcTagSwap, history
  <1>7. ~cut
    BY <1>1, <1>2, <1>3, <1>4, <1>5, <1>6 DEF Next, FdsStep, MainStep
  <1>8. op = "flag" => ~TimesOut /\ ~ResetEffect
    BY DEF TimesOut, ResetEffect
  <1> QED  BY <1>7, <1>8

LEMMA StutterSingle ==
  ASSUME Unique, Says, UNCHANGED vars
  PROVE  Unique' /\ Says'
  <1>1. /\ op' = op /\ target' = target /\ recs' = recs /\ pc' = pc /\ flags' = flags /\ old' = old
        /\ m_dummy_cfg' = m_dummy_cfg /\ confirmed' = confirmed /\ tag' = tag
    BY DEF vars, flash, ram, work, main, history
  <1>2. Home' = Home
    BY <1>1, HomeKept
  <1>3. \A p : Live(p)' = Live(p)
    BY <1>1 DEF Live
  <1>4. \A p, i : New(p, i)' <=> New(p, i)
    BY <1>1 DEF New
  <1>5. Unique'
    BY <1>2, <1>3, <1>4 DEF Unique
  <1>6. (Settled' <=> Settled) /\ (Updating' <=> Updating)
    BY <1>1 DEF Settled, Updating
  <1>7. Says'
    BY <1>1, <1>2, <1>3, <1>4, <1>6 DEF Says
  <1> QED  BY <1>5, <1>7

LEMMA SingleStep ==
  ASSUME StoreInv, [Next]_vars
  PROVE  SingleInv'
  <1> SUFFICES ASSUME ~cut'
               PROVE  /\ confirmed' <= version' /\ (HasLive' \/ confirmed' = None)
                      /\ op' \in CopyOps => Len(recs'[swap']) <= 1
                      /\ Unique' /\ Says'
    BY DEF SingleInv
  <1>1. ~cut /\ (op = "flag" => ~TimesOut /\ ~ResetEffect)
    BY CutIsKept
  <1>2. BaseInv /\ SingleInv /\ RoomInv
    BY DEF StoreInv
  <1>3. /\ TypeOK /\ PhaseInv /\ Unique /\ Says /\ confirmed <= version
        /\ HasLive \/ confirmed = None
    BY <1>1, <1>2 DEF BaseInv, SingleInv
  <1>4. /\ version \in Int /\ confirmed \in Int /\ m_dummy_cfg \in Nat /\ m_dummy_cfg <= version
        /\ pc \in {"off", "init", "first", "main", "update", "gc"}
    BY <1>3, Sizes DEF TypeOK, PhaseInv, None
  <1>5. op' \in CopyOps => Len(recs'[swap']) <= 1
    BY <1>1, <1>2, OneCopy
  <1>6. CASE WriteFinalize \/ FlagDirty \/ GcErase
    <2>1. confirmed' = confirmed /\ version' = version
      BY <1>6 DEF WriteFinalize, FlagDirty, GcErase, main, history
    <2>2. Unique' /\ Says' /\ (HasLive => HasLive')
      BY <1>6, <1>1, <1>2, FinalizeSingle, FlagSingle, EraseSingle
    <2> QED  BY <1>3, <1>5, <2>1, <2>2
  <1>7. CASE UNCHANGED vars
    <2>1. confirmed' = confirmed /\ version' = version
      BY <1>7 DEF vars, main, history
    <2>2. HasLive' <=> HasLive
      <3>1. UNCHANGED flash
        BY <1>7 DEF vars
      <3> QED  BY <3>1, FlashStill, HasLiveKept
    <2> QED  BY <1>3, <1>5, <1>7, <2>1, <2>2, StutterSingle
  <1>8. CASE ~WriteFinalize /\ ~FlagDirty /\ ~GcErase /\ ~UNCHANGED vars
    <2>1. SameLive /\ (HasLive' <=> HasLive)
      BY <1>2, <1>8, SameLiveStep, HasLiveKept
    <2> DEFINE Calm == /\ op # "flag" /\ op' # "flag" /\ confirmed' = confirmed
                       /\ version' = version \/ version' = version + 1
                       /\ Settled' => Settled /\ m_dummy_cfg' = m_dummy_cfg
                       /\ Updating' => Updating /\ old' = old
    <2>2. CASE Calm
      <3>1. Unique' /\ Says'
        BY <1>3, <2>1, <2>2, SingleKept
      <3>2. confirmed' <= version'
        BY <1>3, <1>4, <2>2
      <3> QED  BY <1>3, <1>5, <2>1, <2>2, <3>1, <3>2
    <2>3. CASE TagSwap \/ TagData \/ EraseSwap \/ PromoteSwap \/ Initialized \/ Boot
      <3>1. /\ op # "flag" /\ op' # "flag" /\ confirmed' = confirmed /\ version' = version
            /\ pc' = "init"
        BY <2>3, <1>3, <1>4 DEF TagSwap, TagData, EraseSwap, PromoteSwap, Initialized, Boot, PhaseInv,
           FirstStep, BootOps, WriteOps, GcOps, CopyOps, main, work, history
      <3>2. ~Settled' /\ ~Updating'
        BY <3>1 DEF Settled, Updating
      <3> QED  BY <2>2, <3>1, <3>2
    <2>4. CASE WriteBegin \/ WriteBody
      <3>1. /\ op # "flag" /\ op' # "flag" /\ confirmed' = confirmed /\ version' = version
            /\ m_dummy_cfg' = m_dummy_cfg /\ old' = old /\ pc' = pc /\ flags' = flags
            /\ op \in WriteOps \ {"done"} /\ op' \in {"body", "finalize"}
        BY <2>4 DEF WriteBegin, WriteBody, main, history, WriteOps
      <3>2. Settled' => Settled
        BY <3>1 DEF Settled
      <3>3. Updating' => Updating
        BY <3>1 DEF Updating
      <3> QED  BY <2>2, <3>1, <3>2, <3>3
    <2>5. CASE WriteDone
      <3>1. /\ op = "done" /\ op' = "none" /\ confirmed' = m_dummy_cfg /\ version' = version
            /\ pc' = pc /\ m_dummy_cfg' = m_dummy_cfg /\ pc \in {"first", "update"}
        BY <2>5, <1>3, <1>4 DEF WriteDone, main, PhaseInv, BootOps, GcOps, CopyOps
      <3>2. Settled /\ ~Updating'
        BY <3>1 DEF Settled, Updating, WriteOps
      <3>3. HasLive
        BY <1>2, <3>1 DEF BaseInv, LiveInv
      <3>4. \A p, i : ~New(p, i) /\ ~New(p, i)'
        BY <3>1 DEF New
      <3>5. \A p \in Home' : \A i \in Live(p)' : p \in Home /\ i \in Live(p) /\ recs'[p][i] = recs[p][i]
        BY <2>1, HomePages DEF SameLive
      <3>6. Unique'
        BY <1>3, <3>4, <3>5 DEF Unique
      <3>7. m_dummy_cfg >= m_dummy_cfg
        BY <1>4
      <3>8. Says'
        BY <1>3, <3>1, <3>2, <3>5, <3>7 DEF Says
      <3> QED  BY <1>5, <1>4, <2>1, <3>1, <3>3, <3>6, <3>8
    <2>6. CASE GcNextPage \/ GcDone \/ GcCopy \/ GcCopied \/ GcPromote \/ GcTagSwap
      <3>1. /\ op # "flag" /\ op' # "flag" /\ confirmed' = confirmed /\ version' = version
            /\ old' = old /\ pc' = pc /\ pc = "gc"
        BY <2>6, <1>3, <1>4 DEF GcNextPage, GcDone, GcCopy, GcCopied, GcPromote, GcTagSwap, main, history,
           PhaseInv, BootOps, WriteOps
      <3>2. ~Settled' /\ Updating
        BY <3>1 DEF Settled, Updating
      <3> QED  BY <2>2, <3>1, <3>2
    <2>7. CASE ReadConfig
      <3>1. op = "none" /\ pc = "init" /\ Home = Data
        <4>1. op = "none" /\ pc = "init"
          BY <2>7, <1>3 DEF ReadConfig, PhaseInv
        <4> QED  BY <4>1, <1>2, AtRest
      <3>2. CASE IsFound /\ pc' = "main" /\ m_dummy_cfg' = Found.ver /\ UNCHANGED work /\ UNCHANGED <<version, history>>
        <4>1. PICK q \in Home : \E j \in Live(q) : Found = recs[q][j]
          BY <1>2, <3>1, <3>2, FoundCounts
        <4>2. PICK j \in Live(q) : Found = recs[q][j]
          BY <4>1
        <4>3. \A p \in Home : \A i \in Live(p) : recs[p][i] = Found
          BY <1>3, <3>1, <4>2, TwoAreOne
        <4>4. \A p \in Home' : \A i \in Live(p)' : p \in Home /\ i \in Live(p) /\ recs'[p][i] = recs[p][i]
          BY <2>1, HomePages DEF SameLive
        <4>5. \A p, i : ~New(p, i) /\ ~New(p, i)'
          BY <3>1, <3>2 DEF New, work
        <4>6. Unique'
          BY <1>3, <4>4, <4>5 DEF Unique
        <4>7. ~Updating' /\ confirmed' = confirmed /\ version' = version
          BY <3>2 DEF Updating, history
        <4>8. Says'
          BY <1>3, <3>2, <4>3, <4>4, <4>7 DEF Says
        <4> QED  BY <1>3, <1>5, <2>1, <4>6, <4>7, <4>8
      <3>3. CASE ~IsFound /\ pc' = "first" /\ Enqueue(None) /\ UNCHANGED <<version, history>>
        <4>1. ~HasLive'
          BY <1>2, <2>1, <3>1, <3>3, LiveIsFound DEF BaseInv
        <4>2. Unique' /\ Says'
          BY <4>1 DEF HasLive, Unique, Says
        <4>3. confirmed' = confirmed /\ version' = version
          BY <3>3 DEF history
        <4> QED  BY <1>3, <1>5, <2>1, <4>2, <4>3
      <3>4. CASE ResetEffect
        <4>1. op # "flag" /\ op' = "none" /\ pc' = "off" /\ confirmed' = confirmed /\ version' = version
          BY <3>1, <3>4 DEF ResetEffect
        <4>2. ~Settled' /\ ~Updating'
          BY <4>1 DEF Settled, Updating
        <4> QED  BY <2>2, <4>1, <4>2
      <3> QED  BY <2>7, <3>2, <3>3, <3>4 DEF ReadConfig
    <2>8. CASE FirstWritten \/ Updated
      <3>1. /\ op = "none" /\ op' = op /\ confirmed' = confirmed /\ version' = version
            /\ old' = old /\ m_dummy_cfg' = m_dummy_cfg /\ pc' = "main" /\ Settled
        BY <2>8, <1>3 DEF FirstWritten, Updated, PhaseInv, Settled, history, work
      <3>2. ~Updating'
        BY <3>1 DEF Updating
      <3> QED  BY <2>2, <3>1, <3>2
    <2>9. CASE UpdateAgain
      <3>1. pc = "gc" /\ ~NoSpace /\ op # "flag" /\ "update" \notin flags
        BY <2>9, <1>1, <1>2, <1>3 DEF UpdateAgain, RoomInv, PhaseInv
      <3>2. /\ op' = "begin" /\ old' = old /\ pc' = "update" /\ flags' = flags
            /\ confirmed' = confirmed /\ version' = version
        BY <2>9, <3>1 DEF UpdateAgain, Enqueue, history
      <3>3. Updating /\ ~Settled'
        BY <3>1, <3>2 DEF Updating, Settled
      <3> QED  BY <2>2, <3>1, <3>2, <3>3
    <2>10. CASE Store
      <3>1. pc = "main" /\ op = "none" /\ Settled /\ IsFound
        <4>1. pc = "main" /\ op = "none"
          BY <2>10, <1>3 DEF Store, PhaseInv
        <4> QED  BY <4>1, <1>2, AtRest DEF Settled
      <3>2. PICK q \in Home : \E j \in Live(q) : Found = recs[q][j]
        BY <1>2, <3>1, FoundCounts
      <3>3. Found.ver = m_dummy_cfg
        BY <1>3, <3>1, <3>2 DEF Says
      <3>4. /\ old' = Found.ver /\ confirmed' = confirmed /\ version' = version + 1
            /\ op' \in {"begin", "gc next"} /\ pc' \in {"update", "gc"} /\ (pc' = "update" => "update" \notin flags')
        BY <2>10 DEF Store, Enqueue, StartGc, history
      <3>5. ~Settled' /\ \A p, i : ~New(p, i) /\ ~New(p, i)'
        BY <3>1, <3>4 DEF Settled, New
      <3>6. \A p \in Home' : \A i \in Live(p)' : p \in Home /\ i \in Live(p) /\ recs'[p][i] = recs[p][i]
        BY <2>1, HomePages DEF SameLive
      <3>7. Unique'
        BY <1>3, <3>5, <3>6 DEF Unique
      <3>8. Says'
        BY <1>3, <3>1, <3>3, <3>4, <3>5, <3>6 DEF Says
      <3>9. confirmed' <= version'
        <4>1. confirmed <= version /\ version \in Int /\ confirmed \in Int
          BY <1>3, <1>4
        <4>2. confirmed <= version + 1
          BY <4>1
        <4> QED  BY <3>4, <4>2
      <3> QED  BY <1>3, <1>5, <2>1, <3>4, <3>7, <3>8, <3>9
    <2>11. CASE TimesOut
      <3>1. /\ op # "flag" /\ op' = "none" /\ confirmed' = confirmed /\ version' = version
            /\ old' = old /\ m_dummy_cfg' = m_dummy_cfg /\ pc' = pc /\ flags' = flags /\ pc \in {"update", "gc"}
        BY <2>11, <1>1 DEF TimesOut, main
      <3>2. (Settled' => Settled) /\ (Updating' => Updating)
        BY <3>1 DEF Settled, Updating, WriteOps
      <3> QED  BY <2>2, <3>1, <3>2
    <2>12. CASE Reset \/ Watchdog
      <3>1. op # "flag" /\ op' = "none" /\ pc' = "off" /\ confirmed' = confirmed /\ version' = version
        BY <2>12, <1>1 DEF Reset, Watchdog, ResetEffect
      <3>2. ~Settled' /\ ~Updating'
        BY <3>1 DEF Settled, Updating
      <3> QED  BY <2>2, <3>1, <3>2
    <2> QED
      BY <1>8, <2>3, <2>4, <2>5, <2>6, <2>7, <2>8, <2>9, <2>10, <2>11, <2>12 DEF Next, FdsStep, MainStep
  <1> QED  BY <1>6, <1>7, <1>8

-----------------------------------------------------------------------------
(* Room, step by step.                                                     *)

LEMMA EmptyIsClean ==
  ASSUME NEW p
  PROVE  (recs[p] = <<>> => ~Waste(p)) /\ (recs'[p] = <<>> => ~Waste(p)')
  BY EmptyPage DEF Waste

LEMMA SamePage ==
  ASSUME NEW p, recs'[p] = recs[p]
  PROVE  Waste(p)' <=> Waste(p)
  BY DEF Waste, IsLive

LEMMA CleanKept ==
  ASSUME CleanInv, Erased' # {} => Erased # {},
         \A p \in Phys : tag'[p] = "swap" => tag[p] = "swap" /\ recs'[p] = recs[p]
  PROVE  CleanInv'
  BY SamePage DEF CleanInv

LEMMA CleanStep ==
  ASSUME BaseInv, CleanInv, [Next]_vars
  PROVE  CleanInv'
  <1>1. /\ TypeOK /\ FlashInv /\ TagInv /\ tag \in [Phys -> {"erased", "data", "swap"}] /\ swap \in Phys
    BY DEF BaseInv, TypeOK
  <1>2. CASE TagSwap
    <2>1. \A p \in Phys : tag[p] # "swap"
      BY <1>2, <1>1 DEF TagInv, TagSwap, Swaps
    <2>2. recs'[swap] = <<>> /\ \A p \in Phys : p # swap => tag'[p] = tag[p]
      BY <1>2, <1>1 DEF TagSwap, TagInv, FlashInv
    <2> QED  BY <2>1, <2>2, EmptyIsClean DEF CleanInv
  <1>3. CASE TagData
    <2>1. PICK i \in 1..2 : tag[pages[i]] = "erased" /\ tag' = [tag EXCEPT ![pages[i]] = "data"]
      BY <1>3 DEF TagData
    <2>2. i = 1 \/ i = 2
      OBVIOUS
    <2>3. pages[i] \in Phys /\ recs' = recs
      BY <1>3, <1>1, <2>2, PagesAre DEF TagData
    <2>4. tag'[pages[i]] = "data" /\ \A p \in Phys : p # pages[i] => tag'[p] = tag[p]
      BY <1>1, <2>1, <2>3
    <2>5. Erased' # {} => Erased # {}
      BY <2>3, <2>4 DEF Erased
    <2> QED  BY <2>3, <2>4, <2>5, CleanKept
  <1>4. CASE EraseSwap \/ PromoteSwap
    <2>1. tag[swap] = "swap" /\ tag'[swap] # "swap" /\ \A p \in Phys : p # swap => tag'[p] = tag[p]
      BY <1>4, <1>1 DEF EraseSwap, PromoteSwap, TagInv
    <2>2. \A p \in Phys : tag'[p] # "swap"
      BY <1>1, <2>1 DEF FlashInv
    <2> QED  BY <2>2 DEF CleanInv
  <1>5. CASE WriteBegin \/ WriteFinalize \/ FlagDirty \/ GcCopy \/ GcCopied
    <2>1. UNCHANGED tag /\ op \notin BootOps \cup {"none", "gc promote", "gc tag"}
      BY <1>5 DEF WriteBegin, WriteFinalize, FlagDirty, GcCopy, GcCopied, BootOps
    <2>2. Erased' = {}
      BY <2>1, SwapKnown, HomeKept
    <2> QED  BY <2>2 DEF CleanInv
  <1>6. CASE GcErase
    <2>1. PICK s, t : s = swap /\ t = target
      OBVIOUS
    <2>2. t \in Data /\ s \notin Data /\ \A k : k \in Live(s)' <=> k \in 1..Len(recs[s])
      BY <1>6, <2>1, EraseLive
    <2>3. tag[s] = "swap" /\ t \in Phys /\ s \in Phys
      BY <1>6, <1>1, <2>1, <2>2, SwapKnown, PagesAre DEF GcErase, BootOps
    <2>4. \A p \in Phys : tag'[p] = "swap" => p = s
      BY <1>6, <1>1, <2>1, <2>3 DEF GcErase, FlashInv
    <2>5. recs'[s] = recs[s]
      BY <1>6, <2>1, <2>2, <2>3, EraseLive
    <2>6. ~Waste(s)'
      BY <2>2, <2>5 DEF Waste, Live, IsLive
    <2> QED  BY <2>4, <2>6 DEF CleanInv
  <1>7. CASE GcPromote
    <2>1. tag[target] = "swap" /\ target \in Phys
      BY <1>7, <1>1 DEF TagInv, GcPromote, TypeOK
    <2>2. tag'[target] = "data" /\ \A p \in Phys : p # target => tag'[p] = tag[p]
      BY <1>7, <1>1, <2>1 DEF GcPromote
    <2>3. \A p \in Phys : tag'[p] # "swap"
      BY <1>1, <2>1, <2>2 DEF FlashInv
    <2> QED  BY <2>3 DEF CleanInv
  <1>8. CASE GcTagSwap
    <2>1. (\A p \in Phys : tag[p] # "swap") /\ tag[swap] = "erased"
      BY <1>8, <1>1 DEF TagInv, GcTagSwap, Swaps, Erased
    <2>2. recs'[swap] = <<>> /\ \A p \in Phys : p # swap => tag'[p] = tag[p]
      BY <1>8, <1>1, <2>1 DEF GcTagSwap, FlashInv
    <2> QED  BY <2>1, <2>2, EmptyIsClean DEF CleanInv
  <1>9. CASE UNCHANGED flash
    BY <1>9, CleanKept, HomeKept DEF flash
  <1>10. CASE Initialized \/ WriteBody \/ WriteDone \/ GcNextPage \/ GcDone
    BY <1>10, <1>9 DEF Initialized, WriteBody, WriteDone, GcNextPage, GcDone
  <1>11. CASE Boot \/ ReadConfig \/ FirstWritten \/ UpdateAgain \/ Updated
    BY <1>11, <1>9 DEF Boot, ReadConfig, FirstWritten, UpdateAgain, Updated, ResetEffect
  <1>12. CASE Store \/ TimesOut \/ Reset \/ Watchdog \/ UNCHANGED vars
    BY <1>12, <1>9 DEF Store, TimesOut, Reset, Watchdog, ResetEffect, vars
  <1> QED
    BY <1>2, <1>3, <1>4, <1>5, <1>6, <1>7, <1>8, <1>10, <1>11, <1>12 DEF Next, FdsStep, MainStep

(* A page whose records stay as they were needs no new entry in can_gc.    *)
LEMMA KnownKept ==
  ASSUME KnownInv, ~Quiet' => ~Quiet, UNCHANGED <<Data, can_gc>>,
         \A p \in Data : recs'[p] = recs[p],
         op \in {"body", "finalize"} => op' \in {"body", "finalize"} /\ UNCHANGED target
  PROVE  KnownInv'
  BY DEF KnownInv, IsLive

LEMMA KnownStep ==
  ASSUME BaseInv, CleanInv, KnownInv, [Next]_vars
  PROVE  KnownInv'
  <1>1. /\ TypeOK /\ PhaseInv /\ TagInv /\ swap \in Phys /\ swap \notin Data /\ Data \subseteq Phys
        /\ target \in Phys /\ pc \in {"off", "init", "first", "main", "update", "gc"}
    BY PagesAre DEF BaseInv, TypeOK
  <1>2. CASE Quiet'
    BY <1>2 DEF KnownInv
  <1>3. CASE TagSwap \/ TagData \/ Initialized \/ EraseSwap
    <2>1. /\ ~Quiet /\ op \notin {"body", "finalize"} /\ can_gc' = can_gc /\ Data' = Data
      BY <1>3, <1>1 DEF TagSwap, TagData, Initialized, EraseSwap, PhaseInv, Quiet, BootOps, WriteOps, GcOps, CopyOps, ram, Data
    <2>2. \A p \in Data : recs'[p] = recs[p]
      BY <1>3, <1>1, Emptied DEF TagSwap, TagData, Initialized, EraseSwap, flash
    <2> QED  BY <2>1, <2>2, KnownKept
  <1>4. CASE PromoteSwap
    <2>1. Candidate \in Data /\ tag[swap] = "swap" /\ Erased # {}
      BY <1>4, <1>1, PromotedPage DEF TagInv, PromoteSwap
    <2>2. Data' = (Data \ {Candidate}) \cup {swap} /\ can_gc' = can_gc \ {Candidate}
      BY <1>4, <1>1, <2>1, Traded DEF PromoteSwap
    <2>3. ~Waste(swap)
      BY <1>1, <2>1 DEF CleanInv
    <2>4. ~Quiet /\ op \notin {"body", "finalize"} /\ recs' = recs
      BY <1>4, <1>1 DEF PromoteSwap, PhaseInv, Quiet, BootOps, WriteOps, GcOps, CopyOps
    <2> QED  BY <2>2, <2>3, <2>4 DEF KnownInv, Waste, IsLive
  <1>5. CASE WriteBegin
    <2>1. ~Quiet /\ target \in Data /\ Data' = Data /\ can_gc' = can_gc /\ target' = target /\ op' = "body"
          /\ op = "begin"
      BY <1>5, SwapKnown DEF WriteBegin, BootOps, BaseInv, TargetInv, WriteOps, ram, Data
    <2>2. PICK n \in Nat : n = Len(recs[target])
      BY <1>1, RecordsAre
    <2>3. /\ Len(recs'[target]) = n + 1
          /\ \A i \in 1..n : recs'[target][i] = recs[target][i]
          /\ \A q \in Phys : q # target => recs'[q] = recs[q]
      BY <1>5, <2>2, BeginEffect
    <2>4. \A i : i \in 1..n + 1 => i \in 1..n \/ i = n + 1
      OBVIOUS
    <2> QED  BY <1>1, <2>1, <2>2, <2>3, <2>4 DEF KnownInv, IsLive
  <1>6. CASE WriteBody
    <2>1. ~Quiet /\ Data' = Data /\ can_gc' = can_gc /\ target' = target /\ op' = "finalize" /\ recs' = recs
      BY <1>6, SwapKnown DEF WriteBody, BootOps, ram, flash, Data
    <2> QED  BY <2>1, KnownKept
  <1>7. CASE WriteFinalize
    <2>1. ~Quiet /\ Data' = Data /\ can_gc' = can_gc
      BY <1>7, SwapKnown DEF WriteFinalize, BootOps, ram, Data
    <2>2. /\ Len(recs'[target]) = Len(recs[target])
          /\ IsLive(recs'[target][Len(recs[target])])
          /\ \A i \in 1..Len(recs[target]) : i # Len(recs[target]) => recs'[target][i] = recs[target][i]
          /\ \A q \in Phys : q # target => recs'[q] = recs[q]
      BY <1>7, FinalizeEffect DEF IsLive
    <2> QED  BY <1>1, <2>1, <2>2 DEF KnownInv, IsLive
  <1>8. CASE FlagDirty
    <2>1. ~Quiet /\ Data' = Data /\ op = "flag"
      BY <1>8, SwapKnown DEF FlagDirty, BootOps, Data
    <2>2. \A p \in Data : p \notin can_gc' => p \notin can_gc /\ recs'[p] = recs[p]
      BY <1>8, <1>1 DEF FlagDirty
    <2> QED  BY <2>1, <2>2 DEF KnownInv, IsLive
  <1>9. CASE WriteDone \/ GcNextPage \/ GcDone
    <2>1. ~Quiet /\ Data' = Data /\ can_gc' = can_gc /\ op \notin {"body", "finalize"} /\ recs' = recs
      BY <1>9, SwapKnown DEF WriteDone, GcNextPage, GcDone, BootOps, Data, ram, flash
    <2> QED  BY <2>1, KnownKept
  <1>10. CASE GcCopy \/ GcCopied
    <2>1. ~Quiet /\ Data' = Data /\ can_gc' = can_gc /\ op \notin {"body", "finalize"}
      BY <1>10, SwapKnown DEF GcCopy, GcCopied, BootOps, Data, ram
    <2>2. \A p \in Data : recs'[p] = recs[p]
      BY <1>10, <1>1, CopyEffect, CopiedEffect
    <2> QED  BY <2>1, <2>2, KnownKept
  <1>11. CASE GcErase
    <2>1. PICK s, t : s = swap /\ t = target
      OBVIOUS
    <2>2. /\ t \in Data /\ s \notin Data
          /\ \A p \in Phys : p # t => recs'[p] = recs[p]
          /\ \A k : k \in Live(s)' <=> k \in 1..Len(recs[s])
      BY <1>11, <2>1, EraseLive
    <2>3. ~Quiet /\ op = "gc find"
      BY <1>11, SwapKnown DEF GcErase, BootOps
    <2>4. Data' = (Data \ {t}) \cup {s} /\ can_gc' = can_gc \ {t}
      BY <1>11, <1>1, <2>1, <2>2, Traded DEF GcErase
    <2>5. recs'[s] = recs[s] /\ \A i \in 1..Len(recs'[s]) : IsLive(recs'[s][i])
      BY <1>1, <2>1, <2>2 DEF Live, IsLive
    <2> QED  BY <1>1, <2>2, <2>3, <2>4, <2>5 DEF KnownInv, IsLive
  <1>12. CASE GcPromote \/ GcTagSwap
    <2>1. Data' = Data /\ can_gc' = can_gc /\ op \notin {"body", "finalize"} /\ recs' = recs /\ ~Quiet
      BY <1>12, <1>1 DEF GcPromote, GcTagSwap, Data, ram, Quiet, PhaseInv
    <2> QED  BY <2>1, KnownKept
  <1>13. CASE Boot
    <2>1. Data' = Phys \ {swap'} /\ swap' = SwapPage /\ recs' = recs
      BY <1>13, BootEffect DEF Boot, flash
    <2>2. \A p \in Data' : \A i \in 1..Len(recs[p]) : ~IsLive(recs[p][i]) => p \in can_gc'
      <3>1. SUFFICES ASSUME NEW p \in Data', NEW i \in 1..Len(recs[p]), ~IsLive(recs[p][i])
                     PROVE  p \in can_gc'
        OBVIOUS
      <3>2. p \in Phys \ {SwapPage}
        BY <2>1
      <3>3. i \in DOMAIN recs[p] /\ i \notin Live(p)
        BY <1>1, <3>1, <3>2, RecordsAre
      <3> QED  BY <1>13, <3>2, <3>3 DEF Boot
    <2> QED  BY <2>1, <2>2 DEF KnownInv, IsLive
  <1>14. CASE (ReadConfig /\ ~ResetEffect) \/ FirstWritten \/ UpdateAgain \/ Updated \/ Store
    <2>1. /\ ~Quiet /\ Data' = Data /\ can_gc' = can_gc /\ recs' = recs /\ op \notin {"body", "finalize"}
      BY <1>14, <1>1 DEF ReadConfig, FirstWritten, UpdateAgain, Updated, Store, PhaseInv, Quiet, Data, ram, flash,
         BootOps, WriteOps, GcOps, CopyOps
    <2> QED  BY <2>1, KnownKept
  <1>15. CASE TimesOut
    <2>1. Quiet'
      BY <1>15, <1>1 DEF TimesOut, PhaseInv, Quiet, main
    <2> QED  BY <2>1, <1>2
  <1>16. CASE ResetEffect
    BY <1>16, <1>2 DEF ResetEffect, Quiet
  <1>17. CASE UNCHANGED vars
    <2>1. /\ Data' = Data /\ can_gc' = can_gc /\ recs' = recs /\ op' = op /\ target' = target
          /\ pc' = pc /\ flags' = flags
      BY <1>17 DEF vars, flash, ram, work, main, Data
    <2>2. Quiet' <=> Quiet
      BY <2>1 DEF Quiet
    <2> QED  BY <2>1, <2>2, KnownKept
  <1> QED
    BY <1>3, <1>4, <1>5, <1>6, <1>7, <1>8, <1>9, <1>10, <1>11, <1>12, <1>13, <1>14, <1>15, <1>16, <1>17
    DEF Next, FdsStep, MainStep, Reset, Watchdog

LEMMA SpaceIs == NoSpace <=> \A p \in Data : ~(Len(recs[p]) < Slots)
  BY DEF NoSpace, HasSpace, Data

LEMMA SpaceAfter ==
  ASSUME NEW p \in Data', Len(recs'[p]) < Slots
  PROVE  ~NoSpace'
  BY DEF NoSpace, HasSpace, Data

(* A full page all of whose records count has at least one that does.      *)
LEMMA FullOfLive ==
  ASSUME TypeOK, NEW p \in Phys, ~(Len(recs[p]) < Slots), ~Waste(p)
  PROVE  Live(p) # {}
  <1>1. PICK n \in Nat : n = Len(recs[p])
    BY RecordsAre
  <1>2. n > 0
    BY <1>1, Sizes
  <1>3. 1 \in 1..n
    BY <1>2
  <1> QED  BY <1>1, <1>3, RecordsAre DEF Waste

(* Where there is one record, two full pages cannot both be without waste. *)
LEMMA WasteIsFound ==
  ASSUME BaseInv, KnownInv, Unique, pc = "main", NoSpace
  PROVE  \E p \in Data : p \in can_gc /\ Waste(p)
  <1>1. op = "none" /\ TypeOK
    BY DEF BaseInv, PhaseInv
  <1>2. Home = Data /\ ~Quiet
    BY <1>1, AtRest
  <1>3. pages[1] \in Phys /\ pages[2] \in Phys /\ pages[1] # pages[2] /\ pages[1] \in Data /\ pages[2] \in Data
    BY <1>1, PagesAre DEF Data
  <1>4. ~(Len(recs[pages[1]]) < Slots) /\ ~(Len(recs[pages[2]]) < Slots)
    BY <1>3, SpaceIs
  <1>5. Waste(pages[1]) \/ Waste(pages[2])
    <2>1. SUFFICES ASSUME ~Waste(pages[1]), ~Waste(pages[2])  PROVE FALSE
      OBVIOUS
    <2>2. Live(pages[1]) # {} /\ Live(pages[2]) # {}
      BY <1>1, <1>3, <1>4, <2>1, FullOfLive
    <2>3. PICK i \in Live(pages[1]), j \in Live(pages[2]) : TRUE
      BY <2>2
    <2> QED  BY <1>1, <1>2, <1>3, <2>3, TwoAreOne
  <1>6. \A p \in Data : Waste(p) => p \in can_gc
    BY <1>1, <1>2 DEF KnownInv, Waste
  <1> QED  BY <1>3, <1>5, <1>6

LEMMA SourceIs ==
  ASSUME TypeOK
  PROVE  src \in Nat
  BY Sizes DEF TypeOK

(* Collecting a page that had space or waste leaves space on the page that *)
(* takes its place.                                                        *)
LEMMA CollectionMakesRoom ==
  ASSUME BaseInv, SingleInv, ~cut, GcErase, NEW s, s = swap, NEW t, t = target
  PROVE  Len(recs[t]) < Slots \/ Waste(t) => Len(recs'[s]) < Slots
  <1>1. TypeOK /\ s \in Phys /\ t \in Phys /\ op = "gc find" /\ src \in Nat
    BY SourceIs DEF BaseInv, TypeOK, GcErase
  <1>2. PICK m \in Nat : m = Len(recs[s])
    BY <1>1, RecordsAre
  <1>3. PICK n \in Nat : n = Len(recs[t]) /\ n <= Slots
    BY <1>1, RecordsAre
  <1>4. /\ t \in Data /\ s \notin Data /\ recs'[s] = recs[s]
        /\ \A k : k \in Live(s)' <=> k \in 1..m
        /\ \A k \in Live(s)' : \E i \in Live(t) : recs'[s][k].ver = recs[t][i].ver
    <2>1. /\ t \in Data /\ s \notin Data /\ \A p \in Phys : p # t => recs'[p] = recs[p]
          /\ \A k : k \in Live(s)' <=> k \in 1..Len(recs[s])
          /\ \A k \in Live(s)' : \E i \in Live(t) : recs'[s][k].ver = recs[t][i].ver
      BY EraseLive
    <2> QED  BY <1>1, <1>2, <2>1
  <1>5. m <= 1
    BY <1>1, <1>2 DEF SingleInv, CopyOps
  <1>6. m <= n
    <2>1. src <= n /\ m <= src
      BY <1>1, <1>2, <1>3 DEF BaseInv, TargetInv, CopyOps
    <2>2. \A x, y, z \in Nat : y <= z /\ x <= y => x <= z
      OBVIOUS
    <2> QED  BY <1>1, <2>1, <2>2
  <1>7. CASE n < Slots
    BY <1>4, <1>2, <1>6, <1>7, Sizes
  <1>8. CASE Waste(t)
    <2>1. CASE m = 0
      BY <1>4, <1>2, <2>1, Sizes
    <2>2. CASE m # 0
      <3>1. 1 \in 1..m
        BY <2>2
      <3>2. PICK i \in Live(t) : TRUE
        BY <1>4, <3>1
      <3>3. PICK j \in 1..n : ~IsLive(recs[t][j])
        BY <1>8, <1>3 DEF Waste
      <3>4. i \in 1..n /\ i # j
        BY <1>1, <1>3, <3>2, <3>3, RecordsAre
      <3>5. m < Slots
        BY <1>5, <1>3, <3>3, <3>4, Sizes
      <3> QED  BY <1>4, <1>2, <3>5
    <2> QED  BY <2>1, <2>2
  <1> QED  BY <1>3, <1>7, <1>8

LEMMA RoomStep ==
  ASSUME StoreInv, [Next]_vars
  PROVE  RoomInv'
  <1> SUFFICES ASSUME ~cut', pc' = "gc"
               PROVE  /\ ~Quiet' => \/ ~NoSpace'
                                    \/ \E p \in Data' : p \in gcleft' \cap can_gc' /\ Waste(p)'
                                    \/ op' \in CopyOps /\ Waste(target)'
                      /\ "gc" \in flags' => ~NoSpace'
    BY DEF RoomInv
  <1>1. ~cut
    BY CutIsKept
  <1>2. BaseInv /\ SingleInv /\ KnownInv /\ RoomInv
    BY DEF StoreInv
  <1>3. /\ TypeOK /\ PhaseInv /\ Unique /\ swap \in Phys /\ swap \notin Data /\ Data \subseteq Phys
        /\ target \in Phys /\ pc \in {"off", "init", "first", "main", "update", "gc"}
    BY <1>1, <1>2, PagesAre DEF BaseInv, SingleInv, TypeOK
  <1>4. pc = "gc" /\ ~Quiet =>
          \/ ~NoSpace
          \/ \E p \in Data : p \in gcleft \cap can_gc /\ Waste(p)
          \/ op \in CopyOps /\ Waste(target)
    BY <1>1, <1>2 DEF RoomInv
  <1>5. CASE Store
    <2>1. pc = "main" /\ NoSpace /\ StartGc /\ flags' = flags \ {"update", "gc"}
          /\ recs' = recs /\ swap' = swap /\ Data' = Data /\ can_gc' = can_gc
      BY <1>5 DEF Store, Enqueue, Data, flash, ram
    <2>2. PICK p \in Data : p \in can_gc /\ Waste(p)
      BY <1>2, <1>3, <2>1, WasteIsFound
    <2>3. p \in gcleft' \cap can_gc' /\ Waste(p)' /\ p \in Data'
      BY <1>3, <2>1, <2>2, SamePage DEF StartGc
    <2> QED  BY <2>1, <2>3
  <1>6. CASE GcNextPage
    <2>1. /\ ~Quiet /\ pc = "gc" /\ "gc" \notin flags /\ op = "gc next" /\ op' = "gc find"
          /\ recs' = recs /\ swap' = swap /\ Data' = Data /\ can_gc' = can_gc /\ pages' = pages /\ flags' = flags
      BY <1>6, <1>3, <1>2, SwapKnown DEF GcNextPage, PhaseInv, BootOps, WriteOps, GcOps, flash, ram, main, Data
    <2>2. PICK i \in 1..2 :
            /\ Collectable(i) /\ \A j \in 1..(i - 1) : ~Collectable(j)
            /\ target' = pages[i]
            /\ gcleft' = gcleft \ {pages[j] : j \in 1..i}
      BY <1>6 DEF GcNextPage
    <2>3. CASE ~NoSpace
      <3>1. ~NoSpace'
        BY <2>1, <2>3 DEF NoSpace, HasSpace
      <3> QED  BY <3>1
    <2>4. ASSUME NEW p \in Data, p \in gcleft \cap can_gc, Waste(p)
          PROVE  Waste(target)' \/ p \in gcleft' \cap can_gc'
      <3>1. CASE i = 1
        <4>1. gcleft' = gcleft \ {pages[1]} /\ target' = pages[1]
          <5>1. 1..1 = {1}
            OBVIOUS
          <5> QED  BY <2>2, <3>1, <5>1
        <4>2. CASE p = pages[1]
          BY <2>1, <2>4, <4>1, <4>2 DEF Waste
        <4>3. CASE p # pages[1]
          BY <2>1, <2>4, <4>1, <4>3
        <4> QED  BY <4>2, <4>3
      <3>2. CASE i = 2
        <4>1. ~Collectable(1) /\ target' = pages[2]
          <5>1. 1 \in 1..(2 - 1)
            OBVIOUS
          <5> QED  BY <2>2, <3>2, <5>1
        <4>2. p = pages[2]
          BY <2>4, <4>1 DEF Data, Collectable
        <4> QED  BY <2>1, <2>4, <4>1, <4>2 DEF Waste
      <3>3. i = 1 \/ i = 2
        OBVIOUS
      <3> QED  BY <3>1, <3>2, <3>3
    <2>5. \A p : recs'[p] = recs[p]
      BY <2>1
    <2>6. op \notin CopyOps
      BY <2>1 DEF CopyOps
    <2>7. op' \in CopyOps
      BY <2>1 DEF CopyOps
    <2>8. CASE \E p \in Data : p \in gcleft \cap can_gc /\ Waste(p)
      BY <2>1, <2>4, <2>5, <2>7, <2>8, SamePage
    <2> QED  BY <1>4, <2>1, <2>3, <2>6, <2>8
  <1>7. CASE GcDone
    <2>1. ~Quiet /\ pc = "gc" /\ recs' = recs /\ pages' = pages
      BY <1>7, <1>3, <1>2, SwapKnown DEF GcDone, PhaseInv, BootOps, WriteOps, flash, ram
    <2>2. \A i \in 1..2 : pages[i] \notin gcleft \cap can_gc
      BY <1>7 DEF GcDone, Collectable
    <2>3. \A p \in Data : p \notin gcleft \cap can_gc
      BY <2>2 DEF Data
    <2>4. op \notin CopyOps
      BY <1>7 DEF GcDone, CopyOps
    <2>5. ~NoSpace
      BY <1>4, <2>1, <2>3, <2>4
    <2>6. ~NoSpace'
      BY <2>1, <2>5 DEF NoSpace, HasSpace
    <2> QED  BY <2>6
  <1>8. CASE GcCopy \/ GcCopied
    <2>1. /\ ~Quiet /\ pc = "gc" /\ "gc" \notin flags /\ op' \in CopyOps /\ flags' = flags
          /\ Data' = Data /\ can_gc' = can_gc /\ pages' = pages /\ gcleft' = gcleft /\ target' = target
      BY <1>8, <1>3, <1>2, SwapKnown DEF GcCopy, GcCopied, PhaseInv, BootOps, WriteOps, GcOps, CopyOps, ram, main, Data
    <2>2. \A p \in Data : recs'[p] = recs[p]
      BY <1>8, <1>3, <1>2, CopyEffect, CopiedEffect
    <2>3. target \in Data
      BY <1>8, <1>2 DEF GcCopy, GcCopied, BaseInv, TargetInv, WriteOps, GcOps, CopyOps
    <2>4. NoSpace' <=> NoSpace
      <3>1. pages[1] \in Data /\ pages[2] \in Data
        BY DEF Data
      <3> QED  BY <2>1, <2>2, <3>1 DEF NoSpace, HasSpace
    <2>5. Waste(target)' <=> Waste(target)
      BY <2>1, <2>2, <2>3 DEF Waste, IsLive
    <2> QED  BY <1>4, <2>1, <2>2, <2>4, <2>5, SamePage
  <1>9. CASE GcErase
    <2>1. PICK s, t : s = swap /\ t = target
      OBVIOUS
    <2>2. /\ ~Quiet /\ pc = "gc" /\ "gc" \notin flags /\ op = "gc find" /\ flags' = flags
      BY <1>9, <1>3, <1>2, SwapKnown DEF GcErase, PhaseInv, BootOps, WriteOps, GcOps, CopyOps, main
    <2>3. /\ t \in Data /\ s \notin Data
          /\ \A p \in Phys : p # t => recs'[p] = recs[p]
      BY <1>2, <1>9, <2>1, EraseLive
    <2>4. Data' = (Data \ {t}) \cup {s} /\ can_gc' = can_gc \ {t} /\ gcleft' = gcleft
      BY <1>9, <1>3, <2>1, <2>3, Traded DEF GcErase
    <2>5. CASE Len(recs[t]) < Slots \/ Waste(t)
      <3>1. Len(recs'[s]) < Slots
        BY <1>1, <1>2, <1>9, <2>1, <2>5, CollectionMakesRoom
      <3>2. ~NoSpace'
        BY <2>4, <3>1, SpaceAfter
      <3> QED  BY <3>2
    <2>6. CASE \E p \in Data : p # t /\ Len(recs[p]) < Slots
      <3>1. PICK p \in Data : p # t /\ Len(recs[p]) < Slots
        BY <2>6
      <3>2. p \in Data' /\ Len(recs'[p]) < Slots
        BY <1>3, <2>3, <2>4, <3>1
      <3>3. ~NoSpace'
        BY <3>2, SpaceAfter
      <3> QED  BY <3>3
    <2>7. CASE \E p \in Data : p # t /\ p \in gcleft \cap can_gc /\ Waste(p)
      <3>1. PICK p \in Data : p # t /\ p \in gcleft \cap can_gc /\ Waste(p)
        BY <2>7
      <3>2. p \in Data' /\ p \in gcleft' \cap can_gc' /\ Waste(p)'
        BY <1>3, <2>3, <2>4, <3>1, SamePage
      <3> QED  BY <2>2, <3>2
    <2>8. CASE ~NoSpace
      BY <2>5, <2>6, <2>8, SpaceIs
    <2> QED  BY <1>4, <2>2, <2>5, <2>7, <2>8, <2>1
  <1>10. CASE GcPromote \/ GcTagSwap
    <2>1. /\ ~Quiet /\ pc = "gc" /\ "gc" \notin flags /\ flags' = flags /\ op \notin CopyOps
          /\ Data' = Data /\ can_gc' = can_gc /\ pages' = pages /\ gcleft' = gcleft /\ recs' = recs
      BY <1>10, <1>3, <1>2, SwapKnown DEF GcPromote, GcTagSwap, PhaseInv, BootOps, WriteOps, GcOps, CopyOps, Quiet, ram, main, Data
    <2>2. NoSpace' <=> NoSpace
      BY <2>1 DEF NoSpace, HasSpace
    <2>3. \A p : recs'[p] = recs[p]
      BY <2>1
    <2> QED  BY <1>4, <2>1, <2>2, <2>3, SamePage
  <1>11. CASE TimesOut
    <2>1. Quiet' /\ "gc" \notin flags'
      BY <1>11, <1>3 DEF TimesOut, PhaseInv, Quiet, main
    <2> QED  BY <2>1
  <1>12. CASE UNCHANGED vars
    <2>1. /\ flags' = flags /\ op' = op /\ pc' = pc /\ target' = target
          /\ Data' = Data /\ can_gc' = can_gc /\ pages' = pages /\ gcleft' = gcleft /\ recs' = recs
      BY <1>12 DEF vars, flash, ram, work, main, Data
    <2>2. (NoSpace' <=> NoSpace) /\ (Quiet' <=> Quiet) /\ (Waste(target)' <=> Waste(target))
      BY <2>1 DEF NoSpace, HasSpace, Quiet, Waste, IsLive
    <2>3. \A p : recs'[p] = recs[p]
      BY <2>1
    <2>4. "gc" \in flags => ~NoSpace
      BY <1>1, <1>2, <2>1 DEF RoomInv
    <2> QED  BY <1>4, <2>1, <2>2, <2>3, <2>4, SamePage
  <1>13. ~(TagSwap \/ TagData \/ EraseSwap \/ PromoteSwap \/ Initialized \/ Boot)
    BY <1>3 DEF TagSwap, TagData, EraseSwap, PromoteSwap, Initialized, Boot, PhaseInv, BootOps, WriteOps, GcOps,
       CopyOps, main
  <1>14. ~(WriteBegin \/ WriteBody \/ WriteFinalize \/ FlagDirty \/ WriteDone)
    BY <1>3 DEF WriteBegin, WriteBody, WriteFinalize, FlagDirty, WriteDone, PhaseInv, GcOps, CopyOps, main
  <1>15. ~(ReadConfig \/ FirstWritten \/ UpdateAgain \/ Updated \/ Reset \/ Watchdog)
    BY DEF ReadConfig, FirstWritten, UpdateAgain, Updated, Reset, Watchdog, ResetEffect
  <1> QED
    BY <1>5, <1>6, <1>7, <1>8, <1>9, <1>10, <1>11, <1>12, <1>13, <1>14, <1>15 DEF Next, FdsStep, MainStep

LEMMA InitStore == Init => StoreInv
  <1> SUFFICES ASSUME Init  PROVE StoreInv
    OBVIOUS
  <1>1. /\ \A p \in Phys : tag[p] = "erased" /\ recs[p] = <<>>
        /\ op = "none" /\ pc = "off" /\ confirmed = None /\ version = 0
    BY DEF Init
  <1>2. Home = {}
    BY <1>1 DEF Home
  <1>3. SingleInv
    BY <1>1, <1>2 DEF SingleInv, Unique, Says, CopyOps, None
  <1>4. CleanInv /\ KnownInv /\ RoomInv
    BY <1>1 DEF CleanInv, KnownInv, RoomInv, Quiet
  <1> QED  BY <1>3, <1>4, InitBase DEF StoreInv

LEMMA StoreStep == StoreInv /\ [Next]_vars => StoreInv'
  BY BaseStep, SingleStep, CleanStep, KnownStep, RoomStep DEF StoreInv

(* The part of Stored that no cut update excepts.                          *)
LatestHeld == confirmed # None => \E v \in RecordHeld : v >= confirmed

LEMMA StoredHolds ==
  ASSUME StoreInv, LatestHeld
  PROVE  Stored
  <1>1. BaseInv /\ SingleInv
    BY DEF StoreInv
  <1>2. Swaps \cup Erased # {}
    BY <1>1 DEF BaseInv, FlashInv, Swaps, Erased
  <1>3. ASSUME pc = "main"
        PROVE  /\ IsFound /\ Found.st = "valid"
               /\ ~cut => Found.ver = m_dummy_cfg /\ Found.ver >= confirmed
    <2>1. op = "none"
      BY <1>1, <1>3 DEF BaseInv, PhaseInv
    <2>2. IsFound
      BY <1>1, <1>3, <2>1, AtRest
    <2>3. PICK p \in Home : \E i \in Live(p) : Found = recs[p][i]
      BY <1>1, <1>3, <2>1, <2>2, FoundCounts
    <2>4. Found.st = "valid"
      BY <1>1, <2>3 DEF BaseInv, LiveInv
    <2>5. ~cut => Found.ver = m_dummy_cfg /\ Found.ver >= confirmed
      BY <1>1, <1>3, <2>3 DEF SingleInv, Says, Settled
    <2> QED  BY <2>2, <2>4, <2>5
  <1> QED  BY <1>2, <1>3 DEF Stored, LatestHeld

-----------------------------------------------------------------------------
(* The refinement of ConfigRecord.  What a store drops is held until then, *)
(* and a boot that finds nothing starts from version 0.                    *)

RecordInv ==
  /\ Updating => old \in RecordHeld
  /\ pc = "init" => m_dummy_cfg = 0

LEMMA HeldIs ==
  /\ \A v : v \in RecordHeld <=> \E p \in Home : \E i \in Live(p) : v = recs[p][i].ver
  /\ \A v : v \in RecordHeld' <=> \E p \in Home' : \E i \in Live(p)' : v = recs'[p][i].ver
  BY DEF RecordHeld

LEMMA NothingHeld == RecordHeld = {} <=> ~HasLive
  BY HeldIs DEF HasLive

LEMMA HeldKept ==
  ASSUME SameLive
  PROVE  RecordHeld' = RecordHeld
  <1>1. Home \subseteq Phys /\ Home' \subseteq Phys
    BY HomePages
  <1>2. \A v : v \in RecordHeld' => v \in RecordHeld
    BY <1>1, HeldIs DEF SameLive
  <1>3. \A v : v \in RecordHeld => v \in RecordHeld'
    BY <1>1, HeldIs DEF SameLive
  <1> QED  BY <1>2, <1>3

LEMMA HeldFinalized ==
  ASSUME BaseInv, WriteFinalize
  PROVE  RecordHeld' = RecordHeld \cup {m_dummy_cfg}
  <1>1. PICK n : n = Len(recs[target])
    OBVIOUS
  <1>2. /\ Home' = Home /\ target \in Home
        /\ \A p \in Phys : p # target => Live(p)' = Live(p) /\ recs'[p] = recs[p]
        /\ \A i : i \in Live(target)' <=> i \in Live(target) \/ i = n
        /\ \A i \in Live(target) : recs'[target][i] = recs[target][i]
        /\ recs'[target][n].ver = m_dummy_cfg /\ Home \subseteq Phys /\ target' = target
    BY <1>1, FinalizeLive, HomePages
  <1>3. \A p \in Home : \A i : i \in Live(p)' <=> i \in Live(p) \/ (p = target /\ i = n)
    BY <1>2
  <1>4. \A p \in Home : \A i \in Live(p) : recs'[p][i] = recs[p][i]
    BY <1>2
  <1>5. \A v : v \in RecordHeld' => v \in RecordHeld \/ v = m_dummy_cfg
    BY <1>2, <1>3, <1>4, HeldIs
  <1>6. \A v : v \in RecordHeld => v \in RecordHeld'
    BY <1>2, <1>3, <1>4, HeldIs
  <1>7. m_dummy_cfg \in RecordHeld'
    BY <1>2, <1>3, HeldIs
  <1> QED  BY <1>5, <1>6, <1>7

LEMMA HeldFlagged ==
  ASSUME BaseInv, FlagDirty
  PROVE  RecordHeld' = RecordHeld \ {old}
  <1>1. /\ Home' = Home /\ Home \subseteq Phys
        /\ \A p \in Phys : \A i :
             /\ i \in Live(p)' <=> i \in Live(p) /\ recs[p][i].ver # old
             /\ i \in Live(p) /\ recs[p][i].ver # old => recs'[p][i] = recs[p][i]
    BY FlagLive, HomePages
  <1>2. \A v : v \in RecordHeld' => v \in RecordHeld /\ v # old
    BY <1>1, HeldIs
  <1>3. \A v : v \in RecordHeld /\ v # old => v \in RecordHeld'
    BY <1>1, HeldIs
  <1> QED  BY <1>2, <1>3

LEMMA HeldErased ==
  ASSUME BaseInv, GcErase
  PROVE  RecordHeld' = RecordHeld
  <1>1. PICK s, t : s = swap /\ t = target
    OBVIOUS
  <1>2. /\ t \in Data /\ s \notin Data /\ Home = Data /\ Home' = (Data \ {t}) \cup {s}
        /\ \A p \in Phys : p # t => recs'[p] = recs[p] /\ Live(p)' = Live(p)
        /\ \A k \in Live(s)' : \E i \in Live(t) : recs'[s][k].ver = recs[t][i].ver
        /\ \A i \in Live(t) : \E k \in Live(s)' : recs'[s][k].ver = recs[t][i].ver
        /\ Data \subseteq Phys
    BY <1>1, EraseLive, PagesAre DEF BaseInv
  <1>3. \A v : v \in RecordHeld' => v \in RecordHeld
    BY <1>2, HeldIs
  <1>4. \A v : v \in RecordHeld => v \in RecordHeld'
    <2> SUFFICES ASSUME NEW p \in Data, NEW i \in Live(p)
                 PROVE  recs[p][i].ver \in RecordHeld'
      BY <1>2, HeldIs
    <2>1. CASE p = t
      BY <1>2, <2>1, HeldIs
    <2>2. CASE p # t
      <3>1. p \in Home' /\ i \in Live(p)' /\ recs'[p][i] = recs[p][i]
        BY <1>2, <2>2
      <3> QED  BY <3>1, HeldIs
    <2> QED  BY <2>1, <2>2
  <1> QED  BY <1>3, <1>4

(* What becomes of the versions held, in every step.                       *)
LEMMA HeldStep ==
  ASSUME BaseInv, [Next]_vars
  PROVE  \/ WriteFinalize /\ RecordHeld' = RecordHeld \cup {m_dummy_cfg}
         \/ FlagDirty /\ RecordHeld' = RecordHeld \ {old}
         \/ ~WriteFinalize /\ ~FlagDirty /\ RecordHeld' = RecordHeld
  BY HeldFinalized, HeldFlagged, HeldErased, SameLiveStep, HeldKept

(* What is found is held, and older than what a store brings.              *)
LEMMA FoundIsHeld ==
  ASSUME BaseInv, IsFound, Home = Data
  PROVE  Found.ver \in RecordHeld
  BY FoundIs, HeldIs DEF BaseInv

LEMMA HeldIsOld ==
  ASSUME BaseInv
  PROVE  \A v \in RecordHeld : v \in Nat /\ v <= version
  <1>1. TypeOK /\ Home \subseteq Phys /\ \A p \in Phys : \A i \in 1..Len(recs[p]) : recs[p][i].ver <= version
    BY HomePages DEF BaseInv, LiveInv
  <1>2. \A p \in Home : \A i \in Live(p) : i \in 1..Len(recs[p]) /\ recs[p][i] \in Record
    BY <1>1, RecordsAre
  <1>3. \A p \in Home : \A i \in Live(p) : recs[p][i].ver \in Nat /\ recs[p][i].ver <= version
    BY <1>1, <1>2, RecordFields, Sizes
  <1> QED  BY <1>3, HeldIs

(* Where main waits for a step of fds.                                     *)
LEMMA OpTells ==
  ASSUME BaseInv
  PROVE  /\ op \in BootOps => pc = "init"
         /\ op \in WriteOps => pc \in {"first", "update"}
         /\ op \in GcOps => pc = "gc"
         /\ "none" \notin BootOps \cup WriteOps \cup GcOps
  <1>1. pc \in {"off", "init", "first", "main", "update", "gc"} /\ PhaseInv
    BY DEF BaseInv, TypeOK
  <1>2. \A o \in BootOps : o \notin WriteOps /\ o \notin GcOps /\ o # "none"
    BY Zenon DEF BootOps, WriteOps, GcOps, CopyOps
  <1>3. \A o \in WriteOps : o \notin GcOps /\ o # "none"
    BY Zenon DEF WriteOps, GcOps, CopyOps
  <1>4. "none" \notin GcOps
    BY Zenon DEF GcOps, CopyOps
  <1>5. \A o \in {"none", "begin", "body", "finalize", "done"} : o = "none" \/ o \in WriteOps
    BY Zenon DEF WriteOps
  <1>6. /\ pc = "off" => op = "none"
        /\ pc = "init" => op \in BootOps \/ op = "none"
        /\ pc = "first" => op = "none" \/ op \in WriteOps
        /\ pc = "main" => op = "none"
        /\ pc = "update" => op \in WriteOps \/ op = "none"
        /\ pc = "gc" => op \in GcOps \/ op = "none"
    BY <1>1, <1>5, Zenon DEF PhaseInv
  <1> QED  BY <1>1, <1>2, <1>3, <1>4, <1>6, Zenon

(* What main sees of the steps that only tidy up: nothing.                 *)
Unseen ==
  /\ RecordHeld' = RecordHeld /\ RecordPhase' = RecordPhase /\ RecordConfig' = RecordConfig
  /\ confirmed' = confirmed /\ cut' = cut

LEMMA UnseenStutters == Unseen => UNCHANGED ConfigStore!vars
  BY DEF Unseen, ConfigStore!vars

LEMMA BootUnseen ==
  ASSUME BaseInv, RecordHeld' = RecordHeld,
         TagSwap \/ TagData \/ EraseSwap \/ PromoteSwap \/ Initialized \/ Boot
  PROVE  Unseen
  <1>1. confirmed' = confirmed /\ cut' = cut
    BY Zenon DEF TagSwap, TagData, EraseSwap, PromoteSwap, Initialized, Boot, history
  <1>2. op \in BootOps \/ Boot
    BY Zenon DEF TagSwap, TagData, EraseSwap, PromoteSwap, Initialized, BootOps
  <1>3. pc' = pc \/ Boot
    BY Zenon DEF TagSwap, TagData, EraseSwap, PromoteSwap, Initialized, main
  <1>4. pc \in {"off", "init"} /\ pc' \in {"off", "init"}
    BY <1>2, <1>3, OpTells DEF Boot
  <1> QED  BY <1>1, <1>4 DEF Unseen, RecordPhase, RecordConfig

LEMMA WriteUnseen ==
  ASSUME BaseInv, RecordHeld' = RecordHeld, WriteBegin \/ WriteBody
  PROVE  Unseen
  <1>1. /\ op \in {"begin", "body"} /\ op' \in {"body", "finalize"}
        /\ UNCHANGED <<pc, flags, m_dummy_cfg, confirmed, cut>>
    BY DEF WriteBegin, WriteBody, main, history
  <1>2. pc \in {"first", "update"}
    BY <1>1, OpTells DEF WriteOps
  <1> QED  BY <1>1, <1>2 DEF Unseen, RecordPhase, RecordConfig, Starves

LEMMA CollectionUnseen ==
  ASSUME BaseInv, RecordHeld' = RecordHeld,
         GcNextPage \/ GcDone \/ GcCopy \/ GcCopied \/ GcErase \/ GcPromote \/ GcTagSwap
  PROVE  Unseen
  <1>1. op \in GcOps /\ (op' \in GcOps \/ (op' = "none" /\ "gc" \in flags'))
    <2>1. CASE GcNextPage \/ GcCopy \/ GcCopied \/ GcErase
      BY <2>1, Zenon DEF GcNextPage, GcCopy, GcCopied, GcErase, GcOps, CopyOps
    <2>2. CASE GcPromote \/ GcTagSwap
      BY <2>2, Zenon DEF GcPromote, GcTagSwap, GcOps
    <2>3. CASE GcDone
      <3>1. op \in GcOps /\ op' = "none" /\ flags' = flags \cup {"gc"}
        BY <2>3, Zenon DEF GcDone, GcOps
      <3> QED  BY <3>1
    <2> QED  BY <2>1, <2>2, <2>3
  <1>2. UNCHANGED <<main, history>>
    BY Zenon DEF GcNextPage, GcDone, GcCopy, GcCopied, GcErase, GcPromote, GcTagSwap
  <1>3. pc = "gc" /\ op # "none"
    BY <1>1, OpTells
  <1>4. \A o \in GcOps : o \notin {"none", "flag", "done"}
    BY Zenon DEF GcOps, CopyOps
  <1> QED
    BY <1>1, <1>2, <1>3, <1>4 DEF Unseen, RecordPhase, RecordConfig, Starves, main, history

LEMMA WaitUnseen ==
  ASSUME BaseInv, RecordHeld' = RecordHeld, FirstWritten \/ Updated
  PROVE  Unseen
  <1>1. /\ op = "none" /\ op' = "none" /\ pc' = "main" /\ m_dummy_cfg' = m_dummy_cfg
        /\ confirmed' = confirmed /\ cut' = cut
        /\ pc = "first" \/ (pc = "update" /\ "update" \in flags)
    BY DEF FirstWritten, Updated, work, history, BaseInv, PhaseInv
  <1> QED  BY <1>1 DEF Unseen, RecordPhase, RecordConfig, Starves

(* A reset is seen where main has a configuration.                         *)
LEMMA ResetSeen ==
  ASSUME BaseInv, RecordHeld' = RecordHeld, pc # "off", ResetEffect
  PROVE  Unseen \/ ConfigStore!Crash
  <1>1. /\ pc' = "off" /\ cut' = (cut \/ op = "flag") /\ confirmed' = confirmed
        /\ RecordPhase' = "off" /\ RecordConfig' = None
    BY DEF ResetEffect, RecordPhase, RecordConfig
  <1>2. CASE RecordPhase = "off"
    <2>1. op # "flag"
      <3>1. op = "flag" => pc \in {"first", "update"}
        BY OpTells DEF WriteOps
      <3> QED  BY <1>2, <3>1 DEF RecordPhase, Starves
    <2>2. cut' = cut
      BY <1>1, <2>1 DEF BaseInv, TypeOK
    <2> QED  BY <1>1, <1>2, <2>2 DEF Unseen, RecordConfig
  <1>3. CASE RecordPhase # "off"
    <2>1. RecordPhase = "dropping" <=> op = "flag"
      <3>1. op = "flag" => pc # "main"
        BY DEF BaseInv, PhaseInv
      <3> QED  BY <1>3, <3>1 DEF RecordPhase
    <2> QED
      BY <1>1, <1>3, <2>1 DEF ConfigStore!Crash, ConfigStore!None, None, RecordConfig
  <1> QED  BY <1>2, <1>3

(* A time-out leaves main waiting for what does not come.                  *)
LEMMA TimeOutSeen ==
  ASSUME BaseInv, RecordHeld' = RecordHeld, TimesOut
  PROVE  ConfigStore!Crash
  <1>1. /\ pc \in {"update", "gc"} /\ op # "none" /\ op # "done" /\ op' = "none"
        /\ pc' = pc /\ flags' = flags /\ m_dummy_cfg' = m_dummy_cfg /\ confirmed' = confirmed
        /\ cut' = (cut \/ op = "flag")
    BY Zenon DEF TimesOut, main
  <1>2. pc \notin flags
    BY <1>1 DEF BaseInv, PhaseInv
  <1>3. RecordPhase' = "off" /\ RecordConfig' = None
    BY <1>1, <1>2 DEF RecordPhase, RecordConfig, Starves
  <1>4. RecordPhase # "off" /\ (RecordPhase = "dropping" <=> op = "flag")
    BY <1>1 DEF RecordPhase, Starves
  <1> QED  BY <1>1, <1>3, <1>4 DEF ConfigStore!Crash, ConfigStore!None, None

LEMMA FinalizeSeen ==
  ASSUME BaseInv, RecordHeld' = RecordHeld \cup {m_dummy_cfg}, WriteFinalize
  PROVE  ConfigStore!Add
  <1>1. /\ op = "finalize" /\ op' = IF old = None THEN "done" ELSE "flag"
        /\ UNCHANGED <<pc, flags, m_dummy_cfg, confirmed, cut>>
    BY DEF WriteFinalize, main, history
  <1>2. \/ pc = "first" /\ old = None /\ RecordHeld = {}
        \/ pc = "update" /\ old # None /\ RecordHeld # {}
    <2>1. pc \in {"first", "update"}
      BY <1>1, OpTells DEF WriteOps
    <2>2. pc = "update" => old \in Nat
      BY Sizes DEF BaseInv, PhaseInv
    <2> QED
      BY <1>1, <2>1, <2>2, NothingHeld DEF BaseInv, PhaseInv, LiveInv, None
  <1>3. RecordPhase = "adding" /\ RecordConfig = m_dummy_cfg
    BY <1>1, <1>2 DEF RecordPhase, RecordConfig, Starves
  <1>4. RecordPhase' = (IF RecordHeld = {} THEN "added" ELSE "dropping")
        /\ RecordConfig' = m_dummy_cfg
    BY <1>1, <1>2 DEF RecordPhase, RecordConfig, Starves
  <1> QED  BY <1>1, <1>3, <1>4 DEF ConfigStore!Add

LEMMA FlagSeen ==
  ASSUME BaseInv, RecordInv, RecordHeld' = RecordHeld \ {old}, FlagDirty
  PROVE  ConfigStore!Drop
  <1>1. /\ op = "flag" /\ op' = "done"
        /\ UNCHANGED <<pc, flags, m_dummy_cfg, confirmed, cut>>
    BY DEF FlagDirty, main, history
  <1>2. pc = "update" /\ old # m_dummy_cfg
    BY <1>1, NewIsLive DEF FlagDirty
  <1>3. old \in RecordHeld
    BY <1>1, <1>2 DEF RecordInv, Updating, WriteOps
  <1>4. RecordPhase = "dropping" /\ RecordPhase' = "added"
        /\ RecordConfig = m_dummy_cfg /\ RecordConfig' = m_dummy_cfg
    BY <1>1, <1>2 DEF RecordPhase, RecordConfig, Starves
  <1> QED  BY <1>1, <1>2, <1>3, <1>4 DEF ConfigStore!Drop

LEMMA DoneSeen ==
  ASSUME BaseInv, RecordHeld' = RecordHeld, WriteDone
  PROVE  ConfigStore!Confirm
  <1>1. /\ op = "done" /\ op' = "none" /\ confirmed' = m_dummy_cfg
        /\ flags' = flags \cup {IF old = None THEN "write" ELSE "update"}
        /\ UNCHANGED <<pc, m_dummy_cfg, cut>>
    BY DEF WriteDone, main
  <1>2. pc = "first" \/ (pc = "update" /\ "update" \in flags')
    <2>1. pc \in {"first", "update"}
      BY <1>1, OpTells DEF WriteOps
    <2>2. pc = "update" => old \in Nat
      BY Sizes DEF BaseInv, PhaseInv
    <2> QED  BY <1>1, <2>1, <2>2 DEF None
  <1>3. RecordPhase = "added" /\ RecordPhase' = "ready"
        /\ RecordConfig = m_dummy_cfg /\ RecordConfig' = m_dummy_cfg
    BY <1>1, <1>2 DEF RecordPhase, RecordConfig, Starves
  <1> QED  BY <1>1, <1>3 DEF ConfigStore!Confirm

LEMMA ReadSeen ==
  ASSUME BaseInv, RecordInv, RecordHeld' = RecordHeld, ReadConfig
  PROVE  ConfigStore!PowerOn \/ ConfigStore!First \/ Unseen
  <1>1. pc = "init" /\ op = "none"
    BY DEF ReadConfig, BaseInv, PhaseInv
  <1>2. Home = Data /\ (IsFound <=> HasLive)
    BY <1>1, AtRest DEF IsFound, HasLive, Data
  <1>3. RecordPhase = "off" /\ RecordConfig = None
    BY <1>1 DEF RecordPhase, RecordConfig
  <1>4. CASE IsFound /\ pc' = "main" /\ m_dummy_cfg' = Found.ver
             /\ UNCHANGED <<flash, ram, work, flags, version, history>>
    <2>1. RecordPhase' = "ready" /\ RecordConfig' = Found.ver
      BY <1>4 DEF RecordPhase, RecordConfig, Starves
    <2> QED
      BY <1>2, <1>3, <1>4, <2>1, FoundIsHeld DEF ConfigStore!PowerOn, history
  <1>5. CASE ~IsFound /\ ~NoSpace /\ pc' = "first" /\ Enqueue(None)
             /\ UNCHANGED <<flash, ram, flags, m_dummy_cfg, version, history>>
    <2>1. RecordPhase' = "adding" /\ RecordConfig' = 0
      BY <1>1, <1>5 DEF RecordPhase, RecordConfig, Starves, Enqueue, RecordInv
    <2> QED
      BY <1>2, <1>3, <1>5, <2>1, NothingHeld DEF ConfigStore!First, history
  <1>6. CASE ~IsFound /\ NoSpace /\ ResetEffect
    <2>1. Unseen \/ ConfigStore!Crash
      BY <1>1, <1>6, ResetSeen
    <2> QED  BY <1>3, <2>1 DEF ConfigStore!Crash
  <1> QED  BY <1>4, <1>5, <1>6 DEF ReadConfig

LEMMA StoreSeen ==
  ASSUME BaseInv, RecordHeld' = RecordHeld, Store
  PROVE  ConfigStore!Store
  <1>1. pc = "main" /\ m_dummy_cfg' = version + 1 /\ m_dummy_cfg' \in 0..MaxStores
    BY StoreVersions DEF Store
  <1>2. (op' = "begin" /\ pc' = "update") \/ (op' = "gc next" /\ pc' = "gc")
    BY Zenon DEF Store, Enqueue, StartGc
  <1>3. RecordPhase = "ready" /\ RecordPhase' = "adding" /\ RecordConfig' = m_dummy_cfg'
    <2>1. op' \notin {"none", "flag", "done"}
      BY <1>2, Zenon
    <2> QED  BY <1>1, <1>2, <2>1, Zenon DEF RecordPhase, RecordConfig, Starves
  <1>4. \A v \in RecordHeld : v < m_dummy_cfg'
    <2>1. version \in Nat
      BY Sizes DEF BaseInv, TypeOK
    <2> QED  BY <1>1, <2>1, HeldIsOld
  <1>5. UNCHANGED <<confirmed, cut>>
    BY DEF Store, history
  <1> QED  BY <1>1, <1>3, <1>4, <1>5 DEF ConfigStore!Store

LEMMA UpdateSeen ==
  ASSUME StoreInv, RecordHeld' = RecordHeld, UpdateAgain
  PROVE  ConfigStore!GiveUp \/ Unseen
  <1>1. pc = "gc" /\ "gc" \in flags /\ op = "none" /\ flags' = flags
        /\ m_dummy_cfg' = m_dummy_cfg /\ confirmed' = confirmed /\ cut' = cut
    BY DEF UpdateAgain, StoreInv, BaseInv, PhaseInv, history
  <1>2. RecordPhase = "adding" /\ RecordConfig = m_dummy_cfg
    BY <1>1 DEF RecordPhase, RecordConfig, Starves
  <1>3. CASE ~NoSpace /\ Enqueue(old) /\ pc' = "update"
    <2>1. RecordPhase' = "adding" /\ RecordConfig' = m_dummy_cfg
      BY <1>1, <1>3 DEF RecordPhase, RecordConfig, Starves, Enqueue
    <2> QED  BY <1>1, <1>2, <2>1 DEF Unseen
  <1>4. CASE NoSpace /\ pc' = "main" /\ UNCHANGED work
    <2>1. cut
      BY <1>1, <1>4 DEF StoreInv, RoomInv
    <2>2. RecordPhase' = "ready" /\ RecordConfig' = m_dummy_cfg
      BY <1>1, <1>4 DEF RecordPhase, RecordConfig, Starves, work
    <2> QED  BY <1>1, <1>2, <2>1, <2>2 DEF ConfigStore!GiveUp
  <1> QED  BY <1>3, <1>4 DEF UpdateAgain

(* What a store will drop is settled when it begins.                       *)
LEMMA UpdateGoesOn ==
  ASSUME BaseInv, [Next]_vars, Updating', ~Store
  PROVE  old' = old /\ Updating /\ ~FlagDirty
  <1>1. pc' = "gc" \/ (pc' = "update" /\ op' \notin {"none", "done"})
    BY OpTells DEF Updating, WriteOps
  <1>2. CASE TagSwap \/ TagData \/ EraseSwap \/ PromoteSwap \/ Initialized
    <2>1. op \in BootOps /\ pc' = pc
      BY <1>2, Zenon DEF TagSwap, TagData, EraseSwap, PromoteSwap, Initialized, BootOps, main
    <2> QED  BY <1>1, <2>1, OpTells
  <1>3. CASE WriteBegin \/ WriteBody \/ WriteFinalize
    <2>1. op \in {"begin", "body", "finalize"} /\ pc' = pc /\ old' = old
      BY <1>3 DEF WriteBegin, WriteBody, WriteFinalize, main
    <2> QED  BY <1>1, <2>1 DEF Updating, WriteOps, FlagDirty
  <1>4. CASE FlagDirty \/ WriteDone
    <2>1. op \in {"flag", "done"} /\ op' \in {"none", "done"} /\ pc' = pc
      BY <1>4 DEF FlagDirty, WriteDone, main
    <2> QED  BY <1>1, <2>1, OpTells DEF WriteOps
  <1>5. CASE GcNextPage \/ GcDone \/ GcCopy \/ GcCopied \/ GcErase \/ GcPromote \/ GcTagSwap
    <2>1. op \in GcOps /\ old' = old
      BY <1>5, Zenon DEF GcNextPage, GcDone, GcCopy, GcCopied, GcErase, GcPromote, GcTagSwap,
         GcOps, CopyOps
    <2>2. op # "flag"
      BY <2>1, Zenon DEF GcOps, CopyOps
    <2> QED  BY <2>1, <2>2, OpTells DEF Updating, FlagDirty
  <1>6. CASE Boot \/ ReadConfig \/ FirstWritten \/ Updated \/ Reset \/ Watchdog
    <2>1. pc' \in {"init", "main", "first", "off"}
      BY <1>6, Zenon DEF Boot, ReadConfig, FirstWritten, Updated, Reset, Watchdog, ResetEffect
    <2> QED  BY <1>1, <2>1
  <1>7. CASE UpdateAgain
    <2>1. pc = "gc" /\ old' = old
      BY <1>7 DEF UpdateAgain, Enqueue, work
    <2>2. op = "none"
      BY <1>7, <2>1 DEF BaseInv, PhaseInv, UpdateAgain
    <2> QED  BY <2>1, <2>2 DEF Updating, FlagDirty
  <1>8. CASE TimesOut
    <2>1. op' = "none" /\ pc' = pc /\ old' = old
      BY <1>8, Zenon DEF TimesOut, main
    <2>2. pc = "gc"
      BY <1>1, <2>1
    <2>3. op # "flag"
      BY <2>2, OpTells DEF WriteOps
    <2> QED  BY <2>1, <2>2, <2>3 DEF Updating, FlagDirty
  <1>9. CASE UNCHANGED vars
    <2>1. UNCHANGED <<pc, op, old>>
      BY <1>9 DEF vars, main, work
    <2>2. Updating /\ ~FlagDirty
      BY <2>1, Zenon DEF Updating, FlagDirty
    <2> QED  BY <2>1, <2>2
  <1> QED
    BY <1>2, <1>3, <1>4, <1>5, <1>6, <1>7, <1>8, <1>9, Zenon DEF Next, FdsStep, MainStep

(* The versions a store drops, and where a boot starts from.               *)
LEMMA RecordStep ==
  ASSUME BaseInv, RecordInv, [Next]_vars
  PROVE  RecordInv'
  <1>1. pc' = "init" => m_dummy_cfg' = 0
    <2>1. pc' = "init" => Boot \/ (pc = "init" /\ m_dummy_cfg' = m_dummy_cfg)
      <3>1. CASE FdsStep
        BY <3>1, Zenon DEF FdsStep, TagSwap, TagData, EraseSwap, PromoteSwap, Initialized,
           WriteBegin, WriteBody, WriteFinalize, FlagDirty, WriteDone, GcNextPage, GcDone,
           GcCopy, GcCopied, GcErase, GcPromote, GcTagSwap, main
      <3>2. CASE TimesOut \/ UNCHANGED vars
        BY <3>2, Zenon DEF TimesOut, vars, main
      <3>3. CASE ReadConfig \/ FirstWritten \/ UpdateAgain \/ Updated \/ Store \/ Reset \/ Watchdog
        BY <3>3, Zenon DEF ReadConfig, FirstWritten, UpdateAgain, Updated, Store, Reset, Watchdog,
           ResetEffect
      <3> QED  BY <3>1, <3>2, <3>3, Zenon DEF Next, MainStep
    <2> QED  BY <2>1 DEF RecordInv, Boot
  <1>2. ASSUME Updating'  PROVE old' \in RecordHeld'
    <2>1. CASE Store
      <3>1. old' = Found.ver /\ pc = "main"
        BY <2>1, Zenon DEF Store, Enqueue
      <3>2. op = "none"
        BY <3>1 DEF BaseInv, PhaseInv
      <3>3. IsFound /\ Home = Data
        BY <3>1, <3>2, AtRest
      <3>4. ~WriteFinalize /\ ~FlagDirty
        BY <3>2 DEF WriteFinalize, FlagDirty
      <3> QED  BY <3>1, <3>3, <3>4, FoundIsHeld, HeldStep
    <2>2. CASE ~Store
      <3>1. old' = old /\ Updating /\ ~FlagDirty
        BY <1>2, <2>2, UpdateGoesOn
      <3> QED  BY <3>1, HeldStep DEF RecordInv
    <2> QED  BY <2>1, <2>2
  <1> QED  BY <1>1, <1>2 DEF RecordInv

LEMMA InitRecord == Init => RecordInv /\ ConfigStore!Init
  <1> SUFFICES ASSUME Init  PROVE RecordInv /\ ConfigStore!Init
    OBVIOUS
  <1>1. RecordInv
    BY DEF Init, RecordInv, Updating
  <1>2. RecordHeld = {}
    <2>1. \A p \in Phys : Live(p) = {}
      BY DEF Init, Live
    <2> QED  BY <2>1, HomePages, NothingHeld DEF HasLive
  <1>3. RecordPhase = "off" /\ RecordConfig = None
    BY DEF Init, RecordPhase, RecordConfig
  <1> QED  BY <1>1, <1>2, <1>3 DEF Init, ConfigStore!Init, ConfigStore!None, None

(* Every step is one of ConfigRecord's, or is not seen.                    *)
LEMMA NextRecord ==
  ASSUME StoreInv, RecordInv, [Next]_vars
  PROVE  [ConfigStore!Next]_(ConfigStore!vars)
  <1>1. BaseInv
    BY DEF StoreInv
  <1>2. SUFFICES ConfigStore!Next \/ Unseen
    BY UnseenStutters
  <1>3. CASE WriteFinalize
    <2>1. ~FlagDirty
      BY <1>3 DEF WriteFinalize, FlagDirty
    <2> QED  BY <1>1, <1>3, <2>1, HeldStep, FinalizeSeen DEF ConfigStore!Next
  <1>4. CASE FlagDirty
    <2>1. ~WriteFinalize
      BY <1>4 DEF WriteFinalize, FlagDirty
    <2> QED  BY <1>1, <1>4, <2>1, HeldStep, FlagSeen DEF ConfigStore!Next
  <1>5. CASE ~WriteFinalize /\ ~FlagDirty
    <2>1. RecordHeld' = RecordHeld
      BY <1>1, <1>5, HeldStep
    <2>2. CASE TagSwap \/ TagData \/ EraseSwap \/ PromoteSwap \/ Initialized \/ Boot
      BY <1>1, <2>1, <2>2, BootUnseen
    <2>3. CASE WriteBegin \/ WriteBody
      BY <1>1, <2>1, <2>3, WriteUnseen
    <2>4. CASE GcNextPage \/ GcDone \/ GcCopy \/ GcCopied \/ GcErase \/ GcPromote \/ GcTagSwap
      BY <1>1, <2>1, <2>4, CollectionUnseen
    <2>5. CASE FirstWritten \/ Updated
      BY <1>1, <2>1, <2>5, WaitUnseen
    <2>6. CASE Reset \/ Watchdog
      <3>1. pc # "off" /\ ResetEffect
        BY <2>6 DEF Reset, Watchdog, Starves
      <3> QED  BY <1>1, <2>1, <3>1, ResetSeen DEF ConfigStore!Next
    <2>7. CASE TimesOut
      BY <1>1, <2>1, <2>7, TimeOutSeen DEF ConfigStore!Next
    <2>8. CASE WriteDone
      BY <1>1, <2>1, <2>8, DoneSeen DEF ConfigStore!Next
    <2>9. CASE ReadConfig
      BY <1>1, <2>1, <2>9, ReadSeen DEF ConfigStore!Next
    <2>10. CASE Store
      BY <1>1, <2>1, <2>10, StoreSeen DEF ConfigStore!Next
    <2>11. CASE UpdateAgain
      BY <1>1, <2>1, <2>11, UpdateSeen DEF ConfigStore!Next
    <2>12. CASE UNCHANGED vars
      BY <2>12 DEF vars, flash, ram, work, main, history, Unseen, RecordHeld, RecordPhase,
         RecordConfig, Home, Live, Erased, Starves
    <2> QED
      BY <1>5, <2>2, <2>3, <2>4, <2>5, <2>6, <2>7, <2>8, <2>9, <2>10, <2>11, <2>12, Zenon
      DEF Next, FdsStep, MainStep
  <1> QED  BY <1>3, <1>4, <1>5

(* Three pages with tags, torn records and collections implement one       *)
(* record: for every page size and number of stores, and wherever resets   *)
(* and time-outs fall, no step but a store's changes which versions a boot *)
(* may find, a store adds the new one before it drops the old, and only    *)
(* what was so stored is reported as stored.                               *)
THEOREM ImplementsRecord == Spec => RecordSpec
  <1>1. Init => StoreInv /\ RecordInv /\ ConfigStore!Init
    BY InitStore, InitRecord
  <1>2. StoreInv /\ RecordInv /\ [Next]_vars => StoreInv' /\ RecordInv'
    BY StoreStep, RecordStep DEF StoreInv
  <1>3. StoreInv /\ RecordInv /\ [Next]_vars => [ConfigStore!Next]_(ConfigStore!vars)
    BY NextRecord
  <1> QED  BY <1>1, <1>2, <1>3, PTL DEF Spec, RecordSpec, ConfigStore!Spec

-----------------------------------------------------------------------------
(* What the record keeps, whoever was cut: nothing held is newer than what *)
(* is being stored, and that is held from then on.                         *)
LatestInv ==
  /\ RecordHeld \subseteq Int /\ RecordConfig \in Int /\ confirmed \in Int
  /\ RecordPhase \in {"adding", "dropping", "added"} =>
       \A v \in RecordHeld : v <= RecordConfig
  /\ RecordPhase \in {"dropping", "added"} => RecordConfig \in RecordHeld
  /\ LatestHeld

LEMMA LatestStep ==
  ASSUME LatestInv, [ConfigStore!Next]_(ConfigStore!vars)
  PROVE  LatestInv'
  <1> USE DEF LatestInv, LatestHeld
  <1>1. CASE ConfigStore!PowerOn
    BY <1>1 DEF ConfigStore!PowerOn
  <1>2. CASE ConfigStore!First
    BY <1>2 DEF ConfigStore!First
  <1>3. CASE ConfigStore!Store
    BY <1>3, Sizes DEF ConfigStore!Store
  <1>4. CASE ConfigStore!Add
    BY <1>4 DEF ConfigStore!Add
  <1>5. CASE ConfigStore!Drop
    BY <1>5 DEF ConfigStore!Drop
  <1>6. CASE ConfigStore!Confirm
    BY <1>6 DEF ConfigStore!Confirm
  <1>7. CASE ConfigStore!GiveUp
    BY <1>7 DEF ConfigStore!GiveUp
  <1>8. CASE ConfigStore!Crash
    BY <1>8 DEF ConfigStore!Crash, ConfigStore!None
  <1>9. CASE UNCHANGED ConfigStore!vars
    BY <1>9 DEF ConfigStore!vars
  <1> QED
    BY <1>1, <1>2, <1>3, <1>4, <1>5, <1>6, <1>7, <1>8, <1>9 DEF ConfigStore!Next

(* Wherever a reset or a time-out falls, in an update, a collection or the *)
(* boot that cleans up after one: the flash can be initialised again, what *)
(* main finds is a whole record, the version fds last reported as stored,  *)
(* or a later one, is held, and main finds no earlier one, unless an       *)
(* update was left with both its records.                                  *)
THEOREM ConfigurationIsStored == Spec => []Stored
  <1>1. Spec => []StoreInv
    BY InitStore, StoreStep, PTL DEF Spec
  <1>2. ConfigStore!Init => LatestInv
    BY DEF ConfigStore!Init, ConfigStore!None, None, LatestInv, LatestHeld
  <1>3. Spec => []LatestInv
    BY <1>2, LatestStep, ImplementsRecord, PTL DEF RecordSpec, ConfigStore!Spec
  <1>4. StoreInv /\ LatestInv => Stored
    BY StoredHolds DEF LatestInv
  <1> QED  BY <1>1, <1>3, <1>4, PTL
=============================================================================
