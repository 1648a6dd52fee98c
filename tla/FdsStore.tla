------------------------------- MODULE FdsStore ------------------------------
(***************************************************************************)
(* The configuration in flash: my_fds.c on the SDK's fds.c.                *)
(*                                                                         *)
(* A record is updated by writing a new one and flagging the old one       *)
(* dirty; garbage collection copies what is live to the swap page, erases  *)
(* the page it came from, and lets the two trade places.  A reset may fall *)
(* between any two writes to flash, and fds_init takes up what it finds.   *)
(*                                                                         *)
(* An action is one operation on the flash, with the code up to the next.  *)
(* Erasing a page and writing a word are not cut in two.  Until main has   *)
(* started the SoftDevice flash operations are synchronous and succeed;    *)
(* from then on one may be given up as timed out.                          *)
(***************************************************************************)
EXTENDS Integers, Sequences, FiniteSets, FiniteSetsExt

CONSTANTS
  Slots,      \* records of a configuration that a page holds
  MaxStores   \* bound on the calls of fds_once_storage

ASSUME StoreAssumption == Slots \in Nat \ {0} /\ MaxStores \in Nat

Phys == 1..3    \* FDS_VIRTUAL_PAGES, one of them swap
None == -1

VARIABLES
  tag, recs,            \* flash: the tag of each page, the records on it
  pages, swap, can_gc,  \* m_pages, m_swap_page, and the pages worth collecting
  op,                   \* the step fds is to do next, or "none"
  target, old,          \* page written to or collected; version to be flagged dirty
  src, gcleft,          \* m_gc: records of target looked at; pages not yet looked at
  flags,                \* those of m_fds_..._flag that are set
  pc, m_dummy_cfg,      \* where main is; the version of the configuration in RAM
  version,              \* history: the last version handed to fds
  confirmed, cut        \* history: the last version fds reported as stored; an
                        \* update was left with both its records

flash == <<tag, recs>>
ram == <<pages, swap, can_gc>>
work == <<op, target, old, src, gcleft>>
main == <<pc, m_dummy_cfg, version>>
history == <<confirmed, cut>>
vars == <<flash, ram, work, flags, main, history>>

(* What header_check says of a record: a torn one lacks its file ID or its *)
(* record ID, a half one lacks data that its header promises.              *)
Record == [ver : 0..MaxStores, st : {"torn", "half", "valid", "dirty"}]
IsLive(r) == r.st \in {"half", "valid"}
Live(p) == {i \in DOMAIN recs[p] : IsLive(recs[p][i])}

(* fds_record_find: the pages in the order of m_pages, the first record of *)
(* a page.                                                                 *)
IsFound == pc # "off" /\ Live(pages[1]) \cup Live(pages[2]) # {}
FoundPage == IF Live(pages[1]) # {} THEN pages[1] ELSE pages[2]
Found == recs[FoundPage][Min(Live(FoundPage))]

-----------------------------------------------------------------------------
(* pages_init                                                              *)

Erased == {p \in Phys : tag[p] = "erased"}
Swaps == {p \in Phys : tag[p] = "swap"}
SwapPage == Min(IF Swaps # {} THEN Swaps ELSE Erased)

(* Physical order, but for a page that is erased before any swap page was  *)
(* met: it is taken for the swap page, and comes in where that one is met. *)
DataPages ==
  LET rest == Phys \ {SwapPage}
  IN  IF Min(rest) \in Erased /\ Max(rest) < SwapPage THEN <<Max(rest), Min(rest)>>
      ELSE <<Min(rest), Max(rest)>>

(* A slip: a swap page with records on it is always thrown away.           *)
FirstStepDiscards ==
  CASE Swaps = {}                          -> "tag swap"
    [] Swaps # {} /\ recs[SwapPage] # <<>> -> "erase swap"
    [] OTHER                               -> "tag data"

(* fds_init.  With nothing to do, "tag data" is over at once.              *)
FirstStep ==
  IF Swaps = {} THEN "tag swap"
  ELSE IF recs[SwapPage] = <<>> THEN "tag data"
  ELSE IF Erased # {} THEN "promote swap" ELSE "erase swap"

Boot ==
  /\ pc = "off" /\ Swaps \cup Erased # {}
  /\ pc' = "init" /\ m_dummy_cfg' = 0
  /\ swap' = SwapPage /\ pages' = DataPages
  /\ can_gc' = {p \in Phys \ {SwapPage} : Live(p) # DOMAIN recs[p]}
  /\ op' = FirstStep
  /\ UNCHANGED <<flash, target, old, src, gcleft, flags, version, history>>

(* init_execute                                                            *)
TagSwap ==
  /\ op = "tag swap" /\ op' = "tag data"
  /\ tag' = [tag EXCEPT ![swap] = "swap"]
  /\ UNCHANGED <<recs, ram, target, old, src, gcleft, flags, main, history>>

TagData ==
  /\ op = "tag data" /\ \E i \in 1..2 :
       /\ tag[pages[i]] = "erased" /\ \A j \in 1..(i - 1) : tag[pages[j]] # "erased"
       /\ tag' = [tag EXCEPT ![pages[i]] = "data"]
  /\ UNCHANGED <<recs, ram, work, flags, main, history>>

EraseSwap ==
  /\ op = "erase swap" /\ op' = "tag swap"
  /\ tag' = [tag EXCEPT ![swap] = "erased"] /\ recs' = [recs EXCEPT ![swap] = <<>>]
  /\ UNCHANGED <<ram, target, old, src, gcleft, flags, main, history>>

(* The swap page takes the place of p among the data pages.                *)
Trade(p) ==
  /\ pages' = [i \in 1..2 |-> IF pages[i] = p THEN swap ELSE pages[i]]
  /\ swap' = p /\ can_gc' = can_gc \ {p}

(* m_gc.cur_page as pages_init leaves it: the last erased page of m_pages. *)
Candidate == IF tag[pages[2]] = "erased" THEN pages[2] ELSE pages[1]

PromoteSwap ==
  /\ op = "promote swap" /\ op' = "tag swap"
  /\ tag' = [tag EXCEPT ![swap] = "data"]
  /\ Trade(Candidate)
  /\ UNCHANGED <<recs, target, old, src, gcleft, flags, main, history>>

Initialized ==
  /\ op = "tag data" /\ Erased = {} /\ op' = "none"
  /\ flags' = flags \cup {"init"}
  /\ UNCHANGED <<flash, ram, target, old, src, gcleft, main, history>>

-----------------------------------------------------------------------------
(* write_execute                                                           *)

(* A slip: room for one record more than there is.                         *)
HasSpaceOneMore(p) == Len(recs[p]) <= Slots

HasSpace(p) == Len(recs[p]) < Slots

NoSpace == \A i \in 1..2 : ~HasSpace(pages[i])

(* write_enqueue: the first data page with space.                          *)
Enqueue(v) ==
  /\ op' = "begin" /\ old' = v
  /\ target' = IF HasSpace(pages[1]) THEN pages[1] ELSE pages[2]
  /\ UNCHANGED <<src, gcleft>>

LastTo(p, st) == [recs EXCEPT ![p][Len(recs[p])].st = st]

(* The key and the length first, the record ID and the data, and the file  *)
(* ID last.                                                                *)
WriteBegin ==
  /\ op = "begin" /\ op' = "body"
  /\ recs' = [recs EXCEPT ![target] = Append(@, [ver |-> m_dummy_cfg, st |-> "torn"])]
  /\ UNCHANGED <<tag, ram, target, old, src, gcleft, flags, main, history>>

WriteBody ==
  /\ op = "body" /\ op' = "finalize"
  /\ UNCHANGED <<flash, ram, target, old, src, gcleft, flags, main, history>>

WriteFinalize ==
  /\ op = "finalize" /\ op' = IF old = None THEN "done" ELSE "flag"
  /\ recs' = LastTo(target, "valid")
  /\ UNCHANGED <<tag, ram, target, old, src, gcleft, flags, main, history>>

Flagged(p) ==
  [i \in DOMAIN recs[p] |->
     IF recs[p][i].ver = old /\ IsLive(recs[p][i]) THEN [recs[p][i] EXCEPT !.st = "dirty"]
     ELSE recs[p][i]]

FlagDirty ==
  /\ op = "flag" /\ op' = "done"
  /\ recs' = [p \in Phys |-> Flagged(p)]
  /\ can_gc' = can_gc \cup {p \in Phys : Flagged(p) # recs[p]}
  /\ UNCHANGED <<tag, pages, swap, target, old, src, gcleft, flags, main, history>>

(* The event, and fds_evt_handler.                                         *)
WriteDone ==
  /\ op = "done" /\ op' = "none"
  /\ flags' = flags \cup {IF old = None THEN "write" ELSE "update"}
  /\ confirmed' = m_dummy_cfg
  /\ UNCHANGED <<flash, ram, target, old, src, gcleft, main, cut>>

-----------------------------------------------------------------------------
(* gc_execute.  No record is open: each is closed when it has been read.   *)

StartGc ==
  /\ op' = "gc next" /\ gcleft' = Phys \ {swap}
  /\ UNCHANGED <<target, src>>

Collectable(i) == pages[i] \in gcleft \cap can_gc

GcNextPage ==
  /\ op = "gc next" /\ op' = "gc find"
  /\ \E i \in 1..2 :
       /\ Collectable(i) /\ \A j \in 1..(i - 1) : ~Collectable(j)
       /\ target' = pages[i] /\ src' = 0
       /\ gcleft' = gcleft \ {pages[j] : j \in 1..i}
  /\ UNCHANGED <<flash, ram, old, flags, main, history>>

GcDone ==
  /\ op = "gc next" /\ \A i \in 1..2 : ~Collectable(i)
  /\ op' = "none" /\ flags' = flags \cup {"gc"}
  /\ UNCHANGED <<flash, ram, target, old, src, gcleft, main, history>>

(* A slip: the search goes on one record too far.                          *)
UncopiedSkips == {i \in Live(target) : i > src + 1}

Uncopied == {i \in Live(target) : i > src}

(* One write of header and data: what is there of it, the record's header  *)
(* may already say, or not.                                                *)
GcCopy ==
  /\ op = "gc find" /\ Uncopied # {} /\ op' = "gc copying"
  /\ src' = Min(Uncopied)
  /\ \E st \in {"torn", "half"} :
       recs' = [recs EXCEPT ![swap] = Append(@, [ver |-> recs[target][src'].ver, st |-> st])]
  /\ UNCHANGED <<tag, ram, target, old, gcleft, flags, main, history>>

GcCopied ==
  /\ op = "gc copying" /\ op' = "gc find"
  /\ recs' = LastTo(swap, "valid")
  /\ UNCHANGED <<tag, ram, target, old, src, gcleft, flags, main, history>>

GcErase ==
  /\ op = "gc find" /\ Uncopied = {} /\ op' = "gc promote"
  /\ tag' = [tag EXCEPT ![target] = "erased"] /\ recs' = [recs EXCEPT ![target] = <<>>]
  /\ Trade(target) /\ target' = swap
  /\ UNCHANGED <<old, src, gcleft, flags, main, history>>

GcPromote ==
  /\ op = "gc promote" /\ op' = "gc tag"
  /\ tag' = [tag EXCEPT ![target] = "data"]
  /\ UNCHANGED <<recs, ram, target, old, src, gcleft, flags, main, history>>

GcTagSwap ==
  /\ op = "gc tag" /\ op' = "gc next"
  /\ tag' = [tag EXCEPT ![swap] = "swap"]
  /\ UNCHANGED <<recs, ram, target, old, src, gcleft, flags, main, history>>

-----------------------------------------------------------------------------
(* my_fds.c                                                                *)

ResetEffect ==
  /\ pc' = "off" /\ op' = "none" /\ flags' = {}
  /\ pages' = <<1, 2>> /\ swap' = 3 /\ can_gc' = {}
  /\ target' = 1 /\ old' = None /\ src' = 0 /\ gcleft' = {}
  /\ m_dummy_cfg' = 0 /\ cut' = (cut \/ op = "flag")
  /\ UNCHANGED <<flash, version, confirmed>>

(* read_systerm_config_from_fds, once wait_for_fds_ready is over.  Flash   *)
(* without space for the first record is an error APP_ERROR_CHECK resets   *)
(* for.                                                                    *)
ReadConfig ==
  /\ pc = "init" /\ "init" \in flags
  /\ \/ /\ IsFound /\ pc' = "main" /\ m_dummy_cfg' = Found.ver
        /\ UNCHANGED <<flash, ram, work, flags, version, history>>
     \/ /\ ~IsFound /\ ~NoSpace /\ pc' = "first" /\ Enqueue(None)
        /\ UNCHANGED <<flash, ram, flags, m_dummy_cfg, version, history>>
     \/ ~IsFound /\ NoSpace /\ ResetEffect

FirstWritten ==
  /\ pc = "first" /\ op = "none" /\ pc' = "main"
  /\ UNCHANGED <<flash, ram, work, flags, m_dummy_cfg, version, history>>

(* fds_once_storage, and my_fds_once_write up to its first wait.  A record *)
(* is always found here: main is not reached without one.                  *)
Store ==
  /\ pc = "main" /\ version < MaxStores
  /\ version' = version + 1 /\ m_dummy_cfg' = version + 1
  /\ \/ /\ ~NoSpace /\ Enqueue(Found.ver)
        /\ flags' = flags \ {"update"} /\ pc' = "update"
     \/ /\ NoSpace /\ StartGc /\ old' = Found.ver
        /\ flags' = flags \ {"update", "gc"} /\ pc' = "gc"
  /\ UNCHANGED <<flash, ram, history>>

(* After wait_for_fds_gc the update is tried once more, of the record that *)
(* was found before.                                                       *)
UpdateAgain ==
  /\ pc = "gc" /\ "gc" \in flags
  /\ \/ ~NoSpace /\ Enqueue(old) /\ pc' = "update"
     \/ NoSpace /\ pc' = "main" /\ UNCHANGED work
  /\ UNCHANGED <<flash, ram, flags, m_dummy_cfg, version, history>>

Updated ==
  /\ pc = "update" /\ "update" \in flags /\ pc' = "main"
  /\ UNCHANGED <<flash, ram, work, flags, m_dummy_cfg, version, history>>

(* A flash operation is given up: of its event only success is looked at.  *)
TimesOut ==
  /\ pc \in {"update", "gc"} /\ op \notin {"none", "done", "gc next"}
  /\ op' = "none" /\ cut' = (cut \/ op = "flag")
  /\ UNCHANGED <<flash, ram, target, old, src, gcleft, flags, main, confirmed>>

Reset == pc # "off" /\ ResetEffect

(* A slip: whoever waits for an event feeds the watchdog.                  *)
StarvesNever == FALSE

(* main, which feeds it, waits for an event that does not come.            *)
Starves == pc \in {"update", "gc"} /\ op = "none" /\ pc \notin flags

Watchdog == Starves /\ ResetEffect

-----------------------------------------------------------------------------
Init ==
  /\ tag = [p \in Phys |-> "erased"] /\ recs = [p \in Phys |-> <<>>]
  /\ pages = <<1, 2>> /\ swap = 3 /\ can_gc = {}
  /\ op = "none" /\ target = 1 /\ old = None /\ src = 0 /\ gcleft = {}
  /\ flags = {} /\ pc = "off" /\ m_dummy_cfg = 0 /\ version = 0
  /\ confirmed = None /\ cut = FALSE

FdsStep ==
  \/ TagSwap \/ TagData \/ EraseSwap \/ PromoteSwap \/ Initialized
  \/ WriteBegin \/ WriteBody \/ WriteFinalize \/ FlagDirty \/ WriteDone
  \/ GcNextPage \/ GcDone \/ GcCopy \/ GcCopied \/ GcErase \/ GcPromote \/ GcTagSwap

MainStep == Boot \/ ReadConfig \/ FirstWritten \/ UpdateAgain \/ Updated

Next == FdsStep \/ MainStep \/ Store \/ TimesOut \/ Reset \/ Watchdog

Spec == Init /\ [][Next]_vars

(* Code runs on and the watchdog bites; nobody need store anything, and no *)
(* flash operation need fail.                                              *)
FairSpec == Spec /\ WF_vars(FdsStep) /\ WF_vars(MainStep) /\ WF_vars(Watchdog)

-----------------------------------------------------------------------------
Steps == {"none", "tag swap", "tag data", "erase swap", "promote swap", "begin", "body",
          "finalize", "flag", "done", "gc next", "gc find", "gc copying", "gc promote", "gc tag"}

TypeOK ==
  /\ tag \in [Phys -> {"erased", "data", "swap"}]
  /\ recs \in [Phys -> Seq(Record)] /\ \A p \in Phys : Len(recs[p]) <= Slots
  /\ pages \in [1..2 -> Phys] /\ swap \in Phys /\ {pages[1], pages[2], swap} = Phys
  /\ can_gc \subseteq Phys /\ op \in Steps
  /\ target \in Phys /\ old \in {None} \cup 0..MaxStores
  /\ src \in 0..Slots /\ gcleft \subseteq Phys
  /\ flags \subseteq {"init", "write", "update", "gc"}
  /\ pc \in {"off", "init", "first", "main", "update", "gc"}
  /\ m_dummy_cfg \in 0..MaxStores /\ version \in 0..MaxStores
  /\ confirmed \in {None} \cup 0..MaxStores /\ cut \in BOOLEAN

(* The pages whose records count, for a boot to come as well.              *)
Home == {p \in Phys : tag[p] = "data" \/ (tag[p] = "swap" /\ Erased # {})}

RecordHeld == UNION {{recs[p][i].ver : i \in Live(p)} : p \in Home}

(* Wherever a reset falls, in an update, in a collection or in the boot    *)
(* that cleans up after one: the flash can be initialised again, what main *)
(* finds is a whole record, and the configuration last reported as stored, *)
(* or a later one, is held.  Main finds no earlier one, unless an update   *)
(* was left with both its records: fds_record_find takes the first it      *)
(* meets.                                                                  *)
Stored ==
  /\ Swaps \cup Erased # {}
  /\ confirmed # None => \E v \in RecordHeld : v >= confirmed
  /\ pc = "main" =>
       /\ IsFound /\ Found.st = "valid"
       /\ ~cut => Found.ver = m_dummy_cfg /\ Found.ver >= confirmed

(* A call of my_fds_once_write comes to an end, or the chip to a reset:    *)
(* the loops of my_fds.c that wait for an event (my_fds.c:60, 103) end     *)
(* with success only, but the watchdog is not fed meanwhile.               *)
StoreEnds == pc \in {"update", "gc"} ~> pc \in {"main", "off"}

-----------------------------------------------------------------------------
(* Three pages implement the one record of ConfigRecord.                   *)

RecordPhase ==
  IF pc \in {"off", "init"} \/ Starves THEN "off"
  ELSE IF pc = "main" \/ (op = "none" /\ pc # "gc") THEN "ready"
  ELSE IF op = "flag" THEN "dropping"
  ELSE IF op = "done" THEN "added" ELSE "adding"

RecordConfig == IF RecordPhase = "off" THEN None ELSE m_dummy_cfg

ConfigStore == INSTANCE ConfigRecord WITH
  Versions <- 0..MaxStores, held <- RecordHeld, config <- RecordConfig,
  phase <- RecordPhase, doubt <- cut

(* No reset, time-out, collection or boot changes which versions a boot    *)
(* may find: only a store does, which adds the new one to the flash before *)
(* it drops the old, and reports what it has stored.                       *)
RecordSpec == ConfigStore!Spec
=============================================================================
