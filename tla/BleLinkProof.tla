---------------------------- MODULE BleLinkProof -----------------------------
(***************************************************************************)
(* Proofs about BleLink: what the application believes of the link and of  *)
(* its subscriber is true whenever no event is waiting.  While events are  *)
(* waiting it is not yet true; the invariant says what the waiting events  *)
(* will make of it.                                                        *)
(***************************************************************************)
EXTENDS BleLink, TLAPS

Waiting == 1..Len(evq)
IsConnected(e) == e \in {"connected_ok", "connected_bad"}
IsWrite(e) == e \in {"enable", "disable"}

(* A connected event comes first and a disconnected event last.            *)
Ordered ==
  /\ evq \in Seq(Events) /\ link \in {"none", "up", "closing"}
  /\ \A i \in Waiting : IsConnected(evq[i]) => i = 1
  /\ \A i \in Waiting : evq[i] = "disconnected" => i = Len(evq) /\ link = "none"

(* With neither of the two waiting the application knows the link; a       *)
(* connected event that waits alone belongs to a link.                     *)
Known ==
  (\A i \in Waiting : ~IsConnected(evq[i]) /\ evq[i] # "disconnected") =>
    /\ link # "none" => handle = TRUE
    /\ link = "up" => g_AppConnectFlag = 1
    /\ link = "none" => handle = FALSE /\ g_AppConnectFlag = 0

Belongs ==
  (\A i \in Waiting : evq[i] # "disconnected") =>
    \A i \in Waiting : IsConnected(evq[i]) => link # "none"

TrackInv == Ordered /\ Known /\ Belongs

(* Only a pairing request, or the first access to a CCCD the peer has not  *)
(* written yet, can make the SoftDevice forget.                            *)
Remembered ==
  /\ asked => cccd # "missing"
  /\ ~paired /\ asked => cccd = "on"
  /\ ~paired => \A i \in Waiting : evq[i] # "pairing"
  /\ ~paired => \A i \in Waiting : evq[i] = "attributes" => cccd = "missing"
  /\ \A i, j \in Waiting : evq[i] = "attributes" /\ evq[j] = "attributes" => i = j

(* The last write waiting, or with none waiting the flag, is what the peer *)
(* asked for.                                                              *)
Heard ==
  /\ \A i \in Waiting :
       IsWrite(evq[i]) /\ (\A j \in Waiting : j > i => ~IsWrite(evq[j])) =>
         /\ evq[i] = "enable" => asked
         /\ evq[i] = "disable" => ~asked
  /\ (\A i \in Waiting : ~IsWrite(evq[i])) /\ asked => is_notification_enabled

SubscriberInv == evq \in Seq(Events) /\ Remembered /\ Heard

-----------------------------------------------------------------------------
LEMMA RaiseFacts ==
  ASSUME evq \in Seq(Events), NEW e \in Events, Raise(e)
  PROVE  /\ evq' \in Seq(Events) /\ Len(evq') = Len(evq) + 1 /\ evq'[Len(evq) + 1] = e
         /\ \A i \in 1..Len(evq) : evq'[i] = evq[i]
  BY DEF Raise

LEMMA QuietFacts ==
  ASSUME evq \in Seq(Events), evq # <<>>, Quiet
  PROVE  /\ evq' \in Seq(Events) /\ Len(evq) > 0 /\ Len(evq') = Len(evq) - 1
         /\ \A i \in 1..Len(evq') : evq'[i] = evq[i + 1]
         /\ Head(evq) = evq[1]
  BY DEF Quiet

LEMMA ResetFacts ==
  ASSUME NEW why, Reset(why)
  PROVE  /\ link' = "none" /\ handle' = FALSE /\ g_AppConnectFlag' = 0
         /\ evq' = <<>> /\ asked' = FALSE /\ paired' = FALSE /\ cause' = why
  BY DEF Reset

-----------------------------------------------------------------------------
(* What the application believes of the link.                              *)

LEMMA TrackInit == Init => TrackInv
<1> SUFFICES ASSUME Init PROVE TrackInv
  OBVIOUS
<1>1. evq \in Seq(Events) /\ Len(evq) = 0
  BY DEF Init
<1>2. link = "none" /\ handle = FALSE /\ g_AppConnectFlag = 0
  BY DEF Init
<1> QED
  BY <1>1, <1>2 DEF TrackInv, Ordered, Known, Belongs, Waiting

LEMMA TrackReset ==
  ASSUME link' = "none", handle' = FALSE, g_AppConnectFlag' = 0, evq' = <<>>
  PROVE  TrackInv'
<1>1. evq' \in Seq(Events) /\ Len(evq') = 0
  OBVIOUS
<1> QED
  BY <1>1 DEF TrackInv, Ordered, Known, Belongs, Waiting

(* A link that is up may start to close, with or without its idle timer.   *)
LEMMA TrackClose ==
  ASSUME TrackInv, UNCHANGED <<evq, handle>>,
         link' = link \/ (link = "up" /\ link' = "closing"),
         g_AppConnectFlag' = g_AppConnectFlag \/ (g_AppConnectFlag' = 0 /\ link' # "up")
  PROVE  TrackInv'
  BY DEF TrackInv, Ordered, Known, Belongs, Waiting

LEMMA TrackRaise ==
  ASSUME TrackInv, link # "none", NEW e \in Events, Raise(e),
         ~IsConnected(e), e # "disconnected",
         UNCHANGED <<link, handle, g_AppConnectFlag>>
  PROVE  TrackInv'
<1>1. evq \in Seq(Events)
  BY DEF TrackInv, Ordered
<1>2. /\ evq' \in Seq(Events) /\ Len(evq') = Len(evq) + 1 /\ evq'[Len(evq) + 1] = e
      /\ \A i \in 1..Len(evq) : evq'[i] = evq[i]
  BY <1>1, RaiseFacts
<1>3. Ordered'
  BY <1>1, <1>2 DEF TrackInv, Ordered, Waiting
<1>4. Known'
  BY <1>1, <1>2 DEF TrackInv, Known, Waiting
<1>5. Belongs'
  BY <1>1, <1>2 DEF TrackInv, Belongs, Waiting
<1> QED
  BY <1>3, <1>4, <1>5 DEF TrackInv

LEMMA TrackQuiet ==
  ASSUME TrackInv, evq # <<>>, Quiet, ~IsConnected(Head(evq)), Head(evq) # "disconnected",
         link' = link \/ (link = "up" /\ link' = "closing"),
         UNCHANGED <<handle, g_AppConnectFlag>>
  PROVE  TrackInv'
<1>1. evq \in Seq(Events)
  BY DEF TrackInv, Ordered
<1>2. /\ evq' \in Seq(Events) /\ Len(evq) > 0 /\ Len(evq') = Len(evq) - 1
      /\ \A i \in 1..Len(evq') : evq'[i] = evq[i + 1]
      /\ Head(evq) = evq[1]
  BY <1>1, QuietFacts
<1>3. Ordered'
  BY <1>1, <1>2 DEF TrackInv, Ordered, Waiting
<1>4. Known'
  <2> SUFFICES ASSUME \A i \in 1..Len(evq') : ~IsConnected(evq'[i]) /\ evq'[i] # "disconnected"
               PROVE  /\ link' # "none" => handle' = TRUE
                      /\ link' = "up" => g_AppConnectFlag' = 1
                      /\ link' = "none" => handle' = FALSE /\ g_AppConnectFlag' = 0
    BY DEF Known, Waiting
  <2>1. ASSUME NEW i \in Waiting
        PROVE  ~IsConnected(evq[i]) /\ evq[i] # "disconnected"
    <3>1. CASE i = 1
      BY <1>2, <3>1
    <3>2. CASE i # 1
      <4>1. i - 1 \in 1..Len(evq') /\ evq'[i - 1] = evq[i]
        BY <1>1, <1>2, <2>1, <3>2 DEF Waiting
      <4> QED
        BY <4>1
    <3> QED
      BY <3>1, <3>2
  <2> QED
    BY <2>1 DEF TrackInv, Known
<1>5. Belongs'
  BY <1>1, <1>2, <1>3 DEF TrackInv, Ordered, Belongs, Waiting
<1> QED
  BY <1>3, <1>4, <1>5 DEF TrackInv

LEMMA TrackConnected ==
  ASSUME TrackInv, NEW e, IsConnected(e), NEW ok, OnConnected(e, ok)
  PROVE  TrackInv'
<1>1. evq \in Seq(Events) /\ evq # <<>> /\ Quiet
  BY DEF TrackInv, Ordered, OnConnected, Handles
<1>2. /\ evq' \in Seq(Events) /\ Len(evq) > 0 /\ Len(evq') = Len(evq) - 1
      /\ \A i \in 1..Len(evq') : evq'[i] = evq[i + 1]
      /\ Head(evq) = evq[1]
  BY <1>1, QuietFacts
<1>3. evq[1] = e /\ handle' = TRUE /\ g_AppConnectFlag' = 1 /\ link' = link
  BY <1>2 DEF OnConnected, Handles, air
<1>4. Ordered'
  BY <1>1, <1>2, <1>3 DEF TrackInv, Ordered, Waiting
<1>5. Known'
  <2> SUFFICES ASSUME \A i \in 1..Len(evq') : evq'[i] # "disconnected"
               PROVE  link # "none"
    BY <1>3 DEF Known, Waiting
  <2>1. ASSUME NEW i \in Waiting
        PROVE  evq[i] # "disconnected"
    <3>1. CASE i = 1
      BY <1>3, <3>1 DEF IsConnected
    <3>2. CASE i # 1
      <4>1. i - 1 \in 1..Len(evq') /\ evq'[i - 1] = evq[i]
        BY <1>1, <1>2, <2>1, <3>2 DEF Waiting
      <4> QED
        BY <4>1
    <3> QED
      BY <3>1, <3>2
  <2>2. 1 \in Waiting
    BY <1>1, <1>2 DEF Waiting
  <2> QED
    BY <1>3, <2>1, <2>2 DEF TrackInv, Belongs
<1>6. Belongs'
  BY <1>1, <1>2, <1>3, <1>4 DEF TrackInv, Ordered, Belongs, Waiting
<1> QED
  BY <1>4, <1>5, <1>6 DEF TrackInv

LEMMA TrackDisconnected ==
  ASSUME TrackInv, OnDisconnected
  PROVE  TrackInv'
<1>1. evq \in Seq(Events) /\ evq # <<>> /\ Quiet
  BY DEF TrackInv, Ordered, OnDisconnected, Handles
<1>2. /\ evq' \in Seq(Events) /\ Len(evq) > 0 /\ Len(evq') = Len(evq) - 1
      /\ Head(evq) = evq[1]
  BY <1>1, QuietFacts
<1>3. evq[1] = "disconnected" /\ 1 \in Waiting
  BY <1>1, <1>2 DEF OnDisconnected, Handles, Waiting
<1>4. Len(evq) = 1 /\ link = "none"
  BY <1>3 DEF TrackInv, Ordered
<1>5. evq' = <<>>
  BY <1>2, <1>4
<1> QED
  BY <1>4, <1>5, TrackReset DEF OnDisconnected, air

LEMMA TrackLinkComesOrGoes ==
  ASSUME TrackInv, Connect \/ PeerHangsUp \/ LinkEnds
  PROVE  TrackInv'
<1>1. evq \in Seq(Events)
  BY DEF TrackInv, Ordered
<1>2. CASE Connect
  <2>1. PICK e \in {"connected_ok", "connected_bad"} : Raise(e)
    BY <1>2 DEF Connect
  <2>2. link' = "up" /\ e \in Events
    BY <1>2, <2>1 DEF Connect, Events
  <2>3. /\ evq' \in Seq(Events) /\ Len(evq') = Len(evq) + 1 /\ evq'[Len(evq) + 1] = e
    BY <1>1, <2>1, <2>2, RaiseFacts
  <2>4. Len(evq) = 0
    BY <1>2 DEF Connect
  <2>5. /\ evq'[1] = e /\ IsConnected(e) /\ e # "disconnected"
        /\ 1 \in Waiting' /\ \A i \in Waiting' : i = 1
    BY <2>1, <2>3, <2>4 DEF Waiting, IsConnected
  <2>6. Ordered'
    BY <2>2, <2>3, <2>5 DEF Ordered
  <2>7. Known' /\ Belongs'
    BY <2>2, <2>5 DEF Known, Belongs
  <2> QED
    BY <2>6, <2>7 DEF TrackInv
<1>3. CASE PeerHangsUp \/ LinkEnds
  <2>1. link # "none" /\ link' = "none" /\ Raise("disconnected")
    BY <1>3 DEF PeerHangsUp, LinkEnds, LinkGone
  <2>2. /\ evq' \in Seq(Events) /\ Len(evq') = Len(evq) + 1 /\ evq'[Len(evq) + 1] = "disconnected"
        /\ \A i \in 1..Len(evq) : evq'[i] = evq[i]
    BY <1>1, <2>1, RaiseFacts DEF Events
  <2>3. \A i \in 1..Len(evq) : evq[i] # "disconnected"
    BY <2>1 DEF TrackInv, Ordered, Waiting
  <2>4. ~IsConnected("disconnected")
    BY DEF IsConnected
  <2>6. Ordered'
    BY <1>1, <2>1, <2>2, <2>3, <2>4 DEF TrackInv, Ordered, Waiting
  <2>5. Known' /\ Belongs'
    BY <1>1, <2>2 DEF Known, Belongs, Waiting
  <2> QED
    BY <2>5, <2>6 DEF TrackInv
<1> QED
  BY <1>2, <1>3

LEMMA TrackPeer ==
  ASSUME TrackInv, PeerSends \/ PeerAccesses \/ PeerWritesCccd \/ PeerPairs \/ GattTimeout
  PROVE  TrackInv'
<1>1. /\ link = "up" /\ UNCHANGED <<link, handle, g_AppConnectFlag>>
      /\ \E e \in Events : Raise(e) /\ ~IsConnected(e) /\ e # "disconnected"
  <2>1. CASE PeerSends
    BY <2>1 DEF PeerSends, air, app, Events, IsConnected
  <2>2. CASE PeerAccesses
    BY <2>2 DEF PeerAccesses, air, app, Events, IsConnected
  <2>3. CASE PeerWritesCccd
    BY <2>3 DEF PeerWritesCccd, air, app, Events, IsConnected
  <2>4. CASE PeerPairs
    BY <2>4 DEF PeerPairs, air, app, Events, IsConnected
  <2>5. CASE GattTimeout
    BY <2>5 DEF GattTimeout, air, app, Events, IsConnected
  <2> QED
    BY <2>1, <2>2, <2>3, <2>4, <2>5
<1> QED
  BY <1>1, TrackRaise

LEMMA TrackHandle ==
  ASSUME TrackInv, Handle
  PROVE  TrackInv'
<1>1. CASE OnConnected("connected_ok", TRUE) \/ OnConnected("connected_bad", FALSE)
  BY <1>1, TrackConnected DEF IsConnected
<1>2. CASE OnDisconnected
  BY <1>2, TrackDisconnected
<1>3. CASE OnData
  BY <1>3, TrackQuiet DEF OnData, Handles, IsConnected, air
<1>4. CASE OnCccd
  BY <1>4, TrackQuiet DEF OnCccd, Handles, IsConnected, air, app
<1>5. CASE OnParams("params_ok", TRUE) \/ OnParams("params_bad", FALSE)
  BY <1>5, TrackQuiet DEF OnParams, Handles, IsConnected, air, app
<1>6. CASE OnAttributes
  <2>1. CASE link # "up" /\ Reset("event")
    BY <2>1, ResetFacts, TrackReset
  <2>2. CASE Quiet /\ UNCHANGED <<air, hvn, app>>
    BY <1>6, <2>2, TrackQuiet DEF OnAttributes, Handles, IsConnected, air, app
  <2> QED
    BY <1>6, <2>1, <2>2 DEF OnAttributes
<1>7. CASE OnGattTimeout
  <2>1. CASE link # "up" /\ Reset("event")
    BY <2>1, ResetFacts, TrackReset
  <2>2. CASE Disconnecting /\ Quiet /\ UNCHANGED app
    BY <1>7, <2>2, TrackQuiet DEF OnGattTimeout, Disconnecting, Handles, IsConnected, app
  <2> QED
    BY <1>7, <2>1, <2>2 DEF OnGattTimeout, DisconnectChecked
<1> QED
  BY <1>1, <1>2, <1>3, <1>4, <1>5, <1>6, <1>7 DEF Handle

LEMMA TrackTimers ==
  ASSUME TrackInv, Tick \/ ParamsRequest \/ ParamsFailed \/ Watchdog \/ Send
  PROVE  TrackInv'
<1>1. CASE Tick
  <2>1. UNCHANGED <<evq, handle>>
    BY <1>1 DEF Tick, SecondPasses
  <2>2. CASE Cut
    BY <2>1, <2>2, TrackClose DEF Cut, TrackInv, Ordered
  <2>3. CASE UNCHANGED <<link, g_AppConnectFlag>>
    BY <2>1, <2>3, TrackClose
  <2> QED
    BY <1>1, <2>2, <2>3 DEF Tick
<1>2. CASE ParamsRequest
  <2>1. CASE link # "up" /\ Reset("params")
    BY <2>1, ResetFacts, TrackReset
  <2>2. CASE UNCHANGED <<air, evq, app>>
    BY <2>2, TrackClose DEF air, app
  <2> QED
    BY <1>2, <2>1, <2>2 DEF ParamsRequest, BusyIsIgnored
<1>3. CASE ParamsFailed
  <2>1. CASE link # "up" /\ Reset("params")
    BY <2>1, ResetFacts, TrackReset
  <2>2. CASE Disconnecting /\ UNCHANGED <<evq, app>>
    BY <2>2, TrackClose DEF Disconnecting, app
  <2> QED
    BY <1>3, <2>1, <2>2 DEF ParamsFailed, DisconnectChecked
<1>4. CASE Watchdog
  BY <1>4, ResetFacts, TrackReset DEF Watchdog
<1>5. CASE Send
  <2>1. CASE Reset("send")
    BY <2>1, ResetFacts, TrackReset
  <2>2. CASE UNCHANGED <<air, evq, app>>
    BY <2>2, TrackClose DEF air, app
  <2> QED
    BY <1>5, <2>1, <2>2 DEF Send
<1> QED
  BY <1>1, <1>2, <1>3, <1>4, <1>5

LEMMA TrackStep ==
  ASSUME TrackInv, [Next]_vars
  PROVE  TrackInv'
<1>1. CASE UNCHANGED vars
  BY <1>1, TrackClose DEF vars, air, app
<1>2. CASE RangeChanges
  BY <1>2, TrackClose DEF RangeChanges, app
<1>3. CASE Notified
  BY <1>3, TrackClose DEF Notified, air, app
<1> QED
  BY <1>1, <1>2, <1>3, TrackPeer, TrackLinkComesOrGoes, TrackHandle, TrackTimers
  DEF Next, Air

LEMMA TrackHolds == TrackInv => LinkTracked
<1> SUFFICES ASSUME TrackInv, evq = <<>>
             PROVE  /\ handle = (link # "none")
                    /\ link = "up" => g_AppConnectFlag = 1
                    /\ link = "none" => g_AppConnectFlag = 0
  BY DEF LinkTracked
<1>1. \A i \in Waiting : FALSE
  BY DEF Waiting
<1>2. /\ link # "none" => handle = TRUE
      /\ link = "up" => g_AppConnectFlag = 1
      /\ link = "none" => handle = FALSE /\ g_AppConnectFlag = 0
  BY <1>1 DEF TrackInv, Known
<1>3. handle = (link # "none")
  BY <1>2, Zenon
<1> QED
  BY <1>2, <1>3

(* Whenever no event is waiting, m_conn_handle is valid exactly while      *)
(* there is a link and the idle timer watches every link that is up, for   *)
(* every choice of the times and of the number of events that may wait.    *)
THEOREM LinkIsTracked == Spec => []LinkTracked
<1>1. Spec => []TrackInv
  BY TrackInit, TrackStep, PTL DEF Spec
<1> QED
  BY <1>1, TrackHolds, PTL

-----------------------------------------------------------------------------
(* What the service and the SoftDevice know of the subscriber.             *)

Subscriber == <<cccd, is_notification_enabled, asked, paired>>

LEMMA SubscriberReset ==
  ASSUME evq' = <<>>, asked' = FALSE, paired' = FALSE
  PROVE  SubscriberInv'
<1>1. evq' \in Seq(Events) /\ \A i \in Waiting' : FALSE
  BY DEF Waiting
<1> QED
  BY <1>1 DEF SubscriberInv, Remembered, Heard

LEMMA SubscriberInit == Init => SubscriberInv
<1> SUFFICES ASSUME Init PROVE SubscriberInv
  OBVIOUS
<1>1. evq \in Seq(Events) /\ \A i \in Waiting : FALSE
  BY DEF Init, Waiting
<1> QED
  BY <1>1 DEF Init, SubscriberInv, Remembered, Heard

LEMMA SubscriberSame ==
  ASSUME SubscriberInv, UNCHANGED <<evq, Subscriber>>
  PROVE  SubscriberInv'
  BY DEF SubscriberInv, Remembered, Heard, Waiting, Subscriber

LEMMA SubscriberRaise ==
  ASSUME SubscriberInv, NEW e \in Events, Raise(e),
         ~IsWrite(e), e # "attributes", e # "pairing", UNCHANGED Subscriber
  PROVE  SubscriberInv'
<1>1. evq \in Seq(Events)
  BY DEF SubscriberInv
<1>2. /\ evq' \in Seq(Events) /\ Len(evq') = Len(evq) + 1 /\ evq'[Len(evq) + 1] = e
      /\ \A i \in 1..Len(evq) : evq'[i] = evq[i]
  BY <1>1, RaiseFacts
<1>3. Remembered'
  BY <1>1, <1>2 DEF SubscriberInv, Remembered, Waiting, Subscriber
<1>4. Heard'
  BY <1>1, <1>2 DEF SubscriberInv, Heard, Waiting, Subscriber
<1> QED
  BY <1>2, <1>3, <1>4 DEF SubscriberInv

LEMMA SubscriberPeer ==
  ASSUME SubscriberInv, PeerAccesses \/ PeerWritesCccd \/ PeerPairs
  PROVE  SubscriberInv'
<1>1. evq \in Seq(Events)
  BY DEF SubscriberInv
<1>2. ASSUME NEW e \in Events, Raise(e)
      PROVE  /\ evq' \in Seq(Events) /\ Len(evq') = Len(evq) + 1 /\ evq'[Len(evq) + 1] = e
             /\ \A i \in 1..Len(evq) : evq'[i] = evq[i]
  BY <1>1, <1>2, RaiseFacts
<1>3. CASE PeerAccesses
  <2>1. /\ Raise("attributes") /\ cccd = "missing" /\ UNCHANGED Subscriber
        /\ \A i \in 1..Len(evq) : evq[i] # "attributes"
    BY <1>1, <1>3 DEF PeerAccesses, gatts, peer, Subscriber
  <2>2. /\ evq' \in Seq(Events) /\ Len(evq') = Len(evq) + 1
        /\ evq'[Len(evq) + 1] = "attributes" /\ \A i \in 1..Len(evq) : evq'[i] = evq[i]
    BY <1>2, <2>1 DEF Events
  <2>3. Remembered'
    BY <1>1, <2>1, <2>2 DEF SubscriberInv, Remembered, Waiting, Subscriber
  <2>4. Heard'
    BY <1>1, <2>1, <2>2 DEF SubscriberInv, Heard, Waiting, Subscriber, IsWrite
  <2> QED
    BY <2>2, <2>3, <2>4 DEF SubscriberInv
<1>4. CASE PeerWritesCccd
  <2>1. /\ cccd # "missing" /\ UNCHANGED <<is_notification_enabled, paired>>
        /\ \/ Raise("enable") /\ cccd' = "on" /\ asked' = TRUE
           \/ Raise("disable") /\ cccd' = "off" /\ asked' = FALSE
    BY <1>4 DEF PeerWritesCccd
  <2>2. PICK e \in {"enable", "disable"} :
          /\ Raise(e)
          /\ e = "enable" => cccd' = "on" /\ asked' = TRUE
          /\ e = "disable" => cccd' = "off" /\ asked' = FALSE
    BY <2>1
  <2>3. /\ evq' \in Seq(Events) /\ Len(evq') = Len(evq) + 1
        /\ evq'[Len(evq) + 1] = e /\ \A i \in 1..Len(evq) : evq'[i] = evq[i]
    BY <1>2, <2>2 DEF Events
  <2>4. Remembered'
    BY <1>1, <2>1, <2>2, <2>3 DEF SubscriberInv, Remembered, Waiting
  <2>5. Heard'
    BY <1>1, <2>2, <2>3 DEF Heard, Waiting, IsWrite
  <2> QED
    BY <2>3, <2>4, <2>5 DEF SubscriberInv
<1>5. CASE PeerPairs
  <2>1. Raise("pairing") /\ paired' = TRUE
        /\ UNCHANGED <<cccd, is_notification_enabled, asked>>
    BY <1>5 DEF PeerPairs, gatts
  <2>2. /\ evq' \in Seq(Events) /\ Len(evq') = Len(evq) + 1
        /\ evq'[Len(evq) + 1] = "pairing" /\ \A i \in 1..Len(evq) : evq'[i] = evq[i]
    BY <1>2, <2>1 DEF Events
  <2>3. Remembered'
    BY <1>1, <2>1, <2>2 DEF SubscriberInv, Remembered, Waiting
  <2>4. Heard'
    BY <1>1, <2>1, <2>2 DEF SubscriberInv, Heard, Waiting, IsWrite
  <2> QED
    BY <2>2, <2>3, <2>4 DEF SubscriberInv
<1> QED
  BY <1>3, <1>4, <1>5

LEMMA SubscriberLink ==
  ASSUME SubscriberInv, Connect \/ PeerHangsUp \/ LinkEnds \/ PeerSends \/ GattTimeout
  PROVE  SubscriberInv'
<1>1. CASE Connect
  <2>1. PICK e \in {"connected_ok", "connected_bad"} : Raise(e)
    BY <1>1 DEF Connect
  <2>2. e \in Events /\ evq = <<>> /\ Len(evq) = 0 /\ cccd' = "missing" /\ asked' = FALSE
    BY <1>1, <2>1 DEF Connect, Events
  <2>3. /\ evq' \in Seq(Events) /\ Len(evq') = Len(evq) + 1 /\ evq'[Len(evq) + 1] = e
    BY <2>1, <2>2, RaiseFacts DEF SubscriberInv
  <2>4. \A i \in Waiting' : evq'[i] = e
    BY <2>2, <2>3 DEF Waiting
  <2> QED
    BY <2>1, <2>2, <2>3, <2>4 DEF SubscriberInv, Remembered, Heard, Waiting, IsWrite
<1>2. CASE PeerHangsUp \/ LinkEnds
  <2>1. Raise("disconnected") /\ UNCHANGED Subscriber
    BY <1>2 DEF PeerHangsUp, LinkEnds, LinkGone, gatts, peer, Subscriber
  <2> QED
    BY <2>1, SubscriberRaise DEF Events, IsWrite
<1>3. CASE PeerSends
  <2>1. PICK e \in {"data", "params_ok", "params_bad"} : Raise(e) /\ UNCHANGED Subscriber
    BY <1>3 DEF PeerSends, gatts, peer, Subscriber
  <2> QED
    BY <2>1, SubscriberRaise DEF Events, IsWrite
<1>4. CASE GattTimeout
  <2>1. Raise("gatt_timeout") /\ UNCHANGED Subscriber
    BY <1>4 DEF GattTimeout, gatts, peer, Subscriber
  <2> QED
    BY <2>1, SubscriberRaise DEF Events, IsWrite
<1> QED
  BY <1>1, <1>2, <1>3, <1>4

LEMMA RememberedQuiet ==
  ASSUME SubscriberInv, evq # <<>>, Quiet, UNCHANGED <<cccd, asked, paired>>
  PROVE  Remembered'
<1>1. evq \in Seq(Events)
  BY DEF SubscriberInv
<1>2. /\ evq' \in Seq(Events) /\ Len(evq) > 0 /\ Len(evq') = Len(evq) - 1
      /\ \A i \in 1..Len(evq') : evq'[i] = evq[i + 1]
  BY <1>1, QuietFacts
<1>3. \A i \in Waiting' : i + 1 \in Waiting /\ evq'[i] = evq[i + 1]
  BY <1>1, <1>2 DEF Waiting
<1>4. \A i, j \in Waiting' : i + 1 = j + 1 => i = j
  BY <1>2 DEF Waiting
<1> QED
  BY <1>3, <1>4 DEF SubscriberInv, Remembered

(* The writes that still wait, whatever event went before them.            *)
LEMMA HeardQuiet ==
  ASSUME SubscriberInv, evq # <<>>, Quiet, UNCHANGED asked,
         IsWrite(Head(evq)) => is_notification_enabled' = (Head(evq) = "enable"),
         ~IsWrite(Head(evq)) => UNCHANGED is_notification_enabled
  PROVE  Heard'
<1>1. evq \in Seq(Events)
  BY DEF SubscriberInv
<1>2. /\ evq' \in Seq(Events) /\ Len(evq) > 0 /\ Len(evq') = Len(evq) - 1
      /\ \A i \in 1..Len(evq') : evq'[i] = evq[i + 1]
      /\ Head(evq) = evq[1]
  BY <1>1, QuietFacts
<1>3. \A i \in Waiting' : i + 1 \in Waiting /\ evq'[i] = evq[i + 1]
  BY <1>1, <1>2 DEF Waiting
<1>4. \A j \in Waiting : j = 1 \/ (j - 1 \in Waiting' /\ evq[j] = evq'[j - 1])
  BY <1>1, <1>2 DEF Waiting
<1>5. ASSUME NEW i \in Waiting', IsWrite(evq'[i]),
             \A j \in Waiting' : j > i => ~IsWrite(evq'[j])
      PROVE  (evq'[i] = "enable" => asked') /\ (evq'[i] = "disable" => ~asked')
  <2>1. \A j \in Waiting : j > i + 1 => ~IsWrite(evq[j])
    <3> SUFFICES ASSUME NEW j \in Waiting, j > i + 1 PROVE ~IsWrite(evq[j])
      OBVIOUS
    <3>1. j - 1 \in Waiting' /\ evq[j] = evq'[j - 1] /\ j - 1 > i
      BY <1>1, <1>2, <1>4 DEF Waiting
    <3> QED
      BY <1>5, <3>1
  <2> QED
    BY <1>3, <1>5, <2>1 DEF SubscriberInv, Heard
<1>6. ASSUME \A i \in Waiting' : ~IsWrite(evq'[i]), asked'
      PROVE  is_notification_enabled'
  <2>1. \A j \in Waiting : j > 1 => ~IsWrite(evq[j])
    BY <1>1, <1>4, <1>6 DEF Waiting
  <2>2. 1 \in Waiting
    BY <1>1, <1>2 DEF Waiting
  <2>3. CASE IsWrite(evq[1])
    <3>1. evq[1] = "disable" => ~asked
      BY <2>1, <2>2, <2>3 DEF SubscriberInv, Heard
    <3>2. evq[1] = "enable"
      BY <1>6, <2>3, <3>1 DEF IsWrite
    <3>3. is_notification_enabled' = TRUE
      BY <1>2, <2>3, <3>2
    <3> QED
      BY <3>3
  <2>4. CASE ~IsWrite(evq[1])
    <3>1. \A j \in Waiting : ~IsWrite(evq[j])
      BY <2>1, <2>4 DEF Waiting
    <3>2. is_notification_enabled
      BY <1>6, <3>1 DEF SubscriberInv, Heard
    <3>3. UNCHANGED is_notification_enabled
      BY <1>2, <2>4
    <3> QED
      BY <3>2, <3>3
  <2> QED
    BY <2>3, <2>4
<1> QED
  BY <1>5, <1>6 DEF Heard

LEMMA SubscriberHandle ==
  ASSUME SubscriberInv, Handle
  PROVE  SubscriberInv'
<1>1. evq \in Seq(Events)
  BY DEF SubscriberInv
<1>2. ASSUME evq # <<>>, Quiet PROVE evq' \in Seq(Events)
  BY <1>1, <1>2, QuietFacts
<1>3. ASSUME evq # <<>>, Quiet, UNCHANGED Subscriber, ~IsWrite(Head(evq))
      PROVE  SubscriberInv'
  BY <1>2, <1>3, RememberedQuiet, HeardQuiet DEF SubscriberInv, Subscriber
<1>4. CASE OnConnected("connected_ok", TRUE) \/ OnConnected("connected_bad", FALSE)
  BY <1>3, <1>4 DEF OnConnected, Handles, IsWrite, gatts, peer, Subscriber
<1>5. CASE OnDisconnected
  BY <1>3, <1>5 DEF OnDisconnected, Handles, IsWrite, gatts, peer, Subscriber
<1>6. CASE OnData
  BY <1>3, <1>6 DEF OnData, Handles, IsWrite, gatts, peer, Subscriber
<1>7. CASE OnParams("params_ok", TRUE) \/ OnParams("params_bad", FALSE)
  BY <1>3, <1>7 DEF OnParams, Handles, IsWrite, gatts, peer, Subscriber
<1>8. CASE OnCccd
  <2>1. /\ evq # <<>> /\ Quiet /\ UNCHANGED <<cccd, asked, paired>>
        /\ IsWrite(Head(evq))
    BY <1>8 DEF OnCccd, Handles, IsWrite, gatts, peer
  <2>2. is_notification_enabled' = (Head(evq) = "enable")
    BY <1>8, <2>1, Zenon DEF OnCccd, Handles
  <2> QED
    BY <1>2, <2>1, <2>2, RememberedQuiet, HeardQuiet DEF SubscriberInv
<1>9. CASE OnAttributes
  <2>1. CASE Reset("event")
    BY <2>1, ResetFacts, SubscriberReset
  <2>2. CASE Quiet /\ cccd' = "off" /\ UNCHANGED <<is_notification_enabled, peer>>
    <3>1. evq # <<>> /\ Head(evq) \in {"attributes", "pairing"} /\ ~IsWrite(Head(evq))
      BY <1>9 DEF OnAttributes, Handles, IsWrite
    <3>2. Heard'
      BY <2>2, <3>1, HeardQuiet DEF peer
    <3>3. /\ evq' \in Seq(Events) /\ Len(evq) > 0 /\ Len(evq') = Len(evq) - 1
          /\ \A i \in 1..Len(evq') : evq'[i] = evq[i + 1]
          /\ Head(evq) = evq[1]
      BY <1>1, <2>2, <3>1, QuietFacts
    <3>4. /\ 1 \in Waiting /\ UNCHANGED <<asked, paired>>
          /\ \A i \in Waiting' : i + 1 \in Waiting /\ evq'[i] = evq[i + 1] /\ i + 1 # 1
      BY <1>1, <2>2, <3>3 DEF Waiting, peer
    <3>5. ~paired => evq[1] = "attributes" /\ ~asked
      BY <3>1, <3>3, <3>4 DEF SubscriberInv, Remembered
    <3>6. ~paired => \A i \in Waiting' : evq'[i] # "attributes" /\ evq'[i] # "pairing"
      BY <3>4, <3>5 DEF SubscriberInv, Remembered
    <3>7. \A i, j \in Waiting' : evq'[i] = "attributes" /\ evq'[j] = "attributes" => i = j
      <4>1. \A i, j \in Waiting' : i + 1 = j + 1 => i = j
        BY DEF Waiting
      <4> QED
        BY <3>4, <4>1 DEF SubscriberInv, Remembered
    <3>8. Remembered'
      BY <2>2, <3>4, <3>5, <3>6, <3>7 DEF Remembered
    <3> QED
      BY <3>2, <3>3, <3>8 DEF SubscriberInv
  <2> QED
    BY <1>9, <2>1, <2>2 DEF OnAttributes
<1>10. CASE OnGattTimeout
  <2>1. CASE Reset("event")
    BY <2>1, ResetFacts, SubscriberReset
  <2>2. CASE Quiet /\ UNCHANGED <<gatts, is_notification_enabled, peer>>
    BY <1>3, <1>10, <2>2 DEF OnGattTimeout, Handles, IsWrite, gatts, peer, Subscriber
  <2> QED
    BY <1>10, <2>1, <2>2 DEF OnGattTimeout, DisconnectChecked
<1> QED
  BY <1>4, <1>5, <1>6, <1>7, <1>8, <1>9, <1>10 DEF Handle

LEMMA SubscriberTimers ==
  ASSUME SubscriberInv, Tick \/ ParamsRequest \/ ParamsFailed \/ Watchdog \/ Send
  PROVE  SubscriberInv'
<1>1. CASE Tick
  BY <1>1, SubscriberSame DEF Tick, SecondPasses, gatts, peer, Subscriber
<1>2. CASE ParamsRequest
  <2>1. CASE Reset("params")
    BY <2>1, ResetFacts, SubscriberReset
  <2>2. CASE UNCHANGED <<gatts, evq, is_notification_enabled, peer>>
    BY <2>2, SubscriberSame DEF gatts, peer, Subscriber
  <2> QED
    BY <1>2, <2>1, <2>2 DEF ParamsRequest, BusyIsIgnored
<1>3. CASE ParamsFailed
  <2>1. CASE Reset("params")
    BY <2>1, ResetFacts, SubscriberReset
  <2>2. CASE UNCHANGED <<gatts, evq, is_notification_enabled, peer>>
    BY <2>2, SubscriberSame DEF gatts, peer, Subscriber
  <2> QED
    BY <1>3, <2>1, <2>2 DEF ParamsFailed, DisconnectChecked
<1>4. CASE Watchdog
  BY <1>4, ResetFacts, SubscriberReset DEF Watchdog
<1>5. CASE Send
  <2>1. CASE Reset("send")
    BY <2>1, ResetFacts, SubscriberReset
  <2>2. CASE UNCHANGED <<cccd, evq, is_notification_enabled, peer>>
    BY <2>2, SubscriberSame DEF peer, Subscriber
  <2> QED
    BY <1>5, <2>1, <2>2 DEF Send
<1> QED
  BY <1>1, <1>2, <1>3, <1>4, <1>5

LEMMA SubscriberStep ==
  ASSUME SubscriberInv, [Next]_vars
  PROVE  SubscriberInv'
<1>1. CASE UNCHANGED vars
  BY <1>1, SubscriberSame DEF vars, gatts, peer, Subscriber
<1>2. CASE RangeChanges
  BY <1>2, SubscriberSame DEF RangeChanges, gatts, peer, Subscriber
<1>3. CASE Notified
  BY <1>3, SubscriberSame DEF Notified, peer, Subscriber
<1> QED
  BY <1>1, <1>2, <1>3, SubscriberPeer, SubscriberLink, SubscriberHandle, SubscriberTimers
  DEF Next, Air

LEMMA SubscriberHolds == SubscriberInv => SubscriberServed
<1> SUFFICES ASSUME SubscriberInv, evq = <<>>, asked, ~paired
             PROVE  is_notification_enabled /\ cccd = "on"
  BY DEF SubscriberServed
<1>1. \A i \in Waiting : FALSE
  BY DEF Waiting
<1> QED
  BY <1>1 DEF SubscriberInv, Remembered, Heard

(* Once no event is waiting, a peer that turned notifications on and has   *)
(* not asked to pair is served by service and SoftDevice alike, in         *)
(* whatever order writes, accesses, resets and reconnections came.         *)
THEOREM SubscriberIsServed == Spec => []SubscriberServed
<1>1. Spec => []SubscriberInv
  BY SubscriberInit, SubscriberStep, PTL DEF Spec
<1> QED
  BY <1>1, SubscriberHolds, PTL

(* The steps that reset the chip.                                          *)
LEMMA ResetCauses ==
  ASSUME Next, cause' # "none"
  PROVE  \/ (OnAttributes \/ OnGattTimeout \/ ParamsRequest \/ ParamsFailed) /\ link # "up"
         \/ Watchdog
         \/ Send /\ SendFails /\ cause' = "send"
<1>1. ~Air
  BY DEF Air, Connect, PeerSends, PeerAccesses, PeerWritesCccd, PeerPairs, GattTimeout,
         RangeChanges, Notified, PeerHangsUp, LinkEnds, LinkGone
<1>2. Handle => (OnAttributes /\ link # "up") \/ (OnGattTimeout /\ link # "up")
  BY DEF Handle, OnConnected, OnDisconnected, OnData, OnCccd, OnParams, OnAttributes,
         OnGattTimeout, DisconnectChecked, Quiet
<1>3. ~Tick
  BY DEF Tick, SecondPasses
<1>4. ParamsRequest => link # "up"
  BY DEF ParamsRequest, BusyIsIgnored
<1>5. ParamsFailed => link # "up"
  BY DEF ParamsFailed, DisconnectChecked
<1>6. Send => SendFails /\ cause' = "send"
  BY ResetFacts DEF Send, SendRefused, SendRetried, SendQueued
<1> QED
  BY <1>1, <1>2, <1>3, <1>4, <1>5, <1>6 DEF Next

(* With the link up and the peer in range, nothing resets the chip but the *)
(* watchdog and a notification to a peer that never asked for one.         *)
THEOREM HealthyResets == Spec => HealthyReset
<1>1. ASSUME SubscriberInv, Next, cause' # "none", link = "up", heard
      PROVE  cause' = "watchdog" \/ (cause' = "send" /\ cccd = "missing" /\ ~asked)
  <2>1. CASE Watchdog
    BY <2>1, ResetFacts DEF Watchdog
  <2>2. CASE Send /\ SendFails /\ cause' = "send"
    <3>1. cccd = "missing"
      BY <1>1, <2>2 DEF SendFails
    <3>2. ~asked
      BY <1>1, <3>1 DEF SubscriberInv, Remembered
    <3> QED
      BY <2>2, <3>1, <3>2
  <2> QED
    BY <1>1, <2>1, <2>2, ResetCauses
<1>2. SubscriberInv /\ [Next]_vars =>
        [cause' # "none" /\ link = "up" /\ heard
           => cause' = "watchdog" \/ (cause' = "send" /\ cccd = "missing" /\ ~asked)]_vars
  BY <1>1
<1>3. Spec => []SubscriberInv
  BY SubscriberInit, SubscriberStep, PTL DEF Spec
<1> QED
  BY <1>2, <1>3, PTL DEF Spec, HealthyReset

-----------------------------------------------------------------------------
(* Types.  Each of the counters has a guard of its own that stops it: the  *)
(* idle count is cut at the limit, a second passes only below the          *)
(* supervision and watchdog timeouts, a request only below the maximum.    *)

LEMMA Limits ==
  /\ IdleLimit \in Nat /\ IdleLimit > 0 /\ SupTimeout \in Nat /\ SupTimeout > 0
  /\ WdtTimeout \in Nat /\ WdtTimeout > 0
  /\ FirstDelay \in Nat /\ NextDelay \in Nat /\ MaxUpdates \in Nat
  BY LinkAssumption

LEMMA TypeReset ==
  ASSUME NEW why \in Causes, Reset(why)
  PROVE  TypeOK'
<1>1. evq' \in Seq(Events)
  BY DEF Reset
<1>2. /\ heard' \in BOOLEAN /\ hvn' \in BOOLEAN /\ handle' \in BOOLEAN
      /\ is_notification_enabled' \in BOOLEAN /\ sending' \in BOOLEAN
      /\ asked' \in BOOLEAN /\ paired' \in BOOLEAN
  BY Zenon DEF Reset
<1> QED
  BY <1>1, <1>2, Limits DEF Reset, TypeOK

LEMMA TypeAir == ASSUME TypeOK, Air PROVE TypeOK'
<1>1. ASSUME NEW e \in Events, Raise(e) PROVE evq' \in Seq(Events)
  BY <1>1, RaiseFacts DEF TypeOK
<1>2. CASE Connect
  <2>1. /\ heard' \in BOOLEAN /\ hvn' \in BOOLEAN
        /\ asked' \in BOOLEAN /\ paired' \in BOOLEAN
    BY <1>2, Zenon DEF Connect
  <2>2. evq' \in Seq(Events)
    BY <1>1, <1>2 DEF Connect, Events
  <2> QED
    BY <1>2, <2>1, <2>2, Limits DEF Connect, TypeOK, app, params, sender
<1>3. CASE PeerSends
  BY <1>1, <1>3 DEF PeerSends, TypeOK, Events, air, gatts, app, params, sender, peer
<1>4. CASE PeerAccesses
  BY <1>1, <1>4 DEF PeerAccesses, TypeOK, Events, air, gatts, app, params, sender, peer
<1>5. CASE PeerWritesCccd
  BY <1>1, <1>5 DEF PeerWritesCccd, TypeOK, Events, air, app, params, sender
<1>6. CASE PeerPairs
  BY <1>1, <1>6 DEF PeerPairs, TypeOK, Events, air, gatts, app, params, sender
<1>7. CASE GattTimeout
  BY <1>1, <1>7 DEF GattTimeout, TypeOK, Events, air, gatts, app, params, sender, peer
<1>8. CASE RangeChanges
  <2>1. heard' \in BOOLEAN /\ silent' = 0
    BY <1>8 DEF RangeChanges, TypeOK
  <2> QED
    BY <1>8, <2>1, Limits DEF RangeChanges, TypeOK, gatts, app, params, sender, peer
<1>9. CASE Notified
  BY <1>9 DEF Notified, TypeOK, air, app, params, sender, peer
<1>10. CASE PeerHangsUp \/ LinkEnds
  BY <1>1, <1>10
  DEF PeerHangsUp, LinkEnds, LinkGone, TypeOK, Events, gatts, app, params, sender, peer
<1> QED
  BY <1>2, <1>3, <1>4, <1>5, <1>6, <1>7, <1>8, <1>9, <1>10 DEF Air

LEMMA TypeNegotiate ==
  ASSUME TypeOK, NEW ok, NEW count \in 0..MaxUpdates, Negotiate(ok, count)
  PROVE  update_count' \in 0..MaxUpdates /\ timer' \in 0..1 + FirstDelay + NextDelay
  BY Limits DEF Negotiate, TypeOK

LEMMA TypeHandle == ASSUME TypeOK, Handle PROVE TypeOK'
<1>1. ASSUME evq # <<>>, Quiet PROVE evq' \in Seq(Events) /\ cause' = "none"
  BY <1>1, QuietFacts DEF TypeOK, Quiet
<1>2. ASSUME NEW e, NEW ok, OnConnected(e, ok) PROVE TypeOK'
  <2>1. update_count' \in 0..MaxUpdates /\ timer' \in 0..1 + FirstDelay + NextDelay
    <3>1. 0 \in 0..MaxUpdates
      BY Limits
    <3> QED
      BY <1>2, <3>1, TypeNegotiate DEF OnConnected
  <2> QED
    BY <1>1, <1>2, <2>1, Limits DEF OnConnected, Handles, TypeOK, air, gatts, sender, peer
<1>3. CASE OnDisconnected
  <2>1. handle' \in BOOLEAN
    BY <1>3, Zenon DEF OnDisconnected
  <2> QED
    BY <1>1, <1>3, <2>1, Limits DEF OnDisconnected, Handles, TypeOK, air, gatts, sender, peer
<1>4. CASE OnData
  BY <1>1, <1>4, Limits DEF OnData, Handles, TypeOK, air, gatts, params, sender, peer
<1>5. CASE OnCccd
  <2>1. is_notification_enabled' \in BOOLEAN
    BY <1>5, Zenon DEF OnCccd, Handles
  <2>2. evq # <<>>
    BY <1>5 DEF OnCccd, Handles
  <2> QED
    BY <1>1, <1>5, <2>1, <2>2 DEF OnCccd, TypeOK, air, gatts, app, params, sender, peer
<1>6. ASSUME NEW e, NEW ok, OnParams(e, ok) PROVE TypeOK'
  <2>1. update_count' \in 0..MaxUpdates /\ timer' \in 0..1 + FirstDelay + NextDelay
    BY <1>6, TypeNegotiate DEF OnParams, TypeOK
  <2> QED
    BY <1>1, <1>6, <2>1 DEF OnParams, Handles, TypeOK, air, gatts, app, sender, peer
<1>7. CASE OnAttributes
  <2>1. CASE Reset("event")
    BY <2>1, TypeReset DEF Causes
  <2>2. CASE Quiet /\ cccd' = "off"
             /\ UNCHANGED <<air, hvn, app, is_notification_enabled, params, sender, peer>>
    BY <1>1, <1>7, <2>2 DEF OnAttributes, Handles, TypeOK, air, app, params, sender, peer
  <2> QED
    BY <1>7, <2>1, <2>2 DEF OnAttributes
<1>8. CASE OnGattTimeout
  <2>1. CASE Reset("event")
    BY <2>1, TypeReset DEF Causes
  <2>2. CASE Disconnecting /\ Quiet
             /\ UNCHANGED <<gatts, app, is_notification_enabled, params, sender, peer>>
    BY <1>1, <1>8, <2>2
    DEF OnGattTimeout, Disconnecting, Handles, TypeOK, gatts, app, params, sender, peer
  <2> QED
    BY <1>8, <2>1, <2>2 DEF OnGattTimeout, DisconnectChecked
<1> QED
  BY <1>2, <1>3, <1>4, <1>5, <1>6, <1>7, <1>8 DEF Handle

LEMMA TypeTimers ==
  ASSUME TypeOK, Tick \/ ParamsRequest \/ ParamsFailed \/ Watchdog
  PROVE  TypeOK'
<1>1. CASE Tick
  <2>1. silent' \in 0..SupTimeout
    BY <1>1, Limits DEF Tick, DueDone, SecondPasses, TypeOK
  <2>2. spin' \in 0..WdtTimeout
    BY <1>1, Limits DEF Tick, DueDone, SecondPasses, Starved, TypeOK
  <2>3. timer' \in 0..1 + FirstDelay + NextDelay
    BY <1>1, Limits DEF Tick, SecondPasses, TypeOK
  <2>4. /\ link' \in {"none", "up", "closing"} /\ g_AppConnectFlag' \in 0..1
        /\ g_AppConnectTimeCount' \in 0..IdleLimit - 1
    BY <1>1, Limits DEF Tick, Cut, TypeOK
  <2> QED
    BY <1>1, <2>1, <2>2, <2>3, <2>4 DEF Tick, SecondPasses, TypeOK, gatts, peer
<1>2. CASE ParamsRequest
  <2>1. CASE Reset("params")
    BY <2>1, TypeReset DEF Causes
  <2>2. CASE /\ timer' = 0 /\ update_count' \in {update_count, update_count + 1}
             /\ cause' = "none"
             /\ UNCHANGED <<air, gatts, evq, app, is_notification_enabled, sender, peer>>
    <3>1. update_count' \in 0..MaxUpdates /\ timer' \in 0..1 + FirstDelay + NextDelay
      BY <1>2, <2>2, Limits DEF ParamsRequest, MayAsk, TypeOK
    <3> QED
      BY <2>2, <3>1 DEF TypeOK, air, gatts, app, sender, peer
  <2> QED
    BY <1>2, <2>1, <2>2 DEF ParamsRequest, BusyIsIgnored
<1>3. CASE ParamsFailed
  <2>1. CASE Reset("params")
    BY <2>1, TypeReset DEF Causes
  <2>2. CASE /\ Disconnecting /\ cause' = "none" /\ timer' = 0 /\ update_count' = 0
             /\ UNCHANGED <<gatts, evq, app, is_notification_enabled, sender, peer>>
    BY <2>2, Limits DEF Disconnecting, TypeOK, gatts, app, sender, peer
  <2> QED
    BY <1>3, <2>1, <2>2 DEF ParamsFailed, DisconnectChecked
<1>4. CASE Watchdog
  BY <1>4, TypeReset DEF Watchdog, Causes
<1> QED
  BY <1>1, <1>2, <1>3, <1>4

LEMMA TypeSend == ASSUME TypeOK, Send PROVE TypeOK'
<1>1. CASE Reset("send")
  BY <1>1, TypeReset DEF Causes
<1>2. CASE /\ SendRefused \/ SendRetried \/ SendQueued
           /\ UNCHANGED <<air, cccd, evq, app, is_notification_enabled, params, peer>>
  <2>1. spin' \in 0..WdtTimeout /\ cause' = "none"
    BY <1>2, Limits DEF SendRefused, SendRetried, SendQueued, SendEnded, TypeOK
  <2>2. sending' \in BOOLEAN
    BY <1>2, Zenon DEF SendRefused, SendRetried, SendQueued, SendEnded
  <2>3. hvn' \in BOOLEAN
    BY <1>2, Zenon DEF SendRefused, SendRetried, SendQueued, TypeOK
  <2> QED
    BY <1>2, <2>1, <2>2, <2>3 DEF TypeOK, air, app, params, peer
<1> QED
  BY <1>1, <1>2 DEF Send

LEMMA TypeStep == TypeOK /\ [Next]_vars => TypeOK'
<1>1. ASSUME TypeOK, UNCHANGED vars PROVE TypeOK'
  BY <1>1 DEF TypeOK, vars, air, gatts, app, params, sender, peer
<1> QED
  BY <1>1, TypeAir, TypeHandle, TypeTimers, TypeSend DEF Next

(* No count outruns its limit: not the seconds without data (a link is cut *)
(* at the limit and the count starts again), not the requests for other    *)
(* connection parameters, not the seconds the watchdog goes unfed.         *)
THEOREM TypeCorrect == Spec => []TypeOK
<1>1. Init => TypeOK
  <2> SUFFICES ASSUME Init PROVE TypeOK
    OBVIOUS
  <2>1. evq \in Seq(Events)
    BY DEF Init
  <2>2. /\ heard \in BOOLEAN /\ hvn \in BOOLEAN /\ handle \in BOOLEAN
        /\ is_notification_enabled \in BOOLEAN /\ sending \in BOOLEAN
        /\ asked \in BOOLEAN /\ paired \in BOOLEAN
    BY Zenon DEF Init
  <2> QED
    BY <2>1, <2>2, Limits DEF Init, TypeOK
<1> QED
  BY <1>1, TypeStep, PTL DEF Spec
=============================================================================
