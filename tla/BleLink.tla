------------------------------- MODULE BleLink -------------------------------
(***************************************************************************)
(* The BLE module's side of the connection (my_ble.c, my_ble_uarts.c, the  *)
(* timer and watchdog of main.c, the SDK's ble_conn_params.c).  Events of  *)
(* the SoftDevice and app timers run at priority 6, each to its end.  The  *)
(* UART's handler, which sends notifications, runs at priority 7: it only  *)
(* goes on when no event is waiting, and while it retries, main, which     *)
(* feeds the watchdog, stands still.                                       *)
(*                                                                         *)
(* The SoftDevice is external: what its calls return and which events it   *)
(* raises is taken from its headers.  Time is counted in the seconds of    *)
(* my_timeout_handler.                                                     *)
(***************************************************************************)
EXTENDS Integers, Sequences

CONSTANTS
  IdleLimit,     \* 30: seconds without data before the link is cut
  SupTimeout,    \* 4: CONN_SUP_TIMEOUT, seconds of silence that end a link
  WdtTimeout,    \* 3: seconds the watchdog may go unfed
  FirstDelay,    \* 5: FIRST_CONN_PARAMS_UPDATE_DELAY
  NextDelay,     \* 30: NEXT_CONN_PARAMS_UPDATE_DELAY
  MaxUpdates,    \* 3: MAX_CONN_PARAMS_UPDATE_COUNT
  MaxEvents      \* bound on the events waiting

ASSUME LinkAssumption ==
  /\ {IdleLimit, SupTimeout, WdtTimeout, FirstDelay, NextDelay} \subseteq Nat \ {0}
  /\ MaxUpdates \in Nat /\ MaxEvents \in Nat

VARIABLES
  link,             \* SoftDevice: "none", "up", "closing"
  heard, silent,    \* the peer is in range; for how many seconds it was not
  cccd,             \* TX's notification setting: "missing", "off", "on"
  hvn,              \* the notification queue, of one place, is taken
  evq,              \* events not yet handled
  handle,           \* m_conn_handle is the link's, not BLE_CONN_HANDLE_INVALID
  g_AppConnectFlag, g_AppConnectTimeCount,
  is_notification_enabled,
  update_count, timer,   \* ble_conn_params: its count; 0 stopped, 1 due
  sending, spin,    \* the UART handler retries; for how many seconds
  asked, paired,    \* history of the link: the peer turned notifications on; it asked to pair
  cause             \* history: why the step before this state was a reset

air == <<link, heard, silent>>
gatts == <<cccd, hvn>>
app == <<handle, g_AppConnectFlag, g_AppConnectTimeCount>>
params == <<update_count, timer>>
sender == <<sending, spin>>
peer == <<asked, paired>>
vars == <<air, gatts, evq, app, is_notification_enabled, params, sender, peer, cause>>

Events == {"connected_ok", "connected_bad", "disconnected", "data", "enable", "disable",
           "attributes", "pairing", "params_ok", "params_bad", "gatt_timeout"}
Causes == {"send", "event", "params", "watchdog"}

Init ==
  /\ link = "none" /\ heard = TRUE /\ silent = 0
  /\ cccd = "missing" /\ hvn = FALSE /\ evq = <<>>
  /\ handle = FALSE /\ g_AppConnectFlag = 0 /\ g_AppConnectTimeCount = 0
  /\ is_notification_enabled = FALSE
  /\ update_count = 0 /\ timer = 0
  /\ sending = FALSE /\ spin = 0
  /\ asked = FALSE /\ paired = FALSE /\ cause = "none"

(* NVIC_SystemReset, or the watchdog's: everything starts afresh, and the  *)
(* module advertises again.                                                *)
Reset(why) ==
  /\ link' = "none" /\ heard' = TRUE /\ silent' = 0
  /\ cccd' = "missing" /\ hvn' = FALSE /\ evq' = <<>>
  /\ handle' = FALSE /\ g_AppConnectFlag' = 0 /\ g_AppConnectTimeCount' = 0
  /\ is_notification_enabled' = FALSE
  /\ update_count' = 0 /\ timer' = 0
  /\ sending' = FALSE /\ spin' = 0
  /\ asked' = FALSE /\ paired' = FALSE /\ cause' = why

-----------------------------------------------------------------------------
(* The peer and the air.  Advertising is on from boot and, by              *)
(* ble_advertising.c, from the disconnected event on.                      *)

Raise(e) == Len(evq) < MaxEvents /\ evq' = Append(evq, e)

Connect ==
  /\ link = "none" /\ evq = <<>>
  /\ link' = "up" /\ heard' = TRUE /\ silent' = 0
  /\ cccd' = "missing" /\ hvn' = FALSE
  /\ Raise("connected_ok") \/ Raise("connected_bad")
  /\ asked' = FALSE /\ paired' = FALSE /\ cause' = "none"
  /\ UNCHANGED <<app, is_notification_enabled, params, sender>>

(* Data, or new connection parameters, of its own accord or as an answer.  *)
PeerSends ==
  /\ link = "up" /\ heard
  /\ \E e \in {"data", "params_ok", "params_bad"} : Raise(e)
  /\ cause' = "none"
  /\ UNCHANGED <<air, gatts, app, is_notification_enabled, params, sender, peer>>

(* The first access to a CCCD waits for the application, and later ones of *)
(* the peer for it.                                                        *)
PeerAccesses ==
  /\ link = "up" /\ heard /\ cccd = "missing"
  /\ \A i \in DOMAIN evq : evq[i] # "attributes"
  /\ Raise("attributes") /\ cause' = "none"
  /\ UNCHANGED <<air, gatts, app, is_notification_enabled, params, sender, peer>>

PeerWritesCccd ==
  /\ link = "up" /\ heard /\ cccd # "missing"
  /\ \/ Raise("enable") /\ cccd' = "on" /\ asked' = TRUE
     \/ Raise("disable") /\ cccd' = "off" /\ asked' = FALSE
  /\ cause' = "none"
  /\ UNCHANGED <<air, hvn, app, is_notification_enabled, params, sender, paired>>

PeerPairs ==
  /\ link = "up" /\ heard
  /\ Raise("pairing") /\ paired' = TRUE /\ cause' = "none"
  /\ UNCHANGED <<air, gatts, app, is_notification_enabled, params, sender, asked>>

(* The peer leaves a GATT request unanswered for 30 s, once on a link.     *)
GattTimeout ==
  /\ link = "up" /\ \A i \in DOMAIN evq : evq[i] # "gatt_timeout"
  /\ Raise("gatt_timeout") /\ cause' = "none"
  /\ UNCHANGED <<air, gatts, app, is_notification_enabled, params, sender, peer>>

RangeChanges ==
  /\ link # "none"
  /\ heard' = ~heard /\ silent' = 0 /\ cause' = "none"
  /\ UNCHANGED <<link, gatts, evq, app, is_notification_enabled, params, sender, peer>>

Notified ==
  /\ link # "none" /\ heard /\ hvn
  /\ hvn' = FALSE /\ cause' = "none"
  /\ UNCHANGED <<air, cccd, evq, app, is_notification_enabled, params, sender, peer>>

LinkGone ==
  /\ link' = "none" /\ Raise("disconnected") /\ cause' = "none"
  /\ UNCHANGED <<heard, silent, gatts, app, is_notification_enabled, params, sender, peer>>

PeerHangsUp == link = "up" /\ heard /\ LinkGone

(* A disconnection of our own completes, or the peer was silent for the    *)
(* supervision timeout.                                                    *)
LinkEnds == (link = "closing" \/ (link = "up" /\ silent >= SupTimeout)) /\ LinkGone

-----------------------------------------------------------------------------
(* sd_ble_gap_disconnect: refused unless the link is up.                   *)

Disconnecting == link = "up" /\ link' = "closing" /\ UNCHANGED <<heard, silent>>

(* A call that APP_ERROR_CHECK guards.                                     *)
DisconnectChecked(why, rest) ==
  \/ Disconnecting /\ rest /\ cause' = "none"
  \/ link # "up" /\ Reset(why)

(* conn_params_negotiation; starting a timer that runs does nothing.       *)
Negotiate(ok, count) ==
  IF ok THEN update_count' = 0 /\ timer' = timer
  ELSE /\ update_count' = count
       /\ timer' = IF timer # 0 THEN timer
                   ELSE 1 + (IF count = 0 THEN FirstDelay ELSE NextDelay)

-----------------------------------------------------------------------------
(* The observers of a BLE event: ble_evt_handler of my_ble.c,              *)
(* ble_uarts_on_ble_evt, and the SDK's.                                    *)

Handles(e) == evq # <<>> /\ Head(evq) = e
Quiet == evq' = Tail(evq) /\ cause' = "none"

OnConnected(e, ok) ==
  /\ Handles(e) /\ Quiet
  /\ handle' = TRUE /\ g_AppConnectFlag' = 1 /\ g_AppConnectTimeCount' = 0
  /\ Negotiate(ok, 0)
  /\ UNCHANGED <<air, gatts, is_notification_enabled, sender, peer>>

(* A slip: the flag that says a connection is there is not cleared.        *)
OnDisconnectedFlagKept ==
  /\ Handles("disconnected") /\ Quiet
  /\ handle' = FALSE /\ g_AppConnectTimeCount' = 0
  /\ update_count' = update_count /\ timer' = 0
  /\ UNCHANGED <<air, gatts, g_AppConnectFlag, is_notification_enabled, sender, peer>>

OnDisconnected ==
  /\ Handles("disconnected") /\ Quiet
  /\ handle' = FALSE /\ g_AppConnectFlag' = 0 /\ g_AppConnectTimeCount' = 0
  /\ update_count' = update_count /\ timer' = 0
  /\ UNCHANGED <<air, gatts, is_notification_enabled, sender, peer>>

(* uarts_data_handler; where the bytes go is UartTx's subject.             *)
OnData ==
  /\ Handles("data") /\ Quiet
  /\ g_AppConnectTimeCount' = 0
  /\ UNCHANGED <<air, gatts, handle, g_AppConnectFlag, is_notification_enabled,
                 params, sender, peer>>

(* A slip: what the peer has written is not looked at.                     *)
OnCccdAnyDisables ==
  /\ Handles("enable") \/ Handles("disable")
  /\ Quiet
  /\ is_notification_enabled' = FALSE
  /\ UNCHANGED <<air, gatts, app, params, sender, peer>>

OnCccd ==
  /\ Handles("enable") \/ Handles("disable")
  /\ Quiet
  /\ is_notification_enabled' = Handles("enable")
  /\ UNCHANGED <<air, gatts, app, params, sender, peer>>

OnParams(e, ok) ==
  /\ Handles(e) /\ Quiet
  /\ Negotiate(ok, update_count)
  /\ UNCHANGED <<air, gatts, app, is_notification_enabled, sender, peer>>

(* sd_ble_gatts_sys_attr_set(NULL) clears the CCCD.  The case of a pairing *)
(* request has no break: after the reply it comes here as well.  A link    *)
(* being closed may refuse either call.                                    *)
OnAttributes ==
  /\ Handles("attributes") \/ Handles("pairing")
  /\ \/ /\ link # "none" /\ Quiet
        /\ cccd' = "off"
        /\ UNCHANGED <<air, hvn, app, is_notification_enabled, params, sender, peer>>
     \/ link # "up" /\ Reset("event")

OnGattTimeout ==
  /\ Handles("gatt_timeout")
  /\ DisconnectChecked("event",
       Quiet /\ UNCHANGED <<gatts, app, is_notification_enabled, params, sender, peer>>)

Handle ==
  \/ OnConnected("connected_ok", TRUE) \/ OnConnected("connected_bad", FALSE)
  \/ OnDisconnected \/ OnData \/ OnCccd
  \/ OnParams("params_ok", TRUE) \/ OnParams("params_bad", FALSE)
  \/ OnAttributes \/ OnGattTimeout

-----------------------------------------------------------------------------
(* The timers.  A second is over only when what was due in it is done: a   *)
(* silent peer is given up, a sender that need not retry ends, the         *)
(* watchdog bites, the timer of the connection parameters expires.         *)

(* sd_ble_gatts_hvx has NRF_ERROR_RESOURCES for an answer.                 *)
Full == is_notification_enabled /\ link = "up" /\ cccd = "on" /\ hvn

DueDone ==
  /\ sending /\ evq = <<>> => Full
  /\ silent < SupTimeout \/ link = "none"
  /\ spin < WdtTimeout
  /\ timer # 1

(* A slip: the watchdog is fed by the timer.                               *)
StarvedNever == 0

(* The watchdog is fed by main, which a sender keeps from running.         *)
Starved == IF sending THEN spin + 1 ELSE 0

SecondPasses ==
  /\ silent' = IF heard \/ link = "none" THEN silent ELSE silent + 1
  /\ spin' = Starved
  /\ timer' = IF timer > 1 THEN timer - 1 ELSE timer
  /\ cause' = "none"
  /\ UNCHANGED <<heard, gatts, evq, handle, is_notification_enabled, update_count,
                 sending, peer>>

(* A slip: the link is not cut, only the counting ends.                    *)
CutNotCalled == UNCHANGED link /\ g_AppConnectTimeCount' = 0 /\ g_AppConnectFlag' = 0

(* my_ble_disconnect, whose failure is only logged.                        *)
Cut ==
  /\ link' = IF link = "up" THEN "closing" ELSE link
  /\ g_AppConnectTimeCount' = 0 /\ g_AppConnectFlag' = 0

(* my_timeout_handler                                                      *)
Tick ==
  /\ DueDone /\ SecondPasses
  /\ \/ g_AppConnectFlag = 1 /\ g_AppConnectTimeCount + 1 >= IdleLimit /\ Cut
     \/ /\ g_AppConnectFlag = 1 /\ g_AppConnectTimeCount + 1 < IdleLimit
        /\ g_AppConnectTimeCount' = g_AppConnectTimeCount + 1
        /\ UNCHANGED <<link, g_AppConnectFlag>>
     \/ g_AppConnectFlag = 0 /\ g_AppConnectTimeCount' = 0 /\ UNCHANGED <<link, g_AppConnectFlag>>

(* A slip: a request refused as BUSY is asked for again at once, through   *)
(* the error handler.                                                      *)
BusyIsAnError == Reset("params")

(* NRF_ERROR_BUSY: nothing, not even the timer, is started again.          *)
BusyIsIgnored ==
  /\ timer' = 0 /\ update_count' = update_count /\ cause' = "none"
  /\ UNCHANGED <<air, gatts, evq, app, is_notification_enabled, sender, peer>>

(* A slip: the limit is asked for one request too late.                    *)
MayAskOnceMore == update_count <= MaxUpdates

MayAsk == update_count < MaxUpdates

(* update_timeout_handler, and on_conn_params_evt once it has given up.    *)
ParamsRequest ==
  /\ timer = 1 /\ MayAsk
  /\ \/ /\ link = "up" /\ timer' = 0 /\ update_count' = update_count + 1 /\ cause' = "none"
        /\ UNCHANGED <<air, gatts, evq, app, is_notification_enabled, sender, peer>>
     \/ link = "up" /\ BusyIsIgnored
     \/ link # "up" /\ Reset("params")

ParamsFailed ==
  /\ timer = 1 /\ ~MayAsk
  /\ DisconnectChecked("params",
       /\ timer' = 0 /\ update_count' = 0
       /\ UNCHANGED <<gatts, evq, app, is_notification_enabled, sender, peer>>)

Watchdog == spin >= WdtTimeout /\ Reset("watchdog")

-----------------------------------------------------------------------------
(* my_uart_ble_send, of a frame uart_event_handle has just completed or    *)
(* once more: it keeps to the handle it was called with, which the link    *)
(* context manager accepts as long as no other link has taken its place.   *)

SendEnded == sending' = FALSE /\ spin' = 0

(* NRF_ERROR_INVALID_STATE: notifications are off, for the service or the  *)
(* SoftDevice, the link is being closed, or an MTU exchange is going on.   *)
SendRefused ==
  /\ ~is_notification_enabled \/ link # "none"
  /\ SendEnded /\ cause' = "none"
  /\ UNCHANGED hvn

SendRetried ==
  /\ Full
  /\ sending' = TRUE /\ cause' = "none"
  /\ UNCHANGED <<hvn, spin>>

SendQueued ==
  /\ is_notification_enabled /\ link = "up" /\ cccd = "on" /\ ~hvn
  /\ hvn' = TRUE /\ SendEnded /\ cause' = "none"

(* BLE_ERROR_INVALID_CONN_HANDLE and BLE_ERROR_GATTS_SYS_ATTR_MISSING are  *)
(* not among the errors tolerated.                                         *)
SendFails ==
  /\ is_notification_enabled
  /\ link = "none" \/ (link = "up" /\ cccd = "missing")

(* Without a link at its start a send is NRF_ERROR_NOT_FOUND and no more.  *)
Send ==
  /\ evq = <<>> /\ (handle \/ sending)
  /\ \/ /\ SendRefused \/ SendRetried \/ SendQueued
        /\ UNCHANGED <<air, cccd, evq, app, is_notification_enabled, params, peer>>
     \/ SendFails /\ Reset("send")

Air ==
  \/ Connect \/ PeerSends \/ PeerAccesses \/ PeerWritesCccd \/ PeerPairs
  \/ GattTimeout \/ RangeChanges \/ Notified \/ PeerHangsUp \/ LinkEnds

Next == Air \/ Handle \/ Tick \/ ParamsRequest \/ ParamsFailed \/ Watchdog \/ Send

Spec == Init /\ [][Next]_vars

(* Time passes (SF, as what is due in a second may hold it up for long),   *)
(* events, timers and the sender are served, links being closed are        *)
(* closed.  The peer does as it likes, and need not take a notification.   *)
FairSpec ==
  /\ Spec
  /\ SF_vars(Tick) /\ WF_vars(Watchdog)
  /\ WF_vars(Handle) /\ WF_vars(ParamsRequest \/ ParamsFailed) /\ WF_vars(Send)
  /\ WF_vars(LinkEnds)

-----------------------------------------------------------------------------
TypeOK ==
  /\ link \in {"none", "up", "closing"} /\ heard \in BOOLEAN /\ silent \in 0..SupTimeout
  /\ cccd \in {"missing", "off", "on"} /\ hvn \in BOOLEAN
  /\ evq \in Seq(Events)
  /\ handle \in BOOLEAN /\ g_AppConnectFlag \in 0..1
  /\ g_AppConnectTimeCount \in 0..IdleLimit - 1
  /\ is_notification_enabled \in BOOLEAN
  /\ update_count \in 0..MaxUpdates /\ timer \in 0..1 + FirstDelay + NextDelay
  /\ sending \in BOOLEAN /\ spin \in 0..WdtTimeout
  /\ asked \in BOOLEAN /\ paired \in BOOLEAN /\ cause \in Causes \cup {"none"}

(* Between events the application's variables tell the truth about the     *)
(* link: m_conn_handle is valid exactly while there is one, and the idle   *)
(* timer watches every link that is up.  That a failed                     *)
(* sd_ble_gap_disconnect is never tried again (main.c:96) is harmless:     *)
(* it fails only when the link is ending anyway.                           *)
LinkTracked ==
  evq = <<>> =>
    /\ handle = (link # "none")
    /\ link = "up" => g_AppConnectFlag = 1
    /\ link = "none" => g_AppConnectFlag = 0

(* A peer that has turned notifications on, and has not tried to pair      *)
(* since it connected, is notified: service and SoftDevice both know.      *)
(* After a pairing request the SoftDevice has forgotten (my_ble.c:662, no  *)
(* break), and what is sent to the peer is silently dropped.               *)
SubscriberServed ==
  evq = <<>> /\ link = "up" /\ asked /\ ~paired => is_notification_enabled /\ cccd = "on"

(* While the link is up and the peer in range the chip is reset only by a  *)
(* notification sent to a peer that never asked for one, or by the         *)
(* watchdog over one the peer takes too long to receive.  The other        *)
(* errors that APP_ERROR_CHECK guards cannot happen then, whatever the     *)
(* order of timers and events.                                             *)
HealthyReset ==
  [][cause' # "none" /\ link = "up" /\ heard
       => cause' = "watchdog" \/ (cause' = "send" /\ cccd = "missing" /\ ~asked)]_vars

(* A link does not stay up without data.                                   *)
IdleEnds == []<>(link # "up" \/ Handles("data"))

(* The UART handler gets out of its retry loop, be it by a reset, so that  *)
(* the module does not hang on a peer that takes no notification.          *)
SendEnds == sending ~> ~sending

(* my_ble_uarts.h:69, of is_notification_enabled: it records whether the   *)
(* peer has turned notifications on.                                       *)
FlagIsPeers == evq = <<>> /\ link = "up" /\ is_notification_enabled => asked
=============================================================================
