----------------------------- MODULE ConfigRecord -----------------------------
(***************************************************************************)
(* What my_fds.c and fds.c promise main, with no page, tag or swap in      *)
(* sight: flash holds the versions of the configuration that a boot may    *)
(* find.  A store adds the new version before it drops the one it          *)
(* replaces; collections, boots and resets change nothing that is held.    *)
(***************************************************************************)
EXTENDS Integers

CONSTANT Versions

VARIABLES
  held,       \* versions that count, for a boot to come as well
  config,     \* the one in use, or None while the chip is off
  phase,      \* "off", "ready" for a store, then "adding", "dropping", "added"
  confirmed,  \* the last one reported as stored
  doubt       \* history: some store was cut between its two changes

vars == <<held, config, phase, confirmed, doubt>>

None == -1

Init == held = {} /\ config = None /\ phase = "off" /\ confirmed = None /\ ~doubt

PowerOn ==
  /\ phase = "off" /\ phase' = "ready"
  /\ config' \in held
  /\ UNCHANGED <<held, confirmed, doubt>>

(* Nothing has been stored yet.                                            *)
First ==
  /\ phase = "off" /\ held = {} /\ phase' = "adding"
  /\ config' = 0
  /\ UNCHANGED <<held, confirmed, doubt>>

Store ==
  /\ phase = "ready" /\ phase' = "adding"
  /\ config' \in Versions /\ \A v \in held : v < config'
  /\ UNCHANGED <<held, confirmed, doubt>>

Add ==
  /\ phase = "adding" /\ phase' = IF held = {} THEN "added" ELSE "dropping"
  /\ held' = held \cup {config}
  /\ UNCHANGED <<config, confirmed, doubt>>

Drop ==
  /\ phase = "dropping" /\ phase' = "added"
  /\ \E v \in held \ {config} : held' = held \ {v}
  /\ UNCHANGED <<config, confirmed, doubt>>

Confirm ==
  /\ phase = "added" /\ phase' = "ready"
  /\ confirmed' = config
  /\ UNCHANGED <<held, config, doubt>>

(* No room for a record more than must be held anyway.                     *)
GiveUp ==
  /\ phase = "adding" /\ doubt /\ phase' = "ready"
  /\ UNCHANGED <<held, config, confirmed, doubt>>

(* A reset, or an operation that times out and leaves main waiting for it. *)
Crash ==
  /\ phase # "off" /\ phase' = "off" /\ config' = None
  /\ doubt' = (doubt \/ phase = "dropping")
  /\ UNCHANGED <<held, confirmed>>

Next == PowerOn \/ First \/ Store \/ Add \/ Drop \/ Confirm \/ GiveUp \/ Crash

Spec == Init /\ [][Next]_vars
=============================================================================
