---------------------------- MODULE ProbeService ----------------------------
(***************************************************************************)
(* What the exporter promises, without its goroutines: metrics are served  *)
(* in snapshots.  A snapshot is taken of one configuration, the one in     *)
(* force when the cycle began, it accounts for every zone of that          *)
(* configuration, and cycles never overlap.                                *)
(***************************************************************************)
EXTENDS Sequences

CONSTANTS Configs, Nil

VARIABLES
    config,     \* the configuration in force
    inFlight,   \* the configuration of the cycle in progress, or Nil
    snapshot    \* what /metrics serves: per-zone outcomes, or Nil

serviceVars == <<config, inFlight, snapshot>>

Kinds == {"failed", "empty", "probed"}

ServiceInit == config = Nil /\ inFlight = Nil /\ snapshot = Nil

Reconfigure ==
    /\ config' \in Configs
    /\ UNCHANGED <<inFlight, snapshot>>

Begin ==
    /\ inFlight = Nil
    /\ config # Nil
    /\ inFlight' = config
    /\ UNCHANGED <<config, snapshot>>

Snapshot ==
    /\ inFlight # Nil
    /\ \E outcome \in [DOMAIN inFlight.zones -> Kinds] :
          snapshot' = [cfg |-> inFlight, outcome |-> outcome]
    /\ inFlight' = Nil
    /\ UNCHANGED config

ServiceNext == Reconfigure \/ Begin \/ Snapshot

ServiceSpec == ServiceInit /\ [][ServiceNext]_serviceVars
=============================================================================
