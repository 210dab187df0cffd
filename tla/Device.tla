------------------------------- MODULE Device -------------------------------
(***************************************************************************)
(* An ESP32 leaf from power-on: Provisioning decides whether it runs, and  *)
(* when it does, Supervisor is its network side.  Power may fail at any    *)
(* time and takes everything but NVS; what the radio finds is chosen anew  *)
(* when the board comes up.                                                *)
(***************************************************************************)
EXTENDS Provisioning, Supervisor

VARIABLE leafUp  \* the leaf thread runs its dial loops

deviceVars == <<provisioningVars, supervisorVars, leafUp>>

\* Nothing of the normal path runs; the environment is immaterial.
NotStarted ==
  /\ air = [n \in Nets |-> "off"] /\ signal = Networks /\ answers = {}
  /\ sup = "scan" /\ order = <<>> /\ rotate = 0 /\ wifi = NoNet
  /\ hubReachable = FALSE /\ conn = [a \in Addrs |-> NoNet]
  /\ foundOn = NoNet /\ late = {} /\ leafUp = FALSE
  /\ upsets = 0

DeviceInit == ProvisioningInit /\ NotStarted

\* main 234-284: a driver that cannot be made or started ends main before there
\* is a leaf thread, a voice thread that cannot start after it; a leaf thread
\* that cannot start, or ends with an error, is only logged.
StartNormal ==
  /\ air' \in [Nets -> {"off", "seen", "locked"}]
  /\ answers' \in SUBSET (Addrs \X Nets)
  /\ \/ sup' = "scan" /\ leafUp' = TRUE /\ UNCHANGED upsets
     \/ /\ Upset
        /\ sup' \in {"ended", "scan"} /\ leafUp' \in BOOLEAN
        /\ sup' = "ended" \/ ~leafUp'
  /\ UNCHANGED <<signal, order, rotate, wifi, leafThread, late>>

PowerOn ==
  /\ Boots
  /\ IF main' = "normal" THEN StartNormal ELSE UNCHANGED <<supervisorVars, leafUp>>

PowerOff ==
  /\ PowerCut \/ Leave
  /\ air' = [n \in Nets |-> "off"] /\ signal' = Networks /\ answers' = {}
  /\ sup' = "scan" /\ order' = <<>> /\ rotate' = 0 /\ wifi' = NoNet
  /\ hubReachable' = FALSE /\ conn' = [a \in Addrs |-> NoNet]
  /\ foundOn' = NoNet /\ late' = {} /\ leafUp' = FALSE
  /\ upsets' = 0

Provisions ==
  /\ TakePayload \/ ReadLength \/ CopyPart \/ StoreBlob \/ StoreFlag \/ HostTask
  /\ UNCHANGED <<supervisorVars, leafUp>>

Supervises == main = "normal" /\ SupervisorStep /\ UNCHANGED <<provisioningVars, leafUp>>
Dials(a) == leafUp /\ Dial(a) /\ UNCHANGED <<provisioningVars, leafUp>>
Loses(a) == leafUp /\ ConnectionEnds(a) /\ UNCHANGED <<provisioningVars, leafUp>>
Surroundings == main = "normal" /\ Environment /\ UNCHANGED <<provisioningVars, leafUp>>

DeviceNext ==
  \/ PowerOn \/ PowerOff \/ Provisions \/ Supervises \/ Surroundings
  \/ \E a \in Addrs : Dials(a) \/ Loses(a)

\* The main thread and the dial loops run; a connection that is dead ends.
\* Nobody has to bring a phone, and power need not fail.
DeviceFairness ==
  /\ WF_deviceVars(Supervises)
  /\ \A a \in Addrs : WF_deviceVars(Dials(a)) /\ WF_deviceVars(~Alive(a) /\ Loses(a))

DeviceSpec == DeviceInit /\ [][DeviceNext]_deviceVars /\ DeviceFairness

-----------------------------------------------------------------------------
(* The types of both parts; with the power off nothing runs. *)
DeviceTypeOK ==
  /\ ProvisioningTypeOK /\ SupervisorTypeOK /\ leafUp \in BOOLEAN
  /\ main # "normal" => NotStarted

(* A configured board whose leaf thread runs, in sight of a hub that       *)
(* answers, is connected to one again and again, whatever access points    *)
(* and hubs did before: it does not stay with a stronger network over      *)
(* which none answers (main.rs 286-325 and 382).  Excepted is a network    *)
(* that had a hub and lost it while it was held.                           *)
Serves == <>[](leafUp /\ HubInSight /\ ~HeldInVain) => []<>Served

(* The same without the exception, as the comment at main.rs 312 has it:   *)
(* while a network is held, it is confirmed that a hub is still there.     *)
FindsHub == <>[](leafUp /\ HubInSight) => []<>Served
=============================================================================
