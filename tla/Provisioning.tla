---------------------------- MODULE Provisioning ----------------------------
(***************************************************************************)
(* How an ESP32 leaf gets its configuration: the decision at boot between  *)
(* a stored record, the baked cfg.toml and Bluetooth provisioning, the     *)
(* reassembly of a payload from the frames a phone writes (leaf_prov.c, on *)
(* the Bluetooth host task), its hand-over to the main thread through a    *)
(* semaphore and a static buffer, and the two writes that store it.        *)
(*                                                                         *)
(* A payload is cut into parts; a buffer holds, at each part, the payload  *)
(* that part came from.  A checksum matches exactly the buffer it was made *)
(* for: collisions of its 16 bits are left out.                            *)
(***************************************************************************)
EXTENDS Naturals, Sequences

CONSTANTS
  Centrals,   \* phones that may connect over Bluetooth
  Payloads,   \* what they may want to write
  Good,       \* the payloads that decode and validate
  Size,       \* Size[p]: the number of parts of payload p
  MaxParts,   \* the parts that fit into MAX_PAYLOAD bytes
  Zero,       \* content of a part nothing was written to
  NoOne,      \* no phone: BLE_HS_CONN_HANDLE_NONE
  MaxMishaps  \* bound: power cuts, boots with the BOOT button held, failing calls

ASSUME ProvisioningAssumption ==
  /\ MaxParts \in Nat \ {0}
  /\ Good \subseteq Payloads /\ Zero \notin Payloads /\ NoOne \notin Centrals
  /\ Size \in [Payloads -> 1..MaxParts]
  /\ MaxMishaps \in Nat

VARIABLES
  baked,       \* the image has a complete cfg.toml; never changes
  blob,        \* NVS key "payload": a buffer, <<>> when there is none
  provisioned, \* NVS key "provisioned" is 1
  main,        \* where the main thread is
  running,     \* the configuration the normal path runs on: "none", "baked" or "record"
  central,     \* s_conn_handle: the phone that is connected
  reasm, expected, highWater, inProgress, \* the reassembly state
  payload, payloadLen, \* s_payload and s_payload_len
  given,       \* the semaphore s_payload_sem
  handing,     \* the part of s_payload a commit writes next, 0 when none is under way
  copied, copyLen, \* what the main thread has copied out, and how much it will
  acked,       \* phones that were notified of status "ok" (history)
  raced,       \* a payload was being written while it was copied (history)
  mishaps      \* how much of the bound is used

nvs == <<blob, provisioned>>
assembly == <<reasm, expected, highWater, inProgress>>
handOver == <<payload, payloadLen, given, handing>>
copy == <<copied, copyLen>>
provisioningVars == <<baked, blob, provisioned, main, running, central, reasm, expected,
  highWater, inProgress, payload, payloadLen, given, handing, copied, copyLen, acked,
  raced, mishaps>>

Parts == 1..MaxParts
Content == Payloads \cup {Zero}
Empty == [i \in Parts |-> Zero]
\* The phases of the main thread in which Bluetooth is up.
Bluetooth == {"waiting", "taken", "copying", "flagging", "leaving"}

\* The first n parts of b are payload p, all of it.
IsWhole(b, n, p) == n = Size[p] /\ \A i \in 1..n : b[i] = p
\* serde_json and payload_to_runtime accept the buffer: also one put together
\* from parts of several good payloads of one layout.
Validates(b) ==
  /\ \E p \in Good : Len(b) = Size[p]
  /\ \A i \in 1..Len(b) : b[i] \in Good
\* What a boot loads from NVS.
Recorded == provisioned /\ blob # <<>> /\ Validates(blob)

\* The status "ok" goes to the phone that is connected, if there is one.  The
\* other statuses say what the guards below say and are left out.
NotifyOk == acked' = IF central = NoOne THEN acked ELSE acked \cup {central}

Mishap == mishaps < MaxMishaps /\ mishaps' = mishaps + 1

\* Static and heap memory after a reset.
ClearMemory ==
  /\ running' = "none" /\ central' = NoOne
  /\ reasm' = Empty /\ expected' = 0 /\ highWater' = 0 /\ inProgress' = FALSE
  /\ payload' = Empty /\ payloadLen' = 0 /\ given' = FALSE /\ handing' = 0
  /\ copied' = <<>> /\ copyLen' = 0

ProvisioningInit ==
  /\ baked \in BOOLEAN
  /\ blob = <<>> /\ provisioned = FALSE
  /\ main = "off" /\ running = "none" /\ central = NoOne
  /\ reasm = Empty /\ expected = 0 /\ highWater = 0 /\ inProgress = FALSE
  /\ payload = Empty /\ payloadLen = 0 /\ given = FALSE /\ handing = 0
  /\ copied = <<>> /\ copyLen = 0
  /\ acked = {}
  /\ raced = FALSE
  /\ mishaps = 0

(***************************************************************************)
(* main.rs: the configuration.  A record wins over the baked one, the      *)
(* button over both; a record that cannot be read counts as none.          *)
(***************************************************************************)
Resolved(held, readable) ==
  CASE held -> "none"
    [] ~held /\ readable /\ Recorded -> "record"
    [] ~held /\ ~(readable /\ Recorded) /\ baked -> "baked"
    [] OTHER -> "none"

\* Without a configuration the board provisions; when Bluetooth does not start
\* it restarts and decides again.
Boot(held, readable, starts) ==
  /\ main = "off"
  /\ IF ~held /\ readable /\ starts THEN UNCHANGED mishaps ELSE Mishap
  /\ running' = Resolved(held, readable)
  /\ \/ running' # "none" /\ starts /\ main' = "normal"
     \/ running' = "none" /\ main' = IF starts THEN "waiting" ELSE "off"
  /\ UNCHANGED <<baked, nvs, central, assembly, handOver, copy, acked, raced>>

PowerCut ==
  /\ main # "off" /\ Mishap
  /\ main' = "off" /\ ClearMemory
  /\ UNCHANGED <<baked, nvs, acked, raced>>

(***************************************************************************)
(* leaf_prov.c: the Bluetooth host task.  It may run on the other core, so *)
(* the main thread's steps come between those of a commit; the task itself *)
(* takes its next event when the commit is done (AtRest).                  *)
(***************************************************************************)
AtRest == main \in Bluetooth /\ handing = 0

Connected(c) ==
  /\ AtRest /\ central = NoOne
  /\ central' = c
  /\ UNCHANGED <<baked, nvs, main, running, assembly, handOver, copy, acked, raced, mishaps>>

\* reset_reasm leaves s_reasm as it is, but Begin clears it before the next use.
ResetReasm == reasm' = Empty /\ expected' = 0 /\ highWater' = 0 /\ inProgress' = FALSE

Disconnected ==
  /\ AtRest /\ central # NoOne
  /\ central' = NoOne /\ ResetReasm
  /\ UNCHANGED <<baked, nvs, main, running, handOver, copy, acked, raced, mishaps>>

Writes(c) ==
  /\ AtRest /\ central = c
  /\ UNCHANGED <<baked, nvs, main, running, central, copy, mishaps>>

\* A mutant: the length announced is not compared with MAX_PAYLOAD.
BeginUnchecked(c, n) ==
  /\ Writes(c)
  /\ reasm' = Empty /\ expected' = n /\ highWater' = 0 /\ inProgress' = TRUE
  /\ UNCHANGED <<handOver, raced, acked>>

Begin(c, n) ==
  /\ Writes(c)
  /\ \/ /\ n \notin Parts
        /\ ResetReasm
     \/ /\ n \in Parts
        /\ reasm' = Empty /\ expected' = n /\ highWater' = 0 /\ inProgress' = TRUE
  /\ UNCHANGED <<handOver, raced, acked>>

\* Part i of payload p; one that is out of range is ignored.
Chunk(c, i, p) ==
  /\ Writes(c)
  /\ inProgress /\ i <= expected
  /\ reasm' = [reasm EXCEPT ![i] = p]
  /\ highWater' = IF i > highWater THEN i ELSE highWater
  /\ UNCHANGED <<expected, inProgress, handOver, acked, raced>>

\* A mutant: the checksum is not compared.
AnyChecksum(p) == TRUE
ChecksumMatches(p) == IsWhole(reasm, expected, p)

\* The checksum sent is that of payload p.  A payload that is accepted has its
\* length stored first; the buffer follows part by part.
Commit(c, p) ==
  /\ Writes(c)
  /\ inProgress
  /\ \/ /\ highWater # expected \/ ~ChecksumMatches(p)
        /\ ResetReasm
        /\ UNCHANGED <<handOver, raced>>
     \/ /\ highWater = expected /\ ChecksumMatches(p)
        /\ payloadLen' = expected /\ handing' = 1
        /\ raced' = (raced \/ (main = "copying" /\ Len(copied) < copyLen))
        /\ UNCHANGED <<assembly, payload, given>>
  /\ UNCHANGED acked

HandPart ==
  /\ main \in Bluetooth /\ handing \in 1..expected
  /\ payload' = [payload EXCEPT ![handing] = reasm[handing]]
  /\ handing' = handing + 1
  /\ UNCHANGED <<baked, nvs, main, running, central, assembly, payloadLen, given, copy, acked,
                 raced, mishaps>>

\* Only now the semaphore.
Give ==
  /\ main \in Bluetooth /\ handing > expected
  /\ ResetReasm
  /\ given' = TRUE /\ handing' = 0
  /\ UNCHANGED <<baked, nvs, main, running, central, payload, payloadLen, copy, acked, raced, mishaps>>

HostTask ==
  \/ Disconnected \/ HandPart \/ Give
  \/ \E c \in Centrals :
       \/ Connected(c)
       \/ \E n \in 0..(MaxParts + 1) : Begin(c, n)
       \/ \E p \in Payloads : Commit(c, p) \/ \E i \in 1..Size[p] : Chunk(c, i, p)

(***************************************************************************)
(* provisioning.rs: the main thread.  It takes the semaphore, then copies  *)
(* the buffer, which the host task may overwrite meanwhile.                *)
(***************************************************************************)
TakePayload ==
  /\ main = "waiting" /\ given
  /\ given' = FALSE
  /\ main' = "taken"
  /\ UNCHANGED <<baked, nvs, running, central, assembly, payload, payloadLen, handing, copy,
                 acked, raced, mishaps>>

ReadLength ==
  /\ main = "taken"
  /\ copied' = <<>> /\ copyLen' = payloadLen
  /\ main' = "copying"
  /\ UNCHANGED <<baked, nvs, running, central, assembly, handOver, acked, raced, mishaps>>

CopyPart ==
  /\ main = "copying" /\ Len(copied) < copyLen
  /\ copied' = Append(copied, payload[Len(copied) + 1])
  /\ raced' = (raced \/ handing # 0)
  /\ UNCHANGED <<baked, nvs, main, running, central, assembly, handOver, copyLen, acked, mishaps>>

\* The copy is not looked at again.
ForgetCopy == copied' = <<>> /\ copyLen' = 0

\* store_payload up to the first write.
StoreBlob ==
  /\ main = "copying" /\ Len(copied) = copyLen
  /\ \/ /\ ~Validates(copied)
        /\ main' = "waiting"
        /\ UNCHANGED <<blob, mishaps>>
     \/ /\ Validates(copied)
        /\ blob' = copied
        /\ main' = "flagging"
        /\ UNCHANGED mishaps
     \/ /\ Validates(copied)
        /\ Mishap
        /\ main' = "waiting"
        /\ UNCHANGED blob
  /\ ForgetCopy
  /\ UNCHANGED <<baked, provisioned, running, central, assembly, handOver, acked, raced>>

\* A mutant: the phone is told before the flag is written.
FlagForgotten == UNCHANGED provisioned
FlagStored == provisioned' = TRUE

StoreFlag ==
  /\ main = "flagging"
  /\ \/ /\ FlagStored
        /\ NotifyOk
        /\ main' = "leaving"
        /\ UNCHANGED mishaps
     \/ /\ Mishap
        /\ main' = "waiting"
        /\ UNCHANGED <<provisioned, acked>>
  /\ UNCHANGED <<baked, blob, running, central, assembly, handOver, copy, raced>>

\* leaf_prov_stop and esp_restart.
Leave ==
  /\ main = "leaving"
  /\ main' = "off" /\ ClearMemory
  /\ UNCHANGED <<baked, nvs, acked, raced, mishaps>>

MainThread == TakePayload \/ ReadLength \/ CopyPart \/ StoreBlob \/ StoreFlag \/ Leave
Boots == \E held, readable, starts \in BOOLEAN : Boot(held, readable, starts)

ProvisioningNext == MainThread \/ Boots \/ PowerCut \/ HostTask

ProvisioningSpec == ProvisioningInit /\ [][ProvisioningNext]_provisioningVars

-----------------------------------------------------------------------------
(* The types of the variables, and what holds while the device is off. *)
ProvisioningTypeOK ==
  /\ baked \in BOOLEAN /\ provisioned \in BOOLEAN
  /\ blob \in Seq(Content)
  /\ main \in Bluetooth \cup {"off", "normal"}
  /\ running \in {"none", "baked", "record"}
  /\ running # "none" <=> main = "normal"
  /\ central \in Centrals \cup {NoOne}
  /\ reasm \in [Parts -> Content] /\ expected \in 0..MaxParts /\ highWater \in 0..MaxParts
  /\ inProgress \in BOOLEAN
  /\ payload \in [Parts -> Content] /\ payloadLen \in 0..MaxParts /\ given \in BOOLEAN
  /\ handing \in 0..(MaxParts + 1)
  /\ copied \in Seq(Content) /\ copyLen \in 0..MaxParts /\ Len(copied) <= copyLen
  /\ acked \subseteq Centrals
  /\ raced \in BOOLEAN
  /\ mishaps \in 0..MaxMishaps

(* A phone that was told "ok" can rely on it: from then on, through power  *)
(* cuts and failed or abandoned attempts to provision anew, the device has *)
(* a record that a boot accepts (config.rs 107-133).                       *)
AckedIsStored == acked # {} => Recorded

(* What is stored is one payload, as the phone that committed it wrote it, *)
(* unless a commit wrote the buffer while the main thread was copying it   *)
(* (leaf_prov.c 134-154 and 340-355).                                      *)
WholeUnlessRaced ==
  blob # <<>> => raced \/ \E p \in Good : IsWhole(blob, Len(blob), p)
=============================================================================
