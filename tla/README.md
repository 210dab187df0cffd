# Verification of listam-hardware

TLA+ models of the Listam *leaf*: a blind, always-on replica that mirrors the
hypercores of a project over plain TCP and serves them while the real devices
are offline. The reference is the code under `src/`; paths are relative to it.
`M` abbreviates `leaf-peer/leaf-core/src/mirror.rs`, `HC`
`leaf-peer/vendor/hypercore/src`, `HP` `leaf-peer/vendor/hypercore-protocol/src`,
`ESP` `leaf-peer/leaf-esp32`.

To check a run: `tlc -workers 2 -config CoreChannel_live.cfg MCCoreChannel.tla`
(the table in section 4 names the module and configuration of each run); to
check the proofs: `tlapm M.tla` for `Induction`, `FlatTree_proofs`,
`CoreStore_proofs`, `CoreChannel_proofs`, `Waiting_proofs`, `MirrorNode_proofs`,
`Device_proofs` and `Voice_proofs`.

## 1. Inventory

### 1.1 Components

| component | state it keeps | operations | interacts with |
|---|---|---|---|
| **core replication** (`M` 388-854) | a `PeerState` per channel: the remote's length, whether it has spoken, `inflight_upgrade`, `inflight_block` | `core_channel` (start, resync tick), `on_message` (one case per kind of message), `request_upgrade` | the peer's channel task over a queue of messages; the core under its lock, shared with every other channel of that core |
| **mirror node** (`M` 42-374, 856-895) | `Registry` (cores by discovery key, the lock `opening`); per connection `opened`, the channel tasks, the queue of `DriverMsg` | `add_core`, `seed_from_control`, `run_connection` with four select arms (protocol event, message from a task, task end, idle timer) | protocol events, channel tasks, storage, the dial and accept loops |
| **core on disk** (`HC/core.rs`, `oplog/`, `tree/`, `bitfield/`) | four files: oplog (two header slots, entries), tree, bitfield, data; in memory the length, roots, unflushed nodes, held blocks, hint of the contiguous prefix, flush counter | `Hypercore::new` with replay, `verify_and_apply_proof`, `set_manifest`, flush, `create_proof`, `missing_nodes`, `get` | the storage layer below, channel tasks above |
| **flat files** (`HC/storage/file.rs`, `storage/mod.rs`) | one random-access file per store; FATFS has no sparse files and truncates by rewriting | read, write, truncate, `flush_infos` | the core on disk; the flash file system |
| **protocol channels** (`HP/protocol.rs`, `HP/channels.rs`) | channel map: local and remote end per key, numeric ids; queued events, commands and outbound messages | `command_open`, `on_open`, `accept_channel`, `on_close`, `close_local`, `poll_next` | the driver, channel tasks, the encrypted stream |
| **handshake and cipher** (`vendor/hypercore_handshake`, `vendor/snow`) | Noise state, cipher counters | handshake, encrypt, decrypt | the TCP stream and the protocol |
| **leaf-host** (`leaf-peer/leaf-host/src/main.rs`) | the registry | parse arguments, boot, one dial loop per `--connect`, one accept loop | mirror node |
| **ESP32 leaf thread** (`ESP/src/main.rs` 475-571) | the registry, `hub_reachable` | boot, one dial loop per address | mirror node, WiFi supervisor |
| **WiFi supervisor** (`ESP/src/main.rs` 286-412) | the network joined, the networks still to try, `rotate`, where it stands in join, grace and hold; `hub_reachable`, shared | scan and order, join or go on to the next, wait 25 s for a hub, hold while WiFi is up, leave and rotate | dial loops of the leaf thread, the WiFi driver, access points and hubs that come and go |
| **provisioning** (`ESP/src/provisioning.rs`, `config.rs`, `main.rs` 144-199, `components/leaf_prov/leaf_prov.c`) | reassembly buffer, cursor and high-water mark (Bluetooth task); payload buffer and semaphore (shared); two NVS keys | decide at boot; Begin, Chunk, Commit; take and copy; validate, store, flag, notify, restart | a phone over Bluetooth, NVS, the next boot |
| **voice** (`ESP/src/voice.rs`) | gate and pre-roll, hits of two wake models, timers of the capture, windows kept from before the wake, the socket | read a window, open the gate, feed the models, play a tune, stream, end, wait for the answer | the microphone, the audio bridge on a host, the buzzer |
| **buzzer** (`ESP/src/buzzer.rs`) | a shuffled order of the tunes, how many of it were played, the last one | shuffle, play the next one | voice |
| **the hub** | the writer of every core: a JavaScript program outside the repository | append, open and close channels, answer requests | the leaf's connections |

### 1.2 What is hard here

* **Concurrency.** Connections of one leaf share one registry and one core per
  key. `add_core` waits for storage while it holds `opening`; a channel task
  decides on what it read in an earlier message while another connection moves
  the core on.
* **Ordering.** Answers arrive in the order of requests on one channel, but a
  proof made for an old length may arrive after the core has grown through
  another channel. Opens and Closes cross on the wire.
* **Loss.** A connection takes its queues, its channel tasks and its driver's
  pending messages with it. The remote's secret stream swallows an end of
  file, so a dead connection is noticed by silence only.
* **Failure of one step.** Storage may fail in the middle of a handler, after
  the effect and before the follow-up.
* **Crash.** The device has no shutdown: power goes at any write, and what is
  then on flash must open again.
* **Shared memory between tasks.** The Bluetooth host task and the main thread
  share a payload buffer under a semaphore that says only "there is one"; the
  supervisor and the dial loops share a flag that says only "a hub was reached".
* **Timers that race.** `petito` waits for `yo petito`, silence ends a capture,
  a cap ends it in noise; which comes first depends on the window.

### 1.3 What makes each component correct

* Core replication: whatever is stored or verified stays so and is the hub's;
  requests are answerable; an in-flight mark is owed an answer; every leaf
  converges on everything the hub published, also through another leaf.
* Mirror node: one writer per core; at most one Open per core and connection;
  an announced key is not forgotten; every registered core gets a task on every
  connection.
* Core on disk: what a proof added is durable; every block said to be held can
  be read; every block that is missing can still be fetched; the contiguous
  hint is right; no length without a manifest.
* Flat files: a read returns what was last written there, or zeros.
* Protocol channels: both ends of a pair agree, ids are not reused while in
  use, nothing is delivered to the wrong channel.
* Provisioning: what a phone was told is stored survives everything that comes
  after; a stored record is one payload, as it was sent.
* WiFi supervisor: a network is held for a hub that was found on it, and a board
  in sight of a hub comes to be connected to one.
* Voice: the host gets whole utterances, nothing before a wake, nothing doubled
  or missing; a command gets its tune; the thread always listens again. Buzzer: no
  tune twice in a row.

The hazards of this code, each at its line and with the properties that cover
it (or the reason why none does yet), are listed in `PROJECT.json`.

## 2. Plan

| # | module | models | state |
|---|---|---|---|
| 1 | `CoreChannel` (+ `MCCoreChannel`) | core replication between any nodes and links | done |
| 1a | `Replica` | what mirroring one log promises; `CoreChannel` implements it | done, proved |
| 1b | `CoreChannel_proofs` | inductive invariant, types, answerable requests, refinement | done |
| 1c | `Waiting_proofs` | no wait for an answer that nobody owes | done |
| 2 | `MirrorNode` (+ `MCMirrorNode`) | registry, drivers, channel map, control core | done |
| 2a | `MirrorNode_proofs` | types, one writer per core, one Open per core and connection, no announced key forgotten | done |
| 3 | `CoreStore` | a core on disk across power cuts | done; I/O errors left |
| 3a | `FlatTree_proofs`, `CoreStore_proofs` | the geometry of the tree; all properties of a core on disk | done |
| 4 | `Provisioning` | the boot decision, Bluetooth reassembly, hand-over, NVS | done, proved in 6a |
| 5 | `Supervisor` | the WiFi supervisor with the dial loops it shares a flag with | done, proved in 6a but for liveness |
| 6 | `Device` (+ `MCDevice`) | composes 4 and 5 into a board from power-on; implements `Provisioning` | done |
| 6a | `Device_proofs` | types, refinement, what is stored and what is held | done |
| 7 | `Buzzer`, `Voice` | the tune player; the voice thread, which extends it | done |
| 7a | `Voice_proofs` | types and bounds, no tune twice, the framing of an utterance, the tune that answers | done |
| - | `Induction` | induction and recursion over the naturals, for 2a, 3a, 6a and 7a | done |
| 8 | `FlatFile` | `RandomAccessFile` over FATFS refines a sparse zero-filled file; non-atomic truncation | left |
| 9 | `Protocol` | the channel map of both peers, ids, Open/Close crossing; refines the abstract pairing that `MirrorNode` uses | left |
| 10 | `Bitfield` | page arithmetic against a reference definition | left |
| 11 | `Protocol` pairing | the refinement as a theorem | left |

Order: first what the device is for (a block published by the hub ends up on
the leaf, and stays), then what that rests on. `CoreChannel` treats one core
and all its channels; `MirrorNode` treats all cores of one node and takes the
content of a channel for granted; `CoreStore` takes the sequence of proofs that
`CoreChannel` applies and asks what survives. They meet at these points: a
channel task of `CoreChannel` exists where `MirrorNode` says so (`tasks`);
`verify_and_apply_proof` is one step in `CoreChannel` (`OnUpgrade`, `OnBlock`)
and a sequence of writes in `CoreStore` (`ApplyUpgrade`, `ApplyBlock`,
`AppendEntry`, flush); the property `Durable` of `CoreStore` is the reason why
`CoreChannel` never takes back `len` and `held`, and `stored` survives
`MirrorNode`'s `Restart`. The dial loops of `Supervisor` are the ones that
`CoreChannel`'s `Dial` and `MirrorNode`'s `Connect` start from; there they are
given a network, here it is the question whether they get one. `Voice` shares
no state with the rest of the board.

Every invariant and every safety property that a passing run checks is a theorem.
Still worth proving: the refinement of the channel pairing, once `Protocol` exists.

## 3. The models

### 3.1 CoreChannel

`Nodes` are the hub and the leaves, `Links` the connections between them
(several between the same two nodes are allowed), `Ends` the two ends of each
link. A node's core is `len`, `held`, `man`: the length of its verified tree,
the blocks in its bitfield, and whether it knows the manifest. `st[e]` is the
`PeerState` of the channel task at end `e`; `net[e]` the messages sent at `e`
and not handled yet, in order.

| action | code |
|---|---|
| `Start` | `core_channel` up to its loop: Synchronize, and a manifest request if the core has none |
| `OnSynchronize`, `OnRequest`, `OnManifest`, `OnUpgrade`, `OnBlock`, `OnNoData` | the cases of `on_message` |
| `OnBadData` | `verify_and_apply_proof` refuses; the error branch 504-519 clears both in-flight marks |
| `Resync` | the 3 s tick of `core_channel` |
| `ApplyFails`, `AfterApplyFails`, `TickFails` | storage fails before the effect, after it, in the tick |
| `OnDeadChannel` | the next message for a channel whose task has ended fails the connection |
| `Dial`, `Drop`, `IdleDisconnect` | dial loops; loss; the 16 s idle timer of `run_connection` |
| `HubAppend`, `HubReceive` | the hub, as the leaf's code relies on it |

One handler is one step: it holds the core's lock from what it reads to what it
writes, and the file storage does not yield. Request ids are dropped because no
handler reads them. Range and Want change no state on either side. A Merkle
proof is the numbers it speaks of; whether it verifies (`UpgradeVerifies`,
`BlockMayVerify`, `BlockMayFail`) follows from `HC/tree/merkle_tree.rs`: an
upgrade joins the current roots from the length it was asked for, or when the
end asked for is the current length; a block proof must reach a node of the
tree. `IdleDisconnect` needs both queues empty and no tick due, since 16 s is
long against a message and a 3 s tick.

`Replica` is the abstract promise: a log that grows at the hub, a verified
prefix per leaf that only grows, blocks stored from the prefix in any order,
for good. `Mirrors` says `CoreChannel` implements it with
`log <- len[Hub]`, `verified <- len`, `stored <- held`.

### 3.2 MirrorNode

One leaf. `registry` and `opening` are `Registry.cores` and its lock; `writers`
counts the storages opened per core. Per connection: `driver` is where
`run_connection` stands (it polls nothing else while it adds cores), `messages`
its queue of `AddCores`, `opened` its set, `commands` and `events` the
protocol's queues, `local` and `remote` the two sides of the channel map,
`tasks` the channel tasks. The control core is `published` (at the hub),
`stored` (on the leaf, survives restarts), and per connection `inbox` and
`sent`, the entries that its control task has or does not ask for. `lost` and
`opens` are history. `lost` counts the keys of an announcement that is dropped,
whatever drops it: the end of a connection or of its driver's queue, a follow-up
request that cannot be sent on a closed channel, a failure, or at a boot an entry
behind a hole, which `seed_from_control` does not look at.

`Boot` is `add_core(control)` and `seed_from_control`; `Connect` the start of
`run_connection`; `OnDiscoveryKey`, `OnChannel`, `OnClose` its protocol events;
`TakeAddCores`, `SkipCore`, `OpenCore`, `InsertCore`, `OpenCoreFails`,
`FinishAddCores` its handling of `AddCores` split where `add_core` waits;
`CommandOpen`, `HubOpen`, `HubClose` the protocol; `OnEntry` the control core's
task (store, follow up, announce). Keys of a list are added in any order.
A control task asks for nothing it holds when it begins (`OnChannel` sets
`sent`), but once it has filled a hole it goes on with the next entry, held or not
(`Asks`); an entry that came over another channel or connection meanwhile may
still be asked for or not.

### 3.3 CoreStore

The four files are `hdr` (two slots), `log` (the entries a reader would find),
`tree` (nodes), `bitmap`, `data`. `mem` is the Hypercore in memory. `step` is
the next call of `flush_infos` of the operation in progress:

    idle -> entry -> idle                                    (three proofs of four)
    idle -> entry -> bits -> nodes -> header -> cut -> idle   (the fourth, and the first after opening)
    idle -> bits -> nodes -> header -> cut -> idle            (set_manifest)

`Crash` may come in any window of `CrashAt`, and leaves any part of the new
nodes in the tree file when it comes at `nodes`. A window is the step that would
be next, but for one: from an entry that was written over entries which are
nowhere else yet to the header that makes up for it, the window is
`"overwritten"` (`mem.over`, a history variable). `Open` takes the newer header
by the rule on the two bits (`Opened`) and replays the entries (`Replayed`, a
recursive function over the log). A tree node is the interval of blocks it
spans, its width a power of two up to the `Height` of the tree, which gives
roots, parents, siblings and the file index (`first + last`) without recursion.

Assumed: writes reach the disk in the order they are issued, and a record
(header, entry, node, bitfield page, value) whole or not at all. The first is
what a killed process or a FATFS volume synchronised after each write gives;
the second is what the entries' and headers' checksums detect, at the price of
the record. An entry written over older entries is modelled by bytes: `Remains`
says what a reader finds behind it.

### 3.4 Provisioning

`blob` and `provisioned` are the two NVS keys, all that survives. `main` is
where the main thread is: off, the normal path, or a step of
`provisioning::run`. `central`, `reasm`, `expected`, `highWater`, `inProgress`
are the statics of `leaf_prov.c` that only the Bluetooth host task touches;
`payload`, `payloadLen` and the semaphore `given` are the ones both threads do;
`handing` is the part of `payload` a commit writes next, 0 when none is under
way. `copied` and `copyLen` belong to the main thread. `acked` (phones that were
told "ok") and `raced` (the buffer was being written while it was copied) are
history.

| action | code |
|---|---|
| `Boot` | `main.rs` 144-199: button, record, cfg.toml or Bluetooth; a restart when Bluetooth does not start |
| `Connected`, `Disconnected` | `gap_event` |
| `Begin`, `Chunk`, `Commit` | the three opcodes of `handle_frame`; an accepted commit stores the length |
| `HandPart`, `Give` | the rest of an accepted commit: the `memcpy` (151), then the semaphore (152-154); the host task may run on the other core, so the main thread's steps come in between |
| `TakePayload`, `ReadLength`, `CopyPart` | `leaf_prov_wait_payload`, split where the host task can run in between |
| `StoreBlob`, `StoreFlag` | decode, validate, and the two NVS writes of `store_payload`, each of which may fail |
| `Leave`, `PowerCut` | the restart after success; power |

A payload is cut into parts and a buffer holds, at each part, the payload that
part came from, so that mixtures can be told from payloads. A mixture of
good payloads of the same layout is taken to validate: it may be JSON that
decodes. The 16-bit checksum matches only the buffer it was made for;
collisions are left out. Statuses other than "ok" only report what a guard
already says.

### 3.5 Supervisor and Device

`sup` is where the supervisor is: `scan`, `try` (in `connect_known_network`),
`joined`, `grace`, `leaving`, `hold`, or `ended` with `main`. `order` is what it
has yet to try and `rotate` its argument. `wifi` is the driver's state,
`hubReachable` the shared flag, `conn[a]` the network the connection to address
`a` was made on. The environment is `air` (which networks are there and let us
in), `signal` (their order by strength) and `answers` (which hub answers
through which network). `foundOn` and `late` are history.

`Scan`, `Join`, `SupervisorEnds`, `NoneJoined` are `connect_known_network`;
`EnterGrace`, `SeesHub`, `GiveUp`, `LeaveNetwork`, `NoticesDrop` the loop of
`main`; `Dial` and `ConnectionEnds` `connection_loop`. The last look at the flag
and the disconnect are two steps (`leaving`), because a hub may be reached in
between. A connect and the store to the flag behind it are one step: nothing is
awaited there, and a thread held up there while the supervisor gives the network
up and joins another, which takes seconds, is not considered. Time is kept in guards: a dead connection ends after 16 s and its loop
dials again after 3 s, so the 25 s of the grace period are not over
(`GraceEnds`) before each loop whose connection is dead has dialed, and has
connected if its hub answered from the start.

`Device` composes both: `Boot` starts `Supervisor` when there is a configuration
(a leaf thread that cannot start, or a driver or a voice thread that cannot and
takes `main` down with it, counts as an upset), and power takes everything but
NVS. When `main` ends, so does the driver it owns, and the network is left.

### 3.6 Buzzer and Voice

`Buzzer` is `buzzer.rs`: `tuneOrder`, `nextTune`, `lastTune`; `PlayRandom` with a
tune that plays or fails. `Voice` extends it. The unit of time is the window the
microphone delivers (64 ms); the constants named after those of `voice.rs` count
windows. Windows of a capture are numbered, pre-roll included, and `sent` lists
the frames that reached the host, by number: what arrives is a matter of order,
not of sound.

| action | code |
|---|---|
| `IdleWindow`, `OpenGate` | below and above the loudness gate (387-435); the models are warmed on the pre-roll and may fire on it |
| `CaptureWindow` | one window of a capture (436-621): the models' verdict (`MwwStep`), what is kept from before the wake (`Kept`), the timers (`Account`), a tune (`PlayTune`) or the stream and its end (`Stream`) |
| `FeedbackEnds` | `drive_feedback`: done, an error, or its deadline of 25 s |

Sound is two choices per window: whether it is loud, and what the models make
of it. `wake` stands for `wake_fired` and `extended_wake_fired`, which are set
together. `PlayTune` asks the buzzer for a tune; whether one is heard (the buzzer
may be missing, the tune may fail) is its outcome. After a wake the hits are no longer counted, since only a log line
depends on them. A connection breaks at any frame; what arrived over a broken
one is forgotten, so `Framed` speaks of unbroken ones. Left out: the LED, PCM
conversion, and the second pre-roll, which holds the same windows as the first.

## 4. What is checked

| run | module, configuration | properties | instance | states |
|---|---|---|---|---|
| `channel_live` | `MCCoreChannel`, `CoreChannel_live` | `TypeOK`, `NoDeadWait`, `Converges` | hub - leaf - leaf chain, 2 blocks, one storage failure | 97 thousand |
| `channel_twice` | `MCCoreChannel`, `CoreChannel_twice` | `UpgradesAnswerable`, `Mirrors` | one leaf with two connections to a hub that learns the manifest late, 2 blocks, a lost connection, a failing tick | 222 thousand |
| `mirror_live` | `MCMirrorNode`, `MirrorNode_live` | `TypeOK`, `OneOpen`, `NothingForgotten`, `MirrorsRegistry`, `LearnsUnlessLost` | one dialed connection, two control entries (the second repeats a core), a closed channel, a restart, any one failure | 554 thousand |
| `mirror_pair` | `MCMirrorNode`, `MirrorNode_pair` | `OneWriter` | a dialed and an accepted connection announcing the same core, a failing open, a drop, a restart | 65 thousand |
| `store_safe` | `CoreStore`, `CoreStore_safe` | `TypeOK`, `Readable`, `Fetchable`, `ContiguousRight`, `ManifestFirst`, `Durable` | 3 blocks in any order and any upgrades, power lost twice in any window but `"cut"` and `"overwritten"` | 1.02 million |
| `device_live` | `MCDevice`, `Device_live` | `DeviceTypeOK`, `AckedIsStored`, `WholeUnlessRaced`, `HoldEarned`, `Serves` | one phone, two good payloads of two parts and a bad one, two mishaps; two networks, one hub address, one upset | 632 thousand |
| `voice_live` | `Voice`, `Voice_live` | `VoiceTypeOK`, `Framed`, `TuneUnlessLate`, `NeverTwice`, `ComesBack` | three tunes, all limits scaled to 2 to 6 windows, any sound, any verdicts | 290 thousand |
| `mirror_learns`, `mirror_both`, `store_cut`, `store_twice`, `device_leaves` | | one each, violated | see section 7 | |

**What the passing runs show.** `channel_live`: with a storage failure anywhere
in a handler, no channel waits for an answer that nobody owes it, and both
leaves end up with all blocks, the second one through the first.
`channel_twice`: two channels of one core cannot make each other ask for a
length of zero (which in the code's unsigned arithmetic would wrap) or for what
the remote lacks, and stale proofs are refused rather than applied.
`mirror_live`: however Opens and Closes cross, no core has two Opens on the
wire; a boot finds every entry of the contiguous prefix again; announced keys are
lost only together with what carried them, and every other one is learned and
mirrored. `mirror_pair`: the lock does its job across
connections. `store_safe`: after power is lost twice, outside the
windows of `store_cut` and `store_twice`, opening restores every length and block
a proof had added and everything can be read or fetched.
`device_live`: a phone that was told "ok" can rely on it through any two power
cuts, failing writes or attempts to provision anew; parts of two payloads are
never stored as one unless a commit writes the buffer while it is copied; a flag left over from
another network does not make the supervisor hold; and a board in sight of a hub
is connected again and again, by rotation also when the strongest network has
none. `voice_live`: what the host gets is the utterance from the kept windows on,
each window once; for `petito` the buzzer is asked for a tune unless it fired too
late; and in silence, noise, or with a host that vanished the thread listens
again.

**What they do not show.** Some properties except what the code does get wrong, or
cannot help. `NothingForgotten` and `LearnsUnlessLost` except the keys in `lost`;
that keys do get lost is what `mirror_learns` shows, for one of the causes.
`WholeUnlessRaced` excepts a copy the buffer was written under: it says nothing of
that race, which the code does not prevent. `Converges` holds in `channel_live`,
whose failures are those of a handler; it says nothing of one in the tick. `Serves`
excepts a network that lost its hub while it was held, which is `device_leaves`,
and a supervisor that has ended. `Framed` speaks of unbroken connections; that the
thread survives a broken one is `ComesBack`.

**Bounds.** Two blocks are the smallest log with an upgrade of more than one
block, a chain of block requests, and growth while a chain runs. Two leaves in a chain are the smallest
topology in which a leaf feeds a leaf; two parallel links the smallest in which
a core moves on behind a channel's back. One failure suffices for "a handler
failed and nothing else is wrong"; two independent ones only repeat it, because
the error branch returns to a state without in-flight marks. In `MirrorNode`
two entries with a common core are the smallest queue whose tail can be lost;
two connections the smallest that race. In `CoreStore` three blocks give joins
of one to two, one to three and two to three (a node that spans both sides, a
root taken over unchanged, and one joined to a new leaf); the flush counter of
four then meets every phase. Two power cuts are the smallest number with an
entry written over what the first one left in the log; `store_cut` needs four
blocks. In `Device` two payloads of two parts are the
smallest that can be mixed; two mishaps are a failed write and a power cut, or a
board that was set up, is reset with the button held and provisioned again; two
networks are the smallest rotation; one upset is a hub that moves, an access
point that goes, a scan that fails or a signal that changes while the supervisor
is anywhere. In `Voice` the limits keep their order and their relations (a
pre-roll shorter than what is kept before a wake, the disambiguation plus its
slack longer than the silence, the cap longer than both), so that every order of
the timers occurs. `MaxMishaps` and `MaxUpsets` bound what the environment does;
`Turns` bounds `rotate`, which the code uses modulo the number of candidates
only. `MaxDrops`, `MaxCloses`, `MaxRestarts`,
`MaxFaults`, `MaxCrashes` and `MaxLen` bound counters the code does not have.

**Fairness.** `Fairness` of `CoreChannel` and `MirrorNode` is weak fairness of
each message handler, each tick, each dial loop, each driver's step and of the
hub: the executor polls every task that can run, timers fire, dial loops never
end (`leaf-host/src/main.rs` 119-146, `ESP/src/main.rs` 527-550), and the hub is
a live program that answers. A handler's fairness is on the disjunction of all
its cases, since the task takes whatever is at the head of its queue. Nothing
forces losses, closes, restarts, failures, or the hub's next append to
`CoreChannel`; `MirrorNode`'s `HubPublish` is fair so that the announcements of
the instance do appear.

`DeviceFairness` is weak fairness of the supervisor's step, of each dial loop and
of the end of each dead connection: two threads that never wait for anything
else than timers. Nothing forces phones, power or the environment. `Voice` is
fair in reading windows and in ending feedback: the driver delivers windows and
`drive_feedback` has a deadline; that writes to the host return is assumed (they
have no timeout of their own, see section 6).

**Deadlock.** `CoreChannel` and `MirrorNode` are checked without it: once
everything is mirrored a quiet connection with keepalives has no step left, and
that is what the device does until the hub writes again. `CoreStore` is checked
with it: a device that is up can always take another proof or set a manifest.
`Device` and `Voice` are checked without: a board whose mishaps are used up may
hold its network for good, and both `main` and the voice thread may end, as in
the code.

Every property of a passing run has a mutant in `PROJECT.json`: a change to one
definition, of the kind a slip in that code would make, under which the run
finds the property violated.

## 5. What is proved

For all values of the constants that satisfy the named assumptions
`ChannelAssumption`, `MirrorAssumption`, `StoreAssumption`,
`ProvisioningAssumption`, `SupervisorAssumption`, `BuzzerAssumption` and
`VoiceAssumption` (any number of leaves, links, cores, connections,
announcements, phones, payloads, networks, hubs and tunes; any length of log and
height of tree; any number of drops, faults, power cuts, mishaps and upsets):

| theorem | says |
|---|---|
| `CoreChannel_proofs!Invariance` | `Spec => []ChannelInv` |
| `CoreChannel_proofs!Typing` | `Spec => []TypeOK` |
| `CoreChannel_proofs!Answerable` | `Spec => []UpgradesAnswerable` |
| `CoreChannel_proofs!Refinement` | `Spec => Mirrors` |
| `Waiting_proofs!NeverWaitsInVain` | `Spec => []NoDeadWait` |
| `MirrorNode_proofs!OneOpensEach` | `Spec => []OneWriter` |
| `MirrorNode_proofs!NoneForgotten` | `Spec => []NothingForgotten` |
| `MirrorNode_proofs!OpensOnce` | `Spec => []OneOpen` |
| `MirrorNode_proofs!NodeTyping` | `Spec => []TypeOK` |
| `CoreStore_proofs!StoreInvariant` | `Benign /\ Spec => []StoreInv` |
| `CoreStore_proofs!StoreTypes` | `Benign /\ Spec => []TypeOK` |
| `CoreStore_proofs!HeldReadable` | `Benign /\ Spec => []Readable` |
| `CoreStore_proofs!PrefixFetchable` | `Benign /\ Spec => []Fetchable` |
| `CoreStore_proofs!HintRight` | `Benign /\ Spec => []ContiguousRight` |
| `CoreStore_proofs!ManifestKept` | `Benign /\ Spec => []ManifestFirst` |
| `CoreStore_proofs!NothingLost` | `Benign /\ Spec => Durable` |
| `Device_proofs!ProvisioningInvariant` | `ProvisioningSpec => []ProvisioningInv` |
| `Device_proofs!ImplementsProvisioning` | `DeviceSpec => ProvisioningSpec` |
| `Device_proofs!DeviceTypes` | `DeviceSpec => []DeviceTypeOK` |
| `Device_proofs!Acknowledged` | `DeviceSpec => []AckedIsStored` |
| `Device_proofs!StoredWhole` | `DeviceSpec => []WholeUnlessRaced` |
| `Device_proofs!HoldsWhatItFound` | `DeviceSpec => []HoldEarned` |
| `Voice_proofs!VoiceBounded` | `VoiceSpec => []VoiceTypeOK` |
| `Voice_proofs!PlayerInvariant` | `VoiceSpec => []BuzzerInv` |
| `Voice_proofs!NeverTwiceInARow` | `VoiceSpec => NeverTwice` |
| `Voice_proofs!UtterancesFramed` | `VoiceSpec => []Framed` |
| `Voice_proofs!PetitoAnswered` | `VoiceSpec => []TuneUnlessLate` |

`Benign` says that power is cut in neither of the windows `"cut"` and
`"overwritten"`. It is the weakest such hypothesis: `store_cut` and
`store_twice` are the counterexamples when either of the two is allowed.

**CoreChannel.** `UpgradesAnswerable` is not inductive: a request is answerable
because of what the `PeerState` said when it was sent, which was right because
of a Synchronize that has been consumed. `ChannelInv` adds that link: no
`PeerState` believes the remote longer than it is (`RemoteKnown`), no message
in a queue says more than its sender has or asks for more than its receiver has
(`QueuesSound`), and no leaf has more than the hub (`WithinHub`). Each of these
is kept by the others because lengths only grow (lemma `SoundGrows`), and
`request_upgrade` is reached only when the remote's known length exceeds ours.
An upgrade that verifies starts at or ends on our length and its head is not
below its end, so the length never shrinks; with that, each step is a step of
`Replica` or leaves its variables alone. `NoDeadWait` counts what is in transit;
its own invariant `WaitInv` says that a mark towards the hub has its request on
the way out or the answer on the way back. Every handler keeps that for the
mark it sets or leaves (lemma `LeafHandles`), the hub turns one into the other,
and a channel that starts overwrites a queue only where nothing was sent.

**MirrorNode.** `OneWriter` is strengthened by `WritersCounted`: a core has
exactly one writer if it is registered or being opened, otherwise none. That
needs `LockHeld` (who opens a core holds the lock, and conversely),
`OpensNewCores` (the core being opened is not registered, since it was checked
under the same lock) and `QuietBeforeBoot`. `NothingForgotten` then goes
through on its own: a step may only move a key from the queue of a connection
to its work list, from there to the registry, or count it as lost. `OneOpen` needs only
`OpensCounted`: an Open stands for exactly the cores whose local end is attached, so a command for an
attached core, a Close and a failed connection keep the two in step. In `TypeOK`
the bound on `commands` has to be argued: a driver forgets a core when it takes
a Close from its queue of events, long after the hub sent it, and asks again at
the next announcement while the first command may still be waiting.
`CommandsCounted` keeps, for every core, the commands that wait, the Closes that
lie in the queue, and one more unless the core counts as open, within one plus
the channels the hub has closed; a Close raises both sides, and taking it moves
one unit from the second to the third term.

**CoreStore.** Everything follows from two facts. `MemoryRight`: the core in
memory can read what it holds, from nodes that are in the tree file or not yet
written (`Known`), and its hint is right. `Faithful`: the newest header and the
entries behind it *are* that core - their blocks with the bitfield file are what
it holds, their nodes with the tree file are `Known`, and their lengths form a
chain from the header's to its own. A power cut disturbs neither, since they
speak of the disk and of what memory was; opening then replays the entries, and
by induction over them (`Recovers`) the core after `k` entries has the length
where the chain stands, so that no upgrade is taken for a truncation and no root
is missing, and at the end it is the core that memory was. `Faithful` is
suspended in the two windows: between header and cut the entries are no longer
*behind* the header, and under an entry written over older ones they cannot be
found. `Stages` says what each step of a flush has done already, so that the
header that ends the suspension finds bitfield and tree written.

That memory stays right when a block arrives is a matter of the tree's geometry
(`FlatTree_proofs`): two nodes are nested or disjoint (`Laminar`), a node within
the length lies below a root (`RootAbove`), an upgrade brings the new roots that
are not old ones (`RootsGrow`), after it the offset of an old block takes nodes
that gave it before, or old roots (`OffsetGrows`), and a block's proof together with what gave its anchor's offset
gives the block's own (`BlockPlaced`).

**Provisioning.** That a stored record is one payload must be known of every
buffer on the way: what has been handed over is whole, or a commit is on its way
to make it so out of a reassembly buffer that is (`Coming`, `HandedOver`), and what
the main thread has copied so far is the beginning of one payload unless a commit
raced with it (`CopiedWhole`): one that begins during the copy counts as a race at
once, one that began before when a part is copied under it. `AckedIsStored` needs
that a record which is flagged validates and that the flag is set only behind a
blob (`FlagBehind`, `StoredValid`): replacing a record writes a blob that
validates before anything else.

**Device.** A step of the board is a step of `Provisioning` or leaves its
variables alone, so what is proved there holds of the board without a second
induction. `HoldEarned` becomes inductive when the flag in the grace period is
tied to the network as well (`HubFound`): the flag is reset on entering it, and
set together with `foundOn`. `DeviceTypes` adds the supervisor's part to
`ProvisioningInv`; what a scan finds in sight is a sequence of networks by
induction over the strengths, and stays one when it is rotated.

**Voice.** `NeverTwice` rests on `BuzzerInv`: the order holds every tune once,
and as long as it has a tune left, that one is not the last one played. Within
an order that holds because the order is injective, across a reshuffle because
`AvoidFirst` keeps it one and moves the last tune away from the front. `Framed`
rests on `FrameInv`, which adds what happens before an utterance: as long as
none is running the connection is closed and the pre-roll is exactly the last
`Prewake` windows, and a wake that still waits for its stream was made from
them. What the microphone then appends is the next window (`OneMore`), also
while the ring is full (`KeepsLast`), and a send either appends to what the
host got or breaks the connection (`SendOutcome`).
`TuneUnlessLate` needs to know of the silence while `petito` waits: it is no
longer than it was when `petito` fired plus the windows waited since (`TuneInv`),
so a silence that ends the capture before the tune is due was there before. That
a capture without a wake never waits for the host is taken from `FrameInv`.

`VoiceBounded` says that what is kept in memory is bounded by constants although
a wake may come at any time and sets the time it listens back to zero: the
windows of a capture are at most the pre-roll and those listened for since, and
once a stream has started at most `FastMax` more, which were listened for before
the wake (`BoundsInv`). Opening the gate
feeds the whole pre-roll to the models, which is an induction over it
(`WarmedHears`).

**Induction.** The theorems of the library that state induction, or that a
recursive function exists, take the hypothesis as an operator, which none of the
provers can instantiate. `Induction` restates them with a set in its place and
proves them from the library's theorem that `<` is well-founded: every set of
naturals has a least element (`Least`), the two forms of induction
(`SetInduction`, `SetInductionTo`), and that a function may be defined by a first
value and a step (`Recursion`). The recursive functions of the models
(`Width`, `Replayed`, `Found`, `Warmed`, `Unclosed`) are reasoned about through it.

Not provable with the tools at hand and left to the model checker is liveness:
`Converges`, `MirrorsRegistry`, `LearnsUnlessLost`, `Serves` and `ComesBack`.
Everything else that a passing run checks is proved.

## 6. Not modelled

* I/O errors inside a flush, torn single records, the truncation of FATFS files
  by rewriting, a bitfield of several pages: listed as hazards, planned (8, 10).
* The channel map's ids and capability checks: planned (9).
* `connect_any` (600 ms per address) and writes to the host without a timeout
  (`ESP/src/voice.rs` 481, 504), during which the microphone is not read: a
  window the driver loses has no number in `Voice`.
* The choice between flash and RAM at mount, the status texts sent to the phone
  other than "ok", the LED. `config::clear` is never called.
* Cryptography (`snow`, `hypercore_handshake`), codecs (`hypercore_schema`),
  wake-word signal processing (`ESP/components/mww`): functions over byte
  strings that a model checker cannot usefully enumerate.
* The tunes' notes, the demo binaries, the JavaScript harnesses and the superseded
  `esp32-s3-listam-bridge` prototype: no state worth checking.
* `append`, `clear` and reorganisations of `HC`: a blind mirror does not call
  them. The fork is constant.

## 7. Where the code and its description part

Each is a run that the model checker refutes, with the line it contradicts.

1. `mirror_learns`: the second of two queued announcements is dropped when the
   first one makes the driver reconnect (`M` 362), and never repeated, against
   `leaf-peer/README.md` 33-34.
2. `mirror_both`: a core learned through one dialed connection is not opened on
   another one that had already been told of it, against `leaf-peer/README.md`
   230-233.
3. `store_cut`: power lost between the header and the cut of the oplog replays
   entries the header contains; an upgrade among them is taken for a truncation
   and blocks that are held become unreadable, against `leaf-peer/README.md`
   111-121.
4. `store_twice`: after a restart the first proof's entry overwrites entries
   that are nowhere else yet; a second power loss before its header loses what
   they held, against `leaf-peer/README.md` 117-119.
5. `device_leaves`: while a network is held only WiFi is looked at
   (`ESP/src/main.rs` 313-319); a board whose hub went away stays there although
   another network in sight has one, against the comment at 312 and
   `leaf-peer/README.md` 106-109.

Seen while modelling, without a run of their own:

* An error in the resync tick (`M` 533-538) ends the channel task, against the
  comment at `M` 505-506, while the hub's keepalives keep the connection from
  being idle: the hole the tick was to heal stays. With one leaf on the hub,
  `FaultKinds = {"tick"}` and `MaxDrops = 1`, `Converges` is false.
* A control block that is handled after the hub closed the channel is stored, but
  the request that follows it cannot be sent and its keys are not announced
  (`M` 788). With one closed channel and a second entry that names no core,
  `Learns` is false of this cause alone.
* At boot the control core is read over its contiguous prefix only (`M` 120,
  against `leaf-peer/README.md` 116-117): a core announced by an entry behind a
  hole is not registered until a hub has filled the hole. The model counts it in
  `lost`.
* A second payload committed while the main thread copies the first
  (`leaf_prov.c` 150-151 and 349-353, against `leaf_prov.h` 8-9) makes the copy
  parts of both. The window is a `memcpy` of at most 1 KiB, met when the first
  commit finds the main thread busy; the copy is validated afterwards.
* Two block requests may be outstanding on one channel, against the comment at
  `M` 404-408: after the last block of a chain an upgrade is requested
  (`M` 736-740) without a look at `inflight_upgrade`. It costs duplicate work.
* A hub reached between the join and the reset of the flag
  (`ESP/src/main.rs` 293) is overlooked: the grace period ends and the network is
  left, its connection with it. `Serves` holds because the rotation comes back.
* A name or password that passes `payload_to_runtime` but does not fit into the
  driver's fields ends `main` (`ESP/src/main.rs` 382-399).
* An NVS read that fails at boot counts as "no record" (`ESP/src/main.rs` 148).
* `petito` gets no tune when it fires late in the 4 s of a command or after more
  than 250 ms of silence, against `ESP/src/voice.rs` 2-4: `TuneUnlessLate` says
  when it does.
* When a hole in the middle is filled, block requests go on at `index + 1` and
  fetch again what is held (`M` 717-735, against the comment at 719-720). This
  costs traffic, and the model does the same.
* A manifest request that is answered with NoData is not repeated on that
  connection (`M` 470-481, 521, against the comment at 168); the model has it
  with `HubReady = FALSE`, which is why the liveness run takes a hub that knows
  its manifest.
* A flush that fails has already cleared the dirty marks (`HC/bitfield/dynamic.rs`
  81, `HC/oplog/mod.rs` 394): what was not written is not written again.
* A bitfield file is reopened in steps of 1024 bytes where a page has 4096
  (`HC/bitfield/dynamic.rs` 37-53).
