----------------------------- MODULE MirrorNode -----------------------------
(***************************************************************************)
(* One leaf as a whole: the Registry of cores it mirrors, the connection   *)
(* drivers `run_connection` that share it, the protocol's channel map on   *)
(* every connection, and how the leaf learns cores from the control core,  *)
(* across lost connections, closed channels, storage errors and restarts.  *)
(*                                                                         *)
(* A driver handles one arm of its select at a time and polls neither the  *)
(* protocol nor its channel tasks meanwhile; only add_core makes it wait   *)
(* (for the lock `opening` and for storage), so that is where connections  *)
(* interleave.  What a channel task does for the data of its core is the   *)
(* subject of CoreChannel; here a task exists or not, and the control      *)
(* core's task stores entries and announces the keys they name.            *)
(*                                                                         *)
(* The hub is a JavaScript peer outside the repository: it opens a channel *)
(* for every core, may close it, and serves control entries.               *)
(***************************************************************************)
EXTENDS Naturals, Sequences, Functions

CONSTANTS
  Control,      \* the control core's key
  Cores,        \* the keys of the project's cores
  Announce,     \* Announce[i]: the keys that control entry i - 1 names
  Conns,        \* the node's connections
  Dialed,       \* those it dials itself; the others it accepts
  FaultKinds,   \* which failures may happen: "add", "after", "skip"
  MaxDrops,     \* bound: connections lost for an external reason
  MaxCloses,    \* bound: channels the hub closes
  MaxRestarts,  \* bound: restarts of the leaf
  MaxFaults     \* bound: failures

Keys == Cores \cup {Control}
Entries == 0..(Len(Announce) - 1)
Named(i) == Announce[i + 1]
NamedBy(S) == UNION {Named(i) : i \in S}
Idle == [step |-> "idle"]
NoConn == "none"

ASSUME MirrorAssumption ==
  /\ Control \notin Cores
  /\ Announce \in Seq(SUBSET Cores)
  /\ Dialed \subseteq Conns /\ NoConn \notin Conns
  /\ FaultKinds \subseteq {"add", "after", "skip"}
  /\ MaxDrops \in Nat /\ MaxCloses \in Nat /\ MaxRestarts \in Nat /\ MaxFaults \in Nat

VARIABLES
  published,  \* control entries the hub has appended
  stored,     \* control entries on the leaf's storage; survives restarts
  running,    \* the process has booted
  registry,   \* Registry.cores: the keys registered
  writers,    \* writers[k]: storages opened for core k since boot
  opening,    \* holder of Registry.opening, or NoConn
  up,         \* up[c]: connection c is established
  driver,     \* driver[c]: what c's driver is doing
  messages,   \* messages[c]: DriverMsg::AddCores queued for c's driver
  opened,     \* opened[c]: the driver's `opened` set
  commands,   \* commands[c][k]: Command::Open queued for the protocol
  events,     \* events[c]: the protocol's queued events
  local, remote, \* local[c], remote[c]: ends attached in the channel map
  tasks,      \* tasks[c]: cores with a channel task whose channel is open
  inbox,      \* inbox[c]: control blocks received and not yet handled
  sent,       \* sent[c]: control entries c's control task has, or does not ask for
  opens,      \* opens[c][k]: Opens we sent since the hub last closed k
  lost,       \* keys announced and dropped since boot (history)
  drops, closes, restarts, faults  \* how much of each bound is used

bounds == <<drops, closes, restarts, faults>>
node == <<running, registry, writers, opening>>
wire == <<opened, commands, events, local, remote, tasks, opens>>
control == <<stored, inbox, sent>>
vars == <<published, stored, running, registry, writers, opening, up, driver, messages,
          opened, commands, events, local, remote, tasks, inbox, sent, opens, lost,
          drops, closes, restarts, faults>>

\* Info.contiguous_length of the control core.
Contiguous == {i \in stored : 0..i \subseteq stored}
Queued(c) == (UNION Range(messages[c])) \cup
             (IF driver[c].step = "idle" THEN {} ELSE driver[c].todo)

Init ==
  /\ published = 0 /\ stored = {}
  /\ running = FALSE /\ registry = {} /\ writers = [k \in Keys |-> 0] /\ opening = NoConn
  /\ up = [c \in Conns |-> FALSE]
  /\ driver = [c \in Conns |-> Idle]
  /\ messages = [c \in Conns |-> <<>>]
  /\ opened = [c \in Conns |-> {}]
  /\ commands = [c \in Conns |-> [k \in Keys |-> 0]]
  /\ events = [c \in Conns |-> <<>>]
  /\ local = [c \in Conns |-> {}] /\ remote = [c \in Conns |-> {}]
  /\ tasks = [c \in Conns |-> {}]
  /\ inbox = [c \in Conns |-> {}] /\ sent = [c \in Conns |-> {}]
  /\ opens = [c \in Conns |-> [k \in Keys |-> 0]]
  /\ lost = {}
  /\ drops = 0 /\ closes = 0 /\ restarts = 0 /\ faults = 0

----------------------------------------------------------------------------
(* The process and its connections.                                        *)

\* Mutant: the last entry is not read back.
SeededShort == {i \in Contiguous : i + 1 \in Contiguous}

\* The entries seed_from_control reads back; what lies behind a hole is lost.
Seeded == Contiguous

\* add_core(control), then seed_from_control, before any connection is made.
Boot ==
  /\ ~running /\ running' = TRUE
  /\ registry' = {Control} \cup NamedBy(Seeded)
  /\ writers' = [k \in Keys |-> IF k \in registry' THEN 1 ELSE 0]
  /\ lost' = NamedBy(stored \ Contiguous) \ registry'
  /\ UNCHANGED <<published, control, opening, up, driver, messages, wire, bounds>>

\* run_connection begins.  The initiator opens every core it knows at the
\* handshake; the acceptor waits for the remote to announce cores.
Connect(c) ==
  LET keys == IF c \in Dialed THEN registry ELSE {} IN
  /\ running /\ ~up[c]
  /\ up' = [up EXCEPT ![c] = TRUE]
  /\ opened' = [opened EXCEPT ![c] = keys]
  /\ commands' = [commands EXCEPT ![c] = [k \in Keys |-> IF k \in keys THEN 1 ELSE 0]]
  /\ UNCHANGED <<published, control, node, driver, messages, events, local, remote, tasks,
                 opens, lost, bounds>>

\* run_connection returns: the protocol, every channel task, the driver's queue
\* and whatever it held are dropped.
Ended(C) ==
  /\ up' = [c \in Conns |-> up[c] /\ c \notin C]
  /\ driver' = [c \in Conns |-> IF c \in C THEN Idle ELSE driver[c]]
  /\ messages' = [c \in Conns |-> IF c \in C THEN <<>> ELSE messages[c]]
  /\ opened' = [c \in Conns |-> IF c \in C THEN {} ELSE opened[c]]
  /\ commands' = [c \in Conns |-> IF c \in C THEN [k \in Keys |-> 0] ELSE commands[c]]
  /\ events' = [c \in Conns |-> IF c \in C THEN <<>> ELSE events[c]]
  /\ local' = [c \in Conns |-> IF c \in C THEN {} ELSE local[c]]
  /\ remote' = [c \in Conns |-> IF c \in C THEN {} ELSE remote[c]]
  /\ tasks' = [c \in Conns |-> IF c \in C THEN {} ELSE tasks[c]]
  /\ inbox' = [c \in Conns |-> IF c \in C THEN {} ELSE inbox[c]]
  /\ sent' = [c \in Conns |-> IF c \in C THEN {} ELSE sent[c]]
  /\ opens' = [c \in Conns |-> IF c \in C THEN [k \in Keys |-> 0] ELSE opens[c]]

\* The driver polls its protocol and tasks only between two arms.
Polls(c) == running /\ up[c] /\ driver[c].step = "idle"

Drop(c) ==
  /\ Polls(c) /\ drops < MaxDrops /\ drops' = drops + 1
  /\ Ended({c})
  /\ lost' = lost \cup Queued(c)
  /\ UNCHANGED <<published, stored, node, closes, restarts, faults>>

Restart ==
  /\ running /\ restarts < MaxRestarts /\ restarts' = restarts + 1
  /\ running' = FALSE /\ registry' = {} /\ writers' = [k \in Keys |-> 0]
  /\ opening' = NoConn /\ lost' = {}
  /\ Ended(Conns)
  /\ UNCHANGED <<published, stored, drops, closes, faults>>

----------------------------------------------------------------------------
(* The protocol: commands from the driver, Open and Close from the hub.    *)

\* Mutant: every command puts an Open on the wire.
NeverAttached(c, k) == FALSE

\* ChannelMap::has_local_channel.
Attached(c, k) == k \in local[c]

\* Protocol::command_open.
CommandOpen(c, k) ==
  /\ Polls(c) /\ commands[c][k] > 0
  /\ commands' = [commands EXCEPT ![c][k] = @ - 1]
  /\ \/ Attached(c, k) /\ UNCHANGED <<local, opens, events>>
     \/ /\ ~Attached(c, k)
        /\ local' = [local EXCEPT ![c] = @ \cup {k}]
        /\ opens' = [opens EXCEPT ![c][k] = @ + 1]
        /\ events' = IF k \in remote[c]
                     THEN [events EXCEPT ![c] = Append(@, [t |-> "channel", key |-> k])]
                     ELSE events
  /\ UNCHANGED <<published, control, node, up, driver, messages, opened, remote, tasks,
                 lost, bounds>>

\* Protocol::on_open: pair with our end, or tell the driver.
HubOpen(c, k) ==
  /\ Polls(c) /\ k \notin remote[c]
  /\ remote' = [remote EXCEPT ![c] = @ \cup {k}]
  /\ events' = [events EXCEPT ![c] = Append(@,
        [t |-> IF k \in local[c] THEN "channel" ELSE "discovery", key |-> k])]
  /\ UNCHANGED <<published, control, node, up, driver, messages, opened, commands, local,
                 tasks, opens, lost, bounds>>

\* The events of queue q that are still good when channel k is closed.
Unclosed(q, k) ==
  LET kept[n \in 0..Len(q)] ==
        CASE n = 0 -> <<>>
          [] n > 0 /\ q[n] = [t |-> "channel", key |-> k] -> kept[n - 1]
          [] OTHER -> Append(kept[n - 1], q[n])
  IN  kept[Len(q)]

\* Protocol::on_close: both ends leave the map, the channel is closed for its
\* task and for a Channel event still queued.
HubClose(c, k) ==
  /\ Polls(c) /\ k \in remote[c] /\ closes < MaxCloses /\ closes' = closes + 1
  /\ remote' = [remote EXCEPT ![c] = @ \ {k}]
  /\ local' = [local EXCEPT ![c] = @ \ {k}]
  /\ tasks' = [tasks EXCEPT ![c] = @ \ {k}]
  /\ opens' = [opens EXCEPT ![c][k] = 0]
  /\ events' = [events EXCEPT ![c] = Append(Unclosed(@, k), [t |-> "close", key |-> k])]
  /\ IF k = Control
     THEN inbox' = [inbox EXCEPT ![c] = {[b EXCEPT !.closed = TRUE] : b \in @}]
     ELSE UNCHANGED inbox
  /\ UNCHANGED <<published, stored, sent, node, up, driver, messages, opened, commands, lost,
                 drops, restarts, faults>>

----------------------------------------------------------------------------
(* The driver's handling of protocol events.                               *)

TakesEvent(c, type) ==
  /\ Polls(c) /\ events[c] # <<>> /\ Head(events[c]).t = type
  /\ events' = [events EXCEPT ![c] = Tail(@)]

\* Mutants: an announced core is opened only at the handshake; or whenever it
\* is announced.
OpenNothing(c, k) == FALSE
OpenAlways(c, k) == k \in registry

\* A core the remote announces is opened if it is registered and not open.
ShouldOpen(c, k) == k \in registry /\ k \notin opened[c]

OnDiscoveryKey(c) ==
  LET k == Head(events[c]).key IN
  /\ TakesEvent(c, "discovery")
  /\ IF ShouldOpen(c, k)
     THEN /\ opened' = [opened EXCEPT ![c] = @ \cup {k}]
          /\ commands' = [commands EXCEPT ![c][k] = @ + 1]
     ELSE UNCHANGED <<opened, commands>>
  /\ UNCHANGED <<published, control, node, up, driver, messages, local, remote, tasks, opens,
                 lost, bounds>>

\* A channel task begins with what the core holds by now.
OnChannel(c) ==
  LET k == Head(events[c]).key IN
  /\ TakesEvent(c, "channel")
  /\ tasks' = [tasks EXCEPT ![c] = @ \cup ({k} \cap registry)]
  /\ sent' = IF k = Control THEN [sent EXCEPT ![c] = stored] ELSE sent
  /\ UNCHANGED <<published, stored, inbox, node, up, driver, messages, opened, commands, local,
                 remote, opens, lost, bounds>>

\* Mutant: a core once opened counts as open for the connection's lifetime.
StaysOpened(c, k) == opened[c]

Forgotten(c, k) == opened[c] \ {k}

OnClose(c) ==
  LET k == Head(events[c]).key IN
  /\ TakesEvent(c, "close")
  /\ opened' = [opened EXCEPT ![c] = Forgotten(c, k)]
  /\ UNCHANGED <<published, control, node, up, driver, messages, commands, local, remote,
                 tasks, opens, lost, bounds>>

----------------------------------------------------------------------------
(* The control core.                                                       *)

HubPublish ==
  /\ published < Len(Announce) /\ published' = published + 1
  /\ UNCHANGED <<control, node, up, driver, messages, wire, lost, bounds>>

\* The control core's task asks for one block at a time: the first missing one,
\* unless an earlier request failed ("skip") and a later upgrade moved it on.
HubSendEntry(c, i) ==
  /\ Polls(c) /\ Control \in tasks[c]
  /\ \A b \in inbox[c] : b.closed
  /\ i < published /\ i \notin sent[c]
  /\ \/ 0..(i - 1) \subseteq stored \cup sent[c] /\ UNCHANGED faults
     \/ "skip" \in FaultKinds /\ faults < MaxFaults /\ faults' = faults + 1
  /\ inbox' = [inbox EXCEPT ![c] = @ \cup {[entry |-> i, closed |-> FALSE]}]
  /\ sent' = [sent EXCEPT ![c] = @ \cup {i}]
  /\ UNCHANGED <<published, stored, node, up, driver, messages, wire, lost,
                 drops, closes, restarts>>

\* apply_control_entry: an entry that names no key announces nothing.
Announcement(i) == IF Named(i) = {} THEN <<>> ELSE <<Named(i)>>

\* Once entry i is stored, the task of another connection or channel that has
\* not asked for it yet may pass over it; one that goes on asks for the next
\* entry, whether or not it is stored.
Asks(c, i, goesOn) ==
  \E past \in SUBSET {x \in Conns : Control \in tasks[x]} :
    sent' = [x \in Conns |->
      (sent[x] \cup (IF x \in past THEN {i} ELSE {}))
        \ (IF x = c /\ goesOn THEN {i + 1} ELSE {})]

\* on_message stores the block, sends its follow-up request, and only then
\* announces the keys.  Sending fails on a closed channel; there is nothing to
\* send after the last entry.  Reading the block back or missing_nodes may fail
\* as well ("after").
OnEntry(c) ==
  \E b \in inbox[c] :
    /\ Polls(c)
    /\ inbox' = [inbox EXCEPT ![c] = @ \ {b}]
    /\ stored' = stored \cup {b.entry}
    /\ \/ /\ messages' = [messages EXCEPT ![c] = @ \o Announcement(b.entry)]
          /\ Asks(c, b.entry, ~b.closed)
          /\ UNCHANGED <<lost, faults>>
       \/ /\ b.closed /\ b.entry + 1 < published
          /\ Asks(c, b.entry, FALSE)
          /\ UNCHANGED <<messages, faults>>
          /\ lost' = lost \cup Named(b.entry)
       \/ /\ Asks(c, b.entry, FALSE)
          /\ "after" \in FaultKinds /\ faults < MaxFaults /\ faults' = faults + 1
          /\ lost' = lost \cup Named(b.entry) /\ UNCHANGED messages
    /\ UNCHANGED <<published, node, up, driver, wire, drops, closes, restarts>>

----------------------------------------------------------------------------
(* DriverMsg::AddCores and Registry::add_core.                             *)

TakeAddCores(c) ==
  /\ Polls(c) /\ messages[c] # <<>>
  /\ messages' = [messages EXCEPT ![c] = Tail(@)]
  /\ driver' = [driver EXCEPT ![c] = [step |-> "adding", todo |-> Head(messages[c]),
                                     added |-> FALSE]]
  /\ UNCHANGED <<published, control, node, up, wire, lost, bounds>>

\* Mutant: check, open and insert without the lock.
NoLock(c) == TRUE

LockFree(c) == opening = NoConn

\* Mutant: a key that is known already ends the loop over the keys.
StopAtKnown(c, k) == {}

NextKeys(c, k) == driver[c].todo \ {k}

\* add_core of a key that is registered: None.
SkipCore(c, k) ==
  /\ driver[c].step = "adding" /\ LockFree(c)
  /\ k \in driver[c].todo \cap registry
  /\ driver' = [driver EXCEPT ![c].todo = NextKeys(c, k)]
  /\ UNCHANGED <<published, control, node, up, messages, wire, lost, bounds>>

\* add_core of a new key: lock, check, open its storage ...
OpenCore(c, k) ==
  /\ driver[c].step = "adding" /\ LockFree(c)
  /\ k \in driver[c].todo \ registry
  /\ opening' = c
  /\ writers' = [writers EXCEPT ![k] = @ + 1]
  /\ driver' = [driver EXCEPT ![c] = [step |-> "opening", key |-> k, todo |-> @.todo,
                                     added |-> @.added]]
  /\ UNCHANGED <<published, control, running, registry, up, messages, wire, lost, bounds>>

\* ... then insert it and unlock,
InsertCore(c) ==
  LET k == driver[c].key IN
  /\ driver[c].step = "opening"
  /\ registry' = registry \cup {k}
  /\ opening' = NoConn
  /\ driver' = [driver EXCEPT ![c] = [step |-> "adding", todo |-> @.todo \ {k},
                                     added |-> TRUE]]
  /\ UNCHANGED <<published, control, running, writers, up, messages, wire, lost, bounds>>

\* ... or fail, which ends the connection.
OpenCoreFails(c) ==
  /\ "add" \in FaultKinds /\ faults < MaxFaults /\ faults' = faults + 1
  /\ driver[c].step = "opening"
  /\ writers' = [writers EXCEPT ![driver[c].key] = @ - 1]
  /\ opening' = NoConn
  /\ Ended({c}) /\ lost' = lost \cup Queued(c)
  /\ UNCHANGED <<published, stored, running, registry, drops, closes, restarts>>

\* All keys handled: reconnect if one was new.  What is still queued is lost.
FinishAddCores(c) ==
  /\ driver[c].step = "adding" /\ driver[c].todo = {}
  /\ \/ /\ driver[c].added /\ Ended({c}) /\ lost' = lost \cup Queued(c)
        /\ UNCHANGED stored
     \/ /\ ~driver[c].added /\ driver' = [driver EXCEPT ![c] = Idle]
        /\ UNCHANGED <<control, up, messages, wire, lost>>
  /\ UNCHANGED <<published, node, bounds>>

----------------------------------------------------------------------------
Protocol(c) ==
  \E k \in Keys : CommandOpen(c, k) \/ HubOpen(c, k)
Driver(c) ==
  \/ OnDiscoveryKey(c) \/ OnChannel(c) \/ OnClose(c)
AddCores(c) ==
  \/ TakeAddCores(c) \/ InsertCore(c) \/ FinishAddCores(c)
  \/ \E k \in Cores : SkipCore(c, k) \/ OpenCore(c, k)

Next ==
  \/ Boot \/ Restart \/ HubPublish
  \/ \E c \in Conns :
       \/ Connect(c) \/ Drop(c) \/ Protocol(c) \/ Driver(c) \/ AddCores(c)
       \/ OnEntry(c) \/ OpenCoreFails(c)
       \/ \E i \in Entries : HubSendEntry(c, i)
       \/ \E k \in Keys : HubClose(c, k)

Spec == Init /\ [][Next]_vars

\* The executor polls every driver, the dial loops (ours or the remote's) redial,
\* and the hub opens its cores and serves what it is asked for.
Fairness ==
  /\ WF_vars(Boot) /\ WF_vars(HubPublish)
  /\ \A c \in Conns :
       /\ WF_vars(Connect(c)) /\ WF_vars(Driver(c)) /\ WF_vars(AddCores(c))
       /\ WF_vars(OnEntry(c)) /\ WF_vars(\E i \in Entries : HubSendEntry(c, i))
       /\ \A k \in Keys : WF_vars(CommandOpen(c, k)) /\ WF_vars(HubOpen(c, k))

FairSpec == Spec /\ Fairness

----------------------------------------------------------------------------
(* Properties.                                                             *)

Event == [t : {"channel", "discovery", "close"}, key : Keys]
DriverState ==
       {Idle} \cup [step : {"adding"}, todo : SUBSET Cores, added : BOOLEAN]
  \cup [step : {"opening"}, key : Cores, todo : SUBSET Cores, added : BOOLEAN]

TypeOK ==
  /\ published \in 0..Len(Announce) /\ stored \subseteq Entries
  /\ running \in BOOLEAN /\ registry \subseteq Keys
  /\ writers \in [Keys -> Nat] /\ opening \in Conns \cup {NoConn}
  /\ up \in [Conns -> BOOLEAN] /\ driver \in [Conns -> DriverState]
  /\ messages \in [Conns -> Seq(SUBSET Cores)]
  /\ opened \in [Conns -> SUBSET Keys] /\ commands \in [Conns -> [Keys -> 0..(1 + closes)]]
  /\ events \in [Conns -> Seq(Event)]
  /\ local \in [Conns -> SUBSET Keys] /\ remote \in [Conns -> SUBSET Keys]
  /\ tasks \in [Conns -> SUBSET Keys]
  /\ inbox \in [Conns -> SUBSET [entry : Entries, closed : BOOLEAN]]
  /\ sent \in [Conns -> SUBSET Entries] /\ opens \in [Conns -> [Keys -> Nat]]
  /\ lost \subseteq Cores
  /\ drops \in 0..MaxDrops /\ closes \in 0..MaxCloses
  /\ restarts \in 0..MaxRestarts /\ faults \in 0..MaxFaults

\* Two writers on one core's files would corrupt them: however the connections'
\* announcements interleave, a core's storage is opened once.  [add_core]
OneWriter == \A k \in Keys : writers[k] <= 1

\* On one connection a core has at most one Open on the wire that the hub has
\* not closed, although both the driver and the protocol remember open cores
\* and forget them at different times.  [opened, has_local_channel]
OneOpen == \A c \in Conns : \A k \in Keys : opens[c][k] <= 1

\* A key named by a stored control entry is registered, on its way to the
\* registry, or was dropped with a connection, a closed channel or an error:
\* no other path loses it.  [on_message, run_connection, seed_from_control]
NothingForgotten ==
  running => NamedBy(stored) \subseteq
             registry \cup lost \cup (UNION {Queued(c) : c \in Conns})

\* Every registered core ends up with a channel task on every connection, so
\* what it holds can be mirrored.  [run_connection]
MirrorsRegistry == \A c \in Conns : <>[](registry # {} /\ registry \subseteq tasks[c])

\* Every core the hub ever announces ends up registered.  [leaf-peer/README.md:
\* the leaf "learns project core keys" from the control core]
Learns == <>[](NamedBy(0..(published - 1)) \subseteq registry)

\* The same, but for the announcements that were dropped.
LearnsUnlessLost ==
  <>[](NamedBy(0..(published - 1)) \subseteq registry \cup lost)
=============================================================================
