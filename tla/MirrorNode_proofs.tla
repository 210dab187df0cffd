------------------------- MODULE MirrorNode_proofs -------------------------
(***************************************************************************)
(* For any cores, announcements, connections and failures, a core's files  *)
(* have one writer, and an announced key is registered, on its way there,  *)
(* or was dropped with what carried it.                                    *)
(***************************************************************************)
EXTENDS MirrorNode, FiniteSetTheorems, Induction

USE MirrorAssumption

\* The part of the type invariant that the proofs need.
NodeTypes ==
  /\ published \in 0..Len(Announce) /\ stored \subseteq Entries
  /\ registry \subseteq Keys /\ writers \in [Keys -> Nat]
  /\ opening \in Conns \cup {NoConn}
  /\ up \in [Conns -> BOOLEAN] /\ driver \in [Conns -> DriverState]
  /\ messages \in [Conns -> Seq(SUBSET Cores)]
  /\ inbox \in [Conns -> SUBSET [entry : Entries, closed : BOOLEAN]]

\* Whoever opens a core holds the lock, and nobody else does.
LockHeld == \A c \in Conns : opening = c <=> driver[c].step = "opening"

\* The core being opened is not registered yet.
OpensNewCores == \A c \in Conns : opening = c => driver[c].key \notin registry

BeingOpened(k) == \E c \in Conns : opening = c /\ driver[c].key = k

\* A core has a writer exactly if it is registered or being opened.
WritersCounted ==
  \A k \in Keys : writers[k] = IF k \in registry \/ BeingOpened(k) THEN 1 ELSE 0

\* Before the process has booted nobody works on a core.
QuietBeforeBoot ==
  ~running => registry = {} /\ opening = NoConn /\ \A c \in Conns : driver[c] = Idle

NodeInv == NodeTypes /\ LockHeld /\ OpensNewCores /\ WritersCounted /\ QuietBeforeBoot

----------------------------------------------------------------------------
(* Facts about the state's parts.                                          *)

\* What a driver's record says of its step.
LEMMA DriverSteps ==
  ASSUME NEW d \in DriverState
  PROVE  /\ d.step \in {"idle", "adding", "opening"}
         /\ d.step = "idle" => d = Idle
         /\ d.step # "idle" => d.todo \in SUBSET Cores
         /\ d.step = "adding" => d.added \in BOOLEAN
         /\ d.step = "opening" => d.key \in Cores /\ d.added \in BOOLEAN
BY DEF DriverState, Idle

\* The keys that entries name.
LEMMA NamedType ==
  /\ \A i \in Entries : Named(i) \in SUBSET Cores
  /\ \A S \in SUBSET Entries : NamedBy(S) \in SUBSET Cores
BY DEF Entries, Named, NamedBy

LEMMA AnnouncementType ==
  ASSUME NEW i \in Entries
  PROVE  Announcement(i) \in Seq(SUBSET Cores)
<1> DEFINE keys == Named(i)
<1>1. keys \in SUBSET Cores
  BY NamedType
<1>2. Announcement(i) = <<>> \/ Announcement(i) = <<keys>>
  BY DEF Announcement
<1> HIDE DEF keys
<1>3. <<>> \in Seq(SUBSET Cores) /\ <<keys>> \in Seq(SUBSET Cores)
  BY <1>1
<1> QED BY <1>2, <1>3

LEMMA EndedTypes ==
  ASSUME NodeTypes, NEW C \in SUBSET Conns, Ended(C)
  PROVE  /\ up' \in [Conns -> BOOLEAN] /\ driver' \in [Conns -> DriverState]
         /\ messages' \in [Conns -> Seq(SUBSET Cores)]
         /\ inbox' \in [Conns -> SUBSET [entry : Entries, closed : BOOLEAN]]
<1>1. Idle \in DriverState /\ <<>> \in Seq(SUBSET Cores)
  BY DEF DriverState
<1>2. driver' \in [Conns -> DriverState]
  BY <1>1 DEF Ended, NodeTypes
<1>3. messages' \in [Conns -> Seq(SUBSET Cores)]
  BY <1>1 DEF Ended, NodeTypes
<1> QED BY <1>2, <1>3 DEF Ended, NodeTypes

\* A step that leaves the registry and its lock alone, and in which no driver
\* starts or stops opening a core, preserves the invariant.
LEMMA RegistryUntouched ==
  ASSUME NodeInv, UNCHANGED node, NodeTypes',
         \A x \in Conns : \/ driver'[x] = driver[x]
                          \/ /\ running /\ driver[x].step # "opening"
                             /\ driver'[x].step # "opening"
  PROVE  NodeInv'
<1>1. LockHeld' /\ OpensNewCores'
  BY DEF NodeInv, LockHeld, OpensNewCores, node
<1>2. \A k \in Keys : BeingOpened(k)' <=> BeingOpened(k)
  BY DEF NodeInv, LockHeld, BeingOpened, node
<1>3. WritersCounted'
  BY <1>2 DEF NodeInv, WritersCounted, node
<1>4. QuietBeforeBoot'
  BY DEF NodeInv, QuietBeforeBoot, node
<1> QED BY <1>1, <1>3, <1>4 DEF NodeInv

----------------------------------------------------------------------------
(* The invariant holds initially and in every step.                        *)

LEMMA InitNode == Init => NodeInv
<1> SUFFICES ASSUME Init PROVE NodeInv
  OBVIOUS
<1>1. Idle \in DriverState /\ <<>> \in Seq(SUBSET Cores) /\ Len(Announce) \in Nat
  BY DEF DriverState
<1>2. NodeTypes
  BY <1>1 DEF Init, NodeTypes
<1>3. LockHeld /\ OpensNewCores /\ QuietBeforeBoot
  BY DEF Init, LockHeld, OpensNewCores, QuietBeforeBoot, Idle
<1>4. WritersCounted
  BY DEF Init, WritersCounted, BeingOpened
<1> QED BY <1>2, <1>3, <1>4 DEF NodeInv

LEMMA BootNode == NodeInv /\ Boot => NodeInv'
<1> SUFFICES ASSUME NodeInv, Boot PROVE NodeInv'
  OBVIOUS
<1>1. registry' \subseteq Keys
  <2>1. Contiguous \subseteq Entries
    BY DEF NodeInv, NodeTypes, Contiguous
  <2> QED BY <2>1, NamedType DEF Boot, Keys, Seeded
<1>2. opening = NoConn /\ opening' = NoConn /\ driver' = driver
      /\ \A c \in Conns : opening # c
  BY DEF NodeInv, QuietBeforeBoot, Boot
<1>3. NodeTypes'
  BY <1>1 DEF NodeInv, NodeTypes, Boot, control
<1>4. LockHeld' /\ OpensNewCores'
  BY <1>2 DEF NodeInv, LockHeld, OpensNewCores
<1>5. WritersCounted'
  BY <1>2 DEF WritersCounted, BeingOpened, Boot
<1> QED BY <1>3, <1>4, <1>5 DEF NodeInv, QuietBeforeBoot, Boot

LEMMA RestartNode == NodeInv /\ Restart => NodeInv'
<1> SUFFICES ASSUME NodeInv, Restart PROVE NodeInv'
  OBVIOUS
<1>1. opening' = NoConn /\ registry' = {} /\ \A c \in Conns : driver'[c] = Idle
  BY DEF Restart, Ended
<1>2. NodeTypes'
  BY EndedTypes DEF NodeInv, NodeTypes, Restart
<1>3. LockHeld' /\ OpensNewCores' /\ QuietBeforeBoot'
  BY <1>1 DEF LockHeld, OpensNewCores, QuietBeforeBoot, Idle
<1>4. WritersCounted'
  BY <1>1 DEF WritersCounted, BeingOpened, Restart
<1> QED BY <1>2, <1>3, <1>4 DEF NodeInv

\* A connection that is lost while its driver is idle.
LEMMA DropNode == ASSUME NodeInv, NEW c \in Conns, Drop(c) PROVE NodeInv'
<1>1. NodeTypes'
  BY EndedTypes DEF NodeInv, NodeTypes, Drop, node
<1>2. \A x \in Conns : driver'[x] = driver[x]
  BY DriverSteps DEF Drop, Polls, Ended, NodeInv, NodeTypes
<1> QED BY <1>1, <1>2, RegistryUntouched DEF Drop

LEMMA ConnectNode == ASSUME NodeInv, NEW c \in Conns, Connect(c) PROVE NodeInv'
<1>1. NodeTypes' /\ UNCHANGED <<node, driver>>
  BY DEF Connect, NodeInv, NodeTypes, node, control
<1> QED BY <1>1, RegistryUntouched

\* Protocol steps and the driver's event handlers.
LEMMA WireNode ==
  ASSUME NodeInv, NEW c \in Conns,
         Protocol(c) \/ Driver(c) \/ \E k \in Keys : HubClose(c, k)
  PROVE  NodeInv'
<1>1. UNCHANGED <<published, stored, node, driver, up, messages>>
  BY DEF Protocol, Driver, CommandOpen, HubOpen, HubClose, OnDiscoveryKey, OnChannel,
         OnClose, control
<1>2. inbox' \in [Conns -> SUBSET [entry : Entries, closed : BOOLEAN]]
  <2>1. CASE UNCHANGED inbox
    BY <2>1 DEF NodeInv, NodeTypes
  <2>2. CASE inbox' = [inbox EXCEPT ![c] = {[b EXCEPT !.closed = TRUE] : b \in inbox[c]}]
    <3>1. ASSUME NEW b \in inbox[c]
          PROVE  [b EXCEPT !.closed = TRUE] \in [entry : Entries, closed : BOOLEAN]
      <4>1. b \in [entry : Entries, closed : BOOLEAN]
        BY DEF NodeInv, NodeTypes
      <4> QED BY <4>1
    <3> QED BY <2>2, <3>1 DEF NodeInv, NodeTypes
  <2> QED BY <2>1, <2>2 DEF Protocol, Driver, CommandOpen, HubOpen, HubClose,
             OnDiscoveryKey, OnChannel, OnClose, control
<1>3. NodeTypes'
  BY <1>1, <1>2 DEF NodeInv, NodeTypes, node
<1> QED BY <1>1, <1>3, RegistryUntouched

\* The control core's entries.
LEMMA EntryNode ==
  ASSUME NodeInv, NEW c \in Conns, OnEntry(c) \/ \E i \in Entries : HubSendEntry(c, i)
  PROVE  NodeInv'
<1>1. UNCHANGED <<published, node, driver, up>>
  BY DEF HubSendEntry, OnEntry
<1>2. ASSUME NEW i \in Entries, HubSendEntry(c, i) PROVE NodeInv'
  <2>2. inbox' = [inbox EXCEPT ![c] = @ \cup {[entry |-> i, closed |-> FALSE]}]
    BY <1>2 DEF HubSendEntry
  <2> DEFINE b == [entry |-> i, closed |-> FALSE]
  <2>3. b \in [entry : Entries, closed : BOOLEAN]
    OBVIOUS
  <2>4. inbox' = [inbox EXCEPT ![c] = inbox[c] \cup {b}]
    BY <2>2
  <2> HIDE DEF b
  <2>5. inbox' \in [Conns -> SUBSET [entry : Entries, closed : BOOLEAN]]
    BY <2>3, <2>4 DEF NodeInv, NodeTypes
  <2>6. NodeTypes'
    BY <1>1, <1>2, <2>5 DEF HubSendEntry, NodeInv, NodeTypes, node
  <2> QED BY <1>1, <2>6, RegistryUntouched
<1>3. CASE OnEntry(c)
  <2>1. PICK b \in inbox[c] :
          /\ inbox' = [inbox EXCEPT ![c] = @ \ {b}] /\ stored' = stored \cup {b.entry}
          /\ \/ messages' = [messages EXCEPT ![c] = @ \o Announcement(b.entry)]
             \/ UNCHANGED messages
    BY <1>3 DEF OnEntry
  <2>2. b.entry \in Entries
    BY DEF NodeInv, NodeTypes
  <2>3. Announcement(b.entry) \in Seq(SUBSET Cores)
    BY <2>2, AnnouncementType
  <2>4. messages' \in [Conns -> Seq(SUBSET Cores)]
    <3>1. messages[c] \o Announcement(b.entry) \in Seq(SUBSET Cores)
      BY <2>3 DEF NodeInv, NodeTypes
    <3> QED BY <2>1, <3>1 DEF NodeInv, NodeTypes
  <2>5. NodeTypes'
    BY <1>1, <2>1, <2>2, <2>4 DEF NodeInv, NodeTypes, node
  <2> QED BY <1>1, <2>5, RegistryUntouched
<1> QED BY <1>2, <1>3

\* The steps of handling AddCores that leave the lock alone.
LEMMA KeysNode ==
  ASSUME NodeInv, NEW c \in Conns,
         TakeAddCores(c) \/ FinishAddCores(c) \/ \E k \in Cores : SkipCore(c, k)
  PROVE  NodeInv'
<1>1. running
  BY DEF NodeInv, QuietBeforeBoot, TakeAddCores, FinishAddCores, SkipCore, Polls, Idle
<1>2. driver[c] \in DriverState
  BY DEF NodeInv, NodeTypes
<1>3. CASE TakeAddCores(c)
  <2>1. messages[c] \in Seq(SUBSET Cores) /\ messages[c] # <<>>
    BY <1>3 DEF NodeInv, NodeTypes, TakeAddCores
  <2>2. Head(messages[c]) \in SUBSET Cores /\ Tail(messages[c]) \in Seq(SUBSET Cores)
    BY <2>1
  <2> DEFINE d == [step |-> "adding", todo |-> Head(messages[c]), added |-> FALSE]
  <2>3. d \in DriverState
    BY <2>2 DEF DriverState
  <2>4. driver' = [driver EXCEPT ![c] = d] /\ messages' = [messages EXCEPT ![c] = Tail(@)]
        /\ UNCHANGED <<published, control, node, up>>
    BY <1>3 DEF TakeAddCores
  <2>5. d.step = "adding"
    OBVIOUS
  <2> HIDE DEF d
  <2>6. NodeTypes'
    BY <2>2, <2>3, <2>4 DEF NodeInv, NodeTypes, node, control
  <2>7. driver[c].step # "opening"
    BY <1>3 DEF TakeAddCores, Polls
  <2> QED BY <1>1, <2>4, <2>5, <2>6, <2>7, RegistryUntouched DEF NodeInv, NodeTypes
<1>4. ASSUME NEW k \in Cores, SkipCore(c, k) PROVE NodeInv'
  <2> DEFINE d == [driver[c] EXCEPT !.todo = NextKeys(c, k)]
  <2>1. driver[c].step = "adding"
    BY <1>4 DEF SkipCore
  <2>2. driver[c] \in [step : {"adding"}, todo : SUBSET Cores, added : BOOLEAN]
    BY <1>2, <2>1 DEF DriverState, Idle
  <2>3. d \in DriverState /\ d.step = "adding"
    BY <2>2 DEF DriverState, NextKeys
  <2>4. driver' = [driver EXCEPT ![c] = d]
          /\ UNCHANGED <<published, control, node, up, messages>>
    BY <1>4 DEF SkipCore
  <2> HIDE DEF d
  <2>5. NodeTypes'
    BY <2>3, <2>4 DEF NodeInv, NodeTypes, node, control
  <2> QED BY <1>1, <2>1, <2>3, <2>4, <2>5, RegistryUntouched DEF NodeInv, NodeTypes
<1>5. CASE FinishAddCores(c)
  <2>1. CASE Ended({c}) /\ UNCHANGED stored
    <3>1. NodeTypes'
      BY <1>5, <2>1, EndedTypes DEF FinishAddCores, NodeInv, NodeTypes, node
    <3>2. \A x \in Conns : x # c => driver'[x] = driver[x]
      BY <2>1 DEF Ended
    <3>3. driver'[c].step # "opening"
      BY <2>1 DEF Ended, Idle
    <3> QED BY <1>1, <1>5, <3>1, <3>2, <3>3, RegistryUntouched DEF FinishAddCores
  <2>2. CASE driver' = [driver EXCEPT ![c] = Idle] /\ UNCHANGED <<control, up, messages>>
    <3>1. Idle \in DriverState /\ Idle.step # "opening"
      BY DEF DriverState, Idle
    <3>2. NodeTypes'
      BY <1>5, <2>2, <3>1 DEF FinishAddCores, NodeInv, NodeTypes, node, control
    <3> QED BY <1>1, <1>5, <2>2, <3>1, <3>2, RegistryUntouched
            DEF FinishAddCores, NodeInv, NodeTypes
  <2> QED BY <1>5, <2>1, <2>2 DEF FinishAddCores
<1> QED BY <1>3, <1>4, <1>5

\* Opening a core's storage: the lock was free and the core not registered, so
\* nobody had a writer for it.
LEMMA OpenCoreNode ==
  ASSUME NodeInv, NEW c \in Conns, NEW k \in Cores, OpenCore(c, k)
  PROVE  NodeInv'
<1> DEFINE d == [step |-> "opening", key |-> k, todo |-> driver[c].todo,
                 added |-> driver[c].added]
<1>1. /\ driver[c].step = "adding" /\ opening = NoConn /\ k \notin registry
      /\ opening' = c /\ writers' = [writers EXCEPT ![k] = @ + 1]
      /\ driver' = [driver EXCEPT ![c] = d]
      /\ UNCHANGED <<published, control, running, registry, up, messages>>
  BY DEF OpenCore, LockFree
<1>2. k \in Keys /\ driver[c] \in DriverState
  BY DEF Keys, NodeInv, NodeTypes
<1>3. d \in DriverState /\ d.step = "opening" /\ d.key = k
  BY <1>1, <1>2, DriverSteps DEF DriverState
<1> HIDE DEF d
<1>4. NodeTypes'
  BY <1>1, <1>2, <1>3 DEF NodeInv, NodeTypes, control
<1>5. \A x \in Conns : driver'[x] = IF x = c THEN d ELSE driver[x]
  BY <1>1 DEF NodeInv, NodeTypes
<1>6. LockHeld' /\ OpensNewCores'
  BY <1>1, <1>3, <1>5 DEF NodeInv, LockHeld, OpensNewCores
<1>7. WritersCounted'
  <2>1. \A j \in Keys : ~BeingOpened(j)
    BY <1>1 DEF BeingOpened
  <2>2. \A j \in Keys : BeingOpened(j)' <=> j = k
    BY <1>1, <1>3, <1>5 DEF BeingOpened
  <2>3. writers[k] = 0
    BY <1>1, <1>2, <2>1 DEF NodeInv, WritersCounted
  <2>4. \A j \in Keys : writers'[j] = IF j = k THEN 1 ELSE writers[j]
    BY <1>1, <1>2, <2>3 DEF NodeInv, NodeTypes
  <2> QED BY <1>1, <2>1, <2>2, <2>4 DEF NodeInv, WritersCounted
<1>8. QuietBeforeBoot'
  BY <1>1 DEF NodeInv, QuietBeforeBoot, Idle
<1> QED BY <1>4, <1>6, <1>7, <1>8 DEF NodeInv

\* The core's one writer becomes the registry's.
LEMMA InsertCoreNode ==
  ASSUME NodeInv, NEW c \in Conns, InsertCore(c)
  PROVE  NodeInv'
<1> DEFINE k == driver[c].key
           d == [step |-> "adding", todo |-> driver[c].todo \ {k}, added |-> TRUE]
<1>1. /\ driver[c].step = "opening" /\ opening' = NoConn /\ registry' = registry \cup {k}
      /\ driver' = [driver EXCEPT ![c] = d]
      /\ UNCHANGED <<published, control, running, writers, up, messages>>
  BY DEF InsertCore
<1>2. opening = c /\ driver[c] \in DriverState
  BY <1>1 DEF NodeInv, NodeTypes, LockHeld
<1>3. k \in Keys /\ d \in DriverState /\ d.step = "adding"
  BY <1>1, <1>2, DriverSteps DEF DriverState, Keys
<1>4. \A j \in Keys : BeingOpened(j) <=> j = k
  BY <1>2 DEF BeingOpened
<1> HIDE DEF d, k
<1>5. NodeTypes'
  BY <1>1, <1>3 DEF NodeInv, NodeTypes, control
<1>6. \A x \in Conns : driver'[x] = IF x = c THEN d ELSE driver[x]
  BY <1>1 DEF NodeInv, NodeTypes
<1>7. LockHeld' /\ OpensNewCores'
  BY <1>1, <1>2, <1>3, <1>6 DEF NodeInv, LockHeld, OpensNewCores
<1>8. WritersCounted'
  <2>1. \A j \in Keys : ~BeingOpened(j)'
    BY <1>1 DEF BeingOpened
  <2> QED BY <1>1, <1>4, <2>1 DEF NodeInv, WritersCounted
<1>9. QuietBeforeBoot'
  BY <1>1 DEF NodeInv, QuietBeforeBoot, Idle
<1> QED BY <1>5, <1>7, <1>8, <1>9 DEF NodeInv

\* The core's one writer is closed again.
LEMMA OpenCoreFailsNode ==
  ASSUME NodeInv, NEW c \in Conns, OpenCoreFails(c)
  PROVE  NodeInv'
<1> DEFINE k == driver[c].key
<1>1. /\ driver[c].step = "opening" /\ opening' = NoConn
      /\ writers' = [writers EXCEPT ![k] = @ - 1] /\ Ended({c})
      /\ UNCHANGED <<published, stored, running, registry>>
  BY DEF OpenCoreFails
<1>2. opening = c /\ driver[c] \in DriverState
  BY <1>1 DEF NodeInv, NodeTypes, LockHeld
<1>3. k \in Keys /\ k \notin registry
  BY <1>1, <1>2, DriverSteps DEF Keys, NodeInv, OpensNewCores
<1>4. \A j \in Keys : BeingOpened(j) <=> j = k
  BY <1>2 DEF BeingOpened
<1> HIDE DEF k
<1>5. \A j \in Keys : writers'[j] = IF j = k THEN 0 ELSE writers[j]
  BY <1>1, <1>3, <1>4 DEF NodeInv, NodeTypes, WritersCounted
<1>6. NodeTypes'
  <2>1. writers' = [j \in Keys |-> IF j = k THEN 0 ELSE writers[j]]
    BY <1>1, <1>5 DEF NodeInv, NodeTypes
  <2>2. writers' \in [Keys -> Nat]
    BY <2>1 DEF NodeInv, NodeTypes
  <2> QED BY <1>1, <2>2, EndedTypes DEF NodeInv, NodeTypes
<1>7. \A x \in Conns : driver'[x] = IF x = c THEN Idle ELSE driver[x]
  BY <1>1 DEF Ended
<1>8. LockHeld' /\ OpensNewCores'
  BY <1>1, <1>2, <1>7 DEF NodeInv, LockHeld, OpensNewCores, Idle
<1>9. WritersCounted'
  <2>1. \A j \in Keys : ~BeingOpened(j)'
    BY <1>1 DEF BeingOpened
  <2> QED BY <1>1, <1>3, <1>4, <1>5, <2>1 DEF NodeInv, WritersCounted
<1>10. QuietBeforeBoot'
  BY <1>1, <1>7 DEF NodeInv, QuietBeforeBoot
<1> QED BY <1>6, <1>8, <1>9, <1>10 DEF NodeInv

LEMMA NextNode == NodeInv /\ [Next]_vars => NodeInv'
<1> SUFFICES ASSUME NodeInv, [Next]_vars PROVE NodeInv'
  OBVIOUS
<1>1. CASE UNCHANGED vars
  <2>1. NodeTypes' /\ UNCHANGED <<node, driver>>
    BY <1>1 DEF vars, NodeInv, NodeTypes, node
  <2> QED BY <2>1, RegistryUntouched
<1>2. CASE Boot \/ Restart
  BY <1>2, BootNode, RestartNode
<1>3. CASE HubPublish
  <2>1. NodeTypes' /\ UNCHANGED <<node, driver>>
    BY <1>3 DEF HubPublish, NodeInv, NodeTypes, node, control
  <2> QED BY <2>1, RegistryUntouched
<1>4. ASSUME NEW c \in Conns,
             \/ Connect(c) \/ Drop(c) \/ Protocol(c) \/ Driver(c) \/ AddCores(c)
             \/ OnEntry(c) \/ OpenCoreFails(c)
             \/ \E i \in Entries : HubSendEntry(c, i)
             \/ \E k \in Keys : HubClose(c, k)
      PROVE  NodeInv'
  <2>1. CASE Connect(c) \/ Drop(c)
    BY <2>1, ConnectNode, DropNode
  <2>2. CASE Protocol(c) \/ Driver(c) \/ \E k \in Keys : HubClose(c, k)
    BY <2>2, WireNode
  <2>3. CASE OnEntry(c) \/ \E i \in Entries : HubSendEntry(c, i)
    BY <2>3, EntryNode
  <2>4. CASE AddCores(c) \/ OpenCoreFails(c)
    BY <2>4, KeysNode, OpenCoreNode, InsertCoreNode, OpenCoreFailsNode DEF AddCores
  <2> QED BY <1>4, <2>1, <2>2, <2>3, <2>4
<1> QED BY <1>1, <1>2, <1>3, <1>4 DEF Next

LEMMA NodeInvariance == Spec => []NodeInv
BY InitNode, NextNode, PTL DEF Spec

\* However the connections' announcements interleave with failures, lost
\* connections and restarts, a core's files are opened by one of them.
\* [mirror.rs: Registry::add_core]
THEOREM OneOpensEach == Spec => []OneWriter
<1>1. NodeInv => OneWriter
  BY DEF NodeInv, WritersCounted, OneWriter
<1> QED BY <1>1, NodeInvariance, PTL

----------------------------------------------------------------------------
(* No announced key is forgotten.                                          *)

\* Key k is registered, on its way there, or was dropped.
Remembered(k) == k \in registry \cup lost \/ \E c \in Conns : k \in Queued(c)

LEMMA QueuedMeans ==
  ASSUME NEW c \in Conns, NEW k
  PROVE  /\ k \in Queued(c) <=>
              \/ \E i \in DOMAIN messages[c] : k \in messages[c][i]
              \/ driver[c].step # "idle" /\ k \in driver[c].todo
         /\ k \in Queued(c)' <=>
              \/ \E i \in DOMAIN messages'[c] : k \in messages'[c][i]
              \/ driver'[c].step # "idle" /\ k \in driver'[c].todo
<1>1. ASSUME NEW s PROVE k \in (UNION Range(s)) <=> \E i \in DOMAIN s : k \in s[i]
  BY DEF Range
<1>2. /\ k \in Queued(c) <=> \/ k \in (UNION Range(messages[c]))
                             \/ driver[c].step # "idle" /\ k \in driver[c].todo
      /\ k \in Queued(c)' <=> \/ k \in (UNION Range(messages'[c]))
                              \/ driver'[c].step # "idle" /\ k \in driver'[c].todo
  BY DEF Queued
<1> QED BY <1>1, <1>2

\* It is enough that a step keeps every key that was remembered.
LEMMA KeepsAll ==
  ASSUME NothingForgotten, running' => running, stored' = stored,
         \A k \in Cores : Remembered(k) => Remembered(k)', NodeInv
  PROVE  NothingForgotten'
<1> SUFFICES ASSUME running', NEW i \in stored', NEW k \in Named(i)
             PROVE  Remembered(k)'
  BY DEF NothingForgotten, NamedBy, Remembered
<1>1. i \in Entries /\ k \in Cores
  BY NamedType DEF NodeInv, NodeTypes
<1>2. Remembered(k)
  BY DEF NothingForgotten, NamedBy, Remembered
<1> QED BY <1>1, <1>2

LEMMA QueuesUntouched ==
  ASSUME NothingForgotten, NodeInv, UNCHANGED <<running, stored, registry, driver, messages>>,
         lost \subseteq lost'
  PROVE  NothingForgotten'
<1>1. \A k \in Cores : Remembered(k) => Remembered(k)'
  BY DEF Remembered, Queued
<1> QED BY <1>1, KeepsAll

\* What a connection held when it ended is counted as lost.
LEMMA EndedKeeps ==
  ASSUME NothingForgotten, NodeInv, NEW c \in Conns, Ended({c}),
         UNCHANGED <<running, stored, registry>>, lost' = lost \cup Queued(c)
  PROVE  NothingForgotten'
<1>1. \A x \in Conns : x # c => Queued(x)' = Queued(x)
  BY DEF Ended, Queued
<1>2. \A k \in Cores : Remembered(k) => Remembered(k)'
  BY <1>1 DEF Remembered
<1> QED BY <1>2, KeepsAll

\* A step of the driver of c that hands on or registers what c held.
LEMMA DriverKeeps ==
  ASSUME NothingForgotten, NodeInv, NEW c \in Conns,
         UNCHANGED <<running, stored, lost>>, registry \subseteq registry',
         \A x \in Conns \ {c} : driver'[x] = driver[x] /\ messages'[x] = messages[x],
         \A k \in Cores : k \in Queued(c) => k \in Queued(c)' \/ k \in registry'
  PROVE  NothingForgotten'
<1>1. \A x \in Conns \ {c} : Queued(x)' = Queued(x)
  BY DEF Queued
<1>2. \A k \in Cores : Remembered(k) => Remembered(k)'
  BY <1>1 DEF Remembered
<1> QED BY <1>2, KeepsAll

LEMMA EntryKeeps ==
  ASSUME NothingForgotten, NodeInv, NEW c \in Conns, OnEntry(c)
  PROVE  NothingForgotten'
<1>1. PICK b \in inbox[c] :
        /\ stored' = stored \cup {b.entry}
        /\ \/ /\ messages' = [messages EXCEPT ![c] = @ \o Announcement(b.entry)]
              /\ UNCHANGED lost
           \/ lost' = lost \cup Named(b.entry) /\ UNCHANGED messages
  BY DEF OnEntry
<1>2. UNCHANGED <<running, registry, driver>>
  BY DEF OnEntry, node
<1> DEFINE e == b.entry
<1>3. e \in Entries /\ messages[c] \in Seq(SUBSET Cores)
      /\ Announcement(e) \in Seq(SUBSET Cores) /\ messages \in [Conns -> Seq(SUBSET Cores)]
  BY AnnouncementType DEF NodeInv, NodeTypes
<1> SUFFICES ASSUME running', NEW i \in stored', NEW k \in Named(i)
             PROVE  Remembered(k)'
  BY DEF NothingForgotten, NamedBy, Remembered
<1>4. CASE lost' = lost \cup Named(e) /\ UNCHANGED messages
  <2>1. CASE i \in stored
    <3>1. Remembered(k)
      BY <1>2, <2>1 DEF NothingForgotten, NamedBy, Remembered
    <3> QED BY <1>2, <1>4, <3>1 DEF Remembered, Queued
  <2>2. CASE i = e
    BY <1>4, <2>2 DEF Remembered
  <2> QED BY <1>1, <2>1, <2>2
<1>5. CASE messages' = [messages EXCEPT ![c] = @ \o Announcement(e)] /\ UNCHANGED lost
  <2> DEFINE p == messages[c]
             q == Announcement(e)
  <2>1. messages'[c] = p \o q /\ \A x \in Conns \ {c} : messages'[x] = messages[x]
    BY <1>3, <1>5
  <2>2. CASE i \in stored
    <3>1. Remembered(k)
      BY <1>2, <2>2 DEF NothingForgotten, NamedBy, Remembered
    <3>2. ASSUME NEW x \in Conns, k \in Queued(x) PROVE k \in Queued(x)'
      <4>1. CASE x = c
        <5>1. ASSUME NEW j \in DOMAIN p
              PROVE  j \in DOMAIN (p \o q) /\ (p \o q)[j] = p[j]
          BY <1>3
        <5> QED BY <4>1, <1>2, <2>1, <3>2, <5>1, QueuedMeans
      <4>2. CASE x # c
        BY <4>2, <1>2, <2>1, <3>2 DEF Queued
      <4> QED BY <4>1, <4>2
    <3> QED BY <1>2, <1>5, <3>1, <3>2 DEF Remembered
  <2>3. CASE i = e
    <3>1. q = <<Named(e)>>
      BY <2>3 DEF Announcement
    <3>2. Len(p) + 1 \in DOMAIN (p \o q) /\ (p \o q)[Len(p) + 1] = Named(e)
      BY <1>3, <3>1
    <3>3. k \in Queued(c)'
      BY <2>1, <2>3, <3>2, QueuedMeans
    <3> QED BY <3>3 DEF Remembered
  <2> QED BY <1>1, <2>2, <2>3
<1> QED BY <1>1, <1>4, <1>5

LEMMA TakeKeeps ==
  ASSUME NothingForgotten, NodeInv, NEW c \in Conns, TakeAddCores(c)
  PROVE  NothingForgotten'
<1> DEFINE p == messages[c]
           d == [step |-> "adding", todo |-> Head(p), added |-> FALSE]
<1>1. /\ driver[c].step = "idle" /\ p # <<>> /\ messages' = [messages EXCEPT ![c] = Tail(p)]
      /\ driver' = [driver EXCEPT ![c] = d]
      /\ UNCHANGED <<running, stored, lost, registry>>
  BY DEF TakeAddCores, Polls, control, node
<1>2. p \in Seq(SUBSET Cores) /\ messages'[c] = Tail(p) /\ driver'[c] = d
      /\ \A x \in Conns \ {c} : driver'[x] = driver[x] /\ messages'[x] = messages[x]
  BY <1>1 DEF NodeInv, NodeTypes
<1>3. d.step # "idle" /\ d.todo = Head(p)
  OBVIOUS
<1>4. ASSUME NEW k \in Cores, k \in Queued(c) PROVE k \in Queued(c)'
  <2>1. PICK i \in DOMAIN p : k \in p[i]
    BY <1>1, <1>4, QueuedMeans
  <2>2. CASE i = 1
    BY <1>2, <1>3, <2>1, <2>2, QueuedMeans
  <2>3. CASE i # 1
    <3>1. i - 1 \in DOMAIN Tail(p) /\ Tail(p)[i - 1] = p[i]
      BY <1>1, <1>2, <2>3
    <3> QED BY <1>2, <2>1, <3>1, QueuedMeans
  <2> QED BY <2>2, <2>3
<1> QED BY <1>1, <1>2, <1>4, DriverKeeps

\* Adding a core, or finding it registered, strikes no other key.
LEMMA AddKeeps ==
  ASSUME NothingForgotten, NodeInv, NEW c \in Conns,
         InsertCore(c) \/ \E k \in Cores : SkipCore(c, k) \/ OpenCore(c, k)
  PROVE  NothingForgotten'
<1>1. UNCHANGED <<running, stored, lost, messages>> /\ registry \subseteq registry'
  BY DEF InsertCore, SkipCore, OpenCore, control, node
<1>2. driver[c] \in DriverState /\ driver \in [Conns -> DriverState]
  BY DEF NodeInv, NodeTypes
<1>3. ASSUME NEW k \in Cores, SkipCore(c, k) PROVE NothingForgotten'
  <2> DEFINE d == [driver[c] EXCEPT !.todo = NextKeys(c, k)]
  <2>1. driver[c].step = "adding" /\ k \in registry /\ driver' = [driver EXCEPT ![c] = d]
    BY <1>3 DEF SkipCore
  <2>2. driver[c] \in [step : {"adding"}, todo : SUBSET Cores, added : BOOLEAN]
    BY <1>2, <2>1 DEF DriverState, Idle
  <2>3. d.step = "adding" /\ d.todo = driver[c].todo \ {k}
    BY <2>2 DEF NextKeys
  <2>4. \A x \in Conns : driver'[x] = IF x = c THEN d ELSE driver[x]
    BY <1>2, <2>1
  <2> HIDE DEF d
  <2>5. \A j \in Cores : j \in Queued(c) => j \in Queued(c)' \/ j \in registry'
    BY <1>1, <2>1, <2>3, <2>4, QueuedMeans
  <2> QED BY <1>1, <2>4, <2>5, DriverKeeps
<1>4. ASSUME NEW k \in Cores, OpenCore(c, k) PROVE NothingForgotten'
  <2> DEFINE d == [step |-> "opening", key |-> k, todo |-> driver[c].todo,
                   added |-> driver[c].added]
  <2>1. driver' = [driver EXCEPT ![c] = d]
    BY <1>4 DEF OpenCore
  <2>2. d.step = "opening" /\ d.todo = driver[c].todo
    OBVIOUS
  <2>3. \A x \in Conns : driver'[x] = IF x = c THEN d ELSE driver[x]
    BY <1>2, <2>1
  <2>4. driver[c].step = "adding"
    BY <1>4 DEF OpenCore
  <2> HIDE DEF d
  <2>5. \A j \in Cores : j \in Queued(c) => j \in Queued(c)'
    BY <1>1, <2>2, <2>3, <2>4, QueuedMeans
  <2> QED BY <1>1, <2>3, <2>5, DriverKeeps
<1>5. CASE InsertCore(c)
  <2> DEFINE k == driver[c].key
             d == [step |-> "adding", todo |-> driver[c].todo \ {k}, added |-> TRUE]
  <2>1. driver[c].step = "opening" /\ registry' = registry \cup {k}
        /\ driver' = [driver EXCEPT ![c] = d]
    BY <1>5 DEF InsertCore
  <2>2. d.step = "adding" /\ d.todo = driver[c].todo \ {k}
    OBVIOUS
  <2>3. \A x \in Conns : driver'[x] = IF x = c THEN d ELSE driver[x]
    BY <1>2, <2>1
  <2> HIDE DEF d, k
  <2>4. \A j \in Cores : j \in Queued(c) => j \in Queued(c)' \/ j \in registry'
    BY <1>1, <2>1, <2>2, <2>3, QueuedMeans
  <2> QED BY <1>1, <2>3, <2>4, DriverKeeps
<1> QED BY <1>3, <1>4, <1>5

LEMMA FinishKeeps ==
  ASSUME NothingForgotten, NodeInv, NEW c \in Conns, FinishAddCores(c)
  PROVE  NothingForgotten'
<1>1. UNCHANGED <<running, registry, stored>>
  BY DEF FinishAddCores, node, control
<1>2. CASE Ended({c}) /\ lost' = lost \cup Queued(c)
  BY <1>1, <1>2, EndedKeeps
<1>3. CASE driver' = [driver EXCEPT ![c] = Idle] /\ UNCHANGED <<messages, lost>>
  <2>1. \A x \in Conns : driver'[x] = IF x = c THEN Idle ELSE driver[x]
    BY <1>3 DEF NodeInv, NodeTypes
  <2>2. driver[c].todo = {}
    BY DEF FinishAddCores
  <2>3. \A k \in Cores : k \in Queued(c) => k \in Queued(c)'
    BY <1>3, <2>2, QueuedMeans
  <2> QED BY <1>1, <1>3, <2>1, <2>3, DriverKeeps
<1> QED BY <1>2, <1>3 DEF FinishAddCores

LEMMA BootKeeps == ASSUME NodeInv, Boot PROVE NothingForgotten'
<1>1. /\ lost' = NamedBy(stored \ Contiguous) \ registry' /\ stored' = stored
      /\ NamedBy(Contiguous) \subseteq registry'
  BY DEF Boot, Seeded, control
<1>2. NamedBy(stored) \subseteq NamedBy(Contiguous) \cup NamedBy(stored \ Contiguous)
  BY DEF NamedBy
<1> QED BY <1>1, <1>2 DEF NothingForgotten, NamedBy

LEMMA NextKeeps == NothingForgotten /\ NodeInv /\ [Next]_vars => NothingForgotten'
<1> SUFFICES ASSUME NothingForgotten, NodeInv, [Next]_vars PROVE NothingForgotten'
  OBVIOUS
<1>1. CASE UNCHANGED vars
  BY <1>1, QueuesUntouched DEF vars
<1>2. CASE Boot
  BY <1>2, BootKeeps
<1>3. CASE Restart
  BY <1>3 DEF Restart, NothingForgotten
<1>4. CASE HubPublish
  BY <1>4, QueuesUntouched DEF HubPublish, control, node
<1>5. ASSUME NEW c \in Conns,
             \/ Connect(c) \/ Drop(c) \/ Protocol(c) \/ Driver(c) \/ AddCores(c)
             \/ OnEntry(c) \/ OpenCoreFails(c)
             \/ \E i \in Entries : HubSendEntry(c, i)
             \/ \E k \in Keys : HubClose(c, k)
      PROVE  NothingForgotten'
  <2>1. CASE Connect(c) \/ \E i \in Entries : HubSendEntry(c, i)
    BY <2>1, QueuesUntouched DEF Connect, HubSendEntry, node, control
  <2>2. CASE Protocol(c) \/ Driver(c) \/ \E k \in Keys : HubClose(c, k)
    <3>1. UNCHANGED <<running, stored, registry, driver, messages, lost>>
      BY <2>2 DEF Protocol, Driver, CommandOpen, HubOpen, HubClose, OnDiscoveryKey,
         OnChannel, OnClose, control, node
    <3> QED BY <3>1, QueuesUntouched
  <2>3. CASE Drop(c)
    BY <2>3, EndedKeeps DEF Drop, node
  <2>4. CASE OpenCoreFails(c)
    BY <2>4, EndedKeeps DEF OpenCoreFails
  <2>5. CASE OnEntry(c)
    BY <2>5, EntryKeeps
  <2>6. CASE AddCores(c)
    BY <2>6, TakeKeeps, AddKeeps, FinishKeeps DEF AddCores
  <2> QED BY <1>5, <2>1, <2>2, <2>3, <2>4, <2>5, <2>6
<1> QED BY <1>1, <1>2, <1>3, <1>4, <1>5 DEF Next

\* Only a lost connection, a closed channel, an error or a gap at boot takes an
\* announced key from the leaf.
\* [mirror.rs: on_message, run_connection, seed_from_control]
THEOREM NoneForgotten == Spec => []NothingForgotten
<1>1. Init => NothingForgotten
  BY DEF Init, NothingForgotten
<1> QED BY <1>1, NextKeeps, NodeInvariance, PTL DEF Spec

----------------------------------------------------------------------------
(* One Open per core and connection.                                       *)

\* An Open that the hub has not closed is on the wire exactly for the cores
\* whose local end is attached.
OpensCounted ==
  /\ local \in [Conns -> SUBSET Keys] /\ opens \in [Conns -> [Keys -> Nat]]
  /\ \A c \in Conns : \A k \in Keys : opens[c][k] = IF k \in local[c] THEN 1 ELSE 0

\* A connection that ends forgets its channels and its Opens together.
LEMMA EndedCounts == ASSUME OpensCounted, NEW C \in SUBSET Conns, Ended(C) PROVE OpensCounted'
<1>1. /\ local' = [c \in Conns |-> IF c \in C THEN {} ELSE local[c]]
      /\ opens' = [c \in Conns |-> IF c \in C THEN [k \in Keys |-> 0] ELSE opens[c]]
  BY DEF Ended
<1> QED BY <1>1 DEF OpensCounted

\* Protocol::command_open sends an Open only when it attaches the local end.
LEMMA CommandCounts ==
  ASSUME OpensCounted, NEW c \in Conns, NEW k \in Keys, CommandOpen(c, k)
  PROVE  OpensCounted'
<1>1. CASE Attached(c, k)
  BY <1>1 DEF CommandOpen, Attached, OpensCounted
<1>2. CASE ~Attached(c, k)
  <2>1. /\ local' = [local EXCEPT ![c] = @ \cup {k}]
        /\ opens' = [opens EXCEPT ![c][k] = @ + 1]
    BY <1>2 DEF CommandOpen
  <2>2. opens[c][k] = 0 /\ k \notin local[c]
    BY <1>2 DEF Attached, OpensCounted
  <2> QED BY <2>1, <2>2 DEF OpensCounted
<1> QED BY <1>1, <1>2

\* Protocol::on_close detaches it.
LEMMA CloseCounts ==
  ASSUME OpensCounted, NEW c \in Conns, NEW k \in Keys, HubClose(c, k)
  PROVE  OpensCounted'
<1>1. /\ local' = [local EXCEPT ![c] = @ \ {k}]
      /\ opens' = [opens EXCEPT ![c][k] = 0]
  BY DEF HubClose
<1> QED BY <1>1 DEF OpensCounted

\* No other step opens or closes a channel.
LEMMA OpensStep == ASSUME OpensCounted, [Next]_vars PROVE OpensCounted'
<1>1. CASE UNCHANGED <<local, opens>>
  BY <1>1 DEF OpensCounted
<1>2. CASE Boot \/ HubPublish \/ UNCHANGED vars
  BY <1>1, <1>2 DEF Boot, HubPublish, wire, vars
<1>3. CASE Restart
  BY <1>3, EndedCounts DEF Restart
<1>4. ASSUME NEW c \in Conns,
             \/ Connect(c) \/ Drop(c) \/ Protocol(c) \/ Driver(c) \/ AddCores(c)
             \/ OnEntry(c) \/ OpenCoreFails(c)
             \/ \E i \in Entries : HubSendEntry(c, i)
             \/ \E k \in Keys : HubClose(c, k)
      PROVE  OpensCounted'
  <2>1. CASE Connect(c) \/ Driver(c) \/ OnEntry(c) \/ \E i \in Entries : HubSendEntry(c, i)
    BY <1>1, <2>1 DEF Connect, Driver, OnDiscoveryKey, OnChannel, OnClose, HubSendEntry,
           OnEntry, wire
  <2>2. CASE Drop(c) \/ OpenCoreFails(c)
    BY <2>2, EndedCounts DEF Drop, OpenCoreFails
  <2>3. CASE Protocol(c)
    <3>1. ASSUME NEW k \in Keys, HubOpen(c, k) PROVE OpensCounted'
      BY <1>1, <3>1 DEF HubOpen
    <3> QED BY <2>3, <3>1, CommandCounts DEF Protocol
  <2>4. CASE AddCores(c)
    <3>1. CASE FinishAddCores(c)
      <4>1. Ended({c}) \/ UNCHANGED wire
        BY <3>1 DEF FinishAddCores
      <4> QED BY <4>1, <1>1, EndedCounts DEF wire
    <3>2. CASE \/ TakeAddCores(c) \/ InsertCore(c)
               \/ \E k \in Cores : SkipCore(c, k) \/ OpenCore(c, k)
      BY <1>1, <3>2 DEF TakeAddCores, InsertCore, SkipCore, OpenCore, wire
    <3> QED BY <2>4, <3>1, <3>2 DEF AddCores
  <2>5. CASE \E k \in Keys : HubClose(c, k)
    BY <2>5, CloseCounts
  <2> QED BY <1>4, <2>1, <2>2, <2>3, <2>4, <2>5
<1> QED BY <1>2, <1>3, <1>4 DEF Next

\* However Opens and Closes of both sides cross on a connection, and however
\* often its driver asks for a core, the core has at most one Open on the wire
\* that the hub has not closed.  [protocol.rs: command_open, on_close]
THEOREM OpensOnce == Spec => []OneOpen
<1>1. Init => OpensCounted
  BY DEF Init, OpensCounted
<1>2. OpensCounted => OneOpen
  BY DEF OpensCounted, OneOpen
<1> QED BY <1>1, <1>2, OpensStep, PTL DEF Spec

----------------------------------------------------------------------------
(* The type invariant.  What has to be argued is the bound on the Opens a  *)
(* driver has asked for: a core is asked for again only after a Close.     *)

CloseOf(k) == [t |-> "close", key |-> k]

\* How many Closes of core k wait in a queue of events.
ClosesIn(q, n, k) == {i \in 1..n : q[i] = CloseOf(k)}
Closings(q, k) == Cardinality(ClosesIn(q, Len(q), k))

\* The Opens asked for, the Closes waiting, and one more that may be asked for
\* as long as the core does not count as open.
Asked(m, q, o, k) == m[k] + Closings(q, k) + (IF k \in o THEN 0 ELSE 1)

CommandsCounted ==
  \A c \in Conns : \A k \in Keys : Asked(commands[c], events[c], opened[c], k) <= 1 + closes

QuietWhenDown == \A c \in Conns : ~up[c] => events[c] = <<>>

WireInv ==
  /\ opened \in [Conns -> SUBSET Keys] /\ events \in [Conns -> Seq(Event)]
  /\ commands \in [Conns -> [Keys -> Nat]] /\ closes \in Nat
  /\ QuietWhenDown /\ CommandsCounted

(* Counting the Closes in a queue. *)
LEMMA ClosingsFinite ==
  ASSUME NEW n \in Nat, NEW q, NEW k
  PROVE  IsFiniteSet(ClosesIn(q, n, k)) /\ Cardinality(ClosesIn(q, n, k)) \in Nat
<1>1. IsFiniteSet(1..n)
  BY FS_Interval
<1>2. ClosesIn(q, n, k) \in SUBSET (1..n)
  BY DEF ClosesIn
<1>3. IsFiniteSet(ClosesIn(q, n, k))
  BY <1>1, <1>2, FS_Subset
<1> QED BY <1>3, FS_CardinalityType

LEMMA ClosingsType ==
  ASSUME NEW q \in Seq(Event), NEW k
  PROVE  Closings(q, k) \in Nat
<1>1. Len(q) \in Nat
  OBVIOUS
<1> QED BY <1>1, ClosingsFinite DEF Closings

LEMMA ClosingsEmpty == \A k : Closings(<<>>, k) = 0
<1>1. \A k : ClosesIn(<<>>, Len(<<>>), k) = {}
  BY DEF ClosesIn
<1> QED BY <1>1, FS_EmptySet DEF Closings

LEMMA ClosingsAppend ==
  ASSUME NEW q \in Seq(Event), NEW ev \in Event, NEW k
  PROVE  Closings(Append(q, ev), k) = Closings(q, k) + (IF ev = CloseOf(k) THEN 1 ELSE 0)
<1> DEFINE n == Len(q)
           S == ClosesIn(q, n, k)
           T == ClosesIn(Append(q, ev), n + 1, k)
<1>1. n \in Nat /\ Len(Append(q, ev)) = n + 1
  OBVIOUS
<1>2. IsFiniteSet(S) /\ Cardinality(S) \in Nat /\ n + 1 \notin S
  <2>1. n + 1 \notin S
    BY <1>1 DEF ClosesIn
  <2>2. IsFiniteSet(S) /\ Cardinality(S) \in Nat
    BY <1>1, ClosingsFinite
  <2> QED BY <2>1, <2>2
<1>3. Closings(Append(q, ev), k) = Cardinality(T) /\ Closings(q, k) = Cardinality(S)
  BY <1>1 DEF Closings
<1>4. /\ \A i \in 1..n : Append(q, ev)[i] = q[i]
      /\ Append(q, ev)[n + 1] = ev
      /\ 1..(n + 1) = (1..n) \cup {n + 1}
  BY <1>1
<1>5. T = S \cup (IF ev = CloseOf(k) THEN {n + 1} ELSE {})
  BY <1>4 DEF ClosesIn
<1> HIDE DEF n, S, T
<1>6. CASE ev = CloseOf(k)
  <2>1. T = S \cup {n + 1}
    BY <1>5, <1>6
  <2>2. Cardinality(S \cup {n + 1}) = Cardinality(S) + 1
    BY <1>2, FS_AddElement
  <2> QED BY <1>3, <1>6, <2>1, <2>2
<1>7. CASE ev # CloseOf(k)
  <2>1. T = S
    BY <1>5, <1>7
  <2> QED BY <1>2, <1>3, <1>7, <2>1
<1> QED BY <1>6, <1>7

LEMMA ClosingsTail ==
  ASSUME NEW q \in Seq(Event), q # <<>>, NEW k
  PROVE  Closings(Tail(q), k) + (IF Head(q) = CloseOf(k) THEN 1 ELSE 0) <= Closings(q, k)
<1> DEFINE n == Len(q)
           S == ClosesIn(Tail(q), n - 1, k)
           T == ClosesIn(q, n, k)
           f == [i \in S |-> i + 1]
<1>1. n \in Nat /\ n > 0 /\ Len(Tail(q)) = n - 1 /\ n - 1 \in Nat /\ Head(q) = q[1]
  OBVIOUS
<1>2. \A i \in 1..(n - 1) : Tail(q)[i] = q[i + 1]
  BY <1>1
<1>3. Closings(Tail(q), k) = Cardinality(S) /\ Closings(q, k) = Cardinality(T)
  BY <1>1 DEF Closings
<1>4. IsFiniteSet(S) /\ IsFiniteSet(T)
  BY <1>1, ClosingsFinite
<1>5. f \in Injection(S, T \ {1})
  <2>1. \A i \in S : i + 1 \in T \ {1}
    BY <1>1, <1>2 DEF ClosesIn
  <2>2. \A i, j \in S : i + 1 = j + 1 => i = j
    BY DEF ClosesIn
  <2> QED BY <2>1, <2>2 DEF Injection, IsInjective
<1>6. 1 \in T <=> Head(q) = CloseOf(k)
  BY <1>1 DEF ClosesIn
<1> HIDE DEF n, S, T, f
<1>7. IsFiniteSet(T \ {1}) /\ Cardinality(S) <= Cardinality(T \ {1})
      /\ Cardinality(T \ {1}) = IF 1 \in T THEN Cardinality(T) - 1 ELSE Cardinality(T)
  <2>1. /\ IsFiniteSet(T \ {1})
        /\ Cardinality(T \ {1}) = IF 1 \in T THEN Cardinality(T) - 1 ELSE Cardinality(T)
    BY <1>4, FS_RemoveElement
  <2> QED BY <1>5, <2>1, FS_Injection
<1>8. Cardinality(S) \in Nat /\ Cardinality(T) \in Nat
  BY <1>1, ClosingsFinite DEF S, T
<1> QED BY <1>3, <1>6, <1>7, <1>8

(* What is taken out of a queue when a channel closes is not a Close. *)
LEMMA UnclosedKeeps ==
  ASSUME NEW q \in Seq(Event), NEW j \in Keys
  PROVE  /\ Unclosed(q, j) \in Seq(Event)
         /\ \A k \in Keys : Closings(Unclosed(q, j), k) = Closings(q, k)
<1> DEFINE n == Len(q)
           gone == [t |-> "channel", key |-> j]
           Adds(i, s) == CASE i = 0 -> <<>>
                           [] i > 0 /\ q[i] = gone -> s
                           [] OTHER -> Append(s, q[i])
           F == [i \in 1..n |-> [s \in Seq(Event) |-> Adds(i, s)]]
           Is(g) == g = [i \in 0..n |-> Adds(i, g[i - 1])]
           kept == CHOOSE g : Is(g)
           Upto(i, k) == Cardinality(ClosesIn(q, i, k))
<1>1. n \in Nat /\ <<>> \in Seq(Event) /\ \A i \in 1..n : q[i] \in Event
  OBVIOUS
<1>2. \A i \in 1..n : \A s \in Seq(Event) :
        /\ q[i] = gone => Adds(i, s) = s
        /\ q[i] # gone => Adds(i, s) = Append(s, q[i])
        /\ Adds(i, s) \in Seq(Event)
  BY <1>1
<1>3. Unclosed(q, j) = kept[n]
  BY DEF Unclosed
<1>4. \A s : Adds(0, s) = <<>>
  OBVIOUS
<1>5. \A k : gone # CloseOf(k)
  BY DEF CloseOf
<1> HIDE DEF n, Adds, gone
<1>6. /\ F \in [1..n -> [Seq(Event) -> Seq(Event)]]
      /\ \A i \in 1..n : \A s \in Seq(Event) : F[i][s] = Adds(i, s)
  BY <1>2
<1> HIDE DEF F
<1>7. PICK g \in [0..n -> Seq(Event)] :
        g[0] = <<>> /\ \A i \in 1..n : g[i] = F[i][g[i - 1]]
  <2>1. Iterations(n, Seq(Event), <<>>, F) # {}
    BY <1>1, <1>6, Recursion
  <2> QED BY <2>1 DEF Iterations
<1>8. Is(g)
  <2>1. ASSUME NEW i \in 1..n PROVE g[i] = Adds(i, g[i - 1])
    <3>1. g[i - 1] \in Seq(Event)
      BY <1>1, <1>7
    <3> QED BY <1>6, <1>7, <3>1
  <2> QED BY <1>1, <1>4, <1>7, <2>1
<1>9. Is(kept)
  BY <1>8
<1> HIDE DEF kept
<1>10. kept[0] = <<>> /\ \A i \in 1..n : kept[i] = Adds(i, kept[i - 1])
  <2>1. \A i \in 0..n : kept[i] = Adds(i, kept[i - 1])
    BY <1>9
  <2>2. 0 \in 0..n /\ \A i \in 1..n : i \in 0..n
    BY <1>1
  <2> QED BY <1>4, <2>1, <2>2
<1> DEFINE S == {i \in 0..n : /\ kept[i] \in Seq(Event)
                              /\ \A k \in Keys : Closings(kept[i], k) = Upto(i, k)}
<1>11. 0 \in S
  <2>1. \A k : Upto(0, k) = 0
    <3>1. \A k : ClosesIn(q, 0, k) = {}
      BY DEF ClosesIn
    <3> QED BY <3>1, FS_EmptySet
  <2>2. 0 \in 0..n /\ kept[0] \in Seq(Event)
    BY <1>1, <1>10
  <2>3. \A k : Closings(kept[0], k) = 0
    BY <1>10, ClosingsEmpty
  <2> HIDE DEF Upto
  <2> QED BY <2>1, <2>2, <2>3
<1>12. ASSUME NEW i \in 1..n, i - 1 \in S PROVE i \in S
  <2> DEFINE s == kept[i - 1]
  <2>1. s \in Seq(Event) /\ \A k \in Keys : Closings(s, k) = Upto(i - 1, k)
    BY <1>12
  <2>2. kept[i] = Adds(i, s)
    BY <1>10
  <2>3. \A k \in Keys : Upto(i, k) = Upto(i - 1, k) + (IF q[i] = CloseOf(k) THEN 1 ELSE 0)
    <3> SUFFICES ASSUME NEW k \in Keys
                 PROVE  Upto(i, k) = Upto(i - 1, k) + (IF q[i] = CloseOf(k) THEN 1 ELSE 0)
      OBVIOUS
    <3> DEFINE A == ClosesIn(q, i, k)
               B == ClosesIn(q, i - 1, k)
    <3>1. i - 1 \in Nat /\ i \notin ClosesIn(q, i - 1, k)
      BY <1>1 DEF ClosesIn
    <3>2. 1..i = (1..(i - 1)) \cup {i}
      BY <1>1
    <3>3. A = B \cup (IF q[i] = CloseOf(k) THEN {i} ELSE {})
      BY <3>2 DEF ClosesIn
    <3>4. Upto(i, k) = Cardinality(A) /\ Upto(i - 1, k) = Cardinality(B)
      OBVIOUS
    <3>5. IsFiniteSet(B) /\ Cardinality(B) \in Nat /\ i \notin B
      BY <3>1, ClosingsFinite
    <3> HIDE DEF A, B, Upto
    <3>6. CASE q[i] = CloseOf(k)
      <4>1. A = B \cup {i}
        BY <3>3, <3>6
      <4> QED BY <3>4, <3>5, <3>6, <4>1, FS_AddElement
    <3>7. CASE q[i] # CloseOf(k)
      <4>1. A = B
        BY <3>3, <3>7
      <4> QED BY <3>4, <3>5, <3>7, <4>1
    <3> QED BY <3>6, <3>7
  <2> HIDE DEF s, Upto
  <2>4. CASE q[i] = gone
    <3>1. kept[i] = s
      BY <1>2, <2>1, <2>2, <2>4
    <3>2. \A k \in Keys : Upto(i, k) = Upto(i - 1, k)
      <4>1. ASSUME NEW k \in Keys PROVE Upto(i, k) = Upto(i - 1, k)
        <5>1. Upto(i - 1, k) \in Nat
          BY <2>1, ClosingsType
        <5>2. q[i] # CloseOf(k)
          BY <1>5, <2>4
        <5> QED BY <2>3, <5>1, <5>2
      <4> QED BY <4>1
    <3> QED BY <1>1, <2>1, <3>1, <3>2
  <2>5. CASE q[i] # gone
    <3>1. kept[i] = Append(s, q[i])
      BY <1>2, <2>1, <2>2, <2>5
    <3>2. q[i] \in Event /\ kept[i] \in Seq(Event)
      BY <1>1, <2>1, <3>1
    <3>3. \A k \in Keys : Closings(kept[i], k) = Upto(i, k)
      BY <2>1, <2>3, <3>1, <3>2, ClosingsAppend
    <3> QED BY <1>1, <3>2, <3>3
  <2> QED BY <2>4, <2>5
<1> HIDE DEF S
<1>13. 0..n \subseteq S
  BY <1>1, <1>11, <1>12, SetInductionTo
<1>14. n \in S
  BY <1>1, <1>13
<1>15. \A k : Upto(n, k) = Closings(q, k)
  BY DEF Closings, n
<1> QED BY <1>3, <1>14, <1>15 DEF S

(* A step of connection c that leaves it with the queue q, the set o and the *)
(* commands m.                                                               *)
LEMMA WireAt ==
  ASSUME WireInv, NEW c \in Conns, NEW q \in Seq(Event), NEW o \in SUBSET Keys,
         NEW m \in [Keys -> Nat],
         events' = [events EXCEPT ![c] = q], opened' = [opened EXCEPT ![c] = o],
         commands' = [commands EXCEPT ![c] = m], closes' \in Nat, closes <= closes',
         \A x \in Conns : x # c => up'[x] = up[x], up'[c] \/ q = <<>>,
         \A k \in Keys : Asked(m, q, o, k) <= 1 + closes'
  PROVE  WireInv'
<1>1. \A x \in Conns : /\ events'[x] = IF x = c THEN q ELSE events[x]
                       /\ opened'[x] = IF x = c THEN o ELSE opened[x]
                       /\ commands'[x] = IF x = c THEN m ELSE commands[x]
  BY DEF WireInv
<1>2. /\ opened' \in [Conns -> SUBSET Keys] /\ events' \in [Conns -> Seq(Event)]
      /\ commands' \in [Conns -> [Keys -> Nat]]
  BY DEF WireInv
<1>3. QuietWhenDown'
  BY <1>1 DEF WireInv, QuietWhenDown
<1>4. ASSUME NEW x \in Conns, NEW k \in Keys
      PROVE  Asked(commands'[x], events'[x], opened'[x], k) <= 1 + closes'
  <2>1. CASE x = c
    BY <1>1, <2>1
  <2>2. CASE x # c
    <3>1. Asked(commands[x], events[x], opened[x], k) <= 1 + closes
      BY DEF WireInv, CommandsCounted
    <3>2. Asked(commands[x], events[x], opened[x], k) \in Nat
      <4>1. commands[x][k] \in Nat
        BY DEF WireInv
      <4>2. Closings(events[x], k) \in Nat
        <5>1. events[x] \in Seq(Event)
          BY DEF WireInv
        <5> QED BY <5>1, ClosingsType
      <4> QED BY <4>1, <4>2 DEF Asked
    <3>3. closes \in Nat
      BY DEF WireInv
    <3> QED BY <1>1, <2>2, <3>1, <3>2, <3>3
  <2> QED BY <2>1, <2>2
<1>5. CommandsCounted'
  BY <1>4 DEF CommandsCounted
<1> QED BY <1>2, <1>3, <1>5 DEF WireInv

LEMMA WireUntouched ==
  ASSUME WireInv, UNCHANGED <<up, wire, closes>>
  PROVE  WireInv'
<1>1. \A c \in Conns : \A k \in Keys :
        Asked(commands'[c], events'[c], opened'[c], k) = Asked(commands[c], events[c], opened[c], k)
  BY DEF wire
<1>2. CommandsCounted'
  BY <1>1 DEF WireInv, CommandsCounted, wire
<1> QED BY <1>2 DEF WireInv, wire, QuietWhenDown

(* Connections that end, or start with the cores they know. *)
LEMMA WireEnded ==
  ASSUME WireInv, NEW C \in SUBSET Conns, Ended(C), UNCHANGED closes
  PROVE  WireInv'
<1>1. /\ up' = [c \in Conns |-> up[c] /\ c \notin C]
      /\ opened' = [c \in Conns |-> IF c \in C THEN {} ELSE opened[c]]
      /\ commands' = [c \in Conns |-> IF c \in C THEN [k \in Keys |-> 0] ELSE commands[c]]
      /\ events' = [c \in Conns |-> IF c \in C THEN <<>> ELSE events[c]]
  BY DEF Ended
<1>2. /\ opened' \in [Conns -> SUBSET Keys] /\ events' \in [Conns -> Seq(Event)]
      /\ commands' \in [Conns -> [Keys -> Nat]]
  <2>1. <<>> \in Seq(Event) /\ [k \in Keys |-> 0] \in [Keys -> Nat] /\ {} \in SUBSET Keys
    OBVIOUS
  <2> QED BY <1>1, <2>1 DEF WireInv
<1>3. QuietWhenDown'
  BY <1>1 DEF WireInv, QuietWhenDown
<1>4. ASSUME NEW c \in Conns, NEW k \in Keys
      PROVE  Asked(commands'[c], events'[c], opened'[c], k) <= 1 + closes
  <2>1. CASE c \in C
    <3>1. commands'[c][k] = 0 /\ events'[c] = <<>> /\ opened'[c] = {}
      BY <1>1, <2>1
    <3>2. closes \in Nat
      BY DEF WireInv
    <3> QED BY <3>1, <3>2, ClosingsEmpty DEF Asked
  <2>2. CASE c \notin C
    BY <1>1, <2>2 DEF WireInv, CommandsCounted
  <2> QED BY <2>1, <2>2
<1>5. CommandsCounted'
  BY <1>4 DEF CommandsCounted
<1> QED BY <1>2, <1>3, <1>5 DEF WireInv

LEMMA WireConnect ==
  ASSUME WireInv, NodeInv, NEW c \in Conns, Connect(c)
  PROVE  WireInv'
<1> DEFINE o == IF c \in Dialed THEN registry ELSE {}
           m == [k \in Keys |-> IF k \in o THEN 1 ELSE 0]
<1>1. /\ ~up[c] /\ up' = [up EXCEPT ![c] = TRUE] /\ opened' = [opened EXCEPT ![c] = o]
      /\ commands' = [commands EXCEPT ![c] = m] /\ UNCHANGED <<events, closes>>
  BY DEF Connect, bounds
<1>2. o \in SUBSET Keys /\ m \in [Keys -> Nat] /\ up \in [Conns -> BOOLEAN] /\ closes \in Nat
  BY DEF NodeInv, NodeTypes, WireInv
<1>3. events[c] = <<>> /\ events' = [events EXCEPT ![c] = <<>>] /\ <<>> \in Seq(Event)
  BY <1>1 DEF WireInv, QuietWhenDown
<1>4. \A k \in Keys : Asked(m, <<>>, o, k) <= 1 + closes'
  <2>1. \A k \in Keys : m[k] = IF k \in o THEN 1 ELSE 0
    OBVIOUS
  <2> HIDE DEF m, o
  <2> QED BY <1>1, <1>2, <2>1, ClosingsEmpty DEF Asked
<1> HIDE DEF m, o
<1>5. closes' \in Nat /\ closes <= closes' /\ \A x \in Conns : x # c => up'[x] = up[x]
  BY <1>1, <1>2
<1> QED BY <1>1, <1>2, <1>3, <1>4, <1>5, WireAt

(* Command::Open is taken, or the hub opens: no Close is queued. *)
LEMMA WireOpens ==
  ASSUME WireInv, NEW c \in Conns, Protocol(c)
  PROVE  WireInv'
<1>1. UNCHANGED <<up, opened, closes>> /\ up[c] /\ closes \in Nat
  BY DEF Protocol, CommandOpen, HubOpen, Polls, bounds, WireInv
<1> DEFINE q == events[c]
           m == commands[c]
           o == opened[c]
<1>2. q \in Seq(Event) /\ o \in SUBSET Keys /\ m \in [Keys -> Nat]
      /\ \A k \in Keys : Asked(m, q, o, k) <= 1 + closes
  BY DEF WireInv, CommandsCounted
<1>3. PICK k \in Keys : CommandOpen(c, k) \/ HubOpen(c, k)
  BY DEF Protocol
<1>4. PICK ev \in Event : /\ ev.t # "close"
                          /\ \/ UNCHANGED events
                             \/ events' = [events EXCEPT ![c] = Append(@, ev)]
  <2> DEFINE d == [t |-> "discovery", key |-> k]
             e == [t |-> "channel", key |-> k]
  <2>1. d \in Event /\ e \in Event /\ d.t # "close" /\ e.t # "close"
    BY DEF Event
  <2>2. \/ UNCHANGED events \/ events' = [events EXCEPT ![c] = Append(@, d)]
        \/ events' = [events EXCEPT ![c] = Append(@, e)]
    BY <1>3 DEF CommandOpen, HubOpen
  <2> QED BY <2>1, <2>2
<1>5. PICK q2 \in Seq(Event) : /\ events' = [events EXCEPT ![c] = q2]
                               /\ \A j \in Keys : Closings(q2, j) = Closings(q, j)
  <2>1. CASE UNCHANGED events
    <3>1. events' = [events EXCEPT ![c] = q]
      BY <2>1 DEF WireInv
    <3> QED BY <1>2, <3>1
  <2>2. CASE events' = [events EXCEPT ![c] = Append(@, ev)]
    <3>1. \A j : ev # CloseOf(j)
      BY <1>4 DEF CloseOf
    <3>2. ASSUME NEW j \in Keys PROVE Closings(Append(q, ev), j) = Closings(q, j)
      <4>1. Closings(q, j) \in Nat
        BY <1>2, ClosingsType
      <4> QED BY <1>2, <3>1, <4>1, ClosingsAppend
    <3>3. Append(q, ev) \in Seq(Event) /\ events' = [events EXCEPT ![c] = Append(q, ev)]
      BY <1>2, <2>2
    <3> QED BY <3>2, <3>3
  <2> QED BY <1>4, <2>1, <2>2
<1>6. PICK m2 \in [Keys -> Nat] : /\ commands' = [commands EXCEPT ![c] = m2]
                                  /\ \A j \in Keys : m2[j] <= m[j]
  <2>1. CASE UNCHANGED commands
    <3>1. commands' = [commands EXCEPT ![c] = m] /\ \A j \in Keys : m[j] <= m[j]
      BY <1>2, <2>1 DEF WireInv
    <3> QED BY <1>2, <3>1
  <2>2. CASE commands[c][k] > 0 /\ commands' = [commands EXCEPT ![c][k] = @ - 1]
    <3> DEFINE n == [m EXCEPT ![k] = @ - 1]
    <3>1. n \in [Keys -> Nat] /\ \A j \in Keys : n[j] <= m[j]
      BY <1>2, <2>2
    <3>2. commands' = [commands EXCEPT ![c] = n]
      BY <2>2 DEF WireInv
    <3> HIDE DEF n
    <3> QED BY <3>1, <3>2
  <2> QED BY <1>3, <2>1, <2>2 DEF CommandOpen, HubOpen
<1>7. ASSUME NEW j \in Keys PROVE Asked(m2, q2, o, j) <= 1 + closes'
  <2>1. Asked(m, q, o, j) <= 1 + closes /\ m[j] \in Nat /\ m2[j] \in Nat /\ m2[j] <= m[j]
        /\ Closings(q, j) \in Nat /\ Closings(q2, j) = Closings(q, j)
    BY <1>2, <1>5, <1>6, ClosingsType
  <2> HIDE DEF m, q, o
  <2> QED BY <1>1, <2>1 DEF Asked
<1>8. opened' = [opened EXCEPT ![c] = o] /\ closes' \in Nat /\ closes <= closes'
      /\ (\A x \in Conns : x # c => up'[x] = up[x]) /\ (up'[c] \/ q2 = <<>>)
  BY <1>1 DEF WireInv
<1> HIDE DEF q, m, o
<1> QED BY <1>2, <1>5, <1>6, <1>7, <1>8, WireAt

(* A Close from the hub raises both sides of the count for its core. *)
LEMMA WireHubClose ==
  ASSUME WireInv, NEW c \in Conns, NEW k \in Keys, HubClose(c, k)
  PROVE  WireInv'
<1> DEFINE q == events[c]
           m == commands[c]
           o == opened[c]
           ev == [t |-> "close", key |-> k]
           u == Unclosed(q, k)
<1>1. /\ UNCHANGED <<up, opened, commands>> /\ up[c] /\ closes' = closes + 1
      /\ events' = [events EXCEPT ![c] = Append(u, ev)]
  BY DEF HubClose, Polls
<1>2. q \in Seq(Event) /\ o \in SUBSET Keys /\ m \in [Keys -> Nat] /\ closes \in Nat
      /\ \A j \in Keys : Asked(m, q, o, j) <= 1 + closes
  BY DEF WireInv, CommandsCounted
<1>3. ev \in Event /\ \A j : ev = CloseOf(j) => j = k
  BY DEF Event, CloseOf
<1>4. u \in Seq(Event) /\ \A j \in Keys : Closings(u, j) = Closings(q, j)
  BY <1>2, UnclosedKeeps
<1>5. Append(u, ev) \in Seq(Event)
  BY <1>3, <1>4
<1>6. ASSUME NEW j \in Keys PROVE Asked(m, Append(u, ev), o, j) <= 1 + closes'
  <2>1. Closings(q, j) \in Nat /\ m[j] \in Nat
    BY <1>2, ClosingsType
  <2>2. Closings(Append(u, ev), j) = Closings(u, j) + (IF ev = CloseOf(j) THEN 1 ELSE 0)
    BY <1>3, <1>4, ClosingsAppend
  <2>3. Closings(u, j) = Closings(q, j) /\ Asked(m, q, o, j) <= 1 + closes
    BY <1>2, <1>4
  <2> HIDE DEF q, m, o, u, ev
  <2> QED BY <1>1, <1>2, <2>1, <2>2, <2>3 DEF Asked
<1>7. /\ opened' = [opened EXCEPT ![c] = o] /\ commands' = [commands EXCEPT ![c] = m]
      /\ closes' \in Nat /\ closes <= closes' /\ up'[c]
      /\ \A x \in Conns : x # c => up'[x] = up[x]
  BY <1>1, <1>2 DEF WireInv
<1> HIDE DEF q, m, o, u, ev
<1> QED BY <1>1, <1>2, <1>5, <1>6, <1>7, WireAt

(* An event taken by the driver: a core it asks for did not count as open and *)
(* does now, and one it forgets has a Close less in the queue.                *)
LEMMA WireDriver ==
  ASSUME WireInv, NEW c \in Conns, Driver(c)
  PROVE  WireInv'
<1> DEFINE q == events[c]
           m == commands[c]
           o == opened[c]
           k == Head(events[c]).key
<1>1. /\ UNCHANGED <<up, closes>> /\ up[c] /\ q # <<>>
      /\ events' = [events EXCEPT ![c] = Tail(q)]
  BY DEF Driver, OnDiscoveryKey, OnChannel, OnClose, TakesEvent, Polls, bounds
<1>2. q \in Seq(Event) /\ o \in SUBSET Keys /\ m \in [Keys -> Nat] /\ closes \in Nat
      /\ \A j \in Keys : Asked(m, q, o, j) <= 1 + closes
  BY DEF WireInv, CommandsCounted
<1>3. Tail(q) \in Seq(Event) /\ Head(q) \in Event
  BY <1>1, <1>2
<1>4. k \in Keys
  BY <1>3 DEF Event
<1>5. \A j \in Keys :
        /\ Closings(q, j) \in Nat /\ Closings(Tail(q), j) \in Nat /\ m[j] \in Nat
        /\ Closings(Tail(q), j) <= Closings(q, j)
        /\ Head(q) = CloseOf(j) => Closings(Tail(q), j) + 1 <= Closings(q, j)
  <2> SUFFICES ASSUME NEW j \in Keys
               PROVE  /\ Closings(q, j) \in Nat /\ Closings(Tail(q), j) \in Nat /\ m[j] \in Nat
                      /\ Closings(Tail(q), j) <= Closings(q, j)
                      /\ Head(q) = CloseOf(j) => Closings(Tail(q), j) + 1 <= Closings(q, j)
    OBVIOUS
  <2>1. Closings(q, j) \in Nat /\ Closings(Tail(q), j) \in Nat /\ m[j] \in Nat
    BY <1>2, <1>3, ClosingsType
  <2>2. Closings(Tail(q), j) + (IF Head(q) = CloseOf(j) THEN 1 ELSE 0) <= Closings(q, j)
    BY <1>1, <1>2, ClosingsTail
  <2> HIDE DEF q, m
  <2> QED BY <2>1, <2>2
<1>6. PICK m2 \in [Keys -> Nat], o2 \in SUBSET Keys :
        /\ commands' = [commands EXCEPT ![c] = m2] /\ opened' = [opened EXCEPT ![c] = o2]
        /\ \A j \in Keys : Asked(m2, Tail(q), o2, j) <= 1 + closes
  <2>1. CASE UNCHANGED <<commands, opened>>
    <3>1. commands' = [commands EXCEPT ![c] = m] /\ opened' = [opened EXCEPT ![c] = o]
      BY <2>1 DEF WireInv
    <3>2. ASSUME NEW j \in Keys PROVE Asked(m, Tail(q), o, j) <= 1 + closes
      <4>1. Asked(m, q, o, j) <= 1 + closes
        BY <1>2
      <4> HIDE DEF q, m, o
      <4> QED BY <1>2, <1>5, <4>1 DEF Asked
    <3> QED BY <1>2, <3>1, <3>2
  <2>2. CASE /\ k \notin o /\ opened' = [opened EXCEPT ![c] = @ \cup {k}]
             /\ commands' = [commands EXCEPT ![c][k] = @ + 1]
    <3> DEFINE n == [m EXCEPT ![k] = @ + 1]
    <3>1. n \in [Keys -> Nat] /\ \A j \in Keys : n[j] = IF j = k THEN m[j] + 1 ELSE m[j]
      <4>1. m \in [Keys -> Nat] /\ k \in Keys
        BY <1>2, <1>4
      <4> HIDE DEF m, k
      <4>2. m[k] + 1 \in Nat
        BY <4>1
      <4> QED BY <4>1, <4>2
    <3>2. commands' = [commands EXCEPT ![c] = n] /\ opened' = [opened EXCEPT ![c] = o \cup {k}]
      BY <2>2 DEF WireInv
    <3> HIDE DEF n
    <3>3. ASSUME NEW j \in Keys PROVE Asked(n, Tail(q), o \cup {k}, j) <= 1 + closes
      <4>1. Asked(m, q, o, j) <= 1 + closes
        BY <1>2
      <4> HIDE DEF q, m, o, k
      <4>2. CASE j = k
        <5>1. k \notin o /\ n[k] = m[k] + 1
          BY <2>2, <3>1, <4>2
        <5> QED BY <1>2, <1>5, <4>1, <4>2, <5>1 DEF Asked
      <4>3. CASE j # k
        <5>1. n[j] = m[j]
          BY <3>1, <4>3
        <5> QED BY <1>2, <1>5, <4>1, <4>3, <5>1 DEF Asked
      <4> QED BY <4>2, <4>3
    <3>4. o \cup {k} \in SUBSET Keys
      BY <1>2, <1>4
    <3> QED BY <3>1, <3>2, <3>3, <3>4
  <2>3. CASE /\ Head(q).t = "close" /\ opened' = [opened EXCEPT ![c] = Forgotten(c, k)]
             /\ UNCHANGED commands
    <3>1. Head(q) = CloseOf(k)
      BY <1>3, <2>3 DEF Event, CloseOf
    <3>2. o \ {k} \in SUBSET Keys /\ opened' = [opened EXCEPT ![c] = o \ {k}]
          /\ commands' = [commands EXCEPT ![c] = m]
      BY <1>2, <2>3 DEF Forgotten, WireInv
    <3>3. ASSUME NEW j \in Keys PROVE Asked(m, Tail(q), o \ {k}, j) <= 1 + closes
      <4>1. Asked(m, q, o, j) <= 1 + closes
        BY <1>2
      <4> HIDE DEF q, m, o, k
      <4>2. CASE j = k
        BY <1>2, <1>5, <3>1, <4>1, <4>2 DEF Asked
      <4>3. CASE j # k
        BY <1>2, <1>5, <4>1, <4>3 DEF Asked
      <4> QED BY <4>2, <4>3
    <3> QED BY <1>2, <3>2, <3>3
  <2> QED BY <2>1, <2>2, <2>3
          DEF Driver, OnDiscoveryKey, OnChannel, OnClose, TakesEvent, ShouldOpen
<1>7. (\A x \in Conns : x # c => up'[x] = up[x]) /\ up'[c] /\ closes' \in Nat
        /\ closes <= closes'
      /\ \A j \in Keys : Asked(m2, Tail(q), o2, j) <= 1 + closes'
  BY <1>1, <1>2, <1>6
<1> HIDE DEF q
<1> QED BY <1>1, <1>3, <1>6, <1>7, WireAt

LEMMA WireInitially == Init => WireInv
<1> SUFFICES ASSUME Init PROVE WireInv
  OBVIOUS
<1>1. <<>> \in Seq(Event) /\ [k \in Keys |-> 0] \in [Keys -> Nat]
  OBVIOUS
<1>2. /\ \A c \in Conns : events[c] = <<>> /\ opened[c] = {}
      /\ \A c \in Conns : \A k \in Keys : commands[c][k] = 0
      /\ closes = 0
  BY DEF Init
<1>3. QuietWhenDown /\ CommandsCounted
  BY <1>2, ClosingsEmpty DEF QuietWhenDown, CommandsCounted, Asked
<1> QED BY <1>1, <1>3 DEF Init, WireInv

LEMMA WireStep == WireInv /\ NodeInv /\ [Next]_vars => WireInv'
<1> SUFFICES ASSUME WireInv, NodeInv, [Next]_vars PROVE WireInv'
  OBVIOUS
<1>1. CASE Boot \/ HubPublish \/ UNCHANGED vars
  BY <1>1, WireUntouched DEF Boot, HubPublish, vars, wire, bounds
<1>2. CASE Restart
  BY <1>2, WireEnded DEF Restart
<1>3. ASSUME NEW c \in Conns,
             \/ Connect(c) \/ Drop(c) \/ Protocol(c) \/ Driver(c) \/ AddCores(c)
             \/ OnEntry(c) \/ OpenCoreFails(c)
             \/ \E i \in Entries : HubSendEntry(c, i)
             \/ \E k \in Keys : HubClose(c, k)
      PROVE  WireInv'
  <2>1. CASE Connect(c) \/ Protocol(c) \/ Driver(c) \/ \E k \in Keys : HubClose(c, k)
    BY <2>1, WireConnect, WireOpens, WireDriver, WireHubClose
  <2>2. CASE Drop(c) \/ OpenCoreFails(c)
    BY <2>2, WireEnded DEF Drop, OpenCoreFails
  <2>3. CASE OnEntry(c) \/ \E i \in Entries : HubSendEntry(c, i)
    BY <2>3, WireUntouched DEF HubSendEntry, OnEntry
  <2>4. CASE AddCores(c)
    <3>1. CASE FinishAddCores(c)
      <4>1. UNCHANGED closes /\ (Ended({c}) \/ UNCHANGED <<up, wire>>)
        BY <3>1 DEF FinishAddCores, bounds
      <4> QED BY <4>1, WireEnded, WireUntouched
    <3>2. CASE \/ TakeAddCores(c) \/ InsertCore(c)
               \/ \E k \in Cores : SkipCore(c, k) \/ OpenCore(c, k)
      BY <3>2, WireUntouched DEF TakeAddCores, InsertCore, SkipCore, OpenCore, bounds
    <3> QED BY <2>4, <3>1, <3>2 DEF AddCores
  <2> QED BY <1>3, <2>1, <2>2, <2>3, <2>4
<1> QED BY <1>1, <1>2, <1>3 DEF Next

(* The parts of the type invariant that only their own bounds keep. *)
RestTypes ==
  /\ running \in BOOLEAN /\ lost \subseteq Cores
  /\ remote \in [Conns -> SUBSET Keys] /\ tasks \in [Conns -> SUBSET Keys]
  /\ sent \in [Conns -> SUBSET Entries]
  /\ drops \in 0..MaxDrops /\ closes \in 0..MaxCloses
  /\ restarts \in 0..MaxRestarts /\ faults \in 0..MaxFaults

LEMMA RestStep == RestTypes /\ NodeInv /\ [Next]_vars => RestTypes'
<1> SUFFICES ASSUME RestTypes, NodeInv, [Next]_vars PROVE RestTypes'
  OBVIOUS
<1>1. MaxDrops \in Nat /\ MaxCloses \in Nat /\ MaxRestarts \in Nat /\ MaxFaults \in Nat
  OBVIOUS
<1>2. ASSUME NEW C \in SUBSET Conns, Ended(C)
      PROVE  /\ remote' \in [Conns -> SUBSET Keys] /\ tasks' \in [Conns -> SUBSET Keys]
             /\ sent' \in [Conns -> SUBSET Entries]
  BY <1>2 DEF Ended, RestTypes
<1>3. \A c \in Conns : Queued(c) \subseteq Cores
  <2> SUFFICES ASSUME NEW c \in Conns, NEW k \in Queued(c) PROVE k \in Cores
    OBVIOUS
  <2>1. driver[c] \in DriverState /\ messages[c] \in Seq(SUBSET Cores)
    BY DEF NodeInv, NodeTypes
  <2> QED BY <2>1, QueuedMeans, DriverSteps
<1>4. CASE UNCHANGED vars
  BY <1>4 DEF vars, RestTypes
<1>5. CASE Boot
  <2>1. stored \subseteq Entries
    BY DEF NodeInv, NodeTypes
  <2> QED BY <1>5, <2>1, NamedType DEF Boot, RestTypes, wire, control, bounds
<1>6. CASE HubPublish
  BY <1>6 DEF HubPublish, RestTypes, wire, control, bounds, node
<1>7. CASE Restart
  <2>1. running' = FALSE /\ lost' = {} /\ UNCHANGED <<drops, closes, faults>> /\ Ended(Conns)
    BY <1>7 DEF Restart
  <2>2. restarts' \in 0..MaxRestarts
    BY <1>1, <1>7 DEF Restart, RestTypes
  <2> QED BY <1>2, <2>1, <2>2 DEF RestTypes
<1>8. ASSUME NEW c \in Conns,
             \/ Connect(c) \/ Drop(c) \/ Protocol(c) \/ Driver(c) \/ AddCores(c)
             \/ OnEntry(c) \/ OpenCoreFails(c)
             \/ \E i \in Entries : HubSendEntry(c, i)
             \/ \E k \in Keys : HubClose(c, k)
      PROVE  RestTypes'
  <2>1. CASE Connect(c)
    BY <2>1 DEF Connect, RestTypes, NodeInv, NodeTypes, node, control, bounds
  <2>2. CASE Drop(c)
    BY <1>1, <1>2, <1>3, <2>2 DEF Drop, RestTypes, node
  <2>3. CASE Protocol(c)
    BY <2>3 DEF Protocol, CommandOpen, HubOpen, RestTypes, control, node, bounds
  <2>4. CASE Driver(c)
    <3>1. UNCHANGED <<running, lost, remote, bounds>>
      BY <2>4 DEF Driver, OnDiscoveryKey, OnChannel, OnClose, node
    <3>2. tasks' \in [Conns -> SUBSET Keys]
      <4> DEFINE new == {Head(events[c]).key} \cap registry
      <4>1. UNCHANGED tasks \/ tasks' = [tasks EXCEPT ![c] = @ \cup new]
        BY <2>4 DEF Driver, OnDiscoveryKey, OnChannel, OnClose
      <4>2. new \in SUBSET Keys
        BY DEF NodeInv, NodeTypes
      <4> HIDE DEF new
      <4> QED BY <4>1, <4>2 DEF RestTypes
    <3>3. sent' \in [Conns -> SUBSET Entries]
      <4>1. sent' = sent \/ sent' = [sent EXCEPT ![c] = stored]
        BY <2>4 DEF Driver, OnDiscoveryKey, OnChannel, OnClose, control
      <4>2. stored \in SUBSET Entries
        BY DEF NodeInv, NodeTypes
      <4> QED BY <4>1, <4>2 DEF RestTypes
    <3> QED BY <3>1, <3>2, <3>3 DEF RestTypes, bounds
  <2>5. CASE AddCores(c)
    <3>1. CASE FinishAddCores(c)
      BY <1>2, <1>3, <3>1 DEF FinishAddCores, RestTypes, wire, control, node, bounds
    <3>2. CASE \/ TakeAddCores(c) \/ InsertCore(c)
               \/ \E k \in Cores : SkipCore(c, k) \/ OpenCore(c, k)
      BY <3>2 DEF TakeAddCores, InsertCore, SkipCore, OpenCore, RestTypes, wire, control, node,
         bounds
    <3> QED BY <2>5, <3>1, <3>2 DEF AddCores
  <2>6. ASSUME NEW i \in Entries, HubSendEntry(c, i) PROVE RestTypes'
    <3>2. sent' = [sent EXCEPT ![c] = @ \cup {i}]
      BY <2>6 DEF HubSendEntry
    <3>3. sent' \in [Conns -> SUBSET Entries]
      BY <3>2 DEF RestTypes
    <3>4. UNCHANGED <<running, lost, remote, tasks, drops, closes, restarts>>
          /\ faults' \in 0..MaxFaults
      BY <1>1, <2>6 DEF HubSendEntry, RestTypes, node, wire
    <3> QED BY <3>3, <3>4 DEF RestTypes
  <2>7. CASE OnEntry(c)
    <3>1. UNCHANGED <<running, remote, tasks, drops, closes, restarts>>
      BY <2>7 DEF OnEntry, node, wire
    <3>2. PICK b \in inbox[c] : lost' = lost \/ lost' = lost \cup Named(b.entry)
      BY <2>7 DEF OnEntry
    <3>3. b.entry \in Entries
      BY DEF NodeInv, NodeTypes
    <3>4. lost' \subseteq Cores
      BY <3>2, <3>3, NamedType DEF RestTypes
    <3>5. faults' \in 0..MaxFaults
      <4>1. UNCHANGED faults \/ (faults < MaxFaults /\ faults' = faults + 1)
        BY <2>7 DEF OnEntry
      <4> QED BY <1>1, <4>1 DEF RestTypes
    <3>6. sent' \in [Conns -> SUBSET Entries]
      <4>1. PICK d \in inbox[c] : Asks(c, d.entry, ~d.closed) \/ Asks(c, d.entry, FALSE)
        BY <2>7 DEF OnEntry
      <4>2. d.entry \in Entries
        BY DEF NodeInv, NodeTypes
      <4>3. ASSUME NEW g, Asks(c, d.entry, g) PROVE sent' \in [Conns -> SUBSET Entries]
        BY <4>2, <4>3 DEF Asks, RestTypes
      <4> QED BY <4>1, <4>3
    <3> QED BY <3>1, <3>4, <3>5, <3>6 DEF RestTypes
  <2>8. CASE OpenCoreFails(c)
    BY <1>1, <1>2, <1>3, <2>8 DEF OpenCoreFails, RestTypes
  <2>9. ASSUME NEW k \in Keys, HubClose(c, k) PROVE RestTypes'
    <3>1. UNCHANGED <<running, sent, lost, drops, restarts, faults>>
          /\ closes' \in 0..MaxCloses
      BY <1>1, <2>9 DEF HubClose, RestTypes, node
    <3>2. remote' \in [Conns -> SUBSET Keys] /\ tasks' \in [Conns -> SUBSET Keys]
      BY <2>9 DEF HubClose, RestTypes
    <3> QED BY <3>1, <3>2 DEF RestTypes
  <2> QED BY <1>8, <2>1, <2>2, <2>3, <2>4, <2>5, <2>6, <2>7, <2>8, <2>9
<1> QED BY <1>4, <1>5, <1>6, <1>7, <1>8 DEF Next

\* Every variable keeps its range; in particular, however Opens and Closes cross
\* and events lie queued, a driver has asked for a core at most once more than
\* the hub has closed channels.  [mirror.rs: run_connection, `opened`]
THEOREM NodeTyping == Spec => []TypeOK
<1>1. Init => RestTypes
  <2>1. 0 \in 0..MaxDrops /\ 0 \in 0..MaxCloses /\ 0 \in 0..MaxRestarts /\ 0 \in 0..MaxFaults
    OBVIOUS
  <2> QED BY <2>1 DEF Init, RestTypes
<1>2. Init => OpensCounted
  BY DEF Init, OpensCounted
<1>3. NodeInv /\ OpensCounted /\ WireInv /\ RestTypes => TypeOK
  <2> SUFFICES ASSUME NodeInv, OpensCounted, WireInv, RestTypes PROVE TypeOK
    OBVIOUS
  <2>1. ASSUME NEW c \in Conns, NEW k \in Keys PROVE commands[c][k] \in 0..(1 + closes)
    <3>1. Asked(commands[c], events[c], opened[c], k) <= 1 + closes
      BY DEF WireInv, CommandsCounted
    <3>2. commands[c][k] \in Nat /\ closes \in Nat /\ Closings(events[c], k) \in Nat
      BY ClosingsType DEF WireInv
    <3> QED BY <3>1, <3>2 DEF Asked
  <2>2. commands \in [Conns -> [Keys -> 0..(1 + closes)]]
    <3>1. \A c \in Conns : commands[c] \in [Keys -> 0..(1 + closes)]
      BY <2>1 DEF WireInv
    <3> QED BY <3>1 DEF WireInv
  <2> QED BY <2>2 DEF NodeInv, NodeTypes, OpensCounted, WireInv, RestTypes, TypeOK
<1> QED BY <1>1, <1>2, <1>3, WireInitially, WireStep, RestStep, OpensStep, NodeInvariance,
           PTL DEF Spec
=============================================================================
