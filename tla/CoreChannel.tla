---------------------------- MODULE CoreChannel ----------------------------
(***************************************************************************)
(* Replication of ONE hypercore between a hub that writes it and leaves    *)
(* that mirror it: the channel task `core_channel` of leaf-core's          *)
(* mirror.rs, its message handler `on_message`, its 3 s resync tick, and   *)
(* the loss and redial of the connections the channels live on.            *)
(*                                                                         *)
(* A leaf may have several connections at once (leaf-host dials every      *)
(* --connect address and accepts on --listen; the ESP32 dials every        *)
(* address of hub_addr).  Each connection carries one channel for the      *)
(* core, with a PeerState of its own at either end; all channels of a node *)
(* share its one core.  A message handler holds the core's lock from the   *)
(* state it reads to the state it writes, and file storage never yields,   *)
(* so one handler is one step.                                             *)
(*                                                                         *)
(* Data is abstracted to what the handlers tell apart.  A core is its      *)
(* verified length, the set of blocks held and whether the manifest is     *)
(* known.  A Merkle proof is the numbers it speaks of plus whether the     *)
(* verifier accepts it.  Request ids are dropped: no handler reads them.   *)
(* Range and Want change no state at either end and are dropped.  The fork *)
(* is constant.  The hub is a JavaScript peer outside the repository: its  *)
(* actions say what the leaf's code relies on.                             *)
(***************************************************************************)
EXTENDS Naturals, Sequences, FiniteSets

CONSTANTS
  Hub,        \* the writer of the core
  Leaves,     \* the mirroring nodes
  Links,      \* connections: <<dialer, listener, number>>
  Keepalive,  \* the links whose remote sends secret-stream keepalives
  HubReady,   \* TRUE iff the hub knows the core's manifest from the start
  FaultKinds, \* which local storage failures may happen, see Faults below
  MaxLen,     \* bound: blocks the hub ever appends
  MaxDrops,   \* bound: connections lost for an external reason
  MaxFaults   \* bound: storage failures

Nodes == Leaves \cup {Hub}
NoBlock == MaxLen + 1   \* PeerState.inflight_block = None

ASSUME ChannelAssumption ==
  /\ Hub \notin Leaves
  /\ Links \subseteq Nodes \X Nodes \X Nat
  /\ \A l \in Links : l[1] # l[2] /\ <<l[2], l[1], l[3]>> \notin Links
  /\ Keepalive \subseteq Links
  /\ HubReady \in BOOLEAN
  /\ FaultKinds \subseteq {"apply", "after", "tick"}
  /\ MaxLen \in Nat \ {0} /\ MaxDrops \in Nat /\ MaxFaults \in Nat

\* The two ends of every link: <<n, m, k>> is the end at n of its k-th
\* connection with m.
Flip(e) == <<e[2], e[1], e[3]>>
Ends == Links \cup {Flip(l) : l \in Links}
LinkOf(e) == IF e \in Links THEN e ELSE Flip(e)

VARIABLES
  len,    \* len[n]: verified length of n's core (tree.length)
  held,   \* held[n]: the blocks n stores (the bitfield)
  man,    \* man[n]: n knows the core's manifest
  up,     \* up[l]: the connection of link l is established
  st,     \* st[e]: PeerState of the channel task at end e
  net,    \* net[e]: messages sent at end e and not yet handled, in order
  drops, faults  \* how much of MaxDrops and MaxFaults is used

core == <<len, held, man>>
vars == <<len, held, man, up, st, net, drops, faults>>

\* PeerState::default(), before the task runs.
NewState(run) ==
  [run |-> run, synced |-> FALSE, rlen |-> 0, upg |-> FALSE, blk |-> NoBlock]

Sync(n)   == [t |-> "sync", len |-> n]
Manifest  == [t |-> "req", part |-> "manifest"]
NoData    == [t |-> "nodata"]

\* missing_nodes answers 0 for a block outside the requester's tree, and a
\* proof of 0 nodes proves nothing to a tree that lacks the leaf itself.
ReqBlock(i, length) ==
  [t |-> "req", part |-> "block", index |-> i, anchored |-> i < length]

\* request_upgrade: always everything between our length and the remote's.
ReqUpgrade(length, rlen) ==
  [t |-> "req", part |-> "upgrade", start |-> length, length |-> rlen - length]

\* The block at Info.contiguous_length, when the verified prefix has a hole:
\* the first that is not held.  A set of at most one element.
Hole(n) == {c \in 0..(len[n] - 1) : c \notin held[n] /\ 0..(c - 1) \subseteq held[n]}

----------------------------------------------------------------------------
Init ==
  /\ len = [n \in Nodes |-> 0]
  /\ held = [n \in Nodes |-> {}]
  /\ man = [n \in Nodes |-> n = Hub /\ HubReady]
  /\ up = [l \in Links |-> FALSE]
  /\ st = [e \in Ends |-> NewState("off")]
  /\ net = [e \in Ends |-> <<>>]
  /\ drops = 0 /\ faults = 0

----------------------------------------------------------------------------
(* Connections.                                                            *)

\* The dial loop succeeds, 3 s after the last connection ended.
Dial(l) ==
  /\ ~up[l]
  /\ up' = [up EXCEPT ![l] = TRUE]
  /\ UNCHANGED <<core, st, net, drops, faults>>

\* Losing a connection drops its channel tasks and everything in transit.
Disconnect(l) ==
  /\ up' = [up EXCEPT ![l] = FALSE]
  /\ st' = [e \in Ends |-> IF LinkOf(e) = l THEN NewState("off") ELSE st[e]]
  /\ net' = [e \in Ends |-> IF LinkOf(e) = l THEN <<>> ELSE net[e]]

Drop(l) ==
  /\ up[l] /\ drops < MaxDrops
  /\ drops' = drops + 1
  /\ Disconnect(l)
  /\ UNCHANGED <<core, faults>>

\* core_channel starts: announce our state, ask for the manifest if unknown.
Start(e) ==
  LET n == e[1] IN
  /\ up[LinkOf(e)] /\ st[e].run = "off"
  /\ st' = [st EXCEPT ![e] = NewState("on")]
  /\ net' = [net EXCEPT ![e] = <<Sync(len[n])>> \o
                (IF man[n] \/ n = Hub THEN <<>> ELSE <<Manifest>>)]
  /\ UNCHANGED <<core, up, drops, faults>>

----------------------------------------------------------------------------
(* on_message, one action per kind of message.  Every handler takes the    *)
(* head of the inbound queue and appends its replies to the outbound one.  *)

Inbox(e) == net[Flip(e)]
Receives(e, type) ==
  /\ e[1] \in Leaves /\ st[e].run = "on" /\ Inbox(e) # <<>>
  /\ Head(Inbox(e)).t = type
Handle(e, replies) ==
  /\ net' = [net EXCEPT ![Flip(e)] = Tail(@), ![e] = @ \o replies]
  /\ UNCHANGED <<up, drops>>

\* Mutant: the error branch only logs.
ForgetNothing(s) == s

\* The error branch of core_channel: the channel lives on with nothing in
\* flight.
Forget(s) == [s EXCEPT !.upg = FALSE, !.blk = NoBlock]

\* Mutant: asks when the remote is as long as we are.
NeedsUpgradeOffByOne(n, s) == s.rlen >= len[n] /\ ~s.upg

\* We know of a longer log than ours and no upgrade is on its way.
NeedsUpgrade(n, s) == s.rlen > len[n] /\ ~s.upg

OnSynchronize(e) ==
  LET n == e[1]
      m == Head(Inbox(e))
      ask == /\ man[n] /\ NeedsUpgrade(n, [st[e] EXCEPT !.rlen = m.len])
             /\ m.len # st[e].rlen \/ ~st[e].synced
  IN
  /\ Receives(e, "sync")
  /\ st' = [st EXCEPT ![e] = [@ EXCEPT !.rlen = m.len, !.synced = TRUE,
                                       !.upg = st[e].upg \/ ask]]
  /\ Handle(e, (IF st[e].synced THEN <<>> ELSE <<Sync(len[n])>>) \o
               (IF ask THEN <<ReqUpgrade(len[n], m.len)>> ELSE <<>>))
  /\ UNCHANGED <<core, faults>>

\* A proof for the requested part, or none.
Proof(n, r) ==
  CASE r.part = "block" -> [t |-> "data", part |-> "block", index |-> r.index,
                            anchored |-> r.anchored]
    [] r.part = "upgrade" -> [t |-> "data", part |-> "upgrade", start |-> r.start,
                              length |-> r.length, head |-> len[n]]
    [] r.part = "manifest" -> [t |-> "data", part |-> "manifest"]

\* create_valueless_proof refuses every request on an empty core, and an
\* upgrade beyond the tree.
Provable(n, r) ==
  /\ len[n] > 0
  /\ r.part = "block" => r.index \in held[n]
  /\ r.part = "upgrade" => r.start + r.length <= len[n]

OnRequest(e) ==
  LET n == e[1]
      r == Head(Inbox(e))
  IN
  /\ Receives(e, "req")
  /\ \/ Provable(n, r) /\ Handle(e, <<Proof(n, r)>>) /\ UNCHANGED st
     \* the block is not stored: no value for the proof
     \/ /\ ~Provable(n, r) /\ len[n] > 0 /\ r.part = "block"
        /\ Handle(e, <<NoData>>) /\ UNCHANGED st
     \* or the proof itself fails: an error, and no answer
     \/ /\ ~Provable(n, r)
        /\ Handle(e, <<>>) /\ st' = [st EXCEPT ![e] = Forget(@)]
  /\ UNCHANGED <<core, faults>>

OnNoData(e) ==
  /\ Receives(e, "nodata")
  /\ st' = [st EXCEPT ![e] = Forget(@)]
  /\ Handle(e, <<>>)
  /\ UNCHANGED <<core, faults>>

ReceivesData(e, part) ==
  /\ Receives(e, "data") /\ Head(Inbox(e)).part = part

OnManifest(e) ==
  LET n == e[1]
      ask == NeedsUpgrade(n, st[e])
  IN
  /\ ReceivesData(e, "manifest")
  /\ man' = [man EXCEPT ![n] = TRUE]
  /\ st' = [st EXCEPT ![e].upg = @ \/ ask]
  /\ Handle(e, IF ask THEN <<ReqUpgrade(len[n], st[e].rlen)>> ELSE <<>>)
  /\ UNCHANGED <<len, held, faults>>

\* Mutant: any correctly signed upgrade is committed, a stale one too.
UpgradeVerifiesAny(n, d) == TRUE

\* verify_upgrade joins the proof to the current roots.  That works from the
\* length the request was made at, or when the requested end is exactly the
\* current length (the additional nodes then lead on to the remote's head).
UpgradeVerifies(n, d) == d.start = len[n] \/ d.start + d.length = len[n]

OnUpgrade(e) ==
  LET n == e[1]
      d == Head(Inbox(e))
      end == d.start + d.length
      sync == Sync(IF len[n] > end THEN len[n] ELSE end)
      fetch == len[n] < st[e].rlen /\ st[e].blk = NoBlock
  IN
  /\ ReceivesData(e, "upgrade") /\ UpgradeVerifies(n, d)
  /\ len' = [len EXCEPT ![n] = d.head]
  /\ st' = [st EXCEPT ![e] = [@ EXCEPT !.upg = FALSE,
                                       !.blk = IF fetch THEN len[n] ELSE st[e].blk]]
  /\ Handle(e, <<sync>> \o
               IF fetch THEN <<ReqBlock(len[n], d.head)>> ELSE <<>>)
  /\ UNCHANGED <<held, man, faults>>

\* The root a proof reaches must be in our tree.  An unanchored proof reaches
\* only the leaf, which may be there since an upgrade.
BlockMayVerify(n, d) == d.index < len[n]
BlockMayFail(n, d) == ~d.anchored

\* What the task asks for once block i is stored: the next block of the
\* verified region, or else the growth it has heard of meanwhile.  Here the
\* code does not look at inflight_upgrade.
OnBlock(e) ==
  LET n == e[1]
      i == Head(Inbox(e)).index
      next == i + 1 < len[n]
      grow == ~next /\ st[e].rlen > len[n]
  IN
  /\ ReceivesData(e, "block") /\ BlockMayVerify(n, Head(Inbox(e)))
  /\ held' = [held EXCEPT ![n] = @ \cup {i}]
  /\ st' = [st EXCEPT ![e] = [@ EXCEPT !.blk = IF next THEN i + 1 ELSE NoBlock,
                                       !.upg = st[e].upg \/ grow]]
  /\ Handle(e, IF next THEN <<ReqBlock(i + 1, len[n])>>
               ELSE IF grow THEN <<ReqUpgrade(len[n], st[e].rlen)>> ELSE <<>>)
  /\ UNCHANGED <<len, man, faults>>

\* verify_and_apply_proof refuses the data.
OnBadData(e) ==
  LET n == e[1]
      d == Head(Inbox(e))
  IN
  /\ \/ ReceivesData(e, "upgrade") /\ ~UpgradeVerifies(n, d)
     \/ ReceivesData(e, "block") /\ (BlockMayFail(n, d) \/ ~BlockMayVerify(n, d))
  /\ st' = [st EXCEPT ![e] = Forget(@)]
  /\ Handle(e, <<>>)
  /\ UNCHANGED <<core, faults>>

\* The periodic resync of an idle channel that is behind.

\* Mutant: the resync tick only looks at the length.
NeedsNoBlock(e) == FALSE

NeedsBlock(e) ==
  /\ ~NeedsUpgrade(e[1], st[e])
  /\ Hole(e[1]) # {} /\ st[e].blk = NoBlock

CanTick(e) ==
  /\ e[1] \in Leaves /\ st[e].run = "on" /\ st[e].synced /\ man[e[1]]
  /\ NeedsUpgrade(e[1], st[e]) \/ NeedsBlock(e)

Resync(e) ==
  LET n == e[1] IN
  /\ CanTick(e)
  /\ \/ /\ NeedsUpgrade(n, st[e])
        /\ st' = [st EXCEPT ![e].upg = TRUE]
        /\ net' = [net EXCEPT ![e] = Append(@, ReqUpgrade(len[n], st[e].rlen))]
     \/ /\ NeedsBlock(e)
        /\ \E c \in Hole(n) :
             /\ st' = [st EXCEPT ![e].blk = c]
             /\ net' = [net EXCEPT ![e] = Append(@, ReqBlock(c, len[n]))]
  /\ UNCHANGED <<core, up, drops, faults>>

\* A message for a channel whose task has ended fails the whole connection.
OnDeadChannel(e) ==
  /\ st[e].run = "dead" /\ Inbox(e) # <<>>
  /\ Disconnect(LinkOf(e))
  /\ UNCHANGED <<core, drops, faults>>

\* Mutant: silence is never noticed.
NeverSilent(l) == FALSE

\* Nothing received for 16 s: the driver gives the connection up to redial.
\* Sixteen seconds are long enough for queued messages to arrive and for every
\* 3 s tick to fire, so a link is silent only when neither is left.
Silent(l) ==
  \A e \in Ends : LinkOf(e) = l =>
     st[e].run # "off" /\ net[e] = <<>> /\ ~CanTick(e)

IdleDisconnect(l) ==
  /\ up[l] /\ l \notin Keepalive /\ Silent(l)
  /\ Disconnect(l)
  /\ UNCHANGED <<core, drops, faults>>

----------------------------------------------------------------------------
(* Local storage failures.                                                 *)

\* "apply": verify_and_apply_proof fails on storage before it has an effect.
ApplyFails(e) ==
  /\ "apply" \in FaultKinds /\ faults < MaxFaults
  /\ ReceivesData(e, "upgrade") \/ ReceivesData(e, "block")
  /\ faults' = faults + 1
  /\ st' = [st EXCEPT ![e] = Forget(@)]
  /\ Handle(e, <<>>)
  /\ UNCHANGED core

\* "after": the proof is applied, then reading the block back (get) or
\* missing_nodes fails, and none of the follow-up messages is sent.
AfterApplyFails(e) ==
  LET n == e[1]
      d == Head(Inbox(e))
  IN
  /\ "after" \in FaultKinds /\ faults < MaxFaults
  /\ \/ /\ ReceivesData(e, "upgrade") /\ UpgradeVerifies(n, d)
        /\ len' = [len EXCEPT ![n] = d.head] /\ UNCHANGED held
     \/ /\ ReceivesData(e, "block") /\ BlockMayVerify(n, d)
        /\ held' = [held EXCEPT ![n] = @ \cup {d.index}] /\ UNCHANGED len
  /\ faults' = faults + 1
  /\ st' = [st EXCEPT ![e] = Forget(@)]
  /\ Handle(e, <<>>)
  /\ UNCHANGED man

\* "tick": missing_nodes fails in the resync branch, whose ? ends the task.
TickFails(e) ==
  /\ "tick" \in FaultKinds /\ faults < MaxFaults
  /\ CanTick(e) /\ NeedsBlock(e)
  /\ faults' = faults + 1
  /\ st' = [st EXCEPT ![e].run = "dead"]
  /\ UNCHANGED <<core, up, net, drops>>

----------------------------------------------------------------------------
(* The hub.                                                                *)

HubAppend ==
  /\ len[Hub] < MaxLen
  /\ len' = [len EXCEPT ![Hub] = @ + 1]
  /\ held' = [held EXCEPT ![Hub] = @ \cup {len[Hub]}]
  /\ man' = [man EXCEPT ![Hub] = TRUE]
  /\ net' = [e \in Ends |-> IF e[1] = Hub /\ st[e].run = "on"
                            THEN Append(net[e], Sync(len[Hub] + 1)) ELSE net[e]]
  /\ UNCHANGED <<up, st, drops, faults>>

\* The hub answers every request; it has every block it has announced, but a
\* manifest only if it knows the core.  It never asks a leaf for anything.
HubReceive(e) ==
  LET m == Head(Inbox(e)) IN
  /\ e[1] = Hub /\ st[e].run = "on" /\ Inbox(e) # <<>>
  /\ Handle(e, IF m.t # "req" THEN <<>>
               ELSE IF m.part = "manifest" /\ ~man[Hub] THEN <<NoData>>
               ELSE <<Proof(Hub, m)>>)
  /\ UNCHANGED <<core, st, faults>>

----------------------------------------------------------------------------
OnMessage(e) ==
  \/ OnSynchronize(e) \/ OnRequest(e) \/ OnNoData(e)
  \/ OnManifest(e) \/ OnUpgrade(e) \/ OnBlock(e) \/ OnBadData(e)
  \/ OnDeadChannel(e)

Faults(e) == ApplyFails(e) \/ AfterApplyFails(e) \/ TickFails(e)

Next ==
  \/ HubAppend
  \/ \E l \in Links : Dial(l) \/ Drop(l) \/ IdleDisconnect(l)
  \/ \E e \in Ends :
        Start(e) \/ OnMessage(e) \/ Resync(e) \/ HubReceive(e) \/ Faults(e)

Spec == Init /\ [][Next]_vars

\* Dial loops, timers and message handlers are polled forever by the
\* executor: each runs if it stays able to.  Losses and faults need not happen.
Fairness ==
  /\ \A l \in Links : WF_vars(Dial(l)) /\ WF_vars(IdleDisconnect(l))
  /\ \A e \in Ends :
       /\ WF_vars(Start(e)) /\ WF_vars(OnMessage(e) \/ HubReceive(e))
       /\ WF_vars(Resync(e))

FairSpec == Spec /\ Fairness

----------------------------------------------------------------------------
(* Properties.                                                             *)

Requests == [t : {"req"}, part : {"manifest"}]
       \cup [t : {"req"}, part : {"block"}, index : 0..MaxLen, anchored : BOOLEAN]
       \cup [t : {"req"}, part : {"upgrade"}, start : 0..MaxLen, length : 1..MaxLen]
Answers == [t : {"nodata"}]
      \cup [t : {"data"}, part : {"manifest"}]
      \cup [t : {"data"}, part : {"block"}, index : 0..MaxLen, anchored : BOOLEAN]
      \cup [t : {"data"}, part : {"upgrade"}, start : 0..MaxLen,
            length : 1..MaxLen, head : 0..MaxLen]
Messages == [t : {"sync"}, len : 0..MaxLen] \cup Requests \cup Answers

PeerState == [run : {"off", "on", "dead"}, synced : BOOLEAN,
              rlen : 0..MaxLen, upg : BOOLEAN, blk : 0..NoBlock]

TypeOK ==
  /\ len \in [Nodes -> 0..MaxLen]
  /\ held \in [Nodes -> SUBSET (0..MaxLen)]
  /\ man \in [Nodes -> BOOLEAN]
  /\ up \in [Links -> BOOLEAN]
  /\ st \in [Ends -> PeerState]
  /\ net \in [Ends -> Seq(Messages)]
  /\ drops \in 0..MaxDrops /\ faults \in 0..MaxFaults

\* Requests of end e for a part that are unanswered: still on their way out, or
\* with the answer on its way back.
Asked(e, part) == {i \in DOMAIN net[e] : net[e][i].t = "req" /\ net[e][i].part = part}
Answered(e, part) ==
  {i \in DOMAIN Inbox(e) : Inbox(e)[i].t = "data" /\ Inbox(e)[i].part = part}
Outstanding(e, part) == Cardinality(Asked(e, part)) + Cardinality(Answered(e, part))

\* An in-flight mark blocks every later request of its kind, so towards a hub
\* (a peer that answers everything) it must never be set while no answer is
\* owed: the channel would wait for ever.  [core_channel's resync guards]
NoDeadWait ==
  \A e \in Ends : e[2] = Hub /\ e[1] \in Leaves =>
    /\ st[e].upg => Outstanding(e, "upgrade") > 0
    /\ st[e].blk # NoBlock => Outstanding(e, "block") > 0

\* Every upgrade request asks for at least one block (its u64 length did not
\* wrap below zero) and for no more than the remote can prove, whatever both
\* cores learn over other connections meanwhile.  [request_upgrade]
UpgradesAnswerable ==
  \A e \in Ends : \A i \in DOMAIN net[e] :
    net[e][i].t = "req" /\ net[e][i].part = "upgrade" =>
      /\ net[e][i].length > 0
      /\ net[e][i].start + net[e][i].length <= len[e[2]]

\* The strengthening that makes UpgradesAnswerable and Mirrors inductive: with
\* L the lengths of all cores, a message speaks only of what its sender has
\* (sync, data) or has been told its receiver has (req).
Sound(L, e, m) ==
  /\ m.t = "sync" => m.len <= L[e[1]]
  /\ m.t = "req" /\ m.part = "upgrade" =>
        m.length > 0 /\ m.start + m.length <= L[e[2]]
  /\ m.t = "data" /\ m.part = "upgrade" =>
        m.length > 0 /\ m.start + m.length <= m.head /\ m.head <= L[e[1]]

WithinHub == \A n \in Leaves : len[n] <= len[Hub] /\ held[n] \subseteq 0..(len[n] - 1)
RemoteKnown == \A e \in Ends : st[e].rlen <= len[e[2]]
QueuesSound == \A e \in Ends : \A i \in DOMAIN net[e] : Sound(len, e, net[e][i])
ChannelInv == TypeOK /\ WithinHub /\ RemoteKnown /\ QueuesSound

\* Nothing a leaf has stored or verified is ever lost or taken back, and it is
\* never more than what the hub has published; the mirroring leaves implement
\* the abstract replica.  [run_connection + core_channel as a whole]
R == INSTANCE Replica WITH log <- len[Hub],
       verified <- [n \in Leaves |-> len[n]], stored <- [n \in Leaves |-> held[n]]
Mirrors == R!Spec

\* Every leaf connected to the hub, directly or through other leaves, ends up
\* with every block the hub publishes.
Converges == \A n \in Leaves : <>[](held[n] = 0..(len[Hub] - 1))
=============================================================================
