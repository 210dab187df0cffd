------------------------ MODULE CoreChannel_proofs ------------------------
(***************************************************************************)
(* ChannelInv is an inductive invariant of CoreChannel for any number of   *)
(* leaves, any topology and any log length; from it follow type            *)
(* correctness, UpgradesAnswerable and the refinement of Replica.          *)
(***************************************************************************)
EXTENDS CoreChannel, TLAPS

USE ChannelAssumption

\* Both ends of a connection are ends of nodes, and differ.
LEMMA EndsType ==
  ASSUME NEW e \in Ends
  PROVE  /\ e[1] \in Nodes /\ e[2] \in Nodes /\ e[1] # e[2]
         /\ Flip(e) \in Ends /\ Flip(e) # e /\ Flip(Flip(e)) = e
         /\ Flip(e)[1] = e[2] /\ Flip(e)[2] = e[1]
         /\ LinkOf(e) \in Links
<1>1. PICK l \in Links : e = l \/ e = Flip(l)
  BY DEF Ends
<1>2. l \in Nodes \X Nodes \X Nat /\ l[1] # l[2]
  OBVIOUS
<1>3. l = <<l[1], l[2], l[3]>>
  BY <1>2
<1>4. Flip(l) \in Ends
  BY DEF Ends
<1> QED
  BY <1>1, <1>2, <1>3, <1>4 DEF Flip, Ends, LinkOf

\* Lengths only grow: len2 is what the lengths become in a step.
Grows(L, L2) == /\ L2 \in [Nodes -> 0..MaxLen]
                /\ \A n \in Nodes : L[n] <= L2[n]

LEMMA SoundGrows ==
  ASSUME NEW L \in [Nodes -> 0..MaxLen], NEW L2, Grows(L, L2),
         NEW e \in Ends, NEW m \in Messages, Sound(L, e, m)
  PROVE  Sound(L2, e, m)
<1>1. /\ L[e[1]] \in Nat /\ L2[e[1]] \in Nat /\ L[e[1]] <= L2[e[1]]
      /\ L[e[2]] \in Nat /\ L2[e[2]] \in Nat /\ L[e[2]] <= L2[e[2]]
  BY EndsType DEF Grows
<1>2. CASE m.t = "sync"
  <2>1. m.len \in Nat
    BY <1>2 DEF Messages, Requests, Answers
  <2> QED BY <1>1, <1>2, <2>1 DEF Sound
<1>3. CASE m.t = "req" /\ m.part = "upgrade"
  <2>1. m.start \in Nat /\ m.length \in Nat
    BY <1>3 DEF Messages, Requests, Answers
  <2> QED BY <1>1, <1>3, <2>1 DEF Sound
<1>4. CASE m.t = "data" /\ m.part = "upgrade"
  <2>1. m.head \in Nat
    BY <1>4 DEF Messages, Requests, Answers
  <2> QED BY <1>1, <1>4, <2>1 DEF Sound
<1> QED BY <1>2, <1>3, <1>4 DEF Sound

\* Queues stay sound when every message in them was there before or is sound.
LEMMA QueuesStaySound ==
  ASSUME TypeOK, QueuesSound, Grows(len, len'),
         \A x \in Ends : \A i \in DOMAIN net'[x] :
            \/ \E j \in DOMAIN net[x] : net'[x][i] = net[x][j]
            \/ Sound(len', x, net'[x][i])
  PROVE  QueuesSound'
<1> SUFFICES ASSUME NEW x \in Ends, NEW i \in DOMAIN net'[x]
             PROVE  Sound(len', x, net'[x][i])
  BY DEF QueuesSound
<1>1. ASSUME NEW j \in DOMAIN net[x], net'[x][i] = net[x][j]
      PROVE  Sound(len', x, net'[x][i])
  <2>1. net[x][j] \in Messages
    BY DEF TypeOK
  <2>2. Sound(len, x, net[x][j])
    BY DEF QueuesSound
  <2> QED BY <1>1, <2>1, <2>2, SoundGrows DEF TypeOK
<1> QED BY <1>1

\* What end e may send: messages that are sound for the lengths L.
Sendable(L, e, q) == q \in Seq(Messages) /\ \A j \in DOMAIN q : Sound(L, e, q[j])

LEMMA SendNothing ==
  ASSUME NEW L, NEW e PROVE Sendable(L, e, <<>>)
  BY DEF Sendable

LEMMA SendOne ==
  ASSUME NEW L, NEW e, NEW m \in Messages, Sound(L, e, m)
  PROVE  Sendable(L, e, <<m>>)
  BY DEF Sendable

LEMMA SendBoth ==
  ASSUME NEW L, NEW e, NEW p, NEW q, Sendable(L, e, p), Sendable(L, e, q)
  PROVE  Sendable(L, e, p \o q)
<1>1. p \in Seq(Messages) /\ q \in Seq(Messages) /\ p \o q \in Seq(Messages)
  BY DEF Sendable
<1>2. ASSUME NEW j \in DOMAIN (p \o q) PROVE Sound(L, e, (p \o q)[j])
  <2>1. j \in 1..(Len(p) + Len(q))
    BY <1>1
  <2>2. CASE j <= Len(p)
    <3>1. j \in DOMAIN p /\ (p \o q)[j] = p[j]
      BY <1>1, <2>1, <2>2
    <3> QED BY <3>1 DEF Sendable
  <2>3. CASE j > Len(p)
    <3>1. j - Len(p) \in DOMAIN q /\ (p \o q)[j] = q[j - Len(p)]
      BY <1>1, <2>1, <2>3
    <3> QED BY <3>1 DEF Sendable
  <2> QED BY <1>1, <2>1, <2>2, <2>3
<1> QED BY <1>1, <1>2 DEF Sendable

\* A handler consumes one message and appends its replies.
LEMMA HandleQueues ==
  ASSUME TypeOK, QueuesSound, Grows(len, len'),
         NEW e \in Ends, NEW replies, Sendable(len', e, replies),
         Inbox(e) # <<>>, Handle(e, replies)
  PROVE  net' \in [Ends -> Seq(Messages)] /\ QueuesSound' /\ UNCHANGED <<up, drops>>
<1> DEFINE f == Flip(e)
<1>1. /\ f \in Ends /\ f # e /\ net[f] # <<>> /\ net[e] \in Seq(Messages)
      /\ net[f] \in Seq(Messages) /\ replies \in Seq(Messages)
  BY EndsType DEF Inbox, TypeOK, Sendable
<1>2. net' = [net EXCEPT ![f] = Tail(net[f]), ![e] = net[e] \o replies]
  BY <1>1 DEF Handle, TypeOK
<1>3. Tail(net[f]) \in Seq(Messages) /\ net[e] \o replies \in Seq(Messages)
  BY <1>1
<1>4. net' \in [Ends -> Seq(Messages)]
  BY <1>1, <1>2, <1>3 DEF TypeOK
<1>5. ASSUME NEW x \in Ends, NEW i \in DOMAIN net'[x]
      PROVE  \/ \E j \in DOMAIN net[x] : net'[x][i] = net[x][j]
             \/ Sound(len', x, net'[x][i])
  <2>1. CASE x = f
    <3>1. net'[x] = Tail(net[f])
      BY <2>1, <1>1, <1>2 DEF TypeOK
    <3>2. i \in 1..(Len(net[f]) - 1) /\ net'[x][i] = net[f][i + 1]
      BY <3>1, <1>1
    <3>3. i + 1 \in DOMAIN net[x]
      BY <2>1, <3>2, <1>1
    <3> QED BY <2>1, <3>2, <3>3
  <2>2. CASE x = e
    <3>1. net'[x] = net[e] \o replies
      BY <2>2, <1>1, <1>2 DEF TypeOK
    <3>2. i \in 1..(Len(net[e]) + Len(replies))
      BY <3>1, <1>1
    <3>3. CASE i <= Len(net[e])
      <4>1. i \in DOMAIN net[e] /\ net'[x][i] = net[e][i]
        BY <3>1, <3>2, <3>3, <1>1
      <4> QED BY <4>1, <2>2
    <3>4. CASE i > Len(net[e])
      <4>1. i - Len(net[e]) \in DOMAIN replies /\ net'[x][i] = replies[i - Len(net[e])]
        BY <3>1, <3>2, <3>4, <1>1
      <4> QED BY <4>1, <2>2 DEF Sendable
    <3> QED BY <3>2, <3>3, <3>4, <1>1
  <2>3. CASE x # f /\ x # e
    <3>1. net'[x] = net[x]
      BY <2>3, <1>2, <1>1 DEF TypeOK
    <3> QED BY <3>1
  <2> QED BY <2>1, <2>2, <2>3
<1>6. QueuesSound'
  BY <1>5, QueuesStaySound
<1> QED BY <1>4, <1>6 DEF Handle

----------------------------------------------------------------------------
(* What the handlers find at the head of a queue, and what they send.      *)

LEMMA HeadSound ==
  ASSUME ChannelInv, NEW e \in Ends, Inbox(e) # <<>>
  PROVE  Head(Inbox(e)) \in Messages /\ Sound(len, Flip(e), Head(Inbox(e)))
<1>1. net[Flip(e)] \in Seq(Messages) /\ net[Flip(e)] # <<>>
  BY EndsType DEF ChannelInv, TypeOK, Inbox
<1>2. 1 \in DOMAIN net[Flip(e)] /\ Head(net[Flip(e)]) = net[Flip(e)][1]
  BY <1>1
<1> QED
  BY <1>1, <1>2, EndsType DEF ChannelInv, QueuesSound, Inbox

LEMMA SyncSendable ==
  ASSUME NEW L, NEW e, NEW k \in 0..MaxLen, k <= L[e[1]]
  PROVE  Sendable(L, e, <<Sync(k)>>)
<1>1. Sync(k) \in Messages /\ Sound(L, e, Sync(k))
  BY DEF Sync, Messages, Sound
<1> QED BY <1>1, SendOne

LEMMA RequestSendable ==
  ASSUME NEW L, NEW e, NEW k \in 0..MaxLen, NEW r \in 0..MaxLen
  PROVE  /\ Sendable(L, e, <<Manifest>>) /\ Sendable(L, e, <<NoData>>)
         /\ Sendable(L, e, <<ReqBlock(k, r)>>)
         /\ k < r /\ r <= L[e[2]] => Sendable(L, e, <<ReqUpgrade(k, r)>>)
<1>1. Manifest \in Messages /\ Sound(L, e, Manifest)
  BY DEF Manifest, Messages, Requests, Sound
<1>2. NoData \in Messages /\ Sound(L, e, NoData)
  BY DEF NoData, Messages, Answers, Sound
<1>3. (k < r) \in BOOLEAN
  OBVIOUS
<1>4. ReqBlock(k, r) \in Messages /\ Sound(L, e, ReqBlock(k, r))
  BY <1>3 DEF ReqBlock, Messages, Requests, Sound
<1>5. ASSUME k < r, r <= L[e[2]]
      PROVE  ReqUpgrade(k, r) \in Messages /\ Sound(L, e, ReqUpgrade(k, r))
  <2>1. r - k \in 1..MaxLen /\ k + (r - k) = r
    BY <1>5
  <2> QED BY <1>5, <2>1 DEF ReqUpgrade, Messages, Requests, Sound
<1> QED BY <1>1, <1>2, <1>4, <1>5, SendOne

\* The error branch keeps the state well formed.
LEMMA ForgetType ==
  ASSUME NEW s \in PeerState
  PROVE  Forget(s) \in PeerState /\ Forget(s).rlen = s.rlen
<1> DEFINE a == [s EXCEPT !.upg = FALSE]
<1>1. a \in PeerState /\ a.rlen = s.rlen
  BY DEF PeerState
<1>2. Forget(s) = [a EXCEPT !.blk = NoBlock]
  BY DEF Forget
<1> HIDE DEF a
<1> QED BY <1>1, <1>2 DEF PeerState, NoBlock

\* The updates of a PeerState that the handlers make.
Flying(s, upg, blk) == [s EXCEPT !.upg = upg, !.blk = blk]
Synced(s, upg, rlen) == [s EXCEPT !.rlen = rlen, !.synced = TRUE, !.upg = upg]

LEMMA FlyingType ==
  ASSUME NEW s \in PeerState, NEW upg \in BOOLEAN, NEW blk \in 0..NoBlock
  PROVE  Flying(s, upg, blk) \in PeerState /\ Flying(s, upg, blk).rlen = s.rlen
<1> DEFINE a == [s EXCEPT !.upg = upg]
<1>1. a \in PeerState /\ a.rlen = s.rlen
  BY DEF PeerState
<1>2. Flying(s, upg, blk) = [a EXCEPT !.blk = blk]
  BY DEF Flying
<1> HIDE DEF a
<1> QED BY <1>1, <1>2 DEF PeerState, NoBlock

LEMMA SyncedType ==
  ASSUME NEW s \in PeerState, NEW upg \in BOOLEAN, NEW rlen \in 0..MaxLen
  PROVE  Synced(s, upg, rlen) \in PeerState /\ Synced(s, upg, rlen).rlen = rlen
<1> DEFINE a == [s EXCEPT !.rlen = rlen]
           b == [a EXCEPT !.synced = TRUE]
           c == [b EXCEPT !.upg = upg]
<1>1. a \in PeerState /\ a.rlen = rlen
  BY DEF PeerState
<1> HIDE DEF a
<1>2. b \in PeerState /\ b.rlen = rlen
  BY <1>1 DEF PeerState
<1> HIDE DEF b
<1>3. c \in PeerState /\ c.rlen = rlen
  BY <1>2 DEF PeerState
<1>4. Synced(s, upg, rlen) = c
  BY DEF Synced, a, b
<1> HIDE DEF c
<1> QED BY <1>3, <1>4

\* A step of one handler: the core grows within the hub's, the state of one
\* end changes within its type, and the replies are sound.
LEMMA HandlerStep ==
  ASSUME ChannelInv, NEW e \in Ends, Grows(len, len'), WithinHub',
         held' \in [Nodes -> SUBSET (0..MaxLen)], man' \in [Nodes -> BOOLEAN],
         faults' \in 0..MaxFaults,
         NEW s \in PeerState, st' = [st EXCEPT ![e] = s], s.rlen <= len[e[2]],
         NEW replies, Sendable(len', e, replies),
         Inbox(e) # <<>>, Handle(e, replies)
  PROVE  ChannelInv'
<1>1. net' \in [Ends -> Seq(Messages)] /\ QueuesSound' /\ UNCHANGED <<up, drops>>
  BY HandleQueues DEF ChannelInv
<1>2. TypeOK'
  BY <1>1 DEF ChannelInv, TypeOK, Grows
<1>3. RemoteKnown'
  <2> SUFFICES ASSUME NEW x \in Ends PROVE st'[x].rlen <= len'[x[2]]
    BY DEF RemoteKnown
  <2>1. st'[x].rlen <= len[x[2]]
    BY DEF ChannelInv, TypeOK, RemoteKnown
  <2>2. st'[x].rlen \in Nat
    BY DEF ChannelInv, TypeOK, PeerState
  <2>3. x[2] \in Nodes
    BY EndsType
  <2>4. len[x[2]] \in Nat
    BY <2>3 DEF ChannelInv, TypeOK
  <2>5. len'[x[2]] \in Nat /\ len[x[2]] <= len'[x[2]]
    BY <2>3 DEF Grows
  <2> QED BY <2>1, <2>2, <2>4, <2>5
<1> QED BY <1>1, <1>2, <1>3 DEF ChannelInv

\* The same for a handler that leaves the core alone.
LEMMA QuietHandlerStep ==
  ASSUME ChannelInv, NEW e \in Ends, UNCHANGED core, faults' \in 0..MaxFaults,
         NEW s \in PeerState, st' = [st EXCEPT ![e] = s], s.rlen <= len[e[2]],
         NEW replies, Sendable(len, e, replies),
         Inbox(e) # <<>>, Handle(e, replies)
  PROVE  ChannelInv'
<1>1. Grows(len, len')
  BY DEF Grows, core, ChannelInv, TypeOK
<1>2. WithinHub'
  BY DEF ChannelInv, WithinHub, core
<1>3. held' \in [Nodes -> SUBSET (0..MaxLen)] /\ man' \in [Nodes -> BOOLEAN] /\ len' = len
  BY DEF ChannelInv, TypeOK, core
<1> QED BY <1>1, <1>2, <1>3, HandlerStep
----------------------------------------------------------------------------
(* One lemma per handler.                                                  *)

LEMMA SynchronizeStep ==
  ASSUME ChannelInv, NEW e \in Ends, OnSynchronize(e)
  PROVE  ChannelInv'
<1> DEFINE n == e[1]
           m == Head(Inbox(e))
           ask == /\ man[n] /\ NeedsUpgrade(n, [st[e] EXCEPT !.rlen = m.len])
                  /\ m.len # st[e].rlen \/ ~st[e].synced
           upg == st[e].upg \/ ask
           s == Synced(st[e], upg, m.len)
           hello == IF st[e].synced THEN <<>> ELSE <<Sync(len[n])>>
           request == IF ask THEN <<ReqUpgrade(len[n], m.len)>> ELSE <<>>
<1>1. /\ Inbox(e) # <<>> /\ m.t = "sync" /\ st' = [st EXCEPT ![e] = s]
      /\ Handle(e, hello \o request) /\ UNCHANGED core /\ UNCHANGED faults
  BY DEF OnSynchronize, Receives, Synced
<1>2. /\ n \in Nodes /\ e[2] \in Nodes /\ len[n] \in 0..MaxLen /\ len[e[2]] \in 0..MaxLen
      /\ st[e] \in PeerState /\ Flip(e)[1] = e[2] /\ faults \in 0..MaxFaults
  BY EndsType DEF ChannelInv, TypeOK
<1>3. m \in Messages /\ Sound(len, Flip(e), m)
  BY <1>1, HeadSound
<1>4. m.len \in 0..MaxLen /\ m.len <= len[e[2]]
  BY <1>1, <1>2, <1>3 DEF Messages, Requests, Answers, Sound
<1>5. ask => len[n] < m.len
  BY <1>2, <1>4 DEF NeedsUpgrade, PeerState
<1> HIDE DEF m, n, ask
<1>6. upg \in BOOLEAN
  BY <1>2 DEF PeerState
<1> HIDE DEF upg
<1>7. s \in PeerState /\ s.rlen = m.len
  <2> DEFINE l == m.len
             p == st[e]
  <2>1. p \in PeerState /\ l \in 0..MaxLen
    BY <1>2, <1>4
  <2> HIDE DEF l, p
  <2>2. Synced(p, upg, l) \in PeerState /\ Synced(p, upg, l).rlen = l
    BY <1>6, <2>1, SyncedType
  <2> QED BY <2>2 DEF l, p
<1> HIDE DEF s
<1>8. Sendable(len, e, hello)
  <2>1. len[n] <= len[e[1]]
    BY <1>2 DEF n
  <2>2. Sendable(len, e, <<Sync(len[n])>>)
    BY <1>2, <2>1, SyncSendable
  <2> QED BY <2>2, SendNothing
<1>9. Sendable(len, e, request)
  <2>1. ask => Sendable(len, e, <<ReqUpgrade(len[n], m.len)>>)
    BY <1>2, <1>4, <1>5, RequestSendable
  <2> QED BY <2>1, SendNothing
<1> HIDE DEF hello, request
<1>10. Sendable(len, e, hello \o request)
  BY <1>8, <1>9, SendBoth
<1> QED BY <1>1, <1>2, <1>4, <1>7, <1>10, QuietHandlerStep

LEMMA ProofSendable ==
  ASSUME ChannelInv, NEW e \in Ends, NEW r \in Requests,
         r.part = "upgrade" => r.start + r.length <= len[e[1]]
  PROVE  Sendable(len, e, <<Proof(e[1], r)>>)
<1> DEFINE n == e[1]
<1>1. len[n] \in 0..MaxLen
  BY EndsType DEF ChannelInv, TypeOK
<1>2. CASE r.part = "block"
  <2>1. r.index \in 0..MaxLen /\ r.anchored \in BOOLEAN
    BY <1>2 DEF Requests
  <2>2. Proof(n, r) = [t |-> "data", part |-> "block", index |-> r.index,
                       anchored |-> r.anchored]
    BY <1>2 DEF Proof
  <2>3. Proof(n, r) \in Messages /\ Sound(len, e, Proof(n, r))
    BY <2>1, <2>2 DEF Messages, Answers, Sound
  <2> QED BY <2>3, SendOne
<1>3. CASE r.part = "upgrade"
  <2>1. /\ r.start \in 0..MaxLen /\ r.length \in 1..MaxLen
        /\ r.start + r.length <= len[n]
    BY <1>3 DEF Requests
  <2>2. Proof(n, r) = [t |-> "data", part |-> "upgrade", start |-> r.start,
                       length |-> r.length, head |-> len[n]]
    BY <1>3 DEF Proof
  <2>3. Proof(n, r) \in Messages
    BY <2>1, <2>2, <1>1 DEF Messages, Answers
  <2>4. Sound(len, e, Proof(n, r))
    BY <2>1, <2>2, <1>1 DEF Sound
  <2> QED BY <2>3, <2>4, SendOne
<1>4. CASE r.part = "manifest"
  <2>1. Proof(n, r) = [t |-> "data", part |-> "manifest"]
    BY <1>4 DEF Proof
  <2>2. Proof(n, r) \in Messages /\ Sound(len, e, Proof(n, r))
    BY <2>1 DEF Messages, Answers, Sound
  <2> QED BY <2>2, SendOne
<1> QED BY <1>2, <1>3, <1>4 DEF Requests

LEMMA RequestStep ==
  ASSUME ChannelInv, NEW e \in Ends, OnRequest(e)
  PROVE  ChannelInv'
<1> DEFINE n == e[1]
           r == Head(Inbox(e))
<1>1. /\ Inbox(e) # <<>> /\ r.t = "req" /\ UNCHANGED core /\ UNCHANGED faults
      /\ \/ Provable(n, r) /\ Handle(e, <<Proof(n, r)>>) /\ st' = st
         \/ Handle(e, <<NoData>>) /\ st' = st
         \/ Handle(e, <<>>) /\ st' = [st EXCEPT ![e] = Forget(st[e])]
  BY DEF OnRequest, Receives
<1>2. /\ n \in Nodes /\ len[n] \in 0..MaxLen /\ faults \in 0..MaxFaults
      /\ st[e] \in PeerState /\ st[e].rlen <= len[e[2]] /\ Flip(e)[2] = n
  BY EndsType DEF ChannelInv, TypeOK, RemoteKnown
<1>3. r \in Messages /\ Sound(len, Flip(e), r)
  BY <1>1, HeadSound
<1>4. r \in Requests
  BY <1>1, <1>3 DEF Messages, Answers
<1>5. st = [st EXCEPT ![e] = st[e]]
  BY DEF ChannelInv, TypeOK
<1> HIDE DEF r
<1>6. ASSUME Provable(n, r) PROVE Sendable(len, e, <<Proof(n, r)>>)
  BY <1>4, <1>6, ProofSendable DEF Provable, n
<1>7. CASE Provable(n, r) /\ Handle(e, <<Proof(n, r)>>) /\ st' = st
  BY <1>1, <1>2, <1>5, <1>6, <1>7, QuietHandlerStep
<1>8. CASE Handle(e, <<NoData>>) /\ st' = st
  <2>1. Sendable(len, e, <<NoData>>)
    BY <1>2, RequestSendable
  <2> QED BY <1>1, <1>2, <1>5, <1>8, <2>1, QuietHandlerStep
<1>9. CASE Handle(e, <<>>) /\ st' = [st EXCEPT ![e] = Forget(st[e])]
  BY <1>1, <1>2, <1>9, SendNothing, ForgetType, QuietHandlerStep
<1> QED BY <1>1, <1>7, <1>8, <1>9

\* Every handler that fails resets the marks and sends nothing.
LEMMA ForgetStep ==
  ASSUME ChannelInv, NEW e \in Ends, Inbox(e) # <<>>, Handle(e, <<>>),
         st' = [st EXCEPT ![e] = Forget(@)], UNCHANGED core,
         faults' \in 0..MaxFaults
  PROVE  ChannelInv'
<1>1. st[e] \in PeerState /\ st[e].rlen <= len[e[2]]
  BY DEF ChannelInv, TypeOK, RemoteKnown
<1> QED BY <1>1, SendNothing, ForgetType, QuietHandlerStep

LEMMA RefusalStep ==
  ASSUME ChannelInv, NEW e \in Ends, OnNoData(e) \/ OnBadData(e) \/ ApplyFails(e)
  PROVE  ChannelInv'
<1>1. /\ Inbox(e) # <<>> /\ Handle(e, <<>>) /\ UNCHANGED core
      /\ st' = [st EXCEPT ![e] = Forget(@)]
  BY DEF OnNoData, OnBadData, ApplyFails, ReceivesData, Receives
<1>2. faults' \in 0..MaxFaults
  BY DEF ChannelInv, TypeOK, OnNoData, OnBadData, ApplyFails
<1> QED BY <1>1, <1>2, ForgetStep

LEMMA ManifestStep ==
  ASSUME ChannelInv, NEW e \in Ends, OnManifest(e)
  PROVE  ChannelInv'
<1> DEFINE n == e[1]
           ask == NeedsUpgrade(n, st[e])
           s == [st[e] EXCEPT !.upg = st[e].upg \/ ask]
           request == IF ask THEN <<ReqUpgrade(len[n], st[e].rlen)>> ELSE <<>>
<1>1. /\ Inbox(e) # <<>> /\ man' = [man EXCEPT ![n] = TRUE] /\ st' = [st EXCEPT ![e] = s]
      /\ Handle(e, request) /\ len' = len /\ held' = held /\ faults' = faults
  BY DEF OnManifest, ReceivesData, Receives
<1>2. /\ n \in Nodes /\ len[n] \in 0..MaxLen /\ faults \in 0..MaxFaults
      /\ st[e] \in PeerState /\ st[e].rlen <= len[e[2]] /\ st[e].rlen \in 0..MaxLen
      /\ man \in [Nodes -> BOOLEAN] /\ held \in [Nodes -> SUBSET (0..MaxLen)]
  BY EndsType DEF ChannelInv, TypeOK, RemoteKnown, PeerState
<1>3. Grows(len, len') /\ WithinHub'
  BY <1>1 DEF Grows, ChannelInv, TypeOK, WithinHub
<1>4. ask => len[n] < st[e].rlen
  BY <1>2 DEF NeedsUpgrade
<1> HIDE DEF n, ask
<1>5. s \in PeerState /\ s.rlen = st[e].rlen
  BY <1>2 DEF PeerState
<1>6. Sendable(len, e, request)
  BY <1>2, <1>4, RequestSendable, SendNothing
<1>7. man' \in [Nodes -> BOOLEAN]
  BY <1>1, <1>2
<1> HIDE DEF s, request
<1> QED BY <1>1, <1>2, <1>3, <1>5, <1>6, <1>7, HandlerStep

\* What a verified upgrade does to the lengths.
LEMMA UpgradeGrows ==
  ASSUME ChannelInv, NEW e \in Ends, ReceivesData(e, "upgrade"),
         UpgradeVerifies(e[1], Head(Inbox(e))),
         len' = [len EXCEPT ![e[1]] = Head(Inbox(e)).head], held' = held
  PROVE  /\ Grows(len, len') /\ WithinHub'
         /\ Head(Inbox(e)).start \in 0..MaxLen /\ Head(Inbox(e)).length \in 1..MaxLen
         /\ Head(Inbox(e)).head \in 0..MaxLen
         /\ Head(Inbox(e)).start + Head(Inbox(e)).length <= Head(Inbox(e)).head
         /\ len[e[1]] <= Head(Inbox(e)).head
<1> DEFINE n == e[1]
           d == Head(Inbox(e))
<1>1. /\ Inbox(e) # <<>> /\ d.t = "data" /\ d.part = "upgrade" /\ n \in Leaves
      /\ n \in Nodes /\ e[2] \in Nodes /\ Flip(e)[1] = e[2] /\ n # Hub
  BY EndsType DEF ReceivesData, Receives
<1>2. d \in Messages /\ Sound(len, Flip(e), d)
  BY <1>1, HeadSound
<1>3. d.start \in 0..MaxLen /\ d.length \in 1..MaxLen /\ d.head \in 0..MaxLen
  BY <1>1, <1>2 DEF Messages, Requests, Answers
<1>4. d.start + d.length <= d.head /\ d.head <= len[e[2]]
  BY <1>1, <1>2 DEF Sound
<1>5. /\ len \in [Nodes -> 0..MaxLen] /\ Hub \in Nodes
      /\ \A x \in Leaves : len[x] <= len[Hub] /\ held[x] \subseteq 0..(len[x] - 1)
  BY DEF ChannelInv, TypeOK, Nodes, WithinHub
<1>6. d.head <= len[Hub]
  <2>1. e[2] = Hub \/ e[2] \in Leaves
    BY <1>1 DEF Nodes
  <2>2. len[e[2]] \in 0..MaxLen /\ len[Hub] \in 0..MaxLen /\ len[e[2]] <= len[Hub]
    BY <2>1, <1>1, <1>5
  <2> QED BY <2>2, <1>3, <1>4
<1>7. len[n] <= d.head
  BY <1>1, <1>3, <1>4, <1>5 DEF UpgradeVerifies
<1> HIDE DEF d
<1>8. len' = [len EXCEPT ![n] = d.head]
  BY DEF d
<1> HIDE DEF n
<1>9. Grows(len, len')
  <2>1. len' \in [Nodes -> 0..MaxLen]
    BY <1>1, <1>3, <1>5, <1>8
  <2>2. ASSUME NEW x \in Nodes PROVE len[x] <= len'[x]
    <3>1. CASE x = n
      BY <3>1, <1>1, <1>5, <1>7, <1>8
    <3>2. CASE x # n
      <4>1. len'[x] = len[x] /\ len[x] \in Nat
        BY <3>2, <1>5, <1>8
      <4> QED BY <4>1
    <3> QED BY <3>1, <3>2
  <2> QED BY <2>1, <2>2 DEF Grows
<1>10. WithinHub'
  <2> SUFFICES ASSUME NEW x \in Leaves
               PROVE  len'[x] <= len'[Hub] /\ held[x] \subseteq 0..(len'[x] - 1)
    BY DEF WithinHub
  <2>1. x \in Nodes /\ len'[Hub] = len[Hub]
    BY <1>1, <1>5, <1>8 DEF Nodes
  <2>2. len'[x] <= len[Hub] /\ len[x] <= len'[x]
    BY <2>1, <1>1, <1>3, <1>5, <1>6, <1>7, <1>8
  <2>3. len[x] \in Nat /\ len'[x] \in Nat
    BY <2>1, <1>5, <1>9 DEF Grows
  <2>4. 0..(len[x] - 1) \subseteq 0..(len'[x] - 1)
    BY <2>2, <2>3
  <2> QED BY <2>1, <2>2, <2>4, <1>5
<1> QED BY <1>3, <1>4, <1>7, <1>9, <1>10 DEF d, n

LEMMA UpgradeStep ==
  ASSUME ChannelInv, NEW e \in Ends, OnUpgrade(e)
  PROVE  ChannelInv'
<1> DEFINE n == e[1]
           d == Head(Inbox(e))
           end == d.start + d.length
           known == IF len[n] > end THEN len[n] ELSE end
           fetch == len[n] < st[e].rlen /\ st[e].blk = NoBlock
           blk == IF fetch THEN len[n] ELSE st[e].blk
           s == Flying(st[e], FALSE, blk)
           request == IF fetch THEN <<ReqBlock(len[n], d.head)>> ELSE <<>>
<1>1. /\ Inbox(e) # <<>> /\ len' = [len EXCEPT ![n] = d.head] /\ held' = held
      /\ man' = man /\ faults' = faults /\ st' = [st EXCEPT ![e] = s]
      /\ Handle(e, <<Sync(known)>> \o request)
      /\ ReceivesData(e, "upgrade") /\ UpgradeVerifies(n, d)
  BY DEF OnUpgrade, ReceivesData, Receives, Flying
<1>2. /\ n \in Nodes /\ len \in [Nodes -> 0..MaxLen] /\ len[n] \in 0..MaxLen
      /\ faults \in 0..MaxFaults
      /\ st[e] \in PeerState /\ st[e].rlen <= len[e[2]] /\ st[e].blk \in 0..NoBlock
      /\ man \in [Nodes -> BOOLEAN] /\ held \in [Nodes -> SUBSET (0..MaxLen)]
  BY EndsType DEF ChannelInv, TypeOK, RemoteKnown, PeerState
<1>3. /\ Grows(len, len') /\ WithinHub' /\ d.start \in 0..MaxLen /\ d.length \in 1..MaxLen
      /\ d.head \in 0..MaxLen /\ end <= d.head /\ len[n] <= d.head
  BY <1>1, UpgradeGrows
<1>4. known \in 0..MaxLen /\ known <= len'[n]
  BY <1>1, <1>2, <1>3
<1>5. blk \in 0..NoBlock
  BY <1>2 DEF NoBlock
<1> HIDE DEF d, n, known, fetch, blk
<1>6. s \in PeerState /\ s.rlen = st[e].rlen
  BY <1>2, <1>5, FlyingType
<1>7. Sendable(len', e, <<Sync(known)>>)
  BY <1>4, SyncSendable DEF n
<1>8. Sendable(len', e, request)
  BY <1>2, <1>3, RequestSendable, SendNothing
<1> HIDE DEF s, request
<1>9. Sendable(len', e, <<Sync(known)>> \o request)
  BY <1>7, <1>8, SendBoth
<1> QED BY <1>1, <1>2, <1>3, <1>6, <1>9, HandlerStep

\* What storing a verified block does to the core.
LEMMA BlockStored ==
  ASSUME ChannelInv, NEW e \in Ends, ReceivesData(e, "block"),
         BlockMayVerify(e[1], Head(Inbox(e))),
         held' = [held EXCEPT ![e[1]] = @ \cup {Head(Inbox(e)).index}], len' = len
  PROVE  /\ Grows(len, len') /\ WithinHub' /\ held' \in [Nodes -> SUBSET (0..MaxLen)]
         /\ Head(Inbox(e)).index \in 0..MaxLen
<1> DEFINE n == e[1]
           d == Head(Inbox(e))
<1>1. /\ Inbox(e) # <<>> /\ d.t = "data" /\ d.part = "block" /\ n \in Leaves
      /\ n \in Nodes
  BY EndsType DEF ReceivesData, Receives
<1>2. d \in Messages
  BY <1>1, HeadSound
<1>3. d.index \in 0..MaxLen /\ d.index < len[n]
  BY <1>1, <1>2 DEF Messages, Requests, Answers, BlockMayVerify
<1>4. /\ len \in [Nodes -> 0..MaxLen] /\ Hub \in Nodes
      /\ \A x \in Leaves : len[x] <= len[Hub] /\ held[x] \subseteq 0..(len[x] - 1)
      /\ held \in [Nodes -> SUBSET (0..MaxLen)]
  BY DEF ChannelInv, TypeOK, Nodes, WithinHub
<1> HIDE DEF d
<1>5. held' = [held EXCEPT ![n] = held[n] \cup {d.index}]
  BY DEF d
<1> HIDE DEF n
<1>6. Grows(len, len')
  BY <1>4 DEF Grows
<1>7. held' \in [Nodes -> SUBSET (0..MaxLen)]
  <2>1. held[n] \cup {d.index} \in SUBSET (0..MaxLen)
    BY <1>1, <1>3, <1>4
  <2> QED BY <2>1, <1>4, <1>5
<1>8. ASSUME NEW x \in Leaves PROVE held'[x] \subseteq 0..(len[x] - 1)
  <2>1. x \in Nodes /\ len[x] \in Nat
    BY <1>4 DEF Nodes
  <2>2. CASE x = n
    <3>1. d.index \in 0..(len[n] - 1)
      BY <2>1, <2>2, <1>3
    <3>2. held'[n] = held[n] \cup {d.index}
      BY <1>1, <1>4, <1>5
    <3> QED BY <2>2, <3>1, <3>2, <1>4
  <2>3. CASE x # n
    BY <2>1, <2>3, <1>4, <1>5
  <2> QED BY <2>2, <2>3
<1> QED BY <1>3, <1>4, <1>6, <1>7, <1>8 DEF d, WithinHub

LEMMA BlockStep ==
  ASSUME ChannelInv, NEW e \in Ends, OnBlock(e)
  PROVE  ChannelInv'
<1> DEFINE n == e[1]
           i == Head(Inbox(e)).index
           next == i + 1 < len[n]
           grow == ~next /\ st[e].rlen > len[n]
           blk == IF next THEN i + 1 ELSE NoBlock
           upg == st[e].upg \/ grow
           s == [st[e] EXCEPT !.blk = blk, !.upg = upg]
           request == IF next THEN <<ReqBlock(i + 1, len[n])>>
                      ELSE IF grow THEN <<ReqUpgrade(len[n], st[e].rlen)>> ELSE <<>>
<1>1. /\ ReceivesData(e, "block") /\ BlockMayVerify(n, Head(Inbox(e))) /\ len' = len
      /\ held' = [held EXCEPT ![n] = @ \cup {i}] /\ Inbox(e) # <<>>
      /\ man' = man /\ faults' = faults /\ st' = [st EXCEPT ![e] = s]
      /\ Handle(e, request)
  BY DEF OnBlock, ReceivesData, Receives
<1>2. /\ n \in Nodes /\ len[n] \in 0..MaxLen /\ faults \in 0..MaxFaults
      /\ st[e] \in PeerState /\ st[e].rlen <= len[e[2]] /\ st[e].rlen \in 0..MaxLen
      /\ man \in [Nodes -> BOOLEAN] /\ st[e].upg \in BOOLEAN
  BY EndsType DEF ChannelInv, TypeOK, RemoteKnown, PeerState
<1>3. /\ Grows(len, len') /\ WithinHub' /\ held' \in [Nodes -> SUBSET (0..MaxLen)]
      /\ i \in 0..MaxLen
  BY <1>1, BlockStored
<1>4. blk \in 0..NoBlock /\ (next => i + 1 \in 0..MaxLen) /\ (grow => len[n] < st[e].rlen)
  BY <1>2, <1>3 DEF NoBlock
<1> HIDE DEF i, n, next, blk
<1>5. upg \in BOOLEAN
  BY <1>2
<1> HIDE DEF upg
<1>6. s = Flying(st[e], upg, blk)
  BY DEF Flying
<1> HIDE DEF s
<1>7. s \in PeerState /\ s.rlen = st[e].rlen
  BY <1>2, <1>4, <1>5, <1>6, FlyingType
<1> HIDE DEF grow
<1>8. Sendable(len', e, request)
  <2>1. next => Sendable(len', e, <<ReqBlock(i + 1, len[n])>>)
    BY <1>2, <1>4, RequestSendable
  <2>2. grow => Sendable(len', e, <<ReqUpgrade(len[n], st[e].rlen)>>)
    BY <1>1, <1>2, <1>4, RequestSendable
  <2> QED BY <2>1, <2>2, SendNothing
<1> HIDE DEF request
<1> QED BY <1>1, <1>2, <1>3, <1>7, <1>8, HandlerStep

LEMMA AfterApplyStep ==
  ASSUME ChannelInv, NEW e \in Ends, AfterApplyFails(e)
  PROVE  ChannelInv'
<1> DEFINE d == Head(Inbox(e))
<1>1. /\ Inbox(e) # <<>> /\ man' = man /\ faults' = faults + 1 /\ faults < MaxFaults
      /\ Handle(e, <<>>) /\ st' = [st EXCEPT ![e] = Forget(@)]
      /\ \/ /\ ReceivesData(e, "upgrade") /\ UpgradeVerifies(e[1], d)
            /\ len' = [len EXCEPT ![e[1]] = d.head] /\ held' = held
         \/ /\ ReceivesData(e, "block") /\ BlockMayVerify(e[1], d)
            /\ held' = [held EXCEPT ![e[1]] = @ \cup {d.index}] /\ len' = len
  BY DEF AfterApplyFails, ReceivesData, Receives
<1>2. /\ st[e] \in PeerState /\ st[e].rlen <= len[e[2]] /\ faults' \in 0..MaxFaults
      /\ man \in [Nodes -> BOOLEAN] /\ held \in [Nodes -> SUBSET (0..MaxLen)]
  BY <1>1 DEF ChannelInv, TypeOK, RemoteKnown
<1>3. Grows(len, len') /\ WithinHub' /\ held' \in [Nodes -> SUBSET (0..MaxLen)]
  BY <1>1, <1>2, UpgradeGrows, BlockStored
<1>4. Forget(st[e]) \in PeerState /\ Forget(st[e]).rlen = st[e].rlen
  BY <1>2, ForgetType
<1> QED BY <1>1, <1>2, <1>3, <1>4, SendNothing, HandlerStep

LEMMA HubReceiveStep ==
  ASSUME ChannelInv, NEW e \in Ends, HubReceive(e)
  PROVE  ChannelInv'
<1> DEFINE m == Head(Inbox(e))
           reply == IF m.t # "req" THEN <<>>
                    ELSE IF m.part = "manifest" /\ ~man[Hub] THEN <<NoData>>
                    ELSE <<Proof(Hub, m)>>
<1>1. /\ e[1] = Hub /\ Inbox(e) # <<>> /\ Handle(e, reply)
      /\ UNCHANGED core /\ UNCHANGED st /\ UNCHANGED faults
  BY DEF HubReceive
<1>2. /\ len[Hub] \in 0..MaxLen /\ faults \in 0..MaxFaults /\ Hub \in Nodes
      /\ st[e] \in PeerState /\ st[e].rlen <= len[e[2]]
      /\ st = [st EXCEPT ![e] = st[e]] /\ Flip(e)[2] = Hub
  BY <1>1, EndsType DEF ChannelInv, TypeOK, RemoteKnown, Nodes
<1>3. m \in Messages /\ Sound(len, Flip(e), m)
  BY <1>1, HeadSound
<1> HIDE DEF m
<1>4. ASSUME m.t = "req" PROVE Sendable(len, e, <<Proof(Hub, m)>>)
  <2>1. m \in Requests
    BY <1>3, <1>4 DEF Messages, Answers
  <2>2. m.part = "upgrade" => m.start + m.length <= len[e[1]]
    BY <1>1, <1>2, <1>3, <1>4 DEF Sound
  <2> QED BY <1>1, <2>1, <2>2, ProofSendable
<1>5. Sendable(len, e, <<NoData>>)
  BY <1>2, RequestSendable
<1>6. Sendable(len, e, reply)
  BY <1>4, <1>5, SendNothing
<1> HIDE DEF reply
<1> QED BY <1>1, <1>2, <1>6, QuietHandlerStep

----------------------------------------------------------------------------
(* The steps that are not handlers.                                        *)

LEMMA DialStep ==
  ASSUME ChannelInv, NEW l \in Links, Dial(l)
  PROVE  ChannelInv'
  BY DEF ChannelInv, Dial, core, TypeOK, WithinHub, RemoteKnown, QueuesSound, Inbox

\* A lost connection clears its two ends.
LEMMA DisconnectStep ==
  ASSUME ChannelInv, NEW l \in Links, Disconnect(l), UNCHANGED core,
         drops' \in 0..MaxDrops, faults' = faults
  PROVE  ChannelInv'
<1>1. NewState("off") \in PeerState /\ NewState("off").rlen = 0
  BY DEF NewState, PeerState, NoBlock
<1>2. st' \in [Ends -> PeerState] /\ net' \in [Ends -> Seq(Messages)]
  BY <1>1 DEF Disconnect, ChannelInv, TypeOK
<1>3. TypeOK'
  BY <1>2 DEF ChannelInv, TypeOK, Disconnect, core
<1>4. RemoteKnown'
  <2> SUFFICES ASSUME NEW e \in Ends PROVE st'[e].rlen <= len[e[2]]
    BY DEF RemoteKnown, core
  <2>1. st'[e] = NewState("off") \/ st'[e] = st[e]
    BY DEF Disconnect
  <2>2. len[e[2]] \in Nat
    BY EndsType DEF ChannelInv, TypeOK
  <2> QED BY <2>1, <2>2, <1>1 DEF ChannelInv, RemoteKnown
<1>5. QueuesSound'
  <2> SUFFICES ASSUME NEW e \in Ends, NEW i \in DOMAIN net'[e]
               PROVE  Sound(len, e, net'[e][i])
    BY DEF QueuesSound, core
  <2>1. net'[e] = <<>> \/ net'[e] = net[e]
    BY DEF Disconnect
  <2> QED BY <2>1 DEF ChannelInv, QueuesSound
<1>6. WithinHub'
  BY DEF ChannelInv, WithinHub, core
<1> QED BY <1>3, <1>4, <1>5, <1>6 DEF ChannelInv

LEMMA DisconnectsStep ==
  ASSUME ChannelInv,
         \/ \E l \in Links : Drop(l) \/ IdleDisconnect(l)
         \/ \E e \in Ends : OnDeadChannel(e)
  PROVE  ChannelInv'
<1>1. drops \in 0..MaxDrops /\ faults \in 0..MaxFaults
  BY DEF ChannelInv, TypeOK
<1>2. ASSUME NEW l \in Links, Drop(l) \/ IdleDisconnect(l) PROVE ChannelInv'
  <2>1. drops' \in 0..MaxDrops /\ faults' = faults /\ UNCHANGED core /\ Disconnect(l)
    BY <1>1, <1>2 DEF Drop, IdleDisconnect
  <2> QED BY <2>1, DisconnectStep
<1>3. ASSUME NEW e \in Ends, OnDeadChannel(e) PROVE ChannelInv'
  <2>1. /\ drops' \in 0..MaxDrops /\ faults' = faults /\ UNCHANGED core
        /\ Disconnect(LinkOf(e))
    BY <1>1, <1>3 DEF OnDeadChannel
  <2> QED BY <2>1, EndsType, DisconnectStep
<1> QED BY <1>2, <1>3

LEMMA StartStep ==
  ASSUME ChannelInv, NEW e \in Ends, Start(e)
  PROVE  ChannelInv'
<1> DEFINE n == e[1]
           ask == IF man[n] \/ n = Hub THEN <<>> ELSE <<Manifest>>
           hello == <<Sync(len[n])>> \o ask
<1>1. /\ st' = [st EXCEPT ![e] = NewState("on")] /\ net' = [net EXCEPT ![e] = hello]
      /\ UNCHANGED <<core, up, drops, faults>>
  BY DEF Start
<1>2. len[n] \in 0..MaxLen /\ \A x \in Ends : len[x[2]] \in Nat
  BY EndsType DEF ChannelInv, TypeOK
<1>3. NewState("on") \in PeerState /\ NewState("on").rlen = 0
  BY DEF NewState, PeerState, NoBlock
<1>4. Sendable(len, e, <<Sync(len[n])>>) /\ Sendable(len, e, ask)
  <2>1. len[n] <= len[e[1]]
    BY <1>2
  <2>2. Sendable(len, e, <<Sync(len[n])>>) /\ Sendable(len, e, <<Manifest>>)
    BY <1>2, <2>1, SyncSendable, RequestSendable
  <2> QED BY <2>2, SendNothing
<1> HIDE DEF ask
<1>5. hello \in Seq(Messages) /\ \A i \in DOMAIN hello : Sound(len, e, hello[i])
  BY <1>4, SendBoth DEF Sendable
<1> HIDE DEF hello
<1>6. TypeOK'
  BY <1>1, <1>3, <1>5 DEF ChannelInv, TypeOK, core
<1>7. WithinHub' /\ RemoteKnown'
  BY <1>1, <1>2, <1>3 DEF ChannelInv, TypeOK, WithinHub, RemoteKnown, core
<1>8. QueuesSound'
  <2> SUFFICES ASSUME NEW x \in Ends, NEW i \in DOMAIN net'[x]
               PROVE  Sound(len, x, net'[x][i])
    BY <1>1 DEF QueuesSound, core
  <2>1. CASE x = e
    BY <2>1, <1>1, <1>5 DEF ChannelInv, TypeOK
  <2>2. CASE x # e
    <3>1. net'[x] = net[x]
      BY <2>2, <1>1 DEF ChannelInv, TypeOK
    <3> QED BY <3>1 DEF ChannelInv, QueuesSound
  <2> QED BY <2>1, <2>2
<1> QED BY <1>6, <1>7, <1>8 DEF ChannelInv

\* One more message at the end of a queue.
LEMMA AppendSound ==
  ASSUME NEW L, NEW x, NEW q \in Seq(Messages), NEW m \in Messages, Sound(L, x, m),
         \A i \in DOMAIN q : Sound(L, x, q[i])
  PROVE  \A i \in DOMAIN Append(q, m) : Sound(L, x, Append(q, m)[i])
<1> SUFFICES ASSUME NEW i \in DOMAIN Append(q, m) PROVE Sound(L, x, Append(q, m)[i])
  OBVIOUS
<1>1. i \in 1..(Len(q) + 1)
  OBVIOUS
<1>2. CASE i = Len(q) + 1
  BY <1>2
<1>3. CASE i # Len(q) + 1
  <2>1. i \in DOMAIN q /\ Append(q, m)[i] = q[i]
    BY <1>1, <1>3
  <2> QED BY <2>1
<1> QED BY <1>2, <1>3

LEMMA ResyncStep ==
  ASSUME ChannelInv, NEW e \in Ends, Resync(e)
  PROVE  ChannelInv'
<1> DEFINE n == e[1]
<1>1. /\ len[n] \in 0..MaxLen /\ st[e] \in PeerState /\ net[e] \in Seq(Messages)
      /\ st[e].rlen \in 0..MaxLen /\ st[e].rlen <= len[e[2]]
  BY EndsType DEF ChannelInv, TypeOK, PeerState, RemoteKnown
<1>2. UNCHANGED <<core, up, drops, faults>>
  BY DEF Resync
<1>3. PICK s \in PeerState, m \in Messages :
        /\ st' = [st EXCEPT ![e] = s] /\ s.rlen = st[e].rlen
        /\ net' = [net EXCEPT ![e] = Append(net[e], m)] /\ Sound(len, e, m)
  <2>1. CASE NeedsUpgrade(n, st[e]) /\ st' = [st EXCEPT ![e].upg = TRUE]
             /\ net' = [net EXCEPT ![e] = Append(@, ReqUpgrade(len[n], st[e].rlen))]
    <3> DEFINE s == [st[e] EXCEPT !.upg = TRUE]
               m == ReqUpgrade(len[n], st[e].rlen)
    <3>1. s \in PeerState /\ s.rlen = st[e].rlen
      BY <1>1 DEF PeerState
    <3>2. len[n] < st[e].rlen
      BY <2>1, <1>1 DEF NeedsUpgrade
    <3>3. Sendable(len, e, <<m>>)
      BY <3>2, <1>1, RequestSendable
    <3>4. m \in Messages /\ Sound(len, e, m)
      BY <3>3 DEF Sendable
    <3> QED BY <2>1, <3>1, <3>4
  <2>2. ASSUME NEW c \in Hole(n), st' = [st EXCEPT ![e].blk = c],
               net' = [net EXCEPT ![e] = Append(@, ReqBlock(c, len[n]))]
        PROVE  \E s \in PeerState, m \in Messages :
                  /\ st' = [st EXCEPT ![e] = s] /\ s.rlen = st[e].rlen
                  /\ net' = [net EXCEPT ![e] = Append(net[e], m)] /\ Sound(len, e, m)
    <3> DEFINE s == [st[e] EXCEPT !.blk = c]
               m == ReqBlock(c, len[n])
    <3>1. c \in 0..MaxLen /\ c \in 0..NoBlock
      BY <1>1 DEF Hole, NoBlock
    <3>2. s \in PeerState /\ s.rlen = st[e].rlen
      BY <3>1, <1>1 DEF PeerState, NoBlock
    <3>3. Sendable(len, e, <<m>>)
      BY <3>1, <1>1, RequestSendable
    <3>4. m \in Messages /\ Sound(len, e, m)
      BY <3>3 DEF Sendable
    <3> QED BY <2>2, <3>2, <3>4
  <2> QED BY <2>1, <2>2 DEF Resync
<1>4. Append(net[e], m) \in Seq(Messages)
  BY <1>1
<1>5. TypeOK'
  BY <1>2, <1>3, <1>4 DEF ChannelInv, TypeOK, core
<1>6. WithinHub' /\ RemoteKnown'
  BY <1>1, <1>2, <1>3 DEF ChannelInv, TypeOK, WithinHub, RemoteKnown, core
<1>7. QueuesSound'
  <2> SUFFICES ASSUME NEW x \in Ends PROVE \A i \in DOMAIN net'[x] : Sound(len, x, net'[x][i])
    BY <1>2 DEF QueuesSound, core
  <2>1. \A i \in DOMAIN net[x] : Sound(len, x, net[x][i])
    BY DEF ChannelInv, QueuesSound
  <2>2. CASE x = e
    <3>1. net'[x] = Append(net[e], m)
      BY <2>2, <1>3 DEF ChannelInv, TypeOK
    <3> QED BY <2>1, <2>2, <3>1, <1>1, <1>3, AppendSound
  <2>3. CASE x # e
    <3>1. net'[x] = net[x]
      BY <2>3, <1>3 DEF ChannelInv, TypeOK
    <3> QED BY <3>1, <2>1
  <2> QED BY <2>2, <2>3
<1> QED BY <1>5, <1>6, <1>7 DEF ChannelInv

LEMMA TickFailsStep ==
  ASSUME ChannelInv, NEW e \in Ends, TickFails(e)
  PROVE  ChannelInv'
<1> DEFINE s == [st[e] EXCEPT !.run = "dead"]
<1>1. /\ st' = [st EXCEPT ![e] = s] /\ faults' \in 0..MaxFaults
      /\ UNCHANGED <<core, up, net, drops>>
  BY DEF TickFails, ChannelInv, TypeOK
<1>2. s \in PeerState /\ s.rlen = st[e].rlen
  <2>1. st[e] \in PeerState
    BY DEF ChannelInv, TypeOK
  <2> QED BY <2>1 DEF PeerState
<1> HIDE DEF s
<1>3. TypeOK'
  BY <1>1, <1>2 DEF ChannelInv, TypeOK, core
<1>4. WithinHub' /\ RemoteKnown' /\ QueuesSound'
  BY <1>1, <1>2 DEF ChannelInv, TypeOK, WithinHub, RemoteKnown, QueuesSound, core
<1> QED BY <1>3, <1>4 DEF ChannelInv

LEMMA HubAppendStep ==
  ASSUME ChannelInv, HubAppend
  PROVE  ChannelInv' /\ Grows(len, len')
<1> DEFINE now == Sync(len[Hub] + 1)
<1>1. /\ len \in [Nodes -> 0..MaxLen] /\ Hub \in Nodes /\ len[Hub] \in 0..(MaxLen - 1)
      /\ held \in [Nodes -> SUBSET (0..MaxLen)]
  BY DEF ChannelInv, TypeOK, HubAppend, Nodes
<1>2. Grows(len, len')
  <2>1. len' = [len EXCEPT ![Hub] = len[Hub] + 1]
    BY DEF HubAppend
  <2>2. len' \in [Nodes -> 0..MaxLen]
    BY <1>1, <2>1
  <2>3. ASSUME NEW n \in Nodes PROVE len[n] <= len'[n]
    <3>1. len[n] \in Nat
      BY <1>1
    <3> QED BY <1>1, <2>1, <3>1
  <2> QED BY <2>2, <2>3 DEF Grows
<1>3. now \in Messages /\ \A e \in Ends : e[1] = Hub => Sound(len', e, now)
  BY <1>1 DEF HubAppend, Sync, Messages, Sound
<1>4. \A e \in Ends : net'[e] = net[e] \/ (e[1] = Hub /\ net'[e] = Append(net[e], now))
  <2> SUFFICES ASSUME NEW e \in Ends
               PROVE  net'[e] = net[e] \/ (e[1] = Hub /\ net'[e] = Append(net[e], now))
    OBVIOUS
  <2>1. net' = [x \in Ends |-> IF x[1] = Hub /\ st[x].run = "on"
                              THEN Append(net[x], now) ELSE net[x]]
    BY DEF HubAppend
  <2> HIDE DEF now
  <2>2. net'[e] = IF e[1] = Hub /\ st[e].run = "on" THEN Append(net[e], now) ELSE net[e]
    BY <2>1, Zenon
  <2> QED BY <2>2, Zenon
<1> HIDE DEF now
<1>5. net' \in [Ends -> Seq(Messages)]
  <2>1. ASSUME NEW e \in Ends PROVE net'[e] \in Seq(Messages)
    <3>1. net[e] \in Seq(Messages)
      BY DEF ChannelInv, TypeOK
    <3>2. Append(net[e], now) \in Seq(Messages)
      BY <3>1, <1>3
    <3> QED BY <3>1, <3>2, <1>4
  <2> QED BY <2>1 DEF HubAppend
<1>6. TypeOK'
  <2>1. held[Hub] \cup {len[Hub]} \in SUBSET (0..MaxLen)
    BY <1>1
  <2>2. held' \in [Nodes -> SUBSET (0..MaxLen)] /\ man' \in [Nodes -> BOOLEAN]
    BY <1>1, <2>1 DEF HubAppend, ChannelInv, TypeOK
  <2>3. st' = st /\ up' = up /\ drops' = drops /\ faults' = faults
    BY DEF HubAppend
  <2> QED BY <1>2, <1>5, <2>2, <2>3 DEF ChannelInv, TypeOK, Grows
<1>7. WithinHub'
  <2> SUFFICES ASSUME NEW n \in Leaves
               PROVE  len'[n] <= len'[Hub] /\ held'[n] \subseteq 0..(len'[n] - 1)
    BY DEF WithinHub
  <2>1. n \in Nodes /\ n # Hub /\ len[n] \in Nat
    BY <1>1 DEF Nodes
  <2>2. len'[n] = len[n] /\ held'[n] = held[n] /\ len'[Hub] = len[Hub] + 1
    BY <2>1, <1>1 DEF HubAppend
  <2> QED BY <2>1, <2>2, <1>1 DEF ChannelInv, WithinHub
<1>8. RemoteKnown'
  <2> SUFFICES ASSUME NEW e \in Ends PROVE st[e].rlen <= len'[e[2]]
    BY DEF RemoteKnown, HubAppend
  <2>1. e[2] \in Nodes
    BY EndsType
  <2>2. st[e].rlen \in Nat /\ st[e].rlen <= len[e[2]]
    BY DEF ChannelInv, TypeOK, PeerState, RemoteKnown
  <2>3. len[e[2]] \in Nat /\ len'[e[2]] \in Nat /\ len[e[2]] <= len'[e[2]]
    BY <2>1, <1>1, <1>2 DEF Grows
  <2> QED BY <2>2, <2>3
<1>9. QueuesSound'
  <2> SUFFICES ASSUME NEW e \in Ends PROVE \A i \in DOMAIN net'[e] : Sound(len', e, net'[e][i])
    BY DEF QueuesSound
  <2>1. net[e] \in Seq(Messages) /\ \A i \in DOMAIN net[e] : net[e][i] \in Messages
    BY DEF ChannelInv, TypeOK
  <2>2. \A i \in DOMAIN net[e] : Sound(len', e, net[e][i])
    BY <1>1, <1>2, <2>1, SoundGrows DEF ChannelInv, QueuesSound
  <2>3. CASE net'[e] = net[e]
    BY <2>2, <2>3
  <2>4. CASE e[1] = Hub /\ net'[e] = Append(net[e], now)
    BY <2>1, <2>2, <2>4, <1>3, AppendSound
  <2> QED BY <1>4, <2>3, <2>4
<1> QED BY <1>2, <1>6, <1>7, <1>8, <1>9 DEF ChannelInv

----------------------------------------------------------------------------
(* The invariant.                                                          *)

LEMMA InitInv == Init => ChannelInv
<1> SUFFICES ASSUME Init PROVE ChannelInv
  OBVIOUS
<1>1. NewState("off") \in PeerState /\ NewState("off").rlen = 0
  BY DEF NewState, PeerState, NoBlock
<1>2. TypeOK
  BY <1>1 DEF Init, TypeOK
<1>3. WithinHub
  BY DEF Init, WithinHub, Nodes
<1>4. RemoteKnown
  BY <1>1, EndsType DEF Init, RemoteKnown
<1>5. QueuesSound
  BY DEF Init, QueuesSound
<1> QED BY <1>2, <1>3, <1>4, <1>5 DEF ChannelInv

LEMMA NextInv == ChannelInv /\ [Next]_vars => ChannelInv'
<1> SUFFICES ASSUME ChannelInv, [Next]_vars PROVE ChannelInv'
  OBVIOUS
<1>1. CASE HubAppend
  BY <1>1, HubAppendStep
<1>2. ASSUME NEW l \in Links, Dial(l) \/ Drop(l) \/ IdleDisconnect(l)
      PROVE  ChannelInv'
  BY <1>2, DialStep, DisconnectsStep
<1>3. ASSUME NEW e \in Ends, Start(e) \/ Resync(e) \/ HubReceive(e)
      PROVE  ChannelInv'
  BY <1>3, StartStep, ResyncStep, HubReceiveStep
<1>4. ASSUME NEW e \in Ends, OnMessage(e)
      PROVE  ChannelInv'
  BY <1>4, SynchronizeStep, RequestStep, RefusalStep, ManifestStep, UpgradeStep,
     BlockStep, DisconnectsStep DEF OnMessage
<1>5. ASSUME NEW e \in Ends, Faults(e)
      PROVE  ChannelInv'
  BY <1>5, RefusalStep, AfterApplyStep, TickFailsStep DEF Faults
<1>6. CASE UNCHANGED vars
  BY <1>6 DEF vars, ChannelInv, TypeOK, WithinHub, RemoteKnown, QueuesSound
<1> QED BY <1>1, <1>2, <1>3, <1>4, <1>5, <1>6 DEF Next

\* In every reachable state no queued message, no PeerState and no stored block
\* speaks of more than the core it is about has; this is what the handlers of
\* mirror.rs maintain together, and what the theorems below follow from.
THEOREM Invariance == Spec => []ChannelInv
<1> QED BY InitInv, NextInv, PTL DEF Spec

\* The state of every core, channel and queue is always well formed.
\* [mirror.rs: PeerState and the messages the handlers build]
THEOREM Typing == Spec => []TypeOK
<1>1. ChannelInv => TypeOK
  BY DEF ChannelInv
<1> QED BY <1>1, Invariance, PTL

\* request_upgrade never asks for an empty, negative or unprovable range, for
\* any number of connections between the nodes and whatever fails.
THEOREM Answerable == Spec => []UpgradesAnswerable
<1>1. ChannelInv => UpgradesAnswerable
  BY DEF ChannelInv, QueuesSound, Sound, UpgradesAnswerable
<1> QED BY <1>1, Invariance, PTL

----------------------------------------------------------------------------
(* The refinement of Replica.                                              *)

Verifies(e) ==
  /\ ReceivesData(e, "upgrade") /\ UpgradeVerifies(e[1], Head(Inbox(e)))
  /\ len' = [len EXCEPT ![e[1]] = Head(Inbox(e)).head] /\ held' = held

Stores(e) ==
  /\ ReceivesData(e, "block") /\ BlockMayVerify(e[1], Head(Inbox(e)))
  /\ held' = [held EXCEPT ![e[1]] = @ \cup {Head(Inbox(e)).index}] /\ len' = len

\* The steps that touch a core.
LEMMA CoreSteps ==
  ASSUME [Next]_vars
  PROVE  \/ len' = len /\ held' = held
         \/ HubAppend
         \/ \E e \in Ends : Verifies(e) \/ Stores(e)
<1>1. ASSUME NEW l \in Links, Dial(l) \/ Drop(l) \/ IdleDisconnect(l)
      PROVE  len' = len /\ held' = held
  BY <1>1 DEF Dial, Drop, IdleDisconnect, core
<1>2. ASSUME NEW e \in Ends, Start(e) \/ Resync(e) \/ HubReceive(e)
      PROVE  len' = len /\ held' = held
  BY <1>2 DEF Start, Resync, HubReceive, core
<1>3. ASSUME NEW e \in Ends, OnMessage(e)
      PROVE  (len' = len /\ held' = held) \/ Verifies(e) \/ Stores(e)
  BY <1>3 DEF OnMessage, OnSynchronize, OnRequest, OnNoData, OnManifest, OnUpgrade,
     OnBlock, OnBadData, OnDeadChannel, core, Verifies, Stores
<1>4. ASSUME NEW e \in Ends, Faults(e)
      PROVE  (len' = len /\ held' = held) \/ Verifies(e) \/ Stores(e)
  BY <1>4 DEF Faults, ApplyFails, AfterApplyFails, TickFails, core, Verifies, Stores
<1>5. CASE UNCHANGED vars
  BY <1>5 DEF vars
<1> QED BY <1>1, <1>2, <1>3, <1>4, <1>5 DEF Next

LEMMA InitRefines == Init => R!Init
  BY DEF Init, R!Init, Nodes

LEMMA HubAppendRefines == ChannelInv /\ HubAppend => R!Publish
<1> SUFFICES ASSUME ChannelInv, HubAppend PROVE R!Publish
  OBVIOUS
<1>1. Hub \in Nodes /\ Leaves \subseteq Nodes /\ Hub \notin Leaves
  BY DEF Nodes
<1>2. len' = [len EXCEPT ![Hub] = len[Hub] + 1]
        /\ held' = [held EXCEPT ![Hub] = @ \cup {len[Hub]}]
  BY DEF HubAppend
<1>3. len[Hub] < MaxLen /\ len'[Hub] = len[Hub] + 1
  BY <1>1, <1>2 DEF HubAppend, ChannelInv, TypeOK
<1>4. \A n \in Leaves : len'[n] = len[n] /\ held'[n] = held[n]
  BY <1>1, <1>2 DEF ChannelInv, TypeOK
<1> QED BY <1>3, <1>4 DEF R!Publish

LEMMA VerifiesRefines ==
  ASSUME ChannelInv, NEW e \in Ends, Verifies(e)
  PROVE  R!Verify(e[1]) \/ UNCHANGED R!vars
<1> DEFINE n == e[1]
           k == Head(Inbox(e)).head
           verified == [x \in Leaves |-> len[x]]
<1>1. n \in Leaves /\ n \in Nodes /\ Hub \in Nodes /\ n # Hub /\ Leaves \subseteq Nodes
  BY DEF Verifies, ReceivesData, Receives, Nodes
<1>2. WithinHub' /\ k \in 0..MaxLen /\ len[n] <= k
  BY UpgradeGrows DEF Verifies
<1> HIDE DEF k
<1>3. len \in [Nodes -> 0..MaxLen] /\ len' = [len EXCEPT ![n] = k] /\ held' = held
  BY DEF ChannelInv, TypeOK, Verifies, k
<1> HIDE DEF n
<1>4. len'[Hub] = len[Hub] /\ k <= len[Hub]
  BY <1>1, <1>2, <1>3 DEF WithinHub
<1>5. [x \in Leaves |-> len'[x]] = [verified EXCEPT ![n] = k]
  BY <1>1, <1>3
<1>6. CASE k = len[n]
  <2>1. len' = len
    BY <1>1, <1>3, <1>6
  <2> QED BY <2>1, <1>3 DEF R!vars
<1>7. CASE k # len[n]
  <2>1. k \in (verified[n] + 1)..len[Hub]
    BY <1>1, <1>2, <1>3, <1>4, <1>7
  <2>2. R!Verify(n)
    BY <2>1, <1>3, <1>4, <1>5 DEF R!Verify
  <2> QED BY <2>2 DEF n
<1> QED BY <1>6, <1>7

LEMMA StoresRefines ==
  ASSUME ChannelInv, NEW e \in Ends, Stores(e)
  PROVE  R!Store(e[1]) \/ UNCHANGED R!vars
<1> DEFINE n == e[1]
           i == Head(Inbox(e)).index
           stored == [x \in Leaves |-> held[x]]
<1>1. n \in Leaves /\ n \in Nodes /\ Leaves \subseteq Nodes
  BY DEF Verifies, Stores, ReceivesData, Receives, Nodes
<1>2. i \in 0..MaxLen /\ i < len[n]
  BY BlockStored DEF Stores, BlockMayVerify
<1> HIDE DEF i
<1>3. /\ len \in [Nodes -> 0..MaxLen] /\ held \in [Nodes -> SUBSET (0..MaxLen)]
      /\ held' = [held EXCEPT ![n] = held[n] \cup {i}] /\ len' = len
  BY DEF ChannelInv, TypeOK, Stores, i
<1> HIDE DEF n
<1>4. [x \in Leaves |-> held'[x]] = [stored EXCEPT ![n] = stored[n] \cup {i}]
  BY <1>1, <1>3
<1>5. CASE i \in held[n]
  <2>1. held[n] \cup {i} = held[n]
    BY <1>5
  <2>2. held' = held
    BY <2>1, <1>1, <1>3
  <2> QED BY <2>2, <1>3 DEF R!vars
<1>6. CASE i \notin held[n]
  <2>1. i \in 0..(len[n] - 1) /\ i \notin stored[n]
    BY <1>1, <1>2, <1>3, <1>6
  <2>2. i \in 0..([x \in Leaves |-> len[x]][n] - 1)
    BY <2>1, <1>1
  <2>3. R!Store(n)
    BY <2>1, <2>2, <1>3, <1>4 DEF R!Store
  <2> QED BY <2>3 DEF n
<1> QED BY <1>5, <1>6

LEMMA NextRefines == ChannelInv /\ [Next]_vars => [R!Next]_(R!vars)
<1> SUFFICES ASSUME ChannelInv, [Next]_vars PROVE [R!Next]_(R!vars)
  OBVIOUS
<1>1. CASE len' = len /\ held' = held
  BY <1>1 DEF R!vars
<1>2. CASE HubAppend
  BY <1>2, HubAppendRefines DEF R!Next
<1>3. ASSUME NEW e \in Ends, Verifies(e) \/ Stores(e) PROVE [R!Next]_(R!vars)
  <2>1. e[1] \in Leaves
    BY <1>3 DEF Verifies, Stores, ReceivesData, Receives
  <2> QED BY <1>3, <2>1, VerifiesRefines, StoresRefines DEF R!Next, R!Advance
<1> QED BY <1>1, <1>2, <1>3, CoreSteps

\* The mirroring leaves implement the abstract replica: what a leaf has verified
\* or stored is never taken back and never more than the hub has published.
\* [mirror.rs: core_channel with run_connection]
THEOREM Refinement == Spec => Mirrors
<1>1. Init => R!Init
  BY InitRefines
<1>2. ChannelInv /\ [Next]_vars => [R!Next]_(R!vars)
  BY NextRefines
<1> QED BY <1>1, <1>2, Invariance, PTL DEF Spec, Mirrors, R!Spec
=============================================================================
