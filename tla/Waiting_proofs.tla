--------------------------- MODULE Waiting_proofs ---------------------------
(***************************************************************************)
(* A channel towards the hub never waits for an answer that nobody owes:   *)
(* NoDeadWait of CoreChannel, for any number of leaves, connections, lost  *)
(* connections and storage failures.                                       *)
(***************************************************************************)
EXTENDS CoreChannel_proofs, FiniteSetTheorems

\* Queue q holds a message of type t about this part of the core.
Pending(q, t, part) == \E i \in DOMAIN q : q[i].t = t /\ q[i].part = part

\* End e is owed an answer: its request is on the way out, or the answer back.
Owed(e, part) == Pending(net[e], "req", part) \/ Pending(net[Flip(e)], "data", part)

Waits(e) == /\ st[e].upg => Owed(e, "upgrade")
            /\ st[e].blk # NoBlock => Owed(e, "block")

\* NoDeadWait is about what is in transit, which a channel that starts throws
\* away: an end that has not started must not have sent anything.
WaitInv ==
  /\ \A e \in Ends : st[e].run = "off" => net[e] = <<>>
  /\ \A e \in Ends : e[2] = Hub /\ e[1] \in Leaves => Waits(e)

----------------------------------------------------------------------------
(* Queues.                                                                 *)

LEMMA PendingAdded ==
  ASSUME NEW S, NEW q \in Seq(S), NEW T, NEW r \in Seq(T), NEW t, NEW part,
         Pending(q, t, part) \/ Pending(r, t, part)
  PROVE  Pending(q \o r, t, part)
<1>1. /\ q \o r \in Seq(S \cup T) /\ Len(q \o r) = Len(q) + Len(r)
      /\ DOMAIN (q \o r) = 1..(Len(q) + Len(r))
      /\ \A i \in 1..Len(q) : (q \o r)[i] = q[i]
      /\ \A i \in 1..Len(r) : (q \o r)[Len(q) + i] = r[i]
  OBVIOUS
<1>2. CASE Pending(q, t, part)
  <2>1. PICK i \in 1..Len(q) : q[i].t = t /\ q[i].part = part
    BY <1>2 DEF Pending
  <2>2. i \in DOMAIN (q \o r) /\ (q \o r)[i] = q[i]
    BY <1>1, <2>1
  <2> QED BY <2>1, <2>2 DEF Pending
<1>3. CASE Pending(r, t, part)
  <2>1. PICK i \in 1..Len(r) : r[i].t = t /\ r[i].part = part
    BY <1>3 DEF Pending
  <2>2. Len(q) + i \in DOMAIN (q \o r) /\ (q \o r)[Len(q) + i] = r[i]
    BY <1>1, <2>1
  <2> QED BY <2>1, <2>2 DEF Pending
<1> QED BY <1>2, <1>3

LEMMA PendingTaken ==
  ASSUME NEW S, NEW q \in Seq(S), q # <<>>, NEW t, NEW part, Pending(q, t, part),
         ~(Head(q).t = t /\ Head(q).part = part)
  PROVE  Pending(Tail(q), t, part)
<1>1. PICK i \in 1..Len(q) : q[i].t = t /\ q[i].part = part
  BY DEF Pending
<1>2. i # 1
  BY <1>1
<1>3. i - 1 \in DOMAIN Tail(q) /\ Tail(q)[i - 1] = q[i]
  BY <1>1, <1>2
<1> QED BY <1>1, <1>3 DEF Pending

LEMMA PendingOne ==
  ASSUME NEW m, NEW t, NEW part, m.t = t, m.part = part
  PROVE  Pending(<<m>>, t, part)
BY DEF Pending

\* Replies of at most one message.
LEMMA Singles ==
  ASSUME NEW S, NEW m \in S
  PROVE  <<m>> \in Seq(S) /\ <<>> \in Seq(S)
OBVIOUS

\* What a handler does to the queues.
LEMMA HandleMoves ==
  ASSUME TypeOK, NEW e \in Ends, NEW replies, Inbox(e) # <<>>, Handle(e, replies)
  PROVE  /\ net' = [net EXCEPT ![Flip(e)] = Tail(net[Flip(e)]), ![e] = net[e] \o replies]
         /\ net'[e] = net[e] \o replies /\ net'[Flip(e)] = Tail(net[Flip(e)])
         /\ \A x \in Ends \ {e, Flip(e)} : net'[x] = net[x]
         /\ net[e] \in Seq(Messages) /\ net[Flip(e)] \in Seq(Messages) /\ net[Flip(e)] # <<>>
<1>1. /\ Flip(e) \in Ends /\ Flip(e) # e /\ net \in [Ends -> Seq(Messages)]
      /\ net[Flip(e)] # <<>>
  BY EndsType DEF Inbox, TypeOK
<1>2. net' = [net EXCEPT ![Flip(e)] = Tail(net[Flip(e)]), ![e] = net[e] \o replies]
  BY <1>1 DEF Handle
<1> QED BY <1>1, <1>2

\* Two connections share no end, and the ends of leaves are not the hub's.
LEMMA Apart ==
  ASSUME NEW e \in Ends, NEW x \in Ends, x # e
  PROVE  Flip(x) # Flip(e)
BY EndsType

----------------------------------------------------------------------------
(* Steps.                                                                  *)

\* A leaf's handler keeps the waits when a mark that is set after it either
\* goes with a request it sends, or was set before and is not what it answers.
LEMMA LeafHandles ==
  ASSUME TypeOK, WaitInv, NEW e \in Ends, e[1] \in Leaves, st[e].run = "on",
         Inbox(e) # <<>>, NEW T, NEW replies \in Seq(T), Handle(e, replies),
         NEW s, st' = [st EXCEPT ![e] = s], s.run = "on",
         s.upg => \/ Pending(replies, "req", "upgrade")
                  \/ st[e].upg
                       /\ ~(Head(Inbox(e)).t = "data" /\ Head(Inbox(e)).part = "upgrade"),
         s.blk # NoBlock =>
                  \/ Pending(replies, "req", "block")
                  \/ /\ st[e].blk # NoBlock
                     /\ ~(Head(Inbox(e)).t = "data" /\ Head(Inbox(e)).part = "block")
  PROVE  WaitInv'
<1>1. /\ net'[e] = net[e] \o replies /\ net'[Flip(e)] = Tail(net[Flip(e)])
      /\ \A x \in Ends \ {e, Flip(e)} : net'[x] = net[x]
      /\ net[e] \in Seq(Messages) /\ net[Flip(e)] \in Seq(Messages) /\ net[Flip(e)] # <<>>
  BY HandleMoves
<1>2. st'[e] = s /\ \A x \in Ends \ {e} : st'[x] = st[x]
  BY DEF TypeOK
<1>3. ASSUME NEW x \in Ends, st'[x].run = "off" PROVE net'[x] = <<>>
  <2>1. x # e
    BY <1>2, <1>3
  <2>2. net[x] = <<>> /\ x # Flip(e)
    BY <1>1, <1>2, <1>3, <2>1 DEF WaitInv
  <2> QED BY <1>1, <2>1, <2>2
<1>4. ASSUME NEW x \in Ends, x[2] = Hub, x[1] \in Leaves PROVE Waits(x)'
  <2>1. CASE x # e
    <3>1. x # Flip(e) /\ Flip(x) # e /\ Flip(x) # Flip(e) /\ Flip(x) \in Ends
      BY <1>4, <2>1, EndsType, Apart, ChannelAssumption
    <3>2. net'[x] = net[x] /\ net'[Flip(x)] = net[Flip(x)] /\ st'[x] = st[x]
      BY <1>1, <1>2, <2>1, <3>1
    <3> QED BY <1>4, <3>2 DEF WaitInv, Waits, Owed
  <2>2. CASE x = e
    <3>1. Waits(e)
      BY <1>4, <2>2 DEF WaitInv
    <3>2. ASSUME NEW part, ~(Head(Inbox(e)).t = "data" /\ Head(Inbox(e)).part = part),
                 Owed(e, part)
          PROVE  Owed(e, part)'
      <4>1. CASE Pending(net[e], "req", part)
        BY <1>1, <4>1, PendingAdded DEF Owed
      <4>2. CASE Pending(net[Flip(e)], "data", part)
        BY <1>1, <3>2, <4>2, PendingTaken DEF Owed, Inbox
      <4> QED BY <3>2, <4>1, <4>2 DEF Owed
    <3>3. ASSUME NEW part, Pending(replies, "req", part) PROVE Owed(e, part)'
      BY <1>1, <3>3, PendingAdded DEF Owed
    <3> QED BY <1>2, <2>2, <3>1, <3>2, <3>3 DEF Waits
  <2> QED BY <2>1, <2>2
<1> QED BY <1>3, <1>4 DEF WaitInv

\* The error branch waits for nothing.
LEMMA Forgets ==
  ASSUME NEW s \in PeerState
  PROVE  Forget(s).run = s.run /\ Forget(s).upg = FALSE /\ Forget(s).blk = NoBlock
BY DEF Forget, PeerState

LEMMA RefusalWaits ==
  ASSUME TypeOK, WaitInv, NEW e \in Ends, e[1] \in Leaves, st[e].run = "on",
         Inbox(e) # <<>>, Handle(e, <<>>), st' = [st EXCEPT ![e] = Forget(st[e])]
  PROVE  WaitInv'
<1>1. st[e] \in PeerState
  BY DEF TypeOK
<1>2. <<>> \in Seq(Messages)
  OBVIOUS
<1>3. PICK s : s = Forget(st[e])
  OBVIOUS
<1>4. s.run = "on" /\ s.upg = FALSE /\ s.blk = NoBlock
  BY <1>1, <1>3, Forgets
<1> QED BY <1>2, <1>3, <1>4, LeafHandles

LEMMA SynchronizeWaits ==
  ASSUME TypeOK, WaitInv, NEW e \in Ends, OnSynchronize(e)
  PROVE  WaitInv'
<1> DEFINE n == e[1]
           m == Head(Inbox(e))
           ask == /\ man[n] /\ NeedsUpgrade(n, [st[e] EXCEPT !.rlen = m.len])
                  /\ m.len # st[e].rlen \/ ~st[e].synced
           upg == st[e].upg \/ ask
           s == [st[e] EXCEPT !.rlen = m.len, !.synced = TRUE, !.upg = upg]
           q == ReqUpgrade(len[n], m.len)
           hello == IF st[e].synced THEN <<>> ELSE <<Sync(len[n])>>
           request == IF ask THEN <<q>> ELSE <<>>
<1>1. /\ Inbox(e) # <<>> /\ m.t = "sync" /\ st' = [st EXCEPT ![e] = s]
      /\ e[1] \in Leaves /\ st[e].run = "on" /\ Handle(e, hello \o request)
  BY DEF OnSynchronize, Receives
<1>2. st[e] \in PeerState
  BY DEF TypeOK
<1>3. q.t = "req" /\ q.part = "upgrade"
  BY DEF ReqUpgrade
<1> HIDE DEF m, q, ask
<1>4. s.run = "on" /\ s.upg = upg /\ s.blk = st[e].blk
  BY <1>1, <1>2 DEF PeerState
<1>5. hello \in Seq({Sync(len[n])}) /\ request \in Seq({q})
  <2>1. hello = <<Sync(len[n])>> \/ hello = <<>>
    OBVIOUS
  <2>2. request = <<q>> \/ request = <<>>
    OBVIOUS
  <2> HIDE DEF hello, request
  <2> QED BY <2>1, <2>2, Singles
<1>6. hello \o request \in Seq({Sync(len[n]), q})
  BY <1>5
<1>7. ask => Pending(hello \o request, "req", "upgrade")
  BY <1>3, <1>5, PendingAdded, PendingOne
<1> HIDE DEF hello, request, s
<1>8. PICK r : r = hello \o request
  OBVIOUS
<1>9. r \in Seq({Sync(len[n]), q}) /\ Handle(e, r) /\ (ask => Pending(r, "req", "upgrade"))
  BY <1>1, <1>6, <1>7, <1>8
<1>10. ~(m.t = "data")
  BY <1>1
<1> QED BY <1>1, <1>4, <1>9, <1>10, LeafHandles DEF m

LEMMA RequestWaits ==
  ASSUME TypeOK, WaitInv, NEW e \in Ends, OnRequest(e)
  PROVE  WaitInv'
<1>1. /\ Inbox(e) # <<>> /\ Head(Inbox(e)).t = "req" /\ e[1] \in Leaves
      /\ st[e].run = "on"
      /\ \/ Handle(e, <<Proof(e[1], Head(Inbox(e)))>>) /\ st' = st
         \/ Handle(e, <<NoData>>) /\ st' = st
         \/ Handle(e, <<>>) /\ st' = [st EXCEPT ![e] = Forget(st[e])]
  BY DEF OnRequest, Receives
<1>2. ASSUME NEW m, Handle(e, <<m>>), st' = st PROVE WaitInv'
  <2>1. <<m>> \in Seq({m})
    OBVIOUS
  <2>2. st' = [st EXCEPT ![e] = st[e]]
    BY <1>2 DEF TypeOK
  <2> QED BY <1>1, <1>2, <2>1, <2>2, LeafHandles
<1> QED BY <1>1, <1>2, RefusalWaits

LEMMA ManifestWaits ==
  ASSUME TypeOK, WaitInv, NEW e \in Ends, OnManifest(e)
  PROVE  WaitInv'
<1> DEFINE n == e[1]
           ask == NeedsUpgrade(n, st[e])
           q == ReqUpgrade(len[n], st[e].rlen)
           upg == st[e].upg \/ ask
           s == [st[e] EXCEPT !.upg = upg]
           request == IF ask THEN <<q>> ELSE <<>>
<1>1. /\ Inbox(e) # <<>> /\ Head(Inbox(e)).t = "data" /\ Head(Inbox(e)).part = "manifest"
      /\ e[1] \in Leaves /\ st[e].run = "on" /\ st' = [st EXCEPT ![e] = s]
      /\ Handle(e, request)
  BY DEF OnManifest, ReceivesData, Receives
<1>2. st[e] \in PeerState
  BY DEF TypeOK
<1>3. q.t = "req" /\ q.part = "upgrade"
  BY DEF ReqUpgrade
<1> HIDE DEF q, ask
<1>4. s.run = "on" /\ s.upg = upg /\ s.blk = st[e].blk
  BY <1>1, <1>2 DEF PeerState
<1>5. request \in Seq({q}) /\ (ask => Pending(request, "req", "upgrade"))
  <2>1. CASE ask
    <3>1. request = <<q>>
      BY <2>1
    <3> HIDE DEF request
    <3> QED BY <1>3, <3>1, PendingOne, Singles
  <2>2. CASE ~ask
    <3>1. request = <<>>
      BY <2>2
    <3> HIDE DEF request
    <3> QED BY <2>2, <3>1, Singles
  <2> QED BY <2>1, <2>2
<1> HIDE DEF request, s
<1> QED BY <1>1, <1>4, <1>5, LeafHandles

LEMMA UpgradeWaits ==
  ASSUME TypeOK, WaitInv, NEW e \in Ends, OnUpgrade(e)
  PROVE  WaitInv'
<1> DEFINE n == e[1]
           d == Head(Inbox(e))
           end == d.start + d.length
           sync == Sync(IF len[n] > end THEN len[n] ELSE end)
           fetch == len[n] < st[e].rlen /\ st[e].blk = NoBlock
           q == ReqBlock(len[n], d.head)
           blk == IF fetch THEN len[n] ELSE st[e].blk
           s == [st[e] EXCEPT !.upg = FALSE, !.blk = blk]
           request == IF fetch THEN <<q>> ELSE <<>>
<1>1. /\ Inbox(e) # <<>> /\ d.t = "data" /\ d.part = "upgrade"
      /\ e[1] \in Leaves /\ st[e].run = "on" /\ st' = [st EXCEPT ![e] = s]
      /\ Handle(e, <<sync>> \o request)
  BY DEF OnUpgrade, ReceivesData, Receives
<1>2. st[e] \in PeerState
  BY DEF TypeOK
<1>3. q.t = "req" /\ q.part = "block"
  BY DEF ReqBlock
<1> HIDE DEF q, d, sync, fetch
<1>4. s.run = "on" /\ s.upg = FALSE /\ s.blk = blk
  BY <1>1, <1>2 DEF PeerState
<1>5. <<sync>> \in Seq({sync}) /\ request \in Seq({q})
  <2>1. request = <<q>> \/ request = <<>>
    OBVIOUS
  <2> HIDE DEF request
  <2> QED BY <2>1, Singles
<1>6. <<sync>> \o request \in Seq({sync, q})
  BY <1>5
<1>7. fetch => Pending(<<sync>> \o request, "req", "block")
  BY <1>3, <1>5, PendingAdded, PendingOne
<1> HIDE DEF request, s
<1>8. PICK r : r = <<sync>> \o request
  OBVIOUS
<1>9. r \in Seq({sync, q}) /\ Handle(e, r) /\ (fetch => Pending(r, "req", "block"))
  BY <1>1, <1>6, <1>7, <1>8
<1>10. d.part # "block"
  BY <1>1
<1> QED BY <1>1, <1>4, <1>9, <1>10, LeafHandles DEF d

LEMMA BlockWaits ==
  ASSUME TypeOK, WaitInv, NEW e \in Ends, OnBlock(e)
  PROVE  WaitInv'
<1> DEFINE n == e[1]
           i == Head(Inbox(e)).index
           next == i + 1 < len[n]
           grow == ~next /\ st[e].rlen > len[n]
           b == ReqBlock(i + 1, len[n])
           u == ReqUpgrade(len[n], st[e].rlen)
           blk == IF next THEN i + 1 ELSE NoBlock
           upg == st[e].upg \/ grow
           s == [st[e] EXCEPT !.blk = blk, !.upg = upg]
           request == IF next THEN <<b>> ELSE IF grow THEN <<u>> ELSE <<>>
<1>1. /\ Inbox(e) # <<>> /\ Head(Inbox(e)).t = "data" /\ Head(Inbox(e)).part = "block"
      /\ e[1] \in Leaves /\ st[e].run = "on" /\ st' = [st EXCEPT ![e] = s]
      /\ Handle(e, request)
  BY DEF OnBlock, ReceivesData, Receives
<1>2. st[e] \in PeerState
  BY DEF TypeOK
<1>3. b.t = "req" /\ b.part = "block" /\ u.t = "req" /\ u.part = "upgrade"
  BY DEF ReqBlock, ReqUpgrade
<1>4. grow => ~next
  OBVIOUS
<1> HIDE DEF b, u, next, grow
<1>5. s.run = "on" /\ s.upg = upg /\ s.blk = blk
  BY <1>1, <1>2 DEF PeerState
<1>6. /\ request \in Seq({b, u}) /\ (next => Pending(request, "req", "block"))
      /\ (grow => Pending(request, "req", "upgrade"))
  <2>1. /\ next => request = <<b>>
        /\ grow => request = <<u>>
        /\ request \in {<<b>>, <<u>>, <<>>}
    BY <1>4
  <2> HIDE DEF request
  <2>2. request \in Seq({b, u})
    BY <2>1, Singles
  <2>3. Pending(<<b>>, "req", "block") /\ Pending(<<u>>, "req", "upgrade")
    BY <1>3, PendingOne
  <2> QED BY <2>1, <2>2, <2>3
<1>7. Head(Inbox(e)).part # "upgrade"
  BY <1>1
<1> HIDE DEF request, s
<1> QED BY <1>1, <1>5, <1>6, <1>7, LeafHandles

\* A fault after the data was applied is a refusal to the channel.
LEMMA RefusalsWait ==
  ASSUME TypeOK, WaitInv, NEW e \in Ends,
         OnNoData(e) \/ OnBadData(e) \/ ApplyFails(e) \/ AfterApplyFails(e)
  PROVE  WaitInv'
<1>1. /\ Inbox(e) # <<>> /\ e[1] \in Leaves /\ st[e].run = "on" /\ Handle(e, <<>>)
      /\ st' = [st EXCEPT ![e] = Forget(st[e])]
  BY DEF OnNoData, OnBadData, ApplyFails, AfterApplyFails, ReceivesData, Receives
<1> QED BY <1>1, RefusalWaits

----------------------------------------------------------------------------
\* A lost connection takes the marks with the messages.
LEMMA DisconnectWaits ==
  ASSUME TypeOK, WaitInv, NEW l, Disconnect(l)
  PROVE  WaitInv'
<1>1. NewState("off").upg = FALSE /\ NewState("off").blk = NoBlock
  BY DEF NewState
<1>2. /\ st' = [e \in Ends |-> IF LinkOf(e) = l THEN NewState("off") ELSE st[e]]
      /\ net' = [e \in Ends |-> IF LinkOf(e) = l THEN <<>> ELSE net[e]]
  BY DEF Disconnect
<1>3. \A e \in Ends : st'[e].run = "off" => net'[e] = <<>>
  BY <1>2 DEF WaitInv
<1>4. ASSUME NEW e \in Ends, e[2] = Hub, e[1] \in Leaves PROVE Waits(e)'
  <2>1. CASE LinkOf(e) = l
    BY <1>1, <1>2, <2>1 DEF Waits
  <2>2. CASE LinkOf(e) # l
    <3>1. Flip(e) \in Ends /\ LinkOf(Flip(e)) = LinkOf(e)
      BY EndsType, ChannelAssumption DEF LinkOf, Ends, Flip
    <3>2. st'[e] = st[e] /\ net'[e] = net[e] /\ net'[Flip(e)] = net[Flip(e)]
      BY <1>2, <2>2, <3>1
    <3> QED BY <1>4, <3>2 DEF WaitInv, Waits, Owed
  <2> QED BY <2>1, <2>2
<1> QED BY <1>3, <1>4 DEF WaitInv

\* A channel that starts waits for nothing and has no queue to overwrite.
LEMMA StartWaits ==
  ASSUME TypeOK, WaitInv, NEW e \in Ends, Start(e)
  PROVE  WaitInv'
<1>1. PICK q : net' = [net EXCEPT ![e] = q]
  BY DEF Start
<1>2. /\ st' = [st EXCEPT ![e] = NewState("on")] /\ net[e] = <<>>
      /\ NewState("on").run = "on" /\ NewState("on").upg = FALSE /\ NewState("on").blk = NoBlock
  BY DEF Start, NewState, WaitInv
<1>3. /\ st'[e] = NewState("on") /\ \A x \in Ends \ {e} : st'[x] = st[x] /\ net'[x] = net[x]
  BY <1>1, <1>2 DEF TypeOK
<1>4. \A x \in Ends : st'[x].run = "off" => net'[x] = <<>>
  BY <1>2, <1>3 DEF WaitInv
<1>5. ASSUME NEW x \in Ends, x[2] = Hub, x[1] \in Leaves PROVE Waits(x)'
  <2>1. CASE x = e
    BY <1>2, <1>3, <2>1 DEF Waits
  <2>2. CASE x # e
    <3>1. st'[x] = st[x] /\ net'[x] = net[x] /\ Flip(x) \in Ends
      BY <1>3, <2>2, EndsType
    <3>2. ASSUME NEW part, Pending(net[Flip(x)], "data", part)
          PROVE  net'[Flip(x)] = net[Flip(x)]
      BY <1>2, <1>3, <3>1, <3>2 DEF Pending
    <3> QED BY <1>5, <3>1, <3>2 DEF WaitInv, Waits, Owed
  <2> QED BY <2>1, <2>2
<1> QED BY <1>4, <1>5 DEF WaitInv

LEMMA ResyncWaits ==
  ASSUME TypeOK, WaitInv, NEW e \in Ends, Resync(e)
  PROVE  WaitInv'
<1>1. st[e] \in PeerState /\ net[e] \in Seq(Messages) /\ st[e].run = "on" /\ e[1] \in Leaves
  BY DEF TypeOK, Resync, CanTick
<1>2. PICK m, s :
        /\ net' = [net EXCEPT ![e] = Append(net[e], m)] /\ st' = [st EXCEPT ![e] = s]
        /\ s.run = "on" /\ m.t = "req"
        /\ \/ m.part = "upgrade" /\ s.blk = st[e].blk
           \/ m.part = "block" /\ s.upg = st[e].upg
  <2>1. CASE /\ st' = [st EXCEPT ![e].upg = TRUE]
             /\ net' = [net EXCEPT ![e] = Append(@, ReqUpgrade(len[e[1]], st[e].rlen))]
    <3>1. PICK s : s = [st[e] EXCEPT !.upg = TRUE]
      OBVIOUS
    <3>2. PICK m : m = ReqUpgrade(len[e[1]], st[e].rlen)
      OBVIOUS
    <3>3. m.t = "req" /\ m.part = "upgrade"
      BY <3>2 DEF ReqUpgrade
    <3>4. s.run = "on" /\ s.blk = st[e].blk
      BY <1>1, <3>1 DEF PeerState
    <3>5. st' = [st EXCEPT ![e] = s] /\ net' = [net EXCEPT ![e] = Append(net[e], m)]
      BY <2>1, <3>1, <3>2
    <3> QED BY <3>3, <3>4, <3>5
  <2>2. ASSUME NEW c, st' = [st EXCEPT ![e].blk = c],
               net' = [net EXCEPT ![e] = Append(@, ReqBlock(c, len[e[1]]))]
        PROVE  \E m, s :
                 /\ net' = [net EXCEPT ![e] = Append(net[e], m)] /\ st' = [st EXCEPT ![e] = s]
                 /\ s.run = "on" /\ m.t = "req" /\ m.part = "block" /\ s.upg = st[e].upg
    <3>1. PICK s : s = [st[e] EXCEPT !.blk = c]
      OBVIOUS
    <3>2. PICK m : m = ReqBlock(c, len[e[1]])
      OBVIOUS
    <3>3. m.t = "req" /\ m.part = "block"
      BY <3>2 DEF ReqBlock
    <3>4. s.run = "on" /\ s.upg = st[e].upg
      BY <1>1, <3>1 DEF PeerState
    <3>5. st' = [st EXCEPT ![e] = s] /\ net' = [net EXCEPT ![e] = Append(net[e], m)]
      BY <2>2, <3>1, <3>2
    <3> QED BY <3>3, <3>4, <3>5
  <2> QED BY <2>1, <2>2 DEF Resync
<1>3. /\ st'[e] = s /\ net'[e] = net[e] \o <<m>> /\ <<m>> \in Seq({m})
      /\ \A x \in Ends \ {e} : st'[x] = st[x] /\ net'[x] = net[x]
  BY <1>1, <1>2 DEF TypeOK
<1>4. \A x \in Ends : st'[x].run = "off" => net'[x] = <<>>
  BY <1>2, <1>3 DEF WaitInv
<1>5. ASSUME NEW x \in Ends, x[2] = Hub, x[1] \in Leaves PROVE Waits(x)'
  <2>1. Flip(x) # e /\ Flip(x) \in Ends /\ net'[Flip(x)] = net[Flip(x)] /\ Waits(x)
    BY <1>1, <1>3, <1>5, EndsType, ChannelAssumption DEF WaitInv
  <2>2. CASE x # e
    BY <1>3, <2>1, <2>2 DEF Waits, Owed
  <2>3. CASE x = e
    <3>1. ASSUME NEW part, Owed(e, part) PROVE Owed(e, part)'
      BY <1>1, <1>3, <2>1, <2>3, <3>1, PendingAdded DEF Owed
    <3>2. Pending(<<m>>, "req", m.part)
      BY <1>2, PendingOne
    <3>3. Pending(net'[e], "req", m.part)
      BY <1>1, <1>3, <3>2, PendingAdded
    <3>4. Owed(e, m.part)'
      BY <3>3 DEF Owed
    <3> QED BY <1>2, <1>3, <2>1, <2>3, <3>1, <3>4 DEF Waits
  <2> QED BY <2>2, <2>3
<1> QED BY <1>4, <1>5 DEF WaitInv

\* The hub turns a request it takes into the answer it sends.
LEMMA HubReceiveWaits ==
  ASSUME TypeOK, WaitInv, NEW f \in Ends, HubReceive(f)
  PROVE  WaitInv'
<1> DEFINE m == Head(Inbox(f))
           replies == IF m.t # "req" THEN <<>>
                      ELSE IF m.part = "manifest" /\ ~man[Hub] THEN <<NoData>>
                      ELSE <<Proof(Hub, m)>>
<1>1. /\ f[1] = Hub /\ st[f].run = "on" /\ Inbox(f) # <<>> /\ Handle(f, replies) /\ st' = st
  BY DEF HubReceive
<1>2. /\ net'[f] = net[f] \o replies /\ net'[Flip(f)] = Tail(net[Flip(f)])
      /\ \A x \in Ends \ {f, Flip(f)} : net'[x] = net[x]
      /\ net[f] \in Seq(Messages) /\ net[Flip(f)] \in Seq(Messages) /\ net[Flip(f)] # <<>>
  <2> HIDE DEF replies
  <2> QED BY <1>1, HandleMoves
<1>3. ASSUME NEW x \in Ends, st'[x].run = "off" PROVE net'[x] = <<>>
  <2>1. net[x] = <<>> /\ x # f /\ x # Flip(f)
    BY <1>1, <1>2, <1>3 DEF WaitInv
  <2> QED BY <1>2, <2>1
<1>4. replies \in Seq({NoData, Proof(Hub, m)})
  <2>1. replies \in {<<>>, <<NoData>>, <<Proof(Hub, m)>>}
    OBVIOUS
  <2> HIDE DEF replies
  <2> QED BY <2>1, Singles
<1>5. ASSUME NEW part \in {"upgrade", "block"}, m.t = "req", m.part = part
      PROVE  Pending(replies, "data", part)
  <2>1. Proof(Hub, m).t = "data" /\ Proof(Hub, m).part = part
    BY <1>5 DEF Proof
  <2>2. replies = <<Proof(Hub, m)>>
    BY <1>5
  <2> QED BY <2>1, <2>2, PendingOne
<1> HIDE DEF replies
<1>6. ASSUME NEW x \in Ends, x[2] = Hub, x[1] \in Leaves, NEW part \in {"upgrade", "block"},
             Owed(x, part)
      PROVE  Owed(x, part)'
  <2>1. x # f /\ Flip(x) \in Ends
    BY <1>1, <1>6, EndsType, ChannelAssumption
  <2>2. CASE x # Flip(f)
    <3>1. Flip(x) # f /\ Flip(x) # Flip(f)
      BY <2>1, <2>2, EndsType, Apart
    <3> QED BY <1>2, <1>6, <2>1, <2>2, <3>1 DEF Owed
  <2>3. CASE x = Flip(f)
    <3>1. Flip(x) = f
      BY <2>3, EndsType
    <3>2. CASE Pending(net[f], "data", part) \/ Pending(replies, "data", part)
      <4>1. Pending(net'[f], "data", part)
        BY <1>2, <1>4, <3>2, PendingAdded
      <4> QED BY <3>1, <4>1 DEF Owed
    <3>3. CASE Pending(net[x], "req", part) /\ ~Pending(replies, "data", part)
      <4>1. ~(Head(net[x]).t = "req" /\ Head(net[x]).part = part)
        BY <1>5, <2>3, <3>3 DEF Inbox
      <4>2. Pending(Tail(net[x]), "req", part)
        BY <1>2, <2>3, <3>3, <4>1, PendingTaken
      <4> QED BY <1>2, <2>3, <4>2 DEF Owed
    <3> QED BY <1>6, <3>1, <3>2, <3>3 DEF Owed
  <2> QED BY <2>2, <2>3
<1>7. \A x \in Ends : x[2] = Hub /\ x[1] \in Leaves => Waits(x)'
  BY <1>1, <1>6 DEF WaitInv, Waits
<1> QED BY <1>3, <1>7 DEF WaitInv

LEMMA HubAppendWaits ==
  ASSUME TypeOK, WaitInv, HubAppend
  PROVE  WaitInv'
<1> DEFINE now == Sync(len[Hub] + 1)
<1>1. st' = st /\ net' = [e \in Ends |-> IF e[1] = Hub /\ st[e].run = "on"
                                         THEN Append(net[e], now) ELSE net[e]]
  BY DEF HubAppend
<1>2. \A x \in Ends : net[x] \in Seq(Messages)
  BY DEF TypeOK
<1> HIDE DEF now
<1>3. \A x \in Ends : st'[x].run = "off" => net'[x] = <<>>
  BY <1>1 DEF WaitInv
<1>4. ASSUME NEW x \in Ends, NEW t, NEW part, Pending(net[x], t, part)
      PROVE  Pending(net'[x], t, part)
  <2>1. net'[x] = net[x] \/ net'[x] = net[x] \o <<now>>
    BY <1>1, <1>2
  <2>2. <<now>> \in Seq({now})
    OBVIOUS
  <2> QED BY <1>2, <1>4, <2>1, <2>2, PendingAdded
<1>5. ASSUME NEW x \in Ends, x[2] = Hub, x[1] \in Leaves PROVE Waits(x)'
  <2>1. Flip(x) \in Ends /\ Waits(x)
    BY <1>5, EndsType DEF WaitInv
  <2>2. ASSUME NEW part, Owed(x, part) PROVE Owed(x, part)'
    BY <1>4, <2>1, <2>2 DEF Owed
  <2> QED BY <1>1, <2>1, <2>2 DEF Waits
<1> QED BY <1>3, <1>5 DEF WaitInv

----------------------------------------------------------------------------
(* The invariant.                                                          *)

LEMMA WaitInit == Init => WaitInv
<1> SUFFICES ASSUME Init PROVE WaitInv
  OBVIOUS
<1>1. st = [e \in Ends |-> NewState("off")] /\ net = [e \in Ends |-> <<>>]
  BY DEF Init
<1>2. NewState("off").upg = FALSE /\ NewState("off").blk = NoBlock
  BY DEF NewState
<1> QED BY <1>1, <1>2 DEF WaitInv, Waits

LEMMA WaitNext == TypeOK /\ WaitInv /\ [Next]_vars => WaitInv'
<1> SUFFICES ASSUME TypeOK, WaitInv, [Next]_vars PROVE WaitInv'
  OBVIOUS
<1>1. CASE HubAppend
  BY <1>1, HubAppendWaits
<1>2. ASSUME UNCHANGED <<st, net>> PROVE WaitInv'
  BY <1>2 DEF WaitInv, Waits, Owed
<1>3. ASSUME NEW l \in Links, Dial(l) \/ Drop(l) \/ IdleDisconnect(l) PROVE WaitInv'
  BY <1>2, <1>3, DisconnectWaits DEF Dial, Drop, IdleDisconnect
<1>4. ASSUME NEW e \in Ends, Start(e) \/ Resync(e) \/ HubReceive(e) PROVE WaitInv'
  BY <1>4, StartWaits, ResyncWaits, HubReceiveWaits
<1>5. ASSUME NEW e \in Ends, OnDeadChannel(e) PROVE WaitInv'
  BY <1>5, DisconnectWaits DEF OnDeadChannel
<1>6. ASSUME NEW e \in Ends, OnMessage(e) PROVE WaitInv'
  BY <1>5, <1>6, SynchronizeWaits, RequestWaits, RefusalsWait, ManifestWaits,
     UpgradeWaits, BlockWaits DEF OnMessage
<1>7. ASSUME NEW e \in Ends, TickFails(e) PROVE WaitInv'
  <2>1. /\ st' = [st EXCEPT ![e].run = "dead"] /\ net' = net /\ st[e] \in PeerState
    BY <1>7 DEF TickFails, TypeOK
  <2>2. /\ st'[e].run = "dead" /\ st'[e].upg = st[e].upg /\ st'[e].blk = st[e].blk
        /\ \A x \in Ends \ {e} : st'[x] = st[x]
    BY <2>1 DEF TypeOK, PeerState
  <2>3. \A x \in Ends : st'[x].run = "off" => net'[x] = <<>>
    BY <2>1, <2>2 DEF WaitInv
  <2>4. \A x \in Ends : Waits(x) => Waits(x)'
    BY <2>1, <2>2 DEF Waits, Owed
  <2> QED BY <2>3, <2>4 DEF WaitInv
<1>8. ASSUME NEW e \in Ends, Faults(e) PROVE WaitInv'
  BY <1>7, <1>8, RefusalsWait DEF Faults
<1>9. CASE UNCHANGED vars
  BY <1>2, <1>9 DEF vars
<1> QED BY <1>1, <1>3, <1>4, <1>6, <1>8, <1>9 DEF Next

\* An answer that is owed counts as outstanding.
LEMMA OwedCounts ==
  ASSUME TypeOK, NEW e \in Ends, NEW part, Owed(e, part)
  PROVE  Outstanding(e, part) > 0
<1>1. net[e] \in Seq(Messages) /\ Inbox(e) \in Seq(Messages) /\ Inbox(e) = net[Flip(e)]
  BY EndsType DEF TypeOK, Inbox
<1>2. /\ Asked(e, part) \subseteq 1..Len(net[e]) /\ Answered(e, part) \subseteq 1..Len(Inbox(e))
      /\ Len(net[e]) \in Nat /\ Len(Inbox(e)) \in Nat
  BY <1>1 DEF Asked, Answered
<1>3. IsFiniteSet(Asked(e, part)) /\ IsFiniteSet(Answered(e, part))
  <2>1. ASSUME NEW k \in Nat, NEW S \in SUBSET (1..k) PROVE IsFiniteSet(S)
    <3>1. IsFiniteSet(1..k)
      BY FS_Interval
    <3> QED BY <3>1, FS_Subset
  <2> QED BY <1>2, <2>1
<1>4. Cardinality(Asked(e, part)) \in Nat /\ Cardinality(Answered(e, part)) \in Nat
  BY <1>3, FS_CardinalityType
<1>5. Asked(e, part) # {} \/ Answered(e, part) # {}
  BY <1>1 DEF Owed, Pending, Asked, Answered
<1>6. Cardinality(Asked(e, part)) # 0 \/ Cardinality(Answered(e, part)) # 0
  BY <1>3, <1>5, FS_EmptySet
<1> QED BY <1>4, <1>6 DEF Outstanding

\* For any topology and any failures a channel towards the hub that has marked
\* a request as in flight is owed its answer, so the mark never blocks the
\* channel for good (mirror.rs 516-549 and 660-745).
THEOREM NeverWaitsInVain == Spec => []NoDeadWait
<1>1. Spec => []WaitInv
  BY Typing, WaitInit, WaitNext, PTL DEF Spec
<1>2. TypeOK /\ WaitInv => NoDeadWait
  BY OwedCounts DEF WaitInv, Waits, NoDeadWait
<1> QED BY <1>1, <1>2, Typing, PTL
=============================================================================
