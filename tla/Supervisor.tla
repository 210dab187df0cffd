----------------------------- MODULE Supervisor -----------------------------
(***************************************************************************)
(* The normal path of an ESP32 leaf as far as the network is concerned:    *)
(* the WiFi supervisor on the main thread (main.rs 286-412) and the dial   *)
(* loops of the leaf thread (main.rs 505-571).  They share the driver's    *)
(* state (wifi) and the flag hub_reachable, and nothing else orders them.  *)
(*                                                                         *)
(* Time is kept in guards.  A connection that has heard nothing for 16 s   *)
(* ends, the loop pauses 3 s and dials again; so within the grace period   *)
(* of 25 s every loop whose connection is dead has dialed again, and a     *)
(* dial that could succeed has (GraceEnds).  A connection that is still    *)
(* alive when WiFi comes back on the same network goes on.                 *)
(***************************************************************************)
EXTENDS Integers, Sequences, FiniteSets, SequencesExt

CONSTANTS
  Networks,    \* the configured networks, a sequence in the order of the configuration
  Addrs,       \* the hub addresses dialed
  NoNet,       \* no network joined
  Turns,       \* bound of `rotate`, which is used modulo the number of candidates only
  MaxUpsets    \* bound: changes of the surroundings, failing calls of the driver

Nets == ToSet(Networks)

ASSUME SupervisorAssumption ==
  /\ Networks \in Seq(Nets) /\ Networks # <<>> /\ IsInjective(Networks)
  /\ NoNet \notin Nets
  /\ Turns \in Nat \ {0} /\ \A k \in 1..Len(Networks) : Turns % k = 0
  /\ MaxUpsets \in Nat

VARIABLES
  \* the environment
  air,      \* air[n]: "off", "seen" (in the scan, can be joined), "locked" (seen, refuses us)
  signal,   \* the networks by falling strength
  answers,  \* <<address, network>>: the hub there answers through that network
  \* the supervisor
  sup,      \* "scan", "try", "joined", "grace", "leaving", "hold", "ended"
  order,    \* what connect_known_network still has to try
  rotate,   \* its argument
  wifi,     \* the network joined, or NoNet
  \* the leaf thread
  hubReachable,
  conn,     \* conn[a]: the network the connection to a was made on, or NoNet
  foundOn,  \* the network the last connection was made on (history)
  late,     \* addresses that began to answer after the network was joined (history)
  upsets    \* how much of the bound is used

environment == <<air, signal, answers>>
leafThread == <<hubReachable, conn, foundOn>>
supervisorVars == <<air, signal, answers, sup, order, rotate, wifi, hubReachable, conn,
  foundOn, late, upsets>>

\* A hub's answer gets through to a.
Reaches(a, n) == n # NoNet /\ <<a, n>> \in answers
\* The connection to a is on the network that is joined, and its hub answers there.
Alive(a) == conn[a] # NoNet /\ conn[a] = wifi /\ Reaches(a, wifi)
Orders == {s \in [1..Len(Networks) -> Nets] : IsInjective(s)}

SupervisorInit ==
  /\ air \in [Nets -> {"off", "seen", "locked"}]
  /\ signal \in Orders
  /\ answers \in SUBSET (Addrs \X Nets)
  /\ sup = "scan" /\ order = <<>> /\ rotate = 0 /\ wifi = NoNet
  /\ hubReachable = FALSE
  /\ conn = [a \in Addrs |-> NoNet] /\ foundOn = NoNet /\ late = {}
  /\ upsets = 0

Upset == upsets < MaxUpsets /\ upsets' = upsets + 1

(***************************************************************************)
(* connect_known_network                                                   *)
(***************************************************************************)
\* A mutant: always the strongest first.
Unrotated(s) == s
Rotated(s) == [i \in 1..Len(s) |-> s[1 + ((i - 1 + rotate) % Len(s))]]
\* The networks of a scan, strongest first: among the i strongest, and all.
Found[i \in 0..Len(signal)] ==
  CASE i = 0 -> <<>>
    [] i > 0 /\ air[signal[i]] = "off" -> Found[i - 1]
    [] OTHER -> Append(Found[i - 1], signal[i])
InSight == Found[Len(signal)]

\* A scan that fails has the result of one that finds no known network.
Scan ==
  /\ sup = "scan"
  /\ \/ order' = Rotated(IF InSight = <<>> THEN Networks ELSE InSight) /\ UNCHANGED upsets
     \/ order' = Rotated(Networks) /\ Upset
  /\ sup' = "try"
  /\ UNCHANGED <<environment, rotate, wifi, leafThread, late>>

Joined(n) ==
  /\ wifi' = n /\ late' = {}
  /\ sup' = "joined" /\ order' = <<>>

\* The next network: to the next one after a failure.
Join ==
  /\ sup = "try" /\ order # <<>>
  /\ \/ air[Head(order)] = "seen" /\ Joined(Head(order)) /\ UNCHANGED upsets
     \/ /\ \/ air[Head(order)] # "seen" /\ UNCHANGED upsets
           \/ air[Head(order)] = "seen" /\ Upset
        /\ order' = Tail(order)
        /\ UNCHANGED <<sup, wifi, late>>
  /\ UNCHANGED <<environment, rotate, leafThread>>

\* A name or password does not fit into the driver's fields, or get_ip_info
\* fails after the network was joined: the ? ends main, with it this loop, and
\* the driver main owns, which leaves the network again.
SupervisorEnds ==
  /\ sup = "try" /\ order # <<>> /\ Upset
  /\ sup' = "ended" /\ order' = <<>> /\ wifi' = NoNet
  /\ UNCHANGED <<environment, rotate, leafThread, late>>

\* None joined: sleep 10 s and scan again.
NoneJoined ==
  /\ sup = "try" /\ order = <<>>
  /\ sup' = "scan"
  /\ UNCHANGED <<environment, order, rotate, wifi, leafThread, late, upsets>>

(***************************************************************************)
(* the supervisor loop of main                                             *)
(***************************************************************************)
\* A mutant: the flag of the network before is kept.
KeepFlag == UNCHANGED hubReachable
ResetFlag == hubReachable' = FALSE

EnterGrace ==
  /\ sup = "joined"
  /\ ResetFlag
  /\ sup' = "grace"
  /\ UNCHANGED <<environment, order, rotate, wifi, conn, foundOn, late, upsets>>

SeesHub ==
  /\ sup = "grace" /\ hubReachable
  /\ sup' = "hold"
  /\ UNCHANGED <<environment, order, rotate, wifi, leafThread, late, upsets>>

\* 25 s are over: connections that are dead have ended, and every loop
\* without one has dialed in vain.
GraceEnds ==
  \A a \in Addrs : Alive(a) \/ (conn[a] = NoNet /\ (Reaches(a, wifi) => a \in late))

\* The last look at the flag: no hub within the grace period, or WiFi lost
\* before one was seen.
GiveUp ==
  /\ sup = "grace" /\ ~hubReachable
  /\ wifi = NoNet \/ GraceEnds
  /\ sup' = "leaving"
  /\ UNCHANGED <<environment, order, rotate, wifi, leafThread, late, upsets>>

LeaveNetwork ==
  /\ sup = "leaving"
  /\ wifi' = NoNet
  /\ rotate' = (rotate + 1) % Turns
  /\ sup' = "scan"
  /\ UNCHANGED <<environment, order, leafThread, late, upsets>>

\* Holding: every 10 s a look at WiFi, none at the hub.
NoticesDrop ==
  /\ sup = "hold" /\ wifi = NoNet
  /\ sup' = "scan"
  /\ UNCHANGED <<environment, order, rotate, wifi, leafThread, late, upsets>>

SupervisorStep ==
  \/ Scan \/ Join \/ SupervisorEnds \/ NoneJoined
  \/ EnterGrace \/ SeesHub \/ GiveUp \/ LeaveNetwork \/ NoticesDrop

(***************************************************************************)
(* the leaf thread: one connection_loop per address                        *)
(***************************************************************************)
\* async_connect succeeds; when it fails the loop only waits.  Nothing is awaited
\* between the connect and the store to the flag: they are one step, on the
\* assumption that the thread is not held up there for the seconds that it
\* takes the supervisor to scan and to join another network.
Dial(a) ==
  /\ conn[a] = NoNet /\ Reaches(a, wifi)
  /\ conn' = [conn EXCEPT ![a] = wifi]
  /\ hubReachable' = TRUE /\ foundOn' = wifi
  /\ UNCHANGED <<environment, sup, order, rotate, wifi, late, upsets>>

\* run_connection returns: the other side is silent or gone, or cores were learned.
ConnectionEnds(a) ==
  /\ conn[a] # NoNet
  /\ conn' = [conn EXCEPT ![a] = NoNet]
  /\ UNCHANGED <<environment, sup, order, rotate, wifi, hubReachable, foundOn, late, upsets>>

(***************************************************************************)
(* the environment                                                         *)
(***************************************************************************)
AirChanges(n, v) ==
  /\ Upset
  /\ v # air[n] /\ air' = [air EXCEPT ![n] = v]
  /\ wifi' = IF wifi = n /\ v # "seen" THEN NoNet ELSE wifi
  /\ UNCHANGED <<signal, answers, sup, order, rotate, leafThread, late>>

SignalChanges(s) ==
  /\ Upset
  /\ s # signal /\ signal' = s
  /\ UNCHANGED <<air, answers, sup, order, rotate, wifi, leafThread, late>>

\* WiFi drops while its access point stays.
WifiDrops ==
  /\ wifi # NoNet /\ wifi' = NoNet /\ Upset
  /\ UNCHANGED <<environment, sup, order, rotate, leafThread, late>>

HubMoves(a, n) ==
  /\ Upset
  /\ IF <<a, n>> \in answers
       THEN answers' = answers \ {<<a, n>>} /\ late' = late \ {a}
       ELSE answers' = answers \cup {<<a, n>>} /\ late' = late \cup {a}
  /\ UNCHANGED <<air, signal, sup, order, rotate, wifi, leafThread>>

LeafThread == \E a \in Addrs : Dial(a) \/ ConnectionEnds(a)
Environment ==
  \/ \E n \in Nets : \/ \E v \in {"off", "seen", "locked"} : AirChanges(n, v)
                     \/ \E a \in Addrs : HubMoves(a, n)
  \/ \E s \in Orders : SignalChanges(s)
  \/ WifiDrops

SupervisorNext == SupervisorStep \/ LeafThread \/ Environment

SupervisorSpec == SupervisorInit /\ [][SupervisorNext]_supervisorVars

-----------------------------------------------------------------------------
(* The types of the variables. *)
SupervisorTypeOK ==
  /\ air \in [Nets -> {"off", "seen", "locked"}] /\ signal \in Orders
  /\ answers \subseteq Addrs \X Nets
  /\ sup \in {"scan", "try", "joined", "grace", "leaving", "hold", "ended"}
  /\ order \in Seq(Nets) /\ rotate \in 0..(Turns - 1)
  /\ wifi \in Nets \cup {NoNet}
  /\ hubReachable \in BOOLEAN
  /\ conn \in [Addrs -> Nets \cup {NoNet}]
  /\ foundOn \in Nets \cup {NoNet} /\ late \subseteq Addrs
  /\ upsets \in 0..MaxUpsets

Served == \E a \in Addrs : Alive(a)
\* The supervisor runs, and a hub answers on a network it sees and can join.
HubInSight ==
  sup # "ended" /\ \E n \in Nets : air[n] = "seen" /\ \E a \in Addrs : Reaches(a, n)

\* The network is held, but its hubs have stopped answering.
HeldInVain ==
  sup = "hold" /\ wifi # NoNet /\ \A a \in Addrs : ~Reaches(a, wifi)

(* The flag is shared and set by another thread, but a network is held     *)
(* only if a hub was reached on that network, not on an earlier one        *)
(* (main.rs 240-243 and 293).                                              *)
HoldEarned == sup = "hold" /\ wifi # NoNet => foundOn = wifi
=============================================================================
