---------------------------- MODULE GatewayProofs ----------------------------
(* What holds at the gateways for any number of sockets, nodes, events,         *)
(* partners and clients: which node a charger is addressed on (ChargerPresence),*)
(* what redelivery and reordering on the event bus do (EventDelivery), and what *)
(* the API gateway's tokens and rate limit promise (ApiGateway).  Each part     *)
(* states its inductive invariant, shows that every action keeps it, and ends   *)
(* with its theorems.                                                           *)
EXTENDS ChargerPresence, EventDelivery, ApiGateway, SetSums, TLAPS

-----------------------------------------------------------------------------
(* ChargerPresence *)

\* A socket between its handshake and the end of its close handler.
Up(c) == Serving(c) \/ Leaving(c)

\* A socket that has passed its handshake is on a node.
UpIsPlaced == \A c \in Conns : Up(c) => node[c] \in Nodes

\* What a node registered has got past websocket.accept.
NewestWasAccepted ==
    \A n \in Nodes : newest[n] # NoConn => pc[newest[n]] \notin {"unused", "accepted"}

\* An online record expires two intervals after it was written.
OnlineExpires == presence.status = "online" => presence.age + presence.ttl = TTL /\ presence.ttl >= 1

\* While nothing interferes, one socket at most is up, it finds its own record
\* or none, and what it writes back is its own node.
OneAtATime ==
    /\ pc[Sweeper] = "idle"
    /\ \A c, d \in Conns : Up(c) /\ Up(d) => c = d
    /\ \A c \in Conns : Serving(c) /\ presence # Absent => presence.status = "online" /\ presence.node = node[c]
    /\ \A c \in Conns : pc[c] = "refreshing" => copy[c] = node[c]

CpInv ==
    /\ CpTypeOK /\ UpIsPlaced /\ NewestWasAccepted /\ RegistryHoldsNewest /\ OnlineExpires
    /\ (~contended => OneAtATime)

LEMMA AbsentFields ==
    /\ Absent \in Records
    /\ Absent.status = "absent" /\ Absent.node = "unset" /\ Absent.age = 0 /\ Absent.ttl = 0
  <1>1. TTL \in Nat /\ MaxAge \in Nat
    BY PresenceAssumption DEF TTL, MaxAge
  <1>2. 0 \in 0..MaxAge
    BY <1>1
  <1> QED
    BY <1>2 DEF Absent, Records

LEMMA OnlineFields ==
    ASSUME NEW n \in Nodes \cup {"unset"}
    PROVE  /\ OnlineRecord(n) \in Records
           /\ OnlineRecord(n).status = "online" /\ OnlineRecord(n).node = n
           /\ OnlineRecord(n).age = 0 /\ OnlineRecord(n).ttl = TTL
           /\ TTL \in Nat /\ TTL >= 2 /\ OnlineRecord(n) # Absent
  <1>1. TTL \in Nat /\ MaxAge \in Nat /\ TTL >= 2 /\ TTL <= MaxAge
    BY PresenceAssumption DEF TTL, MaxAge
  <1>2. 0 \in 0..MaxAge /\ TTL \in 0..MaxAge
    BY <1>1
  <1> QED
    BY <1>1, <1>2, AbsentFields DEF OnlineRecord, Records

LEMMA CpInvInit == CpInit => CpInv
  <1> SUFFICES ASSUME CpInit PROVE CpInv
    OBVIOUS
  <1>1. CpTypeOK
    BY AbsentFields DEF CpInit, CpTypeOK, Actors
  <1>2. pc[Sweeper] = "idle" /\ \A c \in Conns : pc[c] = "unused"
    BY PresenceAssumption DEF CpInit, Actors
  <1>3. UpIsPlaced /\ NewestWasAccepted /\ RegistryHoldsNewest
    BY <1>2 DEF CpInit, UpIsPlaced, NewestWasAccepted, RegistryHoldsNewest, Up, Serving, Leaving
  <1>4. OnlineExpires
    BY AbsentFields DEF CpInit, OnlineExpires
  <1>5. OneAtATime
    BY <1>2 DEF OneAtATime, Up, Serving, Leaving
  <1> QED
    BY <1>1, <1>3, <1>4, <1>5 DEF CpInv

LEMMA CpHandshake ==
    ASSUME CpInv, NEW c \in Conns, NEW n \in Nodes, Handshake(c, n) PROVE CpInv'
  <1> USE DEF CpInv, CpTypeOK
  <1>7. contended' \in BOOLEAN
    BY DEF Handshake
  <1>8. ~contended' => ~contended /\ \A d \in Conns : ~Up(d)
    BY DEF Handshake, Up
  <1>1. CpTypeOK'
    BY PresenceAssumption, AbsentFields, OnlineFields, <1>7, <1>8 DEF Actors, Handshake
  <1>2. UpIsPlaced'
    BY PresenceAssumption, <1>7, <1>8 DEF UpIsPlaced, Up, Serving, Leaving, Actors, Handshake
  <1>3. NewestWasAccepted'
    BY PresenceAssumption, <1>7, <1>8 DEF NewestWasAccepted, UpIsPlaced, Up, Serving, Leaving, Actors, Handshake
  <1>4. RegistryHoldsNewest'
    BY PresenceAssumption, <1>7, <1>8 DEF RegistryHoldsNewest, NewestWasAccepted, UpIsPlaced, Up, Serving, Leaving, Actors, Handshake
  <1>5. OnlineExpires'
    BY AbsentFields, OnlineFields, <1>7, <1>8 DEF OnlineExpires, Handshake
  <1>6. ~contended' => OneAtATime'
    BY PresenceAssumption, AbsentFields, OnlineFields, <1>7, <1>8 DEF OneAtATime, UpIsPlaced, Up, Serving, Leaving, Actors, Handshake
  <1> QED
    BY <1>1, <1>2, <1>3, <1>4, <1>5, <1>6

LEMMA CpRefused ==
    ASSUME CpInv, NEW c \in Conns, HandshakeRefused(c) \/ AcceptFails(c) PROVE CpInv'
  <1> USE DEF CpInv, CpTypeOK
  <1>1. CpTypeOK'
    BY PresenceAssumption, AbsentFields, OnlineFields DEF Actors, HandshakeRefused, AcceptFails
  <1>2. UpIsPlaced'
    BY PresenceAssumption DEF UpIsPlaced, Up, Serving, Leaving, Actors, HandshakeRefused, AcceptFails
  <1>3. NewestWasAccepted'
    BY PresenceAssumption DEF NewestWasAccepted, UpIsPlaced, Up, Serving, Leaving, Actors, HandshakeRefused, AcceptFails
  <1>4. RegistryHoldsNewest'
    BY PresenceAssumption DEF RegistryHoldsNewest, NewestWasAccepted, UpIsPlaced, Up, Serving, Leaving, Actors, HandshakeRefused, AcceptFails
  <1>5. OnlineExpires'
    BY AbsentFields, OnlineFields DEF OnlineExpires, HandshakeRefused, AcceptFails
  <1>6. ~contended' => OneAtATime'
    BY PresenceAssumption, AbsentFields, OnlineFields DEF OneAtATime, UpIsPlaced, Up, Serving, Leaving, Actors, HandshakeRefused, AcceptFails
  <1> QED
    BY <1>1, <1>2, <1>3, <1>4, <1>5, <1>6

LEMMA CpRegister ==
    ASSUME CpInv, NEW c \in Conns, Register(c) PROVE CpInv'
  <1> USE DEF CpInv, CpTypeOK
  <1>1. CpTypeOK'
    BY PresenceAssumption, AbsentFields, OnlineFields DEF Actors, Register
  <1>2. UpIsPlaced'
    BY PresenceAssumption DEF UpIsPlaced, Up, Serving, Leaving, Actors, Register
  <1>3. NewestWasAccepted'
    BY PresenceAssumption DEF NewestWasAccepted, UpIsPlaced, Up, Serving, Leaving, Actors, Register
  <1>4. RegistryHoldsNewest'
    BY PresenceAssumption DEF RegistryHoldsNewest, NewestWasAccepted, UpIsPlaced, Up, Serving, Leaving, Actors, Register
  <1>5. OnlineExpires'
    BY AbsentFields, OnlineFields DEF OnlineExpires, Register
  <1>6. ~contended' => OneAtATime'
    BY PresenceAssumption, AbsentFields, OnlineFields DEF OneAtATime, UpIsPlaced, Up, Serving, Leaving, Actors, Register
  <1> QED
    BY <1>1, <1>2, <1>3, <1>4, <1>5, <1>6

LEMMA CpFrame ==
    ASSUME CpInv, NEW c \in Conns, Frame(c) PROVE CpInv'
  <1> USE DEF CpInv, CpTypeOK
  <1>7. presence.node \in Nodes \cup {"unset"}
    BY DEF Records
  <1>1. CpTypeOK'
    BY PresenceAssumption, AbsentFields, OnlineFields, <1>7 DEF Actors, Frame
  <1>2. UpIsPlaced'
    BY PresenceAssumption, <1>7 DEF UpIsPlaced, Up, Serving, Leaving, Actors, Frame
  <1>3. NewestWasAccepted'
    BY PresenceAssumption, <1>7 DEF NewestWasAccepted, UpIsPlaced, Up, Serving, Leaving, Actors, Frame
  <1>4. RegistryHoldsNewest'
    BY PresenceAssumption, <1>7 DEF RegistryHoldsNewest, NewestWasAccepted, UpIsPlaced, Up, Serving, Leaving, Actors, Frame
  <1>5. OnlineExpires'
    BY AbsentFields, OnlineFields, <1>7 DEF OnlineExpires, Frame
  <1>6. ~contended' => OneAtATime'
    BY PresenceAssumption, AbsentFields, OnlineFields, <1>7 DEF OneAtATime, UpIsPlaced, Up, Serving, Leaving, Actors, Frame
  <1> QED
    BY <1>1, <1>2, <1>3, <1>4, <1>5, <1>6

LEMMA CpRefresh ==
    ASSUME CpInv, NEW c \in Conns, RefreshSet(c) PROVE CpInv'
  <1> USE DEF CpInv, CpTypeOK
  <1>7. copy[c] \in Nodes \cup {"unset"}
    BY DEF Actors
  <1>1. CpTypeOK'
    BY PresenceAssumption, AbsentFields, OnlineFields, <1>7 DEF Actors, RefreshSet
  <1>2. UpIsPlaced'
    BY PresenceAssumption, <1>7 DEF UpIsPlaced, Up, Serving, Leaving, Actors, RefreshSet
  <1>3. NewestWasAccepted'
    BY PresenceAssumption, <1>7 DEF NewestWasAccepted, UpIsPlaced, Up, Serving, Leaving, Actors, RefreshSet
  <1>4. RegistryHoldsNewest'
    BY PresenceAssumption, <1>7 DEF RegistryHoldsNewest, NewestWasAccepted, UpIsPlaced, Up, Serving, Leaving, Actors, RefreshSet
  <1>5. OnlineExpires'
    BY AbsentFields, OnlineFields, <1>7 DEF OnlineExpires, RefreshSet
  <1>6. ~contended' => OneAtATime'
    BY PresenceAssumption, AbsentFields, OnlineFields, <1>7 DEF OneAtATime, UpIsPlaced, Up, Serving, Leaving, Actors, RefreshSet
  <1> QED
    BY <1>1, <1>2, <1>3, <1>4, <1>5, <1>6

LEMMA CpCloses ==
    ASSUME CpInv, NEW c \in Conns, SocketCloses(c) PROVE CpInv'
  <1> USE DEF CpInv, CpTypeOK
  <1>1. CpTypeOK'
    BY PresenceAssumption, AbsentFields, OnlineFields DEF Actors, SocketCloses, Unregister
  <1>2. UpIsPlaced'
    BY PresenceAssumption DEF UpIsPlaced, Up, Serving, Leaving, Actors, SocketCloses, Unregister
  <1>3. NewestWasAccepted'
    BY PresenceAssumption DEF NewestWasAccepted, UpIsPlaced, Up, Serving, Leaving, Actors, SocketCloses, Unregister
  <1>4. RegistryHoldsNewest'
    BY PresenceAssumption DEF RegistryHoldsNewest, NewestWasAccepted, UpIsPlaced, Up, Serving, Leaving, Actors, SocketCloses, Unregister
  <1>5. OnlineExpires'
    BY AbsentFields, OnlineFields DEF OnlineExpires, SocketCloses, Unregister
  <1>6. ~contended' => OneAtATime'
    BY PresenceAssumption, AbsentFields, OnlineFields DEF OneAtATime, UpIsPlaced, Up, Serving, Leaving, Actors, SocketCloses, Unregister
  <1> QED
    BY <1>1, <1>2, <1>3, <1>4, <1>5, <1>6

LEMMA CpDisconnectGet ==
    ASSUME CpInv, NEW c \in Conns, DisconnectGet(c) PROVE CpInv'
  <1> USE DEF CpInv, CpTypeOK
  <1>1. CpTypeOK'
    BY PresenceAssumption, AbsentFields, OnlineFields DEF Actors, DisconnectGet
  <1>2. UpIsPlaced'
    BY PresenceAssumption DEF UpIsPlaced, Up, Serving, Leaving, Actors, DisconnectGet
  <1>3. NewestWasAccepted'
    BY PresenceAssumption DEF NewestWasAccepted, UpIsPlaced, Up, Serving, Leaving, Actors, DisconnectGet
  <1>4. RegistryHoldsNewest'
    BY PresenceAssumption DEF RegistryHoldsNewest, NewestWasAccepted, UpIsPlaced, Up, Serving, Leaving, Actors, DisconnectGet
  <1>5. OnlineExpires'
    BY AbsentFields, OnlineFields DEF OnlineExpires, DisconnectGet
  <1>6. ~contended' => OneAtATime'
    BY PresenceAssumption, AbsentFields, OnlineFields DEF OneAtATime, UpIsPlaced, Up, Serving, Leaving, Actors, DisconnectGet
  <1> QED
    BY <1>1, <1>2, <1>3, <1>4, <1>5, <1>6

LEMMA CpSweeps ==
    ASSUME CpInv, SweepGet PROVE CpInv'
  <1> USE DEF CpInv, CpTypeOK
  <1>1. CpTypeOK'
    BY PresenceAssumption, AbsentFields, OnlineFields DEF Actors, SweepGet
  <1>2. UpIsPlaced'
    BY PresenceAssumption DEF UpIsPlaced, Up, Serving, Leaving, Actors, SweepGet
  <1>3. NewestWasAccepted'
    BY PresenceAssumption DEF NewestWasAccepted, UpIsPlaced, Up, Serving, Leaving, Actors, SweepGet
  <1>4. RegistryHoldsNewest'
    BY PresenceAssumption DEF RegistryHoldsNewest, NewestWasAccepted, UpIsPlaced, Up, Serving, Leaving, Actors, SweepGet
  <1>5. OnlineExpires'
    BY AbsentFields, OnlineFields DEF OnlineExpires, SweepGet
  <1>6. ~contended' => OneAtATime'
    BY PresenceAssumption, AbsentFields, OnlineFields DEF OneAtATime, UpIsPlaced, Up, Serving, Leaving, Actors, SweepGet
  <1> QED
    BY <1>1, <1>2, <1>3, <1>4, <1>5, <1>6

LEMMA CpOfflineGet ==
    ASSUME CpInv, NEW a \in Actors, OfflineGet(a) PROVE CpInv'
  <1> USE DEF CpInv, CpTypeOK
  <1>7. presence.node \in Nodes \cup {"unset"}
    BY DEF Records
  <1>1. CpTypeOK'
    BY PresenceAssumption, AbsentFields, OnlineFields, <1>7 DEF Actors, OfflineGet
  <1>2. UpIsPlaced'
    BY PresenceAssumption, <1>7 DEF UpIsPlaced, Up, Serving, Leaving, Actors, OfflineGet
  <1>3. NewestWasAccepted'
    BY PresenceAssumption, <1>7 DEF NewestWasAccepted, UpIsPlaced, Up, Serving, Leaving, Actors, OfflineGet
  <1>4. RegistryHoldsNewest'
    BY PresenceAssumption, <1>7 DEF RegistryHoldsNewest, NewestWasAccepted, UpIsPlaced, Up, Serving, Leaving, Actors, OfflineGet
  <1>5. OnlineExpires'
    BY AbsentFields, OnlineFields, <1>7 DEF OnlineExpires, OfflineGet
  <1>6. ~contended' => OneAtATime'
    BY PresenceAssumption, AbsentFields, OnlineFields, <1>7 DEF OneAtATime, UpIsPlaced, Up, Serving, Leaving, Actors, OfflineGet
  <1> QED
    BY <1>1, <1>2, <1>3, <1>4, <1>5, <1>6

LEMMA CpOfflineSet ==
    ASSUME CpInv, NEW a \in Actors, OfflineSet(a) PROVE CpInv'
  <1> USE DEF CpInv, CpTypeOK
  <1>7. copy[a] \in Nodes \cup {"unset"}
    OBVIOUS
  <1>8. presence' \in Records /\ presence'.status = "offline"
    <2>1. 0 \in 0..MaxAge /\ Grace \in 0..MaxAge
      BY PresenceAssumption DEF MaxAge, TTL
    <2> QED
      BY <2>1, <1>7 DEF OfflineSet, Records
  <1>1. CpTypeOK'
    BY PresenceAssumption, AbsentFields, OnlineFields, <1>7, <1>8 DEF Actors, OfflineSet
  <1>2. UpIsPlaced'
    BY PresenceAssumption, <1>7, <1>8 DEF UpIsPlaced, Up, Serving, Leaving, Actors, OfflineSet
  <1>3. NewestWasAccepted'
    BY PresenceAssumption, <1>7, <1>8 DEF NewestWasAccepted, UpIsPlaced, Up, Serving, Leaving, Actors, OfflineSet
  <1>4. RegistryHoldsNewest'
    BY PresenceAssumption, <1>7, <1>8 DEF RegistryHoldsNewest, NewestWasAccepted, UpIsPlaced, Up, Serving, Leaving, Actors, OfflineSet
  <1>5. OnlineExpires'
    BY AbsentFields, OnlineFields, <1>7, <1>8 DEF OnlineExpires, OfflineSet
  <1>6. ~contended' => OneAtATime'
    BY PresenceAssumption, AbsentFields, OnlineFields, <1>7, <1>8 DEF OneAtATime, UpIsPlaced, Up, Serving, Leaving, Actors, OfflineSet
  <1> QED
    BY <1>1, <1>2, <1>3, <1>4, <1>5, <1>6

LEMMA CpPublishes ==
    ASSUME CpInv, NEW a \in Actors, PublishDisconnected(a) PROVE CpInv'
  <1> USE DEF CpInv, CpTypeOK
  <1>1. CpTypeOK'
    BY PresenceAssumption, AbsentFields, OnlineFields DEF Actors, PublishDisconnected, Done
  <1>2. UpIsPlaced'
    BY PresenceAssumption DEF UpIsPlaced, Up, Serving, Leaving, Actors, PublishDisconnected, Done
  <1>3. NewestWasAccepted'
    BY PresenceAssumption DEF NewestWasAccepted, UpIsPlaced, Up, Serving, Leaving, Actors, PublishDisconnected, Done
  <1>4. RegistryHoldsNewest'
    BY PresenceAssumption DEF RegistryHoldsNewest, NewestWasAccepted, UpIsPlaced, Up, Serving, Leaving, Actors, PublishDisconnected, Done
  <1>5. OnlineExpires'
    BY AbsentFields, OnlineFields DEF OnlineExpires, PublishDisconnected, Done
  <1>6. ~contended' => OneAtATime'
    BY PresenceAssumption, AbsentFields, OnlineFields DEF OneAtATime, UpIsPlaced, Up, Serving, Leaving, Actors, PublishDisconnected, Done
  <1> QED
    BY <1>1, <1>2, <1>3, <1>4, <1>5, <1>6

LEMMA CpCrashes ==
    ASSUME CpInv, NEW m \in Nodes, NodeCrashes(m) PROVE CpInv'
  <1> USE DEF CpInv, CpTypeOK
  <1>1. CpTypeOK'
    BY PresenceAssumption, AbsentFields, OnlineFields DEF Actors, NodeCrashes
  <1>2. UpIsPlaced'
    BY PresenceAssumption DEF UpIsPlaced, Up, Serving, Leaving, Actors, NodeCrashes
  <1>3. NewestWasAccepted'
    BY PresenceAssumption DEF NewestWasAccepted, UpIsPlaced, Up, Serving, Leaving, Actors, NodeCrashes
  <1>4. RegistryHoldsNewest'
    BY PresenceAssumption DEF RegistryHoldsNewest, NewestWasAccepted, UpIsPlaced, Up, Serving, Leaving, Actors, NodeCrashes
  <1>5. OnlineExpires'
    BY AbsentFields, OnlineFields DEF OnlineExpires, NodeCrashes
  <1>6. ~contended' => OneAtATime'
    BY PresenceAssumption, AbsentFields, OnlineFields DEF OneAtATime, UpIsPlaced, Up, Serving, Leaving, Actors, NodeCrashes
  <1> QED
    BY <1>1, <1>2, <1>3, <1>4, <1>5, <1>6

LEMMA CpTicks ==
    ASSUME CpInv, Tick PROVE CpInv'
  <1> USE DEF CpInv, CpTypeOK
  <1>7. /\ presence' \in Records
        /\ presence' # Absent => presence'.status = presence.status /\ presence'.node = presence.node
        /\ OnlineExpires'
    <2>1. TTL \in Nat /\ MaxAge \in Nat /\ TTL <= MaxAge
      BY PresenceAssumption DEF TTL, MaxAge
    <2>2. CASE presence.ttl = 1
      BY <2>2, AbsentFields DEF Tick, OnlineExpires
    <2>3. CASE presence.ttl # 1
      <3>1. PICK x, y \in 0..MaxAge : /\ x = (IF presence.age < MaxAge THEN presence.age + 1 ELSE presence.age)
                                     /\ y = (IF presence.ttl > 0 THEN presence.ttl - 1 ELSE 0)
        BY <2>1 DEF Records
      <3>2. presence' = [presence EXCEPT !.age = x, !.ttl = y]
        BY <2>3, <3>1 DEF Tick
      <3>3. /\ presence' \in Records /\ presence'.status = presence.status /\ presence'.node = presence.node
            /\ presence'.age = x /\ presence'.ttl = y
        BY <3>2 DEF Records
      <3>4. presence.age \in 0..MaxAge /\ presence.ttl \in 0..MaxAge
        BY DEF Records
      <3> QED
        BY <2>1, <2>3, <3>1, <3>3, <3>4 DEF OnlineExpires
    <2> QED
      BY <2>2, <2>3
  <1>1. CpTypeOK'
    BY PresenceAssumption, AbsentFields, OnlineFields, <1>7 DEF Actors, Tick
  <1>2. UpIsPlaced'
    BY PresenceAssumption, <1>7 DEF UpIsPlaced, Up, Serving, Leaving, Actors, Tick
  <1>3. NewestWasAccepted'
    BY PresenceAssumption, <1>7 DEF NewestWasAccepted, UpIsPlaced, Up, Serving, Leaving, Actors, Tick
  <1>4. RegistryHoldsNewest'
    BY PresenceAssumption, <1>7 DEF RegistryHoldsNewest, NewestWasAccepted, UpIsPlaced, Up, Serving, Leaving, Actors, Tick
  <1>5. OnlineExpires'
    BY AbsentFields, OnlineFields, <1>7 DEF OnlineExpires, Tick
  <1>6. ~contended' => OneAtATime'
    BY PresenceAssumption, AbsentFields, OnlineFields, <1>7 DEF OneAtATime, UpIsPlaced, Up, Serving, Leaving, Actors, Tick
  <1> QED
    BY <1>1, <1>2, <1>3, <1>4, <1>5, <1>6

LEMMA CpInvNext == CpInv /\ [CpNext]_cpVars => CpInv'
  <1> SUFFICES ASSUME CpInv, [CpNext]_cpVars PROVE CpInv'
    OBVIOUS
  <1>1. CASE UNCHANGED cpVars
    BY <1>1 DEF cpVars, CpInv, CpTypeOK, UpIsPlaced, NewestWasAccepted, RegistryHoldsNewest, OnlineExpires,
                OneAtATime, Up, Serving, Leaving
  <1>2. ASSUME NEW c \in Conns, FrameWithoutRecord(c) PROVE CpInv'
    BY <1>1, <1>2 DEF FrameWithoutRecord
  <1>3. ASSUME NEW a \in Actors, TaskStep(a) PROVE CpInv'
    BY <1>3, CpRegister, CpRefresh, CpDisconnectGet, CpOfflineGet, CpOfflineSet, CpPublishes DEF TaskStep
  <1> QED
    BY <1>1, <1>2, <1>3, CpHandshake, CpRefused, CpFrame, CpCloses, CpSweeps, CpCrashes, CpTicks DEF CpNext

(* RegistryHoldsNewest, for any number of sockets and nodes: the identity test *)
(* in LiveConnectionRegistry.unregister is enough for the connection a node    *)
(* registered last to stay addressable until its own socket closes, in         *)
(* whatever order older ones close and nodes crash.                            *)
THEOREM NewestStaysRegistered == CpSpec => []RegistryHoldsNewest
  <1>1. CpInv => RegistryHoldsNewest
    BY DEF CpInv
  <1> QED
    BY <1>1, CpInvInit, CpInvNext, PTL DEF CpSpec

(* SoleConnectionIsAddressed, for any number of sockets and nodes and any      *)
(* intervals: whatever order handshakes, refreshes, close handlers and sweeps  *)
(* read and write the record in (presence.py), online means recent, and a      *)
(* charger with one connection at a time is addressed on that one's node.      *)
THEOREM OnlineIsRecentAndAddressed == CpSpec => []SoleConnectionIsAddressed
  <1>1. CpInv => SoleConnectionIsAddressed
    <2> SUFFICES ASSUME CpInv PROVE SoleConnectionIsAddressed
      OBVIOUS
    <2>1. OnlineIsRecent
      <3>1. presence.age \in Nat /\ presence.ttl \in Nat /\ TTL \in Nat
        BY PresenceAssumption DEF CpInv, CpTypeOK, Records, MaxAge, TTL
      <3> QED
        BY <3>1 DEF OnlineIsRecent, CpInv, OnlineExpires
    <2>2. ASSUME ~contended, presence # Absent, NEW c \in Conns, pc[c] = "open"
          PROVE  presence.status = "online" /\ presence.node = node[c]
      BY <2>2 DEF CpInv, OneAtATime, Serving
    <2> QED
      BY <2>1, <2>2 DEF SoleConnectionIsAddressed
  <1> QED
    BY <1>1, CpInvInit, CpInvNext, PTL DEF CpSpec

-----------------------------------------------------------------------------
(* EventDelivery *)

TaskSet == [pc : {"free", "push", "answer", "handle"}, consumer : Consumers \cup {"none"},
            event : 0..MaxStatus, partner : 0..NumPartners]

\* A delivery that works on an event of the stream, at the place in deliver its
\* consumer's handler has.
Delivering(q) ==
    /\ q.event \in stream
    /\ \/ q.pc \in {"push", "answer"} /\ q.consumer = "ocpi-sync" /\ q.partner \in Partners
       \/ q.pc = "handle" /\ q.consumer = "portal-live-feed"

Works(d, k, e) == handling[d].consumer = k /\ handling[d].event = e

\* What TypeOK rests on.
EdShape ==
    /\ EdTypeOK
    /\ socket # "reading" => connector >= 1
    /\ \A d \in Tasks : handling[d] = Free \/ Delivering(handling[d])
    /\ \A k \in Consumers : failures[k] <= faults

\* Unless two deliveries of an event overlapped or the consumer forgot it, one
\* at most works on it, and only before it was processed; until then it was not
\* handled.
OneDelivery(k, e) ==
    <<k, e>> \notin overlapped \cup forgotten =>
        /\ \A b, d \in Tasks : Works(b, k, e) /\ Works(d, k, e) => b = d
        /\ \A d \in Tasks : Works(d, k, e) => <<k, e>> \notin seen
        /\ <<k, e>> \notin seen => handled[k][e] = 0
        /\ handled[k][e] <= 1

\* A push loop q has its event at the endpoints of the partners behind it.
Reached(q) ==
    q.consumer = "ocpi-sync" =>
        \A p \in Partners : p < q.partner \/ (q.pc = "answer" /\ p = q.partner)
                                => q.event \in received[Endpoint(p)]

EdInv ==
    /\ EdShape
    /\ \A k \in Consumers, e \in Events : OneDelivery(k, e)
    /\ \A d \in Tasks : Reached(handling[d])
    /\ ProcessedWasPushed

LEMMA EdBounds ==
    /\ MaxStatus \in Nat \ {0} /\ NumPartners \in Nat \ {0} /\ MaxFaults \in Nat \ {0}
    /\ Partners = 1..NumPartners /\ Events = 1..MaxStatus
  BY DeliveryAssumption DEF Partners, Events

LEMMA FreeFields ==
    Free \in TaskSet /\ Free.pc = "free" /\ Free.consumer = "none" /\ Free.event = 0
  <1>1. 0 \in 0..MaxStatus /\ 0 \in 0..NumPartners
    BY EdBounds
  <1> QED
    BY <1>1 DEF Free, TaskSet

\* A free slot works on nothing.
LEMMA FreeIsIdle ==
    ASSUME NEW d \in Tasks, handling[d] = Free, NEW k \in Consumers
    PROVE  handling[d].consumer # k
  BY FreeFields DEF Consumers

LEMMA EndpointIsPartner == \A p \in Partners : Endpoint(p) \in Partners
  BY EdBounds DEF Endpoint

\* What has reached an endpoint stays there.
LEMMA ReachedStays ==
    ASSUME UNCHANGED client, \A p \in Partners : received[p] \subseteq received'[p]
    PROVE  /\ \A q : Reached(q) => Reached(q)'
           /\ \A e, p : p \in Partners /\ e \in received[Endpoint(p)] => (e \in received[Endpoint(p)])'
  <1>1. \A p \in Partners : Endpoint(p)' = Endpoint(p) /\ received[Endpoint(p)] \subseteq received'[Endpoint(p)]
    BY EndpointIsPartner DEF Endpoint
  <1> QED
    BY <1>1 DEF Reached

LEMMA EdInvInit == EdInit => EdInv
  <1> SUFFICES ASSUME EdInit PROVE EdInv
    OBVIOUS
  <1>1. EdTypeOK
    <2>1. 0 \in 0..MaxStatus /\ 0 \in 0..MaxFaults /\ 0 \in 0..2
      BY EdBounds
    <2>2. handling \in [Tasks -> TaskSet]
      BY FreeFields DEF EdInit
    <2> QED
      BY <2>1, <2>2 DEF EdInit, EdTypeOK, TaskSet
  <1>2. EdShape
    BY <1>1 DEF EdInit, EdShape
  <1>3. \A d \in Tasks, k \in Consumers : handling[d].consumer # k
    BY FreeIsIdle DEF EdInit
  <1>4. \A k \in Consumers, e \in Events : OneDelivery(k, e)
    BY <1>3 DEF EdInit, OneDelivery, Works
  <1>5. (\A d \in Tasks : Reached(handling[d])) /\ ProcessedWasPushed
    BY <1>3 DEF EdInit, Reached, ProcessedWasPushed, Consumers
  <1> QED
    BY <1>2, <1>4, <1>5 DEF EdInv

\* The socket's handler touches no delivery.
LEMMA EdSocket ==
    ASSUME EdInv, StatusArrives \/ Publish \/ PublishRaises \/ PublishReturns
    PROVE  EdInv'
  <1> USE DEF EdInv
  <1>1. /\ UNCHANGED <<bus, client, handling, offered, seen, handled, failures, alerted, location, received, faults, overlapped, forgotten>>
        /\ stream \subseteq stream'
    BY DEF StatusArrives, Publish, PublishRaises, PublishReturns, setupVars, consumerVars, roamingVars, ghostVars
  <1>2. /\ connector' \in 0..MaxStatus /\ stream' \subseteq 1..connector'
        /\ socket' \in {"reading", "updated", "publishing"} /\ (socket' # "reading" => connector' >= 1)
    <2>1. CASE StatusArrives
      BY <2>1, EdBounds DEF StatusArrives, EdShape, EdTypeOK
    <2>2. CASE Publish
      BY <2>2, EdBounds DEF Publish, EdShape, EdTypeOK
    <2>3. CASE PublishRaises
      BY <2>3, EdBounds DEF PublishRaises, EdShape, EdTypeOK
    <2>4. CASE PublishReturns
      BY <2>4 DEF PublishReturns, EdShape, EdTypeOK
    <2> QED
      BY <2>1, <2>2, <2>3, <2>4
  <1>3. EdTypeOK'
    <2>1. Consumers \X stream \subseteq Consumers \X stream' /\ SUBSET stream \subseteq SUBSET stream'
      BY <1>1
    <2> QED
      BY <1>1, <1>2, <2>1 DEF EdShape, EdTypeOK
  <1>4. EdShape'
    BY <1>1, <1>2, <1>3 DEF EdShape, Delivering
  <1>5. ASSUME NEW k \in Consumers, NEW e \in Events PROVE OneDelivery(k, e)'
    <2>1. \A d \in Tasks : Works(d, k, e)' <=> Works(d, k, e)
      BY <1>1 DEF Works
    <2> QED
      BY <1>1, <2>1 DEF OneDelivery
  <1>6. (\A d \in Tasks : Reached(handling[d]))' /\ ProcessedWasPushed'
    BY <1>1 DEF Reached, ProcessedWasPushed, Endpoint
  <1> QED
    BY <1>4, <1>5, <1>6

\* What a step keeps of the shape when one delivery q is put in place of handling[d].
LEMMA EdReplaces ==
    ASSUME EdShape, NEW d \in Tasks, NEW q \in TaskSet,
           q = Free \/ Delivering(q), handling' = [handling EXCEPT ![d] = q],
           UNCHANGED <<bus, client, socket, connector, stream>>,
           (offered \subseteq Consumers \X stream)', (seen \subseteq Consumers \X stream)',
           (overlapped \subseteq Consumers \X stream)', (forgotten \subseteq Consumers \X stream)',
           handled' \in [Consumers -> [Events -> 0..2]],
           failures' \in [Consumers -> 0..MaxFaults], alerted' \in [Consumers -> BOOLEAN],
           faults' \in 0..MaxFaults, \A k \in Consumers : failures'[k] <= faults',
           location' \in 0..MaxStatus, received' \in [Partners -> SUBSET stream']
    PROVE  EdShape' /\ handling'[d] = q /\ \A b \in Tasks : b # d => handling'[b] = handling[b]
  <1>1. handling \in [Tasks -> TaskSet]
    BY DEF EdShape, EdTypeOK, TaskSet
  <1>2. handling' \in [Tasks -> TaskSet] /\ handling'[d] = q /\ \A b \in Tasks : b # d => handling'[b] = handling[b]
    BY <1>1
  <1>3. EdTypeOK'
    BY <1>2 DEF EdShape, EdTypeOK, TaskSet
  <1>4. (\A b \in Tasks : handling[b] = Free \/ Delivering(handling[b]))'
    BY <1>2 DEF EdShape, Delivering
  <1> QED
    BY <1>2, <1>3, <1>4 DEF EdShape

LEMMA EdDelivers ==
    ASSUME EdInv, NEW d \in Tasks, NEW k \in Consumers, NEW e \in Events, Deliver(d, k, e)
    PROVE  EdInv'
  <1> USE DEF EdInv
  <1>1. /\ handling[d] = Free /\ e \in stream /\ <<k, e>> \notin seen
        /\ UNCHANGED <<bus, client, socket, connector, stream, seen, handled, failures, alerted, received, faults, forgotten>>
    BY DEF Deliver, Busy, MayDeliver, Unprocessed, setupVars, chargerVars, consumerVars
  <1>2. PICK q : q = IF k = "ocpi-sync" THEN [pc |-> "push", consumer |-> k, event |-> e, partner |-> 1]
                     ELSE [pc |-> "handle", consumer |-> k, event |-> e, partner |-> 0]
    OBVIOUS
  <1>3. q \in TaskSet /\ Delivering(q) /\ q.consumer = k /\ q.event = e /\ (k = "ocpi-sync" => q.partner = 1 /\ q.pc = "push")
    <2>1. 0 \in 0..NumPartners /\ 1 \in 0..NumPartners /\ 1 \in Partners /\ e \in 0..MaxStatus
      BY EdBounds
    <2>2. CASE k = "ocpi-sync"
      BY <1>1, <1>2, <2>1, <2>2 DEF TaskSet, Delivering
    <2>3. CASE k = "portal-live-feed"
      BY <1>1, <1>2, <2>1, <2>3 DEF TaskSet, Delivering, Consumers
    <2> QED
      BY <2>2, <2>3 DEF Consumers
  <1>4. handling' = [handling EXCEPT ![d] = q]
    BY <1>2 DEF Deliver
  <1>5. /\ offered' \subseteq Consumers \X stream' /\ overlapped' \subseteq Consumers \X stream'
        /\ overlapped \subseteq overlapped' /\ overlapped' \subseteq overlapped \cup {<<k, e>>}
        /\ (\E b \in Tasks : Works(b, k, e)) => <<k, e>> \in overlapped'
    BY <1>1 DEF Deliver, EdShape, EdTypeOK, Works
  <1>6. location' \in 0..MaxStatus
    <2>1. CASE k = "ocpi-sync"
      BY <2>1, EdBounds DEF Deliver
    <2>2. CASE k # "ocpi-sync"
      BY <2>2 DEF Deliver, EdShape, EdTypeOK
    <2> QED
      BY <2>1, <2>2
  <1>7. EdShape' /\ handling'[d] = q /\ \A b \in Tasks : b # d => handling'[b] = handling[b]
    BY <1>1, <1>3, <1>4, <1>5, <1>6, EdReplaces DEF EdShape, EdTypeOK
  <1>8. ASSUME NEW j \in Consumers, NEW f \in Events PROVE OneDelivery(j, f)'
    <2>1. CASE j = k /\ f = e
      <3> SUFFICES ASSUME <<k, e>> \notin overlapped' \cup forgotten PROVE OneDelivery(k, e)'
        BY <1>1, <2>1 DEF OneDelivery
      <3>1. \A b \in Tasks : ~Works(b, k, e)
        BY <1>5
      <3>2. \A b \in Tasks : Works(b, k, e)' => b = d
        BY <1>7, <3>1 DEF Works
      <3> QED
        BY <1>1, <1>5, <3>2 DEF OneDelivery
    <2>2. CASE ~(j = k /\ f = e)
      <3>1. \A b \in Tasks : Works(b, j, f)' => Works(b, j, f)
        BY <1>3, <1>7, <2>2 DEF Works
      <3>2. <<j, f>> \in overlapped' <=> <<j, f>> \in overlapped
        BY <1>5, <2>2
      <3> QED
        BY <1>1, <3>1, <3>2 DEF OneDelivery
    <2> QED
      BY <2>1, <2>2
  <1>9. (\A b \in Tasks : Reached(handling[b]))' /\ ProcessedWasPushed'
    <2>1. Reached(q)'
      <3>1. k = "ocpi-sync" => \A p \in Partners : ~(p < 1)
        BY EdBounds
      <3> QED
        BY <1>3, <3>1 DEF Reached
    <2>2. \A b \in Tasks : b # d => Reached(handling[b])'
      BY <1>1, <1>7 DEF Reached, Endpoint
    <2>3. Reached(handling[d])'
      BY <1>7, <2>1 DEF Reached
    <2> QED
      BY <1>1, <2>2, <2>3 DEF ProcessedWasPushed, Endpoint
  <1> QED
    BY <1>7, <1>8, <1>9

\* A step of the delivery d to the next place or partner keeps what it works on.
LEMMA EdMoves ==
    ASSUME EdInv, NEW d \in Tasks, Push(d) \/ NextPartner(d)
    PROVE  EdInv'
  <1> USE DEF EdInv
  <1>1. UNCHANGED <<bus, client, socket, connector, stream, offered, seen, handled, failures, alerted, location, faults, overlapped, forgotten>>
    BY DEF Push, NextPartner, setupVars, chargerVars, consumerVars, roamingVars, ghostVars
  <1>2. handling[d] \in TaskSet /\ handling[d].pc \in {"push", "answer"}
    BY DEF Push, NextPartner, EdShape, EdTypeOK, TaskSet
  <1>3. Delivering(handling[d]) /\ handling[d].consumer = "ocpi-sync" /\ handling[d].partner \in Partners
    BY <1>2, FreeFields DEF EdShape, Delivering
  <1>4. PICK q : q = IF handling[d].pc = "push" THEN [handling[d] EXCEPT !.pc = "answer"]
                     ELSE [handling[d] EXCEPT !.pc = "push", !.partner = handling[d].partner + 1]
    OBVIOUS
  <1>5. handling' = [handling EXCEPT ![d] = q]
    <2>1. CASE Push(d)
      BY <1>4, <2>1 DEF Push
    <2>2. CASE NextPartner(d)
      BY <1>4, <2>2 DEF NextPartner
    <2> QED
      BY <2>1, <2>2
  <1>6. /\ q \in TaskSet /\ q.consumer = "ocpi-sync" /\ q.event = handling[d].event /\ q.partner \in Partners
        /\ q.pc \in {"push", "answer"}
        /\ handling[d].pc = "push" => q.pc = "answer" /\ q.partner = handling[d].partner
        /\ handling[d].pc = "answer" => q.pc = "push" /\ q.partner = handling[d].partner + 1
    <2>1. CASE Push(d)
      <3>1. handling[d].pc = "push" /\ q = [handling[d] EXCEPT !.pc = "answer"]
        BY <1>4, <2>1 DEF Push
      <3> QED
        BY <1>2, <1>3, <3>1 DEF TaskSet
    <2>2. CASE NextPartner(d)
      <3>1. handling[d].pc = "answer" /\ handling[d].partner < NumPartners
        BY <2>2 DEF NextPartner
      <3>2. PICK r \in Partners : r = handling[d].partner + 1 /\ r \in 0..NumPartners
        BY <1>3, <3>1, EdBounds
      <3>3. q = [handling[d] EXCEPT !.pc = "push", !.partner = r]
        BY <1>4, <3>1, <3>2
      <3> QED
        BY <1>2, <1>3, <3>1, <3>2, <3>3 DEF TaskSet
    <2> QED
      BY <2>1, <2>2
  <1>7. /\ received' \in [Partners -> SUBSET stream]
        /\ \A p \in Partners : received[p] \subseteq received'[p]
        /\ handling[d].pc = "push" => handling[d].event \in received'[Endpoint(handling[d].partner)]
    <2>1. /\ received \in [Partners -> SUBSET stream] /\ handling[d].event \in stream
          /\ Endpoint(handling[d].partner) \in Partners
      BY <1>3, EndpointIsPartner DEF EdShape, EdTypeOK, Delivering
    <2>2. CASE Push(d)
      BY <2>1, <2>2 DEF Push
    <2>3. CASE NextPartner(d)
      BY <2>1, <2>3 DEF NextPartner, roamingVars
    <2> QED
      BY <2>2, <2>3
  <1>8. Delivering(q)
    BY <1>3, <1>6 DEF Delivering
  <1>9. EdShape' /\ handling'[d] = q /\ \A b \in Tasks : b # d => handling'[b] = handling[b]
    BY <1>1, <1>5, <1>6, <1>7, <1>8, EdReplaces DEF EdShape, EdTypeOK
  <1>10. \A b \in Tasks : handling'[b].consumer = handling[b].consumer /\ handling'[b].event = handling[b].event
    BY <1>3, <1>6, <1>9
  <1>11. ASSUME NEW k \in Consumers, NEW e \in Events PROVE OneDelivery(k, e)'
    <2>1. \A b \in Tasks : Works(b, k, e)' <=> Works(b, k, e)
      BY <1>10 DEF Works
    <2> QED
      BY <1>1, <2>1 DEF OneDelivery
  <1>12. /\ \A r : Reached(r) => Reached(r)'
         /\ \A e, p : p \in Partners /\ e \in received[Endpoint(p)] => (e \in received[Endpoint(p)])'
    BY <1>1, <1>7, ReachedStays
  <1>13. Reached(q)'
    <2>1. PICK f : f = handling[d].event
      OBVIOUS
    <2> SUFFICES ASSUME NEW p \in Partners, p < q.partner \/ (q.pc = "answer" /\ p = q.partner)
                 PROVE  (f \in received[Endpoint(p)])'
      BY <1>6, <2>1 DEF Reached
    <2>2. p \in Nat /\ handling[d].partner \in Nat
      BY <1>3, EdBounds
    <2>3. CASE p < handling[d].partner \/ (handling[d].pc = "answer" /\ p = handling[d].partner)
      <3>1. f \in received[Endpoint(p)]
        BY <1>3, <2>1, <2>3 DEF Reached
      <3> QED
        BY <1>12, <3>1
    <2>4. CASE handling[d].pc = "push" /\ p = handling[d].partner
      <3>1. Endpoint(p)' = Endpoint(p)
        BY <1>1 DEF Endpoint
      <3> QED
        BY <1>7, <2>1, <2>4, <3>1
    <2> QED
      BY <1>2, <1>6, <2>2, <2>3, <2>4
  <1>14. (\A b \in Tasks : Reached(handling[b]))'
    BY <1>9, <1>12, <1>13 DEF Reached
  <1>15. ProcessedWasPushed'
    BY <1>1, <1>12 DEF ProcessedWasPushed
  <1> QED
    BY <1>1, <1>9, <1>11, <1>14, <1>15

LEMMA EdSucceeds ==
    ASSUME EdInv, NEW d \in Tasks, Succeed(d)
    PROVE  EdInv'
  <1> USE DEF EdInv
  <1>1. /\ UNCHANGED <<bus, client, socket, connector, stream, offered, location, received, faults, overlapped, forgotten>>
        /\ handling' = [handling EXCEPT ![d] = Free]
    BY DEF Succeed, setupVars, chargerVars, roamingVars, ghostVars
  <1>2. handling[d].pc \in {"handle", "answer"} /\ (handling[d].pc = "answer" => handling[d].partner = NumPartners)
    BY DEF Succeed, AtEnd
  <1>3. Delivering(handling[d])
    BY <1>2, FreeFields DEF EdShape
  <1>4. PICK k \in Consumers, e \in Events : k = handling[d].consumer /\ e = handling[d].event
    BY <1>3, EdBounds DEF Delivering, EdShape, EdTypeOK, Consumers
  <1>5. seen' = seen \cup {<<k, e>>} /\ e \in stream
    BY <1>3, <1>4 DEF Succeed, Remember, Delivering
  <1>6. PICK n \in 0..2 : n = (IF handled[k][e] < 2 THEN handled[k][e] + 1 ELSE handled[k][e])
    BY DEF EdShape, EdTypeOK
  <1>7. handled' = [handled EXCEPT ![k] = [handled[k] EXCEPT ![e] = n]]
    BY <1>4, <1>6 DEF Succeed
  <1>8. /\ handled' \in [Consumers -> [Events -> 0..2]] /\ handled'[k][e] = n
        /\ \A j \in Consumers, f \in Events : ~(j = k /\ f = e) => handled'[j][f] = handled[j][f]
    BY <1>7 DEF EdShape, EdTypeOK
  <1>9. /\ failures' \in [Consumers -> 0..MaxFaults] /\ alerted' \in [Consumers -> BOOLEAN]
        /\ \A j \in Consumers : failures'[j] <= faults
    <2>1. 0 \in 0..MaxFaults /\ faults \in 0..MaxFaults
      BY EdBounds DEF EdShape, EdTypeOK
    <2>2. failures' = [failures EXCEPT ![k] = 0] /\ alerted' = [alerted EXCEPT ![k] = FALSE]
      BY <1>4 DEF Succeed
    <2> QED
      BY <2>1, <2>2 DEF EdShape, EdTypeOK
  <1>10. EdShape' /\ handling'[d] = Free /\ \A b \in Tasks : b # d => handling'[b] = handling[b]
    <2>1. (seen \subseteq Consumers \X stream)'
      BY <1>1, <1>5 DEF EdShape, EdTypeOK
    <2>2. /\ (offered \subseteq Consumers \X stream)' /\ (overlapped \subseteq Consumers \X stream)'
          /\ location' \in 0..MaxStatus /\ received' \in [Partners -> SUBSET stream']
          /\ (forgotten \subseteq Consumers \X stream)' /\ faults' \in 0..MaxFaults
      BY <1>1 DEF EdShape, EdTypeOK
    <2> QED
      BY <1>1, <1>8, <1>9, <2>1, <2>2, FreeFields, EdReplaces
  <1>11. ASSUME NEW j \in Consumers, NEW f \in Events PROVE OneDelivery(j, f)'
    <2>1. \A b \in Tasks : Works(b, j, f)' => b # d /\ Works(b, j, f)
      BY <1>10, FreeFields DEF Works, Consumers
    <2>2. CASE j = k /\ f = e
      <3> SUFFICES ASSUME <<k, e>> \notin overlapped \cup forgotten PROVE OneDelivery(k, e)'
        BY <1>1, <2>2 DEF OneDelivery
      <3>1. Works(d, k, e)
        BY <1>4 DEF Works
      <3>2. handled[k][e] = 0
        BY <3>1 DEF OneDelivery
      <3>3. \A b \in Tasks : ~Works(b, k, e)'
        BY <2>1, <2>2, <3>1 DEF OneDelivery
      <3> QED
        BY <1>5, <1>6, <1>8, <3>2, <3>3 DEF OneDelivery
    <2>3. CASE ~(j = k /\ f = e)
      BY <1>1, <1>5, <1>8, <2>1, <2>3 DEF OneDelivery
    <2> QED
      BY <2>2, <2>3
  <1>12. (\A b \in Tasks : Reached(handling[b]))'
    <2>1. Reached(Free)'
      BY FreeFields DEF Reached
    <2>2. \A b \in Tasks : b # d => Reached(handling[b])'
      BY <1>1, <1>10 DEF Reached, Endpoint
    <2> QED
      BY <1>10, <2>1, <2>2 DEF Reached
  <1>13. ProcessedWasPushed'
    <2>1. CASE k = "ocpi-sync"
      <3>1. handling[d].pc = "answer" /\ handling[d].partner = NumPartners
        BY <1>2, <1>3, <1>4, <2>1 DEF Delivering
      <3>2. \A p \in Partners : p < NumPartners \/ p = NumPartners
        BY EdBounds
      <3>3. \A p \in Partners : e \in received[Endpoint(p)]
        BY <1>4, <2>1, <3>1, <3>2 DEF Reached
      <3> QED
        BY <1>1, <1>5, <2>1, <3>3 DEF ProcessedWasPushed, Endpoint
    <2>2. CASE k # "ocpi-sync"
      BY <1>1, <1>5, <2>2 DEF ProcessedWasPushed, Endpoint
    <2> QED
      BY <2>1, <2>2
  <1> QED
    BY <1>1, <1>10, <1>11, <1>12, <1>13

LEMMA EdFails ==
    ASSUME EdInv, NEW d \in Tasks, Fail(d)
    PROVE  EdInv'
  <1> USE DEF EdInv
  <1>1. /\ UNCHANGED <<bus, client, socket, connector, stream, offered, seen, handled, location, received, overlapped, forgotten>>
        /\ handling' = [handling EXCEPT ![d] = Free] /\ handling[d] # Free /\ faults < MaxFaults /\ faults' = faults + 1
    BY DEF Fail, Busy, setupVars, chargerVars, roamingVars
  <1>2. Delivering(handling[d])
    BY <1>1 DEF EdShape
  <1>3. PICK k \in Consumers : k = handling[d].consumer
    BY <1>2 DEF Delivering, Consumers
  <1>4. /\ failures' = [failures EXCEPT ![k] = failures[k] + 1]
        /\ \E x \in BOOLEAN : alerted' = [alerted EXCEPT ![k] = x]
    <2>1. (alerted[k] \/ Lags(failures[k] + 1)) \in BOOLEAN
      OBVIOUS
    <2>2. alerted' = [alerted EXCEPT ![k] = alerted[k] \/ Lags(failures[k] + 1)]
      BY <1>3 DEF Fail
    <2> QED
      BY <1>3, <2>1, <2>2, Zenon DEF Fail
  <1>5. /\ failures' \in [Consumers -> 0..MaxFaults] /\ alerted' \in [Consumers -> BOOLEAN]
        /\ faults' \in 0..MaxFaults /\ \A j \in Consumers : failures'[j] <= faults'
    <2>1. faults' \in 0..MaxFaults /\ failures[k] + 1 \in 0..MaxFaults
      BY <1>1, EdBounds DEF EdShape, EdTypeOK
    <2>2. \A j \in Consumers : failures[j] <= faults + 1 /\ failures[j] + 1 <= faults + 1
      BY EdBounds DEF EdShape, EdTypeOK
    <2> QED
      BY <1>1, <1>4, <2>1, <2>2 DEF EdShape, EdTypeOK
  <1>7. EdShape' /\ handling'[d] = Free /\ \A b \in Tasks : b # d => handling'[b] = handling[b]
    BY <1>1, <1>5, FreeFields, EdReplaces DEF EdShape, EdTypeOK
  <1>8. ASSUME NEW j \in Consumers, NEW f \in Events PROVE OneDelivery(j, f)'
    <2>1. \A b \in Tasks : Works(b, j, f)' => Works(b, j, f)
      BY <1>7, FreeFields DEF Works, Consumers
    <2> QED
      BY <1>1, <2>1 DEF OneDelivery
  <1>9. (\A b \in Tasks : Reached(handling[b]))' /\ ProcessedWasPushed'
    <2>1. Reached(Free)'
      BY FreeFields DEF Reached
    <2>2. \A b \in Tasks : b # d => Reached(handling[b])'
      BY <1>1, <1>7 DEF Reached, Endpoint
    <2> QED
      BY <1>1, <1>7, <2>1, <2>2 DEF Reached, ProcessedWasPushed, Endpoint
  <1> QED
    BY <1>7, <1>8, <1>9

LEMMA EdRestarts ==
    ASSUME EdInv, NEW k \in Consumers, ConsumerRestarts(k)
    PROVE  EdInv'
  <1> USE DEF EdInv
  <1> DEFINE lost == {s \in seen : s[1] = k}
  <1>1. /\ UNCHANGED <<bus, client, socket, connector, stream, offered, handled, location, received, overlapped>>
        /\ seen' = seen \ lost /\ forgotten' = forgotten \cup lost
        /\ handling' = [d \in Tasks |-> IF handling[d].consumer = k THEN Free ELSE handling[d]]
        /\ faults < MaxFaults /\ faults' = faults + 1
        /\ failures' = [failures EXCEPT ![k] = 0] /\ alerted' = [alerted EXCEPT ![k] = FALSE]
    BY DEF ConsumerRestarts, setupVars, chargerVars, roamingVars
  <1>2. \A d \in Tasks : handling'[d] = Free \/ (handling'[d] = handling[d] /\ handling[d].consumer # k)
    BY <1>1
  <1>3. handling' \in [Tasks -> TaskSet]
    <2>1. handling \in [Tasks -> TaskSet]
      BY DEF EdShape, EdTypeOK, TaskSet
    <2> QED
      BY <1>1, <2>1, FreeFields
  <1>4. /\ failures' \in [Consumers -> 0..MaxFaults] /\ alerted' \in [Consumers -> BOOLEAN]
        /\ faults' \in 0..MaxFaults /\ \A j \in Consumers : failures'[j] <= faults'
    <2>1. 0 \in 0..MaxFaults /\ faults' \in 0..MaxFaults
      BY <1>1, EdBounds DEF EdShape, EdTypeOK
    <2>2. \A j \in Consumers : failures[j] <= faults + 1 /\ 0 <= faults + 1
      BY EdBounds DEF EdShape, EdTypeOK
    <2> QED
      BY <1>1, <2>1, <2>2 DEF EdShape, EdTypeOK
  <1>5. (seen \subseteq Consumers \X stream)' /\ (forgotten \subseteq Consumers \X stream)'
    BY <1>1 DEF EdShape, EdTypeOK
  <1>6. EdShape'
    <2>1. EdTypeOK'
      BY <1>1, <1>3, <1>4, <1>5 DEF EdShape, EdTypeOK, TaskSet
    <2>2. (\A d \in Tasks : handling[d] = Free \/ Delivering(handling[d]))'
      BY <1>1, <1>2 DEF EdShape, Delivering
    <2> QED
      BY <1>1, <1>4, <2>1, <2>2 DEF EdShape
  <1>7. ASSUME NEW j \in Consumers, NEW f \in Events PROVE OneDelivery(j, f)'
    <2> SUFFICES ASSUME <<j, f>> \notin (overlapped \cup forgotten)' PROVE OneDelivery(j, f)'
      BY DEF OneDelivery
    <2>1. \A d \in Tasks : Works(d, j, f)' => Works(d, j, f)
      BY <1>2, FreeFields DEF Works, Consumers
    <2>2. <<j, f>> \notin overlapped \cup forgotten /\ <<j, f>> \notin lost
      BY <1>1
    <2>3. <<j, f>> \in seen' <=> <<j, f>> \in seen
      BY <1>1, <2>2
    <2> QED
      BY <1>1, <2>1, <2>2, <2>3 DEF OneDelivery
  <1>8. (\A b \in Tasks : Reached(handling[b]))' /\ ProcessedWasPushed'
    <2>1. Reached(Free)'
      BY FreeFields DEF Reached
    <2>2. \A b \in Tasks : handling'[b] = handling[b] => Reached(handling[b])'
      BY <1>1 DEF Reached, Endpoint
    <2>3. ProcessedWasPushed'
      BY <1>1 DEF ProcessedWasPushed, Endpoint
    <2> QED
      BY <1>2, <2>1, <2>2, <2>3 DEF Reached
  <1> QED
    BY <1>6, <1>7, <1>8

LEMMA EdInvNext == EdInv /\ [EdNext]_edVars => EdInv'
  <1> SUFFICES ASSUME EdInv, [EdNext]_edVars PROVE EdInv'
    OBVIOUS
  <1>1. CASE UNCHANGED edVars
    BY <1>1 DEF edVars, EdInv, EdShape, EdTypeOK, Delivering, OneDelivery, Works, Reached, ProcessedWasPushed, Endpoint
  <1> QED
    BY <1>1, EdSocket, EdDelivers, EdMoves, EdSucceeds, EdFails, EdRestarts DEF EdNext

(* HandledOnce, for any number of events and of deliveries at once, on either  *)
(* bus: has_processed before the handler and mark_processed after it           *)
(* (EventConsumer.deliver) are enough against redelivery, however often a      *)
(* handler fails, unless two deliveries of the event overlap or a restart      *)
(* empties the in-memory seen store.                                           *)
THEOREM RedeliveryIsHarmless == EdSpec => []HandledOnce
  <1>1. EdInv => HandledOnce
    <2> SUFFICES ASSUME EdInv, NEW k \in Consumers, NEW e \in Events, handled[k][e] > 1,
                        <<k, e>> \notin overlapped \cup forgotten
                 PROVE  FALSE
      BY DEF HandledOnce
    <2>1. handled[k][e] \in 0..2 /\ handled[k][e] <= 1
      BY DEF EdInv, EdShape, EdTypeOK, OneDelivery
    <2> QED
      BY <2>1
  <1> QED
    BY <1>1, EdInvInit, EdInvNext, PTL DEF EdSpec

(* ProcessedWasPushed, for any number of events, partners, deliveries at once, *)
(* failures and restarts, on either bus and with either push client: the loop  *)
(* over the partners (LocationSyncService.handle_status_notification) and the  *)
(* mark that deliver makes only after it (EventConsumer.deliver) leave no      *)
(* partner out of an event that counts as processed.                           *)
THEOREM ProcessedReachedPartners == EdSpec => []ProcessedWasPushed
  <1>1. EdInv => ProcessedWasPushed
    BY DEF EdInv
  <1> QED
    BY <1>1, EdInvInit, EdInvNext, PTL DEF EdSpec

-----------------------------------------------------------------------------
(* ApiGateway: codes and tokens *)

CallSet == [pc : {"idle", "incr", "expire", "granted", "limited", "refused"}, req : Requests]

\* A handler suspended at the Redis limiter.
Flying(c) == call[c].pc \in {"incr", "expire"}

\* A client holds a token of f, or is about to be given one.
Holds(c, f) ==
    \/ cred[c].kind = "token" /\ cred[c].id = f
    \/ call[c].req.kind = "token" /\ call[c].req.id = f

\* The token rotate will accept next.
Good(q) == q.id \in known /\ q.id \notin revoked /\ current[q.id] = q.gen

\* TypeOK but for the limiter's counters.
TokenTypes ==
    /\ limiter \in Limiters /\ tenant \in [Clients -> Tenants]
    /\ pending \subseteq handedOut /\ handedOut \subseteq Codes
    /\ known \subseteq {f \in Families : current[f] > 0} /\ revoked \subseteq known
    /\ current \in [Families -> 0..MaxGen] /\ origin \in [Families -> Requests]
    /\ cred \in [Clients -> Requests] /\ call \in [Clients -> CallSet]
    /\ hurt \subseteq Clients

\* A code that a family was issued for is spent.
IssuedIsSpent ==
    \A f \in Families : origin[f].kind = "code" => origin[f].id \notin pending /\ origin[f].id \in handedOut

\* A code that is being redeemed is spent, by one handler, and not yet issued for.
FlyingIsSpent ==
    \A c \in Clients : Flying(c) /\ call[c].req.kind = "code" =>
        /\ call[c].req.id \notin pending /\ call[c].req.id \in handedOut
        /\ \A f \in Families : origin[f] # call[c].req
        /\ \A d \in Clients : Flying(d) /\ call[d].req = call[c].req => d = c

\* Tokens are of families that were issued, each to one client.
Owned ==
    \A c \in Clients, f \in Families : Holds(c, f) =>
        /\ current[f] # 0
        /\ \A d \in Clients : Holds(d, f) => d = c

\* A client that nothing happened to has, or will be given, the current token.
Intact ==
    \A c \in Clients : c \notin hurt =>
        /\ call[c].pc = "idle" /\ cred[c].kind = "token" => Good(cred[c])
        /\ call[c].pc \in {"incr", "expire", "granted"} /\ call[c].req.kind = "token" => Good(call[c].req)

TokensInv ==
    TokenTypes /\ IssuedIsSpent /\ FlyingIsSpent /\ CodeRedeemedOnce /\ Owned /\ Intact

LEMMA GenBound == MaxGen \in Nat /\ MaxGen >= 1
  BY GatewayAssumption

LEMMA TokenFields ==
    ASSUME NEW f \in Families, NEW g \in 1..MaxGen
    PROVE  Token(f, g) \in Requests /\ Token(f, g).kind = "token" /\ Token(f, g).id = f /\ Token(f, g).gen = g
  BY DEF Token, Requests

LEMMA NoneFields == None \in Requests /\ None.kind = "none" /\ Sso \in Requests /\ Sso.kind = "sso"
  BY DEF None, Sso, Requests

LEMMA RequestKinds ==
    ASSUME NEW q \in Requests
    PROVE  /\ q.kind \in {"none", "sso", "code", "token"}
           /\ q.kind = "token" => q.id \in Families /\ q.gen \in 1..MaxGen
           /\ q.kind = "code" => q.id \in Codes
  BY DEF Requests, None, Sso, Code, Token

\* Requests for a code are told apart by the code.
LEMMA CodesDiffer ==
    ASSUME NEW p \in Requests, NEW q \in Requests, p.kind = "code", q.kind = "code", p.id = q.id
    PROVE  p = q
  <1>1. \A x \in Requests : x.kind = "code" => x = Code(x.id)
    BY DEF Requests, None, Sso, Code, Token
  <1> QED
    BY <1>1

LEMMA IdleFields == NoCall \in CallSet /\ NoCall.pc = "idle" /\ NoCall.req = None
  BY NoneFields DEF NoCall, CallSet

LEMMA CallFields ==
    ASSUME NEW p \in {"idle", "incr", "expire", "granted", "limited", "refused"}, NEW q \in Requests
    PROVE  \E r \in CallSet : r = [pc |-> p, req |-> q] /\ r.pc = p /\ r.req = q
  <1>1. PICK r : r = [pc |-> p, req |-> q]
    OBVIOUS
  <1>2. r \in CallSet /\ r.pc = p /\ r.req = q
    BY <1>1 DEF CallSet
  <1> QED
    BY <1>1, <1>2

LEMMA TokensInit == AgInit => TokensInv
  <1> SUFFICES ASSUME AgInit PROVE TokensInv
    OBVIOUS
  <1>1. \A c \in Clients : cred[c] = None /\ call[c] = NoCall /\ call[c].pc = "idle" /\ call[c].req = None
    BY IdleFields DEF AgInit
  <1>2. \A f \in Families : origin[f] = None /\ current[f] = 0
    BY DEF AgInit
  <1>3. TokenTypes
    <2>1. 0 \in 0..MaxGen
      BY GenBound
    <2> QED
      BY <2>1, NoneFields, IdleFields DEF AgInit, TokenTypes
  <1>4. IssuedIsSpent /\ CodeRedeemedOnce
    BY <1>2, NoneFields DEF IssuedIsSpent, CodeRedeemedOnce
  <1>5. FlyingIsSpent /\ Owned /\ Intact
    BY <1>1, NoneFields DEF FlyingIsSpent, Flying, Owned, Holds, Intact
  <1> QED
    BY <1>3, <1>4, <1>5 DEF TokensInv

\* A code that one client presents while it is pending is nobody else's.
SpentBy(c, q) ==
    q.kind = "code" =>
        /\ q.id \in handedOut /\ \A f \in Families : origin[f] # q
        /\ \A d \in Clients : d # c /\ Flying(d) => call[d].req # q

\* The client's handler moves on to r and the families stay as they are, but
\* for the client's own being revoked.
LEMMA TokensMove ==
    ASSUME TokensInv, NEW c \in Clients, NEW r \in CallSet, call' = [call EXCEPT ![c] = r],
           UNCHANGED <<limiter, tenant, handedOut, known, current, origin, cred, hurt>>,
           pending' \subseteq pending, revoked' \subseteq known,
           \A f \in Families : f \in revoked' => f \in revoked \/ Holds(c, f),
           r.pc # "idle",
           r.req.kind = "token" => Holds(c, r.req.id),
           c \notin hurt /\ r.pc \in {"incr", "expire", "granted"} /\ r.req.kind = "token" => Good(r.req)',
           r.pc \in {"incr", "expire"} => SpentBy(c, r.req) /\ (r.req.kind = "code" => r.req.id \notin pending')
    PROVE  TokensInv'
  <1> USE DEF TokensInv
  <1>1. call'[c] = r /\ \A d \in Clients : d # c => call'[d] = call[d]
    BY DEF TokenTypes
  <1>2. TokenTypes'
    BY DEF TokenTypes
  <1>3. IssuedIsSpent' /\ CodeRedeemedOnce'
    BY DEF IssuedIsSpent, CodeRedeemedOnce
  <1>4. FlyingIsSpent'
    <2> SUFFICES ASSUME NEW d \in Clients, Flying(d)', call'[d].req.kind = "code"
                 PROVE  /\ call'[d].req.id \notin pending' /\ call'[d].req.id \in handedOut
                        /\ \A f \in Families : origin[f] # call'[d].req
                        /\ \A e \in Clients : Flying(e)' /\ call'[e].req = call'[d].req => e = d
      BY DEF FlyingIsSpent
    <2>1. \A e \in Clients : e # c /\ Flying(e)' => Flying(e) /\ call'[e].req = call[e].req
      BY <1>1 DEF Flying
    <2>2. Flying(c)' => r.pc \in {"incr", "expire"}
      BY <1>1 DEF Flying
    <2>3. CASE d = c
      BY <1>1, <2>1, <2>2, <2>3 DEF SpentBy
    <2>4. CASE d # c
      BY <1>1, <2>1, <2>2, <2>4 DEF SpentBy, FlyingIsSpent
    <2> QED
      BY <2>3, <2>4
  <1>5. \A d \in Clients, f \in Families : Holds(d, f)' => Holds(d, f)
    BY <1>1 DEF Holds
  <1>6. Owned'
    BY <1>5 DEF Owned
  <1>7. Intact'
    <2> SUFFICES ASSUME NEW d \in Clients, d \notin hurt
                 PROVE  /\ call'[d].pc = "idle" /\ cred[d].kind = "token" => Good(cred[d])'
                        /\ call'[d].pc \in {"incr", "expire", "granted"} /\ call'[d].req.kind = "token"
                              => Good(call[d].req)'
      BY DEF Intact
    <2>1. CASE d = c
      BY <1>1, <2>1
    <2>2. CASE d # c
      <3>1. \A q \in Requests : q.kind = "token" /\ Holds(d, q.id) /\ Good(q) => Good(q)'
        BY <2>2, RequestKinds DEF Good, Owned
      <3>2. cred[d] \in Requests /\ call[d].req \in Requests
        BY DEF TokenTypes, CallSet
      <3>3. /\ cred[d].kind = "token" => Holds(d, cred[d].id)
            /\ call[d].req.kind = "token" => Holds(d, call[d].req.id)
        BY DEF Holds
      <3>4. call[d].pc = "idle" /\ cred[d].kind = "token" => Good(cred[d])'
        BY <3>1, <3>2, <3>3 DEF Intact
      <3>5. call[d].pc \in {"incr", "expire", "granted"} /\ call[d].req.kind = "token" => Good(call[d].req)'
        <4> SUFFICES ASSUME call[d].pc \in {"incr", "expire", "granted"}, call[d].req.kind = "token"
                     PROVE  Good(call[d].req)'
          OBVIOUS
        <4>1. PICK q \in Requests : q = call[d].req
          BY <3>2
        <4>2. q.kind = "token" /\ Holds(d, q.id) /\ Good(q)
          BY <3>3, <4>1 DEF Intact
        <4>3. Good(q)'
          BY <3>1, <4>2
        <4> QED
          BY <1>1, <2>2, <4>1, <4>3 DEF Good
      <3> QED
        BY <1>1, <2>2, <3>4, <3>5
    <2> QED
      BY <2>1, <2>2
  <1> QED
    BY <1>2, <1>3, <1>4, <1>6, <1>7
\* rotate retires the client's token; its successor is on its way to it.
LEMMA TokensRotate ==
    ASSUME TokensInv, NEW c \in Clients, NEW f \in Families, NEW g \in 1..MaxGen, NEW r \in CallSet,
           cred[c].kind = "token", cred[c].id = f, call[c] = NoCall, Good(cred[c]), g = cred[c].gen + 1,
           call' = [call EXCEPT ![c] = r], r.pc \in {"incr", "granted", "limited"}, r.req = Token(f, g),
           current' = [current EXCEPT ![f] = g],
           UNCHANGED <<limiter, tenant, pending, handedOut, known, revoked, origin, cred, hurt>>
    PROVE  TokensInv'
  <1> USE DEF TokensInv
  <1>1. call'[c] = r /\ \A d \in Clients : d # c => call'[d] = call[d]
    BY DEF TokenTypes
  <1>2. current'[f] = g /\ g > 0 /\ \A h \in Families : h # f => current'[h] = current[h]
    BY GenBound DEF TokenTypes
  <1>3. TokenTypes'
    <2>1. g \in 0..MaxGen
      BY GenBound
    <2>2. current' \in [Families -> 0..MaxGen]
      BY <2>1 DEF TokenTypes
    <2>3. known \subseteq {h \in Families : current'[h] > 0}
      BY <1>2 DEF TokenTypes
    <2> QED
      BY <2>2, <2>3 DEF TokenTypes
  <1>4. IssuedIsSpent' /\ CodeRedeemedOnce'
    BY DEF IssuedIsSpent, CodeRedeemedOnce
  <1>5. r.req.kind = "token" /\ r.req.id = f /\ r.req.gen = g /\ call[c].req.kind # "token"
    BY TokenFields, IdleFields, NoneFields
  <1>6. FlyingIsSpent'
    <2>1. \A d \in Clients : Flying(d)' /\ call'[d].req.kind = "code" => d # c /\ Flying(d) /\ call'[d] = call[d]
      BY <1>1, <1>5 DEF Flying
    <2> QED
      BY <1>1, <1>5, <2>1 DEF FlyingIsSpent
  <1>7. Holds(c, f) /\ \A d \in Clients, h \in Families : Holds(d, h)' => Holds(d, h)
    BY <1>1, <1>5 DEF Holds
  <1>8. Owned'
    BY <1>2, <1>7, GenBound DEF Owned
  <1>9. Intact'
    <2> SUFFICES ASSUME NEW d \in Clients, d \notin hurt
                 PROVE  /\ call'[d].pc = "idle" /\ cred[d].kind = "token" => Good(cred[d])'
                        /\ call'[d].pc \in {"incr", "expire", "granted"} /\ call'[d].req.kind = "token"
                              => Good(call[d].req)'
      BY DEF Intact
    <2>1. CASE d = c
      <3>1. Good(call[c].req)'
        BY <1>1, <1>2, <1>5 DEF Good
      <3> QED
        BY <1>1, <2>1, <3>1
    <2>2. CASE d # c
      <3>1. \A q \in Requests : q.kind = "token" /\ Holds(d, q.id) /\ Good(q) => Good(q)'
        BY <1>2, <1>7, <2>2, RequestKinds DEF Good, Owned
      <3>2. cred[d] \in Requests /\ call[d].req \in Requests
        BY DEF TokenTypes, CallSet
      <3>3. /\ cred[d].kind = "token" => Holds(d, cred[d].id)
            /\ call[d].req.kind = "token" => Holds(d, call[d].req.id)
        BY DEF Holds
      <3>4. call[d].pc = "idle" /\ cred[d].kind = "token" => Good(cred[d])'
        BY <3>1, <3>2, <3>3 DEF Intact
      <3>5. call[d].pc \in {"incr", "expire", "granted"} /\ call[d].req.kind = "token" => Good(call[d].req)'
        <4> SUFFICES ASSUME call[d].pc \in {"incr", "expire", "granted"}, call[d].req.kind = "token"
                     PROVE  Good(call[d].req)'
          OBVIOUS
        <4>1. PICK q \in Requests : q = call[d].req
          BY <3>2
        <4>2. q.kind = "token" /\ Holds(d, q.id) /\ Good(q)
          BY <3>3, <4>1 DEF Intact
        <4>3. Good(q)'
          BY <3>1, <4>2
        <4> QED
          BY <1>1, <2>2, <4>1, <4>3 DEF Good
      <3> QED
        BY <1>1, <2>2, <3>4, <3>5
    <2> QED
      BY <2>1, <2>2
  <1> QED
    BY <1>3, <1>4, <1>6, <1>8, <1>9

\* A family is issued for the request p, which is no refresh.
LEMMA TokensIssue ==
    ASSUME TokensInv, NEW c \in Clients, NEW f \in Families, current[f] = 0, NEW p \in Requests,
           NEW r \in CallSet, r.pc = "granted", r.req = Token(f, 1), call' = [call EXCEPT ![c] = r],
           current' = [current EXCEPT ![f] = 1], known' = known \cup {f}, origin' = [origin EXCEPT ![f] = p],
           SpentBy(c, p), p.kind = "code" => p.id \notin pending', pending' \subseteq pending,
           UNCHANGED <<limiter, tenant, handedOut, revoked, cred, hurt>>
    PROVE  TokensInv'
  <1> USE DEF TokensInv
  <1>1. call'[c] = r /\ \A d \in Clients : d # c => call'[d] = call[d]
    BY DEF TokenTypes
  <1>2. /\ current'[f] = 1 /\ \A h \in Families : h # f => current'[h] = current[h]
        /\ origin'[f] = p /\ \A h \in Families : h # f => origin'[h] = origin[h]
    BY DEF TokenTypes
  <1>3. f \notin known /\ f \notin revoked
    BY DEF TokenTypes
  <1>4. TokenTypes'
    <2>1. 1 \in 0..MaxGen
      BY GenBound
    <2>2. current' \in [Families -> 0..MaxGen]
      BY <2>1 DEF TokenTypes
    <2>3. known' \subseteq {h \in Families : current'[h] > 0}
      BY <1>2 DEF TokenTypes
    <2> QED
      BY <2>2, <2>3 DEF TokenTypes
  <1>5. IssuedIsSpent'
    BY <1>2 DEF IssuedIsSpent, SpentBy
  <1>6. CodeRedeemedOnce'
    BY <1>2 DEF CodeRedeemedOnce, SpentBy
  <1>7. r.req.kind = "token" /\ r.req.id = f /\ r.req.gen = 1
    BY TokenFields, GenBound
  <1>8. FlyingIsSpent'
    <2>1. \A d \in Clients : Flying(d)' => d # c /\ Flying(d) /\ call'[d] = call[d]
      BY <1>1 DEF Flying
    <2>2. \A d \in Clients : Flying(d)' /\ call[d].req.kind = "code" => call[d].req # p
      BY <2>1 DEF SpentBy
    <2> QED
      BY <1>2, <2>1, <2>2 DEF FlyingIsSpent
  <1>9. \A d \in Clients, h \in Families : Holds(d, h)' => (Holds(d, h) /\ h # f) \/ (d = c /\ h = f)
    BY <1>1, <1>7 DEF Holds, Owned
  <1>10. Owned'
    <2> SUFFICES ASSUME NEW d \in Clients, NEW h \in Families, Holds(d, h)'
                 PROVE  current'[h] # 0 /\ \A e \in Clients : Holds(e, h)' => e = d
      BY DEF Owned
    <2> QED
      BY <1>2, <1>9 DEF Owned
  <1>11. Intact'
    <2> SUFFICES ASSUME NEW d \in Clients, d \notin hurt
                 PROVE  /\ call'[d].pc = "idle" /\ cred[d].kind = "token" => Good(cred[d])'
                        /\ call'[d].pc \in {"incr", "expire", "granted"} /\ call'[d].req.kind = "token"
                              => Good(call[d].req)'
      BY DEF Intact
    <2>1. CASE d = c
      <3>1. Good(call[c].req)'
        BY <1>1, <1>2, <1>3, <1>7 DEF Good
      <3> QED
        BY <1>1, <2>1, <3>1
    <2>2. CASE d # c
      <3>1. \A q \in Requests : q.kind = "token" /\ Good(q) => Good(q)'
        BY <1>2, <1>3, RequestKinds DEF Good
      <3>2. cred[d] \in Requests /\ call[d].req \in Requests
        BY DEF TokenTypes, CallSet
      <3>3. call[d].pc = "idle" /\ cred[d].kind = "token" => Good(cred[d])'
        BY <3>1, <3>2 DEF Intact
      <3>4. call[d].pc \in {"incr", "expire", "granted"} /\ call[d].req.kind = "token" => Good(call[d].req)'
        <4> SUFFICES ASSUME call[d].pc \in {"incr", "expire", "granted"}, call[d].req.kind = "token"
                     PROVE  Good(call[d].req)'
          OBVIOUS
        <4>1. PICK q \in Requests : q = call[d].req
          BY <3>2
        <4>2. Good(q)'
          BY <3>1, <4>1 DEF Intact
        <4> QED
          BY <1>1, <2>2, <4>1, <4>2 DEF Good
      <3> QED
        BY <1>1, <2>2, <3>3, <3>4
    <2> QED
      BY <2>1, <2>2
  <1> QED
    BY <1>4, <1>5, <1>6, <1>8, <1>10, <1>11
\* The end of a handler that does not rotate, or has rotated before.
LEMMA TokensFinish ==
    ASSUME TokensInv, NEW c \in Clients, NEW p \in Requests, NEW n, Finish(c, p, n, current, known),
           UNCHANGED <<limiter, tenant, handedOut, revoked, cred, hurt>>, pending' \subseteq pending,
           SpentBy(c, p), p.kind = "code" => p.id \notin pending', p.kind = "token" => Holds(c, p.id),
           c \notin hurt /\ p.kind = "token" => Good(p)
    PROVE  TokensInv'
  <1>1. revoked' \subseteq known /\ \A f \in Families : f \in revoked' => f \in revoked
    BY DEF TokensInv, TokenTypes
  <1>2. CASE ~Allows(n)
    <2>1. PICK r \in CallSet : r = [pc |-> "limited", req |-> p] /\ r.pc = "limited" /\ r.req = p
      BY CallFields
    <2>2. call' = [call EXCEPT ![c] = r] /\ UNCHANGED <<known, current, origin>>
      BY <1>2, <2>1 DEF Finish
    <2> QED
      BY <1>1, <2>1, <2>2, TokensMove
  <1>3. CASE Allows(n) /\ p.kind = "token"
    <2>1. PICK r \in CallSet : r = [pc |-> "granted", req |-> p] /\ r.pc = "granted" /\ r.req = p
      BY CallFields
    <2>2. call' = [call EXCEPT ![c] = r] /\ UNCHANGED <<known, current, origin>>
      BY <1>3, <2>1 DEF Finish
    <2>3. c \notin hurt => Good(r.req)'
      BY <1>3, <2>1, <2>2 DEF Good
    <2> QED
      BY <1>1, <1>3, <2>1, <2>2, <2>3, TokensMove
  <1>4. CASE Allows(n) /\ p.kind # "token"
    <2>1. PICK f \in Families : /\ current[f] = 0 /\ current' = [current EXCEPT ![f] = 1]
                                /\ known' = known \cup {f} /\ origin' = [origin EXCEPT ![f] = p]
                                /\ call' = [call EXCEPT ![c] = [pc |-> "granted", req |-> Token(f, 1)]]
      BY <1>4 DEF Finish
    <2>2. Token(f, 1) \in Requests
      BY TokenFields, GenBound
    <2>3. PICK r \in CallSet : r = [pc |-> "granted", req |-> Token(f, 1)] /\ r.pc = "granted" /\ r.req = Token(f, 1)
      BY <2>2, CallFields
    <2> QED
      BY <2>1, <2>3, TokensIssue
  <1> QED
    BY <1>2, <1>3, <1>4

\* Incr and Expire go on with the request of the handler.
LEMMA TokensAtRedis ==
    ASSUME TokensInv, NEW c \in Clients, Incr(c) \/ Expire(c)
    PROVE  TokensInv'
  <1>1. /\ Flying(c) /\ UNCHANGED <<limiter, tenant, pending, handedOut, revoked, cred, hurt>>
    BY DEF Incr, Expire, Flying, setup, codeVars
  <1>2. PICK p \in Requests : p = call[c].req
    BY DEF TokensInv, TokenTypes, CallSet
  <1>3. /\ SpentBy(c, p) /\ (p.kind = "code" => p.id \notin pending)
        /\ (p.kind = "token" => Holds(c, p.id)) /\ (c \notin hurt /\ p.kind = "token" => Good(p))
    BY <1>1, <1>2 DEF SpentBy, TokensInv, FlyingIsSpent, Flying, Holds, Intact
  <1>4. CASE \E n : Finish(c, p, n, current, known)
    BY <1>1, <1>3, <1>4, TokensFinish
  <1>5. CASE call' = [call EXCEPT ![c].pc = "expire"] /\ UNCHANGED <<known, current, origin>>
    <2>1. PICK r : r = [call[c] EXCEPT !.pc = "expire"]
      OBVIOUS
    <2>2. call[c] \in CallSet
      BY DEF TokensInv, TokenTypes
    <2>3. r \in CallSet /\ r.pc = "expire" /\ r.req = p
      BY <1>2, <2>1, <2>2 DEF CallSet
    <2>4. call' = [call EXCEPT ![c] = r]
      BY <1>5, <2>1
    <2>5. c \notin hurt /\ p.kind = "token" => Good(p)'
      BY <1>1, <1>3, <1>5 DEF Good
    <2>6. revoked' \subseteq known /\ pending' \subseteq pending /\ \A f \in Families : f \in revoked' => f \in revoked
      BY <1>1 DEF TokensInv, TokenTypes
    <2>7. c \notin hurt /\ r.pc \in {"incr", "expire", "granted"} /\ r.req.kind = "token" => Good(r.req)'
      BY <2>3, <2>5
    <2> QED
      BY <1>1, <1>3, <1>5, <2>3, <2>4, <2>6, <2>7, TokensMove
  <1> QED
    BY <1>2, <1>4, <1>5 DEF Incr, Expire

\* The limiter is asked, for a request that is no refresh.
LEMMA TokensEnforce ==
    ASSUME TokensInv, NEW c \in Clients, NEW p \in Requests, p.kind # "token", Enforce(c, p, current),
           UNCHANGED <<limiter, tenant, handedOut, revoked, cred, hurt>>, pending' \subseteq pending,
           SpentBy(c, p), p.kind = "code" => p.id \notin pending'
    PROVE  TokensInv'
  <1>1. CASE limiter = "memory"
    <2>1. PICK n : Finish(c, p, n, current, known)
      BY <1>1 DEF Enforce
    <2> QED
      BY <2>1, TokensFinish
  <1>2. CASE limiter # "memory"
    <2>1. PICK r \in CallSet : r = [pc |-> "incr", req |-> p] /\ r.pc = "incr" /\ r.req = p
      BY CallFields
    <2>2. call' = [call EXCEPT ![c] = r] /\ UNCHANGED <<known, current, origin>>
      BY <1>2, <2>1 DEF Enforce
    <2>3. revoked' \subseteq known /\ \A f \in Families : f \in revoked' => f \in revoked
      BY DEF TokensInv, TokenTypes
    <2> QED
      BY <2>1, <2>2, <2>3, TokensMove
  <1> QED
    BY <1>1, <1>2

\* A handler refuses.
LEMMA TokensRefuse ==
    ASSUME TokensInv, NEW c \in Clients, NEW p \in Requests, RefuseCall(c, p), p.kind = "token" => Holds(c, p.id),
           UNCHANGED <<limiter, tenant, handedOut, known, current, origin, cred, hurt>>, pending' \subseteq pending,
           revoked' \subseteq known, \A f \in Families : f \in revoked' => f \in revoked \/ Holds(c, f)
    PROVE  TokensInv'
  <1>1. PICK r \in CallSet : r = [pc |-> "refused", req |-> p] /\ r.pc = "refused" /\ r.req = p
    BY CallFields
  <1>2. call' = [call EXCEPT ![c] = r]
    BY <1>1 DEF RefuseCall
  <1> QED
    BY <1>1, <1>2, TokensMove

LEMMA TokensRedeem ==
    ASSUME TokensInv, NEW c \in Clients, NEW proven \in BOOLEAN, RedeemCode(c, proven)
    PROVE  TokensInv'
  <1>1. PICK p \in Requests : p = cred[c]
    BY DEF TokensInv, TokenTypes
  <1>2. /\ p.kind = "code" /\ pending' = pending \ {p.id}
        /\ UNCHANGED <<limiter, tenant, handedOut, revoked, cred, hurt>>
    BY <1>1 DEF RedeemCode, Consume, setup
  <1>3. revoked' \subseteq known /\ pending' \subseteq pending /\ \A f \in Families : f \in revoked' => f \in revoked
    BY <1>2 DEF TokensInv, TokenTypes
  <1>4. CASE p.id \in pending /\ proven
    <2>1. Enforce(c, p, current)
      BY <1>1, <1>4 DEF RedeemCode
    <2>2. SpentBy(c, p)
      BY <1>2, <1>4 DEF SpentBy, TokensInv, TokenTypes, IssuedIsSpent, FlyingIsSpent
    <2> QED
      BY <1>2, <1>3, <2>1, <2>2, TokensEnforce
  <1>5. CASE ~(p.id \in pending /\ proven)
    <2>1. RefuseCall(c, p) /\ UNCHANGED <<known, current, origin>>
      BY <1>1, <1>5 DEF RedeemCode
    <2> QED
      BY <1>2, <1>3, <2>1, TokensRefuse
  <1> QED
    BY <1>4, <1>5

LEMMA TokensSso ==
    ASSUME TokensInv, NEW c \in Clients, NEW a \in Assertions, SsoCallback(c, a)
    PROVE  TokensInv'
  <1>1. UNCHANGED <<limiter, tenant, pending, handedOut, revoked, cred, hurt>>
    BY DEF SsoCallback, setup, codeVars
  <1>2. revoked' \subseteq known /\ pending' \subseteq pending /\ \A f \in Families : f \in revoked' => f \in revoked
    BY <1>1 DEF TokensInv, TokenTypes
  <1>3. SpentBy(c, Sso)
    BY NoneFields DEF SpentBy
  <1>4. CASE Enforce(c, Sso, current)
    BY <1>1, <1>2, <1>3, <1>4, NoneFields, TokensEnforce
  <1>5. CASE RefuseCall(c, Sso) /\ UNCHANGED <<known, current, origin>>
    BY <1>1, <1>2, <1>5, NoneFields, TokensRefuse
  <1> QED
    BY <1>4, <1>5 DEF SsoCallback

LEMMA TokensRefresh ==
    ASSUME TokensInv, NEW c \in Clients, RefreshToken(c)
    PROVE  TokensInv'
  <1>1. PICK p \in Requests : p = cred[c]
    BY DEF TokensInv, TokenTypes
  <1>2. /\ p.kind = "token" /\ p.gen < MaxGen /\ call[c] = NoCall
        /\ UNCHANGED <<limiter, tenant, pending, handedOut, cred, hurt>>
    BY <1>1 DEF RefreshToken, setup, codeVars
  <1>3. PICK f \in Families : f = p.id /\ Holds(c, f) /\ p.gen \in 1..MaxGen
    BY <1>1, <1>2, RequestKinds DEF Holds
  <1>4. CASE Good(p)
    <2>1. PICK g \in 1..MaxGen : g = p.gen + 1
      BY <1>2, <1>3, GenBound
    <2>2. Enforce(c, Token(f, g), [current EXCEPT ![f] = g]) /\ UNCHANGED revoked
      BY <1>1, <1>3, <1>4, <2>1 DEF RefreshToken, Good, Rotated
    <2>3. Token(f, g) \in Requests /\ Token(f, g).kind = "token"
      BY TokenFields
    <2>4. PICK cc \in {"incr", "granted", "limited"} :
             /\ call' = [call EXCEPT ![c] = [pc |-> cc, req |-> Token(f, g)]]
             /\ current' = [current EXCEPT ![f] = g] /\ UNCHANGED <<known, origin>>
      BY <2>2, <2>3 DEF Enforce, Finish
    <2>5. PICK r \in CallSet : r = [pc |-> cc, req |-> Token(f, g)] /\ r.pc = cc /\ r.req = Token(f, g)
      BY <2>3, CallFields
    <2> QED
      BY <1>1, <1>2, <1>3, <1>4, <2>1, <2>2, <2>4, <2>5, TokensRotate
  <1>5. CASE ~Good(p)
    <2>1. RefuseCall(c, p) /\ UNCHANGED <<known, current, origin>> /\ revoked' = Revoked(f)
      BY <1>1, <1>3, <1>5 DEF RefreshToken, Good
    <2>2. revoked' \subseteq known /\ \A h \in Families : h \in revoked' => h \in revoked \/ Holds(c, h)
      BY <1>3, <2>1 DEF Revoked, TokensInv, TokenTypes
    <2> QED
      BY <1>2, <1>3, <2>1, <2>2, TokensRefuse
  <1> QED
    BY <1>4, <1>5

LEMMA TokensAuthorize ==
    ASSUME TokensInv, NEW c \in Clients, NEW k \in Codes, Authorize(c, k)
    PROVE  TokensInv'
  <1> USE DEF TokensInv
  <1>1. /\ UNCHANGED <<limiter, tenant, known, current, revoked, origin, call, hurt>>
        /\ k \notin handedOut /\ handedOut' = handedOut \cup {k} /\ pending' = pending \cup {k}
        /\ cred' = [cred EXCEPT ![c] = Code(k)]
    BY DEF Authorize, setup, tokenVars
  <1>2. Code(k) \in Requests /\ Code(k).kind = "code"
    BY DEF Code, Requests
  <1>3. TokenTypes'
    BY <1>1, <1>2 DEF TokenTypes
  <1>4. cred'[c] = Code(k) /\ \A d \in Clients : d # c => cred'[d] = cred[d]
    BY <1>1 DEF TokenTypes
  <1>5. IssuedIsSpent' /\ CodeRedeemedOnce' /\ FlyingIsSpent'
    BY <1>1 DEF IssuedIsSpent, CodeRedeemedOnce, FlyingIsSpent, Flying
  <1>6. \A d \in Clients, f \in Families : Holds(d, f)' => Holds(d, f)
    BY <1>1, <1>2, <1>4 DEF Holds
  <1>7. Owned'
    BY <1>1, <1>6 DEF Owned
  <1>8. Intact'
    BY <1>1, <1>2, <1>4 DEF Intact, Good
  <1> QED
    BY <1>3, <1>5, <1>7, <1>8

LEMMA TokensAnswered ==
    ASSUME TokensInv, NEW c \in Clients, AgDeliver(c) \/ AnswerLost(c)
    PROVE  TokensInv'
  <1> USE DEF TokensInv
  <1>1. /\ UNCHANGED <<limiter, tenant, pending, handedOut, known, current, revoked, origin>>
        /\ call' = [call EXCEPT ![c] = NoCall] /\ hurt \subseteq hurt' /\ hurt' \subseteq hurt \cup {c}
    BY DEF AgDeliver, AnswerLost, setup, codeVars, tokenVars
  <1>2. PICK q \in Requests :
           /\ cred' = [cred EXCEPT ![c] = q] /\ (q.kind = "token" => Holds(c, q.id))
           /\ c \notin hurt' /\ q.kind = "token" => Good(q)
    <2>1. cred[c] \in Requests /\ call[c].req \in Requests /\ cred \in [Clients -> Requests]
      BY DEF TokenTypes, CallSet
    <2>2. CASE AnswerLost(c)
      BY <2>1, <2>2 DEF AnswerLost, Holds
    <2>3. CASE AgDeliver(c) /\ call[c].pc = "granted"
      BY <2>1, <2>3 DEF AgDeliver, Holds, Intact
    <2>4. CASE AgDeliver(c) /\ call[c].pc = "refused"
      BY <2>1, <2>4, NoneFields DEF AgDeliver, Holds
    <2>5. CASE AgDeliver(c) /\ call[c].pc = "limited"
      BY <2>1, <2>5 DEF AgDeliver, Holds
    <2> QED
      BY <2>2, <2>3, <2>4, <2>5 DEF AgDeliver
  <1>3. TokenTypes'
    BY <1>1, <1>2, IdleFields DEF TokenTypes
  <1>4. /\ call'[c] = NoCall /\ cred'[c] = q
        /\ \A d \in Clients : d # c => call'[d] = call[d] /\ cred'[d] = cred[d]
    BY <1>1, <1>2 DEF TokenTypes
  <1>5. IssuedIsSpent' /\ CodeRedeemedOnce'
    BY <1>1 DEF IssuedIsSpent, CodeRedeemedOnce
  <1>6. \A d \in Clients : Flying(d)' => Flying(d) /\ call'[d] = call[d]
    BY <1>4, IdleFields DEF Flying
  <1>7. FlyingIsSpent'
    BY <1>1, <1>6 DEF FlyingIsSpent
  <1>8. \A d \in Clients, f \in Families : Holds(d, f)' => Holds(d, f)
    BY <1>2, <1>4, IdleFields, NoneFields DEF Holds
  <1>9. Owned'
    BY <1>1, <1>8 DEF Owned
  <1>10. Intact'
    BY <1>1, <1>2, <1>4, IdleFields DEF Intact, Good
  <1> QED
    BY <1>3, <1>5, <1>7, <1>9, <1>10

LEMMA TokensRestart ==
    ASSUME TokensInv, GatewayRestarts
    PROVE  TokensInv'
  <1> USE DEF TokensInv
  <1>1. /\ UNCHANGED <<limiter, tenant, handedOut, current, origin, cred>>
        /\ pending' = {} /\ known' = {} /\ revoked' = {} /\ hurt' = Clients
        /\ call' = [c \in Clients |-> NoCall]
    BY DEF GatewayRestarts, setup
  <1>2. TokenTypes'
    BY <1>1, IdleFields DEF TokenTypes
  <1>3. IssuedIsSpent' /\ CodeRedeemedOnce' /\ FlyingIsSpent' /\ Intact'
    BY <1>1, IdleFields DEF IssuedIsSpent, CodeRedeemedOnce, FlyingIsSpent, Flying, Intact
  <1>4. \A d \in Clients, f \in Families : Holds(d, f)' => Holds(d, f)
    BY <1>1, IdleFields, NoneFields DEF Holds
  <1>5. Owned'
    BY <1>1, <1>4 DEF Owned
  <1> QED
    BY <1>2, <1>3, <1>5

LEMMA TokensNext == TokensInv /\ [AgNext]_agVars => TokensInv'
  <1> SUFFICES ASSUME TokensInv, [AgNext]_agVars PROVE TokensInv'
    OBVIOUS
  <1>1. ASSUME UNCHANGED <<limiter, tenant, pending, handedOut, known, current, revoked, origin, cred, call, hurt>>
        PROVE  TokensInv'
    BY <1>1 DEF TokensInv, TokenTypes, IssuedIsSpent, CodeRedeemedOnce, FlyingIsSpent, Flying, Owned, Holds, Intact, Good
  <1>2. CASE UNCHANGED agVars
    BY <1>1, <1>2 DEF agVars
  <1>3. CASE AgTick
    BY <1>1, <1>3 DEF AgTick, setup, codeVars, tokenVars
  <1> QED
    BY <1>2, <1>3, TokensAuthorize, TokensRedeem, TokensRefresh, TokensSso, TokensAtRedis, TokensAnswered, TokensRestart DEF AgNext

(* SessionSurvives, for any number of clients, tenants, codes and families and *)
(* either limiter: a code is consumed before the handler can be suspended      *)
(* (pkce.py), so no two handlers issue a family for it; and rotation           *)
(* (refresh_tokens.py) never retires a token under a client that got all its   *)
(* answers, whatever other clients present and wherever they are suspended.    *)
THEOREM UnhurtClientsHoldTheCurrentToken == AgSpec => []SessionSurvives
  <1>1. TokensInv => SessionSurvives
    BY IdleFields DEF TokensInv, SessionSurvives, Intact, Good
  <1> QED
    BY <1>1, TokensInit, TokensNext, PTL DEF AgSpec

-----------------------------------------------------------------------------
(* ApiGateway: the rate limit *)

WinSet == [count : 0..Limit + 1, age : 0..Window, armed : BOOLEAN]
History == [0..Window - 1 -> Nat]

\* How many of a history's requests are among its n latest ticks.
Upto(h, n) == SumOver(h, 0..n - 1)

LEMMA LimitBounds == Limit \in Nat /\ Limit >= 1 /\ Window \in Nat /\ Window >= 1
  BY GatewayAssumption

LEMMA SumIsUpto ==
    ASSUME NEW h \in History
    PROVE  SumFunction(h) = Upto(h, Window)
  <1>1. DOMAIN h = 0..Window - 1
    BY DEF History
  <1> QED
    BY <1>1 DEF SumFunction, SumFunctionOnSet, FoldFunctionOnSet, Upto, SumOver, MapThenSumSet, MapThenFoldSet

LEMMA UptoNat ==
    ASSUME NEW h \in History, NEW n \in 0..Window
    PROVE  Upto(h, n) \in Nat
  <1>1. IsFiniteSet(0..n - 1)
    BY LimitBounds, FS_Interval
  <1>2. \A a \in 0..n - 1 : h[a] \in Nat
    BY LimitBounds DEF History
  <1> QED
    BY <1>1, <1>2, SumBoundsSupport DEF Upto

LEMMA UptoNone ==
    ASSUME NEW h
    PROVE  Upto(h, 0) = 0
  <1>1. 0..0 - 1 = {}
    OBVIOUS
  <1> QED
    BY <1>1, SumEmpty DEF Upto

LEMMA UptoNext ==
    ASSUME NEW h \in History, NEW n \in 0..Window - 1
    PROVE  Upto(h, n + 1) = Upto(h, n) + h[n]
  <1>1. PICK S : S = 0..n
    OBVIOUS
  <1>2. n \in S /\ IsFiniteSet(S)
    BY <1>1, LimitBounds, FS_Interval
  <1>7. S \ {n} = 0..n - 1
    BY <1>1, LimitBounds
  <1>8. (n + 1) - 1 = n
    BY LimitBounds
  <1>3. \A a \in S : h[a] \in Int
    BY <1>1, LimitBounds DEF History
  <1>4. SumOver(h, S) = h[n] + SumOver(h, S \ {n})
    BY <1>2, <1>3, SumRemove
  <1>5. Upto(h, n + 1) = SumOver(h, S) /\ Upto(h, n) = SumOver(h, S \ {n})
    BY <1>1, <1>7, <1>8, Zenon DEF Upto
  <1>6. Upto(h, n) \in Nat /\ h[n] \in Nat
    BY LimitBounds, UptoNat DEF History
  <1> QED
    BY <1>4, <1>5, <1>6

LEMMA UptoGrows ==
    ASSUME NEW h \in History, NEW m \in 0..Window, NEW n \in 0..Window, m <= n
    PROVE  Upto(h, m) <= Upto(h, n)
  <1>1. PICK B : B = {i \in m..Window : Upto(h, m) > Upto(h, i)}
    OBVIOUS
  <1>2. CASE B # {}
    <2>1. B \subseteq Nat
      BY <1>1, LimitBounds
    <2>2. PICK i \in B : \A j \in B : i <= j
      BY <1>2, <2>1, LeastExists
    <2>3. i \in m..Window /\ Upto(h, m) > Upto(h, i)
      BY <1>1, <2>2
    <2>4. Upto(h, m) \in Nat /\ Upto(h, i) \in Nat
      BY <2>3, LimitBounds, UptoNat
    <2>5. i # m
      BY <2>3, <2>4
    <2>6. PICK j \in 0..Window - 1 : i = j + 1 /\ j \in m..Window
      BY <2>3, <2>5, LimitBounds
    <2>7. j \notin B
      BY <2>2, <2>6
    <2>8. ~(Upto(h, m) > Upto(h, j)) /\ Upto(h, j) \in Nat /\ h[j] \in Nat
      BY <1>1, <2>6, <2>7, LimitBounds, UptoNat DEF History
    <2>9. Upto(h, i) = Upto(h, j) + h[j]
      BY <2>6, UptoNext
    <2> QED
      BY <2>3, <2>4, <2>8, <2>9
  <1>3. CASE B = {}
    <2>1. ~(Upto(h, m) > Upto(h, n))
      BY <1>1, <1>3, LimitBounds
    <2>2. Upto(h, m) \in Nat /\ Upto(h, n) \in Nat
      BY UptoNat
    <2> QED
      BY <2>1, <2>2
  <1> QED
    BY <1>2, <1>3

\* k is h a tick later.
Later(k, h) == k[0] = 0 /\ \A a \in 1..Window - 1 : k[a] = h[a - 1]

LEMMA UptoLater ==
    ASSUME NEW h \in History, NEW k \in History, Later(k, h), NEW n \in 0..Window - 1
    PROVE  Upto(k, n + 1) = Upto(h, n)
  <1>1. PICK B : B = {i \in 0..Window - 1 : Upto(k, i + 1) # Upto(h, i)}
    OBVIOUS
  <1>2. CASE B # {}
    <2>1. B \subseteq Nat
      BY <1>1, LimitBounds
    <2>2. PICK i \in B : \A j \in B : i <= j
      BY <1>2, <2>1, LeastExists
    <2>3. i \in 0..Window - 1 /\ Upto(k, i + 1) # Upto(h, i)
      BY <1>1, <2>2
    <2>4. Upto(k, i + 1) = Upto(k, i) + k[i]
      BY <2>3, UptoNext
    <2>5. i # 0
      <3>1. CASE i = 0
        <4>1. Upto(k, 0 + 1) = 0 + 0
          BY <2>4, <3>1, UptoNone DEF Later
        <4> QED
          BY <2>3, <3>1, <4>1, UptoNone
      <3> QED
        BY <3>1
    <2>6. PICK j \in 0..Window - 1 : i = j + 1
      BY <2>3, <2>5, LimitBounds
    <2>7. j \notin B
      BY <2>2, <2>6
    <2>8. Upto(k, i) = Upto(h, j)
      BY <1>1, <2>6, <2>7
    <2>9. k[i] = h[j]
      BY <2>3, <2>5, <2>6, LimitBounds DEF Later
    <2>10. Upto(h, i) = Upto(h, j) + h[j]
      BY <2>6, UptoNext
    <2> QED
      BY <2>3, <2>4, <2>8, <2>9, <2>10
  <1>3. CASE B = {}
    BY <1>1, <1>3
  <1> QED
    BY <1>2, <1>3

\* k is h with one more request now, if any.
Bumped(k, h) == k[0] \in {h[0], h[0] + 1} /\ \A a \in 1..Window - 1 : k[a] = h[a]

LEMMA UptoBumped ==
    ASSUME NEW h \in History, NEW k \in History, Bumped(k, h), NEW n \in 1..Window
    PROVE  Upto(k, n) = Upto(h, n) - h[0] + k[0]
  <1>1. PICK S : S = 0..n - 1
    OBVIOUS
  <1>2. IsFiniteSet(S) /\ 0 \in S
    BY <1>1, LimitBounds, FS_Interval
  <1>3. \A a \in S : h[a] \in Int
    BY <1>1, LimitBounds DEF History
  <1>4. \A a \in S : a # 0 => k[a] = h[a]
    BY <1>1, LimitBounds DEF Bumped
  <1>5. k[0] \in Int
    BY LimitBounds DEF History
  <1>6. SumOver(k, S) = SumOver(h, S) - h[0] + k[0]
    BY <1>2, <1>3, <1>4, <1>5, SumExcept
  <1> QED
    BY <1>1, <1>6 DEF Upto
\* The requests let through so far, h, against the limiter's entry w.  Without a
\* window that is still open, one window's worth at most and none now.  With
\* one: it opened n - 1 ticks ago; it has let through as many as it counted and
\* no more than the limit, e of them still between INCR and EXPIRE; what came
\* before it is at most one window's worth.
Closed(w) == w.count = 0 \/ w.age >= Window

Opened(w, h, e, n) ==
    /\ (w.armed => n = w.age + 1) /\ (e = 1 => n = 1)
    /\ Upto(h, n) + e <= w.count /\ Upto(h, n) + e <= Limit
    /\ Upto(h, Window) <= Upto(h, n) + Limit

Fits(w, h, e) ==
    /\ Closed(w) => /\ Upto(h, Window) <= Limit /\ h[0] = 0 /\ e = 0
                    /\ w.count = 0 => w.age = 0 /\ ~w.armed
    /\ ~Closed(w) => \E n \in 1..Window : Opened(w, h, e, n)

LEMMA FirstTick ==
    ASSUME NEW h \in History
    PROVE  h[0] \in Nat /\ Upto(h, 1) = h[0]
  <1>1. 0 \in 0..Window - 1 /\ h[0] \in Nat
    BY LimitBounds DEF History
  <1>2. Upto(h, 0 + 1) = Upto(h, 0) + h[0]
    BY <1>1, UptoNext
  <1> QED
    BY <1>1, <1>2, UptoNone

\* A request in an open window.
LEMMA FitsHit ==
    ASSUME NEW w \in WinSet, NEW v \in WinSet, NEW h \in History, NEW k \in History, NEW e \in {0, 1},
           Fits(w, h, e), ~Closed(w), v.count = Count(w.count + 1), v.age = w.age, v.armed = w.armed,
           Bumped(k, h), v.count > Limit => k = h
    PROVE  Fits(v, k, e) /\ v.count # 1
  <1>1. /\ w.count \in Nat /\ w.count >= 1 /\ w.count <= Limit + 1 /\ w.age < Window /\ w.age \in Nat
        /\ v.count \in Nat /\ v.count >= 2 /\ v.count >= w.count
        /\ v.count <= Limit => v.count = w.count + 1
    BY LimitBounds DEF WinSet, Closed, Count
  <1>2. ~Closed(v)
    BY <1>1, LimitBounds DEF Closed
  <1>3. PICK n \in 1..Window : Opened(w, h, e, n)
    BY DEF Fits
  <1>4. h[0] \in Nat /\ k[0] \in Nat /\ k[0] >= h[0] /\ k[0] <= h[0] + 1
    BY FirstTick DEF Bumped
  <1>5. /\ Upto(k, n) = Upto(h, n) - h[0] + k[0] /\ Upto(k, Window) = Upto(h, Window) - h[0] + k[0]
        /\ Upto(h, n) \in Nat /\ Upto(h, Window) \in Nat
    BY LimitBounds, UptoBumped, UptoNat
  <1>6. Opened(v, k, e, n)
    <2>1. CASE v.count > Limit
      BY <1>1, <1>3, <1>5, <2>1, LimitBounds DEF Opened
    <2>2. CASE v.count <= Limit
      BY <1>1, <1>3, <1>4, <1>5, <2>2, LimitBounds DEF Opened
    <2> QED
      BY <1>1, <2>1, <2>2, LimitBounds
  <1> QED
    BY <1>1, <1>2, <1>6 DEF Fits

\* INCR creates the key.
LEMMA FitsCreated ==
    ASSUME NEW w \in WinSet, NEW v \in WinSet, NEW h \in History, Fits(w, h, 0), w.count = 0,
           v.count = 1, v.age = w.age, v.armed = w.armed
    PROVE  Fits(v, h, 1)
  <1>1. h[0] = 0 /\ w.age = 0 /\ ~w.armed /\ Upto(h, Window) <= Limit
    BY DEF Fits, Closed
  <1>2. Upto(h, 1) = 0 /\ Upto(h, Window) \in Nat
    BY <1>1, FirstTick, UptoNat, LimitBounds
  <1>3. ~Closed(v)
    BY <1>1, LimitBounds DEF Closed
  <1>4. Opened(v, h, 1, 1)
    BY <1>1, <1>2, LimitBounds DEF Opened
  <1> QED
    BY <1>3, <1>4, LimitBounds DEF Fits

\* EXPIRE starts the clock of the window its INCR created.
LEMMA FitsArmed ==
    ASSUME NEW w \in WinSet, NEW v \in WinSet, NEW h \in History, NEW k \in History, Fits(w, h, 1),
           v.count = w.count, v.age = 0, v.armed, Bumped(k, h)
    PROVE  Fits(v, k, 0)
  <1>1. ~Closed(w)
    BY DEF Fits
  <1>2. Opened(w, h, 1, 1) /\ ~Closed(v) /\ w.count \in Nat
    BY <1>1, LimitBounds DEF Fits, Opened, Closed, WinSet
  <1>3. h[0] \in Nat /\ k[0] \in Nat /\ k[0] <= h[0] + 1
    BY FirstTick DEF Bumped
  <1>4. /\ Upto(k, 1) = Upto(h, 1) - h[0] + k[0] /\ Upto(k, Window) = Upto(h, Window) - h[0] + k[0]
        /\ Upto(h, 1) \in Nat /\ Upto(h, Window) \in Nat
    BY LimitBounds, UptoBumped, UptoNat
  <1>5. Opened(v, k, 0, 1)
    BY <1>2, <1>3, <1>4, LimitBounds DEF Opened
  <1> QED
    BY <1>2, <1>5, LimitBounds DEF Fits

\* The in-memory limiter opens a window.
LEMMA FitsOpened ==
    ASSUME NEW w \in WinSet, NEW v \in WinSet, NEW h \in History, NEW k \in History, Fits(w, h, 0), Closed(w),
           v.count = 1, v.age = 0, v.armed, Bumped(k, h)
    PROVE  Fits(v, k, 0)
  <1>1. h[0] = 0 /\ Upto(h, Window) <= Limit /\ Upto(h, Window) \in Nat /\ k[0] \in {0, 1}
    BY LimitBounds, UptoNat DEF Fits, Bumped
  <1>2. Upto(k, 1) = k[0]
    BY FirstTick
  <1>3. Upto(k, Window) = Upto(h, Window) - 0 + k[0]
    BY <1>1, LimitBounds, UptoBumped
  <1>4. ~Closed(v) /\ Opened(v, k, 0, 1)
    BY <1>1, <1>2, <1>3, LimitBounds DEF Closed, Opened
  <1> QED
    BY <1>4, LimitBounds DEF Fits

\* A tick: the window grows older and may close.
LEMMA FitsAged ==
    ASSUME NEW w \in WinSet, NEW v \in WinSet, NEW h \in History, NEW k \in History, Later(k, h), Fits(w, h, 0),
           \/ ~w.armed /\ v = w
           \/ w.armed /\ w.age + 1 < Window /\ v.count = w.count /\ v.age = w.age + 1 /\ v.armed
           \/ w.armed /\ w.age + 1 >= Window /\ Closed(v) /\ (v.count = 0 => v.age = 0 /\ ~v.armed)
    PROVE  Fits(v, k, 0)
  <1>1. PICK m \in 0..Window - 1 : m + 1 = Window
    BY LimitBounds
  <1>2. /\ Upto(k, Window) = Upto(h, m) /\ Upto(h, m) <= Upto(h, Window)
        /\ Upto(h, m) \in Nat /\ Upto(h, Window) \in Nat
    BY <1>1, LimitBounds, UptoLater, UptoGrows, UptoNat
  <1>3. k[0] = 0
    BY DEF Later
  <1>4. CASE Upto(h, Window) <= Limit /\ Closed(v) /\ (v.count = 0 => v.age = 0 /\ ~v.armed)
    BY <1>2, <1>3, <1>4, LimitBounds DEF Fits
  <1>5. ASSUME NEW n \in 1..Window, Opened(w, h, 0, n), ~Closed(v), v.count = w.count,
               v.armed => n < Window /\ n + 1 = v.age + 1
        PROVE  Fits(v, k, 0)
    <2>1. CASE n < Window
      <3>1. /\ n + 1 \in 1..Window /\ Upto(k, n + 1) = Upto(h, n) /\ Upto(h, n) \in Nat
        BY <2>1, LimitBounds, UptoLater, UptoNat
      <3>2. Opened(v, k, 0, n + 1)
        BY <1>2, <1>5, <3>1, LimitBounds DEF Opened
      <3> QED
        BY <1>5, <3>1, <3>2 DEF Fits
    <2>2. CASE n = Window
      <3>1. w.count \in Nat
        BY DEF WinSet
      <3>2. Opened(v, k, 0, n)
        BY <1>2, <1>5, <2>2, <3>1, LimitBounds DEF Opened
      <3> QED
        BY <1>5, <3>2 DEF Fits
    <2> QED
      BY <2>1, <2>2, LimitBounds
  <1>6. CASE Closed(w) /\ (~w.armed /\ v = w)
    BY <1>4, <1>6 DEF Fits
  <1>7. CASE ~Closed(w) /\ (~w.armed /\ v = w)
    BY <1>5, <1>7 DEF Fits
  <1>8. CASE w.armed /\ w.age + 1 < Window /\ v.count = w.count /\ v.age = w.age + 1 /\ v.armed
    <2>1. w.age \in Nat /\ w.count \in Nat
      BY DEF WinSet
    <2>2. ~Closed(w)
      BY <1>8, <2>1, LimitBounds DEF Fits, Closed
    <2>3. ~Closed(v)
      BY <1>8, <2>1, <2>2, LimitBounds DEF Closed
    <2>4. PICK n \in 1..Window : Opened(w, h, 0, n)
      BY <2>2 DEF Fits
    <2>5. n = w.age + 1
      BY <1>8, <2>4 DEF Opened
    <2> QED
      BY <1>5, <1>8, <2>1, <2>3, <2>4, <2>5
  <1>9. CASE w.armed /\ w.age + 1 >= Window /\ Closed(v) /\ (v.count = 0 => v.age = 0 /\ ~v.armed)
    <2>1. CASE Closed(w)
      BY <1>4, <1>9, <2>1 DEF Fits
    <2>2. CASE ~Closed(w)
      <3>1. PICK n \in 1..Window : Opened(w, h, 0, n)
        BY <2>2 DEF Fits
      <3>2. w.age \in Nat /\ n = w.age + 1
        BY <1>9, <3>1 DEF Opened, WinSet
      <3>3. n = Window
        BY <1>9, <2>2, <3>2, LimitBounds DEF Closed
      <3>4. Upto(h, Window) <= Limit
        BY <1>2, <3>1, <3>3 DEF Opened
      <3> QED
        BY <1>4, <1>9, <3>4
    <2> QED
      BY <2>1, <2>2
  <1> QED
    BY <1>6, <1>7, <1>8, <1>9
\* A handler between INCR and EXPIRE of its tenant's key.
AtExpire(c, t) == call[c].pc = "expire" /\ tenant[c] = t
Waits(t) == IF \E c \in Clients : AtExpire(c, t) THEN 1 ELSE 0

LimiterOK ==
    /\ \A c \in Clients : Flying(c) => limiter = "redis"
    /\ \A c, d \in Clients, t \in Tenants : AtExpire(c, t) /\ AtExpire(d, t) => c = d

WindowOK(w) ==
    /\ limiter = "memory" => w.count = 0 \/ w.armed
    /\ limiter = "redis" => w.age < Window

BurstInv ==
    /\ window \in [Tenants -> WinSet] /\ granted \in [Tenants -> History]
    /\ \A t \in Tenants : Fits(window[t], granted[t], Waits(t)) /\ WindowOK(window[t])
    /\ LimiterOK

LEMMA EmptyFits ==
    ASSUME NEW w \in WinSet, NEW h \in History, w.count = 0, w.age = 0, ~w.armed, \A a \in 0..Window - 1 : h[a] = 0
    PROVE  Fits(w, h, 0)
  <1>1. IsFiniteSet(0..Window - 1) /\ 0 \in 0..Window - 1
    BY LimitBounds, FS_Interval
  <1>2. Upto(h, Window) = 0
    BY <1>1, SumOfZeros DEF Upto
  <1> QED
    BY <1>1, <1>2, LimitBounds DEF Fits, Closed

LEMMA NoWindowFields ==
    /\ NoWindow \in WinSet /\ NoWindow.count = 0 /\ NoWindow.age = 0 /\ ~NoWindow.armed
    /\ Never \in History /\ \A a \in 0..Window - 1 : Never[a] = 0
  <1>1. 0 \in 0..Limit + 1 /\ 0 \in 0..Window
    BY LimitBounds
  <1> QED
    BY <1>1 DEF NoWindow, WinSet, Never, History

LEMMA BurstInit == AgInit => BurstInv
  <1> SUFFICES ASSUME AgInit PROVE BurstInv
    OBVIOUS
  <1>1. \A c \in Clients : call[c].pc = "idle"
    BY IdleFields DEF AgInit
  <1>2. LimiterOK /\ \A t \in Tenants : Waits(t) = 0
    BY <1>1 DEF LimiterOK, Flying, AtExpire, Waits
  <1>3. \A t \in Tenants : window[t] = NoWindow /\ granted[t] = Never
    BY DEF AgInit
  <1>4. window \in [Tenants -> WinSet] /\ granted \in [Tenants -> History]
    BY NoWindowFields DEF AgInit
  <1>5. Fits(NoWindow, Never, 0) /\ WindowOK(NoWindow)
    BY NoWindowFields, EmptyFits, LimitBounds DEF WindowOK
  <1> QED
    BY <1>2, <1>3, <1>4, <1>5 DEF BurstInv

\* The entry of one tenant changes.
LEMMA BurstChanges ==
    ASSUME BurstInv, NEW t \in Tenants, NEW v \in WinSet, NEW k \in History,
           window' = [window EXCEPT ![t] = v], granted' = [granted EXCEPT ![t] = k],
           UNCHANGED limiter, Fits(v, k, Waits(t)'), WindowOK(v), LimiterOK',
           \A u \in Tenants : u # t => Waits(u)' = Waits(u)
    PROVE  BurstInv'
  <1>1. window'[t] = v /\ granted'[t] = k /\ \A u \in Tenants : u # t => window'[u] = window[u] /\ granted'[u] = granted[u]
    BY DEF BurstInv
  <1>2. window' \in [Tenants -> WinSet] /\ granted' \in [Tenants -> History]
    BY DEF BurstInv
  <1>3. ASSUME NEW u \in Tenants PROVE Fits(window[u], granted[u], Waits(u))' /\ WindowOK(window[u])'
    <2>1. CASE u = t
      BY <1>1, <2>1 DEF Fits, Closed, Opened, Upto, WindowOK
    <2>2. CASE u # t
      <3>1. Fits(window[u], granted[u], Waits(u)) /\ WindowOK(window[u])
        BY DEF BurstInv
      <3> QED
        BY <1>1, <2>2, <3>1 DEF Fits, Closed, Opened, Upto, WindowOK
    <2> QED
      BY <2>1, <2>2
  <1> QED
    BY <1>2, <1>3 DEF BurstInv

\* Nothing is counted and nobody gets to EXPIRE or leaves it.
LEMMA BurstStays ==
    ASSUME BurstInv, UNCHANGED <<limiter, tenant, window, granted>>, LimiterOK',
           \A c \in Clients : call'[c].pc = "expire" <=> call[c].pc = "expire"
    PROVE  BurstInv'
  <1>1. \A t \in Tenants : Waits(t)' = Waits(t)
    BY DEF Waits, AtExpire
  <1>2. ASSUME NEW u \in Tenants PROVE Fits(window[u], granted[u], Waits(u))' /\ WindowOK(window[u])'
    <2>1. Fits(window[u], granted[u], Waits(u)) /\ WindowOK(window[u])
      BY DEF BurstInv
    <2> QED
      BY <1>1, <2>1 DEF Fits, Closed, Opened, Upto, WindowOK
  <1> QED
    BY <1>2 DEF BurstInv

\* What the end of a handler does to the history and to its call.
LEMMA FinishGrants ==
    ASSUME TokensInv, BurstInv, NEW c \in Clients, NEW t \in Tenants, t = tenant[c], NEW p \in Requests,
           NEW n, NEW cur, NEW kn, Finish(c, p, n, cur, kn)
    PROVE  /\ \E k \in History : /\ granted' = [granted EXCEPT ![t] = k] /\ Bumped(k, granted[t])
                                 /\ ~Allows(n) => k = granted[t]
           /\ call'[c].pc \in {"granted", "limited"} /\ \A d \in Clients : d # c => call'[d] = call[d]
  <1>1. granted[t] \in History /\ granted \in [Tenants -> History] /\ 0 \in 0..Window - 1
    BY LimitBounds DEF BurstInv
  <1>2. call'[c].pc \in {"granted", "limited"} /\ \A d \in Clients : d # c => call'[d] = call[d]
    BY DEF Finish, TokensInv, TokenTypes
  <1>3. CASE ~Allows(n)
    <2>1. granted' = granted
      BY <1>3 DEF Finish
    <2>2. granted' = [granted EXCEPT ![t] = granted[t]] /\ Bumped(granted[t], granted[t])
      BY <1>1, <2>1 DEF Bumped
    <2> QED
      BY <1>1, <1>2, <2>2
  <1>4. CASE Allows(n)
    <2>0. granted[t][0] \in Nat
      BY <1>1, FirstTick
    <2>1. PICK x \in Nat : x = (IF granted[t][0] > Limit THEN granted[t][0] ELSE granted[t][0] + 1)
      BY <2>0
    <2>2. granted' = [granted EXCEPT ![t] = [granted[t] EXCEPT ![0] = x]]
      BY <1>4, <2>1 DEF Finish, Bump
    <2>3. PICK k : k = [granted[t] EXCEPT ![0] = x]
      OBVIOUS
    <2>4. k \in History /\ k[0] = x /\ \A a \in 1..Window - 1 : k[a] = granted[t][a]
      BY <1>1, <2>3, LimitBounds DEF History
    <2>5. Bumped(k, granted[t])
      BY <2>1, <2>4 DEF Bumped
    <2> QED
      BY <1>2, <1>4, <2>2, <2>3, <2>4, <2>5
  <1> QED
    BY <1>3, <1>4

\* The handler leaves the limiter.
LEMMA LimiterLeft ==
    ASSUME BurstInv, NEW c \in Clients, call'[c].pc \notin {"incr", "expire"}, UNCHANGED <<limiter, tenant>>,
           \A d \in Clients : d # c => call'[d] = call[d]
    PROVE  LimiterOK'
  <1>1. \A d \in Clients, t \in Tenants : AtExpire(d, t)' => AtExpire(d, t)
    BY DEF AtExpire
  <1>2. \A d \in Clients : Flying(d)' => Flying(d)
    BY DEF Flying
  <1> QED
    BY <1>1, <1>2 DEF BurstInv, LimiterOK

LEMMA HitFields ==
    ASSUME NEW w \in WinSet
    PROVE  /\ limiter # "memory" => \E v \in WinSet : /\ v = Hit(w) /\ v.count = Count(w.count + 1)
                                                      /\ v.age = w.age /\ v.armed = w.armed
           /\ limiter = "memory" /\ ~(w.age >= Window) =>
                 \E v \in WinSet : v = Hit(w) /\ v.count = Count(w.count + 1) /\ v.age = w.age /\ v.armed
           /\ limiter = "memory" /\ w.age >= Window =>
                 \E v \in WinSet : v = Hit(w) /\ v.count = 1 /\ v.age = 0 /\ v.armed
  <1>1. PICK n \in 0..Limit + 1 : n = Count(w.count + 1)
    BY LimitBounds DEF WinSet, Count
  <1>2. 1 \in 0..Limit + 1 /\ 0 \in 0..Window
    BY LimitBounds
  <1>3. ASSUME limiter # "memory"
        PROVE  \E v \in WinSet : v = Hit(w) /\ v.count = Count(w.count + 1) /\ v.age = w.age /\ v.armed = w.armed
    <2>1. PICK v : v = [w EXCEPT !.count = n]
      OBVIOUS
    <2>2. v \in WinSet /\ v.count = n /\ v.age = w.age /\ v.armed = w.armed
      BY <2>1 DEF WinSet
    <2> QED
      BY <1>1, <1>3, <2>1, <2>2 DEF Hit
  <1>4. ASSUME limiter = "memory", ~(w.age >= Window)
        PROVE  \E v \in WinSet : v = Hit(w) /\ v.count = Count(w.count + 1) /\ v.age = w.age /\ v.armed
    <2>1. PICK v : v = [w EXCEPT !.count = n, !.armed = TRUE]
      OBVIOUS
    <2>2. v \in WinSet /\ v.count = n /\ v.age = w.age /\ v.armed
      BY <2>1 DEF WinSet
    <2> QED
      BY <1>1, <1>4, <2>1, <2>2 DEF Hit, MemoryHit
  <1>5. ASSUME limiter = "memory", w.age >= Window
        PROVE  \E v \in WinSet : v = Hit(w) /\ v.count = 1 /\ v.age = 0 /\ v.armed
    <2>1. PICK v : v = [count |-> 1, age |-> 0, armed |-> TRUE]
      OBVIOUS
    <2>2. v \in WinSet /\ v.count = 1 /\ v.age = 0 /\ v.armed
      BY <1>2, <2>1 DEF WinSet
    <2> QED
      BY <1>5, <2>1, <2>2 DEF Hit, MemoryHit
  <1> QED
    BY <1>3, <1>4, <1>5

\* A request at the in-memory limiter, to the end of its handler.
LEMMA BurstAtMemory ==
    ASSUME TokensInv, BurstInv, NEW c \in Clients, NEW p \in Requests, NEW cur, limiter = "memory",
           call[c].pc # "expire", UNCHANGED <<limiter, tenant>>,
           window' = [window EXCEPT ![Key(c)] = Hit(window[Key(c)])],
           Finish(c, p, Hit(window[Key(c)]).count, cur, known)
    PROVE  BurstInv'
  <1>1. PICK t \in Tenants : t = tenant[c] /\ Key(c) = t
    BY DEF TokensInv, TokenTypes, Key, KeyOf
  <1>2. PICK w \in WinSet, h \in History : w = window[t] /\ h = granted[t]
    BY DEF BurstInv
  <1>3. \A d \in Clients : call[d].pc # "expire"
    BY DEF BurstInv, LimiterOK, Flying
  <1>4. \A u \in Tenants : Waits(u) = 0
    BY <1>3 DEF Waits, AtExpire
  <1>5. Fits(w, h, 0) /\ WindowOK(w)
    BY <1>2, <1>4 DEF BurstInv
  <1>6. PICK k \in History : /\ granted' = [granted EXCEPT ![t] = k] /\ Bumped(k, h)
                             /\ ~Allows(Hit(w).count) => k = h
    BY <1>1, <1>2, FinishGrants
  <1>7. call'[c].pc \in {"granted", "limited"} /\ \A d \in Clients : d # c => call'[d] = call[d]
    BY <1>1, FinishGrants
  <1>8. LimiterOK' /\ \A u \in Tenants : Waits(u)' = 0
    BY <1>3, <1>7, LimiterLeft DEF Waits, AtExpire
  <1>9. \E v \in WinSet : v = Hit(w) /\ v.armed /\ Fits(v, k, 0)
    <2>1. CASE w.age >= Window
      <3>1. PICK v \in WinSet : v = Hit(w) /\ v.count = 1 /\ v.age = 0 /\ v.armed
        BY <2>1, HitFields
      <3> QED
        BY <1>5, <1>6, <2>1, <3>1, FitsOpened DEF Closed
    <2>2. CASE ~(w.age >= Window)
      <3>1. PICK v \in WinSet : v = Hit(w) /\ v.count = Count(w.count + 1) /\ v.age = w.age /\ v.armed
        BY <2>2, HitFields
      <3>2. CASE w.count = 0
        <4>1. v.count = 1 /\ v.age = 0
          BY <1>5, <3>1, <3>2, LimitBounds DEF Count, Fits, Closed
        <4> QED
          BY <1>5, <1>6, <3>1, <3>2, <4>1, FitsOpened DEF Closed
      <3>3. CASE w.count # 0
        <4>1. w.armed /\ ~Closed(w)
          BY <1>5, <2>2, <3>3 DEF WindowOK, Closed
        <4>2. v.armed = w.armed
          BY <3>1, <4>1 DEF WinSet
        <4>3. v.count > Limit => k = h
          BY <1>6, <3>1, LimitBounds DEF Allows, WinSet
        <4> QED
          BY <1>5, <1>6, <3>1, <4>1, <4>2, <4>3, FitsHit
      <3> QED
        BY <3>2, <3>3
    <2> QED
      BY <2>1, <2>2
  <1>10. PICK v \in WinSet : v = Hit(w) /\ v.armed /\ Fits(v, k, 0)
    BY <1>9
  <1>11. window' = [window EXCEPT ![t] = v] /\ WindowOK(v)
    BY <1>1, <1>2, <1>10 DEF WindowOK
  <1>12. Fits(v, k, Waits(t)')
    BY <1>8, <1>10
  <1> QED
    BY <1>4, <1>6, <1>8, <1>11, <1>12, BurstChanges
\* INCR: the key's first request goes on to EXPIRE, any other to its end.
LEMMA BurstIncr ==
    ASSUME TokensInv, BurstInv, NEW c \in Clients, Incr(c)
    PROVE  BurstInv'
  <1>1. PICK t \in Tenants : t = tenant[c] /\ Key(c) = t
    BY DEF TokensInv, TokenTypes, Key, KeyOf
  <1>2. PICK w \in WinSet, h \in History : w = window[t] /\ h = granted[t]
    BY DEF BurstInv
  <1>3. call[c].pc = "incr" /\ UNCHANGED <<limiter, tenant>> /\ limiter = "redis" /\ limiter # "memory"
    BY DEF Incr, setup, BurstInv, LimiterOK, Flying
  <1>4. PICK v \in WinSet : v = Hit(w) /\ v.count = Count(w.count + 1) /\ v.age = w.age /\ v.armed = w.armed
    BY <1>3, HitFields
  <1>5. Fits(w, h, Waits(t)) /\ w.age < Window /\ WindowOK(v)
    BY <1>2, <1>3, <1>4 DEF BurstInv, WindowOK
  <1>6. window' = [window EXCEPT ![t] = v]
    BY <1>1, <1>2, <1>4 DEF Incr
  <1>7. \A u \in Tenants : Waits(u) \in {0, 1}
    BY DEF Waits
  <1>8. w.count \in Nat /\ w.age \in Nat
    BY DEF WinSet
  <1>9. CASE w.count = 0
    <2>1. v.count = 1 /\ Waits(t) = 0
      BY <1>4, <1>5, <1>9, LimitBounds DEF Count, Fits, Closed
    <2>2. call' = [call EXCEPT ![c].pc = "expire"] /\ UNCHANGED granted
      BY <1>1, <1>2, <1>4, <2>1 DEF Incr
    <2>3. call[c] \in CallSet /\ call \in [Clients -> CallSet]
      BY DEF TokensInv, TokenTypes
    <2>4. call'[c].pc = "expire" /\ \A d \in Clients : d # c => call'[d] = call[d]
      BY <2>2, <2>3 DEF CallSet
    <2>5. \A d \in Clients : ~AtExpire(d, t)
      BY <2>1 DEF Waits
    <2>6. LimiterOK'
      <3>1. \A d \in Clients, u \in Tenants : AtExpire(d, u)' => (d = c /\ u = t) \/ (d # c /\ u # t /\ AtExpire(d, u))
        BY <1>1, <1>3, <2>4, <2>5 DEF AtExpire
      <3>2. \A d \in Clients : Flying(d)' => limiter = "redis"
        BY <1>3
      <3> QED
        BY <1>3, <3>1, <3>2 DEF BurstInv, LimiterOK
    <2>7. Waits(t)' = 1 /\ \A u \in Tenants : u # t => Waits(u)' = Waits(u)
      BY <1>1, <1>3, <2>4 DEF Waits, AtExpire
    <2>8. Fits(v, h, Waits(t)')
      BY <1>4, <1>5, <1>9, <2>1, <2>7, FitsCreated
    <2>9. granted' = [granted EXCEPT ![t] = h]
      BY <1>2, <2>2 DEF BurstInv
    <2> QED
      BY <1>3, <1>5, <1>6, <2>6, <2>7, <2>8, <2>9, BurstChanges
  <1>10. CASE w.count # 0
    <2>1. ~Closed(w)
      BY <1>5, <1>8, <1>10, LimitBounds DEF Closed
    <2>2. v.count # 1
      BY <1>4, <1>8, <1>10, LimitBounds DEF Count
    <2>3. PICK p \in Requests : p = call[c].req
      BY DEF TokensInv, TokenTypes, CallSet
    <2>4. Finish(c, p, v.count, current, known)
      BY <1>1, <1>2, <1>4, <2>2, <2>3 DEF Incr
    <2>5. PICK k \in History : /\ granted' = [granted EXCEPT ![t] = k] /\ Bumped(k, h)
                               /\ ~Allows(v.count) => k = h
      BY <1>1, <1>2, <2>4, FinishGrants
    <2>6. call'[c].pc \in {"granted", "limited"} /\ \A d \in Clients : d # c => call'[d] = call[d]
      BY <1>1, <2>4, FinishGrants
    <2>7. LimiterOK' /\ \A u \in Tenants : Waits(u)' = Waits(u)
      BY <1>3, <2>6, LimiterLeft DEF Waits, AtExpire
    <2>8. v.count > Limit => k = h
      BY <2>5, LimitBounds DEF Allows, WinSet
    <2>9. Fits(v, k, Waits(t)')
      BY <1>4, <1>5, <1>7, <2>1, <2>5, <2>7, <2>8, FitsHit
    <2> QED
      BY <1>3, <1>5, <1>6, <2>5, <2>7, <2>9, BurstChanges
  <1> QED
    BY <1>9, <1>10

LEMMA BurstExpire ==
    ASSUME TokensInv, BurstInv, NEW c \in Clients, Expire(c)
    PROVE  BurstInv'
  <1>1. PICK t \in Tenants : t = tenant[c] /\ Key(c) = t
    BY DEF TokensInv, TokenTypes, Key, KeyOf
  <1>2. PICK w \in WinSet, h \in History : w = window[t] /\ h = granted[t]
    BY DEF BurstInv
  <1>3. call[c].pc = "expire" /\ UNCHANGED <<limiter, tenant>> /\ limiter = "redis" /\ AtExpire(c, t)
    BY <1>1 DEF Expire, setup, BurstInv, LimiterOK, Flying, AtExpire
  <1>4. Fits(w, h, 1)
    BY <1>2, <1>3 DEF BurstInv, Waits
  <1>5. PICK v : v = [w EXCEPT !.age = 0, !.armed = TRUE]
    OBVIOUS
  <1>6. v \in WinSet /\ v.count = w.count /\ v.age = 0 /\ v.armed
    <2>1. 0 \in 0..Window
      BY LimitBounds
    <2> QED
      BY <1>5, <2>1 DEF WinSet
  <1>7. window' = [window EXCEPT ![t] = v]
    BY <1>1, <1>2, <1>5 DEF Expire
  <1>8. PICK p \in Requests : p = call[c].req
    BY DEF TokensInv, TokenTypes, CallSet
  <1>9. Finish(c, p, 1, current, known)
    BY <1>8 DEF Expire
  <1>10. PICK k \in History : granted' = [granted EXCEPT ![t] = k] /\ Bumped(k, h)
    BY <1>1, <1>2, <1>9, FinishGrants
  <1>11. call'[c].pc \in {"granted", "limited"} /\ \A d \in Clients : d # c => call'[d] = call[d]
    BY <1>1, <1>9, FinishGrants
  <1>12. LimiterOK' /\ \A u \in Tenants : u # t => Waits(u)' = Waits(u)
    BY <1>1, <1>3, <1>11, LimiterLeft DEF Waits, AtExpire
  <1>13. Waits(t)' = 0
    <2>1. \A d \in Clients : AtExpire(d, t) => d = c
      BY <1>3 DEF BurstInv, LimiterOK
    <2>2. \A d \in Clients : ~AtExpire(d, t)'
      BY <1>3, <1>11, <2>1 DEF AtExpire
    <2> QED
      BY <2>2 DEF Waits
  <1>14. Fits(v, k, Waits(t)') /\ WindowOK(v)
    BY <1>3, <1>4, <1>6, <1>10, <1>13, FitsArmed, LimitBounds DEF WindowOK
  <1> QED
    BY <1>3, <1>6, <1>7, <1>10, <1>12, <1>14, BurstChanges

\* A handler that asks the limiter: to its end in memory, suspended with Redis.
LEMMA BurstEnforce ==
    ASSUME TokensInv, BurstInv, NEW c \in Clients, NEW p \in Requests, NEW cur, call[c] = NoCall,
           Enforce(c, p, cur), UNCHANGED <<limiter, tenant>>
    PROVE  BurstInv'
  <1>1. call[c].pc = "idle" /\ call \in [Clients -> CallSet]
    BY IdleFields DEF TokensInv, TokenTypes
  <1>2. CASE limiter = "memory"
    BY <1>1, <1>2, BurstAtMemory DEF Enforce
  <1>3. CASE limiter # "memory"
    <2>1. limiter = "redis" /\ UNCHANGED <<window, granted>> /\ call' = [call EXCEPT ![c] = [pc |-> "incr", req |-> p]]
      BY <1>3 DEF Enforce, limitVars
    <2>2. call'[c].pc = "incr" /\ \A d \in Clients : d # c => call'[d] = call[d]
      BY <1>1, <2>1
    <2>3. \A d \in Clients : call'[d].pc = "expire" <=> call[d].pc = "expire"
      BY <1>1, <2>2
    <2>4. LimiterOK'
      BY <2>1, <2>3 DEF BurstInv, LimiterOK, AtExpire
    <2> QED
      BY <2>1, <2>3, <2>4, BurstStays
  <1> QED
    BY <1>2, <1>3

\* An action that does not ask it.
LEMMA BurstElsewhere ==
    ASSUME TokensInv, BurstInv, NEW c \in Clients, NEW r \in CallSet, call' = [call EXCEPT ![c] = r],
           call[c].pc # "expire", r.pc \notin {"incr", "expire"}, UNCHANGED <<limiter, tenant, window, granted>>
    PROVE  BurstInv'
  <1>1. call'[c] = r /\ \A d \in Clients : d # c => call'[d] = call[d]
    BY DEF TokensInv, TokenTypes
  <1>2. LimiterOK'
    BY <1>1, LimiterLeft
  <1>3. \A d \in Clients : call'[d].pc = "expire" <=> call[d].pc = "expire"
    BY <1>1
  <1> QED
    BY <1>2, <1>3, BurstStays

LEMMA BurstRefuse ==
    ASSUME TokensInv, BurstInv, NEW c \in Clients, NEW p \in Requests, call[c] = NoCall, RefuseCall(c, p),
           UNCHANGED <<limiter, tenant, window, granted>>
    PROVE  BurstInv'
  <1>1. PICK r \in CallSet : r = [pc |-> "refused", req |-> p] /\ r.pc = "refused" /\ r.req = p
    BY CallFields
  <1>2. call' = [call EXCEPT ![c] = r]
    BY <1>1 DEF RefuseCall
  <1> QED
    BY <1>1, <1>2, IdleFields, BurstElsewhere

LEMMA BurstTick ==
    ASSUME TokensInv, BurstInv, AgTick
    PROVE  BurstInv'
  <1>1. /\ UNCHANGED <<limiter, tenant, call>> /\ \A c \in Clients : call[c].pc # "expire"
        /\ window' = [t \in Tenants |-> Aged(window[t])] /\ granted' = Older(granted)
    BY DEF AgTick, setup
  <1>2. LimiterOK' /\ \A t \in Tenants : Waits(t) = 0 /\ Waits(t)' = 0
    BY <1>1 DEF BurstInv, LimiterOK, Flying, AtExpire, Waits
  <1>3. ASSUME NEW t \in Tenants
        PROVE  /\ window'[t] \in WinSet /\ granted'[t] \in History
               /\ Fits(window'[t], granted'[t], 0) /\ WindowOK(window'[t])
    <2>1. PICK w \in WinSet, h \in History : w = window[t] /\ h = granted[t]
      BY DEF BurstInv
    <2>2. Fits(w, h, 0) /\ WindowOK(w)
      BY <1>2, <2>1 DEF BurstInv
    <2>3. PICK k : k = [a \in 0..Window - 1 |-> IF a = 0 THEN 0 ELSE h[a - 1]]
      OBVIOUS
    <2>4. granted'[t] = k /\ k \in History /\ Later(k, h)
      <3>1. \A a \in 0..Window - 1 : a # 0 => h[a - 1] \in Nat
        BY LimitBounds DEF History
      <3>2. k \in History
        BY <2>3, <3>1 DEF History
      <3>3. Later(k, h)
        BY <2>3, LimitBounds DEF Later
      <3>4. granted'[t] = k
        BY <1>1, <2>1, <2>3 DEF Older
      <3> QED
        BY <3>2, <3>3, <3>4
    <2>5. \E v \in WinSet :
             /\ v = Aged(w) /\ WindowOK(v)
             /\ \/ ~w.armed /\ v = w
                \/ w.armed /\ w.age + 1 < Window /\ v.count = w.count /\ v.age = w.age + 1 /\ v.armed
                \/ w.armed /\ w.age + 1 >= Window /\ Closed(v) /\ (v.count = 0 => v.age = 0 /\ ~v.armed)
      <3>0. w.age \in Nat /\ w.age <= Window /\ w.count \in Nat
        BY LimitBounds DEF WinSet
      <3>1. CASE ~w.armed
        BY <2>2, <3>1 DEF Aged
      <3>2. CASE w.armed /\ w.age + 1 < Window
        <4>1. PICK x \in 0..Window : x = w.age + 1
          BY <3>0, <3>2, LimitBounds
        <4>2. PICK v : v = [w EXCEPT !.age = x]
          OBVIOUS
        <4>3. v \in WinSet /\ v.count = w.count /\ v.age = x /\ v.armed
          BY <3>2, <4>2 DEF WinSet
        <4>4. v = Aged(w)
          BY <3>2, <4>1, <4>2 DEF Aged
        <4>5. WindowOK(v)
          BY <3>2, <4>1, <4>3 DEF WindowOK
        <4> QED
          BY <3>2, <4>1, <4>3, <4>4, <4>5
      <3>3. CASE w.armed /\ ~(w.age + 1 < Window) /\ limiter = "redis"
        <4>1. Aged(w) = NoWindow
          BY <3>3 DEF Aged
        <4>2. WindowOK(NoWindow) /\ Closed(NoWindow)
          BY NoWindowFields, LimitBounds DEF WindowOK, Closed
        <4> QED
          BY <3>0, <3>3, <4>1, <4>2, NoWindowFields, LimitBounds
      <3>4. CASE w.armed /\ ~(w.age + 1 < Window) /\ limiter # "redis"
        <4>1. PICK v : v = [w EXCEPT !.age = Window]
          OBVIOUS
        <4>2. Window \in 0..Window
          BY LimitBounds
        <4>3. v \in WinSet /\ v.count = w.count /\ v.age = Window /\ v.armed
          BY <3>4, <4>1, <4>2 DEF WinSet
        <4>4. v = Aged(w)
          BY <3>4, <4>1 DEF Aged
        <4>5. w.count # 0
          BY <2>2, <3>4 DEF Fits, Closed
        <4>6. WindowOK(v) /\ Closed(v)
          BY <3>4, <4>3, LimitBounds DEF WindowOK, Closed
        <4>7. w.age + 1 >= Window
          BY <3>0, <3>4, LimitBounds
        <4> QED
          BY <3>4, <4>3, <4>4, <4>5, <4>6, <4>7
      <3> QED
        BY <3>1, <3>2, <3>3, <3>4
    <2>6. PICK v \in WinSet :
             /\ v = Aged(w) /\ WindowOK(v)
             /\ \/ ~w.armed /\ v = w
                \/ w.armed /\ w.age + 1 < Window /\ v.count = w.count /\ v.age = w.age + 1 /\ v.armed
                \/ w.armed /\ w.age + 1 >= Window /\ Closed(v) /\ (v.count = 0 => v.age = 0 /\ ~v.armed)
      BY <2>5
    <2>7. Fits(v, k, 0)
      BY <2>2, <2>4, <2>6, FitsAged
    <2>8. window'[t] = v
      BY <1>1, <2>1, <2>6
    <2> QED
      BY <2>4, <2>6, <2>7, <2>8
  <1>4. window' \in [Tenants -> WinSet] /\ granted' \in [Tenants -> History]
    BY <1>1, <1>3 DEF Older
  <1>5. ASSUME NEW t \in Tenants PROVE Fits(window[t], granted[t], Waits(t))' /\ WindowOK(window[t])'
    <2>1. Fits(window'[t], granted'[t], 0) /\ WindowOK(window'[t])
      BY <1>3
    <2> QED
      BY <1>1, <1>2, <2>1 DEF Fits, Closed, Opened, Upto, WindowOK
  <1> QED
    BY <1>2, <1>4, <1>5 DEF BurstInv

LEMMA BurstRestart ==
    ASSUME TokensInv, BurstInv, GatewayRestarts
    PROVE  BurstInv'
  <1>1. UNCHANGED <<limiter, tenant>> /\ call' = [c \in Clients |-> NoCall]
    BY DEF GatewayRestarts, setup
  <1>2. LimiterOK' /\ \A t \in Tenants : Waits(t)' = 0
    BY <1>1, IdleFields DEF LimiterOK, Flying, AtExpire, Waits
  <1>3. ASSUME NEW t \in Tenants
        PROVE  /\ window'[t] \in WinSet /\ granted'[t] \in History
               /\ Fits(window'[t], granted'[t], 0) /\ WindowOK(window'[t])
    <2>1. CASE limiter = "memory"
      <3>1. window'[t] = NoWindow /\ granted'[t] = Never
        BY <2>1 DEF GatewayRestarts
      <3> QED
        BY <3>1, NoWindowFields, EmptyFits, LimitBounds DEF WindowOK
    <2>2. CASE limiter # "memory"
      <3>1. UNCHANGED <<window, granted>>
        BY <2>2 DEF GatewayRestarts, limitVars
      <3>2. PICK w \in WinSet, h \in History : w = window[t] /\ h = granted[t] /\ Fits(w, h, Waits(t)) /\ WindowOK(w)
        BY DEF BurstInv
      <3>3. Fits(w, h, 0)
        <4>1. Waits(t) \in {0, 1}
          BY DEF Waits
        <4>2. \A n \in 1..Window : Upto(h, n) \in Nat
          BY LimitBounds, UptoNat
        <4>3. w.count \in Nat
          BY DEF WinSet
        <4>4. ASSUME NEW n \in 1..Window, Opened(w, h, Waits(t), n) PROVE Opened(w, h, 0, n)
          BY <4>1, <4>2, <4>3, <4>4, LimitBounds DEF Opened
        <4> QED
          BY <3>2, <4>4 DEF Fits
      <3> QED
        BY <3>1, <3>2, <3>3
    <2> QED
      BY <2>1, <2>2
  <1>4. window' \in [Tenants -> WinSet] /\ granted' \in [Tenants -> History]
    <2>1. CASE limiter = "memory"
      BY <2>1, NoWindowFields DEF GatewayRestarts
    <2>2. CASE limiter # "memory"
      BY <2>2 DEF GatewayRestarts, limitVars, BurstInv
    <2> QED
      BY <2>1, <2>2
  <1>5. ASSUME NEW t \in Tenants PROVE Fits(window[t], granted[t], Waits(t))' /\ WindowOK(window[t])'
    <2>1. Fits(window'[t], granted'[t], 0) /\ WindowOK(window'[t])
      BY <1>3
    <2> QED
      BY <1>1, <1>2, <2>1 DEF Fits, Closed, Opened, Upto, WindowOK
  <1> QED
    BY <1>2, <1>4, <1>5 DEF BurstInv

LEMMA BurstNext == TokensInv /\ BurstInv /\ [AgNext]_agVars => BurstInv'
  <1> SUFFICES ASSUME TokensInv, BurstInv, [AgNext]_agVars PROVE BurstInv'
    OBVIOUS
  <1>0. \A c \in Clients : cred[c] \in Requests
    BY DEF TokensInv, TokenTypes
  <1>1. ASSUME UNCHANGED <<limiter, tenant, window, granted, call>> PROVE BurstInv'
    <2>1. LimiterOK'
      BY <1>1 DEF BurstInv, LimiterOK, Flying, AtExpire
    <2> QED
      BY <1>1, <2>1, BurstStays
  <1>2. CASE UNCHANGED agVars
    BY <1>1, <1>2 DEF agVars
  <1>3. ASSUME NEW c \in Clients, NEW k \in Codes, Authorize(c, k) PROVE BurstInv'
    BY <1>1, <1>3 DEF Authorize, setup, limitVars
  <1>4. ASSUME NEW c \in Clients, NEW proven \in BOOLEAN, RedeemCode(c, proven) PROVE BurstInv'
    BY <1>0, <1>4, BurstEnforce, BurstRefuse DEF RedeemCode, setup, limitVars
  <1>5. ASSUME NEW c \in Clients, RefreshToken(c) PROVE BurstInv'
    <2>1. PICK q \in Requests : q = cred[c] /\ q.kind = "token" /\ q.gen < MaxGen /\ call[c] = NoCall
      BY <1>0, <1>5 DEF RefreshToken
    <2>2. q.id \in Families /\ q.gen + 1 \in 1..MaxGen
      BY <2>1, RequestKinds, GenBound
    <2>3. PICK p \in Requests : p = Token(q.id, q.gen + 1)
      BY <2>2, TokenFields
    <2> QED
      BY <1>5, <2>1, <2>3, BurstEnforce, BurstRefuse DEF RefreshToken, setup, limitVars
  <1>6. ASSUME NEW c \in Clients, NEW a \in Assertions, SsoCallback(c, a) PROVE BurstInv'
    BY <1>6, NoneFields, BurstEnforce, BurstRefuse DEF SsoCallback, setup, limitVars
  <1>7. ASSUME NEW c \in Clients, AgDeliver(c) \/ AnswerLost(c) PROVE BurstInv'
    <2>1. call' = [call EXCEPT ![c] = NoCall] /\ call[c].pc # "expire" /\ UNCHANGED <<limiter, tenant, window, granted>>
      BY <1>7 DEF AgDeliver, AnswerLost, setup, limitVars
    <2> QED
      BY <2>1, IdleFields, BurstElsewhere
  <1> QED
    BY <1>2, <1>3, <1>4, <1>5, <1>6, <1>7, BurstIncr, BurstExpire, BurstTick, BurstRestart DEF AgNext

(* BurstIsBounded, for any number of clients and tenants, any limit and any    *)
(* window, with either limiter (rate_limit.py): fixed windows let through at   *)
(* most two windows' worth in any stretch of one window's length, also when    *)
(* the process dies between INCR and EXPIRE and the key never expires.         *)
THEOREM BurstsStayBounded == AgSpec => []BurstIsBounded
  <1>1. BurstInv => BurstIsBounded
    <2> SUFFICES ASSUME BurstInv, NEW t \in Tenants PROVE SumFunction(granted[t]) <= 2 * Limit
      BY DEF BurstIsBounded
    <2>1. PICK w \in WinSet, h \in History : w = window[t] /\ h = granted[t] /\ Fits(w, h, Waits(t))
      BY DEF BurstInv
    <2>2. SumFunction(h) = Upto(h, Window) /\ Upto(h, Window) \in Nat
      BY LimitBounds, SumIsUpto, UptoNat
    <2>3. CASE Closed(w)
      BY <2>1, <2>2, <2>3, LimitBounds DEF Fits
    <2>4. CASE ~Closed(w)
      <3>1. PICK n \in 1..Window : Opened(w, h, Waits(t), n)
        BY <2>1, <2>4 DEF Fits
      <3>2. Upto(h, n) \in Nat /\ Waits(t) \in {0, 1}
        BY LimitBounds, UptoNat DEF Waits
      <3> QED
        BY <2>1, <2>2, <3>1, <3>2, LimitBounds DEF Opened
    <2> QED
      BY <2>3, <2>4
  <1> QED
    BY <1>1, TokensInit, TokensNext, BurstInit, BurstNext, PTL DEF AgSpec
==============================================================================
