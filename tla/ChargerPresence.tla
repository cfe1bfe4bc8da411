--------------------------- MODULE ChargerPresence ---------------------------
(***************************************************************************)
(* One charger's presence record in Redis, written by every gateway node   *)
(* that has, had or sweeps a connection of the charger, and the nodes'     *)
(* LiveConnectionRegistry entries for it.                                  *)
(*                                                                         *)
(* RedisPresenceRegistry.refresh and mark_offline are a GET followed by a  *)
(* SET of the modified copy, and handle_disconnect reads before it calls   *)
(* mark_offline; each Redis round trip is a step of its own here.  Time    *)
(* advances by Tick; a record disappears when its ttl has run out.         *)
(***************************************************************************)
EXTENDS Naturals

CONSTANTS Conns,      \* sockets of the charger, each used once
          Nodes,
          NoConn,
          Sweeper,    \* the task that runs check_and_expire_heartbeats
          Interval,   \* default_heartbeat_interval_seconds, in ticks
          SweepInterval,  \* heartbeat_interval_seconds the sweep is called with
          Grace       \* grace_ttl_seconds of mark_offline, in ticks

ASSUME PresenceAssumption ==
    /\ Interval \in Nat \ {0} /\ SweepInterval \in Nat \ {0} /\ Grace \in Nat \ {0}
    /\ NoConn \notin Conns
    /\ Sweeper \notin Conns

Actors == Conns \cup {Sweeper}
TTL == 2 * Interval

VARIABLES
    presence,  \* the record under presence:{charger_id}
    pc,        \* where each socket's task, or the sweeper, is
    node,      \* node a socket is connected to
    copy,      \* node_id of the record an actor has read and will write back
    registry,  \* LiveConnectionRegistry of each node, for this charger
    newest,    \* the last connection each node registered
    contended  \* two connections were up at once, or the sweep stepped in

cpVars == <<presence, pc, node, copy, registry, newest, contended>>

Absent == [status |-> "absent", node |-> "unset", age |-> 0, ttl |-> 0]

\* From the handshake's mark_online until the endpoint's finally.
Serving(c) == pc[c] \in {"accepted", "open", "refreshing"}
\* In or about to enter handle_disconnect.
Leaving(c) == pc[c] \in {"closing", "offGet", "offSet", "publish"}

CpInit ==
    /\ presence = Absent
    /\ pc = [a \in Actors |-> IF a = Sweeper THEN "idle" ELSE "unused"]
    /\ node = [c \in Conns |-> "unset"]
    /\ copy = [a \in Actors |-> "unset"]
    /\ registry = [n \in Nodes |-> NoConn]
    /\ newest = [n \in Nodes |-> NoConn]
    /\ contended = FALSE

-----------------------------------------------------------------------------
(* ocpp_endpoint: handshake, accept, register *)

\* Variant: an existing record keeps its node_id.
OnlineRecordKeepingNode(n) ==
    [status |-> "online", node |-> IF presence = Absent THEN n ELSE presence.node,
     age |-> 0, ttl |-> TTL]

\* Variant: SET without ex.
OnlineRecordForEver(n) == [status |-> "online", node |-> n, age |-> 0, ttl |-> 0]

\* mark_online's record.
OnlineRecord(n) == [status |-> "online", node |-> n, age |-> 0, ttl |-> TTL]

\* handle_handshake, accepted: one SET, whatever was there before.
Handshake(c, n) ==
    /\ pc[c] = "unused"
    /\ presence' = OnlineRecord(n)
    /\ pc' = [pc EXCEPT ![c] = "accepted"]
    /\ node' = [node EXCEPT ![c] = n]
    /\ contended' = (contended \/ \E d \in Conns : Serving(d) \/ Leaving(d))
    /\ UNCHANGED <<copy, registry, newest>>

\* Unsupported subprotocol, missing tenant or bad credential.
HandshakeRefused(c) ==
    /\ pc[c] = "unused"
    /\ pc' = [pc EXCEPT ![c] = "closed"]
    /\ UNCHANGED <<presence, node, copy, registry, newest, contended>>

\* websocket.accept returned; register overwrites the node's entry.
Register(c) ==
    /\ pc[c] = "accepted"
    /\ pc' = [pc EXCEPT ![c] = "open"]
    /\ registry' = [registry EXCEPT ![node[c]] = c]
    /\ newest' = [newest EXCEPT ![node[c]] = c]
    /\ UNCHANGED <<presence, node, copy, contended>>

\* websocket.accept raises: this is before the try, so nothing is undone.
AcceptFails(c) ==
    /\ pc[c] = "accepted"
    /\ pc' = [pc EXCEPT ![c] = "closed"]
    /\ UNCHANGED <<presence, node, copy, registry, newest, contended>>

-----------------------------------------------------------------------------
(* The receive loop: refresh on every inbound Call *)

\* refresh's GET; without a record it returns.
Frame(c) ==
    /\ pc[c] = "open"
    /\ presence # Absent
    /\ copy' = [copy EXCEPT ![c] = presence.node]
    /\ pc' = [pc EXCEPT ![c] = "refreshing"]
    /\ UNCHANGED <<presence, node, registry, newest, contended>>

FrameWithoutRecord(c) ==
    /\ pc[c] = "open"
    /\ presence = Absent
    /\ UNCHANGED cpVars

\* refresh's SET of the copy it read, with status, last_seen and expiry new.
RefreshSet(c) ==
    /\ pc[c] = "refreshing"
    /\ presence' = OnlineRecord(copy[c])
    /\ copy' = [copy EXCEPT ![c] = "unset"]
    /\ pc' = [pc EXCEPT ![c] = "open"]
    /\ UNCHANGED <<node, registry, newest, contended>>

-----------------------------------------------------------------------------
(* The end of a connection *)

\* Variant: the entry is deleted whichever connection it holds.
UnregisterAny(c) == [registry EXCEPT ![node[c]] = NoConn]

\* unregister: only if the entry is still this connection.
Unregister(c) ==
    IF registry[node[c]] = c THEN [registry EXCEPT ![node[c]] = NoConn] ELSE registry

\* WebSocketDisconnect: the finally block starts.
SocketCloses(c) ==
    /\ pc[c] = "open"
    /\ registry' = Unregister(c)
    /\ pc' = [pc EXCEPT ![c] = "closing"]
    /\ UNCHANGED <<presence, node, copy, newest, contended>>

Done(a) == IF a = Sweeper THEN "idle" ELSE "closed"

\* handle_disconnect's get: nothing to do unless the record is online.  Whose
\* connection made it online is not looked at.
DisconnectGet(c) ==
    /\ pc[c] = "closing"
    /\ pc' = [pc EXCEPT ![c] = IF presence.status = "online" THEN "offGet" ELSE "closed"]
    /\ UNCHANGED <<presence, node, copy, registry, newest, contended>>

\* One charger's turn in check_and_expire_heartbeats.
SweepGet ==
    /\ pc[Sweeper] = "idle"
    /\ presence.status = "online"
    /\ presence.age > 2 * SweepInterval
    /\ pc' = [pc EXCEPT ![Sweeper] = "offGet"]
    /\ contended' = TRUE
    /\ UNCHANGED <<presence, node, copy, registry, newest>>

\* mark_offline's GET; without a record it returns, and the event follows.
OfflineGet(a) ==
    /\ pc[a] = "offGet"
    /\ copy' = [copy EXCEPT ![a] = presence.node]
    /\ pc' = [pc EXCEPT ![a] = IF presence = Absent THEN "publish" ELSE "offSet"]
    /\ UNCHANGED <<presence, node, registry, newest, contended>>

\* mark_offline's SET of the copy it read (an offline record's last_seen is
\* never looked at).
OfflineSet(a) ==
    /\ pc[a] = "offSet"
    /\ presence' = [status |-> "offline", node |-> copy[a], age |-> 0, ttl |-> Grace]
    /\ copy' = [copy EXCEPT ![a] = "unset"]
    /\ pc' = [pc EXCEPT ![a] = "publish"]
    /\ UNCHANGED <<node, registry, newest, contended>>

\* publish_disconnected.
PublishDisconnected(a) ==
    /\ pc[a] = "publish"
    /\ pc' = [pc EXCEPT ![a] = Done(a)]
    /\ UNCHANGED <<presence, node, copy, registry, newest, contended>>

-----------------------------------------------------------------------------
\* A gateway process dies: no finally block runs on it.
NodeCrashes(n) ==
    LET dead == {c \in Conns : node[c] = n /\ (Serving(c) \/ Leaving(c))} IN
    /\ dead # {}
    /\ pc' = [a \in Actors |-> IF a \in dead THEN "closed" ELSE pc[a]]
    /\ registry' = [registry EXCEPT ![n] = NoConn]
    /\ newest' = [newest EXCEPT ![n] = NoConn]
    /\ copy' = [a \in Actors |-> IF a \in dead THEN "unset" ELSE copy[a]]
    /\ UNCHANGED <<presence, node, contended>>

\* No age beyond MaxAge is told apart.
MaxAge == TTL + Grace

\* Redis drops the record when its ttl has run out (0 stands for no expiry).
Tick ==
    /\ presence # Absent
    /\ presence' = IF presence.ttl = 1 THEN Absent
                   ELSE [presence EXCEPT !.age = IF @ < MaxAge THEN @ + 1 ELSE @,
                                         !.ttl = IF @ > 0 THEN @ - 1 ELSE 0]
    /\ UNCHANGED <<pc, node, copy, registry, newest, contended>>

TaskStep(a) ==
    \/ a \in Conns /\ (Register(a) \/ RefreshSet(a) \/ DisconnectGet(a))
    \/ OfflineGet(a) \/ OfflineSet(a) \/ PublishDisconnected(a)

CpNext ==
    \/ \E c \in Conns :
        \/ \E n \in Nodes : Handshake(c, n)
        \/ HandshakeRefused(c) \/ AcceptFails(c)
        \/ Frame(c) \/ FrameWithoutRecord(c) \/ SocketCloses(c)
    \/ \E a \in Actors : TaskStep(a)
    \/ SweepGet
    \/ \E n \in Nodes : NodeCrashes(n)
    \/ Tick

CpSpec == CpInit /\ [][CpNext]_cpVars

\* Tasks and the clock keep going.  Nothing is assumed of connects, frames,
\* closes and crashes, nor of the sweep, which nothing schedules.
CpFairSpec ==
    /\ CpSpec
    /\ \A a \in Actors : WF_cpVars(TaskStep(a))
    /\ WF_cpVars(Tick)

-----------------------------------------------------------------------------
Records ==
    [status : {"online", "offline", "absent"}, node : Nodes \cup {"unset"},
     age : 0..MaxAge, ttl : 0..MaxAge]

\* Every variable has the shape the code gives it; a record's age and ttl stay
\* within the longest lifetime the registry sets.
CpTypeOK ==
    /\ presence \in Records
    /\ pc \in [Actors -> {"unused", "accepted", "open", "refreshing", "closing", "offGet",
                          "offSet", "publish", "closed", "idle"}]
    /\ node \in [Conns -> Nodes \cup {"unset"}]
    /\ copy \in [Actors -> Nodes \cup {"unset"}]
    /\ registry \in [Nodes -> Conns \cup {NoConn}]
    /\ newest \in [Nodes -> Conns \cup {NoConn}]
    /\ contended \in BOOLEAN

\* The connection a node registered last is the one commands find there for as
\* long as its socket is open: an older socket's late close does not remove
\* it, and no entry outlives its socket.
RegistryHoldsNewest ==
    \A n \in Nodes :
        /\ newest[n] # NoConn /\ pc[newest[n]] \in {"open", "refreshing"} => registry[n] = newest[n]
        /\ registry[n] # NoConn => pc[registry[n]] \in {"open", "refreshing"} /\ node[registry[n]] = n

\* A charger shown online was heard from within two heartbeat intervals,
\* whatever order handshakes, refreshes and close handlers write in.
OnlineIsRecent == presence.status = "online" => presence.age < TTL

Quiet == \A a \in Actors : pc[a] \in {"unused", "open", "closed", "idle"}

\* Online is recent; and while the charger has one connection at a time and
\* the sweep leaves it alone, between handlers its record is online and names
\* the socket's node.
SoleConnectionIsAddressed ==
    /\ OnlineIsRecent
    /\ Quiet /\ ~contended /\ presence # Absent =>
          \A c \in Conns : pc[c] = "open" => presence.status = "online" /\ presence.node = node[c]

\* When the last socket has gone, by a close frame, a crash or a failed
\* accept, the charger does not stay online for ever, even if nobody sweeps.
GoneIsNoticed ==
    (\A c \in Conns : pc[c] = "closed") ~> (presence.status # "online")
=============================================================================
