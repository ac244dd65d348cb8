------------------------------ MODULE Sniffer ------------------------------
(***************************************************************************)
(* The agent's TCP sniffer (src/mirrord/agent/src/sniffer.rs,              *)
(* TcpConnectionSniffer) together with the clients that drive it through   *)
(* TcpSnifferApi.                                                          *)
(*                                                                         *)
(* The sniffer is one task whose loop selects, in no fixed order, among    *)
(*   - the next command of the shared command channel,                     *)
(*   - a ClientClosed future that resolved (a client dropped its API),     *)
(*   - the next captured packet.                                           *)
(* Each branch runs to completion before the next select, so each handler  *)
(* is one atomic action here.  Clients run concurrently with the sniffer:  *)
(* they push commands, pop new-connection notifications from their bounded *)
(* mpsc queue, read their broadcast receivers, and may drop their API at   *)
(* any moment.                                                             *)
(*                                                                         *)
(* Data is abstracted: a packet's payload is its sequence number in the    *)
(* capture (or none), so that what a client receives can be compared with  *)
(* what was captured.  Per-session broadcast channels are modelled by the  *)
(* log of payloads sent on them and a read position per receiver; tokio's  *)
(* ring buffer keeps the last DataCap messages.                            *)
(***************************************************************************)
EXTENDS Integers, Sequences, FiniteSets, TLC, SessionIdentifier

CONSTANTS
    Clients,       \* client ids (model values)
    Ports,         \* ports clients may subscribe to
    PacketIds,     \* the identifiers captured packets carry
    PacketFlags,   \* the TCP flag sets captured packets carry
    QueueCap,      \* capacity of a client's new-connection mpsc queue
    DataCap,       \* capacity of a session's broadcast channel
    MaxClientCmds, \* bound: commands one client sends
    MaxPackets,    \* bound: packets captured
    MaxSessions    \* bound: sessions the sniffer opens

ASSUME /\ PacketIds \subseteq Identifiers
       /\ PacketFlags \subseteq SUBSET {"SYN", "ACK", "FIN", "RST"}
       /\ QueueCap \in Nat \ {0} /\ DataCap \in Nat \ {0}
       /\ {MaxClientCmds, MaxPackets, MaxSessions} \subseteq Nat

\* Payload kinds: no bytes, bytes that start an HTTP/1 or HTTP/2 request
\* (HttpVersion::new returns V1 or V2), other bytes.
Payloads == {"none", "http", "raw"}

Insts == 1..MaxSessions    \* session instances (one broadcast channel each)
NoRx  == -1                \* the client holds no receiver of the instance

VARIABLES
    clientState, \* per client: "Idle" (no API yet), "Alive", "Gone" (API dropped)
    clientCmds,  \* per client: commands sent so far (bounded)
    cmds,        \* the sniffer's command channel: a FIFO of commands
    clientTxs,   \* TcpConnectionSniffer.client_txs: registered clients
    watching,    \* TcpConnectionSniffer.clients_closed: clients with a pending ClientClosed
    subs,        \* TcpConnectionSniffer.port_subscriptions: port -> subscribed clients
    filter,      \* ports of the BPF filter installed on the capture
    sessions,    \* TcpConnectionSniffer.sessions: identifier -> instance
    nInst,       \* instances created so far
    log,         \* per instance: payloads sent on its broadcast channel
    rx,          \* per client, per instance: read position of its receiver, or NoRx
    queue,       \* per client: the new-connection mpsc queue (instances)
    held,        \* per client: instances whose connection the client accepted
    got,         \* per client, per instance: payloads the client received
    nPackets,    \* packets captured so far
    lostPayload  \* a payload was dropped while its flow had a session

snifferVars == <<cmds, clientTxs, watching, subs, filter,
                 sessions, nInst, log, nPackets, lostPayload>>
clientVars  == <<clientState, clientCmds, held, got>>
vars == <<clientState, clientCmds, cmds, clientTxs, watching, subs, filter,
          sessions, nInst, log, rx, queue, held, got, nPackets,
          lostPayload>>

\* SnifferCommand { client_id, command }; NewClient carries no port (0).
Commands ==
    [client : Clients, op : {"NewClient"}, port : {0}]
      \cup [client : Clients, op : {"Subscribe", "UnsubscribePort"}, port : Ports]

-----------------------------------------------------------------------------
(* Subscriptions<Port, ClientId> of the agent's util module.               *)

\* get_subscribed_topics: the ports with at least one subscriber.
Topics(s) == {p \in Ports : s[p] # {}}

\* get_topic_subscribers(port), empty for a port nobody subscribed.
SubscribersOf(s, p) == IF p \in Ports THEN s[p] ELSE {}

\* subscribe(client, port); it returns true when the port is new to the
\* topic set, which TopicsChanged tells.
Subscribe(s, c, p) == [s EXCEPT ![p] = @ \cup {c}]

\* unsubscribe(client, port); true when the port lost its last subscriber.
Unsubscribe(s, c, p) == [s EXCEPT ![p] = @ \ {c}]

\* remove_client(client); true when some port lost its last subscriber.
RemoveClient(s, c) == [p \in Ports |-> s[p] \ {c}]

TopicsChanged(s, t) == Topics(s) # Topics(t)

-----------------------------------------------------------------------------
(* Helpers of the sniffer.                                                 *)

\* update_packet_filter: build the filter of the subscribed ports (the
\* drop-always filter when there are none) and install it.
UpdatePacketFilter(newSubs) == filter' = Topics(newSubs)

NoFilterUpdate == filter' = filter

\* is_new_connection: SYN without ACK, RST or FIN.
IsNewConnection(flags) == "SYN" \in flags /\ flags \cap {"ACK", "RST", "FIN"} = {}

\* is_closed_connection: FIN or RST.
IsClosedConnection(flags) == flags \cap {"FIN", "RST"} # {}

\* treat_as_new_session: a bare SYN, or bytes that begin an HTTP request.
TreatAsNewSession(flags, bytes) == IsNewConnection(flags) \/ bytes = "http"

\* The receivers alive on an instance (those queued in a client's mpsc
\* queue count as well: a SniffedConnection owns its receiver).
Receivers(i) == {c \in Clients : rx[c][i] # NoRx}

\* The key of the session map entry that a packet's identifier finds:
\* HashMap::get_mut looks in the bucket of the identifier's hash and takes
\* the key there that PartialEq calls equal.
SessionKeys(id) ==
    {k \in DOMAIN sessions : HashInput(k) = HashInput(id) /\ TcpEq(k, id)}

\* The flow of identifier id, in either direction, has a session entry.
FlowHasSession(id) == {id, Reversed(id)} \cap DOMAIN sessions # {}

\* A session map without the entry for key k (entry.remove()).
WithoutKey(map, k) == [j \in DOMAIN map \ {k} |-> map[j]]

-----------------------------------------------------------------------------
Init ==
    /\ clientState = [c \in Clients |-> "Idle"]
    /\ clientCmds = [c \in Clients |-> 0]
    /\ cmds = <<>>
    /\ clientTxs = {}
    /\ watching = {}
    /\ subs = [p \in Ports |-> {}]
    /\ filter = {}
    /\ sessions = [k \in {} |-> 0]
    /\ nInst = 0
    /\ log = [i \in Insts |-> <<>>]
    /\ rx = [c \in Clients |-> [i \in Insts |-> NoRx]]
    /\ queue = [c \in Clients |-> <<>>]
    /\ held = [c \in Clients |-> {}]
    /\ got = [c \in Clients |-> [i \in Insts |-> <<>>]]
    /\ nPackets = 0
    /\ lostPayload = FALSE

-----------------------------------------------------------------------------
(* The sniffer's handlers: one action per branch of start's select!.      *)

\* The head of the command channel, when it is a command of kind op.
NextCommand(op) == cmds # <<>> /\ Head(cmds).op = op

\* handle_command, NewClient: handle_new_client registers the client's
\* sender and pushes its ClientClosed future.
HandleNewClient ==
    /\ NextCommand("NewClient")
    /\ LET c == Head(cmds).client
       IN  /\ clientTxs' = clientTxs \cup {c}
           /\ watching' = watching \cup {c}
    /\ cmds' = Tail(cmds)
    /\ UNCHANGED <<subs, filter, sessions, nInst, log, rx, queue, nPackets,
                   lostPayload>>
    /\ UNCHANGED clientVars

\* handle_command, Subscribe: subscribe, reprogram the filter when the
\* topic set changed, and answer on the oneshot (ignored when dropped).
HandleSubscribe ==
    /\ NextCommand("Subscribe")
    /\ LET c == Head(cmds).client
           p == Head(cmds).port
           new == Subscribe(subs, c, p)
       IN  /\ subs' = new
           /\ IF TopicsChanged(subs, new) THEN UpdatePacketFilter(new)
                                          ELSE NoFilterUpdate
    /\ cmds' = Tail(cmds)
    /\ UNCHANGED <<clientTxs, watching, sessions, nInst, log, rx, queue,
                   nPackets, lostPayload>>
    /\ UNCHANGED clientVars

\* handle_command, UnsubscribePort: unsubscribe, reprogram the filter when
\* the last subscriber of the port left.
HandleUnsubscribe ==
    /\ NextCommand("UnsubscribePort")
    /\ LET c == Head(cmds).client
           p == Head(cmds).port
           new == Unsubscribe(subs, c, p)
       IN  /\ subs' = new
           /\ IF TopicsChanged(subs, new) THEN UpdatePacketFilter(new)
                                          ELSE NoFilterUpdate
    /\ cmds' = Tail(cmds)
    /\ UNCHANGED <<clientTxs, watching, sessions, nInst, log, rx, queue,
                   nPackets, lostPayload>>
    /\ UNCHANGED clientVars

\* Faulty variant: the closed client's subscriptions are removed, but the
\* filter is left as it was.
HandleClientClosedKeepFilter(c) ==
    /\ c \in watching
    /\ clientState[c] = "Gone"
    /\ watching' = watching \ {c}
    /\ clientTxs' = clientTxs \ {c}
    /\ subs' = RemoveClient(subs, c)
    /\ NoFilterUpdate
    /\ UNCHANGED <<cmds, sessions, nInst, log, rx, queue, nPackets,
                   lostPayload>>
    /\ UNCHANGED clientVars

\* handle_client_closed: the client's ClientClosed future resolved (its
\* receiver is gone); forget its sender and all its subscriptions.
HandleClientClosed(c) ==
    /\ c \in watching
    /\ clientState[c] = "Gone"
    /\ watching' = watching \ {c}
    /\ clientTxs' = clientTxs \ {c}
    /\ LET new == RemoveClient(subs, c)
       IN  /\ subs' = new
           /\ IF TopicsChanged(subs, new) THEN UpdatePacketFilter(new)
                                          ELSE NoFilterUpdate
    /\ UNCHANGED <<cmds, sessions, nInst, log, rx, queue, nPackets,
                   lostPayload>>
    /\ UNCHANGED clientVars

\* Faulty variant: empty payloads are sent on the channel as well.
SendOnSessionEmpty(map, k, i, r, flags, v) ==
    IF r = {}
    THEN /\ sessions' = WithoutKey(map, k)
         /\ log' = log
    ELSE /\ log' = [log EXCEPT ![i] = Append(@, v)]
         /\ sessions' = IF IsClosedConnection(flags) THEN WithoutKey(map, k)
                                                     ELSE map

\* The tail of handle_packet once the broadcast sender of key k (instance
\* i, receivers r) is resolved in map: send the bytes, dropping the entry
\* when no receiver is left; otherwise drop it on FIN or RST.
SendOnSession(map, k, i, r, flags, v) ==
    IF v # 0 /\ r = {}
    THEN /\ sessions' = WithoutKey(map, k)
         /\ log' = log
    ELSE /\ log' = IF v # 0 THEN [log EXCEPT ![i] = Append(@, v)] ELSE log
         /\ sessions' = IF IsClosedConnection(flags) THEN WithoutKey(map, k)
                                                     ELSE map

\* handle_packet for a packet of a session already in the map.
PacketOfSession(id, flags, v) ==
    LET k == CHOOSE k \in SessionKeys(id) : TRUE
        i == sessions[k]
    IN  /\ SendOnSession(sessions, k, i, Receivers(i), flags, v)
        /\ UNCHANGED <<nInst, rx, queue>>

\* Faulty variant: the first packet is sent before the clients' receivers
\* are subscribed, so they start after it.
PacketOpensSessionAfterSend(id, flags, v) ==
    LET n == nInst + 1
        offered == SubscribersOf(subs, id.dport) \cap clientTxs
        notified == {c \in offered : clientState[c] = "Alive"
                                     /\ Len(queue[c]) < QueueCap}
    IN  /\ nInst < MaxSessions
        /\ nInst' = n
        /\ queue' = [c \in Clients |->
                        IF c \in notified THEN Append(queue[c], n) ELSE queue[c]]
        /\ SendOnSession((id :> n) @@ sessions, id, n, notified, flags, v)
        /\ rx' = [c \in Clients |->
                     IF c \in notified THEN [rx[c] EXCEPT ![n] = Len(log'[n])]
                                       ELSE rx[c]]

\* handle_packet for a packet that opens a session: a broadcast channel is
\* created, every subscriber of the destination port is offered a receiver
\* with try_send (skipped when it has no sender in client_txs, when its
\* queue is closed or full), and the sender is inserted before the send.
PacketOpensSession(id, flags, v) ==
    LET n == nInst + 1
        offered == SubscribersOf(subs, id.dport) \cap clientTxs
        notified == {c \in offered : clientState[c] = "Alive"
                                     /\ Len(queue[c]) < QueueCap}
    IN  /\ nInst < MaxSessions
        /\ nInst' = n
        /\ queue' = [c \in Clients |->
                        IF c \in notified THEN Append(queue[c], n) ELSE queue[c]]
        /\ rx' = [c \in Clients |->
                     IF c \in notified THEN [rx[c] EXCEPT ![n] = Len(log[n])]
                                       ELSE rx[c]]
        /\ SendOnSession((id :> n) @@ sessions, id, n, notified, flags, v)

\* handle_packet: a captured packet with identifier id, flags and payload.
\* A packet of no known session that should not start one, or whose port
\* nobody subscribed, is dropped.
HandlePacket(id, flags, bytes) ==
    LET v == IF bytes = "none" THEN 0 ELSE nPackets + 1
    IN  /\ nPackets < MaxPackets
        /\ nPackets' = nPackets + 1
        /\ \/ /\ SessionKeys(id) # {}
              /\ PacketOfSession(id, flags, v)
              /\ UNCHANGED lostPayload
           \/ /\ SessionKeys(id) = {}
              /\ TreatAsNewSession(flags, bytes)
              /\ SubscribersOf(subs, id.dport) # {}
              /\ PacketOpensSession(id, flags, v)
              /\ UNCHANGED lostPayload
           \/ /\ SessionKeys(id) = {}
              /\ \/ ~TreatAsNewSession(flags, bytes)
                 \/ SubscribersOf(subs, id.dport) = {}
              /\ lostPayload' = (lostPayload \/ (v # 0 /\ FlowHasSession(id)))
              /\ UNCHANGED <<sessions, nInst, log, rx, queue>>
        /\ UNCHANGED <<cmds, clientTxs, watching, subs, filter>>
        /\ UNCHANGED clientVars

-----------------------------------------------------------------------------
(* The clients (TcpSnifferApi): each sends commands, accepts connections  *)
(* from its queue, reads data, and may drop its API at any time.          *)

SendCommand(c, op, p) ==
    /\ clientCmds[c] < MaxClientCmds
    /\ clientCmds' = [clientCmds EXCEPT ![c] = @ + 1]
    /\ cmds' = Append(cmds, [client |-> c, op |-> op, port |-> p])

\* TcpSnifferApi::new: announce the client with its connection sender.
ClientConnect(c) ==
    /\ clientState[c] = "Idle"
    /\ clientState' = [clientState EXCEPT ![c] = "Alive"]
    /\ SendCommand(c, "NewClient", 0)
    /\ UNCHANGED <<clientTxs, watching, subs, filter, sessions, nInst, log,
                   nPackets, lostPayload, rx, queue, held, got>>

\* LayerTcp::PortSubscribe / PortUnsubscribe forwarded to the sniffer.
ClientRequest(c, op, p) ==
    /\ clientState[c] = "Alive"
    /\ SendCommand(c, op, p)
    /\ UNCHANGED <<clientState, clientTxs, watching, subs, filter, sessions,
                   nInst, log, nPackets, lostPayload, rx, queue, held, got>>

\* The client drops its API: its queue and every receiver it owns go.
ClientDrop(c) ==
    /\ clientState[c] = "Alive"
    /\ clientState' = [clientState EXCEPT ![c] = "Gone"]
    /\ queue' = [queue EXCEPT ![c] = <<>>]
    /\ rx' = [rx EXCEPT ![c] = [i \in Insts |-> NoRx]]
    /\ held' = [held EXCEPT ![c] = {}]
    /\ UNCHANGED <<clientCmds, got, cmds, clientTxs, watching, subs, filter,
                   sessions, nInst, log, nPackets, lostPayload>>

\* The client takes the next SniffedConnection from its queue.
ClientAccept(c) ==
    /\ clientState[c] = "Alive"
    /\ queue[c] # <<>>
    /\ held' = [held EXCEPT ![c] = @ \cup {Head(queue[c])}]
    /\ queue' = [queue EXCEPT ![c] = Tail(@)]
    /\ UNCHANGED <<clientState, clientCmds, got, rx, cmds, clientTxs,
                   watching, subs, filter, sessions, nInst, log, nPackets,
                   lostPayload>>

\* A receiver whose next message was overwritten in the ring has lagged.
Lagged(c, i) == Len(log[i]) - rx[c][i] > DataCap

\* Receiving on an accepted connection: the next payload, a lag (reported
\* upstream as a close, the receiver is dropped), or the end of a channel
\* whose sender was dropped (a close).
ClientRecv(c, i) ==
    /\ clientState[c] = "Alive"
    /\ i \in held[c]
    /\ rx[c][i] # NoRx
    /\ \/ /\ ~Lagged(c, i)
          /\ rx[c][i] < Len(log[i])
          /\ got' = [got EXCEPT ![c][i] = Append(@, log[i][rx[c][i] + 1])]
          /\ rx' = [rx EXCEPT ![c][i] = @ + 1]
       \/ /\ Lagged(c, i)
          /\ rx' = [rx EXCEPT ![c][i] = NoRx]
          /\ UNCHANGED got
       \/ /\ i \notin {sessions[k] : k \in DOMAIN sessions}
          /\ rx[c][i] = Len(log[i])
          /\ rx' = [rx EXCEPT ![c][i] = NoRx]
          /\ UNCHANGED got
    /\ UNCHANGED <<clientState, clientCmds, held, queue, cmds, clientTxs,
                   watching, subs, filter, sessions, nInst, log, nPackets,
                   lostPayload>>

\* The bounded run is over: every client has gone and every packet has
\* been captured.  The sniffer then waits forever.
Done ==
    /\ nPackets = MaxPackets
    /\ \A c \in Clients : clientState[c] = "Gone"
    /\ UNCHANGED vars

Next ==
    \/ HandleNewClient
    \/ HandleSubscribe
    \/ HandleUnsubscribe
    \/ \E c \in Clients : HandleClientClosed(c)
    \/ \E id \in PacketIds, flags \in PacketFlags, bytes \in Payloads :
          HandlePacket(id, flags, bytes)
    \/ \E c \in Clients :
          \/ ClientConnect(c)
          \/ \E p \in Ports, op \in {"Subscribe", "UnsubscribePort"} :
                ClientRequest(c, op, p)
          \/ ClientDrop(c)
          \/ ClientAccept(c)
          \/ \E i \in Insts : ClientRecv(c, i)
    \/ Done

Spec == Init /\ [][Next]_vars

(***************************************************************************)
(* start's select! polls the command channel, the clients_closed stream   *)
(* and the capture, and tokio's select! starts from a random branch on     *)
(* every iteration, so a handler whose input stays ready is eventually     *)
(* run: weak fairness on each handler.  The clients and the network are    *)
(* not fair: a client may never send, and packets may never arrive.        *)
(***************************************************************************)
FairSpec ==
    /\ Spec
    /\ WF_vars(HandleNewClient)
    /\ WF_vars(HandleSubscribe)
    /\ WF_vars(HandleUnsubscribe)
    /\ \A c \in Clients : WF_vars(HandleClientClosed(c))

-----------------------------------------------------------------------------
(* Properties.                                                             *)

LOCAL SX == INSTANCE SequencesExt

TypeOK ==
    /\ clientState \in [Clients -> {"Idle", "Alive", "Gone"}]
    /\ clientCmds \in [Clients -> 0..MaxClientCmds]
    /\ cmds \in Seq(Commands)
    /\ clientTxs \subseteq Clients /\ watching \subseteq Clients
    /\ subs \in [Ports -> SUBSET Clients]
    /\ filter \subseteq Ports
    /\ DOMAIN sessions \subseteq PacketIds
    /\ \A k \in DOMAIN sessions : sessions[k] \in 1..nInst
    /\ nInst \in 0..MaxSessions /\ nPackets \in 0..MaxPackets
    /\ lostPayload \in BOOLEAN
    /\ log \in [Insts -> Seq(1..MaxPackets)]
    /\ rx \in [Clients -> [Insts -> {NoRx} \cup 0..MaxPackets]]
    /\ queue \in [Clients -> Seq(Insts)]
    /\ held \in [Clients -> SUBSET Insts]
    /\ got \in [Clients -> [Insts -> Seq(1..MaxPackets)]]

\* Specification 4.5 and 4.8, and update_packet_filter: the ports of the
\* BPF filter installed on the capture are exactly the ports some client
\* is subscribed to, after any interleaving of subscribe, unsubscribe and
\* client-closed handling.
FilterMatchesTopics == filter = Topics(subs)

\* Specification 5 (ordering) and 4.5: what a client reads from a sniffed
\* connection is the payload captured for that session, in capture order,
\* from the packet that opened it on, without gaps: a receiver is created
\* before the first send, and a lagging receiver is closed rather than
\* resumed past the lost data.
ReceivedIsPrefix ==
    \A c \in Clients, i \in Insts : SX!IsPrefix(got[c][i], log[i])

\* Specification section 8, property 3, and the hand-written PartialEq and
\* Hash of TcpSessionIdentifier: packets of one 4-tuple in either
\* direction belong to one session.  HashMap::get_mut finds the session of
\* a packet's flow whichever direction opened it, so handle_packet never
\* drops the payload of a flow that has a session.
ReplyFindsSession == ~lostPayload

\* Specification 8.4 (the filter's ports are the ports currently
\* subscribed by any client) and 5 (a task releases what its clients
\* held): once every client has dropped its TcpSnifferApi, the sniffer
\* eventually runs handle_client_closed for each of them and the capture
\* is left with the drop-all filter, whatever commands were still queued.
AllGoneClearsFilter ==
    (\A c \in Clients : clientState[c] = "Gone") ~> (filter = {})
=============================================================================
