------------------------- MODULE SessionIdentifier -------------------------
(***************************************************************************)
(* The TCP session identifier of the agent's sniffer                       *)
(* (src/mirrord/agent/src/sniffer.rs, TcpSessionIdentifier) and its        *)
(* hand-written PartialEq and Hash.  The sniffer keys its session map by   *)
(* this identifier, so that both directions of one flow find the same      *)
(* broadcast sender.  A HashMap finds a key only when equal keys hash      *)
(* alike; the Sniffer module looks sessions up through both operators and  *)
(* checks that a reply finds the session its request opened.               *)
(***************************************************************************)
EXTENDS Integers

CONSTANTS Addrs,   \* a small set of IPv4 addresses, as integers (ordered like Ipv4Addr)
          PortNums \* a small set of TCP port numbers

\* TcpSessionIdentifier { source_addr, dest_addr, source_port, dest_port }
Identifiers ==
    [src : Addrs, dst : Addrs, sport : PortNums, dport : PortNums]

\* The identifier of the same flow seen in the other direction.
Reversed(id) ==
    [src |-> id.dst, dst |-> id.src, sport |-> id.dport, dport |-> id.sport]

\* impl PartialEq for TcpSessionIdentifier: the same 4-tuple, or the
\* opposite one.
TcpEq(a, b) ==
    \/ /\ a.src = b.src /\ a.dst = b.dst
       /\ a.sport = b.sport /\ a.dport = b.dport
    \/ /\ a.src = b.dst /\ a.dst = b.src
       /\ a.sport = b.dport /\ a.dport = b.sport

\* Faulty variant of Hash: the ports fed in packet order, unsorted.
HashInputUnsortedPorts(id) ==
    LET addrs == IF id.src > id.dst THEN <<id.src, id.dst>> ELSE <<id.dst, id.src>>
    IN  <<addrs[1], addrs[2], id.sport, id.dport>>

\* impl Hash for TcpSessionIdentifier: the sequence of values fed to the
\* hasher.  The larger address goes first, then the smaller; independently,
\* the larger port goes first, then the smaller.  Equal feeds give equal
\* hashes, so the feed stands for the hash.
HashInput(id) ==
    LET addrs == IF id.src > id.dst THEN <<id.src, id.dst>> ELSE <<id.dst, id.src>>
        ports == IF id.sport > id.dport THEN <<id.sport, id.dport>> ELSE <<id.dport, id.sport>>
    IN  <<addrs[1], addrs[2], ports[1], ports[2]>>
=============================================================================
