---------------------------- MODULE MCSniffer ----------------------------
(***************************************************************************)
(* Instantiates the sniffer for TLC: one flow towards a subscribed port    *)
(* and its reply direction, one flow towards a second port.                *)
(***************************************************************************)
EXTENDS Sniffer

\* A remote peer 1.1.1.1:3133 talking to the pod 127.0.0.1 (as integers).
Remote == 1
Pod    == 2

FlowTo(p) == [src |-> Remote, dst |-> Pod, sport |-> 3133, dport |-> p]

MCPacketIds == {FlowTo(80), Reversed(FlowTo(80))}

MCPacketFlags == {{"SYN"}, {"ACK"}, {"ACK", "FIN"}}

=============================================================================
