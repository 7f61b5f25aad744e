----------------------------- MODULE LegacyConf -----------------------------
(***************************************************************************)
(* The legacy configuration format (conf/legacy/mod.rs): lists of addresses*)
(* and of port ranges, which become one endpoint for each listening port.  *)
(* A range is a pair of ports; a single port p is p-p.  Ports are u16 and  *)
(* wrap, as in a release build.                                            *)
(***************************************************************************)
EXTENDS Integers, Sequences, SequencesExt

CONSTANT PortMax    \* the largest port: 65535 in the code

ASSUME PortAssumption == PortMax \in Nat

Ports == 0..PortMax
Ranges == Ports \X Ports

\* Mutant: the end of a range is left out.
Past_Excluded(end) == end

\* end + 1 as u16.
Past(end) == (end + 1) % (PortMax + 1)

\* flatten_ports: start..end + 1 of each range, in order.
Expand(range) ==
    LET size == Past(range[2]) - range[1]
    IN  IF size > 0 THEN [k \in 1..size |-> range[1] + k - 1] ELSE <<>>

FlattenPorts(ranges) == FlattenSeq([i \in DOMAIN ranges |-> Expand(ranges[i])])

\* Beyond its end a list goes on with its first element.
Padded(list, k) == IF k <= Len(list) THEN list[k] ELSE list[1]

\* join_addr_port
JoinAddrPort(addrs, ports, len) ==
    [k \in 1..len |-> <<Padded(addrs, k), Padded(ports, k)>>]

\* join_addr_port panics on an empty list.
FromPanics(x) ==
    \/ FlattenPorts(x.listen_ports) = <<>> \/ x.listen_addrs = <<>>
    \/ FlattenPorts(x.remote_ports) = <<>> \/ x.remote_addrs = <<>>

\* From<LegacyConf>: the listening and the remote address of each endpoint.
Pairs(x) ==
    LET listen_ports == FlattenPorts(x.listen_ports)
        remote_ports == FlattenPorts(x.remote_ports)
        len == Len(listen_ports)
        listen == JoinAddrPort(x.listen_addrs, listen_ports, len)
        remote == JoinAddrPort(x.remote_addrs, remote_ports, len)
    IN  [k \in 1..len |-> <<listen[k], remote[k]>>]

=============================================================================
