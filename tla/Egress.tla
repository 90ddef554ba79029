------------------------------- MODULE Egress -------------------------------
(***************************************************************************)
(* From the text of a profile to packets: a governed task of an enforcing  *)
(* profile opens sockets and tun devices and sends, past the hooks of      *)
(* net.bpf.c, which decide by the tries that NetPolicy compiles.           *)
(*                                                                         *)
(* The sock_addr hooks see a destination only when the protocol code calls *)
(* them; socket_create and the tun hooks have to keep the task from        *)
(* everything else over IP and on the link.  Which kernel path calls which *)
(* hook is external, as the comment on rk_sock_observed lists it.  Sockets *)
(* of the other families (vsock, TIPC, RDS, ...) are not classified by it: *)
(* one family stands for them all, and no hook sees what it carries.       *)
(***************************************************************************)
EXTENDS NetPolicy

CONSTANT MaxSocketRules   \* sockets are opened under policies of at most so many rules

VARIABLES
  deny_raw,   \* RK_PROFILE_DENY_RAW_SOCKETS
  socket,     \* the task's socket or tun queue
  packet      \* a packet on its way out

evars == <<nvars, deny_raw, socket, packet>>

Families == {"inet", "inet6", "packet", "unclassified"}
Types == {"stream", "dgram", "raw", "seqpacket"}
Protocols == {"ip", "tcp", "udp", "udplite", "icmp", "sctp", "mptcp"}
NoSocket == [transport |-> "none", family |-> "none", peer |-> << >>]
NoPacket == [transport |-> "none"]

\* The transport the kernel creates for a family, type and protocol; protocol 0
\* is the first of its type.
Transport(family, type, protocol) ==
  IF family \in {"packet", "unclassified"} THEN family
  ELSE CASE type = "raw" -> "raw"
         [] type = "stream" /\ protocol \in {"ip", "tcp"} -> "tcp"
         [] type = "stream" /\ protocol \in {"mptcp", "sctp"} -> protocol
         [] type = "dgram" /\ protocol \in {"ip", "udp"} -> "udp"
         [] type = "dgram" /\ protocol \in {"udplite", "icmp"} -> protocol
         [] type = "seqpacket" /\ protocol = "sctp" -> "sctp"
         [] OTHER -> "none"

\* Where the kernel calls connect4/6 and sendmsg4/6.  What MPTCP connects later is
\* the path manager's.
ConnectHooked == {"tcp", "udp", "mptcp"}
SendHooked == {"udp", "udplite"}
SendsAnywhere == {"udp", "udplite", "icmp", "mptcp", "sctp", "raw", "packet", "tun",
                  "unclassified"}

\* An AF_INET destination reaches the hook as its IPv4-mapped form.
Destinations(family) == IF family = "inet" THEN {a \in Addresses : contains(V4, a)} ELSE Addresses

rk_proto_bit(transport) == IF transport \in {"tcp", "udp"} THEN transport ELSE "other"

\* rk_net_sock_addr, for a governed task whose mode is ENFORCE.
SockAddrAllows(transport, addr, port) ==
  rk_net_verdict(compiled.tries, default, addr, port, rk_proto_bit(transport)).action = "allow"

\* Mutant: UDP-Lite counts as UDP.
ObservedWithUdpLite(family, type, protocol) ==
  \/ family \notin {"packet", "inet", "inet6"}
  \/ /\ family \in {"inet", "inet6"}
     /\ \/ type = "stream" /\ protocol \in {"ip", "tcp"}
        \/ type = "dgram" /\ protocol \in {"ip", "udp", "udplite"}

rk_sock_observed(family, type, protocol) ==
  \/ family \notin {"packet", "inet", "inet6"}
  \/ /\ family \in {"inet", "inet6"}
     /\ \/ type = "stream" /\ protocol \in {"ip", "tcp"}
        \/ type = "dgram" /\ protocol \in {"ip", "udp"}
-----------------------------------------------------------------------------
EInit ==
  /\ NInit
  /\ deny_raw = TRUE
  /\ socket = NoSocket
  /\ packet = NoPacket

\* The policy is written and compiled as in NetPolicy; deny_raw_sockets, TRUE where the
\* file does not say, goes into the compiled profile's flags.
Policy ==
  /\ NNext
  /\ deny_raw' \in IF compiled' # compiled /\ Len(file) <= MaxSocketRules THEN BOOLEAN ELSE {deny_raw}
  /\ UNCHANGED <<socket, packet>>

OpenSocket(transport, family) ==
  /\ compiled.status = "ok" /\ Len(file) <= MaxSocketRules
  /\ socket = NoSocket
  /\ socket' = [transport |-> transport, family |-> family, peer |-> << >>]
  /\ UNCHANGED <<nvars, deny_raw, packet>>

\* socket(), past rk_net_socket_create.
SocketCreate(family, type, protocol) ==
  /\ Transport(family, type, protocol) # "none"
  /\ rk_sock_observed(family, type, protocol) \/ ~deny_raw
  /\ OpenSocket(Transport(family, type, protocol), family)

\* A tun device is created, opened or given a queue, past rk_net_tun.
TunOpen ==
  /\ ~deny_raw
  /\ OpenSocket("tun", "packet")

\* connect(); a datagram socket may be connected again.  For the sockets left out it
\* changes nothing: they send anywhere, and no hook runs for either.
Connect(addr, port) ==
  /\ socket.transport \notin {"none", "raw", "packet", "tun", "unclassified"}
  /\ socket.peer = << >> \/ socket.transport \in {"udp", "udplite", "icmp"}
  /\ socket.transport \in ConnectHooked => SockAddrAllows(socket.transport, addr, port)
  /\ packet = NoPacket
  /\ socket' = [socket EXCEPT !.peer = <<addr, port>>]
  /\ UNCHANGED <<nvars, deny_raw, packet>>

Emit(addr, port) ==
  /\ packet = NoPacket
  /\ packet' = [transport |-> socket.transport, addr |-> addr, port |-> port]
  /\ UNCHANGED <<nvars, deny_raw, socket>>

\* send() on a connected socket: no hook runs.
Send ==
  /\ socket.peer # << >>
  /\ Emit(socket.peer[1], socket.peer[2])

\* sendto() and its like, with a destination of its own.
SendTo(addr, port) ==
  /\ socket.transport \in SendsAnywhere
  /\ socket.transport \in SendHooked => SockAddrAllows(socket.transport, addr, port)
  /\ Emit(addr, port)

Delivered ==
  /\ packet # NoPacket
  /\ packet' = NoPacket
  /\ UNCHANGED <<nvars, deny_raw, socket>>

CloseSocket ==
  /\ socket # NoSocket /\ packet = NoPacket
  /\ socket' = NoSocket
  /\ UNCHANGED <<nvars, deny_raw, packet>>

ENext ==
  \/ Policy
  \/ \E family \in Families, type \in Types, protocol \in Protocols :
       SocketCreate(family, type, protocol)
  \/ TunOpen
  \/ \E addr \in Destinations(socket.family), port \in Ports : Connect(addr, port) \/ SendTo(addr, port)
  \/ Send \/ Delivered
  \/ CloseSocket

ESpec == EInit /\ [][ENext]_evars
-----------------------------------------------------------------------------
\* Every packet a governed task sends through an IP or packet socket or a tun device
\* goes where the rules of its profile allow (evaluate, on the rule list and not on
\* the tries): on TCP and UDP always, and with deny_raw_sockets on whatever else of
\* these the task manages to open.  Families that rk_sock_observed does not classify
\* are excepted (docs/threat-model.md, sections 4 and 6).
EgressFollowsPolicy ==
  /\ packet # NoPacket /\ packet.transport # "unclassified"
  /\ deny_raw \/ packet.transport \in {"tcp", "udp"}
  => evaluate(rules, default, packet.addr, packet.port, rk_proto_bit(packet.transport)).action = "allow"
=============================================================================
