-------------------------------- MODULE Conf --------------------------------
(***************************************************************************)
(* How the program is configured (bin.rs, conf/): from the environment, or *)
(* from a file or directory and the command line, or by the command line   *)
(* alone.  Options are merged with take! (keep what is set) and rst!       *)
(* (override); log and dns are set up, the endpoints built, and the first  *)
(* lookup makes the global resolver.  The value of an option is where it   *)
(* comes from: what two sources say is told apart, what they say is not.   *)
(***************************************************************************)
EXTENDS LegacyConf, FiniteSets

CONSTANTS
    NParts,         \* bound: files of a configuration directory
    MaxRanges,      \* bound: listening port ranges of a legacy configuration
    MaxRemotes,     \* bound: its remote port ranges
    MaxAddrs        \* bound: addresses of a legacy configuration

ASSUME PartsAssumption == NParts \in Nat \ {0}
ASSUME LegacyAssumption == MaxRanges \in Nat /\ MaxRemotes \in Nat /\ MaxAddrs \in Nat

\* Options of NetConf.  accept_mptcp is like send_mptcp, the other ten, with a
\* flag of their own, are like tcp_keepalive.
NetFields == {"tcp_keepalive", "tcp_keepalive_probe", "send_mptcp"}
NetFlags == {"tcp_keepalive", "tcp_keepalive_probe", "use_mptcp"}

\* Options of LogConf and DnsConf; output is like level, the ttls are like
\* cache_size.
SharedFields == {"level", "mode", "cache_size", "protocol", "nameservers"}

Unset == <<>>
Flag == <<"flag", 0>>               \* set by the command line
Default == <<"default", 0>>         \* filled in by build
System == <<"system", 0>>           \* from the system's resolver configuration
Library == <<"library", 0>>         \* a default of the resolver library

VARIABLES
    source,     \* what selects the configuration
    parts,      \* the files: the options each sets
    legacy,     \* the contents of a file in the legacy format
    flags,      \* the flags on the command line
    proto,      \* what a set protocol option says: "tcp" or "tcp_and_udp"
    full,       \* FullConf
    read,       \* the files read so far, in the order of the walk
    built,      \* the network options of the built endpoints
    dns_conf,   \* DNS_CONF: a cell with at most one configuration
    resolver,   \* DNS: made by the first lookup
    pc

input == <<source, parts, legacy, flags, proto>>
vars == <<input, full, read, built, dns_conf, resolver, pc>>

Given(fields, set, who) == [f \in fields |-> IF f \in set THEN who ELSE Unset]

EmptyConf ==
    [shared |-> Given(SharedFields, {}, Unset),
     network |-> Given(NetFields, {}, Unset),
     endpoints |-> <<>>]

\* from_conf_str: a file is toml or json, or else legacy: then its endpoints
\* have no options.
FromConfStr(i) ==
    [shared |-> Given(SharedFields, parts[i].shared, <<"global", i>>),
     network |-> Given(NetFields, parts[i].network, <<"global", i>>),
     endpoints |->
        IF parts[i].kind = "legacy"
        THEN [k \in DOMAIN Pairs(legacy) |->
                 [addrs |-> Pairs(legacy)[k], network |-> EmptyConf.network]]
        ELSE <<[addrs |-> <<>>,
                network |-> Given(NetFields, parts[i].endpoint, <<"endpoint", i>>)]>>]

StrPanics(i) == parts[i].kind = "legacy" /\ FromPanics(legacy)

\* rst!: other overrides, where it is set.
Rst(this, other) ==
    [f \in DOMAIN this |-> IF other[f] # Unset THEN other[f] ELSE this[f]]

\* take!: other fills in what this has not set.
Take(this, other) ==
    [f \in DOMAIN this |-> IF this[f] = Unset /\ other[f] # Unset THEN other[f] ELSE this[f]]

\* NetConf::from_cmd_args reads the flag tcp_keepalive for the probe as well.
NetFromCmdArgs ==
    [f \in NetFields |->
        LET key == CASE f = "send_mptcp" -> "use_mptcp"
                     [] OTHER -> "tcp_keepalive"
        IN  IF key \in flags THEN Flag ELSE Unset]

\* LogConf and DnsConf::from_cmd_args
SharedFromCmdArgs == Given(SharedFields, flags, Flag)

-----------------------------------------------------------------------------
(* What the program is started with: a study of network options, of the    *)
(* shared ones, or of a legacy file.                                       *)

Part(n, e, s) == [kind |-> "toml", network |-> n, endpoint |-> e, shared |-> s]
Files(S) == UNION {[1..n -> S] : n \in 1..NParts}
NoLegacy == [listen_addrs |-> <<>>, listen_ports |-> <<>>, remote_addrs |-> <<>>, remote_ports |-> <<>>]

Init ==
    /\ source \in {"env", "endpoint", "config", "convert", "none"}
    /\ \/ /\ source \in {"env", "endpoint", "config", "none"}
          /\ parts \in Files({Part(n, e, {}) : n \in SUBSET NetFields, e \in SUBSET NetFields})
          /\ flags \in SUBSET NetFlags
          /\ legacy = NoLegacy /\ proto = "tcp"
       \/ /\ source \in {"env", "endpoint", "config"}
          /\ parts \in Files({Part({}, {}, s) : s \in SUBSET SharedFields})
          /\ flags \in SUBSET SharedFields
          /\ legacy = NoLegacy /\ proto \in {"tcp", "tcp_and_udp"}
       \/ /\ source \in {"env", "config", "convert"}
          /\ parts = <<[Part({}, {}, {}) EXCEPT !.kind = "legacy"]>>
          /\ flags = {} /\ proto = "tcp"
          /\ \E l \in SeqOf(Ranges, MaxRanges), r \in SeqOf(Ranges, MaxRemotes),
                n \in 0..MaxAddrs, m \in 0..MaxAddrs :
                 legacy = [listen_addrs |-> [k \in 1..n |-> k], listen_ports |-> l,
                           remote_addrs |-> [k \in 1..m |-> k], remote_ports |-> r]
    /\ source # "config" => Len(parts) = 1
    /\ source \in {"endpoint", "none"} => parts[1] = Part({}, {}, {})
    /\ full = EmptyConf /\ read = <<>> /\ built = <<>>
    /\ dns_conf = <<>> /\ resolver = <<>>
    /\ pc = "load"

-----------------------------------------------------------------------------
(* main                                                                    *)

\* ENV_CONFIG holds a configuration that parses: it is used as it is, neither
\* the global options nor the command line are applied.
LoadEnv ==
    /\ pc = "load" /\ source = "env" /\ ~StrPanics(1)
    /\ full' = FromConfStr(1)
    /\ read' = <<1>>
    /\ pc' = "log"
    /\ UNCHANGED <<input, built, dns_conf, resolver>>

\* EndpointConf::from_cmd_args: no network options of its own.
CmdEndpoint == [addrs |-> <<>>, network |-> EmptyConf.network]

\* CmdInput::Endpoint
LoadCmdEndpoint ==
    /\ pc = "load" /\ source = "endpoint"
    /\ full' = [EmptyConf EXCEPT !.endpoints = Append(@, CmdEndpoint)]
    /\ pc' = "global"
    /\ UNCHANGED <<input, read, built, dns_conf, resolver>>

Unread == DOMAIN parts \ {read[k] : k \in DOMAIN read}

\* take_fields
TakeFields(this, other) ==
    [shared |-> Take(this.shared, other.shared),
     network |-> Take(this.network, other.network),
     endpoints |-> this.endpoints \o other.endpoints]

\* from_conf_file: the directory is walked in any order.
LoadFile ==
    /\ pc = "load" /\ source = "config"
    /\ \E i \in Unread :
           /\ ~StrPanics(i)
           /\ full' = TakeFields(full, FromConfStr(i))
           /\ read' = Append(read, i)
    /\ UNCHANGED <<input, built, dns_conf, resolver, pc>>

FilesRead ==
    /\ pc = "load" /\ source = "config" /\ Unread = {}
    /\ pc' = "global"
    /\ UNCHANGED <<input, full, read, built, dns_conf, resolver>>

\* handle_convert writes the converted configuration, and the program ends.
Convert ==
    /\ pc = "load" /\ source = "convert" /\ ~StrPanics(1)
    /\ full' = FromConfStr(1)
    /\ pc' = "exit"
    /\ UNCHANGED <<input, read, built, dns_conf, resolver>>

\* CmdInput::None: help, version, or neither a file nor an endpoint.
ExitNone ==
    /\ pc = "load" /\ source = "none"
    /\ pc' = "exit"
    /\ UNCHANGED <<input, full, read, built, dns_conf, resolver>>

\* A panic: a file that cannot be read or parsed or an empty legacy list, a log
\* file that cannot be opened, a name server or an address that is none.
Panic ==
    /\ \/ pc = "load" /\ source \in {"config", "convert"} /\ Unread # {}
       \/ pc = "load" /\ source = "env" /\ StrPanics(1)
       \/ pc = "log"
       \/ pc = "dns" /\ full.shared["nameservers"] # Unset
       \/ pc = "build"
    /\ pc' = "aborted"
    /\ UNCHANGED <<input, full, read, built, dns_conf, resolver>>

\* What an endpoint takes of the global options.
TakeNet(endpoint, net) == [endpoint EXCEPT !.network = Take(@, net)]

ApplyGlobalOpts ==
    /\ pc = "global"
    /\ full' = [full EXCEPT !.endpoints = [i \in DOMAIN @ |-> TakeNet(@[i], full.network)]]
    /\ pc' = "cmd"
    /\ UNCHANGED <<input, read, built, dns_conf, resolver>>

\* Mutant: the command line only fills gaps.
Override_Fills(this, other) == Take(this, other)

Override(this, other) == Rst(this, other)

\* What the command line overrides in an endpoint.
RstNet(endpoint, net) == [endpoint EXCEPT !.network = Override(@, net)]

ApplyCmdOpts ==
    /\ pc = "cmd"
    /\ full' = [full EXCEPT
           !.shared = Override(@, SharedFromCmdArgs),
           !.endpoints = [i \in DOMAIN @ |-> RstNet(@[i], NetFromCmdArgs)]]
    /\ pc' = "log"
    /\ UNCHANGED <<input, read, built, dns_conf, resolver>>

SetupLog ==
    /\ pc = "log"
    /\ pc' = "dns"
    /\ UNCHANGED <<input, full, read, built, dns_conf, resolver>>

-----------------------------------------------------------------------------
(* The resolver                                                            *)

OrElse(v, default) == IF v = Unset THEN default ELSE v

\* DnsConf::build: options are given to the resolver if one of them is set, and
\* then the others are the library's, not the system's.
BuildOpts(dns) ==
    LET rest == IF dns["mode"] = Unset /\ dns["cache_size"] = Unset THEN System ELSE Library
    IN  [mode |-> OrElse(dns["mode"], rest), cache_size |-> OrElse(dns["cache_size"], rest)]

\* Mutant: only name servers make a configuration.
UsesSystem_Always(dns) == dns["nameservers"] = Unset

\* protocol.unwrap_or_default() is tcp_and_udp.
UsesSystem(dns) ==
    dns["nameservers"] = Unset /\ (dns["protocol"] = Unset \/ proto = "tcp_and_udp")

\* The system's servers are asked over both protocols; so are others by default.
BuildServers(dns) ==
    [servers |-> OrElse(dns["nameservers"], System),
     protocol |-> IF UsesSystem(dns) \/ dns["protocol"] = Unset THEN "tcp_and_udp" ELSE proto]

\* setup_dns: build_lazy fills the cell, which must be empty.
SetupDns ==
    /\ pc = "dns" /\ dns_conf = <<>>
    /\ dns_conf' = <<[opts |-> BuildOpts(full.shared), conf |-> BuildServers(full.shared)]>>
    /\ pc' = "build"
    /\ UNCHANGED <<input, full, read, built, resolver>>

\* The first lookup of a name takes the configuration out of the cell.
FirstLookup ==
    /\ pc = "run" /\ resolver = <<>> /\ dns_conf # <<>>
    /\ resolver' = dns_conf
    /\ dns_conf' = <<>>
    /\ UNCHANGED <<input, full, read, built, pc>>

\* NetConf::build fills in the defaults.
BuildNet(net) == [f \in NetFields |-> OrElse(net[f], Default)]

\* EndpointConf::build
Build ==
    /\ pc = "build"
    /\ built' = [i \in DOMAIN full.endpoints |-> BuildNet(full.endpoints[i].network)]
    /\ pc' = "run"
    /\ UNCHANGED <<input, full, read, dns_conf, resolver>>

Next ==
    \/ LoadEnv \/ LoadCmdEndpoint \/ LoadFile \/ FilesRead \/ Convert \/ ExitNone
    \/ ApplyGlobalOpts \/ ApplyCmdOpts \/ SetupLog \/ SetupDns \/ Build
    \/ FirstLookup \/ Panic

Spec == Init /\ [][Next]_vars

-----------------------------------------------------------------------------
(* Properties                                                              *)

\* The first of a sequence of options that is set, else Unset.
FirstSet(s) ==
    IF \A k \in DOMAIN s : s[k] = Unset THEN Unset
    ELSE s[CHOOSE k \in DOMAIN s : s[k] # Unset /\ \A j \in 1..k - 1 : s[j] = Unset]

\* The command line, as far as it counts: not beside an environment.
Cmd(flag) == IF source # "env" /\ flag \in flags THEN Flag ELSE Unset

\* What the files say of a global option, in the order they were read.
Globals(field, f) ==
    [k \in DOMAIN read |-> IF f \in parts[read[k]][field] THEN <<"global", read[k]>> ELSE Unset]

\* What was asked for a log or dns option.
Asked(f) == FirstSet(<<Cmd(f)>> \o Globals("shared", f))

\* Each file has an endpoint, and so has the command line, here with the
\* empty part that stands for it; where the k-th endpoint comes from.
Slots == IF source = "endpoint" THEN {1} ELSE DOMAIN read
File(k) == IF source = "endpoint" THEN 1 ELSE read[k]

\* What an endpoint says of an option itself, and what is asked for it in all.
Own(k, f) == IF f \in parts[File(k)].endpoint THEN <<"endpoint", File(k)>> ELSE Unset
FlagOf(f) == IF f = "send_mptcp" THEN "use_mptcp" ELSE f
AskedOf(k, f) ==
    FirstSet(<<Cmd(FlagOf(f))>> \o <<Own(k, f)>> \o Globals("network", f))

\* The options no keepalive flag disturbs: the probe count takes the other one's.
KeepaliveFlags == {"tcp_keepalive", "tcp_keepalive_probe"}
Undisturbed ==
    {f \in NetFields : f = "tcp_keepalive_probe" => flags \cap KeepaliveFlags = {}}

\* "cmd argument overrides global and local option", "local field takes
\* global option": from files and the command line, each endpoint is built once,
\* with what the command line says, else what its endpoint says, else what the
\* first file that was read and sets it globally says, else the default.  The
\* log level follows the same order.  A configuration from the environment is
\* left out (main applies neither step to it), and so is the probe count beside
\* a keepalive flag (FlagsHeeded).
Precedence ==
    pc = "run" /\ source # "env" =>
        /\ full.shared["level"] = Asked("level")
        /\ parts[1].kind = "toml" =>
               /\ DOMAIN built = Slots
               /\ \A k \in Slots : \A f \in Undisturbed :
                      built[k][f] = OrElse(AskedOf(k, f), Default)

\* "override default tcp keepalive count(3)": what a flag on the command line
\* says is what NetConf::from_cmd_args overrides the endpoints' options with.
FlagsHeeded ==
    pc = "run" /\ source # "env" =>
        \A k \in DOMAIN built : \A f \in NetFields :
            FlagOf(f) \in flags => built[k][f] = Flag

\* Once the lazy resolver exists it is the one that was asked for, whatever the
\* combination of files and flags, though four paths lead to it: a set mode,
\* cache size or list of servers is used, else servers are the system's, and a
\* set protocol is used also when it is the only thing that is set.
DnsAsAsked ==
    resolver # <<>> =>
        LET opts == resolver[1].opts
            conf == resolver[1].conf
        IN  /\ \A f \in {"mode", "cache_size"} : Asked(f) # Unset => opts[f] = Asked(f)
            /\ conf.servers = OrElse(Asked("nameservers"), System)
            /\ conf.protocol = IF Asked("protocol") = Unset THEN "tcp_and_udp" ELSE proto

\* Ports below the largest, first to last, and no list is empty.
Sound(x) ==
    /\ x.listen_addrs # <<>> /\ x.remote_addrs # <<>>
    /\ x.listen_ports # <<>> /\ x.remote_ports # <<>>
    /\ \A i \in DOMAIN x.listen_ports :
           x.listen_ports[i][1] <= x.listen_ports[i][2] /\ x.listen_ports[i][2] < PortMax
    /\ \A i \in DOMAIN x.remote_ports :
           x.remote_ports[i][1] <= x.remote_ports[i][2] /\ x.remote_ports[i][2] < PortMax

\* The number of ports of ranges, and the k-th of them, by counting.
Size(range) == range[2] - range[1] + 1
Before(ranges, i) ==
    LET sum[j \in 0..Len(ranges)] == IF j = 0 THEN 0 ELSE sum[j - 1] + Size(ranges[j])
    IN  sum[i - 1]
PortCount(ranges) == Before(ranges, Len(ranges) + 1)
PortNo(ranges, k) ==
    LET i == CHOOSE i \in DOMAIN ranges :
                 Before(ranges, i) < k /\ k <= Before(ranges, i + 1)
    IN  ranges[i][1] + k - Before(ranges, i) - 1

\* A legacy configuration, read or converted, listens on every port of its
\* ranges once and relays the k-th of them from the k-th listening address to
\* the k-th remote one, where a list that is too short goes on with its first
\* element.  Ranges that end in the last port are left out: they wrap.
LegacyPairs ==
    parts[1].kind = "legacy" /\ Sound(legacy) /\ (read # <<>> \/ pc = "exit") =>
        LET ports(ranges, k) == PortNo(ranges, IF k <= PortCount(ranges) THEN k ELSE 1)
            addr(list, k) == list[IF k <= Len(list) THEN k ELSE 1]
        IN  /\ Len(full.endpoints) = PortCount(legacy.listen_ports)
            /\ \A k \in DOMAIN full.endpoints :
                full.endpoints[k].addrs =
                    <<<<addr(legacy.listen_addrs, k), ports(legacy.listen_ports, k)>>,
                      <<addr(legacy.remote_addrs, k), ports(legacy.remote_ports, k)>>>>

=============================================================================
