# A TLA+ verification project for hoorayhug-rs

hoorayhug-rs is a relay for TCP and UDP (a descendant of realm): it listens on local
addresses and forwards what it receives to remote addresses, optionally through
WebSocket or TLS, with a PROXY header, with load balancing over several remotes, and
with an obfuscation of the stream. This directory models the parts that carry its
logic, checks them with TLC on small instances and proves with TLAPS, for every
instance, all the safety properties that these checks find to hold.

Paths below are relative to the repository. The default features of `Cargo.toml` are
assumed (`proxy`, `balance`, `multi-thread`, `transport`, `batched-udp`,
`brutal-shutdown`), the release profile too: a panic aborts the process, and integer
arithmetic wraps.

## 1. Inventory

| component | state | operations | correct when |
|---|---|---|---|
| relay future: `hoorayhug_io` `bidi_copy.rs`, `buf.rs`, `mem_copy.rs`, `linux/zero_copy.rs` | two `CopyBuffer`s (`read_done`, `need_flush`, `pos`, `cap`, `amt`, `buf`), a `TransferState` for each direction | `poll` -> `transfer` -> `poll_copy` -> read, write, flush, shutdown | bytes in order, each once; end of stream passed on last; never asleep on work it could do; true result |
| obfuscation prefix: `bidi_copy.rs` | none kept | `generate_dynamic_obfs`, `consume_dynamic_obfs` | what one writes the other consumes |
| plain relay: `hoorayhug_core` `tcp/plain.rs` | none kept | pipes, then memory buffers after `InvalidInput` | the second attempt continues the first |
| tcp accept loops, connection tasks: `tcp/mod.rs`, `tcp/middle.rs`, `tcp/socket.rs`, `tcp/transport.rs`, `trick.rs`, `run` in `bin.rs` | a listener for each endpoint, spawned tasks, raw pointers (`Ref`) into the future of `run_tcp` | bind, accept, resolve, dial, exchange a header, shake hands, relay, exit | an address that answers is found; tasks get to their relay or end; no one waits for a relay at a listener; pointers stay valid |
| PROXY protocol: `tcp/proxy.rs` | a peek buffer, two possibly unset addresses | peek, parse, remove, send a header of the configured version | the payload is left whole, addresses are set |
| udp relay: `udp/middle.rs`, `udp/sockmap.rs`, `udp/batched.rs` | a `Registry` of packets, the shared `SockMap`, a `send_back` task for each client | receive a batch, group it, find or make an association, send; reply, time out, remove | one association per client with a reader; no datagram lost without an error |
| grouping of a batch: `group_by_inner` in `udp/middle.rs` | packets swapped in place, ranges | one pass | groups tile the batch, one group per client |
| round robin: `hoorayhug_lb` `round_robin.rs` | weights under a mutex | `new`, `next` | each peer is credited exactly its weight |
| ip hash: `ip_hash.rs` | a sorted ring | `new`, `next` | same client, same remote; the ring is never empty |
| balancer front: `balancer.rs` | the strategy | `parse_from_str`, `next` | a token names a remote |
| configuration: `src/bin.rs`, `src/conf/`, `src/cmd/` | options with `Option` fields, from environment, files and command line | `take!`, `rst!`, defaults, start-up | documented precedence |
| dns and log options: `conf/dns.rs`, `conf/log.rs`, `dns/mod.rs` | a cell with the resolver's configuration, a lazy resolver | build, set up, first lookup | the resolver that was asked for |
| legacy format: `conf/legacy/mod.rs` | lists of addresses and port ranges | expand, pair, convert | the k-th port goes with the k-th addresses |
| timeouts: `time.rs` | a future and a timer | `poll` | value before timer |
| command line flags, hook, system calls, peek and statistic streams | | | see section 7 |

How they interact: `bin.rs` merges the configuration, sets up log and resolver, builds
the endpoints and spawns `run_tcp` and `run_udp` for each; it exits when all have
returned. `run_tcp` spawns one task for each accepted connection; the task asks the balancer
for a token (shared, under a mutex), resolves and dials the remote, exchanges PROXY
headers and awaits the relay future. `run_udp` runs one entry task, which shares the
`SockMap` with the `send_back` tasks that it spawns. Everything is driven by wakers and
timers of tokio, on several threads by default.

What is hard to test here: the order of readiness events of two sockets against partial
reads and writes in a poll; data in a buffered writer; a task that ends before its
creator has finished; an accept loop that ends before its tasks, for want of a
descriptor that another endpoint's relays hold; partial sends; timeouts against late
answers; arithmetic at the limit of its type; combinations of set and unset options.
The list with the lines is `hazards` in `PROJECT.json`.

## 2. Modules

| module | models | composed with |
|---|---|---|
| `StreamRelay` | abstract: what a relay promises | implemented by `BidiCopy` |
| `BidiCopy` | the relay future | refines `StreamRelay` (property `ImplementsRelay`) |
| `BidiCopyProofs` | inductive invariant and theorems of `BidiCopy`, its refinement of `StreamRelay` | |
| `UdpRelay` | entry task, `SockMap`, `send_back` tasks | uses the grouping of `GroupBy` as an atomic fact |
| `UdpRelayProofs` | inductive invariant and theorems of `UdpRelay` | |
| `GroupBy` | `group_by_inner`, one action per round of a loop | |
| `GroupByProofs` | inductive invariant and theorems of `GroupBy` | |
| `ObfsPrefix` | the obfuscation prefix between two relays, and the fallback of `run_relay` | `BidiCopy` is its relaying phase, one byte at a time |
| `ObfsPrefixProofs` | inductive invariant and theorems of `ObfsPrefix` | |
| `TcpServe` | accept loops and connection tasks of all endpoints | `Balancer` is what picks the remote, `ProxyProtocol` and `BidiCopy` are one phase each |
| `TcpServeProofs` | inductive invariant of `TcpServe`: the descriptors in use never pass the limit | |
| `ProxyProtocol` | `handle_proxy` | |
| `ProxyProtocolProofs` | inductive invariant and theorems of `ProxyProtocol` | |
| `RoundRobin` | the state and `next` of the round robin, with wrapping `i16` | part of `Balancer` |
| `IpHash` | the ring as operators | part of `Balancer` |
| `Balancer` | the balance string, the strategies, the use of a token | extends `RoundRobin` and `IpHash` |
| `BalancerProofs` | inductive invariants and theorems of `Balancer`, with the sums of weights they need | |
| `LegacyConf` | the legacy format as operators | part of `Conf` |
| `Conf` | sources of the configuration, merging, start-up, resolver | extends `LegacyConf` |
| `ConfProofs` | inductive invariants and theorems of `Conf` and `LegacyConf` | |

Definitions whose names end in `_Something` under a comment "Mutant" are deliberate
errors. They are used nowhere; each replaces the definition it is named after to show
that a property notices the error.

### BidiCopy

One action is one call on a stream with the straight-line code around it: `PollRead`,
`PollWrite`, `PollFlush` (the flush on a pending read), `PollFlushEof`,
`PollShutdown`; `Poll`, `TransferDone` and `Combine` are the frame of
`BidiCopy::poll`. Between two calls the peers may send, close, read or reset
(`PeerSend`, `PeerFin`, `PeerRead`, `PeerReset`), since the kernel does not wait for
the task. The fields of `CopyBuffer` keep their names. `waits` and `woken` are the
wakers left with the streams and the scheduled flag of the task: a stream that becomes
ready takes its waker, and `Poll` is enabled only when the task is woken. A byte is its
position in its stream; the mask `^ 0x5A` is negation, which like it is an involution
that changes every byte. `StageCap` is what a writer may hold back until it is flushed
(TLS, WebSocket); 0 is a raw socket. `brutal` is the feature brutal-shutdown, either way
in every run. `TargetLens` is the random chunk of an obfuscating read; its floor of one
byte (`mem_copy.rs:61`) is left out, as 7 % of a buffer of more than 128 bytes is never 0. After a reset a read may still return what had
arrived or fail, a write fails: as `ECONNRESET`, or as `WriteZero` where splice returns
0.

### UdpRelay

`epc` is the place of the entry task: `recv`, `resolve`, `group` (next client of the
batch), `associate` and `insert` (the two halves of the miss in `find_or_insert`: the
closure with its `tokio::spawn`, then the insert), `send`. `sb` is the place of each
`send_back`. `MultiThread` says whether a `send_back` may run while the entry task is
between two awaits: on a current-thread runtime it cannot, as `find_or_insert` does not
await. Every `?` of `associate_and_relay` leads to `Return`, which drops the registry. A
`recv` error drops nothing and is a stuttering step. Sockets are never reused, so that
an old and a new association can be told apart.

### ObfsPrefix

The stream from a relay with `obfs = "client"` to one with `obfs = "server"`, from
`bidi_copy_buf` on both sides. `Headers` is what `generate_dynamic_obfs` can make, built
the way it does (digits, their places, fillers past the digits, key), `ReadHeader` what
`consume_dynamic_obfs` does with five bytes. A byte has two bits, there are two digits;
`HdrLen` is 5 in the code and 3 in the run, which leaves room for a filler beside two
digits. `path` is how both ends relay: pipes, memory buffers, or pipes that fail with
`InvalidInput` and memory buffers after that, which runs `bidi_copy_buf`, prefix included,
a second time. The memory buffer masks, the pipe does not, so ends that take different
paths do not understand each other; they are left out. A `probe` starts with any bytes.
The limit `l > 999` cannot be passed by three digits and has no step of its own.

### GroupBy

The indices of the code, from 0, and the two nested loops. The initial states are all
batches of 1 to `MaxN` packets; `recv_some` never returns 0.

### Balancer, RoundRobin, IpHash

A state is an endpoint with its balance string and its remotes; a step is a connection
that asks for its remote. An entry of the string that is no `u8` is `Junk`: it is dropped,
as `parse_from_str` does, and the weights behind it move up. `RoundRobin` makes a call one
action since the mutex is held throughout; `Wrap` is the two's complement of a type with
`2 * Half` values (`Half` is 2^15 for the `i16` of the code, 16 in the run).

`IpHash` takes the hash of a point to be any function of its index. This covers whatever
a build makes of `unchecked_mul` and `unchecked_add` on overflow and of `align_to` on an
array of bytes: both are settled when the program is built. The hashed text names
the index and not the peer, so peers share their points. `sort_unstable` orders nodes of
equal hash as it likes, and a search that hits several may return any: `hit` and `first`
are what it returns and which of them comes first, chosen once. A client is the
hash of its address. That a client stays with its remote is then a fact about a function of
a ring that never changes, and is no property here. A token that names no remote, or a lookup in an empty ring, sets
`panicked`, which in the release profile ends the process.

### ProxyProtocol

The header and the payload arrive in any pieces, the client may close at any time, and the
header may be longer than the peek buffer. The parser of the crate is external: it fails
on an incomplete header and otherwise takes exactly the header. `send_proxy_version` is any
number, as nothing checks it. Unset addresses have families, like any memory
that `assume_init` would read.

### TcpServe

Endpoints share the process and its descriptors. The model counts those of the listeners
and of each task, so that `bind`, `accept`, `socket` and pipe calls fail when there are none
left. `srv = "ended"` means that the future of `run_tcp`, and with it what the `Ref`s point
to, is gone; `Exit` is the end of `join_all`, after which the runtime drops the tasks.
`addrs` is what the loop of `connect` has left of the looked-up addresses, each as what
becomes of it: it answers, it refuses or is silent, or its socket cannot be set up, where
a `?` of `socket.rs:74-90` ends the loop (`SocketErr`) and leaves the addresses behind it
untried. The remote is taken to be a valid
one, which is `TokensNameRemotes` of `Balancer`. A transport adds the handshakes, which
have no timeout, and takes no pipes.

### Conf, LegacyConf

The value of an option is where it comes from (`<<"global", 2>>` is the second file's
global option), so what wins can be seen. Initial states are three studies, each with all
its combinations: network options, log and dns options, and a legacy file. Of thirteen
network options there are three, the ones whose treatment differs; the rest are treated
like `tcp_keepalive`. The files of a directory are read in any order, as nothing sorts the
walk. Every `unwrap`, `expect` and `assert` of the start-up is `Panic`. `LegacyConf`
expands ranges in `u16` with wrap-around.

## 3. Runs

| run | question | result |
|---|---|---|
| `bidi_relay` | bytes, wakeups, results, refinement and liveness over masked memory buffers and a buffered writer, with and without brutal-shutdown | holds |
| `bidi_masked` | is the stream masked whenever `obfs` is set? | violated: the pipe is tried first and does not mask |
| `udp_single` | associations and datagrams on one thread; batches end, associations expire | holds |
| `udp_stale` | is a removed association gone, on several threads? | violated: it may be inserted after its removal |
| `group_small` | the grouping of every batch of up to 7 packets of 3 clients | holds |
| `balancer_edge` | is the credit exact up to the limit of the integer type, does a token name a remote? | holds |
| `tcp_serve` | with two endpoints and few descriptors: is an address that answers found behind ones that do not, does an accepted connection get to its relay or end, is anyone kept waiting at a listener? | holds |
| `tcp_refs` | do tasks outlive what they point to, while another endpoint keeps the process up? | violated: an accept error ends `run_tcp` first |
| `proxy_exchange` | payload, addresses, versions and end of the exchange | holds |
| `conf_precedence` | the documented precedence of options from files and the command line, the resolver that is built, the pairs of a legacy file | holds |
| `conf_probe` | does a network flag of the command line reach the endpoints? | violated: `tcp_keepalive_probe` does not |
| `obfs_prefix` | is every prefix removed exactly, are only prefixes accepted, does what follows an unflushed prefix arrive? | holds |

The four violations are the project's findings; each is a trace of what the code does
against a sentence of the repository, quoted in `PROJECT.json`. On several threads
`LiveIsMapped` and `NoSilentLoss` hold as well; the theorems of `UdpRelayProofs` show it
for either runtime.

**Bounds.** In `BidiCopy` two bytes in each direction with a buffer of three and a wire and a
stage of one give short reads, short writes inside a read, a full wire, several fills of
the buffer and a staged byte behind a full wire; the theorems then cover every size, and
pipes. A buffer of three is below `ChunkThreshold`, so reads are not chunked in the run: a
chunk only shortens a read, and every read may be short anyway. In `UdpRelay` two clients, two sockets and two
datagrams each give a second association for a client that had one, a batch of two clients
and a short send; proved for all sizes. `GroupBy` with seven packets of three clients has
groups picked from behind in two rounds. In `Balancer`, 15 calls are a full round of every
weight vector of up to five peers with weights up to 3; the integer type is shrunk to five
bits so that sums both fit and do not. Rings have up to two weights up to 2, `MIN_REPLICA`
2 and the ratio at most 3, so that the ratio is 1, 2 and saturated, hashes 0 to 2 so that
clients are on a point, between points and behind the last one. `TcpServe` has two
endpoints, two connections, three addresses and eight descriptors, of which a relay with
pipes takes six: accept, socket and pipe calls all fail for want of one. `Conf` has two
files, so that their order matters, ports 0 to 3, two listening ranges, one remote range
and two addresses: lists of equal length, too short and too long. `ProxyProtocol` has
headers shorter than, equal to and longer than the peek buffer, and the versions 1, 2 and
3. `ObfsPrefix` has every header of three bytes, cut anywhere by `write_all` or by the end
of the stream, every probe of three bytes, and three bytes behind either: a probe that is
accepted gets past the shortest garbage, of two bytes, and has one forwarded.

**Deadlock.** Every module models something that ends or may wait for its peers for ever
(a future that completes, a finished configuration, a bounded number of datagrams), so
deadlock checking is off; the liveness properties say what must not get stuck.

**Fairness.** `BidiCopy`: the executor runs a woken task and a poll returns (`WF(Step)`),
the peers read what is on the wire (`WF(PeerRead)`); nothing is assumed of sending,
closing or resetting. `UdpRelay`: both kinds of task are run and the timer expires (weak
fairness of `Entry` and of each `SendBack`, in which errors are alternatives that are
never due). `TcpServe`: accept loops and tasks are run, timers expire, and a call that
finds no descriptor fails; an address that answers does so in time, any other need not
even refuse, and neither a handshake nor a relay need ever end. A PROXY exchange ends, which is the subject of `ProxyProtocol`.
`ProxyProtocol`: the task is run and its timer expires, the client may stay silent.
`ObfsPrefix`: both tasks are run; nothing is assumed of the application, of the end of the
stream, or of a buffered writer before it is flushed.

## 4. Proofs

All constants are arbitrary under the named assumptions of the modules (sizes are
naturals, the buffer and the wire hold at least one byte, a header has room for three
digits, sets of endpoints and connections are finite). Every invariant that a passing run
checks is a theorem here, and so is the refinement `ImplementsRelay`; the table `theorems` in `PROJECT.json` pairs them with the runs.

**BidiCopyProofs.** The inductive invariant `IInv` has one part for each idea.
`ByteOrder` needs to know that reads happen into an empty buffer only, which is
`CallInv`: what holds before each call of a poll (`pc = "read"` implies
`pos = cap`, and so on). `FinAfterDrain` follows from `PhaseInv` (what each
`TransferState` has behind it: the source ended, the buffer empty, all of it on the wire)
and `ByteOrder`. `WireInv` orders the counters of a direction and states that whatever
is not on the wire is waiting for a flush (`need_flush`). `NoLostWakeup` is not
inductive: a poll handles the directions one after the other, and the peers move in
between. `WakerInv` says, for each direction that this poll is done with, that it cannot
go on and has left a waker wherever it later might, or that the task is woken already;
and, between a pending read and its flush, that the reader's waker is still in place.
`ResultInv` ties the results of a poll to the states of the transfers, for
`OkMeansComplete`, with brutal-shutdown and without (`brutal` is fixed at the start).
Theorems: `TypeCorrect`, `BytesInOrder`, `FinLast`, `SleepsOnlyIdle`,
`ResultsTruthful`. There is one lemma for each action. `RelayRefined` is the refinement:
the initial state of the future maps to one of `StreamRelay`, and each action to a step of
it or to a stutter. A write, a flush and a shutdown are the steps that show; the invariant is
needed for what their abstract guards ask, that a byte delivered is the next one and that a
stream is closed only behind its last byte.

**UdpRelayProofs.** `LiveIsMapped` is inductive only with `MissInv`: between the miss and
the insert the client has no entry, because only the entry task inserts. This is what
makes the separately locked find and insert harmless for the number of associations, on
either runtime. `BatchInv` says that nothing is left of a batch when the next is received,
for the count of datagrams. `FreshInv` is the extra strength a single thread gives: the
new socket's `send_back` has not run before the insert. Theorems: `TypeCorrect`,
`OneAssociation`, `DatagramsCounted`, and `RepliesRead` under `~MultiThread`, which
`udp_stale` shows to be necessary.

**GroupByProofs.** `OneGroupPerClient` speaks of closed groups; `BuildInv` says why a group
is complete when it is closed: it is of one client, the inner loop has left only other
clients' packets between the group and `probe`, and nothing below the group is of a client
still to come. `GroupsBelow` keeps the swaps away from closed groups. `LeadInv` says that
while the first group is built, what no loop has looked at is still in its place, so that
the packet brought forward is younger than the group. Theorems: `IndicesInBounds`,
`GroupsCover`, `ClientsGrouped`, `PacketsKept`, `LeadInOrder`.

**ProxyProtocolProofs.** `RemoveInv` follows the header: what is to be removed was peeked,
so it has arrived, and it is exactly `hlen` bytes. `AddrInv` says where each address comes
from at each place, and that both are set together. Theorems: `TypeCorrect`,
`RelayStartsAtPayload`, `AddressesSet`, `ClientNamed`.

**TcpServeProofs.** `TypeOK` bounds the descriptors of all listeners and tasks by the limit, and
says that `connect` has an address at hand whenever it opens or dials one. The descriptors
are counted as one set of tokens (`HeldAt`, `Using`), so that taking and returning them is a
fact about cardinalities of finite sets; it needs that only an endpoint with a transport is
ever at a handshake, so that the relay behind it takes no pipes. Theorem:
`DescriptorsBounded`.

**BalancerProofs.** `ExactCredit` needs induction over the list of weights and over the calls:
the current weights sum to 0 between calls (a call adds the weights and takes their total
from one peer), each is the peer's weight times the calls minus the total times its turns,
and each is bounded. Below: the chosen peer is the largest of numbers that sum to the
total, so it is positive and no peer falls a whole total behind. Above: a peer alone cannot
be bounded by induction, so the invariant bounds every selection of peers together
(`Bounded`, with `IsMost` the bound for each size): a selection gains only while a peer
outside it is chosen, which then has no less than any peer of the selection, so the larger
selection's bound limits the smaller's. The bound for one peer is `Lead`. From these follow
that no addition wraps when the weights fit, and that after every `Total` calls, where each
current weight is a multiple of the total above minus the total and they sum to 0, all are 0.
`TokensNameRemotes` is that the weights are not more than the remotes and that a ring has
a point for every weight. Theorems: `TypeCorrect`, `TokensInRange`, `SharesExact`.

**ConfProofs.** The invariant says for each place of `main` what every option is in terms of
the files read so far: its own, then also the global ones, then in all what was asked
(`SharedNow`, `NetNow`). It is kept because `FirstSet` of a sequence with one more element is
`take!` behind it (`FirstSnoc`) and with one before it is `rst!` (`FirstCons`). It speaks of
files and the command line (`EndpointInv`), and of the probe count only when neither
keepalive flag is given (`Undisturbed`): the environment skips the merging, and the flag of
the probe count is not read. `DnsInv` follows
the resolver's configuration through the cell. For a legacy file `FlattenIs` shows that the
ports in a row are the ranges one after the other, by induction over the ranges, and
`FlattenCounts` that the k-th of them is the k-th by counting; `LegacyInv` keeps the addresses
while options are merged. Theorems: `PrecedenceHolds`, `DnsAsAskedHolds`, `LegacyPairsHold`.

**ObfsPrefixProofs.** The whole stream is fixed by two headers: that of the first try and, when
splice fails, that of the second (`StreamAt`). The invariant `Follows` says that what the
client has written and the server has not read (`Rest`) is the stretch of this stream
between what the server has read (`Got`) and what the client has written (`Made`), unless the
client was cut off. A header that is made last replaces the one in the witness, which is
sound because the server cannot have read anything of it. That the server finds the length
the client meant is `MadeDigits`: the digits collected from a header are those placed in it,
by ranks of their places; `FoundMade` is the converse, for `AcceptsPrefixesOnly`: a header
that passes the rules is one that could have been made. Theorems: `PrefixRemoved`,
`PrefixesOnly`.

**Induction.** The provers cannot instantiate the library's induction theorems, which have an
operator as parameter. The proofs use the least element of a set of naturals instead
(`LeastNat`), from which follow that a set closed under successor holds `0..n` (`UpTo`) and
that a function defined by recursion on `0..n` exists (`RecExists`). Each of the three proof
modules that need them has its own copy, and the recursive functions of the models are
unfolded with them (`Sum`, `Parsed`, `Digits`, `Number`, `Before`, and `FlattenSeq` of the library).

**Only model-checked.** Liveness under fairness: `EverySentByteLeaves`, `EofEndsRelay`,
`BatchEnds`, `AssociationExpires`, `ReachesRemote`, `AcceptedSettles`, `BacklogServed`,
`ExchangeEnds` and `PayloadArrives`. The prover handles neither `ENABLED` nor weak fairness.

## 5. Findings

1. With `obfs` set, a plain TCP relay on Linux is not masked: `run_relay` tries the pipe
   first, and only the memory buffer masks (`bidi_masked`).
2. On the multi-thread runtime a `send_back` that fails or ends before its socket is
   inserted leaves a dead socket in the map for good; `MappedIsLive` fails (`udp_stale`).
   Inserting before spawning would repair it.
3. An accept error other than `ConnectionAborted` (too many open files, for one), or a
   refused keepalive option, ends `run_tcp` while its tasks hold raw pointers into it. The
   relays of one endpoint can use up the descriptors that make accept fail at another
   (`tcp_refs`).
4. `--tcp-keepalive-probe` is ignored, and `--tcp-keepalive` sets both options: the field is
   filled from the wrong flag (`src/conf/net.rs:217`, `conf_probe`).

Observations without a run of their own, where the repository says nothing else or the
model contains the behaviour as it is:

- A configuration from the environment goes straight to `start_from_conf`
  (`src/bin.rs:27`): neither its own global network options nor the command line reach its
  endpoints (`LoadEnv` in `Conf`; `Precedence` leaves it out). The comments at
  `src/conf/mod.rs:37` and `:41`, "cmd argument overrides global and local option" and
  "local field takes global option", describe `rst_field` and `take_field`, which are not
  called on this path.
- Addresses behind one whose socket cannot be made, bound or given its options are not
  tried (`tcp/socket.rs:74-90`, `SocketErr` in `TcpServe`).
- The comment at `bidi_copy.rs:263` wants the prefix to leave merged with the first chunk.
  Over a raw socket with `TCP_NODELAY` it leaves alone; over a buffered writer it does wait,
  and then nothing is heard of a client that lets the far side speak first (`WritePrefix`
  in `ObfsPrefix`).
- The floor of a chunk in `mem_copy.rs:61` is never needed: the chunk is a percentage, 7 at
  least, of a buffer of more than 128 bytes.
- An error for one client of a udp batch drops the rest of the batch, other clients'
  datagrams included (`Return` in `UdpRelay`).
- As soon as one resolver option is set, the others are the library's defaults and no longer
  the system's (`BuildOpts` in `Conf`).
- A legacy port range that ends in 65535 wraps to an empty range (`Past` in `LegacyConf`).
- A weight that does not parse moves the weights behind it to other remotes; fewer weights
  than remotes leave remotes unused; more weights than remotes abort the process when such
  a token comes up (`Parsed` and `Use` in `Balancer`).
- With `iphash` a peer of weight 0 has a point on the ring, and peers of equal weight
  share all their points, so which of them serves a hash is up to the sort (`Points` and
  `Answers` in `IpHash`).
- A `send_proxy_version` other than 1 and 2 aborts the process at the first connection
  (`MakeHeaderPanics` in `ProxyProtocol`).
- The handshakes of a transport have no timeout (`Handshake` in `TcpServe`).
- Two obfuscating ends of which one relays over memory buffers and the other over pipes
  (another system, or a fallback on one side) mask on one side only, or disagree on the
  number of prefixes.
- A datagram of more than 1500 bytes is cut without an error (`udp/batched.rs:5`).

## 6. Plan

Done: the modules above; every invariant of the passing runs and the refinement are proved. Next, in this order:

1. Bytes left in the pipe when a splice fails late, in `BidiCopy`.
2. A mode for each end in `ObfsPrefix`, to state which combinations of paths understand each
   other.

## 7. Not modelled

The TLS and WebSocket handshakes, the DNS protocol and the encoding of PROXY headers are
libraries: a handshake is a step that may fail or never end, a lookup yields some addresses
or an error. The flags of the command line are a declaration for a library; which
of its inputs selects a configuration is in `Conf`. `daemonize`, the limit on open files and
the size of pipes are system calls made before the program starts. The pre-connect hook is
an optional feature around a foreign library, and its module does not compile at this commit
(`Err` is given two arguments, `tcp/hook.rs:31`). The wrappers of system calls hold no
state. `PeekStream` and `StatStream` are exported by `hoorayhug_io` but used nowhere in the
program. Contents of packets, sizes of datagrams and addresses beyond their identity
or family are data that no property tells apart.
