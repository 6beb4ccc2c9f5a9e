# Verification of net-thunder

TLA+ specifications of the virtual network in this repository: a controller
that hands out virtual ips and keeps every node's directory, nodes that find
each other through it, peer-to-peer transports with a relay as the fallback,
and the administration that configures all of it. The modules are checked with
TLC on small instances; what matters most is proved with TLAPS for every value
of the constants. `PROJECT.json` lists components, runs, mutants (broken
variants of a definition that a property must catch), the lines each definition
models, the hazards and the theorems.

## The system

| Component | Code (under `src/`) | State | Operations | Talks to |
|---|---|---|---|---|
| Controller directory | `sdwan-core/.../tranport/ControllerServer`, `ChannelSpace`, the two `SdWanDataService`s | channel maps, bound vips, per-channel attributes, close listeners | regist, update node info, heartbeat, sweep, kick, close | nodes over TCP, one event loop thread per channel |
| Relay | `RelayServer`, `RelayClient`, `IceClient.checkRelay` | token table, address table | bind, relayed ping, transfer, sweep | nodes over UDP |
| Stun server | `StunServer` | none | echo of the sender's address | nodes over UDP |
| Node's controller client | `SdWanClient`, `NodeManager`, `VirtualRouter.start` | the node's directory | get config, regist, heart, pushes | controller; router |
| Pending requests | `support/AsyncTask` | id -> future, timer per future | wait, complete, time out | every request of a node |
| Signalling and election | `ElectionProtocol`, `ICEElectionProtocol`, `IceClient`, `P2pTransportManager`, `P2pClient` | transport per vip, keys, pending offers | offer, answer, ping, pong, check, offline | peers, through controller and relay |
| Node life cycle | `BaseSdWanNode`, `TunSdWanNode` | status, current router, loop thread | start, stop, reinstall | router, tun device |
| Packet routing | `VirtualRouter.send/recv`, `rule/*`, `support/Cidr` | routes, rules, virtual nat, its cache | route in, route out | tun device, transports |
| Packet formats | `sdwan-tun/.../tun/*Packet`, `CheckSum` | a buffer per packet | decode, rewrite, rebuild | routing |
| Node administration | `sdwan-controller/.../NodeServiceImpl`, `LockGroup` | node rows, their vips, tenant locks | assign, edit, delete | controller directory, database |
| Configuration references | `GroupServiceImpl`, `RouteServiceImpl`, `RouteRuleServiceImpl`, `VNATServiceImpl`, `TenantServiceImpl` | rows and the rows that link them | add, edit, delete | node administration |
| Accounts, versions, storage | `AccountServiceImpl`, `AppVersionServiceImpl`, `StorageServiceImpl` | single rows, files | CRUD | - |
| Stun message codec | `sdwan-common/.../stun/*` | none | encode, decode | relay, p2p |
| Launcher, user interface | `sdwan-node-bootstrap` | processes, windows services | start, stop | node life cycle |

What is hard here, and what a correct system would guarantee:

* **Controller.** Each connection has its own event loop, and all loops share a
  handful of concurrent maps. A registration touches six of them one after the
  other while another loop registers, updates or closes; pushes to a channel of
  another loop are queued. Vips must stay exclusive, the forwarding table must
  name live connections, and clients must end up with the right directory.
* **Relay.** Two tables written by the datagram loop and swept by another
  thread; datagrams get lost, late and duplicated.
* **Node.** Answers race timeouts; the registration reply races pushes; both
  ends of a pair may elect a transport at once; stop races reinstall.
* **Administration.** Requests and registrations of nodes write the same rows,
  only some of them under the tenant's lock; deletions must not leave rows that
  refer to nothing.

## Modules

| Module | Models | Status |
|---|---|---|
| `ControllerServer` | controller directory with either data service | modelled, checked, proved |
| `VipLease` | abstract: what controller and local data service promise about a vip | refined by `ControllerServer` |
| `RelayServer` | the relay and its clients' tokens | modelled, checked, proved |
| `Election` | signalling, election of transports and their checks, between nodes | modelled, checked, proved |
| `NodeService` | the nodes of a tenant and their vips in the database | modelled, checked, proved |
| `AsyncTask` | the table of requests that wait for an answer | checked and proved with `SdWanNode` |
| `Future` | abstract: what a caller of `waitTask` is promised | refined by `AsyncTask` |
| `SdWanNode` (extends `AsyncTask`) | the life of a node and its connection to the controller | modelled, checked, proved |
| `VirtualRouter` | the way of a packet through the nodes | modelled, checked, proved |
| `MC*` | instances for TLC | |
| `*Proofs` | theorems | |

### ControllerServer

One connection is one element of `Channel`; a client that reconnects is another
channel with the same `MacOf`. `at[c]` is what the event loop of `c` is doing:
a handler is a chain of stages (`space`, `insert`, `attrs`, `list`, `sort`,
`online`), one per access to shared state, so that handlers of different
channels interleave at exactly the places where threads can. A walk over
`registChannelMap` visits one bin per step (`cursor`): `ConcurrentHashMap`
iterators are weakly consistent, they show an insertion or removal that is
ahead of them and miss one that is behind. Pushes to another loop's channel are
queued in `tasks` and run one at a time; a push to the own channel is written at
once. `view` is the directory a client has that applied what it was sent in
order. Close listeners run in the order they were added, each as its own step.

The data service is a parameter: `Exclusive` selects the local one
(`bindIPMap`, compare-and-set, a listener that frees the vip), otherwise the
database one (a vip per node, given to each of its connections).

`CONSTANTS` `Mute` and `MaxRequests` bound silence and requests. A channel has a
finite life that ends closed, so deadlock is not checked in its runs.

| Run | Question | Instance |
|---|---|---|
| `directory_local` | types, exclusive vips, a closed connection has given all back, clients converge, lease implemented | local service; 3 connections, 2 of one node with a fixed vip, 2 vips; one of that node's makes 2 requests (registers again or updates its addresses), the others 1 |
| `directory_tenants` | no closed connection kept, clients converge, forwarding stays within a tenant | database service, where a reconnecting node gets its vip again; 3 connections, 2 of one node, the third in another tenant with the same vips |
| `directory_live` | silence ends in a close, a close frees the vip | 2 connections, 2 requests each, both may fall silent |
| `directory_routes` | is every registered node told so | tenant with a route; **violated**, see Findings |

Three connections are what the races need: one whose list is being built, one
that registers or closes meanwhile, and an older connection of the same node.
Two vips suffice for one shared and one free.

Known limits of the code, which the properties leave out and name:

* When a node reconnects while its old connection is still closing, the close of
  the old one removes the new entry from `ChannelSpace` (`ChannelSpace.java:30`)
  and its `NodeOffline` follows the new `NodeOnline`. `overlap` records such
  vips; `Routable` and `Converged` are about the others.
* Lists and pushes contain the nodes of all tenants
  (`ControllerServer.java:239`, `:341`). `Converged` is about vips one tenant uses.
* The rule list of a local tenant is sorted in place by concurrent loops
  (`:321`); an exception after the insertion leaves a node registered but not
  announced (`failed`).

Fairness (`FairSpec`): an event loop keeps running what is queued on it, a
requested close is such a task, and the sweep is scheduled at a fixed rate and
catches its exceptions. Clients are under no fairness.

### RelayServer

`clientToken` and `transfer` are the two maps. The datagram loop takes one
request at a time: `Bind`/`BindLate` look up or create the `Heart`
(`computeIfAbsent`), `Refresh` sets its time, `BindReply` answers. The sweep is
scheduled on another loop of the group, so its steps (`SweepCheck`,
`SweepClient`, `SweepTransfer`) interleave with those. `old` are hearts past
`heartTimeout`, `suspects` those that were when the sweep read the clock; a
refresh takes a heart out of both because `run` reads the time of an entry when it
reaches it. A client asks once per round (`IceClient.checkServerList`) and
either receives the answer or loses request or answer; what arrives after the
round is a `BindLate`. `directory` is the token its peers have been told.
A token is random (8 characters); the model takes it to be one nobody remembers.

| Run | Question | Instance |
|---|---|---|
| `relay_safety` | do the tables agree, does a packet only go home | 2 clients, 4 tokens (each client may hold, have published and get a new one), symmetric in the tokens |
| `relay_live` | does a client settle on a live token, are silent clients forgotten | 1 client, 5 tokens, so that a fresh one is never lacking |

Fairness: the loop and the sweep run, a client keeps asking, an answer that is not
lost is received, and a request that is not lost is read in the end (strong: the
loop reads in order of arrival, whatever else keeps arriving). `Reachable` is
stated for behaviours in which losses end; without that no token is safe. `HeartOld`
states the one timing assumption: `heartTimeout` is longer than a client's round,
so a heart only ages after a round that did not refresh it.

### Election

A node is named by its vip. `gen[n]` is its incarnation: each start of
`IceClient` makes a key pair and opens sockets, so an incarnation stands for its
keys and for the addresses that lead to it. `dir[n][p]` is the incarnation whose
addresses the node's directory holds, `table` is `transportMap` (`None`: no
entry, `Electing`: an entry without a transport, for which `sendNode` drops
packets), `offers` and `answers` are the futures of `createOffer` and
`createAnswer`, `checks` the addresses `P2pTransportManager.run` is waiting for.
`chan[n][p]` is what the controller forwards or pushes from `n` to `p`. `Restart`
appends the `NodeOffline`/`NodeOnline` pair that the other nodes get. Of what others sent to
the node that restarts, any end of the queue may be left (`Rests`): the controller looks the
channel up by the vip when it handles an offer or an answer (`ControllerServer.java:182-214`), so
that one it has not handled yet goes to the new connection, while pushes, and all that was
forwarded before, went to the old one. What the node itself has sent still arrives; that its last
messages may be lost is no case of its own, the peer's timers may run out anyway. Pings are not
messages of their own: a pong may come whenever one waits for it and the pinged
address leads to the peer (`Reaches`), or never. With a configured `p2pPort`
(`FixedPort`) all incarnations share their addresses. An offer that reaches a
node whose `IceClient` is not running yet is dropped (`VirtualRouter.java:251`),
which is an `AnswerTimeout` here, or an offer that `Restart` does not leave. `reqId`s are random in the code; `Underway`
keeps an id from being used again while a message of its earlier use is left.

| Run | Question | Instance |
|---|---|---|
| `election_live` | does an entry ever wait for an election that is over; does a transport that is answered have the right key; is a stale transport found out; does traffic flow once losses end | 2 nodes that both send, 1 request id, 2 incarnations, random ports |

Every hazard here is between two nodes, so two nodes are the smallest instance
with all of them, and two incarnations are what a stale key or address needs. With a
second id the answer of an election that is over could meet the next one; the three
safety properties are proved for any number of ids, nodes and incarnations.
The paths differ in nothing the model looks at, so the runs have one. Configured ports
make `Reaches` true of every address; they are covered by the proofs, which hold for
both settings.

Key and address of a transport can be of two incarnations: an offer gets its pong from one and,
forwarded after the restart, its answer from the next. `PongVouchesForKey` says that such a
transport is always one whose pings are not answered, and `StaleEnds` that it is then dropped.

A known limit, which `Connects` leaves out because there both nodes of a pair send: a
check ping that is lost makes the receiving node remove its transport
(`P2pTransportManager.java:92`). From then on it drops all it is sent
(`IceClient.java:131`) but still answers pings (`:123`), so the sender keeps its
transport and does not elect again; only a packet in the other direction repairs
the pair.

Fairness: a node reads its connection, keeps having packets to send, checks its
transports, and its timers fire when the awaited pong or answer cannot come any
more. A pong or answer that can come and is not lost comes. `LossesEnd` is the
assumption of `Connects`: from some time on no ping, pong or answer is lost and
nobody restarts. `StaleEnds` needs no such assumption but random ports: with
configured ones the pings of a stale transport are answered by the new
incarnation, see Hazards in `PROJECT.json`.

### NodeService

A request is one worker's `job`: an event loop (registrations) or a thread of
the administration. Its stages are the statements of the transaction, so that
statements of different transactions interleave. `db` holds the rows as their
transactions see them, `committed` as they were committed, `owner` the
transaction that wrote a row and has not ended: read committed with row locks,
Derby's default. `Needs(w)` are the rows the next statement has to look at (a
scan, the tables have no index but the key); it waits for rows of others
(`Granted`) or gives up (`LockTimeout`, a timeout or a deadlock's victim). What was
read is kept in `job.row`, `job.idx` and `job.pool` and may be old when it is
used. The new node of a registration is inserted in a transaction of its own on
a second connection (`Insert`, `Connections`). `NoRow` is a row that is not there
yet, `Gone` one that was deleted. A vip is its index in the tenant's cidr
(`Count` addresses); the two beyond it that `idx > count` lets through are
modelled. What happens to the group tables is one step that may fail. One tenant
is modelled: its rows never meet those of another.

| Run | Question | Instance |
|---|---|---|
| `node_rows` | exclusive vips, vips marked used, stable vips; does every request end | 2 event loops, 1 administrator that adds, edits and deletes, 5 requests of one mac, more connections than workers |
| `node_pool` | do failing assignments give back what they took; is a vip ever free in the pool although a node has it | 2 event loops, 1 administrator that adds and edits nodes and edits the tenant, 3 macs, 5 requests, cidr of 2 addresses, nodes to be enabled |
| `node_mac` | is a mac unique | **violated**, see Findings |

There are at least as many rows as nodes these requests can make, so that a fresh one is
never lacking, and `MaxIndex` is beyond every index they can reach. Five requests are what two
assignments need that find one freed row (`TakeMissed`): a node is made and deleted, and two more are
assigned at once. With one mac a second node appears when a registration and an addition look
for the mac at the same time; `node_pool` has three macs. The theorems are about any number.

Fairness: a thread that runs a transaction goes on with it. A registration that
waits for the tenant's lock is not served in turn, which needs no fairness of
its own because the requests of an instance are finitely many.

Known limits of the code, which the properties leave out:

* Two deletions of one node at once free its vip twice, the second time after
  somebody else may have got it: `PoolCovers` and `VipExclusive` are about one
  administrator that deletes.
* The tenant's edit writes back the address index it read. An assignment in
  between is undone: the next node gets the same address, and a registration that
  had read the higher index searches for ever, holding the lock. `VipExclusive`
  and `RequestEnds` are therefore checked without it (`node_rows`).
* As many registrations waiting for the lock as there are connections keep the
  one that has it from inserting a node: nobody goes on.
* A registration writes back the row it read, and undoes an edit in between.

### AsyncTask, SdWanNode

`AsyncTask` has the steps of one request: the entry of `futureMap` (`WaitPut`), the timer
(`WaitArm`), the answer and the timer that race to remove the entry (`Answer`, `Expire`),
and the completion of the future by the one that did (`Complete`). `SdWanNode` extends it
with a node. `at[p]` is what a thread is doing: the caller of `start` and `stop`, and the
loop thread that reinstalls (`run`). Both go through `install` in the same stages, from
`install` (a new `VirtualRouter` is put into the field) over `connect`, `config`, `regist` and
their waits to `apply` and `ice`; `stop` is `stop`, `interrupt`, `uninstall`, `unset`. Each
router has an event loop that reads one message of `wire` at a time and, of a message that
answers a request, completes it in further steps (`Busy`, `Replied`). The controller is the
environment: it answers what reaches it with a list or a refusal, and pushes what becomes
of one peer. `table` is the node's `nodeInfoMap` at that peer's vip. The connection may break
at any step, and the old connection of a router that was replaced stays what it is.

A heartbeat that is not answered is one of the causes of `Lose`. `status` and `loopStatus`
are the two flags, `monitor` is the lock of the two synchronized methods, `flag` are the
interrupted threads. `abandoned` (routers of starts that failed) and `overtaken` (routers
that read a push before they entered the list of the reply) are ghosts.

| Run | Question | Instance |
|---|---|---|
| `node_life` | does a stopped node leave the directory, is a router left behind, do requests end once and leave no entry (`Future`), is the node's table right, do `start` and `stop` return, does a started node come back | 2 routers, 1 loop thread, 2 requests, 2 calls of start or changes of the peer |

A reinstallation has at most two routers with a role, the old one and the new, and each
has one request at a time; a second start is needed to meet what the first left, a change of
the peer to race the reply. Two loop threads are possible only if `Patient` is false. Deadlock is
checked: the environment may always call `start` or lose what is open.

Fairness: threads run on unless they wait, an event loop reads what was sent, a timer fires, and
the claim on an entry is followed by its completion. Nobody has to call `start`, `stop` or answer.
`Recovers` is about behaviours in which `Trouble` ends.

Two constants leave out what the code does not exclude:

* `Prompt`: a thread that `stop` interrupts leaves its wait before the answers to both of its
  requests are read. `get()` is interrupted by the next read of the flag, so this takes a
  thread that does not run for as long as two round trips. Without it `StopDisconnects` fails: the
  router that was being installed stays registered.
* `Patient`: `start` is called when the last loop thread has ended. `stop` does not wait for it.
  If it is between its waits it may find `loopStatus` true again and go on beside the new one.

Known limits of the code, which the properties leave out:

* A first start that fails after it connected leaves the connection open, and registered if the
  reply was only late. `status` is false then, so that `stop` does nothing (`abandoned`).
* A connection that is opened while `stop` runs is never registered, but nobody closes it.
* A push that is read after the reply and before its list is entered is overwritten by the list
  (`VirtualRouter.java:327`); the node's table is wrong until the next push about that peer
  (`overtaken`).
* `stop` called by a listener of an event runs on the loop thread itself, which interrupts itself.

### VirtualRouter

A packet is a conversation (`flow`: the node that asks, the source, an identifier, the address
that was asked), whether it is the request or the answer, and its present addresses. `tun`
are packets a TUN device gives to its node, `wire` those between two nodes, `mapping` is
`vnatMappingCache`, of all nodes. `Send` is `VirtualRouter.send`: translate the destination and
remember it under the key the answer will have (`Remember`), ask the rules, find the next hop.
`Recv*` is `recv` and what the host or its operating system does with the packet: answer the
address it came from (`RecvRequest`), give it to the application (`RecvAnswer`), or forward it
(`RecvForeign`), which hands it to the TUN device again if `OSRoutes` says so. `Expire` and
`Reinstall` forget translations. Sets of addresses stand for the cidrs and ranges of the lists,
`Hash` for the hash code of an address, `TTL` for the time to live.

The lists of a node are constants: a node has those of its registration until it registers
again. What the lists must satisfy and no code checks is stated as assumptions: no host has an
address a virtual nat translates (`HostAssumption`), routes that share an address share
their next hops (`RouteAssumption`). The conversations are any.

| Run | Question | Instance |
|---|---|---|
| `packet_routes` | does an answer come from the address that was asked; does a packet cross once; does an alias lead round the rules; is a repeated request answered | 3 nodes, two of them gateways of one network; 3 hosts, 4 aliases, in both directions; two conversations at a time, in six pairs; a time to live of 2 |

Pairs of conversations are what the cache can confuse: an alias and the address itself, with two
identifiers or with one, and two hosts that ask each other's alias with one identifier. The second gateway is what a loop and an
answer by another way need, a time to live of 2 makes one needless crossing visible.

Fairness: an application repeats a request that is not answered, a node reads its TUN device, and
a datagram that is sent again and again arrives (strong). `RoundTrip` is about behaviours in
which from some time on no translation is forgotten before it is used (`TranslationsLast`), and
about conversations for which the lists lead there and back (`Served`); the one in the run crosses two
translations and two gateways.

Known limits of the code, which the properties leave out:

* A host that is asked by its address and by an alias, or by two aliases, from one source with the
  same ports or identifier: the answers have one key, and the last translation is undone in all of
  them. `AnswerMatches` says that the source is one of those asked (`Twins`), which is the
  address asked wherever nothing is asked twice.
* The answer of a host behind two gateways goes back by the gateway the hash of *its* address
  selects. If that is not the one that asked, it is not translated (`r.at = r.flow.node`).
* An answer that comes after the translation was forgotten passes untranslated (`lapsed`).
* A virtual nat whose two cidrs have masks that differ drops what it should translate
  (`Cidr.java:188`, `SendFail`). A route or virtual nat of a /0 throws for every packet that is
  compared with it (`Cidr.contains`, `Cidr.java:34-36`); the lists of the model have none.
* `OneHop` is about lists that meet `RouteAssumption`. That leaves the routes the operating system is
  given (`filterRouteList`); lists that differ between nodes, or where the first match is not the
  longest prefix, can send a packet back or round.
* If a route has several next hops and the selected one is not online, the packet is dropped: no
  other is tried.
* The vips of a virtual nat are only used for the operating system's routes; `findRoute` looks up
  the translated address, so that a virtual nat needs a route for its target too.
* A destination of the vip cidr that is a node's own vip never reaches its router; nothing but
  `filterRouteList` keeps a gateway from sending a packet to itself.

## Findings

`directory_routes`: a tenant of the local configuration with a route, a rule or a
virtual nat cannot register nodes. `LocalConfigSdWanDataService` never sets the
name that `ControllerServer.java:292` hands to the protobuf builder, which throws
on null, so the node is bound and listed and then told `SysError`.
`VirtualRouterTest.java:163` configures such a tenant and starts routers on it.

`node_mac`: adding a node (or editing its mac) checks that the mac is new
(`NodeServiceImpl.java:136-138`) in one statement and writes it in another, without
the lock under which `assignNodeInfo` looks a mac up and inserts it; the table has
no unique constraint. A node that registers meanwhile has two rows, and from then
on `one()` (`:258-260`) throws whenever it registers.

## What is proved

All theorems hold for every value of the constants that meets the `ASSUME`s of
their module.

* `ControllerServerProofs!TypeCorrect`: the types, directly inductive once the
  typing of each queue operation is established.
* `ControllerServerProofs!RouteFound` and `NoRouteLeft`, for both data services. `Removable` says
  that the entry of a channel in `ChannelSpace` is accompanied by the listener that removes it; a
  closed channel has no listener left, so no entry. `Found` is `Routable` from `addChannel` on. A
  close that removes the entry of another channel is one of a vip in `overlap`, which is
  what `Recorded` says of any two channels that hold a vip of a tenant.
* `ControllerServerProofs!DirectoriesConverge`, for both data services. `Converged` speaks of quiet
  states only; the invariant (`NInv`) follows what each client was last told of each vip, which is
  the last push queued for it or, when none is, its directory (`Heard`). `Knows` says that it is
  right unless somebody has still to speak: the handler of the holder (`WillSay`), its close listeners
  (`WillRetract`), or the client's own reply, whose list has still to come to the holder's bin
  (`WillRead`). No node is left out because the entry in `registChannelMap` is made before the list
  is read and before the pushes start, so of two nodes that register at once one sees the
  other; none is left behind because a node that is announced has the listener that tells its end
  (`Announced`) behind the one that takes it out of the map (`RegistAhead`). That one
  vip has one holder at a time is what `overlap` is for (`OneHolder`). TLC checked the
  invariant on the instances of `directory_local` and `directory_tenants` before it was proved.
* `ControllerServerProofs!ClosedLeavesNothing`: everything a connection has is accompanied by the
  listener that gives it back (`Accounted`, `Removable`, `Progress`), and a closed one has none left. It
  is the safety side of `CloseReleasesVip`: closing may be slow, but loses nothing.
* `VipLeaseProofs!LocalVipExclusive` and `LeaseImplemented`. Exclusive vips are
  not inductive: that two registered connections differ follows from where
  each is in its handler and from what its close listeners still have to do.
  `Binding(c)` says it: a connection that is registered owns its vip in
  `bindIPMap`, and the listener that frees the vip is behind the one that takes it
  out of `registChannelMap`, so ownership outlives registration. From
  it every step is a step of `VipLease` or a stutter (local data service; the
  database service makes no such promise).
* `RelayServerProofs!TypeCorrect`, `RelayTablesAgree`, `RelayRoutedHome`. The
  tables agree because the entry the sweep is removing is tied to both
  (`Sweeping`): removal takes it out of one table, then the other, and
  in between nobody can remake it. Packets go home because every copy of a token
  leads to its client or nowhere (`Owned`).
* `ElectionProofs!TypeCorrect`, `ElectionNeverStuck`. An entry that is electing is
  cleared by the offer that made it, and by nothing else: an answer clears the
  entry of the node that *sent* it, which is the right one only if answers come
  from the node the offer was made to. `AnswersFit` says so for every stage of
  an exchange: an offer underway, an answer waiting for its pong, an answer
  underway.
* `NodeServiceProofs!TypeCorrect`, for every kind of request, any number of workers and any rows. A
  worker uses what it read in earlier statements, so that types rest on what it has in its hand at each
  stage (`HandsOK`) and on rows that do not cease to exist, not even by a rollback: pool rows are owned
  by transactions that are past the search (`RowsStay`).
* `NodeServiceProofs!VipIsExclusive`, `PoolIsCovering` and
  `VipIsStable`, for any number of event loops, administrators and rows, if at most
  one administrator deletes and nobody edits the tenant (`Restricted`; the limits above
  say what happens otherwise). Registrations, additions and deletions exclude each
  other by nothing but the pool row of the vip. While a transaction owns that row
  the node rows may disagree with it: `AssignOK` says nobody else has the vip,
  `FreeOK` that the node losing it goes in the same commit, and `CoverOK`
  that whoever has a vip has its pool row, used or owned on its behalf. Commit and
  rollback (`EndKeeps`) are the steps where all three are needed, because each
  takes the rows of a transaction from one consistent state to another.
  `CopyOK` is why the copies that registrations write back do no harm: a copy
  holds the vip of the row, or the row has none.
* `NodeServiceProofs!NoVipIsLost`, without deletions (`NoDeletion`; a registration may write its
  vip to a row that was deleted). It adds `HeldOK`, the property for committed rows, and `GivenOK`: a
  transaction that will commit and owns a pool row has written the node its vip is for.

* `ElectionProofs!PongVouches`: a transport whose address is answered has the key of the incarnation
  that answers, if ports are not configured. The key may be newer than the address, never older
  (`KeyNotOlder`): `AnswerGens` says that the answers to an offer are of the incarnation it was made
  to or of later ones, `Known` that nothing names an incarnation of the future. So an address
  that is the present one's leaves only the present key.
* `SdWanNodeProofs!TypeCorrect`, `RequestsOwned`, `FuturesKept` (the safety part of `Future`),
  and, under `Restricted` (`Patient` and `Prompt`), `StoppedIsGone` and `NoOrphanEver`. That a stopped
  node is out of the directory is far from inductive, because `stop` may come at any step of a
  reinstallation. `Tied(r)` is a router that is registered or whose registration is under way;
  `TiedOK` says it is the node's, or of a start that failed. `EndingOK` says, for each
  stage a loop thread can be in when the node is stopped, why it will not get as far as to
  register: it was interrupted and has no answer, or its router is stopped or the one `stop` is about
  to stop. `StoppedOK` keeps a stopped router from being used again, `LoopsOK`, `MonitorOK`,
  `StatusOK` and `MineOK` tie flags, lock and threads together.
* `SdWanNodeProofs!TableFollows`, without restriction. Here too the invariant (`DirectoryInv`) follows the
  last word a router was given: the last push in its queue (`Newest`), else its table, else the
  list of its reply, which is ahead of every push in the queue (`QueueOK`) and not entered yet. The rest
  says where an answer can be: a request is asked by one thread and is at one place, so no
  answer is read for another request (`AskedOK`, `WorkOK`, `PlaceOK`), and a router is worked on by its
  owner only (`OwnOK`).
* `VirtualRouterProofs!TypeCorrect`, `CrossesOnce`, `RulesHold`, `AnswersMatch`, for any network and
  any conversations. The invariant follows a packet: `Ready` and `OnWay` say which addresses it has
  at a TUN device and between nodes, `MapOK` that every entry is one of a conversation, and
  `Kept` that a conversation whose request is past its node has its entry or lost it
  (`lapsed`). `AnswersMatch` then needs that the entry found is the conversation's own or that of a twin
  (`EntryFound`). `HostAssumption` is what makes the source of a conversation untranslated
  (`SourceKept`), `RouteAssumption` what keeps a gateway from sending a packet on (`ForeignStays`); no code
  checks either, and all but the types rest on them.

Only model-checked: the liveness properties and the liveness part of `PendingSpec` (fairness and
`ENABLED` are beyond the prover). Every invariant a run checks is also proved.

## Plan

Done: `ControllerServer` with `VipLease`, `RelayServer`, `Election`, `NodeService`, `SdWanNode` with
`AsyncTask` and `Future`, `VirtualRouter`.

Left, in this order:

1. The directory and the rows in one model: a node that is deleted or edited while it is
   connected.
2. The heartbeat as a request of its own, with the loop it blocks.
3. Two loop threads (`Patient` false) and the device of a node, which is torn down in an order of
   its own.

## Not modelled

* Serialisation and packet formats: messages and packets are records. Fragments, and protocols
  without ports, for which a random key is made (`IpLayerPacket.java:113`).
* Operating system routes (but for which ones are given to it) and devices, the Windows connection
  sharing, masquerading.
* The stun server: a stateless echo.
* Configuration rows of groups, routes, rules and virtual nats: single transactions of administrators.
  `IpRouteTest`, which predicts the way of a packet for the administrator, keeps no state; it asks the
  rules of other addresses than the router does (`IpRouteTest.java:77`, `:103`).
* Accounts, versions, file storage, the launcher and the user interface: single reads and writes, or
  calls of the platform. The administration's web pages are in the repository only as a generated
  bundle (`src/sdwan-controller/src/main/resources/static/assets/index-ed2d0584.js`).
