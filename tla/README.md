# A verification project for Zay

Zay (Rust) runs a proxy (a port of the sing-box engine), an EasyTier mesh and a
few helper services on one machine, and lets a WebUI, a desktop application, an
iOS application or the command line start, stop and reconfigure them. This
directory holds TLA+ models of the parts that keep state of their own and share
it between threads, tasks, processes or peers: what decides *what is running*
(controller, component runner, host process, desktop client, iOS tunnel), and
inside the engine the OpenVPN control channel and its rekeying, the outbound
groups, the DNS client and the fake-IP allocator. TLC checks every model on
small instances; TLAPS proves the safety properties of eight of them for every
instance. `PROJECT.json` maps every definition to the source lines it models.

## Inventory

| Part | Source | State | Operations | Hard behaviours |
|---|---|---|---|---|
| Proxy stack controller | `src/stack/controller.rs` | status under a mutex; atomics `pid`, `running`, `stop_requested`, `ready`; engine and join handles | `start_proxy_cli`, `wait_started`, `stop`; worker and health monitor threads | five actors over seven fields, each locked or stored separately; time-outs; a process that dies |
| Engine host, TUN worker | `src/singbox/native.rs`, `src/native_tun_worker.rs` | engine thread; child process | start, ready line, cancel, SIGTERM, reap | death at any time, readiness seen through a log pipe |
| Log buffer | `src/stack/log_buf.rs` | ring of 4096 lines; DNS answers with TTL | push, recent, correlate | a bounded ring used as a signal |
| Component runner | `src/runtime.rs` 110–580 | `running`, `apply_error`, `pending_proxy`; per component what runs and from which configuration | `start`, `stop`, `restart`, `apply`, `status` | chains of awaits that can each fail; the file changes between them |
| Core host, supervisors | `src/runtime.rs` 49–108, 583–1062, `src/daemon.rs` | control file, child handle, request queue, core mutex | `initialize`, commands, `status`, `shutdown`, `zay stop`; `run_inner` | processes crash, requests time out, two supervisors share a directory |
| Desktop client | `src/desktop.rs`, `client/desktop/src/backend.rs` | a local and an elevated core, the saved configuration, `retry_config` | launch, save, retry, pause, refresh, shutdown | moves between two cores; takes rejected changes back; killed between any two awaits |
| OpenVPN control channel | `crates/singbox/src/protocol/openvpn/reliable.rs`, `control_channel.rs`, `control_io.rs` | numbering, send and receive windows, acknowledgment set | packetize, ingest, retransmit, acknowledge | loss, repetition, reordering, windows and sets that are full |
| OpenVPN rekeying | `soft_reset.rs`, `client_connector.rs`, `data_session.rs`, ... | coordinator, key ring, mux of control channels, retained sessions | begin, negotiate, stage, promote, retire | both peers begin at once, ids wrap, resets arrive again |
| Outbound groups | `protocol/selector.rs`, `protocol/urltest.rs` | choice, history, tokens, check locks | dial, refresh, invalidate, switch, interrupt | dials between two locks, nested groups, a leaf that dies while it is probed |
| DNS client | `dns/client.rs`, `dns/persistent.rs` | cache, flights, `background_refresh`, epoch, queue of uses | exchange, refresh, clear, cancel | coalesced queries whose owner is dropped, clears in the middle of an exchange |
| Fake-IP allocator | `dns/fakeip.rs` | both directions of the mapping, position, tables on disk | allocate, look up, restore, reset | failing writes, a crash between two writes, rotation over a range |
| iOS packet tunnel | `client/ios/.../PacketTunnelProvider.swift`, `singbox_runtime.rs` | engine slot, mesh, platform object | `startTunnel`, `stopTunnel`, bootstrap, commands | a stop that overtakes a start, callbacks into released objects |
| iOS VPN manager | `client/ios/ZayApp/VPNManager.swift` | `stopRequested`, `isBusy`, saved preference | `start`, `stop`, mesh change, notifications | calls interleave at their awaits, saves fail |
| Mesh wrapper, settings, fwd, ssh, http, privileges, helper | `src/stack/easytier.rs`, `src/settings.rs`, ... | – | as the parts above call them | partial failures |
| WebUI, builders, traffic usage, user interfaces, rest of the engine | see `components` in `PROJECT.json` | – | – | not modelled, see the end |

How they interact: a supervisor (WebUI or desktop) holds a `CoreRuntime` in its
own process or has a privileged one, spawned through sudo or by the macOS helper
and reached over a loopback socket that a control file names. The host executes
one command at a time under the core's mutex on its `CoreRuntime`, which holds
`RunningComponents`: a `StackController` for the proxy, EasyTier instances for
the mesh and Tokio tasks for http, fwd and ssh. The controller's worker thread
owns the engine thread or the TUN process, and the health monitor. On iOS the
tunnel extension takes the place of all of these. Inside the engine, dials go
through outbound groups to outbounds such as OpenVPN, names through the DNS
client, and connections to fake addresses back to their domains.

What makes each part correct:

* *controller*: stop() returns, leaves nothing, and no late event changes the
  outcome;
* *runner*: what it says it runs is what runs, failures are retried, unaffected
  components are left alone;
* *host*: commands take effect in order, the host ends with its supervisor and
  ends clean;
* *desktop client*: one core at a time, rejected changes are taken back, accepted
  ones are what runs, nothing unprivileged needs root, every command ends;
* *control channel*: TLS sees the bytes the other side wrote, in order, and in
  the end all of them; *rekeying*: the peers can always read each other;
* *groups*: connections follow the choice and a dead member is left; *DNS
  client*: flights and waiters do not come apart, clears are final; *fake-IP*:
  an address leads to the domain it was last given to;
* *iOS*: a stopped tunnel is stopped and stays so.

## Modules

Each component `C` has a module `C.tla` and an instance `MCC.tla` with `MCC.cfg`.
The proofs are in modules of their own: `StackController_proofs`,
`CoreRuntime_proofs`, `CoreHost_proofs`, `DesktopClient_proofs`,
`DnsClient_proofs`, `OpenVpn_proofs` (control channel and rekeying),
`Engine_proofs` (DNS cache, fake-IP and outbound groups) and `Ios_proofs`
(tunnel and manager). Where one of these extends several components, their
definitions carry the component's name: `LruSpec`, `FakeIpSpec`, `RekeySpec`,
`VpnSpec` beside `Spec`.

| Module | Models | A step is |
|---|---|---|
| `StackController` | one controller's life: owner, worker, monitor, engine, TUN process | one atomic load or store, or one critical section |
| `CoreRuntime` | `start`, `stop`, `restart`, `apply` over the components | what happens between two awaits |
| `CoreHost` | hosts, supervisors, control file, queues | a request, a poll, a step of `run_inner` |
| `DesktopClient` | the backend's command loop over `Client`, its local core and the helper's workers | what happens between two awaits |
| `OpenVpnReliable` | one key state between two peers over a datagram link | one task's turn with the channel's lock |
| `OpenVpnPeers` | the two ends of an OpenVPN session | none: constants |
| `FifoChannel` | abstract: what TLS needs of the control channel | a write or a read |
| `OpenVpnRekey` | coordinator, key ring, mux and supervisors of two peers | one turn of a supervisor or task |
| `OutboundGroups` | nested selectors and URL tests, refreshes, dials | one critical section |
| `DnsClient` | queries, flights, refreshes, clears | one critical section of the state mutex |
| `DnsLru` | the cache map, generations, queue of uses, eviction | one call under that mutex |
| `FakeIp` | allocator and its tables | one call under the allocator's lock; a crash splits its two writes |
| `IosTunnel` | two sessions of the packet tunnel and the embedded engine | what a thread does between two waits |
| `IosVpn` | the manager's calls, the preference, the system | what happens between two awaits |

`DesktopClient` is written against what `CoreRuntime` promises: `StartResults`
and `ApplyResults` are the outcomes of its `start` and `apply`, reduced to
configuration, proxy, mesh and pending error: a start that fails may leave no
proxy, one that died, or one that runs. `CoreRuntime` in turn abstracts a stack
to "started with these settings, up or not", and `CoreHost` a command to its
effect on "components up". `OpenVpnReliable` implements `FifoChannel`
(`INSTANCE FifoChannel WITH sent <- Written, got <- Read`), which `OpenVpnRekey`
takes for granted.

Notes on single modules:

* `StackController`. `RunningComponents::start_stack` creates a new controller
  for each start, so a behaviour is the life of one. Two paths are left out:
  `manage_mesh = true` (only `start_cli`, which the runner never calls) and
  Windows. Of the log only the READY line is kept, on its way from the process
  through the pipe into the ring and out of it again. `lost` records that waiting
  for the child returned an I/O error: the one case in which the code gives a
  process up.
* `CoreRuntime`. The caller holds the core's mutex for a whole operation, so
  there is one `pc`. `Save` (anybody may write `zay.toml`) and `StackDies`
  interleave with every step. A configuration is what `ChangePlan` tells apart.
  `mesh_failed` is history: a mesh switch or stop failed and has not been made
  good since.
* `CoreHost`. A request that times out leaves its connection queued; `Kill` of a
  child may be refused, because it runs as root; the Tokio mutex is fair. Process
  ids are not reused. A failing `accept()` ends the control task, which drops the
  shutdown channel and so ends the host (`AcceptFails`). The 5 s a connection has
  for its line only delays the ones behind it and is left out.
* `DesktopClient`. A configuration is `proxy.enabled`, `proxy.tun.enabled` and
  the role of the enabled mesh, which is what `requires_root` and
  `connections_enabled` read. A status request that fails, and a worker that is
  gone, are answered with `CoreStatus::failed`, which says *running*
  (`src/runtime.rs:660`); `misread` records that the command read such an answer.
  A proxy can die at any time and its controller stays (`"dead"`).
* `OpenVpnReliable`. The model begins after the hard reset. Timers fire at any
  time. A wrapped client key makes the first packet empty. `refused` records the
  packets that a peer acknowledged although its receive window could not take
  them. Under replay protection a datagram that arrives twice (`Replayed`), or so
  late that the window of ids has moved past it (`TooLate`), ends the task.
* `OpenVpnRekey`. `Calm` is a link without loss and repetition, on which one peer
  rekeys; over a rough one acknowledgments are lost, resets repeated, and
  handshakes and exchanges fail. The TLS handshake has a time-out
  (`handshake`, `HandshakeTimeout`), the key-method exchange after it has none
  (`negotiate`). `prune` goes by time alone: a receive-only key may leave while
  the other peer, in a long exchange, still sends with it, which `outlived`
  records. `cut` records renegotiations that the supervisor dropped, `replies`
  the acknowledgments of resets under way. The queue of reset events holds eight
  (`control_io.rs:480`); when it is full the incoming loop waits, which over a
  rough link is a delay like any other. Here it is a set: repeated resets of one
  key count once.
* `OutboundGroups`. A dial is the list of its hops, each with the choice it took
  and whether its token is still good. That every member is configured is what
  the engine checks when it orders the outbounds (`outbound.rs:992`). Three
  simplifications touch no property: `take_current` marks the group as used in the
  step that takes choice and token, `invalidate` follows the nested choices in the
  step that removes the history, and one `InterruptExist` holds for all groups.
* `DnsClient`. TTLs are the ages fresh, stale and dead. Time passes at any time.
  A stale hit starts a refresh only when the caller owns its transport. `by` and
  `born` are history: who brought an entry, and in which epoch it was fetched.
* `FakeIp`. One address family stands for both. Addresses are `0 .. Top`; a range
  is its network, its given address and its last address, as in the code, which
  starts two addresses after the given one. `since` is history: the addresses
  given since an address was last given. A crash can split the two writes of an
  allocation and those of a new range.
* `IosTunnel`. A failed bootstrap forbids the mesh at the entry of its final
  teardown, before it reaches the mesh queue.
* `IosVpn`. The app starts over any state of tunnel and preference and learns of
  it in `refreshInstallState`. Each await of `start` and `stop` is a step: the
  save, the read-back after it, which may fail alone, and the request to the
  session, which may be refused. `mishap` records a failed save, overlapping
  calls, and an earlier launch that was killed before its stop was done.

## Runs

| Run | Properties | Instance |
|---|---|---|
| `stack_controller` | `QuietAfterStop`, `OutcomeKept`, `NoRunningWhileStopping`, `StopCompletes`, `DeathReported` | both modes, all failures; nothing is bounded |
| `core_runtime` | `UpToDate`, `NothingStranded`, `RoutesAgree`, `ApplyIsolates` | two proxy settings; meshes with equal routes, with other routes, and rejected; one service; any number of operations |
| `core_host` | `ExitIsClean`, `LastWordWins`, `EveryoneEnds` | two supervisors at once, one host, two waiting connections |
| `desktop_client` | `SafetyInv`, `AppliedIsSaved`, `ChangesKeepLocalUnprivileged`, `CommandEnds` | a TUN proxy, which needs root, and one beside a relay, which does not until the relay is paused; what pausing makes of them; one worker, any number of launches |
| `openvpn_control` | `SafetyInv`, `ImplementsFifo`, `AllDelivered` | send window 2, receive window 2, 1 acknowledgment a packet, 2 queued; four key states, one with three chunks and a slot held by a soft reset |
| `openvpn_rekey` | `RekeySafetyInv`, `PeerReads`, `RekeyCompletes` | four key ids, ring of two; six rekeys of one peer over a calm link; two, or one of each peer, over a rough one; every key expires at any time |
| `outbound_groups` | `SafetyInv`, `UrlTestReplaces`, `DeadIsLeft`, `RefreshEnds` | a selector over a URL test, a URL test in a URL test, and one the API refreshes; two leaves, one flaky |
| `dns_client` | `SafetyInv`, `RefreshRespectsClear`, `Answered` | one key, two queries, two refreshes, one clear |
| `dns_lru` | `CacheBounded`, `EvictsOldest` | three keys, two places, seven uses |
| `fakeip` | `InRange`, `Routed`, `OldestFirst` | four domains, a range with two addresses to give and one with one, no faults, crashes, crashes and failing writes |
| `ios_tunnel` | `SafetyInv`, `StoppedLeavesNothing`, `CallsComplete` | two sessions, one command, mesh on; bootstrap, spawn and startup may fail |
| `ios_vpn` | `VpnSafetyInv`, `IntentionalIsQuiet`, `StaysOff` | two calls at a time, three toggles, any tunnel and preference at launch |

What the composite invariants say, besides types: in `DesktopClient`, `OneCore`
and `RejectedIsNotSaved`; in `OpenVpnReliable`, `EmptyFirst` and `AckedIsKept`;
in `OpenVpnRekey`, `SendKeyExists`, `InstallSucceeds` and `KeysAgree`; in
`OutboundGroups`, `TestingIsDue`; in `DnsClient`, `FlightsHaveOwners` and
`OneRefresh`; in `IosTunnel`, `MeshStaysStopped` and `FailedStartLeavesNothing`;
in `IosVpn`, `NeverLeftBusy` and `StopClearsOnDemand`. Each property has a mutant
in `PROJECT.json`, a plausible slip in the modelled code that violates it.

Why the bounds are enough:

* The runner and the desktop client depend on configurations only through
  equality and a few Boolean questions; two or three values per field reach every
  combination. The theorems remove these bounds, and those on workers, hosts,
  supervisors, queries, keys, window and ring sizes, stream lengths,
  rekeys, groups, dialers, sessions and toggles, for all safety properties.
* `core_host` has one host: two hosts for two supervisors take longer than the
  five minutes a run should. The safety properties are proved for any number.
* A stream one longer than the send window, with a slot held by a soft reset,
  fills the window and makes it move; a fourth datagram per id adds nothing, since
  equal datagrams are one element of `net`. `MaxNet` is never reached. In the
  source the receive window is twice the send window (12 and 6); here both are 2,
  so that a stream of three overruns it: with packet 1 lost, packet 2 waits and
  packet 3 is acknowledged and refused. What is proved holds for all sizes.
* Six rekeys with four key ids pass the wrap twice and retire sessions; on a rough
  link two suffice for a reset of an old key to meet a new one.
* Three keys for two places make one eviction choose; seven uses let an entry be
  used again between two evictions.
* Two iOS sessions are the least for a late engine to meet the next session, and
  three toggles for on, off and a change in between.

Deadlock is not checked where the system may stop: a controller that stopped,
hosts that exited, a channel with nothing left to send,
a link with no rekey left, sessions and toggles used up.

### Fairness

* `StackController`: worker, monitor and `stop()` keep running (operating-system
  threads); a cancelled engine closes and a terminated process exits, which is
  what the engine's shutdown and SIGTERM handling do. Not assumed: that the
  process becomes ready, that the log pipe runs, that anybody calls `stop()`.
* `CoreHost`: timers fire (`request`'s 120 s, `shutdown`'s polls) and the host's
  main task runs. Not assumed: that a command ends, so `EveryoneEnds` speaks of
  hosts that are idle again and again.
* `DesktopClient`: the backend task is scheduled, and the helper ends a worker
  whose connection is closed. Not assumed: that an authorization is granted, that
  anything succeeds.
* `OpenVpnReliable`: the channel's tasks run and timers fire (weak fairness); of
  the datagrams that are sent again and again, the oldest packet of a send window
  and an acknowledgment of it, some get through (strong fairness of `Arrives` and
  `AckArrives`), without which no retransmission protocol delivers.
* `OpenVpnRekey`: supervisors run, handshake windows expire, retired channels are
  unregistered and datagrams arrive. Not assumed: that an exchange ends whose
  peer went away.
* `OutboundGroups`: intervals tick and expire, probes end (they have a time-out);
  the Tokio mutex is a queue, hence strong fairness for taking a check lock.
* `DnsClient`: queries and refresh tasks are polled. Not assumed: that an exchange
  succeeds, or that its owner is not dropped.
* `IosTunnel`: threads and engine run, a command times out. `IosVpn`: calls go on
  after their awaits, notifications are delivered, the system carries out what
  the preference says.
* `CoreRuntime`, `DnsLru` and `FakeIp` have no liveness property: whether they are
  called again is up to others.

## What is proved

All in TLAPS, for every value of the constants that satisfies the assumptions the
modules name. Those keep sentinels and kinds apart, give bounds and flags their
type, and say that there are two peers, that a ring holds at least two keys and
fewer than there are key ids, and that the members of a group are configured;
anything stronger is listed here. Every invariant and every action property that
a run checks is a theorem. Each invariance proof has a lemma or a step per action
and under it one per conjunct of the invariant.

* **`StackController_proofs`**: `StopLeavesNothing` (`QuietAfterStop`),
  `OutcomeStays` (`OutcomeKept`), `StoppingIsNotRunning`
  (`NoRunningWhileStopping`), `StartIsReal`. `QuietAfterStop` is not inductive:
  whether the early return of `stop()` is safe depends on where the worker
  cleared `running`. `SafetyInv` says for every place of the worker what engine,
  process and monitor can be doing (`EngineInv`, `ChildInv`, `MonitorInv`), what a
  cleared `running` implies (`OwnerInv`), and which states `stop()` can see
  (`StoppingInv`).
* **`CoreRuntime_proofs`**: `NothingPendingIsApplied` (`UpToDate`),
  `StopStrandsNothing` (`NothingStranded`), `MeshAndProxyAgree` (`RoutesAgree`),
  `ApplyTouchesOnlyChanges` (`ApplyIsolates`), `ProxyRetried`. The heart is
  `ProxyInv`: an apply whose plan leaves the proxy out knows that the proxy
  already is what the new configuration asks for, because anything else would
  have left `pending_proxy` set.
* **`CoreHost_proofs`**: `HostExitsClean` (`ExitIsClean`) and `CommandsInOrder`
  (`LastWordWins`). `LastWordWins` speaks of an idle host only; `OrderInv`
  generalises it to a host with a backlog (the last command of waiting,
  executing, executed is the last one sent), and `LifeInv` says where in
  `run_inner` a command can execute and components can be up.
* **`DesktopClient_proofs`**: `SafetyCorrect` (`SafetyInv`: one core; between two
  commands the file is what the last successful change asked for, unless the save
  that restores it failed), `AppliedCorrect` (`AppliedIsSaved`) and
  `LocalUnprivileged` (`ChangesKeepLocalUnprivileged`). The inductive `IInv`
  follows a command through `Client::start` and `apply`: `HolderInv` says who
  holds a worker, elevated or about to be; `FlowInv` which steps a start or an
  apply passes before a core is started here, in particular that
  `authorize_if_needed` or `release_unneeded_privileges` came before; `CoreInv`
  that a core without a pending error has started the proxy its configuration
  enables (without it an apply that plans nothing could leave another proxy);
  `RestoreInv` that what is put back is what was accepted; `AppliedInv` that a
  change that goes through `start` found nothing running, since `start` leaves a
  running core alone; `RunningInv` that an apply whose status was no failure found
  a core. What one call of the core can leave behind is stated once, in
  `StartFacts` and `ApplyFacts`.
* **`OpenVpn_proofs`**, control channel: `FifoCorrect` (`ImplementsFifo`) is the
  refinement: initial states map to initial states, a packet created is a write
  (or a stutter, when it is empty), what `next_ordered_sequence` passes on is a
  read, and every other step stutters. It rests on `IInv`: a packet is genuine
  wherever it is, on the link, in a window or waiting, that is, carries what its
  sender's log has under its id (`GenuineInv`, `PendingInv`), and what was passed
  on is a prefix of what was created (`PrefixInv`). It holds for all window
  sizes, all lengths and every link. So does `SafetyCorrect` (`SafetyInv`, with
  `AckedIsKept`): what left the send window is at the receiver, or the receiver
  acknowledged it and its window refused it. `KInv` carries it: every id
  acknowledged, or about to be, is one the acknowledging peer has or refused; an
  id it refused and accepted later is no longer counted as refused.
* **`OpenVpn_proofs`**, rekeying: `RekeySafe` (`RekeySafetyInv`) and `PeersRead`
  (`PeerReads`), from `RekeyInvCorrect`. At one peer `RingInv` says that the reset
  a supervisor works on has the highest number, so `sort_and_limit` never evicts
  its key before it is installed; `MuxInv` that kept sessions, the renegotiation
  under way and the channels being dropped never share a channel, so nobody
  unregisters the one that is needed; `CoordInv` that a dropped renegotiation
  leaves its reset on the books for good, and that otherwise coordinator, mux and
  ring follow the same key. Between the peers, `Together`: they send with the same
  key, or one is a single step ahead and still receives the key of the session
  before, unless that expired (`Ahead`), and what is being installed was
  negotiated with the other (`Backed`). `PeersRead` has one escape, a peer in the
  middle of its own exchange of the key the other already sends with. The point of
  the proof is `AheadIsDone`: a peer that is ahead cannot negotiate again before
  the other has caught up, because the other takes part only in keys of the last
  two sessions it keeps, and a key under negotiation is none of its sessions'.
* **`DnsClient_proofs`**: `SafetyCorrect` (`SafetyInv`) and `ClearRespected`
  (`RefreshRespectsClear`). `FlightInv` gives each flight its one owner and its
  waiters, from which the cardinalities of `FlightsHaveOwners` follow;
  `RefreshInv` says that before the first clear a refresh has the mark of its key
  to itself and that none is of a later epoch; `DiskInv` that what is read back
  from disk is not taken for a refresh: `RefreshRespectsClear` is about what
  refreshes put into the cache, not about what comes back from the disk
  (`ClearEmptiesCache` below).
* **`Engine_proofs`**, DNS cache: `LruCorrect` (`EvictsOldest`) and
  `BoundCorrect` (`CacheBounded`), from `QueueCorrect`: the queue is in order of
  use and has the last use of every entry, so evictions find the oldest and never
  run dry.
* **`Engine_proofs`**, fake-IP: `RangeCorrect` (`InRange`) and `RoutingCorrect`
  (`Routed`) from `MappingCorrect`, which says that both maps are inverse, and
  `RotationCorrect` (`OldestFirst`). The last needs no induction over the
  addresses given: `InTurn` says of the position, in memory and in the store, that
  every address of the rotation between another one and it was given since that
  one was. All assume `Roomy`, that a range has
  an address between its second and its last one (the code gives addresses outside
  smaller ranges), and `RoutingCorrect` that there is a store.
* **`Engine_proofs`**, groups: `GroupsSafe` (`SafetyInv`) and `UrlTestsReplace`
  (`UrlTestReplaces`). `GroupsInv` says that a call that tests, or waits for a
  nested group, holds the group's check lock and found the group due or was forced
  (`CallOK`), that choices are configured members (`ChoicesOK`), that a dial
  passes configured groups and leaves only (`ConnOK`), and that a good token of a
  URL test was taken together with the choice it has now (`Through`): `current()`
  takes both under one lock, and whoever moves the choice cancels the tokens.
* **`Ios_proofs`**, manager: `VpnSafe` (`VpnSafetyInv`) and
  `VpnIntentionalIsQuiet` (`IntentionalIsQuiet`). Neither is inductive: `VpnInv`
  adds that without an overlap at most one call is under way (`OneCall`), and what
  a stop has done at each of its awaits: it is remembered before it reaches the
  session (`StopInv`), and from the moment it has asked the system on, on-demand is
  off and the session is ending (`OffInv`).
* **`Ios_proofs`**, tunnel: `TunnelSafe` (`SafetyInv`) and `TunnelStopped`
  (`StoppedLeavesNothing`), for any number of sessions. `TunnelInv` says for every
  step of a start or a stop where engine thread, callback object, mesh and handle
  are (`JobOK`, `SessionOK`, `MeshOK`, `EngineOK`, `PlatformOK`, `HandleOK`); the
  lemma `Alone` says that between the end of a start and the end of its stop
  nothing else runs in the process, when no stop has overtaken its start.

Only model-checked, and why: liveness (`StopCompletes`, `DeathReported`,
`EveryoneEnds`, `CommandEnds`, `AllDelivered`, `RekeyCompletes`, `DeadIsLeft`,
`RefreshEnds`, `Answered`, `CallsComplete`, `StaysOff`). The prover handles
neither fairness nor `ENABLED`.

## Disagreements observed

What a document, a comment or a test says and the code, as modelled, does not
keep. Each is a definition that no passing run checks; TLC violates it when it is
added to the configuration of its module's run (with the change noted). The
passing properties exclude exactly these cases.

`CoreRuntime`
* `MeshUpToDate`. `apply` stops the old mesh, fails to start the new one and keeps
  `config.mesh` (`src/runtime.rs:219`). With the old configuration put back, as
  the desktop client does, the next apply compares equal and clears the error;
  the WebUI shows "Configuration is up to date" and no mesh runs.
* `DisabledProxyIsOff`. A proxy that failed to start in time keeps its worker
  (`src/runtime.rs:419`); once the file says disabled again no plan names it,
  although the WebUI says "No components need restarting."
* `StopStopsMesh`. `stop` looks at the recorded configuration, not at what runs
  (`src/runtime.rs:330`): a mesh whose switch failed late survives it.
* `RestartValidated`. "Validate before interrupting any running component."
  (`src/runtime.rs:523`), but `start()` loads the file again after the stop.

`CoreHost`
* `CheckFindsCore`. "another Zay core already manages this data directory"
  (`src/runtime.rs:1001`) is missed while a host stops its components: the
  control file goes first.
* `OwnerStopsHost`, with two hosts. "Exit the authorized host only when the owning
  WebUI is shutting down." (`src/runtime.rs:913`): the stop goes to whoever the
  control file names.

`DesktopClient`
* `FreshInstallWaits`. "Fresh installations have Proxy and Mesh disabled"
  (`client/desktop/README.md:43`): `Client::new` writes an enabled TUN proxy
  first (`src/desktop.rs:63`); killed before the second save, the next launch
  resumes it.
* `PauseNeverAuthorizes`. "Pause and Stop never request authorization."
  (`client/desktop/README.md:22`): a TUN proxy beside a relay needs no root until
  the relay is paused.
* `RetryReapplies`. "Retry reapplies that specific attempted configuration"
  (`client/desktop/README.md:200`): it goes through `start()`, which does nothing
  for a core that runs.
* `PauseStartsNothing`. "Stopping one service must never start or authorize
  another configured service after a failed startup." (`backend.rs:140`): a core
  whose proxy failed beside a mesh starts it when the mesh is stopped.
* `DoneIsRunning`. "Start or Save starts the configuration."
  (`client/desktop/README.md:20`): when the request for the status of a worker
  that runs nothing fails, the answer says running, the save goes through
  `apply()`, which does nothing to a core that does not run, and is reported as
  done. `AppliedIsSaved` therefore asks for a core only where no status was
  misread.
* `HelperRunsRoot`. "TUN and Mesh node mode use a separate, signed networking
  helper." (`client/desktop/README.md:49`): `refresh_proxy_nodes` applies to the
  local core without `authorize_if_needed`.

`OpenVpnReliable`
* `AlwaysKept`, `AlwaysDelivered`. "Reorders the bounded OpenVPN reliable receive
  window" (`reliable.rs:173`): TLS is to get the whole stream. The send window
  counts unacknowledged packets, not ids: while packet 1 is lost, later slots are
  freed and reused, ids run past the receive window, and `ingest_link_packet`
  queues an acknowledgment (`control_channel.rs:107`) before the window refuses
  the packet, which is then never sent again. With the source's sizes packet 1 has
  to stay lost while the eleven after it are acknowledged. `AckedIsKept` and
  `AllDelivered` are without this case.
* `DuplicatesSuppressed`. The receiver "suppresses duplicates and stale packets."
  (`reliable.rs:173`): under replay protection a repeated datagram ends the
  channel's task instead (`control_io.rs:500`).

`OpenVpnRekey`
* `ActiveKeyExists`. "an active OpenVPN data key always exists"
  (`data_session.rs:110`): after two dropped renegotiations staging a third
  evicts the key in use.
* `RepeatedResetIsHarmless`. "UDP can retransmit the reset before the new
  key-state is installed" (`control_io.rs:308`): a reset is acknowledged once;
  repeated after the next rekey it is taken for a new one and ends the session.
* `RekeyNeverSilences`. Encrypted packets are to go on through a rekey, with the
  old key in a receive window of an hour (`docs/migration/SINGBOX.md:782`): the
  old key is pruned an hour after the promotion (`data_key_ring.rs:163`), also
  while the other peer is in an exchange that has no time-out and still sends with
  it.
* Slow handshakes: a negotiation begun by the peer runs in a `select!` branch
  beside a 100 ms tick (`client_connector.rs:440`) and is dropped by it, although
  either side is to be able to rekey (`docs/migration/SINGBOX.md:787`);
  `RekeyCompletes` is checked for handshakes that are not dropped (`cut`).

`OutboundGroups`
* `SelectorReplaces`. "internal protocol connections are always replaced when
  group selection changes" (`adapter.rs:40`): `SelectorOutbound::current` reads
  choice and token under two locks (`selector.rs:156`).
* `CutMeansMoved`. "outbound group selection changed" (`adapter.rs:665`): the
  first test cancels connections although it selects the member they use
  (`urltest.rs:556`).
* `NestedDeadIsLeft`. A parent keeps history that a nested group deleted
  (`urltest.rs:527`, against `docs/migration/SINGBOX.md:497`).

`DnsClient`, `DnsLru`, `FakeIp`
* `AlwaysOneRefresh`. `optimistic_hit_starts_one_background_refresh`
  (`client.rs:792`): a refresh from before a clear removes the mark of a later
  one (`client.rs:335`).
* `ClearEmptiesCache`. The epoch of a clear is to prevent that the cache is filled
  again with what was cleared (`docs/migration/SINGBOX.md:662`): a query's own
  exchange does not look at the epoch, and an entry read from disk before the
  clear is inserted after it (`client.rs:208`).
* `AlwaysBounded`, `OrderBounded`. "bounded LRU caching" (`client.rs:1`): entries
  from disk are added without an eviction, and hits lengthen the queue as long as
  the map is below its capacity.
* `AlwaysRouted`. Results of writes are discarded (`fakeip.rs:193`); both
  directions are to be restored after a restart (`SINGBOX.md:728`).
* `AlwaysOldestFirst`. `persistent_mapping_and_allocator_position_survive_restart`
  (`fakeip.rs:372`): mapping and position are two writes.
* `InRange` with `SmallRanges`. "fake-IP range has no usable addresses"
  (`fakeip.rs:182`) is never said of a small range; addresses outside it are
  given instead.

`IosTunnel`, `IosVpn`
* `AlwaysStopped`, `ContextAlive`. "Stop Rust singbox / EasyTier / monitors."
  (`PacketTunnelProvider.swift:350`), "`context` remains alive until stop
  returns" (`singbox_runtime.rs:83`): a stop that comes while `start()` is
  starting the engine finds the slot empty.
* `AlwaysCleared`, `AlwaysStaysOff`. "Stop path clears these so the user can truly
  disconnect." (`VPNManager.swift:344`): not after a failed save, nor when the
  mesh toggle is used during the stop or the app is killed in the middle of it.
* `AlwaysQuiet`. "Intentional user/config stops must not be reported as tunnel
  failures." (`VPNManager.swift:17`): an overlapping start clears
  `stopRequested`.
* `MeshApplied`. "Apply them with one coordinated tunnel restart"
  (`VPNManager.swift:274`): a change made while `start()` awaits is lost.

## Not modelled

Most of the repository's 353,000 lines are the engine's wire formats,
cryptography, TLS fingerprints, routing rules, transports and platform drivers,
and around them configuration builders, parsers, WebUI and views: data conversion
and I/O, with no state between two calls that could go wrong over several steps.
`components` in `PROJECT.json` gives the reason for each part. Within the
modelled parts:

* an operation future dropped between two awaits (WebUI handlers over an
  in-process core), and mesh instances or tasks that end by themselves;
* Windows, the foreground host without a parent, `start_cli`;
* OpenVPN's data path, the mux's buffer of early packets, the budgets that ask
  for a rekey; the persisted choice of selectors; the arithmetic of TTLs.

## Left open

1. An abstract `StackService` (stopped, starting, serving, failed) that
   `StackController` implements and `CoreRuntime` is written against, as a
   refinement checked by TLC and proved; the same for `CoreHost` over a FIFO
   command server.
2. Dropped operation futures over `CoreRuntime`, with the handlers of `webui.rs`
   as callers.
