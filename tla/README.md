# Verification of voytty

voytty keeps terminal sessions alive in a per-user daemon. Local programs reach
it over a same-user socket; other devices, once paired, over authenticated Iroh
connections. Many clients may watch a session, one at a time controls it.

This directory holds TLA+ models of the daemon and its clients where concurrency,
retries and partial failure meet, the TLC runs that check them on small
instances, and TLAPS proofs of what matters most. `PROJECT.json` lists the runs,
the source lines behind every definition, the hazards, the finding and the
theorems.

## The system

| Part | State | What is hard about it |
|---|---|---|
| Operation replay (`session.rs`) | leases, windows of result cells, low-water marks, access clock | retries after eviction, retirement, panics, restarts; clock overflow |
| Session actor (`session.rs`) | attachments, controller lease, resume checkpoint, colors | takeovers, retries, crossing acknowledgements, detaches at any moment |
| Session registry (`session.rs`) | names, identities, reservations, owners, admission | creation against rename, close and stop; flags read without a lock |
| Device authorization (`authorization.rs`, `service.rs`) | one entry and one fair lock per device, mirror of a durable row | revocation against effects in flight, lost answers, crashes |
| Pairing (`pairing.rs`, `pairing_service.rs`, `device_directory.rs`) | live offers, replay cells, tombstones; aliases of the accepting side | one-time use under expiry, retries and forgotten identities |
| Store actor (`store.rs`) | SQLite rows behind one thread | commands that outlive their waiter |
| Connection broker (`connection_broker.rs`) | candidates, demand, dial worker, incarnations per peer | duplicate connections, late handshakes, lost wake-ups |
| Network supervisor (`network_supervisor.rs`) | endpoint, retries, admission of handshakes | shutdown while tasks hold permits |
| Session wire (`session_wire.rs`) | reader, writer and receipt window of a stream | waiting on each other, deadlines |
| Terminal driver (`terminal_driver.rs`) | byte queue, model, revisions, effect broker, history slot | threads that fail independently |
| Lifecycle, handoff, local IPC | locks, sockets, owner process | crash between stop and start |
| Client session, view, unary requests | transport epoch, pending requests | reconnection with unknown outcomes |
| Viewport cache, terminal engine, terminal UI | windows, parser and key states | stale responses, input split anywhere |
| Upload, releases | transfer credit, candidate files | half-written files, answers of different releases |
| Codec, domain values, platform, diagnostics | mostly pure or I/O | bounds of decoding, atomic files |

How they interact: a request enters through local IPC or a broker stream, is
dispatched by the session wire, passes the authorization lock if it is remote
(`run_effect`), is made idempotent by operation replay if it is a mutation, and
ends in the registry or in the mailbox of one session actor, which drives one
terminal driver. The driver's screens come back through the actor and the
writer of the stream to a client's view, whose terminal UI draws them and fences
what the user types. Pairing grants an authorization through the store actor;
revocation withdraws it and then closes connections and detaches attachments.

## Modules

| Module | Models | Correspondence |
|---|---|---|
| `ReplayRegistry` | `ReplayRegistry`, `ReplayEpoch`, `OperationCell`, `execute_replayed` | one step per method under the mutex; `heap` holds every cell ever made, so "executed twice" is a statement about it |
| `SessionActor` | `run_session_actor`, its commands and `SessionRuntime` | one step per command, preceded by reaping as in the loop; detached flags, published revisions and driver failures are steps of other threads |
| `ControllerLease` | abstract: one holder, growing generations, input only under the held lease | refined by `SessionActor` |
| `SessionRegistry` | `RegistryInner`, `CreationOwner`, worker, finalizer and close threads, `shutdown_with_approval_until` | one step per locked section and per atomic flag access |
| `DeviceAuthorization` | one device across `authorization.rs`, `store.rs`, `pairing_service.rs`, `service.rs`, `connection_broker.rs`, `session_wire.rs` and the actor's mailbox | one step between two awaits; it composes the parts a revocation has to stop |
| `PairingOffers` | `PairingManager` | one step per locked section; tickets, cells and expiries are named by the call that made them |
| `OneTimeTicket` | abstract: one holder at a time, used at most once, closed for good | refined by `PairingOffers` and by the offers of `DeviceAuthorization` |
| `PairingAcceptance` | the accepting side of a pairing, its operation cells, aliases and device records | one step between two awaits or transactions |
| `ConnectionBroker` | two brokers and the link between them | one step per locked section or message; connection records carry their incarnation |
| `NetworkSupervisor` | the supervisor's loop, handshake tasks, permits | one step per branch of the select; the step of a handshake task says which permits it holds |
| `RemoteUnary`, `LocalTunnel` | one request with its retry; the two pumps of a tunnel | one step per await |
| `AttachmentHost`, `ViewClient` | both ends of one attachment stream | actions of the host's and of the client's half, composed by `TerminalView` |
| `TerminalView` | host, stream, client session, view and frontend together | one step per select branch of each task, losses between any two |
| `TerminalDriver` | reader, model and writer threads of a PTY, history slot, drop | one step per queue or lock operation |
| `TerminalIngress`, `TerminalSurface`, `SurfaceSync` | the byte parsers and their batches; rows, runs, deltas, links and palettes; host and client applying them | one step per byte or per update; `TerminalSurface` is operators, driven by `SurfaceSync` |
| `TerminalShell`, `InputFence`, `HostInputCodec`, `HostInput` | entering and restoring the terminal, startup; when typed bytes may pass; decoding of the byte stream at every cut | one step per event of the UI loop |
| `ViewportCache`, `ViewportHistory` | cached windows as operators; scrolling, requests and selections that use them | one step per event or answer |
| `FileUpload` | both ends of an upload with credit and deadlines | one step per frame or job |
| `LocalServer`, `LifecycleHandoff`, `HostLifecycle` | serve loop and handlers; frontend and owner of a stop, restart or update; locks, socket, setup and replacement of the executable | one step per system call or message |
| `ReleaseDownload` | selecting, fetching, authenticating and trying a release | one step per download, check or run |
| `*MC` | instances for TLC | see below |
| `*Proofs` | theorems and proofs | also at the end of `NetworkSupervisor` and `ReleaseDownload` |

Data is reduced to what the properties tell apart: a fingerprint, a device, a
color profile or a ticket is a model value; a screen is its revision, except in
the modules about surfaces. Random identities never repeat in the model unless
the code checks for a repetition (offer identities, session identities).
Definitions whose comment begins with "Mutant" are faulty variants that no
specification uses; each shows that a property can fail.

Points of abstraction worth knowing:

- `DeviceAuthorization` has one device, because locks, rows and connections of
  two devices never meet. The fair queue of `tokio::sync::RwLock` is external.
- In `DeviceAuthorization` a store command may outlive the deadline of its waiter;
  the history variable `behind` remembers that a row was committed whose writer
  had given up, until the next publication or restart. `StoreBuffering` says
  whether a load may overtake an earlier store to another location, as Release and
  Acquire allow.
- In `ConnectionBroker` an end may run a release that names no incarnation (`bare`),
  and a retired incarnation expires. That a handshake outlives the expiry is a fault
  of its own (`outlived`): the code chooses the deadline to exclude it and does not
  check it, and the superseded owner then becomes current again.
- In `RemoteUnary` and `LocalTunnel` the far end is this repository's own host
  (`session_wire.rs`, `session.rs`); only the network and process ends are external.
- In `TerminalView` a write, a command or a takeover may run into its deadline
  (`Stalls`); a frame whose writer gave up is torn. `session.missed` and
  `session.torn` record the two cases its properties exempt.
- In `PairingOffers` the clocks are read before the lock is taken and the wall
  clock may be set back, so a section sees any part of the lapsed tickets.
- `MaxRevision`, `MaxIncarnations` and `MaxExecutions` only bound behaviours, and
  `Budgets` are sets of records that bound each kind of fault and of user action.
  The other maxima stand for limits and integer ceilings of the code.

## Runs

An MC module instantiates one specification, or puts several side by side: its
variable `part` says which of them a behaviour is about, and the others rest in
the shared slots `s1`, `s2`, .... What the parts of one run say is kept in one
property, a conjunction with one conjunct `part = "..." => ...` for each.

| Run | Question | Instance |
|---|---|---|
| `replay` | Does a mutation ever run twice or lose its cell, and are leases retired in order of use? | 1 principal, 2 threads, registry and windows of 2, ordinals, sequences and clock up to 3, 2 incarnations, 3 executions |
| `actor_lease` | One controller, whatever the order of takeovers, retries and detaches? | 3 attachments, 2 operations, 3 generations, 1 revision |
| `actor_screen` | Does a delta always start from what its client has, and does everything of an expelled device end? | 2 attachments of a device with a resumable view, 2 colors, 2 revisions |
| `daemon` | Is every running worker accounted for, does a stop release everything, are reports of lifecycle commands true, and what holds when the store answers too late? | 2 creations, 2 names, 1 stop, store buffering; 3 sessions in a handoff; 3 clients of 2 connections; 1 device whose store answers late, restarts in between |
| `host` | Is anything left of a revoked device, does memory mirror the disk, is a pairing's outcome definite, and who owns the files? | 1 connection each way, 1 revoker, 1 pairing; 4 calls to 2 hosts with 1 rename, a shutdown and a deadline; 2 commands, 3 daemons, 6 inodes |
| `pairing` | Can expiry, retries or reused identities reopen a ticket, or offers and cells come apart? | 3 calls, 3 operations, 2 identities, 2 handshakes, limit 1 |
| `network` | Is a promoted connection alive and of the current owner, does a waiting consumer have a dialer, is a shutdown complete, is a caller told the truth, does only a signed binary run? | 2 dials per end, 6 incarnations, one end possibly of an old release, 1 fault; 3 incoming and 2 outgoing handshakes; 3 calls over 3 connections; a tunnel; releases published during an update |
| `input` | Does a key ever reach a screen its user had not seen, or arrive torn? | chunks of up to 3 bytes, bounds of 6, 9 and 12 for the three kinds of sequence, a queue of 1 |
| `view` | Does a view end with the last screen and its terminal restored, and are selections and uploads what was shown? | receipt window 1, queues of 2 and 1; 2 rows of 5 retained; 8 bytes in windows of 3 |
| `terminal` | Is a batch ever torn or output lost between the PTY and a client's surface? | queue of 1, 2 readers; surfaces, links and palettes of two cells |
| `progress` | What is begun ends, and two sides come to agree | eight of the components, smaller |
| `input_replayed` | expected to fail, see below | as `input` |

What the composed properties stand for:

- `ReportsHold`: a command that says it left sessions alone did, a stop ended only
  what was approved, and a client's failure is real.
- `LateStoreIsSafe`: `EffectAuthorized`, `DurableFirst`, `RevokedIsGone` and the
  single use of offers with a store that may answer late.
- `HostIsOwned`: a daemon serves the files that are there, and a reset is confirmed.
  The first, `ServesDisk`, does not cover a reset that runs while a daemon starts
  outside the lifecycle lock: at login, or as the child of an interrupted start.
  `AcceptanceIsDefinite`: a success is a durable pairing, a failure left none, an
  alias is held once, an operation runs once.
- `NetworkIsOrderly`: `NormalReserved` and `ReturnedIsReleased` of the supervisor.
  `CallersAreToldTruth`: a mutation reported done was run by the host, one that
  failed on this side never is, not even later; a lost tunnel is never taken for a
  broken protocol, and a clean end means that everything arrived. What the host's
  own error says of a mutation is left open, as the code leaves it.
  `WaitingIsServed`: no consumer waits without a dial worker, however demand comes
  and goes around the worker's last check.
  `UpdateIsSigned`: `RanOnlySigned` and `FetchInBudget` of `ReleaseDownload`.
- `InputIsWhole`: decoding does not depend on where reads are cut, and releases
  follow presses. The one exception is stated in `SplitInvariant`: a sequence longer
  than an unfinished one may be, right after the prefix key, reaches the child or
  not with the cut.
- `ViewEndsRight`: a view never ends because its halves disagree, nor because of
  what is typed or printed (`SteadyViewLives`); one that reports the end of its
  session has drawn the last screen, unless the end overtook a replacement on its
  way to the writer (`session.missed`).
- `ShellGivesBack`, `HistoryIsWhatIsShown`, `UploadIsHonest`: the terminal is
  restored and startup ends once; rows selected and copied are the ones shown; an
  upload is told what became of it, leaves nothing half done and never stalls.
- `SurfaceIsHosts`, `IngressMediates`: the client's surface is the host's after
  every update, through resizes of rows and columns, switches of the screen and
  changes of links, modes and palettes; and every byte of the program is accounted
  for by the mediator.

The bounds let each limit be reached and passed over: with a registry of two
leases a third retires one with an operation on either side; a window of two
evicts for a third operation; three attachments are a holder, a taker and a
bystander; three calls at a limit of one let an identity be retired, forgotten
and drawn again; a queue of one blocks its producer at once; six incarnations let
both ends reconnect twice with two retired. What they leave out: in `replay` a
retry of an evicted operation would be a fourth execution, and there is one
principal, so those two cases rest on `ReplaySafe` and `ResidentSafe`; in `daemon`
the two creations do not exceed the limit of two. Deadlock is not checked because
each of these systems may rightly stop: bounded behaviours end, sessions end, and
nobody has to make another request; `progress` says what must not stop.

### Where the code and its documentation disagree

`input_replayed` is expected to fail. `docs/remote-cli.md:324` says that while
reconnecting "the CLI drains and discards ordinary input instead of queueing it
for replay", and `client/src/input.rs:11` that the resume buffer is "never
disconnected replay". TLC finds: the user scrolls into history, returns to the
live view and types before the return is acknowledged; the transport is lost;
`transition_transport_input_state` does not fence the input, because its guard
excludes a pending resume; after the reconnection `finish_resume` writes the bytes
to the new attachment.

Further properties are stated in the modules but belong to no run, because TLC
refutes them. They mark interleavings that a change of the code should consider:

- `IdleStopEndsNothing` (`SessionRegistry`; `session.rs:2025`): with two stop
  requests at once, the failure of one reopens admission under the other, whose
  unapproved idle stop then ends a session created in between. For the same reason
  `StoppedReleasedAll` is claimed for one stop request: stops run on blocking
  threads (`service.rs:463`, `service.rs:1006`) and nothing keeps a second one out.
- `ReleasedEventually` with `StoreBuffering` (`SessionRegistry`; `session.rs:3043`):
  `mark_registry_owned` and the worker's finalizer each store one flag and load the
  other with Release and Acquire; both may read the old value, and the ended
  session keeps its name. `progress` checks it without store buffering.
- `FinalScreenAlwaysShown` (`SessionActor`; `session.rs:3367`): a takeover that
  recolors the terminal stores a snapshot for the new controller; if the session
  ends first, `finish_runtime` drops it and the final update has no base the client
  holds. `FinalScreenShown` is the part that holds. `EndedShowsFinal` of
  `TerminalView` exempts the same case between the actor and the writer.
- `MirrorsStore` without `~behind` (`DeviceAuthorization`; `service.rs:813`): a
  revocation or a pairing whose deadline passes during the store's transaction is
  durable but not published, until a writer next publishes or the daemon restarts.
  `daemon` checks what holds nevertheless.
- `QuietViewLives` (`TerminalView`; `session_wire.rs:1709`): a view takes over while
  the program prints and its resync snapshot is not yet acknowledged; the late
  acknowledgement clears the pending color snapshot, so the success is written
  before the replacement, the frontend becomes active, and its history request is
  refused and ends the view. `SteadyViewLives` is the part that holds.
- `ProtocolHeld` without `session.torn` (`TerminalView`; `session_wire.rs:1207`): a
  write that exceeds its deadline inside a frame ends the stream there, and the
  client reports a malformed frame, which it does not retry.
- `LossIsRetryable` without `r.cut` (`LocalTunnel`; `client/transport.rs:312`): the same, behind a tunnel: a
  clean end inside a frame is a protocol error to the frontend.
- `SplitInvariant` without `MeetsPrefix` (`HostInput`; `terminal_ui.rs:2843`): see
  `InputIsWhole` above.
- `UploadToldTruth` with a definite `stopped` (`FileUpload`; `client/transport.rs:600`):
  when the socket of the local daemon fails after the last frame of an upload was
  sent, the client reports that the daemon stopped, and the file may be published
  all the same.
- `AcceptedFinishes` without `refused` (`LifecycleHandoff`; `operations.rs:1440`): an
  approved stop is not carried out, and not retried, when the request to the daemon
  fails.
- `ViewportConverges` (`TerminalView`; `client/src/session.rs:902`): a resize lost
  with its stream is not sent again: the coalescer has seen it submitted, and the
  viewport of a reattach only counts when a session is created.
- `EndedWasPresented` (`LifecycleHandoff`; `operations.rs:1417`): an approval covers
  every session the stop finds, so one that was admitted after the confirmation
  ends without being shown (`docs/remote-cli.md:112`).
- `ReservedIsWritable` (`PairingAcceptance`; `device_directory.rs:199`): the store is
  asked before the reservation is taken, so an alias can be written and released in
  between; the later pairing fails at its end, after the host authorized it.
- `EntersFresh` (`ViewportHistory`; `viewport_cache.rs:415`): a prefetch answered
  with a grown history leaves a desired offset in the live view, after which live
  updates do not invalidate the rows, and entering history shows older ones.
- `AskingAgainIsHarmless` (`ViewportHistory`; `client/src/view.rs:1115`): releasing a
  scrollbar drag forgets a request in flight; the second one is refused locally, and
  the frontend leaves.

## Fairness

Only threads and tasks that the scheduler runs are fair, and only weakly. Clients
and users are never obliged to do anything, deadlines need not pass, and restarts
need not happen. The liveness properties are `RevokeEnds` in `host` and `BegunEnds`
and `SidesAgree` in `progress`.

- `DeviceAuthorization`: the store thread, the actor thread and tasks that hold or
  have been granted the permit proceed. The lock's queue is first come, first
  served, which is what `RevokeEnds` rests on.
- `SessionRegistry`: a creation that has begun proceeds, a worker that is told to
  stop does, and the close and finalizer steps run.
- `ConnectionBroker`: the dial worker, the connection tasks and the consumers
  proceed, a link whose other end closed is found lost, and a retired incarnation
  expires.
- `NetworkSupervisor`: the supervisor's loop and a started stop; handshakes not.
- `TerminalDriver`: its threads, and the exit of a killed child.
- `TerminalView`, `TerminalShell`: reader, writer, driver, reconnection and the
  select loops of the frontend.
- `LifecycleHandoff`, `LocalServer`: the owner and its frontend; handlers that
  return or time out.

## Proofs

The theorems hold for every value of the constants that satisfies the module's
named assumption (`ReplayAssumption`, `ActorAssumption`, `RegistryAssumption`,
`OffersAssumption`, `BrokerAssumption`, `AuthorizationAssumption`), which the runs
evaluate, or the hypotheses stated in the theorem. None of the invariants is
inductive as it stands; for each module the strengthening and the reason for it:

`ReplayRegistryProofs`: `TypeCorrect`; `ReplaySafe` (`AtMostOnce`), `RetainedSafe`
(`CellsRetained`), `ResidentSafe` (`ResidentExactly`), `BoundedSafe`
(`BoundedByRecency`). That a new execution is a first one depends on what the
registry remembers, so `ReplayInv` adds `CellsAreOwn` (an epoch maps a sequence to
the cell made for it) and `Remembered` (every executed operation is in its window,
under its low-water mark, under the retirement floor, or of an earlier
incarnation). Issue, insertion and completion each have a preservation lemma.
`ResidentSafe` needs `FloorIssued` too: no lease is retired that was not issued.
`BoundedSafe` shows that compaction keeps the order of the stamps.

`SessionActorProofs`: `TypeCorrect`; `LeaseSafe` (`SingleController` and that
operation, effects and summary follow the lease), `RefinesLease` (the refinement of
`ControllerLease`), the action property `RetriesAreOwn`; `InputSafe`,
`UpdatesSafe`, `ExpelledSafe`, `FinalSafe`. `IInv` adds `Fresher` (no attachment has a
generation that was not drawn) and `Recorded` (no operation is recorded for such a
generation). The actor has many commands but does only eight things to the lease:
every step is one of these moves (`StepIsMove`), and the invariant and the
refinement are proved of the moves. `ScreenInv` relates, for each attachment, the
base, what was handed out and what is still stored, and carries the four
properties of screens.

`SessionRegistryProofs`: `TypeCorrect`; `AccountedSafe` (`SessionsAccounted`); the
action property `StopReportsTruth`; `StoppedSafe` (`StoppedReleasedAll`, for a single
stop request; see above why). `RegistryInv` says who owns an entry: a starting
name, a provisional entry, a live entry and a reservation carry the creation they
belong to (`LiveOwn`, `ProvisionalOwn`, `NamesOwn`), and how far that creation and
its worker are (`Progress`, `CleanupDone`, `StartingHeld`, `RunningHeld`). `StopInv`
and `ClosedInv` say what a stop has seen when it reports.

`PairingOffersProofs`: `OffersSafe` (`OffersAgree`), `TicketsOnce` (the refinement of
`OneTimeTicket`). The locked sections first prune and then act, so the invariant
`OffersInv` is stated of a state in between (`Agree`): offers, cells, calls and
handshakes name the same tickets from both sides.

`ConnectionBrokerProofs`: `CandidatesSafe` (`CandidatesSound`). `Sound` relates each candidate of a registry to the
connection and the task behind it, and each connection to the incarnation its hello
carried, or to none; that retired incarnations expire is part of it. Steps at one end are shown not to disturb the other.

`DeviceAuthorizationProofs`: `TypeCorrect`; `RevokedSafe` (`RevokedIsGone`),
`EffectsSafe`, `DurableSafe` and `MirrorSafe` (`MirrorsStore`), all with a store whose
commands may outlive their waiters. `AuthInv` adds who may hold the fair lock
(`LockInv`), what each store command will do to the row (`StoreInv`), what a writer
has published at each of its steps (`WriterInv`, `RowInv`) and what is in the
actor's mailbox (`ActorInv`).

`NetworkSupervisor`: `ReturnedSafe` (`ReturnedIsReleased`) and `ReservedSafe`
(`NormalReserved`). `ReleaseInv` orders the shutdown: the flag is raised after the
broker was told to refuse, the supervisor ends only after the flag, and gives up the
endpoint and the incoming handshakes before, or is dropped with them after a stop
that returned early. `GlobalBounded` bounds the handshakes
that hold a pair-global permit.

`ReleaseDownload`: `SignedSafe` (`RanOnlySigned`) and `BudgetSafe` (`FetchInBudget`).
`SignedInv` says, from the signature check until the candidate ran, which manifest
is in hand and that it names the archive.

Only model-checked: every liveness property (`RevokeEnds`, `BegunEnds`,
`SidesAgree`) and fairness, which this prover cannot reach; the recursive
algorithms of `HostInputCodec`, `TerminalIngress`, `TerminalSurface` and
`SurfaceSync`, whose results would need induction over data; the single use of
`DeviceAuthorization`'s offers; and the properties of `LifecycleHandoff`,
`LocalServer`, `PairingAcceptance`, `HostLifecycle`, `RemoteUnary`, `LocalTunnel`,
`InputFence`, `TerminalView`, `TerminalShell`, `ViewportCache`, `ViewportHistory`,
`FileUpload` and `TerminalDriver`, which no theorem states yet.

## Not modelled

Bytes and pictures: message encoding other than surfaces, compression, drawing; how
the terminal library rewraps lines when the columns change (rows are cut and padded
instead); the buffer of an incomplete character before the ingress parser, which
frames nothing.
Cryptography: proofs and transcripts are values that match or do not. SQLite, the
operating system, the terminal library's grid and Iroh, beyond how the code uses
them. Routes and transport options, which are data for the QUIC library. Windows
variants of the platform layer. Command line parsing and printing. Validated value
types. Diagnostics, which feed back into nothing. Read-only requests (listing).
