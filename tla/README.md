# TLA+ models of scshr

scshr is a native Windows client for Apple Screen Sharing in High Performance
mode. This directory models its concurrent and failure-prone parts in TLA+,
checks them with TLC on small instances and proves the most important
properties with TLAPS for all values of the constants. `PROJECT.json` lists
components, runs, mutants, the map from definitions to source lines, findings,
hazards and theorems; this file explains them.

## The system

A session (`src/src/session/session.cpp`) owns these threads:

| thread | reads | changes |
|---|---|---|
| packet | UDP video, through an I/O completion port into pool slots | RTP assembler, decode queue, recovery flags, SSRC-to-tile map |
| ctrl | UDP control: RTCP and audio | sender reports, audio sink |
| session audio | UDP from the Mac's audio relay | audio sink; renews the subscription every second |
| tcp | the encrypted TCP records | layout, cursor, clipboard, resize flags |
| tx | its condition variable, 50 ms ticks | heartbeats, reports, NACK, FIR, stall watchdog (may restart the decoder) |
| clipboard | the local clipboard | TCP messages |
| decoder worker | the decode queue | libav context, frame slots, quality gate |
| render loop | the frame slots, window messages | screen, window size requests |

On the Mac a tunnel daemon (`src/tools/mac-tunnel`) carries the traffic over
WireGuard and relays the audio that per-account agents capture. On Windows a
service runs the tunnel; a command line and a wizard install and pair it.

The path of a picture: datagram -> slot of the packet pool -> group of the
RTP assembler -> NAL in the decode queue -> libav -> slot of the tile -> screen.
Loss anywhere on it is answered by NACK (single packets) or FIR (a new intra
picture), and until the intra picture comes the last good one stays on screen.

### What makes it hard

* Datagrams are lost, repeated and reordered around a 16-bit sequence wrap.
* The decode queue is lock-free, while a watchdog on another thread may drain it.
* Recovery is driven by flags which three threads set and clear without a
  common lock, while units from before and after a break share one queue.
* A frame passes three critical sections between decoder and screen.
* Agents, subscribers and the tunnel die without saying goodbye.
* Installation changes files and a service in steps that can fail.

Each hazard has an entry in `PROJECT.json` at the line where it bites.

## Modules and runs

| module | models | run |
|---|---|---|
| `RtpAssembler` (proofs) | `media/rtp_assembler.cpp`, the pool, the packet thread's loop | `avc_one_tile`, `hevc_two_tiles` |
| `FrameHandoff` (proofs) | frame slots of `media/decoder.cpp`, loop of `app/viewer.cpp` | `handoff` |
| `NalQueue` (proofs) | `common/ring.h`, queue and worker of `media/decoder.cpp` | `media` |
| `AvcRecovery` (proofs) | recovery flags in `media/decoder.cpp`, `session/session.cpp` | `decoding` |
| `SrtpDecryptor` (proofs) | roll-over counts of `crypto/srtp.cpp` | `decoding` |
| `InitialBurst`, over `SrtpDecryptor` | `media/burst.cpp`, `media/nalu.cpp`, SSRC groups of `crypto/srtp.cpp` | `decoding`, `burst_wrap` |
| `ControlChannel` (proofs) | `protocol/record_layer.cpp` and its readers and senders | `decoding` |
| `UdpReceiver` (proofs), implementing `SlotRing` | `net/udp.cpp`, `media/packet_pool.h` | `media` |
| `LockOrder` | the mutexes of decoder, session and renderer | `decoding` |
| `HwFallback` (proofs) | choice and loss of the graphics card in `media/decoder.cpp` | `media` |
| `HevcRps` (proofs) | `media/hevc_rps.cpp` | `decoding` |
| `Renderer` (proofs) | `gfx/d3d11_renderer.cpp`, loop of `app/viewer.cpp` | `media` |
| `Feedback` (proofs) | `media/quality_gate.cpp`, FIRs of `session/session.cpp` | `viewer` |
| `CanvasChange` | resize and parameter harvest, `session/session.cpp`, `app/viewer.cpp` | `viewer` |
| `KeyRouting` (proofs) | `app/keyboard_hook.cpp`, `app/window.cpp`, `app/input.cpp` | `viewer` |
| `ClipboardShare` | clipboard in `session/session.cpp`, `protocol/clipboard.cpp` | `viewer` |
| `AudioSink` (proofs) | `app/audio.cpp` | `viewer` |
| `PairingWizard` (proofs) | `app/setup.cpp`, `app/gui.cpp`, `app/ssh_client.cpp` | `lifecycle` |
| `SessionLife` (proofs) | `session/session.cpp`, `protocol/negotiation.cpp`, `protocol/auth.cpp`, `app/viewer.cpp` | `lifecycle`, `session_loss` |
| `TunnelInstall` (proofs) | install and uninstall of `app/tunnel_cli.cpp`, `tunnel/win_tunnel.cpp` | `tunnel_install` |
| `TunnelGate` (proofs) | `status` and the gate of a session, same files | `tunnel_install`, `init_reconciles` |
| `AudioRelay` (proofs) | `mac-tunnel/audio_relay.go`, `audio_relay_darwin.go` | `relay` |

The `MC` modules hold the sets TLC needs. A run that has several parts chooses
one in its initial state (`part`); the other parts then keep their state, so the
run explores the parts side by side and not their product. The modules share no
state in the models: what one relies on of another is the other's property (the
decoder on `GapsAreAnnounced`, the session on `OneOwner`). Fairness is restated
per part, because a part that was not chosen must not be forced to move.

A run checks one property per question. Where the answer has several parts the
property is their conjunction, and the sections below explain the parts:

| run | property | parts |
|---|---|---|
| `avc_one_tile` | `GapsAreAnnounced` | |
| | `EndsOnceInTime` | `EndsOnce`, `BoundedAge` |
| | `TracksSequence` | `NackOnlyMissing`, `ExtendedSeqAdvances` |
| `hevc_two_tiles` | `SlotsConserved` | |
| `handoff` | `DrawsFreshInOrder` | `WaitReportsUnlessStalled`, `FreshAtDraw`, `ShownInOrder` |
| | `AnnouncedGetsDrawn` | |
| `relay` | `AgentsObey` | `StartedIsWanted`, `AgentFollows`, `ExpiresInTime` |
| | `ForwardedAsAsked` | |
| | `RelayRecovers` | `DeadIsDropped`, `RenewalFindsAgent` |
| `tunnel_install` | `IdentityIsAPair` | |
| | `InstallIsWhole` | `InstallTakesEffect`, `RollbackRestores`, `StateTellsConf` |
| | `GateIsRight` | `SessionOnItsPairing`, `HealthyIsAdmitted` |
| `decoding` | `ConcealedNeverShown`, `IntraUnfreezes`, `EveryPacketOpens` | |
| | `BurstIsKept` | `KeyFrameWholeUnlessWrap`, `IdrFirst`, `NoneTwiceNoneForgotten`, `TilesBySsrc` |
| | `RecordsInOrder` | `WireOrder`, `EveryRecordRead` |
| | `LocksInOrder` | `NoDeadlock`, `OrderKept` |
| | `ForetoldInFirstSequence` | |
| `media` | `SlotsGoRound` | `RxTypeOK`, `OneOwner`, `NeverDeaf` |
| | `ImplementsRing` | the refinement of `SlotRing` |
| | `ReceivesUntilStopped` | `ParkedIsRetried`, `StopReleasesThread` |
| | `FallbackIsSound` | `BurstComplete`, `BoundIsTrue` |
| | `CardIsLeft` | `NeverBackToCard`, `FailingCardIsLeft` |
| | `FramesAreCurrent` | `NeverQueued`, `CacheHitIsTrue` |
| | `QueueIsFifo` | `NqTypeOK`, `HeldOnceByWorker`, `DecodedInOrder` |
| | `QueueGetsOn`, `CloseEnds` | |
| `viewer` | `RequirementKept` | `StickyRequirement`, `FreshAttempts` |
| | `GateRecovers` | `Recovery`, `EscalationResolved` |
| | `CanvasSettles` | `FollowsCalmMove`, `HarvestEnds` |
| | `NoStuckModifier`, `OnlyTypedHere` | |
| | `ClipboardSettles` | `MacCopyArrives`, `ExchangeSettles` |
| | `SoundInOrder` | `NeverLate`, `PlayedInOrder`, `StopReturns` |
| `lifecycle` | `WizardIsTrue` | `PairingIsTold` (`BlockedIsReported`, `ReadyIsPaired`, `SavedMeansPaired`), `PagesFollowWorkers` (`DialogOutlivesWorker`, `StatusIsLatest`) |
| | `PagesSettle` | `SetupSettles`, `CheckSettles` |
| | `PartsOutliveThreads` | `ThreadsHaveTheirParts`, `NothingOutlivesViewer` |
| | `HandshakeIsCoherent` | `OneConnection`, `CipherOfThisConnection`, `OfferMatchesSelection`, `FailsForAReason` |
| | `ViewerEnds` | `ClosedWindowEnds`, `ConnectEnds`, `LossEndsViewer` |

The type invariants of the assembler, the frame hand-over, the relay, the
installation and `AvcRecovery` are theorems of their own (`TypeCorrect`,
`FhTypeCorrect`, `AvTypeCorrect`). Those of `NalQueue`, `PairingWizard`,
`SessionLife`, `UdpReceiver` and `Feedback` are parts of `QueueIsFifo`,
`WizardIsTrue`, `PartsOutliveThreads`, `SlotsGoRound` and `RequirementKept`.

A run has no deadlock check where one of its parts comes to a legal end: a
bounded stream is used up, a viewer has returned, the clock is at its bound.

### RtpAssembler

State: the pool as a count per slot, the groups with their packets and
deadlines, `recently_flushed_`, `last_marker_seq_`, sequence tracking and NACK
sets. A call of `queue_packet` or `evict_stale` is a chain of steps driven by
`pc`; each step makes at most one callback. The Mac's stream is a constant
(packet index to access unit); the network delivers packets in any order, drops
any of them and repeats up to `MaxDup`.

* `SlotsConserved`: a slot is in the pool or in one group, never twice, never lost.
* `GapsAreAnnounced`: between two drops, the AVC units handed to the decoder are
  whole and consecutive. Everything behind the assembler relies on this.
* `EndsOnce`: a unit is flushed or dropped once, late repeats notwithstanding.
* `BoundedAge`: no group outlives its timers by more than one eviction period.
* `NackOnlyMissing`, `ExtendedSeqAdvances`: repair requests and the extended
  sequence number of receiver reports.

Bounds: five packets in units of 1, 3 and 1 over a sequence space of 16 that
wraps inside the second unit, four slots, four ticks of the clock and one
repeated packet. That is enough for a unit to be repaired, to time out and to be
overtaken by its successor. A second run, for HEVC, has two tiles that compete
for three slots. The run stops when the clock reaches its bound, hence no deadlock check.

### NalQueue

`push` and `pop` are two steps each (read indices and cell; store the own
index), so TLC interleaves the threads between them. The payload of a QueuedNal
is the number of the `feed_nalu` call that filled it. `Restarters` says which
threads call `restart()`.

The tx thread may restart the decoder at any time. `HeldOnceByWorker` (a
QueuedNal is in one place) and `DecodedInOrder` hold until a thread other than
the worker has restarted the decoder, which the history variable `foreign`
records. `QueueGetsOn` (liveness): again and again the worker stands before its
pop, and until such a restart the ring is then empty.

Two QueuedNals stand for 64: the rings run empty, full and wrap within the four
calls of the run. Fairness: every thread gets on with a call it is in; the
worker polls at least every 5 ms (`wait_for`); restarts are at least 3 s apart,
so the worker gets the lock in between (strong fairness on `Decode`).

### AvcRecovery

`reference_reset_pending_` and `await_key_` are set by the packet thread and by
the libav log hook, and cleared by the worker and by `restart()`. A unit is its
number and whether it is intra; a delta unit needs the unit before it. libav may
decode, conceal, refuse, or stay silent (which ends in `try_recovery`).

* `ConcealedNeverShown`: no concealed picture is published as long as libav logs
  the missing reference (`LibavReports`).
* `IntraUnfreezes`: once the worker is idle, an intra unit queued after the last
  break has been shown. Stale flags never freeze the picture for good.

Six units and a queue of two let a loss, an overflow and a restart fall on
every point of a decode call.

### FrameHandoff

One decoder-side process (whoever holds `codec_mu_`) with one step per critical
section, and the render loop. A frame is its index.

* `WaitReportsUnlessStalled`: a frame that may be taken is announced, unless the
  loop has just given up waiting for the swapchain (history variable `stalled`).
* `FreshAtDraw`: a draw shows at least what was announced when the wait returned.
* `ShownInOrder`: no tile goes back to an older frame, restarts included.
* `AnnouncedGetsDrawn` (liveness, under weak fairness of the loop and of a
  publish that has begun): an announced frame is drawn, or the swapchain stalls.

The run has two tiles and three frames of HEVC; the proofs cover both codecs.

### AudioRelay

Every relay handler runs under one mutex and is one action; commands to an agent
travel through its socket and are read later. Agents and clients die at any
time; datagrams are lost, late or repeated. The socket of a living agent is
assumed to take the two bytes of a renewal: a write that fails is not modelled. One unit of time is the ticker's
second.

* `StartedIsWanted`: only the agent the current subscriber asked for is started.
* `AgentFollows`: the commands under way lead each agent to what the relay noted.
* `ForwardedAsAsked`: audio goes only to the current subscriber and comes only
  from its account, however late the frame.
* `ExpiresInTime`, `DeadIsDropped` (liveness): a dead subscriber is dropped.
* `RenewalFindsAgent` (liveness): a subscriber that keeps renewing is served
  again after its agent went away, once agents have stopped coming and going.

Two agents and two subscribers; the account of an agent is known from its
connection only, so TLC has it chosen when the agent connects and one or two
accounts take part. Fairness: goroutines run; the ticker ticks; the client renews every
second for as long as it lives, so a lost renewal is followed by another (strong
fairness on `Renew` and `Tick`, whose sends are bounded by `MaxCmds`).

### TunnelInstall

The four files, the service (its state, its registered command line and what it
was started from) and the elevated process, with `pc` at its next operation.
Operations fail or not; the process may die before each of them, and while it
writes a file, which is then Torn. Between runs the machine reboots, the service
is stopped by hand, the program folder moves. Assumed: `stop_service` stops the
service within its 10 s, `DeleteFile` succeeds, and one elevated process runs at
a time. A write of the identity or of the state file that fails is the death of
the process, as both are outside the try block.

* `IdentityIsAPair`: two readable identity files are halves of one key pair.
* `InstallTakesEffect`: a run that succeeds, and found the service running what
  was on disk, leaves it running the new configuration from the current program.
  After a run that died before the restart this is not so: the next one finds
  the file unchanged and leaves the old configuration loaded.
* `RollbackRestores`: a failed run puts back service and configuration, except
  for a service that was running and for a configuration whose own write failed.
* `StateTellsConf`: between runs the state file tells what the configuration
  says, unless a process died or a write failed.

Two Macs and two identities: every run may change the configuration, and an
identity can be reset and made again.

### TunnelGate

What `scshr status` and the start of a session see of the tunnel. They read the
state file, the service, the routes and the driver one after the other, while
another process pairs, re-pairs or removes, dies half-way, services stop and other
software changes the routes. The writers of `TunnelInstall` appear here with the
steps a reader can tell apart.

* `SessionOnItsPairing`: the address handed to a session is the one the running
  tunnel is bound to, peer and AllowedIPs, whatever happened since the state was
  read; and no foreign route was there if nothing moved.
* `HealthyIsAdmitted`: a PC whose tunnel runs what its files say is not refused.
* `init_reconciles` (violation): the help of `init` promises that repeat runs
  reconcile the configuration. A re-pairing that fails its route audit puts the
  file back and leaves the running service with the new pairing; `init` with the
  old code then finds the file unchanged, does not restart the service and
  reports success, and sessions are refused until the service is restarted.

Three pairings: the same Mac at two addresses, and another Mac at the first.

### SrtpDecryptor and InitialBurst

The first packets of the video, received in any order that lets a packet overtake
one other, with one loss. `SrtpDecryptor` opens them: the roll-over count a packet
was sent with is the one its tag fits, and `Candidates` are the counts `decrypt`
tries. `InitialBurst` extends it by `gather_initial_burst`, which may be called
after any number of packets. A NAL is the list of packets it was joined from, so a
wrong join is visible.

* `EveryPacketOpens`: across the wrap, a gap of more than half the sequence space
  and reordering.
* `KeyFrameWholeUnlessWrap`, `IdrFirst`: a key frame that arrived whole is joined in
  sending order, and starts its tile anew.
* `NoneTwiceNoneForgotten`: a unit cut off by the end of the burst goes to the
  assembler with all its packets, and no packet goes both ways.
* `TilesBySsrc`: SSRCs are matched to tiles by rank; another quality tier next to
  them is left out.
* `burst_wrap` (violation): `KeyFrameWhole` without the exception. The sort "with
  wraparound awareness" subtracts the smallest number, which keeps the plain order.

Sequence space 8; streams start at index 0 or 6, so a tile's key frame lies before,
over or behind the wrap; both codecs; a gap of 0 or 5 packets.

### ControlChannel

`send_ctrl` on three threads with the lock, the seal and the write as steps, where
a write may fail; and the reader, to whom TCP delivers half records. The Mac may
skip counters within the window and need not count a record without a tag.

* `WireOrder`: counters rise along the wire.
* `EveryRecordRead`: a reader that the negotiation left at a record boundary has
  handed on every whole record once and in order.

`CtrWindow` is 2 for the code's 6, with counters skipped up to its end.

### UdpReceiver and SlotRing

`SlotRing` is the abstract specification: a slot has one owner, and ownership goes
round from the free list to the kernel, to the reader and back. `UdpReceiver`
implements it (`ImplementsRing`, a refinement with `owner` mapped from pool,
operations and completions), and adds `OneOwner`, `NeverDeaf`, `ParkedIsRetried` and
`StopReleasesThread`. Three slots for two operations and the reader let the pool run
dry. Fairness: the packet thread runs, and the assembler gives every slot back
again and again (strong fairness on `RxRelease`; `BoundedAge` of `RtpAssembler`).

### LockOrder, HwFallback, HevcRps, Renderer

* `LockOrder`: each handler is the sequence of locks on its longest path, libav's
  log hook included. `NoDeadlock`: no ring of waiting threads; `OrderKept`: one order
  for all.
* `HwFallback`: a card fails in one of several ways for the whole session.
  `BoundIsTrue`, `NeverBackToCard`, `BurstComplete` (the decoder that goes on has had
  the whole burst), `FailingCardIsLeft` (liveness, with the exception its comment
  names: a card that takes a short burst and then gives no frames).
* `HevcRps`: the picture order count from its low bits and the set of pictures.
  `ForetoldInFirstSequence`: a slice is reported exactly if its reference was lost.
* `Renderer`: textures are an address and a generation; an address is free again
  only when nothing holds it. `NeverQueued`, `CacheHitIsTrue`, `CloseEnds` (liveness).
  Three generations on three addresses with a cache of one, so an address
  is used again while the cache is full.

### Feedback, CanvasChange, KeyRouting, ClipboardShare, AudioSink

* `Feedback`: every interval is a timer that may expire at any moment, so all orders
  of the intervals are covered. `StickyRequirement`, `Recovery` (liveness: once nothing
  more goes wrong every tile recovers, past the cap of attempts),
  `EscalationResolved`, `FreshAttempts`. Two faults, one or two tiles. Fairness: the
  tx thread ticks, timers expire, the Mac answers.
* `CanvasChange`: `FollowsCalmMove`, `HarvestEnds` (both liveness). Two sizes, two moves of the
  user and one loss, both codecs. Parameter sets come again and again until one
  is collected (strong fairness on `PacketParams`): the Mac repeats them with each
  key frame, and the tx thread asks for key frames.
* `KeyRouting`: `NoStuckModifier`, `OnlyTypedHere`, with the foreground changing before
  the window is told. Left-hand modifiers only (see below).
* `ClipboardShare`: `MacCopyArrives`, `ExchangeSettles` (liveness): no echo goes on
  for ever. Three copies of two texts.
* `AudioSink`: `NeverLate`, `PlayedInOrder`, `StopReturns` (liveness).

### PairingWizard

The wizard with its worker, the launcher with the link check and the removal. A
command on the Mac takes effect or not and, independently, is reported, fails or times out.
The user cancels, or the process is killed, at any point. Two Macs.

* `ReadyIsPaired`, `SavedMeansPaired`, `BlockedIsReported`: what the user is told is so.
* `DialogOutlivesWorker`, `StatusIsLatest`: windows against their threads.
* `SetupSettles`, `CheckSettles` (liveness under fairness of worker and messages; an upload
  has no deadline and ends when it is cancelled).

### SessionLife

A run of the viewer: connect with every phase of the handshake, spawning, the
render loop, teardown. Every wait in the code has a time-out, which justifies weak
fairness of each thread. Two attempts and two re-queries.

* `ThreadsHaveTheirParts`, `NothingOutlivesViewer`: order of spawn and release.
* `OneConnection`, `CipherOfThisConnection`, `OfferMatchesSelection`, `FailsForAReason`: over
  authentication fallback, own session and reconnects.
* `ClosedWindowEnds`, `ConnectEnds`, `LossEndsViewer` (liveness).
* `session_loss` (violation): `EveryLossEndsViewer`. The TCP thread may clear
  `connected_` before `connect()` sets it; the loss is then never noticed.

## Proofs

All theorems hold for every value of the constants that satisfies the named
assumptions; the bounds of the runs (numbers of tiles, packets, attempts, Macs,
ticks) are constants too, so that a theorem covers behaviours of any length. The
argument is always an inductive invariant, whose parts TLC checked first where
they can be evaluated. The proofs of components that share nothing stand in one
module when they are about the same side of the system.

**`RtpTableProofs`, `RtpAssemblerProofs`** (`RtpAssembler`). The first holds the lemmas
about the operators (wrap-around arithmetic, the group table, the slots,
`group_complete`, `track_seq`), the second the theorems.

* `TypeCorrect`, `SlotsAreConserved`, `AvcGapsAreAnnounced` (`GapsAreAnnounced`). The
  invariant adds that every packet of a group is one of the stream's, and that
  between two drops `last_marker_seq_` is the marker of the unit flushed last. The
  core is `CompleteIsWhole`: a group that `group_complete` accepts holds every
  packet of its unit.
* `SequenceTracked` (`TracksSequence`). The invariant: a source is silent, or
  `max_seq` is the number of the newest packet that arrived and every packet to be
  asked for is older and has not arrived.
* `UnitsEnd` (`EndsOnceInTime`). The invariant bounds the age of a group by the
  time since `evict_stale` last came round, and keeps groups and remembered keys
  apart: a key that ended within `DedupTtl` is remembered, and has no group.
* Assumed: the stream is at most half the sequence space (`SeqAssumption`; a longer
  one reuses numbers), a unit's packets are consecutive (`StreamAssumption`), and
  the timers are positive (`TimerAssumption`).

**`NalQueueProofs`**: `QueueStaysFifo` (`QueueIsFifo`), for any pool of QueuedNals. First
what `push` and `pop` do to one ring of any size, loads and stores apart; then the
invariant, which says for each place of each thread where every QueuedNal is, and
which numbers the two rings hold. `QueueAssumption`: the pool is finite and not empty.

**`ReceiverProofs`**:

* `SlotsAreKept` (`SlotsGoRound`), `ReceiverImplementsRing` (`ImplementsRing`: the
  initial state maps to one of `SlotRing`, every step to a move or a stutter).
  `RxAssumption`: finitely many operations.
* `PacketsOpen` (`EveryPacketOpens`), for any even range of the sequence number. The
  invariant: every packet on its way, and the newest of each stream, lie within the
  stretch the streams use. The core is `CountIsFound`: the four candidates of
  `decrypt` contain the count of every packet that is at most one and a half turns
  from the newest one, which is what `SrtpAssumption` asks of gaps, and no more.
* `RecordsStayInOrder` (`RecordsInOrder`), for any set of sending threads and any
  counter window. Sending: who holds the lock has the greatest counter. Reading:
  there is a sequence of counts, one per record, that the decryptor's counter
  follows, and what is buffered and what TCP has not delivered are the cells after
  the last record handed on. `ReadsWhole` is an induction over the records of one
  read, by the least record at which `decrypt_stream` would go wrong.

**`DecoderProofs`**:

* `AvTypeCorrect`, `ConcealedStaysHidden` (`ConcealedNeverShown`), `IntraComesThrough`
  (`IntraUnfreezes`). The invariant adds that the codec lock excludes `decode_one`
  from `restart()`: only `restart()` could clear the mark between libav's log
  message and `publish()`; and what the two flags say of the units still queued.
* `FallbackKeepsBurst` (`FallbackIsSound`), `CardNotAskedAgain` (`NeverBackToCard`).
* `TrackerForetells` (`ForetoldInFirstSequence`). The invariant: the tracker has seen
  what the decoder was given, and its lsb and msb are those of the picture given
  last. `RpsAssumption`: the range of the low bits is even.
* `RequirementsKept` (`RequirementKept`), for any number of tiles and attempts. The
  invariant is the type and that an IDR is noted only for a tile that requires
  one; `Steps` is what every handler may do to the gate.

**`HandoffTunnelProofs`**:

* `FhTypeCorrect`, `UntakenIsReported` (`WaitReportsUnlessStalled`), `DrawsFresh`,
  `DrawsInOrder`, and the three together as `PicturesFlow` (`DrawsFreshInOrder`). The
  invariant adds that indices grow along the path slot -> loop -> screen, and that
  wiped slots are empty.
* `TypeCorrect`, `IdentityPairs`, `TakesEffect`, `RollsBack`, `StateFollows`,
  `InstallsWholly` (`InstallIsWhole`). The invariant says for each place in the code
  which files are written, what the service has been given and what is left to put
  back.
* `GateStaysRight` (`GateIsRight`). The invariant says what a reading command knows of
  the machine as long as nothing moved since it read.

**`MediaProofs`**:

* `TypeCorrect`, `NobodyIsTapped`, `AgentsFollow`, `Expires`, `RelayIsObeyed`
  (`AgentsObey`), `ForwardsAsAsked`. The invariant adds that the active agent is of the
  account asked for, and that an over-age subscription is one the ticker has not
  looked at yet.
* `RendererIsCurrent` (`FramesAreCurrent`). The invariant adds that a cached view is
  filed under its own address, and the types of the swap chains.
* `NoneStaysDown` (`NoStuckModifier`, for `Side = {"left"}`; for right-hand keys it is
  false, see below), `TypedHereOnly` (`OnlyTypedHere`).
* `SoundKeepsOrder`: `NeverLate` and `PlayedInOrder`, the safety half of `SoundInOrder`.
  The invariant: the queue is in the order it was fed, and newer than everything
  that was written.

**`SessionLifeProofs`**:

* `ThreadsWithinParts` (`PartsOutliveThreads`), `HandshakeCoheres` (`HandshakeIsCoherent`).
  The invariant says, by the places of the helper thread, of the UI thread and of
  `teardown()`, what the handshake has said on which connection, which threads run,
  which members exist, and why `connect()` fails. `LifeAssumption`: at least one
  attempt and one query.
* `WizardTellsTruth` (`WizardIsTrue`), for any set of Macs. The invariant says, for
  each step `run_setup` comes to, what the Mac, the tunnel and the settings are.

### Only model-checked

* All liveness (`AnnouncedGetsDrawn`, `RelayRecovers`, `QueueGetsOn`,
  `ReceivesUntilStopped`, `FailingCardIsLeft` in `CardIsLeft`, `CloseEnds`, `GateRecovers`,
  `CanvasSettles`, `ClipboardSettles`, `StopReturns` in `SoundInOrder`, `PagesSettle`,
  `ViewerEnds`): fairness and ENABLED are out of the prover's reach.
* `BurstIsKept`: what the sort and the nested folds of `gather_initial_burst` compute
  for packets in any number and order needs induction over data.
* `LocksInOrder`: the model has no constants; TLC's run is exhaustive.

## Mutants

Each property has a mutant of the code under which TLC finds it violated. The
mutants stand before the definitions they replace, marked "Mutant". For a
conjunction `PROJECT.json` lists one of them; the modules hold one for each part.

## Statements that do not hold

Beside the three violation runs, these statements of comments and documents are
stated in the modules and refuted by TLC on the models. The runs check what
is left of them when the case below is excepted.

| statement | says | what happens |
|---|---|---|
| `HeldOnce` (`NalQueue`) | `common/ring.h`: one producer, one consumer | `restart()` on the tx thread drains the ring the worker pops: a QueuedNal is decoded by one and given back by the other |
| `WaitReportsUntaken` (`FrameHandoff`) | an untaken frame is reported by the next wait | the 50 ms swapchain wait times out after `wait_for_frame` has lowered its flag |
| `NeverFeedsPartial` (`RtpAssembler`) | "never feed a partial access unit" | HEVC flushes at the marker; first packets that come after it are not missed |
| `GatedUntilNextIntra`, `DropArmsRecovery` (`AvcRecovery`) | after a loss deltas wait for an intra unit; a drop arms recovery | an intra unit queued before the loss clears its flags; deltas dropped while an intra unit is queued arm nothing |
| `NothingCut` (`ControlChannel`) | "CBC must consume every received block" (`record_layer.cpp:48`) | the negotiation drops the rest of a record (`negotiation.cpp:163`, `:177`, `:194`) |
| `ScreenFollowsWindow` (`CanvasChange`) | "Resize the window and the Mac's screen follows" (`docs/USER-GUIDE.md:61`) | a layout that answers an earlier request makes the present window size count as advertised (`viewer.cpp:331`) |
| `FedWithItsParams` (`CanvasChange`) | "do not feed new-canvas slices under the old SPS" (`session.cpp:410`) | a second change announced while the first is handled is forgotten |
| `ConcealmentForetold` (`HevcRps`) | "Will this slice conceal?" (`hevc_rps.h:2`) | an IDR of the stream does not go through the tracker (`decoder.cpp:304`), which keeps the pictures of the old sequence |
| `NoStuckModifier` with `Side = {"left", "right"}` (`KeyRouting`) | "so the host doesn't see a stuck Cmd/Ctrl" (`keyboard_hook.cpp:30`) | left-hand keysyms are released for right-hand keys |
| `CopyCanBePasted` (`ClipboardShare`) | "Text you copy on one side can be pasted on the other" (`docs/USER-GUIDE.md:82`) | a text equal to the one received last is not sent, although the Mac's clipboard has changed since (`session.cpp:756-761`) |
| `AnyFailurePutsMacBack` (`PairingWizard`) | "any failure has to put the Mac back" (`setup.cpp:229`) | the cancel that ends the run also ends the waits of the undo |
| `InputUsesLiveChannel` (`SessionLife`) | "Input (any thread; serialised on the record layer)" (`session.h:108`) | `teardown()` releases the channel an input event is using |

## Not modelled

* Ciphers, big-number arithmetic, byte-level encodings (`crypto.cpp`, `offers.cpp`,
  `bplist.cpp`, `rfb.cpp`, `pairing.cpp`): pure functions of bytes, for unit tests.
* Bit-level parsing of parameter sets and slice headers: data. The models start
  from what the parse decides.
* Direct3D, CoreAudio, libav and Win32 beyond what the code relies on of them.
* Arguments, window layout, dialogs' validation, logging, replay mode and the
  programs under `src/tools` that test and record.
* The Mac's audio agent and tunnel daemon: environment of `AudioRelay`.
* The cursor cache: filled and read by one thread.
* Adoption of a new SSRC group in mid-stream, and data races on containers
  (`nack_pending_`, `ssrc_to_tile_`): the latter are undefined behaviour without
  a set of outcomes to choose from.

## Next steps

1. Adoption of SSRCs in mid-stream, on top of `SrtpDecryptor`.
2. The decode queue as an implementation of an abstract FIFO; `QueueIsFifo` states
   the order through history variables.
