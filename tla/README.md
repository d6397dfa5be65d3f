# slim2UPnP in TLA+

slim2UPnP makes a UPnP renderer look like a Squeezebox to Lyrion Music Server
(LMS). It takes the compressed stream LMS sends, does not decode it, keeps a
few seconds of it in a ring buffer, and serves that buffer over HTTP to the
renderer, which it drives with SOAP calls. What is difficult is not the data but
the threads: a slimproto thread that must always answer LMS, an audio thread per
stream, detached play threads, two HTTP server threads, a watchdog, libupnp's
event threads, a main thread that reconnects, and a renderer and an LMS that act
when they like.

This directory holds TLA+ modules of that program, configurations that
model-check them with TLC, and proofs checked with TLAPS. All paths are relative
to the repository root; the C++ sources are in `src/` there (`src/main.cpp` is
written `main.cpp` below).

## 1. Inventory

| Component | State | Operations | What makes it hard | What makes it correct |
|---|---|---|---|---|
| **Stream control** (`main.cpp:540-1285`) | `audioTestRunning`, `audioThreadDone`, `audioTestThread`, `streamGeneration`, `pendingNextTrack`, `hasPendingTrack`, `currentSlot`, `httpStream`, and the audio thread's locals | strm-s (seek wait, gapless queue, cold start), strm-q, strm-f, strm-p, strm-u; the track loop; play threads; `stopAudioThread` | four kinds of threads share plain flags; waits with time limits after which a thread is detached but not ended; the order of ring resets, renderer calls and slot switches | one audio thread at a time, and what is left of that once a wait has expired; no join that waits; one track to a ring; a chained track goes to the slot the renderer does not play; a stop ends everything; the tail of a track is heard |
| **Elapsed clock** (`main.cpp:868-975`, `1059-1104`) | `playStartNs`, `prevTrackEndTime` | start when a track is ready, calibration by the play thread, STMd and the expected end by the clock | the clock starts before the renderer does; it is a local of a loop iteration another thread writes to | a change of format waits until the renderer has played the track before |
| **AudioHttpServer** (`AudioHttpServer.cpp`) | ring buffer and positions, `m_endOfStream`, `m_readyToServe`, `m_passthroughMime`, `m_contentLength`, `m_running`, `m_clientSocket` | `setFormat`, `writeAudio`, `setReadyToServe`, `signalEndOfStream`, `reset`, `stop`; `serverLoop`, `handleClient` | `reset` runs on one thread while a second writes and a third sends; `m_endOfStream` is raised and lowered again; flags are read outside the lock | FIFO without loss; a connection carries one track with its own header; no wait outlives a stop |
| **Ring sizing and prebuffer** | `m_ringCapacity`, bytes prebuffered | `setFormat`'s `targetSize`, the prebuffer loop | nobody reads before the prebuffer is complete | the prebuffer fits |
| **Renderer readiness** (`UPnPController.cpp`) | `m_ready`, `m_lostAt`, the renderer's description, `m_discoveryMatch`, `m_discoveryFound`, `m_mutex` | start-up by name, UUID or URL, search results, ALIVE, BYEBYE, watchdog probe, `rediscoverIfLost`, SOAP actions that cannot connect | three writers without a common lock; coming back is two stores; late search results; a match by substring | a lost renderer is searched again and found; only what was asked for is adopted |
| **SOAP actions** (`UPnPController.cpp`) | `m_mutex` | SetAVTransportURI, SetNextAVTransportURI, Play, Pause, Stop, volume | a mutex is held through a blocking call | order of the calls as the renderer sees them |
| **Connection loop** (`main.cpp:1296-1413`) | `connectionCount`, backoff, `g_running` | wait for the renderer, connect to LMS, watch both, stop, disconnect, join, shut down | loss of either side, or a signal, in the middle of a command | sessions do not overlap; offline when the renderer is gone, online when it is back; a signal ends the program |
| **SlimprotoClient** | socket, `m_running`, `m_sendMutex` | connect, HELO, `run` (receive, dispatch, answer), disconnect, sendStat | three threads send; a frame arrives in pieces and may leave in pieces | commands in order and whole; frames not interleaved; heartbeats answered |
| **HttpStreamClient** | socket, `m_connected`, ICY interval and counter | connect, `readWithTimeout`, disconnect | data cut anywhere, metadata blocks, hang-up with data pending, disconnect by another thread | audio bytes only, all of them; the reader comes back |
| **Volume forwarding** (`main.cpp:1225-1263`) | `volTargetPct`, `volLastAudgNs` | audg, forwarding thread | two atomics that belong together; calls that fail; a renderer that comes back with another volume | the last level arrives |
| **Track headers** | none | container detection, `parseTrackInfo`, WAV and DSF headers, the decision for a cold restart | offsets, bit fields, 32-bit sizes | served under the right MIME type; a change of format is seen |
| **LMS discovery, command line** | the configuration | `parseArguments`, `main`'s use of it, UDP discovery | options with and without values | each option has its effect |
| Decoders, DSD conversion | - | - | not built since the passthrough version (`CMakeLists.txt:115-122`) | not modelled |
| Web UI, install scripts, packaging, logging | a settings file | - | separate programs; wording | not modelled |

How they interact. `main` finds the renderer and LMS and loops: it waits until
the renderer is ready, registers the player with LMS, and starts the thread of
`SlimprotoClient::run`; when LMS or the renderer is lost it stops the stream,
disconnects and joins that thread. LMS sends a command; `run` calls the stream
callback on its thread. A cold strm-s stops the renderer, joins the old audio
thread, resets both servers, connects to LMS and starts an audio thread. That
thread fills the ring of the current slot, marks the server ready, and starts a
detached play thread that tells the renderer the URI and Play. The renderer
connects to the server and drains the ring. Near the end the audio thread sends
STMd; a strm-s that comes while it lives is queued, and the thread goes on with
it in the *other* slot: with SetNextAVTransportURI in the same format, with a
Stop and a fresh Play in another. strm-q and the loss of LMS or of the renderer
stop all of this from other threads. Every SOAP action, whoever calls it, goes
through `m_mutex` and marks the renderer lost when it cannot connect or gets a
bad response (three error codes, `UPnPController.cpp:871-872`; a timeout or a
SOAP fault does not); the watchdog and libupnp's threads bring it back.

The full list of hazards, each at its line with the properties that cover it, is
in `PROJECT.json` under `hazards`.

## 2. Modules

| Module | Contents |
|---|---|
| `ByteQueue` | abstract: a bounded FIFO queue of bytes |
| `RingBuffer` | `ringAvailable`, `ringFree`, `ringWrite`, `ringRead`, `reset`, `setFormat` on the ring, as operators |
| `RingQueue` | the ring as a specification of its own, with the bytes its callers hand in; implements `ByteQueue` |
| `RingSizing` | `targetSize` over every format a strm-s can code, and the prebuffer loop |
| `AudioHttpServer` | one server with its threads; contains `RingBuffer` by `INSTANCE` |
| `StreamControl` | stream callback, audio threads, play threads, main thread, renderer |
| `TrackClock` | the elapsed clock, the expected end of a track and the renderer, with time that passes |
| `UPnPController` | the renderer's readiness and everyone who writes it, SOAP actions and their mutex |
| `ConnectionLoop` | extends `UPnPController` with the main loop, the Slimproto thread, LMS's connection and the signal |
| `SlimprotoClient` | one session: frames in pieces both ways, dispatch, three senders |
| `HttpStreamClient` | one stream from LMS: header, audio, ICY metadata, hang-ups |
| `VolumeForwarding` | the volume callback and the forwarding thread |
| `TrackInfo` | pure functions on the headers of tracks |
| `Options` | `parseArguments` and what `main` does with the result |
| `RingBufferProofs`, `AudioHttpServerProofs`, `StreamControlProofs`, `ConnectionLoopProofs`, `SlimprotoProofs`, `HttpStreamClientProofs`, `InputProofs` | theorems, see section 5; `InputProofs` is about `RingSizing`, `TrackInfo` and `Options` |
| `Recursion` | lemmas: induction on numbers and on intervals, recursive functions, the layout of a flattened sequence |
| `MCComponents` | the components without shared state (ring, sizing, HTTP client, track headers, Slimproto, volume, options, clock) side by side in one specification |
| `MCAudioHttpServer`, `MCStreamControl`, `MCConnectionLoop` | instances, kinds of track, requests for TLC |

Operators with a comment that starts "Slip:" are not part of the model. Each is
a plausible mistake in the definition that follows it (a dropped guard, a
missing reset, a swapped order). With the slip in place of the definition a
property of a run fails, so the property does depend on that piece of code;
`PROJECT.json` lists the pairs under `mutants`.

### RingBuffer

`buf`, `cap`, `writePos`, `readPos` are the members; `sendBuf` is what the last
`ringRead` copied out. Every operation runs under `m_ringMutex`, so each is one
step. The copies are done in two pieces as in the code, and the refinement maps
the buffer to its unread bytes (`Contents`). `RingQueue` adds `data`, the bytes
the caller of `ringWrite` has in hand: with it the abstract queue must append
exactly those bytes, and a write that filled the ring up, which makes it look
empty, cannot pass for a clear.

### AudioHttpServer

A step is what a thread does between two points where another can tell the
difference: one critical section or one access to an atomic. Program counters
`serverPc`, `audioPc`, `slimPc`, `mainPc` and `resetPc` (one per caller of
`reset`) say where each thread is. `reset` is four steps, and an end of stream
that it raises and lowers again can be missed by whoever sleeps. Condition
variables wait with a time limit and recheck, so the wait is the guard of the
next step. A byte is a pair of track and position, which lets the properties say
where a byte came from. The metadata of a response (`m_passthroughMime`,
`m_contentLength`) is the track it describes. `sock` is the state of each of the
renderer's connections; `shut` is a socket after `shutdown()`.

This module assumes that the old audio thread has been joined before a new one
starts. `StreamControl` shows when that is so.

### StreamControl

Variables carry the code's meaning one to one (see the comments in the module);
`th[t]` holds the locals of audio thread `t`, named by its generation. The
server of a slot is abstracted to the set of tracks whose data is in its ring
(`fed`) and two flags. LMS's stream (`http`) is the track it carries and whether
it is connected. `asked` says that LMS may send the next strm-s (it was told
STMd, STMu, STMn or STMf, or has just registered the player).

Time is abstracted: it passes between any two steps. The waits for a tail
(`Sleep`) and for the last three seconds (`NearEndByClock`) may end whenever the
code is in them; `TrackClock` has the clock. So may the 500 ms of the seek wait
and the second of `stopAudioThread`, wherever the audio thread is: just born, on
LMS, in a SOAP call, in the wait for a tail of up to 6 s that nothing wakes. What
follows is as in the code: the thread is detached (`SeekExpire`, `MainExpire`)
and lives on. `orphans` is the history of the threads this happened to. A join
(`Joins`) is of the thread `audioTestThread` holds at that moment, whoever set
`audioThreadDone`, and returns when that thread has ended.

SOAP calls succeed here. The 10 s poll for PLAYING after a Play only moves the
clock: it is part of `PlayerPlay` here, and a step of its own in `TrackClock`. `httpStream`, a `shared_ptr` written by one
thread and read by two without a lock, is assigned in one step: the data race is
not shown.

### TrackClock

The part of the audio thread, the play thread and the renderer that the clock
connects. `Tick` moves the clock of the track (`clock`), the time to the expected
end (`expected`) and what the renderer has left of its track (`rend.left`); every
other step takes no time, and any time may pass before it. `Publish` starts the
clock; `PollPlaying` sets it back to zero when the renderer plays, and since
`playStartNs` is a local of one iteration of the loop, a late poll may hit the
next track's clock, or nothing (`Calibrate`). A duration is in whole seconds and
only FLAC has one here. `synced` is the history of the tracks whose clock began
with the renderer. `Prompt`, used for the run `tail_cut` alone, is a renderer
that starts at once. Stops, rings and lost connections are in `StreamControl`.

### UPnPController and ConnectionLoop

`UPnPController` has the renderer asked for (`a`), which may vanish with or
without a BYEBYE and start again with new control URLs and perhaps a new UUID,
and another one in the network (`b`). `bound` is the description in
`m_renderer`. What is searched for is a string that may be part of a name, in
upper or lower case, or of a UUID; `InName` and `InUuid` say of which (`Matches`,
`UPnPController.cpp:434-448`), and a string may match both renderers. A call reaches the renderer when its URLs are of the present start
(`Reachable`). `ready` and `lostAt` are `m_ready` and `m_lostAt`; the grace
period before a search is the step `GraceEnds`. The finder (`finderPc`) is the
main thread while it discovers at start-up and the watchdog afterwards: both
search, query the protocol info of what they found, and mark it ready in the
same order. Coming back is two stores, `m_ready` and then `m_lostAt`
(`Revive`/`Clear`, `AliveApply`/`AliveEnds`), since another thread may fail
between them. A SOAP action is the pair `SoapBegin`/`SoapEnd` with `m_mutex`
(`lock`) held between. One that fails marks the renderer lost or, with an error
other than the three of line 871, leaves it ready; once the network is quiet a
renderer that is gone cannot be connected to.

`ConnectionLoop` is the main thread from start-up to exit (`mainPc`), the
Slimproto thread (`slimPc`), the connection to LMS (`sock`), LMS that drops it,
and the signal handler. `again` is `connectionCount > 0`, which decides on the
backoff. `stopAudioThread` is its last call, the SOAP Stop; what it does to the
audio thread is in `StreamControl`.

### SlimprotoClient

`wire` holds the tokens of frames under way: two for the length, one for the
opcode, one or two for the payload. `Recv` takes any number of them up to what
`readExact` still wants. A frame to LMS is sent in two parts under
`m_sendMutex`; `sending[t]` is the frame and part a thread is at, and the mutex
is taken when no thread is sending. `calls` is the history of callbacks,
`received` the last part LMS got. The callbacks themselves return at once here.

### HttpStreamClient

A response is a sequence of items: header characters (`cr`, `lf` and others),
audio bytes with their position, length bytes and metadata bytes. `arrived` and
`taken` cut it anywhere. `untilMeta`, `discard` and `endSeq` are the code's
counters. LMS may close (`fin`) or reset the connection; another thread may stop
the reader and disconnect at any point of a read. `got` is the history of bytes
returned to the caller.

### VolumeForwarding, TrackInfo, Options

`VolumeForwarding` has the callback's two stores as two steps and the thread's
look at the target, at the age and the readiness, and its call as three. A
renderer that comes back has the volume it had or another (`Defaults`): its own,
or the 100 of --set-volume-100, which the rediscovery sends
(`UPnPController.cpp:300`) with --forward-volume too. A level
is what `slimGainToPercent` returns; that function, a logarithm, is left out.

`TrackInfo` builds the headers LMS would pass through (FLAC, DSF) as functions
from offsets to bytes, reads them back the way `parseTrackInfo` does, and
compares. `buildWavHeader` and `buildDsfHeader` are read by the same reference
readers. `detect` is the choice of the MIME type. Fields have their width, 64
bits too; the offsets at which a DSF file is read are those of the code, which are
wrong (section 4): `High` is the upper half of a number. `Holds` says which tracks there
are files of: FLAC has 20 bits for the rate and 36 for the samples, DSF 64 for
the size of the file.

`Options` has the loop of `parseArguments` as a function on the prefixes of the
arguments: the configuration so far, with the option whose value comes next in
`pending`. It runs over every line of options, among them values that look like
options, and compares what `main` does with what each option was given for.
Seven options stand for all.

## 3. Runs

Deadlock is not checked: tracks, connections, drops, starts and frames are
bounded, so every model comes to rest when nothing more is sent, and the program
itself ends after a signal. That threads do not wait for ever is what the
liveness properties show.

| Run | Bounds | Shows |
|---|---|---|
| `components` | ring: 2 byte values, capacities 3 and 5, reads and writes of 1 to 3; sizing: all 20 rates x 5 depths x 2 channel counts, raw or not, reads of 65536, 65535, 32768 bytes; HTTP: 4 bytes of audio, no metadata or a block of 0 or 2 bytes every 2, a header of two lines and one over the limit; track headers: 2 rates, depths 8 and 24, 1 or 2 channels; Slimproto: sessions of 3 frames of every kind, 1 STAT; volume: 3 changes between 2 levels; options: lines of 3; clock: 2 tracks of 4.5 s in ticks of half a second, 1 pause | index arithmetic and split copies at every offset; the prebuffer fits every ring; audio and nothing else out of an ICY stream however it is cut; formats seen and served as what they are; commands in order, frames whole, heartbeats answered; the last level arrives; options take effect; a calibrated track is heard to less than a second of its end |
| `server` | 2 tracks of 3 bytes, 2 connections, ring of 3 (holds 2), no shutdown | a track does not fit, so the writer blocks and writes in parts; the second track starts over the first; a second connection arrives in every phase of the first |
| `server_liveness` | 1 track of 2 bytes, ring of 2 (holds 1), 1 connection, with shutdown; `FairSpec` | a writer blocked on a full ring, a handler waiting for the prebuffer and one waiting for data all come free |
| `stream` | 3 strm-s, long tracks of 2 formats, the first of them FLAC, strm-p/u, one strm-q/f or one lost connection (`MaxCuts`); up to the first expired wait (constraint `UntilDetached`) | the invariants over cold starts, chains in the same and across formats, and stops, losses and pauses in between; the third track is the first that comes back to a used slot |
| `stream_liveness` | 3 strm-s of alternating formats, one strm-q/f or one lost connection, the latter after the last strm-s (`DropsLast`); waits expire at any time; `Fairness` | stops end and commands return, through the waits for a tail, with detached threads beside new ones; no thread is assigned over another |
| `bridge` | renderer `a` starts twice, with 2 UUIDs, renderer `b` beside it whose name contains `a`'s; asked for by nothing, URL, the string `b`, or the UUID of the first start; `FairSpec` | one session at a time; only what was asked for is adopted; offline, online and shutdown |
| `server_drain`, `seek_expires`, `stale_queue`, `play_after_stop`, `tail_cut`, `forgotten` | the smallest that show it | section 4 |

What an expired wait leads to grows fast, so `stream` stops there: its
invariants say "until a wait has expired", which are also the theorems, for any
number of expiries. `stream_liveness` goes on: after that `StopEnds` still holds,
and `OneAudioThread` that every living thread is the one held or a detached one.

`server`, `server_liveness` and `server_drain` share `MCAudioHttpServer`; the run
`server` uses the view `LiveState`, which drops the bytes of the ring outside
its contents (never read before they are overwritten) and `sendBuf` outside the
`send` step (never read there). No invariant except `TypeOK` mentions either,
and `TypeOK` only their type.

`components` checks eight components at once: a behaviour picks one in its
initial state (`part`), the others stay where they are. This is not a claim on
how they interact, which is only by the values one hands to the next.

What the properties say is in the comment above each of them. In short:

- `ConnectionCarriesOneTrack`, `RingHoldsOnlyThisTrack`, `HeaderMatchesBody`: a
  renderer never hears two tracks on one connection, or a track under another's
  MIME type. `RingOfOneTrack` says the same across HTTP streams and slots.
- `OneAudioThread`, `JoinBlocksAfterDetachOnly`, `SpawnIsSafe`: the life of audio
  threads. `WritesCurrentSlot`, `SlotKept` and `TailWithinASecond`: the
  alternation of slots and the end of a track.
- `SessionsDontOverlap`, `AdoptsOnlyMatches`, `OfflineWhenGone`, `OnlineWhenBack`,
  `ShutdownEnds`: the bridge as a whole.
- `DeliversAudio`, `DeliversAll`, `ReaderReturns`: what comes out of LMS's stream
  is its audio, all of it when LMS ends it in order, and a read ends.
- `CommandsInOrder`, `FramesWhole`, `HeartbeatAnswered`: the Slimproto session.
- `LastLevelArrives`, `FormatChangeSeen`, `ServedAsWhatItIs`, `StartsAsAsked`,
  `PrebufferNeverBlocks`, `SpaceAccounted`, `RefinesQueue`: as their names say.

Some properties have an exception written into them, since the code has it.

- `JoinBlocksAfterDetachOnly`, `RingOfOneTrack`, `WritesCurrentSlot` and half of
  `OneAudioThread` hold until a wait has expired; `CommandReturns` allows a join
  that waits for a running thread after that (`seek_expires`).
- `SlotKept` is about tracks longer than the ring (`fits = FALSE`) and the first
  stream: in a chain with a track shorter than what the renderer buffers, the
  third track resets the slot of the first while it is still being played
  (`main.cpp:706`), and in a later stream the play thread of an earlier one may
  still send its URI.
- `TailWithinASecond` is about a track whose clock began with the renderer and
  that was not paused; without the former it is `tail_cut`. A second, since
  `durationSec` drops the fraction.
- `AdoptsOnlyMatches` allows the move from one renderer to another when what is
  searched for matches both (`Unambiguous`), also without `-r`, when it is the
  renderer's own name.
- `OnlineWhenBack` allows `Unmatched`, a renderer asked for by UUID that has
  another now: the old one is searched for ever. And it allows `Forgotten`, a
  loss between the two stores of a recovery; `forgotten` shows it.
- `LastLevelArrives` allows a renderer that has strayed from the last answered
  call when LMS asks for that very level: the answer to a later call was lost, or
  it came back with another volume. Nothing is sent again (`main.cpp:1247`).

### Fairness

Weak fairness of each thread's steps: the threads are preemptive and nothing but
their own waits holds them. LMS owes nothing (`SlimCommand`, `StrmStop`,
`StrmStart`, `LmsCommands` have no fairness), nor does the operator who shuts
down, nor the renderer that may stay away (`ComesBack`, `Boot`). In `StreamControl`
the renderer that plays comes to the end of an ended stream, and the clock of a
long track need not get to its last three seconds (`NearEndByClock`): what is
shown to end must not wait for it. The 6 s of a tail do pass (`Sleep`).

In `AudioHttpServer` there is one assumption about the environment: the client's
socket has no time limit, so `recv` and `send` return only because a renderer
that has connected sends its request and reads, or goes away. A renderer that
does neither can hold `stop()` in its join, if it registers after `stop()` has
cut the registered client.

In `ConnectionLoop` the main thread and the finder have strong fairness. They
wait for `m_mutex`, which is free again and again but may be taken by another
each time; a `std::mutex` gives no promise, but each holder lets go for long
compared with a wake-up. Search results and ALIVE handlers, which wait for it
too, are treated the same. In `SlimprotoClient` weak fairness suffices: whoever
wants `m_sendMutex` gets it when the others have nothing more to send, and the
number of STATs is bounded.

## 4. Disagreements found

Six runs check a sentence of the repository that the code does not keep; the
details are in `PROJECT.json` under `findings`.

- `server_drain`: `handleClient` sees the ring empty under the lock and the end
  of the stream after it. A last write in between is never sent.
  `AudioHttpServer.h:114` says the ring "will drain then close".
- `seek_expires`: a thread detached after 500 ms lives on. The cold start that
  follows sets `audioTestRunning` again, which the old thread takes for its own;
  when it ends it marks the *new* thread done, and the next strm-s joins a
  running thread on the slimproto thread.
- `stale_queue`: a strm-s that comes when the audio thread has stopped waiting
  for one, but is not done, is queued to nobody. The entry survives and is played
  by the thread of a later strm-s.
- `play_after_stop`: strm-q leaves `streamGeneration` alone, so a play thread
  still in SetAVTransportURI starts the renderer after the stop.
- `tail_cut`: the clock of a track that is chained without a gap starts when its
  prebuffer is in, seconds before the renderer comes to it, and nothing calibrates
  it (`main.cpp:868`). After flac, flac the change to mp3 stops the renderer with
  the end of the second track still to play, against `main.cpp:693` and
  `CHANGELOG.md:6`.
- `forgotten`: a BYEBYE or a failing call between the store of `m_ready` and that
  of `m_lostAt` in a recovery (`UPnPController.cpp:271-274`) leaves no time of
  loss; `rediscoverIfLost` gives up at once, and a player whose ALIVE is missed
  or has another UUID stays offline, against `main.cpp:1302-1303`.

Three more have no run, since reading is enough:

- `main.cpp:333` reads the sample rate and count of a DSF file 24 bytes too early
  ("DSF: parse header for sample count and rate", `main.cpp:317`): it gets a rate
  of 52 and a duration of 0. The header the program itself writes
  (`AudioHttpServer.cpp:397-406`) has them at the right offsets.
- `--renderer-uuid` is an "exact match" in `main.cpp:220` and `README.md:82`; the
  code takes a substring, of the name too (`UPnPController.cpp:439-447`). And the
  comment at `UPnPController.cpp:293` promises not to adopt another device, which
  a name that contains the first one's may be.
- `--forward-volume` "takes precedence over `--set-volume-100`" (`README.md:117`,
  `Config.h:39`), but `main.cpp:422` passes the latter on all the same, and every
  rediscovery sets 100.

## 5. Proofs

All theorems hold for every value of the constants that satisfies the modules'
assumptions.

| Theorem | From | Argument |
|---|---|---|
| `RingTypeCorrect`, `SpaceAlwaysAccounted` | `ZeroAssumption`, `SizeAssumption` | `RingTypeOK` is inductive by itself once `(p + n) % cap` is known to wrap at most once (`ModWrapsOnce`) |
| `RingRefinesQueue` | the same | with `RingTypeOK` as invariant, `WriteAppends` and `ReadTakes` show that the split copies are an append and a removal at the head of `Contents` |
| `CommandsAlwaysInOrder` | `ScriptsAssumption` | see below |
| `HttpTypeCorrect`, `AlwaysDeliversAudio`, `AlwaysDeliversAll` | `HttpAssumption` | see below |
| `FormatChangesAlwaysSeen`, `AlwaysServedAsWhatItIs` | `TrackAssumption` | see below |
| `AlwaysStartsAsAsked` | none | see below |
| `SizingTypeCorrect`, `PrebufferAlwaysFits` | `ReadSizesAssumption` | every frame is 1 to 8 bytes, so rounding down loses less than 8; `used = prebuffered` completes the invariant |
| `ServerTypeCorrect`, `OneTrackPerConnection`, `RingAlwaysOfThisTrack`, `HeaderAlwaysMatchesBody` | `ServerAssumption` | see below |
| `StreamTypeCorrect` | `StreamAssumption` | `TypeInv`: a thread is born only by a strm-s (`SpawnsCounted`), so the generation stays in its range; a living thread has a track |
| `SpawnAlwaysSafe` | `StreamAssumption` | `SpawnIsSafe` is inductive with the types; no assumption on timing |
| `AlwaysOneAudioThread`, `JoinNeverWaits` | `StreamAssumption` | see below |
| `AlwaysWritesCurrentSlot`, `RingAlwaysOfOneTrack` | `StreamAssumption` | see below |
| `SessionsNeverOverlap`, `AdoptsAlwaysMatch` | `BoundsAssumption`, `FiltersAssumption`, `RequestsAssumption` | see below |
| `FramesAlwaysWhole` | none | see below |

**One server.** None of the three safety properties of `AudioHttpServer` is
inductive. The invariant `ServerInv` has five parts. `ClientInv`: one client at
a time, registered except between accept and the store. `ControlInv`: who may be
in `reset`, and when the audio thread has bytes in hand. `ReadyInv` is where the
order in `reset` counts: it lowers `m_readyToServe`, then cuts the client, then
empties the ring, so that nobody is served (`Served`) from a slot whose next
track is not ready; under strm-q, where the audio thread may still be writing,
whoever is served gets nothing more of what it has in hand. `TrackInv`: what is
in the ring, taken from it and described is `track`. `FlowInv`: what the client
was sent (`Taken`), the ring's contents, the bytes in hand and the next byte
from LMS go on from one another without a hole, as long as the stream flows.
The ring enters only through `RingBufferProofs`: an action that touches it is an
append, a removal at the head or an emptying of `Contents`.

**One audio thread.** The invariant is `Inv == TypeInv /\ Held /\ (orphans = {}
=> Truthful)`; no assumption is made on how long anything takes. `Held` is what
survives an expired wait: a living thread is the one `audioTestThread` holds or
was detached, threads of generations to come are unborn, and the slimproto
thread has seen `audioThreadDone` where it joins and from there to the spawn.
`Truthful` is what an expired wait ends: the only living thread is the newest
and the one held, and `audioThreadDone` is false meanwhile. `OneAudioThread` is
not inductive without it: two threads share one done flag, so a thread that ends
must be known to be the only one. `ThreadsRest` covers every step of the
slimproto and main threads: they leave the handle alone, join what it holds or
detach it (`Leaves`). While no wait has expired, the lost connection and the
strm-s that the main thread meets in the middle are among the steps; after one
has, the part of the properties behind `orphans = {}` is false, which is the run
`seek_expires`.

**Slots and rings.** `SlotInv` is added to that invariant, until the first wait
expires (`SlotsUntil`; no step takes a thread back from `orphans`,
`OrphansStay`). It says of each point of the track loop which slot the thread
holds relative to `currentSlot` (`SlotRight`: the other one while it prepares a
chained track, the current one once it plays), and that `httpStream`, the chunk
in hand and the ring of its slot are all of its own track (`RingRight`).
`SpawnsOwn` carries this from the connect of a cold start to the birth of the
thread. The other threads preserve it because they change `currentSlot` or the
stream's track only when no thread is alive, which is what `Inv` gives
(`OthersKeepSlots`).

**Sessions and adoption.** `SessionInv` adds to `SessionsDontOverlap` who holds
`m_mutex` (`LockHeld`, with the handler of an ALIVE, which the property does not
mention) and the types of the network. `AdoptInv` says what a search or a
description in hand may lead to: the pattern in `m_discoveryMatch` is that of
the command line or the adopted renderer's name, and results are taken only once
for each search, so a late one can match only the renderer that is in use, or
another that the same string matches. What is part of which name or UUID is a
constant: `MatchesStays` shows that a renderer keeps matching the name it was
adopted under, `OneMatches` that an unambiguous string has one renderer.

**Frames.** `FrameInv`: one thread sends at a time (`OneSends`), a half-received
frame is one that is still being sent (`HalfIsSent`), and nothing is sent before
the link is open. A frame broken off is the last, because a link that has closed
never opens again in the session.

**Commands.** `CommandInv` says what is under way (`Flows`): each token in `wire` is
followed by the next one of its frame, or the first of the next frame, and the
last by what LMS will send next. So the first token (`Coming(1)`) fixes the rest.
`ReadingAt(i)` relates the reader to that token: it is inside frame `i` with so
many tokens of the piece it wants behind it, and the callbacks so far are those
of the frames before, or of frame `i` as well once it has been dispatched. The
property itself only says that there is some `n` up to which the callbacks have
been made; the invariant says which. `ScriptsAssumption` is that a session is a
sequence of frames of the known kinds.

**LMS's stream.** A response is flattened from blocks of audio and metadata, of
sizes the constants choose. `ResponseLaidOut` shows once that each response has a
*layout*: where block `k` begins and how much audio is before it. `HttpInv` then
says where the reader is: in the run of audio of some block, with `untilMeta`
bytes of it left, or in its metadata, with `discard` bytes left; and that what
has been handed on (`got`) is the audio among the bytes taken (`Delivered`).
Without the layout no invariant relates the code's two counters to the
response. `HeaderRight` says that `endSeq` counts the part of the empty line
just read, so the reader stops at the header's end and not after it, and
`StopRight` that a reader told to stop has a socket that is shut or about to be,
which `DeliversAll` needs. `HttpAssumption` is what a header is: an empty line at
its end and none before. TLC checked `HttpInv` and `CommandInv` as invariants on
the bounds of `components` before they were proved.

**Headers.** `Put16Read`, `Put32Read` and `Put64Read` show that a little-endian
field reads back as what was written, for the full width, and `WholeField` that
the fields of a header do not overlap; `FlacRead`, `WavRead` and `DsfRead` put
them together. `TrackAssumption` bounds what a track can be: a rate up to the
highest one there is, 1 to 8 channels and 1 to 32 bits, which is what the fields
of STREAMINFO hold, and a duration below 2^32 s, since `durationSec` has 32 bits.

**The command line.** `Done(opts, k, c)` describes the configuration after the
first `k` options as they were meant, not the arguments they came in: the parse
has ended exactly when one of them ends it, and for the reason of the first such
one; no value is awaited; and each option has the value of its last place.
`TakesOne` and `TakesTwo` show that one or two arguments keep this, `FlattenLayout`
where each option begins among the arguments, and `ParsedDone` is the induction.
It holds for any `MaxOptions`.

The library states induction with an operator as a parameter, which the provers
cannot instantiate. `Recursion` states it for a *set* of numbers instead, from
`WFMin` of the library, and derives from it that a function defined by primitive
recursion exists (`PrimitiveRecursion`) and what `FlattenSeq` returns
(`FlattenLayout`). The proofs about `FlattenSeq` and `parseArguments` rest on it.

Every invariant of a passing run is stated by a theorem, in the form the runs
check. `SlotKept` and `TailWithinASecond`, action properties, are only
model-checked, like all liveness (liveness under fairness and `ENABLED` are out
of the reach of the proof system). The six violated properties of section 4 are
not theorems, since the code does not keep them.

## 6. Assumptions and what is not modelled

- In `StreamControl` SOAP calls succeed; that a call fails, and what this does to
  the player, is in `UPnPController` and `ConnectionLoop`.
- LMS sends strm-s only when asked, or after a strm-q; it sends at most
  `MaxTrack` of them.
- The name and the UUIDs of a renderer do not change, apart from a new UUID with a
  new start of `a`; there are two renderers. At most one advertisement is under
  way. From a signal on the network is quiet. A third signal, which ends
  the process at once, is left out.
- The status line of LMS's HTTP response is ignored by the code, and has no
  counterpart. Raw PCM from LMS has no declared Content-Type.
- Fields of HELO and STAT (elapsed time, buffer counters, jiffies), the MAC
  address, URLs, SOAP and device description texts, `slimGainToPercent`: data
  nothing here depends on.
- The callbacks of `SlimprotoClient` return at once in its module;
  `CommandReturns` is about how they do in `StreamControl`.
- File descriptor numbers: closing a descriptor twice (`AudioHttpServer.cpp:124`
  and `:477`), or using one another thread has closed, is harmless in the model.
- `playStartNs`, a local of a loop iteration that the play thread writes later
  (`main.cpp:954`): a late store hits the clock of a later track or nothing; that
  the stack frame may be something else by then is not modelled.
- A join or detach of a `std::thread` that another thread joins at the same time
  is undefined behaviour; in the model the second does nothing.
- The volume thread's join and the stops of the two servers at the very end
  (`main.cpp:1405-1410`); that a server's `stop()` ends is `StopJoinsServer`.
- The UDP exchange that finds LMS is one step (`FindLms`).
- `scanRenderers` serves `--list-renderers`, prints and ends: no state.
- Components marked `not_modelled` in `PROJECT.json`, with the reasons there.

## 7. What is left

1. `StreamControl` with a renderer that has a queue of its own (a late
   SetAVTransportURI cancels the next URI), and with tracks shorter than the ring
   for `SlotKept`.
2. `StreamControl` composed with two `AudioHttpServer`s instead of its
   abstraction of them, as a refinement.
3. Proofs of `SlotKept` (under `fits = FALSE`), of `TailWithinASecond`, and of
   the refinement of point 2.
4. The elapsed time in STAT as two atomics (`SlimprotoClient.cpp:488`).
