----------------------------- MODULE TrackClock ------------------------------
(***************************************************************************)
(* The elapsed clock of main.cpp: a wall clock started when a track is     *)
(* ready, set back to zero by the play thread when it sees the renderer    *)
(* PLAYING.  By it the audio thread knows when to send STMd and when the   *)
(* track is expected to end, which the restart between two formats waits   *)
(* for.  Here time passes: Tick moves every clock and the renderer.        *)
(* The flags, the rings and the stops are in StreamControl, where the same *)
(* waits end at any time.                                                  *)
(***************************************************************************)
EXTENDS Integers

CONSTANTS Second,       \* ticks of a second
          MaxNumber,    \* bound: tracks of the chain
          Lengths,      \* how long a track may be, in ticks
          MaxPauses,    \* bound: strm-p
          Prompt        \* no time is lost between a track's clock and the renderer's
                        \* PLAYING, and the first poll sees it

ASSUME ClockAssumption ==
    /\ Second \in Nat \ {0} /\ MaxNumber \in Nat \ {0} /\ Lengths \subseteq Nat
    /\ MaxPauses \in Nat /\ Prompt \in BOOLEAN

Number  == 1..MaxNumber
Albums  == [Number -> [format : {"flac", "mp3"}, length : Lengths]]
Longest == CHOOSE n \in Lengths : \A m \in Lengths : m <= n
NoEnd   == -1

VARIABLES
    album,      \* the tracks LMS sends: content type and length
    number,     \* the one the audio thread is at
    audioPc,    \* where the audio thread is
    clock,      \* now - playStartNs; it may stop at the longest track
    expected,   \* prevTrackEndTime - now, 0 once it is past; NoEnd: unknown
    telling,    \* the play threads: the track each is for, and where it is
    rend,       \* the renderer: state, track, what is left of it, next track
    pauses,     \* strm-p so far
    synced      \* the tracks whose clock began with the renderer

clockVars == <<album, number, audioPc, clock, expected, telling, rend, pauses, synced>>

\* durationSec: whole seconds, and only some formats tell.
KnownLength(n) == (album[n].length \div Second) * Second
Timed(n)    == album[n].format = "flac" /\ KnownLength(n) > 0

ClockInit ==
    /\ album \in Albums /\ number = 1
    /\ audioPc = "publish" /\ clock = 0 /\ expected = NoEnd
    /\ telling = {} /\ pauses = 0 /\ synced = {}
    /\ rend = [state |-> "stopped", track |-> 0, left |-> 0, next |-> 0]

-----------------------------------------------------------------------------
(* Time and the renderer.                                                  *)

\* The renderer at the end of its track: the next one, or nothing.
AfterTrack ==
    IF rend.next = 0 THEN [rend EXCEPT !.state = "stopped", !.left = 0]
    ELSE [rend EXCEPT !.track = rend.next, !.left = album[rend.next].length, !.next = 0]

Tick ==
    /\ Prompt => telling = {} /\ audioPc \notin {"play", "setNext"}
    /\ clock' = IF clock < Longest THEN clock + 1 ELSE clock
    /\ expected' = IF expected > 0 THEN expected - 1 ELSE expected
    /\ rend' = IF rend.state # "playing" THEN rend
               ELSE IF rend.left > 1 THEN [rend EXCEPT !.left = @ - 1]
               ELSE AfterTrack
    /\ UNCHANGED <<album, number, audioPc, telling, pauses, synced>>

\* strm-p and strm-u.  The clock goes on.
Pause ==
    /\ pauses < MaxPauses /\ pauses' = pauses + 1
    /\ rend.state = "playing" /\ rend' = [rend EXCEPT !.state = "paused"]
    /\ synced' = {}
    /\ UNCHANGED <<album, number, audioPc, clock, expected, telling>>
Unpause ==
    /\ rend.state = "paused" /\ rend' = [rend EXCEPT !.state = "playing"]
    /\ UNCHANGED <<album, number, audioPc, clock, expected, telling, pauses, synced>>

-----------------------------------------------------------------------------
(* The play threads.                                                       *)

Telling(p, pcs) ==
    /\ telling' = (telling \ {p}) \cup {[p EXCEPT !.pc = c] : c \in pcs}
    /\ UNCHANGED <<album, number, audioPc, expected, pauses>>

TellUri(p) ==
    /\ p.pc = "uri" /\ Telling(p, {"play"})
    /\ rend' = [rend EXCEPT !.track = p.track, !.left = album[p.track].length, !.next = 0]
    /\ UNCHANGED <<clock, synced>>
TellPlay(p) ==
    /\ p.pc = "play" /\ Telling(p, {"poll"})
    /\ IF rend.state = "stopped"
       THEN /\ rend' = [rend EXCEPT !.state = "playing", !.left = album[rend.track].length]
            /\ synced' = synced \ {rend.track}
       ELSE rend' = [rend EXCEPT !.state = "playing"] /\ UNCHANGED synced
    /\ UNCHANGED clock

\* The store into playStartNs.  It is a local of the iteration for p's track:
\* once the next one has begun the store may meet the next one's, or nothing.
\* A track already given its expected end gains nothing by it.
Calibrate(p) ==
    \/ /\ clock' = 0
       /\ synced' = IF p.track = number /\ rend.track = number /\ audioPc # "gap"
                    THEN synced \cup {number} ELSE synced
    \/ p.track # number /\ UNCHANGED <<clock, synced>>
PollPlaying(p) ==
    /\ p.pc = "poll" /\ Telling(p, {})
    /\ rend.state = "playing" /\ Calibrate(p)
    /\ UNCHANGED rend
\* After 10 s, with a new generation, or with --no-play-calibration.
PollEnds(p) ==
    /\ ~Prompt
    /\ p.pc = "poll" /\ Telling(p, {})
    /\ UNCHANGED <<rend, clock, synced>>

-----------------------------------------------------------------------------
(* The audio thread, from the point where a track has its prebuffer.       *)

AudioGoes(from, to) ==
    audioPc = from /\ audioPc' = to /\ UNCHANGED <<album, pauses, synced>>

CrossFormat == number > 1 /\ album[number - 1].format # album[number].format

\* The clock starts, whatever the renderer is still playing.
Publish ==
    /\ AudioGoes("publish", IF number = 1 THEN "play" ELSE IF CrossFormat THEN "tail" ELSE "setNext")
    /\ clock' = 0
    /\ UNCHANGED <<number, expected, telling, rend>>

\* Slip: a shorter cap.
TailCapShort == 2 * Second
TailCap == 6 * Second

\* sleep_until(min(prevTrackEndTime, now + 6 s)); no sleep when unknown.
TailWait ==
    /\ AudioGoes("tail", "sleep")
    /\ expected' = IF expected = NoEnd THEN 0 ELSE IF expected < TailCap THEN expected ELSE TailCap
    /\ UNCHANGED <<number, clock, telling, rend>>
Restart ==
    /\ AudioGoes("sleep", "play") /\ expected = 0
    /\ rend' = [rend EXCEPT !.state = "stopped", !.next = 0]
    /\ UNCHANGED <<number, clock, expected, telling>>

SpawnPlay ==
    /\ AudioGoes("play", "stream")
    /\ telling' = telling \cup {[track |-> number, pc |-> "uri"]}
    /\ UNCHANGED <<number, clock, expected, rend>>
SetNext ==
    /\ AudioGoes("setNext", "stream")
    /\ rend' = [rend EXCEPT !.next = number]
    /\ UNCHANGED <<number, clock, expected, telling>>

\* LMS has sent all of it; the last three seconds by the clock; STMd.
StreamEof ==
    /\ AudioGoes("stream", "near")
    /\ UNCHANGED <<number, clock, expected, telling, rend>>
NearEnd ==
    /\ AudioGoes("near", "gap")
    /\ Timed(number) => clock >= KnownLength(number) - 3 * Second
    /\ expected' = IF ~Timed(number) THEN NoEnd
                   ELSE IF clock < KnownLength(number) THEN KnownLength(number) - clock ELSE 0
    /\ UNCHANGED <<number, clock, telling, rend>>
\* The next track, if LMS sent one in time; until it is ready time passes.
Chain ==
    /\ AudioGoes("gap", "publish")
    /\ number < MaxNumber /\ number' = number + 1
    /\ UNCHANGED <<clock, expected, telling, rend>>

ClockNext ==
    \/ Tick \/ Pause \/ Unpause
    \/ \E p \in telling : TellUri(p) \/ TellPlay(p) \/ PollPlaying(p) \/ PollEnds(p)
    \/ Publish \/ TailWait \/ Restart \/ SpawnPlay \/ SetNext \/ StreamEof \/ NearEnd \/ Chain

ClockSpec == ClockInit /\ [][ClockNext]_clockVars

-----------------------------------------------------------------------------
(* Properties.                                                             *)

\* What the renderer has still to play of track n.
Unplayed(n) ==
    CASE rend.state = "stopped" -> 0
      [] rend.state # "stopped" /\ rend.track = n -> rend.left
      [] rend.state # "stopped" /\ rend.track # n ->
           IF rend.next = n THEN album[n].length ELSE 0

Restarts == audioPc = "sleep" /\ audioPc' = "play"

\* A restart between formats cuts less than a second of the track before: of one
\* of known duration whose clock was set to zero by its own PLAYING before the
\* end was computed, if LMS has not paused it (main.cpp:693, 889-911, 1094-1101).
\* The fraction is what durationSec drops.
TailWithinASecond ==
    [][Restarts /\ number - 1 \in synced /\ Timed(number - 1)
         => Unplayed(number - 1) < Second]_clockVars

\* A restart between formats cuts nothing of a track of known duration ("so the
\* Stop doesn't cut the current track's tail", main.cpp:693).
TailKept ==
    [][Restarts /\ Timed(number - 1) => Unplayed(number - 1) = 0]_clockVars
=============================================================================
