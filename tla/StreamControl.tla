--------------------------- MODULE StreamControl ---------------------------
(***************************************************************************)
(* The stream callback of main.cpp and everything it shares:               *)
(*   - the slimproto thread: strm-s (seek wait, gapless queue, cold start),*)
(*     strm-q, strm-f, strm-p, strm-u;                                     *)
(*   - the audio threads: the passthrough track loop;                      *)
(*   - the play threads: the detached SetAVTransportURI and Play of a cold *)
(*     start or a change of format;                                        *)
(*   - the main thread: stopAudioThread when LMS or the renderer is lost;  *)
(*   - LMS, which asks for a next track when it was told to, and the       *)
(*     renderer, which plays a slot until its stream ends.                 *)
(* An AudioHttpServer is abstracted to the tracks in its ring and two      *)
(* flags (AudioHttpServer has the detail); LMS's HTTP stream to the track  *)
(* it carries and whether it is connected.  Time passes between any two    *)
(* steps: a timeout may expire whenever the code can be in the wait.       *)
(***************************************************************************)
EXTENDS Naturals, FiniteSets

CONSTANTS MaxTrack,    \* bound: strm-s commands LMS sends
          MaxCuts,     \* bound: strm-q commands and lost connections together
          Formats,     \* content types
          Kinds,       \* the kinds of track in this run
          Events       \* what happens besides strm-s

\* A kind of track: its content type, whether its duration is known, and
\* whether all of it fits in the ring.
ASSUME StreamAssumption ==
    /\ MaxTrack \in Nat \ {0}
    /\ MaxCuts \in Nat
    /\ Kinds \subseteq [format : Formats, timed : BOOLEAN, fits : BOOLEAN]
    /\ Events \subseteq {"stop", "pause", "drop"}

Track  == 1..MaxTrack
Thread == 1..MaxTrack      \* an audio thread is named by its generation
Slot   == {0, 1}
NoSlot == 2

VARIABLES
    running,       \* audioTestRunning
    done,          \* audioThreadDone
    handle,        \* the thread audioTestThread holds; 0 when not joinable
    generation,    \* streamGeneration
    pending,       \* pendingNextTrack: a track, or 0
    hasPending,    \* hasPendingTrack
    currentSlot,   \* currentSlot
    http,          \* httpStream: the track it carries, and whether connected
    slots,         \* servers: the tracks in the ring, whether it may be full,
                   \* m_endOfStream, m_readyToServe
    kind,          \* the kind of each track LMS may send
    strm,          \* the track of the last strm-s
    asked,         \* LMS was told it may send the next track
    slimPc,        \* where the slimproto thread is
    orphans,       \* history: the threads detached before they had ended
    th,            \* the audio threads
    players,       \* the play threads
    rend,          \* the renderer: transport state, current and next URI
    mainPc,        \* where the main thread is
    cuts           \* strm-q commands and lost connections so far

flags   == <<running, done, handle, generation, orphans>>
queue   == <<pending, hasPending>>
lms     == <<kind, strm, asked>>
mains   == <<mainPc, cuts>>
vars    == <<flags, queue, currentSlot, http, slots, lms, slimPc, th, players,
             rend, mains>>

EmptySlot == [fed |-> {}, full |-> FALSE, eos |-> FALSE, ready |-> FALSE]

\* A thread that is not there: not yet spawned, or ended.
Absent(p) == [pc |-> p, track |-> 0, slot |-> 0, first |-> TRUE, eof |-> FALSE,
              pre |-> FALSE, chunk |-> 0, prev |-> 0, tail |-> FALSE]
Alive == {t \in Thread : th[t].pc \notin {"unborn", "dead"}}

Init ==
    /\ running = FALSE /\ done = TRUE /\ handle = 0 /\ generation = 0 /\ orphans = {}
    /\ pending = 0 /\ hasPending = FALSE /\ currentSlot = 0
    /\ http = [track |-> 0, open |-> FALSE]
    /\ slots = [s \in Slot |-> EmptySlot]
    /\ kind \in [Track -> Kinds] /\ strm = 0 /\ asked = TRUE
    /\ slimPc = "idle"
    /\ th = [t \in Thread |-> Absent("unborn")]
    /\ players = {}
    /\ rend = [state |-> "stopped", uri |-> NoSlot, next |-> NoSlot]
    /\ mainPc = "run" /\ cuts = 0

-----------------------------------------------------------------------------
(* The servers and the renderer, as the threads call them.                 *)

\* signalEndOfStream of slot s.
SignalEos(s) == slots' = [slots EXCEPT ![s].eos = TRUE]

\* reset() of both slots.
ResetBoth == slots' = [s \in Slot |-> EmptySlot]

RendererStop == rend' = [rend EXCEPT !.state = "stopped", !.next = NoSlot]
RendererPlay ==
    rend' = [rend EXCEPT !.state = IF rend.uri = NoSlot THEN @ ELSE "playing"]

\* The renderer takes data from slot s.
Reading(s) == rend.state = "playing" /\ rend.uri = s

\* It comes to the end of its stream, or the stream is gone.
RendererEnds ==
    /\ \E s \in Slot : Reading(s) /\ (slots[s].eos \/ ~slots[s].ready)
    /\ rend' = IF rend.next = NoSlot
               THEN [rend EXCEPT !.state = "stopped"]
               ELSE [rend EXCEPT !.uri = rend.next, !.next = NoSlot]
    /\ UNCHANGED <<flags, queue, currentSlot, http, slots, lms, slimPc, th,
                   players, mains>>

-----------------------------------------------------------------------------
(* The slimproto thread.                                                   *)

SlimGoes(from, to) ==
    /\ slimPc = from
    /\ slimPc' = to
    /\ UNCHANGED <<kind, th, players, mains>>

Listening == mainPc \notin {"disconnect", "away"}

\* strm-s.  The two tests of the seek wait are one: only this thread and the
\* main thread change audioTestRunning, and seeing done the wait does nothing.
StrmStart ==
    /\ Listening /\ asked /\ strm < MaxTrack
    /\ SlimGoes("idle", IF ~done /\ ~running THEN "seek" ELSE "route")
    /\ strm' = strm + 1
    /\ asked' = FALSE
    /\ UNCHANGED <<flags, queue, currentSlot, http, slots, rend>>

\* Slip: no wait, whether or not there is a thread.
SeekSkipAlways ==
    /\ SlimGoes("seek", "route")
    /\ done' = TRUE
    /\ UNCHANGED <<running, handle, generation, orphans, queue, currentSlot, http,
                   slots, strm, asked, rend>>

\* Not joinable: nothing to wait for.
SeekSkip ==
    /\ SlimGoes("seek", "route")
    /\ handle = 0
    /\ done' = TRUE
    /\ UNCHANGED <<running, handle, generation, orphans, queue, currentSlot, http,
                   slots, strm, asked, rend>>

SeekWait ==
    /\ SlimGoes("seek", "seekWait")
    /\ handle # 0
    /\ UNCHANGED <<flags, queue, currentSlot, http, slots, strm, asked, rend>>

SeekDone ==
    /\ SlimGoes("seekWait", "seekJoin")
    /\ done
    /\ UNCHANGED <<flags, queue, currentSlot, http, slots, strm, asked, rend>>

\* join() of the thread audioTestThread holds, whoever set audioThreadDone.
Joins == /\ \A t \in Thread : t = handle => th[t].pc = "dead"
         /\ handle' = 0

SeekJoin ==
    /\ SlimGoes("seekJoin", "route")
    /\ Joins
    /\ done' = TRUE
    /\ UNCHANGED <<running, generation, orphans, queue, currentSlot, http, slots,
                   strm, asked, rend>>

\* The time is over, wherever the thread is (on LMS, in a SOAP call, in the wait
\* for a tail of up to 6 s): it is detached.
Detaches == handle' = 0 /\ orphans' = orphans \cup ({handle} \ {0})

\* 500 ms; then it counts as done.
SeekExpire ==
    /\ SlimGoes("seekWait", "route")
    /\ ~done
    /\ Detaches
    /\ done' = TRUE
    /\ UNCHANGED <<running, generation, queue, currentSlot, http, slots, strm,
                   asked, rend>>

Route ==
    /\ SlimGoes("route", IF done THEN "rendererStop" ELSE "queue")
    /\ UNCHANGED <<flags, queue, currentSlot, http, slots, strm, asked, rend>>

\* The gapless path: connect ahead, tell LMS, publish under pendingMutex.
QueueFails ==
    /\ SlimGoes("queue", "idle")
    /\ asked' = TRUE                                              \* STMn
    /\ UNCHANGED <<flags, queue, currentSlot, http, slots, strm, rend>>

Queue ==
    /\ SlimGoes("queue", "idle")
    /\ pending' = strm                                      \* STMc, STMh
    /\ hasPending' = TRUE
    /\ UNCHANGED <<flags, currentSlot, http, slots, strm, asked, rend>>

\* The cold path.
ColdStop ==
    /\ SlimGoes("rendererStop", "join")
    /\ RendererStop
    /\ UNCHANGED <<flags, queue, currentSlot, http, slots, strm, asked>>

\* Slip: the old thread is not joined.
ColdJoinForgotten ==
    /\ SlimGoes("join", "reset")
    /\ UNCHANGED <<flags, queue, currentSlot, http, slots, strm, asked, rend>>

ColdJoin ==
    /\ SlimGoes("join", "reset")
    /\ Joins
    /\ UNCHANGED <<running, done, generation, orphans, queue, currentSlot, http,
                   slots, strm, asked, rend>>

ColdReset ==
    /\ SlimGoes("reset", "connect")
    /\ ResetBoth
    /\ currentSlot' = 0
    /\ UNCHANGED <<flags, queue, http, strm, asked, rend>>

\* connect() disconnects first.
ColdFails ==
    /\ SlimGoes("connect", "idle")
    /\ http' = [track |-> strm, open |-> FALSE]
    /\ asked' = TRUE                                              \* STMn
    /\ UNCHANGED <<flags, queue, currentSlot, slots, strm, rend>>

ColdConnect ==
    /\ SlimGoes("connect", "spawn")
    /\ http' = [track |-> strm, open |-> TRUE]
    /\ UNCHANGED <<flags, queue, currentSlot, slots, strm, asked, rend>>

\* Slip: audioThreadDone is not lowered for the new thread.
SpawnStillDone ==
    /\ slimPc = "spawn"
    /\ slimPc' = "idle"
    /\ running' = TRUE
    /\ generation' = generation + 1
    /\ handle' = generation + 1
    /\ th' = [th EXCEPT ![generation + 1] =
                [Absent("begin") EXCEPT !.track = strm]]
    /\ UNCHANGED <<done, orphans, queue, currentSlot, http, slots, lms, players, rend,
                   mains>>

\* The flags, the generation and the new thread.
Spawn ==
    /\ slimPc = "spawn"
    /\ slimPc' = "idle"
    /\ running' = TRUE
    /\ done' = FALSE
    /\ generation' = generation + 1
    /\ handle' = generation + 1
    /\ th' = [th EXCEPT ![generation + 1] =
                [Absent("begin") EXCEPT !.track = strm]]
    /\ UNCHANGED <<orphans, queue, currentSlot, http, slots, lms, players, rend,
                   mains>>

\* strm-q and strm-f: five steps.
StrmStop ==
    /\ "stop" \in Events /\ cuts < MaxCuts /\ Listening
    /\ slimPc = "idle" /\ slimPc' = "halt"
    /\ cuts' = cuts + 1
    /\ pending' = 0 /\ hasPending' = FALSE
    /\ UNCHANGED <<flags, currentSlot, http, slots, lms, th, players, rend, mainPc>>

StopHalt ==
    /\ SlimGoes("halt", "hangup")
    /\ running' = FALSE
    /\ UNCHANGED <<done, handle, generation, orphans, queue, currentSlot, http,
                   slots, strm, asked, rend>>

StopHangup ==
    /\ SlimGoes("hangup", "silence")
    /\ http' = [http EXCEPT !.open = FALSE]
    /\ UNCHANGED <<flags, queue, currentSlot, slots, strm, asked, rend>>

StopRenderer ==
    /\ SlimGoes("silence", "flush")
    /\ RendererStop
    /\ UNCHANGED <<flags, queue, currentSlot, http, slots, strm, asked>>

StopReset ==
    /\ SlimGoes("flush", "idle")
    /\ ResetBoth
    /\ asked' = TRUE                                              \* STMf
    /\ UNCHANGED <<flags, queue, currentSlot, http, strm, rend>>

StrmPause ==
    /\ "pause" \in Events /\ Listening
    /\ SlimGoes("idle", "idle")
    /\ rend.state = "playing"
    /\ rend' = [rend EXCEPT !.state = "paused"]
    /\ UNCHANGED <<flags, queue, currentSlot, http, slots, strm, asked>>

StrmUnpause ==
    /\ "pause" \in Events /\ Listening
    /\ SlimGoes("idle", "idle")
    /\ RendererPlay
    /\ UNCHANGED <<flags, queue, currentSlot, http, slots, strm, asked>>

SlimCall ==     \* what the thread does once it has a command
    \/ SeekSkip \/ SeekWait \/ SeekDone \/ SeekJoin \/ SeekExpire \/ Route \/ QueueFails \/ Queue
    \/ ColdStop \/ ColdJoin \/ ColdReset \/ ColdFails \/ ColdConnect \/ Spawn
    \/ StopHalt \/ StopHangup \/ StopRenderer \/ StopReset

SlimCommand == StrmStart \/ StrmStop \/ StrmPause \/ StrmUnpause

-----------------------------------------------------------------------------
(* Audio thread t.                                                         *)

AudioFrame ==
    UNCHANGED <<handle, generation, orphans, kind, strm, slimPc, mains>>

\* It goes from one point to another, changing what e says of its locals.
AudioGoes(t, from, new) ==
    /\ th[t].pc = from
    /\ th' = [th EXCEPT ![t] = new]
    /\ AudioFrame

At(t, to) == [th[t] EXCEPT !.pc = to]
My(t)     == kind[th[t].track]

\* Slip: a chained track is prepared in the slot of the one before.
BeginSameSlot(t) ==
    /\ AudioGoes(t, "begin", [At(t, "fill") EXCEPT !.slot = currentSlot])
    /\ slots' = [slots EXCEPT ![currentSlot] = EmptySlot]
    /\ UNCHANGED <<running, done, queue, currentSlot, http, asked, players, rend>>

\* Slip: the other slot is not 1 - currentSlot.
BeginPlusOne(t) ==
    LET s == IF th[t].first THEN currentSlot ELSE currentSlot + 1 IN
    /\ AudioGoes(t, "begin", [At(t, "fill") EXCEPT !.slot = s])
    /\ slots' = [slots EXCEPT ![s] = EmptySlot]
    /\ UNCHANGED <<running, done, queue, currentSlot, http, asked, players, rend>>

\* Slip: the ring of a slot used before keeps its bytes.
BeginDirty(t) ==
    LET s == IF th[t].first THEN currentSlot ELSE 1 - currentSlot IN
    /\ AudioGoes(t, "begin", [At(t, "fill") EXCEPT !.slot = s])
    /\ slots' = [slots EXCEPT ![s].full = FALSE, ![s].eos = FALSE, ![s].ready = FALSE]
    /\ UNCHANGED <<running, done, queue, currentSlot, http, asked, players, rend>>

\* The top of the track loop: the server of the other slot but for a first
\* track, its reset, setFormat.
Begin(t) ==
    LET s == IF th[t].first THEN currentSlot ELSE 1 - currentSlot IN
    /\ AudioGoes(t, "begin", [At(t, "fill") EXCEPT !.slot = s])
    /\ slots' = [slots EXCEPT ![s] = EmptySlot]
    /\ UNCHANGED <<running, done, queue, currentSlot, http, asked, players, rend>>

\* readWithTimeout returned data; writeAudio follows.
Read(t, loop, write) ==
    /\ AudioGoes(t, loop, [At(t, write) EXCEPT !.chunk = http.track])
    /\ running /\ ~th[t].eof /\ http.open
    /\ UNCHANGED <<running, done, queue, currentSlot, http, slots, asked,
                   players, rend>>

\* writeAudio: dropped at an end of stream, else when there is room.
RoomFor(t) ==
    \/ ~slots[th[t].slot].full \/ slots[th[t].slot].eos
    \/ Reading(th[t].slot) \/ kind[th[t].chunk].fits

\* Any number of writes fill the ring, but not the one a stopped thread still
\* has in hand.
Write(t, write, loop) ==
    LET s == th[t].slot IN
    /\ AudioGoes(t, write, [At(t, loop) EXCEPT !.chunk = 0, !.pre = TRUE])
    /\ write = "fillWrite" \/ RoomFor(t)     \* the prebuffer fits: RingSizing
    /\ slots' = IF slots[s].eos THEN slots
                ELSE [slots EXCEPT ![s].fed = @ \cup {th[t].chunk},
                                   ![s].full = @ \/ running]
    /\ UNCHANGED <<running, done, queue, currentSlot, http, asked, players, rend>>

\* readWithTimeout failed or the stream is at its end.  LMS has sent all of a
\* track that does not fit the ring only once the renderer is reading it.
Eof(t, loop) ==
    /\ AudioGoes(t, loop, [At(t, loop) EXCEPT !.eof = TRUE])
    /\ running /\ ~th[t].eof
    /\ My(t).fits \/ Reading(th[t].slot) \/ ~http.open \/ ~th[t].pre
    /\ UNCHANGED <<running, done, queue, currentSlot, http, slots, asked,
                   players, rend>>

\* The prebuffer is full, the stream at its end, or the thread stopped.
FillDone(t) ==
    /\ th[t].pre \/ th[t].eof \/ ~running
    /\ AudioGoes(t, "fill", At(t, IF th[t].pre /\ running THEN "publish" ELSE "end"))
    /\ UNCHANGED <<running, done, queue, currentSlot, http, slots, asked,
                   players, rend>>

CrossFormat(t) == ~th[t].first /\ kind[th[t].prev].format # My(t).format

\* setReadyToServe, and which way the renderer will be told.
Publish(t) ==
    /\ AudioGoes(t, "publish",
         At(t, IF th[t].first THEN "play"
               ELSE IF CrossFormat(t) THEN "tail" ELSE "setNext"))
    /\ slots' = [slots EXCEPT ![th[t].slot].ready = TRUE]
    /\ UNCHANGED <<running, done, queue, currentSlot, http, asked, players, rend>>

\* Whether to let the previous track end first; then the wait.
Tail(t) ==
    /\ AudioGoes(t, "tail", At(t, IF th[t].tail /\ running THEN "sleep" ELSE "switch"))
    /\ UNCHANGED <<running, done, queue, currentSlot, http, slots, asked,
                   players, rend>>

\* The clock passes the expected end (TrackClock), running or not.
Sleep(t) ==
    /\ AudioGoes(t, "sleep", At(t, "switch"))
    /\ UNCHANGED <<running, done, queue, currentSlot, http, slots, asked,
                   players, rend>>

Switch(t) ==
    /\ AudioGoes(t, "switch", At(t, "stopOld"))
    /\ SignalEos(currentSlot)
    /\ UNCHANGED <<running, done, queue, currentSlot, http, asked, players, rend>>

StopOld(t) ==
    /\ AudioGoes(t, "stopOld", At(t, "play"))
    /\ RendererStop
    /\ currentSlot' = 1 - currentSlot
    /\ UNCHANGED <<running, done, queue, http, slots, asked, players>>

\* Detaches a play thread.
SpawnPlayer(t) ==
    /\ AudioGoes(t, "play", At(t, "stream"))
    /\ players' = players \cup {[gen |-> t, slot |-> th[t].slot, pc |-> "uri"]}
    /\ UNCHANGED <<running, done, queue, currentSlot, http, slots, asked, rend>>

SetNext(t) ==
    /\ AudioGoes(t, "setNext", At(t, "handOver"))
    /\ rend' = [rend EXCEPT !.next = 1 - currentSlot]
    /\ UNCHANGED <<running, done, queue, currentSlot, http, slots, asked, players>>

\* Slip: the active slot is not updated.
HandOverSameSlot(t) ==
    /\ AudioGoes(t, "handOver", At(t, "stream"))
    /\ SignalEos(currentSlot)
    /\ UNCHANGED <<running, done, queue, currentSlot, http, asked, players, rend>>

HandOver(t) ==
    /\ AudioGoes(t, "handOver", At(t, "stream"))                   \* STMl
    /\ SignalEos(currentSlot)
    /\ currentSlot' = 1 - currentSlot
    /\ UNCHANGED <<running, done, queue, http, asked, players, rend>>

\* The stream loop ends.  Nobody else raises or lowers this slot's flag for
\* having seen the loop's two tests apart.
StreamDone(t) ==
    /\ th[t].eof \/ ~running
    /\ AudioGoes(t, "stream", At(t, IF th[t].eof /\ running THEN "near" ELSE "wait"))
    /\ slots' = IF th[t].eof THEN [slots EXCEPT ![th[t].slot].eos = TRUE] ELSE slots
    /\ UNCHANGED <<running, done, queue, currentSlot, http, asked, players, rend>>

AfterNear(t) ==
    /\ AudioGoes(t, "near", [At(t, "wait") EXCEPT !.tail = My(t).timed])
    /\ asked' = TRUE                                              \* STMd
    /\ UNCHANGED <<running, done, queue, currentSlot, http, slots, players, rend>>

\* Slip: the wait for the clock does not look at audioTestRunning.
NearEndDeaf(t) == AfterNear(t) /\ ~My(t).timed

\* The wait for the last three seconds of a track of known duration is cut short
\* by a stop; then STMd, stopped or not.
NearEnd(t) == AfterNear(t) /\ (My(t).timed => ~running)

\* The clock gets there (TrackClock), perhaps after an hour.
NearEndByClock(t) == AfterNear(t) /\ My(t).timed

\* Two seconds for LMS to queue a track: over, or cut short.
Wait(t) ==
    /\ AudioGoes(t, "wait", At(t, IF hasPending THEN "take" ELSE "end"))
    /\ UNCHANGED <<running, done, queue, currentSlot, http, slots, asked,
                   players, rend>>

\* Under pendingMutex; a strm-q may have cleared it.
Take(t) ==
    /\ AudioGoes(t, "take",
         IF pending = 0 THEN At(t, "end")
         ELSE [At(t, "rehook") EXCEPT !.prev = th[t].track, !.track = pending])
    /\ pending' = 0 /\ hasPending' = FALSE
    /\ UNCHANGED <<running, done, currentSlot, http, slots, asked, players, rend>>

\* Its stream becomes httpStream, and the loop starts over.
Rehook(t) ==
    /\ AudioGoes(t, "rehook", [At(t, "begin") EXCEPT !.first = FALSE,
                                                     !.eof = FALSE, !.pre = FALSE])
    /\ http' = [track |-> th[t].track, open |-> TRUE]        \* STMc, STMh
    /\ UNCHANGED <<running, done, queue, currentSlot, slots, asked, players, rend>>

\* Slip: audioThreadDone before the last signalEndOfStream.
EndDone(t) ==
    /\ AudioGoes(t, "end", At(t, "mark"))
    /\ slots' = IF running THEN [slots EXCEPT ![th[t].slot].eos = TRUE] ELSE slots
    /\ asked' = (asked \/ running)
    /\ done' = TRUE
    /\ UNCHANGED <<running, queue, currentSlot, http, players, rend>>

End(t) ==
    /\ AudioGoes(t, "end", At(t, "mark"))
    /\ slots' = IF running THEN [slots EXCEPT ![th[t].slot].eos = TRUE] ELSE slots
    /\ asked' = (asked \/ running)                                \* STMu
    /\ UNCHANGED <<running, done, queue, currentSlot, http, players, rend>>

Mark(t) ==
    /\ AudioGoes(t, "mark", Absent("dead"))
    /\ done' = TRUE
    /\ UNCHANGED <<running, queue, currentSlot, http, slots, asked, players, rend>>

Audio(t) ==
    \/ Begin(t) \/ FillDone(t) \/ Publish(t) \/ Tail(t) \/ Sleep(t) \/ Switch(t)
    \/ StopOld(t) \/ SpawnPlayer(t) \/ SetNext(t) \/ HandOver(t)
    \/ Read(t, "fill", "fillWrite") \/ Write(t, "fillWrite", "fill") \/ Eof(t, "fill")
    \/ Read(t, "stream", "streamWrite") \/ Write(t, "streamWrite", "stream")
    \/ Eof(t, "stream")
    \/ StreamDone(t) \/ NearEnd(t) \/ Wait(t) \/ Take(t) \/ Rehook(t) \/ End(t)
    \/ Mark(t)

-----------------------------------------------------------------------------
(* Play thread p.                                                          *)

PlayerGoes(p, pcs) ==
    /\ players' = (players \ {p}) \cup {[p EXCEPT !.pc = c] : c \in pcs}
    /\ UNCHANGED <<flags, queue, currentSlot, http, slots, lms, slimPc, th, mains>>

PlayerUri(p) ==
    /\ p.pc = "uri"
    /\ PlayerGoes(p, {"check"})
    /\ rend' = [rend EXCEPT !.uri = p.slot, !.next = NoSlot]

PlayerCheck(p) ==
    /\ p.pc = "check"
    /\ PlayerGoes(p, IF generation = p.gen THEN {"play"} ELSE {})
    /\ UNCHANGED rend

\* The poll for PLAYING that may follow only moves the elapsed clock.
PlayerPlay(p) ==
    /\ p.pc = "play"
    /\ PlayerGoes(p, {})                                           \* STMl
    /\ RendererPlay

Player(p) == PlayerUri(p) \/ PlayerCheck(p) \/ PlayerPlay(p)

-----------------------------------------------------------------------------
(* The main thread: stopAudioThread, then disconnect and reconnect.        *)

MainGoes(from, to) ==
    /\ mainPc = from
    /\ mainPc' = to
    /\ UNCHANGED <<generation, queue, currentSlot, lms, slimPc, th, players>>

MainHalt ==
    /\ "drop" \in Events /\ cuts < MaxCuts
    /\ MainGoes("run", "hangup")
    /\ cuts' = cuts + 1
    /\ running' = FALSE
    /\ UNCHANGED <<done, handle, orphans, http, slots, rend>>

MainHangup ==
    /\ MainGoes("hangup", "signal")
    /\ http' = [http EXCEPT !.open = FALSE]
    /\ UNCHANGED <<running, done, handle, orphans, slots, rend, cuts>>

\* Both servers; then whether there is a thread to wait for.
MainSignal ==
    /\ MainGoes("signal", IF handle = 0 THEN "silence" ELSE "reap")
    /\ slots' = [s \in Slot |-> [slots[s] EXCEPT !.eos = TRUE]]
    /\ UNCHANGED <<running, done, handle, orphans, http, rend, cuts>>

MainDone ==
    /\ MainGoes("reap", "join")
    /\ done
    /\ UNCHANGED <<running, done, handle, orphans, http, slots, rend, cuts>>

MainJoin ==
    /\ MainGoes("join", "silence")
    /\ Joins
    /\ UNCHANGED <<running, done, orphans, http, slots, rend, cuts>>

\* A second is over.
MainExpire ==
    /\ MainGoes("reap", "silence")
    /\ ~done
    /\ Detaches
    /\ UNCHANGED <<running, done, http, slots, rend, cuts>>

MainSilence ==
    /\ MainGoes("silence", "disconnect")
    /\ RendererStop
    /\ UNCHANGED <<running, done, handle, orphans, http, slots, cuts>>

\* The slimproto thread ends with the command it is handling, and is joined.
MainDisconnect ==
    /\ MainGoes("disconnect", "away")
    /\ slimPc = "idle"
    /\ UNCHANGED <<running, done, handle, orphans, http, slots, rend, cuts>>

\* LMS starts anew with a player it has just registered.
MainReconnect ==
    /\ mainPc = "away"
    /\ mainPc' = "run"
    /\ asked' = TRUE
    /\ UNCHANGED <<flags, queue, currentSlot, http, slots, kind, strm, slimPc,
                   th, players, rend, cuts>>

Main == MainHalt \/ MainHangup \/ MainSignal \/ MainDone \/ MainJoin \/ MainExpire
        \/ MainSilence \/ MainDisconnect \/ MainReconnect

-----------------------------------------------------------------------------

AudioStep  == \E t \in Thread : Audio(t) \/ NearEndByClock(t)
PlayerStep == \E p \in players : Player(p)

Next == SlimCommand \/ SlimCall \/ AudioStep \/ PlayerStep \/ Main \/ RendererEnds

Spec == Init /\ [][Next]_vars

\* Every thread keeps running, but the end of a track may be far away; LMS owes
\* nothing; the renderer plays on.
Fairness ==
    /\ WF_vars(SlimCall)
    /\ \A t \in Thread : WF_vars(Audio(t))
    /\ WF_vars(PlayerStep)
    /\ WF_vars(Main /\ mainPc # "run")
    /\ WF_vars(RendererEnds)

FairSpec == Spec /\ Fairness

-----------------------------------------------------------------------------
(* Properties.                                                             *)

AudioPcs == {"unborn", "begin", "fill", "fillWrite", "publish", "tail", "sleep",
             "switch", "stopOld", "play", "setNext", "handOver", "stream",
             "streamWrite", "near", "wait", "take", "rehook", "end", "mark", "dead"}
SlimPcs  == {"idle", "seek", "seekWait", "seekJoin", "route", "queue", "rendererStop", "join",
             "reset", "connect", "spawn", "halt", "hangup", "silence", "flush"}
MainPcs  == {"run", "hangup", "signal", "reap", "join", "silence", "disconnect", "away"}
ThreadRecord == [pc : AudioPcs, track : 0..MaxTrack, slot : Slot, first : BOOLEAN,
                 eof : BOOLEAN, pre : BOOLEAN, chunk : 0..MaxTrack,
                 prev : 0..MaxTrack, tail : BOOLEAN]
PlayerRecord == [gen : Thread, slot : Slot, pc : {"uri", "check", "play"}]

SlotRecord == [fed : SUBSET (0..MaxTrack), full : BOOLEAN, eos : BOOLEAN,
               ready : BOOLEAN]
Renderer == [state : {"stopped", "playing", "paused"}, uri : 0..2, next : 0..2]

\* The types of the variables: main.cpp:540-561 and the locals of the threads.
TypeOK ==
    /\ running \in BOOLEAN /\ done \in BOOLEAN
    /\ handle \in 0..MaxTrack /\ generation \in 0..MaxTrack /\ orphans \subseteq Thread
    /\ pending \in 0..MaxTrack /\ hasPending \in BOOLEAN
    /\ currentSlot \in Slot
    /\ http \in [track : 0..MaxTrack, open : BOOLEAN]
    /\ slots \in [Slot -> SlotRecord]
    /\ kind \in [Track -> Kinds] /\ strm \in 0..MaxTrack /\ asked \in BOOLEAN
    /\ slimPc \in SlimPcs
    /\ th \in [Thread -> ThreadRecord]
    /\ players \subseteq PlayerRecord
    /\ rend \in Renderer
    /\ mainPc \in MainPcs /\ cuts \in 0..MaxCuts

\* Nothing runs behind the bridge's back: a thread that lives is the one
\* audioTestThread holds, or one whose wait expired (main.cpp:597, 1280).  Until
\* a wait has expired audioThreadDone tells the truth, so there is one audio
\* thread at a time: the ring of a slot has one producer (AudioHttpServer.h:14).
OneAudioThread ==
    /\ Alive \subseteq orphans \cup {handle}
    /\ orphans = {} => (done => Alive = {})

\* A join of the slimproto thread returns at once: the thread, which must answer
\* LMS, never waits there for one that still runs (main.cpp:586, "Wait with
\* timeout to avoid blocking the slimproto thread").
JoinNeverBlocks ==
    \A t \in Thread : slimPc \in {"join", "seekJoin"} /\ t = handle => th[t].pc = "dead"

\* It does so until the first wait has expired, whatever strm-s, strm-q and
\* lost connections meet (main.cpp:586-638).
JoinBlocksAfterDetachOnly == orphans = {} => JoinNeverBlocks

\* audioTestThread holds no thread when a cold start assigns it a new one, which
\* would end the program (std::terminate): whoever joined or detached, and when.
SpawnIsSafe == slimPc \in {"reset", "connect", "spawn"} => handle = 0

\* A ring holds data of one track, the one its thread is playing: no byte of
\* another HTTP stream gets in, whatever strm commands and lost connections come
\* between (main.cpp:613-660, 1130-1148), unless there is a second audio thread.
RingOfOneTrack ==
    orphans = {} =>
      /\ \A s \in Slot : Cardinality(slots[s].fed) <= 1
      /\ \A t \in Alive : th[t].pc \in {"publish", "tail", "setNext", "play", "stream"}
                            => slots[th[t].slot].fed \subseteq {th[t].track}

\* Once a track plays, its thread writes to the slot everyone takes for current,
\* so a chained track is prepared in the other one (main.cpp:704-710, 914, 976),
\* unless there is a second audio thread.
WritesCurrentSlot ==
    orphans = {} =>
      \A t \in Alive : th[t].pc \in {"play", "stream", "streamWrite", "near", "wait"}
                          => th[t].slot = currentSlot

\* An audio thread that chains tracks empties only a slot the renderer has done
\* with (AudioHttpServer.h:114, "ring buffer will drain then close"): tracks
\* longer than the ring, none cut short by a stop or a lost connection, and in
\* the first stream, for a later one may meet a play thread of an earlier one
\* (NoPlayAfterStop).
InUse(s) == rend.state # "stopped" /\ s \in {rend.uri, rend.next} /\ slots[s].fed # {}
Undisturbed == generation = 1 /\ running /\ mainPc = "run"
SlotKept ==
    [][\A t \in Alive : Undisturbed /\ th'[t].pc # th[t].pc =>
         \A s \in Slot : InUse(s) => slots'[s].fed # {}]_vars

\* The track a thread chains to is the last one LMS sent (main.cpp:549,
\* "Gapless: pending next track"): never one of an earlier stream.
ChainsLatest ==
    [][\A t \in Alive : th[t].pc = "take" /\ th'[t].pc = "rehook"
         => th'[t].track = strm]_vars

\* A play thread does not start the renderer on a stream LMS has stopped
\* ("Stream generation counter prevents stale STAT events from detached
\* threads", CHANGELOG.md:340).
NoPlayAfterStop ==
    [][\A p \in players : p.pc = "play" /\ p \notin players'
         => running \/ slimPc # "idle"]_vars

\* After a stop every audio thread ends, the detached ones too, unless a new
\* strm-s comes: no wait of the thread, on a full ring, on LMS or on the clock,
\* survives the stop (main.cpp:1001-1026, 1065-1082, 1109-1121).
StopEnds == ~running ~> (running \/ Alive = {})

\* Every command returns, and the slimproto thread is back to serve LMS, unless
\* it joins a thread that runs, which takes an expired wait (JoinNeverBlocks).
CommandReturns ==
    slimPc # "idle" ~> (slimPc = "idle" \/ (orphans # {} /\ ~JoinNeverBlocks))

=============================================================================
