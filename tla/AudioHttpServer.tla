-------------------------- MODULE AudioHttpServer --------------------------
(***************************************************************************)
(* One AudioHttpServer (one of the two slots of main.cpp) with the threads *)
(* that use it:                                                            *)
(*   - the server thread: serverLoop, handleClient, one client at a time;  *)
(*   - the audio thread of main.cpp: setFormat, writeAudio,                *)
(*     setReadyToServe, signalEndOfStream, and reset when a gapless chain  *)
(*     comes back to this slot;                                            *)
(*   - the slimproto thread: reset on strm-q / strm-f and on a cold strm-s;*)
(*   - the main thread: stopAudioThread, and stop() at shutdown;           *)
(*   - the renderer: connects, asks, reads, goes away.                     *)
(* A step is what a thread does between two points where another thread    *)
(* can see the difference: one critical section, or one access to an       *)
(* atomic.  The condition variables wait with a timeout and recheck their  *)
(* predicate, so a wait is the guard of the step after it.                 *)
(*                                                                         *)
(* Here the slimproto thread always joins the old audio thread before it   *)
(* starts a new one; StreamControl says when that is not so.               *)
(***************************************************************************)
EXTENDS Naturals, Sequences

CONSTANTS MaxTrack,     \* bound: tracks played on this slot
          TrackLen,     \* bound: bytes in a track
          MaxConn,      \* bound: connections the renderer opens
          Capacities,   \* ring sizes setFormat may compute
          MaxRead,      \* bytes handleClient takes from the ring at once
          MaxWrite,     \* bytes the audio thread reads from LMS at once
          Prebuffer,    \* PREBUFFER_BYTES
          MayShutDown   \* whether the main thread stops anything in this run

\* The prebuffer and one more read fit every ring: see RingSizing.
ASSUME ServerAssumption ==
    /\ {MaxTrack, TrackLen, MaxConn, MaxRead, MaxWrite, Prebuffer}
         \subseteq Nat \ {0}
    /\ Capacities \subseteq Nat \ {0}
    /\ MayShutDown \in BOOLEAN
    /\ \A c \in Capacities : Prebuffer + MaxWrite <= c

Conn  == 1..MaxConn
Zero  == <<0, 0>>
Byte  == ((1..MaxTrack) \X (1..TrackLen)) \cup {Zero}   \* <<track, position>>

VARIABLES
    buf, cap, writePos, readPos, sendBuf,   \* the ring, and handleClient's buffer
    endOfStream,    \* m_endOfStream
    readyToServe,   \* m_readyToServe
    meta,           \* the track m_passthroughMime and m_contentLength describe
    running,        \* m_running
    clientSocket,   \* m_clientSocket: a connection, or 0 for -1
    sock,           \* state of each connection's socket
    serverPc,       \* where the server thread is
    client,         \* the connection it handles
    isHead,         \* handleClient's isHead
    audioPc,        \* where the audio thread is
    track,          \* the track it plays
    source,         \* bytes of the track it has taken from LMS
    chunk,          \* bytes writeAudio has still to write
    httpEof,        \* its httpEof
    active,         \* audioTestRunning
    slimPc,         \* what the slimproto thread is doing
    mainPc,         \* what the main thread is doing
    resetPc,        \* the next step of reset(), by caller; 0 when not in it
    header,         \* the track each response's header described
    got             \* the bytes the renderer received on each connection

ring    == <<buf, cap, writePos, readPos, sendBuf>>
flags   == <<endOfStream, readyToServe, meta>>
clients == <<clientSocket, sock>>
server  == <<serverPc, client, isHead>>
input   == <<track, source, chunk, httpEof>>
control == <<active, slimPc, mainPc>>
output  == <<header, got>>
vars == <<ring, flags, running, clients, server, audioPc, input, control,
          resetPc, output>>

Ring == INSTANCE RingBuffer

\* After start().
Init ==
    /\ Ring!RingInit
    /\ endOfStream = FALSE /\ readyToServe = FALSE /\ meta = 0
    /\ running = TRUE
    /\ clientSocket = 0 /\ sock = [c \in Conn |-> "none"]
    /\ serverPc = "accept" /\ client = 0 /\ isHead = FALSE
    /\ audioPc = "gone" /\ track = 0 /\ source = 0 /\ chunk = <<>>
    /\ httpEof = FALSE
    /\ active = FALSE /\ slimPc = "idle" /\ mainPc = "run"
    /\ resetPc = [slim |-> 0, audio |-> 0]
    /\ header = [c \in Conn |-> 0]
    /\ got = [c \in Conn |-> <<>>]

-----------------------------------------------------------------------------
(* reset(), four steps of thread t.                                        *)

ResetGoes(t, from, to) ==
    /\ resetPc[t] = from
    /\ resetPc' = [resetPc EXCEPT ![t] = to]
    /\ UNCHANGED <<running, clientSocket, server, audioPc, input, control, output>>

\* Slip: m_readyToServe stays up.
ResetFlagsKeepsReady(t) ==
    /\ ResetGoes(t, 1, 2)
    /\ endOfStream' = TRUE
    /\ meta' = 0
    /\ UNCHANGED <<ring, readyToServe, sock>>

\* No observer tells the order of the first stores: one that sees the end of
\* stream and the old flags could have seen them before reset began.
ResetFlags(t) ==
    /\ ResetGoes(t, 1, 2)
    /\ endOfStream' = TRUE
    /\ readyToServe' = FALSE
    /\ meta' = 0
    /\ UNCHANGED <<ring, sock>>

\* Slip: the old connection is left alone.
ShutdownNobody == sock' = sock

\* shutdown() of the registered client, under m_clientMutex.
ShutdownClient ==
    sock' = IF clientSocket # 0 /\ sock[clientSocket] = "open"
            THEN [sock EXCEPT ![clientSocket] = "shut"]
            ELSE sock

ResetClient(t) ==
    /\ ResetGoes(t, 2, 3)
    /\ ShutdownClient
    /\ UNCHANGED <<ring, flags>>

ResetRing(t) ==
    /\ ResetGoes(t, 3, 4)
    /\ Ring!ringReset
    /\ UNCHANGED <<flags, sock>>

ResetLowerEos(t) ==
    /\ ResetGoes(t, 4, 0)
    /\ endOfStream' = FALSE
    /\ UNCHANGED <<ring, readyToServe, meta, sock>>

Reset(t) == ResetFlags(t) \/ ResetClient(t) \/ ResetRing(t) \/ ResetLowerEos(t)

-----------------------------------------------------------------------------
(* The audio thread, one track after the other.                            *)

AudioGoes(from, to) ==
    /\ audioPc = from
    /\ audioPc' = to
    /\ UNCHANGED <<running, clients, server, control, output>>

\* setFormat: the ring under m_ringMutex, then the flags.
SetFormatRing ==
    /\ AudioGoes("format", "formatFlags")
    /\ \E c \in Capacities : Ring!ringResize(c)
    /\ UNCHANGED <<flags, input, resetPc>>

SetFormatFlags ==
    /\ AudioGoes("formatFlags", "mime")
    /\ readyToServe' = FALSE
    /\ endOfStream' = FALSE
    /\ UNCHANGED <<ring, meta, input, resetPc>>

SetPassthroughMime ==
    /\ AudioGoes("mime", "prebuffer")
    /\ meta' = track
    /\ UNCHANGED <<ring, endOfStream, readyToServe, input, resetPc>>

\* readWithTimeout returned 1..MaxWrite bytes, or the end of the stream.
Fetch(loop, write) ==
    /\ \/ \E n \in 1..Ring!Least(MaxWrite, TrackLen - source) :
            /\ AudioGoes(loop, write)
            /\ chunk' = [k \in 1..n |-> <<track, source + k>>]
            /\ source' = source + n
            /\ UNCHANGED httpEof
       \/ /\ AudioGoes(loop, loop)
          /\ httpEof' = TRUE
          /\ UNCHANGED <<chunk, source>>
    /\ UNCHANGED <<ring, flags, track, resetPc>>

PrebufferRead ==
    /\ active /\ ~httpEof /\ source < Prebuffer
    /\ Fetch("prebuffer", "prebufferWrite")

StreamRead ==
    /\ active /\ ~httpEof
    /\ Fetch("stream", "streamWrite")

\* Slip: what does not fit at once is dropped.
WriteAudioOnce(write, loop) ==
    /\ \/ /\ running /\ ~endOfStream /\ Ring!ringFree > 0
          /\ LET n == Ring!Least(Len(chunk), Ring!ringFree)
             IN  Ring!ringWrite(SubSeq(chunk, 1, n))
       \/ (~running \/ endOfStream) /\ UNCHANGED ring
    /\ chunk' = <<>>
    /\ AudioGoes(write, loop)
    /\ UNCHANGED <<flags, track, source, httpEof, resetPc>>

\* Slip: the wait for space looks at nothing else.
WriteAudioDeaf(write, loop) ==
    /\ Ring!ringFree > 0
    /\ LET n == Ring!Least(Len(chunk), Ring!ringFree)
       IN  /\ Ring!ringWrite(SubSeq(chunk, 1, n))
           /\ chunk' = SubSeq(chunk, n + 1, Len(chunk))
           /\ AudioGoes(write, IF n = Len(chunk) THEN loop ELSE write)
    /\ UNCHANGED <<flags, track, source, httpEof, resetPc>>

\* One turn of writeAudio's loop: it waits for space, an end of stream or
\* the shutdown, and gives up the rest of the chunk on the last two.
WriteAudio(write, loop) ==
    /\ \/ /\ running /\ ~endOfStream /\ Ring!ringFree > 0
          /\ LET n == Ring!Least(Len(chunk), Ring!ringFree)
             IN  /\ Ring!ringWrite(SubSeq(chunk, 1, n))
                 /\ chunk' = SubSeq(chunk, n + 1, Len(chunk))
                 /\ AudioGoes(write, IF n = Len(chunk) THEN loop ELSE write)
       \/ /\ ~running \/ endOfStream
          /\ chunk' = <<>>
          /\ AudioGoes(write, loop)
          /\ UNCHANGED ring
    /\ UNCHANGED <<flags, track, source, httpEof, resetPc>>

writeAudio == WriteAudio("prebufferWrite", "prebuffer")
              \/ WriteAudio("streamWrite", "stream")

\* The prebuffer loop ended: nothing to play, stopped, or go on.
PrebufferDone ==
    /\ ~active \/ httpEof \/ source >= Prebuffer
    /\ AudioGoes("prebuffer", IF source = 0 \/ ~active THEN "finish" ELSE "describe")
    /\ UNCHANGED <<ring, flags, input, resetPc>>

\* MIME from the magic bytes, Content-Length from a DSF header: only for a
\* generic Content-Type, or a file whose header tells its size.
DescribeTrack ==
    /\ AudioGoes("describe", "ready")
    /\ meta' \in {meta, track}
    /\ UNCHANGED <<ring, endOfStream, readyToServe, input, resetPc>>

setReadyToServe ==
    /\ AudioGoes("ready", "stream")
    /\ readyToServe' = TRUE
    /\ UNCHANGED <<ring, endOfStream, meta, input, resetPc>>

\* The stream loop ended; signalEndOfStream only at the end of the HTTP data.
StreamDone ==
    /\ ~active \/ httpEof
    /\ AudioGoes("stream", "ended")
    /\ endOfStream' = (endOfStream \/ httpEof)
    /\ UNCHANGED <<ring, readyToServe, meta, input, resetPc>>

\* The next track went to the other slot: signalEndOfStream on this one.
SwitchAway ==
    /\ AudioGoes("ended", "ended")
    /\ endOfStream' = TRUE
    /\ UNCHANGED <<ring, readyToServe, meta, input, resetPc>>

\* A later track of the chain comes back to this slot: reset, then setFormat.
ChainBack ==
    /\ track < MaxTrack
    /\ AudioGoes("ended", "chain")
    /\ track' = track + 1 /\ source' = 0 /\ httpEof' = FALSE
    /\ resetPc' = [resetPc EXCEPT !.audio = 1]
    /\ UNCHANGED <<ring, flags, chunk>>

ChainReset ==
    /\ resetPc.audio = 0
    /\ AudioGoes("chain", "format")
    /\ UNCHANGED <<ring, flags, input, resetPc>>

TrackLoopDone ==
    /\ AudioGoes("ended", "finish")
    /\ UNCHANGED <<ring, flags, input, resetPc>>

\* After the track loop: signalEndOfStream if still running, then done.
Finish ==
    /\ AudioGoes("finish", IF active THEN "lastEos" ELSE "gone")
    /\ UNCHANGED <<ring, flags, input, resetPc>>

LastEndOfStream ==
    /\ AudioGoes("lastEos", "gone")
    /\ endOfStream' = TRUE
    /\ UNCHANGED <<ring, readyToServe, meta, input, resetPc>>

AudioStep ==
    \/ SetFormatRing \/ SetFormatFlags \/ SetPassthroughMime
    \/ PrebufferRead \/ StreamRead \/ writeAudio \/ PrebufferDone
    \/ DescribeTrack \/ setReadyToServe \/ StreamDone
    \/ ChainBack \/ ChainReset \/ TrackLoopDone \/ Finish
    \/ LastEndOfStream \/ Reset("audio")

-----------------------------------------------------------------------------
(* The slimproto thread and the main thread.                               *)

ControlOnly ==
    UNCHANGED <<ring, readyToServe, meta, server, output>>

\* strm-q and strm-f.
StrmStop ==
    /\ slimPc = "idle"
    /\ active' = FALSE /\ slimPc' = "stop"
    /\ resetPc' = [resetPc EXCEPT !.slim = 1]
    /\ ControlOnly
    /\ UNCHANGED <<mainPc, endOfStream, running, clients, audioPc, input>>

\* A cold strm-s: the old audio thread has been joined.
StrmStart ==
    /\ slimPc = "idle" /\ audioPc = "gone" /\ track < MaxTrack
    /\ slimPc' = "start"
    /\ resetPc' = [resetPc EXCEPT !.slim = 1]
    /\ ControlOnly
    /\ UNCHANGED <<active, mainPc, endOfStream, running, clients, audioPc, input>>

\* Reset done: back to the message loop, or connect to LMS and, if that
\* succeeds, start the audio thread.
StrmDone ==
    /\ slimPc # "idle" /\ resetPc.slim = 0
    /\ slimPc' = "idle"
    /\ \/ UNCHANGED <<active, audioPc, input>>
       \/ /\ slimPc = "start"
          /\ active' = TRUE /\ audioPc' = "format"
          /\ track' = track + 1 /\ source' = 0 /\ httpEof' = FALSE
          /\ UNCHANGED chunk
    /\ ControlOnly
    /\ UNCHANGED <<mainPc, endOfStream, running, clients, resetPc>>

\* stopAudioThread: stop the thread, then signalEndOfStream.
StopAudioThread ==
    /\ MayShutDown /\ mainPc = "run"
    /\ active' = FALSE /\ mainPc' = "stopAudio"
    /\ ControlOnly
    /\ UNCHANGED <<slimPc, endOfStream, running, clients, audioPc, input, resetPc>>

StopAudioEos ==
    /\ mainPc = "stopAudio"
    /\ endOfStream' = TRUE
    /\ mainPc' \in {"run", "stop"}
    /\ ControlOnly
    /\ UNCHANGED <<active, slimPc, running, clients, audioPc, input, resetPc>>

\* stop(), after the last stopAudioThread: flags, then the client.
StopServer ==
    /\ mainPc = "stop"
    /\ running' = FALSE /\ endOfStream' = TRUE
    /\ mainPc' = "closeClient"
    /\ ControlOnly
    /\ UNCHANGED <<active, slimPc, clients, audioPc, input, resetPc>>

StopClient ==
    /\ mainPc = "closeClient"
    /\ ShutdownClient
    /\ clientSocket' = 0
    /\ mainPc' = "join"
    /\ ControlOnly
    /\ UNCHANGED <<active, slimPc, endOfStream, running, audioPc, input, resetPc>>

SlimStep == StrmDone \/ Reset("slim")
MainStep == StopAudioEos \/ StopServer \/ StopClient

-----------------------------------------------------------------------------
(* The server thread: serverLoop and handleClient.                         *)

ServerGoes(from, to) ==
    /\ serverPc = from
    /\ serverPc' = to
    /\ UNCHANGED <<flags, running, audioPc, input, control, resetPc>>

Accept ==
    /\ running
    /\ \E c \in Conn :
         /\ sock[c] = "queued"
         /\ sock' = [sock EXCEPT ![c] = "open"]
         /\ client' = c
    /\ ServerGoes("accept", "register")
    /\ UNCHANGED <<ring, clientSocket, isHead, output>>

ServerExit ==
    /\ ~running
    /\ ServerGoes("accept", "exit")
    /\ UNCHANGED <<ring, clients, client, isHead, output>>

\* m_clientSocket = clientFd, under m_clientMutex.
Register ==
    /\ ServerGoes("register", "request")
    /\ clientSocket' = client
    /\ UNCHANGED <<ring, sock, client, isHead, output>>

\* recv blocks until a request comes or the socket is shut; anything but
\* GET and HEAD gets a 405.
ReadRequest ==
    /\ serverPc = "request"
    /\ \/ sock[client] = "shut" /\ ServerGoes("request", "close") /\ UNCHANGED isHead
       \/ /\ sock[client] = "open"
          /\ \/ ServerGoes("request", "close") /\ UNCHANGED isHead
             \/ ServerGoes("request", "wait") /\ isHead' \in BOOLEAN
    /\ UNCHANGED <<ring, clients, client, output>>

\* Slip: the wait forgets m_running.
WaitReadyDeaf ==
    /\ readyToServe \/ endOfStream
    /\ ServerGoes("wait", "recheck")
    /\ UNCHANGED <<ring, clients, client, isHead, output>>

\* The wait for the prebuffer looks at three atomics, then at two again.
WaitReady ==
    /\ readyToServe \/ endOfStream \/ ~running
    /\ ServerGoes("wait", "recheck")
    /\ UNCHANGED <<ring, clients, client, isHead, output>>

RecheckReady ==
    /\ ServerGoes("recheck", IF readyToServe /\ running THEN "header" ELSE "close")
    /\ UNCHANGED <<ring, clients, client, isHead, output>>

SendHeader ==
    /\ serverPc = "header"
    /\ \/ /\ sock[client] = "open"
          /\ header' = [header EXCEPT ![client] = meta]
          /\ ServerGoes("header", IF isHead THEN "close" ELSE "data")
       \/ /\ sock[client] # "open"
          /\ ServerGoes("header", "close")
          /\ UNCHANGED header
    /\ UNCHANGED <<ring, clients, client, isHead, got>>

\* Under m_ringMutex: take a chunk, or time out on an empty ring.
TakeData ==
    /\ \/ ~running /\ ServerGoes("data", "close") /\ UNCHANGED ring
       \/ running /\ ServerGoes("data", "send") /\ Ring!ringRead(MaxRead)
       \/ /\ running /\ Ring!ringAvailable = 0
          /\ ServerGoes("data", "empty") /\ UNCHANGED ring
    /\ UNCHANGED <<clients, client, isHead, output>>

\* Slip: the end of the stream counts only once the server stops.
CheckEndOfStreamLate ==
    /\ ServerGoes("empty", IF endOfStream /\ ~running THEN "close" ELSE "data")
    /\ UNCHANGED <<ring, clients, client, isHead, output>>

\* After the unlock: no data and end of stream means done.
CheckEndOfStream ==
    /\ ServerGoes("empty", IF endOfStream THEN "close" ELSE "data")
    /\ UNCHANGED <<ring, clients, client, isHead, output>>

SendData ==
    /\ serverPc = "send"
    /\ \/ /\ sock[client] = "open"
          /\ got' = [got EXCEPT ![client] = @ \o sendBuf]
          /\ ServerGoes("send", "data")
       \/ /\ sock[client] # "open"
          /\ ServerGoes("send", "close")
          /\ UNCHANGED got
    /\ UNCHANGED <<ring, clients, client, isHead, header>>

\* Back in serverLoop: unregister and close.
CloseClient ==
    /\ ServerGoes("close", "accept")
    /\ clientSocket' = IF clientSocket = client THEN 0 ELSE clientSocket
    /\ sock' = [sock EXCEPT ![client] = "closed"]
    /\ client' = 0
    /\ UNCHANGED <<ring, isHead, output>>

ServerStep ==
    \/ Accept \/ ServerExit \/ Register \/ ReadRequest \/ WaitReady
    \/ RecheckReady \/ SendHeader \/ TakeData \/ CheckEndOfStream
    \/ SendData \/ CloseClient

-----------------------------------------------------------------------------
(* The renderer.                                                           *)

RendererOnly ==
    UNCHANGED <<ring, flags, running, clientSocket, server, audioPc, input,
                control, resetPc, output>>

RendererConnects ==
    \E c \in Conn :
      /\ sock[c] = "none" /\ \A d \in 1..c-1 : sock[d] # "none"
      /\ sock' = [sock EXCEPT ![c] = "queued"]
      /\ RendererOnly

RendererCloses ==
    \E c \in Conn :
      /\ sock[c] = "open"
      /\ sock' = [sock EXCEPT ![c] = "shut"]
      /\ RendererOnly

Next ==
    \/ AudioStep \/ SwitchAway
    \/ SlimStep \/ StrmStop \/ StrmStart
    \/ MainStep \/ StopAudioThread
    \/ ServerStep
    \/ RendererConnects \/ RendererCloses

Spec == Init /\ [][Next]_vars

\* The threads keep running.  The client's socket has no time limit: recv and
\* send return because a renderer that connected sends its request and reads,
\* or goes away.  Nothing obliges LMS to send a command or the program to
\* shut down.
Fairness ==
    /\ WF_vars(AudioStep) /\ WF_vars(ServerStep)
    /\ WF_vars(SlimStep) /\ WF_vars(MainStep)

FairSpec == Spec /\ Fairness

-----------------------------------------------------------------------------
TypeOK ==
    /\ cap \in Capacities \cup {0} /\ buf \in [0..cap-1 -> Byte]
    /\ writePos \in Nat /\ readPos \in Nat /\ sendBuf \in Seq(Byte)
    /\ {endOfStream, readyToServe, running, isHead, httpEof, active}
         \subseteq BOOLEAN
    /\ {meta, track} \subseteq 0..MaxTrack
    /\ {clientSocket, client} \subseteq 0..MaxConn
    /\ sock \in [Conn -> {"none", "queued", "open", "shut", "closed"}]
    /\ serverPc \in {"accept", "register", "request", "wait", "recheck",
                     "header", "data", "empty", "send", "close", "exit"}
    /\ audioPc \in {"gone", "format", "formatFlags", "mime", "prebuffer",
                    "prebufferWrite", "describe", "ready", "stream",
                    "streamWrite", "ended", "chain", "finish", "lastEos"}
    /\ source \in 0..TrackLen /\ chunk \in Seq(Byte)
    /\ slimPc \in {"idle", "stop", "start"}
    /\ mainPc \in {"run", "stopAudio", "stop", "closeClient", "join"}
    /\ resetPc \in [{"slim", "audio"} -> 0..4]
    /\ header \in [Conn -> 0..MaxTrack]
    /\ got \in [Conn -> Seq(Byte)]

\* Consecutive bytes of one track.
Consecutive(s) == \A k \in 1..Len(s) : s[k] = <<s[1][1], s[1][2] + k - 1>>

Live == { c \in Conn : sock[c] = "open" }

(* A connection the renderer still reads from never carries bytes of two   *)
(* tracks, nor a track with a hole in it: reset cuts the old connections   *)
(* before the ring is refilled, whichever thread was in the middle of      *)
(* writeAudio, send or accept when it ran.                                 *)
ConnectionCarriesOneTrack == \A c \in Live : Consecutive(got[c])

(* While no stop has come, the ring holds only bytes of the track the      *)
(* audio thread plays, without a hole, up to the last byte it wrote: no    *)
(* byte of an earlier track survives reset and setFormat, and none is      *)
(* dropped by writeAudio.                                                  *)
RingHoldsOnlyThisTrack ==
    (active /\ running /\ ~endOfStream
     /\ audioPc \in {"prebuffer", "prebufferWrite", "describe", "ready",
                     "stream", "streamWrite"}) =>
        LET q == Ring!Contents \o chunk
        IN  /\ Consecutive(q)
            /\ q # <<>> => q[Len(q)] = <<track, source>>

(* The response header a live connection got describes the track whose     *)
(* bytes follow it, unless a reset is about to cut the connection or a     *)
(* stop has come.                                                          *)
HeaderMatchesBody ==
    (active /\ resetPc.slim = 0 /\ resetPc.audio = 0) =>
        \A c \in Live : got[c] # <<>> => header[c] = got[c][1][1]

(* AudioHttpServer.h:114: after signalEndOfStream the "ring buffer will    *)
(* drain then close": the server does not hang up on a live client while   *)
(* the ring still holds bytes of the stream that has ended.                *)
DrainThenClose ==
    [][(serverPc = "empty" /\ serverPc' = "close") => Ring!ringAvailable = 0]_vars

(* strm-q always ends the audio thread, also when it is blocked in         *)
(* writeAudio and misses the short pulse on m_endOfStream.                 *)
StopEndsAudioThread == (~active) ~> (audioPc = "gone" \/ active)

(* Once the stream has ended, the server closes the connection it serves.  *)
EndOfStreamCloses ==
    (endOfStream /\ serverPc \in {"data", "empty", "send"})
       ~> (serverPc = "close" \/ ~endOfStream)

(* stop() can join the server thread, wherever it is, also with a client   *)
(* that registers after stop() has cut the registered one.                 *)
StopJoinsServer == (mainPc = "join") ~> (serverPc = "exit")
=============================================================================
