--------------------------- MODULE HttpStreamClient ---------------------------
(***************************************************************************)
(* One stream from LMS: connect() sends the request and reads the header   *)
(* of the response byte by byte; then the audio thread calls               *)
(* readWithTimeout in a loop.  When the header announces ICY metadata, a   *)
(* block of it follows every metaInt bytes of audio and must be dropped.   *)
(* Another thread may stop the reader and disconnect at any moment.        *)
(* TCP delivers the response in order, cut anywhere.                       *)
(***************************************************************************)
EXTENDS Naturals, SequencesExt

CONSTANTS AudioLen,      \* bytes of audio in a response
          MetaInts,      \* values of icy-metaint; 0: the header has none
          Headers,       \* headers, as sequences of "cr", "lf" and "ch"
          HeaderLimit,   \* 16384 in the code
          MetaUnit,      \* 16 in the code
          MaxUnits,      \* 255 in the code: what the length byte can hold
          DiscardLen,    \* sizeof(discardBuf)
          MaxLen         \* sizeof(httpBuf)

\* A header has an empty line at its end and nowhere before; a cut one has none.
EmptyLine == <<"cr", "lf", "cr", "lf">>
ASSUME HttpAssumption ==
    /\ {AudioLen, HeaderLimit, MetaUnit, MaxUnits, DiscardLen, MaxLen} \subseteq Nat
    /\ MetaInts \subseteq Nat
    /\ Headers \subseteq Seq({"cr", "lf", "ch"})
    /\ \A h \in Headers : \A n \in 4..Len(h) :
          SubSeq(h, n - 3, n) = EmptyLine => n = Len(h)

-----------------------------------------------------------------------------
(* What LMS sends.                                                         *)

Item(kind, val) == [kind |-> kind, val |-> val]

AudioFrom(a, n) == [i \in 1..n |-> Item("audio", a + i - 1)]
MetaBlock(units) ==
    <<Item("length", units)>> \o [i \in 1..(units * MetaUnit) |-> Item("meta", i)]

\* AudioLen bytes of audio, the k-th metadata block having units[k] units.
Body(metaInt, units) ==
    LET blocks == DOMAIN units
        whole  == Len(units) * metaInt
    IN  FlattenSeq([k \in blocks |-> AudioFrom((k - 1) * metaInt + 1, metaInt)
                                     \o MetaBlock(units[k])])
        \o AudioFrom(whole + 1, AudioLen - whole)

UnitsOf(metaInt) ==
    IF metaInt = 0 THEN {<<>>} ELSE [1..(AudioLen \div metaInt) -> 0..MaxUnits]

Responses ==
    UNION { { [metaInt |-> m,
               bytes   |-> [i \in DOMAIN h |-> Item(h[i], 0)] \o Body(m, u)]
              : u \in UnitsOf(m), h \in Headers } : m \in MetaInts }

VARIABLES
    response,    \* what LMS sends
    arrived,     \* bytes of it that have reached the socket
    taken,       \* bytes of it recv has returned
    peer,        \* LMS's end: "open", "fin" after a close, "reset"
    sock,        \* m_socket: "open", "shut" after shutdown(), "closed" (-1)
    connected,   \* m_connected
    untilMeta,   \* m_icyBytesUntilMeta
    icyMetaInt,  \* m_icyMetaInt
    endSeq,      \* characters of CR LF CR LF seen in a row
    discard,     \* metadata bytes still to drop
    got,         \* the bytes read() has returned
    running,     \* audioTestRunning
    readerPc,    \* where the reader is
    stopPc       \* where the thread that stops it is

lmsEnd   == <<response, arrived, peer>>
stopVars == <<running, stopPc>>
httpVars == <<lmsEnd, taken, sock, connected, untilMeta, icyMetaInt, endSeq,
              discard, got, stopVars, readerPc>>

\* connect() has sent the request on a new socket.
HttpInit ==
    /\ response \in Responses
    /\ arrived = 0 /\ taken = 0 /\ peer = "open"
    /\ sock = "open" /\ connected = FALSE
    /\ untilMeta = 0 /\ icyMetaInt = 0 /\ endSeq = 0 /\ discard = 0
    /\ got = <<>>
    /\ running = TRUE
    /\ readerPc = "header" /\ stopPc = "away"

\* The same client connects again, for a later strm-s.  (A disconnect that
\* another thread is still in would hit the new socket: see StreamControl.)
Connect ==
    /\ readerPc \in {"done", "failed"} /\ stopPc = "away"
    /\ response' \in Responses
    /\ arrived' = 0 /\ taken' = 0 /\ peer' = "open"
    /\ sock' = "open" /\ connected' = FALSE
    /\ untilMeta' = 0 /\ icyMetaInt' = 0 /\ endSeq' = 0 /\ discard' = 0
    /\ got' = <<>>
    /\ readerPc' = "header"
    /\ UNCHANGED stopVars

\* LMS sends on, closes (perhaps early), or its host drops the connection.
LmsSends ==
    /\ peer = "open"
    /\ \E n \in 1..(Len(response.bytes) - arrived) : arrived' = arrived + n
    /\ UNCHANGED <<response, peer, taken, sock, connected, untilMeta, icyMetaInt,
                   endSeq, discard, got, stopVars, readerPc>>
LmsEnds ==
    /\ peer = "open"
    /\ peer' \in {"fin", "reset"}
    /\ UNCHANGED <<response, arrived, taken, sock, connected, untilMeta,
                   icyMetaInt, endSeq, discard, got, stopVars, readerPc>>

-----------------------------------------------------------------------------
(* recv on m_socket: it returns data, or nothing more will come.  Until    *)
(* one or the other is true it blocks, with no limit of time.              *)

Pending == arrived - taken
Shorter(a, b) == IF a <= b THEN a ELSE b

\* What has arrived is still returned after a shutdown.
RecvData(max) == sock # "closed" /\ Pending > 0 /\ taken' = taken + Shorter(max, Pending)
RecvEnds == sock = "closed" \/ (Pending = 0 /\ (peer # "open" \/ sock = "shut"))

\* The bytes the recv of this step returned.
Received == SubSeq(response.bytes, taken + 1, taken')

(* connect(): the header, one character at a time.                         *)

NextEndSeq(c) ==
    IF (c = "cr" /\ endSeq \in {0, 2}) \/ (c = "lf" /\ endSeq \in {1, 3})
    THEN endSeq + 1 ELSE 0

\* Slip: no limit to the size of the header.
HeaderFits(size) == TRUE

HeaderSizeOK(size) == size <= HeaderLimit

\* The header is complete at CR LF CR LF, and given up beyond HeaderLimit.
ReadHeader ==
    /\ readerPc = "header"
    /\ RecvData(1)
    /\ endSeq' = NextEndSeq(Received[1].kind)
    /\ LET complete == endSeq' = 4
       IN  /\ readerPc' = IF complete THEN "poll"
                          ELSE IF HeaderSizeOK(taken') THEN "header" ELSE "failed"
           /\ sock' = IF readerPc' = "failed" THEN "closed" ELSE sock
           /\ connected' = complete
           /\ IF complete /\ response.metaInt > 0
              THEN icyMetaInt' = response.metaInt /\ untilMeta' = response.metaInt
              ELSE UNCHANGED <<icyMetaInt, untilMeta>>
           /\ running' = IF complete THEN TRUE ELSE running
    /\ UNCHANGED <<lmsEnd, discard, got, stopPc>>

HeaderCut ==
    /\ readerPc = "header"
    /\ RecvEnds
    /\ readerPc' = "failed" /\ sock' = "closed"
    /\ UNCHANGED <<lmsEnd, taken, connected, untilMeta, icyMetaInt, endSeq,
                   discard, got, stopVars>>

-----------------------------------------------------------------------------
(* readWithTimeout, in the loop of the audio thread.                       *)

ReaderAt(pc) == readerPc = pc /\ UNCHANGED <<lmsEnd, endSeq, icyMetaInt, stopVars>>

\* The loop ends: it was stopped, or it has seen the end of the stream.
Ends == readerPc' = "done" /\ UNCHANGED <<taken, untilMeta, discard, got, sock>>

LoopStops == ReaderAt("poll") /\ ~running /\ Ends /\ UNCHANGED connected

\* Slip: the end LMS announces counts as a hang-up.
PollHupOrEnd == sock # "open" \/ peer # "open"

\* POLLHUP: both directions are closed.  LMS's close alone is POLLIN.
PollHup == sock # "open" \/ peer = "reset"

HangUp == ReaderAt("poll") /\ running /\ PollHup /\ Ends /\ connected' = FALSE

\* Nothing within the time limit: the loop looks at isConnected().
TimesOut ==
    /\ ReaderAt("poll") /\ running /\ ~PollHup /\ Pending = 0 /\ peer = "open"
    /\ ~connected
    /\ Ends /\ UNCHANGED connected

Readable ==
    /\ ReaderAt("poll") /\ running /\ ~PollHup
    /\ Pending > 0 \/ peer # "open"
    /\ readerPc' = IF icyMetaInt # 0 /\ untilMeta = 0 THEN "length" ELSE "audio"
    /\ UNCHANGED <<taken, sock, connected, untilMeta, discard, got>>

CanRead == IF icyMetaInt = 0 THEN MaxLen ELSE Shorter(MaxLen, untilMeta)

ReadAudio ==
    /\ ReaderAt("audio")
    /\ RecvData(CanRead)
    /\ got' = got \o Received
    /\ untilMeta' = IF icyMetaInt = 0 THEN 0 ELSE untilMeta - Len(Received)
    /\ readerPc' = "poll"
    /\ UNCHANGED <<sock, connected, discard>>

\* skipIcyMetadata: the length byte, then the block.
SkipLength ==
    /\ ReaderAt("length")
    /\ RecvData(1)
    /\ discard' = Received[1].val * MetaUnit
    /\ readerPc' = IF discard' = 0 THEN "audio" ELSE "meta"
    /\ untilMeta' = IF discard' = 0 THEN icyMetaInt ELSE untilMeta
    /\ UNCHANGED <<sock, connected, got>>

\* Slip: one recv is taken for the whole block.
SkipMetaOnce ==
    /\ ReaderAt("meta")
    /\ RecvData(Shorter(discard, DiscardLen))
    /\ discard' = 0
    /\ readerPc' = "audio"
    /\ untilMeta' = icyMetaInt
    /\ UNCHANGED <<sock, connected, got>>

SkipMeta ==
    /\ ReaderAt("meta")
    /\ RecvData(Shorter(discard, DiscardLen))
    /\ discard' = discard - Len(Received)
    /\ readerPc' = IF discard' = 0 THEN "audio" ELSE "meta"
    /\ untilMeta' = IF discard' = 0 THEN icyMetaInt ELSE untilMeta
    /\ UNCHANGED <<sock, connected, got>>

StreamCut ==
    /\ \E pc \in {"audio", "length", "meta"} : ReaderAt(pc)
    /\ RecvEnds
    /\ Ends /\ connected' = FALSE

-----------------------------------------------------------------------------
(* strm-q, strm-f or stopAudioThread on another thread.                    *)

StopGoes(from, to) ==
    /\ stopPc = from /\ stopPc' = to
    /\ UNCHANGED <<lmsEnd, taken, untilMeta, icyMetaInt, endSeq, discard, got, readerPc>>

StopReader == StopGoes("away", "flag") /\ running' = FALSE /\ UNCHANGED <<sock, connected>>
LowerConnected ==
    StopGoes("flag", "shutdown") /\ connected' = FALSE /\ UNCHANGED <<sock, running>>

\* Slip: disconnect closes the socket without shutting it down.
ShutdownNothing ==
    StopGoes("shutdown", "close") /\ UNCHANGED <<sock, connected, running>>

Shutdown ==
    /\ StopGoes("shutdown", "close")
    /\ sock' = IF sock = "open" THEN "shut" ELSE sock
    /\ UNCHANGED <<connected, running>>
\* close() ends no recv that another thread is in; the shutdown before it does.
CloseSocket ==
    /\ StopGoes("close", "away")
    /\ sock' = IF sock = "open" THEN "open" ELSE "closed"
    /\ UNCHANGED <<connected, running>>

-----------------------------------------------------------------------------
Reader ==
    \/ ReadHeader \/ HeaderCut
    \/ LoopStops \/ HangUp \/ TimesOut \/ Readable
    \/ ReadAudio \/ SkipLength \/ SkipMeta \/ StreamCut
Stopper == LowerConnected \/ Shutdown \/ CloseSocket
HttpNext == LmsSends \/ LmsEnds \/ Connect \/ Reader \/ StopReader \/ Stopper

\* The two threads run; LMS owes nothing.
HttpSpec ==
    HttpInit /\ [][HttpNext]_httpVars /\ WF_httpVars(Reader) /\ WF_httpVars(Stopper)

HttpTypeOK ==
    /\ arrived \in 0..Len(response.bytes) /\ taken \in 0..arrived
    /\ peer \in {"open", "fin", "reset"} /\ sock \in {"open", "shut", "closed"}
    /\ {connected, running} \subseteq BOOLEAN
    /\ icyMetaInt \in MetaInts \cup {0} /\ untilMeta \in 0..icyMetaInt
    /\ endSeq \in 0..4 /\ discard \in 0..(MaxUnits * MetaUnit)
    /\ readerPc = "header" => taken <= HeaderLimit

\* The audio among the first n bytes of the response.
AudioIn(n) == {b \in ToSet(SubSeq(response.bytes, 1, n)) : b.kind = "audio"}

(* HttpStreamClient.cpp:166-191: however TCP cuts the response, read()     *)
(* returns the audio from its first byte on, in order, with no byte of the *)
(* header or of a metadata block in between and none missing.              *)
DeliversAudio == IsPrefix(got, AudioFrom(1, AudioLen))

(* HttpStreamClient.cpp:211: a stream that nobody stopped and that LMS     *)
(* ended with a close has been read to the last byte LMS sent, whenever    *)
(* the close arrives; only a reset may lose data.  (The bytes of audio are *)
(* numbered: with DeliversAudio, equal sets are equal sequences.)          *)
DeliversAll ==
    (readerPc = "done" /\ peer = "fin" /\ sock = "open" /\ stopPc = "away")
        => ToSet(got) = AudioIn(arrived)

(* Whatever recv the reader is in, of the header, the audio or a metadata  *)
(* block, a disconnect or the end of LMS's stream lets it out.             *)
ReaderReturns ==
    (stopPc = "close" \/ peer # "open") ~> readerPc \in {"done", "failed"}
=============================================================================
