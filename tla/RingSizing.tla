----------------------------- MODULE RingSizing -----------------------------
(***************************************************************************)
(* The size AudioHttpServer::setFormat gives the ring for each format that *)
(* main.cpp derives from a strm-s, and the prebuffer loop that fills the   *)
(* ring before anybody may read from it.  If the prebuffer did not fit,    *)
(* writeAudio would wait for a reader who waits for the prebuffer.         *)
(***************************************************************************)
EXTENDS Naturals

CONSTANT ReadSizes      \* the sizes one readWithTimeout may return

\* Slip: the minimum before CHANGELOG.md:43.
MIN_BUFFER_SIZE_64K == 64 * 1024

MIN_BUFFER_SIZE    == 512 * 1024
MAX_BUFFER_SIZE    == 32 * 1024 * 1024
PCM_BUFFER_SECONDS == 4
PREBUFFER_BYTES    == 256 * 1024
HTTP_BUF_BYTES     == 65536

ASSUME ReadSizesAssumption == ReadSizes \subseteq 1..HTTP_BUF_BYTES

\* The rates and depths a strm-s can code; 0 is "self-describing".
SampleRates == {0, 8000, 11025, 12000, 16000, 22050, 24000, 32000, 44100,
                48000, 88200, 96000, 176400, 192000, 352800, 384000, 705600,
                768000, 1411200, 1536000}
SampleSizes == {0, 8, 16, 24, 32}
Commands == [raw : BOOLEAN, rate : SampleRates, size : SampleSizes, channels : {1, 2}]

\* Raw PCM takes the real values; anything else a 44.1 kHz / 24 bit stand-in.
audioFmt(cmd) ==
    IF cmd.raw
    THEN [sampleRate |-> IF cmd.rate # 0 THEN cmd.rate ELSE 44100,
          bitDepth   |-> IF cmd.size # 0 THEN cmd.size ELSE 16,
          channels   |-> cmd.channels]
    ELSE [sampleRate |-> 44100, bitDepth |-> 24, channels |-> 2]

bytesPerFrame(f)  == f.channels * (f.bitDepth \div 8)
bytesPerSecond(f) == f.sampleRate * bytesPerFrame(f)

Clamp(lo, x, hi) == IF x < lo THEN lo ELSE IF x > hi THEN hi ELSE x

\* Whole frames only.
targetSize(f) ==
    LET size  == Clamp(MIN_BUFFER_SIZE, bytesPerSecond(f) * PCM_BUFFER_SECONDS,
                       MAX_BUFFER_SIZE)
        frame == bytesPerFrame(f)
    IN  (size \div frame) * frame

VARIABLES cmd,          \* the strm-s of the track
          capacity,     \* m_ringCapacity
          used,         \* ringAvailable: nobody reads during the prebuffer
          prebuffered   \* bytes the prebuffer loop has taken from LMS

vars == <<cmd, capacity, used, prebuffered>>

free == capacity - used - 1

\* Slip: the ring of the previous track is kept.
StartTrackKeeps(c) ==
    /\ cmd' = c
    /\ used' = 0
    /\ prebuffered' = 0
    /\ UNCHANGED capacity

StartTrack(c) ==
    /\ cmd' = c
    /\ capacity' = targetSize(audioFmt(c))
    /\ used' = 0
    /\ prebuffered' = 0

Init ==
    /\ cmd \in Commands
    /\ capacity = targetSize(audioFmt(cmd))
    /\ used = 0
    /\ prebuffered = 0

\* One turn of the loop.  writeAudio returns only when all n bytes are in.
PrebufferRead ==
    /\ prebuffered < PREBUFFER_BYTES
    /\ \E n \in ReadSizes :
         /\ n <= free
         /\ used' = used + n
         /\ prebuffered' = prebuffered + n
    /\ UNCHANGED <<cmd, capacity>>

NextTrack == \E c \in Commands : StartTrack(c)

Next == PrebufferRead \/ NextTrack

Spec == Init /\ [][Next]_vars

TypeOK ==
    /\ cmd \in Commands
    /\ capacity = targetSize(audioFmt(cmd))
    /\ used \in Nat /\ prebuffered \in Nat

(* AudioHttpServer.h:167: for every format a strm-s can ask for and every  *)
(* way LMS can cut the data, the next read of the prebuffer loop fits into *)
(* the ring, so the loop never waits for a reader that does not exist yet. *)
PrebufferNeverBlocks ==
    prebuffered < PREBUFFER_BYTES => HTTP_BUF_BYTES <= free
=============================================================================
