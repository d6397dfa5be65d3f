------------------------------ MODULE TrackInfo ------------------------------
(***************************************************************************)
(* What the audio thread makes of the first bytes of a track: the MIME     *)
(* type it serves the track under, the parameters parseTrackInfo reads     *)
(* from the header, the container header it adds to raw PCM, and from two  *)
(* tracks in a row whether the renderer must be restarted between them.    *)
(* A header is a function from offsets to bytes.                           *)
(***************************************************************************)
EXTENDS Naturals, Sequences

CONSTANTS Rates, Depths, Channels,   \* parameters of the tracks of a run
          Seconds                    \* their durations

\* The highest rate there is (the default of --max-rate).
MaxRate == 1536000

\* The upper half of a field of 64 bits.
High(v) == (v \div 65536) \div 65536

ASSUME TrackAssumption == /\ Rates \subseteq 1..MaxRate
                          /\ Depths \subseteq 1..32
                          /\ Channels \subseteq 1..8
                          /\ Seconds \subseteq { s \in Nat : High(s) = 0 }

Generic == "application/octet-stream"

\* The magic bytes of the containers; MP3 has a sync word instead, and the
\* samples of raw PCM may look like one.
MimeOf == [fLaC |-> "audio/flac", RIFF |-> "audio/wav", DSD_ |-> "audio/dsf",
           FRM8 |-> "audio/dff",  FORM |-> "audio/aiff", sync |-> "audio/mpeg"]
Magics == DOMAIN MimeOf

Params == [rate : Rates, depth : Depths, channels : Channels, seconds : Seconds]

\* A DSF file has 64 one-bit samples for each sample of the rate it is named after.
DsfFileSize(p) == 92 + 8 * p.rate * p.seconds * p.channels

\* What the fields of a header can say: FLAC has 20 bits for the rate and 36
\* for the number of samples, DSF 64 for the size of the file.
Holds(magic, p) ==
    /\ magic = "fLaC" => p.rate < 1048576 /\ High(p.rate * p.seconds) < 16
    /\ magic = "DSD_" => High(High(DsfFileSize(p))) = 0

\* Tracks LMS may send: a container, or raw PCM under the format code "p", in
\* whole bytes.  The response has the right Content-Type, or (Roon) none.
Tracks ==
    { t \in [raw : {FALSE}, magic : Magics, declared : BOOLEAN, params : Params] :
        Holds(t.magic, t.params) }
      \cup
    { t \in [raw : {TRUE}, magic : {"sync", "none"}, declared : {FALSE}, params : Params] :
        t.params.depth % 8 = 0 }

-----------------------------------------------------------------------------
(* Bytes.                                                                  *)

Word(v) == <<v % 256, (v \div 256) % 256, (v \div 65536) % 256, (v \div 16777216) % 256>>
Bytes(off, bytes) == [i \in off..(off + Len(bytes) - 1) |-> bytes[i - off + 1]]
Put16(off, v)     == [i \in off..(off + 1) |-> Word(v)[i - off + 1]]
Put32(off, v)     == [i \in off..(off + 3) |-> Word(v)[i - off + 1]]
Put64(off, v)     == [i \in off..(off + 7) |-> IF i < off + 4 THEN Word(v)[i - off + 1]
                                               ELSE Word(High(v))[i - off - 3]]
Get16(h, off) == h[off] + h[off + 1] * 256
Get32(h, off) == Get16(h, off) + h[off + 2] * 65536 + h[off + 3] * 16777216
Get64(h, off) == Get32(h, off) + (Get32(h, off + 4) * 65536) * 65536
Fields(fs) == [i \in UNION { DOMAIN f : f \in fs } |-> (CHOOSE f \in fs : i \in DOMAIN f)[i]]

\* FLAC: STREAMINFO at offset 8; 20 bits of rate, 3 of channels - 1, 5 of
\* depth - 1, 36 of samples.
FlacHeader(p) ==
    LET samples == p.rate * p.seconds
        packed  == (p.channels - 1) * 32 + p.depth - 1
    IN  Bytes(18, <<p.rate \div 4096, (p.rate \div 16) % 256,
                    (p.rate % 16) * 16 + (packed \div 16),
                    (packed % 16) * 16 + High(samples),
                    Word(samples)[4], Word(samples)[3], Word(samples)[2], Word(samples)[1]>>)

\* The header for a stream has the largest sizes there are: 2^63 - 1 of data,
\* and of the file 80 more, which wraps only where it is signed.
dsdRate(p) == 64 * p.rate
Largest == <<255, 255, 255, 255, 255, 255, 255, 127>>
buildDsfHeader(p) ==
    Fields({Put64(4, 28), Bytes(12, <<79, 0, 0, 0, 0, 0, 0, 128>>), Put64(20, 0),
            Put64(32, 52), Put32(40, 1), Put32(44, 0),
            Put32(48, IF p.channels = 1 THEN 1 ELSE 2), Put32(52, p.channels),
            Put32(56, dsdRate(p)), Put32(60, 1), Bytes(64, Largest),
            Put32(72, 4096), Put32(76, 0), Bytes(84, Largest)})

\* A DSF file that LMS sends has the same layout, with its own sizes.
DsfHeader(p) ==
    LET sizes == Fields({Put64(12, DsfFileSize(p)), Put64(64, dsdRate(p) * p.seconds)})
    IN  [i \in DOMAIN buildDsfHeader(p) |->
            IF i \in DOMAIN sizes THEN sizes[i] ELSE buildDsfHeader(p)[i]]

blockAlign(p) == p.channels * (p.depth \div 8)

\* RIFF/WAV with an unknown length.
buildWavHeader(p) ==
    Fields({Bytes(4, <<35, 0, 0, 128, 87, 65, 86, 69>>), \* RIFF size, "WAVE"
            Put32(16, 16), Put16(20, 1), Put16(22, p.channels), Put32(24, p.rate),
            Put32(28, p.rate * blockAlign(p)), Put16(32, blockAlign(p)),
            Put16(34, p.depth), Put32(40, 2147483647)})

-----------------------------------------------------------------------------
(* parseTrackInfo.                                                         *)

Unknown == [sampleRate |-> 0, channels |-> 0, bitDepth |-> 0, durationSec |-> 0,
            fileSizeBytes |-> 0]

\* (durationSec has 32 bits: enough for Seconds.)
Duration(samples, rate) == IF rate > 0 /\ samples > 0 THEN samples \div rate ELSE 0

\* Slip: the high bit of the depth, in the byte of the channels, is left out.
flacDepthLow(h) == (h[21] \div 16) + 1

flacDepth(h) == (h[20] % 2) * 16 + (h[21] \div 16) + 1

flacRate(h)     == h[18] * 4096 + h[19] * 16 + (h[20] \div 16)
flacChannels(h) == ((h[20] \div 2) % 8) + 1
flacSamples(h)  == ((h[21] % 16) * 65536) * 65536
                     + h[22] * 16777216 + h[23] * 65536 + h[24] * 256 + h[25]

parseFlac(h) ==
    [Unknown EXCEPT !.sampleRate = flacRate(h), !.channels = flacChannels(h),
                    !.bitDepth = flacDepth(h),
                    !.durationSec = Duration(flacSamples(h), flacRate(h))]

parseDsf(h) ==
    LET rate == Get32(h, 32)
    IN  [Unknown EXCEPT !.fileSizeBytes = Get64(h, 12), !.sampleRate = rate,
                        !.durationSec = Duration(Get64(h, 40), rate)]

\* The MIME type after the look at the magic bytes.
contentType(t) ==
    IF t.raw THEN "audio/wav" ELSE MimeOf[t.magic]

\* Slip: the magic bytes of raw PCM are looked at too.
detectAll(t) == t.magic \in Magics

detect(t) == ~t.raw /\ t.magic \in Magics

parseTrackInfo(t) ==
    CASE contentType(t) = "audio/flac" -> parseFlac(FlacHeader(t.params))
      [] contentType(t) = "audio/dsf"  -> parseDsf(DsfHeader(t.params))
      [] OTHER                         -> Unknown

\* What the renderer is told: the type of the container, or a WAV header before
\* raw PCM; and the length of the body when it is known (0: it is not).
served(t) ==
    [mime   |-> IF t.declared \/ detect(t) THEN MimeOf[t.magic]
                ELSE IF t.raw THEN "audio/wav" ELSE Generic,
     header |-> IF t.raw /\ ~detect(t) THEN buildWavHeader(t.params) ELSE <<>>,
     length |-> parseTrackInfo(t).fileSizeBytes]

\* Whether a track after another one needs Stop, SetAVTransportURI and Play.
crossFormat(before, after) ==
    LET b == parseTrackInfo(before)
        a == parseTrackInfo(after)
    IN  \/ contentType(before) # contentType(after)
        \/ /\ b.sampleRate > 0 /\ a.sampleRate > 0
           /\ <<b.sampleRate, b.bitDepth, b.channels>> # <<a.sampleRate, a.bitDepth, a.channels>>

-----------------------------------------------------------------------------
VARIABLES before, track     \* the track that plays, and the one that follows

TrackInit == before \in Tracks /\ track = before
TrackNext == track = before /\ track' \in Tracks /\ UNCHANGED before
TrackSpec == TrackInit /\ [][TrackNext]_<<before, track>>

(* main.cpp:856-868: when a FLAC file of other parameters follows another, *)
(* or another container, the renderer is restarted; when nothing changes   *)
(* it is not, and its duration is the one the header gives.                *)
FormatChangeSeen ==
    LET same == track.params.rate = before.params.rate
                /\ track.params.depth = before.params.depth
                /\ track.params.channels = before.params.channels
    IN  {before.raw, track.raw} = {FALSE} /\ track.magic = "fLaC" =>
            /\ crossFormat(before, track) <=> (before.magic # "fLaC" \/ ~same)
            /\ parseTrackInfo(track).durationSec = track.params.seconds

(* main.cpp:777-824: a stream is served under the type of what its bytes   *)
(* are.  Raw PCM is never taken for MP3 because of its samples, and goes   *)
(* out with a WAV header that describes the samples that follow.           *)
ServedAsWhatItIs ==
    LET s == served(track)
        p == track.params
    IN  IF track.raw
        THEN /\ s.mime = "audio/wav"
             /\ Get32(s.header, 24) = p.rate
             /\ Get16(s.header, 22) = p.channels
             /\ Get32(s.header, 28) * 8 = p.rate * p.channels * p.depth
             /\ Get16(s.header, 32) * 8 = p.channels * p.depth
        ELSE /\ s.mime = MimeOf[track.magic]
             /\ s.length = IF track.magic = "DSD_" THEN DsfFileSize(p) ELSE 0
=============================================================================
