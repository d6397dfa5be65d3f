----------------------------- MODULE InputProofs ------------------------------
(***************************************************************************)
(* What the program makes of what it is given: of a strm-s the size of the *)
(* ring (RingSizing), of the first bytes of a track its format             *)
(* (TrackInfo), of the command line its configuration (Options).           *)
(***************************************************************************)
EXTENDS RingSizing, TrackInfo, Options, Recursion

-----------------------------------------------------------------------------
(* RingSizing: the prebuffer fits the ring for every read size, not only   *)
(* those of the model-checked instance.                                    *)

(* The frame sizes that occur.                                             *)
LEMMA FrameSizes ==
    ASSUME NEW c \in Commands
    PROVE  /\ bytesPerFrame(audioFmt(c)) \in {1, 2, 3, 4, 6, 8}
           /\ audioFmt(c).sampleRate \in Nat
<1>1. c.channels \in {1, 2} /\ c.size \in {0, 8, 16, 24, 32} /\ c.rate \in Nat
  BY DEF Commands, SampleSizes, SampleRates
<1>2. CASE c.raw
  <2>1. /\ audioFmt(c).bitDepth \in {8, 16, 24, 32}
        /\ audioFmt(c).channels \in {1, 2}
        /\ audioFmt(c).sampleRate \in Nat
    BY <1>1, <1>2 DEF audioFmt
  <2>2. audioFmt(c).bitDepth \div 8 \in {1, 2, 3, 4}
    BY <2>1
  <2> QED  BY <2>1, <2>2 DEF bytesPerFrame
<1>3. CASE ~c.raw
  BY <1>3 DEF audioFmt, bytesPerFrame
<1> QED  BY <1>2, <1>3

(* Rounding down to whole frames costs less than one frame.                *)
LEMMA RoundDown ==
    ASSUME NEW s \in Nat, NEW f \in {1, 2, 3, 4, 6, 8}
    PROVE  /\ (s \div f) * f \in Nat
           /\ (s \div f) * f > s - 8
  OBVIOUS

(* Every ring holds the prebuffer, one more read and the spare byte.       *)
LEMMA RingLargeEnough ==
    ASSUME NEW c \in Commands
    PROVE  /\ targetSize(audioFmt(c)) \in Nat
           /\ targetSize(audioFmt(c)) > PREBUFFER_BYTES + HTTP_BUF_BYTES
<1> DEFINE f == audioFmt(c)
           fr == bytesPerFrame(f)
           raw == bytesPerSecond(f) * PCM_BUFFER_SECONDS
           size == Clamp(MIN_BUFFER_SIZE, raw, MAX_BUFFER_SIZE)
<1>1. fr \in {1, 2, 3, 4, 6, 8} /\ f.sampleRate \in Nat
  BY FrameSizes
<1>2. raw \in Nat
  <2>1. bytesPerSecond(f) \in Nat
    BY <1>1 DEF bytesPerSecond
  <2> HIDE DEF f
  <2> QED  BY <2>1 DEF PCM_BUFFER_SECONDS
<1>3. size \in Nat /\ size >= MIN_BUFFER_SIZE
  <2> HIDE DEF raw
  <2> QED  BY <1>2 DEF Clamp, MIN_BUFFER_SIZE, MAX_BUFFER_SIZE
<1>4. targetSize(f) = (size \div fr) * fr
  BY DEF targetSize
<1> HIDE DEF size, fr
<1>5. targetSize(f) \in Nat /\ targetSize(f) > size - 8
  BY <1>1, <1>3, <1>4, RoundDown
<1> USE DEF fr
<1> QED  BY <1>3, <1>5
         DEF MIN_BUFFER_SIZE, PREBUFFER_BYTES, HTTP_BUF_BYTES

Inv == TypeOK /\ used = prebuffered

(* The inductive invariant: while the prebuffer loop runs nobody reads, so *)
(* the ring holds exactly what the loop has taken from LMS.                *)
LEMMA InvInductive == Spec => []Inv
<1>1. Init => Inv
  BY DEF Init, Inv, TypeOK
<1>2. ASSUME Inv, [Next]_vars PROVE Inv'
  <2>1. ASSUME PrebufferRead PROVE Inv'
    <3>1. PICK n \in ReadSizes : used' = used + n /\ prebuffered' = prebuffered + n
      BY <2>1 DEF PrebufferRead
    <3>2. n \in Nat
      <4>1. HTTP_BUF_BYTES \in Nat
        BY DEF HTTP_BUF_BYTES
      <4>2. n \in 1..HTTP_BUF_BYTES
        BY ReadSizesAssumption, Zenon
      <4> QED  BY <4>1, <4>2
    <3>3. cmd' = cmd /\ capacity' = capacity
      BY <2>1 DEF PrebufferRead
    <3>4. used' \in Nat /\ prebuffered' \in Nat /\ used' = prebuffered'
      BY <1>2, <3>1, <3>2 DEF Inv, TypeOK
    <3>5. cmd' \in Commands /\ capacity' = targetSize(audioFmt(cmd'))
      BY <1>2, <3>3, Zenon DEF Inv, TypeOK
    <3> QED  BY <3>4, <3>5 DEF Inv, TypeOK
  <2>2. ASSUME NEW c \in Commands, StartTrack(c) PROVE Inv'
    BY <2>2 DEF StartTrack, Inv, TypeOK
  <2>3. ASSUME UNCHANGED vars PROVE Inv'
    BY <1>2, <2>3 DEF vars, Inv, TypeOK
  <2> QED  BY <1>2, <2>1, <2>2, <2>3 DEF Next, NextTrack
<1> QED  BY <1>1, <1>2, PTL DEF Spec

(* The ring always has the size setFormat computes for the command, and the *)
(* counters never wrap below zero.                                         *)
THEOREM SizingTypeCorrect == Spec => []TypeOK
<1>1. Inv => TypeOK
  BY DEF Inv
<1> QED  BY <1>1, InvInductive, PTL

(* For every format a strm-s can ask for and every sequence of read sizes, *)
(* the prebuffer loop never blocks in writeAudio.                          *)
THEOREM PrebufferAlwaysFits == Spec => []PrebufferNeverBlocks
<1>1. Inv => PrebufferNeverBlocks
  <2> SUFFICES ASSUME Inv, prebuffered < PREBUFFER_BYTES
               PROVE  HTTP_BUF_BYTES <= free
    BY DEF PrebufferNeverBlocks
  <2>1. capacity \in Nat /\ capacity > PREBUFFER_BYTES + HTTP_BUF_BYTES
    BY RingLargeEnough DEF Inv, TypeOK
  <2> QED  BY <2>1 DEF Inv, TypeOK, free, PREBUFFER_BYTES, HTTP_BUF_BYTES
<1> QED  BY <1>1, InvInductive, PTL

-----------------------------------------------------------------------------
(* TrackInfo: the parameters a header was written with are those that are  *)
(* read from it, for all that its fields can hold.                         *)

(* A byte of a header made of fields is that of the one     *)
(* field that has it.                                       *)
LEMMA FieldAt ==
    ASSUME NEW fs, NEW f \in fs, NEW i \in DOMAIN f, \A g \in fs : i \in DOMAIN g => g = f
    PROVE  Fields(fs)[i] = f[i] /\ i \in DOMAIN Fields(fs)
  BY SMT DEF Fields

(* The upper half of a number is a number.                  *)
LEMMA HighIsNat == ASSUME NEW v \in Nat PROVE High(v) \in Nat
  BY SMT DEF High

(* A word is four bytes.                                    *)
LEMMA WordTyped ==
    ASSUME NEW v \in Nat
    PROVE  /\ Word(v)[1] \in Nat /\ Word(v)[2] \in Nat
           /\ Word(v)[3] \in Nat /\ Word(v)[4] \in Nat
<1>1. /\ v % 256 \in Nat /\ (v \div 256) % 256 \in Nat
      /\ (v \div 65536) % 256 \in Nat /\ (v \div 16777216) % 256 \in Nat
  BY SMT
<1> QED  BY <1>1, SMT DEF Word

(* A number is the four bytes of its word and its upper     *)
(* half.                                                    *)
LEMMA LowWord ==
    ASSUME NEW v \in Nat
    PROVE  Word(v)[1] + Word(v)[2] * 256 + Word(v)[3] * 65536 + Word(v)[4] * 16777216
             + (High(v) * 65536) * 65536 = v
<1> DEFINE b0 == v % 256
           b1 == (v \div 256) % 256
           b2 == (v \div 65536) % 256
           b3 == (v \div 16777216) % 256
           a  == v \div 65536
           h  == High(v)
<1>1. b0 \in Nat /\ b1 \in Nat /\ b2 \in Nat /\ b3 \in Nat /\ a \in Nat /\ h \in Nat
  BY SMT DEF High
<1>2. b0 + b1 * 256 + a * 65536 = v
  BY SMT
<1>3. b2 + b3 * 256 + h * 65536 = a
  BY SMT DEF High
<1> HIDE DEF b0, b1, b2, b3, a, h
<1>4. b0 + b1 * 256 + b2 * 65536 + b3 * 16777216 + (h * 65536) * 65536 = v
  BY <1>1, <1>2, <1>3, SMT
<1>5. Word(v)[1] = b0 /\ Word(v)[2] = b1 /\ Word(v)[3] = b2 /\ Word(v)[4] = b3
  BY SMT DEF Word, b0, b1, b2, b3
<1>6. h = High(v)
  BY DEF h
<1> QED  BY <1>4, <1>5, <1>6, SMT

(* A number below 2^16 is its two lower bytes.              *)
LEMMA HalfWhole ==
    ASSUME NEW v \in Nat, v < 65536
    PROVE  Word(v)[1] + Word(v)[2] * 256 = v
<1>1. (v % 256) + ((v \div 256) % 256) * 256 = v
  <2>1. PICK q \in Nat : q = v \div 256
    BY SMT
  <2>2. q < 256 /\ (v % 256) + q * 256 = v
    BY <2>1, SMT
  <2>3. q % 256 = q
    BY <2>2, SMT
  <2> QED  BY <2>1, <2>2, <2>3, SMT
<1>2. Word(v)[1] = v % 256 /\ Word(v)[2] = (v \div 256) % 256
  BY SMT DEF Word
<1> QED  BY <1>1, <1>2, SMT

(* A length in whole seconds comes back from the samples it *)
(* was turned into.                                         *)
LEMMA SecondsBack ==
    ASSUME NEW r \in Nat, r > 0, NEW s \in Nat
    PROVE  Duration(r * s, r) = s
<1>1. (r * s) \div r = s
  BY SMTT(20)
<1>2. CASE s = 0
  BY <1>2, SMT DEF Duration
<1>3. CASE s > 0
  <2>1. r * s > 0
    BY <1>3, SMT
  <2> QED  BY <1>1, <2>1, SMT DEF Duration
<1> QED  BY <1>2, <1>3, SMT

(* The bits of three bytes STREAMINFO keeps the rate in     *)
(* give it back.                                            *)
LEMMA FlacRate ==
    ASSUME NEW v \in Nat, NEW x \in Nat, x < 16
    PROVE  (v \div 4096) * 4096 + ((v \div 16) % 256) * 16 + (((v % 16) * 16 + x) \div 16) = v
  BY SMTT(20)


Reads(h, off, b1, b2, b3, b4, b5, b6, b7, b8) ==
    /\ h[off] = b1 /\ h[off + 1] = b2 /\ h[off + 2] = b3 /\ h[off + 3] = b4
    /\ h[off + 4] = b5 /\ h[off + 5] = b6 /\ h[off + 6] = b7 /\ h[off + 7] = b8

(* What Bytes writes at an offset stands there.             *)
LEMMA BytesAt ==
    ASSUME NEW off \in Nat, NEW b1, NEW b2, NEW b3, NEW b4, NEW b5, NEW b6, NEW b7, NEW b8
    PROVE  /\ Reads(Bytes(off, <<b1, b2, b3, b4, b5, b6, b7, b8>>), off,
                    b1, b2, b3, b4, b5, b6, b7, b8)
           /\ DOMAIN Bytes(off, <<b1, b2, b3, b4, b5, b6, b7, b8>>) = off..(off + 7)
<1> DEFINE bs == <<b1, b2, b3, b4, b5, b6, b7, b8>>
           h == Bytes(off, bs)
<1>1. Len(bs) = 8
  BY SMT
<1>2. h = [i \in off..(off + 7) |-> bs[i - off + 1]]
  <2>1. off + 8 - 1 = off + 7
    BY SMT
  <2> QED  BY <1>1, <2>1, SMT DEF Bytes
<1>3. /\ bs[1] = b1 /\ bs[2] = b2 /\ bs[3] = b3 /\ bs[4] = b4
      /\ bs[5] = b5 /\ bs[6] = b6 /\ bs[7] = b7 /\ bs[8] = b8
  BY SMT
<1> HIDE DEF bs, h
<1>4. DOMAIN h = off..(off + 7)
  BY <1>2, SMT
<1>5. \A k \in 0..7 : h[off + k] = bs[k + 1]
  BY <1>2, SMT
<1>6. Reads(h, off, b1, b2, b3, b4, b5, b6, b7, b8)
  BY <1>3, <1>5, SMT DEF Reads
<1> QED  BY <1>4, <1>6, Zenon DEF h, bs

ParamsOK(p) ==
    /\ p.rate \in 1..MaxRate
    /\ p.depth \in 1..32
    /\ p.channels \in 1..8
    /\ p.seconds \in Nat

(* Every set of stream parameters is in the ranges the      *)
(* headers can hold.                                        *)
LEMMA ParamsTyped == ASSUME NEW p \in Params PROVE ParamsOK(p)
<1>1. p.rate \in Rates /\ p.depth \in Depths /\ p.channels \in Channels /\ p.seconds \in Seconds
  BY Zenon DEF Params
<1> QED  BY <1>1, TrackAssumption, Zenon DEF ParamsOK

(* The largest rate is a small number.                      *)
LEMMA RateBound == MaxRate \in Nat /\ MaxRate < 2000000
  BY SMT DEF MaxRate

(* parseTrackInfo reads from a STREAMINFO the rate, depth,  *)
(* channels and length it was written with.                 *)
LEMMA FlacRead ==
    ASSUME NEW p \in Params, Holds("fLaC", p)
    PROVE  LET i == parseFlac(FlacHeader(p)) IN
           /\ i.sampleRate = p.rate
           /\ i.channels = p.channels
           /\ i.bitDepth = p.depth
           /\ i.durationSec = p.seconds
           /\ i.fileSizeBytes = 0
<1>1. PICK r \in 1..MaxRate, c \in 1..8, d \in 1..32, s \in Nat :
        r = p.rate /\ c = p.channels /\ d = p.depth /\ s = p.seconds
  BY ParamsTyped, Zenon DEF ParamsOK
<1>0. r \in Nat /\ r > 0
  BY RateBound, SMT
<1>2. PICK n \in Nat : n = r * s
  BY <1>0, SMT
<1>3. PICK g \in Nat : g = High(n) /\ g < 16
  BY <1>1, <1>2, HighIsNat, SMT DEF Holds
<1>4. PICK x : x = (c - 1) * 32 + d - 1
  BY Zenon
<1>5. PICK h18, h19 : h18 = r \div 4096 /\ h19 = (r \div 16) % 256
  BY SMT
<1>6. PICK h20, h21 : h20 = (r % 16) * 16 + (x \div 16) /\ h21 = (x % 16) * 16 + g
  BY Zenon
<1> DEFINE h == FlacHeader(p)
           w == Word(n)
<1>7. h = Bytes(18, <<h18, h19, h20, h21, w[4], w[3], w[2], w[1]>>)
  BY <1>1, <1>2, <1>3, <1>4, <1>5, <1>6, SMT DEF FlacHeader
<1>8. PICK b0 \in Nat, b1 \in Nat, b2 \in Nat, b3 \in Nat :
            b0 = w[1] /\ b1 = w[2] /\ b2 = w[3] /\ b3 = w[4]
  BY WordTyped, Zenon
<1>9. /\ h[18] = h18 /\ h[19] = h19 /\ h[20] = h20 /\ h[21] = h21
      /\ h[22] = b3 /\ h[23] = b2 /\ h[24] = b1 /\ h[25] = b0
  <2> HIDE DEF h, w
  <2>1. h = Bytes(18, <<h18, h19, h20, h21, b3, b2, b1, b0>>)
    BY <1>7, <1>8, Zenon
  <2>2. /\ h[18] = h18 /\ h[18 + 1] = h19 /\ h[18 + 2] = h20 /\ h[18 + 3] = h21
        /\ h[18 + 4] = b3 /\ h[18 + 5] = b2 /\ h[18 + 6] = b1 /\ h[18 + 7] = b0
    <3>1. 18 \in Nat
      BY SMT
    <3>2. Reads(h, 18, h18, h19, h20, h21, b3, b2, b1, b0)
      BY <2>1, <3>1, BytesAt, Zenon
    <3> QED  BY <3>2, Zenon DEF Reads
  <2> QED  BY <2>2, SMT
<1>10. flacRate(h) = r
  <2>1. x \div 16 \in Nat /\ x \div 16 < 16
    BY <1>0, <1>3, <1>4, <1>6, SMTT(20)
  <2>2. h18 * 4096 + h19 * 16 + (h20 \div 16) = r
    BY <1>0, <1>5, <1>6, <2>1, FlacRate, SMT
  <2> QED  BY <1>9, <2>2, SMT DEF flacRate
<1>11. /\ flacChannels(h) = c /\ flacDepth(h) = d /\ h[21] % 16 = g
  <2>1. /\ ((h20 \div 2) % 8) + 1 = c
        /\ (h20 % 2) * 16 + (h21 \div 16) + 1 = d
        /\ h21 % 16 = g
    BY <1>0, <1>3, <1>4, <1>6, SMTT(20)
  <2> QED  BY <1>9, <2>1, Zenon DEF flacChannels, flacDepth
<1>12. flacSamples(h) = n
  <2>1. b0 + b1 * 256 + b2 * 65536 + b3 * 16777216 + (g * 65536) * 65536 = n
    BY <1>3, <1>8, LowWord, SMT
  <2>2. (g * 65536) * 65536 + b3 * 16777216 + b2 * 65536 + b1 * 256 + b0 = n
    BY <1>3, <1>8, <2>1, SMT
  <2> QED  BY <1>9, <1>11, <2>2, SMT DEF flacSamples
<1>13. Duration(n, r) = s
  BY <1>0, <1>2, SecondsBack, Zenon
<1> DEFINE i == parseFlac(h)
<1>14. i = [Unknown EXCEPT !.sampleRate = r, !.channels = c, !.bitDepth = d, !.durationSec = s]
  BY <1>10, <1>11, <1>12, <1>13, Zenon DEF parseFlac
<1> HIDE DEF i
<1>15. /\ i.sampleRate = r /\ i.channels = c /\ i.bitDepth = d
       /\ i.durationSec = s /\ i.fileSizeBytes = 0
  BY <1>14, SMT DEF Unknown
<1> QED  BY <1>1, <1>15, Zenon DEF h, i

(* A field that shares no byte with the others stands in    *)
(* the header as a whole.                                   *)
LEMMA WholeField ==
    ASSUME NEW fs, NEW f \in fs,
           \A g \in fs : g = f \/ DOMAIN f \cap DOMAIN g = {}
    PROVE  \A i \in DOMAIN f : i \in DOMAIN Fields(fs) /\ Fields(fs)[i] = f[i]
<1> SUFFICES ASSUME NEW i \in DOMAIN f
             PROVE  i \in DOMAIN Fields(fs) /\ Fields(fs)[i] = f[i]
  OBVIOUS
<1>1. \A g \in fs : i \in DOMAIN g => g = f
  BY SMT
<1> QED  BY <1>1, FieldAt, Zenon

(* A number below 2^32 is its four bytes, least significant *)
(* first.                                                   *)
LEMMA WordIs ==
    ASSUME NEW v \in Nat, High(v) = 0
    PROVE  Word(v)[1] + Word(v)[2] * 256 + Word(v)[3] * 65536 + Word(v)[4] * 16777216 = v
<1>1. PICK b0 \in Nat, b1 \in Nat, b2 \in Nat, b3 \in Nat :
         b0 = Word(v)[1] /\ b1 = Word(v)[2] /\ b2 = Word(v)[3] /\ b3 = Word(v)[4]
  BY WordTyped, Zenon
<1>2. b0 + b1 * 256 + b2 * 65536 + b3 * 16777216 + (0 * 65536) * 65536 = v
  BY <1>1, LowWord, SMT
<1>3. b0 + b1 * 256 + b2 * 65536 + b3 * 16777216 = v
  BY <1>2, SMT
<1> QED  BY <1>1, <1>3, SMT

Copied(h, f) == \A i \in DOMAIN f : h[i] = f[i]

(* A 16-bit field reads back as what was written.           *)
LEMMA Put16Read ==
    ASSUME NEW off \in Nat, NEW v \in Nat, v < 65536, NEW h,
           Copied(h, Put16(off, v))
    PROVE  Get16(h, off) = v
<1>1. h[off] = Word(v)[1] /\ h[off + 1] = Word(v)[2]
  BY SMT DEF Put16, Copied
<1> QED  BY <1>1, HalfWhole, SMT DEF Get16

(* A 32-bit field reads back as what was written.           *)
LEMMA Put32Read ==
    ASSUME NEW off \in Nat, NEW v \in Nat, High(v) = 0, NEW h,
           Copied(h, Put32(off, v))
    PROVE  Get32(h, off) = v
<1>1. /\ h[off] = Word(v)[1] /\ h[off + 1] = Word(v)[2]
      /\ h[off + 2] = Word(v)[3] /\ h[off + 3] = Word(v)[4]
  BY SMT DEF Put32, Copied
<1> QED  BY <1>1, WordIs, SMT DEF Get16, Get32

(* A 64-bit field reads back as what was written, upper     *)
(* half included.                                           *)
LEMMA Put64Read ==
    ASSUME NEW off \in Nat, NEW v \in Nat, High(High(v)) = 0, NEW h,
           Copied(h, Put64(off, v))
    PROVE  Get64(h, off) = v
<1>1. PICK u \in Nat : u = High(v) /\ High(u) = 0
  BY HighIsNat, Zenon
<1>2. /\ h[off] = Word(v)[1] /\ h[off + 1] = Word(v)[2]
      /\ h[off + 2] = Word(v)[3] /\ h[off + 3] = Word(v)[4]
      /\ h[off + 4] = Word(u)[1] /\ h[off + 4 + 1] = Word(u)[2]
      /\ h[off + 4 + 2] = Word(u)[3] /\ h[off + 4 + 3] = Word(u)[4]
  BY <1>1, SMT DEF Put64, Copied
<1>3. Get32(h, off + 4) = u
  BY <1>1, <1>2, WordIs, SMT DEF Get16, Get32
<1>4. Get32(h, off) = Word(v)[1] + Word(v)[2] * 256 + Word(v)[3] * 65536 + Word(v)[4] * 16777216
  BY <1>2, SMT DEF Get16, Get32
<1>5. Word(v)[1] + Word(v)[2] * 256 + Word(v)[3] * 65536 + Word(v)[4] * 16777216
             + (u * 65536) * 65536 = v
  BY <1>1, LowWord, SMT
<1> QED  BY <1>3, <1>4, <1>5, SMT DEF Get64

(* The bytes each kind of field takes.                      *)
LEMMA PutDomains ==
    ASSUME NEW off \in Nat, NEW v
    PROVE  /\ DOMAIN Put16(off, v) = off..(off + 1)
           /\ DOMAIN Put32(off, v) = off..(off + 3)
           /\ DOMAIN Put64(off, v) = off..(off + 7)
  BY SMT DEF Put16, Put32, Put64

(* The WAV header holds the rate, channels, depth and block *)
(* size of the stream.                                      *)
LEMMA WavRead ==
    ASSUME NEW p \in Params, p.depth % 8 = 0
    PROVE  /\ Get32(buildWavHeader(p), 24) = p.rate
           /\ Get16(buildWavHeader(p), 22) = p.channels
           /\ Get32(buildWavHeader(p), 28) * 8 = p.rate * p.channels * p.depth
           /\ Get16(buildWavHeader(p), 32) * 8 = p.channels * p.depth
<1>1. PICK r \in 1..MaxRate, c \in 1..8, d \in 1..32 :
        r = p.rate /\ c = p.channels /\ d = p.depth
  BY ParamsTyped, Zenon DEF ParamsOK
<1>2. PICK k \in Nat : d = 8 * k /\ k = d \div 8 /\ k \in 1..4
  <2>1. d % 8 = 0
    BY <1>1, SMT
  <2>2. d \div 8 \in 1..4 /\ d = 8 * (d \div 8)
    BY <2>1, SMT
  <2> QED  BY <2>2, SMT
<1>3. PICK b \in 1..32 : b = c * k /\ b = blockAlign(p)
  <2>1. c * k \in 1..32
    BY <1>2, SMT
  <2>2. blockAlign(p) = c * k
    BY <1>1, <1>2, SMT DEF blockAlign
  <2> QED  BY <2>1, <2>2, Zenon
<1>4. PICK n \in Nat : n = r * b
  BY <1>3, RateBound, SMT
<1>5. r \in Nat /\ High(r) = 0 /\ High(n) = 0
  <2>1. r \in Nat /\ r < 2000000
    <3>1. r \in Nat /\ r <= MaxRate
      BY RateBound, SMT
    <3> QED  BY <3>1, RateBound, SMT
  <2>2. n < 64000000
    BY <1>4, <2>1, SMT
  <2>3. High(r) = 0 /\ High(n) = 0
    BY <2>1, <2>2, SMT DEF High
  <2> QED  BY <2>1, <2>3, SMT
<1>6. PICK f0, f1, f2, f3, f4, f5, f6, f7, f8 :
        /\ f0 = Bytes(4, <<35, 0, 0, 128, 87, 65, 86, 69>>)
        /\ f1 = Put32(16, 16) /\ f2 = Put16(20, 1) /\ f3 = Put16(22, c)
        /\ f4 = Put32(24, r) /\ f5 = Put32(28, n) /\ f6 = Put16(32, b)
        /\ f7 = Put16(34, d) /\ f8 = Put32(40, 2147483647)
  BY SMT
<1> DEFINE h == buildWavHeader(p)
           fs == {f0, f1, f2, f3, f4, f5, f6, f7, f8}
<1>7. h = Fields(fs)
  BY <1>1, <1>3, <1>4, <1>6, SMT DEF buildWavHeader
<1>8. /\ DOMAIN f0 = 4..11 /\ DOMAIN f1 = 16..19 /\ DOMAIN f2 = 20..21
      /\ DOMAIN f3 = 22..23 /\ DOMAIN f4 = 24..27 /\ DOMAIN f5 = 28..31
      /\ DOMAIN f6 = 32..33 /\ DOMAIN f7 = 34..35 /\ DOMAIN f8 = 40..43
  <2>1. DOMAIN f0 = 4..11
    <3>1. PICK bs : bs = <<35, 0, 0, 128, 87, 65, 86, 69>>
      BY Zenon
    <3>2. Len(bs) = 8
      BY <3>1, SMT
    <3>3. f0 = Bytes(4, bs)
      BY <1>6, <3>1, SMT
    <3> QED  BY <3>2, <3>3, SMT DEF Bytes
  <2>2. DOMAIN f1 = 16..19
    BY <1>6, SMT DEF Put32
  <2>3. DOMAIN f2 = 20..21
    BY <1>6, SMT DEF Put16
  <2>4. DOMAIN f3 = 22..23
    BY <1>6, SMT DEF Put16
  <2>5. DOMAIN f4 = 24..27
    BY <1>6, SMT DEF Put32
  <2>6. DOMAIN f5 = 28..31
    BY <1>6, SMT DEF Put32
  <2>7. DOMAIN f6 = 32..33
    BY <1>6, SMT DEF Put16
  <2>8. DOMAIN f7 = 34..35
    BY <1>6, SMT DEF Put16
  <2>9. DOMAIN f8 = 40..43
    BY <1>6, SMT DEF Put32
  <2> QED  BY <2>1, <2>2, <2>3, <2>4, <2>5, <2>6, <2>7, <2>8, <2>9, Zenon
<1> HIDE DEF h
<1>9. ASSUME NEW f \in {f3, f4, f5, f6}
      PROVE  Copied(h, f)
  <2>1. f \in fs
    BY SMT
  <2>2. \A g \in fs : g = f \/ DOMAIN f \cap DOMAIN g = {}
    BY <1>8, SMTT(30)
  <2> HIDE DEF fs
  <2>3. \A i \in DOMAIN f : Fields(fs)[i] = f[i]
    BY <2>1, <2>2, WholeField, Zenon
  <2> QED  BY <1>7, <2>3, Zenon DEF Copied
<1>10. Get16(h, 22) = c
  <2>1. Copied(h, Put16(22, c))
    BY <1>6, <1>9, SMT
  <2>2. 22 \in Nat /\ c \in Nat /\ c < 65536
    BY SMT
  <2> QED  BY <2>1, <2>2, Put16Read, SMT
<1>11. Get32(h, 24) = r
  <2>1. Copied(h, Put32(24, r))
    BY <1>6, <1>9, SMT
  <2>2. 24 \in Nat
    BY SMT
  <2> QED  BY <1>5, <2>1, <2>2, Put32Read, SMT
<1>12. Get32(h, 28) = n
  <2>1. Copied(h, Put32(28, n))
    BY <1>6, <1>9, SMT
  <2>2. 28 \in Nat
    BY SMT
  <2> QED  BY <1>5, <2>1, <2>2, Put32Read, SMT
<1>13. Get16(h, 32) = b
  <2>1. Copied(h, Put16(32, b))
    BY <1>6, <1>9, SMT
  <2>2. 32 \in Nat /\ b \in Nat /\ b < 65536
    BY SMT
  <2> QED  BY <2>1, <2>2, Put16Read, SMT
<1>14. n * 8 = r * c * d /\ b * 8 = c * d
  <2>1. b * 8 = c * d
    BY <1>2, <1>3, SMT
  <2>2. (r * b) * 8 = r * (b * 8) /\ r * (c * d) = r * c * d
    BY <1>5, SMT
  <2> QED  BY <1>4, <2>1, <2>2, SMT
<1> QED  BY <1>1, <1>10, <1>11, <1>12, <1>13, <1>14, SMT DEF h

(* A byte of a field is a byte of the header.               *)
LEMMA FieldThere ==
    ASSUME NEW fs, NEW f \in fs, NEW i \in DOMAIN f
    PROVE  i \in DOMAIN Fields(fs)
  BY SMT DEF Fields

(* The size of a DSF file is a number.                      *)
LEMMA DsfSizeIsNat == ASSUME NEW p \in Params PROVE DsfFileSize(p) \in Nat
<1>1. PICK r \in Nat, c \in Nat, s \in Nat : r = p.rate /\ c = p.channels /\ s = p.seconds
  <2>1. p.rate \in Nat /\ p.channels \in Nat /\ p.seconds \in Nat
    BY ParamsTyped, RateBound, SMT DEF ParamsOK
  <2> QED  BY <2>1, Zenon
<1>2. 92 + 8 * r * s * c \in Nat
  BY SMT
<1> QED  BY <1>1, <1>2, SMT DEF DsfFileSize

(* The size in the DSF header reads back as that of the     *)
(* file.                                                    *)
LEMMA DsfRead ==
    ASSUME NEW p \in Params, Holds("DSD_", p)
    PROVE  Get64(DsfHeader(p), 12) = DsfFileSize(p)
<1>1. PICK z \in Nat : z = DsfFileSize(p) /\ High(High(z)) = 0
  BY DsfSizeIsNat, SMT DEF Holds
<1>2. PICK g1, g2 : g1 = Put64(12, z) /\ g2 = Put64(64, dsdRate(p) * p.seconds)
  BY Zenon
<1> DEFINE h == DsfHeader(p)
           sizes == Fields({g1, g2})
           whole == buildDsfHeader(p)
<1>3. h = [i \in DOMAIN whole |-> IF i \in DOMAIN sizes THEN sizes[i] ELSE whole[i]]
  BY <1>1, <1>2, Zenon DEF DsfHeader
<1>4. DOMAIN g1 = 12..19 /\ DOMAIN g2 = 64..71
  BY <1>2, SMT DEF Put64
<1>5. \A i \in 12..19 : i \in DOMAIN sizes /\ sizes[i] = g1[i]
  <2> DEFINE fs == {g1, g2}
  <2>1. g1 \in fs
    BY Zenon
  <2>2. \A g \in fs : g = g1 \/ DOMAIN g1 \cap DOMAIN g = {}
    BY <1>4, SMT
  <2> HIDE DEF fs
  <2>3. \A i \in DOMAIN g1 : i \in DOMAIN Fields(fs) /\ Fields(fs)[i] = g1[i]
    BY <2>1, <2>2, WholeField, Zenon
  <2> QED  BY <1>4, <2>3, Zenon DEF fs
<1>6. \A i \in 12..19 : i \in DOMAIN whole
  <2>1. PICK f : f = Bytes(12, <<79, 0, 0, 0, 0, 0, 0, 128>>)
    BY Zenon
  <2>2. DOMAIN f = 12..19
    <3>1. PICK bs : bs = <<79, 0, 0, 0, 0, 0, 0, 128>>
      BY Zenon
    <3>2. Len(bs) = 8
      BY <3>1, SMT
    <3>3. f = Bytes(12, bs)
      BY <2>1, <3>1, Zenon
    <3> QED  BY <3>2, <3>3, SMT DEF Bytes
  <2>3. PICK fs : whole = Fields(fs) /\ f \in fs
    BY <2>1, SMT DEF buildDsfHeader
  <2> HIDE DEF whole
  <2> QED  BY <2>2, <2>3, FieldThere, Zenon
<1>7. Copied(h, Put64(12, z))
  <2> HIDE DEF h, sizes, whole
  <2>1. \A i \in 12..19 : h[i] = g1[i]
    BY <1>3, <1>5, <1>6, Zenon
  <2> QED  BY <1>2, <1>4, <2>1, Zenon DEF Copied
<1> HIDE DEF h
<1>8. Get64(h, 12) = z
  <2>1. 12 \in Nat
    BY SMT
  <2> QED  BY <1>1, <1>7, <2>1, Put64Read, SMT
<1> QED  BY <1>1, <1>8, Zenon DEF h

(* A track is in a container that can hold it, or raw.      *)
LEMMA KindsOfTrack ==
    ASSUME NEW t \in Tracks
    PROVE  \/ /\ t.raw = FALSE /\ t.magic \in Magics /\ t.params \in Params
              /\ Holds(t.magic, t.params)
           \/ /\ t.raw = TRUE /\ t.declared = FALSE /\ t.params \in Params
              /\ t.params.depth % 8 = 0
<1>1. CASE /\ t \in [raw : {FALSE}, magic : Magics, declared : BOOLEAN, params : Params]
           /\ Holds(t.magic, t.params)
  <2>1. t.raw \in {FALSE} /\ t.magic \in Magics /\ t.params \in Params
    BY <1>1, Zenon
  <2> QED  BY <1>1, <2>1, Zenon
<1>2. CASE /\ t \in [raw : {TRUE}, magic : {"sync", "none"}, declared : {FALSE}, params : Params]
           /\ t.params.depth % 8 = 0
  <2>1. t.raw \in {TRUE} /\ t.declared \in {FALSE} /\ t.params \in Params
    BY <1>2, Zenon
  <2> QED  BY <1>2, <2>1, Zenon
<1> QED  BY <1>1, <1>2, Zenon DEF Tracks

(* A track in a container is one its header can hold.       *)
LEMMA ContainerTrack ==
    ASSUME NEW t \in Tracks, ~t.raw
    PROVE  t.magic \in Magics /\ t.params \in Params /\ Holds(t.magic, t.params)
  BY KindsOfTrack, Zenon

(* A raw track has no declared type and whole bytes to a    *)
(* sample.                                                  *)
LEMMA RawTrack ==
    ASSUME NEW t \in Tracks, t.raw
    PROVE  ~t.declared /\ t.params \in Params /\ t.params.depth % 8 = 0
  BY KindsOfTrack, Zenon

(* Only FLAC is served as audio/flac, only DSF as           *)
(* audio/dsf.                                               *)
LEMMA MimesDiffer ==
    ASSUME NEW m \in Magics
    PROVE  /\ MimeOf[m] = "audio/flac" <=> m = "fLaC"
           /\ MimeOf[m] = "audio/dsf" <=> m = "DSD_"
<1>1. m \in {"fLaC", "RIFF", "DSD_", "FRM8", "FORM", "sync"}
  BY SMT DEF Magics, MimeOf
<1>2. /\ MimeOf["fLaC"] = "audio/flac" /\ MimeOf["RIFF"] = "audio/wav"
      /\ MimeOf["DSD_"] = "audio/dsf" /\ MimeOf["FRM8"] = "audio/dff"
      /\ MimeOf["FORM"] = "audio/aiff" /\ MimeOf["sync"] = "audio/mpeg"
  BY SMT DEF MimeOf
<1> QED  BY <1>1, <1>2, SMT

(* What the audio thread learns of a FLAC track is what the *)
(* track is.                                                *)
LEMMA ParsedFlac ==
    ASSUME NEW t \in Tracks, ~t.raw, t.magic = "fLaC"
    PROVE  /\ contentType(t) = "audio/flac"
           /\ parseTrackInfo(t).sampleRate = t.params.rate
           /\ parseTrackInfo(t).channels = t.params.channels
           /\ parseTrackInfo(t).bitDepth = t.params.depth
           /\ parseTrackInfo(t).durationSec = t.params.seconds
           /\ parseTrackInfo(t).fileSizeBytes = 0
           /\ t.params.rate > 0
<1>1. t.params \in Params /\ Holds("fLaC", t.params) /\ t.magic \in Magics
  BY ContainerTrack, Zenon
<1>2. contentType(t) = "audio/flac"
  BY <1>1, MimesDiffer, Zenon DEF contentType
<1>3. parseTrackInfo(t) = parseFlac(FlacHeader(t.params))
  BY <1>2, Zenon DEF parseTrackInfo
<1>4. PICK p \in Params : p = t.params /\ Holds("fLaC", p)
  BY <1>1, Zenon
<1>5. p.rate > 0
  <2>1. PICK r \in 1..MaxRate : r = p.rate
    BY ParamsTyped, Zenon DEF ParamsOK
  <2>2. r > 0
    BY RateBound, SMT
  <2> QED  BY <2>1, <2>2, Zenon
<1> DEFINE i == parseFlac(FlacHeader(p))
<1>6. /\ i.sampleRate = p.rate /\ i.channels = p.channels /\ i.bitDepth = p.depth
      /\ i.durationSec = p.seconds /\ i.fileSizeBytes = 0
  BY <1>4, FlacRead, Zenon
<1>7. parseTrackInfo(t) = i
  BY <1>3, <1>4, Zenon
<1> HIDE DEF i
<1> QED  BY <1>2, <1>4, <1>5, <1>6, <1>7, Zenon

(* A FLAC track restarts the renderer exactly when the one  *)
(* before was not FLAC or differs in rate, depth or         *)
(* channels.                                                *)
LEMMA Restarts ==
    ASSUME NEW b \in Tracks, NEW t \in Tracks, ~b.raw, ~t.raw, t.magic = "fLaC"
    PROVE  crossFormat(b, t) <=>
               \/ b.magic # "fLaC"
               \/ ~(/\ t.params.rate = b.params.rate
                    /\ t.params.depth = b.params.depth
                    /\ t.params.channels = b.params.channels)
<1>1. contentType(t) = "audio/flac"
  BY ParsedFlac, Zenon
<1>2. CASE b.magic # "fLaC"
  <2>1. contentType(b) # "audio/flac"
    BY <1>2, ContainerTrack, MimesDiffer, Zenon DEF contentType
  <2> QED  BY <1>1, <1>2, <2>1, Zenon DEF crossFormat
<1>3. CASE b.magic = "fLaC"
  <2>1. PICK pb, pt : pb = parseTrackInfo(b) /\ pt = parseTrackInfo(t)
    BY Zenon
  <2>2. PICK rb, db, cb, rt, dt, ct :
           /\ rb = b.params.rate /\ db = b.params.depth /\ cb = b.params.channels
           /\ rt = t.params.rate /\ dt = t.params.depth /\ ct = t.params.channels
    BY Zenon
  <2>3. /\ pb.sampleRate = rb /\ pb.bitDepth = db /\ pb.channels = cb /\ rb > 0
        /\ contentType(b) = "audio/flac"
    BY <1>3, <2>1, <2>2, ParsedFlac, Zenon
  <2>4. /\ pt.sampleRate = rt /\ pt.bitDepth = dt /\ pt.channels = ct /\ rt > 0
    BY <2>1, <2>2, ParsedFlac, Zenon
  <2>5. crossFormat(b, t) <=>
          (pb.sampleRate > 0 /\ pt.sampleRate > 0
             /\ <<pb.sampleRate, pb.bitDepth, pb.channels>> # <<pt.sampleRate, pt.bitDepth, pt.channels>>)
    BY <1>1, <2>1, <2>3, Zenon DEF crossFormat
  <2>6. crossFormat(b, t) <=> <<rb, db, cb>> # <<rt, dt, ct>>
    BY <2>3, <2>4, <2>5, Zenon
  <2>7. <<rb, db, cb>> = <<rt, dt, ct>> <=> rt = rb /\ dt = db /\ ct = cb
    BY SMT
  <2> QED  BY <1>3, <2>2, <2>6, <2>7, Zenon
<1> QED  BY <1>2, <1>3, Zenon

TracksOK == before \in Tracks /\ track \in Tracks

(* Every step chooses tracks of the catalogue.              *)
LEMMA TracksAlwaysOK == TrackSpec => []TracksOK
<1>1. TrackInit => TracksOK
  BY Zenon DEF TrackInit, TracksOK
<1>2. TracksOK /\ [TrackNext]_<<before, track>> => TracksOK'
  <2>1. ASSUME TracksOK, TrackNext PROVE TracksOK'
    BY <2>1, Zenon DEF TrackNext, TracksOK
  <2>2. ASSUME TracksOK, UNCHANGED <<before, track>> PROVE TracksOK'
    BY <2>2, SMT DEF TracksOK
  <2> QED  BY <2>1, <2>2, Zenon
<1> QED  BY <1>1, <1>2, PTL DEF TrackSpec

(* main.cpp:856-868: for every rate, depth, number of channels and length  *)
(* that fits the fields of STREAMINFO.                                     *)
THEOREM FormatChangesAlwaysSeen == TrackSpec => []FormatChangeSeen
<1>1. TracksOK => FormatChangeSeen
  <2> SUFFICES ASSUME TracksOK, {before.raw, track.raw} = {FALSE}, track.magic = "fLaC"
               PROVE  /\ crossFormat(before, track) <=>
                            \/ before.magic # "fLaC"
                            \/ ~(/\ track.params.rate = before.params.rate
                                 /\ track.params.depth = before.params.depth
                                 /\ track.params.channels = before.params.channels)
                      /\ parseTrackInfo(track).durationSec = track.params.seconds
    BY Zenon DEF FormatChangeSeen
  <2>1. before \in Tracks /\ track \in Tracks
    BY Zenon DEF TracksOK
  <2>2. before.raw = FALSE /\ track.raw = FALSE
    <3>1. before.raw \in {before.raw, track.raw} /\ track.raw \in {before.raw, track.raw}
      BY Zenon
    <3> QED  BY <3>1, Zenon
  <2> QED  BY <2>1, <2>2, Restarts, ParsedFlac, Zenon
<1> QED  BY <1>1, TracksAlwaysOK, PTL

(* A container is announced with its own type, and a DSF    *)
(* file with its size.                                      *)
LEMMA ServedContainer ==
    ASSUME NEW t \in Tracks, ~t.raw
    PROVE  /\ served(t).mime = MimeOf[t.magic]
           /\ served(t).length = IF t.magic = "DSD_" THEN DsfFileSize(t.params) ELSE 0
<1>1. t.magic \in Magics /\ t.params \in Params /\ Holds(t.magic, t.params)
  BY ContainerTrack, Zenon
<1>2. served(t).mime = MimeOf[t.magic] /\ served(t).length = parseTrackInfo(t).fileSizeBytes
  BY <1>1, SMT DEF served, detect
<1>3. CASE t.magic = "fLaC"
  BY <1>2, <1>3, ParsedFlac, SMT
<1>4. CASE t.magic = "DSD_"
  <2>1. contentType(t) = "audio/dsf"
    BY <1>1, <1>4, MimesDiffer, Zenon DEF contentType
  <2>2. parseTrackInfo(t) = parseDsf(DsfHeader(t.params))
    BY <2>1, Zenon DEF parseTrackInfo
  <2>3. parseDsf(DsfHeader(t.params)).fileSizeBytes = Get64(DsfHeader(t.params), 12)
    BY SMT DEF parseDsf, Unknown
  <2>4. Get64(DsfHeader(t.params), 12) = DsfFileSize(t.params)
    BY <1>1, <1>4, DsfRead, Zenon
  <2> QED  BY <1>2, <1>4, <2>2, <2>3, <2>4, Zenon
<1>5. CASE t.magic # "fLaC" /\ t.magic # "DSD_"
  <2>1. contentType(t) # "audio/flac" /\ contentType(t) # "audio/dsf"
    BY <1>1, <1>5, MimesDiffer, Zenon DEF contentType
  <2>2. parseTrackInfo(t) = Unknown
    BY <2>1, Zenon DEF parseTrackInfo
  <2>3. Unknown.fileSizeBytes = 0
    BY SMT DEF Unknown
  <2> QED  BY <1>2, <1>5, <2>2, <2>3, Zenon
<1> QED  BY <1>3, <1>4, <1>5, Zenon

(* A raw track is announced as WAV, with the header of its  *)
(* own format.                                              *)
LEMMA ServedRaw ==
    ASSUME NEW t \in Tracks, t.raw
    PROVE  served(t).mime = "audio/wav" /\ served(t).header = buildWavHeader(t.params)
  BY RawTrack, SMT DEF served, detect

(* main.cpp:777-824: for every format, and every file size of 64 bits.     *)
THEOREM AlwaysServedAsWhatItIs == TrackSpec => []ServedAsWhatItIs
<1>1. TracksOK => ServedAsWhatItIs
  <2> SUFFICES ASSUME TracksOK PROVE ServedAsWhatItIs
    OBVIOUS
  <2>1. PICK t \in Tracks : t = track
    BY Zenon DEF TracksOK
  <2>2. CASE t.raw
    <3>1. t.params \in Params /\ t.params.depth % 8 = 0
      BY <2>2, RawTrack, Zenon
    <3>2. PICK p \in Params : p = t.params /\ p.depth % 8 = 0
      BY <3>1, Zenon
    <3>3. PICK h : h = served(t).header /\ h = buildWavHeader(p)
      BY <2>2, <3>2, ServedRaw, Zenon
    <3>4. /\ Get32(h, 24) = p.rate /\ Get16(h, 22) = p.channels
          /\ Get32(h, 28) * 8 = p.rate * p.channels * p.depth
          /\ Get16(h, 32) * 8 = p.channels * p.depth
      BY <3>2, <3>3, WavRead, Zenon
    <3>5. served(t).mime = "audio/wav"
      BY <2>2, ServedRaw, Zenon
    <3> QED  BY <2>1, <2>2, <3>2, <3>3, <3>4, <3>5, Zenon DEF ServedAsWhatItIs
  <2>3. CASE ~t.raw
    BY <2>1, <2>3, ServedContainer, Zenon DEF ServedAsWhatItIs
  <2> QED  BY <2>2, <2>3, Zenon
<1> QED  BY <1>1, TracksAlwaysOK, PTL

-----------------------------------------------------------------------------
(* Options: the arguments are those of a line of options with their        *)
(* values; after each option of the line the configuration is the one of   *)
(* the options up to it (Done).                                            *)

(* A nonempty set of places has a first one.                *)
LEMMA HasMin ==
    ASSUME NEW n \in Nat, NEW A \in SUBSET (1..n), A # {}
    PROVE  Min(A) \in A /\ \A y \in A : Min(A) <= y
<1>1. \E x \in A : \A y \in A : x <= y
  <2>1. A \subseteq Nat
    OBVIOUS
  <2>2. PICK x \in A : \A y \in A : <<y, x>> \notin Less
    BY <2>1, LessIsWellFounded, WFMin
  <2>3. ASSUME NEW y \in A PROVE x <= y
    <3>1. x \in Nat /\ y \in Nat /\ <<y, x>> \notin Less
      BY <2>1, <2>2
    <3>2. ~(y < x)
      BY <3>1 DEF Less
    <3> QED
      BY <3>1, <3>2
  <2> QED
    BY <2>3
<1> QED
  BY <1>1, Zenon DEF Min

(* A nonempty set of places of a line has a last one.       *)
LEMMA HasMax ==
    ASSUME NEW n \in Nat, NEW A \in SUBSET (1..n), A # {}
    PROVE  Max(A) \in A /\ \A y \in A : Max(A) >= y
<1>1. \E x \in A : \A y \in A : x >= y
  <2> DEFINE B == {n - a : a \in A}
  <2>1. B \subseteq Nat /\ B # {}
    <3>1. \A a \in A : n - a \in Nat
      OBVIOUS
    <3> QED
      BY <3>1, Zenon
  <2> HIDE DEF B
  <2>2. PICK b \in B : \A y \in B : <<y, b>> \notin Less
    BY <2>1, LessIsWellFounded, WFMin
  <2>3. PICK x \in A : b = n - x
    BY DEF B
  <2>4. ASSUME NEW y \in A PROVE x >= y
    <3>1. n - y \in B /\ n - y \in Nat
      BY DEF B
    <3>2. ~(n - y < b)
      BY <2>1, <2>2, <3>1 DEF Less
    <3> QED
      BY <2>3, <3>2
  <2> QED
    BY <2>4
<1> QED
  BY <1>1, Zenon DEF Max

Args == Valued \cup Flags \cup Values \cup {"--help", "--bogus"}
Ends     == {"none", "help", "error"}
Givens   == [Valued \cup Flags -> Args \cup {"", "set"}]
Pendings == Valued \cup {""}
Configs  == [end : Ends, given : Givens, pending : Pendings]

(* The parts of a configuration, and how each may change.   *)
LEMMA ConfigParts ==
    ASSUME NEW c \in Configs
    PROVE  /\ c.end \in Ends /\ c.given \in Givens /\ c.pending \in Pendings
           /\ \A e \in Ends : [c EXCEPT !.end = e] \in Configs
           /\ \A p \in Pendings : [c EXCEPT !.pending = p] \in Configs
           /\ \A g \in Givens, p \in Pendings :
                 [[c EXCEPT !.given = g] EXCEPT !.pending = p] \in Configs
           /\ \A g \in Givens : [c EXCEPT !.given = g] \in Configs
<1>1. c.end \in Ends /\ c.given \in Givens /\ c.pending \in Pendings
  BY Zenon DEF Configs
<1>2. \A e \in Ends : [c EXCEPT !.end = e] \in Configs
  BY SMT DEF Configs
<1>3. \A p \in Pendings : [c EXCEPT !.pending = p] \in Configs
  BY SMT DEF Configs
<1>4. ASSUME NEW d \in Configs, NEW g \in Givens PROVE [d EXCEPT !.given = g] \in Configs
  BY SMT DEF Configs
<1>5. ASSUME NEW d \in Configs, NEW p \in Pendings PROVE [d EXCEPT !.pending = p] \in Configs
  BY SMT DEF Configs
<1> QED
  BY <1>1, <1>2, <1>3, <1>4, <1>5, Zenon

(* A value given keeps the table of options one.            *)
LEMMA GivenChanges ==
    ASSUME NEW g \in Givens, NEW opt \in Valued \cup Flags, NEW x \in Args \cup {"set"}
    PROVE  [g EXCEPT ![opt] = x] \in Givens
<1> DEFINE D == Valued \cup Flags
           R == Args \cup {"", "set"}
<1>1. g \in [D -> R] /\ opt \in D /\ x \in R
  BY Zenon DEF Givens
<1> HIDE DEF D, R
<1>2. [g EXCEPT ![opt] = x] \in [D -> R]
  BY <1>1, Zenon
<1> QED
  BY <1>2, Zenon DEF Givens, D, R

(* No argument is of two kinds, and none is empty.          *)
LEMMA Distinct ==
    /\ \A v \in Valued : v \notin Flags /\ v # "--help" /\ v # "--bogus" /\ v # "" /\ v \in Args
    /\ \A f \in Flags : f \notin Valued /\ f # "--help" /\ f # "--bogus" /\ f # "" /\ f \in Args
    /\ \A x \in Values : x # "" /\ x # "set" /\ x \in Args
    /\ "--bogus" \notin Valued \cup Flags /\ "--help" \notin Valued \cup Flags
  BY SMT DEF Valued, Flags, Values, Args

(* An option leaves a configuration.                        *)
LEMMA ReadOptionTyped ==
    ASSUME NEW c \in Configs, NEW arg \in Args, NEW more \in BOOLEAN
    PROVE  ReadOption(c, arg, more) \in Configs
<1>1. [c EXCEPT !.end = "help"] \in Configs /\ [c EXCEPT !.end = "error"] \in Configs
  <2>1. "help" \in Ends /\ "error" \in Ends
    BY Zenon DEF Ends
  <2> QED
    BY <2>1, ConfigParts, Zenon
<1>2. CASE arg = "--help"
  BY <1>1, <1>2, Distinct, Zenon DEF ReadOption
<1>3. CASE arg # "--help" /\ arg \in Valued /\ more
  <2>1. [c EXCEPT !.pending = arg] \in Configs
    BY <1>3, ConfigParts, Zenon DEF Pendings
  <2> QED
    BY <1>3, <2>1, Distinct, Zenon DEF ReadOption
<1>4. CASE arg # "--help" /\ ~(arg \in Valued /\ more) /\ arg \in Flags
  <2>1. [c.given EXCEPT ![arg] = "set"] \in Givens
    BY <1>4, ConfigParts, GivenChanges, Zenon
  <2>2. [c EXCEPT !.given[arg] = "set"] = [c EXCEPT !.given = [c.given EXCEPT ![arg] = "set"]]
    BY SMT
  <2>3. [c EXCEPT !.given[arg] = "set"] \in Configs
    BY <2>1, <2>2, ConfigParts, Zenon
  <2> QED
    BY <1>4, <2>3, Zenon DEF ReadOption
<1>5. CASE arg # "--help" /\ ~(arg \in Valued /\ more) /\ arg \notin Flags
  BY <1>1, <1>5, Zenon DEF ReadOption
<1> QED
  BY <1>2, <1>3, <1>4, <1>5, Zenon

(* An argument leaves a configuration.                      *)
LEMMA ReadArgTyped ==
    ASSUME NEW c \in Configs, NEW arg \in Args, NEW more \in BOOLEAN
    PROVE  ReadArg(c, arg, more) \in Configs
<1>1. CASE c.end # "none"
  BY <1>1, Zenon DEF ReadArg
<1>2. CASE c.end = "none" /\ c.pending # ""
  <2>1. c.pending \in Valued
    BY <1>2, ConfigParts, Zenon DEF Pendings
  <2>2. PICK g : g = [c.given EXCEPT ![c.pending] = arg] /\ g \in Givens
    BY <2>1, ConfigParts, GivenChanges, Zenon
  <2>3. [c EXCEPT !.given[c.pending] = arg, !.pending = ""] =
           [[c EXCEPT !.given = g] EXCEPT !.pending = ""]
    BY <2>2, SMT DEF Configs
  <2>4. "" \in Pendings
    BY Zenon DEF Pendings
  <2>5. [c EXCEPT !.given[c.pending] = arg, !.pending = ""] \in Configs
    BY <2>2, <2>3, <2>4, ConfigParts, Zenon
  <2> QED
    BY <1>2, <2>5, Zenon DEF ReadArg, ReadValue
<1>3. CASE c.end = "none" /\ c.pending = ""
  BY <1>3, ReadOptionTyped, Zenon DEF ReadArg
<1> QED
  BY <1>1, <1>2, <1>3, Zenon

(* main starts from a configuration.                        *)
LEMMA ConfigStarts == Config0 \in Configs
  BY SMT DEF Config0, Configs, Ends, Givens, Pendings

Parses(f, args) ==
    /\ f \in [0..Len(args) -> Configs]
    /\ f[0] = Config0
    /\ \A i \in 1..Len(args) : f[i] = ReadArg(f[i - 1], args[i], i < Len(args))
    /\ parseArguments(args) = f[Len(args)]

(* parseArguments after n+1 arguments is ReadArg of what it *)
(* was after n.                                             *)
LEMMA ParseUnfolds ==
    ASSUME NEW args \in Seq(Args)
    PROVE  \E f : Parses(f, args)
<1> DEFINE n == Len(args)
           Equation(f) == f = [i \in 0..n |-> IF i = 0 THEN Config0
                                             ELSE ReadArg(f[i - 1], args[i], i < n)]
           chosen == CHOOSE f : Equation(f)
<1>1. n \in Nat /\ \A i \in 1..n : args[i] \in Args
  BY SeqParts
<1>2. PICK g \in [0..n -> Configs] :
             g[0] = Config0 /\ \A i \in 1..n : g[i] = ReadArg(g[i - 1], args[i], i < n)
  <2> DEFINE F == [p \in Configs \X (1..n) |-> ReadArg(p[1], args[p[2]], p[2] < n)]
  <2>1. F \in [Configs \X (1..n) -> Configs]
    <3>1. ASSUME NEW p \in Configs \X (1..n)
          PROVE  ReadArg(p[1], args[p[2]], p[2] < n) \in Configs
      <4>1. p[1] \in Configs /\ p[2] \in 1..n
        BY Zenon
      <4>2. args[p[2]] \in Args
        BY <1>1, <4>1, Zenon
      <4>3. (p[2] < n) \in BOOLEAN
        BY <1>1, <4>1, SMT
      <4> QED
        BY <4>1, <4>2, <4>3, ReadArgTyped, Zenon
    <3> HIDE DEF n
    <3> QED
      BY <3>1, Zenon
  <2>2. \A c \in Configs, i \in 1..n : F[<<c, i>>] = ReadArg(c, args[i], i < n)
    OBVIOUS
  <2> HIDE DEF F, n
  <2>3. IsStep(F, Configs, n)
    BY <2>1 DEF IsStep
  <2>4. HasSolution(Configs, Config0, n, F)
    BY <1>1, <2>3, ConfigStarts, PrimitiveRecursion
  <2>5. PICK g \in [0..n -> Configs] : g[0] = Config0 /\ \A i \in 1..n : g[i] = F[<<g[i - 1], i>>]
    BY <2>4 DEF HasSolution
  <2>6. \A i \in 1..n : g[i - 1] \in Configs
    BY <1>1
  <2> QED
    BY <2>2, <2>5, <2>6
<1>3. Equation(g)
  <2>1. ASSUME NEW i \in 0..n
        PROVE  g[i] = IF i = 0 THEN Config0 ELSE ReadArg(g[i - 1], args[i], i < n)
    <3>1. CASE i = 0
      BY <1>2, <3>1, Zenon
    <3>2. CASE i # 0
      <4>1. i \in 1..n
        BY <1>1, <3>2
      <4> QED
        BY <1>2, <3>2, <4>1, Zenon
    <3> QED
      BY <3>1, <3>2
  <2>2. g = [i \in 0..n |-> g[i]]
    OBVIOUS
  <2> HIDE DEF n
  <2> QED
    BY <2>1, <2>2, Zenon
<1>4. Equation(chosen)
  <2> HIDE DEF Equation
  <2> QED
    BY <1>3, Zenon
<1>5. parseArguments(args) = chosen[n]
  BY DEF parseArguments
<1>6. chosen = g
  <2> HIDE DEF chosen, n
  <2>1. chosen[0] = Config0
    BY <1>1, <1>4
  <2>2. \A i \in 1..n : chosen[i] = ReadArg(chosen[i - 1], args[i], i < n)
    <3>1. \A i \in 0..n : chosen[i] = IF i = 0 THEN Config0 ELSE ReadArg(chosen[i - 1], args[i], i < n)
      BY <1>4, Zenon
    <3>2. \A i \in 1..n : i \in 0..n /\ i # 0
      BY <1>1
    <3> QED
      BY <3>1, <3>2, Zenon
  <2> DEFINE T == {i \in 0..n : chosen[i] = g[i]}
  <2>3. 0 \in T
    BY <1>1, <1>2, <2>1
  <2>4. ASSUME NEW i \in 0..(n - 1), i \in T PROVE i + 1 \in T
    <3>1. i + 1 \in 1..n /\ i + 1 \in 0..n /\ (i + 1) - 1 = i
      BY <1>1
    <3>2. chosen[i + 1] = ReadArg(chosen[i], args[i + 1], i + 1 < n)
      BY <2>2, <3>1, Zenon
    <3>3. g[i + 1] = ReadArg(g[i], args[i + 1], i + 1 < n)
      BY <1>2, <3>1, Zenon
    <3> QED
      BY <2>4, <3>1, <3>2, <3>3, Zenon
  <2>5. 0..n \subseteq T
    <3> HIDE DEF T
    <3> QED
      BY <1>1, <2>3, <2>4, UpwardInduction
  <2>6. \A i \in 0..n : chosen[i] = g[i]
    BY <2>5
  <2>7. chosen = [i \in 0..n |-> chosen[i]]
    BY <1>4
  <2>8. g = [i \in 0..n |-> g[i]]
    OBVIOUS
  <2> HIDE DEF T, Equation
  <2> QED
    BY <2>6, <2>7, <2>8, Zenon
<1>7. Parses(g, args)
  <2> HIDE DEF chosen, Equation
  <2> QED
    BY <1>2, <1>5, <1>6, Zenon DEF Parses
<1> QED
  BY <1>7, Zenon

Opts == Valued \cup Flags

(* An option that stops the program says why.               *)
LEMMA EndChanged ==
    ASSUME NEW c \in Configs, NEW x, NEW d, d = [c EXCEPT !.end = x]
    PROVE  d.end = x
  BY SMT DEF Configs

PendingSet(c, x, d)    == d = [c EXCEPT !.pending = x]
GivenSet(c, opt, x, d) == d = [c EXCEPT !.given[opt] = x]
ValueSet(c, opt, x, d) == d = [c EXCEPT !.given[opt] = x, !.pending = ""]

NowGiven(c, p, opt, x, d) ==
    d.end = c.end /\ d.pending = p /\ d.given = [c.given EXCEPT ![opt] = x]

(* An option that awaits its value changes nothing else.    *)
LEMMA PendingChanged ==
    ASSUME NEW c \in Configs, NEW x, NEW d, PendingSet(c, x, d)
    PROVE  d.end = c.end /\ d.pending = x /\ d.given = c.given
  BY SMT DEF Configs, PendingSet

(* An option without a value changes nothing but itself.    *)
LEMMA GivenChanged ==
    ASSUME NEW c \in Configs, NEW x, NEW opt, NEW d, GivenSet(c, opt, x, d)
    PROVE  NowGiven(c, c.pending, opt, x, d)
  BY SMT DEF Configs, GivenSet, NowGiven

(* A value becomes that of the option that waits for it,    *)
(* and ends the wait.                                       *)
LEMMA ValueGiven ==
    ASSUME NEW c \in Configs, NEW x, NEW opt, NEW d, ValueSet(c, opt, x, d)
    PROVE  NowGiven(c, "", opt, x, d)
  BY SMT DEF Configs, ValueSet, NowGiven

EndOf(g) == IF g[1] = "--help" THEN "help" ELSE "error"
EndsIt(g) == g[1] \in {"--help", "--bogus"}
ValueOf(g) == IF g[1] \in Valued THEN g[2] ELSE "set"

\* What one option as it was meant does to the configuration.
Took(c, g, d) ==
    /\ d \in Configs
    /\ c.end # "none" => d = c
    /\ c.end = "none" /\ EndsIt(g) => d.end = EndOf(g)
    /\ c.end = "none" /\ ~EndsIt(g) =>
         /\ d.end = "none" /\ d.pending = ""
         /\ g[1] \in Opts
         /\ d.given = [c.given EXCEPT ![g[1]] = ValueOf(g)]

(* A group is an option with its value, one without, or one *)
(* that ends the parse.                                     *)
LEMMA GroupKinds ==
    ASSUME NEW g \in Group
    PROVE  \/ g[1] \in Valued /\ g[2] \in Values /\ Len(g) = 2
           \/ g[1] \in Flags /\ Len(g) = 1
           \/ EndsIt(g) /\ Len(g) = 1
<1>1. CASE g \in Valued \X Values
  <2>1. PICK v \in Valued, x \in Values : g = <<v, x>>
    BY <1>1, SMT
  <2>2. g[1] = v /\ g[2] = x /\ Len(g) = 2
    BY <2>1, SMT
  <2> QED
    BY <2>2, Zenon
<1>2. CASE g \in { <<f>> : f \in Flags \cup {"--help", "--bogus"} }
  <2>1. PICK f \in Flags \cup {"--help", "--bogus"} : g = <<f>>
    BY <1>2, SMT
  <2>2. g[1] = f /\ Len(g) = 1
    BY <2>1, SMT
  <2> QED
    BY <2>2, Zenon DEF EndsIt
<1> QED
  BY <1>1, <1>2, Zenon DEF Group

(* A group is a sequence of arguments.                      *)
LEMMA GroupIsSeq == ASSUME NEW g \in Group PROVE g \in Seq(Args)
<1>1. CASE g \in Valued \X Values
  <2>1. PICK v \in Valued, x \in Values : g = <<v, x>>
    BY <1>1, SMT
  <2>2. v \in Args /\ x \in Args
    BY Distinct, Zenon
  <2> QED
    BY <2>1, <2>2, SMT
<1>2. CASE g \in { <<f>> : f \in Flags \cup {"--help", "--bogus"} }
  <2>1. PICK f \in Flags \cup {"--help", "--bogus"} : g = <<f>>
    BY <1>2, SMT
  <2>2. f \in Args
    BY Zenon DEF Args
  <2> QED
    BY <2>1, <2>2, SMT
<1> QED
  BY <1>1, <1>2, Zenon DEF Group

IsRead(c, arg, more, d) == d = ReadArg(c, arg, more)

\* Two arguments are an option with its value, whatever the value looks like.
LEMMA TakesTwo ==
    ASSUME NEW c \in Configs, c.end = "none" => c.pending = "", NEW g \in Group, g[1] \in Valued, g[2] \in Values,
           NEW m, NEW d, IsRead(c, g[1], TRUE, m), NEW more, IsRead(m, g[2], more, d),
           d \in Configs
    PROVE  Took(c, g, d)
<1>1. g[1] \notin Flags /\ ~EndsIt(g) /\ g[1] # "" /\ g[1] # "--help"
  BY Distinct, Zenon DEF EndsIt
<1>2. CASE c.end # "none"
  <2>1. m = c
    BY <1>2, Zenon DEF IsRead, ReadArg
  <2> QED
    BY <1>2, <2>1, Zenon DEF IsRead, ReadArg, Took
<1>3. CASE c.end = "none"
  <2>0. PICK opt, x : opt = g[1] /\ x = g[2]
    BY Zenon
  <2>1. m = [c EXCEPT !.pending = opt]
    BY <1>1, <1>3, <2>0, Zenon DEF IsRead, ReadArg, ReadOption
  <2>2. m.end = "none" /\ m.pending = opt /\ m.given = c.given
    <3>1. m.end = c.end /\ m.pending = opt /\ m.given = c.given
      <4>1. PendingSet(c, opt, m)
        BY <2>1, Zenon DEF PendingSet
      <4> QED
        BY <4>1, PendingChanged, Zenon
    <3> QED
      BY <1>3, <3>1, Zenon
  <2>3. d = [m EXCEPT !.given[opt] = x, !.pending = ""]
    BY <1>1, <2>0, <2>2, Zenon DEF IsRead, ReadArg, ReadValue
  <2>4. m \in Configs
    <3>1. g[1] \in Pendings
      BY Zenon DEF Pendings
    <3> QED
      BY <2>0, <2>1, <3>1, ConfigParts, Zenon
  <2>5. d.end = "none" /\ d.pending = "" /\ d.given = [m.given EXCEPT ![opt] = x]
    <3>1. d.end = m.end /\ d.pending = "" /\ d.given = [m.given EXCEPT ![opt] = x]
      <4>1. ValueSet(m, opt, x, d)
        BY <2>3, Zenon DEF ValueSet
      <4>2. NowGiven(m, "", opt, x, d)
        BY <2>4, <4>1, ValueGiven, Zenon
      <4> QED
        BY <4>2, Zenon DEF NowGiven
    <3> QED
      BY <2>2, <3>1, Zenon
  <2>6. ValueOf(g) = g[2]
    BY Zenon DEF ValueOf
  <2> QED
    BY <1>1, <1>3, <2>0, <2>2, <2>5, <2>6, Zenon DEF Took, Opts
<1> QED
  BY <1>2, <1>3, Zenon

(* An option that stands alone is read as such.             *)
LEMMA TakesOne ==
    ASSUME NEW c \in Configs, c.end = "none" => c.pending = "", NEW g \in Group,
           g[1] \in Flags \/ EndsIt(g),
           NEW d, NEW more \in BOOLEAN, IsRead(c, g[1], more, d), d \in Configs
    PROVE  Took(c, g, d)
<1>1. CASE c.end # "none"
  <2>1. d = c
    BY <1>1, Zenon DEF IsRead, ReadArg
  <2> QED
    BY <1>1, <2>1, Zenon DEF Took
<1>2. CASE c.end = "none" /\ EndsIt(g)
  <2>1. CASE g[1] = "--help"
    <3>1. d = [c EXCEPT !.end = "help"]
      BY <1>2, <2>1, Distinct, Zenon DEF IsRead, ReadArg, ReadOption
    <3>2. d.end = "help"
      BY <3>1, EndChanged, Zenon
    <3> QED
      BY <1>2, <2>1, <3>2, Zenon DEF Took, EndOf
  <2>2. CASE g[1] # "--help"
    <3>1. g[1] = "--bogus"
      BY <1>2, <2>2, Zenon DEF EndsIt
    <3>2. d = [c EXCEPT !.end = "error"]
      BY <1>2, <2>2, <3>1, Distinct, Zenon DEF IsRead, ReadArg, ReadOption
    <3>3. d.end = "error"
      BY <3>2, EndChanged, Zenon
    <3> QED
      BY <1>2, <2>2, <3>3, Zenon DEF Took, EndOf
  <2> QED
    BY <2>1, <2>2, Zenon
<1>3. CASE c.end = "none" /\ ~EndsIt(g)
  <2>1. g[1] \in Flags /\ g[1] \notin Valued /\ g[1] # "--help"
    BY <1>3, Distinct, Zenon
  <2>0. PICK opt, x : opt = g[1] /\ x = "set"
    BY Zenon
  <2>2. d = [c EXCEPT !.given[opt] = x]
    BY <1>3, <2>0, <2>1, Zenon DEF IsRead, ReadArg, ReadOption
  <2>3. d.end = c.end /\ d.pending = c.pending /\ d.given = [c.given EXCEPT ![opt] = x]
    <3>1. GivenSet(c, opt, x, d)
      BY <2>2, Zenon DEF GivenSet
    <3>2. NowGiven(c, c.pending, opt, x, d)
      BY <3>1, GivenChanged, Zenon
    <3> QED
      BY <3>2, Zenon DEF NowGiven
  <2>4. ValueOf(g) = "set"
    BY <2>1, Zenon DEF ValueOf
  <2> QED
    BY <1>3, <2>0, <2>1, <2>3, <2>4, Zenon DEF Took, Opts
<1> QED
  BY <1>1, <1>2, <1>3, Zenon

\* The configuration after the first k options as they were meant.
Done(opts, k, c) ==
    /\ c \in Configs
    /\ c.end = "none" => c.pending = ""
    /\ c.end = "none" <=> \A j \in 1..k : ~EndsIt(opts[j])
    /\ \A j \in 1..k : EndsIt(opts[j]) /\ (\A i \in 1..(j - 1) : ~EndsIt(opts[i])) =>
                          c.end = EndOf(opts[j])
    /\ c.end = "none" => \A opt \in Opts :
         /\ (\A j \in 1..k : opts[j][1] # opt) => c.given[opt] = ""
         /\ \A j \in 1..k : opts[j][1] = opt /\ (\A i \in (j + 1)..k : opts[i][1] # opt) =>
                               c.given[opt] = ValueOf(opts[j])

(* Reading one more group keeps Done: the configuration is  *)
(* that of the groups so far.                               *)
LEMMA DoneStep ==
    ASSUME NEW opts, NEW k \in Nat, NEW c, NEW d, Done(opts, k, c), Took(c, opts[k + 1], d)
    PROVE  Done(opts, k + 1, d)
<1> DEFINE g == opts[k + 1]
<1>0. /\ \A j \in 1..(k + 1) : j \in 1..k \/ j = k + 1
      /\ \A j \in 1..k : j \in 1..(k + 1)
      /\ k + 1 \in 1..(k + 1) /\ (k + 1) - 1 = k
      /\ \A j \in 1..k : k + 1 \in (j + 1)..(k + 1)
      /\ \A j \in 1..k : (j + 1)..k \subseteq (j + 1)..(k + 1)
  OBVIOUS
<1>1. CASE c.end # "none"
  <2>1. d = c
    BY <1>1, Zenon DEF Took
  <2>2. PICK m \in 1..k : EndsIt(opts[m])
    BY <1>1, Zenon DEF Done
  <2>3. ASSUME NEW j \in 1..(k + 1), EndsIt(opts[j]), \A i \in 1..(j - 1) : ~EndsIt(opts[i])
        PROVE  d.end = EndOf(opts[j])
    <3>1. CASE j \in 1..k
      BY <2>1, <2>3, <3>1, Zenon DEF Done
    <3>2. CASE j = k + 1
      BY <1>0, <2>2, <2>3, <3>2, Zenon
    <3> QED
      BY <1>0, <3>1, <3>2, Zenon
  <2> QED
    BY <1>0, <1>1, <2>1, <2>2, <2>3, Zenon DEF Done
<1>2. CASE c.end = "none" /\ EndsIt(g)
  <2>1. d.end = EndOf(g) /\ d \in Configs
    BY <1>2, Zenon DEF Took
  <2>2. d.end # "none"
    BY <2>1, Zenon DEF EndOf
  <2>3. \A j \in 1..k : ~EndsIt(opts[j])
    BY <1>2, Zenon DEF Done
  <2>4. ASSUME NEW j \in 1..(k + 1), EndsIt(opts[j])
        PROVE  d.end = EndOf(opts[j])
    BY <1>0, <2>1, <2>3, <2>4, Zenon
  <2> QED
    BY <1>0, <1>2, <2>1, <2>2, <2>4, Zenon DEF Done
<1>3. CASE c.end = "none" /\ ~EndsIt(g)
  <2>1. /\ d.end = "none" /\ d.pending = "" /\ d \in Configs /\ c \in Configs
        /\ g[1] \in Opts
        /\ d.given = [c.given EXCEPT ![g[1]] = ValueOf(g)]
    BY <1>3, Zenon DEF Took, Done
  <2>2. \A j \in 1..(k + 1) : ~EndsIt(opts[j])
    BY <1>0, <1>3, Zenon DEF Done
  <2>3. DOMAIN c.given = Opts
    BY <2>1, ConfigParts, Zenon DEF Givens, Opts
  <2>4. ASSUME NEW opt \in Opts
        PROVE  /\ (\A j \in 1..(k + 1) : opts[j][1] # opt) => d.given[opt] = ""
               /\ \A j \in 1..(k + 1) :
                    opts[j][1] = opt /\ (\A i \in (j + 1)..(k + 1) : opts[i][1] # opt) =>
                        d.given[opt] = ValueOf(opts[j])
    <3>1. d.given[opt] = IF opt = g[1] THEN ValueOf(g) ELSE c.given[opt]
      BY <2>1, <2>3, Zenon
    <3>2. ASSUME \A j \in 1..(k + 1) : opts[j][1] # opt
          PROVE  d.given[opt] = ""
      <4>1. g[1] # opt /\ \A j \in 1..k : opts[j][1] # opt
        BY <1>0, <3>2, Zenon
      <4>2. c.given[opt] = ""
        BY <1>3, <4>1, Zenon DEF Done
      <4> QED
        BY <3>1, <4>1, <4>2, Zenon
    <3>3. ASSUME NEW j \in 1..(k + 1), opts[j][1] = opt,
                 \A i \in (j + 1)..(k + 1) : opts[i][1] # opt
          PROVE  d.given[opt] = ValueOf(opts[j])
      <4>1. CASE j = k + 1
        BY <3>1, <3>3, <4>1, Zenon
      <4>2. CASE j \in 1..k
        <5>1. g[1] # opt
          BY <1>0, <3>3, <4>2, Zenon
        <5>2. \A i \in (j + 1)..k : opts[i][1] # opt
          BY <1>0, <3>3, <4>2, Zenon
        <5>3. c.given[opt] = ValueOf(opts[j])
          BY <1>3, <3>3, <4>2, <5>2, Zenon DEF Done
        <5> QED
          BY <3>1, <5>1, <5>3, Zenon
      <4> QED
        BY <1>0, <4>1, <4>2, Zenon
    <3> QED
      BY <3>2, <3>3, Zenon
  <2> QED
    BY <2>1, <2>2, <2>4, Zenon DEF Done
<1> QED
  BY <1>1, <1>2, <1>3, Zenon

(* A line is a sequence of sequences of arguments.          *)
LEMMA LineIsArgs == ASSUME NEW opts \in Seq(Group) PROVE opts \in Seq(Seq(Args))
<1>1. \A k \in 1..Len(opts) : opts[k] \in Seq(Args)
  BY SeqParts, GroupIsSeq
<1> QED
  BY <1>1

(* After any number of groups the configuration is what     *)
(* Done says of them.                                       *)
LEMMA ParsedDone ==
    ASSUME NEW opts \in Seq(Group)
    PROVE  Done(opts, Len(opts), parseArguments(FlattenSeq(opts)))
<1>1. PICK args \in Seq(Args) :
         /\ args = FlattenSeq(opts)
         /\ \E start \in [1..(Len(opts) + 1) -> Nat] :
              /\ start[1] = 0
              /\ start[Len(opts) + 1] = Len(args)
              /\ \A k \in 1..Len(opts) :
                   /\ start[k + 1] = start[k] + Len(opts[k])
                   /\ start[k + 1] <= Len(args)
                   /\ \A i \in 1..Len(opts[k]) : args[start[k] + i] = opts[k][i]
  <2>1. opts \in Seq(Seq(Args))
    BY LineIsArgs, Zenon
  <2>2. /\ FlattenSeq(opts) \in Seq(Args)
        /\ \E start \in [1..(Len(opts) + 1) -> Nat] :
              /\ start[1] = 0
              /\ start[Len(opts) + 1] = Len(FlattenSeq(opts))
              /\ \A k \in 1..Len(opts) :
                   /\ start[k + 1] = start[k] + Len(opts[k])
                   /\ start[k + 1] <= Len(FlattenSeq(opts))
                   /\ \A i \in 1..Len(opts[k]) : FlattenSeq(opts)[start[k] + i] = opts[k][i]
    BY <2>1, FlattenLayout
  <2> DEFINE flat == FlattenSeq(opts)
  <2>3. flat = FlattenSeq(opts)
    OBVIOUS
  <2> HIDE DEF flat
  <2> QED
    BY <2>2, <2>3, Zenon
<1>2. PICK m \in Nat, n \in Nat : m = Len(opts) /\ n = Len(args)
  BY SeqParts, Zenon
<1>3. PICK start \in [1..(m + 1) -> Nat] :
        /\ start[1] = 0
        /\ start[m + 1] = n
        /\ \A k \in 1..m :
             /\ start[k + 1] = start[k] + Len(opts[k])
             /\ start[k + 1] <= n
             /\ \A i \in 1..Len(opts[k]) : args[start[k] + i] = opts[k][i]
  BY <1>1, <1>2, Zenon
<1>4. PICK f \in [0..n -> Configs] :
        /\ f[0] = Config0
        /\ \A i \in 1..n : f[i] = ReadArg(f[i - 1], args[i], i < n)
        /\ parseArguments(args) = f[n]
  BY <1>2, ParseUnfolds, Zenon DEF Parses
<1> DEFINE T == {k \in 0..m : Done(opts, k, f[start[k + 1]])}
<1>5. 0 \in T
  <2>1. f[start[0 + 1]] = Config0 /\ 0 \in 0..m
    BY <1>3, <1>4, SMT
  <2>2. Done(opts, 0, Config0)
    <3>1. Config0.end = "none" /\ Config0.pending = ""
      BY SMT DEF Config0
    <3>2. \A opt \in Opts : Config0.given[opt] = ""
      BY SMT DEF Config0, Opts
    <3>3. 1..0 = {}
      BY SMT
    <3> QED
      BY <3>1, <3>2, <3>3, ConfigStarts, Zenon DEF Done
  <2> QED
    BY <2>1, <2>2, Zenon
<1>6. ASSUME NEW k \in 0..(m - 1), k \in T PROVE k + 1 \in T
  <2>1. k \in Nat /\ k + 1 \in 1..m /\ k + 1 \in 0..m /\ (k + 1) + 1 \in 1..(m + 1)
        /\ k + 1 \in 1..(m + 1)
    BY SMT
  <2>2. PICK g \in Group : g = opts[k + 1]
    BY <1>2, <2>1, SeqParts, Zenon
  <2>3. PICK p \in Nat, q \in Nat : p = start[k + 1] /\ q = start[(k + 1) + 1]
    BY <2>1, Zenon
  <2>4. /\ q = p + Len(g) /\ q <= n
        /\ \A i \in 1..Len(g) : args[p + i] = g[i]
    BY <1>3, <2>1, <2>2, <2>3, Zenon
  <2>5. Done(opts, k, f[p])
    BY <1>6, <2>3, Zenon
  <2>6. PICK c \in Configs : c = f[p] /\ (c.end = "none" => c.pending = "")
    BY <2>5, Zenon DEF Done
  <2>7. Took(c, g, f[q])
    <3>1. CASE g[1] \in Valued /\ g[2] \in Values /\ Len(g) = 2
      <4>1. /\ q = p + 2 /\ p + 1 \in 1..n /\ p + 2 \in 1..n /\ (p + 1) - 1 = p
            /\ (p + 2) - 1 = p + 1 /\ p + 1 \in 0..n /\ p + 2 \in 0..n
            /\ (p + 1 < n) = TRUE /\ 1 \in 1..2 /\ 2 \in 1..2
        BY <2>4, <3>1, SMT
      <4>2. args[p + 1] = g[1] /\ args[p + 2] = g[2]
        BY <2>4, <3>1, <4>1, Zenon
      <4>3. f[p + 1] = ReadArg(c, g[1], TRUE)
        <5>1. f[p + 1] = ReadArg(f[(p + 1) - 1], args[p + 1], p + 1 < n)
          BY <1>4, <4>1, Zenon
        <5> QED
          BY <2>6, <4>1, <4>2, <5>1, Zenon
      <4>4. f[p + 2] = ReadArg(f[p + 1], g[2], p + 2 < n)
        <5>1. f[p + 2] = ReadArg(f[(p + 2) - 1], args[p + 2], p + 2 < n)
          BY <1>4, <4>1, Zenon
        <5> QED
          BY <4>1, <4>2, <5>1, Zenon
      <4>5. PICK b, d, more : b = f[p + 1] /\ d = f[q] /\ more = (p + 2 < n)
        BY Zenon
      <4>6. IsRead(c, g[1], TRUE, b) /\ IsRead(b, g[2], more, d)
        BY <4>1, <4>3, <4>4, <4>5, Zenon DEF IsRead
      <4>7. d \in Configs
        BY <4>1, <4>5, Zenon
      <4>8. Took(c, g, d)
        BY <2>6, <3>1, <4>6, <4>7, TakesTwo, Zenon
      <4> QED
        BY <4>5, <4>8, Zenon
    <3>2. CASE (g[1] \in Flags \/ EndsIt(g)) /\ Len(g) = 1
      <4>1. /\ q = p + 1 /\ p + 1 \in 1..n /\ (p + 1) - 1 = p /\ p + 1 \in 0..n
            /\ (p + 1 < n) \in BOOLEAN /\ 1 \in 1..1
        BY <2>4, <3>2, SMT
      <4>2. args[p + 1] = g[1]
        BY <2>4, <3>2, <4>1, Zenon
      <4>3. f[p + 1] = ReadArg(c, g[1], p + 1 < n)
        <5>1. f[p + 1] = ReadArg(f[(p + 1) - 1], args[p + 1], p + 1 < n)
          BY <1>4, <4>1, Zenon
        <5> QED
          BY <2>6, <4>1, <4>2, <5>1, Zenon
      <4>4. PICK d \in Configs, more \in BOOLEAN : d = f[q] /\ more = (p + 1 < n)
        BY <4>1, Zenon
      <4>5. IsRead(c, g[1], more, d)
        BY <4>1, <4>3, <4>4, Zenon DEF IsRead
      <4>6. Took(c, g, d)
        BY <2>6, <3>2, <4>5, TakesOne, Zenon
      <4> QED
        BY <4>4, <4>6, Zenon
    <3> QED
      BY <3>1, <3>2, GroupKinds, Zenon
  <2>8. Done(opts, k + 1, f[q])
    BY <2>1, <2>2, <2>5, <2>6, <2>7, DoneStep, Zenon
  <2> QED
    BY <2>1, <2>3, <2>8, Zenon
<1>7. m \in T
  <2> HIDE DEF T
  <2>1. 0..m \subseteq T
    BY <1>5, <1>6, UpwardInduction
  <2> QED
    BY <2>1, SMT
<1> QED
  BY <1>1, <1>2, <1>3, <1>4, <1>7, Zenon

Given(opts, opt) == { k \in DOMAIN opts : opts[k][1] = opt }

LastIs(opts, c, opt) ==
    /\ Given(opts, opt) = {} => c.given[opt] = ""
    /\ Given(opts, opt) # {} =>
          /\ opts[Max(Given(opts, opt))][1] = opt
          /\ opts[Max(Given(opts, opt))] \in Group
          /\ c.given[opt] = ValueOf(opts[Max(Given(opts, opt))])

(* What an option has in the end is its last value on the   *)
(* line.                                                    *)
LEMMA LastGiven ==
    ASSUME NEW opts \in Seq(Group), NEW c, Done(opts, Len(opts), c), c.end = "none",
           NEW opt \in Opts
    PROVE  LastIs(opts, c, opt)
<1>1. PICK m \in Nat : m = Len(opts) /\ DOMAIN opts = 1..m /\ \A k \in 1..m : opts[k] \in Group
  BY SeqParts, Zenon
<1> DEFINE A == Given(opts, opt)
<1>2. A \in SUBSET (1..m) /\ \A k \in 1..m : k \in A <=> opts[k][1] = opt
  BY <1>1, Zenon DEF Given
<1> HIDE DEF A
<1>3. CASE A = {}
  <2>1. \A k \in 1..m : opts[k][1] # opt
    BY <1>2, <1>3, Zenon
  <2>2. c.given[opt] = ""
    BY <1>1, <2>1, Zenon DEF Done
  <2> QED
    BY <1>3, <2>2, Zenon DEF A, LastIs
<1>4. CASE A # {}
  <2>1. PICK x \in 1..m : x = Max(A) /\ x \in A /\ \A y \in A : x >= y
    BY <1>2, <1>4, HasMax, Zenon
  <2>2. \A i \in (x + 1)..m : opts[i][1] # opt
    <3>1. \A i \in (x + 1)..m : i \in 1..m /\ ~(x >= i)
      BY SMT
    <3> QED
      BY <1>2, <2>1, <3>1, Zenon
  <2>3. c.given[opt] = ValueOf(opts[x])
    BY <1>1, <1>2, <2>1, <2>2, Zenon DEF Done
  <2> QED
    BY <1>1, <1>2, <1>4, <2>1, <2>3, Zenon DEF A, LastIs
<1> QED
  BY <1>3, <1>4, Zenon

(* The parse ends at the first option that stops the        *)
(* program.                                                 *)
LEMMA FirstEnds ==
    ASSUME NEW opts \in Seq(Group), NEW c, Done(opts, Len(opts), c),
           NEW A, A = Given(opts, "--help") \cup Given(opts, "--bogus")
    PROVE  /\ A = {} => c.end = "none"
           /\ A # {} => c.end = IF Min(A) \in Given(opts, "--help") THEN "help" ELSE "error"
<1>1. PICK m \in Nat : m = Len(opts) /\ DOMAIN opts = 1..m
  BY SeqParts, Zenon
<1>2. A \in SUBSET (1..m) /\ \A k \in 1..m : k \in A <=> EndsIt(opts[k])
  BY <1>1, Zenon DEF Given, EndsIt
<1>3. CASE A = {}
  BY <1>1, <1>2, <1>3, Zenon DEF Done
<1>4. CASE A # {}
  <2>1. PICK x \in 1..m : x = Min(A) /\ x \in A /\ \A y \in A : x <= y
    BY <1>2, <1>4, HasMin, Zenon
  <2>2. \A i \in 1..(x - 1) : ~EndsIt(opts[i])
    <3>1. \A i \in 1..(x - 1) : i \in 1..m /\ ~(x <= i)
      BY SMT
    <3> QED
      BY <1>2, <2>1, <3>1, Zenon
  <2>3. c.end = EndOf(opts[x])
    BY <1>1, <1>2, <2>1, <2>2, Zenon DEF Done
  <2>4. x \in Given(opts, "--help") <=> opts[x][1] = "--help"
    BY <1>1, Zenon DEF Given
  <2> QED
    BY <1>4, <2>1, <2>3, <2>4, Zenon DEF EndOf
<1> QED
  BY <1>3, <1>4, Zenon

(* What main starts, in terms of what parseArguments        *)
(* returns.                                                 *)
LEMMA Started ==
    ASSUME NEW args, NEW c, c = parseArguments(args)
    PROVE  /\ started(args).end =
                IF c.end # "none" THEN c.end
                ELSE IF c.given["--version"] # "" THEN "version"
                ELSE IF c.given["--list-renderers"] # "" THEN "list" ELSE "none"
           /\ started(args).renderer =
                IF c.given["--renderer-url"] # "" THEN <<"url", c.given["--renderer-url"]>>
                ELSE IF c.given["--renderer-uuid"] # "" THEN <<"match", c.given["--renderer-uuid"]>>
                ELSE <<"match", c.given["--renderer"]>>
  BY Zenon DEF started

(* The ports main serves on, in terms of what               *)
(* parseArguments returns.                                  *)
LEMMA StartedPorts ==
    ASSUME NEW args, NEW c, c = parseArguments(args), NEW k,
           k = uint16(atoi(c.given["--http-port"])), NEW s, s = started(args)
    PROVE  s.ports = <<k, IF k = 0 THEN 0 ELSE uint16(k + 1)>>
  BY Zenon DEF started

(* The same of an option with a value, as LastValue has it. *)
LEMMA LastOf ==
    ASSUME NEW opts \in Seq(Group), NEW c, Done(opts, Len(opts), c), c.end = "none",
           NEW opt \in Valued
    PROVE  c.given[opt] = IF Given(opts, opt) = {} THEN "" ELSE opts[Max(Given(opts, opt))][2]
<1>0. opt \in Opts
  BY Zenon DEF Opts
<1>3. LastIs(opts, c, opt)
  BY <1>0, LastGiven, Zenon
<1>1. CASE Given(opts, opt) = {}
  BY <1>1, <1>3, Zenon DEF LastIs
<1>2. CASE Given(opts, opt) # {}
  <2>1. PICK g : g = opts[Max(Given(opts, opt))]
    BY Zenon
  <2>2. g[1] = opt /\ c.given[opt] = ValueOf(g)
    BY <1>2, <1>3, <2>1, Zenon DEF LastIs
  <2> QED
    BY <1>2, <2>1, <2>2, Zenon DEF ValueOf
<1> QED
  BY <1>1, <1>2, Zenon

(* An option with a value in the end stands on the line.    *)
LEMMA WasGiven ==
    ASSUME NEW opts \in Seq(Group), NEW c, Done(opts, Len(opts), c), c.end = "none",
           NEW opt \in Opts
    PROVE  c.given[opt] # "" <=> Given(opts, opt) # {}
<1>3. LastIs(opts, c, opt)
  BY LastGiven, Zenon
<1>1. CASE Given(opts, opt) = {}
  BY <1>1, <1>3, Zenon DEF LastIs
<1>2. CASE Given(opts, opt) # {}
  <2>1. PICK g \in Group : g = opts[Max(Given(opts, opt))] /\ g[1] = opt /\ c.given[opt] = ValueOf(g)
    BY <1>2, <1>3, Zenon DEF LastIs
  <2>2. CASE opt \in Valued
    <3>1. g[2] \in Values
      BY <2>1, <2>2, GroupKinds, Distinct, Zenon DEF EndsIt
    <3> QED
      BY <1>2, <2>1, <2>2, <3>1, Distinct, Zenon DEF ValueOf
  <2>3. CASE opt \notin Valued
    BY <1>2, <2>1, <2>3, Zenon DEF ValueOf
  <2> QED
    BY <2>2, <2>3, Zenon
<1> QED
  BY <1>1, <1>2, Zenon

(* The second port is the next one, or any.                 *)
LEMMA Ports ==
    ASSUME NEW v, NEW k, k = uint16(atoi(v))
    PROVE  <<k, IF k = 0 THEN 0 ELSE uint16(k + 1)>> = PortPair(k)
<1>1. atoi(v) \in {0, 65535, 70000}
  BY SMT DEF atoi
<1>2. k \in {0, 65535, 4464}
  BY <1>1, SMT DEF uint16
<1>3. CASE k = 0
  BY <1>3, SMT DEF PortPair
<1>4. CASE k = 65535
  BY <1>4, SMT DEF uint16, PortPair
<1>5. CASE k = 4464
  BY <1>5, SMT DEF uint16, PortPair
<1> QED
  BY <1>2, <1>3, <1>4, <1>5, SMT

LineOK == line \in Seq(Group)

(* Every step chooses a line of groups.                     *)
LEMMA LineAlwaysOK == OptionsSpec => []LineOK
<1>1. OptionsInit => LineOK
  BY DEF OptionsInit, LineOK
<1>2. LineOK /\ [OptionsNext]_line => LineOK'
  <2>1. ASSUME LineOK, NEW g \in Group, line' = Append(line, g) PROVE LineOK'
    BY <2>1, SMT DEF LineOK
  <2> QED
    BY <2>1, Zenon DEF OptionsNext, LineOK
<1> QED
  BY <1>1, <1>2, PTL DEF OptionsSpec

(* main.cpp:146-262, 402-411, 425-436, 467-472: for lines of any length.   *)
THEOREM AlwaysStartsAsAsked == OptionsSpec => []StartsAsAsked
<1>1. LineOK => StartsAsAsked
  <2> SUFFICES ASSUME LineOK PROVE StartsAsAsked
    OBVIOUS
  <2>1. PICK opts \in Seq(Group) : opts = line
    BY Zenon DEF LineOK
  <2>2. PICK c, s : c = parseArguments(FlattenSeq(opts)) /\ s = started(FlattenSeq(opts))
    BY Zenon
  <2>3. Done(opts, Len(opts), c)
    BY <2>2, ParsedDone, Zenon
  <2>4. /\ \A opt : Places(opt) = Given(opts, opt)
        /\ \A opt : LastValue(opt) = IF Places(opt) = {} THEN "" ELSE opts[Max(Places(opt))][2]
    BY <2>1, Zenon DEF Places, Given, LastValue
  <2>5. PICK A : A = Places("--help") \cup Places("--bogus")
    BY Zenon
  <2>6. s = started(FlattenSeq(line))
    BY <2>1, <2>2, Zenon
  <2>7. /\ A = {} => c.end = "none"
        /\ A # {} => c.end = IF Min(A) \in Places("--help") THEN "help" ELSE "error"
    <3>1. A = Given(opts, "--help") \cup Given(opts, "--bogus")
      BY <2>4, <2>5, Zenon
    <3> QED
      BY <2>3, <2>4, <3>1, FirstEnds, Zenon
  <2>8. CASE A # {}
    <3>1. c.end = IF Min(A) \in Places("--help") THEN "help" ELSE "error"
      BY <2>7, <2>8, Zenon
    <3>2. c.end # "none"
      BY <3>1, Zenon
    <3>3. s.end = c.end
      BY <2>2, <3>2, Started, Zenon
    <3> QED
      BY <2>5, <2>6, <2>8, <3>1, <3>3, Zenon DEF StartsAsAsked
  <2>9. CASE A = {}
    <3>1. c.end = "none"
      BY <2>7, <2>9, Zenon
    <3>2. /\ "--version" \in Opts /\ "--list-renderers" \in Opts
          /\ "--renderer-url" \in Opts /\ "--renderer-uuid" \in Opts
          /\ "--renderer" \in Valued /\ "--renderer-uuid" \in Valued
          /\ "--renderer-url" \in Valued /\ "--http-port" \in Valued
      BY Zenon DEF Opts, Valued, Flags
    <3>3. \A opt \in Opts : c.given[opt] # "" <=> Places(opt) # {}
      <4>1. \A opt \in Opts : c.given[opt] # "" <=> Given(opts, opt) # {}
        BY <2>3, <3>1, WasGiven, Zenon
      <4> QED
        BY <2>4, <4>1, Zenon
    <3>4. \A opt \in Valued : c.given[opt] = LastValue(opt)
      <4>1. \A opt \in Valued :
              c.given[opt] = IF Given(opts, opt) = {} THEN "" ELSE opts[Max(Given(opts, opt))][2]
        BY <2>3, <3>1, LastOf, Zenon
      <4> QED
        BY <2>4, <4>1, Zenon
    <3>5. /\ s.end = "version" <=> Places("--version") # {}
          /\ s.end = "list" <=> Places("--version") = {} /\ Places("--list-renderers") # {}
      <4>1. s.end = IF c.given["--version"] # "" THEN "version"
                    ELSE IF c.given["--list-renderers"] # "" THEN "list" ELSE "none"
        BY <2>2, <3>1, Started, Zenon
      <4> QED
        BY <3>2, <3>3, <4>1, Zenon
    <3>6. s.renderer = IF Places("--renderer-url") # {} THEN <<"url", LastValue("--renderer-url")>>
                       ELSE <<"match", IF Places("--renderer-uuid") # {}
                                       THEN LastValue("--renderer-uuid")
                                       ELSE LastValue("--renderer")>>
      <4>1. s.renderer =
                IF c.given["--renderer-url"] # "" THEN <<"url", c.given["--renderer-url"]>>
                ELSE IF c.given["--renderer-uuid"] # "" THEN <<"match", c.given["--renderer-uuid"]>>
                ELSE <<"match", c.given["--renderer"]>>
        BY <2>2, Started, Zenon
      <4> QED
        BY <3>2, <3>3, <3>4, <4>1, Zenon
    <3>7. s.ports = PortPair(uint16(atoi(LastValue("--http-port"))))
      <4>1. PICK v, k : v = LastValue("--http-port") /\ k = uint16(atoi(v))
        BY Zenon
      <4>2. c.given["--http-port"] = v
        BY <3>2, <3>4, <4>1, Zenon
      <4>3. s.ports = <<k, IF k = 0 THEN 0 ELSE uint16(k + 1)>>
        BY <2>2, <4>1, <4>2, StartedPorts, Zenon
      <4>4. <<k, IF k = 0 THEN 0 ELSE uint16(k + 1)>> = PortPair(k)
        BY <4>1, Ports, Zenon
      <4> QED
        BY <4>1, <4>3, <4>4, Zenon
    <3> QED
      BY <2>5, <2>6, <2>9, <3>5, <3>6, <3>7, Zenon DEF StartsAsAsked
  <2> QED
    BY <2>8, <2>9, Zenon
<1> QED
  BY <1>1, LineAlwaysOK, PTL
=============================================================================
