------------------------ MODULE AudioHttpServerProofs ------------------------
(***************************************************************************)
(* Proofs about AudioHttpServer, for every number of tracks and            *)
(* connections, every length of track and every size of ring, read and     *)
(* write: what the ring holds and what a connection gets is one track      *)
(* without a hole, under its own header.  The bytes of the ring are seen   *)
(* only through Contents, which RingBufferProofs is about.                 *)
(***************************************************************************)
EXTENDS AudioHttpServer, SequenceTheorems, TLAPS

\* The lemmas about the ring.
RP == INSTANCE RingBufferProofs WITH data <- chunk

-----------------------------------------------------------------------------
(* The inductive invariant.                                                *)

\* The audio thread has a new track that is not yet ready to serve.
NewPcs  == {"format", "formatFlags", "mime", "prebuffer", "prebufferWrite",
            "describe", "ready"}
FillPcs == {"prebuffer", "prebufferWrite", "describe", "ready"}
FeedPcs == FillPcs \cup {"stream", "streamWrite"}
PastPcs == {"header", "data", "empty", "send"}

\* The client has passed the wait for the prebuffer and is still connected.
Served ==
    /\ serverPc \in PastPcs \/ (serverPc = "close" /\ got[client] # <<>>)
    /\ sock[client] = "open"

\* What was taken from the ring for the client.
Taken == got[client] \o (IF serverPc = "send" THEN sendBuf ELSE <<>>)

OfTrack(s) == \A k \in 1..Len(s) : s[k][1] = track
Steady     == active /\ resetPc.slim = 0 /\ resetPc.audio = 0
Flowing    == running /\ ~endOfStream

\* The server thread: one client at a time, registered but for a moment.
ClientInv ==
    /\ client = 0 <=> serverPc \in {"accept", "exit"}
    /\ clientSocket \in {0, client}
    /\ serverPc = "register" => clientSocket = 0
    /\ serverPc \notin {"accept", "exit", "register"} /\ sock[client] = "open"
         => clientSocket = client
    /\ \A c \in Conn : sock[c] = "open" => c = client
    /\ \A c \in Conn : sock[c] \in {"none", "queued"} => got[c] = <<>>
    /\ serverPc \in {"register", "request", "wait", "recheck", "header"}
         => got[client] = <<>>

\* The audio and the slimproto thread: who may be in reset, and when the ring
\* has a writer.
ControlInv ==
    /\ slimPc = "idle"  => resetPc.slim = 0
    /\ slimPc = "start" => audioPc = "gone"
    /\ slimPc = "stop"  => ~active
    /\ resetPc.audio # 0 => audioPc = "chain"
    /\ chunk # <<>> => audioPc \in {"prebufferWrite", "streamWrite"}
    /\ audioPc \in {"chain", "format", "formatFlags", "mime"} => source = 0
    /\ audioPc \in {"formatFlags", "mime"} => Ring!Contents = <<>>

\* Nobody is served from a slot whose next track is not ready: reset lowers
\* m_readyToServe before it cuts the client, and cuts before it empties.
ReadyInv ==
    /\ audioPc \in NewPcs => ~readyToServe /\ ~Served
    /\ audioPc = "chain" /\ resetPc.audio # 1 => ~readyToServe
    /\ audioPc = "chain" /\ resetPc.audio \notin {1, 2} => ~Served
    /\ slimPc = "start" /\ resetPc.slim # 1 => ~readyToServe
    /\ slimPc = "start" /\ resetPc.slim \notin {1, 2} => ~Served
    /\ slimPc = "stop" /\ resetPc.slim \in {2, 3, 4} /\ readyToServe => chunk = <<>>
    /\ slimPc = "stop" /\ resetPc.slim \in {3, 4} /\ Served => chunk = <<>>

\* What is served is the track the audio thread plays.
TrackInv ==
    /\ OfTrack(chunk)
    /\ Steady /\ (readyToServe \/ audioPc \in FillPcs)
         => meta = track /\ OfTrack(Ring!Contents)
    /\ Steady /\ Served =>
         /\ readyToServe
         /\ OfTrack(Taken)
         /\ serverPc # "header" => header[client] = track

\* What came before, s, goes on in the ring, and from there in what the audio
\* thread has in hand and will read, as long as the stream flows.
Continues(s) ==
    /\ Consecutive(s \o Ring!Contents)
    /\ Flowing => Consecutive(s \o (Ring!Contents \o chunk))
    /\ (Flowing /\ active /\ audioPc \in FeedPcs) =>
         LET q == s \o (Ring!Contents \o chunk)
         IN  q # <<>> => q[Len(q)] = <<track, source>>

FlowInv ==
    /\ Consecutive(chunk)
    /\ Continues(<<>>)
    /\ slimPc = "stop" /\ resetPc.slim = 4 => Consecutive(Ring!Contents \o chunk)
    /\ Served => Consecutive(Taken)
    /\ Served /\ serverPc \in PastPcs => Continues(Taken)

ServerInv == ClientInv /\ ControlInv /\ ReadyInv /\ TrackInv /\ FlowInv

-----------------------------------------------------------------------------
(* Sequences of bytes.                                                     *)

LEMMA EmptyJoins ==
    ASSUME NEW s \in Seq(Byte)
    PROVE  <<>> \o s = s /\ s \o <<>> = s /\ <<>> \in Seq(Byte)
BY ConcatEmptySeq, EmptySeq

LEMMA Positive ==
    /\ MaxTrack \in Nat \ {0} /\ TrackLen \in Nat \ {0} /\ MaxConn \in Nat \ {0}
    /\ MaxRead \in Nat \ {0} /\ MaxWrite \in Nat \ {0} /\ Prebuffer \in Nat \ {0}
BY ServerAssumption

LEMMA PositionOfByte ==
    ASSUME NEW b \in Byte
    PROVE  b[2] \in Nat
<1>1. CASE b = Zero
  BY <1>1 DEF Zero
<1>2. CASE b \in (1..MaxTrack) \X (1..TrackLen)
  BY <1>2, Positive
<1> QED
  BY <1>1, <1>2 DEF Byte

\* A part of a sequence without a hole has none.
LEMMA PartsConsecutive ==
    ASSUME NEW s \in Seq(Byte), NEW t \in Seq(Byte), Consecutive(s \o t)
    PROVE  Consecutive(s) /\ Consecutive(t)
<1>1. /\ Len(s \o t) = Len(s) + Len(t)
      /\ \A i \in 1 .. Len(s) + Len(t) :
            (s \o t)[i] = IF i <= Len(s) THEN s[i] ELSE t[i - Len(s)]
      /\ Len(s) \in Nat /\ Len(t) \in Nat
  BY ConcatProperties, LenProperties
<1> DEFINE w == s \o t
<1>2. \A k \in 1..Len(s) + Len(t) : w[k] = <<w[1][1], w[1][2] + k - 1>>
  BY <1>1 DEF Consecutive
<1>3. Consecutive(s)
  <2> SUFFICES ASSUME NEW k \in 1..Len(s) PROVE s[k] = <<s[1][1], s[1][2] + k - 1>>
    BY DEF Consecutive
  <2>1. w[k] = s[k] /\ w[1] = s[1] /\ w[k] = <<w[1][1], w[1][2] + k - 1>>
    BY <1>1, <1>2
  <2> QED
    BY <2>1
<1>4. Consecutive(t)
  <2> SUFFICES ASSUME NEW k \in 1..Len(t) PROVE t[k] = <<t[1][1], t[1][2] + k - 1>>
    BY DEF Consecutive
  <2> DEFINE i == Len(s) + k   j == Len(s) + 1   p == w[1][2]
  <2>1. /\ i \in 1..Len(s) + Len(t) /\ j \in 1..Len(s) + Len(t)
        /\ 1 \in 1..Len(s) + Len(t) /\ w[i] = t[k] /\ w[j] = t[1]
    BY <1>1
  <2>2. t[k] = <<w[1][1], p + i - 1>> /\ t[1] = <<w[1][1], p + j - 1>>
    BY <1>2, <2>1
  <2>3. w[1] \in Byte
    BY <1>1, <2>1, ConcatProperties, ElementOfSeq
  <2>4. p \in Nat
    BY <2>3, PositionOfByte
  <2>5. p + i - 1 = (p + j - 1) + k - 1
    <3>1. Len(s) \in Nat /\ k \in Nat
      BY <1>1
    <3> HIDE DEF p
    <3> QED
      BY <2>4, <3>1
  <2>6. t[1][1] = w[1][1] /\ t[1][2] = p + j - 1
    BY <2>2
  <2> QED
    BY <2>2, <2>5, <2>6
<1> QED
  BY <1>3, <1>4

\* One that goes on where another ends continues it.
LEMMA JoinConsecutive ==
    ASSUME NEW s \in Seq(Byte), NEW t \in Seq(Byte),
           Consecutive(s), Consecutive(t),
           s # <<>> /\ t # <<>> => t[1] = <<s[Len(s)][1], s[Len(s)][2] + 1>>
    PROVE  Consecutive(s \o t)
<1>1. /\ Len(s \o t) = Len(s) + Len(t)
      /\ \A i \in 1 .. Len(s) + Len(t) :
            (s \o t)[i] = IF i <= Len(s) THEN s[i] ELSE t[i - Len(s)]
      /\ Len(s) \in Nat /\ Len(t) \in Nat
  BY ConcatProperties, LenProperties
<1>2. CASE s = <<>> \/ t = <<>>
  BY <1>2, EmptyJoins
<1>3. CASE s # <<>> /\ t # <<>>
  <2>1. Len(s) >= 1 /\ Len(t) >= 1
    BY <1>3, EmptySeq
  <2>2. s[1] \in Byte
    BY <2>1, <1>1, ElementOfSeq
  <2>3. s[1][2] \in Nat
    BY <2>2, PositionOfByte
  <2>4. s[Len(s)] = <<s[1][1], s[1][2] + Len(s) - 1>>
    BY <1>1, <2>1 DEF Consecutive
  <2>5. t[1] = <<s[1][1], s[1][2] + Len(s)>>
    <3>1. s[Len(s)][1] = s[1][1] /\ s[Len(s)][2] = s[1][2] + Len(s) - 1
      BY <2>4
    <3>2. s[Len(s)][2] + 1 = s[1][2] + Len(s)
      BY <1>1, <2>3, <3>1
    <3> QED
      BY <1>3, <3>1, <3>2
  <2> SUFFICES ASSUME NEW k \in 1..Len(s) + Len(t)
               PROVE  (s \o t)[k] = <<(s \o t)[1][1], (s \o t)[1][2] + k - 1>>
    BY <1>1 DEF Consecutive
  <2>6. (s \o t)[1] = s[1]
    BY <1>1, <2>1
  <2>7. CASE k <= Len(s)
    BY <1>1, <2>6, <2>7 DEF Consecutive
  <2>8. CASE k > Len(s)
    <3>1. (s \o t)[k] = t[k - Len(s)] /\ k - Len(s) \in 1..Len(t)
      BY <1>1, <2>8
    <3>2. t[k - Len(s)] = <<t[1][1], t[1][2] + (k - Len(s)) - 1>>
      BY <3>1 DEF Consecutive
    <3>3. t[1][1] = s[1][1] /\ t[1][2] = s[1][2] + Len(s)
      BY <2>5
    <3> DEFINE p == s[1][2]   n == Len(s)
    <3>4. (p + n) + (k - n) - 1 = p + k - 1
      <4>1. p \in Nat /\ n \in Nat /\ k \in Nat
        BY <1>1, <2>3
      <4> HIDE DEF p, n
      <4> QED
        BY <4>1
    <3> QED
      BY <2>6, <3>1, <3>2, <3>3, <3>4
  <2>9. k <= Len(s) \/ k > Len(s)
    BY <1>1
  <2> QED
    BY <2>7, <2>8, <2>9
<1> QED
  BY <1>2, <1>3

\* The last element of a sequence that goes on.
LEMMA LastOfJoin ==
    ASSUME NEW s \in Seq(Byte), NEW t \in Seq(Byte), t # <<>>
    PROVE  s \o t # <<>> /\ (s \o t)[Len(s \o t)] = t[Len(t)]
<1>1. /\ Len(s \o t) = Len(s) + Len(t)
      /\ \A i \in 1 .. Len(s) + Len(t) :
            (s \o t)[i] = IF i <= Len(s) THEN s[i] ELSE t[i - Len(s)]
      /\ Len(s) \in Nat /\ Len(t) \in Nat
  BY ConcatProperties, LenProperties
<1>2. Len(t) >= 1
  BY <1>1, EmptySeq
<1>3. Len(s) + Len(t) \in 1..Len(s) + Len(t) /\ ~(Len(s) + Len(t) <= Len(s))
      /\ (Len(s) + Len(t)) - Len(s) = Len(t)
  BY <1>1, <1>2
<1> QED
  BY <1>1, <1>3, EmptySeq

\* The bytes of one track, and their parts.
LEMMA OfTrackJoins ==
    ASSUME NEW s \in Seq(Byte), NEW t \in Seq(Byte)
    PROVE  OfTrack(s \o t) <=> OfTrack(s) /\ OfTrack(t)
<1>1. /\ Len(s \o t) = Len(s) + Len(t)
      /\ \A i \in 1 .. Len(s) + Len(t) :
            (s \o t)[i] = IF i <= Len(s) THEN s[i] ELSE t[i - Len(s)]
      /\ Len(s) \in Nat /\ Len(t) \in Nat
  BY ConcatProperties, LenProperties
<1>2. ASSUME OfTrack(s), OfTrack(t) PROVE OfTrack(s \o t)
  BY <1>1, <1>2 DEF OfTrack
<1>3. ASSUME OfTrack(s \o t) PROVE OfTrack(s)
  BY <1>1, <1>3 DEF OfTrack
<1>4. ASSUME OfTrack(s \o t) PROVE OfTrack(t)
  <2> SUFFICES ASSUME NEW k \in 1..Len(t) PROVE t[k][1] = track
    BY DEF OfTrack
  <2>1. (s \o t)[Len(s) + k] = t[k] /\ Len(s) + k \in 1..Len(s \o t)
    BY <1>1
  <2> QED
    BY <1>4, <2>1 DEF OfTrack
<1> QED
  BY <1>2, <1>3, <1>4

-----------------------------------------------------------------------------
(* The ring: each operation by what it does to the unread bytes.           *)

LEMMA RingAssumptions == RP!ZeroAssumption /\ RP!SizeAssumption
BY ServerAssumption DEF RP!ZeroAssumption, RP!SizeAssumption, Byte

LEMMA SameRing ==
    /\ Ring!RingTypeOK <=> RP!RingTypeOK
    /\ Ring!RingTypeOK' <=> RP!RingTypeOK'
    /\ Ring!Contents = RP!Contents
    /\ Ring!Contents' = RP!Contents'
    /\ Ring!ringAvailable = RP!ringAvailable
    /\ Ring!ringFree = RP!ringFree
BY DEF RP!RingTypeOK, Ring!RingTypeOK, RP!Contents, Ring!Contents, RP!Place, Ring!Place,
       RP!ringFree, Ring!ringFree, RP!ringAvailable, Ring!ringAvailable

LEMMA RingWrites ==
    ASSUME Ring!RingTypeOK, NEW src \in Seq(Byte), Ring!ringWrite(src)
    PROVE  /\ Ring!RingTypeOK'
           /\ Ring!Contents' = Ring!Contents \o src
<1>1. RP!ringWrite(src)
  BY DEF RP!ringWrite, Ring!ringWrite, RP!ringFree, Ring!ringFree, RP!ringAvailable,
         Ring!ringAvailable, RP!Least, Ring!Least
<1>2. RP!RingTypeOK' /\ RP!Contents' = RP!Contents \o src
  BY <1>1, SameRing, RingAssumptions, RP!WriteType, RP!WriteAppends
<1> QED
  BY <1>2, SameRing

LEMMA RingContents ==
    ASSUME Ring!RingTypeOK
    PROVE  Ring!Contents \in Seq(Byte)
<1>1. RP!Contents \in Seq(Byte)
  BY SameRing, RingAssumptions, RP!ContentsIsSeq
<1> QED
  BY <1>1, SameRing

LEMMA RingReads ==
    ASSUME Ring!RingTypeOK, Ring!ringRead(MaxRead)
    PROVE  /\ Ring!RingTypeOK'
           /\ Ring!Contents = sendBuf' \o Ring!Contents'
           /\ sendBuf' \in Seq(Byte) /\ Ring!Contents' \in Seq(Byte)
<1>1. RP!ringRead(MaxRead)
  BY DEF RP!ringRead, Ring!ringRead, RP!ringAvailable, Ring!ringAvailable, RP!Least, Ring!Least
<1>2. MaxRead \in Nat \ {0}
  BY ServerAssumption
<1>3. RP!RingTypeOK'
  BY <1>1, <1>2, SameRing, RingAssumptions, RP!ReadType
<1>4. PICK m \in 1..MaxRead :
         /\ m <= Len(RP!Contents)
         /\ sendBuf' = SubSeq(RP!Contents, 1, m)
         /\ RP!Contents' = SubSeq(RP!Contents, m + 1, Len(RP!Contents))
  BY <1>1, <1>2, SameRing, RingAssumptions, RP!ReadTakes
<1> DEFINE c == RP!Contents
<1>5. c \in Seq(Byte) /\ Len(c) \in Nat
  BY SameRing, RingContents, LenProperties
<1>6. SubSeq(c, 1, m) \o SubSeq(c, m + 1, Len(c)) = SubSeq(c, 1, Len(c))
  <2>1. 1 \in 1..Len(c) + 1 /\ m \in 1 - 1..Len(c) /\ Len(c) \in m..Len(c)
    BY <1>4, <1>5, <1>2
  <2> QED
    BY <1>5, <2>1, ConcatAdjacentSubSeq
<1>7. SubSeq(c, 1, Len(c)) = c
  BY <1>5, SubSeqFull
<1>8. SubSeq(c, 1, m) \in Seq(Byte) /\ SubSeq(c, m + 1, Len(c)) \in Seq(Byte)
  BY <1>2, <1>4, <1>5, SubSeqProperties, ElementOfSeq
<1> QED
  BY <1>3, <1>4, <1>6, <1>7, <1>8, SameRing

LEMMA RingEmpties ==
    ASSUME Ring!RingTypeOK, Ring!ringReset
    PROVE  Ring!RingTypeOK' /\ Ring!Contents' = <<>>
<1>1. Ring!RingTypeOK'
  BY ServerAssumption DEF Ring!RingTypeOK, Ring!ringReset
<1>2. Ring!ringAvailable' = 0
  BY DEF Ring!ringReset, Ring!ringAvailable
<1> QED
  BY <1>1, <1>2 DEF Ring!Contents

LEMMA RingRenews ==
    ASSUME Ring!RingTypeOK, NEW c \in Capacities, Ring!ringResize(c)
    PROVE  Ring!RingTypeOK' /\ Ring!Contents' = <<>>
<1>1. RP!ringResize(c)
  BY DEF RP!ringResize, Ring!ringResize
<1>2. RP!RingTypeOK'
  BY <1>1, SameRing, RingAssumptions, RP!ResizeType
<1>3. Ring!ringAvailable' = 0
  BY DEF Ring!ringResize, Ring!ringAvailable
<1> QED
  BY <1>2, <1>3, SameRing DEF Ring!Contents

LEMMA RingKeeps ==
    ASSUME UNCHANGED ring
    PROVE  /\ Ring!RingTypeOK => Ring!RingTypeOK'
           /\ Ring!Contents' = Ring!Contents
BY DEF ring, Ring!RingTypeOK, Ring!Contents, Ring!ringAvailable, Ring!Place

-----------------------------------------------------------------------------
(* Types.                                                                  *)

AudioPcs  == {"gone", "format", "formatFlags", "mime", "prebuffer",
              "prebufferWrite", "describe", "ready", "stream", "streamWrite",
              "ended", "chain", "finish", "lastEos"}
ServerPcs == {"accept", "register", "request", "wait", "recheck", "header",
              "data", "empty", "send", "close", "exit"}

\* A thread that is there plays a track, and one is left for a cold start.
AudioTypes ==
    /\ endOfStream \in BOOLEAN /\ readyToServe \in BOOLEAN /\ httpEof \in BOOLEAN
    /\ meta \in 0..MaxTrack /\ track \in 0..MaxTrack
    /\ audioPc \in AudioPcs
    /\ source \in 0..TrackLen /\ chunk \in Seq(Byte)
    /\ audioPc # "gone" => track # 0
    /\ slimPc = "start" => audioPc = "gone" /\ track < MaxTrack
ControlTypes ==
    /\ running \in BOOLEAN /\ active \in BOOLEAN
    /\ slimPc \in {"idle", "stop", "start"}
    /\ mainPc \in {"run", "stopAudio", "stop", "closeClient", "join"}
    /\ resetPc \in [{"slim", "audio"} -> 0..4]
ServerTypes ==
    /\ clientSocket \in 0..MaxConn /\ client \in 0..MaxConn
    /\ isHead \in BOOLEAN /\ serverPc \in ServerPcs
    /\ sock \in [Conn -> {"none", "queued", "open", "shut", "closed"}]
    /\ header \in [Conn -> 0..MaxTrack]
    /\ got \in [Conn -> Seq(Byte)]

TypeInv == Ring!RingTypeOK /\ AudioTypes /\ ControlTypes /\ ServerTypes

LEMMA TypesSuffice == TypeInv => TypeOK
BY DEF TypeInv, TypeOK, Ring!RingTypeOK, AudioTypes, ControlTypes, ServerTypes,
       AudioPcs, ServerPcs

LEMMA TypeInit == Init => TypeInv
<1> SUFFICES ASSUME Init PROVE TypeInv
  OBVIOUS
<1>0. <<>> \in Seq(Byte)
  BY EmptySeq
<1>1. Ring!RingTypeOK
  <2>1. cap = 0 /\ writePos = 0 /\ readPos = 0 /\ buf = <<>> /\ sendBuf = <<>>
    BY DEF Init, Ring!RingInit
  <2>2. 0..cap-1 = {}
    BY <2>1
  <2>3. <<>> \in [{} -> Byte]
    OBVIOUS
  <2> QED
    BY <1>0, <2>1, <2>2, <2>3 DEF Ring!RingTypeOK
<1>2. AudioTypes /\ ControlTypes
  <2>1. 0 \in 0..MaxTrack /\ 0 \in 0..TrackLen
    BY Positive
  <2>2. AudioTypes
    BY <1>0, <2>1 DEF Init, AudioTypes, AudioPcs
  <2>3. resetPc \in [{"slim", "audio"} -> 0..4]
    BY DEF Init
  <2> QED
    BY <2>2, <2>3 DEF Init, ControlTypes
<1>3. ServerTypes
  <2>1. 0 \in 0..MaxTrack /\ 0 \in 0..MaxConn
    BY Positive
  <2> QED
    BY <1>0, <2>1 DEF Init, ServerTypes, ServerPcs
<1> QED
  BY <1>1, <1>2, <1>3 DEF TypeInv

LEMMA ResetTypes ==
    ASSUME TypeInv, NEW t \in {"slim", "audio"}, Reset(t)
    PROVE  TypeInv'
<1>1. PICK from \in 1..4, to \in 0..4 : ResetGoes(t, from, to)
  BY DEF Reset, ResetFlags, ResetClient, ResetRing, ResetLowerEos
<1>2. Ring!RingTypeOK'
  <2>1. CASE ResetRing(t)
    BY <2>1, RingEmpties DEF ResetRing, TypeInv
  <2>2. CASE UNCHANGED ring
    BY <2>2, RingKeeps DEF TypeInv
  <2> QED
    BY <2>1, <2>2 DEF Reset, ResetFlags, ResetClient, ResetLowerEos
<1>3. ControlTypes'
  <2>1. resetPc' \in [{"slim", "audio"} -> 0..4]
    BY <1>1 DEF ResetGoes, TypeInv, ControlTypes
  <2> QED
    BY <1>1, <2>1 DEF ResetGoes, TypeInv, ControlTypes, control
<1>4. AudioTypes'
  <2>1. UNCHANGED <<audioPc, input, slimPc>>
    BY <1>1 DEF ResetGoes, control
  <2>2. /\ endOfStream' \in {endOfStream, TRUE, FALSE}
        /\ readyToServe' \in {readyToServe, FALSE} /\ meta' \in {meta, 0}
    BY DEF Reset, ResetFlags, ResetClient, ResetRing, ResetLowerEos, flags
  <2>3. 0 \in 0..MaxTrack
    BY Positive
  <2> QED
    BY <2>1, <2>2, <2>3 DEF TypeInv, AudioTypes, input
<1>5. sock' \in [Conn -> {"none", "queued", "open", "shut", "closed"}]
  BY DEF Reset, ResetFlags, ResetClient, ResetRing, ResetLowerEos, ShutdownClient,
     TypeInv, ServerTypes
<1>6. ServerTypes'
  BY <1>1, <1>5 DEF ResetGoes, TypeInv, ServerTypes, server, output
<1> QED
  BY <1>2, <1>3, <1>4, <1>6 DEF TypeInv

\* What writeAudio has in hand.
LEMMA FetchedBytes ==
    ASSUME TypeInv, audioPc # "gone", NEW n \in 1..Ring!Least(MaxWrite, TrackLen - source)
    PROVE  /\ n \in Nat \ {0} /\ source + n \in 0..TrackLen
           /\ [k \in 1..n |-> <<track, source + k>>] \in Seq(Byte)
           /\ Len([k \in 1..n |-> <<track, source + k>>]) = n
<1>1. source \in 0..TrackLen /\ track \in 1..MaxTrack /\ TrackLen \in Nat
  BY Positive DEF TypeInv, AudioTypes
<1>2. n \in Nat \ {0} /\ n <= TrackLen - source
  BY <1>1, Positive DEF Ring!Least
<1>3. \A k \in 1..n : <<track, source + k>> \in Byte
  BY <1>1, <1>2 DEF Byte
<1>4. [k \in 1..n |-> <<track, source + k>>] \in [1..n -> Byte]
  BY <1>3
<1>5. [k \in 1..n |-> <<track, source + k>>] \in Seq(Byte)
  BY <1>2, <1>4, SeqDef
<1>6. Len([k \in 1..n |-> <<track, source + k>>]) = n
  <2>1. DOMAIN [k \in 1..n |-> <<track, source + k>>] = 1..n
    OBVIOUS
  <2> QED
    BY <1>2, <1>5, <2>1, LenProperties
<1> QED
  BY <1>1, <1>2, <1>5, <1>6

\* One turn of writeAudio: a part of the chunk goes behind the unread bytes,
\* or what is left of it is given up.
LEMMA WriteMoves ==
    ASSUME TypeInv, NEW write, NEW loop, WriteAudio(write, loop)
    PROVE  /\ Ring!RingTypeOK' /\ chunk' \in Seq(Byte)
           /\ \/ /\ Flowing /\ chunk # <<>>
                 /\ Ring!Contents' \o chunk' = Ring!Contents \o chunk
                 /\ Ring!Contents' \in Seq(Byte)
                 /\ \E src \in Seq(Byte) : /\ Ring!Contents' = Ring!Contents \o src
                                           /\ chunk = src \o chunk'
                 /\ AudioGoes(write, IF chunk' = <<>> THEN loop ELSE write)
              \/ /\ ~Flowing /\ chunk' = <<>>
                 /\ Ring!Contents' = Ring!Contents
                 /\ AudioGoes(write, loop)
<1> DEFINE n == Ring!Least(Len(chunk), Ring!ringFree)
           src == SubSeq(chunk, 1, n)
<1>0. chunk \in Seq(Byte) /\ Len(chunk) \in Nat /\ endOfStream \in BOOLEAN /\ running \in BOOLEAN
  BY LenProperties DEF TypeInv, AudioTypes, ControlTypes
<1>1. CASE /\ running /\ ~endOfStream /\ Ring!ringFree > 0
           /\ Ring!ringWrite(src)
           /\ chunk' = SubSeq(chunk, n + 1, Len(chunk))
           /\ AudioGoes(write, IF n = Len(chunk) THEN loop ELSE write)
  <2>1. Ring!ringFree \in Nat
    BY SameRing, RingAssumptions, RP!AvailableInRange DEF TypeInv
  <2>2. n \in 0..Len(chunk) /\ n \in Nat
    BY <1>0, <2>1 DEF Ring!Least
  <2>3. src \in Seq(Byte) /\ chunk' \in Seq(Byte) /\ Len(src) = n /\ Len(chunk') = Len(chunk) - n
    BY <1>0, <1>1, <2>2, SubSeqProperties, ElementOfSeq
  <2>4. src \o chunk' = chunk
    <3>1. 1 \in 1..Len(chunk) + 1 /\ n \in 1 - 1..Len(chunk) /\ Len(chunk) \in n..Len(chunk)
      BY <1>0, <2>2
    <3> QED
      BY <1>0, <1>1, <3>1, ConcatAdjacentSubSeq, SubSeqFull
  <2>5. n \in 1..Ring!ringFree
    <3>1. Len(src) \in 1..Ring!ringFree
      BY <1>1 DEF Ring!ringWrite
    <3> QED
      BY <2>3, <3>1
  <2>6. Ring!RingTypeOK' /\ Ring!Contents' = Ring!Contents \o src
    BY <1>1, <2>3, RingWrites DEF TypeInv
  <2>7. Ring!Contents \in Seq(Byte) /\ Ring!Contents' \in Seq(Byte)
    BY <2>3, <2>6, RingContents, ConcatProperties DEF TypeInv
  <2>8. Ring!Contents' \o chunk' = Ring!Contents \o chunk
    <3>0. \A s, t, u \in Seq(Byte) : (s \o t) \o u = s \o (t \o u)
      BY ConcatAssociative
    <3>1. (Ring!Contents \o src) \o chunk' = Ring!Contents \o (src \o chunk')
      <4> HIDE DEF src
      <4>1. \A u \in Seq(Byte) : (Ring!Contents \o src) \o u = Ring!Contents \o (src \o u)
        BY <2>3, <2>7, <3>0
      <4> QED
        BY <2>3, <4>1
    <3> QED
      BY <2>4, <2>6, <3>1
  <2>9. n = Len(chunk) <=> chunk' = <<>>
    BY <1>0, <2>2, <2>3, EmptySeq
  <2>10. chunk # <<>>
    BY <1>0, <2>1, <2>2, <2>5, EmptySeq
  <2> QED
    BY <1>1, <2>3, <2>4, <2>6, <2>7, <2>8, <2>9, <2>10 DEF Flowing
<1>2. CASE /\ ~running \/ endOfStream
           /\ chunk' = <<>> /\ AudioGoes(write, loop) /\ UNCHANGED ring
  BY <1>0, <1>2, RingKeeps, EmptySeq DEF Flowing, TypeInv
<1> QED
  BY <1>1, <1>2 DEF WriteAudio
LEMMA FetchTypes ==
    ASSUME TypeInv, NEW loop \in AudioPcs \ {"gone"}, NEW write \in AudioPcs,
           Fetch(loop, write)
    PROVE  TypeInv'
<1>0. /\ audioPc # "gone" /\ UNCHANGED <<ring, flags, track, resetPc>>
      /\ UNCHANGED <<running, clients, server, control, output>>
      /\ audioPc' \in AudioPcs
  BY DEF Fetch, AudioGoes
<1>1. source' \in 0..TrackLen /\ chunk' \in Seq(Byte) /\ httpEof' \in BOOLEAN
  <2>1. CASE \E n \in 1..Ring!Least(MaxWrite, TrackLen - source) :
                /\ chunk' = [k \in 1..n |-> <<track, source + k>>]
                /\ source' = source + n /\ UNCHANGED httpEof
    BY <1>0, <2>1, FetchedBytes DEF TypeInv, AudioTypes
  <2>2. CASE httpEof' = TRUE /\ UNCHANGED <<chunk, source>>
    BY <2>2 DEF TypeInv, AudioTypes
  <2> QED
    BY <2>1, <2>2 DEF Fetch
<1>2. AudioTypes'
  BY <1>0, <1>1 DEF TypeInv, AudioTypes, flags, control
<1>3. Ring!RingTypeOK' /\ ControlTypes' /\ ServerTypes'
  BY <1>0, RingKeeps DEF TypeInv, ControlTypes, ServerTypes, clients, server, control, output
<1> QED
  BY <1>2, <1>3 DEF TypeInv

LEMMA AudioTypesKept == TypeInv /\ (AudioStep \/ SwitchAway) => TypeInv'
<1> SUFFICES ASSUME TypeInv, AudioStep \/ SwitchAway PROVE TypeInv'
  OBVIOUS
<1>0. ASSUME Ring!RingTypeOK', AudioTypes', resetPc' \in [{"slim", "audio"} -> 0..4],
             UNCHANGED <<running, clients, server, control, output>>
      PROVE  TypeInv'
  BY <1>0 DEF TypeInv, ControlTypes, ServerTypes, clients, server, control, output
<1>1. CASE SetFormatRing
  <2>1. Ring!RingTypeOK'
    BY <1>1, RingRenews DEF SetFormatRing, TypeInv
  <2> QED
    BY <1>0, <1>1, <2>1 DEF SetFormatRing, AudioGoes, TypeInv, AudioTypes, ControlTypes,
       AudioPcs, flags, input, control
<1>2. CASE writeAudio
  <2>1. PICK write \in AudioPcs, loop \in AudioPcs \ {"gone"} :
           WriteAudio(write, loop) /\ write # "gone"
    BY <1>2 DEF writeAudio, AudioPcs
  <2>2. Ring!RingTypeOK' /\ chunk' \in Seq(Byte)
    BY <2>1, WriteMoves
  <2>3. /\ audioPc = write /\ audioPc' \in {write, loop}
        /\ UNCHANGED <<running, clients, server, control, output>>
        /\ UNCHANGED <<flags, track, source, httpEof, resetPc>>
    BY <2>1 DEF WriteAudio, AudioGoes
  <2> QED
    BY <1>0, <2>1, <2>2, <2>3 DEF TypeInv, AudioTypes, ControlTypes, flags, control
<1>3. CASE PrebufferRead \/ StreamRead
  BY <1>3, FetchTypes DEF PrebufferRead, StreamRead, AudioPcs
<1>4. CASE SetFormatFlags \/ SetPassthroughMime \/ DescribeTrack \/ setReadyToServe
           \/ StreamDone \/ SwitchAway \/ LastEndOfStream \/ PrebufferDone
           \/ ChainReset \/ TrackLoopDone \/ Finish
  <2>1. /\ UNCHANGED <<ring, input, resetPc>>
        /\ UNCHANGED <<running, clients, server, control, output>>
        /\ audioPc # "gone" /\ audioPc' \in AudioPcs
        /\ endOfStream' \in BOOLEAN /\ readyToServe' \in BOOLEAN
        /\ meta' \in {meta, track}
    BY <1>4 DEF SetFormatFlags, SetPassthroughMime, DescribeTrack, setReadyToServe, StreamDone,
       SwitchAway, LastEndOfStream, PrebufferDone, ChainReset, TrackLoopDone, Finish,
       AudioGoes, AudioPcs, flags, TypeInv, AudioTypes
  <2>2. Ring!RingTypeOK' /\ resetPc' \in [{"slim", "audio"} -> 0..4]
    BY <2>1, RingKeeps DEF TypeInv, ControlTypes
  <2>3. AudioTypes'
    BY <2>1 DEF TypeInv, AudioTypes, input, control
  <2> QED
    BY <1>0, <2>1, <2>2, <2>3
<1>5. CASE ChainBack
  <2>1. Ring!RingTypeOK' /\ resetPc' \in [{"slim", "audio"} -> 0..4]
    BY <1>5, RingKeeps DEF ChainBack, TypeInv, ControlTypes
  <2>2. track' \in 0..MaxTrack /\ track' # 0 /\ source' \in 0..TrackLen
    BY <1>5, Positive DEF ChainBack, TypeInv, AudioTypes
  <2> QED
    BY <1>0, <1>5, <2>1, <2>2 DEF ChainBack, AudioGoes, TypeInv, AudioTypes, AudioPcs, flags,
       control
<1>6. CASE Reset("audio")
  BY <1>6, ResetTypes
<1> QED
  BY <1>1, <1>2, <1>3, <1>4, <1>5, <1>6 DEF AudioStep

LEMMA ControlTypesKept ==
    TypeInv /\ (SlimStep \/ StrmStop \/ StrmStart \/ MainStep \/ StopAudioThread) => TypeInv'
<1> SUFFICES ASSUME TypeInv, SlimStep \/ StrmStop \/ StrmStart \/ MainStep \/ StopAudioThread
             PROVE  TypeInv'
  OBVIOUS
<1>1. CASE Reset("slim")
  BY <1>1, ResetTypes
<1>2. CASE StrmDone \/ StrmStop \/ StrmStart \/ MainStep \/ StopAudioThread
  <2>1. ControlOnly
    BY <1>2 DEF StrmDone, StrmStop, StrmStart, MainStep, StopAudioThread, StopAudioEos,
       StopServer, StopClient
  <2>2. Ring!RingTypeOK'
    BY <2>1, RingKeeps DEF ControlOnly, TypeInv
  <2>3. AudioTypes'
    <3>1. endOfStream' \in BOOLEAN
      BY <1>2 DEF StrmDone, StrmStop, StrmStart, MainStep, StopAudioThread, StopAudioEos,
         StopServer, StopClient, TypeInv, AudioTypes
    <3>2. CASE StrmDone
      <4>1. slimPc' = "idle" /\ UNCHANGED <<readyToServe, meta>>
        BY <2>1, <3>2 DEF StrmDone, ControlOnly
      <4>2. CASE UNCHANGED <<active, audioPc, input>>
        BY <3>1, <4>1, <4>2 DEF TypeInv, AudioTypes, input
      <4>3. CASE /\ slimPc = "start" /\ active' = TRUE /\ audioPc' = "format"
                 /\ track' = track + 1 /\ source' = 0 /\ httpEof' = FALSE
                 /\ UNCHANGED chunk
        <5>1. track' \in 0..MaxTrack /\ track' # 0 /\ source' \in 0..TrackLen
          BY <4>3, Positive DEF TypeInv, AudioTypes
        <5> QED
          BY <3>1, <4>1, <4>3, <5>1 DEF TypeInv, AudioTypes, AudioPcs
      <4> QED
        BY <3>2, <4>2, <4>3 DEF StrmDone
    <3>3. CASE StrmStart
      BY <2>1, <3>1, <3>3 DEF StrmStart, ControlOnly, TypeInv, AudioTypes, input
    <3>4. CASE StrmStop \/ MainStep \/ StopAudioThread
      BY <2>1, <3>1, <3>4 DEF StrmStop, MainStep, StopAudioThread, StopAudioEos,
         StopServer, StopClient, ControlOnly, TypeInv, AudioTypes, input
    <3> QED
      BY <1>2, <3>2, <3>3, <3>4
  <2>4. ControlTypes'
    <3>1. resetPc' \in [{"slim", "audio"} -> 0..4]
      BY <1>2 DEF StrmDone, StrmStop, StrmStart, MainStep, StopAudioThread, StopAudioEos,
         StopServer, StopClient, TypeInv, ControlTypes
    <3>2. running' \in BOOLEAN /\ active' \in BOOLEAN
      BY <1>2 DEF StrmDone, StrmStop, StrmStart, MainStep, StopAudioThread, StopAudioEos,
         StopServer, StopClient, TypeInv, ControlTypes
    <3>3. /\ slimPc' \in {"idle", "stop", "start"}
          /\ mainPc' \in {"run", "stopAudio", "stop", "closeClient", "join"}
      BY <1>2 DEF StrmDone, StrmStop, StrmStart, MainStep, StopAudioThread, StopAudioEos,
         StopServer, StopClient, TypeInv, ControlTypes
    <3> QED
      BY <3>1, <3>2, <3>3 DEF ControlTypes
  <2>5. ServerTypes'
    <3>1. clientSocket' \in {0, clientSocket} /\ (sock' = sock \/ ShutdownClient)
      BY <1>2 DEF StrmDone, StrmStop, StrmStart, MainStep, StopAudioThread, StopAudioEos,
         StopServer, StopClient, clients
    <3>2. clientSocket' \in 0..MaxConn
      BY <3>1, Positive DEF TypeInv, ServerTypes
    <3>3. sock' \in [Conn -> {"none", "queued", "open", "shut", "closed"}]
      BY <3>1 DEF ShutdownClient, TypeInv, ServerTypes
    <3> QED
      BY <2>1, <3>2, <3>3 DEF ControlOnly, TypeInv, ServerTypes, server, output
  <2> QED
    BY <2>2, <2>3, <2>4, <2>5 DEF TypeInv
<1> QED
  BY <1>1, <1>2 DEF SlimStep

LEMMA ServerTypesKept ==
    TypeInv /\ (ServerStep \/ RendererConnects \/ RendererCloses) => TypeInv'
<1> SUFFICES ASSUME TypeInv, ServerStep \/ RendererConnects \/ RendererCloses
             PROVE  TypeInv'
  OBVIOUS
<1>1. CASE ServerStep
  <2>1. UNCHANGED <<flags, running, audioPc, input, control, resetPc>>
    BY <1>1 DEF ServerStep, Accept, ServerExit, Register, ReadRequest, WaitReady,
       RecheckReady, SendHeader, TakeData, CheckEndOfStream, SendData, CloseClient, ServerGoes
  <2>2. Ring!RingTypeOK'
    BY <1>1, RingKeeps, RingReads DEF ServerStep, Accept, ServerExit, Register, ReadRequest,
       WaitReady, RecheckReady, SendHeader, TakeData, CheckEndOfStream, SendData, CloseClient,
       TypeInv
  <2>3. AudioTypes' /\ ControlTypes'
    BY <2>1 DEF TypeInv, AudioTypes, ControlTypes, flags, input, control
  <2>4. isHead' \in BOOLEAN /\ serverPc' \in ServerPcs /\ client' \in 0..MaxConn
        /\ clientSocket' \in 0..MaxConn
    <3>1. isHead' \in BOOLEAN
      BY <1>1 DEF ServerStep, Accept, ServerExit, Register, ReadRequest, WaitReady, RecheckReady,
         SendHeader, TakeData, CheckEndOfStream, SendData, CloseClient, TypeInv, ServerTypes
    <3>2. serverPc' \in ServerPcs
      BY <1>1 DEF ServerStep, Accept, ServerExit, Register, ReadRequest, WaitReady, RecheckReady,
         SendHeader, TakeData, CheckEndOfStream, SendData, CloseClient, ServerGoes, ServerPcs
    <3>3. client' \in Conn \cup {0, client} /\ clientSocket' \in {0, client, clientSocket}
      BY <1>1 DEF ServerStep, Accept, ServerExit, Register, ReadRequest, WaitReady, RecheckReady,
         SendHeader, TakeData, CheckEndOfStream, SendData, CloseClient, clients
    <3> QED
      BY <3>1, <3>2, <3>3, Positive DEF TypeInv, ServerTypes, Conn
  <2>5. sock' \in [Conn -> {"none", "queued", "open", "shut", "closed"}]
    BY <1>1 DEF ServerStep, Accept, ServerExit, Register, ReadRequest, WaitReady, RecheckReady,
       SendHeader, TakeData, CheckEndOfStream, SendData, CloseClient, TypeInv, ServerTypes,
       clients
  <2>6. header' \in [Conn -> 0..MaxTrack]
    BY <1>1 DEF ServerStep, Accept, ServerExit, Register, ReadRequest, WaitReady, RecheckReady,
       SendHeader, TakeData, CheckEndOfStream, SendData, CloseClient, TypeInv, ServerTypes,
       AudioTypes, output
  <2>7. got' \in [Conn -> Seq(Byte)]
    <3>1. CASE SendData
      <4>1. \A c \in Conn : got[c] \o sendBuf \in Seq(Byte)
        BY ConcatProperties DEF TypeInv, ServerTypes, Ring!RingTypeOK
      <4>2. got' = got \/ got' = [got EXCEPT ![client] = got[client] \o sendBuf]
        BY <3>1 DEF SendData
      <4> QED
        BY <4>1, <4>2 DEF TypeInv, ServerTypes
    <3>2. CASE UNCHANGED got
      BY <3>2 DEF TypeInv, ServerTypes
    <3> QED
      BY <1>1, <3>1, <3>2 DEF ServerStep, Accept, ServerExit, Register, ReadRequest, WaitReady,
         RecheckReady, SendHeader, TakeData, CheckEndOfStream, CloseClient, output
  <2>8. ServerTypes'
    BY <2>4, <2>5, <2>6, <2>7 DEF ServerTypes
  <2> QED
    BY <2>2, <2>3, <2>8 DEF TypeInv
<1>2. CASE RendererConnects \/ RendererCloses
  <2>1. /\ RendererOnly
        /\ sock' \in [Conn -> {"none", "queued", "open", "shut", "closed"}]
    BY <1>2 DEF RendererConnects, RendererCloses, TypeInv, ServerTypes
  <2> QED
    BY <2>1, RingKeeps DEF RendererOnly, TypeInv, AudioTypes, ControlTypes, ServerTypes, flags,
       server, input, control, output
<1> QED
  BY <1>1, <1>2

LEMMA TypeKept == TypeInv /\ [Next]_vars => TypeInv'
<1> SUFFICES ASSUME TypeInv, [Next]_vars PROVE TypeInv'
  OBVIOUS
<1>1. CASE UNCHANGED vars
  BY <1>1, RingKeeps DEF vars, TypeInv, AudioTypes, ControlTypes, ServerTypes, flags, clients,
     server, input, control, output
<1> QED
  BY <1>1, AudioTypesKept, ControlTypesKept, ServerTypesKept DEF Next

(* Every variable keeps its type: no thread leaves its steps, no position  *)
(* of the ring leaves the buffer, no byte is one of no track.              *)
THEOREM ServerTypeCorrect == Spec => []TypeOK
<1>1. Spec => []TypeInv
  BY TypeInit, TypeKept, PTL DEF Spec
<1> QED
  BY <1>1, TypesSuffice, PTL

-----------------------------------------------------------------------------
(* One client at a time, and registered.                                   *)

LEMMA ClientOfServer ==
    ASSUME TypeInv, ClientInv, serverPc \notin {"accept", "exit"}
    PROVE  client \in Conn
BY DEF TypeInv, ServerTypes, ClientInv, Conn

\* shutdown() cuts the registered client and nobody else.
LEMMA ShutdownCuts ==
    ASSUME TypeInv, ShutdownClient
    PROVE  /\ \A c \in Conn : sock'[c] # sock[c] => sock[c] = "open" /\ sock'[c] = "shut"
           /\ clientSocket # 0 => sock'[clientSocket] # "open"
BY DEF ShutdownClient, TypeInv, ServerTypes, Conn

LEMMA ClientKept == TypeInv /\ ClientInv /\ [Next]_vars => ClientInv'
<1> SUFFICES ASSUME TypeInv, ClientInv, [Next]_vars PROVE ClientInv'
  OBVIOUS
<1>1. ASSUME UNCHANGED <<clients, server, output>> PROVE ClientInv'
  BY <1>1 DEF ClientInv, clients, server, output
<1>2. ASSUME ShutdownClient, clientSocket' \in {0, clientSocket},
             clientSocket' = clientSocket \/ serverPc # "register" \/ clientSocket = 0,
             UNCHANGED <<server, output>>
      PROVE  ClientInv'
  <2>1. \A c \in Conn : sock'[c] # sock[c] => sock[c] = "open" /\ sock'[c] = "shut"
    BY <1>2, ShutdownCuts
  <2>2. clientSocket # 0 => sock'[clientSocket] # "open"
    BY <1>2, ShutdownCuts
  <2> QED
    BY <1>2, <2>1, <2>2, ClientOfServer DEF ClientInv, server, output
<1>3. CASE AudioStep \/ SwitchAway
  <2>1. CASE ResetClient("audio")
    BY <1>2, <2>1 DEF ResetClient, ResetGoes
  <2> QED
    BY <1>1, <1>3, <2>1 DEF AudioStep, SetFormatRing, SetFormatFlags, SetPassthroughMime,
       PrebufferRead, StreamRead, writeAudio, WriteAudio, Fetch, PrebufferDone, DescribeTrack,
       setReadyToServe, StreamDone, SwitchAway, ChainBack, ChainReset, TrackLoopDone, Finish,
       LastEndOfStream, AudioGoes, Reset, ResetFlags, ResetRing, ResetLowerEos, ResetGoes,
       clients
<1>4. CASE SlimStep \/ StrmStop \/ StrmStart \/ MainStep \/ StopAudioThread
  <2>1. CASE ResetClient("slim")
    BY <1>2, <2>1 DEF ResetClient, ResetGoes
  <2>2. CASE StopClient
    BY <1>2, <2>2 DEF StopClient, ControlOnly, ClientInv
  <2> QED
    BY <1>1, <1>4, <2>1, <2>2 DEF SlimStep, StrmDone, StrmStop, StrmStart, MainStep,
       StopAudioThread, StopAudioEos, StopServer, ControlOnly, Reset, ResetFlags, ResetRing,
       ResetLowerEos, ResetGoes, clients
<1>5. CASE Accept
  <2>1. PICK c \in Conn : /\ sock[c] = "queued"
                          /\ sock' = [sock EXCEPT ![c] = "open"] /\ client' = c
    BY <1>5 DEF Accept
  <2>2. \A d \in Conn : sock'[d] = IF d = c THEN "open" ELSE sock[d]
    BY <2>1 DEF TypeInv, ServerTypes
  <2>3. /\ serverPc = "accept" /\ serverPc' = "register" /\ got' = got
        /\ clientSocket' = clientSocket /\ c # 0
    BY <1>5, <2>1 DEF Accept, ServerGoes, output, Conn
  <2> QED
    BY <2>1, <2>2, <2>3 DEF ClientInv, Conn
<1>6. CASE Register
  BY <1>6 DEF Register, ServerGoes, ClientInv, output
<1>7. CASE ServerExit \/ ReadRequest \/ WaitReady \/ RecheckReady \/ SendHeader \/ TakeData
           \/ CheckEndOfStream
  <2>1. /\ UNCHANGED <<clients, client, got>>
        /\ serverPc \in {"accept", "exit"} <=> serverPc' \in {"accept", "exit"}
        /\ serverPc' # "register" /\ serverPc # "register"
        /\ serverPc' \in {"request", "wait", "recheck", "header"}
             => serverPc \in {"request", "wait", "recheck", "header"}
    BY <1>7 DEF ServerExit, ReadRequest, WaitReady, RecheckReady, SendHeader, TakeData,
       CheckEndOfStream, ServerGoes, output
  <2> QED
    BY <2>1 DEF ClientInv, clients
<1>8. CASE SendData
  <2>1. (client \in Conn /\ sock[client] \notin {"none", "queued"}) \/ got' = got
    BY <1>8, ClientOfServer DEF SendData, ServerGoes
  <2>2. \A c \in Conn : c # client => got'[c] = got[c]
    BY <1>8 DEF SendData, TypeInv, ServerTypes
  <2>3. serverPc = "send" /\ serverPc' \in {"data", "close"} /\ UNCHANGED <<clients, client>>
    BY <1>8 DEF SendData, ServerGoes
  <2> QED
    BY <2>1, <2>2, <2>3 DEF ClientInv, clients
<1>9. CASE CloseClient
  <2>1. \A c \in Conn : sock'[c] = IF c = client THEN "closed" ELSE sock[c]
    BY <1>9 DEF CloseClient, TypeInv, ServerTypes
  <2>2. /\ serverPc = "close" /\ serverPc' = "accept" /\ client' = 0 /\ got' = got
        /\ clientSocket' = IF clientSocket = client THEN 0 ELSE clientSocket
    BY <1>9 DEF CloseClient, ServerGoes, output
  <2> QED
    BY <2>1, <2>2 DEF ClientInv
<1>10. CASE RendererConnects \/ RendererCloses
  <2>1. /\ UNCHANGED <<clientSocket, server, output>>
        /\ \A c \in Conn : sock'[c] # sock[c] =>
              \/ sock[c] = "none" /\ sock'[c] = "queued"
              \/ sock[c] = "open" /\ sock'[c] = "shut"
    BY <1>10 DEF RendererConnects, RendererCloses, RendererOnly, TypeInv, ServerTypes
  <2> QED
    BY <2>1, ClientOfServer DEF ClientInv, server, output
<1>11. CASE UNCHANGED vars
  BY <1>1, <1>11 DEF vars
<1> QED
  BY <1>3, <1>4, <1>5, <1>6, <1>7, <1>8, <1>9, <1>10, <1>11 DEF Next, ServerStep

-----------------------------------------------------------------------------
(* Who resets, and what the audio thread has in hand.                      *)

\* A ring that is empty stays so, whatever the server does.
LEMMA EmptyStaysEmpty ==
    ASSUME TypeInv, ServerStep, Ring!Contents = <<>>
    PROVE  Ring!Contents' = <<>>
<1>1. CASE Ring!ringRead(MaxRead)
  <2>1. /\ Ring!Contents = sendBuf' \o Ring!Contents'
        /\ sendBuf' \in Seq(Byte) /\ Ring!Contents' \in Seq(Byte)
    BY <1>1, RingReads DEF TypeInv
  <2> QED
    BY <2>1, LastOfJoin
<1>2. CASE UNCHANGED ring
  BY <1>2, RingKeeps
<1> QED
  BY <1>1, <1>2 DEF ServerStep, Accept, ServerExit, Register, ReadRequest, WaitReady,
     RecheckReady, SendHeader, TakeData, CheckEndOfStream, SendData, CloseClient

LEMMA ResetControl ==
    ASSUME TypeInv, ControlInv, NEW t \in {"slim", "audio"}, Reset(t)
    PROVE  ControlInv'
<1>1. PICK from \in 1..4, to \in 0..4 : ResetGoes(t, from, to)
  BY DEF Reset, ResetFlags, ResetClient, ResetRing, ResetLowerEos
<1>2. /\ resetPc[t] # 0 /\ \A u \in {"slim", "audio"} \ {t} : resetPc'[u] = resetPc[u]
      /\ UNCHANGED <<slimPc, active, audioPc, chunk, source>>
  BY <1>1 DEF ResetGoes, TypeInv, ControlTypes, control, input
<1>3. Ring!Contents' = Ring!Contents \/ Ring!Contents' = <<>>
  BY RingKeeps, RingEmpties DEF Reset, ResetFlags, ResetClient, ResetRing, ResetLowerEos, TypeInv
<1> QED
  BY <1>2, <1>3 DEF ControlInv

LEMMA ControlKept == TypeInv /\ ControlInv /\ [Next]_vars => ControlInv'
<1> SUFFICES ASSUME TypeInv, ControlInv, [Next]_vars PROVE ControlInv'
  OBVIOUS
<1>1. CASE Reset("audio") \/ Reset("slim")
  BY <1>1, ResetControl
<1>2. CASE SetFormatRing
  BY <1>2, RingRenews DEF SetFormatRing, AudioGoes, input, control, ControlInv, TypeInv,
     AudioTypes
<1>3. CASE PrebufferRead \/ StreamRead
  BY <1>3, RingKeeps DEF PrebufferRead, StreamRead, Fetch, AudioGoes, control, ControlInv,
     TypeInv, AudioTypes
<1>4. CASE writeAudio
  <2>1. PICK write \in {"prebufferWrite", "streamWrite"}, loop \in {"prebuffer", "stream"} :
           WriteAudio(write, loop)
    BY <1>4 DEF writeAudio
  <2>2. \/ AudioGoes(write, IF chunk' = <<>> THEN loop ELSE write)
        \/ chunk' = <<>> /\ AudioGoes(write, loop)
    BY <2>1, WriteMoves
  <2>3. UNCHANGED <<source, resetPc, slimPc, active>> /\ audioPc = write
    BY <2>1 DEF WriteAudio, AudioGoes, control
  <2> QED
    BY <2>1, <2>2, <2>3 DEF ControlInv, AudioGoes, TypeInv, AudioTypes
<1>5. CASE SetFormatFlags \/ SetPassthroughMime \/ DescribeTrack \/ setReadyToServe
           \/ StreamDone \/ SwitchAway \/ LastEndOfStream \/ PrebufferDone
           \/ ChainReset \/ TrackLoopDone \/ Finish
  <2>1. UNCHANGED <<ring, source, chunk, resetPc, slimPc, active>>
    BY <1>5 DEF SetFormatFlags, SetPassthroughMime, DescribeTrack, setReadyToServe, StreamDone,
       SwitchAway, LastEndOfStream, PrebufferDone, ChainReset, TrackLoopDone, Finish,
       AudioGoes, input, control
  <2>2. /\ audioPc # "gone" /\ audioPc' # "chain" /\ (audioPc = "chain" => resetPc.audio = 0)
        /\ audioPc \notin {"prebufferWrite", "streamWrite"}
        /\ audioPc' \in {"format", "formatFlags", "mime"}
             => audioPc \in {"chain", "format", "formatFlags", "mime"}
        /\ audioPc' \in {"formatFlags", "mime"} => audioPc \in {"formatFlags", "mime"}
    BY <1>5 DEF SetFormatFlags, SetPassthroughMime, DescribeTrack, setReadyToServe, StreamDone,
       SwitchAway, LastEndOfStream, PrebufferDone, ChainReset, TrackLoopDone, Finish, AudioGoes
  <2>3. Ring!Contents' = Ring!Contents
    BY <2>1, RingKeeps
  <2> QED
    BY <2>1, <2>2, <2>3 DEF ControlInv, TypeInv, AudioTypes
<1>6. CASE ChainBack
  BY <1>6, RingKeeps DEF ChainBack, AudioGoes, control, ControlInv, TypeInv, ControlTypes
<1>7. CASE StrmDone \/ StrmStop \/ StrmStart \/ MainStep \/ StopAudioThread
  <2>1. Ring!Contents' = Ring!Contents /\ chunk' = chunk
    BY <1>7, RingKeeps DEF StrmDone, StrmStop, StrmStart, MainStep, StopAudioThread,
       StopAudioEos, StopServer, StopClient, ControlOnly, input
  <2>2. CASE StrmDone
    BY <2>1, <2>2 DEF StrmDone, ControlInv, TypeInv, AudioTypes, ControlTypes, input
  <2>3. CASE StrmStop \/ StrmStart
    BY <2>1, <2>3 DEF StrmStop, StrmStart, ControlInv, TypeInv, AudioTypes, ControlTypes, input
  <2>4. CASE MainStep \/ StopAudioThread
    BY <2>1, <2>4 DEF MainStep, StopAudioThread, StopAudioEos, StopServer, StopClient,
       ControlInv, TypeInv, ControlTypes, input
  <2> QED
    BY <1>7, <2>2, <2>3, <2>4
<1>8. CASE ServerStep
  <2>1. UNCHANGED <<slimPc, active, audioPc, chunk, source, resetPc>>
    BY <1>8 DEF ServerStep, Accept, ServerExit, Register, ReadRequest, WaitReady, RecheckReady,
       SendHeader, TakeData, CheckEndOfStream, SendData, CloseClient, ServerGoes, input, control
  <2> QED
    BY <1>8, <2>1, EmptyStaysEmpty DEF ControlInv
<1>9. CASE RendererConnects \/ RendererCloses \/ UNCHANGED vars
  BY <1>9, RingKeeps DEF RendererConnects, RendererCloses, RendererOnly, vars, input, control,
     ControlInv
<1> QED
  BY <1>1, <1>2, <1>3, <1>4, <1>5, <1>6, <1>7, <1>8, <1>9 DEF Next, AudioStep, SlimStep

-----------------------------------------------------------------------------
(* Nobody is served before the track is ready.                             *)

NotServer ==
    \/ AudioStep \/ SwitchAway
    \/ SlimStep \/ StrmStop \/ StrmStart \/ MainStep \/ StopAudioThread
    \/ RendererConnects \/ RendererCloses \/ UNCHANGED vars

\* The other threads can only take a client away.
LEMMA OthersServe ==
    ASSUME TypeInv, ClientInv, NotServer
    PROVE  /\ UNCHANGED <<server, output, sendBuf>>
           /\ Taken' = Taken
           /\ Served' => Served
<1>1. UNCHANGED <<server, output, sendBuf>>
  BY DEF NotServer, AudioStep, SetFormatRing, SetFormatFlags, SetPassthroughMime, PrebufferRead,
     StreamRead, writeAudio, WriteAudio, Fetch, PrebufferDone, DescribeTrack, setReadyToServe,
     StreamDone, SwitchAway, ChainBack, ChainReset, TrackLoopDone, Finish, LastEndOfStream,
     AudioGoes, Reset, ResetFlags, ResetClient, ResetRing, ResetLowerEos, ResetGoes, SlimStep,
     StrmDone, StrmStop, StrmStart, MainStep, StopAudioThread, StopAudioEos, StopServer,
     StopClient, ControlOnly, RendererConnects, RendererCloses, RendererOnly, vars, ring,
     Ring!ringResize, Ring!ringReset, Ring!ringWrite
<1>2. \A c \in Conn : sock'[c] = "open" => sock[c] = "open"
  <2>1. CASE ShutdownClient
    BY <2>1, ShutdownCuts
  <2>2. CASE RendererConnects \/ RendererCloses
    BY <2>2 DEF RendererConnects, RendererCloses, TypeInv, ServerTypes
  <2>3. CASE sock' = sock
    BY <2>3
  <2> QED
    BY <2>1, <2>2, <2>3 DEF NotServer, AudioStep, SetFormatRing, SetFormatFlags,
       SetPassthroughMime, PrebufferRead, StreamRead, writeAudio, WriteAudio, Fetch,
       PrebufferDone, DescribeTrack, setReadyToServe, StreamDone, SwitchAway, ChainBack,
       ChainReset, TrackLoopDone, Finish, LastEndOfStream, AudioGoes, Reset, ResetFlags,
       ResetClient, ResetRing, ResetLowerEos, ResetGoes, SlimStep, StrmDone, StrmStop, StrmStart,
       MainStep, StopAudioThread, StopAudioEos, StopServer, StopClient, ControlOnly, vars, clients
<1>3. Taken' = Taken
  BY <1>1 DEF Taken, server, output
<1>4. Served' => Served
  BY <1>1, <1>2, ClientOfServer DEF Served, PastPcs, server, output
<1> QED
  BY <1>1, <1>3, <1>4

\* The server passes the wait only once the track is ready.
LEMMA ServerServes ==
    ASSUME TypeInv, ClientInv, ServerStep
    PROVE  /\ UNCHANGED <<flags, running, audioPc, input, control, resetPc>>
           /\ Served' => Served \/ (RecheckReady /\ readyToServe)
<1>1. UNCHANGED <<flags, running, audioPc, input, control, resetPc>>
  BY DEF ServerStep, Accept, ServerExit, Register, ReadRequest, WaitReady, RecheckReady,
     SendHeader, TakeData, CheckEndOfStream, SendData, CloseClient, ServerGoes
<1>2. CASE Accept \/ ServerExit \/ Register \/ WaitReady \/ CloseClient
  BY <1>2 DEF Accept, ServerExit, Register, WaitReady, CloseClient, ServerGoes, Served, PastPcs
<1>3. CASE ReadRequest \/ RecheckReady
  BY <1>3 DEF ReadRequest, RecheckReady, ServerGoes, Served, PastPcs, ClientInv, output
<1>4. CASE SendHeader
  BY <1>4 DEF SendHeader, ServerGoes, Served, PastPcs, ClientInv, clients
<1>5. CASE TakeData \/ CheckEndOfStream
  BY <1>5 DEF TakeData, CheckEndOfStream, ServerGoes, Served, PastPcs, clients, output
<1>6. CASE SendData
  BY <1>6 DEF SendData, ServerGoes, Served, PastPcs, clients
<1> QED
  BY <1>1, <1>2, <1>3, <1>4, <1>5, <1>6 DEF ServerStep

\* reset lowers m_readyToServe, then cuts the client, then empties the ring.
LEMMA ResetReady ==
    ASSUME TypeInv, ClientInv, ControlInv, ReadyInv, NEW t \in {"slim", "audio"}, Reset(t)
    PROVE  ReadyInv'
<1>1. PICK from \in 1..4, to \in 0..4 : ResetGoes(t, from, to)
  BY DEF Reset, ResetFlags, ResetClient, ResetRing, ResetLowerEos
<1>2. /\ resetPc[t] = from /\ resetPc'[t] = to
      /\ \A u \in {"slim", "audio"} \ {t} : resetPc'[u] = resetPc[u]
      /\ UNCHANGED <<slimPc, active, audioPc, chunk>>
  BY <1>1 DEF ResetGoes, TypeInv, ControlTypes, control, input
<1>3. Served' => Served
  <2>1. NotServer
    BY DEF NotServer, AudioStep, SlimStep
  <2> QED
    BY <2>1, OthersServe
<1>4. CASE ResetFlags(t)
  <2>1. from = 1 /\ to = 2 /\ readyToServe' = FALSE
    BY <1>2, <1>4 DEF ResetFlags, ResetGoes, TypeInv, ControlTypes
  <2> QED
    BY <1>2, <1>3, <2>1 DEF ReadyInv, ControlInv
<1>5. CASE ResetClient(t)
  <2>1. from = 2 /\ to = 3 /\ readyToServe' = readyToServe
    BY <1>2, <1>5 DEF ResetClient, ResetGoes, TypeInv, ControlTypes, flags
  <2>2. ~Served'
    <3>1. clientSocket # 0 => sock'[clientSocket] # "open"
      BY <1>5, ShutdownCuts DEF ResetClient
    <3>2. Served => clientSocket = client /\ client # 0
      BY DEF Served, PastPcs, ClientInv
    <3>3. client' = client
      BY <1>1 DEF ResetGoes, server
    <3> QED
      BY <1>3, <3>1, <3>2, <3>3 DEF Served
  <2> QED
    BY <1>2, <2>1, <2>2 DEF ReadyInv, ControlInv
<1>6. CASE ResetRing(t) \/ ResetLowerEos(t)
  <2>1. CASE ResetRing(t)
    <3>1. from = 3 /\ to = 4 /\ readyToServe' = readyToServe
      BY <1>2, <2>1 DEF ResetRing, ResetGoes, TypeInv, ControlTypes, flags
    <3> QED
      BY <1>2, <1>3, <3>1 DEF ReadyInv, ControlInv
  <2>2. CASE ResetLowerEos(t)
    <3>1. from = 4 /\ to = 0 /\ readyToServe' = readyToServe
      BY <1>2, <2>2 DEF ResetLowerEos, ResetGoes, TypeInv, ControlTypes
    <3> QED
      BY <1>2, <1>3, <3>1 DEF ReadyInv, ControlInv
  <2> QED
    BY <1>6, <2>1, <2>2
<1> QED
  BY <1>4, <1>5, <1>6 DEF Reset

LEMMA ReadyKept ==
    TypeInv /\ ClientInv /\ ControlInv /\ ReadyInv /\ [Next]_vars => ReadyInv'
<1> SUFFICES ASSUME TypeInv, ClientInv, ControlInv, ReadyInv, [Next]_vars PROVE ReadyInv'
  OBVIOUS
<1>0. NotServer \/ ServerStep
  BY DEF NotServer, Next
<1>1. NotServer => (Served' => Served)
  BY OthersServe
<1>2. CASE Reset("audio") \/ Reset("slim")
  BY <1>2, ResetReady
<1>3. CASE setReadyToServe
  <2>1. chunk' = <<>> /\ audioPc' = "stream" /\ UNCHANGED <<slimPc, resetPc>>
    BY <1>3 DEF setReadyToServe, AudioGoes, control, input, ControlInv
  <2>2. slimPc # "start"
    BY <1>3 DEF setReadyToServe, AudioGoes, ControlInv
  <2> QED
    BY <2>1, <2>2 DEF ReadyInv, NewPcs
<1>4. CASE PrebufferRead \/ StreamRead
  <2>1. /\ slimPc' # "stop" /\ slimPc' = slimPc /\ readyToServe' = readyToServe
        /\ resetPc' = resetPc
        /\ audioPc' # "chain" /\ (audioPc' \in NewPcs => audioPc \in NewPcs)
    BY <1>4 DEF PrebufferRead, StreamRead, Fetch, AudioGoes, control, flags, ControlInv, NewPcs
  <2>2. NotServer
    BY <1>4 DEF NotServer, AudioStep
  <2> QED
    BY <1>1, <2>1, <2>2 DEF ReadyInv
<1>5. CASE writeAudio
  <2>1. PICK write, loop : /\ WriteAudio(write, loop)
                           /\ \/ write = "prebufferWrite" /\ loop = "prebuffer"
                              \/ write = "streamWrite" /\ loop = "stream"
    BY <1>5 DEF writeAudio
  <2>2. chunk = <<>> => chunk' = <<>>
    BY <2>1, WriteMoves
  <2>3. /\ UNCHANGED <<slimPc, readyToServe, resetPc>>
        /\ audioPc' # "chain" /\ (audioPc' \in NewPcs => audioPc \in NewPcs)
    BY <2>1 DEF WriteAudio, AudioGoes, control, flags, NewPcs
  <2>4. NotServer
    BY <1>5 DEF NotServer, AudioStep
  <2> QED
    BY <1>1, <2>2, <2>3, <2>4 DEF ReadyInv
<1>6. CASE SetFormatRing \/ SetFormatFlags \/ SetPassthroughMime \/ DescribeTrack
           \/ StreamDone \/ SwitchAway \/ LastEndOfStream \/ PrebufferDone
           \/ ChainReset \/ TrackLoopDone \/ Finish
  <2>1. /\ UNCHANGED <<slimPc, chunk, resetPc>>
        /\ readyToServe' \in {readyToServe, FALSE}
        /\ audioPc' # "chain"
        /\ audioPc' \in NewPcs
             => audioPc \in NewPcs \/ (audioPc = "chain" /\ resetPc.audio = 0)
    BY <1>6 DEF SetFormatRing, SetFormatFlags, SetPassthroughMime, DescribeTrack, StreamDone,
       SwitchAway, LastEndOfStream, PrebufferDone, ChainReset, TrackLoopDone, Finish, AudioGoes,
       input, control, flags, NewPcs
  <2>2. NotServer
    BY <1>6 DEF NotServer, AudioStep
  <2>3. readyToServe' => readyToServe
    BY <2>1
  <2> QED
    BY <1>1, <2>1, <2>2, <2>3 DEF ReadyInv
<1>7. CASE ChainBack
  <2>1. resetPc'.audio = 1 /\ resetPc'.slim = resetPc.slim
    BY <1>7 DEF ChainBack, TypeInv, ControlTypes
  <2>2. NotServer
    BY <1>7 DEF NotServer, AudioStep
  <2> QED
    BY <1>1, <1>7, <2>1, <2>2 DEF ReadyInv, ChainBack, AudioGoes, control, flags, NewPcs
<1>8. CASE StrmDone
  <2>1. /\ UNCHANGED <<resetPc, readyToServe>> /\ slimPc' = "idle"
        /\ \/ audioPc' = audioPc
           \/ slimPc = "start" /\ resetPc.slim = 0 /\ audioPc' = "format"
    BY <1>8 DEF StrmDone, ControlOnly
  <2>2. NotServer
    BY <1>8 DEF NotServer, SlimStep
  <2> QED
    BY <1>1, <2>1, <2>2 DEF ReadyInv
<1>9. CASE StrmStop \/ StrmStart
  <2>1. /\ resetPc'.slim = 1 /\ resetPc'.audio = resetPc.audio
        /\ UNCHANGED <<readyToServe, audioPc>>
    BY <1>9 DEF StrmStop, StrmStart, ControlOnly, TypeInv, ControlTypes
  <2>2. NotServer
    BY <1>9 DEF NotServer
  <2> QED
    BY <1>1, <2>1, <2>2 DEF ReadyInv
<1>10. CASE MainStep \/ StopAudioThread \/ RendererConnects \/ RendererCloses \/ UNCHANGED vars
  <2>1. UNCHANGED <<slimPc, resetPc, readyToServe, audioPc, chunk>>
    BY <1>10 DEF MainStep, StopAudioThread, StopAudioEos, StopServer, StopClient, ControlOnly,
       RendererConnects, RendererCloses, RendererOnly, vars, input, control, flags
  <2>2. NotServer
    BY <1>10 DEF NotServer
  <2> QED
    BY <1>1, <2>1, <2>2 DEF ReadyInv
<1>11. CASE ServerStep
  <2>1. /\ UNCHANGED <<slimPc, resetPc, readyToServe, audioPc, chunk>>
        /\ Served' => Served \/ readyToServe
    BY <1>11, ServerServes DEF flags, input, control
  <2> QED
    BY <2>1 DEF ReadyInv
<1> QED
  BY <1>0, <1>2, <1>3, <1>4, <1>5, <1>6, <1>7, <1>8, <1>9, <1>10, <1>11
     DEF NotServer, AudioStep, SlimStep

-----------------------------------------------------------------------------
(* What the server takes from the ring for its client.                     *)

LEMMA TakenBytes ==
    ASSUME TypeInv, ClientInv, Served
    PROVE  /\ client \in Conn /\ got[client] \in Seq(Byte) /\ sendBuf \in Seq(Byte)
           /\ Taken \in Seq(Byte)
<1>1. client \in Conn
  BY ClientOfServer DEF Served, PastPcs
<1>2. got[client] \in Seq(Byte) /\ sendBuf \in Seq(Byte)
  BY <1>1 DEF TypeInv, ServerTypes, Ring!RingTypeOK
<1>3. \A s, t \in Seq(Byte) : s \o t \in Seq(Byte)
  BY ConcatProperties
<1>4. <<>> \in Seq(Byte)
  BY EmptySeq
<1> QED
  BY <1>1, <1>2, <1>3, <1>4 DEF Taken

\* A step of the server takes bytes from the front of the ring, or none.
LEMMA ServerMoves ==
    ASSUME TypeInv, ServerStep
    PROVE  \/ Ring!Contents' = Ring!Contents
           \/ /\ Ring!Contents = sendBuf' \o Ring!Contents'
              /\ sendBuf' \in Seq(Byte) /\ Ring!Contents' \in Seq(Byte)
<1>1. CASE Ring!ringRead(MaxRead)
  BY <1>1, RingReads DEF TypeInv
<1>2. CASE UNCHANGED ring
  BY <1>2, RingKeeps
<1> QED
  BY <1>1, <1>2 DEF ServerStep, Accept, ServerExit, Register, ReadRequest, WaitReady,
     RecheckReady, SendHeader, TakeData, CheckEndOfStream, SendData, CloseClient

\* What a step of the server adds to what its client gets.
LEMMA ServerTakes ==
    ASSUME TypeInv, ClientInv, ServerStep, Served'
    PROVE  \/ /\ RecheckReady /\ readyToServe /\ Taken' = <<>> /\ serverPc' = "header"
              /\ Ring!Contents' = Ring!Contents
           \/ /\ Served /\ Taken' = Taken /\ client' = client
              /\ Ring!Contents' = Ring!Contents
              /\ \/ serverPc # "header" /\ header' = header
                 \/ serverPc = "header" /\ header'[client] = meta /\ serverPc' = "data"
              /\ serverPc' # "header" /\ (serverPc' \in PastPcs => serverPc \in PastPcs)
           \/ /\ Served /\ serverPc = "data" /\ serverPc' = "send"
              /\ UNCHANGED <<client, header>>
              /\ Ring!Contents = sendBuf' \o Ring!Contents'
              /\ Taken' = Taken \o sendBuf'
              /\ sendBuf' \in Seq(Byte) /\ Ring!Contents' \in Seq(Byte)
<1>0. Served \/ (RecheckReady /\ readyToServe)
  BY ServerServes
<1>1. CASE RecheckReady
  <2>1. /\ serverPc = "recheck" /\ serverPc' \in {"header", "close"} /\ UNCHANGED <<ring, client, got>>
    BY <1>1 DEF RecheckReady, ServerGoes, output
  <2>2. got[client] = <<>> /\ ~Served
    BY <2>1 DEF ClientInv, Served, PastPcs
  <2>3. serverPc' = "header"
    BY <2>1, <2>2 DEF Served, PastPcs
  <2>4. Taken' = <<>>
    BY <2>1, <2>2, <2>3, EmptyJoins, EmptySeq DEF Taken
  <2> QED
    BY <1>0, <1>1, <2>1, <2>2, <2>3, <2>4, RingKeeps
<1>2. CASE Served /\ SendHeader
  <2>1. /\ serverPc = "header" /\ serverPc' = "data" /\ UNCHANGED <<ring, client, got>>
        /\ header' = [header EXCEPT ![client] = meta]
    BY <1>2 DEF SendHeader, ServerGoes, Served, clients, PastPcs, ClientInv
  <2>2. header'[client] = meta
    BY <1>2, <2>1, TakenBytes DEF TypeInv, ServerTypes
  <2>3. Taken' = Taken
    BY <2>1 DEF Taken
  <2> QED
    BY <1>2, <2>1, <2>2, <2>3, RingKeeps DEF PastPcs
<1>3. CASE Served /\ TakeData
  <2>1. UNCHANGED <<client, output>> /\ serverPc = "data" /\ serverPc' \in {"close", "send", "empty"}
    BY <1>3 DEF TakeData, ServerGoes
  <2>2. CASE Ring!Contents' = Ring!Contents /\ sendBuf' = sendBuf /\ serverPc' # "send"
    BY <1>3, <2>1, <2>2 DEF Taken, output, PastPcs
  <2>3. CASE /\ serverPc' = "send" /\ Ring!Contents = sendBuf' \o Ring!Contents'
             /\ sendBuf' \in Seq(Byte) /\ Ring!Contents' \in Seq(Byte)
    <3>1. Taken = got[client] \o <<>> /\ Taken' = got[client] \o sendBuf'
      BY <2>1, <2>3 DEF Taken, output
    <3>2. Taken = got[client]
      BY <1>3, <3>1, TakenBytes, EmptyJoins
    <3> QED
      BY <1>3, <2>1, <2>3, <3>1, <3>2 DEF output
  <2>4. CASE Ring!ringRead(MaxRead) /\ serverPc' = "send"
    BY <2>3, <2>4, RingReads DEF TypeInv
  <2>5. CASE UNCHANGED ring /\ serverPc' # "send"
    BY <2>2, <2>5, RingKeeps DEF ring
  <2> QED
    BY <1>3, <2>4, <2>5 DEF TakeData, ServerGoes
<1>4. CASE Served /\ CheckEndOfStream
  BY <1>4, RingKeeps DEF CheckEndOfStream, ServerGoes, Taken, output, PastPcs
<1>5. CASE Served /\ SendData
  <2>1. /\ serverPc = "send" /\ serverPc' = "data" /\ UNCHANGED <<ring, client, header>>
        /\ got' = [got EXCEPT ![client] = @ \o sendBuf]
    BY <1>5 DEF SendData, ServerGoes, Served, clients
  <2>2. got'[client] = got[client] \o sendBuf
    BY <1>5, <2>1, TakenBytes DEF TypeInv, ServerTypes
  <2>3. Taken = got[client] \o sendBuf /\ Taken' = (got[client] \o sendBuf) \o <<>>
    BY <2>1, <2>2 DEF Taken
  <2>4. Taken' = Taken
    BY <1>5, <2>3, TakenBytes, EmptyJoins
  <2> QED
    BY <1>5, <2>1, <2>4, RingKeeps DEF PastPcs
<1>6. CASE Accept \/ ServerExit \/ Register \/ ReadRequest \/ WaitReady \/ CloseClient
  <2>1. serverPc \notin PastPcs
    BY <1>6 DEF Accept, ServerExit, Register, ReadRequest, WaitReady, CloseClient, ServerGoes,
       PastPcs
  <2>2. serverPc' \in {"register", "exit", "request", "close", "wait", "recheck", "accept"}
    BY <1>6 DEF Accept, ServerExit, Register, ReadRequest, WaitReady, CloseClient, ServerGoes
  <2>3. serverPc' = "close" => serverPc = "request" /\ UNCHANGED <<client, got>>
    BY <1>6 DEF Accept, ServerExit, Register, ReadRequest, WaitReady, CloseClient, ServerGoes,
       output
  <2> QED
    BY <2>2, <2>3 DEF Served, PastPcs, ClientInv
<1> QED
  BY <1>0, <1>1, <1>2, <1>3, <1>4, <1>5, <1>6 DEF ServerStep

-----------------------------------------------------------------------------
(* One track at a time.                                                    *)

\* A step that changes no track, or after which nothing is served or filled.
LEMMA TrackQuiet ==
    ASSUME TypeInv, ClientInv, TrackInv, NotServer,
           (chunk' = chunk /\ track' = track) \/ chunk' = <<>>,
           Steady' /\ (readyToServe' \/ audioPc' \in FillPcs)
             => /\ Steady /\ (readyToServe \/ audioPc \in FillPcs)
                /\ UNCHANGED <<track, meta>> /\ Ring!Contents' = Ring!Contents,
           Steady' /\ Served' => Steady /\ readyToServe' /\ track' = track
    PROVE  TrackInv'
<1>1. UNCHANGED <<server, output>> /\ Taken' = Taken /\ (Served' => Served)
  BY OthersServe
<1>2. OfTrack(chunk)'
  BY EmptySeq DEF TrackInv, OfTrack
<1>3. Steady' /\ (readyToServe' \/ audioPc' \in FillPcs)
        => meta' = track' /\ OfTrack(Ring!Contents)'
  BY DEF TrackInv, OfTrack
<1>4. Steady' /\ Served' =>
         /\ readyToServe' /\ OfTrack(Taken)'
         /\ serverPc' # "header" => header'[client'] = track'
  BY <1>1 DEF TrackInv, OfTrack, server, output
<1> QED
  BY <1>2, <1>3, <1>4 DEF TrackInv

\* The bytes fetched and written are of the track the audio thread plays.
LEMMA FetchTrack ==
    ASSUME TypeInv, ClientInv, TrackInv, PrebufferRead \/ StreamRead
    PROVE  TrackInv'
<1>1. /\ NotServer
      /\ UNCHANGED <<ring, readyToServe, meta, track, resetPc, active>>
      /\ audioPc' \in FillPcs => audioPc \in FillPcs
      /\ audioPc # "gone"
  BY DEF NotServer, AudioStep, PrebufferRead, StreamRead, Fetch, AudioGoes, flags, control,
     FillPcs
<1>2. UNCHANGED <<server, output>> /\ Taken' = Taken /\ (Served' => Served)
  BY <1>1, OthersServe
<1>3. Ring!Contents' = Ring!Contents
  BY <1>1, RingKeeps
<1>4. OfTrack(chunk)'
  <2>1. CASE chunk' = chunk
    BY <1>1, <2>1 DEF TrackInv, OfTrack
  <2>2. CASE \E n \in 1..Ring!Least(MaxWrite, TrackLen - source) :
                chunk' = [k \in 1..n |-> <<track, source + k>>]
    <3>1. PICK n \in 1..Ring!Least(MaxWrite, TrackLen - source) :
             chunk' = [k \in 1..n |-> <<track, source + k>>]
      BY <2>2
    <3>2. Len(chunk') = n
      BY <1>1, <3>1, FetchedBytes
    <3> QED
      BY <1>1, <3>1, <3>2 DEF OfTrack
  <2> QED
    BY <2>1, <2>2 DEF PrebufferRead, StreamRead, Fetch
<1>5. Steady' => Steady
  BY <1>1 DEF Steady
<1>6. Steady' /\ (readyToServe' \/ audioPc' \in FillPcs)
        => meta' = track' /\ OfTrack(Ring!Contents)'
  BY <1>1, <1>3, <1>5 DEF TrackInv, OfTrack
<1>7. Steady' /\ Served' =>
         /\ readyToServe' /\ OfTrack(Taken)'
         /\ serverPc' # "header" => header'[client'] = track'
  BY <1>1, <1>2, <1>5 DEF TrackInv, OfTrack, server, output
<1> QED
  BY <1>4, <1>6, <1>7 DEF TrackInv

LEMMA WriteTrack ==
    ASSUME TypeInv, ClientInv, TrackInv, writeAudio
    PROVE  TrackInv'
<1>1. PICK write, loop : /\ WriteAudio(write, loop)
                         /\ \/ write = "prebufferWrite" /\ loop = "prebuffer"
                            \/ write = "streamWrite" /\ loop = "stream"
  BY DEF writeAudio
<1>2. /\ NotServer
      /\ UNCHANGED <<readyToServe, meta, track, resetPc, active>>
      /\ audioPc' \in FillPcs => audioPc \in FillPcs
  BY <1>1 DEF NotServer, AudioStep, WriteAudio, writeAudio, AudioGoes, flags, control, FillPcs
<1>3. UNCHANGED <<server, output>> /\ Taken' = Taken /\ (Served' => Served)
  BY <1>2, OthersServe
<1>4. \/ \E src \in Seq(Byte) : /\ Ring!Contents' = Ring!Contents \o src
                                /\ chunk = src \o chunk'
      \/ chunk' = <<>> /\ Ring!Contents' = Ring!Contents
  BY <1>1, WriteMoves
<1>5. /\ OfTrack(chunk)'
      /\ OfTrack(Ring!Contents) => OfTrack(Ring!Contents)'
  <2>1. CASE chunk' = <<>> /\ Ring!Contents' = Ring!Contents
    BY <1>2, <2>1, EmptySeq DEF OfTrack
  <2>2. ASSUME NEW src \in Seq(Byte), Ring!Contents' = Ring!Contents \o src,
               chunk = src \o chunk'
        PROVE  OfTrack(chunk') /\ (OfTrack(Ring!Contents) => OfTrack(Ring!Contents'))
    <3>1. chunk' \in Seq(Byte) /\ Ring!Contents \in Seq(Byte)
      BY <1>1, WriteMoves, RingContents DEF TypeInv
    <3>2. OfTrack(src) /\ OfTrack(chunk')
      BY <2>2, <3>1, OfTrackJoins DEF TrackInv
    <3> QED
      BY <2>2, <3>1, <3>2, OfTrackJoins
  <2> QED
    BY <1>2, <1>4, <2>1, <2>2 DEF OfTrack
<1>6. Steady' => Steady
  BY <1>2 DEF Steady
<1>7. Steady' /\ (readyToServe' \/ audioPc' \in FillPcs)
        => meta' = track' /\ OfTrack(Ring!Contents)'
  BY <1>2, <1>5, <1>6 DEF TrackInv
<1>8. Steady' /\ Served' =>
         /\ readyToServe' /\ OfTrack(Taken)'
         /\ serverPc' # "header" => header'[client'] = track'
  BY <1>2, <1>3, <1>6 DEF TrackInv, OfTrack, server, output
<1> QED
  BY <1>5, <1>7, <1>8 DEF TrackInv

\* What is sent and described is of that track too.
LEMMA ServerTrack ==
    ASSUME TypeInv, ClientInv, TrackInv, ServerStep
    PROVE  TrackInv'
<1>1. UNCHANGED <<readyToServe, meta, track, chunk, audioPc, resetPc, active>>
  BY ServerServes DEF flags, input, control
<1>2. Steady' <=> Steady
  BY <1>1 DEF Steady
<1>3. Ring!Contents \in Seq(Byte)
  BY RingContents DEF TypeInv
<1>4. OfTrack(Ring!Contents) => OfTrack(Ring!Contents')
  BY <1>3, ServerMoves, OfTrackJoins
<1>5. Steady' /\ (readyToServe' \/ audioPc' \in FillPcs)
        => meta' = track' /\ OfTrack(Ring!Contents)'
  BY <1>1, <1>2, <1>4 DEF TrackInv, OfTrack
<1>6. ASSUME Steady, Served'
      PROVE  /\ readyToServe /\ OfTrack(Taken')
             /\ serverPc' # "header" => header'[client'] = track
  <2>1. CASE RecheckReady /\ readyToServe /\ Taken' = <<>> /\ serverPc' = "header"
    BY <2>1, EmptySeq DEF OfTrack
  <2>2. CASE /\ Served /\ Taken' = Taken /\ client' = client /\ serverPc' # "header"
             /\ \/ serverPc # "header" /\ header' = header
                \/ serverPc = "header" /\ header'[client] = meta
    BY <1>6, <2>2 DEF TrackInv
  <2>3. CASE /\ Served /\ serverPc = "data" /\ serverPc' = "send"
             /\ UNCHANGED <<client, header>>
             /\ Ring!Contents = sendBuf' \o Ring!Contents'
             /\ Taken' = Taken \o sendBuf'
             /\ sendBuf' \in Seq(Byte) /\ Ring!Contents' \in Seq(Byte)
    <3>1. OfTrack(Ring!Contents) /\ OfTrack(Taken) /\ readyToServe /\ header[client] = track
      BY <1>6, <2>3 DEF TrackInv
    <3>2. OfTrack(sendBuf')
      BY <2>3, <3>1, OfTrackJoins
    <3>3. Taken \in Seq(Byte)
      BY <2>3, TakenBytes
    <3> QED
      BY <2>3, <3>1, <3>2, <3>3, OfTrackJoins
  <2> QED
    BY <1>6, <2>1, <2>2, <2>3, ServerTakes
<1>7. Steady' /\ Served' =>
         /\ readyToServe' /\ OfTrack(Taken)'
         /\ serverPc' # "header" => header'[client'] = track'
  BY <1>1, <1>2, <1>6 DEF OfTrack
<1>8. OfTrack(chunk)'
  BY <1>1 DEF TrackInv, OfTrack
<1> QED
  BY <1>5, <1>7, <1>8 DEF TrackInv

\* Once reset is done nobody is served, or a stop has come.
LEMMA ResetTrack ==
    ASSUME TypeInv, ClientInv, ControlInv, ReadyInv, TrackInv,
           NEW t \in {"slim", "audio"}, Reset(t)
    PROVE  TrackInv'
<1>1. NotServer
  BY DEF NotServer, AudioStep, SlimStep
<1>2. Served' => Served
  BY <1>1, OthersServe
<1>3. PICK from \in 1..4, to \in 0..4 : ResetGoes(t, from, to) /\ (to = 0 => from = 4)
  BY DEF Reset, ResetFlags, ResetClient, ResetRing, ResetLowerEos
<1>4. /\ resetPc[t] = from /\ resetPc'[t] = to
      /\ UNCHANGED <<slimPc, active, audioPc, chunk, track>>
  BY <1>3 DEF ResetGoes, TypeInv, ControlTypes, control, input
<1>5. readyToServe' => readyToServe
  BY DEF Reset, ResetFlags, ResetClient, ResetRing, ResetLowerEos, flags
<1>6. ASSUME Steady' PROVE ~readyToServe' /\ audioPc' \notin FillPcs /\ ~Served'
  <2>1. to = 0 /\ from = 4 /\ active
    BY <1>3, <1>4, <1>6 DEF Steady
  <2>2. CASE t = "audio"
    BY <1>2, <1>4, <1>5, <2>1, <2>2 DEF ControlInv, ReadyInv, FillPcs
  <2>3. CASE t = "slim"
    <3>1. slimPc = "start"
      BY <1>4, <2>1, <2>3 DEF ControlInv, TypeInv, ControlTypes
    <3> QED
      BY <1>2, <1>4, <1>5, <2>1, <2>3, <3>1 DEF ControlInv, ReadyInv, FillPcs
  <2> QED
    BY <2>2, <2>3
<1> QED
  BY <1>1, <1>4, <1>6, TrackQuiet

LEMMA TrackKept ==
    TypeInv /\ ClientInv /\ ControlInv /\ ReadyInv /\ TrackInv /\ [Next]_vars => TrackInv'
<1> SUFFICES ASSUME TypeInv, ClientInv, ControlInv, ReadyInv, TrackInv, [Next]_vars
             PROVE  TrackInv'
  OBVIOUS
<1>0. NotServer \/ ServerStep
  BY DEF NotServer, Next
<1>1. NotServer => (Served' => Served)
  BY OthersServe
<1>2. CASE Reset("audio") \/ Reset("slim")
  BY <1>2, ResetTrack
<1>3. CASE PrebufferRead \/ StreamRead
  BY <1>3, FetchTrack
<1>4. CASE writeAudio
  BY <1>4, WriteTrack
<1>5. CASE ServerStep
  BY <1>5, ServerTrack
<1>6. CASE SetFormatRing \/ SetFormatFlags
  <2>1. /\ NotServer /\ audioPc \in NewPcs /\ audioPc' \notin FillPcs
        /\ (readyToServe' => readyToServe) /\ UNCHANGED <<chunk, track>>
    BY <1>6 DEF NotServer, AudioStep, SetFormatRing, SetFormatFlags, AudioGoes, NewPcs, FillPcs,
       flags, input
  <2>2. ~readyToServe' /\ ~Served'
    BY <1>1, <2>1 DEF ReadyInv
  <2> QED
    BY <2>1, <2>2, TrackQuiet
<1>7. CASE SetPassthroughMime
  <2>1. /\ NotServer /\ audioPc = "mime" /\ meta' = track /\ readyToServe' = readyToServe
        /\ UNCHANGED <<ring, chunk, track>>
    BY <1>7 DEF NotServer, AudioStep, SetPassthroughMime, AudioGoes, input
  <2>2. ~readyToServe' /\ ~Served'
    BY <1>1, <2>1 DEF ReadyInv, NewPcs
  <2>3. Ring!Contents' = <<>>
    BY <2>1, RingKeeps DEF ControlInv
  <2>4. OfTrack(chunk)' /\ OfTrack(Ring!Contents)'
    BY <2>1, <2>3, EmptySeq DEF OfTrack, TrackInv
  <2> QED
    BY <2>1, <2>2, <2>4 DEF TrackInv
<1>8. CASE DescribeTrack
  <2>1. /\ NotServer /\ audioPc = "describe" /\ audioPc' = "ready" /\ meta' \in {meta, track}
        /\ UNCHANGED <<ring, readyToServe, chunk, track, active, resetPc>>
    BY <1>8 DEF NotServer, AudioStep, DescribeTrack, AudioGoes, input, control
  <2>2. ~Served'
    BY <1>1, <2>1 DEF ReadyInv, NewPcs
  <2>3. Ring!Contents' = Ring!Contents
    BY <2>1, RingKeeps
  <2>4. Steady' => Steady /\ audioPc \in FillPcs /\ meta' = meta
    BY <2>1 DEF Steady, FillPcs, TrackInv
  <2> QED
    BY <2>1, <2>2, <2>3, <2>4, TrackQuiet
<1>9. CASE setReadyToServe
  <2>1. /\ NotServer /\ audioPc = "ready"
        /\ UNCHANGED <<ring, meta, chunk, track, active, resetPc>>
    BY <1>9 DEF NotServer, AudioStep, setReadyToServe, AudioGoes, input, control
  <2>2. ~Served'
    BY <1>1, <2>1 DEF ReadyInv, NewPcs
  <2>3. Ring!Contents' = Ring!Contents
    BY <2>1, RingKeeps
  <2>4. Steady' => Steady /\ audioPc \in FillPcs
    BY <2>1 DEF Steady, FillPcs
  <2> QED
    BY <2>1, <2>2, <2>3, <2>4, TrackQuiet
<1>10. CASE ChainBack
  <2>1. /\ NotServer /\ chunk' = <<>> /\ resetPc'.audio = 1
    BY <1>10 DEF NotServer, AudioStep, ChainBack, AudioGoes, ControlInv, TypeInv, ControlTypes
  <2>2. ~Steady'
    BY <2>1 DEF Steady
  <2> QED
    BY <2>1, <2>2, TrackQuiet
<1>11. CASE ChainReset
  <2>1. /\ NotServer /\ audioPc = "chain" /\ resetPc.audio = 0 /\ audioPc' \notin FillPcs
        /\ UNCHANGED <<readyToServe, chunk, track>>
    BY <1>11 DEF NotServer, AudioStep, ChainReset, AudioGoes, FillPcs, flags, input
  <2>2. ~readyToServe' /\ ~Served'
    BY <1>1, <2>1 DEF ReadyInv
  <2> QED
    BY <2>1, <2>2, TrackQuiet
<1>12. CASE StrmStart \/ StrmStop \/ StopAudioThread
  <2>1. NotServer /\ UNCHANGED <<chunk, track>>
    BY <1>12 DEF NotServer, StrmStart, StrmStop, StopAudioThread, input
  <2>2. ~Steady'
    BY <1>12 DEF StrmStart, StrmStop, StopAudioThread, Steady, TypeInv, ControlTypes
  <2> QED
    BY <2>1, <2>2, TrackQuiet
<1>13. CASE StrmDone /\ ~UNCHANGED <<active, audioPc, input>>
  <2>1. /\ NotServer /\ slimPc = "start" /\ resetPc.slim = 0 /\ audioPc' = "format"
        /\ UNCHANGED <<chunk, readyToServe>>
    BY <1>13 DEF NotServer, SlimStep, StrmDone, ControlOnly
  <2>2. ~readyToServe' /\ ~Served' /\ audioPc' \notin FillPcs /\ chunk' = <<>>
    BY <1>1, <2>1 DEF ReadyInv, FillPcs, ControlInv
  <2> QED
    BY <2>1, <2>2, TrackQuiet
<1>14. CASE \/ StreamDone \/ SwitchAway \/ LastEndOfStream \/ PrebufferDone
            \/ TrackLoopDone \/ Finish
            \/ (StrmDone /\ UNCHANGED <<active, audioPc, input>>)
            \/ MainStep \/ RendererConnects \/ RendererCloses \/ UNCHANGED vars
  <2>1. NotServer
    BY <1>14 DEF NotServer, AudioStep, SlimStep
  <2>2. UNCHANGED <<ring, readyToServe, meta, chunk, track>>
    BY <1>14 DEF StreamDone, SwitchAway, LastEndOfStream, PrebufferDone, TrackLoopDone, Finish,
       StrmDone, MainStep, StopAudioEos, StopServer, StopClient, ControlOnly, RendererConnects,
       RendererCloses, RendererOnly, vars, flags, input
  <2>3. /\ UNCHANGED <<active, resetPc>>
        /\ audioPc' \in FillPcs => audioPc \in FillPcs
    BY <1>14 DEF StreamDone, SwitchAway, LastEndOfStream, PrebufferDone, TrackLoopDone, Finish,
       StrmDone, MainStep, StopAudioEos, StopServer, StopClient, ControlOnly, RendererConnects,
       RendererCloses, RendererOnly, vars, control, AudioGoes, FillPcs
  <2>4. Ring!Contents' = Ring!Contents
    BY <2>2, RingKeeps
  <2>5. Steady' <=> Steady
    BY <2>3 DEF Steady
  <2>6. Steady' /\ Served' => readyToServe'
    BY <1>1, <2>1, <2>2, <2>5 DEF TrackInv
  <2> QED
    BY <2>1, <2>2, <2>3, <2>4, <2>5, <2>6, TrackQuiet
<1> QED
  BY <1>0, <1>2, <1>3, <1>4, <1>5, <1>6, <1>7, <1>8, <1>9, <1>10, <1>11, <1>12, <1>13, <1>14
     DEF NotServer, AudioStep, SlimStep

-----------------------------------------------------------------------------
(* The stream goes on without a hole.                                      *)

\* Continues(s) after the step, for an s that does not change with it.
NextContinues(s) ==
    /\ Consecutive(s \o Ring!Contents')
    /\ Flowing' => Consecutive(s \o (Ring!Contents' \o chunk'))
    /\ (Flowing' /\ active' /\ audioPc' \in FeedPcs) =>
         LET q == s \o (Ring!Contents' \o chunk')
         IN  q # <<>> => q[Len(q)] = <<track', source'>>

LEMMA Associates == \A s, t, u \in Seq(Byte) : s \o (t \o u) = (s \o t) \o u
<1> SUFFICES ASSUME NEW s \in Seq(Byte), NEW t \in Seq(Byte), NEW u \in Seq(Byte)
             PROVE  s \o (t \o u) = (s \o t) \o u
  OBVIOUS
<1>1. (s \o t) \o u = s \o (t \o u)
  BY ConcatAssociative
<1> QED
  BY <1>1

LEMMA Sequences ==
    /\ \A s, t \in Seq(Byte) : s \o t \in Seq(Byte)
    /\ \A s, t, u \in Seq(Byte) : (s \o t) \o u = s \o (t \o u)
    /\ \A s \in Seq(Byte) : <<>> \o s = s /\ s \o <<>> = s
    /\ <<>> \in Seq(Byte) /\ Consecutive(<<>>)
<1>1. \A s, t \in Seq(Byte) : s \o t \in Seq(Byte)
  BY ConcatProperties
<1>2. \A s, t, u \in Seq(Byte) : (s \o t) \o u = s \o (t \o u)
  BY ConcatAssociative
<1>3. Consecutive(<<>>)
  BY EmptySeq DEF Consecutive
<1> QED
  BY <1>1, <1>2, <1>3, EmptyJoins, EmptySeq

\* What a step of another thread than the server's has to keep.
LEMMA FlowStep ==
    ASSUME TypeInv, ClientInv, FlowInv, NotServer,
           Consecutive(chunk'),
           slimPc' = "stop" /\ resetPc'.slim = 4 => Consecutive(Ring!Contents' \o chunk'),
           \A s \in Seq(Byte) : Continues(s) /\ (s = <<>> \/ Served') => NextContinues(s)
    PROVE  FlowInv'
<1>1. UNCHANGED <<server, output>> /\ Taken' = Taken /\ (Served' => Served)
  BY OthersServe
<1>2. NextContinues(<<>>)
  BY Sequences DEF FlowInv
<1>3. Continues(<<>>)'
  BY <1>2 DEF NextContinues, Continues
<1>4. Served' => Consecutive(Taken)'
  BY <1>1 DEF FlowInv, Consecutive
<1>5. ASSUME Served', serverPc' \in PastPcs PROVE Continues(Taken)'
  <2>1. Taken \in Seq(Byte) /\ Continues(Taken)
    BY <1>1, <1>5, TakenBytes DEF FlowInv, server
  <2>2. NextContinues(Taken)
    BY <1>5, <2>1
  <2> QED
    BY <1>1, <2>2 DEF NextContinues, Continues
<1>6. /\ Consecutive(chunk)'
      /\ slimPc' = "stop" /\ resetPc'.slim = 4 => Consecutive(Ring!Contents \o chunk)'
  BY DEF Consecutive
<1> QED
  BY <1>3, <1>4, <1>5, <1>6 DEF FlowInv

\* A step that moves no byte and lets nothing flow.
LEMMA FlowQuiet ==
    ASSUME TypeInv, ClientInv, FlowInv, NotServer,
           Ring!Contents' = Ring!Contents, chunk' = chunk,
           Flowing' => Flowing,
           Flowing' /\ active' /\ audioPc' \in FeedPcs
             => active /\ audioPc \in FeedPcs /\ UNCHANGED <<track, source>>,
           slimPc' = "stop" /\ resetPc'.slim = 4 => slimPc = "stop" /\ resetPc.slim = 4
    PROVE  FlowInv'
<1>1. ASSUME NEW s \in Seq(Byte), Continues(s) PROVE NextContinues(s)
  BY <1>1 DEF Continues, NextContinues
<1>2. /\ Consecutive(chunk')
      /\ slimPc' = "stop" /\ resetPc'.slim = 4 => Consecutive(Ring!Contents' \o chunk')
  BY DEF FlowInv
<1> QED
  BY <1>1, <1>2, FlowStep

\* A step after which there is nothing, and nobody to serve.
LEMMA FlowStarts ==
    ASSUME TypeInv, ClientInv, FlowInv, NotServer,
           Ring!Contents' = <<>>, chunk' = <<>>, ~Served'
    PROVE  FlowInv'
<1>1. <<>> \o Ring!Contents' = <<>> /\ Ring!Contents' \o chunk' = <<>>
      /\ <<>> \o (Ring!Contents' \o chunk') = <<>>
  BY Sequences
<1>2. NextContinues(<<>>)
  BY <1>1, Sequences DEF NextContinues
<1> QED
  BY <1>1, <1>2, Sequences, FlowStep

\* What is read from LMS follows what was read before.
LEMMA FetchFlow ==
    ASSUME TypeInv, ClientInv, ControlInv, FlowInv, PrebufferRead \/ StreamRead
    PROVE  FlowInv'
<1>1. /\ NotServer /\ audioPc # "gone" /\ audioPc \in FeedPcs /\ chunk = <<>>
      /\ slimPc' # "stop" /\ active
      /\ UNCHANGED <<ring, flags, running, active, track, slimPc, resetPc>>
  BY DEF NotServer, AudioStep, PrebufferRead, StreamRead, Fetch, AudioGoes, control, FeedPcs,
     FillPcs, ControlInv
<1>2. Ring!Contents' = Ring!Contents
  BY <1>1, RingKeeps
<1>3. Flowing' <=> Flowing
  BY <1>1 DEF Flowing, flags
<1>4. CASE UNCHANGED <<chunk, source>>
  BY <1>1, <1>2, <1>3, <1>4, FlowQuiet
<1>5. CASE \E n \in 1..Ring!Least(MaxWrite, TrackLen - source) :
             /\ chunk' = [k \in 1..n |-> <<track, source + k>>]
             /\ source' = source + n
  <2>1. PICK n \in 1..Ring!Least(MaxWrite, TrackLen - source) :
           /\ chunk' = [k \in 1..n |-> <<track, source + k>>]
           /\ source' = source + n
    BY <1>5
  <2>2. n \in Nat \ {0} /\ source \in Nat /\ chunk' \in Seq(Byte) /\ Len(chunk') = n
    <3>1. source \in Nat
      BY Positive DEF TypeInv, AudioTypes
    <3> QED
      BY <1>1, <2>1, <3>1, FetchedBytes
  <2>3. chunk' # <<>> /\ chunk'[1] = <<track, source + 1>> /\ chunk'[n] = <<track, source + n>>
    BY <2>1, <2>2, EmptySeq
  <2>4. Consecutive(chunk')
    BY <2>1, <2>2, <2>3 DEF Consecutive
  <2>5. Ring!Contents \in Seq(Byte)
    BY RingContents DEF TypeInv
  <2>6. ASSUME NEW s \in Seq(Byte), Continues(s) PROVE NextContinues(s)
    <3> DEFINE q == s \o Ring!Contents
    <3>1. q \in Seq(Byte) /\ s \o (Ring!Contents' \o chunk') = q \o chunk'
      <4>1. q \in Seq(Byte)
        BY <2>5, Sequences
      <4>2. \A u \in Seq(Byte) : s \o (Ring!Contents \o u) = (s \o Ring!Contents) \o u
        BY <2>5, Associates, Zenon
      <4> QED
        BY <1>2, <2>2, <4>1, <4>2
    <3>2. s \o (Ring!Contents \o chunk) = q
      BY <1>1, <2>5, Sequences
    <3>3. Consecutive(q)
      BY <2>6 DEF Continues
    <3>4. Flowing /\ q # <<>> => q[Len(q)] = <<track, source>>
      BY <1>1, <2>6, <3>2 DEF Continues
    <3>5. Flowing => Consecutive(q \o chunk')
      <4> HIDE DEF q
      <4>1. <<track, source>>[1] = track /\ <<track, source>>[2] + 1 = source + 1
        OBVIOUS
      <4>2. Flowing /\ q # <<>> => chunk'[1] = <<q[Len(q)][1], q[Len(q)][2] + 1>>
        BY <2>3, <3>4
      <4> QED
        BY <2>2, <2>4, <3>1, <3>3, <4>2, JoinConsecutive
    <3>6. (q \o chunk')[Len(q \o chunk')] = <<track', source'>>
      BY <1>1, <2>1, <2>2, <2>3, <3>1, LastOfJoin
    <3> QED
      BY <1>2, <1>3, <3>1, <3>3, <3>5, <3>6 DEF NextContinues
  <2> QED
    BY <1>1, <2>4, <2>6, FlowStep
<1> QED
  BY <1>4, <1>5 DEF PrebufferRead, StreamRead, Fetch

\* writeAudio moves its bytes in order, or gives them up when the stream ends.
LEMMA WriteFlow ==
    ASSUME TypeInv, ClientInv, FlowInv, writeAudio
    PROVE  FlowInv'
<1>1. PICK write, loop : /\ WriteAudio(write, loop)
                         /\ \/ write = "prebufferWrite" /\ loop = "prebuffer"
                            \/ write = "streamWrite" /\ loop = "stream"
  BY DEF writeAudio
<1>2. /\ NotServer /\ audioPc \in FeedPcs
      /\ UNCHANGED <<flags, running, track, source, resetPc, active, slimPc>>
  BY <1>1 DEF NotServer, AudioStep, WriteAudio, writeAudio, AudioGoes, control, FillPcs, FeedPcs
<1>3. Flowing' <=> Flowing
  BY <1>2 DEF Flowing, flags
<1>4. chunk \in Seq(Byte) /\ chunk' \in Seq(Byte) /\ Ring!Contents \in Seq(Byte)
  BY <1>1, WriteMoves, RingContents DEF TypeInv, AudioTypes
<1>5. CASE ~Flowing /\ chunk' = <<>> /\ Ring!Contents' = Ring!Contents
  <2>1. ASSUME NEW s \in Seq(Byte), Continues(s) PROVE NextContinues(s)
    BY <1>3, <1>5, <2>1 DEF Continues, NextContinues
  <2>2. Ring!Contents' \o chunk' = Ring!Contents
    BY <1>4, <1>5, Sequences
  <2>3. Consecutive(Ring!Contents)
    BY <1>4, Sequences DEF FlowInv, Continues
  <2> QED
    BY <1>2, <1>5, <2>1, <2>2, <2>3, Sequences, FlowStep
<1>6. CASE /\ Flowing /\ Ring!Contents' \o chunk' = Ring!Contents \o chunk
           /\ Ring!Contents' \in Seq(Byte)
           /\ \E src \in Seq(Byte) : chunk = src \o chunk'
  <2>1. ASSUME NEW s \in Seq(Byte), Continues(s) PROVE NextContinues(s)
    <3>1. Consecutive(s \o (Ring!Contents' \o chunk'))
      BY <1>6, <2>1 DEF Continues
    <3>2. s \o (Ring!Contents' \o chunk') = (s \o Ring!Contents') \o chunk'
      <4>1. \A t, u \in Seq(Byte) : s \o (t \o u) = (s \o t) \o u
        BY Associates, Zenon
      <4> QED
        BY <1>4, <1>6, <4>1
    <3>3. Consecutive(s \o Ring!Contents')
      BY <1>4, <1>6, <3>1, <3>2, Sequences, PartsConsecutive
    <3> QED
      BY <1>2, <1>3, <1>6, <2>1, <3>1, <3>3 DEF Continues, NextContinues
  <2>2. Consecutive(chunk')
    BY <1>4, <1>6, PartsConsecutive DEF FlowInv
  <2> QED
    BY <1>2, <1>6, <2>1, <2>2, FlowStep DEF FlowInv
<1> QED
  BY <1>1, <1>5, <1>6, WriteMoves

\* While reset empties the ring and lets the stream flow again, whoever is
\* still served gets nothing more of what the audio thread has in hand.
LEMMA ResetFlow ==
    ASSUME TypeInv, ClientInv, ControlInv, ReadyInv, FlowInv,
           NEW t \in {"slim", "audio"}, Reset(t)
    PROVE  FlowInv'
<1>1. NotServer
  BY DEF NotServer, AudioStep, SlimStep
<1>2. Served' => Served
  BY <1>1, OthersServe
<1>3. PICK from \in 1..4, to \in 0..4 : ResetGoes(t, from, to)
  BY DEF Reset, ResetFlags, ResetClient, ResetRing, ResetLowerEos
<1>4. /\ resetPc[t] = from /\ resetPc'[t] = to
      /\ \A u \in {"slim", "audio"} \ {t} : resetPc'[u] = resetPc[u]
      /\ UNCHANGED <<running, slimPc, active, audioPc, chunk, track, source>>
  BY <1>3 DEF ResetGoes, TypeInv, ControlTypes, control, input
<1>5. chunk \in Seq(Byte) /\ Ring!Contents \in Seq(Byte) /\ from # 0
  BY RingContents DEF TypeInv, AudioTypes
\* Nothing in hand, or a stop.
<1>6. (slimPc = "stop" /\ t = "slim" /\ ~active) \/ chunk = <<>>
  <2>1. CASE t = "audio"
    BY <1>4, <1>5, <2>1 DEF ControlInv
  <2>2. CASE t = "slim"
    BY <1>4, <1>5, <2>2 DEF ControlInv, TypeInv, ControlTypes
  <2> QED
    BY <2>1, <2>2
<1>7. ~active \/ audioPc \notin FeedPcs
  <2>1. CASE t = "audio"
    BY <1>4, <1>5, <2>1 DEF ControlInv, FeedPcs, FillPcs
  <2>2. CASE t = "slim"
    BY <1>4, <1>5, <2>2 DEF ControlInv, TypeInv, ControlTypes, FeedPcs, FillPcs
  <2> QED
    BY <2>1, <2>2
<1>8. from \in {3, 4} /\ Served => chunk = <<>>
  <2>1. CASE t = "audio"
    BY <1>4, <1>6, <2>1
  <2>2. CASE t = "slim"
    BY <1>4, <1>6, <2>2 DEF ReadyInv
  <2> QED
    BY <2>1, <2>2
<1>9. CASE ResetFlags(t) \/ ResetClient(t)
  <2>1. UNCHANGED ring /\ (Flowing' => Flowing)
    BY <1>4, <1>9 DEF ResetFlags, ResetClient, Flowing, flags
  <2>2. to # 4
    BY <1>4, <1>9 DEF ResetFlags, ResetClient, ResetGoes, TypeInv, ControlTypes
  <2>3. resetPc'.slim = 4 => resetPc.slim = 4
    BY <1>4, <2>2
  <2> QED
    BY <1>1, <1>4, <1>7, <2>1, <2>3, RingKeeps, FlowQuiet
<1>10. CASE ResetRing(t)
  <2>1. Ring!Contents' = <<>>
    BY <1>10, RingEmpties DEF ResetRing, TypeInv
  <2>2. from = 3
    BY <1>4, <1>10 DEF ResetRing, ResetGoes
  <2>3. Ring!Contents' \o chunk' = chunk /\ Consecutive(chunk)
    BY <1>4, <1>5, <2>1, Sequences DEF FlowInv
  <2>4. ASSUME NEW s \in Seq(Byte), Continues(s), s = <<>> \/ Served' PROVE NextContinues(s)
    <3>1. Consecutive(s)
      BY <1>5, <2>4, PartsConsecutive DEF Continues
    <3>2. s \o Ring!Contents' = s /\ s \o (Ring!Contents' \o chunk') = s \o chunk
      BY <2>1, <2>3, Sequences
    <3>3. Consecutive(s \o chunk)
      <4>1. CASE s = <<>>
        BY <1>5, <2>3, <4>1, Sequences
      <4>2. CASE Served'
        BY <1>2, <1>8, <2>2, <3>1, <4>2, Sequences
      <4> QED
        BY <2>4, <4>1, <4>2
    <3> QED
      BY <1>4, <1>7, <3>1, <3>2, <3>3 DEF NextContinues
  <2> QED
    BY <1>1, <1>4, <2>3, <2>4, FlowStep
<1>11. CASE ResetLowerEos(t)
  <2>1. UNCHANGED ring /\ resetPc[t] = 4 /\ resetPc'[t] = 0
    BY <1>4, <1>11 DEF ResetLowerEos, ResetGoes, TypeInv, ControlTypes
  <2>2. Ring!Contents' = Ring!Contents
    BY <2>1, RingKeeps
  <2>3. Consecutive(Ring!Contents)
    BY <1>5, Sequences DEF FlowInv, Continues
  <2>4. Consecutive(Ring!Contents \o chunk)
    <3>1. CASE chunk = <<>>
      BY <1>5, <2>3, <3>1, Sequences
    <3>2. CASE slimPc = "stop" /\ t = "slim"
      BY <2>1, <3>2 DEF FlowInv
    <3> QED
      BY <1>6, <3>1, <3>2
  <2>5. ASSUME NEW s \in Seq(Byte), Continues(s), s = <<>> \/ Served' PROVE NextContinues(s)
    <3>1. Consecutive(s \o Ring!Contents')
      BY <2>2, <2>5 DEF Continues
    <3>2. Consecutive(s \o (Ring!Contents' \o chunk'))
      <4>1. CASE s = <<>>
        BY <1>4, <1>5, <2>2, <2>4, <4>1, Sequences
      <4>2. CASE Served'
        BY <1>2, <1>4, <1>5, <1>8, <2>1, <2>2, <3>1, <4>2, Sequences
      <4> QED
        BY <2>5, <4>1, <4>2
    <3> QED
      BY <1>4, <1>7, <3>1, <3>2 DEF NextContinues
  <2> QED
    BY <1>1, <1>4, <2>2, <2>4, <2>5, FlowStep DEF FlowInv
<1> QED
  BY <1>9, <1>10, <1>11 DEF Reset

\* The server takes from the front of the ring what goes on behind it.
LEMMA ServerFlow ==
    ASSUME TypeInv, ClientInv, FlowInv, ServerStep
    PROVE  FlowInv'
<1>1. UNCHANGED <<endOfStream, running, chunk, track, source, active, audioPc, slimPc, resetPc>>
  BY ServerServes DEF flags, input, control
<1>2. Flowing' <=> Flowing
  BY <1>1 DEF Flowing
<1>3. Ring!Contents \in Seq(Byte) /\ chunk \in Seq(Byte)
  BY RingContents DEF TypeInv, AudioTypes
<1>4. ASSUME NEW s \in Seq(Byte), Continues(s), Ring!Contents' = Ring!Contents
      PROVE  NextContinues(s)
  BY <1>1, <1>2, <1>4 DEF Continues, NextContinues
<1>5. ASSUME NEW s \in Seq(Byte), Continues(s), Ring!Contents = sendBuf' \o Ring!Contents',
             sendBuf' \in Seq(Byte), Ring!Contents' \in Seq(Byte)
      PROVE  NextContinues(s \o sendBuf')
  <2>1. s \o Ring!Contents = (s \o sendBuf') \o Ring!Contents'
    BY <1>5, Sequences
  <2>2. Ring!Contents \o chunk = sendBuf' \o (Ring!Contents' \o chunk)
    <3>1. \A u \in Seq(Byte) :
             sendBuf' \o (Ring!Contents' \o u) = (sendBuf' \o Ring!Contents') \o u
      <4>1. \A t, u \in Seq(Byte) : sendBuf' \o (t \o u) = (sendBuf' \o t) \o u
        BY <1>5, Associates, Zenon
      <4> QED
        BY <1>5, <4>1, Zenon
    <3> QED
      BY <1>3, <1>5, <3>1
  <2>3. Ring!Contents' \o chunk \in Seq(Byte)
    BY <1>3, <1>5, Sequences
  <2>4. s \o (Ring!Contents \o chunk) = (s \o sendBuf') \o (Ring!Contents' \o chunk')
    <3>1. \A u \in Seq(Byte) : s \o (sendBuf' \o u) = (s \o sendBuf') \o u
      <4>1. \A t, u \in Seq(Byte) : s \o (t \o u) = (s \o t) \o u
        BY Associates, Zenon
      <4> QED
        BY <1>5, <4>1
    <3> QED
      BY <1>1, <2>2, <2>3, <3>1
  <2> QED
    BY <1>1, <1>2, <1>5, <2>1, <2>4 DEF Continues, NextContinues
<1>6. NextContinues(<<>>) /\ (Consecutive(Ring!Contents \o chunk)
                                => Consecutive(Ring!Contents' \o chunk'))
  <2>1. CASE Ring!Contents' = Ring!Contents
    BY <1>1, <1>4, <2>1, Sequences DEF FlowInv
  <2>2. CASE /\ Ring!Contents = sendBuf' \o Ring!Contents'
             /\ sendBuf' \in Seq(Byte) /\ Ring!Contents' \in Seq(Byte)
    <3> DEFINE q == Ring!Contents' \o chunk'
    <3>1. q \in Seq(Byte) /\ Ring!Contents \o chunk = sendBuf' \o q
      BY <1>1, <1>3, <2>2, Sequences
    <3>2. NextContinues(sendBuf')
      BY <1>5, <2>2, Sequences DEF FlowInv
    <3>3. Consecutive(Ring!Contents')
      BY <2>2, <3>2, PartsConsecutive DEF NextContinues
    <3>4. Flowing' => Consecutive(q)
      BY <2>2, <3>1, <3>2, PartsConsecutive DEF NextContinues
    <3>5. (Flowing' /\ active' /\ audioPc' \in FeedPcs) /\ q # <<>>
             => q[Len(q)] = <<track', source'>>
      BY <2>2, <3>1, <3>2, LastOfJoin DEF NextContinues
    <3>6. <<>> \o Ring!Contents' = Ring!Contents' /\ <<>> \o q = q
      BY <2>2, <3>1, Sequences
    <3>7. NextContinues(<<>>)
      BY <3>3, <3>4, <3>5, <3>6 DEF NextContinues
    <3>8. Consecutive(Ring!Contents \o chunk) => Consecutive(q)
      BY <2>2, <3>1, PartsConsecutive
    <3> QED
      BY <3>7, <3>8
  <2> QED
    BY <2>1, <2>2, ServerMoves
<1>7. ASSUME Served'
      PROVE  Consecutive(Taken') /\ (serverPc' \in PastPcs => NextContinues(Taken'))
  <2>1. CASE Taken' = <<>>
    BY <1>6, <2>1, Sequences
  <2>2. CASE /\ Served /\ Taken' = Taken /\ Ring!Contents' = Ring!Contents
             /\ serverPc' \in PastPcs => serverPc \in PastPcs
    BY <1>4, <2>2, TakenBytes DEF FlowInv
  <2>3. CASE /\ Served /\ serverPc = "data"
             /\ Ring!Contents = sendBuf' \o Ring!Contents'
             /\ Taken' = Taken \o sendBuf'
             /\ sendBuf' \in Seq(Byte) /\ Ring!Contents' \in Seq(Byte)
    <3>1. Taken \in Seq(Byte) /\ Continues(Taken)
      BY <2>3, TakenBytes DEF FlowInv, PastPcs
    <3>2. NextContinues(Taken')
      BY <1>5, <2>3, <3>1
    <3>3. Taken' \in Seq(Byte)
      BY <2>3, <3>1, Sequences
    <3>4. Consecutive(Taken')
      BY <2>3, <3>2, <3>3, PartsConsecutive DEF NextContinues
    <3> QED
      BY <3>2, <3>4
  <2> QED
    BY <1>7, <2>1, <2>2, <2>3, ServerTakes
<1>8. Continues(<<>>)' /\ (Served' => Consecutive(Taken)')
      /\ (Served' /\ serverPc' \in PastPcs => Continues(Taken)')
  BY <1>6, <1>7 DEF Continues, NextContinues, Consecutive
<1>9. /\ Consecutive(chunk)'
      /\ slimPc' = "stop" /\ resetPc'.slim = 4 => Consecutive(Ring!Contents \o chunk)'
  <2>1. Consecutive(chunk')
    BY <1>1 DEF FlowInv
  <2>2. slimPc' = "stop" /\ resetPc'.slim = 4 => Consecutive(Ring!Contents' \o chunk')
    BY <1>1, <1>6 DEF FlowInv
  <2> QED
    BY <2>1, <2>2 DEF Consecutive
<1> QED
  BY <1>8, <1>9 DEF FlowInv

LEMMA FlowKept ==
    TypeInv /\ ClientInv /\ ControlInv /\ ReadyInv /\ FlowInv /\ [Next]_vars => FlowInv'
<1> SUFFICES ASSUME TypeInv, ClientInv, ControlInv, ReadyInv, FlowInv, [Next]_vars
             PROVE  FlowInv'
  OBVIOUS
<1>0. NotServer \/ ServerStep
  BY DEF NotServer, Next
<1>1. NotServer => (Served' => Served)
  BY OthersServe
<1>2. CASE Reset("audio") \/ Reset("slim")
  BY <1>2, ResetFlow
<1>3. CASE PrebufferRead \/ StreamRead
  BY <1>3, FetchFlow
<1>4. CASE writeAudio
  BY <1>4, WriteFlow
<1>5. CASE ServerStep
  BY <1>5, ServerFlow
<1>6. CASE SetFormatRing \/ SetFormatFlags \/ SetPassthroughMime
  <2>1. /\ NotServer /\ audioPc \in {"format", "formatFlags", "mime"} /\ chunk' = chunk
    BY <1>6 DEF NotServer, AudioStep, SetFormatRing, SetFormatFlags, SetPassthroughMime, AudioGoes,
       input
  <2>2. chunk' = <<>> /\ ~Served'
    BY <1>1, <2>1 DEF ControlInv, ReadyInv, NewPcs
  <2>3. Ring!Contents' = <<>>
    BY <1>6, RingRenews, RingKeeps DEF SetFormatRing, SetFormatFlags, SetPassthroughMime, AudioGoes,
       ControlInv, TypeInv
  <2> QED
    BY <2>1, <2>2, <2>3, FlowStarts
<1>7. CASE ChainBack
  <2>1. /\ NotServer /\ UNCHANGED <<ring, chunk, endOfStream, running, slimPc>>
        /\ audioPc' = "chain" /\ resetPc'.slim = resetPc.slim
    BY <1>7 DEF NotServer, AudioStep, ChainBack, AudioGoes, flags, control, TypeInv, ControlTypes
  <2>2. (Flowing' => Flowing) /\ audioPc' \notin FeedPcs
    BY <2>1 DEF Flowing, FeedPcs, FillPcs
  <2> QED
    BY <2>1, <2>2, RingKeeps, FlowQuiet
<1>8. CASE StrmStart \/ StrmStop \/ StopAudioThread
  <2>1. /\ NotServer /\ UNCHANGED <<ring, chunk, endOfStream, running, audioPc, track, source>>
        /\ active' => active
        /\ slimPc' = "stop" /\ resetPc'.slim = 4 => slimPc = "stop" /\ resetPc.slim = 4
    BY <1>8 DEF NotServer, StrmStart, StrmStop, StopAudioThread, ControlOnly, input, TypeInv,
       ControlTypes
  <2>2. Flowing' => Flowing
    BY <2>1 DEF Flowing
  <2> QED
    BY <2>1, <2>2, RingKeeps, FlowQuiet
<1>9. CASE StrmDone /\ ~UNCHANGED <<active, audioPc, input>>
  <2>1. /\ NotServer /\ UNCHANGED <<ring, chunk, endOfStream, running>>
        /\ audioPc' = "format" /\ slimPc' = "idle"
    BY <1>9 DEF NotServer, SlimStep, StrmDone, ControlOnly
  <2>2. (Flowing' => Flowing) /\ audioPc' \notin FeedPcs
    BY <2>1 DEF Flowing, FeedPcs, FillPcs
  <2> QED
    BY <2>1, <2>2, RingKeeps, FlowQuiet
<1>10. CASE \/ DescribeTrack \/ setReadyToServe \/ StreamDone \/ SwitchAway \/ LastEndOfStream
            \/ PrebufferDone \/ TrackLoopDone \/ Finish \/ ChainReset
            \/ (StrmDone /\ UNCHANGED <<active, audioPc, input>>)
            \/ MainStep \/ RendererConnects \/ RendererCloses \/ UNCHANGED vars
  <2>1. NotServer
    BY <1>10 DEF NotServer, AudioStep, SlimStep
  <2>2. UNCHANGED <<ring, chunk, track, source>>
    BY <1>10 DEF DescribeTrack, setReadyToServe, StreamDone, SwitchAway, LastEndOfStream,
       PrebufferDone, TrackLoopDone, Finish, ChainReset, StrmDone, MainStep, StopAudioEos,
       StopServer, StopClient, ControlOnly, RendererConnects, RendererCloses, RendererOnly, vars,
       input
  <2>3. /\ UNCHANGED <<active, resetPc>> /\ (slimPc' = slimPc \/ slimPc' = "idle")
        /\ audioPc' \in FeedPcs => audioPc \in FeedPcs
    BY <1>10 DEF DescribeTrack, setReadyToServe, StreamDone, SwitchAway, LastEndOfStream,
       PrebufferDone, TrackLoopDone, Finish, ChainReset, StrmDone, MainStep, StopAudioEos,
       StopServer, StopClient, ControlOnly, RendererConnects, RendererCloses, RendererOnly, vars,
       control, AudioGoes, FeedPcs, FillPcs
  <2>4. running' => running
    BY <1>10 DEF DescribeTrack, setReadyToServe, StreamDone, SwitchAway, LastEndOfStream,
       PrebufferDone, TrackLoopDone, Finish, ChainReset, StrmDone, MainStep, StopAudioEos,
       StopServer, StopClient, ControlOnly, RendererConnects, RendererCloses, RendererOnly, vars,
       AudioGoes
  <2>5. Flowing' => Flowing
    <3>1. CASE StreamDone
      BY <2>4, <3>1 DEF StreamDone, Flowing, TypeInv, AudioTypes
    <3>2. endOfStream' = endOfStream \/ endOfStream' = TRUE \/ StreamDone
      BY <1>10 DEF DescribeTrack, setReadyToServe, SwitchAway, LastEndOfStream,
         PrebufferDone, TrackLoopDone, Finish, ChainReset, StrmDone, MainStep, StopAudioEos,
         StopServer, StopClient, RendererConnects, RendererCloses, RendererOnly, vars, flags
    <3> QED
      BY <2>4, <3>1, <3>2 DEF Flowing
  <2> QED
    BY <2>1, <2>2, <2>3, <2>5, RingKeeps, FlowQuiet
<1> QED
  BY <1>0, <1>2, <1>3, <1>4, <1>5, <1>6, <1>7, <1>8, <1>9, <1>10
     DEF NotServer, AudioStep, SlimStep

-----------------------------------------------------------------------------
(* The invariant and what follows from it.                                 *)

LEMMA ServerInit == Init => ServerInv
<1> SUFFICES ASSUME Init PROVE ServerInv
  OBVIOUS
<1>1. Ring!Contents = <<>> /\ chunk = <<>> /\ ~Served
  <2>1. Ring!ringAvailable = 0
    BY DEF Init, Ring!RingInit, Ring!ringAvailable
  <2> QED
    BY <2>1 DEF Init, Ring!Contents, Served, PastPcs
<1>2. ClientInv
  BY Positive DEF Init, ClientInv, Conn
<1>3. ControlInv /\ ReadyInv
  BY <1>1 DEF Init, ControlInv, ReadyInv, NewPcs
<1>4. TrackInv
  BY <1>1, EmptySeq DEF Init, TrackInv, OfTrack, Steady
<1>5. FlowInv
  <2>1. <<>> \o Ring!Contents = <<>> /\ Ring!Contents \o chunk = <<>>
        /\ <<>> \o (Ring!Contents \o chunk) = <<>>
    BY <1>1, Sequences
  <2> QED
    BY <1>1, <2>1, Sequences DEF FlowInv, Continues
<1> QED
  BY <1>2, <1>3, <1>4, <1>5 DEF ServerInv

LEMMA ServerInvHolds == Spec => [](TypeInv /\ ServerInv)
<1>1. TypeInv /\ ServerInv /\ [Next]_vars => (TypeInv /\ ServerInv)'
  BY TypeKept, ClientKept, ControlKept, ReadyKept, TrackKept, FlowKept DEF ServerInv
<1> QED
  BY <1>1, TypeInit, ServerInit, PTL DEF Spec

\* A client that is open and got anything is the one that is served.
LEMMA LiveServed ==
    ASSUME TypeInv, ClientInv, NEW c \in Live, got[c] # <<>>
    PROVE  c = client /\ Served
<1>1. c \in Conn /\ sock[c] = "open" /\ c = client
  BY DEF Live, ClientInv
<1>2. client # 0
  BY <1>1 DEF Conn
<1>3. serverPc \in ServerPcs \ {"accept", "exit", "register", "request", "wait", "recheck"}
  BY <1>1, <1>2 DEF ClientInv, TypeInv, ServerTypes
<1> QED
  BY <1>1, <1>3 DEF Served, PastPcs, ServerPcs

(* A connection that is still open never carries bytes of two tracks, nor  *)
(* a track with a hole in it.                                              *)
THEOREM OneTrackPerConnection == Spec => []ConnectionCarriesOneTrack
<1>1. TypeInv /\ ServerInv => ConnectionCarriesOneTrack
  <2> SUFFICES ASSUME TypeInv, ServerInv, NEW c \in Live PROVE Consecutive(got[c])
    BY DEF ConnectionCarriesOneTrack
  <2>1. CASE got[c] = <<>>
    BY <2>1, Sequences
  <2>2. CASE got[c] # <<>>
    <3>1. c = client /\ Served
      BY <2>2, LiveServed DEF ServerInv
    <3>2. got[client] \in Seq(Byte) /\ sendBuf \in Seq(Byte) /\ Consecutive(Taken)
      BY <3>1, TakenBytes DEF ServerInv, FlowInv
    <3>3. Consecutive(got[client])
      BY <3>2, PartsConsecutive, Sequences DEF Taken
    <3> QED
      BY <3>1, <3>3
  <2> QED
    BY <2>1, <2>2
<1> QED
  BY <1>1, ServerInvHolds, PTL

(* While no stop has come, the ring holds only bytes of the track that     *)
(* plays, without a hole, up to the last one read from LMS.                *)
THEOREM RingAlwaysOfThisTrack == Spec => []RingHoldsOnlyThisTrack
<1>1. TypeInv /\ ServerInv => RingHoldsOnlyThisTrack
  <2> SUFFICES ASSUME TypeInv, ServerInv PROVE RingHoldsOnlyThisTrack
    OBVIOUS
  <2>1. Ring!Contents \o chunk \in Seq(Byte)
    BY RingContents, Sequences DEF TypeInv, AudioTypes
  <2>2. <<>> \o (Ring!Contents \o chunk) = Ring!Contents \o chunk
    BY <2>1, Sequences
  <2> QED
    BY <2>2 DEF ServerInv, FlowInv, Continues, Flowing, FeedPcs, FillPcs, RingHoldsOnlyThisTrack
<1> QED
  BY <1>1, ServerInvHolds, PTL

(* The response header a live connection got describes the track whose     *)
(* bytes follow it.                                                        *)
THEOREM HeaderAlwaysMatchesBody == Spec => []HeaderMatchesBody
<1>1. TypeInv /\ ServerInv => HeaderMatchesBody
  <2> SUFFICES ASSUME TypeInv, ServerInv, Steady, NEW c \in Live, got[c] # <<>>
               PROVE  header[c] = got[c][1][1]
    BY DEF HeaderMatchesBody, Steady
  <2>1. c = client /\ Served
    BY LiveServed DEF ServerInv
  <2>2. serverPc # "header"
    BY <2>1 DEF ServerInv, ClientInv
  <2>3. OfTrack(Taken) /\ header[client] = track
    BY <2>1, <2>2 DEF ServerInv, TrackInv
  <2>4. got[client] \in Seq(Byte) /\ sendBuf \in Seq(Byte)
    BY <2>1, TakenBytes DEF ServerInv
  <2>5. OfTrack(got[client])
    BY <2>3, <2>4, OfTrackJoins, Sequences DEF Taken
  <2>6. 1 \in 1..Len(got[client])
    BY <2>1, <2>4, EmptySeq, LenProperties
  <2> QED
    BY <2>1, <2>3, <2>5, <2>6 DEF OfTrack
<1> QED
  BY <1>1, ServerInvHolds, PTL
=============================================================================
