--------------------------- MODULE SlimprotoProofs ---------------------------
(***************************************************************************)
(* Proof that LMS receives whole frames, for every script of LMS and any   *)
(* number of STATs.  m_sendMutex lets one thread send at a time; what the  *)
(* proof adds is that a frame broken off is the last one, because a link   *)
(* that is no longer open never opens again.                               *)
(***************************************************************************)
EXTENDS SlimprotoClient, Recursion

\* The records of sendMessage.
IsFrame(f) ==
    f = Idle \/ (f = [event |-> f.event, part |-> f.part] /\ f.part \in {1, 2})
SendingType == sending = [t \in Senders |-> sending[t]] /\ \A t \in Senders : IsFrame(sending[t])

OneSends == \A t, u \in Senders : sending[t] # Idle /\ sending[u] # Idle => t = u

\* A frame that LMS has the first part of is still being sent, by the thread
\* that began it.
HalfIsSent ==
    /\ received[3] \in {1, 2}
    /\ link = "open" =>
         /\ \A t \in Senders : sending[t].part = 2 => received = <<t, sending[t].event, 1>>
         /\ received[3] = 1 => \E t \in Senders : sending[t].part = 2

\* Nobody sends, and run() has not begun, before the link is open.
QuietBefore ==
    /\ link = "none" <=> mainPc = "connect"
    /\ mainPc = "connect" => received[3] = 2 /\ \A t \in Senders : sending[t] = Idle
    /\ mainPc \in {"connect", "connected", "helo", "name"} => slimPc = "none"

FrameInv == SendingType /\ OneSends /\ HalfIsSent /\ QuietBefore

-----------------------------------------------------------------------------
\* A thread that takes the mutex sends the first part of its frame next.
LEMMA SendsKeepsFrames ==
    ASSUME SendingType, OneSends, HalfIsSent, NEW t \in Senders, NEW e, Sends(t, e),
           UNCHANGED <<received, link>>
    PROVE  SendingType' /\ OneSends' /\ HalfIsSent'
<1>1. \A u \in Senders : sending[u] = Idle
  BY DEF Sends, MaySend
<1>2. /\ sending'[t] = [event |-> e, part |-> 1]
      /\ \A u \in Senders \ {t} : sending'[u] = Idle
      /\ sending' = [u \in Senders |-> sending'[u]]
  BY <1>1 DEF Sends, SendingType
<1>3. \A u \in Senders : IsFrame(sending'[u]) /\ sending'[u].part # 2
  BY <1>2 DEF IsFrame, Idle
<1>4. link = "open" => received[3] # 1
  BY <1>1 DEF HalfIsSent, Idle
<1>5. SendingType' /\ OneSends'
  BY <1>2, <1>3 DEF SendingType, OneSends
<1>6. HalfIsSent'
  BY <1>3, <1>4 DEF HalfIsSent
<1> QED
  BY <1>5, <1>6

\* A step that leaves the frames alone, and does not open the link.
LEMMA OthersKeepFrames ==
    ASSUME SendingType, OneSends, HalfIsSent, UNCHANGED <<sending, received>>,
           link' = "open" => link = "open"
    PROVE  SendingType' /\ OneSends' /\ HalfIsSent'
BY DEF SendingType, OneSends, HalfIsSent, IsFrame

\* One send(): the first part is followed by the second, and nobody is between.
LEMMA PartKeepsFrames ==
    ASSUME FrameInv, NEW t \in Senders, Part(t)
    PROVE  SendingType' /\ OneSends' /\ HalfIsSent'
<1> DEFINE frame == sending[t]
<1>1. /\ frame = [event |-> frame.event, part |-> frame.part]
      /\ frame.part \in {1, 2}
      /\ \A u \in Senders \ {t} : sending[u] = Idle
      /\ link' = link
  BY DEF Part, FrameInv, SendingType, IsFrame, OneSends
<1>2. CASE link = "open" /\ frame.part = 1
  <2>1. /\ sending'[t] = [event |-> frame.event, part |-> 2]
        /\ \A u \in Senders \ {t} : sending'[u] = Idle
        /\ sending' = [u \in Senders |-> sending'[u]]
        /\ received' = <<t, frame.event, 1>>
    BY <1>1, <1>2 DEF Part, FrameInv, SendingType
  <2>2. SendingType' /\ OneSends'
    BY <2>1 DEF SendingType, OneSends, IsFrame
  <2> QED
    BY <2>1, <2>2 DEF HalfIsSent, Idle
<1>3. CASE ~(link = "open" /\ frame.part = 1)
  <2>1. /\ \A u \in Senders : sending'[u] = Idle
        /\ sending' = [u \in Senders |-> sending'[u]]
    BY <1>1, <1>3 DEF Part, FrameInv, SendingType
  <2>2. received' = IF link = "open" THEN <<t, frame.event, 2>> ELSE received
    BY <1>1, <1>3 DEF Part
  <2>3. SendingType' /\ OneSends'
    BY <2>1 DEF SendingType, OneSends, IsFrame
  <2> QED
    BY <1>1, <2>1, <2>2, <2>3 DEF HalfIsSent, FrameInv, Idle
<1> QED
  BY <1>2, <1>3

LEMMA FrameInvInit == SlimInit => FrameInv
BY DEF SlimInit, FrameInv, SendingType, OneSends, HalfIsSent, QuietBefore, IsFrame, NoPart

LEMMA FrameInvStep == FrameInv /\ [SlimNext]_slimVars => FrameInv'
<1> SUFFICES ASSUME FrameInv, [SlimNext]_slimVars
             PROVE  FrameInv'
  OBVIOUS
<1> USE DEF FrameInv
<1>1. CASE LmsCommands
  <2>1. UNCHANGED <<sending, received, link, mainPc, slimPc>>
    BY <1>1 DEF LmsCommands, reader, outgoing
  <2> QED
    BY <2>1, OthersKeepFrames DEF QuietBefore
<1>2. CASE LmsCloses
  <2>1. UNCHANGED <<sending, received, mainPc, slimPc>> /\ link = "open" /\ link' = "eof"
    BY <1>2 DEF LmsCloses, reader, outgoing
  <2> QED
    BY <2>1, OthersKeepFrames DEF QuietBefore
<1>3. CASE SlimThread
  <2>1. /\ UNCHANGED <<received, link, mainPc>> /\ slimPc # "none"
        /\ UNCHANGED sending \/ \E e : Sends("slim", e)
    BY <1>3, Zenon DEF SlimThread, ReaderStep, Recv, RecvFails, ReadLength, ReadOpcode,
           Dispatch, Answered, Complete, Awaits, NextFrame
  <2>2. SendingType' /\ OneSends' /\ HalfIsSent'
    <3>1. CASE UNCHANGED sending
      BY <2>1, <3>1, OthersKeepFrames
    <3>2. CASE \E e : Sends("slim", e)
      <4> PICK e : Sends("slim", e)
        BY <3>2
      <4> QED
        BY <2>1, SendsKeepsFrames DEF Senders
    <3> QED
      BY <2>1, <3>1, <3>2
  <2>3. QuietBefore'
    BY <2>1 DEF QuietBefore
  <2> QED
    BY <2>2, <2>3
<1>4. CASE OpenLink
  <2>1. UNCHANGED <<sending, received, slimPc>> /\ mainPc = "connect" /\ mainPc' = "connected"
        /\ link' = "open"
    BY <1>4 DEF OpenLink, MainGoes
  <2>2. HalfIsSent'
    BY <2>1 DEF HalfIsSent, QuietBefore, Idle
  <2> QED
    BY <2>1, <2>2 DEF SendingType, OneSends, QuietBefore, IsFrame
<1>5. CASE SendHelo \/ SendName \/ SendBye
  <2>1. /\ UNCHANGED <<received, link, slimPc>>
        /\ \E e : Sends("main", e)
        /\ <<mainPc, mainPc'>> \in {<<"connected", "helo">>, <<"helo", "name">>, <<"up", "bye">>}
    BY <1>5, Zenon DEF SendHelo, SendName, SendBye, MainSends, MainGoes
  <2>2. SendingType' /\ OneSends' /\ HalfIsSent'
    <3> PICK e : Sends("main", e)
      BY <2>1
    <3> QED
      BY <2>1, SendsKeepsFrames DEF Senders
  <2> QED
    BY <2>1, <2>2 DEF QuietBefore
<1>6. CASE StartRun \/ CloseLink
  <2>1. /\ UNCHANGED <<sending, received>>
        /\ link' \in {link, "shut"}
        /\ mainPc' \in {"up", "closed"} /\ mainPc \in {"name", "bye", "up"}
    BY <1>6 DEF StartRun, CloseLink, MainGoes
  <2> QED
    BY <2>1, OthersKeepFrames DEF QuietBefore
<1>7. CASE Parts
  <2> PICK t \in Senders : Part(t)
    BY <1>7 DEF Parts
  <2>1. UNCHANGED <<link, mainPc, slimPc>> /\ mainPc # "connect"
    BY DEF Part, reader, QuietBefore
  <2> QED
    BY <2>1, PartKeepsFrames DEF QuietBefore
<1>8. CASE SendStat
  <2>1. Sends("audio", <<"STAT">>) /\ UNCHANGED <<received, link, mainPc, slimPc>> /\ link # "none"
    BY <1>8 DEF SendStat, reader
  <2>2. SendingType' /\ OneSends' /\ HalfIsSent'
    BY <2>1, SendsKeepsFrames DEF Senders
  <2> QED
    BY <2>1, <2>2 DEF QuietBefore
<1>9. CASE UNCHANGED slimVars
  BY <1>9, OthersKeepFrames DEF slimVars, reader, outgoing, QuietBefore
<1> QED
  BY <1>1, <1>2, <1>3, <1>4, <1>5, <1>6, <1>7, <1>8, <1>9 DEF SlimNext, MainThread

\* The frames LMS receives are whole, one after the other: FramesWhole, which
\* m_sendMutex and the order of connect, run and disconnect keep
\* (SlimprotoClient.cpp:537-552).
THEOREM FramesAlwaysWhole == SlimSpec => FramesWhole
<1>1. ASSUME FrameInv, [SlimNext]_slimVars, received' # received
      PROVE  IF received[3] = 2 THEN received'[3] = 1
             ELSE received' = [received EXCEPT ![3] = 2]
  <2>1. PICK t \in Senders : Part(t) /\ link = "open"
    BY <1>1 DEF SlimNext, slimVars, LmsCommands, LmsCloses, SlimThread, ReaderStep, Recv,
           RecvFails, ReadLength, ReadOpcode, Dispatch, Answered, Complete, MainThread,
           OpenLink, SendHelo, SendName, SendBye, StartRun, CloseLink, MainSends,
           MainGoes, Parts, Part, SendStat, outgoing
  <2>2. IsFrame(sending[t]) /\ sending[t] # Idle /\ sending[t].part \in {1, 2}
    BY <1>1, <2>1 DEF Part, FrameInv, SendingType, IsFrame
  <2>3. received' = <<t, sending[t].event, sending[t].part>>
    BY <2>1 DEF Part
  <2>4. sending[t].part = 2 => received = <<t, sending[t].event, 1>>
    BY <1>1, <2>1 DEF FrameInv, HalfIsSent
  <2>5. sending[t].part = 1 => received[3] = 2
    BY <1>1, <2>1, <2>2 DEF FrameInv, HalfIsSent, OneSends, Idle
  <2> QED
    BY <2>2, <2>3, <2>4, <2>5
<1> QED
  BY <1>1, FrameInvInit, FrameInvStep, PTL DEF SlimSpec, FramesWhole
-----------------------------------------------------------------------------
(* The commands.  What is under way continues what has been read: Coming(1) *)
(* is the piece that recv returns next, however much of it has come.       *)

Token    == Nat \X Nat
Size(i)  == 3 + PayloadOf[script[i]]
Coming(p) == IF p <= Len(wire) THEN wire[p] ELSE <<sent + 1, 1>>
After(i, j) == IF j < Size(i) THEN <<i, j + 1>> ELSE <<i + 1, 1>>

Flows ==
    \A p \in 1..Len(wire) :
        \E i \in 1..sent : \E j \in 1..Size(i) :
            wire[p] = <<i, j>> /\ Coming(p + 1) = After(i, j)

Early  == {"connect", "connected", "helo", "name"}
SlimPc == {"none", "length", "opcode", "payload", "answer", "ended"}
StreamType ==
    /\ script \in Seq(DOMAIN PayloadOf) /\ sent \in 0..Len(script)
    /\ wire \in Seq(Token) /\ have \in Seq(Token) /\ want \in Nat
    /\ calls \in Seq({"stream", "volume"} \X Nat)
    /\ slimPc \in SlimPc

\* The callbacks have been called for the first n frames.
CalledUpTo(n) ==
    /\ ToSet(calls) = CalledFor(n)
    /\ \A k, l \in DOMAIN calls : k < l => calls[k][2] < calls[l][2]

\* run() waits for n pieces of frame i, those after the first a.
Reads(i, a, n) ==
    /\ Len(have) + want = n
    /\ \A j \in 1..Len(have) : have[j] = <<i, a + j>>

ReadingAt(i) ==
    \/ /\ slimPc = "length" /\ i \in 1..(sent + 1) /\ CalledUpTo(i - 1)
       /\ Reads(i, 0, 2) /\ Coming(1) = <<i, Len(have) + 1>>
    \/ /\ slimPc = "opcode" /\ i \in 1..sent /\ CalledUpTo(i - 1)
       /\ Reads(i, 2, 1) /\ Coming(1) = After(i, 2 + Len(have))
    \/ /\ slimPc = "payload" /\ i \in 1..sent /\ CalledUpTo(i - 1)
       /\ Reads(i, 2, 1 + PayloadOf[script[i]]) /\ Coming(1) = After(i, 2 + Len(have))
       /\ Len(have) >= 1
    \/ /\ slimPc = "answer" /\ i \in 1..sent /\ CalledUpTo(i) /\ Coming(1) = <<i + 1, 1>>
    \/ /\ slimPc = "ended" /\ i \in 0..sent /\ CalledUpTo(i)

CommandInv ==
    /\ StreamType /\ Flows
    /\ slimPc = "none" <=> mainPc \in Early
    /\ slimPc = "none" => sent = 0 /\ wire = <<>> /\ calls = <<>>
    /\ slimPc # "none" => \E i \in Nat : ReadingAt(i)

LEMMA SizeFacts ==
    ASSUME StreamType, NEW i \in 1..sent
    PROVE  /\ i \in 1..Len(script) /\ script[i] \in DOMAIN PayloadOf
           /\ PayloadOf[script[i]] \in 0..2 /\ Size(i) \in 3..5
<1>1. i \in 1..Len(script)
  BY DEF StreamType
<1>2. script[i] \in DOMAIN PayloadOf
  BY <1>1 DEF StreamType
<1>3. PayloadOf[script[i]] \in 0..2
  BY <1>2 DEF PayloadOf
<1> QED
  BY <1>1, <1>2, <1>3 DEF Size

\* A step that leaves what is under way alone.
LEMMA FlowsKept ==
    ASSUME Flows, UNCHANGED <<script, sent, wire>>
    PROVE  /\ Flows' /\ Coming(1)' = Coming(1)
           /\ \A i, j : After(i, j)' = After(i, j)
<1>1. \A p : Coming(p)' = Coming(p)
  BY DEF Coming
<1>2. \A i : Size(i)' = Size(i)
  BY DEF Size
<1>3. \A i, j : After(i, j)' = After(i, j)
  BY <1>2, Zenon DEF After
<1>4. Flows'
  BY <1>1, <1>2, <1>3, Zenon DEF Flows
<1> QED
  BY <1>1, <1>3, <1>4

LEMMA FirstPart ==
    ASSUME NEW S, NEW s \in Seq(S), NEW n \in 0..Len(s)
    PROVE  /\ SubSeq(s, 1, n) \in Seq(S) /\ Len(SubSeq(s, 1, n)) = n
           /\ \A k \in 1..n : SubSeq(s, 1, n)[k] = s[k]
OBVIOUS

\* What is to come when recv has taken n pieces.
LEMMA RecvShifts ==
    ASSUME wire \in Seq(Token), sent \in Nat, Flows, NEW n \in 0..Len(wire),
           wire' = SubSeq(wire, n + 1, Len(wire)), sent' = sent, script' = script
    PROVE  Flows' /\ wire' \in Seq(Token) /\ Coming(1)' = Coming(n + 1)
<1>1. /\ Len(wire') = Len(wire) - n /\ wire' \in Seq(Token)
      /\ \A p \in 1..Len(wire') : wire'[p] = wire[p + n]
  OBVIOUS
<1>2. ASSUME NEW p \in Nat \ {0}
      PROVE  Coming(p)' = Coming(p + n)
  BY <1>1, <1>2 DEF Coming
<1>3. Flows'
  <2> SUFFICES ASSUME NEW p \in 1..Len(wire')
               PROVE  \E i \in 1..sent : \E j \in 1..Size(i) :
                        wire'[p] = <<i, j>> /\ Coming(p + 1)' = After(i, j)
    BY DEF Flows, Size, After
  <2>1. p + n \in 1..Len(wire) /\ p + 1 \in Nat \ {0} /\ (p + 1) + n = (p + n) + 1
    BY <1>1
  <2>5. PICK i \in 1..sent : \E j \in 1..Size(i) :
             wire[p + n] = <<i, j>> /\ Coming((p + n) + 1) = After(i, j)
    BY <2>1, Zenon DEF Flows
  <2>2. PICK j \in 1..Size(i) : wire[p + n] = <<i, j>> /\ Coming((p + n) + 1) = After(i, j)
    BY <2>5
  <2>3. Coming(p + 1)' = Coming((p + 1) + n)
    BY <1>2, <2>1, Zenon
  <2> QED
    BY <1>1, <2>1, <2>2, <2>3, Zenon
<1>4. Coming(1)' = Coming(n + 1)
  <2>1. Coming(1)' = Coming(1 + n)
    BY <1>2
  <2> QED
    BY <2>1 DEF Coming
<1> QED
  BY <1>1, <1>3, <1>4

\* The pieces of a frame come one after the other.
LEMMA NextPieces ==
    ASSUME StreamType, Flows, NEW i \in 1..sent, NEW b \in Nat, Coming(1) = <<i, b + 1>>,
           NEW n \in 1..Len(wire), b + n <= Size(i)
    PROVE  /\ \A k \in 1..n : wire[k] = <<i, b + k>>
           /\ Coming(n + 1) = After(i, b + n)
<1> DEFINE P(k) == k \in 1..n => wire[k] = <<i, b + k>>
           D == {k \in Nat : P(k)}
<1>0. Len(wire) \in Nat /\ n \in Nat /\ n >= 1 /\ Size(i) \in Nat
  <2>1. Len(wire) \in Nat
    BY DEF StreamType
  <2>2. Size(i) \in 3..5
    BY SizeFacts
  <2> QED
    BY <2>1, <2>2
<1>1. ASSUME NEW k \in 1..n, wire[k] = <<i, b + k>>
      PROVE  Coming(k + 1) = After(i, b + k)
  <2>0. k \in 1..Len(wire)
    BY <1>0
  <2>3. PICK f \in 1..sent : \E j \in 1..Size(f) :
             wire[k] = <<f, j>> /\ Coming(k + 1) = After(f, j)
    BY <2>0, Zenon DEF Flows
  <2>1. PICK j \in 1..Size(f) : wire[k] = <<f, j>> /\ Coming(k + 1) = After(f, j)
    BY <2>3
  <2>2. f = i /\ j = b + k
    BY <1>1, <2>1
  <2> QED
    BY <2>1, <2>2
<1>2. wire[1] = <<i, b + 1>>
  BY <1>0 DEF Coming
<1>3. ASSUME NEW k \in Nat, P(k)
      PROVE  P(k + 1)
  <2> SUFFICES ASSUME k + 1 \in 1..n PROVE wire[k + 1] = <<i, b + (k + 1)>>
    OBVIOUS
  <2>1. CASE k = 0
    BY <1>2, <2>1
  <2>2. CASE k # 0
    <3>1. k \in 1..n /\ k + 1 <= Len(wire) /\ b + k < Size(i) /\ (b + k) + 1 = b + (k + 1)
      BY <1>0, <2>2
    <3>2. Coming(k + 1) = After(i, b + k)
      BY <1>1, <1>3, <3>1
    <3> QED
      BY <3>1, <3>2 DEF Coming, After
  <2> QED
    BY <2>1, <2>2
<1>4. \A k \in Nat : P(k)
  <2>1. 0 \in D
    OBVIOUS
  <2>2. \A k \in Nat : k \in D => k + 1 \in D
    BY <1>3
  <2> HIDE DEF D
  <2>3. Nat \subseteq D
    BY <2>1, <2>2, Induction
  <2> USE DEF D
  <2> QED
    BY <2>3
<1>5. \A k \in 1..n : wire[k] = <<i, b + k>>
  BY <1>0, <1>4
<1>6. Coming(n + 1) = After(i, b + n)
  BY <1>0, <1>1, <1>5
<1> QED
  BY <1>5, <1>6

\* LMS sends one more frame.
LEMMA LmsExtends ==
    ASSUME StreamType, Flows, LmsCommands
    PROVE  StreamType' /\ Flows' /\ Coming(1)' = Coming(1)
<1> DEFINE f == sent + 1
           z == Size(f)
<1>1. /\ f \in 1..Len(script) /\ f \in Nat /\ sent \in Nat /\ sent' = f /\ script' = script
      /\ wire' = wire \o Frame(f)
  BY DEF LmsCommands, lms, StreamType
<1>2. z \in 3..5
  <2>1. script[f] \in DOMAIN PayloadOf
    BY <1>1 DEF StreamType
  <2> QED
    BY <2>1 DEF PayloadOf, Size
<1>3. Frame(f) = [j \in 1..z |-> <<f, j>>]
  BY DEF Frame, Size
<1> HIDE DEF z
<1>4. /\ Frame(f) \in Seq(Token) /\ Len(Frame(f)) = z
      /\ \A j \in 1..z : Frame(f)[j] = <<f, j>>
  <2>1. \A j \in 1..z : <<f, j>> \in Token
    BY <1>1, <1>2 DEF Token
  <2> HIDE DEF f
  <2> QED
    BY <1>2, <1>3, <2>1
<1>5. /\ wire' \in Seq(Token) /\ Len(wire') = Len(wire) + z /\ Len(wire) \in Nat
      /\ \A p \in 1..Len(wire) : wire'[p] = wire[p]
      /\ \A j \in 1..z : wire'[Len(wire) + j] = <<f, j>>
  <2>1. wire \in Seq(Token)
    BY DEF StreamType
  <2> HIDE DEF f
  <2> QED
    BY <1>1, <1>2, <1>4, <2>1
<1>6. \A p \in 1..(Len(wire) + 1) : Coming(p)' = Coming(p)
  <2> SUFFICES ASSUME NEW p \in 1..(Len(wire) + 1) PROVE Coming(p)' = Coming(p)
    OBVIOUS
  <2>1. CASE p \in 1..Len(wire)
    BY <1>2, <1>5, <2>1 DEF Coming
  <2>2. CASE p = Len(wire) + 1
    <3>1. wire'[Len(wire) + 1] = <<f, 1>>
      BY <1>2, <1>5
    <3> QED
      BY <1>2, <1>5, <2>2, <3>1 DEF Coming
  <2> QED
    BY <1>5, <2>1, <2>2
<1>7. Flows'
  <2> SUFFICES ASSUME NEW p \in 1..Len(wire')
               PROVE  \E i \in 1..f : \E j \in 1..Size(i) :
                        wire'[p] = <<i, j>> /\ Coming(p + 1)' = After(i, j)
    BY <1>1 DEF Flows, Size, After
  <2>1. CASE p \in 1..Len(wire)
    <3>3. PICK i \in 1..sent : \E j \in 1..Size(i) :
               wire[p] = <<i, j>> /\ Coming(p + 1) = After(i, j)
      BY <2>1 DEF Flows
    <3>1. PICK j \in 1..Size(i) : wire[p] = <<i, j>> /\ Coming(p + 1) = After(i, j)
      BY <3>3
    <3>2. i \in 1..f /\ p + 1 \in 1..(Len(wire) + 1)
      BY <1>1, <1>5, <2>1
    <3> QED
      BY <1>5, <1>6, <2>1, <3>1, <3>2, Zenon
  <2>2. CASE p \in (Len(wire) + 1)..Len(wire')
    <3>1. PICK j \in 1..z : p = Len(wire) + j
      <4>1. p - Len(wire) \in 1..z /\ p = Len(wire) + (p - Len(wire))
        BY <1>2, <1>5, <2>2
      <4> QED
        BY <4>1
    <3>2. wire'[p] = <<f, j>>
      BY <1>5, <3>1
    <3>5. f \in 1..f /\ j \in 1..Size(f)
      BY <1>1 DEF z
    <3>3. CASE j < z
      <4>1. j + 1 \in 1..z /\ p + 1 = Len(wire) + (j + 1) /\ p + 1 <= Len(wire')
        BY <1>2, <1>5, <3>1, <3>3
      <4>2. Coming(p + 1)' = <<f, j + 1>>
        BY <1>5, <4>1 DEF Coming
      <4>3. After(f, j) = <<f, j + 1>>
        BY <3>3 DEF After, z
      <4> QED
        BY <3>2, <3>5, <4>2, <4>3, Zenon
    <3>4. CASE j = z
      <4>1. ~(p + 1 <= Len(wire'))
        BY <1>2, <1>5, <3>1, <3>4
      <4>2. Coming(p + 1)' = <<f + 1, 1>>
        BY <1>1, <4>1 DEF Coming
      <4>3. After(f, j) = <<f + 1, 1>>
        <5>1. ~(j < Size(f))
          BY <1>2, <3>4 DEF z
        <5> QED
          BY <5>1 DEF After
      <4> QED
        BY <3>2, <3>5, <4>2, <4>3, Zenon
    <3> QED
      BY <1>2, <3>3, <3>4
  <2> QED
    BY <1>5, <2>1, <2>2
<1>8. StreamType'
  <2>1. UNCHANGED <<have, want, calls, slimPc>>
    BY DEF LmsCommands, reader
  <2>2. sent' \in 0..Len(script')
    BY <1>1
  <2> QED
    BY <1>1, <1>5, <2>1, <2>2 DEF StreamType
<1> QED
  BY <1>5, <1>6, <1>7, <1>8

-----------------------------------------------------------------------------
(* The steps of the reader.                                                *)

\* A step that does not concern the commands.
LEMMA OthersKeepCommands ==
    ASSUME CommandInv, UNCHANGED <<script, sent, wire, calls, slimPc, have, want>>,
           mainPc' \in Early <=> mainPc \in Early
    PROVE  CommandInv'
<1>1. StreamType' /\ Flows'
  <2>1. StreamType'
    BY Zenon DEF CommandInv, StreamType
  <2> QED
    BY <2>1, FlowsKept DEF CommandInv
<1>2. \A i \in Nat : ReadingAt(i)' <=> ReadingAt(i)
  BY DEF ReadingAt, CalledUpTo, CalledFor, Reads, Coming, After, Size
<1> QED
  BY <1>1, <1>2 DEF CommandInv

LEMMA LmsKeepsCommands ==
    ASSUME CommandInv, LmsCommands
    PROVE  CommandInv'
<1>1. /\ mainPc = "up" /\ sent' = sent + 1 /\ sent \in Nat
      /\ UNCHANGED <<script, slimPc, have, want, calls, mainPc>>
  BY DEF LmsCommands, reader, CommandInv, StreamType
<1>2. slimPc # "none"
  BY <1>1 DEF CommandInv, Early
<1>3. StreamType' /\ Flows' /\ Coming(1)' = Coming(1)
  BY LmsExtends DEF CommandInv
<1>4. PICK i \in Nat : ReadingAt(i)
  BY <1>2 DEF CommandInv
<1>5. /\ CalledUpTo(i)' <=> CalledUpTo(i)
      /\ CalledUpTo(i - 1)' <=> CalledUpTo(i - 1)
      /\ \A a, n : Reads(i, a, n)' <=> Reads(i, a, n)
      /\ \A j : After(i, j)' = After(i, j)
  BY <1>1 DEF CalledUpTo, CalledFor, Reads, After, Size
<1>6. /\ i \in 1..sent => i \in 1..sent'
      /\ i \in 0..sent => i \in 0..sent'
      /\ i \in 1..(sent + 1) => i \in 1..(sent' + 1)
  BY <1>1
<1>7. ReadingAt(i)'
  BY <1>1, <1>3, <1>4, <1>5, <1>6, Zenon DEF ReadingAt
<1> QED
  BY <1>1, <1>2, <1>3, <1>7 DEF CommandInv

\* One recv for frame i, of which b pieces are read before this part.
LEMMA RecvReads ==
    ASSUME StreamType, Flows, Recv, NEW i \in 1..sent, NEW b \in Nat, NEW m \in Nat,
           Reads(i, b, m), b + m <= Size(i),
           want > 0 => Coming(1) = <<i, b + Len(have) + 1>>
    PROVE  /\ StreamType' /\ Flows' /\ Reads(i, b, m)' /\ Len(have') >= Len(have)
           /\ Len(have') >= 1 /\ b + Len(have') <= b + m
           /\ Coming(1)' = After(i, b + Len(have'))
<1>1. PICK n \in 1..want :
             /\ n <= Len(wire)
             /\ wire' = SubSeq(wire, n + 1, Len(wire))
             /\ have' = have \o SubSeq(wire, 1, n)
             /\ want' = IF n = want THEN 0 ELSE want - n
  BY DEF Recv, ReadsAll
<1>2. UNCHANGED <<script, sent, slimPc, calls>>
  BY DEF Recv, ReaderStep, lms
<1>3. /\ wire \in Seq(Token) /\ have \in Seq(Token) /\ want \in Nat /\ sent \in Nat
      /\ Len(wire) \in Nat /\ Len(have) \in Nat
  BY DEF StreamType
<1>4. n \in Nat /\ n >= 1 /\ n <= want /\ want > 0 /\ n \in 1..Len(wire) /\ n \in 0..Len(wire)
  BY <1>1, <1>3
<1>5. Flows' /\ wire' \in Seq(Token) /\ Coming(1)' = Coming(n + 1)
  BY <1>1, <1>2, <1>3, <1>4, RecvShifts
<1>6. PICK h, w, z \in Nat : /\ h = Len(have) /\ z = Size(i) /\ w = want /\ n <= w
                             /\ b + m <= z /\ h + w = m
  <2>1. Size(i) \in 3..5
    BY SizeFacts
  <2>2. PICK h, w, z \in Nat : h = Len(have) /\ z = Size(i) /\ w = want
    BY <1>3, <2>1
  <2>3. h + w = m /\ b + m <= z
    BY <2>2 DEF Reads
  <2> QED
    BY <1>4, <2>2, <2>3, Zenon
<1>14. b + h \in Nat /\ (b + h) + n <= z /\ (b + h) + n = b + (h + n) /\ h + n \in Nat
       /\ h + n >= h /\ h + n >= 1 /\ b + (h + n) <= b + m /\ w - n \in Nat /\ (h + n) + (w - n) = m
  <2>1. n \in Nat /\ n >= 1
    BY <1>4
  <2>2. n <= w /\ b + m <= z /\ h + w = m
    BY <1>6
  <2> QED
    BY <2>1, <2>2
<1>7. /\ \A k \in 1..n : wire[k] = <<i, (b + h) + k>>
      /\ Coming(n + 1) = After(i, (b + h) + n)
  <2>1. Coming(1) = <<i, (b + h) + 1>>
    BY <1>4, <1>6
  <2>2. (b + h) + n <= Size(i) /\ b + h \in Nat
    BY <1>6, <1>14, Zenon
  <2> QED
    BY <1>4, <2>1, <2>2, NextPieces, Zenon
<1>8. /\ have' \in Seq(Token) /\ Len(have') = h + n
      /\ \A j \in 1..h : have'[j] = have[j]
      /\ \A k \in 1..n : have'[h + k] = wire[k]
  <2> DEFINE more == SubSeq(wire, 1, n)
  <2>1. more \in Seq(Token) /\ Len(more) = n /\ \A k \in 1..n : more[k] = wire[k]
    BY <1>3, <1>4, FirstPart, Zenon
  <2> HIDE DEF more
  <2>2. /\ have \o more \in Seq(Token) /\ Len(have \o more) = h + n
        /\ \A j \in 1..h : (have \o more)[j] = have[j]
        /\ \A k \in 1..n : (have \o more)[h + k] = more[k]
    <3>1. have \in Seq(Token) /\ more \in Seq(Token) /\ Len(have) = h /\ Len(more) = n
      BY <1>3, <1>6, <2>1
    <3> QED
      BY <3>1, ConcatAt
  <2>3. have' = have \o more
    BY <1>1 DEF more
  <2> QED
    BY <2>1, <2>2, <2>3, Zenon
<1>9. want' = want - n /\ want' \in Nat /\ (h + n) + want' = m
  <2>1. want' = IF n = w THEN 0 ELSE w - n
    BY <1>1, <1>6, Zenon
  <2>2. want' = w - n
    BY <1>4, <1>6, <2>1
  <2> QED
    BY <1>6, <1>14, <2>2, Zenon
<1>10. Reads(i, b, m)'
  <2>1. ASSUME NEW j \in 1..Len(have') PROVE have'[j] = <<i, b + j>>
    <3>1. CASE j \in 1..h
      BY <1>6, <1>8, <3>1 DEF Reads
    <3>2. CASE j \in (h + 1)..(h + n)
      <4>1. PICK k \in 1..n : j = h + k /\ (b + h) + k = b + j
        <5>1. j - h \in 1..n /\ j = h + (j - h) /\ (b + h) + (j - h) = b + j
          BY <1>4, <1>6, <3>2
        <5> QED
          BY <5>1
      <4> QED
        BY <1>7, <1>8, <4>1, Zenon
    <3>3. j \in 1..(h + n)
      BY <1>8, Zenon
    <3>4. h \in Nat /\ n \in Nat
      BY <1>4
    <3>5. j \in 1..h \/ j \in (h + 1)..(h + n)
      BY <3>3, <3>4
    <3> QED
      BY <3>1, <3>2, <3>5
  <2>2. Len(have') + want' = m
    BY <1>8, <1>9
  <2> QED
    BY <2>1, <2>2 DEF Reads
<1>11. Coming(1)' = After(i, b + Len(have'))
  <2>1. b + Len(have') = (b + h) + n
    BY <1>8, <1>14, Zenon
  <2> QED
    BY <1>5, <1>7, <2>1, Zenon
<1>12. StreamType'
  BY <1>2, <1>5, <1>8, <1>9 DEF StreamType
<1>13. Len(have') >= Len(have) /\ Len(have') >= 1 /\ b + Len(have') <= b + m
  BY <1>6, <1>8, <1>14, Zenon
<1> QED
  BY <1>5, <1>10, <1>11, <1>12, <1>13

\* A frame that recv returns a piece of is one that LMS has sent.
LEMMA PieceIsSent ==
    ASSUME StreamType, Flows, NEW i \in Nat, NEW j \in Nat, Coming(1) = <<i, j>>,
           wire # <<>> \/ j # 1
    PROVE  i \in 1..sent
<1>1. Len(wire) \in Nat /\ wire \in Seq(Token)
  BY DEF StreamType
<1>2. CASE wire = <<>>
  <2>1. Coming(1) = <<sent + 1, 1>>
    BY <1>2 DEF Coming
  <2> QED
    BY <1>2, <2>1
<1>3. CASE wire # <<>>
  <2>1. 1 \in 1..Len(wire) /\ Coming(1) = wire[1]
    BY <1>1, <1>3 DEF Coming
  <2>2. PICK f \in 1..sent : \E q \in 1..Size(f) : wire[1] = <<f, q>>
    BY <2>1 DEF Flows
  <2> QED
    BY <2>1, <2>2
<1> QED
  BY <1>2, <1>3

\* The end of a part: NextFrame, and what reading leaves alone.
LEMMA FrameRead ==
    ASSUME StreamType, Flows, NEW i \in 1..sent, CalledUpTo(i)', Coming(1) = <<i + 1, 1>>,
           NextFrame, UNCHANGED <<script, sent, wire>>,
           calls' \in Seq({"stream", "volume"} \X Nat), mainPc' \notin Early
    PROVE  CommandInv'
<1>1. sent \in Nat /\ (i + 1) - 1 = i /\ i + 1 \in 1..(sent + 1) /\ i + 1 \in Nat /\ i \in Nat
      /\ i \in 0..sent
  BY DEF StreamType
<1>2. slimPc' \in {"length", "ended"} /\ have' = <<>> /\ want' \in {0, 2}
  BY DEF NextFrame, Awaits
<1>3. StreamType' /\ Flows' /\ Coming(1)' = Coming(1)
  <2>1. have' \in Seq(Token) /\ want' \in Nat /\ slimPc' \in SlimPc
    BY <1>2 DEF SlimPc
  <2>2. StreamType'
    BY <2>1, Zenon DEF StreamType
  <2> QED
    BY <2>2, FlowsKept
<1>4. CASE slimPc' = "length"
  <2>1. want' = 2
    BY <1>4 DEF NextFrame, Awaits
  <2>2. Reads(i + 1, 0, 2)' /\ Len(have') + 1 = 1
    BY <1>2, <2>1 DEF Reads
  <2>3. Coming(1)' = <<i + 1, Len(have') + 1>>
    BY <1>3, <2>2
  <2>4. CalledUpTo((i + 1) - 1)'
    BY <1>1
  <2>5. ReadingAt(i + 1)'
    BY <1>1, <1>4, <2>2, <2>3, <2>4, Zenon DEF ReadingAt
  <2> QED
    BY <1>1, <1>3, <1>4, <2>5 DEF CommandInv
<1>5. CASE slimPc' = "ended"
  <2>1. ReadingAt(i)'
    BY <1>1, <1>5, Zenon DEF ReadingAt
  <2> QED
    BY <1>1, <1>3, <1>5, <2>1 DEF CommandInv
<1> QED
  BY <1>2, <1>4, <1>5

\* The same without the end of a frame: the reader is at frame i after the step.
LEMMA ReadingKept ==
    ASSUME StreamType', Flows', slimPc' # "none", mainPc' \notin Early, NEW i \in Nat, ReadingAt(i)'
    PROVE  CommandInv'
BY DEF CommandInv

\* What a step of the reader starts from.
LEMMA ReaderStarts ==
    ASSUME CommandInv, ReaderStep, slimPc # "none"
    PROVE  /\ StreamType /\ Flows /\ mainPc' \notin Early
           /\ UNCHANGED <<script, sent>> /\ sent \in Nat
           /\ \E i \in Nat : ReadingAt(i)
BY DEF CommandInv, ReaderStep, lms, StreamType

LEMMA CalledKept ==
    ASSUME UNCHANGED <<script, calls>>, NEW n, CalledUpTo(n)
    PROVE  CalledUpTo(n)'
BY DEF CalledUpTo, CalledFor

LEMMA RecvKeepsCommands ==
    ASSUME CommandInv, Recv
    PROVE  CommandInv'
<1>1. /\ slimPc \in {"length", "opcode", "payload"} /\ ReaderStep
      /\ UNCHANGED <<slimPc, calls, sending>> /\ want \in Nat /\ Len(have) \in Nat
  BY DEF Recv, CommandInv, StreamType
<1>2. /\ StreamType /\ Flows /\ mainPc' \notin Early /\ UNCHANGED <<script, sent>>
      /\ sent \in Nat /\ \E i \in Nat : ReadingAt(i)
  BY <1>1, ReaderStarts
<1>3. PICK i \in Nat : ReadingAt(i)
  BY <1>2
<1>4. wire # <<>>
  <2>1. Len(wire) > 0
    <3>1. PICK n \in 1..want : n <= Len(wire)
      BY DEF Recv
    <3> QED
      BY <1>1, <1>2, <3>1 DEF StreamType
  <2> QED
    BY <2>1
<1>5. CASE slimPc = "length"
  <2>1. /\ CalledUpTo(i - 1) /\ Reads(i, 0, 2) /\ Coming(1) = <<i, Len(have) + 1>>
    BY <1>3, <1>5 DEF ReadingAt
  <2>2. i \in 1..sent
    <3>1. Len(have) + 1 \in Nat
      BY <1>1
    <3> QED
      BY <1>2, <1>4, <2>1, <3>1, PieceIsSent
  <2>3. Size(i) \in 3..5
    BY <1>2, <2>2, SizeFacts
  <2>4. /\ StreamType' /\ Flows' /\ Reads(i, 0, 2)' /\ Len(have') <= 2
        /\ Coming(1)' = After(i, Len(have'))
    <3>1. 0 + Len(have) + 1 = Len(have) + 1 /\ 0 + 2 <= Size(i)
      BY <1>1, <2>3
    <3>2. /\ StreamType' /\ Flows' /\ Reads(i, 0, 2)' /\ 0 + Len(have') <= 0 + 2
          /\ Coming(1)' = After(i, 0 + Len(have'))
      BY <1>2, <2>1, <2>2, <3>1, RecvReads
    <3>3. Len(have') \in Nat
      BY <3>2 DEF StreamType
    <3>4. 0 + Len(have') = Len(have') /\ 0 + 2 = 2
      BY <3>3
    <3> QED
      BY <3>2, <3>4, Zenon
  <2>5. Coming(1)' = <<i, Len(have') + 1>>
    <3>1. Len(have') \in Nat
      BY <2>4 DEF StreamType
    <3>2. Len(have') < Size(i)
      BY <2>3, <2>4, <3>1
    <3> QED
      BY <2>4, <3>2 DEF After
  <2>6. i \in 1..(sent' + 1)
    BY <1>2, <2>2
  <2>7. ReadingAt(i)'
    BY <1>1, <1>2, <1>5, <2>1, <2>4, <2>5, <2>6, CalledKept, Zenon DEF ReadingAt
  <2> QED
    BY <1>1, <1>2, <1>5, <2>4, <2>7, ReadingKept
<1>6. CASE slimPc = "opcode"
  <2>1. /\ CalledUpTo(i - 1) /\ Reads(i, 2, 1) /\ Coming(1) = After(i, 2 + Len(have))
        /\ i \in 1..sent
    BY <1>3, <1>6 DEF ReadingAt
  <2>2. Size(i) \in 3..5
    BY <1>2, <2>1, SizeFacts
  <2>3. 2 + 1 <= Size(i) /\ (want > 0 => Coming(1) = <<i, 2 + Len(have) + 1>>)
    BY <1>1, <2>1, <2>2 DEF Reads, After
  <2>4. /\ StreamType' /\ Flows' /\ Reads(i, 2, 1)' /\ Coming(1)' = After(i, 2 + Len(have'))
    BY <1>2, <2>1, <2>3, RecvReads
  <2>5. Coming(1)' = After(i, 2 + Len(have))'
    BY <1>2, <2>4 DEF After, Size
  <2>6. ReadingAt(i)'
    BY <1>1, <1>2, <1>6, <2>1, <2>4, <2>5, CalledKept, Zenon DEF ReadingAt
  <2> QED
    BY <1>1, <1>2, <1>6, <2>4, <2>6, ReadingKept
<1>7. CASE slimPc = "payload"
  <2>1. /\ CalledUpTo(i - 1) /\ Reads(i, 2, 1 + PayloadOf[script[i]])
        /\ Coming(1) = After(i, 2 + Len(have)) /\ i \in 1..sent
    BY <1>3, <1>7 DEF ReadingAt
  <2>2. Size(i) \in 3..5 /\ PayloadOf[script[i]] \in 0..2
    BY <1>2, <2>1, SizeFacts
  <2>3. PICK m \in Nat : m = 1 + PayloadOf[script[i]] /\ 2 + m = Size(i)
    BY <2>2 DEF Size
  <2>4. Reads(i, 2, m)
    BY <2>1, <2>3
  <2>5. 2 + m <= Size(i) /\ (want > 0 => Coming(1) = <<i, 2 + Len(have) + 1>>)
    <3>1. Len(have) + want = m
      BY <2>4 DEF Reads
    <3> QED
      BY <1>1, <2>1, <2>2, <2>3, <3>1 DEF After
  <2>6. /\ StreamType' /\ Flows' /\ Reads(i, 2, m)' /\ Coming(1)' = After(i, 2 + Len(have'))
        /\ Len(have') >= 1
    BY <1>2, <2>1, <2>4, <2>5, RecvReads
  <2>7. Coming(1)' = After(i, 2 + Len(have))'
    BY <1>2, <2>6 DEF After, Size
  <2>8. Reads(i, 2, 1 + PayloadOf[script[i]])'
    BY <1>2, <2>3, <2>6
  <2>9. ReadingAt(i)'
    BY <1>1, <1>2, <1>7, <2>1, <2>6, <2>7, <2>8, CalledKept, Zenon DEF ReadingAt
  <2> QED
    BY <1>1, <1>2, <1>7, <2>6, <2>9, ReadingKept
<1> QED
  BY <1>1, <1>5, <1>6, <1>7

LEMMA RecvFailsKeepsCommands ==
    ASSUME CommandInv, RecvFails
    PROVE  CommandInv'
<1>1. /\ slimPc \in {"length", "opcode", "payload"} /\ ReaderStep
      /\ UNCHANGED <<wire, calls>> /\ slimPc' = "ended" /\ want' = 0 /\ have' = <<>>
  BY DEF RecvFails, Awaits
<1>2. /\ StreamType /\ Flows /\ mainPc' \notin Early /\ UNCHANGED <<script, sent>>
      /\ sent \in Nat /\ \E i \in Nat : ReadingAt(i)
  BY <1>1, ReaderStarts
<1>3. PICK i \in Nat : i \in 1..(sent + 1) /\ CalledUpTo(i - 1)
  BY <1>1, <1>2 DEF ReadingAt
<1>4. i - 1 \in 0..sent /\ i - 1 \in Nat
  BY <1>2, <1>3
<1>5. ReadingAt(i - 1)'
  BY <1>1, <1>2, <1>3, <1>4, CalledKept, Zenon DEF ReadingAt
<1>6. StreamType'
  <2>1. have' \in Seq(Token) /\ want' \in Nat /\ slimPc' \in SlimPc
    BY <1>1 DEF SlimPc
  <2> QED
    BY <1>1, <1>2, <2>1, Zenon DEF StreamType
<1>7. Flows'
  BY <1>1, <1>2, FlowsKept
<1> QED
  BY <1>1, <1>2, <1>4, <1>5, <1>6, <1>7, ReadingKept

LEMMA ReadLengthKeepsCommands ==
    ASSUME CommandInv, ReadLength
    PROVE  CommandInv'
<1>1. /\ slimPc = "length" /\ want = 0 /\ ReaderStep /\ UNCHANGED <<wire, calls>>
      /\ IF LengthOf = 0 THEN NextFrame ELSE Awaits("opcode", 1)
  BY DEF ReadLength, Complete
<1>2. /\ StreamType /\ Flows /\ mainPc' \notin Early /\ UNCHANGED <<script, sent>>
      /\ sent \in Nat /\ \E i \in Nat : ReadingAt(i)
  BY <1>1, ReaderStarts
<1>3. PICK i \in Nat : /\ CalledUpTo(i - 1) /\ Reads(i, 0, 2) /\ Coming(1) = <<i, Len(have) + 1>>
  BY <1>1, <1>2 DEF ReadingAt
<1>4. have \in Seq(Token) /\ Len(have) = 2 /\ have[1] = <<i, 1>> /\ have[2] = <<i, 2>>
  <2>1. have \in Seq(Token) /\ Len(have) \in Nat
    BY <1>2 DEF StreamType
  <2>2. Len(have) = 2
    BY <1>1, <1>3, <2>1 DEF Reads
  <2>3. have[1] = <<i, 0 + 1>> /\ have[2] = <<i, 0 + 2>>
    BY <1>3, <2>2 DEF Reads
  <2> QED
    BY <2>1, <2>2, <2>3
<1>5. i \in 1..sent /\ Coming(1) = <<i, 3>>
  <2>1. Coming(1) = <<i, 3>>
    BY <1>3, <1>4
  <2> QED
    BY <1>2, <2>1, PieceIsSent
<1>6. have = <<<<i, 1>>, <<i, 2>>>>
  BY <1>4
<1>7. Size(i) \in 3..5
  BY <1>2, <1>5, SizeFacts
<1>8. LengthOf # 0
  <2>1. Len(Frame(i)) = Size(i)
    <3>1. PICK z \in Nat : z = Size(i) /\ z = 3 + PayloadOf[script[i]]
      BY <1>7 DEF Size
    <3>2. Frame(i) = [j \in 1..z |-> <<i, j>>]
      BY <3>1 DEF Frame
    <3>3. Len([j \in 1..z |-> <<i, j>>]) = z
      OBVIOUS
    <3> QED
      BY <3>1, <3>2, <3>3
  <2>2. LengthOf = Len(Frame(have[1][1])) - 2
    BY <1>5, <1>6 DEF LengthOf
  <2>3. have[1][1] = i
    BY <1>4
  <2> QED
    BY <1>7, <2>1, <2>2, <2>3
<1>9. slimPc' = "opcode" /\ want' = 1 /\ have' = <<>>
  BY <1>1, <1>8 DEF Awaits
<1>10. Reads(i, 2, 1)' /\ Len(have') = 0
  BY <1>9 DEF Reads
<1>11. Flows' /\ Coming(1)' = After(i, 2 + Len(have))'
  <2>1. Coming(1)' = <<i, 3>>
    BY <1>1, <1>2, <1>5 DEF Coming
  <2>2. After(i, 2 + Len(have))' = <<i, 3>>
    <3>1. Size(i)' = Size(i) /\ 2 + Len(have') = 2
      BY <1>2, <1>10 DEF Size
    <3> QED
      BY <1>7, <3>1 DEF After
  <2> QED
    BY <1>1, <1>2, <2>1, <2>2, FlowsKept
<1>12. StreamType'
  <2>1. have' \in Seq(Token) /\ want' \in Nat /\ slimPc' \in SlimPc
    BY <1>9 DEF SlimPc
  <2> QED
    BY <1>1, <1>2, <2>1, Zenon DEF StreamType
<1>13. ReadingAt(i)'
  <2>1. i \in 1..sent' /\ CalledUpTo(i - 1)'
    BY <1>1, <1>2, <1>3, <1>5, CalledKept
  <2> QED
    BY <1>9, <1>10, <1>11, <2>1, Zenon DEF ReadingAt
<1> QED
  BY <1>2, <1>9, <1>11, <1>12, <1>13, ReadingKept

LEMMA ReadOpcodeKeepsCommands ==
    ASSUME CommandInv, ReadOpcode
    PROVE  CommandInv'
<1>1. /\ slimPc = "opcode" /\ want = 0 /\ ReaderStep /\ UNCHANGED <<wire, calls, have>>
      /\ slimPc' = "payload" /\ want' = PayloadOf[script[have[1][1]]]
  BY DEF ReadOpcode, Complete
<1>2. /\ StreamType /\ Flows /\ mainPc' \notin Early /\ UNCHANGED <<script, sent>>
      /\ sent \in Nat /\ \E i \in Nat : ReadingAt(i)
  BY <1>1, ReaderStarts
<1>3. PICK i \in 1..sent : /\ CalledUpTo(i - 1) /\ Reads(i, 2, 1)
                           /\ Coming(1) = After(i, 2 + Len(have))
  BY <1>1, <1>2 DEF ReadingAt
<1>4. Len(have) = 1 /\ have[1] = <<i, 3>>
  <2>1. Len(have) \in Nat
    BY <1>2 DEF StreamType
  <2>2. Len(have) = 1
    BY <1>1, <1>3, <2>1 DEF Reads
  <2>3. have[1] = <<i, 2 + 1>>
    BY <1>3, <2>2 DEF Reads
  <2> QED
    BY <2>2, <2>3
<1>5. want' = PayloadOf[script[i]] /\ PayloadOf[script[i]] \in 0..2
  <2>1. have[1][1] = i
    BY <1>4
  <2> QED
    BY <1>1, <1>2, <2>1, SizeFacts
<1>6. Reads(i, 2, 1 + PayloadOf[script[i]])'
  <2>1. Len(have') + want' = 1 + PayloadOf[script'[i]]
    BY <1>1, <1>2, <1>4, <1>5
  <2> QED
    BY <1>1, <1>3, <2>1 DEF Reads
<1>7. Flows' /\ Coming(1)' = After(i, 2 + Len(have))'
  <2>1. Flows' /\ Coming(1)' = Coming(1) /\ \A k, l : After(k, l)' = After(k, l)
    BY <1>1, <1>2, FlowsKept
  <2>2. After(i, 2 + Len(have))' = After(i, 2 + Len(have))
    BY <1>1, <1>2 DEF After, Size
  <2> QED
    BY <1>3, <2>1, <2>2
<1>8. StreamType'
  <2>1. want' \in Nat /\ slimPc' \in SlimPc
    BY <1>1, <1>5 DEF SlimPc
  <2> QED
    BY <1>1, <1>2, <2>1, Zenon DEF StreamType
<1>9. ReadingAt(i)' /\ i \in Nat
  <2>1. i \in Nat /\ i \in 1..sent' /\ CalledUpTo(i - 1)' /\ Len(have') >= 1
    BY <1>1, <1>2, <1>3, <1>4, CalledKept
  <2> QED
    BY <1>1, <1>6, <1>7, <2>1, Zenon DEF ReadingAt
<1> QED
  BY <1>1, <1>2, <1>7, <1>8, <1>9, ReadingKept

\* The callback of frame i, after those of the frames before it.
LEMMA CalledGrows ==
    ASSUME StreamType, NEW i \in 1..sent, CalledUpTo(i - 1), script' = script,
           calls' = IF script[i] \in DOMAIN CallbackOf
                    THEN Append(calls, <<CallbackOf[script[i]], i>>) ELSE calls
    PROVE  CalledUpTo(i)' /\ calls' \in Seq({"stream", "volume"} \X Nat)
<1> DEFINE Call == {"stream", "volume"} \X Nat
           called == script[i] \in DOMAIN CallbackOf
           e == <<CallbackOf[script[i]], i>>
<1>1. calls \in Seq(Call) /\ Len(calls) \in Nat /\ i \in Nat
  BY DEF StreamType
<1>2. ToSet(calls) = CalledFor(i - 1)
  BY DEF CalledUpTo
<1>3. 1..i = 1..(i - 1) \cup {i}
  BY <1>1
<1>4. CalledFor(i) = CalledFor(i - 1) \cup (IF called THEN {e} ELSE {})
  BY <1>3 DEF CalledFor
<1>5. CalledFor(i)' = CalledFor(i)
  BY DEF CalledFor
<1>6. CASE ~called
  <2>1. calls' = calls
    BY <1>6
  <2> QED
    BY <1>1, <1>2, <1>4, <1>5, <1>6, <2>1 DEF CalledUpTo
<1>7. CASE called
  <2>1. e \in Call
    BY <1>1, <1>7 DEF CallbackOf
  <2>2. calls' = Append(calls, e)
    BY <1>7
  <2> HIDE DEF e
  <2>3. /\ calls' \in Seq(Call) /\ Len(calls') = Len(calls) + 1
        /\ \A k \in 1..Len(calls) : calls'[k] = calls[k]
        /\ calls'[Len(calls) + 1] = e
    BY <1>1, <2>1, <2>2
  <2>4. /\ DOMAIN calls' = 1..(Len(calls) + 1) /\ DOMAIN calls = 1..Len(calls)
        /\ 1..(Len(calls) + 1) = 1..Len(calls) \cup {Len(calls) + 1}
    BY <1>1, <2>3
  <2>5. ToSet(calls') = ToSet(calls) \cup {e}
    BY <2>3, <2>4 DEF ToSet
  <2>6. ToSet(calls)' = CalledFor(i)'
    BY <1>2, <1>4, <1>5, <1>7, <2>5
  <2>7. \A k \in DOMAIN calls : calls[k][2] \in 1..(i - 1)
    <3> SUFFICES ASSUME NEW k \in DOMAIN calls PROVE calls[k][2] \in 1..(i - 1)
      OBVIOUS
    <3>1. calls[k] \in CalledFor(i - 1)
      BY <1>2 DEF ToSet
    <3> QED
      BY <3>1 DEF CalledFor
  <2>8. e[2] = i
    BY DEF e
  <2>9. \A k, l \in DOMAIN calls' : k < l => calls'[k][2] < calls'[l][2]
    <3> SUFFICES ASSUME NEW k \in DOMAIN calls', NEW l \in DOMAIN calls', k < l
                 PROVE  calls'[k][2] < calls'[l][2]
      OBVIOUS
    <3>1. k \in 1..Len(calls)
      BY <1>1, <2>4
    <3>2. CASE l \in 1..Len(calls)
      BY <2>3, <2>4, <3>1, <3>2 DEF CalledUpTo
    <3>3. CASE l = Len(calls) + 1
      <4>1. calls'[k] = calls[k] /\ calls'[l] = e
        BY <2>3, <3>1, <3>3
      <4>2. calls[k][2] \in 1..(i - 1)
        BY <2>4, <2>7, <3>1
      <4>3. calls[k][2] < i
        BY <1>1, <4>2
      <4> QED
        BY <2>8, <4>1, <4>3
    <3> QED
      BY <2>4, <3>2, <3>3
  <2> QED
    BY <2>3, <2>6, <2>9 DEF CalledUpTo
<1> QED
  BY <1>6, <1>7

LEMMA DispatchKeepsCommands ==
    ASSUME CommandInv, Dispatch
    PROVE  CommandInv'
<1>1. slimPc = "payload" /\ want = 0 /\ ReaderStep /\ UNCHANGED wire
  BY DEF Dispatch, Complete
<1>2. /\ StreamType /\ Flows /\ mainPc' \notin Early /\ UNCHANGED <<script, sent>>
      /\ sent \in Nat /\ \E i \in Nat : ReadingAt(i)
  BY <1>1, ReaderStarts
<1>3. PICK i \in 1..sent : /\ CalledUpTo(i - 1) /\ Reads(i, 2, 1 + PayloadOf[script[i]])
                           /\ Coming(1) = After(i, 2 + Len(have)) /\ Len(have) >= 1
  BY <1>1, <1>2 DEF ReadingAt
<1>4. have[1][1] = i
  <2>1. Len(have) \in Nat
    BY <1>2 DEF StreamType
  <2>2. have[1] = <<i, 2 + 1>>
    BY <1>3, <2>1 DEF Reads
  <2> QED
    BY <2>2
<1>5. Coming(1) = <<i + 1, 1>>
  <2>1. PayloadOf[script[i]] \in 0..2
    BY <1>2, SizeFacts
  <2>2. Len(have) \in Nat
    BY <1>2 DEF StreamType
  <2>3. 2 + Len(have) = Size(i)
    BY <1>1, <1>3, <2>1, <2>2 DEF Reads, Size
  <2>4. ~(2 + Len(have) < Size(i))
    BY <2>2, <2>3
  <2> QED
    BY <1>3, <2>4 DEF After
<1>6. script[i] \in DOMAIN PayloadOf
  BY <1>2, SizeFacts
<1>7. /\ calls' = IF script[i] \in DOMAIN CallbackOf
                  THEN Append(calls, <<CallbackOf[script[i]], i>>) ELSE calls
      /\ \/ slimPc' = "answer" /\ UNCHANGED <<have, want>>
         \/ NextFrame
  <2>1. /\ script[i] \in DOMAIN CallbackOf <=> script[i] \in {"strm", "audg"}
        /\ CallbackOf["strm"] = "stream" /\ CallbackOf["audg"] = "volume"
    BY DEF CallbackOf
  <2>2. /\ calls' = CASE script[i] = "strm" -> Append(calls, <<"stream", i>>)
                      [] script[i] = "audg" -> Append(calls, <<"volume", i>>)
                      [] OTHER              -> calls
        /\ \/ slimPc' = "answer" /\ UNCHANGED <<have, want>>
           \/ NextFrame
    BY <1>4 DEF Dispatch, KindOf
  <2>3. CASE script[i] = "strm"
    BY <2>1, <2>2, <2>3
  <2>4. CASE script[i] = "audg"
    BY <2>1, <2>2, <2>4
  <2>5. CASE script[i] \notin {"strm", "audg"}
    BY <2>1, <2>2, <2>5
  <2> QED
    BY <2>3, <2>4, <2>5
<1>8. CalledUpTo(i)' /\ calls' \in Seq({"stream", "volume"} \X Nat)
  BY <1>2, <1>3, <1>7, CalledGrows
<1>9. CASE slimPc' = "answer" /\ UNCHANGED <<have, want>>
  <2>1. Flows' /\ Coming(1)' = <<i + 1, 1>>
    BY <1>1, <1>2, <1>5, FlowsKept
  <2>2. StreamType'
    <3>1. slimPc' \in SlimPc
      BY <1>9 DEF SlimPc
    <3> QED
      BY <1>1, <1>2, <1>8, <1>9, <3>1, Zenon DEF StreamType
  <2>3. i \in Nat /\ i \in 1..sent'
    BY <1>2
  <2>4. ReadingAt(i)'
    BY <1>8, <1>9, <2>1, <2>3, Zenon DEF ReadingAt
  <2> QED
    BY <1>2, <1>9, <2>1, <2>2, <2>3, <2>4, ReadingKept
<1>10. CASE NextFrame
  BY <1>1, <1>2, <1>5, <1>8, <1>10, FrameRead
<1> QED
  BY <1>7, <1>9, <1>10

LEMMA AnsweredKeepsCommands ==
    ASSUME CommandInv, Answered
    PROVE  CommandInv'
<1>1. slimPc = "answer" /\ ReaderStep /\ NextFrame /\ UNCHANGED <<wire, calls>>
  BY DEF Answered
<1>2. /\ StreamType /\ Flows /\ mainPc' \notin Early /\ UNCHANGED <<script, sent>>
      /\ sent \in Nat /\ \E i \in Nat : ReadingAt(i)
  BY <1>1, ReaderStarts
<1>3. PICK i \in 1..sent : CalledUpTo(i) /\ Coming(1) = <<i + 1, 1>>
  BY <1>1, <1>2 DEF ReadingAt
<1>4. CalledUpTo(i)' /\ calls' \in Seq({"stream", "volume"} \X Nat)
  BY <1>1, <1>2, <1>3, CalledKept DEF StreamType
<1> QED
  BY <1>1, <1>2, <1>3, <1>4, FrameRead

LEMMA StartRunKeepsCommands ==
    ASSUME CommandInv, StartRun
    PROVE  CommandInv'
<1>1. /\ mainPc = "name" /\ mainPc' = "up" /\ slimPc' = "length" /\ want' = 2 /\ have' = <<>>
      /\ UNCHANGED <<script, sent, wire, calls>>
  BY DEF StartRun, MainGoes, Awaits, lms
<1>2. sent = 0 /\ wire = <<>> /\ calls = <<>>
  BY <1>1 DEF CommandInv, Early
<1>3. StreamType' /\ Flows'
  <2>1. have' \in Seq(Token) /\ want' \in Nat /\ slimPc' \in SlimPc
    BY <1>1 DEF SlimPc
  <2>2. StreamType'
    BY <1>1, <2>1, Zenon DEF StreamType, CommandInv
  <2> QED
    BY <1>1, <1>2, <2>2 DEF Flows
<1>4. ReadingAt(1)'
  <2>1. Reads(1, 0, 2)' /\ Coming(1)' = <<1, Len(have') + 1>>
    BY <1>1, <1>2 DEF Reads, Coming
  <2>2. CalledUpTo(1 - 1)'
    BY <1>1, <1>2 DEF CalledUpTo, CalledFor, ToSet
  <2> QED
    BY <1>1, <1>2, <2>1, <2>2 DEF ReadingAt
<1> QED
  BY <1>1, <1>3, <1>4 DEF CommandInv, Early

LEMMA CommandInvInit == SlimInit => CommandInv
<1> SUFFICES ASSUME SlimInit PROVE CommandInv
  OBVIOUS
<1>1. script \in Seq(DOMAIN PayloadOf)
  BY ScriptsAssumption DEF SlimInit
<1>2. StreamType
  <2>1. 0 \in 0..Len(script)
    BY <1>1
  <2> QED
    BY <1>1, <2>1 DEF SlimInit, StreamType, SlimPc
<1> QED
  <2>1. mainPc = "connect" /\ slimPc = "none" /\ sent = 0 /\ wire = <<>> /\ calls = <<>>
    BY DEF SlimInit
  <2>2. Flows
    BY <2>1 DEF Flows
  <2> QED
    BY <1>2, <2>1, <2>2 DEF CommandInv, Early

LEMMA CommandInvStep == CommandInv /\ [SlimNext]_slimVars => CommandInv'
<1> SUFFICES ASSUME CommandInv, [SlimNext]_slimVars
             PROVE  CommandInv'
  OBVIOUS
<1>1. CASE LmsCommands
  BY <1>1, LmsKeepsCommands
<1>2. CASE SlimThread
  BY <1>2, RecvKeepsCommands, RecvFailsKeepsCommands, ReadLengthKeepsCommands,
     ReadOpcodeKeepsCommands, DispatchKeepsCommands, AnsweredKeepsCommands DEF SlimThread
<1>3. CASE StartRun
  BY <1>3, StartRunKeepsCommands
<1>4. CASE LmsCloses \/ Parts \/ SendStat
  <2>1. UNCHANGED <<script, sent, wire, calls, slimPc, have, want, mainPc>>
    BY <1>4, Zenon DEF LmsCloses, Parts, Part, SendStat, lms, reader
  <2> QED
    BY <2>1, OthersKeepCommands
<1>5. CASE OpenLink \/ SendHelo \/ SendName \/ SendBye \/ CloseLink
  <2>1. /\ UNCHANGED <<script, sent, wire, calls, slimPc, have, want>>
        /\ <<mainPc, mainPc'>> \in {<<"connect", "connected">>, <<"connected", "helo">>,
             <<"helo", "name">>, <<"up", "bye">>, <<"bye", "closed">>, <<"up", "closed">>}
    BY <1>5, Zenon DEF OpenLink, SendHelo, SendName, SendBye, CloseLink, MainSends, MainGoes, lms
  <2>2. mainPc' \in Early <=> mainPc \in Early
    BY <2>1 DEF Early
  <2> QED
    BY <2>1, <2>2, OthersKeepCommands
<1>6. CASE UNCHANGED slimVars
  BY <1>6, OthersKeepCommands DEF slimVars, lms, reader
<1> QED
  BY <1>1, <1>2, <1>3, <1>4, <1>5, <1>6 DEF SlimNext, MainThread

\* However recv cuts the stream, the callbacks see exactly LMS's commands, each
\* once and in order, and all of them once everything sent is read: for every
\* script (SlimprotoClient.cpp:140-181, 505-519).
THEOREM CommandsAlwaysInOrder == SlimSpec => []CommandsInOrder
<1>1. CommandInv => CommandsInOrder
  <2> SUFFICES ASSUME CommandInv PROVE CommandsInOrder
    OBVIOUS
  <2>0. StreamType /\ sent \in Nat /\ Len(have) \in Nat /\ want \in Nat
    BY DEF CommandInv, StreamType
  <2>1. CASE slimPc = "none"
    <3>1. ToSet(calls) = CalledFor(0) /\ DOMAIN calls = {} /\ sent = 0
      BY <2>1 DEF CommandInv, ToSet, CalledFor
    <3> QED
      BY <2>1, <3>1 DEF CommandsInOrder
  <2>2. CASE slimPc # "none"
    <3>1. PICK i \in Nat : ReadingAt(i)
      BY <2>2 DEF CommandInv
    <3>2. \E n \in 0..sent : CalledUpTo(n)
      <4>1. \/ i \in 1..(sent + 1) /\ CalledUpTo(i - 1)
            \/ i \in 0..sent /\ CalledUpTo(i)
        BY <2>0, <3>1 DEF ReadingAt
      <4>2. i \in 1..(sent + 1) => i - 1 \in 0..sent
        BY <2>0
      <4> QED
        BY <4>1, <4>2
    <3>3. ASSUME wire = <<>>, slimPc = "length", want = 2
          PROVE  CalledUpTo(sent)
      <4>1. CalledUpTo(i - 1) /\ Coming(1) = <<i, Len(have) + 1>>
        BY <3>1, <3>3 DEF ReadingAt
      <4>2. Coming(1) = <<sent + 1, 1>>
        BY <3>3 DEF Coming
      <4>3. i - 1 = sent
        BY <2>0, <4>1, <4>2
      <4> QED
        BY <4>1, <4>3
    <3> QED
      BY <3>2, <3>3 DEF CalledUpTo, CommandsInOrder
  <2> QED
    BY <2>1, <2>2
<1> QED
  BY <1>1, CommandInvInit, CommandInvStep, PTL DEF SlimSpec
=============================================================================
