--------------------------- MODULE SlimprotoClient ----------------------------
(***************************************************************************)
(* One session with LMS over the Slimproto connection.                     *)
(*   - LMS sends frames: a length of two bytes, an opcode, a payload.  TCP *)
(*     delivers them cut anywhere.                                         *)
(*   - The Slimproto thread reads whole frames and dispatches them.        *)
(*   - Frames to LMS are sent by three threads: the main thread (HELO,     *)
(*     SETD, BYE!), the Slimproto thread (answers) and the audio thread    *)
(*     (STAT); send() may take a part of a frame at a time.                *)
(* A token stands for a piece that recv or send may cut off: <<i, j>> is   *)
(* the j-th of the i-th frame of LMS.                                      *)
(***************************************************************************)
EXTENDS Naturals, SequencesExt

CONSTANTS Scripts,      \* what LMS sends in a session: sequences of kinds
          MaxEvents     \* bound: STATs the audio thread sends

\* The tokens of a payload.
PayloadOf == [status |-> 1, strm |-> 2, badStrm |-> 1, audg |-> 1,
              nameQuery |-> 1, other |-> 0]

ASSUME ScriptsAssumption == Scripts \subseteq Seq(DOMAIN PayloadOf)

Senders == {"main", "slim", "audio"}
NoPart  == <<"none", <<>>, 2>>
Idle    == [event |-> <<>>, part |-> 0]

VARIABLES
    script,     \* what LMS sends in this session
    sent,       \* how many frames of it are sent
    wire,       \* tokens under way to the bridge
    slimPc,     \* where SlimprotoClient::run is
    have,        \* what readExact has so far
    want,       \* what it still waits for
    calls,      \* the callbacks made: <<callback, frame>>
    link,       \* m_socket: "none", "open", "eof" (LMS has closed), "shut"
    receiving,  \* m_running
    mainPc,     \* where the main thread is
    sending,    \* per thread: the frame it sends and the part it is at
    received,   \* the last part LMS has received: <<thread, event, part>>
    answered,   \* the last frame whose answer LMS has received
    events      \* STATs of the audio thread so far

lms      == <<script, sent>>
reader   == <<slimPc, have, want, calls>>
outgoing == <<sending, received, answered, events>>
slimVars == <<lms, wire, reader, link, receiving, mainPc, outgoing>>

SlimInit ==
    /\ script \in Scripts /\ sent = 0 /\ wire = <<>>
    /\ slimPc = "none" /\ have = <<>> /\ want = 0 /\ calls = <<>>
    /\ link = "none" /\ receiving = FALSE
    /\ mainPc = "connect"
    /\ sending = [t \in Senders |-> Idle] /\ received = NoPart /\ answered = 0
    /\ events = 0

-----------------------------------------------------------------------------
(* sendMessage: a frame is sent under m_sendMutex, in two parts.           *)

\* Slip: frames are sent without the mutex.
AnyoneMaySend == TRUE

MaySend == \A t \in Senders : sending[t] = Idle

\* t begins to send a frame; elsewhere a thread sends when it is not Idle.
Sends(t, event) ==
    /\ MaySend
    /\ sending' = [sending EXCEPT ![t] = [event |-> event, part |-> 1]]

\* One send(): it takes a part, or fails and with it sendAll.
Part(t) ==
    LET frame == sending[t]
    IN  /\ frame # Idle
        /\ IF link = "open"
           THEN /\ received' = <<t, frame.event, frame.part>>
                /\ answered' = IF t = "slim" /\ frame.part = 2 THEN frame.event[2] ELSE answered
                /\ sending' = [sending EXCEPT ![t] =
                                 IF frame.part = 2 THEN Idle ELSE [@ EXCEPT !.part = 2]]
           ELSE sending' = [sending EXCEPT ![t] = Idle] /\ UNCHANGED <<received, answered>>
        /\ UNCHANGED <<lms, wire, reader, link, receiving, mainPc, events>>

-----------------------------------------------------------------------------
(* LMS.                                                                    *)

Frame(i) == [j \in 1..(3 + PayloadOf[script[i]]) |-> <<i, j>>]

LmsCommands ==
    /\ link = "open" /\ mainPc = "up" /\ sent < Len(script)
    /\ sent' = sent + 1
    /\ wire' = wire \o Frame(sent + 1)
    /\ UNCHANGED <<script, reader, link, receiving, mainPc, outgoing>>
LmsCloses ==
    /\ link = "open" /\ link' = "eof"
    /\ UNCHANGED <<lms, wire, reader, receiving, mainPc, outgoing>>

-----------------------------------------------------------------------------
(* SlimprotoClient::run.                                                   *)

ReaderStep == UNCHANGED <<lms, link, receiving, mainPc, received, answered, events>>

\* run() goes on to read n tokens for its part pc.
Awaits(pc, n) == slimPc' = pc /\ want' = n /\ have' = <<>>

\* The loop's test of m_running.
NextFrame == IF receiving THEN Awaits("length", 2) ELSE Awaits("ended", 0)

\* Slip: what one recv returns is taken for all that was asked for.
ReadsEnough(n) == n >= 1

ReadsAll(n) == n = want

\* recv: some of what has come, up to what is wanted.
Recv ==
    /\ ReaderStep
    /\ slimPc \in {"length", "opcode", "payload"}
    /\ \E n \in 1..want :
         /\ n <= Len(wire)
         /\ wire' = SubSeq(wire, n + 1, Len(wire))
         /\ have' = have \o SubSeq(wire, 1, n)
         /\ want' = IF ReadsAll(n) THEN 0 ELSE want - n
    /\ UNCHANGED <<slimPc, calls, sending>>
\* No more will come.
RecvFails ==
    /\ ReaderStep
    /\ slimPc \in {"length", "opcode", "payload"} /\ want > 0
    /\ link = "shut" \/ (link = "eof" /\ wire = <<>>)
    /\ Awaits("ended", 0)
    /\ UNCHANGED <<wire, calls, sending>>

\* The frame whose length, opcode or payload was read, 0 for what is none.
Complete(pc) == slimPc = pc /\ want = 0 /\ ReaderStep /\ UNCHANGED wire
LengthOf == IF have \in {<<<<i, 1>>, <<i, 2>>>> : i \in 1..sent}
            THEN Len(Frame(have[1][1])) - 2 ELSE 0

ReadLength ==
    /\ Complete("length")
    /\ IF LengthOf = 0 THEN NextFrame ELSE Awaits("opcode", 1)
    /\ UNCHANGED <<calls, sending>>
ReadOpcode ==
    /\ Complete("opcode")
    /\ LET payload == PayloadOf[script[have[1][1]]]
       IN  slimPc' = "payload" /\ want' = payload /\ UNCHANGED have
    /\ UNCHANGED <<calls, sending>>

\* Slip: a status request goes to the stream callback like the others.
KindAsStrm(kind) == IF kind = "status" THEN "strm" ELSE kind

KindOf(kind) == kind

\* processServerMessage: a callback, an answer, or nothing.
Dispatch ==
    /\ Complete("payload")
    /\ LET i    == have[1][1]
           kind == KindOf(script[i])
       IN  /\ calls' = CASE kind = "strm" -> Append(calls, <<"stream", i>>)
                         [] kind = "audg" -> Append(calls, <<"volume", i>>)
                         [] OTHER         -> calls
           /\ IF kind \in {"status", "nameQuery"}
              THEN Sends("slim", <<kind, i>>) /\ slimPc' = "answer" /\ UNCHANGED <<have, want>>
              ELSE NextFrame /\ UNCHANGED sending
Answered ==
    /\ slimPc = "answer" /\ sending["slim"] = Idle
    /\ ReaderStep /\ NextFrame
    /\ UNCHANGED <<wire, calls, sending>>

-----------------------------------------------------------------------------
(* The audio thread's STATs, and the main thread.                          *)

SendStat ==
    /\ events < MaxEvents /\ link # "none"
    /\ sending["audio"] = Idle
    /\ Sends("audio", <<"STAT">>) /\ events' = events + 1
    /\ UNCHANGED <<lms, wire, reader, link, receiving, mainPc, received, answered>>

MainGoes(from, to) ==
    mainPc = from /\ mainPc' = to /\ UNCHANGED <<lms, wire, calls, received, answered, events>>
MainSends(from, event, to) ==
    /\ MainGoes(from, to) /\ Sends("main", event)
    /\ UNCHANGED <<slimPc, have, want, link, receiving>>

OpenLink ==
    /\ MainGoes("connect", "connected")
    /\ link' = "open"
    /\ UNCHANGED <<slimPc, have, want, receiving, sending>>
SendHelo == MainSends("connected", <<"HELO">>, "helo")
SendName == sending["main"] = Idle /\ MainSends("helo", <<"SETD">>, "name")
StartRun ==
    /\ sending["main"] = Idle
    /\ MainGoes("name", "up")
    /\ receiving' = TRUE /\ Awaits("length", 2)
    /\ UNCHANGED <<link, sending>>
\* disconnect(): BYE! while the session is up, then the socket is shut.
SendBye == slimPc # "ended" /\ MainSends("up", <<"BYE!">>, "bye")
CloseLink ==
    /\ sending["main"] = Idle
    /\ MainGoes("bye", "closed") \/ (slimPc = "ended" /\ MainGoes("up", "closed"))
    /\ receiving' = FALSE /\ link' = "shut"
    /\ UNCHANGED <<slimPc, have, want, sending>>

-----------------------------------------------------------------------------
SlimThread == Recv \/ RecvFails \/ ReadLength \/ ReadOpcode \/ Dispatch \/ Answered
MainThread == OpenLink \/ SendHelo \/ SendName \/ StartRun \/ CloseLink
Parts      == \E t \in Senders : Part(t)
SlimNext   == LmsCommands \/ LmsCloses \/ SlimThread \/ MainThread \/ SendBye \/ Parts \/ SendStat

\* The threads go on, and LMS takes what is sent.  A mutex is not fair, so one
\* that waits for m_sendMutex gets it only once the others stop asking; after
\* MaxEvents STATs they do.  When to disconnect is open.
SlimFairness ==
    WF_slimVars(SlimThread) /\ WF_slimVars(MainThread) /\ WF_slimVars(Parts)
SlimSpec == SlimInit /\ [][SlimNext]_slimVars /\ SlimFairness

-----------------------------------------------------------------------------
(* Properties.                                                             *)

\* The callbacks that the first n frames call for.
CallbackOf   == [strm |-> "stream", audg |-> "volume"]
CalledFor(n) ==
    { <<CallbackOf[script[i]], i>> : i \in { f \in 1..n : script[f] \in DOMAIN CallbackOf } }

\* However recv cuts the stream, the callbacks see exactly LMS's commands, each
\* once and in order, and all of them once everything sent is read
\* (SlimprotoClient.cpp:140-181, 505-519).
CommandsInOrder ==
    /\ \E n \in 0..sent : ToSet(calls) = CalledFor(n)
    /\ \A k, l \in DOMAIN calls : k < l => calls[k][2] < calls[l][2]
    /\ (wire = <<>> /\ slimPc = "length" /\ want = 2) => ToSet(calls) = CalledFor(sent)

\* What LMS receives is whole frames one after the other, whatever the three
\* threads send at once; only the last may be cut off (SlimprotoClient.cpp:
\* 537-552).
FramesWhole ==
    [][received' # received =>
         IF received[3] = 2 THEN received'[3] = 1
         ELSE received' = [received EXCEPT ![3] = 2]]_slimVars

\* Every status request LMS sent is answered while the connection stands,
\* whatever else it sent before and whoever else sends (SlimprotoClient.cpp:
\* 287-303).
HeartbeatAnswered ==
    \A i \in UNION { DOMAIN s : s \in Scripts } :
        (i <= sent /\ script[i] = "status")
            ~> (link # "open" \/ answered >= i)
=============================================================================
