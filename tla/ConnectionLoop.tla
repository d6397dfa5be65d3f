---------------------------- MODULE ConnectionLoop ----------------------------
(***************************************************************************)
(* The main thread's connection loop and what it drives: it waits for the  *)
(* renderer, registers with LMS, watches both, and takes the player        *)
(* offline when the renderer is lost.  It runs beside the Slimproto thread *)
(* (one per connection), the watchdog and libupnp's threads                *)
(* (UPnPController), and a signal that asks it to end.                     *)
(***************************************************************************)
EXTENDS UPnPController

VARIABLES
    mainPc,     \* where the main thread is
    slimPc,     \* where the Slimproto thread is
    sock,       \* m_socket: "none", "open", "eof" (LMS has closed), "shut"
    connected,  \* m_connected
    again       \* connectionCount > 0

session  == <<slimPc, sock, connected>>
loopVars == <<mainPc, session, again>>
vars     == <<upnpVars, loopVars>>

\* LMS lists the player as long as its connection is up.
registered == sock = "open"

Init ==
    /\ UpnpInit
    /\ mainPc = "startup" /\ again = FALSE
    /\ slimPc = "none" /\ sock = "none" /\ connected = FALSE

-----------------------------------------------------------------------------
(* The main thread.                                                        *)

MainGoes(from, to) == mainPc = from /\ mainPc' = to
MainOnly(from, to) == MainGoes(from, to) /\ UNCHANGED <<upnpVars, session>>
RestOfUpnp == <<network, request, running, readiness, bound, search, lock, reviving>>

\* The renderer was not found and the program ends, or the watchdog starts.
GiveUp == MainOnly("startup", "exit") /\ finderPc = "gaveUp" /\ UNCHANGED again
StartWatchdog ==
    /\ MainGoes("startup", "lms") /\ finderPc = "sleep"
    /\ watching' = "yes"
    /\ UNCHANGED <<RestOfUpnp, finderPc, session, again>>

\* LMS is given or found; or the search for it is broken off.
FindLms    == MainOnly("lms", "gate") /\ UNCHANGED again
AbandonLms == MainOnly("lms", "end") /\ ~running /\ UNCHANGED again

Gate ==
    /\ MainOnly("gate", IF ~running THEN "final" ELSE IF again THEN "backoff" ELSE "connect")
    /\ running => ready
    /\ UNCHANGED again
Backoff ==
    /\ MainOnly("backoff", IF running THEN "connect" ELSE "final")
    /\ UNCHANGED again

Connect ==
    /\ MainGoes("connect", "monitor")
    /\ sock' = "open" /\ connected' = TRUE /\ slimPc' = "recv" /\ again' = TRUE
    /\ UNCHANGED upnpVars
ConnectFails ==
    /\ MainOnly("connect", "gate") /\ (settled => ~running)
    /\ again' = (again \/ running)

\* Slip: the monitor looks at LMS alone.
LostEitherLms == ~running \/ ~connected

LostEither == ~running \/ ~connected \/ ~ready
Monitor    == MainOnly("monitor", "stop") /\ LostEither /\ UNCHANGED again

\* stopAudioThread: its last call is a SOAP Stop.
MainCalls(from, during) == MainGoes(from, during) /\ SoapBegin("main") /\ UNCHANGED <<finderPc, session, again>>
MainDone(during, to) == MainGoes(during, to) /\ SoapEnd("main") /\ UNCHANGED <<finderPc, session, again>>
StopAudio     == MainCalls("stop", "stopping")
StopAudioEnd  == MainDone("stopping", "disconnect")
FinalStop     == MainCalls("final", "finalStop")
FinalStopEnd  == MainDone("finalStop", "end")

\* Slip: the socket is closed and not shut down, which wakes no reader.
CloseOnly == connected' = FALSE /\ sock' = IF sock = "open" THEN "closed" ELSE sock

CloseSession == connected' = FALSE /\ sock' = "shut"
Disconnect ==
    /\ MainGoes("disconnect", "join")
    /\ CloseSession
    /\ UNCHANGED <<upnpVars, slimPc, again>>

\* Slip: the thread is given up instead of joined.
DetachSlim == slimPc' = "none"

JoinSlim == slimPc = "ended" /\ slimPc' = "none"
Join ==
    /\ MainGoes("join", IF running THEN "gate" ELSE "final")
    /\ JoinSlim
    /\ UNCHANGED <<upnpVars, sock, connected, again>>

\* UPnPController::shutdown
StopWatchdog ==
    /\ MainGoes("end", "joinWatchdog")
    /\ watching' = "stopped"
    /\ UNCHANGED <<RestOfUpnp, finderPc, session, again>>
Exit ==
    /\ MainGoes("joinWatchdog", "exit") /\ finderPc = "off"
    /\ ready' = FALSE
    /\ UNCHANGED <<network, request, running, lostAt, bound, search, lock,
                   reviving, watching, finderPc, session, again>>

-----------------------------------------------------------------------------
(* The Slimproto thread, LMS and the signal.                               *)

SlimStep == UNCHANGED <<finderPc, mainPc, sock, again>>

\* A frame makes the stream callback call the renderer.
Command ==
    /\ SlimStep /\ UNCHANGED connected
    /\ ~settled /\ slimPc = "recv" /\ sock = "open"
    /\ slimPc' = "calling" /\ SoapBegin("slim")
CommandEnd ==
    /\ SlimStep /\ UNCHANGED connected
    /\ slimPc = "calling" /\ slimPc' = "recv" /\ SoapEnd("slim")
EndOfSession ==
    /\ SlimStep /\ UNCHANGED upnpVars
    /\ slimPc = "recv" /\ sock \in {"eof", "shut"}
    /\ slimPc' = "ended" /\ connected' = FALSE

LmsDrops ==
    /\ ~settled /\ sock = "open" /\ sock' = "eof"
    /\ UNCHANGED <<upnpVars, mainPc, slimPc, connected, again>>

\* SIGINT or SIGTERM: SlimprotoClient::stop() wakes the reader.  From then on
\* the network is quiet (a bound).
Signal ==
    /\ running /\ running' = FALSE
    /\ settled' = TRUE /\ ad' = Quiet
    /\ sock' = IF sock = "open" THEN "shut" ELSE sock
    /\ UNCHANGED <<world, request, readiness, bound, search, lock, reviving,
                   watching, finderPc, mainPc, slimPc, connected, again>>

-----------------------------------------------------------------------------
MainThread ==
    \/ GiveUp \/ StartWatchdog \/ FindLms \/ AbandonLms \/ Gate \/ Backoff
    \/ Connect \/ ConnectFails \/ Monitor \/ StopAudio \/ StopAudioEnd
    \/ Disconnect \/ Join \/ FinalStop \/ FinalStopEnd \/ StopWatchdog \/ Exit
SlimThread == Command \/ CommandEnd \/ EndOfSession
Beside     == Network \/ Handlers \/ GraceEnds
FinderStep == Finder /\ UNCHANGED loopVars
BesideStep == Beside /\ UNCHANGED loopVars

Next == MainThread \/ SlimThread \/ LmsDrops \/ Signal \/ FinderStep \/ BesideStep

Spec == Init /\ [][Next]_vars

\* Every thread goes on in the end, also one that waits for m_mutex, which is
\* free again and again; and a result that is there arrives.
FairSpec ==
    /\ Spec
    /\ SF_vars(MainThread)
    /\ WF_vars(CommandEnd \/ EndOfSession)
    /\ SF_vars(FinderStep)
    /\ SF_vars((Result \/ AliveApply \/ AliveEnds) /\ UNCHANGED loopVars)
    /\ WF_vars(GraceEnds /\ UNCHANGED loopVars)

-----------------------------------------------------------------------------
(* Properties.                                                             *)

Starts == 0..MaxBoots
Renderers == [name : {"none", "a", "b"}, uuid : 0..MaxUuid, boot : Starts]

\* Every variable has its type, the lock is with the thread that is in the
\* call, and a session is over, its socket shut, before the loop can connect
\* again: the join of main.cpp:1379 is what keeps two readers apart.
SessionsDontOverlap ==
    /\ bound \in Renderers /\ lostAt \in {"zero", "recent", "old"}
    /\ reviving \in 0..Clearing
    /\ lock = "main" <=> mainPc \in {"stopping", "finalStop"}
    /\ lock = "slim" <=> slimPc = "calling"
    /\ lock = "finder" <=> finderPc \in {"query", "probe"}
    /\ slimPc # "none" <=> mainPc \in {"monitor", "stop", "stopping", "disconnect", "join"}
    /\ mainPc \notin {"monitor", "stop", "stopping", "disconnect"} => ~registered /\ ~connected

\* What is searched for when the renderer is lost, and whether it is a match for
\* one renderer only.
Sought == IF match = "" THEN bound.name ELSE match
Unambiguous ==
    \A u \in 0..MaxUuid :
        ~ /\ Matches(Sought, [name |-> "a", uuid |-> u])
          /\ Matches(Sought, [name |-> "b", uuid |-> 0])

\* The bridge adopts only a renderer that was asked for, and once it runs it
\* moves to no other (UPnPController.cpp:293, "so we don't accidentally adopt a
\* different device"), whatever late search results and ALIVEs come in, unless
\* the string it searches for is a part of what both are known by.
AdoptsOnlyMatches ==
    [][bound' # bound =>
         /\ request.url => bound'.name = "a"
         /\ Matches(request.filter, bound')
         /\ watching = "yes" /\ Unambiguous => bound'.name = bound.name]_vars

Started == watching = "yes" /\ running /\ settled

\* A renderer that is gone for good takes the player offline for good: silent
\* power loss too, since the watchdog's probe fails (main.cpp:1366-1375).
OfflineWhenGone == <>[](Started /\ ~Up(bound.name)) => <>[]~registered

\* A loss that fell between the two stores of a recovery leaves no time of
\* loss, and nothing looks for the renderer again.
Forgotten == ~ready /\ lostAt = "zero"

\* What is searched for is the UUID of an earlier start.
Unmatched == ~request.url /\ ~Matches(Sought, Description(bound.name))

\* A renderer that is there for good is registered for good (main.cpp:1302, "When
\* the renderer comes back (ALIVE), the player reconnects and becomes visible in
\* Roon again"), with new URLs and a new UUID too if it was not asked for by UUID.
BackOnline ==
    <>[](Started /\ Up(bound.name)) => <>[]registered \/ <>[]Unmatched

\* It is, unless its loss was forgotten (UPnPController.cpp:278-316).
OnlineWhenBack ==
    <>[](Started /\ Up(bound.name))
        => <>[]registered \/ <>[]Unmatched \/ <>[]Forgotten

\* Once the signal is in, the program ends, wherever its threads are.
ShutdownEnds == ~running ~> mainPc = "exit"
=============================================================================
