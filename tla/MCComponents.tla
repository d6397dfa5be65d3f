---------------------------- MODULE MCComponents ------------------------------
(***************************************************************************)
(* The components that share no state with the rest, side by side.  Each   *)
(* behaviour runs one of them; the others stay in an initial state.        *)
(*   - ring, sizing: two byte values; ring sizes that are no multiple of   *)
(*     the chunks; every command a strm-s can code; reads of three sizes.  *)
(*   - http: plain audio, or blocks of 2 bytes of audio with metadata of 0 *)
(*     or 2 bytes; a header of two lines, and one that is too long.        *)
(*   - slim: sessions of three frames, of every kind and around heartbeats.*)
(*   - clock: two tracks of four and a half seconds, told in half seconds. *)
(***************************************************************************)
EXTENDS RingQueue, RingSizing, HttpStreamClient, TrackInfo, SlimprotoClient,
        VolumeForwarding, Options, TrackClock

CONSTANTS b0, b1

MCByte == {b0, b1}
MCHeaders == {<<"ch", "cr", "lf", "ch", "cr", "lf", "cr", "lf">>,
              [i \in 1..10 |-> "ch"]}
MCScripts == {<<"strm", "status", "audg">>, <<"status", "strm", "status">>,
              <<"badStrm", "nameQuery", "strm">>, <<"other", "audg", "status">>}

VARIABLE part   \* the component that runs

ringPart    == ringQueueVars
sizingPart  == <<cmd, capacity, used, prebuffered>>
trackPart   == <<before, track>>
everything  == <<part, ringPart, sizingPart, httpVars, trackPart, slimVars, volumeVars, line,
                 clockVars>>

\* Tracks of every command start first, or after a track of this one: StartTrack
\* reads nothing of the track before.
FirstCommand == CHOOSE c \in Commands : TRUE

\* Where a component has several initial states, it stays in one of them.
Idles(name, pinned) == IF part = name THEN TRUE ELSE pinned

AllInit ==
    /\ part \in {"ring", "sizing", "http", "track", "slim", "volume", "options",
                "clock"}
    /\ Idles("sizing", cmd = FirstCommand)
    /\ Idles("http", response = CHOOSE r \in Responses : TRUE)
    /\ Idles("track", before = CHOOSE t \in Tracks : TRUE)
    /\ Idles("slim", script = CHOOSE s \in Scripts : TRUE)
    /\ Idles("volume", reachable = TRUE)
    /\ Idles("clock", album = CHOOSE a \in Albums : TRUE)
    /\ RingQueueInit /\ Init /\ HttpInit /\ TrackInit /\ SlimInit /\ VolumeInit /\ OptionsInit
    /\ ClockInit

AllNext ==
    \/ /\ part = "ring" /\ RingQueueNext
       /\ UNCHANGED <<part, sizingPart, httpVars, trackPart, slimVars, volumeVars, line, clockVars>>
    \/ /\ part = "sizing" /\ PrebufferRead
       /\ UNCHANGED <<part, ringPart, httpVars, trackPart, slimVars, volumeVars, line, clockVars>>
    \/ /\ part = "sizing" /\ cmd = FirstCommand /\ NextTrack
       /\ UNCHANGED <<part, ringPart, httpVars, trackPart, slimVars, volumeVars, line, clockVars>>
    \/ /\ part = "http" /\ HttpNext
       /\ UNCHANGED <<part, ringPart, sizingPart, trackPart, slimVars, volumeVars, line, clockVars>>
    \/ /\ part = "track" /\ TrackNext
       /\ UNCHANGED <<part, ringPart, sizingPart, httpVars, slimVars, volumeVars, line, clockVars>>
    \/ /\ part = "slim" /\ SlimNext
       /\ UNCHANGED <<part, ringPart, sizingPart, httpVars, trackPart, volumeVars, line, clockVars>>
    \/ /\ part = "volume" /\ VolumeNext
       /\ UNCHANGED <<part, ringPart, sizingPart, httpVars, trackPart, slimVars, line, clockVars>>
    \/ /\ part = "options" /\ OptionsNext
       /\ UNCHANGED <<part, ringPart, sizingPart, httpVars, trackPart, slimVars, volumeVars, clockVars>>
    \/ /\ part = "clock" /\ ClockNext
       /\ UNCHANGED <<part, ringPart, sizingPart, httpVars, trackPart, slimVars, volumeVars, line>>

\* The fairness of each component, while it runs.
AllSpec ==
    /\ AllInit /\ [][AllNext]_everything
    /\ WF_httpVars(part = "http" /\ Reader) /\ WF_httpVars(part = "http" /\ Stopper)
    /\ WF_slimVars(part = "slim" /\ SlimThread)
    /\ WF_slimVars(part = "slim" /\ MainThread) /\ WF_slimVars(part = "slim" /\ Parts)
    /\ WF_volumeVars(part = "volume" /\ StoreTime) /\ WF_volumeVars(part = "volume" /\ TimePasses)
    /\ WF_volumeVars(part = "volume" /\ Forwarder)
=============================================================================
