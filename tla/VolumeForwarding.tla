-------------------------- MODULE VolumeForwarding ---------------------------
(***************************************************************************)
(* --forward-volume: an audg of LMS stores a target and the time, a thread *)
(* looks every 100 ms and sends a target that is 300 ms old to the         *)
(* renderer.  Levels are percentages; LMS may come back to an earlier one. *)
(***************************************************************************)
EXTENDS Integers

CONSTANTS Levels,       \* levels LMS sends
          Defaults,     \* levels a renderer may come back with: its own, or 100
                        \* that --set-volume-100 gave it on the way
          MaxLevels     \* bound: how often LMS sends one

VARIABLES
    audgs,          \* levels LMS has sent
    target,         \* volTargetPct
    settled,        \* volLastAudgNs is at least 300 ms ago
    audgPc,         \* the volume callback: "idle", or between its two stores
    volumePc,       \* where the forwarding thread is
    level,          \* its local target
    lastSent,       \* its local lastSent
    reachable,      \* the renderer answers (and m_ready says so)
    volume,         \* the renderer's volume
    strayed         \* the volume is not what the last answered call set: the
                    \* answer to a later one was lost, or the renderer came back
                    \* with another

rendererSide == <<reachable, volume, strayed>>
volumeVars   == <<audgs, target, settled, audgPc, volumePc, level, lastSent, rendererSide>>

VolumeInit ==
    /\ audgs = 0 /\ target = -1 /\ settled = TRUE /\ audgPc = "idle"
    /\ volumePc = "sleep" /\ level = -1 /\ lastSent = -1
    /\ reachable \in BOOLEAN /\ volume = -1 /\ strayed = FALSE

StoreTarget ==
    /\ audgPc = "idle" /\ audgs < MaxLevels /\ audgs' = audgs + 1
    /\ target' \in Levels /\ audgPc' = "time"
    /\ UNCHANGED <<settled, volumePc, level, lastSent, rendererSide>>
StoreTime ==
    /\ audgPc = "time" /\ audgPc' = "idle" /\ settled' = FALSE
    /\ UNCHANGED <<audgs, target, volumePc, level, lastSent, rendererSide>>
TimePasses ==
    /\ ~settled /\ settled' = TRUE
    /\ UNCHANGED <<audgs, target, audgPc, volumePc, level, lastSent, rendererSide>>
Vanishes ==
    /\ reachable /\ reachable' = FALSE
    /\ UNCHANGED <<audgs, target, settled, audgPc, volumePc, level, lastSent, volume, strayed>>

\* With the volume it had, or after a restart or a rediscovery with another.
ComesBack ==
    /\ ~reachable /\ reachable' = TRUE
    /\ volume' \in {volume} \cup Defaults
    /\ strayed' = (strayed \/ volume' # volume)
    /\ UNCHANGED <<audgs, target, settled, audgPc, volumePc, level, lastSent>>

Wake ==
    /\ volumePc = "sleep" /\ volumePc' = "look"
    /\ target \notin {-1, lastSent}
    /\ level' = target
    /\ UNCHANGED <<audgs, target, settled, audgPc, lastSent, rendererSide>>
Look ==
    /\ volumePc = "look" /\ volumePc' = IF settled /\ reachable THEN "send" ELSE "sleep"
    /\ UNCHANGED <<audgs, target, settled, audgPc, level, lastSent, rendererSide>>

\* Slip: the level counts as sent whatever the renderer says.
SentAnyway(answered) == lastSent' = level

Sent(answered) == lastSent' = IF answered THEN level ELSE lastSent

\* SetVolume may reach the renderer and its answer may not come back.
SetVolume ==
    /\ volumePc = "send" /\ volumePc' = "sleep"
    /\ \/ reachable /\ volume' = level /\ strayed' = FALSE /\ Sent(TRUE)
       \/ ~reachable /\ volume' = level /\ strayed' = TRUE /\ Sent(FALSE)
       \/ ~reachable /\ Sent(FALSE) /\ UNCHANGED <<volume, strayed>>
    /\ UNCHANGED <<audgs, target, settled, audgPc, level, reachable>>

Forwarder  == Wake \/ Look \/ SetVolume
VolumeNext == StoreTarget \/ StoreTime \/ TimePasses \/ Vanishes \/ ComesBack \/ Forwarder

\* The callback ends, time passes, the thread runs; the renderer need not come back.
VolumeFairness == WF_volumeVars(StoreTime) /\ WF_volumeVars(TimePasses) /\ WF_volumeVars(Forwarder)
VolumeSpec == VolumeInit /\ [][VolumeNext]_volumeVars /\ VolumeFairness

(* main.cpp:1244-1256: if the renderer stays there in the end, the last     *)
(* level LMS asked for is its volume in the end, though calls fail on the   *)
(* way.  The exception: that level is the one of the last answered call, so *)
(* the thread sends nothing (main.cpp:1247), but the renderer has come back *)
(* with another volume since, or a later call reached it and its answer was *)
(* lost.                                                                    *)
LastLevelArrives ==
    <>[]reachable => <>[](volume = target \/ (strayed /\ target = lastSent))
=============================================================================
