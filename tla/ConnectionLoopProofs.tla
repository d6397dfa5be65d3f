------------------------ MODULE ConnectionLoopProofs ------------------------
(***************************************************************************)
(* Proofs about ConnectionLoop with UPnPController, for any number of      *)
(* starts of the renderer and UUIDs, any ways to ask for it and whatever   *)
(* strings are part of whose name or UUID: sessions with LMS do not        *)
(* overlap, and the bridge adopts only what it was asked for.              *)
(***************************************************************************)
EXTENDS ConnectionLoop, TLAPS

\* What the readiness and the network may be.
UpnpType ==
    /\ world \in [up : BOOLEAN, uuid : 1..MaxUuid, boot : 1..MaxBoots]
    /\ ad \in [kind : {"none", "alive", "byebye"}, uuid : 0..MaxUuid, boot : Starts]
    /\ request \in Requests
    /\ bound \in Renderers
    /\ lostAt \in {"zero", "recent", "old"}
    /\ reviving \in 0..Clearing

\* m_mutex is with the thread that is in a call, or in the handler of an ALIVE.
LockHeld ==
    /\ lock = "main" <=> mainPc \in {"stopping", "finalStop"}
    /\ lock = "slim" <=> slimPc = "calling"
    /\ lock = "finder" <=> finderPc \in {"query", "probe"}
    /\ lock = "alive" <=> reviving = Clearing

\* A session begins at Connect, and is shut and joined before the next.
OneSession ==
    /\ slimPc # "none" <=> mainPc \in {"monitor", "stop", "stopping", "disconnect", "join"}
    /\ mainPc \notin {"monitor", "stop", "stopping", "disconnect"} => ~registered /\ ~connected

SessionInv == UpnpType /\ LockHeld /\ OneSession

-----------------------------------------------------------------------------
LEMMA StartsFit == /\ 1 \in 1..MaxBoots /\ 1 \in 1..MaxUuid
                   /\ 0 \in Starts /\ 0 \in 0..MaxUuid /\ 0 \in 0..Clearing
                   /\ Clearing \in 0..Clearing
                   /\ 1..MaxBoots \subseteq Starts /\ Starts \subseteq 0..Clearing
                   /\ Clearing \notin Starts
<1>1. MaxBoots \in Nat /\ MaxBoots >= 1 /\ MaxUuid \in Nat /\ MaxUuid >= 1
  BY BoundsAssumption
<1> QED
  BY <1>1 DEF Starts, Clearing

LEMMA DescriptionFits ==
    ASSUME UpnpType, NEW name \in {"a", "b"}
    PROVE  /\ Description(name) \in Renderers /\ Description(name).name = name
           /\ name = "b" => Description(name).uuid = 0
<1>1. world.uuid \in 0..MaxUuid /\ world.boot \in Starts
  BY BoundsAssumption DEF UpnpType, Starts
<1> QED
  BY <1>1, StartsFit DEF Description, Renderers

LEMMA NobodyFits == Nobody \in Renderers
BY StartsFit DEF Nobody, Renderers

LEMMA SessionInvInit == Init => SessionInv
<1> SUFFICES ASSUME Init PROVE SessionInv
  OBVIOUS
<1>1. UpnpType
  BY StartsFit, NobodyFits DEF Init, UpnpInit, UpnpType, Quiet
<1>2. LockHeld /\ OneSession
  BY StartsFit, BoundsAssumption DEF Init, UpnpInit, LockHeld, OneSession, registered, Clearing
<1> QED
  BY <1>1, <1>2 DEF SessionInv

\* The renderer and its advertisements.
LEMMA NetworkKeepsTypes ==
    ASSUME UpnpType, Network
    PROVE  UpnpType'
<1>1. UNCHANGED <<request, bound, lostAt, reviving>>
  BY DEF Network, Vanish, Boot, Settle, NetworkStep, readiness
<1>2. world' \in [up : BOOLEAN, uuid : 1..MaxUuid, boot : 1..MaxBoots]
  <2>1. CASE Vanish
    BY <2>1 DEF Vanish, UpnpType
  <2>2. CASE Boot
    <3>1. PICK u \in {world.uuid, world.uuid + 1} :
            u <= MaxUuid /\ world' = [up |-> TRUE, uuid |-> u, boot |-> world.boot + 1]
      BY <2>2 DEF Boot
    <3>2. u \in 1..MaxUuid /\ world.boot + 1 \in 1..MaxBoots
      BY <2>2, <3>1, BoundsAssumption DEF Boot, UpnpType
    <3> QED
      BY <3>1, <3>2
  <2>3. CASE Settle
    BY <2>3 DEF Settle, UpnpType
  <2> QED
    BY <2>1, <2>2, <2>3 DEF Network
<1>3. world'.uuid \in 0..MaxUuid /\ world'.boot \in Starts
  <2>1. world'.uuid \in 1..MaxUuid /\ world'.boot \in 1..MaxBoots
    BY <1>2
  <2> QED
    BY <2>1, BoundsAssumption, StartsFit
<1>4. ad' \in [kind : {"none", "alive", "byebye"}, uuid : 0..MaxUuid, boot : Starts]
  BY <1>3, StartsFit DEF Network, Vanish, Boot, Settle, UpnpType, Advertises, Quiet
<1> QED
  BY <1>1, <1>2, <1>4 DEF UpnpType

\* libupnp's threads.
LEMMA HandlersKeepTypes ==
    ASSUME UpnpType, Handlers
    PROVE  UpnpType'
<1>1. UNCHANGED <<world, request>>
  BY DEF Handlers, Result, Byebye, Alive, AliveApply, AliveEnds, HandlerStep
<1>2. ad' \in [kind : {"none", "alive", "byebye"}, uuid : 0..MaxUuid, boot : Starts]
  <2>1. ad' = ad \/ ad' = Quiet
    BY DEF Handlers, Result, Byebye, Alive, AliveApply, AliveEnds
  <2> QED
    BY <2>1, StartsFit DEF UpnpType, Quiet
<1>3. bound' \in Renderers
  <2>1. CASE Result
    BY <2>1, DescriptionFits DEF Result
  <2>2. CASE AliveApply
    BY <2>2, StartsFit DEF AliveApply, UpnpType, Renderers
  <2> QED
    BY <2>1, <2>2 DEF Handlers, Byebye, Alive, AliveEnds, UpnpType
<1>4. lostAt' \in {"zero", "recent", "old"}
  BY DEF Handlers, Result, Byebye, Alive, AliveApply, AliveEnds, UpnpType, readiness
<1>5. reviving' \in 0..Clearing
  BY StartsFit DEF Handlers, Result, Byebye, Alive, AliveApply, AliveEnds, UpnpType
<1> QED
  BY <1>1, <1>2, <1>3, <1>4, <1>5 DEF UpnpType

\* The finder, and the end of the grace period.
LEMMA FinderKeepsTypes ==
    ASSUME UpnpType, Finder \/ GraceEnds
    PROVE  UpnpType'
<1>1. UNCHANGED <<world, ad, request, reviving>>
  BY DEF Finder, GraceEnds, DiscoverFails, DiscoverDirect, DiscoverSearch, DiscoverLate, Found,
         SearchExpires, Query, QueryEnd, Revive, Clear, Probe, ProbeEnd, RediscoverSearch,
         RediscoverDirect, RediscoverFails, WatchdogEnds, FinderGoes, SoapBegin, SoapEnd, network
<1>2. bound' \in Renderers
  BY DescriptionFits
     DEF Finder, GraceEnds, DiscoverFails, DiscoverDirect, DiscoverSearch, DiscoverLate, Found,
         SearchExpires, Query, QueryEnd, Revive, Clear, Probe, ProbeEnd, RediscoverSearch,
         RediscoverDirect, RediscoverFails, WatchdogEnds, SoapBegin, SoapEnd, ConnectDirect,
         UpnpType
<1>3. lostAt' \in {"zero", "recent", "old"}
  BY DEF Finder, GraceEnds, DiscoverFails, DiscoverDirect, DiscoverSearch, DiscoverLate, Found,
         SearchExpires, Query, QueryEnd, Revive, Clear, Probe, ProbeEnd, RediscoverSearch,
         RediscoverDirect, RediscoverFails, WatchdogEnds, SoapBegin, SoapEnd, SoapLoses,
         readiness, UpnpType
<1> QED
  BY <1>1, <1>2, <1>3 DEF UpnpType

\* A call changes the readiness at most.
LEMMA SoapKeepsTypes ==
    ASSUME UpnpType, NEW who, SoapBegin(who) \/ SoapEnd(who)
    PROVE  UpnpType'
BY DEF SoapBegin, SoapEnd, SoapLoses, network, readiness, UpnpType

-----------------------------------------------------------------------------
LEMMA SessionInvStep == SessionInv /\ [Next]_vars => SessionInv'
<1> SUFFICES ASSUME SessionInv, [Next]_vars
             PROVE  SessionInv'
  OBVIOUS
<1> USE DEF SessionInv
<1>1. CASE MainThread
  <2>1. UNCHANGED reviving
    BY <1>1 DEF MainThread, GiveUp, StartWatchdog, FindLms, AbandonLms, Gate, Backoff, Connect,
           ConnectFails, Monitor, StopAudio, StopAudioEnd, Disconnect, Join, FinalStop,
           FinalStopEnd, StopWatchdog, Exit, MainOnly, MainCalls, MainDone, SoapBegin, SoapEnd,
           RestOfUpnp, upnpVars
  <2>2. UpnpType'
    <3>1. CASE StopAudio \/ FinalStop \/ StopAudioEnd \/ FinalStopEnd
      BY <3>1, SoapKeepsTypes DEF StopAudio, FinalStop, StopAudioEnd, FinalStopEnd, MainCalls, MainDone
    <3>2. CASE ~(StopAudio \/ FinalStop \/ StopAudioEnd \/ FinalStopEnd)
      <4>1. UNCHANGED <<world, ad, request, bound, lostAt, reviving>>
        BY <1>1, <3>2 DEF MainThread, GiveUp, StartWatchdog, FindLms, AbandonLms, Gate, Backoff,
               Connect, ConnectFails, Monitor, Disconnect, Join, StopWatchdog, Exit, MainOnly,
               RestOfUpnp, upnpVars, network, readiness
      <4> QED
        BY <4>1 DEF UpnpType
    <3> QED
      BY <3>1, <3>2
  <2>3. LockHeld'
    BY <1>1, <2>1 DEF MainThread, GiveUp, StartWatchdog, FindLms, AbandonLms, Gate, Backoff,
           Connect, ConnectFails, Monitor, StopAudio, StopAudioEnd, Disconnect, Join, FinalStop,
           FinalStopEnd, StopWatchdog, Exit, MainOnly, MainCalls, MainDone, MainGoes, SoapBegin,
           SoapEnd, RestOfUpnp, upnpVars, session, JoinSlim, LockHeld, OneSession
  <2>4. OneSession'
    BY <1>1 DEF MainThread, GiveUp, StartWatchdog, FindLms, AbandonLms, Gate, Backoff,
           Connect, ConnectFails, Monitor, StopAudio, StopAudioEnd, Disconnect, Join, FinalStop,
           FinalStopEnd, StopWatchdog, Exit, MainOnly, MainCalls, MainDone, MainGoes, session,
           JoinSlim, CloseSession, OneSession, registered
  <2> QED
    BY <2>2, <2>3, <2>4
<1>2. CASE SlimThread
  <2>1. UpnpType'
    <3>1. CASE EndOfSession
      BY <3>1 DEF EndOfSession, upnpVars, network, readiness, UpnpType
    <3> QED
      BY <1>2, <3>1, SoapKeepsTypes DEF SlimThread, Command, CommandEnd
  <2>2. LockHeld'
    BY <1>2 DEF SlimThread, Command, CommandEnd, EndOfSession, SlimStep, SoapBegin, SoapEnd,
           upnpVars, LockHeld
  <2>3. OneSession'
    BY <1>2 DEF SlimThread, Command, CommandEnd, EndOfSession, SlimStep, OneSession, registered
  <2> QED
    BY <2>1, <2>2, <2>3
<1>3. CASE LmsDrops
  BY <1>3 DEF LmsDrops, upnpVars, network, readiness, UpnpType, LockHeld, OneSession, registered
<1>4. CASE Signal
  <2>1. UpnpType'
    BY <1>4, StartsFit DEF Signal, UpnpType, readiness, Quiet
  <2>2. LockHeld' /\ OneSession'
    BY <1>4 DEF Signal, LockHeld, OneSession, registered
  <2> QED
    BY <2>1, <2>2
<1>5. CASE FinderStep
  <2>1. UpnpType'
    BY <1>5, FinderKeepsTypes DEF FinderStep
  <2>2. LockHeld'
    BY <1>5 DEF FinderStep, Finder, DiscoverFails, DiscoverDirect, DiscoverSearch, DiscoverLate,
           Found, SearchExpires, Query, QueryEnd, Revive, Clear, Probe, ProbeEnd,
           RediscoverSearch, RediscoverDirect, RediscoverFails, WatchdogEnds, FinderGoes,
           SoapBegin, SoapEnd, loopVars, session, LockHeld
  <2>3. OneSession'
    BY <1>5 DEF FinderStep, loopVars, session, OneSession, registered
  <2> QED
    BY <2>1, <2>2, <2>3
<1>6. CASE BesideStep
  <2>1. UpnpType'
    BY <1>6, NetworkKeepsTypes, HandlersKeepTypes, FinderKeepsTypes DEF BesideStep, Beside
  <2>2. LockHeld'
    BY <1>6, StartsFit DEF BesideStep, Beside, Network, Vanish, Boot, Settle, NetworkStep,
           Handlers, Result, Byebye, Alive, AliveApply, AliveEnds, HandlerStep, GraceEnds,
           loopVars, session, LockHeld, UpnpType
  <2>3. OneSession'
    BY <1>6 DEF BesideStep, loopVars, session, OneSession, registered
  <2> QED
    BY <2>1, <2>2, <2>3
<1>7. CASE UNCHANGED vars
  BY <1>7 DEF vars, upnpVars, loopVars, session, network, readiness, UpnpType, LockHeld,
         OneSession, registered
<1> QED
  BY <1>1, <1>2, <1>3, <1>4, <1>5, <1>6, <1>7 DEF Next

\* One session with LMS at a time, its socket shut and its thread joined before
\* the next attempt, and one thread in a call: SessionsDontOverlap
\* (main.cpp:1366-1381).
THEOREM SessionsNeverOverlap == Spec => []SessionsDontOverlap
<1>1. SessionInv => SessionsDontOverlap
  BY DEF SessionInv, UpnpType, LockHeld, OneSession, SessionsDontOverlap
<1> QED
  BY <1>1, SessionInvInit, SessionInvStep, PTL DEF Spec

-----------------------------------------------------------------------------
(* What is adopted.                                                        *)

\* The finder has a renderer: it is past its first search.
HasRenderer == finderPc \notin {"discover", "startSearch", "gaveUp"}

\* What a search looks for, and what it has found.
SearchInv ==
    /\ request.url => match = "none"
    /\ match # "none" => request.filter \in {"", match}
    /\ found => match # "none" /\ bound.name # "none" /\ Matches(match, bound)

\* The renderer in use is one that was asked for, and a match for what the next
\* search looks for.
BoundInv ==
    /\ bound.name # "none" => /\ request.url => bound.name = "a"
                              /\ Matches(request.filter, bound)
    /\ bound.name = "b" => bound.uuid = 0
    /\ HasRenderer => /\ bound.name # "none"
                      /\ ~request.url => match # "none" /\ Matches(match, bound)
                      /\ match = "" => found
    /\ watching = "yes" => HasRenderer

\* Before there is a renderer no advertisement is about it.
AdInv ==
    /\ ad.kind # "none" => ad.uuid # 0
    /\ bound.name = "none" => bound.uuid = 0 /\ reviving \notin 1..MaxBoots

AdoptInv == SearchInv /\ BoundInv /\ AdInv

LEMMA AdoptInvInit == Init => AdoptInv
<1> SUFFICES ASSUME Init PROVE AdoptInv
  OBVIOUS
<1>1. SearchInv /\ BoundInv
  BY DEF Init, UpnpInit, Nobody, SearchInv, BoundInv, HasRenderer
<1>2. AdInv
  BY BoundsAssumption DEF Init, UpnpInit, Nobody, Quiet, AdInv
<1> QED
  BY <1>1, <1>2 DEF AdoptInv

\* The step leaves the renderer, or adopts one that was asked for.
Adopts ==
    bound' = bound \/
        /\ request.url => bound'.name = "a"
        /\ Matches(request.filter, bound')
        /\ watching = "yes" /\ Unambiguous => bound'.name = bound.name

\* A new start of the same renderer matches what it did.
LEMMA MatchesStays ==
    ASSUME NEW filter, bound'.name = bound.name, bound'.uuid = bound.uuid
    PROVE  Matches(filter, bound') = Matches(filter, bound)
BY DEF Matches

\* Both renderers match what is searched for only if it is ambiguous.
LEMMA OneMatches ==
    ASSUME Unambiguous, match # "", NEW r \in Renderers, NEW s \in Renderers,
           Matches(match, r), Matches(match, s),
           r.name \in {"a", "b"}, s.name \in {"a", "b"},
           r.name = "b" => r.uuid = 0, s.name = "b" => s.uuid = 0
    PROVE  r.name = s.name
<1>1. Sought = match
  BY DEF Sought
<1>2. r.uuid \in 0..MaxUuid /\ s.uuid \in 0..MaxUuid
  BY DEF Renderers
<1>3. \A u \in 0..MaxUuid :
         ~ (/\ Matches(match, [name |-> "a", uuid |-> u])
            /\ Matches(match, [name |-> "b", uuid |-> 0]))
  BY <1>1 DEF Unambiguous
<1>4. /\ Matches(match, [name |-> r.name, uuid |-> r.uuid])
      /\ Matches(match, [name |-> s.name, uuid |-> s.uuid])
  BY DEF Matches
<1>5. ~(r.name = "a" /\ s.name = "b") /\ ~(r.name = "b" /\ s.name = "a")
  BY <1>2, <1>3, <1>4
<1> QED
  BY <1>5

LEMMA AdoptInvNetwork ==
    ASSUME UpnpType, AdoptInv, Network
    PROVE  AdoptInv' /\ bound' = bound
<1>1. UNCHANGED <<request, bound, match, found, finderPc, watching, reviving>>
  BY DEF Network, Vanish, Boot, Settle, NetworkStep, search
<1>2. world'.uuid # 0
  <2>1. world'.uuid \in 1..MaxUuid
    BY NetworkKeepsTypes DEF UpnpType
  <2> QED
    BY <2>1, BoundsAssumption
<1>3. ad'.kind # "none" => ad'.uuid # 0
  BY <1>2 DEF Network, Vanish, Boot, Settle, Advertises, Quiet, AdoptInv, AdInv
<1> QED
  BY <1>1, <1>3 DEF AdoptInv, SearchInv, BoundInv, AdInv, HasRenderer

LEMMA AdoptInvHandlers ==
    ASSUME UpnpType, AdoptInv, Handlers
    PROVE  AdoptInv' /\ Adopts
<1>1. UNCHANGED <<request, match, finderPc, watching>>
  BY DEF Handlers, Result, Byebye, Alive, AliveApply, AliveEnds, HandlerStep
<1>2. CASE Result
  <2>1. PICK name \in {"a", "b"} : Matches(match, Description(name)) /\ bound' = Description(name)
    BY <1>2 DEF Result
  <2>2. bound' \in Renderers /\ bound'.name = name /\ (name = "b" => bound'.uuid = 0)
    BY <2>1, DescriptionFits
  <2>3. match # "none" /\ ~found /\ found' /\ UNCHANGED <<ad, reviving>>
    BY <1>2 DEF Result
  <2>4. Matches(match, bound')
    BY <2>1
  <2>5. ~request.url /\ Matches(request.filter, bound')
    BY <2>3, <2>4 DEF AdoptInv, SearchInv, Matches
  <2>6. HasRenderer /\ Unambiguous => bound'.name = bound.name
    <3> SUFFICES ASSUME HasRenderer, Unambiguous PROVE bound'.name = bound.name
      OBVIOUS
    <3>1. bound \in Renderers /\ bound.name \in {"a", "b"} /\ match # ""
          /\ Matches(match, bound) /\ (bound.name = "b" => bound.uuid = 0)
      BY <2>3, <2>5 DEF AdoptInv, BoundInv, UpnpType, Renderers
    <3> HIDE DEF Matches
    <3> QED
      BY <2>2, <2>4, <3>1, OneMatches
  <2>7. SearchInv'
    BY <1>1, <2>2, <2>3, <2>4 DEF AdoptInv, SearchInv
  <2>8. BoundInv'
    BY <1>1, <2>2, <2>3, <2>4, <2>5 DEF AdoptInv, BoundInv, HasRenderer
  <2>9. AdInv'
    BY <2>2, <2>3 DEF AdoptInv, AdInv
  <2> QED
    BY <2>5, <2>6, <2>7, <2>8, <2>9 DEF AdoptInv, BoundInv, Adopts
<1>3. CASE AliveApply
  <2>1. bound' = [bound EXCEPT !.boot = reviving] /\ reviving \in 1..MaxBoots /\ UNCHANGED <<ad, found>>
    BY <1>3 DEF AliveApply
  <2>2. bound'.name = bound.name /\ bound'.uuid = bound.uuid /\ bound.name # "none"
    BY <2>1 DEF AdoptInv, AdInv, UpnpType, Renderers
  <2>3. /\ Matches(match, bound') = Matches(match, bound)
        /\ Matches(request.filter, bound') = Matches(request.filter, bound)
    BY <2>2, MatchesStays
  <2> QED
    BY <1>1, <2>1, <2>2, <2>3 DEF AdoptInv, SearchInv, BoundInv, AdInv, HasRenderer, Adopts
<1>4. CASE Alive
  <2>1. UNCHANGED <<bound, found>> /\ ad' = Quiet
    BY <1>4 DEF Alive
  <2>2. bound.name = "none" => reviving' = 0
    BY <1>4 DEF Alive, AdoptInv, AdInv
  <2>3. AdInv'
    BY <2>1, <2>2, BoundsAssumption DEF AdoptInv, AdInv, Quiet
  <2> QED
    BY <1>1, <2>1, <2>3 DEF AdoptInv, SearchInv, BoundInv, HasRenderer, Adopts
<1>5. CASE Byebye \/ AliveEnds
  <2>1. UNCHANGED <<bound, found>> /\ ad' \in {ad, Quiet} /\ reviving' \in {reviving, 0}
    BY <1>5 DEF Byebye, AliveEnds
  <2>2. AdInv'
    BY <2>1, BoundsAssumption DEF AdoptInv, AdInv, Quiet
  <2> QED
    BY <1>1, <2>1, <2>2 DEF AdoptInv, SearchInv, BoundInv, HasRenderer, Adopts
<1> QED
  BY <1>2, <1>3, <1>4, <1>5 DEF Handlers

LEMMA AdoptInvFinder ==
    ASSUME UpnpType, AdoptInv, Finder
    PROVE  AdoptInv' /\ Adopts
<1> USE DEF AdoptInv, HasRenderer
<1>1. UNCHANGED <<request, watching, ad, reviving>>
  BY DEF Finder, DiscoverFails, DiscoverDirect, DiscoverSearch, DiscoverLate, Found,
         SearchExpires, Query, QueryEnd, Revive, Clear, Probe, ProbeEnd, RediscoverSearch,
         RediscoverDirect, RediscoverFails, WatchdogEnds, FinderGoes, SoapBegin, SoapEnd, network
<1>2. CASE DiscoverDirect \/ RediscoverDirect
  <2>1. /\ request.url /\ bound' = Description("a") /\ UNCHANGED <<match, found>>
        /\ finderPc \in {"discover", "sleep"} /\ finderPc' = "adopt"
    BY <1>2 DEF DiscoverDirect, RediscoverDirect, ConnectDirect, FinderGoes, search
  <2>2. bound'.name = "a" /\ match = "none" /\ request.filter = ""
    BY <2>1, DescriptionFits, RequestsAssumption DEF SearchInv, UpnpType
  <2>3. watching = "yes" => bound.name = "a"
    BY <2>1 DEF BoundInv
  <2>4. Matches(request.filter, bound') /\ ~found
    BY <2>1, <2>2 DEF Matches, SearchInv
  <2> QED
    BY <1>1, <2>1, <2>2, <2>3, <2>4 DEF SearchInv, BoundInv, AdInv, Adopts
<1>3. CASE DiscoverSearch
  <2>1. /\ ~request.url /\ match' = request.filter /\ ~found' /\ UNCHANGED bound
        /\ finderPc = "discover" /\ finderPc' = "startSearch"
    BY <1>3 DEF DiscoverSearch, SearchFor, FinderGoes
  <2>2. request.filter # "none"
    BY RequestsAssumption, FiltersAssumption DEF UpnpType
  <2> QED
    BY <1>1, <2>1, <2>2 DEF SearchInv, BoundInv, AdInv, Adopts
<1>4. CASE RediscoverSearch
  <2>1. /\ ~request.url /\ match' = RediscoverFilter /\ ~found' /\ UNCHANGED bound
        /\ finderPc = "sleep" /\ finderPc' = "search"
    BY <1>4 DEF RediscoverSearch, SearchFor, FinderGoes
  <2>2. bound.name \in {"a", "b"} /\ match # "none" /\ Matches(match, bound)
    BY <2>1 DEF UpnpType, Renderers, BoundInv
  <2>3. /\ match' \notin {"none", ""}
        /\ match' = match \/ (match = "" /\ match' = bound.name)
    <3>1. CASE match = ""
      BY <2>1, <2>2, <3>1 DEF RediscoverFilter
    <3>2. CASE match # ""
      BY <2>1, <2>2, <3>2 DEF RediscoverFilter
    <3> QED
      BY <3>1, <3>2
  <2>4. Matches(match', bound)
    <3>1. Matches(bound.name, bound)
      BY <2>2, FiltersAssumption DEF Matches
    <3> QED
      BY <2>2, <2>3, <3>1
  <2>5. request.filter \in {"", match'}
    BY <2>2, <2>3 DEF SearchInv
  <2> QED
    BY <1>1, <2>1, <2>2, <2>3, <2>4, <2>5 DEF SearchInv, BoundInv, AdInv, Adopts
<1>5. CASE DiscoverLate \/ Found
  <2>1. found /\ UNCHANGED <<bound, match, found>> /\ finderPc' = "adopt"
    BY <1>5 DEF DiscoverLate, Found, FinderGoes, search
  <2> QED
    BY <1>1, <2>1 DEF SearchInv, BoundInv, AdInv, Adopts
<1>6. CASE DiscoverFails \/ SearchExpires
  <2>1. /\ UNCHANGED <<bound, match, found>>
        /\ <<finderPc, finderPc'>> \in {<<"discover", "gaveUp">>, <<"startSearch", "discover">>, <<"search", "sleep">>}
    BY <1>6 DEF DiscoverFails, SearchExpires, FinderGoes, search
  <2> QED
    BY <1>1, <2>1 DEF SearchInv, BoundInv, AdInv, Adopts
<1>7. CASE \/ Query \/ QueryEnd \/ Revive \/ Clear \/ Probe \/ ProbeEnd
           \/ RediscoverFails \/ WatchdogEnds
  <2>1. UNCHANGED <<bound, match, found>> /\ HasRenderer /\ HasRenderer'
    BY <1>7 DEF Query, QueryEnd, Revive, Clear, Probe, ProbeEnd, RediscoverFails, WatchdogEnds,
           FinderGoes, SoapBegin, SoapEnd, search
  <2> QED
    BY <1>1, <2>1 DEF SearchInv, BoundInv, AdInv, Adopts
<1> QED
  BY <1>2, <1>3, <1>4, <1>5, <1>6, <1>7 DEF Finder

LEMMA AdoptInvOthers ==
    ASSUME AdoptInv, UNCHANGED <<request, bound, match, found, finderPc, reviving>>,
           ad' \in {ad, Quiet},
           watching' = "yes" => watching = "yes" \/ HasRenderer
    PROVE  AdoptInv' /\ Adopts
<1>1. AdInv'
  BY DEF AdoptInv, AdInv, Quiet
<1>2. SearchInv'
  BY DEF AdoptInv, SearchInv
<1>3. BoundInv'
  BY DEF AdoptInv, BoundInv, HasRenderer
<1> QED
  BY <1>1, <1>2, <1>3 DEF AdoptInv, Adopts

LEMMA AdoptInvStep ==
    ASSUME SessionInv, AdoptInv, [Next]_vars
    PROVE  AdoptInv' /\ Adopts
<1> USE DEF SessionInv
<1>1. CASE MainThread
  <2>1. UNCHANGED <<request, bound, match, found, finderPc, reviving, ad>>
    BY <1>1 DEF MainThread, GiveUp, StartWatchdog, FindLms, AbandonLms, Gate, Backoff, Connect,
           ConnectFails, Monitor, StopAudio, StopAudioEnd, Disconnect, Join, FinalStop,
           FinalStopEnd, StopWatchdog, Exit, MainOnly, MainCalls, MainDone, SoapBegin, SoapEnd,
           RestOfUpnp, upnpVars, network, search
  <2>2. watching' = "yes" => watching = "yes" \/ HasRenderer
    BY <1>1 DEF MainThread, GiveUp, StartWatchdog, FindLms, AbandonLms, Gate, Backoff, Connect,
           ConnectFails, Monitor, StopAudio, StopAudioEnd, Disconnect, Join, FinalStop,
           FinalStopEnd, StopWatchdog, Exit, MainOnly, MainCalls, MainDone, SoapBegin, SoapEnd,
           upnpVars, HasRenderer
  <2> QED
    BY <2>1, <2>2, AdoptInvOthers
<1>2. CASE SlimThread \/ LmsDrops \/ Signal \/ UNCHANGED vars
  <2>1. UNCHANGED <<request, bound, match, found, finderPc, reviving, watching>> /\ ad' \in {ad, Quiet}
    BY <1>2 DEF SlimThread, Command, CommandEnd, EndOfSession, SlimStep, LmsDrops, Signal,
           SoapBegin, SoapEnd, vars, upnpVars, network, search
  <2> QED
    BY <2>1, AdoptInvOthers
<1>3. CASE FinderStep
  BY <1>3, AdoptInvFinder DEF FinderStep
<1>4. CASE BesideStep
  <2>1. CASE GraceEnds
    <3>1. UNCHANGED <<request, bound, match, found, finderPc, reviving, watching, ad>>
      BY <2>1 DEF GraceEnds, network, search
    <3> QED
      BY <3>1, AdoptInvOthers
  <2> QED
    BY <1>4, <2>1, AdoptInvNetwork, AdoptInvHandlers DEF BesideStep, Beside, Adopts
<1> QED
  BY <1>1, <1>2, <1>3, <1>4 DEF Next

\* The renderer in use is always one the command line asked for, and never
\* another once the bridge runs, unless what it searches for is a part of what
\* both are known by, whatever search results, ALIVEs and restarts come in any
\* order: AdoptsOnlyMatches (UPnPController.cpp:293-297, 432-454).
THEOREM AdoptsAlwaysMatch == Spec => AdoptsOnlyMatches
<1>1. SessionInv /\ AdoptInv /\ [Next]_vars => SessionInv' /\ AdoptInv'
  BY SessionInvStep, AdoptInvStep
<1>2. SessionInv /\ AdoptInv /\ [Next]_vars =>
        [bound' # bound =>
           /\ request.url => bound'.name = "a"
           /\ Matches(request.filter, bound')
           /\ watching = "yes" /\ Unambiguous => bound'.name = bound.name]_vars
  BY AdoptInvStep DEF Adopts
<1> QED
  BY <1>1, <1>2, SessionInvInit, AdoptInvInit, PTL DEF Spec, AdoptsOnlyMatches
=============================================================================
