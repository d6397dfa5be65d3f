---------------------------- MODULE UPnPController ----------------------------
(***************************************************************************)
(* Whether the renderer can be used: m_ready and m_lostAt, and everyone    *)
(* who writes them.                                                        *)
(*   - The finder: the main thread until the renderer is found at start-up,*)
(*     then the watchdog, which probes it and looks for it when it is lost.*)
(*   - libupnp's threads: search results, ALIVE and BYEBYE.                *)
(*   - Every caller of a SOAP action: one that cannot connect, or gets no  *)
(*     proper response, marks the renderer lost; a timeout or a SOAP fault *)
(*     does not.  Actions run one at a time, under m_mutex.                *)
(* There are two renderers, "a" and "b", known by their names.  Each start *)
(* of "a" gives it new control URLs and may give it a new UUID.  Strings   *)
(* searched for are told apart by what contains them: names without regard *)
(* to case, UUIDs.                                                         *)
(* Coming back is two stores, ready and then the time of loss; a loss may  *)
(* fall between them.                                                      *)
(***************************************************************************)
EXTENDS Naturals

CONSTANTS MaxBoots,     \* bound: starts of renderer "a"
          MaxUuid,      \* bound: UUIDs it may have
          Filters,      \* strings to search for, "" for any renderer
          InName,       \* which of them are part of which name
          InUuid,       \* which of them are part of which UUID (0: of "b")
          Requests      \* how the renderer is asked for: [url, filter]

ASSUME BoundsAssumption == MaxBoots \in Nat \ {0} /\ MaxUuid \in Nat \ {0}
ASSUME FiltersAssumption ==
    /\ {"", "a", "b"} \subseteq Filters /\ "none" \notin Filters
    /\ InName \subseteq Filters \X {"a", "b"} /\ InUuid \subseteq Filters \X (0..MaxUuid)
    /\ <<"a", "a">> \in InName /\ <<"b", "b">> \in InName
ASSUME RequestsAssumption ==
    /\ Requests \subseteq [url : BOOLEAN, filter : Filters]
    /\ \A r \in Requests : r.url => r.filter = ""

Nobody == [name |-> "none", uuid |-> 0, boot |-> 0]
Quiet  == [kind |-> "none", uuid |-> 0, boot |-> 0]
Clearing == MaxBoots + 1

VARIABLES
    world,      \* renderer "a": up or not, its UUID, and which start this is
    ad,         \* the ALIVE or BYEBYE advertisement under way
    settled,    \* nothing in the network changes or is under way any more
    request,    \* the command line: a URL, or a name or UUID to search for
    running,    \* g_running
    ready,      \* m_ready
    lostAt,     \* m_lostAt: "zero", "recent", or "old": the grace period is over
    bound,      \* m_renderer: name, UUID, and the start its URLs are of
    match,      \* m_discoveryMatch ("none" before the first search)
    found,      \* m_discoveryFound
    lock,       \* m_mutex: who holds it, "none" when it is free
    reviving,   \* the start whose description an ALIVE handler has; 0: none;
                \* Clearing: it has set ready and not yet cleared lostAt
    watching,   \* m_watchdogRunning: "no" (not started), "yes", "stopped"
    finderPc    \* where the finder is

network   == <<world, ad, settled>>
readiness == <<ready, lostAt>>
search    == <<match, found>>
upnpVars  == <<network, request, running, readiness, bound, search, lock,
               reviving, watching, finderPc>>

UpnpInit ==
    /\ world \in [up : BOOLEAN, uuid : {1}, boot : {1}]
    /\ ad = Quiet /\ settled = FALSE
    /\ request \in Requests /\ running = TRUE
    /\ ready = FALSE /\ lostAt = "zero"
    /\ bound = Nobody /\ match = "none" /\ found = FALSE
    /\ lock = "none" /\ reviving = 0
    /\ watching = "no" /\ finderPc = "discover"

-----------------------------------------------------------------------------
(* The network.                                                            *)

Up(name) == name = "b" \/ (name = "a" /\ world.up)
Description(name) ==
    IF name = "a" THEN [name |-> "a", uuid |-> world.uuid, boot |-> world.boot]
    ELSE [name |-> "b", uuid |-> 0, boot |-> 0]
\* The test of a search result, by name or by UUID.
Matches(filter, r) ==
    filter = "" \/ <<filter, r.name>> \in InName \/ <<filter, r.uuid>> \in InUuid

Reachable(r) == Up(r.name) /\ r.boot = Description(r.name).boot

\* An advertisement may be lost, and at most one is under way.
Advertises(kind) == ad' \in {ad, [kind |-> kind, uuid |-> world'.uuid, boot |-> world'.boot]}

NetworkStep ==
    /\ ~settled
    /\ UNCHANGED <<request, running, readiness, bound, search, lock, reviving,
                   watching, finderPc>>

\* Power loss, or an orderly end that says BYEBYE.
Vanish ==
    /\ NetworkStep /\ world.up
    /\ world' = [world EXCEPT !.up = FALSE]
    /\ Advertises("byebye") /\ UNCHANGED settled
Boot ==
    /\ NetworkStep /\ ~world.up /\ world.boot < MaxBoots
    /\ \E u \in {world.uuid, world.uuid + 1} :
         u <= MaxUuid /\ world' = [up |-> TRUE, uuid |-> u, boot |-> world.boot + 1]
    /\ Advertises("alive") /\ UNCHANGED settled
Settle == NetworkStep /\ settled' = TRUE /\ ad' = Quiet /\ UNCHANGED world

-----------------------------------------------------------------------------
(* SOAP actions.                                                           *)

SoapBegin(who) ==
    /\ lock = "none" /\ lock' = who
    /\ UNCHANGED <<network, request, running, readiness, bound, search, reviving,
                   watching>>

SoapLoses == IF ready THEN ready' = FALSE /\ lostAt' = "recent" ELSE UNCHANGED readiness

\* The renderer answers, or it cannot be reached.  Until the network is settled
\* a call may also fail with the renderer up, and one that fails may do so in
\* another way, which leaves the renderer ready.
SoapEnd(who) ==
    /\ lock = who /\ lock' = "none"
    /\ \/ (Reachable(bound) \/ ~settled) /\ UNCHANGED readiness
       \/ ~(settled /\ Reachable(bound)) /\ SoapLoses
    /\ UNCHANGED <<network, request, running, bound, search, reviving, watching>>

-----------------------------------------------------------------------------
(* libupnp's threads: handleEvent.                                         *)

HandlerStep == UNCHANGED <<world, settled, request, running, match, watching, finderPc>>

\* SEARCH_RESULT, perhaps of a search that has timed out; the first that matches.
Result ==
    /\ HandlerStep
    /\ match # "none" /\ ~found
    /\ \E name \in {"a", "b"} :
         /\ Up(name) /\ Matches(match, Description(name))
         /\ bound' = Description(name)
    /\ found' = TRUE
    /\ UNCHANGED <<ad, readiness, lock, reviving>>

Byebye ==
    /\ HandlerStep
    /\ ad.kind = "byebye" /\ ad' = Quiet
    /\ IF ready /\ ad.uuid = bound.uuid
       THEN ready' = FALSE /\ lostAt' = "recent" ELSE UNCHANGED readiness
    /\ UNCHANGED <<bound, found, lock, reviving>>

\* ALIVE: the description is loaded before m_mutex is taken.
Alive ==
    /\ HandlerStep
    /\ ad.kind = "alive" /\ ad' = Quiet
    /\ reviving = 0
    /\ reviving' = IF ~ready /\ ad.uuid = bound.uuid /\ world.up /\ world.boot = ad.boot
                   THEN ad.boot ELSE 0
    /\ UNCHANGED <<readiness, bound, found, lock>>
AliveApply ==
    /\ HandlerStep
    /\ reviving \in 1..MaxBoots /\ reviving' = Clearing
    /\ lock = "none" /\ lock' = "alive"
    /\ bound' = [bound EXCEPT !.boot = reviving]
    /\ ready' = TRUE
    /\ UNCHANGED <<ad, lostAt, found>>
AliveEnds ==
    /\ HandlerStep
    /\ reviving = Clearing /\ reviving' = 0
    /\ lock' = "none"
    /\ lostAt' = "zero"
    /\ UNCHANGED <<ad, ready, bound, found>>

-----------------------------------------------------------------------------
(* The finder.                                                             *)

FinderGoes(from, to) ==
    finderPc = from /\ finderPc' = to /\ UNCHANGED <<network, request, running, watching, reviving>>

\* connectDirect loads the description from the URL.
ConnectDirect == Up("a") /\ bound' = Description("a")

\* Slip: what an earlier search found still counts.
SearchKeepsFound(filter) == match' = filter /\ UNCHANGED found

\* doSearchOnce
SearchFor(filter) == match' = filter /\ found' = FALSE

\* discoverRenderer, or connectDirect, at start-up.
DiscoverFails ==
    /\ FinderGoes("discover", "gaveUp")
    /\ IF request.url THEN ~Up("a") ELSE ~running /\ ~found
    /\ UNCHANGED <<readiness, bound, search, lock>>
DiscoverDirect ==
    /\ FinderGoes("discover", "adopt")
    /\ request.url /\ ConnectDirect
    /\ UNCHANGED <<readiness, search, lock>>
DiscoverSearch ==
    /\ FinderGoes("discover", "startSearch")
    /\ running /\ ~request.url /\ ~found
    /\ SearchFor(request.filter)
    /\ UNCHANGED <<readiness, bound, lock>>
\* A result that came after the last search had timed out.
DiscoverLate ==
    /\ FinderGoes("discover", "adopt")
    /\ found
    /\ UNCHANGED <<readiness, bound, search, lock>>

Found ==
    /\ FinderGoes("startSearch", "adopt") \/ FinderGoes("search", "adopt")
    /\ found
    /\ UNCHANGED <<readiness, bound, search, lock>>

\* Once the network is settled a renderer that is there answers in time.
Answers ==
    settled /\ \E name \in {"a", "b"} : Up(name) /\ Matches(match, Description(name))
SearchExpires ==
    /\ ~found /\ ~Answers
    /\ \/ FinderGoes("startSearch", "discover") /\ UNCHANGED lostAt
       \/ FinderGoes("search", "sleep") /\ lostAt' = "recent"
    /\ UNCHANGED <<ready, bound, search, lock>>

\* queryProtocolInfo, and perhaps setVolume; whatever comes of it, the renderer
\* counts as ready.
Query    == finderPc = "adopt" /\ finderPc' = "query" /\ SoapBegin("finder")
QueryEnd == finderPc = "query" /\ finderPc' = "revive" /\ SoapEnd("finder")
Revive ==
    /\ FinderGoes("revive", "clear")
    /\ ready' = TRUE
    /\ UNCHANGED <<lostAt, bound, search, lock>>
Clear ==
    /\ FinderGoes("clear", "sleep")
    /\ lostAt' = "zero"
    /\ UNCHANGED <<ready, bound, search, lock>>

\* The watchdog wakes.
Probe    == finderPc = "sleep" /\ watching = "yes" /\ ready /\ finderPc' = "probe" /\ SoapBegin("finder")
ProbeEnd == finderPc = "probe" /\ finderPc' = "sleep" /\ SoapEnd("finder")

\* Slip: what was asked for at start-up is searched again.
RediscoverFilterAny == request.filter

\* Without a filter the search is pinned to the renderer's own name, to which
\* the name of another may be a match.
RediscoverFilter == IF match = "" THEN bound.name ELSE match

\* rediscoverIfLost
Lost == watching = "yes" /\ ~ready /\ lostAt = "old"
RediscoverSearch ==
    /\ FinderGoes("sleep", "search")
    /\ Lost /\ ~request.url
    /\ SearchFor(RediscoverFilter)
    /\ UNCHANGED <<readiness, bound, lock>>
RediscoverDirect ==
    /\ FinderGoes("sleep", "adopt")
    /\ Lost /\ request.url /\ ConnectDirect
    /\ UNCHANGED <<readiness, search, lock>>
RediscoverFails ==
    /\ FinderGoes("sleep", "sleep")
    /\ Lost /\ request.url /\ ~Up("a")
    /\ lostAt' = "recent"
    /\ UNCHANGED <<ready, bound, search, lock>>
WatchdogEnds ==
    /\ FinderGoes("sleep", "off") /\ watching = "stopped"
    /\ UNCHANGED <<readiness, bound, search, lock>>

GraceEnds ==
    /\ ~ready /\ lostAt = "recent" /\ lostAt' = "old"
    /\ UNCHANGED <<network, request, running, ready, bound, search, lock, reviving,
                   watching, finderPc>>

Network  == Vanish \/ Boot \/ Settle
Handlers == Result \/ Byebye \/ Alive \/ AliveApply \/ AliveEnds
Finder ==
    \/ DiscoverFails \/ DiscoverDirect \/ DiscoverSearch \/ DiscoverLate
    \/ Found \/ SearchExpires \/ Query \/ QueryEnd \/ Revive \/ Clear
    \/ Probe \/ ProbeEnd \/ RediscoverSearch \/ RediscoverDirect \/ RediscoverFails
    \/ WatchdogEnds
=============================================================================
