------------------------- MODULE StreamControlProofs -------------------------
(***************************************************************************)
(* Proofs about StreamControl, for every number of tracks, stops and losses *)
(* and every set of kinds: its types; that a cold start assigns over no    *)
(* thread; that the threads alive are the one held and those whose wait    *)
(* expired; and, until the first wait expires, that there is one audio     *)
(* thread at a time, that no join of the slimproto thread waits, which     *)
(* slot the thread writes to and what a ring holds.                        *)
(***************************************************************************)
EXTENDS StreamControl, FiniteSetTheorems, TLAPS

\* A cold start is on its way.
Cold == {"rendererStop", "join", "reset", "connect", "spawn"}
Starting == Cold \cup {"seek", "seekWait", "seekJoin", "route", "queue"}

\* One spawn at most for each strm-s.
SpawnsCounted ==
    /\ generation <= strm
    /\ slimPc \in Starting => generation < strm

\* The thread of a generation to come is unborn, a living one is held or was
\* detached, none is held where a cold start assigns a new one, and the slimproto
\* thread has seen audioThreadDone where it joins and on.
Sure == Cold \cup {"seekJoin"}
Held ==
    /\ \A t \in Thread : t > generation <=> th[t].pc = "unborn"
    /\ Alive \subseteq orphans \cup {handle}
    /\ handle <= generation
    /\ SpawnIsSafe
    /\ slimPc \in Sure => done

\* Until a wait expires the only thread alive is the newest, and audioThreadDone
\* tells the truth.
Truthful == \A t \in Alive : t = generation /\ t = handle /\ ~done

\* A living thread plays a track.
HasTrack == \A t \in Alive : th[t].track # 0

TypeInv == TypeOK /\ SpawnsCounted /\ HasTrack
Inv     == TypeInv /\ Held /\ (orphans = {} => Truthful)

\* What an audio thread does.
AudioAct(t) == Audio(t) \/ NearEndByClock(t)

-----------------------------------------------------------------------------
(* Types.                                                                  *)

\* Small facts about the records, each for one form the actions give them.
LEMMA AbsentIsThread ==
    ASSUME NEW p \in AudioPcs
    PROVE  Absent(p) \in ThreadRecord
<1>1. 0 \in Slot /\ 0 \in 0..MaxTrack
  BY StreamAssumption DEF Slot
<1> QED
  BY <1>1 DEF ThreadRecord, Absent

LEMMA BornIsThread ==
    ASSUME NEW k \in 0..MaxTrack
    PROVE  [Absent("begin") EXCEPT !.track = k] \in ThreadRecord
<1>1. Absent("begin") \in ThreadRecord
  BY AbsentIsThread DEF AudioPcs
<1> QED
  BY <1>1 DEF ThreadRecord

LEMMA EosKeepsSlots ==
    ASSUME slots \in [Slot -> SlotRecord], NEW s \in Slot
    PROVE  [slots EXCEPT ![s].eos = TRUE] \in [Slot -> SlotRecord]
BY DEF SlotRecord

LEMMA ReadyKeepsSlots ==
    ASSUME slots \in [Slot -> SlotRecord], NEW s \in Slot
    PROVE  [slots EXCEPT ![s].ready = TRUE] \in [Slot -> SlotRecord]
BY DEF SlotRecord

LEMMA EmptyIsSlot == EmptySlot \in SlotRecord
BY DEF SlotRecord, EmptySlot

LEMMA StopKeepsRenderer ==
    ASSUME rend \in Renderer, RendererStop
    PROVE  rend' \in Renderer
<1>1. NoSlot \in 0..2
  BY DEF NoSlot
<1> QED
  BY <1>1 DEF Renderer, RendererStop

LEMMA PlayKeepsRenderer ==
    ASSUME rend \in Renderer, RendererPlay
    PROVE  rend' \in Renderer
BY DEF Renderer, RendererPlay

LEMMA OtherSlot ==
    ASSUME currentSlot \in Slot
    PROVE  1 - currentSlot \in Slot /\ 1 - currentSlot \in 0..2
BY DEF Slot

\* A thread that goes to a point of the loop, changing nothing else of its own.
LEMMA AtIsThread ==
    ASSUME NEW t \in Thread, th[t] \in ThreadRecord, NEW p \in AudioPcs
    PROVE  At(t, p) \in ThreadRecord
BY DEF ThreadRecord, At

LEMMA ThreadMoves ==
    ASSUME TypeOK, NEW t \in Thread, NEW from, NEW new \in ThreadRecord,
           AudioGoes(t, from, new)
    PROVE  th' \in [Thread -> ThreadRecord]
BY DEF TypeOK, AudioGoes

\* Each step of an audio thread keeps the types.
LEMMA AudioType ==
    ASSUME TypeOK, HasTrack, NEW t \in Thread, AudioAct(t)
    PROVE  TypeOK'
<1>0. th[t] \in ThreadRecord /\ \A p \in AudioPcs : At(t, p) \in ThreadRecord
  BY AtIsThread DEF TypeOK
<1>p. /\ "fill" \in AudioPcs /\ "publish" \in AudioPcs /\ "end" \in AudioPcs
      /\ "play" \in AudioPcs /\ "tail" \in AudioPcs /\ "setNext" \in AudioPcs
      /\ "sleep" \in AudioPcs /\ "switch" \in AudioPcs /\ "stopOld" \in AudioPcs
      /\ "stream" \in AudioPcs /\ "handOver" \in AudioPcs /\ "near" \in AudioPcs
      /\ "wait" \in AudioPcs /\ "take" \in AudioPcs /\ "rehook" \in AudioPcs
      /\ "mark" \in AudioPcs /\ "dead" \in AudioPcs /\ "begin" \in AudioPcs
      /\ "fillWrite" \in AudioPcs /\ "streamWrite" \in AudioPcs
  BY DEF AudioPcs
<1>s. 1 - currentSlot \in Slot /\ 1 - currentSlot \in 0..2 /\ currentSlot \in Slot
  BY OtherSlot DEF TypeOK
<1> USE DEF TypeOK, AudioFrame, flags, queue, lms, mains
<1>1. CASE Begin(t)
  <2> DEFINE s == IF th[t].first THEN currentSlot ELSE 1 - currentSlot
  <2>1. s \in Slot
    BY <1>s
  <2>2. AudioGoes(t, "begin", [At(t, "fill") EXCEPT !.slot = s])
        /\ slots' = [slots EXCEPT ![s] = EmptySlot]
    BY <1>1 DEF Begin
  <2> HIDE DEF s
  <2>3. [At(t, "fill") EXCEPT !.slot = s] \in ThreadRecord
    BY <1>0, <1>p, <2>1 DEF ThreadRecord
  <2>4. th' \in [Thread -> ThreadRecord]
    BY <2>2, <2>3, ThreadMoves
  <2>5. slots' \in [Slot -> SlotRecord]
    BY <2>1, <2>2, EmptyIsSlot
  <2> QED
    BY <1>1, <2>4, <2>5 DEF Begin, AudioGoes
<1>2. CASE FillDone(t)
  BY <1>0, <1>p, <1>2, ThreadMoves DEF FillDone, AudioGoes
<1>3. CASE Publish(t)
  <2>1. th' \in [Thread -> ThreadRecord]
    BY <1>0, <1>p, <1>3, ThreadMoves DEF Publish
  <2>2. /\ th[t].slot \in Slot
        /\ slots' = [slots EXCEPT ![th[t].slot].ready = TRUE]
    BY <1>0, <1>3 DEF Publish, ThreadRecord
  <2>3. slots' \in [Slot -> SlotRecord]
    BY <2>2, ReadyKeepsSlots
  <2> QED
    BY <1>3, <2>1, <2>3 DEF Publish, AudioGoes
<1>4. CASE Tail(t)
  BY <1>0, <1>p, <1>4, ThreadMoves DEF Tail, AudioGoes
<1>5. CASE Sleep(t)
  BY <1>0, <1>p, <1>5, ThreadMoves DEF Sleep, AudioGoes
<1>6. CASE Switch(t)
  <2>1. th' \in [Thread -> ThreadRecord]
    BY <1>0, <1>p, <1>6, ThreadMoves DEF Switch
  <2>2. slots' \in [Slot -> SlotRecord]
    BY <1>6, EosKeepsSlots DEF Switch, SignalEos
  <2> QED
    BY <1>6, <2>1, <2>2 DEF Switch, AudioGoes
<1>7. CASE StopOld(t)
  <2>1. th' \in [Thread -> ThreadRecord]
    BY <1>0, <1>p, <1>7, ThreadMoves DEF StopOld
  <2>2. rend' \in Renderer
    BY <1>7, StopKeepsRenderer DEF StopOld
  <2> QED
    BY <1>7, <1>s, <2>1, <2>2 DEF StopOld, AudioGoes
<1>8. CASE SpawnPlayer(t)
  <2>1. th' \in [Thread -> ThreadRecord]
    BY <1>0, <1>p, <1>8, ThreadMoves DEF SpawnPlayer
  <2>2. players' \subseteq PlayerRecord
    BY <1>0, <1>8 DEF SpawnPlayer, PlayerRecord, ThreadRecord
  <2> QED
    BY <1>8, <2>1, <2>2 DEF SpawnPlayer, AudioGoes
<1>9. CASE SetNext(t)
  <2>1. th' \in [Thread -> ThreadRecord]
    BY <1>0, <1>p, <1>9, ThreadMoves DEF SetNext
  <2>2. rend' \in Renderer
    BY <1>9, <1>s DEF SetNext, Renderer
  <2> QED
    BY <1>9, <2>1, <2>2 DEF SetNext, AudioGoes
<1>10. CASE HandOver(t)
  <2>1. th' \in [Thread -> ThreadRecord]
    BY <1>0, <1>p, <1>10, ThreadMoves DEF HandOver
  <2>2. slots' \in [Slot -> SlotRecord]
    BY <1>10, EosKeepsSlots DEF HandOver, SignalEos
  <2> QED
    BY <1>10, <1>s, <2>1, <2>2 DEF HandOver, AudioGoes
<1>11. ASSUME NEW loop \in {"fill", "stream"}, NEW write \in {"fillWrite", "streamWrite"},
              Read(t, loop, write)
       PROVE  TypeOK'
  <2>0. http.track \in 0..MaxTrack /\ At(t, write) \in ThreadRecord
    BY <1>0, <1>p
  <2>1. [At(t, write) EXCEPT !.chunk = http.track] \in ThreadRecord
    BY <2>0 DEF ThreadRecord
  <2> QED
    BY <1>11, <2>1, ThreadMoves DEF Read, AudioGoes
<1>12. ASSUME NEW loop \in {"fill", "stream"}, NEW write \in {"fillWrite", "streamWrite"},
              Write(t, write, loop)
       PROVE  TypeOK'
  <2>0. 0 \in 0..MaxTrack /\ At(t, loop) \in ThreadRecord
    BY <1>0, <1>p, StreamAssumption
  <2>1. [At(t, loop) EXCEPT !.chunk = 0, !.pre = TRUE] \in ThreadRecord
    BY <2>0 DEF ThreadRecord
  <2>2. th' \in [Thread -> ThreadRecord]
    BY <1>12, <2>1, ThreadMoves DEF Write
  <2>3. slots' \in [Slot -> SlotRecord]
    BY <1>0, <1>12 DEF Write, SlotRecord, ThreadRecord
  <2> QED
    BY <1>12, <2>2, <2>3 DEF Write, AudioGoes
<1>13. ASSUME NEW loop \in {"fill", "stream"}, Eof(t, loop)
       PROVE  TypeOK'
  <2>0. At(t, loop) \in ThreadRecord
    BY <1>0, <1>p
  <2>1. [At(t, loop) EXCEPT !.eof = TRUE] \in ThreadRecord
    BY <2>0 DEF ThreadRecord
  <2> QED
    BY <1>13, <2>1, ThreadMoves DEF Eof, AudioGoes
<1>14. CASE StreamDone(t)
  <2>1. th' \in [Thread -> ThreadRecord]
    BY <1>0, <1>p, <1>14, ThreadMoves DEF StreamDone
  <2>2. slots' \in [Slot -> SlotRecord]
    BY <1>0, <1>14, EosKeepsSlots DEF StreamDone, ThreadRecord
  <2> QED
    BY <1>14, <2>1, <2>2 DEF StreamDone, AudioGoes
<1>15. CASE NearEnd(t) \/ NearEndByClock(t)
  <2>1. My(t).timed \in BOOLEAN
    <3>1. t \in Alive
      BY <1>15 DEF NearEnd, NearEndByClock, AfterNear, AudioGoes, Alive
    <3>2. th[t].track \in Track
      BY <1>0, <3>1 DEF HasTrack, ThreadRecord, Track
    <3> QED
      BY <3>2, StreamAssumption DEF My
  <2>2. [At(t, "wait") EXCEPT !.tail = My(t).timed] \in ThreadRecord
    BY <1>0, <1>p, <2>1 DEF ThreadRecord
  <2> QED
    BY <1>15, <2>2, ThreadMoves DEF NearEnd, NearEndByClock, AfterNear, AudioGoes
<1>16. CASE Wait(t)
  BY <1>0, <1>p, <1>16, ThreadMoves DEF Wait, AudioGoes
<1>17. CASE Take(t)
  <2>1. [At(t, "rehook") EXCEPT !.prev = th[t].track, !.track = pending] \in ThreadRecord
    BY <1>0, <1>p DEF ThreadRecord
  <2>2. th' \in [Thread -> ThreadRecord]
    BY <1>0, <1>p, <1>17, <2>1, ThreadMoves DEF Take
  <2>3. 0 \in 0..MaxTrack
    BY StreamAssumption
  <2> QED
    BY <1>17, <2>2, <2>3 DEF Take, AudioGoes
<1>18. CASE Rehook(t)
  <2>1. [At(t, "begin") EXCEPT !.first = FALSE, !.eof = FALSE, !.pre = FALSE]
          \in ThreadRecord
    BY <1>0, <1>p DEF ThreadRecord
  <2>2. th' \in [Thread -> ThreadRecord]
    BY <1>18, <2>1, ThreadMoves DEF Rehook
  <2> QED
    BY <1>0, <1>18, <2>2 DEF Rehook, AudioGoes, ThreadRecord
<1>19. CASE End(t)
  <2>1. th' \in [Thread -> ThreadRecord]
    BY <1>0, <1>p, <1>19, ThreadMoves DEF End
  <2>2. slots' \in [Slot -> SlotRecord]
    BY <1>0, <1>19, EosKeepsSlots DEF End, ThreadRecord
  <2> QED
    BY <1>19, <2>1, <2>2 DEF End, AudioGoes
<1>20. CASE Mark(t)
  <2>1. th' \in [Thread -> ThreadRecord]
    BY <1>p, <1>20, AbsentIsThread, ThreadMoves DEF Mark
  <2> QED
    BY <1>20, <2>1 DEF Mark, AudioGoes
<1> QED
  BY <1>1, <1>2, <1>3, <1>4, <1>5, <1>6, <1>7, <1>8, <1>9, <1>10, <1>11, <1>12,
     <1>13, <1>14, <1>15, <1>16, <1>17, <1>18, <1>19, <1>20
     DEF Audio, AudioAct

\* What every step of an audio thread has in common: it was alive, only its own
\* record changes, and it tells it is done as it dies.
OwnStep(t) ==
    /\ t \in Alive
    /\ UNCHANGED <<handle, generation, orphans, strm, slimPc>>
    /\ \A u \in Thread \ {t} : th'[u] = th[u]
    /\ th'[t].pc # "unborn"
    /\ th'[t].pc # "dead" => done' = done /\ th'[t].track # 0
    /\ done => done'

LEMMA Moves ==
    ASSUME TypeOK, HasTrack, NEW t \in Thread, NEW from, from \notin {"unborn", "dead"},
           NEW new, AudioGoes(t, from, new),
           new.pc # "unborn",
           new.pc # "dead" => done' = done /\ new.track # 0,
           done => done'
    PROVE  OwnStep(t)
BY DEF TypeOK, AudioGoes, AudioFrame, OwnStep, Alive

LEMMA AudioOwnStep ==
    ASSUME TypeOK, HasTrack, NEW t \in Thread, AudioAct(t)
    PROVE  OwnStep(t)
<1>1. th[t] \in ThreadRecord /\ (t \in Alive => th[t].track # 0)
  BY DEF TypeOK, HasTrack
<1>2. ASSUME NEW from, NEW p, p # "unborn", from \notin {"unborn", "dead"},
             AudioGoes(t, from, At(t, p)), done' = done
      PROVE  OwnStep(t)
  <2>1. At(t, p).pc = p /\ At(t, p).track = th[t].track
    BY <1>1 DEF At, ThreadRecord
  <2>2. t \in Alive
    BY <1>2 DEF AudioGoes, Alive
  <2> QED
    BY <1>1, <1>2, <2>1, <2>2, Moves
<1>3. CASE Begin(t)
  <2> DEFINE new == [At(t, "fill") EXCEPT !.slot = IF th[t].first THEN currentSlot
                                                    ELSE 1 - currentSlot]
  <2>1. AudioGoes(t, "begin", new) /\ done' = done
    BY <1>3 DEF Begin
  <2>2. new.pc = "fill" /\ new.track = th[t].track
    BY <1>1 DEF At, ThreadRecord
  <2>3. t \in Alive
    BY <2>1 DEF AudioGoes, Alive
  <2> QED
    BY <1>1, <2>1, <2>2, <2>3, Moves
<1>4. CASE FillDone(t) \/ Publish(t) \/ Tail(t) \/ Sleep(t) \/ Switch(t) \/ StopOld(t)
           \/ SpawnPlayer(t) \/ SetNext(t) \/ HandOver(t) \/ StreamDone(t)
           \/ Wait(t) \/ End(t)
  BY <1>2, <1>4 DEF FillDone, Publish, Tail, Sleep, Switch, StopOld, SpawnPlayer,
     SetNext, HandOver, StreamDone, Wait, End
<1>5. ASSUME NEW loop \in {"fill", "stream"}, NEW write \in {"fillWrite", "streamWrite"},
             Read(t, loop, write)
      PROVE  OwnStep(t)
  <2> DEFINE new == [At(t, write) EXCEPT !.chunk = http.track]
  <2>1. AudioGoes(t, loop, new) /\ done' = done
    BY <1>5 DEF Read
  <2>2. new.pc = write /\ new.track = th[t].track
    BY <1>1 DEF At, ThreadRecord
  <2>3. t \in Alive
    BY <2>1 DEF AudioGoes, Alive
  <2> QED
    BY <1>1, <2>1, <2>2, <2>3, Moves
<1>6. ASSUME NEW loop \in {"fill", "stream"}, NEW write \in {"fillWrite", "streamWrite"},
             Write(t, write, loop)
      PROVE  OwnStep(t)
  <2> DEFINE new == [At(t, loop) EXCEPT !.chunk = 0, !.pre = TRUE]
  <2>1. AudioGoes(t, write, new) /\ done' = done
    BY <1>6 DEF Write
  <2>2. new.pc = loop /\ new.track = th[t].track
    BY <1>1 DEF At, ThreadRecord
  <2>3. t \in Alive
    BY <2>1 DEF AudioGoes, Alive
  <2> QED
    BY <1>1, <2>1, <2>2, <2>3, Moves
<1>7. ASSUME NEW loop \in {"fill", "stream"}, Eof(t, loop)
      PROVE  OwnStep(t)
  <2> DEFINE new == [At(t, loop) EXCEPT !.eof = TRUE]
  <2>1. AudioGoes(t, loop, new) /\ done' = done
    BY <1>7 DEF Eof
  <2>2. new.pc = loop /\ new.track = th[t].track
    BY <1>1 DEF At, ThreadRecord
  <2>3. t \in Alive
    BY <2>1 DEF AudioGoes, Alive
  <2> QED
    BY <1>1, <2>1, <2>2, <2>3, Moves
<1>8. CASE NearEnd(t) \/ NearEndByClock(t)
  <2> DEFINE new == [At(t, "wait") EXCEPT !.tail = My(t).timed]
  <2>1. AudioGoes(t, "near", new) /\ done' = done
    BY <1>8 DEF NearEnd, NearEndByClock, AfterNear
  <2>2. new.pc = "wait" /\ new.track = th[t].track
    BY <1>1 DEF At, ThreadRecord
  <2>3. t \in Alive
    BY <2>1 DEF AudioGoes, Alive
  <2> QED
    BY <1>1, <2>1, <2>2, <2>3, Moves
<1>9. CASE Take(t)
  <2>1. CASE pending = 0
    BY <1>2, <1>9, <2>1 DEF Take
  <2>2. CASE pending # 0
    <3> DEFINE new == [At(t, "rehook") EXCEPT !.prev = th[t].track, !.track = pending]
    <3>1. AudioGoes(t, "take", new) /\ done' = done
      BY <1>9, <2>2 DEF Take
    <3>2. new.pc = "rehook" /\ new.track = pending
      BY <1>1 DEF At, ThreadRecord
    <3> QED
      BY <2>2, <3>1, <3>2, Moves
  <2> QED
    BY <2>1, <2>2
<1>10. CASE Rehook(t)
  <2> DEFINE new == [At(t, "begin") EXCEPT !.first = FALSE, !.eof = FALSE, !.pre = FALSE]
  <2>1. AudioGoes(t, "rehook", new) /\ done' = done
    BY <1>10 DEF Rehook
  <2>2. new.pc = "begin" /\ new.track = th[t].track
    BY <1>1 DEF At, ThreadRecord
  <2>3. t \in Alive
    BY <2>1 DEF AudioGoes, Alive
  <2> QED
    BY <1>1, <2>1, <2>2, <2>3, Moves
<1>11. CASE Mark(t)
  <2>1. Absent("dead").pc = "dead" /\ done'
    BY <1>11 DEF Absent, Mark
  <2> QED
    BY <1>11, <2>1, Moves DEF Mark
<1> QED
  BY <1>3, <1>4, <1>5, <1>6, <1>7, <1>8, <1>9, <1>10, <1>11 DEF Audio, AudioAct

\* A thread that is detached is one of the threads.
LEMMA DetachType ==
    ASSUME TypeOK, Detaches
    PROVE  handle' \in 0..MaxTrack /\ orphans' \subseteq Thread
BY StreamAssumption DEF Detaches, TypeOK, Thread

LEMMA JoinType ==
    ASSUME Joins
    PROVE  handle' \in 0..MaxTrack
BY StreamAssumption DEF Joins

\* A step of the slimproto thread other than Spawn leaves the threads alone.
LEMMA SlimType ==
    ASSUME TypeInv, SlimCommand \/ SlimCall, ~Spawn
    PROVE  TypeInv' /\ UNCHANGED <<th, generation>>
<1> USE DEF SlimGoes, SlimPcs, SpawnsCounted, Starting, Cold, flags, queue, lms, mains
<1>e. 0 \in 0..MaxTrack /\ 0 \in Slot /\ EmptySlot \in SlotRecord
  BY StreamAssumption, EmptyIsSlot DEF Slot
<1>t. TypeOK /\ SpawnsCounted /\ HasTrack
  BY DEF TypeInv
<1>1. CASE StrmStart
  <2>1. strm + 1 \in 0..MaxTrack /\ generation < strm + 1
    BY <1>t, <1>1, StreamAssumption DEF StrmStart, TypeOK
  <2>2. TypeOK'
    BY <1>t, <1>1, <2>1 DEF StrmStart, TypeOK
  <2> QED
    BY <1>t, <1>1, <2>1, <2>2 DEF StrmStart, TypeOK, TypeInv, HasTrack, Alive
<1>2. CASE StrmPause \/ StrmUnpause
  <2>1. rend' \in Renderer
    BY <1>t, <1>2, PlayKeepsRenderer DEF StrmPause, StrmUnpause, TypeOK, Renderer
  <2> QED
    BY <1>t, <1>e, <1>2, <2>1 DEF StrmPause, StrmUnpause, TypeOK, TypeInv, HasTrack, Alive
<1>10. CASE StrmStop
  <2>1. cuts' \in 0..MaxCuts
    BY <1>t, <1>10, StreamAssumption DEF StrmStop, TypeOK
  <2> QED
    BY <1>t, <1>e, <1>10, <2>1 DEF StrmStop, TypeOK, TypeInv, HasTrack, Alive
<1>3. CASE SeekSkip \/ SeekWait \/ SeekDone \/ Route
  BY <1>t, <1>e, <1>3
     DEF SeekSkip, SeekWait, SeekDone, Route, TypeOK, TypeInv, HasTrack, Alive
<1>11. CASE SeekJoin
  <2>1. handle' \in 0..MaxTrack
    BY <1>11, JoinType DEF SeekJoin
  <2> QED
    BY <1>t, <1>11, <2>1 DEF SeekJoin, TypeOK, TypeInv, HasTrack, Alive
<1>12. CASE SeekExpire
  <2>1. handle' \in 0..MaxTrack /\ orphans' \subseteq Thread
    BY <1>t, <1>12, DetachType DEF SeekExpire
  <2> QED
    BY <1>t, <1>12, <2>1 DEF SeekExpire, TypeOK, TypeInv, HasTrack, Alive
<1>4. CASE QueueFails \/ Queue
  BY <1>t, <1>4 DEF QueueFails, Queue, TypeOK, TypeInv, HasTrack, Alive
<1>5. CASE ColdStop \/ StopRenderer
  <2>1. rend' \in Renderer
    BY <1>t, <1>5, StopKeepsRenderer DEF ColdStop, StopRenderer, TypeOK
  <2> QED
    BY <1>t, <1>5, <2>1 DEF ColdStop, StopRenderer, TypeOK, TypeInv, HasTrack, Alive
<1>6. CASE ColdJoin
  <2>1. handle' \in 0..MaxTrack
    BY <1>6, JoinType DEF ColdJoin
  <2> QED
    BY <1>t, <1>6, <2>1 DEF ColdJoin, TypeOK, TypeInv, HasTrack, Alive
<1>7. CASE ColdReset \/ StopReset
  BY <1>t, <1>e, <1>7
     DEF ColdReset, StopReset, ResetBoth, TypeOK, TypeInv, HasTrack, Alive
<1>8. CASE ColdFails \/ ColdConnect
  <2>0. strm \in 0..MaxTrack
    BY <1>t DEF TypeOK
  <2>1. http' \in [track : 0..MaxTrack, open : BOOLEAN]
    <3>1. PICK b \in BOOLEAN : http' = [track |-> strm, open |-> b]
      BY <1>8 DEF ColdFails, ColdConnect
    <3> QED
      BY <2>0, <3>1
  <2> QED
    BY <1>t, <1>8, <2>1 DEF ColdFails, ColdConnect, TypeOK, TypeInv, HasTrack, Alive
<1>9. CASE StopHalt \/ StopHangup
  <2>1. http' \in [track : 0..MaxTrack, open : BOOLEAN]
    BY <1>t, <1>9 DEF StopHalt, StopHangup, TypeOK
  <2> QED
    BY <1>t, <1>9, <2>1 DEF StopHalt, StopHangup, TypeOK, TypeInv, HasTrack, Alive
<1> QED
  BY <1>1, <1>2, <1>3, <1>4, <1>5, <1>6, <1>7, <1>8, <1>9, <1>10, <1>11, <1>12
     DEF SlimCommand, SlimCall

\* The new thread takes the next generation, unborn until now.
LEMMA SpawnType ==
    ASSUME TypeInv, Spawn
    PROVE  /\ TypeInv'
           /\ generation + 1 \in Thread
           /\ th'[generation + 1].pc = "begin"
           /\ \A u \in Thread \ {generation + 1} : th'[u] = th[u]
<1>t. TypeOK /\ SpawnsCounted /\ HasTrack
  BY DEF TypeInv
<1>1. /\ generation \in Nat /\ strm \in Nat /\ MaxTrack \in Nat
      /\ generation < strm /\ strm <= MaxTrack
  BY <1>t, StreamAssumption DEF TypeOK, SpawnsCounted, Starting, Cold, Spawn
<1>2. generation + 1 \in Thread /\ generation + 1 \in 0..MaxTrack /\ generation + 1 <= strm
      /\ strm # 0 /\ strm \in 0..MaxTrack
  BY <1>1 DEF Thread
<1> DEFINE g == generation + 1
           new == [Absent("begin") EXCEPT !.track = strm]
<1>3. new \in ThreadRecord /\ new.pc = "begin" /\ new.track # 0
  <2>1. new \in ThreadRecord
    BY <1>2, BornIsThread
  <2> QED
    BY <1>2, <2>1 DEF Absent
<1>4. th' = [th EXCEPT ![g] = new] /\ handle' = g /\ generation' = g
      /\ strm' = strm /\ slimPc' = "idle"
  BY DEF Spawn, lms
<1> HIDE DEF g, new
<1>5. th' \in [Thread -> ThreadRecord] /\ th'[g] = new
      /\ \A u \in Thread \ {g} : th'[u] = th[u]
  BY <1>t, <1>2, <1>3, <1>4 DEF TypeOK, g
<1>6. TypeOK'
  BY <1>t, <1>2, <1>4, <1>5 DEF Spawn, TypeOK, g, queue, lms, mains, SlimPcs
<1>7. SpawnsCounted'
  BY <1>2, <1>4 DEF SpawnsCounted, Starting, Cold, g
<1>8. HasTrack'
  BY <1>t, <1>2, <1>3, <1>5 DEF HasTrack, Alive, g
<1> QED
  BY <1>2, <1>3, <1>5, <1>6, <1>7, <1>8 DEF TypeInv, g

LEMMA PlayerType ==
    ASSUME TypeInv, NEW p \in players, Player(p)
    PROVE  TypeInv' /\ UNCHANGED <<flags, strm, slimPc, th>>
<1>t. TypeOK /\ SpawnsCounted /\ HasTrack /\ p \in PlayerRecord
  BY DEF TypeInv, TypeOK
<1>1. ASSUME NEW pcs \in SUBSET {"check", "play"},
             PlayerGoes(p, pcs), rend' \in Renderer
      PROVE  TypeInv' /\ UNCHANGED <<flags, strm, slimPc, th>>
  <2>1. \A c \in pcs : [p EXCEPT !.pc = c] \in PlayerRecord
    BY <1>t DEF PlayerRecord
  <2>2. players' \subseteq PlayerRecord
    BY <1>t, <1>1, <2>1 DEF PlayerGoes, TypeOK
  <2> QED
    BY <1>t, <1>1, <2>2
       DEF PlayerGoes, TypeOK, TypeInv, SpawnsCounted, HasTrack, Alive, flags, queue, lms, mains
<1>2. CASE PlayerUri(p)
  <2>1. p.slot \in 0..2 /\ NoSlot \in 0..2
    BY <1>t DEF PlayerRecord, Slot, NoSlot
  <2>2. rend' \in Renderer
    BY <1>t, <1>2, <2>1 DEF PlayerUri, Renderer, TypeOK
  <2> QED
    BY <1>1, <1>2, <2>2 DEF PlayerUri
<1>3. CASE PlayerPlay(p)
  <2>1. rend' \in Renderer
    BY <1>t, <1>3, PlayKeepsRenderer DEF PlayerPlay, TypeOK
  <2> QED
    BY <1>1, <1>3, <2>1 DEF PlayerPlay
<1>4. CASE PlayerCheck(p)
  BY <1>t, <1>1, <1>4 DEF PlayerCheck, TypeOK
<1> QED
  BY <1>2, <1>3, <1>4 DEF Player

LEMMA MainType ==
    ASSUME TypeInv, Main
    PROVE  TypeInv' /\ UNCHANGED <<generation, th, slimPc>>
<1> USE DEF MainGoes, MainPcs, TypeOK, SpawnsCounted, HasTrack, Alive, flags, queue, lms, mains
<1>t. TypeOK /\ SpawnsCounted /\ HasTrack /\ 0 \in 0..MaxTrack
  BY StreamAssumption DEF TypeInv
<1>1. CASE MainHalt
  <2>1. cuts' \in 0..MaxCuts
    BY <1>t, <1>1, StreamAssumption DEF MainHalt
  <2> QED
    BY <1>t, <1>1, <2>1 DEF MainHalt, TypeInv
<1>2. CASE MainHangup
  <2>1. http' \in [track : 0..MaxTrack, open : BOOLEAN]
    BY <1>t, <1>2 DEF MainHangup
  <2> QED
    BY <1>t, <1>2, <2>1 DEF MainHangup, TypeInv
<1>3. CASE MainSignal
  <2>1. slots' \in [Slot -> SlotRecord]
    BY <1>t, <1>3 DEF MainSignal, SlotRecord
  <2> QED
    BY <1>t, <1>3, <2>1 DEF MainSignal, TypeInv
<1>4. CASE MainDone \/ MainDisconnect \/ MainReconnect
  BY <1>t, <1>4 DEF MainDone, MainDisconnect, MainReconnect, TypeInv
<1>6. CASE MainJoin
  <2>1. handle' \in 0..MaxTrack
    BY <1>6, JoinType DEF MainJoin
  <2> QED
    BY <1>t, <1>6, <2>1 DEF MainJoin, TypeInv
<1>7. CASE MainExpire
  <2>1. handle' \in 0..MaxTrack /\ orphans' \subseteq Thread
    BY <1>t, <1>7, DetachType DEF MainExpire
  <2> QED
    BY <1>t, <1>7, <2>1 DEF MainExpire, TypeInv
<1>5. CASE MainSilence
  <2>1. rend' \in Renderer
    BY <1>t, <1>5, StopKeepsRenderer DEF MainSilence
  <2> QED
    BY <1>t, <1>5, <2>1 DEF MainSilence, TypeInv
<1> QED
  BY <1>1, <1>2, <1>3, <1>4, <1>5, <1>6, <1>7 DEF Main

LEMMA EndsType ==
    ASSUME TypeInv, RendererEnds
    PROVE  TypeInv' /\ UNCHANGED <<flags, strm, slimPc, th>>
<1>0. NoSlot \in 0..2 /\ rend \in Renderer
  BY DEF TypeInv, TypeOK, NoSlot
<1>1. rend' \in Renderer
  BY <1>0 DEF RendererEnds, Renderer
<1> QED
  BY <1>1 DEF RendererEnds, TypeInv, TypeOK, SpawnsCounted, HasTrack, Alive, flags, queue,
     lms, mains

LEMMA TypeInit == Init => TypeInv
<1> SUFFICES ASSUME Init PROVE TypeInv
  OBVIOUS
<1>1. /\ 0 \in 0..MaxTrack /\ 0 \in 0..MaxCuts /\ 0 \in Slot
      /\ EmptySlot \in SlotRecord /\ Absent("unborn") \in ThreadRecord
  BY StreamAssumption, EmptyIsSlot, AbsentIsThread DEF Slot, AudioPcs
<1>2. rend \in Renderer
  <2>1. NoSlot \in 0..2
    BY DEF NoSlot
  <2> QED
    BY <2>1 DEF Init, Renderer
<1>3. \A t \in Thread : th[t].pc = "unborn"
  BY DEF Init, Absent
<1>4. /\ http \in [track : 0..MaxTrack, open : BOOLEAN]
      /\ slots \in [Slot -> SlotRecord] /\ th \in [Thread -> ThreadRecord]
  BY <1>1 DEF Init
<1>5. TypeOK
  BY <1>1, <1>2, <1>4 DEF Init, TypeOK, SlimPcs, MainPcs
<1>6. SpawnsCounted /\ HasTrack
  BY <1>3 DEF Init, SpawnsCounted, HasTrack, Alive, Starting, Cold
<1> QED
  BY <1>5, <1>6 DEF TypeInv

LEMMA AudioTypeInv ==
    ASSUME TypeInv, NEW t \in Thread, AudioAct(t)
    PROVE  TypeInv' /\ OwnStep(t)
<1>1. TypeOK' /\ OwnStep(t)
  BY AudioType, AudioOwnStep DEF TypeInv
<1>2. SpawnsCounted'
  BY <1>1 DEF OwnStep, TypeInv, SpawnsCounted
<1>3. HasTrack'
  BY <1>1 DEF OwnStep, TypeInv, HasTrack, Alive
<1> QED
  BY <1>1, <1>2, <1>3 DEF TypeInv

LEMMA TypeStep == TypeInv /\ [Next]_vars => TypeInv'
<1> SUFFICES ASSUME TypeInv, [Next]_vars PROVE TypeInv'
  OBVIOUS
<1>1. CASE UNCHANGED vars
  BY <1>1 DEF vars, flags, queue, lms, mains, TypeInv, TypeOK, SpawnsCounted, HasTrack, Alive
<1>2. CASE Spawn
  BY <1>2, SpawnType
<1>3. CASE (SlimCommand \/ SlimCall) /\ ~Spawn
  BY <1>3, SlimType
<1>4. CASE AudioStep
  BY <1>4, AudioTypeInv DEF AudioStep, AudioAct
<1>5. CASE PlayerStep
  BY <1>5, PlayerType DEF PlayerStep
<1>6. CASE Main
  BY <1>6, MainType
<1>7. CASE RendererEnds
  BY <1>7, EndsType
<1> QED
  BY <1>1, <1>2, <1>3, <1>4, <1>5, <1>6, <1>7 DEF Next

\* The variables keep their types: every flag, queue and thread record of the
\* stream callback (main.cpp:540-561) under every interleaving.
THEOREM StreamTypeCorrect == Spec => []TypeOK
<1>1. TypeInv => TypeOK
  BY DEF TypeInv
<1> QED
  BY TypeInit, TypeStep, <1>1, PTL DEF Spec

-----------------------------------------------------------------------------
(* A cold start never assigns over a joinable thread: only a spawn gives   *)
(* audioTestThread a thread, and it comes after the cold start's join.     *)

LEMMA HandleStep == TypeInv /\ SpawnIsSafe /\ [Next]_vars => SpawnIsSafe'
<1> SUFFICES ASSUME TypeInv, SpawnIsSafe, [Next]_vars PROVE SpawnIsSafe'
  OBVIOUS
<1> USE DEF SpawnIsSafe, flags, Joins, Detaches
<1>1. CASE UNCHANGED vars
  BY <1>1 DEF vars
<1>2. CASE SlimCommand \/ SlimCall
  BY <1>2 DEF SlimCommand, SlimCall, SlimGoes, StrmStart, StrmStop, StrmPause, StrmUnpause,
     SeekSkip, SeekWait, SeekDone, SeekJoin, SeekExpire, Route, QueueFails, Queue, ColdStop,
     ColdJoin, ColdReset, ColdFails, ColdConnect, Spawn, StopHalt, StopHangup,
     StopRenderer, StopReset
<1>3. CASE AudioStep
  BY <1>3, AudioTypeInv DEF AudioStep, AudioAct, OwnStep
<1>4. CASE PlayerStep
  BY <1>4, PlayerType DEF PlayerStep
<1>5. CASE Main
  BY <1>5 DEF Main, MainGoes, MainHalt, MainHangup, MainSignal, MainDone, MainJoin, MainExpire,
     MainSilence, MainDisconnect, MainReconnect
<1>6. CASE RendererEnds
  BY <1>6, EndsType
<1> QED
  BY <1>1, <1>2, <1>3, <1>4, <1>5, <1>6 DEF Next

\* The assignment at main.cpp:669 finds no joinable thread, whoever joined or
\* detached the old one, even when the waits time out.
THEOREM SpawnAlwaysSafe == Spec => []SpawnIsSafe
<1>1. Init => SpawnIsSafe
  BY DEF Init, SpawnIsSafe
<1> QED
  BY TypeInit, TypeStep, HandleStep, <1>1, PTL DEF Spec

-----------------------------------------------------------------------------
(* Who is alive, and one audio thread until the first wait expires.        *)

\* What a step other than Spawn may do to the thread that is held.
Leaves == \/ UNCHANGED <<handle, orphans>>
          \/ Joins /\ UNCHANGED orphans
          \/ Detaches

\* A step that runs none of the audio threads keeps what is known of them.
LEMMA ThreadsRest ==
    ASSUME Inv, TypeInv', SpawnIsSafe', UNCHANGED <<th, generation>>, Leaves,
           done' = done \/ (done' /\ handle' = 0),
           slimPc' \in Sure => done'
    PROVE  Inv'
<1>1. /\ Alive' = Alive /\ Alive \subseteq Thread /\ orphans \subseteq orphans'
      /\ handle \in Nat /\ generation \in Nat /\ 0 \notin Thread
  BY StreamAssumption DEF Alive, Thread, Leaves, Detaches, Inv, TypeInv, TypeOK
<1>2. Alive' \subseteq orphans' \cup {handle'}
  <2>1. CASE UNCHANGED <<handle, orphans>>
    BY <1>1, <2>1 DEF Inv, Held
  <2>2. CASE Joins /\ UNCHANGED orphans
    BY <1>1, <2>2 DEF Inv, Held, Joins, Alive
  <2>3. CASE Detaches
    BY <1>1, <2>3 DEF Inv, Held, Detaches
  <2> QED
    BY <2>1, <2>2, <2>3 DEF Leaves
<1>3. handle' <= generation'
  BY <1>1 DEF Inv, Held, Leaves, Joins, Detaches
<1>4. Held'
  BY <1>2, <1>3 DEF Inv, Held
<1>5. ASSUME orphans' = {} PROVE Truthful'
  <2>1. orphans = {} /\ Truthful
    BY <1>1, <1>5 DEF Inv
  <2>2. ASSUME NEW t \in Alive' PROVE t = generation' /\ t = handle' /\ ~done'
    BY <1>1, <1>2, <1>5, <2>1, <2>2 DEF Truthful
  <2> QED
    BY <2>2 DEF Truthful
<1> QED
  BY <1>4, <1>5 DEF Inv

LEMMA AudioKeepsInv ==
    ASSUME Inv, NEW t \in Thread, AudioAct(t)
    PROVE  Inv'
<1>1. TypeInv' /\ OwnStep(t)
  BY AudioTypeInv DEF Inv
<1>2. Alive' \subseteq Alive
  BY <1>1 DEF Alive, OwnStep
<1>3. Held'
  <2>1. \A u \in Thread : u > generation' <=> th'[u].pc = "unborn"
    BY <1>1 DEF OwnStep, Inv, Held, Alive
  <2> QED
    BY <1>1, <1>2, <2>1 DEF OwnStep, Inv, Held, SpawnIsSafe
<1>4. ASSUME orphans' = {} PROVE Truthful'
  <2>1. Truthful /\ UNCHANGED <<handle, generation, slimPc>> /\ t \in Alive
    BY <1>1, <1>4 DEF OwnStep, Inv
  <2>2. t = generation /\ t = handle /\ ~done /\ \A u \in Alive : u = t
    BY <2>1 DEF Truthful
  <2>3. ASSUME NEW u \in Alive' PROVE u = generation' /\ u = handle' /\ ~done'
    BY <1>1, <1>2, <2>1, <2>2, <2>3 DEF OwnStep, Alive
  <2> QED
    BY <2>3 DEF Truthful
<1> QED
  BY <1>1, <1>3, <1>4 DEF Inv

LEMMA SpawnKeepsInv ==
    ASSUME Inv, Spawn
    PROVE  Inv'
<1> DEFINE g == generation + 1
<1>1. /\ TypeInv' /\ g \in Thread /\ th'[g].pc = "begin"
      /\ \A u \in Thread \ {g} : th'[u] = th[u]
  BY SpawnType DEF Inv
<1>2. /\ generation' = g /\ handle' = g /\ done' = FALSE /\ slimPc' = "idle"
      /\ slimPc = "spawn" /\ orphans' = orphans
  BY DEF Spawn
<1>3. generation \in Nat /\ Thread \subseteq Nat /\ 0 \notin Thread
  BY StreamAssumption DEF Inv, TypeInv, TypeOK, Thread
<1>4. Alive \subseteq orphans /\ Alive' \subseteq Alive \cup {g}
  <2>1. Alive \subseteq orphans
    BY <1>2, <1>3 DEF Inv, Held, SpawnIsSafe, Alive
  <2>2. Alive' \subseteq Alive \cup {g}
    BY <1>1 DEF Alive
  <2> QED
    BY <2>1, <2>2
<1>5. Held'
  <2>1. ASSUME NEW u \in Thread PROVE u > g <=> th'[u].pc = "unborn"
    BY <1>1, <1>3 DEF Inv, Held
  <2> QED
    BY <1>2, <1>3, <1>4, <2>1 DEF Held, SpawnIsSafe, Sure, Cold
<1>6. ASSUME orphans' = {} PROVE Truthful'
  BY <1>2, <1>4, <1>6 DEF Truthful
<1> QED
  BY <1>1, <1>5, <1>6 DEF Inv

LEMMA SlimKeepsInv ==
    ASSUME Inv, SlimCommand \/ SlimCall, ~Spawn
    PROVE  Inv'
<1>1. TypeInv' /\ UNCHANGED <<th, generation>>
  BY SlimType DEF Inv
<1>2. SpawnIsSafe'
  BY HandleStep DEF Inv, Held, Next
<1>3. Leaves /\ (done' = done \/ (done' /\ handle' = 0))
  BY DEF Leaves, Joins, Detaches, SlimCommand, SlimCall, SlimGoes, StrmStart, StrmStop,
     StrmPause, StrmUnpause, SeekSkip, SeekWait, SeekDone, SeekJoin, SeekExpire, Route,
     QueueFails, Queue, ColdStop, ColdJoin, ColdReset, ColdFails, ColdConnect, StopHalt,
     StopHangup, StopRenderer, StopReset, flags
<1>4. slimPc \in Sure => done
  BY DEF Inv, Held
<1>5. slimPc' \in Sure => done'
  BY <1>3, <1>4 DEF Sure, Cold, SlimCommand, SlimCall, SlimGoes, StrmStart, StrmStop,
     StrmPause, StrmUnpause, SeekSkip, SeekWait, SeekDone, SeekJoin, SeekExpire, Route,
     QueueFails, Queue, ColdStop, ColdJoin, ColdReset, ColdFails, ColdConnect, StopHalt,
     StopHangup, StopRenderer, StopReset, flags
<1> QED
  BY <1>1, <1>2, <1>3, <1>5, ThreadsRest

LEMMA MainKeepsInv ==
    ASSUME Inv, Main
    PROVE  Inv'
<1>1. TypeInv' /\ UNCHANGED <<th, generation, slimPc>>
  BY MainType DEF Inv
<1>2. SpawnIsSafe'
  BY HandleStep DEF Inv, Held, Next
<1>3. Leaves /\ done' = done /\ (slimPc \in Sure => done)
  BY DEF Inv, Held, Leaves, Main, MainGoes, MainHalt, MainHangup, MainSignal, MainDone, MainJoin,
     MainExpire, MainSilence, MainDisconnect, MainReconnect, flags
<1> QED
  BY <1>1, <1>2, <1>3, ThreadsRest

LEMMA InvInit == Init => Inv
<1> SUFFICES ASSUME Init PROVE Inv
  OBVIOUS
<1>1. Alive = {} /\ \A t \in Thread : t > generation /\ th[t].pc = "unborn"
  BY DEF Init, Alive, Absent, Thread
<1>2. Held /\ Truthful
  BY <1>1 DEF Init, Held, Truthful, SpawnIsSafe
<1> QED
  BY <1>2, TypeInit DEF Inv

LEMMA InvStep == Inv /\ [Next]_vars => Inv'
<1> SUFFICES ASSUME Inv, [Next]_vars PROVE Inv'
  OBVIOUS
<1>1. ASSUME UNCHANGED <<flags, strm, slimPc, th>>, TypeInv' PROVE Inv'
  BY <1>1 DEF Inv, Held, Truthful, SpawnIsSafe, Alive, flags
<1>2. CASE UNCHANGED vars
  <2>1. TypeInv'
    BY <1>2, TypeStep DEF Inv
  <2> QED
    BY <1>1, <1>2, <2>1 DEF vars, lms
<1>3. CASE Spawn
  BY <1>3, SpawnKeepsInv
<1>4. CASE (SlimCommand \/ SlimCall) /\ ~Spawn
  BY <1>4, SlimKeepsInv
<1>5. CASE AudioStep
  BY <1>5, AudioKeepsInv DEF AudioStep, AudioAct
<1>6. CASE PlayerStep
  BY <1>1, <1>6, PlayerType DEF PlayerStep, Inv
<1>7. CASE Main
  BY <1>7, MainKeepsInv
<1>8. CASE RendererEnds
  BY <1>1, <1>8, EndsType DEF Inv
<1> QED
  BY <1>2, <1>3, <1>4, <1>5, <1>6, <1>7, <1>8 DEF Next

\* Every living thread is the one audioTestThread holds or one a wait gave up on,
\* and while no wait has expired audioThreadDone is only true with no audio
\* thread left: OneAudioThread, whatever stops and lost connections meet
\* (main.cpp:582-668, 1166-1186, 1266-1285; AudioHttpServer.h:14).
THEOREM AlwaysOneAudioThread == Spec => []OneAudioThread
<1>1. Inv => OneAudioThread
  <2> SUFFICES ASSUME Inv PROVE OneAudioThread
    OBVIOUS
  <2>1. Alive \subseteq orphans \cup {handle}
    BY DEF Inv, Held
  <2>2. ASSUME orphans = {}, done PROVE Alive = {}
    BY <2>2 DEF Inv, Truthful
  <2> QED
    BY <2>1, <2>2 DEF OneAudioThread
<1> QED
  BY InvInit, InvStep, <1>1, PTL DEF Spec

\* Until the first wait expires, the joins of a seek and of a cold start
\* (main.cpp:594, 638) are of a thread that has ended: JoinBlocksAfterDetachOnly.
THEOREM JoinNeverWaits == Spec => []JoinBlocksAfterDetachOnly
<1>1. Inv => JoinBlocksAfterDetachOnly
  <2> SUFFICES ASSUME Inv, orphans = {}, NEW t \in Thread,
                      slimPc \in {"join", "seekJoin"}, t = handle
               PROVE  th[t].pc = "dead"
    BY DEF JoinBlocksAfterDetachOnly, JoinNeverBlocks
  <2>1. t \notin Alive
    BY DEF Inv, Held, Truthful, Sure, Cold
  <2>2. ~(t > generation)
    BY StreamAssumption DEF Inv, Held, TypeInv, TypeOK, Thread
  <2> QED
    BY <2>1, <2>2 DEF Inv, Held, Alive
<1> QED
  BY InvInit, InvStep, <1>1, PTL DEF Spec

-----------------------------------------------------------------------------
(* Which slot an audio thread writes to and what a ring holds, until then.  *)

\* Up to the hand-over a chained track has the other slot; from then on its own
\* is the current one.
Chained  == {"tail", "sleep", "switch", "stopOld", "setNext", "handOver"}
Ahead    == Chained \cup {"fill", "fillWrite", "publish"}
Settled  == {"play", "stream", "streamWrite", "near", "wait"}
Writing  == {"fillWrite", "streamWrite"}

SlotRight(r) ==
    /\ r.pc \in Ahead => r.slot = IF r.first THEN currentSlot ELSE 1 - currentSlot
    /\ r.pc \in Chained => ~r.first
    /\ r.pc \in Settled => r.slot = currentSlot

\* But for the moment between taking a track and taking its stream, httpStream
\* is the stream of the thread's track.
RingRight(r) ==
    /\ r.pc # "rehook" => http.track = r.track
    /\ r.pc \in Writing => r.chunk = r.track
    /\ r.pc \in Ahead \cup Settled => slots[r.slot].fed \subseteq {r.track}

EachOneTrack == \A s \in Slot : \E k \in 0..MaxTrack : slots[s].fed \subseteq {k}
SpawnsOwn    == slimPc = "spawn" => http.track = strm

SlotInv == /\ \A t \in Alive : SlotRight(th[t]) /\ RingRight(th[t])
           /\ EachOneTrack
           /\ SpawnsOwn

-----------------------------------------------------------------------------
\* The steps of other threads: they change where a thread writes, or what from,
\* only when there is none.
LEMMA OthersKeepSlots ==
    ASSUME SlotInv, th' = th,
           (currentSlot' = currentSlot /\ http'.track = http.track) \/ Alive = {},
           \A s \in Slot : slots'[s].fed \in {slots[s].fed, {}},
           \A t \in Thread : th[t].slot \in Slot,
           slimPc' = "spawn" => http'.track = strm'
    PROVE  SlotInv'
<1>1. Alive' = Alive /\ Alive \subseteq Thread
  BY DEF Alive
<1>2. ASSUME NEW t \in Alive PROVE SlotRight(th[t])' /\ RingRight(th[t])'
  BY <1>1, <1>2 DEF SlotInv, SlotRight, RingRight
<1>3. EachOneTrack'
  BY DEF SlotInv, EachOneTrack
<1> QED
  BY <1>1, <1>2, <1>3 DEF SlotInv, SpawnsOwn

\* A step of the audio thread: what is left to show.
LEMMA AudioReduces ==
    ASSUME Inv, orphans = {}, SlotInv, NEW t \in Thread, AudioAct(t),
           th'[t].pc # "dead" => SlotRight(th[t])' /\ RingRight(th[t])',
           EachOneTrack'
    PROVE  SlotInv'
<1>1. OwnStep(t)
  BY AudioOwnStep DEF Inv, TypeInv
<1>2. ~done /\ \A u \in Alive : u = t
  BY <1>1 DEF Inv, Truthful, OwnStep
<1>3. \A u \in Alive' : u = t /\ th'[t].pc # "dead"
  BY <1>1, <1>2 DEF Alive, OwnStep
<1>4. SpawnsOwn'
  BY <1>1, <1>2 DEF OwnStep, SpawnsOwn, Inv, Held, Sure, Cold
<1> QED
  BY <1>3, <1>4 DEF SlotInv

\* A move that leaves the rings' contents, the streams and the thread's slot.
LEMMA AudioMoves ==
    ASSUME TypeOK, SlotInv, NEW t \in Alive,
           currentSlot' = currentSlot, http' = http,
           \A s \in Slot : slots'[s].fed = slots[s].fed,
           th'[t].slot = th[t].slot, th'[t].first = th[t].first, th'[t].track = th[t].track,
           th[t].pc # "rehook",
           th'[t].pc \in Ahead => th[t].pc \in Ahead,
           th'[t].pc \in Chained => ~th[t].first,
           th'[t].pc \in Settled =>
               th[t].pc \in Settled \/ (th[t].pc \in Ahead /\ th[t].first),
           th'[t].pc \in Writing => th'[t].chunk = http.track
    PROVE  SlotRight(th[t])' /\ RingRight(th[t])' /\ EachOneTrack'
<1>1. SlotRight(th[t]) /\ RingRight(th[t]) /\ EachOneTrack /\ th[t].slot \in Slot
  BY DEF SlotInv, TypeOK, ThreadRecord, Alive
<1>2. SlotRight(th[t])'
  BY <1>1 DEF SlotRight
<1>3. RingRight(th[t])'
  BY <1>1 DEF RingRight
<1> QED
  BY <1>1, <1>2, <1>3 DEF EachOneTrack

LEMMA AudioKeepsSlots ==
    ASSUME Inv, orphans = {}, SlotInv, NEW t \in Thread, AudioAct(t)
    PROVE  SlotInv'
<1>0. TypeOK /\ th[t] \in ThreadRecord /\ t \in DOMAIN th /\ currentSlot \in Slot
      /\ th[t].slot \in Slot /\ http.track \in 0..MaxTrack /\ slots \in [Slot -> SlotRecord]
  BY DEF Inv, TypeInv, TypeOK, ThreadRecord
<1>1. t \in Alive
  BY AudioOwnStep DEF Inv, TypeInv, OwnStep
<1>2. SlotRight(th[t]) /\ RingRight(th[t]) /\ EachOneTrack
  BY <1>1 DEF SlotInv
<1> SUFFICES (th'[t].pc # "dead" => SlotRight(th[t])' /\ RingRight(th[t])') /\ EachOneTrack'
  BY AudioReduces
<1>3. ASSUME NEW p, NEW from, AudioGoes(t, from, At(t, p))
      PROVE  th'[t] = [th[t] EXCEPT !.pc = p] /\ th'[t].pc = p /\ th[t].pc = from
             /\ th'[t].slot = th[t].slot /\ th'[t].first = th[t].first
             /\ th'[t].track = th[t].track /\ th'[t].chunk = th[t].chunk
  BY <1>0, <1>3 DEF AudioGoes, At, ThreadRecord
\* The top of the loop takes the other slot, empty.
<1>4. CASE Begin(t)
  <2> DEFINE s == IF th[t].first THEN currentSlot ELSE 1 - currentSlot
  <2>1. AudioGoes(t, "begin", [At(t, "fill") EXCEPT !.slot = s]) /\ UNCHANGED <<currentSlot, http>>
        /\ slots' = [slots EXCEPT ![s] = EmptySlot]
    BY <1>4 DEF Begin
  <2>2. s \in Slot
    BY <1>0 DEF Slot
  <2> HIDE DEF s
  <2>3. th'[t].pc = "fill" /\ th'[t].slot = s /\ th'[t].first = th[t].first
        /\ th'[t].track = th[t].track /\ th[t].pc = "begin"
    BY <1>0, <2>1 DEF AudioGoes, At, ThreadRecord
  <2>4. slots'[s].fed = {} /\ \A u \in Slot \ {s} : slots'[u] = slots[u]
    BY <1>0, <2>1, <2>2 DEF EmptySlot
  <2>5. EachOneTrack'
    BY <1>2, <2>4 DEF EachOneTrack
  <2>6. SlotRight(th[t])'
    BY <2>1, <2>3 DEF SlotRight, Ahead, Chained, Settled, s
  <2>7. RingRight(th[t])'
    BY <1>2, <2>1, <2>3, <2>4 DEF RingRight, Writing
  <2> QED
    BY <2>5, <2>6, <2>7
\* Moves that neither write nor switch.
<1>5. CASE FillDone(t) \/ Tail(t) \/ Sleep(t) \/ SpawnPlayer(t) \/ SetNext(t) \/ Wait(t)
  <2>1. PICK from, p : /\ AudioGoes(t, from, At(t, p))
                       /\ UNCHANGED <<currentSlot, http, slots>>
                       /\ <<from, p>> \in {<<"fill", "publish">>, <<"fill", "end">>,
                            <<"tail", "sleep">>, <<"tail", "switch">>, <<"sleep", "switch">>,
                            <<"play", "stream">>, <<"setNext", "handOver">>, <<"wait", "take">>,
                            <<"wait", "end">>}
    BY <1>5, Zenon DEF FillDone, Tail, Sleep, SpawnPlayer, SetNext, Wait
  <2>2. th[t].pc \in Chained => ~th[t].first
    BY <1>2 DEF SlotRight
  <2> QED
    BY <1>0, <1>1, <1>3, <2>1, <2>2, AudioMoves DEF Ahead, Chained, Settled, Writing
<1>6. CASE Publish(t) \/ Switch(t) \/ StreamDone(t) \/ End(t)
  <2>1. PICK from, p : /\ AudioGoes(t, from, At(t, p))
                       /\ UNCHANGED <<currentSlot, http>>
                       /\ \A s \in Slot : slots'[s].fed = slots[s].fed
                       /\ \/ from = "publish" /\ p = "play" /\ th[t].first
                          \/ from = "publish" /\ p \in {"tail", "setNext"} /\ ~th[t].first
                          \/ from = "switch" /\ p = "stopOld"
                          \/ from = "stream" /\ p \in {"near", "wait"}
                          \/ from = "end" /\ p = "mark"
    <3>1. CASE Publish(t)
      <4>1. \A s \in Slot : slots'[s].fed = slots[s].fed
        BY <1>0, <3>1 DEF Publish, SlotRecord
      <4> QED
        BY <3>1, <4>1 DEF Publish, CrossFormat
    <3>2. CASE Switch(t)
      <4>1. \A s \in Slot : slots'[s].fed = slots[s].fed
        BY <1>0, <3>2 DEF Switch, SignalEos, SlotRecord
      <4> QED
        BY <3>2, <4>1 DEF Switch
    <3>3. CASE StreamDone(t)
      <4>1. \A s \in Slot : slots'[s].fed = slots[s].fed
        BY <1>0, <3>3 DEF StreamDone, SlotRecord
      <4> QED
        BY <3>3, <4>1 DEF StreamDone
    <3>4. CASE End(t)
      <4>1. \A s \in Slot : slots'[s].fed = slots[s].fed
        BY <1>0, <3>4 DEF End, SlotRecord
      <4> QED
        BY <3>4, <4>1 DEF End
    <3> QED
      BY <1>6, <3>1, <3>2, <3>3, <3>4
  <2>2. th[t].pc \in Chained => ~th[t].first
    BY <1>2 DEF SlotRight
  <2> QED
    BY <1>0, <1>1, <1>3, <2>1, <2>2, AudioMoves DEF Ahead, Chained, Settled, Writing
\* The slots are switched: the thread's own becomes the current one.
<1>7. CASE StopOld(t) \/ HandOver(t)
  <2>1. PICK from, p : /\ AudioGoes(t, from, At(t, p))
                       /\ http' = http /\ currentSlot' = 1 - currentSlot
                       /\ \A s \in Slot : slots'[s].fed = slots[s].fed
                       /\ <<from, p>> \in {<<"stopOld", "play">>, <<"handOver", "stream">>}
    <3>1. CASE StopOld(t)
      BY <3>1 DEF StopOld
    <3>2. CASE HandOver(t)
      <4>1. \A s \in Slot : slots'[s].fed = slots[s].fed
        BY <1>0, <3>2 DEF HandOver, SignalEos, SlotRecord
      <4> QED
        BY <3>2, <4>1 DEF HandOver
    <3> QED
      BY <1>7, <3>1, <3>2
  <2>2. th[t].slot = 1 - currentSlot /\ slots[th[t].slot].fed \subseteq {th[t].track}
    BY <1>2, <1>3, <2>1 DEF SlotRight, RingRight, Ahead, Chained
  <2>3. SlotRight(th[t])'
    BY <1>3, <2>1, <2>2 DEF SlotRight, Ahead, Chained
  <2>4. RingRight(th[t])'
    BY <1>0, <1>2, <1>3, <2>1, <2>2 DEF RingRight, Writing
  <2> QED
    BY <1>2, <2>1, <2>3, <2>4 DEF EachOneTrack
\* What is read is of the thread's track.
<1>8. ASSUME NEW loop, NEW write, Read(t, loop, write),
             <<loop, write>> \in {<<"fill", "fillWrite">>, <<"stream", "streamWrite">>}
      PROVE  SlotRight(th[t])' /\ RingRight(th[t])' /\ EachOneTrack'
  <2>1. /\ th'[t].pc = write /\ th[t].pc = loop /\ th'[t].chunk = http.track
        /\ th'[t].slot = th[t].slot /\ th'[t].first = th[t].first /\ th'[t].track = th[t].track
    BY <1>0, <1>8 DEF Read, AudioGoes, At, ThreadRecord
  <2>2. UNCHANGED <<currentSlot, http, slots>>
    BY <1>8 DEF Read
  <2> QED
    BY <1>0, <1>1, <1>8, <2>1, <2>2, AudioMoves DEF Ahead, Chained, Settled, Writing
<1>9. ASSUME NEW loop, Eof(t, loop), loop \in {"fill", "stream"}
      PROVE  SlotRight(th[t])' /\ RingRight(th[t])' /\ EachOneTrack'
  <2>1. /\ th'[t].pc = loop /\ th[t].pc = loop
        /\ th'[t].slot = th[t].slot /\ th'[t].first = th[t].first /\ th'[t].track = th[t].track
    BY <1>0, <1>9 DEF Eof, AudioGoes, At, ThreadRecord
  <2>2. UNCHANGED <<currentSlot, http, slots>>
    BY <1>9 DEF Eof
  <2> QED
    BY <1>0, <1>1, <1>9, <2>1, <2>2, AudioMoves DEF Ahead, Chained, Settled, Writing
<1>10. CASE NearEnd(t) \/ NearEndByClock(t)
  <2>1. /\ th'[t].pc = "wait" /\ th[t].pc = "near"
        /\ th'[t].slot = th[t].slot /\ th'[t].first = th[t].first /\ th'[t].track = th[t].track
    <3> DEFINE timed == My(t).timed
    <3>1. th[t].pc = "near" /\ th' = [th EXCEPT ![t] = [At(t, "wait") EXCEPT !.tail = timed]]
      BY <1>10 DEF NearEnd, NearEndByClock, AfterNear, AudioGoes
    <3> HIDE DEF timed
    <3> QED
      BY <1>0, <3>1 DEF At, ThreadRecord
  <2>2. UNCHANGED <<currentSlot, http, slots>>
    BY <1>10 DEF NearEnd, NearEndByClock, AfterNear
  <2> QED
    BY <1>0, <1>1, <2>1, <2>2, AudioMoves DEF Ahead, Chained, Settled, Writing
\* A write adds the thread's track to the thread's slot.
<1>11. ASSUME NEW loop, NEW write, Write(t, write, loop),
              <<write, loop>> \in {<<"fillWrite", "fill">>, <<"streamWrite", "stream">>}
       PROVE  SlotRight(th[t])' /\ RingRight(th[t])' /\ EachOneTrack'
  <2>1. /\ th'[t].pc = loop /\ th[t].pc = write
        /\ th'[t].slot = th[t].slot /\ th'[t].first = th[t].first /\ th'[t].track = th[t].track
    BY <1>0, <1>11 DEF Write, AudioGoes, At, ThreadRecord
  <2>2. UNCHANGED <<currentSlot, http>>
    BY <1>11 DEF Write
  <2>3. th[t].chunk = th[t].track /\ th[t].track \in 0..MaxTrack
        /\ slots[th[t].slot].fed \subseteq {th[t].track}
    BY <1>0, <1>2, <1>11, <2>1 DEF RingRight, Writing, Ahead, Settled, ThreadRecord
  <2>4. /\ slots'[th[t].slot].fed \subseteq {th[t].track}
        /\ \A s \in Slot \ {th[t].slot} : slots'[s].fed = slots[s].fed
    BY <1>0, <1>11, <2>3 DEF Write, SlotRecord
  <2>5. EachOneTrack'
    BY <1>2, <2>3, <2>4 DEF EachOneTrack
  <2>6. SlotRight(th[t])'
    BY <1>2, <1>11, <2>1, <2>2 DEF SlotRight, Ahead, Chained, Settled
  <2>7. RingRight(th[t])'
    BY <1>2, <1>11, <2>1, <2>2, <2>4 DEF RingRight, Writing
  <2> QED
    BY <2>5, <2>6, <2>7
\* Between two tracks.
<1>12. CASE Take(t)
  <2>1. th'[t].pc \in {"end", "rehook"} /\ (th'[t].pc = "end" => th'[t].track = th[t].track)
    BY <1>0, <1>12 DEF Take, AudioGoes, At, ThreadRecord
  <2>2. UNCHANGED <<currentSlot, http, slots>> /\ th[t].pc = "take"
    BY <1>12 DEF Take, AudioGoes
  <2> QED
    BY <1>2, <2>1, <2>2
       DEF SlotRight, RingRight, EachOneTrack, Ahead, Chained, Settled, Writing
<1>13. CASE Rehook(t)
  <2>1. th'[t].pc = "begin" /\ th'[t].track = th[t].track
    BY <1>0, <1>13 DEF Rehook, AudioGoes, At, ThreadRecord
  <2>2. http'.track = th[t].track /\ UNCHANGED <<currentSlot, slots>>
    BY <1>13 DEF Rehook
  <2> QED
    BY <1>2, <2>1, <2>2
       DEF SlotRight, RingRight, EachOneTrack, Ahead, Chained, Settled, Writing
<1>14. CASE Mark(t)
  <2>1. th'[t].pc = "dead" /\ slots' = slots
    BY <1>0, <1>14 DEF Mark, AudioGoes, Absent, Inv, TypeInv, TypeOK
  <2> QED
    BY <1>2, <2>1 DEF EachOneTrack
<1> QED
  BY <1>4, <1>5, <1>6, <1>7, <1>8, <1>9, <1>10, <1>11, <1>12, <1>13, <1>14 DEF Audio, AudioAct

LEMMA SpawnKeepsSlots ==
    ASSUME Inv, orphans = {}, SlotInv, Spawn
    PROVE  SlotInv'
<1> DEFINE g == generation + 1
<1>1. g \in Thread /\ th \in [Thread -> ThreadRecord]
  BY SpawnType DEF Inv, TypeInv, TypeOK
<1>2. Alive = {}
  BY DEF Spawn, Inv, Held, Truthful, Sure, Cold
<1>3. th'[g] = [Absent("begin") EXCEPT !.track = strm] /\ \A u \in Thread \ {g} : th'[u] = th[u]
  BY <1>1 DEF Spawn
<1>4. th'[g].pc = "begin" /\ th'[g].track = strm
  BY <1>3 DEF Absent
<1>5. Alive' \subseteq {g}
  BY <1>2, <1>3 DEF Alive
<1>6. http.track = strm /\ UNCHANGED <<http, slots>> /\ slimPc' = "idle"
  BY DEF Spawn, SlotInv, SpawnsOwn
<1> QED
  BY <1>4, <1>5, <1>6
     DEF SlotInv, SlotRight, RingRight, EachOneTrack, SpawnsOwn, Ahead, Chained, Settled, Writing

LEMMA SlimKeepsSlots ==
    ASSUME Inv, orphans = {}, SlotInv, SlimCommand \/ SlimCall, ~Spawn
    PROVE  SlotInv'
<1>1. th' = th
  BY DEF SlimCommand, SlimCall, SlimGoes, StrmStart, StrmStop, StrmPause, StrmUnpause,
     SeekSkip, SeekWait, SeekDone, SeekJoin, SeekExpire, Route, QueueFails, Queue, ColdStop, ColdJoin,
     ColdReset, ColdFails, ColdConnect, StopHalt, StopHangup, StopRenderer, StopReset
<1>2. slimPc \in {"reset", "connect"} => Alive = {}
  BY DEF Inv, Held, Truthful, Sure, Cold
<1>3. (currentSlot' = currentSlot /\ http'.track = http.track) \/ Alive = {}
  <2>1. CASE StopHangup
    BY <2>1 DEF StopHangup, Inv, TypeInv, TypeOK
  <2>2. CASE ~StopHangup
    BY <1>2, <2>2
       DEF SlimCommand, SlimCall, SlimGoes, StrmStart, StrmStop, StrmPause, StrmUnpause,
       SeekSkip, SeekWait, SeekDone, SeekJoin, SeekExpire, Route, QueueFails, Queue, ColdStop, ColdJoin,
       ColdReset, ColdFails, ColdConnect, StopHalt, StopRenderer, StopReset
  <2> QED
    BY <2>1, <2>2
<1>4. \A s \in Slot : slots'[s].fed \in {slots[s].fed, {}}
  BY DEF SlimCommand, SlimCall, StrmStart, StrmStop, StrmPause, StrmUnpause,
     SeekSkip, SeekWait, SeekDone, SeekJoin, SeekExpire, Route, QueueFails, Queue, ColdStop, ColdJoin,
     ColdReset, ColdFails, ColdConnect, StopHalt, StopHangup, StopRenderer, StopReset,
     ResetBoth, EmptySlot
<1>5. slimPc' = "spawn" => http'.track = strm'
  BY DEF SlimCommand, SlimCall, SlimGoes, StrmStart, StrmStop, StrmPause, StrmUnpause,
     SeekSkip, SeekWait, SeekDone, SeekJoin, SeekExpire, Route, QueueFails, Queue, ColdStop, ColdJoin,
     ColdReset, ColdFails, ColdConnect, StopHalt, StopHangup, StopRenderer, StopReset
<1>6. \A t \in Thread : th[t].slot \in Slot
  BY DEF Inv, TypeInv, TypeOK, ThreadRecord
<1> QED
  BY <1>1, <1>3, <1>4, <1>5, <1>6, OthersKeepSlots

LEMMA BesideKeepsSlots ==
    ASSUME Inv, orphans = {}, SlotInv, PlayerStep \/ Main \/ RendererEnds \/ UNCHANGED vars
    PROVE  SlotInv'
<1>1. UNCHANGED <<th, currentSlot, slimPc, strm>>
  BY DEF PlayerStep, Player, PlayerUri, PlayerCheck, PlayerPlay, PlayerGoes, Main, MainGoes,
     MainHalt, MainHangup, MainSignal, MainDone, MainJoin, MainExpire, MainSilence, MainDisconnect,
     MainReconnect, RendererEnds, vars, lms
<1>2. http' \in {http, [http EXCEPT !.open = FALSE]}
  BY DEF PlayerStep, Player, PlayerUri, PlayerCheck, PlayerPlay, PlayerGoes, Main,
     MainHalt, MainHangup, MainSignal, MainDone, MainJoin, MainExpire, MainSilence, MainDisconnect,
     MainReconnect, RendererEnds, vars
<1>3. http'.track = http.track
  BY <1>2 DEF Inv, TypeInv, TypeOK
<1>4. \A s \in Slot : slots'[s].fed = slots[s].fed
  <2>1. CASE MainSignal
    BY <2>1 DEF MainSignal, Inv, TypeInv, TypeOK, SlotRecord
  <2>2. CASE ~MainSignal
    BY <2>2 DEF PlayerStep, Player, PlayerUri, PlayerCheck, PlayerPlay, PlayerGoes, Main,
       MainHalt, MainHangup, MainDone, MainJoin, MainExpire, MainSilence, MainDisconnect,
       MainReconnect, RendererEnds, vars
  <2> QED
    BY <2>1, <2>2
<1>5. \A t \in Thread : th[t].slot \in Slot
  BY DEF Inv, TypeInv, TypeOK, ThreadRecord
<1> QED
  BY <1>1, <1>3, <1>4, <1>5, OthersKeepSlots DEF SlotInv, SpawnsOwn

\* No step takes a thread back from those whose wait expired.
LEMMA OrphansStay ==
    ASSUME Inv, [Next]_vars
    PROVE  orphans \subseteq orphans'
<1>1. CASE SlimCommand \/ SlimCall
  BY <1>1 DEF SlimCommand, SlimCall, StrmStart, StrmStop, StrmPause, StrmUnpause, SeekSkip,
     SeekWait, SeekDone, SeekJoin, SeekExpire, Route, QueueFails, Queue, ColdStop, ColdJoin,
     ColdReset, ColdFails, ColdConnect, Spawn, StopHalt, StopHangup, StopRenderer, StopReset,
     Detaches, flags
<1>2. CASE AudioStep
  <2>1. PICK t \in Thread : AudioAct(t)
    BY <1>2 DEF AudioStep, AudioAct
  <2> QED
    BY <2>1, AudioOwnStep DEF OwnStep, Inv, TypeInv
<1>3. CASE PlayerStep
  BY <1>3 DEF PlayerStep, Player, PlayerUri, PlayerCheck, PlayerPlay, PlayerGoes, flags
<1>4. CASE Main
  BY <1>4 DEF Main, MainHalt, MainHangup, MainSignal, MainDone, MainJoin, MainExpire,
     MainSilence, MainDisconnect, MainReconnect, Detaches, flags
<1>5. CASE RendererEnds \/ UNCHANGED vars
  BY <1>5 DEF RendererEnds, vars, flags
<1> QED
  BY <1>1, <1>2, <1>3, <1>4, <1>5 DEF Next

\* The invariant of the slots holds until the first wait expires.
SlotsUntil == orphans = {} => SlotInv

LEMMA SlotsInit == Init => SlotsUntil
<1> SUFFICES ASSUME Init PROVE SlotInv
  BY DEF SlotsUntil
<1>1. Alive = {}
  BY DEF Init, Alive, Absent
<1>2. EachOneTrack
  BY StreamAssumption DEF Init, EachOneTrack, EmptySlot
<1> QED
  BY <1>1, <1>2 DEF Init, SlotInv, SpawnsOwn

LEMMA SlotsStep == Inv /\ SlotsUntil /\ [Next]_vars => SlotsUntil'
<1> SUFFICES ASSUME Inv, SlotsUntil, [Next]_vars, orphans' = {}
             PROVE  SlotInv'
  BY DEF SlotsUntil
<1>o. orphans = {} /\ SlotInv
  BY OrphansStay DEF SlotsUntil
<1>1. CASE Spawn
  BY <1>o, <1>1, SpawnKeepsSlots
<1>2. CASE (SlimCommand \/ SlimCall) /\ ~Spawn
  BY <1>o, <1>2, SlimKeepsSlots
<1>3. CASE AudioStep
  BY <1>o, <1>3, AudioKeepsSlots DEF AudioStep, AudioAct
<1>4. CASE PlayerStep \/ Main \/ RendererEnds \/ UNCHANGED vars
  BY <1>o, <1>4, BesideKeepsSlots
<1> QED
  BY <1>1, <1>2, <1>3, <1>4 DEF Next

-----------------------------------------------------------------------------
\* Once a track plays its thread writes to the current slot, whatever cold
\* starts, chains, stops, lost connections and in-time waits come before, until
\* a wait expires: WritesCurrentSlot (main.cpp:706-716, 914, 1011).
THEOREM AlwaysWritesCurrentSlot == Spec => []WritesCurrentSlot
<1>1. SlotsUntil => WritesCurrentSlot
  BY DEF SlotsUntil, SlotInv, SlotRight, Settled, WritesCurrentSlot
<1> QED
  BY <1>1, SlotsInit, SlotsStep, InvInit, InvStep, PTL DEF Spec

\* No byte of another HTTP stream gets into a ring, although strm-q and the
\* main thread disconnect the stream, and the audio thread replaces it, at any
\* moment, until a wait expires: RingOfOneTrack (main.cpp:711, 762-773, 1133).
THEOREM RingAlwaysOfOneTrack == Spec => []RingOfOneTrack
<1>1. ASSUME SlotInv PROVE RingOfOneTrack
  <2>1. ASSUME NEW s \in Slot PROVE Cardinality(slots[s].fed) <= 1
    <3>1. PICK k \in 0..MaxTrack : slots[s].fed \subseteq {k}
      BY <1>1 DEF SlotInv, EachOneTrack
    <3>2. CASE slots[s].fed = {}
      BY <3>2, FS_EmptySet
    <3>3. CASE slots[s].fed = {k}
      <4>1. Cardinality(slots[s].fed) = 1
        BY <3>3, FS_Singleton, Zenon
      <4> QED
        BY <4>1
    <3> QED
      BY <3>1, <3>2, <3>3
  <2>2. ASSUME NEW t \in Alive, th[t].pc \in {"publish", "tail", "setNext", "play", "stream"}
        PROVE  slots[th[t].slot].fed \subseteq {th[t].track}
    BY <1>1, <2>2 DEF SlotInv, RingRight, Ahead, Chained, Settled
  <2> QED
    BY <2>1, <2>2 DEF RingOfOneTrack
<1>2. SlotsUntil => RingOfOneTrack
  BY <1>1 DEF SlotsUntil, RingOfOneTrack
<1> QED
  BY <1>2, SlotsInit, SlotsStep, InvInit, InvStep, PTL DEF Spec
=============================================================================
