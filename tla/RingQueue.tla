----------------------------- MODULE RingQueue -----------------------------
(***************************************************************************)
(* The ring buffer as its callers use it: writeAudio hands in bytes,       *)
(* handleClient takes them out, reset and setFormat empty it.  The ring    *)
(* implements ByteQueue.                                                   *)
(***************************************************************************)
EXTENDS RingBuffer

VARIABLE data       \* the bytes of the last ringWrite, as its caller has them

ringQueueVars == <<ringVars, data>>

RingQueueInit == RingInit /\ data = <<>>

Writes == UNION { [1..n -> Byte] : n \in 1..MaxWrite }

WriteAudio(src) == ringWrite(src) /\ data' = src
SendChunk       == ringRead(MaxRead) /\ UNCHANGED data
Reset           == ringReset /\ UNCHANGED data
SetFormat(c)    == ringResize(c) /\ UNCHANGED data

RingQueueNext ==
    \/ \E src \in Writes : WriteAudio(src)
    \/ SendChunk
    \/ Reset
    \/ \E c \in Capacities : SetFormat(c)

RingQueueSpec == RingQueueInit /\ [][RingQueueNext]_ringQueueVars

(* The ring is a bounded FIFO queue of bytes: a write appends exactly the  *)
(* bytes its caller handed in behind the unread ones, a read takes the     *)
(* oldest, and only a reset or a new format empties it.                    *)
Queue == INSTANCE ByteQueue
            WITH queue   <- Contents,
                 given   <- data,
                 taken   <- sendBuf,
                 limit   <- IF cap = 0 THEN 0 ELSE cap - 1,
                 Limits  <- { c - 1 : c \in Capacities },
                 Batches <- Writes,
                 MaxTake <- MaxRead

RefinesQueue == Queue!Spec
=============================================================================
