----------------------------- MODULE RingBuffer -----------------------------
(***************************************************************************)
(* The ring buffer of AudioHttpServer: m_ringBuffer, m_ringCapacity,       *)
(* m_writePos and m_readPos.  Every operation here runs under m_ringMutex  *)
(* in the code, so each is one step.  Callers and their interleavings are  *)
(* in AudioHttpServer; this module is the data structure on its own.       *)
(***************************************************************************)
EXTENDS Naturals, Sequences

CONSTANTS Byte,         \* the values of one byte
          Zero,         \* what vector::resize fills new elements with
          Capacities,   \* the sizes setFormat may compute
          MaxRead,      \* size of handleClient's sendBuf
          MaxWrite      \* the most writeAudio is given at once

ASSUME ZeroAssumption == Zero \in Byte
ASSUME SizeAssumption ==
    /\ Capacities \subseteq Nat \ {0}
    /\ MaxRead \in Nat \ {0}
    /\ MaxWrite \in Nat \ {0}

VARIABLES buf,        \* m_ringBuffer
          cap,        \* m_ringCapacity
          writePos,   \* m_writePos
          readPos,    \* m_readPos
          sendBuf     \* what the last ringRead copied out

ringVars == <<buf, cap, writePos, readPos, sendBuf>>

Least(a, b) == IF a <= b THEN a ELSE b

\* Slip: equal positions taken for a full ring.
ringAvailableFull ==
    IF cap = 0 THEN 0
    ELSE IF writePos > readPos THEN writePos - readPos
    ELSE cap - readPos + writePos

ringAvailable ==
    IF cap = 0 THEN 0
    ELSE IF writePos >= readPos THEN writePos - readPos
    ELSE cap - readPos + writePos

\* Slip: no element kept empty.
ringFreeNoGap == IF cap = 0 THEN 0 ELSE cap - ringAvailable

\* One element stays empty so that a full ring differs from an empty one.
ringFree == IF cap = 0 THEN 0 ELSE cap - ringAvailable - 1

RingInit ==
    /\ buf = <<>>
    /\ cap = 0
    /\ writePos = 0
    /\ readPos = 0
    /\ sendBuf = <<>>

\* Slip: the new position is not taken modulo the capacity.
ringWriteNoWrap(src) ==
    LET n     == Len(src)
        first == Least(n, cap - writePos)
    IN  /\ n \in 1..ringFree
        /\ buf' = [i \in 0..cap-1 |->
                     IF writePos <= i /\ i < writePos + first
                     THEN src[i - writePos + 1]
                     ELSE IF i < n - first THEN src[first + i + 1]
                     ELSE buf[i]]
        /\ writePos' = writePos + n
        /\ UNCHANGED <<cap, readPos, sendBuf>>

\* Copy src in at writePos, in one piece or in two around the end of the
\* buffer.  The caller never passes more than ringFree bytes.
ringWrite(src) ==
    LET n     == Len(src)
        first == Least(n, cap - writePos)
    IN  /\ n \in 1..ringFree
        /\ buf' = [i \in 0..cap-1 |->
                     IF writePos <= i /\ i < writePos + first
                     THEN src[i - writePos + 1]
                     ELSE IF i < n - first THEN src[first + i + 1]
                     ELSE buf[i]]
        /\ writePos' = (writePos + n) % cap
        /\ UNCHANGED <<cap, readPos, sendBuf>>

\* Copy out up to max bytes; nothing happens on an empty ring.
ringRead(max) ==
    LET n     == Least(max, ringAvailable)
        first == Least(n, cap - readPos)
    IN  /\ n > 0
        /\ sendBuf' = [k \in 1..n |->
                         IF k <= first THEN buf[readPos + k - 1]
                         ELSE buf[k - first - 1]]
        /\ readPos' = (readPos + n) % cap
        /\ UNCHANGED <<buf, cap, writePos>>

ringReset ==
    /\ writePos' = 0
    /\ readPos' = 0
    /\ UNCHANGED <<buf, cap, sendBuf>>

\* Slip: the vector keeps its size.
ringResizeKeeps(c) ==
    /\ cap' = c
    /\ writePos' = 0
    /\ readPos' = 0
    /\ UNCHANGED <<buf, sendBuf>>

\* The part of setFormat that is done under m_ringMutex.
ringResize(c) ==
    /\ buf' = [i \in 0..c-1 |-> IF i < cap THEN buf[i] ELSE Zero]
    /\ cap' = c
    /\ writePos' = 0
    /\ readPos' = 0
    /\ UNCHANGED sendBuf

-----------------------------------------------------------------------------
\* The index k places after position p.
Place(p, k) == IF p + k < cap THEN p + k ELSE p + k - cap

\* The unread bytes, oldest first.
Contents == [k \in 1..ringAvailable |-> buf[Place(readPos, k - 1)]]

(* The positions stay inside the buffer, and the buffer has its capacity.  *)
RingTypeOK ==
    /\ cap \in Capacities \cup {0}
    /\ buf \in [0..cap-1 -> Byte]
    /\ writePos \in Nat /\ readPos \in Nat
    /\ (cap = 0) => (writePos = 0 /\ readPos = 0)
    /\ (cap > 0) => (writePos < cap /\ readPos < cap)
    /\ sendBuf \in Seq(Byte)

(* Used and free space always add up to one less than the capacity: the    *)
(* arithmetic of size_t in ringAvailable and ringFree never wraps, whatever*)
(* the two positions are.                                                  *)
SpaceAccounted ==
    (cap > 0) =>
        /\ ringAvailable \in 0..cap-1
        /\ ringAvailable + ringFree = cap - 1
=============================================================================
