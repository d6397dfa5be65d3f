-------------------------- MODULE RingBufferProofs --------------------------
(***************************************************************************)
(* The ring is type correct and implements ByteQueue for every set of      *)
(* bytes, every set of capacities and every read and write size.           *)
(***************************************************************************)
EXTENDS RingQueue, SequenceTheorems, TLAPS

(* Reducing p + k modulo the capacity, as ringRead and ringWrite do, wraps *)
(* at most once when p is a position and k at most the capacity.           *)
LEMMA ModWrapsOnce ==
    ASSUME NEW c \in Nat \ {0}, NEW p \in 0..c-1, NEW k \in 0..c
    PROVE  (p + k) % c = IF p + k < c THEN p + k ELSE p + k - c
  OBVIOUS

(* Used and free space are naturals below the capacity.                    *)
LEMMA AvailableInRange ==
    ASSUME RingTypeOK
    PROVE  /\ ringAvailable \in Nat
           /\ cap > 0 => ringAvailable \in 0..cap-1
           /\ cap = 0 => ringAvailable = 0
           /\ ringFree \in Nat
           /\ cap > 0 => ringFree = cap - 1 - ringAvailable
  BY SizeAssumption DEF RingTypeOK, ringAvailable, ringFree

-----------------------------------------------------------------------------
(* Each operation preserves the type invariant.                            *)
LEMMA WriteType ==
    ASSUME RingTypeOK, NEW src \in Seq(Byte), ringWrite(src)
    PROVE  RingTypeOK'
<1> DEFINE n == Len(src)
           first == Least(n, cap - writePos)
<1>1. n \in 1..ringFree
  BY DEF ringWrite
<1>2. cap \in Nat \ {0} /\ cap \in Capacities /\ n < cap
  BY <1>1, AvailableInRange, SizeAssumption DEF RingTypeOK, ringFree, ringAvailable
<1>3. /\ first \in 0..n /\ first <= cap - writePos
      /\ (n - first > 0) => first = cap - writePos
  BY <1>1, <1>2 DEF Least, RingTypeOK
<1>4. buf' \in [0..cap-1 -> Byte]
  <2>1. ASSUME NEW i \in 0..cap-1, writePos <= i, i < writePos + first
        PROVE  src[i - writePos + 1] \in Byte
    BY <2>1, <1>1, <1>2, <1>3 DEF RingTypeOK
  <2>2. ASSUME NEW i \in 0..cap-1, i < n - first
        PROVE  src[first + i + 1] \in Byte
    BY <2>2, <1>1, <1>2, <1>3
  <2> QED  BY <2>1, <2>2, <1>2 DEF ringWrite, RingTypeOK
<1>5. writePos' \in Nat /\ writePos' < cap
  <2>1. writePos \in 0..cap-1 /\ n \in 0..cap
    BY <1>1, <1>2 DEF RingTypeOK
  <2>2. writePos' = (writePos + n) % cap
    BY DEF ringWrite
  <2> HIDE DEF n
  <2> QED  BY <1>2, <2>1, <2>2, ModWrapsOnce
<1> QED  BY <1>2, <1>4, <1>5 DEF ringWrite, RingTypeOK

LEMMA ReadType ==
    ASSUME RingTypeOK, NEW max \in Nat \ {0}, ringRead(max)
    PROVE  RingTypeOK'
<1> DEFINE n == Least(max, ringAvailable)
           first == Least(n, cap - readPos)
<1>1. n \in Nat \ {0} /\ n <= ringAvailable /\ cap \in Nat \ {0} /\ n < cap
  <2>1. n > 0 /\ n <= ringAvailable /\ n \in Nat
    BY AvailableInRange DEF ringRead, Least
  <2>2. cap \in Nat /\ (cap = 0 => ringAvailable = 0)
    BY AvailableInRange, SizeAssumption DEF RingTypeOK
  <2> QED  BY <2>1, <2>2, AvailableInRange
<1>2. /\ first \in 0..n /\ first <= cap - readPos
      /\ (n - first > 0) => first = cap - readPos
  <2> HIDE DEF n
  <2> QED  BY <1>1 DEF Least, RingTypeOK
<1>3. sendBuf' \in Seq(Byte)
  <2>1. ASSUME NEW k \in 1..n
        PROVE  (IF k <= first THEN buf[readPos + k - 1] ELSE buf[k - first - 1])
                  \in Byte
    BY <2>1, <1>1, <1>2 DEF RingTypeOK
  <2>2. sendBuf' \in [1..n -> Byte]
    BY <2>1 DEF ringRead
  <2> QED  BY <2>2, <1>1
<1>4. readPos' \in Nat /\ readPos' < cap
  <2>1. readPos \in 0..cap-1 /\ n \in 0..cap
    BY <1>1 DEF RingTypeOK
  <2>2. readPos' = (readPos + n) % cap
    BY DEF ringRead
  <2> HIDE DEF n
  <2> QED  BY <1>1, <2>1, <2>2, ModWrapsOnce
<1> QED  BY <1>1, <1>3, <1>4 DEF ringRead, RingTypeOK

LEMMA ResizeType ==
    ASSUME RingTypeOK, NEW c \in Capacities, ringResize(c)
    PROVE  RingTypeOK'
<1>1. c \in Nat \ {0}
  BY SizeAssumption
<1>2. buf' \in [0..c-1 -> Byte]
  <2>1. ASSUME NEW i \in 0..c-1
        PROVE  (IF i < cap THEN buf[i] ELSE Zero) \in Byte
    BY <2>1, <1>1, SizeAssumption, ZeroAssumption DEF RingTypeOK
  <2> QED  BY <2>1 DEF ringResize
<1> QED  BY <1>1, <1>2 DEF ringResize, RingTypeOK

(* RingTypeOK is inductive: whatever the order of writes, reads, resets    *)
(* and changes of format, both positions stay inside the buffer.           *)
THEOREM RingTypeCorrect == RingQueueSpec => []RingTypeOK
<1>1. RingQueueInit => RingTypeOK
  BY SizeAssumption DEF RingQueueInit, RingInit, RingTypeOK
<1>2. ASSUME RingTypeOK, [RingQueueNext]_ringQueueVars PROVE RingTypeOK'
  <2>1. ASSUME NEW src \in Writes, WriteAudio(src) PROVE RingTypeOK'
    <3>1. src \in Seq(Byte)
      BY SizeAssumption DEF Writes
    <3> QED  BY <1>2, <2>1, <3>1, WriteType DEF WriteAudio
  <2>2. ASSUME SendChunk PROVE RingTypeOK'
    BY <1>2, <2>2, ReadType, SizeAssumption DEF SendChunk
  <2>3. ASSUME Reset PROVE RingTypeOK'
    BY <1>2, <2>3, SizeAssumption DEF Reset, ringReset, RingTypeOK
  <2>4. ASSUME NEW c \in Capacities, SetFormat(c) PROVE RingTypeOK'
    BY <1>2, <2>4, ResizeType DEF SetFormat
  <2>5. ASSUME UNCHANGED ringQueueVars PROVE RingTypeOK'
    BY <1>2, <2>5 DEF RingTypeOK, ringVars, ringQueueVars
  <2> QED  BY <1>2, <2>1, <2>2, <2>3, <2>4, <2>5 DEF RingQueueNext
<1> QED  BY <1>1, <1>2, PTL DEF RingQueueSpec

(* Used and free bytes add up to one less than the capacity in every       *)
(* reachable state: ringFree never wraps around, and a full ring is never  *)
(* taken for an empty one.                                                 *)
THEOREM SpaceAlwaysAccounted == RingQueueSpec => []SpaceAccounted
<1>1. RingTypeOK => SpaceAccounted
  BY SizeAssumption DEF RingTypeOK, SpaceAccounted, ringAvailable, ringFree
<1> QED  BY <1>1, RingTypeCorrect, PTL

-----------------------------------------------------------------------------
(* The unread bytes form a sequence of length ringAvailable.               *)
LEMMA ContentsIsSeq ==
    ASSUME RingTypeOK
    PROVE  /\ Contents \in Seq(Byte)
           /\ Len(Contents) = ringAvailable
           /\ \A k \in 1..ringAvailable : Contents[k] = buf[Place(readPos, k - 1)]
<1>1. ringAvailable \in Nat
  BY AvailableInRange
<1>2. ASSUME NEW k \in 1..ringAvailable
      PROVE  buf[Place(readPos, k - 1)] \in Byte
  <2>1. cap \in Nat \ {0} /\ ringAvailable \in 0..cap-1
    BY <1>2, AvailableInRange, SizeAssumption DEF RingTypeOK
  <2>2. Place(readPos, k - 1) \in 0..cap-1
    BY <1>2, <2>1 DEF Place, RingTypeOK
  <2> QED  BY <2>2 DEF RingTypeOK
<1>3. Contents \in [1..ringAvailable -> Byte]
  BY <1>2 DEF Contents
<1> QED  BY <1>1, <1>3 DEF Contents

(* A write appends its bytes to the unread ones.                           *)
LEMMA WriteAppends ==
    ASSUME RingTypeOK, NEW src \in Seq(Byte), ringWrite(src)
    PROVE  Contents' = Contents \o src
<1> DEFINE n == Len(src)
           first == Least(n, cap - writePos)
           a == ringAvailable
<1>1. n \in 1..ringFree
  BY DEF ringWrite
<1>2. cap \in Nat \ {0} /\ n \in 1..cap-1-a /\ a \in 0..cap-1
  BY <1>1, AvailableInRange, SizeAssumption DEF RingTypeOK, ringFree, ringAvailable
<1>3. /\ writePos \in 0..cap-1 /\ readPos \in 0..cap-1
      /\ writePos = Place(readPos, a)
  BY <1>2, SizeAssumption DEF RingTypeOK, Place, ringAvailable
<1>4. writePos' = Place(writePos, n)
  <2>1. writePos' = (writePos + n) % cap
    BY DEF ringWrite
  <2> HIDE DEF n, a
  <2>2. n \in 0..cap
    BY <1>2
  <2>3. (writePos + n) % cap
          = IF writePos + n < cap THEN writePos + n ELSE writePos + n - cap
    BY <1>2, <1>3, <2>2, ModWrapsOnce
  <2> QED  BY <2>1, <2>3 DEF Place
<1>5. cap' = cap /\ readPos' = readPos
  BY DEF ringWrite
<1>6. ringAvailable' = a + n
  <2>1. ringAvailable' = IF writePos' >= readPos THEN writePos' - readPos
                         ELSE cap - readPos + writePos'
    BY <1>2, <1>5 DEF ringAvailable
  <2> HIDE DEF n, a
  <2> QED  BY <1>2, <1>3, <1>4, <2>1 DEF Place
<1>7. RingTypeOK'
  BY WriteType
<1>8. /\ first \in 0..n /\ first <= cap - writePos
      /\ (n - first > 0) => first = cap - writePos
  <2> HIDE DEF n
  <2> QED  BY <1>2, <1>3 DEF Least
<1>9. \A i \in 0..cap-1 : buf'[i] =
          IF writePos <= i /\ i < writePos + first THEN src[i - writePos + 1]
          ELSE IF i < n - first THEN src[first + i + 1]
          ELSE buf[i]
  BY DEF ringWrite
<1>10. ASSUME NEW k \in 1..(a + n)
       PROVE  buf'[Place(readPos, k - 1)] =
                IF k <= a THEN buf[Place(readPos, k - 1)] ELSE src[k - a]
  <2> DEFINE p == Place(readPos, k - 1)
  <2> SUFFICES buf'[p] = IF k <= a THEN buf[p] ELSE src[k - a]
    OBVIOUS
  <2>1. p \in 0..cap-1
    <3> HIDE DEF n, a
    <3> QED  BY <1>2, <1>3, <1>10 DEF Place
  <2>2. CASE k <= a
    <3>1. ~(writePos <= p /\ p < writePos + first) /\ ~(p < n - first)
      <4> HIDE DEF n, a, first
      <4> QED  BY <1>2, <1>3, <1>8, <1>10, <2>2 DEF Place
    <3> HIDE DEF n, a, first, p
    <3> QED  BY <1>9, <2>1, <2>2, <3>1
  <2>3. CASE k > a
    <3>1. \/ /\ writePos <= p /\ p < writePos + first
             /\ p - writePos + 1 = k - a
          \/ /\ ~(writePos <= p /\ p < writePos + first)
             /\ p < n - first /\ first + p + 1 = k - a
      <4> HIDE DEF n, a, first
      <4> QED  BY <1>2, <1>3, <1>8, <1>10, <2>3 DEF Place
    <3>2. ~(k <= a)
      <4> HIDE DEF n, a
      <4> QED  BY <2>3, <1>2, <1>10
    <3> HIDE DEF n, a, first, p
    <3> QED  BY <1>9, <2>1, <3>1, <3>2
  <2> HIDE DEF n, a
  <2> QED  BY <2>2, <2>3, <1>2, <1>10
<1>11. Contents' = [k \in 1..(a + n) |->
                      IF k <= a THEN buf[Place(readPos, k - 1)] ELSE src[k - a]]
  <2>1. Contents' = [k \in 1..(a + n) |-> buf'[Place(readPos, k - 1)]]
    BY <1>5, <1>6 DEF Contents, Place
  <2> HIDE DEF n, a
  <2> QED  BY <2>1, <1>10
<1>12. /\ Contents \o src \in [1..(a + n) -> Byte]
       /\ \A k \in 1..(a + n) : (Contents \o src)[k] =
            IF k <= a THEN buf[Place(readPos, k - 1)] ELSE src[k - a]
  <2>1. /\ Contents \in Seq(Byte) /\ Len(Contents) = a
        /\ \A k \in 1..a : Contents[k] = buf[Place(readPos, k - 1)]
    BY ContentsIsSeq
  <2>2. /\ Contents \o src \in Seq(Byte)
        /\ Len(Contents \o src) = a + n
        /\ \A k \in 1..(a + n) : (Contents \o src)[k] =
             IF k <= a THEN Contents[k] ELSE src[k - a]
    BY <2>1, ConcatProperties
  <2> HIDE DEF n, a
  <2>3. Contents \o src \in [1..(a + n) -> Byte]
    BY <2>2, LenProperties
  <2> QED  BY <2>1, <2>2, <2>3, <1>2
<1> HIDE DEF n, a
<1> QED  BY <1>11, <1>12

(* A read returns the oldest unread bytes and leaves the others.           *)
LEMMA ReadTakes ==
    ASSUME RingTypeOK, NEW max \in Nat \ {0}, ringRead(max)
    PROVE  \E m \in 1..max :
             /\ m <= Len(Contents)
             /\ sendBuf' = SubSeq(Contents, 1, m)
             /\ Contents' = SubSeq(Contents, m + 1, Len(Contents))
<1> DEFINE n == Least(max, ringAvailable)
           first == Least(n, cap - readPos)
           a == ringAvailable
<1>1. n \in 1..a /\ n <= max /\ a \in 0..cap-1 /\ cap \in Nat \ {0}
  <2>1. n > 0 /\ n <= a /\ n \in Nat /\ n <= max
    BY AvailableInRange DEF ringRead, Least
  <2>2. cap \in Nat /\ (cap = 0 => a = 0)
    BY AvailableInRange, SizeAssumption DEF RingTypeOK
  <2> QED  BY <2>1, <2>2, AvailableInRange
<1>2. /\ Contents \in Seq(Byte) /\ Len(Contents) = a
      /\ \A k \in 1..a : Contents[k] = buf[Place(readPos, k - 1)]
  BY ContentsIsSeq
<1>3. /\ writePos \in 0..cap-1 /\ readPos \in 0..cap-1
      /\ a = IF writePos >= readPos THEN writePos - readPos
             ELSE cap - readPos + writePos
  BY <1>1 DEF RingTypeOK, ringAvailable
<1>4. readPos' = Place(readPos, n)
  <2>1. readPos' = (readPos + n) % cap
    BY DEF ringRead
  <2> HIDE DEF n, a
  <2>2. n \in 0..cap
    BY <1>1
  <2>3. (readPos + n) % cap
          = IF readPos + n < cap THEN readPos + n ELSE readPos + n - cap
    BY <1>1, <1>3, <2>2, ModWrapsOnce
  <2> QED  BY <2>1, <2>3 DEF Place
<1>5. cap' = cap /\ writePos' = writePos /\ buf' = buf
  BY DEF ringRead
<1>6. ringAvailable' = a - n
  <2>1. ringAvailable' = IF writePos >= readPos' THEN writePos - readPos'
                         ELSE cap - readPos' + writePos
    BY <1>1, <1>5 DEF ringAvailable
  <2> HIDE DEF n, a
  <2> QED  BY <1>1, <1>3, <1>4, <2>1 DEF Place
<1>7. sendBuf' = SubSeq(Contents, 1, n)
  <2>1. sendBuf' = [k \in 1..n |-> IF k <= first THEN buf[readPos + k - 1]
                                   ELSE buf[k - first - 1]]
    BY DEF ringRead
  <2>2. ASSUME NEW k \in 1..n
        PROVE  (IF k <= first THEN buf[readPos + k - 1] ELSE buf[k - first - 1])
                  = Contents[k]
    <3>1. Contents[k] = buf[Place(readPos, k - 1)]
      <4> HIDE DEF n, a
      <4> QED  BY <1>1, <1>2, <2>2
    <3>2. Place(readPos, k - 1) = IF k <= first THEN readPos + k - 1
                                  ELSE k - first - 1
      <4>1. first = IF n <= cap - readPos THEN n ELSE cap - readPos
        BY DEF Least
      <4> HIDE DEF n, a, first
      <4> QED  BY <1>1, <1>3, <2>2, <4>1 DEF Place
    <3> QED  BY <3>1, <3>2
  <2>3. sendBuf' = [k \in 1..n |-> Contents[k]]
    <3> HIDE DEF n, first
    <3> QED  BY <2>1, <2>2
  <2> HIDE DEF n, a
  <2>4. SubSeq(Contents, 1, n) = [k \in 1..n |-> Contents[k]]
    BY <1>1, <1>2
  <2> QED  BY <2>3, <2>4
<1>8. Contents' = SubSeq(Contents, n + 1, a)
  <2>1. Contents' = [k \in 1..(a - n) |-> buf[Place(readPos', k - 1)]]
    BY <1>5, <1>6 DEF Contents, Place
  <2>2. ASSUME NEW k \in 1..(a - n)
        PROVE  buf[Place(readPos', k - 1)] = Contents[n + k]
    <3> HIDE DEF n, a
    <3>1. n + k \in 1..a
      BY <1>1, <2>2
    <3>2. Place(readPos', k - 1) = Place(readPos, (n + k) - 1)
      BY <1>1, <1>3, <1>4, <2>2 DEF Place
    <3>3. \A j \in 1..a : Contents[j] = buf[Place(readPos, j - 1)]
      BY <1>2
    <3>4. Contents[n + k] = buf[Place(readPos, (n + k) - 1)]
      BY <3>1, <3>3, Zenon
    <3> QED  BY <3>2, <3>4, Zenon
  <2> HIDE DEF n, a
  <2>3. Contents' = [k \in 1..(a - n) |-> Contents[n + k]]
    BY <2>1, <2>2
  <2>4. SubSeq(Contents, n + 1, a) = [k \in 1..(a - n) |-> Contents[n + k]]
    BY <1>1, <1>2
  <2> QED  BY <2>3, <2>4
<1> HIDE DEF n, a
<1> QED  BY <1>1, <1>2, <1>7, <1>8

-----------------------------------------------------------------------------
(* The ring implements the bounded FIFO queue, for every capacity and      *)
(* every chunk size: no byte is lost, duplicated, reordered or overwritten *)
(* before it is read, at any position of the wrap-around.                  *)
THEOREM RingRefinesQueue == RingQueueSpec => RefinesQueue
<1> DEFINE lim == IF cap = 0 THEN 0 ELSE cap - 1
<1>1. RingQueueInit => Queue!Init
  BY DEF RingQueueInit, RingInit, Queue!Init, Contents, ringAvailable
<1>2. ASSUME RingTypeOK, [RingQueueNext]_ringQueueVars
      PROVE  [Queue!Next]_(Queue!vars)
  <2>1. ASSUME NEW src \in Writes, WriteAudio(src) PROVE Queue!Next
    <3>1. src \in Seq(Byte) /\ src # <<>>
      BY SizeAssumption, <2>1 DEF Writes
    <3>2. Contents' = Contents \o src
      BY <1>2, <2>1, <3>1, WriteAppends DEF WriteAudio
    <3>3. /\ Len(src) \in 1..ringFree /\ cap' = cap /\ sendBuf' = sendBuf
          /\ data' = src
      BY <2>1 DEF WriteAudio, ringWrite
    <3>4. Len(Contents) + Len(src) <= lim
      BY <1>2, <3>3, ContentsIsSeq, AvailableInRange, SizeAssumption
         DEF RingTypeOK, ringFree
    <3>5. Queue!Put(src)
      BY <3>1, <3>2, <3>3, <3>4 DEF Queue!Put
    <3> QED  BY <3>5 DEF Queue!Next
  <2>2. ASSUME SendChunk PROVE Queue!Next
    <3>1. PICK m \in 1..MaxRead :
             /\ m <= Len(Contents)
             /\ sendBuf' = SubSeq(Contents, 1, m)
             /\ Contents' = SubSeq(Contents, m + 1, Len(Contents))
      BY <1>2, <2>2, ReadTakes, SizeAssumption DEF SendChunk
    <3>2. cap' = cap /\ data' = data
      BY <2>2 DEF SendChunk, ringRead
    <3>3. Queue!Take(m)
      BY <3>1, <3>2 DEF Queue!Take
    <3> QED  BY <3>3 DEF Queue!Next
  <2>3. ASSUME Reset PROVE Queue!Next
    <3>1. ringAvailable' = 0
      BY <2>3 DEF Reset, ringReset, ringAvailable
    <3>2. Contents' = <<>>
      BY <3>1 DEF Contents
    <3> QED  BY <2>3, <3>2 DEF Reset, ringReset, Queue!Next, Queue!Clear
  <2>4. ASSUME NEW c \in Capacities, SetFormat(c) PROVE Queue!Next
    <3>1. ringAvailable' = 0
      BY <2>4 DEF SetFormat, ringResize, ringAvailable
    <3>2. Contents' = <<>>
      BY <3>1 DEF Contents
    <3>3. Queue!Resize(c - 1)
      BY <2>4, <3>2, SizeAssumption DEF SetFormat, ringResize, Queue!Resize
    <3> QED  BY <3>3 DEF Queue!Next
  <2>5. ASSUME UNCHANGED ringQueueVars PROVE UNCHANGED Queue!vars
    BY <2>5 DEF ringQueueVars, ringVars, Queue!vars, Contents, ringAvailable, Place
  <2> QED  BY <1>2, <2>1, <2>2, <2>3, <2>4, <2>5 DEF RingQueueNext
<1> QED  BY <1>1, <1>2, RingTypeCorrect, PTL
         DEF RingQueueSpec, RefinesQueue, Queue!Spec
=============================================================================
