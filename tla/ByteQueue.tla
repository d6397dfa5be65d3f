------------------------------ MODULE ByteQueue ------------------------------
(***************************************************************************)
(* What AudioHttpServer promises its producer and its consumer about the   *)
(* ring buffer: a bounded first-in first-out queue of bytes.  Nothing is   *)
(* lost, duplicated or reordered between the clears, and a write never     *)
(* reaches bytes that have not been read.                                  *)
(***************************************************************************)
EXTENDS Naturals, Sequences

CONSTANTS Byte,      \* the values of one byte
          Limits,    \* the bounds a queue may be given
          Batches,   \* the byte sequences a single Put may append
          MaxTake    \* the most a single Take returns

VARIABLES queue,     \* the bytes written and not yet read, oldest first
          given,     \* what the last Put was asked to append
          taken,     \* what the last Take returned
          limit      \* the most bytes the queue may hold

vars == <<queue, given, taken, limit>>

TypeOK ==
    /\ queue \in Seq(Byte)
    /\ given \in Seq(Byte) /\ taken \in Seq(Byte)
    /\ limit \in Limits \cup {0}

Init == queue = <<>> /\ given = <<>> /\ taken = <<>> /\ limit = 0

Put(src) ==
    /\ src # <<>>
    /\ Len(queue) + Len(src) <= limit
    /\ queue' = queue \o src
    /\ given' = src
    /\ UNCHANGED <<taken, limit>>

Take(n) ==
    /\ n \in 1..MaxTake
    /\ n <= Len(queue)
    /\ taken' = SubSeq(queue, 1, n)
    /\ queue' = SubSeq(queue, n + 1, Len(queue))
    /\ UNCHANGED <<given, limit>>

Clear ==
    /\ queue' = <<>>
    /\ UNCHANGED <<given, taken, limit>>

Resize(l) ==
    /\ queue' = <<>>
    /\ limit' = l
    /\ UNCHANGED <<given, taken>>

Next ==
    \/ \E src \in Batches : Put(src)
    \/ \E n \in 1..MaxTake : Take(n)
    \/ Clear
    \/ \E l \in Limits : Resize(l)

Spec == Init /\ [][Next]_vars
=============================================================================
