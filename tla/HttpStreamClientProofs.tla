------------------------ MODULE HttpStreamClientProofs ------------------------
(***************************************************************************)
(* Proofs about HttpStreamClient, for audio, metadata blocks and buffers   *)
(* of any sizes and every way TCP cuts a response.  What a response looks  *)
(* like is stated once, as a layout: where each block begins and how much  *)
(* audio is before it.  The invariant then says at which place of which    *)
(* block the reader is, which is what untilMeta and discard count.         *)
(***************************************************************************)
EXTENDS HttpStreamClient, Recursion

HeaderKinds == {"cr", "lf", "ch"}
BodyKinds   == {"audio", "length", "meta"}

\* Block k, a run of audio and its metadata, begins after start[k] bytes of the
\* response, before[k] of them audio; the last run has no metadata after it.
IsLayout(r, l) ==
    LET m    == r.metaInt
        last == Len(l.units) + 1
    IN  /\ l.header \in Nat /\ l.units \in Seq(0..MaxUnits)
        /\ l.start \in [1..last -> Nat] /\ l.before \in [1..last -> 0..AudioLen]
        /\ l.start[1] = l.header /\ l.before[1] = 0
        /\ IF m = 0 THEN last = 1 ELSE AudioLen - l.before[last] < m
        /\ \A k \in 1..(last - 1) :
             /\ l.before[k + 1] = l.before[k] + m
             /\ l.start[k + 1] = l.start[k] + m + 1 + l.units[k] * MetaUnit

Holds(r, l) ==
    LET m    == r.metaInt
        last == Len(l.units) + 1
    IN  /\ Len(r.bytes) = l.start[last] + (AudioLen - l.before[last])
        /\ \A p \in 1..l.header : r.bytes[p].kind \in HeaderKinds
        /\ \A p \in (l.header + 1)..Len(r.bytes) : r.bytes[p].kind \in BodyKinds
        /\ \A n \in 4..l.header :
             (\A j \in 1..4 : r.bytes[n - 4 + j].kind = EmptyLine[j]) => n = l.header
        /\ \A k \in 1..(last - 1) :
             /\ l.start[k + 1] <= Len(r.bytes)
             /\ \A i \in 1..m : r.bytes[l.start[k] + i] = Item("audio", l.before[k] + i)
             /\ r.bytes[l.start[k] + m + 1] = Item("length", l.units[k])
             /\ \A i \in 1..(l.units[k] * MetaUnit) :
                  r.bytes[l.start[k] + m + 1 + i].kind = "meta"
        /\ \A i \in 1..(AudioLen - l.before[last]) :
             r.bytes[l.start[last] + i] = Item("audio", l.before[last] + i)

LayoutOf(r) == CHOOSE l : IsLayout(r, l) /\ Holds(r, l)
Layout == LayoutOf(response)

-----------------------------------------------------------------------------
(* The invariant.                                                          *)

InLoop  == {"poll", "audio", "length", "meta"}
Reading == InLoop \cup {"done"}

\* In a run of audio that begins after start bytes, before of them audio.
RunAt(m, start, before) ==
    LET i == taken - start
    IN  /\ i >= 0 /\ Len(got) = before + i
        /\ IF m = 0 THEN untilMeta = 0 ELSE i <= m /\ untilMeta = m - i
        /\ discard = 0
        /\ readerPc # "meta"
        /\ readerPc = "audio" /\ m > 0 => untilMeta > 0
        /\ readerPc = "length" => m > 0 /\ untilMeta = 0

\* In the metadata after that run, discard bytes before its end.
MetaAt(m, start, before, size) ==
    /\ discard \in 1..size /\ untilMeta = 0
    /\ Len(got) = before + m
    /\ taken = start + m + 1 + size - discard
    /\ readerPc \in {"meta", "done"}

InRun(k)  == RunAt(response.metaInt, Layout.start[k], Layout.before[k])
InMeta(k) ==
    /\ k <= Len(Layout.units)
    /\ MetaAt(response.metaInt, Layout.start[k], Layout.before[k],
              Layout.units[k] * MetaUnit)

\* The audio taken so far is what has been returned.
Delivered ==
    /\ got = AudioFrom(1, Len(got)) /\ Len(got) \in 0..AudioLen
    /\ ToSet(got) = AudioIn(taken)

ReaderRight ==
    readerPc \in Reading =>
        /\ icyMetaInt = response.metaInt
        /\ Delivered
        /\ \E k \in 1..(Len(Layout.units) + 1) : InRun(k) \/ InMeta(k)

\* Nothing but the header is read before its end, which endSeq finds.
HeaderRight ==
    /\ readerPc \in {"header", "failed"} =>
         icyMetaInt = 0 /\ untilMeta = 0 /\ discard = 0 /\ got = <<>>
    /\ readerPc = "header" =>
         /\ taken <= HeaderLimit
         /\ endSeq < 4 /\ endSeq <= taken
         /\ \A j \in 1..endSeq : response.bytes[taken - endSeq + j].kind = EmptyLine[j]

\* Where the states are.
Shape ==
    /\ response \in Responses
    /\ arrived \in 0..Len(response.bytes) /\ taken \in 0..arrived
    /\ peer \in {"open", "fin", "reset"} /\ sock \in {"open", "shut", "closed"}
    /\ connected \in BOOLEAN /\ running \in BOOLEAN /\ endSeq \in 0..4
    /\ readerPc \in {"header", "failed"} \cup Reading
    /\ stopPc \in {"away", "flag", "shutdown", "close"}

\* A reader that is told to stop, or that has stopped before the end, is one
\* whose socket is shut or about to be.
Stopping == stopPc \in {"flag", "shutdown"} \/ sock # "open"
StopRight ==
    /\ stopPc = "close" => sock # "open"
    /\ readerPc \in InLoop /\ ~running => Stopping
    /\ readerPc \in InLoop /\ ~connected => stopPc = "shutdown" \/ sock # "open"
    /\ readerPc = "done" =>
         Stopping \/ peer = "reset" \/ (peer = "fin" /\ taken = arrived)

HttpInv == Shape /\ HeaderRight /\ ReaderRight /\ StopRight

-----------------------------------------------------------------------------
(* Arithmetic that several steps need, on names that stand for nothing.    *)

LEMMA Sizes == AudioLen \in Nat /\ MetaUnit \in Nat /\ MaxUnits \in Nat /\ MaxLen \in Nat
                 /\ DiscardLen \in Nat
BY HttpAssumption

LEMMA MetaSize ==
    ASSUME NEW u \in 0..MaxUnits
    PROVE  u * MetaUnit \in Nat
<1>1. u \in Nat
  BY Sizes
<1> QED
  BY <1>1, Sizes

\* The places of a block that begins after a of the len bytes of a body, and
\* after h + a of the response.
Fits(h, a, m, size, len) ==
    /\ h \in Nat /\ a \in Nat /\ m \in Nat /\ size \in Nat /\ len \in Nat
    /\ a + m + 1 + size <= len

Places(h, a, m, size, len) ==
    /\ \A i \in 1..m : a + i \in 1..len /\ (h + a) + i = h + (a + i)
    /\ a + m + 1 \in 1..len /\ h + a + m + 1 = h + (a + m + 1)
    /\ \A i \in 1..size : a + m + 1 + i \in 1..len /\ h + a + m + 1 + i = h + (a + m + 1 + i)

LEMMA BlockPlaces ==
    ASSUME NEW h, NEW a, NEW m, NEW size, NEW len, Fits(h, a, m, size, len)
    PROVE  Places(h, a, m, size, len)
BY DEF Fits, Places

LEMMA Within ==
    ASSUME NEW b \in Nat, NEW i \in Nat, NEW len \in Nat, b <= len
    PROVE  /\ i <= len - b => b + i <= len /\ \A j \in 1..i : j \in 1..(len - b)
           /\ \A s \in Nat : s + i <= s + (len - b) => i <= len - b
OBVIOUS

LEMMA WithinRun ==
    ASSUME NEW b \in Nat, NEW i \in Nat, NEW m \in Nat, NEW len \in Nat, b + m <= len, i <= m
    PROVE  b + i <= len
OBVIOUS

-----------------------------------------------------------------------------
(* Every response has a layout.                                            *)

AnyItem  == [kind : HeaderKinds \cup BodyKinds, val : Nat]
BodyItem == [kind : BodyKinds, val : Nat]

LEMMA ItemIs ==
    ASSUME NEW kind, NEW val
    PROVE  /\ Item(kind, val).kind = kind /\ Item(kind, val).val = val
           /\ kind \in BodyKinds /\ val \in Nat => Item(kind, val) \in BodyItem
           /\ kind \in HeaderKinds /\ val \in Nat => Item(kind, val) \in AnyItem
BY DEF Item, BodyItem, AnyItem

LEMMA AudioFromIs ==
    ASSUME NEW a \in Nat \ {0}, NEW n \in Nat
    PROVE  /\ AudioFrom(a, n) \in Seq(BodyItem)
           /\ Len(AudioFrom(a, n)) = n
           /\ \A i \in 1..n : AudioFrom(a, n)[i] = Item("audio", a + i - 1)
<1>1. \A i \in 1..n : Item("audio", a + i - 1) \in BodyItem
  BY ItemIs DEF BodyKinds
<1> QED
  BY <1>1 DEF AudioFrom

LEMMA MetaBlockIs ==
    ASSUME NEW units \in 0..MaxUnits
    PROVE  /\ MetaBlock(units) \in Seq(BodyItem)
           /\ Len(MetaBlock(units)) = 1 + units * MetaUnit
           /\ MetaBlock(units)[1] = Item("length", units)
           /\ \A i \in 1..(units * MetaUnit) : MetaBlock(units)[1 + i] = Item("meta", i)
<1> DEFINE size == units * MetaUnit
           x == Item("length", units)
           t == [i \in 1..size |-> Item("meta", i)]
<1>1. size \in Nat
  BY HttpAssumption
<1>2. /\ x \in BodyItem
      /\ \A i \in 1..size : Item("meta", i) \in BodyItem
  BY HttpAssumption, ItemIs DEF BodyKinds
<1> HIDE DEF size
<1>3. t \in Seq(BodyItem) /\ Len(t) = size /\ \A i \in 1..size : t[i] = Item("meta", i)
  BY <1>1, <1>2
<1> HIDE DEF x, t
<1>4. MetaBlock(units) = <<x>> \o t
  BY DEF MetaBlock, x, t, size
<1>5. t \in Seq(BodyItem) /\ Len(t) = size
  BY <1>3
<1>6. /\ <<x>> \o t \in Seq(BodyItem)
      /\ Len(<<x>> \o t) = 1 + size
      /\ (<<x>> \o t)[1] = x
      /\ \A i \in 1..size : (<<x>> \o t)[1 + i] = t[i]
  <2>1. x \in BodyItem /\ t \in Seq(BodyItem)
    BY <1>2, <1>5
  <2>2. /\ <<x>> \o t \in Seq(BodyItem)
        /\ Len(<<x>> \o t) = 1 + Len(t)
        /\ (<<x>> \o t)[1] = x
        /\ \A i \in 1..Len(t) : (<<x>> \o t)[1 + i] = t[i]
    BY <2>1, ConsIndexed
  <2> QED
    BY <1>5, <2>2, Zenon
<1> HIDE DEF MetaBlock
<1> QED
  BY <1>3, <1>4, <1>6, Zenon DEF size, x

\* A run of audio and its metadata.
Block(m, units, k) == AudioFrom((k - 1) * m + 1, m) \o MetaBlock(units)

LEMMA BlockIs ==
    ASSUME NEW m \in Nat, NEW units \in 0..MaxUnits, NEW k \in Nat \ {0}
    PROVE  /\ Block(m, units, k) \in Seq(BodyItem)
           /\ Len(Block(m, units, k)) = m + 1 + units * MetaUnit
           /\ \A i \in 1..m : Block(m, units, k)[i] = Item("audio", (k - 1) * m + i)
           /\ Block(m, units, k)[m + 1] = Item("length", units)
           /\ \A i \in 1..(units * MetaUnit) :
                Block(m, units, k)[m + 1 + i] = Item("meta", i)
<1> DEFINE before == (k - 1) * m
           size == units * MetaUnit
           s == AudioFrom(before + 1, m)
           t == MetaBlock(units)
<1>1. before \in Nat /\ size \in Nat
  BY HttpAssumption
<1> HIDE DEF before
<1>2. /\ s \in Seq(BodyItem) /\ Len(s) = m
      /\ \A i \in 1..m : s[i] = Item("audio", (before + 1) + i - 1)
  <2>1. before + 1 \in Nat \ {0}
    BY <1>1
  <2> QED
    BY <2>1, AudioFromIs
<1>3. \A i \in 1..m : (before + 1) + i - 1 = before + i
  BY <1>1
<1>4. /\ t \in Seq(BodyItem) /\ Len(t) = 1 + size
      /\ t[1] = Item("length", units)
      /\ \A i \in 1..size : t[1 + i] = Item("meta", i)
  BY MetaBlockIs
<1>5. Block(m, units, k) = s \o t
  BY DEF Block, before
<1> HIDE DEF s, t, size
<1>6. /\ s \o t \in Seq(BodyItem) /\ Len(s \o t) = m + (1 + size)
      /\ \A i \in 1..m : (s \o t)[i] = s[i]
      /\ \A i \in 1..(1 + size) : (s \o t)[m + i] = t[i]
  BY <1>2, <1>4, ConcatAt
<1>7. (s \o t)[m + 1] = t[1] /\ \A i \in 1..size : (s \o t)[m + 1 + i] = t[1 + i]
  <2>1. 1 \in 1..(1 + size) /\ \A i \in 1..size : 1 + i \in 1..(1 + size) /\ m + (1 + i) = m + 1 + i
    BY <1>1
  <2> QED
    BY <1>6, <2>1
<1>8. m + (1 + size) = m + 1 + size
  BY <1>1
<1> DEFINE b == Block(m, units, k)
<1>9. /\ b \in Seq(BodyItem)
      /\ Len(b) = m + 1 + size
      /\ b[m + 1] = Item("length", units)
  BY <1>4, <1>5, <1>6, <1>7, <1>8, Zenon
<1>10. \A i \in 1..m : b[i] = Item("audio", before + i)
  BY <1>2, <1>3, <1>5, <1>6, Zenon
<1>11. \A i \in 1..size : b[m + 1 + i] = Item("meta", i)
  BY <1>4, <1>5, <1>7, Zenon
<1> QED
  BY <1>9, <1>10, <1>11, Zenon DEF before, size

\* Blocks of audio fit AudioLen, and less than one is left over.
LEMMA WholeBlocks ==
    ASSUME NEW m \in Nat \ {0}, NEW n \in Nat
    PROVE  /\ n \div m \in Nat
           /\ (n \div m) * m <= n
           /\ n - (n \div m) * m < m
<1>1. n \div m \in Int /\ n % m \in 0..(m - 1) /\ n = m * (n \div m) + (n % m)
  OBVIOUS
<1> QED
  BY <1>1

LEMMA UnitsFit ==
    ASSUME NEW m \in Nat, NEW u \in UnitsOf(m)
    PROVE  /\ u \in Seq(0..MaxUnits)
           /\ \A k \in 1..(Len(u) + 1) : (k - 1) * m \in 0..AudioLen
           /\ IF m = 0 THEN Len(u) = 0 ELSE AudioLen - Len(u) * m < m
<1>1. CASE m = 0
  <2>1. u = <<>>
    BY <1>1 DEF UnitsOf
  <2>2. u \in Seq(0..MaxUnits) /\ Len(u) = 0
    BY <2>1
  <2>3. \A k \in 1..1 : (k - 1) * 0 \in 0..AudioLen
    BY HttpAssumption
  <2> QED
    BY <1>1, <2>2, <2>3
<1>2. CASE m # 0
  <2> DEFINE n == AudioLen \div m
  <2>1. n \in Nat /\ n * m <= AudioLen /\ AudioLen - n * m < m
    BY <1>2, HttpAssumption, WholeBlocks
  <2> HIDE DEF n
  <2>2. u \in [1..n -> 0..MaxUnits]
    BY <1>2 DEF UnitsOf, n
  <2>3. u \in Seq(0..MaxUnits) /\ Len(u) = n
    BY <2>1, <2>2, FunctionIsSeq, Zenon
  <2>4. ASSUME NEW k \in 1..(n + 1) PROVE (k - 1) * m \in 0..AudioLen
    <3>1. k - 1 \in Nat /\ k - 1 <= n
      BY <2>1
    <3>2. \A i, j, p \in Nat : i <= j => i * p <= j * p /\ i * p \in Nat /\ j * p \in Nat
      OBVIOUS
    <3>3. (k - 1) * m <= n * m /\ (k - 1) * m \in Nat /\ n * m \in Nat
      BY <2>1, <3>1, <3>2
    <3> QED
      BY <2>1, <3>3, HttpAssumption
  <2> QED
    BY <1>2, <2>1, <2>3, <2>4
<1> QED
  BY <1>1, <1>2

\* Where the blocks are in a body: the layout of a response without a header.
LEMMA BodyLaidOut ==
    ASSUME NEW m \in Nat, NEW u \in UnitsOf(m)
    PROVE  LET b == Body(m, u)
               n == Len(u)
               rest == AudioLen - n * m
           IN  /\ b \in Seq(BodyItem)
               /\ \E st \in [1..(n + 1) -> Nat] :
                    /\ st[1] = 0
                    /\ Len(b) = st[n + 1] + rest
                    /\ \A k \in 1..n :
                         /\ st[k + 1] = st[k] + m + 1 + u[k] * MetaUnit
                         /\ st[k + 1] <= Len(b)
                         /\ \A i \in 1..m :
                              b[st[k] + i] = Item("audio", (k - 1) * m + i)
                         /\ b[st[k] + m + 1] = Item("length", u[k])
                         /\ \A i \in 1..(u[k] * MetaUnit) :
                              b[st[k] + m + 1 + i] = Item("meta", i)
                    /\ \A i \in 1..rest : b[st[n + 1] + i] = Item("audio", n * m + i)
<1> DEFINE b == Body(m, u)
           n == Len(u)
           rest == AudioLen - n * m
           blocks == [k \in 1..n |-> Block(m, u[k], k)]
           flat == FlattenSeq(blocks)
           tail == AudioFrom(n * m + 1, rest)
<1>1. /\ u \in Seq(0..MaxUnits) /\ n \in Nat
      /\ \A k \in 1..n : u[k] \in 0..MaxUnits /\ u[k] * MetaUnit \in Nat
  <2>1. u \in Seq(0..MaxUnits)
    BY UnitsFit
  <2>2. n \in Nat /\ \A k \in 1..n : u[k] \in 0..MaxUnits
    BY <2>1, SeqParts, Zenon
  <2>3. \A k \in 1..n : u[k] * MetaUnit \in Nat
    BY <2>2, HttpAssumption
  <2> QED
    BY <2>1, <2>2, <2>3
<1>2. rest \in Nat /\ n * m \in Nat
  <2>1. \A k \in 1..(n + 1) : (k - 1) * m \in 0..AudioLen
    BY UnitsFit
  <2>2. n + 1 \in 1..(n + 1) /\ (n + 1) - 1 = n
    BY <1>1
  <2>3. n * m \in 0..AudioLen
    BY <2>1, <2>2
  <2> HIDE DEF n
  <2> QED
    BY <2>3, HttpAssumption
<1>3. b = flat \o tail
  <2>1. DOMAIN u = 1..n
    BY <1>1, SeqParts, Zenon
  <2> HIDE DEF n
  <2> QED
    BY <2>1 DEF Body, Block, n
<1>4. \A k \in 1..n :
         /\ blocks[k] \in Seq(BodyItem)
         /\ Len(blocks[k]) = m + 1 + u[k] * MetaUnit
         /\ \A i \in 1..m : blocks[k][i] = Item("audio", (k - 1) * m + i)
         /\ blocks[k][m + 1] = Item("length", u[k])
         /\ \A i \in 1..(u[k] * MetaUnit) : blocks[k][m + 1 + i] = Item("meta", i)
  <2> SUFFICES ASSUME NEW k \in 1..n
               PROVE  /\ blocks[k] \in Seq(BodyItem)
                      /\ Len(blocks[k]) = m + 1 + u[k] * MetaUnit
                      /\ \A i \in 1..m : blocks[k][i] = Item("audio", (k - 1) * m + i)
                      /\ blocks[k][m + 1] = Item("length", u[k])
                      /\ \A i \in 1..(u[k] * MetaUnit) :
                           blocks[k][m + 1 + i] = Item("meta", i)
    BY Zenon
  <2>1. k \in Nat \ {0} /\ u[k] \in 0..MaxUnits
    BY <1>1
  <2>2. blocks[k] = Block(m, u[k], k)
    BY Zenon
  <2>3. /\ Block(m, u[k], k) \in Seq(BodyItem)
        /\ Len(Block(m, u[k], k)) = m + 1 + u[k] * MetaUnit
        /\ \A i \in 1..m : Block(m, u[k], k)[i] = Item("audio", (k - 1) * m + i)
        /\ Block(m, u[k], k)[m + 1] = Item("length", u[k])
        /\ \A i \in 1..(u[k] * MetaUnit) : Block(m, u[k], k)[m + 1 + i] = Item("meta", i)
    BY <2>1, BlockIs
  <2> HIDE DEF blocks
  <2> QED
    BY <2>2, <2>3, Zenon
<1>5. blocks \in Seq(Seq(BodyItem)) /\ Len(blocks) = n
  <2>1. blocks \in [1..n -> Seq(BodyItem)]
    <3>1. \A k \in 1..n : blocks[k] \in Seq(BodyItem)
      BY <1>4, Zenon
    <3>2. blocks = [k \in 1..n |-> blocks[k]]
      BY Zenon
    <3> HIDE DEF blocks
    <3> QED
      BY <3>1, <3>2
  <2> HIDE DEF blocks, n
  <2> QED
    BY <1>1, <2>1
<1>6. /\ tail \in Seq(BodyItem)
      /\ Len(tail) = rest
      /\ \A i \in 1..rest : tail[i] = Item("audio", n * m + i)
  <2>1. n * m + 1 \in Nat \ {0}
    BY <1>2
  <2>2. /\ tail \in Seq(BodyItem)
        /\ Len(tail) = rest
        /\ \A i \in 1..rest : tail[i] = Item("audio", (n * m + 1) + i - 1)
    <3> HIDE DEF rest
    <3> QED
      BY <1>2, <2>1, AudioFromIs
  <2>3. \A i \in 1..rest : (n * m + 1) + i - 1 = n * m + i
    BY <1>2
  <2> HIDE DEF tail
  <2> QED
    BY <2>2, <2>3, Zenon
<1> HIDE DEF b, n, rest, blocks, flat, tail
<1>7. /\ flat \in Seq(BodyItem)
      /\ \E st \in [1..(n + 1) -> Nat] :
           /\ st[1] = 0 /\ st[n + 1] = Len(flat)
           /\ \A k \in 1..n :
                /\ st[k + 1] = st[k] + Len(blocks[k])
                /\ st[k + 1] <= Len(flat)
                /\ \A i \in 1..Len(blocks[k]) : flat[st[k] + i] = blocks[k][i]
  <2>1. /\ flat \in Seq(BodyItem)
        /\ \E st \in [1..(Len(blocks) + 1) -> Nat] :
             /\ st[1] = 0 /\ st[Len(blocks) + 1] = Len(flat)
             /\ \A k \in 1..Len(blocks) :
                  /\ st[k + 1] = st[k] + Len(blocks[k])
                  /\ st[k + 1] <= Len(flat)
                  /\ \A i \in 1..Len(blocks[k]) : flat[st[k] + i] = blocks[k][i]
    BY <1>5, FlattenLayout DEF flat
  <2> QED
    BY <1>5, <2>1, Zenon
<1>8. PICK st \in [1..(n + 1) -> Nat] :
           /\ st[1] = 0 /\ st[n + 1] = Len(flat)
           /\ \A k \in 1..n :
                /\ st[k + 1] = st[k] + Len(blocks[k])
                /\ st[k + 1] <= Len(flat)
                /\ \A i \in 1..Len(blocks[k]) : flat[st[k] + i] = blocks[k][i]
  BY <1>7, Zenon
<1>9. /\ flat \o tail \in Seq(BodyItem)
      /\ Len(flat \o tail) = Len(flat) + Len(tail)
      /\ \A i \in 1..Len(flat) : (flat \o tail)[i] = flat[i]
      /\ \A i \in 1..Len(tail) : (flat \o tail)[Len(flat) + i] = tail[i]
  <2>1. flat \in Seq(BodyItem) /\ tail \in Seq(BodyItem)
    BY <1>6, <1>7
  <2> QED
    BY <2>1, ConcatIndexed
<1>10. Len(b) = st[n + 1] + rest /\ b \in Seq(BodyItem) /\ Len(flat) \in Nat
  BY <1>3, <1>6, <1>7, <1>8, <1>9
<1>11. \A i \in 1..rest : b[st[n + 1] + i] = Item("audio", n * m + i)
  BY <1>3, <1>6, <1>8, <1>9, Zenon
<1>12. ASSUME NEW k \in 1..n
       PROVE  /\ st[k + 1] = st[k] + m + 1 + u[k] * MetaUnit
              /\ st[k + 1] <= Len(b)
              /\ \A i \in 1..m : b[st[k] + i] = Item("audio", (k - 1) * m + i)
              /\ b[st[k] + m + 1] = Item("length", u[k])
              /\ \A i \in 1..(u[k] * MetaUnit) : b[st[k] + m + 1 + i] = Item("meta", i)
  <2> DEFINE size == u[k] * MetaUnit
             len == m + 1 + size
  <2>1. size \in Nat /\ st[k] \in Nat /\ Len(blocks[k]) = len
    <3>1. k \in 1..(n + 1)
      BY <1>1
    <3> QED
      BY <1>1, <1>4, <3>1
  <2> HIDE DEF size
  <2>2. st[k + 1] = st[k] + len /\ st[k + 1] <= Len(flat)
    BY <1>8, <2>1
  <2>3. \A i \in 1..len : st[k] + i \in 1..Len(flat)
    <3>1. \A x, y, z \in Nat : x + y <= z => \A i \in 1..y : x + i \in 1..z
      OBVIOUS
    <3>2. len \in Nat
      BY <2>1
    <3> HIDE DEF len
    <3> QED
      BY <1>10, <2>1, <2>2, <3>1, <3>2
  <2>4. \A i \in 1..len : b[st[k] + i] = blocks[k][i]
    <3> HIDE DEF len
    <3> QED
      BY <1>3, <1>8, <1>9, <2>1, <2>3, Zenon
  <2>5. st[k + 1] <= Len(b)
    <3> HIDE DEF len
    <3>1. Len(b) = Len(flat) + rest
      BY <1>8, <1>10
    <3>2. st[k + 1] \in Nat
      BY <1>1
    <3> QED
      BY <1>2, <1>10, <2>2, <3>1, <3>2
  <2>6. \A i \in 1..m : b[st[k] + i] = Item("audio", (k - 1) * m + i)
    <3>1. \A i \in 1..m : i \in 1..len
      BY <2>1
    <3> QED
      BY <1>4, <2>4, <3>1, Zenon
  <2>7. b[st[k] + m + 1] = Item("length", u[k])
    <3>1. m + 1 \in 1..len /\ st[k] + m + 1 = st[k] + (m + 1)
      BY <2>1
    <3> QED
      BY <1>4, <2>4, <3>1, Zenon
  <2>8. \A i \in 1..size : b[st[k] + m + 1 + i] = Item("meta", i)
    <3>1. \A i \in 1..size : m + 1 + i \in 1..len /\ st[k] + m + 1 + i = st[k] + (m + 1 + i)
      BY <2>1
    <3> QED
      BY <1>4, <2>4, <3>1, Zenon DEF size
  <2>9. st[k + 1] = st[k] + m + 1 + size
    BY <2>1, <2>2
  <2> QED
    BY <2>5, <2>6, <2>7, <2>8, <2>9, Zenon DEF size
<1> HIDE DEF Body, Item
<1> QED
  BY <1>8, <1>10, <1>11, <1>12, Zenon DEF b, n, rest

LEMMA EmptyLineEnds ==
    ASSUME NEW h \in Headers, NEW n \in 4..Len(h),
           \A j \in 1..4 : h[n - 4 + j] = EmptyLine[j]
    PROVE  n = Len(h)
<1> DEFINE Kinds == {"cr", "lf", "ch"}
<1>1. h \in Seq(Kinds) /\ Len(h) \in Nat
  BY HttpAssumption
<1>2. n - 3 \in 1..Len(h) /\ n \in 1..Len(h)
  BY <1>1
<1> DEFINE part == SubSeq(h, n - 3, n)
<1>3. /\ Len(part) = 4 /\ part \in Seq(Kinds)
      /\ part[1] = h[n - 3] /\ part[2] = h[n - 2] /\ part[3] = h[n - 1] /\ part[4] = h[n]
  BY <1>1, <1>2
<1>4. /\ h[n - 4 + 1] = EmptyLine[1] /\ h[n - 4 + 2] = EmptyLine[2]
      /\ h[n - 4 + 3] = EmptyLine[3] /\ h[n - 4 + 4] = EmptyLine[4]
  OBVIOUS
<1>5. n - 4 + 1 = n - 3 /\ n - 4 + 2 = n - 2 /\ n - 4 + 3 = n - 1 /\ n - 4 + 4 = n
  BY <1>2
<1>6. /\ part[1] = EmptyLine[1] /\ part[2] = EmptyLine[2]
      /\ part[3] = EmptyLine[3] /\ part[4] = EmptyLine[4]
  BY <1>3, <1>4, <1>5
<1>7. part = EmptyLine
  <2>1. EmptyLine \in Seq(Kinds) /\ Len(EmptyLine) = 4
    BY DEF EmptyLine
  <2> HIDE DEF part
  <2>2. \A i \in 1..4 : part[i] = EmptyLine[i]
    BY <1>6
  <2>3. part \in Seq(Kinds) /\ Len(part) = Len(EmptyLine) /\ Len(part) = 4
    BY <1>3, <2>1
  <2> HIDE DEF Kinds
  <2> QED
    BY <2>1, <2>2, <2>3, SeqEqual, Zenon
<1> QED
  BY <1>7, HttpAssumption

LEMMA ResponseLaidOut ==
    ASSUME NEW r \in Responses
    PROVE  /\ r.metaInt \in MetaInts /\ r.bytes \in Seq(AnyItem)
           /\ \E l : IsLayout(r, l) /\ Holds(r, l)
<1>0. PICK m \in MetaInts : \E u \in UnitsOf(m), h \in Headers :
           r = [metaInt |-> m, bytes |-> [i \in DOMAIN h |-> Item(h[i], 0)] \o Body(m, u)]
  <2> DEFINE Of(m, h, u) ==
               [metaInt |-> m, bytes |-> [i \in DOMAIN h |-> Item(h[i], 0)] \o Body(m, u)]
  <2>1. Responses = UNION {{Of(m, h, u) : u \in UnitsOf(m), h \in Headers} : m \in MetaInts}
    BY DEF Responses
  <2> HIDE DEF Of
  <2>2. PICK m \in MetaInts : \E u \in UnitsOf(m), h \in Headers : r = Of(m, h, u)
    BY <2>1
  <2> QED
    BY <2>2, Zenon DEF Of
<1>1. PICK h \in Headers, u \in UnitsOf(m) :
           r = [metaInt |-> m, bytes |-> [i \in DOMAIN h |-> Item(h[i], 0)] \o Body(m, u)]
  BY <1>0, Zenon
<1> DEFINE H == Len(h)
           n == Len(u)
           rest == AudioLen - n * m
           head == [i \in DOMAIN h |-> Item(h[i], 0)]
           b == Body(m, u)
           bytes == head \o b
<1>2. r.metaInt = m /\ r.bytes = bytes /\ m \in Nat
  BY <1>1, HttpAssumption
<1>3. /\ H \in Nat /\ head \in Seq(AnyItem) /\ Len(head) = H
      /\ \A i \in 1..H : head[i].kind = h[i] /\ h[i] \in HeaderKinds
  <2>1. /\ H \in Nat /\ DOMAIN h = 1..H
        /\ \A i \in 1..H : h[i] \in HeaderKinds
    BY HttpAssumption, SeqParts DEF HeaderKinds
  <2> HIDE DEF H
  <2>2. \A i \in 1..H : Item(h[i], 0) \in AnyItem
    BY <2>1, ItemIs
  <2>3. head \in [1..H -> AnyItem]
    BY <2>1, <2>2
  <2>4. \A i \in 1..H : head[i] = Item(h[i], 0)
    BY <2>1
  <2>5. \A i \in 1..H : head[i].kind = h[i]
    <3> SUFFICES ASSUME NEW i \in 1..H PROVE head[i].kind = h[i]
      BY Zenon
    <3>1. head[i] = Item(h[i], 0) /\ Item(h[i], 0).kind = h[i]
      BY <2>4, ItemIs
    <3> HIDE DEF head
    <3> QED
      BY <3>1, Zenon
  <2>6. head \in Seq(AnyItem) /\ Len(head) = H
    <3> HIDE DEF head
    <3> QED
      BY <2>1, <2>3, FunctionIsSeq, Zenon
  <2> HIDE DEF head
  <2> QED
    BY <2>1, <2>5, <2>6
<1>4. /\ u \in Seq(0..MaxUnits) /\ n \in Nat
      /\ \A k \in 1..(n + 1) : (k - 1) * m \in 0..AudioLen
      /\ IF m = 0 THEN n = 0 ELSE rest < m
  <2>1. u \in Seq(0..MaxUnits)
    BY <1>2, UnitsFit
  <2>2. n \in Nat
    BY <2>1, SeqParts, Zenon
  <2>3. \A k \in 1..(n + 1) : (k - 1) * m \in 0..AudioLen
    BY <1>2, UnitsFit
  <2>4. IF m = 0 THEN n = 0 ELSE rest < m
    BY <1>2, UnitsFit
  <2> QED
    BY <2>1, <2>2, <2>3, <2>4, Zenon
<1>5. b \in Seq(BodyItem)
  BY <1>2, BodyLaidOut
<1>6. PICK st \in [1..(n + 1) -> Nat] :
         /\ st[1] = 0
         /\ Len(b) = st[n + 1] + rest
         /\ \A k \in 1..n :
              /\ st[k + 1] = st[k] + m + 1 + u[k] * MetaUnit
              /\ st[k + 1] <= Len(b)
              /\ \A i \in 1..m : b[st[k] + i] = Item("audio", (k - 1) * m + i)
              /\ b[st[k] + m + 1] = Item("length", u[k])
              /\ \A i \in 1..(u[k] * MetaUnit) :
                   b[st[k] + m + 1 + i] = Item("meta", i)
         /\ \A i \in 1..rest : b[st[n + 1] + i] = Item("audio", n * m + i)
  BY <1>2, BodyLaidOut
<1> DEFINE l == [header |-> H, units |-> u,
                 start  |-> [k \in 1..(n + 1) |-> H + st[k]],
                 before |-> [k \in 1..(n + 1) |-> (k - 1) * m]]
<1>7. /\ l.header = H /\ l.units = u
      /\ \A k \in 1..(n + 1) : l.start[k] = H + st[k] /\ l.before[k] = (k - 1) * m
      /\ l.start \in [1..(n + 1) -> Nat] /\ l.before \in [1..(n + 1) -> 0..AudioLen]
  <2> HIDE DEF H, n
  <2>1. \A k \in 1..(n + 1) : H + st[k] \in Nat
    BY <1>3
  <2> QED
    BY <1>4, <2>1
<1>8. /\ bytes \in Seq(AnyItem) /\ Len(bytes) = H + Len(b)
      /\ \A i \in 1..H : bytes[i] = head[i]
      /\ \A i \in 1..Len(b) : bytes[H + i] = b[i]
  <2> HIDE DEF head, b, H
  <2>1. b \in Seq(AnyItem)
    <3>1. BodyItem \subseteq AnyItem
      BY DEF BodyItem, AnyItem
    <3> QED
      BY <1>5, <3>1
  <2>2. head \in Seq(AnyItem)
    BY <1>3
  <2>3. /\ bytes \in Seq(AnyItem) /\ Len(bytes) = Len(head) + Len(b)
        /\ \A i \in 1..Len(head) : bytes[i] = head[i]
        /\ \A i \in 1..Len(b) : bytes[Len(head) + i] = b[i]
    BY <2>1, <2>2, ConcatIndexed
  <2> QED
    BY <1>3, <2>3, Zenon
<1> HIDE DEF l, bytes, head, b, H
<1>9. Len(b) \in Nat /\ \A i \in 1..Len(b) : b[i].kind \in BodyKinds
  <2>1. Len(b) \in Nat /\ \A i \in 1..Len(b) : b[i] \in BodyItem
    BY <1>5, SeqParts
  <2> QED
    BY <2>1 DEF BodyItem
<1>10. rest \in Nat /\ n * m = AudioLen - rest /\ l.before[n + 1] = n * m
  <2>1. n + 1 \in 1..(n + 1) /\ (n + 1) - 1 = n
    BY <1>4
  <2>2. n * m \in 0..AudioLen
    BY <1>4, <2>1
  <2>3. l.before[n + 1] = n * m
    BY <1>7, <2>1
  <2> HIDE DEF n
  <2> QED
    BY <2>2, <2>3, HttpAssumption
<1> HIDE DEF rest, n
<1>11. IsLayout(r, l)
  <2>1. 1 \in 1..(n + 1) /\ n + 1 \in 1..(n + 1) /\ (n + 1) - 1 = n
        /\ \A k \in 1..n : k \in 1..(n + 1) /\ k + 1 \in 1..(n + 1)
    BY <1>4
  <2>2. l.start[1] = l.header /\ l.before[1] = 0
    <3>1. H + st[1] = H /\ (1 - 1) * m = 0
      BY <1>2, <1>3, <1>6
    <3> QED
      BY <1>7, <2>1, <3>1
  <2>3. ASSUME NEW k \in 1..n
        PROVE  /\ l.before[k + 1] = l.before[k] + m
               /\ l.start[k + 1] = l.start[k] + m + 1 + u[k] * MetaUnit
    <3>1. st[k + 1] = st[k] + m + 1 + u[k] * MetaUnit
      BY <1>6
    <3>2. st[k] \in Nat /\ u[k] * MetaUnit \in Nat
      <4>1. u[k] \in 0..MaxUnits
        BY <1>4, SeqParts, Zenon DEF n
      <4> QED
        BY <2>1, <4>1, MetaSize
    <3>3. /\ l.before[k + 1] = ((k + 1) - 1) * m /\ l.before[k] = (k - 1) * m
          /\ l.start[k + 1] = H + st[k + 1] /\ l.start[k] = H + st[k]
      BY <1>7, <2>1
    <3>4. ((k + 1) - 1) * m = (k - 1) * m + m
      BY <1>2
    <3>5. H + (st[k] + m + 1 + u[k] * MetaUnit) = H + st[k] + m + 1 + u[k] * MetaUnit
      <4>1. PICK a, size \in Nat : a = st[k] /\ size = u[k] * MetaUnit
        BY <3>2, Zenon
      <4>2. H + (a + m + 1 + size) = H + a + m + 1 + size
        BY <1>2, <1>3
      <4> QED
        BY <4>1, <4>2, Zenon
    <3> QED
      BY <3>1, <3>3, <3>4, <3>5
  <2>4. IF m = 0 THEN n + 1 = 1 ELSE AudioLen - l.before[n + 1] < m
    <3>1. AudioLen - n * m = rest
      BY DEF rest
    <3> QED
      BY <1>4, <1>10, <3>1
  <2> DEFINE last == n + 1
  <2>5. last = Len(l.units) + 1 /\ last - 1 = n
    BY <1>7, <2>1 DEF n
  <2> HIDE DEF last
  <2>6. /\ l.header \in Nat /\ l.units \in Seq(0..MaxUnits)
        /\ l.start \in [1..last -> Nat] /\ l.before \in [1..last -> 0..AudioLen]
    BY <1>3, <1>4, <1>7 DEF last
  <2>7. IF m = 0 THEN last = 1 ELSE AudioLen - l.before[last] < m
    BY <2>4 DEF last
  <2>8. \A k \in 1..(last - 1) :
             /\ l.before[k + 1] = l.before[k] + m
             /\ l.start[k + 1] = l.start[k] + m + 1 + l.units[k] * MetaUnit
    BY <1>7, <2>3, <2>5, Zenon
  <2> QED
    BY <1>2, <2>2, <2>5, <2>6, <2>7, <2>8, Zenon DEF IsLayout
<1>12. Holds(r, l)
  <2>1. \A k \in 1..n : k \in 1..(n + 1)
    BY <1>4
  <2>2. n + 1 \in 1..(n + 1) /\ (n + 1) - 1 = n /\ st[n + 1] \in Nat
    BY <1>4
  <2>3. Len(bytes) = l.start[n + 1] + rest
    <3>1. l.start[n + 1] = H + st[n + 1]
      BY <1>7, <2>2, Zenon
    <3> QED
      BY <1>3, <1>6, <1>8, <1>10, <2>2, <3>1
  <2>4. \A p \in 1..H : bytes[p].kind = h[p] /\ bytes[p].kind \in HeaderKinds
    BY <1>3, <1>8, Zenon
  <2>5. \A p \in (H + 1)..Len(bytes) : bytes[p].kind \in BodyKinds
    <3> SUFFICES ASSUME NEW p \in (H + 1)..Len(bytes) PROVE bytes[p].kind \in BodyKinds
      OBVIOUS
    <3>1. p - H \in 1..Len(b) /\ H + (p - H) = p
      BY <1>3, <1>8, <1>9
    <3>2. bytes[p] = b[p - H]
      BY <1>8, <3>1, Zenon
    <3> QED
      BY <1>9, <3>1, <3>2, Zenon
  <2>6. ASSUME NEW e \in 4..H,
               \A j \in 1..4 : bytes[e - 4 + j].kind = EmptyLine[j]
        PROVE  e = H
    <3>1. \A j \in 1..4 : e - 4 + j \in 1..H
      BY <1>3
    <3>2. \A j \in 1..4 : h[e - 4 + j] = EmptyLine[j]
      BY <2>4, <2>6, <3>1, Zenon
    <3> QED
      BY <3>2, EmptyLineEnds DEF H
  <2>7. \A i \in 1..rest : bytes[l.start[n + 1] + i] = Item("audio", l.before[n + 1] + i)
    <3> SUFFICES ASSUME NEW i \in 1..rest
                 PROVE  bytes[l.start[n + 1] + i] = Item("audio", l.before[n + 1] + i)
      BY Zenon
    <3>1. /\ st[n + 1] + i \in 1..Len(b)
          /\ (H + st[n + 1]) + i = H + (st[n + 1] + i)
      BY <1>3, <1>6, <1>10, <2>2
    <3>2. b[st[n + 1] + i] = Item("audio", n * m + i)
      BY <1>6, Zenon
    <3>3. l.start[n + 1] = H + st[n + 1]
      BY <1>7, <2>2, Zenon
    <3> QED
      BY <1>8, <1>10, <3>1, <3>2, <3>3, Zenon
  <2>8. ASSUME NEW k \in 1..n
        PROVE  /\ l.start[k + 1] <= Len(bytes)
               /\ \A i \in 1..m : bytes[l.start[k] + i] = Item("audio", l.before[k] + i)
               /\ bytes[l.start[k] + m + 1] = Item("length", u[k])
               /\ \A i \in 1..(u[k] * MetaUnit) : bytes[l.start[k] + m + 1 + i].kind = "meta"
    <3> DEFINE size == u[k] * MetaUnit
    <3>1. size \in Nat
      <4>1. u[k] \in 0..MaxUnits
        BY <1>4, SeqParts, Zenon DEF n
      <4> QED
        BY <4>1, MetaSize, Zenon
    <3>2. /\ st[k + 1] = st[k] + m + 1 + size /\ st[k + 1] <= Len(b)
          /\ \A i \in 1..m : b[st[k] + i] = Item("audio", (k - 1) * m + i)
          /\ b[st[k] + m + 1] = Item("length", u[k])
          /\ \A i \in 1..size : b[st[k] + m + 1 + i] = Item("meta", i)
      BY <1>6, Zenon
    <3>3. st[k] \in Nat /\ l.start[k] = H + st[k] /\ l.before[k] = (k - 1) * m
      BY <1>7, <2>1
    <3>4. k + 1 \in 1..(n + 1) /\ st[k + 1] \in Nat /\ l.start[k + 1] = H + st[k + 1]
      <4>1. k + 1 \in 1..(n + 1)
        BY <1>4
      <4> QED
        BY <1>7, <4>1, Zenon
    <3> HIDE DEF size
    <3>5. l.start[k + 1] <= Len(bytes)
      BY <1>3, <1>8, <1>9, <3>2, <3>4
    <3>6. st[k] + m + 1 + size <= Len(b)
      BY <3>2
    <3>10. H \in Nat /\ st[k] \in Nat /\ m \in Nat /\ size \in Nat /\ Len(b) \in Nat
      BY <1>2, <1>3, <1>9, <3>1, <3>3
    <3>11. Places(H, st[k], m, size, Len(b))
      <4>1. Fits(H, st[k], m, size, Len(b))
        BY <3>6, <3>10, Zenon DEF Fits
      <4> QED
        BY <4>1, BlockPlaces, Zenon
    <3>7. \A i \in 1..m : bytes[l.start[k] + i] = Item("audio", l.before[k] + i)
      <4> SUFFICES ASSUME NEW i \in 1..m
                   PROVE  bytes[l.start[k] + i] = Item("audio", l.before[k] + i)
        BY Zenon
      <4>1. st[k] + i \in 1..Len(b) /\ (H + st[k]) + i = H + (st[k] + i)
        BY <3>11, Zenon DEF Places
      <4>2. bytes[H + (st[k] + i)] = b[st[k] + i]
        BY <1>8, <4>1, Zenon
      <4>3. b[st[k] + i] = Item("audio", (k - 1) * m + i)
        BY <3>2, Zenon
      <4> QED
        BY <3>3, <4>1, <4>2, <4>3, Zenon
    <3>8. bytes[l.start[k] + m + 1] = Item("length", u[k])
      <4>1. st[k] + m + 1 \in 1..Len(b) /\ H + st[k] + m + 1 = H + (st[k] + m + 1)
        BY <3>11, Zenon DEF Places
      <4>2. bytes[H + (st[k] + m + 1)] = b[st[k] + m + 1]
        BY <1>8, <4>1, Zenon
      <4> QED
        BY <3>2, <3>3, <4>1, <4>2, Zenon
    <3>9. \A i \in 1..size : bytes[l.start[k] + m + 1 + i].kind = "meta"
      <4> SUFFICES ASSUME NEW i \in 1..size
                   PROVE  bytes[l.start[k] + m + 1 + i].kind = "meta"
        BY Zenon
      <4>1. /\ st[k] + m + 1 + i \in 1..Len(b)
            /\ H + st[k] + m + 1 + i = H + (st[k] + m + 1 + i)
        BY <3>11, Zenon DEF Places
      <4>2. bytes[H + (st[k] + m + 1 + i)] = b[st[k] + m + 1 + i]
        BY <1>8, <4>1, Zenon
      <4>3. b[st[k] + m + 1 + i] = Item("meta", i)
        BY <3>2, Zenon
      <4>4. Item("meta", i).kind = "meta"
        BY ItemIs
      <4> QED
        BY <3>3, <4>1, <4>2, <4>3, <4>4, Zenon
    <3> QED
      BY <3>5, <3>7, <3>8, <3>9, Zenon DEF size
  <2> DEFINE last == n + 1
  <2>9. last = Len(l.units) + 1 /\ last - 1 = n /\ l.header = H /\ l.units = u
    BY <1>7, <2>2 DEF n
  <2>10. AudioLen - l.before[last] = rest
    BY <1>10 DEF rest
  <2> HIDE DEF last
  <2>11. /\ Len(bytes) = l.start[last] + rest
         /\ \A i \in 1..rest : bytes[l.start[last] + i] = Item("audio", l.before[last] + i)
    BY <2>3, <2>7 DEF last
  <2>12. Holds(r, l) <=>
      /\ Len(bytes) = l.start[last] + (AudioLen - l.before[last])
      /\ \A p \in 1..l.header : bytes[p].kind \in HeaderKinds
      /\ \A p \in (l.header + 1)..Len(bytes) : bytes[p].kind \in BodyKinds
      /\ \A e \in 4..l.header :
           (\A j \in 1..4 : bytes[e - 4 + j].kind = EmptyLine[j]) => e = l.header
      /\ \A k \in 1..(last - 1) :
           /\ l.start[k + 1] <= Len(bytes)
           /\ \A i \in 1..m : bytes[l.start[k] + i] = Item("audio", l.before[k] + i)
           /\ bytes[l.start[k] + m + 1] = Item("length", l.units[k])
           /\ \A i \in 1..(l.units[k] * MetaUnit) : bytes[l.start[k] + m + 1 + i].kind = "meta"
      /\ \A i \in 1..(AudioLen - l.before[last]) :
           bytes[l.start[last] + i] = Item("audio", l.before[last] + i)
    BY <1>2, <2>9, Zenon DEF Holds
  <2>13. \A e \in 4..l.header :
           (\A j \in 1..4 : bytes[e - 4 + j].kind = EmptyLine[j]) => e = l.header
    BY <2>6, <2>9, Zenon
  <2>14. /\ \A p \in 1..l.header : bytes[p].kind \in HeaderKinds
         /\ \A p \in (l.header + 1)..Len(bytes) : bytes[p].kind \in BodyKinds
    BY <2>4, <2>5, <2>9, Zenon
  <2>15. \A k \in 1..(last - 1) :
           /\ l.start[k + 1] <= Len(bytes)
           /\ \A i \in 1..m : bytes[l.start[k] + i] = Item("audio", l.before[k] + i)
           /\ bytes[l.start[k] + m + 1] = Item("length", l.units[k])
           /\ \A i \in 1..(l.units[k] * MetaUnit) : bytes[l.start[k] + m + 1 + i].kind = "meta"
    BY <2>8, <2>9, Zenon
  <2> QED
    BY <2>10, <2>11, <2>12, <2>13, <2>14, <2>15, Zenon
<1> QED
  BY <1>2, <1>8, <1>11, <1>12

-----------------------------------------------------------------------------
(* What the layout says of the response that is being read.                *)

LEMMA LayoutFacts ==
    ASSUME Shape
    PROVE  /\ response.bytes \in Seq(AnyItem) /\ Len(response.bytes) \in Nat
           /\ response.metaInt \in MetaInts /\ response.metaInt \in Nat
           /\ IsLayout(response, Layout) /\ Holds(response, Layout)
<1>1. /\ response.metaInt \in MetaInts /\ response.bytes \in Seq(AnyItem)
      /\ \E l : IsLayout(response, l) /\ Holds(response, l)
  BY ResponseLaidOut DEF Shape
<1>2. IsLayout(response, Layout) /\ Holds(response, Layout)
  BY <1>1, Zenon DEF Layout, LayoutOf
<1>3. response.metaInt \in Nat
  BY <1>1, HttpAssumption
<1>4. Len(response.bytes) \in Nat
  BY <1>1, SeqParts
<1> QED
  BY <1>1, <1>2, <1>3, <1>4

LEMMA HeaderFacts ==
    ASSUME Shape
    PROVE  /\ Layout.header \in Nat /\ Len(Layout.units) \in Nat
           /\ Layout.start[1] = Layout.header /\ Layout.before[1] = 0
           /\ \A p \in 1..Layout.header : response.bytes[p].kind \in HeaderKinds
           /\ \A p \in (Layout.header + 1)..Len(response.bytes) :
                response.bytes[p].kind \in BodyKinds
           /\ \A n \in 4..Layout.header :
                (\A j \in 1..4 : response.bytes[n - 4 + j].kind = EmptyLine[j])
                    => n = Layout.header
<1>1. Len(Layout.units) \in Nat
  <2>1. Layout.units \in Seq(0..MaxUnits)
    BY LayoutFacts, Zenon DEF IsLayout
  <2> QED
    BY <2>1, SeqParts, Zenon
<1> QED
  BY <1>1, LayoutFacts, Zenon DEF IsLayout, Holds

\* A block with metadata.
LEMMA BlockFacts ==
    ASSUME Shape, NEW k \in 1..Len(Layout.units)
    PROVE  LET m    == response.metaInt
               size == Layout.units[k] * MetaUnit
           IN  /\ size \in 0..(MaxUnits * MetaUnit)
               /\ k + 1 \in 1..(Len(Layout.units) + 1)
               /\ Layout.start[k] \in Nat /\ Layout.start[k + 1] \in Nat
               /\ Layout.before[k] \in Nat /\ Layout.before[k + 1] \in 0..AudioLen
               /\ Layout.before[k + 1] = Layout.before[k] + m
               /\ Layout.start[k + 1] = Layout.start[k] + m + 1 + size
               /\ Layout.start[k + 1] <= Len(response.bytes)
               /\ \A i \in 1..m : response.bytes[Layout.start[k] + i]
                                    = Item("audio", Layout.before[k] + i)
               /\ response.bytes[Layout.start[k] + m + 1] = Item("length", Layout.units[k])
               /\ \A i \in 1..size : response.bytes[Layout.start[k] + m + 1 + i].kind = "meta"
<1> DEFINE n == Len(Layout.units)
           last == n + 1
<1>1. n \in Nat /\ last - 1 = n
  BY HeaderFacts
<1>2. k \in 1..last /\ k + 1 \in 1..last /\ k \in 1..(last - 1)
  BY <1>1
<1> HIDE DEF n
<1>3. /\ Layout.units \in Seq(0..MaxUnits)
      /\ Layout.start \in [1..last -> Nat] /\ Layout.before \in [1..last -> 0..AudioLen]
      /\ Layout.before[k + 1] = Layout.before[k] + response.metaInt
      /\ Layout.start[k + 1] =
           Layout.start[k] + response.metaInt + 1 + Layout.units[k] * MetaUnit
  BY <1>2, LayoutFacts, Zenon DEF IsLayout, n
<1>4. /\ Layout.start[k + 1] <= Len(response.bytes)
      /\ \A i \in 1..response.metaInt :
           response.bytes[Layout.start[k] + i] = Item("audio", Layout.before[k] + i)
      /\ response.bytes[Layout.start[k] + response.metaInt + 1]
           = Item("length", Layout.units[k])
      /\ \A i \in 1..(Layout.units[k] * MetaUnit) :
           response.bytes[Layout.start[k] + response.metaInt + 1 + i].kind = "meta"
  BY <1>2, LayoutFacts, Zenon DEF Holds, n
<1>5. /\ Layout.start[k] \in Nat /\ Layout.start[k + 1] \in Nat
      /\ Layout.before[k] \in Nat /\ Layout.before[k + 1] \in 0..AudioLen
  <2> HIDE DEF last
  <2>1. Layout.start \in [1..last -> Nat] /\ Layout.before \in [1..last -> 0..AudioLen]
    BY <1>3, Zenon
  <2>2. k \in 1..last /\ k + 1 \in 1..last
    BY <1>2, Zenon
  <2>3. /\ Layout.start[k] \in Nat /\ Layout.start[k + 1] \in Nat
        /\ Layout.before[k] \in 0..AudioLen /\ Layout.before[k + 1] \in 0..AudioLen
    BY <2>1, <2>2, Zenon
  <2>4. \A x \in 0..AudioLen : x \in Nat
    BY HttpAssumption
  <2> QED
    BY <2>3, <2>4, Zenon
<1>6. Layout.units[k] * MetaUnit \in 0..(MaxUnits * MetaUnit)
  <2>1. Layout.units[k] \in 0..MaxUnits
    <3>1. Layout.units \in Seq(0..MaxUnits)
      BY <1>3
    <3> QED
      BY <3>1, SeqParts, Zenon
  <2>2. \A i, j, p \in Nat : i <= j => i * p \in 0..(j * p)
    OBVIOUS
  <2>3. MaxUnits \in Nat /\ MetaUnit \in Nat
    BY HttpAssumption
  <2>4. Layout.units[k] \in Nat /\ Layout.units[k] <= MaxUnits
    BY <2>1, <2>3
  <2> QED
    BY <2>2, <2>3, <2>4, Zenon
<1> QED
  BY <1>2, <1>3, <1>4, <1>5, <1>6, Zenon DEF n

\* The last block.
LEMMA LastFacts ==
    ASSUME Shape, NEW k, k = Len(Layout.units) + 1
    PROVE  /\ Layout.start[k] \in Nat /\ Layout.before[k] \in 0..AudioLen
           /\ IF response.metaInt = 0 THEN k = 1
              ELSE AudioLen - Layout.before[k] < response.metaInt
           /\ Len(response.bytes) = Layout.start[k] + (AudioLen - Layout.before[k])
           /\ \A i \in 1..(AudioLen - Layout.before[k]) :
                response.bytes[Layout.start[k] + i] = Item("audio", Layout.before[k] + i)
<1>1. Len(Layout.units) \in Nat
  BY HeaderFacts
<1>2. k \in 1..k
  BY <1>1
<1>3. /\ Layout.start \in [1..k -> Nat] /\ Layout.before \in [1..k -> 0..AudioLen]
      /\ IF response.metaInt = 0 THEN k = 1
         ELSE AudioLen - Layout.before[k] < response.metaInt
  BY LayoutFacts, Zenon DEF IsLayout
<1>4. Layout.start[k] \in Nat /\ Layout.before[k] \in 0..AudioLen
  BY <1>2, <1>3
<1>5. /\ Len(response.bytes) = Layout.start[k] + (AudioLen - Layout.before[k])
      /\ \A i \in 1..(AudioLen - Layout.before[k]) :
           response.bytes[Layout.start[k] + i] = Item("audio", Layout.before[k] + i)
  BY LayoutFacts, Zenon DEF Holds
<1> QED
  BY <1>3, <1>4, <1>5, Zenon

\* The first i bytes of block k, when they are of its run of audio.
LEMMA RunFacts ==
    ASSUME Shape, NEW k \in 1..(Len(Layout.units) + 1), NEW i \in Nat,
           Layout.start[k] + i <= Len(response.bytes),
           response.metaInt # 0 => i <= response.metaInt
    PROVE  /\ Layout.start[k] \in Nat /\ Layout.before[k] \in Nat
           /\ Layout.before[k] + i <= AudioLen
           /\ \A j \in 1..i : response.bytes[Layout.start[k] + j]
                                = Item("audio", Layout.before[k] + j)
<1> DEFINE UpTo == \A x \in 0..AudioLen : x \in Nat /\ x <= AudioLen
<1>0. UpTo /\ AudioLen \in Nat
  BY Sizes
<1>1. CASE k \in 1..Len(Layout.units)
  <2>1. response.metaInt # 0
    <3>1. Len(Layout.units) \in Nat
      BY HeaderFacts
    <3>2. IF response.metaInt = 0 THEN Len(Layout.units) + 1 = 1
          ELSE AudioLen - Layout.before[Len(Layout.units) + 1] < response.metaInt
      BY LastFacts
    <3> QED
      BY <1>1, <3>1, <3>2
  <2>2. response.metaInt \in Nat
    BY LayoutFacts
  <2>3. /\ Layout.start[k] \in Nat /\ Layout.before[k] \in Nat
        /\ Layout.before[k] + response.metaInt <= AudioLen
    <3>1. /\ Layout.start[k] \in Nat /\ Layout.before[k] \in Nat
          /\ Layout.before[k + 1] \in 0..AudioLen
          /\ Layout.before[k + 1] = Layout.before[k] + response.metaInt
      BY <1>1, BlockFacts, Zenon
    <3> QED
      BY <1>0, <3>1, Zenon
  <2>8. \A j \in 1..response.metaInt : response.bytes[Layout.start[k] + j]
                                          = Item("audio", Layout.before[k] + j)
    BY <1>1, BlockFacts, Zenon
  <2>6. i <= response.metaInt
    BY <2>1, Zenon
  <2>7. \A a, b \in Nat : a <= b => \A j \in 1..a : j \in 1..b
    OBVIOUS
  <2>4. \A j \in 1..i : j \in 1..response.metaInt
    BY <2>2, <2>6, <2>7, Zenon
  <2>5. Layout.before[k] + i <= AudioLen
    BY <1>0, <2>2, <2>3, <2>6, WithinRun, Zenon
  <2> QED
    BY <2>3, <2>4, <2>5, <2>8, Zenon
<1>2. CASE k = Len(Layout.units) + 1
  <2>1. /\ Layout.start[k] \in Nat /\ Layout.before[k] \in 0..AudioLen
        /\ Len(response.bytes) = Layout.start[k] + (AudioLen - Layout.before[k])
        /\ \A j \in 1..(AudioLen - Layout.before[k]) :
             response.bytes[Layout.start[k] + j] = Item("audio", Layout.before[k] + j)
    BY <1>2, LastFacts, Zenon
  <2>2. Layout.before[k] \in Nat /\ Layout.before[k] <= AudioLen
    BY <1>0, <2>1, Zenon
  <2>3. i <= AudioLen - Layout.before[k]
    <3>1. Layout.start[k] + i <= Layout.start[k] + (AudioLen - Layout.before[k])
      BY <2>1, Zenon
    <3> QED
      BY <1>0, <2>1, <2>2, <3>1, Within, Zenon
  <2>4. Layout.before[k] + i <= AudioLen /\ \A j \in 1..i : j \in 1..(AudioLen - Layout.before[k])
    BY <1>0, <2>2, <2>3, Within, Zenon
  <2> QED
    BY <2>1, <2>2, <2>4, Zenon
<1>3. k \in 1..Len(Layout.units) \/ k = Len(Layout.units) + 1
  BY HeaderFacts
<1> QED
  BY <1>1, <1>2, <1>3

-----------------------------------------------------------------------------
(* What a recv returns, and the audio in it.                               *)

LEMMA PartOf ==
    ASSUME Shape, NEW a \in Nat, NEW n \in Nat, a + n <= Len(response.bytes)
    PROVE  /\ SubSeq(response.bytes, a + 1, a + n) \in Seq(AnyItem)
           /\ Len(SubSeq(response.bytes, a + 1, a + n)) = n
           /\ \A j \in 1..n : SubSeq(response.bytes, a + 1, a + n)[j] = response.bytes[a + j]
<1> DEFINE R == response.bytes
           part == SubSeq(R, a + 1, a + n)
<1>1. R \in Seq(AnyItem) /\ Len(R) \in Nat
  BY LayoutFacts
<1>2. \A i \in (a + 1)..(a + n) : i \in 1..Len(R)
  OBVIOUS
<1>3. /\ part \in Seq(AnyItem)
      /\ Len(part) = IF a + 1 <= a + n THEN (a + n) - (a + 1) + 1 ELSE 0
      /\ \A i \in 1..((a + n) - (a + 1) + 1) : part[i] = R[a + 1 + i - 1]
  <2>1. a + 1 \in Nat \ {0} /\ a + n \in 0..Len(R)
    BY <1>1
  <2> HIDE DEF R
  <2> QED
    BY <1>1, <1>2, <2>1, SubSeqProperties
<1>4. (a + n) - (a + 1) + 1 = n /\ Len(part) = n
  BY <1>3
<1>5. \A j \in 1..n : a + 1 + j - 1 = a + j
  OBVIOUS
<1> HIDE DEF part, R
<1>6. \A j \in 1..n : part[j] = R[a + j]
  BY <1>3, <1>4, <1>5, Zenon
<1> QED
  BY <1>3, <1>4, <1>6, Zenon DEF part, R

LEMMA AudioInIs ==
    ASSUME Shape, NEW n \in 0..Len(response.bytes)
    PROVE  AudioIn(n) = {b \in {response.bytes[p] : p \in 1..n} : b.kind = "audio"}
<1> DEFINE part == SubSeq(response.bytes, 1, n)
<1>0. PICK a \in Nat : a = 0
  OBVIOUS
<1>1. n \in Nat /\ a + n <= Len(response.bytes) /\ a + 1 = 1 /\ a + n = n
  BY <1>0, LayoutFacts
<1>2. part \in Seq(AnyItem) /\ Len(part) = n /\ \A j \in 1..n : part[j] = response.bytes[a + j]
  <2>1. LET s == SubSeq(response.bytes, a + 1, a + n)
        IN  s \in Seq(AnyItem) /\ Len(s) = n /\ \A j \in 1..n : s[j] = response.bytes[a + j]
    BY <1>1, PartOf
  <2> QED
    BY <1>1, <2>1, Zenon
<1>3. \A j \in 1..n : a + j = j
  BY <1>0
<1> HIDE DEF part
<1>4. DOMAIN part = 1..n /\ \A j \in 1..n : part[j] = response.bytes[j]
  BY <1>2, <1>3
<1>5. ToSet(part) = {response.bytes[p] : p \in 1..n}
  BY <1>4, Zenon DEF ToSet
<1> QED
  BY <1>5 DEF AudioIn, part

LEMMA AudioInGrows ==
    ASSUME Shape, NEW a \in Nat, NEW n \in Nat, a + n <= Len(response.bytes)
    PROVE  /\ (\A j \in 1..n : response.bytes[a + j].kind # "audio")
                => AudioIn(a + n) = AudioIn(a)
           /\ (\A j \in 1..n : response.bytes[a + j].kind = "audio")
                => AudioIn(a + n) = AudioIn(a) \cup {response.bytes[a + j] : j \in 1..n}
<1> DEFINE R == response.bytes
           old == {R[p] : p \in 1..a}
           new == {R[a + j] : j \in 1..n}
<1>1. AudioIn(a) = {b \in old : b.kind = "audio"}
  <2>1. a \in 0..Len(R)
    BY LayoutFacts
  <2> QED
    BY <2>1, AudioInIs
<1>2. AudioIn(a + n) = {b \in old \cup new : b.kind = "audio"}
  <2>1. a + n \in 0..Len(R)
    BY LayoutFacts
  <2>2. AudioIn(a + n) = {b \in {R[p] : p \in 1..(a + n)} : b.kind = "audio"}
    BY <2>1, AudioInIs
  <2>3. {R[p] : p \in 1..(a + n)} = old \cup new
    <3>1. ASSUME NEW p \in 1..(a + n) PROVE R[p] \in old \cup new
      <4>1. CASE p \in 1..a
        BY <4>1
      <4>2. CASE p \notin 1..a
        <5>1. p - a \in 1..n /\ a + (p - a) = p
          BY <4>2
        <5> QED
          BY <5>1
      <4> QED
        BY <4>1, <4>2
    <3>2. ASSUME NEW j \in 1..n PROVE a + j \in 1..(a + n)
      OBVIOUS
    <3>3. \A p \in 1..a : p \in 1..(a + n)
      OBVIOUS
    <3> HIDE DEF R
    <3> QED
      BY <3>1, <3>2, <3>3
  <2> QED
    BY <2>2, <2>3
<1> HIDE DEF R
<1>3. ASSUME \A j \in 1..n : R[a + j].kind # "audio" PROVE AudioIn(a + n) = AudioIn(a)
  <2>1. \A b \in new : b.kind # "audio"
    BY <1>3
  <2> HIDE DEF old, new
  <2> QED
    BY <1>1, <1>2, <2>1
<1>4. ASSUME \A j \in 1..n : R[a + j].kind = "audio" PROVE AudioIn(a + n) = AudioIn(a) \cup new
  <2>1. \A b \in new : b.kind = "audio"
    BY <1>4
  <2> HIDE DEF old, new
  <2> QED
    BY <1>1, <1>2, <2>1
<1> QED
  BY <1>3, <1>4, Zenon DEF R

\* Audio that follows what was returned is returned next.
LEMMA DeliverMore ==
    ASSUME Shape, Delivered, NEW n \in Nat, taken + n <= Len(response.bytes),
           Len(got) + n <= AudioLen,
           \A j \in 1..n : response.bytes[taken + j] = Item("audio", Len(got) + j)
    PROVE  LET more == got \o SubSeq(response.bytes, taken + 1, taken + n)
           IN  /\ Len(more) = Len(got) + n
               /\ more = AudioFrom(1, Len(more))
               /\ ToSet(more) = AudioIn(taken + n)
<1> DEFINE R == response.bytes
           part == SubSeq(R, taken + 1, taken + n)
           more == got \o part
           len == Len(got)
<1>1. taken \in Nat /\ len \in Nat
  BY LayoutFacts, HttpAssumption DEF Shape, Delivered
<1>2. /\ part \in Seq(AnyItem) /\ Len(part) = n
      /\ \A j \in 1..n : part[j] = R[taken + j]
  BY <1>1, PartOf
<1>3. /\ got \in Seq(AnyItem)
      /\ \A i \in 1..len : got[i] = Item("audio", 1 + i - 1)
  <2>1. 1 \in Nat \ {0} /\ got = AudioFrom(1, len)
    BY DEF Delivered
  <2>2. /\ AudioFrom(1, len) \in Seq(BodyItem)
        /\ \A i \in 1..len : AudioFrom(1, len)[i] = Item("audio", 1 + i - 1)
    <3> HIDE DEF len
    <3> QED
      BY <1>1, <2>1, AudioFromIs
  <2>3. BodyItem \subseteq AnyItem
    BY DEF BodyItem, AnyItem
  <2>4. AudioFrom(1, len) \in Seq(AnyItem)
    BY <2>2, <2>3
  <2> HIDE DEF len
  <2> QED
    BY <2>1, <2>2, <2>4, Zenon
<1> HIDE DEF part
<1>4. /\ more \in Seq(AnyItem) /\ Len(more) = len + Len(part)
      /\ \A i \in 1..len : more[i] = got[i]
      /\ \A i \in 1..Len(part) : more[len + i] = part[i]
  <2>1. got \in Seq(AnyItem) /\ part \in Seq(AnyItem)
    BY <1>2, <1>3
  <2> QED
    BY <2>1, ConcatIndexed
<1> HIDE DEF R, len, more
<1>5. Len(more) = len + n
  BY <1>2, <1>4
<1>6. more = AudioFrom(1, Len(more))
  <2>1. Len(more) \in Nat /\ 1 \in Nat \ {0}
    BY <1>1, <1>5
  <2>2. /\ AudioFrom(1, Len(more)) \in Seq(BodyItem)
        /\ Len(AudioFrom(1, Len(more))) = Len(more)
        /\ \A i \in 1..Len(more) : AudioFrom(1, Len(more))[i] = Item("audio", 1 + i - 1)
    BY <2>1, AudioFromIs
  <2>3. ASSUME NEW i \in 1..Len(more) PROVE more[i] = Item("audio", 1 + i - 1)
    <3>1. CASE i \in 1..len
      BY <1>3, <1>4, <3>1, Zenon
    <3>2. CASE i \notin 1..len
      <4>1. i - len \in 1..n /\ len + (i - len) = i /\ 1 + i - 1 = i
        BY <1>1, <1>5, <3>2
      <4>2. more[i] = part[i - len]
        BY <1>2, <1>4, <4>1, Zenon
      <4>3. part[i - len] = Item("audio", len + (i - len))
        BY <1>2, <4>1, Zenon DEF R, len
      <4> QED
        BY <4>1, <4>2, <4>3, Zenon
    <3> QED
      BY <3>1, <3>2
  <2>4. \A i \in 1..Len(more) : more[i] = AudioFrom(1, Len(more))[i]
    BY <2>2, <2>3, Zenon
  <2>5. BodyItem \subseteq AnyItem
    BY DEF BodyItem, AnyItem
  <2>6. AudioFrom(1, Len(more)) \in Seq(AnyItem) /\ more \in Seq(AnyItem)
    BY <1>4, <2>2, <2>5
  <2>7. Len(more) = Len(AudioFrom(1, Len(more)))
    BY <2>2
  <2> QED
    BY <2>4, <2>6, <2>7, SeqEqual, Zenon
<1>7. ToSet(more) = AudioIn(taken + n)
  <2>1. /\ DOMAIN got = 1..len /\ DOMAIN part = 1..n /\ DOMAIN more = 1..(len + n)
    BY <1>2, <1>3, <1>4, <1>5, SeqParts DEF len
  <2>2. ToSet(more) = ToSet(got) \cup {R[taken + j] : j \in 1..n}
    <3>1. ToSet(more) = {more[i] : i \in 1..(len + n)} /\ ToSet(got) = {got[i] : i \in 1..len}
      BY <2>1, Zenon DEF ToSet
    <3>2. ASSUME NEW i \in 1..(len + n)
          PROVE  more[i] \in {got[j] : j \in 1..len} \cup {R[taken + j] : j \in 1..n}
      <4>1. CASE i \in 1..len
        BY <1>4, <4>1
      <4>2. CASE i \notin 1..len
        <5>1. i - len \in 1..n /\ len + (i - len) = i
          BY <1>1, <4>2
        <5>2. more[i] = R[taken + (i - len)]
          BY <1>2, <1>4, <5>1, Zenon
        <5> QED
          BY <5>1, <5>2, Zenon
      <4> QED
        BY <4>1, <4>2
    <3>3. \A j \in 1..len : j \in 1..(len + n) /\ got[j] = more[j]
      BY <1>1, <1>4
    <3>4. \A j \in 1..n : len + j \in 1..(len + n) /\ R[taken + j] = more[len + j]
      <4>1. \A j \in 1..n : len + j \in 1..(len + n)
        BY <1>1
      <4>2. \A j \in 1..n : R[taken + j] = more[len + j]
        BY <1>2, <1>4, Zenon
      <4> QED
        BY <4>1, <4>2
    <3> QED
      BY <3>1, <3>2, <3>3, <3>4
  <2>3. \A j \in 1..n : R[taken + j].kind = "audio"
    <3> SUFFICES ASSUME NEW j \in 1..n PROVE R[taken + j].kind = "audio"
      BY Zenon
    <3>1. R[taken + j] = Item("audio", len + j)
      BY Zenon DEF R, len
    <3>2. Item("audio", len + j).kind = "audio"
      BY ItemIs
    <3> QED
      BY <3>1, <3>2, Zenon
  <2>4. AudioIn(taken + n) = AudioIn(taken) \cup {R[taken + j] : j \in 1..n}
    BY <1>1, <2>3, AudioInGrows DEF R
  <2>5. ToSet(got) = AudioIn(taken)
    BY DEF Delivered
  <2> QED
    BY <2>2, <2>4, <2>5, Zenon
<1> QED
  BY <1>5, <1>6, <1>7, Zenon DEF more, part, R, len

-----------------------------------------------------------------------------
(* The steps that read nothing.                                            *)

readerVars == <<response, taken, untilMeta, icyMetaInt, endSeq, discard, got>>

LEMMA LayoutKept == response' = response => Layout' = Layout
BY DEF Layout

LEMMA HttpInvHoldsInitially == HttpInit => HttpInv
<1> SUFFICES ASSUME HttpInit PROVE HttpInv
  OBVIOUS
<1>1. Shape
  <2>1. /\ response \in Responses /\ arrived = 0 /\ taken = 0 /\ peer = "open"
        /\ sock = "open" /\ connected = FALSE /\ endSeq = 0 /\ running = TRUE
        /\ readerPc = "header" /\ stopPc = "away"
    BY DEF HttpInit
  <2>2. response.bytes \in Seq(AnyItem)
    BY <2>1, ResponseLaidOut
  <2>3. Len(response.bytes) \in Nat
    BY <2>2, SeqParts
  <2>4. arrived \in 0..Len(response.bytes) /\ taken \in 0..arrived
    BY <2>1, <2>3
  <2>5. connected \in BOOLEAN /\ running \in BOOLEAN
    BY <2>1, Zenon
  <2>7. endSeq \in 0..4
    BY <2>1
  <2>6. /\ peer \in {"open", "fin", "reset"} /\ sock \in {"open", "shut", "closed"}
        /\ readerPc \in {"header", "failed"} \cup Reading
        /\ stopPc \in {"away", "flag", "shutdown", "close"}
    BY <2>1
  <2> QED
    BY <2>1, <2>4, <2>5, <2>6, <2>7, Zenon DEF Shape
<1>2. HeaderRight
  <2>1. HeaderLimit \in Nat
    BY HttpAssumption
  <2> QED
    BY <2>1 DEF HttpInit, HeaderRight
<1>3. ReaderRight /\ StopRight
  BY DEF HttpInit, ReaderRight, StopRight, Reading, InLoop, Stopping
<1> QED
  BY <1>1, <1>2, <1>3 DEF HttpInv

LEMMA PlaceKept ==
    ASSUME HeaderRight, ReaderRight, UNCHANGED <<readerVars, readerPc>>
    PROVE  HeaderRight' /\ ReaderRight'
<1>1. Layout' = Layout
  BY LayoutKept DEF readerVars
<1>2. HeaderRight'
  BY DEF readerVars, HeaderRight
<1>3. Delivered => Delivered'
  BY DEF readerVars, Delivered, AudioIn
<1>4. ASSUME NEW k PROVE (InRun(k) => InRun(k)') /\ (InMeta(k) => InMeta(k)')
  BY <1>1 DEF readerVars, InRun, InMeta, RunAt, MetaAt
<1>5. ReaderRight'
  <2> SUFFICES ASSUME readerPc' \in Reading' PROVE ReaderRight'
    BY DEF ReaderRight
  <2>1. readerPc \in Reading /\ icyMetaInt' = icyMetaInt /\ response' = response
    BY DEF readerVars, Reading, InLoop
  <2>2. /\ icyMetaInt = response.metaInt /\ Delivered
        /\ \E k \in 1..(Len(Layout.units) + 1) : InRun(k) \/ InMeta(k)
    BY <2>1 DEF ReaderRight
  <2>3. \E k \in 1..(Len(Layout'.units) + 1) : InRun(k)' \/ InMeta(k)'
    BY <1>1, <1>4, <2>2, Zenon
  <2> QED
    BY <1>3, <2>1, <2>2, <2>3 DEF ReaderRight
<1> QED
  BY <1>2, <1>5

LEMMA LmsStep ==
    ASSUME HttpInv, LmsSends \/ LmsEnds
    PROVE  HttpInv'
<1> USE DEF HttpInv
<1>1. HeaderRight' /\ ReaderRight'
  <2>1. UNCHANGED <<readerVars, readerPc>>
    BY DEF LmsSends, LmsEnds, readerVars
  <2> QED
    BY <2>1, PlaceKept
<1>2. arrived' \in arrived..Len(response.bytes)
  <2>1. arrived \in Nat /\ arrived <= Len(response.bytes) /\ Len(response.bytes) \in Nat
    BY LayoutFacts DEF Shape
  <2>2. CASE LmsSends
    BY <2>1, <2>2 DEF LmsSends
  <2>3. CASE LmsEnds
    BY <2>1, <2>3 DEF LmsEnds
  <2> QED
    BY <2>2, <2>3
<1>3. Shape'
  <2>1. /\ arrived' \in 0..Len(response.bytes) /\ taken \in 0..arrived'
    BY <1>2, LayoutFacts DEF Shape
  <2>2. /\ UNCHANGED <<response, taken, sock, connected, running, endSeq, readerPc, stopPc>>
        /\ peer' \in {"open", "fin", "reset"}
    BY DEF LmsSends, LmsEnds, stopVars, Shape
  <2> QED
    BY <2>1, <2>2 DEF Shape, Reading, InLoop
<1>4. StopRight'
  BY DEF LmsSends, LmsEnds, stopVars, StopRight, Stopping, InLoop
<1> QED
  BY <1>1, <1>3, <1>4

LEMMA StopStep ==
    ASSUME HttpInv, StopReader \/ Stopper
    PROVE  HttpInv'
<1> USE DEF HttpInv
<1>1. UNCHANGED <<readerVars, readerPc, lmsEnd>>
  BY DEF StopReader, Stopper, LowerConnected, Shutdown, CloseSocket, StopGoes, readerVars, lmsEnd
<1>2. HeaderRight' /\ ReaderRight'
  BY <1>1, PlaceKept
<1>3. Shape'
  BY <1>1 DEF StopReader, Stopper, LowerConnected, Shutdown, CloseSocket, StopGoes, Shape,
              Reading, InLoop, readerVars, lmsEnd
<1>4. StopRight'
  <2>1. CASE StopReader
    BY <2>1, <1>1 DEF StopReader, StopGoes, StopRight, Stopping, InLoop, lmsEnd, readerVars
  <2>2. CASE LowerConnected
    BY <2>2, <1>1 DEF LowerConnected, StopGoes, StopRight, Stopping, InLoop, lmsEnd, readerVars
  <2>3. CASE Shutdown
    BY <2>3, <1>1 DEF Shutdown, StopGoes, StopRight, Stopping, InLoop, lmsEnd, readerVars
  <2>4. CASE CloseSocket
    BY <2>4, <1>1 DEF CloseSocket, StopGoes, StopRight, Stopping, InLoop, lmsEnd, readerVars
  <2> QED
    BY <2>1, <2>2, <2>3, <2>4 DEF Stopper
<1> QED
  BY <1>2, <1>3, <1>4

\* The reader leaves its loop where it is.
LEMMA EndStep ==
    ASSUME HttpInv, LoopStops \/ HangUp \/ TimesOut \/ StreamCut
    PROVE  HttpInv'
<1> USE DEF HttpInv
<1>1. /\ UNCHANGED <<readerVars, lmsEnd, sock, running, stopPc>>
      /\ readerPc \in InLoop /\ readerPc' = "done"
      /\ connected' \in {connected, FALSE}
  BY DEF LoopStops, HangUp, TimesOut, StreamCut, ReaderAt, Ends, readerVars, lmsEnd, stopVars,
         InLoop
<1>2. Shape'
  BY <1>1 DEF Shape, Reading, InLoop, readerVars, lmsEnd
<1>3. HeaderRight'
  BY <1>1 DEF HeaderRight
<1>4. ReaderRight'
  <2>1. Layout' = Layout
    BY <1>1, LayoutKept DEF readerVars
  <2>2. Delivered => Delivered'
    BY <1>1 DEF readerVars, Delivered, AudioIn
  <2>3. ASSUME NEW k PROVE (InRun(k) => InRun(k)') /\ (InMeta(k) => InMeta(k)')
    BY <1>1, <2>1 DEF readerVars, InRun, InMeta, RunAt, MetaAt
  <2>4. /\ icyMetaInt = response.metaInt /\ Delivered
        /\ \E k \in 1..(Len(Layout.units) + 1) : InRun(k) \/ InMeta(k)
    BY <1>1 DEF ReaderRight, Reading
  <2>5. \E k \in 1..(Len(Layout'.units) + 1) : InRun(k)' \/ InMeta(k)'
    BY <2>1, <2>3, <2>4, Zenon
  <2>6. icyMetaInt' = response'.metaInt
    BY <1>1, <2>4 DEF readerVars
  <2> QED
    BY <2>2, <2>4, <2>5, <2>6 DEF ReaderRight
<1>5. StopRight'
  <2>1. stopPc' = "close" => sock' # "open"
    BY <1>1 DEF StopRight
  <2>2. Stopping \/ peer = "reset" \/ (peer = "fin" /\ taken = arrived)
    <3>1. CASE LoopStops \/ TimesOut
      BY <3>1, <1>1 DEF LoopStops, TimesOut, StopRight, Stopping
    <3>2. CASE HangUp
      BY <3>2 DEF HangUp, PollHup, Stopping
    <3>3. CASE StreamCut
      <4>1. sock = "closed" \/ (arrived - taken = 0 /\ (peer # "open" \/ sock = "shut"))
        BY <3>3 DEF StreamCut, RecvEnds, Pending
      <4>2. arrived - taken = 0 => taken = arrived
        BY LayoutFacts DEF Shape
      <4> QED
        BY <4>1, <4>2 DEF Stopping, Shape
    <3> QED
      BY <3>1, <3>2, <3>3
  <2> QED
    BY <1>1, <2>1, <2>2 DEF StopRight, Stopping, InLoop, readerVars, lmsEnd
<1> QED
  BY <1>2, <1>3, <1>4, <1>5

\* There is something to read: of the run of audio, or its metadata.
LEMMA ReadableStep ==
    ASSUME HttpInv, Readable
    PROVE  HttpInv'
<1> USE DEF HttpInv
<1>1. /\ UNCHANGED <<readerVars, lmsEnd, sock, connected, running, stopPc>>
      /\ readerPc = "poll"
      /\ readerPc' = IF icyMetaInt # 0 /\ untilMeta = 0 THEN "length" ELSE "audio"
  BY DEF Readable, ReaderAt, readerVars, lmsEnd, stopVars
<1>2. Shape'
  BY <1>1 DEF Shape, Reading, InLoop, readerVars, lmsEnd
<1>3. HeaderRight'
  BY <1>1 DEF HeaderRight
<1>4. ReaderRight'
  <2>1. Layout' = Layout
    BY <1>1, LayoutKept DEF readerVars
  <2>2. /\ icyMetaInt = response.metaInt /\ Delivered
        /\ \E k \in 1..(Len(Layout.units) + 1) : InRun(k) \/ InMeta(k)
    BY <1>1 DEF ReaderRight, Reading, InLoop
  <2>3. Delivered'
    BY <1>1, <2>2 DEF readerVars, Delivered, AudioIn
  <2>4. PICK k \in 1..(Len(Layout.units) + 1) : InRun(k)
    BY <1>1, <2>2 DEF InMeta, MetaAt
  <2>5. InRun(k)'
    <3>1. response.metaInt \in Nat /\ taken \in Nat /\ Layout.start[k] \in Nat
      <4>1. response.metaInt \in Nat /\ taken \in Nat
        BY LayoutFacts DEF Shape
      <4>2. Len(Layout.units) \in Nat
        BY HeaderFacts
      <4>3. Layout.start \in [1..(Len(Layout.units) + 1) -> Nat]
        BY LayoutFacts, Zenon DEF IsLayout
      <4> QED
        BY <4>1, <4>3
    <3>2. response.metaInt > 0 => untilMeta \in Nat
      BY <2>4, <3>1 DEF InRun, RunAt
    <3> QED
      BY <1>1, <2>1, <2>2, <2>4, <3>1, <3>2 DEF readerVars, InRun, RunAt
  <2>6. icyMetaInt' = response'.metaInt
    BY <1>1, <2>2 DEF readerVars
  <2> QED
    BY <2>1, <2>3, <2>5, <2>6 DEF ReaderRight
<1>5. StopRight'
  BY <1>1 DEF StopRight, Stopping, InLoop, lmsEnd, readerVars
<1> QED
  BY <1>2, <1>3, <1>4, <1>5

-----------------------------------------------------------------------------
(* The steps that read.                                                    *)

LEMMA RecvFacts ==
    ASSUME Shape, NEW max \in Nat, RecvData(max)
    PROVE  \E n \in 0..max :
             /\ taken' = taken + n /\ taken + n <= arrived /\ taken + n <= Len(response.bytes)
             /\ max > 0 => n > 0
             /\ Received = SubSeq(response.bytes, taken + 1, taken + n)
             /\ Len(Received) = n
             /\ \A j \in 1..n : Received[j] = response.bytes[taken + j]
<1> DEFINE n == taken' - taken
<1>1. /\ arrived \in Nat /\ taken \in Nat /\ taken <= arrived
      /\ arrived <= Len(response.bytes) /\ Len(response.bytes) \in Nat
  BY LayoutFacts DEF Shape
<1>2. /\ n \in 0..max /\ taken' = taken + n /\ taken + n <= arrived
      /\ taken + n <= Len(response.bytes) /\ (max > 0 => n > 0)
  BY <1>1 DEF RecvData, Pending, Shorter
<1> HIDE DEF n
<1>3. Received = SubSeq(response.bytes, taken + 1, taken + n)
  BY <1>2 DEF Received
<1>4. /\ Len(Received) = n
      /\ \A j \in 1..n : Received[j] = response.bytes[taken + j]
  <2>1. n \in Nat
    BY <1>2
  <2>2. LET part == SubSeq(response.bytes, taken + 1, taken + n)
        IN  Len(part) = n /\ \A j \in 1..n : part[j] = response.bytes[taken + j]
    BY <1>1, <1>2, <2>1, PartOf
  <2> QED
    BY <1>3, <2>2, Zenon
<1> QED
  BY <1>2, <1>3, <1>4, Zenon

LEMMA ConnectStep ==
    ASSUME HttpInv, Connect
    PROVE  HttpInv'
<1>1. /\ response' \in Responses /\ arrived' = 0 /\ taken' = 0 /\ peer' = "open"
      /\ sock' = "open" /\ connected' = FALSE /\ untilMeta' = 0 /\ icyMetaInt' = 0
      /\ endSeq' = 0 /\ discard' = 0 /\ got' = <<>> /\ readerPc' = "header"
      /\ stopPc = "away" /\ stopPc' = stopPc /\ running' = running /\ running \in BOOLEAN
  BY DEF Connect, stopVars, HttpInv, Shape
<1>2. Shape'
  <2>1. response'.bytes \in Seq(AnyItem)
    BY <1>1, ResponseLaidOut
  <2>2. Len(response'.bytes) \in Nat
    BY <2>1, SeqParts
  <2>3. arrived' \in 0..Len(response'.bytes) /\ taken' \in 0..arrived'
    BY <1>1, <2>2
  <2>4. connected' \in BOOLEAN /\ running' \in BOOLEAN
    BY <1>1, Zenon
  <2>5. endSeq' \in 0..4
    BY <1>1
  <2>6. /\ peer' \in {"open", "fin", "reset"} /\ sock' \in {"open", "shut", "closed"}
        /\ readerPc' \in {"header", "failed"} \cup Reading'
        /\ stopPc' \in {"away", "flag", "shutdown", "close"}
    BY <1>1
  <2> QED
    BY <1>1, <2>3, <2>4, <2>5, <2>6, Zenon DEF Shape
<1>3. HeaderRight'
  <2>1. HeaderLimit \in Nat
    BY HttpAssumption
  <2> QED
    BY <1>1, <2>1 DEF HeaderRight
<1>4. ReaderRight' /\ StopRight'
  BY <1>1 DEF ReaderRight, StopRight, Reading, InLoop, Stopping
<1> QED
  BY <1>2, <1>3, <1>4 DEF HttpInv

LEMMA HeaderCutStep ==
    ASSUME HttpInv, HeaderCut
    PROVE  HttpInv'
<1> USE DEF HttpInv
<1>1. /\ UNCHANGED <<readerVars, lmsEnd, connected, running, stopPc>>
      /\ readerPc = "header" /\ readerPc' = "failed" /\ sock' = "closed"
  BY DEF HeaderCut, readerVars, lmsEnd, stopVars
<1>2. Shape'
  BY <1>1 DEF Shape, readerVars, lmsEnd
<1>3. HeaderRight'
  BY <1>1 DEF HeaderRight, readerVars
<1>4. ReaderRight' /\ StopRight'
  BY <1>1 DEF ReaderRight, StopRight, Reading, InLoop
<1> QED
  BY <1>2, <1>3, <1>4

\* CR LF CR LF is found at the end of the header and nowhere else.
LEMMA HeaderEnd ==
    ASSUME Shape, NEW n \in 4..Len(response.bytes),
           \A j \in 1..4 : response.bytes[n - 4 + j].kind = EmptyLine[j]
    PROVE  n = Layout.header
<1>1. Layout.header \in Nat /\ Len(response.bytes) \in Nat
  BY HeaderFacts, LayoutFacts
<1>2. n <= Layout.header
  <2> SUFFICES ASSUME n > Layout.header PROVE FALSE
    BY <1>1
  <2>1. n - 4 + 4 = n /\ n \in (Layout.header + 1)..Len(response.bytes) /\ 4 \in 1..4
    BY <1>1
  <2>2. response.bytes[n].kind = EmptyLine[4]
    BY <2>1, Zenon
  <2>3. response.bytes[n].kind \in BodyKinds
    BY <2>1, HeaderFacts
  <2> QED
    BY <2>2, <2>3 DEF EmptyLine, BodyKinds
<1>3. n \in 4..Layout.header
  BY <1>1, <1>2
<1> QED
  BY <1>3, HeaderFacts, Zenon

LEMMA ReadHeaderStep ==
    ASSUME HttpInv, ReadHeader
    PROVE  HttpInv'
<1> USE DEF HttpInv
<1> DEFINE R == response.bytes
           c == Received[1].kind
           next == endSeq' = endSeq + 1
<1>1. /\ UNCHANGED <<lmsEnd, discard, got, stopPc>>
      /\ readerPc = "header" /\ endSeq' = NextEndSeq(c)
      /\ readerPc' = IF endSeq' = 4 THEN "poll"
                     ELSE IF HeaderSizeOK(taken') THEN "header" ELSE "failed"
      /\ sock' = IF readerPc' = "failed" THEN "closed" ELSE sock
      /\ connected' = (endSeq' = 4)
      /\ IF endSeq' = 4 /\ response.metaInt > 0
         THEN icyMetaInt' = response.metaInt /\ untilMeta' = response.metaInt
         ELSE UNCHANGED <<icyMetaInt, untilMeta>>
      /\ running' = IF endSeq' = 4 THEN TRUE ELSE running
  BY Zenon DEF ReadHeader
<1>2. /\ icyMetaInt = 0 /\ untilMeta = 0 /\ discard = 0 /\ got = <<>>
      /\ taken <= HeaderLimit /\ endSeq < 4 /\ endSeq <= taken
      /\ \A j \in 1..endSeq : R[taken - endSeq + j].kind = EmptyLine[j]
  BY <1>1, Zenon DEF HeaderRight
<1>3. /\ taken' = taken + 1 /\ taken + 1 <= arrived /\ taken + 1 <= Len(R)
      /\ Received[1] = R[taken + 1]
  <2>1. RecvData(1) /\ 1 \in Nat
    BY Zenon DEF ReadHeader
  <2>2. PICK n \in 0..1 : /\ taken' = taken + n /\ taken + n <= arrived /\ taken + n <= Len(R)
                          /\ 1 > 0 => n > 0
                          /\ \A j \in 1..n : Received[j] = R[taken + j]
    BY <2>1, RecvFacts
  <2>3. n = 1
    BY <2>2
  <2>4. 1 \in 1..n
    BY <2>3
  <2> QED
    BY <2>2, <2>3, <2>4
<1>4. taken \in Nat /\ endSeq \in Nat /\ Len(R) \in Nat /\ endSeq \in 0..3 /\ arrived \in Nat
  BY <1>2, LayoutFacts DEF Shape
<1>5. \/ endSeq' = 0
      \/ endSeq' = endSeq + 1 /\ R[taken + 1].kind = EmptyLine[endSeq + 1]
  BY <1>1, <1>3, <1>4 DEF NextEndSeq, EmptyLine
<1>6. endSeq' \in 0..4 /\ endSeq' <= taken'
  BY <1>2, <1>3, <1>4, <1>5
<1>7. \A j \in 1..endSeq' : R[taken' - endSeq' + j].kind = EmptyLine[j]
  <2>1. CASE endSeq' = 0
    BY <2>1
  <2>2. CASE endSeq' = endSeq + 1 /\ R[taken + 1].kind = EmptyLine[endSeq + 1]
    <3> SUFFICES ASSUME NEW j \in 1..(endSeq + 1)
                 PROVE  R[taken' - endSeq' + j].kind = EmptyLine[j]
      BY <2>2
    <3>1. taken' - endSeq' + j = taken - endSeq + j
      BY <1>3, <1>4, <2>2
    <3>2. CASE j \in 1..endSeq
      BY <1>2, <3>1, <3>2, Zenon
    <3>3. CASE j = endSeq + 1
      <4>1. taken - endSeq + j = taken + 1
        BY <1>4, <3>3
      <4> QED
        BY <2>2, <3>1, <3>3, <4>1, Zenon
    <3>4. j \in 1..endSeq \/ j = endSeq + 1
      BY <1>4
    <3> QED
      BY <3>2, <3>3, <3>4
  <2> QED
    BY <1>5, <2>1, <2>2
<1>8. Shape'
  <2>1. arrived' = arrived /\ response' = response /\ peer' = peer
    BY <1>1 DEF lmsEnd
  <2>2. /\ arrived' \in 0..Len(response'.bytes) /\ taken' \in 0..arrived'
        /\ response' \in Responses /\ endSeq' \in 0..4 /\ peer' \in {"open", "fin", "reset"}
    BY <1>3, <1>4, <1>6, <2>1 DEF Shape
  <2>3. connected' \in BOOLEAN /\ running' \in BOOLEAN
    BY <1>1, Zenon DEF Shape
  <2>4. /\ sock' \in {"open", "shut", "closed"}
        /\ readerPc' \in {"header", "failed"} \cup Reading'
        /\ stopPc' \in {"away", "flag", "shutdown", "close"}
    BY <1>1 DEF Shape, Reading, InLoop
  <2> QED
    BY <2>2, <2>3, <2>4, Zenon DEF Shape
<1>9. HeaderRight'
  <2>1. readerPc' \in {"header", "failed"} => endSeq' # 4
    BY <1>1
  <2>2. readerPc' \in {"header", "failed"} =>
           icyMetaInt' = 0 /\ untilMeta' = 0 /\ discard' = 0 /\ got' = <<>>
    BY <1>1, <1>2, <2>1
  <2>3. readerPc' = "header" =>
          /\ taken' <= HeaderLimit /\ endSeq' < 4 /\ endSeq' <= taken'
    BY <1>1, <1>6 DEF HeaderSizeOK
  <2>4. response' = response
    BY <1>1 DEF lmsEnd
  <2> QED
    BY <1>7, <2>2, <2>3, <2>4 DEF HeaderRight
<1>10. ReaderRight'
  <2> SUFFICES ASSUME readerPc' \in Reading' PROVE ReaderRight'
    BY DEF ReaderRight
  <2>1. endSeq' = 4 /\ readerPc' = "poll"
    BY <1>1 DEF Reading, InLoop
  <2>2. response' = response /\ Layout' = Layout
    BY <1>1, LayoutKept DEF lmsEnd
  <2>3. taken' = Layout.header
    <3>1. taken' \in 4..Len(R)
      BY <1>3, <1>4, <1>6, <2>1
    <3>2. \A j \in 1..4 : R[taken' - 4 + j].kind = EmptyLine[j]
      BY <1>7, <2>1
    <3> HIDE DEF HttpInv
    <3>3. \A n \in 4..Len(R) :
            (\A j \in 1..4 : R[n - 4 + j].kind = EmptyLine[j]) => n = Layout.header
      BY HeaderEnd DEF HttpInv
    <3> QED
      BY <3>1, <3>2, <3>3, Zenon
  <2>4. icyMetaInt' = response.metaInt /\ untilMeta' = response.metaInt
    <3>1. response.metaInt \in Nat
      BY LayoutFacts
    <3> QED
      BY <1>1, <1>2, <2>1, <3>1
  <2>5. Len(got') = 0 /\ got' = <<>>
    BY <1>1, <1>2
  <2>6. Delivered'
    <3>1. AudioFrom(1, 0) = <<>>
      BY DEF AudioFrom
    <3>2. ToSet(got') = {}
      BY <2>5 DEF ToSet
    <3>3. AudioIn(Layout.header) = {}
      <4>1. Layout.header \in 0..Len(R)
        BY <1>3, <1>4, <2>3
      <4>2. AudioIn(Layout.header) = {b \in {R[p] : p \in 1..Layout.header} : b.kind = "audio"}
        BY <4>1, AudioInIs
      <4>3. \A p \in 1..Layout.header : R[p].kind # "audio"
        BY HeaderFacts DEF HeaderKinds
      <4> QED
        BY <4>2, <4>3
    <3>4. AudioIn(taken)' = AudioIn(Layout.header)
      BY <2>2, <2>3 DEF AudioIn
    <3>5. 0 \in 0..AudioLen
      BY HttpAssumption
    <3> QED
      BY <2>5, <3>1, <3>2, <3>3, <3>4, <3>5 DEF Delivered
  <2>7. InRun(1)'
    <3>1. response.metaInt \in Nat /\ Layout.start[1] = Layout.header /\ Layout.before[1] = 0
          /\ Layout.header \in Nat
      BY LayoutFacts, HeaderFacts
    <3>2. discard' = 0
      BY <1>1, <1>2
    <3> QED
      BY <2>1, <2>2, <2>3, <2>4, <2>5, <3>1, <3>2 DEF InRun, RunAt
  <2>8. 1 \in 1..(Len(Layout'.units) + 1)
    BY <2>2, HeaderFacts
  <2>9. icyMetaInt' = response'.metaInt
    BY <2>2, <2>4
  <2> QED
    BY <2>6, <2>7, <2>8, <2>9, Zenon DEF ReaderRight
<1>11. StopRight'
  BY <1>1 DEF StopRight, InLoop, Stopping
<1> QED
  BY <1>8, <1>9, <1>10, <1>11

LEMMA ShapeFacts ==
    ASSUME Shape
    PROVE  /\ arrived \in Nat /\ taken \in Nat /\ taken <= arrived
           /\ arrived <= Len(response.bytes) /\ Len(response.bytes) \in Nat
BY LayoutFacts DEF Shape

\* What the three steps in the body share: where they start, with names for the
\* numbers.
LEMMA BodyStart ==
    ASSUME HttpInv, NEW pc \in {"audio", "length", "meta"}, readerPc = pc
    PROVE  /\ icyMetaInt = response.metaInt /\ Delivered
           /\ \E k \in 1..(Len(Layout.units) + 1), m, start, before, len \in Nat :
                /\ m = response.metaInt /\ len = Len(got) /\ len <= AudioLen
                /\ start = Layout.start[k] /\ before = Layout.before[k]
                /\ pc # "meta" => RunAt(m, start, before)
                /\ pc = "meta" => /\ k \in 1..Len(Layout.units)
                                  /\ MetaAt(m, start, before, Layout.units[k] * MetaUnit)
<1> USE DEF HttpInv
<1>1. /\ icyMetaInt = response.metaInt /\ Delivered
      /\ \E k \in 1..(Len(Layout.units) + 1) : InRun(k) \/ InMeta(k)
  BY DEF ReaderRight, Reading, InLoop
<1>2. PICK k \in 1..(Len(Layout.units) + 1) : InRun(k) \/ InMeta(k)
  BY <1>1
<1>3. pc # "meta" => InRun(k)
  BY <1>2 DEF InMeta, MetaAt
<1>4. pc = "meta" => InMeta(k)
  BY <1>2 DEF InRun, RunAt
<1>5. InMeta(k) => k \in 1..Len(Layout.units)
  BY HeaderFacts DEF InMeta
<1>6. Layout.start[k] \in Nat /\ Layout.before[k] \in Nat
  <2>1. /\ Layout.start \in [1..(Len(Layout.units) + 1) -> Nat]
        /\ Layout.before \in [1..(Len(Layout.units) + 1) -> 0..AudioLen]
    BY LayoutFacts, Zenon DEF IsLayout
  <2>2. Layout.start[k] \in Nat /\ Layout.before[k] \in 0..AudioLen
    BY <2>1, Zenon
  <2>3. \A x \in 0..AudioLen : x \in Nat
    BY HttpAssumption
  <2> QED
    BY <2>2, <2>3
<1>7. response.metaInt \in Nat
  BY LayoutFacts
<1>8. Len(got) \in Nat /\ Len(got) <= AudioLen
  <2>1. Len(got) \in 0..AudioLen
    BY <1>1 DEF Delivered
  <2> QED
    BY <2>1, HttpAssumption
<1> HIDE DEF HttpInv
<1> QED
  BY <1>1, <1>3, <1>4, <1>5, <1>6, <1>7, <1>8, Zenon DEF InRun, InMeta

\* The rest of the invariant after such a step.
LEMMA BodyRest ==
    ASSUME HttpInv, NEW pc \in {"audio", "length", "meta"}, ReaderAt(pc),
           UNCHANGED <<sock, connected>>, readerPc' \in InLoop, taken' \in 0..arrived
    PROVE  Shape' /\ HeaderRight' /\ StopRight' /\ response' = response /\ Layout' = Layout
           /\ icyMetaInt' = icyMetaInt
<1> USE DEF HttpInv
<1>1. /\ UNCHANGED <<lmsEnd, endSeq, icyMetaInt, running, stopPc>> /\ readerPc \in InLoop
  BY DEF ReaderAt, stopVars, InLoop
<1>2. Shape'
  BY <1>1 DEF Shape, Reading, InLoop, lmsEnd
<1>3. HeaderRight'
  BY DEF HeaderRight, InLoop
<1>4. StopRight'
  BY <1>1 DEF StopRight, Stopping, InLoop, lmsEnd
<1> QED
  BY <1>1, <1>2, <1>3, <1>4, LayoutKept DEF lmsEnd

\* A byte of metadata taken is no audio.
LEMMA SkipsNoAudio ==
    ASSUME Shape, Delivered, NEW n \in Nat, taken + n <= Len(response.bytes),
           \A j \in 1..n : response.bytes[taken + j].kind # "audio",
           taken' = taken + n, response' = response, got' = got
    PROVE  Delivered'
<1>1. AudioIn(taken + n) = AudioIn(taken)
  BY ShapeFacts, AudioInGrows
<1>2. AudioIn(taken)' = AudioIn(taken + n)
  BY DEF AudioIn
<1> QED
  BY <1>1, <1>2 DEF Delivered

LEMMA ReadAudioStep ==
    ASSUME HttpInv, ReadAudio
    PROVE  HttpInv'
<1> DEFINE R == response.bytes
<1>0. Shape
  BY DEF HttpInv
<1>1. /\ ReaderAt("audio") /\ RecvData(CanRead) /\ got' = got \o Received
      /\ untilMeta' = IF icyMetaInt = 0 THEN 0 ELSE untilMeta - Len(Received)
      /\ readerPc' = "poll" /\ readerPc = "audio" /\ UNCHANGED <<sock, connected, discard>>
  BY Zenon DEF ReadAudio, ReaderAt
<1>2. icyMetaInt = response.metaInt /\ Delivered
  BY <1>1, BodyStart
<1>3. PICK k \in 1..(Len(Layout.units) + 1), m, start, before, len \in Nat :
             /\ m = response.metaInt /\ len = Len(got) /\ len <= AudioLen
             /\ start = Layout.start[k] /\ before = Layout.before[k]
             /\ RunAt(m, start, before)
  BY <1>1, BodyStart
<1>4. PICK i \in Nat : i = taken - start
  <2>1. taken - start >= 0 /\ taken \in Nat
    BY <1>0, <1>3, ShapeFacts DEF RunAt
  <2> QED
    BY <2>1
<1>5. /\ len = before + i /\ discard = 0
      /\ IF m = 0 THEN untilMeta = 0 ELSE i <= m /\ untilMeta = m - i
  BY <1>3, <1>4 DEF RunAt
<1>6. taken \in Nat /\ taken = start + i
  BY <1>0, <1>4, ShapeFacts
<1>7. CanRead \in Nat /\ (m # 0 => CanRead <= m - i)
  <2>1. icyMetaInt = m
    BY <1>2, <1>3
  <2>2. MaxLen \in Nat
    BY Sizes
  <2>3. CASE m = 0
    BY <2>1, <2>2, <2>3 DEF CanRead
  <2>4. CASE m # 0
    <3>1. untilMeta = m - i /\ untilMeta \in Nat
      BY <1>5, <2>4
    <3>2. CanRead = Shorter(MaxLen, untilMeta)
      BY <2>1, <2>4 DEF CanRead
    <3>3. CanRead \in Nat /\ CanRead <= untilMeta
      BY <2>2, <3>1, <3>2 DEF Shorter
    <3> QED
      BY <3>1, <3>3
  <2> QED
    BY <2>3, <2>4
<1>8. PICK n \in 0..CanRead :
             /\ taken' = taken + n /\ taken + n <= arrived /\ taken + n <= Len(R)
             /\ Received = SubSeq(R, taken + 1, taken + n) /\ Len(Received) = n
  BY <1>0, <1>1, <1>7, RecvFacts
<1>9. n \in Nat /\ i + n \in Nat /\ (m # 0 => i + n <= m) /\ start + (i + n) = taken + n
  <2>1. n \in Nat /\ n <= CanRead
    BY <1>7
  <2> QED
    BY <1>6, <1>7, <2>1
<1>10. /\ before + (i + n) <= AudioLen
       /\ \A j \in 1..(i + n) : R[start + j] = Item("audio", before + j)
  <2>1. PICK p \in Nat : p = i + n
    BY <1>9
  <2>2. Layout.start[k] + p <= Len(R) /\ (response.metaInt # 0 => p <= response.metaInt)
    BY <1>3, <1>8, <1>9, <2>1, Zenon
  <2>3. /\ Layout.before[k] + p <= AudioLen
        /\ \A j \in 1..p : R[Layout.start[k] + j] = Item("audio", Layout.before[k] + j)
    BY <1>0, <2>1, <2>2, RunFacts, Zenon
  <2> QED
    BY <1>3, <2>1, <2>3, Zenon
<1>11. len + n <= AudioLen /\ len + n \in Nat
  BY <1>5, <1>9, <1>10
<1>12. \A j \in 1..n : R[taken + j] = Item("audio", Len(got) + j)
  <2> SUFFICES ASSUME NEW j \in 1..n PROVE R[taken + j] = Item("audio", len + j)
    BY <1>3
  <2>1. /\ i + j \in 1..(i + n) /\ start + (i + j) = taken + j
        /\ before + (i + j) = len + j
    BY <1>5, <1>6, <1>9
  <2>2. R[start + (i + j)] = Item("audio", before + (i + j))
    BY <1>10, <2>1, Zenon
  <2> QED
    BY <2>1, <2>2, Zenon
<1>13. /\ Len(got') = len + n /\ got' = AudioFrom(1, Len(got'))
       /\ ToSet(got') = AudioIn(taken + n)
  <2>1. taken + n <= Len(R) /\ Len(got) + n <= AudioLen
    BY <1>3, <1>8, <1>11
  <2>2. LET more == got \o SubSeq(R, taken + 1, taken + n)
        IN  Len(more) = Len(got) + n /\ more = AudioFrom(1, Len(more))
            /\ ToSet(more) = AudioIn(taken + n)
    BY <1>0, <1>2, <1>9, <1>12, <2>1, DeliverMore
  <2>3. got' = got \o SubSeq(R, taken + 1, taken + n)
    BY <1>1, <1>8, Zenon
  <2> QED
    BY <1>3, <2>2, <2>3, Zenon
<1>14. /\ Shape' /\ HeaderRight' /\ StopRight' /\ response' = response /\ Layout' = Layout
       /\ icyMetaInt' = icyMetaInt
  <2>1. readerPc' \in InLoop
    BY <1>1 DEF InLoop
  <2>2. taken' \in 0..arrived
    BY <1>0, <1>8, <1>9, ShapeFacts
  <2> QED
    BY <1>1, <2>1, <2>2, BodyRest
<1>15. Delivered'
  <2>1. AudioIn(taken)' = AudioIn(taken + n)
    BY <1>8, <1>14 DEF AudioIn
  <2>2. Len(got') \in 0..AudioLen
    BY <1>11, <1>13, HttpAssumption
  <2> QED
    BY <1>13, <2>1, <2>2, Zenon DEF Delivered
<1>16. RunAt(m, start, before)'
  <2>1. taken' - start = i + n
    BY <1>6, <1>8, <1>9
  <2>2. Len(got') = before + (i + n)
    BY <1>5, <1>9, <1>13
  <2>3. IF m = 0 THEN untilMeta' = 0 ELSE i + n <= m /\ untilMeta' = m - (i + n)
    <3>1. untilMeta' = IF m = 0 THEN 0 ELSE untilMeta - n
      BY <1>1, <1>2, <1>3, <1>8
    <3> QED
      BY <1>5, <1>9, <3>1
  <2>4. discard' = 0 /\ readerPc' = "poll" /\ i + n >= 0
    BY <1>1, <1>5, <1>9
  <2> QED
    BY <2>1, <2>2, <2>3, <2>4 DEF RunAt
<1>17. InRun(k)'
  <2>1. RunAt(m, start, before)' <=> InRun(k)'
    <3>1. m = response'.metaInt /\ start = Layout'.start[k] /\ before = Layout'.before[k]
      BY <1>3, <1>14
    <3> QED
      BY <3>1, Zenon DEF InRun, RunAt
  <2> QED
    BY <1>16, <2>1
<1>18. ReaderRight'
  <2>1. k \in 1..(Len(Layout'.units) + 1) /\ icyMetaInt' = response'.metaInt
    BY <1>2, <1>14
  <2> QED
    BY <1>15, <1>17, <2>1, Zenon DEF ReaderRight
<1> QED
  BY <1>14, <1>18 DEF HttpInv

\* No metadata follows the last run of audio: it is shorter than metaInt.
LEMMA MoreBlocks ==
    ASSUME Shape, NEW k \in 1..(Len(Layout.units) + 1), response.metaInt # 0,
           Layout.start[k] + response.metaInt < Len(response.bytes)
    PROVE  k \in 1..Len(Layout.units)
<1>1. SUFFICES ASSUME k = Len(Layout.units) + 1 PROVE FALSE
  BY HeaderFacts
<1>2. PICK start, before, m, all \in Nat :
           /\ start = Layout.start[k] /\ before = Layout.before[k] /\ m = response.metaInt
           /\ all = Len(response.bytes) /\ before <= AudioLen /\ AudioLen - before < m
           /\ all = start + (AudioLen - before)
  <2>1. /\ Layout.start[k] \in Nat /\ Layout.before[k] \in 0..AudioLen
        /\ AudioLen - Layout.before[k] < response.metaInt
        /\ Len(response.bytes) = Layout.start[k] + (AudioLen - Layout.before[k])
    BY <1>1, LastFacts, Zenon
  <2>2. \A x \in 0..AudioLen : x \in Nat /\ x <= AudioLen
    BY HttpAssumption
  <2>3. response.metaInt \in Nat /\ Len(response.bytes) \in Nat
    BY LayoutFacts
  <2> QED
    BY <2>1, <2>2, <2>3, Zenon
<1>3. start + m < all
  BY <1>2
<1>4. PICK audio \in Nat : audio = AudioLen
  BY Sizes
<1>5. audio - before < m /\ all = start + (audio - before)
  BY <1>2, <1>4, Zenon
<1> QED
  BY <1>3, <1>5

LEMMA RunBegins ==
    ASSUME NEW m \in Nat, NEW next \in Nat, NEW more \in Nat, m # 0, taken' = next,
           Len(got') = more, readerPc' = "audio", untilMeta' = m, discard' = 0
    PROVE  RunAt(m, next, more)'
<1>1. taken' - next = 0
  OBVIOUS
<1>2. Len(got') = more + (taken' - next) /\ m = m - (taken' - next) /\ m > 0
  BY <1>1
<1> QED
  BY <1>1, <1>2 DEF RunAt

\* Past the metadata of block k: the next run of audio begins.
LEMMA NextRun ==
    ASSUME Shape, NEW k \in 1..Len(Layout.units), NEW m \in Nat, NEW start \in Nat,
           NEW before \in Nat, m = response.metaInt, start = Layout.start[k],
           before = Layout.before[k], m # 0, response' = response, Layout' = Layout,
           taken' = start + m + 1 + Layout.units[k] * MetaUnit, Len(got') = before + m,
           readerPc' = "audio", untilMeta' = m, discard' = 0
    PROVE  InRun(k + 1)' /\ k + 1 \in 1..(Len(Layout'.units) + 1)
<1>1. /\ k + 1 \in 1..(Len(Layout.units) + 1)
      /\ Layout.before[k + 1] = before + m
      /\ Layout.start[k + 1] = start + m + 1 + Layout.units[k] * MetaUnit
      /\ Layout.start[k + 1] \in Nat
  BY BlockFacts, Zenon
<1>2. PICK next, more \in Nat : /\ next = Layout'.start[k + 1] /\ more = Layout'.before[k + 1]
                                /\ taken' = next /\ Len(got') = more
  <2>1. before + m \in Nat
    OBVIOUS
  <2> QED
    BY <1>1, <2>1, Zenon
<1>3. RunAt(m, next, more)'
  BY <1>2, RunBegins, Zenon
<1>4. RunAt(m, next, more)' <=> InRun(k + 1)'
  BY <1>2, Zenon DEF InRun, RunAt
<1> QED
  BY <1>1, <1>3, <1>4

LEMMA SkipLengthStep ==
    ASSUME HttpInv, SkipLength
    PROVE  HttpInv'
<1> DEFINE R == response.bytes
<1>0. Shape
  BY DEF HttpInv
<1>1. /\ ReaderAt("length") /\ RecvData(1) /\ discard' = Received[1].val * MetaUnit
      /\ readerPc' = (IF discard' = 0 THEN "audio" ELSE "meta") /\ readerPc = "length"
      /\ untilMeta' = (IF discard' = 0 THEN icyMetaInt ELSE untilMeta)
      /\ UNCHANGED <<sock, connected, got>>
  BY Zenon DEF SkipLength, ReaderAt
<1>2. icyMetaInt = response.metaInt /\ Delivered
  BY <1>1, BodyStart
<1>3. PICK k \in 1..(Len(Layout.units) + 1), m, start, before, len \in Nat :
             /\ m = response.metaInt /\ len = Len(got)
             /\ start = Layout.start[k] /\ before = Layout.before[k]
             /\ RunAt(m, start, before)
  BY <1>1, BodyStart
<1>4. m > 0 /\ untilMeta = 0 /\ taken = start + m /\ len = before + m /\ taken \in Nat
  <2>1. taken \in Nat
    BY <1>0, ShapeFacts
  <2>2. /\ m > 0 /\ untilMeta = 0 /\ taken - start >= 0 /\ len = before + (taken - start)
        /\ IF m = 0 THEN untilMeta = 0 ELSE taken - start <= m /\ untilMeta = m - (taken - start)
    BY <1>1, <1>3 DEF RunAt
  <2>3. taken = start + m
    BY <2>1, <2>2
  <2>4. len = before + m
    BY <2>2, <2>3
  <2> QED
    BY <2>1, <2>2, <2>3, <2>4
<1>5. /\ taken' = taken + 1 /\ taken + 1 <= arrived /\ taken + 1 <= Len(R)
      /\ Received[1] = R[taken + 1]
  <2>1. PICK n \in 0..1 : /\ taken' = taken + n /\ taken + n <= arrived /\ taken + n <= Len(R)
                          /\ 1 > 0 => n > 0
                          /\ \A j \in 1..n : Received[j] = R[taken + j]
    BY <1>0, <1>1, RecvFacts
  <2>2. n = 1
    BY <2>1
  <2>3. 1 \in 1..n
    BY <2>2
  <2> QED
    BY <2>1, <2>2, <2>3
<1>6. k \in 1..Len(Layout.units)
  <2>1. PICK all \in Nat : all = Len(R)
    BY <1>0, ShapeFacts
  <2>2. start + m < all /\ m # 0
    BY <1>4, <1>5, <2>1
  <2>3. Layout.start[k] + response.metaInt < Len(R) /\ response.metaInt # 0
    BY <1>3, <2>1, <2>2, Zenon
  <2> QED
    BY <1>0, <2>3, MoreBlocks
<1>7. PICK size \in Nat : size = Layout.units[k] * MetaUnit
  <2>1. Layout.units[k] * MetaUnit \in 0..(MaxUnits * MetaUnit)
    BY <1>0, <1>6, BlockFacts, Zenon
  <2>2. \A x \in 0..(MaxUnits * MetaUnit) : x \in Nat
    BY HttpAssumption
  <2> QED
    BY <2>1, <2>2, Zenon
<1>8. R[taken + 1] = Item("length", Layout.units[k])
  <2>1. R[Layout.start[k] + response.metaInt + 1] = Item("length", Layout.units[k])
    BY <1>0, <1>6, BlockFacts, Zenon
  <2> QED
    BY <1>3, <1>4, <2>1, Zenon
<1>9. discard' = size /\ R[taken + 1].kind # "audio"
  <2>1. /\ Item("length", Layout.units[k]).val = Layout.units[k]
        /\ Item("length", Layout.units[k]).kind = "length"
    BY ItemIs
  <2>2. discard' = size
    BY <1>1, <1>5, <1>7, <1>8, <2>1, Zenon
  <2>3. R[taken + 1].kind = "length"
    BY <1>8, <2>1, Zenon
  <2> QED
    BY <2>2, <2>3
<1>10. /\ Shape' /\ HeaderRight' /\ StopRight' /\ response' = response /\ Layout' = Layout
       /\ icyMetaInt' = icyMetaInt
  <2>1. readerPc' \in InLoop
    BY <1>1 DEF InLoop
  <2>2. taken' \in 0..arrived
    BY <1>0, <1>5, ShapeFacts
  <2> QED
    BY <1>1, <2>1, <2>2, BodyRest
<1>11. Delivered'
  <2>1. PICK one \in Nat : one = 1
    OBVIOUS
  <2>2. taken + one <= Len(R) /\ taken' = taken + one
    BY <1>5, <2>1
  <2>3. \A j \in 1..one : R[taken + j].kind # "audio"
    BY <1>9, <2>1
  <2> QED
    BY <1>0, <1>1, <1>2, <1>10, <2>2, <2>3, SkipsNoAudio
<1>12. Len(got') = before + m
  BY <1>1, <1>3, <1>4
<1>13. CASE size = 0
  <2>1. taken' = start + m + 1 + Layout.units[k] * MetaUnit
    <3>1. taken' = start + m + 1 + size
      BY <1>4, <1>5, <1>13
    <3> QED
      BY <1>7, <3>1, Zenon
  <2>2. readerPc' = "audio" /\ untilMeta' = m /\ discard' = 0 /\ m # 0
    BY <1>1, <1>2, <1>3, <1>4, <1>9, <1>13
  <2>3. InRun(k + 1)' /\ k + 1 \in 1..(Len(Layout'.units) + 1)
    BY <1>0, <1>3, <1>6, <1>10, <1>12, <2>1, <2>2, NextRun
  <2>4. icyMetaInt' = response'.metaInt
    BY <1>2, <1>10
  <2> QED
    BY <1>10, <1>11, <2>3, <2>4, Zenon DEF ReaderRight, HttpInv
<1>14. CASE size # 0
  <2>1. readerPc' = "meta" /\ untilMeta' = 0 /\ discard' = size
    BY <1>1, <1>4, <1>9, <1>14
  <2>2. taken' = start + m + 1 + size - discard' /\ discard' \in 1..size
    BY <1>4, <1>5, <1>14, <2>1
  <2>3. MetaAt(m, start, before, size)'
    BY <1>12, <2>1, <2>2 DEF MetaAt
  <2>4. /\ m = response'.metaInt /\ start = Layout'.start[k] /\ before = Layout'.before[k]
        /\ size = Layout'.units[k] * MetaUnit
    BY <1>3, <1>7, <1>10
  <2>5. k <= Len(Layout'.units)
    BY <1>0, <1>6, <1>10, HeaderFacts
  <2>7. InMeta(k)'
    BY <2>3, <2>4, <2>5, Zenon DEF InMeta, MetaAt
  <2>8. k \in 1..(Len(Layout'.units) + 1) /\ icyMetaInt' = response'.metaInt
    BY <1>2, <1>10
  <2> QED
    BY <1>10, <1>11, <2>7, <2>8, Zenon DEF ReaderRight, HttpInv
<1> QED
  BY <1>13, <1>14

LEMMA SkipMetaStep ==
    ASSUME HttpInv, SkipMeta
    PROVE  HttpInv'
<1> DEFINE R == response.bytes
           max == Shorter(discard, DiscardLen)
<1>0. Shape
  BY DEF HttpInv
<1>1. /\ ReaderAt("meta") /\ RecvData(max)
      /\ discard' = discard - Len(Received)
      /\ readerPc' = (IF discard' = 0 THEN "audio" ELSE "meta") /\ readerPc = "meta"
      /\ untilMeta' = (IF discard' = 0 THEN icyMetaInt ELSE untilMeta)
      /\ UNCHANGED <<sock, connected, got>>
  BY Zenon DEF SkipMeta, ReaderAt
<1>2. icyMetaInt = response.metaInt /\ Delivered
  BY <1>1, BodyStart
<1>3. PICK k \in 1..Len(Layout.units), m, start, before, len \in Nat :
             /\ m = response.metaInt /\ len = Len(got)
             /\ start = Layout.start[k] /\ before = Layout.before[k]
             /\ MetaAt(m, start, before, Layout.units[k] * MetaUnit)
  BY <1>1, BodyStart
<1>4. PICK size \in Nat : size = Layout.units[k] * MetaUnit
  <2>1. Layout.units[k] * MetaUnit \in 0..(MaxUnits * MetaUnit)
    BY <1>0, BlockFacts, Zenon
  <2>2. \A x \in 0..(MaxUnits * MetaUnit) : x \in Nat
    BY HttpAssumption
  <2> QED
    BY <2>1, <2>2, Zenon
<1>5. /\ discard \in Nat /\ discard <= size /\ discard # 0 /\ untilMeta = 0 /\ len = before + m
      /\ taken = start + m + 1 + size - discard /\ taken \in Nat
  <2>1. MetaAt(m, start, before, size)
    BY <1>3, <1>4, Zenon
  <2>2. taken \in Nat
    BY <1>0, ShapeFacts
  <2> QED
    BY <1>3, <2>1, <2>2 DEF MetaAt
<1>6. m # 0
  <2>1. PICK last : last = Len(Layout.units) + 1
    OBVIOUS
  <2>2. IF response.metaInt = 0 THEN last = 1
        ELSE AudioLen - Layout.before[last] < response.metaInt
    BY <1>0, <2>1, LastFacts
  <2>3. last # 1
    BY <1>0, <2>1, HeaderFacts
  <2> QED
    BY <1>3, <2>2, <2>3
<1>7. max \in Nat /\ max <= discard
  BY <1>5, Sizes DEF Shorter
<1> HIDE DEF max
<1>8. PICK n \in 0..max :
             /\ taken' = taken + n /\ taken + n <= arrived /\ taken + n <= Len(R)
             /\ Len(Received) = n
  BY <1>0, <1>1, <1>7, RecvFacts
<1>9. n \in Nat /\ n <= discard /\ discard' = discard - n
  <2>1. n \in Nat /\ n <= max
    BY <1>7
  <2> QED
    BY <1>1, <1>5, <1>7, <1>8, <2>1
<1>10. \A j \in 1..n : R[taken + j].kind # "audio"
  <2> SUFFICES ASSUME NEW j \in 1..n PROVE R[taken + j].kind # "audio"
    OBVIOUS
  <2>1. PICK p \in 1..size : p = size - discard + j
    BY <1>5, <1>9
  <2>2. taken + j = start + m + 1 + p
    BY <1>5, <1>9, <2>1
  <2>3. R[Layout.start[k] + response.metaInt + 1 + p].kind = "meta"
    BY <1>0, <1>4, BlockFacts, Zenon
  <2>4. R[taken + j].kind = "meta"
    BY <1>3, <2>2, <2>3, Zenon
  <2> QED
    BY <2>4
<1>11. /\ Shape' /\ HeaderRight' /\ StopRight' /\ response' = response /\ Layout' = Layout
       /\ icyMetaInt' = icyMetaInt
  <2>1. readerPc' \in InLoop
    BY <1>1 DEF InLoop
  <2>2. taken' \in 0..arrived
    BY <1>0, <1>8, <1>9, ShapeFacts
  <2> QED
    BY <1>1, <2>1, <2>2, BodyRest
<1>12. Delivered'
  BY <1>0, <1>1, <1>2, <1>8, <1>9, <1>10, <1>11, SkipsNoAudio
<1>13. Len(got') = before + m
  BY <1>1, <1>3, <1>5
<1>14. taken' = start + m + 1 + size - discard'
  BY <1>5, <1>8, <1>9
<1>15. CASE discard' = 0
  <2>1. taken' = start + m + 1 + Layout.units[k] * MetaUnit
    <3>1. taken' = start + m + 1 + size
      BY <1>14, <1>15
    <3> QED
      BY <1>4, <3>1, Zenon
  <2>2. readerPc' = "audio" /\ untilMeta' = m
    BY <1>1, <1>2, <1>3, <1>15
  <2>3. InRun(k + 1)' /\ k + 1 \in 1..(Len(Layout'.units) + 1)
    BY <1>0, <1>3, <1>6, <1>11, <1>13, <1>15, <2>1, <2>2, NextRun
  <2>4. icyMetaInt' = response'.metaInt
    BY <1>2, <1>11
  <2> QED
    BY <1>11, <1>12, <2>3, <2>4, Zenon DEF ReaderRight, HttpInv
<1>16. CASE discard' # 0
  <2>1. readerPc' = "meta" /\ untilMeta' = 0
    BY <1>1, <1>5, <1>16
  <2>2. discard' \in 1..size
    BY <1>5, <1>9, <1>16
  <2>3. MetaAt(m, start, before, size)'
    BY <1>13, <1>14, <2>1, <2>2 DEF MetaAt
  <2>4. /\ m = response'.metaInt /\ start = Layout'.start[k] /\ before = Layout'.before[k]
        /\ size = Layout'.units[k] * MetaUnit
    BY <1>3, <1>4, <1>11
  <2>5. k <= Len(Layout'.units) /\ k \in 1..(Len(Layout'.units) + 1)
    BY <1>0, <1>11, HeaderFacts
  <2>6. InMeta(k)'
    BY <2>3, <2>4, <2>5, Zenon DEF InMeta, MetaAt
  <2>7. icyMetaInt' = response'.metaInt
    BY <1>2, <1>11
  <2> QED
    BY <1>11, <1>12, <2>5, <2>6, <2>7, Zenon DEF ReaderRight, HttpInv
<1> QED
  BY <1>15, <1>16

LEMMA HttpInvIsKept == HttpInv /\ [HttpNext]_httpVars => HttpInv'
<1> SUFFICES ASSUME HttpInv, [HttpNext]_httpVars PROVE HttpInv'
  OBVIOUS
<1>1. CASE LmsSends \/ LmsEnds
  BY <1>1, LmsStep
<1>2. CASE Connect
  BY <1>2, ConnectStep
<1>3. CASE StopReader \/ Stopper
  BY <1>3, StopStep
<1>4. CASE ReadHeader
  BY <1>4, ReadHeaderStep
<1>5. CASE HeaderCut
  BY <1>5, HeaderCutStep
<1>6. CASE LoopStops \/ HangUp \/ TimesOut \/ StreamCut
  BY <1>6, EndStep
<1>7. CASE Readable
  BY <1>7, ReadableStep
<1>8. CASE ReadAudio
  BY <1>8, ReadAudioStep
<1>9. CASE SkipLength
  BY <1>9, SkipLengthStep
<1>10. CASE SkipMeta
  BY <1>10, SkipMetaStep
<1>11. CASE UNCHANGED httpVars
  <2>1. UNCHANGED <<readerVars, readerPc, arrived, peer, sock, connected, running, stopPc, endSeq>>
    BY <1>11 DEF httpVars, lmsEnd, stopVars, readerVars
  <2>2. HeaderRight' /\ ReaderRight'
    BY <2>1, PlaceKept DEF HttpInv
  <2>3. Shape'
    BY <2>1 DEF HttpInv, Shape, Reading, InLoop, readerVars
  <2>4. StopRight'
    BY <2>1 DEF HttpInv, StopRight, Stopping, InLoop, readerVars
  <2> QED
    BY <2>2, <2>3, <2>4 DEF HttpInv
<1> QED
  BY <1>1, <1>2, <1>3, <1>4, <1>5, <1>6, <1>7, <1>8, <1>9, <1>10, <1>11 DEF HttpNext, Reader

LEMMA HttpInvIsInvariant == HttpSpec => []HttpInv
<1>1. HttpInit => HttpInv
  BY HttpInvHoldsInitially
<1>2. HttpInv /\ [HttpNext]_httpVars => HttpInv'
  BY HttpInvIsKept
<1> QED
  BY <1>1, <1>2, PTL DEF HttpSpec

-----------------------------------------------------------------------------
(* What the invariant implies.                                             *)

LEMMA InvImpliesTypeOK == HttpInv => HttpTypeOK
<1> SUFFICES ASSUME HttpInv PROVE HttpTypeOK
  OBVIOUS
<1> USE DEF HttpInv
<1>1. icyMetaInt \in MetaInts \cup {0} /\ untilMeta \in 0..icyMetaInt
      /\ discard \in 0..(MaxUnits * MetaUnit)
  <2>1. 0 \in 0..(MaxUnits * MetaUnit)
    <3>1. \A a, b \in Nat : 0 \in 0..(a * b)
      OBVIOUS
    <3> QED
      BY <3>1, HttpAssumption
  <2>2. CASE readerPc \in {"header", "failed"}
    <3>1. icyMetaInt = 0 /\ untilMeta = 0 /\ discard = 0
      BY <2>2 DEF HeaderRight
    <3> QED
      BY <2>1, <3>1
  <2>3. CASE readerPc \in Reading
    <3>1. /\ icyMetaInt = response.metaInt
          /\ \E k \in 1..(Len(Layout.units) + 1) : InRun(k) \/ InMeta(k)
      BY <2>3 DEF ReaderRight
    <3>2. response.metaInt \in MetaInts /\ response.metaInt \in Nat
      BY LayoutFacts
    <3>3. PICK k \in 1..(Len(Layout.units) + 1) : InRun(k) \/ InMeta(k)
      BY <3>1
    <3>4. CASE InRun(k)
      <4>1. taken - Layout.start[k] \in Int
        <5>1. Layout.start \in [1..(Len(Layout.units) + 1) -> Nat]
          BY LayoutFacts, Zenon DEF IsLayout
        <5>2. taken \in Nat
          BY LayoutFacts DEF Shape
        <5> QED
          BY <5>1, <5>2
      <4>2. discard = 0 /\ untilMeta \in 0..response.metaInt
        BY <3>2, <3>4, <4>1 DEF InRun, RunAt
      <4> QED
        BY <2>1, <3>1, <3>2, <4>2
    <3>5. CASE InMeta(k)
      <4>1. k \in 1..Len(Layout.units)
        BY <3>5, HeaderFacts DEF InMeta, MetaAt
      <4>2. Layout.units[k] * MetaUnit \in 0..(MaxUnits * MetaUnit)
        BY <4>1, BlockFacts, Zenon
      <4>3. untilMeta = 0 /\ discard \in 1..(Layout.units[k] * MetaUnit)
        BY <3>5 DEF InMeta, MetaAt
      <4>4. \A a, b, c \in Int : a \in 1..b /\ b \in 0..c => a \in 0..c
        OBVIOUS
      <4>5. MaxUnits * MetaUnit \in Int
        BY HttpAssumption
      <4>6. discard \in 0..(MaxUnits * MetaUnit)
        <5> DEFINE size == Layout.units[k] * MetaUnit
                   most == MaxUnits * MetaUnit
        <5> HIDE DEF size, most
        <5>1. size \in 0..most /\ discard \in 1..size /\ most \in Int
          BY <4>2, <4>3, <4>5 DEF size, most
        <5>2. discard \in 0..most
          BY <5>1
        <5> QED
          BY <5>2 DEF most
      <4> QED
        BY <3>1, <3>2, <4>3, <4>6
    <3> QED
      BY <3>3, <3>4, <3>5
  <2> QED
    BY <2>2, <2>3 DEF Shape
<1>2. /\ arrived \in 0..Len(response.bytes) /\ taken \in 0..arrived
      /\ peer \in {"open", "fin", "reset"} /\ sock \in {"open", "shut", "closed"}
      /\ endSeq \in 0..4
  BY DEF Shape
<1>3. {connected, running} \subseteq BOOLEAN
  BY Zenon DEF Shape
<1>4. readerPc = "header" => taken <= HeaderLimit
  BY DEF HeaderRight
<1> QED
  BY <1>1, <1>2, <1>3, <1>4, Zenon DEF HttpTypeOK

LEMMA InvImpliesDeliversAudio == HttpInv => DeliversAudio
<1> SUFFICES ASSUME HttpInv PROVE DeliversAudio
  OBVIOUS
<1> DEFINE len == Len(got)
           all == AudioFrom(1, AudioLen)
<1>1. got = AudioFrom(1, len) /\ len \in 0..AudioLen
  <2>1. CASE readerPc \in {"header", "failed"}
    <3>1. got = <<>>
      BY <2>1 DEF HttpInv, HeaderRight
    <3>2. AudioFrom(1, 0) = <<>>
      BY DEF AudioFrom
    <3>3. len = 0 /\ 0 \in 0..AudioLen
      BY <3>1, HttpAssumption
    <3> QED
      BY <3>1, <3>2, <3>3
  <2>2. CASE readerPc \in Reading
    BY <2>2, Zenon DEF HttpInv, ReaderRight, Delivered
  <2> QED
    BY <2>1, <2>2 DEF HttpInv, Shape
<1>2. len \in Nat /\ AudioLen \in Nat /\ len <= AudioLen /\ 1 \in Nat \ {0}
  BY <1>1, HttpAssumption
<1>3. /\ all \in Seq(BodyItem) /\ Len(all) = AudioLen
      /\ \A i \in 1..AudioLen : all[i] = Item("audio", 1 + i - 1)
  BY <1>2, AudioFromIs
<1>4. /\ got \in Seq(BodyItem)
      /\ \A i \in 1..len : got[i] = Item("audio", 1 + i - 1)
  <2> HIDE DEF len
  <2>1. /\ AudioFrom(1, len) \in Seq(BodyItem)
        /\ \A i \in 1..len : AudioFrom(1, len)[i] = Item("audio", 1 + i - 1)
    BY <1>2, AudioFromIs
  <2> QED
    BY <1>1, <2>1, Zenon
<1> HIDE DEF all
<1>5. /\ SubSeq(got, 1, len) \in Seq(BodyItem) /\ Len(SubSeq(got, 1, len)) = len
      /\ \A i \in 1..len : SubSeq(got, 1, len)[i] = got[i]
  BY <1>2, <1>4
<1>6. /\ SubSeq(all, 1, len) \in Seq(BodyItem) /\ Len(SubSeq(all, 1, len)) = len
      /\ \A i \in 1..len : SubSeq(all, 1, len)[i] = all[i]
  <2> HIDE DEF len
  <2> QED
    BY <1>2, <1>3
<1>7. SubSeq(got, 1, len) = SubSeq(all, 1, len)
  <2>1. \A i \in 1..len : got[i] = all[i]
    <3>1. \A i \in 1..len : i \in 1..AudioLen
      BY <1>2
    <3> QED
      BY <1>3, <1>4, <3>1, Zenon
  <2> HIDE DEF len
  <2>2. \A i \in 1..Len(SubSeq(got, 1, len)) : SubSeq(got, 1, len)[i] = SubSeq(all, 1, len)[i]
    BY <1>5, <1>6, <2>1, Zenon
  <2> QED
    BY <1>5, <1>6, <2>2, SeqEqual, Zenon
<1> QED
  BY <1>2, <1>3, <1>7 DEF DeliversAudio, IsPrefix, all

LEMMA InvImpliesDeliversAll == HttpInv => DeliversAll
<1> SUFFICES ASSUME HttpInv, readerPc = "done", peer = "fin", sock = "open", stopPc = "away"
             PROVE  ToSet(got) = AudioIn(arrived)
  BY DEF DeliversAll
<1>1. taken = arrived
  BY DEF HttpInv, StopRight, Stopping
<1>2. ToSet(got) = AudioIn(taken)
  BY DEF HttpInv, ReaderRight, Reading, Delivered
<1> QED
  BY <1>1, <1>2

-----------------------------------------------------------------------------
(* HttpStreamClient.cpp:125-263: what is still to come of a run of audio   *)
(* or of a metadata block never exceeds it, and a header still being read  *)
(* is within its limit, for every response and every way TCP cuts it.      *)
THEOREM HttpTypeCorrect == HttpSpec => []HttpTypeOK
<1>1. HttpInv => HttpTypeOK
  BY InvImpliesTypeOK
<1> QED
  BY <1>1, HttpInvIsInvariant, PTL

(* HttpStreamClient.cpp:166-191: read() returns a prefix of the audio, for *)
(* metadata blocks of every size, empty ones included, wherever the recvs  *)
(* cut them.                                                               *)
THEOREM AlwaysDeliversAudio == HttpSpec => []DeliversAudio
<1>1. HttpInv => DeliversAudio
  BY InvImpliesDeliversAudio
<1> QED
  BY <1>1, HttpInvIsInvariant, PTL

(* HttpStreamClient.cpp:211: a stream that LMS closed and nobody stopped   *)
(* has been read to the last byte that arrived.                            *)
THEOREM AlwaysDeliversAll == HttpSpec => []DeliversAll
<1>1. HttpInv => DeliversAll
  BY InvImpliesDeliversAll
<1> QED
  BY <1>1, HttpInvIsInvariant, PTL
=============================================================================
