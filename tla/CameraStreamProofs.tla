------------------------- MODULE CameraStreamProofs -------------------------
(***************************************************************************)
(* Proofs about continuous capture, for every set of pictures, every       *)
(* number of slots and counters that wrap at a multiple of it: the DMA is  *)
(* off in a stopped stream, frames that wait or are held stay whole, and   *)
(* the stream implements FrameFifo.                                        *)
(***************************************************************************)
EXTENDS CameraStream, SequenceTheorems, FiniteSetTheorems, TLAPS

\* The DMA channel is on just when an active stream has been armed, and then it
\* writes to the current slot; a stopped stream may be on for a moment.
DmaPlace ==
    /\ active => dma = (IF armed THEN current ELSE Off)
    /\ ~active /\ pc # "stopping" => dma = Off
    /\ pc = "got" => active
    /\ pc = "stopping" => ~active

\* The slots that wait, are held or are being filled are different ones, and busy.
Apart ==
    /\ Depth < SlotCount
    /\ \A i, j \in 1..Depth : WaitingSlot(i) = WaitingSlot(j) => i = j
    /\ \A i \in 1..Depth : busy[WaitingSlot(i)] /\ WaitingSlot(i) \notin HeldSlots \cup {current}
    /\ \A s \in HeldSlots : busy[s] /\ s # current
    /\ busy[current]

\* camera_stream_get() is about to return the oldest frame.
InHand ==
    pc = "got" =>
        /\ Depth > 0 /\ found.slot = WaitingSlot(1) /\ found.id = size[WaitingSlot(1)]

\* A stopped stream has handed out nothing.
NothingOut == ~active => HeldSlots = {}

StreamInv ==
    TypeOK /\ DmaPlace /\ NothingOut /\ (active => Apart /\ InHand) /\ FramesIntact

\* The counters wrap at a multiple of the number of slots.
WrapsEvenly == Wrap % SlotCount = 0

-----------------------------------------------------------------------------
(* Counters that wrap.                                                     *)

\* A remainder is below the modulus.
LEMMA ModRange == ASSUME NEW n \in Int, n > 0, NEW x \in Int PROVE x % n \in 0..(n - 1)
OBVIOUS

\* Quotient and remainder give the number back.
LEMMA DivMod ==
    ASSUME NEW n \in Int, n > 0, NEW x \in Int
    PROVE  x = n * (x \div n) + (x % n) /\ x \div n \in Int
<1>1. x = n * (x \div n) + (x % n) BY Z3T(60)
<1> QED BY <1>1

\* The remainder is known from any decomposition into a multiple and a small rest.
LEMMA ModIs ==
    ASSUME NEW n \in Int, n > 0, NEW q \in Int, NEW r \in 0..(n - 1)
    PROVE  (n * q + r) % n = r
OBVIOUS

\* Adding a multiple changes no remainder.
LEMMA ModAdd ==
    ASSUME NEW n \in Int, n > 0, NEW x \in Int, NEW q \in Int
    PROVE  (x + n * q) % n = x % n
<1> DEFINE d == x \div n
           r == x % n
<1>1. x = n * d + r /\ d \in Int /\ r \in 0..(n - 1) BY DivMod, ModRange
<1> HIDE DEF d, r
<1>2. x + n * q = n * (d + q) + r BY <1>1
<1>3. (n * (d + q) + r) % n = r BY <1>1, ModIs
<1> QED BY <1>2, <1>3 DEF r

\* A remainder may be taken before another number is added.
LEMMA ModFirst ==
    ASSUME NEW n \in Int, n > 0, NEW x \in Int, NEW y \in Int
    PROVE  ((x % n) + y) % n = (x + y) % n /\ (y - (x % n)) % n = (y - x) % n
<1> DEFINE d == x \div n
           r == x % n
<1>1. x = n * d + r /\ d \in Int /\ r \in Int BY DivMod
<1> HIDE DEF d, r
<1>2. (x + y) = (r + y) + n * d /\ (y - r) = (y - x) + n * d BY <1>1
<1>3. r + y \in Int /\ y - x \in Int BY <1>1
<1>4. \A z \in Int : (z + n * d) % n = z % n BY <1>1, ModAdd
<1> QED BY <1>2, <1>3, <1>4 DEF r

\* The next cursor, and the one before.
LEMMA ModNext ==
    ASSUME NEW n \in Int, n > 0, NEW x \in Int
    PROVE  /\ x % n < n - 1 => (x + 1) % n = (x % n) + 1
           /\ x % n > 0 => (x - 1) % n = (x % n) - 1
<1> DEFINE r == x % n
<1>1. r \in 0..(n - 1) BY ModRange
<1>2. \A y \in Int : (r + y) % n = (x + y) % n BY ModFirst
<1> HIDE DEF r
<1>3. r < n - 1 => (r + 1) % n = r + 1 BY <1>1
<1>4. r > 0 => (r - 1) % n = r - 1 BY <1>1
<1>5. r + (0 - 1) = r - 1 /\ x + (0 - 1) = x - 1 /\ 0 - 1 \in Int BY <1>1
<1>6. (r + 1) % n = (x + 1) % n /\ (r - 1) % n = (x - 1) % n BY <1>2, <1>5
<1> QED BY <1>3, <1>4, <1>6 DEF r

\* Numbers less than a turn apart have different remainders.
LEMMA ModApart ==
    ASSUME NEW n \in Int, n > 0, NEW x \in Int, NEW d \in 1..(n - 1)
    PROVE  (x + d) % n # x % n
<1> DEFINE r == x % n
<1>1. r \in 0..(n - 1) BY ModRange
<1>2. \A y \in Int : (r + y) % n = (x + y) % n BY ModFirst
<1> HIDE DEF r
<1>3. r + d < n => (r + d) % n = r + d BY <1>1
<1>4. r + d >= n => (r + d) % n = r + d - n BY <1>1
<1>5. (r + d) % n = (x + d) % n BY <1>2
<1> QED BY <1>1, <1>3, <1>4, <1>5 DEF r

\* Where the cursors wrap at a multiple of the capacity, the wrap does not move
\* the slot a cursor names.
LEMMA SlotOfCursor ==
    ASSUME NEW n \in Int, n > 0, NEW w \in Int, w > 0, w % n = 0, NEW x \in Int
    PROVE  (x % w) % n = x % n
<1> DEFINE d == x \div w
           r == x % w
           k == w \div n
<1>1. x = w * d + r /\ d \in Int /\ r \in Int BY DivMod
<1>2. w = n * k + (w % n) /\ k \in Int BY DivMod
<1> HIDE DEF d, r, k
<1>3. w = n * k BY <1>2
<1>4. w * d = n * (k * d) BY <1>1, <1>2, <1>3
<1>5. x = r + n * (k * d) /\ k * d \in Int BY <1>1, <1>2, <1>4
<1>6. (r + n * (k * d)) % n = r % n BY <1>1, <1>5, ModAdd
<1> QED BY <1>5, <1>6 DEF r

-----------------------------------------------------------------------------
(* The queue.                                                              *)

\* The difference of two counters counts the frames between them.
LEMMA CounterDistance ==
    ASSUME NEW h \in 0..(Wrap - 1), NEW t \in 0..(Wrap - 1)
    PROVE  /\ (h - t) % Wrap \in 0..(Wrap - 1)
           /\ (h - t) % Wrap = 0 <=> h = t
           /\ h = (t + ((h - t) % Wrap)) % Wrap
<1>1. Wrap \in Int /\ Wrap > 0 /\ h \in Int /\ t \in Int /\ h - t \in Int BY StreamAssumption
<1>2. (h - t) % Wrap \in 0..(Wrap - 1) BY <1>1, ModRange
<1>3. (h - t) % Wrap = 0 <=> h = t
  <2>1. h >= t => (h - t) % Wrap = h - t BY <1>1
  <2>2. h < t => (h - t) % Wrap = h - t + Wrap BY <1>1
  <2> QED BY <1>1, <2>1, <2>2
<1>4. h = (t + ((h - t) % Wrap)) % Wrap
  <2>1. (((h - t) % Wrap) + t) % Wrap = ((h - t) + t) % Wrap BY <1>1, ModFirst
  <2>2. (h - t) + t = h /\ h % Wrap = h BY <1>1
  <2>3. ((h - t) % Wrap) + t = t + ((h - t) % Wrap) BY <1>1
  <2> QED BY <2>1, <2>2, <2>3
<1> QED BY <1>2, <1>3, <1>4

\* Where a counter's slot number is kept, whether or not the counter wraps.
LEMMA CounterPlace ==
    ASSUME WrapsEvenly, NEW x \in Int
    PROVE  (x % Wrap) % SlotCount = x % SlotCount /\ x % SlotCount \in Slots
<1>1. Wrap \in Int /\ Wrap > 0 /\ SlotCount \in Int /\ SlotCount > 0 /\ Wrap % SlotCount = 0
  BY StreamAssumption DEF WrapsEvenly
<1>2. (x % Wrap) % SlotCount = x % SlotCount BY <1>1, SlotOfCursor, Zenon
<1>3. x % SlotCount \in 0..(SlotCount - 1) BY <1>1, ModRange
<1> QED BY <1>2, <1>3 DEF Slots

\* The number of waiting frames, and the slots they are in.
LEMMA WaitingFacts ==
    ASSUME WrapsEvenly, TypeOK
    PROVE  /\ Depth \in 0..(Wrap - 1) /\ (Depth = 0 <=> head = tail)
           /\ \A i \in Int : /\ WaitingSlot(i) = queue[(tail + i - 1) % SlotCount]
                             /\ WaitingSlot(i) \in Slots
<1>1. head \in 0..(Wrap - 1) /\ tail \in 0..(Wrap - 1) BY DEF TypeOK
<1>2. Depth \in 0..(Wrap - 1) /\ (Depth = 0 <=> head = tail)
  BY <1>1, CounterDistance DEF Depth
<1>3. ASSUME NEW i \in Int
      PROVE  /\ WaitingSlot(i) = queue[(tail + i - 1) % SlotCount]
             /\ WaitingSlot(i) \in Slots
  <2>1. tail + i - 1 \in Int BY <1>1, StreamAssumption
  <2>2. ((tail + i - 1) % Wrap) % SlotCount = (tail + i - 1) % SlotCount
        /\ (tail + i - 1) % SlotCount \in Slots
    BY <2>1, CounterPlace, Zenon
  <2> QED BY <2>2 DEF WaitingSlot, TypeOK
<1> QED BY <1>2, <1>3

\* A step that leaves the queue and its counters alone.
LEMMA WaitingSame ==
    ASSUME UNCHANGED <<queue, head, tail>>
    PROVE  Depth' = Depth /\ \A i \in Int : WaitingSlot(i)' = WaitingSlot(i)
BY DEF Depth, WaitingSlot

\* The interrupt puts the current slot behind the ones that wait.
LEMMA WaitingAppend ==
    ASSUME WrapsEvenly, TypeOK, Depth < SlotCount - 1,
           queue' = [queue EXCEPT ![head % SlotCount] = current],
           head' = (head + 1) % Wrap, tail' = tail
    PROVE  /\ Depth' = Depth + 1
           /\ \A i \in 1..(Depth + 1) :
                  WaitingSlot(i)' = IF i = Depth + 1 THEN current ELSE WaitingSlot(i)
<1>0. /\ Wrap \in Int /\ Wrap > 0 /\ SlotCount \in Int /\ SlotCount > 0 /\ Wrap >= SlotCount
      /\ head \in Int /\ tail \in Int /\ head - tail \in Int /\ Wrap % SlotCount = 0
  BY StreamAssumption DEF TypeOK, WrapsEvenly
<1>1. Depth \in 0..(SlotCount - 2) BY <1>0, WaitingFacts
<1>2. Depth' = Depth + 1
  <2>1. head + 1 \in Int /\ 0 - tail \in Int BY <1>0
  <2>2. (((head + 1) % Wrap) + (0 - tail)) % Wrap = ((head + 1) + (0 - tail)) % Wrap
    BY <1>0, <2>1, ModFirst, ZenonT(60)
  <2>3. (head + 1) + (0 - tail) = (head - tail) + 1 BY <1>0
  <2>4. (head + 1) % Wrap \in Int BY <1>0, <2>1, ModRange
  <2>5. ((head + 1) % Wrap) + (0 - tail) = ((head + 1) % Wrap) - tail BY <1>0, <2>4
  <2>6. ((head - tail) + 1) % Wrap = ((head - tail) % Wrap) + 1
    <3>1. \A x \in Int : x % Wrap < Wrap - 1 => (x + 1) % Wrap = (x % Wrap) + 1
      BY <1>0, ModNext
    <3>2. (head - tail) % Wrap < Wrap - 1 BY <1>0, <1>1 DEF Depth
    <3> QED BY <1>0, <3>1, <3>2
  <2> QED BY <2>2, <2>3, <2>5, <2>6 DEF Depth
<1>3. head % SlotCount = (tail + Depth) % SlotCount /\ head % SlotCount \in Slots
  <2>1. tail + Depth \in Int BY <1>0, <1>1
  <2>2. ((tail + Depth) % Wrap) % SlotCount = (tail + Depth) % SlotCount
    BY <2>1, CounterPlace, Zenon
  <2>3. head = (tail + Depth) % Wrap BY CounterDistance DEF Depth, TypeOK
  <2> QED BY <1>0, <2>2, <2>3, CounterPlace
<1>4. ASSUME NEW i \in 1..(Depth + 1)
      PROVE  WaitingSlot(i)' = queue'[(tail + i - 1) % SlotCount]
  <2>1. tail + i - 1 \in Int BY <1>0, <1>1
  <2>2. ((tail + i - 1) % Wrap) % SlotCount = (tail + i - 1) % SlotCount
    BY <2>1, CounterPlace, Zenon
  <2> QED BY <2>2 DEF WaitingSlot
<1>5. ASSUME NEW i \in 1..Depth
      PROVE  (tail + i - 1) % SlotCount # head % SlotCount
             /\ (tail + i - 1) % SlotCount \in Slots
  <2>1. tail + i - 1 \in Int /\ Depth - (i - 1) \in 1..(SlotCount - 1)
        /\ (tail + i - 1) + (Depth - (i - 1)) = tail + Depth
    BY <1>0, <1>1
  <2>2. (tail + i - 1) % SlotCount # head % SlotCount BY <1>0, <1>3, <2>1, ModApart
  <2> QED BY <2>1, <2>2, CounterPlace
<1>6. ASSUME NEW i \in 1..Depth PROVE WaitingSlot(i)' = WaitingSlot(i)
  <2>1. WaitingSlot(i) = queue[(tail + i - 1) % SlotCount] BY <1>1, WaitingFacts
  <2>2. WaitingSlot(i)' = queue'[(tail + i - 1) % SlotCount] BY <1>1, <1>4
  <2> QED BY <1>3, <1>5, <2>1, <2>2 DEF TypeOK
<1>7. ASSUME NEW i \in 1..(Depth + 1), i = Depth + 1 PROVE WaitingSlot(i)' = current
  <2>1. tail + i - 1 = tail + Depth BY <1>0, <1>1, <1>7
  <2> QED BY <1>3, <1>4, <2>1 DEF TypeOK
<1>8. \A i \in 1..(Depth + 1) : i = Depth + 1 \/ i \in 1..Depth BY <1>1
<1> QED BY <1>2, <1>6, <1>7, <1>8

\* camera_stream_get() takes the first of the ones that wait.
LEMMA WaitingTake ==
    ASSUME WrapsEvenly, TypeOK, Depth > 0,
           tail' = (tail + 1) % Wrap, UNCHANGED <<queue, head>>
    PROVE  /\ Depth' = Depth - 1
           /\ \A i \in 1..(Depth - 1) : WaitingSlot(i)' = WaitingSlot(i + 1)
<1>0. /\ Wrap \in Int /\ Wrap > 0 /\ SlotCount \in Int /\ SlotCount > 0
      /\ head \in Int /\ tail \in Int /\ tail + 1 \in Int /\ head - tail \in Int
  BY StreamAssumption DEF TypeOK
<1>1. Depth \in 1..(Wrap - 1) BY <1>0, WaitingFacts
<1>2. Depth' = Depth - 1
  <2>1. (head - ((tail + 1) % Wrap)) % Wrap = (head - (tail + 1)) % Wrap
    BY <1>0, ModFirst, ZenonT(60)
  <2>2. head - (tail + 1) = (head - tail) - 1 BY <1>0
  <2>3. ((head - tail) - 1) % Wrap = ((head - tail) % Wrap) - 1
    <3>1. \A x \in Int : x % Wrap > 0 => (x - 1) % Wrap = (x % Wrap) - 1 BY <1>0, ModNext
    <3> QED BY <1>0, <1>1, <3>1 DEF Depth
  <2> QED BY <2>1, <2>2, <2>3 DEF Depth
<1>3. ASSUME NEW i \in 1..(Depth - 1) PROVE WaitingSlot(i)' = WaitingSlot(i + 1)
  <2>1. /\ i - 1 \in Int /\ (tail + 1) % Wrap \in Int /\ (tail + 1) + (i - 1) = tail + (i + 1) - 1
        /\ tail' + i - 1 = ((tail + 1) % Wrap) + (i - 1)
    <3>1. (tail + 1) % Wrap \in Int BY <1>0, ModRange
    <3> QED BY <1>0, <1>1, <3>1
  <2>2. (((tail + 1) % Wrap) + (i - 1)) % Wrap = ((tail + 1) + (i - 1)) % Wrap
    BY <1>0, <2>1, ModFirst, ZenonT(60)
  <2>3. (tail' + i - 1) % Wrap = (tail + (i + 1) - 1) % Wrap BY <2>1, <2>2, Zenon
  <2> QED BY <2>3, Zenon DEF WaitingSlot
<1> QED BY <1>2, <1>3
\* Frames that wait, frames that are held and the slot being filled are in
\* different slots, so they are no more than the slots; a free slot makes one less.
LEMMA SlotsCounted ==
    ASSUME WrapsEvenly, TypeOK, Apart
    PROVE  /\ IsFiniteSet(HeldSlots) /\ Cardinality(HeldSlots) \in Nat
           /\ Depth + Cardinality(HeldSlots) < SlotCount
           /\ \A s \in Slots : ~busy[s] => Depth + Cardinality(HeldSlots) < SlotCount - 1
<1> DEFINE f == [i \in 1..Depth |-> WaitingSlot(i)]
           U == WaitingSlots \cup HeldSlots
<1>1. Depth \in Nat /\ \A i \in 1..Depth : WaitingSlot(i) \in Slots BY WaitingFacts, StreamAssumption
<1>2. IsFiniteSet(Slots) /\ Cardinality(Slots) = SlotCount
  BY FS_Interval, StreamAssumption DEF Slots
<1>3. HeldSlots \subseteq Slots BY DEF HeldSlots
<1>4. WaitingSlots \subseteq Slots BY <1>1 DEF WaitingSlots
<1>5. IsFiniteSet(WaitingSlots) /\ Cardinality(WaitingSlots) = Depth
  <2>1. f \in Bijection(1..Depth, WaitingSlots)
    BY DEF Apart, WaitingSlots, Bijection, Injection, Surjection, IsInjective
  <2>2. ExistsBijection(1..Depth, WaitingSlots) BY <2>1 DEF ExistsBijection
  <2>3. IsFiniteSet(1..Depth) /\ Cardinality(1..Depth) = Depth BY <1>1, FS_Interval
  <2> QED BY <2>2, <2>3, FS_Bijection
<1>6. IsFiniteSet(HeldSlots) /\ Cardinality(HeldSlots) \in Nat
  BY <1>2, <1>3, FS_Subset, FS_CardinalityType
<1>7. WaitingSlots \cap HeldSlots = {} BY DEF Apart, WaitingSlots
<1>8. IsFiniteSet(U) /\ Cardinality(U) = Depth + Cardinality(HeldSlots)
  BY <1>1, <1>5, <1>6, <1>7, FS_Union, FS_EmptySet
<1>9. current \in Slots \ U /\ U \subseteq Slots BY <1>3, <1>4 DEF Apart, WaitingSlots, TypeOK
<1>10. \A s \in Slots : ~busy[s] => s \notin U \cup {current} BY DEF Apart, WaitingSlots
<1> HIDE DEF U
<1>11. IsFiniteSet(U \cup {current}) /\ Cardinality(U \cup {current}) = Cardinality(U) + 1
  BY <1>8, <1>9, FS_AddElement
<1>12. Cardinality(U) + 1 <= SlotCount
  <2>1. U \cup {current} \in SUBSET Slots BY <1>9
  <2> QED BY <1>2, <1>11, <2>1, FS_Subset
<1>13. ASSUME NEW s \in Slots, ~busy[s] PROVE Cardinality(U) + 2 <= SlotCount
  <2>1. (U \cup {current}) \cup {s} \in SUBSET Slots BY <1>9
  <2>2. Cardinality((U \cup {current}) \cup {s}) = Cardinality(U \cup {current}) + 1
    BY <1>10, <1>11, <1>13, FS_AddElement
  <2>3. Cardinality((U \cup {current}) \cup {s}) <= SlotCount BY <1>2, <2>1, FS_Subset
  <2> QED BY <1>1, <1>6, <1>8, <1>11, <2>2, <2>3
<1>14. Depth + Cardinality(HeldSlots) + 1 <= SlotCount BY <1>8, <1>12
<1>15. \A s \in Slots : ~busy[s] => Depth + Cardinality(HeldSlots) + 2 <= SlotCount
  BY <1>8, <1>13
<1> QED BY <1>1, <1>6, <1>14, <1>15, StreamAssumption

-----------------------------------------------------------------------------
(* The invariant.                                                          *)

\* The states the driver starts in satisfy the invariant.
LEMMA StreamInvInit == Init => StreamInv
<1> SUFFICES ASSUME Init PROVE StreamInv
  OBVIOUS
<1>1. 0 \in Slots /\ 0 \in 0..(Wrap - 1) BY StreamAssumption DEF Slots
<1>2. TypeOK
  <2>1. busy \in [Slots -> BOOLEAN] BY Zenon DEF Init
  <2>2. found \in Frame BY <1>1 DEF Init, Frame
  <2>3. size \in [Slots -> Frames \cup {Junk}] /\ queue \in [Slots -> Slots] BY <1>1 DEF Init
  <2>4. mem \in [Slots -> Frames \cup {Junk}] /\ held \in [Slots -> Frames \cup {Junk}]
    BY DEF Init
  <2>5. sensor \in BOOLEAN /\ active \in BOOLEAN /\ armed \in BOOLEAN BY Zenon DEF Init
  <2>6. current \in Slots /\ dma \in Slots \cup {Off} /\ dropped \in 0..1 BY <1>1 DEF Init
  <2>7. head \in 0..(Wrap - 1) /\ tail \in 0..(Wrap - 1) BY <1>1 DEF Init
  <2>8. frame \in Frames /\ pc \in {"idle", "got", "stopping"} BY Zenon DEF Init
  <2> QED BY <2>1, <2>2, <2>3, <2>4, <2>5, <2>6, <2>7, <2>8, Zenon DEF TypeOK
<1>3. DmaPlace BY DEF Init, DmaPlace
<1>4. FramesIntact BY DEF Init, FramesIntact
<1>5. NothingOut BY DEF Init, NothingOut, HeldSlots
<1> QED BY <1>2, <1>3, <1>4, <1>5 DEF StreamInv, Init

\* The first free slot behind the current one is a free slot.
LEMMA NextFacts ==
    ASSUME TypeOK,
           NEW next, next = NextSlot({s \in Slots \ {current} : ~busy[s]}), next # {},
           NEW to, to = CHOOSE s \in next : TRUE
    PROVE  to \in Slots \ {current} /\ ~busy[to]
<1>1. to \in next OBVIOUS
<1> QED BY <1>1 DEF NextSlot

\* The interrupt moves on only to a slot that is free, so the frame it queues and
\* those that wait or are held stay out of the DMA's reach.
LEMMA QueueStep ==
    ASSUME WrapsEvenly, StreamInv, active, armed, UNCHANGED <<sensor, active, tail, caller, armed>>,
           frame' \in Frames, CloseSlot,
           Queued(NextSlot({s \in Slots \ {current} : ~busy[s]}))
    PROVE  /\ StreamInv' /\ Depth' = Depth + 1 /\ HeldSlots' = HeldSlots
           /\ Depth + Cardinality(HeldSlots) < SlotCount - 1
           /\ \A i \in 1..Depth : WaitingSlot(i)' = WaitingSlot(i) /\ mem'[WaitingSlot(i)] = mem[WaitingSlot(i)]
           /\ \A i \in 1..(Depth + 1) : i = Depth + 1 => mem'[WaitingSlot(i)'] = frame
<1>0. TypeOK /\ DmaPlace /\ Apart /\ InHand /\ FramesIntact BY DEF StreamInv
<1> DEFINE next == NextSlot({s \in Slots \ {current} : ~busy[s]})
           to == CHOOSE s \in next : TRUE
<1>1. next # {} /\ mem[current] = frame BY DEF Queued
<1>2. to \in Slots \ {current} /\ ~busy[to] BY <1>0, <1>1, NextFacts
<1>3. /\ size' = [size EXCEPT ![current] = frame]
      /\ queue' = [queue EXCEPT ![head % SlotCount] = current]
      /\ head' = (head + 1) % Wrap
      /\ busy' = [busy EXCEPT ![to] = TRUE]
      /\ current' = to /\ dropped' = dropped
      /\ dma' = to /\ mem' = [mem EXCEPT ![to] = Junk]
  BY <1>1 DEF CloseSlot, Arm
<1> HIDE DEF next, to
<1>4. Depth + Cardinality(HeldSlots) < SlotCount - 1 /\ Cardinality(HeldSlots) \in Nat
  BY <1>0, <1>2, SlotsCounted
<1>5. Depth \in 0..(Wrap - 1) /\ \A i \in Int : WaitingSlot(i) \in Slots BY <1>0, WaitingFacts
<1>6. Depth < SlotCount - 1 BY <1>4, <1>5, StreamAssumption
<1>7. /\ Depth' = Depth + 1
      /\ \A i \in 1..(Depth + 1) :
             WaitingSlot(i)' = IF i = Depth + 1 THEN current ELSE WaitingSlot(i)
  BY <1>0, <1>3, <1>6, WaitingAppend
<1>8. /\ \A i \in 1..(Depth + 1) : i = Depth + 1 => WaitingSlot(i)' = current
      /\ \A i \in 1..Depth : WaitingSlot(i)' = WaitingSlot(i)
      /\ \A i \in 1..(Depth + 1) : i = Depth + 1 \/ i \in 1..Depth
  BY <1>5, <1>7
<1>9. HeldSlots' = HeldSlots /\ UNCHANGED <<pc, found, held>> BY DEF HeldSlots, caller
<1>10. TypeOK'
  <2>1. head' \in 0..(Wrap - 1)
    <3>1. head + 1 \in Int /\ Wrap \in Int /\ Wrap > 0 BY <1>0, StreamAssumption DEF TypeOK
    <3> QED BY <1>3, <3>1, ModRange
  <2>2. queue' \in [Slots -> Slots] /\ size' \in [Slots -> Frames \cup {Junk}] BY <1>0, <1>3 DEF TypeOK
  <2>3. busy' \in [Slots -> BOOLEAN] BY <1>0, <1>3, Zenon DEF TypeOK
  <2>4. mem' \in [Slots -> Frames \cup {Junk}] BY <1>0, <1>3 DEF TypeOK
  <2> QED BY <1>0, <1>2, <1>3, <1>9, <2>1, <2>2, <2>3, <2>4 DEF TypeOK
<1>11. DmaPlace' BY <1>0, <1>3, <1>9 DEF DmaPlace
<1>12. /\ \A s \in Slots : busy[s] => s # to /\ busy'[s] /\ mem'[s] = mem[s]
       /\ busy'[to]
       /\ \A s \in Slots \ {current} : size'[s] = size[s]
       /\ size'[current] = frame
  BY <1>0, <1>2, <1>3 DEF TypeOK
<1>13. \A i \in 1..Depth : /\ WaitingSlot(i) \in Slots \ {current, to} /\ busy[WaitingSlot(i)]
                            /\ WaitingSlot(i) \notin HeldSlots
  BY <1>0, <1>5, <1>12 DEF Apart
<1>14. \A s \in HeldSlots : s \in Slots \ {current, to} /\ busy[s]
  BY <1>0, <1>12 DEF Apart, HeldSlots
<1>15. busy[current] /\ current \in Slots BY <1>0 DEF Apart, TypeOK
<1>16. Apart'
  <2>1. \A i \in 1..(Depth + 1) :
           /\ busy'[WaitingSlot(i)'] /\ WaitingSlot(i)' \notin HeldSlots \cup {to}
    BY <1>8, <1>12, <1>13, <1>14, <1>15
  <2>2. \A i, j \in 1..(Depth + 1) : WaitingSlot(i)' = WaitingSlot(j)' => i = j
    <3>1. \A i, j \in 1..Depth : WaitingSlot(i)' = WaitingSlot(j)' => i = j
      BY <1>0, <1>8 DEF Apart
    <3>2. \A i \in 1..Depth : WaitingSlot(i)' # current BY <1>8, <1>13
    <3> QED BY <1>8, <3>1, <3>2
  <2>3. \A s \in HeldSlots : busy'[s] /\ s # to BY <1>12, <1>14
  <2>4. Depth + 1 < SlotCount BY <1>5, <1>6, StreamAssumption
  <2> QED BY <1>3, <1>7, <1>9, <1>12, <2>1, <2>2, <2>3, <2>4 DEF Apart
<1>17. \A i \in 1..Depth : WaitingSlot(i)' = WaitingSlot(i) /\ mem'[WaitingSlot(i)] = mem[WaitingSlot(i)]
  BY <1>8, <1>12, <1>13
<1>18. \A i \in 1..(Depth + 1) : i = Depth + 1 => mem'[WaitingSlot(i)'] = frame
  BY <1>1, <1>8, <1>12, <1>15
<1>19. InHand'
  <2> SUFFICES ASSUME pc = "got" PROVE InHand'
    BY <1>9 DEF InHand
  <2>1. Depth > 0 /\ found.slot = WaitingSlot(1) /\ found.id = size[WaitingSlot(1)]
    BY <1>0 DEF InHand
  <2>2. 1 \in 1..Depth BY <1>5, <2>1
  <2>3. WaitingSlot(1)' = WaitingSlot(1) /\ size'[WaitingSlot(1)] = size[WaitingSlot(1)]
    BY <1>8, <1>12, <1>13, <2>2
  <2> QED BY <1>5, <1>7, <1>9, <2>1, <2>3 DEF InHand
<1>20. FramesIntact'
  <2>1. \A i \in 1..(Depth + 1) : mem'[WaitingSlot(i)'] \in Frames
                                   /\ mem'[WaitingSlot(i)'] = size'[WaitingSlot(i)']
    <3>1. ASSUME NEW i \in 1..Depth PROVE mem'[WaitingSlot(i)'] \in Frames
                                   /\ mem'[WaitingSlot(i)'] = size'[WaitingSlot(i)']
      BY <1>0, <1>12, <1>13, <1>17 DEF FramesIntact
    <3>2. ASSUME NEW i \in 1..(Depth + 1), i = Depth + 1 PROVE mem'[WaitingSlot(i)'] \in Frames
                                   /\ mem'[WaitingSlot(i)'] = size'[WaitingSlot(i)']
      BY <1>0, <1>8, <1>12, <1>18, <3>2 DEF TypeOK
    <3> QED BY <1>8, <3>1, <3>2
  <2>2. \A s \in HeldSlots : mem'[s] = held[s] BY <1>0, <1>12, <1>14 DEF FramesIntact
  <2>3. pc = "got" => mem'[found.slot] = found.id
    <3> SUFFICES ASSUME pc = "got" PROVE mem'[found.slot] = found.id
      OBVIOUS
    <3>1. Depth > 0 /\ found.slot = WaitingSlot(1) BY <1>0 DEF InHand
    <3>2. 1 \in 1..Depth BY <1>5, <3>1
    <3> QED BY <1>0, <1>17, <3>1, <3>2 DEF FramesIntact
  <2> QED BY <1>7, <1>9, <2>1, <2>2, <2>3 DEF FramesIntact
<1> QED
  BY <1>4, <1>7, <1>9, <1>10, <1>11, <1>16, <1>17, <1>18, <1>19, <1>20 DEF StreamInv, NothingOut
\* A frame that is dropped, the first boundary of a stream, the end of a frame
\* outside a stream and the DMA's own writes move no frame: while a stream is
\* active, at most the current slot changes.
LEMMA SameSlotStep ==
    ASSUME WrapsEvenly, StreamInv, frame' \in Frames,
           UNCHANGED <<sensor, active, tail, caller, current, busy, size, queue, head>>,
           dropped' \in 0..1, armed' \in BOOLEAN,
           \/ UNCHANGED <<dma, mem, armed>>
           \/ active /\ armed' /\ Arm(current)
           \/ UNCHANGED <<dma, armed>> /\ dma # Off /\ mem' = [mem EXCEPT ![dma] = frame]
    PROVE  /\ StreamInv' /\ Depth' = Depth /\ HeldSlots' = HeldSlots
           /\ \A i \in 1..Depth : WaitingSlot(i)' = WaitingSlot(i)
           /\ active => \A i \in 1..Depth : mem'[WaitingSlot(i)] = mem[WaitingSlot(i)]
<1>0. TypeOK /\ DmaPlace /\ FramesIntact BY DEF StreamInv
<1>1. Depth' = Depth /\ \A i \in Int : WaitingSlot(i)' = WaitingSlot(i) BY WaitingSame
<1>2. Depth \in 0..(Wrap - 1) /\ \A i \in Int : WaitingSlot(i) \in Slots BY <1>0, WaitingFacts
<1>3. HeldSlots' = HeldSlots /\ UNCHANGED <<pc, found, held>> BY DEF HeldSlots, caller
<1>4. /\ mem' \in [Slots -> Frames \cup {Junk}]
      /\ active => \A s \in Slots \ {current} : mem'[s] = mem[s]
  BY <1>0 DEF Arm, TypeOK, DmaPlace
<1>5. TypeOK'
  <2>1. dma' \in Slots \cup {Off} BY <1>0 DEF Arm, TypeOK
  <2> QED BY <1>0, <1>3, <1>4, <2>1 DEF TypeOK
<1>6. DmaPlace' BY <1>0, <1>3 DEF DmaPlace, Arm
<1>7. NothingOut' BY <1>3 DEF StreamInv, NothingOut
<1>8. active => \A i \in 1..Depth : WaitingSlot(i) \in Slots \ {current}
  BY <1>2 DEF StreamInv, Apart
<1>9. active => \A s \in HeldSlots : s \in Slots \ {current} BY DEF StreamInv, Apart, HeldSlots
<1>10. (active => Apart /\ InHand)'
  BY <1>1, <1>2, <1>3 DEF StreamInv, Apart, InHand
<1>11. FramesIntact'
  <2> SUFFICES ASSUME active PROVE FramesIntact'
    BY DEF FramesIntact
  <2>1. pc = "got" => found.slot \in Slots \ {current} BY <1>2, <1>8 DEF StreamInv, InHand
  <2> QED BY <1>0, <1>1, <1>2, <1>3, <1>4, <1>8, <1>9, <2>1 DEF FramesIntact
<1>12. active => \A i \in 1..Depth : mem'[WaitingSlot(i)] = mem[WaitingSlot(i)] BY <1>4, <1>8
<1> QED BY <1>1, <1>2, <1>3, <1>5, <1>6, <1>7, <1>10, <1>11, <1>12 DEF StreamInv

\* What end_frame_handler() does: the slot is queued, or no frame moves.
LEMMA EndFrameCases ==
    ASSUME TypeOK, EndFrame
    PROVE  /\ frame' \in Frames /\ UNCHANGED <<sensor, active, tail, caller>>
           /\ \/ /\ active /\ armed /\ armed' = armed /\ CloseSlot
                 /\ Queued(NextSlot({s \in Slots \ {current} : ~busy[s]}))
              \/ /\ UNCHANGED <<current, busy, size, queue, head>>
                 /\ dropped' \in 0..1 /\ armed' \in BOOLEAN
                 /\ \/ UNCHANGED <<dma, mem, armed>>
                    \/ active /\ armed' /\ Arm(current)
<1>1. CASE ~active BY <1>1 DEF EndFrame, ring, TypeOK
<1>2. CASE active /\ ~armed BY <1>2 DEF EndFrame, FirstArm, ring, TypeOK
<1>3. CASE active /\ armed
  <2>0. CloseSlot /\ armed' = armed /\ frame' \in Frames /\ UNCHANGED <<sensor, active, tail, caller>>
    BY <1>3 DEF EndFrame
  <2>1. CASE ~Queued(NextSlot({s \in Slots \ {current} : ~busy[s]}))
    <3>1. /\ dropped' = (dropped + 1) % 2 /\ Arm(current)
          /\ UNCHANGED <<size, queue, head, busy, current>>
      BY <2>0, <2>1 DEF CloseSlot
    <3>2. dropped' \in 0..1 BY <3>1 DEF TypeOK
    <3> QED BY <1>3, <2>0, <3>1, <3>2
  <2>2. CASE Queued(NextSlot({s \in Slots \ {current} : ~busy[s]})) BY <1>3, <2>0, <2>2
  <2> QED BY <2>1, <2>2
<1> QED BY <1>1, <1>2, <1>3

\* The end-of-frame interrupt keeps the invariant.
LEMMA EndFrameStep == ASSUME WrapsEvenly, StreamInv, EndFrame PROVE StreamInv'
BY EndFrameCases, QueueStep, SameSlotStep DEF StreamInv

\* camera_stream_start(): the interrupt sees an empty queue.
LEMMA StartStreamStep ==
    ASSUME WrapsEvenly, StreamInv, StartStream
    PROVE  StreamInv' /\ Depth' = 0 /\ HeldSlots' = {}
<1>0. TypeOK /\ 0 \in Slots /\ 0 \in 0..(Wrap - 1) BY StreamAssumption DEF StreamInv, Slots
<1>1. Depth' = 0 BY StreamAssumption DEF StartStream, Depth
<1>2. HeldSlots' = {} BY DEF StartStream, StreamInv, NothingOut, HeldSlots, caller
<1>3. TypeOK'
  <2>1. busy' \in [Slots -> BOOLEAN] BY Zenon DEF StartStream
  <2>2. size' \in [Slots -> Frames \cup {Junk}] /\ queue' \in [Slots -> Slots]
    BY <1>0 DEF StartStream
  <2>3. armed' \in BOOLEAN /\ active' \in BOOLEAN BY Zenon DEF StartStream
  <2>4. current' \in Slots /\ dma' \in Slots \cup {Off} /\ dropped' \in 0..1
        /\ head' \in 0..(Wrap - 1) /\ tail' \in 0..(Wrap - 1)
    BY <1>0 DEF StartStream
  <2>5. UNCHANGED <<sensor, mem, frame, pc, found, held>> BY DEF StartStream, caller
  <2> QED BY <1>0, <2>1, <2>2, <2>3, <2>4, <2>5 DEF TypeOK
<1>4. DmaPlace' BY DEF StartStream, DmaPlace, caller
<1>5. busy'[current'] BY <1>0 DEF StartStream
<1>6. Apart' BY <1>1, <1>2, <1>5, StreamAssumption DEF Apart
<1>7. pc' = "idle" BY DEF StartStream, caller
<1>8. InHand' /\ NothingOut' BY <1>2, <1>7 DEF InHand, NothingOut
<1>9. FramesIntact' BY <1>1, <1>2, <1>7 DEF FramesIntact
<1> QED BY <1>1, <1>2, <1>3, <1>4, <1>6, <1>8, <1>9 DEF StreamInv

\* camera_stream_stop(), camera_start() and camera_stop() end the stream.
LEMMA StopStep ==
    ASSUME WrapsEvenly, StreamInv,
           StopStream \/ StopDma \/ StartCamera \/ StopCamera
    PROVE  StreamInv' /\ ~active'
<1>0. TypeOK /\ DmaPlace BY DEF StreamInv
<1>1. ~active' /\ active' \in BOOLEAN
  <2>1. CASE StopDma BY <1>0, <2>1, Zenon DEF StopDma, DmaPlace, TypeOK
  <2>2. CASE StopStream BY <2>2, Zenon DEF StopStream
  <2>3. CASE StartCamera \/ StopCamera BY <2>3, Zenon DEF StartCamera, StopCamera, ShutDown
  <2> QED BY <2>1, <2>2, <2>3
<1>2. held' \in [Slots -> Frames \cup {Junk}] /\ HeldSlots' = {}
  BY <1>0 DEF StopStream, StopDma, StartCamera, StopCamera, ShutDown, DmaPlace, TypeOK, HeldSlots,
              StreamInv, NothingOut
<1>3. TypeOK'
  <2>1. pc' \in {"idle", "got", "stopping"} /\ dma' \in Slots \cup {Off}
    BY <1>0 DEF StopStream, StopDma, StartCamera, StopCamera, ShutDown, TypeOK
  <2>2. sensor' \in BOOLEAN
    BY <1>0, Zenon DEF StopStream, StopDma, StartCamera, StopCamera, ShutDown, TypeOK
  <2>3. UNCHANGED <<armed, current, ring, tail, mem, frame, found>>
    BY DEF StopStream, StopDma, StartCamera, StopCamera, ShutDown
  <2> QED BY <1>0, <1>1, <1>2, <2>1, <2>2, <2>3 DEF TypeOK, ring
<1>4. DmaPlace' BY <1>0, <1>1 DEF DmaPlace, StopStream, StopDma, StartCamera, StopCamera, ShutDown
<1> QED BY <1>1, <1>2, <1>3, <1>4 DEF StreamInv, NothingOut, FramesIntact
\* camera_stream_get() reads the slot and the size of the oldest frame.
LEMMA GetReadStep ==
    ASSUME WrapsEvenly, StreamInv, GetRead
    PROVE  /\ StreamInv' /\ Depth' = Depth /\ HeldSlots' = HeldSlots
           /\ \A i \in 1..Depth : WaitingSlot(i)' = WaitingSlot(i)
<1>0. TypeOK /\ DmaPlace /\ NothingOut /\ Apart /\ FramesIntact BY DEF StreamInv, GetRead
<1>1. Depth' = Depth /\ \A i \in Int : WaitingSlot(i)' = WaitingSlot(i)
  BY WaitingSame DEF GetRead, ring
<1>2. /\ Depth \in 0..(Wrap - 1) /\ Depth # 0
      /\ \A i \in Int : WaitingSlot(i) \in Slots
  BY <1>0, WaitingFacts DEF GetRead
<1>3. UNCHANGED <<sensor, active, armed, current, busy, size, queue, head, dropped, tail, dma, mem, frame, held>>
      /\ active /\ pc' = "got"
  BY DEF GetRead, ring
<1>4. HeldSlots' = HeldSlots BY <1>3 DEF HeldSlots
<1>5. WaitingSlot(1) = queue[tail % SlotCount]
  <2>1. tail \in Int /\ tail + 1 - 1 = tail /\ 1 \in Int BY <1>0 DEF TypeOK
  <2>2. WaitingSlot(1) = queue[(tail + 1 - 1) % SlotCount] BY <1>0, <2>1, WaitingFacts
  <2> QED BY <2>1, <2>2
<1>6. found' = [slot |-> WaitingSlot(1), id |-> size[WaitingSlot(1)]] BY <1>5 DEF GetRead
<1>7. WaitingSlot(1) \in Slots /\ 1 \in 1..Depth BY <1>2
<1>8. found' \in Frame /\ found'.slot = WaitingSlot(1) /\ found'.id = size[WaitingSlot(1)]
  <2>1. size[WaitingSlot(1)] \in Frames \cup {Junk} BY <1>0, <1>7 DEF TypeOK
  <2> QED BY <1>6, <1>7, <2>1 DEF Frame
<1>9. TypeOK' BY <1>0, <1>3, <1>8 DEF TypeOK
<1>10. DmaPlace' /\ NothingOut' BY <1>0, <1>3 DEF DmaPlace, NothingOut
<1>11. Apart' BY <1>0, <1>1, <1>2, <1>3, <1>4 DEF Apart
<1>12. InHand' BY <1>1, <1>2, <1>3, <1>8 DEF InHand
<1>13. FramesIntact'
  <2>1. mem[WaitingSlot(1)] = size[WaitingSlot(1)] BY <1>0, <1>3, <1>7 DEF FramesIntact
  <2> QED BY <1>0, <1>1, <1>2, <1>3, <1>4, <1>8, <2>1 DEF FramesIntact
<1> QED BY <1>1, <1>2, <1>4, <1>9, <1>10, <1>11, <1>12, <1>13 DEF StreamInv

\* camera_stream_get() counts the frame as taken; it is the caller's from now on.
LEMMA GetDoneStep ==
    ASSUME WrapsEvenly, StreamInv, GetDone
    PROVE  /\ StreamInv' /\ active /\ UNCHANGED <<active, mem>> /\ Depth > 0 /\ Depth' = Depth - 1
           /\ \A i \in 1..(Depth - 1) : WaitingSlot(i)' = WaitingSlot(i + 1)
           /\ found.slot \in Slots \ HeldSlots /\ HeldSlots' = HeldSlots \cup {found.slot}
           /\ \A s \in HeldSlots : held'[s] = held[s]
           /\ held'[found.slot] = mem[WaitingSlot(1)]
<1>1. active BY DEF StreamInv, DmaPlace, GetDone
<1>0. TypeOK /\ DmaPlace /\ Apart /\ InHand /\ FramesIntact BY <1>1 DEF StreamInv
<1>2. UNCHANGED <<sensor, active, armed, current, busy, size, queue, head, dropped, dma, mem, frame, found>>
      /\ pc' = "idle" /\ tail' = (tail + 1) % Wrap
      /\ held' = [held EXCEPT ![found.slot] = found.id]
  BY DEF GetDone, ring
<1>3. /\ Depth > 0 /\ Depth \in 0..(Wrap - 1) /\ \A i \in Int : WaitingSlot(i) \in Slots
      /\ found.slot = WaitingSlot(1) /\ found.id = size[WaitingSlot(1)]
  BY <1>0, WaitingFacts DEF InHand, GetDone
<1>4. 1 \in 1..Depth /\ \A i \in 1..(Depth - 1) : i \in 1..Depth /\ i + 1 \in 1..Depth /\ i + 1 # 1
  BY <1>3
<1>5. Depth' = Depth - 1 /\ \A i \in 1..(Depth - 1) : WaitingSlot(i)' = WaitingSlot(i + 1)
  BY <1>0, <1>2, <1>3, WaitingTake
<1>6. /\ found.slot \in Slots \ HeldSlots /\ busy[found.slot] /\ found.slot # current
      /\ found.id = mem[WaitingSlot(1)] /\ found.id \in Frames
  BY <1>0, <1>1, <1>3, <1>4 DEF Apart, FramesIntact
<1>7. /\ held' \in [Slots -> Frames \cup {Junk}] /\ held'[found.slot] = found.id
      /\ \A s \in Slots \ {found.slot} : held'[s] = held[s]
  BY <1>0, <1>2, <1>6 DEF TypeOK
<1>8. HeldSlots' = HeldSlots \cup {found.slot} BY <1>6, <1>7, StreamAssumption DEF HeldSlots
<1>9. TypeOK'
  <2>1. tail' \in 0..(Wrap - 1)
    <3>1. tail + 1 \in Int /\ Wrap \in Int /\ Wrap > 0 BY <1>0, StreamAssumption DEF TypeOK
    <3> QED BY <1>2, <3>1, ModRange
  <2> QED BY <1>0, <1>2, <1>7, <2>1 DEF TypeOK
<1>10. DmaPlace' /\ NothingOut' BY <1>0, <1>1, <1>2 DEF DmaPlace, NothingOut
<1>11. Apart'
  <2>1. Depth - 1 < SlotCount BY <1>0, <1>3, StreamAssumption DEF Apart
  <2>2. \A i, j \in 1..(Depth - 1) : WaitingSlot(i + 1) = WaitingSlot(j + 1) => i = j
    <3>1. \A i, j \in 1..(Depth - 1) : i + 1 = j + 1 => i = j BY <1>3
    <3> QED BY <1>0, <1>4, <3>1 DEF Apart
  <2>3. \A i \in 1..(Depth - 1) : /\ busy[WaitingSlot(i + 1)]
                                   /\ WaitingSlot(i + 1) \notin HeldSlots \cup {current, found.slot}
    BY <1>0, <1>3, <1>4 DEF Apart
  <2>4. \A s \in HeldSlots' : busy[s] /\ s # current BY <1>0, <1>6, <1>8 DEF Apart
  <2> QED BY <1>0, <1>2, <1>5, <1>8, <2>1, <2>2, <2>3, <2>4 DEF Apart
<1>12. InHand' BY <1>2 DEF InHand
<1>13. \A s \in HeldSlots : held'[s] = held[s] BY <1>6, <1>7 DEF HeldSlots
<1>14. FramesIntact'
  <2>1. \A i \in 1..(Depth - 1) : mem[WaitingSlot(i + 1)] \in Frames
                                   /\ mem[WaitingSlot(i + 1)] = size[WaitingSlot(i + 1)]
    BY <1>0, <1>1, <1>4 DEF FramesIntact
  <2>2. \A s \in HeldSlots' : mem[s] = held'[s]
    BY <1>0, <1>1, <1>3, <1>6, <1>7, <1>8, <1>13 DEF FramesIntact
  <2> QED BY <1>2, <1>5, <2>1, <2>2 DEF FramesIntact
<1> QED BY <1>1, <1>2, <1>3, <1>5, <1>6, <1>7, <1>8, <1>9, <1>10, <1>11, <1>12, <1>13, <1>14 DEF StreamInv

\* camera_stream_release() frees a slot no waiting frame and no DMA is in.
LEMMA ReleaseStep ==
    ASSUME WrapsEvenly, StreamInv, NEW r \in Slots, Release(r)
    PROVE  /\ StreamInv' /\ active /\ UNCHANGED <<active, mem>> /\ Depth' = Depth
           /\ \A i \in 1..Depth : WaitingSlot(i)' = WaitingSlot(i)
           /\ r \in HeldSlots /\ HeldSlots' = HeldSlots \ {r}
           /\ \A s \in HeldSlots' : held'[s] = held[s]
<1>1. /\ UNCHANGED <<sensor, active, armed, current, size, queue, head, dropped, tail, dma, mem, frame, pc, found>>
      /\ active /\ pc = "idle" /\ held[r] # Junk
      /\ busy' = [busy EXCEPT ![r] = FALSE] /\ held' = [held EXCEPT ![r] = Junk]
  BY DEF Release
<1>0. TypeOK /\ DmaPlace /\ Apart /\ FramesIntact BY <1>1 DEF StreamInv
<1>2. Depth' = Depth /\ \A i \in Int : WaitingSlot(i)' = WaitingSlot(i) BY <1>1, WaitingSame
<1>3. Depth \in 0..(Wrap - 1) /\ \A i \in Int : WaitingSlot(i) \in Slots BY <1>0, WaitingFacts
<1>4. r \in HeldSlots BY <1>1 DEF HeldSlots
<1>5. /\ held' \in [Slots -> Frames \cup {Junk}] /\ held'[r] = Junk
      /\ \A s \in Slots \ {r} : held'[s] = held[s]
  BY <1>0, <1>1 DEF TypeOK
<1>6. HeldSlots' = HeldSlots \ {r} BY <1>5 DEF HeldSlots
<1>7. busy' \in [Slots -> BOOLEAN] /\ \A s \in Slots \ {r} : busy'[s] = busy[s]
  BY <1>0, <1>1, Zenon DEF TypeOK
<1>8. TypeOK' BY <1>0, <1>1, <1>5, <1>7 DEF TypeOK
<1>9. DmaPlace' /\ NothingOut' /\ InHand' BY <1>0, <1>1 DEF DmaPlace, NothingOut, InHand
<1>10. Apart'
  <2>1. \A i \in 1..Depth : WaitingSlot(i) \in Slots \ {r} BY <1>0, <1>3, <1>4 DEF Apart
  <2>2. current \in Slots \ {r} BY <1>0, <1>4 DEF Apart, TypeOK
  <2>3. \A s \in HeldSlots' : s \in Slots \ {r} BY <1>6 DEF HeldSlots
  <2> QED BY <1>0, <1>1, <1>2, <1>3, <1>6, <1>7, <2>1, <2>2, <2>3 DEF Apart
<1>11. \A s \in HeldSlots' : held'[s] = held[s] BY <1>5, <1>6 DEF HeldSlots
<1>12. FramesIntact' BY <1>0, <1>1, <1>2, <1>3, <1>6, <1>11 DEF FramesIntact
<1> QED BY <1>1, <1>2, <1>3, <1>4, <1>6, <1>8, <1>9, <1>10, <1>11, <1>12 DEF StreamInv

\* Every step keeps the invariant.
LEMMA StreamInvStep == ASSUME WrapsEvenly, StreamInv, [Next]_vars PROVE StreamInv'
<1>1. CASE DmaFills
  <2>1. /\ frame' \in Frames /\ dropped' \in 0..1 /\ armed' \in BOOLEAN
        /\ UNCHANGED <<sensor, active, tail, caller, current, busy, size, queue, head>>
        /\ UNCHANGED <<dma, armed>> /\ dma # Off /\ mem' = [mem EXCEPT ![dma] = frame]
    BY <1>1 DEF DmaFills, ring, StreamInv, TypeOK
  <2> QED BY <2>1, SameSlotStep
<1>2. CASE EndFrame BY <1>2, EndFrameStep
<1>3. CASE StartStream BY <1>3, StartStreamStep
<1>4. CASE StopStream \/ StopDma \/ StartCamera \/ StopCamera BY <1>4, StopStep
<1>5. CASE GetRead BY <1>5, GetReadStep
<1>6. CASE GetDone BY <1>6, GetDoneStep
<1>7. CASE \E s \in Slots : Release(s) BY <1>7, ReleaseStep
<1>8. CASE UNCHANGED vars
  BY <1>8, WaitingSame DEF vars, ring, caller, StreamInv, TypeOK, DmaPlace, NothingOut, Apart, InHand,
                           FramesIntact, HeldSlots, Depth, WaitingSlot
<1> QED BY <1>1, <1>2, <1>3, <1>4, <1>5, <1>6, <1>7, <1>8 DEF Next
-----------------------------------------------------------------------------
(* The theorems.                                                           *)

\* The invariant holds in every state of a stream whose counters wrap evenly.
LEMMA StreamInvHolds == ASSUME WrapsEvenly PROVE Spec => []StreamInv
<1>1. StreamInv /\ [Next]_vars => StreamInv' BY StreamInvStep
<1> QED BY <1>1, StreamInvInit, PTL DEF Spec

\* Whatever end-of-frame interrupts fall between the lines of camera_stream_get(),
\* _release() and _stop(), a frame that waits or is held stays whole in its slot.
THEOREM FramesStayWhole == ASSUME WrapsEvenly PROVE Spec => []FramesIntact
<1>1. StreamInv => FramesIntact BY DEF StreamInv
<1> QED BY <1>1, StreamInvHolds, PTL

\* No end-of-frame interrupt in the middle of camera_stream_stop() leaves the DMA
\* on when it returns.
THEOREM StoppedIsQuiet == ASSUME WrapsEvenly PROVE Spec => []QuietWhenStopped
<1>1. StreamInv => QuietWhenStopped BY DEF StreamInv, DmaPlace, QuietWhenStopped
<1> QED BY <1>1, StreamInvHolds, PTL

\* The frames that wait are a sequence.
LEMMA WaitingIsSeq ==
    ASSUME NEW n \in Nat, NEW Fr, NEW g \in [1..n -> Fr]
    PROVE  g \in Seq(Fr) /\ Len(g) = n
OBVIOUS

\* A step that moves no frame is none of the FIFO's.
LEMMA FifoSame ==
    ASSUME active, active', Depth' = Depth, HeldSlots' = HeldSlots, held' = held,
           \A i \in 1..Depth : WaitingSlot(i)' = WaitingSlot(i),
           \A i \in 1..Depth : mem'[WaitingSlot(i)] = mem[WaitingSlot(i)]
    PROVE  FifoWaiting' = FifoWaiting /\ FifoTaken' = FifoTaken
<1>1. \A i \in 1..Depth : mem'[WaitingSlot(i)'] = mem[WaitingSlot(i)] OBVIOUS
<1>2. FifoWaiting' = FifoWaiting BY <1>1 DEF FifoWaiting
<1>3. FifoTaken' = FifoTaken BY DEF FifoTaken
<1> QED BY <1>2, <1>3

\* Queuing a slot makes its frame the last one; it fits.
LEMMA FifoArrive ==
    ASSUME WrapsEvenly, StreamInv, active, armed, UNCHANGED <<sensor, active, tail, caller, armed>>,
           frame' \in Frames, CloseSlot,
           Queued(NextSlot({s \in Slots \ {current} : ~busy[s]}))
    PROVE  frame \in Frames /\ Fifo!Arrive(frame)
<1>1. /\ Depth' = Depth + 1 /\ HeldSlots' = HeldSlots /\ held' = held /\ active'
      /\ Depth + Cardinality(HeldSlots) < SlotCount - 1
      /\ \A i \in 1..Depth : WaitingSlot(i)' = WaitingSlot(i) /\ mem'[WaitingSlot(i)] = mem[WaitingSlot(i)]
      /\ \A i \in 1..(Depth + 1) : i = Depth + 1 => mem'[WaitingSlot(i)'] = frame
  BY QueueStep DEF caller
<1>2. frame \in Frames /\ Depth \in Nat
      /\ \A i \in 1..Depth : mem[WaitingSlot(i)] \in Frames
  BY WaitingFacts DEF StreamInv, TypeOK, FramesIntact
<1> DEFINE p == [i \in 1..Depth |-> mem[WaitingSlot(i)]]
           q == [i \in 1..(Depth + 1) |-> mem'[WaitingSlot(i)']]
<1>3. FifoWaiting = p /\ FifoWaiting' = q BY <1>1 DEF FifoWaiting
<1>4. p \in Seq(Frames) /\ Len(p) = Depth
  <2>1. p \in [1..Depth -> Frames] BY <1>2
  <2> HIDE DEF p
  <2> QED BY <1>2, <2>1, WaitingIsSeq
<1>5. \A i \in 1..Depth : i \in 1..(Depth + 1) /\ q[i] = p[i] BY <1>1, <1>2
<1>6. Depth + 1 \in 1..(Depth + 1) /\ q[Depth + 1] = frame BY <1>1, <1>2
<1>7. \A i \in 1..(Depth + 1) : i = Depth + 1 \/ i \in 1..Depth BY <1>2
<1>8. q \in Seq(Frames) /\ Len(q) = Depth + 1
  <2>1. \A i \in 1..Depth : p[i] \in Frames BY <1>2
  <2>2. \A i \in 1..(Depth + 1) : q[i] \in Frames BY <1>2, <1>5, <1>6, <1>7, <2>1
  <2>3. q \in [1..(Depth + 1) -> Frames] BY <2>2
  <2>4. Depth + 1 \in Nat BY <1>2
  <2> HIDE DEF q
  <2> QED BY <2>3, <2>4, WaitingIsSeq
<1> HIDE DEF p, q
<1>9. q = Append(p, frame)
  <2>1. /\ Append(p, frame) \in Seq(Frames) /\ Len(Append(p, frame)) = Depth + 1
        /\ \A i \in 1..Depth : Append(p, frame)[i] = p[i]
        /\ Append(p, frame)[Depth + 1] = frame
    BY <1>2, <1>4
  <2>2. \A i \in 1..(Depth + 1) : q[i] = Append(p, frame)[i] BY <1>5, <1>6, <1>7, <2>1
  <2> QED BY <1>8, <2>1, <2>2, SeqEqual
<1>10. FifoTaken' = FifoTaken /\ DOMAIN FifoTaken = HeldSlots BY <1>1 DEF FifoTaken
<1>11. Len(FifoWaiting) + Cardinality(DOMAIN FifoTaken) < SlotCount - 1 BY <1>1, <1>3, <1>4, <1>10
<1>12. FifoWaiting' = Append(FifoWaiting, frame) BY <1>3, <1>9
<1>13. Fifo!Cardinality(DOMAIN FifoTaken) = Cardinality(DOMAIN FifoTaken)
  BY Zenon DEF Fifo!Cardinality, Cardinality
<1> QED BY <1>2, <1>10, <1>11, <1>12, <1>13, Zenon DEF Fifo!Arrive, Fifo!Total

\* camera_stream_get() hands out the oldest frame, under a slot not in use.
LEMMA FifoTake ==
    ASSUME WrapsEvenly, StreamInv, GetDone
    PROVE  found.slot \in Slots /\ Fifo!Take(found.slot)
<1>1. /\ active /\ UNCHANGED <<active, mem>> /\ Depth > 0 /\ Depth' = Depth - 1
      /\ \A i \in 1..(Depth - 1) : WaitingSlot(i)' = WaitingSlot(i + 1)
      /\ found.slot \in Slots \ HeldSlots /\ HeldSlots' = HeldSlots \cup {found.slot}
      /\ \A s \in HeldSlots : held'[s] = held[s]
      /\ held'[found.slot] = mem[WaitingSlot(1)]
  BY GetDoneStep
<1>2. Depth \in Nat /\ \A i \in 1..Depth : mem[WaitingSlot(i)] \in Frames
  BY <1>1, WaitingFacts DEF StreamInv, FramesIntact
<1> DEFINE p == [i \in 1..Depth |-> mem[WaitingSlot(i)]]
           q == [i \in 1..(Depth - 1) |-> mem'[WaitingSlot(i)']]
<1>3. FifoWaiting = p /\ FifoWaiting' = q BY <1>1 DEF FifoWaiting
<1>4. p \in Seq(Frames) /\ Len(p) = Depth
  <2>1. p \in [1..Depth -> Frames] BY <1>2
  <2> HIDE DEF p
  <2> QED BY <1>2, <2>1, WaitingIsSeq
<1>5. \A i \in 1..(Depth - 1) : i + 1 \in 1..Depth /\ q[i] = p[i + 1] BY <1>1, <1>2
<1>6. p[1] = mem[WaitingSlot(1)] BY <1>1, <1>2
<1>7. q \in Seq(Frames) /\ Len(q) = Depth - 1
  <2>1. \A i \in 1..(Depth - 1) : q[i] \in Frames BY <1>2, <1>5
  <2>2. q \in [1..(Depth - 1) -> Frames] BY <2>1
  <2>3. Depth - 1 \in Nat BY <1>1, <1>2
  <2> HIDE DEF q
  <2> QED BY <2>2, <2>3, WaitingIsSeq
<1> HIDE DEF p, q
<1>8. p # <<>> /\ Head(p) = mem[WaitingSlot(1)] BY <1>1, <1>2, <1>4, <1>6
<1>9. q = Tail(p)
  <2>1. /\ Tail(p) \in Seq(Frames) /\ Len(Tail(p)) = Depth - 1
        /\ \A i \in 1..(Depth - 1) : Tail(p)[i] = p[i + 1]
    BY <1>1, <1>2, <1>4, <1>8
  <2> QED BY <1>5, <1>7, <2>1, SeqEqual
<1>10. DOMAIN FifoTaken = HeldSlots /\ \A u \in HeldSlots : FifoTaken[u] = held[u]
  BY <1>1 DEF FifoTaken
<1>11. FifoTaken' = [u \in HeldSlots \cup {found.slot} |->
                        IF u = found.slot THEN mem[WaitingSlot(1)] ELSE FifoTaken[u]]
  <2>1. FifoTaken' = [u \in HeldSlots \cup {found.slot} |-> held'[u]] BY <1>1 DEF FifoTaken
  <2> QED BY <1>1, <1>10, <2>1
<1> QED BY <1>1, <1>3, <1>8, <1>9, <1>10, <1>11 DEF Fifo!Take

\* camera_stream_release() gives back a frame the caller holds.
LEMMA FifoGiveBack ==
    ASSUME WrapsEvenly, StreamInv, NEW r \in Slots, Release(r)
    PROVE  Fifo!GiveBack(r)
<1>1. /\ active /\ UNCHANGED <<active, mem>> /\ Depth' = Depth
      /\ \A i \in 1..Depth : WaitingSlot(i)' = WaitingSlot(i)
      /\ r \in HeldSlots /\ HeldSlots' = HeldSlots \ {r}
      /\ \A s \in HeldSlots' : held'[s] = held[s]
  BY ReleaseStep
<1>2. FifoWaiting' = FifoWaiting BY <1>1 DEF FifoWaiting
<1>3. DOMAIN FifoTaken = HeldSlots /\ \A u \in HeldSlots : FifoTaken[u] = held[u]
  BY <1>1 DEF FifoTaken
<1>4. FifoTaken' = [u \in HeldSlots \ {r} |-> FifoTaken[u]]
  <2>1. FifoTaken' = [u \in HeldSlots \ {r} |-> held'[u]] BY <1>1 DEF FifoTaken
  <2> QED BY <1>1, <1>3, <2>1
<1> QED BY <1>1, <1>2, <1>3, <1>4 DEF Fifo!GiveBack

\* Each step of the stream is a step of the FIFO, or changes nothing there.
LEMMA FifoStep ==
    ASSUME WrapsEvenly, StreamInv, [Next]_vars
    PROVE  [Fifo!Next]_(Fifo!fifoVars)
<1>0. Slots \subseteq 0..(SlotCount - 1) BY DEF Slots
<1>1. CASE ~active'
  <2>1. FifoWaiting' = <<>> /\ FifoTaken' = <<>> BY <1>1 DEF FifoWaiting, FifoTaken
  <2> QED BY <2>1 DEF Fifo!Next, Fifo!Forget
<1>2. CASE StartStream
  <2>1. Depth' = 0 /\ HeldSlots' = {} BY <1>2, StartStreamStep
  <2>2. FifoWaiting' = <<>> /\ FifoTaken' = <<>> BY <2>1 DEF FifoWaiting, FifoTaken
  <2> QED BY <2>2 DEF Fifo!Next, Fifo!Forget
<1>3. CASE active' /\ (DmaFills \/ EndFrame)
  <2>1. CASE /\ active /\ armed /\ armed' = armed /\ CloseSlot
             /\ Queued(NextSlot({s \in Slots \ {current} : ~busy[s]}))
             /\ frame' \in Frames /\ UNCHANGED <<sensor, active, tail, caller>>
    BY <2>1, FifoArrive DEF Fifo!Next
  <2>2. CASE /\ frame' \in Frames /\ dropped' \in 0..1 /\ armed' \in BOOLEAN
             /\ UNCHANGED <<sensor, active, tail, caller, current, busy, size, queue, head>>
             /\ \/ UNCHANGED <<dma, mem, armed>>
                \/ active /\ armed' /\ Arm(current)
                \/ UNCHANGED <<dma, armed>> /\ dma # Off /\ mem' = [mem EXCEPT ![dma] = frame]
    <3>1. active /\ active' /\ held' = held BY <1>3, <2>2 DEF caller
    <3>2. /\ Depth' = Depth /\ HeldSlots' = HeldSlots
          /\ \A i \in 1..Depth : WaitingSlot(i)' = WaitingSlot(i)
          /\ \A i \in 1..Depth : mem'[WaitingSlot(i)] = mem[WaitingSlot(i)]
      BY <2>2, <3>1, SameSlotStep
    <3> QED BY <3>1, <3>2, FifoSame DEF Fifo!fifoVars
  <2>3. DmaFills => /\ frame' \in Frames /\ dropped' \in 0..1 /\ armed' \in BOOLEAN
                    /\ UNCHANGED <<sensor, active, tail, caller, current, busy, size, queue, head>>
                    /\ UNCHANGED <<dma, armed>> /\ dma # Off /\ mem' = [mem EXCEPT ![dma] = frame]
    BY DEF DmaFills, ring, StreamInv, TypeOK
  <2> QED BY <1>3, <2>1, <2>2, <2>3, EndFrameCases DEF StreamInv
<1>4. CASE active' /\ (StopStream \/ StopDma \/ StartCamera \/ StopCamera) BY <1>4, StopStep
<1>5. CASE GetRead
  <2>1. /\ Depth' = Depth /\ HeldSlots' = HeldSlots /\ active /\ active' /\ UNCHANGED <<held, mem>>
        /\ \A i \in 1..Depth : WaitingSlot(i)' = WaitingSlot(i)
    BY <1>5, GetReadStep DEF GetRead
  <2> QED BY <2>1, FifoSame DEF Fifo!fifoVars
<1>6. CASE GetDone
  <2>1. PICK t \in 0..(SlotCount - 1) : Fifo!Take(t) BY <1>0, <1>6, FifoTake
  <2> QED BY <2>1 DEF Fifo!Next
<1>7. CASE \E s \in Slots : Release(s)
  <2>1. PICK r \in Slots : Release(r) BY <1>7
  <2>2. r \in 0..(SlotCount - 1) /\ Fifo!GiveBack(r) BY <1>0, <2>1, FifoGiveBack
  <2> QED BY <2>2 DEF Fifo!Next
<1>8. CASE UNCHANGED vars
  BY <1>8 DEF vars, ring, caller, Fifo!fifoVars, FifoWaiting, FifoTaken, Depth, WaitingSlot, HeldSlots
<1> QED BY <1>1, <1>2, <1>3, <1>4, <1>5, <1>6, <1>7, <1>8 DEF Next

\* The stream of camera.c, its queue of slot numbers and its counters that wrap are
\* a FIFO of whole frames: camera_stream_get() returns the oldest one, and a frame
\* stays what it was until camera_stream_release() gives it back.
THEOREM StreamIsFifo == ASSUME WrapsEvenly PROVE Spec => ImplementsFifo
<1>1. Init => Fifo!Init BY DEF Init, Fifo!Init, FifoWaiting, FifoTaken
<1>2. StreamInv /\ [Next]_vars => [Fifo!Next]_(Fifo!fifoVars) BY FifoStep
<1> QED BY <1>1, <1>2, StreamInvHolds, PTL DEF Spec, ImplementsFifo, Fifo!Spec
=============================================================================
