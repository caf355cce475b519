---------------------------- MODULE UartTxProofs ----------------------------
(***************************************************************************)
(* Proofs about the UART's transmission, for every set of tasks, FIFO      *)
(* depth, ring capacity and cursor width that is a multiple of it: the     *)
(* stream keeps its order, what is queued has its interrupt armed, and the *)
(* interrupt is never left on without a queue.                             *)
(***************************************************************************)
EXTENDS UartTx, SequenceTheorems, TLAPS

\* The one task that prints while the buffer is attached and detached.
Printer == CHOOSE t \in Tasks : TRUE

\* Only that task swaps, alone, and only then is the ring ever missing.
Alone ==
    /\ swapping => \A w \in Writers \ {Printer} : pc[w] = "idle"
    /\ ~swapping => attached /\ \A w \in Writers : pc[w] = "idle" \/ job[w] # "swap"

\* A task writes past the ring only when there is none, flushes only outside a
\* write, and swaps an empty ring.
TaskSteps ==
    \A t \in Tasks :
        /\ pc[t] \in {"poll", "put"} => swapping /\ ~attached
        /\ pc[t] = "flush" => job[t] # "write"
        /\ pc[t] = "swap" => RingEmpty /\ swapping

\* Code with interrupts masked writes its byte only behind an empty ring.
FiqSteps ==
    /\ pc[Fiq] \in {"idle", "poll", "put", "head", "flush"}
    /\ pc[Fiq] # "idle" => job[Fiq] = "write" /\ ~swapping
    /\ pc[Fiq] \in {"poll", "put"} => RingEmpty

\* There is still room when a byte is put, or moved on by the interrupt.
RoomLeft ==
    /\ \A w \in Writers : pc[w] = "put" => Ready
    /\ isr > 0 /\ pc[Fiq] = "idle" /\ attached /\ ~RingEmpty => isr <= FifoDepth - Len(fifo)

UartInv == TypeOK /\ Alone /\ TaskSteps /\ FiqSteps /\ RoomLeft /\ ArmedWhileQueued /\ NoStaleArm

-----------------------------------------------------------------------------
(* Cursors that wrap.                                                      *)

\* A remainder is below the modulus.
LEMMA ModRange == ASSUME NEW n \in Int, n > 0, NEW x \in Int PROVE x % n \in 0..(n - 1)
OBVIOUS

\* Quotient and remainder give the number back.
LEMMA DivMod ==
    ASSUME NEW n \in Int, n > 0, NEW x \in Int
    PROVE  x = n * (x \div n) + (x % n) /\ x \div n \in Int
<1>1. x = n * (x \div n) + (x % n) BY Z3T(60)
<1> QED BY <1>1

\* The remainder is known from any decomposition into a multiple and a small rest.
LEMMA ModIs ==
    ASSUME NEW n \in Int, n > 0, NEW q \in Int, NEW r \in 0..(n - 1)
    PROVE  (n * q + r) % n = r
OBVIOUS

\* Adding a multiple changes no remainder.
LEMMA ModAdd ==
    ASSUME NEW n \in Int, n > 0, NEW x \in Int, NEW q \in Int
    PROVE  (x + n * q) % n = x % n
<1> DEFINE d == x \div n
           r == x % n
<1>1. x = n * d + r /\ d \in Int /\ r \in 0..(n - 1) BY DivMod, ModRange
<1> HIDE DEF d, r
<1>2. x + n * q = n * (d + q) + r BY <1>1
<1>3. (n * (d + q) + r) % n = r BY <1>1, ModIs
<1> QED BY <1>2, <1>3 DEF r

\* A remainder may be taken before another number is added.
LEMMA ModFirst ==
    ASSUME NEW n \in Int, n > 0, NEW x \in Int, NEW y \in Int
    PROVE  ((x % n) + y) % n = (x + y) % n /\ (y - (x % n)) % n = (y - x) % n
<1> DEFINE d == x \div n
           r == x % n
<1>1. x = n * d + r /\ d \in Int /\ r \in Int BY DivMod
<1> HIDE DEF d, r
<1>2. (x + y) = (r + y) + n * d /\ (y - r) = (y - x) + n * d BY <1>1
<1>3. r + y \in Int /\ y - x \in Int BY <1>1
<1>4. \A z \in Int : (z + n * d) % n = z % n BY <1>1, ModAdd
<1> QED BY <1>2, <1>3, <1>4 DEF r

\* The next cursor, and the one before.
LEMMA ModNext ==
    ASSUME NEW n \in Int, n > 0, NEW x \in Int
    PROVE  /\ x % n < n - 1 => (x + 1) % n = (x % n) + 1
           /\ x % n > 0 => (x - 1) % n = (x % n) - 1
<1> DEFINE r == x % n
<1>1. r \in 0..(n - 1) BY ModRange
<1>2. \A y \in Int : (r + y) % n = (x + y) % n BY ModFirst
<1> HIDE DEF r
<1>3. r < n - 1 => (r + 1) % n = r + 1 BY <1>1
<1>4. r > 0 => (r - 1) % n = r - 1 BY <1>1
<1>5. r + (0 - 1) = r - 1 /\ x + (0 - 1) = x - 1 /\ 0 - 1 \in Int BY <1>1
<1>6. (r + 1) % n = (x + 1) % n /\ (r - 1) % n = (x - 1) % n BY <1>2, <1>5
<1> QED BY <1>3, <1>4, <1>6 DEF r

\* Numbers less than a turn apart have different remainders.
LEMMA ModApart ==
    ASSUME NEW n \in Int, n > 0, NEW x \in Int, NEW d \in 1..(n - 1)
    PROVE  (x + d) % n # x % n
<1> DEFINE r == x % n
<1>1. r \in 0..(n - 1) BY ModRange
<1>2. \A y \in Int : (r + y) % n = (x + y) % n BY ModFirst
<1> HIDE DEF r
<1>3. r + d < n => (r + d) % n = r + d BY <1>1
<1>4. r + d >= n => (r + d) % n = r + d - n BY <1>1
<1>5. (r + d) % n = (x + d) % n BY <1>2
<1> QED BY <1>1, <1>3, <1>4, <1>5 DEF r

\* Where the cursors wrap at a multiple of the capacity, the wrap does not move
\* the slot a cursor names.
LEMMA SlotOfCursor ==
    ASSUME NEW n \in Int, n > 0, NEW w \in Int, w > 0, w % n = 0, NEW x \in Int
    PROVE  (x % w) % n = x % n
<1> DEFINE d == x \div w
           r == x % w
           k == w \div n
<1>1. x = w * d + r /\ d \in Int /\ r \in Int BY DivMod
<1>2. w = n * k + (w % n) /\ k \in Int BY DivMod
<1> HIDE DEF d, r, k
<1>3. w = n * k BY <1>2
<1>4. w * d = n * (k * d) BY <1>1, <1>2, <1>3
<1>5. x = r + n * (k * d) /\ k * d \in Int BY <1>1, <1>2, <1>4
<1>6. (r + n * (k * d)) % n = r % n BY <1>1, <1>5, ModAdd
<1> QED BY <1>5, <1>6 DEF r

-----------------------------------------------------------------------------
(* The ring.                                                               *)

RingType ==
    /\ data \in [0..(Capacity - 1) -> Byte]
    /\ in \in 0..(Wrap - 1) /\ out \in 0..(Wrap - 1) /\ RingCount <= Capacity

CountIs ==
    /\ RingCount \in 0..Capacity
    /\ RingEmpty <=> RingCount = 0
    /\ in = (out + RingCount) % Wrap

QueuedIs ==
    /\ Queued \in Seq(Byte) /\ Len(Queued) = RingCount
    /\ \A i \in 1..RingCount : Queued[i] = data[(out + i - 1) % Capacity]

\* The number of queued bytes; it is 0 just when the cursors meet.
LEMMA CountFacts == RingType => CountIs
<1> SUFFICES ASSUME RingType PROVE CountIs
  OBVIOUS
<1>1. Wrap \in Int /\ Wrap > 0 /\ in \in Int /\ out \in Int /\ in - out \in Int
  BY UartAssumption DEF RingType
<1>2. RingCount \in 0..(Wrap - 1) BY <1>1, ModRange DEF RingCount
<1>3. RingEmpty <=> RingCount = 0
  <2>1. in >= out => (in - out) % Wrap = in - out BY <1>1, UartAssumption DEF RingType
  <2>2. in < out => (in - out) % Wrap = in - out + Wrap BY <1>1, UartAssumption DEF RingType
  <2> QED BY <1>1, <2>1, <2>2 DEF RingType, RingCount, RingEmpty
<1>4. in = (out + RingCount) % Wrap
  <2>1. (((in - out) % Wrap) + out) % Wrap = ((in - out) + out) % Wrap BY <1>1, ModFirst
  <2>2. (in - out) + out = in /\ in % Wrap = in BY <1>1 DEF RingType
  <2>3. ((in - out) % Wrap) + out = out + ((in - out) % Wrap) BY <1>1
  <2> QED BY <2>1, <2>2, <2>3 DEF RingCount
<1> QED BY <1>1, <1>2, <1>3, <1>4, UartAssumption DEF RingType, CountIs

\* Queued bytes are a sequence; the slot of each follows from the read cursor.
LEMMA QueuedFacts == RingType => QueuedIs
<1> SUFFICES ASSUME RingType PROVE QueuedIs
  OBVIOUS
<1>1. RingCount \in Nat BY CountFacts, UartAssumption DEF CountIs
<1>2. ASSUME NEW i \in 1..RingCount
      PROVE  /\ ((out + i - 1) % Wrap) % Capacity = (out + i - 1) % Capacity
             /\ (out + i - 1) % Capacity \in 0..(Capacity - 1)
  <2>1. out + i - 1 \in Int BY <1>1 DEF RingType
  <2>2. Capacity \in Int /\ Capacity > 0 /\ Wrap \in Int /\ Wrap > 0 /\ Wrap % Capacity = 0
    BY UartAssumption
  <2>3. \A x \in Int : (x % Wrap) % Capacity = x % Capacity BY <2>2, SlotOfCursor
  <2>4. \A x \in Int : x % Capacity \in 0..(Capacity - 1) BY <2>2, ModRange
  <2> QED BY <2>1, <2>3, <2>4
<1>3. \A i \in 1..RingCount : data[((out + i - 1) % Wrap) % Capacity] \in Byte
  BY <1>2 DEF RingType
<1> DEFINE q == [i \in 1..RingCount |-> data[((out + i - 1) % Wrap) % Capacity]]
<1>4. q \in Seq(Byte) /\ Len(q) = RingCount
  <2>1. q \in [1..RingCount -> Byte] BY <1>3
  <2> HIDE DEF q
  <2> QED BY <1>1, <2>1
<1> QED BY <1>2, <1>4 DEF Queued, QueuedIs

\* ringbuf_put() makes the byte the last of the queue.
LEMMA PutFacts ==
    ASSUME RingType, ~RingFull, NEW b \in Byte, RingPut(b)
    PROVE  RingType' /\ RingCount' = RingCount + 1 /\ ~RingEmpty' /\ Queued' = Append(Queued, b)
<1>0. /\ Wrap \in Int /\ Wrap > 0 /\ in \in Int /\ out \in Int /\ in - out \in Int
      /\ Capacity \in Int /\ Capacity > 0 /\ Wrap % Capacity = 0 /\ Wrap > Capacity
  BY UartAssumption DEF RingType
<1>1. in' = (in + 1) % Wrap /\ out' = out /\ data' = [data EXCEPT ![in % Capacity] = b]
  BY DEF RingPut
<1>2. RingCount \in 0..(Capacity - 1) BY <1>0, CountFacts DEF RingFull, CountIs
<1>3. RingCount' = RingCount + 1
  <2>1. in + 1 \in Int /\ 0 - out \in Int BY <1>0
  <2>2. (((in + 1) % Wrap) + (0 - out)) % Wrap = ((in + 1) + (0 - out)) % Wrap
    BY <1>0, <2>1, ModFirst, ZenonT(60)
  <2>3. (in + 1) + (0 - out) = (in - out) + 1 BY <1>0
  <2>4. (in + 1) % Wrap \in Int BY <1>0, <2>1, ModRange
  <2>5. ((in + 1) % Wrap) + (0 - out) = ((in + 1) % Wrap) - out BY <1>0, <2>4
  <2>6. ((in - out) + 1) % Wrap = ((in - out) % Wrap) + 1
    <3>1. \A x \in Int : x % Wrap < Wrap - 1 => (x + 1) % Wrap = (x % Wrap) + 1
      BY <1>0, ModNext
    <3>2. (in - out) % Wrap < Wrap - 1 BY <1>0, <1>2 DEF RingCount
    <3> QED BY <1>0, <3>1, <3>2
  <2> QED BY <1>1, <2>2, <2>3, <2>5, <2>6 DEF RingCount
<1>4. in % Capacity \in 0..(Capacity - 1) BY <1>0, ModRange
<1>5. RingType'
  <2>1. in' \in 0..(Wrap - 1)
    <3>1. in + 1 \in Int BY <1>0
    <3> QED BY <1>0, <1>1, <3>1, ModRange
  <2>2. data' \in [0..(Capacity - 1) -> Byte] BY <1>1, <1>4 DEF RingType
  <2> QED BY <1>0, <1>1, <1>2, <1>3, <2>1, <2>2 DEF RingType
<1>6. in % Capacity = (out + RingCount) % Capacity
  <2>1. out + RingCount \in Int BY <1>0, <1>2
  <2>2. ((out + RingCount) % Wrap) % Capacity = (out + RingCount) % Capacity
    BY <1>0, <2>1, SlotOfCursor, Zenon
  <2> QED BY <2>2, CountFacts DEF CountIs
<1>7. ASSUME NEW i \in 1..RingCount
      PROVE  data'[(out + i - 1) % Capacity] = data[(out + i - 1) % Capacity]
  <2>1. out + i - 1 \in Int /\ RingCount - (i - 1) \in 1..(Capacity - 1)
        /\ (out + i - 1) + (RingCount - (i - 1)) = out + RingCount
    BY <1>0, <1>2
  <2>2. (out + i - 1) % Capacity # in % Capacity
    BY <1>0, <1>6, <2>1, ModApart
  <2>3. (out + i - 1) % Capacity \in 0..(Capacity - 1) BY <1>0, <2>1, ModRange
  <2> QED BY <1>1, <1>4, <2>2, <2>3 DEF RingType
<1>8. data'[(out + (RingCount + 1) - 1) % Capacity] = b
  <2>1. out + (RingCount + 1) - 1 = out + RingCount BY <1>0, <1>2
  <2> QED BY <1>1, <1>4, <1>6, <2>1 DEF RingType
<1>9. Queued' = Append(Queued, b)
  <2>1. /\ Queued \in Seq(Byte) /\ Len(Queued) = RingCount
        /\ \A i \in 1..RingCount : Queued[i] = data[(out + i - 1) % Capacity]
    BY QueuedFacts DEF QueuedIs
  <2>2. /\ Queued' \in Seq(Byte) /\ Len(Queued') = RingCount + 1
        /\ \A i \in 1..(RingCount + 1) : Queued'[i] = data'[(out + i - 1) % Capacity]
    <3>1. QueuedIs' BY <1>5, QueuedFacts, PTL
    <3> QED BY <1>1, <1>3, <3>1 DEF QueuedIs
  <2>3. /\ Append(Queued, b) \in Seq(Byte) /\ Len(Append(Queued, b)) = RingCount + 1
        /\ \A i \in 1..RingCount : Append(Queued, b)[i] = Queued[i]
        /\ Append(Queued, b)[RingCount + 1] = b
    BY <2>1
  <2>4. \A i \in 1..(RingCount + 1) : Queued'[i] = Append(Queued, b)[i]
    BY <1>2, <1>7, <1>8, <2>1, <2>2, <2>3
  <2> QED BY <2>2, <2>3, <2>4, SeqEqual
<1>10. ~RingEmpty'
  <2>1. CountIs' BY <1>5, CountFacts, PTL
  <2> QED BY <1>2, <1>3, <2>1 DEF CountIs
<1> QED BY <1>3, <1>5, <1>9, <1>10

\* ringbuf_get() takes the first of the queue.
LEMMA DropFacts ==
    ASSUME RingType, ~RingEmpty, RingDrop
    PROVE  /\ RingType' /\ RingCount' = RingCount - 1 /\ RingHead \in Byte
           /\ Queued # <<>> /\ RingHead = Head(Queued) /\ Queued' = Tail(Queued)
<1>0. /\ Wrap \in Int /\ Wrap > 0 /\ in \in Int /\ out \in Int /\ in - out \in Int
      /\ Capacity \in Int /\ Capacity > 0 /\ Wrap % Capacity = 0 /\ Wrap > Capacity
  BY UartAssumption DEF RingType
<1>1. out' = (out + 1) % Wrap /\ in' = in /\ data' = data BY DEF RingDrop
<1>2. RingCount \in 1..Capacity BY <1>0, CountFacts DEF CountIs
<1>3. out + 1 \in Int BY <1>0
<1>4. RingCount' = RingCount - 1
  <2>1. (in - ((out + 1) % Wrap)) % Wrap = (in - (out + 1)) % Wrap BY <1>0, <1>3, ModFirst, ZenonT(60)
  <2>2. in - (out + 1) = (in - out) - 1 BY <1>0
  <2>3. ((in - out) - 1) % Wrap = ((in - out) % Wrap) - 1
    <3>1. \A x \in Int : x % Wrap > 0 => (x - 1) % Wrap = (x % Wrap) - 1
      BY <1>0, ModNext
    <3>2. (in - out) % Wrap > 0 BY <1>0, <1>2 DEF RingCount
    <3> QED BY <1>0, <3>1, <3>2
  <2> QED BY <1>1, <2>1, <2>2, <2>3 DEF RingCount
<1>5. RingType'
  <2>1. out' \in 0..(Wrap - 1) BY <1>0, <1>1, <1>3, ModRange
  <2> QED BY <1>0, <1>1, <1>2, <1>4, <2>1 DEF RingType
<1>6. /\ Queued \in Seq(Byte) /\ Len(Queued) = RingCount
      /\ \A i \in 1..RingCount : Queued[i] = data[(out + i - 1) % Capacity]
  BY QueuedFacts DEF QueuedIs
<1>7. RingHead = Queued[1] /\ RingHead \in Byte
  <2>1. out + 1 - 1 = out /\ 1 \in 1..RingCount BY <1>0, <1>2
  <2> QED BY <1>6, <2>1 DEF RingHead
<1>8. ASSUME NEW i \in 1..(RingCount - 1) PROVE Queued'[i] = Queued[i + 1]
  <2>0. QueuedIs' BY <1>5, QueuedFacts, PTL
  <2>1. \A j \in 1..RingCount' : Queued'[j] = data'[(out' + j - 1) % Capacity]
    BY <2>0 DEF QueuedIs
  <2>2. Queued'[i] = data[(((out + 1) % Wrap) + i - 1) % Capacity] BY <1>1, <1>4, <2>1
  <2>3. i - 1 \in Int /\ (out + 1) + (i - 1) = out + (i + 1) - 1 /\ i + 1 \in 1..RingCount
    BY <1>0, <1>2
  <2> DEFINE o == (out + 1) % Wrap
             d == i - 1
             m == out + 1
  <2>4. o \in Int /\ d \in Int /\ m \in Int BY <1>0, <1>3, <2>3, ModRange
  <2>5. o % Capacity = m % Capacity BY <1>0, <1>3, SlotOfCursor, Zenon
  <2>6. o + i - 1 = o + d /\ m + d = out + (i + 1) - 1 BY <2>3, <2>4
  <2> HIDE DEF o, d, m
  <2>7. ((o % Capacity) + d) % Capacity = (o + d) % Capacity BY <1>0, <2>4, ModFirst, ZenonT(60)
  <2>8. ((m % Capacity) + d) % Capacity = (m + d) % Capacity BY <1>0, <2>4, ModFirst, ZenonT(60)
  <2>9. (o + d) % Capacity = (m + d) % Capacity BY <2>5, <2>7, <2>8, Zenon
  <2>10. Queued[i + 1] = data[(out + (i + 1) - 1) % Capacity] BY <1>6, <2>3
  <2>11. Queued'[i] = data[(o + i - 1) % Capacity] BY <2>2 DEF o
  <2> QED BY <2>6, <2>9, <2>10, <2>11, Zenon
<1>9. Queued' = Tail(Queued) /\ Queued # <<>> /\ RingHead = Head(Queued)
  <2>1. Queued # <<>> /\ Head(Queued) = Queued[1] BY <1>2, <1>6
  <2>2. /\ Tail(Queued) \in Seq(Byte) /\ Len(Tail(Queued)) = RingCount - 1
        /\ \A i \in 1..(RingCount - 1) : Tail(Queued)[i] = Queued[i + 1]
    BY <1>2, <1>6, <2>1
  <2>3. Queued' \in Seq(Byte) /\ Len(Queued') = RingCount - 1
    <3>1. QueuedIs' BY <1>5, QueuedFacts, PTL
    <3> QED BY <1>4, <3>1 DEF QueuedIs
  <2>4. \A i \in 1..(RingCount - 1) : Queued'[i] = Tail(Queued)[i] BY <1>8, <2>2
  <2> QED BY <1>7, <2>1, <2>2, <2>3, <2>4, SeqEqual
<1> QED BY <1>4, <1>5, <1>7, <1>9

-----------------------------------------------------------------------------
(* What every step does to the invariant.                                  *)

Labels == {"idle", "poll", "put", "queue", "full", "head", "flush", "drain", "swap"}
Calls  == {"write", "drain", "swap"}

\* The types of all but the writers' places.
PortType ==
    /\ fifo \in Seq(Byte) /\ Len(fifo) <= FifoDepth
    /\ RingType
    /\ attached \in BOOLEAN /\ armed \in BOOLEAN /\ isr \in Off..FifoDepth
    /\ next \in [Writers -> 0..1] /\ sent \in [Writers -> 0..1]

IsrRoom == isr > 0 /\ pc[Fiq] = "idle" /\ attached /\ ~RingEmpty => isr <= FifoDepth - Len(fifo)

\* What the place l of a writer in the call c requires of the port.
Fits(w, l, c) ==
    /\ ~swapping => l = "idle" \/ c # "swap"
    /\ w \in Tasks =>
          /\ l \in {"poll", "put"} => swapping /\ ~attached
          /\ l = "flush" => c # "write"
          /\ l = "swap" => RingEmpty /\ swapping
    /\ w = Fiq =>
          /\ l \in {"idle", "poll", "put", "head", "flush"}
          /\ l # "idle" => c = "write" /\ ~swapping
          /\ l \in {"poll", "put"} => RingEmpty
    /\ l = "put" => Ready

\* The task that prints the queue is one of the tasks.
LEMMA PrinterIsTask == Printer \in Tasks
BY UartAssumption DEF Printer

\* A step of one writer keeps the invariant when its new place fits the port it
\* leaves and it is the only one to run.
LEMMA StepOfWriter ==
    ASSUME UartInv, NEW w \in Writers, NEW l \in Labels, NEW c \in Calls,
           pc' = [pc EXCEPT ![w] = l], job' = [job EXCEPT ![w] = c], swapping' = swapping,
           PortType', IsrRoom', ArmedWhileQueued', NoStaleArm',
           ~swapping => attached',
           swapping => w = Printer, Runs(w),
           Fits(w, l, c)'
    PROVE  UartInv'
<1>1. pc \in [Writers -> Labels] /\ job \in [Writers -> Calls] /\ swapping \in BOOLEAN
  BY DEF UartInv, TypeOK, Labels, Calls
<1>2. \A v \in Writers : /\ pc'[v] = IF v = w THEN l ELSE pc[v]
                         /\ job'[v] = IF v = w THEN c ELSE job[v]
  BY <1>1
<1>3. pc' \in [Writers -> Labels] /\ job' \in [Writers -> Calls]
  BY <1>1
<1>4. TypeOK'
  BY <1>1, <1>3 DEF TypeOK, PortType, RingType, Labels, Calls
<1>5. Alone'
  BY <1>2 DEF UartInv, Alone, Fits
<1>6. ASSUME NEW v \in Writers, v # w, swapping PROVE pc'[v] = "idle"
  BY <1>2, <1>6 DEF UartInv, Alone
<1>7. TaskSteps'
  <2> SUFFICES ASSUME NEW t \in Tasks
               PROVE  /\ pc'[t] \in {"poll", "put"} => swapping' /\ ~attached'
                      /\ pc'[t] = "flush" => job'[t] # "write"
                      /\ pc'[t] = "swap" => RingEmpty' /\ swapping'
    BY DEF TaskSteps
  <2>1. t \in Writers BY DEF Writers
  <2>2. CASE t = w BY <1>2, <2>1, <2>2 DEF Fits
  <2>3. CASE t # w /\ swapping BY <1>6, <2>1, <2>3
  <2>4. CASE t # w /\ ~swapping
    BY <1>2, <2>1, <2>4 DEF UartInv, TaskSteps
  <2> QED BY <2>2, <2>3, <2>4
<1>8. Fiq \in Writers BY DEF Writers
<1>9. FiqSteps'
  <2>1. CASE Fiq = w BY <1>2, <1>8, <2>1 DEF FiqSteps, Fits
  <2>2. CASE Fiq # w
    <3>1. pc[Fiq] = "idle" BY <2>2 DEF Runs
    <3> QED BY <1>2, <1>8, <2>2, <3>1 DEF FiqSteps
  <2> QED BY <2>1, <2>2
<1>10. RoomLeft'
  <2>1. ASSUME NEW v \in Writers, pc'[v] = "put" PROVE Ready'
    <3>1. CASE v = w BY <1>2, <2>1, <3>1 DEF Fits
    <3>2. CASE v # w /\ swapping BY <1>6, <2>1, <3>2
    <3>3. CASE v # w /\ ~swapping
      <4>1. pc[v] = "put" BY <1>2, <2>1, <3>3
      <4>2. v \notin Tasks BY <3>3, <4>1 DEF UartInv, TaskSteps
      <4>3. v = Fiq BY <4>2 DEF Writers
      <4> QED BY <3>3, <4>1, <4>3 DEF Runs
    <3> QED BY <3>1, <3>2, <3>3
  <2> QED BY <2>1 DEF RoomLeft, IsrRoom
<1> QED BY <1>4, <1>5, <1>7, <1>9, <1>10 DEF UartInv

\* What a step does to the stream: nothing, the next byte of a writer at its
\* end, or its first byte out on the wire.
Moves ==
    \/ Line' = Line /\ UNCHANGED <<sent, next>>
    \/ \E w \in Writers : Line' = Append(Line, NextByte(w)) /\ Accepted(w) /\ UNCHANGED sent
    \/ /\ Line # <<>> /\ Line' = Tail(Line) /\ UNCHANGED next
       /\ sent' = [sent EXCEPT ![Head(Line).by] = (Head(Line).no + 1) % 2]

\* The types of the ring and the room the interrupt relies on are parts of the invariant.
LEMMA PortTypeOK == UartInv => PortType /\ IsrRoom
BY DEF UartInv, TypeOK, PortType, RingType, RoomLeft, IsrRoom

\* The next byte of a writer is a byte, and its number advances.
LEMMA NextByteType ==
    ASSUME PortType, NEW w \in Writers
    PROVE  NextByte(w) \in Byte /\ (Accepted(w) => next' \in [Writers -> 0..1])
<1>1. next[w] \in 0..1 BY DEF PortType
<1>2. (next[w] + 1) % 2 \in 0..1 BY <1>1
<1> QED BY <1>1, <1>2 DEF PortType, NextByte, Accepted, Byte

\* A byte written into a FIFO that has room is its last.
LEMMA FifoFacts ==
    ASSUME PortType, Ready, NEW b \in Byte, FifoWrite(b)
    PROVE  fifo' = Append(fifo, b) /\ fifo' \in Seq(Byte) /\ Len(fifo') = Len(fifo) + 1
           /\ Len(fifo') <= FifoDepth
<1>1. fifo' = Append(fifo, b) /\ fifo \in Seq(Byte) BY DEF FifoWrite, PortType
<1>2. Len(fifo) \in Nat /\ Len(fifo) < FifoDepth BY <1>1 DEF Ready
<1>3. fifo' \in Seq(Byte) /\ Len(fifo') = Len(fifo) + 1 BY <1>1
<1> QED BY <1>1, <1>2, <1>3, UartAssumption

\* An empty ring queues nothing.
LEMMA EmptyQueue == RingType /\ RingEmpty => Queued = <<>>
<1> SUFFICES ASSUME RingType, RingEmpty PROVE Queued = <<>>
  OBVIOUS
<1>1. Queued \in Seq(Byte) /\ Len(Queued) = 0
  BY CountFacts, QueuedFacts DEF CountIs, QueuedIs
<1> QED BY <1>1

\* Concatenation, for the three ways a byte moves.
LEMMA LineFacts ==
    ASSUME NEW T, NEW f \in Seq(T), NEW q \in Seq(T), NEW b \in T
    PROVE  /\ Append(f, b) \o <<>> = Append(f \o <<>>, b)
           /\ f \o Append(q, b) = Append(f \o q, b)
           /\ q # <<>> => Append(f, Head(q)) \o Tail(q) = f \o q
           /\ f # <<>> => /\ Tail(f) \o q = Tail(f \o q)
                          /\ f \o q # <<>> /\ Head(f \o q) = Head(f)
<1> DEFINE fq == f \o q
<1>1. fq \in Seq(T) /\ Len(fq) = Len(f) + Len(q)
      /\ \A i \in 1..(Len(f) + Len(q)) : fq[i] = IF i <= Len(f) THEN f[i] ELSE q[i - Len(f)]
  BY ConcatProperties
<1>0. Len(f) \in Nat /\ Len(q) \in Nat OBVIOUS
<1> HIDE DEF fq
<1>2. Append(f, b) \o <<>> = Append(f \o <<>>, b)
  <2>1. f \o <<>> = f /\ Append(f, b) \in Seq(T) BY ConcatEmptySeq
  <2> QED BY <2>1, ConcatEmptySeq
<1>3. f \o Append(q, b) = Append(fq, b)
  <2> DEFINE q1 == Append(q, b)
  <2>1. q1 \in Seq(T) /\ Len(q1) = Len(q) + 1 /\ q1[Len(q) + 1] = b
        /\ \A i \in 1..Len(q) : q1[i] = q[i]
    OBVIOUS
  <2> HIDE DEF q1
  <2> DEFINE l == f \o q1
             r == Append(fq, b)
  <2>2. l \in Seq(T) /\ Len(l) = Len(f) + (Len(q) + 1)
        /\ \A i \in 1..(Len(f) + (Len(q) + 1)) : l[i] = IF i <= Len(f) THEN f[i] ELSE q1[i - Len(f)]
    <3>1. l \in Seq(T) /\ Len(l) = Len(f) + Len(q1)
          /\ \A i \in 1..(Len(f) + Len(q1)) : l[i] = IF i <= Len(f) THEN f[i] ELSE q1[i - Len(f)]
      BY <2>1, ConcatProperties
    <3> HIDE DEF l
    <3> QED BY <2>1, <3>1
  <2>3. r \in Seq(T) /\ Len(r) = Len(f) + Len(q) + 1 /\ r[Len(f) + Len(q) + 1] = b
        /\ \A i \in 1..(Len(f) + Len(q)) : r[i] = fq[i]
    <3>1. r \in Seq(T) /\ Len(r) = Len(fq) + 1 /\ r[Len(fq) + 1] = b
          /\ \A i \in 1..Len(fq) : r[i] = fq[i]
      BY <1>1
    <3> QED BY <1>0, <1>1, <3>1
  <2> HIDE DEF l, r
  <2>4. ASSUME NEW i \in 1..Len(l) PROVE l[i] = r[i]
    <3>0. i \in 1..(Len(f) + (Len(q) + 1)) BY <2>2
    <3>1. CASE i <= Len(f)
      <4>1. i \in 1..(Len(f) + Len(q)) BY <1>0, <3>0, <3>1
      <4> QED BY <1>0, <1>1, <2>2, <2>3, <3>0, <3>1, <4>1
    <3>2. CASE i > Len(f) /\ i <= Len(f) + Len(q)
      <4>1. i - Len(f) \in 1..Len(q) /\ i \in 1..(Len(f) + Len(q)) BY <1>0, <3>0, <3>2
      <4>2. l[i] = q1[i - Len(f)] BY <1>0, <2>2, <3>0, <3>2
      <4>3. r[i] = q[i - Len(f)] BY <1>0, <1>1, <2>3, <3>2, <4>1
      <4> QED BY <2>1, <4>1, <4>2, <4>3
    <3>3. CASE i = Len(f) + Len(q) + 1
      <4>1. i - Len(f) = Len(q) + 1 /\ ~(i <= Len(f)) BY <1>0, <3>3
      <4>2. l[i] = q1[i - Len(f)] BY <2>2, <3>0, <4>1
      <4> QED BY <2>1, <2>3, <3>3, <4>1, <4>2
    <3> QED BY <1>0, <3>0, <3>1, <3>2, <3>3
  <2>5. Len(l) = Len(r) BY <1>0, <2>2, <2>3
  <2>6. l = r BY <2>2, <2>3, <2>4, <2>5, SeqEqual
  <2> QED BY <2>6 DEF l, r, q1
<1>4. ASSUME q # <<>> PROVE Append(f, Head(q)) \o Tail(q) = fq
  <2> DEFINE f1 == Append(f, Head(q))
             q1 == Tail(q)
  <2>1. f1 \in Seq(T) /\ Len(f1) = Len(f) + 1 /\ f1[Len(f) + 1] = q[1]
        /\ \A i \in 1..Len(f) : f1[i] = f[i]
    BY <1>4
  <2>2. q1 \in Seq(T) /\ Len(q1) = Len(q) - 1 /\ \A i \in 1..(Len(q) - 1) : q1[i] = q[i + 1]
    BY <1>4
  <2> HIDE DEF f1, q1
  <2> DEFINE l == f1 \o q1
  <2>3. l \in Seq(T) /\ Len(l) = Len(f1) + Len(q1)
        /\ \A i \in 1..(Len(f1) + Len(q1)) : l[i] = IF i <= Len(f1) THEN f1[i] ELSE q1[i - Len(f1)]
    BY <2>1, <2>2, ConcatProperties
  <2> HIDE DEF l
  <2>4. Len(l) = Len(f) + Len(q) BY <1>0, <2>1, <2>2, <2>3
  <2>5. ASSUME NEW i \in 1..Len(l) PROVE l[i] = fq[i]
    <3>1. CASE i <= Len(f)
      <4>1. i \in 1..Len(f) /\ i <= Len(f) + 1 BY <1>0, <2>4, <3>1
      <4>2. l[i] = f1[i] BY <2>1, <2>3, <2>4, <4>1
      <4>3. fq[i] = f[i] BY <1>0, <1>1, <2>4, <3>1
      <4> QED BY <2>1, <4>1, <4>2, <4>3
    <3>2. CASE i = Len(f) + 1
      <4>1. i - Len(f) = 1 BY <1>0, <3>2
      <4> QED BY <1>0, <1>1, <2>1, <2>2, <2>3, <2>4, <3>2, <4>1
    <3>3. CASE i > Len(f) + 1
      <4>1. i - (Len(f) + 1) \in 1..(Len(q) - 1) /\ i - (Len(f) + 1) + 1 = i - Len(f)
        BY <1>0, <2>4, <3>3
      <4>2. l[i] = q1[i - (Len(f) + 1)] BY <1>0, <2>1, <2>2, <2>3, <2>4, <3>3
      <4>3. fq[i] = q[i - Len(f)] BY <1>0, <1>1, <2>4, <3>3
      <4> QED BY <2>2, <4>1, <4>2, <4>3
    <3> QED BY <1>0, <2>4, <3>1, <3>2, <3>3
  <2>6. l = fq BY <1>1, <2>3, <2>4, <2>5, SeqEqual
  <2> QED BY <2>6 DEF l, f1, q1
<1>5. ASSUME f # <<>> PROVE Tail(f) \o q = Tail(fq) /\ fq # <<>> /\ Head(fq) = Head(f)
  <2>0. Len(f) >= 1 /\ Head(f) = f[1] BY <1>5
  <2>1. fq # <<>> /\ Head(fq) = Head(f) BY <1>0, <1>1, <2>0
  <2> DEFINE f1 == Tail(f)
             r  == Tail(fq)
  <2>2. f1 \in Seq(T) /\ Len(f1) = Len(f) - 1 /\ \A i \in 1..(Len(f) - 1) : f1[i] = f[i + 1]
    BY <1>5
  <2>3. r \in Seq(T) /\ Len(r) = Len(f) + Len(q) - 1
        /\ \A i \in 1..(Len(f) + Len(q) - 1) : r[i] = fq[i + 1]
    BY <1>0, <1>1, <2>1
  <2> HIDE DEF f1, r
  <2> DEFINE l == f1 \o q
  <2>4. l \in Seq(T) /\ Len(l) = Len(f1) + Len(q)
        /\ \A i \in 1..(Len(f1) + Len(q)) : l[i] = IF i <= Len(f1) THEN f1[i] ELSE q[i - Len(f1)]
    BY <2>2, ConcatProperties
  <2> HIDE DEF l
  <2>5. Len(l) = Len(r) BY <1>0, <2>2, <2>3, <2>4
  <2>6. ASSUME NEW i \in 1..Len(l) PROVE l[i] = r[i]
    <3>1. i + 1 \in 1..(Len(f) + Len(q)) /\ i \in 1..(Len(f) + Len(q) - 1)
      BY <1>0, <2>3, <2>5
    <3>2. CASE i <= Len(f) - 1 BY <1>0, <1>1, <2>2, <2>3, <2>4, <3>1, <3>2
    <3>3. CASE i > Len(f) - 1
      <4>1. i - (Len(f) - 1) = (i + 1) - Len(f) BY <1>0
      <4>2. l[i] = q[i - (Len(f) - 1)] BY <1>0, <2>2, <2>4, <3>3
      <4>3. r[i] = q[(i + 1) - Len(f)] BY <1>0, <1>1, <2>3, <3>1, <3>3
      <4> QED BY <4>1, <4>2, <4>3
    <3> QED BY <1>0, <3>2, <3>3
  <2>7. l = r BY <2>3, <2>4, <2>5, <2>6, SeqEqual
  <2> QED BY <2>1, <2>7 DEF l, r, f1
<1> QED BY <1>2, <1>3, <1>4, <1>5 DEF fq

\* What does not touch the port moves nothing.
LEMMA StillFacts ==
    ASSUME UNCHANGED <<fifo, ring>>
    PROVE  /\ Line' = Line /\ RingEmpty' = RingEmpty /\ Ready' = Ready
           /\ RingType' = RingType /\ UNCHANGED <<fifo, data, in, out>>
BY DEF ring, Line, Queued, RingCount, RingEmpty, Ready, RingType

\* A step that only takes a writer to another place.
LEMMA StepOnly ==
    ASSUME UartInv, NEW w \in Writers, NEW l \in Labels, NEW c \in Calls,
           pc' = [pc EXCEPT ![w] = l], job' = [job EXCEPT ![w] = c],
           UNCHANGED <<fifo, ring, swapping, attached, armed, isr, next, sent>>,
           swapping => w = Printer, Runs(w),
           w = Fiq => l # "idle",
           Fits(w, l, c)
    PROVE  UartInv' /\ Moves
<1>1. /\ Line' = Line /\ RingEmpty' = RingEmpty /\ Ready' = Ready
      /\ RingType' = RingType /\ UNCHANGED <<fifo, data, in, out>>
  BY StillFacts
<1>2. PortType /\ IsrRoom BY PortTypeOK
<1>3. PortType' BY <1>1, <1>2 DEF PortType
<1>4. ArmedWhileQueued' /\ NoStaleArm'
  BY <1>1 DEF UartInv, ArmedWhileQueued, NoStaleArm
<1>5. Fits(w, l, c)' BY <1>1 DEF Fits
<1>6. IsrRoom'
  <2>1. pc \in [Writers -> Labels] /\ Fiq \in Writers BY DEF UartInv, TypeOK, Labels, Writers
  <2>2. pc'[Fiq] = "idle" => pc[Fiq] = "idle" BY <2>1
  <2> QED BY <1>1, <1>2, <2>2 DEF IsrRoom
<1>7. ~swapping => attached' BY DEF UartInv, Alone
<1>8. UartInv' BY <1>3, <1>4, <1>5, <1>6, <1>7, StepOfWriter
<1> QED BY <1>1, <1>8 DEF Moves

\* A writer that is at work, or is let in, is the only one of a swapping port.
LEMMA WorksAlone ==
    ASSUME UartInv, NEW w \in Writers, pc[w] # "idle" \/ w \in Printing
    PROVE  swapping => w = Printer
BY DEF UartInv, Alone, Printing, Printer

\* The labels a call goes on with after its flush fit an empty ring.
LEMMA FlushedFits ==
    ASSUME UartInv, NEW w \in Writers, NEW c \in Calls, RingEmpty,
           w = Fiq => c = "write" /\ ~swapping, w # Fiq => c # "write",
           ~swapping => c # "swap"
    PROVE  Flushed(c) \in Labels \ {"idle"} /\ Fits(w, Flushed(c), c)
<1>1. Flushed("write") = "poll" /\ Flushed("drain") = "drain" /\ Flushed("swap") = "swap"
  BY DEF Flushed
<1>2. w \in Tasks <=> w # Fiq BY UartAssumption DEF Writers
<1> QED BY <1>1, <1>2 DEF Fits, Labels, Calls

\* Without a ring nothing is queued.
LEMMA DetachedEmpty == ASSUME UartInv, ~attached PROVE RingEmpty /\ swapping
BY DEF UartInv, NoStaleArm, Alone, TypeOK

\* Where a call begins, or goes on without having touched the port.
LEMMA PlainSteps ==
    ASSUME UartInv, NEW w \in Writers,
           Write(w) \/ Drain(w) \/ SetTxBuffer(w) \/ Poll(w) \/ Full(w) \/ Drained(w)
    PROVE  UartInv' /\ Moves
<1>0. /\ pc \in [Writers -> Labels] /\ job \in [Writers -> Calls] /\ swapping \in BOOLEAN
      /\ attached \in BOOLEAN
  BY DEF UartInv, TypeOK, Labels, Calls
<1>1. w \in Tasks <=> w # Fiq BY UartAssumption DEF Writers
<1>2. job = [job EXCEPT ![w] = job[w]] BY <1>0
<1>3. Fiq \notin {Printer} BY PrinterIsTask, UartAssumption
<1>4. ASSUME Write(w) PROVE UartInv' /\ Moves
  <2>1. w \in Printing /\ Runs(w) /\ pc[w] = "idle" /\ job' = [job EXCEPT ![w] = "write"]
        /\ UNCHANGED <<fifo, ring, swapping, attached, armed, isr, next, sent>>
    BY <1>4 DEF Write
  <2>2. swapping => w = Printer BY <2>1, WorksAlone
  <2> DEFINE l == IF ~attached THEN "poll" ELSE IF w = Fiq THEN FlushEntry("write") ELSE "queue"
  <2>3. pc' = [pc EXCEPT ![w] = l] BY <1>4 DEF Write, Goto
  <2>4. FlushEntry("write") = IF ~attached \/ RingEmpty THEN "poll" ELSE "flush"
    BY DEF FlushEntry, Flushed
  <2>5. l \in Labels /\ l # "idle" BY <2>4 DEF Labels
  <2>6. Fits(w, l, "write")
    BY <1>1, <1>3, <2>2, <2>4, DetachedEmpty DEF Fits
  <2>7. "write" \in Calls BY DEF Calls
  <2> HIDE DEF l
  <2> QED BY <2>1, <2>2, <2>3, <2>5, <2>6, <2>7, StepOnly
<1>5. ASSUME Drain(w) PROVE UartInv' /\ Moves
  <2>1. w \in Printing /\ w # Fiq /\ Runs(w) /\ job' = [job EXCEPT ![w] = "drain"]
        /\ pc' = [pc EXCEPT ![w] = FlushEntry("drain")]
        /\ UNCHANGED <<fifo, ring, swapping, attached, armed, isr, next, sent>>
    BY <1>5 DEF Drain, Goto
  <2>2. swapping => w = Printer BY <2>1, WorksAlone
  <2>3. FlushEntry("drain") \in {"drain", "flush"} BY DEF FlushEntry, Flushed
  <2>4. Fits(w, FlushEntry("drain"), "drain") BY <2>1, <2>3 DEF Fits
  <2>5. "drain" \in Calls /\ FlushEntry("drain") \in Labels BY <2>3 DEF Calls, Labels
  <2> QED BY <2>1, <2>2, <2>4, <2>5, StepOnly
<1>6. ASSUME SetTxBuffer(w) PROVE UartInv' /\ Moves
  <2>1. swapping /\ w \in Printing /\ Runs(w) /\ job' = [job EXCEPT ![w] = "swap"]
        /\ pc' = [pc EXCEPT ![w] = FlushEntry("swap")]
        /\ UNCHANGED <<fifo, ring, swapping, attached, armed, isr, next, sent>>
    BY <1>6 DEF SetTxBuffer, Goto
  <2>2. w = Printer BY <2>1, WorksAlone
  <2>3. FlushEntry("swap") = IF ~attached \/ RingEmpty THEN "swap" ELSE "flush"
    BY DEF FlushEntry, Flushed
  <2>4. Fits(w, FlushEntry("swap"), "swap") BY <1>3, <2>1, <2>2, <2>3, DetachedEmpty DEF Fits
  <2>5. "swap" \in Calls /\ FlushEntry("swap") \in Labels BY <2>3 DEF Calls, Labels
  <2>6. w # Fiq BY <1>3, <2>2
  <2> QED BY <2>1, <2>2, <2>4, <2>5, <2>6, StepOnly
<1>7. ASSUME Poll(w) PROVE UartInv' /\ Moves
  <2>1. Runs(w) /\ pc[w] = "poll" /\ Ready /\ pc' = [pc EXCEPT ![w] = "put"]
        /\ job' = [job EXCEPT ![w] = job[w]]
        /\ UNCHANGED <<fifo, ring, swapping, attached, armed, isr, next, sent>>
    BY <1>2, <1>7 DEF Poll, Goto
  <2>2. swapping => w = Printer BY <2>1, WorksAlone
  <2>3. Fits(w, "put", job[w])
    BY <1>0, <2>1 DEF Fits, UartInv, Alone, TaskSteps, FiqSteps
  <2>4. "put" \in Labels /\ job[w] \in Calls BY <1>0 DEF Labels
  <2> QED BY <2>1, <2>2, <2>3, <2>4, StepOnly
<1>8. ASSUME Full(w) PROVE UartInv' /\ Moves
  <2> DEFINE l == IF Capacity > FifoDepth /\ armed THEN "queue" ELSE "head"
  <2>1. Runs(w) /\ pc[w] = "full" /\ pc' = [pc EXCEPT ![w] = l]
        /\ job' = [job EXCEPT ![w] = job[w]]
        /\ UNCHANGED <<fifo, ring, swapping, attached, armed, isr, next, sent>>
    BY <1>2, <1>8 DEF Full, Goto
  <2>2. l \in {"queue", "head"} OBVIOUS
  <2> HIDE DEF l
  <2>3. swapping => w = Printer BY <2>1, WorksAlone
  <2>4. w # Fiq BY <2>1 DEF UartInv, FiqSteps
  <2>5. Fits(w, l, job[w])
    BY <2>1, <2>2, <2>4 DEF Fits, UartInv, Alone
  <2>6. l \in Labels /\ job[w] \in Calls BY <1>0, <2>2 DEF Labels
  <2> QED BY <2>1, <2>3, <2>4, <2>5, <2>6, StepOnly
<1>9. ASSUME Drained(w) PROVE UartInv' /\ Moves
  <2>1. Runs(w) /\ pc[w] = "drain" /\ pc' = [pc EXCEPT ![w] = "idle"]
        /\ job' = [job EXCEPT ![w] = job[w]]
        /\ UNCHANGED <<fifo, ring, swapping, attached, armed, isr, next, sent>>
    BY <1>2, <1>9 DEF Drained, Goto
  <2>2. swapping => w = Printer BY <2>1, WorksAlone
  <2>3. w # Fiq BY <2>1 DEF UartInv, FiqSteps
  <2>4. Fits(w, "idle", job[w]) BY <2>3 DEF Fits
  <2>5. "idle" \in Labels /\ job[w] \in Calls BY <1>0 DEF Labels
  <2> QED BY <2>1, <2>2, <2>3, <2>4, <2>5, StepOnly
<1> QED BY <1>4, <1>5, <1>6, <1>7, <1>8, <1>9

\* uart_fifo_write_blocked() and the bypass: the byte follows the FIFO's last,
\* and nothing is queued that it could overtake.
LEMMA DirectStep ==
    ASSUME UartInv, NEW w \in Writers, pc[w] # "idle", Runs(w), Ready, RingEmpty,
           FifoWrite(NextByte(w)), Accepted(w), pc' = [pc EXCEPT ![w] = "idle"],
           UNCHANGED <<ring, swapping, attached, armed, isr, job, sent>>
    PROVE  UartInv' /\ Moves
<1>0. job \in [Writers -> Calls] BY DEF UartInv, TypeOK, Calls
<1>1. PortType /\ RingType BY PortTypeOK DEF PortType
<1>2. NextByte(w) \in Byte /\ next' \in [Writers -> 0..1] BY <1>1, NextByteType
<1>3. fifo' = Append(fifo, NextByte(w)) /\ fifo' \in Seq(Byte) /\ Len(fifo') <= FifoDepth
  BY <1>1, <1>2, FifoFacts
<1>4. RingType' = RingType /\ RingEmpty' = RingEmpty /\ Queued' = Queued
  BY DEF ring, RingType, RingCount, RingEmpty, Queued
<1>5. PortType' BY <1>1, <1>2, <1>3, <1>4 DEF PortType
<1>6. ArmedWhileQueued' /\ NoStaleArm' /\ IsrRoom'
  BY <1>4 DEF UartInv, ArmedWhileQueued, NoStaleArm, IsrRoom
<1>7. "idle" \in Labels /\ job[w] \in Calls /\ job' = [job EXCEPT ![w] = job[w]]
  BY <1>0 DEF Labels
<1>8. Fits(w, "idle", job[w])' BY DEF Fits
<1>9. swapping => w = Printer BY WorksAlone
<1>10. ~swapping => attached' BY DEF UartInv, Alone
<1>11. UartInv' BY <1>5, <1>6, <1>7, <1>8, <1>9, <1>10, StepOfWriter
<1>12. Queued = <<>> BY <1>1, EmptyQueue
<1>13. Line' = Append(Line, NextByte(w))
  <2>1. fifo \in Seq(Byte) BY <1>1 DEF PortType
  <2>2. Append(fifo, NextByte(w)) \o <<>> = Append(fifo \o <<>>, NextByte(w))
    BY <1>2, <2>1, LineFacts
  <2> QED BY <1>3, <1>4, <1>12, <2>2 DEF Line
<1> QED BY <1>11, <1>13 DEF Moves

\* A writer without a ring that puts its byte into the FIFO keeps the invariant.
LEMMA PutStep ==
    ASSUME UartInv, NEW w \in Writers, Put(w)
    PROVE  UartInv' /\ Moves
<1>1. pc[w] = "put" /\ Runs(w) /\ FifoWrite(NextByte(w)) /\ Accepted(w)
      /\ pc' = [pc EXCEPT ![w] = "idle"]
      /\ UNCHANGED <<ring, swapping, attached, armed, isr, job, sent>>
  BY DEF Put, Goto
<1>2. Ready BY <1>1 DEF UartInv, RoomLeft
<1>3. RingEmpty
  <2>1. CASE w = Fiq BY <1>1, <2>1 DEF UartInv, FiqSteps
  <2>2. CASE w \in Tasks BY <1>1, <2>2, DetachedEmpty DEF UartInv, TaskSteps
  <2> QED BY <2>1, <2>2 DEF Writers
<1> QED BY <1>1, <1>2, <1>3, DirectStep

\* The masked section of uart_write_byte().
LEMMA QueueStep ==
    ASSUME UartInv, NEW w \in Writers, Queue(w)
    PROVE  UartInv' /\ Moves
<1>0. job \in [Writers -> Calls] /\ job' = job /\ job' = [job EXCEPT ![w] = job[w]] /\ job[w] \in Calls
  BY DEF UartInv, TypeOK, Calls, Queue
<1>1. Runs(w) /\ pc[w] = "queue" /\ UNCHANGED <<swapping, attached, isr, sent>> BY DEF Queue
<1>2. swapping => w = Printer BY <1>1, WorksAlone
<1>3. w # Fiq BY <1>1 DEF UartInv, FiqSteps
<1>4. ASSUME NEW l \in {"poll", "full"}, pc' = [pc EXCEPT ![w] = l], l = "poll" => ~attached,
             UNCHANGED <<fifo, ring, armed, next>>
      PROVE  UartInv' /\ Moves
  <2>1. Fits(w, l, job[w])
    BY <1>1, <1>3, <1>4, DetachedEmpty DEF Fits, UartInv, Alone
  <2>2. l \in Labels BY DEF Labels
  <2> QED BY <1>0, <1>1, <1>2, <1>3, <1>4, <2>1, <2>2, StepOnly
<1>5. ASSUME attached, MayBypass, FifoWrite(NextByte(w)), Accepted(w),
             pc' = [pc EXCEPT ![w] = "idle"], UNCHANGED <<ring, armed>>
      PROVE  UartInv' /\ Moves
  BY <1>0, <1>1, <1>5, DirectStep DEF MayBypass
<1>6. ASSUME attached, ~RingFull, RingPut(NextByte(w)), Accepted(w), Arm,
             pc' = [pc EXCEPT ![w] = "idle"], UNCHANGED fifo
      PROVE  UartInv' /\ Moves
  <2>1. PortType /\ RingType BY PortTypeOK DEF PortType
  <2>2. NextByte(w) \in Byte /\ next' \in [Writers -> 0..1] BY <1>6, <2>1, NextByteType
  <2>3. RingType' /\ Queued' = Append(Queued, NextByte(w)) BY <1>6, <2>1, <2>2, PutFacts
  <2>4. PortType' BY <1>1, <1>6, <2>1, <2>2, <2>3 DEF PortType, Arm
  <2>5. ArmedWhileQueued' /\ NoStaleArm'
    BY <1>1, <1>6 DEF ArmedWhileQueued, NoStaleArm, Arm
  <2>6. IsrRoom'
    <3>1. isr = Off BY <1>1, <1>3 DEF Runs
    <3> QED BY <1>1, <3>1 DEF IsrRoom, Off
  <2>7. Fits(w, "idle", job[w])' BY <1>3 DEF Fits
  <2>8. "idle" \in Labels BY DEF Labels
  <2>9. UartInv' BY <1>0, <1>1, <1>2, <1>6, <2>4, <2>5, <2>6, <2>7, <2>8, StepOfWriter
  <2>10. fifo \in Seq(Byte) /\ Queued \in Seq(Byte)
    BY <2>1, QueuedFacts DEF PortType, QueuedIs
  <2>11. fifo \o Append(Queued, NextByte(w)) = Append(fifo \o Queued, NextByte(w))
    BY <2>2, <2>10, LineFacts
  <2>12. Line' = Append(Line, NextByte(w)) BY <1>6, <2>3, <2>11 DEF Line
  <2> QED BY <1>1, <1>6, <2>9, <2>12 DEF Moves
<1> QED BY <1>4, <1>5, <1>6 DEF Queue, Goto

\* The head of the queue goes into a FIFO with room: the stream stays as it is.
LEMMA HeadMoves ==
    ASSUME UartInv, Ready, ~RingEmpty, FifoWrite(RingHead), RingDrop,
           UNCHANGED <<attached, armed, next, sent>>, isr' \in Off..FifoDepth
    PROVE  PortType' /\ Line' = Line /\ Len(fifo') = Len(fifo) + 1
<1>1. PortType /\ RingType BY PortTypeOK DEF PortType
<1>2. /\ RingType' /\ RingHead \in Byte
      /\ Queued # <<>> /\ RingHead = Head(Queued) /\ Queued' = Tail(Queued)
  BY <1>1, DropFacts
<1>3. fifo' = Append(fifo, RingHead) /\ fifo' \in Seq(Byte) /\ Len(fifo') = Len(fifo) + 1
      /\ Len(fifo') <= FifoDepth
  BY <1>1, <1>2, FifoFacts
<1>4. PortType' BY <1>1, <1>2, <1>3 DEF PortType
<1>5. fifo \in Seq(Byte) /\ Queued \in Seq(Byte) BY <1>1, QueuedFacts DEF PortType, QueuedIs
<1>6. Append(fifo, Head(Queued)) \o Tail(Queued) = fifo \o Queued BY <1>2, <1>5, LineFacts
<1>7. Line' = Line BY <1>2, <1>3, <1>6 DEF Line
<1> QED BY <1>3, <1>4, <1>7

\* A writer that moves the head of a full queue to the FIFO keeps the invariant.
LEMMA SendHeadStep ==
    ASSUME UartInv, NEW w \in Writers, SendHead(w)
    PROVE  UartInv' /\ Moves
<1>0. /\ job \in [Writers -> Calls] /\ job' = job /\ pc \in [Writers -> Labels]
  BY DEF UartInv, TypeOK, Calls, Labels, SendHead
<1> PICK c \in Calls : c = job[w] BY <1>0
<1> PICK l \in {"queue", "flush"} : l = IF job[w] = "write" /\ w # Fiq THEN "queue" ELSE "flush"
  OBVIOUS
<1>1. Runs(w) /\ pc[w] = "head" /\ Ready /\ pc' = [pc EXCEPT ![w] = l]
      /\ job' = [job EXCEPT ![w] = c]
      /\ UNCHANGED <<swapping, attached, armed, isr, next, sent>>
  BY <1>0 DEF SendHead, Goto
<1>2. swapping => w = Printer BY <1>1, WorksAlone
<1>3. (l = "flush" => c # "write" \/ w = Fiq) /\ (w = Fiq => l = "flush")
  OBVIOUS
<1>4. l \in Labels BY <1>3 DEF Labels
<1>5. w \in Tasks => w # Fiq BY UartAssumption
<1>6. ~swapping => c # "swap" BY <1>1 DEF UartInv, Alone
<1>7. w = Fiq => c = "write" /\ ~swapping BY <1>1 DEF UartInv, FiqSteps
<1>8. CASE RingEmpty
  <2>1. UNCHANGED <<fifo, ring>> BY <1>8 DEF SendHead
  <2>2. Fits(w, l, c) BY <1>3, <1>5, <1>6, <1>7 DEF Fits
  <2> QED BY <1>0, <1>1, <1>2, <1>3, <1>4, <2>1, <2>2, StepOnly
<1>9. CASE ~RingEmpty
  <2>1. FifoWrite(RingHead) /\ RingDrop BY <1>9 DEF SendHead
  <2>2. isr' \in Off..FifoDepth BY <1>1 DEF UartInv, TypeOK
  <2>3. PortType' /\ Line' = Line BY <1>1, <1>9, <2>1, <2>2, HeadMoves
  <2>4. Fits(w, l, c)' BY <1>1, <1>3, <1>5, <1>6, <1>7 DEF Fits
  <2>5. attached /\ armed BY <1>9, DetachedEmpty DEF UartInv, ArmedWhileQueued
  <2>6. ArmedWhileQueued' /\ NoStaleArm' BY <1>1, <2>5 DEF ArmedWhileQueued, NoStaleArm
  <2>7. IsrRoom'
    <3>1. Fiq \in Writers BY DEF Writers
    <3>2. CASE w = Fiq BY <1>0, <1>1, <1>3, <3>1, <3>2 DEF IsrRoom
    <3>3. CASE w # Fiq
      <4>1. isr' = Off BY <1>1, <3>3 DEF Runs
      <4> QED BY <4>1 DEF IsrRoom, Off
    <3> QED BY <3>2, <3>3
  <2>8. UartInv' BY <1>0, <1>1, <1>2, <1>4, <2>3, <2>4, <2>5, <2>6, <2>7, StepOfWriter
  <2> QED BY <1>1, <2>3, <2>8 DEF Moves
<1> QED BY <1>8, <1>9

\* uart_tx_flush_queue() disarms only in the section that saw the ring empty.
LEMMA FlushStep ==
    ASSUME UartInv, NEW w \in Writers, Flush(w)
    PROVE  UartInv' /\ Moves
<1>0. /\ job \in [Writers -> Calls] /\ job' = job /\ pc \in [Writers -> Labels]
  BY DEF UartInv, TypeOK, Calls, Labels, Flush
<1> PICK c \in Calls : c = job[w] BY <1>0
<1>1. Runs(w) /\ pc[w] = "flush" /\ job' = [job EXCEPT ![w] = c]
      /\ UNCHANGED <<fifo, ring, swapping, attached, isr, next, sent>>
  BY <1>0 DEF Flush
<1>2. swapping => w = Printer BY <1>1, WorksAlone
<1>3. w \in Tasks <=> w # Fiq BY UartAssumption DEF Writers
<1>4. /\ ~swapping => c # "swap"
      /\ w = Fiq => c = "write" /\ ~swapping
      /\ w # Fiq => c # "write"
  BY <1>1, <1>3 DEF UartInv, Alone, FiqSteps, TaskSteps
<1>5. CASE ~RingEmpty
  <2>1. pc' = [pc EXCEPT ![w] = "head"] /\ armed' = armed BY <1>5 DEF Flush, Goto
  <2>2. Fits(w, "head", c) BY <1>4 DEF Fits
  <2>3. "head" \in Labels BY DEF Labels
  <2> QED BY <1>1, <1>2, <2>1, <2>2, <2>3, StepOnly
<1>6. CASE RingEmpty
  <2>1. Flushed(c) \in Labels \ {"idle"} /\ Fits(w, Flushed(c), c) BY <1>4, <1>6, FlushedFits
  <2> PICK l \in Labels \ {"idle"} : l = Flushed(c) BY <2>1
  <2>2. armed' = FALSE /\ pc' = [pc EXCEPT ![w] = l] BY <1>6 DEF Flush, Goto
  <2>3. Line' = Line /\ RingEmpty' = RingEmpty /\ Ready' = Ready /\ RingType' = RingType
        /\ UNCHANGED <<fifo, data, in, out>>
    BY <1>1, StillFacts
  <2>4. PortType' BY <1>1, <2>2, <2>3, PortTypeOK DEF PortType
  <2>5. Fits(w, l, c)' BY <1>1, <2>1, <2>3 DEF Fits
  <2>6. ArmedWhileQueued' /\ NoStaleArm' /\ IsrRoom'
    BY <1>6, <2>2, <2>3 DEF ArmedWhileQueued, NoStaleArm, IsrRoom
  <2>7. ~swapping => attached' BY <1>1 DEF UartInv, Alone
  <2>8. UartInv' BY <1>1, <1>2, <2>2, <2>4, <2>5, <2>6, <2>7, StepOfWriter
  <2> QED BY <1>1, <2>3, <2>8 DEF Moves
<1> QED BY <1>5, <1>6

\* uart_set_tx_buffer() swaps an empty ring and leaves the interrupt off.
LEMMA SwapStep ==
    ASSUME UartInv, NEW w \in Writers, Swap(w)
    PROVE  UartInv' /\ Moves
<1>0. /\ job \in [Writers -> Calls] /\ job' = job /\ attached \in BOOLEAN
  BY DEF UartInv, TypeOK, Calls, Labels, Swap
<1> PICK c \in Calls : c = job[w] BY <1>0
<1>1. Runs(w) /\ pc[w] = "swap" /\ job' = [job EXCEPT ![w] = c] /\ armed' = FALSE
      /\ attached' = ~attached /\ pc' = [pc EXCEPT ![w] = "idle"]
      /\ UNCHANGED <<fifo, ring, swapping, isr, next, sent>>
  BY <1>0 DEF Swap, Goto
<1>2. swapping => w = Printer BY <1>1, WorksAlone
<1>3. w # Fiq BY <1>1 DEF UartInv, FiqSteps
<1>4. RingEmpty /\ swapping BY <1>1, <1>3 DEF UartInv, TaskSteps, Writers
<1>5. Line' = Line /\ RingEmpty' = RingEmpty /\ RingType' = RingType
      /\ UNCHANGED <<fifo, data, in, out>>
  BY <1>1, StillFacts
<1>6. PortType' BY <1>0, <1>1, <1>5, PortTypeOK DEF PortType
<1>7. Fits(w, "idle", c)' BY <1>3 DEF Fits
<1>8. ArmedWhileQueued' /\ NoStaleArm' /\ IsrRoom'
  BY <1>1, <1>4, <1>5 DEF ArmedWhileQueued, NoStaleArm, IsrRoom
<1>9. "idle" \in Labels BY DEF Labels
<1>10. UartInv' BY <1>1, <1>2, <1>4, <1>6, <1>7, <1>8, <1>9, StepOfWriter
<1> QED BY <1>1, <1>5, <1>10 DEF Moves

\* The interrupt and the wire leave the writers where they are; they keep the
\* invariant when they put nothing into the ring and leave a writer its room.
LEMMA StepOfPort ==
    ASSUME UartInv, UNCHANGED <<swapping, attached, pc, job>>,
           PortType', IsrRoom', ArmedWhileQueued', NoStaleArm',
           RingEmpty => RingEmpty',
           \A w \in Writers : pc[w] = "put" => Ready'
    PROVE  UartInv'
<1>1. TypeOK' BY DEF UartInv, TypeOK, PortType, RingType
<1>2. Alone' /\ TaskSteps' /\ FiqSteps' BY DEF UartInv, Alone, TaskSteps, FiqSteps
<1>3. RoomLeft' BY DEF RoomLeft, IsrRoom
<1> QED BY <1>1, <1>2, <1>3 DEF UartInv

\* The interrupt keeps the invariant: it enters, moves a byte, or leaves.
LEMMA IsrStep ==
    ASSUME UartInv, Isr
    PROVE  UartInv' /\ Moves
<1>0. PortType /\ IsrRoom /\ RingType BY PortTypeOK DEF PortType
<1>1. /\ Len(fifo) \in Nat /\ Len(fifo) <= FifoDepth /\ FifoDepth \in Nat /\ isr \in Off..FifoDepth
      /\ isr \in Int /\ Off = 0 - 1
  BY <1>0, UartAssumption DEF PortType, Off
<1>2. CASE IsrEnter
  <2>1. pc[Fiq] = "idle" /\ Ready /\ isr' = FifoDepth - Len(fifo)
        /\ UNCHANGED <<fifo, ring, swapping, attached, armed, pc, job, next, sent>>
    BY <1>2 DEF IsrEnter
  <2>2. Line' = Line /\ RingEmpty' = RingEmpty /\ Ready' = Ready /\ RingType' = RingType
        /\ UNCHANGED <<fifo, data, in, out>>
    BY <2>1, StillFacts
  <2>3. isr' \in Off..FifoDepth BY <1>1, <2>1
  <2>4. PortType' BY <1>0, <2>1, <2>2, <2>3 DEF PortType
  <2>5. IsrRoom' BY <1>1, <2>1, <2>2 DEF IsrRoom
  <2>6. ArmedWhileQueued' /\ NoStaleArm' BY <2>1, <2>2 DEF UartInv, ArmedWhileQueued, NoStaleArm
  <2>7. UartInv' BY <2>1, <2>2, <2>4, <2>5, <2>6, StepOfPort DEF UartInv, RoomLeft
  <2> QED BY <2>1, <2>2, <2>7 DEF Moves
<1>3. CASE IsrByte
  <2>1. isr > 0 /\ pc[Fiq] = "idle" /\ attached /\ ~RingEmpty /\ FifoWrite(RingHead) /\ RingDrop
        /\ isr' = isr - 1 /\ UNCHANGED <<swapping, attached, armed, pc, job, next, sent>>
    BY <1>3 DEF IsrByte
  <2>2. isr <= FifoDepth - Len(fifo) BY <1>0, <2>1 DEF IsrRoom
  <2>3. Ready /\ isr' \in Off..FifoDepth BY <1>1, <2>1, <2>2 DEF Ready
  <2>4. PortType' /\ Line' = Line /\ Len(fifo') = Len(fifo) + 1 BY <2>1, <2>3, HeadMoves
  <2>5. IsrRoom'
    <3>1. isr - 1 <= FifoDepth - (Len(fifo) + 1) BY <1>1, <2>2
    <3> QED BY <2>1, <2>4, <3>1 DEF IsrRoom
  <2>6. armed BY <2>1 DEF UartInv, ArmedWhileQueued
  <2>7. ArmedWhileQueued' /\ NoStaleArm' BY <2>1, <2>6 DEF ArmedWhileQueued, NoStaleArm
  <2>8. ASSUME NEW w \in Writers, pc[w] = "put" PROVE FALSE
    BY <2>1, <2>8 DEF UartInv, TaskSteps, Writers
  <2>9. UartInv' BY <2>1, <2>4, <2>5, <2>7, <2>8, StepOfPort
  <2> QED BY <2>1, <2>4, <2>9 DEF Moves
<1>4. CASE IsrLeave
  <2>1. isr' = Off /\ UNCHANGED <<fifo, ring, swapping, attached, pc, job, next, sent>>
        /\ (armed' = armed \/ (armed' = FALSE /\ (~attached \/ RingEmpty)))
    BY <1>4 DEF IsrLeave
  <2>2. Line' = Line /\ RingEmpty' = RingEmpty /\ Ready' = Ready /\ RingType' = RingType
        /\ UNCHANGED <<fifo, data, in, out>>
    BY <2>1, StillFacts
  <2>3. isr' \in Off..FifoDepth BY <1>1, <2>1
  <2>4. armed' \in BOOLEAN BY <2>1, <1>0 DEF PortType
  <2>5. PortType' BY <1>0, <2>1, <2>2, <2>3, <2>4 DEF PortType
  <2>6. IsrRoom' BY <1>1, <2>1 DEF IsrRoom
  <2>7. ArmedWhileQueued' /\ NoStaleArm' BY <2>1, <2>2 DEF UartInv, ArmedWhileQueued, NoStaleArm
  <2>8. UartInv' BY <2>1, <2>2, <2>5, <2>6, <2>7, StepOfPort DEF UartInv, RoomLeft
  <2> QED BY <2>1, <2>2, <2>8 DEF Moves
<1> QED BY <1>2, <1>3, <1>4 DEF Isr

\* A byte that leaves the FIFO on the wire keeps the invariant.
LEMMA WireStep ==
    ASSUME UartInv, Wire
    PROVE  UartInv' /\ Moves
<1>0. PortType /\ IsrRoom /\ RingType /\ fifo \in Seq(Byte) BY PortTypeOK DEF PortType
<1>1. fifo # <<>> /\ fifo' = Tail(fifo) /\ sent' = [sent EXCEPT ![Head(fifo).by] = (Head(fifo).no + 1) % 2]
      /\ UNCHANGED <<ring, swapping, attached, armed, isr, pc, job, next>>
  BY DEF Wire
<1>2. Tail(fifo) \in Seq(Byte) /\ Len(Tail(fifo)) = Len(fifo) - 1 /\ Len(fifo) \in Nat
      /\ Head(fifo) \in Byte
  BY <1>0, <1>1
<1>3. RingEmpty' = RingEmpty /\ RingType' = RingType /\ Queued' = Queued
  BY <1>1 DEF ring, RingEmpty, RingType, RingCount, Queued
<1>4. Head(fifo).no \in 0..1 /\ Head(fifo).by \in Writers BY <1>2 DEF Byte
<1>5. (Head(fifo).no + 1) % 2 \in 0..1 BY <1>4
<1>6. sent' \in [Writers -> 0..1] BY <1>0, <1>1, <1>4, <1>5 DEF PortType
<1>7. FifoDepth \in Nat /\ Len(fifo) <= FifoDepth BY <1>0, UartAssumption DEF PortType
<1>8. PortType' BY <1>0, <1>1, <1>2, <1>3, <1>6, <1>7 DEF PortType
<1>9. isr \in Int BY <1>0, <1>7 DEF PortType, Off
<1>10. IsrRoom' BY <1>0, <1>1, <1>2, <1>3, <1>7, <1>9 DEF IsrRoom
<1>11. ArmedWhileQueued' /\ NoStaleArm' BY <1>1, <1>3 DEF UartInv, ArmedWhileQueued, NoStaleArm
<1>12. Ready' BY <1>1, <1>2, <1>7 DEF Ready
<1>13. UartInv' BY <1>1, <1>3, <1>8, <1>10, <1>11, <1>12, StepOfPort
<1>14. Queued \in Seq(Byte) BY <1>0, QueuedFacts DEF QueuedIs
<1>15. Tail(fifo) \o Queued = Tail(fifo \o Queued) /\ fifo \o Queued # <<>>
       /\ Head(fifo \o Queued) = Head(fifo)
  BY <1>0, <1>1, <1>2, <1>14, LineFacts
<1> QED BY <1>1, <1>3, <1>13, <1>15 DEF Moves, Line

\* The driver starts detached, with nothing queued or armed.
LEMMA UartInvInit == Init => UartInv
<1> SUFFICES ASSUME Init PROVE UartInv
  OBVIOUS
<1>0. Capacity \in Nat \ {0} /\ Wrap \in Nat /\ Wrap > Capacity /\ FifoDepth \in Nat \ {0}
  BY UartAssumption
<1>1. in = 0 /\ out = 0 /\ 0 % Wrap = 0 BY <1>0 DEF Init
<1>2. RingCount = 0 /\ RingEmpty BY <1>0, <1>1 DEF RingCount, RingEmpty
<1>3. [by |-> Fiq, no |-> 0] \in Byte BY DEF Byte, Writers
<1>4. data \in [0..(Capacity - 1) -> Byte] BY <1>3 DEF Init
<1>5. RingType BY <1>0, <1>1, <1>2, <1>4 DEF RingType
<1>6. fifo \in Seq(Byte) /\ Len(fifo) = 0 BY DEF Init
<1>7. isr = Off /\ isr \in Off..FifoDepth BY <1>0 DEF Init, Off
<1>8. TypeOK
  <2>1. /\ swapping \in BOOLEAN /\ attached \in BOOLEAN /\ armed \in BOOLEAN
    BY DEF Init
  <2>2. /\ pc \in [Writers -> Labels] /\ job \in [Writers -> Calls]
        /\ next \in [Writers -> 0..1] /\ sent \in [Writers -> 0..1]
    BY DEF Init, Labels, Calls
  <2>3. Len(fifo) <= FifoDepth BY <1>0, <1>6
  <2> QED BY <1>5, <1>6, <1>7, <2>1, <2>2, <2>3 DEF TypeOK, RingType, Labels, Calls
<1>9. Alone /\ TaskSteps /\ FiqSteps BY DEF Init, Alone, TaskSteps, FiqSteps, Writers
<1>10. RoomLeft BY <1>2 DEF Init, RoomLeft
<1>11. ArmedWhileQueued /\ NoStaleArm BY <1>2 DEF Init, ArmedWhileQueued, NoStaleArm
<1> QED BY <1>8, <1>9, <1>10, <1>11 DEF UartInv

\* Every step keeps the invariant, and moves the stream as it should.
LEMMA UartInvStep == UartInv /\ [Next]_vars => UartInv' /\ Moves
<1> SUFFICES ASSUME UartInv, [Next]_vars PROVE UartInv' /\ Moves
  OBVIOUS
<1>1. CASE UNCHANGED vars
  <2>1. Line' = Line BY <1>1, StillFacts DEF vars
  <2>2. UartInv'
    BY <1>1 DEF vars, ring, UartInv, TypeOK, RingCount, RingEmpty, Ready, Alone, TaskSteps, FiqSteps,
               RoomLeft, ArmedWhileQueued, NoStaleArm
  <2> QED BY <1>1, <2>1, <2>2 DEF vars, Moves
<1>2. ASSUME NEW w \in Writers, Continue(w) PROVE UartInv' /\ Moves
  BY <1>2, PlainSteps, PutStep, QueueStep, SendHeadStep, FlushStep, SwapStep DEF Continue
<1>3. ASSUME NEW w \in Writers, Write(w) \/ Drain(w) \/ SetTxBuffer(w) PROVE UartInv' /\ Moves
  BY <1>3, PlainSteps
<1> QED BY <1>1, <1>2, <1>3, IsrStep, WireStep DEF Next

\* uart.c never leaves a queued byte with the interrupt off.
THEOREM QueuedIsArmed == Spec => []ArmedWhileQueued
<1>1. UartInv => ArmedWhileQueued BY DEF UartInv
<1>2. UartInv /\ [Next]_vars => UartInv' BY UartInvStep
<1> QED BY <1>1, <1>2, UartInvInit, PTL DEF Spec

\* Without a ring the interrupt is off and nothing is queued.
THEOREM DetachedIsQuiet == Spec => []NoStaleArm
<1>1. UartInv => NoStaleArm BY DEF UartInv
<1>2. UartInv /\ [Next]_vars => UartInv' BY UartInvStep
<1> QED BY <1>1, <1>2, UartInvInit, PTL DEF Spec

-----------------------------------------------------------------------------
(* The order of the stream.                                                *)

Of(line, w) == {i \in 1..Len(line) : line[i].by = w}

\* The bytes of w in a line run from s to the one before x, alternating.
InOrder(line, w, s, x) ==
    /\ Of(line, w) = {} => s = x
    /\ \A i \in Of(line, w) :
          /\ (\A j \in Of(line, w) : i <= j) => line[i].no = s
          /\ (\A j \in Of(line, w) : j <= i) => line[i].no # x
    /\ \A i, j \in Of(line, w) :
          i < j /\ (\A k \in Of(line, w) : k <= i \/ j <= k) => line[i].no # line[j].no

\* The property StreamInOrder in the form the proofs use.
LEMMA StreamIs == StreamInOrder <=> \A w \in Writers : InOrder(Line, w, sent[w], next[w])
BY DEF StreamInOrder, OnTheWay, InOrder, Of

\* The next byte of v at the end keeps the order.
LEMMA AppendInOrder ==
    ASSUME NEW line \in Seq(Byte), NEW v \in Writers, NEW b \in Byte, b.by = v,
           NEW w \in Writers, NEW s \in 0..1, NEW x \in 0..1, NEW y \in 0..1,
           InOrder(line, w, s, x),
           IF w = v THEN b.no = x /\ y # x ELSE y = x
    PROVE  InOrder(Append(line, b), w, s, y)
<1> DEFINE n == Len(line)
           l == Append(line, b)
<1>1. n \in Nat /\ Len(l) = n + 1 /\ l[n + 1] = b /\ \A i \in 1..n : l[i] = line[i]
  OBVIOUS
<1> HIDE DEF n, l
<1>2. CASE w # v
  <2>1. Of(l, w) = Of(line, w) BY <1>1, <1>2 DEF Of, n
  <2>2. \A i \in Of(line, w) : l[i] = line[i] BY <1>1 DEF Of, n
  <2> QED BY <1>2, <2>1, <2>2 DEF InOrder, l
<1>3. CASE w = v
  <2>1. Of(l, w) = Of(line, w) \cup {n + 1} BY <1>1, <1>3 DEF Of, n
  <2>2. \A i \in Of(line, w) : l[i] = line[i] /\ i < n + 1 /\ i \in Nat BY <1>1 DEF Of, n
  <2>3. b.no = x /\ y # x BY <1>3
  <2>4. ASSUME NEW i \in Of(l, w), \A j \in Of(l, w) : i <= j PROVE l[i].no = s
    <3>1. CASE i = n + 1
      <4>1. Of(line, w) = {} BY <1>1, <2>1, <2>2, <2>4, <3>1
      <4> QED BY <1>1, <2>3, <3>1, <4>1 DEF InOrder
    <3>2. CASE i \in Of(line, w) BY <2>1, <2>2, <2>4, <3>2 DEF InOrder
    <3> QED BY <2>1, <3>1, <3>2
  <2>5. ASSUME NEW i \in Of(l, w), \A j \in Of(l, w) : j <= i PROVE l[i].no # y
    <3>1. i = n + 1 BY <1>1, <2>1, <2>2, <2>5
    <3> QED BY <1>1, <2>3, <3>1
  <2>6. ASSUME NEW i \in Of(l, w), NEW j \in Of(l, w), i < j,
               \A k \in Of(l, w) : k <= i \/ j <= k
        PROVE  l[i].no # l[j].no
    <3>1. i \in Of(line, w) BY <1>1, <2>1, <2>2, <2>6
    <3>2. CASE j \in Of(line, w) BY <2>1, <2>2, <2>6, <3>1, <3>2 DEF InOrder
    <3>3. CASE j = n + 1
      <4>1. \A k \in Of(line, w) : k <= i BY <1>1, <2>1, <2>2, <2>6, <3>3
      <4>2. line[i].no # x BY <3>1, <4>1 DEF InOrder
      <4> QED BY <1>1, <2>2, <2>3, <3>1, <3>3, <4>2
    <3> QED BY <2>1, <3>2, <3>3
  <2>7. Of(l, w) # {} BY <2>1
  <2> QED BY <2>4, <2>5, <2>6, <2>7 DEF InOrder, l
<1> QED BY <1>2, <1>3

\* The first byte out on the wire keeps the order.
LEMMA TailInOrder ==
    ASSUME NEW line \in Seq(Byte), line # <<>>,
           NEW w \in Writers, NEW s \in 0..1, NEW x \in 0..1, NEW u \in 0..1,
           InOrder(line, w, s, x),
           IF w = Head(line).by THEN u # Head(line).no ELSE u = s
    PROVE  InOrder(Tail(line), w, u, x)
<1> DEFINE n == Len(line)
           l == Tail(line)
<1>1. n \in Nat /\ n >= 1 /\ Len(l) = n - 1 /\ Head(line) = line[1]
      /\ \A i \in 1..(n - 1) : l[i] = line[i + 1]
  OBVIOUS
<1>2. ASSUME NEW i \in 1..n PROVE line[i].no \in 0..1
  <2>1. line[i] \in Byte OBVIOUS
  <2> QED BY <2>1 DEF Byte
<1> HIDE DEF n, l
<1>3. \A i \in Of(l, w) : i \in Nat /\ i + 1 \in Of(line, w) /\ l[i] = line[i + 1] /\ 1 < i + 1
  BY <1>1 DEF Of, n
<1>4. \A k \in Of(line, w) : k \in Nat /\ k >= 1 /\ (k > 1 => k - 1 \in Of(l, w))
  BY <1>1 DEF Of, n
<1>5. \A k \in Of(line, w) : line[k].no \in 0..1 BY <1>2 DEF Of, n
<1>6. 1 \in Of(line, w) <=> w = Head(line).by BY <1>1 DEF Of, n
<1>7. ASSUME NEW i \in Of(l, w), NEW j \in Of(l, w), i < j,
             \A k \in Of(l, w) : k <= i \/ j <= k
      PROVE  l[i].no # l[j].no
  <2>1. ASSUME NEW k \in Of(line, w) PROVE k <= i + 1 \/ j + 1 <= k
    <3>1. CASE k > 1
      <4>1. k - 1 <= i \/ j <= k - 1 BY <1>4, <1>7, <3>1
      <4> QED BY <1>3, <1>4, <4>1
    <3>2. CASE k <= 1 BY <1>3, <1>4, <3>2
    <3> QED BY <1>4, <3>1, <3>2
  <2>2. i + 1 < j + 1 BY <1>3, <1>7
  <2> QED BY <1>3, <2>1, <2>2 DEF InOrder
<1>8. ASSUME NEW i \in Of(l, w), \A j \in Of(l, w) : j <= i PROVE l[i].no # x
  <2>1. ASSUME NEW k \in Of(line, w) PROVE k <= i + 1
    <3>1. k \in Nat /\ (k > 1 => k - 1 <= i) BY <1>4, <1>8
    <3> QED BY <1>3, <3>1
  <2> QED BY <1>3, <2>1 DEF InOrder
<1>9. ASSUME NEW i \in Of(l, w), \A j \in Of(l, w) : i <= j PROVE l[i].no = u
  <2>1. ASSUME NEW k \in Of(line, w) PROVE k <= 1 \/ i + 1 <= k
    <3>1. k \in Nat /\ (k > 1 => i <= k - 1) BY <1>4, <1>9
    <3> QED BY <1>3, <3>1
  <2>2. CASE w = Head(line).by
    <3>1. 1 \in Of(line, w) /\ 1 < i + 1 /\ i + 1 \in Of(line, w) BY <1>3, <1>6, <2>2
    <3>2. line[1].no # line[i + 1].no BY <2>1, <3>1 DEF InOrder
    <3> QED BY <1>1, <1>3, <1>5, <2>2, <3>1, <3>2
  <2>3. CASE w # Head(line).by
    <3>1. \A k \in Of(line, w) : i + 1 <= k
      <4>1. \A k \in Of(line, w) : k # 1 BY <1>6, <2>3
      <4> QED BY <1>4, <2>1, <4>1
    <3>2. line[i + 1].no = s BY <1>3, <3>1 DEF InOrder
    <3> QED BY <1>3, <2>3, <3>2
  <2> QED BY <2>2, <2>3
<1>10. ASSUME Of(l, w) = {} PROVE u = x
  <2>1. \A k \in Of(line, w) : k = 1 BY <1>4, <1>10
  <2>2. CASE w = Head(line).by
    <3>1. 1 \in Of(line, w) BY <1>6, <2>2
    <3>2. line[1].no # x BY <2>1, <3>1 DEF InOrder
    <3> QED BY <1>1, <1>5, <2>2, <3>1, <3>2
  <2>3. CASE w # Head(line).by
    <3>1. Of(line, w) = {} BY <1>6, <2>1, <2>3
    <3> QED BY <2>3, <3>1 DEF InOrder
  <2> QED BY <2>2, <2>3
<1> QED BY <1>7, <1>8, <1>9, <1>10 DEF InOrder, l

\* Every way the stream moves keeps it in order.
LEMMA MovesInOrder ==
    ASSUME PortType, StreamInOrder, Moves
    PROVE  StreamInOrder'
<1>0. /\ Line \in Seq(Byte) /\ next \in [Writers -> 0..1] /\ sent \in [Writers -> 0..1]
  <2>1. fifo \in Seq(Byte) /\ Queued \in Seq(Byte) BY QueuedFacts DEF PortType, QueuedIs
  <2> QED BY <2>1, ConcatProperties DEF Line, PortType
<1>1. SUFFICES ASSUME NEW w \in Writers PROVE InOrder(Line', w, sent'[w], next'[w])
  <2>1. StreamInOrder' <=> \A w \in Writers : InOrder(Line, w, sent[w], next[w])'
    BY DEF StreamInOrder, OnTheWay, InOrder, Of
  <2>2. \A w \in Writers : InOrder(Line, w, sent[w], next[w])' <=> InOrder(Line', w, sent'[w], next'[w])
    BY DEF InOrder, Of
  <2> QED BY <2>1, <2>2
<1>2. InOrder(Line, w, sent[w], next[w]) BY StreamIs
<1>3. CASE Line' = Line /\ UNCHANGED <<sent, next>>
  BY <1>2, <1>3
<1>4. ASSUME NEW v \in Writers, Line' = Append(Line, NextByte(v)), Accepted(v), UNCHANGED sent
      PROVE  InOrder(Line', w, sent'[w], next'[w])
  <2>1. NextByte(v) \in Byte /\ NextByte(v).by = v /\ NextByte(v).no = next[v]
    BY NextByteType DEF NextByte
  <2>2. next'[w] = IF w = v THEN (next[v] + 1) % 2 ELSE next[w] BY <1>0, <1>4 DEF Accepted
  <2>3. next[v] \in 0..1 /\ (next[v] + 1) % 2 \in 0..1 /\ (next[v] + 1) % 2 # next[v]
    BY <1>0
  <2>4. next'[w] \in 0..1 /\ IF w = v THEN NextByte(v).no = next[w] /\ next'[w] # next[w] ELSE next'[w] = next[w]
    BY <1>0, <2>1, <2>2, <2>3
  <2>5. InOrder(Append(Line, NextByte(v)), w, sent[w], next'[w])
    BY <1>0, <1>2, <2>1, <2>4, AppendInOrder
  <2> QED BY <1>4, <2>5
<1>5. ASSUME Line # <<>>, Line' = Tail(Line), UNCHANGED next,
             sent' = [sent EXCEPT ![Head(Line).by] = (Head(Line).no + 1) % 2]
      PROVE  InOrder(Line', w, sent'[w], next'[w])
  <2>1. Head(Line) \in Byte BY <1>0, <1>5
  <2>2. Head(Line).no \in 0..1 /\ Head(Line).by \in Writers BY <2>1 DEF Byte
  <2>3. (Head(Line).no + 1) % 2 \in 0..1 /\ (Head(Line).no + 1) % 2 # Head(Line).no BY <2>2
  <2>4. sent'[w] = IF w = Head(Line).by THEN (Head(Line).no + 1) % 2 ELSE sent[w]
    BY <1>0, <1>5, <2>2
  <2>5. sent'[w] \in 0..1 /\ IF w = Head(Line).by THEN sent'[w] # Head(Line).no ELSE sent'[w] = sent[w]
    BY <1>0, <2>3, <2>4
  <2>6. InOrder(Tail(Line), w, sent'[w], next[w])
    BY <1>0, <1>2, <1>5, <2>5, TailInOrder
  <2> QED BY <1>5, <2>6
<1> QED BY <1>3, <1>4, <1>5 DEF Moves

\* Whatever the interrupt, masked code and the other tasks do, the bytes of a
\* writer leave once each and in the order it wrote them.
THEOREM StreamKeepsOrder == Spec => []StreamInOrder
<1>1. Init => StreamInOrder
  <2> SUFFICES ASSUME Init PROVE StreamInOrder
    OBVIOUS
  <2>1. RingType /\ RingEmpty
    BY UartInvInit, PortTypeOK DEF PortType, Init, RingEmpty
  <2>2. Queued = <<>> BY <2>1, EmptyQueue
  <2>3. Line = <<>> BY <2>2 DEF Init, Line
  <2> QED BY <2>3 DEF StreamInOrder, OnTheWay, Init
<1>2. UartInv /\ StreamInOrder /\ [Next]_vars => UartInv' /\ StreamInOrder'
  BY UartInvStep, PortTypeOK, MovesInOrder
<1> QED BY <1>1, <1>2, UartInvInit, PTL DEF Spec
=============================================================================
