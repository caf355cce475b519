------------------------------- MODULE UartTx -------------------------------
(***************************************************************************)
(* Transmission through a UART port (uart.c) with the ring buffer that     *)
(* feeds it (ring_buffer.c).  Tasks write bytes; a byte goes straight into *)
(* the hardware FIFO when nothing is queued and there is room, and into    *)
(* the ring otherwise, from where the interrupt moves it on.  Code that    *)
(* runs with interrupts masked, an FIQ handler here, first sends all that  *)
(* is queued and then its own byte.                                        *)
(*                                                                         *)
(* A masked section is one step.  A byte is its writer and a number; every *)
(* writer numbers its bytes 0, 1, 0, 1...  A step loses, repeats or swaps  *)
(* single bytes, so the first fault already breaks the alternation.        *)
(***************************************************************************)
EXTENDS Integers, Sequences, FiniteSets

CONSTANTS
    Tasks,          \* tasks that print
    Fiq,            \* the context that runs with interrupts masked
    FifoDepth,      \* TX_FIFO_DEPTH
    Capacity,       \* ringbuf_capacity(), a power of two
    Wrap            \* the cursors wrap here (2^32 in the code)

ASSUME UartAssumption ==
    /\ Tasks # {} /\ Fiq \notin Tasks
    /\ FifoDepth \in Nat \ {0} /\ Capacity \in Nat \ {0}
    /\ Wrap \in Nat /\ Wrap % Capacity = 0 /\ Wrap > Capacity

Writers == Tasks \cup {Fiq}
Byte    == [by : Writers, no : 0..1]

VARIABLES
    fifo,       \* the bytes in the hardware FIFO, the next to leave first
    data,       \* ringbuf.data
    in, out,    \* ringbuf.in, ringbuf.out
    swapping,   \* one task prints, and attaches and detaches the buffer; else all print
    attached,   \* uart_tx.ring is set
    armed,      \* irq_enable.tx_need_write
    isr,        \* uart_isr(): -1 when it is not running, else the FIFO room left to fill
    pc, job,    \* where each writer is, and in which call
    next,       \* the number of each writer's next byte
    sent        \* history: the number of the next byte of each writer the wire owes

ring == <<data, in, out>>
vars == <<fifo, ring, swapping, attached, armed, isr, pc, job, next, sent>>

-----------------------------------------------------------------------------
(* ring_buffer.h                                                           *)

RingCount == (in - out) % Wrap
RingEmpty == in = out

RingFull == RingCount > Capacity - 1

RingPut(b) ==
    /\ data' = [data EXCEPT ![in % Capacity] = b]
    /\ in' = (in + 1) % Wrap
    /\ UNCHANGED out

RingHead == data[out % Capacity]

RingDrop == out' = (out + 1) % Wrap /\ UNCHANGED <<data, in>>

-----------------------------------------------------------------------------
(* The hardware.                                                           *)

Ready == Len(fifo) < FifoDepth

\* A write to a full FIFO is lost.
FifoWrite(b) == fifo' = IF Ready THEN Append(fifo, b) ELSE fifo

\* The FIFO shifts a byte out on the wire.
Wire ==
    /\ fifo # <<>>
    /\ fifo' = Tail(fifo)
    /\ sent' = [sent EXCEPT ![Head(fifo).by] = (Head(fifo).no + 1) % 2]
    /\ UNCHANGED <<ring, swapping, attached, armed, isr, pc, job, next>>

-----------------------------------------------------------------------------
(* The interrupt.                                                          *)

Off == -1

\* tx_need_write is a level that is up while the FIFO has room.
IsrEnter ==
    /\ isr = Off /\ pc[Fiq] = "idle"
    /\ armed /\ Ready
    /\ isr' = FifoDepth - Len(fifo)
    /\ UNCHANGED <<fifo, ring, swapping, attached, armed, pc, job, next, sent>>

\* One byte, dequeued and written in a masked section.
IsrByte ==
    /\ isr > 0 /\ pc[Fiq] = "idle"
    /\ attached /\ ~RingEmpty
    /\ FifoWrite(RingHead) /\ RingDrop
    /\ isr' = isr - 1
    /\ UNCHANGED <<swapping, attached, armed, pc, job, next, sent>>

\* uart_isr() that also disarms when the FIFO is full again.
IsrLeaveAlwaysDisarms ==
    /\ isr # Off /\ pc[Fiq] = "idle"
    /\ isr = 0 \/ ~attached \/ RingEmpty
    /\ armed' = FALSE
    /\ isr' = Off
    /\ UNCHANGED <<fifo, ring, swapping, attached, pc, job, next, sent>>

\* The interrupt ends; it turns itself off only when nothing is left to send.
IsrLeave ==
    /\ isr # Off /\ pc[Fiq] = "idle"
    /\ \/ isr = 0 /\ UNCHANGED armed
       \/ isr > 0 /\ (~attached \/ RingEmpty) /\ armed' = FALSE
    /\ isr' = Off
    /\ UNCHANGED <<fifo, ring, swapping, attached, pc, job, next, sent>>

-----------------------------------------------------------------------------
(* Writers.  A task runs when neither the interrupt nor the FIQ does.      *)

\* Without a buffer concurrent writers lose bytes (see the README), so the case
\* without one has a single writer.
Printing == IF swapping THEN {CHOOSE t \in Tasks : TRUE} ELSE Writers

Runs(w) == w = Fiq \/ (isr = Off /\ pc[Fiq] = "idle")

Goto(w, label) == pc' = [pc EXCEPT ![w] = label]

NextByte(w) == [by |-> w, no |-> next[w]]

Accepted(w) == next' = [next EXCEPT ![w] = (@ + 1) % 2]

\* uart_set_tx_buffer() "must not run concurrently with a write", so no call
\* begins while a task swaps the buffer, and no swap begins during a call.
NobodySwaps  == \A t \in Tasks : pc[t] = "idle" \/ job[t] # "swap"
NobodyWrites == \A t \in Tasks : pc[t] = "idle"

\* Where a call goes on once the queue has been flushed.
Flushed(call) ==
    CASE call = "write" -> "poll" [] call = "drain" -> "drain" [] call = "swap" -> "swap"

\* uart_tx_flush_queue() does nothing without a ring or with an empty one.
FlushEntry(call) == IF ~attached \/ RingEmpty THEN Flushed(call) ELSE "flush"

\* uart_write_byte(): synchronous without a ring, a flush first when masked.
Write(w) ==
    /\ w \in Printing /\ Runs(w) /\ pc[w] = "idle" /\ NobodySwaps
    /\ job' = [job EXCEPT ![w] = "write"]
    /\ Goto(w, IF ~attached THEN "poll" ELSE IF w = Fiq THEN FlushEntry("write") ELSE "queue")
    /\ UNCHANGED <<fifo, ring, swapping, attached, armed, isr, next, sent>>

\* uart_fifo_write_blocked(): the wait for wr_ready, and then the write.
Poll(w) ==
    /\ Runs(w) /\ pc[w] = "poll" /\ Ready
    /\ Goto(w, "put")
    /\ UNCHANGED <<fifo, ring, swapping, attached, armed, isr, job, next, sent>>

Put(w) ==
    /\ Runs(w) /\ pc[w] = "put"
    /\ FifoWrite(NextByte(w)) /\ Accepted(w)
    /\ Goto(w, "idle")
    /\ UNCHANGED <<ring, swapping, attached, armed, isr, job, sent>>

\* The bypass that asks only the FIFO.
MayBypassAlways == Ready

\* The FIFO has room and nothing is queued in front.
MayBypass == RingEmpty /\ Ready

\* uart_tx_arm()
Arm == armed' = TRUE

\* The masked section of the loop in uart_write_byte().  wr_ready lags, so the
\* bypass may be refused while the FIFO still sends.
Queue(w) ==
    /\ Runs(w) /\ pc[w] = "queue"
    /\ \/ /\ ~attached
          /\ Goto(w, "poll")
          /\ UNCHANGED <<fifo, ring, armed, next>>
       \/ /\ attached /\ MayBypass
          /\ FifoWrite(NextByte(w)) /\ Accepted(w)
          /\ Goto(w, "idle")
          /\ UNCHANGED <<ring, armed>>
       \/ /\ attached /\ (~MayBypass \/ fifo # <<>>)
          /\ ~RingFull
          /\ RingPut(NextByte(w)) /\ Accepted(w) /\ Arm
          /\ Goto(w, "idle")
          /\ UNCHANGED fifo
       \/ /\ attached /\ RingFull
          /\ Goto(w, "full")
          /\ UNCHANGED <<fifo, ring, armed, next>>
    /\ UNCHANGED <<swapping, attached, isr, job, sent>>

\* Both buffers are full: yield if an interrupt will make room, else make it.
\* The port's source is enabled in the interrupt controller.
Full(w) ==
    /\ Runs(w) /\ pc[w] = "full"
    /\ Goto(w, IF Capacity > FifoDepth /\ armed THEN "queue" ELSE "head")
    /\ UNCHANGED <<fifo, ring, swapping, attached, armed, isr, job, next, sent>>

\* Reads the head of the queue and leaves it there.
SendHeadPeeks(w) ==
    /\ Runs(w) /\ pc[w] = "head" /\ Ready
    /\ IF RingEmpty THEN UNCHANGED fifo ELSE FifoWrite(RingHead)
    /\ Goto(w, IF job[w] = "write" /\ w # Fiq THEN "queue" ELSE "flush")
    /\ UNCHANGED <<ring, swapping, attached, armed, isr, job, next, sent>>

\* uart_tx_send_byte_blocked(): the head of the queue, once there is room.
SendHead(w) ==
    /\ Runs(w) /\ pc[w] = "head" /\ Ready
    /\ IF RingEmpty THEN UNCHANGED <<fifo, ring>>
       ELSE FifoWrite(RingHead) /\ RingDrop
    /\ Goto(w, IF job[w] = "write" /\ w # Fiq THEN "queue" ELSE "flush")
    /\ UNCHANGED <<swapping, attached, armed, isr, job, next, sent>>

\* The disarm of a flush that tested the queue before its masked section.
FlushDisarmsLate(w) ==
    /\ Runs(w) /\ pc[w] = "flush"
    /\ IF RingEmpty \/ w # Fiq
       THEN armed' = FALSE /\ Goto(w, Flushed(job[w]))
       ELSE Goto(w, "head") /\ UNCHANGED armed
    /\ UNCHANGED <<fifo, ring, swapping, attached, isr, job, next, sent>>

\* uart_tx_flush_queue(): the emptiness test and the disarm share a section.
Flush(w) ==
    /\ Runs(w) /\ pc[w] = "flush"
    /\ IF RingEmpty
       THEN armed' = FALSE /\ Goto(w, Flushed(job[w]))
       ELSE Goto(w, "head") /\ UNCHANGED armed
    /\ UNCHANGED <<fifo, ring, swapping, attached, isr, job, next, sent>>

\* uart_drain(): flush, then uart_fifo_wait_empty().
Drain(w) ==
    /\ w \in Printing \ {Fiq} /\ Runs(w) /\ pc[w] = "idle" /\ NobodySwaps
    /\ job' = [job EXCEPT ![w] = "drain"]
    /\ Goto(w, FlushEntry("drain"))
    /\ UNCHANGED <<fifo, ring, swapping, attached, armed, isr, next, sent>>

Drained(w) ==
    /\ Runs(w) /\ pc[w] = "drain" /\ fifo = <<>>
    /\ Goto(w, "idle")
    /\ UNCHANGED <<fifo, ring, swapping, attached, armed, isr, job, next, sent>>

\* uart_set_tx_buffer(): the queue goes out first.
SetTxBuffer(w) ==
    /\ swapping /\ w \in Printing /\ Runs(w) /\ NobodyWrites
    /\ job' = [job EXCEPT ![w] = "swap"]
    /\ Goto(w, FlushEntry("swap"))
    /\ UNCHANGED <<fifo, ring, swapping, attached, armed, isr, next, sent>>

\* The masked swap, in either direction.
Swap(w) ==
    /\ Runs(w) /\ pc[w] = "swap"
    /\ armed' = FALSE
    /\ attached' = ~attached
    /\ Goto(w, "idle")
    /\ UNCHANGED <<fifo, ring, swapping, isr, job, next, sent>>

-----------------------------------------------------------------------------
Init ==
    /\ fifo = <<>>
    /\ data = [i \in 0..(Capacity - 1) |-> [by |-> Fiq, no |-> 0]]
    /\ in = 0 /\ out = 0
    /\ swapping \in BOOLEAN /\ attached = ~swapping /\ armed = FALSE /\ isr = Off
    /\ pc = [w \in Writers |-> "idle"] /\ job = [w \in Writers |-> "write"]
    /\ next = [w \in Writers |-> 0] /\ sent = [w \in Writers |-> 0]

Isr == IsrEnter \/ IsrByte \/ IsrLeave

Continue(w) ==
    \/ Poll(w) \/ Put(w) \/ Queue(w) \/ Full(w) \/ SendHead(w)
    \/ Flush(w) \/ Drained(w) \/ Swap(w)

Next ==
    \/ Wire \/ Isr
    \/ \E w \in Writers : Continue(w)
    \/ \E w \in Writers : Write(w) \/ Drain(w) \/ SetTxBuffer(w)

Spec == Init /\ [][Next]_vars

\* The wire never stops, a pending interrupt is taken and every context that
\* may run goes on.
FairSpec ==
    /\ Spec
    /\ WF_vars(Wire) /\ WF_vars(Isr) /\ WF_vars(Continue(Fiq))
    /\ \A t \in Tasks : SF_vars(Continue(t))

-----------------------------------------------------------------------------
(* Correctness.                                                            *)

\* The queued bytes, the oldest first.
Queued == [i \in 1..RingCount |-> data[((out + i - 1) % Wrap) % Capacity]]

Line == fifo \o Queued

\* Where a writer's bytes are between it and the wire.
OnTheWay(w) == {i \in 1..Len(Line) : Line[i].by = w}

\* The variables have their types, and the ring never holds more than it can.
TypeOK ==
    /\ fifo \in Seq(Byte) /\ Len(fifo) <= FifoDepth
    /\ data \in [0..(Capacity - 1) -> Byte]
    /\ in \in 0..(Wrap - 1) /\ out \in 0..(Wrap - 1) /\ RingCount <= Capacity
    /\ swapping \in BOOLEAN /\ attached \in BOOLEAN /\ armed \in BOOLEAN
    /\ isr \in Off..FifoDepth
    /\ pc \in [Writers -> {"idle", "poll", "put", "queue", "full", "head", "flush",
                           "drain", "swap"}]
    /\ job \in [Writers -> {"write", "drain", "swap"}]
    /\ next \in [Writers -> 0..1] /\ sent \in [Writers -> 0..1]

\* Every byte a writer has handed over leaves once and in its order: whatever
\* the interrupt, the FIQ and the other tasks do, the bytes of a writer between
\* it and the wire are exactly those not sent yet, oldest first: the first is the
\* one the wire owes, each is followed by its successor, and the last is the one
\* before the next it will write.  (uart.c:
\* "Sends the head, not the caller's byte - that is what keeps the stream in
\* order"; "its own bytes would overtake it".)
StreamInOrder ==
    \A w \in Writers :
        /\ OnTheWay(w) = {} => sent[w] = next[w]
        /\ \A i \in OnTheWay(w) :
              /\ (\A j \in OnTheWay(w) : i <= j) => Line[i].no = sent[w]
              /\ (\A j \in OnTheWay(w) : j <= i) => Line[i].no # next[w]
        /\ \A i, j \in OnTheWay(w) :
              i < j /\ (\A k \in OnTheWay(w) : k <= i \/ j <= k) => Line[i].no # Line[j].no

\* uart_tx_flush_queue(): "a concurrent write cannot be left queued with the
\* interrupt already off".
ArmedWhileQueued == attached /\ ~RingEmpty => armed

\* uart_isr(): "a stale arm ... would re-enter forever": the interrupt is never
\* left on for a queue that is not there.
NoStaleArm == ~attached => ~armed /\ RingEmpty

\* With one writer every call returns, whatever is queued in front of it and whether
\* or not the buffer has been swapped in between.  (With several, the others may
\* refill the ring each time it has room.)
CallsReturn == \A w \in Tasks : (swapping /\ pc[w] # "idle") ~> pc[w] = "idle"
=============================================================================
