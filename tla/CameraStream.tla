---------------------------- MODULE CameraStream ----------------------------
(***************************************************************************)
(* Continuous capture of the camera driver (camera.c).  The encoder ends a *)
(* frame with an interrupt that queues the slot the DMA has filled and     *)
(* points the DMA at a free one; the caller takes the oldest slot, uses it *)
(* and releases it.  The two share the slot flags and the queue counters   *)
(* without a lock: each field has one writer.                              *)
(*                                                                         *)
(* A frame is its identity.  mem is what a slot's bytes are: a slot the    *)
(* DMA has been pointed at holds no frame until the whole one is written.  *)
(***************************************************************************)
EXTENDS Integers, Sequences, FiniteSets

CONSTANTS
    Frames,     \* the pictures the encoder can produce
    Junk,       \* bytes that are not a whole frame
    SlotCount,  \* slot_count
    Wrap        \* the counters count modulo this (2^32 in the code)

ASSUME StreamAssumption ==
    /\ Frames # {} /\ Junk \notin Frames
    /\ SlotCount \in 2..8
    /\ Wrap \in Nat /\ Wrap >= SlotCount

Slots == 0..(SlotCount - 1)
Off   == -1

VARIABLES
    sensor,     \* g_sensor is set: the camera has been started
    active,     \* g_stream.active
    armed,      \* g_stream.armed
    current,    \* g_stream.current: the slot the DMA fills
    busy,       \* g_stream.busy
    size,       \* g_stream.size: the frame each slot was queued with
    queue,      \* g_stream.queue
    head,       \* g_stream.head, written by the interrupt
    tail,       \* g_stream.tail, written by the caller
    dropped,    \* the parity of g_stream.dropped
    dma,        \* the slot the enabled DMA channel writes to, or Off
    mem,        \* the contents of every slot
    frame,      \* the frame the encoder is sending
    pc,         \* where the caller is inside camera_stream_get() or _stop()
    found,      \* camera_stream_get(): the frame read and not yet returned
    held        \* caller: the frame it holds in each slot

ring   == <<busy, size, queue, head, dropped>>
caller == <<pc, found, held>>
vars   == <<sensor, active, armed, current, ring, tail, dma, mem, frame, caller>>

Frame == [slot : Slots, id : Frames \cup {Junk}]

-----------------------------------------------------------------------------
(* The hardware and the end-of-frame interrupt.                            *)

\* The DMA has written all of the frame into the slot.
DmaFills ==
    /\ dma # Off /\ mem[dma] # frame
    /\ mem' = [mem EXCEPT ![dma] = frame]
    /\ UNCHANGED <<sensor, active, armed, current, ring, tail, dma, frame, caller>>

\* stream_arm(): the DMA starts to overwrite the slot.
Arm(slot) ==
    /\ dma' = slot
    /\ mem' = [mem EXCEPT ![slot] = Junk]

\* The first free slot behind the current one: the empty set, or one slot.
NextSlot(free) ==
    {s \in free : \A r \in free : (s - current) % SlotCount <= (r - current) % SlotCount}

\* Queues the slot before a free one is found for the DMA.
QueuedAlways(next) == mem[current] = frame

\* The frame is queued if it is whole and another slot can take the next one.
Queued(next) == mem[current] = frame /\ next # {}

\* stream_on_end_frame() of an armed stream.
CloseSlot ==
    LET next == NextSlot({s \in Slots \ {current} : ~busy[s]})
        to   == IF next = {} THEN current ELSE CHOOSE s \in next : TRUE
    IN  IF Queued(next)
        THEN /\ size' = [size EXCEPT ![current] = frame]
             /\ queue' = [queue EXCEPT ![head % SlotCount] = current]
             /\ head' = (head + 1) % Wrap
             /\ busy' = [busy EXCEPT ![to] = TRUE]
             /\ current' = to
             /\ UNCHANGED dropped
             /\ Arm(to)
        ELSE /\ dropped' = (dropped + 1) % 2
             /\ UNCHANGED <<size, queue, head, busy, current>>
             /\ Arm(current)

\* stream_on_end_frame() of a stream that waits for its first frame boundary.
FirstArm ==
    /\ Arm(current) /\ armed' = TRUE
    /\ UNCHANGED <<ring, current>>

\* end_frame_handler(); the encoder goes on with another frame.
EndFrame ==
    /\ sensor
    /\ frame' \in Frames
    /\ \/ ~active /\ UNCHANGED <<armed, current, ring, dma, mem>>
       \/ active /\ ~armed /\ FirstArm
       \/ active /\ armed /\ CloseSlot /\ UNCHANGED armed
    /\ UNCHANGED <<sensor, active, tail, caller>>

-----------------------------------------------------------------------------
(* The caller.                                                             *)

\* camera_stream_start() that leaves the counters of the last stream.
StartStreamNoReset ==
    /\ pc = "idle" /\ sensor /\ ~active
    /\ dma' = Off
    /\ armed' = FALSE /\ current' = 0
    /\ busy' = [s \in Slots |-> s = 0]
    /\ active' = TRUE
    /\ UNCHANGED <<sensor, mem, frame, caller, size, queue, head, tail, dropped>>

\* gdma_configure() clears the enable bit, memset() the stream, and active
\* is set last, so the interrupt sees the stream only when it is complete.
StartStream ==
    /\ pc = "idle" /\ sensor /\ ~active
    /\ dma' = Off
    /\ armed' = FALSE /\ current' = 0
    /\ busy' = [s \in Slots |-> s = 0]
    /\ size' = [s \in Slots |-> Junk] /\ queue' = [s \in Slots |-> 0]
    /\ head' = 0 /\ tail' = 0 /\ dropped' = 0
    /\ active' = TRUE
    /\ UNCHANGED <<sensor, mem, frame, caller>>

\* camera_stream_stop(), first half: the frames handed out become invalid.
StopStream ==
    /\ pc = "idle" /\ active
    /\ active' = FALSE /\ pc' = "stopping"
    /\ held' = [s \in Slots |-> Junk]
    /\ UNCHANGED <<sensor, armed, current, ring, tail, dma, mem, frame, found>>

\* camera_stream_stop() that leaves the channel enabled.
StopDmaForgotten ==
    /\ pc = "stopping" /\ pc' = "idle"
    /\ UNCHANGED <<sensor, active, armed, current, ring, tail, dma, mem, frame, found, held>>

\* camera_stream_stop(), second half: gdma_stop().
StopDma ==
    /\ pc = "stopping" /\ pc' = "idle"
    /\ dma' = Off
    /\ UNCHANGED <<sensor, active, armed, current, ring, tail, mem, frame, found, held>>

\* camera_stream_get() up to the last assignment: the oldest queued slot.
GetRead ==
    /\ pc = "idle" /\ active /\ tail # head
    /\ LET slot == queue[tail % SlotCount]
       IN  found' = [slot |-> slot, id |-> size[slot]]
    /\ pc' = "got"
    /\ UNCHANGED <<sensor, active, armed, current, ring, tail, dma, mem, frame, held>>

\* camera_stream_get(), last assignment and return.
GetDone ==
    /\ pc = "got" /\ pc' = "idle"
    /\ tail' = (tail + 1) % Wrap
    /\ held' = [held EXCEPT ![found.slot] = found.id]
    /\ UNCHANGED <<sensor, active, armed, current, ring, dma, mem, frame, found>>

\* camera_stream_release() that forgets the flag.
ReleaseKeepsBusy(slot) ==
    /\ pc = "idle" /\ active /\ held[slot] # Junk
    /\ held' = [held EXCEPT ![slot] = Junk]
    /\ UNCHANGED <<sensor, active, armed, current, ring, tail, dma, mem, frame, pc, found>>

\* camera_stream_release() of a frame the caller holds.
Release(slot) ==
    /\ pc = "idle" /\ active /\ held[slot] # Junk
    /\ busy' = [busy EXCEPT ![slot] = FALSE]
    /\ held' = [held EXCEPT ![slot] = Junk]
    /\ UNCHANGED <<sensor, active, armed, current, size, queue, head, dropped,
                   tail, dma, mem, frame, pc, found>>

\* camera_stream_stop() and dma_release() at the head of the next two calls;
\* the interrupt does nothing between their lines once active is cleared.
ShutDown ==
    /\ pc = "idle"
    /\ active' = FALSE /\ dma' = Off
    /\ held' = [s \in Slots |-> Junk]
    /\ UNCHANGED <<armed, current, ring, tail, mem, frame, pc, found>>

\* camera_start(): it ends with a sensor found, or with everything off.
StartCamera == ShutDown /\ sensor' \in BOOLEAN

StopCamera == ShutDown /\ sensor' = FALSE

-----------------------------------------------------------------------------
Init ==
    /\ sensor = FALSE /\ active = FALSE /\ armed = FALSE /\ current = 0
    /\ busy = [s \in Slots |-> FALSE]
    /\ size = [s \in Slots |-> Junk] /\ queue = [s \in Slots |-> 0]
    /\ head = 0 /\ tail = 0 /\ dropped = 0
    /\ dma = Off /\ mem = [s \in Slots |-> Junk]
    /\ frame \in Frames
    /\ pc = "idle" /\ found = [slot |-> 0, id |-> Junk]
    /\ held = [s \in Slots |-> Junk]

Next ==
    \/ DmaFills \/ EndFrame
    \/ StartStream \/ StopStream \/ StopDma
    \/ GetRead \/ GetDone
    \/ \E s \in Slots : Release(s)
    \/ StartCamera \/ StopCamera

Spec == Init /\ [][Next]_vars

-----------------------------------------------------------------------------
(* Correctness.                                                            *)

\* Frames queued and not yet taken.
Depth == (head - tail) % Wrap

\* The slot of the i-th waiting frame, the oldest first.
WaitingSlot(i) == queue[((tail + i - 1) % Wrap) % SlotCount]

WaitingSlots == {WaitingSlot(i) : i \in 1..Depth}
HeldSlots    == {s \in Slots : held[s] # Junk}

\* The variables have their types.
TypeOK ==
    /\ sensor \in BOOLEAN /\ active \in BOOLEAN /\ armed \in BOOLEAN
    /\ current \in Slots
    /\ busy \in [Slots -> BOOLEAN]
    /\ size \in [Slots -> Frames \cup {Junk}]
    /\ queue \in [Slots -> Slots]
    /\ head \in 0..(Wrap - 1) /\ tail \in 0..(Wrap - 1)
    /\ dropped \in 0..1
    /\ dma \in Slots \cup {Off}
    /\ mem \in [Slots -> Frames \cup {Junk}]
    /\ frame \in Frames
    /\ pc \in {"idle", "got", "stopping"}
    /\ found \in Frame
    /\ held \in [Slots -> Frames \cup {Junk}]

\* The DMA never runs into a frame the caller holds or is about to take:
\* whatever the interrupt does between two lines of the caller, a frame that
\* waits or is held is still whole in its slot.
FramesIntact ==
    active =>
        /\ \A i \in 1..Depth : mem[WaitingSlot(i)] \in Frames
                               /\ mem[WaitingSlot(i)] = size[WaitingSlot(i)]
        /\ \A s \in HeldSlots : mem[s] = held[s]
        /\ pc = "got" => mem[found.slot] = found.id

\* After camera_stream_stop() the buffer is the caller's again: no interrupt
\* that came in the middle of the stop leaves the DMA writing to it.
QuietWhenStopped == ~active /\ pc = "idle" => dma = Off

(***************************************************************************)
(* The stream is a FIFO: the queue of slot numbers, the sizes and the      *)
(* counters that wrap implement FrameFifo.                                 *)
(***************************************************************************)
FifoWaiting == IF active THEN [i \in 1..Depth |-> mem[WaitingSlot(i)]] ELSE <<>>
FifoTaken   == IF active THEN [s \in HeldSlots |-> held[s]] ELSE <<>>

Fifo == INSTANCE FrameFifo WITH
    Capacity <- SlotCount - 1, waiting <- FifoWaiting, taken <- FifoTaken

\* camera_stream_get() "takes the oldest finished frame", and "the slot stays
\* the caller's until camera_stream_release()".
ImplementsFifo == Fifo!Spec

\* The encoder goes on producing frames, whole ones among them, and the caller
\* finishes the driver call it is in.
Fairness ==
    /\ WF_vars(EndFrame /\ ~armed)
    /\ SF_vars(EndFrame /\ armed /\ mem[current] = frame)
    /\ WF_vars(DmaFills)
    /\ WF_vars(GetRead) /\ WF_vars(GetDone) /\ WF_vars(StopDma)
    /\ \A s \in Slots : WF_vars(Release(s))

FairSpec == Spec /\ Fairness

\* A stream never starves: while it is active and its caller takes frames and
\* gives them back, another frame is delivered, whatever was dropped before.
FramesKeepComing == (active /\ pc = "idle") ~> (pc = "got" \/ ~active)
=============================================================================
