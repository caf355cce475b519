--------------------------- MODULE TelnetServer ---------------------------
(***************************************************************************)
(* The Telnet console: the session task with its clients, the output that  *)
(* any task may queue, the Telnet framing of the input, and the start and  *)
(* stop of the server (telnet_server.c).  One step of the task is what it  *)
(* does between two calls that may let another task in; a critical section *)
(* is one step.                                                            *)
(*                                                                         *)
(* Output bytes are numbered.  A client types keys: a plain one, Enter, or *)
(* 0xFF; it also sends options and subnegotiations.  Each is sent as the   *)
(* bytes that Telnet has for it.  Packets may cut them anywhere: the task  *)
(* parses byte by byte, and the shell may read between any two.            *)
(***************************************************************************)
EXTENDS Integers, Sequences, FiniteSets, SequencesExt

CONSTANTS
    TxSize,     \* TX_QUEUE_SIZE
    Chunk,      \* CHUNK: the most one send takes from the output queue
    RxSize,     \* RX_QUEUE_SIZE
    MaxOut,     \* bound: bytes written
    MaxKeys,    \* bound: things a client sends
    MaxClients, \* bound: connections
    MaxRuns     \* bound: starts of the server

ASSUME TelnetAssumption == {TxSize, Chunk, RxSize} \subseteq Nat \ {0}

VARIABLES
    tn,         \* the server: s_server, its flags and its task
    out,        \* the output: tx, what was queued for this client and what it got
    inp,        \* the input: bytes on their way, the parser, rx, the keys not yet read, and whether one was lost
    wr,         \* telnet_server_write(): the bytes of the call, and the bounds
    stopper     \* telnet_server_stop()

telnetVars == <<tn, out, inp, wr, stopper>>

\* Bound: a behaviour has typing or writing, which meet only in the steps of the session.
Loads == { [keys |-> MaxKeys, out |-> 0], [keys |-> 0, out |-> MaxOut] }

NoInput  == [way |-> <<>>, state |-> "data", cr |-> FALSE, rx |-> <<>>, keys |-> <<>>, sent |-> 0, lost |-> FALSE]
NoOutput == [tx |-> <<>>, queued |-> <<>>, got |-> <<>>, failed |-> FALSE]

TelnetInit(load) ==
    /\ tn  = [up |-> FALSE, heap |-> FALSE, stopping |-> FALSE, drop |-> FALSE, exited |-> FALSE,
              active |-> FALSE, tap |-> FALSE, pc |-> "none", runs |-> 0, clients |-> 0]
    /\ out = NoOutput
    /\ inp = NoInput
    /\ wr  = [next |-> 1, left |-> 0, load |-> load]
    /\ stopper = "idle"

-----------------------------------------------------------------------------
(* telnet_server_start() and telnet_server_stop().                         *)

\* The task runs before s_server is published.
TelnetCreate ==
    /\ ~tn.heap /\ stopper = "idle" /\ tn.runs < MaxRuns
    /\ tn' = [tn EXCEPT !.heap = TRUE, !.stopping = FALSE, !.drop = FALSE, !.exited = FALSE,
                        !.active = FALSE, !.pc = "accept", !.runs = @ + 1]
    /\ out' = NoOutput /\ inp' = NoInput
    /\ stopper' = "publish"
    /\ UNCHANGED wr

TelnetPublish ==
    /\ stopper = "publish" /\ stopper' = "idle"
    /\ tn' = [tn EXCEPT !.up = TRUE]
    /\ UNCHANGED <<out, inp, wr>>

TelnetStop ==
    /\ stopper = "idle" /\ tn.up
    /\ tn' = [tn EXCEPT !.stopping = TRUE]
    /\ stopper' = "wait"
    /\ UNCHANGED <<out, inp, wr>>

\* A stop that gives up and frees the server under its task.
TelnetGivesUpFreeing ==
    /\ stopper = "wait" /\ ~tn.exited /\ stopper' = "idle"
    /\ tn' = [tn EXCEPT !.up = FALSE, !.heap = FALSE]
    /\ UNCHANGED <<out, inp, wr>>

\* It gives up: the server stays, and a later stop waits again.
TelnetGivesUp ==
    /\ stopper = "wait" /\ ~tn.exited /\ stopper' = "idle"
    /\ UNCHANGED <<tn, out, inp, wr>>

TelnetFree ==
    /\ stopper = "wait" /\ tn.exited /\ stopper' = "idle"
    /\ tn' = [tn EXCEPT !.up = FALSE, !.heap = FALSE, !.exited = FALSE]
    /\ UNCHANGED <<out, inp, wr>>

-----------------------------------------------------------------------------
(* telnet_server_write(), telnet_server_read(), telnet_server_disconnect().*)

WriteCall(n) ==
    /\ wr.left = 0 /\ wr.next + n - 1 <= wr.load.out
    /\ wr' = [wr EXCEPT !.left = n]
    /\ UNCHANGED <<tn, out, inp, stopper>>

\* The critical section of one turn: as many bytes as fit, all of the rest gone when no
\* client is attached.
WriteTurn ==
    /\ wr.left > 0
    /\ LET fit   == IF wr.left < TxSize - Len(out.tx) THEN wr.left ELSE TxSize - Len(out.tx)
           bytes == [i \in 1..fit |-> wr.next + i - 1]
       IN  IF tn.up /\ tn.active
           THEN /\ fit > 0
                /\ out' = [out EXCEPT !.tx = @ \o bytes, !.queued = @ \o bytes]
                /\ wr' = [wr EXCEPT !.next = @ + fit, !.left = @ - fit]
           ELSE UNCHANGED out /\ wr' = [wr EXCEPT !.next = @ + wr.left, !.left = 0]
    /\ UNCHANGED <<tn, inp, stopper>>

\* No room for WRITE_WAIT_MS: what is left is lost.
WriteGivesUp ==
    /\ wr.left > 0 /\ Len(out.tx) = TxSize
    /\ wr' = [wr EXCEPT !.next = @ + wr.left, !.left = 0]
    /\ UNCHANGED <<tn, out, inp, stopper>>

\* telnet_server_read(), by the shell through the tap.
ReadByte ==
    /\ tn.up /\ tn.tap /\ inp.rx # <<>>
    /\ inp' = [inp EXCEPT !.rx = Tail(@), !.keys = Tail(@)]
    /\ UNCHANGED <<tn, out, wr, stopper>>

Disconnect ==
    /\ tn.up /\ tn.active
    /\ tn' = [tn EXCEPT !.drop = TRUE]
    /\ UNCHANGED <<out, inp, wr, stopper>>

-----------------------------------------------------------------------------
(* telnet_task() and serve().                                              *)

Accept ==
    /\ tn.pc = "accept" /\ ~tn.stopping /\ tn.clients < MaxClients
    /\ tn' = [tn EXCEPT !.pc = "greet", !.clients = @ + 1]
    /\ inp' = [NoInput EXCEPT !.rx = inp.rx, !.keys = inp.rx]
    /\ out' = [out EXCEPT !.queued = <<>>, !.got = <<>>, !.failed = FALSE]
    /\ UNCHANGED <<wr, stopper>>

\* The negotiation and the greeting are sent, or the client is gone.
Greet ==
    /\ tn.pc = "greet"
    /\ tn' \in {[tn EXCEPT !.pc = "accept"], [tn EXCEPT !.pc = "attach", !.drop = FALSE]}
    /\ UNCHANGED <<out, inp, wr, stopper>>

\* A set_active() that leaves the queue alone.
AttachKeeps ==
    /\ tn.pc = "attach"
    /\ tn' = [tn EXCEPT !.active = TRUE, !.tap = TRUE, !.pc = "session"]
    /\ UNCHANGED <<out, inp, wr, stopper>>

\* set_active(true): what the last client left is dropped; then on_connect().
Attach ==
    /\ tn.pc = "attach"
    /\ out' = [out EXCEPT !.tx = <<>>]
    /\ tn'  = [tn EXCEPT !.active = TRUE, !.tap = TRUE, !.pc = "session"]
    /\ UNCHANGED <<inp, wr, stopper>>

\* flush_output() of a queue that is not empty: up to CHUNK bytes leave it.  All
\* of them are sent, or a beginning of them: the send then counts as failed.
Send(ok, failed) ==
    LET n == IF Len(out.tx) < Chunk THEN Len(out.tx) ELSE Chunk
    IN  \/ /\ out' = [out EXCEPT !.tx = SubSeq(@, n + 1, Len(@)), !.got = @ \o SubSeq(out.tx, 1, n)]
           /\ tn' = [tn EXCEPT !.pc = ok]
        \/ /\ \E k \in 0..n :
                 out' = [out EXCEPT !.tx = SubSeq(@, n + 1, Len(@)), !.got = @ \o SubSeq(out.tx, 1, k),
                                    !.failed = TRUE]
           /\ tn' = [tn EXCEPT !.pc = failed]

Flush ==
    /\ tn.pc = "session" /\ out.tx # <<>>
    /\ Send("session", "detach")
    /\ UNCHANGED <<inp, wr, stopper>>

\* The loop ends: stop, disconnect, or the client has gone.
Leave ==
    /\ tn.pc = "session"
    /\ \/ (tn.stopping \/ tn.drop) /\ UNCHANGED out
       \/ ~tn.stopping /\ ~tn.drop /\ out' = [out EXCEPT !.failed = TRUE]
    /\ tn' = [tn EXCEPT !.pc = "detach"]
    /\ UNCHANGED <<inp, wr, stopper>>

\* set_active(false): nothing is queued from here on.
Detach ==
    /\ tn.pc = "detach"
    /\ tn' = [tn EXCEPT !.active = FALSE, !.pc = "owed"]
    /\ UNCHANGED <<out, inp, wr, stopper>>

\* What the client is still owed goes out, until a send fails; the rest stays in the
\* queue.
Owed ==
    /\ tn.pc = "owed"
    /\ \/ out.tx = <<>> /\ tn' = [tn EXCEPT !.pc = "close"] /\ UNCHANGED out
       \/ out.tx # <<>> /\ Send("owed", "close")
    /\ UNCHANGED <<inp, wr, stopper>>

\* on_disconnect() and the end of the connection.
Close ==
    /\ tn.pc = "close"
    /\ tn' = [tn EXCEPT !.pc = "accept", !.tap = FALSE, !.active = FALSE]
    /\ UNCHANGED <<out, inp, wr, stopper>>

TelnetExit ==
    /\ tn.pc = "accept" /\ tn.stopping
    /\ tn' = [tn EXCEPT !.pc = "none", !.exited = TRUE]
    /\ UNCHANGED <<out, inp, wr, stopper>>

-----------------------------------------------------------------------------
(* The input.                                                              *)

\* What a client sends, and the keys it stands for.
Encodings ==
    { [bytes |-> <<"key">>, keys |-> <<"key">>],
      [bytes |-> <<"CR", "LF">>, keys |-> <<"CR">>],
      [bytes |-> <<"CR", "NUL">>, keys |-> <<"CR">>],
      [bytes |-> <<"IAC", "IAC">>, keys |-> <<"IAC">>],
      [bytes |-> <<"IAC", "WILL", "opt">>, keys |-> <<>>],
      [bytes |-> <<"IAC", "SB", "opt", "IAC", "IAC", "IAC", "SE">>, keys |-> <<>>],
      [bytes |-> <<"IAC", "NOP">>, keys |-> <<>>] }

Types ==
    /\ tn.pc = "session" /\ inp.sent < wr.load.keys
    /\ \E e \in Encodings :
          inp' = [inp EXCEPT !.way = @ \o e.bytes, !.keys = @ \o e.keys, !.sent = @ + 1]
    /\ UNCHANGED <<tn, out, wr, stopper>>

\* ringbuf_put_byte(&server->rx, b): a full queue drops the byte, and nobody is told.
Queue(p, b) == IF Len(p.rx) < RxSize THEN [p EXCEPT !.rx = Append(@, b)] ELSE [p EXCEPT !.lost = TRUE]

\* parse() that takes CR LF for two keys.
ParseTwice(p, b) ==
    CASE p.state = "data" -> IF b = "IAC" THEN [p EXCEPT !.state = "iac"] ELSE Queue(p, b)
      [] p.state = "iac" /\ b = "IAC" -> Queue([p EXCEPT !.state = "data"], b)
      [] OTHER -> [p EXCEPT !.state = "data"]

\* parse(): one byte.
Parse(p, b) ==
    CASE p.state = "data" ->
            IF b = "IAC" THEN [p EXCEPT !.state = "iac"]
            ELSE IF p.cr /\ b \in {"NUL", "LF"} THEN [p EXCEPT !.cr = FALSE]
            ELSE Queue([p EXCEPT !.cr = (b = "CR")], b)
      [] p.state = "iac" ->
            IF b = "IAC" THEN Queue([p EXCEPT !.state = "data"], b)
            ELSE [p EXCEPT !.state = IF b = "WILL" THEN "option" ELSE IF b = "SB" THEN "sub" ELSE "data"]
      [] p.state = "option" -> [p EXCEPT !.state = "data"]
      [] p.state = "sub"    -> [p EXCEPT !.state = IF b = "IAC" THEN "subiac" ELSE "sub"]
      [] p.state = "subiac" -> [p EXCEPT !.state = IF b = "SE" THEN "data" ELSE "sub"]

\* The next byte of a packet.
ParseNext ==
    /\ tn.pc = "session" /\ inp.way # <<>>
    /\ inp' = Parse([inp EXCEPT !.way = Tail(@)], Head(inp.way))
    /\ UNCHANGED <<tn, out, wr, stopper>>

TelnetNext ==
    \/ TelnetCreate \/ TelnetPublish \/ TelnetStop \/ TelnetGivesUp \/ TelnetFree
    \/ \E n \in 1..(TxSize + 1) : WriteCall(n)
    \/ WriteTurn \/ WriteGivesUp \/ ReadByte \/ Disconnect
    \/ Accept \/ Greet \/ Attach \/ Flush \/ Leave \/ Detach \/ Owed \/ Close \/ TelnetExit
    \/ Types \/ ParseNext

-----------------------------------------------------------------------------

\* A client gets nothing that was queued for the client before it, though a failed
\* send leaves bytes in the ring; it gets what was queued for it in order as long as
\* no send fails; and when it is the server that ends the session, it gets all of it,
\* chunk by chunk, before the connection closes (flush_output(), set_active()).
OwedGoesOut ==
    /\ \A i \in 1..Len(out.got) : Contains(out.queued, out.got[i])
    /\ ~out.failed => IsPrefix(out.got, out.queued)
    /\ (tn.pc = "close" /\ ~out.failed) => out.got = out.queued

\* The shell reads the keys the client typed, Enter as one key, whatever else
\* Telnet puts between them, however the packets cut it and whenever the shell
\* reads, until a key finds the queue full.
KeysArrive ==
    ~inp.lost =>
        /\ IsPrefix(inp.rx, inp.keys)
        /\ (tn.pc = "session" /\ inp.way = <<>>) => inp.rx = inp.keys

\* The server is freed after its task has ended, also when one stop gave up
\* and another finished, and no call finds it after that.
TelnetFreedLast == (tn.pc # "none" \/ tn.up) => tn.heap
=============================================================================
