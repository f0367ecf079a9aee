----------------------------- MODULE TransportIn -----------------------------
(***************************************************************************)
(* The receiving half of rl_transport_t (src/transport.c): recv() into a   *)
(* fixed buffer, cutting the byte stream into frames with the length field *)
(* that peer_peek_incoming (src/peer.c) reads from a frame's header, and   *)
(* handing whole frames to peer_deliver_incoming.                          *)
(*                                                                         *)
(* A byte is abstracted to its position in the incoming stream, so that    *)
(* the contents of the buffer, and of a delivered frame, say exactly which *)
(* bytes of the stream they are.                                           *)
(***************************************************************************)
EXTENDS Naturals, Sequences

CONSTANTS BufSize,     \* size of inbuf (32768 in peer_init)
          HdrLen,      \* bytes peer_peek_incoming needs (4)
          GoodLens,    \* lengths of frames the encoder produces
          BadLens,     \* values of the length field it never produces
          MaxFrames    \* bound: frames sent in one behaviour

ASSUME SizeAssumption ==
  /\ BufSize \in Nat /\ HdrLen \in 1 .. BufSize
  /\ GoodLens \subseteq HdrLen .. BufSize
  /\ BadLens \subseteq Nat \ (HdrLen .. BufSize)
  /\ MaxFrames \in Nat

VARIABLES
  frames,        \* the sender's frames: [start, len, ok]
  sent,          \* bytes of them that the network will ever hand over, so far
  eof,           \* the sender has closed its end
  arrived,       \* bytes that recv() has returned
  buf, read_cursor, write_cursor,          \* t->inbuf, addresses from 0
  error, disconnect,                       \* t->error, t->disconnect
  pc,            \* "idle", "update" (rl_transport_update), "closed"
  delivered      \* history: the frames passed to peer_deliver_incoming

stream == <<frames, sent, eof>>
inbuf == <<buf, read_cursor, write_cursor>>
vars == <<stream, arrived, inbuf, error, disconnect, pc, delivered>>

Addr == 0 .. BufSize - 1
Avail == write_cursor - read_cursor

-----------------------------------------------------------------------------
(* The other end of the connection, and the network.                        *)

StreamEnd == IF frames = <<>> THEN 0
             ELSE LET f == frames[Len(frames)] IN f.start + f.phys

(* `len' is what the length field says, `phys' the bytes actually occupied, *)
(* `ok' whether rl_decode_msg accepts them.                                 *)
SendFrame(len, ok) ==
  /\ ~eof
  /\ Len(frames) < MaxFrames
  /\ len < HdrLen => ~ok
  /\ LET phys == IF len < HdrLen THEN HdrLen ELSE len
     IN  /\ frames' = Append(frames, [start |-> StreamEnd, len |-> len,
                                      phys |-> phys, ok |-> ok])
         /\ sent' = StreamEnd + phys
  /\ UNCHANGED <<eof, arrived, inbuf, error, disconnect, pc, delivered>>

(* The sender goes away; what it had not pushed out yet is lost. *)
Close ==
  /\ ~eof
  /\ eof' = TRUE
  /\ sent' \in arrived .. sent
  /\ UNCHANGED <<frames, arrived, inbuf, error, disconnect, pc, delivered>>

-----------------------------------------------------------------------------
(* rl_transport_on_input_arrived: one recv() into the room behind the write *)
(* cursor.  recv() returns 0 at the end of the stream, and also when it is  *)
(* given no room.                                                           *)
max_buffer_left_plus_one == BufSize - write_cursor + 1   \* fault: off by one
max_buffer_left == BufSize - write_cursor

recv_some(n) ==
  /\ pc = "idle"
  /\ n <= max_buffer_left
  /\ n <= sent - arrived
  /\ buf' = [i \in Addr |-> IF i \in write_cursor .. write_cursor + n - 1
                              THEN arrived + (i - write_cursor) ELSE buf[i]]
  /\ write_cursor' = write_cursor + n
  /\ arrived' = arrived + n
  /\ pc' = "update"
  /\ UNCHANGED <<stream, read_cursor, error, disconnect, delivered>>

recv_zero ==
  /\ pc = "idle"
  /\ max_buffer_left = 0 \/ (eof /\ arrived = sent)
  /\ disconnect' = TRUE
  /\ pc' = "update"
  /\ UNCHANGED <<stream, arrived, inbuf, error, delivered>>

recv_fails ==
  /\ pc = "idle"
  /\ error' = TRUE
  /\ pc' = "update"
  /\ UNCHANGED <<stream, arrived, inbuf, disconnect, delivered>>

(* peer_update calls rl_transport_update also when nothing could be read.   *)
nothing_to_recv ==
  /\ pc = "idle"
  /\ pc' = "update"
  /\ UNCHANGED <<stream, arrived, inbuf, error, disconnect, delivered>>

-----------------------------------------------------------------------------
(* rl_transport_update, one step per iteration of its loop.                 *)

(* The length field of the frame whose first byte is stream position p.     *)
size_field(p) ==
  IF \E k \in 1 .. Len(frames) : frames[k].start = p
    THEN frames[CHOOSE k \in 1 .. Len(frames) : frames[k].start = p].len
    ELSE 0

peer_peek_incoming == IF Avail < HdrLen THEN HdrLen
                      ELSE size_field(buf[read_cursor])

(* rl_decode_msg succeeds on the frame that starts at stream position p. *)
Decodes(p) == \E k \in 1 .. Len(frames) : frames[k].start = p /\ frames[k].ok

WillNeverFitUnchecked(msg_size) == FALSE      \* fault: no check
WillNeverFit(msg_size) == msg_size > BufSize

Fail(e) ==
  /\ pc' = "closed"
  /\ error' = e
  /\ UNCHANGED <<stream, arrived, inbuf, disconnect, delivered>>

update_sees_error ==
  /\ pc = "update"
  /\ error \/ disconnect
  /\ Fail(error)

update_too_large ==
  /\ pc = "update" /\ ~error /\ ~disconnect
  /\ read_cursor < write_cursor
  /\ WillNeverFit(peer_peek_incoming)
  /\ Fail(TRUE)

(* The whole frame is there: [read_cursor, read_cursor + msg_size). *)
Complete(msg_size) ==
  /\ pc = "update" /\ ~error /\ ~disconnect
  /\ read_cursor < write_cursor
  /\ msg_size > 0
  /\ ~WillNeverFit(msg_size)
  /\ Avail >= msg_size

update_deliver_fails ==
  /\ Complete(peer_peek_incoming)
  /\ ~Decodes(buf[read_cursor])
  /\ Fail(TRUE)

(* The bytes not yet delivered, moved to the front of the buffer. *)
CompactedWithoutMove(trim) == buf             \* fault: only the cursors move
Compacted(trim) ==
  [i \in Addr |-> IF i < trim THEN buf[read_cursor + i] ELSE buf[i]]

(* Fault: one frame per call; what is left waits for the next call. *)
update_deliver_one ==
  LET msg_size == peer_peek_incoming
  IN  /\ Complete(msg_size)
      /\ Decodes(buf[read_cursor])
      /\ delivered' = Append(delivered,
                       [j \in 1 .. msg_size |-> buf[read_cursor + j - 1]])
      /\ read_cursor' = read_cursor + msg_size
      /\ pc' = "idle"
      /\ UNCHANGED <<stream, arrived, buf, write_cursor, error, disconnect>>

update_deliver ==
  LET msg_size == peer_peek_incoming
  IN  /\ Complete(msg_size)
      /\ Decodes(buf[read_cursor])
      /\ delivered' = Append(delivered,
                       [j \in 1 .. msg_size |-> buf[read_cursor + j - 1]])
      /\ read_cursor' = read_cursor + msg_size
      /\ UNCHANGED <<stream, arrived, buf, write_cursor, error, disconnect, pc>>

(* The loop ends: nothing left, a frame that is not complete, or a length   *)
(* of zero.  The rest is moved to the front of the buffer.                  *)
update_done ==
  /\ pc = "update" /\ ~error /\ ~disconnect
  /\ \/ read_cursor = write_cursor
     \/ peer_peek_incoming = 0
     \/ ~WillNeverFit(peer_peek_incoming) /\ Avail < peer_peek_incoming
  /\ buf' = Compacted(Avail)
  /\ read_cursor' = 0
  /\ write_cursor' = Avail
  /\ pc' = "idle"
  /\ UNCHANGED <<stream, arrived, error, disconnect, delivered>>

-----------------------------------------------------------------------------
Init ==
  /\ frames = <<>> /\ sent = 0 /\ eof = FALSE
  /\ arrived = 0
  /\ buf = [i \in Addr |-> 0]
  /\ read_cursor = 0 /\ write_cursor = 0
  /\ error = FALSE /\ disconnect = FALSE
  /\ pc = "idle"
  /\ delivered = <<>>

Recv == (\E n \in 1 .. BufSize : recv_some(n)) \/ recv_zero

Update ==
  \/ update_sees_error
  \/ update_too_large
  \/ update_deliver_fails
  \/ update_deliver
  \/ update_done

Next ==
  \/ \E len \in GoodLens, ok \in BOOLEAN : SendFrame(len, ok)
  \/ \E len \in BadLens : SendFrame(len, FALSE)
  \/ Close
  \/ \E n \in 1 .. BufSize : recv_some(n)
  \/ recv_zero
  \/ recv_fails
  \/ nothing_to_recv
  \/ Update

Spec == Init /\ [][Next]_vars

(* The event loop comes back to recv() as long as select() reports the      *)
(* socket readable, and never stops inside rl_transport_update.  Weak       *)
(* fairness of Recv would not do: an update without input may come between. *)
FairSpec == Spec /\ SF_vars(Recv) /\ WF_vars(Update)

-----------------------------------------------------------------------------
(* Properties                                                               *)

Frame == [start : Nat, len : Nat, phys : Nat, ok : BOOLEAN]

(* The cursors stay within the buffer, whatever recv() returns. *)
TypeOK ==
  /\ frames \in Seq(Frame)
  /\ sent \in Nat /\ arrived \in Nat /\ eof \in BOOLEAN
  /\ buf \in [Addr -> Nat]
  /\ read_cursor \in 0 .. BufSize /\ write_cursor \in 0 .. BufSize
  /\ error \in BOOLEAN /\ disconnect \in BOOLEAN
  /\ pc \in {"idle", "update", "closed"}
  /\ delivered \in Seq(Seq(Nat))

(* However recv() cuts the stream, the k-th delivery is frame k and nothing *)
(* else: all of its bytes, in order, once, although the buffer is compacted *)
(* after every update and a header may arrive byte by byte.                 *)
DeliveredExactly ==
  /\ Len(delivered) <= Len(frames)
  /\ \A k \in 1 .. Len(delivered) :
       delivered[k] = [j \in 1 .. frames[k].len |-> frames[k].start + j - 1]

(* The next frame to be delivered announces a length of zero: the receiver  *)
(* will never get past it.                                                  *)
Wedged ==
  LET k == Len(delivered) + 1
  IN  k <= Len(frames) /\ frames[k].len = 0

(* Whenever recv() is called there is room for at least one byte (unless    *)
(* the other end announced an empty frame); recv() of no bytes would be     *)
(* taken for the end of the stream.                                         *)
RecvHasRoom == pc = "idle" /\ ~Wedged => max_buffer_left > 0

(* A closed connection is noticed only after every frame that arrived whole *)
(* has been delivered.                                                      *)
CloseLosesNothing ==
  disconnect /\ ~Wedged =>
    \A k \in 1 .. Len(frames) :
       frames[k].start + frames[k].phys <= sent => k <= Len(delivered)

(* Every frame whose predecessors and itself are sound is delivered, unless *)
(* the connection ends first.                                               *)
EveryFrameDelivered ==
  \A k \in 1 .. MaxFrames :
    (k <= Len(frames) /\ \A i \in 1 .. k : frames[i].ok)
      ~> (Len(delivered) >= k \/ eof \/ pc = "closed")
=============================================================================
