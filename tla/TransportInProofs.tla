-------------------------- MODULE TransportInProofs --------------------------
(***************************************************************************)
(* Proofs about TransportIn for every buffer size, header length, set of   *)
(* frame lengths and number of frames.                                     *)
(***************************************************************************)
EXTENDS TransportIn, TLAPS, SequenceTheorems

(* The number of the frame that comes next, and where it starts. *)
NextFrame == Len(delivered) + 1
NextStart == IF NextFrame <= Len(frames) THEN frames[NextFrame].start ELSE StreamEnd

(* The sender's frames lie one behind the other, from position 0. *)
FramesOnStream ==
  /\ \A k \in 1 .. Len(frames) :
       /\ frames[k].phys = IF frames[k].len < HdrLen THEN HdrLen ELSE frames[k].len
       /\ frames[k].ok => frames[k].len \in HdrLen .. BufSize
  /\ Len(frames) > 0 => frames[1].start = 0
  /\ \A k \in 1 .. Len(frames) - 1 :
       frames[k + 1].start = frames[k].start + frames[k].phys
  /\ \A i, j \in 1 .. Len(frames) :
       i < j => frames[i].start + frames[i].phys <= frames[j].start
  /\ arrived <= sent /\ sent <= StreamEnd

(* The used part of the buffer is the end of what has arrived, beginning    *)
(* with the first byte of the next frame.                                   *)
BufferOnStream ==
  /\ read_cursor <= write_cursor
  /\ arrived + read_cursor = NextStart + write_cursor
  /\ \A i \in read_cursor .. write_cursor - 1 : buf[i] + write_cursor = arrived + i

(* The next frame has not arrived whole. *)
Incomplete ==
  \/ Avail = 0
  \/ /\ NextFrame <= Len(frames)
     /\ \/ Avail < HdrLen
        \/ frames[NextFrame].len <= BufSize /\ Avail < frames[NextFrame].len

(* Outside rl_transport_update nothing that could be delivered is left, and *)
(* the end of the stream has only been seen in such a state.                *)
NothingLeft ==
  /\ pc = "idle" =>
       /\ ~error /\ ~disconnect /\ read_cursor = 0
       /\ Incomplete \/ Wedged
  /\ disconnect => Wedged \/ (eof /\ arrived = sent /\ Incomplete)

StreamInv ==
  /\ TypeOK /\ FramesOnStream /\ BufferOnStream
  /\ DeliveredExactly
  /\ \A k \in 1 .. Len(delivered) : frames[k].ok
  /\ NothingLeft

-----------------------------------------------------------------------------
(* The sender's frames                                                      *)

(* A frame has the fields that SendFrame gives it. *)
LEMMA FrameFields ==
  ASSUME frames \in Seq(Frame), NEW k \in 1 .. Len(frames)
  PROVE  /\ frames[k] \in Frame
         /\ frames[k].start \in Nat /\ frames[k].len \in Nat
         /\ frames[k].phys \in Nat /\ frames[k].ok \in BOOLEAN
<1>1. frames[k] \in Frame
  BY ElementOfSeq
<1> QED
  BY <1>1 DEF Frame

(* Where the stream ends, and that every frame ends by then. *)
LEMMA StreamEndIs ==
  ASSUME TypeOK, FramesOnStream
  PROVE  /\ StreamEnd \in Nat
         /\ \A k \in 1 .. Len(frames) : frames[k].start + frames[k].phys <= StreamEnd
         /\ Len(frames) = 0 => StreamEnd = 0
         /\ Len(frames) > 0 =>
              StreamEnd = frames[Len(frames)].start + frames[Len(frames)].phys
<1>1. frames \in Seq(Frame) /\ Len(frames) \in Nat
  BY LenProperties DEF TypeOK
<1>2. CASE frames = <<>>
  <2>1. Len(frames) = 0
    BY <1>2
  <2> QED
    BY <1>2, <2>1 DEF StreamEnd
<1>3. CASE frames # <<>>
  <2>1. Len(frames) \in 1 .. Len(frames)
    BY <1>1, <1>3, EmptySeq
  <2>2. StreamEnd = frames[Len(frames)].start + frames[Len(frames)].phys
    BY <1>3 DEF StreamEnd
  <2>3. /\ frames[Len(frames)].start \in Nat /\ frames[Len(frames)].phys \in Nat
    BY <1>1, <2>1, FrameFields
  <2>4. ASSUME NEW k \in 1 .. Len(frames)
        PROVE  frames[k].start + frames[k].phys <= StreamEnd
    <3>1. frames[k].start \in Nat /\ frames[k].phys \in Nat
      BY <1>1, FrameFields
    <3>2. CASE k = Len(frames)
      BY <2>2, <2>3, <3>2
    <3>3. CASE k < Len(frames)
      <4>1. frames[k].start + frames[k].phys <= frames[Len(frames)].start
        BY <2>1, <3>3 DEF FramesOnStream
      <4> QED
        BY <2>2, <2>3, <3>1, <4>1
    <3> QED
      BY <1>1, <3>2, <3>3
  <2> QED
    BY <1>1, <2>1, <2>2, <2>3, <2>4
<1> QED
  BY <1>2, <1>3

(* The position of the next frame is one of the stream. *)
LEMMA NextStartIs ==
  ASSUME TypeOK, FramesOnStream
  PROVE  NextStart \in Nat /\ NextFrame \in Nat \ {0} /\ NextStart <= StreamEnd
<1>1. frames \in Seq(Frame) /\ Len(frames) \in Nat /\ Len(delivered) \in Nat
  BY LenProperties DEF TypeOK
<1>2. CASE NextFrame <= Len(frames)
  <2>1. NextFrame \in 1 .. Len(frames)
    BY <1>1, <1>2 DEF NextFrame
  <2>2. /\ frames[NextFrame].start \in Nat /\ frames[NextFrame].phys \in Nat
    BY <1>1, <2>1, FrameFields
  <2>3. frames[NextFrame].start + frames[NextFrame].phys <= StreamEnd /\ StreamEnd \in Nat
    BY <2>1, StreamEndIs
  <2> QED
    BY <1>1, <2>1, <2>2, <2>3 DEF NextStart
<1>3. CASE ~(NextFrame <= Len(frames))
  BY <1>1, <1>3, StreamEndIs DEF NextStart, NextFrame
<1> QED
  BY <1>2, <1>3

(* The length field that is read at the start of a frame is that frame's,   *)
(* and so is the outcome of decoding it: no two frames start at one place.  *)
LEMMA FieldsAtStart ==
  ASSUME TypeOK, FramesOnStream, NEW m \in 1 .. Len(frames)
  PROVE  /\ size_field(frames[m].start) = frames[m].len
         /\ Decodes(frames[m].start) <=> frames[m].ok
<1>0. frames \in Seq(Frame) /\ Len(frames) \in Nat
  BY LenProperties DEF TypeOK
<1>1. ASSUME NEW k \in 1 .. Len(frames), frames[k].start = frames[m].start
      PROVE  k = m
  <2>1. /\ frames[k].start \in Nat /\ frames[k].phys \in Nat /\ frames[k].len \in Nat
        /\ frames[m].start \in Nat /\ frames[m].phys \in Nat /\ frames[m].len \in Nat
    BY <1>0, FrameFields
  <2>2. frames[k].phys > 0 /\ frames[m].phys > 0
    BY <2>1, SizeAssumption DEF FramesOnStream
  <2>3. /\ k < m => frames[k].start + frames[k].phys <= frames[m].start
        /\ m < k => frames[m].start + frames[m].phys <= frames[k].start
    BY DEF FramesOnStream
  <2> QED
    BY <1>0, <1>1, <2>1, <2>2, <2>3
<1>2. (CHOOSE k \in 1 .. Len(frames) : frames[k].start = frames[m].start) = m
  BY <1>1
<1> QED
  BY <1>1, <1>2 DEF size_field, Decodes

(* What is at the read cursor when the buffer is not empty. *)
LEMMA HeadFrame ==
  ASSUME StreamInv, read_cursor < write_cursor
  PROVE  /\ NextFrame \in 1 .. Len(frames)
         /\ buf[read_cursor] = frames[NextFrame].start
         /\ peer_peek_incoming = IF Avail < HdrLen THEN HdrLen ELSE frames[NextFrame].len
         /\ Decodes(buf[read_cursor]) <=> frames[NextFrame].ok
<1>1. /\ TypeOK /\ FramesOnStream /\ BufferOnStream
      /\ Len(frames) \in Nat /\ Len(delivered) \in Nat
      /\ read_cursor \in Nat /\ write_cursor \in Nat /\ arrived \in Nat /\ sent \in Nat
  BY LenProperties, SizeAssumption DEF StreamInv, TypeOK
<1>2. NextStart \in Nat /\ StreamEnd \in Nat /\ NextStart < StreamEnd
  <2>1. NextStart < arrived /\ arrived <= StreamEnd
    BY <1>1, NextStartIs, StreamEndIs DEF BufferOnStream, FramesOnStream
  <2> QED
    BY <1>1, <2>1, NextStartIs, StreamEndIs
<1>3. NextFrame \in 1 .. Len(frames) /\ NextStart = frames[NextFrame].start
  BY <1>1, <1>2 DEF NextStart, NextFrame
<1>4. buf[read_cursor] = frames[NextFrame].start
  <2>1. read_cursor \in read_cursor .. write_cursor - 1 /\ read_cursor \in Addr
    BY <1>1, SizeAssumption DEF TypeOK, Addr
  <2>2. buf[read_cursor] + write_cursor = arrived + read_cursor /\ buf[read_cursor] \in Nat
    BY <1>1, <2>1 DEF BufferOnStream, TypeOK
  <2>3. arrived + read_cursor = NextStart + write_cursor
    BY <1>1 DEF BufferOnStream
  <2> QED
    BY <1>1, <1>2, <1>3, <2>2, <2>3
<1> QED
  BY <1>1, <1>3, <1>4, FieldsAtStart DEF peer_peek_incoming

-----------------------------------------------------------------------------
(* One lemma per action: the invariant is preserved.                        *)

LEMMA StreamInvInit == Init => StreamInv
<1> SUFFICES ASSUME Init PROVE StreamInv
  OBVIOUS
<1>1. /\ frames = <<>> /\ delivered = <<>> /\ Len(frames) = 0 /\ Len(delivered) = 0
      /\ sent = 0 /\ arrived = 0 /\ read_cursor = 0 /\ write_cursor = 0
      /\ pc = "idle" /\ error = FALSE /\ disconnect = FALSE /\ eof = FALSE
      /\ StreamEnd = 0
  BY DEF Init, StreamEnd
<1>2. TypeOK
  <2>1. frames \in Seq(Frame) /\ delivered \in Seq(Seq(Nat))
    BY <1>1
  <2>2. buf \in [Addr -> Nat]
    BY DEF Init
  <2>3. error \in BOOLEAN /\ disconnect \in BOOLEAN /\ eof \in BOOLEAN
    BY <1>1
  <2>4. /\ sent \in Nat /\ arrived \in Nat
        /\ read_cursor \in 0 .. BufSize /\ write_cursor \in 0 .. BufSize
    BY <1>1, SizeAssumption
  <2> QED
    BY <1>1, <2>1, <2>2, <2>3, <2>4 DEF TypeOK
<1>3. FramesOnStream /\ BufferOnStream /\ DeliveredExactly /\ NothingLeft
  BY <1>1 DEF FramesOnStream, BufferOnStream, DeliveredExactly, NothingLeft, NextStart,
              NextFrame, Incomplete, Avail
<1> QED
  BY <1>1, <1>2, <1>3 DEF StreamInv

(* A new frame begins where the stream ended. *)
LEMMA SendFramePreserves ==
  ASSUME StreamInv, NEW len \in Nat, NEW ok \in BOOLEAN,
         ok => len \in HdrLen .. BufSize, SendFrame(len, ok)
  PROVE  StreamInv'
<1> DEFINE L == Len(frames)
           phys == IF len < HdrLen THEN HdrLen ELSE len
           f == [start |-> StreamEnd, len |-> len, phys |-> phys, ok |-> ok]
<1>0. /\ TypeOK /\ FramesOnStream /\ BufferOnStream /\ DeliveredExactly /\ NothingLeft
      /\ frames \in Seq(Frame) /\ L \in Nat /\ Len(delivered) \in Nat
      /\ arrived \in Nat /\ sent \in Nat /\ HdrLen \in Nat \ {0}
      /\ read_cursor \in Nat /\ write_cursor \in Nat
  BY LenProperties, SizeAssumption DEF StreamInv, TypeOK
<1>1. StreamEnd \in Nat /\ phys \in Nat \ {0} /\ f \in Frame
  BY <1>0, StreamEndIs DEF Frame
<1>2. /\ frames' = Append(frames, f) /\ sent' = StreamEnd + phys
      /\ UNCHANGED <<eof, arrived, buf, read_cursor, write_cursor, error, disconnect, pc,
                     delivered>>
      /\ ~eof
  BY DEF SendFrame, inbuf
<1>3. /\ frames' \in Seq(Frame) /\ Len(frames') = L + 1
      /\ \A k \in 1 .. L : frames'[k] = frames[k]
      /\ frames'[L + 1] = f
  BY <1>0, <1>1, <1>2, AppendProperties
<1>4. StreamEnd' = StreamEnd + phys
  <2>1. frames' # <<>>
    BY <1>0, <1>3
  <2> QED
    BY <1>3, <2>1 DEF StreamEnd
<1>5. TypeOK'
  BY <1>0, <1>1, <1>2, <1>3 DEF TypeOK
<1>6. Len(delivered) <= L
  BY <1>0 DEF DeliveredExactly
<1>7. NextFrame' = NextFrame /\ NextFrame \in 1 .. L + 1
  BY <1>0, <1>2, <1>6 DEF NextFrame
<1>8. NextStart' = NextStart
  BY <1>0, <1>3, <1>7 DEF NextStart
<1>9. FramesOnStream'
  <2>1. ASSUME NEW k \in 1 .. L + 1
        PROVE  /\ frames'[k].phys = IF frames'[k].len < HdrLen THEN HdrLen ELSE frames'[k].len
               /\ frames'[k].ok => frames'[k].len \in HdrLen .. BufSize
    <3>1. CASE k \in 1 .. L
      BY <1>0, <1>3, <3>1 DEF FramesOnStream
    <3>2. CASE k = L + 1
      BY <1>3, <3>2
    <3> QED
      BY <1>0, <3>1, <3>2
  <2>2. frames'[1].start = 0
    <3>1. CASE L = 0
      BY <1>0, <1>3, <3>1, StreamEndIs
    <3>2. CASE L > 0
      BY <1>0, <1>3, <3>2 DEF FramesOnStream
    <3> QED
      BY <1>0, <3>1, <3>2
  <2>3. ASSUME NEW k \in 1 .. L
        PROVE  frames'[k + 1].start = frames'[k].start + frames'[k].phys
    <3>1. CASE k = L
      BY <1>0, <1>3, <3>1, StreamEndIs
    <3>2. CASE k < L
      <4>1. k \in 1 .. L - 1 /\ k + 1 \in 1 .. L
        BY <1>0, <3>2
      <4> QED
        BY <1>0, <1>3, <4>1 DEF FramesOnStream
    <3> QED
      BY <1>0, <3>1, <3>2
  <2>4. ASSUME NEW i \in 1 .. L + 1, NEW j \in 1 .. L + 1, i < j
        PROVE  frames'[i].start + frames'[i].phys <= frames'[j].start
    <3>1. i \in 1 .. L
      BY <1>0, <2>4
    <3>2. CASE j \in 1 .. L
      BY <1>0, <1>3, <2>4, <3>1, <3>2 DEF FramesOnStream
    <3>3. CASE j = L + 1
      BY <1>0, <1>3, <3>1, <3>3, StreamEndIs
    <3> QED
      BY <1>0, <3>2, <3>3
  <2>5. arrived <= StreamEnd + phys
    <3>1. arrived <= sent /\ sent <= StreamEnd
      BY <1>0 DEF FramesOnStream
    <3> QED
      BY <1>0, <1>1, <3>1
  <2>6. L + 1 - 1 = L /\ L + 1 > 0
    BY <1>0
  <2> QED
    BY <1>0, <1>1, <1>2, <1>3, <1>4, <2>1, <2>2, <2>3, <2>4, <2>5, <2>6 DEF FramesOnStream
<1>10. BufferOnStream'
  BY <1>0, <1>2, <1>8 DEF BufferOnStream
<1>11. DeliveredExactly' /\ \A k \in 1 .. Len(delivered') : frames'[k].ok
  BY <1>0, <1>2, <1>3, <1>6 DEF DeliveredExactly, StreamInv
<1>12. Wedged => Wedged'
  BY <1>0, <1>2, <1>3 DEF Wedged
<1>13. Incomplete => Incomplete'
  BY <1>0, <1>2, <1>3, <1>7 DEF Incomplete, Avail
<1>14. NothingLeft'
  BY <1>0, <1>2, <1>12, <1>13 DEF NothingLeft
<1> QED
  BY <1>5, <1>9, <1>10, <1>11, <1>14 DEF StreamInv

(* What depends on the frames, the buffer and the deliveries alone stays as *)
(* it is in a step that leaves those alone.                                 *)
LEMMA Frame_Unchanged ==
  ASSUME UNCHANGED <<frames, delivered>>
  PROVE  /\ StreamEnd' = StreamEnd /\ NextFrame' = NextFrame /\ NextStart' = NextStart
         /\ Wedged' = Wedged /\ DeliveredExactly' = DeliveredExactly
         /\ UNCHANGED <<read_cursor, write_cursor>> => Incomplete' = Incomplete
BY DEF StreamEnd, NextFrame, NextStart, Wedged, DeliveredExactly, Incomplete, Avail

(* What is lost at a close has not arrived. *)
LEMMA ClosePreserves == ASSUME StreamInv, Close PROVE StreamInv'
<1>0. /\ TypeOK /\ FramesOnStream /\ BufferOnStream /\ DeliveredExactly /\ NothingLeft
      /\ arrived \in Nat /\ sent \in Nat
  BY DEF StreamInv, TypeOK
<1>1. /\ ~eof /\ eof' = TRUE /\ sent' \in arrived .. sent
      /\ UNCHANGED <<frames, arrived, buf, read_cursor, write_cursor, error, disconnect, pc,
                     delivered>>
  BY DEF Close, inbuf
<1>2. TypeOK'
  BY <1>0, <1>1 DEF TypeOK
<1>3. FramesOnStream'
  BY <1>0, <1>1, StreamEndIs, Frame_Unchanged, SMTT(30) DEF FramesOnStream
<1>4. BufferOnStream' /\ DeliveredExactly' /\ NothingLeft'
  BY <1>0, <1>1, Frame_Unchanged DEF BufferOnStream, NothingLeft
<1> QED
  BY <1>1, <1>2, <1>3, <1>4 DEF StreamInv

(* recv() appends the bytes that follow to the used part of the buffer. *)
LEMMA RecvSomePreserves ==
  ASSUME StreamInv, NEW n \in 1 .. BufSize, recv_some(n)
  PROVE  StreamInv'
<1>0. /\ TypeOK /\ FramesOnStream /\ BufferOnStream /\ DeliveredExactly /\ NothingLeft
      /\ arrived \in Nat /\ sent \in Nat /\ BufSize \in Nat
      /\ read_cursor \in 0 .. BufSize /\ write_cursor \in 0 .. BufSize
      /\ buf \in [Addr -> Nat]
  BY SizeAssumption DEF StreamInv, TypeOK
<1>1. /\ pc = "idle" /\ pc' = "update"
      /\ write_cursor + n <= BufSize /\ arrived + n <= sent
      /\ buf' = [i \in Addr |-> IF i \in write_cursor .. write_cursor + n - 1
                                 THEN arrived + (i - write_cursor) ELSE buf[i]]
      /\ write_cursor' = write_cursor + n /\ arrived' = arrived + n
      /\ UNCHANGED <<frames, sent, eof, read_cursor, error, disconnect, delivered>>
  BY <1>0 DEF recv_some, max_buffer_left, stream
<1>2. TypeOK'
  <2>1. buf' \in [Addr -> Nat]
    BY <1>0, <1>1 DEF Addr
  <2> QED
    BY <1>0, <1>1, <2>1 DEF TypeOK
<1>3. FramesOnStream'
  BY <1>0, <1>1, Frame_Unchanged DEF FramesOnStream
<1>4. BufferOnStream'
  <2>1. NextStart \in Nat /\ NextStart' = NextStart
    BY <1>0, <1>1, NextStartIs, Frame_Unchanged
  <2>2. arrived + n + read_cursor = NextStart + (write_cursor + n)
    BY <1>0, <2>1 DEF BufferOnStream
  <2>3. ASSUME NEW i \in read_cursor .. write_cursor + n - 1
        PROVE  buf'[i] + (write_cursor + n) = arrived + n + i
    <3>1. i \in Addr
      BY <1>0, <1>1 DEF Addr
    <3>2. CASE i < write_cursor
      <4>1. buf'[i] = buf[i] /\ buf[i] \in Nat
        BY <1>0, <1>1, <3>1, <3>2
      <4>2. buf[i] + write_cursor = arrived + i
        BY <1>0, <3>2 DEF BufferOnStream
      <4> QED
        BY <1>0, <4>1, <4>2
    <3>3. CASE i >= write_cursor
      <4>1. buf'[i] = arrived + (i - write_cursor)
        BY <1>0, <1>1, <3>1, <3>3
      <4> QED
        BY <1>0, <4>1
    <3> QED
      BY <1>0, <3>2, <3>3
  <2>4. read_cursor <= write_cursor + n
    BY <1>0 DEF BufferOnStream
  <2> QED
    BY <1>0, <1>1, <2>1, <2>2, <2>3, <2>4 DEF BufferOnStream
<1>5. NothingLeft'
  BY <1>0, <1>1 DEF NothingLeft
<1> QED
  BY <1>1, <1>2, <1>3, <1>4, <1>5, Frame_Unchanged DEF StreamInv

(* An idle receiver whose buffer is full is stuck on an empty frame. *)
LEMMA RoomWhenIdle ==
  ASSUME StreamInv, pc = "idle"
  PROVE  RecvHasRoom
<1>1. /\ BufSize \in Nat /\ HdrLen \in 1 .. BufSize
      /\ read_cursor = 0 /\ write_cursor \in 0 .. BufSize
      /\ Incomplete \/ Wedged
      /\ frames \in Seq(Frame) /\ Len(frames) \in Nat /\ Len(delivered) \in Nat
  BY SizeAssumption, LenProperties DEF StreamInv, TypeOK, NothingLeft
<1>2. ASSUME Incomplete PROVE write_cursor < BufSize
  <2>1. CASE NextFrame <= Len(frames)
    <3>1. frames[NextFrame].len \in Nat
      BY <1>1, <2>1, FrameFields DEF NextFrame
    <3> QED
      BY <1>1, <1>2, <3>1 DEF Incomplete, Avail
  <2>2. CASE ~(NextFrame <= Len(frames))
    BY <1>1, <1>2, <2>2 DEF Incomplete, Avail
  <2> QED
    BY <2>1, <2>2
<1> QED
  BY <1>1, <1>2 DEF RecvHasRoom, max_buffer_left

(* The end of the stream, a failed recv(), and an update without input. *)
LEMMA RecvNothingPreserves ==
  ASSUME StreamInv, recv_zero \/ recv_fails \/ nothing_to_recv
  PROVE  StreamInv'
<1>0. /\ TypeOK /\ FramesOnStream /\ BufferOnStream /\ DeliveredExactly /\ NothingLeft
      /\ write_cursor \in 0 .. BufSize /\ BufSize \in Nat
  BY SizeAssumption DEF StreamInv, TypeOK
<1>1. /\ pc = "idle" /\ pc' = "update" /\ error' \in BOOLEAN /\ disconnect' \in BOOLEAN
      /\ UNCHANGED <<frames, sent, eof, arrived, buf, read_cursor, write_cursor, delivered>>
  BY <1>0 DEF recv_zero, recv_fails, nothing_to_recv, stream, inbuf, TypeOK
<1>2. TypeOK' /\ FramesOnStream' /\ BufferOnStream' /\ DeliveredExactly'
  BY <1>0, <1>1, Frame_Unchanged DEF TypeOK, FramesOnStream, BufferOnStream
<1>3. disconnect' => Wedged \/ (eof /\ arrived = sent /\ Incomplete)
  <2>1. ~disconnect /\ (Incomplete \/ Wedged)
    BY <1>0, <1>1 DEF NothingLeft
  <2>2. ~Wedged => max_buffer_left # 0
    BY <1>0, <1>1, RoomWhenIdle DEF RecvHasRoom, max_buffer_left
  <2>3. disconnect' => recv_zero
    BY <2>1 DEF recv_fails, nothing_to_recv
  <2>4. recv_zero => max_buffer_left = 0 \/ (eof /\ arrived = sent)
    BY DEF recv_zero
  <2> QED
    BY <2>1, <2>2, <2>3, <2>4
<1>4. NothingLeft'
  BY <1>1, <1>3, Frame_Unchanged DEF NothingLeft
<1> QED
  BY <1>1, <1>2, <1>4 DEF StreamInv

(* The end of the connection on the receiver's side. *)
LEMMA FailPreserves ==
  ASSUME StreamInv, NEW e \in BOOLEAN, Fail(e)
  PROVE  StreamInv'
<1>0. /\ TypeOK /\ FramesOnStream /\ BufferOnStream /\ DeliveredExactly /\ NothingLeft
  BY DEF StreamInv
<1>1. /\ pc' = "closed" /\ error' = e
      /\ UNCHANGED <<frames, sent, eof, arrived, buf, read_cursor, write_cursor, disconnect,
                     delivered>>
  BY DEF Fail, stream, inbuf
<1>2. TypeOK' /\ FramesOnStream' /\ BufferOnStream' /\ DeliveredExactly'
  BY <1>0, <1>1, Frame_Unchanged DEF TypeOK, FramesOnStream, BufferOnStream
<1>3. NothingLeft'
  BY <1>0, <1>1, Frame_Unchanged DEF NothingLeft
<1> QED
  BY <1>1, <1>2, <1>3 DEF StreamInv

(* A whole frame that decodes is handed on, and it is the next one. *)
LEMMA DeliverPreserves == ASSUME StreamInv, update_deliver PROVE StreamInv'
<1> DEFINE m == NextFrame
           size == peer_peek_incoming
           bytes == [j \in 1 .. size |-> buf[read_cursor + j - 1]]
<1>0. /\ TypeOK /\ FramesOnStream /\ BufferOnStream /\ DeliveredExactly /\ NothingLeft
      /\ frames \in Seq(Frame) /\ Len(frames) \in Nat
      /\ delivered \in Seq(Seq(Nat)) /\ Len(delivered) \in Nat
      /\ arrived \in Nat /\ BufSize \in Nat /\ HdrLen \in 1 .. BufSize
      /\ read_cursor \in 0 .. BufSize /\ write_cursor \in 0 .. BufSize
      /\ buf \in [Addr -> Nat]
  BY LenProperties, SizeAssumption DEF StreamInv, TypeOK
<1>1. /\ pc = "update" /\ ~error /\ ~disconnect /\ read_cursor < write_cursor
      /\ size > 0 /\ Avail >= size /\ Decodes(buf[read_cursor])
      /\ delivered' = Append(delivered, bytes)
      /\ read_cursor' = read_cursor + size
      /\ UNCHANGED <<frames, sent, eof, arrived, buf, write_cursor, error, disconnect, pc>>
  BY DEF update_deliver, Complete, stream
<1>a. m = Len(delivered) + 1 /\ NextFrame = m /\ peer_peek_incoming = size
  BY DEF NextFrame
<1>b. bytes = [j \in 1 .. size |-> buf[read_cursor + j - 1]]
  OBVIOUS
<1>c. arrived \in Nat /\ read_cursor \in Nat /\ write_cursor \in Nat
  BY <1>0
<1> HIDE DEF m, size, bytes
<1>2. /\ m \in 1 .. Len(frames) /\ buf[read_cursor] = frames[m].start /\ frames[m].ok
      /\ size = IF Avail < HdrLen THEN HdrLen ELSE frames[m].len
  BY <1>1, <1>a, HeadFrame
<1>3. /\ frames[m].start \in Nat /\ frames[m].len \in Nat /\ frames[m].phys \in Nat
  BY <1>0, <1>2, FrameFields
<1>4. /\ frames[m].len \in HdrLen .. BufSize /\ frames[m].phys = frames[m].len
      /\ size = frames[m].len
  <2>1. frames[m].len \in HdrLen .. BufSize
    BY <1>0, <1>2 DEF FramesOnStream
  <2>2. frames[m].phys = IF frames[m].len < HdrLen THEN HdrLen ELSE frames[m].len
    BY <1>0, <1>2 DEF FramesOnStream
  <2>3. ~(Avail < HdrLen)
    BY <1>0, <1>1, <1>2 DEF Avail
  <2> QED
    BY <1>0, <1>2, <2>1, <2>2, <2>3
<1>5. size \in Nat /\ read_cursor + size <= write_cursor
  BY <1>0, <1>1, <1>3, <1>4 DEF Avail
<1>6. bytes = [j \in 1 .. frames[m].len |-> frames[m].start + j - 1]
  <2>1. ASSUME NEW j \in 1 .. size
        PROVE  buf[read_cursor + j - 1] = frames[m].start + j - 1
    <3>1. read_cursor + j - 1 \in read_cursor .. write_cursor - 1
      BY <1>0, <1>5
    <3>2. buf[read_cursor + j - 1] \in Nat
      <4>1. read_cursor + j - 1 \in Addr
        BY <1>0, <3>1 DEF Addr
      <4> QED
        BY <1>0, <4>1
    <3>3. buf[read_cursor + j - 1] + write_cursor = arrived + (read_cursor + j - 1)
      BY <1>0, <3>1 DEF BufferOnStream
    <3>4. arrived + read_cursor = frames[m].start + write_cursor
      BY <1>0, <1>2, <1>a DEF BufferOnStream, NextStart
    <3> QED
      BY <1>3, <1>5, <1>c, <3>2, <3>3, <3>4
  <2> QED
    BY <1>4, <1>b, <2>1
<1>7. bytes \in Seq(Nat)
  <2>1. bytes \in [1 .. size -> Nat]
    BY <1>3, <1>4, <1>6
  <2> QED
    BY <1>5, <2>1, SeqDef
<1>8. /\ delivered' \in Seq(Seq(Nat)) /\ Len(delivered') = m
      /\ \A k \in 1 .. Len(delivered) : delivered'[k] = delivered[k]
      /\ delivered'[m] = bytes
  BY <1>0, <1>1, <1>7, <1>a, AppendProperties
<1>9. TypeOK'
  BY <1>0, <1>1, <1>5, <1>8 DEF TypeOK
<1>10. FramesOnStream'
  BY <1>0, <1>1 DEF FramesOnStream, StreamEnd
<1>11. NextStart' = frames[m].start + frames[m].phys
  <2>1. NextFrame' = m + 1 /\ StreamEnd' = StreamEnd
    BY <1>1, <1>8, <1>a DEF NextFrame, StreamEnd
  <2>2. CASE m = Len(frames)
    BY <1>0, <1>1, <1>2, <2>1, <2>2, StreamEndIs DEF NextStart
  <2>3. CASE m < Len(frames)
    <3>1. m \in 1 .. Len(frames) - 1 /\ m + 1 <= Len(frames)
      BY <1>0, <1>2, <2>3
    <3>2. frames[m + 1].start = frames[m].start + frames[m].phys
      BY <1>0, <3>1 DEF FramesOnStream
    <3> QED
      BY <1>1, <2>1, <3>1, <3>2 DEF NextStart
  <2> QED
    BY <1>0, <1>2, <2>2, <2>3
<1>12. BufferOnStream'
  <2>1. arrived + read_cursor = frames[m].start + write_cursor
    BY <1>0, <1>2, <1>a DEF BufferOnStream, NextStart
  <2>2. arrived + (read_cursor + size) = NextStart' + write_cursor
    <3>1. NextStart' = frames[m].start + size
      BY <1>4, <1>11
    <3> QED
      BY <1>3, <1>5, <1>c, <2>1, <3>1
  <2>3. \A i \in read_cursor + size .. write_cursor - 1 : buf[i] + write_cursor = arrived + i
    BY <1>0, <1>5 DEF BufferOnStream
  <2> QED
    BY <1>1, <1>5, <2>2, <2>3 DEF BufferOnStream
<1>13. DeliveredExactly' /\ \A k \in 1 .. Len(delivered') : frames'[k].ok
  <2>1. ASSUME NEW k \in 1 .. m
        PROVE  /\ frames[k].ok
               /\ delivered'[k] = [j \in 1 .. frames[k].len |-> frames[k].start + j - 1]
    <3>1. CASE k = m
      BY <1>2, <1>6, <1>8, <3>1
    <3>2. CASE k \in 1 .. Len(delivered)
      BY <1>0, <1>8, <3>2 DEF DeliveredExactly, StreamInv
    <3> QED
      BY <1>0, <1>a, <3>1, <3>2
  <2>2. Len(delivered') <= Len(frames') /\ Len(delivered') = m /\ frames' = frames
    BY <1>0, <1>1, <1>2, <1>8
  <2> QED
    BY <2>1, <2>2, Zenon DEF DeliveredExactly
<1>14. NothingLeft'
  BY <1>1 DEF NothingLeft
<1> QED
  BY <1>9, <1>10, <1>12, <1>13, <1>14 DEF StreamInv

(* The loop ends only when the next frame has not arrived whole, and moving *)
(* the rest to the front keeps its bytes.                                   *)
LEMMA DonePreserves == ASSUME StreamInv, update_done PROVE StreamInv'
<1>0. /\ TypeOK /\ FramesOnStream /\ BufferOnStream /\ DeliveredExactly /\ NothingLeft
      /\ frames \in Seq(Frame) /\ Len(frames) \in Nat /\ Len(delivered) \in Nat
      /\ arrived \in Nat /\ BufSize \in Nat /\ HdrLen \in 1 .. BufSize
      /\ read_cursor \in 0 .. BufSize /\ write_cursor \in 0 .. BufSize
      /\ buf \in [Addr -> Nat] /\ read_cursor <= write_cursor
  BY LenProperties, SizeAssumption DEF StreamInv, TypeOK, BufferOnStream
<1>1. /\ ~error /\ ~disconnect
      /\ buf' = [i \in Addr |-> IF i < Avail THEN buf[read_cursor + i] ELSE buf[i]]
      /\ read_cursor' = 0 /\ write_cursor' = Avail /\ pc' = "idle"
      /\ UNCHANGED <<frames, sent, eof, arrived, error, disconnect, delivered>>
  BY DEF update_done, Compacted, stream
<1>2. Avail \in 0 .. BufSize /\ read_cursor + Avail = write_cursor
  BY <1>0 DEF Avail
<1>3. TypeOK'
  <2>1. ASSUME NEW i \in Addr, i < Avail PROVE read_cursor + i \in Addr
    BY <1>0, <1>2, <2>1 DEF Addr
  <2>2. buf' \in [Addr -> Nat]
    BY <1>0, <1>1, <2>1
  <2> QED
    BY <1>0, <1>1, <1>2, <2>2 DEF TypeOK
<1>4. FramesOnStream' /\ DeliveredExactly'
  BY <1>0, <1>1, Frame_Unchanged DEF FramesOnStream
<1>5. BufferOnStream'
  <2>1. NextStart' = NextStart /\ NextStart \in Nat
    BY <1>0, <1>1, Frame_Unchanged, NextStartIs
  <2>2. arrived + 0 = NextStart + Avail
    BY <1>0, <1>2, <2>1 DEF BufferOnStream
  <2>3. ASSUME NEW i \in 0 .. Avail - 1
        PROVE  buf'[i] + Avail = arrived + i
    <3>1. i \in Addr /\ read_cursor + i \in Addr /\ i < Avail
          /\ read_cursor + i \in read_cursor .. write_cursor - 1
      BY <1>0, <1>2 DEF Addr
    <3>2. buf'[i] = buf[read_cursor + i] /\ buf[read_cursor + i] \in Nat
      BY <1>0, <1>1, <3>1
    <3>3. buf[read_cursor + i] + write_cursor = arrived + (read_cursor + i)
      BY <1>0, <3>1 DEF BufferOnStream
    <3> QED
      BY <1>0, <1>2, <3>2, <3>3
  <2> QED
    BY <1>1, <1>2, <2>1, <2>2, <2>3 DEF BufferOnStream
<1>6. Incomplete \/ Wedged
  <2>1. CASE read_cursor = write_cursor
    BY <1>0, <2>1 DEF Incomplete, Avail
  <2>2. CASE read_cursor < write_cursor
    <3>1. /\ NextFrame \in 1 .. Len(frames)
          /\ peer_peek_incoming = IF Avail < HdrLen THEN HdrLen ELSE frames[NextFrame].len
      BY <2>2, HeadFrame
    <3>2. frames[NextFrame].len \in Nat
      BY <1>0, <3>1, FrameFields
    <3>3. CASE Avail < HdrLen
      BY <1>0, <3>1, <3>3 DEF Incomplete
    <3>4. CASE ~(Avail < HdrLen)
      <4>1. \/ frames[NextFrame].len = 0
            \/ frames[NextFrame].len <= BufSize /\ Avail < frames[NextFrame].len
        BY <1>0, <2>2, <3>1, <3>2, <3>4 DEF update_done, WillNeverFit
      <4> QED
        BY <1>0, <3>1, <4>1 DEF Incomplete, Wedged, NextFrame
    <3> QED
      BY <3>3, <3>4
  <2> QED
    BY <1>0, <2>1, <2>2
<1>7. NothingLeft'
  <2>1. Avail' = Avail
    BY <1>1, <1>2 DEF Avail
  <2>2. Incomplete' = Incomplete
    BY <1>1, <2>1 DEF Incomplete, NextFrame
  <2> QED
    BY <1>1, <1>6, <2>2, Frame_Unchanged DEF NothingLeft
<1> QED
  BY <1>1, <1>3, <1>4, <1>5, <1>7 DEF StreamInv

-----------------------------------------------------------------------------
(* The theorems                                                             *)

LEMMA StreamInvStep == StreamInv /\ [Next]_vars => StreamInv'
<1> SUFFICES ASSUME StreamInv, [Next]_vars PROVE StreamInv'
  OBVIOUS
<1>1. ASSUME NEW len \in GoodLens, NEW ok \in BOOLEAN, SendFrame(len, ok) PROVE StreamInv'
  <2>1. len \in HdrLen .. BufSize /\ len \in Nat
    BY SizeAssumption
  <2> QED
    BY <1>1, <2>1, SendFramePreserves
<1>2. ASSUME NEW len \in BadLens, SendFrame(len, FALSE) PROVE StreamInv'
  <2>1. len \in Nat
    BY SizeAssumption
  <2> QED
    BY <1>2, <2>1, SendFramePreserves
<1>3. CASE Close
  BY <1>3, ClosePreserves
<1>4. ASSUME NEW n \in 1 .. BufSize, recv_some(n) PROVE StreamInv'
  BY <1>4, RecvSomePreserves
<1>5. CASE recv_zero \/ recv_fails \/ nothing_to_recv
  BY <1>5, RecvNothingPreserves
<1>6. CASE Update
  <2>1. CASE update_sees_error \/ update_too_large \/ update_deliver_fails
    <3>1. error \in BOOLEAN
      BY DEF StreamInv, TypeOK
    <3> QED
      BY <2>1, <3>1, FailPreserves DEF update_sees_error, update_too_large, update_deliver_fails
  <2> QED
    BY <1>6, <2>1, DeliverPreserves, DonePreserves DEF Update
<1>7. CASE UNCHANGED vars
  <2>1. /\ UNCHANGED <<frames, sent, eof, arrived, buf, read_cursor, write_cursor, error,
                       disconnect, pc, delivered>>
    BY <1>7 DEF vars, stream, inbuf
  <2> QED
    BY <2>1, Frame_Unchanged DEF StreamInv, TypeOK, FramesOnStream, BufferOnStream, NothingLeft
<1> QED
  BY <1>1, <1>2, <1>3, <1>4, <1>5, <1>6, <1>7 DEF Next

LEMMA StreamInvAlways == Spec => []StreamInv
BY StreamInvInit, StreamInvStep, PTL DEF Spec

(* The cursors of inbuf stay within it, whatever recv() returns, for every  *)
(* buffer size and every sequence of frames.                                *)
THEOREM TypeCorrect == Spec => []TypeOK
<1>1. StreamInv => TypeOK
  BY DEF StreamInv
<1> QED
  BY <1>1, StreamInvAlways, PTL

(* rl_transport_update hands on exactly the frames that were sent, in       *)
(* order, whole and once, however recv() cuts the stream.                   *)
THEOREM FramesDeliveredExactly == Spec => []DeliveredExactly
<1>1. StreamInv => DeliveredExactly
  BY DEF StreamInv
<1> QED
  BY <1>1, StreamInvAlways, PTL

(* rl_transport_on_input_arrived never calls recv() without room, which it  *)
(* would take for a disconnect, unless a frame of length zero was sent.     *)
THEOREM RecvAlwaysHasRoom == Spec => []RecvHasRoom
<1>1. StreamInv => RecvHasRoom
  BY RoomWhenIdle DEF RecvHasRoom
<1> QED
  BY <1>1, StreamInvAlways, PTL

(* When a disconnect has been noticed every frame that arrived whole before *)
(* it has been delivered.                                                   *)
THEOREM CloseNeverOvertakes == Spec => []CloseLosesNothing
<1>1. ASSUME StreamInv PROVE CloseLosesNothing
  <2> SUFFICES ASSUME disconnect, ~Wedged, NEW k \in 1 .. Len(frames),
                      frames[k].start + frames[k].phys <= sent, ~(k <= Len(delivered))
               PROVE  FALSE
    BY DEF CloseLosesNothing
  <2>0. /\ TypeOK /\ FramesOnStream /\ BufferOnStream
        /\ frames \in Seq(Frame) /\ Len(frames) \in Nat /\ Len(delivered) \in Nat
        /\ read_cursor \in Nat /\ write_cursor \in Nat /\ HdrLen \in Nat \ {0}
        /\ arrived \in Nat /\ eof /\ arrived = sent /\ Incomplete
    BY <1>1, LenProperties, SizeAssumption DEF StreamInv, TypeOK, NothingLeft
  <2>1. NextFrame \in 1 .. Len(frames) /\ NextFrame <= k
    BY <2>0 DEF NextFrame
  <2>2. /\ frames[NextFrame].start \in Nat /\ frames[NextFrame].len \in Nat
        /\ frames[NextFrame].phys \in Nat
        /\ frames[k].start \in Nat /\ frames[k].phys \in Nat
    BY <2>0, <2>1, FrameFields
  <2>3. frames[NextFrame].start + frames[NextFrame].phys <= arrived
    <3>1. CASE NextFrame = k
      BY <2>0, <3>1
    <3>2. CASE NextFrame < k
      <4>1. frames[NextFrame].start + frames[NextFrame].phys <= frames[k].start
        BY <2>0, <2>1, <3>2 DEF FramesOnStream
      <4>2. frames[k].start + frames[k].phys <= arrived /\ arrived \in Nat
        BY <2>0
      <4> QED
        BY <2>2, <4>1, <4>2, SMTT(30)
    <3> QED
      BY <2>0, <2>1, <3>1, <3>2
  <2>4. arrived + read_cursor = frames[NextFrame].start + write_cursor
    BY <2>0, <2>1 DEF BufferOnStream, NextStart
  <2>5. Avail >= frames[NextFrame].phys
    BY <2>0, <2>2, <2>3, <2>4, SMTT(30) DEF Avail
  <2>6. frames[NextFrame].phys
          = IF frames[NextFrame].len < HdrLen THEN HdrLen ELSE frames[NextFrame].len
    BY <2>0, <2>1 DEF FramesOnStream
  <2> QED
    BY <2>0, <2>2, <2>5, <2>6 DEF Incomplete, Avail
<1> QED
  BY <1>1, StreamInvAlways, PTL
=============================================================================
