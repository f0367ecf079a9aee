-------------------------------- MODULE Wire --------------------------------
(***************************************************************************)
(* Messages on their way from one peer to the other, as bytes: what        *)
(* src/peer.c does to send and to deliver one, with the coders of Codec.   *)
(* TransportOut and TransportIn show that the bytes arrive, in pieces of   *)
(* any size; here they are in the receiver's buffer at once.               *)
(***************************************************************************)
EXTENDS Codec

VARIABLES
  inbuf,           \* the bytes in the receiver's buffer
  sent,            \* history: messages that were enqueued
  refused,         \* history: messages that could not be encoded
  received,        \* messages that were delivered
  undecoded        \* the decoder has returned an error

wireVars == <<inbuf, sent, refused, received, undecoded>>

WireInit ==
  inbuf = <<>> /\ sent = <<>> /\ refused = {} /\ received = <<>> /\ undecoded = FALSE

(* A message that cannot be encoded puts the peer into PEER_ERROR: nothing  *)
(* is sent after it.                                                        *)
enqueue_output_message(msg) ==
  /\ refused = {}
  /\ LET encoded == rl_encode_msg(msg)
     IN  IF encoded.ok
           THEN /\ inbuf' = inbuf \o encoded.frame
                /\ sent' = Append(sent, msg)
                /\ UNCHANGED refused
           ELSE /\ refused' = {msg}
                /\ UNCHANGED <<inbuf, sent>>
  /\ UNCHANGED <<received, undecoded>>

(* A message is complete when as many bytes are there as it says; one that  *)
(* says zero is never delivered.                                            *)
Complete == peer_peek_incoming(inbuf) \in 1 .. Len(inbuf)

peer_deliver_incoming ==
  /\ ~undecoded /\ Complete
  /\ LET size == peer_peek_incoming(inbuf)
         decoded == rl_decode_msg(inbuf, size)
     IN  IF decoded.ok
           THEN /\ received' = Append(received, decoded.msg)
                /\ inbuf' = SubSeq(inbuf, size + 1, Len(inbuf))
                /\ UNCHANGED undecoded
           ELSE /\ undecoded' = TRUE
                /\ UNCHANGED <<received, inbuf>>
  /\ UNCHANGED <<sent, refused>>

-----------------------------------------------------------------------------
(* Properties                                                               *)

(* A message with its length filled in. *)
WithLength(msg, n) == [msg EXCEPT !.hdr_length = n]

(* What is delivered is what was enqueued, in the same order and with all   *)
(* its fields, and the buffer is never out of step: it is empty when all has*)
(* been delivered, and starts with a complete message when not, which the   *)
(* decoder accepts.                                                         *)
MessagesArriveAsSent ==
  /\ ~undecoded
  /\ Len(received) <= Len(sent)
  /\ \A i \in DOMAIN received :
       received[i] = WithLength(sent[i], Len(rl_encode_msg(sent[i]).frame))
  /\ inbuf = <<>> <=> Len(received) = Len(sent)
  /\ inbuf # <<>> => Complete

(* Whether a message has an encoding: no string is longer than its length   *)
(* byte can say, and all of it fits into an output buffer.                  *)
VarSize(field, value) == Len(value) + (IF field.type = "string" THEN 2 ELSE 4)
EncodedSize(msg) ==
  fixed_size(msg.hdr_type)
    + FoldLeft(LAMBDA n, f : n + VarSize(f, msg[f.name]), 0, var_fields(msg.hdr_type))
Encodable(msg) ==
  LET fields == var_fields(msg.hdr_type)
  IN  /\ \A i \in DOMAIN fields :
           fields[i].type = "string" => Len(msg[fields[i].name]) < Base
      /\ EncodedSize(msg) <= BufferSize

(* Nothing else is refused, and what is refused costs the connection, not   *)
(* the messages before it.                                                  *)
RefusesOnlyTheUnencodable ==
  /\ \A msg \in refused : ~Encodable(msg)
  /\ \A i \in DOMAIN sent : Encodable(sent[i])
=============================================================================
