------------------------------- MODULE Codec --------------------------------
(***************************************************************************)
(* How messages are written as bytes: the schema src/rlnet.msg, the coders *)
(* that src/mkmsg.py generates from it, and src/protocol.c and protocol.h. *)
(* A message is a record of its fields.  Strings are sequences of bytes    *)
(* other than zero, arrays sequences of bytes.                             *)
(*                                                                         *)
(* A definition whose name extends that of the next one is a faulty variant*)
(* that nothing uses.                                                      *)
(***************************************************************************)
EXTENDS Integers, Sequences, SequencesExt

CONSTANTS
  Base,            \* the number of values of a byte (256)
  BufferSize       \* the size of a transport's output buffer (8192)

-----------------------------------------------------------------------------
(* The schema.                                                              *)

Field(name, type) == [name |-> name, type |-> type]

CommonFields(type) ==
  <<Field("hdr_type", "byte"), Field("hdr_flags", "byte"), Field("hdr_length", "word"),
    Field(IF type = "request" THEN "hdr_sequence_num" ELSE "hdr_in_reply_to", "longword")>>

Message(name, type, fields) ==
  [name |-> name, type |-> type, all_fields |-> CommonFields(type) \o fields]

messages == <<
  Message("error", "answer", <<Field("error_code", "longword")>>),
  Message("ping", "request", <<>>),
  Message("ping", "answer", <<>>),
  Message("handshake", "request",
    <<Field("version_major", "byte"), Field("version_minor", "byte"),
      Field("node_name", "string"), Field("platform_name", "string"),
      Field("platform_version", "string"), Field("password_hash", "string")>>),
  Message("handshake", "answer",
    <<Field("version_major", "byte"), Field("version_minor", "byte"),
      Field("host_name", "string"), Field("platform_name", "string"),
      Field("platform_version", "string")>>),
  Message("open_handle", "request", <<Field("path", "string"), Field("mode", "longword")>>),
  Message("open_handle", "answer",
    <<Field("handle", "longword"), Field("size", "longword"), Field("type", "byte")>>),
  Message("close_handle", "request", <<Field("handle", "longword")>>),
  Message("read_file", "request",
    <<Field("handle", "longword"), Field("offset_hi", "longword"),
      Field("offset_lo", "longword"), Field("length", "longword")>>),
  Message("read_file", "answer", <<Field("data", "array")>>),
  Message("write_file", "request", <<Field("handle", "longword"), Field("data", "array")>>),
  Message("write_file", "answer", <<>>),
  Message("find_next_file", "request",
    <<Field("handle", "longword"), Field("reset", "byte")>>),
  Message("find_next_file", "answer",
    <<Field("end_of_sequence", "byte"), Field("type", "byte"), Field("name", "string"),
      Field("size", "longword")>>),
  Message("launch_executable", "request",
    <<Field("path", "string"), Field("arguments", "string")>>),
  Message("launch_executable", "answer", <<>>),
  Message("executable_done", "request", <<Field("result_code", "longword")>>),
  Message("executable_done", "answer", <<>>)>>

RL_MSG_MAX == Len(messages) - 1
Kinds == 0 .. RL_MSG_MAX
KindOf(name, type) ==
  CHOOSE k \in Kinds : messages[k + 1].name = name /\ messages[k + 1].type = type

Variable(field) == field.type \in {"string", "array"}
Fixed(field) == ~Variable(field)
fixed_fields(kind) == SelectSeq(messages[kind + 1].all_fields, Fixed)
var_fields(kind) == SelectSeq(messages[kind + 1].all_fields, Variable)

SizeOf(field) ==
  CASE field.type = "byte" -> 1 [] field.type = "word" -> 2 [] field.type = "longword" -> 4
fixed_size(kind) == FoldLeft(LAMBDA n, field : n + SizeOf(field), 0, fixed_fields(kind))

ASSUME CodecAssumption ==
  /\ Base \in Nat /\ Base > RL_MSG_MAX
  /\ BufferSize \in Nat /\ BufferSize < Base * Base
  /\ \A kind \in Kinds : fixed_size(kind) <= BufferSize

-----------------------------------------------------------------------------
(* Encoding.  `out' is what has been written, `size' what is left of the    *)
(* buffer; `ok' becomes false when a function returns -1.                   *)

rl_encode_int(width, v) == [i \in 1 .. width |-> (v \div Base ^ (width - i)) % Base]

rl_encode_stringTight(st, string) ==
  IF ~st.ok \/ Len(string) + 2 >= st.size \/ Len(string) >= Base
    THEN [st EXCEPT !.ok = FALSE]
    ELSE [out |-> st.out \o <<Len(string)>> \o string \o <<0>>,
          size |-> st.size - (Len(string) + 2), ok |-> TRUE]
rl_encode_string(st, string) ==
  IF ~st.ok \/ Len(string) + 2 > st.size \/ Len(string) >= Base
    THEN [st EXCEPT !.ok = FALSE]
    ELSE [out |-> st.out \o <<Len(string)>> \o string \o <<0>>,
          size |-> st.size - (Len(string) + 2), ok |-> TRUE]

rl_encode_array(st, array) ==
  IF ~st.ok \/ st.size < 4 + Len(array)
    THEN [st EXCEPT !.ok = FALSE]
    ELSE [out |-> st.out \o rl_encode_int(4, Len(array)) \o array,
          size |-> st.size - (4 + Len(array)), ok |-> TRUE]

(* The fields of fixed length, with room for the length. *)
encode_fixed(msg) ==
  FoldLeft(LAMBDA out, field :
             out \o (IF field.name = "hdr_length" THEN <<0, 0>>
                     ELSE rl_encode_int(SizeOf(field), msg[field.name])),
           <<>>, fixed_fields(msg.hdr_type))

encode_var(msg, st) ==
  FoldLeft(LAMBDA s, field :
             IF field.type = "string" THEN rl_encode_string(s, msg[field.name])
                                      ELSE rl_encode_array(s, msg[field.name]),
           st, var_fields(msg.hdr_type))

(* The generated encoder; the length is written last, into its place. *)
rl_encode_msg(msg) ==
  LET fixed == encode_fixed(msg)
      end == encode_var(msg, [out |-> fixed, size |-> BufferSize - fixed_size(msg.hdr_type),
                              ok |-> TRUE])
      length == rl_encode_int(2, BufferSize - end.size)
  IN  [ok |-> end.ok, frame |-> [end.out EXCEPT ![3] = length[1], ![4] = length[2]]]

-----------------------------------------------------------------------------
(* Decoding.  `at' is the number of bytes before the cursor, `size' what is *)
(* left of the message; the input buffer `buf' goes on behind its end.      *)

rl_decode_int(buf, at, width) ==
  FoldLeft(LAMBDA v, b : v * Base + b, 0, SubSeq(buf, at + 1, at + width))

(* A cast of a longword to int. *)
Signed(v) == IF v >= Base ^ 4 \div 2 THEN v - Base ^ 4 ELSE v

rl_decode_stringShort(buf, st, name) ==
  LET len == buf[st.at + 1]
  IN  [at |-> st.at + len + 1, size |-> st.size - (len + 1), ok |-> st.ok,
       msg |-> (name :> SubSeq(buf, st.at + 2, st.at + 1 + len)) @@ st.msg]
rl_decode_string(buf, st, name) ==
  IF ~st.ok \/ st.size < 2 THEN [st EXCEPT !.ok = FALSE]
  ELSE LET len == buf[st.at + 1]
       IN  IF len >= st.size \/ buf[st.at + 2 + len] # 0 THEN [st EXCEPT !.ok = FALSE]
           ELSE [at |-> st.at + len + 2, size |-> st.size - (len + 2), ok |-> TRUE,
                 msg |-> (name :> SubSeq(buf, st.at + 2, st.at + 1 + len)) @@ st.msg]

rl_decode_array(buf, st, name) ==
  IF ~st.ok \/ st.size < 4 THEN [st EXCEPT !.ok = FALSE]
  ELSE LET len == rl_decode_int(buf, st.at, 4)
       IN  IF Signed(len) > st.size THEN [st EXCEPT !.ok = FALSE]
           ELSE [at |-> st.at + 4 + len, size |-> st.size - (len + 4), ok |-> TRUE,
                 msg |-> (name :> SubSeq(buf, st.at + 5, st.at + 4 + len)) @@ st.msg]

decode_fixed(buf, kind) ==
  FoldLeft(LAMBDA st, field :
             [st EXCEPT !.at = @ + SizeOf(field),
                        !.msg = (field.name :> rl_decode_int(buf, st.at, SizeOf(field))) @@ @],
           [at |-> 0, size |-> 0, ok |-> TRUE, msg |-> <<>>], fixed_fields(kind))

decode_var(buf, st, kind) ==
  FoldLeft(LAMBDA s, field :
             IF field.type = "string" THEN rl_decode_string(buf, s, field.name)
                                      ELSE rl_decode_array(buf, s, field.name),
           st, var_fields(kind))

(* peek_msg_kind, and the decoder generated for the kind. *)
rl_decode_msg(buf, size) ==
  IF size < 4 \/ buf[1] > RL_MSG_MAX \/ size < fixed_size(buf[1])
    THEN [ok |-> FALSE, msg |-> <<>>]
    ELSE LET kind == buf[1]
             fixed == [decode_fixed(buf, kind) EXCEPT !.size = size - fixed_size(kind)]
             end == decode_var(buf, fixed, kind)
         IN  [ok |-> end.ok, msg |-> end.msg]

(* The length of the message that the buffer starts with. *)
peer_peek_incoming(buf) == IF Len(buf) < 4 THEN 4 ELSE rl_decode_int(buf, 2, 2)
=============================================================================
