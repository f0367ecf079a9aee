----------------------------- MODULE MCStartup ------------------------------
(***************************************************************************)
(* Model checking Startup with bytes of 32 values, the buffers for texts   *)
(* an eighth of their sizes, and output buffers of 100 bytes, which hold   *)
(* three strings of the greatest length.  Words are empty, short, with a   *)
(* colon, options, and too long for command_path, for the argument string  *)
(* together with another one, or for a message.                            *)
(***************************************************************************)
EXTENDS Startup

Repeat(n, ch) == [i \in 1 .. n |-> ch]
Option == <<20>>
ShortWord == <<16, 17>>
ColonWord == <<16, Colon>> \o Repeat(15, 17)
PathWord == Repeat(12, 18)
ArgWord == Repeat(19, 19)
HugeWord == Repeat(32, 18)

OptionWords == {Option}
AllWords == {<<>>, Option, ShortWord, ColonWord, PathWord, ArgWord, HugeWord}

(* Values at the ends of the range of each type. *)
Values(field) ==
  CASE field.type = "byte" -> {0, Base - 1}
    [] field.type = "word" -> {0}
    [] field.type = "longword" -> {1, Base ^ 4 - 1}
    [] field.type = "string" -> {<<>>, Repeat(Base - 1, 5), Repeat(Base, 5)}
    [] field.type = "array" -> {<<>>, Repeat(Base + 1, 0), Repeat(BufferSize, 7)}

(* The messages of a kind; flags are never set. *)
ValuesIn(kind, field) ==
  CASE field.name = "hdr_type" -> {kind} [] field.name = "hdr_flags" -> {0}
    [] OTHER -> Values(field)
MessagesOf(kind) ==
  FoldLeft(LAMBDA S, field : {m @@ (field.name :> v) : m \in S, v \in ValuesIn(kind, field)},
           {<<>>}, messages[kind + 1].all_fields)

(* A message with its last field of variable length as long as fills the    *)
(* output buffer, and one byte longer.                                      *)
Filling(m) ==
  LET last == Last(var_fields(m.hdr_type)).name
      room == BufferSize - EncodedSize([m EXCEPT ![last] = <<>>])
  IN  {[m EXCEPT ![last] = Repeat(n, 9)] : n \in {room, room + 1} \cap Nat}
FillingMessages ==
  UNION {Filling(m) : m \in UNION {MessagesOf(kind) : kind \in {k \in Kinds : var_fields(k) # <<>>}}}

AllMessages == UNION {MessagesOf(kind) : kind \in Kinds} \cup FillingMessages
FewMessages ==
  {m \in MessagesOf(KindOf("ping", "request")) \cup MessagesOf(KindOf("launch_executable", "request")) :
     m.hdr_sequence_num = 1}
=============================================================================
