-------------------------------- MODULE Text --------------------------------
(***************************************************************************)
(* Text as src/util.c handles it.  A text is the sequence of its characters*)
(* without the final NUL; characters are numbers from 1, those that the    *)
(* program gives a meaning to have names.  A buffer is known by its size.  *)
(*                                                                         *)
(* A definition whose name extends that of the next one is a faulty variant*)
(* that nothing uses.                                                      *)
(***************************************************************************)
EXTENDS Integers, Sequences, SequencesExt

NUL == 0
Digit(d) == d + 1
Colon == 11
Space == 12
BaseDeviceName == <<13, 14, 15>>      \* "TBL" of version.h
FirstLetter == 16

(* The first n characters, or fewer. *)
Cut(text, n) == SubSeq(text, 1, Min({Len(text), n}))

(* The digits of a number that is not negative, as %d writes them. *)
format_integer_signed(value) ==
  LET len == CHOOSE k \in 1 .. value + 1 :
               10 ^ k > value /\ \A j \in 1 .. k - 1 : 10 ^ j <= value
  IN  [i \in 1 .. len |-> Digit((value \div 10 ^ (len - i)) % 10)]

(* One call of the writer: what does not fit into the space left is dropped.*)
safe_format_writer(st, input) ==
  LET amount == Min({Len(input), st.space_left})
  IN  [text |-> st.text \o Cut(input, amount), space_left |-> st.space_left - amount]

(* The writer is called for each part of the format and for each argument in*)
(* turn; `parts' are these, without field widths.                           *)
format_message(st, parts) == FoldLeft(safe_format_writer, st, parts)

rl_format_msg(size, parts) ==
  format_message([text |-> <<>>, space_left |-> size - 1], parts).text

(* Copies until the NUL or until one place is left. *)
rl_string_copyWhole(size, source) == source
rl_string_copy(size, source) == Cut(source, size - 1)
=============================================================================
