----------------------------- MODULE ByteStream -----------------------------
(***************************************************************************)
(* What the sending half of a transport promises to its peer, without any  *)
(* buffer, list or pool: messages are accepted one after the other, and    *)
(* the socket sees their bytes in that order, each byte once, cut up into  *)
(* chunks wherever the socket chose to cut.  After the stream is closed    *)
(* nothing is accepted or written any more.                                *)
(***************************************************************************)
EXTENDS Naturals, Sequences

CONSTANTS Sizes,       \* the possible sizes, in bytes, of an encoded message
          MaxMsgs      \* how many messages are accepted (bound of the model)


VARIABLES accepted,    \* sizes of the accepted messages, in order
          wire,        \* the chunks written: [msg, from, len]
          open         \* FALSE once the stream is torn down

bsvars == <<accepted, wire, open>>

Chunk == [msg : Nat, from : Nat, len : Nat]

(* The byte that must be written next: message `msg', offset `off'. *)
NextByte(acc, w) ==
  IF w = <<>>
    THEN [msg |-> 1, off |-> 0]
    ELSE LET c == w[Len(w)]
         IN  IF c.from + c.len = acc[c.msg]
               THEN [msg |-> c.msg + 1, off |-> 0]
               ELSE [msg |-> c.msg, off |-> c.from + c.len]

Init ==
  /\ accepted = <<>>
  /\ wire = <<>>
  /\ open = TRUE

Accept(sz) ==
  /\ open
  /\ Len(accepted) < MaxMsgs
  /\ accepted' = Append(accepted, sz)
  /\ UNCHANGED <<wire, open>>

(* The bytes of that message that are still to be written. *)
Unwritten(acc, w) ==
  LET p == NextByte(acc, w)
  IN  IF p.msg \in 1 .. Len(acc) THEN 1 .. acc[p.msg] - p.off ELSE {}

Write(n) ==
  LET p == NextByte(accepted, wire)
  IN  /\ open
      /\ wire' = Append(wire, [msg |-> p.msg, from |-> p.off, len |-> n])
      /\ UNCHANGED <<accepted, open>>

Close ==
  /\ open
  /\ open' = FALSE
  /\ UNCHANGED <<accepted, wire>>

Next ==
  \/ \E sz \in Sizes : Accept(sz)
  \/ \E n \in Unwritten(accepted, wire) : Write(n)
  \/ Close

Spec == Init /\ [][Next]_bsvars
=============================================================================
