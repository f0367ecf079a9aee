----------------------------- MODULE PeerProofs -----------------------------
(***************************************************************************)
(* Proofs about Peer, for every ping timeout, every pair of versions, every*)
(* set of ends that have a clock or may vanish, and any number of requests.*)
(*                                                                         *)
(* The messages from one end to the other are three queues in the model    *)
(* (output queue, socket, input buffer).  The proofs see one, Stream(p):   *)
(* reads and writes do not change it, handlers append to it and a delivery *)
(* takes its head.  StepCases reduces every step of the specification to   *)
(* one of three abstract steps on the streams, and the invariants are      *)
(* shown to survive those.                                                 *)
(***************************************************************************)
EXTENDS Peer, TLAPS, SequenceTheorems, FiniteSetTheorems

(* Every peer record carries the name of its own end. *)
TypeInv ==
  /\ TypeOK
  /\ \A p \in Ends : peer[p].end = p

-----------------------------------------------------------------------------
(* The queues                                                               *)

(* A write loop or recv() that moves the first n messages loses none. *)
LEMMA TakeDrop ==
  \A s \in Seq(Kinds) : \A n \in 0 .. Len(s) :
    /\ Take(s, n) \in Seq(Kinds) /\ Drop(s, n) \in Seq(Kinds)
    /\ Take(s, n) \o Drop(s, n) = s
<1> SUFFICES ASSUME NEW s \in Seq(Kinds), NEW n \in 0 .. Len(s)
             PROVE  /\ Take(s, n) \in Seq(Kinds) /\ Drop(s, n) \in Seq(Kinds)
                    /\ Take(s, n) \o Drop(s, n) = s
  OBVIOUS
<1>1. Len(s) \in Nat /\ n \in Nat /\ n <= Len(s)
  BY LenProperties
<1>2. /\ \A i \in 1 .. n : i \in 1 .. Len(s)
      /\ \A i \in n + 1 .. Len(s) : i \in 1 .. Len(s)
  BY <1>1
<1>3. \A i \in 1 .. Len(s) : s[i] \in Kinds
  BY ElementOfSeq
<1>4. Take(s, n) \in Seq(Kinds)
  BY <1>1, <1>2, <1>3, SubSeqProperties DEF Take
<1>5. Drop(s, n) \in Seq(Kinds)
  BY <1>1, <1>2, <1>3, SubSeqProperties DEF Drop
<1>6. SubSeq(s, 1, n) \o SubSeq(s, n + 1, Len(s)) = SubSeq(s, 1, Len(s))
  <2>1. 1 \in 1 .. Len(s) + 1 /\ n \in 1 - 1 .. Len(s) /\ Len(s) \in n .. Len(s)
    BY <1>1
  <2> QED BY <2>1, ConcatAdjacentSubSeq
<1> QED
  BY <1>4, <1>5, <1>6, SubSeqFull DEF Take, Drop

(* Whatever portion is moved, it is a number of messages of the queue. *)
LEMMA PortionType ==
  \A s \in Seq(Kinds) : Portion(s) \subseteq 0 .. Len(s)
BY LenProperties DEF Portion

LEMMA AppendType ==
  \A s \in Seq(Kinds) : \A m \in Kinds : Append(s, m) \in Seq(Kinds)
BY AppendProperties

-----------------------------------------------------------------------------
(* The handlers: what each makes of a peer record.                          *)

(* e becomes f having appended `sent' (nothing or one message) to its       *)
(* output queue; end and type are kept.                                     *)
Makes(e, f, sent) ==
  /\ f \in PeerType /\ f.end = e.end
  /\ \/ sent = <<>> /\ f.outq = e.outq
     \/ \E m \in Kinds : sent = <<m>> /\ f.outq = Append(e.outq, m)

(* The messages that neither the handshake nor the pings are made of. *)
Plain == Kinds \ {"HANDSHAKE", "PING_REQUEST", "PING_ANSWER"}

SameHistory(e, f) ==
  f.was_connected = e.was_connected /\ f.stray = e.stray

(* on_transmit_message sends in state CONNECTED or fails. *)
LEMMA TransmitMessage ==
  ASSUME NEW e \in PeerType, NEW m \in Kinds, NEW ok \in BOOLEAN
  PROVE  LET f == on_transmit_message(e, m, ok)
         IN  /\ f \in PeerType /\ f.end = e.end /\ SameHistory(e, f)
             /\ f.ping_on_wire = e.ping_on_wire
             /\ f.ctl = e.ctl
             /\ \/ e.state = "CONNECTED" /\ f.state = "CONNECTED"
                   /\ ok = TRUE /\ f.outq = Append(e.outq, m)
                \/ f.state = "ERROR" /\ f.outq = e.outq
                   /\ ~(e.state = "CONNECTED" /\ ok = TRUE)
<1> DEFINE f == on_transmit_message(e, m, ok)
<1>1. Append(e.outq, m) \in Seq(Kinds)
  BY AppendType DEF PeerType
<1>2. CASE e.state = "CONNECTED" /\ ok
  <2>1. f = [e EXCEPT !.outq = Append(@, m)]
    BY <1>2 DEF on_transmit_message, enqueue_output_message
  <2> HIDE DEF f
  <2>2. f \in PeerType /\ f.end = e.end /\ SameHistory(e, f)
        /\ f.ping_on_wire = e.ping_on_wire /\ f.ctl = e.ctl
        /\ f.state = e.state /\ f.outq = Append(e.outq, m)
    BY <1>1, <2>1 DEF PeerType, SameHistory
  <2> QED BY <1>2, <2>2 DEF f
<1>3. CASE ~(e.state = "CONNECTED" /\ ok)
  <2>1. f = [e EXCEPT !.state = "ERROR"]
    BY <1>3 DEF on_transmit_message, Failed
  <2> HIDE DEF f
  <2>2. f \in PeerType /\ f.end = e.end /\ SameHistory(e, f)
        /\ f.ping_on_wire = e.ping_on_wire /\ f.ctl = e.ctl
        /\ f.state = "ERROR" /\ f.outq = e.outq
    BY <2>1 DEF PeerType, SameHistory, States
  <2> QED BY <1>3, <2>2 DEF f
<1> QED BY <1>2, <1>3


(* The outcome of delivering message h to an end whose record is e.  It     *)
(* accepts the handshake; or fails; or handles a message in CONNECTED.      *)
Shaken(e, f, h, sent) ==
  /\ h = "HANDSHAKE" /\ e.state = "WAIT_HANDSHAKE"
  /\ f.was_connected = TRUE /\ f.stray = e.stray
  /\ f.ping_on_wire = e.ping_on_wire
  /\ IF e.end = "target"
       THEN f.state = "CONNECTED"
            /\ (sent = <<"HANDSHAKE">> \/ (AllocMayFail /\ sent = <<>>))
       ELSE \/ f.state = "CONNECTED" /\ sent = <<"LAUNCH_REQUEST">>
            \/ f.state = "ERROR" /\ sent = <<>>

Expected(e, h) ==
  \/ h = "HANDSHAKE" /\ e.state = "WAIT_HANDSHAKE"
  \/ h # "HANDSHAKE" /\ e.state = "CONNECTED"

Broken(e, f, h, sent) ==
  /\ f.state = "ERROR" /\ f.was_connected = e.was_connected /\ sent = <<>>
  /\ \/ f.stray = e.stray
     \/ /\ ~Expected(e, h)
        /\ f.stray = e.stray \cup
             {<<e.state, IF h = "HANDSHAKE" THEN h ELSE "MESSAGE">>}

Handled(e, f, h, sent) ==
  /\ h # "HANDSHAKE" /\ e.state = "CONNECTED" /\ f.state = "CONNECTED"
  /\ SameHistory(e, f)
  /\ CASE h = "PING_REQUEST" -> sent = <<"PING_ANSWER">> /\ f.ping_on_wire = e.ping_on_wire
       [] h = "PING_ANSWER"  -> sent = <<>> /\ f.ping_on_wire = FALSE
       [] OTHER -> /\ f.ping_on_wire = e.ping_on_wire
                   /\ \/ sent = <<>>
                      \/ \E m \in Plain : sent = <<m>>

Delivers(e, f, h) ==
  \E sent \in Seq(Kinds) :
    /\ Makes(e, f, sent)
    /\ Shaken(e, f, h, sent) \/ Broken(e, f, h, sent) \/ Handled(e, f, h, sent)

(* A handshake in WAIT_HANDSHAKE: on_receive_handshake. *)
LEMMA DeliverHandshake ==
  ASSUME NEW e \in PeerType, NEW ok \in EnqueueResults, NEW good \in BOOLEAN,
         e.state = "WAIT_HANDSHAKE"
  PROVE  Delivers(e, peer_deliver_incoming(e, "HANDSHAKE", ok, good), "HANDSHAKE")
<1> DEFINE f == peer_deliver_incoming(e, "HANDSHAKE", ok, good)
<1>1. f = on_receive_handshake(e, ok)
  BY DEF peer_deliver_incoming
<1>0. ok \in BOOLEAN /\ (AllocMayFail \/ ok = TRUE)
  BY DEF EnqueueResults
<1>a. <<>> \in Seq(Kinds) /\ \A m \in Kinds : <<m>> \in Seq(Kinds)
  BY EmptySeq
<1>b. "HANDSHAKE" \in Kinds /\ "LAUNCH_REQUEST" \in Kinds
  BY DEF Kinds
<1>2. CASE ~SameVersion(e)
  <2>1. f = [e EXCEPT !.state = "ERROR"]
    BY <1>1, <1>2 DEF on_receive_handshake, Failed
  <2> HIDE DEF f
  <2>2. Makes(e, f, <<>>) /\ Broken(e, f, "HANDSHAKE", <<>>)
    BY <2>1 DEF Makes, Broken, PeerType, States
  <2> QED BY <2>2, <1>a DEF Delivers, f
<1>3. CASE SameVersion(e) /\ e.end = "target"
  <2>1. f = on_connected([on_transmit_handshake(e, ok) EXCEPT
                            !.state = "CONNECTED", !.was_connected = TRUE], ok)
    BY <1>1, <1>3 DEF on_receive_handshake, enter_connected
  <2>2. Append(e.outq, "HANDSHAKE") \in Seq(Kinds)
    BY AppendType, <1>b DEF PeerType
  <2>3. CASE ok
    <3> DEFINE g == [e EXCEPT !.outq = Append(@, "HANDSHAKE"), !.state = "CONNECTED",
                              !.was_connected = TRUE]
    <3>1. [on_transmit_handshake(e, ok) EXCEPT
                            !.state = "CONNECTED", !.was_connected = TRUE] = g
      BY <2>3 DEF on_transmit_handshake, enqueue_output_message, PeerType
    <3>2. f = g
      <4>1. g.end = "target"
        BY <1>3 DEF PeerType
      <4> HIDE DEF g, f
      <4> QED BY <2>1, <3>1, <4>1 DEF on_connected
    <3> HIDE DEF f
    <3>3. Makes(e, f, <<"HANDSHAKE">>)
      BY <3>2, <2>2, <1>b DEF Makes, PeerType, States
    <3>4. Shaken(e, f, "HANDSHAKE", <<"HANDSHAKE">>)
      BY <3>2, <1>3 DEF Shaken, PeerType
    <3> QED BY <3>3, <3>4, <1>a, <1>b DEF Delivers, f
  <2>4. CASE ~ok
    <3> DEFINE g == [e EXCEPT !.state = "CONNECTED", !.was_connected = TRUE]
    <3>1. [on_transmit_handshake(e, ok) EXCEPT
                            !.state = "CONNECTED", !.was_connected = TRUE] = g
      BY <2>4 DEF on_transmit_handshake, Failed, PeerType
    <3>2. f = g
      <4>1. g.end = "target"
        BY <1>3 DEF PeerType
      <4> HIDE DEF g, f
      <4> QED BY <2>1, <3>1, <4>1 DEF on_connected
    <3> HIDE DEF f
    <3>3. Makes(e, f, <<>>)
      BY <3>2 DEF Makes, PeerType, States
    <3>5. AllocMayFail
      BY <2>4, <1>0
    <3>4. Shaken(e, f, "HANDSHAKE", <<>>)
      BY <3>2, <3>5, <1>3 DEF Shaken, PeerType
    <3> QED BY <3>3, <3>4, <1>a, <1>b DEF Delivers, f
  <2> QED BY <2>3, <2>4
<1>4. CASE SameVersion(e) /\ e.end # "target"
  <2> DEFINE g == [e EXCEPT !.state = "CONNECTED", !.was_connected = TRUE]
             t == on_transmit_message(g, "LAUNCH_REQUEST", ok)
  <2>1. e.end = "controller"
    BY <1>4 DEF PeerType, Ends
  <2>2. g \in PeerType /\ g.end = "controller" /\ g.state = "CONNECTED"
        /\ g.was_connected = TRUE /\ g.outq = e.outq /\ g.stray = e.stray
        /\ g.ping_on_wire = e.ping_on_wire
    BY <2>1 DEF PeerType, States
  <2>3. f = on_connected(g, ok)
    BY <1>1, <1>4 DEF on_receive_handshake, enter_connected
  <2> HIDE DEF f, g
  <2>4. f = [t EXCEPT !.ctl = "WAIT_EXECUTABLE_LAUNCHED"]
    BY <2>2, <2>3 DEF on_connected
  <2>5. /\ t \in PeerType /\ t.end = g.end /\ SameHistory(g, t)
        /\ t.ping_on_wire = g.ping_on_wire
        /\ \/ t.state = "CONNECTED" /\ t.outq = Append(g.outq, "LAUNCH_REQUEST")
           \/ t.state = "ERROR" /\ t.outq = g.outq
    BY <2>2, <1>0, <1>b, TransmitMessage, ZenonT(60)
  <2> HIDE DEF t
  <2>6. /\ f \in PeerType /\ f.end = e.end /\ f.was_connected = TRUE
        /\ f.stray = e.stray /\ f.ping_on_wire = e.ping_on_wire
        /\ f.state = t.state /\ f.outq = t.outq
    BY <2>1, <2>2, <2>4, <2>5 DEF PeerType, SameHistory
  <2>7. CASE t.state = "CONNECTED" /\ t.outq = Append(g.outq, "LAUNCH_REQUEST")
    <3>1. Makes(e, f, <<"LAUNCH_REQUEST">>)
      BY <2>2, <2>6, <2>7, <1>b DEF Makes
    <3>2. Shaken(e, f, "HANDSHAKE", <<"LAUNCH_REQUEST">>)
      BY <2>6, <2>7, <2>1 DEF Shaken
    <3> QED BY <3>1, <3>2, <1>a, <1>b DEF Delivers, f
  <2>8. CASE t.state = "ERROR" /\ t.outq = g.outq
    <3>1. Makes(e, f, <<>>)
      BY <2>2, <2>6, <2>8 DEF Makes
    <3>2. Shaken(e, f, "HANDSHAKE", <<>>)
      BY <2>6, <2>8, <2>1 DEF Shaken
    <3> QED BY <3>1, <3>2, <1>a DEF Delivers, f
  <2> QED BY <2>5, <2>7, <2>8
<1> QED BY <1>2, <1>3, <1>4


(* What a callback that is given a plain message h makes of record e. *)
Reacts(e, f) ==
  /\ f \in PeerType /\ f.end = e.end /\ SameHistory(e, f)
  /\ f.ping_on_wire = e.ping_on_wire
  /\ \/ f.state = "ERROR" /\ f.outq = e.outq
     \/ /\ f.state = e.state
        /\ \/ f.outq = e.outq
           \/ \E m \in Plain : f.outq = Append(e.outq, m)

LEMMA TransmitReacts ==
  ASSUME NEW e \in PeerType, NEW m \in Plain, NEW ok \in BOOLEAN
  PROVE  Reacts(e, on_transmit_message(e, m, ok))
<1>1. m \in Kinds
  BY DEF Plain
<1> DEFINE f == on_transmit_message(e, m, ok)
<1>2. /\ f \in PeerType /\ f.end = e.end /\ SameHistory(e, f)
      /\ f.ping_on_wire = e.ping_on_wire
      /\ \/ e.state = "CONNECTED" /\ f.state = "CONNECTED" /\ f.outq = Append(e.outq, m)
         \/ f.state = "ERROR" /\ f.outq = e.outq
  BY <1>1, TransmitMessage
<1> HIDE DEF f
<1> QED BY <1>2 DEF Reacts, f

(* The callback's verdict turns into the state ERROR. *)
LEMMA FailedReacts ==
  ASSUME NEW e \in PeerType
  PROVE  /\ Reacts(e, e) /\ Reacts(e, Failed(e))
         /\ \A c \in {"INITIAL", "WAIT_EXECUTABLE_LAUNCHED", "FILE_SERVING", "ERROR"} :
              Reacts(e, [e EXCEPT !.ctl = c])
<1>1. Reacts(e, e)
  BY DEF Reacts, SameHistory
<1>2. Reacts(e, Failed(e))
  BY DEF Reacts, SameHistory, Failed, PeerType, States
<1>3. ASSUME NEW c \in {"INITIAL", "WAIT_EXECUTABLE_LAUNCHED", "FILE_SERVING", "ERROR"}
      PROVE  Reacts(e, [e EXCEPT !.ctl = c])
  BY DEF Reacts, SameHistory, PeerType
<1> QED BY <1>1, <1>2, <1>3

LEMMA ControllerReacts ==
  ASSUME NEW e \in PeerType, NEW kind \in Kinds, NEW ok \in BOOLEAN
  PROVE  LET r == controller_on_message(e, kind, ok)
         IN  Reacts(e, IF r[2] = 0 THEN r[1] ELSE Failed(r[1]))
<1>1. CASE e.ctl \notin {"WAIT_EXECUTABLE_LAUNCHED", "FILE_SERVING"}
  <2>1. controller_on_message(e, kind, ok) = <<[e EXCEPT !.ctl = "ERROR"], 0>>
    BY <1>1 DEF controller_on_message
  <2>2. Reacts(e, [e EXCEPT !.ctl = "ERROR"])
    BY FailedReacts
  <2> QED BY <2>1, <2>2
<1>2. CASE e.ctl \in {"WAIT_EXECUTABLE_LAUNCHED", "FILE_SERVING"} /\ kind = "LAUNCH_ANSWER"
  <2>1. controller_on_message(e, kind, ok) = <<[e EXCEPT !.ctl = "FILE_SERVING"], 0>>
    BY <1>2 DEF controller_on_message
  <2>2. Reacts(e, [e EXCEPT !.ctl = "FILE_SERVING"])
    BY FailedReacts
  <2> QED BY <2>1, <2>2
<1>3. CASE e.ctl \in {"WAIT_EXECUTABLE_LAUNCHED", "FILE_SERVING"} /\ kind = "DONE_REQUEST"
  <2>1. controller_on_message(e, kind, ok) = <<e, 1>>
    BY <1>3 DEF controller_on_message
  <2>2. Reacts(e, Failed(e))
    BY FailedReacts
  <2> QED BY <2>1, <2>2
<1>4. CASE e.ctl \in {"WAIT_EXECUTABLE_LAUNCHED", "FILE_SERVING"}
           /\ kind # "DONE_REQUEST" /\ kind # "LAUNCH_ANSWER"
  <2> DEFINE m == IF kind = "FILE_REQUEST" THEN "FILE_ANSWER" ELSE "ERROR_ANSWER"
  <2>1. controller_on_message(e, kind, ok) = <<on_transmit_message(e, m, ok), 0>>
    BY <1>4 DEF controller_on_message
  <2>2. m \in Plain
    BY DEF Plain, Kinds
  <2> HIDE DEF m
  <2>3. Reacts(e, on_transmit_message(e, m, ok))
    BY <2>2, TransmitReacts
  <2> QED BY <2>1, <2>3
<1> QED BY <1>1, <1>2, <1>3, <1>4

LEMMA TargetReacts ==
  ASSUME NEW e \in PeerType, NEW kind \in Kinds, NEW ok \in BOOLEAN, NEW good \in BOOLEAN
  PROVE  LET r == target_on_message(e, kind, ok, good)
         IN  Reacts(e, IF r[2] = 0 THEN r[1] ELSE Failed(r[1]))
<1>1. CASE kind = "LAUNCH_REQUEST"
  <2> DEFINE m == IF good THEN "LAUNCH_ANSWER" ELSE "ERROR_ANSWER"
  <2>1. target_on_message(e, kind, ok, good) = <<on_transmit_message(e, m, ok), 0>>
    BY <1>1 DEF target_on_message
  <2>2. m \in Plain
    BY DEF Plain, Kinds
  <2> HIDE DEF m
  <2>3. Reacts(e, on_transmit_message(e, m, ok))
    BY <2>2, TransmitReacts
  <2> QED BY <2>1, <2>3
<1>2. CASE kind # "LAUNCH_REQUEST"
  <2>1. \/ target_on_message(e, kind, ok, good) = <<e, 0>>
        \/ target_on_message(e, kind, ok, good) = <<e, 1>>
    BY <1>2 DEF target_on_message
  <2>2. Reacts(e, e) /\ Reacts(e, Failed(e))
    BY FailedReacts
  <2> QED BY <2>1, <2>2
<1> QED BY <1>1, <1>2

(* A message in CONNECTED: on_receive_message. *)
LEMMA DeliverMessage ==
  ASSUME NEW e \in PeerType, NEW h \in Kinds, NEW ok \in BOOLEAN, NEW good \in BOOLEAN,
         e.state = "CONNECTED", h # "HANDSHAKE"
  PROVE  Delivers(e, peer_deliver_incoming(e, h, ok, good), h)
<1> DEFINE f == peer_deliver_incoming(e, h, ok, good)
           g == Touch(e)
<1>a. <<>> \in Seq(Kinds) /\ \A m \in Kinds : <<m>> \in Seq(Kinds)
  BY EmptySeq
<1>1. f = on_receive_message(e, h, ok, good)
  BY DEF peer_deliver_incoming
<1>2. g \in PeerType /\ g.end = e.end /\ SameHistory(e, g) /\ g.outq = e.outq
      /\ g.state = "CONNECTED" /\ g.ping_on_wire = e.ping_on_wire
  <2>1. 0 \in 0 .. MaxAge
    BY PeerAssumption DEF MaxAge
  <2> QED BY <2>1 DEF Touch, PeerType, SameHistory
<1>3. CASE h = "PING_REQUEST"
  <2>1. f = on_transmit_message(g, "PING_ANSWER", ok)
    BY <1>1, <1>3 DEF on_receive_message
  <2>2. "PING_ANSWER" \in Kinds
    BY DEF Kinds
  <2> HIDE DEF f, g
  <2> DEFINE t == on_transmit_message(g, "PING_ANSWER", ok)
  <2>6. /\ t \in PeerType /\ t.end = g.end /\ SameHistory(g, t)
        /\ t.ping_on_wire = g.ping_on_wire
        /\ \/ t.state = "CONNECTED" /\ t.outq = Append(g.outq, "PING_ANSWER")
           \/ t.state = "ERROR" /\ t.outq = g.outq
    <3>1. g \in PeerType
      BY <1>2
    <3> QED BY <2>2, <3>1, TransmitMessage, ZenonT(60)
  <2> HIDE DEF t
  <2>3. /\ f \in PeerType /\ f.end = g.end /\ SameHistory(g, f)
        /\ f.ping_on_wire = g.ping_on_wire
        /\ \/ f.state = "CONNECTED" /\ f.outq = Append(g.outq, "PING_ANSWER")
           \/ f.state = "ERROR" /\ f.outq = g.outq
    BY <2>1, <2>6 DEF t
  <2>4. CASE f.state = "CONNECTED" /\ f.outq = Append(g.outq, "PING_ANSWER")
    <3>1. Makes(e, f, <<"PING_ANSWER">>)
      BY <1>2, <2>2, <2>3, <2>4 DEF Makes
    <3>2. Handled(e, f, h, <<"PING_ANSWER">>)
      BY <1>2, <1>3, <2>3, <2>4 DEF Handled, SameHistory
    <3> QED BY <3>1, <3>2, <2>2, <1>a DEF Delivers, f
  <2>5. CASE f.state = "ERROR" /\ f.outq = g.outq
    <3>1. Makes(e, f, <<>>)
      BY <1>2, <2>3, <2>5 DEF Makes
    <3>2. Broken(e, f, h, <<>>)
      BY <1>2, <2>3, <2>5 DEF Broken, SameHistory
    <3> QED BY <3>1, <3>2, <1>a DEF Delivers, f
  <2> QED BY <2>3, <2>4, <2>5
<1>4. CASE h = "PING_ANSWER"
  <2>1. f = [g EXCEPT !.ping_on_wire = FALSE]
    BY <1>1, <1>4 DEF on_receive_message
  <2> HIDE DEF f, g
  <2>2. Makes(e, f, <<>>)
    BY <1>2, <2>1 DEF Makes, PeerType
  <2>3. f.state = "CONNECTED" /\ SameHistory(e, f) /\ f.ping_on_wire = FALSE
    BY <1>2, <2>1 DEF PeerType, SameHistory
  <2>4. Handled(e, f, h, <<>>)
    BY <2>3, <1>4 DEF Handled
  <2> QED BY <2>2, <2>4, <1>a DEF Delivers, f
<1>5. CASE h # "PING_REQUEST" /\ h # "PING_ANSWER"
  <2> DEFINE r == IF g.end = "controller" THEN controller_on_message(g, h, ok)
                                          ELSE target_on_message(g, h, ok, good)
  <2>1. f = IF r[2] = 0 THEN r[1] ELSE Failed(r[1])
    BY <1>1, <1>5 DEF on_receive_message
  <2>2. Reacts(g, f)
    <3> HIDE DEF f, g
    <3>1. CASE g.end = "controller"
      BY <3>1, <2>1, <1>2, ControllerReacts
    <3>2. CASE g.end # "controller"
      BY <3>2, <2>1, <1>2, TargetReacts
    <3> QED BY <3>1, <3>2
  <2> HIDE DEF f, g, r
  <2>3. CASE f.state = "ERROR" /\ f.outq = g.outq
    <3>1. Makes(e, f, <<>>)
      BY <1>2, <2>2, <2>3 DEF Makes, Reacts
    <3>2. Broken(e, f, h, <<>>)
      BY <1>2, <2>2, <2>3 DEF Broken, SameHistory, Reacts
    <3> QED BY <3>1, <3>2, <1>a DEF Delivers, f
  <2>4. CASE f.state = "CONNECTED" /\ f.outq = g.outq
    <3>1. Makes(e, f, <<>>)
      BY <1>2, <2>2, <2>4 DEF Makes, Reacts
    <3>2. Handled(e, f, h, <<>>)
      BY <1>2, <1>5, <2>2, <2>4 DEF Handled, SameHistory, Reacts
    <3> QED BY <3>1, <3>2, <1>a DEF Delivers, f
  <2>5. ASSUME NEW m \in Plain, f.state = "CONNECTED", f.outq = Append(g.outq, m)
        PROVE  Delivers(e, f, h)
    <3>0. m \in Kinds
      BY DEF Plain
    <3>1. Makes(e, f, <<m>>)
      BY <1>2, <2>2, <2>5, <3>0 DEF Makes, Reacts
    <3>2. Handled(e, f, h, <<m>>)
      BY <1>2, <1>5, <2>2, <2>5 DEF Handled, SameHistory, Reacts
    <3> QED BY <3>0, <3>1, <3>2, <1>a DEF Delivers
  <2> QED BY <1>2, <2>2, <2>3, <2>4, <2>5 DEF Reacts, f
<1> QED BY <1>3, <1>4, <1>5

(* A message that state_actions has no entry for. *)
LEMMA DeliverStray ==
  ASSUME NEW e \in PeerType, NEW h \in Kinds, NEW ok \in BOOLEAN, NEW good \in BOOLEAN,
         ~Expected(e, h)
  PROVE  Delivers(e, peer_deliver_incoming(e, h, ok, good), h)
<1> DEFINE f == peer_deliver_incoming(e, h, ok, good)
           k == IF h = "HANDSHAKE" THEN h ELSE "MESSAGE"
           y == e.stray \cup {<<e.state, k>>}
<1>1. f = [Failed(e) EXCEPT !.stray = @ \cup {<<e.state, k>>}]
  BY DEF peer_deliver_incoming, Expected
<1>2. y \in SUBSET (States \X {"HANDSHAKE", "MESSAGE"})
  BY DEF PeerType
<1>3. f = [e EXCEPT !.state = "ERROR", !.stray = y]
  BY <1>1 DEF Failed, PeerType
<1>4. y = e.stray \cup {<<e.state, IF h = "HANDSHAKE" THEN h ELSE "MESSAGE">>}
  OBVIOUS
<1> HIDE DEF f, k, y
<1>5. Makes(e, f, <<>>)
  BY <1>2, <1>3 DEF Makes, PeerType, States
<1>6. Broken(e, f, h, <<>>)
  BY <1>3, <1>4 DEF Broken, PeerType
<1> QED BY <1>5, <1>6, EmptySeq DEF Delivers, f

(* peer_deliver_incoming as a whole. *)
LEMMA DeliverEffect ==
  ASSUME NEW e \in PeerType, NEW h \in Kinds, NEW ok \in EnqueueResults, NEW good \in BOOLEAN
  PROVE  Delivers(e, peer_deliver_incoming(e, h, ok, good), h)
<1>1. ok \in BOOLEAN
  BY DEF EnqueueResults
<1> QED BY <1>1, DeliverHandshake, DeliverMessage, DeliverStray DEF Expected


(* The timer: on_update_connected does nothing, fails, or sends a ping.     *)
Updates(e, f) ==
  /\ f \in PeerType /\ f.end = e.end /\ SameHistory(e, f)
  /\ \/ f.outq = e.outq /\ f.state = "ERROR"
     \/ f.outq = e.outq /\ f.state = e.state /\ f.ping_on_wire = e.ping_on_wire
     \/ /\ e.state = "CONNECTED" /\ f.state = "CONNECTED"
        /\ e.ping_on_wire = FALSE /\ f.ping_on_wire = TRUE
        /\ f.outq = Append(e.outq, "PING_REQUEST")

LEMMA UpdateEffect ==
  ASSUME NEW e \in PeerType, NEW ok \in BOOLEAN
  PROVE  Updates(e, on_update_connected(e, ok))
<1> DEFINE f == on_update_connected(e, ok)
           t == on_transmit_message(e, "PING_REQUEST", ok)
           Sends == e.state = "CONNECTED" /\ e.age > threshold(e) /\ ~e.ping_on_wire
           Dies == e.state = "CONNECTED" /\ e.ping_on_wire /\ e.age > 2 * threshold(e)
<1>1. CASE Sends
  <2>1. f = [t EXCEPT !.ping_on_wire = TRUE]
    BY <1>1 DEF on_update_connected
  <2>2. "PING_REQUEST" \in Kinds
    BY DEF Kinds
  <2>3. /\ t \in PeerType /\ t.end = e.end /\ SameHistory(e, t)
        /\ \/ e.state = "CONNECTED" /\ t.state = "CONNECTED"
              /\ t.outq = Append(e.outq, "PING_REQUEST")
           \/ t.state = "ERROR" /\ t.outq = e.outq
    BY <2>2, TransmitMessage
  <2>4. e.ping_on_wire = FALSE
    BY <1>1 DEF PeerType
  <2> HIDE DEF f, t
  <2>5. /\ f \in PeerType /\ f.end = e.end /\ SameHistory(e, f)
        /\ f.state = t.state /\ f.outq = t.outq /\ f.ping_on_wire = TRUE
    BY <2>1, <2>3 DEF PeerType, SameHistory
  <2> QED BY <2>3, <2>4, <2>5 DEF f, Updates
<1>2. CASE ~Sends /\ Dies
  <2>1. f = [e EXCEPT !.state = "ERROR", !.timed_out = TRUE]
    BY <1>2 DEF on_update_connected, Failed, PeerType
  <2> HIDE DEF f
  <2>2. /\ f \in PeerType /\ f.end = e.end /\ SameHistory(e, f)
        /\ f.outq = e.outq /\ f.state = "ERROR"
    BY <2>1 DEF PeerType, SameHistory, States
  <2> QED BY <2>2 DEF f, Updates
<1>3. CASE ~Sends /\ ~Dies
  <2>1. f = e
    BY <1>3 DEF on_update_connected
  <2> HIDE DEF f
  <2> QED BY <2>1 DEF SameHistory, f, Updates
<1> QED BY <1>1, <1>2, <1>3

LEMMA DisconnectEffect ==
  ASSUME NEW e \in PeerType
  PROVE  LET f == on_disconnect(e)
         IN  /\ f \in PeerType /\ f.end = e.end /\ SameHistory(e, f)
             /\ f.outq = e.outq /\ f.state \in {"ERROR", "DISCONNECTED"}
BY DEF on_disconnect, Failed, PeerType, SameHistory, States

-----------------------------------------------------------------------------
(* The steps, seen as steps of the two streams                              *)

(* Everything on its way from end p to the other, first sent first. *)
Stream(p) == (inbuf[Other(p)] \o net[p]) \o peer[p].outq

(* An end keeps its state and history, or gives up. *)
Holds(e, f) ==
  /\ SameHistory(e, f)
  /\ \/ f.state \in {"ERROR", "DISCONNECTED"}
     \/ f.state = e.state /\ f.ping_on_wire = e.ping_on_wire

QuietStep ==
  \A p \in Ends : Stream(p)' = Stream(p) /\ Holds(peer[p], peer'[p])

(* End p, connected, sends m of its own accord. *)
SendStep(p, m) ==
  /\ Stream(p)' = Append(Stream(p), m)
  /\ Stream(Other(p))' = Stream(Other(p))
  /\ peer'[Other(p)] = peer[Other(p)]
  /\ peer[p].state = "CONNECTED" /\ peer'[p].state = "CONNECTED"
  /\ SameHistory(peer[p], peer'[p])
  /\ \/ m \in Plain /\ peer'[p].ping_on_wire = peer[p].ping_on_wire
     \/ m = "PING_REQUEST"
        /\ peer[p].ping_on_wire = FALSE /\ peer'[p].ping_on_wire = TRUE

(* End p takes the first message of the other's stream. *)
DeliverStep(p, sent) ==
  /\ Stream(Other(p)) # <<>>
  /\ Stream(Other(p))' = Tail(Stream(Other(p)))
  /\ Stream(p)' = Stream(p) \o sent
  /\ sent = <<>> \/ \E m \in Kinds : sent = <<m>>
  /\ peer'[Other(p)] = peer[Other(p)]
  /\ LET h == Head(Stream(Other(p)))
     IN  \/ Shaken(peer[p], peer'[p], h, sent)
         \/ Broken(peer[p], peer'[p], h, sent)
         \/ Handled(peer[p], peer'[p], h, sent)

StreamStep ==
  \/ QuietStep
  \/ \E p \in Ends, m \in Kinds : SendStep(p, m)
  \/ \E p \in Ends, sent \in Seq(Kinds) : DeliverStep(p, sent)

LEMMA OtherEnd ==
  \A p \in Ends :
    /\ Other(p) \in Ends /\ Other(p) # p /\ Other(Other(p)) = p
    /\ \A q \in Ends : q = p \/ q = Other(p)
BY DEF Ends, Other

LEMMA Associative ==
  \A a, b, c \in Seq(Kinds) :
    a \o b \in Seq(Kinds) /\ (a \o b) \o c = a \o (b \o c)
BY ConcatAssociative, ConcatProperties

(* Moving messages from one queue to the next leaves the stream as it is. *)
LEMMA MoveFirst ==
  \A a, b, c \in Seq(Kinds) : \A n \in 0 .. Len(b) :
    ((a \o Take(b, n)) \o Drop(b, n)) \o c = (a \o b) \o c
<1> SUFFICES ASSUME NEW a \in Seq(Kinds), NEW b \in Seq(Kinds), NEW n \in 0 .. Len(b)
             PROVE  (a \o Take(b, n)) \o Drop(b, n) = a \o b
  OBVIOUS
<1>1. /\ Take(b, n) \in Seq(Kinds) /\ Drop(b, n) \in Seq(Kinds)
      /\ Take(b, n) \o Drop(b, n) = b
  BY TakeDrop
<1>2. (a \o Take(b, n)) \o Drop(b, n) = a \o (Take(b, n) \o Drop(b, n))
  <2>1. Take(b, n) \in Seq(Kinds) /\ Drop(b, n) \in Seq(Kinds)
    BY <1>1
  <2> QED BY <2>1, Associative, Zenon
<1> QED BY <1>1, <1>2

LEMMA MoveSecond ==
  \A a, b, c \in Seq(Kinds) : \A n \in 0 .. Len(c) :
    (a \o (b \o Take(c, n))) \o Drop(c, n) = (a \o b) \o c
<1> SUFFICES ASSUME NEW a \in Seq(Kinds), NEW b \in Seq(Kinds), NEW c \in Seq(Kinds),
                    NEW n \in 0 .. Len(c)
             PROVE  (a \o (b \o Take(c, n))) \o Drop(c, n) = (a \o b) \o c
  OBVIOUS
<1> DEFINE s == Take(c, n)
           t == Drop(c, n)
<1>1. s \in Seq(Kinds) /\ t \in Seq(Kinds) /\ s \o t = c
  BY TakeDrop
<1> HIDE DEF s, t
<1>a. s \in Seq(Kinds) /\ t \in Seq(Kinds)
  BY <1>1
<1>2. (a \o b) \o s = a \o (b \o s)
  <2>1. \A d \in Seq(Kinds) : (a \o b) \o d = a \o (b \o d)
    BY Associative, SMTT(30)
  <2> QED BY <1>a, <2>1, Zenon
<1>3. a \o b \in Seq(Kinds)
  BY ConcatProperties
<1>4. ((a \o b) \o s) \o t = (a \o b) \o (s \o t)
  BY <1>a, <1>3, Associative, Zenon
<1> QED BY <1>1, <1>2, <1>4 DEF s, t

(* A handler's message goes to the end of the stream. *)
LEMMA SendLast ==
  \A a, b, c \in Seq(Kinds) : \A m \in Kinds :
    (a \o b) \o Append(c, m) = Append((a \o b) \o c, m)
<1> SUFFICES ASSUME NEW d \in Seq(Kinds), NEW c \in Seq(Kinds), NEW m \in Kinds
             PROVE  d \o Append(c, m) = Append(d \o c, m)
  BY ConcatProperties
<1>1. Append(c, m) = c \o <<m>> /\ <<m>> \in Seq(Kinds) /\ d \o c \in Seq(Kinds)
  BY AppendIsConcat, ConcatProperties
<1>2. Append(d \o c, m) = (d \o c) \o <<m>>
  BY <1>1, AppendIsConcat
<1>3. (d \o c) \o <<m>> = d \o (c \o <<m>>)
  BY <1>1, ConcatAssociative
<1> QED BY <1>1, <1>2, <1>3

(* The first message of the input buffer is the first of the stream. *)
LEMMA TakeHead ==
  \A a, b \in Seq(Kinds) : a # <<>> =>
    /\ a \o b # <<>> /\ Head(a \o b) = Head(a) /\ Tail(a \o b) = Tail(a) \o b
<1> SUFFICES ASSUME NEW a \in Seq(Kinds), NEW b \in Seq(Kinds), a # <<>>
             PROVE  /\ a \o b # <<>> /\ Head(a \o b) = Head(a)
                    /\ Tail(a \o b) = Tail(a) \o b
  OBVIOUS
<1>1. Len(a) \in Nat /\ Len(a) >= 1 /\ Len(b) \in Nat
  BY EmptySeq, LenProperties
<1>2. a \o b \in Seq(Kinds) /\ Len(a \o b) = Len(a) + Len(b)
      /\ \A i \in 1 .. Len(a) + Len(b) :
           (a \o b)[i] = IF i <= Len(a) THEN a[i] ELSE b[i - Len(a)]
  BY ConcatProperties
<1>3. a \o b # <<>>
  BY <1>1, <1>2, EmptySeq
<1>4. (a \o b)[1] = a[1]
  BY <1>1, <1>2
<1>5. Tail(a \o b) = Tail(a) \o b
  <2>1. Tail(a \o b) \in Seq(Kinds) /\ Len(Tail(a \o b)) = Len(a) + Len(b) - 1
        /\ \A i \in 1 .. Len(a) + Len(b) - 1 : Tail(a \o b)[i] = (a \o b)[i + 1]
    BY <1>2, <1>3, HeadTailProperties
  <2>2. Tail(a) \in Seq(Kinds) /\ Len(Tail(a)) = Len(a) - 1
        /\ \A i \in 1 .. Len(a) - 1 : Tail(a)[i] = a[i + 1]
    BY HeadTailProperties
  <2>3. Tail(a) \o b \in Seq(Kinds) /\ Len(Tail(a) \o b) = Len(a) - 1 + Len(b)
        /\ \A i \in 1 .. Len(a) - 1 + Len(b) :
             (Tail(a) \o b)[i] = IF i <= Len(a) - 1 THEN Tail(a)[i] ELSE b[i - (Len(a) - 1)]
    BY <2>2, ConcatProperties
  <2>4. ASSUME NEW i \in 1 .. Len(a) + Len(b) - 1
        PROVE  Tail(a \o b)[i] = (Tail(a) \o b)[i]
    <3>1. CASE i <= Len(a) - 1
      BY <3>1, <1>1, <1>2, <2>1, <2>2, <2>3
    <3>2. CASE i > Len(a) - 1
      <4>1. i \in Nat /\ i + 1 \in 1 .. Len(a) + Len(b) /\ ~(i + 1 <= Len(a))
            /\ i + 1 - Len(a) = i - (Len(a) - 1) /\ i \in 1 .. Len(a) - 1 + Len(b)
            /\ ~(i <= Len(a) - 1)
        BY <3>2, <1>1
      <4>2. Tail(a \o b)[i] = (a \o b)[i + 1]
        BY <2>1
      <4>3. (a \o b)[i + 1] = b[i + 1 - Len(a)]
        BY <4>1, <1>2
      <4>4. (Tail(a) \o b)[i] = b[i - (Len(a) - 1)]
        BY <4>1, <2>3
      <4> QED BY <4>1, <4>2, <4>3, <4>4
    <3> QED BY <3>1, <3>2, <1>1
  <2>5. Len(Tail(a) \o b) = Len(Tail(a \o b))
    BY <1>1, <2>1, <2>3
  <2> QED BY <2>1, <2>3, <2>4, <2>5, SeqEqual
<1> QED BY <1>3, <1>4, <1>5


(* recv() and the write loop of peer_update. *)
LEMMA IoSteps ==
  ASSUME TypeInv, NEW p \in Ends, update_io(p)
  PROVE  TypeInv' /\ QuietStep
<1> DEFINE q == Other(p)
<1>0. q \in Ends /\ q # p /\ Other(q) = p /\ \A r \in Ends : r = p \/ r = q
  BY OtherEnd
<1>1. /\ peer \in [Ends -> PeerType] /\ inbuf \in [Ends -> Seq(Kinds)]
      /\ net \in [Ends -> Seq(Kinds)] /\ pc \in [Ends -> {"idle", "update", "gone"}]
      /\ status \in [Ends -> {"ok", "error", "disconnected"}]
      /\ fresh \subseteq Ends /\ crashed \subseteq Ends
      /\ reqs \in 0 .. MaxReqs /\ exe \in {"none", "running", "done"}
      /\ \A r \in Ends : peer[r].end = r
  BY DEF TypeInv, TypeOK
<1>2. peer[p] \in PeerType /\ peer[q] \in PeerType
      /\ peer[p].outq \in Seq(Kinds) /\ peer[q].outq \in Seq(Kinds)
      /\ net[p] \in Seq(Kinds) /\ net[q] \in Seq(Kinds)
      /\ inbuf[p] \in Seq(Kinds) /\ inbuf[q] \in Seq(Kinds)
  BY <1>0, <1>1 DEF PeerType
<1>3. PICK n \in Portion(net[q]),
           k \in IF peer[p].need_output THEN Portion(peer[p].outq) ELSE {0} :
       /\ inbuf' = [inbuf EXCEPT ![p] = @ \o Take(net[q], n)]
       /\ net' = [net EXCEPT ![q] = Drop(@, n), ![p] = @ \o Take(peer[p].outq, k)]
       /\ peer' = [peer EXCEPT ![p].outq = Drop(@, k)]
  BY DEF update_io
<1>4. n \in 0 .. Len(net[q]) /\ k \in 0 .. Len(peer[p].outq)
  BY <1>2, <1>3, PortionType, LenProperties
<1>5. pc' = [pc EXCEPT ![p] = "update"] /\ fresh' = fresh /\ crashed' = crashed
      /\ reqs' = reqs /\ exe' = exe
  BY DEF update_io
<1>6. \E s \in {"ok", "error", "disconnected"} : status' = [status EXCEPT ![p] = s]
  BY <1>1 DEF update_io, SocketStatus
<1> HIDE DEF q
<1>7. Take(net[q], n) \in Seq(Kinds) /\ Drop(net[q], n) \in Seq(Kinds)
      /\ Take(peer[p].outq, k) \in Seq(Kinds) /\ Drop(peer[p].outq, k) \in Seq(Kinds)
  BY <1>2, <1>4, TakeDrop
<1>8. inbuf[p] \o Take(net[q], n) \in Seq(Kinds)
      /\ net[p] \o Take(peer[p].outq, k) \in Seq(Kinds)
  BY <1>2, <1>7, Associative
<1>9. /\ inbuf'[p] = inbuf[p] \o Take(net[q], n) /\ inbuf'[q] = inbuf[q]
      /\ net'[q] = Drop(net[q], n) /\ net'[p] = net[p] \o Take(peer[p].outq, k)
      /\ peer'[q] = peer[q] /\ peer'[p] = [peer[p] EXCEPT !.outq = Drop(@, k)]
  BY <1>0, <1>1, <1>3
<1>10. /\ peer'[p] \in PeerType /\ peer'[p].end = p
       /\ peer'[p].outq = Drop(peer[p].outq, k) /\ Holds(peer[p], peer'[p])
  BY <1>1, <1>2, <1>7, <1>9 DEF PeerType, Holds, SameHistory
<1>11. TypeInv'
  <2>1. peer' \in [Ends -> PeerType]
    BY <1>1, <1>3, <1>9, <1>10
  <2>2. inbuf' \in [Ends -> Seq(Kinds)]
    BY <1>1, <1>3, <1>8
  <2>3. net' \in [Ends -> Seq(Kinds)]
    BY <1>0, <1>1, <1>3, <1>7, <1>8
  <2>4. pc' \in [Ends -> {"idle", "update", "gone"}]
    BY <1>1, <1>5
  <2>5. status' \in [Ends -> {"ok", "error", "disconnected"}]
    BY <1>1, <1>6
  <2>6. \A r \in Ends : peer'[r].end = r
    BY <1>0, <1>1, <1>9, <1>10, ZenonT(60)
  <2> QED BY <1>1, <1>5, <2>1, <2>2, <2>3, <2>4, <2>5, <2>6 DEF TypeInv, TypeOK
<1>12. Stream(p)' = Stream(p)
  <2>1. Stream(p)' = (inbuf[q] \o (net[p] \o Take(peer[p].outq, k))) \o Drop(peer[p].outq, k)
    BY <1>9, <1>10 DEF Stream, q
  <2>2. Stream(p) = (inbuf[q] \o net[p]) \o peer[p].outq
    BY DEF Stream, q
  <2>3. (inbuf[q] \o (net[p] \o Take(peer[p].outq, k))) \o Drop(peer[p].outq, k)
        = (inbuf[q] \o net[p]) \o peer[p].outq
    <3>1. inbuf[q] \in Seq(Kinds) /\ net[p] \in Seq(Kinds) /\ peer[p].outq \in Seq(Kinds)
          /\ k \in 0 .. Len(peer[p].outq)
      BY <1>2, <1>4
    <3> QED BY <3>1, MoveSecond, ZenonT(60)
  <2> QED BY <2>1, <2>2, <2>3
<1>13. Stream(q)' = Stream(q)
  <2>1. Stream(q)' = ((inbuf[p] \o Take(net[q], n)) \o Drop(net[q], n)) \o peer[q].outq
    BY <1>0, <1>9 DEF Stream
  <2>2. Stream(q) = (inbuf[p] \o net[q]) \o peer[q].outq
    BY <1>0 DEF Stream
  <2> QED BY <1>2, <1>4, <2>1, <2>2, MoveFirst, ZenonT(60)
<1>14. Holds(peer[q], peer'[q])
  BY <1>9 DEF Holds, SameHistory
<1> QED BY <1>0, <1>10, <1>11, <1>12, <1>13, <1>14 DEF QuietStep


(* How the queues of end p join the stream, for one append at p. *)
LEMMA StreamOf ==
  ASSUME TypeInv, NEW p \in Ends
  PROVE  Stream(p) \in Seq(Kinds)
<1>1. inbuf[Other(p)] \in Seq(Kinds) /\ net[p] \in Seq(Kinds) /\ peer[p].outq \in Seq(Kinds)
  BY OtherEnd DEF TypeInv, TypeOK, PeerType
<1>2. inbuf[Other(p)] \o net[p] \in Seq(Kinds)
  BY <1>1, Associative
<1> QED BY <1>1, <1>2, Associative DEF Stream

(* rl_transport_update hands a message to peer_deliver_incoming. *)
LEMMA DeliverSteps ==
  ASSUME TypeInv, NEW p \in Ends, deliver(p)
  PROVE  TypeInv' /\ \E sent \in Seq(Kinds) : DeliverStep(p, sent)
<1> DEFINE q == Other(p)
           h == Head(inbuf[p])
<1>0. q \in Ends /\ q # p /\ Other(q) = p /\ \A r \in Ends : r = p \/ r = q
  BY OtherEnd
<1>1. /\ peer \in [Ends -> PeerType] /\ inbuf \in [Ends -> Seq(Kinds)]
      /\ net \in [Ends -> Seq(Kinds)] /\ pc \in [Ends -> {"idle", "update", "gone"}]
      /\ status \in [Ends -> {"ok", "error", "disconnected"}]
      /\ fresh \subseteq Ends /\ crashed \subseteq Ends
      /\ reqs \in 0 .. MaxReqs /\ exe \in {"none", "running", "done"}
      /\ \A r \in Ends : peer[r].end = r
  BY DEF TypeInv, TypeOK
<1>2. /\ peer[p] \in PeerType /\ peer[q] \in PeerType
      /\ peer[p].outq \in Seq(Kinds) /\ peer[q].outq \in Seq(Kinds)
      /\ net[p] \in Seq(Kinds) /\ net[q] \in Seq(Kinds)
      /\ inbuf[p] \in Seq(Kinds) /\ inbuf[q] \in Seq(Kinds)
  BY <1>0, <1>1 DEF PeerType
<1>3. /\ inbuf[p] # <<>> /\ inbuf' = [inbuf EXCEPT ![p] = Tail(@)]
      /\ net' = net /\ pc' = pc /\ status' = status /\ fresh' = fresh
      /\ crashed' = crashed /\ reqs' = reqs
      /\ exe' \in {"none", "running", "done"}
  BY <1>1 DEF deliver
<1>4. h \in Kinds /\ Tail(inbuf[p]) \in Seq(Kinds)
  BY <1>2, <1>3, HeadTailProperties
<1>5. PICK ok \in EnqueueResults, good \in BOOLEAN :
        peer' = [peer EXCEPT ![p] = peer_deliver_incoming(@, h, ok, good)]
  BY DEF deliver
<1> HIDE DEF q, h
<1>6. peer'[p] = peer_deliver_incoming(peer[p], h, ok, good) /\ peer'[q] = peer[q]
      /\ inbuf'[p] = Tail(inbuf[p]) /\ inbuf'[q] = inbuf[q]
  BY <1>0, <1>1, <1>3, <1>5
<1>7. Delivers(peer[p], peer'[p], h)
  <2>1. Delivers(peer[p], peer_deliver_incoming(peer[p], h, ok, good), h)
    BY <1>2, <1>4, DeliverEffect
  <2> QED BY <2>1, <1>6
<1>8. PICK sent \in Seq(Kinds) :
        /\ Makes(peer[p], peer'[p], sent)
        /\ \/ Shaken(peer[p], peer'[p], h, sent) \/ Broken(peer[p], peer'[p], h, sent)
           \/ Handled(peer[p], peer'[p], h, sent)
  BY <1>7 DEF Delivers
<1>9. TypeInv'
  <2>1. peer'[p] \in PeerType /\ peer'[p].end = p
    BY <1>1, <1>8 DEF Makes
  <2>2. peer' \in [Ends -> PeerType]
    BY <1>1, <1>5, <1>6, <2>1
  <2>3. inbuf' \in [Ends -> Seq(Kinds)]
    BY <1>1, <1>3, <1>4
  <2>4. \A r \in Ends : peer'[r].end = r
    BY <1>0, <1>1, <1>6, <2>1
  <2> QED BY <1>1, <1>3, <2>2, <2>3, <2>4 DEF TypeInv, TypeOK
<1>10. Stream(q) # <<>> /\ Head(Stream(q)) = h /\ Stream(q)' = Tail(Stream(q))
  <2>1. Stream(q) = (inbuf[p] \o net[q]) \o peer[q].outq
    BY <1>0 DEF Stream
  <2>2. Stream(q)' = (Tail(inbuf[p]) \o net[q]) \o peer[q].outq
    BY <1>0, <1>3, <1>6 DEF Stream
  <2>3. inbuf[p] \o net[q] # <<>> /\ Head(inbuf[p] \o net[q]) = h
        /\ Tail(inbuf[p] \o net[q]) = Tail(inbuf[p]) \o net[q]
    BY <1>2, <1>3, TakeHead DEF h
  <2>4. inbuf[p] \o net[q] \in Seq(Kinds)
    BY <1>2, Associative
  <2> DEFINE a == inbuf[p] \o net[q]
  <2> HIDE DEF a
  <2>5. a \o peer[q].outq # <<>> /\ Head(a \o peer[q].outq) = Head(a)
        /\ Tail(a \o peer[q].outq) = Tail(a) \o peer[q].outq
    BY <1>2, <2>3, <2>4, TakeHead DEF a
  <2> QED BY <2>1, <2>2, <2>3, <2>5 DEF a
<1>11. Stream(p)' = Stream(p) \o sent
  <2>1. Stream(p)' = (inbuf[q] \o net[p]) \o peer'[p].outq
    BY <1>3, <1>6 DEF Stream, q
  <2>2. Stream(p) = (inbuf[q] \o net[p]) \o peer[p].outq
    BY DEF Stream, q
  <2>3. Stream(p) \in Seq(Kinds)
    BY StreamOf
  <2>4. CASE sent = <<>> /\ peer'[p].outq = peer[p].outq
    <3>1. Stream(p) \o <<>> = Stream(p)
      BY <2>3, ConcatEmptySeq
    <3> QED BY <2>1, <2>2, <2>4, <3>1
  <2>5. ASSUME NEW m \in Kinds, sent = <<m>>, peer'[p].outq = Append(peer[p].outq, m)
        PROVE  Stream(p)' = Stream(p) \o sent
    <3>1. (inbuf[q] \o net[p]) \o Append(peer[p].outq, m)
          = Append((inbuf[q] \o net[p]) \o peer[p].outq, m)
      <4>1. inbuf[q] \in Seq(Kinds) /\ net[p] \in Seq(Kinds) /\ peer[p].outq \in Seq(Kinds)
        BY <1>2
      <4> QED BY <4>1, SendLast, ZenonT(60)
    <3>2. Append(Stream(p), m) = Stream(p) \o <<m>>
      BY <2>3, AppendIsConcat
    <3> QED BY <2>1, <2>2, <2>5, <3>1, <3>2
  <2> QED BY <1>8, <2>4, <2>5 DEF Makes
<1>12. sent = <<>> \/ \E m \in Kinds : sent = <<m>>
  BY <1>8 DEF Makes
<1>13. DeliverStep(p, sent)
  BY <1>6, <1>8, <1>10, <1>11, <1>12 DEF DeliverStep, q
<1> QED BY <1>9, <1>13


(* The rest of peer_update, with its last attempt to write. *)
LEMMA FinishSteps ==
  ASSUME TypeInv, NEW p \in Ends, update_finish(p)
  PROVE  TypeInv' /\ (QuietStep \/ SendStep(p, "PING_REQUEST"))
<1> DEFINE q == Other(p)
           e == peer[p]
           e1 == IF status[p] = "ok" THEN e ELSE on_disconnect(e)
           E2(ok) == on_update_connected(e1, ok)
           remove(e2) == e2.state \in {"ERROR", "DISCONNECTED"}
<1>0. q \in Ends /\ q # p /\ Other(q) = p /\ \A r \in Ends : r = p \/ r = q
  BY OtherEnd
<1>1. /\ peer \in [Ends -> PeerType] /\ inbuf \in [Ends -> Seq(Kinds)]
      /\ net \in [Ends -> Seq(Kinds)] /\ pc \in [Ends -> {"idle", "update", "gone"}]
      /\ status \in [Ends -> {"ok", "error", "disconnected"}]
      /\ fresh \subseteq Ends /\ crashed \subseteq Ends
      /\ reqs \in 0 .. MaxReqs /\ exe \in {"none", "running", "done"}
      /\ \A r \in Ends : peer[r].end = r
  BY DEF TypeInv, TypeOK
<1>2. /\ e \in PeerType /\ peer[q] \in PeerType
      /\ e.outq \in Seq(Kinds) /\ peer[q].outq \in Seq(Kinds)
      /\ net[p] \in Seq(Kinds) /\ net[q] \in Seq(Kinds)
      /\ inbuf[p] \in Seq(Kinds) /\ inbuf[q] \in Seq(Kinds)
  BY <1>0, <1>1 DEF PeerType
<1>3. PICK ok \in EnqueueResults :
        LET e2 == E2(ok)
        IN  \E k \in Portion(e2.outq) :
             /\ net' = [net EXCEPT ![p] = @ \o Take(e2.outq, k)]
             /\ peer' = [peer EXCEPT ![p] =
                  [e2 EXCEPT !.outq = Drop(@, k),
                             !.need_output = ~remove(e2) /\ peer[p].outq # <<>>]]
             /\ pc' = [pc EXCEPT ![p] = IF remove(e2) THEN "gone" ELSE "idle"]
  BY Zenon DEF update_finish
<1>4. /\ fresh' = fresh \cup {p} /\ inbuf' = inbuf /\ status' = status
      /\ crashed' = crashed /\ reqs' = reqs /\ exe' = exe
  BY DEF update_finish
<1>5. /\ e1 \in PeerType /\ e1.end = e.end /\ SameHistory(e, e1) /\ e1.outq = e.outq
      /\ \/ e1.state \in {"ERROR", "DISCONNECTED"}
         \/ e1.state = e.state /\ e1.ping_on_wire = e.ping_on_wire
  <2>1. CASE status[p] = "ok"
    BY <2>1, <1>2 DEF SameHistory
  <2>2. CASE status[p] # "ok"
    <3> DEFINE d == on_disconnect(e)
    <3>1. /\ d \in PeerType /\ d.end = e.end /\ SameHistory(e, d)
          /\ d.outq = e.outq /\ d.state \in {"ERROR", "DISCONNECTED"}
      BY <1>2, DisconnectEffect
    <3>2. e1 = d
      BY <2>2
    <3> HIDE DEF d, e1
    <3> QED BY <3>1, <3>2
  <2> QED BY <2>1, <2>2
<1>6. ok \in BOOLEAN
  BY DEF EnqueueResults
<1> HIDE DEF e1, q
<1> DEFINE e2 == E2(ok)
           f == peer'[p]
<1>7. /\ e2 \in PeerType /\ e2.end = e1.end /\ SameHistory(e1, e2)
      /\ \/ e2.outq = e1.outq /\ e2.state = "ERROR"
         \/ e2.outq = e1.outq /\ e2.state = e1.state /\ e2.ping_on_wire = e1.ping_on_wire
         \/ /\ e1.state = "CONNECTED" /\ e2.state = "CONNECTED"
            /\ e1.ping_on_wire = FALSE /\ e2.ping_on_wire = TRUE
            /\ e2.outq = Append(e1.outq, "PING_REQUEST")
  <2>1. e1 \in PeerType
    BY <1>5
  <2>2. Updates(e1, e2)
    BY <2>1, <1>6, UpdateEffect
  <2> HIDE DEF e2
  <2> QED BY <2>2 DEF Updates
<1>8. PICK k \in Portion(e2.outq) :
             /\ net' = [net EXCEPT ![p] = @ \o Take(e2.outq, k)]
             /\ peer' = [peer EXCEPT ![p] =
                  [e2 EXCEPT !.outq = Drop(@, k),
                             !.need_output = ~remove(e2) /\ peer[p].outq # <<>>]]
             /\ pc' = [pc EXCEPT ![p] = IF remove(e2) THEN "gone" ELSE "idle"]
  BY <1>3
<1> HIDE DEF e2
<1>9. e2.outq \in Seq(Kinds)
  BY <1>7 DEF PeerType
<1>10. k \in 0 .. Len(e2.outq)
  BY <1>8, <1>9, PortionType
<1>11. Take(e2.outq, k) \in Seq(Kinds) /\ Drop(e2.outq, k) \in Seq(Kinds)
  BY <1>9, <1>10, TakeDrop
<1>12. net[p] \o Take(e2.outq, k) \in Seq(Kinds)
  BY <1>2, <1>11, Associative
<1>13. /\ net'[p] = net[p] \o Take(e2.outq, k) /\ net'[q] = net[q]
       /\ peer'[q] = peer[q]
       /\ f = [e2 EXCEPT !.outq = Drop(@, k),
                         !.need_output = ~remove(e2) /\ peer[p].outq # <<>>]
  BY <1>0, <1>1, <1>8
<1>14. f \in PeerType /\ f.end = p /\ f.outq = Drop(e2.outq, k) /\ f.state = e2.state
       /\ f.ping_on_wire = e2.ping_on_wire /\ SameHistory(e, f)
  <2>1. (~remove(e2) /\ peer[p].outq # <<>>) \in BOOLEAN
    OBVIOUS
  <2>2. e.end = p
    BY <1>1
  <2> DEFINE b == ~remove(e2) /\ peer[p].outq # <<>>
  <2> HIDE DEF b, f, e
  <2>3. f = [e2 EXCEPT !.outq = Drop(@, k), !.need_output = b]
    BY <1>13 DEF b
  <2>4. b \in BOOLEAN
    BY <2>1 DEF b
  <2> QED BY <1>5, <1>7, <1>11, <2>2, <2>3, <2>4 DEF PeerType, SameHistory
<1>15. TypeInv'
  <2>1. peer' \in [Ends -> PeerType]
    BY <1>1, <1>8, <1>14
  <2>2. net' \in [Ends -> Seq(Kinds)]
    BY <1>1, <1>8, <1>12
  <2>3. pc' \in [Ends -> {"idle", "update", "gone"}]
    BY <1>1, <1>8
  <2>4. \A r \in Ends : peer'[r].end = r
    <3>1. peer'[q].end = q /\ f.end = p
      BY <1>0, <1>1, <1>13, <1>14
    <3> QED BY <1>0, <3>1, Zenon
  <2> QED BY <1>1, <1>4, <2>1, <2>2, <2>3, <2>4 DEF TypeInv, TypeOK
<1>16. Stream(p)' = (inbuf[q] \o net[p]) \o e2.outq
  <2>1. Stream(p)' = (inbuf[q] \o (net[p] \o Take(e2.outq, k))) \o Drop(e2.outq, k)
    BY <1>4, <1>13, <1>14 DEF Stream, q
  <2>2. inbuf[q] \in Seq(Kinds) /\ net[p] \in Seq(Kinds) /\ e2.outq \in Seq(Kinds)
        /\ k \in 0 .. Len(e2.outq)
    BY <1>2, <1>9, <1>10
  <2>3. (inbuf[q] \o (net[p] \o Take(e2.outq, k))) \o Drop(e2.outq, k)
        = (inbuf[q] \o net[p]) \o e2.outq
    BY <2>2, MoveSecond, ZenonT(60)
  <2> QED BY <2>1, <2>3
<1>17. Stream(p) = (inbuf[q] \o net[p]) \o e.outq
  BY DEF Stream, q
<1>18. Stream(q)' = Stream(q) /\ Holds(peer[q], peer'[q])
  BY <1>0, <1>4, <1>13 DEF Stream, Holds, SameHistory
<1> HIDE DEF e, f
<1>19. CASE e2.outq = e1.outq /\ (e2.state = "ERROR"
              \/ (e2.state = e1.state /\ e2.ping_on_wire = e1.ping_on_wire))
  <2>1. Stream(p)' = Stream(p)
    BY <1>5, <1>16, <1>17, <1>19
  <2>2. Holds(e, f)
    BY <1>5, <1>14, <1>19 DEF Holds
  <2> QED BY <1>0, <1>15, <1>18, <2>1, <2>2 DEF QuietStep, e, f
<1>20. CASE /\ e1.state = "CONNECTED" /\ e2.state = "CONNECTED"
            /\ e1.ping_on_wire = FALSE /\ e2.ping_on_wire = TRUE
            /\ e2.outq = Append(e1.outq, "PING_REQUEST")
  <2>1. "PING_REQUEST" \in Kinds
    BY DEF Kinds
  <2>2. (inbuf[q] \o net[p]) \o Append(e.outq, "PING_REQUEST")
        = Append((inbuf[q] \o net[p]) \o e.outq, "PING_REQUEST")
    <3>1. inbuf[q] \in Seq(Kinds) /\ net[p] \in Seq(Kinds) /\ e.outq \in Seq(Kinds)
      BY <1>2
    <3> QED BY <2>1, <3>1, SendLast, Zenon
  <2>3. Stream(p)' = Append(Stream(p), "PING_REQUEST")
    BY <1>5, <1>16, <1>17, <1>20, <2>2
  <2>4. e.state = "CONNECTED" /\ e.ping_on_wire = FALSE
    BY <1>5, <1>20
  <2>5. SendStep(p, "PING_REQUEST")
    BY <1>13, <1>14, <1>18, <1>20, <2>3, <2>4 DEF SendStep, q, e, f
  <2> QED BY <1>15, <2>5
<1> QED BY <1>7, <1>19, <1>20


(* The target transmits on behalf of a program: a request, or its end. *)
LEMMA ProgramSteps ==
  ASSUME TypeInv, NEW m \in Plain, NEW ok \in BOOLEAN,
         peer' = [peer EXCEPT !["target"] = on_transmit_message(@, m, ok)],
         inbuf' = inbuf, net' = net
  PROVE  /\ peer' \in [Ends -> PeerType] /\ \A r \in Ends : peer'[r].end = r
         /\ QuietStep \/ SendStep("target", m)
<1> DEFINE p == "target"
           q == Other(p)
           e == peer[p]
           f == peer'[p]
<1>0. p \in Ends /\ q \in Ends /\ q # p /\ Other(q) = p /\ \A r \in Ends : r = p \/ r = q
  BY DEF Ends, Other
<1>1. peer \in [Ends -> PeerType] /\ inbuf \in [Ends -> Seq(Kinds)]
      /\ net \in [Ends -> Seq(Kinds)] /\ \A r \in Ends : peer[r].end = r
  BY DEF TypeInv, TypeOK
<1>2. e \in PeerType /\ e.outq \in Seq(Kinds) /\ net[p] \in Seq(Kinds)
      /\ inbuf[q] \in Seq(Kinds)
  BY <1>0, <1>1 DEF PeerType
<1>3. f = on_transmit_message(e, m, ok) /\ peer'[q] = peer[q]
  BY <1>0, <1>1
<1>4. /\ f \in PeerType /\ f.end = e.end /\ SameHistory(e, f)
      /\ f.ping_on_wire = e.ping_on_wire
      /\ \/ e.state = "CONNECTED" /\ f.state = "CONNECTED" /\ f.outq = Append(e.outq, m)
         \/ f.state = "ERROR" /\ f.outq = e.outq
  <2> DEFINE t == on_transmit_message(e, m, ok)
  <2>0. e \in PeerType /\ m \in Kinds
    BY <1>2 DEF Plain
  <2> HIDE DEF e
  <2>1. /\ t \in PeerType /\ t.end = e.end /\ SameHistory(e, t)
        /\ t.ping_on_wire = e.ping_on_wire
        /\ \/ e.state = "CONNECTED" /\ t.state = "CONNECTED" /\ t.outq = Append(e.outq, m)
           \/ t.state = "ERROR" /\ t.outq = e.outq
    BY <2>0, TransmitMessage
  <2> HIDE DEF t, f
  <2>2. f = t
    BY <1>3 DEF t
  <2> QED BY <2>1, <2>2
<1>5. Stream(q)' = Stream(q) /\ Holds(peer[q], peer'[q])
  BY <1>0, <1>3 DEF Stream, Holds, SameHistory
<1>6. Stream(p)' = (inbuf[q] \o net[p]) \o f.outq
      /\ Stream(p) = (inbuf[q] \o net[p]) \o e.outq
  BY DEF Stream
<1>7. f.end = p
  BY <1>0, <1>1, <1>4
<1> HIDE DEF q, e, f
<1>8. peer' \in [Ends -> PeerType] /\ \A r \in Ends : peer'[r].end = r
  <2>1. peer' \in [Ends -> PeerType]
    BY <1>1, <1>4 DEF f, e
  <2>2. peer'[q].end = q /\ peer'[p].end = p
    BY <1>0, <1>1, <1>3, <1>7 DEF f
  <2> QED BY <1>0, <2>1, <2>2
<1>9. CASE f.state = "ERROR" /\ f.outq = e.outq
  <2>1. Holds(e, f) /\ Stream(p)' = Stream(p)
    BY <1>4, <1>6, <1>9 DEF Holds
  <2> QED BY <1>0, <1>5, <1>8, <2>1 DEF QuietStep, e, f
<1>10. CASE e.state = "CONNECTED" /\ f.state = "CONNECTED" /\ f.outq = Append(e.outq, m)
  <2>1. (inbuf[q] \o net[p]) \o Append(e.outq, m) = Append((inbuf[q] \o net[p]) \o e.outq, m)
    <3>1. inbuf[q] \in Seq(Kinds) /\ net[p] \in Seq(Kinds) /\ e.outq \in Seq(Kinds)
          /\ m \in Kinds
      BY <1>2 DEF Plain
    <3> QED BY <3>1, SendLast, Zenon
  <2>2. Stream(p)' = Append(Stream(p), m)
    BY <1>6, <1>10, <2>1
  <2>3. SendStep(p, m)
    BY <1>3, <1>4, <1>5, <1>10, <2>2 DEF SendStep, q, e, f
  <2> QED BY <1>8, <2>3
<1> QED BY <1>4, <1>9, <1>10

LEMMA TickSteps ==
  ASSUME TypeInv, Tick
  PROVE  TypeInv' /\ QuietStep
<1>1. ASSUME NEW p \in Ends
      PROVE  /\ peer'[p] \in PeerType /\ peer'[p].end = p
             /\ peer'[p].outq = peer[p].outq /\ Holds(peer[p], peer'[p])
  <2>1. peer[p] \in PeerType /\ peer[p].end = p
    BY DEF TypeInv, TypeOK
  <2>2. peer'[p] = IF p \in HasClock /\ peer[p].age < MaxAge
                     THEN [peer[p] EXCEPT !.age = @ + 1] ELSE peer[p]
    BY DEF Tick
  <2>3. CASE p \in HasClock /\ peer[p].age < MaxAge
    <3>1. peer[p].age + 1 \in 0 .. MaxAge
      <4>1. peer[p].age \in 0 .. MaxAge /\ MaxAge \in Nat
        BY <2>1, PeerAssumption DEF PeerType, MaxAge
      <4> QED BY <4>1, <2>3
    <3> QED BY <2>1, <2>2, <2>3, <3>1 DEF PeerType, Holds, SameHistory
  <2>4. CASE ~(p \in HasClock /\ peer[p].age < MaxAge)
    <3>1. peer'[p] = peer[p]
      BY <2>2, <2>4
    <3> QED BY <2>1, <3>1 DEF Holds, SameHistory
  <2> QED BY <2>3, <2>4
<1>2. /\ fresh' = {} /\ inbuf' = inbuf /\ net' = net /\ pc' = pc /\ status' = status
      /\ crashed' = crashed /\ reqs' = reqs /\ exe' = exe
      /\ peer' = [p \in Ends |-> peer'[p]]
  BY DEF Tick
<1>3. TypeInv'
  <2>1. peer' \in [Ends -> PeerType] /\ \A p \in Ends : peer'[p].end = p
    BY <1>1, <1>2
  <2> QED BY <1>2, <2>1 DEF TypeInv, TypeOK
<1>4. \A p \in Ends : Stream(p)' = Stream(p)
  BY <1>1, <1>2 DEF Stream
<1> QED BY <1>1, <1>3, <1>4 DEF QuietStep

(* Every step keeps the types and is a step of the streams. *)
LEMMA StepCases ==
  ASSUME TypeInv, [Next]_vars
  PROVE  TypeInv' /\ StreamStep
<1>1. ASSUME NEW p \in Ends, update_io(p)
      PROVE  TypeInv' /\ StreamStep
  BY <1>1, IoSteps DEF StreamStep
<1>2. ASSUME NEW p \in Ends, deliver(p)
      PROVE  TypeInv' /\ StreamStep
  BY <1>2, DeliverSteps DEF StreamStep
<1>3. ASSUME NEW p \in Ends, update_finish(p)
      PROVE  TypeInv' /\ StreamStep
  <2>1. "PING_REQUEST" \in Kinds
    BY DEF Kinds
  <2> QED BY <1>3, <2>1, FinishSteps DEF StreamStep
<1>4. CASE device_request
  <2>1. PICK ok \in EnqueueResults :
          peer' = [peer EXCEPT !["target"] = on_transmit_message(@, "FILE_REQUEST", ok)]
    BY <1>4 DEF device_request
  <2>2. inbuf' = inbuf /\ net' = net /\ pc' = pc /\ status' = status /\ fresh' = fresh
        /\ crashed' = crashed /\ exe' = exe /\ reqs' = reqs + 1 /\ reqs < MaxReqs
    BY <1>4 DEF device_request
  <2>3. "FILE_REQUEST" \in Plain /\ "FILE_REQUEST" \in Kinds /\ "target" \in Ends
    BY DEF Plain, Kinds, Ends
  <2>4. ok \in BOOLEAN
    BY DEF EnqueueResults
  <2>5. /\ peer' \in [Ends -> PeerType] /\ \A r \in Ends : peer'[r].end = r
        /\ QuietStep \/ SendStep("target", "FILE_REQUEST")
    BY <2>1, <2>2, <2>3, <2>4, ProgramSteps
  <2>6. reqs' \in 0 .. MaxReqs
    BY <2>2, PeerAssumption DEF TypeInv, TypeOK
  <2>7. TypeInv'
    BY <2>2, <2>5, <2>6 DEF TypeInv, TypeOK
  <2> QED BY <2>3, <2>5, <2>7 DEF StreamStep
<1>5. CASE launch_completed
  <2>1. PICK ok \in EnqueueResults :
          peer' = [peer EXCEPT !["target"] = on_transmit_message(@, "DONE_REQUEST", ok)]
    BY <1>5 DEF launch_completed
  <2>2. inbuf' = inbuf /\ net' = net /\ pc' = pc /\ status' = status /\ fresh' = fresh
        /\ crashed' = crashed /\ exe' = "done" /\ reqs' = reqs
    BY <1>5 DEF launch_completed
  <2>3. "DONE_REQUEST" \in Plain /\ "DONE_REQUEST" \in Kinds /\ "target" \in Ends
    BY DEF Plain, Kinds, Ends
  <2>4. ok \in BOOLEAN
    BY DEF EnqueueResults
  <2>5. /\ peer' \in [Ends -> PeerType] /\ \A r \in Ends : peer'[r].end = r
        /\ QuietStep \/ SendStep("target", "DONE_REQUEST")
    BY <2>1, <2>2, <2>3, <2>4, ProgramSteps
  <2>7. TypeInv'
    BY <2>2, <2>5 DEF TypeInv, TypeOK
  <2> QED BY <2>3, <2>5, <2>7 DEF StreamStep
<1>6. CASE Tick
  BY <1>6, TickSteps DEF StreamStep
<1>7. ASSUME NEW p \in Ends, Crash(p)
      PROVE  TypeInv' /\ StreamStep
  <2>1. /\ crashed' = crashed \cup {p} /\ peer' = peer /\ inbuf' = inbuf /\ net' = net
        /\ pc' = pc /\ status' = status /\ fresh' = fresh /\ reqs' = reqs /\ exe' = exe
    BY <1>7 DEF Crash
  <2>2. TypeInv'
    BY <2>1 DEF TypeInv, TypeOK
  <2>3. QuietStep
    BY <2>1 DEF QuietStep, Stream, Holds, SameHistory
  <2> QED BY <2>2, <2>3 DEF StreamStep
<1>8. CASE UNCHANGED vars
  <2>1. /\ crashed' = crashed /\ peer' = peer /\ inbuf' = inbuf /\ net' = net
        /\ pc' = pc /\ status' = status /\ fresh' = fresh /\ reqs' = reqs /\ exe' = exe
    BY <1>8 DEF vars
  <2>2. TypeInv'
    BY <2>1 DEF TypeInv, TypeOK
  <2>3. QuietStep
    BY <2>1 DEF QuietStep, Stream, Holds, SameHistory
  <2> QED BY <2>2, <2>3 DEF StreamStep
<1> QED BY <1>1, <1>2, <1>3, <1>4, <1>5, <1>6, <1>7, <1>8 DEF Next, Terminated

(* What peer_init makes of the two ends. *)
LEMMA InitStreams ==
  ASSUME Init
  PROVE  /\ TypeInv
         /\ \A p \in Ends : /\ ~peer[p].was_connected /\ peer[p].stray = {}
                            /\ peer[p].ping_on_wire = FALSE /\ ~peer[p].timed_out
                            /\ peer[p].state \in {"WAIT_HANDSHAKE", "ERROR"}
         /\ Stream("target") = <<>>
         /\ Stream("controller") = <<"HANDSHAKE">> \/ Stream("controller") = <<>>
<1>1. PICK ok \in EnqueueResults : peer = [p \in Ends |-> peer_init(p, ok)]
  BY DEF Init
<1>2. /\ inbuf = [p \in Ends |-> <<>>] /\ net = [p \in Ends |-> <<>>]
      /\ pc = [p \in Ends |-> "idle"] /\ status = [p \in Ends |-> "ok"]
      /\ fresh = {} /\ crashed = {} /\ reqs = 0 /\ exe = "none"
  BY DEF Init
<1>3. 0 \in 0 .. MaxAge /\ 0 \in 0 .. MaxReqs
  BY PeerAssumption DEF MaxAge
<1>4. \A p \in Ends : NewPeer(p) \in PeerType
  BY <1>3, EmptySeq DEF NewPeer, PeerType, States
<1>5. /\ peer["target"] \in PeerType /\ peer["target"].end = "target"
      /\ peer["target"].outq = <<>> /\ peer["target"].state = "WAIT_HANDSHAKE"
      /\ peer["target"].was_connected = FALSE /\ peer["target"].stray = {}
      /\ peer["target"].ping_on_wire = FALSE /\ peer["target"].timed_out = FALSE
  <2>1. peer["target"] = [NewPeer("target") EXCEPT !.state = "WAIT_HANDSHAKE"]
    BY <1>1 DEF peer_init, Ends
  <2> QED BY <2>1, <1>3, EmptySeq, ZenonT(60) DEF NewPeer, PeerType, States, Ends
<1>6. /\ peer["controller"] \in PeerType /\ peer["controller"].end = "controller"
      /\ peer["controller"].outq = <<>> \/ peer["controller"].outq = <<"HANDSHAKE">>
      /\ peer["controller"].state \in {"WAIT_HANDSHAKE", "ERROR"}
      /\ peer["controller"].was_connected = FALSE /\ peer["controller"].stray = {}
      /\ peer["controller"].ping_on_wire = FALSE /\ peer["controller"].timed_out = FALSE
  <2>1. peer["controller"] = on_transmit_handshake(NewPeer("controller"), ok)
    BY <1>1 DEF peer_init, Ends
  <2>2. CASE ok
    <3>1. peer["controller"] = [NewPeer("controller") EXCEPT
             !.outq = Append(<<>>, "HANDSHAKE"), !.state = "WAIT_HANDSHAKE"]
      BY <2>1, <2>2 DEF on_transmit_handshake, enqueue_output_message, NewPeer
    <3>2. Append(<<>>, "HANDSHAKE") = <<"HANDSHAKE">> /\ <<"HANDSHAKE">> \in Seq(Kinds)
      BY DEF Kinds
    <3> QED BY <3>1, <3>2, <1>3 DEF NewPeer, PeerType, States, Ends
  <2>3. CASE ~ok
    <3>1. peer["controller"] = [NewPeer("controller") EXCEPT !.state = "ERROR"]
      BY <2>1, <2>3 DEF on_transmit_handshake, Failed
    <3> QED BY <3>1, <1>3, EmptySeq, ZenonT(60) DEF NewPeer, PeerType, States, Ends
  <2> QED BY <2>2, <2>3
<1>7. TypeInv
  <2>1. peer \in [Ends -> PeerType] /\ \A p \in Ends : peer[p].end = p
    BY <1>1, <1>5, <1>6 DEF Ends
  <2>2. inbuf \in [Ends -> Seq(Kinds)] /\ net \in [Ends -> Seq(Kinds)]
    BY <1>2, EmptySeq
  <2> QED BY <1>2, <1>3, <2>1, <2>2 DEF TypeInv, TypeOK
<1>8. inbuf["controller"] = <<>> /\ inbuf["target"] = <<>>
      /\ net["controller"] = <<>> /\ net["target"] = <<>>
  BY <1>2 DEF Ends
<1>9. \A s \in Seq(Kinds) : (<<>> \o <<>>) \o s = s
  BY ConcatEmptySeq, EmptySeq
<1>10. Stream("target") = <<>>
  BY <1>5, <1>8, <1>9, EmptySeq DEF Stream, Other
<1>11. Stream("controller") = <<"HANDSHAKE">> \/ Stream("controller") = <<>>
  <2>1. <<"HANDSHAKE">> \in Seq(Kinds) /\ <<>> \in Seq(Kinds)
    BY DEF Kinds
  <2> QED BY <1>6, <1>8, <1>9, <2>1 DEF Stream, Other
<1> QED BY <1>5, <1>6, <1>7, <1>10, <1>11 DEF Ends

(* Every peer record, queue and flag of the two ends keeps its type,        *)
(* whatever peer_update, the programs, the clock and crashes do.            *)
THEOREM TypeCorrect == Spec => []TypeOK
<1>1. Init => TypeInv
  BY InitStreams
<1>2. TypeInv /\ [Next]_vars => TypeInv'
  BY StepCases
<1>3. TypeInv => TypeOK
  BY DEF TypeInv
<1> QED BY <1>1, <1>2, <1>3, PTL DEF Spec


-----------------------------------------------------------------------------
(* Who is connected first                                                   *)

(* Only on_receive_handshake sets was_connected, and the target sends       *)
(* nothing before that.                                                     *)
AgreeInv ==
  /\ TypeInv
  /\ \A p \in Ends :
       /\ peer[p].state = "CONNECTED" => peer[p].was_connected
       /\ peer[p].state = "WAIT_HANDSHAKE" => ~peer[p].was_connected
  /\ ConnectedAgreement
  /\ ~peer["target"].was_connected => Stream("target") = <<>>

LEMMA AgreeStep ==
  ASSUME AgreeInv, [Next]_vars
  PROVE  AgreeInv'
<1>0. "target" \in Ends /\ "controller" \in Ends /\ Other("controller") = "target"
      /\ Other("target") = "controller" /\ \A p \in Ends : p \in {"controller", "target"}
  BY DEF Ends, Other
<1>1. TypeInv' /\ StreamStep
  BY StepCases DEF AgreeInv
<1>2. /\ \A p \in Ends : Stream(p) \in Seq(Kinds)
      /\ \A p \in Ends : peer[p].was_connected \in BOOLEAN
      /\ \A p \in Ends : peer'[p].was_connected \in BOOLEAN
  BY <1>1, StreamOf DEF AgreeInv, TypeInv, TypeOK, PeerType
<1>3. CASE QuietStep
  BY <1>0, <1>1, <1>3 DEF AgreeInv, QuietStep, Holds, SameHistory, ConnectedAgreement
<1>4. ASSUME NEW p \in Ends, NEW m \in Kinds, SendStep(p, m)
      PROVE  AgreeInv'
  <2>1. peer[p].was_connected /\ peer[p].state = "CONNECTED" /\ peer'[p].state = "CONNECTED"
        /\ peer'[p].was_connected = peer[p].was_connected
        /\ peer'[Other(p)] = peer[Other(p)]
        /\ Stream(Other(p))' = Stream(Other(p))
    BY <1>4 DEF AgreeInv, SendStep, SameHistory
  <2>2. CASE p = "controller"
    BY <1>0, <1>1, <2>1, <2>2 DEF AgreeInv, ConnectedAgreement, Ends
  <2>3. CASE p = "target"
    BY <1>0, <1>1, <2>1, <2>3 DEF AgreeInv, ConnectedAgreement, Ends
  <2> QED BY <2>2, <2>3 DEF Ends
<1>5. ASSUME NEW p \in Ends, NEW sent \in Seq(Kinds), DeliverStep(p, sent)
      PROVE  AgreeInv'
  <2> DEFINE h == Head(Stream(Other(p)))
  <2>0. /\ Stream(Other(p)) # <<>> /\ Stream(p)' = Stream(p) \o sent
        /\ peer'[Other(p)] = peer[Other(p)]
        /\ \/ Shaken(peer[p], peer'[p], h, sent)
           \/ Broken(peer[p], peer'[p], h, sent)
           \/ Handled(peer[p], peer'[p], h, sent)
    BY <1>5 DEF DeliverStep
  <2>1. \/ /\ peer[p].state \in {"WAIT_HANDSHAKE", "CONNECTED"}
           /\ peer'[p].state \in {"CONNECTED", "ERROR"} /\ peer'[p].was_connected
        \/ /\ peer'[p].state = "ERROR" /\ Stream(p)' = Stream(p)
           /\ peer'[p].was_connected = peer[p].was_connected
    <3>1. CASE Shaken(peer[p], peer'[p], h, sent)
      BY <3>1 DEF Shaken
    <3>2. CASE Broken(peer[p], peer'[p], h, sent)
      <4>1. Stream(p) \o <<>> = Stream(p)
        BY <1>2, ConcatEmptySeq
      <4> QED BY <3>2, <2>0, <4>1 DEF Broken
    <3>3. CASE Handled(peer[p], peer'[p], h, sent)
      BY <3>3 DEF Handled, SameHistory, AgreeInv
    <3> QED BY <2>0, <3>1, <3>2, <3>3
  <2> HIDE DEF h
  <2>2. CASE p = "controller"
    <3>1. peer["target"].was_connected
      BY <1>0, <2>0, <2>2 DEF AgreeInv
    <3> QED BY <1>0, <1>1, <2>0, <2>1, <2>2, <3>1 DEF AgreeInv, ConnectedAgreement, Ends
  <2>3. CASE p = "target"
    BY <1>0, <1>1, <2>0, <2>1, <2>3 DEF AgreeInv, ConnectedAgreement, Ends
  <2> QED BY <2>2, <2>3 DEF Ends
<1> QED BY <1>1, <1>3, <1>4, <1>5 DEF StreamStep

LEMMA AgreeInit ==
  ASSUME Init
  PROVE  AgreeInv
<1>1. /\ TypeInv /\ Stream("target") = <<>>
      /\ \A p \in Ends : /\ ~peer[p].was_connected
                         /\ peer[p].state \in {"WAIT_HANDSHAKE", "ERROR"}
  BY InitStreams
<1>2. "target" \in Ends /\ "controller" \in Ends
  BY DEF Ends
<1> QED BY <1>1, <1>2 DEF AgreeInv, ConnectedAgreement

(* The controller reaches CONNECTED only after the target has: it needs the *)
(* target's handshake, which on_receive_handshake of the target sends.      *)
(* This holds also when allocations fail, versions differ or ends vanish.   *)
THEOREM TargetConnectsFirst == Spec => []ConnectedAgreement
<1>1. Init => AgreeInv
  BY AgreeInit
<1>2. AgreeInv /\ [Next]_vars => AgreeInv'
  BY AgreeStep
<1>3. AgreeInv => ConnectedAgreement
  BY DEF AgreeInv
<1> QED BY <1>1, <1>2, <1>3, PTL DEF Spec


-----------------------------------------------------------------------------
(* The handshake comes first                                                *)

OnlyFirst(s) == \A i \in 1 .. Len(s) : s[i] = "HANDSHAKE" <=> i = 1
NoHandshake(s) == \A i \in 1 .. Len(s) : s[i] # "HANDSHAKE"

(* While an end waits for the handshake, it is the first message of the     *)
(* stream to it and the only one of its kind; once connected, none follows. *)
(* A connected target has sent its own before anything else.                *)
FirstInv ==
  /\ AgreeInv
  /\ HandshakeComesFirst
  /\ \A p \in Ends :
       /\ peer[Other(p)].state = "WAIT_HANDSHAKE" => OnlyFirst(Stream(p))
       /\ peer[Other(p)].state = "CONNECTED" => NoHandshake(Stream(p))
  /\ peer["target"].was_connected /\ peer["controller"].state = "WAIT_HANDSHAKE" =>
       Stream("target") # <<>>

LEMMA OnlyFirstFacts ==
  /\ OnlyFirst(<<>>) /\ OnlyFirst(<<"HANDSHAKE">>)
  /\ \A s \in Seq(Kinds) : s # <<>> =>
       /\ OnlyFirst(s) => Head(s) = "HANDSHAKE" /\ NoHandshake(Tail(s))
       /\ NoHandshake(s) => Head(s) # "HANDSHAKE" /\ NoHandshake(Tail(s))
  /\ \A s \in Seq(Kinds) : \A m \in Kinds \ {"HANDSHAKE"} :
       /\ NoHandshake(s) => NoHandshake(Append(s, m))
       /\ OnlyFirst(s) /\ s # <<>> => OnlyFirst(Append(s, m))
<1>1. OnlyFirst(<<>>) /\ OnlyFirst(<<"HANDSHAKE">>)
  BY DEF OnlyFirst
<1>2. ASSUME NEW s \in Seq(Kinds), s # <<>>
      PROVE  /\ OnlyFirst(s) => Head(s) = "HANDSHAKE" /\ NoHandshake(Tail(s))
             /\ NoHandshake(s) => Head(s) # "HANDSHAKE" /\ NoHandshake(Tail(s))
  <2>1. Len(s) \in Nat /\ Len(s) >= 1 /\ Head(s) = s[1]
    BY <1>2, EmptySeq, LenProperties
  <2>2. Len(Tail(s)) = Len(s) - 1 /\ \A i \in 1 .. Len(s) - 1 : Tail(s)[i] = s[i + 1]
    BY <1>2, HeadTailProperties
  <2>3. \A i \in 1 .. Len(s) - 1 : i + 1 \in 1 .. Len(s) /\ i + 1 # 1
    BY <2>1
  <2>4. 1 \in 1 .. Len(s)
    BY <2>1
  <2> QED BY <2>1, <2>2, <2>3, <2>4 DEF OnlyFirst, NoHandshake
<1>3. ASSUME NEW s \in Seq(Kinds), NEW m \in Kinds \ {"HANDSHAKE"}
      PROVE  /\ NoHandshake(s) => NoHandshake(Append(s, m))
             /\ OnlyFirst(s) /\ s # <<>> => OnlyFirst(Append(s, m))
  <2>1. Len(s) \in Nat /\ (s # <<>> => Len(s) >= 1)
    BY EmptySeq, LenProperties
  <2>2. /\ Len(Append(s, m)) = Len(s) + 1 /\ Append(s, m)[Len(s) + 1] = m
        /\ \A i \in 1 .. Len(s) : Append(s, m)[i] = s[i]
    BY AppendProperties
  <2>3. \A i \in 1 .. Len(s) + 1 : i \in 1 .. Len(s) \/ i = Len(s) + 1
    BY <2>1
  <2> QED BY <2>1, <2>2, <2>3 DEF OnlyFirst, NoHandshake
<1> QED BY <1>1, <1>2, <1>3

(* What an end appends while the other one is not waiting for its handshake *)
(* or has it coming.                                                        *)
LEMMA AppendFirst ==
  ASSUME FirstInv, NEW p \in Ends, NEW m \in Kinds \ {"HANDSHAKE"},
         peer[p].was_connected, AllocMayFail = FALSE
  PROVE  /\ peer[Other(p)].state = "WAIT_HANDSHAKE" => OnlyFirst(Append(Stream(p), m))
         /\ peer[Other(p)].state = "CONNECTED" => NoHandshake(Append(Stream(p), m))
<1>1. Stream(p) \in Seq(Kinds)
  BY StreamOf DEF FirstInv, AgreeInv
<1>2. peer[Other(p)].state = "WAIT_HANDSHAKE" => Stream(p) # <<>>
  BY DEF FirstInv, AgreeInv, ConnectedAgreement, Ends, Other
<1> QED BY <1>1, <1>2, OnlyFirstFacts DEF FirstInv

LEMMA FirstStep ==
  ASSUME FirstInv, [Next]_vars, AllocMayFail = FALSE
  PROVE  FirstInv'
<1>0. "target" \in Ends /\ "controller" \in Ends /\ Other("controller") = "target"
      /\ Other("target") = "controller" /\ \A p \in Ends : p \in {"controller", "target"}
  BY DEF Ends, Other
<1>1. StreamStep
  BY StepCases DEF FirstInv, AgreeInv
<1>2. AgreeInv /\ AgreeInv'
  BY AgreeStep DEF FirstInv
<1>3. \A p \in Ends : Stream(p) \in Seq(Kinds)
  BY <1>2, StreamOf DEF AgreeInv
<1>4. CASE QuietStep
  <2>1. \A p \in Ends : /\ Stream(p)' = Stream(p) /\ SameHistory(peer[p], peer'[p])
                        /\ \/ peer'[p].state \in {"ERROR", "DISCONNECTED"}
                           \/ peer'[p].state = peer[p].state
    BY <1>4 DEF QuietStep, Holds
  <2>2. HandshakeComesFirst'
    BY <2>1 DEF FirstInv, HandshakeComesFirst, SameHistory
  <2>3. \A p \in Ends :
          /\ peer'[Other(p)].state = "WAIT_HANDSHAKE" => OnlyFirst(Stream(p)')
          /\ peer'[Other(p)].state = "CONNECTED" => NoHandshake(Stream(p)')
    BY <2>1, OtherEnd DEF FirstInv
  <2>4. peer'["target"].was_connected /\ peer'["controller"].state = "WAIT_HANDSHAKE" =>
          Stream("target")' # <<>>
    BY <1>0, <2>1 DEF FirstInv, SameHistory
  <2> QED BY <1>2, <2>2, <2>3, <2>4 DEF FirstInv, OnlyFirst, NoHandshake
<1>5. ASSUME NEW p \in Ends, NEW m \in Kinds, SendStep(p, m)
      PROVE  FirstInv'
  <2> DEFINE q == Other(p)
  <2>0. q \in Ends /\ q # p /\ Other(q) = p /\ \A r \in Ends : r = p \/ r = q
    BY OtherEnd
  <2>1. /\ Stream(p)' = Append(Stream(p), m) /\ Stream(q)' = Stream(q)
        /\ peer'[q] = peer[q] /\ peer[p].state = "CONNECTED" /\ peer'[p].state = "CONNECTED"
        /\ SameHistory(peer[p], peer'[p])
    BY <1>5 DEF SendStep
  <2>2. m \in Kinds \ {"HANDSHAKE"}
    BY <1>5 DEF SendStep, Plain
  <2>3. peer[p].was_connected
    BY <1>2, <2>1 DEF AgreeInv
  <2>4. /\ peer[q].state = "WAIT_HANDSHAKE" => OnlyFirst(Append(Stream(p), m))
        /\ peer[q].state = "CONNECTED" => NoHandshake(Append(Stream(p), m))
    BY <2>2, <2>3, AppendFirst
  <2>5. HandshakeComesFirst'
    BY <2>0, <2>1 DEF FirstInv, HandshakeComesFirst, SameHistory
  <2> HIDE DEF q
  <2>6. \A r \in Ends :
          /\ peer'[Other(r)].state = "WAIT_HANDSHAKE" => OnlyFirst(Stream(r)')
          /\ peer'[Other(r)].state = "CONNECTED" => NoHandshake(Stream(r)')
    <3>1. /\ peer'[Other(p)].state = "WAIT_HANDSHAKE" => OnlyFirst(Stream(p)')
          /\ peer'[Other(p)].state = "CONNECTED" => NoHandshake(Stream(p)')
      BY <2>1, <2>4 DEF q
    <3>2. /\ peer'[Other(q)].state = "WAIT_HANDSHAKE" => OnlyFirst(Stream(q)')
          /\ peer'[Other(q)].state = "CONNECTED" => NoHandshake(Stream(q)')
      BY <2>0, <2>1 DEF FirstInv
    <3> QED BY <2>0, <3>1, <3>2
  <2>7. peer'["target"].was_connected /\ peer'["controller"].state = "WAIT_HANDSHAKE" =>
          Stream("target")' # <<>>
    <3>1. CASE p = "target"
      <4>1. Append(Stream(p), m) # <<>>
        BY <1>3, AppendProperties, EmptySeq
      <4> QED BY <2>1, <3>1, <4>1
    <3>2. CASE p = "controller"
      BY <2>1, <3>2
    <3> QED BY <3>1, <3>2 DEF Ends
  <2> QED BY <1>2, <2>5, <2>6, <2>7 DEF FirstInv, OnlyFirst, NoHandshake
<1>6. ASSUME NEW p \in Ends, NEW sent \in Seq(Kinds), DeliverStep(p, sent)
      PROVE  FirstInv'
  <2> DEFINE q == Other(p)
             S == Stream(q)
             h == Head(S)
             e == peer[p]
             f == peer'[p]
  <2>0. q \in Ends /\ q # p /\ Other(q) = p /\ \A r \in Ends : r = p \/ r = q
    BY OtherEnd
  <2>1. /\ S # <<>> /\ Stream(q)' = Tail(S) /\ Stream(p)' = Stream(p) \o sent
        /\ peer'[q] = peer[q]
        /\ Shaken(e, f, h, sent) \/ Broken(e, f, h, sent) \/ Handled(e, f, h, sent)
    BY <1>6 DEF DeliverStep
  <2>2. S \in Seq(Kinds) /\ Stream(p) \in Seq(Kinds)
    BY <1>3, <2>0
  <2>3. /\ e.state = "WAIT_HANDSHAKE" => OnlyFirst(S)
        /\ e.state = "CONNECTED" => NoHandshake(S)
    BY <2>0 DEF FirstInv
  <2>4. e.state \in {"WAIT_HANDSHAKE", "CONNECTED"} => NoHandshake(Tail(S))
    BY <2>1, <2>2, <2>3, OnlyFirstFacts
  <2>5. e.state \in {"WAIT_HANDSHAKE", "CONNECTED"} => Expected(e, h)
    BY <2>1, <2>2, <2>3, OnlyFirstFacts DEF Expected
  <2>6. f.state # "WAIT_HANDSHAKE"
        /\ (f.state = "CONNECTED" => e.state \in {"WAIT_HANDSHAKE", "CONNECTED"})
    <3>1. CASE Shaken(e, f, h, sent)
      BY <3>1 DEF Shaken
    <3>2. CASE Broken(e, f, h, sent)
      BY <3>2 DEF Broken
    <3>3. CASE Handled(e, f, h, sent)
      BY <3>3 DEF Handled
    <3> QED BY <2>1, <3>1, <3>2, <3>3
  <2>7. Stream(p) \o <<>> = Stream(p) /\ \A m \in Kinds : Stream(p) \o <<m>> = Append(Stream(p), m)
    BY <2>2, ConcatEmptySeq, AppendIsConcat
  <2>8. p = "controller" => peer["target"].was_connected
    BY <1>0, <2>1 DEF FirstInv, AgreeInv
  <2> HIDE DEF q, S, h, e, f
  <2>9. /\ peer[q].state = "WAIT_HANDSHAKE" => OnlyFirst(Stream(p)')
        /\ peer[q].state = "CONNECTED" => NoHandshake(Stream(p)')
    <3>1. CASE sent = <<>>
      BY <2>1, <2>7, <3>1 DEF FirstInv, q
    <3>2. ASSUME NEW m \in Kinds \ {"HANDSHAKE"}, sent = <<m>>, f.was_connected = TRUE
          PROVE  /\ peer[q].state = "WAIT_HANDSHAKE" => OnlyFirst(Stream(p)')
                 /\ peer[q].state = "CONNECTED" => NoHandshake(Stream(p)')
      <4>0. Stream(p)' = Append(Stream(p), m)
        BY <2>1, <2>7, <3>2
      <4>1. CASE e.was_connected
        BY <4>0, <4>1, AppendFirst DEF q, e
      <4>2. CASE ~e.was_connected
        <5>1. Shaken(e, f, h, sent)
          BY <2>1, <3>2, <4>2 DEF Broken, Handled, SameHistory
        <5>2. p = "controller" /\ q = "target"
          <6>1. e.end = p
            BY <1>2 DEF AgreeInv, TypeInv, e
          <6>2. p # "target"
            BY <3>2, <5>1, <6>1 DEF Shaken
          <6> QED BY <1>0, <6>2 DEF q
        <5>3. peer[q].state # "WAIT_HANDSHAKE"
          BY <1>0, <1>2, <2>8, <5>2 DEF AgreeInv
        <5>4. peer[q].state = "CONNECTED" => NoHandshake(Stream(p))
          BY DEF FirstInv, q
        <5> QED BY <2>2, <3>2, <4>0, <5>3, <5>4, OnlyFirstFacts
      <4> QED BY <4>1, <4>2
    <3>3. CASE Shaken(e, f, h, sent)
      <4>1. CASE e.end = "target" /\ sent = <<"HANDSHAKE">>
        <5>1. p = "target" /\ q = "controller"
          BY <1>0, <1>2, <4>1 DEF AgreeInv, TypeInv, e, q
        <5>2. ~e.was_connected
          BY <1>2, <3>3 DEF Shaken, AgreeInv, e
        <5>3. Stream(p) = <<>> /\ peer[q].state # "CONNECTED"
          BY <1>0, <1>2, <5>1, <5>2 DEF AgreeInv, ConnectedAgreement, e
        <5>4. Stream(p)' = <<"HANDSHAKE">>
          <6>1. <<>> \o <<"HANDSHAKE">> = <<"HANDSHAKE">>
            OBVIOUS
          <6> QED BY <2>1, <4>1, <5>3, <6>1
        <5> QED BY <5>3, <5>4, OnlyFirstFacts
      <4>2. CASE sent = <<"LAUNCH_REQUEST">>
        <5>1. "LAUNCH_REQUEST" \in Kinds \ {"HANDSHAKE"}
          BY DEF Kinds
        <5>2. f.was_connected = TRUE
          BY <3>3 DEF Shaken
        <5> QED BY <3>2, <4>2, <5>1, <5>2
      <4> QED BY <3>1, <3>3, <4>1, <4>2 DEF Shaken
    <3>4. CASE Broken(e, f, h, sent)
      BY <3>1, <3>4 DEF Broken
    <3>5. CASE Handled(e, f, h, sent)
      <4>1. f.was_connected = TRUE
        <5>1. e.was_connected /\ e.was_connected \in BOOLEAN
          BY <1>2, <3>5 DEF Handled, AgreeInv, TypeInv, TypeOK, PeerType, e
        <5>2. f.was_connected = e.was_connected
          BY <3>5 DEF Handled, SameHistory
        <5> QED BY <5>1, <5>2
      <4>2. sent = <<>> \/ \E m \in Kinds \ {"HANDSHAKE"} : sent = <<m>>
        <5>1. "PING_ANSWER" \in Kinds \ {"HANDSHAKE"} /\ \A m \in Plain : m \in Kinds \ {"HANDSHAKE"}
          BY DEF Plain, Kinds
        <5>2. CASE h = "PING_REQUEST"
          BY <3>5, <5>1, <5>2 DEF Handled
        <5>3. CASE h = "PING_ANSWER"
          BY <3>5, <5>3 DEF Handled
        <5>4. CASE h # "PING_REQUEST" /\ h # "PING_ANSWER"
          BY <3>5, <5>1, <5>4 DEF Handled
        <5> QED BY <5>2, <5>3, <5>4
      <4> QED BY <3>1, <3>2, <4>1, <4>2
    <3> QED BY <2>1, <3>3, <3>4, <3>5
  <2>10. \A r \in Ends :
          /\ peer'[Other(r)].state = "WAIT_HANDSHAKE" => OnlyFirst(Stream(r)')
          /\ peer'[Other(r)].state = "CONNECTED" => NoHandshake(Stream(r)')
    <3>1. /\ peer'[Other(p)].state = "WAIT_HANDSHAKE" => OnlyFirst(Stream(p)')
          /\ peer'[Other(p)].state = "CONNECTED" => NoHandshake(Stream(p)')
      BY <2>1, <2>9 DEF q
    <3>2. /\ peer'[Other(q)].state = "WAIT_HANDSHAKE" => OnlyFirst(Stream(q)')
          /\ peer'[Other(q)].state = "CONNECTED" => NoHandshake(Stream(q)')
      BY <2>0, <2>1, <2>4, <2>6 DEF f
    <3> QED BY <2>0, <3>1, <3>2
  <2>11. HandshakeComesFirst'
    <3>1. /\ <<"WAIT_HANDSHAKE", "MESSAGE">> \notin e.stray
          /\ <<"CONNECTED", "HANDSHAKE">> \notin e.stray
          /\ <<"WAIT_HANDSHAKE", "MESSAGE">> \notin peer[q].stray
          /\ <<"CONNECTED", "HANDSHAKE">> \notin peer[q].stray
      BY <2>0 DEF FirstInv, HandshakeComesFirst, e
    <3>2. f.stray = e.stray \/ \E k \in {"HANDSHAKE", "MESSAGE"} :
             e.state \notin {"WAIT_HANDSHAKE", "CONNECTED"} /\ f.stray = e.stray \cup {<<e.state, k>>}
      <4>1. CASE Shaken(e, f, h, sent)
        BY <4>1 DEF Shaken
      <4>2. CASE Broken(e, f, h, sent)
        BY <4>2, <2>5 DEF Broken
      <4>3. CASE Handled(e, f, h, sent)
        BY <4>3 DEF Handled, SameHistory
      <4> QED BY <2>1, <4>1, <4>2, <4>3
    <3>3. /\ <<"WAIT_HANDSHAKE", "MESSAGE">> \notin f.stray
          /\ <<"CONNECTED", "HANDSHAKE">> \notin f.stray
      BY <3>1, <3>2
    <3> QED BY <2>0, <2>1, <3>1, <3>3 DEF HandshakeComesFirst, f
  <2>12. peer'["target"].was_connected /\ peer'["controller"].state = "WAIT_HANDSHAKE" =>
          Stream("target")' # <<>>
    <3>1. CASE p = "controller"
      BY <2>6, <3>1 DEF f
    <3>2. CASE p = "target"
      <4> SUFFICES ASSUME f.was_connected, peer[q].state = "WAIT_HANDSHAKE"
                   PROVE  Stream(p)' # <<>>
        BY <1>0, <2>1, <3>2 DEF q, f
      <4>1. CASE Shaken(e, f, h, sent)
        <5>1. e.end = "target"
          BY <1>2, <3>2 DEF AgreeInv, TypeInv, e
        <5>2. sent = <<"HANDSHAKE">>
          BY <4>1, <5>1 DEF Shaken
        <5>3. "HANDSHAKE" \in Kinds
          BY DEF Kinds
        <5>4. Stream(p)' = Append(Stream(p), "HANDSHAKE")
          BY <2>1, <2>7, <5>2, <5>3
        <5>5. Append(Stream(p), "HANDSHAKE") # <<>>
          BY <2>2, <5>3, AppendProperties, EmptySeq
        <5> QED BY <5>4, <5>5
      <4>2. CASE ~Shaken(e, f, h, sent)
        <5>1. e.was_connected
          BY <2>1, <4>2 DEF Broken, Handled, SameHistory
        <5>2. Stream(p) # <<>>
          BY <1>0, <3>2, <5>1 DEF FirstInv, e, q
        <5>3. Stream(p)' \in Seq(Kinds) /\ Len(Stream(p)') = Len(Stream(p)) + Len(sent)
          BY <2>1, <2>2, ConcatProperties
        <5>4. Len(Stream(p)) \in Nat /\ Len(sent) \in Nat /\ Len(Stream(p)) # 0
          BY <2>2, <5>2, EmptySeq, LenProperties
        <5> QED BY <5>3, <5>4, EmptySeq
      <4> QED BY <4>1, <4>2
    <3> QED BY <3>1, <3>2 DEF Ends
  <2> QED BY <1>2, <2>10, <2>11, <2>12 DEF FirstInv, OnlyFirst, NoHandshake
<1> QED BY <1>1, <1>4, <1>5, <1>6 DEF StreamStep

LEMMA FirstInit ==
  ASSUME Init
  PROVE  FirstInv
<1>1. /\ Stream("target") = <<>>
      /\ Stream("controller") = <<"HANDSHAKE">> \/ Stream("controller") = <<>>
      /\ \A p \in Ends : /\ ~peer[p].was_connected /\ peer[p].stray = {}
                         /\ peer[p].state \in {"WAIT_HANDSHAKE", "ERROR"}
  BY InitStreams
<1>2. "target" \in Ends /\ "controller" \in Ends /\ \A p \in Ends : Other(p) \in Ends
  BY DEF Ends, Other
<1>3. HandshakeComesFirst
  BY <1>1 DEF HandshakeComesFirst
<1>4. \A p \in Ends : OnlyFirst(Stream(p)) /\ peer[Other(p)].state # "CONNECTED"
  <2>1. OnlyFirst(Stream("target")) /\ OnlyFirst(Stream("controller"))
    BY <1>1, OnlyFirstFacts
  <2> QED BY <1>1, <1>2, <2>1 DEF Ends
<1> QED BY <1>1, <1>2, <1>3, <1>4, AgreeInit DEF FirstInv

(* Unless an allocation fails, no message reaches an end of src/peer.c in a *)
(* state that has no entry for it in state_actions because it overtook the  *)
(* handshake or because a second handshake followed.  (When the target      *)
(* cannot enqueue its handshake it becomes CONNECTED all the same, and its  *)
(* next message does arrive first: hence the hypothesis.)                   *)
THEOREM NothingOvertakesTheHandshake ==
  ASSUME AllocMayFail = FALSE
  PROVE  Spec => []HandshakeComesFirst
<1>1. Init => FirstInv
  BY FirstInit
<1>2. FirstInv /\ [Next]_vars => FirstInv'
  BY FirstStep
<1>3. FirstInv => HandshakeComesFirst
  BY DEF FirstInv
<1> QED BY <1>1, <1>2, <1>3, PTL DEF Spec


-----------------------------------------------------------------------------
(* Pings                                                                    *)

Places(kind, s) == {i \in 1 .. Len(s) : s[i] = kind}

LEMMA PlacesFinite ==
  \A kind \in Kinds : \A s \in Seq(Kinds) :
    /\ IsFiniteSet(Places(kind, s)) /\ Cardinality(Places(kind, s)) \in Nat
    /\ Count(kind, s) = Cardinality(Places(kind, s))
<1> SUFFICES ASSUME NEW kind \in Kinds, NEW s \in Seq(Kinds)
             PROVE  /\ IsFiniteSet(Places(kind, s)) /\ Cardinality(Places(kind, s)) \in Nat
                    /\ Count(kind, s) = Cardinality(Places(kind, s))
  OBVIOUS
<1>1. Len(s) \in Nat
  BY LenProperties
<1>2. IsFiniteSet(1 .. Len(s))
  BY <1>1, FS_Interval
<1>3. Places(kind, s) \in SUBSET (1 .. Len(s))
  BY DEF Places
<1>4. IsFiniteSet(Places(kind, s))
  BY <1>2, <1>3, FS_Subset
<1>5. Cardinality(Places(kind, s)) \in Nat
  BY <1>4, FS_CardinalityType
<1> QED BY <1>4, <1>5 DEF Count, Places

(* Messages of a kind in two queues, one after the other. *)
LEMMA CountConcat ==
  \A kind \in Kinds : \A s, t \in Seq(Kinds) :
    Count(kind, s \o t) = Count(kind, s) + Count(kind, t)
<1> SUFFICES ASSUME NEW kind \in Kinds, NEW s \in Seq(Kinds), NEW t \in Seq(Kinds)
             PROVE  Count(kind, s \o t) = Count(kind, s) + Count(kind, t)
  OBVIOUS
<1> DEFINE A == Places(kind, s)
           B == Places(kind, t)
           C == {i \in Len(s) + 1 .. Len(s) + Len(t) : t[i - Len(s)] = kind}
           shift == [i \in B |-> i + Len(s)]
<1>1. Len(s) \in Nat /\ Len(t) \in Nat
  BY LenProperties
<1>2. /\ s \o t \in Seq(Kinds) /\ Len(s \o t) = Len(s) + Len(t)
      /\ \A i \in 1 .. Len(s) + Len(t) :
           (s \o t)[i] = IF i <= Len(s) THEN s[i] ELSE t[i - Len(s)]
  BY ConcatProperties
<1>3. IsFiniteSet(A) /\ IsFiniteSet(B) /\ Cardinality(A) \in Nat /\ Cardinality(B) \in Nat
      /\ Count(kind, s) = Cardinality(A) /\ Count(kind, t) = Cardinality(B)
  BY PlacesFinite
<1>4. Count(kind, s \o t) = Cardinality(Places(kind, s \o t))
  BY <1>2, PlacesFinite
<1>5. Places(kind, s \o t) = A \cup C
  <2>1. ASSUME NEW i
        PROVE  i \in Places(kind, s \o t) <=> i \in A \cup C
    <3>1. CASE i \in 1 .. Len(s)
      <4>1. i \in 1 .. Len(s) + Len(t) /\ i <= Len(s) /\ i \notin Len(s) + 1 .. Len(s) + Len(t)
        BY <1>1, <3>1
      <4> QED BY <3>1, <4>1, <1>2 DEF Places
    <3>2. CASE i \in Len(s) + 1 .. Len(s) + Len(t)
      <4>1. i \in 1 .. Len(s) + Len(t) /\ ~(i <= Len(s)) /\ i \notin 1 .. Len(s)
        BY <1>1, <3>2
      <4> QED BY <3>2, <4>1, <1>2 DEF Places
    <3>3. CASE i \notin 1 .. Len(s) /\ i \notin Len(s) + 1 .. Len(s) + Len(t)
      <4>1. i \notin 1 .. Len(s) + Len(t)
        BY <1>1, <3>3
      <4> QED BY <3>3, <4>1, <1>2 DEF Places
    <3> QED BY <3>1, <3>2, <3>3
  <2> QED BY <2>1
<1>6. shift \in Bijection(B, C)
  <2>1. \A i \in B : i \in Nat /\ shift[i] = i + Len(s) /\ shift[i] \in C
    BY <1>1 DEF Places
  <2>2. \A i, j \in B : shift[i] = shift[j] => i = j
    BY <1>1, <2>1
  <2>3. \A c \in C : c - Len(s) \in B /\ shift[c - Len(s)] = c
    BY <1>1 DEF Places
  <2>4. shift \in [B -> C]
    BY <2>1
  <2> HIDE DEF shift, B, C
  <2>5. shift \in Injection(B, C)
    BY <2>2, <2>4 DEF Injection, IsInjective
  <2>6. shift \in Surjection(B, C)
    BY <2>3, <2>4 DEF Surjection
  <2> QED BY <2>5, <2>6 DEF Bijection
<1>7. IsFiniteSet(C) /\ Cardinality(C) = Cardinality(B)
  <2>1. ExistsBijection(B, C)
    BY <1>6 DEF ExistsBijection
  <2> HIDE DEF B, C
  <2> QED BY <1>3, <2>1, FS_Bijection
<1>8. A \cap C = {}
  BY <1>1 DEF Places
<1> HIDE DEF A, B, C
<1>9. Cardinality(A \cup C) = Cardinality(A) + Cardinality(C) - Cardinality(A \cap C)
  BY <1>3, <1>7, FS_Union
<1>10. Cardinality({}) = 0
  BY FS_EmptySet
<1>11. Cardinality(A \cup C) = Cardinality(A) + Cardinality(B)
  <2>1. Cardinality(A \cap C) = 0
    BY <1>8, <1>10
  <2>2. Cardinality(A) \in Nat /\ Cardinality(B) \in Nat /\ Cardinality(C) = Cardinality(B)
    BY <1>3, <1>7
  <2> QED BY <1>9, <2>1, <2>2
<1>12. Count(kind, s \o t) = Cardinality(A \cup C)
  BY <1>4, <1>5
<1>13. Count(kind, s) = Cardinality(A) /\ Count(kind, t) = Cardinality(B)
  BY <1>3
<1> QED BY <1>11, <1>12, <1>13

One(kind, m) == IF kind = m THEN 1 ELSE 0

LEMMA CountSingle ==
  \A kind, m \in Kinds : Count(kind, <<m>>) = One(kind, m)
<1> SUFFICES ASSUME NEW kind \in Kinds, NEW m \in Kinds
             PROVE  Count(kind, <<m>>) = One(kind, m)
  OBVIOUS
<1>1. Count(kind, <<m>>) = Cardinality(Places(kind, <<m>>))
  BY DEF Count, Places
<1>2. CASE kind = m
  <2>1. Places(kind, <<m>>) = {1}
    BY <1>2 DEF Places
  <2> QED BY <1>1, <1>2, <2>1, FS_Singleton DEF One
<1>3. CASE kind # m
  <2>1. Places(kind, <<m>>) = {}
    BY <1>3 DEF Places
  <2> QED BY <1>1, <1>3, <2>1, FS_EmptySet DEF One
<1> QED BY <1>2, <1>3

LEMMA CountFacts ==
  \A kind \in Kinds : \A s \in Seq(Kinds) :
    /\ Count(kind, s) \in Nat /\ Count(kind, <<>>) = 0
    /\ \A m \in Kinds : Count(kind, Append(s, m)) = Count(kind, s) + One(kind, m)
    /\ s # <<>> => Count(kind, s) = One(kind, Head(s)) + Count(kind, Tail(s))
<1> SUFFICES ASSUME NEW kind \in Kinds, NEW s \in Seq(Kinds)
             PROVE  /\ Count(kind, s) \in Nat /\ Count(kind, <<>>) = 0
                    /\ \A m \in Kinds : Count(kind, Append(s, m)) = Count(kind, s) + One(kind, m)
                    /\ s # <<>> => Count(kind, s) = One(kind, Head(s)) + Count(kind, Tail(s))
  OBVIOUS
<1>1. Count(kind, s) \in Nat
  BY PlacesFinite
<1>2. Count(kind, <<>>) = 0
  <2>1. Places(kind, <<>>) = {}
    BY DEF Places
  <2> QED BY <2>1, FS_EmptySet DEF Count, Places
<1>3. ASSUME NEW m \in Kinds
      PROVE  Count(kind, Append(s, m)) = Count(kind, s) + One(kind, m)
  <2>1. Append(s, m) = s \o <<m>> /\ <<m>> \in Seq(Kinds)
    BY AppendIsConcat
  <2>2. Count(kind, s \o <<m>>) = Count(kind, s) + Count(kind, <<m>>)
    BY <2>1, CountConcat
  <2> QED BY <2>1, <2>2, CountSingle
<1>4. ASSUME s # <<>>
      PROVE  Count(kind, s) = One(kind, Head(s)) + Count(kind, Tail(s))
  <2>1. Head(s) \in Kinds /\ Tail(s) \in Seq(Kinds) /\ <<Head(s)>> \in Seq(Kinds)
    BY <1>4, HeadTailProperties
  <2>2. s = <<Head(s)>> \o Tail(s)
    BY <1>4
  <2>3. Count(kind, <<Head(s)>> \o Tail(s)) = Count(kind, <<Head(s)>>) + Count(kind, Tail(s))
    BY <2>1, CountConcat
  <2>4. Count(kind, <<Head(s)>>) = One(kind, Head(s))
    BY <2>1, CountSingle
  <2> QED BY <2>2, <2>3, <2>4
<1> QED BY <1>1, <1>2, <1>3, <1>4


(* PingAccounting, said of the streams. *)
Working == \A p \in Ends : peer[p].state \in {"WAIT_HANDSHAKE", "CONNECTED"}

Pings(p) == Count("PING_REQUEST", Stream(p)) + Count("PING_ANSWER", Stream(Other(p)))

PingInv ==
  /\ TypeInv
  /\ Working => \A p \in Ends : Pings(p) = IF peer[p].ping_on_wire THEN 1 ELSE 0

LEMMA TransitIsStream ==
  ASSUME TypeInv, NEW kind \in Kinds, NEW p \in Ends
  PROVE  InTransit(kind, p) = Count(kind, Stream(p))
<1>1. inbuf[Other(p)] \in Seq(Kinds) /\ net[p] \in Seq(Kinds) /\ peer[p].outq \in Seq(Kinds)
  BY OtherEnd DEF TypeInv, TypeOK, PeerType
<1> DEFINE a == inbuf[Other(p)]
           b == net[p]
           c == peer[p].outq
<1>2. a \in Seq(Kinds) /\ b \in Seq(Kinds) /\ c \in Seq(Kinds)
  BY <1>1
<1>3. InTransit(kind, p) = Count(kind, c) + Count(kind, b) + Count(kind, a)
  BY DEF InTransit
<1>4. Stream(p) = (a \o b) \o c
  BY DEF Stream
<1> HIDE DEF a, b, c
<1>5. a \o b \in Seq(Kinds)
  BY <1>2, Associative
<1>6. Count(kind, (a \o b) \o c) = Count(kind, a \o b) + Count(kind, c)
  BY <1>2, <1>5, CountConcat
<1>7. Count(kind, a \o b) = Count(kind, a) + Count(kind, b)
  BY <1>2, CountConcat
<1>8. Count(kind, a) \in Nat /\ Count(kind, b) \in Nat /\ Count(kind, c) \in Nat
  BY <1>2, CountFacts
<1> QED BY <1>3, <1>4, <1>6, <1>7, <1>8

LEMMA PingStep ==
  ASSUME PingInv, [Next]_vars
  PROVE  PingInv'
<1>0. "PING_REQUEST" \in Kinds /\ "PING_ANSWER" \in Kinds
  BY DEF Kinds
<1>1. TypeInv /\ TypeInv' /\ StreamStep
  BY StepCases DEF PingInv
<1>2. \A p \in Ends : Stream(p) \in Seq(Kinds) /\ peer[p].ping_on_wire \in BOOLEAN
  BY <1>1, StreamOf DEF TypeInv, TypeOK, PeerType
<1> DEFINE R(p) == Count("PING_REQUEST", Stream(p))
           A(p) == Count("PING_ANSWER", Stream(p))
<1>3. \A p \in Ends : R(p) \in Nat /\ A(p) \in Nat
  BY <1>0, <1>2, CountFacts
<1>4. Working => \A p \in Ends : R(p) + A(Other(p)) = IF peer[p].ping_on_wire THEN 1 ELSE 0
  BY DEF PingInv, Pings
<1>5. ASSUME Working' => \A p \in Ends :
        R(p)' + A(Other(p))' = IF peer'[p].ping_on_wire THEN 1 ELSE 0
      PROVE  PingInv'
  BY <1>1, <1>5 DEF PingInv, Pings
<1>6. CASE QuietStep
  <2>1. Working' => Working /\ \A p \in Ends : peer'[p].ping_on_wire = peer[p].ping_on_wire
    BY <1>6 DEF QuietStep, Holds, Working
  <2>2. \A p \in Ends : Stream(p)' = Stream(p)
    BY <1>6 DEF QuietStep
  <2>3. \A p \in Ends : R(p)' = R(p) /\ A(p)' = A(p)
    BY <2>2 DEF Count
  <2>4. \A p \in Ends : R(p)' = R(p) /\ A(Other(p))' = A(Other(p))
    BY <2>3, OtherEnd
  <2> HIDE DEF R, A
  <2> QED BY <1>4, <1>5, <2>1, <2>4
<1>7. ASSUME NEW p \in Ends, NEW m \in Kinds, SendStep(p, m)
      PROVE  PingInv'
  <2> DEFINE q == Other(p)
  <2>0. q \in Ends /\ q # p /\ Other(q) = p /\ \A r \in Ends : r = p \/ r = q
    BY OtherEnd
  <2>1. /\ Stream(p)' = Append(Stream(p), m) /\ Stream(q)' = Stream(q)
        /\ peer'[q] = peer[q] /\ peer[p].state = "CONNECTED"
        /\ \/ m \in Plain /\ peer'[p].ping_on_wire = peer[p].ping_on_wire
           \/ m = "PING_REQUEST"
              /\ peer[p].ping_on_wire = FALSE /\ peer'[p].ping_on_wire = TRUE
    BY <1>7 DEF SendStep
  <2>2. Working' => Working
    BY <2>0, <2>1 DEF Working
  <2>3. /\ R(p)' = R(p) + One("PING_REQUEST", m) /\ A(p)' = A(p) + One("PING_ANSWER", m)
        /\ R(q)' = R(q) /\ A(q)' = A(q)
    <3>1. /\ Count("PING_REQUEST", Append(Stream(p), m)) = R(p) + One("PING_REQUEST", m)
          /\ Count("PING_ANSWER", Append(Stream(p), m)) = A(p) + One("PING_ANSWER", m)
      BY <1>0, <1>2, CountFacts
    <3>2. /\ R(p)' = Count("PING_REQUEST", Append(Stream(p), m))
          /\ A(p)' = Count("PING_ANSWER", Append(Stream(p), m))
          /\ R(q)' = R(q) /\ A(q)' = A(q)
      BY <2>1 DEF Count
    <3> QED BY <3>1, <3>2
  <2>4. One("PING_ANSWER", m) = 0 /\ (m \in Plain => One("PING_REQUEST", m) = 0)
        /\ (m = "PING_REQUEST" => One("PING_REQUEST", m) = 1)
    BY <2>1 DEF One, Plain
  <2> HIDE DEF R, A, q
  <2>5. R(p) \in Nat /\ A(p) \in Nat /\ R(q) \in Nat /\ A(q) \in Nat
    BY <1>3, <2>0
  <2>6. ASSUME Working
        PROVE  /\ R(p)' + A(q)' = IF peer'[p].ping_on_wire THEN 1 ELSE 0
               /\ R(q)' + A(p)' = IF peer'[q].ping_on_wire THEN 1 ELSE 0
    <3>1. R(p) + A(q) = IF peer[p].ping_on_wire THEN 1 ELSE 0
      BY <1>4, <2>6 DEF q
    <3>2. R(q) + A(p) = IF peer[q].ping_on_wire THEN 1 ELSE 0
      BY <1>4, <2>0, <2>6
    <3>3. R(q)' + A(p)' = IF peer'[q].ping_on_wire THEN 1 ELSE 0
      BY <2>1, <2>3, <2>4, <2>5, <3>2
    <3>4. CASE m \in Plain /\ peer'[p].ping_on_wire = peer[p].ping_on_wire
      <4>1. R(p)' = R(p) /\ A(q)' = A(q)
        BY <2>3, <2>4, <2>5, <3>4
      <4> QED BY <3>1, <3>3, <3>4, <4>1
    <3>5. CASE m = "PING_REQUEST" /\ peer[p].ping_on_wire = FALSE /\ peer'[p].ping_on_wire = TRUE
      <4>1. R(p)' = R(p) + 1 /\ A(q)' = A(q) /\ R(p) + A(q) = 0
        BY <2>3, <2>4, <2>5, <3>1, <3>5
      <4>2. R(p)' + A(q)' = 1
        BY <4>1, <2>5
      <4> QED BY <3>3, <3>5, <4>2
    <3> QED BY <2>1, <3>4, <3>5
  <2>7. Working' => \A r \in Ends :
          R(r)' + A(Other(r))' = IF peer'[r].ping_on_wire THEN 1 ELSE 0
    BY <2>0, <2>2, <2>6 DEF q
  <2> QED BY <1>5, <2>7 DEF R, A
<1>8. ASSUME NEW p \in Ends, NEW sent \in Seq(Kinds), DeliverStep(p, sent)
      PROVE  PingInv'
  <2> DEFINE q == Other(p)
             S == Stream(q)
             h == Head(S)
             e == peer[p]
             f == peer'[p]
  <2>0. q \in Ends /\ q # p /\ Other(q) = p /\ \A r \in Ends : r = p \/ r = q
    BY OtherEnd
  <2>1. /\ S # <<>> /\ Stream(q)' = Tail(S) /\ Stream(p)' = Stream(p) \o sent
        /\ peer'[q] = peer[q]
        /\ Shaken(e, f, h, sent) \/ Broken(e, f, h, sent) \/ Handled(e, f, h, sent)
    BY <1>8 DEF DeliverStep
  <2>2. S \in Seq(Kinds) /\ Stream(p) \in Seq(Kinds) /\ h \in Kinds
    BY <1>2, <2>0, <2>1, HeadTailProperties
  <2>3. /\ R(q) = One("PING_REQUEST", h) + R(q)'
        /\ A(q) = One("PING_ANSWER", h) + A(q)'
    <3>1. /\ R(q) = One("PING_REQUEST", h) + Count("PING_REQUEST", Tail(S))
          /\ A(q) = One("PING_ANSWER", h) + Count("PING_ANSWER", Tail(S))
      BY <1>0, <2>1, <2>2, CountFacts
    <3>2. R(q)' = Count("PING_REQUEST", Tail(S)) /\ A(q)' = Count("PING_ANSWER", Tail(S))
      BY <2>1 DEF Count
    <3> QED BY <3>1, <3>2
  <2>4. /\ R(p)' = R(p) + Count("PING_REQUEST", sent)
        /\ A(p)' = A(p) + Count("PING_ANSWER", sent)
    <3>1. /\ Count("PING_REQUEST", Stream(p) \o sent) = R(p) + Count("PING_REQUEST", sent)
          /\ Count("PING_ANSWER", Stream(p) \o sent) = A(p) + Count("PING_ANSWER", sent)
      BY <1>0, <2>2, CountConcat
    <3>2. R(p)' = Count("PING_REQUEST", Stream(p) \o sent)
          /\ A(p)' = Count("PING_ANSWER", Stream(p) \o sent)
      BY <2>1 DEF Count
    <3> QED BY <3>1, <3>2
  <2>5. /\ R(q)' \in Nat /\ A(q)' \in Nat
    <3>1. Tail(S) \in Seq(Kinds)
      BY <2>1, <2>2, HeadTailProperties
    <3>2. Count("PING_REQUEST", Tail(S)) \in Nat /\ Count("PING_ANSWER", Tail(S)) \in Nat
      BY <1>0, <3>1, CountFacts
    <3>3. R(q)' = Count("PING_REQUEST", Tail(S)) /\ A(q)' = Count("PING_ANSWER", Tail(S))
      BY <2>1 DEF Count
    <3> QED BY <3>2, <3>3
  <2> HIDE DEF R, A, q, S, h, e, f
  <2>6. R(p) \in Nat /\ A(p) \in Nat /\ R(q) \in Nat /\ A(q) \in Nat
    BY <1>3, <2>0
  <2>7. Working' => Working /\ f.state # "ERROR"
    <3>1. f.state = "CONNECTED" => e.state \in {"WAIT_HANDSHAKE", "CONNECTED"}
      BY <2>1 DEF Shaken, Broken, Handled
    <3>2. f.state \in {"CONNECTED", "ERROR"}
      BY <2>1 DEF Shaken, Broken, Handled
    <3> QED BY <2>0, <2>1, <3>1, <3>2 DEF Working, e, f
  <2>8. ASSUME Working, f.state # "ERROR"
        PROVE  /\ R(p)' + A(q)' = IF f.ping_on_wire THEN 1 ELSE 0
               /\ R(q)' + A(p)' = IF peer[q].ping_on_wire THEN 1 ELSE 0
    <3>1. R(p) + A(q) = IF e.ping_on_wire THEN 1 ELSE 0
      BY <1>4, <2>8 DEF q, e
    <3>2. R(q) + A(p) = IF peer[q].ping_on_wire THEN 1 ELSE 0
      BY <1>4, <2>0, <2>8
    <3> DEFINE r == Count("PING_REQUEST", sent)
               a == Count("PING_ANSWER", sent)
    <3>4. \/ /\ r = 0 /\ a = 0 /\ f.ping_on_wire = e.ping_on_wire
             /\ One("PING_REQUEST", h) = 0 /\ One("PING_ANSWER", h) = 0
          \/ /\ r = 0 /\ a = 1 /\ f.ping_on_wire = e.ping_on_wire
             /\ One("PING_REQUEST", h) = 1 /\ One("PING_ANSWER", h) = 0
          \/ /\ r = 0 /\ a = 0 /\ f.ping_on_wire = FALSE
             /\ One("PING_REQUEST", h) = 0 /\ One("PING_ANSWER", h) = 1
      <4>0. /\ Count("PING_REQUEST", <<>>) = 0 /\ Count("PING_ANSWER", <<>>) = 0
            /\ \A m \in Kinds : /\ Count("PING_REQUEST", <<m>>) = One("PING_REQUEST", m)
                                /\ Count("PING_ANSWER", <<m>>) = One("PING_ANSWER", m)
        BY <1>0, <2>2, CountFacts, CountSingle
      <4>1. CASE Shaken(e, f, h, sent)
        <5>1. sent = <<>> \/ sent = <<"HANDSHAKE">> \/ sent = <<"LAUNCH_REQUEST">>
          BY <4>1 DEF Shaken
        <5>2. "HANDSHAKE" \in Kinds /\ "LAUNCH_REQUEST" \in Kinds
          BY DEF Kinds
        <5>3. r = 0 /\ a = 0
          BY <4>0, <5>1, <5>2 DEF One
        <5> QED BY <4>1, <5>3 DEF Shaken, One
      <4>2. CASE Handled(e, f, h, sent)
        <5>1. CASE h = "PING_REQUEST"
          <6>1. sent = <<"PING_ANSWER">> /\ f.ping_on_wire = e.ping_on_wire
            BY <4>2, <5>1 DEF Handled
          <6>2. r = 0 /\ a = 1
            BY <1>0, <4>0, <6>1 DEF One
          <6> QED BY <5>1, <6>1, <6>2 DEF One
        <5>2. CASE h = "PING_ANSWER"
          <6>1. sent = <<>> /\ f.ping_on_wire = FALSE
            BY <4>2, <5>2 DEF Handled
          <6>2. r = 0 /\ a = 0
            BY <4>0, <6>1
          <6> QED BY <5>2, <6>1, <6>2 DEF One
        <5>3. CASE h # "PING_REQUEST" /\ h # "PING_ANSWER"
          <6>1. f.ping_on_wire = e.ping_on_wire /\ (sent = <<>> \/ \E m \in Plain : sent = <<m>>)
            BY <4>2, <5>3 DEF Handled
          <6>2. r = 0 /\ a = 0
            BY <4>0, <6>1 DEF One, Plain
          <6> QED BY <5>3, <6>1, <6>2 DEF One
        <5> QED BY <5>1, <5>2, <5>3
      <4>3. ~Broken(e, f, h, sent)
        BY <2>8 DEF Broken
      <4> QED BY <2>1, <4>1, <4>2, <4>3
    <3>3. e.ping_on_wire \in BOOLEAN
      BY <1>2 DEF e
    <3> DEFINE v == IF e.ping_on_wire THEN 1 ELSE 0
               w == IF peer[q].ping_on_wire THEN 1 ELSE 0
    <3>5. v \in {0, 1} /\ w \in {0, 1}
      OBVIOUS
    <3> HIDE DEF r, a, v, w
    <3>6. R(p) + A(q) = v /\ R(q) + A(p) = w
      BY <3>1, <3>2 DEF v, w
    <3>7. R(p)' = R(p) + r /\ A(p)' = A(p) + a
      BY <2>4 DEF r, a
    <3>8. CASE r = 0 /\ a = 0 /\ One("PING_REQUEST", h) = 0 /\ One("PING_ANSWER", h) = 0
               /\ f.ping_on_wire = e.ping_on_wire
      <4>1. R(p)' = R(p) /\ A(q)' = A(q) /\ R(q)' = R(q) /\ A(p)' = A(p)
        BY <2>3, <2>5, <2>6, <3>7, <3>8
      <4> QED BY <3>1, <3>2, <3>8, <4>1
    <3>9. CASE r = 0 /\ a = 1 /\ One("PING_REQUEST", h) = 1 /\ One("PING_ANSWER", h) = 0
               /\ f.ping_on_wire = e.ping_on_wire
      <4>1. R(p)' = R(p) /\ A(q)' = A(q) /\ R(q)' = R(q) - 1 /\ A(p)' = A(p) + 1
        BY <2>3, <2>5, <2>6, <3>7, <3>9
      <4>2. R(q)' + A(p)' = R(q) + A(p)
        BY <2>6, <4>1
      <4> QED BY <3>1, <3>2, <3>9, <4>1, <4>2
    <3>10. CASE r = 0 /\ a = 0 /\ One("PING_REQUEST", h) = 0 /\ One("PING_ANSWER", h) = 1
                /\ f.ping_on_wire = FALSE
      <4>1. R(p)' = R(p) /\ A(q)' = A(q) - 1 /\ R(q)' = R(q) /\ A(p)' = A(p)
        BY <2>3, <2>5, <2>6, <3>7, <3>10
      <4>2. R(p)' + A(q)' = 0
        BY <2>5, <2>6, <3>5, <3>6, <4>1
      <4> QED BY <3>2, <3>10, <4>1, <4>2
    <3> QED BY <3>4, <3>8, <3>9, <3>10
  <2>9. Working' => \A r \in Ends :
          R(r)' + A(Other(r))' = IF peer'[r].ping_on_wire THEN 1 ELSE 0
    <3>1. Working' => /\ R(p)' + A(q)' = IF peer'[p].ping_on_wire THEN 1 ELSE 0
                      /\ R(q)' + A(p)' = IF peer'[q].ping_on_wire THEN 1 ELSE 0
      BY <2>1, <2>7, <2>8 DEF f
    <3> QED BY <2>0, <3>1 DEF q
  <2> QED BY <1>5, <2>9 DEF R, A
<1> QED BY <1>1, <1>6, <1>7, <1>8 DEF StreamStep

LEMMA PingInit ==
  ASSUME Init
  PROVE  PingInv
<1>0. "PING_REQUEST" \in Kinds /\ "PING_ANSWER" \in Kinds /\ "HANDSHAKE" \in Kinds
  BY DEF Kinds
<1>1. /\ TypeInv /\ Stream("target") = <<>>
      /\ Stream("controller") = <<"HANDSHAKE">> \/ Stream("controller") = <<>>
      /\ \A p \in Ends : peer[p].ping_on_wire = FALSE
  BY InitStreams
<1>2. /\ Count("PING_REQUEST", <<>>) = 0 /\ Count("PING_ANSWER", <<>>) = 0
      /\ Count("PING_REQUEST", <<"HANDSHAKE">>) = 0 /\ Count("PING_ANSWER", <<"HANDSHAKE">>) = 0
  BY <1>0, CountFacts, CountSingle, EmptySeq DEF One
<1>3. \A p \in Ends : Count("PING_REQUEST", Stream(p)) = 0 /\ Count("PING_ANSWER", Stream(p)) = 0
  BY <1>1, <1>2 DEF Ends
<1>4. \A p \in Ends : Pings(p) = 0
  BY <1>3, OtherEnd DEF Pings
<1> QED BY <1>1, <1>4 DEF PingInv

(* ping_on_wire tells the truth at both ends of src/peer.c as long as both  *)
(* work: it is set exactly when one ping of that end or its answer is on    *)
(* its way, with any timeouts, delays and any use of the connection.        *)
THEOREM OnePingAtATime == Spec => []PingAccounting
<1>1. Init => PingInv
  BY PingInit
<1>2. PingInv /\ [Next]_vars => PingInv'
  BY PingStep
<1>3. PingInv => PingAccounting
  <2> SUFFICES ASSUME PingInv, Working, NEW p \in Ends
               PROVE  InTransit("PING_REQUEST", p) + InTransit("PING_ANSWER", Other(p))
                        = IF peer[p].ping_on_wire THEN 1 ELSE 0
    BY DEF PingAccounting, Working
  <2>1. "PING_REQUEST" \in Kinds /\ "PING_ANSWER" \in Kinds /\ Other(p) \in Ends
    BY OtherEnd DEF Kinds
  <2>2. /\ InTransit("PING_REQUEST", p) = Count("PING_REQUEST", Stream(p))
        /\ InTransit("PING_ANSWER", Other(p)) = Count("PING_ANSWER", Stream(Other(p)))
    BY <2>1, TransitIsStream DEF PingInv
  <2>3. Pings(p) = IF peer[p].ping_on_wire THEN 1 ELSE 0
    BY DEF PingInv
  <2> QED BY <2>2, <2>3 DEF Pings
<1> QED BY <1>1, <1>2, <1>3, PTL DEF Spec


-----------------------------------------------------------------------------
(* Time: ages, ticks and the turns of the two loops                         *)

(* threshold, of an end whose record carries its name. *)
Limit(p) == IF p = "target" THEN RL_PING_TIMEOUT ELSE RL_PING_TIMEOUT + 1

(* The age and the verdict of the timer survive what a handler does. *)
SameAge(e, f) == f.age = e.age /\ f.timed_out = e.timed_out

LEMMA TransmitAge ==
  ASSUME NEW e \in PeerType, NEW m, NEW ok \in BOOLEAN
  PROVE  SameAge(e, on_transmit_message(e, m, ok))
BY DEF on_transmit_message, enqueue_output_message, Failed, PeerType, SameAge

LEMMA ReactAge ==
  ASSUME NEW e \in PeerType, NEW kind, NEW ok \in BOOLEAN, NEW good \in BOOLEAN
  PROVE  LET r == controller_on_message(e, kind, ok)
             s == target_on_message(e, kind, ok, good)
         IN  /\ SameAge(e, IF r[2] = 0 THEN r[1] ELSE Failed(r[1]))
             /\ SameAge(e, IF s[2] = 0 THEN s[1] ELSE Failed(s[1]))
<1> DEFINE r == controller_on_message(e, kind, ok)
           s == target_on_message(e, kind, ok, good)
<1>1. \A m : SameAge(e, on_transmit_message(e, m, ok))
  BY TransmitAge
<1>2. SameAge(e, e) /\ SameAge(e, Failed(e)) /\ SameAge(e, [e EXCEPT !.ctl = "ERROR"])
      /\ SameAge(e, [e EXCEPT !.ctl = "FILE_SERVING"])
  BY DEF SameAge, Failed, PeerType
<1>3. \/ r = <<[e EXCEPT !.ctl = "ERROR"], 0>> \/ r = <<[e EXCEPT !.ctl = "FILE_SERVING"], 0>>
      \/ r = <<e, 1>> \/ \E m : r = <<on_transmit_message(e, m, ok), 0>>
  BY Zenon DEF controller_on_message
<1>4. s = <<e, 0>> \/ s = <<e, 1>> \/ \E m : s = <<on_transmit_message(e, m, ok), 0>>
  <2>1. CASE kind = "LAUNCH_REQUEST"
    BY <2>1 DEF target_on_message
  <2>2. CASE kind # "LAUNCH_REQUEST"
    BY <2>2 DEF target_on_message
  <2> QED BY <2>1, <2>2
<1> HIDE DEF r, s
<1>5. SameAge(e, IF r[2] = 0 THEN r[1] ELSE Failed(r[1]))
  BY <1>1, <1>2, <1>3
<1>6. SameAge(e, IF s[2] = 0 THEN s[1] ELSE Failed(s[1]))
  BY <1>1, <1>2, <1>4
<1> QED BY <1>5, <1>6 DEF r, s

(* Only a message to a connected end counts as a sign of life. *)
LEMMA DeliverAge ==
  ASSUME NEW e \in PeerType, NEW h \in Kinds, NEW ok \in BOOLEAN, NEW good \in BOOLEAN
  PROVE  LET f == peer_deliver_incoming(e, h, ok, good)
         IN  /\ f.timed_out = e.timed_out
             /\ f.age = IF e.state = "CONNECTED" /\ h # "HANDSHAKE" THEN 0 ELSE e.age
<1> DEFINE f == peer_deliver_incoming(e, h, ok, good)
           g == Touch(e)
<1>1. CASE e.state = "CONNECTED" /\ h # "HANDSHAKE"
  <2>1. f = on_receive_message(e, h, ok, good)
    BY <1>1 DEF peer_deliver_incoming
  <2>2. g \in PeerType /\ g.age = 0 /\ g.timed_out = e.timed_out
    <3>1. 0 \in 0 .. MaxAge
      BY PeerAssumption DEF MaxAge
    <3> QED BY <3>1 DEF Touch, PeerType
  <2>3. SameAge(g, f)
    <3>1. CASE h = "PING_REQUEST"
      <4>1. f = on_transmit_message(g, "PING_ANSWER", ok)
        BY <2>1, <3>1 DEF on_receive_message
      <4> HIDE DEF f, g
      <4> QED BY <2>2, <4>1, TransmitAge
    <3>2. CASE h = "PING_ANSWER"
      <4>1. f = [g EXCEPT !.ping_on_wire = FALSE]
        BY <2>1, <3>2 DEF on_receive_message
      <4> HIDE DEF f, g
      <4> QED BY <2>2, <4>1 DEF SameAge, PeerType
    <3>3. CASE h # "PING_REQUEST" /\ h # "PING_ANSWER"
      <4> DEFINE r == controller_on_message(g, h, ok)
                 s == target_on_message(g, h, ok, good)
      <4>1. \/ f = IF r[2] = 0 THEN r[1] ELSE Failed(r[1])
            \/ f = IF s[2] = 0 THEN s[1] ELSE Failed(s[1])
        BY <2>1, <3>3 DEF on_receive_message
      <4>2. /\ SameAge(g, IF r[2] = 0 THEN r[1] ELSE Failed(r[1]))
            /\ SameAge(g, IF s[2] = 0 THEN s[1] ELSE Failed(s[1]))
        <5>1. g \in PeerType
          BY <2>2
        <5> HIDE DEF g
        <5> QED BY <5>1, ReactAge
      <4> HIDE DEF f, g, r, s
      <4> QED BY <4>1, <4>2
    <3> QED BY <3>1, <3>2, <3>3
  <2> HIDE DEF f, g
  <2> QED BY <1>1, <2>2, <2>3 DEF SameAge, f
<1>2. CASE h = "HANDSHAKE" /\ e.state = "WAIT_HANDSHAKE"
  <2>1. f = on_receive_handshake(e, ok)
    BY <1>2 DEF peer_deliver_incoming
  <2>2. SameAge(e, f)
    <3>1. CASE ~SameVersion(e)
      BY <2>1, <3>1 DEF on_receive_handshake, Failed, SameAge, PeerType
    <3>2. CASE SameVersion(e)
      <4> DEFINE a == IF e.end = "target" THEN on_transmit_handshake(e, ok) ELSE e
                 b == [a EXCEPT !.state = "CONNECTED", !.was_connected = TRUE]
      <4>1. f = on_connected(b, ok)
        BY <2>1, <3>2 DEF on_receive_handshake, enter_connected
      <4>2. a \in PeerType /\ SameAge(e, a)
        <5>1. Append(e.outq, "HANDSHAKE") \in Seq(Kinds)
          BY AppendType DEF PeerType, Kinds
        <5> QED BY <5>1 DEF on_transmit_handshake, enqueue_output_message, Failed, PeerType,
                            SameAge, States
      <4> HIDE DEF a, f
      <4>3. b \in PeerType /\ SameAge(e, b)
        BY <4>2 DEF PeerType, SameAge, States
      <4> HIDE DEF b
      <4>4. "LAUNCH_REQUEST" \in Kinds
        BY DEF Kinds
      <4> DEFINE t == on_transmit_message(b, "LAUNCH_REQUEST", ok)
      <4>5. SameAge(b, t) /\ t \in PeerType
        BY <4>3, <4>4, TransmitAge, TransmitMessage
      <4>6. f = b \/ f = [t EXCEPT !.ctl = "WAIT_EXECUTABLE_LAUNCHED"]
        BY <4>1 DEF on_connected
      <4> HIDE DEF t
      <4> QED BY <4>3, <4>5, <4>6 DEF SameAge, PeerType
    <3> QED BY <3>1, <3>2
  <2> HIDE DEF f
  <2> QED BY <1>2, <2>2 DEF SameAge, f
<1>3. CASE ~(e.state = "CONNECTED" /\ h # "HANDSHAKE")
           /\ ~(h = "HANDSHAKE" /\ e.state = "WAIT_HANDSHAKE")
  <2>1. PICK y : f = [Failed(e) EXCEPT !.stray = y]
    BY <1>3 DEF peer_deliver_incoming
  <2> HIDE DEF f
  <2>2. SameAge(e, f)
    BY <2>1 DEF Failed, PeerType, SameAge
  <2> QED BY <1>3, <2>2 DEF SameAge, f
<1> QED BY <1>1, <1>2, <1>3

(* The timer gives up an end only where a ping has been out too long, and   *)
(* leaves none without a ping that is past its limit.                       *)
LEMMA UpdateAge ==
  ASSUME NEW e \in PeerType, NEW ok \in BOOLEAN
  PROVE  LET f == on_update_connected(e, ok)
         IN  /\ f.age = e.age
             /\ \/ f.timed_out = e.timed_out
                \/ /\ e.state = "CONNECTED" /\ e.ping_on_wire = TRUE
                   /\ e.age > 2 * threshold(e)
             /\ f.state = "CONNECTED" /\ f.ping_on_wire = FALSE => ~(e.age > threshold(e))
<1> DEFINE f == on_update_connected(e, ok)
           t == on_transmit_message(e, "PING_REQUEST", ok)
           Sends == e.state = "CONNECTED" /\ e.age > threshold(e) /\ ~e.ping_on_wire
           Dies == e.state = "CONNECTED" /\ e.ping_on_wire /\ e.age > 2 * threshold(e)
<1>0. e.ping_on_wire = TRUE \/ e.ping_on_wire = FALSE
  BY DEF PeerType
<1>1. CASE Sends
  <2>1. f = [t EXCEPT !.ping_on_wire = TRUE]
    BY <1>1 DEF on_update_connected
  <2>2. SameAge(e, t) /\ t \in PeerType
    BY TransmitAge, TransmitMessage DEF Kinds
  <2> HIDE DEF f, t
  <2>3. SameAge(e, f) /\ f.ping_on_wire = TRUE
    BY <2>1, <2>2 DEF SameAge, PeerType
  <2> QED BY <2>3 DEF SameAge, f
<1>2. CASE ~Sends /\ Dies
  <2>1. f = [e EXCEPT !.state = "ERROR", !.timed_out = TRUE]
    BY <1>2 DEF on_update_connected, Failed, PeerType
  <2> HIDE DEF f
  <2>2. f.age = e.age /\ f.state = "ERROR"
    BY <2>1 DEF PeerType
  <2> QED BY <1>0, <1>2, <2>2 DEF f
<1>3. CASE ~Sends /\ ~Dies
  <2>1. f = e
    BY <1>3 DEF on_update_connected
  <2> HIDE DEF f
  <2> QED BY <1>0, <1>3, <2>1 DEF f
<1> QED BY <1>1, <1>2, <1>3

LEMMA DisconnectAge ==
  ASSUME NEW e \in PeerType
  PROVE  SameAge(e, on_disconnect(e))
BY DEF on_disconnect, Failed, PeerType, SameAge

-----------------------------------------------------------------------------
(* The steps, for loops that read and write all there is                    *)

Down(e) == e.state \in {"ERROR", "DISCONNECTED"}

LEMMA Fields ==
  ASSUME TypeInv, NEW p \in Ends
  PROVE  /\ peer[p] \in PeerType /\ peer[p].end = p
         /\ peer[p].outq \in Seq(Kinds) /\ net[p] \in Seq(Kinds) /\ inbuf[p] \in Seq(Kinds)
         /\ peer[p].age \in Nat /\ peer[p].ping_on_wire \in BOOLEAN
         /\ peer[p].state \in States
         /\ pc[p] \in {"idle", "update", "gone"}
         /\ status[p] \in {"ok", "error", "disconnected"}
         /\ threshold(peer[p]) = Limit(p) /\ Limit(p) \in Nat
<1>1. peer[p] \in PeerType /\ peer[p].end = p
  BY DEF TypeInv, TypeOK
<1>2. net[p] \in Seq(Kinds) /\ inbuf[p] \in Seq(Kinds) /\ pc[p] \in {"idle", "update", "gone"}
      /\ status[p] \in {"ok", "error", "disconnected"}
  BY DEF TypeInv, TypeOK
<1>3. peer[p].outq \in Seq(Kinds) /\ peer[p].age \in 0 .. MaxAge
      /\ peer[p].ping_on_wire \in BOOLEAN /\ peer[p].state \in States
  BY <1>1 DEF PeerType
<1>4. peer[p].age \in Nat
  BY <1>3
<1>5. threshold(peer[p]) = Limit(p) /\ Limit(p) \in Nat
  BY <1>1, PeerAssumption DEF threshold, Limit
<1> QED BY <1>1, <1>2, <1>3, <1>4, <1>5

LEMMA WholeQueue ==
  ASSUME NEW s \in Seq(Kinds)
  PROVE  /\ Take(s, Len(s)) = s /\ Drop(s, Len(s)) = <<>>
         /\ Take(s, 0) = <<>> /\ Drop(s, 0) = s
         /\ Prompt = TRUE => Portion(s) = {Len(s)}
         /\ s \o <<>> = s /\ <<>> \o s = s
<1>1. Len(s) \in Nat /\ 0 + 1 = 1
  BY LenProperties
<1>2. Take(s, Len(s)) = s /\ Drop(s, 0) = s
  BY <1>1, SubSeqFull DEF Take, Drop
<1>3. SubSeq(s, 1, 0) = <<>> /\ SubSeq(s, Len(s) + 1, Len(s)) = <<>>
  <2>1. 1 > 0 /\ Len(s) + 1 > Len(s)
    BY <1>1
  <2> QED BY <1>1, <2>1, SubSeqEmpty
<1>4. s \o <<>> = s /\ <<>> \o s = s
  BY ConcatEmptySeq
<1>5. Prompt = TRUE => Portion(s) = {Len(s)}
  BY Zenon DEF Portion
<1> QED BY <1>2, <1>3, <1>4, <1>5 DEF Take, Drop

(* Reads all that has arrived; writes all it has, or nothing. *)
IoMoves(p, q) ==
  /\ pc[p] = "idle" /\ pc'[p] = "update" /\ pc'[q] = pc[q] /\ fresh' = fresh
  /\ inbuf'[p] = inbuf[p] \o net[q] /\ inbuf'[q] = inbuf[q] /\ net'[q] = <<>>
  /\ peer'[q] = peer[q] /\ status'[q] = status[q]
  /\ peer'[p].state = peer[p].state /\ SameAge(peer[p], peer'[p])
  /\ peer'[p].ping_on_wire = peer[p].ping_on_wire
  /\ \/ peer'[p].outq = peer[p].outq /\ net'[p] = net[p]
     \/ peer'[p].outq = <<>> /\ net'[p] = net[p] \o peer[p].outq
  /\ pc[q] = "gone" /\ net[q] = <<>> => status'[p] # "ok"

LEMMA IoEffect ==
  ASSUME TypeInv, NEW p \in Ends, NEW q, q = Other(p), Prompt = TRUE, update_io(p)
  PROVE  IoMoves(p, q)
<1>0. q \in Ends /\ q # p /\ Other(q) = p
  BY OtherEnd
<1>1. /\ peer \in [Ends -> PeerType] /\ inbuf \in [Ends -> Seq(Kinds)]
      /\ net \in [Ends -> Seq(Kinds)] /\ pc \in [Ends -> {"idle", "update", "gone"}]
      /\ status \in [Ends -> {"ok", "error", "disconnected"}]
  BY DEF TypeInv, TypeOK
<1>2. peer[p] \in PeerType /\ peer[p].outq \in Seq(Kinds)
      /\ net[p] \in Seq(Kinds) /\ net[q] \in Seq(Kinds)
  BY <1>0, Fields
<1>3. PICK n \in Portion(net[q]),
           k \in IF peer[p].need_output THEN Portion(peer[p].outq) ELSE {0} :
       /\ inbuf' = [inbuf EXCEPT ![p] = @ \o Take(net[q], n)]
       /\ net' = [net EXCEPT ![q] = Drop(@, n), ![p] = @ \o Take(peer[p].outq, k)]
       /\ peer' = [peer EXCEPT ![p].outq = Drop(@, k)]
  BY DEF update_io
<1>4. n = Len(net[q]) /\ (k = 0 \/ k = Len(peer[p].outq))
  <2>1. Portion(net[q]) = {Len(net[q])} /\ Portion(peer[p].outq) = {Len(peer[p].outq)}
    BY <1>2, WholeQueue
  <2> QED BY <1>3, <2>1
<1>5. Take(net[q], n) = net[q] /\ Drop(net[q], n) = <<>>
  BY <1>2, <1>4, WholeQueue
<1>6. /\ inbuf'[p] = inbuf[p] \o net[q] /\ inbuf'[q] = inbuf[q]
      /\ net'[q] = <<>> /\ net'[p] = net[p] \o Take(peer[p].outq, k)
      /\ peer'[q] = peer[q] /\ peer'[p] = [peer[p] EXCEPT !.outq = Drop(@, k)]
  BY <1>0, <1>1, <1>3, <1>5
<1>7. /\ peer'[p].state = peer[p].state /\ SameAge(peer[p], peer'[p])
      /\ peer'[p].ping_on_wire = peer[p].ping_on_wire
      /\ peer'[p].outq = Drop(peer[p].outq, k)
  BY <1>2, <1>6 DEF PeerType, SameAge
<1>8. \/ peer'[p].outq = peer[p].outq /\ net'[p] = net[p]
      \/ peer'[p].outq = <<>> /\ net'[p] = net[p] \o peer[p].outq
  <2>1. CASE k = 0
    <3>1. Drop(peer[p].outq, k) = peer[p].outq /\ Take(peer[p].outq, k) = <<>>
      BY <2>1, <1>2, WholeQueue
    <3>2. net[p] \o <<>> = net[p]
      BY <1>2, WholeQueue
    <3> QED BY <1>6, <1>7, <3>1, <3>2
  <2>2. CASE k = Len(peer[p].outq)
    <3>1. Drop(peer[p].outq, k) = <<>> /\ Take(peer[p].outq, k) = peer[p].outq
      BY <2>2, <1>2, WholeQueue
    <3> QED BY <1>6, <1>7, <3>1
  <2> QED BY <1>4, <2>1, <2>2
<1>9. pc[p] = "idle" /\ pc'[p] = "update" /\ pc'[q] = pc[q] /\ fresh' = fresh
  BY <1>0, <1>1 DEF update_io
<1>10. PICK s \in SocketStatus(p) : status' = [status EXCEPT ![p] = s]
  BY DEF update_io
<1>11. status'[p] = s /\ status'[q] = status[q]
  BY <1>0, <1>1, <1>10
<1>12. ASSUME pc[q] = "gone", net[q] = <<>>
       PROVE  s # "ok"
  BY <1>10, <1>12 DEF SocketStatus
<1> QED BY <1>6, <1>7, <1>8, <1>9, <1>11, <1>12 DEF IoMoves

(* One message is handled: the end fails, hears from the other, or gets     *)
(* connected.                                                               *)
Fails(e, f) == f.state = "ERROR" /\ f.outq = e.outq

Hears(e, f, h) ==
  /\ e.state = "CONNECTED" /\ f.state = "CONNECTED" /\ f.age = 0
  /\ IF h = "PING_REQUEST" THEN f.outq = Append(e.outq, "PING_ANSWER")
     ELSE f.outq = e.outq \/ \E m \in Plain : f.outq = Append(e.outq, m)

Connects(e, f, h) ==
  /\ e.state = "WAIT_HANDSHAKE" /\ f.state = "CONNECTED" /\ h = "HANDSHAKE"
  /\ f.age = e.age /\ f.ping_on_wire = e.ping_on_wire
  /\ IF e.end = "target" THEN f.outq = e.outq \/ f.outq = Append(e.outq, "HANDSHAKE")
     ELSE f.outq = Append(e.outq, "LAUNCH_REQUEST")

DeliverMoves(p, q, h) ==
  /\ pc[p] = "update" /\ status[p] = "ok" /\ inbuf[p] # <<>> /\ h = Head(inbuf[p])
  /\ inbuf'[p] = Tail(inbuf[p]) /\ inbuf'[q] = inbuf[q]
  /\ net' = net /\ pc' = pc /\ status' = status /\ fresh' = fresh /\ peer'[q] = peer[q]
  /\ peer'[p].timed_out = peer[p].timed_out
  /\ \/ Fails(peer[p], peer'[p])
     \/ Hears(peer[p], peer'[p], h)
     \/ Connects(peer[p], peer'[p], h)

LEMMA DeliverMovesOne ==
  ASSUME TypeInv, NEW p \in Ends, NEW q, q = Other(p), deliver(p)
  PROVE  DeliverMoves(p, q, Head(inbuf[p]))
<1> DEFINE h == Head(inbuf[p])
<1>0. q \in Ends /\ q # p /\ Other(q) = p
  BY OtherEnd
<1>1. /\ peer \in [Ends -> PeerType] /\ inbuf \in [Ends -> Seq(Kinds)] /\ peer[p] \in PeerType
  BY DEF TypeInv, TypeOK
<1>2. /\ pc[p] = "update" /\ status[p] = "ok"
      /\ inbuf[p] # <<>> /\ inbuf' = [inbuf EXCEPT ![p] = Tail(@)]
      /\ net' = net /\ pc' = pc /\ status' = status /\ fresh' = fresh
  BY DEF deliver
<1>3. h \in Kinds
  BY <1>1, <1>2, HeadTailProperties
<1>4. PICK ok \in EnqueueResults, good \in BOOLEAN :
        peer' = [peer EXCEPT ![p] = peer_deliver_incoming(@, h, ok, good)]
  BY DEF deliver
<1>5. ok \in BOOLEAN
  BY DEF EnqueueResults
<1> HIDE DEF h
<1>6. peer'[p] = peer_deliver_incoming(peer[p], h, ok, good) /\ peer'[q] = peer[q]
      /\ inbuf'[p] = Tail(inbuf[p]) /\ inbuf'[q] = inbuf[q]
  BY <1>0, <1>1, <1>2, <1>4
<1> DEFINE e == peer[p]
           f == peer'[p]
           g == peer_deliver_incoming(peer[p], h, ok, good)
<1>7. /\ g.timed_out = e.timed_out
      /\ g.age = IF e.state = "CONNECTED" /\ h # "HANDSHAKE" THEN 0 ELSE e.age
  BY <1>1, <1>3, <1>5, DeliverAge
<1>8. Delivers(e, g, h)
  BY <1>1, <1>3, DeliverEffect
<1> HIDE DEF e, f, g
<1>9. f = g
  BY <1>6 DEF f, g
<1>10. PICK sent \in Seq(Kinds) :
         /\ Makes(e, f, sent)
         /\ Shaken(e, f, h, sent) \/ Broken(e, f, h, sent) \/ Handled(e, f, h, sent)
  BY <1>8, <1>9 DEF Delivers
<1>11. sent = <<>> => f.outq = e.outq
  BY <1>10 DEF Makes
<1>12. \A m \in Kinds : sent = <<m>> => f.outq = Append(e.outq, m)
  BY <1>10 DEF Makes
<1>13. {"HANDSHAKE", "LAUNCH_REQUEST", "PING_ANSWER"} \subseteq Kinds /\ Plain \subseteq Kinds
  BY DEF Kinds, Plain
<1>14. ASSUME Broken(e, f, h, sent) PROVE Fails(e, f)
  BY <1>11, <1>14 DEF Broken, Fails
<1>15. ASSUME Handled(e, f, h, sent) PROVE Hears(e, f, h)
  <2>1. e.state = "CONNECTED" /\ f.state = "CONNECTED" /\ f.age = 0
    BY <1>7, <1>9, <1>15 DEF Handled
  <2>2. CASE h = "PING_REQUEST"
    <3>1. sent = <<"PING_ANSWER">>
      BY <1>15, <2>2 DEF Handled
    <3> QED BY <1>12, <1>13, <2>1, <2>2, <3>1 DEF Hears
  <2>3. CASE h # "PING_REQUEST"
    <3>1. sent = <<>> \/ \E m \in Plain : sent = <<m>>
      BY <1>15, <2>3 DEF Handled
    <3> QED BY <1>11, <1>12, <1>13, <2>1, <2>3, <3>1 DEF Hears
  <2> QED BY <2>2, <2>3
<1>16. ASSUME Shaken(e, f, h, sent) PROVE Fails(e, f) \/ Connects(e, f, h)
  <2>1. e.state = "WAIT_HANDSHAKE" /\ h = "HANDSHAKE" /\ f.ping_on_wire = e.ping_on_wire
    BY <1>16 DEF Shaken
  <2>2. f.age = e.age
    BY <1>7, <1>9, <2>1
  <2>3. CASE e.end = "target"
    <3>1. f.state = "CONNECTED" /\ (sent = <<"HANDSHAKE">> \/ sent = <<>>)
      BY <1>16, <2>3 DEF Shaken
    <3> QED BY <1>11, <1>12, <1>13, <2>1, <2>2, <2>3, <3>1 DEF Connects
  <2>4. CASE e.end # "target"
    <3>1. \/ f.state = "CONNECTED" /\ sent = <<"LAUNCH_REQUEST">>
          \/ f.state = "ERROR" /\ sent = <<>>
      BY <1>16, <2>4 DEF Shaken
    <3> QED BY <1>11, <1>12, <1>13, <2>1, <2>2, <2>4, <3>1 DEF Connects, Fails
  <2> QED BY <2>3, <2>4
<1>17. Fails(e, f) \/ Hears(e, f, h) \/ Connects(e, f, h)
  BY <1>10, <1>14, <1>15, <1>16
<1> QED BY <1>2, <1>6, <1>7, <1>9, <1>17 DEF DeliverMoves, e, f, h

(* The end of an update: the end is destroyed, or has written all it had    *)
(* and is within its limit or has a ping out.                               *)
FinishMoves(p, q) ==
  /\ pc[p] = "update" /\ pc'[q] = pc[q] /\ fresh' = fresh \cup {p}
  /\ inbuf' = inbuf /\ status' = status /\ net'[q] = net[q] /\ peer'[q] = peer[q]
  /\ status[p] = "ok" => inbuf[p] = <<>>
  /\ peer'[p].outq = <<>> /\ peer'[p].age = peer[p].age
  /\ \/ net'[p] = net[p] \o peer[p].outq
     \/ net'[p] = net[p] \o Append(peer[p].outq, "PING_REQUEST")
  /\ \/ peer'[p].timed_out = peer[p].timed_out
     \/ /\ status[p] = "ok" /\ peer[p].state = "CONNECTED" /\ peer[p].ping_on_wire = TRUE
        /\ peer[p].age > 2 * Limit(p)
  /\ \/ pc'[p] = "gone" /\ Down(peer'[p])
     \/ /\ pc'[p] = "idle" /\ status[p] = "ok"
        /\ peer'[p].state = peer[p].state /\ ~Down(peer'[p])
        /\ peer[p].ping_on_wire = TRUE => peer'[p].ping_on_wire = TRUE
        /\ peer'[p].ping_on_wire = TRUE => peer[p].ping_on_wire = TRUE \/ peer[p].state = "CONNECTED"
        /\ peer'[p].state = "CONNECTED" /\ peer'[p].ping_on_wire = FALSE =>
             ~(peer[p].age > Limit(p))

LEMMA FinishEffect ==
  ASSUME TypeInv, NEW p \in Ends, NEW q, q = Other(p), Prompt = TRUE, update_finish(p)
  PROVE  FinishMoves(p, q)
<1> DEFINE e == peer[p]
           e1 == IF status[p] = "ok" THEN e ELSE on_disconnect(e)
           E2(ok) == on_update_connected(e1, ok)
           remove(e2) == e2.state \in {"ERROR", "DISCONNECTED"}
<1>0. q \in Ends /\ q # p /\ Other(q) = p
  BY OtherEnd
<1>1. /\ peer \in [Ends -> PeerType] /\ net \in [Ends -> Seq(Kinds)]
      /\ pc \in [Ends -> {"idle", "update", "gone"}]
  BY DEF TypeInv, TypeOK
<1>2. e \in PeerType /\ e.outq \in Seq(Kinds) /\ net[p] \in Seq(Kinds) /\ e.end = p
      /\ threshold(e) = Limit(p) /\ e.ping_on_wire \in BOOLEAN
  BY Fields
<1>3. PICK ok \in EnqueueResults :
        LET e2 == E2(ok)
        IN  \E k \in Portion(e2.outq) :
             /\ net' = [net EXCEPT ![p] = @ \o Take(e2.outq, k)]
             /\ peer' = [peer EXCEPT ![p] =
                  [e2 EXCEPT !.outq = Drop(@, k),
                             !.need_output = ~remove(e2) /\ peer[p].outq # <<>>]]
             /\ pc' = [pc EXCEPT ![p] = IF remove(e2) THEN "gone" ELSE "idle"]
  BY Zenon DEF update_finish
<1>4. /\ pc[p] = "update" /\ fresh' = fresh \cup {p} /\ inbuf' = inbuf /\ status' = status
      /\ status[p] = "ok" => inbuf[p] = <<>>
  BY DEF update_finish
<1>5. /\ e1 \in PeerType /\ e1.end = e.end /\ e1.outq = e.outq /\ SameAge(e, e1)
      /\ status[p] # "ok" => Down(e1)
  <2>1. CASE status[p] = "ok"
    BY <2>1, <1>2 DEF SameAge
  <2>2. CASE status[p] # "ok"
    <3> DEFINE d == on_disconnect(e)
    <3>1. /\ d \in PeerType /\ d.end = e.end
          /\ d.outq = e.outq /\ d.state \in {"ERROR", "DISCONNECTED"}
      BY <1>2, DisconnectEffect
    <3>2. SameAge(e, d)
      BY <1>2, DisconnectAge
    <3>3. e1 = d
      BY <2>2
    <3> HIDE DEF d, e1
    <3> QED BY <3>1, <3>2, <3>3 DEF Down
  <2> QED BY <2>1, <2>2
<1>6. status[p] = "ok" => e1 = e
  OBVIOUS
<1>7. ok \in BOOLEAN
  BY DEF EnqueueResults
<1> HIDE DEF e1
<1> DEFINE e2 == E2(ok)
<1>8. e1 \in PeerType
  BY <1>5
<1>9. Updates(e1, e2)
  BY <1>7, <1>8, UpdateEffect
<1>10. /\ e2.age = e1.age
       /\ \/ e2.timed_out = e1.timed_out
          \/ /\ e1.state = "CONNECTED" /\ e1.ping_on_wire = TRUE
             /\ e1.age > 2 * threshold(e1)
       /\ e2.state = "CONNECTED" /\ e2.ping_on_wire = FALSE => ~(e1.age > threshold(e1))
  BY <1>7, <1>8, UpdateAge
<1>11. PICK k \in Portion(e2.outq) :
             /\ net' = [net EXCEPT ![p] = @ \o Take(e2.outq, k)]
             /\ peer' = [peer EXCEPT ![p] =
                  [e2 EXCEPT !.outq = Drop(@, k),
                             !.need_output = ~remove(e2) /\ peer[p].outq # <<>>]]
             /\ pc' = [pc EXCEPT ![p] = IF remove(e2) THEN "gone" ELSE "idle"]
  BY <1>3
<1> HIDE DEF e2
<1>12. e2 \in PeerType /\ e2.outq \in Seq(Kinds) /\ e2.ping_on_wire \in BOOLEAN
  BY <1>9 DEF Updates, PeerType
<1>13. Take(e2.outq, k) = e2.outq /\ Drop(e2.outq, k) = <<>>
  <2>1. k = Len(e2.outq)
    BY <1>11, <1>12, WholeQueue
  <2> QED BY <1>12, <2>1, WholeQueue
<1>14. /\ net'[p] = net[p] \o e2.outq /\ net'[q] = net[q] /\ peer'[q] = peer[q]
       /\ pc'[p] = (IF remove(e2) THEN "gone" ELSE "idle") /\ pc'[q] = pc[q]
       /\ peer'[p] = [e2 EXCEPT !.outq = Drop(@, k),
                         !.need_output = ~remove(e2) /\ peer[p].outq # <<>>]
  BY <1>0, <1>1, <1>11, <1>13
<1> DEFINE f == peer'[p]
           b == ~remove(e2) /\ peer[p].outq # <<>>
<1>15. /\ f.outq = <<>> /\ f.state = e2.state /\ f.age = e2.age
       /\ f.ping_on_wire = e2.ping_on_wire /\ f.timed_out = e2.timed_out
  <2>1. f = [e2 EXCEPT !.outq = Drop(@, k), !.need_output = b]
    BY <1>14
  <2> HIDE DEF b, f
  <2> QED BY <1>12, <1>13, <2>1 DEF PeerType
<1>16. Down(f) <=> remove(e2)
  BY <1>15 DEF Down
<1> HIDE DEF e, f, b
<1>17. f.age = e.age
  BY <1>5, <1>10, <1>15 DEF SameAge
<1>18. \/ f.timed_out = e.timed_out
       \/ /\ status[p] = "ok" /\ e.state = "CONNECTED" /\ e.ping_on_wire = TRUE
          /\ e.age > 2 * Limit(p)
  <2>1. CASE status[p] = "ok"
    BY <1>2, <1>6, <1>10, <1>15, <2>1
  <2>2. CASE status[p] # "ok"
    <3>1. e1.state # "CONNECTED"
      BY <1>5, <2>2 DEF Down
    <3> QED BY <1>5, <1>10, <1>15, <3>1 DEF SameAge
  <2> QED BY <2>1, <2>2
<1>19. ASSUME ~remove(e2)
       PROVE  /\ pc'[p] = "idle" /\ status[p] = "ok"
              /\ f.state = e.state /\ ~Down(f)
              /\ e.ping_on_wire = TRUE => f.ping_on_wire = TRUE
              /\ f.ping_on_wire = TRUE => e.ping_on_wire = TRUE \/ e.state = "CONNECTED"
              /\ f.state = "CONNECTED" /\ f.ping_on_wire = FALSE => ~(e.age > Limit(p))
  <2>1. e2.state # "ERROR" /\ e2.state # "DISCONNECTED"
    BY <1>19
  <2>2. \/ e2.outq = e1.outq /\ e2.state = e1.state /\ e2.ping_on_wire = e1.ping_on_wire
        \/ /\ e1.state = "CONNECTED" /\ e2.state = "CONNECTED"
           /\ e1.ping_on_wire = FALSE /\ e2.ping_on_wire = TRUE
           /\ e2.outq = Append(e1.outq, "PING_REQUEST")
    BY <1>9, <2>1 DEF Updates
  <2>3. status[p] = "ok" /\ e1 = e
    <3>1. ~Down(e1)
      BY <2>1, <2>2 DEF Down
    <3> QED BY <1>5, <1>6, <3>1
  <2>4. pc'[p] = "idle" /\ ~Down(f)
    BY <1>14, <1>16, <1>19
  <2>5. f.state = "CONNECTED" /\ f.ping_on_wire = FALSE => ~(e.age > Limit(p))
    BY <1>2, <1>10, <1>15, <2>3
  <2>6. CASE e2.outq = e1.outq /\ e2.state = e1.state /\ e2.ping_on_wire = e1.ping_on_wire
    BY <1>14, <1>15, <2>3, <2>4, <2>5, <2>6
  <2>7. CASE /\ e1.state = "CONNECTED" /\ e2.state = "CONNECTED"
             /\ e1.ping_on_wire = FALSE /\ e2.ping_on_wire = TRUE
             /\ e2.outq = Append(e1.outq, "PING_REQUEST")
    <3>1. f.ping_on_wire # FALSE /\ e.ping_on_wire # TRUE
      BY <1>15, <2>3, <2>7
    <3> QED BY <1>14, <1>15, <2>3, <2>4, <2>5, <2>7, <3>1
  <2> QED BY <2>2, <2>6, <2>7
<1>20. ASSUME remove(e2)
       PROVE  pc'[p] = "gone" /\ Down(f)
  BY <1>14, <1>16, <1>20
<1>21. net'[p] = net[p] \o e.outq \/ net'[p] = net[p] \o Append(e.outq, "PING_REQUEST")
  BY <1>5, <1>9, <1>14 DEF Updates
<1> HIDE DEF remove
<1> QED BY <1>4, <1>14, <1>15, <1>17, <1>18, <1>19, <1>20, <1>21 DEF FinishMoves, e, f

(* A program's message is queued, or the target fails. *)
ProgramMoves ==
  /\ pc["target"] = "idle"
  /\ inbuf' = inbuf /\ net' = net /\ pc' = pc /\ status' = status /\ fresh' = fresh
  /\ peer'["controller"] = peer["controller"]
  /\ SameAge(peer["target"], peer'["target"])
  /\ peer'["target"].ping_on_wire = peer["target"].ping_on_wire
  /\ \/ Fails(peer["target"], peer'["target"])
     \/ /\ peer["target"].state = "CONNECTED" /\ peer'["target"].state = "CONNECTED"
        /\ \E m \in Plain : peer'["target"].outq = Append(peer["target"].outq, m)

LEMMA ProgramEffect ==
  ASSUME TypeInv, device_request \/ launch_completed
  PROVE  ProgramMoves
<1>1. PICK m \in {"FILE_REQUEST", "DONE_REQUEST"}, ok \in EnqueueResults :
        peer' = [peer EXCEPT !["target"] = on_transmit_message(@, m, ok)]
  BY DEF device_request, launch_completed
<1>2. /\ pc["target"] = "idle" /\ inbuf' = inbuf /\ net' = net /\ pc' = pc
      /\ status' = status /\ fresh' = fresh
  BY DEF device_request, launch_completed
<1>3. m \in Plain /\ m \in Kinds /\ ok \in BOOLEAN
  BY DEF Plain, Kinds, EnqueueResults
<1> DEFINE e == peer["target"]
           t == on_transmit_message(e, m, ok)
<1>4. e \in PeerType /\ peer \in [Ends -> PeerType] /\ {"target", "controller"} \subseteq Ends
  BY DEF TypeInv, TypeOK, Ends
<1>5. peer'["target"] = t /\ peer'["controller"] = peer["controller"]
  BY <1>1, <1>4
<1>6. /\ t.ping_on_wire = e.ping_on_wire
      /\ \/ e.state = "CONNECTED" /\ t.state = "CONNECTED" /\ t.outq = Append(e.outq, m)
         \/ t.state = "ERROR" /\ t.outq = e.outq
  BY <1>3, <1>4, TransmitMessage
<1>7. SameAge(e, t)
  BY <1>3, <1>4, TransmitAge
<1> HIDE DEF e, t
<1> QED BY <1>2, <1>3, <1>5, <1>6, <1>7 DEF ProgramMoves, Fails, e

(* A tick: both ends have been through an update and are between two. *)
TickMoves ==
  /\ fresh' = {} /\ inbuf' = inbuf /\ net' = net /\ pc' = pc /\ status' = status
  /\ \A p \in Ends :
       /\ pc[p] = "gone" \/ (pc[p] = "idle" /\ p \in fresh)
       /\ peer'[p].state = peer[p].state /\ peer'[p].outq = peer[p].outq
       /\ peer'[p].ping_on_wire = peer[p].ping_on_wire
       /\ peer'[p].timed_out = peer[p].timed_out
       /\ peer'[p].age = peer[p].age \/ peer'[p].age = peer[p].age + 1

LEMMA TickEffect ==
  ASSUME TypeInv, crashed = {}, Tick
  PROVE  TickMoves
<1>1. fresh' = {} /\ inbuf' = inbuf /\ net' = net /\ pc' = pc /\ status' = status
  BY DEF Tick
<1>2. ASSUME NEW p \in Ends
      PROVE  /\ pc[p] = "gone" \/ (pc[p] = "idle" /\ p \in fresh)
             /\ peer'[p].state = peer[p].state /\ peer'[p].outq = peer[p].outq
             /\ peer'[p].ping_on_wire = peer[p].ping_on_wire
             /\ peer'[p].timed_out = peer[p].timed_out
             /\ peer'[p].age = peer[p].age \/ peer'[p].age = peer[p].age + 1
  <2>1. peer'[p] = peer[p] \/ peer'[p] = [peer[p] EXCEPT !.age = @ + 1]
    BY DEF Tick
  <2>2. peer[p] \in PeerType
    BY DEF TypeInv, TypeOK
  <2>3. pc[p] = "gone" \/ (pc[p] = "idle" /\ p \in fresh)
    BY DEF Tick, Alive
  <2> QED BY <2>1, <2>2, <2>3 DEF PeerType
<1> QED BY <1>1, <1>2 DEF TickMoves

-----------------------------------------------------------------------------
(* No false timeout                                                         *)

Has(kind, s) == \E i \in 1 .. Len(s) : s[i] = kind

LEMMA HasConcat ==
  \A kind : \A s, t \in Seq(Kinds) : Has(kind, s \o t) <=> Has(kind, s) \/ Has(kind, t)
<1> SUFFICES ASSUME NEW kind, NEW s \in Seq(Kinds), NEW t \in Seq(Kinds)
             PROVE  Has(kind, s \o t) <=> Has(kind, s) \/ Has(kind, t)
  OBVIOUS
<1>1. Len(s) \in Nat /\ Len(t) \in Nat
  BY LenProperties
<1>2. Len(s \o t) = Len(s) + Len(t)
      /\ \A i \in 1 .. Len(s) + Len(t) :
           (s \o t)[i] = IF i <= Len(s) THEN s[i] ELSE t[i - Len(s)]
  BY ConcatProperties
<1>3. ASSUME Has(kind, s \o t) PROVE Has(kind, s) \/ Has(kind, t)
  <2>1. PICK i \in 1 .. Len(s) + Len(t) : (s \o t)[i] = kind
    BY <1>2, <1>3 DEF Has
  <2>2. CASE i <= Len(s)
    <3>1. i \in 1 .. Len(s) /\ s[i] = kind
      BY <1>1, <1>2, <2>1, <2>2
    <3> QED BY <3>1 DEF Has
  <2>3. CASE ~(i <= Len(s))
    <3>1. i - Len(s) \in 1 .. Len(t) /\ t[i - Len(s)] = kind
      BY <1>1, <1>2, <2>1, <2>3
    <3> QED BY <3>1 DEF Has
  <2> QED BY <2>2, <2>3
<1>4. ASSUME Has(kind, s) PROVE Has(kind, s \o t)
  <2>1. PICK i \in 1 .. Len(s) : s[i] = kind
    BY <1>4 DEF Has
  <2>2. i \in 1 .. Len(s) + Len(t) /\ i <= Len(s)
    BY <1>1, <2>1
  <2>3. (s \o t)[i] = kind /\ i \in 1 .. Len(s \o t)
    BY <1>2, <2>1, <2>2
  <2> QED BY <2>3 DEF Has
<1>5. ASSUME Has(kind, t) PROVE Has(kind, s \o t)
  <2>1. PICK i \in 1 .. Len(t) : t[i] = kind
    BY <1>5 DEF Has
  <2>2. i + Len(s) \in 1 .. Len(s) + Len(t) /\ ~(i + Len(s) <= Len(s))
        /\ (i + Len(s)) - Len(s) = i
    BY <1>1, <2>1
  <2>3. (s \o t)[i + Len(s)] = kind /\ i + Len(s) \in 1 .. Len(s \o t)
    BY <1>2, <2>1, <2>2
  <2> QED BY <2>3 DEF Has
<1> QED BY <1>3, <1>4, <1>5

LEMMA HasSingle ==
  \A kind, m : Has(kind, <<m>>) <=> kind = m
BY DEF Has

LEMMA HasAppend ==
  \A s \in Seq(Kinds) : \A kind : \A m \in Kinds :
    Has(kind, Append(s, m)) <=> Has(kind, s) \/ kind = m
<1> SUFFICES ASSUME NEW s \in Seq(Kinds), NEW kind, NEW m \in Kinds
             PROVE  Has(kind, Append(s, m)) <=> Has(kind, s) \/ kind = m
  OBVIOUS
<1>1. Append(s, m) = s \o <<m>> /\ <<m>> \in Seq(Kinds)
  BY AppendIsConcat
<1>2. Has(kind, s \o <<m>>) <=> Has(kind, s) \/ Has(kind, <<m>>)
  BY <1>1, HasConcat
<1> QED BY <1>1, <1>2, HasSingle

LEMMA HasFacts ==
  \A kind : /\ ~Has(kind, <<>>)
            /\ \A s \in Seq(Kinds) :
                 /\ Has(kind, s) => s # <<>>
                 /\ s # <<>> => (Has(kind, s) <=> Head(s) = kind \/ Has(kind, Tail(s)))
                 /\ \A m \in Kinds : /\ Has(kind, Append(s, m)) <=> Has(kind, s) \/ kind = m
                                     /\ Append(s, m) # <<>>
<1> TAKE kind
<1>1. ~Has(kind, <<>>)
  BY DEF Has
<1>2. ASSUME NEW s \in Seq(Kinds) PROVE Has(kind, s) => s # <<>>
  BY <1>1
<1>3. ASSUME NEW s \in Seq(Kinds), NEW m \in Kinds
      PROVE  /\ Has(kind, Append(s, m)) <=> Has(kind, s) \/ kind = m
             /\ Append(s, m) # <<>>
  BY HasAppend, AppendProperties
<1>4. ASSUME NEW s \in Seq(Kinds), s # <<>>
      PROVE  Has(kind, s) <=> Head(s) = kind \/ Has(kind, Tail(s))
  <2>1. Head(s) \in Kinds /\ Tail(s) \in Seq(Kinds) /\ <<Head(s)>> \in Seq(Kinds)
        /\ s = <<Head(s)>> \o Tail(s)
    BY <1>4, HeadTailProperties, ConcatProperties
  <2>2. Has(kind, <<Head(s)>> \o Tail(s)) <=> Has(kind, <<Head(s)>>) \/ Has(kind, Tail(s))
    BY <2>1, HasConcat
  <2> QED BY <2>1, <2>2, HasSingle
<1> QED BY <1>1, <1>2, <1>3, <1>4

(* Something comes that ends the wait of p: a message, or the news that the *)
(* other end is gone.                                                       *)
Coming(p) ==
  \/ net[Other(p)] # <<>> \/ pc[Other(p)] = "gone"
  \/ inbuf[p] # <<>> \/ status[p] # "ok"

(* ... and p gets it in the update it is in, or in the one that has to come *)
(* before the next tick.                                                    *)
ComingNow(p) ==
  /\ p \notin fresh
  /\ IF pc[p] = "idle" THEN net[Other(p)] # <<>> \/ pc[Other(p)] = "gone"
                       ELSE inbuf[p] # <<>> \/ status[p] # "ok"

(* The ping of p is answered, or its other end destroyed, in the update that*)
(* the other end is in or has to go through before the next tick.           *)
Asked(p) ==
  IF pc[Other(p)] = "idle"
    THEN /\ Other(p) \notin fresh
         /\ Has("PING_REQUEST", net[p]) \/ Down(peer[Other(p)])
    ELSE \/ Has("PING_REQUEST", inbuf[Other(p)]) \/ Down(peer[Other(p)])
         \/ Has("PING_ANSWER", peer[Other(p)].outq)

(* Between updates nothing is left to read, and no ping left to write; a    *)
(* ping is never left in the output queue; who is gone had to go.           *)
LocalOk(p) ==
  /\ peer[p].timed_out = FALSE /\ peer[p].state # "INITIAL"
  /\ pc[p] = "idle" =>
       inbuf[p] = <<>> /\ status[p] = "ok" /\ ~Has("PING_ANSWER", peer[p].outq)
  /\ ~Has("PING_REQUEST", peer[p].outq)
  /\ pc[p] = "gone" => Down(peer[p])
  /\ peer[p].state = "WAIT_HANDSHAKE" => peer[p].ping_on_wire = FALSE

(* An end that is connected and has no ping out pings before it is too late,*)
(* and one that has a ping out hears from the other end in time.            *)
AgeOk(p) ==
  peer[p].state = "CONNECTED" =>
    /\ peer[p].ping_on_wire = FALSE =>
         peer[p].age <= Limit(p) + 1 /\ (p \in fresh => peer[p].age <= Limit(p))
    /\ peer[p].ping_on_wire = TRUE =>
         /\ peer[p].age <= Limit(p) + 3
         /\ peer[p].age = Limit(p) + 2 => Coming(p) \/ Asked(p)
         /\ peer[p].age = Limit(p) + 3 => ComingNow(p)

(* The target's wait for the handshake, in ticks. *)
Awaits(n) ==
  \/ /\ n = 0
     /\ \/ Coming("target")
        \/ /\ "controller" \notin fresh /\ pc["controller"] # "gone"
           /\ Down(peer["controller"]) \/ peer["controller"].outq # <<>>
  \/ n = 1 /\ ComingNow("target")

(* The controller's, once the target has handled its handshake. *)
Nears(n) ==
  \/ ~Has("HANDSHAKE", Stream("target"))
  \/ /\ n \in {0, 1}
     /\ \/ Coming("controller")
        \/ pc["target"] = "update" /\ peer["target"].outq # <<>>
  \/ n = 2 /\ ComingNow("controller")

WaitOk ==
  /\ peer["target"].state = "WAIT_HANDSHAKE" => Awaits(peer["target"].age)
  /\ peer["controller"].state = "WAIT_HANDSHAKE" =>
       IF peer["target"].state = "WAIT_HANDSHAKE" THEN Awaits(peer["controller"].age)
                                                  ELSE Nears(peer["controller"].age)

LEMMA NotEmpty ==
  \A s, t \in Seq(Kinds) : s \o t \in Seq(Kinds) /\ (s # <<>> \/ t # <<>> => s \o t # <<>>)
<1> SUFFICES ASSUME NEW s \in Seq(Kinds), NEW t \in Seq(Kinds)
             PROVE  s \o t \in Seq(Kinds) /\ (s # <<>> \/ t # <<>> => s \o t # <<>>)
  OBVIOUS
<1>1. s \o t \in Seq(Kinds) /\ Len(s \o t) = Len(s) + Len(t)
  BY ConcatProperties
<1>2. Len(s) \in Nat /\ Len(t) \in Nat /\ (Len(s) = 0 <=> s = <<>>) /\ (Len(t) = 0 <=> t = <<>>)
      /\ (Len(s \o t) = 0 <=> s \o t = <<>>)
  BY <1>1, EmptySeq, LenProperties
<1> QED BY <1>1, <1>2

LEMMA ComingIo ==
  ASSUME TypeInv, NEW p \in Ends, NEW q \in Ends, q = Other(p), IoMoves(p, q), LocalOk(p)
  PROVE  /\ (Coming(p) => Coming(p)') /\ (ComingNow(p) => ComingNow(p)')
         /\ (Coming(q) => Coming(q)') /\ (ComingNow(q) => ComingNow(q)')
         /\ (Asked(p) => Asked(p)') /\ (Asked(q) => Asked(q)')
<1>0. Other(p) = q /\ Other(q) = p
  BY OtherEnd
<1>1. net[p] \in Seq(Kinds) /\ inbuf[p] \in Seq(Kinds) /\ peer[p].outq \in Seq(Kinds)
      /\ net[q] \in Seq(Kinds) /\ inbuf[q] \in Seq(Kinds)
  BY Fields
<1>2. (net[q] # <<>> \/ inbuf[p] # <<>> => inbuf'[p] # <<>>) /\ (net[p] # <<>> => net'[p] # <<>>)
  BY <1>1, NotEmpty DEF IoMoves
<1>3. pc[q] = "gone" => inbuf'[p] # <<>> \/ status'[p] # "ok"
  BY <1>2 DEF IoMoves
<1>4. /\ pc[p] = "idle" /\ pc'[p] = "update" /\ pc'[q] = pc[q] /\ fresh' = fresh
      /\ inbuf'[q] = inbuf[q] /\ status'[q] = status[q] /\ peer'[q] = peer[q]
      /\ peer'[p].state = peer[p].state /\ inbuf[p] = <<>> /\ status[p] = "ok"
      /\ inbuf'[p] = inbuf[p] \o net[q]
  BY DEF IoMoves, LocalOk
<1>5. (Coming(p) => Coming(p)') /\ (ComingNow(p) => ComingNow(p)')
  BY <1>0, <1>2, <1>3, <1>4 DEF Coming, ComingNow
<1>6. (Coming(q) => Coming(q)') /\ (ComingNow(q) => ComingNow(q)')
  BY <1>0, <1>2, <1>4 DEF Coming, ComingNow
<1>7. Has("PING_REQUEST", net[p]) => Has("PING_REQUEST", net'[p])
  <2>1. net'[p] = net[p] \/ net'[p] = net[p] \o peer[p].outq
    BY DEF IoMoves
  <2>2. Has("PING_REQUEST", net[p]) => Has("PING_REQUEST", net[p] \o peer[p].outq)
    BY <1>1, HasConcat, Zenon
  <2> QED BY <2>1, <2>2
<1>8. Has("PING_REQUEST", net[q]) => Has("PING_REQUEST", inbuf'[p])
  BY <1>1, <1>4, HasConcat
<1>9. Asked(p) => Asked(p)'
  BY <1>0, <1>4, <1>7 DEF Asked, Down
<1>10. Asked(q) => Asked(q)'
  BY <1>0, <1>4, <1>8 DEF Asked, Down
<1> QED BY <1>5, <1>6, <1>9, <1>10

LEMMA ComingDeliver ==
  ASSUME TypeInv, NEW p \in Ends, NEW q \in Ends, q = Other(p), NEW h, DeliverMoves(p, q, h)
  PROVE  /\ (Coming(q) => Coming(q)') /\ (ComingNow(q) => ComingNow(q)')
         /\ Asked(q) => Asked(q)'
         /\ peer[p].outq # <<>> => peer'[p].outq # <<>>
         /\ ~Has("PING_REQUEST", peer[p].outq) => ~Has("PING_REQUEST", peer'[p].outq)
<1>0. Other(p) = q /\ Other(q) = p
  BY OtherEnd
<1>1. inbuf[p] \in Seq(Kinds) /\ peer[p].outq \in Seq(Kinds)
  BY Fields
<1>2. /\ pc[p] = "update" /\ inbuf[p] # <<>> /\ h = Head(inbuf[p]) /\ inbuf'[p] = Tail(inbuf[p])
      /\ inbuf'[q] = inbuf[q] /\ net' = net /\ pc' = pc /\ status' = status /\ fresh' = fresh
      /\ peer'[q] = peer[q]
  BY DEF DeliverMoves
<1>3. (Coming(q) => Coming(q)') /\ (ComingNow(q) => ComingNow(q)')
  BY <1>0, <1>2 DEF Coming, ComingNow
<1>4. {"PING_ANSWER", "PING_REQUEST", "HANDSHAKE", "LAUNCH_REQUEST"} \subseteq Kinds
      /\ Plain \subseteq Kinds /\ "PING_REQUEST" \notin Plain
  BY DEF Kinds, Plain
<1>5. Has("PING_REQUEST", inbuf[p]) => h = "PING_REQUEST" \/ Has("PING_REQUEST", inbuf'[p])
  BY <1>1, <1>2, HasFacts
<1>6. peer'[p].outq = peer[p].outq \/ \E m \in Kinds : peer'[p].outq = Append(peer[p].outq, m)
  BY <1>4 DEF DeliverMoves, Fails, Hears, Connects
<1>7. peer[p].outq # <<>> => peer'[p].outq # <<>>
  BY <1>1, <1>6, HasFacts
<1>a. \A kind : \A m \in Kinds :
        Has(kind, Append(peer[p].outq, m)) <=> Has(kind, peer[p].outq) \/ kind = m
  BY <1>1, HasAppend, Zenon
<1>8. Has("PING_ANSWER", peer[p].outq) => Has("PING_ANSWER", peer'[p].outq) \/ Down(peer'[p])
  BY <1>6, <1>a
<1>9. h = "PING_REQUEST" => Has("PING_ANSWER", peer'[p].outq) \/ Down(peer'[p])
  <2>1. h = "PING_REQUEST" => peer'[p].outq = Append(peer[p].outq, "PING_ANSWER") \/ Down(peer'[p])
    BY DEF DeliverMoves, Fails, Hears, Connects, Down
  <2> QED BY <1>4, <1>a, <2>1
<1>10. Down(peer[p]) => Down(peer'[p])
  BY DEF DeliverMoves, Fails, Hears, Connects, Down
<1>11. Asked(q) => Asked(q)'
  BY <1>0, <1>2, <1>5, <1>8, <1>9, <1>10 DEF Asked
<1>12. ~Has("PING_REQUEST", peer[p].outq) => ~Has("PING_REQUEST", peer'[p].outq)
  <2>1. peer'[p].outq = peer[p].outq \/ \E m \in Kinds \ {"PING_REQUEST"} :
          peer'[p].outq = Append(peer[p].outq, m)
    BY <1>4 DEF DeliverMoves, Fails, Hears, Connects
  <2> QED BY <1>a, <2>1
<1> QED BY <1>3, <1>7, <1>11, <1>12

LEMMA ComingFinish ==
  ASSUME TypeInv, NEW p \in Ends, NEW q \in Ends, q = Other(p), FinishMoves(p, q), LocalOk(q)
  PROVE  /\ (Coming(q) => Coming(q)') /\ (ComingNow(q) => ComingNow(q)')
         /\ Asked(q) \/ peer[p].outq # <<>> \/ Down(peer[p]) => Coming(q)'
         /\ pc'[p] = "idle" => /\ Coming(p) => Coming(p)'
                               /\ Asked(p) => Asked(p)'
                               /\ ~ComingNow(p)
<1>0. Other(p) = q /\ Other(q) = p /\ p # q
  BY OtherEnd
<1>1. net[p] \in Seq(Kinds) /\ peer[p].outq \in Seq(Kinds)
  BY Fields
<1>2. /\ pc[p] = "update" /\ pc'[q] = pc[q] /\ fresh' = fresh \cup {p} /\ inbuf' = inbuf
      /\ status' = status /\ net'[q] = net[q] /\ peer'[q] = peer[q]
      /\ status[p] = "ok" => inbuf[p] = <<>>
  BY DEF FinishMoves
<1>3. PICK sent \in Seq(Kinds) : net'[p] = net[p] \o sent
  <2>1. "PING_REQUEST" \in Kinds
    BY DEF Kinds
  <2> QED BY <1>1, <2>1, AppendType DEF FinishMoves
<1>4. net[p] # <<>> => net'[p] # <<>>
  BY <1>1, <1>3, NotEmpty
<1>5. (Coming(q) => Coming(q)') /\ (ComingNow(q) => ComingNow(q)')
  BY <1>0, <1>2, <1>4 DEF Coming, ComingNow
<1>6. pc'[p] = "gone" => Coming(q)'
  BY <1>0 DEF Coming
<1>7. ASSUME pc'[p] # "gone"
      PROVE  /\ pc'[p] = "idle" /\ status[p] = "ok" /\ ~Down(peer[p]) /\ inbuf[p] = <<>>
             /\ net'[p] = net[p] \o peer[p].outq
                  \/ net'[p] = net[p] \o Append(peer[p].outq, "PING_REQUEST")
  BY <1>7 DEF FinishMoves, Down
<1>8. ASSUME pc'[p] # "gone", peer[p].outq # <<>> PROVE Coming(q)'
  <2>1. "PING_REQUEST" \in Kinds
    BY DEF Kinds
  <2>2. Append(peer[p].outq, "PING_REQUEST") # <<>>
        /\ Append(peer[p].outq, "PING_REQUEST") \in Seq(Kinds)
    BY <1>1, <2>1, HasFacts, AppendType
  <2>3. net'[p] # <<>>
    BY <1>1, <1>7, <1>8, <2>2, NotEmpty
  <2> QED BY <1>0, <2>3 DEF Coming
<1>9. Asked(q) => Has("PING_REQUEST", inbuf[p]) \/ Has("PING_ANSWER", peer[p].outq) \/ Down(peer[p])
  BY <1>0, <1>2 DEF Asked
<1>10. ~Has("PING_REQUEST", <<>>) /\ ~Has("PING_ANSWER", <<>>)
  BY HasFacts
<1>11. Asked(q) \/ peer[p].outq # <<>> \/ Down(peer[p]) => Coming(q)'
  BY <1>6, <1>7, <1>8, <1>9, <1>10
<1>12. Has("PING_REQUEST", net[p]) => Has("PING_REQUEST", net'[p])
  BY <1>1, <1>3, HasConcat
<1>13. ASSUME pc'[p] = "idle"
       PROVE  (Coming(p) => Coming(p)') /\ (Asked(p) => Asked(p)') /\ ~ComingNow(p)
  <2>1. status[p] = "ok" /\ inbuf[p] = <<>>
    BY <1>7, <1>13
  <2>2. Coming(p) => Coming(p)'
    BY <1>0, <1>2, <2>1 DEF Coming
  <2>3. Asked(p) => Asked(p)'
    BY <1>0, <1>2, <1>12 DEF Asked
  <2>4. ~ComingNow(p)
    BY <1>2, <2>1 DEF ComingNow
  <2> QED BY <2>2, <2>3, <2>4
<1> QED BY <1>5, <1>11, <1>13

LEMMA ComingProgram ==
  ASSUME ProgramMoves, NEW p \in Ends
  PROVE  /\ (Coming(p) => Coming(p)') /\ (ComingNow(p) => ComingNow(p)')
         /\ Asked(p) => Asked(p)'
<1>1. inbuf' = inbuf /\ net' = net /\ pc' = pc /\ status' = status /\ fresh' = fresh
  BY DEF ProgramMoves
<1>2. (Coming(p) => Coming(p)') /\ (ComingNow(p) => ComingNow(p)')
  BY <1>1 DEF Coming, ComingNow
<1>3. Other(p) \in {"controller", "target"}
  BY DEF Other
<1>4. Asked(p) => Asked(p)'
  <2>1. CASE Other(p) = "controller"
    BY <1>1, <2>1 DEF Asked, ProgramMoves
  <2>2. CASE Other(p) = "target"
    <3>1. Down(peer["target"]) => Down(peer'["target"])
      BY DEF ProgramMoves, Fails, Down
    <3> QED BY <1>1, <2>2, <3>1 DEF Asked, ProgramMoves
  <2> QED BY <1>3, <2>1, <2>2
<1> QED BY <1>2, <1>4

LEMMA ComingTick ==
  ASSUME TickMoves, NEW p \in Ends, LocalOk(p), ~Down(peer[p])
  PROVE  /\ Coming(p) => Coming(p)' /\ ComingNow(p)'
         /\ ~ComingNow(p) /\ p \in fresh /\ pc[p] = "idle"
<1>1. pc[p] = "idle" /\ p \in fresh /\ inbuf[p] = <<>> /\ status[p] = "ok"
  BY DEF TickMoves, LocalOk
<1>2. fresh' = {} /\ inbuf' = inbuf /\ net' = net /\ pc' = pc /\ status' = status
  BY DEF TickMoves
<1> QED BY <1>1, <1>2 DEF Coming, ComingNow

(* Both ends in order: types, pings, the handshake's order, and time. *)
TimeInv ==
  /\ AgreeInv /\ PingInv
  /\ crashed = {} => (\A p \in Ends : LocalOk(p) /\ AgeOk(p)) /\ WaitOk

(* AgeOk of an end that a step leaves alone, or whose part in it keeps age  *)
(* and ping.                                                                *)
LEMMA AgeKept ==
  ASSUME NEW p, AgeOk(p),
         peer[p].age \in Nat, Limit(p) \in Nat,
         peer'[p].age = peer[p].age, peer'[p].ping_on_wire = peer[p].ping_on_wire,
         peer'[p].state = "CONNECTED" => peer[p].state = "CONNECTED",
         p \in fresh' => p \in fresh,
         Coming(p) => Coming(p)', ComingNow(p) => ComingNow(p)',
         Asked(p) => Coming(p)' \/ Asked(p)'
  PROVE  AgeOk(p)'
BY DEF AgeOk

LEMMA IoKeeps ==
  ASSUME TypeInv, NEW p \in Ends, NEW q \in Ends, q = Other(p), IoMoves(p, q),
         \A r \in Ends : LocalOk(r) /\ AgeOk(r)
  PROVE  \A r \in Ends : LocalOk(r)' /\ AgeOk(r)'
<1>0. p # q /\ \A r \in Ends : r = p \/ r = q
  BY OtherEnd
<1>1. LocalOk(p) /\ AgeOk(p) /\ LocalOk(q) /\ AgeOk(q)
  OBVIOUS
<1>2. /\ Coming(p) => Coming(p)'
      /\ ComingNow(p) => ComingNow(p)'
      /\ Coming(q) => Coming(q)'
      /\ ComingNow(q) => ComingNow(q)'
      /\ Asked(p) => Asked(p)'
      /\ Asked(q) => Asked(q)'
  BY <1>1, ComingIo
<1>3. /\ peer[p].age \in Nat /\ Limit(p) \in Nat /\ peer[q].age \in Nat /\ Limit(q) \in Nat
  BY Fields
<1>4. /\ pc'[p] = "update" /\ pc'[q] = pc[q] /\ fresh' = fresh /\ peer'[q] = peer[q]
      /\ inbuf'[q] = inbuf[q] /\ status'[q] = status[q]
      /\ peer'[p].state = peer[p].state /\ peer'[p].age = peer[p].age
      /\ peer'[p].timed_out = peer[p].timed_out
      /\ peer'[p].ping_on_wire = peer[p].ping_on_wire
      /\ peer'[p].outq = peer[p].outq \/ peer'[p].outq = <<>>
  BY DEF IoMoves, SameAge
<1>5. AgeOk(p)'
  BY <1>1, <1>2, <1>3, <1>4, AgeKept
<1>6. AgeOk(q)'
  BY <1>1, <1>2, <1>3, <1>4, AgeKept
<1>7. LocalOk(p)'
  BY <1>1, <1>4, HasFacts DEF LocalOk
<1>8. LocalOk(q)'
  BY <1>1, <1>4 DEF LocalOk
<1> QED BY <1>0, <1>5, <1>6, <1>7, <1>8

LEMMA DeliverKeeps ==
  ASSUME TypeInv, NEW p \in Ends, NEW q \in Ends, q = Other(p), NEW h, DeliverMoves(p, q, h),
         TypeInv', \A r \in Ends : LocalOk(r) /\ AgeOk(r),
         Connects(peer[p], peer'[p], h) => peer[p].age <= Limit(p)
  PROVE  \A r \in Ends : LocalOk(r)' /\ AgeOk(r)'
<1>0. p # q /\ \A r \in Ends : r = p \/ r = q
  BY OtherEnd
<1>1. LocalOk(p) /\ AgeOk(p) /\ LocalOk(q) /\ AgeOk(q)
  OBVIOUS
<1>2. /\ Coming(q) => Coming(q)'
      /\ ComingNow(q) => ComingNow(q)'
      /\ Asked(q) => Asked(q)'
      /\ ~Has("PING_REQUEST", peer'[p].outq)
  BY <1>1, ComingDeliver DEF LocalOk
<1>3. /\ peer[p].age \in Nat /\ Limit(p) \in Nat /\ peer[q].age \in Nat /\ Limit(q) \in Nat
      /\ peer'[p].ping_on_wire \in BOOLEAN
  <2>1. peer'[p] \in PeerType
    BY DEF TypeInv, TypeOK
  <2> QED BY <2>1, Fields DEF PeerType
<1>4. /\ pc[p] = "update" /\ pc' = pc /\ fresh' = fresh /\ peer'[q] = peer[q]
      /\ inbuf'[q] = inbuf[q] /\ status' = status
      /\ peer'[p].timed_out = peer[p].timed_out
      /\ \/ Fails(peer[p], peer'[p]) \/ Hears(peer[p], peer'[p], h)
         \/ Connects(peer[p], peer'[p], h)
  BY DEF DeliverMoves
<1>5. AgeOk(q)'
  BY <1>1, <1>2, <1>3, <1>4, AgeKept
<1>6. LocalOk(q)'
  BY <1>1, <1>4 DEF LocalOk
<1>7. LocalOk(p)'
  BY <1>1, <1>2, <1>4 DEF LocalOk, Fails, Hears, Connects
<1>8. AgeOk(p)'
  <2>1. CASE Fails(peer[p], peer'[p])
    BY <2>1 DEF Fails, AgeOk
  <2>2. CASE Hears(peer[p], peer'[p], h)
    <3>1. peer'[p].age = 0
      BY <2>2 DEF Hears
    <3> QED BY <1>3, <3>1 DEF AgeOk
  <2>3. CASE Connects(peer[p], peer'[p], h)
    <3>1. peer'[p].age <= Limit(p) /\ peer'[p].age \in Nat /\ peer'[p].ping_on_wire = FALSE
      BY <1>1, <1>3, <2>3 DEF Connects, LocalOk
    <3> QED BY <1>3, <3>1 DEF AgeOk
  <2> QED BY <1>4, <2>1, <2>2, <2>3
<1> QED BY <1>0, <1>5, <1>6, <1>7, <1>8

LEMMA FinishKeeps ==
  ASSUME TypeInv, NEW p \in Ends, NEW q \in Ends, q = Other(p), FinishMoves(p, q),
         TypeInv', \A r \in Ends : LocalOk(r) /\ AgeOk(r), RL_PING_TIMEOUT >= 2
  PROVE  \A r \in Ends : LocalOk(r)' /\ AgeOk(r)'
<1>0. p # q /\ \A r \in Ends : r = p \/ r = q
  BY OtherEnd
<1>1. LocalOk(p) /\ AgeOk(p) /\ LocalOk(q) /\ AgeOk(q)
  OBVIOUS
<1>2. /\ Coming(q) => Coming(q)'
      /\ ComingNow(q) => ComingNow(q)'
      /\ Asked(q) => Coming(q)'
      /\ pc'[p] = "idle" => /\ Coming(p) => Coming(p)'
                            /\ Asked(p) => Asked(p)'
                            /\ ~ComingNow(p)
  BY <1>1, ComingFinish
<1>3. /\ peer[p].age \in Nat /\ Limit(p) \in Nat /\ peer[q].age \in Nat /\ Limit(q) \in Nat
      /\ peer[p].ping_on_wire \in BOOLEAN
  BY Fields
<1>a. peer'[p].ping_on_wire \in BOOLEAN
  <2>1. peer'[p] \in PeerType
    BY DEF TypeInv, TypeOK
  <2> QED BY <2>1 DEF PeerType
<1>b. Limit(p) >= 2
  BY PeerAssumption DEF Limit
<1>4. /\ pc[p] = "update" /\ pc'[q] = pc[q] /\ fresh' = fresh \cup {p} /\ inbuf' = inbuf
      /\ status' = status /\ net'[q] = net[q] /\ peer'[q] = peer[q]
      /\ status[p] = "ok" => inbuf[p] = <<>>
      /\ peer'[p].outq = <<>> /\ peer'[p].age = peer[p].age
  BY DEF FinishMoves
<1>5. AgeOk(q)'
  BY <1>0, <1>1, <1>2, <1>3, <1>4, AgeKept
<1>6. LocalOk(q)'
  BY <1>1, <1>4 DEF LocalOk
<1>7. peer'[p].timed_out = FALSE
  <2>1. peer[p].timed_out = FALSE
    BY <1>1 DEF LocalOk
  <2>2. ASSUME status[p] = "ok", peer[p].state = "CONNECTED", peer[p].ping_on_wire = TRUE,
               peer[p].age > 2 * Limit(p)
        PROVE  FALSE
    <3>1. ~ComingNow(p)
      BY <1>4, <2>2 DEF ComingNow
    <3>2. peer[p].age <= Limit(p) + 3 /\ (peer[p].age = Limit(p) + 3 => ComingNow(p))
      BY <1>1, <2>2 DEF AgeOk
    <3> QED BY <1>3, <1>b, <2>2, <3>1, <3>2
  <2> QED BY <2>1, <2>2 DEF FinishMoves
<1>8. CASE pc'[p] = "gone"
  <2>1. Down(peer'[p])
    BY <1>8 DEF FinishMoves
  <2>2. LocalOk(p)' /\ AgeOk(p)'
    BY <1>4, <1>7, <1>8, <2>1, HasFacts DEF LocalOk, AgeOk, Down
  <2> QED BY <1>0, <1>5, <1>6, <2>2
<1>9. CASE pc'[p] # "gone"
  <2>1. /\ pc'[p] = "idle" /\ status[p] = "ok"
        /\ peer'[p].state = peer[p].state /\ ~Down(peer'[p])
        /\ peer'[p].ping_on_wire = TRUE =>
             peer[p].ping_on_wire = TRUE \/ peer[p].state = "CONNECTED"
        /\ peer[p].ping_on_wire = TRUE => peer'[p].ping_on_wire = TRUE
        /\ peer'[p].state = "CONNECTED" /\ peer'[p].ping_on_wire = FALSE =>
             ~(peer[p].age > Limit(p))
    BY <1>9 DEF FinishMoves
  <2>2. LocalOk(p)'
    <3>1. peer'[p].state = "WAIT_HANDSHAKE" => peer'[p].ping_on_wire = FALSE
      BY <1>1, <1>a, <2>1 DEF LocalOk
    <3> QED BY <1>4, <1>7, <2>1, <3>1, HasFacts DEF LocalOk
  <2>3. AgeOk(p)'
    <3>1. SUFFICES ASSUME peer'[p].state = "CONNECTED" PROVE AgeOk(p)'
      BY DEF AgeOk
    <3>2. CASE peer[p].ping_on_wire = TRUE
      <4>1. peer[p].age <= Limit(p) + 3 /\ (peer[p].age = Limit(p) + 3 => ComingNow(p))
            /\ (peer[p].age = Limit(p) + 2 => Coming(p) \/ Asked(p))
        BY <1>1, <2>1, <3>1, <3>2 DEF AgeOk
      <4>2. peer'[p].ping_on_wire # FALSE
        BY <2>1, <3>2
      <4> QED BY <1>2, <1>3, <1>4, <2>1, <4>1, <4>2 DEF AgeOk
    <3>3. CASE peer[p].ping_on_wire = FALSE
      <4>1. peer[p].age <= Limit(p) + 1
        BY <1>1, <2>1, <3>1, <3>3 DEF AgeOk
      <4>2. peer'[p].ping_on_wire = FALSE => peer[p].age <= Limit(p)
        BY <1>3, <2>1, <3>1
      <4> QED BY <1>3, <1>4, <4>1, <4>2 DEF AgeOk
    <3> QED BY <1>3, <3>2, <3>3
  <2> QED BY <1>0, <1>5, <1>6, <2>2, <2>3
<1> QED BY <1>8, <1>9

LEMMA ProgramKeeps ==
  ASSUME TypeInv, ProgramMoves, \A r \in Ends : LocalOk(r) /\ AgeOk(r)
  PROVE  \A r \in Ends : LocalOk(r)' /\ AgeOk(r)'
<1> DEFINE p == "target"
           q == "controller"
<1>0. p \in Ends /\ q \in Ends /\ \A r \in Ends : r = p \/ r = q
  BY DEF Ends
<1>1. LocalOk(p) /\ AgeOk(p) /\ LocalOk(q) /\ AgeOk(q)
  BY <1>0
<1>2. \A r \in Ends : /\ Coming(r) => Coming(r)'
                      /\ ComingNow(r) => ComingNow(r)'
                      /\ Asked(r) => Asked(r)'
  BY ComingProgram
<1>3. \A r \in Ends : peer[r].age \in Nat /\ Limit(r) \in Nat /\ peer[r].outq \in Seq(Kinds)
  BY Fields
<1>4. /\ inbuf' = inbuf /\ pc' = pc /\ status' = status /\ fresh' = fresh
      /\ peer'[q] = peer[q] /\ peer'[p].age = peer[p].age
      /\ peer'[p].timed_out = peer[p].timed_out
      /\ peer'[p].ping_on_wire = peer[p].ping_on_wire
      /\ \/ peer'[p].state = "ERROR" /\ peer'[p].outq = peer[p].outq
         \/ /\ peer[p].state = "CONNECTED" /\ peer'[p].state = "CONNECTED"
            /\ \E m \in Plain : peer'[p].outq = Append(peer[p].outq, m)
  BY DEF ProgramMoves, SameAge, Fails
<1>5. LocalOk(q)' /\ AgeOk(q)'
  <2>1. LocalOk(q)'
    BY <1>1, <1>4 DEF LocalOk
  <2> QED BY <2>1, <1>0, <1>1, <1>2, <1>3, <1>4, AgeKept
<1>6. AgeOk(p)'
  BY <1>0, <1>1, <1>2, <1>3, <1>4, AgeKept
<1>7. LocalOk(p)'
  <2>1. Plain \subseteq Kinds /\ "PING_REQUEST" \notin Plain /\ "PING_ANSWER" \notin Plain
    BY DEF Plain
  <2>2. \A kind : \A m \in Kinds :
          Has(kind, Append(peer[p].outq, m)) <=> Has(kind, peer[p].outq) \/ kind = m
    BY <1>0, <1>3, HasAppend, Zenon
  <2>3. peer'[p].outq = peer[p].outq \/ \E m \in Plain : peer'[p].outq = Append(peer[p].outq, m)
    BY <1>4
  <2>4. Has("PING_REQUEST", peer'[p].outq) => Has("PING_REQUEST", peer[p].outq)
    BY <2>1, <2>2, <2>3
  <2>5. Has("PING_ANSWER", peer'[p].outq) => Has("PING_ANSWER", peer[p].outq)
    BY <2>1, <2>2, <2>3
  <2> QED BY <1>1, <1>4, <2>4, <2>5 DEF LocalOk, Down
<1> QED BY <1>0, <1>5, <1>6, <1>7

LEMMA CountHas ==
  \A kind \in Kinds : \A s \in Seq(Kinds) : Count(kind, s) # 0 => Has(kind, s)
<1> SUFFICES ASSUME NEW kind \in Kinds, NEW s \in Seq(Kinds), ~Has(kind, s)
             PROVE  Count(kind, s) = 0
  OBVIOUS
<1>1. Places(kind, s) = {}
  BY DEF Has, Places
<1> QED BY <1>1, PlacesFinite, FS_EmptySet

(* Between two updates of both ends, a ping that is out is on the network,  *)
(* or its answer is.                                                        *)
LEMMA PingOnNetwork ==
  ASSUME TypeInv, PingInv, NEW p \in Ends, NEW q \in Ends, q = Other(p),
         pc[p] = "idle", pc[q] = "idle", LocalOk(p), LocalOk(q),
         ~Down(peer[p]), ~Down(peer[q]), peer[p].ping_on_wire = TRUE
  PROVE  Has("PING_REQUEST", net[p]) \/ net[q] # <<>>
<1>0. Other(p) = q /\ Other(q) = p /\ \A r \in Ends : r = p \/ r = q
  BY OtherEnd
<1>1. /\ inbuf[p] \in Seq(Kinds) /\ net[p] \in Seq(Kinds) /\ peer[p].outq \in Seq(Kinds)
      /\ inbuf[q] \in Seq(Kinds) /\ net[q] \in Seq(Kinds) /\ peer[q].outq \in Seq(Kinds)
      /\ peer[p].state \in States /\ peer[q].state \in States
  BY Fields
<1>2. Working
  BY <1>0, <1>1 DEF Working, LocalOk, Down, States
<1>3. Pings(p) = 1
  BY <1>2 DEF PingInv
<1>4. Stream(p) \in Seq(Kinds) /\ Stream(q) \in Seq(Kinds)
  BY StreamOf
<1>5. "PING_REQUEST" \in Kinds /\ "PING_ANSWER" \in Kinds
  BY DEF Kinds
<1>6. Count("PING_REQUEST", Stream(p)) \in Nat /\ Count("PING_ANSWER", Stream(q)) \in Nat
  BY <1>4, <1>5, CountFacts
<1>7. Count("PING_REQUEST", Stream(p)) # 0 \/ Count("PING_ANSWER", Stream(q)) # 0
  BY <1>0, <1>3, <1>6 DEF Pings
<1>8. Has("PING_REQUEST", Stream(p)) \/ Has("PING_ANSWER", Stream(q))
  BY <1>4, <1>5, <1>7, CountHas
<1>9. inbuf[p] = <<>> /\ inbuf[q] = <<>> /\ ~Has("PING_REQUEST", peer[p].outq)
      /\ ~Has("PING_ANSWER", peer[q].outq)
  BY DEF LocalOk
<1>10. Stream(p) = net[p] \o peer[p].outq /\ Stream(q) = net[q] \o peer[q].outq
  BY <1>0, <1>1, <1>9, WholeQueue DEF Stream
<1>11. CASE Has("PING_REQUEST", Stream(p))
  <2>1. Has("PING_REQUEST", net[p]) \/ Has("PING_REQUEST", peer[p].outq)
    BY <1>1, <1>10, <1>11, HasConcat
  <2> QED BY <1>9, <2>1
<1>12. CASE Has("PING_ANSWER", Stream(q))
  <2>1. Has("PING_ANSWER", net[q]) \/ Has("PING_ANSWER", peer[q].outq)
    BY <1>1, <1>10, <1>12, HasConcat
  <2> QED BY <1>1, <1>9, <2>1, HasFacts
<1> QED BY <1>8, <1>11, <1>12

LEMMA TickKeeps ==
  ASSUME TypeInv, PingInv, TickMoves, \A r \in Ends : LocalOk(r) /\ AgeOk(r)
  PROVE  \A r \in Ends : LocalOk(r)' /\ AgeOk(r)'
<1> SUFFICES ASSUME NEW p \in Ends PROVE LocalOk(p)' /\ AgeOk(p)'
  OBVIOUS
<1>0. PICK q \in Ends : q = Other(p)
  BY OtherEnd
<1>1. LocalOk(p) /\ AgeOk(p) /\ LocalOk(q)
  OBVIOUS
<1>2. /\ fresh' = {} /\ inbuf' = inbuf /\ net' = net /\ pc' = pc /\ status' = status
      /\ peer'[p].state = peer[p].state /\ peer'[p].outq = peer[p].outq
      /\ peer'[p].ping_on_wire = peer[p].ping_on_wire
      /\ peer'[p].timed_out = peer[p].timed_out
      /\ peer'[p].age = peer[p].age \/ peer'[p].age = peer[p].age + 1
      /\ peer'[q].state = peer[q].state
      /\ pc[q] = "gone" \/ pc[q] = "idle"
  BY DEF TickMoves
<1>3. LocalOk(p)'
  BY <1>1, <1>2 DEF LocalOk, Down
<1>4. peer[p].age \in Nat /\ Limit(p) \in Nat /\ peer[p].ping_on_wire \in BOOLEAN
  BY Fields
<1>5. ASSUME peer'[p].state = "CONNECTED" PROVE AgeOk(p)'
  <2>1. peer[p].state = "CONNECTED" /\ ~Down(peer[p])
    BY <1>2, <1>5 DEF Down
  <2>2. /\ Coming(p) => Coming(p)' /\ ComingNow(p)'
        /\ ~ComingNow(p) /\ p \in fresh /\ pc[p] = "idle"
    BY <1>1, <2>1, ComingTick
  <2>3. CASE peer[p].ping_on_wire = FALSE
    <3>1. peer[p].age <= Limit(p)
      BY <1>1, <2>1, <2>2, <2>3 DEF AgeOk
    <3>2. peer'[p].age <= Limit(p) + 1
      BY <1>2, <1>4, <3>1
    <3>3. p \notin fresh' /\ peer'[p].ping_on_wire # TRUE
      BY <1>2, <2>3, Zenon
    <3> QED BY <3>2, <3>3 DEF AgeOk
  <2>4. CASE peer[p].ping_on_wire = TRUE
    <3>1. /\ peer[p].age <= Limit(p) + 3
          /\ peer[p].age = Limit(p) + 2 => Coming(p) \/ Asked(p)
          /\ peer[p].age = Limit(p) + 3 => ComingNow(p)
      BY <1>1, <2>1, <2>4 DEF AgeOk
    <3>2. peer[p].age <= Limit(p) + 2
      BY <1>4, <2>2, <3>1
    <3>3. Asked(p) => Coming(p)
      <4>1. q \in fresh \/ pc[q] = "gone"
        BY DEF TickMoves
      <4> QED BY <1>0, <1>2, <4>1 DEF Asked, Coming
    <3>4. peer[p].age = Limit(p) + 2 => ComingNow(p)' /\ Coming(p)'
      BY <2>2, <3>1, <3>3
    <3>5. Coming(p)' \/ Asked(p)'
      <4>1. CASE pc[q] = "gone"
        BY <1>0, <1>2, <4>1 DEF Coming
      <4>2. CASE pc[q] # "gone" /\ Down(peer[q])
        BY <1>0, <1>2, <4>2 DEF Asked, Down
      <4>3. CASE pc[q] # "gone" /\ ~Down(peer[q])
        <5>1. Has("PING_REQUEST", net[p]) \/ net[q] # <<>>
          BY <1>0, <1>1, <1>2, <2>1, <2>2, <2>4, <4>3, PingOnNetwork
        <5> QED BY <1>0, <1>2, <4>3, <5>1 DEF Asked, Coming
      <4> QED BY <4>1, <4>2, <4>3
    <3>6. peer'[p].age <= Limit(p) + 3
      BY <1>2, <1>4, <3>2
    <3>8. peer'[p].ping_on_wire # FALSE
      BY <1>2, <2>4, Zenon
    <3>7. peer'[p].age = Limit(p) + 3 => ComingNow(p)'
      BY <1>2, <1>4, <3>2, <3>4
    <3> QED BY <3>5, <3>6, <3>7, <3>8 DEF AgeOk
  <2> QED BY <1>4, <2>3, <2>4
<1>6. AgeOk(p)'
  BY <1>5 DEF AgeOk
<1> QED BY <1>3, <1>6

-----------------------------------------------------------------------------
(* The two waits for the handshake                                          *)

(* Only a target that gets connected adds a handshake to its stream. *)
LEMMA NoNewHandshake ==
  ASSUME TypeInv, [Next]_vars, peer["target"].state # "WAIT_HANDSHAKE",
         ~Has("HANDSHAKE", Stream("target"))
  PROVE  ~Has("HANDSHAKE", Stream("target"))'
<1>0. "target" \in Ends /\ "controller" \in Ends /\ Other("target") = "controller"
      /\ Other("controller") = "target" /\ \A r \in Ends : r = "target" \/ r = "controller"
  BY DEF Ends, Other
<1>1. StreamStep
  BY StepCases
<1>2. Stream("target") \in Seq(Kinds)
  BY <1>0, StreamOf
<1>a. \A m \in Kinds : Has("HANDSHAKE", Append(Stream("target"), m)) => m = "HANDSHAKE"
  BY <1>2, HasAppend
<1>3. CASE Stream("target")' = Stream("target")
  BY <1>3 DEF Has
<1>4. ASSUME NEW m \in Kinds, SendStep("target", m)
      PROVE  ~Has("HANDSHAKE", Stream("target"))'
  <2>1. m # "HANDSHAKE" /\ Stream("target")' = Append(Stream("target"), m)
    BY <1>4 DEF SendStep, Plain
  <2>2. ~Has("HANDSHAKE", Append(Stream("target"), m))
    BY <1>a, <2>1
  <2> QED BY <2>1, <2>2 DEF Has
<1>5. ASSUME NEW sent \in Seq(Kinds), DeliverStep("controller", sent)
      PROVE  ~Has("HANDSHAKE", Stream("target"))'
  <2>1. Stream("target") # <<>> /\ Stream("target")' = Tail(Stream("target"))
    BY <1>0, <1>5 DEF DeliverStep
  <2>2. ~Has("HANDSHAKE", Tail(Stream("target")))
    BY <1>2, <2>1, HasFacts
  <2> QED BY <2>1, <2>2 DEF Has
<1>6. ASSUME NEW sent \in Seq(Kinds), DeliverStep("target", sent)
      PROVE  ~Has("HANDSHAKE", Stream("target"))'
  <2>1. Stream("target")' = Stream("target") \o sent
    BY <1>6 DEF DeliverStep
  <2>2. sent = <<>> \/ \E m \in Kinds \ {"HANDSHAKE"} : sent = <<m>>
    <3> DEFINE h == Head(Stream("controller"))
    <3>1. \/ Shaken(peer["target"], peer'["target"], h, sent)
          \/ Broken(peer["target"], peer'["target"], h, sent)
          \/ Handled(peer["target"], peer'["target"], h, sent)
      BY <1>0, <1>6 DEF DeliverStep
    <3> HIDE DEF h
    <3>2. ~Shaken(peer["target"], peer'["target"], h, sent)
      BY DEF Shaken
    <3>3. Broken(peer["target"], peer'["target"], h, sent) => sent = <<>>
      BY DEF Broken
    <3>4. Handled(peer["target"], peer'["target"], h, sent) =>
            sent = <<>> \/ \E m \in Kinds \ {"HANDSHAKE"} : sent = <<m>>
      BY DEF Handled, Plain, Kinds
    <3> QED BY <3>1, <3>2, <3>3, <3>4
  <2>3. ~Has("HANDSHAKE", sent)
    BY <2>2, HasSingle, HasFacts
  <2>4. ~Has("HANDSHAKE", Stream("target") \o sent)
    BY <1>2, <2>3, HasConcat
  <2> QED BY <2>1, <2>4 DEF Has
<1>7. \A m \in Kinds : SendStep("controller", m) => Stream("target")' = Stream("target")
  BY <1>0 DEF SendStep
<1>8. QuietStep => Stream("target")' = Stream("target")
  BY <1>0 DEF QuietStep
<1> QED BY <1>0, <1>1, <1>3, <1>4, <1>5, <1>6, <1>7, <1>8 DEF StreamStep

(* A step other than a tick, by its effect. *)
Moves ==
  \/ \E p, q \in Ends : q = Other(p) /\ IoMoves(p, q)
  \/ \E p, q \in Ends : \E h \in Kinds : q = Other(p) /\ DeliverMoves(p, q, h)
  \/ \E p, q \in Ends : q = Other(p) /\ FinishMoves(p, q)
  \/ ProgramMoves

LEMMA StepMoves ==
  ASSUME TypeInv, [Next]_vars, Prompt = TRUE, crashed' = {}
  PROVE  crashed = {} /\ (Moves \/ TickMoves \/ UNCHANGED vars)
<1>0. \A p \in Ends : Other(p) \in Ends
  BY OtherEnd
<1>1. crashed = {}
  <2>1. crashed' = crashed \/ \E p \in Ends : Crash(p)
    BY DEF Next, update_io, deliver, update_finish, device_request, launch_completed, Tick,
           Terminated, vars
  <2> QED BY <2>1 DEF Crash
<1>2. ASSUME NEW p \in Ends, update_io(p) PROVE Moves
  BY <1>0, <1>2, IoEffect DEF Moves
<1>3. ASSUME NEW p \in Ends, deliver(p) PROVE Moves
  <2>1. DeliverMoves(p, Other(p), Head(inbuf[p]))
    BY <1>3, DeliverMovesOne
  <2>2. Head(inbuf[p]) \in Kinds
    BY <1>3, Fields, HeadTailProperties DEF deliver
  <2> QED BY <1>0, <2>1, <2>2 DEF Moves
<1>4. ASSUME NEW p \in Ends, update_finish(p) PROVE Moves
  BY <1>0, <1>4, FinishEffect DEF Moves
<1>5. CASE device_request \/ launch_completed
  BY <1>1, <1>5, ProgramEffect DEF Moves
<1>6. CASE Tick
  BY <1>1, <1>6, TickEffect
<1>7. ASSUME NEW p \in Ends, Crash(p) PROVE FALSE
  BY <1>7 DEF Crash
<1> QED BY <1>1, <1>2, <1>3, <1>4, <1>5, <1>6, <1>7 DEF Next, Terminated

(* Nobody begins to wait, and no age changes between ticks while one does. *)
LEMMA WaitBack ==
  ASSUME Moves, NEW r \in Ends, peer'[r].state = "WAIT_HANDSHAKE"
  PROVE  peer[r].state = "WAIT_HANDSHAKE" /\ peer'[r].age = peer[r].age
<1>0. \A p \in Ends : r = p \/ r = Other(p)
  BY OtherEnd
<1>1. ASSUME NEW p \in Ends, NEW q \in Ends, q = Other(p), IoMoves(p, q)
      PROVE  peer[r].state = "WAIT_HANDSHAKE" /\ peer'[r].age = peer[r].age
  BY <1>0, <1>1 DEF IoMoves, SameAge
<1>2. ASSUME NEW p \in Ends, NEW q \in Ends, NEW h, q = Other(p), DeliverMoves(p, q, h)
      PROVE  peer[r].state = "WAIT_HANDSHAKE" /\ peer'[r].age = peer[r].age
  BY <1>0, <1>2 DEF DeliverMoves, Fails, Hears, Connects
<1>3. ASSUME NEW p \in Ends, NEW q \in Ends, q = Other(p), FinishMoves(p, q)
      PROVE  peer[r].state = "WAIT_HANDSHAKE" /\ peer'[r].age = peer[r].age
  BY <1>0, <1>3 DEF FinishMoves, Down
<1>4. CASE ProgramMoves
  <2>1. r = "target" \/ r = "controller"
    BY DEF Ends
  <2> QED BY <1>4, <2>1 DEF ProgramMoves, Fails
<1> QED BY <1>1, <1>2, <1>3, <1>4 DEF Moves

LEMMA TheEnds ==
  /\ "target" \in Ends /\ "controller" \in Ends
  /\ Other("target") = "controller" /\ Other("controller") = "target"
  /\ \A p, q \in Ends : q = Other(p) =>
       \/ p = "target" /\ q = "controller"
       \/ p = "controller" /\ q = "target"
BY DEF Ends, Other

LEMMA AwaitsKept ==
  ASSUME TypeInv, Moves, \A r \in Ends : LocalOk(r), NEW n, Awaits(n),
         peer'["target"].state = "WAIT_HANDSHAKE"
  PROVE  Awaits(n)'
<1> DEFINE t == "target"
           c == "controller"
           Speaks == /\ c \notin fresh /\ pc[c] # "gone"
                     /\ Down(peer[c]) \/ peer[c].outq # <<>>
<1>0. t \in Ends /\ c \in Ends /\ Other(t) = c /\ Other(c) = t /\ t # c
  BY TheEnds
<1>1. LocalOk(t) /\ LocalOk(c)
  BY <1>0
<1>2. peer[c].outq \in Seq(Kinds) /\ net[c] \in Seq(Kinds)
  BY <1>0, Fields
<1>3. SUFFICES /\ Coming(t) => Coming(t)'
               /\ ComingNow(t) => ComingNow(t)'
               /\ Speaks => Coming(t)' \/ Speaks'
  BY DEF Awaits
<1>4. CASE IoMoves(t, c)
  <2>1. (Coming(t) => Coming(t)') /\ (ComingNow(t) => ComingNow(t)')
    BY <1>0, <1>1, <1>4, ComingIo
  <2>2. Speaks => Speaks'
    BY <1>4 DEF IoMoves
  <2> QED BY <2>1, <2>2
<1>5. CASE IoMoves(c, t)
  <2>1. (Coming(t) => Coming(t)') /\ (ComingNow(t) => ComingNow(t)')
    BY <1>0, <1>1, <1>5, ComingIo
  <2>2. peer'[c].outq = peer[c].outq \/ (peer[c].outq # <<>> => net'[c] # <<>>)
    BY <1>2, <1>5, NotEmpty DEF IoMoves
  <2>3. net'[c] # <<>> => Coming(t)'
    BY <1>0 DEF Coming
  <2>4. Speaks => Coming(t)' \/ Speaks'
    BY <1>5, <2>2, <2>3 DEF IoMoves, Down
  <2> QED BY <2>1, <2>4
<1>6. ASSUME NEW h, DeliverMoves(t, c, h) PROVE FALSE
  BY <1>6 DEF DeliverMoves, Fails, Hears, Connects
<1>7. ASSUME NEW h, DeliverMoves(c, t, h)
      PROVE  /\ Coming(t) => Coming(t)'
             /\ ComingNow(t) => ComingNow(t)'
             /\ Speaks => Coming(t)' \/ Speaks'
  <2>1. /\ Coming(t) => Coming(t)'
        /\ ComingNow(t) => ComingNow(t)'
        /\ peer[c].outq # <<>> => peer'[c].outq # <<>>
    BY <1>0, <1>7, ComingDeliver
  <2>2. Down(peer[c]) => Down(peer'[c])
    BY <1>7 DEF DeliverMoves, Fails, Hears, Connects, Down
  <2>3. Speaks => Speaks'
    BY <1>7, <2>1, <2>2 DEF DeliverMoves
  <2> QED BY <2>1, <2>3
<1>8. CASE FinishMoves(t, c)
  <2>1. pc'[t] = "idle"
    BY <1>8 DEF FinishMoves, Down
  <2>2. (Coming(t) => Coming(t)') /\ ~ComingNow(t)
    BY <1>0, <1>1, <1>8, <2>1, ComingFinish
  <2>3. Speaks => Speaks'
    BY <1>0, <1>8 DEF FinishMoves
  <2> QED BY <2>2, <2>3
<1>9. CASE FinishMoves(c, t)
  <2>1. /\ Coming(t) => Coming(t)'
        /\ ComingNow(t) => ComingNow(t)'
        /\ peer[c].outq # <<>> \/ Down(peer[c]) => Coming(t)'
    BY <1>0, <1>1, <1>9, ComingFinish
  <2> QED BY <2>1
<1>10. CASE ProgramMoves
  BY <1>10 DEF ProgramMoves, Fails
<1> QED BY TheEnds, <1>4, <1>5, <1>6, <1>7, <1>8, <1>9, <1>10 DEF Moves

LEMMA NearsKept ==
  ASSUME TypeInv, [Next]_vars, Moves, \A r \in Ends : LocalOk(r), NEW n, Nears(n),
         peer["target"].state # "WAIT_HANDSHAKE", peer'["controller"].state = "WAIT_HANDSHAKE"
  PROVE  Nears(n)'
<1> DEFINE t == "target"
           c == "controller"
           Answers == pc[t] = "update" /\ peer[t].outq # <<>>
<1>0. t \in Ends /\ c \in Ends /\ Other(t) = c /\ Other(c) = t /\ t # c
  BY TheEnds
<1>1. LocalOk(t) /\ LocalOk(c)
  BY <1>0
<1>2. ~Has("HANDSHAKE", Stream(t)) => ~Has("HANDSHAKE", Stream(t))'
  BY NoNewHandshake
<1>3. SUFFICES /\ Coming(c) => Coming(c)'
               /\ ComingNow(c) => ComingNow(c)'
               /\ Answers => Coming(c)' \/ Answers'
  BY <1>2 DEF Nears
<1>4. CASE IoMoves(t, c)
  <2>1. (Coming(c) => Coming(c)') /\ (ComingNow(c) => ComingNow(c)')
    BY <1>0, <1>1, <1>4, ComingIo
  <2>2. ~Answers
    BY <1>4 DEF IoMoves
  <2> QED BY <2>1, <2>2
<1>5. CASE IoMoves(c, t)
  <2>1. (Coming(c) => Coming(c)') /\ (ComingNow(c) => ComingNow(c)')
    BY <1>0, <1>1, <1>5, ComingIo
  <2>2. Answers => Answers'
    BY <1>5 DEF IoMoves
  <2> QED BY <2>1, <2>2
<1>6. ASSUME NEW h, DeliverMoves(c, t, h) PROVE FALSE
  BY <1>6 DEF DeliverMoves, Fails, Hears, Connects
<1>7. ASSUME NEW h, DeliverMoves(t, c, h)
      PROVE  /\ Coming(c) => Coming(c)'
             /\ ComingNow(c) => ComingNow(c)'
             /\ Answers => Coming(c)' \/ Answers'
  <2>1. /\ Coming(c) => Coming(c)'
        /\ ComingNow(c) => ComingNow(c)'
        /\ peer[t].outq # <<>> => peer'[t].outq # <<>>
    BY <1>0, <1>7, ComingDeliver
  <2>2. Answers => Answers'
    BY <1>7, <2>1 DEF DeliverMoves
  <2> QED BY <2>1, <2>2
<1>8. CASE FinishMoves(c, t)
  <2>1. pc'[c] = "idle"
    BY <1>8 DEF FinishMoves, Down
  <2>2. (Coming(c) => Coming(c)') /\ ~ComingNow(c)
    BY <1>0, <1>1, <1>8, <2>1, ComingFinish
  <2>3. Answers => Answers'
    BY <1>0, <1>8 DEF FinishMoves
  <2> QED BY <2>2, <2>3
<1>9. CASE FinishMoves(t, c)
  <2>1. /\ Coming(c) => Coming(c)'
        /\ ComingNow(c) => ComingNow(c)'
        /\ peer[t].outq # <<>> => Coming(c)'
    BY <1>0, <1>1, <1>9, ComingFinish
  <2> QED BY <2>1
<1>10. CASE ProgramMoves
  <2>1. (Coming(c) => Coming(c)') /\ (ComingNow(c) => ComingNow(c)')
    BY <1>0, <1>10, ComingProgram
  <2>2. ~Answers
    BY <1>10 DEF ProgramMoves
  <2> QED BY <2>1, <2>2
<1> QED BY TheEnds, <1>4, <1>5, <1>6, <1>7, <1>8, <1>9, <1>10 DEF Moves

(* An empty stream is made of empty queues. *)
LEMMA EmptyStream ==
  ASSUME TypeInv, NEW p \in Ends, NEW q \in Ends, q = Other(p), Stream(p) = <<>>
  PROVE  inbuf[q] = <<>> /\ net[p] = <<>> /\ peer[p].outq = <<>>
<1>1. inbuf[q] \in Seq(Kinds) /\ net[p] \in Seq(Kinds) /\ peer[p].outq \in Seq(Kinds)
  BY Fields
<1>2. inbuf[q] \o net[p] \in Seq(Kinds) /\ inbuf[q] \o net[p] = <<>> /\ peer[p].outq = <<>>
  BY <1>1, NotEmpty DEF Stream
<1> QED BY <1>1, <1>2, NotEmpty

(* The target handles the controller's handshake: its own is in its output  *)
(* queue, or there will be none.                                            *)
LEMMA NearsStarts ==
  ASSUME TypeInv, AgreeInv, Moves, NEW n, Awaits(n),
         peer["target"].state = "WAIT_HANDSHAKE", peer'["target"].state # "WAIT_HANDSHAKE",
         peer'["controller"].state = "WAIT_HANDSHAKE"
  PROVE  Nears(n)'
<1> DEFINE t == "target"
           c == "controller"
<1>0. t \in Ends /\ c \in Ends /\ Other(t) = c /\ Other(c) = t /\ t # c
  BY TheEnds
<1>1. inbuf[c] = <<>> /\ net[t] = <<>> /\ peer[t].outq = <<>>
  <2>1. Stream(t) = <<>>
    BY <1>0 DEF AgreeInv
  <2> QED BY <1>0, <2>1, EmptyStream
<1>2. n \in {0, 1}
  BY DEF Awaits
<1>3. <<>> \in Seq(Kinds) /\ <<>> \o <<>> = <<>> /\ ~Has("HANDSHAKE", <<>>)
  <2>1. <<>> \in Seq(Kinds)
    BY EmptySeq
  <2> QED BY <2>1, WholeQueue, HasFacts
<1>4. ASSUME inbuf'[c] = <<>>, net'[t] = <<>>, peer'[t].outq = <<>> PROVE Nears(n)'
  <2>1. Stream(t)' = <<>>
    BY <1>0, <1>3, <1>4 DEF Stream
  <2> QED BY <1>3, <2>1 DEF Nears, Has
<1>5. ASSUME NEW h, DeliverMoves(t, c, h) PROVE Nears(n)'
  <2>1. inbuf'[c] = <<>> /\ net'[t] = <<>> /\ pc'[t] = "update"
    BY <1>1, <1>5 DEF DeliverMoves
  <2>2. \/ peer'[t].outq = <<>>
        \/ peer'[t].outq = Append(<<>>, "HANDSHAKE")
    <3>1. peer[t].end = "target"
      BY <1>0, Fields
    <3> QED BY <1>1, <1>5, <3>1 DEF DeliverMoves, Fails, Hears, Connects
  <2>3. "HANDSHAKE" \in Kinds
    BY DEF Kinds
  <2>4. Append(<<>>, "HANDSHAKE") # <<>>
    BY <1>3, <2>3, HasFacts
  <2> QED BY <1>2, <1>4, <2>1, <2>2, <2>4 DEF Nears
<1>6. ASSUME FinishMoves(t, c) PROVE Nears(n)'
  <2>1. inbuf'[c] = <<>> /\ peer'[t].outq = <<>>
    BY <1>1, <1>6 DEF FinishMoves
  <2>2. "PING_REQUEST" \in Kinds
    BY DEF Kinds
  <2> DEFINE a == Append(<<>>, "PING_REQUEST")
  <2>3. a \in Seq(Kinds) /\ ~Has("HANDSHAKE", a)
    BY <1>3, <2>2, AppendType, HasAppend
  <2> HIDE DEF a
  <2>4. net'[t] = <<>> \o <<>> \/ net'[t] = <<>> \o a
    BY <1>1, <1>6 DEF FinishMoves, a
  <2>5. <<>> \o a = a /\ a \o <<>> = a
    BY <2>3, WholeQueue
  <2>6. net'[t] = <<>> \/ net'[t] = a
    BY <1>3, <2>4, <2>5
  <2>7. CASE net'[t] = <<>>
    BY <1>4, <2>1, <2>7
  <2>8. CASE net'[t] = a
    <3>1. Stream(t)' = a
      BY <1>0, <2>1, <2>5, <2>8 DEF Stream
    <3> QED BY <2>3, <3>1 DEF Nears, Has
  <2> QED BY <2>6, <2>7, <2>8
<1>7. CASE ProgramMoves
  BY <1>1, <1>4, <1>7 DEF ProgramMoves, Fails
<1>8. ~IoMoves(t, c) /\ ~IoMoves(c, t) /\ ~FinishMoves(c, t) /\ \A h : ~DeliverMoves(c, t, h)
  BY DEF IoMoves, FinishMoves, DeliverMoves
<1> QED BY TheEnds, <1>5, <1>6, <1>7, <1>8 DEF Moves

LEMMA WaitTick ==
  ASSUME TickMoves, \A r \in Ends : LocalOk(r), NEW n \in Nat
  PROVE  /\ peer["target"].state = "WAIT_HANDSHAKE" /\ Awaits(n) =>
              Awaits(n)' /\ Awaits(n + 1)'
         /\ peer["controller"].state = "WAIT_HANDSHAKE" /\ Nears(n) =>
              Nears(n)' /\ Nears(n + 1)'
<1> DEFINE t == "target"
           c == "controller"
<1>0. t \in Ends /\ c \in Ends /\ Other(t) = c /\ Other(c) = t /\ t # c
  BY TheEnds
<1>1. LocalOk(t) /\ LocalOk(c)
  BY <1>0
<1>2. ASSUME peer[t].state = "WAIT_HANDSHAKE", Awaits(n) PROVE Awaits(n)' /\ Awaits(n + 1)'
  <2>1. (Coming(t) => Coming(t)' /\ ComingNow(t)') /\ ~ComingNow(t)
    BY <1>0, <1>1, <1>2, ComingTick DEF Down
  <2>2. c \in fresh \/ pc[c] = "gone"
    BY <1>0 DEF TickMoves
  <2>3. n = 0 /\ Coming(t)
    BY <1>2, <2>1, <2>2 DEF Awaits
  <2> QED BY <2>1, <2>3 DEF Awaits
<1>3. ASSUME peer[c].state = "WAIT_HANDSHAKE", Nears(n) PROVE Nears(n)' /\ Nears(n + 1)'
  <2>1. (Coming(c) => Coming(c)' /\ ComingNow(c)') /\ ~ComingNow(c)
    BY <1>0, <1>1, <1>3, ComingTick DEF Down
  <2>2. pc[t] # "update"
    BY <1>0 DEF TickMoves
  <2>3. CASE ~Has("HANDSHAKE", Stream(t))
    <3>1. Stream(t)' = Stream(t)
      BY <1>0 DEF TickMoves, Stream
    <3> QED BY <2>3, <3>1 DEF Nears, Has
  <2>4. CASE n \in {0, 1} /\ Coming(c)
    <3>1. Coming(c)' /\ ComingNow(c)' /\ (n + 1 = 1 \/ n + 1 = 2)
      BY <2>1, <2>4
    <3> QED BY <2>4, <3>1 DEF Nears
  <2> QED BY <1>3, <2>1, <2>2, <2>3, <2>4 DEF Nears
<1> QED BY <1>2, <1>3

LEMMA WaitStep ==
  ASSUME TypeInv, AgreeInv, [Next]_vars, WaitOk, \A r \in Ends : LocalOk(r),
         Moves \/ TickMoves
  PROVE  WaitOk'
<1> DEFINE t == "target"
           c == "controller"
<1>0. t \in Ends /\ c \in Ends
  BY TheEnds
<1>1. PICK n, k : n = peer[t].age /\ k = peer[c].age
  OBVIOUS
<1>2. n \in Nat /\ k \in Nat
  BY <1>0, <1>1, Fields
<1>3. CASE Moves
  <2>1. ASSUME peer'[t].state = "WAIT_HANDSHAKE"
        PROVE  peer[t].state = "WAIT_HANDSHAKE" /\ Awaits(n)' /\ peer'[t].age = n
    <3>1. peer[t].state = "WAIT_HANDSHAKE" /\ peer'[t].age = n
      BY <1>0, <1>1, <1>3, <2>1, WaitBack
    <3>2. Awaits(n)
      BY <1>1, <3>1 DEF WaitOk
    <3> QED BY <1>3, <2>1, <3>1, <3>2, AwaitsKept
  <2>2. ASSUME peer'[c].state = "WAIT_HANDSHAKE"
        PROVE  /\ peer'[c].age = k
               /\ IF peer'[t].state = "WAIT_HANDSHAKE" THEN Awaits(k)' ELSE Nears(k)'
    <3>1. peer[c].state = "WAIT_HANDSHAKE" /\ peer'[c].age = k
      BY <1>0, <1>1, <1>3, <2>2, WaitBack
    <3>2. IF peer[t].state = "WAIT_HANDSHAKE" THEN Awaits(k) ELSE Nears(k)
      BY <1>1, <3>1 DEF WaitOk
    <3>3. CASE peer'[t].state = "WAIT_HANDSHAKE"
      BY <1>3, <2>1, <3>1, <3>2, <3>3, AwaitsKept
    <3>4. CASE peer'[t].state # "WAIT_HANDSHAKE" /\ peer[t].state = "WAIT_HANDSHAKE"
      BY <1>3, <2>2, <3>1, <3>2, <3>4, NearsStarts
    <3>5. CASE peer'[t].state # "WAIT_HANDSHAKE" /\ peer[t].state # "WAIT_HANDSHAKE"
      BY <1>3, <2>2, <3>1, <3>2, <3>5, NearsKept
    <3> QED BY <3>3, <3>4, <3>5
  <2> QED BY <2>1, <2>2 DEF WaitOk
<1>4. CASE TickMoves
  <2>1. /\ peer'[t].state = peer[t].state /\ peer'[c].state = peer[c].state
        /\ peer'[t].age = n \/ peer'[t].age = n + 1
        /\ peer'[c].age = k \/ peer'[c].age = k + 1
    BY <1>0, <1>1, <1>4 DEF TickMoves
  <2>2. peer[t].state = "WAIT_HANDSHAKE" => Awaits(n)' /\ Awaits(n + 1)'
    BY <1>1, <1>2, <1>4, WaitTick DEF WaitOk
  <2>3. peer[c].state = "WAIT_HANDSHAKE" /\ peer[t].state = "WAIT_HANDSHAKE" =>
          Awaits(k)' /\ Awaits(k + 1)'
    BY <1>1, <1>2, <1>4, WaitTick DEF WaitOk
  <2>4. peer[c].state = "WAIT_HANDSHAKE" /\ peer[t].state # "WAIT_HANDSHAKE" =>
          Nears(k)' /\ Nears(k + 1)'
    BY <1>1, <1>2, <1>4, WaitTick DEF WaitOk
  <2>5. peer'[t].state = "WAIT_HANDSHAKE" => Awaits(peer[t].age)'
    BY <2>1, <2>2
  <2>6. peer'[c].state = "WAIT_HANDSHAKE" =>
          IF peer'[t].state = "WAIT_HANDSHAKE" THEN Awaits(peer[c].age)' ELSE Nears(peer[c].age)'
    BY <2>1, <2>3, <2>4
  <2> QED BY <2>5, <2>6 DEF WaitOk
<1> QED BY <1>3, <1>4

(* An end gets connected before it would have to ping. *)
LEMMA ConnectsInTime ==
  ASSUME TypeInv, AgreeInv, WaitOk, RL_PING_TIMEOUT >= 2, NEW p \in Ends, NEW q \in Ends,
         q = Other(p), NEW h, DeliverMoves(p, q, h), Connects(peer[p], peer'[p], h)
  PROVE  peer[p].age <= Limit(p)
<1>0. "target" \in Ends /\ "controller" \in Ends
      /\ Other("target") = "controller" /\ Other("controller") = "target"
  BY TheEnds
<1>1. peer[p].state = "WAIT_HANDSHAKE" /\ h = "HANDSHAKE"
      /\ inbuf[p] # <<>> /\ h = Head(inbuf[p])
  BY DEF Connects, DeliverMoves
<1>2. CASE p = "target"
  <2>1. Awaits(peer[p].age)
    BY <1>1, <1>2 DEF WaitOk
  <2>2. peer[p].age = 0 \/ peer[p].age = 1
    BY <2>1 DEF Awaits
  <2> QED BY <1>2, <2>2, PeerAssumption DEF Limit
<1>3. CASE p = "controller"
  <2>1. Has("HANDSHAKE", Stream("target"))
    <3>1. /\ inbuf[p] \in Seq(Kinds) /\ net["target"] \in Seq(Kinds)
          /\ peer["target"].outq \in Seq(Kinds)
      BY <1>0, Fields
    <3>2. Has("HANDSHAKE", inbuf[p])
      BY <1>1, <3>1, HasFacts
    <3>3. inbuf[p] \o net["target"] \in Seq(Kinds) /\ Has("HANDSHAKE", inbuf[p] \o net["target"])
      BY <3>1, <3>2, HasConcat, NotEmpty
    <3> QED BY <1>0, <1>3, <3>1, <3>3, HasConcat DEF Stream
  <2>2. peer["target"].state # "WAIT_HANDSHAKE"
    <3>1. Stream("target") # <<>>
      BY <2>1, HasFacts
    <3> QED BY <1>0, <3>1 DEF AgreeInv
  <2>3. Nears(peer[p].age)
    BY <1>1, <1>3, <2>2 DEF WaitOk
  <2>4. peer[p].age \in {0, 1, 2}
    BY <2>1, <2>3 DEF Nears
  <2> QED BY <1>3, <2>4, PeerAssumption DEF Limit
<1> QED BY <1>2, <1>3 DEF Ends

LEMMA TimeStep ==
  ASSUME TimeInv, [Next]_vars, Prompt = TRUE, RL_PING_TIMEOUT >= 2
  PROVE  TimeInv'
<1>1. AgreeInv /\ PingInv /\ TypeInv
  BY DEF TimeInv, AgreeInv
<1>2. AgreeInv' /\ PingInv' /\ TypeInv'
  BY <1>1, AgreeStep, PingStep DEF AgreeInv
<1>3. ASSUME crashed' = {}
      PROVE  (\A p \in Ends : LocalOk(p)' /\ AgeOk(p)') /\ WaitOk'
  <2>1. crashed = {} /\ (Moves \/ TickMoves \/ UNCHANGED vars)
    BY <1>1, <1>3, StepMoves
  <2>2. (\A p \in Ends : LocalOk(p) /\ AgeOk(p)) /\ WaitOk
    BY <2>1 DEF TimeInv
  <2>3. CASE UNCHANGED vars
    <3>1. peer' = peer /\ inbuf' = inbuf /\ net' = net /\ pc' = pc /\ status' = status
          /\ fresh' = fresh
      BY <2>3 DEF vars
    <3>2. \A p \in Ends : LocalOk(p)'
      BY <2>2, <3>1 DEF LocalOk
    <3>3. \A p \in Ends : AgeOk(p)'
      BY <2>2, <3>1 DEF AgeOk, Coming, ComingNow, Asked
    <3>4. WaitOk'
      BY <2>2, <3>1 DEF WaitOk, Awaits, Nears, Coming, ComingNow, Stream
    <3> QED BY <3>2, <3>3, <3>4
  <2>4. CASE Moves \/ TickMoves
    <3>1. WaitOk'
      BY <1>1, <2>2, <2>4, WaitStep
    <3>2. ASSUME NEW p \in Ends, NEW q \in Ends, q = Other(p), IoMoves(p, q)
          PROVE  \A r \in Ends : LocalOk(r)' /\ AgeOk(r)'
      BY <1>1, <2>2, <3>2, IoKeeps
    <3>3. ASSUME NEW p \in Ends, NEW q \in Ends, NEW h \in Kinds, q = Other(p), DeliverMoves(p, q, h)
          PROVE  \A r \in Ends : LocalOk(r)' /\ AgeOk(r)'
      <4>1. Connects(peer[p], peer'[p], h) => peer[p].age <= Limit(p)
        BY <1>1, <2>2, <3>3, ConnectsInTime
      <4> QED BY <1>1, <1>2, <2>2, <3>3, <4>1, DeliverKeeps
    <3>4. ASSUME NEW p \in Ends, NEW q \in Ends, q = Other(p), FinishMoves(p, q)
          PROVE  \A r \in Ends : LocalOk(r)' /\ AgeOk(r)'
      BY <1>1, <1>2, <2>2, <3>4, FinishKeeps
    <3>5. CASE ProgramMoves
      BY <1>1, <2>2, <3>1, <3>5, ProgramKeeps
    <3>6. CASE TickMoves
      BY <1>1, <2>2, <3>1, <3>6, TickKeeps
    <3> QED BY <2>4, <3>1, <3>2, <3>3, <3>4, <3>5, <3>6 DEF Moves
  <2> QED BY <2>1, <2>3, <2>4
<1> QED BY <1>2, <1>3 DEF TimeInv

LEMMA TimeInit ==
  ASSUME Init
  PROVE  TimeInv
<1>1. AgreeInv /\ PingInv
  BY AgreeInit, PingInit
<1>2. TypeInv /\ \A p \in Ends : /\ peer[p].ping_on_wire = FALSE /\ ~peer[p].timed_out
                                 /\ peer[p].state \in {"WAIT_HANDSHAKE", "ERROR"}
  BY InitStreams
<1>3. PICK ok \in EnqueueResults : peer = [p \in Ends |-> peer_init(p, ok)]
  BY DEF Init
<1>4. /\ inbuf = [p \in Ends |-> <<>>] /\ net = [p \in Ends |-> <<>>]
      /\ pc = [p \in Ends |-> "idle"] /\ status = [p \in Ends |-> "ok"]
      /\ fresh = {} /\ crashed = {}
  BY DEF Init
<1>5. "target" \in Ends /\ "controller" \in Ends /\ \A p \in Ends : p = "target" \/ p = "controller"
  BY DEF Ends
<1>6. peer["target"].outq = <<>> /\ peer["target"].age = 0
  BY <1>3, <1>5 DEF peer_init, NewPeer
<1>7. /\ peer["controller"].age = 0
      /\ \/ peer["controller"].outq = Append(<<>>, "HANDSHAKE")
         \/ peer["controller"].outq = <<>> /\ peer["controller"].state = "ERROR"
  <2>1. peer["controller"] = on_transmit_handshake(NewPeer("controller"), ok)
    BY <1>3, <1>5 DEF peer_init
  <2> QED BY <2>1 DEF on_transmit_handshake, enqueue_output_message, Failed, NewPeer
<1>8. <<>> \in Seq(Kinds) /\ "HANDSHAKE" \in Kinds
  BY EmptySeq DEF Kinds
<1>9. Append(<<>>, "HANDSHAKE") # <<>> /\ \A kind : Has(kind, Append(<<>>, "HANDSHAKE")) => kind = "HANDSHAKE"
  BY <1>8, HasFacts
<1>10. \A p \in Ends : ~Has("PING_REQUEST", peer[p].outq) /\ ~Has("PING_ANSWER", peer[p].outq)
  BY <1>5, <1>6, <1>7, <1>9, HasFacts
<1>11. \A p \in Ends : LocalOk(p)
  <2>1. \A p \in Ends : peer[p].timed_out = FALSE
    BY <1>2 DEF TypeInv, TypeOK, PeerType
  <2> QED BY <1>2, <1>4, <1>10, <2>1 DEF LocalOk
<1>12. \A p \in Ends : AgeOk(p)
  BY <1>2 DEF AgeOk
<1>13. Awaits(0)
  BY <1>4, <1>5, <1>7, <1>9 DEF Awaits, Down
<1>14. Nears(0)
  <2>1. Stream("target") = <<>>
    BY InitStreams
  <2> QED BY <2>1, HasFacts DEF Nears
<1>15. WaitOk
  BY <1>6, <1>7, <1>13, <1>14 DEF WaitOk
<1> QED BY <1>1, <1>11, <1>12, <1>15 DEF TimeInv

(* NoFalseTimeout: as long as neither end vanishes, neither declares the    *)
(* other dead (the branch of on_update_connected that gives up), also when  *)
(* both ping at the same moment, while a handshake is outstanding, and      *)
(* whichever allocation fails.  It takes loops that read and write all there*)
(* is once a second, and a limit of at least two seconds (it is 30): a ping *)
(* goes out in the first second past the limit, is answered in the second   *)
(* and the answer read in the third, at age threshold + 3, before the       *)
(* comparison with twice the threshold.                                     *)
THEOREM LiveEndsAreNotTimedOut ==
  ASSUME Prompt = TRUE, RL_PING_TIMEOUT >= 2
  PROVE  Spec => []NoFalseTimeout
<1>1. Init => TimeInv
  BY TimeInit
<1>2. TimeInv /\ [Next]_vars => TimeInv'
  BY TimeStep
<1>3. TimeInv => NoFalseTimeout
  BY DEF TimeInv, LocalOk, NoFalseTimeout
<1> QED BY <1>1, <1>2, <1>3, PTL DEF Spec
=============================================================================
