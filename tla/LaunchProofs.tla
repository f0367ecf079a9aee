----------------------------- MODULE LaunchProofs -----------------------------
(***************************************************************************)
(* Proofs about Launch for any number of controllers, of processes on each *)
(* volume, of events from outside and of peer indices.                     *)
(***************************************************************************)
EXTENDS Launch, TLAPS, SequenceTheorems, WellFoundedInduction

-----------------------------------------------------------------------------
(* Following the list                                                       *)

(* Induction over the naturals, with the property as a set. *)
LEMMA NatInductionSet ==
  ASSUME NEW G, 0 \in G, \A k \in Nat : k \in G => k + 1 \in G
  PROVE  \A k \in Nat : k \in G
<1> DEFINE T == {k \in Nat : k \notin G}
<1> SUFFICES ASSUME T # {} PROVE FALSE
  OBVIOUS
<1>1. PICK x \in T : \A y \in T : ~(<<y, x>> \in OpToRel(<, Nat))
  BY NatLessThanWellFounded, WFMin
<1>2. x \in Nat \ {0} /\ x \notin G
  OBVIOUS
<1>3. x - 1 \in Nat /\ x - 1 < x /\ x - 1 + 1 = x
  BY <1>2
<1>4. x - 1 \in T
  BY <1>2, <1>3
<1>5. <<x - 1, x>> \in OpToRel(<, Nat)
  <2>1. <<x - 1, x>> \in Nat \X Nat
    BY <1>2, <1>3
  <2> QED
    BY <1>3, <2>1, Zenon DEF OpToRel
<1> QED
  BY <1>1, <1>4, <1>5, Zenon

(* There is a function as the definition of Walk wants it. *)
Follows(f, k, p, nx) ==
  f = [i \in 0 .. k |-> IF i = 0 THEN p
                        ELSE IF f[i - 1] = NULL THEN NULL ELSE nx[f[i - 1]]]

LEMMA WalkExists ==
  ASSUME NEW p, NEW nx
  PROVE  \A k \in Nat : \E f : Follows(f, k, p, nx)
<1> USE DEF Follows
<1> DEFINE Is(k, f) == Follows(f, k, p, nx)
           G == {k \in Nat : \E f : Is(k, f)}
<1>1. 0 \in G
  <2> DEFINE f == [i \in 0 .. 0 |-> p]
  <2>1. Is(0, f)
    OBVIOUS
  <2> HIDE DEF f, Is
  <2> QED
    BY <2>1
<1>2. ASSUME NEW k \in Nat, k \in G PROVE k + 1 \in G
  <2>1. PICK f : Is(k, f)
    BY <1>2
  <2> DEFINE g == [i \in 0 .. k + 1 |->
                     IF i = k + 1 THEN (IF f[k] = NULL THEN NULL ELSE nx[f[k]]) ELSE f[i]]
  <2>2. \A i \in 0 .. k : g[i] = f[i]
    OBVIOUS
  <2>3. f[0] = p /\ \A i \in 1 .. k : f[i] = IF f[i - 1] = NULL THEN NULL ELSE nx[f[i - 1]]
    BY <2>1
  <2>4. ASSUME NEW i \in 0 .. k + 1
        PROVE  g[i] = IF i = 0 THEN p ELSE IF g[i - 1] = NULL THEN NULL ELSE nx[g[i - 1]]
    <3>1. CASE i = 0
      BY <2>2, <2>3, <3>1
    <3>2. CASE i \in 1 .. k
      <4>1. i - 1 \in 0 .. k /\ i \in 0 .. k
        BY <3>2
      <4> QED
        BY <2>2, <2>3, <3>2, <4>1
    <3>3. CASE i = k + 1
      <4>1. i - 1 = k /\ k \in 0 .. k /\ i # 0
        BY <3>3
      <4> QED
        BY <2>2, <3>3, <4>1
    <3> QED
      BY <3>1, <3>2, <3>3
  <2>5. g = [i \in 0 .. k + 1 |-> g[i]]
    OBVIOUS
  <2> HIDE DEF g
  <2>6. Is(k + 1, g)
    BY <2>4, <2>5
  <2> HIDE DEF Is
  <2> QED
    BY <2>6
<1> HIDE DEF G
<1>3. \A k \in Nat : k \in G
  BY <1>1, <1>2, NatInductionSet
<1> QED
  BY <1>3 DEF G

(* Walk follows the pointers. *)
LEMMA WalkIs ==
  /\ Walk[0] = peers
  /\ \A i \in 1 .. MaxConns : Walk[i] = IF Walk[i - 1] = NULL THEN NULL ELSE next[Walk[i - 1]]
<1>1. \E f : Follows(f, MaxConns, peers, next)
  <2>1. MaxConns \in Nat
    BY LinksAssumption
  <2> QED
    BY <2>1, WalkExists, Zenon
<1>2. Walk = [i \in 0 .. MaxConns |->
                IF i = 0 THEN peers
                ELSE IF Walk[i - 1] = NULL THEN NULL ELSE next[Walk[i - 1]]]
  <2>1. Walk = CHOOSE f : Follows(f, MaxConns, peers, next)
    BY DEF Walk, Follows
  <2>2. Follows(Walk, MaxConns, peers, next)
    BY <1>1, <2>1, Zenon
  <2> QED
    BY <2>2 DEF Follows
<1>3. 0 \in 0 .. MaxConns /\ \A i \in 1 .. MaxConns : i \in 0 .. MaxConns /\ i # 0
  BY LinksAssumption
<1> QED
  BY <1>2, <1>3

(* The list has nothing but peers in it. *)
LEMMA WalkType ==
  ASSUME peers \in Conns \cup {NULL}, next \in [Conns -> Conns \cup {NULL}]
  PROVE  /\ \A i \in 0 .. MaxConns : Walk[i] \in Conns \cup {NULL}
         /\ Listed \subseteq Conns
<1> DEFINE G == {i \in Nat : i <= MaxConns => Walk[i] \in Conns \cup {NULL}}
<1>1. 0 \in G
  BY WalkIs
<1>2. ASSUME NEW k \in Nat, k \in G PROVE k + 1 \in G
  <2> SUFFICES ASSUME k + 1 <= MaxConns PROVE Walk[k + 1] \in Conns \cup {NULL}
    OBVIOUS
  <2>1. k + 1 \in 1 .. MaxConns /\ k + 1 - 1 = k /\ k <= MaxConns
    BY LinksAssumption
  <2>2. Walk[k + 1] = IF Walk[k] = NULL THEN NULL ELSE next[Walk[k]]
    BY <2>1, WalkIs
  <2>3. Walk[k] \in Conns \cup {NULL}
    BY <1>2, <2>1
  <2> QED
    BY <2>2, <2>3
<1> HIDE DEF G
<1>3. \A k \in Nat : k \in G
  BY <1>1, <1>2, NatInductionSet
<1>4. \A i \in 0 .. MaxConns : Walk[i] \in Conns \cup {NULL}
  BY <1>3, LinksAssumption DEF G
<1> QED
  BY <1>4 DEF Listed

-----------------------------------------------------------------------------
(* Types, and what the loop relies on from one phase to the next.           *)

WakeType ==
  [read : SUBSET Conns, accept : BOOLEAN, proc : BOOLEAN, dev : SUBSET Conns, break : BOOLEAN]

LinkTypes ==
  /\ LinksTypeOK
  /\ ctl \in [Conns -> CtlStates] /\ ping_on_wire \in [Conns -> BOOLEAN]

ListTypes ==
  /\ peers \in Conns \cup {NULL} /\ next \in [Conns -> Conns \cup {NULL}]
  /\ mem \in [Conns -> {"none", "live", "freed"}]
  /\ state \in [Conns -> PeerStates]
  /\ peer_index \in [Conns -> 0 .. IndexModulus - 1] /\ peer_count \in Nat
  /\ mounted \subseteq Conns
  /\ outq \in [Conns -> Seq(ToController)]

LoopTypes ==
  /\ phase \in {"boot", "select", "signals", "accept", "update", "shutdown",
                "exited", "undefined"}
  /\ wake \in WakeType
  /\ ci \in Conns \cup {NULL}
  /\ phase = "update" => ci # NULL
  /\ phase \in {"signals", "accept"} /\ wake.accept => backlog # <<>>

FsTypes ==
  /\ dev_port \in [Conns -> Seq(Procs)] /\ local \in [Conns -> SUBSET Procs]
  /\ pending \in [Conns -> SUBSET [seqno : Nat, proc : Procs]]
  /\ seqno \in [Conns -> Nat]

ProgTypes ==
  /\ prog \in [Conns -> {"none", "starting", "running", "closing", "ended", "failed"}]
  /\ proc_port \in Seq(Conns) /\ proc_sig \in BOOLEAN /\ dev_sig \subseteq Conns
  /\ coalesced \in BOOLEAN

TypeInv == LinkTypes /\ ListTypes /\ LoopTypes /\ FsTypes /\ ProgTypes

(* The messages that either side sends are of its kinds. *)
LEMMA MessageTypes ==
  /\ \A t \in {"HANDSHAKE_REQUEST", "LAUNCH_EXECUTABLE_REQUEST", "PING_REQUEST"} :
       Msg(t) \in ToTarget
  /\ \A k \in Nat : Numbered("FILE_ANSWER", k) \in ToTarget
                      /\ Numbered("ERROR_ANSWER", k) \in ToTarget
  /\ \A t \in {"HANDSHAKE_REQUEST", "LAUNCH_EXECUTABLE_ANSWER", "ERROR_ANSWER",
               "PING_ANSWER"} : Msg(t) \in ToController
  /\ \A k \in Nat : Numbered("FILE_REQUEST", k) \in ToController
  /\ \A n \in Conns : Done(n) \in ToController
  /\ \A m \in ToController : m.of \in Nat
BY LinksAssumption DEF ToTarget, ToController, Msg, Numbered, Done, Conns

(* Sequences of length one and two operations on sequences. *)
LEMMA SeqTypes ==
  ASSUME NEW S
  PROVE  /\ <<>> \in Seq(S)
         /\ \A x \in S : <<x>> \in Seq(S)
         /\ \A s \in Seq(S), x \in S : Append(s, x) \in Seq(S)
         /\ \A s, t \in Seq(S) : s \o t \in Seq(S)
         /\ \A s \in Seq(S) : s # <<>> => Tail(s) \in Seq(S) /\ Head(s) \in S
BY AppendProperties, ConcatProperties, HeadTailProperties

(* What is sent keeps the queues' type. *)
LEMMA AfterSendType ==
  ASSUME NEW S, NEW queue \in [Conns -> Seq(S)], NEW fd, NEW n \in Conns, NEW msgs \in Seq(S)
  PROVE  AfterSend(queue, n, fd, msgs) \in [Conns -> Seq(S)]
BY SeqTypes DEF AfterSend

LEMMA EventType ==
  ASSUME LinksTypeOK, Event \/ UNCHANGED events
  PROVE  events' \in 0 .. MaxEvents
BY LinksAssumption DEF LinksTypeOK, Event

LEMMA TypeInvInit == Init => TypeInv
<1> SUFFICES ASSUME Init PROVE TypeInv
  OBVIOUS
<1>1. LinkTypes
  BY SeqTypes, LinksAssumption
     DEF Init, LinksInit, ControllerInit, LinkTypes, LinksTypeOK, CtlStates
<1>2. ListTypes
  BY SeqTypes, TargetAssumption DEF Init, TargetInit, ListTypes, PeerStates
<1>3. LoopTypes
  BY DEF Init, TargetInit, LoopTypes, WakeType, NoWake
<1>4. ProgTypes
  BY SeqTypes DEF Init, TargetInit, ProgTypes
<1>5. FsTypes
  BY SeqTypes DEF Init, TargetInit, FsTypes
<1> QED
  BY <1>1, <1>2, <1>3, <1>4, <1>5 DEF TypeInv

(* What a controller's step leaves alone. *)
ByController(n) ==
  \/ connect_to_target(n, Listening) /\ UNCHANGED targetVars
  \/ ControllerStep(n)
  \/ send_ping(n) /\ UNCHANGED targetVars
  \/ quit(n) /\ UNCHANGED targetVars

ByProgram(n) ==
  \/ ProgramStep(n)
  \/ \E p \in Procs : file_request(n, p) /\ UNCHANGED <<daemonVars, ctlVars>>

(* Controllers change the connections only, and never shorten the backlog. *)
LEMMA ControllerKeepsTypes ==
  ASSUME TypeInv, NEW n \in Conns, ByController(n)
  PROVE  TypeInv'
<1>0. /\ LinksTypeOK /\ ctl \in [Conns -> CtlStates] /\ ping_on_wire \in [Conns -> BOOLEAN]
      /\ ListTypes /\ LoopTypes /\ FsTypes /\ ProgTypes
  BY DEF TypeInv, LinkTypes
<1>1. /\ UNCHANGED <<peers, next, mem, state, peer_index, peer_count, mounted>>
      /\ UNCHANGED <<phase, wake, ci, loop_next, got, new_peer, outq>>
      /\ UNCHANGED <<dev_port, local, pending, seqno>>
      /\ UNCHANGED <<prog, proc_port, proc_sig, dev_sig, coalesced>>
  BY DEF ByController, ControllerStep, targetVars, listVars, turnVars, progVars, fsVars, portVars
<1>2. ListTypes' /\ FsTypes' /\ ProgTypes'
  BY <1>0, <1>1 DEF ListTypes, FsTypes, ProgTypes
<1>3. LinkTypes' /\ (backlog # <<>> => backlog' # <<>>)
  <2>1. CASE connect_to_target(n, Listening)
    <3>1. backlog' \in Seq(Conns) /\ (backlog # <<>> => backlog' # <<>>)
      <4>1. backlog \in Seq(Conns)
        BY <1>0 DEF LinksTypeOK
      <4>2. Append(backlog, n) \in Seq(Conns) /\ Append(backlog, n) # <<>>
        BY <4>1, AppendProperties
      <4> QED
        BY <2>1, <4>1, <4>2 DEF connect_to_target
    <3>2. events' \in 0 .. MaxEvents
      BY <1>0, <2>1, EventType DEF connect_to_target
    <3> QED
      BY <1>0, <2>1, <3>1, <3>2 DEF connect_to_target, LinksTypeOK, LinkTypes, CtlStates
  <2>2. CASE first_update(n)
    <3>1. c2t' \in [Conns -> Seq(ToTarget)]
      BY <1>0, <2>2, AfterSendType, SeqTypes, MessageTypes DEF first_update, LinksTypeOK
    <3> QED
      BY <1>0, <2>2, <3>1 DEF first_update, LinksTypeOK, LinkTypes, CtlStates
  <2>3. ASSUME NEW new \in CtlStates, NEW msgs \in Seq(ToTarget), t2c[n] # <<>>,
               Answer(n, new, msgs), ping_on_wire' \in [Conns -> BOOLEAN]
        PROVE  LinkTypes' /\ (backlog # <<>> => backlog' # <<>>)
    <3>1. c2t' \in [Conns -> Seq(ToTarget)]
      BY <1>0, <2>3, AfterSendType DEF Answer, LinksTypeOK
    <3>2. t2c' \in [Conns -> Seq(ToController)]
      BY <1>0, <2>3, SeqTypes DEF Answer, LinksTypeOK
    <3> QED
      BY <1>0, <2>3, <3>1, <3>2 DEF Answer, LinksTypeOK, LinkTypes
  <2>4. ASSUME Exit(n), Event \/ UNCHANGED events
        PROVE  LinkTypes' /\ (backlog # <<>> => backlog' # <<>>)
    BY <1>0, <2>4, SeqTypes, EventType DEF Exit, LinksTypeOK, LinkTypes, CtlStates
  <2>5. CASE on_connected(n)
    BY <1>0, <2>3, <2>5, MessageTypes, SeqTypes DEF on_connected, CtlStates
  <2>6. CASE controller_on_message(n)
    <3> DEFINE msg == Head(t2c[n])
    <3>1. t2c[n] # <<>> /\ msg.of \in Nat
      BY <1>0, <2>6, SeqTypes, MessageTypes DEF controller_on_message, LinksTypeOK
    <3>2. /\ ctl[n] \in CtlStates /\ "file_serving" \in CtlStates
          /\ <<>> \in Seq(ToTarget)
          /\ <<Numbered("FILE_ANSWER", msg.of)>> \in Seq(ToTarget)
          /\ <<Numbered("ERROR_ANSWER", msg.of)>> \in Seq(ToTarget)
      BY <1>0, <3>1, SeqTypes, MessageTypes DEF CtlStates
    <3>3. \/ on_ping_answer(n)
          \/ Answer(n, "file_serving", <<>>) /\ UNCHANGED ping_on_wire
          \/ Exit(n) /\ UNCHANGED events
          \/ Answer(n, ctl[n], <<Numbered("FILE_ANSWER", msg.of)>>) /\ UNCHANGED ping_on_wire
          \/ Answer(n, ctl[n], <<Numbered("ERROR_ANSWER", msg.of)>>) /\ UNCHANGED ping_on_wire
      BY <2>6 DEF controller_on_message
    <3> HIDE DEF msg
    <3>4. CASE on_ping_answer(n)
      BY <1>0, <2>3, <3>1, <3>2, <3>4 DEF on_ping_answer
    <3> QED
      BY <1>0, <2>3, <2>4, <3>1, <3>2, <3>3, <3>4
  <2>7. CASE disconnected(n) \/ quit(n)
    BY <2>4, <2>7 DEF disconnected, quit
  <2>8. CASE send_ping(n)
    <3>1. c2t' \in [Conns -> Seq(ToTarget)]
      BY <1>0, <2>8, AfterSendType, SeqTypes, MessageTypes DEF send_ping, LinksTypeOK
    <3>2. events' \in 0 .. MaxEvents
      BY <1>0, <2>8, EventType DEF send_ping
    <3> QED
      BY <1>0, <2>8, <3>1, <3>2 DEF send_ping, LinksTypeOK, LinkTypes
  <2> QED
    BY <2>1, <2>2, <2>5, <2>6, <2>7, <2>8 DEF ByController, ControllerStep, pump_peer_state_machine
<1>4. LoopTypes'
  BY <1>0, <1>1, <1>3 DEF LoopTypes
<1> QED
  BY <1>2, <1>3, <1>4 DEF TypeInv

(* A packet that arrives, or does not. *)
LEMMA PacketArrivesIs ==
  ASSUME NEW n \in Conns, PacketArrives(n), dev_sig \subseteq Conns
  PROVE  dev_sig' \subseteq Conns /\ (phase' = phase \/ phase' = "undefined")
BY DEF PacketArrives

(* What programs do changes their own state and the ports. *)
LEMMA ProgramSteps ==
  ASSUME NEW n \in Conns, ByProgram(n)
  PROVE  /\ UNCHANGED <<peers, next, mem, state, peer_index, peer_count, mounted>>
         /\ UNCHANGED <<wake, ci, loop_next, got, new_peer, outq>>
         /\ UNCHANGED <<backlog, c2t, t2c, cfd, tfd, ctl, ping_on_wire>>
         /\ UNCHANGED <<pending, seqno>>
         /\ phase' = phase \/ phase' = "undefined"
         /\ Event \/ UNCHANGED events
<1>1. /\ UNCHANGED <<daemonVars, ctlVars>>
      /\ cmd_launcher(n) \/ \E p \in Procs : file_request(n, p)
  BY DEF ByProgram, ProgramStep
<1>2. /\ UNCHANGED <<pending, seqno>>
      /\ Event \/ UNCHANGED events
  BY <1>1 DEF cmd_launcher, launcher_starts, program_ends, launcher_replies, file_request,
              SendLocal, fsVars
<1>3. phase' = phase \/ phase' = "undefined"
  BY <1>1 DEF cmd_launcher, launcher_starts, program_ends, launcher_replies, file_request,
              SendLocal, PacketArrives
<1> QED
  BY <1>1, <1>2, <1>3 DEF daemonVars, ctlVars, listVars, turnVars

LEMMA ProgramKeepsTypes ==
  ASSUME TypeInv, NEW n \in Conns, ByProgram(n)
  PROVE  TypeInv'
<1>0. /\ LinksTypeOK /\ ctl \in [Conns -> CtlStates] /\ ping_on_wire \in [Conns -> BOOLEAN]
      /\ ListTypes /\ LoopTypes /\ FsTypes /\ ProgTypes
  BY DEF TypeInv, LinkTypes
<1>1. ListTypes'
  BY <1>0, ProgramSteps DEF ListTypes
<1>2. LoopTypes'
  BY <1>0, ProgramSteps DEF LoopTypes
<1>3. LinkTypes'
  BY <1>0, ProgramSteps, EventType DEF LinkTypes, LinksTypeOK
<1>4. ASSUME NEW p \in Procs, SendLocal(n, p)
      PROVE  FsTypes' /\ dev_sig' \subseteq Conns
  <2>1. dev_sig' \subseteq Conns
    BY <1>0, <1>4, PacketArrivesIs DEF SendLocal, ProgTypes
  <2> QED
    BY <1>0, <1>4, <2>1 DEF SendLocal, FsTypes
<1>5. Launcher \in Procs
  BY TargetAssumption DEF Launcher, Procs
<1>6. CASE launcher_starts(n)
  <2>1. FsTypes' /\ dev_sig' \subseteq Conns
    BY <1>0, <1>4, <1>5, <1>6 DEF launcher_starts, FsTypes, ProgTypes, fsVars
  <2>2. ProgTypes'
    BY <1>0, <1>6, <2>1 DEF launcher_starts, ProgTypes, portVars
  <2> QED
    BY <1>1, <1>2, <1>3, <2>1, <2>2 DEF TypeInv
<1>7. CASE program_ends(n)
  <2>1. FsTypes' /\ dev_sig' \subseteq Conns
    BY <1>4, <1>5, <1>7 DEF program_ends
  <2>2. ProgTypes'
    BY <1>0, <1>7, <2>1 DEF program_ends, ProgTypes, portVars
  <2> QED
    BY <1>1, <1>2, <1>3, <2>1, <2>2 DEF TypeInv
<1>8. CASE launcher_replies(n)
  <2>1. FsTypes'
    BY <1>0, <1>8 DEF launcher_replies, FsTypes, fsVars
  <2>2. Append(proc_port, n) \in Seq(Conns)
    BY <1>0, SeqTypes DEF ProgTypes
  <2>3. proc_port' \in Seq(Conns) /\ proc_sig' \in BOOLEAN
    BY <1>0, <1>8, <2>2 DEF launcher_replies, ProgTypes, portVars
  <2>4. coalesced' \in BOOLEAN
    BY <1>0, <1>8 DEF launcher_replies, ProgTypes, portVars
  <2>5. ProgTypes'
    BY <1>0, <1>8, <2>3, <2>4 DEF launcher_replies, ProgTypes
  <2> QED
    BY <1>1, <1>2, <1>3, <2>1, <2>5 DEF TypeInv
<1>9. ASSUME NEW p \in Procs, file_request(n, p) PROVE TypeInv'
  <2>1. Append(dev_port[n], p) \in Seq(Procs)
    BY <1>0, SeqTypes DEF FsTypes
  <2>2. FsTypes'
    BY <1>0, <1>9, <2>1 DEF file_request, FsTypes
  <2>3. dev_sig' \subseteq Conns
    BY <1>0, <1>9, PacketArrivesIs DEF file_request, ProgTypes
  <2>4. ProgTypes'
    BY <1>0, <1>9, <2>3 DEF file_request, ProgTypes, portVars
  <2> QED
    BY <1>1, <1>2, <1>3, <2>2, <2>4 DEF TypeInv
<1> QED
  BY <1>6, <1>7, <1>8, <1>9 DEF ByProgram, ProgramStep, cmd_launcher

(* Waiting, and the beginning of the daemon. *)
LEMMA WaitingKeepsTypes ==
  ASSUME TypeInv, common_main \/ follow_freed \/ WaitSelect, UNCHANGED ctlVars
  PROVE  TypeInv'
<1>0. /\ LinksTypeOK /\ ctl \in [Conns -> CtlStates] /\ ping_on_wire \in [Conns -> BOOLEAN]
      /\ ListTypes /\ LoopTypes /\ FsTypes /\ ProgTypes
  BY DEF TypeInv, LinkTypes
<1>1. /\ UNCHANGED <<peers, next, mem, state, peer_index, peer_count, mounted>>
      /\ UNCHANGED <<ci, loop_next, new_peer, outq, prog, proc_port, coalesced>>
      /\ UNCHANGED <<dev_port, local, pending, seqno>>
      /\ UNCHANGED <<backlog, c2t, t2c, cfd, tfd, ctl, ping_on_wire>>
      /\ Event \/ UNCHANGED events
  BY DEF common_main, follow_freed, WaitSelect, listVars, turnVars, progVars, fsVars, portVars,
         links, ctlVars
<1>2. ListTypes' /\ FsTypes'
  BY <1>0, <1>1 DEF ListTypes, FsTypes
<1>3. LinkTypes'
  BY <1>0, <1>1, EventType DEF LinkTypes, LinksTypeOK
<1>4. LoopTypes' /\ ProgTypes'
  <2>1. CASE common_main \/ follow_freed
    <3>1. UNCHANGED <<wake, proc_sig, dev_sig>> /\ phase' \in {"select", "exited", "undefined"}
      BY <2>1 DEF common_main, follow_freed, progVars, portVars, turnVars
    <3> QED
      BY <1>0, <1>1, <3>1 DEF LoopTypes, ProgTypes
  <2>2. CASE WaitSelect
    <3>1. PICK break \in BOOLEAN :
            LET woken == [read |-> {n \in Listed : TargetReadable(n)},
                          accept |-> backlog # <<>>, proc |-> ProcSignal,
                          dev |-> dev_sig \cap Listed, break |-> break]
            IN  /\ wake' = woken
                /\ proc_sig' = (proc_sig /\ ~woken.proc)
                /\ dev_sig' = dev_sig \ woken.dev
      BY <2>2 DEF WaitSelect
    <3>2. wake' \in WakeType /\ wake'.accept = (backlog # <<>>)
      <4>1. {n \in Listed : TargetReadable(n)} \subseteq Conns /\ Listed \subseteq Conns
        BY <1>0, WalkType DEF ListTypes
      <4> QED
        BY <1>0, <3>1, <4>1 DEF WakeType, ProcSignal, ProgTypes
    <3>3. proc_sig' \in BOOLEAN /\ dev_sig' \subseteq Conns
      BY <1>0, <3>1 DEF ProgTypes
    <3> QED
      BY <1>0, <1>1, <2>2, <3>2, <3>3 DEF WaitSelect, LoopTypes, ProgTypes
  <2> QED
    BY <2>1, <2>2
<1> QED
  BY <1>2, <1>3, <1>4 DEF TypeInv

(* FindPeer returns a peer of the list with that index, and does so when    *)
(* there is one.                                                            *)
LEMMA FindPeerIs ==
  ASSUME ListTypes, NEW index
  PROVE  /\ FindPeer(index) # NULL =>
              FindPeer(index) \in Listed /\ peer_index[FindPeer(index)] = index
         /\ FindPeer(index) = NULL => \A n \in Listed : peer_index[n] # index
<1> DEFINE hits == {i \in 0 .. MaxConns : Walk[i] # NULL /\ peer_index[Walk[i]] = index}
<1>1. CASE hits = {}
  <2>1. FindPeer(index) = NULL
    BY <1>1, Zenon DEF FindPeer
  <2> QED
    BY <1>1, <2>1 DEF Listed
<1>2. CASE hits # {}
  <2>1. \E i \in hits : \A j \in hits : i <= j
    <3>1. hits \subseteq Nat
      BY LinksAssumption
    <3>2. PICK i \in hits : \A j \in hits : ~(<<j, i>> \in OpToRel(<, Nat))
      BY <1>2, <3>1, NatLessThanWellFounded, WFMin
    <3>3. ASSUME NEW j \in hits, j < i PROVE FALSE
      <4>1. <<j, i>> \in Nat \X Nat
        BY <3>1
      <4>2. <<j, i>> \in OpToRel(<, Nat)
        BY <3>3, <4>1, Zenon DEF OpToRel
      <4> QED
        BY <3>2, <4>2, Zenon
    <3>4. \A j \in hits : i <= j
      BY <3>1, <3>3
    <3> QED
      BY <3>4
  <2> DEFINE c == CHOOSE i \in hits : \A j \in hits : i <= j
  <2>2. c \in hits
    BY <2>1, Zenon
  <2>3. FindPeer(index) = Walk[c]
    BY <1>2, Zenon DEF FindPeer
  <2> QED
    BY <2>2, <2>3 DEF Listed
<1> QED
  BY <1>1, <1>2

(* The file requests that leave a device port, and who waits for them. *)
LEMMA RequestsAre ==
  ASSUME TypeInv, NEW n \in Conns
  PROVE  /\ Requests(n) \in Seq(ToController)
         /\ Len(Requests(n)) = Len(dev_port[n])
         /\ \A i \in 1 .. Len(Requests(n)) : Requests(n)[i].type = "FILE_REQUEST"
         /\ Operations(n) \subseteq [seqno : Nat, proc : Procs]
         /\ seqno[n] + Len(dev_port[n]) \in Nat
<1>1. seqno[n] \in Nat /\ Len(dev_port[n]) \in Nat /\ dev_port[n] \in Seq(Procs)
  BY LenProperties DEF TypeInv, FsTypes
<1>2. \A i \in 1 .. Len(dev_port[n]) :
        /\ seqno[n] + i - 1 \in Nat
        /\ Numbered("FILE_REQUEST", seqno[n] + i - 1) \in ToController
        /\ dev_port[n][i] \in Procs
  BY <1>1, MessageTypes, ElementOfSeq
<1>3. /\ Requests(n) \in [1 .. Len(dev_port[n]) -> ToController]
      /\ DOMAIN Requests(n) = 1 .. Len(dev_port[n])
      /\ \A i \in 1 .. Len(dev_port[n]) : Requests(n)[i] = Numbered("FILE_REQUEST", seqno[n] + i - 1)
  BY <1>2 DEF Requests
<1>4. Requests(n) \in Seq(ToController) /\ Len(Requests(n)) = Len(dev_port[n])
  BY <1>1, <1>3
<1>5. Operations(n) \subseteq [seqno : Nat, proc : Procs]
  BY <1>2 DEF Operations
<1>6. \A i \in 1 .. Len(Requests(n)) : Requests(n)[i].type = "FILE_REQUEST"
  <2>1. \A k : Numbered("FILE_REQUEST", k).type = "FILE_REQUEST"
    BY DEF Numbered
  <2> QED
    BY <1>3, <1>4, <2>1
<1>7. seqno[n] + Len(dev_port[n]) \in Nat
  BY <1>1
<1> QED
  BY <1>4, <1>5, <1>6, <1>7

(* The queues and the states after the device ports have been emptied. *)
StAfter == [n \in Conns |-> IF n \in wake.dev /\ Refused(n) THEN "ERROR" ELSE state[n]]
QAfter ==
  [n \in Conns |-> IF n \in wake.dev /\ ~Refused(n) THEN outq[n] \o Requests(n) ELSE outq[n]]

(* Nothing but the head of the process port is reported, and to one peer. *)
LEMMA SignalsSend ==
  ASSUME TypeInv, handle_signals
  PROVE  /\ StAfter \in [Conns -> PeerStates] /\ QAfter \in [Conns -> Seq(ToController)]
         /\ \/ state' = StAfter /\ outq' = QAfter
            \/ /\ wake.proc /\ proc_port # <<>> /\ Head(proc_port) \in Conns
               /\ \E peer \in Conns :
                    /\ peer = FindPeer(peer_index[Head(proc_port)])
                    /\ \/ /\ state' = StAfter
                          /\ outq' = [QAfter EXCEPT ![peer] = Append(@, Done(Head(proc_port)))]
                          /\ StAfter[peer] = "CONNECTED"
                       \/ /\ state' = [StAfter EXCEPT ![peer] = "ERROR"]
                          /\ outq' = QAfter
                          /\ StAfter[peer] # "CONNECTED"
         /\ wake.proc /\ proc_port # <<>> /\ FindPeer(peer_index[Head(proc_port)]) \in Conns
              /\ StAfter[FindPeer(peer_index[Head(proc_port)])] = "CONNECTED"
              => outq' = [QAfter EXCEPT ![FindPeer(peer_index[Head(proc_port)])]
                                          = Append(@, Done(Head(proc_port)))]
<1>0. ListTypes /\ ProgTypes
  BY DEF TypeInv
<1>1. StAfter \in [Conns -> PeerStates]
  BY <1>0 DEF StAfter, ListTypes, PeerStates
<1>2. QAfter \in [Conns -> Seq(ToController)]
  <2>1. \A n \in Conns : /\ outq[n] \in Seq(ToController)
                         /\ outq[n] \o Requests(n) \in Seq(ToController)
    BY <1>0, RequestsAre, SeqTypes DEF ListTypes
  <2> QED
    BY <2>1 DEF QAfter
<1> DEFINE told == IF wake.proc /\ proc_port # <<>> THEN report(StAfter, QAfter)
                   ELSE <<StAfter, QAfter>>
<1>3. state' = told[1] /\ outq' = told[2]
  BY DEF handle_signals, StAfter, QAfter
<1>4. CASE ~(wake.proc /\ proc_port # <<>>)
  BY <1>1, <1>2, <1>3, <1>4
<1>5. CASE wake.proc /\ proc_port # <<>>
  <2> DEFINE n == Head(proc_port)
             peer == FindPeer(peer_index[n])
  <2>1. n \in Conns
    BY <1>0, <1>5, SeqTypes DEF ProgTypes
  <2>2. peer \in Conns \cup {NULL}
    BY <1>0, FindPeerIs, WalkType DEF ListTypes
  <2>3. told = IF peer = NULL THEN <<StAfter, QAfter>> ELSE Transmit(StAfter, QAfter, peer, Done(n))
    BY <1>5 DEF report
  <2>4. CASE peer = NULL
    <3>1. peer \notin Conns
      BY <2>4, TargetAssumption
    <3> QED
      BY <1>1, <1>2, <1>3, <2>3, <2>4, <3>1
  <2>5. CASE peer \in Conns
    <3>1. peer # NULL
      BY <2>5, TargetAssumption
    <3> HIDE DEF n, peer, told
    <3>2. IF StAfter[peer] = "CONNECTED"
            THEN state' = StAfter /\ outq' = [QAfter EXCEPT ![peer] = Append(@, Done(n))]
            ELSE state' = [StAfter EXCEPT ![peer] = "ERROR"] /\ outq' = QAfter
      BY <1>3, <2>3, <3>1 DEF Transmit
    <3> QED
      BY <1>1, <1>2, <1>5, <2>1, <2>5, <3>2 DEF n, peer
  <2> QED
    BY <2>2, <2>4, <2>5
<1> QED
  BY <1>4, <1>5

(* Signals: the queues get whole messages, the port loses one. *)
LEMMA SignalsKeepTypes ==
  ASSUME TypeInv, handle_signals, UNCHANGED ctlVars
  PROVE  TypeInv'
<1>0. /\ LinksTypeOK /\ ctl \in [Conns -> CtlStates] /\ ping_on_wire \in [Conns -> BOOLEAN]
      /\ ListTypes /\ LoopTypes /\ FsTypes /\ ProgTypes
  BY DEF TypeInv, LinkTypes
<1>1. /\ UNCHANGED <<peers, next, mem, peer_index, peer_count, mounted>>
      /\ UNCHANGED <<ci, loop_next, got, new_peer, prog, proc_sig, dev_sig, coalesced>>
      /\ UNCHANGED <<backlog, c2t, t2c, cfd, tfd, events, ctl, ping_on_wire>>
  BY DEF handle_signals, links, ctlVars
<1>2. state' \in [Conns -> PeerStates]
  BY SignalsSend DEF PeerStates
<1>3. outq' \in [Conns -> Seq(ToController)]
  <2>1. CASE outq' = QAfter
    BY <2>1, SignalsSend
  <2>2. ASSUME NEW peer \in Conns, Head(proc_port) \in Conns,
               outq' = [QAfter EXCEPT ![peer] = Append(@, Done(Head(proc_port)))]
        PROVE  outq' \in [Conns -> Seq(ToController)]
    <3>1. QAfter \in [Conns -> Seq(ToController)] /\ Done(Head(proc_port)) \in ToController
      BY <2>2, SignalsSend, MessageTypes
    <3>2. Append(QAfter[peer], Done(Head(proc_port))) \in Seq(ToController)
      BY <3>1, SeqTypes
    <3> QED
      BY <2>2, <3>1, <3>2
  <2> QED
    BY <2>1, <2>2, SignalsSend
<1>4. LinkTypes' /\ ListTypes'
  BY <1>0, <1>1, <1>2, <1>3 DEF LinkTypes, LinksTypeOK, ListTypes
<1>5. wake' \in WakeType /\ wake'.accept = wake.accept
  BY <1>0 DEF handle_signals, LoopTypes, WakeType
<1>6. LoopTypes'
  <2>1. phase = "signals" /\ phase' \in {"undefined", "shutdown", "accept"}
    BY DEF handle_signals
  <2> QED
    BY <1>0, <1>1, <1>5, <2>1 DEF LoopTypes
<1>7. FsTypes'
  <2>1. dev_port' \in [Conns -> Seq(Procs)]
    BY <1>0, SeqTypes DEF handle_signals, FsTypes
  <2>2. local' \in [Conns -> SUBSET Procs]
    BY <1>0 DEF handle_signals, FsTypes
  <2>3. pending' \in [Conns -> SUBSET [seqno : Nat, proc : Procs]]
    <3>1. \A n \in Conns : /\ pending[n] \subseteq [seqno : Nat, proc : Procs]
                           /\ Operations(n) \subseteq [seqno : Nat, proc : Procs]
      BY <1>0, RequestsAre DEF FsTypes
    <3> QED
      BY <3>1 DEF handle_signals
  <2>4. seqno' \in [Conns -> Nat]
    <3>1. \A n \in Conns : seqno[n] \in Nat /\ seqno[n] + Len(dev_port[n]) \in Nat
      BY <1>0, RequestsAre DEF FsTypes
    <3> QED
      BY <3>1 DEF handle_signals
  <2> QED
    BY <2>1, <2>2, <2>3, <2>4 DEF FsTypes
<1>8. proc_port' \in Seq(Conns)
  <2>1. proc_port # <<>> => Tail(proc_port) \in Seq(Conns)
    BY <1>0, SeqTypes DEF ProgTypes
  <2>2. proc_port' = proc_port \/ (proc_port # <<>> /\ proc_port' = Tail(proc_port))
    BY Zenon DEF handle_signals, AfterGetMsg
  <2> QED
    BY <1>0, <2>1, <2>2 DEF ProgTypes
<1>9. ProgTypes'
  BY <1>0, <1>1, <1>8 DEF ProgTypes
<1> QED
  BY <1>4, <1>6, <1>7, <1>9 DEF TypeInv

(* The loop's turn ends, or the update of the peers begins. *)
LEMMA TurnTypes ==
  ASSUME TypeInv
  PROVE  /\ NextTurn => /\ wake' \in WakeType /\ ci' \in Conns \cup {NULL}
                        /\ phase' = "select"
         /\ \A head \in Conns \cup {NULL} : \A new :
              StartUpdate(head, new) =>
                /\ wake' \in WakeType /\ ci' \in Conns \cup {NULL}
                /\ phase' \in {"select", "update"}
                /\ phase' = "update" => ci' # NULL /\ ci' = head /\ loop_next' = NULL
                                          /\ got' = FALSE /\ new_peer' = new
<1>1. wake \in WakeType
  BY DEF TypeInv, LoopTypes
<1>2. NoWake \in WakeType /\ [wake EXCEPT !.accept = FALSE] \in WakeType
  BY <1>1 DEF NoWake, WakeType
<1> QED
  BY <1>2 DEF NextTurn, StartUpdate

(* Accepting a connection, or none. *)
LEMMA AcceptKeepsTypes ==
  ASSUME TypeInv, accept_peer \/ no_connection, UNCHANGED ctlVars
  PROVE  TypeInv'
<1>0. /\ LinksTypeOK /\ ctl \in [Conns -> CtlStates] /\ ping_on_wire \in [Conns -> BOOLEAN]
      /\ ListTypes /\ LoopTypes /\ FsTypes /\ ProgTypes
  BY DEF TypeInv, LinkTypes
<1>1. /\ UNCHANGED <<outq, prog, proc_port, proc_sig, dev_sig, coalesced>>
      /\ UNCHANGED <<dev_port, local, pending, seqno>>
      /\ UNCHANGED <<t2c, cfd, ctl, ping_on_wire>>
  BY DEF accept_peer, no_connection, accept_fails, setup_fails, mount_fails, accept_succeeds,
         progVars, fsVars, portVars, links, ctlVars
<1>2. ProgTypes' /\ FsTypes'
  BY <1>0, <1>1 DEF ProgTypes, FsTypes
<1>3. CASE no_connection
  <2>1. ListTypes' /\ LinkTypes'
    BY <1>0, <1>1, <1>3 DEF no_connection, ListTypes, LinkTypes, LinksTypeOK, listVars, links
  <2>2. LoopTypes'
    BY <1>0, <1>3, TurnTypes DEF no_connection, LoopTypes, ListTypes
  <2> QED
    BY <1>2, <2>1, <2>2 DEF TypeInv
<1>4. CASE accept_peer
  <2> DEFINE n == Head(backlog)
  <2>1. n \in Conns /\ Tail(backlog) \in Seq(Conns)
    BY <1>0, <1>4, SeqTypes DEF accept_peer, LoopTypes, LinksTypeOK
  <2>2. accept_fails \/ setup_fails(n) \/ mount_fails(n) \/ accept_succeeds(n)
    BY <1>4 DEF accept_peer
  <2> HIDE DEF n
  <2>3. LinkTypes'
    <3>1. Event \/ UNCHANGED events
      BY <2>2 DEF accept_fails, setup_fails, mount_fails, accept_succeeds
    <3>2. /\ c2t' \in [Conns -> Seq(ToTarget)]
          /\ tfd' \in [Conns -> {"none", "open", "closed"}]
      <4>1. /\ c2t' = [c2t EXCEPT ![n] = <<>>] \/ c2t' = c2t
            /\ tfd' = tfd \/ \E fd \in {"open", "closed"} : tfd' = [tfd EXCEPT ![n] = fd]
        BY <2>2 DEF accept_fails, setup_fails, mount_fails, accept_succeeds
      <4>2. <<>> \in Seq(ToTarget) /\ c2t \in [Conns -> Seq(ToTarget)]
        BY <1>0, SeqTypes DEF LinksTypeOK
      <4>3. tfd \in [Conns -> {"none", "open", "closed"}]
        BY <1>0 DEF LinksTypeOK
      <4> QED
        BY <2>1, <4>1, <4>2, <4>3
    <3>3. backlog' \in Seq(Conns)
      BY <1>0, <2>1, <2>2 DEF accept_fails, setup_fails, mount_fails, accept_succeeds, LinksTypeOK
    <3> QED
      BY <1>0, <1>1, <3>1, <3>2, <3>3, EventType DEF LinkTypes, LinksTypeOK
  <2>4. IndexOf(peer_count) \in 0 .. IndexModulus - 1
    BY <1>0, TargetAssumption DEF IndexOf, ListTypes
  <2>5. ListTypes'
    <3>1. CASE accept_fails \/ setup_fails(n)
      BY <1>0, <1>1, <3>1 DEF accept_fails, setup_fails, ListTypes, listVars
    <3>2. CASE mount_fails(n)
      BY <1>0, <1>1, <3>2 DEF mount_fails, ListTypes
    <3>3. CASE accept_succeeds(n)
      <4>1. "WAIT_HANDSHAKE" \in PeerStates
        BY DEF PeerStates
      <4> QED
        BY <1>0, <1>1, <2>1, <2>4, <3>3, <4>1 DEF accept_succeeds, ListTypes
    <3> QED
      BY <2>2, <3>1, <3>2, <3>3
  <2>6. LoopTypes'
    <3>1. NextTurn \/ StartUpdate(n, n)
      BY <2>2 DEF accept_fails, setup_fails, mount_fails, accept_succeeds
    <3> QED
      BY <2>1, <3>1, TurnTypes DEF LoopTypes
  <2> QED
    BY <1>2, <2>3, <2>5, <2>6 DEF TypeInv
<1> QED
  BY <1>3, <1>4

(* What a message can do to a peer, case by case. *)
LEMMA EffectCases ==
  ASSUME NEW n, NEW msg, NEW e \in Deliver(n, msg)
  PROVE  \/ e = Drops
         \/ /\ state[n] = "WAIT_HANDSHAKE" /\ msg.type = "HANDSHAKE_REQUEST"
            /\ e = Sends("HANDSHAKE_REQUEST")
         \/ /\ state[n] = "CONNECTED" /\ msg.type = "PING_REQUEST"
            /\ e = Sends("PING_ANSWER")
         \/ /\ state[n] = "CONNECTED" /\ msg.type = "LAUNCH_EXECUTABLE_REQUEST"
            /\ \/ e = Effect("CONNECTED", <<Msg("LAUNCH_EXECUTABLE_ANSWER")>>, TRUE, {})
               \/ e = Sends("ERROR_ANSWER")
         \/ /\ state[n] = "CONNECTED"
            /\ find_pending_op(n, msg.of) # {}
            /\ e = Effect("CONNECTED", <<>>, FALSE, find_pending_op(n, msg.of))
<1>1. \/ /\ state[n] = "WAIT_HANDSHAKE" /\ msg.type = "HANDSHAKE_REQUEST"
         /\ e = Sends("HANDSHAKE_REQUEST")
      \/ state[n] = "CONNECTED" /\ e \in target_on_message(n, msg)
      \/ e = Drops
  BY DEF Deliver
<1>2. ASSUME e \in target_on_message(n, msg)
      PROVE  \/ msg.type = "PING_REQUEST" /\ e = Sends("PING_ANSWER")
             \/ msg.type = "LAUNCH_EXECUTABLE_REQUEST" /\ e \in on_launch_executable_request
             \/ e = rl_amigafs_process_network_message(n, msg)
  BY <1>2 DEF target_on_message
<1> QED
  BY <1>1, <1>2 DEF on_launch_executable_request, SpawnFails, rl_amigafs_process_network_message

LEMMA EffectFields ==
  ASSUME NEW st, NEW out, NEW launch, NEW ops
  PROVE  /\ Effect(st, out, launch, ops).state = st
         /\ Effect(st, out, launch, ops).out = out
         /\ Effect(st, out, launch, ops).launch = launch
         /\ Effect(st, out, launch, ops).ops = ops
BY DEF Effect

(* What they have in common. *)
LEMMA EffectsAre ==
  ASSUME TypeInv, NEW n \in Conns, NEW msg, NEW e \in Deliver(n, msg)
  PROVE  /\ e.state \in {"CONNECTED", "ERROR"} /\ e.launch \in BOOLEAN
         /\ e.out \in Seq(ToController)
         /\ \A i \in 1 .. Len(e.out) : e.out[i].type # "EXECUTABLE_DONE_REQUEST"
         /\ e.launch => state[n] = "CONNECTED" /\ msg.type = "LAUNCH_EXECUTABLE_REQUEST"
         /\ e.ops # {} => state[n] = "CONNECTED"
<1>1. /\ <<>> \in Seq(ToController)
      /\ \A i \in 1 .. Len(<<>>) : <<>>[i].type # "EXECUTABLE_DONE_REQUEST"
  BY SeqTypes
<1>2. \A t \in {"HANDSHAKE_REQUEST", "LAUNCH_EXECUTABLE_ANSWER", "ERROR_ANSWER", "PING_ANSWER"} :
        /\ <<Msg(t)>> \in Seq(ToController)
        /\ \A i \in 1 .. Len(<<Msg(t)>>) : <<Msg(t)>>[i].type # "EXECUTABLE_DONE_REQUEST"
  <2> TAKE t \in {"HANDSHAKE_REQUEST", "LAUNCH_EXECUTABLE_ANSWER", "ERROR_ANSWER", "PING_ANSWER"}
  <2>1. Msg(t) \in ToController /\ Msg(t).type = t
    BY MessageTypes DEF Msg, Numbered
  <2>2. Len(<<Msg(t)>>) = 1 /\ <<Msg(t)>>[1] = Msg(t)
    OBVIOUS
  <2> QED
    BY <2>1, <2>2, SeqTypes
<1>3. ASSUME NEW st \in {"CONNECTED", "ERROR"}, NEW out, NEW launch \in BOOLEAN, NEW ops,
             e = Effect(st, out, launch, ops),
             \/ out = <<>>
             \/ \E t \in {"HANDSHAKE_REQUEST", "LAUNCH_EXECUTABLE_ANSWER", "ERROR_ANSWER",
                          "PING_ANSWER"} : out = <<Msg(t)>>,
             launch => state[n] = "CONNECTED" /\ msg.type = "LAUNCH_EXECUTABLE_REQUEST",
             ops # {} => state[n] = "CONNECTED"
      PROVE  /\ e.state \in {"CONNECTED", "ERROR"} /\ e.launch \in BOOLEAN
             /\ e.out \in Seq(ToController)
             /\ \A i \in 1 .. Len(e.out) : e.out[i].type # "EXECUTABLE_DONE_REQUEST"
             /\ e.launch => state[n] = "CONNECTED" /\ msg.type = "LAUNCH_EXECUTABLE_REQUEST"
             /\ e.ops # {} => state[n] = "CONNECTED"
  <2>1. e.state = st /\ e.out = out /\ e.launch = launch /\ e.ops = ops
    BY <1>3, EffectFields
  <2>2. /\ out \in Seq(ToController)
        /\ \A i \in 1 .. Len(out) : out[i].type # "EXECUTABLE_DONE_REQUEST"
    BY <1>1, <1>2, <1>3
  <2> QED
    BY <1>3, <2>1, <2>2
<1> QED
  BY <1>3, EffectCases, Zenon DEF Drops, Sends

(* Delivering a message takes it off the connection, and may answer it. *)
LEMMA DeliverIs ==
  ASSUME TypeInv, deliver
  PROVE  /\ phase = "update" /\ ci \in Conns /\ c2t[ci] # <<>>
         /\ \E e \in Deliver(ci, Head(c2t[ci])) :
              /\ Event \/ UNCHANGED events
              /\ state' = [state EXCEPT ![ci] = e.state]
              /\ outq' = [outq EXCEPT ![ci] = @ \o e.out]
              /\ pending' = [pending EXCEPT ![ci] = @ \ e.ops]
              /\ prog' = ProgramAfter(ci, Head(c2t[ci]), e)
              /\ c2t' = [c2t EXCEPT ![ci] = Tail(@)]
         /\ UNCHANGED <<phase, backlog, t2c, cfd, tfd, peers, next, mem, peer_index, peer_count,
                        mounted, wake, ci, loop_next, new_peer, dev_port, local, seqno,
                        proc_port, proc_sig, coalesced, dev_sig>>
<1>1. phase = "update" /\ c2t[ci] # <<>>
  BY DEF deliver
<1>2. ci \in Conns
  BY <1>1 DEF TypeInv, LoopTypes
<1> QED
  BY <1>1, <1>2 DEF deliver, portVars

LEMMA DeliverKeepsTypes ==
  ASSUME TypeInv, deliver, UNCHANGED ctlVars
  PROVE  TypeInv'
<1>0. /\ LinksTypeOK /\ ctl \in [Conns -> CtlStates] /\ ping_on_wire \in [Conns -> BOOLEAN]
      /\ ListTypes /\ LoopTypes /\ FsTypes /\ ProgTypes
  BY DEF TypeInv, LinkTypes
<1>1. /\ ci \in Conns /\ c2t[ci] # <<>>
      /\ UNCHANGED <<phase, backlog, t2c, cfd, tfd, peers, next, mem, peer_index, peer_count,
                     mounted, wake, ci, loop_next, new_peer, dev_port, local, seqno,
                     proc_port, proc_sig, coalesced, dev_sig, ctl, ping_on_wire>>
  BY DeliverIs DEF ctlVars
<1>2. PICK e \in Deliver(ci, Head(c2t[ci])) :
              /\ Event \/ UNCHANGED events
              /\ state' = [state EXCEPT ![ci] = e.state]
              /\ outq' = [outq EXCEPT ![ci] = @ \o e.out]
              /\ pending' = [pending EXCEPT ![ci] = @ \ e.ops]
              /\ prog' = ProgramAfter(ci, Head(c2t[ci]), e)
              /\ c2t' = [c2t EXCEPT ![ci] = Tail(@)]
  BY DeliverIs
<1>3. e.state \in PeerStates /\ e.out \in Seq(ToController)
  BY <1>1, EffectsAre DEF PeerStates
<1>4. LinkTypes'
  <2>1. Tail(c2t[ci]) \in Seq(ToTarget)
    BY <1>0, <1>1, SeqTypes DEF LinksTypeOK
  <2> QED
    BY <1>0, <1>1, <1>2, <2>1, EventType DEF LinkTypes, LinksTypeOK
<1>5. ListTypes'
  <2>1. outq[ci] \o e.out \in Seq(ToController)
    BY <1>0, <1>1, <1>3, SeqTypes DEF ListTypes
  <2> QED
    BY <1>0, <1>1, <1>2, <1>3, <2>1 DEF ListTypes
<1>6. LoopTypes'
  BY <1>0, <1>1 DEF LoopTypes
<1>7. FsTypes'
  <2>1. pending[ci] \ e.ops \subseteq [seqno : Nat, proc : Procs]
    BY <1>0, <1>1 DEF FsTypes
  <2> QED
    BY <1>0, <1>1, <1>2, <2>1 DEF FsTypes
<1>8. ProgTypes'
  BY <1>0, <1>1, <1>2 DEF ProgTypes, ProgramAfter
<1> QED
  BY <1>4, <1>5, <1>6, <1>7, <1>8 DEF TypeInv

(* Where the update loop goes from a peer. *)
GoesOn(n) ==
  IF next[n] = NULL THEN NextTurn
  ELSE /\ ci' = next[n] /\ loop_next' = next[n] /\ got' = FALSE
       /\ wake' = [wake EXCEPT !.read = @ \ {n}]
       /\ UNCHANGED <<phase, new_peer>>

(* What a peer sends leaves its queue, and a peer in error leaves altogether.*)
LEMMA FinishIs ==
  ASSUME TypeInv, update_finish
  PROVE  /\ phase = "update" /\ ci \in Conns
         /\ \E st \in PeerStates :
              /\ st = state[ci] \/ st = "DISCONNECTED"
              /\ state' = [state EXCEPT ![ci] = st]
              /\ IF st \in {"ERROR", "DISCONNECTED"}
                   THEN RemovePeer(ci, loop_next)
                   ELSE UNCHANGED <<peers, next, mounted, mem, tfd, c2t, dev_sig>>
         /\ t2c' = AfterSend(t2c, ci, cfd, outq[ci])
         /\ outq' = [outq EXCEPT ![ci] = <<>>]
         /\ GoesOn(ci)
         /\ UNCHANGED <<backlog, cfd, events, peer_index, peer_count, prog, proc_port, proc_sig,
                        coalesced, dev_port, local, pending, seqno>>
<1>1. phase = "update"
  BY DEF update_finish
<1>2. ci \in Conns
  BY <1>1 DEF TypeInv, LoopTypes
<1>3. state[ci] \in PeerStates /\ "DISCONNECTED" \in PeerStates
  BY <1>2 DEF TypeInv, ListTypes, PeerStates
<1> DEFINE st == IF EndOfStream(ci) THEN "DISCONNECTED" ELSE state[ci]
<1>4. st \in PeerStates /\ (st = state[ci] \/ st = "DISCONNECTED")
  BY <1>3
<1>5. /\ state' = [state EXCEPT ![ci] = st]
      /\ IF st \in {"ERROR", "DISCONNECTED"}
           THEN RemovePeer(ci, loop_next)
           ELSE UNCHANGED <<peers, next, mounted, mem, tfd, c2t, dev_sig>>
      /\ t2c' = AfterSend(t2c, ci, cfd, outq[ci])
      /\ outq' = [outq EXCEPT ![ci] = <<>>]
  BY DEF update_finish
<1>6. GoesOn(ci)
  BY DEF update_finish, GoesOn
<1>7. UNCHANGED <<backlog, cfd, events, peer_index, peer_count, prog, proc_port, proc_sig,
                  coalesced, dev_port, local, pending, seqno>>
  BY DEF update_finish, fsVars, portVars
<1> HIDE DEF st
<1> QED
  BY <1>1, <1>2, <1>4, <1>5, <1>6, <1>7

LEMMA FinishKeepsTypes ==
  ASSUME TypeInv, update_finish, UNCHANGED ctlVars
  PROVE  TypeInv'
<1>0. /\ LinksTypeOK /\ ctl \in [Conns -> CtlStates] /\ ping_on_wire \in [Conns -> BOOLEAN]
      /\ ListTypes /\ LoopTypes /\ FsTypes /\ ProgTypes
  BY DEF TypeInv, LinkTypes
<1> DEFINE n == ci
<1>1. /\ n \in Conns /\ phase = "update"
      /\ t2c' = AfterSend(t2c, n, cfd, outq[n])
      /\ outq' = [outq EXCEPT ![n] = <<>>]
      /\ GoesOn(n)
      /\ UNCHANGED <<backlog, cfd, events, peer_index, peer_count, prog, proc_port, proc_sig,
                     coalesced, dev_port, local, pending, seqno, ctl, ping_on_wire>>
  BY FinishIs DEF ctlVars
<1>2. PICK st \in PeerStates :
        /\ state' = [state EXCEPT ![n] = st]
        /\ IF st \in {"ERROR", "DISCONNECTED"}
             THEN RemovePeer(n, loop_next)
             ELSE UNCHANGED <<peers, next, mounted, mem, tfd, c2t, dev_sig>>
  BY FinishIs
<1> HIDE DEF n
<1>3. next[n] \in Conns \cup {NULL}
  BY <1>0, <1>1 DEF ListTypes
<1>4. LinkTypes'
  <2>1. t2c' \in [Conns -> Seq(ToController)]
    BY <1>0, <1>1, AfterSendType DEF LinksTypeOK, ListTypes
  <2>2. c2t' \in [Conns -> Seq(ToTarget)]
    <3>1. c2t \in [Conns -> Seq(ToTarget)] /\ <<>> \in Seq(ToTarget)
      BY <1>0, SeqTypes DEF LinksTypeOK
    <3> QED
      BY <1>1, <1>2, <3>1 DEF RemovePeer
  <2>3. tfd' \in [Conns -> {"none", "open", "closed"}]
    BY <1>0, <1>1, <1>2 DEF LinksTypeOK, RemovePeer
  <2> QED
    BY <1>0, <1>1, <2>1, <2>2, <2>3 DEF LinkTypes, LinksTypeOK
<1>5. ListTypes'
  <2>1. state' \in [Conns -> PeerStates]
    BY <1>0, <1>1, <1>2 DEF ListTypes
  <2>2. outq' \in [Conns -> Seq(ToController)]
    BY <1>0, <1>1, SeqTypes DEF ListTypes
  <2>3. peers' \in Conns \cup {NULL} /\ next' \in [Conns -> Conns \cup {NULL}]
    BY <1>0, <1>1, <1>2, <1>3 DEF ListTypes, RemovePeer, Unlinked
  <2>4. mem' \in [Conns -> {"none", "live", "freed"}] /\ mounted' \subseteq Conns
    BY <1>0, <1>1, <1>2 DEF ListTypes, RemovePeer, Unmounted
  <2> QED
    BY <1>0, <1>1, <2>1, <2>2, <2>3, <2>4 DEF ListTypes
<1>6. LoopTypes'
  <2>1. CASE next[n] = NULL
    BY <1>1, <2>1, TurnTypes DEF GoesOn, LoopTypes
  <2>2. CASE next[n] # NULL
    <3>1. wake' \in WakeType
      BY <1>0, <1>1, <2>2 DEF GoesOn, LoopTypes, WakeType
    <3> QED
      BY <1>0, <1>1, <1>3, <2>2, <3>1 DEF GoesOn, LoopTypes
  <2> QED
    BY <2>1, <2>2
<1>7. FsTypes'
  BY <1>0, <1>1 DEF FsTypes
<1>8. ProgTypes'
  <2>1. dev_sig' \subseteq Conns
    BY <1>0, <1>2 DEF ProgTypes, RemovePeer
  <2> QED
    BY <1>0, <1>1, <2>1 DEF ProgTypes
<1> QED
  BY <1>4, <1>5, <1>6, <1>7, <1>8 DEF TypeInv

LEMMA ShutdownKeepsTypes ==
  ASSUME TypeInv, shutdown, UNCHANGED ctlVars
  PROVE  TypeInv'
<1>0. /\ LinksTypeOK /\ ctl \in [Conns -> CtlStates] /\ ping_on_wire \in [Conns -> BOOLEAN]
      /\ ListTypes /\ LoopTypes /\ FsTypes /\ ProgTypes
  BY DEF TypeInv, LinkTypes
<1>1. LinkTypes'
  <2>1. c2t' \in [Conns -> Seq(ToTarget)]
    BY <1>0, SeqTypes DEF shutdown, LinksTypeOK
  <2>2. tfd' \in [Conns -> {"none", "open", "closed"}]
    BY <1>0 DEF shutdown, LinksTypeOK
  <2> QED
    BY <1>0, <2>1, <2>2, SeqTypes DEF shutdown, LinkTypes, LinksTypeOK, ctlVars
<1>2. ListTypes'
  BY <1>0 DEF shutdown, ListTypes
<1>3. LoopTypes' /\ ProgTypes' /\ FsTypes'
  BY <1>0, SeqTypes DEF shutdown, LoopTypes, ProgTypes, FsTypes, turnVars, fsVars
<1> QED
  BY <1>1, <1>2, <1>3 DEF TypeInv

LEMMA StutterKeepsTypes == TypeInv /\ UNCHANGED vars => TypeInv'
BY DEF vars, links, ctlVars, targetVars, listVars, turnVars, fsVars, portVars, progVars, TypeInv,
       LinkTypes, LinksTypeOK, ListTypes, LoopTypes, FsTypes, ProgTypes

(* The steps of the system, by who takes them. *)
LEMMA Steps ==
  ASSUME [Next]_vars
  PROVE  \/ UNCHANGED vars
         \/ phase # "undefined" /\ \E n \in Conns : ByController(n)
         \/ phase # "undefined" /\ \E n \in Conns : ByProgram(n)
         \/ phase # "undefined" /\ serve /\ UNCHANGED ctlVars
BY DEF Next, ServeStep, ByController, ByProgram

LEMMA TypeInvStep == TypeInv /\ [Next]_vars => TypeInv'
BY Steps, StutterKeepsTypes, ControllerKeepsTypes, ProgramKeepsTypes, WaitingKeepsTypes,
   SignalsKeepTypes, AcceptKeepsTypes, DeliverKeepsTypes, FinishKeepsTypes, ShutdownKeepsTypes
   DEF serve

LEMMA TypeInvAlways == Spec => []TypeInv
BY TypeInvInit, TypeInvStep, PTL DEF Spec

-----------------------------------------------------------------------------
(* The process port                                                         *)

(* Steps that have nothing to do with the process port. *)
LEMMA PortUntouched ==
  ASSUME PortAccounting, UNCHANGED <<proc_port, proc_sig, coalesced>>,
         \/ UNCHANGED <<phase, wake>>
         \/ phase \notin {"signals", "exited"} /\ phase' # "signals"
         \/ phase' = "undefined"
  PROVE  phase # "undefined" => PortAccounting'
BY DEF PortAccounting

LEMMA PortStep == TypeInv /\ PortAccounting /\ [Next]_vars => PortAccounting'
<1> SUFFICES ASSUME TypeInv, PortAccounting, [Next]_vars PROVE PortAccounting'
  OBVIOUS
<1>0. /\ proc_port \in Seq(Conns) /\ Len(proc_port) \in Nat
      /\ proc_port # <<>> => Len(proc_port) > 0 /\ Len(Tail(proc_port)) = Len(proc_port) - 1
  <2>1. proc_port \in Seq(Conns)
    BY DEF TypeInv, ProgTypes
  <2> QED
    BY <2>1, HeadTailProperties, EmptySeq
<1>1. proc_sig \in BOOLEAN /\ wake.proc \in BOOLEAN /\ coalesced \in BOOLEAN
  BY DEF TypeInv, ProgTypes, LoopTypes, WakeType
<1>2. CASE UNCHANGED vars
  <2>1. UNCHANGED <<proc_port, proc_sig, coalesced, phase, wake>>
    BY <1>2 DEF vars, targetVars, turnVars, progVars, portVars
  <2> QED
    BY <2>1 DEF PortAccounting
<1>3. ASSUME NEW n \in Conns, ByController(n), phase # "undefined" PROVE PortAccounting'
  BY <1>3, PortUntouched DEF ByController, ControllerStep, targetVars, turnVars, progVars, portVars
<1>4. ASSUME NEW n \in Conns, ByProgram(n), phase # "undefined" PROVE PortAccounting'
  <2>1. UNCHANGED wake /\ (phase' = phase \/ phase' = "undefined")
    BY <1>4, ProgramSteps
  <2>2. CASE launcher_starts(n) \/ program_ends(n) \/ \E p \in Procs : file_request(n, p)
    BY <1>4, <2>1, <2>2, PortUntouched DEF launcher_starts, program_ends, file_request, portVars
  <2>3. CASE launcher_replies(n)
    <3>1. CASE phase = "exited"
      BY <2>3, <3>1 DEF PortAccounting, launcher_replies
    <3>2. CASE phase # "exited"
      <4>1. Len(proc_port') = Len(proc_port) + 1 /\ proc_sig' = TRUE /\ UNCHANGED phase
        BY <1>0, <2>3, <3>2, AppendProperties DEF launcher_replies
      <4>2. coalesced' = (coalesced \/ proc_sig)
        BY <2>3, <3>2 DEF launcher_replies
      <4> QED
        BY <1>0, <1>1, <1>4, <2>1, <3>2, <4>1, <4>2 DEF PortAccounting
    <3> QED
      BY <3>1, <3>2
  <2> QED
    BY <1>4, <2>2, <2>3 DEF ByProgram, ProgramStep, cmd_launcher
<1>6. CASE /\ common_main \/ follow_freed \/ accept_peer \/ no_connection \/ deliver \/ update_finish
           /\ phase # "undefined"
  <2>1. UNCHANGED <<proc_port, proc_sig, coalesced>>
    BY <1>6 DEF common_main, follow_freed, accept_peer, no_connection, deliver, update_finish,
                progVars, portVars
  <2>2. phase \notin {"signals", "exited"} /\ phase' # "signals"
    BY <1>6 DEF common_main, follow_freed, accept_peer, no_connection, deliver, update_finish,
                accept_fails, setup_fails, mount_fails, accept_succeeds, StartUpdate, NextTurn
  <2> QED
    BY <1>6, <2>1, <2>2, PortUntouched
<1>7. CASE WaitSelect
  <2>0. wake'.proc = proc_sig /\ proc_sig' = (proc_sig /\ ~wake'.proc)
    BY <1>7 DEF WaitSelect, ProcSignal
  <2>1. /\ phase = "select" /\ phase' = "signals" /\ UNCHANGED <<proc_port, coalesced>>
        /\ wake'.proc = proc_sig /\ proc_sig' = FALSE
    BY <1>1, <1>7, <2>0 DEF WaitSelect
  <2>2. CASE proc_sig
    BY <1>0, <2>1, <2>2 DEF PortAccounting
  <2>3. CASE ~proc_sig
    BY <1>0, <2>1, <2>3 DEF PortAccounting
  <2> QED
    BY <2>2, <2>3
<1>8. CASE handle_signals
  <2>1. /\ phase = "signals" /\ phase' \notin {"signals", "exited"}
        /\ UNCHANGED <<proc_sig, coalesced>>
        /\ proc_port' = IF wake.proc /\ proc_port # <<>> THEN Tail(proc_port) ELSE proc_port
    BY <1>8 DEF handle_signals, AfterGetMsg
  <2>2. wake.proc => proc_port # <<>>
    BY <1>0, <1>1, <2>1 DEF PortAccounting
  <2> QED
    BY <1>0, <1>1, <2>1, <2>2 DEF PortAccounting
<1>9. CASE shutdown
  BY <1>9 DEF shutdown, PortAccounting
<1> QED
  BY Steps, <1>2, <1>3, <1>4, <1>6, <1>7, <1>8, <1>9 DEF serve

(* There is a message on the process port for every wake-up by its signal,  *)
(* so the code's unchecked GetMsg always finds one, and no report is left   *)
(* over unless two programs ended between two calls of WaitSelect.          *)
THEOREM WakeUpsFindTheirMessage == Spec => []PortAccounting
<1>1. Init => PortAccounting
  BY DEF Init, TargetInit, NoWake, PortAccounting
<1> QED
  BY <1>1, TypeInvAlways, PortStep, PTL DEF Spec

-----------------------------------------------------------------------------
(* Volume names                                                             *)

LEMMA NamesStep == TypeInv /\ VolumeNamesDistinct /\ [Next]_vars => VolumeNamesDistinct'
<1> SUFFICES ASSUME TypeInv, VolumeNamesDistinct, [Next]_vars PROVE VolumeNamesDistinct'
  OBVIOUS
<1>1. ASSUME mounted' \subseteq mounted, UNCHANGED peer_index PROVE VolumeNamesDistinct'
  BY <1>1 DEF VolumeNamesDistinct
<1>2. ASSUME NEW n, accept_succeeds(n), n = Head(backlog), n \in Conns PROVE VolumeNamesDistinct'
  <2>1. /\ peer_index' = [peer_index EXCEPT ![n] = IndexOf(peer_count)]
        /\ mounted' = mounted \cup {n}
        /\ \A m \in mounted : peer_index[m] # IndexOf(peer_count)
    BY <1>2 DEF accept_succeeds, NameTaken
  <2>2. peer_index \in [Conns -> 0 .. IndexModulus - 1] /\ mounted \subseteq Conns
    BY DEF TypeInv, ListTypes
  <2> QED
    BY <1>2, <2>1, <2>2 DEF VolumeNamesDistinct
<1>3. CASE accept_peer
  <2>1. Head(backlog) \in Conns
    BY <1>3, SeqTypes DEF accept_peer, TypeInv, LoopTypes, LinkTypes, LinksTypeOK
  <2> QED
    BY <1>1, <1>2, <1>3, <2>1 DEF accept_peer, accept_fails, setup_fails, mount_fails, listVars
<1>4. CASE deliver \/ update_finish
  BY <1>1, <1>4 DEF deliver, update_finish, RemovePeer, Unmounted
<1>5. CASE shutdown
  BY <1>1, <1>5 DEF shutdown
<1>6. CASE UNCHANGED listVars
  BY <1>1, <1>6 DEF listVars
<1>7. CASE common_main \/ follow_freed \/ WaitSelect \/ handle_signals \/ no_connection
  BY <1>1, <1>7 DEF common_main, follow_freed, WaitSelect, handle_signals, no_connection, listVars
<1>8. ASSUME NEW n \in Conns, ByProgram(n) PROVE VolumeNamesDistinct'
  BY <1>1, <1>8, ProgramSteps
<1>9. ASSUME NEW n \in Conns, ByController(n) PROVE VolumeNamesDistinct'
  BY <1>6, <1>9 DEF ByController, ControllerStep, targetVars
<1> QED
  BY Steps, <1>3, <1>4, <1>5, <1>6, <1>7, <1>8, <1>9 DEF serve, vars, targetVars

(* No two volumes have the same name, however many connections the indices  *)
(* have wrapped around for.                                                 *)
THEOREM VolumeNamesAreDistinct == Spec => []VolumeNamesDistinct
<1>1. Init => VolumeNamesDistinct
  BY DEF Init, TargetInit, VolumeNamesDistinct
<1> QED
  BY <1>1, TypeInvAlways, NamesStep, PTL DEF Spec

-----------------------------------------------------------------------------
(* The list of peers.  It is never searched for what is on it: each peer has*)
(* a pointer to one that was accepted earlier, and no peer that is alive    *)
(* comes between the two.                                                   *)

(* Controllers are started in order, so what waits for accept() is newer    *)
(* than everything that has been accepted.                                  *)
BacklogInOrder ==
  /\ \A n \in Conns : ctl[n] # "off" => \A k \in 1 .. n - 1 : ctl[k] # "off"
  /\ \A n \in Conns : mem[n] # "none" => ctl[n] # "off"
  /\ \A i \in 1 .. Len(backlog) :
       /\ ctl[backlog[i]] # "off"
       /\ \A k \in Conns : mem[k] # "none" => k < backlog[i]
       /\ \A j \in 1 .. i - 1 : backlog[j] < backlog[i]

(* Pointers lead to older peers, dead or alive. *)
PointersGoBack ==
  /\ peers # NULL => mem[peers] # "none"
  /\ \A n \in Conns : next[n] # NULL =>
       mem[n] # "none" /\ mem[next[n]] # "none" /\ next[n] < n

(* No pointer skips a peer that is alive. *)
NoneSkipped ==
  \A k \in Conns : mem[k] = "live" =>
    /\ peers # NULL /\ k <= peers
    /\ \A n \in Conns : mem[n] # "none" /\ k < n => next[n] # NULL /\ k <= next[n]

(* In the update loop `next' is NULL in the first turn, which is the head's,*)
(* and the current peer in the others.                                      *)
LoopPointers ==
  /\ mem[ci] # "none"
  /\ loop_next = NULL => ci = peers
  /\ loop_next # NULL => loop_next = ci

ListInv ==
  /\ mounted = Live
  /\ phase \in {"boot", "exited"} => Live = {}
  /\ BacklogInOrder /\ PointersGoBack
  /\ phase \notin {"exited", "undefined"} => NoneSkipped
  /\ phase = "update" => LoopPointers

(* So following the list from its head finds every peer that is alive. *)
LEMMA LiveAreListed ==
  ASSUME TypeInv, ListInv, phase \notin {"exited", "undefined"}
  PROVE  Live \subseteq Listed
<1> SUFFICES ASSUME NEW k \in Conns, mem[k] = "live", k \notin Listed PROVE FALSE
  BY DEF Live
<1>0. /\ MaxConns \in Nat /\ Conns \subseteq Int /\ NULL \notin Conns
      /\ \A n \in Conns : n <= MaxConns /\ n >= 1
  BY LinksAssumption, TargetAssumption DEF Conns
<1>1. NoneSkipped /\ PointersGoBack
  BY DEF ListInv
<1>2. peers \in Conns \cup {NULL} /\ next \in [Conns -> Conns \cup {NULL}]
  BY DEF TypeInv, ListTypes
<1>3. /\ peers # NULL /\ k <= peers /\ mem[peers] # "none"
      /\ \A n \in Conns : mem[n] # "none" /\ k < n => next[n] # NULL /\ k <= next[n]
  BY <1>1 DEF NoneSkipped, PointersGoBack
<1> DEFINE Ahead(i) == /\ Walk[i] \in Conns /\ mem[Walk[i]] # "none"
                       /\ k <= Walk[i] /\ Walk[i] <= MaxConns - i
           G == {i \in Nat : i <= MaxConns => Ahead(i)}
<1>4. 0 \in G
  <2>1. Walk[0] = peers /\ peers \in Conns /\ peers <= MaxConns - 0
    BY <1>0, <1>2, <1>3, WalkIs
  <2> QED
    BY <1>3, <2>1
<1>5. ASSUME NEW i \in Nat, i \in G PROVE i + 1 \in G
  <2> SUFFICES ASSUME i + 1 <= MaxConns PROVE Ahead(i + 1)
    OBVIOUS
  <2>1. i <= MaxConns /\ i \in 0 .. MaxConns /\ i + 1 \in 1 .. MaxConns /\ i + 1 - 1 = i
    BY <1>0
  <2>2. Ahead(i)
    BY <1>5, <2>1
  <2>3. Walk[i] # NULL /\ Walk[i] # k
    BY <1>0, <2>1, <2>2 DEF Listed
  <2>4. Walk[i + 1] = next[Walk[i]]
    BY <2>1, <2>3, WalkIs
  <2> DEFINE w == Walk[i]
             x == next[w]
  <2>5. k < w
    <3>1. k \in Int /\ w \in Int /\ k <= w /\ w # k
      BY <1>0, <2>2, <2>3
    <3> HIDE DEF w
    <3> QED
      BY <3>1
  <2>6. x \in Conns /\ x # NULL /\ k <= x
    BY <1>2, <1>3, <2>2, <2>5
  <2>7. mem[x] # "none" /\ x < w
    BY <1>1, <2>2, <2>6 DEF PointersGoBack
  <2>8. w \in Int /\ x \in Int /\ w <= MaxConns - i
    BY <1>0, <2>2, <2>6
  <2> HIDE DEF w, x
  <2>9. x <= MaxConns - (i + 1)
    BY <1>0, <2>7, <2>8
  <2> QED
    BY <2>4, <2>6, <2>7, <2>9 DEF w, x
<1>6. \A i \in Nat : i \in G
  <2> HIDE DEF G
  <2> QED
    BY <1>4, <1>5, NatInductionSet
<1>7. Ahead(MaxConns)
  BY <1>0, <1>6
<1> DEFINE last == Walk[MaxConns]
<1>8. last \in Int /\ last >= 1 /\ last <= MaxConns - MaxConns
  BY <1>0, <1>7
<1> HIDE DEF last
<1> QED
  BY <1>0, <1>8

LEMMA ListInvInit == Init => ListInv
BY DEF Init, ControllerInit, LinksInit, TargetInit, ListInv, Live, BacklogInOrder, PointersGoBack,
       NoneSkipped

(* A step that leaves the list and the loop alone. *)
LEMMA ListUntouched ==
  ASSUME ListInv, BacklogInOrder', UNCHANGED <<peers, next, mem, mounted>>,
         phase' \in {"exited", "boot"} => phase \in {"exited", "boot"},
         phase \in {"exited", "undefined"} => phase' \in {"exited", "undefined"},
         phase' = "update" => phase = "update" /\ UNCHANGED <<ci, loop_next>>
  PROVE  ListInv'
<1>1. /\ mounted' = Live' /\ PointersGoBack' /\ Live' = Live
      /\ NoneSkipped <=> NoneSkipped'
  BY DEF ListInv, Live, PointersGoBack, NoneSkipped
<1>2. phase' = "update" => LoopPointers'
  BY DEF ListInv, LoopPointers
<1> QED
  BY <1>1, <1>2 DEF ListInv

LEMMA BacklogUntouched ==
  ASSUME BacklogInOrder, UNCHANGED <<backlog, ctl, mem>>
  PROVE  BacklogInOrder'
BY DEF BacklogInOrder

(* Controllers: a new one goes to the end of the backlog. *)
LEMMA ControllerKeepsList ==
  ASSUME TypeInv, ListInv, NEW n \in Conns, ByController(n)
  PROVE  ListInv'
<1>1. UNCHANGED <<peers, next, mem, mounted, phase, ci, loop_next>>
  BY DEF ByController, ControllerStep, targetVars, listVars, turnVars
<1>2. ctl \in [Conns -> CtlStates] /\ backlog \in Seq(Conns) /\ mem \in [Conns -> {"none", "live", "freed"}]
  BY DEF TypeInv, LinkTypes, LinksTypeOK, ListTypes
<1>3. Conns \subseteq Int /\ \A k \in Conns : k >= 1 /\ k <= MaxConns
  BY LinksAssumption DEF Conns
<1>4. BacklogInOrder
  BY DEF ListInv
<1>5. BacklogInOrder'
  <2>1. ASSUME ctl[n] # "off", NEW new \in CtlStates \ {"off"}, ctl' = [ctl EXCEPT ![n] = new],
               UNCHANGED backlog
        PROVE  BacklogInOrder'
    <3>1. \A k \in Conns : ctl'[k] = "off" <=> ctl[k] = "off"
      BY <1>2, <2>1
    <3>2. \A j \in Conns : \A k \in 1 .. j - 1 : k \in Conns
      BY LinksAssumption DEF Conns
    <3>3. \A i \in 1 .. Len(backlog) : backlog[i] \in Conns
      BY <1>2
    <3> QED
      BY <1>1, <1>4, <2>1, <3>1, <3>2, <3>3 DEF BacklogInOrder
  <2>2. CASE connect_to_target(n, Listening)
    <3>1. PICK new \in {"connected", "exited"} : ctl' = [ctl EXCEPT ![n] = new]
      BY <2>2 DEF connect_to_target
    <3>2. ctl[n] = "off" /\ \A k \in 1 .. n - 1 : ctl[k] # "off"
      BY <2>2 DEF connect_to_target, NextToStart
    <3>3. \A k \in Conns : ctl[k] # "off" => k < n
      <4> SUFFICES ASSUME NEW k \in Conns, ctl[k] # "off", k > n PROVE FALSE
        BY <1>3, <3>2
      <4>1. n \in 1 .. k - 1
        BY <1>3
      <4> QED
        BY <1>4, <3>2, <4>1 DEF BacklogInOrder
    <3>4. \A j \in Conns : ctl'[j] # "off" => \A k \in 1 .. j - 1 : ctl'[k] # "off"
      <4>1. \A j \in Conns : \A k \in 1 .. j - 1 : k \in Conns
        BY LinksAssumption DEF Conns
      <4> QED
        BY <1>2, <1>3, <1>4, <3>1, <3>2, <4>1 DEF BacklogInOrder
    <3>5. \A j \in Conns : mem'[j] # "none" => ctl'[j] # "off"
      BY <1>1, <1>2, <1>4, <3>1 DEF BacklogInOrder
    <3>6. ASSUME NEW i \in 1 .. Len(backlog')
          PROVE  /\ ctl'[backlog'[i]] # "off"
                 /\ \A k \in Conns : mem'[k] # "none" => k < backlog'[i]
                 /\ \A j \in 1 .. i - 1 : backlog'[j] < backlog'[i]
      <4>1. backlog' = backlog \/ backlog' = Append(backlog, n)
        BY <2>2 DEF connect_to_target
      <4>2. Len(backlog) \in Nat /\ \A j \in 1 .. Len(backlog) : backlog[j] \in Conns
        BY <1>2
      <4>3. CASE i \in 1 .. Len(backlog)
        <5>1. backlog'[i] = backlog[i] /\ \A j \in 1 .. i - 1 : backlog'[j] = backlog[j]
          BY <1>2, <4>1, <4>2, <4>3, AppendProperties
        <5>2. ctl'[backlog[i]] # "off"
          BY <1>2, <1>4, <3>1, <4>2, <4>3 DEF BacklogInOrder
        <5> QED
          BY <1>1, <1>4, <4>3, <5>1, <5>2 DEF BacklogInOrder
      <4>4. CASE i \notin 1 .. Len(backlog)
        <5>1. backlog' = Append(backlog, n)
          BY <4>1, <4>4
        <5>2. Len(backlog') = Len(backlog) + 1 /\ \A j \in 1 .. Len(backlog) : backlog'[j] = backlog[j]
          BY <1>2, <5>1, AppendProperties
        <5>3. i = Len(backlog) + 1 /\ backlog'[i] = n
          BY <1>2, <4>2, <4>4, <5>1, <5>2, AppendProperties
        <5>4. \A j \in 1 .. i - 1 : backlog'[j] < n
          <6>1. \A j \in 1 .. Len(backlog) : ctl[backlog[j]] # "off"
            BY <1>4 DEF BacklogInOrder
          <6> QED
            BY <3>3, <4>2, <5>2, <5>3, <6>1
        <5>5. \A k \in Conns : mem'[k] # "none" => k < n
          BY <1>1, <1>4, <3>3 DEF BacklogInOrder
        <5> QED
          BY <1>2, <3>1, <5>3, <5>4, <5>5
      <4> QED
        BY <4>3, <4>4
    <3> QED
      BY <3>4, <3>5, <3>6 DEF BacklogInOrder
  <2>3. ASSUME NEW new, NEW msgs, Answer(n, new, msgs)
        PROVE  ctl' = [ctl EXCEPT ![n] = new] /\ UNCHANGED backlog
    BY <2>3 DEF Answer
  <2>4. ASSUME Exit(n) PROVE ctl' = [ctl EXCEPT ![n] = "exited"] /\ UNCHANGED backlog
    BY <2>4 DEF Exit
  <2>5. {"initial", "wait_launched", "file_serving", "exited"} \subseteq CtlStates \ {"off"}
    BY DEF CtlStates
  <2>6. CASE first_update(n)
    BY <2>1, <2>5, <2>6 DEF first_update
  <2>7. CASE on_connected(n)
    BY <2>1, <2>3, <2>5, <2>7 DEF on_connected
  <2>8. CASE controller_on_message(n)
    <3>1. ctl[n] \in CtlStates \ {"off"}
      BY <2>8 DEF controller_on_message, Connected, CtlStates
    <3>2. \/ \E new \in {ctl[n], "file_serving"} : \E msgs : Answer(n, new, msgs)
          \/ Exit(n)
      BY <2>8 DEF controller_on_message, on_ping_answer
    <3>3. \E new \in CtlStates \ {"off"} : ctl' = [ctl EXCEPT ![n] = new] /\ UNCHANGED backlog
      BY <2>3, <2>4, <2>5, <3>1, <3>2
    <3> QED
      BY <2>1, <3>1, <3>3
  <2>9. CASE disconnected(n) \/ quit(n)
    BY <2>1, <2>4, <2>5, <2>9 DEF disconnected, quit, Running
  <2>10. CASE send_ping(n)
    BY <1>1, <1>4, <2>10, BacklogUntouched DEF send_ping
  <2> QED
    BY <2>2, <2>6, <2>7, <2>8, <2>9, <2>10 DEF ByController, ControllerStep, pump_peer_state_machine
<1> QED
  BY <1>1, <1>5, ListUntouched


(* Accepting: what waits is newer than what is on the list, so the new peer *)
(* is put in front of older ones.                                           *)
LEMMA AcceptKeepsList ==
  ASSUME TypeInv, ListInv, accept_peer \/ no_connection, UNCHANGED ctlVars
  PROVE  ListInv'
<1>0. /\ mounted = Live /\ BacklogInOrder /\ PointersGoBack
      /\ phase = "accept" /\ NoneSkipped
  BY DEF ListInv, accept_peer, no_connection
<1>1. /\ peers \in Conns \cup {NULL} /\ next \in [Conns -> Conns \cup {NULL}]
      /\ mem \in [Conns -> {"none", "live", "freed"}] /\ NULL \notin Conns
  BY TargetAssumption DEF TypeInv, ListTypes
<1>2. CASE no_connection
  <2>1. UNCHANGED <<peers, next, mem, mounted, backlog, ctl>>
    BY <1>2 DEF no_connection, listVars, links, ctlVars
  <2>2. BacklogInOrder' /\ PointersGoBack' /\ NoneSkipped' /\ mounted' = Live'
    BY <1>0, <2>1 DEF BacklogInOrder, PointersGoBack, NoneSkipped, Live
  <2>3. /\ phase' \notin {"boot", "exited"}
        /\ phase' = "update" => LoopPointers'
    <3>1. StartUpdate(peers, NULL)
      BY <1>2 DEF no_connection
    <3>2. /\ phase' \in {"select", "update"}
          /\ phase' = "update" => ci' = peers /\ ci' # NULL /\ loop_next' = NULL
      BY <1>1, <3>1, TurnTypes
    <3> QED
      BY <1>0, <2>1, <3>2 DEF LoopPointers, PointersGoBack
  <2> QED
    BY <2>2, <2>3 DEF ListInv
<1>3. CASE accept_peer
  <2> DEFINE n == Head(backlog)
             rest == Tail(backlog)
  <2>1. backlog \in Seq(Conns) /\ backlog # <<>>
    BY <1>3 DEF accept_peer, TypeInv, LoopTypes, LinkTypes, LinksTypeOK
  <2>2. /\ n \in Conns /\ n = backlog[1] /\ 1 \in 1 .. Len(backlog)
        /\ Len(rest) = Len(backlog) - 1 /\ Len(backlog) \in Nat
        /\ \A i \in 1 .. Len(rest) : i + 1 \in 1 .. Len(backlog) /\ rest[i] = backlog[i + 1]
    BY <2>1, HeadTailProperties, EmptySeq
  <2>3. /\ ctl[n] # "off"
        /\ \A k \in Conns : mem[k] # "none" => k < n
    BY <1>0, <2>2 DEF BacklogInOrder
  <2>4. \A i \in 1 .. Len(rest) : n < rest[i]
    <3> TAKE i \in 1 .. Len(rest)
    <3>1. i + 1 \in 1 .. Len(backlog) /\ 1 \in 1 .. (i + 1) - 1
      BY <2>2
    <3>2. backlog[1] < backlog[i + 1]
      BY <1>0, <3>1 DEF BacklogInOrder
    <3> QED
      BY <2>2, <3>2
  <2>5. accept_fails \/ setup_fails(n) \/ mount_fails(n) \/ accept_succeeds(n)
    BY <1>3 DEF accept_peer
  <2> HIDE DEF n, rest
  <2>9. UNCHANGED ctl
    BY DEF ctlVars
  <2>6. ASSUME NEW m, m = mem \/ m = [mem EXCEPT ![n] = "live"], mem' = m, backlog' = rest
        PROVE  BacklogInOrder'
    <3>1. \A k \in Conns : m[k] # "none" => mem[k] # "none" \/ k = n
      BY <1>1, <2>6
    <3>2. \A i \in 1 .. Len(rest) :
            /\ ctl[rest[i]] # "off"
            /\ \A k \in Conns : mem[k] # "none" => k < rest[i]
      BY <1>0, <2>2 DEF BacklogInOrder
    <3>3. \A i \in 1 .. Len(rest) : \A j \in 1 .. i - 1 : rest[j] < rest[i]
      <4> TAKE i \in 1 .. Len(rest)
      <4> TAKE j \in 1 .. i - 1
      <4>1. /\ j \in 1 .. Len(rest) /\ i + 1 \in 1 .. Len(backlog)
            /\ j + 1 \in 1 .. (i + 1) - 1
        BY <2>2
      <4>2. backlog[j + 1] < backlog[i + 1]
        BY <1>0, <4>1 DEF BacklogInOrder
      <4> QED
        BY <2>2, <4>1, <4>2
    <3>4. \A i \in 1 .. Len(rest) : \A k \in Conns : mem'[k] # "none" => k < rest[i]
      BY <2>4, <2>6, <3>1, <3>2
    <3>5. \A k \in Conns : ctl[k] # "off" => \A j \in 1 .. k - 1 : ctl[j] # "off"
      BY <1>0 DEF BacklogInOrder
    <3>6. \A k \in Conns : mem'[k] # "none" => ctl[k] # "off"
      BY <1>0, <2>3, <2>6, <3>1 DEF BacklogInOrder
    <3> QED
      BY <2>6, <2>9, <3>2, <3>3, <3>4, <3>5, <3>6 DEF BacklogInOrder
  <2>7. CASE accept_fails \/ setup_fails(n) \/ mount_fails(n)
    <3>1. UNCHANGED <<peers, next, mem, mounted>> /\ phase' = "select"
      BY <2>7 DEF accept_fails, setup_fails, mount_fails, listVars, NextTurn
    <3>2. backlog' = backlog \/ backlog' = rest
      BY <2>7 DEF accept_fails, setup_fails, mount_fails, rest
    <3>3. BacklogInOrder'
      BY <1>0, <2>6, <2>9, <3>1, <3>2, BacklogUntouched
    <3> QED
      BY <1>0, <3>1, <3>3, ListUntouched
  <2>8. CASE accept_succeeds(n)
    <3>1. /\ mem' = [mem EXCEPT ![n] = "live"] /\ mounted' = mounted \cup {n}
          /\ next' = [next EXCEPT ![n] = peers] /\ peers' = n
          /\ ci' = n /\ loop_next' = NULL /\ phase' = "update" /\ backlog' = rest
      BY <1>1, <2>2, <2>8 DEF accept_succeeds, StartUpdate, rest
    <3>2. mem[n] = "none"
      BY <1>1, <2>2, <2>3, LinksAssumption DEF Conns
    <3>3. mounted' = Live'
      BY <1>0, <1>1, <2>2, <3>1 DEF Live
    <3>4. PointersGoBack'
      <4>1. peers' # NULL /\ mem'[peers'] # "none"
        BY <1>1, <2>2, <3>1
      <4>2. ASSUME NEW k \in Conns, next'[k] # NULL
            PROVE  mem'[k] # "none" /\ mem'[next'[k]] # "none" /\ next'[k] < k
        <5>1. CASE k = n
          <6>1. next'[k] = peers /\ peers \in Conns /\ mem[peers] # "none" /\ mem'[k] = "live"
            BY <1>0, <1>1, <2>2, <3>1, <4>2, <5>1 DEF PointersGoBack
          <6> QED
            BY <1>1, <2>2, <2>3, <3>1, <5>1, <6>1
        <5>2. CASE k # n
          <6>1. next'[k] = next[k] /\ next[k] \in Conns /\ mem'[k] = mem[k]
            BY <1>1, <2>2, <3>1, <4>2, <5>2
          <6>2. mem[k] # "none" /\ mem[next[k]] # "none" /\ next[k] < k
            BY <1>0, <4>2, <6>1 DEF PointersGoBack
          <6> QED
            BY <1>1, <2>2, <3>1, <6>1, <6>2
        <5> QED
          BY <5>1, <5>2
      <4> QED
        BY <4>1, <4>2 DEF PointersGoBack
    <3>5. NoneSkipped'
      <4> SUFFICES ASSUME NEW k \in Conns, mem'[k] = "live"
                   PROVE  /\ peers' # NULL /\ k <= peers'
                          /\ \A j \in Conns : mem'[j] # "none" /\ k < j =>
                               next'[j] # NULL /\ k <= next'[j]
        BY DEF NoneSkipped
      <4>1. k \in Int /\ n \in Int /\ Conns \subseteq Int
        BY <2>2, LinksAssumption DEF Conns
      <4>2. k = n \/ (mem[k] = "live" /\ k < n)
        BY <1>1, <2>2, <2>3, <3>1
      <4>3. peers' # NULL /\ k <= peers'
        BY <1>1, <2>2, <3>1, <4>1, <4>2
      <4>4. ASSUME NEW j \in Conns, mem'[j] # "none", k < j
            PROVE  next'[j] # NULL /\ k <= next'[j]
        <5>1. mem[k] = "live" /\ k < n
          <6>1. CASE j = n
            BY <4>1, <4>2, <4>4, <6>1
          <6>2. CASE j # n
            <7>1. j < n
              BY <1>1, <2>3, <3>1, <4>4, <6>2
            <7> QED
              BY <4>1, <4>2, <4>4, <7>1
          <6> QED
            BY <6>1, <6>2
        <5>2. CASE j = n
          BY <1>0, <1>1, <2>2, <3>1, <5>1, <5>2 DEF NoneSkipped
        <5>3. CASE j # n
          <6>1. next'[j] = next[j] /\ mem[j] # "none"
            BY <1>1, <2>2, <3>1, <4>4, <5>3
          <6> QED
            BY <1>0, <4>4, <5>1, <6>1 DEF NoneSkipped
        <5> QED
          BY <5>2, <5>3
      <4> QED
        BY <4>3, <4>4
    <3>6. LoopPointers'
      BY <1>1, <2>2, <3>1 DEF LoopPointers
    <3>7. BacklogInOrder'
      BY <2>6, <3>1
    <3> QED
      BY <3>1, <3>3, <3>4, <3>5, <3>6, <3>7 DEF ListInv
  <2> QED
    BY <2>5, <2>7, <2>8
<1> QED
  BY <1>2, <1>3

(* Updating a peer may remove it.  In the first turn of the loop that takes *)
(* the head off the list; in the others the code writes the pointer that is *)
(* there already, and the list goes on through the dead peer.               *)
LEMMA FinishKeepsList ==
  ASSUME TypeInv, ListInv, update_finish, UNCHANGED ctlVars
  PROVE  ListInv'
<1>0. /\ mounted = Live /\ BacklogInOrder /\ PointersGoBack
      /\ phase = "update" /\ NoneSkipped /\ LoopPointers
  BY DEF ListInv, update_finish
<1>1. /\ peers \in Conns \cup {NULL} /\ next \in [Conns -> Conns \cup {NULL}]
      /\ mem \in [Conns -> {"none", "live", "freed"}] /\ NULL \notin Conns
      /\ mounted \subseteq Conns
  BY TargetAssumption DEF TypeInv, ListTypes
<1>2. ci \in Conns /\ mem[ci] # "none"
  BY <1>0 DEF TypeInv, LoopTypes, LoopPointers
<1>3. /\ UNCHANGED <<backlog, ctl>>
      /\ phase' = IF next[ci] = NULL THEN "select" ELSE "update"
      /\ phase' = "update" => loop_next' = next[ci] /\ ci' = next[ci] /\ next[ci] # NULL
  BY <1>0, FinishIs DEF GoesOn, NextTurn, ctlVars
<1>4. \/ UNCHANGED <<peers, next, mounted, mem>>
      \/ /\ Unlinked(ci, loop_next) /\ mounted' = mounted \ {ci}
         /\ mem' = [mem EXCEPT ![ci] = "freed"]
  BY FinishIs DEF RemovePeer, Unmounted
<1>5. /\ UNCHANGED next
      /\ \/ peers' = peers
         \/ mem'[ci] = "freed" /\ ci = peers /\ peers' = next[ci]
  <2>1. CASE UNCHANGED <<peers, next, mounted, mem>>
    BY <2>1
  <2>2. CASE Unlinked(ci, loop_next) /\ mem' = [mem EXCEPT ![ci] = "freed"]
    <3>1. mem'[ci] = "freed"
      BY <1>1, <1>2, <2>2
    <3>2. CASE loop_next = NULL
      BY <1>0, <2>2, <3>1, <3>2 DEF LoopPointers, Unlinked
    <3>3. CASE loop_next # NULL
      <4>1. next' = [next EXCEPT ![ci] = next[ci]] /\ peers' = peers
        BY <1>0, <2>2, <3>3 DEF LoopPointers, Unlinked
      <4>2. next' = next
        BY <1>1, <1>2, <4>1
      <4> QED
        BY <4>1, <4>2
    <3> QED
      BY <3>2, <3>3
  <2> QED
    BY <1>4, <2>1, <2>2
<1>6. /\ \A k \in Conns : mem'[k] = "none" <=> mem[k] = "none"
      /\ \A k \in Conns : mem'[k] = "live" => mem[k] = "live"
  BY <1>1, <1>2, <1>4
<1>7. mounted' = Live'
  BY <1>0, <1>1, <1>2, <1>4 DEF Live
<1>8. BacklogInOrder'
  BY <1>0, <1>3, <1>6 DEF BacklogInOrder
<1>9. next[ci] # NULL => next[ci] \in Conns /\ mem[next[ci]] # "none"
  BY <1>0, <1>1, <1>2 DEF PointersGoBack
<1>10. PointersGoBack'
  <2>1. \A k \in Conns : next[k] # NULL => next[k] \in Conns
    BY <1>1
  <2>2. peers # NULL => peers \in Conns
    BY <1>1
  <2>3. peers' # NULL => mem'[peers'] # "none"
    BY <1>0, <1>5, <1>6, <1>9, <2>2 DEF PointersGoBack
  <2> QED
    BY <1>0, <1>5, <1>6, <2>1, <2>3 DEF PointersGoBack
<1>11. NoneSkipped'
  <2> SUFFICES ASSUME NEW k \in Conns, mem'[k] = "live"
               PROVE  /\ peers' # NULL /\ k <= peers'
                      /\ \A j \in Conns : mem'[j] # "none" /\ k < j =>
                           next'[j] # NULL /\ k <= next'[j]
    BY DEF NoneSkipped
  <2>1. mem[k] = "live"
    BY <1>6
  <2>2. /\ peers # NULL /\ k <= peers
        /\ \A j \in Conns : mem[j] # "none" /\ k < j => next[j] # NULL /\ k <= next[j]
    BY <1>0, <2>1 DEF NoneSkipped
  <2>3. peers' # NULL /\ k <= peers'
    <3>1. CASE peers' = peers
      BY <2>2, <3>1
    <3>2. CASE mem'[ci] = "freed" /\ ci = peers /\ peers' = next[ci]
      <4>1. k # ci
        BY <3>2
      <4>2. k < ci
        BY <1>2, <2>2, <3>2, <4>1, LinksAssumption DEF Conns
      <4> QED
        BY <1>2, <2>2, <3>2, <4>2
    <3> QED
      BY <1>5, <3>1, <3>2
  <2> QED
    BY <1>5, <1>6, <2>2, <2>3
<1>12. phase' = "update" => LoopPointers'
  BY <1>3, <1>6, <1>9 DEF LoopPointers
<1> QED
  BY <1>3, <1>7, <1>8, <1>10, <1>11, <1>12 DEF ListInv

(* Shutting down removes what is on the list, which is everything. *)
LEMMA ShutdownKeepsList ==
  ASSUME TypeInv, ListInv, shutdown, UNCHANGED ctlVars
  PROVE  ListInv'
<1>0. mounted = Live /\ BacklogInOrder /\ PointersGoBack /\ phase = "shutdown"
  BY DEF ListInv, shutdown
<1>1. /\ mem' = [n \in Conns |-> IF n \in Listed THEN "freed" ELSE mem[n]]
      /\ mounted' = mounted \ Listed /\ peers' = NULL /\ UNCHANGED next
      /\ phase' = "exited" /\ backlog' = <<>> /\ UNCHANGED ctl
  BY DEF shutdown, ctlVars
<1>2. /\ next \in [Conns -> Conns \cup {NULL}] /\ mem \in [Conns -> {"none", "live", "freed"}]
      /\ peers \in Conns \cup {NULL}
  BY DEF TypeInv, ListTypes
<1>3. Live \subseteq Listed
  BY <1>0, LiveAreListed
<1>4. mounted' = {} /\ Live' = {}
  BY <1>0, <1>1, <1>2, <1>3 DEF Live
<1>5. \A k \in Listed : mem[k] # "none"
  <2> DEFINE G == {i \in Nat : i <= MaxConns /\ Walk[i] # NULL => mem[Walk[i]] # "none"}
  <2>1. 0 \in G
    BY <1>0, WalkIs DEF PointersGoBack
  <2>2. ASSUME NEW i \in Nat, i \in G PROVE i + 1 \in G
    <3> SUFFICES ASSUME i + 1 <= MaxConns, Walk[i + 1] # NULL PROVE mem[Walk[i + 1]] # "none"
      OBVIOUS
    <3>1. i <= MaxConns /\ i \in 0 .. MaxConns /\ i + 1 \in 1 .. MaxConns /\ i + 1 - 1 = i
      BY LinksAssumption
    <3>2. Walk[i] # NULL /\ Walk[i + 1] = next[Walk[i]]
      BY <3>1, WalkIs
    <3>3. Walk[i] \in Conns
      BY <1>2, <3>1, <3>2, WalkType
    <3> QED
      BY <1>0, <3>2, <3>3 DEF PointersGoBack
  <2>3. \A i \in Nat : i \in G
    <3> HIDE DEF G
    <3> QED
      BY <2>1, <2>2, NatInductionSet
  <2> QED
    BY <2>3, LinksAssumption DEF Listed
<1>6. \A k \in Conns : mem'[k] = "none" <=> mem[k] = "none"
  BY <1>1, <1>2, <1>5
<1>7. BacklogInOrder'
  BY <1>0, <1>1, <1>6 DEF BacklogInOrder
<1>8. PointersGoBack'
  <2>1. \A k \in Conns : next[k] # NULL => next[k] \in Conns
    BY <1>2
  <2> QED
    BY <1>0, <1>1, <1>6, <2>1 DEF PointersGoBack
<1> QED
  BY <1>1, <1>4, <1>7, <1>8 DEF ListInv

LEMMA ListInvStep == TypeInv /\ ListInv /\ [Next]_vars => ListInv'
<1> SUFFICES ASSUME TypeInv, ListInv, [Next]_vars PROVE ListInv'
  OBVIOUS
<1>1. CASE UNCHANGED vars
  BY <1>1, BacklogUntouched, ListUntouched
     DEF vars, links, ctlVars, targetVars, listVars, turnVars, ListInv
<1>2. ASSUME NEW n \in Conns, ByProgram(n), phase # "undefined" PROVE ListInv'
  BY <1>2, ProgramSteps, BacklogUntouched, ListUntouched DEF ListInv
<1>3. CASE (follow_freed \/ WaitSelect \/ handle_signals) /\ UNCHANGED ctlVars
  <2>1. UNCHANGED <<peers, next, mem, mounted, backlog, ctl>>
    BY <1>3 DEF follow_freed, WaitSelect, handle_signals, listVars, links, ctlVars
  <2>2. phase' \notin {"boot", "exited", "update"} /\ phase \notin {"exited", "undefined"}
    BY <1>3 DEF follow_freed, WaitSelect, handle_signals
  <2> QED
    BY <2>1, <2>2, BacklogUntouched, ListUntouched DEF ListInv
<1>4. CASE common_main /\ UNCHANGED ctlVars
  <2>1. UNCHANGED <<peers, next, mem, mounted, backlog, ctl>> /\ phase = "boot"
    BY <1>4 DEF common_main, listVars, ctlVars
  <2>2. phase' \in {"select", "exited"}
    BY <1>4 DEF common_main
  <2> QED
    BY <2>1, <2>2, BacklogUntouched, ListUntouched DEF ListInv
<1>5. CASE deliver /\ UNCHANGED ctlVars
  <2>1. UNCHANGED <<peers, next, mem, mounted, backlog, ctl, phase, ci, loop_next>>
    BY <1>5, DeliverIs DEF ctlVars
  <2> QED
    BY <2>1, BacklogUntouched, ListUntouched DEF ListInv
<1> QED
  BY Steps, <1>1, <1>2, <1>3, <1>4, <1>5, ControllerKeepsList, AcceptKeepsList, FinishKeepsList,
     ShutdownKeepsList DEF serve

LEMMA ListInvAlways == Spec => [](TypeInv /\ ListInv)
BY TypeInvAlways, ListInvInit, ListInvStep, PTL DEF Spec

(* Between two turns of the loop the volumes are exactly those of the peers *)
(* that are alive, and all of these are on the list, though removals break  *)
(* the list in the ways they do; when the daemon has ended none is left.    *)
THEOREM VolumesFollowConnections == Spec => []DevicesFollowConnections
<1>1. TypeInv /\ ListInv => DevicesFollowConnections
  BY LiveAreListed DEF DevicesFollowConnections, ListInv
<1> QED
  BY <1>1, ListInvAlways, PTL

-----------------------------------------------------------------------------
(* Queues: whether a sequence has an element of T, and whether it has more  *)
(* than one.                                                                *)

Has(T, s) == \E i \in 1 .. Len(s) : s[i] \in T
Single(T, s) == \A i, j \in 1 .. Len(s) : s[i] \in T /\ s[j] \in T => i = j

LEMMA QueueEmpty ==
  ASSUME NEW T
  PROVE  ~Has(T, <<>>) /\ Single(T, <<>>)
BY DEF Has, Single

LEMMA HasConcat ==
  ASSUME NEW S, NEW s \in Seq(S), NEW t \in Seq(S), NEW T
  PROVE  Has(T, s \o t) <=> Has(T, s) \/ Has(T, t)
<1>1. /\ Len(s) \in Nat /\ Len(t) \in Nat /\ Len(s \o t) = Len(s) + Len(t)
      /\ \A i \in 1 .. Len(s) : (s \o t)[i] = s[i]
      /\ \A i \in 1 .. Len(t) : (s \o t)[Len(s) + i] = t[i]
  BY ConcatProperties
<1>2. Has(T, s) => Has(T, s \o t)
  BY <1>1 DEF Has
<1>3. ASSUME NEW i \in 1 .. Len(t), t[i] \in T PROVE Has(T, s \o t)
  <2>1. Len(s) + i \in 1 .. Len(s \o t) /\ (s \o t)[Len(s) + i] \in T
    BY <1>1, <1>3
  <2> QED
    BY <2>1 DEF Has
<1>4. ASSUME NEW i \in 1 .. Len(s \o t), (s \o t)[i] \in T PROVE Has(T, s) \/ Has(T, t)
  <2>1. CASE i <= Len(s)
    BY <1>1, <1>4, <2>1 DEF Has
  <2>2. CASE i > Len(s)
    <3>1. i - Len(s) \in 1 .. Len(t) /\ Len(s) + (i - Len(s)) = i
      BY <1>1, <2>2
    <3>2. t[i - Len(s)] \in T
      BY <1>1, <1>4, <3>1
    <3> QED
      BY <3>1, <3>2 DEF Has
  <2> QED
    BY <1>1, <2>1, <2>2
<1> QED
  BY <1>2, <1>3, <1>4 DEF Has

LEMMA SingleConcat ==
  ASSUME NEW S, NEW s \in Seq(S), NEW t \in Seq(S), NEW T
  PROVE  Single(T, s \o t) <=> Single(T, s) /\ Single(T, t) /\ ~(Has(T, s) /\ Has(T, t))
<1>1. /\ Len(s) \in Nat /\ Len(t) \in Nat /\ Len(s \o t) = Len(s) + Len(t)
      /\ \A i \in 1 .. Len(s) : (s \o t)[i] = s[i]
      /\ \A i \in 1 .. Len(t) : (s \o t)[Len(s) + i] = t[i]
  BY ConcatProperties
<1>2. /\ \A i \in 1 .. Len(s) : i \in 1 .. Len(s \o t)
      /\ \A i \in 1 .. Len(t) : Len(s) + i \in 1 .. Len(s \o t) /\ Len(s) + i > Len(s)
  BY <1>1
<1>3. ASSUME Single(T, s \o t)
      PROVE  Single(T, s) /\ Single(T, t) /\ ~(Has(T, s) /\ Has(T, t))
  <2>1. Single(T, s)
    BY <1>1, <1>2, <1>3 DEF Single
  <2>2. ASSUME NEW i \in 1 .. Len(t), NEW j \in 1 .. Len(t), t[i] \in T, t[j] \in T
        PROVE  i = j
    <3>1. Len(s) + i = Len(s) + j
      BY <1>1, <1>2, <1>3, <2>2 DEF Single
    <3> QED
      BY <1>1, <3>1
  <2>3. ASSUME NEW i \in 1 .. Len(s), NEW j \in 1 .. Len(t), s[i] \in T, t[j] \in T
        PROVE  FALSE
    <3>1. i = Len(s) + j
      BY <1>1, <1>2, <1>3, <2>3 DEF Single
    <3> QED
      BY <1>1, <3>1
  <2> QED
    BY <2>1, <2>2, <2>3 DEF Single, Has
<1>4. ASSUME Single(T, s), Single(T, t), ~(Has(T, s) /\ Has(T, t))
      PROVE  Single(T, s \o t)
  <2> SUFFICES ASSUME NEW i \in 1 .. Len(s \o t), NEW j \in 1 .. Len(s \o t),
                      (s \o t)[i] \in T, (s \o t)[j] \in T
               PROVE  i = j
    BY DEF Single
  <2>1. ASSUME NEW k \in 1 .. Len(s \o t), (s \o t)[k] \in T
        PROVE  \/ k \in 1 .. Len(s) /\ s[k] \in T /\ Has(T, s)
               \/ k - Len(s) \in 1 .. Len(t) /\ t[k - Len(s)] \in T /\ Has(T, t)
    <3>1. CASE k <= Len(s)
      BY <1>1, <2>1, <3>1 DEF Has
    <3>2. CASE k > Len(s)
      <4>1. k - Len(s) \in 1 .. Len(t) /\ Len(s) + (k - Len(s)) = k
        BY <1>1, <3>2
      <4>2. t[k - Len(s)] \in T
        BY <1>1, <2>1, <4>1
      <4> QED
        BY <4>1, <4>2 DEF Has
    <3> QED
      BY <1>1, <3>1, <3>2
  <2>2. CASE ~Has(T, t)
    BY <1>4, <2>1, <2>2 DEF Single
  <2>3. CASE ~Has(T, s)
    <3>1. /\ i - Len(s) \in 1 .. Len(t) /\ t[i - Len(s)] \in T
          /\ j - Len(s) \in 1 .. Len(t) /\ t[j - Len(s)] \in T
      BY <2>1, <2>3
    <3>2. i - Len(s) = j - Len(s)
      BY <1>4, <3>1 DEF Single
    <3> QED
      BY <1>1, <3>2
  <2> QED
    BY <1>4, <2>2, <2>3
<1> QED
  BY <1>3, <1>4

LEMMA QueueOne ==
  ASSUME NEW T, NEW x
  PROVE  (Has(T, <<x>>) <=> x \in T) /\ Single(T, <<x>>)
<1>1. Len(<<x>>) = 1 /\ <<x>>[1] = x
  OBVIOUS
<1> QED
  BY <1>1 DEF Has, Single

LEMMA QueueAppend ==
  ASSUME NEW S, NEW s \in Seq(S), NEW x \in S, NEW T
  PROVE  /\ Has(T, Append(s, x)) <=> Has(T, s) \/ x \in T
         /\ Single(T, Append(s, x)) <=> Single(T, s) /\ ~(x \in T /\ Has(T, s))
<1>1. <<x>> \in Seq(S) /\ Append(s, x) = s \o <<x>>
  BY SeqTypes, AppendIsConcat
<1>2. /\ Has(T, s \o <<x>>) <=> Has(T, s) \/ Has(T, <<x>>)
      /\ Single(T, s \o <<x>>)
           <=> Single(T, s) /\ Single(T, <<x>>) /\ ~(Has(T, s) /\ Has(T, <<x>>))
  BY <1>1, HasConcat, SingleConcat
<1> QED
  BY <1>1, <1>2, QueueOne

LEMMA QueueTail ==
  ASSUME NEW S, NEW s \in Seq(S), s # <<>>, NEW T
  PROVE  /\ Has(T, s) <=> Head(s) \in T \/ Has(T, Tail(s))
         /\ Single(T, s) <=> Single(T, Tail(s)) /\ ~(Head(s) \in T /\ Has(T, Tail(s)))
<1>1. Head(s) \in S /\ Tail(s) \in Seq(S) /\ <<Head(s)>> \in Seq(S)
  BY SeqTypes
<1>2. s = <<Head(s)>> \o Tail(s)
  BY HeadTailProperties
<1>3. /\ Has(T, <<Head(s)>> \o Tail(s)) <=> Has(T, <<Head(s)>>) \/ Has(T, Tail(s))
      /\ Single(T, <<Head(s)>> \o Tail(s))
           <=> /\ Single(T, <<Head(s)>>) /\ Single(T, Tail(s))
               /\ ~(Has(T, <<Head(s)>>) /\ Has(T, Tail(s)))
  BY <1>1, HasConcat, SingleConcat
<1> QED
  BY <1>2, <1>3, QueueOne

-----------------------------------------------------------------------------
(* Reports that a program has ended                                         *)

(* The sequence s reports the end of n's program. *)
Reports(s, n) == Has({Done(n)}, s)

(* Programs belong to peers that have existed, and those on the list in the *)
(* middle of a turn still do.                                               *)
ReportInv ==
  /\ \A n \in Conns : prog[n] # "none" => mem[n] # "none"
  /\ \A i \in 1 .. Len(proc_port) : prog[proc_port[i]] # "none"
  /\ phase = "signals" => ~Dangling
  /\ ReportsGoHome

(* The first of those that wait for accept() has no peer yet. *)
LEMMA HeadOfBacklog ==
  ASSUME TypeInv, ListInv, accept_peer
  PROVE  mem[Head(backlog)] = "none" /\ Head(backlog) \in Conns
<1>1. backlog \in Seq(Conns) /\ backlog # <<>>
  BY DEF accept_peer, TypeInv, LoopTypes, LinkTypes, LinksTypeOK
<1>2. Head(backlog) = backlog[1] /\ 1 \in 1 .. Len(backlog) /\ Head(backlog) \in Conns
  BY <1>1, HeadTailProperties, EmptySeq
<1>3. mem[Head(backlog)] # "none" => Head(backlog) < Head(backlog)
  BY <1>2 DEF ListInv, BacklogInOrder
<1> QED
  BY <1>2, <1>3, LinksAssumption DEF Conns, TypeInv, ListTypes

(* Peers come into being once and are freed for good. *)
LEMMA PeersOnlyDie ==
  ASSUME TypeInv, ListInv, [Next]_vars, NEW n \in Conns
  PROVE  /\ mem[n] # "none" => mem'[n] # "none"
         /\ mem[n] = "freed" => mem'[n] = "freed"
<1>0. mem \in [Conns -> {"none", "live", "freed"}]
  BY DEF TypeInv, ListTypes
<1>1. CASE accept_peer
  BY <1>0, <1>1, HeadOfBacklog
     DEF accept_peer, accept_fails, setup_fails, mount_fails, accept_succeeds, listVars
<1>2. CASE update_finish
  <2>1. UNCHANGED mem \/ mem' = [mem EXCEPT ![ci] = "freed"]
    BY <1>2, FinishIs DEF RemovePeer
  <2> QED
    BY <1>0, <2>1
<1>3. CASE shutdown
  BY <1>0, <1>3 DEF shutdown
<1>4. CASE common_main \/ follow_freed \/ WaitSelect \/ handle_signals \/ no_connection \/ deliver
  BY <1>4 DEF common_main, follow_freed, WaitSelect, handle_signals, no_connection, deliver, listVars
<1>5. ASSUME NEW m \in Conns, ByProgram(m) PROVE UNCHANGED mem
  BY <1>5, ProgramSteps
<1>6. ASSUME NEW m \in Conns, ByController(m) PROVE UNCHANGED mem
  BY <1>6 DEF ByController, ControllerStep, targetVars, listVars
<1> QED
  BY Steps, <1>1, <1>2, <1>3, <1>4, <1>5, <1>6 DEF serve, vars, targetVars, listVars

LEMMA ReportsGoHomeIs ==
  ASSUME TypeInv
  PROVE  ReportsGoHome <=> \A m, n \in Conns : Reports(outq[m], n) \/ Reports(t2c[m], n)
                             => m = n \/ mem[n] = "freed"
<1>1. \A m \in Conns : DOMAIN outq[m] = 1 .. Len(outq[m]) /\ DOMAIN t2c[m] = 1 .. Len(t2c[m])
  BY DEF TypeInv, ListTypes, LinkTypes, LinksTypeOK
<1> QED
  BY <1>1 DEF ReportsGoHome, Reports, Has

(* It is enough to look at the reports that a step adds. *)
LEMMA NewReports ==
  ASSUME TypeInv, TypeInv', ListInv, [Next]_vars, ReportsGoHome,
         \A m, n \in Conns : Reports(outq[m], n)' \/ Reports(t2c[m], n)' =>
           Reports(outq[m], n) \/ Reports(t2c[m], n) \/ m = n \/ mem[n] = "freed"
  PROVE  ReportsGoHome'
<1>1. \A m \in Conns : DOMAIN outq'[m] = 1 .. Len(outq'[m]) /\ DOMAIN t2c'[m] = 1 .. Len(t2c'[m])
  BY DEF TypeInv, ListTypes, LinkTypes, LinksTypeOK
<1>2. \A m, n \in Conns : Reports(outq[m], n) \/ Reports(t2c[m], n) => m = n \/ mem[n] = "freed"
  BY ReportsGoHomeIs
<1>3. \A m, n \in Conns : Reports(outq[m], n)' \/ Reports(t2c[m], n)' => m = n \/ mem'[n] = "freed"
  BY <1>2, PeersOnlyDie
<1> QED
  BY <1>1, <1>3 DEF ReportsGoHome, Reports, Has

(* A program comes into being when the peer that is updated launches it. *)
LEMMA ProgramsBegin ==
  ASSUME TypeInv, [Next]_vars, NEW n \in Conns
  PROVE  /\ prog[n] # "none" => prog'[n] # "none"
         /\ prog'[n] # "none" => prog[n] # "none" \/ (phase = "update" /\ n = ci)
<1>0. prog \in [Conns -> {"none", "starting", "running", "closing", "ended", "failed"}]
  BY DEF TypeInv, ProgTypes
<1>1. ASSUME NEW m \in Conns, ByProgram(m)
      PROVE  \/ UNCHANGED prog
             \/ /\ prog[m] # "none"
                /\ \E p \in {"running", "failed", "closing", "ended"} : prog' = [prog EXCEPT ![m] = p]
  BY <1>1 DEF ByProgram, ProgramStep, cmd_launcher, launcher_starts, program_ends, launcher_replies,
              file_request
<1>2. CASE deliver
  <2>1. /\ phase = "update"
        /\ UNCHANGED prog \/ \E p \in {"starting", "failed"} : prog' = [prog EXCEPT ![ci] = p]
    BY <1>2 DEF deliver, ProgramAfter
  <2> QED
    BY <1>0, <2>1
<1>3. CASE UNCHANGED prog
  BY <1>3
<1>4. CASE \E m \in Conns : ByProgram(m)
  BY <1>0, <1>1, <1>4
<1>5. CASE common_main \/ follow_freed \/ WaitSelect \/ handle_signals \/ no_connection
             \/ accept_peer \/ update_finish \/ shutdown
  BY <1>3, <1>5 DEF common_main, follow_freed, WaitSelect, handle_signals, no_connection,
                    accept_peer, update_finish, shutdown, progVars
<1>6. ASSUME NEW m \in Conns, ByController(m) PROVE UNCHANGED prog
  BY <1>6 DEF ByController, ControllerStep, targetVars, progVars
<1> QED
  BY Steps, <1>2, <1>3, <1>4, <1>5, <1>6 DEF serve, vars, targetVars, progVars

(* What the steps do to the process port. *)
LEMMA PortSteps ==
  ASSUME TypeInv, [Next]_vars
  PROVE  \/ UNCHANGED proc_port
         \/ \E n \in Conns : /\ launcher_replies(n) /\ UNCHANGED <<daemonVars, ctlVars>>
                             /\ proc_port' = Append(proc_port, n)
         \/ handle_signals /\ proc_port # <<>> /\ proc_port' = Tail(proc_port)
         \/ shutdown /\ proc_port' = <<>>
<1>1. ASSUME NEW n \in Conns, ByProgram(n)
      PROVE  \/ UNCHANGED proc_port
             \/ /\ launcher_replies(n) /\ UNCHANGED <<daemonVars, ctlVars>>
                /\ proc_port' = Append(proc_port, n)
  BY <1>1 DEF ByProgram, ProgramStep, cmd_launcher, launcher_starts, program_ends,
              launcher_replies, file_request, portVars
<1>2. CASE handle_signals
  BY <1>2 DEF handle_signals, AfterGetMsg
<1>3. CASE shutdown
  BY <1>3 DEF shutdown
<1>4. CASE common_main \/ follow_freed \/ WaitSelect \/ no_connection \/ accept_peer
             \/ deliver \/ update_finish
  BY <1>4 DEF common_main, follow_freed, WaitSelect, no_connection, accept_peer, deliver,
              update_finish, progVars, portVars
<1>5. ASSUME NEW m \in Conns, ByController(m) PROVE UNCHANGED proc_port
  BY <1>5 DEF ByController, ControllerStep, targetVars, progVars, portVars
<1> QED
  BY Steps, <1>1, <1>2, <1>3, <1>4, <1>5 DEF serve, vars, targetVars, progVars, portVars

(* What is on the port comes from a program. *)
LEMMA PortHasPrograms ==
  ASSUME TypeInv, \A i \in 1 .. Len(proc_port) : prog[proc_port[i]] # "none", [Next]_vars
  PROVE  \A i \in 1 .. Len(proc_port') : prog'[proc_port'[i]] # "none"
<1>0. proc_port \in Seq(Conns) /\ \A i \in 1 .. Len(proc_port) : proc_port[i] \in Conns
  BY DEF TypeInv, ProgTypes
<1>1. \A n \in Conns : prog[n] # "none" => prog'[n] # "none"
  BY ProgramsBegin
<1>2. SUFFICES \A i \in 1 .. Len(proc_port') :
                 proc_port'[i] \in Conns /\ prog[proc_port'[i]] # "none"
  BY <1>1
<1>3. CASE UNCHANGED proc_port
  BY <1>0, <1>3
<1>4. ASSUME NEW n \in Conns, launcher_replies(n), proc_port' = Append(proc_port, n)
      PROVE  \A i \in 1 .. Len(proc_port') : proc_port'[i] \in Conns /\ prog[proc_port'[i]] # "none"
  <2>1. prog[n] # "none"
    BY <1>4 DEF launcher_replies
  <2> QED
    BY <1>0, <1>4, <2>1, AppendProperties
<1>5. CASE proc_port # <<>> /\ proc_port' = Tail(proc_port)
  <2>1. \A i \in 1 .. Len(proc_port') : i + 1 \in 1 .. Len(proc_port)
                                        /\ proc_port'[i] = proc_port[i + 1]
    BY <1>0, <1>5, HeadTailProperties
  <2> QED
    BY <1>0, <2>1
<1>6. CASE proc_port' = <<>>
  BY <1>6
<1> QED
  BY PortSteps, <1>3, <1>4, <1>5, <1>6

LEMMA DanglingSame ==
  ASSUME UNCHANGED <<peers, next, mem>>
  PROVE  Dangling' = Dangling
BY DEF Dangling, Listed, Walk

(* The turn's signals are handled before anything can remove a peer. *)
LEMMA NoneDangling ==
  ASSUME TypeInv, phase = "signals" => ~Dangling, [Next]_vars
  PROVE  phase' = "signals" => ~Dangling'
<1> SUFFICES ASSUME phase' = "signals" PROVE ~Dangling'
  OBVIOUS
<1>1. ASSUME NEW n \in Conns, ByProgram(n)
      PROVE  UNCHANGED <<peers, next, mem>> /\ ~Dangling
  BY <1>1, ProgramSteps
<1>2. ASSUME NEW n \in Conns, ByController(n)
      PROVE  UNCHANGED <<peers, next, mem>> /\ ~Dangling
  BY <1>2 DEF ByController, ControllerStep, targetVars, listVars
<1>3. CASE UNCHANGED vars
  BY <1>3, DanglingSame DEF vars, targetVars, listVars
<1>4. CASE WaitSelect
  BY <1>4, DanglingSame DEF WaitSelect, listVars
<1>5. ~(common_main \/ follow_freed \/ handle_signals \/ no_connection \/ accept_peer \/ shutdown)
  BY DEF common_main, follow_freed, handle_signals, no_connection, accept_peer, shutdown,
         accept_fails, setup_fails, mount_fails, accept_succeeds, StartUpdate, NextTurn
<1>6. ~deliver /\ ~update_finish
  BY DEF deliver, update_finish, NextTurn
<1> QED
  BY Steps, <1>1, <1>2, <1>3, <1>4, <1>5, <1>6, DanglingSame DEF serve

(* Nobody has the index of a peer that is alive but this peer itself. *)
LEMMA ReportIsForItsPeer ==
  ASSUME TypeInv, ListInv, VolumeNamesDistinct, ReportInv, phase = "signals",
         NEW n \in Conns, prog[n] # "none"
  PROVE  /\ FindPeer(peer_index[n]) # NULL => FindPeer(peer_index[n]) = n \/ mem[n] = "freed"
         /\ mem[n] = "live" => FindPeer(peer_index[n]) = n
<1> DEFINE peer == FindPeer(peer_index[n])
<1>1. ASSUME peer # NULL PROVE peer = n \/ mem[n] = "freed"
  <2>1. peer \in Listed /\ peer_index[peer] = peer_index[n]
    BY <1>1, FindPeerIs DEF TypeInv
  <2>2. mem[peer] = "live" /\ peer \in Conns
    BY <2>1, WalkType DEF ReportInv, Dangling, TypeInv, ListTypes
  <2>3. mem[n] \in {"live", "freed"}
    BY DEF ReportInv, TypeInv, ListTypes
  <2>4. CASE mem[n] = "live"
    <3>1. peer \in mounted /\ n \in mounted
      BY <2>2, <2>4 DEF ListInv, Live
    <3> QED
      BY <2>1, <3>1 DEF VolumeNamesDistinct
  <2> QED
    BY <2>3, <2>4
<1>2. ASSUME mem[n] = "live" PROVE peer # NULL
  <2>1. n \in Listed
    BY <1>2, LiveAreListed DEF Live
  <2> QED
    BY <2>1, FindPeerIs DEF TypeInv
<1> QED
  BY <1>1, <1>2

(* Requests for the controller are no reports. *)
LEMMA QAfterReports ==
  ASSUME TypeInv, NEW m \in Conns, NEW n \in Conns
  PROVE  /\ Reports(QAfter[m], n) <=> Reports(outq[m], n)
         /\ Single({Done(n)}, QAfter[m]) <=> Single({Done(n)}, outq[m])
<1>1. outq[m] \in Seq(ToController) /\ Requests(m) \in Seq(ToController)
  BY RequestsAre DEF TypeInv, ListTypes
<1>2. ~Has({Done(n)}, Requests(m)) /\ Single({Done(n)}, Requests(m))
  <2>1. \A i \in 1 .. Len(Requests(m)) : Requests(m)[i] # Done(n)
    BY RequestsAre DEF Done, Numbered
  <2> QED
    BY <2>1 DEF Has, Single
<1>3. QAfter[m] = outq[m] \/ QAfter[m] = outq[m] \o Requests(m)
  BY DEF QAfter
<1>4. /\ Has({Done(n)}, outq[m] \o Requests(m)) <=> Has({Done(n)}, outq[m])
      /\ Single({Done(n)}, outq[m] \o Requests(m)) <=> Single({Done(n)}, outq[m])
  BY <1>1, <1>2, HasConcat, SingleConcat
<1> QED
  BY <1>3, <1>4 DEF Reports

LEMMA DoneIsOne ==
  ASSUME NEW k \in Conns, NEW n \in Conns
  PROVE  Done(k) = Done(n) <=> k = n
BY DEF Done, Numbered

(* Handling the signals adds at most the report of one program. *)
LEMMA SignalsReport ==
  ASSUME TypeInv, ListInv, VolumeNamesDistinct, ReportInv, handle_signals,
         NEW m \in Conns, NEW n \in Conns, Reports(outq'[m], n)
  PROVE  Reports(outq[m], n) \/ m = n \/ mem[n] = "freed"
<1>1. CASE outq' = QAfter
  BY <1>1, QAfterReports
<1>2. CASE outq' # QAfter
  <2> DEFINE k == Head(proc_port)
  <2>1. PICK peer \in Conns :
          /\ peer = FindPeer(peer_index[k])
          /\ outq' = [QAfter EXCEPT ![peer] = Append(@, Done(k))]
    BY <1>2, SignalsSend
  <2>2. proc_port # <<>> /\ k \in Conns
    BY <1>2, SignalsSend
  <2>3. prog[k] # "none"
    <3>1. proc_port \in Seq(Conns)
      BY DEF TypeInv, ProgTypes
    <3>2. k = proc_port[1] /\ 1 \in 1 .. Len(proc_port)
      BY <2>2, <3>1, HeadTailProperties, EmptySeq
    <3> QED
      BY <3>2 DEF ReportInv
  <2>4. peer = k \/ mem[k] = "freed"
    <3>1. phase = "signals" /\ peer # NULL
      BY TargetAssumption DEF handle_signals
    <3> QED
      BY <2>1, <2>2, <2>3, <3>1, ReportIsForItsPeer
  <2>5. Done(k) \in ToController /\ QAfter \in [Conns -> Seq(ToController)]
    BY <2>2, MessageTypes, SignalsSend
  <2> HIDE DEF k
  <2>6. CASE m # peer
    BY <2>1, <2>5, <2>6, QAfterReports
  <2>7. CASE m = peer
    <3>1. outq'[m] = Append(QAfter[m], Done(k)) /\ QAfter[m] \in Seq(ToController)
      BY <2>1, <2>5, <2>7
    <3>2. Reports(QAfter[m], n) \/ Done(k) = Done(n)
      BY <2>5, <3>1, QueueAppend DEF Reports
    <3>3. Reports(outq[m], n) \/ k = n
      BY <2>2, <3>2, QAfterReports, DoneIsOne
    <3> QED
      BY <2>4, <2>7, <3>3
  <2> QED
    BY <2>6, <2>7
<1> QED
  BY <1>1, <1>2

(* The answers that a peer sends are no reports. *)
LEMMA AnswersNoReports ==
  ASSUME TypeInv, NEW m \in Conns, NEW msg, NEW e \in Deliver(m, msg), NEW n \in Conns
  PROVE  e.out \in Seq(ToController) /\ ~Has({Done(n)}, e.out) /\ Single({Done(n)}, e.out)
<1>1. /\ e.out \in Seq(ToController)
      /\ \A i \in 1 .. Len(e.out) : e.out[i].type # "EXECUTABLE_DONE_REQUEST"
  BY EffectsAre
<1>2. Done(n).type = "EXECUTABLE_DONE_REQUEST"
  BY DEF Done, Numbered
<1> QED
  BY <1>1, <1>2 DEF Has, Single

LEMMA DeliverReports ==
  ASSUME TypeInv, deliver, NEW m \in Conns, NEW n \in Conns
  PROVE  /\ Reports(outq'[m], n) <=> Reports(outq[m], n)
         /\ Single({Done(n)}, outq'[m]) <=> Single({Done(n)}, outq[m])
<1>1. ci \in Conns
  BY DeliverIs
<1>2. PICK e \in Deliver(ci, Head(c2t[ci])) : outq' = [outq EXCEPT ![ci] = @ \o e.out]
  BY DeliverIs
<1>3. outq \in [Conns -> Seq(ToController)]
  BY DEF TypeInv, ListTypes
<1>4. e.out \in Seq(ToController) /\ ~Has({Done(n)}, e.out) /\ Single({Done(n)}, e.out)
  BY <1>1, AnswersNoReports
<1>5. outq'[m] = outq[m] \/ outq'[m] = outq[m] \o e.out
  BY <1>1, <1>2, <1>3
<1>6. /\ Has({Done(n)}, outq[m] \o e.out) <=> Has({Done(n)}, outq[m])
      /\ Single({Done(n)}, outq[m] \o e.out) <=> Single({Done(n)}, outq[m])
  BY <1>3, <1>4, HasConcat, SingleConcat
<1> QED
  BY <1>5, <1>6 DEF Reports

(* A peer sends what is in its queue. *)
LEMMA FinishSends ==
  ASSUME TypeInv, update_finish, NEW m \in Conns
  PROVE  /\ m # ci => outq'[m] = outq[m] /\ t2c'[m] = t2c[m]
         /\ m = ci => /\ outq'[m] = <<>>
                      /\ t2c'[m] = IF cfd[m] = "closed" THEN t2c[m] ELSE t2c[m] \o outq[m]
         /\ outq[m] \in Seq(ToController) /\ t2c[m] \in Seq(ToController)
<1>0. /\ outq \in [Conns -> Seq(ToController)] /\ t2c \in [Conns -> Seq(ToController)]
      /\ ci \in Conns
  BY FinishIs DEF TypeInv, ListTypes, LinkTypes, LinksTypeOK
<1>1. t2c' = AfterSend(t2c, ci, cfd, outq[ci]) /\ outq' = [outq EXCEPT ![ci] = <<>>]
  BY FinishIs
<1> QED
  BY <1>0, <1>1 DEF AfterSend

(* Controllers take messages away. *)
LEMMA ControllerTakes ==
  ASSUME TypeInv, NEW k \in Conns, ByController(k), NEW m \in Conns
  PROVE  /\ t2c[m] \in Seq(ToController)
         /\ \/ t2c'[m] = t2c[m]
            \/ m = k /\ Exit(k)
            \/ /\ m = k /\ t2c[m] # <<>> /\ t2c'[m] = Tail(t2c[m])
               /\ Head(t2c[m]).type # "EXECUTABLE_DONE_REQUEST"
               /\ ctl[k] # "exited" /\ ctl'[k] # "exited"
<1>0. t2c \in [Conns -> Seq(ToController)] /\ ctl \in [Conns -> CtlStates]
  BY DEF TypeInv, LinkTypes, LinksTypeOK
<1>1. CASE UNCHANGED t2c
  BY <1>0, <1>1
<1>2. CASE Exit(k)
  BY <1>0, <1>2 DEF Exit
<1>3. ASSUME NEW new, new # "exited", NEW msgs, Answer(k, new, msgs), t2c[k] # <<>>, ctl[k] # "exited",
             Head(t2c[k]).type # "EXECUTABLE_DONE_REQUEST"
      PROVE  \/ t2c'[m] = t2c[m]
             \/ /\ m = k /\ t2c[m] # <<>> /\ t2c'[m] = Tail(t2c[m])
                /\ Head(t2c[m]).type # "EXECUTABLE_DONE_REQUEST"
                /\ ctl[k] # "exited" /\ ctl'[k] # "exited"
  BY <1>0, <1>3 DEF Answer
<1>4. CASE controller_on_message(k)
  <2>1. t2c[k] # <<>> /\ ctl[k] # "exited"
    BY <1>4 DEF controller_on_message, Connected
  <2>2. \/ Exit(k)
        \/ /\ Head(t2c[k]).type # "EXECUTABLE_DONE_REQUEST"
           /\ \E new \in {ctl[k], "file_serving"} : \E msgs : Answer(k, new, msgs)
    BY <1>4 DEF controller_on_message, on_ping_answer
  <2> QED
    BY <1>0, <1>2, <1>3, <2>1, <2>2
<1>5. CASE on_connected(k)
  BY <1>0, <1>3, <1>5 DEF on_connected
<1>6. CASE connect_to_target(k, Listening) \/ first_update(k) \/ send_ping(k)
  BY <1>1, <1>6 DEF connect_to_target, first_update, send_ping
<1>7. CASE disconnected(k) \/ quit(k)
  BY <1>2, <1>7 DEF disconnected, quit
<1> QED
  BY <1>4, <1>5, <1>6, <1>7 DEF ByController, ControllerStep, pump_peer_state_machine

LEMMA ControllerReports ==
  ASSUME TypeInv, NEW k \in Conns, ByController(k), NEW m \in Conns, NEW n \in Conns
  PROVE  /\ UNCHANGED outq
         /\ Reports(t2c'[m], n) => Reports(t2c[m], n)
         /\ Single({Done(n)}, t2c[m]) => Single({Done(n)}, t2c'[m])
<1>1. UNCHANGED outq
  BY DEF ByController, ControllerStep, targetVars
<1>2. CASE t2c'[m] = t2c[m]
  BY <1>1, <1>2
<1>3. CASE m = k /\ Exit(k)
  <2>1. t2c'[m] = <<>>
    BY <1>3 DEF Exit, TypeInv, LinkTypes, LinksTypeOK
  <2> QED
    BY <1>1, <2>1, QueueEmpty DEF Reports
<1>4. CASE t2c[m] # <<>> /\ t2c'[m] = Tail(t2c[m])
  BY <1>1, <1>4, ControllerTakes, QueueTail DEF Reports
<1> QED
  BY <1>2, <1>3, <1>4, ControllerTakes

(* All other steps leave the queues and the connections alone. *)
LEMMA ReportSteps ==
  ASSUME [Next]_vars
  PROVE  \/ UNCHANGED <<outq, t2c>>
         \/ handle_signals /\ UNCHANGED t2c
         \/ deliver /\ UNCHANGED t2c
         \/ update_finish
         \/ \E k \in Conns : ByController(k)
<1>1. CASE common_main \/ follow_freed \/ WaitSelect \/ no_connection \/ shutdown
  BY <1>1 DEF common_main, follow_freed, WaitSelect, no_connection, shutdown, links
<1>2. CASE accept_peer
  BY <1>2 DEF accept_peer, accept_fails, setup_fails, mount_fails, accept_succeeds
<1>3. CASE handle_signals
  BY <1>3 DEF handle_signals, links
<1>4. CASE deliver
  BY <1>4 DEF deliver
<1>5. ASSUME NEW n \in Conns, ByProgram(n) PROVE UNCHANGED <<outq, t2c>>
  BY <1>5, ProgramSteps
<1> QED
  BY Steps, <1>1, <1>2, <1>3, <1>4, <1>5 DEF serve, vars, links, targetVars

LEMMA ReportInvStep ==
  TypeInv /\ TypeInv' /\ ListInv /\ VolumeNamesDistinct /\ ReportInv /\ [Next]_vars => ReportInv'
<1> SUFFICES ASSUME TypeInv, TypeInv', ListInv, VolumeNamesDistinct, ReportInv, [Next]_vars
             PROVE  ReportInv'
  OBVIOUS
<1>1. \A n \in Conns : prog'[n] # "none" => mem'[n] # "none"
  <2>1. \A n \in Conns : prog'[n] # "none" => mem[n] # "none"
    BY ProgramsBegin DEF ReportInv, ListInv, LoopPointers
  <2> QED
    BY <2>1, PeersOnlyDie
<1>2. \A i \in 1 .. Len(proc_port') : prog'[proc_port'[i]] # "none"
  BY PortHasPrograms DEF ReportInv
<1>3. phase' = "signals" => ~Dangling'
  BY NoneDangling DEF ReportInv
<1>4. ReportsGoHome'
  <2>1. ReportsGoHome
    BY DEF ReportInv
  <2>2. SUFFICES ASSUME NEW m \in Conns, NEW n \in Conns,
                        Reports(outq'[m], n) \/ Reports(t2c'[m], n)
                 PROVE  Reports(outq[m], n) \/ Reports(t2c[m], n) \/ m = n \/ mem[n] = "freed"
    BY <2>1, NewReports
  <2>3. CASE UNCHANGED <<outq, t2c>>
    BY <2>2, <2>3
  <2>4. CASE handle_signals /\ UNCHANGED t2c
    BY <2>2, <2>4, SignalsReport
  <2>5. CASE deliver /\ UNCHANGED t2c
    BY <2>2, <2>5, DeliverReports
  <2>6. CASE update_finish
    BY <2>2, <2>6, FinishSends, HasConcat, QueueEmpty DEF Reports
  <2>7. CASE \E k \in Conns : ByController(k)
    BY <2>2, <2>7, ControllerReports
  <2> QED
    BY <2>3, <2>4, <2>5, <2>6, <2>7, ReportSteps
<1> QED
  BY <1>1, <1>2, <1>3, <1>4 DEF ReportInv

LEMMA ReportInvAlways == Spec => []ReportInv
<1>1. Init => ReportInv
  BY DEF Init, LinksInit, TargetInit, ReportInv, ReportsGoHome
<1>2. TypeInv /\ TypeInv' /\ ListInv /\ VolumeNamesDistinct /\ ReportInv /\ [Next]_vars => ReportInv'
  BY ReportInvStep
<1> QED
  BY <1>1, <1>2, ListInvAlways, VolumeNamesAreDistinct, PTL DEF Spec

(* The end of a program is reported to nobody but the controller that had   *)
(* launched it, as long as that one's peer exists: though the message has   *)
(* only an index, and indices are used again.                               *)
THEOREM ReportsReachTheirController == Spec => []ReportsGoHome
<1>1. ReportInv => ReportsGoHome
  BY DEF ReportInv
<1> QED
  BY <1>1, ReportInvAlways, PTL
-----------------------------------------------------------------------------
(* One question at a time                                                   *)

(* A controller and its peer take turns with the messages that start a      *)
(* session: each answers one of them with at most one other, and a program  *)
(* is launched instead of an answer.  So no connection launches two.        *)
Session ==
  {m \in ToTarget \cup ToController :
     m.type \in {"HANDSHAKE_REQUEST", "LAUNCH_EXECUTABLE_REQUEST", "ERROR_ANSWER"}}

Opens(s) == Has(Session, s)

AtMostOne(a, b, c) ==
  /\ Single(Session, a) /\ Single(Session, b) /\ Single(Session, c)
  /\ ~(Opens(a) /\ Opens(b)) /\ ~(Opens(a) /\ Opens(c)) /\ ~(Opens(b) /\ Opens(c))
NoneOf(a, b, c) == ~Opens(a) /\ ~Opens(b) /\ ~Opens(c)

Turns(a, b, c, program, controller) ==
  /\ AtMostOne(a, b, c)
  /\ program # "none" => NoneOf(a, b, c)
  /\ controller \in {"off", "connected"} => NoneOf(a, b, c) /\ program = "none"

TurnsInv == \A n \in Conns : Turns(c2t[n], t2c[n], outq[n], prog[n], ctl[n])

LEMMA SessionMessages ==
  /\ \A t \in {"HANDSHAKE_REQUEST", "LAUNCH_EXECUTABLE_REQUEST"} : Msg(t) \in Session
  /\ Msg("ERROR_ANSWER") \in Session
  /\ Msg("PING_REQUEST") \notin Session /\ Msg("PING_ANSWER") \notin Session
  /\ Msg("LAUNCH_EXECUTABLE_ANSWER") \notin Session
  /\ \A k \in Nat : Numbered("ERROR_ANSWER", k) \in Session
  /\ \A k : Numbered("FILE_ANSWER", k) \notin Session /\ Done(k) \notin Session
  /\ \A m \in ToTarget \cup ToController :
       m \in Session <=> m.type \in {"HANDSHAKE_REQUEST", "LAUNCH_EXECUTABLE_REQUEST", "ERROR_ANSWER"}
BY DEF Session, Msg, Numbered, Done, ToTarget, ToController

LEMMA Sent ==
  ASSUME NEW S, NEW s \in Seq(S), NEW t \in Seq(S), NEW u, u = s \/ u = s \o t
  PROVE  /\ Opens(u) => Opens(s) \/ Opens(t)
         /\ Single(Session, s) /\ Single(Session, t) /\ ~(Opens(s) /\ Opens(t))
              => Single(Session, u)
<1>1. Opens(s \o t) <=> Opens(s) \/ Opens(t)
  BY HasConcat DEF Opens
<1>2. Single(Session, s \o t) <=> Single(Session, s) /\ Single(Session, t) /\ ~(Opens(s) /\ Opens(t))
  BY SingleConcat DEF Opens
<1> QED
  BY <1>1, <1>2

LEMMA Taken ==
  ASSUME NEW S, NEW s \in Seq(S), s # <<>>
  PROVE  /\ Opens(s) <=> Head(s) \in Session \/ Opens(Tail(s))
         /\ Single(Session, s) => Single(Session, Tail(s))
                                    /\ ~(Head(s) \in Session /\ Opens(Tail(s)))
BY QueueTail DEF Opens

LEMMA NothingOpens == ~Opens(<<>>) /\ Single(Session, <<>>)
BY QueueEmpty DEF Opens

LEMMA OneOpens ==
  ASSUME NEW x
  PROVE  (Opens(<<x>>) <=> x \in Session) /\ Single(Session, <<x>>)
BY QueueOne DEF Opens

LEMMA QueueTypes ==
  ASSUME TypeInv, NEW n \in Conns
  PROVE  /\ c2t[n] \in Seq(ToTarget) /\ t2c[n] \in Seq(ToController)
         /\ outq[n] \in Seq(ToController)
BY DEF TypeInv, LinkTypes, LinksTypeOK, ListTypes

(* A controller answers a message with at most one. *)
LEMMA AnswerTakesTurns ==
  ASSUME TypeInv, TurnsInv, NEW n \in Conns, NEW new, NEW msgs \in Seq(ToTarget),
         Answer(n, new, msgs), UNCHANGED <<outq, prog>>, t2c[n] # <<>>,
         new \notin {"off", "connected"},
         Opens(msgs) => Head(t2c[n]) \in Session, Single(Session, msgs)
  PROVE  Turns(c2t'[n], t2c'[n], outq'[n], prog'[n], ctl'[n])
<1>1. /\ t2c'[n] = Tail(t2c[n]) /\ ctl'[n] = new
      /\ c2t'[n] = c2t[n] \/ c2t'[n] = c2t[n] \o msgs
  BY DEF Answer, AfterSend, TypeInv, LinkTypes, LinksTypeOK
<1>2. Turns(c2t[n], t2c[n], outq[n], prog[n], ctl[n])
  BY DEF TurnsInv
<1>3. /\ Opens(c2t'[n]) => Opens(c2t[n]) \/ Opens(msgs)
      /\ Single(Session, c2t[n]) /\ Single(Session, msgs) /\ ~(Opens(c2t[n]) /\ Opens(msgs))
           => Single(Session, c2t'[n])
  BY <1>1, QueueTypes, Sent
<1>4. /\ Opens(t2c[n]) <=> Head(t2c[n]) \in Session \/ Opens(t2c'[n])
      /\ Single(Session, t2c[n]) => Single(Session, t2c'[n])
                                    /\ ~(Head(t2c[n]) \in Session /\ Opens(t2c'[n]))
  BY <1>1, QueueTypes, Taken
<1>5. outq'[n] = outq[n] /\ prog'[n] = prog[n]
  OBVIOUS
<1> QED
  BY <1>1, <1>2, <1>3, <1>4, <1>5 DEF Turns, AtMostOne, NoneOf

LEMMA ControllerTakesTurns ==
  ASSUME TypeInv, TurnsInv, NEW k \in Conns, ByController(k)
  PROVE  TurnsInv'
<1>0. UNCHANGED <<outq, prog>>
  BY DEF ByController, ControllerStep, targetVars, progVars
<1>1. c2t \in [Conns -> Seq(ToTarget)] /\ t2c \in [Conns -> Seq(ToController)] /\ ctl \in [Conns -> CtlStates]
  BY DEF TypeInv, LinkTypes, LinksTypeOK
<1>2. SUFFICES ASSUME NEW n \in Conns PROVE Turns(c2t'[n], t2c'[n], outq'[n], prog'[n], ctl'[n])
  BY DEF TurnsInv
<1>3. Turns(c2t[n], t2c[n], outq[n], prog[n], ctl[n])
  BY DEF TurnsInv
<1>4. CASE n # k
  <2>1. c2t'[n] = c2t[n] /\ t2c'[n] = t2c[n] /\ ctl'[n] = ctl[n]
    BY <1>1, <1>4 DEF ByController, ControllerStep, pump_peer_state_machine, connect_to_target,
       first_update, on_connected, controller_on_message, on_ping_answer, Answer, disconnected,
       Exit, quit, send_ping, AfterSend
  <2> QED
    BY <1>0, <1>3, <2>1
<1>5. ASSUME n = k, Exit(k) PROVE Turns(c2t'[n], t2c'[n], outq'[n], prog'[n], ctl'[n])
  <2>1. c2t'[n] = c2t[n] /\ t2c'[n] = <<>> /\ ctl'[n] = "exited"
    BY <1>1, <1>5 DEF Exit
  <2> QED
    BY <1>0, <1>3, <2>1, NothingOpens DEF Turns, AtMostOne, NoneOf
<1>6. ASSUME n = k, connect_to_target(k, Listening)
      PROVE  Turns(c2t'[n], t2c'[n], outq'[n], prog'[n], ctl'[n])
  <2>1. c2t'[n] = c2t[n] /\ t2c'[n] = t2c[n] /\ ctl[n] = "off"
    BY <1>6 DEF connect_to_target, NextToStart
  <2> QED
    BY <1>0, <1>3, <2>1 DEF Turns
<1>7. ASSUME n = k, first_update(k) PROVE Turns(c2t'[n], t2c'[n], outq'[n], prog'[n], ctl'[n])
  <2>1. /\ t2c'[n] = t2c[n] /\ ctl[n] = "connected" /\ ctl'[n] = "initial"
        /\ c2t'[n] = c2t[n] \/ c2t'[n] = c2t[n] \o <<Msg("HANDSHAKE_REQUEST")>>
    BY <1>1, <1>7 DEF first_update, AfterSend
  <2>2. <<Msg("HANDSHAKE_REQUEST")>> \in Seq(ToTarget)
    BY MessageTypes, SeqTypes
  <2>3. Single(Session, <<Msg("HANDSHAKE_REQUEST")>>)
    BY OneOpens
  <2>4. Single(Session, c2t[n]) /\ ~Opens(c2t[n]) => Single(Session, c2t'[n])
    BY <2>1, <2>2, <2>3, QueueTypes, Sent
  <2> QED
    BY <1>0, <1>3, <2>1, <2>4 DEF Turns, AtMostOne, NoneOf
<1>8. ASSUME n = k, send_ping(k) PROVE Turns(c2t'[n], t2c'[n], outq'[n], prog'[n], ctl'[n])
  <2>1. /\ t2c'[n] = t2c[n] /\ ctl'[n] = ctl[n]
        /\ c2t'[n] = c2t[n] \/ c2t'[n] = c2t[n] \o <<Msg("PING_REQUEST")>>
    BY <1>1, <1>8 DEF send_ping, AfterSend
  <2>2. <<Msg("PING_REQUEST")>> \in Seq(ToTarget)
    BY MessageTypes, SeqTypes
  <2>3. Single(Session, <<Msg("PING_REQUEST")>>) /\ ~Opens(<<Msg("PING_REQUEST")>>)
    BY OneOpens, SessionMessages
  <2>4. (Opens(c2t'[n]) => Opens(c2t[n])) /\ (Single(Session, c2t[n]) => Single(Session, c2t'[n]))
    BY <2>1, <2>2, <2>3, QueueTypes, Sent
  <2> QED
    BY <1>0, <1>3, <2>1, <2>4 DEF Turns, AtMostOne, NoneOf
<1>9. ASSUME n = k, on_connected(k) PROVE Turns(c2t'[n], t2c'[n], outq'[n], prog'[n], ctl'[n])
  <2>1. <<Msg("LAUNCH_EXECUTABLE_REQUEST")>> \in Seq(ToTarget)
    BY MessageTypes, SeqTypes
  <2>2. Head(t2c[n]) \in ToController
    BY <1>9, QueueTypes, SeqTypes DEF on_connected
  <2>3. Head(t2c[n]) \in Session
    BY <1>9, <2>2, SessionMessages DEF on_connected
  <2>4. Single(Session, <<Msg("LAUNCH_EXECUTABLE_REQUEST")>>)
    BY OneOpens
  <2>5. t2c[n] # <<>> /\ Answer(n, "wait_launched", <<Msg("LAUNCH_EXECUTABLE_REQUEST")>>)
    BY <1>9 DEF on_connected
  <2>6. "wait_launched" \notin {"off", "connected"}
    OBVIOUS
  <2> QED
    BY <1>0, <2>1, <2>3, <2>4, <2>5, <2>6, AnswerTakesTurns
<1>10. ASSUME n = k, controller_on_message(k)
       PROVE  Turns(c2t'[n], t2c'[n], outq'[n], prog'[n], ctl'[n])
  <2> DEFINE msg == Head(t2c[n])
  <2>1. t2c[n] # <<>> /\ ctl[n] \notin {"off", "connected"}
    BY <1>10 DEF controller_on_message, Connected
  <2>2. msg \in ToController /\ msg.of \in Nat
    BY <2>1, QueueTypes, SeqTypes, MessageTypes
  <2>3. msg.type \in {"HANDSHAKE_REQUEST", "LAUNCH_EXECUTABLE_ANSWER", "PING_ANSWER",
                      "FILE_REQUEST", "ERROR_ANSWER", "EXECUTABLE_DONE_REQUEST"}
    BY <2>2 DEF ToController
  <2>4. \/ Exit(n)
        \/ \E new \in {ctl[n], "file_serving"} : Answer(n, new, <<>>)
        \/ Answer(n, ctl[n], <<Numbered("FILE_ANSWER", msg.of)>>)
        \/ /\ msg.type \in {"HANDSHAKE_REQUEST", "ERROR_ANSWER"}
           /\ Answer(n, ctl[n], <<Numbered("ERROR_ANSWER", msg.of)>>)
    BY <1>10, <2>3 DEF controller_on_message, on_ping_answer
  <2>5. CASE Exit(n)
    BY <1>5, <1>10, <2>5
  <2>6. CASE \E new \in {ctl[n], "file_serving"} : Answer(n, new, <<>>)
    <3>1. <<>> \in Seq(ToTarget)
      BY SeqTypes
    <3> QED
      BY <1>0, <2>1, <2>6, <3>1, NothingOpens, AnswerTakesTurns
  <2>7. CASE Answer(n, ctl[n], <<Numbered("FILE_ANSWER", msg.of)>>)
    <3>1. <<Numbered("FILE_ANSWER", msg.of)>> \in Seq(ToTarget)
      BY <2>2, MessageTypes, SeqTypes
    <3>2. /\ ~Opens(<<Numbered("FILE_ANSWER", msg.of)>>)
          /\ Single(Session, <<Numbered("FILE_ANSWER", msg.of)>>)
      BY OneOpens, SessionMessages
    <3> QED
      BY <1>0, <2>1, <2>7, <3>1, <3>2, AnswerTakesTurns
  <2>8. CASE /\ msg.type \in {"HANDSHAKE_REQUEST", "ERROR_ANSWER"}
             /\ Answer(n, ctl[n], <<Numbered("ERROR_ANSWER", msg.of)>>)
    <3>1. <<Numbered("ERROR_ANSWER", msg.of)>> \in Seq(ToTarget)
      BY <2>2, MessageTypes, SeqTypes
    <3>2. msg \in Session
      BY <2>2, <2>8, SessionMessages
    <3>3. Single(Session, <<Numbered("ERROR_ANSWER", msg.of)>>)
      BY OneOpens
    <3> QED
      BY <1>0, <2>1, <2>8, <3>1, <3>2, <3>3, AnswerTakesTurns
  <2> QED
    BY <2>4, <2>5, <2>6, <2>7, <2>8
<1> QED
  BY <1>4, <1>5, <1>6, <1>7, <1>8, <1>9, <1>10
     DEF ByController, ControllerStep, pump_peer_state_machine, disconnected, quit

(* What the daemon makes of a message: it answers one that opens a session  *)
(* with at most one other, or launches a program.                           *)
LEMMA EffectsTakeTurns ==
  ASSUME TypeInv, NEW n \in Conns, NEW msg \in ToTarget, NEW e \in Deliver(n, msg)
  PROVE  /\ Opens(e.out) => msg \in Session
         /\ Single(Session, e.out)
         /\ e.launch \/ msg.type = "ERROR_ANSWER" => msg \in Session /\ ~Opens(e.out)
         /\ e.state = "CONNECTED" => state[n] = "CONNECTED" \/ msg \in Session
<1>1. \A t : Single(Session, <<Msg(t)>>)
  BY OneOpens
<1>2. ~Opens(<<Msg("PING_ANSWER")>>) /\ ~Opens(<<Msg("LAUNCH_EXECUTABLE_ANSWER")>>)
  BY OneOpens, SessionMessages
<1>3. msg.type \in {"HANDSHAKE_REQUEST", "LAUNCH_EXECUTABLE_REQUEST", "ERROR_ANSWER"} <=> msg \in Session
  BY SessionMessages
<1>4. ASSUME NEW st, NEW out, NEW launch \in BOOLEAN, NEW ops, e = Effect(st, out, launch, ops),
             Opens(out) => msg \in Session, Single(Session, out),
             launch \/ msg.type = "ERROR_ANSWER" => msg \in Session /\ ~Opens(out),
             st = "CONNECTED" => state[n] = "CONNECTED" \/ msg \in Session
      PROVE  /\ Opens(e.out) => msg \in Session
             /\ Single(Session, e.out)
             /\ e.launch \/ msg.type = "ERROR_ANSWER" => msg \in Session /\ ~Opens(e.out)
             /\ e.state = "CONNECTED" => state[n] = "CONNECTED" \/ msg \in Session
  <2>1. e.state = st /\ e.out = out /\ e.launch = launch
    BY <1>4, EffectFields
  <2> QED
    BY <1>4, <2>1
<1>5. CASE e = Drops
  BY <1>3, <1>4, <1>5, NothingOpens DEF Drops
<1>6. CASE msg.type = "HANDSHAKE_REQUEST" /\ e = Sends("HANDSHAKE_REQUEST")
  BY <1>1, <1>3, <1>4, <1>6 DEF Sends
<1>7. CASE state[n] = "CONNECTED" /\ msg.type = "PING_REQUEST" /\ e = Sends("PING_ANSWER")
  BY <1>1, <1>2, <1>4, <1>7 DEF Sends
<1>8. CASE /\ msg.type = "LAUNCH_EXECUTABLE_REQUEST"
           /\ e = Effect("CONNECTED", <<Msg("LAUNCH_EXECUTABLE_ANSWER")>>, TRUE, {})
  BY <1>1, <1>2, <1>3, <1>4, <1>8
<1>9. CASE msg.type = "LAUNCH_EXECUTABLE_REQUEST" /\ e = Sends("ERROR_ANSWER")
  BY <1>1, <1>3, <1>4, <1>9 DEF Sends
<1>10. CASE /\ state[n] = "CONNECTED"
            /\ e = Effect("CONNECTED", <<>>, FALSE, find_pending_op(n, msg.of))
  BY <1>3, <1>4, <1>10, NothingOpens
<1> QED
  BY <1>5, <1>6, <1>7, <1>8, <1>9, <1>10, EffectCases

LEMMA DeliverTakesTurns ==
  ASSUME TypeInv, TurnsInv, deliver, UNCHANGED ctlVars
  PROVE  /\ TurnsInv'
         /\ \A n \in Conns : prog[n] # "none" =>
              /\ prog'[n] = prog[n]
              /\ state'[n] = "CONNECTED" => state[n] = "CONNECTED"
<1> DEFINE msg == Head(c2t[ci])
<1>1. ci \in Conns /\ c2t[ci] # <<>> /\ UNCHANGED <<t2c, ctl>>
  BY DeliverIs DEF ctlVars
<1>2. PICK e \in Deliver(ci, msg) :
        /\ state' = [state EXCEPT ![ci] = e.state]
        /\ outq' = [outq EXCEPT ![ci] = @ \o e.out]
        /\ prog' = ProgramAfter(ci, msg, e)
        /\ c2t' = [c2t EXCEPT ![ci] = Tail(@)]
  BY DeliverIs
<1>3. msg \in ToTarget
  BY <1>1, QueueTypes, SeqTypes
<1>4. /\ outq \in [Conns -> Seq(ToController)] /\ c2t \in [Conns -> Seq(ToTarget)]
      /\ prog \in [Conns -> {"none", "starting", "running", "closing", "ended", "failed"}]
      /\ state \in [Conns -> PeerStates]
  BY DEF TypeInv, LinkTypes, LinksTypeOK, ListTypes, ProgTypes
<1> HIDE DEF msg
<1>5. ASSUME NEW n \in Conns, n # ci
      PROVE  /\ Turns(c2t'[n], t2c'[n], outq'[n], prog'[n], ctl'[n])
             /\ prog'[n] = prog[n] /\ state'[n] = state[n]
  <2>1. c2t'[n] = c2t[n] /\ outq'[n] = outq[n] /\ prog'[n] = prog[n] /\ state'[n] = state[n]
    BY <1>2, <1>4, <1>5 DEF ProgramAfter
  <2> QED
    BY <1>1, <2>1 DEF TurnsInv
<1>6. Turns(c2t[ci], t2c[ci], outq[ci], prog[ci], ctl[ci])
  BY <1>1 DEF TurnsInv
<1>7. /\ Opens(c2t[ci]) <=> msg \in Session \/ Opens(c2t'[ci])
      /\ Single(Session, c2t[ci]) => Single(Session, c2t'[ci]) /\ ~(msg \in Session /\ Opens(c2t'[ci]))
  <2>1. c2t'[ci] = Tail(c2t[ci])
    BY <1>1, <1>2, <1>4
  <2> QED
    BY <1>1, <2>1, QueueTypes, Taken DEF msg
<1>8. e.out \in Seq(ToController)
  BY <1>1, EffectsAre
<1>9. /\ Opens(outq'[ci]) => Opens(outq[ci]) \/ Opens(e.out)
      /\ Single(Session, outq[ci]) /\ Single(Session, e.out) /\ ~(Opens(outq[ci]) /\ Opens(e.out))
           => Single(Session, outq'[ci])
  <2>1. outq'[ci] = outq[ci] \o e.out
    BY <1>1, <1>2, <1>4
  <2> QED
    BY <1>1, <1>8, <2>1, QueueTypes, Sent
<1>10. /\ Opens(e.out) => msg \in Session
       /\ Single(Session, e.out)
       /\ e.launch \/ msg.type = "ERROR_ANSWER" => msg \in Session /\ ~Opens(e.out)
       /\ e.state = "CONNECTED" => state[ci] = "CONNECTED" \/ msg \in Session
  BY <1>1, <1>3, EffectsTakeTurns
<1>11. prog'[ci] = prog[ci] \/ (msg \in Session /\ ~Opens(e.out))
  <2>1. prog' = prog \/ e.launch \/ msg.type = "ERROR_ANSWER"
    BY <1>2 DEF ProgramAfter
  <2> QED
    BY <1>10, <2>1
<1>12. state'[ci] = e.state
  BY <1>1, <1>2, <1>4
<1>13. Turns(c2t'[ci], t2c'[ci], outq'[ci], prog'[ci], ctl'[ci])
  BY <1>1, <1>6, <1>7, <1>9, <1>10, <1>11 DEF Turns, AtMostOne, NoneOf
<1>14. prog[ci] # "none" =>
         prog'[ci] = prog[ci] /\ (state'[ci] = "CONNECTED" => state[ci] = "CONNECTED")
  BY <1>6, <1>7, <1>10, <1>11, <1>12 DEF Turns, NoneOf
<1> QED
  BY <1>5, <1>13, <1>14 DEF TurnsInv

(* Requests and reports open no session. *)
LEMMA SignalsTakeTurns ==
  ASSUME TypeInv, TurnsInv, handle_signals, UNCHANGED ctlVars
  PROVE  TurnsInv'
<1>1. UNCHANGED <<c2t, t2c, prog, ctl>>
  BY DEF handle_signals, links, ctlVars
<1>2. SUFFICES ASSUME NEW n \in Conns
               PROVE  /\ Opens(outq'[n]) => Opens(outq[n])
                      /\ Single(Session, outq[n]) => Single(Session, outq'[n])
  BY <1>1 DEF TurnsInv, Turns, AtMostOne, NoneOf
<1>3. /\ Opens(QAfter[n]) => Opens(outq[n])
      /\ Single(Session, outq[n]) => Single(Session, QAfter[n])
  <2>1. Requests(n) \in Seq(ToController)
    BY RequestsAre
  <2>2. ~Opens(Requests(n)) /\ Single(Session, Requests(n))
    <3>1. \A i \in 1 .. Len(Requests(n)) : Requests(n)[i] \notin Session
      BY RequestsAre DEF Session
    <3> QED
      BY <3>1 DEF Opens, Has, Single
  <2>3. QAfter[n] = outq[n] \/ QAfter[n] = outq[n] \o Requests(n)
    BY DEF QAfter
  <2> QED
    BY <2>1, <2>2, <2>3, QueueTypes, Sent
<1>4. QAfter \in [Conns -> Seq(ToController)]
  BY SignalsSend
<1>5. CASE outq' = QAfter
  BY <1>3, <1>5
<1>6. CASE outq' # QAfter
  <2>1. PICK peer \in Conns, k \in Conns : outq' = [QAfter EXCEPT ![peer] = Append(@, Done(k))]
    BY <1>6, SignalsSend
  <2>2. CASE n # peer
    BY <1>3, <1>4, <2>1, <2>2
  <2>3. CASE n = peer
    <3>1. outq'[n] = Append(QAfter[n], Done(k)) /\ QAfter[n] \in Seq(ToController)
      BY <1>4, <2>1, <2>3
    <3>2. Done(k) \in ToController /\ Done(k) \notin Session
      BY MessageTypes, SessionMessages
    <3>3. /\ Opens(outq'[n]) <=> Opens(QAfter[n])
          /\ Single(Session, outq'[n]) <=> Single(Session, QAfter[n])
      BY <3>1, <3>2, QueueAppend DEF Opens
    <3> QED
      BY <1>3, <3>3
  <2> QED
    BY <2>2, <2>3
<1> QED
  BY <1>5, <1>6

(* A peer's queue goes to the connection. *)
LEMMA FinishTakesTurns ==
  ASSUME TypeInv, TurnsInv, update_finish, UNCHANGED ctlVars
  PROVE  TurnsInv'
<1>1. SUFFICES ASSUME NEW n \in Conns PROVE Turns(c2t'[n], t2c'[n], outq'[n], prog'[n], ctl'[n])
  BY DEF TurnsInv
<1>2. prog' = prog /\ ctl' = ctl
  BY FinishIs DEF ctlVars
<1>3. c2t'[n] = c2t[n] \/ c2t'[n] = <<>>
  <2>1. UNCHANGED c2t \/ c2t' = [c2t EXCEPT ![ci] = <<>>]
    BY FinishIs DEF RemovePeer
  <2> QED
    BY <2>1 DEF TypeInv, LinkTypes, LinksTypeOK
<1>4. Turns(c2t[n], t2c[n], outq[n], prog[n], ctl[n])
  BY DEF TurnsInv
<1>5. CASE outq'[n] = outq[n] /\ t2c'[n] = t2c[n]
  BY <1>2, <1>3, <1>4, <1>5, NothingOpens DEF Turns, AtMostOne, NoneOf
<1>6. CASE /\ outq'[n] = <<>>
           /\ t2c'[n] = IF cfd[n] = "closed" THEN t2c[n] ELSE t2c[n] \o outq[n]
  <2>1. /\ Opens(t2c'[n]) => Opens(t2c[n]) \/ Opens(outq[n])
        /\ Single(Session, t2c[n]) /\ Single(Session, outq[n]) /\ ~(Opens(t2c[n]) /\ Opens(outq[n]))
             => Single(Session, t2c'[n])
    BY <1>6, QueueTypes, Sent
  <2> QED
    BY <1>2, <1>3, <1>4, <1>6, <2>1, NothingOpens DEF Turns, AtMostOne, NoneOf
<1> QED
  BY <1>5, <1>6, FinishSends

(* Nothing else adds a message; programs that exist go on. *)
LEMMA OthersTakeTurns ==
  ASSUME TypeInv, TurnsInv, UNCHANGED <<t2c, outq, ctl>>,
         \A n \in Conns : /\ c2t'[n] = c2t[n] \/ c2t'[n] = <<>>
                          /\ prog'[n] # "none" => prog[n] # "none"
  PROVE  TurnsInv'
<1>1. SUFFICES ASSUME NEW n \in Conns PROVE Turns(c2t'[n], t2c'[n], outq'[n], prog'[n], ctl'[n])
  BY DEF TurnsInv
<1>2. Turns(c2t[n], t2c[n], outq[n], prog[n], ctl[n])
  BY DEF TurnsInv
<1> QED
  BY <1>2, NothingOpens DEF Turns, AtMostOne, NoneOf

LEMMA TurnsInvStep == TypeInv /\ TurnsInv /\ [Next]_vars => TurnsInv'
<1> SUFFICES ASSUME TypeInv, TurnsInv, [Next]_vars PROVE TurnsInv'
  OBVIOUS
<1>1. ASSUME NEW n \in Conns, ByProgram(n) PROVE TurnsInv'
  <2>1. UNCHANGED <<t2c, outq, ctl, c2t>> /\ phase' \in {phase, "undefined"}
    BY <1>1, ProgramSteps
  <2>2. \A m \in Conns : prog'[m] # "none" => prog[m] # "none"
    <3>1. \/ UNCHANGED prog
          \/ /\ prog[n] # "none"
             /\ \E p \in {"running", "failed", "closing", "ended"} : prog' = [prog EXCEPT ![n] = p]
      BY <1>1 DEF ByProgram, ProgramStep, cmd_launcher, launcher_starts, program_ends,
                  launcher_replies, file_request
    <3> QED
      BY <3>1 DEF TypeInv, ProgTypes
  <2> QED
    BY <2>1, <2>2, OthersTakeTurns
<1>2. CASE UNCHANGED vars
  BY <1>2, OthersTakeTurns DEF vars, links, ctlVars, targetVars, progVars
<1>3. CASE (common_main \/ follow_freed \/ WaitSelect \/ no_connection) /\ UNCHANGED ctlVars
  BY <1>3, OthersTakeTurns DEF common_main, follow_freed, WaitSelect, no_connection, links,
                               ctlVars, progVars
<1>4. CASE accept_peer /\ UNCHANGED ctlVars
  <2>1. UNCHANGED <<t2c, outq, ctl, prog>>
    BY <1>4 DEF accept_peer, accept_fails, setup_fails, mount_fails, accept_succeeds, ctlVars, progVars
  <2>2. UNCHANGED c2t \/ \E m : c2t' = [c2t EXCEPT ![m] = <<>>]
    BY <1>4 DEF accept_peer, accept_fails, setup_fails, mount_fails, accept_succeeds
  <2>3. \A n \in Conns : c2t'[n] = c2t[n] \/ c2t'[n] = <<>>
    BY <2>2 DEF TypeInv, LinkTypes, LinksTypeOK
  <2> QED
    BY <2>1, <2>3, OthersTakeTurns
<1>5. CASE shutdown /\ UNCHANGED ctlVars
  BY <1>5, OthersTakeTurns DEF shutdown, ctlVars
<1> QED
  BY <1>1, <1>2, <1>3, <1>4, <1>5, Steps, ControllerTakesTurns, DeliverTakesTurns,
     SignalsTakeTurns, FinishTakesTurns DEF serve

LEMMA TurnsInvAlways == Spec => []TurnsInv
<1>1. Init => TurnsInv
  BY NothingOpens DEF Init, LinksInit, ControllerInit, TargetInit, TurnsInv, Turns, AtMostOne, NoneOf
<1> QED
  BY <1>1, TurnsInvStep, TypeInvAlways, PTL DEF Spec

-----------------------------------------------------------------------------
(* Each end is reported, once                                               *)

Ended == {"exited", "undefined"}

(* The news of a program's end is in one place, in one copy. *)
InOnePlace(n) ==
  /\ Single({n}, proc_port)
  /\ \A m \in Conns : Single({Done(n)}, outq[m]) /\ Single({Done(n)}, t2c[m])
  /\ Has({n}, proc_port) => \A m \in Conns : ~Reports(outq[m], n) /\ ~Reports(t2c[m], n)
  /\ \A m, k \in Conns : Reports(outq[m], n) => ~Reports(t2c[k], n)
  /\ \A m, k \in Conns : Reports(outq[m], n) /\ Reports(outq[k], n) => m = k
  /\ \A m, k \in Conns : Reports(t2c[m], n) /\ Reports(t2c[k], n) => m = k

Known(n) ==
  \/ Has({n}, proc_port)
  \/ \E m \in Conns : Reports(outq[m], n) \/ Reports(t2c[m], n)

(* Its controller can be told. *)
Reachable(n) == mem[n] = "live" /\ state[n] = "CONNECTED" /\ Running(n)

OnceOK(n) ==
  /\ InOnePlace(n)
  /\ Known(n) => prog[n] = "ended"
  /\ prog[n] = "ended" /\ Reachable(n) => Known(n)

OnceInv ==
  /\ \A n \in Conns : Running(n) => cfd[n] # "closed"
  /\ phase \notin Ended => \A n \in Conns : OnceOK(n)

(* The daemon does not come back. *)
LEMMA DaemonEnds ==
  ASSUME TypeInv, [Next]_vars, phase \in Ended
  PROVE  phase' \in Ended
<1>1. ASSUME NEW n \in Conns, ByProgram(n) PROVE phase' \in Ended
  BY <1>1, ProgramSteps DEF Ended
<1>2. ASSUME NEW n \in Conns, ByController(n) PROVE phase' \in Ended
  BY <1>2 DEF ByController, ControllerStep, targetVars
<1>3. ~serve
  BY DEF Ended, serve, common_main, follow_freed, WaitSelect, handle_signals, accept_peer,
         no_connection, deliver, update_finish, shutdown
<1> QED
  BY Steps, <1>1, <1>2, <1>3 DEF vars, targetVars

(* What a controller does to its socket, and that it does not come back. *)
LEMMA ControllersEnd ==
  ASSUME TypeInv, [Next]_vars, NEW n \in Conns
  PROVE  /\ Running(n)' /\ Running(n) => cfd'[n] = cfd[n]
         /\ Running(n)' /\ ~Running(n) => ctl[n] = "off" /\ cfd'[n] = "open"
<1>0. ctl \in [Conns -> CtlStates] /\ cfd \in [Conns -> {"none", "open", "closed"}]
  BY DEF TypeInv, LinkTypes, LinksTypeOK
<1>1. CASE UNCHANGED <<ctl, cfd>>
  BY <1>1 DEF Running
<1>2. ASSUME NEW k \in Conns, ByController(k)
      PROVE  /\ Running(n)' /\ Running(n) => cfd'[n] = cfd[n]
             /\ Running(n)' /\ ~Running(n) => ctl[n] = "off" /\ cfd'[n] = "open"
  <2>1. CASE connect_to_target(k, Listening)
    BY <1>0, <2>1 DEF connect_to_target, NextToStart, Running
  <2>2. CASE Exit(k)
    BY <1>0, <2>2 DEF Exit, Running
  <2>3. CASE /\ ctl[k] \notin {"off", "exited"} /\ UNCHANGED cfd
             /\ UNCHANGED ctl \/ \E new : ctl' = [ctl EXCEPT ![k] = new]
    BY <1>0, <2>3 DEF Running
  <2> QED
    BY <1>2, <2>1, <2>2, <2>3
       DEF ByController, ControllerStep, pump_peer_state_machine, first_update, on_connected,
           controller_on_message, on_ping_answer, Answer, disconnected, quit, send_ping, Connected
<1>3. ASSUME NEW k \in Conns, ByProgram(k) PROVE UNCHANGED <<ctl, cfd>>
  BY <1>3, ProgramSteps
<1>4. ASSUME serve, UNCHANGED ctlVars PROVE UNCHANGED <<ctl, cfd>>
  BY <1>4 DEF serve, common_main, follow_freed, WaitSelect, handle_signals, accept_peer, accept_fails,
     setup_fails, mount_fails, accept_succeeds, no_connection, deliver, update_finish, shutdown,
     links, ctlVars
<1> QED
  BY Steps, <1>1, <1>2, <1>3, <1>4 DEF vars, links, ctlVars

(* A program's end is final, and comes from its launcher. *)
LEMMA EndIsFinal ==
  ASSUME TypeInv, TurnsInv, [Next]_vars, NEW n \in Conns
  PROVE  /\ prog[n] = "ended" => prog'[n] = "ended"
         /\ prog'[n] = "ended" =>
              \/ prog[n] = "ended"
              \/ launcher_replies(n) /\ UNCHANGED <<daemonVars, ctlVars>>
<1>0. prog \in [Conns -> {"none", "starting", "running", "closing", "ended", "failed"}]
  BY DEF TypeInv, ProgTypes
<1>1. CASE UNCHANGED prog
  BY <1>1
<1>2. ASSUME NEW k \in Conns, ByProgram(k)
      PROVE  \/ UNCHANGED prog
             \/ /\ prog[k] # "ended"
                /\ \E p \in {"running", "failed", "closing"} : prog' = [prog EXCEPT ![k] = p]
             \/ /\ launcher_replies(k) /\ UNCHANGED <<daemonVars, ctlVars>>
                /\ prog[k] = "closing" /\ prog' = [prog EXCEPT ![k] = "ended"]
  BY <1>2 DEF ByProgram, ProgramStep, cmd_launcher, launcher_starts, program_ends, launcher_replies,
              file_request
<1>3. CASE \E k \in Conns : ByProgram(k)
  BY <1>0, <1>2, <1>3
<1>4. CASE deliver /\ UNCHANGED ctlVars
  <2>1. prog[n] # "none" => prog'[n] = prog[n]
    BY <1>4, DeliverTakesTurns
  <2>2. UNCHANGED prog \/ \E p \in {"starting", "failed"} : prog' = [prog EXCEPT ![ci] = p]
    BY <1>4 DEF deliver, ProgramAfter
  <2> QED
    BY <1>0, <2>1, <2>2
<1>5. CASE common_main \/ follow_freed \/ WaitSelect \/ handle_signals \/ no_connection
             \/ accept_peer \/ update_finish \/ shutdown
  BY <1>1, <1>5 DEF common_main, follow_freed, WaitSelect, handle_signals, no_connection,
                    accept_peer, update_finish, shutdown, progVars
<1>6. ASSUME NEW m \in Conns, ByController(m) PROVE UNCHANGED prog
  BY <1>6 DEF ByController, ControllerStep, targetVars, progVars
<1> QED
  BY Steps, <1>1, <1>3, <1>4, <1>5, <1>6 DEF serve, vars, targetVars, progVars

(* Nobody whose program has been launched can be reached who could not be   *)
(* before.                                                                  *)
LEMMA ReachableBefore ==
  ASSUME TypeInv, ListInv, ReportInv, TurnsInv, [Next]_vars, NEW n \in Conns,
         prog[n] # "none", Reachable(n)'
  PROVE  Reachable(n)
<1>1. mem[n] = "live"
  <2>1. mem[n] \in {"none", "live", "freed"} /\ mem[n] # "none" /\ mem'[n] = "live"
    BY DEF Reachable, ReportInv, TypeInv, ListTypes
  <2> QED
    BY <2>1, PeersOnlyDie
<1>2. Running(n)
  <2>1. ctl[n] # "off"
    BY DEF TurnsInv, Turns
  <2> QED
    BY <2>1, ControllersEnd DEF Reachable
<1>3. state'[n] = "CONNECTED" => state[n] = "CONNECTED"
  <2>0. state \in [Conns -> PeerStates]
    BY DEF TypeInv, ListTypes
  <2>1. CASE UNCHANGED state
    BY <2>1
  <2>2. CASE deliver /\ UNCHANGED ctlVars
    BY <2>2, DeliverTakesTurns
  <2>3. CASE handle_signals
    <3>1. state' = StAfter \/ \E k \in Conns : state' = [StAfter EXCEPT ![k] = "ERROR"]
      BY <2>3, SignalsSend
    <3>2. state'[n] = StAfter[n] \/ state'[n] = "ERROR"
      BY <3>1 DEF StAfter
    <3> QED
      BY <3>2 DEF StAfter
  <2>4. CASE update_finish
    <3>1. PICK st \in PeerStates : /\ st = state[ci] \/ st = "DISCONNECTED"
                                   /\ state' = [state EXCEPT ![ci] = st]
      BY <2>4, FinishIs
    <3> QED
      BY <2>0, <3>1
  <2>5. CASE accept_peer
    <3>1. UNCHANGED state \/ \E k : state' = [state EXCEPT ![k] = "WAIT_HANDSHAKE"]
      BY <2>5 DEF accept_peer, accept_fails, setup_fails, mount_fails, accept_succeeds, listVars
    <3> QED
      BY <2>0, <3>1
  <2>6. CASE common_main \/ follow_freed \/ WaitSelect \/ no_connection \/ shutdown
    BY <2>1, <2>6 DEF common_main, follow_freed, WaitSelect, no_connection, shutdown, listVars
  <2>7. ASSUME NEW m \in Conns, ByController(m) PROVE UNCHANGED state
    BY <2>7 DEF ByController, ControllerStep, targetVars, listVars
  <2>8. ASSUME NEW m \in Conns, ByProgram(m) PROVE UNCHANGED state
    BY <2>8, ProgramSteps
  <2> QED
    BY Steps, <2>1, <2>2, <2>3, <2>4, <2>5, <2>6, <2>7, <2>8 DEF serve, vars, targetVars, listVars
<1> QED
  BY <1>1, <1>2, <1>3 DEF Reachable

(* Nothing new is said, and what is no longer said was said to nobody. *)
LEMMA NothingNew ==
  ASSUME NEW n \in Conns, InOnePlace(n),
         Has({n}, proc_port') => Has({n}, proc_port), Single({n}, proc_port'),
         \A m \in Conns :
           /\ Reports(outq'[m], n) => Reports(outq[m], n)
           /\ Reports(t2c'[m], n) => Reports(t2c[m], n)
           /\ Single({Done(n)}, outq'[m]) /\ Single({Done(n)}, t2c'[m])
  PROVE  InOnePlace(n)' /\ (Known(n)' => Known(n))
BY DEF InOnePlace, Known

(* How an invariant step ends. *)
LEMMA OnceKept ==
  ASSUME TypeInv, ListInv, ReportInv, TurnsInv, [Next]_vars, NEW n \in Conns, OnceOK(n),
         ~(launcher_replies(n) /\ UNCHANGED <<daemonVars, ctlVars>>),
         InOnePlace(n)', Known(n)' => Known(n),
         prog[n] = "ended" /\ Reachable(n)' /\ Known(n) => Known(n)'
  PROVE  OnceOK(n)'
<1>1. prog'[n] = "ended" <=> prog[n] = "ended"
  BY EndIsFinal
<1>2. prog[n] = "ended" /\ Reachable(n)' => Reachable(n)
  BY ReachableBefore
<1> QED
  BY <1>1, <1>2 DEF OnceOK

LEMMA RepliesOnce ==
  ASSUME TypeInv, NEW n \in Conns, OnceOK(n), launcher_replies(n), UNCHANGED <<daemonVars, ctlVars>>,
         phase' \notin Ended
  PROVE  OnceOK(n)'
<1>1. prog[n] = "closing" /\ prog'[n] = "ended"
  BY DEF launcher_replies, TypeInv, ProgTypes
<1>2. proc_port' = Append(proc_port, n) /\ UNCHANGED <<outq, t2c>>
  BY DEF launcher_replies, Ended, daemonVars
<1>3. proc_port \in Seq(Conns)
  BY DEF TypeInv, ProgTypes
<1>4. ~Known(n)
  BY <1>1 DEF OnceOK
<1>5. /\ Has({n}, proc_port')
      /\ Single({n}, proc_port') <=> Single({n}, proc_port) /\ ~Has({n}, proc_port)
  BY <1>2, <1>3, QueueAppend
<1>6. InOnePlace(n)' /\ Known(n)'
  BY <1>2, <1>4, <1>5 DEF InOnePlace, Known, OnceOK
<1> QED
  BY <1>1, <1>6 DEF OnceOK

(* The launcher of another program replies. *)
LEMMA RepliesOfOthers ==
  ASSUME TypeInv, NEW n \in Conns, NEW k \in Conns, k # n, InOnePlace(n), launcher_replies(k),
         UNCHANGED <<daemonVars, ctlVars>>
  PROVE  InOnePlace(n)' /\ (Known(n)' <=> Known(n))
<1>1. proc_port' = Append(proc_port, k) \/ UNCHANGED proc_port
  BY DEF launcher_replies, portVars
<1>2. UNCHANGED <<outq, t2c>>
  BY DEF daemonVars
<1>3. proc_port \in Seq(Conns)
  BY DEF TypeInv, ProgTypes
<1>4. (Has({n}, proc_port') <=> Has({n}, proc_port)) /\ (Single({n}, proc_port) => Single({n}, proc_port'))
  <2>1. /\ Has({n}, Append(proc_port, k)) <=> Has({n}, proc_port) \/ k \in {n}
        /\ Single({n}, Append(proc_port, k)) <=> Single({n}, proc_port) /\ ~(k \in {n} /\ Has({n}, proc_port))
    BY <1>3, QueueAppend
  <2> QED
    BY <1>1, <2>1
<1> QED
  BY <1>2, <1>4 DEF InOnePlace, Known

(* One message is taken from the port, and possibly passed on. *)
LEMMA SignalsMove ==
  ASSUME TypeInv, handle_signals, phase' # "undefined"
  PROVE  \/ proc_port' = proc_port /\ outq' = QAfter
         \/ /\ wake.proc /\ proc_port # <<>> /\ proc_port' = Tail(proc_port)
            /\ Head(proc_port) \in Conns
            /\ \/ outq' = QAfter
               \/ \E peer \in Conns :
                    outq' = [QAfter EXCEPT ![peer] = Append(@, Done(Head(proc_port)))]
<1>1. CASE wake.proc
  <2>1. proc_port # <<>> /\ proc_port' = Tail(proc_port)
    BY <1>1 DEF handle_signals, AfterGetMsg
  <2>2. Head(proc_port) \in Conns
    BY <2>1, SeqTypes DEF TypeInv, ProgTypes
  <2> QED
    BY <1>1, <2>1, <2>2, SignalsSend
<1>2. CASE ~wake.proc
  <2>1. proc_port' = proc_port
    BY <1>2 DEF handle_signals
  <2> QED
    BY <1>2, <2>1, SignalsSend
<1> QED
  BY <1>1, <1>2

LEMMA SignalsTellOnce ==
  ASSUME TypeInv, ListInv, VolumeNamesDistinct, ReportInv, handle_signals, phase' # "undefined",
         NEW n \in Conns, OnceOK(n)
  PROVE  /\ InOnePlace(n)' /\ (Known(n)' => Known(n))
         /\ Reachable(n)' /\ Known(n) => Known(n)'
<1> DEFINE h == Head(proc_port)
<1>0. InOnePlace(n) /\ UNCHANGED <<t2c, mem>>
  BY DEF handle_signals, links, OnceOK
<1>1. QAfter \in [Conns -> Seq(ToController)] /\ proc_port \in Seq(Conns)
  BY SignalsSend DEF TypeInv, ProgTypes
<1>2. \A m \in Conns : /\ Reports(QAfter[m], n) <=> Reports(outq[m], n)
                       /\ Single({Done(n)}, QAfter[m]) <=> Single({Done(n)}, outq[m])
  BY QAfterReports
<1>3. CASE proc_port' = proc_port /\ outq' = QAfter
  BY <1>0, <1>2, <1>3 DEF InOnePlace, Known
<1>4. ASSUME wake.proc, proc_port # <<>>, proc_port' = Tail(proc_port), h \in Conns,
             \/ outq' = QAfter
             \/ \E peer \in Conns : outq' = [QAfter EXCEPT ![peer] = Append(@, Done(h))]
      PROVE  /\ InOnePlace(n)' /\ (Known(n)' => Known(n))
             /\ Reachable(n)' /\ Known(n) => Known(n)'
  <2>1. /\ Has({n}, proc_port) <=> h = n \/ Has({n}, proc_port')
        /\ Single({n}, proc_port) <=> Single({n}, proc_port') /\ ~(h = n /\ Has({n}, proc_port'))
    BY <1>1, <1>4, QueueTail
  <2>2. CASE outq' = QAfter /\ ~Reachable(n)'
    BY <1>0, <1>2, <2>1, <2>2 DEF InOnePlace, Known
  <2>3. CASE outq' = QAfter /\ h # n
    BY <1>0, <1>2, <2>1, <2>3 DEF InOnePlace, Known
  <2>4. CASE h = n /\ Reachable(n)' /\ outq' = QAfter
    <3>1. prog[n] = "ended"
      BY <2>1, <2>4 DEF OnceOK, Known
    <3>2. mem[n] = "live" /\ state'[n] = "CONNECTED"
      BY <1>0, <2>4 DEF Reachable
    <3>3. FindPeer(peer_index[n]) = n
      BY <3>1, <3>2, ReportIsForItsPeer DEF handle_signals
    <3>4. StAfter \in [Conns -> PeerStates]
      BY SignalsSend
    <3>5. StAfter[n] = "CONNECTED"
      <4>1. \/ state' = StAfter
            \/ \E peer \in Conns : peer = FindPeer(peer_index[h]) /\ state' = [StAfter EXCEPT ![peer] = "ERROR"]
        BY SignalsSend
      <4> QED
        BY <2>4, <3>2, <3>3, <3>4, <4>1
    <3>6. outq' = [QAfter EXCEPT ![n] = Append(@, Done(n))]
      BY <1>4, <2>4, <3>3, <3>5, SignalsSend
    <3>7. Done(n) \in ToController /\ QAfter[n] \in Seq(ToController)
      BY <1>1, MessageTypes
    <3>8. Len(Append(QAfter[n], Done(n))) # Len(QAfter[n])
      BY <3>7
    <3>9. outq'[n] = Append(QAfter[n], Done(n)) /\ outq'[n] = QAfter[n]
      BY <1>1, <2>4, <3>6
    <3> QED
      BY <3>8, <3>9
  <2>5. ASSUME NEW peer \in Conns, outq' = [QAfter EXCEPT ![peer] = Append(@, Done(h))]
        PROVE  /\ InOnePlace(n)' /\ (Known(n)' => Known(n))
               /\ Reachable(n)' /\ Known(n) => Known(n)'
    <3>1. Done(h) \in ToController /\ QAfter[peer] \in Seq(ToController)
      BY <1>1, <1>4, MessageTypes
    <3>2. Done(h) = Done(n) <=> h = n
      BY <1>4, DoneIsOne
    <3>3. outq'[peer] = Append(QAfter[peer], Done(h)) /\ \A m \in Conns : m # peer => outq'[m] = QAfter[m]
      BY <1>1, <2>5
    <3>4. /\ Reports(outq'[peer], n) <=> Reports(QAfter[peer], n) \/ h = n
          /\ Single({Done(n)}, outq'[peer]) <=>
               Single({Done(n)}, QAfter[peer]) /\ ~(h = n /\ Reports(QAfter[peer], n))
      BY <3>1, <3>2, <3>3, QueueAppend DEF Reports
    <3> HIDE DEF h
    <3>5. CASE h = n
      BY <1>0, <1>2, <2>1, <3>3, <3>4, <3>5 DEF InOnePlace, Known
    <3>6. CASE h # n
      BY <1>0, <1>2, <2>1, <3>3, <3>4, <3>6 DEF InOnePlace, Known
    <3> QED
      BY <3>5, <3>6
  <2> QED
    BY <1>4, <2>2, <2>3, <2>4, <2>5
<1> QED
  BY <1>3, <1>4, SignalsMove

(* What a peer has queued goes out while its controller listens. *)
LEMMA FinishTellsOnce ==
  ASSUME TypeInv, ReportInv, OnceInv, update_finish, UNCHANGED ctlVars, NEW n \in Conns, OnceOK(n)
  PROVE  /\ InOnePlace(n)' /\ (Known(n)' => Known(n))
         /\ Reachable(n)' /\ Reachable(n) /\ Known(n) => Known(n)'
<1>0. InOnePlace(n) /\ ci \in Conns /\ UNCHANGED proc_port
  BY FinishIs DEF OnceOK
<1>1. \A m \in Conns \ {ci} : outq'[m] = outq[m] /\ t2c'[m] = t2c[m]
  BY FinishSends
<1>2. outq'[ci] = <<>> /\ (t2c'[ci] = IF cfd[ci] = "closed" THEN t2c[ci] ELSE t2c[ci] \o outq[ci])
  BY <1>0, FinishSends
<1>3. ~Reports(outq'[ci], n) /\ Single({Done(n)}, outq'[ci])
  BY <1>2, QueueEmpty DEF Reports
<1>4. /\ Reports(t2c'[ci], n) => Reports(t2c[ci], n) \/ Reports(outq[ci], n)
      /\ Reports(t2c[ci], n) => Reports(t2c'[ci], n)
      /\ cfd[ci] # "closed" /\ Reports(outq[ci], n) => Reports(t2c'[ci], n)
      /\ Single({Done(n)}, t2c'[ci])
  <2>1. /\ Has({Done(n)}, t2c[ci] \o outq[ci]) <=> Has({Done(n)}, t2c[ci]) \/ Has({Done(n)}, outq[ci])
        /\ Single({Done(n)}, t2c[ci] \o outq[ci]) <=>
             /\ Single({Done(n)}, t2c[ci]) /\ Single({Done(n)}, outq[ci])
             /\ ~(Has({Done(n)}, t2c[ci]) /\ Has({Done(n)}, outq[ci]))
    BY <1>0, QueueTypes, HasConcat, SingleConcat
  <2>2. /\ Single({Done(n)}, t2c[ci]) /\ Single({Done(n)}, outq[ci])
        /\ ~(Reports(t2c[ci], n) /\ Reports(outq[ci], n))
    BY <1>0 DEF InOnePlace
  <2> QED
    BY <1>2, <2>1, <2>2 DEF Reports
<1>5. InOnePlace(n)'
  BY <1>0, <1>1, <1>3, <1>4 DEF InOnePlace
<1>6. Known(n)' => Known(n)
  BY <1>0, <1>1, <1>3, <1>4 DEF Known
<1>7. ASSUME Reachable(n), Known(n) PROVE Known(n)'
  <2>1. cfd[n] # "closed" /\ mem[n] # "freed"
    BY <1>7 DEF Reachable, OnceInv
  <2>2. Reports(outq[ci], n) => ci = n
    BY <1>0, <2>1, ReportsGoHomeIs DEF ReportInv
  <2> QED
    BY <1>0, <1>1, <1>4, <1>7, <2>1, <2>2 DEF Known
<1> QED
  BY <1>5, <1>6, <1>7

(* A controller takes the report by ending. *)
LEMMA ControllerHearsOnce ==
  ASSUME TypeInv, ReportInv, NEW k \in Conns, ByController(k), NEW n \in Conns, OnceOK(n)
  PROVE  /\ InOnePlace(n)' /\ (Known(n)' => Known(n))
         /\ Reachable(n)' /\ Known(n) => Known(n)'
<1>0. InOnePlace(n) /\ UNCHANGED <<outq, proc_port, mem>>
  BY DEF OnceOK, ByController, ControllerStep, targetVars, listVars, progVars, portVars
<1>1. InOnePlace(n)' /\ (Known(n)' => Known(n))
  BY <1>0, ControllerReports, NothingNew DEF InOnePlace
<1>2. ASSUME Reachable(n)', NEW m \in Conns, Reports(t2c[m], n) PROVE Reports(t2c'[m], n)
  <2>1. m = n
    <3>1. mem[n] = "live"
      BY <1>0, <1>2 DEF Reachable
    <3> QED
      BY <1>2, <3>1, ReportsGoHomeIs DEF ReportInv
  <2>2. ~Exit(n)
    BY <1>2 DEF Exit, Reachable, Running, TypeInv, LinkTypes
  <2>3. CASE /\ t2c[m] # <<>> /\ t2c'[m] = Tail(t2c[m])
             /\ Head(t2c[m]).type # "EXECUTABLE_DONE_REQUEST"
    <3>1. Head(t2c[m]) # Done(n)
      BY <2>3 DEF Done, Numbered
    <3>2. Has({Done(n)}, t2c[m]) <=> Head(t2c[m]) \in {Done(n)} \/ Has({Done(n)}, Tail(t2c[m]))
      BY <2>3, QueueTypes, QueueTail
    <3> QED
      BY <1>2, <2>3, <3>1, <3>2 DEF Reports
  <2> QED
    BY <1>2, <2>1, <2>2, <2>3, ControllerTakes
<1> QED
  BY <1>0, <1>1, <1>2 DEF Known

(* Whatever leaves port, queues and connections alone. *)
LEMMA QuietSteps ==
  ASSUME NEW n \in Conns, OnceOK(n), UNCHANGED <<proc_port, t2c>>,
         \A m \in Conns : /\ Reports(outq'[m], n) <=> Reports(outq[m], n)
                          /\ Single({Done(n)}, outq'[m]) <=> Single({Done(n)}, outq[m])
  PROVE  InOnePlace(n)' /\ (Known(n)' <=> Known(n))
BY DEF OnceOK, InOnePlace, Known

LEMMA OnceInvStep ==
  TypeInv /\ ListInv /\ VolumeNamesDistinct /\ ReportInv /\ TurnsInv /\ OnceInv /\ [Next]_vars
    => OnceInv'
<1> SUFFICES ASSUME TypeInv, ListInv, VolumeNamesDistinct, ReportInv, TurnsInv, OnceInv, [Next]_vars
             PROVE  OnceInv'
  OBVIOUS
<1>1. \A n \in Conns : Running(n)' => cfd'[n] # "closed"
  BY ControllersEnd DEF OnceInv
<1>2. SUFFICES ASSUME phase' \notin Ended, NEW n \in Conns PROVE OnceOK(n)'
  BY <1>1 DEF OnceInv
<1>3. OnceOK(n)
  BY DaemonEnds, <1>2 DEF OnceInv
<1>4. CASE launcher_replies(n) /\ UNCHANGED <<daemonVars, ctlVars>>
  BY <1>2, <1>3, <1>4, RepliesOnce
<1>5. CASE ~(launcher_replies(n) /\ UNCHANGED <<daemonVars, ctlVars>>)
  <2>1. SUFFICES /\ InOnePlace(n)' /\ (Known(n)' => Known(n))
                 /\ Reachable(n)' /\ Reachable(n) /\ Known(n) => Known(n)'
    <3>1. prog[n] = "ended" /\ Reachable(n)' => Reachable(n)
      BY ReachableBefore
    <3> QED
      BY <1>3, <1>5, <3>1, OnceKept
  <2>2. CASE UNCHANGED <<proc_port, outq, t2c>>
    BY <1>3, <2>2, QuietSteps
  <2>3. CASE handle_signals
    BY <1>2, <1>3, <2>3, SignalsTellOnce DEF Ended
  <2>4. CASE deliver
    BY <1>3, <2>4, DeliverReports, DeliverIs, QuietSteps
  <2>5. CASE update_finish /\ UNCHANGED ctlVars
    BY <1>3, <2>5, FinishTellsOnce
  <2>6. ASSUME NEW k \in Conns, ByController(k)
        PROVE  /\ InOnePlace(n)' /\ (Known(n)' => Known(n))
               /\ Reachable(n)' /\ Reachable(n) /\ Known(n) => Known(n)'
    BY <1>3, <2>6, ControllerHearsOnce
  <2>7. CASE shutdown
    BY <1>2, <2>7 DEF shutdown, Ended
  <2>8. CASE common_main \/ follow_freed \/ WaitSelect \/ accept_peer \/ no_connection
    <3>1. UNCHANGED <<proc_port, outq, t2c>>
      BY <2>8 DEF common_main, follow_freed, WaitSelect, accept_peer, accept_fails, setup_fails,
                  mount_fails, accept_succeeds, no_connection, links, progVars, portVars
    <3> QED
      BY <2>2, <3>1
  <2>9. ASSUME NEW k \in Conns, ByProgram(k)
        PROVE  /\ InOnePlace(n)' /\ (Known(n)' => Known(n))
               /\ Reachable(n)' /\ Reachable(n) /\ Known(n) => Known(n)'
    <3>1. \/ UNCHANGED <<proc_port, outq, t2c>>
          \/ launcher_replies(k) /\ UNCHANGED <<daemonVars, ctlVars>>
      BY <2>9 DEF ByProgram, ProgramStep, cmd_launcher, launcher_starts, program_ends, file_request,
                  portVars, daemonVars
    <3>2. CASE launcher_replies(k) /\ UNCHANGED <<daemonVars, ctlVars>>
      <4>1. k # n /\ InOnePlace(n)
        BY <1>3, <1>5, <3>2 DEF OnceOK
      <4> QED
        BY <3>2, <4>1, RepliesOfOthers
    <3> QED
      BY <2>2, <3>1, <3>2
  <2>10. CASE UNCHANGED vars
    BY <2>2, <2>10 DEF vars, links, targetVars, progVars, portVars
  <2> QED
    BY Steps, <2>3, <2>4, <2>5, <2>6, <2>7, <2>8, <2>9, <2>10 DEF serve
<1> QED
  BY <1>4, <1>5

LEMMA OnceInvAlways == Spec => []OnceInv
<1>1. Init => OnceInv
  BY QueueEmpty DEF Init, LinksInit, ControllerInit, TargetInit, OnceInv, OnceOK, InOnePlace, Known,
                    Reachable, Running, Reports
<1> QED
  BY <1>1, OnceInvStep, ListInvAlways, VolumeNamesAreDistinct, ReportInvAlways, TurnsInvAlways, PTL
     DEF Spec

(* The places in the terms of the property. *)
LEMMA ReportsOfIs ==
  ASSUME TypeInv, NEW n \in Conns
  PROVE  /\ InOnePlace(n) => \A a, b \in ReportsOf(n) : a = b
         /\ ReportsOf(n) # {} <=> Known(n)
<1>1. \A a \in ReportsOf(n) :
        \/ \E i \in InPort(n) : a = <<"port", 0, i>>
        \/ \E m \in Conns : \E i \in InQueue(m, n) : a = <<"queue", m, i>>
        \/ \E m \in Conns : \E i \in OnTheWay(m, n) : a = <<"way", m, i>>
  BY DEF ReportsOf
<1>2. /\ \A i \in InPort(n) : <<"port", 0, i>> \in ReportsOf(n)
      /\ \A m \in Conns : /\ \A i \in InQueue(m, n) : <<"queue", m, i>> \in ReportsOf(n)
                          /\ \A i \in OnTheWay(m, n) : <<"way", m, i>> \in ReportsOf(n)
  BY DEF ReportsOf
<1>3. /\ Has({n}, proc_port) <=> InPort(n) # {}
      /\ Single({n}, proc_port) => \A i, j \in InPort(n) : i = j
  BY DEF Has, Single, InPort
<1>4. \A m \in Conns :
        /\ Reports(outq[m], n) <=> InQueue(m, n) # {}
        /\ Reports(t2c[m], n) <=> OnTheWay(m, n) # {}
        /\ Single({Done(n)}, outq[m]) => \A i, j \in InQueue(m, n) : i = j
        /\ Single({Done(n)}, t2c[m]) => \A i, j \in OnTheWay(m, n) : i = j
  BY DEF Reports, Has, Single, InQueue, OnTheWay
<1>5. ReportsOf(n) # {} <=> Known(n)
  BY <1>1, <1>2, <1>3, <1>4 DEF Known
<1>6. ASSUME InOnePlace(n), NEW a \in ReportsOf(n), NEW b \in ReportsOf(n) PROVE a = b
  <2>1. CASE \E i \in InPort(n) : a = <<"port", 0, i>>
    <3>1. \A m \in Conns : InQueue(m, n) = {} /\ OnTheWay(m, n) = {}
      BY <1>3, <1>4, <1>6, <2>1 DEF InOnePlace
    <3> QED
      BY <1>1, <1>3, <1>6, <2>1, <3>1 DEF InOnePlace
  <2>2. ASSUME NEW m \in Conns, \E i \in InQueue(m, n) : a = <<"queue", m, i>> PROVE a = b
    <3>1. InPort(n) = {} /\ \A k \in Conns : OnTheWay(k, n) = {} /\ (k # m => InQueue(k, n) = {})
      BY <1>3, <1>4, <1>6, <2>2 DEF InOnePlace
    <3>2. \E i \in InQueue(m, n) : b = <<"queue", m, i>>
      BY <1>1, <1>6, <3>1
    <3>3. \A i, j \in InQueue(m, n) : i = j
      BY <1>4, <1>6 DEF InOnePlace
    <3> QED
      BY <2>2, <3>2, <3>3
  <2>3. ASSUME NEW m \in Conns, \E i \in OnTheWay(m, n) : a = <<"way", m, i>> PROVE a = b
    <3>1. InPort(n) = {} /\ \A k \in Conns : InQueue(k, n) = {} /\ (k # m => OnTheWay(k, n) = {})
      BY <1>3, <1>4, <1>6, <2>3 DEF InOnePlace
    <3>2. \E i \in OnTheWay(m, n) : b = <<"way", m, i>>
      BY <1>1, <1>6, <3>1
    <3>3. \A i, j \in OnTheWay(m, n) : i = j
      BY <1>4, <1>6 DEF InOnePlace
    <3> QED
      BY <2>3, <3>2, <3>3
  <2> QED
    BY <1>1, <2>1, <2>2, <2>3
<1> QED
  BY <1>5, <1>6

(* However many programs run and use their volumes, and whoever connects,   *)
(* pings, ends or fails: the end of a program is reported at most once, and *)
(* the report is on its way until the controller has it, as long as that    *)
(* one is connected.                                                        *)
THEOREM EndsAreReportedOnce == Spec => []EndReportedOnce
<1>1. TypeInv /\ OnceInv => EndReportedOnce
  BY ReportsOfIs DEF OnceInv, OnceOK, Ended, EndReportedOnce, Reachable
<1> QED
  BY <1>1, TypeInvAlways, OnceInvAlways, PTL

-----------------------------------------------------------------------------
(* The variables have their types; in particular peer indices stay below    *)
(* the modulus, as the one digit of a volume's name requires.               *)
THEOREM TypeCorrect == Spec => []TypeOK
<1>1. TypeInv => TypeOK
  BY DEF TypeInv, LinkTypes, ListTypes, LoopTypes, FsTypes, ProgTypes, TypeOK
<1> QED
  BY <1>1, TypeInvAlways, PTL
=============================================================================
