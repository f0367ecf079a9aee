-------------------------- MODULE FileHandleProofs --------------------------
(***************************************************************************)
(* Proofs about the controller's handles in a FileSession: that they       *)
(* neither leak nor get shared, and that a lock's handle is open on the    *)
(* object that was locked.                                                 *)
(***************************************************************************)
EXTENDS FileSessionProofs

-----------------------------------------------------------------------------
(* What a request does to the server's table.                               *)

Opened(m) ==
  /\ m.kind = "OPEN"
  /\ \E h \in HandleIds, a \in AnswerType :
       /\ slot[h].handle = 0 /\ slot'[h].handle # 0 /\ slot'[h].path = m.path
       /\ \A k \in HandleIds : k # h => slot'[k] = slot[k]
       /\ a.kind = "OPEN" /\ a.seq = m.seq /\ a.handle = h /\ a.type = slot'[h].type
       /\ answers' = Append(answers, a)

Closed(m) ==
  /\ m.kind = "CLOSE" /\ answers' = answers
  /\ \A k \in HandleIds : IF k = m.handle THEN slot'[k].handle = 0 ELSE slot'[k] = slot[k]

SameSlots ==
  \A k \in HandleIds :
    /\ slot'[k].handle = slot[k].handle /\ slot'[k].path = slot[k].path
    /\ slot[k].handle # 0 => slot'[k].type = slot[k].type

Served(m) ==
  /\ m.kind # "CLOSE" /\ SameSlots
  /\ \E a \in AnswerType : a.kind # "OPEN" /\ answers' = Append(answers, a)

LEMMA SetFindDirSlots ==
  ASSUME ServerType, NEW dir, SetFindDir(dir)
  PROVE  SameSlots
<1>1. CASE Request.handle = ROOT
  BY <1>1 DEF SetFindDir, SameSlots
<1>2. CASE Request.handle # ROOT
  <2>1. slot' = [slot EXCEPT ![Request.handle].dir = dir] /\ slot \in [HandleIds -> SlotType]
    BY <1>2 DEF SetFindDir, ServerType
  <2>2. ASSUME NEW k \in HandleIds
        PROVE  /\ slot'[k].handle = slot[k].handle /\ slot'[k].path = slot[k].path
               /\ slot'[k].type = slot[k].type
    <3>1. slot[k] \in SlotType
      BY <2>1
    <3> QED
      BY <2>1, <3>1 DEF SlotType
  <2> QED
    BY <2>2 DEF SameSlots
<1> QED
  BY <1>1, <1>2

LEMMA ErrorIsServed ==
  ASSUME NEW m \in RequestType, m.kind # "CLOSE", m = Request, SameSlots, NEW code \in NetErrors,
         reply_with_error(code)
  PROVE  Served(m)
<1>1. PICK a : a = ErrorAnswer(m.seq, code)
  OBVIOUS
<1>2. a \in AnswerType /\ a.kind = "ERROR"
  BY <1>1, ErrorAnswers DEF Answers, ErrorAnswer
<1>3. answers' = Append(answers, a)
  BY <1>1 DEF reply_with_error, Answer
<1> QED
  BY <1>2, <1>3 DEF Served

LEMMA ServerSlots ==
  ASSUME TypeInv, rl_file_serve, NEW m, m = Request
  PROVE  /\ m \in RequestType /\ requests # <<>> /\ requests' = Tail(requests)
         /\ Opened(m) \/ Closed(m) \/ Served(m)
<1>0. ServerType /\ slot \in [HandleIds -> SlotType]
  BY DEF TypeInv, ServerType
<1>1. /\ m \in RequestType /\ requests # <<>> /\ requests' = Tail(requests)
      /\ \/ m.kind # "CLOSE" /\ \E a \in AnswerType : Answers(m, a) /\ answers' = Append(answers, a)
         \/ m.kind = "CLOSE" /\ answers' = answers
  BY ServerStepServes DEF Serves
<1>2. CASE m.kind = "OPEN" /\ open_handle_request
  <2>1. CASE open_handle_too_many
    <3>1. SameSlots
      BY <2>1 DEF open_handle_too_many, SameSlots, serverVars
    <3> QED
      BY <1>1, <1>2, <2>1, <3>1, ErrorIsServed DEF open_handle_too_many, NetErrors
  <2>2. CASE open_handle_not_found
    <3>1. SameSlots
      BY <2>2 DEF open_handle_not_found, SameSlots, serverVars
    <3> QED
      BY <1>1, <1>2, <2>2, <3>1, ErrorIsServed DEF open_handle_not_found, NetErrors
  <2>3. CASE open_handle_fails
    <3>1. PICK f : f = FreeId
      OBVIOUS
    <3>2. f \in HandleIds /\ slot[f].handle = 0
      BY <2>3, <3>1, FreeIdIsFree DEF open_handle_fails
    <3>3. slot' = [slot EXCEPT ![f].type = "FILE"]
      BY <2>3, <3>1 DEF open_handle_fails
    <3>4. SameSlots
      <4> SUFFICES ASSUME NEW k \in HandleIds
                   PROVE  /\ slot'[k].handle = slot[k].handle /\ slot'[k].path = slot[k].path
                          /\ slot[k].handle # 0 => slot'[k].type = slot[k].type
        BY DEF SameSlots
      <4>1. slot[k] \in SlotType
        BY <1>0
      <4> QED
        BY <1>0, <3>2, <3>3, <4>1 DEF SlotType
    <3>5. PICK code \in NetErrors : reply_with_error(code)
      BY <2>3 DEF open_handle_fails, OpenErrors, NetErrors
    <3> QED
      BY <1>1, <1>2, <3>4, <3>5, ErrorIsServed
  <2>4. CASE open_handle_succeeds
    <3>1. PICK f : f = FreeId
      OBVIOUS
    <3>2. f \in HandleIds /\ slot[f].handle = 0
      BY <2>4, <3>1, FreeIdIsFree DEF open_handle_succeeds
    <3>3. PICK node : node = Tree[m.path]
      OBVIOUS
    <3>4. m.path \in DOMAIN Tree /\ node.type \in {"FILE", "DIR"} /\ node.size \in Nat
      BY <2>4, <3>3, PathTypes DEF open_handle_succeeds
    <3>5. slot' = [slot EXCEPT ![f].handle = IF node.type = "FILE" THEN 1 ELSE -1,
                               ![f].type = node.type, ![f].path = m.path]
      BY <2>4, <3>1, <3>3 DEF open_handle_succeeds
    <3>6. slot[f] \in SlotType
      BY <1>0, <3>2
    <3>7. /\ slot'[f].handle # 0 /\ slot'[f].path = m.path /\ slot'[f].type = node.type
          /\ \A k \in HandleIds : k # f => slot'[k] = slot[k]
      BY <1>0, <3>2, <3>5, <3>6 DEF SlotType
    <3>8. PICK a : a = OpenAnswer(m.seq, f, node.type, IF node.type = "FILE" THEN node.size ELSE 0)
      OBVIOUS
    <3>9. m.seq \in Nat
      BY <1>1 DEF RequestType
    <3>10. a \in AnswerType /\ a.kind = "OPEN" /\ a.seq = m.seq /\ a.handle = f /\ a.type = node.type
      BY <3>2, <3>4, <3>8, <3>9 DEF OpenAnswer, AnswerType
    <3>11. answers' = Append(answers, a)
      BY <2>4, <3>1, <3>3, <3>8 DEF open_handle_succeeds, Answer
    <3> QED
      BY <1>1, <1>2, <3>2, <3>7, <3>10, <3>11 DEF Opened
  <2> QED
    BY <1>2, <2>1, <2>2, <2>3, <2>4 DEF open_handle_request
<1>3. CASE m.kind = "CLOSE" /\ close_handle_request
  <2>1. slot' = IF m.handle \in HandleIds THEN [slot EXCEPT ![m.handle].handle = 0] ELSE slot
    BY <1>3 DEF close_handle_request, closed_slot
  <2>2. ASSUME NEW k \in HandleIds
        PROVE  IF k = m.handle THEN slot'[k].handle = 0 ELSE slot'[k] = slot[k]
    <3>1. slot[k] \in SlotType
      BY <1>0
    <3> QED
      BY <1>0, <2>1, <3>1 DEF SlotType
  <2> QED
    BY <1>1, <1>3, <2>2 DEF Closed
<1>4. CASE m.kind \in {"READ", "WRITE", "FIND", "ERROR"} /\ SameSlots
  <2>1. PICK a \in AnswerType : Answers(m, a) /\ answers' = Append(answers, a)
    BY <1>1, <1>4
  <2>2. a.kind # "OPEN"
    BY <1>4, <2>1 DEF Answers
  <2> QED
    BY <1>1, <1>4, <2>1, <2>2 DEF Served
<1>5. CASE m.kind = "READ" /\ read_file_request
  BY <1>4, <1>5 DEF read_file_request, serverVars, SameSlots
<1>6. CASE m.kind = "WRITE" /\ write_file_request
  BY <1>4, <1>6 DEF write_file_request, SameSlots
<1>7. CASE m.kind = "FIND" /\ find_next_file_request
  <2>1. CASE find_next_file_not_dir
    BY <1>4, <1>7, <2>1 DEF find_next_file_not_dir, serverVars, SameSlots
  <2>2. CASE find_next_file_fails
    <3>1. PICK dir : SetFindDir(dir)
      BY <2>2 DEF find_next_file_fails
    <3> QED
      BY <1>0, <1>4, <1>7, <3>1, SetFindDirSlots
  <2>3. CASE find_next_file_succeeds
    <3>1. PICK dir : SetFindDir(dir)
      BY <2>3 DEF find_next_file_succeeds
    <3> QED
      BY <1>0, <1>4, <1>7, <3>1, SetFindDirSlots
  <2> QED
    BY <1>7, <2>1, <2>2, <2>3 DEF find_next_file_request
<1>8. CASE m.kind = "ERROR" /\ bad_request
  BY <1>4, <1>8 DEF bad_request, serverVars, SameSlots
<1> QED
  BY <1>1, <1>2, <1>3, <1>5, <1>6, <1>7, <1>8 DEF rl_file_serve

-----------------------------------------------------------------------------
(* Who owns a handle.                                                       *)

(* The messages of the kind k that carry a handle of the server's table:    *)
(* the requests that close one and the answers that announce one.           *)
Sel(s, k) == {i \in DOMAIN s : s[i].kind = k /\ s[i].handle \in HandleIds}
Handles(s, k) == {s[i].handle : i \in Sel(s, k)}
Distinct(s, k) == \A i, j \in Sel(s, k) : s[i].handle = s[j].handle => i = j

Holding == {l \in LockIds : lock[l] # NoLock /\ lock[l].handle_id \in HandleIds}
LockHandles == {lock[l].handle_id : l \in Holding}
DistinctLocks == \A l, k \in Holding : lock[l].handle_id = lock[k].handle_id => l = k

OpenHandles == {h \in HandleIds : slot[h].handle # 0}

(* Locks H, close requests C and announcements O share the open handles S.  *)
(* A handle may be forgotten when the lock for it cannot be allocated.      *)
Shared(H, C, O, S) ==
  /\ H \cap C = {} /\ H \cap O = {} /\ C \cap O = {}
  /\ H \cup C \cup O \subseteq S
  /\ AllocMayFail = FALSE => S \subseteq H \cup C \cup O

OwnInv ==
  conn = "up" =>
    /\ Distinct(requests, "CLOSE") /\ Distinct(answers, "OPEN") /\ DistinctLocks
    /\ Shared(LockHandles, Handles(requests, "CLOSE"), Handles(answers, "OPEN"), OpenHandles)

LEMMA AppendHandles ==
  ASSUME NEW T, NEW s \in Seq(T), NEW x \in T, NEW k
  PROVE  /\ x.kind = k /\ x.handle \in HandleIds =>
              /\ Handles(Append(s, x), k) = Handles(s, k) \cup {x.handle}
              /\ Distinct(s, k) /\ x.handle \notin Handles(s, k) => Distinct(Append(s, x), k)
         /\ ~(x.kind = k /\ x.handle \in HandleIds) =>
              /\ Handles(Append(s, x), k) = Handles(s, k)
              /\ Distinct(s, k) => Distinct(Append(s, x), k)
<1> DEFINE t == Append(s, x)
           n == Len(s) + 1
<1>1. /\ DOMAIN s = 1 .. Len(s) /\ Len(s) \in Nat /\ DOMAIN t = 1 .. Len(s) + 1 /\ t[n] = x
      /\ \A i \in DOMAIN s : i # n /\ t[i] = s[i]
  BY AppendFacts
<1>2. DOMAIN t = DOMAIN s \cup {n}
  BY <1>1
<1> HIDE DEF t, n
<1>3. CASE x.kind = k /\ x.handle \in HandleIds
  <2>1. Sel(t, k) = Sel(s, k) \cup {n} /\ \A i \in Sel(s, k) : i # n /\ t[i] = s[i]
    BY <1>1, <1>2, <1>3 DEF Sel
  <2>2. Handles(t, k) = Handles(s, k) \cup {x.handle}
    BY <1>1, <2>1 DEF Handles
  <2>3. Distinct(s, k) /\ x.handle \notin Handles(s, k) => Distinct(t, k)
    BY <1>1, <2>1 DEF Handles, Distinct
  <2> QED
    BY <1>3, <2>2, <2>3 DEF t
<1>4. CASE ~(x.kind = k /\ x.handle \in HandleIds)
  <2>1. Sel(t, k) = Sel(s, k) /\ \A i \in Sel(s, k) : t[i] = s[i]
    BY <1>1, <1>2, <1>4 DEF Sel
  <2>2. Handles(t, k) = Handles(s, k)
    BY <2>1 DEF Handles
  <2>3. Distinct(s, k) => Distinct(t, k)
    BY <2>1 DEF Distinct
  <2> QED
    BY <1>4, <2>2, <2>3 DEF t
<1> QED
  BY <1>3, <1>4

LEMMA TailHandles ==
  ASSUME NEW T, NEW s \in Seq(T), s # <<>>, NEW k, Distinct(s, k), NEW x, x = Head(s)
  PROVE  /\ Distinct(Tail(s), k)
         /\ x.kind = k /\ x.handle \in HandleIds =>
              x.handle \in Handles(s, k) /\ Handles(Tail(s), k) = Handles(s, k) \ {x.handle}
         /\ ~(x.kind = k /\ x.handle \in HandleIds) => Handles(Tail(s), k) = Handles(s, k)
<1> DEFINE t == Tail(s)
<1>1. /\ 1 \in DOMAIN s /\ x = s[1]
      /\ \A i \in DOMAIN t : i \in Nat /\ i + 1 \in DOMAIN s /\ i + 1 # 1 /\ t[i] = s[i + 1]
      /\ \A i \in DOMAIN s : i # 1 => i - 1 \in DOMAIN t /\ t[i - 1] = s[i]
  BY TailFacts
<1> HIDE DEF t
<1>2. /\ \A i \in Sel(t, k) : i \in Nat /\ i + 1 \in Sel(s, k) /\ i + 1 # 1 /\ t[i] = s[i + 1]
      /\ \A i \in Sel(s, k) : i # 1 => i - 1 \in Sel(t, k) /\ t[i - 1] = s[i]
  BY <1>1 DEF Sel
<1>3. Distinct(t, k)
  <2> SUFFICES ASSUME NEW i \in Sel(t, k), NEW j \in Sel(t, k), t[i].handle = t[j].handle
               PROVE  i = j
    BY DEF Distinct
  <2>1. i + 1 = j + 1
    BY <1>2 DEF Distinct
  <2> QED
    BY <1>2, <2>1
<1>4. ASSUME NEW h \in Handles(t, k)
      PROVE  h \in Handles(s, k) /\ (1 \in Sel(s, k) => h # x.handle)
  <2>1. PICK i \in Sel(t, k) : h = t[i].handle
    BY DEF Handles
  <2>2. i + 1 \in Sel(s, k) /\ i + 1 # 1 /\ h = s[i + 1].handle
    BY <1>2, <2>1
  <2> QED
    BY <1>1, <2>2 DEF Handles, Distinct
<1>5. ASSUME NEW h \in Handles(s, k), 1 \in Sel(s, k) => h # x.handle
      PROVE  h \in Handles(t, k)
  <2>1. PICK i \in Sel(s, k) : h = s[i].handle
    BY DEF Handles
  <2>2. i # 1
    BY <1>1, <1>5, <2>1
  <2> QED
    BY <1>2, <2>1, <2>2 DEF Handles
<1>6. 1 \in Sel(s, k) <=> x.kind = k /\ x.handle \in HandleIds
  BY <1>1 DEF Sel
<1>7. CASE 1 \in Sel(s, k)
  <2>1. x.handle \in Handles(s, k)
    BY <1>1, <1>7 DEF Handles
  <2>2. Handles(t, k) = Handles(s, k) \ {x.handle}
    BY <1>4, <1>5, <1>7
  <2> QED
    BY <1>3, <1>6, <1>7, <2>1, <2>2 DEF t
<1>8. CASE 1 \notin Sel(s, k)
  <2>1. Handles(t, k) = Handles(s, k)
    BY <1>4, <1>5, <1>8
  <2> QED
    BY <1>3, <1>6, <1>8, <2>1 DEF t
<1> QED
  BY <1>7, <1>8

(* What a step does to the locks' handles. *)
LEMMA TouchedHandles ==
  ASSUME Touched
  PROVE  LockHandles' = LockHandles /\ (DistinctLocks => DistinctLocks')
<1>1. /\ \A l \in LockIds : (l \in Holding <=> l \in Holding')
      /\ \A l \in Holding : lock'[l].handle_id = lock[l].handle_id
  BY DEF Touched, SameHandle, Holding
<1>2. Holding' = Holding
  BY <1>1 DEF Holding
<1> QED
  BY <1>1, <1>2 DEF LockHandles, DistinctLocks

LEMMA CreatedHandles ==
  ASSUME FsType, NEW p, NEW r \in LockType, Created(p, r)
  PROVE  /\ r.handle_id \in HandleIds =>
              /\ LockHandles' = LockHandles \cup {r.handle_id}
              /\ DistinctLocks /\ r.handle_id \notin LockHandles => DistinctLocks'
         /\ r.handle_id \notin HandleIds =>
              LockHandles' = LockHandles /\ (DistinctLocks => DistinctLocks')
<1>1. PICK n \in LockIds : n = NewLockId /\ lock[n] = NoLock
  BY DEF Created, Free
<1>2. \A l \in LockIds : lock'[l] = IF l = n THEN r ELSE lock[l]
  BY <1>1 DEF Created, FsType
<1>3. r # NoLock
  BY LockTypes
<1>4. n \notin Holding /\ \A l \in Holding : lock'[l] = lock[l]
  BY <1>1, <1>2 DEF Holding
<1>5. CASE r.handle_id \in HandleIds
  <2>1. Holding' = Holding \cup {n}
    BY <1>1, <1>2, <1>3, <1>5 DEF Holding
  <2>2. lock'[n] = r
    BY <1>2
  <2>3. LockHandles' = LockHandles \cup {r.handle_id}
    BY <1>4, <2>1, <2>2 DEF LockHandles
  <2>4. DistinctLocks /\ r.handle_id \notin LockHandles => DistinctLocks'
    BY <1>4, <2>1, <2>2 DEF LockHandles, DistinctLocks
  <2> QED
    BY <1>5, <2>3, <2>4
<1>6. CASE r.handle_id \notin HandleIds
  <2>1. Holding' = Holding
    BY <1>1, <1>2, <1>6 DEF Holding
  <2> QED
    BY <1>4, <1>6, <2>1 DEF LockHandles, DistinctLocks
<1> QED
  BY <1>5, <1>6

LEMMA FreedHandles ==
  ASSUME FsType, NEW p, NEW k \in LockIds, Freed(p, k), DistinctLocks
  PROVE  /\ DistinctLocks'
         /\ lock[k].handle_id \in HandleIds =>
              /\ lock[k].handle_id \in LockHandles
              /\ LockHandles' = LockHandles \ {lock[k].handle_id}
         /\ lock[k].handle_id \notin HandleIds => LockHandles' = LockHandles
<1>1. /\ lock[k] # NoLock
      /\ \A l \in LockIds : lock'[l] = IF l = k THEN NoLock ELSE lock[l]
  BY DEF Freed, FsType
<1>2. Holding' = Holding \ {k} /\ \A l \in Holding' : lock'[l] = lock[l]
  BY <1>1 DEF Holding
<1>3. k \in Holding <=> lock[k].handle_id \in HandleIds
  BY <1>1 DEF Holding
<1>4. DistinctLocks'
  BY <1>2 DEF DistinctLocks
<1>5. CASE k \in Holding
  <2>1. lock[k].handle_id \in LockHandles
    BY <1>5 DEF LockHandles
  <2>2. LockHandles' = LockHandles \ {lock[k].handle_id}
    BY <1>2, <1>5 DEF LockHandles, DistinctLocks
  <2> QED
    BY <1>3, <1>4, <1>5, <2>1, <2>2
<1>6. CASE k \notin Holding
  <2>1. LockHandles' = LockHandles
    BY <1>2, <1>6 DEF LockHandles
  <2> QED
    BY <1>3, <1>4, <1>6, <2>1
<1> QED
  BY <1>5, <1>6

-----------------------------------------------------------------------------
(* Every step keeps it so.                                                  *)

LEMMA CloseMessage ==
  ASSUME NEW h \in Int, seqno \in Nat
  PROVE  \E msg \in RequestType :
           msg = CloseRequest(seqno, h) /\ msg.kind = "CLOSE" /\ msg.handle = h
<1>1. CloseRequest(seqno, h) \in RequestType
  BY RequestTypes
<1> QED
  BY <1>1 DEF CloseRequest

LEMMA SharedMoves ==
  ASSUME NEW H, NEW C, NEW O, NEW S, Shared(H, C, O, S)
  PROVE  /\ \A h \in H : Shared(H \ {h}, C \cup {h}, O, S) /\ h \notin C
         /\ \A h \in C : Shared(H, C \ {h}, O, S \ {h})
         /\ \A h \in O : Shared(H \cup {h}, C, O \ {h}, S) /\ h \notin H
         /\ \A h \in O : Shared(H, C \cup {h}, O \ {h}, S) /\ h \notin C
         /\ \A h \in O : AllocMayFail # FALSE => Shared(H, C, O \ {h}, S)
         /\ \A h : h \notin S => Shared(H, C, O \cup {h}, S \cup {h}) /\ h \notin O
BY DEF Shared

LEMMA OwnPacket ==
  ASSUME SessionInv, OwnInv, "COPY_DIR" \notin Ops, NEW p \in Procs, Room(p), PacketStep(p),
         UNCHANGED <<answers, slot>>
  PROVE  OwnInv'
<1> DEFINE H == LockHandles
           C == Handles(requests, "CLOSE")
           O == Handles(answers, "OPEN")
           S == OpenHandles
<1> SUFFICES ASSUME conn' = "up"
             PROVE  /\ Distinct(requests', "CLOSE") /\ Distinct(answers', "OPEN") /\ DistinctLocks'
                    /\ Shared(H', C', O', S')
  BY DEF OwnInv
<1>0. FsType /\ requests \in Seq(RequestType) /\ seqno \in Nat
  BY DEF SessionInv, TypeInv, ChannelType, FsType
<1>1. O' = O /\ S' = S /\ Distinct(answers', "OPEN") = Distinct(answers, "OPEN")
  BY DEF Handles, OpenHandles
<1> DEFINE Kept == /\ Distinct(requests, "CLOSE") /\ Distinct(answers, "OPEN") /\ DistinctLocks
                   /\ Shared(H, C, O, S)
<1>2. conn = "up" => Kept
  BY DEF OwnInv
<1> HIDE DEF H, C, O, S
<1>3. CASE requests' = requests /\ conn' = conn /\ H' = H /\ (DistinctLocks => DistinctLocks')
  <2>1. C' = C
    BY <1>3 DEF C, Handles
  <2> QED
    BY <1>1, <1>2, <1>3, <2>1
<1>4. CASE NothingSent /\ Touched
  BY <1>3, <1>4, TouchedHandles DEF NothingSent, H
<1>5. ASSUME NEW r \in LockType, Created(p, r), r.handle_id \notin HandleIds, NothingSent
      PROVE  Kept'
  BY <1>0, <1>3, <1>5, CreatedHandles DEF NothingSent, H
<1>6. ASSUME NEW l \in LockIds, Freed(p, l), lock[l].handle_id \notin HandleIds, NothingSent
      PROVE  Kept'
  <2>1. DistinctLocks
    BY <1>2, <1>6 DEF NothingSent
  <2> QED
    BY <1>0, <1>3, <1>6, <2>1, FreedHandles DEF NothingSent, H
<1>7. ASSUME NEW l \in LockIds, Freed(p, l),
             transmit_message(CloseRequest(seqno, lock[l].handle_id))
      PROVE  Kept'
  <2>1. PICK h \in Int : h = lock[l].handle_id
    BY <1>0, <1>7, LockTypes DEF Freed, LockType
  <2>2. PICK msg \in RequestType :
          msg = CloseRequest(seqno, h) /\ msg.kind = "CLOSE" /\ msg.handle = h
    BY <1>0, <2>1, CloseMessage
  <2>3. conn = "up" /\ requests' = Append(requests, msg)
    BY <1>0, <1>7, <2>1, <2>2, TransmitFacts
  <2>4. Kept
    BY <1>2, <2>3
  <2>5. CASE h \in HandleIds
    <3>1. DistinctLocks' /\ h \in H /\ H' = H \ {h}
      BY <1>0, <1>7, <2>1, <2>4, <2>5, FreedHandles DEF H
    <3>2. h \notin C /\ Shared(H \ {h}, C \cup {h}, O, S)
      BY <2>4, <3>1 DEF Shared
    <3>3. /\ Handles(Append(requests, msg), "CLOSE") = C \cup {h}
          /\ Distinct(Append(requests, msg), "CLOSE")
      BY <1>0, <2>2, <2>4, <2>5, <3>2, AppendHandles DEF C
    <3>4. C' = C \cup {h} /\ Distinct(requests', "CLOSE")
      BY <2>3, <3>3 DEF C
    <3> QED
      BY <1>1, <2>4, <3>1, <3>2, <3>4
  <2>6. CASE h \notin HandleIds
    <3>1. DistinctLocks' /\ H' = H
      BY <1>0, <1>7, <2>1, <2>4, <2>6, FreedHandles DEF H
    <3>2. /\ Handles(Append(requests, msg), "CLOSE") = C
          /\ Distinct(Append(requests, msg), "CLOSE")
      BY <1>0, <2>2, <2>4, <2>6, AppendHandles DEF C
    <3>3. C' = C /\ Distinct(requests', "CLOSE")
      BY <2>3, <3>2 DEF C
    <3> QED
      BY <1>1, <2>4, <3>1, <3>3
  <2> QED
    BY <2>5, <2>6
<1>8. CASE HoldStep(p)
  <2>1. PICK op \in OpType, msg \in RequestType : transmit_message(msg) /\ Asks(msg, op)'
    BY <1>8 DEF HoldStep
  <2>2. msg.kind # "CLOSE"
    BY <2>1 DEF Asks, OpType
  <2>3. conn = "up" /\ requests' = Append(requests, msg)
    BY <1>0, <2>1, TransmitFacts
  <2>4. Kept
    BY <1>2, <2>3
  <2>5. H' = H /\ DistinctLocks'
    BY <1>8, <2>4, TouchedHandles DEF HoldStep, H
  <2>6. /\ Handles(Append(requests, msg), "CLOSE") = C
        /\ Distinct(Append(requests, msg), "CLOSE")
    BY <1>0, <2>2, <2>4, AppendHandles DEF C
  <2>7. C' = C /\ Distinct(requests', "CLOSE")
    BY <2>3, <2>6 DEF C
  <2> QED
    BY <1>1, <2>4, <2>5, <2>7
<1>9. CASE ReplyStep(p)
  BY <1>4, <1>5, <1>6, <1>7, <1>9 DEF ReplyStep
<1>10. CASE LostStep(p)
  <2>1. Touched
    BY <1>0, <1>10, TouchedRefl DEF LostStep
  <2> QED
    BY <1>3, <1>10, <2>1, TouchedHandles DEF LostStep, H
<1> QED
  BY <1>8, <1>9, <1>10 DEF PacketStep

LEMMA OwnNetwork ==
  ASSUME SessionInv, OwnInv, rl_amigafs_process_network_message, UNCHANGED slot
  PROVE  OwnInv'
<1> DEFINE H == LockHandles
           C == Handles(requests, "CLOSE")
           O == Handles(answers, "OPEN")
           S == OpenHandles
<1> SUFFICES ASSUME conn' = "up"
             PROVE  /\ Distinct(requests', "CLOSE") /\ Distinct(answers', "OPEN") /\ DistinctLocks'
                    /\ Shared(H', C', O', S')
  BY DEF OwnInv
<1>0. FsType /\ requests \in Seq(RequestType) /\ answers \in Seq(AnswerType) /\ seqno \in Nat
  BY DEF SessionInv, TypeInv, ChannelType, FsType
<1>1. PICK op : op = find_pending_op
  OBVIOUS
<1>2. PICK a : a = Received
  OBVIOUS
<1>3. /\ conn = "up" /\ answers # <<>> /\ answers' = Tail(answers) /\ a \in AnswerType
      /\ Waiting(op) /\ Found /\ (CompleteStep(op) \/ RequeueStep(op))
  BY <1>1, <1>2, NetworkSteps
<1>4. /\ Distinct(requests, "CLOSE") /\ Distinct(answers, "OPEN") /\ DistinctLocks
      /\ Shared(H, C, O, S)
  BY <1>3 DEF OwnInv
<1>5. a.kind = "OPEN" => a.handle \in HandleIds
  BY <1>3 DEF AnswerType
<1>6. /\ Distinct(answers', "OPEN")
      /\ a.kind = "OPEN" => a.handle \in O /\ O' = O \ {a.handle}
      /\ a.kind # "OPEN" => O' = O
  <2>1. /\ Distinct(Tail(answers), "OPEN")
        /\ a.kind = "OPEN" => a.handle \in O /\ Handles(Tail(answers), "OPEN") = O \ {a.handle}
        /\ a.kind # "OPEN" => Handles(Tail(answers), "OPEN") = O
    BY <1>0, <1>2, <1>3, <1>4, <1>5, TailHandles DEF Received
  <2> QED
    BY <1>3, <2>1
<1>7. S' = S
  BY DEF OpenHandles
<1> HIDE DEF H, C, O, S
<1>8. CASE Touched /\ NothingSent /\ (a.kind = "OPEN" => AllocMayFail)
  <2>1. C' = C /\ Distinct(requests', "CLOSE")
    BY <1>4, <1>8 DEF C, NothingSent
  <2>2. H' = H /\ DistinctLocks'
    BY <1>4, <1>8, TouchedHandles DEF H
  <2>3. Shared(H, C, O', S)
    <3>1. CASE a.kind # "OPEN"
      BY <1>4, <1>6, <3>1
    <3>2. CASE a.kind = "OPEN"
      <4>1. AllocMayFail # FALSE
        BY <1>8, <3>2, Zenon
      <4>2. PICK h \in O : h = a.handle
        BY <1>6, <3>2
      <4>3. Shared(H, C, O \ {h}, S)
        BY <1>4, <4>1, SharedMoves
      <4> QED
        BY <1>6, <3>2, <4>2, <4>3
    <3> QED
      BY <3>1, <3>2
  <2> QED
    BY <1>6, <1>7, <2>1, <2>2, <2>3
<1>9. ASSUME NEW r \in LockType, Created(op.packet, r), r.handle_id = a.handle, a.kind = "OPEN",
             NothingSent
      PROVE  /\ Distinct(requests', "CLOSE") /\ Distinct(answers', "OPEN") /\ DistinctLocks'
             /\ Shared(H', C', O', S')
  <2>1. C' = C /\ Distinct(requests', "CLOSE")
    BY <1>4, <1>9 DEF C, NothingSent
  <2>2. a.handle \notin H /\ Shared(H \cup {a.handle}, C, O \ {a.handle}, S)
    <3>1. PICK h \in O : h = a.handle
      BY <1>6, <1>9
    <3>2. h \notin H /\ Shared(H \cup {h}, C, O \ {h}, S)
      BY <1>4, SharedMoves
    <3> QED
      BY <3>1, <3>2
  <2>3. H' = H \cup {a.handle} /\ DistinctLocks'
    BY <1>0, <1>4, <1>5, <1>9, <2>2, CreatedHandles DEF H
  <2> QED
    BY <1>6, <1>7, <1>9, <2>1, <2>2, <2>3
<1>10. CASE lock' = lock /\ a.kind = "OPEN" /\ transmit_message(CloseRequest(seqno, a.handle))
  <2>1. a.handle \in Int
    BY <1>5, <1>10 DEF HandleIds
  <2>2. PICK msg \in RequestType :
          msg = CloseRequest(seqno, a.handle) /\ msg.kind = "CLOSE" /\ msg.handle = a.handle
    BY <1>0, <2>1, CloseMessage
  <2>3. requests' = Append(requests, msg)
    BY <1>0, <1>10, <2>2, TransmitFacts
  <2>4. a.handle \notin C /\ Shared(H, C \cup {a.handle}, O \ {a.handle}, S)
    <3>1. PICK h \in O : h = a.handle
      BY <1>6, <1>10
    <3>2. h \notin C /\ Shared(H, C \cup {h}, O \ {h}, S)
      BY <1>4 DEF Shared
    <3> QED
      BY <3>1, <3>2
  <2>5. /\ Handles(Append(requests, msg), "CLOSE") = C \cup {a.handle}
        /\ Distinct(Append(requests, msg), "CLOSE")
    BY <1>0, <1>4, <1>5, <1>10, <2>2, <2>4, AppendHandles DEF C
  <2>6. C' = C \cup {a.handle} /\ Distinct(requests', "CLOSE")
    BY <2>3, <2>5 DEF C
  <2>7. H' = H /\ DistinctLocks'
    BY <1>0, <1>4, <1>10, TouchedRefl, TouchedHandles DEF H
  <2> QED
    BY <1>6, <1>7, <1>10, <2>4, <2>6, <2>7
<1>11. CASE CompleteStep(op)
  BY <1>2, <1>8, <1>9, <1>10, <1>11 DEF CompleteStep
<1>12. CASE RequeueStep(op)
  <2>1. PICK new \in OpType, msg \in RequestType : transmit_message(msg) /\ Asks(msg, new)'
    BY <1>12 DEF RequeueStep
  <2>2. msg.kind # "CLOSE"
    BY <2>1 DEF Asks, OpType
  <2>3. requests' = Append(requests, msg)
    BY <1>0, <2>1, TransmitFacts
  <2>4. H' = H /\ DistinctLocks'
    BY <1>4, <1>12, TouchedHandles DEF RequeueStep, H
  <2>5. /\ Handles(Append(requests, msg), "CLOSE") = C
        /\ Distinct(Append(requests, msg), "CLOSE")
    BY <1>0, <1>4, <2>2, AppendHandles DEF C
  <2>6. C' = C /\ Distinct(requests', "CLOSE")
    BY <2>3, <2>5 DEF C
  <2>7. a.kind # "OPEN"
    BY <1>2, <1>12 DEF RequeueStep
  <2> QED
    BY <1>4, <1>6, <1>7, <2>4, <2>6, <2>7
<1> QED
  BY <1>3, <1>11, <1>12

LEMMA OwnServer ==
  ASSUME SessionInv, OwnInv, ServerStep
  PROVE  OwnInv'
<1> DEFINE H == LockHandles
           C == Handles(requests, "CLOSE")
           O == Handles(answers, "OPEN")
           S == OpenHandles
<1>0. /\ TypeInv /\ requests \in Seq(RequestType) /\ answers \in Seq(AnswerType)
      /\ conn = "up" /\ UNCHANGED <<lock, conn>> /\ rl_file_serve
  BY DEF SessionInv, TypeInv, ChannelType, ServerStep, fsVars
<1>1. /\ Distinct(requests, "CLOSE") /\ Distinct(answers, "OPEN") /\ DistinctLocks
      /\ Shared(H, C, O, S)
  BY <1>0 DEF OwnInv
<1>2. PICK m : m = Request
  OBVIOUS
<1>3. /\ m \in RequestType /\ requests # <<>> /\ requests' = Tail(requests)
      /\ Opened(m) \/ Closed(m) \/ Served(m)
  BY <1>0, <1>2, ServerSlots
<1>4. H' = H /\ DistinctLocks'
  BY <1>0, <1>1 DEF LockHandles, Holding, DistinctLocks
<1>5. /\ Distinct(requests', "CLOSE")
      /\ m.kind = "CLOSE" /\ m.handle \in HandleIds => m.handle \in C /\ C' = C \ {m.handle}
      /\ ~(m.kind = "CLOSE" /\ m.handle \in HandleIds) => C' = C
  <2>1. /\ Distinct(Tail(requests), "CLOSE")
        /\ m.kind = "CLOSE" /\ m.handle \in HandleIds =>
             m.handle \in C /\ Handles(Tail(requests), "CLOSE") = C \ {m.handle}
        /\ ~(m.kind = "CLOSE" /\ m.handle \in HandleIds) => Handles(Tail(requests), "CLOSE") = C
    BY <1>0, <1>1, <1>2, <1>3, TailHandles DEF Request
  <2> QED
    BY <1>3, <2>1
<1> HIDE DEF H, C, O, S
<1>6. CASE Opened(m)
  <2>1. PICK h \in HandleIds, a \in AnswerType :
       /\ slot[h].handle = 0 /\ slot'[h].handle # 0
       /\ \A k \in HandleIds : k # h => slot'[k] = slot[k]
       /\ a.kind = "OPEN" /\ a.handle = h /\ answers' = Append(answers, a)
    BY <1>6 DEF Opened
  <2>2. h \notin S /\ S' = S \cup {h}
    BY <2>1 DEF S, OpenHandles
  <2>3. h \notin O /\ Shared(H, C, O \cup {h}, S \cup {h})
    BY <1>1, <2>2 DEF Shared
  <2>4. Handles(Append(answers, a), "OPEN") = O \cup {h} /\ Distinct(Append(answers, a), "OPEN")
    BY <1>0, <1>1, <2>1, <2>3, AppendHandles DEF O
  <2>5. O' = O \cup {h} /\ Distinct(answers', "OPEN")
    BY <2>1, <2>4 DEF O
  <2>6. C' = C
    BY <1>5, <1>6 DEF Opened
  <2>7. Shared(H', C', O', S')
    BY <1>4, <2>2, <2>3, <2>5, <2>6
  <2> QED
    BY <1>4, <1>5, <2>5, <2>7 DEF OwnInv, H, C, O, S
<1>7. CASE Closed(m)
  <2>1. /\ m.kind = "CLOSE" /\ answers' = answers
        /\ \A k \in HandleIds : IF k = m.handle THEN slot'[k].handle = 0 ELSE slot'[k] = slot[k]
    BY <1>7 DEF Closed
  <2>2. O' = O /\ Distinct(answers', "OPEN")
    BY <1>1, <2>1 DEF O
  <2>3. CASE m.handle \in HandleIds
    <3>1. S' = S \ {m.handle}
      BY <2>1, <2>3 DEF S, OpenHandles
    <3>2. Shared(H, C \ {m.handle}, O, S \ {m.handle})
      BY <1>1, <1>5, <2>1, <2>3, SharedMoves
    <3>3. Shared(H', C', O', S')
      BY <1>4, <1>5, <2>1, <2>2, <2>3, <3>1, <3>2
    <3> QED
      BY <1>4, <1>5, <2>2, <3>3 DEF OwnInv, H, C, O, S
  <2>4. CASE m.handle \notin HandleIds
    <3>1. S' = S
      BY <2>1, <2>4 DEF S, OpenHandles
    <3>2. Shared(H', C', O', S')
      BY <1>1, <1>4, <1>5, <2>2, <2>4, <3>1
    <3> QED
      BY <1>4, <1>5, <2>2, <3>2 DEF OwnInv, H, C, O, S
  <2> QED
    BY <2>3, <2>4
<1>8. CASE Served(m)
  <2>1. PICK a \in AnswerType : a.kind # "OPEN" /\ answers' = Append(answers, a)
    BY <1>8 DEF Served
  <2>2. Handles(Append(answers, a), "OPEN") = O /\ Distinct(Append(answers, a), "OPEN")
    BY <1>0, <1>1, <2>1, AppendHandles DEF O
  <2>3. O' = O /\ Distinct(answers', "OPEN")
    BY <2>1, <2>2 DEF O
  <2>4. S' = S
    BY <1>8 DEF Served, SameSlots, S, OpenHandles
  <2>5. C' = C
    BY <1>5, <1>8 DEF Served
  <2>6. Shared(H', C', O', S')
    BY <1>1, <1>4, <2>3, <2>4, <2>5
  <2> QED
    BY <1>4, <1>5, <2>3, <2>6 DEF OwnInv, H, C, O, S
<1> QED
  BY <1>3, <1>6, <1>7, <1>8

LEMMA OwnUnchanged ==
  ASSUME OwnInv, UNCHANGED <<requests, answers, lock, slot>>, conn' = "up" => conn = "up"
  PROVE  OwnInv'
BY DEF OwnInv, DistinctLocks, LockHandles, Holding, OpenHandles

LEMMA OwnStep ==
  ASSUME SessionInv, OwnInv, [Next]_vars, "COPY_DIR" \notin Ops
  PROVE  OwnInv'
<1>1. ASSUME NEW p \in Procs, process_fs_packet(p), UNCHANGED serverVars PROVE OwnInv'
  <2>1. Room(p) /\ PacketStep(p) /\ answers' = answers
    BY <1>1, PacketSteps DEF SessionInv
  <2>2. slot' = slot
    BY <1>1 DEF serverVars
  <2> QED
    BY <2>1, <2>2, OwnPacket
<1>2. CASE NetworkStep
  <2>1. rl_amigafs_process_network_message /\ slot' = slot
    BY <1>2 DEF NetworkStep, serverVars
  <2> QED
    BY <2>1, OwnNetwork, Zenon
<1>3. CASE ServerStep
  BY <1>3, OwnServer
<1>4. CASE spawn_failure
  <2>1. conn = "up" /\ UNCHANGED <<answers, lock, slot, conn>> /\ requests \in Seq(RequestType)
    BY <1>4 DEF spawn_failure, fsVars, serverVars, SessionInv, TypeInv, ChannelType
  <2>2. PICK msg \in RequestType : msg = ErrorAnswer(0, "SPAWN_FAILURE") /\ msg.kind # "CLOSE"
    <3>1. /\ ErrorAnswer(0, "SPAWN_FAILURE") \in RequestType
          /\ ErrorAnswer(0, "SPAWN_FAILURE").kind = "ERROR"
      BY DEF ErrorAnswer, RequestType, NetErrors
    <3> QED
      BY <3>1
  <2>3. requests' = Append(requests, msg)
    BY <1>4, <2>2 DEF spawn_failure
  <2>4. /\ Distinct(requests, "CLOSE") /\ Distinct(answers, "OPEN") /\ DistinctLocks
        /\ Shared(LockHandles, Handles(requests, "CLOSE"), Handles(answers, "OPEN"), OpenHandles)
    BY <2>1 DEF OwnInv
  <2>5. /\ Handles(Append(requests, msg), "CLOSE") = Handles(requests, "CLOSE")
        /\ Distinct(Append(requests, msg), "CLOSE")
    BY <2>1, <2>2, <2>4, AppendHandles
  <2>6. LockHandles' = LockHandles /\ DistinctLocks' /\ OpenHandles' = OpenHandles
    BY <2>1, <2>4 DEF LockHandles, Holding, DistinctLocks, OpenHandles
  <2>7. Handles(requests', "CLOSE") = Handles(requests, "CLOSE") /\ Distinct(requests', "CLOSE")
    BY <2>3, <2>5
  <2>8. Handles(answers', "OPEN") = Handles(answers, "OPEN") /\ Distinct(answers', "OPEN")
    BY <2>1, <2>4
  <2> QED
    BY <2>4, <2>6, <2>7, <2>8 DEF OwnInv
<1>5. CASE connection_lost \/ rl_amigafs_destroy
  BY <1>5 DEF connection_lost, rl_amigafs_destroy, OwnInv
<1>6. CASE UNCHANGED vars
  BY <1>6, OwnUnchanged DEF vars, channels, fsVars, serverVars
<1> QED
  BY <1>1, <1>2, <1>3, <1>4, <1>5, <1>6 DEF Next

LEMMA OwnInit ==
  ASSUME Init
  PROVE  OwnInv
<1>1. DOMAIN requests = {} /\ DOMAIN answers = {} /\ Holding = {}
  BY DEF Init, FsInit, Holding
<1>2. OpenHandles = {}
  BY DEF Init, ServerInit, FreeSlot, OpenHandles
<1>3. LockHandles = {} /\ Handles(requests, "CLOSE") = {} /\ Handles(answers, "OPEN") = {}
  BY <1>1 DEF LockHandles, Handles, Sel
<1>4. Distinct(requests, "CLOSE") /\ Distinct(answers, "OPEN") /\ DistinctLocks
  BY <1>1 DEF Distinct, Sel, DistinctLocks
<1> QED
  BY <1>2, <1>3, <1>4 DEF OwnInv, Shared

(* A handle's owners, counted. *)
LEMMA OwnersOf ==
  ASSUME OwnInv, conn = "up", NEW h \in HandleIds
  PROVE  /\ Owners(h) \in {0, 1}
         /\ slot[h].handle = 0 => Owners(h) = 0
         /\ AllocMayFail = FALSE /\ slot[h].handle # 0 => Owners(h) = 1
<1> DEFINE L == {l \in LockIds : lock[l] # NoLock /\ lock[l].handle_id = h}
           A == {i \in DOMAIN answers : answers[i].kind = "OPEN" /\ answers[i].handle = h}
           R == {i \in DOMAIN requests : requests[i].kind = "CLOSE" /\ requests[i].handle = h}
<1>1. /\ Distinct(requests, "CLOSE") /\ Distinct(answers, "OPEN") /\ DistinctLocks
      /\ Shared(LockHandles, Handles(requests, "CLOSE"), Handles(answers, "OPEN"), OpenHandles)
  BY DEF OwnInv
<1>2. /\ L = {l \in Holding : lock[l].handle_id = h}
      /\ A = {i \in Sel(answers, "OPEN") : answers[i].handle = h}
      /\ R = {i \in Sel(requests, "CLOSE") : requests[i].handle = h}
  BY DEF Holding, Sel
<1>3. Owners(h) = Cardinality(L) + Cardinality(A) + Cardinality(R)
  BY DEF Owners
<1> HIDE DEF L, A, R
<1>4. /\ h \in LockHandles => \E l : L = {l}
      /\ h \notin LockHandles => L = {}
  BY <1>1, <1>2 DEF LockHandles, DistinctLocks
<1>5. /\ h \in Handles(answers, "OPEN") => \E i : A = {i}
      /\ h \notin Handles(answers, "OPEN") => A = {}
  BY <1>1, <1>2 DEF Handles, Distinct
<1>6. /\ h \in Handles(requests, "CLOSE") => \E i : R = {i}
      /\ h \notin Handles(requests, "CLOSE") => R = {}
  <2>1. ASSUME h \in Handles(requests, "CLOSE") PROVE \E i : R = {i}
    <3>1. PICK i \in Sel(requests, "CLOSE") : h = requests[i].handle
      BY <2>1 DEF Handles
    <3>2. R = {i}
      BY <1>1, <1>2, <3>1 DEF Distinct
    <3> QED
      BY <3>2
  <2>2. ASSUME h \notin Handles(requests, "CLOSE") PROVE R = {}
    BY <1>2, <2>2 DEF Handles
  <2> QED
    BY <2>1, <2>2
<1>7. \A x : Cardinality({x}) = 1
  BY FS_Singleton
<1>8. /\ Cardinality(L) = IF h \in LockHandles THEN 1 ELSE 0
      /\ Cardinality(A) = IF h \in Handles(answers, "OPEN") THEN 1 ELSE 0
      /\ Cardinality(R) = IF h \in Handles(requests, "CLOSE") THEN 1 ELSE 0
  BY <1>4, <1>5, <1>6, <1>7, FS_EmptySet
<1>9. slot[h].handle # 0 <=> h \in OpenHandles
  BY DEF OpenHandles
<1> QED
  BY <1>1, <1>3, <1>8, <1>9 DEF Shared

(* SlotOwnership: while the connection holds, every open handle of the      *)
(* controller belongs to exactly one lock, or to the answer that announces  *)
(* it, or to the request that closes it, and no free one belongs to any:    *)
(* handles neither leak nor get shared.  DupLock (action_copy_dir) shares   *)
(* them, and a failed allocation in complete_locate_object leaks one; both  *)
(* are excluded.                                                            *)
THEOREM HandlesHaveOneOwner ==
  ASSUME "COPY_DIR" \notin Ops, AllocMayFail = FALSE
  PROVE  Spec => []SlotOwnership
<1>1. Init => OwnInv
  BY OwnInit
<1>2. SessionInv /\ OwnInv /\ [Next]_vars => OwnInv'
  <2> SUFFICES ASSUME SessionInv, OwnInv, [Next]_vars PROVE OwnInv'
    OBVIOUS
  <2> QED
    BY OwnStep, Zenon
<1>3. OwnInv => SlotOwnership
  <2> SUFFICES ASSUME OwnInv, conn = "up", NEW h \in HandleIds
               PROVE  Owners(h) = IF slot[h].handle = 0 THEN 0 ELSE 1
    BY DEF SlotOwnership
  <2>1. /\ slot[h].handle = 0 => Owners(h) = 0
        /\ slot[h].handle # 0 => Owners(h) = 1
    BY OwnersOf, Zenon
  <2> QED
    BY <2>1
<1> QED
  BY <1>1, <1>2, <1>3, SessionInvariant, PTL DEF Spec

-----------------------------------------------------------------------------
(* What a handle is open on.                                                *)

Named(l) ==
  LET s == slot[lock[l].handle_id]
  IN  s.path = lock[l].path /\ s.type = lock[l].type

(* The operation with the number seq, if there is one, asked for path. *)
AskedFor(seq, path) ==
  \A k \in DOMAIN pending :
    pending[k].request_seqno = seq => path = PathOf(packet[pending[k].packet])

NameInv ==
  conn = "up" =>
    /\ \A l \in Holding : Named(l)
    /\ \A i \in DOMAIN requests : requests[i].kind = "OPEN" =>
         requests[i].seq < seqno /\ AskedFor(requests[i].seq, requests[i].path)
    /\ \A i \in DOMAIN answers : answers[i].kind = "OPEN" =>
         /\ answers[i].seq < seqno
         /\ slot[answers[i].handle].type = answers[i].type
         /\ AskedFor(answers[i].seq, slot[answers[i].handle].path)

(* The operations of the others stay. *)
OthersWait(p) ==
  \A j \in DOMAIN pending' :
    \/ pending'[j].request_seqno = seqno
    \/ pending'[j].packet # p /\ \E k \in DOMAIN pending : pending'[j] = pending[k]

LEMMA ReplyOthersWait ==
  ASSUME OpInv, NEW p, p \notin Held, pending' = pending
  PROVE  OthersWait(p)
BY DEF OpInv, OthersWait

LEMMA HoldOthersWait ==
  ASSUME FsType, OpInv, NEW p, p \notin Held, NEW op \in OpType, op.request_seqno = seqno,
         pending' = <<op>> \o pending
  PROVE  OthersWait(p) /\ 1 \in DOMAIN pending' /\ pending'[1] = op
<1>1. /\ DOMAIN pending' = 1 .. Len(pending) + 1 /\ Len(pending) \in Nat
      /\ DOMAIN pending = 1 .. Len(pending)
      /\ pending'[1] = op /\ \A j \in 1 .. Len(pending) : pending'[j + 1] = pending[j]
  BY PrependFacts, PendingFacts
<1>2. ASSUME NEW j \in DOMAIN pending', j # 1
      PROVE  pending'[j].packet # p /\ \E k \in DOMAIN pending : pending'[j] = pending[k]
  <2>1. j - 1 \in 1 .. Len(pending) /\ j - 1 + 1 = j
    BY <1>1, <1>2
  <2>2. pending'[j] = pending[j - 1] /\ j - 1 \in DOMAIN pending
    BY <1>1, <2>1
  <2> QED
    BY <2>2 DEF OpInv
<1> QED
  BY <1>1, <1>2 DEF OthersWait

LEMMA CompleteOthersWait ==
  ASSUME FsType, OpInv, NEW op, Unlinked(op)
  PROVE  OthersWait(op.packet)
<1>1. PICK k \in DOMAIN pending :
           /\ pending[k] = op
           /\ \A j \in DOMAIN pending' :
                /\ (IF j < k THEN j ELSE j + 1) \in DOMAIN pending \ {k}
                /\ pending'[j] = pending[IF j < k THEN j ELSE j + 1]
  BY UnlinkFacts
<1>2. ASSUME NEW j \in DOMAIN pending'
      PROVE  pending'[j].packet # op.packet /\ \E i \in DOMAIN pending : pending'[j] = pending[i]
  <2>1. PICK i \in DOMAIN pending \ {k} : pending'[j] = pending[i]
    BY <1>1
  <2> QED
    BY <1>1, <2>1 DEF OpInv
<1> QED
  BY <1>2 DEF OthersWait

LEMMA RequeueOthersWait ==
  ASSUME FsType, OpInv, NEW op, \E i \in DOMAIN pending : op = pending[i], NEW new \in OpType,
         new.request_seqno = seqno,
         pending' = [i \in DOMAIN pending |-> IF pending[i] # op THEN pending[i] ELSE new]
  PROVE  OthersWait(op.packet)
<1>1. PICK k \in DOMAIN pending : op = pending[k]
  OBVIOUS
<1>2. /\ DOMAIN pending' = DOMAIN pending /\ pending'[k] = new
      /\ \A i \in DOMAIN pending \ {k} : pending'[i] = pending[i] /\ pending[i].packet # op.packet
  BY <1>1, RequeueFacts
<1> QED
  BY <1>2 DEF OthersWait

(* What a waiting program has asked for does not change under the others'   *)
(* packets, for it keeps the lock that its name is relative to.             *)
LEMMA PathKept ==
  ASSUME SessionInv, NEW p \in Procs, NEW pkt \in PacketType, Puts(p, pkt), LockStep(p),
         NEW k \in DOMAIN pending, NEW q, q = pending[k].packet, q # p
  PROVE  PathOf(packet[q])' = PathOf(packet[q])
<1>0. FsType /\ OpInv /\ ArgInv
  BY Unpacked
<1>1. /\ q \in Held /\ q \in Procs /\ packet[q].type # "DIE"
      /\ pending[k].expects = Waits(packet[q].type)
  BY <1>0 DEF OpInv, Held
<1>2. PICK x : x = packet[q]
  OBVIOUS
<1>3. packet'[q] = x
  BY <1>0, <1>1, <1>2, HeldChanges
<1>4. pending[k].expects \in {"OPEN", "READ", "WRITE", "FIND"}
  BY <1>0, PendingFacts DEF OpType
<1>5. x.type \in {"FINDINPUT", "LOCATE_OBJECT", "READ", "WRITE", "EXAMINE_NEXT"}
  BY <1>1, <1>2, <1>4 DEF Waits
<1>6. CASE x.type = "FINDINPUT"
  BY <1>2, <1>3, <1>6 DEF PathOf
<1>7. CASE x.arg = NullLock
  BY <1>2, <1>3, <1>7 DEF PathOf, normalize_object_path
<1>8. ASSUME NEW fh, OwnLock(q, x.arg, fh) PROVE PathOf(packet[q])' = PathOf(packet[q])
  <2>1. SameHandle(lock'[x.arg], lock[x.arg])
    BY <1>0, <1>1, <1>8, OthersKeepLocks
  <2>2. lock'[x.arg].type = lock[x.arg].type /\ lock'[x.arg].path = lock[x.arg].path
    BY <2>1 DEF SameHandle
  <2> QED
    BY <1>2, <1>3, <2>2 DEF PathOf, normalize_object_path
<1>9. ArgOk(q)
  BY <1>0, <1>1 DEF ArgInv
<1> QED
  BY <1>2, <1>5, <1>6, <1>7, <1>8, <1>9 DEF ArgOk

LEMMA AskedKept ==
  ASSUME SessionInv, NEW p \in Procs, NEW pkt \in PacketType, Puts(p, pkt), LockStep(p),
         OthersWait(p), NEW seq \in Nat, seq < seqno, NEW path, AskedFor(seq, path)
  PROVE  AskedFor(seq, path)'
<1> SUFFICES ASSUME NEW j \in DOMAIN pending', pending'[j].request_seqno = seq
             PROVE  path = PathOf(packet[pending[j].packet])'
  BY DEF AskedFor
<1>1. seqno \in Nat
  BY DEF SessionInv, TypeInv, FsType
<1>2. PICK k \in DOMAIN pending : pending'[j] = pending[k] /\ pending[k].packet # p
  BY <1>1 DEF OthersWait
<1>3. PICK q : q = pending[k].packet
  OBVIOUS
<1>4. path = PathOf(packet[q])
  BY <1>2, <1>3 DEF AskedFor
<1>5. PathOf(packet[q])' = PathOf(packet[q])
  BY <1>2, <1>3, PathKept
<1>6. pending'[j].packet = q
  BY <1>2, <1>3
<1>7. PathOf(packet[pending[j].packet])' = PathOf(packet[q])'
  BY <1>6 DEF PathOf, normalize_object_path
<1> QED
  BY <1>4, <1>5, <1>7

(* A step of the handler, on behalf of p. *)
LEMMA NameHandler ==
  ASSUME SessionInv, NameInv, conn = "up", NEW p \in Procs, NEW pkt \in PacketType,
         Puts(p, pkt), LockStep(p), OthersWait(p), UNCHANGED slot, seqno' \in Nat, seqno' >= seqno,
         \A i \in DOMAIN requests' : requests'[i].kind = "OPEN" =>
           \/ \E j \in DOMAIN requests : requests'[i] = requests[j]
           \/ /\ requests'[i].seq < seqno'
              /\ AskedFor(requests[i].seq, requests[i].path)',
         \A i \in DOMAIN answers' : \E j \in DOMAIN answers : answers'[i] = answers[j],
         \A l \in Holding' : Named(l)' \/ (l \in Holding /\ SameHandle(lock'[l], lock[l]))
  PROVE  NameInv'
<1>0. /\ requests \in Seq(RequestType) /\ answers \in Seq(AnswerType) /\ seqno \in Nat
  BY DEF SessionInv, TypeInv, ChannelType, FsType
<1>1. ASSUME NEW l \in Holding' PROVE Named(l)'
  BY <1>1 DEF NameInv, Named, SameHandle
<1>2. ASSUME NEW i \in DOMAIN requests', requests'[i].kind = "OPEN"
      PROVE  requests'[i].seq < seqno' /\ AskedFor(requests[i].seq, requests[i].path)'
  <2>1. CASE \E j \in DOMAIN requests : requests'[i] = requests[j]
    <3>1. PICK j \in DOMAIN requests : requests'[i] = requests[j]
      BY <2>1
    <3>2. PICK m \in RequestType : m = requests[j]
      BY <1>0, <3>1, ElementOfSeq, LenProperties
    <3>3. m.seq \in Nat /\ m.seq < seqno /\ AskedFor(m.seq, m.path)
      BY <1>2, <3>1, <3>2 DEF NameInv, RequestType
    <3>4. AskedFor(m.seq, m.path)'
      BY <3>3, AskedKept
    <3> QED
      BY <1>0, <3>1, <3>2, <3>3, <3>4 DEF AskedFor
  <2> QED
    BY <1>2, <2>1
<1>3. ASSUME NEW i \in DOMAIN answers', answers'[i].kind = "OPEN"
      PROVE  /\ answers'[i].seq < seqno'
             /\ slot'[answers'[i].handle].type = answers'[i].type
             /\ AskedFor(answers[i].seq, slot[answers[i].handle].path)'
  <2>1. PICK j \in DOMAIN answers : answers'[i] = answers[j]
    OBVIOUS
  <2>2. PICK a \in AnswerType : a = answers[j]
    BY <1>0, <2>1, ElementOfSeq, LenProperties
  <2>3. PICK path : path = slot[a.handle].path
    OBVIOUS
  <2>4. /\ a.seq \in Nat /\ a.seq < seqno /\ slot[a.handle].type = a.type
        /\ AskedFor(a.seq, path)
    BY <1>3, <2>1, <2>2, <2>3 DEF NameInv, AnswerType
  <2>5. AskedFor(a.seq, path)'
    BY <2>4, AskedKept
  <2> QED
    BY <1>0, <2>1, <2>2, <2>3, <2>4, <2>5 DEF AskedFor
<1> QED
  BY <1>1, <1>2, <1>3 DEF NameInv

(* The locks after a step: old ones, and a new one. *)
LEMMA LocksKept ==
  ASSUME FsType, NEW p \in Procs
  PROVE  /\ Touched => \A l \in Holding' : l \in Holding /\ SameHandle(lock'[l], lock[l])
         /\ \A k \in LockIds : Freed(p, k) =>
              \A l \in Holding' : l \in Holding /\ SameHandle(lock'[l], lock[l])
         /\ \A r \in LockType : Created(p, r) =>
              \A l \in Holding' : \/ lock'[l] = r /\ r.handle_id \in HandleIds
                                  \/ l \in Holding /\ SameHandle(lock'[l], lock[l])
<1>1. Touched => \A l \in Holding' : l \in Holding /\ SameHandle(lock'[l], lock[l])
  BY DEF Touched, Holding, SameHandle
<1>2. ASSUME NEW k \in LockIds, Freed(p, k)
      PROVE  \A l \in Holding' : l \in Holding /\ SameHandle(lock'[l], lock[l])
  <2>1. \A l \in LockIds : lock'[l] = IF l = k THEN NoLock ELSE lock[l]
    BY <1>2 DEF Freed, FsType
  <2> QED
    BY <2>1 DEF Holding, SameHandle
<1>3. ASSUME NEW r \in LockType, Created(p, r)
      PROVE  \A l \in Holding' : \/ lock'[l] = r /\ r.handle_id \in HandleIds
                                 \/ l \in Holding /\ SameHandle(lock'[l], lock[l])
  <2>1. PICK n \in LockIds : n = NewLockId
    BY <1>3 DEF Created, Free
  <2>2. \A l \in LockIds : lock'[l] = IF l = n THEN r ELSE lock[l]
    BY <1>3, <2>1 DEF Created, FsType
  <2> QED
    BY <2>2 DEF Holding, SameHandle
<1> QED
  BY <1>1, <1>2, <1>3

(* A message is added to the requests, or none. *)
LEMMA SentOne ==
  ASSUME requests \in Seq(RequestType), NEW msg \in RequestType,
         requests' = requests \/ requests' = Append(requests, msg)
  PROVE  \A i \in DOMAIN requests' :
           requests'[i] = msg \/ \E j \in DOMAIN requests : requests'[i] = requests[j]
<1>1. CASE requests' = requests
  BY <1>1
<1>2. CASE requests' = Append(requests, msg)
  <2>1. /\ DOMAIN requests = 1 .. Len(requests) /\ Len(requests) \in Nat
        /\ DOMAIN requests' = 1 .. Len(requests) + 1 /\ requests'[Len(requests) + 1] = msg
        /\ \A i \in DOMAIN requests : requests'[i] = requests[i]
    BY <1>2, AppendFacts
  <2>2. \A i \in DOMAIN requests' : i = Len(requests) + 1 \/ i \in DOMAIN requests
    BY <2>1
  <2> QED
    BY <2>1, <2>2
<1> QED
  BY <1>1, <1>2

(* The new operation is the only one with its number. *)
LEMMA NewAsked ==
  ASSUME OpInv', NEW op, NEW msg, Asks(msg, op)', msg.kind = "OPEN", NEW k \in DOMAIN pending',
         pending'[k] = op
  PROVE  AskedFor(msg.seq, msg.path)'
<1>1. op.request_seqno = msg.seq /\ msg.path = PathOf(packet[op.packet])'
  BY DEF Asks
<1> SUFFICES ASSUME NEW j \in DOMAIN pending', pending'[j].request_seqno = msg.seq
             PROVE  msg.path = PathOf(packet[pending[j].packet])'
  BY DEF AskedFor
<1>2. j = k
  BY <1>1 DEF OpInv
<1>3. pending'[j] = op
  BY <1>2
<1> QED
  BY <1>1, <1>3 DEF PathOf, normalize_object_path

LEMMA NamePacket ==
  ASSUME SessionInv, SessionInv', NameInv, "COPY_DIR" \notin Ops, NEW p \in Procs, Room(p),
         PacketStep(p), UNCHANGED <<answers, slot>>
  PROVE  NameInv'
<1> SUFFICES ASSUME conn' = "up" PROVE NameInv'
  BY DEF NameInv
<1>0. FsType /\ OpInv /\ OpInv' /\ requests \in Seq(RequestType) /\ seqno \in Nat /\ p \notin Held
  BY DEF SessionInv, TypeInv, ChannelType, FsType, Room, Held
<1>1. \A i \in DOMAIN answers' : \E j \in DOMAIN answers : answers'[i] = answers[j]
  OBVIOUS
<1>2. CASE ReplyStep(p)
  <2>1. PICK pkt \in PacketType : Puts(p, pkt)
    BY <1>2 DEF ReplyStep
  <2>2. LockStep(p) /\ OthersWait(p)
    BY <1>0, <1>2, ReplyOthersWait DEF ReplyStep, LockStep
  <2>3. conn = "up" /\ seqno' \in Nat /\ seqno' >= seqno
        /\ \A i \in DOMAIN requests' : requests'[i].kind = "OPEN" =>
             \E j \in DOMAIN requests : requests'[i] = requests[j]
    <3>1. CASE NothingSent
      BY <1>0, <3>1 DEF NothingSent
    <3>2. ASSUME NEW l \in LockIds, Freed(p, l), seqno' = seqno + 1,
                 transmit_message(CloseRequest(seqno, lock[l].handle_id))
          PROVE  conn = "up" /\ seqno' \in Nat /\ seqno' >= seqno
                 /\ \A i \in DOMAIN requests' : requests'[i].kind = "OPEN" =>
                      \E j \in DOMAIN requests : requests'[i] = requests[j]
      <4>1. PICK h \in Int : h = lock[l].handle_id
        BY <1>0, <3>2, LockTypes DEF Freed, LockType
      <4>2. PICK msg \in RequestType : msg = CloseRequest(seqno, h) /\ msg.kind = "CLOSE"
        BY <1>0, CloseMessage
      <4>3. conn = "up" /\ requests' = Append(requests, msg)
        BY <1>0, <3>2, <4>1, <4>2, TransmitFacts
      <4>4. \A i \in DOMAIN requests' :
              requests'[i] = msg \/ \E j \in DOMAIN requests : requests'[i] = requests[j]
        BY <1>0, <4>3, SentOne
      <4> QED
        BY <1>0, <3>2, <4>2, <4>3, <4>4
    <3> QED
      BY <1>2, <3>1, <3>2 DEF ReplyStep
  <2>4. \A l \in Holding' : l \in Holding /\ SameHandle(lock'[l], lock[l])
    BY <1>0, <1>2, LocksKept DEF ReplyStep
  <2> QED
    BY <1>1, <2>1, <2>2, <2>3, <2>4, NameHandler
<1>3. CASE HoldStep(p)
  <2>1. PICK pkt \in PacketType : Puts(p, pkt)
    BY <1>3 DEF HoldStep
  <2>2. PICK op \in OpType, msg \in RequestType :
          /\ pending' = <<op>> \o pending /\ op.packet = p /\ op.request_seqno = seqno
          /\ transmit_message(msg) /\ seqno' = seqno + 1
          /\ Asks(msg, op)'
    BY <1>3 DEF HoldStep
  <2>3. LockStep(p) /\ Touched
    BY <1>3 DEF HoldStep, LockStep
  <2>4. OthersWait(p) /\ 1 \in DOMAIN pending' /\ pending'[1] = op
    BY <1>0, <2>2, HoldOthersWait
  <2>5. conn = "up" /\ requests' = Append(requests, msg)
    BY <1>0, <2>2, TransmitFacts
  <2>6. \A i \in DOMAIN requests' :
          requests'[i] = msg \/ \E j \in DOMAIN requests : requests'[i] = requests[j]
    BY <1>0, <2>5, SentOne
  <2>7. msg.seq = seqno
    BY <2>2 DEF Asks
  <2>8. msg.kind = "OPEN" => AskedFor(msg.seq, msg.path)'
    BY <1>0, <2>2, <2>4, NewAsked
  <2>9. \A l \in Holding' : l \in Holding /\ SameHandle(lock'[l], lock[l])
    BY <1>0, <2>3, LocksKept
  <2>10. ASSUME NEW i \in DOMAIN requests', requests'[i].kind = "OPEN"
         PROVE  \/ \E j \in DOMAIN requests : requests'[i] = requests[j]
                \/ /\ requests'[i].seq < seqno'
                   /\ AskedFor(requests[i].seq, requests[i].path)'
    <3>1. CASE requests'[i] = msg
      BY <1>0, <2>2, <2>7, <2>8, <2>10, <3>1 DEF AskedFor
    <3> QED
      BY <2>6, <3>1
  <2>11. seqno' \in Nat /\ seqno' >= seqno
    BY <1>0, <2>2
  <2>12. \A i \in DOMAIN requests' : requests'[i].kind = "OPEN" =>
           \/ \E j \in DOMAIN requests : requests'[i] = requests[j]
           \/ /\ requests'[i].seq < seqno'
              /\ AskedFor(requests[i].seq, requests[i].path)'
    BY <2>10
  <2> QED
    BY <1>1, <2>1, <2>3, <2>4, <2>5, <2>9, <2>11, <2>12, NameHandler
<1>4. CASE LostStep(p)
  <2>1. PICK pkt \in PacketType : Puts(p, pkt) /\ conn' = conn
    BY <1>4 DEF LostStep
  <2>2. UNCHANGED <<lock, pending, requests, seqno>>
    BY <1>4 DEF LostStep
  <2>3. LockStep(p) /\ Touched
    BY <1>0, <2>2, TouchedRefl DEF LockStep
  <2>4. OthersWait(p)
    BY <1>0, <2>2, ReplyOthersWait
  <2>5. \A l \in Holding' : l \in Holding /\ SameHandle(lock'[l], lock[l])
    BY <1>0, <2>3, LocksKept
  <2> QED
    BY <1>0, <1>1, <2>1, <2>2, <2>3, <2>4, <2>5, NameHandler
<1> QED
  BY <1>2, <1>3, <1>4 DEF PacketStep

LEMMA NameNetwork ==
  ASSUME SessionInv, NameInv, rl_amigafs_process_network_message, UNCHANGED slot
  PROVE  NameInv'
<1> SUFFICES ASSUME conn' = "up" PROVE NameInv'
  BY DEF NameInv
<1>0. /\ FsType /\ OpInv /\ requests \in Seq(RequestType) /\ answers \in Seq(AnswerType)
      /\ seqno \in Nat
  BY DEF SessionInv, TypeInv, ChannelType, FsType
<1>1. PICK op : op = find_pending_op
  OBVIOUS
<1>2. PICK a : a = Received
  OBVIOUS
<1>3. /\ conn = "up" /\ answers # <<>> /\ answers' = Tail(answers) /\ a \in AnswerType
      /\ Waiting(op) /\ Found /\ (CompleteStep(op) \/ RequeueStep(op))
  BY <1>1, <1>2, NetworkSteps
<1>4. op.request_seqno = a.seq /\ \E k \in DOMAIN pending : op = pending[k]
  BY <1>0, <1>1, <1>2, <1>3, FoundOp
<1>5. PICK p \in Procs : p = op.packet
  BY <1>3 DEF Waiting
<1>6. /\ 1 \in DOMAIN answers /\ a = answers[1]
      /\ \A i \in DOMAIN answers' : \E j \in DOMAIN answers : answers'[i] = answers[j]
  <2>1. /\ 1 \in DOMAIN answers /\ Head(answers) = answers[1]
        /\ \A i \in DOMAIN Tail(answers) :
             i + 1 \in DOMAIN answers /\ Tail(answers)[i] = answers[i + 1]
    BY <1>0, <1>3, TailFacts
  <2> QED
    BY <1>2, <1>3, <2>1 DEF Received
<1>7. CASE CompleteStep(op)
  <2>1. PICK pkt \in PacketType : Puts(p, pkt)
    BY <1>5, <1>7 DEF CompleteStep
  <2>2. OthersWait(p)
    BY <1>0, <1>5, <1>7, CompleteOthersWait DEF CompleteStep
  <2>3. LockStep(p)
    BY <1>0, <1>5, <1>7, TouchedRefl DEF CompleteStep, LockStep
  <2>4. /\ seqno' \in Nat /\ seqno' >= seqno
        /\ \A i \in DOMAIN requests' : requests'[i].kind = "OPEN" =>
             \E j \in DOMAIN requests : requests'[i] = requests[j]
    <3>1. CASE requests' = requests /\ seqno' = seqno
      BY <1>0, <3>1
    <3>2. CASE a.kind = "OPEN" /\ transmit_message(CloseRequest(seqno, a.handle))
               /\ seqno' = seqno + 1
      <4>0. a.handle \in HandleIds
        BY <1>3, <3>2 DEF AnswerType
      <4>1. a.handle \in Int
        BY <4>0 DEF HandleIds
      <4>2. PICK msg \in RequestType : msg = CloseRequest(seqno, a.handle) /\ msg.kind = "CLOSE"
        BY <1>0, <4>1, CloseMessage
      <4>3. requests' = Append(requests, msg)
        BY <1>0, <3>2, <4>2, TransmitFacts
      <4>4. \A i \in DOMAIN requests' :
              requests'[i] = msg \/ \E j \in DOMAIN requests : requests'[i] = requests[j]
        BY <1>0, <4>3, SentOne
      <4> QED
        BY <1>0, <3>2, <4>2, <4>4
    <3> QED
      BY <1>2, <1>7, <3>1, <3>2 DEF CompleteStep, NothingSent
  <2>5. \A l \in Holding' : Named(l)' \/ (l \in Holding /\ SameHandle(lock'[l], lock[l]))
    <3>1. CASE Touched
      BY <1>0, <1>5, <3>1, LocksKept
    <3>2. ASSUME NEW r \in LockType, Created(p, r), a.kind = "OPEN", r.handle_id = a.handle,
                 r.type = a.type, r.path = PathOf(packet[p])
          PROVE  \A l \in Holding' : Named(l)' \/ (l \in Holding /\ SameHandle(lock'[l], lock[l]))
      <4>1. /\ slot[a.handle].type = a.type
            /\ AskedFor(a.seq, slot[a.handle].path)
        BY <1>3, <1>6, <3>2 DEF NameInv
      <4>2. slot[a.handle].path = PathOf(packet[p])
        BY <1>4, <1>5, <4>1 DEF AskedFor
      <4>3. \A l \in Holding' : \/ lock'[l] = r
                                \/ l \in Holding /\ SameHandle(lock'[l], lock[l])
        BY <1>0, <1>5, <3>2, LocksKept
      <4>4. slot[r.handle_id].path = r.path /\ slot[r.handle_id].type = r.type
        BY <3>2, <4>1, <4>2
      <4>5. ASSUME NEW l, lock'[l] = r PROVE Named(l)'
        BY <4>4, <4>5 DEF Named
      <4> QED
        BY <4>3, <4>5
    <3>3. CASE lock' = lock
      BY <1>0, <1>5, <3>1, <3>3, TouchedRefl
    <3> QED
      BY <1>2, <1>5, <1>7, <3>1, <3>2, <3>3 DEF CompleteStep
  <2> QED
    BY <1>3, <1>6, <2>1, <2>2, <2>3, <2>4, <2>5, NameHandler
<1>8. CASE RequeueStep(op)
  <2>1. PICK pkt \in PacketType : Puts(p, pkt) /\ pkt.type = packet[p].type
    BY <1>5, <1>8 DEF RequeueStep
  <2>2. PICK new \in OpType, msg \in RequestType :
          /\ pending' = [i \in DOMAIN pending |-> IF pending[i] # op THEN pending[i] ELSE new]
          /\ new.packet = p /\ new.request_seqno = seqno
          /\ transmit_message(msg) /\ seqno' = seqno + 1
          /\ Asks(msg, new)'
    BY <1>5, <1>8 DEF RequeueStep
  <2>3. OthersWait(p)
    BY <1>0, <1>4, <1>5, <2>2, RequeueOthersWait
  <2>4. Touched /\ LockStep(p)
    BY <1>8 DEF RequeueStep, LockStep
  <2>5. packet'[p].type = packet[p].type
    BY <1>0, <2>1 DEF Puts, FsType
  <2>6. msg.kind # "OPEN"
    <3>1. msg.kind = Waits(packet'[p].type)
      BY <2>2 DEF Asks
    <3>2. op.expects = Waits(packet[p].type) /\ op.expects # "OPEN"
      BY <1>3, <1>5, <1>8 DEF Waiting, RequeueStep
    <3> QED
      BY <2>5, <3>1, <3>2
  <2>7. requests' = Append(requests, msg)
    BY <1>0, <2>2, TransmitFacts
  <2>8. \A i \in DOMAIN requests' :
          requests'[i] = msg \/ \E j \in DOMAIN requests : requests'[i] = requests[j]
    BY <1>0, <2>7, SentOne
  <2>9. \A l \in Holding' : l \in Holding /\ SameHandle(lock'[l], lock[l])
    BY <1>0, <2>4, LocksKept
  <2>10. seqno' \in Nat /\ seqno' >= seqno
    BY <1>0, <2>2
  <2>11. \A i \in DOMAIN requests' : requests'[i].kind = "OPEN" =>
           \E j \in DOMAIN requests : requests'[i] = requests[j]
    BY <2>6, <2>8
  <2> QED
    BY <1>3, <1>6, <2>1, <2>3, <2>4, <2>9, <2>10, <2>11, NameHandler
<1> QED
  BY <1>3, <1>7, <1>8

(* The handles that locks and announcements carry are open, and no request  *)
(* under way closes one of them.                                            *)
LEMMA NamedHandles ==
  ASSUME OwnInv, conn = "up"
  PROVE  /\ \A l \in Holding : lock[l].handle_id \in OpenHandles
         /\ \A i \in DOMAIN answers : answers[i].kind = "OPEN" /\ answers[i].handle \in HandleIds =>
              answers[i].handle \in OpenHandles
         /\ \A i \in DOMAIN requests : requests[i].kind = "CLOSE" /\ requests[i].handle \in HandleIds =>
              /\ \A l \in Holding : lock[l].handle_id # requests[i].handle
              /\ \A j \in DOMAIN answers : answers[j].kind = "OPEN" => answers[j].handle # requests[i].handle
<1> DEFINE H == LockHandles
           C == Handles(requests, "CLOSE")
           O == Handles(answers, "OPEN")
<1>1. /\ \A h \in H : h \in OpenHandles /\ h \notin C
      /\ \A h \in O : h \in OpenHandles /\ h \notin C
  BY DEF OwnInv, Shared
<1>2. \A l \in Holding : lock[l].handle_id \in H
  BY DEF LockHandles
<1>3. \A i \in DOMAIN answers : answers[i].kind = "OPEN" /\ answers[i].handle \in HandleIds =>
        answers[i].handle \in O
  BY DEF Handles, Sel
<1>4. \A i \in DOMAIN requests : requests[i].kind = "CLOSE" /\ requests[i].handle \in HandleIds =>
        requests[i].handle \in C
  BY DEF Handles, Sel
<1> HIDE DEF H, C, O
<1> QED
  BY <1>1, <1>2, <1>3, <1>4

(* A step of the server: what is open stays open on the same object, and a  *)
(* new announcement answers a request for its object.                       *)
LEMMA NameServer ==
  ASSUME SessionInv, OwnInv, NameInv, ServerStep
  PROVE  NameInv'
<1>0. /\ TypeInv /\ requests \in Seq(RequestType) /\ answers \in Seq(AnswerType)
      /\ conn = "up" /\ UNCHANGED <<lock, conn, pending, packet, seqno>> /\ rl_file_serve
  BY DEF SessionInv, TypeInv, ChannelType, ServerStep, fsVars
<1>1. PICK m : m = Request
  OBVIOUS
<1>2. /\ m \in RequestType /\ requests # <<>> /\ requests' = Tail(requests)
      /\ Opened(m) \/ Closed(m) \/ Served(m)
  BY <1>0, <1>1, ServerSlots
<1>3. /\ 1 \in DOMAIN requests /\ m = requests[1]
      /\ \A i \in DOMAIN requests' : \E j \in DOMAIN requests : requests'[i] = requests[j]
  <2>1. /\ 1 \in DOMAIN requests /\ Head(requests) = requests[1]
        /\ \A i \in DOMAIN Tail(requests) :
             i + 1 \in DOMAIN requests /\ Tail(requests)[i] = requests[i + 1]
    BY <1>0, <1>2, TailFacts
  <2> QED
    BY <1>1, <1>2, <2>1 DEF Request
<1>5. Holding' = Holding
  BY <1>0 DEF Holding
<1>6. /\ \A l \in Holding : Named(l) /\ lock[l].handle_id \in OpenHandles
      /\ \A i \in DOMAIN requests : requests[i].kind = "OPEN" =>
           requests[i].seq < seqno /\ AskedFor(requests[i].seq, requests[i].path)
      /\ \A i \in DOMAIN answers : answers[i].kind = "OPEN" =>
           /\ answers[i].seq < seqno
           /\ slot[answers[i].handle].type = answers[i].type
           /\ AskedFor(answers[i].seq, slot[answers[i].handle].path)
           /\ answers[i].handle \in OpenHandles
  <2>1. \A i \in DOMAIN answers : answers[i].kind = "OPEN" => answers[i].handle \in HandleIds
    <3>1. \A i \in DOMAIN answers : answers[i] \in AnswerType
      BY <1>0, ElementOfSeq, LenProperties
    <3> QED
      BY <3>1 DEF AnswerType
  <2> QED
    BY <1>0, <2>1, NamedHandles DEF NameInv
<1> DEFINE Kept(h) == slot'[h].path = slot[h].path /\ slot'[h].type = slot[h].type
<1>7. /\ \A l \in Holding : Kept(lock[l].handle_id)
      /\ \A i \in DOMAIN answers : answers[i].kind = "OPEN" => Kept(answers[i].handle)
  <2>1. CASE Opened(m)
    BY <1>6, <2>1 DEF Opened, OpenHandles
  <2>2. CASE Served(m)
    BY <1>6, <2>2 DEF Served, SameSlots, OpenHandles
  <2>3. CASE Closed(m)
    <3>1. ASSUME m.handle \in HandleIds
          PROVE  /\ \A l \in Holding : lock[l].handle_id # m.handle
                 /\ \A j \in DOMAIN answers : answers[j].kind = "OPEN" => answers[j].handle # m.handle
      BY <1>0, <1>3, <2>3, <3>1, NamedHandles DEF Closed
    <3>2. \A h \in OpenHandles : h # m.handle => Kept(h)
      BY <2>3 DEF Closed, OpenHandles
    <3>3. \A h \in OpenHandles : h \in HandleIds
      BY DEF OpenHandles
    <3> HIDE DEF Kept
    <3>4. ASSUME NEW l \in Holding PROVE Kept(lock[l].handle_id)
      BY <1>6, <3>1, <3>2, <3>3
    <3>5. ASSUME NEW i \in DOMAIN answers, answers[i].kind = "OPEN" PROVE Kept(answers[i].handle)
      BY <1>6, <3>1, <3>2, <3>3, <3>5
    <3> QED
      BY <3>4, <3>5
  <2> QED
    BY <1>2, <2>1, <2>2, <2>3
<1>8. ASSUME NEW l \in Holding' PROVE Named(l)'
  BY <1>0, <1>5, <1>6, <1>7 DEF Named
<1>9. ASSUME NEW i \in DOMAIN requests', requests'[i].kind = "OPEN"
      PROVE  requests'[i].seq < seqno' /\ AskedFor(requests[i].seq, requests[i].path)'
  <2>1. PICK j \in DOMAIN requests : requests'[i] = requests[j]
    BY <1>3
  <2>2. AskedFor(requests[j].seq, requests[j].path)
    BY <1>6, <1>9, <2>1
  <2> QED
    BY <1>0, <1>6, <1>9, <2>1, <2>2 DEF AskedFor, PathOf, normalize_object_path
<1>10. ASSUME NEW i \in DOMAIN answers', answers'[i].kind = "OPEN"
       PROVE  /\ answers'[i].seq < seqno'
              /\ slot'[answers'[i].handle].type = answers'[i].type
              /\ AskedFor(answers[i].seq, slot[answers[i].handle].path)'
  <2>1. ASSUME NEW j \in DOMAIN answers, answers'[i] = answers[j]
        PROVE  /\ answers'[i].seq < seqno'
               /\ slot'[answers'[i].handle].type = answers'[i].type
               /\ AskedFor(answers[i].seq, slot[answers[i].handle].path)'
    BY <1>0, <1>6, <1>7, <1>10, <2>1 DEF AskedFor, PathOf, normalize_object_path
  <2>2. ASSUME NEW a \in AnswerType, answers' = Append(answers, a), answers'[i] # a
        PROVE  \E j \in DOMAIN answers : answers'[i] = answers[j]
    <3>1. /\ DOMAIN answers = 1 .. Len(answers) /\ Len(answers) \in Nat
          /\ DOMAIN answers' = 1 .. Len(answers) + 1 /\ answers'[Len(answers) + 1] = a
          /\ \A k \in DOMAIN answers : answers'[k] = answers[k]
      BY <1>0, <2>2, AppendFacts
    <3> QED
      BY <2>2, <3>1
  <2>3. CASE Opened(m)
    <3>1. PICK h \in HandleIds, a \in AnswerType :
             /\ slot'[h].path = m.path /\ a.kind = "OPEN" /\ a.seq = m.seq /\ a.handle = h
             /\ a.type = slot'[h].type /\ answers' = Append(answers, a)
      BY <2>3 DEF Opened
    <3>2. CASE answers'[i] # a
      BY <2>1, <2>2, <3>1, <3>2
    <3>3. CASE answers'[i] = a
      <4>1. m.kind = "OPEN"
        BY <2>3 DEF Opened
      <4>2. m.seq < seqno /\ AskedFor(m.seq, m.path)
        BY <1>3, <1>6, <4>1
      <4> QED
        BY <1>0, <3>1, <3>3, <4>2 DEF AskedFor, PathOf, normalize_object_path
    <3> QED
      BY <3>2, <3>3
  <2>4. CASE Closed(m)
    BY <2>1, <2>4 DEF Closed
  <2>5. CASE Served(m)
    <3>1. PICK a \in AnswerType : a.kind # "OPEN" /\ answers' = Append(answers, a)
      BY <2>5 DEF Served
    <3>2. answers'[i] # a
      BY <1>10, <3>1
    <3> QED
      BY <2>1, <2>2, <3>1, <3>2
  <2> QED
    BY <1>2, <2>3, <2>4, <2>5
<1> QED
  BY <1>8, <1>9, <1>10 DEF NameInv

LEMMA NameStep ==
  ASSUME SessionInv, OwnInv, NameInv, [Next]_vars, "COPY_DIR" \notin Ops
  PROVE  NameInv'
<1>0. SessionInv'
  BY SessionStep
<1>1. ASSUME NEW p \in Procs, process_fs_packet(p), UNCHANGED serverVars PROVE NameInv'
  <2>1. Room(p) /\ PacketStep(p) /\ answers' = answers
    BY <1>1, PacketSteps DEF SessionInv
  <2>2. slot' = slot
    BY <1>1 DEF serverVars
  <2> QED
    BY <1>0, <2>1, <2>2, NamePacket
<1>2. CASE NetworkStep
  <2>1. rl_amigafs_process_network_message /\ slot' = slot
    BY <1>2 DEF NetworkStep, serverVars
  <2> QED
    BY <2>1, NameNetwork, Zenon
<1>3. CASE ServerStep
  BY <1>3, NameServer
<1>4. CASE spawn_failure
  <2>1. /\ conn = "up" /\ UNCHANGED <<answers, lock, slot, conn, pending, packet, seqno>>
        /\ requests \in Seq(RequestType)
    BY <1>4 DEF spawn_failure, fsVars, serverVars, SessionInv, TypeInv, ChannelType
  <2>2. PICK msg \in RequestType : msg = ErrorAnswer(0, "SPAWN_FAILURE") /\ msg.kind # "OPEN"
    <3>1. /\ ErrorAnswer(0, "SPAWN_FAILURE") \in RequestType
          /\ ErrorAnswer(0, "SPAWN_FAILURE").kind = "ERROR"
      BY DEF ErrorAnswer, RequestType, NetErrors
    <3> QED
      BY <3>1
  <2>3. requests' = Append(requests, msg)
    BY <1>4, <2>2 DEF spawn_failure
  <2>4. \A i \in DOMAIN requests' :
          requests'[i] = msg \/ \E j \in DOMAIN requests : requests'[i] = requests[j]
    BY <2>1, <2>3, SentOne
  <2>5. ASSUME NEW i \in DOMAIN requests', requests'[i].kind = "OPEN"
        PROVE  requests'[i].seq < seqno' /\ AskedFor(requests[i].seq, requests[i].path)'
    BY <2>1, <2>2, <2>4, <2>5 DEF NameInv, AskedFor, PathOf, normalize_object_path
  <2>6. ASSUME NEW l \in Holding' PROVE Named(l)'
    BY <2>1 DEF NameInv, Holding, Named
  <2>7. ASSUME NEW i \in DOMAIN answers', answers'[i].kind = "OPEN"
        PROVE  /\ answers'[i].seq < seqno'
               /\ slot'[answers'[i].handle].type = answers'[i].type
               /\ AskedFor(answers[i].seq, slot[answers[i].handle].path)'
    BY <2>1, <2>7 DEF NameInv, AskedFor, PathOf, normalize_object_path
  <2> QED
    BY <2>5, <2>6, <2>7 DEF NameInv
<1>5. CASE connection_lost \/ rl_amigafs_destroy
  BY <1>5 DEF connection_lost, rl_amigafs_destroy, NameInv
<1>6. CASE UNCHANGED vars
  BY <1>6 DEF vars, channels, fsVars, serverVars, NameInv, Holding, Named, AskedFor, PathOf,
     normalize_object_path
<1> QED
  BY <1>1, <1>2, <1>3, <1>4, <1>5, <1>6 DEF Next

LEMMA NameInit ==
  ASSUME Init
  PROVE  NameInv
<1>1. DOMAIN requests = {} /\ DOMAIN answers = {} /\ Holding = {}
  BY DEF Init, FsInit, Holding
<1> QED
  BY <1>1 DEF NameInv

(* LockNamesItsObject: while the connection holds, the handle in a lock is  *)
(* open, on the object that the lock was asked for, and it is of the type   *)
(* that the lock records, however often the server has reused the slots and *)
(* in whatever order requests and answers met.  It needs OwnInv, for only a *)
(* handle that nobody else owns cannot be closed and reused under a lock:   *)
(* DupLock (action_copy_dir), which copies the handle, is excluded.         *)
THEOREM LocksNameTheirObject ==
  ASSUME "COPY_DIR" \notin Ops
  PROVE  Spec => []LockNamesItsObject
<1>1. Init => OwnInv /\ NameInv
  BY OwnInit, NameInit
<1>2. SessionInv /\ OwnInv /\ NameInv /\ [Next]_vars => OwnInv' /\ NameInv'
  <2> SUFFICES ASSUME SessionInv, OwnInv, NameInv, [Next]_vars PROVE OwnInv' /\ NameInv'
    OBVIOUS
  <2> QED
    BY OwnStep, NameStep, Zenon
<1>3. OwnInv /\ NameInv => LockNamesItsObject
  <2> SUFFICES ASSUME OwnInv, NameInv, conn = "up", NEW l \in Holding
               PROVE  slot[lock[l].handle_id].handle # 0 /\ Named(l)
    BY DEF LockNamesItsObject, Holding, Named
  <2> QED
    BY NamedHandles DEF NameInv, OpenHandles
<1> QED
  BY <1>1, <1>2, <1>3, SessionInvariant, PTL DEF Spec
=============================================================================
