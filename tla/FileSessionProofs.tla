------------------------- MODULE FileSessionProofs --------------------------
(***************************************************************************)
(* Proofs about FileSession, for every directory tree, chunk size, handle  *)
(* table, set of programs and of packets they send, and any number of them.*)
(***************************************************************************)
EXTENDS FileSession, TLAPS, SequenceTheorems, FiniteSetTheorems,
        WellFoundedInduction

-----------------------------------------------------------------------------
(* Types                                                                    *)

Byte == Seq(STRING) \X Nat

(* The messages of src/rlnet.msg that a session carries. *)
RequestType ==
  [kind : {"OPEN"}, seq : Nat, path : Seq(STRING)]
    \cup [kind : {"CLOSE"}, seq : Nat, handle : Int]
    \cup [kind : {"READ"}, seq : Nat, handle : Int, offset : Nat]
    \cup [kind : {"WRITE"}, seq : Nat, handle : Int, writer : Procs, source : Nat,
          data : Seq(Nat)]
    \cup [kind : {"FIND"}, seq : Nat, handle : Int, reset : BOOLEAN]
    \cup [kind : {"ERROR"}, seq : Nat, error_code : NetErrors]

AnswerType ==
  [kind : {"OPEN"}, seq : Nat, handle : HandleIds, type : {"FILE", "DIR"}, size : Nat]
    \cup [kind : {"READ"}, seq : Nat, data : Seq(Byte)]
    \cup [kind : {"WRITE"}, seq : Nat]
    \cup [kind : {"FIND"}, seq : Nat, end_of_sequence : {TRUE}, entry : {NoDir}]
    \cup [kind : {"FIND"}, seq : Nat, end_of_sequence : {FALSE}, entry : Byte]
    \cup [kind : {"ERROR"}, seq : Nat, error_code : NetErrors]

OpType ==
  [request_seqno : Nat, packet : Procs, expects : {"OPEN", "READ", "WRITE", "FIND"},
   source : Nat, length : Nat]

Paths == DOMAIN Tree \cup {<<>>}
DirType == {NoDir} \cup (Paths \X Nat)

ChannelType == requests \in Seq(RequestType) /\ answers \in Seq(AnswerType)

(* An open slot's path exists. *)
ServerType ==
  /\ slot \in [HandleIds -> SlotType]
  /\ \A h \in HandleIds : slot[h].handle # 0 => slot[h].path \in DOMAIN Tree
  /\ root_dir \in DirType
  /\ open_fds \in Nat
  /\ stdout \in [Procs -> Seq(Nat)]

FsType ==
  /\ packet \in [Procs -> PacketType]
  /\ lock \in [LockIds -> LockType \cup {NoLock}]
  /\ root_enum \in BOOLEAN
  /\ pending \in Seq(OpType)
  /\ seqno \in Nat /\ sent \in Nat
  /\ conn \in {"up", "failed", "gone", "crashed"}

TypeInv == ChannelType /\ ServerType /\ FsType

-----------------------------------------------------------------------------
(* The file server: its handlers keep the types, and answer every request  *)
(* but a close with the answer of its kind or an error.                     *)

(* An answer to the request m. *)
Answers(m, a) ==
  a \in AnswerType /\ a.seq = m.seq /\ a.kind \in {"ERROR", m.kind}

LEMMA ErrorAnswers ==
  ASSUME NEW m \in RequestType, NEW code \in NetErrors
  PROVE  Answers(m, ErrorAnswer(m.seq, code))
<1>1. m.seq \in Nat
  BY DEF RequestType
<1> QED
  BY <1>1 DEF Answers, ErrorAnswer, AnswerType

(* The paths of the tree are sequences of strings. *)
LEMMA PathTypes ==
  /\ Paths \subseteq Seq(STRING)
  /\ \A path \in DOMAIN Tree : Tree[path].type \in {"FILE", "DIR"} /\ Tree[path].size \in Nat
  /\ \A path \in Paths : DirSize(path) \in Nat
BY TreeAssumption, EmptySeq DEF Paths, DirSize

LEMMA FileBytesType ==
  ASSUME NEW path \in DOMAIN Tree, NEW offset \in Nat, NEW n \in Nat
  PROVE  /\ FileBytes(path, offset, n) \in Seq(Byte)
         /\ Len(FileBytes(path, offset, n)) <= n
<1> DEFINE left == Tree[path].size - offset
           len == IF left < 0 THEN 0 ELSE IF left < n THEN left ELSE n
<1>1. path \in Seq(STRING) /\ Tree[path].size \in Nat
  BY PathTypes DEF Paths
<1>2. len \in Nat /\ len <= n
  BY <1>1
<1>3. FileBytes(path, offset, n) = [i \in 1 .. len |-> <<path, offset + i - 1>>]
  BY DEF FileBytes
<1> HIDE DEF len
<1>4. \A i \in 1 .. len : <<path, offset + i - 1>> \in Byte
  BY <1>1, <1>2 DEF Byte
<1>5. FileBytes(path, offset, n) \in Seq(Byte)
  <2>1. FileBytes(path, offset, n) \in [1 .. len -> Byte]
    BY <1>3, <1>4
  <2> QED BY <1>2, <2>1, SeqDef
<1>6. Len(FileBytes(path, offset, n)) = len
  BY <1>2, <1>3, <1>5, LenProperties
<1> QED
  BY <1>2, <1>5, <1>6

(* What one of the server's handlers does about the request m. *)
Serves(m) ==
  /\ ServerType'
  /\ \/ m.kind # "CLOSE" /\ \E a \in AnswerType : Answers(m, a) /\ answers' = Append(answers, a)
     \/ m.kind = "CLOSE" /\ answers' = answers

(* Both lists are searched from the front. *)
LEMMA LeastElement ==
  ASSUME NEW T \in SUBSET Nat, T # {}
  PROVE  \E x \in T : \A y \in T : x <= y
<1>1. PICK x \in T : \A y \in T : ~(<<y, x>> \in OpToRel(<, Nat))
  BY NatLessThanWellFounded, WFMin
<1>2. \A y \in T : ~(y < x)
  <2> SUFFICES ASSUME NEW y \in T, y < x PROVE FALSE
    OBVIOUS
  <2>1. <<y, x>> \in Nat \X Nat
    OBVIOUS
  <2>2. <<y, x>> \in OpToRel(<, Nat)
    BY <2>1, Zenon DEF OpToRel
  <2> QED
    BY <1>1, <2>2, Zenon
<1> QED
  BY <1>2

(* make_handle finds a free slot when there is one. *)
LEMMA FreeIdIsFree ==
  ASSUME FreeIds # {}
  PROVE  FreeId \in HandleIds /\ slot[FreeId].handle = 0 /\ FreeId \in FreeIds
<1> DEFINE R == {h \in Nat : h \in FreeIds}
<1>1. FreeIds \subseteq Nat
  BY TreeAssumption DEF FreeIds, HandleIds
<1>2. \E h \in FreeIds : \A k \in FreeIds : h <= k
  BY <1>1, LeastElement
<1>3. FreeId \in FreeIds
  BY <1>2 DEF FreeId
<1> QED
  BY <1>3 DEF FreeIds

LEMMA ErrorServes ==
  ASSUME Request \in RequestType, Request.kind # "CLOSE", NEW code \in NetErrors,
         answers' = Append(answers, ErrorAnswer(Request.seq, code)), ServerType'
  PROVE  Serves(Request)
<1>1. Answers(Request, ErrorAnswer(Request.seq, code))
  BY ErrorAnswers
<1>2. ErrorAnswer(Request.seq, code) \in AnswerType
  BY <1>1 DEF Answers
<1> QED
  BY <1>1, <1>2, Zenon DEF Serves

(* Changing the fields of one slot keeps the types. *)
LEMMA SlotKeepsType ==
  ASSUME ServerType, NEW h \in HandleIds, NEW s \in SlotType,
         s.handle # 0 => s.path \in DOMAIN Tree,
         slot' = [slot EXCEPT ![h] = s], UNCHANGED <<root_dir, stdout>>, open_fds' \in Nat
  PROVE  ServerType'
BY DEF ServerType

LEMMA OpenServes ==
  ASSUME TypeInv, requests # <<>>, Request \in RequestType, Request.kind = "OPEN",
         open_handle_request
  PROVE  Serves(Request)
<1>0. ServerType /\ Request.seq \in Nat /\ Request.kind # "CLOSE"
  BY DEF TypeInv, RequestType
<1>1. CASE open_handle_too_many
  <2>1. answers' = Append(answers, ErrorAnswer(Request.seq, "TOO_MANY_FILES_OPEN"))
    BY <1>1 DEF open_handle_too_many, reply_with_error, Answer
  <2>2. ServerType'
    BY <1>0, <1>1 DEF open_handle_too_many, serverVars, ServerType
  <2> QED
    BY <1>0, <2>1, <2>2, ErrorServes DEF NetErrors
<1>2. CASE open_handle_not_found
  <2>1. answers' = Append(answers, ErrorAnswer(Request.seq, "NOT_FOUND"))
    BY <1>2 DEF open_handle_not_found, reply_with_error, Answer
  <2>2. ServerType'
    BY <1>0, <1>2 DEF open_handle_not_found, serverVars, ServerType
  <2> QED
    BY <1>0, <2>1, <2>2, ErrorServes DEF NetErrors
<1>3. CASE open_handle_fails
  <2>1. PICK code \in NetErrors : answers' = Append(answers, ErrorAnswer(Request.seq, code))
    BY <1>3 DEF open_handle_fails, reply_with_error, Answer, OpenErrors, NetErrors
  <2>2. FreeId \in HandleIds
    BY <1>3, FreeIdIsFree DEF open_handle_fails
  <2>3. ServerType'
    <3> DEFINE s == [slot[FreeId] EXCEPT !.type = "FILE"]
    <3>1. s \in SlotType /\ (s.handle # 0 => s.path \in DOMAIN Tree)
      BY <1>0, <2>2 DEF ServerType, SlotType
    <3>2. slot' = [slot EXCEPT ![FreeId] = s]
      BY <1>3, <1>0, <2>2 DEF open_handle_fails, ServerType
    <3>3. UNCHANGED <<root_dir, stdout>> /\ open_fds' \in Nat
      BY <1>3, <1>0 DEF open_handle_fails, ServerType
    <3> HIDE DEF s
    <3> QED
      BY <1>0, <2>2, <3>1, <3>2, <3>3, SlotKeepsType
  <2> QED
    BY <1>0, <2>1, <2>3, ErrorServes
<1>4. CASE open_handle_succeeds
  <2>1. FreeId \in HandleIds
    BY <1>4, FreeIdIsFree DEF open_handle_succeeds
  <2> DEFINE node == Tree[Request.path]
             file == node.type = "FILE"
             s == [slot[FreeId] EXCEPT !.handle = IF file THEN 1 ELSE -1,
                      !.type = node.type, !.path = Request.path]
             a == OpenAnswer(Request.seq, FreeId, node.type, IF file THEN node.size ELSE 0)
  <2>2. Request.path \in DOMAIN Tree /\ node.type \in {"FILE", "DIR"} /\ node.size \in Nat
    BY <1>4, PathTypes DEF open_handle_succeeds
  <2>3. slot' = [slot EXCEPT ![FreeId] = s] /\ UNCHANGED <<root_dir, stdout>>
    BY <1>4, <1>0, <2>1 DEF open_handle_succeeds, ServerType
  <2>4. open_fds' \in Nat
    BY <1>4, <1>0 DEF open_handle_succeeds, ServerType
  <2>5. s \in SlotType /\ s.path \in DOMAIN Tree
    BY <1>0, <2>1, <2>2, ZenonT(60) DEF ServerType, SlotType
  <2>6. answers' = Append(answers, a)
    BY <1>4 DEF open_handle_succeeds, Answer
  <2>7. a \in AnswerType /\ Answers(Request, a)
    BY <1>0, <2>1, <2>2 DEF AnswerType, OpenAnswer, Answers
  <2> HIDE DEF a, s
  <2>8. ServerType'
    BY <1>0, <2>1, <2>3, <2>4, <2>5, SlotKeepsType
  <2> QED
    BY <2>6, <2>7, <2>8 DEF Serves
<1> QED
  BY <1>1, <1>2, <1>3, <1>4 DEF open_handle_request

LEMMA CloseServes ==
  ASSUME TypeInv, Request \in RequestType, Request.kind = "CLOSE", close_handle_request
  PROVE  Serves(Request)
<1>0. ServerType
  BY DEF TypeInv
<1>1. open_fds' \in Nat /\ UNCHANGED <<answers, root_dir, stdout>>
  BY <1>0 DEF close_handle_request, ClosedFds, ServerType
<1>2. CASE Request.handle \in HandleIds
  <2> DEFINE s == [slot[Request.handle] EXCEPT !.handle = 0]
  <2>0. slot[Request.handle] \in SlotType
    BY <1>0, <1>2 DEF ServerType
  <2>1. s \in SlotType /\ s.handle = 0
    BY <2>0 DEF SlotType
  <2>2. slot' = [slot EXCEPT ![Request.handle] = s]
    BY <1>2, <1>0 DEF close_handle_request, closed_slot, ServerType
  <2> HIDE DEF s
  <2>3. ServerType'
    BY <1>0, <1>1, <1>2, <2>1, <2>2, SlotKeepsType
  <2> QED
    BY <1>1, <2>3 DEF Serves
<1>3. CASE Request.handle \notin HandleIds
  BY <1>0, <1>1, <1>3 DEF close_handle_request, closed_slot, ServerType, Serves
<1> QED
  BY <1>2, <1>3

(* A directory that a find request leaves open. *)
LEMMA SetFindDirKeepsType ==
  ASSUME TypeInv, Request \in RequestType, IsDirectory(Request.handle),
         NEW dir \in DirType, SetFindDir(dir), UNCHANGED <<open_fds, stdout>>
  PROVE  ServerType'
<1>0. ServerType
  BY DEF TypeInv
<1>1. CASE Request.handle = ROOT
  BY <1>0, <1>1 DEF SetFindDir, ServerType
<1>2. CASE Request.handle # ROOT
  <2> DEFINE h == Request.handle
             s == [slot[h] EXCEPT !.dir = dir]
  <2>1. h \in HandleIds
    BY <1>2 DEF IsDirectory
  <2>2. slot[h] \in SlotType /\ (slot[h].handle # 0 => slot[h].path \in DOMAIN Tree)
    BY <1>0, <2>1 DEF ServerType
  <2>3. s \in SlotType /\ (s.handle # 0 => s.path \in DOMAIN Tree)
    BY <2>2 DEF SlotType, DirType, Paths
  <2>4. slot' = [slot EXCEPT ![h] = s] /\ UNCHANGED <<root_dir, stdout>>
    BY <1>0, <1>2, <2>1 DEF SetFindDir, ServerType
  <2>5. open_fds' \in Nat
    BY <1>0 DEF ServerType
  <2> HIDE DEF h, s
  <2> QED
    BY <1>0, <2>1, <2>3, <2>4, <2>5, SlotKeepsType
<1> QED
  BY <1>1, <1>2

LEMMA FindDirType ==
  ASSUME TypeInv, Request \in RequestType, IsDirectory(Request.handle)
  PROVE  /\ FindDir \in Paths \X Nat
         /\ FindDir[1] \in Paths /\ FindDir[2] \in Nat /\ DirSize(FindDir[1]) \in Nat
         /\ FindDir \in DirType /\ NoDir \in DirType
         /\ <<FindDir[1], FindDir[2] + 1>> \in DirType
         /\ <<FindDir[1], FindDir[2] + 1>> \in Byte
<1>0. ServerType
  BY DEF TypeInv
<1>1. CASE Request.handle = ROOT
  <2>1. root_dir \in DirType /\ <<>> \in Paths
    BY <1>0 DEF ServerType, Paths
  <2> QED
    BY <1>1, <2>1, PathTypes DEF FindDir, rewound, DirType, NoDir, Byte
<1>2. CASE Request.handle # ROOT
  <2>1. Request.handle \in HandleIds
    BY <1>2 DEF IsDirectory
  <2>2. slot[Request.handle].dir \in DirType /\ slot[Request.handle].path \in Paths
    BY <1>0, <2>1 DEF ServerType, SlotType, DirType, Paths
  <2> QED
    BY <1>2, <2>2, PathTypes DEF FindDir, rewound, DirType, NoDir, Byte
<1> QED
  BY <1>1, <1>2

LEMMA FindServes ==
  ASSUME TypeInv, Request \in RequestType, Request.kind = "FIND", find_next_file_request
  PROVE  Serves(Request)
<1>0. ServerType /\ Request.seq \in Nat /\ Request.kind # "CLOSE"
  BY DEF TypeInv, RequestType
<1>1. CASE find_next_file_not_dir
  <2>1. answers' = Append(answers, ErrorAnswer(Request.seq, "NOT_A_DIRECTORY"))
    BY <1>1 DEF find_next_file_not_dir, reply_with_error, Answer
  <2>2. ServerType'
    BY <1>0, <1>1 DEF find_next_file_not_dir, serverVars, ServerType
  <2> QED
    BY <1>0, <2>1, <2>2, ErrorServes DEF NetErrors
<1>2. CASE find_next_file_fails
  <2>1. answers' = Append(answers, ErrorAnswer(Request.seq, "IO_ERROR"))
    BY <1>2 DEF find_next_file_fails, reply_with_error, Answer
  <2>2. IsDirectory(Request.handle) /\ UNCHANGED <<open_fds, stdout>>
    BY <1>2 DEF find_next_file_fails
  <2>3. PICK dir \in DirType : SetFindDir(dir)
    BY <1>2, <2>2, FindDirType DEF find_next_file_fails
  <2>4. ServerType'
    BY <2>2, <2>3, SetFindDirKeepsType
  <2> QED
    BY <1>0, <2>1, <2>4, ErrorServes DEF NetErrors
<1>3. CASE find_next_file_succeeds
  <2> DEFINE next == <<FindDir[1], FindDir[2] + 1>>
             end == FindDir[2] >= DirSize(FindDir[1])
             a == FindAnswer(Request.seq, end, IF end THEN NoDir ELSE next)
  <2>1. IsDirectory(Request.handle) /\ UNCHANGED <<open_fds, stdout>>
    BY <1>3 DEF find_next_file_succeeds
  <2>2. FindDir \in DirType /\ next \in DirType /\ next \in Byte
    BY <2>1, FindDirType
  <2>3. PICK dir \in DirType : SetFindDir(dir)
    BY <1>3, <2>2 DEF find_next_file_succeeds
  <2>4. ServerType'
    BY <2>1, <2>3, SetFindDirKeepsType
  <2>5. answers' = Append(answers, a)
    BY <1>3 DEF find_next_file_succeeds, Answer
  <2>6. end \in BOOLEAN
    OBVIOUS
  <2>7. a \in AnswerType /\ a.seq = Request.seq /\ a.kind = Request.kind
    <3>1. CASE end
      <4>1. a = FindAnswer(Request.seq, TRUE, NoDir)
        BY <3>1
      <4> HIDE DEF a
      <4> QED
        BY <1>0, <4>1 DEF FindAnswer, AnswerType
    <3>2. CASE ~end
      <4>0. end = FALSE
        BY <3>2
      <4>1. a = FindAnswer(Request.seq, FALSE, next)
        BY <4>0, Zenon
      <4> HIDE DEF a, next
      <4> QED
        BY <1>0, <4>1, <2>2 DEF FindAnswer, AnswerType
    <3> QED
      BY <3>1, <3>2
  <2> HIDE DEF a
  <2> QED
    BY <1>0, <2>4, <2>5, <2>7 DEF Serves, Answers
<1> QED
  BY <1>1, <1>2, <1>3 DEF find_next_file_request

LEMMA ReadServes ==
  ASSUME TypeInv, Request \in RequestType, Request.kind = "READ", read_file_request
  PROVE  Serves(Request)
<1>0. /\ ServerType /\ Request.seq \in Nat /\ Request.kind # "CLOSE"
      /\ Request.offset \in Nat
  BY DEF TypeInv, RequestType
<1>1. ServerType'
  BY <1>0 DEF read_file_request, serverVars, ServerType
<1>2. CASE read_file_refused
  <2>1. answers' = Append(answers, ErrorAnswer(Request.seq, "NOT_A_FILE"))
    BY <1>2 DEF read_file_refused, reply_with_error, Answer
  <2> QED
    BY <1>0, <1>1, <2>1, ErrorServes DEF NetErrors
<1>3. CASE read_file_fails
  <2>1. answers' = Append(answers, ErrorAnswer(Request.seq, "IO_ERROR"))
    BY <1>3 DEF read_file_fails, reply_with_error, Answer
  <2> QED
    BY <1>0, <1>1, <2>1, ErrorServes DEF NetErrors
<1>4. CASE read_file_succeeds
  <2> DEFINE data == FileBytes(slot[Request.handle].path, Request.offset, Chunk)
             a == ReadAnswer(Request.seq, data)
  <2>1. slot[Request.handle].path \in DOMAIN Tree
    BY <1>0, <1>4 DEF read_file_succeeds, ServerType
  <2>2. data \in Seq(Byte)
    BY <1>0, <2>1, FileBytesType, TreeAssumption
  <2>3. answers' = Append(answers, a)
    BY <1>4 DEF read_file_succeeds, Answer
  <2> HIDE DEF data
  <2>4. a \in AnswerType /\ Answers(Request, a)
    BY <1>0, <2>2 DEF AnswerType, ReadAnswer, Answers
  <2> HIDE DEF a
  <2> QED
    BY <1>0, <1>1, <2>3, <2>4 DEF Serves
<1> QED
  BY <1>2, <1>3, <1>4 DEF read_file_request

LEMMA WriteServes ==
  ASSUME TypeInv, Request \in RequestType, Request.kind = "WRITE", write_file_request
  PROVE  Serves(Request)
<1>0. /\ ServerType /\ Request.seq \in Nat /\ Request.kind # "CLOSE"
      /\ Request.data \in Seq(Nat) /\ Request.writer \in Procs
  BY DEF TypeInv, RequestType
<1>1. stdout' \in [Procs -> Seq(Nat)]
  <2>1. stdout \in [Procs -> Seq(Nat)]
    BY <1>0 DEF ServerType
  <2>2. stdout[Request.writer] \o Request.data \in Seq(Nat)
    BY <1>0, <2>1, ConcatProperties
  <2> QED
    BY <1>0, <2>1, <2>2 DEF write_file_request
<1>2. ServerType'
  BY <1>0, <1>1 DEF write_file_request, ServerType
<1>3. answers' = Append(answers, WriteAnswer(Request.seq))
  BY DEF write_file_request, Answer
<1>4. WriteAnswer(Request.seq) \in AnswerType /\ Answers(Request, WriteAnswer(Request.seq))
  BY <1>0 DEF AnswerType, WriteAnswer, Answers
<1> QED
  BY <1>0, <1>2, <1>3, <1>4 DEF Serves

(* A step of the server takes the first request and serves it. *)
LEMMA ServerStepServes ==
  ASSUME TypeInv, rl_file_serve
  PROVE  /\ Request \in RequestType /\ requests # <<>>
         /\ requests' = Tail(requests) /\ Serves(Request)
<1>1. requests # <<>> /\ requests' = Tail(requests)
  BY DEF rl_file_serve
<1>2. Request \in RequestType
  BY <1>1, HeadTailProperties DEF TypeInv, ChannelType, Request
<1>3. CASE Request.kind = "OPEN" /\ open_handle_request
  BY <1>1, <1>2, <1>3, OpenServes
<1>4. CASE Request.kind = "CLOSE" /\ close_handle_request
  BY <1>1, <1>2, <1>4, CloseServes
<1>5. CASE Request.kind = "READ" /\ read_file_request
  BY <1>1, <1>2, <1>5, ReadServes
<1>6. CASE Request.kind = "WRITE" /\ write_file_request
  BY <1>1, <1>2, <1>6, WriteServes
<1>7. CASE Request.kind = "FIND" /\ find_next_file_request
  BY <1>1, <1>2, <1>7, FindServes
<1>8. CASE Request.kind = "ERROR" /\ bad_request
  <2>1. answers' = Append(answers, ErrorAnswer(Request.seq, "BAD_REQUEST"))
    BY <1>8 DEF bad_request, reply_with_error, Answer
  <2>2. ServerType' /\ Request.kind # "CLOSE"
    BY <1>8 DEF bad_request, serverVars, ServerType, TypeInv
  <2>3. Serves(Request)
    BY <1>2, <2>1, <2>2, ErrorServes DEF NetErrors
  <2> QED
    BY <1>1, <1>2, <2>3
<1> QED
  BY <1>3, <1>4, <1>5, <1>6, <1>7, <1>8 DEF rl_file_serve

-----------------------------------------------------------------------------
(* The handler: every packet is either replied to at once or held with an   *)
(* operation, and its lock is the sender's own.                             *)

(* The kind of answer that a packet may wait for. *)
Waits(type) ==
  CASE type \in {"FINDINPUT", "LOCATE_OBJECT"} -> "OPEN"
    [] type = "READ" -> "READ"
    [] type = "WRITE" -> "WRITE"
    [] type = "EXAMINE_NEXT" -> "FIND"
    [] OTHER -> "NONE"

Held == {p \in Procs : packet[p].state = "held"}
Free == {l \in LockIds : lock[l] = NoLock}

OwnLock(p, l, fh) ==
  l \in LockIds /\ lock[l] # NoLock /\ lock[l].owner = p /\ lock[l].fh = fh

(* The lock of p's held packet belongs to p, who waits and cannot free it.  *)
ArgOk(p) ==
  LET pkt == packet[p]
  IN  /\ pkt.type \in {"READ", "WRITE"} => OwnLock(p, pkt.arg, TRUE)
      /\ pkt.type = "EXAMINE_NEXT" => OwnLock(p, pkt.arg, FALSE)
      /\ pkt.type = "LOCATE_OBJECT" => pkt.arg = NullLock \/ OwnLock(p, pkt.arg, FALSE)
      /\ pkt.type = "READ" => Len(pkt.data) <= pkt.count

(* Locks on the device share the root's handle. *)
GoodLock(r) ==
  /\ r.type = "DEVICE" => r.handle_id = ROOT
  /\ r.handle_id \in HandleIds => r.type \in {"FILE", "DIR"}

LockInv == \A l \in LockIds : lock[l] # NoLock => GoodLock(lock[l])

(* The object that a packet asks to open. *)
PathOf(pkt) ==
  IF pkt.type = "FINDINPUT" THEN pkt.path ELSE normalize_object_path(pkt.arg, pkt.path)

(* The request that the operation op waits for the answer to. *)
Asks(msg, op) ==
  LET pkt == packet[op.packet]
      h == lock[pkt.arg]
  IN  /\ msg.seq = op.request_seqno /\ msg.kind = op.expects
      /\ op.expects = Waits(pkt.type)
      /\ op.expects = "OPEN" => msg.path = PathOf(pkt)
      /\ op.expects = "READ" => msg.handle = h.handle_id /\ msg.offset = h.offset
      /\ op.expects = "WRITE" =>
           /\ msg.handle = h.handle_id /\ msg.writer = op.packet
           /\ msg.source = op.source /\ msg.data = WriteData(op.source, op.length)
      /\ op.expects = "FIND" => msg.handle = h.handle_id

(* What may happen to the locks. *)
SameHandle(a, b) ==
  /\ a.owner = b.owner /\ a.fh = b.fh /\ a.handle_id = b.handle_id
  /\ a.type = b.type /\ a.path = b.path /\ a.size = b.size

Touched ==
  /\ lock' \in [LockIds -> LockType \cup {NoLock}]
  /\ \A l \in LockIds :
       /\ lock[l] = NoLock <=> lock'[l] = NoLock
       /\ lock[l] # NoLock => SameHandle(lock'[l], lock[l])

Created(p, r) ==
  /\ r \in LockType /\ r.owner = p /\ GoodLock(r) /\ NewLockId \in Free
  /\ lock' = [lock EXCEPT ![NewLockId] = r]

Freed(p, l) ==
  /\ l \in LockIds /\ lock[l] # NoLock /\ lock[l].owner = p
  /\ lock' = [lock EXCEPT ![l] = NoLock]

NothingSent == UNCHANGED <<requests, seqno, conn>>

(* p may send a packet. *)
Room(p) ==
  /\ packet[p].state # "held" /\ conn \in {"up", "failed"}
  /\ Cardinality(Free) > Cardinality(Held)

Puts(p, pkt) == pkt \in PacketType /\ packet' = [packet EXCEPT ![p] = pkt]

ReplyStep(p) ==
  /\ \E pkt \in PacketType : Puts(p, pkt) /\ pkt.state = "replied"
  /\ pending' = pending
  /\ \/ Touched /\ NothingSent
     \/ /\ \E r \in LockType : Created(p, r) /\ (r.handle_id \in HandleIds => "COPY_DIR" \in Ops)
        /\ NothingSent
     \/ \E l \in LockIds :
          /\ Freed(p, l)
          /\ \/ lock[l].handle_id \notin HandleIds /\ NothingSent
             \/ transmit_message(CloseRequest(seqno, lock[l].handle_id)) /\ seqno' = seqno + 1

HoldStep(p) ==
  /\ \E pkt \in PacketType : Puts(p, pkt) /\ pkt.state = "held" /\ pkt.type # "DIE"
  /\ Touched /\ ArgOk(p)'
  /\ \E op \in OpType, msg \in RequestType :
       /\ pending' = <<op>> \o pending /\ op.packet = p /\ op.request_seqno = seqno
       /\ transmit_message(msg) /\ seqno' = seqno + 1
       /\ Asks(msg, op)'

(* ACTION_DIE, or a lock for the root that cannot be allocated. *)
LostStep(p) ==
  /\ \E pkt \in PacketType :
       /\ Puts(p, pkt) /\ pkt.state = "held"
       /\ \/ pkt.type = "DIE" /\ conn' = conn
          \/ pkt.type = "LOCATE_OBJECT" /\ conn' = "crashed"
  /\ ArgOk(p)'
  /\ UNCHANGED <<lock, pending, requests, seqno>>

PacketStep(p) == ReplyStep(p) \/ HoldStep(p) \/ LostStep(p)

LEMMA LockTypes ==
  /\ \A r \in LockType : r # NoLock
  /\ FsType => \A l \in LockIds : lock[l] # NoLock => lock[l] \in LockType
BY DEF FsType, LockType, NoLock

LEMMA NewPacketType ==
  ASSUME NEW type \in Types, NEW arg \in LockIds \cup {NullLock}, NEW path \in Seq(STRING),
         NEW count \in Nat, NEW from \in Nat
  PROVE  LET pkt == NewPacket(type, arg, path, count, from)
         IN  /\ pkt \in PacketType /\ pkt.state = "held" /\ pkt.type = type
             /\ pkt.arg = arg /\ pkt.path = path /\ pkt.count = count
             /\ pkt.from = from /\ pkt.data = <<>>
<1>1. <<>> \in Seq(Seq(STRING) \X Nat)
  OBVIOUS
<1>2. "0" \in DosErrors
  BY DEF DosErrors
<1> QED
  BY <1>1, <1>2 DEF NewPacket, PacketType

FreshPacket(pkt, type, arg, path, count, from) ==
  /\ pkt \in PacketType /\ pkt.state = "held" /\ pkt.type = type /\ pkt.arg = arg
  /\ pkt.path = path /\ pkt.count = count /\ pkt.from = from /\ pkt.data = <<>>

LEMMA NewPacketIsFresh ==
  \A type \in Types, arg \in LockIds \cup {NullLock}, path \in Seq(STRING),
     count \in Nat, from \in Nat :
    FreshPacket(NewPacket(type, arg, path, count, from), type, arg, path, count, from)
<1> SUFFICES ASSUME NEW type \in Types, NEW arg \in LockIds \cup {NullLock},
                    NEW path \in Seq(STRING), NEW count \in Nat, NEW from \in Nat
             PROVE  FreshPacket(NewPacket(type, arg, path, count, from), type, arg, path, count, from)
  OBVIOUS
<1> QED
  BY NewPacketType DEF FreshPacket

LEMMA RepliedType ==
  ASSUME NEW pkt \in PacketType, NEW res \in Int \cup LockIds, NEW err \in DosErrors
  PROVE  LET new == Replied(pkt, res, err)
         IN  /\ new \in PacketType /\ new.state = "replied" /\ new.type = pkt.type
             /\ new.arg = pkt.arg /\ new.path = pkt.path /\ new.count = pkt.count
             /\ new.from = pkt.from /\ new.data = pkt.data /\ new.res = res /\ new.err = err
BY DEF Replied, PacketType

(* r is a new lock for p. *)
FreshLock(r, p, fh, type, id, path, size) ==
  /\ r \in LockType /\ r.owner = p /\ r.fh = fh /\ r.handle_id = id
  /\ r.type = type /\ r.path = path /\ r.size = size
  /\ r.offset = 0 /\ r.buffer = <<>> /\ r.seen = 0 /\ r.enum = FALSE

LockKinds == {"FILE", "DIR", "DEVICE", "VIRTUAL_INPUT", "VIRTUAL_OUTPUT"}

LEMMA AllocatedType ==
  \A p \in Procs, fh \in BOOLEAN, type \in LockKinds, id \in Int, path \in Seq(STRING),
     size \in Nat :
    FreshLock(allocate_lock(p, fh, type, id, path, size), p, fh, type, id, path, size)
<1>1. <<>> \in Seq(Seq(STRING) \X Nat)
  OBVIOUS
<1> QED
  BY <1>1 DEF FreshLock, allocate_lock, LockType, LockKinds

LEMMA FiniteSets ==
  /\ IsFiniteSet(Held) /\ IsFiniteSet(Free)
  /\ Cardinality(Held) \in Nat /\ Cardinality(Free) \in Nat
<1>1. Held \in SUBSET Procs /\ Free \in SUBSET LockIds
  BY DEF Held, Free
<1>2. IsFiniteSet(Held) /\ IsFiniteSet(Free)
  BY <1>1, FsAssumption, FS_Subset
<1> QED
  BY <1>2, FS_CardinalityType

LEMMA MaySendRoom ==
  ASSUME NEW p, NEW type, MaySend(p, type)
  PROVE  Room(p)
BY DEF MaySend, Room, Free, Held

(* There is a lock to be had while packets are held or may be sent. *)
LEMMA RoomForLock ==
  ASSUME Cardinality(Free) > 0
  PROVE  NewLockId \in Free
<1>1. Free # {}
  BY FS_EmptySet
<1> QED
  BY <1>1 DEF NewLockId, Free

LEMMA TouchedRefl ==
  ASSUME FsType, UNCHANGED lock
  PROVE  Touched
BY DEF Touched, SameHandle, FsType

(* Changing fields of a handle other than those that say what it is. *)
LEMMA TouchedOne ==
  ASSUME FsType, NEW l \in LockIds, lock[l] # NoLock, NEW r \in LockType,
         SameHandle(r, lock[l]), lock' = [lock EXCEPT ![l] = r]
  PROVE  Touched
<1>1. r # NoLock
  BY LockTypes
<1>2. \A k \in LockIds : lock'[k] = IF k = l THEN r ELSE lock[k]
  BY DEF FsType
<1>3. lock' \in [LockIds -> LockType \cup {NoLock}]
  BY DEF FsType
<1> QED
  BY <1>1, <1>2, <1>3 DEF Touched, SameHandle

(* A packet that is replied to at once and changes no lock. *)
LEMMA PlainReply ==
  ASSUME FsType, NEW p \in Procs, NEW pkt \in PacketType,
         NEW res \in Int \cup LockIds, NEW err \in DosErrors,
         packet' = [packet EXCEPT ![p] = Replied(pkt, res, err)],
         Touched, NothingSent, pending' = pending
  PROVE  ReplyStep(p)
<1>1. Replied(pkt, res, err) \in PacketType /\ Replied(pkt, res, err).state = "replied"
  BY RepliedType
<1>2. \E new \in PacketType : Puts(p, new) /\ new.state = "replied"
  BY <1>1 DEF Puts
<1> QED
  BY <1>2 DEF ReplyStep

LEMMA LockReply ==
  ASSUME FsType, NEW p \in Procs, Room(p), NEW pkt \in PacketType, NEW r \in LockType,
         r.owner = p, GoodLock(r), r.handle_id \in HandleIds => "COPY_DIR" \in Ops,
         NEW err \in DosErrors,
         \/ /\ lock' = [lock EXCEPT ![NewLockId] = r]
            /\ packet' = [packet EXCEPT ![p] = Replied(pkt, NewLockId, "0")]
         \/ /\ packet' = [packet EXCEPT ![p] = Replied(pkt, 0, err)]
            /\ UNCHANGED lock,
         NothingSent, pending' = pending
  PROVE  ReplyStep(p)
<1>1. CASE /\ lock' = [lock EXCEPT ![NewLockId] = r]
           /\ packet' = [packet EXCEPT ![p] = Replied(pkt, NewLockId, "0")]
  <2>1. NewLockId \in Free
    BY RoomForLock, FiniteSets DEF Room
  <2>2. NewLockId \in Int \cup LockIds /\ "0" \in DosErrors
    BY <2>1 DEF Free, DosErrors
  <2>3. /\ Replied(pkt, NewLockId, "0") \in PacketType
        /\ Replied(pkt, NewLockId, "0").state = "replied"
    BY <2>2, RepliedType
  <2>4. \E new \in PacketType : Puts(p, new) /\ new.state = "replied"
    BY <1>1, <2>3 DEF Puts
  <2>5. Created(p, r)
    BY <1>1, <2>1 DEF Created
  <2> QED
    BY <2>4, <2>5 DEF ReplyStep
<1>2. CASE /\ packet' = [packet EXCEPT ![p] = Replied(pkt, 0, err)]
           /\ UNCHANGED lock
  <2>1. Touched
    BY <1>2, TouchedRefl
  <2>2. 0 \in Int \cup LockIds
    OBVIOUS
  <2> QED
    BY <1>2, <2>1, <2>2, PlainReply
<1> QED
  BY <1>1, <1>2

(* A packet held with an operation whose request is sent. *)
LEMMA HoldOk ==
  ASSUME NEW p \in Procs, NEW pkt \in PacketType, NEW op \in OpType, NEW msg \in RequestType,
         pkt.state = "held", pkt.type # "DIE", packet' = [packet EXCEPT ![p] = pkt],
         pending' = <<op>> \o pending, op.packet = p, op.request_seqno = seqno,
         transmit_message(msg), seqno' = seqno + 1,
         Touched, ArgOk(p)', Asks(msg, op)'
  PROVE  HoldStep(p)
<1>1. \E x \in PacketType : Puts(p, x) /\ x.state = "held" /\ x.type # "DIE"
  BY DEF Puts
<1> QED
  BY <1>1 DEF HoldStep

LEMMA RequestTypes ==
  ASSUME NEW seq \in Nat, NEW h \in Int
  PROVE  /\ \A path \in Seq(STRING) : OpenRequest(seq, path) \in RequestType
         /\ CloseRequest(seq, h) \in RequestType
         /\ \A offset \in Nat : ReadRequest(seq, h, offset) \in RequestType
         /\ \A p \in Procs, source \in Nat, data \in Seq(Nat) :
              WriteRequest(seq, h, p, source, data) \in RequestType
         /\ \A reset \in BOOLEAN : FindRequest(seq, h, reset) \in RequestType
BY DEF RequestType, OpenRequest, CloseRequest, ReadRequest, WriteRequest, FindRequest

LEMMA SpecialIds ==
  /\ ROOT \in Int /\ RL_FILEHANDLE_VIRTUAL_INPUT \in Int
  /\ RL_FILEHANDLE_VIRTUAL_OUTPUT \in Int
  /\ ROOT \notin HandleIds /\ RL_FILEHANDLE_VIRTUAL_INPUT \notin HandleIds
  /\ RL_FILEHANDLE_VIRTUAL_OUTPUT \notin HandleIds
  /\ HandleIds \subseteq Int
  /\ 0 \in Int \cup LockIds /\ 1 \in Int \cup LockIds
BY TreeAssumption
   DEF ROOT, RL_FILEHANDLE_VIRTUAL_INPUT, RL_FILEHANDLE_VIRTUAL_OUTPUT, HandleIds

LEMMA FindinputStep ==
  ASSUME TypeInv, NEW p \in Procs, action_findinput(p)
  PROVE  Room(p) /\ PacketStep(p)
<1>0. FsType /\ Room(p)
  BY MaySendRoom DEF TypeInv, action_findinput
<1>1. PICK dir \in Locks(p, FALSE) \cup {NullLock}, path \in Names \ {<<>>} :
        LET pkt == NewPacket("FINDINPUT", dir, path, 0, 0)
        IN  IF path = VirtualInput
              THEN ReplyLock(p, pkt, allocate_lock(p, TRUE, "VIRTUAL_INPUT",
                     RL_FILEHANDLE_VIRTUAL_INPUT, path, 0), "NO_FREE_STORE")
              ELSE /\ \/ Hold(p, pkt, "OPEN", 0, OpenRequest(seqno, FindinputPath(dir, path)))
                      \/ HoldFails(p, pkt)
                   /\ UNCHANGED <<lock, root_enum>>
  BY DEF action_findinput
<1> DEFINE pkt == NewPacket("FINDINPUT", dir, path, 0, 0)
<1>2. dir \in LockIds \cup {NullLock} /\ path \in Seq(STRING) /\ "FINDINPUT" \in Types
  BY FsAssumption DEF Locks, Types
<1>3. /\ pkt \in PacketType /\ pkt.state = "held" /\ pkt.type = "FINDINPUT"
      /\ pkt.path = path
  BY <1>2, NewPacketType
<1>4. CASE path = VirtualInput
  <2> DEFINE r == allocate_lock(p, TRUE, "VIRTUAL_INPUT", RL_FILEHANDLE_VIRTUAL_INPUT, path, 0)
  <2>1. /\ r \in LockType /\ r.owner = p /\ r.handle_id = RL_FILEHANDLE_VIRTUAL_INPUT
        /\ r.type = "VIRTUAL_INPUT"
    <3>1. TRUE \in BOOLEAN /\ 0 \in Nat /\ "VIRTUAL_INPUT" \in LockKinds
      BY DEF LockKinds
    <3>2. FreshLock(r, p, TRUE, "VIRTUAL_INPUT", RL_FILEHANDLE_VIRTUAL_INPUT, path, 0)
      BY <1>2, <3>1, SpecialIds, AllocatedType
    <3> QED
      BY <3>2 DEF FreshLock
  <2>2. r.handle_id \notin HandleIds
    BY <2>1, SpecialIds
  <2>3. GoodLock(r)
    BY <2>1, <2>2 DEF GoodLock
  <2>4. ReplyLock(p, pkt, r, "NO_FREE_STORE")
    BY <1>1, <1>4
  <2>5. "NO_FREE_STORE" \in DosErrors
    BY DEF DosErrors
  <2> HIDE DEF pkt, r
  <2>6. ReplyStep(p)
    BY <1>0, <1>3, <2>1, <2>2, <2>3, <2>4, <2>5, LockReply
       DEF ReplyLock, reply_to_packet, NothingSent
  <2> QED
    BY <1>0, <2>6 DEF PacketStep
<1>5. CASE path # VirtualInput
  <2> DEFINE m == OpenRequest(seqno, path)
             o == [request_seqno |-> seqno, packet |-> p, expects |-> "OPEN",
                   source |-> 0, length |-> 0]
  <2>1. Touched
    BY <1>0, <1>1, <1>5, TouchedRefl
  <2>2. CASE HoldFails(p, pkt)
    BY <1>0, <1>3, <2>1, <2>2, SpecialIds, PlainReply
       DEF HoldFails, reply_to_packet, NothingSent, PacketStep, DosErrors
  <2>3. CASE Hold(p, pkt, "OPEN", 0, OpenRequest(seqno, FindinputPath(dir, path)))
    <3>1. seqno \in Nat
      BY <1>0 DEF FsType
    <3>2. PICK msg \in RequestType : msg = m
      BY <1>2, <3>1, RequestTypes DEF RequestType, OpenRequest
    <3>3. PICK op \in OpType : op = o
      BY <3>1 DEF OpType
    <3>4. /\ packet' = [packet EXCEPT ![p] = pkt]
          /\ pending' = <<op>> \o pending /\ seqno' = seqno + 1
          /\ transmit_message(msg)
      BY <2>3, <3>2, <3>3 DEF Hold, alloc_pending, FindinputPath
    <3>5. packet'[p] = pkt
      BY <1>0, <3>4 DEF FsType
    <3>6. ArgOk(p)'
      BY <1>3, <3>5 DEF ArgOk
    <3>7. Asks(msg, op)'
      BY <1>3, <3>2, <3>3, <3>5 DEF Asks, Waits, PathOf, OpenRequest
    <3>8. op.packet = p /\ op.request_seqno = seqno
      BY <3>3
    <3> HIDE DEF pkt
    <3>9. HoldStep(p)
      BY <1>3, <2>1, <3>4, <3>6, <3>7, <3>8, HoldOk
    <3> QED
      BY <1>0, <3>9 DEF PacketStep
  <2> QED
    BY <1>1, <1>5, <2>2, <2>3
<1> QED
  BY <1>4, <1>5

LEMMA FindoutputStep ==
  ASSUME TypeInv, NEW p \in Procs, action_findoutput(p)
  PROVE  Room(p) /\ PacketStep(p)
<1>0. FsType /\ Room(p)
  BY MaySendRoom DEF TypeInv, action_findoutput
<1>1. PICK path \in Names \ {<<>>} :
        LET pkt == NewPacket("FINDOUTPUT", NullLock, path, 0, 0)
        IN  IF path = VirtualOutput
              THEN ReplyLock(p, pkt, allocate_lock(p, TRUE, "VIRTUAL_OUTPUT",
                     RL_FILEHANDLE_VIRTUAL_OUTPUT, path, 0), "0")
              ELSE /\ reply_to_packet(p, pkt, 0, "0")
                   /\ UNCHANGED <<requests, lock, root_enum, pending, seqno, conn>>
  BY DEF action_findoutput
<1> DEFINE pkt == NewPacket("FINDOUTPUT", NullLock, path, 0, 0)
           r == allocate_lock(p, TRUE, "VIRTUAL_OUTPUT", RL_FILEHANDLE_VIRTUAL_OUTPUT, path, 0)
<1>2. path \in Seq(STRING) /\ "FINDOUTPUT" \in Types /\ "0" \in DosErrors
  BY FsAssumption DEF Types, DosErrors
<1>3. pkt \in PacketType
  BY <1>2, NewPacketType
<1>4. CASE path = VirtualOutput
  <2>1. /\ r \in LockType /\ r.owner = p /\ r.handle_id = RL_FILEHANDLE_VIRTUAL_OUTPUT
        /\ r.type = "VIRTUAL_OUTPUT"
    <3>1. TRUE \in BOOLEAN /\ 0 \in Nat /\ "VIRTUAL_OUTPUT" \in LockKinds
      BY DEF LockKinds
    <3>2. FreshLock(r, p, TRUE, "VIRTUAL_OUTPUT", RL_FILEHANDLE_VIRTUAL_OUTPUT, path, 0)
      BY <1>2, <3>1, SpecialIds, AllocatedType
    <3> QED
      BY <3>2 DEF FreshLock
  <2>2. r.handle_id \notin HandleIds
    BY <2>1, SpecialIds
  <2>3. GoodLock(r)
    BY <2>1, <2>2 DEF GoodLock
  <2>4. ReplyLock(p, pkt, r, "0")
    BY <1>1, <1>4
  <2> HIDE DEF pkt, r
  <2>5. ReplyStep(p)
    BY <1>0, <1>2, <1>3, <2>1, <2>2, <2>3, <2>4, LockReply
       DEF ReplyLock, reply_to_packet, NothingSent
  <2> QED
    BY <1>0, <2>5 DEF PacketStep
<1>5. CASE path # VirtualOutput
  <2>1. /\ packet' = [packet EXCEPT ![p] = Replied(pkt, 0, "0")]
        /\ UNCHANGED <<requests, lock, root_enum, pending, seqno, conn>>
    BY <1>1, <1>5 DEF reply_to_packet
  <2>2. Touched
    BY <1>0, <2>1, TouchedRefl
  <2> HIDE DEF pkt
  <2> QED
    BY <1>0, <1>2, <1>3, <2>1, <2>2, SpecialIds, PlainReply DEF NothingSent, PacketStep
<1> QED
  BY <1>4, <1>5

LEMMA NormalType ==
  ASSUME FsType, NEW dir, NEW path \in Seq(STRING),
         dir = NullLock \/ (dir \in LockIds /\ lock[dir] # NoLock)
  PROVE  normalize_object_path(dir, path) \in Seq(STRING)
<1>1. CASE dir = NullLock
  BY <1>1 DEF normalize_object_path
<1>2. CASE dir \in LockIds /\ lock[dir] # NoLock
  <2>1. lock[dir].path \in Seq(STRING)
    BY <1>2, LockTypes DEF LockType
  <2>2. lock[dir].path \o path \in Seq(STRING)
    BY <2>1, ConcatProperties
  <2> QED
    BY <2>2 DEF normalize_object_path
<1> QED
  BY <1>1, <1>2

LEMMA RootLock ==
  ASSUME NEW p \in Procs
  PROVE  /\ alloc_root_lock(p) \in LockType /\ alloc_root_lock(p).owner = p
         /\ GoodLock(alloc_root_lock(p)) /\ alloc_root_lock(p).handle_id \notin HandleIds
<1>1. FALSE \in BOOLEAN /\ 0 \in Nat /\ "DEVICE" \in LockKinds /\ <<>> \in Seq(STRING)
  BY DEF LockKinds
<1>2. FreshLock(alloc_root_lock(p), p, FALSE, "DEVICE", ROOT, <<>>, 0)
  BY <1>1, SpecialIds, AllocatedType DEF alloc_root_lock
<1> HIDE DEF alloc_root_lock
<1> QED
  BY <1>2, SpecialIds DEF FreshLock, GoodLock

LEMMA LocateStep ==
  ASSUME TypeInv, NEW p \in Procs, action_locate_object(p)
  PROVE  Room(p) /\ PacketStep(p)
<1>0. FsType /\ Room(p)
  BY MaySendRoom DEF TypeInv, action_locate_object
<1>1. PICK dir \in Locks(p, FALSE) \cup {NullLock}, path \in Names :
        LET pkt == NewPacket("LOCATE_OBJECT", dir, path, 0, 0)
            full_path == normalize_object_path(dir, path)
        IN  IF full_path = <<>>
              THEN \/ ReplyLock(p, pkt, alloc_root_lock(p), "OBJECT_NOT_FOUND")
                   \/ /\ AllocMayFail
                      /\ packet' = [packet EXCEPT ![p] = pkt]
                      /\ conn' = "crashed"
                      /\ UNCHANGED <<requests, lock, root_enum, pending, seqno>>
              ELSE /\ \/ Hold(p, pkt, "OPEN", 0, OpenRequest(seqno, full_path))
                      \/ HoldFails(p, pkt)
                   /\ UNCHANGED <<lock, root_enum>>
  BY DEF action_locate_object
<1> DEFINE pkt == NewPacket("LOCATE_OBJECT", dir, path, 0, 0)
<1>2. /\ dir \in LockIds \cup {NullLock} /\ path \in Seq(STRING)
      /\ "LOCATE_OBJECT" \in Types /\ "OBJECT_NOT_FOUND" \in DosErrors
  BY FsAssumption DEF Locks, Types, DosErrors
<1>3. /\ pkt \in PacketType /\ pkt.state = "held" /\ pkt.type = "LOCATE_OBJECT"
      /\ pkt.path = path /\ pkt.arg = dir
  BY <1>2, NewPacketType
<1>4. dir = NullLock \/ OwnLock(p, dir, FALSE)
  BY DEF Locks, OwnLock
<1>5. normalize_object_path(dir, path) \in Seq(STRING)
  BY <1>0, <1>2, <1>4, NormalType DEF OwnLock
<1>6. CASE ReplyLock(p, pkt, alloc_root_lock(p), "OBJECT_NOT_FOUND")
  <2> HIDE DEF pkt
  <2>1. ReplyStep(p)
    BY <1>0, <1>2, <1>3, <1>6, RootLock, LockReply
       DEF ReplyLock, reply_to_packet, NothingSent
  <2> QED
    BY <1>0, <2>1 DEF PacketStep
<1>7. CASE /\ packet' = [packet EXCEPT ![p] = pkt]
           /\ conn' = "crashed"
           /\ UNCHANGED <<requests, lock, root_enum, pending, seqno>>
  <2>1. packet'[p] = pkt
    BY <1>0, <1>7 DEF FsType
  <2>2. ArgOk(p)'
    BY <1>3, <1>4, <1>7, <2>1 DEF ArgOk, OwnLock
  <2> HIDE DEF pkt
  <2> QED
    BY <1>0, <1>3, <1>7, <2>2 DEF LostStep, Puts, PacketStep
<1>8. CASE /\ \/ Hold(p, pkt, "OPEN", 0, OpenRequest(seqno, normalize_object_path(dir, path)))
              \/ HoldFails(p, pkt)
           /\ UNCHANGED <<lock, root_enum>>
  <2> DEFINE m == OpenRequest(seqno, normalize_object_path(dir, path))
             o == [request_seqno |-> seqno, packet |-> p, expects |-> "OPEN",
                   source |-> 0, length |-> 0]
  <2>1. Touched
    BY <1>0, <1>8, TouchedRefl
  <2>2. CASE HoldFails(p, pkt)
    BY <1>0, <1>3, <2>1, <2>2, SpecialIds, PlainReply
       DEF HoldFails, reply_to_packet, NothingSent, PacketStep, DosErrors
  <2>3. CASE Hold(p, pkt, "OPEN", 0, m)
    <3>1. seqno \in Nat
      BY <1>0 DEF FsType
    <3>2. PICK msg \in RequestType : msg = m
      BY <1>5, <3>1 DEF RequestType, OpenRequest
    <3>3. PICK op \in OpType : op = o
      BY <3>1 DEF OpType
    <3>4. /\ packet' = [packet EXCEPT ![p] = pkt]
          /\ pending' = <<op>> \o pending /\ seqno' = seqno + 1
          /\ transmit_message(msg)
      BY <2>3, <3>2, <3>3 DEF Hold, alloc_pending
    <3>5. packet'[p] = pkt /\ lock' = lock
      BY <1>0, <1>8, <3>4 DEF FsType
    <3>6. ArgOk(p)'
      BY <1>3, <1>4, <3>5 DEF ArgOk, OwnLock
    <3>7. Asks(msg, op)'
      BY <1>3, <3>2, <3>3, <3>5 DEF Asks, Waits, PathOf, OpenRequest, normalize_object_path
    <3>8. op.packet = p /\ op.request_seqno = seqno
      BY <3>3
    <3> HIDE DEF pkt
    <3>9. HoldStep(p)
      BY <1>3, <2>1, <3>4, <3>6, <3>7, <3>8, HoldOk
    <3> QED
      BY <1>0, <3>9 DEF PacketStep
  <2> QED
    BY <1>8, <2>2, <2>3
<1> QED
  BY <1>1, <1>6, <1>7, <1>8

(* rl_amigafs_free_lock, and the reply. *)
LEMMA FreeStep ==
  ASSUME FsType, LockInv, NEW p \in Procs, NEW pkt \in PacketType, NEW l \in LockIds,
         lock[l] # NoLock, lock[l].owner = p, rl_amigafs_free_lock(l),
         packet' = [packet EXCEPT ![p] = Replied(pkt, 1, "0")], pending' = pending
  PROVE  PacketStep(p)
<1>1. "0" \in DosErrors
  BY DEF DosErrors
<1>2. Replied(pkt, 1, "0") \in PacketType /\ Replied(pkt, 1, "0").state = "replied"
  BY <1>1, SpecialIds, RepliedType
<1>3. \E new \in PacketType : Puts(p, new) /\ new.state = "replied"
  BY <1>2 DEF Puts
<1>4. Freed(p, l)
  BY DEF Freed, rl_amigafs_free_lock
<1>5. CASE lock[l].type = "DEVICE"
  <2>1. lock[l].handle_id \notin HandleIds
    BY <1>5, SpecialIds DEF LockInv, GoodLock
  <2>2. NothingSent
    BY <1>5 DEF rl_amigafs_free_lock, NothingSent
  <2> QED
    BY <1>3, <1>4, <2>1, <2>2 DEF ReplyStep, PacketStep
<1>6. CASE lock[l].type # "DEVICE"
  <2>1. transmit_message(CloseRequest(seqno, lock[l].handle_id)) /\ seqno' = seqno + 1
    BY <1>6 DEF rl_amigafs_free_lock
  <2> QED
    BY <1>3, <1>4, <2>1 DEF ReplyStep, PacketStep
<1> QED
  BY <1>5, <1>6

LEMMA FreeLockStep ==
  ASSUME TypeInv, LockInv, NEW p \in Procs, action_free_lock(p)
  PROVE  Room(p) /\ PacketStep(p)
<1>0. FsType /\ Room(p)
  BY MaySendRoom DEF TypeInv, action_free_lock
<1> DEFINE pkt == NewPacket("FREE_LOCK", NullLock, <<>>, 0, 0)
<1>1. "FREE_LOCK" \in Types /\ "OBJECT_NOT_FOUND" \in DosErrors /\ <<>> \in Seq(STRING)
  BY DEF Types, DosErrors
<1>2. pkt \in PacketType
  BY <1>1, NewPacketType
<1>3. ASSUME NEW l \in Locks(p, FALSE),
             rl_amigafs_free_lock(l), reply_to_packet(p, pkt, 1, "0"), pending' = pending
      PROVE  PacketStep(p)
  <2> HIDE DEF pkt
  <2>1. l \in LockIds /\ lock[l] # NoLock /\ lock[l].owner = p
    BY DEF Locks
  <2> QED
    BY <1>0, <1>2, <1>3, <2>1, FreeStep DEF reply_to_packet
<1>4. CASE /\ reply_to_packet(p, pkt, 0, "OBJECT_NOT_FOUND")
           /\ UNCHANGED <<requests, lock, seqno, conn>>
           /\ pending' = pending
  <2> HIDE DEF pkt
  <2>1. Touched
    BY <1>0, <1>4, TouchedRefl
  <2> QED
    BY <1>0, <1>1, <1>2, <1>4, <2>1, SpecialIds, PlainReply
       DEF reply_to_packet, NothingSent, PacketStep
<1> QED
  BY <1>0, <1>3, <1>4 DEF action_free_lock

LEMMA EndStep ==
  ASSUME TypeInv, LockInv, NEW p \in Procs, action_end(p)
  PROVE  Room(p) /\ PacketStep(p)
<1>0. FsType /\ Room(p)
  BY MaySendRoom DEF TypeInv, action_end
<1> DEFINE pkt == NewPacket("END", NullLock, <<>>, 0, 0)
<1>1. "END" \in Types /\ <<>> \in Seq(STRING)
  BY DEF Types
<1>2. pkt \in PacketType
  BY <1>1, NewPacketType
<1>3. PICK l \in Locks(p, TRUE) :
        rl_amigafs_free_lock(l) /\ reply_to_packet(p, pkt, 1, "0")
  BY DEF action_end
<1>4. pending' = pending
  BY DEF action_end
<1> HIDE DEF pkt
<1>5. l \in LockIds /\ lock[l] # NoLock /\ lock[l].owner = p
  BY DEF Locks
<1> QED
  BY <1>0, <1>2, <1>3, <1>4, <1>5, FreeStep DEF reply_to_packet

LEMMA CopyDirStep ==
  ASSUME TypeInv, LockInv, NEW p \in Procs, action_copy_dir(p)
  PROVE  Room(p) /\ PacketStep(p)
<1>0. FsType /\ Room(p) /\ "COPY_DIR" \in Ops
  BY MaySendRoom DEF TypeInv, action_copy_dir, MaySend
<1>1. /\ "COPY_DIR" \in Types /\ "OBJECT_NOT_FOUND" \in DosErrors
      /\ "NO_FREE_STORE" \in DosErrors /\ <<>> \in Seq(STRING)
  BY DEF Types, DosErrors
<1>2. ASSUME NEW l \in Locks(p, FALSE),
             ReplyLock(p, NewPacket("COPY_DIR", l, <<>>, 0, 0),
               allocate_lock(p, FALSE, lock[l].type, lock[l].handle_id, lock[l].path,
                             lock[l].size),
               "NO_FREE_STORE")
      PROVE  PacketStep(p)
  <2> DEFINE pkt == NewPacket("COPY_DIR", l, <<>>, 0, 0)
             r == allocate_lock(p, FALSE, lock[l].type, lock[l].handle_id, lock[l].path,
                                lock[l].size)
  <2>1. l \in LockIds /\ lock[l] # NoLock
    BY DEF Locks
  <2>2. /\ lock[l].type \in LockKinds /\ lock[l].handle_id \in Int
        /\ lock[l].path \in Seq(STRING) /\ lock[l].size \in Nat /\ FALSE \in BOOLEAN
    BY <1>0, <2>1, LockTypes DEF LockType, LockKinds
  <2>3. pkt \in PacketType
    BY <1>1, <2>1, NewPacketType
  <2>4. FreshLock(r, p, FALSE, lock[l].type, lock[l].handle_id, lock[l].path, lock[l].size)
    BY <2>2, AllocatedType
  <2> HIDE DEF pkt
  <2>5. ReplyLock(p, pkt, r, "NO_FREE_STORE")
    BY <1>2 DEF pkt
  <2> HIDE DEF r
  <2>6. r \in LockType /\ r.owner = p /\ GoodLock(r)
    BY <2>1, <2>4 DEF FreshLock, LockInv, GoodLock
  <2>7. ReplyStep(p)
    BY <1>0, <1>1, <2>3, <2>5, <2>6, LockReply DEF ReplyLock, reply_to_packet, NothingSent
  <2> QED
    BY <2>7 DEF PacketStep
<1>3. CASE /\ reply_to_packet(p, NewPacket("COPY_DIR", NullLock, <<>>, 0, 0), 0,
                              "OBJECT_NOT_FOUND")
           /\ UNCHANGED <<requests, lock, root_enum, pending, seqno, conn>>
  <2> DEFINE pkt == NewPacket("COPY_DIR", NullLock, <<>>, 0, 0)
  <2>1. pkt \in PacketType
    BY <1>1, NewPacketType
  <2> HIDE DEF pkt
  <2>2. reply_to_packet(p, pkt, 0, "OBJECT_NOT_FOUND")
    BY <1>3 DEF pkt
  <2>3. Touched
    BY <1>0, <1>3, TouchedRefl
  <2> QED
    BY <1>0, <1>1, <1>3, <2>1, <2>2, <2>3, SpecialIds, PlainReply
       DEF reply_to_packet, NothingSent, PacketStep
<1> QED
  BY <1>0, <1>2, <1>3 DEF action_copy_dir

LEMMA ParentStep ==
  ASSUME TypeInv, NEW p \in Procs, action_parent(p)
  PROVE  Room(p) /\ PacketStep(p)
<1>0. FsType /\ Room(p)
  BY MaySendRoom DEF TypeInv, action_parent
<1>1. PICK l \in Locks(p, FALSE) :
        LET pkt == NewPacket("PARENT", l, <<>>, 0, 0)
            path == lock[l].path
        IN  IF lock[l].type = "DEVICE"
              THEN /\ reply_to_packet(p, pkt, 0, "OBJECT_NOT_FOUND")
                   /\ UNCHANGED <<requests, lock, root_enum, pending, seqno, conn>>
              ELSE ReplyLock(p, pkt,
                     IF Len(path) = 1 THEN alloc_root_lock(p)
                     ELSE allocate_lock(p, FALSE, "DIR", ROOT,
                                        SubSeq(path, 1, Len(path) - 1), 0),
                     "OBJECT_NOT_FOUND")
  BY DEF action_parent
<1> DEFINE pkt == NewPacket("PARENT", l, <<>>, 0, 0)
           r == IF Len(lock[l].path) = 1 THEN alloc_root_lock(p)
                ELSE allocate_lock(p, FALSE, "DIR", ROOT,
                                   SubSeq(lock[l].path, 1, Len(lock[l].path) - 1), 0)
<1>2. "PARENT" \in Types /\ "OBJECT_NOT_FOUND" \in DosErrors /\ <<>> \in Seq(STRING)
  BY DEF Types, DosErrors
<1>3. l \in LockIds /\ lock[l] # NoLock
  BY DEF Locks
<1>4. pkt \in PacketType
  BY <1>2, <1>3, NewPacketType
<1>5. /\ r \in LockType /\ r.owner = p
      /\ GoodLock(r) /\ r.handle_id \notin HandleIds
  <2>1. CASE Len(lock[l].path) = 1
    BY <2>1, RootLock
  <2>2. CASE Len(lock[l].path) # 1
    <3> DEFINE path == SubSeq(lock[l].path, 1, Len(lock[l].path) - 1)
    <3>1. lock[l].path \in Seq(STRING)
      BY <1>0, <1>3, LockTypes DEF LockType
    <3>2. path \in Seq(STRING)
      <4>1. Len(lock[l].path) \in Nat
        BY <3>1, LenProperties
      <4>2. \A i \in 1 .. Len(lock[l].path) - 1 : lock[l].path[i] \in STRING
        BY <3>1, <4>1, ElementOfSeq
      <4> QED
        BY <3>1, <4>1, <4>2, SubSeqProperties
    <3>3. FALSE \in BOOLEAN /\ 0 \in Nat /\ "DIR" \in LockKinds
      BY DEF LockKinds
    <3> HIDE DEF path
    <3>4. FreshLock(allocate_lock(p, FALSE, "DIR", ROOT, path, 0), p, FALSE, "DIR", ROOT, path, 0)
      BY <3>2, <3>3, SpecialIds, AllocatedType
    <3>5. r = allocate_lock(p, FALSE, "DIR", ROOT, path, 0)
      BY <2>2 DEF path
    <3> HIDE DEF r
    <3> QED
      BY <3>4, <3>5, SpecialIds DEF FreshLock, GoodLock
  <2> QED
    BY <2>1, <2>2
<1>6. CASE lock[l].type = "DEVICE"
  <2>1. /\ reply_to_packet(p, pkt, 0, "OBJECT_NOT_FOUND")
        /\ UNCHANGED <<requests, lock, root_enum, pending, seqno, conn>>
    BY <1>1, <1>6
  <2> HIDE DEF pkt
  <2>2. Touched
    BY <1>0, <2>1, TouchedRefl
  <2> QED
    BY <1>0, <1>2, <1>4, <2>1, <2>2, SpecialIds, PlainReply
       DEF reply_to_packet, NothingSent, PacketStep
<1>7. CASE lock[l].type # "DEVICE"
  <2>1. ReplyLock(p, pkt, r, "OBJECT_NOT_FOUND")
    BY <1>1, <1>7
  <2> HIDE DEF pkt, r
  <2>2. ReplyStep(p)
    BY <1>0, <1>2, <1>4, <1>5, <2>1, LockReply DEF ReplyLock, reply_to_packet, NothingSent
  <2> QED
    BY <1>0, <2>2 DEF PacketStep
<1> QED
  BY <1>6, <1>7

LEMMA LocalStep ==
  ASSUME TypeInv, NEW p \in Procs, action_local(p)
  PROVE  Room(p) /\ PacketStep(p)
<1>0. FsType /\ Room(p)
  BY MaySendRoom DEF TypeInv, action_local, LocalQuery, action_info, LocalRefusal
<1>1. UNCHANGED <<requests, lock, root_enum, pending, seqno, conn>>
  BY DEF action_local
<1>2. Touched
  BY <1>0, <1>1, TouchedRefl
<1>3. <<>> \in Seq(STRING) /\ {"QUERY", "INFO", "REFUSED"} \subseteq Types
  BY DEF Types
<1>4. \E pkt \in PacketType, res \in Int \cup LockIds, err \in DosErrors :
        packet' = [packet EXCEPT ![p] = Replied(pkt, res, err)]
  <2>1. CASE LocalQuery(p)
    <3>1. NewPacket("QUERY", NullLock, <<>>, 0, 0) \in PacketType
      BY <1>3, NewPacketType
    <3> QED
      BY <2>1, <3>1, SpecialIds DEF LocalQuery, reply_to_packet, DosErrors
  <2>2. CASE LocalRefusal(p)
    <3>1. NewPacket("REFUSED", NullLock, <<>>, 0, 0) \in PacketType
      BY <1>3, NewPacketType
    <3> QED
      BY <2>2, <3>1, SpecialIds DEF LocalRefusal, reply_to_packet, DosErrors
  <2>3. CASE action_info(p)
    <3>1. PICK l \in Locks(p, FALSE) \cup {NullLock} :
            \E res \in {0, 1}, err \in DosErrors :
              packet' = [packet EXCEPT ![p] = Replied(NewPacket("INFO", l, <<>>, 0, 0), res, err)]
      BY <2>3 DEF action_info, reply_to_packet, DosErrors
    <3>2. l \in LockIds \cup {NullLock}
      BY DEF Locks
    <3>3. NewPacket("INFO", l, <<>>, 0, 0) \in PacketType
      BY <1>3, <3>2, NewPacketType
    <3> QED
      BY <3>1, <3>3, SpecialIds
  <2> QED
    BY <2>1, <2>2, <2>3 DEF action_local
<1> QED
  BY <1>0, <1>1, <1>2, <1>4, PlainReply DEF NothingSent, PacketStep

LEMMA DieStep ==
  ASSUME TypeInv, NEW p \in Procs, action_die(p)
  PROVE  Room(p) /\ PacketStep(p)
<1>0. FsType /\ Room(p)
  BY MaySendRoom DEF TypeInv, action_die
<1> DEFINE pkt == NewPacket("DIE", NullLock, <<>>, 0, 0)
<1>1. "DIE" \in Types /\ <<>> \in Seq(STRING) /\ NullLock \in LockIds \cup {NullLock}
  BY DEF Types
<1>2. pkt \in PacketType /\ pkt.state = "held" /\ pkt.type = "DIE"
  <2>1. FreshPacket(pkt, "DIE", NullLock, <<>>, 0, 0)
    BY <1>1, NewPacketIsFresh
  <2> QED
    BY <2>1 DEF FreshPacket
<1>3. /\ packet' = [packet EXCEPT ![p] = pkt]
      /\ UNCHANGED <<requests, lock, root_enum, pending, seqno, conn>>
  BY DEF action_die
<1> HIDE DEF pkt
<1>4. packet'[p] = pkt
  BY <1>0, <1>3 DEF FsType
<1>5. ArgOk(p)'
  BY <1>2, <1>4 DEF ArgOk
<1> QED
  BY <1>0, <1>2, <1>3, <1>5 DEF LostStep, Puts, PacketStep

(* The bytes that a read takes out of the buffer. *)
LEMMA OverlapType ==
  ASSUME NEW h \in LockType, NEW count \in Nat
  PROVE  /\ buffer_overlap(h, count) \in Seq(Byte)
         /\ Len(buffer_overlap(h, count)) <= count
         /\ Len(buffer_overlap(h, count)) \in Nat
<1> DEFINE hi == h.buffer_start + Len(h.buffer)
           start == h.offset - h.buffer_start
           n == Min2(hi - h.offset, count)
<1>1. /\ h.buffer \in Seq(Byte) /\ h.buffer_start \in Nat /\ h.offset \in Nat
      /\ Len(h.buffer) \in Nat
  BY LenProperties DEF LockType, Byte
<1>2. CASE h.offset < h.buffer_start \/ hi <= h.offset
  <2>1. buffer_overlap(h, count) = <<>>
    BY <1>2 DEF buffer_overlap
  <2> QED
    BY <2>1
<1>3. CASE ~(h.offset < h.buffer_start \/ hi <= h.offset)
  <2>1. buffer_overlap(h, count) = SubSeq(h.buffer, start + 1, start + n)
    BY <1>3 DEF buffer_overlap
  <2>2. /\ start \in Nat /\ n \in Nat /\ n <= count
        /\ start + n <= Len(h.buffer) /\ start + n \in Int /\ start + 1 \in Int
    BY <1>1, <1>3 DEF Min2
  <2> HIDE DEF start, n
  <2>3. \A i \in start + 1 .. start + n : i \in 1 .. Len(h.buffer)
    BY <1>1, <2>2
  <2>4. \A i \in start + 1 .. start + n : h.buffer[i] \in Byte
    BY <1>1, <2>3, ElementOfSeq
  <2>5. SubSeq(h.buffer, start + 1, start + n) \in Seq(Byte)
    BY <1>1, <2>2, <2>4, SubSeqProperties
  <2>6. Len(SubSeq(h.buffer, start + 1, start + n)) = n
    BY <1>1, <2>2, SubSeqProperties
  <2> QED
    BY <2>1, <2>2, <2>5, <2>6
<1> QED
  BY <1>2, <1>3

LEMMA ReadStep ==
  ASSUME TypeInv, NEW p \in Procs, action_read(p)
  PROVE  Room(p) /\ PacketStep(p)
<1>0. FsType /\ Room(p)
  BY MaySendRoom DEF TypeInv, action_read
<1>1. PICK l \in Locks(p, TRUE), count \in Counts :
       LET h == lock[l]
           got == buffer_overlap(h, count)
           offset == h.offset + Len(got)
           pkt == [NewPacket("READ", l, <<>>, count, h.offset) EXCEPT !.data = got]
       IN  /\ lock' = [lock EXCEPT ![l].offset = offset]
           /\ IF InBuffer(h) /\ Len(got) = count
                THEN /\ reply_to_packet(p, pkt, count, "0")
                     /\ UNCHANGED <<requests, pending, seqno, conn>>
                ELSE \/ Hold(p, pkt, "READ", 0, ReadRequest(seqno, h.handle_id, offset))
                     \/ HoldFails(p, pkt)
  BY DEF action_read
<1>2. PICK got \in Seq(Byte) : got = buffer_overlap(lock[l], count) /\ Len(got) <= count /\ Len(got) \in Nat
  <2>1. lock[l] \in LockType /\ count \in Nat
    BY <1>0, LockTypes, FsAssumption DEF Locks
  <2> QED
    BY <2>1, OverlapType
<1>3. l \in LockIds /\ lock[l] # NoLock /\ lock[l] \in LockType /\ OwnLock(p, l, TRUE)
  BY <1>0, LockTypes DEF Locks, OwnLock
<1>4. /\ lock[l].offset \in Nat /\ lock[l].handle_id \in Int /\ count \in Nat
      /\ "READ" \in Types /\ <<>> \in Seq(STRING) /\ l \in LockIds \cup {NullLock}
  BY <1>3, FsAssumption DEF LockType, Types
<1>5. PICK pkt \in PacketType :
        /\ pkt = [NewPacket("READ", l, <<>>, count, lock[l].offset) EXCEPT !.data = got]
        /\ pkt.state = "held" /\ pkt.type = "READ" /\ pkt.arg = l /\ pkt.count = count
        /\ pkt.data = got
  <2> DEFINE new == NewPacket("READ", l, <<>>, count, lock[l].offset)
  <2>1. /\ new \in PacketType /\ new.state = "held" /\ new.type = "READ" /\ new.arg = l
        /\ new.count = count
    <3>1. FreshPacket(new, "READ", l, <<>>, count, lock[l].offset)
      BY <1>4, NewPacketIsFresh
    <3> QED
      BY <3>1 DEF FreshPacket
  <2> HIDE DEF new
  <2>2. [new EXCEPT !.data = got] \in PacketType
    BY <2>1 DEF PacketType, Byte
  <2>3. /\ [new EXCEPT !.data = got].state = "held" /\ [new EXCEPT !.data = got].type = "READ"
        /\ [new EXCEPT !.data = got].arg = l /\ [new EXCEPT !.data = got].count = count
        /\ [new EXCEPT !.data = got].data = got
    BY <2>1 DEF PacketType
  <2> QED
    BY <2>2, <2>3 DEF new
<1> DEFINE offset == lock[l].offset + Len(got)
           r == [lock[l] EXCEPT !.offset = offset]
<1>6. offset \in Nat
  BY <1>2, <1>4
<1>7. lock' = [lock EXCEPT ![l] = r]
  BY <1>0, <1>1, <1>2, <1>3 DEF FsType
<1>8. /\ r \in LockType /\ SameHandle(r, lock[l]) /\ r.offset = offset
      /\ r.handle_id = lock[l].handle_id /\ r.owner = lock[l].owner /\ r.fh = lock[l].fh
  BY <1>3, <1>6 DEF LockType, SameHandle
<1>9. \/ /\ reply_to_packet(p, pkt, count, "0")
         /\ UNCHANGED <<requests, pending, seqno, conn>>
      \/ Hold(p, pkt, "READ", 0, ReadRequest(seqno, lock[l].handle_id, offset))
      \/ HoldFails(p, pkt)
  BY <1>1, <1>2, <1>5
<1> HIDE DEF offset, r
<1>10. Touched
  BY <1>0, <1>3, <1>7, <1>8, TouchedOne
<1>11. count \in Int \cup LockIds /\ "0" \in DosErrors /\ "NO_FREE_STORE" \in DosErrors
  BY <1>4 DEF DosErrors
<1>12. CASE /\ reply_to_packet(p, pkt, count, "0")
            /\ UNCHANGED <<requests, pending, seqno, conn>>
  BY <1>0, <1>10, <1>11, <1>12, PlainReply DEF reply_to_packet, NothingSent, PacketStep
<1>13. CASE HoldFails(p, pkt)
  BY <1>0, <1>10, <1>11, <1>13, SpecialIds, PlainReply
     DEF HoldFails, reply_to_packet, NothingSent, PacketStep
<1>14. CASE Hold(p, pkt, "READ", 0, ReadRequest(seqno, lock[l].handle_id, offset))
  <2>1. seqno \in Nat
    BY <1>0 DEF FsType
  <2>2. PICK msg \in RequestType : msg = ReadRequest(seqno, lock[l].handle_id, offset)
    BY <1>4, <1>6, <2>1 DEF RequestType, ReadRequest
  <2>3. PICK op \in OpType :
          op = [request_seqno |-> seqno, packet |-> p, expects |-> "READ",
                source |-> 0, length |-> 0]
    BY <2>1 DEF OpType
  <2>4. /\ packet' = [packet EXCEPT ![p] = pkt]
        /\ pending' = <<op>> \o pending /\ seqno' = seqno + 1
        /\ transmit_message(msg)
    BY <1>14, <2>2, <2>3 DEF Hold, alloc_pending
  <2>5. packet'[p] = pkt /\ lock'[l] = r /\ r # NoLock
    BY <1>0, <1>3, <1>7, <1>8, <2>4, LockTypes DEF FsType
  <2>6. ArgOk(p)'
    BY <1>2, <1>3, <1>5, <1>8, <2>5 DEF ArgOk, OwnLock
  <2>7. Asks(msg, op)'
    BY <1>5, <1>8, <2>2, <2>3, <2>5 DEF Asks, Waits, ReadRequest
  <2>8. op.packet = p /\ op.request_seqno = seqno
    BY <2>3
  <2>9. HoldStep(p)
    BY <1>5, <1>10, <2>4, <2>6, <2>7, <2>8, HoldOk
  <2> QED
    BY <1>0, <2>9 DEF PacketStep
<1> QED
  BY <1>9, <1>12, <1>13, <1>14

LEMMA WriteDataType ==
  ASSUME NEW source \in Nat, NEW length \in Nat
  PROVE  WriteData(source, length) \in Seq(Nat) /\ Len(WriteData(source, length)) = length
<1>1. WriteData(source, length) \in [1 .. length -> Nat]
  BY DEF WriteData
<1>2. WriteData(source, length) \in Seq(Nat)
  BY <1>1, SeqDef
<1> QED
  BY <1>1, <1>2, LenProperties

LEMMA WriteStep ==
  ASSUME TypeInv, NEW p \in Procs, action_write(p)
  PROVE  Room(p) /\ PacketStep(p)
<1>0. FsType /\ Room(p) /\ UNCHANGED lock
  BY MaySendRoom DEF TypeInv, action_write
<1>1. PICK l \in Locks(p, TRUE), count \in Counts :
        LET pkt == NewPacket("WRITE", l, <<>>, count, 0)
            length == Min2(count, Chunk)
        IN  \/ Hold(p, pkt, "WRITE", length,
                    WriteRequest(seqno, lock[l].handle_id, p, 0, WriteData(0, length)))
            \/ HoldFails(p, pkt)
  BY DEF action_write
<1>2. l \in LockIds /\ lock[l] # NoLock /\ lock[l] \in LockType /\ OwnLock(p, l, TRUE)
  BY <1>0, LockTypes DEF Locks, OwnLock
<1>3. /\ lock[l].handle_id \in Int /\ count \in Nat /\ 0 \in Nat
      /\ "WRITE" \in Types /\ <<>> \in Seq(STRING) /\ l \in LockIds \cup {NullLock}
  BY <1>2, FsAssumption DEF LockType, Types
<1> DEFINE new == NewPacket("WRITE", l, <<>>, count, 0)
<1>4. PICK pkt \in PacketType :
        /\ pkt = new /\ pkt.state = "held" /\ pkt.type = "WRITE" /\ pkt.arg = l
        /\ pkt.count = count
  <2>1. FreshPacket(new, "WRITE", l, <<>>, count, 0)
    BY <1>3, NewPacketIsFresh
  <2> QED
    BY <2>1 DEF FreshPacket
<1>5. PICK length \in Nat : length = Min2(count, Chunk)
  BY <1>3, TreeAssumption DEF Min2
<1>6. \/ Hold(p, pkt, "WRITE", length,
              WriteRequest(seqno, lock[l].handle_id, p, 0, WriteData(0, length)))
      \/ HoldFails(p, pkt)
  BY <1>1, <1>4, <1>5
<1> HIDE DEF new
<1>7. Touched
  BY <1>0, TouchedRefl
<1>8. CASE HoldFails(p, pkt)
  BY <1>0, <1>7, <1>8, SpecialIds, PlainReply
     DEF HoldFails, reply_to_packet, NothingSent, PacketStep, DosErrors
<1>9. CASE Hold(p, pkt, "WRITE", length,
                WriteRequest(seqno, lock[l].handle_id, p, 0, WriteData(0, length)))
  <2>1. seqno \in Nat /\ WriteData(0, length) \in Seq(Nat)
    BY <1>0, WriteDataType DEF FsType
  <2>2. PICK msg \in RequestType :
          msg = WriteRequest(seqno, lock[l].handle_id, p, 0, WriteData(0, length))
    BY <1>3, <2>1, RequestTypes
  <2>3. PICK op \in OpType :
          op = [request_seqno |-> seqno, packet |-> p, expects |-> "WRITE",
                source |-> 0, length |-> length]
    BY <2>1 DEF OpType
  <2>4. /\ packet' = [packet EXCEPT ![p] = pkt]
        /\ pending' = <<op>> \o pending /\ seqno' = seqno + 1
        /\ transmit_message(msg)
    BY <1>9, <2>2, <2>3 DEF Hold, alloc_pending
  <2>5. packet'[p] = pkt
    BY <1>0, <2>4 DEF FsType
  <2>6. ArgOk(p)'
    BY <1>0, <1>2, <1>4, <2>5 DEF ArgOk, OwnLock
  <2>7. Asks(msg, op)'
    BY <1>0, <1>4, <2>2, <2>3, <2>5 DEF Asks, Waits, WriteRequest, WriteData
  <2>8. op.packet = p /\ op.request_seqno = seqno
    BY <2>3
  <2>9. HoldStep(p)
    BY <1>4, <1>7, <2>4, <2>6, <2>7, <2>8, HoldOk
  <2> QED
    BY <1>0, <2>9 DEF PacketStep
<1> QED
  BY <1>6, <1>8, <1>9

LEMMA SeekType ==
  ASSUME NEW h \in LockType, NEW mode \in {"BEGINNING", "CURRENT", "END"}, NEW amount \in Int
  PROVE  SeekPosition(h, mode, amount) \in Nat
<1>1. h.offset \in Nat /\ h.size \in Nat
  BY DEF LockType
<1> QED
  BY <1>1 DEF SeekPosition

LEMMA SeekStep ==
  ASSUME TypeInv, NEW p \in Procs, action_seek(p)
  PROVE  Room(p) /\ PacketStep(p)
<1>0. FsType /\ Room(p) /\ UNCHANGED <<requests, root_enum, pending, seqno, conn>>
  BY MaySendRoom DEF TypeInv, action_seek
<1>1. PICK l \in Locks(p, TRUE), mode \in {"BEGINNING", "CURRENT", "END"},
          amount \in SeekTargets :
        /\ lock' = [lock EXCEPT ![l].offset = SeekPosition(lock[l], mode, amount)]
        /\ reply_to_packet(p, NewPacket("SEEK", l, <<>>, 0, 0), lock[l].offset, "0")
  BY DEF action_seek
<1>2. l \in LockIds /\ lock[l] # NoLock /\ lock[l] \in LockType
  BY <1>0, LockTypes DEF Locks
<1>3. PICK pkt \in PacketType : pkt = NewPacket("SEEK", l, <<>>, 0, 0)
  <2>1. "SEEK" \in Types /\ <<>> \in Seq(STRING) /\ l \in LockIds \cup {NullLock}
    BY <1>2 DEF Types
  <2> QED
    BY <2>1, NewPacketType
<1>4. PICK offset \in Nat : offset = SeekPosition(lock[l], mode, amount)
  BY <1>2, SeekType, FsAssumption
<1> DEFINE r == [lock[l] EXCEPT !.offset = offset]
<1>5. r \in LockType /\ SameHandle(r, lock[l])
  BY <1>2 DEF LockType, SameHandle
<1>6. lock' = [lock EXCEPT ![l] = r]
  BY <1>0, <1>1, <1>2, <1>4 DEF FsType
<1> HIDE DEF r
<1>7. Touched
  BY <1>0, <1>2, <1>5, <1>6, TouchedOne
<1>8. lock[l].offset \in Int \cup LockIds /\ "0" \in DosErrors
  BY <1>2 DEF LockType, DosErrors
<1> QED
  BY <1>0, <1>1, <1>3, <1>7, <1>8, PlainReply DEF reply_to_packet, NothingSent, PacketStep

LEMMA ExamineNextStep ==
  ASSUME TypeInv, NEW p \in Procs, action_examine_next(p)
  PROVE  Room(p) /\ PacketStep(p)
<1>0. FsType /\ Room(p)
  BY MaySendRoom DEF TypeInv, action_examine_next
<1>1. PICK l \in Locks(p, FALSE) :
       LET h == lock[l]
           reset == ~EnumInProgress(h)
           pkt == NewPacket("EXAMINE_NEXT", l, <<>>, 0, 0)
       IN  \/ /\ Hold(p, pkt, "FIND", 0, FindRequest(seqno, h.handle_id, reset))
              /\ root_enum' = (root_enum \/ h.type = "DEVICE")
              /\ lock' = [lock EXCEPT ![l].enum = h.type # "DEVICE",
                                      ![l].seen = IF reset THEN 0 ELSE @]
           \/ HoldFails(p, pkt) /\ UNCHANGED <<lock, root_enum>>
  BY DEF action_examine_next
<1>2. l \in LockIds /\ lock[l] # NoLock /\ lock[l] \in LockType /\ OwnLock(p, l, FALSE)
  BY <1>0, LockTypes DEF Locks, OwnLock
<1>3. PICK reset \in BOOLEAN : reset = ~EnumInProgress(lock[l])
  BY Zenon
<1>4. PICK pkt \in PacketType :
        /\ pkt = NewPacket("EXAMINE_NEXT", l, <<>>, 0, 0)
        /\ pkt.state = "held" /\ pkt.type = "EXAMINE_NEXT" /\ pkt.arg = l
  <2>1. "EXAMINE_NEXT" \in Types /\ <<>> \in Seq(STRING) /\ l \in LockIds \cup {NullLock}
    BY <1>2 DEF Types
  <2>2. FreshPacket(NewPacket("EXAMINE_NEXT", l, <<>>, 0, 0), "EXAMINE_NEXT", l, <<>>, 0, 0)
    BY <2>1, NewPacketIsFresh
  <2> QED
    BY <2>2 DEF FreshPacket
<1>5. CASE HoldFails(p, pkt) /\ UNCHANGED <<lock, root_enum>>
  <2>1. Touched
    BY <1>0, <1>5, TouchedRefl
  <2> QED
    BY <1>0, <1>5, <2>1, SpecialIds, PlainReply
       DEF HoldFails, reply_to_packet, NothingSent, PacketStep, DosErrors
<1>6. CASE /\ Hold(p, pkt, "FIND", 0, FindRequest(seqno, lock[l].handle_id, reset))
           /\ lock' = [lock EXCEPT ![l].enum = lock[l].type # "DEVICE",
                                   ![l].seen = IF reset THEN 0 ELSE @]
  <2> DEFINE r == [lock[l] EXCEPT !.enum = lock[l].type # "DEVICE",
                                  !.seen = IF reset THEN 0 ELSE @]
  <2>1. lock' = [lock EXCEPT ![l] = r]
    BY <1>0, <1>2, <1>6 DEF FsType
  <2>2. /\ r \in LockType /\ SameHandle(r, lock[l])
        /\ r.handle_id = lock[l].handle_id /\ r.owner = lock[l].owner /\ r.fh = lock[l].fh
    BY <1>2 DEF LockType, SameHandle
  <2> HIDE DEF r
  <2>3. Touched
    BY <1>0, <1>2, <2>1, <2>2, TouchedOne
  <2>4. seqno \in Nat /\ lock[l].handle_id \in Int
    BY <1>0, <1>2 DEF FsType, LockType
  <2>5. PICK msg \in RequestType : msg = FindRequest(seqno, lock[l].handle_id, reset)
    BY <2>4, RequestTypes
  <2>6. PICK op \in OpType :
          op = [request_seqno |-> seqno, packet |-> p, expects |-> "FIND",
                source |-> 0, length |-> 0]
    BY <2>4 DEF OpType
  <2>7. /\ packet' = [packet EXCEPT ![p] = pkt]
        /\ pending' = <<op>> \o pending /\ seqno' = seqno + 1
        /\ transmit_message(msg)
    BY <1>6, <2>5, <2>6 DEF Hold, alloc_pending
  <2>8. packet'[p] = pkt /\ lock'[l] = r /\ r # NoLock
    BY <1>0, <1>2, <2>1, <2>2, <2>7, LockTypes DEF FsType
  <2>9. ArgOk(p)'
    BY <1>2, <1>4, <2>2, <2>8 DEF ArgOk, OwnLock
  <2>10. Asks(msg, op)'
    BY <1>4, <2>2, <2>5, <2>6, <2>8 DEF Asks, Waits, FindRequest
  <2>11. op.packet = p /\ op.request_seqno = seqno
    BY <2>6
  <2>12. HoldStep(p)
    BY <1>4, <2>3, <2>7, <2>9, <2>10, <2>11, HoldOk
  <2> QED
    BY <1>0, <2>12 DEF PacketStep
<1> QED
  BY <1>1, <1>3, <1>4, <1>5, <1>6

(* Every packet is dealt with in one of three ways. *)
LEMMA PacketSteps ==
  ASSUME TypeInv, LockInv, NEW p \in Procs, process_fs_packet(p)
  PROVE  Room(p) /\ PacketStep(p) /\ UNCHANGED answers /\ sent' = sent + 1
<1>1. UNCHANGED answers /\ sent' = sent + 1
  BY DEF process_fs_packet
<1>2. Room(p) /\ PacketStep(p)
  BY FindinputStep, FindoutputStep, LocateStep, FreeLockStep, EndStep, CopyDirStep,
     ParentStep, LocalStep, DieStep, ReadStep, WriteStep, SeekStep, ExamineNextStep
     DEF process_fs_packet
<1> QED
  BY <1>1, <1>2

-----------------------------------------------------------------------------
(* The handler: what an answer does.                                        *)

(* There is a lock for every packet that may yet need one. *)
RoomInv == Cardinality(Free) >= Cardinality(Held)

ArgInv == \A p \in Held : ArgOk(p)

(* Every operation in the list waits for its packet's kind of answer; no two *)
(* have the same packet or the same number; and no packet waits for ever    *)
(* (but for an ACTION_DIE, and after a crash).                              *)
OpInv ==
  /\ \A i \in DOMAIN pending :
       /\ pending[i].packet \in Held
       /\ packet[pending[i].packet].type # "DIE"
       /\ pending[i].expects = Waits(packet[pending[i].packet].type)
       /\ pending[i].request_seqno < seqno
  /\ \A i, j \in DOMAIN pending :
       (\/ pending[i].packet = pending[j].packet
        \/ pending[i].request_seqno = pending[j].request_seqno)
       => i = j
  /\ conn # "crashed" =>
       \A p \in Held :
         packet[p].type # "DIE" => \E i \in DOMAIN pending : pending[i].packet = p

SessionInv == TypeInv /\ LockInv /\ RoomInv /\ ArgInv /\ OpInv

Unlinked(op) ==
  \E i \in DOMAIN pending : pending[i] = op /\ pending' = RemoveAt(pending, i)

(* The operation is finished, its packet replied to. *)
CompleteStep(op) ==
  /\ \E pkt \in PacketType : Puts(op.packet, pkt) /\ pkt.state = "replied"
  /\ Unlinked(op)
  /\ \/ Touched /\ NothingSent /\ (Received.kind = "OPEN" => AllocMayFail)
     \/ /\ NothingSent /\ Received.kind = "OPEN" /\ op.expects = "OPEN"
        /\ \E r \in LockType :
             /\ Created(op.packet, r) /\ r.handle_id = Received.handle
             /\ r.type = Received.type /\ r.path = PathOf(packet[op.packet])
     \/ /\ UNCHANGED lock /\ Received.kind = "OPEN"
        /\ transmit_message(CloseRequest(seqno, Received.handle)) /\ seqno' = seqno + 1
     \/ UNCHANGED <<lock, requests, seqno>> /\ conn' = "failed"

(* The operation asks for more. *)
RequeueStep(op) ==
  /\ Received.kind # "OPEN" /\ op.expects # "OPEN"
  /\ \E pkt \in PacketType :
       /\ Puts(op.packet, pkt) /\ pkt.state = "held"
       /\ pkt.type = packet[op.packet].type /\ pkt.type # "DIE"
  /\ Touched /\ ArgOk(op.packet)'
  /\ \E new \in OpType, msg \in RequestType :
       /\ pending' = [i \in DOMAIN pending |-> IF pending[i] # op THEN pending[i] ELSE new]
       /\ new.packet = op.packet /\ new.request_seqno = seqno
       /\ transmit_message(msg) /\ seqno' = seqno + 1
       /\ Asks(msg, new)'

LEMMA FoundOp ==
  ASSUME FsType, Found
  PROVE  /\ find_pending_op \in OpType /\ find_pending_op.request_seqno = Received.seq
         /\ \E i \in DOMAIN pending : find_pending_op = pending[i]
<1>1. Matching # {}
  BY DEF Found
<1>2. DOMAIN pending = 1 .. Len(pending) /\ Len(pending) \in Nat
  BY LenProperties DEF FsType
<1>3. Matching \subseteq Nat /\ Matching \subseteq DOMAIN pending
  BY <1>2 DEF Matching
<1>4. \E i \in Matching : \A j \in Matching : i <= j
  BY <1>1, <1>3, LeastElement
<1> DEFINE k == CHOOSE i \in Matching : \A j \in Matching : i <= j
<1>5. k \in Matching
  BY <1>4
<1>6. find_pending_op = pending[k]
  BY DEF find_pending_op
<1> HIDE DEF k
<1>7. k \in DOMAIN pending /\ pending[k].request_seqno = Received.seq
  BY <1>5 DEF Matching
<1>8. pending[k] \in OpType
  BY <1>2, <1>7, ElementOfSeq DEF FsType
<1> QED
  BY <1>6, <1>7, <1>8

(* What is known of the operation that an answer completes. *)
Waiting(op) ==
  /\ op \in OpType /\ \E i \in DOMAIN pending : op = pending[i]
  /\ op.packet \in Procs /\ packet[op.packet] \in PacketType
  /\ packet[op.packet].state = "held" /\ op.packet \in Held
  /\ packet[op.packet].type # "DIE"
  /\ ArgOk(op.packet) /\ op.expects = Waits(packet[op.packet].type)

LEMMA FoundWaits ==
  ASSUME SessionInv, Found
  PROVE  Waiting(find_pending_op)
<1>1. FsType
  BY DEF SessionInv, TypeInv
<1>2. PICK op : op = find_pending_op
  OBVIOUS
<1>3. op \in OpType /\ \E i \in DOMAIN pending : op = pending[i]
  BY <1>1, <1>2, FoundOp
<1>4. op.packet \in Procs /\ op.packet \in Held /\ packet[op.packet].type # "DIE"
  BY <1>3 DEF SessionInv, OpInv, OpType
<1>5. packet[op.packet].state = "held" /\ packet[op.packet] \in PacketType
  BY <1>1, <1>4 DEF Held, FsType
<1>6. ArgOk(op.packet)
  BY <1>4 DEF SessionInv, ArgInv
<1>7. op.expects = Waits(packet[op.packet].type)
  BY <1>3 DEF SessionInv, OpInv
<1> QED
  BY <1>2, <1>3, <1>4, <1>5, <1>6, <1>7 DEF Waiting

(* A held packet is replied to. *)
LEMMA CompletePuts ==
  ASSUME FsType, NEW op, Waiting(op), NEW res \in Int \cup LockIds, NEW err \in DosErrors,
         Complete(op, res, err)
  PROVE  /\ \E pkt \in PacketType : Puts(op.packet, pkt) /\ pkt.state = "replied"
         /\ Unlinked(op)
<1>1. packet[op.packet] \in PacketType
  BY DEF Waiting
<1>2. /\ Replied(packet[op.packet], res, err) \in PacketType
      /\ Replied(packet[op.packet], res, err).state = "replied"
  BY <1>1, RepliedType
<1>3. /\ packet' = [packet EXCEPT ![op.packet] = Replied(packet[op.packet], res, err)]
      /\ unlink_pending(op)
  BY DEF Complete, reply_to_packet
<1> QED
  BY <1>2, <1>3 DEF Puts, Unlinked, unlink_pending

(* A held packet leaves room for the lock that completes it. *)
LEMMA RoomToComplete ==
  ASSUME SessionInv, NEW p \in Held
  PROVE  NewLockId \in Free
<1>1. Cardinality(Held) > 0
  BY FiniteSets, FS_EmptySet
<1> QED
  BY <1>1, FiniteSets, RoomForLock DEF SessionInv, RoomInv

LEMMA OpenAnswered ==
  ASSUME Received \in AnswerType, Received.kind = "OPEN"
  PROVE  /\ Received.handle \in HandleIds /\ Received.handle \in Int
         /\ Received.type \in {"FILE", "DIR"} /\ Received.type \in LockKinds
         /\ Received.size \in Nat
<1>1. /\ Received.handle \in HandleIds /\ Received.type \in {"FILE", "DIR"}
      /\ Received.size \in Nat
  BY DEF AnswerType
<1> QED
  BY <1>1, SpecialIds DEF LockKinds

LEMMA FindinputCompletes ==
  ASSUME SessionInv, NEW op, Waiting(op), Received \in AnswerType, Received.kind = op.expects,
         packet[op.packet].type = "FINDINPUT", complete_findinput(op)
  PROVE  CompleteStep(op)
<1>0. FsType /\ op.expects = "OPEN" /\ Received.kind = "OPEN"
  BY DEF SessionInv, TypeInv, Waiting, Waits
<1>1. op.packet \in Procs /\ op.packet \in Held /\ packet[op.packet].path \in Seq(STRING)
  BY DEF Waiting, PacketType
<1>2. CASE /\ Received.type = "FILE"
           /\ lock' = [lock EXCEPT ![NewLockId] =
                allocate_lock(op.packet, TRUE, "FILE", Received.handle,
                              packet[op.packet].path, Received.size)]
           /\ Complete(op, NewLockId, "0")
           /\ UNCHANGED <<requests, seqno, conn>>
  <2> DEFINE r == allocate_lock(op.packet, TRUE, "FILE", Received.handle,
                                packet[op.packet].path, Received.size)
  <2>1. TRUE \in BOOLEAN /\ "FILE" \in LockKinds /\ "0" \in DosErrors
    BY DEF LockKinds, DosErrors
  <2>2. FreshLock(r, op.packet, TRUE, "FILE", Received.handle, packet[op.packet].path,
                  Received.size)
    BY <1>0, <1>1, <2>1, OpenAnswered, AllocatedType
  <2> HIDE DEF r
  <2>3. /\ r \in LockType /\ r.owner = op.packet /\ GoodLock(r) /\ r.handle_id = Received.handle
        /\ r.type = Received.type /\ r.path = PathOf(packet[op.packet])
    BY <1>2, <2>2 DEF FreshLock, GoodLock, PathOf
  <2>4. NewLockId \in Free /\ NewLockId \in Int \cup LockIds
    BY <1>1, RoomToComplete DEF Free
  <2>5. Created(op.packet, r)
    BY <1>2, <2>3, <2>4 DEF Created, r
  <2>6. /\ \E pkt \in PacketType : Puts(op.packet, pkt) /\ pkt.state = "replied"
        /\ Unlinked(op)
    BY <1>0, <1>2, <2>1, <2>4, CompletePuts
  <2> QED
    BY <1>0, <1>2, <2>3, <2>5, <2>6 DEF CompleteStep, NothingSent
<1>3. CASE /\ \E err \in DosErrors : Complete(op, 0, err)
           /\ transmit_message(CloseRequest(seqno, Received.handle)) /\ seqno' = seqno + 1
           /\ UNCHANGED lock
  <2>1. /\ \E pkt \in PacketType : Puts(op.packet, pkt) /\ pkt.state = "replied"
        /\ Unlinked(op)
    BY <1>0, <1>3, SpecialIds, CompletePuts
  <2> QED
    BY <1>0, <1>3, <2>1 DEF CompleteStep
<1> QED
  BY <1>2, <1>3 DEF complete_findinput, DosErrors

LEMMA LocateCompletes ==
  ASSUME SessionInv, NEW op, Waiting(op), Received \in AnswerType, Received.kind = op.expects,
         packet[op.packet].type = "LOCATE_OBJECT", complete_locate_object(op)
  PROVE  CompleteStep(op)
<1>0. FsType /\ op.expects = "OPEN" /\ Received.kind = "OPEN"
  BY DEF SessionInv, TypeInv, Waiting, Waits
<1>1. op.packet \in Procs /\ op.packet \in Held /\ packet[op.packet].path \in Seq(STRING)
  BY DEF Waiting, PacketType
<1>2. NothingSent
  BY DEF complete_locate_object, NothingSent
<1>3. "0" \in DosErrors /\ "NO_FREE_STORE" \in DosErrors
  BY DEF DosErrors
<1> DEFINE path == normalize_object_path(packet[op.packet].arg, packet[op.packet].path)
           r == allocate_lock(op.packet, FALSE, Received.type, Received.handle, path,
                              Received.size)
<1>4. path \in Seq(STRING) /\ path = PathOf(packet[op.packet])
  <2>1. \/ packet[op.packet].arg = NullLock
        \/ packet[op.packet].arg \in LockIds /\ lock[packet[op.packet].arg] # NoLock
    BY DEF Waiting, ArgOk, OwnLock
  <2>2. path \in Seq(STRING)
    BY <1>0, <1>1, <2>1, NormalType
  <2> QED
    BY <2>2 DEF PathOf
<1> HIDE DEF path
<1>5. CASE lock' = [lock EXCEPT ![NewLockId] = r] /\ Complete(op, NewLockId, "0")
  <2>1. FALSE \in BOOLEAN
    OBVIOUS
  <2>2. FreshLock(r, op.packet, FALSE, Received.type, Received.handle, path, Received.size)
    BY <1>0, <1>1, <1>4, <2>1, OpenAnswered, AllocatedType
  <2> HIDE DEF r
  <2>3. /\ r \in LockType /\ r.owner = op.packet /\ GoodLock(r) /\ r.handle_id = Received.handle
        /\ r.type = Received.type /\ r.path = PathOf(packet[op.packet])
    BY <1>0, <1>4, <2>2, OpenAnswered DEF FreshLock, GoodLock
  <2>4. NewLockId \in Free /\ NewLockId \in Int \cup LockIds
    BY <1>1, RoomToComplete DEF Free
  <2>5. Created(op.packet, r)
    BY <1>5, <2>3, <2>4 DEF Created
  <2>6. /\ \E pkt \in PacketType : Puts(op.packet, pkt) /\ pkt.state = "replied"
        /\ Unlinked(op)
    BY <1>0, <1>3, <1>5, <2>4, CompletePuts
  <2> QED
    BY <1>0, <1>2, <2>3, <2>5, <2>6 DEF CompleteStep
<1>6. CASE AllocMayFail /\ Complete(op, 0, "NO_FREE_STORE") /\ UNCHANGED lock
  <2>1. /\ \E pkt \in PacketType : Puts(op.packet, pkt) /\ pkt.state = "replied"
        /\ Unlinked(op)
    BY <1>0, <1>3, <1>6, SpecialIds, CompletePuts
  <2>2. Touched
    BY <1>0, <1>6, TouchedRefl
  <2> QED
    BY <1>2, <1>6, <2>1, <2>2 DEF CompleteStep
<1> QED
  BY <1>5, <1>6 DEF complete_locate_object, path

LEMMA ExamineCompletes ==
  ASSUME SessionInv, NEW op, Waiting(op), Received \in AnswerType, Received.kind = op.expects,
         packet[op.packet].type = "EXAMINE_NEXT", complete_examine_next(op)
  PROVE  CompleteStep(op)
<1>0. FsType /\ op.expects = "FIND" /\ Received.kind = "FIND"
  BY DEF SessionInv, TypeInv, Waiting, Waits
<1> DEFINE p == op.packet
           l == packet[p].arg
           more == ~Received.end_of_sequence
           data == IF more THEN <<Received.entry>> ELSE <<>>
           pkt == Replied([packet[p] EXCEPT !.data = data],
                          IF more THEN 1 ELSE 0, IF more THEN "0" ELSE "NO_MORE_ENTRIES")
           r == [lock[l] EXCEPT !.enum = @ /\ more, !.seen = IF more THEN @ + 1 ELSE @]
<1>1. packet[p] \in PacketType /\ p \in Procs
  BY DEF Waiting
<1>2. l \in LockIds /\ lock[l] # NoLock /\ lock[l] \in LockType
  BY <1>0, LockTypes DEF Waiting, ArgOk, OwnLock
<1>3. Received.end_of_sequence \in BOOLEAN /\ (more => Received.entry \in Byte)
  BY <1>0 DEF AnswerType
<1>4. more \in BOOLEAN
  OBVIOUS
<1>5. packet' = [packet EXCEPT ![p] = pkt] /\ unlink_pending(op) /\ NothingSent
  BY <1>0, <1>1 DEF complete_examine_next, NothingSent, FsType
<1>6. lock' = [lock EXCEPT ![l] = r]
  BY <1>0, <1>2 DEF complete_examine_next, FsType
<1> HIDE DEF more
<1>7. data \in Seq(Byte)
  BY <1>3
<1> HIDE DEF data
<1>8. [packet[p] EXCEPT !.data = data] \in PacketType
  BY <1>1, <1>7 DEF PacketType, Byte
<1>9. pkt \in PacketType /\ pkt.state = "replied"
  <2>1. PICK res \in Int \cup LockIds : res = IF more THEN 1 ELSE 0
    OBVIOUS
  <2>2. PICK err \in DosErrors : err = IF more THEN "0" ELSE "NO_MORE_ENTRIES"
    BY DEF DosErrors
  <2>3. PICK q \in PacketType : q = [packet[p] EXCEPT !.data = data]
    BY <1>8
  <2>4. pkt = Replied(q, res, err)
    BY <2>1, <2>2, <2>3
  <2> HIDE DEF pkt
  <2> QED
    BY <2>4, RepliedType
<1>10. r \in LockType /\ SameHandle(r, lock[l])
  <2>1. PICK enum \in BOOLEAN : enum = (lock[l].enum /\ more)
    BY Zenon
  <2>2. PICK seen \in Nat : seen = IF more THEN lock[l].seen + 1 ELSE lock[l].seen
    <3>1. lock[l].seen \in Nat
      BY <1>2 DEF LockType
    <3> QED
      BY <3>1
  <2>3. r = [lock[l] EXCEPT !.enum = enum, !.seen = seen]
    BY <1>2, <2>1, <2>2 DEF LockType
  <2> HIDE DEF r
  <2> QED
    BY <1>2, <2>3 DEF LockType, SameHandle
<1> HIDE DEF pkt, r, l
<1>11. Touched
  BY <1>0, <1>2, <1>6, <1>10, TouchedOne
<1> QED
  BY <1>0, <1>5, <1>9, <1>11 DEF CompleteStep, Puts, Unlinked, unlink_pending

(* The beginning and the rest of an answer's data. *)
LEMMA SliceType ==
  ASSUME NEW s \in Seq(Byte), NEW n \in 0 .. Len(s)
  PROVE  /\ SubSeq(s, 1, n) \in Seq(Byte) /\ Len(SubSeq(s, 1, n)) = n
         /\ SubSeq(s, n + 1, Len(s)) \in Seq(Byte)
<1>1. Len(s) \in Nat /\ n \in Nat /\ n <= Len(s)
  BY LenProperties
<1>2. /\ \A i \in 1 .. n : i \in 1 .. Len(s)
      /\ \A i \in n + 1 .. Len(s) : i \in 1 .. Len(s)
  BY <1>1
<1>3. \A i \in 1 .. Len(s) : s[i] \in Byte
  BY ElementOfSeq
<1>4. SubSeq(s, 1, n) \in Seq(Byte)
  BY <1>1, <1>2, <1>3, SubSeqProperties
<1>5. SubSeq(s, n + 1, Len(s)) \in Seq(Byte)
  BY <1>1, <1>2, <1>3, SubSeqProperties
<1>6. Len(SubSeq(s, 1, n)) = n
  BY <1>1, SubSeqProperties
<1> QED
  BY <1>4, <1>5, <1>6

LEMMA ReadCompletes ==
  ASSUME SessionInv, NEW op, Waiting(op), Received \in AnswerType, Received.kind = op.expects,
         packet[op.packet].type = "READ", complete_read(op)
  PROVE  CompleteStep(op) \/ RequeueStep(op)
<1>0. FsType /\ op.expects = "READ" /\ Received.kind = "READ"
  BY DEF SessionInv, TypeInv, Waiting, Waits
<1>1. PICK p \in Procs : p = op.packet
  BY DEF Waiting
<1>2. PICK pkt \in PacketType : pkt = packet[p]
  BY <1>1 DEF Waiting
<1>3. PICK l \in LockIds : l = pkt.arg /\ OwnLock(p, l, TRUE)
  BY <1>1, <1>2 DEF Waiting, ArgOk, OwnLock
<1>4. PICK h \in LockType : h = lock[l]
  BY <1>0, <1>3, LockTypes DEF OwnLock
<1>5. PICK new \in Seq(Byte) : new = Received.data
  BY <1>0 DEF AnswerType
<1>6. /\ pkt.state = "held" /\ pkt.type = "READ" /\ pkt.data \in Seq(Byte)
      /\ pkt.count \in Nat /\ Len(pkt.data) \in Nat /\ Len(pkt.data) <= pkt.count
      /\ Len(new) \in Nat
  BY <1>1, <1>2, LenProperties DEF Waiting, ArgOk, PacketType, Byte
<1>7. PICK slice \in 0 .. Len(new) :
        /\ slice = Min2(pkt.count - Len(pkt.data), Len(new))
        /\ slice \in Nat /\ slice <= pkt.count - Len(pkt.data)
  BY <1>6 DEF Min2
<1>8. PICK data \in Seq(Byte) :
        /\ data = pkt.data \o SubSeq(new, 1, slice)
        /\ Len(data) = Len(pkt.data) + slice /\ Len(data) \in Nat
  <2>1. SubSeq(new, 1, slice) \in Seq(Byte) /\ Len(SubSeq(new, 1, slice)) = slice
    BY SliceType
  <2>2. /\ pkt.data \o SubSeq(new, 1, slice) \in Seq(Byte)
        /\ Len(pkt.data \o SubSeq(new, 1, slice)) = Len(pkt.data) + slice
    <3>1. \A a, b \in Seq(Byte) : a \o b \in Seq(Byte) /\ Len(a \o b) = Len(a) + Len(b)
      BY ConcatProperties
    <3>2. pkt.data \in Seq(Byte)
      BY <1>6
    <3> QED
      BY <2>1, <3>1, <3>2, Zenon
  <2>3. Len(pkt.data) + slice \in Nat
    BY <1>6, <1>7
  <2> QED
    BY <2>2, <2>3
<1>9. Len(data) <= pkt.count
  BY <1>6, <1>7, <1>8
<1>10. PICK offset \in Nat : offset = h.offset + slice
  BY <1>7 DEF LockType
<1>11. PICK rest \in Seq(Byte) : rest = SubSeq(new, slice + 1, Len(new))
  BY SliceType
<1>12. lock[l] # NoLock
  BY <1>3 DEF OwnLock
<1>13. [pkt EXCEPT !.data = data] \in PacketType
  BY DEF PacketType, Byte
<1>14. IF Len(data) = pkt.count \/ new = <<>>
         THEN /\ lock' = [lock EXCEPT ![l].offset = offset, ![l].buffer_start = offset,
                                      ![l].buffer = rest]
              /\ packet' = [packet EXCEPT ![p] =
                   Replied([pkt EXCEPT !.data = data], Len(data), "0")]
              /\ unlink_pending(op)
              /\ UNCHANGED <<requests, seqno, conn>>
         ELSE /\ lock' = [lock EXCEPT ![l].offset = offset]
              /\ packet' = [packet EXCEPT ![p].data = data]
              /\ requeue(op, 0, 0)
              /\ transmit_message(ReadRequest(seqno, h.handle_id, offset))
  BY <1>1, <1>2, <1>3, <1>4, <1>5, <1>7, <1>8, <1>10, <1>11 DEF complete_read
<1>15. CASE Len(data) = pkt.count \/ new = <<>>
  <2> DEFINE r == [h EXCEPT !.offset = offset, !.buffer_start = offset, !.buffer = rest]
  <2>1. lock' = [lock EXCEPT ![l] = r]
    BY <1>0, <1>4, <1>14, <1>15 DEF FsType
  <2>2. r \in LockType /\ SameHandle(r, lock[l])
    BY <1>4 DEF LockType, SameHandle, Byte
  <2> HIDE DEF r
  <2>3. Touched
    BY <1>0, <1>12, <2>1, <2>2, TouchedOne
  <2>4. /\ Replied([pkt EXCEPT !.data = data], Len(data), "0") \in PacketType
        /\ Replied([pkt EXCEPT !.data = data], Len(data), "0").state = "replied"
    <3>1. Len(data) \in Int \cup LockIds /\ "0" \in DosErrors
      BY <1>8 DEF DosErrors
    <3> QED
      BY <1>13, <3>1, RepliedType, ZenonT(60)
  <2>5. \E x \in PacketType : Puts(op.packet, x) /\ x.state = "replied"
    BY <1>1, <1>14, <1>15, <2>4 DEF Puts
  <2>6. Unlinked(op) /\ NothingSent
    BY <1>14, <1>15 DEF Unlinked, unlink_pending, NothingSent
  <2> QED
    BY <1>0, <2>3, <2>5, <2>6 DEF CompleteStep
<1>16. CASE ~(Len(data) = pkt.count \/ new = <<>>)
  <2> DEFINE r == [h EXCEPT !.offset = offset]
             x == [pkt EXCEPT !.data = data]
             o == [op EXCEPT !.request_seqno = seqno, !.source = 0, !.length = 0]
  <2>1. lock' = [lock EXCEPT ![l] = r]
    BY <1>0, <1>4, <1>14, <1>16 DEF FsType
  <2>2. /\ r \in LockType /\ SameHandle(r, lock[l]) /\ r.offset = offset
        /\ r.handle_id = h.handle_id /\ r.owner = h.owner /\ r.fh = h.fh
    BY <1>4 DEF LockType, SameHandle
  <2>3. /\ x.state = "held" /\ x.type = "READ" /\ x.arg = l /\ x.count = pkt.count
        /\ x.data = data
    BY <1>3, <1>6 DEF PacketType
  <2>4. packet' = [packet EXCEPT ![p] = x]
    BY <1>0, <1>2, <1>14, <1>16 DEF FsType
  <2>5. x \in PacketType
    BY <1>13
  <2>6. seqno \in Nat /\ op \in OpType
    BY <1>0 DEF FsType, Waiting
  <2>7. PICK nop \in OpType : nop = o
    BY <2>6 DEF OpType
  <2>8. nop.packet = p /\ nop.request_seqno = seqno /\ nop.expects = "READ"
    BY <1>0, <1>1, <2>6, <2>7 DEF OpType
  <2>9. PICK msg \in RequestType : msg = ReadRequest(seqno, h.handle_id, offset)
    <3>1. h.handle_id \in Int
      BY DEF LockType
    <3> QED
      BY <2>6, <3>1, RequestTypes
  <2>10. /\ pending' = [i \in DOMAIN pending |-> IF pending[i] # op THEN pending[i] ELSE nop]
         /\ seqno' = seqno + 1 /\ transmit_message(msg)
    BY <1>14, <1>16, <2>7, <2>9 DEF requeue
  <2> HIDE DEF r, x, o
  <2>11. Touched
    BY <1>0, <1>12, <2>1, <2>2, TouchedOne
  <2>12. packet'[p] = x /\ lock'[l] = r /\ r # NoLock
    BY <1>0, <2>1, <2>2, <2>4, LockTypes DEF FsType
  <2>13. ArgOk(p)'
    BY <1>3, <1>4, <1>9, <2>2, <2>3, <2>12 DEF ArgOk, OwnLock
  <2>14. Asks(msg, nop)'
    BY <2>2, <2>3, <2>8, <2>9, <2>12 DEF Asks, Waits, ReadRequest
  <2>15. \E y \in PacketType :
           /\ Puts(op.packet, y) /\ y.state = "held"
           /\ y.type = packet[op.packet].type /\ y.type # "DIE"
    BY <1>1, <2>3, <2>4, <2>5 DEF Puts
  <2>16. ArgOk(op.packet)' /\ nop.packet = op.packet
    BY <1>1, <2>8, <2>13
  <2> QED
    BY <1>0, <2>8, <2>10, <2>11, <2>14, <2>15, <2>16 DEF RequeueStep
<1> QED
  BY <1>15, <1>16

LEMMA WriteCompletes ==
  ASSUME SessionInv, NEW op, Waiting(op), Received \in AnswerType, Received.kind = op.expects,
         packet[op.packet].type = "WRITE", complete_write(op)
  PROVE  CompleteStep(op) \/ RequeueStep(op)
<1>0. FsType /\ op.expects = "WRITE" /\ Received.kind = "WRITE" /\ UNCHANGED lock
  BY DEF SessionInv, TypeInv, Waiting, Waits, complete_write
<1>1. PICK p \in Procs : p = op.packet
  BY DEF Waiting
<1>2. PICK pkt \in PacketType : pkt = packet[p]
  BY <1>1 DEF Waiting
<1>3. PICK l \in LockIds : l = pkt.arg /\ OwnLock(p, l, TRUE)
  BY <1>1, <1>2 DEF Waiting, ArgOk, OwnLock
<1>4. lock[l] \in LockType /\ lock[l].handle_id \in Int
  BY <1>0, <1>3, LockTypes DEF OwnLock, LockType
<1>5. PICK curr \in Nat : curr = op.source + op.length
  BY DEF Waiting, OpType
<1>6. pkt.count \in Nat /\ pkt.state = "held" /\ pkt.type = "WRITE"
  BY <1>1, <1>2 DEF PacketType, Waiting
<1>7. Touched
  BY <1>0, TouchedRefl
<1>8. CASE curr < pkt.count
  <2>1. PICK length \in Nat : length = Min2(pkt.count - curr, Chunk)
    BY <1>6, <1>8, TreeAssumption DEF Min2
  <2>2. seqno \in Nat /\ op \in OpType /\ WriteData(curr, length) \in Seq(Nat)
    BY <1>0, WriteDataType DEF FsType, Waiting
  <2>3. PICK nop \in OpType :
          nop = [op EXCEPT !.request_seqno = seqno, !.source = curr, !.length = length]
    BY <2>2 DEF OpType
  <2>4. /\ nop.packet = p /\ nop.request_seqno = seqno /\ nop.expects = "WRITE"
        /\ nop.source = curr /\ nop.length = length
    BY <1>0, <1>1, <2>2, <2>3 DEF OpType
  <2>5. PICK msg \in RequestType :
          msg = WriteRequest(seqno, lock[l].handle_id, p, curr, WriteData(curr, length))
    BY <1>4, <2>2, RequestTypes
  <2>6. /\ pending' = [i \in DOMAIN pending |-> IF pending[i] # op THEN pending[i] ELSE nop]
        /\ seqno' = seqno + 1 /\ transmit_message(msg) /\ UNCHANGED packet
    BY <1>1, <1>2, <1>3, <1>5, <1>8, <2>1, <2>3, <2>5 DEF complete_write, requeue
  <2>7. ArgOk(p)'
    BY <1>0, <1>1, <2>6 DEF ArgOk, OwnLock, Waiting
  <2>8. Asks(msg, nop)'
    BY <1>0, <1>2, <1>3, <1>6, <2>4, <2>5, <2>6 DEF Asks, Waits, WriteRequest, WriteData
  <2>9. packet' = [packet EXCEPT ![p] = pkt]
    BY <1>0, <1>2, <2>6 DEF FsType
  <2>10. \E y \in PacketType :
           /\ Puts(op.packet, y) /\ y.state = "held"
           /\ y.type = packet[op.packet].type /\ y.type # "DIE"
    BY <1>1, <1>2, <1>6, <2>9 DEF Puts
  <2>11. ArgOk(op.packet)' /\ nop.packet = op.packet
    BY <1>1, <2>4, <2>7
  <2> QED
    BY <1>0, <1>7, <2>4, <2>6, <2>8, <2>10, <2>11 DEF RequeueStep
<1>9. CASE ~(curr < pkt.count)
  <2>1. Complete(op, pkt.count, "0") /\ NothingSent
    BY <1>1, <1>2, <1>5, <1>9 DEF complete_write, NothingSent
  <2>2. pkt.count \in Int \cup LockIds /\ "0" \in DosErrors
    BY <1>6 DEF DosErrors
  <2>3. /\ \E x \in PacketType : Puts(op.packet, x) /\ x.state = "replied"
        /\ Unlinked(op)
    BY <1>0, <2>1, <2>2, CompletePuts
  <2> QED
    BY <1>0, <1>7, <2>1, <2>3 DEF CompleteStep
<1> QED
  BY <1>8, <1>9

LEMMA ErrorCompletes ==
  ASSUME SessionInv, Received \in AnswerType, network_error
  PROVE  CompleteStep(find_pending_op)
<1>0. FsType /\ Found /\ Received.kind # find_pending_op.expects
  BY DEF SessionInv, TypeInv, network_error
<1>1. Waiting(find_pending_op)
  BY <1>0, FoundWaits
<1>2. PICK op : op = find_pending_op
  OBVIOUS
<1>3. CASE Received.kind = "ERROR"
  <2>1. PICK err \in DosErrors : err = translate_error_code(Received.error_code)
    BY DEF translate_error_code, DosErrors
  <2>2. Complete(op, 0, err) /\ NothingSent /\ UNCHANGED lock
    BY <1>2, <1>3, <2>1 DEF network_error, NothingSent
  <2>3. /\ \E x \in PacketType : Puts(op.packet, x) /\ x.state = "replied"
        /\ Unlinked(op)
    BY <1>0, <1>1, <1>2, <2>2, SpecialIds, CompletePuts
  <2>4. Touched /\ Received.kind # "OPEN"
    BY <1>0, <1>3, <2>2, TouchedRefl
  <2>5. CompleteStep(op)
    BY <2>2, <2>3, <2>4 DEF CompleteStep
  <2> QED
    BY <1>2, <2>5
<1>4. CASE Received.kind # "ERROR"
  <2>1. "DEVICE_NOT_MOUNTED" \in DosErrors
    BY DEF DosErrors
  <2>2. /\ Complete(op, 0, "DEVICE_NOT_MOUNTED") /\ conn' = "failed"
        /\ UNCHANGED <<requests, lock, seqno>>
    BY <1>2, <1>4 DEF network_error
  <2>3. /\ \E x \in PacketType : Puts(op.packet, x) /\ x.state = "replied"
        /\ Unlinked(op)
    BY <1>0, <1>1, <1>2, <2>1, <2>2, SpecialIds, CompletePuts
  <2>4. CompleteStep(op)
    BY <2>2, <2>3 DEF CompleteStep
  <2> QED
    BY <1>2, <2>4
<1> QED
  BY <1>3, <1>4

(* Every answer finishes an operation, lets it ask for more, or is not      *)
(* expected and ends the connection.                                        *)
LEMMA NetworkSteps ==
  ASSUME SessionInv, rl_amigafs_process_network_message
  PROVE  /\ conn = "up" /\ answers # <<>> /\ answers' = Tail(answers)
         /\ Received \in AnswerType /\ UNCHANGED sent
         /\ \/ /\ ~Found /\ conn' = "failed"
               /\ UNCHANGED <<requests, packet, lock, pending, seqno>>
            \/ Waiting(find_pending_op) /\ Found
               /\ (CompleteStep(find_pending_op) \/ RequeueStep(find_pending_op))
<1>1. /\ conn = "up" /\ answers # <<>> /\ answers' = Tail(answers) /\ UNCHANGED sent
      /\ network_unexpected \/ network_error \/ network_completes
  BY DEF rl_amigafs_process_network_message
<1>2. Received \in AnswerType
  BY <1>1, HeadTailProperties DEF SessionInv, TypeInv, ChannelType, Received
<1>3. CASE network_unexpected
  BY <1>1, <1>2, <1>3 DEF network_unexpected
<1>4. CASE network_error
  <2>1. Found
    BY <1>4 DEF network_error
  <2> QED
    BY <1>1, <1>2, <1>4, <2>1, FoundWaits, ErrorCompletes
<1>5. CASE network_completes
  <2>1. Found /\ Received.kind = find_pending_op.expects
    BY <1>5 DEF network_completes
  <2>2. Waiting(find_pending_op)
    BY <2>1, FoundWaits
  <2>3. PICK op : op = find_pending_op
    OBVIOUS
  <2>4. \/ packet[op.packet].type = "FINDINPUT" /\ complete_findinput(op)
        \/ packet[op.packet].type = "LOCATE_OBJECT" /\ complete_locate_object(op)
        \/ packet[op.packet].type = "EXAMINE_NEXT" /\ complete_examine_next(op)
        \/ packet[op.packet].type = "READ" /\ complete_read(op)
        \/ packet[op.packet].type = "WRITE" /\ complete_write(op)
    BY <1>5, <2>3 DEF network_completes
  <2>5. Waiting(op) /\ Received.kind = op.expects
    BY <2>1, <2>2, <2>3
  <2>6. CompleteStep(op) \/ RequeueStep(op)
    BY <1>2, <2>4, <2>5, FindinputCompletes, LocateCompletes, ExamineCompletes,
       ReadCompletes, WriteCompletes
  <2> QED
    BY <1>1, <1>2, <2>1, <2>2, <2>3, <2>6
<1> QED
  BY <1>1, <1>3, <1>4, <1>5

LEMMA RootEnumType ==
  ASSUME root_enum \in BOOLEAN, Next
  PROVE  root_enum' \in BOOLEAN
<1>1. ASSUME NEW p \in Procs, process_fs_packet(p) PROVE root_enum' \in BOOLEAN
  BY <1>1 DEF process_fs_packet, action_findinput, action_findoutput, action_locate_object,
     action_free_lock, action_end, action_copy_dir, action_parent, action_local, action_die,
     action_read, action_write, action_seek, action_examine_next, ReplyLock
<1>2. CASE NetworkStep
  BY <1>2 DEF NetworkStep, rl_amigafs_process_network_message, network_unexpected,
     network_error, network_completes, complete_findinput, complete_locate_object,
     complete_examine_next, complete_read, complete_write
<1>3. CASE ServerStep \/ spawn_failure \/ connection_lost \/ rl_amigafs_destroy
  BY <1>3 DEF ServerStep, spawn_failure, connection_lost, rl_amigafs_destroy, fsVars
<1> QED
  BY <1>1, <1>2, <1>3 DEF Next

-----------------------------------------------------------------------------
(* What the steps do to the parts of the state.                             *)

(* The locks: the fields that say what a lock is stay, p gets a new lock, or *)
(* one of p's own locks goes.                                               *)
LockStep(p) ==
  Touched \/ (\E r \in LockType : Created(p, r)) \/ (\E l \in LockIds : Freed(p, l))

LEMMA LockStepType ==
  ASSUME FsType, LockInv, NEW p \in Procs, LockStep(p)
  PROVE  lock' \in [LockIds -> LockType \cup {NoLock}] /\ LockInv'
<1>1. CASE Touched
  BY <1>1 DEF Touched, LockInv, GoodLock, SameHandle
<1>2. ASSUME NEW r \in LockType, Created(p, r)
      PROVE  lock' \in [LockIds -> LockType \cup {NoLock}] /\ LockInv'
  BY <1>2 DEF Created, LockInv, FsType, Free
<1>3. ASSUME NEW l \in LockIds, Freed(p, l)
      PROVE  lock' \in [LockIds -> LockType \cup {NoLock}] /\ LockInv'
  BY <1>3 DEF Freed, LockInv, FsType
<1> QED
  BY <1>1, <1>2, <1>3 DEF LockStep

(* Other programs keep their locks. *)
LEMMA OthersKeepLocks ==
  ASSUME FsType, NEW p \in Procs, LockStep(p), NEW q \in Procs, q # p, NEW k, NEW fh,
         OwnLock(q, k, fh)
  PROVE  OwnLock(q, k, fh)' /\ SameHandle(lock'[k], lock[k])
<1>0. k \in LockIds /\ lock[k] # NoLock /\ lock[k].owner = q
  BY DEF OwnLock
<1>1. CASE Touched
  BY <1>0, <1>1 DEF Touched, OwnLock, SameHandle
<1>2. ASSUME NEW r \in LockType, Created(p, r)
      PROVE  OwnLock(q, k, fh)' /\ SameHandle(lock'[k], lock[k])
  <2>1. lock'[k] = lock[k]
    BY <1>0, <1>2 DEF Created, Free, FsType
  <2> QED
    BY <2>1 DEF OwnLock, SameHandle
<1>3. ASSUME NEW l \in LockIds, Freed(p, l)
      PROVE  OwnLock(q, k, fh)' /\ SameHandle(lock'[k], lock[k])
  <2>1. lock'[k] = lock[k]
    BY <1>0, <1>3 DEF Freed, FsType
  <2> QED
    BY <2>1 DEF OwnLock, SameHandle
<1> QED
  BY <1>1, <1>2, <1>3 DEF LockStep

LEMMA FreeChanges ==
  ASSUME FsType, NEW p \in Procs
  PROVE  /\ Touched => Free' = Free
         /\ \A r \in LockType : Created(p, r) => Free' = Free \ {NewLockId}
         /\ \A l \in LockIds : Freed(p, l) => Free' = Free \cup {l}
<1>1. Touched => Free' = Free
  BY DEF Touched, Free
<1>2. ASSUME NEW r \in LockType, Created(p, r) PROVE Free' = Free \ {NewLockId}
  <2>1. PICK n \in LockIds : n = NewLockId
    BY <1>2 DEF Created, Free
  <2>2. \A k \in LockIds : lock'[k] = IF k = n THEN r ELSE lock[k]
    BY <1>2, <2>1 DEF Created, FsType
  <2>3. r # NoLock
    BY LockTypes
  <2>4. Free' = Free \ {n}
    BY <2>2, <2>3 DEF Free
  <2> QED
    BY <2>1, <2>4
<1>3. ASSUME NEW l \in LockIds, Freed(p, l) PROVE Free' = Free \cup {l}
  <2>1. \A k \in LockIds : lock'[k] = IF k = l THEN NoLock ELSE lock[k]
    BY <1>3 DEF Freed, FsType
  <2> QED
    BY <2>1 DEF Free
<1> QED
  BY <1>1, <1>2, <1>3

LEMMA HeldChanges ==
  ASSUME FsType, NEW p \in Procs, NEW pkt \in PacketType, Puts(p, pkt)
  PROVE  /\ packet' \in [Procs -> PacketType] /\ packet'[p] = pkt
         /\ \A q \in Procs : q # p => packet'[q] = packet[q]
         /\ pkt.state = "held" => Held' = Held \cup {p}
         /\ pkt.state # "held" => Held' = Held \ {p}
<1>1. /\ packet' \in [Procs -> PacketType] /\ packet'[p] = pkt
      /\ \A q \in Procs : q # p => packet'[q] = packet[q]
  BY DEF Puts, FsType
<1> QED
  BY <1>1 DEF Held

(* The held packets of the others keep their locks. *)
LEMMA ArgInvKept ==
  ASSUME FsType, ArgInv, NEW p \in Procs, NEW pkt \in PacketType, Puts(p, pkt), LockStep(p),
         pkt.state = "held" => ArgOk(p)'
  PROVE  ArgInv'
<1> SUFFICES ASSUME NEW q \in Held' PROVE ArgOk(q)'
  BY DEF ArgInv
<1>1. q \in Procs
  BY DEF Held
<1>2. CASE q = p
  BY <1>2, HeldChanges
<1>3. CASE q # p
  <2>1. packet'[q] = packet[q] /\ q \in Held
    BY <1>1, <1>3, HeldChanges
  <2>2. \A k, fh : OwnLock(q, k, fh) => OwnLock(q, k, fh)'
    BY <1>1, <1>3, OthersKeepLocks
  <2>3. ArgOk(q)
    BY <2>1 DEF ArgInv
  <2>4. PICK x : x = packet[q]
    OBVIOUS
  <2>5. /\ x.type \in {"READ", "WRITE"} => OwnLock(q, x.arg, TRUE)
        /\ x.type = "EXAMINE_NEXT" => OwnLock(q, x.arg, FALSE)
        /\ x.type = "LOCATE_OBJECT" => x.arg = NullLock \/ OwnLock(q, x.arg, FALSE)
        /\ x.type = "READ" => Len(x.data) <= x.count
    BY <2>3, <2>4 DEF ArgOk
  <2>6. /\ x.type \in {"READ", "WRITE"} => OwnLock(q, x.arg, TRUE)'
        /\ x.type = "EXAMINE_NEXT" => OwnLock(q, x.arg, FALSE)'
        /\ x.type = "LOCATE_OBJECT" => x.arg = NullLock \/ OwnLock(q, x.arg, FALSE)'
    BY <2>2, <2>5
  <2> QED
    BY <2>1, <2>4, <2>5, <2>6 DEF ArgOk
<1> QED
  BY <1>2, <1>3

(* The list of operations without the one at i. *)
LEMMA RemoveAtProperties ==
  ASSUME NEW S, NEW s \in Seq(S), NEW i \in 1 .. Len(s)
  PROVE  /\ RemoveAt(s, i) \in Seq(S) /\ Len(RemoveAt(s, i)) = Len(s) - 1
         /\ \A j \in 1 .. Len(s) - 1 : RemoveAt(s, i)[j] = IF j < i THEN s[j] ELSE s[j + 1]
<1>1. Len(s) \in Nat /\ i \in Nat /\ 1 <= i /\ i <= Len(s)
  BY LenProperties
<1> DEFINE a == SubSeq(s, 1, i - 1)
           b == SubSeq(s, i + 1, Len(s))
<1>2. \A j \in 1 .. Len(s) : s[j] \in S
  BY ElementOfSeq
<1>3. \A j \in 1 .. i - 1 : s[j] \in S
  BY <1>1, <1>2
<1>4. \A j \in i + 1 .. Len(s) : s[j] \in S
  BY <1>1, <1>2
<1>5. /\ a \in Seq(S) /\ Len(a) = i - 1 /\ \A j \in 1 .. i - 1 : a[j] = s[j]
  <2>1. i - 1 \in Int /\ i - 1 \in Nat /\ 1 \in Int
    BY <1>1
  <2> QED
    BY <1>1, <1>3, <2>1, SubSeqProperties
<1>6. /\ b \in Seq(S) /\ Len(b) = Len(s) - i /\ \A j \in 1 .. Len(s) - i : b[j] = s[i + j]
  <2>1. i + 1 \in Int /\ Len(s) \in Int /\ Len(s) - i \in Nat
    BY <1>1
  <2>2. b \in Seq(S)
    BY <1>1, <1>4, <2>1, SubSeqProperties
  <2>3. Len(b) = Len(s) - i
    BY <1>1, <2>1, SubSeqProperties
  <2>4. \A j \in 1 .. Len(s) - i : b[j] = s[i + j]
    <3> SUFFICES ASSUME NEW j \in 1 .. Len(s) - i PROVE b[j] = s[i + j]
      OBVIOUS
    <3>1. j \in 1 .. Len(s) - (i + 1) + 1 /\ (i + 1) + j - 1 = i + j
      BY <1>1
    <3> QED
      BY <1>1, <2>1, <3>1, SubSeqProperties
  <2> QED
    BY <2>2, <2>3, <2>4
<1> HIDE DEF a, b
<1>7. RemoveAt(s, i) = a \o b
  BY DEF RemoveAt, a, b
<1>8. /\ a \o b \in Seq(S) /\ Len(a \o b) = Len(a) + Len(b)
      /\ \A j \in 1 .. Len(a) + Len(b) : (a \o b)[j] = IF j <= Len(a) THEN a[j] ELSE b[j - Len(a)]
  BY <1>5, <1>6, ConcatProperties
<1>9. ASSUME NEW j \in 1 .. Len(s) - 1
      PROVE  (a \o b)[j] = IF j < i THEN s[j] ELSE s[j + 1]
  <2>1. j \in 1 .. Len(a) + Len(b)
    BY <1>1, <1>5, <1>6
  <2>2. CASE j < i
    BY <1>1, <1>5, <1>8, <2>1, <2>2
  <2>3. CASE ~(j < i)
    <3>1. j - Len(a) \in 1 .. Len(s) - i /\ i + (j - Len(a)) = j + 1 /\ ~(j <= Len(a))
      BY <1>1, <1>5, <2>3
    <3> QED
      BY <1>6, <1>8, <2>1, <2>3, <3>1
  <2> QED
    BY <2>2, <2>3
<1> QED
  BY <1>1, <1>5, <1>6, <1>7, <1>8, <1>9

(* The list of pending operations.                                          *)

LEMMA PendingFacts ==
  ASSUME FsType
  PROVE  /\ DOMAIN pending = 1 .. Len(pending) /\ Len(pending) \in Nat
         /\ \A i \in DOMAIN pending : pending[i] \in OpType
BY LenProperties, ElementOfSeq DEF FsType

(* A list that does not change. *)
LEMMA OpInvReply ==
  ASSUME FsType, OpInv, NEW p \in Procs, p \notin Held, NEW pkt \in PacketType, Puts(p, pkt),
         \/ pkt.state = "replied"
         \/ pkt.state = "held" /\ (pkt.type = "DIE" \/ conn' = "crashed"),
         pending' = pending, seqno' \in Nat, seqno' >= seqno, conn' # "crashed" => conn # "crashed"
  PROVE  OpInv'
<1>0. seqno \in Nat
  BY DEF FsType
<1>1. /\ packet'[p] = pkt /\ \A q \in Procs : q # p => packet'[q] = packet[q]
      /\ Held' = Held \/ Held' = Held \cup {p}
      /\ pkt.state = "replied" => Held' = Held
  BY HeldChanges
<1>2. ASSUME NEW i \in DOMAIN pending'
      PROVE  /\ pending'[i].packet \in Held'
             /\ packet'[pending'[i].packet].type # "DIE"
             /\ pending'[i].expects = Waits(packet'[pending'[i].packet].type)
             /\ pending'[i].request_seqno < seqno'
  <2>1. /\ pending'[i] = pending[i] /\ i \in DOMAIN pending /\ pending[i] \in OpType
        /\ pending[i].request_seqno \in Nat
    BY PendingFacts DEF OpType
  <2>2. /\ pending[i].packet \in Held /\ packet[pending[i].packet].type # "DIE"
        /\ pending[i].expects = Waits(packet[pending[i].packet].type)
        /\ pending[i].request_seqno < seqno
    BY <2>1 DEF OpInv
  <2>3. packet'[pending[i].packet] = packet[pending[i].packet]
    BY <1>1, <2>2 DEF Held
  <2> QED
    BY <1>0, <1>1, <2>1, <2>2, <2>3
<1>3. \A i, j \in DOMAIN pending' :
        (\/ pending'[i].packet = pending'[j].packet
         \/ pending'[i].request_seqno = pending'[j].request_seqno)
        => i = j
  BY DEF OpInv
<1>4. ASSUME conn' # "crashed", NEW q \in Held', packet'[q].type # "DIE"
      PROVE  \E i \in DOMAIN pending' : pending'[i].packet = q
  <2>1. q \in Held /\ q # p
    BY <1>1, <1>4
  <2>2. packet'[q] = packet[q]
    BY <1>1, <2>1 DEF Held
  <2> QED
    BY <1>4, <2>1, <2>2 DEF OpInv
<1>5. /\ \A i \in DOMAIN pending' :
           /\ pending'[i].packet \in Held'
           /\ packet'[pending'[i].packet].type # "DIE"
           /\ pending'[i].expects = Waits(packet'[pending'[i].packet].type)
           /\ pending'[i].request_seqno < seqno'
      /\ conn' # "crashed" =>
           \A q \in Held' :
             packet'[q].type # "DIE" => \E i \in DOMAIN pending' : pending'[i].packet = q
  BY <1>2, <1>4
<1> QED
  BY <1>3, <1>5 DEF OpInv

(* A new operation at the front. *)
LEMMA PrependFacts ==
  ASSUME FsType, NEW op \in OpType, pending' = <<op>> \o pending
  PROVE  /\ pending' \in Seq(OpType) /\ DOMAIN pending' = 1 .. Len(pending) + 1
         /\ pending'[1] = op /\ \A j \in 1 .. Len(pending) : pending'[j + 1] = pending[j]
<1>1. pending \in Seq(OpType) /\ <<op>> \in Seq(OpType) /\ Len(<<op>>) = 1 /\ <<op>>[1] = op
  BY DEF FsType
<1>2. Len(pending) \in Nat
  BY <1>1, LenProperties
<1>3. \A a, b \in Seq(OpType) :
        /\ a \o b \in Seq(OpType) /\ Len(a \o b) = Len(a) + Len(b)
        /\ \A i \in 1 .. Len(a) + Len(b) : (a \o b)[i] = IF i <= Len(a) THEN a[i] ELSE b[i - Len(a)]
  BY ConcatProperties
<1>4. PICK one \in Seq(OpType) : one = <<op>>
  BY <1>1
<1>5. /\ one \o pending \in Seq(OpType) /\ Len(one \o pending) = 1 + Len(pending)
      /\ \A i \in 1 .. 1 + Len(pending) :
           (one \o pending)[i] = IF i <= 1 THEN one[i] ELSE pending[i - 1]
  BY <1>1, <1>3, <1>4
<1>6. pending' = one \o pending
  BY <1>4
<1>7. pending' \in Seq(OpType) /\ Len(pending') = 1 + Len(pending)
  BY <1>5, <1>6
<1>8. DOMAIN pending' = 1 .. Len(pending) + 1
  BY <1>2, <1>7, LenProperties
<1>9. pending'[1] = op
  BY <1>1, <1>2, <1>4, <1>5, <1>6
<1>10. ASSUME NEW j \in 1 .. Len(pending) PROVE pending'[j + 1] = pending[j]
  <2>1. j + 1 \in 1 .. 1 + Len(pending) /\ ~(j + 1 <= 1) /\ j + 1 - 1 = j
    BY <1>2
  <2> QED
    BY <1>5, <1>6, <2>1
<1> QED
  BY <1>7, <1>8, <1>9, <1>10

LEMMA OpInvHold ==
  ASSUME FsType, OpInv, NEW p \in Procs, p \notin Held, NEW pkt \in PacketType, Puts(p, pkt),
         pkt.state = "held", pkt.type # "DIE", NEW op \in OpType, pending' = <<op>> \o pending,
         op.packet = p, op.request_seqno = seqno, op.expects = Waits(pkt.type),
         seqno' = seqno + 1, conn # "crashed"
  PROVE  OpInv'
<1>0. seqno \in Nat
  BY DEF FsType
<1>1. /\ packet'[p] = pkt /\ \A q \in Procs : q # p => packet'[q] = packet[q]
      /\ Held' = Held \cup {p}
  BY HeldChanges
<1>2. /\ DOMAIN pending' = 1 .. Len(pending) + 1 /\ Len(pending) \in Nat
      /\ DOMAIN pending = 1 .. Len(pending)
      /\ pending'[1] = op /\ \A j \in 1 .. Len(pending) : pending'[j + 1] = pending[j]
  BY PrependFacts, PendingFacts
<1>3. ASSUME NEW i \in DOMAIN pending', i # 1
      PROVE  /\ i - 1 \in DOMAIN pending /\ pending'[i] = pending[i - 1]
             /\ pending[i - 1].packet \in Held /\ pending[i - 1].request_seqno < seqno
             /\ pending[i - 1].request_seqno \in Nat
  <2>1. i - 1 \in 1 .. Len(pending) /\ i - 1 + 1 = i
    BY <1>2, <1>3
  <2>2. pending[i - 1] \in OpType
    BY <1>2, <2>1, PendingFacts
  <2>3. pending[i - 1].packet \in Held /\ pending[i - 1].request_seqno < seqno
    BY <1>2, <2>1 DEF OpInv
  <2> QED
    BY <1>2, <2>1, <2>2, <2>3 DEF OpType
<1>4. ASSUME NEW i \in DOMAIN pending'
      PROVE  /\ pending'[i].packet \in Held'
             /\ packet'[pending'[i].packet].type # "DIE"
             /\ pending'[i].expects = Waits(packet'[pending'[i].packet].type)
             /\ pending'[i].request_seqno < seqno'
  <2>1. CASE i = 1
    BY <1>0, <1>1, <1>2, <2>1
  <2>2. CASE i # 1
    <3>1. /\ i - 1 \in DOMAIN pending /\ pending'[i] = pending[i - 1]
          /\ pending[i - 1].packet \in Held /\ pending[i - 1].request_seqno < seqno
          /\ pending[i - 1].request_seqno \in Nat
      BY <1>3, <2>2
    <3>2. packet'[pending[i - 1].packet] = packet[pending[i - 1].packet]
      BY <1>1, <3>1 DEF Held
    <3> QED
      BY <1>0, <1>1, <3>1, <3>2 DEF OpInv
  <2> QED
    BY <2>1, <2>2
<1>5. ASSUME NEW i \in DOMAIN pending', NEW j \in DOMAIN pending',
             \/ pending'[i].packet = pending'[j].packet
             \/ pending'[i].request_seqno = pending'[j].request_seqno
      PROVE  i = j
  <2>1. CASE i = 1 /\ j # 1
    BY <1>0, <1>2, <1>3, <1>5, <2>1
  <2>2. CASE j = 1 /\ i # 1
    BY <1>0, <1>2, <1>3, <1>5, <2>2
  <2>3. CASE i # 1 /\ j # 1
    <3>1. i - 1 = j - 1
      BY <1>3, <1>5, <2>3 DEF OpInv
    <3> QED
      BY <1>2, <3>1
  <2> QED
    BY <2>1, <2>2, <2>3
<1>6. ASSUME NEW q \in Held', packet'[q].type # "DIE"
      PROVE  \E i \in DOMAIN pending' : pending'[i].packet = q
  <2>1. CASE q = p
    <3>1. 1 \in DOMAIN pending'
      BY <1>2
    <3> QED
      BY <1>2, <2>1, <3>1
  <2>2. CASE q # p
    <3>1. q \in Held /\ packet'[q] = packet[q]
      BY <1>1, <2>2 DEF Held
    <3>2. PICK i \in DOMAIN pending : pending[i].packet = q
      BY <1>6, <3>1 DEF OpInv
    <3>3. i + 1 \in DOMAIN pending' /\ pending'[i + 1] = pending[i]
      BY <1>2
    <3> QED
      BY <3>2, <3>3
  <2> QED
    BY <2>1, <2>2
<1> QED
  BY <1>4, <1>5, <1>6 DEF OpInv

(* An operation less. *)
LEMMA UnlinkFacts ==
  ASSUME FsType, NEW op, Unlinked(op)
  PROVE  \E k \in DOMAIN pending :
           /\ pending[k] = op /\ pending' \in Seq(OpType)
           /\ DOMAIN pending' = 1 .. Len(pending) - 1
           /\ \A j \in DOMAIN pending' :
                /\ (IF j < k THEN j ELSE j + 1) \in DOMAIN pending \ {k}
                /\ pending'[j] = pending[IF j < k THEN j ELSE j + 1]
           /\ \A i \in DOMAIN pending \ {k} :
                /\ (IF i < k THEN i ELSE i - 1) \in DOMAIN pending'
                /\ pending'[IF i < k THEN i ELSE i - 1] = pending[i]
<1>1. PICK k \in DOMAIN pending : pending[k] = op /\ pending' = RemoveAt(pending, k)
  BY DEF Unlinked
<1>2. DOMAIN pending = 1 .. Len(pending) /\ Len(pending) \in Nat /\ pending \in Seq(OpType)
  BY PendingFacts DEF FsType
<1>3. /\ pending' \in Seq(OpType) /\ Len(pending') = Len(pending) - 1
      /\ \A j \in 1 .. Len(pending) - 1 :
           pending'[j] = IF j < k THEN pending[j] ELSE pending[j + 1]
  BY <1>1, <1>2, RemoveAtProperties
<1>4. DOMAIN pending' = 1 .. Len(pending) - 1
  BY <1>3, LenProperties
<1>5. ASSUME NEW j \in DOMAIN pending'
      PROVE  /\ (IF j < k THEN j ELSE j + 1) \in DOMAIN pending \ {k}
             /\ pending'[j] = pending[IF j < k THEN j ELSE j + 1]
  BY <1>2, <1>3, <1>4
<1>6. ASSUME NEW i \in DOMAIN pending \ {k}
      PROVE  /\ (IF i < k THEN i ELSE i - 1) \in DOMAIN pending'
             /\ pending'[IF i < k THEN i ELSE i - 1] = pending[i]
  <2>1. CASE i < k
    BY <1>2, <1>3, <1>4, <2>1
  <2>2. CASE ~(i < k)
    <3>1. i - 1 \in 1 .. Len(pending) - 1 /\ ~(i - 1 < k) /\ i - 1 + 1 = i
      BY <1>2, <2>2
    <3> QED
      BY <1>3, <1>4, <2>2, <3>1
  <2> QED
    BY <2>1, <2>2
<1> QED
  BY <1>1, <1>3, <1>4, <1>5, <1>6

LEMMA OpInvComplete ==
  ASSUME FsType, OpInv, NEW op, Waiting(op), NEW pkt \in PacketType, Puts(op.packet, pkt),
         pkt.state = "replied", Unlinked(op), seqno' \in Nat, seqno' >= seqno, conn # "crashed"
  PROVE  OpInv'
<1>0. seqno \in Nat /\ op.packet \in Procs
  BY DEF FsType, Waiting
<1>1. /\ \A q \in Procs : q # op.packet => packet'[q] = packet[q]
      /\ Held' = Held \ {op.packet}
  BY <1>0, HeldChanges
<1>2. PICK k \in DOMAIN pending :
           /\ pending[k] = op
           /\ DOMAIN pending' = 1 .. Len(pending) - 1
           /\ \A j \in DOMAIN pending' :
                /\ (IF j < k THEN j ELSE j + 1) \in DOMAIN pending \ {k}
                /\ pending'[j] = pending[IF j < k THEN j ELSE j + 1]
           /\ \A i \in DOMAIN pending \ {k} :
                /\ (IF i < k THEN i ELSE i - 1) \in DOMAIN pending'
                /\ pending'[IF i < k THEN i ELSE i - 1] = pending[i]
  BY UnlinkFacts
<1>3. DOMAIN pending = 1 .. Len(pending) /\ Len(pending) \in Nat
  BY PendingFacts
<1>4. ASSUME NEW j \in DOMAIN pending'
      PROVE  /\ pending'[j].packet \in Held'
             /\ packet'[pending'[j].packet].type # "DIE"
             /\ pending'[j].expects = Waits(packet'[pending'[j].packet].type)
             /\ pending'[j].request_seqno < seqno'
  <2>1. PICK i \in DOMAIN pending \ {k} : pending'[j] = pending[i]
    BY <1>2
  <2>2. pending[i].packet # op.packet /\ pending[i].packet \in Held
    BY <1>2 DEF OpInv
  <2>3. packet'[pending[i].packet] = packet[pending[i].packet]
    BY <1>1, <2>2 DEF Held
  <2>4. pending[i].request_seqno \in Nat /\ pending[i].request_seqno < seqno
    BY PendingFacts DEF OpInv, OpType
  <2> QED
    BY <1>0, <1>1, <2>1, <2>2, <2>3, <2>4 DEF OpInv
<1>5. ASSUME NEW i \in DOMAIN pending', NEW j \in DOMAIN pending',
             \/ pending'[i].packet = pending'[j].packet
             \/ pending'[i].request_seqno = pending'[j].request_seqno
      PROVE  i = j
  <2>1. PICK a \in DOMAIN pending : a = IF i < k THEN i ELSE i + 1
    BY <1>2
  <2>2. PICK b \in DOMAIN pending : b = IF j < k THEN j ELSE j + 1
    BY <1>2
  <2>3. pending'[i] = pending[a] /\ pending'[j] = pending[b]
    BY <1>2, <2>1, <2>2
  <2>4. a = b
    BY <1>5, <2>3 DEF OpInv
  <2>5. i \in Nat /\ j \in Nat /\ k \in Nat
    BY <1>2, <1>3
  <2> QED
    BY <2>1, <2>2, <2>4, <2>5
<1>6. ASSUME NEW q \in Held', packet'[q].type # "DIE"
      PROVE  \E j \in DOMAIN pending' : pending'[j].packet = q
  <2>1. q \in Held /\ q # op.packet /\ packet'[q] = packet[q]
    BY <1>1 DEF Held
  <2>2. PICK i \in DOMAIN pending : pending[i].packet = q
    BY <1>6, <2>1 DEF OpInv
  <2>3. i \in DOMAIN pending \ {k}
    BY <1>2, <2>1, <2>2
  <2> QED
    BY <1>2, <2>2, <2>3
<1> QED
  BY <1>4, <1>5, <1>6 DEF OpInv

(* An operation with a new number. *)
LEMMA RequeueFacts ==
  ASSUME FsType, OpInv, NEW op, NEW k \in DOMAIN pending, op = pending[k], NEW new \in OpType,
         pending' = [i \in DOMAIN pending |-> IF pending[i] # op THEN pending[i] ELSE new]
  PROVE  /\ pending' \in Seq(OpType) /\ DOMAIN pending' = DOMAIN pending
         /\ pending'[k] = new
         /\ \A i \in DOMAIN pending \ {k} : pending'[i] = pending[i] /\ pending[i].packet # op.packet
<1>1. /\ DOMAIN pending = 1 .. Len(pending) /\ Len(pending) \in Nat
      /\ \A i \in DOMAIN pending : pending[i] \in OpType
  BY PendingFacts
<1>2. pending' \in [1 .. Len(pending) -> OpType]
  BY <1>1
<1>3. pending' \in Seq(OpType)
  BY <1>1, <1>2, SeqDef
<1>4. \A i \in DOMAIN pending \ {k} : pending[i].packet # op.packet
  BY DEF OpInv
<1>5. \A i \in DOMAIN pending \ {k} : pending'[i] = pending[i]
  BY <1>4
<1> QED
  BY <1>3, <1>4, <1>5

LEMMA OpInvRequeue ==
  ASSUME FsType, OpInv, NEW op, Waiting(op), NEW pkt \in PacketType, Puts(op.packet, pkt),
         pkt.state = "held", pkt.type = packet[op.packet].type, pkt.type # "DIE",
         NEW new \in OpType,
         pending' = [i \in DOMAIN pending |-> IF pending[i] # op THEN pending[i] ELSE new],
         new.packet = op.packet, new.request_seqno = seqno, new.expects = Waits(pkt.type),
         seqno' = seqno + 1, conn # "crashed"
  PROVE  OpInv'
<1>0. seqno \in Nat /\ op.packet \in Procs /\ op.packet \in Held
  BY DEF FsType, Waiting
<1>1. /\ \A q \in Procs : q # op.packet => packet'[q] = packet[q]
      /\ packet'[op.packet] = pkt
      /\ Held' = Held
  BY <1>0, HeldChanges
<1>2. PICK k \in DOMAIN pending : op = pending[k]
  BY DEF Waiting
<1>3. /\ DOMAIN pending' = DOMAIN pending
      /\ pending'[k] = new
      /\ \A i \in DOMAIN pending \ {k} : pending'[i] = pending[i] /\ pending[i].packet # op.packet
  BY <1>2, RequeueFacts
<1>4. \A i \in DOMAIN pending : pending[i].request_seqno \in Nat /\ pending[i].request_seqno < seqno
  BY PendingFacts DEF OpInv, OpType
<1>5. ASSUME NEW j \in DOMAIN pending'
      PROVE  /\ pending'[j].packet \in Held'
             /\ packet'[pending'[j].packet].type # "DIE"
             /\ pending'[j].expects = Waits(packet'[pending'[j].packet].type)
             /\ pending'[j].request_seqno < seqno'
  <2>1. CASE j = k
    BY <1>0, <1>1, <1>3, <2>1
  <2>2. CASE j # k
    <3>1. pending'[j] = pending[j] /\ pending[j].packet # op.packet /\ pending[j].packet \in Held
      BY <1>3, <2>2 DEF OpInv
    <3>2. packet'[pending[j].packet] = packet[pending[j].packet]
      BY <1>1, <3>1 DEF Held
    <3> QED
      BY <1>0, <1>1, <1>3, <1>4, <3>1, <3>2 DEF OpInv
  <2> QED
    BY <2>1, <2>2
<1>6. ASSUME NEW i \in DOMAIN pending', NEW j \in DOMAIN pending',
             \/ pending'[i].packet = pending'[j].packet
             \/ pending'[i].request_seqno = pending'[j].request_seqno
      PROVE  i = j
  <2>1. CASE i = k /\ j # k
    BY <1>0, <1>3, <1>4, <1>6, <2>1
  <2>2. CASE j = k /\ i # k
    BY <1>0, <1>3, <1>4, <1>6, <2>2
  <2>3. CASE i # k /\ j # k
    BY <1>3, <1>6, <2>3 DEF OpInv
  <2> QED
    BY <2>1, <2>2, <2>3
<1>7. ASSUME NEW q \in Held', packet'[q].type # "DIE"
      PROVE  \E j \in DOMAIN pending' : pending'[j].packet = q
  <2>1. CASE q = op.packet
    BY <1>3, <2>1
  <2>2. CASE q # op.packet
    <3>1. q \in Held /\ packet'[q] = packet[q]
      BY <1>1, <2>2 DEF Held
    <3>2. PICK i \in DOMAIN pending : pending[i].packet = q
      BY <1>7, <3>1 DEF OpInv
    <3>3. i # k
      BY <1>2, <2>2, <3>2
    <3> QED
      BY <1>3, <3>2, <3>3
  <2> QED
    BY <2>1, <2>2
<1> QED
  BY <1>5, <1>6, <1>7 DEF OpInv

-----------------------------------------------------------------------------
(* The invariant holds in every state.                                      *)

LEMMA TransmitFacts ==
  ASSUME requests \in Seq(RequestType), NEW msg \in RequestType, transmit_message(msg)
  PROVE  /\ requests' \in Seq(RequestType) /\ conn' \in {"up", "failed"}
         /\ conn' = "up" => conn = "up" /\ requests' = Append(requests, msg)
<1>1. Append(requests, msg) \in Seq(RequestType)
  BY AppendProperties
<1> QED
  BY <1>1 DEF transmit_message

Conns == {"up", "failed", "gone", "crashed"}

(* How many locks are free and how many packets are held. *)
LEMMA SetSizes ==
  /\ \A S, T, x : IsFiniteSet(S) /\ T = S \ {x} =>
       Cardinality(T) = IF x \in S THEN Cardinality(S) - 1 ELSE Cardinality(S)
  /\ \A S, T, x : IsFiniteSet(S) /\ T = S \cup {x} =>
       Cardinality(T) = IF x \in S THEN Cardinality(S) ELSE Cardinality(S) + 1
BY FS_RemoveElement, FS_AddElement

LEMMA SizesAfter ==
  /\ IsFiniteSet(Held') /\ IsFiniteSet(Free')
  /\ Cardinality(Held') \in Nat /\ Cardinality(Free') \in Nat
<1>1. Held' \in SUBSET Procs /\ Free' \in SUBSET LockIds
  BY DEF Held, Free
<1>2. IsFiniteSet(Held') /\ IsFiniteSet(Free')
  BY <1>1, FsAssumption, FS_Subset
<1> QED
  BY <1>2, FS_CardinalityType

LEMMA FreeSize ==
  ASSUME FsType, NEW p \in Procs, LockStep(p)
  PROVE  /\ Cardinality(Free') >= Cardinality(Free) - 1
         /\ Touched => Cardinality(Free') = Cardinality(Free)
<1>1. IsFiniteSet(Free) /\ Cardinality(Free) \in Nat
  BY FiniteSets
<1>2. Touched => Cardinality(Free') = Cardinality(Free)
  <2>1. Touched => Free' = Free
    BY FreeChanges
  <2> QED
    BY <2>1
<1>3. ASSUME NEW r \in LockType, Created(p, r)
      PROVE  Cardinality(Free') >= Cardinality(Free) - 1
  <2>1. PICK n : n = NewLockId
    OBVIOUS
  <2>2. Free' = Free \ {n}
    BY <1>3, <2>1, FreeChanges
  <2> QED
    BY <1>1, <2>2, SetSizes
<1>4. ASSUME NEW l \in LockIds, Freed(p, l)
      PROVE  Cardinality(Free') >= Cardinality(Free) - 1
  <2>1. Free' = Free \cup {l}
    BY <1>4, FreeChanges
  <2> QED
    BY <1>1, <2>1, SetSizes
<1> QED
  BY <1>1, <1>2, <1>3, <1>4 DEF LockStep

LEMMA HeldSize ==
  ASSUME FsType, NEW p \in Procs, NEW pkt \in PacketType, Puts(p, pkt)
  PROVE  /\ pkt.state = "held" /\ p \notin Held => Cardinality(Held') = Cardinality(Held) + 1
         /\ pkt.state = "held" /\ p \in Held => Cardinality(Held') = Cardinality(Held)
         /\ pkt.state # "held" /\ p \notin Held => Cardinality(Held') = Cardinality(Held)
         /\ pkt.state # "held" /\ p \in Held => Cardinality(Held') = Cardinality(Held) - 1
<1>1. IsFiniteSet(Held) /\ Cardinality(Held) \in Nat
  BY FiniteSets
<1>2. /\ pkt.state = "held" => Held' = Held \cup {p}
      /\ pkt.state # "held" => Held' = Held \ {p}
  BY HeldChanges
<1>3. CASE pkt.state = "held"
  <2>1. Held' = Held \cup {p}
    BY <1>2, <1>3
  <2>2. Cardinality(Held') = IF p \in Held THEN Cardinality(Held) ELSE Cardinality(Held) + 1
    BY <1>1, <2>1, SetSizes
  <2> QED
    BY <1>3, <2>2
<1>4. CASE pkt.state # "held"
  <2>1. Held' = Held \ {p}
    BY <1>2, <1>4
  <2>2. Cardinality(Held') = IF p \in Held THEN Cardinality(Held) - 1 ELSE Cardinality(Held)
    BY <1>1, <2>1, SetSizes
  <2> QED
    BY <1>4, <2>2
<1> QED
  BY <1>3, <1>4

(* What every step of the handler keeps. *)
FsKept ==
  /\ requests' \in Seq(RequestType) /\ packet' \in [Procs -> PacketType]
  /\ lock' \in [LockIds -> LockType \cup {NoLock}] /\ pending' \in Seq(OpType)
  /\ seqno' \in Nat /\ conn' \in Conns
  /\ LockInv' /\ RoomInv' /\ ArgInv' /\ OpInv'

LEMMA Unpacked ==
  ASSUME SessionInv
  PROVE  /\ FsType /\ LockInv /\ OpInv /\ ArgInv /\ RoomInv /\ requests \in Seq(RequestType)
         /\ seqno \in Nat /\ conn \in Conns
BY DEF SessionInv, TypeInv, ChannelType, FsType, Conns

LEMMA ReplyPreserves ==
  ASSUME SessionInv, NEW p \in Procs, Room(p), ReplyStep(p)
  PROVE  FsKept
<1>0. /\ FsType /\ LockInv /\ OpInv /\ ArgInv /\ requests \in Seq(RequestType) /\ seqno \in Nat
      /\ conn \in Conns /\ conn # "crashed"
  BY Unpacked DEF Room
<1>1. PICK pkt \in PacketType : Puts(p, pkt) /\ pkt.state = "replied"
  BY DEF ReplyStep
<1>2. p \notin Held
  BY DEF Room, Held
<1>3. packet' \in [Procs -> PacketType]
  BY <1>0, <1>1, HeldChanges
<1>4. pending' = pending /\ pending' \in Seq(OpType)
  BY <1>0 DEF ReplyStep, FsType
<1>5. LockStep(p)
  BY DEF ReplyStep, LockStep
<1>6. lock' \in [LockIds -> LockType \cup {NoLock}] /\ LockInv'
  BY <1>0, <1>5, LockStepType
<1>7. /\ requests' \in Seq(RequestType) /\ conn' \in Conns /\ conn' # "crashed"
      /\ seqno' \in Nat /\ seqno' >= seqno
  <2>1. CASE NothingSent
    BY <1>0, <2>1 DEF NothingSent
  <2>2. ASSUME NEW l \in LockIds, Freed(p, l),
               transmit_message(CloseRequest(seqno, lock[l].handle_id)), seqno' = seqno + 1
        PROVE  /\ requests' \in Seq(RequestType) /\ conn' \in Conns /\ conn' # "crashed"
               /\ seqno' \in Nat /\ seqno' >= seqno
    <3>1. lock[l].handle_id \in Int
      BY <1>0, <2>2, LockTypes DEF Freed, LockType
    <3>2. CloseRequest(seqno, lock[l].handle_id) \in RequestType
      BY <1>0, <3>1, RequestTypes
    <3>3. requests' \in Seq(RequestType) /\ conn' \in {"up", "failed"}
      BY <1>0, <2>2, <3>2, TransmitFacts
    <3> QED
      BY <1>0, <2>2, <3>3 DEF Conns
  <2> QED
    BY <2>1, <2>2 DEF ReplyStep
<1>8. ArgInv'
  BY <1>0, <1>1, <1>5, ArgInvKept
<1>9. OpInv'
  BY <1>0, <1>1, <1>2, <1>4, <1>7, OpInvReply
<1>10. RoomInv'
  <2>1. /\ Cardinality(Free) > Cardinality(Held)
        /\ Cardinality(Free) \in Nat /\ Cardinality(Held) \in Nat
    BY FiniteSets DEF Room
  <2>2. Cardinality(Free') >= Cardinality(Free) - 1
    BY <1>0, <1>5, FreeSize
  <2>3. Cardinality(Held') = Cardinality(Held)
    BY <1>0, <1>1, <1>2, HeldSize
  <2>4. Cardinality(Free') \in Nat
    BY SizesAfter
  <2>5. Cardinality(Free') >= Cardinality(Held')
    BY <2>1, <2>2, <2>3, <2>4
  <2> QED
    BY <2>5 DEF RoomInv
<1> QED
  BY <1>3, <1>4, <1>6, <1>7, <1>8, <1>9, <1>10 DEF FsKept

LEMMA HoldPreserves ==
  ASSUME SessionInv, NEW p \in Procs, Room(p), HoldStep(p)
  PROVE  FsKept
<1>0. /\ FsType /\ LockInv /\ OpInv /\ ArgInv /\ requests \in Seq(RequestType) /\ seqno \in Nat
      /\ conn \in Conns /\ conn # "crashed"
  BY Unpacked DEF Room
<1>1. PICK pkt \in PacketType : Puts(p, pkt) /\ pkt.state = "held" /\ pkt.type # "DIE"
  BY DEF HoldStep
<1>2. p \notin Held
  BY DEF Room, Held
<1>3. packet' \in [Procs -> PacketType] /\ packet'[p] = pkt
  BY <1>0, <1>1, HeldChanges
<1>4. PICK op \in OpType, msg \in RequestType :
        /\ pending' = <<op>> \o pending /\ op.packet = p /\ op.request_seqno = seqno
        /\ transmit_message(msg) /\ seqno' = seqno + 1
        /\ Asks(msg, op)'
  BY DEF HoldStep
<1>5. LockStep(p) /\ Touched /\ ArgOk(p)'
  BY DEF HoldStep, LockStep
<1>6. lock' \in [LockIds -> LockType \cup {NoLock}] /\ LockInv'
  BY <1>0, <1>5, LockStepType
<1>7. /\ requests' \in Seq(RequestType) /\ conn' \in Conns
      /\ seqno' \in Nat /\ pending' \in Seq(OpType)
  BY <1>0, <1>4, TransmitFacts, PrependFacts DEF Conns
<1>8. ArgInv'
  BY <1>0, <1>1, <1>5, ArgInvKept
<1>9. OpInv'
  <2>1. op.expects = Waits(pkt.type)
    BY <1>3, <1>4 DEF Asks
  <2> QED
    BY <1>0, <1>1, <1>2, <1>4, <2>1, OpInvHold
<1>10. RoomInv'
  <2>1. /\ Cardinality(Free) > Cardinality(Held)
        /\ Cardinality(Free) \in Nat /\ Cardinality(Held) \in Nat
    BY FiniteSets DEF Room
  <2>2. Cardinality(Free') = Cardinality(Free)
    BY <1>0, <1>5, FreeSize
  <2>3. Cardinality(Held') = Cardinality(Held) + 1
    BY <1>0, <1>1, <1>2, HeldSize
  <2>5. Cardinality(Free') >= Cardinality(Held')
    BY <2>1, <2>2, <2>3
  <2> QED
    BY <2>5 DEF RoomInv
<1> QED
  BY <1>3, <1>6, <1>7, <1>8, <1>9, <1>10 DEF FsKept

LEMMA LostPreserves ==
  ASSUME SessionInv, NEW p \in Procs, Room(p), LostStep(p)
  PROVE  FsKept
<1>0. /\ FsType /\ LockInv /\ OpInv /\ ArgInv /\ requests \in Seq(RequestType) /\ seqno \in Nat
      /\ conn \in Conns /\ conn # "crashed"
  BY Unpacked DEF Room
<1>1. PICK pkt \in PacketType :
        /\ Puts(p, pkt) /\ pkt.state = "held"
        /\ \/ pkt.type = "DIE" /\ conn' = conn
           \/ pkt.type = "LOCATE_OBJECT" /\ conn' = "crashed"
  BY DEF LostStep
<1>2. p \notin Held
  BY DEF Room, Held
<1>3. packet' \in [Procs -> PacketType]
  BY <1>0, <1>1, HeldChanges
<1>4. lock' = lock /\ pending' = pending /\ requests' = requests /\ seqno' = seqno /\ ArgOk(p)'
  BY DEF LostStep
<1>5. LockStep(p) /\ Touched
  BY <1>0, <1>4, TouchedRefl DEF LockStep
<1>6. lock' \in [LockIds -> LockType \cup {NoLock}] /\ LockInv'
  BY <1>0, <1>5, LockStepType
<1>7. /\ requests' \in Seq(RequestType) /\ conn' \in Conns
      /\ seqno' \in Nat /\ pending' \in Seq(OpType) /\ seqno' >= seqno
  BY <1>0, <1>1, <1>4 DEF Conns, FsType
<1>8. ArgInv'
  BY <1>0, <1>1, <1>4, <1>5, ArgInvKept
<1>9. OpInv'
  BY <1>0, <1>1, <1>2, <1>4, <1>7, OpInvReply
<1>10. RoomInv'
  <2>1. /\ Cardinality(Free) > Cardinality(Held)
        /\ Cardinality(Free) \in Nat /\ Cardinality(Held) \in Nat
    BY FiniteSets DEF Room
  <2>2. Cardinality(Free') = Cardinality(Free)
    BY <1>0, <1>5, FreeSize
  <2>3. Cardinality(Held') = Cardinality(Held) + 1
    BY <1>0, <1>1, <1>2, HeldSize
  <2>5. Cardinality(Free') >= Cardinality(Held')
    BY <2>1, <2>2, <2>3
  <2> QED
    BY <2>5 DEF RoomInv
<1> QED
  BY <1>3, <1>6, <1>7, <1>8, <1>9, <1>10 DEF FsKept

LEMMA CompletePreserves ==
  ASSUME SessionInv, Received \in AnswerType, NEW op, Waiting(op), conn = "up", CompleteStep(op)
  PROVE  FsKept
<1>0. /\ FsType /\ LockInv /\ OpInv /\ ArgInv /\ requests \in Seq(RequestType) /\ seqno \in Nat
      /\ conn \in Conns /\ conn # "crashed" /\ op.packet \in Procs /\ op.packet \in Held
  BY Unpacked DEF Waiting
<1>1. PICK pkt \in PacketType : Puts(op.packet, pkt) /\ pkt.state = "replied"
  BY DEF CompleteStep
<1>3. packet' \in [Procs -> PacketType]
  BY <1>0, <1>1, HeldChanges
<1>4. Unlinked(op) /\ pending' \in Seq(OpType)
  BY <1>0, UnlinkFacts DEF CompleteStep
<1>5. LockStep(op.packet)
  BY <1>0, TouchedRefl DEF CompleteStep, LockStep
<1>6. lock' \in [LockIds -> LockType \cup {NoLock}] /\ LockInv'
  BY <1>0, <1>5, LockStepType
<1>7. /\ requests' \in Seq(RequestType) /\ conn' \in Conns
      /\ seqno' \in Nat /\ seqno' >= seqno
  <2>1. CASE NothingSent
    BY <1>0, <2>1 DEF NothingSent
  <2>2. CASE /\ Received.kind = "OPEN"
             /\ transmit_message(CloseRequest(seqno, Received.handle)) /\ seqno' = seqno + 1
    <3>1. Received.handle \in Int
      BY <2>2, OpenAnswered DEF HandleIds
    <3>2. CloseRequest(seqno, Received.handle) \in RequestType
      BY <1>0, <3>1, RequestTypes
    <3>3. requests' \in Seq(RequestType) /\ conn' \in {"up", "failed"}
      BY <1>0, <2>2, <3>2, TransmitFacts
    <3> QED
      BY <1>0, <2>2, <3>3 DEF Conns
  <2>3. CASE UNCHANGED <<lock, requests, seqno>> /\ conn' = "failed"
    BY <1>0, <2>3 DEF Conns
  <2> QED
    BY <2>1, <2>2, <2>3 DEF CompleteStep
<1>8. ArgInv'
  BY <1>0, <1>1, <1>5, ArgInvKept
<1>9. OpInv'
  BY <1>0, <1>1, <1>4, <1>7, OpInvComplete
<1>10. RoomInv'
  <2>1. /\ Cardinality(Free) >= Cardinality(Held)
        /\ Cardinality(Free) \in Nat /\ Cardinality(Held) \in Nat
    BY FiniteSets, Unpacked DEF RoomInv
  <2>2. Cardinality(Free') >= Cardinality(Free) - 1
    BY <1>0, <1>5, FreeSize
  <2>3. Cardinality(Held') = Cardinality(Held) - 1
    BY <1>0, <1>1, HeldSize
  <2>4. Cardinality(Free') \in Nat
    BY SizesAfter
  <2>5. Cardinality(Free') >= Cardinality(Held')
    BY <2>1, <2>2, <2>3, <2>4
  <2> QED
    BY <2>5 DEF RoomInv
<1> QED
  BY <1>3, <1>4, <1>6, <1>7, <1>8, <1>9, <1>10 DEF FsKept

LEMMA RequeuePreserves ==
  ASSUME SessionInv, NEW op, Waiting(op), conn = "up", RequeueStep(op)
  PROVE  FsKept
<1>0. /\ FsType /\ LockInv /\ OpInv /\ ArgInv /\ requests \in Seq(RequestType) /\ seqno \in Nat
      /\ conn \in Conns /\ conn # "crashed" /\ op.packet \in Procs /\ op.packet \in Held
  BY Unpacked DEF Waiting
<1>1. PICK pkt \in PacketType :
        /\ Puts(op.packet, pkt) /\ pkt.state = "held"
        /\ pkt.type = packet[op.packet].type /\ pkt.type # "DIE"
  BY DEF RequeueStep
<1>3. packet' \in [Procs -> PacketType] /\ packet'[op.packet] = pkt
  BY <1>0, <1>1, HeldChanges
<1>4. PICK new \in OpType, msg \in RequestType :
       /\ pending' = [i \in DOMAIN pending |-> IF pending[i] # op THEN pending[i] ELSE new]
       /\ new.packet = op.packet /\ new.request_seqno = seqno
       /\ transmit_message(msg) /\ seqno' = seqno + 1
       /\ Asks(msg, new)'
  BY DEF RequeueStep
<1>5. LockStep(op.packet) /\ Touched /\ ArgOk(op.packet)'
  BY DEF RequeueStep, LockStep
<1>6. lock' \in [LockIds -> LockType \cup {NoLock}] /\ LockInv'
  BY <1>0, <1>5, LockStepType
<1>7. /\ requests' \in Seq(RequestType) /\ conn' \in Conns /\ seqno' \in Nat
  BY <1>0, <1>4, TransmitFacts DEF Conns
<1>8. ArgInv'
  BY <1>0, <1>1, <1>5, ArgInvKept
<1>9. OpInv'
  <2>1. new.expects = Waits(pkt.type)
    BY <1>3, <1>4 DEF Asks
  <2> QED
    BY <1>0, <1>1, <1>4, <2>1, OpInvRequeue
<1>10. RoomInv'
  <2>1. Cardinality(Free) >= Cardinality(Held)
    BY Unpacked DEF RoomInv
  <2>2. Cardinality(Free') = Cardinality(Free)
    BY <1>0, <1>5, FreeSize
  <2>3. Cardinality(Held') = Cardinality(Held)
    BY <1>0, <1>1, HeldSize
  <2> QED
    BY <2>1, <2>2, <2>3 DEF RoomInv
<1>11. pending' \in Seq(OpType)
  <2>1. PICK k \in DOMAIN pending : op = pending[k]
    BY DEF Waiting
  <2> QED
    BY <1>0, <1>4, <2>1, RequeueFacts
<1> QED
  BY <1>3, <1>6, <1>7, <1>8, <1>9, <1>10, <1>11 DEF FsKept

(* Nothing happens to the handler. *)
LEMMA IdlePreserves ==
  ASSUME SessionInv, UNCHANGED <<packet, lock, pending, seqno>>, requests' \in Seq(RequestType),
         conn' \in Conns, conn = "crashed" => conn' = "crashed"
  PROVE  FsKept
<1>0. /\ FsType /\ LockInv /\ OpInv /\ ArgInv /\ RoomInv
  BY Unpacked
<1>1. /\ packet' \in [Procs -> PacketType] /\ lock' \in [LockIds -> LockType \cup {NoLock}]
      /\ pending' \in Seq(OpType) /\ seqno' \in Nat
  BY <1>0 DEF FsType
<1>2. LockInv'
  BY <1>0 DEF LockInv, GoodLock
<1>3. Held' = Held /\ Free' = Free
  BY DEF Held, Free
<1>4. RoomInv'
  BY <1>0, <1>3 DEF RoomInv
<1>5. ArgInv'
  BY <1>0, <1>3 DEF ArgInv, ArgOk, OwnLock
<1>6. OpInv'
  BY <1>0, <1>3 DEF OpInv
<1> QED
  BY <1>1, <1>2, <1>4, <1>5, <1>6 DEF FsKept

LEMMA Repacked ==
  ASSUME FsKept, answers' \in Seq(AnswerType), ServerType', root_enum' \in BOOLEAN, sent' \in Nat
  PROVE  SessionInv'
BY DEF FsKept, SessionInv, TypeInv, ChannelType, FsType, Conns

LEMMA ServerUnchanged ==
  ASSUME ServerType, UNCHANGED serverVars
  PROVE  ServerType'
BY DEF ServerType, serverVars

LEMMA SessionInit ==
  ASSUME Init
  PROVE  SessionInv
<1>1. ChannelType
  BY DEF Init, ChannelType
<1>2. ServerType
  <2>1. <<>> \in Seq(Nat) /\ <<>> \in Paths /\ NoDir \in DirType
    BY DEF Paths, DirType
  <2>2. slot \in [HandleIds -> SlotType] /\ \A h \in HandleIds : slot[h].handle = 0
    BY <2>1 DEF Init, ServerInit, SlotType, Paths, DirType, FreeSlot
  <2> QED
    BY <2>1, <2>2 DEF Init, ServerInit, ServerType
<1>3. FsType
  <2>1. /\ <<>> \in Seq(STRING) /\ <<>> \in Seq(Seq(STRING) \X Nat) /\ <<>> \in Seq(OpType)
        /\ 0 \in Int \cup LockIds /\ FALSE \in BOOLEAN /\ "0" \in DosErrors
    BY DEF DosErrors
  <2>2. Idle \in PacketType
    BY <2>1 DEF Idle, PacketType, Types
  <2> QED
    BY <2>1, <2>2 DEF Init, FsInit, FsType
<1>4. Held = {}
  BY DEF Init, FsInit, Held, Idle
<1>5. pending = <<>> /\ DOMAIN pending = {}
  BY DEF Init, FsInit
<1>6. LockInv
  BY DEF Init, FsInit, LockInv
<1>7. RoomInv
  <2>1. Cardinality(Held) = 0 /\ Cardinality(Free) \in Nat
    BY <1>4, FS_EmptySet, FiniteSets
  <2> QED
    BY <2>1 DEF RoomInv
<1>8. ArgInv /\ OpInv
  BY <1>4, <1>5 DEF ArgInv, OpInv
<1> QED
  BY <1>1, <1>2, <1>3, <1>6, <1>7, <1>8 DEF SessionInv, TypeInv

LEMMA SessionStep ==
  ASSUME SessionInv, [Next]_vars
  PROVE  SessionInv'
<1>0. /\ ServerType /\ answers \in Seq(AnswerType) /\ root_enum \in BOOLEAN /\ sent \in Nat
      /\ requests \in Seq(RequestType) /\ conn \in Conns
  BY DEF SessionInv, TypeInv, ChannelType, FsType, Conns
<1>1. ASSUME NEW p \in Procs, process_fs_packet(p), UNCHANGED <<serverVars, launched>>
      PROVE  SessionInv'
  <2>1. Room(p) /\ PacketStep(p) /\ answers' = answers /\ sent' = sent + 1
    BY <1>1, PacketSteps DEF SessionInv
  <2>2. FsKept
    BY <2>1, ReplyPreserves, HoldPreserves, LostPreserves DEF PacketStep
  <2>3. root_enum' \in BOOLEAN
    BY <1>0, <1>1, RootEnumType DEF Next
  <2>4. ServerType'
    BY <1>0, <1>1, ServerUnchanged
  <2> QED
    BY <1>0, <2>1, <2>2, <2>3, <2>4, Repacked
<1>2. CASE NetworkStep
  <2>0. rl_amigafs_process_network_message /\ UNCHANGED serverVars
    BY <1>2 DEF NetworkStep
  <2>1. /\ conn = "up" /\ answers # <<>> /\ answers' = Tail(answers)
        /\ Received \in AnswerType /\ sent' = sent
        /\ \/ /\ ~Found /\ conn' = "failed"
              /\ UNCHANGED <<requests, packet, lock, pending, seqno>>
           \/ /\ Waiting(find_pending_op) /\ Found
              /\ (CompleteStep(find_pending_op) \/ RequeueStep(find_pending_op))
    BY <2>0, NetworkSteps
  <2>2. FsKept
    <3>1. CASE conn' = "failed" /\ UNCHANGED <<requests, packet, lock, pending, seqno>>
      BY <1>0, <2>1, <3>1, IdlePreserves DEF Conns
    <3>2. CASE /\ Waiting(find_pending_op)
               /\ (CompleteStep(find_pending_op) \/ RequeueStep(find_pending_op))
      BY <2>1, <3>2, CompletePreserves, RequeuePreserves
    <3> QED
      BY <2>1, <3>1, <3>2
  <2>3. root_enum' \in BOOLEAN
    BY <1>0, <1>2, RootEnumType DEF Next
  <2>4. ServerType'
    BY <1>0, <2>0, ServerUnchanged
  <2>5. answers' \in Seq(AnswerType)
    BY <1>0, <2>1, HeadTailProperties
  <2> QED
    BY <1>0, <2>1, <2>2, <2>3, <2>4, <2>5, Repacked
<1>3. CASE ServerStep
  <2>0. rl_file_serve /\ UNCHANGED fsVars
    BY <1>3 DEF ServerStep
  <2>1. /\ Request \in RequestType /\ requests # <<>> /\ requests' = Tail(requests)
        /\ Serves(Request)
    BY <2>0, ServerStepServes DEF SessionInv
  <2>2. UNCHANGED <<packet, lock, root_enum, pending, seqno, conn, sent>>
    BY <2>0 DEF fsVars
  <2>3. requests' \in Seq(RequestType)
    BY <1>0, <2>1, HeadTailProperties
  <2>4. FsKept
    BY <1>0, <2>2, <2>3, IdlePreserves
  <2>5. ServerType'
    BY <2>1 DEF Serves
  <2>6. answers' \in Seq(AnswerType)
    BY <1>0, <2>1, AppendProperties, SMTT(30) DEF Serves
  <2> QED
    BY <1>0, <2>2, <2>4, <2>5, <2>6, Repacked
<1>4. CASE spawn_failure
  <2>1. UNCHANGED <<packet, lock, root_enum, pending, seqno, conn, sent, answers, serverVars>>
    BY <1>4 DEF spawn_failure, fsVars
  <2>2. ErrorAnswer(0, "SPAWN_FAILURE") \in RequestType
    BY DEF ErrorAnswer, RequestType, NetErrors
  <2>3. requests' \in Seq(RequestType)
    BY <1>0, <1>4, <2>2, AppendProperties DEF spawn_failure
  <2>4. FsKept
    BY <1>0, <2>1, <2>3, IdlePreserves
  <2> QED
    BY <1>0, <2>1, <2>4, ServerUnchanged, Repacked
<1>5. CASE connection_lost \/ (rl_amigafs_destroy /\ UNCHANGED <<serverVars, launched>>)
  <2>1. /\ UNCHANGED <<packet, lock, root_enum, pending, seqno, sent, requests, answers, serverVars>>
        /\ conn # "crashed" /\ conn' \in Conns
    BY <1>5 DEF connection_lost, rl_amigafs_destroy, channels, Conns
  <2>2. FsKept
    BY <1>0, <2>1, IdlePreserves
  <2> QED
    BY <1>0, <2>1, <2>2, ServerUnchanged, Repacked
<1>6. CASE UNCHANGED vars
  <2>1. UNCHANGED <<packet, lock, root_enum, pending, seqno, conn, sent, requests, answers, serverVars>>
    BY <1>6 DEF vars, fsVars, channels
  <2>2. FsKept
    BY <1>0, <2>1, IdlePreserves
  <2> QED
    BY <1>0, <2>1, <2>2, ServerUnchanged, Repacked
<1> QED
  BY <1>1, <1>2, <1>3, <1>4, <1>5, <1>6 DEF Next

(* The inductive invariant. *)
THEOREM SessionInvariant == Spec => []SessionInv
BY SessionInit, SessionStep, PTL DEF Spec

(* TypeOK: packets, locks, pending operations and slots keep their types,   *)
(* positions stay non-negative, whatever amigafs.c and file_server.c do.    *)
THEOREM TypeCorrect == Spec => []TypeOK
<1>1. SessionInv => TypeOK
  <2> SUFFICES ASSUME SessionInv PROVE TypeOK
    OBVIOUS
  <2>1. FsType /\ ServerType /\ OpInv
    BY DEF SessionInv, TypeInv
  <2>2. ASSUME NEW i \in DOMAIN pending
        PROVE  /\ pending[i].request_seqno \in 0 .. seqno - 1
               /\ pending[i].expects \in {"OPEN", "READ", "WRITE", "FIND"}
    <3>1. pending[i] \in OpType /\ seqno \in Nat
      BY <2>1, PendingFacts DEF FsType
    <3>2. pending[i].request_seqno \in Nat /\ pending[i].request_seqno < seqno
      BY <2>1, <3>1 DEF OpType, OpInv
    <3>3. pending[i].expects \in {"OPEN", "READ", "WRITE", "FIND"}
      BY <3>1 DEF OpType
    <3> QED
      BY <3>1, <3>2, <3>3
  <2> QED
    BY <2>1, <2>2 DEF TypeOK, FsType, ServerType
<1> QED
  BY <1>1, SessionInvariant, PTL

(* OnePendingPerPacket: every packet that the handler keeps has exactly one *)
(* operation in the list, so it is replied to at most once and not lost; no *)
(* other packet has one.                                                    *)
THEOREM OneReplyPerPacket == Spec => []OnePendingPerPacket
<1>1. SessionInv => OnePendingPerPacket
  <2> SUFFICES ASSUME SessionInv, conn # "crashed", NEW p \in Procs
               PROVE  Cardinality({i \in DOMAIN pending : pending[i].packet = p})
                        = IF packet[p].state = "held" /\ packet[p].type # "DIE" THEN 1 ELSE 0
    BY DEF OnePendingPerPacket
  <2> DEFINE T == {i \in DOMAIN pending : pending[i].packet = p}
  <2>1. OpInv
    BY DEF SessionInv
  <2>2. CASE packet[p].state = "held" /\ packet[p].type # "DIE"
    <3>1. PICK i \in DOMAIN pending : pending[i].packet = p
      BY <2>1, <2>2 DEF OpInv, Held
    <3>2. T = {i}
      BY <2>1, <3>1 DEF OpInv
    <3>3. Cardinality(T) = 1
      BY <3>2, FS_Singleton
    <3> QED
      BY <2>2, <3>3
  <2>3. CASE ~(packet[p].state = "held" /\ packet[p].type # "DIE")
    <3>1. T = {}
      BY <2>1, <2>3 DEF OpInv, Held
    <3>2. Cardinality(T) = 0
      BY <3>1, FS_EmptySet
    <3> QED
      BY <2>3, <3>2
  <2> QED
    BY <2>2, <2>3
<1> QED
  BY <1>1, SessionInvariant, PTL

-----------------------------------------------------------------------------
(* Requests, answers and pending operations.                                *)

(* The messages that matter: those that ask, and the answers, without the   *)
(* ones whose number is in Z.                                               *)
Asking(R, Z) == {i \in DOMAIN R : R[i].kind # "CLOSE" /\ R[i].seq \notin Z}
Answering(A, Z) == {j \in DOMAIN A : A[j].seq \notin Z}

(* R and A are the two directions of the connection, P the numbers and kinds *)
(* of answer that operations wait for: each has one message under way.      *)
SeqOk(R, A, P, Z) ==
  /\ \A i, j \in Asking(R, Z) : R[i].seq = R[j].seq => i = j
  /\ \A i, j \in Answering(A, Z) : A[i].seq = A[j].seq => i = j
  /\ \A i \in Asking(R, Z), j \in Answering(A, Z) : R[i].seq # A[j].seq
  /\ \A i \in Asking(R, Z) : <<R[i].seq, R[i].kind>> \in P
  /\ \A j \in Answering(A, Z) : \E x \in P : x[1] = A[j].seq /\ A[j].kind \in {"ERROR", x[2]}
  /\ \A x \in P : \/ x[1] \in Z
                  \/ \E i \in Asking(R, Z) : R[i].seq = x[1]
                  \/ \E j \in Answering(A, Z) : A[j].seq = x[1]

Expected == {<<pending[k].request_seqno, pending[k].expects>> : k \in DOMAIN pending}

SeqInv(Z) == conn = "up" => SeqOk(requests, answers, Expected, Z)

LEMMA AppendFacts ==
  \A S : \A s \in Seq(S), x \in S :
    /\ DOMAIN s = 1 .. Len(s) /\ Len(s) \in Nat
    /\ DOMAIN Append(s, x) = 1 .. Len(s) + 1
    /\ Append(s, x)[Len(s) + 1] = x
    /\ \A i \in DOMAIN s : i # Len(s) + 1 /\ Append(s, x)[i] = s[i]
BY AppendProperties, LenProperties

LEMMA TailFacts ==
  \A S : \A s \in Seq(S) : s # <<>> =>
    /\ DOMAIN s = 1 .. Len(s) /\ Len(s) \in Nat /\ Len(s) # 0 /\ 1 \in DOMAIN s
    /\ Head(s) = s[1] /\ DOMAIN Tail(s) = 1 .. Len(s) - 1
    /\ \A i \in DOMAIN Tail(s) : i \in Nat /\ i + 1 \in DOMAIN s /\ i + 1 # 1 /\ Tail(s)[i] = s[i + 1]
    /\ \A i \in DOMAIN s : i # 1 => i - 1 \in DOMAIN Tail(s) /\ Tail(s)[i - 1] = s[i]
<1> SUFFICES ASSUME NEW S, NEW s \in Seq(S), s # <<>>
             PROVE  /\ DOMAIN s = 1 .. Len(s) /\ Len(s) \in Nat /\ Len(s) # 0 /\ 1 \in DOMAIN s
                    /\ Head(s) = s[1] /\ DOMAIN Tail(s) = 1 .. Len(s) - 1
                    /\ \A i \in DOMAIN Tail(s) : i \in Nat /\ i + 1 \in DOMAIN s /\ i + 1 # 1
                                                 /\ Tail(s)[i] = s[i + 1]
                    /\ \A i \in DOMAIN s : i # 1 => i - 1 \in DOMAIN Tail(s)
                                                 /\ Tail(s)[i - 1] = s[i]
  OBVIOUS
<1>1. DOMAIN s = 1 .. Len(s) /\ Len(s) \in Nat /\ Len(s) # 0
  BY LenProperties, EmptySeq
<1>2. /\ Tail(s) \in Seq(S) /\ Len(Tail(s)) = Len(s) - 1 /\ Head(s) = s[1]
      /\ \A i \in 1 .. Len(s) - 1 : Tail(s)[i] = s[i + 1]
  BY HeadTailProperties
<1>3. DOMAIN Tail(s) = 1 .. Len(s) - 1
  BY <1>2, LenProperties
<1>4. \A i \in DOMAIN s : i # 1 => i - 1 \in 1 .. Len(s) - 1 /\ i - 1 + 1 = i
  BY <1>1
<1> QED
  BY <1>1, <1>2, <1>3, <1>4

(* A request with a new number. *)
LEMMA AskKeeps ==
  ASSUME NEW Z, NEW R \in Seq(RequestType), NEW A \in Seq(AnswerType), NEW P, SeqOk(R, A, P, Z),
         NEW m \in RequestType, m.kind # "CLOSE", m.seq \notin Z, \A x \in P : x[1] # m.seq
  PROVE  SeqOk(Append(R, m), A, P \cup {<<m.seq, m.kind>>}, Z)
<1> DEFINE R2 == Append(R, m)
           n == Len(R) + 1
           new == <<m.seq, m.kind>>
<1>1. /\ DOMAIN R = 1 .. Len(R) /\ Len(R) \in Nat
      /\ DOMAIN R2 = 1 .. Len(R) + 1 /\ R2[n] = m
      /\ \A i \in DOMAIN R : i # n /\ R2[i] = R[i]
  BY AppendFacts
<1> HIDE DEF R2
<1>2. n \in Asking(R2, Z) /\ \A i \in Asking(R2, Z) : i # n => i \in Asking(R, Z) /\ R2[i] = R[i]
  BY <1>1 DEF Asking
<1>3. \A i \in Asking(R, Z) : i \in Asking(R2, Z) /\ R2[i] = R[i]
  BY <1>1 DEF Asking
<1>4. \A i \in Asking(R, Z) : R[i].seq # m.seq
  <2>1. ASSUME NEW i \in Asking(R, Z) PROVE R[i].seq # m.seq
    <3>1. PICK x \in P : x = <<R[i].seq, R[i].kind>>
      BY DEF SeqOk
    <3> QED
      BY <3>1
  <2> QED
    BY <2>1
<1>5. \A j \in Answering(A, Z) : A[j].seq # m.seq
  BY DEF SeqOk
<1> HIDE DEF n
<1>6. \A i, j \in Asking(R2, Z) : R2[i].seq = R2[j].seq => i = j
  BY <1>1, <1>2, <1>4 DEF SeqOk
<1>7. \A i \in Asking(R2, Z), j \in Answering(A, Z) : R2[i].seq # A[j].seq
  BY <1>1, <1>2, <1>5 DEF SeqOk
<1>8. \A i \in Asking(R2, Z) : <<R2[i].seq, R2[i].kind>> \in P \cup {new}
  BY <1>1, <1>2 DEF SeqOk
<1>9. \A x \in P \cup {new} : \/ x[1] \in Z
                              \/ \E i \in Asking(R2, Z) : R2[i].seq = x[1]
                              \/ \E j \in Answering(A, Z) : A[j].seq = x[1]
  <2>1. new[1] = m.seq
    OBVIOUS
  <2> HIDE DEF new
  <2> QED
    BY <1>1, <1>2, <1>3, <2>1, SMTT(30) DEF SeqOk
<1>10. SeqOk(R2, A, P \cup {new}, Z)
  <2> HIDE DEF new
  <2> QED
    BY <1>6, <1>7, <1>8, <1>9 DEF SeqOk
<1> QED
  BY <1>10 DEF R2

(* A close request expects no answer; a number in Z does not matter. *)
LEMMA CloseKeeps ==
  ASSUME NEW Z, NEW R \in Seq(RequestType), NEW A, NEW P, SeqOk(R, A, P, Z), NEW m \in RequestType,
         m.kind = "CLOSE" \/ m.seq \in Z
  PROVE  SeqOk(Append(R, m), A, P, Z)
<1> DEFINE R2 == Append(R, m)
<1>1. /\ DOMAIN R = 1 .. Len(R) /\ Len(R) \in Nat
      /\ DOMAIN R2 = 1 .. Len(R) + 1 /\ R2[Len(R) + 1] = m
      /\ \A i \in DOMAIN R : R2[i] = R[i]
  BY AppendFacts
<1> HIDE DEF R2
<1>2. Asking(R2, Z) = Asking(R, Z) /\ \A i \in Asking(R, Z) : R2[i] = R[i]
  BY <1>1 DEF Asking
<1>3. SeqOk(R2, A, P, Z)
  BY <1>2 DEF SeqOk
<1> QED
  BY <1>3 DEF R2

LEMMA AsideKeeps ==
  ASSUME NEW Z, NEW R, NEW A \in Seq(AnswerType), NEW P, SeqOk(R, A, P, Z)
  PROVE  /\ \A a \in AnswerType : a.seq \in Z => SeqOk(R, Append(A, a), P, Z)
         /\ \A seq \in Z : \A kind : SeqOk(R, A, P \cup {<<seq, kind>>}, Z)
<1>1. ASSUME NEW a \in AnswerType, a.seq \in Z PROVE SeqOk(R, Append(A, a), P, Z)
  <2> DEFINE A2 == Append(A, a)
  <2>1. /\ DOMAIN A = 1 .. Len(A) /\ Len(A) \in Nat
        /\ DOMAIN A2 = 1 .. Len(A) + 1 /\ A2[Len(A) + 1] = a
        /\ \A i \in DOMAIN A : A2[i] = A[i]
    BY AppendFacts
  <2> HIDE DEF A2
  <2>2. Answering(A2, Z) = Answering(A, Z) /\ \A j \in Answering(A, Z) : A2[j] = A[j]
    BY <1>1, <2>1 DEF Answering
  <2>3. SeqOk(R, A2, P, Z)
    BY <2>2 DEF SeqOk
  <2> QED
    BY <2>3 DEF A2
<1>2. ASSUME NEW seq \in Z, NEW kind PROVE SeqOk(R, A, P \cup {<<seq, kind>>}, Z)
  <2>0. <<seq, kind>>[1] = seq
    OBVIOUS
  <2>1. PICK x : x = <<seq, kind>> /\ x[1] \in Z
    BY <2>0
  <2>2. SeqOk(R, A, P \cup {x}, Z)
    BY <2>1 DEF SeqOk
  <2> QED
    BY <2>1, <2>2
<1> QED
  BY <1>1, <1>2

(* The server takes a request off the front. *)
LEMMA TakeFacts ==
  ASSUME NEW Z, NEW R \in Seq(RequestType), R # <<>>
  PROVE  /\ 1 \in DOMAIN R /\ Head(R) = R[1]
         /\ \A i \in Asking(Tail(R), Z) : i \in Nat /\ i + 1 \in Asking(R, Z) /\ i + 1 # 1 /\ Tail(R)[i] = R[i + 1]
         /\ \A i \in Asking(R, Z) : i # 1 => i - 1 \in Asking(Tail(R), Z) /\ Tail(R)[i - 1] = R[i]
BY TailFacts DEF Asking

LEMMA ServeKeeps ==
  ASSUME NEW Z, NEW R \in Seq(RequestType), NEW A \in Seq(AnswerType), NEW P, SeqOk(R, A, P, Z),
         R # <<>>, NEW m, m = Head(R), m.kind # "CLOSE", m.seq \notin Z, NEW a \in AnswerType,
         Answers(m, a)
  PROVE  SeqOk(Tail(R), Append(A, a), P, Z)
<1> DEFINE R2 == Tail(R)
           A2 == Append(A, a)
           n == Len(A) + 1
<1>1. /\ 1 \in Asking(R, Z) /\ m = R[1]
      /\ \A i \in Asking(R2, Z) : i \in Nat /\ i + 1 \in Asking(R, Z) /\ i + 1 # 1 /\ R2[i] = R[i + 1]
      /\ \A i \in Asking(R, Z) : i # 1 => i - 1 \in Asking(R2, Z) /\ R2[i - 1] = R[i]
  BY TakeFacts DEF Asking
<1>2. /\ DOMAIN A = 1 .. Len(A) /\ Len(A) \in Nat /\ DOMAIN A2 = 1 .. n /\ A2[n] = a
      /\ \A i \in DOMAIN A : i # n /\ A2[i] = A[i]
  BY AppendFacts
<1>4. a.seq = m.seq /\ a.kind \in {"ERROR", m.kind}
  BY DEF Answers
<1> HIDE DEF R2, A2
<1>3. /\ n \in Answering(A2, Z)
      /\ \A j \in Answering(A2, Z) : j # n => j \in Answering(A, Z) /\ A2[j] = A[j]
      /\ \A j \in Answering(A, Z) : j \in Answering(A2, Z) /\ j # n /\ A2[j] = A[j]
  BY <1>2, <1>4 DEF Answering
<1> HIDE DEF n
<1>5. \A i, j \in Asking(R2, Z) : R2[i].seq = R2[j].seq => i = j
  <2> SUFFICES ASSUME NEW i \in Asking(R2, Z), NEW j \in Asking(R2, Z), R2[i].seq = R2[j].seq
               PROVE  i = j
    OBVIOUS
  <2>1. i + 1 = j + 1
    <3>1. i + 1 \in Asking(R, Z) /\ j + 1 \in Asking(R, Z) /\ R[i + 1].seq = R[j + 1].seq
      BY <1>1
    <3> QED
      BY <3>1 DEF SeqOk
  <2> QED
    BY <1>1, <2>1
<1>6. \A i, j \in Answering(A2, Z) : A2[i].seq = A2[j].seq => i = j
  BY <1>1, <1>2, <1>3, <1>4 DEF SeqOk
<1>7. \A i \in Asking(R2, Z), j \in Answering(A2, Z) : R2[i].seq # A2[j].seq
  BY <1>1, <1>2, <1>3, <1>4 DEF SeqOk
<1>8. \A i \in Asking(R2, Z) : <<R2[i].seq, R2[i].kind>> \in P
  <2>1. ASSUME NEW i \in Asking(R2, Z) PROVE <<R2[i].seq, R2[i].kind>> \in P
    <3>1. R2[i] = R[i + 1] /\ i + 1 \in Asking(R, Z)
      BY <1>1
    <3>2. <<R[i + 1].seq, R[i + 1].kind>> \in P
      BY <3>1 DEF SeqOk
    <3> QED
      BY <3>1, <3>2
  <2> QED
    BY <2>1
<1>9. \A j \in Answering(A2, Z) : \E x \in P : x[1] = A2[j].seq /\ A2[j].kind \in {"ERROR", x[2]}
  <2> SUFFICES ASSUME NEW j \in Answering(A2, Z)
               PROVE  \E x \in P : x[1] = A2[j].seq /\ A2[j].kind \in {"ERROR", x[2]}
    OBVIOUS
  <2>1. CASE j = n
    <3>1. PICK x \in P : x = <<m.seq, m.kind>>
      BY <1>1 DEF SeqOk
    <3> QED
      BY <1>2, <1>4, <2>1, <3>1
  <2>2. CASE j # n
    BY <1>3, <2>2 DEF SeqOk
  <2> QED
    BY <2>1, <2>2
<1>10. \A x \in P : \/ x[1] \in Z
                    \/ \E i \in Asking(R2, Z) : R2[i].seq = x[1]
                    \/ \E j \in Answering(A2, Z) : A2[j].seq = x[1]
  <2> SUFFICES ASSUME NEW x \in P, x[1] \notin Z
               PROVE  \/ \E i \in Asking(R2, Z) : R2[i].seq = x[1]
                      \/ \E j \in Answering(A2, Z) : A2[j].seq = x[1]
    OBVIOUS
  <2>1. ASSUME NEW i \in Asking(R, Z), R[i].seq = x[1], i = 1
        PROVE  \E j \in Answering(A2, Z) : A2[j].seq = x[1]
    BY <1>1, <1>2, <1>3, <1>4, <2>1
  <2>2. ASSUME NEW i \in Asking(R, Z), R[i].seq = x[1], i # 1
        PROVE  \E k \in Asking(R2, Z) : R2[k].seq = x[1]
    BY <1>1, <2>2
  <2>3. ASSUME NEW j \in Answering(A, Z), A[j].seq = x[1]
        PROVE  \E k \in Answering(A2, Z) : A2[k].seq = x[1]
    BY <1>2, <1>3, <2>3
  <2> QED
    BY <2>1, <2>2, <2>3 DEF SeqOk
<1>11. SeqOk(R2, A2, P, Z)
  BY <1>5, <1>6, <1>7, <1>8, <1>9, <1>10 DEF SeqOk
<1> QED
  BY <1>11 DEF R2, A2

LEMMA ServeCloseKeeps ==
  ASSUME NEW Z, NEW R \in Seq(RequestType), NEW A, NEW P, SeqOk(R, A, P, Z), R # <<>>,
         Head(R).kind = "CLOSE" \/ Head(R).seq \in Z
  PROVE  SeqOk(Tail(R), A, P, Z)
<1> DEFINE R2 == Tail(R)
<1>1. /\ \A i \in Asking(R2, Z) : i \in Nat /\ i + 1 \in Asking(R, Z) /\ R2[i] = R[i + 1]
      /\ \A i \in Asking(R, Z) : i # 1 => i - 1 \in Asking(R2, Z) /\ R2[i - 1] = R[i]
      /\ 1 \notin Asking(R, Z)
  BY TakeFacts DEF Asking
<1> HIDE DEF R2
<1>2. \A i, j \in Asking(R2, Z) : R2[i].seq = R2[j].seq => i = j
  <2> SUFFICES ASSUME NEW i \in Asking(R2, Z), NEW j \in Asking(R2, Z), R2[i].seq = R2[j].seq
               PROVE  i = j
    OBVIOUS
  <2>1. i + 1 = j + 1
    BY <1>1, SMTT(30) DEF SeqOk
  <2> QED
    BY <1>1, <2>1
<1>3. SeqOk(R2, A, P, Z)
  <2>1. \A i \in Asking(R2, Z), j \in Answering(A, Z) : R2[i].seq # A[j].seq
    BY <1>1, SMTT(30) DEF SeqOk
  <2>2. \A i \in Asking(R2, Z) : <<R2[i].seq, R2[i].kind>> \in P
    <3>1. ASSUME NEW i \in Asking(R2, Z) PROVE <<R2[i].seq, R2[i].kind>> \in P
      <4>1. R2[i] = R[i + 1] /\ i + 1 \in Asking(R, Z)
        BY <1>1
      <4>2. <<R[i + 1].seq, R[i + 1].kind>> \in P
        BY <4>1 DEF SeqOk
      <4> QED
        BY <4>1, <4>2
    <3> QED
      BY <3>1
  <2>3. \A x \in P : \/ x[1] \in Z
                     \/ \E i \in Asking(R2, Z) : R2[i].seq = x[1]
                     \/ \E j \in Answering(A, Z) : A[j].seq = x[1]
    <3> SUFFICES ASSUME NEW x \in P, x[1] \notin Z, \A j \in Answering(A, Z) : A[j].seq # x[1]
                 PROVE  \E i \in Asking(R2, Z) : R2[i].seq = x[1]
      OBVIOUS
    <3>1. PICK i \in Asking(R, Z) : R[i].seq = x[1]
      BY DEF SeqOk
    <3> QED
      BY <1>1, <3>1
  <2> QED
    BY <1>2, <2>1, <2>2, <2>3 DEF SeqOk
<1> QED
  BY <1>3 DEF R2

(* The operation that waits for the first answer is done. *)
LEMMA ReceiveKeeps ==
  ASSUME NEW Z, NEW R, NEW A \in Seq(AnswerType), NEW P, SeqOk(R, A, P, Z), A # <<>>
  PROVE  SeqOk(R, Tail(A), {x \in P : x[1] # Head(A).seq}, Z)
<1> DEFINE A2 == Tail(A)
           Q == {x \in P : x[1] # Head(A).seq}
<1>1. /\ Head(A) = A[1] /\ (1 \in Answering(A, Z) \/ A[1].seq \in Z)
      /\ \A i \in Answering(A2, Z) :
           i \in Nat /\ i + 1 \in Answering(A, Z) /\ i + 1 # 1 /\ A2[i] = A[i + 1] /\ A2[i].seq \notin Z
      /\ \A i \in Answering(A, Z) : i # 1 => i - 1 \in Answering(A2, Z) /\ A2[i - 1] = A[i]
  BY TailFacts DEF Answering
<1>2. \A x : x \in Q <=> x \in P /\ x[1] # A[1].seq
  BY <1>1
<1> HIDE DEF A2, Q
<1>3. \A i, j \in Answering(A2, Z) : A2[i].seq = A2[j].seq => i = j
  <2> SUFFICES ASSUME NEW i \in Answering(A2, Z), NEW j \in Answering(A2, Z), A2[i].seq = A2[j].seq
               PROVE  i = j
    OBVIOUS
  <2>1. i + 1 = j + 1
    <3>1. i + 1 \in Answering(A, Z) /\ j + 1 \in Answering(A, Z) /\ A[i + 1].seq = A[j + 1].seq
      BY <1>1
    <3> QED
      BY <3>1 DEF SeqOk
  <2> QED
    BY <1>1, <2>1
<1>4. \A i \in Asking(R, Z), j \in Answering(A2, Z) : R[i].seq # A2[j].seq
  BY <1>1 DEF SeqOk
<1>5. \A i \in Asking(R, Z) : <<R[i].seq, R[i].kind>> \in Q
  <2> SUFFICES ASSUME NEW i \in Asking(R, Z) PROVE <<R[i].seq, R[i].kind>> \in Q
    OBVIOUS
  <2>1. <<R[i].seq, R[i].kind>> \in P /\ R[i].seq # A[1].seq
    <3>1. R[i].seq \notin Z
      BY DEF Asking
    <3> QED
      BY <1>1, <3>1 DEF SeqOk
  <2> QED
    BY <1>2, <2>1
<1>6. \A j \in Answering(A2, Z) : \E x \in Q : x[1] = A2[j].seq /\ A2[j].kind \in {"ERROR", x[2]}
  <2> SUFFICES ASSUME NEW j \in Answering(A2, Z)
               PROVE  \E x \in Q : x[1] = A2[j].seq /\ A2[j].kind \in {"ERROR", x[2]}
    OBVIOUS
  <2>1. PICK x \in P : x[1] = A2[j].seq /\ A2[j].kind \in {"ERROR", x[2]}
    BY <1>1 DEF SeqOk
  <2>2. x[1] # A[1].seq
    BY <1>1, <2>1 DEF SeqOk
  <2> QED
    BY <1>2, <2>1, <2>2
<1>7. \A x \in Q : \/ x[1] \in Z
                   \/ \E i \in Asking(R, Z) : R[i].seq = x[1]
                   \/ \E j \in Answering(A2, Z) : A2[j].seq = x[1]
  <2> SUFFICES ASSUME NEW x \in Q, x[1] \notin Z, \A i \in Asking(R, Z) : R[i].seq # x[1]
               PROVE  \E j \in Answering(A2, Z) : A2[j].seq = x[1]
    OBVIOUS
  <2>1. PICK j \in Answering(A, Z) : A[j].seq = x[1]
    BY <1>2 DEF SeqOk
  <2> QED
    BY <1>1, <1>2, <2>1
<1>8. SeqOk(R, A2, Q, Z)
  BY <1>3, <1>4, <1>5, <1>6, <1>7 DEF SeqOk
<1> QED
  BY <1>8 DEF A2, Q

(* A request with a new number, and the server's answer, also for the       *)
(* numbers that do not matter.                                              *)
LEMMA AskMay ==
  ASSUME NEW Z, NEW R \in Seq(RequestType), NEW A \in Seq(AnswerType), NEW P, SeqOk(R, A, P, Z),
         NEW m \in RequestType, m.kind # "CLOSE", \A x \in P : x[1] # m.seq
  PROVE  SeqOk(Append(R, m), A, P \cup {<<m.seq, m.kind>>}, Z)
<1>1. CASE m.seq \notin Z
  BY <1>1, AskKeeps
<1>2. CASE m.seq \in Z
  <2>1. SeqOk(R, A, P \cup {<<m.seq, m.kind>>}, Z)
    BY <1>2, AsideKeeps
  <2> QED
    BY <1>2, <2>1, CloseKeeps
<1> QED
  BY <1>1, <1>2

LEMMA ServeMay ==
  ASSUME NEW Z, NEW R \in Seq(RequestType), NEW A \in Seq(AnswerType), NEW P, SeqOk(R, A, P, Z),
         R # <<>>, NEW m, m = Head(R), m.kind # "CLOSE", NEW a \in AnswerType, Answers(m, a)
  PROVE  SeqOk(Tail(R), Append(A, a), P, Z)
<1>1. CASE m.seq \notin Z
  BY <1>1, ServeKeeps
<1>2. CASE m.seq \in Z
  <2>1. SeqOk(Tail(R), A, P, Z)
    BY <1>2, ServeCloseKeeps
  <2>2. a.seq \in Z
    BY <1>2 DEF Answers
  <2> QED
    BY <2>1, <2>2, AsideKeeps
<1> QED
  BY <1>1, <1>2

LEMMA ExpectedNew ==
  ASSUME FsType, OpInv
  PROVE  \A x \in Expected : x[1] # seqno
<1>1. \A k \in DOMAIN pending : pending[k].request_seqno \in Nat /\ pending[k].request_seqno < seqno
  BY PendingFacts DEF OpInv, OpType
<1>2. seqno \in Nat
  BY DEF FsType
<1> SUFFICES ASSUME NEW x \in Expected PROVE x[1] # seqno
  OBVIOUS
<1>3. PICK k \in DOMAIN pending : x = <<pending[k].request_seqno, pending[k].expects>>
  BY DEF Expected
<1> QED
  BY <1>1, <1>2, <1>3

LEMMA ExpectedHold ==
  ASSUME FsType, NEW op \in OpType, pending' = <<op>> \o pending
  PROVE  Expected' = Expected \cup {<<op.request_seqno, op.expects>>}
<1>1. /\ DOMAIN pending' = 1 .. Len(pending) + 1 /\ Len(pending) \in Nat
      /\ DOMAIN pending = 1 .. Len(pending)
      /\ pending'[1] = op /\ \A j \in 1 .. Len(pending) : pending'[j + 1] = pending[j]
  BY PrependFacts, PendingFacts
<1> DEFINE pair(k) == <<pending[k].request_seqno, pending[k].expects>>
           new == <<op.request_seqno, op.expects>>
<1>2. \A k \in DOMAIN pending' : k = 1 \/ (k - 1 \in DOMAIN pending /\ pending'[k] = pending[k - 1])
  <2> SUFFICES ASSUME NEW k \in DOMAIN pending', k # 1
               PROVE  k - 1 \in DOMAIN pending /\ pending'[k] = pending[k - 1]
    OBVIOUS
  <2>1. k - 1 \in 1 .. Len(pending) /\ k - 1 + 1 = k
    BY <1>1
  <2> QED
    BY <1>1, <2>1
<1>3. \A k \in DOMAIN pending : k + 1 \in DOMAIN pending' /\ pending'[k + 1] = pending[k]
  BY <1>1
<1>4. 1 \in DOMAIN pending'
  BY <1>1
<1>5. ASSUME NEW x \in Expected' PROVE x \in Expected \cup {new}
  <2>1. PICK k \in DOMAIN pending' : x = <<pending'[k].request_seqno, pending'[k].expects>>
    BY DEF Expected
  <2> QED
    BY <1>1, <1>2, <2>1 DEF Expected
<1>6. ASSUME NEW x \in Expected PROVE x \in Expected'
  <2>1. PICK k \in DOMAIN pending : x = <<pending[k].request_seqno, pending[k].expects>>
    BY DEF Expected
  <2> QED
    BY <1>3, <2>1 DEF Expected
<1>7. new \in Expected'
  BY <1>1, <1>4 DEF Expected
<1> QED
  BY <1>5, <1>6, <1>7

LEMMA ExpectedComplete ==
  ASSUME FsType, OpInv, NEW op, Unlinked(op)
  PROVE  Expected' = {x \in Expected : x[1] # op.request_seqno}
<1>1. PICK k \in DOMAIN pending :
           /\ pending[k] = op
           /\ \A j \in DOMAIN pending' :
                /\ (IF j < k THEN j ELSE j + 1) \in DOMAIN pending \ {k}
                /\ pending'[j] = pending[IF j < k THEN j ELSE j + 1]
           /\ \A i \in DOMAIN pending \ {k} :
                /\ (IF i < k THEN i ELSE i - 1) \in DOMAIN pending'
                /\ pending'[IF i < k THEN i ELSE i - 1] = pending[i]
  BY UnlinkFacts
<1>2. \A i \in DOMAIN pending : i # k => pending[i].request_seqno # op.request_seqno
  BY <1>1 DEF OpInv
<1>3. ASSUME NEW x \in Expected' PROVE x \in Expected /\ x[1] # op.request_seqno
  <2>1. PICK j \in DOMAIN pending' : x = <<pending'[j].request_seqno, pending'[j].expects>>
    BY DEF Expected
  <2>2. PICK i \in DOMAIN pending \ {k} : pending'[j] = pending[i]
    BY <1>1
  <2> QED
    BY <1>2, <2>1, <2>2 DEF Expected
<1>4. ASSUME NEW x \in Expected, x[1] # op.request_seqno PROVE x \in Expected'
  <2>1. PICK i \in DOMAIN pending : x = <<pending[i].request_seqno, pending[i].expects>>
    BY DEF Expected
  <2>2. i # k
    BY <1>1, <1>4, <2>1
  <2>3. PICK j \in DOMAIN pending' : pending'[j] = pending[i]
    BY <1>1, <2>2
  <2> QED
    BY <2>1, <2>3 DEF Expected
<1> QED
  BY <1>3, <1>4

LEMMA ExpectedRequeue ==
  ASSUME FsType, OpInv, NEW op, \E i \in DOMAIN pending : op = pending[i], NEW new \in OpType,
         pending' = [i \in DOMAIN pending |-> IF pending[i] # op THEN pending[i] ELSE new]
  PROVE  Expected' = {x \in Expected : x[1] # op.request_seqno}
                       \cup {<<new.request_seqno, new.expects>>}
<1>1. PICK k \in DOMAIN pending : op = pending[k]
  OBVIOUS
<1>2. /\ DOMAIN pending' = DOMAIN pending /\ pending'[k] = new
      /\ \A i \in DOMAIN pending \ {k} : pending'[i] = pending[i]
  BY <1>1, RequeueFacts
<1>3. \A i \in DOMAIN pending : i # k => pending[i].request_seqno # op.request_seqno
  BY <1>1 DEF OpInv
<1> DEFINE pair == <<new.request_seqno, new.expects>>
<1>4. ASSUME NEW x \in Expected', x # pair PROVE x \in Expected /\ x[1] # op.request_seqno
  <2>1. PICK j \in DOMAIN pending' : x = <<pending'[j].request_seqno, pending'[j].expects>>
    BY DEF Expected
  <2>2. j # k
    BY <1>2, <1>4, <2>1
  <2>3. j \in DOMAIN pending /\ pending'[j] = pending[j]
    BY <1>2, <2>2
  <2>4. x = <<pending[j].request_seqno, pending[j].expects>> /\ x[1] = pending[j].request_seqno
    BY <2>1, <2>3
  <2>5. x[1] # op.request_seqno
    BY <1>3, <2>2, <2>3, <2>4
  <2> QED
    BY <2>3, <2>4, <2>5 DEF Expected
<1>5. ASSUME NEW x \in Expected, x[1] # op.request_seqno PROVE x \in Expected'
  <2>1. PICK i \in DOMAIN pending : x = <<pending[i].request_seqno, pending[i].expects>>
    BY DEF Expected
  <2>2. i # k
    BY <1>1, <1>5, <2>1
  <2> QED
    BY <1>2, <2>1, <2>2 DEF Expected
<1>6. pair \in Expected'
  BY <1>2 DEF Expected
<1> QED
  BY <1>4, <1>5, <1>6

LEMMA SeqUnchanged ==
  ASSUME NEW Z, SeqInv(Z), conn' = "up" => conn = "up", UNCHANGED <<requests, answers, pending>>
  PROVE  SeqInv(Z)'
<1>1. Expected' = Expected
  BY DEF Expected
<1> SUFFICES ASSUME conn' = "up" PROVE SeqOk(requests', answers', Expected', Z)
  BY DEF SeqInv
<1>2. SeqOk(requests, answers, Expected, Z)
  BY DEF SeqInv
<1> QED
  BY <1>1, <1>2

LEMMA SeqPacket ==
  ASSUME NEW Z, SessionInv, SeqInv(Z), NEW p \in Procs, Room(p), PacketStep(p), answers' = answers
  PROVE  SeqInv(Z)'
<1> SUFFICES ASSUME conn' = "up" PROVE SeqOk(requests', answers', Expected', Z)
  BY DEF SeqInv
<1>0. FsType /\ OpInv /\ requests \in Seq(RequestType) /\ answers \in Seq(AnswerType) /\ seqno \in Nat
  BY DEF SessionInv, TypeInv, ChannelType, FsType
<1>1. CASE requests' = requests /\ pending' = pending /\ conn' = conn
  BY <1>1, SeqUnchanged DEF SeqInv
<1>2. ASSUME NEW l \in LockIds, Freed(p, l), pending' = pending,
             transmit_message(CloseRequest(seqno, lock[l].handle_id))
      PROVE  SeqOk(requests', answers', Expected', Z)
  <2>1. lock[l].handle_id \in Int
    BY <1>0, <1>2, LockTypes DEF Freed, LockType
  <2>2. PICK msg \in RequestType : msg = CloseRequest(seqno, lock[l].handle_id)
    BY <1>0, <2>1, RequestTypes
  <2>3. msg.kind = "CLOSE"
    BY <2>2 DEF CloseRequest
  <2>4. conn = "up" /\ requests' = Append(requests, msg)
    BY <1>0, <1>2, <2>2, TransmitFacts
  <2>5. SeqOk(Append(requests, msg), answers, Expected, Z)
    BY <1>0, <2>3, <2>4, CloseKeeps DEF SeqInv
  <2>6. Expected' = Expected
    BY <1>2 DEF Expected
  <2> QED
    BY <2>4, <2>5, <2>6
<1>3. CASE HoldStep(p)
  <2>1. PICK op \in OpType, msg \in RequestType :
          /\ pending' = <<op>> \o pending /\ op.packet = p /\ op.request_seqno = seqno
          /\ transmit_message(msg) /\ seqno' = seqno + 1
          /\ Asks(msg, op)'
    BY <1>3 DEF HoldStep
  <2>2. conn = "up" /\ requests' = Append(requests, msg)
    BY <1>0, <2>1, TransmitFacts
  <2>3. msg.seq = seqno /\ msg.kind = op.expects /\ msg.kind # "CLOSE"
    BY <2>1 DEF Asks, OpType
  <2>4. Expected' = Expected \cup {<<msg.seq, msg.kind>>}
    BY <1>0, <2>1, <2>3, ExpectedHold
  <2>5. \A x \in Expected : x[1] # msg.seq
    BY <1>0, <2>3, ExpectedNew
  <2>6. SeqOk(Append(requests, msg), answers, Expected \cup {<<msg.seq, msg.kind>>}, Z)
    BY <1>0, <2>2, <2>3, <2>5, AskMay DEF SeqInv
  <2> QED
    BY <2>2, <2>4, <2>6
<1>4. CASE ReplyStep(p)
  BY <1>1, <1>2, <1>4 DEF ReplyStep, NothingSent
<1>5. CASE LostStep(p)
  BY <1>1, <1>5 DEF LostStep
<1> QED
  BY <1>3, <1>4, <1>5 DEF PacketStep

LEMMA SeqNetwork ==
  ASSUME NEW Z, SessionInv, SeqInv(Z), rl_amigafs_process_network_message
  PROVE  SeqInv(Z)'
<1> SUFFICES ASSUME conn' = "up" PROVE SeqOk(requests', answers', Expected', Z)
  BY DEF SeqInv
<1>0. FsType /\ OpInv /\ requests \in Seq(RequestType) /\ answers \in Seq(AnswerType) /\ seqno \in Nat
  BY DEF SessionInv, TypeInv, ChannelType, FsType
<1>1. PICK op : op = find_pending_op
  OBVIOUS
<1>2. /\ conn = "up" /\ answers # <<>> /\ answers' = Tail(answers) /\ Received \in AnswerType
      /\ Waiting(op) /\ Found /\ (CompleteStep(op) \/ RequeueStep(op))
  BY <1>1, NetworkSteps
<1>3. op.request_seqno = Head(answers).seq /\ \E i \in DOMAIN pending : op = pending[i]
  BY <1>0, <1>1, <1>2, FoundOp DEF Received
<1> DEFINE Q == {x \in Expected : x[1] # op.request_seqno}
<1>4. SeqOk(requests, Tail(answers), Q, Z)
  BY <1>0, <1>2, <1>3, ReceiveKeeps DEF SeqInv
<1>5. CASE CompleteStep(op)
  <2>1. Expected' = Q
    BY <1>0, <1>5, ExpectedComplete DEF CompleteStep
  <2>2. CASE requests' = requests
    BY <1>2, <1>4, <2>1, <2>2
  <2>3. CASE Received.kind = "OPEN" /\ transmit_message(CloseRequest(seqno, Received.handle))
    <3>1. Received.handle \in Int
      BY <1>2, <2>3, OpenAnswered DEF HandleIds
    <3>2. PICK msg \in RequestType : msg = CloseRequest(seqno, Received.handle)
      BY <1>0, <3>1, RequestTypes
    <3>3. msg.kind = "CLOSE"
      BY <3>2 DEF CloseRequest
    <3>4. requests' = Append(requests, msg)
      BY <1>0, <2>3, <3>2, TransmitFacts
    <3>5. SeqOk(Append(requests, msg), Tail(answers), Q, Z)
      BY <1>0, <1>4, <3>3, CloseKeeps
    <3> QED
      BY <1>2, <2>1, <3>4, <3>5
  <2> QED
    BY <1>5, <2>2, <2>3 DEF CompleteStep, NothingSent
<1>6. CASE RequeueStep(op)
  <2>1. PICK new \in OpType, msg \in RequestType :
          /\ pending' = [i \in DOMAIN pending |-> IF pending[i] # op THEN pending[i] ELSE new]
          /\ new.packet = op.packet /\ new.request_seqno = seqno
          /\ transmit_message(msg) /\ seqno' = seqno + 1
          /\ Asks(msg, new)'
    BY <1>6 DEF RequeueStep
  <2>2. requests' = Append(requests, msg)
    BY <1>0, <2>1, TransmitFacts
  <2>3. msg.seq = seqno /\ msg.kind = new.expects /\ msg.kind # "CLOSE"
    BY <2>1 DEF Asks, OpType
  <2>4. Expected' = Q \cup {<<msg.seq, msg.kind>>}
    BY <1>0, <1>3, <2>1, <2>3, ExpectedRequeue
  <2>5. \A x \in Q : x[1] # msg.seq
    BY <1>0, <2>3, ExpectedNew
  <2>6. Tail(answers) \in Seq(AnswerType)
    BY <1>0, <1>2, HeadTailProperties
  <2> HIDE DEF Q
  <2>7. SeqOk(Append(requests, msg), Tail(answers), Q \cup {<<msg.seq, msg.kind>>}, Z)
    BY <1>0, <1>4, <2>3, <2>5, <2>6, AskMay
  <2> QED
    BY <1>2, <2>2, <2>4, <2>7
<1> QED
  BY <1>2, <1>5, <1>6

LEMMA SeqServer ==
  ASSUME NEW Z, SessionInv, SeqInv(Z), ServerStep
  PROVE  SeqInv(Z)'
<1>1. rl_file_serve /\ UNCHANGED <<pending, conn>> /\ conn = "up"
  BY DEF ServerStep, fsVars
<1>2. PICK m : m = Head(requests)
  OBVIOUS
<1>3. /\ m \in RequestType /\ requests # <<>> /\ requests' = Tail(requests)
      /\ \/ m.kind # "CLOSE" /\ \E a \in AnswerType : Answers(m, a) /\ answers' = Append(answers, a)
         \/ m.kind = "CLOSE" /\ answers' = answers
  BY <1>1, <1>2, ServerStepServes DEF SessionInv, Serves, Request
<1>4. Expected' = Expected
  BY <1>1 DEF Expected
<1>5. requests \in Seq(RequestType) /\ answers \in Seq(AnswerType) /\ SeqOk(requests, answers, Expected, Z)
  BY <1>1 DEF SessionInv, TypeInv, ChannelType, SeqInv
<1>6. ASSUME NEW a \in AnswerType, m.kind # "CLOSE", Answers(m, a), answers' = Append(answers, a)
      PROVE  SeqOk(requests', answers', Expected', Z)
  <2>1. SeqOk(Tail(requests), Append(answers, a), Expected, Z)
    BY <1>2, <1>3, <1>5, <1>6, ServeMay
  <2> QED
    BY <1>3, <1>4, <1>6, <2>1
<1>7. CASE m.kind = "CLOSE" /\ answers' = answers
  <2>1. SeqOk(Tail(requests), answers, Expected, Z)
    BY <1>2, <1>3, <1>5, <1>7, ServeCloseKeeps
  <2> QED
    BY <1>3, <1>4, <1>7, <2>1 DEF SeqInv
<1> QED
  BY <1>3, <1>6, <1>7 DEF SeqInv

LEMMA SeqStep ==
  ASSUME NEW Z, SessionInv, SeqInv(Z), [Next]_vars, SpawnMayFail = FALSE \/ 0 \in Z
  PROVE  SeqInv(Z)'
<1>1. ASSUME NEW p \in Procs, process_fs_packet(p) PROVE SeqInv(Z)'
  <2>1. Room(p) /\ PacketStep(p) /\ answers' = answers
    BY <1>1, PacketSteps DEF SessionInv
  <2> QED
    BY <2>1, SeqPacket
<1>2. CASE NetworkStep
  BY <1>2, SeqNetwork DEF NetworkStep
<1>3. CASE ServerStep
  BY <1>3, SeqServer
<1>4. CASE connection_lost \/ rl_amigafs_destroy
  BY <1>4 DEF connection_lost, rl_amigafs_destroy, SeqInv
<1>5. CASE UNCHANGED vars
  BY <1>5, SeqUnchanged DEF vars, channels, fsVars
<1>6. CASE spawn_failure
  <2>1. /\ conn = "up" /\ 0 \in Z /\ UNCHANGED <<answers, pending, conn>>
        /\ requests' = Append(requests, ErrorAnswer(0, "SPAWN_FAILURE"))
    BY <1>6 DEF spawn_failure, fsVars
  <2>2. PICK msg \in RequestType : msg = ErrorAnswer(0, "SPAWN_FAILURE") /\ msg.seq = 0
    <3>1. ErrorAnswer(0, "SPAWN_FAILURE") \in RequestType
      BY DEF ErrorAnswer, RequestType, NetErrors
    <3>2. ErrorAnswer(0, "SPAWN_FAILURE").seq = 0
      BY DEF ErrorAnswer
    <3> QED
      BY <3>1, <3>2
  <2>3. requests \in Seq(RequestType) /\ SeqOk(requests, answers, Expected, Z)
    BY <2>1 DEF SessionInv, TypeInv, ChannelType, SeqInv
  <2>4. SeqOk(Append(requests, msg), answers, Expected, Z)
    BY <2>1, <2>2, <2>3, CloseKeeps
  <2>5. Expected' = Expected
    BY <2>1 DEF Expected
  <2> QED
    BY <2>1, <2>2, <2>4, <2>5 DEF SeqInv
<1> QED
  BY <1>1, <1>2, <1>3, <1>4, <1>5, <1>6 DEF Next

LEMMA SeqInit ==
  ASSUME NEW Z, Init
  PROVE  SeqInv(Z)
<1>1. requests = <<>> /\ answers = <<>> /\ pending = <<>>
  BY DEF Init, FsInit
<1>2. DOMAIN requests = {} /\ DOMAIN answers = {} /\ DOMAIN pending = {}
  BY <1>1
<1>3. Expected = {} /\ Asking(requests, Z) = {} /\ Answering(answers, Z) = {}
  BY <1>2 DEF Expected, Asking, Answering
<1> QED
  BY <1>2, <1>3 DEF SeqInv, SeqOk

(* AnswersMatch: while the connection holds, every pending operation has    *)
(* exactly one message under way, and every answer under way is awaited by  *)
(* an operation, of its kind: find_pending_op never fails.  The assumption  *)
(* leaves out the error message that reports a failed launch, whose number  *)
(* (zero) may be that of a request.                                         *)
THEOREM AnswersFindTheirOperation ==
  ASSUME SpawnMayFail = FALSE
  PROVE  Spec => []AnswersMatch
<1>1. SessionInv /\ SeqInv({}) => AnswersMatch
  <2> SUFFICES ASSUME SessionInv, SeqInv({}), conn = "up" PROVE AnswersMatch
    BY DEF AnswersMatch
  <2>1. SeqOk(requests, answers, Expected, {})
    BY DEF SeqInv
  <2>0. Answering(answers, {}) = DOMAIN answers
    BY DEF Answering
  <2>2. ASSUME NEW k \in DOMAIN pending PROVE InFlight(pending[k].request_seqno) = 1
    <3> DEFINE s == pending[k].request_seqno
               RS == {i \in DOMAIN requests : requests[i].seq = s /\ requests[i].kind # "CLOSE"}
               AS == {i \in DOMAIN answers : answers[i].seq = s}
    <3>1. PICK x \in Expected : x[1] = s
      <4>1. <<s, pending[k].expects>> \in Expected /\ <<s, pending[k].expects>>[1] = s
        BY DEF Expected
      <4> QED
        BY <4>1
    <3> HIDE DEF s
    <3>2. CASE \E i \in Asking(requests, {}) : requests[i].seq = s
      <4>1. PICK i \in Asking(requests, {}) : requests[i].seq = s
        BY <3>2
      <4>2. RS = {i}
        BY <2>1, <4>1 DEF SeqOk, Asking
      <4>3. AS = {}
        BY <2>0, <2>1, <4>1 DEF SeqOk
      <4>4. Cardinality(RS) = 1 /\ Cardinality(AS) = 0
        BY <4>2, <4>3, FS_Singleton, FS_EmptySet
      <4> QED
        BY <4>4 DEF InFlight, s
    <3>3. CASE \A i \in Asking(requests, {}) : requests[i].seq # s
      <4>1. PICK j \in DOMAIN answers : answers[j].seq = s
        BY <2>0, <2>1, <3>1, <3>3 DEF SeqOk
      <4>2. AS = {j}
        BY <2>0, <2>1, <4>1 DEF SeqOk
      <4>3. RS = {}
        BY <3>3 DEF Asking
      <4>4. Cardinality(RS) = 0 /\ Cardinality(AS) = 1
        BY <4>2, <4>3, FS_Singleton, FS_EmptySet
      <4> QED
        BY <4>4 DEF InFlight, s
    <3> QED
      BY <3>2, <3>3
  <2>3. ASSUME NEW i \in DOMAIN answers
        PROVE  \E j \in DOMAIN pending :
                 /\ pending[j].request_seqno = answers[i].seq
                 /\ answers[i].kind \in {"ERROR", pending[j].expects}
    <3>1. PICK x \in Expected : x[1] = answers[i].seq /\ answers[i].kind \in {"ERROR", x[2]}
      BY <2>0, <2>1 DEF SeqOk
    <3>2. PICK j \in DOMAIN pending : x = <<pending[j].request_seqno, pending[j].expects>>
      BY DEF Expected
    <3> QED
      BY <3>1, <3>2
  <2> QED
    BY <2>2, <2>3 DEF AnswersMatch
<1>2. SessionInv /\ SeqInv({}) /\ [Next]_vars => SeqInv({})'
  <2> SUFFICES ASSUME SessionInv, SeqInv({}), [Next]_vars PROVE SeqInv({})'
    OBVIOUS
  <2> QED
    BY SeqStep
<1>3. Init => SeqInv({})
  BY SeqInit
<1> QED
  BY <1>1, <1>2, <1>3, SessionInvariant, PTL DEF Spec
=============================================================================
