---------------------------- MODULE FileProtocol ----------------------------
(***************************************************************************)
(* The file-serving half of src/rlnet.msg: the messages that AmigaFs (in   *)
(* the target) and FileServer (in the controller) exchange, the two        *)
(* directions of the connection, and the served directory tree.            *)
(*                                                                         *)
(* A path is the sequence of its components, <<>> being the root; a byte of*)
(* a file is named by the file and its offset, <<path, offset>>.  Write    *)
(* requests also carry the writer and the position within its buffer, so   *)
(* that it can be told what reached the controller.                        *)
(***************************************************************************)
EXTENDS Integers, Sequences, FiniteSets

CONSTANTS
  Tree,            \* path |-> [type, size] of all that exists but the root
  RootSize,        \* number of entries of the root directory
  Chunk,           \* bytes in one read or write message (4096 in the code)
  RL_MAX_FILE_HANDLES

ASSUME TreeAssumption ==
  /\ \A path \in DOMAIN Tree :
       /\ path \in Seq(STRING) /\ path # <<>>
       /\ Tree[path].type \in {"FILE", "DIR"} /\ Tree[path].size \in Nat
  /\ RootSize \in Nat
  /\ Chunk \in Nat \ {0}
  /\ RL_MAX_FILE_HANDLES \in Nat \ {0}

VARIABLES
  requests,        \* messages on their way to the file server
  answers          \* messages on their way back

channels == <<requests, answers>>

(* Handle ids that do not index the server's table. *)
ROOT == -1
RL_FILEHANDLE_VIRTUAL_INPUT == -2
RL_FILEHANDLE_VIRTUAL_OUTPUT == -3

HandleIds == 0 .. RL_MAX_FILE_HANDLES - 1

IsFile(path) == path \in DOMAIN Tree /\ Tree[path].type = "FILE"

(* The bytes a read of n bytes at an offset gets, fewer at the end of file. *)
FileBytes(path, offset, n) ==
  LET left == Tree[path].size - offset
      len == IF left < 0 THEN 0 ELSE IF left < n THEN left ELSE n
  IN  [i \in 1 .. len |-> <<path, offset + i - 1>>]

(* The number of entries of a directory. *)
DirSize(path) == IF path = <<>> THEN RootSize ELSE Tree[path].size

(* rl_proto_neterror_t, the codes that an error answer may carry. *)
NetErrors ==
  {"ACCESS_DENIED", "NOT_FOUND", "NOT_A_FILE", "NOT_A_DIRECTORY", "IO_ERROR",
   "INVALID_VALUE", "BAD_REQUEST", "TOO_MANY_FILES_OPEN", "SPAWN_FAILURE"}

OpenRequest(seq, path) == [kind |-> "OPEN", seq |-> seq, path |-> path]
CloseRequest(seq, h) == [kind |-> "CLOSE", seq |-> seq, handle |-> h]
ReadRequest(seq, h, offset) ==
  [kind |-> "READ", seq |-> seq, handle |-> h, offset |-> offset]
WriteRequest(seq, h, p, source, data) ==
  [kind |-> "WRITE", seq |-> seq, handle |-> h, writer |-> p, source |-> source,
   data |-> data]
FindRequest(seq, h, reset) ==
  [kind |-> "FIND", seq |-> seq, handle |-> h, reset |-> reset]

OpenAnswer(seq, h, type, size) ==
  [kind |-> "OPEN", seq |-> seq, handle |-> h, type |-> type, size |-> size]
ReadAnswer(seq, data) == [kind |-> "READ", seq |-> seq, data |-> data]
WriteAnswer(seq) == [kind |-> "WRITE", seq |-> seq]
FindAnswer(seq, end, entry) ==
  [kind |-> "FIND", seq |-> seq, end_of_sequence |-> end, entry |-> entry]
ErrorAnswer(seq, code) == [kind |-> "ERROR", seq |-> seq, error_code |-> code]
=============================================================================
