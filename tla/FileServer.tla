----------------------------- MODULE FileServer -----------------------------
(***************************************************************************)
(* The controller's file server, src/file_server.c in its POSIX build: the *)
(* table of open handles and the answer to every request.                  *)
(*                                                                         *)
(* Definitions such as FreeIds_nonpositive, each placed before the one     *)
(* whose name it extends, are faulty variants of it: no action uses them,  *)
(* they serve to confirm that the properties notice the fault.             *)
(***************************************************************************)
EXTENDS FileProtocol

CONSTANTS
  IoMayFail        \* whether open(), pread() and readdir() may fail

ASSUME IoAssumption == IoMayFail \in BOOLEAN

VARIABLES
  slot,            \* rl_controller_t.handles, see SlotType
  root_dir,        \* dir_handle of root_handle
  open_fds,        \* file descriptors the process has open for handles
  stdout           \* stdout[p]: bytes of p's latest write printed so far

serverVars == <<slot, root_dir, open_fds, stdout>>

(* handle is 0 for a free slot, -1 for a directory, 1 for a descriptor;     *)
(* dir is the open DIR*, as <<path, entries read>>, or NoDir.               *)
NoDir == <<>>

SlotType ==
  [handle : {-1, 0, 1}, type : {"FILE", "DIR"}, path : DOMAIN Tree \cup {<<>>},
   dir : {NoDir} \cup ((DOMAIN Tree \cup {<<>>}) \X Nat)]

FreeSlot == [handle |-> 0, type |-> "FILE", path |-> <<>>, dir |-> NoDir]

ServerInit(Procs) ==
  /\ slot = [h \in HandleIds |-> FreeSlot]
  /\ root_dir = NoDir
  /\ open_fds = 0
  /\ stdout = [p \in Procs |-> <<>>]

Request == Head(requests)

Answer(msg) == answers' = Append(answers, msg)

reply_with_error_dropped(code) == UNCHANGED answers

reply_with_error(code) == Answer(ErrorAnswer(Request.seq, code))

FreeIds_nonpositive == {h \in HandleIds : slot[h].handle <= 0}

FreeIds == {h \in HandleIds : slot[h].handle = 0}

(* The slot make_handle uses: the first free one. *)
FreeId == CHOOSE h \in FreeIds : \A k \in FreeIds : h <= k

open_handle_too_many ==
  /\ FreeIds = {}
  /\ reply_with_error("TOO_MANY_FILES_OPEN")
  /\ UNCHANGED serverVars

open_handle_not_found ==
  /\ FreeIds # {}
  /\ Request.path \notin DOMAIN Tree
  /\ reply_with_error("NOT_FOUND")
  /\ UNCHANGED serverVars

(* What translate_posix_errno makes of a failed open() of a file. *)
OpenErrors == {"ACCESS_DENIED", "IO_ERROR"}

(* open() fails after stat() has set the slot's type. *)
open_handle_fails ==
  /\ FreeIds # {} /\ IoMayFail
  /\ IsFile(Request.path)
  /\ slot' = [slot EXCEPT ![FreeId].type = "FILE"]
  /\ \E code \in OpenErrors : reply_with_error(code)
  /\ UNCHANGED <<root_dir, open_fds, stdout>>

open_handle_succeeds ==
  /\ FreeIds # {}
  /\ Request.path \in DOMAIN Tree
  /\ LET node == Tree[Request.path]
         file == node.type = "FILE"
     IN  /\ slot' = [slot EXCEPT ![FreeId].handle = IF file THEN 1 ELSE -1,
                                 ![FreeId].type = node.type,
                                 ![FreeId].path = Request.path]
         /\ open_fds' = IF file THEN open_fds + 1 ELSE open_fds
         /\ Answer(OpenAnswer(Request.seq, FreeId, node.type,
                              IF file THEN node.size ELSE 0))
  /\ UNCHANGED <<root_dir, stdout>>

open_handle_request ==
  \/ open_handle_too_many
  \/ open_handle_not_found
  \/ open_handle_fails
  \/ open_handle_succeeds

(* close() is called for directories only, where it has nothing to close. *)
ClosedFds(h) == open_fds

(* handle = 0.  Directories keep their DIR*, and so does a reused slot.     *)
closed_slot(h) ==
  IF h \in HandleIds THEN [slot EXCEPT ![h].handle = 0] ELSE slot

(* Requests for the virtual files are ignored; closing the root (a handle   *)
(* that action_parent makes up) only zeroes a field that is zero already.   *)
close_handle_request ==
  /\ slot' = closed_slot(Request.handle)
  /\ open_fds' = ClosedFds(Request.handle)
  /\ UNCHANGED <<answers, root_dir, stdout>>

(* The directory a find request continues: rewound if it asks for that or   *)
(* if none is open.                                                         *)
rewound_unless_open(dir, path) == IF dir = NoDir THEN <<path, 0>> ELSE dir

rewound(dir, path) ==
  IF Request.reset \/ dir = NoDir THEN <<path, 0>> ELSE dir

FindDir ==
  IF Request.handle = ROOT THEN rewound(root_dir, <<>>)
  ELSE rewound(slot[Request.handle].dir, slot[Request.handle].path)

SetFindDir(dir) ==
  IF Request.handle = ROOT
    THEN root_dir' = dir /\ UNCHANGED slot
    ELSE slot' = [slot EXCEPT ![Request.handle].dir = dir] /\ UNCHANGED root_dir

IsDirectory(h) == h = ROOT \/ (h \in HandleIds /\ slot[h].type = "DIR")

find_next_file_not_dir ==
  /\ ~IsDirectory(Request.handle)
  /\ reply_with_error("NOT_A_DIRECTORY")
  /\ UNCHANGED serverVars

(* opendir() or readdir() fails, or stat() does on the entry found.         *)
find_next_file_fails ==
  /\ IsDirectory(Request.handle)
  /\ IoMayFail
  /\ \/ FindDir[2] = 0 /\ SetFindDir(NoDir)
     \/ SetFindDir(FindDir)
     \/ FindDir[2] < DirSize(FindDir[1]) /\ SetFindDir(<<FindDir[1], FindDir[2] + 1>>)
  /\ reply_with_error("IO_ERROR")
  /\ UNCHANGED <<open_fds, stdout>>

find_next_file_succeeds ==
  /\ IsDirectory(Request.handle)
  /\ LET next == <<FindDir[1], FindDir[2] + 1>>
         end == FindDir[2] >= DirSize(FindDir[1])
     IN  /\ SetFindDir(IF end THEN FindDir ELSE next)
         /\ Answer(FindAnswer(Request.seq, end, IF end THEN NoDir ELSE next))
  /\ UNCHANGED <<open_fds, stdout>>

find_next_file_request ==
  \/ find_next_file_not_dir
  \/ find_next_file_fails
  \/ find_next_file_succeeds

(* pread() of a whole buffer, whatever length was asked for.  A free slot   *)
(* and the virtual input (descriptor 0) are refused; pread() fails on a     *)
(* directory's -1 and on the virtual output (descriptor 1).                 *)
read_file_refused ==
  /\ Request.handle # RL_FILEHANDLE_VIRTUAL_OUTPUT
  /\ Request.handle \in HandleIds => slot[Request.handle].handle = 0
  /\ reply_with_error("NOT_A_FILE")

read_file_fails ==
  /\ \/ Request.handle = RL_FILEHANDLE_VIRTUAL_OUTPUT
     \/ /\ Request.handle \in HandleIds
        /\ \/ slot[Request.handle].handle = -1
           \/ slot[Request.handle].handle = 1 /\ IoMayFail
  /\ reply_with_error("IO_ERROR")

read_file_succeeds ==
  /\ Request.handle \in HandleIds /\ slot[Request.handle].handle = 1
  /\ Answer(ReadAnswer(Request.seq,
              FileBytes(slot[Request.handle].path, Request.offset, Chunk)))

read_file_request ==
  /\ read_file_refused \/ read_file_fails \/ read_file_succeeds
  /\ UNCHANGED serverVars

(* Only the virtual output is written to; every write is acknowledged. *)
write_file_request ==
  /\ stdout' = IF Request.handle = RL_FILEHANDLE_VIRTUAL_OUTPUT
                 THEN [stdout EXCEPT ![Request.writer] =
                         IF Request.source = 0 THEN Request.data ELSE @ \o Request.data]
                 ELSE stdout
  /\ Answer(WriteAnswer(Request.seq))
  /\ UNCHANGED <<slot, root_dir, open_fds>>

(* Anything else, such as the target's report of a failed launch. *)
bad_request ==
  /\ reply_with_error("BAD_REQUEST")
  /\ UNCHANGED serverVars

rl_file_serve ==
  /\ requests # <<>>
  /\ requests' = Tail(requests)
  /\ \/ Request.kind = "OPEN" /\ open_handle_request
     \/ Request.kind = "CLOSE" /\ close_handle_request
     \/ Request.kind = "READ" /\ read_file_request
     \/ Request.kind = "WRITE" /\ write_file_request
     \/ Request.kind = "FIND" /\ find_next_file_request
     \/ Request.kind = "ERROR" /\ bad_request
=============================================================================
