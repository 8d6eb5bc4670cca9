----------------------------- MODULE FileHandles -----------------------------
(***************************************************************************)
(* Who owns a file: the openat operation adopts the descriptor that the    *)
(* kernel reports and sends it as a file_handle, which closes it when it   *)
(* is destroyed, is assigned to, or is asked to.  A released descriptor is *)
(* a number that a close sender and then a close operation carry.  The     *)
(* kernel gives the lowest free number to the next file, so that a second  *)
(* close() of a number closes somebody else's file.                        *)
(*                                                                         *)
(* How the two operations reach the kernel and back is in IoOp.            *)
(***************************************************************************)
EXTENDS Integers, FiniteSets, FiniteSetsExt

CONSTANTS Handles,          \* the file_handles of the program
          Opens, Closes,    \* openat operations; close senders and operations
          Descriptors,      \* the numbers of the files, naturals
          MaxFiles          \* how many files are opened

NoFile == 0
Invalid == [fd |-> -1, file |-> NoFile]

VARIABLES table,            \* which file each descriptor is (the kernel's)
          files,            \* how many files were opened (history)
          handle,           \* fd_ of each file_handle, and its file (history)
          opening,          \* where each openat operation is, and its result
          closing,          \* where each close is, and its fd_
          abandoned,        \* files whose close was dropped (history)
          wrong             \* a close() met another file, or none (history)

vars == <<table, files, handle, opening, closing, abandoned, wrong>>

Init == /\ table = [d \in Descriptors |-> NoFile]
        /\ files = 0
        /\ handle = [h \in Handles |-> Invalid]
        /\ opening = [o \in Opens |-> [at |-> "idle", owns |-> Invalid]]
        /\ closing = [c \in Closes |-> [at |-> "none", owns |-> Invalid]]
        /\ abandoned = {}
        /\ wrong = FALSE

Free == {d \in Descriptors : table[d] = NoFile}

(* close() of a descriptor, in the kernel *)
CloseIn(owner) ==
    /\ table' = [d \in Descriptors |-> IF d = owner.fd THEN NoFile ELSE table[d]]
    /\ wrong' = (wrong \/ (owner.fd # -1 /\ table[owner.fd] # owner.file))

-----------------------------------------------------------------------------
(* openat *)

OpenInKernel(o) ==
    /\ opening[o].at = "idle" /\ files < MaxFiles /\ Free # {}
    /\ files' = files + 1
    /\ table' = [table EXCEPT ![Min(Free)] = files + 1]
    /\ opening' = [opening EXCEPT ![o] =
                      [at |-> "reported", owns |-> [fd |-> Min(Free), file |-> files + 1]]]
    /\ UNCHANGED <<handle, closing, abandoned, wrong>>

(* on_complete(): adopt(), and the receiver keeps what it is sent, ...     *)
OpenCompletes(o, h) ==
    /\ opening[o].at = "reported"
    /\ handle[h] = Invalid
    /\ handle' = [handle EXCEPT ![h] = opening[o].owns]
    /\ opening' = [opening EXCEPT ![o] = [at |-> "idle", owns |-> Invalid]]
    /\ UNCHANGED <<table, files, closing, abandoned, wrong>>

(* ... or has no use for it: the temporary file_handle closes it.          *)
OpenIsDiscarded(o) ==
    /\ opening[o].at = "reported"
    /\ CloseIn(opening[o].owns)
    /\ opening' = [opening EXCEPT ![o] = [at |-> "idle", owns |-> Invalid]]
    /\ UNCHANGED <<files, handle, closing, abandoned>>

-----------------------------------------------------------------------------
(* file_handle *)

(* operator=: through a temporary, which closes what was there.  It may be *)
(* the same object.                                                        *)
Assign(h, other) ==
    LET tmp == handle[other]
        moved == [handle EXCEPT ![other] = Invalid]
    IN  /\ CloseIn(moved[h])
        /\ handle' = [moved EXCEPT ![h] = tmp]
        /\ UNCHANGED <<files, opening, closing, abandoned>>

(* close() and the destructor *)
Close(h) == /\ handle[h] # Invalid
            /\ CloseIn(handle[h])
            /\ handle' = [handle EXCEPT ![h] = Invalid]
            /\ UNCHANGED <<files, opening, closing, abandoned>>

Swap(h, other) == /\ handle' = [handle EXCEPT ![h] = handle[other], ![other] = handle[h]]
                  /\ UNCHANGED <<table, files, opening, closing, abandoned, wrong>>

-----------------------------------------------------------------------------
(* close: scheduler.close(file.release()) *)

Release(h, c) ==
    /\ handle[h] # Invalid /\ closing[c].at = "none"
    /\ closing' = [closing EXCEPT ![c] = [at |-> "sender", owns |-> handle[h]]]
    /\ handle' = [handle EXCEPT ![h] = Invalid]
    /\ UNCHANGED <<table, files, opening, abandoned, wrong>>

(* close_sender::connect() takes the number out of the sender. *)
Connect(c) == /\ closing[c].at = "sender"
              /\ closing' = [closing EXCEPT ![c].at = "operation"]
              /\ UNCHANGED <<table, files, handle, opening, abandoned, wrong>>

(* The kernel closes the file, also when it reports an error; on_complete() *)
(* reports it to the receiver.                                             *)
CloseCompletes(c) ==
    /\ closing[c].at = "operation"
    /\ CloseIn(closing[c].owns)
    /\ closing' = [closing EXCEPT ![c] = [at |-> "none", owns |-> Invalid]]
    /\ UNCHANGED <<files, handle, opening, abandoned>>

(* A sender that is not connected, an operation that is not started, or one *)
(* that is stopped before the kernel looks at it, forgets the number: the  *)
(* file stays open, and nobody has its number any more.                    *)
CloseIsDropped(c) ==
    /\ closing[c].at \in {"sender", "operation"}
    /\ abandoned' = abandoned \cup {closing[c].owns.file}
    /\ closing' = [closing EXCEPT ![c] = [at |-> "none", owns |-> Invalid]]
    /\ UNCHANGED <<table, files, handle, opening, wrong>>

-----------------------------------------------------------------------------
Next == \/ \E o \in Opens : \/ OpenInKernel(o) \/ OpenIsDiscarded(o)
                            \/ \E h \in Handles : OpenCompletes(o, h)
        \/ \E h \in Handles : \/ Close(h)
                              \/ \E other \in Handles : Assign(h, other) \/ Swap(h, other)
                              \/ \E c \in Closes : Release(h, c)
        \/ \E c \in Closes : Connect(c) \/ CloseCompletes(c) \/ CloseIsDropped(c)

Spec == Init /\ [][Next]_vars

-----------------------------------------------------------------------------
(* Properties *)

Owner == [fd : Descriptors \cup {-1}, file : 0..MaxFiles]

TypeOk == /\ table \in [Descriptors -> 0..MaxFiles]
          /\ files \in 0..MaxFiles
          /\ handle \in [Handles -> Owner]
          /\ opening \in [Opens -> [at : {"idle", "reported"}, owns : Owner]]
          /\ closing \in [Closes -> [at : {"none", "sender", "operation"}, owns : Owner]]
          /\ abandoned \subseteq 1..MaxFiles
          /\ wrong \in BOOLEAN

(* Those that would close a file, each by its kind and name                *)
Owners(f) == {<<"handle", h>> : h \in {g \in Handles : handle[g].file = f}} \cup
             {<<"open", o>> : o \in {p \in Opens : opening[p].owns.file = f}} \cup
             {<<"close", c>> : c \in {e \in Closes : closing[e].owns.file = f}}

(* An open file has one owner, unless its close was dropped, and a file    *)
(* that is closed has none; although the numbers are used again, nothing   *)
(* closes a file that it did not get.                                      *)
FilesHaveOneOwner ==
    /\ ~wrong
    /\ \A f \in 1..files :
          Cardinality(Owners(f)) =
              IF f \notin abandoned /\ \E d \in Descriptors : table[d] = f THEN 1 ELSE 0
=============================================================================
