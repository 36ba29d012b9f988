----------------------------- MODULE Redirector -----------------------------
(***************************************************************************)
(* The resident part of VBSF (sftsr.c): the network redirector that serves *)
(* DOS calls on drives mounted from VirtualBox shared folders.             *)
(*                                                                         *)
(* The redirector keeps one table, files, of the host handles it has open. *)
(* DOS and the programs above it keep the only references into that table: *)
(* a system file table entry (SFT) holds a slot number in start_cluster, a *)
(* search data block (SDB) holds one in dir_entry.  Nothing tells the      *)
(* redirector when such a reference is copied, dropped or used too late,   *)
(* so the module is about those references staying right.                  *)
(*                                                                         *)
(* A handler runs to its end before DOS makes another call, so a handler   *)
(* is one action.  An error path that changes no table is a stuttering     *)
(* step and has no action of its own.                                      *)
(***************************************************************************)
EXTENDS Naturals

CONSTANTS
  NumFiles,          \* NUM_FILES, the number of slots
  INVALID_OPENFILE,  \* the slot number that stands for "no slot" (0xFFFF)
  Drives,            \* DOS drive letters
  Roots,             \* host shared folders
  Handles,           \* the handles the host can give out
  NIL,               \* SHFL_ROOT_NIL and SHFL_HANDLE_NIL
  Sfts,              \* entries of the DOS system file table
  Blocks,            \* search data blocks, one in each program's DTA
  MaxRefs,           \* bound: most DOS handles on one SFT
  HostFaults,        \* the calls the host may refuse: "close", "unmap"
  Habits             \* what the programs above do, see AllHabits

(***************************************************************************)
(* What programs may do beyond opening, closing and searching politely:    *)
(*  abandon       start a new search before the old one reached its end    *)
(*  past_end      call FindNext after a find call has failed               *)
(*  label_next    call FindNext after finding the volume label             *)
(*  copied_block  copy a search block and continue both copies             *)
(*  nested_exit   end a program while another one has files open           *)
(*  busy_unmount  unmount a drive that has open files or searches          *)
(*  shared_folder mount one folder on several drives (README.md:262)       *)
(***************************************************************************)
AllHabits == {"abandon", "past_end", "label_next", "copied_block",
              "nested_exit", "busy_unmount", "shared_folder"}

ASSUME RedirectorAssumption ==
  /\ NumFiles \in Nat \ {0}
  /\ INVALID_OPENFILE \in Nat /\ INVALID_OPENFILE > NumFiles
  /\ Drives # {}
  /\ MaxRefs \in Nat \ {0}
  /\ NIL \notin Roots \cup Handles
  /\ HostFaults \subseteq {"close", "unmap"}
  /\ Habits \subseteq AllHabits

VARIABLES
  drives,  \* data.drives[d].root: the folder mounted on d, or NIL
  files,   \* data.files: the slots
  sft,     \* the DOS system file table
  block,   \* the programs' search data blocks
  host     \* the folder of every open host handle, NIL for the others

vars == <<drives, files, sft, block, host>>

Slots == 0 .. NumFiles - 1
Index == Slots \cup {INVALID_OPENFILE}
OpenFile == [root : Roots \cup {NIL}, handle : Handles \cup {NIL}]
Free == [root |-> NIL, handle |-> NIL]

\* What the owner of a block last heard: nothing, an entry, a label, an error.
Phases == {"idle", "found", "label", "failed"}

TypeOK ==
  /\ drives \in [Drives -> Roots \cup {NIL}]
  /\ files \in [Slots -> OpenFile]
  /\ sft \in [Sfts -> [num_handles : 0 .. MaxRefs, start_cluster : Index,
                       drive : Drives]]
  /\ block \in [Blocks -> [drive : Drives, dir_entry : Index,
                           phase : Phases]]
  /\ host \in [Handles -> Roots \cup {NIL}]

-----------------------------------------------------------------------------
(* Helpers *)

Live(i) == files[i].root # NIL
LiveSlots == {i \in Slots : Live(i)}
InUse(s) == sft[s].num_handles > 0
Searching(p) == block[p].phase = "found"

\* is_call_for_mounted_drive: anything else is left to the next redirector.
Mounted(d) == drives[d] # NIL

\* find_free_openfile returns the first free slot.
FirstFree(i) == ~Live(i) /\ \A j \in 0 .. i - 1 : Live(j)

\* The bound in the code is ">", so that an index of NUM_FILES would pass.
is_valid_openfile_index(i) ==
  i # INVALID_OPENFILE /\ i <= NumFiles /\ files[i].root # NIL

\* The host takes a handle it has not given out, and gives it to folder r.
HostOpen(r, h) == host[h] = NIL /\ host' = [host EXCEPT ![h] = r]

\* The sets of handles, out of hs, that the host may refuse to close.
Refused(hs) == IF "close" \in HostFaults THEN SUBSET hs ELSE {{}}

\* Mutant: the handle is closed and the slot is not marked free.
CloseSlotsMutant(S) ==
  /\ LET hs == {files[i].handle : i \in S}
     IN  host' = [h \in Handles |-> IF h \in hs THEN NIL ELSE host[h]]
  /\ UNCHANGED files

\* close_openfile, for each slot of S: the slot is free again whatever the
\* host answers.
CloseSlots(S) ==
  /\ files' = [i \in Slots |-> IF i \in S THEN Free ELSE files[i]]
  /\ LET hs == {files[i].handle : i \in S}
     IN  \E kept \in Refused(hs) :
           host' = [h \in Handles |->
                      IF h \in hs \ kept THEN NIL ELSE host[h]]

\* A handle of folder r that is opened and closed within one handler.
HostOpenClose(r) ==
  \E h \in Handles :
    /\ host[h] = NIL
    /\ \E kept \in Refused({h}) :
         host' = IF h \in kept THEN [host EXCEPT ![h] = r] ELSE host

-----------------------------------------------------------------------------
(* Files *)

\* handle_create_open_ex, when the host returns a handle.
Open(s, d) ==
  /\ Mounted(d) /\ ~InUse(s)
  /\ \E i \in Slots, h \in Handles :
       /\ FirstFree(i)
       /\ HostOpen(drives[d], h)
       /\ files' = [files EXCEPT ![i] = [root |-> drives[d], handle |-> h]]
       /\ sft' = [sft EXCEPT ![s] = [num_handles |-> 1, start_cluster |-> i,
                                     drive |-> d]]
  /\ UNCHANGED <<drives, block>>

\* DOS: another handle on an SFT (DUP, or a child that inherits it).
Dup(s) ==
  /\ InUse(s) /\ sft[s].num_handles < MaxRefs
  /\ sft' = [sft EXCEPT ![s].num_handles = @ + 1]
  /\ UNCHANGED <<drives, files, block, host>>

\* Mutant: the file is closed with the first of its handles.
CloseSftMutant(s) ==
  /\ InUse(s) /\ Mounted(sft[s].drive)
  /\ is_valid_openfile_index(sft[s].start_cluster)
  /\ CloseSlots({sft[s].start_cluster})
  /\ sft' = [sft EXCEPT ![s].num_handles = @ - 1]
  /\ UNCHANGED <<drives, block>>

\* handle_close.  An SFT whose slot is not valid keeps its handles.
CloseSft(s) ==
  /\ InUse(s) /\ Mounted(sft[s].drive)
  /\ is_valid_openfile_index(sft[s].start_cluster)
  /\ IF sft[s].num_handles > 1
       THEN /\ sft' = [sft EXCEPT ![s].num_handles = @ - 1]
            /\ UNCHANGED <<files, host>>
       ELSE /\ CloseSlots({sft[s].start_cluster})
            /\ sft' = [sft EXCEPT ![s].num_handles = 0,
                                  ![s].start_cluster = INVALID_OPENFILE]
  /\ UNCHANGED <<drives, block>>

\* Mutant: the new directory's handle is not closed.
MkdirMutant(d) ==
  /\ Mounted(d)
  /\ \E h \in Handles : HostOpen(drives[d], h)
  /\ UNCHANGED <<drives, files, sft, block>>

\* handle_mkdir: the new directory's handle is closed on the spot, and the
\* answer to that close is ignored.
Mkdir(d) ==
  /\ Mounted(d)
  /\ HostOpenClose(drives[d])
  /\ UNCHANGED <<drives, files, sft, block>>

\* handle_close_all, which DOS calls when a program ends; gone are the search
\* blocks in the memory of that program.
CloseAll(gone) ==
  /\ \/ "nested_exit" \in Habits
     \/ /\ \A s \in Sfts : ~InUse(s)
        /\ \A p \in Blocks \ gone : ~Searching(p)
  /\ CloseSlots(LiveSlots)
  /\ block' = [p \in Blocks |->
                 IF p \in gone THEN [block[p] EXCEPT !.phase = "idle"]
                               ELSE block[p]]
  /\ UNCHANGED <<drives, sft>>

-----------------------------------------------------------------------------
(* Searches.  DOS copies the caller's block into the SDA before the call,  *)
(* and back after one that succeeds; after one that fails it may not.      *)

Found(p, d, i) ==
  block' = [block EXCEPT ![p] =
              [drive |-> d, dir_entry |-> i, phase |-> "found"]]

Failed(p, d, i) ==
  \/ block' = [block EXCEPT ![p] =
                 [drive |-> d, dir_entry |-> i, phase |-> "failed"]]
  \/ block' = [block EXCEPT ![p].phase = "failed"]

MayFindFirst(p, d) ==
  Mounted(d) /\ (Searching(p) => "abandon" \in Habits)

\* handle_find_first for the volume label alone: no slot, dir_entry stays 0.
FindLabel(p, d) ==
  /\ MayFindFirst(p, d)
  /\ \/ block' = [block EXCEPT ![p] =
                    [drive |-> d, dir_entry |-> 0, phase |-> "label"]]
     \/ Failed(p, d, 0)
  /\ UNCHANGED <<drives, files, sft, host>>

\* handle_find_first that gives up before it has a slot: none is free, or the
\* host cannot open the directory.
FindFirstUnopened(p, d) ==
  /\ MayFindFirst(p, d)
  /\ Failed(p, d, 0)
  /\ UNCHANGED <<drives, files, sft, host>>

\* handle_find_first that returns an entry and keeps the directory open.
FindFirst(p, d) ==
  /\ MayFindFirst(p, d)
  /\ \E i \in Slots, h \in Handles :
       /\ FirstFree(i)
       /\ HostOpen(drives[d], h)
       /\ files' = [files EXCEPT ![i] = [root |-> drives[d], handle |-> h]]
       /\ Found(p, d, i)
  /\ UNCHANGED <<drives, sft>>

\* Mutant: the slot number stays in the block when the directory is closed.
FindFirstClosedMutant(p, d) ==
  /\ MayFindFirst(p, d)
  /\ HostOpenClose(drives[d])
  /\ \E i \in Slots : FirstFree(i) /\ (Found(p, d, i) \/ Failed(p, d, i))
  /\ UNCHANGED <<drives, files, sft>>

\* handle_find_first that closes the directory again: nothing matched, the
\* pattern has no wildcard, or the entry is Winfile's TESTDIR.TMP.
FindFirstClosed(p, d) ==
  /\ MayFindFirst(p, d)
  /\ \E i \in Slots : FirstFree(i)
  /\ HostOpenClose(drives[d])
  /\ \/ Found(p, d, INVALID_OPENFILE)
     \/ Failed(p, d, INVALID_OPENFILE)
  /\ UNCHANGED <<drives, files, sft>>

MayFindNext(p) ==
  /\ Mounted(block[p].drive)
  /\ \/ Searching(p)
     \/ block[p].phase = "label" /\ "label_next" \in Habits
     \/ block[p].phase = "failed" /\ "past_end" \in Habits

\* Mutant: the end of the search does not close the directory.
FindNextMutant(p) ==
  LET i == block[p].dir_entry
  IN  /\ MayFindNext(p)
      /\ \/ Found(p, block[p].drive, i) /\ is_valid_openfile_index(i)
         \/ Failed(p, block[p].drive, INVALID_OPENFILE)
      /\ UNCHANGED <<drives, files, sft, host>>

\* handle_find_next: no more files, an entry, or an error that closes the slot.
FindNext(p) ==
  LET i == block[p].dir_entry
  IN  /\ MayFindNext(p)
      /\ \/ /\ ~is_valid_openfile_index(i)
            /\ Failed(p, block[p].drive, i)
            /\ UNCHANGED <<files, host>>
         \/ /\ is_valid_openfile_index(i)
            /\ Found(p, block[p].drive, i)
            /\ UNCHANGED <<files, host>>
         \/ /\ is_valid_openfile_index(i)
            /\ CloseSlots({i})
            /\ Failed(p, block[p].drive, INVALID_OPENFILE)
      /\ UNCHANGED <<drives, sft>>

\* A program copies block p over block q.
CopyBlock(p, q) ==
  /\ "copied_block" \in Habits
  /\ block' = [block EXCEPT ![q] = block[p]]
  /\ UNCHANGED <<drives, files, sft, host>>

-----------------------------------------------------------------------------
(* Mounting, by the transient VBSF.EXE (sfmain.c) in the resident's data *)

Mount(d, r) ==
  /\ ~Mounted(d)
  /\ (\E e \in Drives : drives[e] = r) => "shared_folder" \in Habits
  /\ drives' = [drives EXCEPT ![d] = r]
  /\ UNCHANGED <<files, sft, block, host>>

\* unmount_shfl closes the files of the folder, not of the drive, and leaves
\* the drive mounted when the host refuses to unmap the folder.
Unmount(d) ==
  /\ Mounted(d)
  /\ \/ "busy_unmount" \in Habits
     \/ /\ \A s \in Sfts : InUse(s) => sft[s].drive # d
        /\ \A p \in Blocks : Searching(p) => block[p].drive # d
  /\ CloseSlots({i \in Slots : files[i].root = drives[d]})
  /\ \/ drives' = [drives EXCEPT ![d] = NIL]
     \/ "unmap" \in HostFaults /\ UNCHANGED drives
  /\ UNCHANGED <<sft, block>>

-----------------------------------------------------------------------------
\* What a record that was never used holds does not matter.
AnyDrive == CHOOSE d \in Drives : TRUE

Init ==
  /\ drives = [d \in Drives |-> NIL]
  /\ files = [i \in Slots |-> Free]
  /\ sft = [s \in Sfts |-> [num_handles |-> 0, drive |-> AnyDrive,
                            start_cluster |-> INVALID_OPENFILE]]
  /\ block = [p \in Blocks |-> [drive |-> AnyDrive, phase |-> "idle",
                                dir_entry |-> INVALID_OPENFILE]]
  /\ host = [h \in Handles |-> NIL]

FileNext ==
  \/ \E s \in Sfts : Dup(s) \/ CloseSft(s) \/ \E d \in Drives : Open(s, d)
  \/ \E gone \in SUBSET Blocks : CloseAll(gone)

SearchNext ==
  \E p \in Blocks :
    \/ FindNext(p)
    \/ \E q \in Blocks : CopyBlock(p, q)
    \/ \E d \in Drives : \/ FindLabel(p, d) \/ FindFirstUnopened(p, d)
                         \/ FindFirst(p, d) \/ FindFirstClosed(p, d)

FolderNext ==
  \E d \in Drives : Mkdir(d) \/ Unmount(d) \/ \E r \in Roots : Mount(d, r)

Next == FileNext \/ SearchNext \/ FolderNext

Spec == Init /\ [][Next]_vars

-----------------------------------------------------------------------------
(* What must hold whatever the programs do *)

\* Every live slot holds a handle the host has open in the slot's folder, and
\* no two hold the same one, while a free slot holds none: close_openfile and
\* the open handlers never leave a slot that a later call would send to the
\* host as a dead or foreign handle.
SlotsHoldDistinctHandles ==
  /\ \A i \in Slots \ LiveSlots : files[i].handle = NIL
  /\ \A i \in LiveSlots :
       /\ files[i].handle \in Handles
       /\ host[files[i].handle] = files[i].root
       /\ \A j \in LiveSlots : files[i].handle = files[j].handle => i = j

\* A slot is live only while its folder is mounted somewhere: unmount_shfl
\* closes the files first, also when two drives share the folder.
SlotsAreOnMountedFolders ==
  \A i \in LiveSlots : \E d \in Drives : drives[d] = files[i].root

\* A slot is never handed out while it is live, even across handlers that
\* close and open: it changes only from free to live or from live to free.
SlotsAreNeverOverwritten ==
  [][\A i \in Slots : files'[i] # files[i] =>
       files[i] = Free \/ files'[i] = Free]_vars

\* When the host closes what it is told to close, every handle it has open is
\* in a slot: no handler, mkdir and failed searches included, loses one.
NoLostHandles ==
  \A h \in Handles : host[h] # NIL => \E i \in Slots : files[i].handle = h

-----------------------------------------------------------------------------
(* What programs are promised, when their habits permit it *)

\* The habits under which no program can reach a slot that is not its own.
Polite == Habits \subseteq {"abandon"}

\* An open SFT refers to a live slot of the folder on its own drive, and to no
\* slot that another open SFT or a running search uses: reads, writes and
\* closes made for one file never reach another.
FilesKeepTheirSlots ==
  \A s \in Sfts : InUse(s) =>
    LET i == sft[s].start_cluster
    IN  /\ i \in LiveSlots
        /\ files[i].root = drives[sft[s].drive]
        /\ \A t \in Sfts \ {s} : InUse(t) => sft[t].start_cluster # i
        /\ \A p \in Blocks : Searching(p) => block[p].dir_entry # i

\* A running search has the directory it opened, alone: either its handle was
\* closed when the entry was found, or the slot is live and not shared.
SearchesKeepTheirSlots ==
  \A p \in Blocks :
    LET i == block[p].dir_entry
    IN  Searching(p) /\ i # INVALID_OPENFILE =>
          /\ i \in LiveSlots
          /\ files[i].root = drives[block[p].drive]
          /\ \A q \in Blocks \ {p} : Searching(q) => block[q].dir_entry # i

\* Every live slot still has a user, so that "too many open files" means that
\* NUM_FILES files and searches are really open (README.md:577-586).
NoAbandonedSlots ==
  \A i \in LiveSlots :
    \/ \E s \in Sfts : InUse(s) /\ sft[s].start_cluster = i
    \/ \E p \in Blocks : Searching(p) /\ block[p].dir_entry = i
=============================================================================
