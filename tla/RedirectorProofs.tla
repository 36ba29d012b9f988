-------------------------- MODULE RedirectorProofs --------------------------
(***************************************************************************)
(* Proofs about Redirector, for any number of slots, drives, folders,      *)
(* handles, SFTs and search blocks, and for any behaviour of the programs  *)
(* and the host that the constants allow.                                  *)
(***************************************************************************)
EXTENDS Redirector, TLAPS

\* close_openfile keeps both tables well typed.
LEMMA CloseSlotsType ==
  ASSUME TypeOK, NEW S \in SUBSET Slots, CloseSlots(S)
  PROVE  /\ files' \in [Slots -> OpenFile]
         /\ host' \in [Handles -> Roots \cup {NIL}]
<1>1. files' \in [Slots -> OpenFile]
  BY DEF CloseSlots, TypeOK, OpenFile, Free
<1>2. host' \in [Handles -> Roots \cup {NIL}]
  BY DEF CloseSlots, TypeOK
<1>. QED BY <1>1, <1>2

\* A handle opened and closed at once leaves a well typed host table.
LEMMA HostOpenCloseType ==
  ASSUME TypeOK, NEW r \in Roots, HostOpenClose(r)
  PROVE  host' \in [Handles -> Roots \cup {NIL}]
BY DEF HostOpenClose, TypeOK

\* What a search call writes in a block is a block.
LEMMA BlockType ==
  ASSUME TypeOK, NEW p \in Blocks, NEW d \in Drives, NEW i \in Index,
         Found(p, d, i) \/ Failed(p, d, i)
  PROVE  block' \in [Blocks -> [drive : Drives, dir_entry : Index,
                                phase : Phases]]
BY DEF TypeOK, Found, Failed, Phases

LEMMA ZeroIsAnIndex == 0 \in Index /\ INVALID_OPENFILE \in Index
BY RedirectorAssumption DEF Index, Slots

\* A valid index names a slot: the ">" in is_valid_openfile_index, which lets
\* NUM_FILES pass, is never reached with that number.
LEMMA ValidIsSlot ==
  ASSUME NEW i \in Index, is_valid_openfile_index(i)
  PROVE  i \in Slots /\ Live(i)
BY DEF Index, is_valid_openfile_index, Live

LEMMA InitType == Init => TypeOK
<1> SUFFICES ASSUME Init PROVE TypeOK
  OBVIOUS
<1>1. AnyDrive \in Drives
  BY RedirectorAssumption DEF AnyDrive
<1>2. 0 \in 0 .. MaxRefs
  BY RedirectorAssumption
<1>. QED
  BY <1>1, <1>2 DEF Init, TypeOK, Free, OpenFile, Index, Phases

LEMMA FileNextType ==
  ASSUME TypeOK, FileNext
  PROVE  TypeOK'
<1>1. ASSUME NEW s \in Sfts, NEW d \in Drives, Open(s, d) PROVE TypeOK'
  <2>. PICK i \in Slots, h \in Handles :
         /\ HostOpen(drives[d], h)
         /\ files' = [files EXCEPT ![i] = [root |-> drives[d], handle |-> h]]
         /\ sft' = [sft EXCEPT ![s] = [num_handles |-> 1, start_cluster |-> i,
                                       drive |-> d]]
    BY <1>1 DEF Open
  <2>1. drives[d] \in Roots
    BY <1>1 DEF Open, Mounted, TypeOK
  <2>2. files' \in [Slots -> OpenFile]
    BY <2>1 DEF TypeOK, OpenFile
  <2>3. host' \in [Handles -> Roots \cup {NIL}]
    BY <2>1 DEF TypeOK, HostOpen
  <2>4. 1 \in 0 .. MaxRefs /\ i \in Index
    BY RedirectorAssumption DEF Index
  <2>5. sft' \in [Sfts -> [num_handles : 0 .. MaxRefs, start_cluster : Index,
                           drive : Drives]]
    BY <2>4 DEF TypeOK
  <2>. QED BY <1>1, <2>2, <2>3, <2>5 DEF TypeOK, Open
<1>2. ASSUME NEW s \in Sfts, Dup(s) PROVE TypeOK'
  <2>1. sft[s].num_handles + 1 \in 0 .. MaxRefs
    BY <1>2, RedirectorAssumption DEF Dup, InUse, TypeOK
  <2>. QED BY <1>2, <2>1 DEF Dup, TypeOK
<1>3. ASSUME NEW s \in Sfts, CloseSft(s) PROVE TypeOK'
  <2>1. CASE sft[s].num_handles > 1
    <3>1. sft[s].num_handles - 1 \in 0 .. MaxRefs
      BY <2>1, RedirectorAssumption DEF TypeOK
    <3>. QED BY <1>3, <2>1, <3>1 DEF CloseSft, TypeOK
  <2>2. CASE ~(sft[s].num_handles > 1)
    <3>1. sft[s].start_cluster \in Slots
      BY <1>3, ValidIsSlot DEF CloseSft, TypeOK
    <3>2. /\ files' \in [Slots -> OpenFile]
          /\ host' \in [Handles -> Roots \cup {NIL}]
      BY <1>3, <2>2, <3>1, CloseSlotsType DEF CloseSft
    <3>3. 0 \in 0 .. MaxRefs
      BY RedirectorAssumption
    <3>4. sft' \in [Sfts -> [num_handles : 0 .. MaxRefs,
                             start_cluster : Index, drive : Drives]]
      BY <1>3, <2>2, <3>3, ZeroIsAnIndex DEF CloseSft, TypeOK
    <3>. QED BY <1>3, <3>2, <3>4 DEF CloseSft, TypeOK
  <2>. QED BY <2>1, <2>2
<1>4. ASSUME NEW gone \in SUBSET Blocks, CloseAll(gone) PROVE TypeOK'
  <2>1. /\ files' \in [Slots -> OpenFile]
        /\ host' \in [Handles -> Roots \cup {NIL}]
    BY <1>4, CloseSlotsType DEF CloseAll, LiveSlots
  <2>2. block' \in [Blocks -> [drive : Drives, dir_entry : Index,
                               phase : Phases]]
    BY <1>4 DEF CloseAll, TypeOK, Phases
  <2>. QED BY <1>4, <2>1, <2>2 DEF CloseAll, TypeOK
<1>. QED BY <1>1, <1>2, <1>3, <1>4 DEF FileNext

LEMMA SearchNextType ==
  ASSUME TypeOK, SearchNext
  PROVE  TypeOK'
<1>1. ASSUME NEW p \in Blocks, FindNext(p) PROVE TypeOK'
  <2> DEFINE i == block[p].dir_entry
             d == block[p].drive
  <2>1. i \in Index /\ d \in Drives
    BY DEF TypeOK
  <2>2. Found(p, d, i) \/ Failed(p, d, i) \/ Failed(p, d, INVALID_OPENFILE)
    BY <1>1 DEF FindNext
  <2>3. block' \in [Blocks -> [drive : Drives, dir_entry : Index,
                               phase : Phases]]
    BY <2>1, <2>2, BlockType, ZeroIsAnIndex
  <2>4. /\ files' \in [Slots -> OpenFile]
        /\ host' \in [Handles -> Roots \cup {NIL}]
    <3>1. CASE UNCHANGED <<files, host>>
      BY <3>1 DEF TypeOK
    <3>2. CASE is_valid_openfile_index(i) /\ CloseSlots({i})
      BY <2>1, <3>2, ValidIsSlot, CloseSlotsType
    <3>. QED BY <1>1, <3>1, <3>2 DEF FindNext
  <2>. QED BY <1>1, <2>3, <2>4 DEF FindNext, TypeOK
<1>2. ASSUME NEW p \in Blocks, NEW q \in Blocks, CopyBlock(p, q) PROVE TypeOK'
  BY <1>2 DEF CopyBlock, TypeOK
<1>3. ASSUME NEW p \in Blocks, NEW d \in Drives, FindLabel(p, d) PROVE TypeOK'
  <2>1. CASE block' = [block EXCEPT ![p] =
                         [drive |-> d, dir_entry |-> 0, phase |-> "label"]]
    BY <1>3, <2>1, ZeroIsAnIndex DEF FindLabel, TypeOK, Phases
  <2>2. CASE Failed(p, d, 0)
    BY <1>3, <2>2, ZeroIsAnIndex, BlockType DEF FindLabel, TypeOK
  <2>. QED BY <1>3, <2>1, <2>2 DEF FindLabel
<1>4. ASSUME NEW p \in Blocks, NEW d \in Drives, FindFirstUnopened(p, d)
      PROVE  TypeOK'
  BY <1>4, ZeroIsAnIndex, BlockType DEF FindFirstUnopened, TypeOK
<1>5. ASSUME NEW p \in Blocks, NEW d \in Drives, FindFirst(p, d) PROVE TypeOK'
  <2>. PICK i \in Slots, h \in Handles :
         /\ HostOpen(drives[d], h)
         /\ files' = [files EXCEPT ![i] = [root |-> drives[d], handle |-> h]]
         /\ Found(p, d, i)
    BY <1>5 DEF FindFirst
  <2>1. drives[d] \in Roots
    BY <1>5 DEF FindFirst, MayFindFirst, Mounted, TypeOK
  <2>2. files' \in [Slots -> OpenFile] /\ host' \in [Handles -> Roots \cup {NIL}]
    BY <2>1 DEF TypeOK, OpenFile, HostOpen
  <2>3. block' \in [Blocks -> [drive : Drives, dir_entry : Index,
                               phase : Phases]]
    BY BlockType DEF Index
  <2>. QED BY <1>5, <2>2, <2>3 DEF FindFirst, TypeOK
<1>6. ASSUME NEW p \in Blocks, NEW d \in Drives, FindFirstClosed(p, d)
      PROVE  TypeOK'
  <2>1. drives[d] \in Roots
    BY <1>6 DEF FindFirstClosed, MayFindFirst, Mounted, TypeOK
  <2>2. host' \in [Handles -> Roots \cup {NIL}]
    BY <1>6, <2>1, HostOpenCloseType DEF FindFirstClosed
  <2>3. block' \in [Blocks -> [drive : Drives, dir_entry : Index,
                               phase : Phases]]
    BY <1>6, ZeroIsAnIndex, BlockType DEF FindFirstClosed
  <2>. QED BY <1>6, <2>2, <2>3 DEF FindFirstClosed, TypeOK
<1>. QED BY <1>1, <1>2, <1>3, <1>4, <1>5, <1>6 DEF SearchNext

LEMMA FolderNextType ==
  ASSUME TypeOK, FolderNext
  PROVE  TypeOK'
<1>1. ASSUME NEW d \in Drives, Mkdir(d) PROVE TypeOK'
  <2>1. drives[d] \in Roots
    BY <1>1 DEF Mkdir, Mounted, TypeOK
  <2>. QED BY <1>1, <2>1, HostOpenCloseType DEF Mkdir, TypeOK
<1>2. ASSUME NEW d \in Drives, Unmount(d) PROVE TypeOK'
  <2>1. /\ files' \in [Slots -> OpenFile]
        /\ host' \in [Handles -> Roots \cup {NIL}]
    BY <1>2, CloseSlotsType DEF Unmount
  <2>. QED BY <1>2, <2>1 DEF Unmount, TypeOK
<1>3. ASSUME NEW d \in Drives, NEW r \in Roots, Mount(d, r) PROVE TypeOK'
  BY <1>3 DEF Mount, TypeOK
<1>. QED BY <1>1, <1>2, <1>3 DEF FolderNext

LEMMA NextType == TypeOK /\ [Next]_vars => TypeOK'
<1>1. TypeOK /\ UNCHANGED vars => TypeOK'
  BY DEF TypeOK, vars
<1>. QED
  BY <1>1, FileNextType, SearchNextType, FolderNextType DEF Next

\* Every table of the redirector, and every reference into one, stays in range
\* (find_free_openfile, is_valid_openfile_index): an SFT or a search block that
\* the redirector wrote names a slot or INVALID_OPENFILE, never NUM_FILES.
THEOREM TypeCorrect == Spec => []TypeOK
BY InitType, NextType, PTL DEF Spec

-----------------------------------------------------------------------------
(* The slots and the host.  A step of any handler touches the slot table   *)
(* and the host's handles in one of four ways.                             *)

OpensSlot ==
  \E i \in Slots, h \in Handles, r \in Roots :
    /\ \E d \in Drives : drives[d] = r
    /\ FirstFree(i)
    /\ HostOpen(r, h)
    /\ files' = [files EXCEPT ![i] = [root |-> r, handle |-> h]]

ClosesSlots == \E S \in SUBSET Slots : CloseSlots(S)

OpensAndCloses == UNCHANGED files /\ \E r \in Roots : HostOpenClose(r)

\* Every step opens one slot, closes some, opens and closes a host handle
\* without a slot, or leaves both tables alone.
LEMMA StepEffects ==
  ASSUME TypeOK, [Next]_vars
  PROVE  OpensSlot \/ ClosesSlots \/ OpensAndCloses \/ UNCHANGED <<files, host>>
<1>1. ASSUME FileNext
      PROVE  OpensSlot \/ ClosesSlots \/ UNCHANGED <<files, host>>
  <2>1. ASSUME NEW s \in Sfts, NEW d \in Drives, Open(s, d) PROVE OpensSlot
    <3>1. drives[d] \in Roots
      BY <2>1 DEF Open, Mounted, TypeOK
    <3>. QED BY <2>1, <3>1 DEF Open, OpensSlot
  <2>2. ASSUME NEW s \in Sfts, CloseSft(s)
        PROVE  ClosesSlots \/ UNCHANGED <<files, host>>
    <3>1. sft[s].start_cluster \in Slots
      BY <2>2, ValidIsSlot DEF CloseSft, TypeOK
    <3>. QED BY <2>2, <3>1 DEF CloseSft, ClosesSlots
  <2>3. ASSUME NEW gone \in SUBSET Blocks, CloseAll(gone) PROVE ClosesSlots
    BY <2>3 DEF CloseAll, ClosesSlots, LiveSlots
  <2>. QED BY <1>1, <2>1, <2>2, <2>3 DEF FileNext, Dup
<1>2. ASSUME SearchNext
      PROVE  OpensSlot \/ ClosesSlots \/ OpensAndCloses
                \/ UNCHANGED <<files, host>>
  <2>1. ASSUME NEW p \in Blocks, FindNext(p)
        PROVE  ClosesSlots \/ UNCHANGED <<files, host>>
    <3>1. CASE UNCHANGED <<files, host>>
      BY <3>1
    <3>2. CASE /\ is_valid_openfile_index(block[p].dir_entry)
               /\ CloseSlots({block[p].dir_entry})
      <4>1. block[p].dir_entry \in Slots
        BY <3>2, ValidIsSlot DEF TypeOK
      <4>. QED BY <3>2, <4>1 DEF ClosesSlots
    <3>. QED BY <2>1, <3>1, <3>2 DEF FindNext
  <2>2. ASSUME NEW p \in Blocks, NEW d \in Drives, FindFirst(p, d)
        PROVE  OpensSlot
    <3>1. drives[d] \in Roots
      BY <2>2 DEF FindFirst, MayFindFirst, Mounted, TypeOK
    <3>. QED BY <2>2, <3>1 DEF FindFirst, OpensSlot
  <2>3. ASSUME NEW p \in Blocks, NEW d \in Drives, FindFirstClosed(p, d)
        PROVE  OpensAndCloses
    <3>1. drives[d] \in Roots
      BY <2>3 DEF FindFirstClosed, MayFindFirst, Mounted, TypeOK
    <3>. QED BY <2>3, <3>1 DEF FindFirstClosed, OpensAndCloses
  <2>. QED BY <1>2, <2>1, <2>2, <2>3
           DEF SearchNext, CopyBlock, FindLabel, FindFirstUnopened
<1>3. ASSUME FolderNext
      PROVE  ClosesSlots \/ OpensAndCloses \/ UNCHANGED <<files, host>>
  <2>1. ASSUME NEW d \in Drives, Mkdir(d) PROVE OpensAndCloses
    <3>1. drives[d] \in Roots
      BY <2>1 DEF Mkdir, Mounted, TypeOK
    <3>. QED BY <2>1, <3>1 DEF Mkdir, OpensAndCloses
  <2>2. ASSUME NEW d \in Drives, Unmount(d) PROVE ClosesSlots
    BY <2>2 DEF Unmount, ClosesSlots
  <2>. QED BY <1>3, <2>1, <2>2 DEF FolderNext, Mount
<1>. QED BY <1>1, <1>2, <1>3 DEF Next, vars

LEMMA SlotsHoldStep ==
  ASSUME TypeOK, SlotsHoldDistinctHandles, [Next]_vars
  PROVE  SlotsHoldDistinctHandles'
<1>1. CASE OpensSlot
  <2>. PICK i \in Slots, h \in Handles, r \in Roots :
         /\ FirstFree(i)
         /\ HostOpen(r, h)
         /\ files' = [files EXCEPT ![i] = [root |-> r, handle |-> h]]
    BY <1>1 DEF OpensSlot
  <2>1. r # NIL
    BY RedirectorAssumption
  <2>2. LiveSlots' = LiveSlots \cup {i}
    BY <2>1 DEF LiveSlots, Live, TypeOK
  <2>3. \A j \in LiveSlots : files[j].handle # h /\ j # i
    BY DEF SlotsHoldDistinctHandles, HostOpen, LiveSlots, Live, FirstFree
  <2>4. \A j \in LiveSlots : files'[j] = files[j] /\ host'[files[j].handle] = files[j].root
    BY <2>3 DEF SlotsHoldDistinctHandles, LiveSlots, TypeOK, HostOpen
  <2>5. files'[i].handle = h /\ files'[i].root = r /\ host'[h] = r
    BY DEF TypeOK, HostOpen
  <2>6. \A j \in Slots \ LiveSlots' : files'[j].handle = NIL
    BY <2>2 DEF SlotsHoldDistinctHandles, TypeOK
  <2>. QED BY <2>2, <2>3, <2>4, <2>5, <2>6 DEF SlotsHoldDistinctHandles
<1>2. CASE ClosesSlots
  <2>. PICK S \in SUBSET Slots : CloseSlots(S)
    BY <1>2 DEF ClosesSlots
  <2>1. LiveSlots' = LiveSlots \ S
    BY DEF CloseSlots, LiveSlots, Live, Free
  <2>2. \A i \in LiveSlots' : files'[i] = files[i]
    BY <2>1 DEF CloseSlots, LiveSlots
  <2>3. \A i \in LiveSlots' : host'[files[i].handle] = files[i].root
    <3> SUFFICES ASSUME NEW i \in LiveSlots'
                 PROVE  host'[files[i].handle] = files[i].root
      OBVIOUS
    <3>1. i \in LiveSlots /\ i \notin S /\ files[i].root # NIL
      BY <2>1 DEF LiveSlots, Live
    <3>2. \A j \in S : files[j].handle # files[i].handle
      <4> SUFFICES ASSUME NEW j \in S, files[j].handle = files[i].handle
                   PROVE  FALSE
        OBVIOUS
      <4>1. CASE j \in LiveSlots
        BY <3>1, <4>1 DEF SlotsHoldDistinctHandles
      <4>2. CASE j \notin LiveSlots
        BY <3>1, <4>2, RedirectorAssumption DEF SlotsHoldDistinctHandles
      <4>. QED BY <4>1, <4>2
    <3>3. files[i].handle \in Handles /\ host[files[i].handle] = files[i].root
      BY <3>1 DEF SlotsHoldDistinctHandles
    <3>. QED BY <3>2, <3>3 DEF CloseSlots
  <2>4. \A i \in Slots \ LiveSlots' : files'[i].handle = NIL
    BY <2>1 DEF CloseSlots, Free, SlotsHoldDistinctHandles
  <2>. QED BY <2>4, <2>3, <2>2, <2>1 DEF SlotsHoldDistinctHandles
<1>3. CASE OpensAndCloses
  <2>. PICK r \in Roots : HostOpenClose(r)
    BY <1>3 DEF OpensAndCloses
  <2>1. LiveSlots' = LiveSlots /\ files' = files
    BY <1>3 DEF OpensAndCloses, LiveSlots, Live
  <2>2. \A h \in Handles : host[h] # NIL => host'[h] = host[h]
    BY DEF HostOpenClose, TypeOK
  <2>3. \A i \in LiveSlots : files[i].root # NIL
    BY DEF LiveSlots, Live
  <2>. QED BY <2>1, <2>2, <2>3 DEF SlotsHoldDistinctHandles
<1>4. CASE UNCHANGED <<files, host>>
  BY <1>4 DEF SlotsHoldDistinctHandles, LiveSlots, Live
<1>. QED BY <1>1, <1>2, <1>3, <1>4, StepEffects

\* Every live slot holds a handle of its own that is open on the host
\* (close_openfile, handle_create_open_ex, open_search_dir), even when the
\* host refuses to close handles and programs misuse their search blocks.
THEOREM SlotsAreSound == Spec => []SlotsHoldDistinctHandles
<1>1. Init => SlotsHoldDistinctHandles
  BY DEF Init, SlotsHoldDistinctHandles, LiveSlots, Live, Free
<1>2. TypeOK /\ SlotsHoldDistinctHandles /\ [Next]_vars
        => SlotsHoldDistinctHandles'
  BY SlotsHoldStep
<1>. QED BY <1>1, <1>2, TypeCorrect, PTL DEF Spec

\* No handler hands out a slot that is in use (find_free_openfile).
THEOREM SlotsNeverOverwritten == Spec => SlotsAreNeverOverwritten
<1>1. TypeOK /\ SlotsHoldDistinctHandles /\ [Next]_vars
        => [\A i \in Slots : files'[i] # files[i] =>
              files[i] = Free \/ files'[i] = Free]_vars
  <2> SUFFICES ASSUME TypeOK, SlotsHoldDistinctHandles, [Next]_vars,
                      NEW i \in Slots, files'[i] # files[i]
               PROVE  files[i] = Free \/ files'[i] = Free
    OBVIOUS
  <2>1. CASE OpensSlot
    <3>1. ~Live(i)
      BY <2>1 DEF OpensSlot, FirstFree, TypeOK
    <3>2. files[i] = [root |-> NIL, handle |-> NIL]
      BY <3>1 DEF Live, LiveSlots, SlotsHoldDistinctHandles, TypeOK, OpenFile
    <3>. QED BY <3>2 DEF Free
  <2>2. CASE ClosesSlots
    BY <2>2 DEF ClosesSlots, CloseSlots
  <2>. QED BY <2>1, <2>2, StepEffects DEF OpensAndCloses
<1>. QED BY <1>1, TypeCorrect, SlotsAreSound, PTL DEF Spec, SlotsAreNeverOverwritten

LEMMA MountedFoldersStep ==
  ASSUME TypeOK, SlotsAreOnMountedFolders, [Next]_vars
  PROVE  SlotsAreOnMountedFolders'
<1>1. CASE UNCHANGED drives
  <2>1. CASE OpensSlot
    BY <1>1, <2>1 DEF OpensSlot, SlotsAreOnMountedFolders, LiveSlots, Live, TypeOK
  <2>2. CASE ClosesSlots
    BY <1>1, <2>2 DEF ClosesSlots, CloseSlots, SlotsAreOnMountedFolders,
                      LiveSlots, Live, Free
  <2>3. CASE UNCHANGED files
    BY <1>1, <2>3 DEF SlotsAreOnMountedFolders, LiveSlots, Live
  <2>. QED BY <2>1, <2>2, <2>3, StepEffects DEF OpensAndCloses
<1>2. ASSUME NEW d \in Drives, NEW r \in Roots, Mount(d, r)
      PROVE  SlotsAreOnMountedFolders'
  <2>1. \A e \in Drives : drives[e] # NIL => drives'[e] = drives[e]
    BY <1>2 DEF Mount, Mounted, TypeOK
  <2>. QED BY <1>2, <2>1 DEF Mount, SlotsAreOnMountedFolders, LiveSlots, Live
<1>3. ASSUME NEW d \in Drives, Unmount(d), drives' = [drives EXCEPT ![d] = NIL]
      PROVE  SlotsAreOnMountedFolders'
  <2> SUFFICES ASSUME NEW i \in LiveSlots'
               PROVE  \E e \in Drives : drives'[e] = files'[i].root
    BY DEF SlotsAreOnMountedFolders
  <2>1. files'[i] = files[i] /\ i \in LiveSlots /\ files[i].root # drives[d]
    BY <1>3 DEF Unmount, CloseSlots, LiveSlots, Live, Free
  <2>2. PICK e \in Drives : drives[e] = files[i].root
    BY <2>1 DEF SlotsAreOnMountedFolders
  <2>. QED BY <1>3, <2>1, <2>2 DEF TypeOK
<1>4. CASE UNCHANGED vars
  BY <1>1, <1>4 DEF vars
<1>. QED
  BY <1>1, <1>2, <1>3, <1>4
     DEF Next, FileNext, Dup, CloseSft, Open, CloseAll, SearchNext, FindNext,
         CopyBlock, FindLabel, FindFirstUnopened, FindFirst, FindFirstClosed,
         FolderNext, Mkdir, Unmount

\* Unmounting leaves no slot behind (unmount_shfl, close_openfiles): a slot is
\* live only while its folder is mounted on some drive.
THEOREM SlotsOnMounted == Spec => []SlotsAreOnMountedFolders
<1>1. Init => SlotsAreOnMountedFolders
  BY DEF Init, SlotsAreOnMountedFolders, LiveSlots, Live, Free
<1>2. TypeOK /\ SlotsAreOnMountedFolders /\ [Next]_vars
        => SlotsAreOnMountedFolders'
  BY MountedFoldersStep
<1>. QED BY <1>1, <1>2, TypeCorrect, PTL DEF Spec

-----------------------------------------------------------------------------
(* The references into the table, for polite programs.  The two invariants *)
(* need each other, and need that no folder is mounted twice: otherwise    *)
(* unmounting one drive closes the files of the other.                     *)

OneDrivePerFolder ==
  \A d, e \in Drives : drives[d] = drives[e] /\ drives[d] # NIL => d = e

ReferencesInv ==
  /\ TypeOK
  /\ OneDrivePerFolder
  /\ FilesKeepTheirSlots
  /\ SearchesKeepTheirSlots

LEMMA InvalidIsNoSlot == INVALID_OPENFILE \notin Slots
BY RedirectorAssumption DEF Slots

LEMMA FileNextReferences ==
  ASSUME ReferencesInv, Polite, FileNext
  PROVE  FilesKeepTheirSlots' /\ SearchesKeepTheirSlots' /\ UNCHANGED drives
<1>. USE DEF LiveSlots, Live, InUse, Searching
<1>1. ASSUME NEW s \in Sfts, NEW d \in Drives, Open(s, d)
      PROVE  FilesKeepTheirSlots' /\ SearchesKeepTheirSlots' /\ UNCHANGED drives
  <2>. PICK i \in Slots, h \in Handles :
         /\ FirstFree(i)
         /\ HostOpen(drives[d], h)
         /\ files' = [files EXCEPT ![i] = [root |-> drives[d], handle |-> h]]
         /\ sft' = [sft EXCEPT ![s] = [num_handles |-> 1, start_cluster |-> i,
                                       drive |-> d]]
    BY <1>1 DEF Open
  <2>1. UNCHANGED <<drives, block>> /\ drives[d] # NIL
    BY <1>1 DEF Open, Mounted
  <2>2. files[i].root = NIL
    BY DEF FirstFree
  <2>3. \A p \in Blocks : Searching(p) => block[p].dir_entry # i
    BY <2>2, InvalidIsNoSlot DEF ReferencesInv, SearchesKeepTheirSlots
  <2>4. \A t \in Sfts : InUse(t) => sft[t].start_cluster # i
    BY <2>2 DEF ReferencesInv, FilesKeepTheirSlots
  <2>5. FilesKeepTheirSlots'
    BY <2>1, <2>3, <2>4 DEF ReferencesInv, FilesKeepTheirSlots, TypeOK
  <2>6. SearchesKeepTheirSlots'
    BY <2>1, <2>2, <2>3 DEF ReferencesInv, SearchesKeepTheirSlots, TypeOK
  <2>. QED BY <2>1, <2>5, <2>6
<1>2. ASSUME NEW s \in Sfts, Dup(s)
      PROVE  FilesKeepTheirSlots' /\ SearchesKeepTheirSlots' /\ UNCHANGED drives
  <2>1. \A t \in Sfts : /\ sft'[t].start_cluster = sft[t].start_cluster
                        /\ sft'[t].drive = sft[t].drive
                        /\ InUse(t)' <=> InUse(t)
    BY <1>2 DEF Dup, ReferencesInv, TypeOK
  <2>. QED BY <1>2, <2>1 DEF Dup, ReferencesInv, FilesKeepTheirSlots,
                             SearchesKeepTheirSlots
<1>3. ASSUME NEW s \in Sfts, CloseSft(s)
      PROVE  FilesKeepTheirSlots' /\ SearchesKeepTheirSlots' /\ UNCHANGED drives
  <2>1. CASE sft[s].num_handles > 1
    <3>1. \A t \in Sfts : /\ sft'[t].start_cluster = sft[t].start_cluster
                          /\ sft'[t].drive = sft[t].drive
                          /\ InUse(t)' <=> InUse(t)
      BY <1>3, <2>1 DEF CloseSft, ReferencesInv, TypeOK
    <3>. QED BY <1>3, <2>1, <3>1
             DEF CloseSft, ReferencesInv, FilesKeepTheirSlots,
                 SearchesKeepTheirSlots
  <2>2. CASE ~(sft[s].num_handles > 1)
    <3> DEFINE i == sft[s].start_cluster
    <3>1. CloseSlots({i}) /\ UNCHANGED <<drives, block>> /\ InUse(s)
      BY <1>3, <2>2 DEF CloseSft
    <3>2. ~InUse(s)' /\ \A t \in Sfts \ {s} : sft'[t] = sft[t]
      BY <1>3, <2>2 DEF CloseSft, ReferencesInv, TypeOK
    <3>3. /\ \A t \in Sfts \ {s} : InUse(t) => sft[t].start_cluster # i
          /\ \A p \in Blocks : Searching(p) => block[p].dir_entry # i
      BY <3>1 DEF ReferencesInv, FilesKeepTheirSlots
    <3>4. \A j \in Slots : j # i => files'[j] = files[j]
      BY <3>1 DEF CloseSlots
    <3>5. FilesKeepTheirSlots'
      BY <3>1, <3>2, <3>3, <3>4 DEF ReferencesInv, FilesKeepTheirSlots
    <3>6. SearchesKeepTheirSlots'
      BY <3>1, <3>3, <3>4 DEF ReferencesInv, SearchesKeepTheirSlots
    <3>. QED BY <3>1, <3>5, <3>6
  <2>. QED BY <2>1, <2>2
<1>4. ASSUME NEW gone \in SUBSET Blocks, CloseAll(gone)
      PROVE  FilesKeepTheirSlots' /\ SearchesKeepTheirSlots' /\ UNCHANGED drives
  <2>1. /\ \A s \in Sfts : ~InUse(s)
        /\ \A p \in Blocks \ gone : ~Searching(p)
    BY <1>4 DEF CloseAll, Polite
  <2>2. \A p \in Blocks : ~Searching(p)'
    BY <1>4, <2>1 DEF CloseAll, ReferencesInv, TypeOK
  <2>3. \A s \in Sfts : ~InUse(s)'
    BY <1>4, <2>1 DEF CloseAll
  <2>. QED BY <1>4, <2>2, <2>3 DEF CloseAll, FilesKeepTheirSlots,
                                   SearchesKeepTheirSlots
<1>. QED BY <1>1, <1>2, <1>3, <1>4 DEF FileNext

\* A block that stops being a running search takes nothing from anybody.
LEMMA SearchStops ==
  ASSUME ReferencesInv, NEW p \in Blocks, UNCHANGED <<drives, files, sft>>,
         ~Searching(p)', \A q \in Blocks \ {p} : block'[q] = block[q]
  PROVE  FilesKeepTheirSlots' /\ SearchesKeepTheirSlots'
BY DEF ReferencesInv, FilesKeepTheirSlots, SearchesKeepTheirSlots, LiveSlots,
       Live, InUse, Searching

LEMMA FailedStops ==
  ASSUME TypeOK, NEW p \in Blocks, NEW d \in Drives, NEW i \in Index,
         Failed(p, d, i)
  PROVE  ~Searching(p)' /\ \A q \in Blocks \ {p} : block'[q] = block[q]
BY DEF TypeOK, Failed, Searching

LEMMA SearchNextReferences ==
  ASSUME ReferencesInv, Polite, SearchNext
  PROVE  FilesKeepTheirSlots' /\ SearchesKeepTheirSlots' /\ UNCHANGED drives
<1>. USE DEF LiveSlots, Live, InUse
<1>0. TypeOK
  BY DEF ReferencesInv
<1>1. ASSUME NEW p \in Blocks, FindNext(p)
      PROVE  FilesKeepTheirSlots' /\ SearchesKeepTheirSlots' /\ UNCHANGED drives
  <2> DEFINE i == block[p].dir_entry
             d == block[p].drive
  <2>1. i \in Index /\ d \in Drives /\ UNCHANGED <<drives, sft>> /\ Searching(p)
    BY <1>0, <1>1 DEF FindNext, MayFindNext, TypeOK, Polite
  <2>2. CASE UNCHANGED files /\ Failed(p, d, i)
    BY <1>0, <2>1, <2>2, FailedStops, SearchStops
  <2>3. CASE UNCHANGED files /\ Found(p, d, i)
    <3>1. block' = block
      BY <1>0, <2>1, <2>3 DEF Found, TypeOK, Searching
    <3>. QED BY <2>1, <2>3, <3>1
             DEF ReferencesInv, FilesKeepTheirSlots, SearchesKeepTheirSlots,
                 Searching
  <2>4. CASE /\ is_valid_openfile_index(i)
             /\ CloseSlots({i})
             /\ Failed(p, d, INVALID_OPENFILE)
    <3>1. /\ ~Searching(p)'
          /\ \A q \in Blocks \ {p} : block'[q] = block[q]
      BY <1>0, <2>1, <2>4, FailedStops, ZeroIsAnIndex
    <3>2. i \in Slots /\ i # INVALID_OPENFILE
      BY <2>1, <2>4, ValidIsSlot DEF is_valid_openfile_index
    <3>3. /\ \A t \in Sfts : InUse(t) => sft[t].start_cluster # i
          /\ \A q \in Blocks \ {p} : Searching(q) => block[q].dir_entry # i
      BY <2>1, <3>2 DEF ReferencesInv, FilesKeepTheirSlots,
                        SearchesKeepTheirSlots
    <3>4. \A j \in Slots : j # i => files'[j] = files[j]
      BY <2>4 DEF CloseSlots
    <3>5. FilesKeepTheirSlots'
      BY <2>1, <3>1, <3>3, <3>4
         DEF ReferencesInv, FilesKeepTheirSlots, Searching
    <3>6. SearchesKeepTheirSlots'
      BY <2>1, <3>1, <3>3, <3>4
         DEF ReferencesInv, SearchesKeepTheirSlots, Searching
    <3>. QED BY <2>1, <3>5, <3>6
  <2>. QED BY <1>1, <2>1, <2>2, <2>3, <2>4 DEF FindNext
<1>2. ASSUME NEW p \in Blocks, NEW q \in Blocks, CopyBlock(p, q)
      PROVE  FALSE
  BY <1>2 DEF CopyBlock, Polite
<1>3. ASSUME NEW p \in Blocks, NEW d \in Drives,
             FindLabel(p, d) \/ FindFirstUnopened(p, d)
      PROVE  FilesKeepTheirSlots' /\ SearchesKeepTheirSlots' /\ UNCHANGED drives
  <2>1. UNCHANGED <<drives, files, sft>>
    BY <1>3 DEF FindLabel, FindFirstUnopened
  <2>2. CASE block' = [block EXCEPT ![p] =
                         [drive |-> d, dir_entry |-> 0, phase |-> "label"]]
    <3>1. /\ ~Searching(p)'
          /\ \A q \in Blocks \ {p} : block'[q] = block[q]
      BY <1>0, <2>2 DEF TypeOK, Searching
    <3>. QED BY <2>1, <3>1, SearchStops
  <2>3. CASE Failed(p, d, 0)
    BY <1>0, <2>1, <2>3, ZeroIsAnIndex, FailedStops, SearchStops
  <2>. QED BY <1>3, <2>2, <2>3 DEF FindLabel, FindFirstUnopened
<1>4. ASSUME NEW p \in Blocks, NEW d \in Drives, FindFirst(p, d)
      PROVE  FilesKeepTheirSlots' /\ SearchesKeepTheirSlots' /\ UNCHANGED drives
  <2>. PICK i \in Slots, h \in Handles :
         /\ FirstFree(i)
         /\ files' = [files EXCEPT ![i] = [root |-> drives[d], handle |-> h]]
         /\ Found(p, d, i)
    BY <1>4 DEF FindFirst
  <2>1. UNCHANGED <<drives, sft>> /\ drives[d] # NIL
    BY <1>4 DEF FindFirst, MayFindFirst, Mounted
  <2>2. files[i].root = NIL
    BY DEF FirstFree
  <2>3. \A q \in Blocks : Searching(q) => block[q].dir_entry # i
    BY <2>2, InvalidIsNoSlot DEF ReferencesInv, SearchesKeepTheirSlots
  <2>4. \A t \in Sfts : InUse(t) => sft[t].start_cluster # i
    BY <2>2 DEF ReferencesInv, FilesKeepTheirSlots
  <2>5. /\ block'[p] = [drive |-> d, dir_entry |-> i, phase |-> "found"]
        /\ \A q \in Blocks \ {p} : block'[q] = block[q]
    BY <1>0 DEF Found, TypeOK
  <2>6. FilesKeepTheirSlots'
    BY <1>0, <2>1, <2>2, <2>4, <2>5
       DEF ReferencesInv, FilesKeepTheirSlots, TypeOK, Searching
  <2>7. SearchesKeepTheirSlots'
    BY <1>0, <2>1, <2>2, <2>3, <2>5
       DEF ReferencesInv, SearchesKeepTheirSlots, TypeOK, Searching
  <2>. QED BY <2>1, <2>6, <2>7
<1>5. ASSUME NEW p \in Blocks, NEW d \in Drives, FindFirstClosed(p, d)
      PROVE  FilesKeepTheirSlots' /\ SearchesKeepTheirSlots' /\ UNCHANGED drives
  <2>1. UNCHANGED <<drives, files, sft>>
    BY <1>5 DEF FindFirstClosed
  <2>2. CASE Found(p, d, INVALID_OPENFILE)
    <3>1. /\ block'[p].dir_entry = INVALID_OPENFILE
          /\ \A q \in Blocks \ {p} : block'[q] = block[q]
      BY <1>0, <2>2 DEF Found, TypeOK
    <3>. QED BY <2>1, <3>1, InvalidIsNoSlot
             DEF ReferencesInv, FilesKeepTheirSlots, SearchesKeepTheirSlots,
                 Searching
  <2>3. CASE Failed(p, d, INVALID_OPENFILE)
    BY <1>0, <2>1, <2>3, ZeroIsAnIndex, FailedStops, SearchStops
  <2>. QED BY <1>5, <2>2, <2>3 DEF FindFirstClosed
<1>. QED BY <1>1, <1>2, <1>3, <1>4, <1>5 DEF SearchNext

LEMMA FolderNextReferences ==
  ASSUME ReferencesInv, Polite, FolderNext
  PROVE  FilesKeepTheirSlots' /\ SearchesKeepTheirSlots' /\ OneDrivePerFolder'
<1>. USE DEF LiveSlots, Live, InUse, Searching
<1>0. TypeOK
  BY DEF ReferencesInv
<1>1. ASSUME NEW d \in Drives, Mkdir(d)
      PROVE  FilesKeepTheirSlots' /\ SearchesKeepTheirSlots' /\ OneDrivePerFolder'
  BY <1>1 DEF Mkdir, ReferencesInv, FilesKeepTheirSlots, SearchesKeepTheirSlots,
              OneDrivePerFolder
<1>2. ASSUME NEW d \in Drives, NEW r \in Roots, Mount(d, r)
      PROVE  FilesKeepTheirSlots' /\ SearchesKeepTheirSlots' /\ OneDrivePerFolder'
  <2>1. \A e \in Drives : drives[e] # NIL => drives'[e] = drives[e]
    BY <1>0, <1>2 DEF Mount, Mounted, TypeOK
  <2>2. UNCHANGED <<files, sft, block>>
    BY <1>2 DEF Mount
  <2>3. FilesKeepTheirSlots' /\ SearchesKeepTheirSlots'
    BY <1>0, <2>1, <2>2 DEF ReferencesInv, FilesKeepTheirSlots,
                            SearchesKeepTheirSlots, TypeOK
  <2>4. \A e \in Drives : drives[e] # r
    BY <1>2 DEF Mount, Polite
  <2>5. OneDrivePerFolder'
    BY <1>0, <1>2, <2>4 DEF Mount, ReferencesInv, OneDrivePerFolder, TypeOK
  <2>. QED BY <2>3, <2>5
<1>3. ASSUME NEW d \in Drives, Unmount(d)
      PROVE  FilesKeepTheirSlots' /\ SearchesKeepTheirSlots' /\ OneDrivePerFolder'
  <2>1. /\ \A s \in Sfts : InUse(s) => sft[s].drive # d
        /\ \A p \in Blocks : Searching(p) => block[p].drive # d
        /\ drives[d] # NIL
        /\ UNCHANGED <<sft, block>>
    BY <1>3 DEF Unmount, Polite, Mounted
  <2>2. \A e \in Drives \ {d} : drives'[e] = drives[e]
    BY <1>0, <1>3 DEF Unmount, TypeOK
  <2>3. \A i \in Slots : files[i].root # drives[d] => files'[i] = files[i]
    BY <1>3 DEF Unmount, CloseSlots
  <2>4. \A e \in Drives \ {d} : drives[e] # drives[d]
    BY <2>1 DEF ReferencesInv, OneDrivePerFolder
  <2>5. FilesKeepTheirSlots'
    BY <1>0, <2>1, <2>2, <2>3, <2>4
       DEF ReferencesInv, FilesKeepTheirSlots, TypeOK
  <2>6. SearchesKeepTheirSlots'
    BY <1>0, <2>1, <2>2, <2>3, <2>4
       DEF ReferencesInv, SearchesKeepTheirSlots, TypeOK
  <2>7. OneDrivePerFolder'
    BY <1>0, <1>3 DEF Unmount, ReferencesInv, OneDrivePerFolder, TypeOK
  <2>. QED BY <2>5, <2>6, <2>7
<1>. QED BY <1>1, <1>2, <1>3 DEF FolderNext

LEMMA ReferencesStep ==
  ASSUME ReferencesInv, Polite, [Next]_vars
  PROVE  ReferencesInv'
<1>1. TypeOK'
  BY NextType DEF ReferencesInv
<1>2. UNCHANGED drives => OneDrivePerFolder'
  BY DEF ReferencesInv, OneDrivePerFolder
<1>3. CASE UNCHANGED vars
  BY <1>1, <1>2, <1>3
     DEF vars, ReferencesInv, FilesKeepTheirSlots, SearchesKeepTheirSlots,
         LiveSlots, Live, InUse, Searching
<1>. QED
  BY <1>1, <1>2, <1>3, FileNextReferences, SearchNextReferences,
     FolderNextReferences DEF Next, ReferencesInv

LEMMA PoliteReferences == Polite /\ Spec => []ReferencesInv
<1> SUFFICES ASSUME Polite PROVE Spec => []ReferencesInv
  OBVIOUS
<1>1. Init => ReferencesInv
  BY InitType DEF Init, ReferencesInv, OneDrivePerFolder, FilesKeepTheirSlots,
                  SearchesKeepTheirSlots, InUse, Searching
<1>2. ReferencesInv /\ [Next]_vars => ReferencesInv'
  BY ReferencesStep
<1>. QED BY <1>1, <1>2, PTL DEF Spec

\* If programs finish or abandon their searches and never continue one that
\* has failed, found a label or been copied, never leave files behind them for
\* others to find at exit, and mount each folder once, then every open SFT
\* refers to a live slot of its own drive that nothing else refers to
\* (set_sft_openfile_index, handle_close, close_openfiles).
THEOREM PoliteFilesKeepTheirSlots == Polite /\ Spec => []FilesKeepTheirSlots
BY PoliteReferences, PTL DEF ReferencesInv

\* Under the same habits a running search has its directory to itself
\* (set_sdb_openfile_index, handle_find_first, handle_find_next).
THEOREM PoliteSearchesKeepTheirSlots ==
  Polite /\ Spec => []SearchesKeepTheirSlots
BY PoliteReferences, PTL DEF ReferencesInv

-----------------------------------------------------------------------------
(* Nothing is lost: handles for a host that closes what it is told to, and *)
(* slots for programs that follow their searches to the end.               *)

LEMMA HandlesStep ==
  ASSUME "close" \notin HostFaults, TypeOK, SlotsHoldDistinctHandles,
         NoLostHandles, [Next]_vars
  PROVE  NoLostHandles'
<1>0. ASSUME NEW hs PROVE Refused(hs) = {{}}
  BY DEF Refused
<1>1. CASE OpensSlot
  <2>. PICK i \in Slots, h \in Handles, r \in Roots :
         /\ FirstFree(i)
         /\ HostOpen(r, h)
         /\ files' = [files EXCEPT ![i] = [root |-> r, handle |-> h]]
    BY <1>1 DEF OpensSlot
  <2> SUFFICES ASSUME NEW g \in Handles, host'[g] # NIL
               PROVE  \E j \in Slots : files'[j].handle = g
    BY DEF NoLostHandles
  <2>1. CASE g = h
    <3>1. files'[i].handle = h
      BY DEF TypeOK
    <3>. QED BY <2>1, <3>1
  <2>2. CASE g # h
    <3>1. PICK j \in Slots : files[j].handle = g
      BY <2>2 DEF NoLostHandles, HostOpen, TypeOK
    <3>2. files[i].handle = NIL /\ g # NIL
      BY RedirectorAssumption
         DEF FirstFree, SlotsHoldDistinctHandles, LiveSlots
    <3>. QED BY <3>1, <3>2 DEF TypeOK
  <2>. QED BY <2>1, <2>2
<1>2. CASE ClosesSlots
  <2>. PICK S \in SUBSET Slots : CloseSlots(S)
    BY <1>2 DEF ClosesSlots
  <2> SUFFICES ASSUME NEW g \in Handles, host'[g] # NIL
               PROVE  \E j \in Slots : files'[j].handle = g
    BY DEF NoLostHandles
  <2>1. host[g] # NIL /\ \A i \in S : files[i].handle # g
    BY <1>0 DEF CloseSlots
  <2>2. PICK j \in Slots : files[j].handle = g
    BY <2>1 DEF NoLostHandles
  <2>. QED BY <2>1, <2>2 DEF CloseSlots
<1>3. CASE OpensAndCloses
  <2>1. host' = host /\ files' = files
    BY <1>0, <1>3 DEF OpensAndCloses, HostOpenClose
  <2>. QED BY <2>1 DEF NoLostHandles
<1>4. CASE UNCHANGED <<files, host>>
  BY <1>4 DEF NoLostHandles
<1>. QED BY <1>1, <1>2, <1>3, <1>4, StepEffects

\* If the host closes what it is told to close, every handle that it has open
\* is in a slot: no handler loses one on any path (handle_mkdir, open_search_dir
\* and handle_find_first open handles that they must close themselves).
THEOREM HandlesAreNotLost ==
  ASSUME "close" \notin HostFaults
  PROVE  Spec => []NoLostHandles
<1>1. Init => NoLostHandles
  BY DEF Init, NoLostHandles
<1>2. TypeOK /\ SlotsHoldDistinctHandles /\ NoLostHandles /\ [Next]_vars
        => NoLostHandles'
  BY HandlesStep
<1>. QED BY <1>1, <1>2, TypeCorrect, SlotsAreSound, PTL DEF Spec

\* A running search has slot i.
Searches(p, i) == Searching(p) /\ block[p].dir_entry = i

LEMMA FileNextUsers ==
  ASSUME Habits = {}, ReferencesInv, NoAbandonedSlots, FileNext
  PROVE  NoAbandonedSlots'
<1>. USE DEF LiveSlots, Live, InUse, Searching
<1>0. TypeOK
  BY DEF ReferencesInv
<1>1. ASSUME NEW s \in Sfts, NEW d \in Drives, Open(s, d)
      PROVE  NoAbandonedSlots'
  <2>. PICK i \in Slots, h \in Handles :
         /\ files' = [files EXCEPT ![i] = [root |-> drives[d], handle |-> h]]
         /\ sft' = [sft EXCEPT ![s] = [num_handles |-> 1, start_cluster |-> i,
                                       drive |-> d]]
    BY <1>1 DEF Open
  <2>1. /\ sft'[s].num_handles = 1 /\ sft'[s].start_cluster = i
        /\ \A t \in Sfts \ {s} : sft'[t] = sft[t]
        /\ \A j \in Slots \ {i} : files'[j] = files[j]
        /\ block' = block /\ ~InUse(s)
    BY <1>0, <1>1 DEF Open, TypeOK
  <2>. QED BY <2>1 DEF NoAbandonedSlots
<1>2. ASSUME NEW s \in Sfts, Dup(s)
      PROVE  NoAbandonedSlots'
  <2>1. \A t \in Sfts : /\ sft'[t].start_cluster = sft[t].start_cluster
                        /\ InUse(t)' <=> InUse(t)
    BY <1>0, <1>2 DEF Dup, TypeOK
  <2>. QED BY <1>2, <2>1 DEF Dup, NoAbandonedSlots
<1>3. ASSUME NEW s \in Sfts, CloseSft(s)
      PROVE  NoAbandonedSlots'
  <2>1. CASE sft[s].num_handles > 1
    <3>1. \A t \in Sfts : /\ sft'[t].start_cluster = sft[t].start_cluster
                          /\ InUse(t)' <=> InUse(t)
      BY <1>0, <1>3, <2>1 DEF CloseSft, TypeOK
    <3>. QED BY <1>3, <2>1, <3>1 DEF CloseSft, NoAbandonedSlots
  <2>2. CASE ~(sft[s].num_handles > 1)
    <3>1. /\ \A t \in Sfts \ {s} : sft'[t] = sft[t]
          /\ block' = block
          /\ CloseSlots({sft[s].start_cluster})
      BY <1>0, <1>3, <2>2 DEF CloseSft, TypeOK
    <3>2. \A j \in Slots : Live(j)' => Live(j) /\ j # sft[s].start_cluster
      BY <3>1 DEF CloseSlots, Free
    <3>. QED BY <3>1, <3>2 DEF NoAbandonedSlots
  <2>. QED BY <2>1, <2>2
<1>4. ASSUME NEW gone \in SUBSET Blocks, CloseAll(gone)
      PROVE  NoAbandonedSlots'
  <2>1. \A j \in Slots : ~Live(j)'
    BY <1>4 DEF CloseAll, CloseSlots, Free
  <2>. QED BY <2>1 DEF NoAbandonedSlots
<1>. QED BY <1>1, <1>2, <1>3, <1>4 DEF FileNext

LEMMA SearchNextUsers ==
  ASSUME Habits = {}, ReferencesInv, NoAbandonedSlots, SearchNext
  PROVE  NoAbandonedSlots'
<1>. USE DEF LiveSlots, Live, InUse, Searching
<1>0. TypeOK
  BY DEF ReferencesInv
\* A block that takes no slot with it may become anything.
<1>1. ASSUME NEW p \in Blocks, UNCHANGED <<files, sft>>,
             \A i \in LiveSlots : ~Searches(p, i),
             \A q \in Blocks \ {p} : block'[q] = block[q]
      PROVE  NoAbandonedSlots'
  BY <1>1 DEF NoAbandonedSlots, Searches
<1>2. ASSUME NEW p \in Blocks, NEW d \in Drives, NEW i \in Index,
             Found(p, d, i) \/ Failed(p, d, i)
      PROVE  \A q \in Blocks \ {p} : block'[q] = block[q]
  BY <1>0, <1>2 DEF Found, Failed, TypeOK
<1>3. ASSUME NEW p \in Blocks, NEW d \in Drives, MayFindFirst(p, d)
      PROVE  \A i \in LiveSlots : ~Searches(p, i)
  BY <1>3 DEF MayFindFirst, Searches
<1>4. ASSUME NEW p \in Blocks, FindNext(p)
      PROVE  NoAbandonedSlots'
  <2> DEFINE i == block[p].dir_entry
             d == block[p].drive
  <2>1. /\ i \in Index /\ d \in Drives /\ UNCHANGED <<drives, sft>>
        /\ Searching(p)
    BY <1>0, <1>4 DEF FindNext, MayFindNext, TypeOK
  <2>2. CASE /\ ~is_valid_openfile_index(i) /\ UNCHANGED files
             /\ Failed(p, d, i)
    <3>1. \A j \in LiveSlots : ~Searches(p, j)
      BY <2>2, RedirectorAssumption, InvalidIsNoSlot
      DEF Searches, is_valid_openfile_index, Slots
    <3>. QED BY <1>1, <1>2, <2>1, <2>2, <3>1
  <2>3. CASE UNCHANGED files /\ Found(p, d, i)
    <3>1. block' = block
      BY <1>0, <2>1, <2>3 DEF Found, TypeOK
    <3>. QED BY <2>1, <2>3, <3>1 DEF NoAbandonedSlots
  <2>4. CASE CloseSlots({i}) /\ Failed(p, d, INVALID_OPENFILE)
    <3>1. \A q \in Blocks \ {p} : block'[q] = block[q]
      BY <1>2, <2>1, <2>4, ZeroIsAnIndex
    <3>2. \A j \in Slots : Live(j)' => Live(j) /\ j # i
      BY <2>4 DEF CloseSlots, Free
    <3>. QED BY <2>1, <3>1, <3>2 DEF NoAbandonedSlots
  <2>. QED BY <1>4, <2>1, <2>2, <2>3, <2>4 DEF FindNext
<1>5. ASSUME NEW p \in Blocks, NEW q \in Blocks, CopyBlock(p, q)
      PROVE  FALSE
  BY <1>5 DEF CopyBlock
<1>6. ASSUME NEW p \in Blocks, NEW d \in Drives,
             FindLabel(p, d) \/ FindFirstUnopened(p, d) \/ FindFirstClosed(p, d)
      PROVE  NoAbandonedSlots'
  <2>1. MayFindFirst(p, d) /\ UNCHANGED <<files, sft>>
    BY <1>6 DEF FindLabel, FindFirstUnopened, FindFirstClosed
  <2>2. \A q \in Blocks \ {p} : block'[q] = block[q]
    <3>1. CASE block' = [block EXCEPT ![p] =
                           [drive |-> d, dir_entry |-> 0, phase |-> "label"]]
      BY <1>0, <3>1 DEF TypeOK
    <3>. QED BY <1>2, <1>6, <3>1, ZeroIsAnIndex
             DEF FindLabel, FindFirstUnopened, FindFirstClosed
  <2>. QED BY <1>1, <1>3, <2>1, <2>2
<1>7. ASSUME NEW p \in Blocks, NEW d \in Drives, FindFirst(p, d)
      PROVE  NoAbandonedSlots'
  <2>. PICK i \in Slots, h \in Handles :
         /\ files' = [files EXCEPT ![i] = [root |-> drives[d], handle |-> h]]
         /\ Found(p, d, i)
    BY <1>7 DEF FindFirst
  <2>1. /\ block'[p] = [drive |-> d, dir_entry |-> i, phase |-> "found"]
        /\ \A q \in Blocks \ {p} : block'[q] = block[q]
    BY <1>0 DEF Found, TypeOK
  <2>2. /\ \A j \in Slots \ {i} : files'[j] = files[j]
        /\ sft' = sft
    BY <1>0, <1>7 DEF FindFirst, TypeOK
  <2>3. ~Searching(p)
    BY <1>7 DEF FindFirst, MayFindFirst
  <2>. QED BY <2>1, <2>2, <2>3 DEF NoAbandonedSlots
<1>. QED BY <1>4, <1>5, <1>6, <1>7 DEF SearchNext

LEMMA FolderNextUsers ==
  ASSUME NoAbandonedSlots, FolderNext
  PROVE  NoAbandonedSlots'
<1>1. UNCHANGED <<sft, block>> /\ \A i \in Slots : Live(i)' => Live(i)
  BY DEF FolderNext, Mkdir, Mount, Unmount, CloseSlots, Live, Free
<1>. QED BY <1>1 DEF NoAbandonedSlots, LiveSlots, InUse, Searching

\* Programs that follow each search to its end, and do nothing else of what
\* Habits lists, leave no slot behind that nobody uses (handle_find_next closes
\* the directory with the last entry), even if the host refuses to close.
THEOREM SlotsAreNotAbandoned ==
  ASSUME Habits = {}
  PROVE  Spec => []NoAbandonedSlots
<1>0. Polite
  BY DEF Polite
<1>1. Init => NoAbandonedSlots
  BY DEF Init, NoAbandonedSlots, LiveSlots, Live, Free
<1>2. ReferencesInv /\ NoAbandonedSlots /\ [Next]_vars => NoAbandonedSlots'
  <2>1. NoAbandonedSlots /\ UNCHANGED vars => NoAbandonedSlots'
    BY DEF vars, NoAbandonedSlots, LiveSlots, Live, InUse, Searching
  <2>. QED BY <2>1, FileNextUsers, SearchNextUsers, FolderNextUsers DEF Next
<1>3. Spec => []ReferencesInv
  BY <1>0, PoliteReferences, PTL
<1>. QED BY <1>1, <1>2, <1>3, PTL DEF Spec
=============================================================================
