# Models of VBADOS

VBADOS is a pair of DOS resident programs for VirtualBox guests. VBSF mounts
host shared folders as DOS drives; VBMOUSE is an int 33h mouse driver that can
take positions from the host and let the host show the cursor. The TLA+ modules
here model the parts of both that keep state, TLC checks them on small
instances, and TLAPS proves most of their invariants for any size.
Line numbers in comments and below are those of the source next to this
directory.

## The system

DOS runs one program at a time. The resident parts are called through
interrupts and run to their end; the transient programs (`vbsf`, `vbmouse`)
find the resident data and change it directly. So nearly all of what is hard
here is not parallelism inside the code, but references that others keep into
its state, caches that others make stale, calls in an order that nobody
expected, and one step of several that fails.

| Part | Source | State | Operations |
|---|---|---|---|
| Redirector | `sftsr.c` | table of open host handles, mounted drives | int 2Fh function 11h: open, close, read, write, commit, seek, find first/next, mkdir, rmdir, chdir, rename, delete, attributes, disk space, close all |
| VBSF program | `sfmain.c` | DOS drive table (CDS), drives of the resident part, mappings and client at the host, locked buffer | install, uninstall, mount, unmount, rescan, list |
| Short names | `lfn.h` | none (the host directory) | mangle a name, find the real name of a path |
| Character sets | `unicode.h`, `nls.h` | code page table | UTF-8 and UTF-16 from and to the local code page |
| Timestamps | `unixtime.h` | none | Unix to DOS time and back |
| Shared folder calls | `vboxshfl.h` | none | one HGCM call each |
| Host communication | `vboxhgcm.h`, `vbox.c`, `vbox.h`, `int1Apci.h`, `int4Bvds.h` | one request buffer, locked for DMA | connect, call and wait, mouse and pointer requests |
| Relocation | `dostsr.h`, `int21dos.h` | memory blocks, PSP | copy the program to upper memory, cancel, finish |
| Mouse driver | `mousetsr.c` | packet under way, position, counters, cursor, settings | PS/2 callback, int 33h, Windows callbacks |
| VMware backdoor | `vmware.h` | queue of the host | status, data |
| VBMOUSE program | `mousmain.c` | the resident data | install, uninstall, wheel, wheelkey, integ, hostcur, reset |
| Windows driver | `mousew16.c` | last position, hooked handler | enable, disable, event callback |
| Messages | `kitten.c`, `dlog.h`, `int16kbd.h` | none of interest | output |

How they interact: `sfmain.c` and `mousmain.c` write the resident data that
`sftsr.c` and `mousetsr.c` use; both resident parts talk to the host through
one buffer each; DOS keeps slot numbers of the redirector in its file table
(SFT) and programs keep them in search blocks (SDB); the Windows driver calls
int 33h; event handlers of programs are called from inside the mouse interrupt
and call int 33h back.

What makes each part correct:

* Redirector: whoever holds a slot number reaches the file it was given for,
  and no handle is lost. Sizes, positions and dates that DOS copies into an SFT
  agree with the file.
* VBSF program: the three tables of drives agree after every command, whatever
  the host refuses; drives of others are left alone; nothing stays behind.
* Mouse packets: bytes are grouped as the mouse sent them, again so soon after
  a byte was lost.
* Cursor: the screen gets back what was below the cursor, and there is one
  cursor when there should be one.
* Host communication: a request leaves with a valid address and as its sender
  built it, the buffer is locked once while it is in use, and the host knows
  whether it may send absolute positions.
* Movement: the position is what the mouse moved by, rounded once, and Windows
  is told of the same movement at the same place.
* Becoming resident: every interrupt vector leads through handlers that are in
  memory, and nothing is freed that is another's or left that is nobody's.
* Short names, character sets, timestamps: what a round trip yields, and that
  buffers are not overrun.

`PROJECT.json` lists the places where this can go wrong ("hazards"), each with
the properties that watch it.

## Modules

| Module | Models | Extends |
|---|---|---|
| `Redirector` | slots, SFTs and search blocks of `sftsr.c` | |
| `RedirectorProofs` | proofs about it | `Redirector` |
| `DosFile` | what DOS promises of open files (abstract) | |
| `SftIo` | read, write, seek, commit, close of `sftsr.c` | instance of `DosFile` |
| `SftIoProofs` | proofs, refinement included | `SftIo` |
| `VbsfMounts` | commands of `sfmain.c` | |
| `FoldersProofs` | proofs about it, `HostPaths`, `DosTime` and `LongNames` | those four |
| `MousePackets` | packets of `mousetsr.c`, `wheel` of `mousmain.c` | |
| `MousePacketsProofs` | proofs about it | `MousePackets` |
| `MouseCursor` | cursor of `mousetsr.c`, `hostcur` and `integ` of `mousmain.c` | |
| `MouseCursorProofs` | proofs about it | `MouseCursor` |
| `VbComm` | request buffer of VBMOUSE (`vbox.c`, `vbox.h`, `int4Bvds.h`), `install`, `integ`, `uninstall` of `mousmain.c` | |
| `VmwareMouse` | the queue of the VMware backdoor: `vmware.h`, `mousetsr.c`, `integ` of `mousmain.c` | |
| `HostProofs` | proofs about both | `VbComm`, `VmwareMouse` |
| `MCVbComm` | composes both for one run | `VbComm`, `VmwareMouse` |
| `MouseReports` | button counters, wheel and event handler of `mousetsr.c`, `wheel` and `wheelkey` of `mousmain.c` | |
| `MouseMotion` | position, mickeys, window and speed of `mousetsr.c`, as operators | |
| `WinMouse` | `mousew16.c` and other programs as clients of that | `MouseMotion` |
| `MouseEventsProofs` | proofs about `MouseReports` and `WinMouse` | those two |
| `Residents` | install and uninstall of both programs: `dostsr.h`, `int21dos.h` | |
| `ResidentsProofs` | proofs about it | `Residents` |
| `LongNames` | DOS names of host files: `lfn.h`, searches, create, delete, rename of `sftsr.c` | |
| `HostPaths` | the same walk in a buffer: `lfn.h`, `unicode.h` | |
| `DosTime` | `unixtime.h` | |
| `MCTranslations` | composes the last three for one run | `LongNames` by `MCLongNames`, `HostPaths`, `DosTime` |
| `MC...` | constants and symmetry for TLC | the module named |

The definitions whose names end in `Mutant` are plausible bugs: each is a
variant of the definition after it, used to see that a property notices.

### Redirector

`files` is `data.files`, `drives` the folder on each mounted drive, `host` the
handles the host has open. `sft` and `block` belong to DOS and to programs:
they hold slot numbers (`start_cluster`, `dir_entry`) that nothing tells the
redirector about. One handler of `sftsr.c` is one action, since DOS calls it
with nothing else running; an error return that changes nothing is a stuttering
step. The host may refuse to close a handle or to unmap a folder (`HostFaults`).

What programs may do is a set of `Habits`. Some of them make the code fail, and
the properties that depend on them are checked without them:

| Habit | Consequence |
|---|---|
| `abandon` a search | the slot stays taken until the program ends |
| `past_end`, `copied_block` | FindNext with the slot number of somebody else |
| `label_next` | slot 0 is taken for the slot of the search |
| `nested_exit` | ending one program closes the files of all |
| `busy_unmount` | files and searches of the drive hold stale numbers |
| `shared_folder` | unmounting one drive closes the files of the other |

Properties for all habits: `SlotsHoldDistinctHandles`, and
`SlotsAreOnMountedFolders` and `SlotsAreNeverOverwritten`, which no run repeats
since they are proved. For polite programs: `FilesKeepTheirSlots`, `SearchesKeepTheirSlots`, `NoLostHandles`,
`NoAbandonedSlots`.

### SftIo and DosFile

An SFT caches size and date of its file. DOS uses the cached size when it seeks
from the end, except in sharing modes that let others write, and then it asks
the redirector. `SftIo` has the caches, the 32-bit fields, the pending date
(`time_set`) and refused calls; `DosFile` has neither caches nor a limit. The
refinement `KeepsPromise` maps the host's files and the SFTs to `DosFile`.
`CachedSizesAreTrue` is what makes it hold: an SFT that denies others to write
has the size of its file.

Outside the promise, as habits: files or positions past the 32-bit limit
(`past_limit`; `handle_create_open_ex` lets files of more than 4 GiB be opened,
though `is_valid_dos_file` exists) and sharing modes that tell the host nothing
(`compat_sharing`). It is assumed that the host honours the sharing modes it is
told, and that a call that succeeds reads or writes at least one byte.

### VbsfMounts

A command is a sequence of steps, one for each folder or drive, so that each
refusal of the host meets each intermediate state. `cds` is the table of DOS,
`roots` that of the resident part, `mapped`, `client` and `locked` are at the
host and the DMA services. The host may list any subset of the folders marked
for automounting, because its user can change them between two commands.

Fairness: `WF_vars(Continue)`. A command goes on by itself because DOS runs
nothing else meanwhile and the host answers every request (`vboxhgcm.h:28-35`
polls until it does). What the user and other programs do has no fairness.

Two things the model shows and the properties state as they are: an uninstall
ignores the error of `unmount_all`, so a drive may stay in DOS that nobody
serves (`OrphansComeFromErrors`, proved only); and lock, client and folders may
outlive the driver. A configuration that fails after the buffer was locked never
releases it; an uninstall goes on when the host refuses to disconnect the client
(`sfmain.c:601`), in which case the folders that it did not unmap stay too, or when
VDS does not unlock the buffer (`vbox.c:113-119`). All of these refusals are in the run
and in the theorem: `refused` remembers what the last command was refused, and
`NothingStays` says of each thing that stays which refusal it takes.

### MousePackets

The mouse sends packets of 3 or 4 bytes, the driver counts bytes and starts
again when `MAX_PS2_PACKET_DELAY` ticks have passed since a packet began. A byte
is its place in its packet and the parity of the packet. A byte may be lost at
any time; `seen` is history: it records if framing can be trusted, because
nothing was lost, late or mistaken since the mouse last paused between packets.
`KeepsStep` and `PacketsAreWhole` say that it then is right.

Kept out of the run, and of the proofs by `NoWrap` and `~SavesInHandler`: the
clock passes 65535 (the sum in `mousetsr.c:834` wraps, so that a
packet begun in the last two ticks of the 16-bit clock, once an hour, is
dropped); an event handler that saves the state of the driver from inside a
packet (`SavesInHandler`, which breaks `ByteHasAPlace`, proved without it: the count that is
restored is that of a full packet). Not in the model: a BIOS that interrupts the handler with the
next byte; a `ps2m_init` that fails in both modes.

### MouseCursor

All of the state is one record, because handlers call one another in sequence;
`Refresh`, `Redraw`, `Erase`, `Draw`, `HideCursor`, `ResetSettings`,
`ResetHardware`, `ResetState` are the functions of that name in the code and are
composed in its order. A position stands for what the cursor covers there. The
contents saved from below the cursor are named by the place they are still the
contents of, or `OLD`. `spoilt` is the set of places that do not show what
programs put there, so the cursor itself is one such place.

Habits that break the properties and are kept out of the passing run: `toggle`,
`overwrite` (write over the cursor), `blind` (change the mode with the cursor
shown or show it before the driver is told), `integ` (run `vbmouse integ` while
the cursor is shown). With integration off in the host and a video mode that the
driver does not know, hiding the cursor does not retract the pointer that
showing it asked for; `PointerIsKnown` therefore speaks of pointers that can be
seen. Requests to the host are taken to succeed. Drawing for VMware, which shows no
pointer of its own, and saving and restoring the driver state are left out of this module.

### VbComm

The one place with real interleaving. The mouse interrupt and int 33h run with
interrupts off, so each is one step (`MouseEvent`, `Reset`, `Pointer`).
VBMOUSE.EXE runs with interrupts on and works on the buffer of the resident
part, so `set_virtualbox_integration`, `unconfigure_driver` and
`uninstall_driver` are cut into one step for each thing they change: `task` is
the command, `at` the next step. `vbavail` is the flag of that name, `dds` the
descriptor in `data.vb` (is the physical address known, did VDS give it), `buf`
the request in the buffer, `locks` and `absolute` what VDS and the host
remember, `ps2` what the BIOS was told. `seen` is history and names what went
wrong.

`integ on` clears the flag before it touches the buffer, `integ off` clears it
after it released the buffer. So `integ off` and `uninstall` have two windows,
from `mousmain.c:124` to `mousmain.c:129`: a mouse event may replace the request
that is about to be sent, and then the host goes on sending absolute positions
only; or it may send a request when the buffer is unlocked or its address is 0.
`OnlyWhileDisabling` and `AddressIsGood` say that this is the only place,
and `HostIsTold` and `LocksArePaired` what holds when these things did not
happen. Enabling twice, or a report refused after the lock, loses a lock
(`again`, `fault`). `Popups` lets a program that some interrupt wakes call int
33h in the middle of a command.

Left out: the host refuses nothing but the report, and VDS unlocks what it
locked.

### VmwareMouse

With VMware and qemu the movements wait in a queue of 32-bit words behind a port,
and the PS/2 packet only tells that there is something. `backdoor` is the host's
part, `signals` the packets under way, `vmwavail` the flag of that name, `step` and
`found` the place of VBMOUSE.EXE in `set_vmware_integration` and in
`vmware_abspointer_data_clear`, and `kept` the flag in a state that a program
saved. Interrupt and int 33h are single steps as in `VbComm`; VBMOUSE.EXE asks for
the amount of data in one step and reads in another. Enabling leaves a word in the
queue (`VERSION`), so that movements are out of step until it was read. What a
movement says is left out; its four words are told apart, to see that they are
read together.

`behind` names what may leave the pointer behind the mouse until the next reset,
because the driver takes one movement from the queue per packet: a packet that was
lost or merged, one that came while the program was enabling, or while the driver
did not use the backdoor. `restored` marks that INT33_LOAD_MOUSE_STATUS brought the
flag back, which it does whatever became of the host. `Woken` lets a program call
int 33h in the middle of VBMOUSE.EXE, which the properties leave out.

Assumed of the host: it puts whole movements into the queue and none when it is
full, answers 0 when it is off, and may keep or drop its queue then. It may send
movements from when it is enabled; a host that waits for the request of absolute
positions, which the next reset makes, has fewer behaviours. Not a matter of this
module: the wheel comes as 8 bits without sign (`mousetsr.c:774`), so with
`wheelkey` one step of it upwards types 255 keys downwards.

### LongNames

The files of a folder are host paths, sequences of host names; the user of the
host changes them too. `FindRealName` and `HostPath` are the walk of `lfn.h`,
`Short` and `Shown` what searches show, `Listed` what the host answers to the
mask that `fix_wildcards` makes. What mangling makes of a name is a constant,
and the instance contains what hashes make possible: two long names with the
same mangled name, a file whose own name is that mangled name, a tilde name that
is mangled to it as well, tilde names in either place. The properties name the
case in which a name leads elsewhere: several entries that look like it
(`Unambiguous`). For a search it is enough that what the name leads to has no
tilde, since only a mask with one is cut and matches more than one entry.

Names are at most `MaxDepth` deep: the host refuses what would be deeper, also
when a directory moves with all that is in it.

`Overwritten` is the rename that destroys its new path: `handle_rename` has the
second path put together in the very buffer that the walk uses for directory
entries. What the host then makes of it is anybody's guess, and such a rename is
not taken. `TildeDirs` is off in the run: in a directory whose host name has a
tilde, `fix_wildcards` cuts the path of the directory, and a search lists its
parent. Out of the model are host short names (`-s`) and characters; for those
and for the buffers see `HostPaths`.

### HostPaths

`get_true_host_name_n` once more, with names as sequences of characters and a
buffer of `buflen` bytes. A character is a model value that becomes one to three
bytes; a pass of the loop, which ends at a component with a tilde, is a step.
`src` is the memory of the path, which is DOS's own and in which separators are
overwritten and put back; `dst` is the host path; `reached` is how far bytes were
written. `PathsAreWhole` compares the result with `HostOf`, which goes component
by component, for all paths that have room (`RoomEnough`). Two assumptions say what
the code around it sees to: a character becomes at least one byte, and who has only
the directory translated cuts at a separator (`CountsAssumption`, `sftsr.c:320`).

What the model shows of the others: `local_to_utf8` takes as many characters as
there is room for bytes, so a plain part that is too long is cut to the buffer, with
its 0 behind it, and the function leaves early (`lfn.h:391`); a part of which
a character does not fit, which takes one of several bytes, is left out without an
error, nor with a 0 behind what was written of it. Either way a path that is too
long may name another file. A lookup fails
as soon as the host lists an entry that is too long before the one that is meant;
when a lookup fails, the path of DOS stays cut at the separators; and behind a
buffer that is exactly full one 0 is written. `BuffersHold` says that it is no
more than that.

### DosTime

Host time in nanoseconds becomes a count of two-second units in 32 bits, then
the bit fields of DOS, and back. A count is a record of days and units, which
keeps its numbers within TLC's. The specification `Calendar` walks through the
years day by day as the reference; `ToDos` and `FromDos` are compared with it at
each day, several times of day and zones. The widths are kept: `hours * 3600` is
cut to 16 bits before it is halved, the sum to 32 bits with a sign, and the first
division overflows from 7 February 2106 on (`Faults`). Local times before 1970
come out with the year of an unsigned count, and a day of 0, which a program may
pass, counts as 65535 days.

### MouseReports

`counts` and `wheel` are the counters of the driver, `mask` the events of the
handler. `due` is what the counters should be according to the descriptions in
`int33.h`, `told` what the handler was last called with. A packet is one step,
with all of its buttons and its wheel, as `handle_mouse_event` treats it. The
keys of `wheelkey` are both set or both clear, which is all that the program
can do.

Functions 5 and 6 load BH with the movement of the wheel before they read the
button number in BX. So two habits are kept out of the passing run: asking for
the wheel by these functions (`wheel_query`), and asking for a button while
movement of the wheel is unreported (`late_query`): they clear the counter of the
last button instead of that of the one asked for. Positions are in `MouseMotion`;
saving and restoring the driver state is left out.

### MouseMotion and WinMouse

`MouseMotion` is a library: each operator maps `data`, the resident data, to what
a function of `mousetsr.c` makes of it. One axis is kept, because the other is
treated alike and the two meet only in the sum of squares for the double-speed
test (`across`). Words wrap around at `Word`: counts, squares and the position,
which does so before it is bounded to the window (`Step`). `Quotient` and
`Remainder` are those of IDIV, which rounds towards 0.

`WinMouse` has the steps. A packet is relative (`Move`) or absolute (`Point`).
`Enable` of `mousew16.c` is cut at each of its calls of int 33h that change
something, since packets come between them; the windows of both axes are one call in
a model of one axis. While the driver is disabled any program calls int 33h (`Other`)
with any words: a window may be reversed or have negative ends, and a speed may be
negative or 0. The division of a movement by a speed of 0, or one whose quotient is
not a word, raises interrupt 0 (`Fault`), and the model ends there (`fault`), since
what the handler of DOS or of the program does then is not in the code.
History: `trail` is the position as a rational number that nobody rounds, `quick`
the sum of squares without wrap-around, `windows` what Windows wants to be called,
`heard` what it was told and why that may be off. The properties state what holds
and name what does not:

* The pointer of Windows jumps at the first movement after a second enable,
  because `prev_delta_x` survives while VBMOUSE starts counting from 0, after
  movement that came while the driver was being enabled, and when absolute
  events, for which VBMOUSE makes up mickeys, are mixed with relative ones
  (`heard.cause`).
* A new video mode resets the window that `Enable` has set, so absolute positions
  are scaled wrongly until the driver is enabled again (`windows.steady`).
* A lower speed turns the remainder, kept in units of the old one, into whole
  pixels at the next movement (`trail.coarse`).
* In a window that is nearly as large as a word, a movement over an end of
  the word comes out at the other end (`trail.wide`). `PointerFollows` says that while
  Windows uses the driver, from the reset in `Enable` on, there is neither that nor
  a fault: `RoomAssumption` has the numbers of the code, in which a window eight or
  sixteen times the screen and one doubled packet are far less than a word.
* A threshold of 256 or more wraps when it is squared (`quick.odd` leaves it out).

### Residents

Memory is a set of blocks, below and above segment 0xA000, each large enough for
a program. `owner` is what DOS keeps in the header of a block, `code` which
program lies there, `ready` whether its data were configured, `vect` and `prev`
the vectors and what each handler goes on to, `run` the program of ours that
runs, with the step it is at. A block that is freed is taken to be lost at once,
since an interrupt handler may allocate it. Other resident programs come and go
between commands. `chain` and `amiss` are history: who hooked a vector in which
order, and which blocks were freed or used by somebody who does not own them.

`dos_alloc` answers 11 when there is no memory, where its callers test for 0; so
`reallocate_to_umb` frees segment 11 in that case (`dostsr.h:102-105`). No block
is there, DOS refuses, and `MemoryIsItsOwn` says that it is the only such slip.
`OneOfEach` names the way to a second driver: a resident program that does not
pass on the question by which the first one would be found (`Opaque`).

## Runs

| Run | Instance | Shows |
|---|---|---|
| `redirector_any` | 2 slots, 2 handles, 2 drives, 2 folders, 1 SFT, 2 blocks, all habits, all faults | the table is sound whatever programs do |
| `redirector_polite` | 3 slots, 3 handles, 2 drives, 2 folders, 2 SFTs, 2 blocks, no habits, refused unmaps | files and searches keep their slots, nothing is lost |
| `sft_io` | 2 SFTs, 1 file, small numbers | caches are true and `DosFile` is implemented |
| `mounts` | 4 drives, one taken and one past LASTDRIVE, 4 folders | tables agree at each step, commands end |
| `mouse_packets` | 3 ticks, wheel mouse | packets are whole |
| `mouse_cursor` | 3 positions, one of them clipped, count from -2 to 2 | screen, pointer and count agree |
| `vb_comm` | VirtualBox: VDS, at most 2 locks, no popups; VMware: room for 9 words, 2 packets, no popups | the buffer is used safely outside the window of `integ off`; locks are paired; `uninstall` leaves no callback; words of the queue are read together and in time |
| `mouse_reports` | 2 buttons, counts up to 1, wheel from -1 to 1 | nothing is reported twice or lost, without the two habits for wheels (`wheel_query`, `late_query`) |
| `win_mouse` | a word of 36, 2 screens, 3 packets of -2, 0 or 1 mickeys or at 2 points, 2 procedures, speeds -2 and 0, a window of a whole word | nothing is lost in rounding, and Windows hears of movement as it was |
| `residents` | 3 blocks below, 2 above, both drivers, 2 other programs, one of which passes nothing on | interrupts find their way, no memory is lost |
| `translations` | names: 6 (3 with a tilde, 3 with the same hash), depth 2, 4 files and directories; dates: 9 years, 4 times of day, 3 zones; paths: up to 3 of 4 components, buffers of 1 to 14 bytes | what VBSF translates comes back |
| `dos_hours` | 1980, 4 times of day, 2 zones | finding: late times come back early |

Why the bounds are enough. Slot numbers collide as soon as one slot is freed
and taken by another owner, which needs two slots and two owners; with three
slots a search, a file and a third owner coexist. Two SFTs on a file are the
smallest case of a stale cache, and sizes below, at and above a position are
all there. Of the four drives one belongs to others, one is past the last drive
of DOS and two compete for folders; the folder without a mount point competes
with all. Three ticks are one more than the delay. Two positions tell old from
new, the third is outside of the screen. In a word of 36 with a threshold of 2 or
4, a few movements wrap squares, made-up counts and the position as thousands do in
16 bits; of three packets one can come before, one while and one after the driver is
enabled. The speed of a program is 0, which makes the next movement fault, or
negative and less than the one before, which leaves a remainder of more than a pixel.
In this run the other axis always moves by 3; packets that move nothing, which
change neither position nor sum, are in the theorems. One
program that moves up needs three blocks, and two more leave room for another
resident program on either side of it. The years are the first and last ones of
each conversion, a leap year, and centuries that are and are not one; the times
of day are both sides of the wrap and of midnight. Two locks are one more than is right. A queue of 9 words has two movements and the
answer to enabling. The path
walk looks at one directory at a time, so a directory and one below it are all
there is to confuse. One press that nobody asked for is told from none, and two
buttons are enough for the wrong one. The proofs remove many of these bounds.

`TypeOK` (`VmTypeOK`, `WinTypeOK`, `NamesTypeOK`) is in no run: it is proved for
every module. The rows of `translations`
are independent: each behaviour is about names, dates or paths, and the state of
the other two rests; so it is with VirtualBox and VMware in `vb_comm`.

Deadlock is checked everywhere except in `mouse_packets`, where time is bounded
and a mouse that was not reset sends nothing, and in `translations`, because a
calendar ends with its last year and a translation when it is done.

## Findings

`dos_hours` states what a comment says and refutes it: `timestampns_from_dos_time`
computes `hours * 3600U/2` in 16 bits (`unixtime.h:180`), so that from 19 o'clock
on the product wraps before it is halved and the time is 18 hours, 12 minutes and
16 seconds early; "eax now contains seconds_since_epoch / 2" (`unixtime.h:193`)
is false then. `DatesComeBack` has the same with the exception spelt out, and
passes.

The habits, constants and exceptions above have further ones, without a run of
their own:

* seeking past the end of a file of nearly 4 GiB wraps in 32 bits and cuts the
  file (`past_limit`, `sftsr.c:800`);
* a rename to a name with a tilde, or in a mangled directory, overwrites its new
  path while it looks it up (`Overwritten`, `sftsr.c:891`);
* once the wheel was moved, asking for one button clears the counter of the last
  one (`late_query`, `mousetsr.c:1139`);
* FindNext after a volume label acts on slot 0 (`label_next`);
* unmounting acts on folders, not on drives (`shared_folder`);
* the delay between the bytes of a packet is measured from the first, so bytes
  one tick apart are dropped;
* a cursor that the host was to show is erased from where it never was (`toggle`);
* a search in a directory with a tilde in its host name lists the parent
  (`TildeDirs`);
* the pointer of Windows jumps when the driver is enabled again (`heard.cause`),
  and is scaled wrongly after a new video mode (`windows.steady`);
* a path that is too long may name another file (`RoomEnough`);
* a movement after a program has set a speed of 0 makes the mouse interrupt divide by
  0 (`Fault`, `mousetsr.c:643`);
* file times from 7 February 2106 on raise a division fault (`Faults`);
* segment 11 is freed when there is no memory (`FAULT`).

## Proofs

Each `...Proofs` module first proves `TypeCorrect` and then the properties the
runs check, as theorems of `Spec` for any values of the constants that satisfy
the module's assumption.

* `RedirectorProofs`. The inductive invariant for all habits is the type,
  `SlotsHoldDistinctHandles` and `SlotsAreOnMountedFolders`, which support each
  other: a slot may be closed with its handle only because no other slot has
  the same. For polite programs it is strengthened with the two `...KeepTheirSlots`
  invariants, which again need each other, because a search that ends frees a
  slot which then must not belong to a file. `NoLostHandles` needs only that a free
  slot holds no handle; `NoAbandonedSlots` that a running search has a live slot, so
  that a block which fails takes no user from one.
* `SftIoProofs`. Under `Tame` (no habits, start sizes below the limit) the
  invariant says that all sizes are below the limit, that an SFT which is alone
  is the only one on its file, and that its cached size is the size of the file.
  With it every action is a step of `DosFile` or a stutter.
* `FoldersProofs`, `VbsfMounts`. `TablesAgree` counts drives per folder. The invariant adds
  what each step of a command may rely on: which drives are already passed, that
  without a driver nothing is mapped that a refusal does not explain (`Explained`),
  and that the loop stays in the table. Lemmas say how the number of drives of a folder changes with one drive.
* `HostProofs`, `VbComm`. `AddressIsGood` needs to know, at each step of a command, what
  the steps before it left (`Steps`: from `device` on the flag is clear, at
  `report` the address is known). `Paired` counts the locks at each step,
  `Quieted` says which of the mouse's doors are closed, `Told` what the host
  believes. Lemmas about `Ask` and `Send` say what a request can disturb.
* `HostProofs`, `VmwareMouse`. The queue consists of whole movements whenever the interrupt
  may read it (`Framed`), and while the program reads it the interrupt does not
  (`Alone`); `Current` counts words and packets. Lemmas say what joining and cutting
  does to a queue of whole movements.
* `MousePacketsProofs`, for a clock that does not wrap while it is looked at
  (`NoWrap`) and handlers that do not save the driver state. The invariant is the
  type, that there is room for the next byte also in a saved state (`Places`),
  that a packet under way began no later than its last byte (`Stamps`), and
  `InStep`: when all is well, count and mouse are at the same byte, what has been
  collected is the beginning of the packet being sent, and its first byte is no
  older than it seems. `Stamps` is what makes a pause long enough to be noticed,
  `InStep` that nothing else is taken for one.
* `ResidentsProofs`. The invariant adds to the properties what the running
  command holds at each step (`RunShape`), that no block is in a chain twice
  (`Once`), that each block in use has an owner that holds it (`Owners`), and that
  one which is neither settled nor another program's is the command's own
  (`Residue`). `Once` is needed because a driver that leaves takes itself from the
  front of each chain, and must not be further down in it. `OneOfEach` asks where a
  question that goes down a chain ends: `Found` is what every set holds that is
  closed under passing the question on, so an inductive argument over the length
  of the chain becomes one about the least element of a set. Its invariant says
  that nothing brings a copy of a driver, or hides one, between the search and
  the hooking.
* `MouseEventsProofs`, `MouseReports`. Type and `ReportsAreDue` are proved together, because the
  bound on a packet is on the counters and holds of `due` only while both agree.
  The lemma `AnswersTheButton` is where the habits matter. `TheHandlerKnows`
  needs none of that: it looks at one packet, whose events contain every change.
* `MouseEventsProofs`, `WinMouse`. The type has that the remainder is less than what
  it is a remainder of, that the window is one, and at which steps Windows has a
  hook (`Placed`). With it `PointerFollows` is inductive: quotient and remainder of a
  movement together are the movement, and where the window clips the position, which
  leaves the remainder as it is, `trail` starts again from there. `Settled` says how far
  from the ends of a word the window is from the reset in `Enable` on, and that the
  speed is then 1 or the default, so that there a movement, with what was left before,
  can be divided and stays in the word; `RoomAssumption` is
  needed for this alone. `Squared` says
  that the sum of squares is that of the history while it fits in a word. For
  `WindowsFollows` it takes `Reckoned`: while Windows may be called, the counts it
  remembers are those of the driver; differences of counts add up though each is
  cut to 16 bits. For `PointsWhereHostPoints` it takes `Windowed`, which says how far
  the window is set at each step of `Enable`, and that scaling to the grid of
  a text mode and back is off by no more than one of its cells.
* `MouseCursorProofs`. The state is one record and handlers call one another, so
  there are lemmas for each function about any state: what `Refresh`, `HideCursor`,
  `Redraw` do to it. The invariant `Sound` has the parts `Agreed` (the driver knows
  video mode and host while the cursor is shown or may be), `Drawn` (a drawn cursor
  covers what was saved, and otherwise the screen is as programs left it),
  `Pointed` (the host shows a pointer only as the driver asked), `Woken` (nothing
  before the first reset) and `Fresh` (the cursor is shown only if it should be).
* `FoldersProofs`, `HostPaths`. `Translating` says that the path keeps its length and
  the 0 at its end, however it is cut and mended, that `s` is in it, and that neither
  `dst` nor what was written behind it has left the buffer. Below it are lemmas on
  first and last places of a character, and on the length of what joining sequences
  yields, by induction over how many are joined. `PathsAreWhole` compares two folds
  over a path: the code goes by characters and stops where a tilde is, `HostOf`
  goes by components. `WholeInv` puts the one beside the other: whenever the loop
  starts anew, `s` is where some component begins, `dst` is the host's path of
  those before (`Reached`), and the memory is as at the start. Where components
  begin is `Pos`; `Scan` says that up to the next tilde all components are plain,
  `Middle` that their characters, all at once, become what `HostOf` makes of them
  one by one, and `PassReads` what a pass sees in the memory it has cut.
  There is always room because `RoomEnough` says so of `HostOf` (`RoomFits`).
* `FoldersProofs`, `LongNames`. `NamesTypeOK` is inductive: what moves with a
  directory lands on nothing and on nothing else that moves (`RenameApart`), since
  whatever the new path begins is not there yet, and its directories stay
  (`RenameStays`). `HostPath` is a recursive function; `Leads` says of each component
  what it is looked up as, and there is only one such path (`OneWay`, by induction).
  `NewNamesAreFound` is inductive with the type: a call that makes something found no
  entry for its last name, so that is taken as it is, and on the way only the new
  entry was added to any directory (`Settles`), which does not change what was the
  first of those that look alike. `ShownNamesLeadBack` follows from the tree alone.
  `SearchesAreTrue` needs `PlainDirs`, that no directory has a tilde, which all
  calls keep.
* `FoldersProofs`, `DosTime`. `OnCalendar` says that `date` is a date and `day` its
  number, in closed form: `NewYear` for the years, `MonthStart` for the months. That
  the recursive functions of the code are these closed forms is proved by
  induction over years and months; then the year and the month that the code
  searches for are the only ones. `YearFits` says that the division overflows
  before seven bits are too few, which is where the zones matter.

Assumptions beyond those of the modules: `CachedSizesStayTrue` and
`Refinement` assume `Tame`; the polite theorems assume habits within
`{"abandon"}`, `SlotsAreNotAbandoned` none; `HandlesAreNotLost` a host that closes
what it is told to. `ResidentsProofs` and `HostProofs` have none: `MemoryIsLive` and
`HostIsTold` name `~Popups`, and the properties of `VmwareMouse` `~Woken`, themselves;
the others hold with popups too. `TypeCorrect` and `NothingIsLost` of
`MouseReports` assume no habits, `TheHandlerKnows` and all about `WinMouse` do not; the
latter hold for any words as speeds, positions and windows.
`ScreenRestored` and `PointerKnown` assume no habits: TLC shows that each of the four
breaks them. `BuffersAreHeld` and `WholePaths` assume `ListsAreTexts`, that every directory has a list
of names, which TLC cannot evaluate as an assumption of the module since there are
infinitely many directories. The theorems about dates assume `ZonesAreNear`: a zone is
at most two days away (TZ says at most about one), since with a zone of many
years the year would not fit any more. `TrueSearches` assumes `NoTildeDirs`, the
`TildeDirs = FALSE` of the run.

Proved and in no run: `SlotsAreOnMountedFolders`, `SlotsAreNeverOverwritten`,
`OtherDrivesAreSafe`, `OrphansComeFromErrors`, `ByteHasAPlace`.

Only model-checked: `CommandsEnd` (liveness under fairness is out of reach of
this prover). Every safety invariant and every action property of a run is a
theorem. The library's theorems of induction cannot be used, but
`NatLessThanWellFounded` and `WFMin` give each set of numbers a least element, and
with that the lemma `Induction` of `FoldersProofs`; so recursive functions can be
reasoned about, and `DaysToYear`, `DaysToMonth`, `HostPath`, `Hosts` and `FlattenSeq`
are.

## Not modelled

* Byte-range locks: passed to the host; a call that waits for a lock of the
  same guest never returns, which is a property of the host's lock manager.
* Attributes and disk space: they keep no state in the redirector. Opening an
  existing file and the check of a current directory only look a path up.
* How a name is mangled and hashed, `utf8_to_local`, the tables of code pages, and
  the short names of the host (`-s`).
* The messages of the Windows driver for the wheel (`send_wheel_movement`): they
  are posted to a window and change nothing here. The start of Windows in
  enhanced mode, which gets a list of the data to be instanced.
* `list`, messages, debug output, the vendored `kitten.c` and VirtualBox
  headers: no state, or not this project's code.
* Marshalling of parameters in `vboxshfl.h`: wording of requests, no control.

## Plan

In this order; items with a tick are done.

1. ✓ `Redirector`, its proofs.
2. ✓ `DosFile`, `SftIo`, refinement, its proofs.
3. ✓ `VbsfMounts`, its proofs.
4. ✓ `MousePackets`, its proofs.
5. ✓ `MouseCursor`, its proofs.
6. ✓ `VbComm`, its proofs. The buffer of VBSF, which no interrupt shares, is in
   `VbsfMounts`.
7. ✓ `LongNames`, its proofs; ✓ `HostPaths` with the lengths of its buffers, its proofs.
8. ✓ `MouseReports`, its proofs.
9. ✓ `MouseMotion` and `WinMouse`, its proofs.
10. ✓ `Residents`, its proofs.
11. ✓ `DosTime`, its proofs.
12. ✓ Proofs of `NoLostHandles` and `NoAbandonedSlots`.
13. ✓ `VmwareMouse`, its proofs.
14. Composition of `Redirector` and `VbsfMounts` on their common tables.
