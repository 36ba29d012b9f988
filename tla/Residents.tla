----------------------------- MODULE Residents -----------------------------
(***************************************************************************)
(* How VBSF.EXE and VBMOUSE.EXE become resident and leave memory again     *)
(* (dostsr.h, install and uninstall in sfmain.c and mousmain.c), next to   *)
(* other resident programs that hook the same interrupts.                  *)
(*                                                                         *)
(* Memory is a set of blocks, each of which fits any of the programs.  DOS *)
(* keeps the owner of a block, which is named by the block that its PSP is *)
(* in.  What lies in a block that is freed is taken to be lost at once.    *)
(* The commands are cut at their calls of DOS; other programs run in       *)
(* between commands only, but interrupts come at any time.                 *)
(***************************************************************************)
EXTENDS Integers, FiniteSets, Sequences

CONSTANTS
  Low, High,    \* blocks below and above segment 0xA000
  VBSF, VBMOUSE, Others, \* programs
  Opaque,       \* those of Others that do not pass on what they do not know
  INT2F, INT33, \* interrupt vectors
  BIOS,         \* what they lead to at first
  FREE,         \* no owner
  FAULT         \* 11, which dos_alloc returns when there is no memory

Blocks == Low \cup High
Ours == {VBSF, VBMOUSE}
Programs == Ours \cup Others
Vectors == {INT2F, INT33}

ASSUME ResidentsAssumption ==
  /\ Low \cap High = {} /\ IsFiniteSet(Blocks)
  /\ {BIOS, FREE, FAULT} \cap Blocks = {} /\ FREE \notin Programs
  /\ VBSF # VBMOUSE /\ Ours \cap Others = {} /\ Opaque \subseteq Others
  /\ INT2F # INT33

VARIABLES
  owner,  \* of each block
  code,   \* the program whose code is in a block
  ready,  \* the blocks whose resident data have been configured
  vect,   \* the interrupt vectors
  prev,   \* prev_int2f_handler and prev_int33_handler of each block
  run,    \* the program of ours that is running
  \* history
  chain,  \* for each vector, the blocks that have hooked it, last one first
  amiss   \* the blocks that a program freed or spoilt and that were not its own

vars == <<owner, code, ready, vect, prev, run, chain, amiss>>

\* psp: where it was loaded (_psp); env: its environment; to: the block that
\* data points to; high: as in main
Idle == [at |-> "idle", prog |-> FREE, psp |-> FREE, env |-> FREE,
         to |-> FREE, high |-> FALSE]

Places == {"install", "move", "configure", "hook", "finish", "keep",
           "uninstall", "restore", "free", "cancel", "exit"}

Nobody == [b \in Blocks |-> FREE]
Nowhere == [v \in Vectors |-> BIOS]

Init ==
  /\ owner = Nobody /\ code = Nobody /\ ready = {}
  /\ vect = Nowhere /\ prev = [b \in Blocks |-> Nowhere]
  /\ run = Idle
  /\ chain = [v \in Vectors |-> <<>>] /\ amiss = {}

-----------------------------------------------------------------------------
(* Interrupts *)

\* The vectors that install_driver hooks.
Hooks(p) == IF p = VBSF THEN {INT2F} ELSE {INT33, INT2F}

\* The interrupt by which get_tsr_data asks for the resident part.
Asks(p) == IF p = VBSF THEN INT2F ELSE INT33

\* A question of p never leaves S: it starts at the vector, and handlers
\* that neither know the answer nor keep it to themselves pass it on.
Asked(p, S) ==
  /\ vect[Asks(p)] \in S \cup {BIOS}
  /\ \A b \in S : \/ code[b] \in {p} \cup Opaque
                 \/ prev[b][Asks(p)] \in S \cup {BIOS}

\* Mutant: only the last handler is asked.
FoundMutant(p) == {x \in Blocks : x = vect[Asks(p)] /\ code[x] = p}

\* get_tsr_data: the blocks found, at most one
Found(p) ==
  {b \in Blocks : /\ code[b] = p
                  /\ \A S \in SUBSET Blocks : Asked(p, S) => b \in S}

\* b hooks the vectors in V.
SetVectors(b, V) ==
  /\ vect' = [v \in Vectors |-> IF v \in V THEN b ELSE vect[v]]
  /\ prev' = [prev EXCEPT ![b] = [v \in Vectors |->
                IF v \in V THEN vect[v] ELSE @[v]]]
  /\ chain' = [v \in Vectors |-> IF v \in V THEN <<b>> \o chain[v] ELSE chain[v]]

Within(b, c) == \E i \in 1 .. Len(c) : c[i] = b

\* c without b
Without(c, b) ==
  LET k == CHOOSE i \in 1 .. Len(c) : c[i] = b
  IN  IF Within(b, c)
        THEN [i \in 1 .. Len(c) - 1 |-> IF i < k THEN c[i] ELSE c[i + 1]]
        ELSE c

\* b puts back what it found at the vectors in V.
PutBack(b, V) ==
  /\ vect' = [v \in Vectors |-> IF v \in V THEN prev[b][v] ELSE vect[v]]
  /\ chain' = [v \in Vectors |->
       IF v \in V THEN Without(chain[v], b) ELSE chain[v]]

-----------------------------------------------------------------------------
(* Memory *)

Unused(S) == {b \in S : owner[b] = FREE}

Own(p) == {b \in Blocks : owner[b] = p}

\* The blocks in S are free.
Released(S) ==
  /\ owner' = [b \in Blocks |-> IF b \in S THEN FREE ELSE owner[b]]
  /\ code' = [b \in Blocks |-> IF b \in S THEN FREE ELSE code[b]]
  /\ prev' = [b \in Blocks |-> IF b \in S THEN Nowhere ELSE prev[b]]
  /\ ready' = ready \ S

\* dos_free of b by a program that means one of the blocks of p
DosFree(b, p) ==
  /\ Released({b})
  /\ amiss' = IF b \in Own(p) THEN amiss ELSE amiss \cup {b}

\* DOS loads a program: its block and its environment are in the same area.
Start(p, at, high) ==
  /\ run = Idle
  /\ \E area \in {Low, High} : \E psp \in Unused(area), env \in Unused(area) :
       /\ psp # env
       /\ owner' = [owner EXCEPT ![psp] = psp, ![env] = psp]
       /\ code' = [code EXCEPT ![psp] = p]
       /\ run' = [at |-> at, prog |-> p, psp |-> psp, env |-> env,
                  to |-> psp, high |-> high]
  /\ UNCHANGED <<ready, vect, prev, chain, amiss>>

\* DOS ends a program and frees what it owns.
Exit ==
  /\ run.at = "exit"
  /\ Released(Own(run.psp)) /\ run' = Idle
  /\ UNCHANGED <<vect, chain, amiss>>

-----------------------------------------------------------------------------
(* install *)

\* main: deallocate_environment, also the first thing in reallocate_to_umb;
\* nothing to do when the driver is there
Install ==
  /\ run.at = "install"
  /\ \/ /\ Found(run.prog) # {}
        /\ run' = [run EXCEPT !.at = "exit"]
        /\ UNCHANGED <<owner, code, ready, prev, amiss>>
     \/ /\ Found(run.prog) = {}
        /\ DosFree(run.env, run.psp)
        /\ run' = [run EXCEPT !.at = IF run.high THEN "move" ELSE "configure"]
  /\ UNCHANGED <<vect, chain>>

\* allocate_umb: any block above that is free, or one below although HIGHONLY
\* was asked for, or none.
Allocated ==
  IF Unused(High) # {} THEN Unused(High)
  ELSE IF Unused(Low) # {} THEN Unused(Low) \cup {FAULT} ELSE {FAULT}

\* reallocate_to_umb when a block above was found: copy_program makes the block
\* a program of its own.
MoveUp(b) ==
  /\ run.at = "move" /\ run.psp \in Low /\ b \in Allocated \cap High
  /\ owner' = [owner EXCEPT ![b] = b] /\ code' = [code EXCEPT ![b] = run.prog]
  /\ run' = [run EXCEPT !.at = "configure", !.to = b]
  /\ UNCHANGED <<ready, vect, prev, chain, amiss>>

\* reallocate_to_umb when it was not, or not needed: what was allocated, 11 if
\* nothing was, is freed.
StayDown ==
  /\ run.at = "move"
  /\ \/ run.psp \in High /\ UNCHANGED amiss
     \/ /\ run.psp \in Low /\ Allocated \cap Low # {} /\ UNCHANGED amiss
     \/ /\ run.psp \in Low /\ FAULT \in Allocated
        /\ amiss' = amiss \cup {FAULT}
  /\ run' = [run EXCEPT !.at = "configure", !.high = FALSE]
  /\ UNCHANGED <<owner, code, ready, vect, prev, chain>>

\* configure_driver, which reads TZ from the environment, and automount
Configure ==
  /\ run.at = "configure"
  /\ amiss' = IF run.prog = VBSF /\ owner[run.env] # FREE
                THEN amiss \cup {run.env} ELSE amiss
  /\ ready' = ready \cup {run.to}
  /\ run' = [run EXCEPT !.at = "hook"]
  /\ UNCHANGED <<owner, code, vect, prev, chain>>

ConfigureFails ==
  /\ run.at = "configure"
  /\ run' = [run EXCEPT !.at = IF run.high THEN "cancel" ELSE "exit"]
  /\ UNCHANGED <<owner, code, ready, vect, prev, chain, amiss>>

\* Mutant: nothing is undone.
CancelMutant ==
  /\ run.at = "cancel" /\ run' = [run EXCEPT !.at = "exit"]
  /\ UNCHANGED <<owner, code, ready, vect, prev, chain, amiss>>

\* cancel_reallocation
Cancel ==
  /\ run.at = "cancel"
  /\ DosFree(run.to, run.to)
  /\ run' = [run EXCEPT !.at = "exit"]
  /\ UNCHANGED <<vect, chain>>

\* install_driver: with interrupts off
Hook ==
  /\ run.at = "hook"
  /\ SetVectors(run.to, Hooks(run.prog))
  /\ run' = [run EXCEPT !.at = IF run.high THEN "finish" ELSE "keep"]
  /\ UNCHANGED <<owner, code, ready, amiss>>

\* Mutant: the copy is freed.
FinishMutant ==
  /\ run.at = "finish"
  /\ DosFree(run.to, run.psp)
  /\ run' = [run EXCEPT !.at = "keep", !.psp = run.to]
  /\ UNCHANGED <<vect, chain>>

\* finish_reallocation: DOS takes the copy for the current program
Finish ==
  /\ run.at = "finish"
  /\ DosFree(run.psp, run.psp)
  /\ run' = [run EXCEPT !.at = "keep", !.psp = run.to]
  /\ UNCHANGED <<vect, chain>>

\* _dos_keep
Keep ==
  /\ run.at = "keep" /\ run' = Idle
  /\ UNCHANGED <<owner, code, ready, vect, prev, chain, amiss>>

-----------------------------------------------------------------------------
(* uninstall *)

\* Mutant: the mouse driver looks at its own interrupt only.
UninstallableMutant(p, b) == vect[Asks(p)] = b

\* check_if_driver_uninstallable
Uninstallable(p, b) == \A v \in Hooks(p) : vect[v] = b

Uninstall ==
  /\ run.at = "uninstall"
  /\ \/ /\ \A b \in Found(run.prog) : ~Uninstallable(run.prog, b)
        /\ run' = [run EXCEPT !.at = "exit"]
     \/ \E b \in Found(run.prog) :
          /\ Uninstallable(run.prog, b)
          /\ run' = [run EXCEPT !.at = "restore", !.to = b]
  /\ UNCHANGED <<owner, code, ready, vect, prev, chain, amiss>>

\* uninstall_driver: the vectors
Restore ==
  /\ run.at = "restore"
  /\ PutBack(run.to, Hooks(run.prog))
  /\ run' = [run EXCEPT !.at = "free"]
  /\ UNCHANGED <<owner, code, ready, prev, amiss>>

\* uninstall_driver: the memory
Free ==
  /\ run.at = "free"
  /\ DosFree(run.to, run.to)
  /\ run' = [run EXCEPT !.at = "exit"]
  /\ UNCHANGED <<vect, chain>>

-----------------------------------------------------------------------------
(* Other programs *)

\* A program becomes resident and hooks the vectors in V.
InstallOther(p, b, V) ==
  /\ run = Idle /\ b \in Unused(Blocks)
  /\ owner' = [owner EXCEPT ![b] = b] /\ code' = [code EXCEPT ![b] = p]
  /\ ready' = ready \cup {b}
  /\ SetVectors(b, V)
  /\ UNCHANGED <<run, amiss>>

\* It leaves again when it is the last one at all of its vectors.
UninstallOther(b, V) ==
  /\ run = Idle /\ owner[b] = b /\ code[b] \in Others
  /\ V = {v \in Vectors : Within(b, chain[v])}
  /\ \A v \in V : vect[v] = b
  /\ PutBack(b, V) /\ Released({b})
  /\ UNCHANGED <<run, amiss>>

Next ==
  \/ \E p \in Ours, at \in {"install", "uninstall"}, high \in BOOLEAN :
       Start(p, at, high)
  \/ Exit \/ Install \/ StayDown \/ Configure \/ ConfigureFails \/ Cancel
  \/ Hook \/ Finish \/ Keep \/ Uninstall \/ Restore \/ Free
  \/ \E b \in Blocks : MoveUp(b)
  \/ \E p \in Others, b \in Blocks, V \in SUBSET Vectors : InstallOther(p, b, V)
  \/ \E b \in Blocks, V \in SUBSET Vectors : UninstallOther(b, V)

Spec == Init /\ [][Next]_vars

-----------------------------------------------------------------------------
(* Properties *)

TypeOK ==
  /\ owner \in [Blocks -> Blocks \cup {FREE}]
  /\ code \in [Blocks -> Programs \cup {FREE}]
  /\ ready \subseteq Blocks
  /\ vect \in [Vectors -> Blocks \cup {BIOS}]
  /\ prev \in [Blocks -> [Vectors -> Blocks \cup {BIOS}]]
  /\ run \in [at : Places, prog : Ours, psp : Blocks, env : Blocks,
              to : Blocks, high : BOOLEAN] \cup {Idle}
  /\ chain \in [Vectors -> Seq(Blocks)]

Behind(c, i) == IF i = Len(c) THEN BIOS ELSE c[i + 1]

\* At any time an interrupt finds its way: from each vector, each handler leads
\* to the one that was there before it, and each of them lies in a block that is
\* a program's own and has been configured (sfmain.c:561-574, 583-620,
\* mousmain.c:297-376).
ChainsAreWhole ==
  \A v \in Vectors :
    /\ vect[v] = Behind(chain[v], 0)
    /\ \A i \in 1 .. Len(chain[v]) :
         LET b == chain[v][i]
         IN  /\ owner[b] = b /\ b \in ready
             /\ code[b] \in Others \/ (code[b] \in Ours /\ v \in Hooks(code[b]))
             /\ prev[b][v] = Behind(chain[v], i)

\* Between commands the memory of ours that is in use is that of drivers in
\* their chains: installing, moving up, failing and uninstalling leave nothing
\* (dostsr.h:111-132).
NothingIsLeaked ==
  run = Idle =>
    \A b \in Blocks : owner[b] # FREE /\ code[b] \notin Others =>
      /\ owner[b] = b /\ code[b] \in Ours
      /\ \A v \in Hooks(code[b]) : Within(b, chain[v])

\* Only memory of its own is freed, and the environment that was given back is
\* not overwritten before it is read for the last time (sfmain.c:484).  The one
\* exception is the 11 of a dos_alloc that failed.
MemoryIsItsOwn == amiss \subseteq {FAULT}

\* A driver is installed twice only behind the back of a program that does not
\* pass interrupts on.
OneOfEach ==
  \A p \in Ours :
    LET c == chain[Asks(p)]
    IN  \A i, j \in 1 .. Len(c) :
          i < j /\ code[c[i]] = p /\ code[c[j]] = p =>
            \E k \in i .. j : code[c[k]] \in Opaque

=============================================================================
