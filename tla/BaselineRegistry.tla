--------------------------- MODULE BaselineRegistry ---------------------------
(***************************************************************************)
(* The baseline registry (baselines/loader.py) inside the one thread that  *)
(* uses it. Handlers run on the main thread's event loop; so does the      *)
(* Python-level SIGHUP handler, which the interpreter runs between two     *)
(* bytecodes of whatever the main thread is doing, a lookup that holds the *)
(* registry's lock, a wait for that lock, or another reload included.      *)
(*                                                                         *)
(* The stack of calls is explicit: only the top one runs, and it waits for *)
(* a lock that a call below it may hold. A lookup is _baseline_by_id       *)
(* (events/asset_cm.py): one all_variants() and then one get() a variant,  *)
(* each taking the lock for itself. A reload lists one directory after the *)
(* other and reads what it listed file by file, one file a variant, while  *)
(* an operator may be editing them; a file that does not load, or has gone *)
(* since it was listed, makes the read raise.                              *)
(***************************************************************************)
EXTENDS Naturals, Sequences, SequencesExt

CONSTANTS
  Variants,     \* platform variants, numbered in sorted order
  Ids,          \* baseline ids
  None,         \* no baseline for the variant; no result
  DirectoryOf,  \* the directory a variant's file is in, numbered in order
  Snapshots,    \* valid contents of the directories: variant -> id or None
  Broken,       \* every file is there and none loads
  MaxFrames,    \* bound: calls on the stack
  MaxEdits      \* bound: edits of the directories

ASSUME VariantsAssumption == Variants \subseteq Nat
ASSUME DirectoriesAssumption == DirectoryOf \in [Variants -> Nat]
ASSUME SnapshotsAssumption == Snapshots \subseteq [Variants -> Ids \cup {None}]
ASSUME NoneIsNoId == None \notin Ids

VARIABLES
  directory,  \* what the directories hold: a snapshot, or Broken
  loaded,     \* _by_variant
  lock,       \* depth of the call that holds _lock, 0 when it is free
  stack,      \* the calls in progress on the main thread
  sighup,     \* a SIGHUP has arrived and its handler has not started
  alive,      \* the process runs
  edits,      \* edits made, for the bound
  missed,     \* history: a lookup missed a baseline that stayed loaded
  settled     \* history: a handler not nested in a reload has started since
              \* the last edit, and no read has failed since

history == <<missed, settled>>
regVars == <<directory, loaded, lock, stack, sighup, alive, edits, history>>

LookupCall(id) == [op |-> "lookup", pc |-> "list", id |-> id, left |-> {},
                   stays |-> { v \in Variants : loaded[v] = id }]
ReloadCall == [op |-> "reload", pc |-> "glob",
               dirs |-> { DirectoryOf[v] : v \in Variants }, left |-> {},
               new |-> [v \in Variants |-> None]]

\* The member of a set of numbers that comes first.
IsFirst(x, left) == x \in left /\ \A y \in left : x <= y

\* Where a call waits for the lock, and where it then is.
Locked == [list |-> "listing", get |-> "getting", swap |-> "swapping"]

Depth == Len(stack)
Top == stack[Depth]
At(pc) == alive /\ stack # <<>> /\ Top.pc = pc

FirstOf(left) == CHOOSE v \in left : \A w \in left : v <= w
Reloading == \E i \in DOMAIN stack : stack[i].op = "reload"

\* The top call moves on; the calls below it stand still.
Step(frame) == stack' = [stack EXCEPT ![Depth] = frame]

Acquire(pc) ==
  /\ At(pc) /\ lock = 0
  /\ lock' = Depth
  /\ Step([Top EXCEPT !.pc = Locked[pc]])
  /\ UNCHANGED <<directory, loaded, sighup, alive, edits, history>>

-----------------------------------------------------------------------------
(* Lookups.                                                                 *)

BeginLookup(id) ==
  /\ alive /\ stack = <<>>
  /\ stack' = <<LookupCall(id)>>
  /\ UNCHANGED <<directory, loaded, lock, sighup, alive, edits, history>>

\* all_variants()
ListVariants ==
  /\ At("listing")
  /\ lock' = 0
  /\ Step([Top EXCEPT !.pc = "get",
                      !.left = { v \in Variants : loaded[v] # None }])
  /\ UNCHANGED <<directory, loaded, sighup, alive, edits, history>>

\* A variant gone since the list was taken ends the lookup.
GetVariant_Mutant ==
  /\ At("getting")
  /\ lock' = 0
  /\ IF loaded[FirstOf(Top.left)] \in {Top.id, None}
     THEN /\ stack' = Front(stack)
          /\ missed' = (missed \/ (loaded[FirstOf(Top.left)] = None
                                   /\ Top.stays # {}))
     ELSE /\ Step([Top EXCEPT !.pc = "get", !.left = @ \ {FirstOf(@)}])
          /\ UNCHANGED missed
  /\ UNCHANGED <<directory, loaded, sighup, alive, edits, settled>>

\* get() of the next variant; on a match the lookup returns it.
GetVariant ==
  /\ At("getting")
  /\ lock' = 0
  /\ IF loaded[FirstOf(Top.left)] = Top.id
     THEN stack' = Front(stack)
     ELSE Step([Top EXCEPT !.pc = "get", !.left = @ \ {FirstOf(@)}])
  /\ UNCHANGED <<directory, loaded, sighup, alive, edits, history>>

NotFound ==
  /\ At("get") /\ Top.left = {}
  /\ stack' = Front(stack)
  /\ missed' = (missed \/ Top.stays # {})
  /\ UNCHANGED <<directory, loaded, lock, sighup, alive, edits, settled>>

LookupAcquires == Acquire("list") \/ (Acquire("get") /\ Top.left # {})

-----------------------------------------------------------------------------
(* SIGHUP and reload().                                                     *)

Hangup ==
  /\ alive /\ ~sighup
  /\ sighup' = TRUE
  /\ UNCHANGED <<directory, loaded, lock, stack, alive, edits, history>>

\* The interpreter runs the handler on top of whatever is in progress.
RunHandler ==
  /\ alive /\ sighup /\ Depth < MaxFrames
  /\ sighup' = FALSE
  /\ stack' = Append(stack, ReloadCall)
  /\ settled' = (settled \/ ~Reloading)
  /\ UNCHANGED <<directory, loaded, lock, alive, edits, missed>>

FilesIn(d) == { v \in Variants : DirectoryOf[v] = d
                                 /\ (directory = Broken \/ directory[v] # None) }

\* Where _read_directory goes on with these files and directories left.
ReadsOn(left, dirs) ==
  IF left # {} THEN "read" ELSE IF dirs # {} THEN "glob" ELSE "swap"

\* _read_directory lists the next directory, once.
ListFiles ==
  /\ At("glob")
  /\ \E d \in Top.dirs :
       /\ IsFirst(d, Top.dirs)
       /\ Step([Top EXCEPT !.left = FilesIn(d), !.dirs = @ \ {d},
                           !.pc = ReadsOn(FilesIn(d), Top.dirs \ {d})])
  /\ UNCHANGED <<directory, loaded, lock, sighup, alive, edits, history>>

\* The file is still there and loads.
Loads(v) == directory # Broken /\ directory[v] # None

\* It reads the next file of the list.
ReadFile ==
  /\ At("read")
  /\ \E v \in Top.left :
       /\ IsFirst(v, Top.left) /\ Loads(v)
       /\ Step([Top EXCEPT !.new[v] = directory[v], !.left = @ \ {v},
                           !.pc = ReadsOn(Top.left \ {v}, Top.dirs)])
  /\ UNCHANGED <<directory, loaded, lock, sighup, alive, edits, history>>

FileRaises ==
  At("read") /\ \E v \in Top.left : IsFirst(v, Top.left) /\ ~Loads(v)

\* The lock is taken and released by hand, and not released on an error.
ReadFails_Mutant ==
  /\ FileRaises
  /\ stack' = <<>>
  /\ UNCHANGED <<directory, loaded, lock, sighup, alive, edits, history>>

\* BaselineLoadError leaves the handler inside the interrupted call and
\* unwinds all of them; a call that held the lock releases it on the way. A
\* lookup at the bottom belongs to an invocation, which Restate retries. With
\* nothing but reloads on the stack the error surfaces in handler code or in
\* the event loop itself, and then it ends the process.
ReadFails ==
  /\ FileRaises
  /\ stack' = <<>>
  /\ lock' = 0
  /\ settled' = FALSE
  /\ alive' \in (IF stack[1].op = "lookup" THEN {TRUE} ELSE {TRUE, FALSE})
  /\ sighup' = (sighup /\ alive')
  /\ UNCHANGED <<directory, loaded, edits, missed>>

\* The new baselines are added to the old ones.
Swap_Mutant ==
  /\ At("swapping")
  /\ loaded' = [v \in Variants |-> IF Top.new[v] = None THEN loaded[v] ELSE Top.new[v]]
  /\ lock' = 0
  /\ stack' = Front(stack)
  /\ UNCHANGED <<directory, sighup, alive, edits, history>>

\* One assignment replaces the whole dictionary.
Swap ==
  /\ At("swapping")
  /\ loaded' = Top.new
  /\ lock' = 0
  /\ stack' = [i \in 1 .. Depth - 1 |->
                 IF stack[i].op = "lookup"
                 THEN [stack[i] EXCEPT !.stays =
                         { v \in @ : Top.new[v] = stack[i].id }]
                 ELSE stack[i]]
  /\ UNCHANGED <<directory, sighup, alive, edits, history>>

-----------------------------------------------------------------------------
(* The outside world.                                                       *)

Edit(content) ==
  /\ edits < MaxEdits /\ content # directory
  /\ directory' = content
  /\ edits' = edits + 1
  /\ settled' = FALSE
  /\ UNCHANGED <<loaded, lock, stack, sighup, alive, missed>>

\* The container is started again; load() raises on contents that do not load.
Restart ==
  /\ ~alive /\ directory # Broken
  /\ alive' = TRUE
  /\ loaded' = directory
  /\ settled' = TRUE
  /\ UNCHANGED <<directory, lock, stack, sighup, edits, missed>>

RegInit ==
  /\ directory \in Snapshots
  /\ loaded = directory
  /\ lock = 0
  /\ stack = <<>>
  /\ sighup = FALSE
  /\ alive = TRUE
  /\ edits = 0
  /\ missed = FALSE /\ settled = TRUE

RegNext ==
  \/ \E id \in Ids : BeginLookup(id)
  \/ LookupAcquires \/ ListVariants \/ GetVariant \/ NotFound
  \/ Hangup \/ RunHandler
  \/ ListFiles \/ ReadFile \/ ReadFails \/ Acquire("swap") \/ Swap
  \/ \E content \in Snapshots \cup {Broken} : Edit(content)
  \/ Restart

RegSpec == RegInit /\ [][RegNext]_regVars

-----------------------------------------------------------------------------
\* The lock is held by the call that is inside a locked section and by no
\* other, however calls were interrupted, nested and unwound.
LockDiscipline ==
  /\ lock <= Depth
  /\ \A i \in 1 .. Depth :
       stack[i].pc \in {"listing", "getting", "swapping"} <=> lock = i

\* A lookup takes the lock once per variant, so reloads may fall between its
\* steps; even so it never misses a baseline that one variant kept throughout.
NoLookupMisses == ~missed

\* loader.py:139-142 (SIGHUP hot-reloads): once nothing is being reloaded, a
\* SIGHUP handled after the last edit has replaced everything, wherever in a
\* lookup it struck and however many further signals interrupted it. The one
\* exception is a handler nested in a reload that began before the edit: the
\* outer reload then swaps last and puts its older baselines back.
HangupTakesEffect ==
  alive /\ settled /\ ~Reloading => loaded = directory

\* loader.py:71-72: "Thread-safe for reads [...] Reload is triggered by
\* SIGHUP". So no call ever waits for a lock that its own thread holds.
NoSelfDeadlock ==
  alive /\ stack # <<>> /\ Top.pc \in DOMAIN Locked => lock = 0
=============================================================================
