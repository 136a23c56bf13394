------------------------------ MODULE StateFile ------------------------------
(***************************************************************************)
(* A state file with its generations (state_backup.py), as the core, the    *)
(* main window and every screen use it: the text is written to a temporary *)
(* file, the generations and the current file are pushed back one, and the *)
(* temporary file takes the name - each a system call of its own, that may *)
(* fail (a lock, a permission) or be the last one the process makes.       *)
(***************************************************************************)
EXTENDS Integers

CONSTANTS Gens,       \* generations kept
          MaxTexts,   \* bound: texts the program comes to
          MaxFaults   \* bound: failing calls and crashes
ASSUME StateAssumption == Gens \in Nat \ {0} /\ MaxTexts \in Nat /\ MaxFaults \in Nat

NoText == 0
Defaults == 1            \* the text of a program that found no file
Generations == 1..Gens

VARIABLES
  cur, gen, tmp,   \* the files: the text each holds, None when there is none
  inMemory,             \* what the program would save: its texts are numbered as it makes them
  made,            \* texts made so far
  saveStep, slot, text, \* write_if_changed: the call to make next, and what is written
  saved,           \* history: the text last known to be saved
  found,           \* history: what the last start found
  faults
sfVars == <<cur, gen, tmp, inMemory, made, saveStep, slot, text, saved, found, faults>>

SfInit ==
  /\ cur = NoText /\ gen = [n \in Generations |-> NoText] /\ tmp = NoText
  /\ inMemory = Defaults /\ made = Defaults /\ saveStep = "idle" /\ slot = 0 /\ text = NoText
  /\ saved = NoText /\ found = NoText /\ faults = 0

Files == <<cur, gen, tmp>>
Program == <<inMemory, made, slot, text>>

(* The program's state changes: commands, fills, windows that move.         *)
ChangeText == /\ made < MaxTexts /\ made' = made + 1 /\ inMemory' = made + 1
          /\ UNCHANGED <<Files, saveStep, slot, text, saved, found, faults>>

(* write_if_changed: nothing is written when the file says the same.        *)
BeginSave ==
  /\ saveStep = "idle" /\ cur # inMemory /\ text' = inMemory /\ saveStep' = "tmp"
  /\ UNCHANGED <<Files, inMemory, made, slot, saved, found, faults>>
(* restore_generation reads a generation and saves it.                      *)
BeginRestore(n) ==
  /\ saveStep = "idle" /\ gen[n] # NoText /\ cur # gen[n] /\ text' = gen[n] /\ inMemory' = gen[n] /\ saveStep' = "tmp"
  /\ UNCHANGED <<Files, made, slot, saved, found, faults>>

WriteTmp == /\ saveStep = "tmp" /\ tmp' = text /\ saveStep' = (IF cur = NoText THEN "in" ELSE "drop")
            /\ UNCHANGED <<cur, gen, Program, saved, found, faults>>

(* _rotate: the oldest is dropped, each other moves up one, and the current *)
(* file becomes the first; without a current file nothing moves.            *)
DropOldest == /\ saveStep = "drop" /\ gen' = [gen EXCEPT ![Gens] = NoText]
        /\ saveStep' = "shift" /\ slot' = Gens - 1
        /\ UNCHANGED <<cur, tmp, inMemory, made, text, saved, found, faults>>
Shift == /\ saveStep = "shift"
         /\ IF slot = 0 THEN saveStep' = "out" /\ UNCHANGED <<gen, slot>>
            ELSE /\ slot' = slot - 1 /\ UNCHANGED saveStep
                 /\ gen' = IF gen[slot] = NoText THEN gen
                           ELSE [gen EXCEPT ![slot + 1] = gen[slot], ![slot] = NoText]
         /\ UNCHANGED <<cur, tmp, inMemory, made, text, saved, found, faults>>
(* Mutant: the current file is not kept as a generation.                    *)
OutDrops == /\ saveStep = "out" /\ cur' = NoText /\ saveStep' = "in"
            /\ UNCHANGED <<gen, tmp, Program, saved, found, faults>>
Out == /\ saveStep = "out" /\ gen' = [gen EXCEPT ![1] = cur] /\ cur' = NoText /\ saveStep' = "in"
       /\ UNCHANGED <<tmp, Program, saved, found, faults>>
In == /\ saveStep = "in" /\ cur' = tmp /\ tmp' = NoText /\ saveStep' = "idle" /\ saved' = text
      /\ UNCHANGED <<gen, Program, found, faults>>

(* An OSError ends the save; the next period tries again.                   *)
DiskFails == /\ saveStep # "idle" /\ faults < MaxFaults /\ faults' = faults + 1 /\ saveStep' = "idle"
         /\ UNCHANGED <<Files, Program, saved, found>>

(* The process ends anywhere and is started again: load_state takes the     *)
(* current file, and the defaults where there is none.                      *)
Restart ==
  /\ faults < MaxFaults /\ faults' = faults + 1 /\ saveStep' = "idle" /\ found' = cur
  /\ inMemory' = (IF cur = NoText THEN Defaults ELSE cur)
  /\ UNCHANGED <<Files, made, slot, text, saved>>

SfNext ==
  \/ ChangeText \/ BeginSave \/ WriteTmp \/ DropOldest \/ Shift \/ Out \/ In \/ DiskFails \/ Restart
  \/ \E n \in Generations : BeginRestore(n)
SfSpec == SfInit /\ [][SfNext]_sfVars

-----------------------------------------------------------------------------
(* Wherever a save breaks off, the text saved last is in the current file   *)
(* or the newest generation, and a user who takes back what he restored     *)
(* finds it there (write_if_changed, _rotate, restore_generation).          *)
LastSaveIsKept == saved # NoText => saved \in {cur, gen[1]}
=============================================================================
