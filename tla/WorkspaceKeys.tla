---------------------------- MODULE WorkspaceKeys ---------------------------
(***************************************************************************)
(* The salt file of a workspace and the key file of the workspace id that  *)
(* is derived from it: a process that finds no file draws a value, writes  *)
(* it to the temporary file and renames that.  Several processes start on  *)
(* the same workspace, and any of them may crash and start again.          *)
(***************************************************************************)
EXTENDS Integers, FiniteSets

CONSTANTS
  Starters,    \* processes that open the memory of the workspace
  MaxValues    \* bound on the random values drawn

ASSUME ValuesAssumption == MaxValues \in Nat

VARIABLES
  files,       \* what each file holds: the salt, and the key of every workspace id
  temporary,   \* what its temporary file holds
  starter,     \* process -> its place, the salt it goes by and the value it drew
  drawn,       \* os.urandom: how many values were drawn
  memories,    \* the memories: the workspace id and the key they were written under
  raced        \* history: two processes were creating the same file

keyVars == <<files, temporary, starter, drawn, memories, raced>>

Missing == 0
Values == 1..MaxValues
\* The salt file, and the key file of the workspace id of each salt.
Salt == 0
Names == {Salt} \cup Values

KeysInit ==
  /\ files = [n \in Names |-> Missing]
  /\ temporary = [n \in Names |-> Missing]
  /\ starter = [p \in Starters |-> [pc |-> "down", salt |-> Missing, value |-> Missing]]
  /\ drawn = 0
  /\ memories = {}
  /\ raced = FALSE

\* The file a process looks for: the salt when it starts, the key when it encrypts.
Wanted(p) == IF starter[p].salt = Missing THEN Salt ELSE starter[p].salt

\* A process goes on with the value of the file it wanted.
With(p, value) ==
  IF Wanted(p) = Salt THEN [starter[p] EXCEPT !.pc = "open", !.salt = value]
  ELSE [starter[p] EXCEPT !.pc = "keyed", !.value = value]

Creating(p, name) == starter[p].pc \in {"absent", "written"} /\ Wanted(p) = name

-----------------------------------------------------------------------------
Start(p) ==
  /\ starter[p].pc = "down"
  /\ starter' = [starter EXCEPT ![p].pc = "start"]
  /\ UNCHANGED <<files, temporary, drawn, memories, raced>>

\* path.exists(), and the value when it does.
Look(p) ==
  /\ starter[p].pc \in {"start", "open"}
  /\ starter' = [starter EXCEPT ![p] = IF files[Wanted(p)] = Missing THEN [@ EXCEPT !.pc = "absent"]
                                      ELSE With(p, files[Wanted(p)])]
  /\ raced' = (raced \/ (files[Wanted(p)] = Missing /\ \E q \in Starters : Creating(q, Wanted(p))))
  /\ UNCHANGED <<files, temporary, drawn, memories>>

\* Mutant: the value is used as soon as it is in the temporary file.
WriteTemporaryAndGo(p) ==
  /\ starter[p].pc = "absent"
  /\ drawn < MaxValues
  /\ drawn' = drawn + 1
  /\ temporary' = [temporary EXCEPT ![Wanted(p)] = drawn + 1]
  /\ starter' = [starter EXCEPT ![p] = With(p, drawn + 1)]
  /\ UNCHANGED <<files, memories, raced>>

\* os.urandom and write_bytes.
WriteTemporary(p) ==
  /\ starter[p].pc = "absent"
  /\ drawn < MaxValues
  /\ drawn' = drawn + 1
  /\ temporary' = [temporary EXCEPT ![Wanted(p)] = drawn + 1]
  /\ starter' = [starter EXCEPT ![p].pc = "written", ![p].value = drawn + 1]
  /\ UNCHANGED <<files, memories, raced>>

\* temporary.replace(path): it raises when another process has renamed the file, and
\* else the process goes on with the value it drew.
Rename(p) ==
  LET name == Wanted(p) IN
  /\ starter[p].pc = "written"
  /\ IF temporary[name] = Missing
     THEN /\ starter' = [starter EXCEPT ![p] = [pc |-> "down", salt |-> Missing, value |-> Missing]]
          /\ UNCHANGED <<files, temporary>>
     ELSE /\ files' = [files EXCEPT ![name] = temporary[name]]
          /\ temporary' = [temporary EXCEPT ![name] = Missing]
          /\ starter' = [starter EXCEPT ![p] = With(p, starter[p].value)]
  /\ UNCHANGED <<drawn, memories, raced>>

\* encrypt and insert; the next memory asks for the key anew.
EncryptMemory(p) ==
  /\ starter[p].pc = "keyed"
  /\ memories' = memories \cup {[workspace |-> starter[p].salt, key |-> starter[p].value]}
  /\ starter' = [starter EXCEPT ![p] = [pc |-> "open", salt |-> @.salt, value |-> Missing]]
  /\ UNCHANGED <<files, temporary, drawn, raced>>

Crash(p) ==
  /\ starter[p].pc # "down"
  /\ starter' = [starter EXCEPT ![p] = [pc |-> "down", salt |-> Missing, value |-> Missing]]
  /\ UNCHANGED <<files, temporary, drawn, memories, raced>>

KeysNext == \E p \in Starters :
  Start(p) \/ Look(p) \/ WriteTemporary(p) \/ Rename(p) \/ EncryptMemory(p) \/ Crash(p)

KeysSpec == KeysInit /\ [][KeysNext]_keyVars

-----------------------------------------------------------------------------
\* As long as no two processes create the same file at once, every memory can be found
\* and decrypted by whoever opens the workspace next, also when a creator crashes at any
\* point and leaves its temporary file behind.
MemoriesStayReadable ==
  ~raced => \A row \in memories : row.workspace = files[Salt] /\ row.key = files[row.workspace]

=============================================================================
