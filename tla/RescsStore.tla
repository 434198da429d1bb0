------------------------------ MODULE RescsStore ------------------------------
(***************************************************************************)
(* The R.E.S.C.S. file adapter (core/rescs/adapter.py, FileRescsAdapter on *)
(* an InMemoryRescsAdapter): every change is made in memory and then saved *)
(* by writing all records to a temporary file that replaces the file.      *)
(*                                                                         *)
(* A process may be killed between any two steps, and a step of the file   *)
(* system may fail, reading included. The host and the provision-device    *)
(* command (core/cli/main.py) each have an adapter of their own on the     *)
(* same file, and nothing keeps them from having it open together. A kill  *)
(* loses what has not been written yet, but no power fails: there is no    *)
(* fsync to model.                                                         *)
(***************************************************************************)
EXTENDS RescsTables

CONSTANTS
  Processes,
  Inodes,
  NoFile,
  NoTable,     \* what is in a file that is not a table
  Unreadable,  \* records _load cannot make an object of
  Seen,        \* resources with a last_seen
  Restamped    \* a record that was given the time of now as its registered_at

ASSUME StoreAssumption ==
  /\ Unreadable \subseteq Values /\ Seen \subseteq Values \ Unreadable
  /\ Restamped \in [Values -> Values] /\ Absent \notin Values
  /\ NoFile \notin Inodes /\ NoTable \notin Tables

VARIABLES
  file,       \* the inode at the path of the file, or NoFile
  temp,       \* the inode at the path of the temporary file, or NoFile
  content,    \* the table in an inode, or NoTable
  opened,     \* processes with an adapter
  memory,     \* _memory of each of them
  step,       \* what a process does next: "idle" or a step of its save
  handle,     \* the inode it writes to, or NoFile
  changed,    \* history: the keys it has changed since it saved them
  stale,      \* history: the keys it has not read back, or others saved since
  tangled,    \* history: processes whose save overlaps with that of another
  saved,      \* history: the value of each key in the last save that changed it
  disturbed   \* history: the keys whose last saved value something undid

fileVars == <<file, temp, content>>
historyVars == <<changed, stale, tangled, saved, disturbed>>
vars == <<fileVars, opened, memory, step, handle, historyVars>>

\* The records in the file, if it is a table.
Stored ==
  IF file # NoFile /\ content[file] # NoTable THEN content[file] ELSE Empty

\* There may be a file from earlier on, edited by hand or by another version.
Init ==
  /\ file \in Inodes \cup {NoFile} /\ temp = NoFile
  /\ content \in [Inodes -> Tables \cup {NoTable}]
  /\ \A i \in Inodes \ {file} : content[i] = NoTable
  /\ opened = {} /\ memory = [p \in Processes |-> Empty]
  /\ step = [p \in Processes |-> "idle"]
  /\ handle = [p \in Processes |-> NoFile]
  /\ changed = [p \in Processes |-> {}]
  /\ stale = [p \in Processes |-> {}]
  /\ tangled = {} /\ saved = Stored /\ disturbed = {}

\* An inode no path and no process refers to any more is free.
Free == Inodes \ ({file, temp} \cup {handle[p] : p \in Processes})

-----------------------------------------------------------------------------
(* __init__ and _load.                                                     *)

\* What _load may make of a table. An item that raises is dropped. The name
\* datetime is bound by the first resource with a last_seen: registered_at is
\* restored from there on, in the order of the file, and silently not before.
Hydrated(table) ==
  LET seen == {k \in Keys : table[k] \in Seen}
      Made(k, restored) ==
        IF table[k] \in Unreadable \cup {Absent} THEN Absent
        ELSE IF k \in restored THEN table[k] ELSE Restamped[table[k]]
  IN  {[k \in Keys |-> Made(k, restored)] :
         restored \in {keys \in SUBSET Keys :
                         seen \subseteq keys /\ (seen = {} => keys = {})}}

\* A process has an adapter with these records. It may save them with its first
\* change, over those in the file.
Start(p, table) ==
  /\ p \notin opened
  /\ opened' = opened \cup {p}
  /\ memory' = [memory EXCEPT ![p] = table]
  /\ stale' = [stale EXCEPT ![p] = {k \in Keys : table[k] # Stored[k]}]
  /\ UNCHANGED <<temp, content, step, handle, changed, tangled, saved>>

\* There is no file, or it is read.
Load(p) ==
  /\ file # NoFile => content[file] # NoTable
  /\ \E table \in Hydrated(Stored) : Start(p, table)
  /\ UNCHANGED <<file, disturbed>>

\* The file cannot be opened or read, or is not a table: the adapter starts with
\* nothing. The file is renamed, "to never silently lose data"; if that fails it
\* stays where the first save will replace it.
StartAnew(p) ==
  /\ file # NoFile
  /\ Start(p, Empty)
  /\ \/ /\ file' = NoFile
        /\ disturbed' = disturbed \cup {k \in Keys : Stored[k] # Absent}
     \/ UNCHANGED <<file, disturbed>>

\* A process ends, or is killed in the middle of a save.
Gone(p) ==
  /\ p \in opened
  /\ opened' = opened \ {p}
  /\ memory' = [memory EXCEPT ![p] = Empty]
  /\ step' = [step EXCEPT ![p] = "idle"] /\ handle' = [handle EXCEPT ![p] = NoFile]
  /\ changed' = [changed EXCEPT ![p] = {}] /\ stale' = [stale EXCEPT ![p] = {}]
  /\ UNCHANGED <<fileVars, tangled, saved, disturbed>>

-----------------------------------------------------------------------------
(* persist_resource, persist_runtime, persist_device, delete_resource,     *)
(* delete_device and clear: memory first, then _save.                      *)

Change(p, keys, v) ==
  /\ p \in opened /\ step[p] = "idle"
  /\ memory' = [memory EXCEPT ![p] = [k \in Keys |-> IF k \in keys THEN v ELSE @[k]]]
  /\ step' = [step EXCEPT ![p] = "open"]
  /\ changed' = [changed EXCEPT ![p] = @ \cup keys]
  /\ UNCHANGED <<fileVars, opened, handle, stale, tangled, saved, disturbed>>

Persist(p, k, v) == Change(p, {k}, v)
Delete(p, k) == Change(p, {k}, Absent)
ClearRecords(p) == Change(p, Keys, Absent)

\* The processes in the middle of a save. One that joins them is tangled up with
\* them, for there is one path for their temporary files.
Saving == {p \in Processes : step[p] \in {"write", "replace"}}

Enter(p) ==
  /\ step[p] = "open"
  /\ step' = [step EXCEPT ![p] = "write"]
  /\ tangled' = IF Saving = {} THEN {} ELSE Saving \cup {p}
  /\ UNCHANGED <<opened, memory, changed, stale, saved, disturbed>>

\* Faulty: the file itself is opened for writing.
OpenFile(p) ==
  /\ Enter(p)
  /\ \E i \in IF file = NoFile THEN Free ELSE {file} :
       /\ file' = i /\ handle' = [handle EXCEPT ![p] = i]
       /\ content' = [content EXCEPT ![i] = NoTable]
  /\ UNCHANGED temp

\* Opening the temporary file truncates what a save has left there.
OpenTemp(p) ==
  /\ Enter(p)
  /\ \E i \in IF temp = NoFile THEN Free ELSE {temp} :
       /\ temp' = i /\ handle' = [handle EXCEPT ![p] = i]
       /\ content' = [content EXCEPT ![i] = NoTable]
  /\ UNCHANGED file

\* Two processes that write to the same inode may mix their texts up.
Disturbed(p) ==
  \/ content[handle[p]] # NoTable
  \/ \E q \in Processes \ {p} : handle[q] = handle[p]

\* The text is in the file once it is closed.
WriteTemp(p) ==
  /\ step[p] = "write"
  /\ step' = [step EXCEPT ![p] = "replace"]
  /\ handle' = [handle EXCEPT ![p] = NoFile]
  /\ \E text \in {memory[p]} \cup (IF Disturbed(p) THEN {NoTable} ELSE {}) :
       content' = [content EXCEPT ![handle[p]] = text]
  /\ UNCHANGED <<file, temp, opened, memory, historyVars>>

\* What p has changed is saved, unless it is tangled up with another process; the
\* others do not know, and what p did not know of has been overwritten.
Remember(p) ==
  /\ saved' = [k \in Keys |-> IF k \in changed[p] THEN memory[p][k] ELSE saved[k]]
  /\ disturbed' = IF p \in tangled THEN Keys
                  ELSE (disturbed \cup stale[p]) \ changed[p]
  /\ stale' = [q \in Processes |->
                 IF q = p THEN stale[p] \ changed[p]
                 ELSE IF q \in opened THEN stale[q] \cup changed[p] ELSE stale[q]]
  /\ changed' = [changed EXCEPT ![p] = {}]
  /\ UNCHANGED tangled

\* Whatever is at the path of the temporary file becomes the file, and what was
\* there before is gone.
Replace(p) ==
  /\ step[p] = "replace" /\ temp # NoFile
  /\ file' = temp /\ temp' = NoFile
  /\ step' = [step EXCEPT ![p] = "idle"]
  /\ content' = [i \in Inodes |-> IF i = file THEN NoTable ELSE content[i]]
  /\ Remember(p)
  /\ UNCHANGED <<opened, memory, handle>>

\* OSError: the records stay changed in memory.
SaveFails(p) ==
  /\ step[p] \in {"open", "write", "replace"}
  /\ step' = [step EXCEPT ![p] = "idle"] /\ handle' = [handle EXCEPT ![p] = NoFile]
  /\ UNCHANGED <<fileVars, opened, memory, historyVars>>

Save(p) == OpenTemp(p) \/ WriteTemp(p) \/ Replace(p) \/ SaveFails(p)

Next == \E p \in Processes :
  \/ Load(p) \/ StartAnew(p) \/ Gone(p) \/ Save(p) \/ ClearRecords(p)
  \/ \E k \in Keys : Delete(p, k) \/ \E v \in Values \ Unreadable : Persist(p, k, v)

Spec == Init /\ [][Next]_vars

-----------------------------------------------------------------------------
StoreOK ==
  /\ {file, temp} \subseteq Inodes \cup {NoFile}
  /\ content \in [Inodes -> Tables \cup {NoTable}]
  /\ opened \subseteq Processes /\ memory \in [Processes -> Tables]
  /\ step \in [Processes -> {"idle", "open", "write", "replace"}]
  /\ handle \in [Processes -> Inodes \cup {NoFile}]
  /\ {changed, stale} \subseteq [Processes -> SUBSET Keys]
  /\ tangled \subseteq Processes /\ saved \in Tables /\ disturbed \subseteq Keys

\* A change whose save succeeded is in the file until its key is changed again,
\* whichever saves fail and wherever a process is killed. Only four things undo
\* it, and make the key disturbed: the file is moved out of the way when a process
\* that cannot read it starts; a process saves that has started so, or has lost
\* the record or its registered_at in reading it back; a process saves that has
\* had the file open since before the change; two processes save at once.
SavedSurvives ==
  StoreOK /\ \A k \in Keys \ disturbed : Stored[k] = saved[k]

\* The adapter is a durable table for any number of processes: "file writes are
\* atomic", except the steps of a save that overlaps with another process's.
Durable == INSTANCE DurableTable WITH
  durable <- Stored, users <- opened, current <- memory, Read <- Hydrated

TableRefined ==
  Durable!Init
  /\ [][(\E p \in tangled : Save(p)) \/ Durable!Next]_(Durable!vars)
=============================================================================
