--------------------------- MODULE RescsStore_proofs ---------------------------
(***************************************************************************)
(* Proofs about RescsStore, for any number of processes that have the file *)
(* open at the same time, and any inodes, records and values.              *)
(***************************************************************************)
EXTENDS RescsStore, TLAPS

\* The temporary file is never the file itself. Two processes that save at once
\* are tangled up. What another process writes to is the temporary file, which is
\* empty until it is written; then it holds the memory of the process.
SaveInv ==
  /\ temp # NoFile => temp # file
  /\ \A p \in Processes :
       /\ handle[p] # NoFile <=> step[p] = "write"
       /\ step[p] # "idle" => p \in opened
       /\ step[p] = "write" /\ handle[p] = file => disturbed = Keys
  /\ \A p, q \in Saving : p # q => p \in tangled
  /\ \A p \in Processes \ tangled :
       /\ step[p] = "write" => handle[p] = temp /\ content[temp] = NoTable
       /\ step[p] = "replace" => temp # NoFile /\ content[temp] = memory[p]

\* A process knows what was saved last, but for what is changed, stale or
\* disturbed.
KnownInv ==
  \A p \in opened : \A k \in Keys \ (changed[p] \cup stale[p] \cup disturbed) :
    memory[p][k] = saved[k]

SavedInv == \A k \in Keys \ disturbed : Stored[k] = saved[k]

IInv == StoreOK /\ SaveInv /\ KnownInv /\ SavedInv

LEMMA EmptyTyped == Empty \in Tables /\ \A k \in Keys : Empty[k] = Absent
BY DEF Empty, Tables

LEMMA StoredTyped ==
  ASSUME StoreOK
  PROVE  Stored \in Tables
BY EmptyTyped DEF StoreOK, Stored

LEMMA HydratedTyped ==
  ASSUME NEW table \in Tables
  PROVE  Hydrated(table) \subseteq Tables
<1> SUFFICES ASSUME NEW restored \in SUBSET Keys, NEW k \in Keys,
                    table[k] \notin Unreadable \cup {Absent}
             PROVE  /\ table[k] \in Values \cup {Absent}
                    /\ Restamped[table[k]] \in Values \cup {Absent}
  BY DEF Hydrated, Tables
<1>1. table[k] \in Values
  BY DEF Tables
<1> QED BY <1>1, StoreAssumption

LEMMA InvInit == Init => IInv
<1> SUFFICES ASSUME Init PROVE IInv
  OBVIOUS
<1>1. /\ file \in Inodes \cup {NoFile} /\ temp = NoFile
      /\ content \in [Inodes -> Tables \cup {NoTable}]
      /\ opened = {} /\ tangled = {} /\ disturbed = {} /\ saved = Stored
      /\ \A p \in Processes : step[p] = "idle" /\ handle[p] = NoFile
  BY DEF Init
<1>2. Stored \in Tables
  BY <1>1, EmptyTyped DEF Stored
<1>3. StoreOK
  BY <1>1, <1>2, EmptyTyped DEF StoreOK, Init
<1>4. SaveInv
  BY <1>1 DEF SaveInv, Saving
<1> QED BY <1>1, <1>3, <1>4 DEF IInv, KnownInv, SavedInv

-----------------------------------------------------------------------------
(* The steps, one by one: each keeps the invariant.                        *)

\* A process starts with some records, and the stored ones stay as they are or
\* are moved out of the way.
LEMMA StartStep ==
  ASSUME IInv, NEW p \in Processes, NEW table \in Tables, Start(p, table),
         \/ UNCHANGED <<file, disturbed>>
         \/ /\ file' = NoFile /\ table = Empty
            /\ disturbed' = disturbed \cup {k \in Keys : Stored[k] # Absent}
  PROVE  /\ IInv' /\ Stored' \in {Stored, Empty}
         /\ (file' = file => Stored' = Stored)
<1>1. /\ p \notin opened /\ opened' = opened \cup {p}
      /\ memory' = [memory EXCEPT ![p] = table]
      /\ stale' = [stale EXCEPT ![p] = {k \in Keys : table[k] # Stored[k]}]
      /\ UNCHANGED <<temp, content, step, handle, changed, tangled, saved>>
  BY DEF Start
<1>2. /\ file' = file => Stored' = Stored
      /\ file' # file => Stored' = Empty
  BY <1>1 DEF Stored
<1>3. StoreOK'
  BY <1>1, <1>2 DEF IInv, StoreOK
<1>4. step[p] = "idle"
  BY <1>1 DEF IInv, SaveInv
<1>5. disturbed \subseteq disturbed' /\ disturbed' \subseteq Keys
  BY DEF IInv, StoreOK
<1>6. SaveInv'
  <2>1. Saving' = Saving
    BY <1>1 DEF Saving
  <2>2. \A q \in Processes : step[q] = "write" /\ handle[q] = file'
                               => disturbed' = Keys
    <3> SUFFICES ASSUME NEW q \in Processes, step[q] = "write", handle[q] = file'
                 PROVE  disturbed = Keys
      BY <1>5
    <3>1. handle[q] # NoFile
      BY DEF IInv, SaveInv
    <3>2. file' = file
      BY <3>1
    <3> QED BY <3>2 DEF IInv, SaveInv
  <2>3. temp # NoFile => temp # file'
    BY DEF IInv, SaveInv
  <2>4. \A q \in Processes \ {p} : memory'[q] = memory[q]
    BY <1>1 DEF IInv, StoreOK
  <2> QED BY <1>1, <1>4, <2>1, <2>2, <2>3, <2>4 DEF IInv, SaveInv
<1>7. ASSUME NEW k \in Keys \ disturbed' PROVE Stored'[k] = saved[k]
  <2>1. Stored[k] = saved[k]
    BY <1>5 DEF IInv, SavedInv
  <2>2. CASE Stored' = Stored
    BY <2>1, <2>2
  <2>3. CASE Stored' # Stored
    <3>1. k \notin {m \in Keys : Stored[m] # Absent}
      BY <1>2, <2>3
    <3> QED BY <1>2, <2>1, <2>3, <3>1, EmptyTyped
  <2> QED BY <2>2, <2>3
<1>8. KnownInv'
  <2> SUFFICES ASSUME NEW q \in opened',
                      NEW k \in Keys \ (changed'[q] \cup stale'[q] \cup disturbed')
               PROVE  memory'[q][k] = saved[k]
    BY <1>1 DEF KnownInv
  <2>1. CASE q = p
    <3>1. memory'[p] = table /\ k \notin {m \in Keys : table[m] # Stored[m]}
      BY <1>1, <2>1 DEF IInv, StoreOK
    <3>2. Stored[k] = saved[k]
      BY <1>5 DEF IInv, SavedInv
    <3> QED BY <2>1, <3>1, <3>2
  <2>2. CASE q # p
    <3>1. q \in opened /\ memory'[q] = memory[q] /\ stale'[q] = stale[q]
      BY <1>1, <2>2 DEF IInv, StoreOK
    <3> QED BY <1>1, <1>5, <3>1 DEF IInv, KnownInv
  <2> QED BY <2>1, <2>2
<1>9. SavedInv'
  BY <1>1, <1>7 DEF SavedInv
<1> QED BY <1>2, <1>3, <1>6, <1>8, <1>9 DEF IInv

LEMMA GoneStep ==
  ASSUME IInv, NEW p \in Processes, Gone(p)
  PROVE  IInv' /\ Stored' = Stored
<1>1. /\ p \in opened /\ opened' = opened \ {p}
      /\ memory' = [memory EXCEPT ![p] = Empty]
      /\ step' = [step EXCEPT ![p] = "idle"]
      /\ handle' = [handle EXCEPT ![p] = NoFile]
      /\ changed' = [changed EXCEPT ![p] = {}]
      /\ stale' = [stale EXCEPT ![p] = {}]
      /\ UNCHANGED <<file, temp, content, tangled, saved, disturbed>>
  BY DEF Gone, fileVars
<1>2. Stored' = Stored
  BY <1>1 DEF Stored
<1>3. StoreOK'
  BY <1>1, EmptyTyped DEF IInv, StoreOK
<1>4. /\ step'[p] = "idle" /\ handle'[p] = NoFile
      /\ \A q \in Processes \ {p} :
           step'[q] = step[q] /\ handle'[q] = handle[q] /\ memory'[q] = memory[q]
           /\ changed'[q] = changed[q] /\ stale'[q] = stale[q]
  BY <1>1 DEF IInv, StoreOK
<1>5. Saving' = Saving \ {p}
  BY <1>4 DEF Saving
<1>6. SaveInv'
  BY <1>1, <1>4, <1>5 DEF IInv, SaveInv
<1>7. KnownInv'
  BY <1>1, <1>4 DEF IInv, StoreOK, KnownInv
<1> QED BY <1>1, <1>2, <1>3, <1>6, <1>7 DEF IInv, SavedInv

\* A change leaves the file alone.
LEMMA ChangeStep ==
  ASSUME IInv, NEW p \in Processes, NEW keys \in SUBSET Keys,
         NEW v \in Values \cup {Absent}, Change(p, keys, v)
  PROVE  /\ IInv' /\ Stored' = Stored
         /\ memory' = [memory EXCEPT ![p] =
              [k \in Keys |-> IF k \in keys THEN v ELSE memory[p][k]]]
<1> DEFINE table == [k \in Keys |-> IF k \in keys THEN v ELSE memory[p][k]]
<1>1. /\ p \in opened /\ step[p] = "idle"
      /\ memory' = [memory EXCEPT ![p] = table]
      /\ step' = [step EXCEPT ![p] = "open"]
      /\ changed' = [changed EXCEPT ![p] = changed[p] \cup keys]
      /\ UNCHANGED <<file, temp, content, opened, handle, stale, tangled, saved,
                     disturbed>>
  BY DEF Change, fileVars
<1>2. Stored' = Stored
  BY <1>1 DEF Stored
<1>3. table \in Tables
  BY DEF IInv, StoreOK, Tables
<1>4. \A k \in Keys \ keys : table[k] = memory[p][k]
  OBVIOUS
<1> HIDE DEF table
<1>5. StoreOK'
  BY <1>1, <1>3 DEF IInv, StoreOK
<1>6. /\ step'[p] = "open" /\ memory'[p] = table
      /\ changed'[p] = changed[p] \cup keys
      /\ \A q \in Processes \ {p} :
           step'[q] = step[q] /\ memory'[q] = memory[q] /\ changed'[q] = changed[q]
  BY <1>1 DEF IInv, StoreOK
<1>7. Saving' = Saving
  BY <1>1, <1>6 DEF Saving
<1>8. SaveInv'
  BY <1>1, <1>6, <1>7 DEF IInv, SaveInv
<1>9. KnownInv'
  BY <1>1, <1>4, <1>6 DEF IInv, StoreOK, KnownInv
<1>10. SavedInv'
  BY <1>1, <1>2 DEF IInv, SavedInv
<1> QED BY <1>1, <1>2, <1>5, <1>8, <1>9, <1>10 DEF IInv, table

LEMMA OpenTempStep ==
  ASSUME IInv, NEW p \in Processes, OpenTemp(p)
  PROVE  IInv' /\ Stored' = Stored /\ UNCHANGED <<opened, memory>>
<1>1. /\ step[p] = "open" /\ step' = [step EXCEPT ![p] = "write"]
      /\ tangled' = IF Saving = {} THEN {} ELSE Saving \cup {p}
      /\ UNCHANGED <<file, opened, memory, changed, stale, saved, disturbed>>
  BY DEF OpenTemp, Enter
<1>2. PICK i \in Inodes :
        /\ temp' = i /\ i # file
        /\ handle' = [handle EXCEPT ![p] = i]
        /\ content' = [content EXCEPT ![i] = NoTable]
  BY DEF OpenTemp, Free, IInv, StoreOK, SaveInv
<1>3. Stored' = Stored
  BY <1>1, <1>2 DEF Stored, IInv, StoreOK
<1>4. StoreOK'
  BY <1>1, <1>2 DEF IInv, StoreOK, Saving
<1>5. /\ step'[p] = "write" /\ handle'[p] = i /\ content'[i] = NoTable
      /\ \A q \in Processes \ {p} : step'[q] = step[q] /\ handle'[q] = handle[q]
      /\ p \in opened
  BY <1>1, <1>2 DEF IInv, StoreOK, SaveInv
<1>6. Saving' = Saving \cup {p} /\ p \notin Saving
  BY <1>1, <1>5 DEF Saving
<1>7. SaveInv'
  <2>1. \A q \in Processes :
          /\ handle'[q] # NoFile <=> step'[q] = "write"
          /\ step'[q] # "idle" => q \in opened
          /\ step'[q] = "write" /\ handle'[q] = file => disturbed = Keys
    BY <1>2, <1>5, StoreAssumption DEF IInv, SaveInv
  <2>2. \A q, r \in Saving' : q # r => q \in tangled'
    BY <1>1, <1>6
  <2>3. ASSUME NEW q \in Processes \ tangled'
        PROVE  /\ step'[q] = "write" => handle'[q] = i /\ content'[i] = NoTable
               /\ step'[q] # "replace"
    <3>1. q \in Saving' => q = p
      BY <1>1, <1>6, <2>3
    <3> QED BY <1>5, <3>1 DEF Saving
  <2> QED BY <1>1, <1>2, <2>1, <2>2, <2>3 DEF SaveInv
<1>8. KnownInv'
  BY <1>1 DEF IInv, KnownInv
<1> QED BY <1>1, <1>3, <1>4, <1>7, <1>8 DEF IInv, SavedInv

\* What a process writes that is not tangled up is what it remembers.
LEMMA WriteTempStep ==
  ASSUME IInv, NEW p \in Processes, WriteTemp(p)
  PROVE  /\ IInv' /\ UNCHANGED <<opened, memory>>
         /\ p \notin tangled => Stored' = Stored
<1>1. /\ step[p] = "write" /\ step' = [step EXCEPT ![p] = "replace"]
      /\ handle' = [handle EXCEPT ![p] = NoFile]
      /\ UNCHANGED <<file, temp, opened, memory, changed, stale, tangled, saved,
                     disturbed>>
  BY DEF WriteTemp, historyVars
<1>2. handle[p] \in Inodes
  BY <1>1 DEF IInv, StoreOK, SaveInv
<1>3. PICK text \in Tables \cup {NoTable} :
        /\ content' = [content EXCEPT ![handle[p]] = text]
        /\ ~Disturbed(p) => text = memory[p]
  BY DEF WriteTemp, IInv, StoreOK
<1>4. /\ step'[p] = "replace" /\ handle'[p] = NoFile
      /\ \A q \in Processes \ {p} : step'[q] = step[q] /\ handle'[q] = handle[q]
  BY <1>1 DEF IInv, StoreOK
<1>5. Saving' = Saving /\ p \in Saving
  BY <1>1, <1>4 DEF Saving
<1>6. handle[p] # file => Stored' = Stored
  BY <1>1, <1>3 DEF Stored, IInv, StoreOK
<1>7. p \notin tangled => handle[p] = temp /\ temp # file /\ text = memory[p]
  <2> SUFFICES ASSUME p \notin tangled
               PROVE  handle[p] = temp /\ temp # file /\ ~Disturbed(p)
    BY <1>3
  <2>1. handle[p] = temp /\ content[temp] = NoTable
    BY <1>1 DEF IInv, SaveInv
  <2>2. temp # file
    BY <1>2, <2>1, StoreAssumption DEF IInv, SaveInv
  <2>3. \A q \in Processes \ {p} : handle[q] # handle[p]
    <3> SUFFICES ASSUME NEW q \in Processes \ {p}, handle[q] = handle[p]
                 PROVE  FALSE
      OBVIOUS
    <3>1. step[q] = "write"
      BY <1>2, StoreAssumption DEF IInv, SaveInv
    <3> QED BY <1>5, <3>1 DEF IInv, SaveInv, Saving
  <2> QED BY <2>1, <2>2, <2>3 DEF Disturbed
<1>8. StoreOK'
  BY <1>1, <1>3 DEF IInv, StoreOK
<1>9. SaveInv'
  <2>1. \A q \in Processes :
          /\ handle'[q] # NoFile <=> step'[q] = "write"
          /\ step'[q] # "idle" => q \in opened
          /\ step'[q] = "write" /\ handle'[q] = file => disturbed = Keys
    BY <1>1, <1>4 DEF IInv, SaveInv
  <2>2. ASSUME NEW q \in Processes \ tangled
        PROVE  /\ step'[q] = "write" => handle'[q] = temp /\ content'[temp] = NoTable
               /\ step'[q] = "replace" => temp # NoFile /\ content'[temp] = memory[q]
    <3>1. CASE q = p
      <4>1. handle[p] = temp /\ text = memory[p] /\ temp # NoFile
        BY <1>2, <1>7, <2>2, <3>1, StoreAssumption
      <4>2. content'[temp] = memory[p]
        BY <1>2, <1>3, <4>1 DEF IInv, StoreOK
      <4> QED BY <1>4, <3>1, <4>1, <4>2
    <3>2. CASE q # p
      BY <1>4, <1>5, <2>2, <3>2 DEF IInv, SaveInv, Saving
    <3> QED BY <3>1, <3>2
  <2> QED BY <1>1, <1>5, <2>1, <2>2 DEF IInv, SaveInv
<1>10. KnownInv'
  BY <1>1 DEF IInv, KnownInv
<1>11. SavedInv'
  <2>1. CASE handle[p] = file
    BY <1>1, <2>1 DEF IInv, SaveInv, SavedInv
  <2>2. CASE handle[p] # file
    BY <1>1, <1>6, <2>2 DEF IInv, SavedInv
  <2> QED BY <2>1, <2>2
<1> QED BY <1>1, <1>6, <1>7, <1>8, <1>9, <1>10, <1>11 DEF IInv

\* The one step that changes what is stored.
LEMMA ReplaceStep ==
  ASSUME IInv, NEW p \in Processes, Replace(p)
  PROVE  /\ IInv' /\ UNCHANGED <<opened, memory>> /\ p \in opened
         /\ p \notin tangled => Stored' = memory[p]
<1>1. /\ step[p] = "replace" /\ temp # NoFile /\ file' = temp /\ temp' = NoFile
      /\ step' = [step EXCEPT ![p] = "idle"]
      /\ content' = [i \in Inodes |-> IF i = file THEN NoTable ELSE content[i]]
      /\ UNCHANGED <<opened, memory, handle, tangled>>
  BY DEF Replace, Remember
<1>2. /\ saved' = [k \in Keys |-> IF k \in changed[p] THEN memory[p][k] ELSE saved[k]]
      /\ disturbed' = IF p \in tangled THEN Keys
                      ELSE (disturbed \cup stale[p]) \ changed[p]
      /\ changed' = [changed EXCEPT ![p] = {}]
      /\ stale' = [q \in Processes |->
            IF q = p THEN stale[p] \ changed[p]
            ELSE IF q \in opened THEN stale[q] \cup changed[p] ELSE stale[q]]
  BY DEF Replace, Remember
<1>3. p \in opened /\ p \in Saving /\ temp \in Inodes /\ temp # file
  BY <1>1 DEF IInv, StoreOK, SaveInv, Saving
<1>4. /\ step'[p] = "idle" /\ \A q \in Processes \ {p} : step'[q] = step[q]
  BY <1>1 DEF IInv, StoreOK
<1>5. Saving' = Saving \ {p}
  BY <1>4 DEF Saving
<1>6. StoreOK'
  <2>1. content' \in [Inodes -> Tables \cup {NoTable}]
    BY <1>1 DEF IInv, StoreOK
  <2>2. saved' \in Tables
    BY <1>2, <1>3 DEF IInv, StoreOK, Tables
  <2>3. /\ {changed', stale'} \subseteq [Processes -> SUBSET Keys]
        /\ disturbed' \subseteq Keys
    BY <1>2, <1>3 DEF IInv, StoreOK
  <2> QED BY <1>1, <1>3, <2>1, <2>2, <2>3 DEF IInv, StoreOK
<1>7. p \notin tangled => Stored' = memory[p]
  <2> SUFFICES ASSUME p \notin tangled PROVE Stored' = memory[p]
    OBVIOUS
  <2>1. content'[temp] = memory[p] /\ memory[p] \in Tables
    BY <1>1, <1>3 DEF IInv, StoreOK, SaveInv
  <2> QED BY <1>1, <2>1, StoreAssumption DEF Stored
<1>8. p \notin tangled => Saving = {p}
  BY <1>3 DEF IInv, SaveInv
<1>9. SaveInv'
  <2>1. ASSUME NEW q \in Processes, step'[q] = "write", handle[q] = temp
        PROVE  disturbed' = Keys
    <3>1. q # p /\ q \in Saving
      BY <1>4, <2>1 DEF Saving
    <3> QED BY <1>2, <1>8, <3>1
  <2>2. \A q \in Processes : /\ handle[q] # NoFile <=> step'[q] = "write"
                             /\ step'[q] # "idle" => q \in opened
    BY <1>1, <1>4 DEF IInv, SaveInv
  <2>3. ASSUME NEW q \in Processes \ tangled
        PROVE  step'[q] # "write" /\ step'[q] # "replace"
    BY <1>3, <1>4, <2>3 DEF IInv, SaveInv, Saving
  <2> QED BY <1>1, <1>5, <2>1, <2>2, <2>3 DEF IInv, SaveInv
<1>10. KnownInv' /\ SavedInv'
  <2>1. CASE p \in tangled
    BY <1>2, <2>1 DEF KnownInv, SavedInv
  <2>2. CASE p \notin tangled
    <3>1. ASSUME NEW k \in Keys \ disturbed'
          PROVE  /\ memory[p][k] = saved'[k]
                 /\ k \notin changed[p] => saved'[k] = saved[k] /\ k \notin disturbed
      BY <1>2, <1>3, <2>2 DEF IInv, KnownInv
    <3>2. SavedInv'
      BY <1>7, <2>2, <3>1 DEF SavedInv
    <3>3. KnownInv'
      <4> SUFFICES ASSUME NEW q \in opened,
                          NEW k \in Keys \ (changed'[q] \cup stale'[q] \cup disturbed')
                   PROVE  memory[q][k] = saved'[k]
        BY <1>1 DEF KnownInv
      <4>1. CASE q = p
        BY <3>1, <4>1
      <4>2. CASE q # p
        <5>1. q \in Processes
          BY DEF IInv, StoreOK
        <5>2. stale'[q] = stale[q] \cup changed[p] /\ changed'[q] = changed[q]
          BY <1>2, <4>2, <5>1 DEF IInv, StoreOK
        <5> QED BY <3>1, <5>2 DEF IInv, KnownInv
      <4> QED BY <4>1, <4>2
    <3> QED BY <3>2, <3>3
  <2> QED BY <2>1, <2>2
<1> QED BY <1>1, <1>3, <1>6, <1>7, <1>9, <1>10 DEF IInv

LEMMA SaveFailsStep ==
  ASSUME IInv, NEW p \in Processes, SaveFails(p)
  PROVE  IInv' /\ Stored' = Stored /\ UNCHANGED <<opened, memory>>
<1>1. /\ step' = [step EXCEPT ![p] = "idle"]
      /\ handle' = [handle EXCEPT ![p] = NoFile]
      /\ UNCHANGED <<file, temp, content, opened, memory, changed, stale, tangled,
                     saved, disturbed>>
  BY DEF SaveFails, fileVars, historyVars
<1>2. Stored' = Stored
  BY <1>1 DEF Stored
<1>3. StoreOK'
  BY <1>1 DEF IInv, StoreOK
<1>4. /\ step'[p] = "idle" /\ handle'[p] = NoFile
      /\ \A q \in Processes \ {p} : step'[q] = step[q] /\ handle'[q] = handle[q]
  BY <1>1 DEF IInv, StoreOK
<1>5. Saving' = Saving \ {p}
  BY <1>4 DEF Saving
<1>6. SaveInv'
  BY <1>1, <1>4, <1>5 DEF IInv, SaveInv
<1>7. KnownInv' /\ SavedInv'
  BY <1>1, <1>2 DEF IInv, KnownInv, SavedInv
<1> QED BY <1>1, <1>2, <1>3, <1>6, <1>7 DEF IInv

-----------------------------------------------------------------------------
(* The adapter implements the durable table.                               *)

\* Steps of saves that are tangled up, which the table knows nothing of.
TangledSave == \E p \in tangled : Save(p)

\* Each step of the adapter keeps the invariant, and is one of the table or of a
\* tangled save.
LEMMA StepImplements ==
  ASSUME IInv, [Next]_vars
  PROVE  IInv' /\ [TangledSave \/ Durable!Next]_(Durable!vars)
<1> USE DEF Durable!vars
<1>1. ASSUME NEW p \in Processes, Load(p)
      PROVE  IInv' /\ Durable!Next
  <2>1. PICK table \in Hydrated(Stored) : Start(p, table)
    BY <1>1 DEF Load
  <2>2. table \in Tables
    BY StoredTyped, HydratedTyped DEF IInv
  <2>3. IInv' /\ Stored' = Stored
    BY <1>1, <2>1, <2>2, StartStep DEF Load
  <2>4. Durable!Start(p, table)
    BY <2>1 DEF Start, Durable!Start
  <2>5. Durable!Recover(p)
    BY <2>3, <2>4 DEF Durable!Recover
  <2> QED BY <2>3, <2>5 DEF Durable!Next
<1>2. ASSUME NEW p \in Processes, StartAnew(p)
      PROVE  IInv' /\ Durable!Next
  <2>1. /\ Start(p, Empty)
        /\ \/ UNCHANGED <<file, disturbed>>
           \/ /\ file' = NoFile
              /\ disturbed' = disturbed \cup {k \in Keys : Stored[k] # Absent}
    BY <1>2 DEF StartAnew
  <2>2. IInv' /\ Stored' \in {Stored, Empty}
    BY <2>1, EmptyTyped, StartStep
  <2>3. Durable!Nothing = Empty
    BY DEF Durable!Nothing, Empty
  <2>4. Durable!StartAnew(p)
    BY <2>1, <2>2, <2>3 DEF Start, Durable!Start, Durable!StartAnew
  <2> QED BY <2>2, <2>4 DEF Durable!Next
<1>3. ASSUME NEW p \in Processes, Gone(p)
      PROVE  IInv' /\ Durable!Next
  <2>1. IInv' /\ Stored' = Stored
    BY <1>3, GoneStep
  <2>2. Durable!End(p)
    BY <1>3, <2>1 DEF Gone, Durable!End, Durable!Nothing, Empty
  <2> QED BY <2>1, <2>2 DEF Durable!Next
<1>4. ASSUME NEW p \in Processes, NEW k \in Keys, NEW v \in Values \cup {Absent},
             Change(p, {k}, v)
      PROVE  IInv' /\ Durable!Next
  <2>1. /\ IInv' /\ Stored' = Stored
        /\ memory' = [memory EXCEPT ![p] =
             [m \in Keys |-> IF m \in {k} THEN v ELSE memory[p][m]]]
    BY <1>4, ChangeStep
  <2>2. memory[p] \in [Keys -> Values \cup {Absent}]
    BY DEF IInv, StoreOK, Tables
  <2>3. [m \in Keys |-> IF m \in {k} THEN v ELSE memory[p][m]]
          = [memory[p] EXCEPT ![k] = v]
    BY <2>2
  <2>4. Durable!Put(p, k, v)
    BY <1>4, <2>1, <2>3 DEF Change, Durable!Put
  <2> QED BY <2>1, <2>4 DEF Durable!Next
<1>5. ASSUME NEW p \in Processes, ClearRecords(p)
      PROVE  IInv' /\ Durable!Next
  <2>1. /\ IInv' /\ Stored' = Stored
        /\ memory' = [memory EXCEPT ![p] =
             [m \in Keys |-> IF m \in Keys THEN Absent ELSE memory[p][m]]]
    <3>1. Change(p, Keys, Absent) /\ Keys \in SUBSET Keys
      BY <1>5 DEF ClearRecords
    <3> QED BY <3>1, ChangeStep
  <2>2. [m \in Keys |-> IF m \in Keys THEN Absent ELSE memory[p][m]]
          = Durable!Nothing
    BY DEF Durable!Nothing
  <2>3. p \in opened /\ opened' = opened
    BY <1>5 DEF ClearRecords, Change
  <2>4. Durable!Clear(p)
    BY <2>1, <2>2, <2>3 DEF Durable!Clear
  <2> QED BY <2>1, <2>4 DEF Durable!Next
<1>6. ASSUME NEW p \in Processes, Save(p)
      PROVE  IInv' /\ [TangledSave \/ Durable!Next]_(Durable!vars)
  <2>1. /\ IInv' /\ UNCHANGED <<opened, memory>>
        /\ p \notin tangled =>
             Stored' = Stored \/ (p \in opened /\ Stored' = memory[p])
    BY <1>6, OpenTempStep, WriteTempStep, ReplaceStep, SaveFailsStep DEF Save
  <2>2. CASE p \in tangled
    BY <1>6, <2>1, <2>2 DEF TangledSave
  <2>3. CASE p \notin tangled
    <3>1. CASE Stored' = Stored
      BY <2>1, <3>1
    <3>2. CASE p \in opened /\ Stored' = memory[p]
      <4>1. Durable!Commit(p)
        BY <2>1, <3>2 DEF Durable!Commit
      <4> QED BY <2>1, <4>1 DEF Durable!Next
    <3> QED BY <2>1, <2>3, <3>1, <3>2
  <2> QED BY <2>2, <2>3
<1>7. CASE UNCHANGED vars
  <2>1. IInv' /\ Stored' = Stored /\ UNCHANGED <<opened, memory>>
    BY <1>7 DEF vars, fileVars, historyVars, IInv, StoreOK, SaveInv, KnownInv,
                SavedInv, Stored, Saving
  <2> QED BY <2>1
<1> QED
  BY <1>1, <1>2, <1>3, <1>4, <1>5, <1>6, <1>7 DEF Next, Persist, Delete

-----------------------------------------------------------------------------
(* The theorems.                                                           *)

LEMMA Invariance == Spec => []IInv
<1>1. IInv /\ [Next]_vars => IInv'
  BY StepImplements
<1> QED BY InvInit, <1>1, PTL DEF Spec

\* What was saved last of every record is in the file, wherever a process was
\* killed and whichever saves failed, unless one of the four things happened to
\* it: a start that could not read the file or moved it away, a record that was
\* not read back as it was, a process that had the file open since before, or
\* two saves at once.
THEOREM SavedSurvivesHolds == Spec => []SavedSurvives
<1>1. IInv => SavedSurvives
  BY DEF IInv, SavedInv, SavedSurvives
<1> QED BY <1>1, Invariance, PTL

\* For any number of processes with the file open, the adapter is a durable
\* table but for saves that overlap: a record is stored with all the others the
\* process has at that moment, or not at all.
THEOREM TableRefinedHolds == Spec => TableRefined
<1>1. Init => Durable!Init
  <2> SUFFICES ASSUME Init PROVE Durable!Init
    OBVIOUS
  <2>1. Stored \in [Keys -> Values \cup {Absent}]
    BY InvInit, StoredTyped DEF IInv, Tables
  <2> QED BY <2>1 DEF Init, Durable!Init, Durable!Nothing, Empty
<1>2. IInv /\ [Next]_vars => [TangledSave \/ Durable!Next]_(Durable!vars)
  BY StepImplements
<1>3. Init /\ []IInv /\ [][Next]_vars
        => Durable!Init /\ [][TangledSave \/ Durable!Next]_(Durable!vars)
  BY <1>1, <1>2, PTL
<1> QED BY <1>3, Invariance DEF Spec, TableRefined, TangledSave

=============================================================================
