---------------------------- MODULE Records_proofs ----------------------------
(***************************************************************************)
(* Proofs about what becomes of records: in the remote store and its copy  *)
(* (RescsRemote), in the registry and the index that they are ingested     *)
(* into (Organization), in the answers to the devices that ask for them    *)
(* (DataOrganizer), and in the pages of those answers (RecordPages). For   *)
(* any keys, records, threads, requests and pages.                         *)
(***************************************************************************)
EXTENDS Organization, DataOrganizer, RecordPages, FiniteSetTheorems, SequenceTheorems,
        WellFoundedInduction, TLAPS

-----------------------------------------------------------------------------
(* The remote store and its copy.                                          *)

\* A key that is certain is the same everywhere, and nothing on its way to the
\* store can change it.
CopiesAgree ==
  \A k \in Keys \ unsure :
    remote[k] = acked[k] /\ local[k] = acked[k] /\ ~Late(k)

RemoteInv == RemoteOK /\ CopiesAgree

LEMMA SetTypes ==
  ASSUME NEW table \in Tables, NEW keys, NEW v \in Values \cup {Absent}
  PROVE  /\ Set(table, Request(keys, v)) \in Tables
         /\ \A k \in Keys : Set(table, Request(keys, v))[k] =
              IF k \in keys THEN v ELSE table[k]
BY DEF Set, Request, Tables

LEMMA RemoteInitial == RemoteInit => RemoteInv
BY DEF RemoteInit, RemoteInv, RemoteOK, CopiesAgree, Empty, Tables, Late

LEMMA WriteStep ==
  ASSUME RemoteInv, NEW k \in Keys, NEW v \in Values \cup {Absent},
         WriteSucceeds(k, v) \/ WriteFails(k, v) \/ RemoteChanges(k, v)
  PROVE  RemoteInv'
<1>1. CASE WriteSucceeds(k, v)
  BY <1>1, SetTypes DEF RemoteInv, RemoteOK, CopiesAgree, WriteSucceeds, Acknowledge,
      Tables, Late
<1>2. CASE WriteFails(k, v)
  <2>1. RemoteOK'
    BY <1>2, SetTypes DEF RemoteInv, RemoteOK, WriteFails, Tables, Request
  <2>2. CopiesAgree'
    BY <1>2, SetTypes DEF RemoteInv, RemoteOK, CopiesAgree, WriteFails, Tables, Late,
        Request
  <2> QED BY <2>1, <2>2 DEF RemoteInv
<1>3. CASE RemoteChanges(k, v)
  BY <1>3 DEF RemoteInv, RemoteOK, CopiesAgree, RemoteChanges, Tables, Late
<1> QED BY <1>1, <1>2, <1>3

LEMMA LateStep == ASSUME RemoteInv, LateArrives PROVE RemoteInv'
<1>1. PICK todo \in late :
        /\ remote' = Set(remote, todo) /\ late' = late \ {todo}
        /\ UNCHANGED <<local, acked, unsure>>
  BY DEF LateArrives
<1>2. /\ todo.keys \subseteq Keys /\ todo.value \in Values \cup {Absent}
      /\ todo.keys \subseteq unsure
  BY DEF RemoteInv, RemoteOK, CopiesAgree, Late
<1>3. RemoteOK'
  BY <1>1, <1>2 DEF RemoteInv, RemoteOK, Set, Tables
<1>4. CopiesAgree'
  BY <1>1, <1>2 DEF RemoteInv, CopiesAgree, Set, Late
<1> QED BY <1>3, <1>4 DEF RemoteInv

\* clear() leaves unsure what it has not deleted, or may delete late.
LEMMA ClearStep ==
  ASSUME RemoteConstants, RemoteInv,
         ClearSucceeds \/ \E deleted, done \in Progress : ClearByKind(deleted, done)
  PROVE  RemoteInv'
<1>1. Empty \in Tables /\ \A k \in Keys : Empty[k] = Absent
  BY DEF Empty, Tables
<1>2. CASE ClearSucceeds
  BY <1>1, <1>2, SetTypes
     DEF RemoteInv, RemoteOK, CopiesAgree, ClearSucceeds, Acknowledge, Late
<1>3. CASE \E deleted, done \in Progress : ClearByKind(deleted, done)
  <2>1. PICK deleted \in Progress, done \in Progress : ClearByKind(deleted, done)
    BY <1>3
  <2>2. /\ KeysOf(deleted) \subseteq KeysOf(done)
        /\ local' = Empty
        /\ remote' = Set(remote, Request(KeysOf(done), Absent))
        /\ late' \in {late, late \cup {Request(Keys, Absent)}}
        /\ acked' = Set(acked, Request(KeysOf(deleted), Absent))
        /\ unsure' = (Keys \ KeysOf(deleted)) \cup {k \in Keys : Late(k)'}
    BY <2>1 DEF ClearByKind, KeysOf
  <2>3. RemoteOK'
    BY <1>1, <2>2, SetTypes DEF RemoteInv, RemoteOK, Request
  <2>4. CopiesAgree'
    BY <1>1, <2>2, SetTypes DEF RemoteInv, RemoteOK, CopiesAgree
  <2> QED BY <2>3, <2>4 DEF RemoteInv
<1> QED BY <1>2, <1>3

LEMMA RemoteStep ==
  ASSUME RemoteConstants, RemoteInv, [RemoteNext]_remoteVars PROVE RemoteInv'
<1>1. CASE UNCHANGED remoteVars
  BY <1>1 DEF remoteVars, RemoteInv, RemoteOK, CopiesAgree, Late
<1> QED BY <1>1, WriteStep, LateStep, ClearStep DEF RemoteNext

\* Whatever is lost, delayed or changed by others: a record whose last write
\* succeeded is read as it was written, from the store and from the copy, with
\* and without the fallback, for any keys and values.
THEOREM ReadYourWritesHolds ==
  ASSUME RemoteConstants PROVE RemoteSpec => []ReadYourWrites
<1>1. RemoteInv => ReadYourWrites
  BY DEF RemoteInv, CopiesAgree, ReadYourWrites, Fetched, Found, NotReached, Listed
<1>2. RemoteInv /\ [RemoteNext]_remoteVars => RemoteInv'
  BY RemoteStep
<1> QED BY <1>1, <1>2, RemoteInitial, PTL DEF RemoteSpec


-----------------------------------------------------------------------------
(* The registry and the index: the inductive invariant.                    *)

Todos ==
  {todo \in [do : {"fetch", "upsert", "insert", "update", "categorize", "unregister",
                   "uncategorize", "mirror"},
             key : Keys, value : Resource \cup {Absent}, quiet : BOOLEAN] :
     todo.do \in {"upsert", "insert", "update", "categorize"} => todo.value \in Resource}

OrganizationTypes ==
  /\ OrganizationOK
  /\ agenda \in [Threads -> Seq(Todos)]
  /\ target \in [Threads -> Tables \cup {<<>>}]

\* What follows what in an agenda: an insertion, which never is quiet, is followed
\* by the entry of what it inserts; an entry is removed at once; and no step that
\* may change the type of a resource comes before an entry but its insertion.
Ordered(A) ==
  /\ \A i \in DOMAIN A : A[i].do = "insert" =>
       /\ ~A[i].quiet /\ i + 1 \in DOMAIN A /\ A[i + 1].do = "categorize"
       /\ A[i + 1].key = A[i].key /\ A[i + 1].value = A[i].value
  /\ \A i \in DOMAIN A : A[i].do = "uncategorize" => i = 1
  /\ \A i, j \in DOMAIN A :
       i < j /\ A[i].key = A[j].key /\ A[j].do = "categorize" =>
         A[i].do = "update" \/ A[j - 1].do = "insert"

\* An entry that is of a resource which is there already.
Loose(A, i) == A[i].do = "categorize" /\ (i = 1 \/ A[i - 1].do # "insert")

Agrees(k) == index[k] = IF resources[k] = Absent THEN Absent ELSE resources[k].type

Has(k, type) == resources[k] # Absent /\ resources[k].type = type

\* The next step of a thread is the one that makes the entry of k agree.
Next1(A, k) == A # <<>> /\ A[1].key = k /\ A[1].do \in {"categorize", "uncategorize"}

Settled == \A k \in Keys \ doubtful : Agrees(k) \/ \E t \in Threads : Next1(agenda[t], k)

Typed ==
  \A t \in Threads : \A i \in DOMAIN agenda[t] :
    Loose(agenda[t], i) /\ agenda[t][i].key \notin doubtful =>
      Has(agenda[t][i].key, agenda[t][i].value.type)

Gone ==
  \A t \in Threads :
    agenda[t] # <<>> /\ agenda[t][1].do = "uncategorize" /\ agenda[t][1].key \notin doubtful =>
      resources[agenda[t][1].key] = Absent

IndexInv ==
  /\ OrganizationTypes /\ Settled /\ Typed /\ Gone
  /\ \A t \in Threads : Ordered(agenda[t])

-----------------------------------------------------------------------------
(* Agendas.                                                                *)

\* A set of keys in some order: every key at one place.
LEMMA SetToSeqIs ==
  ASSUME NEW S, IsFiniteSet(S)
  PROVE  /\ SetToSeq(S) \in [1 .. Cardinality(S) -> S] /\ Cardinality(S) \in Nat
         /\ \A i, j \in 1 .. Cardinality(S) : SetToSeq(S)[i] = SetToSeq(S)[j] => i = j
         /\ \A x \in S : \E i \in 1 .. Cardinality(S) : SetToSeq(S)[i] = x
<1> DEFINE n == Cardinality(S)
           f == SetToSeq(S)
<1>1. n \in Nat /\ ExistsBijection(1 .. n, S)
  BY FS_CardinalityType
<1>2. \E g \in [1 .. n -> S] : IsInjective(g)
  BY <1>1 DEF ExistsBijection, Bijection, Injection
<1>3. f \in [1 .. n -> S] /\ IsInjective(f)
  BY <1>2 DEF SetToSeq
<1>4. f \in Injection(1 .. n, S)
  BY <1>3 DEF Injection
<1>5. IsFiniteSet(1 .. n) /\ Cardinality(1 .. n) = n
  BY <1>1, FS_Interval
<1>6. f \in Surjection(1 .. n, S)
  <2> HIDE DEF f
  <2>1. Cardinality(1 .. n) = Cardinality(S)
    BY <1>5
  <2> HIDE DEF n
  <2> QED BY <1>4, <2>1, FS_Injection
<1> QED BY <1>1, <1>3, <1>6 DEF IsInjective, Surjection

\* The agenda of a thread that has more to do instead of its next step.
LEMMA Spliced ==
  ASSUME NEW A \in Seq(Todos), A # <<>>, NEW todo \in Seq(Todos), NEW B,
         B = todo \o Tail(A)
  PROVE  /\ B \in Seq(Todos) /\ Len(B) = Len(todo) + Len(A) - 1
         /\ Len(todo) \in Nat /\ Len(A) \in Nat /\ Len(A) >= 1
         /\ DOMAIN B = 1 .. Len(B) /\ DOMAIN A = 1 .. Len(A) /\ DOMAIN todo = 1 .. Len(todo)
         /\ \A i \in 1 .. Len(todo) : B[i] = todo[i]
         /\ \A i \in Len(todo) + 1 .. Len(B) :
              i - Len(todo) + 1 \in 2 .. Len(A) /\ B[i] = A[i - Len(todo) + 1]
<1>1. /\ Tail(A) \in Seq(Todos) /\ Len(Tail(A)) = Len(A) - 1
      /\ \A i \in 1 .. Len(Tail(A)) : Tail(A)[i] = A[i + 1]
  BY HeadTailProperties
<1>2. /\ B \in Seq(Todos) /\ Len(B) = Len(todo) + Len(Tail(A))
      /\ \A i \in 1 .. Len(todo) + Len(Tail(A)) :
           B[i] = IF i <= Len(todo) THEN todo[i] ELSE Tail(A)[i - Len(todo)]
  BY <1>1, ConcatProperties
<1>3. Len(todo) \in Nat /\ Len(A) \in Nat /\ Len(A) >= 1
  OBVIOUS
<1>4. Len(B) = Len(todo) + Len(A) - 1
  BY <1>1, <1>2, <1>3
<1>5. DOMAIN B = 1 .. Len(B) /\ DOMAIN A = 1 .. Len(A) /\ DOMAIN todo = 1 .. Len(todo)
  BY <1>2
<1>6. \A i \in 1 .. Len(todo) : B[i] = todo[i]
  BY <1>1, <1>2, <1>3
<1>7. ASSUME NEW i \in Len(todo) + 1 .. Len(B)
      PROVE  i - Len(todo) + 1 \in 2 .. Len(A) /\ B[i] = A[i - Len(todo) + 1]
  <2>1. i - Len(todo) \in 1 .. Len(Tail(A)) /\ i \in 1 .. Len(todo) + Len(Tail(A))
    BY <1>1, <1>3, <1>4
  <2>2. B[i] = Tail(A)[i - Len(todo)]
    BY <2>1, <1>2, <1>3
  <2> QED BY <2>1, <2>2, <1>1, <1>3
<1> QED BY <1>2, <1>3, <1>4, <1>5, <1>6, <1>7

\* Steps for one key, in a proper order.
Plan(todo, k) ==
  todo \in Seq(Todos) /\ (\A i \in DOMAIN todo : todo[i].key = k) /\ Ordered(todo)

LEMMA OrderedSpliced ==
  ASSUME NEW A \in Seq(Todos), A # <<>>, Ordered(A), NEW todo, Plan(todo, A[1].key),
         todo = <<>> \/ A[1].do \notin {"insert", "update"},
         NEW B, B = todo \o Tail(A)
  PROVE  Ordered(B)
<1> DEFINE n == Len(todo)
<1>1. todo \in Seq(Todos)
  BY DEF Plan
<1>2. /\ Len(B) = n + Len(A) - 1 /\ n \in Nat /\ Len(A) \in Nat /\ Len(A) >= 1
      /\ DOMAIN B = 1 .. Len(B) /\ DOMAIN A = 1 .. Len(A) /\ DOMAIN todo = 1 .. n
  BY <1>1, Spliced
<1>3. /\ \A i \in 1 .. n : B[i] = todo[i]
      /\ \A i \in n + 1 .. Len(B) : i - n + 1 \in 2 .. Len(A) /\ B[i] = A[i - n + 1]
  BY <1>1, Spliced
<1>4. n > 0 => A[1].do \notin {"insert", "update"}
  BY <1>1
<1> HIDE DEF n
<1>5. ASSUME NEW i \in DOMAIN B, B[i].do = "insert"
      PROVE  /\ ~B[i].quiet /\ i + 1 \in DOMAIN B /\ B[i + 1].do = "categorize"
             /\ B[i + 1].key = B[i].key /\ B[i + 1].value = B[i].value
  <2>1. CASE i <= n
    <3>1. i \in DOMAIN todo /\ B[i] = todo[i]
      BY <2>1, <1>2, <1>3
    <3>2. /\ ~todo[i].quiet /\ i + 1 \in DOMAIN todo /\ todo[i + 1].do = "categorize"
          /\ todo[i + 1].key = todo[i].key /\ todo[i + 1].value = todo[i].value
      BY <3>1, <1>5 DEF Plan, Ordered
    <3>3. i + 1 \in 1 .. n /\ i + 1 \in DOMAIN B
      BY <3>2, <1>2
    <3> QED BY <3>1, <3>2, <3>3, <1>3
  <2>2. CASE i > n
    <3>1. i \in n + 1 .. Len(B)
      BY <2>2, <1>2
    <3>2. i - n + 1 \in DOMAIN A /\ B[i] = A[i - n + 1]
      BY <3>1, <1>2, <1>3
    <3>3. /\ ~B[i].quiet /\ (i - n + 1) + 1 \in DOMAIN A
          /\ A[(i - n + 1) + 1].do = "categorize"
          /\ A[(i - n + 1) + 1].key = B[i].key /\ A[(i - n + 1) + 1].value = B[i].value
      <4> DEFINE p == i - n + 1
      <4>1. p \in DOMAIN A /\ B[i] = A[p]
        BY <3>2
      <4> HIDE DEF p
      <4>2. /\ ~A[p].quiet /\ p + 1 \in DOMAIN A /\ A[p + 1].do = "categorize"
            /\ A[p + 1].key = A[p].key /\ A[p + 1].value = A[p].value
        BY <4>1, <1>5 DEF Ordered
      <4> QED BY <4>1, <4>2 DEF p
    <3>4. i + 1 \in n + 1 .. Len(B) /\ (i + 1) - n + 1 = (i - n + 1) + 1
      BY <3>3, <2>2, <1>2
    <3>5. B[i + 1] = A[(i + 1) - n + 1]
      BY <3>4, <1>3
    <3>6. i + 1 \in DOMAIN B
      BY <3>4, <1>2
    <3> QED BY <3>3, <3>4, <3>5, <3>6
  <2>3. i <= n \/ i > n
    BY <1>2
  <2> QED BY <2>1, <2>2, <2>3
<1>6. ASSUME NEW i \in DOMAIN B, B[i].do = "uncategorize" PROVE i = 1
  <2>1. CASE i <= n
    BY <2>1, <1>2, <1>3, <1>6 DEF Plan, Ordered
  <2>2. CASE i > n
    <3>1. i - n + 1 \in 2 .. Len(A) /\ B[i] = A[i - n + 1]
      BY <2>2, <1>2, <1>3
    <3>2. i - n + 1 = 1
      BY <3>1, <1>2, <1>6 DEF Ordered
    <3> QED BY <3>1, <3>2
  <2> QED BY <2>1, <2>2, <1>2
<1>7. ASSUME NEW i \in DOMAIN B, NEW j \in DOMAIN B, i < j, B[i].key = B[j].key,
             B[j].do = "categorize"
      PROVE  B[i].do = "update" \/ B[j - 1].do = "insert"
  <2>1. CASE j <= n
    <3>1. /\ i \in DOMAIN todo /\ j \in DOMAIN todo /\ j - 1 \in 1 .. n
          /\ B[i] = todo[i] /\ B[j] = todo[j]
      BY <2>1, <1>2, <1>3, <1>7
    <3>2. B[j - 1] = todo[j - 1]
      BY <3>1, <1>3
    <3>3. \A p, q \in DOMAIN todo :
            p < q /\ todo[p].key = todo[q].key /\ todo[q].do = "categorize" =>
              todo[p].do = "update" \/ todo[q - 1].do = "insert"
      BY Zenon DEF Plan, Ordered
    <3> QED BY <3>1, <3>2, <3>3, <1>7
  <2>2. CASE j > n
    <3>1. j - n + 1 \in 2 .. Len(A) /\ B[j] = A[j - n + 1] /\ j - n + 1 \in DOMAIN A
      BY <2>2, <1>2, <1>3
    <3>2. CASE i > n
      <4>1. /\ i - n + 1 \in DOMAIN A /\ B[i] = A[i - n + 1] /\ i - n + 1 < j - n + 1
            /\ j - 1 \in n + 1 .. Len(B)
        <5>1. i \in n + 1 .. Len(B) /\ i \in Int /\ j \in Int /\ i < j /\ j <= Len(B)
          BY <3>2, <1>2, <1>7
        <5>2. i - n + 1 \in 2 .. Len(A) /\ B[i] = A[i - n + 1]
          BY <5>1, <1>3
        <5>3. i - n + 1 < j - n + 1 /\ j - 1 \in n + 1 .. Len(B)
          BY <5>1, <1>2
        <5>4. i - n + 1 \in DOMAIN A
          BY <5>2, <1>2
        <5> QED BY <5>2, <5>3, <5>4
      <4>2. B[j - 1] = A[(j - 1) - n + 1] /\ (j - 1) - n + 1 = (j - n + 1) - 1
        <5>1. (j - 1) - n + 1 = (j - n + 1) - 1
          BY <1>2, <1>7
        <5>2. B[j - 1] = A[(j - 1) - n + 1]
          BY <4>1, <1>3
        <5> QED BY <5>1, <5>2
      <4> DEFINE p == i - n + 1
                 q == j - n + 1
      <4>5. p \in Int /\ q \in Int
        BY <1>2, <1>7
      <4>3. /\ p \in DOMAIN A /\ q \in DOMAIN A /\ p < q /\ A[p].key = A[q].key
            /\ A[q].do = "categorize" /\ B[i] = A[p] /\ B[j - 1] = A[q - 1]
        BY <4>1, <4>2, <3>1, <1>7
      <4> HIDE DEF p, q
      <4>4. A[p].do = "update" \/ A[q - 1].do = "insert"
        BY <4>3, <4>5 DEF Ordered
      <4> QED BY <4>3, <4>4
    <3>3. CASE i <= n
      <4>1. B[i].key = A[1].key /\ 1 \in DOMAIN A /\ 1 < j - n + 1
        <5>1. i \in 1 .. n /\ 1 \in DOMAIN A
          BY <3>3, <1>2
        <5>2. B[i] = todo[i] /\ i \in DOMAIN todo
          BY <5>1, <1>2, <1>3
        <5> QED BY <3>1, <5>1, <5>2 DEF Plan
      <4>2. A[1].do = "update" \/ A[(j - n + 1) - 1].do = "insert"
        <5> DEFINE q == j - n + 1
        <5>1. /\ q \in DOMAIN A /\ 1 < q /\ A[1].key = A[q].key
              /\ A[q].do = "categorize"
          BY <4>1, <3>1, <1>7
        <5> HIDE DEF q
        <5>2. A[1].do = "update" \/ A[q - 1].do = "insert"
          BY <4>1, <5>1 DEF Ordered
        <5> QED BY <5>2 DEF q
      <4>3. A[1].do \notin {"insert", "update"}
        BY <3>3, <1>2, <1>4
      <4>4. (j - n + 1) - 1 # 1
        BY <4>2, <4>3
      <4>5. j - 1 \in n + 1 .. Len(B) /\ (j - 1) - n + 1 = (j - n + 1) - 1
        <5>1. j \in Int /\ n \in Int /\ j <= Len(B) /\ Len(B) \in Int
          BY <1>2
        <5>2. (j - n + 1) - 1 = j - n /\ (j - 1) - n + 1 = j - n
          BY <5>1
        <5>3. j - n # 1 /\ j > n
          BY <5>2, <4>4, <2>2
        <5>4. j - 1 \in n + 1 .. Len(B)
          BY <5>1, <5>3
        <5> QED BY <5>2, <5>4
      <4>6. B[j - 1] = A[(j - n + 1) - 1]
        BY <4>5, <1>3
      <4> QED BY <4>2, <4>3, <4>6
    <3>4. i <= n \/ i > n
      BY <1>2, <1>7
    <3> QED BY <3>2, <3>3, <3>4
  <2>3. j <= n \/ j > n
    BY <1>2, <1>7
  <2> QED BY <2>1, <2>2, <2>3
<1>8. \A i \in DOMAIN B : B[i].do = "insert" =>
        /\ ~B[i].quiet /\ i + 1 \in DOMAIN B /\ B[i + 1].do = "categorize"
        /\ B[i + 1].key = B[i].key /\ B[i + 1].value = B[i].value
  BY <1>5
<1>9. \A i \in DOMAIN B : B[i].do = "uncategorize" => i = 1
  BY <1>6
<1>10. \A i, j \in DOMAIN B :
         i < j /\ B[i].key = B[j].key /\ B[j].do = "categorize" =>
            B[i].do = "update" \/ B[j - 1].do = "insert"
  BY <1>7
<1> QED BY <1>8, <1>9, <1>10, Zenon DEF Ordered

\* What is loose in it was so in the plan or before, or was what is inserted now.
LooseIn(A, todo, B, j) ==
  \/ j \in DOMAIN todo /\ B[j] = todo[j] /\ Loose(todo, j)
  \/ \E i \in DOMAIN A : i > 1 /\ B[j] = A[i] /\
       (Loose(A, i) \/ (i = 2 /\ A[1].do = "insert" /\ todo = <<>>))

LEMMA LooseSpliced ==
  ASSUME NEW A \in Seq(Todos), A # <<>>, NEW todo, Plan(todo, A[1].key),
         todo = <<>> \/ A[1].do \notin {"insert", "update"},
         NEW B, B = todo \o Tail(A), NEW j, j \in DOMAIN B, Loose(B, j)
  PROVE  LooseIn(A, todo, B, j)
<1> DEFINE n == Len(todo)
<1>1. todo \in Seq(Todos)
  BY DEF Plan
<1>2. /\ Len(B) = n + Len(A) - 1 /\ n \in Nat /\ Len(A) \in Nat /\ Len(A) >= 1
      /\ DOMAIN B = 1 .. Len(B) /\ DOMAIN A = 1 .. Len(A) /\ DOMAIN todo = 1 .. n
  BY <1>1, Spliced
<1>3. /\ \A i \in 1 .. n : B[i] = todo[i]
      /\ \A i \in n + 1 .. Len(B) : i - n + 1 \in 2 .. Len(A) /\ B[i] = A[i - n + 1]
  BY <1>1, Spliced
<1>4. (n > 0 => A[1].do \notin {"insert", "update"}) /\ (n = 0 => todo = <<>>)
  BY <1>1
<1> HIDE DEF n
<1>5. CASE j <= n
  <2>1. j \in DOMAIN todo /\ B[j] = todo[j]
    BY <1>2, <1>3, <1>5
  <2>2. j # 1 => j - 1 \in 1 .. n /\ B[j - 1] = todo[j - 1]
    BY <1>2, <1>3, <1>5
  <2> QED BY <2>1, <2>2 DEF Loose, LooseIn
<1>6. CASE j > n
  <2> DEFINE i == j - n + 1
  <2>1. i \in DOMAIN A /\ i > 1 /\ B[j] = A[i] /\ i \in Int
    BY <1>2, <1>3, <1>6
  <2>4. i = j - n + 1 /\ n \in Nat /\ Len(A) \in Nat /\ i \in 1 .. Len(A)
        /\ Len(B) = n + Len(A) - 1 /\ DOMAIN B = 1 .. Len(B)
    BY <2>1, <1>2
  <2> HIDE DEF i
  <2>2. CASE i = 2
    <3>1. CASE A[1].do = "insert"
      BY <2>1, <2>2, <3>1, <1>2, <1>4 DEF LooseIn
    <3>2. CASE A[1].do # "insert"
      <4>1. i - 1 = 1
        BY <2>2
      <4>2. Loose(A, i)
        BY <2>1, <3>2, <4>1 DEF Loose
      <4> QED BY <2>1, <4>2 DEF LooseIn
    <3> QED BY <3>1, <3>2
  <2>3. CASE i # 2
    <3>1. j - 1 \in n + 1 .. Len(B) /\ (j - 1) - n + 1 = i - 1 /\ j # 1
      <4>1. j \in Int /\ i \in Int /\ i >= 3 /\ i <= Len(A)
        BY <2>1, <2>3, <2>4
      <4>2. j = n + i - 1
        BY <4>1, <2>4
      <4>3. j - 1 >= n + 1 /\ j - 1 <= Len(B) /\ (j - 1) - n + 1 = i - 1 /\ j # 1
        BY <4>1, <4>2, <2>4
      <4>4. j - 1 \in Int /\ n + 1 \in Int /\ Len(B) \in Int
        BY <4>1, <2>4
      <4> QED BY <4>3, <4>4
    <3>2. B[j - 1] = A[i - 1]
      BY <3>1, <1>3
    <3>3. Loose(A, i)
      BY <2>1, <3>1, <3>2 DEF Loose
    <3> QED BY <2>1, <3>3 DEF LooseIn
  <2> QED BY <2>2, <2>3
<1> QED BY <1>2, <1>5, <1>6

-----------------------------------------------------------------------------
(* The steps of the calls.                                                 *)

LEMMA BusyHas ==
  ASSUME NEW t, NEW i \in DOMAIN agenda[t],
         agenda[t][i].do \in {"insert", "update", "categorize", "uncategorize"}
  PROVE  agenda[t][i].key \in Busy(t)
BY DEF Busy, ToSet

LEMMA BusyKeys ==
  ASSUME OrganizationTypes, NEW t \in Threads PROVE Busy(t) \subseteq Keys
<1>1. agenda[t] \in Seq(Todos)
  BY DEF OrganizationTypes
<1>2. \A i \in DOMAIN agenda[t] : agenda[t][i].key \in Keys
  BY <1>1 DEF Todos
<1> QED BY <1>2 DEF Busy, ToSet

\* Two threads at work on the same key: who continues makes it doubtful.
LEMMA Overlap ==
  ASSUME NEW t \in Threads, NEW u \in Threads \ {t}, NEW k, NEW todo, Continue(t, todo),
         NEW i \in DOMAIN agenda'[t], NEW j \in DOMAIN agenda'[u],
         agenda'[t][i].do \in {"insert", "update", "categorize", "uncategorize"},
         agenda'[u][j].do \in {"insert", "update", "categorize", "uncategorize"},
         agenda'[t][i].key = k, agenda'[u][j].key = k
  PROVE  k \in doubtful'
<1>1. k \in Busy(t)' /\ k \in Busy(u)'
  BY DEF Busy, ToSet
<1>2. doubtful' = doubtful \cup UNION {(Busy(t) \cap Busy(v))' : v \in Threads \ {t}}
  BY DEF Continue
<1> QED BY <1>1, <1>2

\* The step of one thread on its key k that goes on with a plan for k. It keeps
\* the type of k, or removes k with the entry to follow; only an insertion makes k
\* exist; the plan is right about k; and the entry agrees, or is about to.
Proceeds(t, k, todo) ==
  /\ agenda[t] # <<>> /\ k = agenda[t][1].key /\ Plan(todo, k) /\ Continue(t, todo)
  /\ todo = <<>> \/ agenda[t][1].do \notin {"insert", "update"}
  /\ resources' \in [Keys -> Resource \cup {Absent}]
  /\ index' \in [Keys -> Types \cup {Absent}]
  /\ \A q \in Keys \ {k} : resources'[q] = resources[q] /\ index'[q] = index[q]
  /\ \/ resources[k] # Absent =>
          resources'[k] # Absent /\ resources'[k].type = resources[k].type
     \/ /\ todo # <<>> /\ todo[1].do = "uncategorize"
        /\ agenda[t][1].do = "unregister"
  /\ resources[k] = Absent => resources'[k] = Absent \/ agenda[t][1].do = "insert"
  /\ agenda[t][1].do = "insert" =>
       resources'[k] # Absent /\ resources'[k].type = agenda[t][1].value.type
  /\ \A i \in DOMAIN todo :
       Loose(todo, i) => resources'[k] # Absent /\ resources'[k].type = todo[i].value.type
  /\ \A i \in DOMAIN todo : todo[i].do = "uncategorize" => resources'[k] = Absent
  /\ k \notin doubtful' =>
       \/ Agrees(k)'
       \/ Next1(agenda[t], k)'
       \/ (Agrees(k) => Agrees(k)') /\ agenda[t][1].do \notin {"categorize", "uncategorize"}

LEMMA ProceedsStep ==
  ASSUME IndexInv, NEW t \in Threads, NEW k, NEW todo, Proceeds(t, k, todo)
  PROVE  IndexInv'
<1> DEFINE A == agenda[t]
           B == todo \o Tail(A)
<1>1. /\ A \in Seq(Todos) /\ A # <<>> /\ Ordered(A) /\ k = A[1].key
      /\ Plan(todo, A[1].key) /\ todo \in Seq(Todos) /\ Continue(t, todo)
      /\ todo = <<>> \/ A[1].do \notin {"insert", "update"}
  BY DEF IndexInv, OrganizationTypes, Proceeds, Plan
<1>2. /\ agenda' = [agenda EXCEPT ![t] = B] /\ agenda \in [Threads -> Seq(Todos)]
      /\ doubtful \subseteq doubtful'
  BY DEF Proceeds, Continue, IndexInv, OrganizationTypes
<1>3. agenda'[t] = B /\ \A u \in Threads \ {t} : agenda'[u] = agenda[u]
  BY <1>2
<1> HIDE DEF A, B
<1>4. B \in Seq(Todos) /\ Ordered(B)
  BY <1>1, Spliced, OrderedSpliced DEF B
<1>5. /\ \A q \in Keys \ {k} : resources'[q] = resources[q] /\ index'[q] = index[q]
      /\ A[1].do = "insert" =>
           resources'[k] # Absent /\ resources'[k].type = A[1].value.type
      /\ \A i \in DOMAIN todo : Loose(todo, i) =>
           resources'[k] # Absent /\ resources'[k].type = todo[i].value.type
      /\ \A i \in DOMAIN todo : todo[i].key = k
  BY DEF Proceeds, A, Plan
<1>6. 1 \in DOMAIN A /\ k \in Keys
  BY <1>1 DEF Todos
<1>7. OrganizationTypes'
  <2>1. agenda' \in [Threads -> Seq(Todos)]
    BY <1>2, <1>4
  <2>2. target' \in [Threads -> Tables \cup {<<>>}]
    BY <1>1 DEF Continue, IndexInv, OrganizationTypes
  <2>3. \A u \in Threads : Busy(u)' \subseteq Keys
    <3>1. ASSUME NEW u \in Threads PROVE Busy(u)' \subseteq Keys
      <4>1. agenda'[u] \in Seq(Todos)
        BY <2>1
      <4>2. \A i \in DOMAIN agenda'[u] : agenda'[u][i].key \in Keys
        BY <4>1 DEF Todos
      <4> QED BY <4>2 DEF Busy, ToSet
    <3> QED BY <3>1
  <2>4. doubtful' \subseteq Keys
    <3>1. doubtful' = doubtful \cup UNION {(Busy(t) \cap Busy(u))' : u \in Threads \ {t}}
      BY <1>1 DEF Continue
    <3> QED BY <3>1, <2>3 DEF IndexInv, OrganizationTypes, OrganizationOK
  <2>5. /\ resources' \in [Keys -> Resource \cup {Absent}]
        /\ index' \in [Keys -> Types \cup {Absent}]
    BY DEF Proceeds
  <2> QED BY <2>1, <2>2, <2>4, <2>5 DEF OrganizationTypes, OrganizationOK
<1>8. \A u \in Threads : Ordered(agenda[u])'
  BY <1>3, <1>4 DEF IndexInv
<1>9. Typed'
  <2> SUFFICES ASSUME NEW u \in Threads, NEW j \in DOMAIN agenda'[u],
                      Loose(agenda'[u], j), agenda'[u][j].key \notin doubtful'
               PROVE  /\ resources'[agenda'[u][j].key] # Absent
                      /\ resources'[agenda'[u][j].key].type = agenda'[u][j].value.type
    BY DEF Typed, Has
  <2> DEFINE q == agenda'[u][j].key
  <2>1. q \in Keys
    <3>1. agenda'[u] \in Seq(Todos)
      BY <1>7 DEF OrganizationTypes
    <3> QED BY <3>1 DEF Todos
  <2>2. CASE u = t
    <3>1. CASE j \in DOMAIN todo /\ B[j] = todo[j] /\ Loose(todo, j)
      BY <3>1, <2>2, <1>3, <1>5 DEF Has
    <3>2. ASSUME NEW i \in DOMAIN A, i > 1, B[j] = A[i], Loose(A, i)
          PROVE  resources'[q] # Absent /\ resources'[q].type = agenda'[u][j].value.type
      <4>1. Has(q, A[i].value.type) /\ q = A[i].key
        BY <3>2, <2>2, <1>2, <1>3 DEF IndexInv, Typed, A
      <4>2. CASE q # k
        BY <4>1, <4>2, <3>2, <2>1, <2>2, <1>3, <1>5 DEF Has
      <4>3. CASE q = k
        <5>1. A[1].do = "update" \/ A[i - 1].do = "insert"
          BY <4>1, <4>3, <3>2, <1>1, <1>6 DEF Ordered, Loose
        <5>2. A[1].do = "update"
          BY <5>1, <3>2, <1>1 DEF Loose
        <5>3. resources[k] # Absent =>
                resources'[k] # Absent /\ resources'[k].type = resources[k].type
          BY <5>2 DEF Proceeds, A
        <5> QED BY <5>3, <4>1, <4>3, <3>2, <2>2, <1>3 DEF Has
      <4> QED BY <4>2, <4>3
    <3>3. ASSUME 2 \in DOMAIN A, B[j] = A[2], A[1].do = "insert"
          PROVE  resources'[q] # Absent /\ resources'[q].type = agenda'[u][j].value.type
      <4>1. A[2].key = A[1].key /\ A[2].value = A[1].value
        BY <3>3, <1>1, <1>6 DEF Ordered
      <4> QED BY <4>1, <3>3, <2>2, <1>1, <1>3, <1>5 DEF Has
    <3>4. \/ j \in DOMAIN todo /\ B[j] = todo[j] /\ Loose(todo, j)
          \/ \E i \in DOMAIN A : i > 1 /\ B[j] = A[i] /\
               (Loose(A, i) \/ (i = 2 /\ A[1].do = "insert" /\ todo = <<>>))
      <4>1. j \in DOMAIN B /\ Loose(B, j)
        BY <2>2, <1>3
      <4>2. LooseIn(A, todo, B, j)
        BY <4>1, <1>1, LooseSpliced DEF B
      <4> QED BY <4>2 DEF LooseIn
    <3> QED BY <3>1, <3>2, <3>3, <3>4
  <2>3. CASE u # t
    <3>1. /\ agenda'[u] = agenda[u] /\ j \in DOMAIN agenda[u]
          /\ Has(q, agenda[u][j].value.type) /\ agenda[u][j].do = "categorize"
      BY <2>3, <1>2, <1>3 DEF IndexInv, Typed, Loose
    <3>2. CASE q # k
      BY <3>1, <3>2, <2>1, <1>5 DEF Has
    <3>3. CASE q = k /\ resources[k] # Absent /\
                resources'[k] # Absent /\ resources'[k].type = resources[k].type
      BY <3>1, <3>3 DEF Has
    <3>4. CASE q = k /\ todo # <<>> /\ todo[1].do = "uncategorize"
      <4>1. 1 \in DOMAIN todo /\ 1 \in DOMAIN B /\ B[1] = todo[1]
        BY <3>4, <1>1, Spliced DEF B
      <4>2. q \in doubtful'
        BY <4>1, <3>1, <3>4, <2>3, <1>1, <1>3, <1>5, Overlap
      <4> QED BY <4>2
    <3> QED BY <3>1, <3>2, <3>3, <3>4 DEF Proceeds, Has
  <2> QED BY <2>2, <2>3
<1>10. Gone'
  <2> SUFFICES ASSUME NEW u \in Threads, agenda'[u] # <<>>,
                      agenda'[u][1].do = "uncategorize",
                      agenda'[u][1].key \notin doubtful'
               PROVE  resources'[agenda'[u][1].key] = Absent
    BY DEF Gone
  <2> DEFINE q == agenda'[u][1].key
  <2>1. agenda'[u] \in Seq(Todos) /\ 1 \in DOMAIN agenda'[u] /\ q \in Keys
    <3>1. agenda'[u] \in Seq(Todos)
      BY <1>7 DEF OrganizationTypes
    <3> QED BY <3>1 DEF Todos
  <2>2. CASE u = t
    <3>1. 1 \in DOMAIN todo /\ B[1] = todo[1]
      <4>1. CASE Len(todo) > 0
        BY <4>1, <1>1, Spliced DEF B
      <4>2. CASE Len(todo) = 0
        <5>1. 2 \in DOMAIN A /\ B[1] = A[2]
          BY <4>2, <2>1, <2>2, <1>1, <1>3, Spliced DEF B
        <5>2. A[2].do # "uncategorize"
          BY <5>1, <1>1 DEF Ordered
        <5> QED BY <5>1, <5>2, <2>2, <1>3
      <4> QED BY <4>1, <4>2, <1>1
    <3> QED BY <3>1, <2>2, <1>3, <1>5 DEF Proceeds
  <2>3. CASE u # t
    <3>1. agenda'[u] = agenda[u] /\ resources[q] = Absent
      BY <2>3, <1>2, <1>3 DEF IndexInv, Gone
    <3>2. CASE q # k
      BY <3>1, <3>2, <2>1, <1>5
    <3>3. CASE q = k /\ A[1].do = "insert"
      <4>1. /\ 2 \in DOMAIN A /\ A[2].key = k /\ A[2].do = "categorize"
        BY <3>3, <1>1, <1>6 DEF Ordered
      <4>2. todo = <<>>
        BY <3>3, <1>1
      <4>3. 1 \in DOMAIN B /\ B[1] = A[2]
        BY <4>1, <4>2, <1>1, Spliced DEF B
      <4>4. q \in doubtful'
        BY <4>1, <4>3, <3>1, <3>3, <2>1, <2>3, <1>1, <1>3, Overlap
      <4> QED BY <4>4
    <3> QED BY <3>1, <3>2, <3>3 DEF Proceeds, A
  <2> QED BY <2>2, <2>3
<1>11. Settled'
  <2> SUFFICES ASSUME NEW q \in Keys, q \notin doubtful'
               PROVE  Agrees(q)' \/ \E u \in Threads : Next1(agenda[u], q)'
    BY DEF Settled
  <2>1. Agrees(q) \/ \E u \in Threads : Next1(agenda[u], q)
    BY <1>2 DEF IndexInv, Settled
  <2>2. CASE (Agrees(q) => Agrees(q)') /\ ~Next1(agenda[t], q)
    <3>1. \A u \in Threads : Next1(agenda[u], q) => Next1(agenda[u], q)'
      BY <2>2, <1>3 DEF Next1
    <3> QED BY <2>1, <2>2, <3>1
  <2>3. CASE q # k
    <3>1. ~Next1(agenda[t], q)
      BY <2>3, <1>1 DEF Next1, A
    <3>2. Agrees(q) => Agrees(q)'
      BY <2>3, <1>5 DEF Agrees
    <3> QED BY <2>2, <3>1, <3>2
  <2>4. CASE q = k
    <3>1. \/ Agrees(k)' \/ Next1(agenda[t], k)'
          \/ (Agrees(k) => Agrees(k)') /\ A[1].do \notin {"categorize", "uncategorize"}
      BY <2>4 DEF Proceeds, A
    <3> QED BY <3>1, <2>2, <2>4 DEF Next1, A
  <2> QED BY <2>3, <2>4
<1> QED BY <1>7, <1>8, <1>9, <1>10, <1>11 DEF IndexInv

LEMMA TailNotEmpty ==
  ASSUME NEW A \in Seq(Todos), A # <<>>, Len(A) # 1 PROVE Tail(A) # <<>>
<1>1. Len(Tail(A)) = Len(A) - 1 /\ Len(A) \in Nat /\ Tail(A) \in Seq(Todos)
  BY HeadTailProperties
<1>2. Len(Tail(A)) # 0
  BY <1>1
<1>3. Len(<<>>) = 0
  OBVIOUS
<1> QED BY <1>2, <1>3

\* A step that fails: the rest of the call is dropped, or only the step.
LEMMA FailsStep ==
  ASSUME IndexInv, NEW t \in Threads, agenda[t] # <<>>, NEW gone \in SUBSET Keys,
         Fails(t, gone),
         agenda[t][1].do \notin {"categorize", "uncategorize"} \/ agenda[t][1].key \in gone
  PROVE  IndexInv'
<1> DEFINE A == agenda[t]
<1>1. /\ A \in Seq(Todos) /\ A # <<>> /\ Ordered(A) /\ Head(A) = A[1] /\ 1 \in DOMAIN A
      /\ agenda \in [Threads -> Seq(Todos)] /\ OrganizationOK
  BY DEF IndexInv, OrganizationTypes
<1>2. PICK B \in {<<>>, Tail(A)} : agenda' = [agenda EXCEPT ![t] = B]
  BY DEF Fails
<1>3. B = Tail(A) => A[1].do # "insert"
  <2>1. CASE B = <<>>
    <3>1. CASE Len(A) = 1
      <4>1. A[1].do # "insert"
        BY <3>1, <1>1 DEF Ordered
      <4> QED BY <4>1
    <3>2. CASE Len(A) # 1
      <4>1. Tail(A) # <<>>
        BY <3>2, <1>1, TailNotEmpty
      <4> QED BY <4>1, <2>1
    <3> QED BY <3>1, <3>2
  <2>2. CASE B # <<>>
    <3>1. A[1].quiet
      <4>1. ~A[1].quiet => agenda' = [agenda EXCEPT ![t] = <<>>]
        BY <1>1 DEF Fails, Current
      <4> QED BY <4>1, <2>2, <1>1, <1>2
    <3> QED BY <3>1, <1>1 DEF Ordered
  <2> QED BY <2>1, <2>2
<1>4. UNCHANGED <<resources, index>> /\ doubtful' = doubtful \cup gone
  BY DEF Fails
<1>5. B \in Seq(Todos) /\ agenda'[t] = B /\ \A u \in Threads \ {t} : agenda'[u] = agenda[u]
  <2>1. Tail(A) \in Seq(Todos)
    BY <1>1, HeadTailProperties
  <2>2. B \in Seq(Todos)
    <3>1. <<>> \in Seq(Todos)
      OBVIOUS
    <3> QED BY <3>1, <2>1, <1>2
  <2> QED BY <2>2, <1>1, <1>2
<1>6. \A i \in DOMAIN B :
        i + 1 \in DOMAIN A /\ B[i] = A[i + 1] /\ i \in Nat /\ B = Tail(A) /\ i >= 1
  <2>1. CASE B = <<>>
    BY <2>1
  <2>2. CASE B = Tail(A)
    <3>1. Tail(A) \in Seq(Todos) /\ Len(Tail(A)) = Len(A) - 1 /\ Len(A) \in Nat
          /\ \A i \in 1 .. Len(Tail(A)) : Tail(A)[i] = A[i + 1]
      BY <1>1, HeadTailProperties
    <3> QED BY <2>2, <3>1, <1>1
  <2> QED BY <2>1, <2>2
<1>7. OrganizationTypes'
  <2>1. target' \in [Threads -> Tables \cup {<<>>}]
    BY DEF Fails, IndexInv, OrganizationTypes
  <2> QED BY <2>1, <1>1, <1>2, <1>4, <1>5 DEF OrganizationTypes, OrganizationOK
<1> HIDE DEF A
<1>8. Ordered(B)
  <2>1. CASE B = <<>>
    BY <2>1 DEF Ordered
  <2>2. CASE B = Tail(A)
    <3>1. Plan(<<>>, A[1].key)
      BY DEF Plan, Ordered
    <3>2. B = <<>> \o Tail(A)
      BY <2>2, <1>1, <1>5
    <3> QED BY <3>1, <3>2, <1>1, OrderedSpliced
  <2> QED BY <2>1, <2>2
<1>9. \A u \in Threads : Ordered(agenda[u])'
  BY <1>5, <1>8 DEF IndexInv
<1>10. Typed'
  <2> SUFFICES ASSUME NEW u \in Threads, NEW j \in DOMAIN agenda'[u],
                      Loose(agenda'[u], j), agenda'[u][j].key \notin doubtful'
               PROVE  Has(agenda'[u][j].key, agenda'[u][j].value.type)
    BY <1>4 DEF Typed, Has
  <2>1. CASE u = t
    <3>1. j \in DOMAIN B /\ Loose(B, j)
      BY <2>1, <1>5
    <3>2. /\ j + 1 \in DOMAIN A /\ B[j] = A[j + 1] /\ j \in Nat /\ j >= 1
          /\ A[1].do # "insert" /\ A[j + 1].do = "categorize"
      BY <3>1, <1>3, <1>6 DEF Loose
    <3>3. Loose(A, j + 1)
      <4>1. CASE j = 1
        BY <4>1, <3>2 DEF Loose
      <4>2. CASE j # 1
        <5>1. j - 1 \in DOMAIN B /\ (j - 1) + 1 = (j + 1) - 1
          BY <4>2, <3>1, <3>2, <1>5
        <5>2. B[j - 1] = A[(j + 1) - 1]
          BY <5>1, <1>6
        <5> QED BY <4>2, <5>2, <3>1, <3>2 DEF Loose
      <4> QED BY <4>1, <4>2
    <3> QED BY <3>2, <3>3, <2>1, <1>4, <1>5 DEF IndexInv, Typed, A
  <2>2. CASE u # t
    BY <2>2, <1>4, <1>5 DEF IndexInv, Typed
  <2> QED BY <2>1, <2>2
<1>11. Gone'
  <2> SUFFICES ASSUME NEW u \in Threads, agenda'[u] # <<>>,
                      agenda'[u][1].do = "uncategorize",
                      agenda'[u][1].key \notin doubtful'
               PROVE  resources[agenda'[u][1].key] = Absent
    BY <1>4 DEF Gone
  <2>1. CASE u = t
    <3>1. 1 \in DOMAIN B
      BY <2>1, <1>5
    <3>2. 1 + 1 \in DOMAIN A /\ A[1 + 1].do = "uncategorize"
      BY <3>1, <2>1, <1>5, <1>6
    <3>3. 1 + 1 = 1
      BY <3>2, <1>1 DEF Ordered
    <3> QED BY <3>3
  <2>2. CASE u # t
    BY <2>2, <1>4, <1>5 DEF IndexInv, Gone
  <2> QED BY <2>1, <2>2
<1>12. Settled'
  <2> SUFFICES ASSUME NEW q \in Keys, q \notin doubtful'
               PROVE  Agrees(q)' \/ \E u \in Threads : Next1(agenda[u], q)'
    BY DEF Settled
  <2>1. Agrees(q) \/ \E u \in Threads : Next1(agenda[u], q)
    BY <1>4 DEF IndexInv, Settled
  <2>2. Agrees(q) => Agrees(q)'
    BY <1>4 DEF Agrees
  <2>3. ~Next1(agenda[t], q)
    BY <1>4 DEF Next1
  <2>4. \A u \in Threads \ {t} : Next1(agenda[u], q) => Next1(agenda[u], q)'
    BY <1>5 DEF Next1
  <2> QED BY <2>1, <2>2, <2>3, <2>4
<1> QED BY <1>7, <1>9, <1>10, <1>11, <1>12 DEF IndexInv

\* A call begins: what its plan says of what is there is true.
LEMMA CallsStep ==
  ASSUME IndexInv, NEW t \in Threads, NEW todo \in Seq(Todos), Ordered(todo),
         NEW table \in Tables \cup {<<>>}, Calls(t, todo, table),
         \A i \in DOMAIN todo : todo[i].do # "uncategorize",
         \A i \in DOMAIN todo : Loose(todo, i) => Has(todo[i].key, todo[i].value.type)
  PROVE  IndexInv'
<1>1. /\ agenda' = [agenda EXCEPT ![t] = todo] /\ agenda[t] = <<>>
      /\ target' = [target EXCEPT ![t] = table]
      /\ UNCHANGED <<resources, index, doubtful>>
  BY DEF Calls
<1>2. agenda \in [Threads -> Seq(Todos)] /\ target \in [Threads -> Tables \cup {<<>>}]
  BY DEF IndexInv, OrganizationTypes
<1>3. agenda'[t] = todo /\ \A u \in Threads \ {t} : agenda'[u] = agenda[u]
  BY <1>1, <1>2
<1>4. OrganizationTypes'
  BY <1>1, <1>2 DEF IndexInv, OrganizationTypes, OrganizationOK
<1>5. \A u \in Threads : Ordered(agenda[u])'
  BY <1>3 DEF IndexInv
<1>6. Typed'
  BY <1>1, <1>3 DEF IndexInv, Typed, Has
<1>7. Gone'
  <2>1. todo # <<>> => 1 \in DOMAIN todo
    OBVIOUS
  <2> QED BY <2>1, <1>1, <1>3 DEF IndexInv, Gone
<1>8. Settled'
  <2> SUFFICES ASSUME NEW q \in Keys, q \notin doubtful'
               PROVE  Agrees(q)' \/ \E u \in Threads : Next1(agenda[u], q)'
    BY DEF Settled
  <2>1. Agrees(q) \/ \E u \in Threads : Next1(agenda[u], q)
    BY <1>1 DEF IndexInv, Settled
  <2>2. Agrees(q) => Agrees(q)'
    BY <1>1 DEF Agrees
  <2>3. \A u \in Threads : Next1(agenda[u], q) => Next1(agenda[u], q)'
    BY <1>1, <1>3 DEF Next1
  <2> QED BY <2>1, <2>2, <2>3
<1> QED BY <1>4, <1>5, <1>6, <1>7, <1>8 DEF IndexInv

-----------------------------------------------------------------------------
(* What the steps plan.                                                    *)

\* Nothing in it is said of what is there already, or removes an entry at once.
Clean(todo) ==
  \A i \in DOMAIN todo : ~Loose(todo, i) /\ todo[i].do # "uncategorize"

LEMMA NoPlan == ASSUME NEW k PROVE Plan(<<>>, k) /\ Clean(<<>>)
BY DEF Plan, Ordered, Clean

LEMMA OnePlan ==
  ASSUME NEW todo \in Todos, todo.do \notin {"insert", "categorize"}
  PROVE  /\ <<todo>> \in Seq(Todos) /\ <<todo>> # <<>> /\ <<todo>>[1] = todo
         /\ Plan(<<todo>>, todo.key) /\ DOMAIN <<todo>> = {1}
         /\ todo.do # "uncategorize" => Clean(<<todo>>)
BY DEF Plan, Ordered, Clean, Loose

LEMMA OrderedPair ==
  ASSUME NEW s, DOMAIN s = {1, 2}, s[1].do \in {"insert", "update"},
         s[2].do = "categorize", s[2].key = s[1].key,
         s[1].do = "insert" => s[2].value = s[1].value /\ ~s[1].quiet
  PROVE  Ordered(s)
<1>1. \A i \in DOMAIN s : s[i].do = "insert" => i = 1
  OBVIOUS
<1>2. \A i \in DOMAIN s : s[i].do # "uncategorize"
  OBVIOUS
<1>3. \A i, j \in DOMAIN s : i < j => i = 1 /\ j = 2
  OBVIOUS
<1>4. 1 + 1 = 2 /\ 2 - 1 = 1
  OBVIOUS
<1> QED BY <1>1, <1>2, <1>3, <1>4 DEF Ordered

LEMMA RegisterPlan ==
  ASSUME NEW k \in Keys, NEW v \in Resource
  PROVE  Plan(Register(k, v), k) /\ Clean(Register(k, v))
<1> DEFINE s == Register(k, v)
<1>1. /\ s \in Seq(Todos) /\ DOMAIN s = {1, 2} /\ s # <<>>
      /\ s[1] = Do("insert", k, v, FALSE) /\ s[2] = Do("categorize", k, v, FALSE)
  BY DEF Register, Do, Todos
<1>2. /\ s[1].do = "insert" /\ s[1].key = k /\ s[1].value = v /\ ~s[1].quiet
      /\ s[2].do = "categorize" /\ s[2].key = k /\ s[2].value = v
  BY <1>1 DEF Do
<1> HIDE DEF s
<1>3. Ordered(s)
  BY <1>1, <1>2, OrderedPair
<1>4. Clean(s)
  <2>1. 2 - 1 = 1
    OBVIOUS
  <2>2. ~Loose(s, 1) /\ ~Loose(s, 2)
    BY <2>1, <1>2 DEF Loose
  <2> QED BY <2>2, <1>1, <1>2 DEF Clean
<1>5. Plan(s, k)
  BY <1>1, <1>2, <1>3 DEF Plan
<1> QED BY <1>4, <1>5 DEF s

LEMMA OneThenTwo ==
  ASSUME NEW a, NEW b, NEW c PROVE <<a>> \o <<b, c>> = <<a, b, c>>
<1> DEFINE S == {a, b, c}
           s == <<a>> \o <<b, c>>
<1>1. <<a>> \in Seq(S) /\ <<b, c>> \in Seq(S) /\ Len(<<a>>) = 1 /\ Len(<<b, c>>) = 2
  OBVIOUS
<1>2. /\ s \in Seq(S) /\ Len(s) = 1 + 2
      /\ \A i \in 1 .. 3 : s[i] = IF i <= 1 THEN <<a>>[i] ELSE <<b, c>>[i - 1]
  BY <1>1, ConcatProperties
<1> HIDE DEF s
<1>3. s[1] = a /\ s[2] = b /\ s[3] = c /\ Len(s) = 3
  BY <1>2
<1>4. s = <<a, b, c>>
  BY <1>2, <1>3
<1> QED BY <1>4 DEF s

LEMMA ReplacePlan ==
  ASSUME NEW k \in Keys, NEW v \in Resource, Absent \notin Resource
  PROVE  /\ Plan(Unregister(k, FALSE) \o Register(k, v), k)
         /\ Clean(Unregister(k, FALSE) \o Register(k, v))
<1> DEFINE s == Unregister(k, FALSE) \o Register(k, v)
<1>1. s = <<Do("unregister", k, Absent, FALSE), Do("insert", k, v, FALSE),
            Do("categorize", k, v, FALSE)>>
  BY OneThenTwo DEF Unregister, Register
<1> HIDE DEF s
<1>7. /\ Do("unregister", k, Absent, FALSE) \in Todos /\ Do("insert", k, v, FALSE) \in Todos
      /\ Do("categorize", k, v, FALSE) \in Todos
  BY DEF Do, Todos
<1>2. s \in Seq(Todos) /\ DOMAIN s = {1, 2, 3} /\ s # <<>>
  <2>1. s \in Seq(Todos) /\ s # <<>> /\ Len(s) = 3
    <3>1. \A a, b, c \in Todos :
            /\ <<a, b, c>> \in Seq(Todos) /\ <<a, b, c>> # <<>> /\ Len(<<a, b, c>>) = 3
      OBVIOUS
    <3> QED BY <3>1, <1>1, <1>7
  <2>2. 1 .. 3 = {1, 2, 3}
    OBVIOUS
  <2> QED BY <2>1, <2>2
<1>3. /\ s[1].do = "unregister" /\ s[1].key = k
      /\ s[2].do = "insert" /\ s[2].key = k /\ s[2].value = v /\ ~s[2].quiet
      /\ s[3].do = "categorize" /\ s[3].key = k /\ s[3].value = v
  BY <1>1 DEF Do
<1> HIDE DEF s
<1>4. Ordered(s)
  <2>1. \A i \in {1, 2, 3} : i = 1 \/ i = 2 \/ i = 3
    OBVIOUS
  <2>2. /\ s[1].do \notin {"insert", "uncategorize", "categorize"}
        /\ s[2].do \notin {"uncategorize", "categorize"} /\ s[3].do # "insert"
        /\ s[3].do # "uncategorize"
    BY <1>3
  <2>3. \A i \in DOMAIN s : s[i].do = "insert" => i = 2
    BY <2>2, <1>2
  <2>4. \A i \in DOMAIN s : s[i].do = "uncategorize" => i = 1
    BY <2>2, <1>2
  <2>5. \A j \in DOMAIN s : s[j].do = "categorize" => s[j - 1].do = "insert"
    <3>1. 3 - 1 = 2
      OBVIOUS
    <3> QED BY <3>1, <2>2, <1>2, <1>3
  <2>6. 2 + 1 \in DOMAIN s /\ s[2 + 1] = s[3]
    BY <1>2
  <2> QED BY <2>3, <2>4, <2>5, <2>6, <1>3 DEF Ordered
<1>5. Clean(s)
  BY <1>2, <1>3 DEF Clean, Loose
<1>6. Plan(s, k)
  BY <1>2, <1>3, <1>4 DEF Plan
<1> QED BY <1>5, <1>6 DEF s

Renew(k, v) == <<Do("update", k, v, FALSE), Do("categorize", k, v, FALSE)>>

LEMMA RenewPlan ==
  ASSUME NEW k \in Keys, NEW v \in Resource
  PROVE  /\ Plan(Renew(k, v), k) /\ DOMAIN Renew(k, v) = {1, 2}
         /\ Renew(k, v)[1].do = "update" /\ Renew(k, v)[1].key = k
         /\ Renew(k, v)[2].do = "categorize" /\ Renew(k, v)[1].value = v
         /\ Renew(k, v)[2].value = v /\ Renew(k, v)[2].key = k
<1> DEFINE s == Renew(k, v)
<1>1. /\ s \in Seq(Todos) /\ DOMAIN s = {1, 2} /\ s # <<>>
      /\ s[1] = Do("update", k, v, FALSE) /\ s[2] = Do("categorize", k, v, FALSE)
  BY DEF Renew, Do, Todos
<1>2. /\ s[1].do = "update" /\ s[1].key = k /\ s[1].value = v
      /\ s[2].do = "categorize" /\ s[2].key = k /\ s[2].value = v
  BY <1>1 DEF Do
<1> HIDE DEF s
<1>3. Ordered(s)
  BY <1>1, <1>2, OrderedPair
<1> QED BY <1>1, <1>2, <1>3 DEF Plan, s

LEMMA CurrentIs ==
  ASSUME IndexInv, NEW t \in Threads, agenda[t] # <<>>
  PROVE  /\ Current(t) = agenda[t][1] /\ agenda[t][1] \in Todos /\ 1 \in DOMAIN agenda[t]
         /\ agenda[t][1].key \in Keys
         /\ agenda[t][1].do \in {"upsert", "insert", "update", "categorize"} =>
              agenda[t][1].value \in Resource
         /\ resources[agenda[t][1].key] \in Resource \cup {Absent}
<1>1. /\ agenda[t] \in Seq(Todos) /\ resources \in [Keys -> Resource \cup {Absent}]
  BY DEF IndexInv, OrganizationTypes, OrganizationOK
<1>2. /\ Current(t) = agenda[t][1] /\ agenda[t][1] \in Todos /\ 1 \in DOMAIN agenda[t]
  BY <1>1 DEF Current
<1> QED BY <1>1, <1>2 DEF Todos

\* A step that changes neither the registry nor the index, and plans.
LEMMA PlansStep ==
  ASSUME IndexInv, NEW t \in Threads, agenda[t] # <<>>, NEW todo,
         agenda[t][1].do \in {"fetch", "upsert", "mirror"},
         Plan(todo, agenda[t][1].key), Continue(t, todo), UNCHANGED <<resources, index>>,
         \A i \in DOMAIN todo : todo[i].do # "uncategorize",
         \A i \in DOMAIN todo : Loose(todo, i) => Has(agenda[t][1].key, todo[i].value.type)
  PROVE  IndexInv'
<1>0. PICK k : k = agenda[t][1].key
  OBVIOUS
<1>1. /\ resources' \in [Keys -> Resource \cup {Absent}]
      /\ index' \in [Keys -> Types \cup {Absent}]
  BY DEF IndexInv, OrganizationTypes, OrganizationOK
<1>2. Agrees(k) => Agrees(k)'
  BY DEF Agrees
<1>3. \A i \in DOMAIN todo :
        Loose(todo, i) => resources'[k] # Absent /\ resources'[k].type = todo[i].value.type
  BY <1>0 DEF Has
<1>4. k = agenda[t][1].key
  BY <1>0
<1>5. Proceeds(t, k, todo)
  BY <1>1, <1>2, <1>3, <1>4 DEF Proceeds
<1> QED BY <1>5, ProceedsStep

LEMMA FetchKeeps ==
  ASSUME OrganizationConstants, RemoteInv, IndexInv, NEW t \in Threads, FetchStep(t)
  PROVE  IndexInv'
<1> DEFINE k == agenda[t][1].key
<1>1. /\ agenda[t] # <<>> /\ agenda[t][1].do = "fetch" /\ Current(t) = agenda[t][1]
      /\ k \in Keys
  BY CurrentIs DEF FetchStep, Ready
<1>2. CASE Fails(t, {})
  BY <1>1, <1>2, FailsStep
<1>3. ASSUME NEW answer \in Fetched(k), UNCHANGED <<resources, index>>,
             Continue(t, Ingest(k, answer))
      PROVE  IndexInv'
  <2> DEFINE todo == Ingest(k, answer)
  <2>1. answer \in Values \cup {Absent}
    BY <1>1, <1>3 DEF Fetched, Found, NotReached, RemoteInv, RemoteOK, Tables
  <2>2. Plan(todo, k) /\ Clean(todo)
    <3>1. CASE answer = Absent
      <4>1. todo = <<Do("unregister", k, Absent, TRUE)>>
        BY <3>1 DEF Ingest, Unregister, OrganizationConstants
      <4>2. /\ Do("unregister", k, Absent, TRUE) \in Todos
            /\ Do("unregister", k, Absent, TRUE).key = k
            /\ Do("unregister", k, Absent, TRUE).do = "unregister"
        BY <1>1 DEF Do, Todos
      <4> HIDE DEF todo, k
      <4> QED BY <4>1, <4>2, OnePlan
    <3>2. CASE answer = Malformed
      <4>1. todo = <<>>
        BY <3>2 DEF Ingest, OrganizationConstants
      <4> QED BY <4>1, NoPlan
    <3>3. CASE answer \notin {Absent, Malformed}
      <4>1. todo = <<Do("upsert", k, answer, FALSE)>> /\ answer \in Resource
        BY <2>1, <3>3 DEF Ingest, OrganizationConstants
      <4>2. /\ Do("upsert", k, answer, FALSE) \in Todos
            /\ Do("upsert", k, answer, FALSE).key = k
            /\ Do("upsert", k, answer, FALSE).do = "upsert"
        BY <1>1, <4>1 DEF Do, Todos
      <4> HIDE DEF todo, k
      <4> QED BY <4>1, <4>2, OnePlan
    <3> QED BY <3>1, <3>2, <3>3
  <2> HIDE DEF todo
  <2> QED BY <2>2, <1>1, <1>3, PlansStep DEF Clean, todo
<1> QED BY <1>1, <1>2, <1>3 DEF FetchStep

LEMMA UpsertKeeps ==
  ASSUME OrganizationConstants, IndexInv, NEW t \in Threads, UpsertStep(t)
  PROVE  IndexInv'
<1> DEFINE k == agenda[t][1].key
           v == agenda[t][1].value
           todo == Upsert(k, v)
<1>1. /\ agenda[t] # <<>> /\ agenda[t][1].do = "upsert" /\ Current(t) = agenda[t][1]
      /\ k \in Keys /\ v \in Resource
  BY CurrentIs DEF UpsertStep, Ready
<1>2. UNCHANGED <<resources, index>> /\ Continue(t, todo)
  BY <1>1 DEF UpsertStep
<1>3. Absent \notin Resource
  BY DEF OrganizationConstants
<1> HIDE DEF v
<1>4. Plan(todo, k) /\ (Clean(todo) \/ (todo = Renew(k, v) /\ Has(k, v.type)))
  <2>1. CASE resources[k] = Absent
    BY <2>1, <1>1, RegisterPlan DEF Upsert
  <2>2. CASE resources[k] # Absent /\ resources[k].type # v.type
    BY <2>2, <1>1, <1>3, ReplacePlan DEF Upsert
  <2>3. CASE resources[k] # Absent /\ resources[k].type = v.type
    <3>1. todo = Renew(k, v)
      BY <2>3 DEF Upsert, Renew
    <3> QED BY <2>3, <3>1, <1>1, RenewPlan DEF Has
  <2> QED BY <2>1, <2>2, <2>3
<1> HIDE DEF todo
<1>5. /\ \A i \in DOMAIN todo : todo[i].do # "uncategorize"
      /\ \A i \in DOMAIN todo : Loose(todo, i) => Has(k, todo[i].value.type)
  <2>1. CASE Clean(todo)
    BY <2>1 DEF Clean
  <2>2. CASE todo = Renew(k, v) /\ Has(k, v.type)
    BY <2>2, <1>1, RenewPlan DEF Loose
  <2> QED BY <2>1, <2>2, <1>4
<1> QED BY <1>1, <1>2, <1>4, <1>5, PlansStep DEF k

\* A step that changes the registry or the index, and plans nothing.
LEMMA EmptyProceeds ==
  ASSUME IndexInv, NEW t \in Threads, agenda[t] # <<>>, NEW k, k = agenda[t][1].key,
         Continue(t, <<>>),
         resources' \in [Keys -> Resource \cup {Absent}],
         index' \in [Keys -> Types \cup {Absent}],
         \A q \in Keys \ {k} : resources'[q] = resources[q] /\ index'[q] = index[q],
         resources[k] # Absent =>
           resources'[k] # Absent /\ resources'[k].type = resources[k].type,
         resources[k] = Absent => resources'[k] = Absent \/ agenda[t][1].do = "insert",
         agenda[t][1].do = "insert" =>
           resources'[k] # Absent /\ resources'[k].type = agenda[t][1].value.type,
         k \notin doubtful' =>
           \/ Agrees(k)' \/ Next1(agenda[t], k)'
           \/ (Agrees(k) => Agrees(k)')
              /\ agenda[t][1].do \notin {"categorize", "uncategorize"}
  PROVE  IndexInv'
<1>1. Plan(<<>>, k)
  BY NoPlan
<1>2. Proceeds(t, k, <<>>)
  BY <1>1 DEF Proceeds
<1> QED BY <1>2, ProceedsStep

LEMMA InsertKeeps ==
  ASSUME OrganizationConstants, IndexInv, NEW t \in Threads, InsertStep(t)
  PROVE  IndexInv'
<1>0. PICK k, v : k = agenda[t][1].key /\ v = agenda[t][1].value
  OBVIOUS
<1>1. /\ agenda[t] # <<>> /\ agenda[t][1].do = "insert" /\ Current(t) = agenda[t][1]
      /\ k \in Keys /\ v \in Resource
  BY <1>0, CurrentIs DEF InsertStep, Ready
<1>2. CASE resources[k] # Absent
  <2>1. Fails(t, {})
    BY <1>0, <1>1, <1>2 DEF InsertStep
  <2> QED BY <1>1, <2>1, FailsStep
<1>3. CASE resources[k] = Absent
  <2>1. /\ resources' = [resources EXCEPT ![k] = v] /\ index' = index /\ Continue(t, <<>>)
    BY <1>0, <1>1, <1>3 DEF InsertStep
  <2>2. /\ resources \in [Keys -> Resource \cup {Absent}]
        /\ index \in [Keys -> Types \cup {Absent}]
    BY DEF IndexInv, OrganizationTypes, OrganizationOK
  <2>3. v # Absent
    BY <1>1 DEF OrganizationConstants
  <2>4. Next1(agenda[t], k)'
    <3>1. /\ agenda[t] \in Seq(Todos) /\ Ordered(agenda[t])
          /\ agenda \in [Threads -> Seq(Todos)] /\ 1 \in DOMAIN agenda[t]
      BY CurrentIs, <1>1 DEF IndexInv, OrganizationTypes
    <3>2. /\ 2 \in DOMAIN agenda[t] /\ agenda[t][2].do = "categorize"
          /\ agenda[t][2].key = k
      BY <1>0, <1>1, <3>1 DEF Ordered
    <3>3. agenda'[t] = <<>> \o Tail(agenda[t])
      BY <2>1, <3>1 DEF Continue
    <3>4. agenda'[t] # <<>> /\ agenda'[t][1] = agenda[t][2]
      <4>1. <<>> \in Seq(Todos) /\ Len(<<>>) = 0
        OBVIOUS
      <4>2. /\ Len(agenda'[t]) = 0 + Len(agenda[t]) - 1 /\ agenda'[t] \in Seq(Todos)
            /\ DOMAIN agenda[t] = 1 .. Len(agenda[t]) /\ Len(agenda[t]) \in Nat
            /\ \A i \in 0 + 1 .. Len(agenda'[t]) : agenda'[t][i] = agenda[t][i - 0 + 1]
        BY <4>1, <3>1, <3>3, <1>1, Spliced
      <4>3. Len(agenda'[t]) >= 1 /\ agenda'[t][1] = agenda[t][2]
        BY <4>2, <3>2
      <4> QED BY <4>2, <4>3
    <3> QED BY <3>2, <3>4 DEF Next1
  <2>5. resources'[k] = v /\ resources' \in [Keys -> Resource \cup {Absent}]
        /\ \A q \in Keys \ {k} : resources'[q] = resources[q]
    BY <1>1, <2>1, <2>2
  <2> QED BY <1>0, <1>1, <1>3, <2>1, <2>2, <2>3, <2>4, <2>5, EmptyProceeds
<1> QED BY <1>2, <1>3

LEMMA UpdatedIs ==
  ASSUME NEW old \in Resource, NEW new \in Resource
  PROVE  Updated(old, new) \in Resource /\ Updated(old, new).type = old.type
BY DEF Updated, Resource

\* The type of k and its entry stay.
LEMMA UpdatesStep ==
  ASSUME OrganizationConstants, IndexInv, NEW t \in Threads, agenda[t] # <<>>,
         NEW k, k = agenda[t][1].key, agenda[t][1].do \in {"update", "mirror"},
         NEW new \in Resource, resources[k] # Absent,
         resources' = [resources EXCEPT ![k] = Updated(@, new)],
         index' = index, Continue(t, <<>>)
  PROVE  IndexInv'
<1>1. k \in Keys /\ resources[k] \in Resource
  BY CurrentIs
<1>2. /\ resources \in [Keys -> Resource \cup {Absent}]
      /\ index \in [Keys -> Types \cup {Absent}]
  BY DEF IndexInv, OrganizationTypes, OrganizationOK
<1>3. /\ resources'[k] = Updated(resources[k], new)
      /\ resources'[k] \in Resource /\ resources'[k].type = resources[k].type
      /\ resources' \in [Keys -> Resource \cup {Absent}]
      /\ \A q \in Keys \ {k} : resources'[q] = resources[q]
  BY <1>1, <1>2, UpdatedIs
<1>4. resources'[k] # Absent
  BY <1>3 DEF OrganizationConstants
<1>5. Agrees(k) => Agrees(k)'
  BY <1>3, <1>4 DEF Agrees
<1>6. /\ \A q \in Keys \ {k} : resources'[q] = resources[q] /\ index'[q] = index[q]
      /\ index' \in [Keys -> Types \cup {Absent}]
  BY <1>2, <1>3
<1>7. /\ agenda[t][1].do # "insert"
      /\ (Agrees(k) => Agrees(k)') /\ agenda[t][1].do \notin {"categorize", "uncategorize"}
  BY <1>5
<1>8. Plan(<<>>, k) /\ DOMAIN <<>> = {}
  BY NoPlan
<1>9. Proceeds(t, k, <<>>)
  BY <1>3, <1>4, <1>6, <1>7, <1>8 DEF Proceeds
<1> QED BY <1>9, ProceedsStep

LEMMA UpdateKeeps ==
  ASSUME OrganizationConstants, IndexInv, NEW t \in Threads, UpdateStep(t)
  PROVE  IndexInv'
<1>0. PICK k, v : k = agenda[t][1].key /\ v = agenda[t][1].value
  OBVIOUS
<1>1. /\ agenda[t] # <<>> /\ agenda[t][1].do = "update" /\ Current(t) = agenda[t][1]
      /\ k \in Keys /\ v \in Resource
  BY <1>0, CurrentIs DEF UpdateStep, Ready
<1>2. CASE resources[k] # Absent
  BY <1>0, <1>1, <1>2, UpdatesStep DEF UpdateStep
<1>3. CASE resources[k] = Absent
  <2>1. Fails(t, {})
    BY <1>0, <1>1, <1>3 DEF UpdateStep
  <2> QED BY <1>1, <2>1, FailsStep
<1> QED BY <1>2, <1>3

LEMMA CategorizeKeeps ==
  ASSUME OrganizationConstants, IndexInv, NEW t \in Threads, CategorizeStep(t)
  PROVE  IndexInv'
<1>0. PICK k, v : k = agenda[t][1].key /\ v = agenda[t][1].value
  OBVIOUS
<1>1. /\ agenda[t] # <<>> /\ agenda[t][1].do = "categorize" /\ Current(t) = agenda[t][1]
      /\ k \in Keys /\ v \in Resource /\ resources' = resources /\ 1 \in DOMAIN agenda[t]
  BY <1>0, CurrentIs DEF CategorizeStep, Ready
<1>2. CASE ~v.named
  <2>1. Fails(t, {k})
    BY <1>0, <1>1, <1>2 DEF CategorizeStep
  <2> QED BY <1>0, <1>1, <2>1, FailsStep
<1>3. CASE v.named
  <2>1. index' = [index EXCEPT ![k] = v.type] /\ Continue(t, <<>>)
    BY <1>0, <1>1, <1>3 DEF CategorizeStep
  <2>2. /\ resources \in [Keys -> Resource \cup {Absent}]
        /\ index \in [Keys -> Types \cup {Absent}]
    BY DEF IndexInv, OrganizationTypes, OrganizationOK
  <2>3. v.type \in Types
    BY <1>1 DEF Resource
  <2>4. /\ index'[k] = v.type /\ index' \in [Keys -> Types \cup {Absent}]
        /\ \A q \in Keys \ {k} : index'[q] = index[q]
    BY <1>1, <2>1, <2>2, <2>3
  <2>5. k \notin doubtful' => Agrees(k)'
    <3>1. Loose(agenda[t], 1)
      BY <1>1 DEF Loose
    <3>2. k \notin doubtful => Has(k, v.type)
      BY <1>0, <1>1, <3>1 DEF IndexInv, Typed
    <3>3. doubtful \subseteq doubtful'
      BY <2>1 DEF Continue
    <3> QED BY <1>1, <2>4, <3>2, <3>3 DEF Agrees, Has
  <2> QED BY <1>0, <1>1, <2>1, <2>2, <2>4, <2>5, EmptyProceeds
<1> QED BY <1>2, <1>3

LEMMA UncategorizeKeeps ==
  ASSUME OrganizationConstants, IndexInv, NEW t \in Threads, UncategorizeStep(t)
  PROVE  IndexInv'
<1>0. PICK k : k = agenda[t][1].key
  OBVIOUS
<1>1. /\ agenda[t] # <<>> /\ agenda[t][1].do = "uncategorize" /\ Current(t) = agenda[t][1]
      /\ k \in Keys /\ resources' = resources
  BY <1>0, CurrentIs DEF UncategorizeStep, Ready
<1>2. index' = [index EXCEPT ![k] = Absent] /\ Continue(t, <<>>)
  BY <1>0, <1>1 DEF UncategorizeStep
<1>3. /\ resources \in [Keys -> Resource \cup {Absent}]
      /\ index \in [Keys -> Types \cup {Absent}]
  BY DEF IndexInv, OrganizationTypes, OrganizationOK
<1>4. /\ index'[k] = Absent /\ index' \in [Keys -> Types \cup {Absent}]
      /\ \A q \in Keys \ {k} : index'[q] = index[q]
  BY <1>1, <1>2, <1>3
<1>5. k \notin doubtful' => Agrees(k)'
  <2>1. k \notin doubtful => resources[k] = Absent
    BY <1>0, <1>1 DEF IndexInv, Gone
  <2>2. doubtful \subseteq doubtful'
    BY <1>2 DEF Continue
  <2> QED BY <1>1, <1>4, <2>1, <2>2 DEF Agrees
<1> QED BY <1>0, <1>1, <1>2, <1>3, <1>4, <1>5, EmptyProceeds

LEMMA UnregisterKeeps ==
  ASSUME OrganizationConstants, IndexInv, NEW t \in Threads, UnregisterStep(t)
  PROVE  IndexInv'
<1>0. PICK k : k = agenda[t][1].key
  OBVIOUS
<1>1. /\ agenda[t] # <<>> /\ agenda[t][1].do = "unregister" /\ Current(t) = agenda[t][1]
      /\ k \in Keys /\ index' = index
  BY <1>0, CurrentIs DEF UnregisterStep, Ready
<1>2. CASE resources[k] = Absent
  <2>1. Fails(t, {})
    BY <1>0, <1>1, <1>2 DEF UnregisterStep
  <2> QED BY <1>1, <2>1, FailsStep
<1>3. CASE resources[k] # Absent
  <2>0. PICK first, todo :
          first = Do("uncategorize", k, Absent, FALSE) /\ todo = <<first>>
    OBVIOUS
  <2>1. resources' = [resources EXCEPT ![k] = Absent] /\ Continue(t, todo)
    BY <2>0, <1>0, <1>1, <1>3 DEF UnregisterStep
  <2>2. /\ resources \in [Keys -> Resource \cup {Absent}]
        /\ index \in [Keys -> Types \cup {Absent}]
        /\ agenda[t] \in Seq(Todos) /\ agenda \in [Threads -> Seq(Todos)]
    BY DEF IndexInv, OrganizationTypes, OrganizationOK
  <2>3. /\ resources'[k] = Absent /\ resources' \in [Keys -> Resource \cup {Absent}]
        /\ \A q \in Keys \ {k} : resources'[q] = resources[q]
    BY <1>1, <2>1, <2>2
  <2>4. first \in Todos /\ first.do = "uncategorize" /\ first.key = k
    BY <2>0, <1>1 DEF Do, Todos
  <2>5. /\ todo \in Seq(Todos) /\ Plan(todo, k) /\ todo # <<>> /\ todo[1] = first
        /\ DOMAIN todo = {1} /\ Len(todo) = 1
    BY <2>0, <2>4, OnePlan
  <2>6. agenda'[t] = todo \o Tail(agenda[t])
    BY <2>1, <2>2 DEF Continue
  <2>7. Next1(agenda[t], k)'
    <3>1. Len(agenda'[t]) >= 1 /\ agenda'[t][1] = todo[1] /\ agenda'[t] \in Seq(Todos)
      <4>1. PICK rest \in Seq(Todos) : rest = Tail(agenda[t])
        BY <1>1, <2>2, HeadTailProperties
      <4>2. todo \in Seq(Todos) /\ Len(todo) = 1 /\ Len(rest) \in Nat
        BY <2>5
      <4>3. /\ todo \o rest \in Seq(Todos) /\ Len(todo \o rest) = Len(todo) + Len(rest)
            /\ \A i \in 1 .. Len(todo) + Len(rest) :
                 (todo \o rest)[i] = IF i <= Len(todo) THEN todo[i] ELSE rest[i - Len(todo)]
        BY <4>2, ConcatProperties
      <4>4. (todo \o rest)[1] = todo[1] /\ Len(todo \o rest) >= 1
        BY <4>2, <4>3
      <4> QED BY <4>1, <4>3, <4>4, <2>6
    <3> QED BY <2>4, <2>5, <3>1 DEF Next1
  <2>8. \A i \in DOMAIN todo : ~Loose(todo, i)
    BY <2>4, <2>5 DEF Loose
  <2>9. Proceeds(t, k, todo)
    BY <1>0, <1>1, <1>3, <2>1, <2>2, <2>3, <2>4, <2>5, <2>7, <2>8 DEF Proceeds
  <2> QED BY <2>9, ProceedsStep
<1> QED BY <1>2, <1>3

LEMMA DeviceIs == ASSUME OrganizationConstants PROVE Device \in Resource
BY DEF Device, Resource, OrganizationConstants

LEMMA MirrorKeeps ==
  ASSUME OrganizationConstants, IndexInv, NEW t \in Threads, MirrorStep(t)
  PROVE  IndexInv'
<1>0. PICK k : k = agenda[t][1].key
  OBVIOUS
<1>1. /\ agenda[t] # <<>> /\ agenda[t][1].do = "mirror" /\ Current(t) = agenda[t][1]
      /\ k \in Keys /\ index' = index
  BY <1>0, CurrentIs DEF MirrorStep, Ready
<1>2. CASE resources[k] # Absent
  <2>1. /\ resources' = [resources EXCEPT ![k] = Updated(@, Device)]
        /\ Continue(t, <<>>)
    BY <1>0, <1>1, <1>2 DEF MirrorStep
  <2> QED BY <1>0, <1>1, <1>2, <2>1, DeviceIs, UpdatesStep
<1>3. CASE resources[k] = Absent
  <2>1. resources' = resources /\ Continue(t, Register(k, Device))
    BY <1>0, <1>1, <1>3 DEF MirrorStep
  <2>2. Plan(Register(k, Device), k) /\ Clean(Register(k, Device))
    BY <1>1, DeviceIs, RegisterPlan
  <2> QED BY <1>0, <1>1, <2>1, <2>2, PlansStep DEF Clean
<1> QED BY <1>2, <1>3

LEMMA ClearKeeps ==
  ASSUME IndexInv, ClearAll PROVE IndexInv'
<1>1. /\ resources' = Empty /\ index' = Empty /\ agenda' = agenda
      /\ target' = [t \in Threads |-> <<>>]
      /\ doubtful' = doubtful \cup UNION {Busy(t) : t \in Threads}
  BY DEF ClearAll
<1>2. \A k \in Keys : resources'[k] = Absent /\ index'[k] = Absent
  BY <1>1 DEF Empty
<1>3. OrganizationTypes'
  BY <1>1, BusyKeys DEF IndexInv, OrganizationTypes, OrganizationOK, Empty
<1>4. Settled'
  BY <1>2 DEF Settled, Agrees
<1>5. Typed'
  <2> SUFFICES ASSUME NEW t \in Threads, NEW i \in DOMAIN agenda[t], Loose(agenda[t], i)
               PROVE  agenda[t][i].key \in doubtful'
    BY <1>1 DEF Typed
  <2>1. agenda[t][i].key \in Busy(t)
    BY BusyHas DEF Loose
  <2> QED BY <2>1, <1>1
<1>6. Gone'
  <2>1. \A t \in Threads : agenda[t] # <<>> => agenda[t][1].key \in Keys
    BY CurrentIs
  <2> QED BY <2>1, <1>1, <1>2 DEF Gone
<1>7. \A t \in Threads : Ordered(agenda[t])'
  BY <1>1 DEF IndexInv
<1> QED BY <1>3, <1>4, <1>5, <1>6, <1>7 DEF IndexInv

-----------------------------------------------------------------------------
(* The plans of the calls.                                                 *)

LEMMA SequenceIs ==
  ASSUME NEW n \in Nat, NEW s \in [1 .. n -> Todos]
  PROVE  s \in Seq(Todos) /\ Len(s) = n /\ DOMAIN s = 1 .. n
BY SeqDef

\* reconcile() plans one step for each key: to categorize what is current, to
\* upsert what is not, and to unregister what is not among the valid records.
Reconciles(s, table) ==
  /\ s \in Seq(Todos)
  /\ \A i \in DOMAIN s :
       \/ /\ s[i].do \in {"categorize", "upsert"} /\ s[i].value = table[s[i].key]
          /\ table[s[i].key] \notin {Absent, Malformed}
          /\ s[i].do = "categorize" => resources[s[i].key] = table[s[i].key]
       \/ s[i].do = "unregister" /\ table[s[i].key] \in {Absent, Malformed}
  /\ \A i, j \in DOMAIN s : i < j /\ s[j].do = "categorize" => s[i].key # s[j].key
  /\ \A k \in Keys :
       IF table[k] \in {Absent, Malformed}
         THEN resources[k] # Absent =>
                \E i \in DOMAIN s : s[i].key = k /\ s[i].do = "unregister"
         ELSE resources[k] # table[k] =>
                \E i \in DOMAIN s : s[i].key = k /\ s[i].do = "upsert"

LEMMA ReconcilePlan ==
  ASSUME OrganizationConstants, NEW table \in Tables
  PROVE  Reconciles(Reconcile(table), table)
<1> DEFINE valid == {k \in Keys : table[k] \notin {Absent, Malformed}}
           others == {k \in Keys : resources[k] # Absent} \ valid
           added == SetToSeq(valid)
           extra == SetToSeq(others)
           n == Cardinality(valid)
           m == Cardinality(others)
           Add(k) == IF resources[k] = table[k] THEN Do("categorize", k, table[k], TRUE)
                                                 ELSE Do("upsert", k, table[k], FALSE)
           a == [i \in DOMAIN added |-> Add(added[i])]
           b == [i \in DOMAIN extra |-> Do("unregister", extra[i], Absent, TRUE)]
           s == a \o b
<1>1. Reconcile(table) = s
  BY DEF Reconcile
<1>2. IsFiniteSet(valid) /\ IsFiniteSet(others)
  <2>1. valid \subseteq Keys /\ others \subseteq Keys /\ IsFiniteSet(Keys)
    BY DEF OrganizationConstants
  <2> HIDE DEF valid, others
  <2> QED BY <2>1, FS_Subset
<1>3. /\ \A k \in valid : k \in Keys /\ table[k] \in Resource
                          /\ table[k] \notin {Absent, Malformed}
      /\ \A k \in others : k \in Keys /\ table[k] \in {Absent, Malformed}
      /\ \A k \in Keys : table[k] \notin {Absent, Malformed} => k \in valid
      /\ \A k \in Keys : table[k] \in {Absent, Malformed} /\ resources[k] # Absent =>
           k \in others
  BY DEF Tables, OrganizationConstants
<1> HIDE DEF valid, others
<1>4. /\ added \in [1 .. n -> valid] /\ n \in Nat /\ DOMAIN added = 1 .. n
      /\ \A i, j \in 1 .. n : added[i] = added[j] => i = j
      /\ \A k \in valid : \E i \in 1 .. n : added[i] = k
  BY <1>2, SetToSeqIs
<1>5. /\ extra \in [1 .. m -> others] /\ m \in Nat /\ DOMAIN extra = 1 .. m
      /\ \A k \in others : \E i \in 1 .. m : extra[i] = k
  BY <1>2, SetToSeqIs
<1> HIDE DEF added, extra, n, m
<1>6. ASSUME NEW k \in valid
      PROVE  /\ Add(k) \in Todos /\ Add(k).key = k /\ Add(k).value = table[k]
             /\ \/ Add(k).do = "categorize" /\ resources[k] = table[k]
                \/ Add(k).do = "upsert" /\ resources[k] # table[k]
  BY <1>3 DEF Do, Todos
<1>7. ASSUME NEW k \in others
      PROVE  /\ Do("unregister", k, Absent, TRUE) \in Todos
             /\ Do("unregister", k, Absent, TRUE).key = k
             /\ Do("unregister", k, Absent, TRUE).do = "unregister"
  BY <1>3 DEF Do, Todos
<1> HIDE DEF Add
<1>8. /\ a \in Seq(Todos) /\ Len(a) = n
      /\ \A i \in 1 .. n : added[i] \in valid /\ a[i] = Add(added[i])
  <2>1. a \in [1 .. n -> Todos]
    BY <1>4, <1>6
  <2>2. \A i \in 1 .. n : added[i] \in valid /\ a[i] = Add(added[i])
    BY <1>4
  <2> HIDE DEF a
  <2> QED BY <2>1, <2>2, <1>4, SequenceIs
<1>9. /\ b \in Seq(Todos) /\ Len(b) = m
      /\ \A i \in 1 .. m : /\ extra[i] \in others
                           /\ b[i] = Do("unregister", extra[i], Absent, TRUE)
  <2>1. b \in [1 .. m -> Todos]
    BY <1>5, <1>7
  <2>2. \A i \in 1 .. m : /\ extra[i] \in others
                          /\ b[i] = Do("unregister", extra[i], Absent, TRUE)
    BY <1>5
  <2> HIDE DEF b
  <2> QED BY <2>1, <2>2, <1>5, SequenceIs
<1> HIDE DEF a, b
<1>10. /\ s \in Seq(Todos) /\ Len(s) = n + m /\ DOMAIN s = 1 .. n + m
       /\ \A i \in 1 .. n + m : s[i] = IF i <= n THEN a[i] ELSE b[i - n]
  <2>1. /\ s \in Seq(Todos) /\ Len(s) = Len(a) + Len(b)
        /\ \A i \in 1 .. Len(a) + Len(b) : s[i] = IF i <= Len(a) THEN a[i] ELSE b[i - Len(a)]
    BY <1>8, <1>9, ConcatProperties
  <2> HIDE DEF s
  <2>2. DOMAIN s = 1 .. Len(s)
    BY <2>1
  <2> QED BY <2>1, <2>2, <1>8, <1>9
<1> HIDE DEF s
<1>11. \A i \in 1 .. n : i \in DOMAIN s /\ s[i] = Add(added[i]) /\ added[i] \in valid
  BY <1>4, <1>5, <1>8, <1>10
<1>12. \A i \in 1 .. m :
         /\ n + i \in DOMAIN s /\ s[n + i] = Do("unregister", extra[i], Absent, TRUE)
         /\ extra[i] \in others
  <2> SUFFICES ASSUME NEW i \in 1 .. m
               PROVE  /\ n + i \in DOMAIN s
                      /\ s[n + i] = Do("unregister", extra[i], Absent, TRUE)
                      /\ extra[i] \in others
    OBVIOUS
  <2>1. n + i \in 1 .. n + m /\ ~(n + i <= n) /\ (n + i) - n = i
    BY <1>4, <1>5
  <2> QED BY <2>1, <1>9, <1>10
<1>13. \A i \in DOMAIN s : i \in 1 .. n \/ (i - n \in 1 .. m /\ n + (i - n) = i)
  BY <1>4, <1>5, <1>10
<1>14. \A i \in DOMAIN s :
         \/ /\ s[i].do \in {"categorize", "upsert"} /\ s[i].value = table[s[i].key]
            /\ table[s[i].key] \notin {Absent, Malformed}
            /\ s[i].do = "categorize" => resources[s[i].key] = table[s[i].key]
         \/ s[i].do = "unregister" /\ table[s[i].key] \in {Absent, Malformed}
  <2> SUFFICES ASSUME NEW i \in DOMAIN s
               PROVE  \/ /\ s[i].do \in {"categorize", "upsert"}
                         /\ s[i].value = table[s[i].key]
                         /\ table[s[i].key] \notin {Absent, Malformed}
                         /\ s[i].do = "categorize" => resources[s[i].key] = table[s[i].key]
                      \/ s[i].do = "unregister" /\ table[s[i].key] \in {Absent, Malformed}
    OBVIOUS
  <2>1. CASE i \in 1 .. n
    BY <2>1, <1>3, <1>6, <1>11
  <2>2. CASE i - n \in 1 .. m /\ n + (i - n) = i
    <3>1. s[i] = Do("unregister", extra[i - n], Absent, TRUE) /\ extra[i - n] \in others
      BY <2>2, <1>12
    <3> QED BY <3>1, <1>3, <1>7
  <2> QED BY <2>1, <2>2, <1>13
<1>15. \A i, j \in DOMAIN s : i < j /\ s[j].do = "categorize" => s[i].key # s[j].key
  <2> SUFFICES ASSUME NEW i \in DOMAIN s, NEW j \in DOMAIN s, i < j,
                      s[j].do = "categorize"
               PROVE  s[i].key # s[j].key
    OBVIOUS
  <2>1. j \in 1 .. n
    <3>1. CASE j - n \in 1 .. m /\ n + (j - n) = j
      <4>1. s[j].do = "unregister"
        BY <3>1, <1>7, <1>12
      <4> QED BY <4>1
    <3> QED BY <3>1, <1>13
  <2>2. i \in 1 .. n /\ i # j
    BY <2>1, <1>4, <1>10
  <2>3. added[i] # added[j]
    BY <2>1, <2>2, <1>4
  <2> QED BY <2>1, <2>2, <2>3, <1>6, <1>11
<1>16. ASSUME NEW k \in Keys
       PROVE  IF table[k] \in {Absent, Malformed}
                THEN resources[k] # Absent =>
                       \E i \in DOMAIN s : s[i].key = k /\ s[i].do = "unregister"
                ELSE resources[k] # table[k] =>
                       \E i \in DOMAIN s : s[i].key = k /\ s[i].do = "upsert"
  <2>1. ASSUME k \in others PROVE \E i \in DOMAIN s : s[i].key = k /\ s[i].do = "unregister"
    <3>1. PICK i \in 1 .. m : extra[i] = k
      BY <2>1, <1>5
    <3>2. n + i \in DOMAIN s /\ s[n + i] = Do("unregister", k, Absent, TRUE)
      BY <3>1, <1>12
    <3>3. s[n + i].key = k /\ s[n + i].do = "unregister"
      BY <2>1, <3>2, <1>7
    <3> QED BY <3>2, <3>3
  <2>2. ASSUME k \in valid, resources[k] # table[k]
        PROVE  \E i \in DOMAIN s : s[i].key = k /\ s[i].do = "upsert"
    <3>1. PICK i \in 1 .. n : added[i] = k
      BY <2>2, <1>4
    <3>2. i \in DOMAIN s /\ s[i] = Add(k)
      BY <3>1, <1>11
    <3> QED BY <3>2, <2>2, <1>6
  <2> QED BY <2>1, <2>2, <1>3
<1>17. Reconciles(s, table)
  BY <1>10, <1>14, <1>15, <1>16 DEF Reconciles
<1> QED BY <1>1, <1>17

\* Calls that do one thing, or register a resource.
LEMMA CallKeeps ==
  ASSUME IndexInv, NEW t \in Threads, NEW k, NEW todo, Plan(todo, k), Clean(todo),
         Calls(t, todo, <<>>)
  PROVE  IndexInv'
<1>1. /\ todo \in Seq(Todos) /\ Ordered(todo)
      /\ \A i \in DOMAIN todo : ~Loose(todo, i) /\ todo[i].do # "uncategorize"
  BY DEF Plan, Clean
<1> QED BY <1>1, CallsStep

LEMMA IngestAllKeeps ==
  ASSUME OrganizationConstants, IndexInv, NEW t \in Threads, NEW table,
         Calls(t, IngestAll(table), <<>>)
  PROVE  IndexInv'
<1> DEFINE S == {k \in Keys : table[k] # Absent}
           listed == SetToSeq(S)
           todo == IngestAll(table)
           n == Cardinality(S)
<1>1. IsFiniteSet(S)
  <2>1. S \subseteq Keys /\ IsFiniteSet(Keys)
    BY DEF OrganizationConstants
  <2> HIDE DEF S
  <2> QED BY <2>1, FS_Subset
<1>2. S \subseteq Keys /\ todo = [i \in DOMAIN listed |-> Do("fetch", listed[i], Absent, FALSE)]
  BY DEF IngestAll
<1>3. \A k \in Keys : /\ Do("fetch", k, Absent, FALSE) \in Todos
                      /\ Do("fetch", k, Absent, FALSE).do = "fetch"
  BY DEF Do, Todos
<1> HIDE DEF S, todo
<1>4. listed \in [1 .. n -> S] /\ n \in Nat
  BY <1>1, SetToSeqIs
<1> HIDE DEF listed, n
<1>5. todo \in [1 .. n -> Todos] /\ \A i \in DOMAIN todo : todo[i].do = "fetch"
  BY <1>2, <1>3, <1>4
<1>6. todo \in Seq(Todos)
  BY <1>4, <1>5, SequenceIs
<1>7. Ordered(todo) /\ \A i \in DOMAIN todo : ~Loose(todo, i)
  BY <1>5 DEF Ordered, Loose
<1> QED BY <1>5, <1>6, <1>7, CallsStep DEF todo

LEMMA ReconcileKeeps ==
  ASSUME OrganizationConstants, RemoteInv, IndexInv, NEW t \in Threads,
         NEW table \in Tables, Calls(t, Reconcile(table), table)
  PROVE  IndexInv'
<1>1. PICK s : s = Reconcile(table)
  OBVIOUS
<1>2. Reconciles(s, table)
  BY <1>1, ReconcilePlan
<1>3. s \in Seq(Todos) /\ \A i \in DOMAIN s : s[i] \in Todos
  BY <1>2 DEF Reconciles
<1>4. \A i \in DOMAIN s :
        /\ s[i].do \in {"categorize", "upsert", "unregister"} /\ s[i].key \in Keys
        /\ s[i].do = "categorize" => Has(s[i].key, s[i].value.type)
  BY <1>2, <1>3 DEF Reconciles, Has, Todos
<1>5. Ordered(s)
  BY <1>2, <1>4 DEF Ordered, Reconciles
<1> QED BY <1>1, <1>3, <1>4, <1>5, CallsStep DEF Loose

LEMMA IngestionStep ==
  ASSUME OrganizationConstants, RemoteInv, IndexInv, OrganizationNext
  PROVE  IndexInv' /\ UNCHANGED remoteVars
<1>1. CASE ClearAll
  BY <1>1, ClearKeeps DEF ClearAll
<1>2. ASSUME NEW t \in Threads, Step(t) PROVE IndexInv' /\ UNCHANGED remoteVars
  <2>1. CASE FetchStep(t)
    BY <2>1, FetchKeeps DEF FetchStep
  <2>2. CASE UpsertStep(t)
    BY <2>2, UpsertKeeps DEF UpsertStep
  <2>3. CASE InsertStep(t)
    BY <2>3, InsertKeeps DEF InsertStep
  <2>4. CASE UpdateStep(t)
    BY <2>4, UpdateKeeps DEF UpdateStep
  <2>5. CASE CategorizeStep(t)
    BY <2>5, CategorizeKeeps DEF CategorizeStep
  <2>6. CASE UnregisterStep(t)
    BY <2>6, UnregisterKeeps DEF UnregisterStep
  <2>7. CASE UncategorizeStep(t)
    BY <2>7, UncategorizeKeeps DEF UncategorizeStep
  <2>8. CASE MirrorStep(t)
    BY <2>8, MirrorKeeps DEF MirrorStep
  <2> QED BY <1>2, <2>1, <2>2, <2>3, <2>4, <2>5, <2>6, <2>7, <2>8 DEF Step
<1>3. ASSUME NEW t \in Threads, IngestAllCalled(t) PROVE IndexInv' /\ UNCHANGED remoteVars
  BY <1>3, IngestAllKeeps DEF IngestAllCalled
<1>4. ASSUME NEW t \in Threads, ReconcileCalled(t) PROVE IndexInv' /\ UNCHANGED remoteVars
  <2>1. PICK table \in Listed : Calls(t, Reconcile(table), table) /\ UNCHANGED remoteVars
    BY <1>4 DEF ReconcileCalled
  <2>2. table \in Tables
    BY <2>1 DEF Listed, RemoteInv, RemoteOK
  <2> QED BY <2>1, <2>2, ReconcileKeeps
<1>5. ASSUME NEW t \in Threads, NEW k \in Keys,
             IngestCalled(t, k) \/ RemoveCalled(t, k) \/ MirrorCalled(t, k)
      PROVE  IndexInv' /\ UNCHANGED remoteVars
  <2>1. PICK one \in {Do("fetch", k, Absent, FALSE), Do("unregister", k, Absent, FALSE),
                      Do("mirror", k, Device, FALSE)} :
          Calls(t, <<one>>, <<>>) /\ UNCHANGED remoteVars
    BY <1>5 DEF IngestCalled, RemoveCalled, MirrorCalled, Unregister
  <2>2. /\ one \in Todos /\ one.key = k
        /\ one.do \notin {"insert", "categorize", "uncategorize"}
    <3>1. CASE one = Do("fetch", k, Absent, FALSE)
      BY <3>1 DEF Do, Todos
    <3>2. CASE one = Do("unregister", k, Absent, FALSE)
      BY <3>2 DEF Do, Todos
    <3>3. CASE one = Do("mirror", k, Device, FALSE)
      <4>1. Device \in Resource
        BY DeviceIs
      <4> QED BY <3>3, <4>1 DEF Do, Todos
    <3> QED BY <2>1, <3>1, <3>2, <3>3
  <2>3. Plan(<<one>>, k) /\ Clean(<<one>>)
    BY <2>2, OnePlan
  <2> QED BY <2>1, <2>3, CallKeeps
<1>6. ASSUME NEW t \in Threads, NEW k \in Keys, NEW value \in Values \ {Malformed},
             RegisterCalled(t, k, value)
      PROVE  IndexInv' /\ UNCHANGED remoteVars
  <2>1. value \in Resource
    BY DEF OrganizationConstants
  <2>2. Plan(Register(k, value), k) /\ Clean(Register(k, value))
    BY <2>1, RegisterPlan
  <2> QED BY <1>6, <2>2, CallKeeps DEF RegisterCalled
<1> QED BY <1>1, <1>2, <1>3, <1>4, <1>5, <1>6 DEF OrganizationNext

LEMMA IndexInitial == OrganizationInit => IndexInv
<1> SUFFICES ASSUME OrganizationInit PROVE IndexInv
  OBVIOUS
<1>1. \A t \in Threads : agenda[t] = <<>> /\ Ordered(agenda[t])
  BY DEF OrganizationInit, Ordered
<1>2. \A k \in Keys : resources[k] = Absent /\ index[k] = Absent
  BY DEF OrganizationInit, Empty
<1>3. OrganizationTypes
  BY DEF OrganizationInit, OrganizationTypes, OrganizationOK, Empty
<1> QED BY <1>1, <1>2, <1>3 DEF IndexInv, Settled, Agrees, Typed, Gone

LEMMA IngestionInvariant ==
  ASSUME OrganizationConstants PROVE IngestionSpec => [](RemoteInv /\ IndexInv)
<1>1. RemoteConstants
  BY DEF OrganizationConstants
<1>2. ASSUME RemoteInv, IndexInv,
             [OrganizationNext \/ (RemoteNext /\ UNCHANGED organizationVars)]_ingestionVars
      PROVE  RemoteInv' /\ IndexInv'
  <2>1. CASE OrganizationNext
    BY <1>1, <1>2, <2>1, IngestionStep, RemoteStep
  <2>2. CASE RemoteNext /\ UNCHANGED organizationVars
    <3>1. RemoteInv'
      BY <1>1, <1>2, <2>2, RemoteStep
    <3>2. IndexInv'
      BY <1>2, <2>2
         DEF organizationVars, IndexInv, OrganizationTypes, OrganizationOK, Settled,
             Agrees, Typed, Gone, Has
    <3> QED BY <3>1, <3>2
  <2>3. CASE UNCHANGED ingestionVars
    <3>1. RemoteInv'
      BY <1>1, <1>2, <2>3, RemoteStep DEF ingestionVars
    <3>2. IndexInv'
      BY <1>2, <2>3
         DEF ingestionVars, organizationVars, IndexInv, OrganizationTypes, OrganizationOK, Settled,
             Agrees, Typed, Gone, Has
    <3> QED BY <3>1, <3>2
  <2> QED BY <1>2, <2>1, <2>2, <2>3
<1> QED BY <1>2, RemoteInitial, IndexInitial, PTL DEF IngestionSpec

\* The index has the entry of every resource under its type, and no other entry,
\* whatever ingestions, reconciliations, registrations, the mirror of devices and
\* the remote store do at the same time: but for the keys that calls are at work
\* on or have met on, and those with a blank name. For any keys, records, types
\* and threads, with and without the fallback.
THEOREM IndexAgreesHolds ==
  ASSUME OrganizationConstants PROVE IngestionSpec => []IndexAgrees
<1>1. IndexInv => IndexAgrees
  <2> SUFFICES ASSUME IndexInv, NEW k \in Keys, k \notin doubtful,
                      \A t \in Threads : k \notin Busy(t)
               PROVE  Agrees(k)
    BY DEF IndexAgrees, Agrees, IndexInv, OrganizationTypes
  <2>1. ASSUME NEW t \in Threads, Next1(agenda[t], k) PROVE FALSE
    <3>1. 1 \in DOMAIN agenda[t]
      BY <2>1, CurrentIs DEF Next1
    <3>2. k \in Busy(t)
      BY <2>1, <3>1, BusyHas DEF Next1
    <3> QED BY <3>2
  <2> QED BY <2>1 DEF IndexInv, Settled
<1> QED BY <1>1, IngestionInvariant, PTL

-----------------------------------------------------------------------------
(* Reconciliation: what an undisturbed one has still to do.                *)

NotValid(v) == v \in {Absent, Malformed}

\* A resource is as its record says, but for an owner that the record leaves open.
Exact(r, v) ==
  \E owner \in Owners \cup {Nobody} :
    r = [v EXCEPT !.owner = owner] /\ (owner = v.owner \/ v.owner = Nobody)

Doing(A, k, what) == \E i \in DOMAIN A : A[i].key = k /\ A[i].do \in what

\* The steps write the valid records only, and remove a resource with a valid
\* record only to register it again.
Planned(A, T) ==
  /\ \A i \in DOMAIN A : A[i].do \notin {"fetch", "mirror"}
  /\ \A i \in DOMAIN A : A[i].do \in {"upsert", "insert", "update", "categorize"} =>
       T[A[i].key] = A[i].value /\ ~NotValid(T[A[i].key])
  /\ \A i \in DOMAIN A : A[i].do = "unregister" =>
       \/ NotValid(T[A[i].key])
       \/ i + 1 \in DOMAIN A /\ A[i + 1].do = "insert" /\ A[i + 1].key = A[i].key

\* A key has been reconciled, or will be.
Reached(A, T, R, k) ==
  IF NotValid(T[k])
    THEN R[k] = Absent \/ Doing(A, k, {"unregister"})
    ELSE \/ Exact(R[k], T[k])
         \/ Doing(A, k, {"upsert", "insert"})
         \/ Doing(A, k, {"update"}) /\ R[k] # Absent /\ R[k].type = T[k].type

Follows(A, T, R) == Planned(A, T) /\ \A k \in Keys : Reached(A, T, R, k)

ReconcileInv ==
  \A t \in Threads : target[t] # <<>> => Follows(agenda[t], target[t], resources)

LEMMA DoingSpliced ==
  ASSUME NEW A \in Seq(Todos), A # <<>>, NEW todo \in Seq(Todos),
         NEW B, B = todo \o Tail(A), NEW q, NEW what,
         \/ Doing(todo, q, what)
         \/ Doing(A, q, what) /\ (A[1].key # q \/ A[1].do \notin what)
  PROVE  Doing(B, q, what)
<1> DEFINE n == Len(todo)
<1>1. /\ Len(B) = n + Len(A) - 1 /\ n \in Nat /\ Len(A) \in Nat /\ Len(A) >= 1
      /\ DOMAIN B = 1 .. Len(B) /\ DOMAIN A = 1 .. Len(A) /\ DOMAIN todo = 1 .. n
  BY Spliced
<1>2. /\ \A i \in 1 .. n : B[i] = todo[i]
      /\ \A i \in n + 1 .. Len(B) : i - n + 1 \in 2 .. Len(A) /\ B[i] = A[i - n + 1]
  BY Spliced
<1> HIDE DEF n
<1>3. CASE Doing(todo, q, what)
  <2>1. PICK i \in DOMAIN todo : todo[i].key = q /\ todo[i].do \in what
    BY <1>3 DEF Doing
  <2>2. i \in DOMAIN B /\ B[i] = todo[i]
    BY <2>1, <1>1, <1>2
  <2> QED BY <2>1, <2>2 DEF Doing
<1>4. CASE Doing(A, q, what) /\ (A[1].key # q \/ A[1].do \notin what)
  <2>1. PICK i \in DOMAIN A : A[i].key = q /\ A[i].do \in what
    BY <1>4 DEF Doing
  <2>2. i # 1
    BY <2>1, <1>4
  <2> DEFINE j == i + n - 1
  <2>3. j \in n + 1 .. Len(B) /\ j - n + 1 = i
    BY <2>1, <2>2, <1>1
  <2> HIDE DEF j
  <2>4. j \in DOMAIN B /\ B[j] = A[i]
    <3>1. B[j] = A[j - n + 1]
      BY <2>3, <1>2
    <3>2. j \in DOMAIN B
      BY <2>3, <1>1
    <3> QED BY <3>1, <3>2, <2>3
  <2> QED BY <2>1, <2>4 DEF Doing
<1> QED BY <1>3, <1>4

LEMMA PlannedSpliced ==
  ASSUME NEW A \in Seq(Todos), A # <<>>, NEW todo \in Seq(Todos),
         NEW B, B = todo \o Tail(A), NEW T, Planned(A, T), Planned(todo, T)
  PROVE  Planned(B, T)
<1> DEFINE n == Len(todo)
<1>1. /\ Len(B) = n + Len(A) - 1 /\ n \in Nat /\ Len(A) \in Nat /\ Len(A) >= 1
      /\ DOMAIN B = 1 .. Len(B) /\ DOMAIN A = 1 .. Len(A) /\ DOMAIN todo = 1 .. n
  BY Spliced
<1>2. /\ \A i \in 1 .. n : B[i] = todo[i]
      /\ \A i \in n + 1 .. Len(B) : i - n + 1 \in 2 .. Len(A) /\ B[i] = A[i - n + 1]
  BY Spliced
<1> HIDE DEF n
<1>3. ASSUME NEW i \in DOMAIN B
      PROVE  \/ i \in DOMAIN todo /\ B[i] = todo[i]
             \/ i \in n + 1 .. Len(B) /\ i - n + 1 \in DOMAIN A /\ B[i] = A[i - n + 1]
  <2>1. i \in 1 .. n \/ i \in n + 1 .. Len(B)
    BY <1>1
  <2>2. CASE i \in 1 .. n
    BY <2>2, <1>1, <1>2
  <2>3. CASE i \in n + 1 .. Len(B)
    <3>1. i - n + 1 \in 2 .. Len(A) /\ B[i] = A[i - n + 1]
      BY <2>3, <1>2
    <3>2. i - n + 1 \in DOMAIN A
      BY <3>1, <1>1
    <3> QED BY <2>3, <3>1, <3>2
  <2> QED BY <2>1, <2>2, <2>3
<1>4. \A i \in DOMAIN B : B[i].do \notin {"fetch", "mirror"}
  BY <1>3 DEF Planned
<1>5. \A i \in DOMAIN B : B[i].do \in {"upsert", "insert", "update", "categorize"} =>
        T[B[i].key] = B[i].value /\ ~NotValid(T[B[i].key])
  BY <1>3 DEF Planned
<1>6. ASSUME NEW i \in DOMAIN B, B[i].do = "unregister", ~NotValid(T[B[i].key])
      PROVE  i + 1 \in DOMAIN B /\ B[i + 1].do = "insert" /\ B[i + 1].key = B[i].key
  <2>1. CASE i \in DOMAIN todo /\ B[i] = todo[i]
    <3>1. i + 1 \in DOMAIN todo /\ todo[i + 1].do = "insert" /\ todo[i + 1].key = B[i].key
      BY <2>1, <1>6 DEF Planned
    <3>2. i + 1 \in DOMAIN B /\ B[i + 1] = todo[i + 1]
      BY <3>1, <1>1, <1>2
    <3> QED BY <3>1, <3>2
  <2>2. CASE i \in n + 1 .. Len(B) /\ i - n + 1 \in DOMAIN A /\ B[i] = A[i - n + 1]
    <3> DEFINE p == i - n + 1
    <3>1. p + 1 \in DOMAIN A /\ A[p + 1].do = "insert" /\ A[p + 1].key = B[i].key
      <4>1. p \in DOMAIN A /\ B[i] = A[p]
        BY <2>2
      <4> HIDE DEF p
      <4> QED BY <4>1, <1>6 DEF Planned
    <3>2. i \in Int /\ n \in Int /\ p = i - n + 1 /\ p + 1 \in 1 .. Len(A)
      BY <3>1, <2>2, <1>1
    <3> HIDE DEF p
    <3>3. i + 1 >= n + 1
      BY <2>2, <3>2
    <3>4. i + 1 <= Len(B) /\ (i + 1) - n + 1 = p + 1
      BY <3>2, <1>1
    <3>5. i + 1 \in n + 1 .. Len(B)
      BY <3>2, <3>3, <3>4, <1>1
    <3>6. B[i + 1] = A[(i + 1) - n + 1]
      BY <3>5, <1>2
    <3>7. i + 1 \in DOMAIN B
      BY <3>5, <1>1
    <3> QED BY <3>1, <3>4, <3>6, <3>7
  <2> QED BY <2>1, <2>2, <1>3
<1> QED BY <1>4, <1>5, <1>6 DEF Planned

\* What an undisturbed thread does to its key k: for the rest it goes on as before.
LEMMA ActsFollow ==
  ASSUME IndexInv, ReconcileInv, NEW t \in Threads, agenda[t] # <<>>,
         NEW k, k = agenda[t][1].key, NEW todo, Plan(todo, k), Continue(t, todo),
         \A q \in Keys \ {k} : resources'[q] = resources[q],
         target[t] # <<>> =>
           /\ Planned(todo, target[t])
           /\ Reached(todo \o Tail(agenda[t]), target[t], resources', k)
  PROVE  ReconcileInv'
<1>1. /\ agenda' = [agenda EXCEPT ![t] = todo \o Tail(agenda[t])]
      /\ \A u \in Threads : target'[u] =
           IF u # t /\ resources' # resources THEN <<>> ELSE target[u]
      /\ agenda \in [Threads -> Seq(Todos)] /\ todo \in Seq(Todos)
  BY DEF Continue, IndexInv, OrganizationTypes, Plan
<1>2. ASSUME NEW u \in Threads \ {t}, target'[u] # <<>>
      PROVE  Follows(agenda'[u], target'[u], resources')
  <2>1. resources' = resources /\ target'[u] = target[u] /\ agenda'[u] = agenda[u]
    BY <1>1, <1>2
  <2> QED BY <2>1, <1>2 DEF ReconcileInv
<1>3. ASSUME target'[t] # <<>> PROVE Follows(agenda'[t], target'[t], resources')
  <2>1. PICK A, B, T, R, R2 :
          /\ A = agenda[t] /\ B = agenda'[t] /\ T = target[t] /\ R = resources
          /\ R2 = resources'
    OBVIOUS
  <2>2. /\ A \in Seq(Todos) /\ A # <<>> /\ B = todo \o Tail(A) /\ k = A[1].key
        /\ Follows(A, T, R) /\ Planned(todo, T) /\ Reached(B, T, R2, k)
        /\ \A q \in Keys \ {k} : R2[q] = R[q]
    BY <2>1, <1>1, <1>3 DEF ReconcileInv
  <2>3. Planned(B, T)
    BY <2>2, <1>1, PlannedSpliced DEF Follows
  <2>4. ASSUME NEW q \in Keys \ {k} PROVE Reached(B, T, R2, q)
    <3>1. \A what : Doing(A, q, what) => Doing(B, q, what)
      BY <2>2, <1>1, DoingSpliced
    <3>2. R2[q] = R[q] /\ Reached(A, T, R, q)
      BY <2>2 DEF Follows
    <3> QED BY <3>1, <3>2 DEF Reached
  <2>5. Follows(B, T, R2)
    BY <2>2, <2>3, <2>4 DEF Follows
  <2> QED BY <2>1, <2>5, <1>1
<1> QED BY <1>2, <1>3 DEF ReconcileInv

\* A step of a reconciliation that fails: it ends as one, or goes on.
LEMMA FailsFollow ==
  ASSUME IndexInv, ReconcileInv, NEW t \in Threads, agenda[t] # <<>>,
         NEW k, k = agenda[t][1].key, NEW gone, Fails(t, gone),
         agenda[t][1].do \in {"fetch", "insert", "update", "categorize", "unregister"},
         agenda[t][1].do \in {"update", "unregister"} => resources[k] = Absent,
         OrganizationConstants
  PROVE  ReconcileInv'
<1>1. /\ agenda \in [Threads -> Seq(Todos)] /\ target \in [Threads -> Tables \cup {<<>>}]
      /\ resources' = resources /\ Current(t) = agenda[t][1]
      /\ 1 \in DOMAIN agenda[t]
  BY CurrentIs DEF Fails, IndexInv, OrganizationTypes
<1>2. \A u \in Threads \ {t} : agenda'[u] = agenda[u] /\ target'[u] = target[u]
  BY <1>1 DEF Fails
<1>3. ASSUME target'[t] # <<>> PROVE Follows(agenda'[t], target'[t], resources')
  <2>1. PICK A, B, T, R : A = agenda[t] /\ B = agenda'[t] /\ T = target[t] /\ R = resources
    OBVIOUS
  <2>2. /\ A \in Seq(Todos) /\ A # <<>> /\ k = A[1].key /\ Ordered(A) /\ A[1].quiet
        /\ B = Tail(A) /\ target'[t] = T /\ T # <<>> /\ Follows(A, T, R) /\ 1 \in DOMAIN A
    BY <1>1, <1>3, <2>1 DEF Fails, ReconcileInv, IndexInv
  <2>3. /\ B = <<>> \o Tail(A) /\ <<>> \in Seq(Todos) /\ Planned(<<>>, T)
    <3>1. Tail(A) \in Seq(Todos)
      BY <2>2, HeadTailProperties
    <3> QED BY <2>2, <3>1 DEF Planned
  <2>4. Planned(B, T)
    BY <2>2, <2>3, PlannedSpliced DEF Follows
  <2>5. A[1].do \in {"update", "categorize", "unregister"}
    BY <2>1, <2>2 DEF Ordered, Follows, Planned
  <2>6. ASSUME NEW q \in Keys, NotValid(T[q]) PROVE Reached(B, T, R, q)
    <3>1. CASE q = k /\ A[1].do = "unregister"
      BY <3>1, <2>1, <2>6 DEF Reached
    <3>2. CASE ~(q = k /\ A[1].do = "unregister")
      <4>1. Doing(A, q, {"unregister"}) => Doing(B, q, {"unregister"})
        BY <3>2, <2>2, <2>3, DoingSpliced
      <4>2. Reached(A, T, R, q)
        BY <2>2 DEF Follows
      <4> QED BY <4>1, <4>2, <2>6 DEF Reached
    <3> QED BY <3>1, <3>2
  <2>7. ASSUME NEW q \in Keys, ~NotValid(T[q]) PROVE Reached(B, T, R, q)
    <3>1. Doing(A, q, {"upsert", "insert"}) => Doing(B, q, {"upsert", "insert"})
      <4>1. A[1].do \notin {"upsert", "insert"}
        BY <2>5
      <4> HAVE Doing(A, q, {"upsert", "insert"})
      <4> QED BY <4>1, <2>2, <2>3, DoingSpliced
    <3>2. Reached(A, T, R, q)
      BY <2>2 DEF Follows
    <3>3. CASE q = k /\ A[1].do = "update"
      BY <3>1, <3>2, <3>3, <2>1, <2>7 DEF Reached
    <3>4. CASE ~(q = k /\ A[1].do = "update")
      <4>1. Doing(A, q, {"update"}) => Doing(B, q, {"update"})
        BY <3>4, <2>2, <2>3, DoingSpliced
      <4> QED BY <4>1, <3>1, <3>2, <2>7 DEF Reached
    <3> QED BY <3>3, <3>4
  <2>8. Follows(B, T, R)
    BY <2>4, <2>6, <2>7 DEF Follows
  <2> QED BY <2>1, <2>2, <2>8, <1>1
<1> QED BY <1>1, <1>2, <1>3 DEF ReconcileInv

LEMMA UpsertFollows ==
  ASSUME OrganizationConstants, IndexInv, ReconcileInv, NEW t \in Threads, UpsertStep(t)
  PROVE  ReconcileInv'
<1>0. PICK k, v, todo, A, T : /\ k = agenda[t][1].key /\ v = agenda[t][1].value
                              /\ todo = Upsert(k, v) /\ A = agenda[t] /\ T = target[t]
  OBVIOUS
<1>1. /\ agenda[t] # <<>> /\ agenda[t][1].do = "upsert" /\ Current(t) = agenda[t][1]
      /\ k \in Keys /\ v \in Resource /\ 1 \in DOMAIN A /\ A \in Seq(Todos)
  BY <1>0, CurrentIs DEF UpsertStep, Ready, IndexInv, OrganizationTypes
<1>2. UNCHANGED <<resources, index>> /\ Continue(t, todo)
  BY <1>0, <1>1 DEF UpsertStep
<1>3. Absent \notin Resource
  BY DEF OrganizationConstants
<1>4. T # <<>> => T[k] = v /\ ~NotValid(T[k])
  BY <1>0, <1>1 DEF ReconcileInv, Follows, Planned
<1>5. /\ Plan(todo, k)
      /\ T # <<>> => Planned(todo, T)
      /\ \/ Doing(todo, k, {"insert"})
         \/ /\ Doing(todo, k, {"update"}) /\ resources[k] # Absent
            /\ resources[k].type = v.type
  <2>1. CASE resources[k] = Absent
    <3>1. todo = Register(k, v)
      BY <1>0, <2>1 DEF Upsert
    <3>2. /\ DOMAIN todo = {1, 2} /\ todo[1].do = "insert" /\ todo[1].key = k
          /\ todo[1].value = v /\ todo[2].do = "categorize" /\ todo[2].key = k
          /\ todo[2].value = v
      BY <3>1 DEF Register, Do
    <3> QED BY <3>1, <3>2, <1>1, <1>4, RegisterPlan DEF Doing, Planned
  <2>2. CASE resources[k] # Absent /\ resources[k].type # v.type
    <3>1. todo = Unregister(k, FALSE) \o Register(k, v)
      BY <1>0, <2>2 DEF Upsert
    <3>2. todo = <<Do("unregister", k, Absent, FALSE), Do("insert", k, v, FALSE),
                   Do("categorize", k, v, FALSE)>>
      BY <3>1, OneThenTwo DEF Unregister, Register
    <3>3. /\ DOMAIN todo = 1 .. 3
          /\ todo[1].do = "unregister" /\ todo[1].key = k
          /\ todo[2].do = "insert" /\ todo[2].key = k /\ todo[2].value = v
          /\ todo[3].do = "categorize" /\ todo[3].key = k /\ todo[3].value = v
      BY <3>2 DEF Do
    <3>4. Doing(todo, k, {"insert"})
      <4>1. 2 \in DOMAIN todo
        BY <3>3
      <4> QED BY <4>1, <3>3 DEF Doing
    <3>5. ASSUME T # <<>> PROVE Planned(todo, T)
      <4>1. \A i \in DOMAIN todo : i = 1 \/ i = 2 \/ i = 3
        BY <3>3
      <4>2. 1 + 1 = 2 /\ 2 \in DOMAIN todo
        BY <3>3
      <4>3. \A i \in DOMAIN todo : todo[i].do = "unregister" => i = 1
        BY <4>1, <3>3
      <4> QED BY <4>1, <4>2, <4>3, <3>3, <3>5, <1>4 DEF Planned
    <3> QED BY <3>1, <3>4, <3>5, <1>1, <1>3, ReplacePlan
  <2>3. CASE resources[k] # Absent /\ resources[k].type = v.type
    <3>1. todo = Renew(k, v)
      BY <1>0, <2>3 DEF Upsert, Renew
    <3>2. /\ Plan(todo, k) /\ DOMAIN todo = {1, 2} /\ todo[1].do = "update"
          /\ todo[1].key = k /\ todo[2].do = "categorize" /\ todo[1].value = v
          /\ todo[2].value = v /\ todo[2].key = k
      BY <3>1, <1>1, RenewPlan
    <3>3. Doing(todo, k, {"update"})
      BY <3>2 DEF Doing
    <3>4. T # <<>> => Planned(todo, T)
      BY <3>2, <1>4 DEF Planned
    <3> QED BY <2>3, <3>2, <3>3, <3>4
  <2> QED BY <2>1, <2>2, <2>3
<1>6. T # <<>> => Reached(todo \o Tail(A), T, resources', k)
  <2>1. \A what : Doing(todo, k, what) => Doing(todo \o Tail(A), k, what)
    <3>1. todo \in Seq(Todos) /\ A # <<>> /\ A \in Seq(Todos)
      BY <1>0, <1>1, <1>5 DEF Plan
    <3> TAKE what
    <3> HAVE Doing(todo, k, what)
    <3> PICK B : B = todo \o Tail(A)
      OBVIOUS
    <3>2. Doing(B, k, what)
      BY <3>1, DoingSpliced
    <3> QED BY <3>2
  <2>2. \A B : Doing(B, k, {"insert"}) => Doing(B, k, {"upsert", "insert"})
    BY DEF Doing
  <2> QED BY <2>1, <2>2, <1>2, <1>4, <1>5 DEF Reached
<1> QED BY <1>0, <1>1, <1>2, <1>5, <1>6, ActsFollow

LEMMA SomeOwner == ASSUME NEW v \in Resource PROVE Exact(v, v)
<1>1. v.owner \in Owners \cup {Nobody} /\ v = [v EXCEPT !.owner = v.owner]
  BY DEF Resource
<1> QED BY <1>1 DEF Exact

LEMMA ExactUpdated ==
  ASSUME NEW old \in Resource, NEW v \in Resource, old.type = v.type
  PROVE  Exact(Updated(old, v), v)
<1> DEFINE owner == IF v.owner = Nobody THEN old.owner ELSE v.owner
<1>1. owner \in Owners \cup {Nobody} /\ (owner = v.owner \/ v.owner = Nobody)
  BY DEF Resource
<1>2. Updated(old, v) = [v EXCEPT !.owner = owner]
  BY DEF Updated, Resource
<1> QED BY <1>1, <1>2 DEF Exact

LEMMA InsertFollows ==
  ASSUME OrganizationConstants, IndexInv, ReconcileInv, NEW t \in Threads, InsertStep(t)
  PROVE  ReconcileInv'
<1>0. PICK k, v : k = agenda[t][1].key /\ v = agenda[t][1].value
  OBVIOUS
<1>1. /\ agenda[t] # <<>> /\ agenda[t][1].do = "insert" /\ Current(t) = agenda[t][1]
      /\ k \in Keys /\ v \in Resource /\ 1 \in DOMAIN agenda[t]
  BY <1>0, CurrentIs DEF InsertStep, Ready
<1>2. CASE resources[k] # Absent
  <2>1. Fails(t, {})
    BY <1>0, <1>1, <1>2 DEF InsertStep
  <2> QED BY <1>0, <1>1, <2>1, FailsFollow
<1>3. CASE resources[k] = Absent
  <2>1. resources' = [resources EXCEPT ![k] = v] /\ Continue(t, <<>>)
    BY <1>0, <1>1, <1>3 DEF InsertStep
  <2>2. resources'[k] = v /\ \A q \in Keys \ {k} : resources'[q] = resources[q]
    BY <1>1, <2>1 DEF IndexInv, OrganizationTypes, OrganizationOK
  <2>3. target[t] # <<>> => target[t][k] = v /\ ~NotValid(target[t][k])
    BY <1>0, <1>1 DEF ReconcileInv, Follows, Planned
  <2>4. Exact(v, v)
    BY <1>1, SomeOwner
  <2>5. target[t] # <<>> => Reached(<<>> \o Tail(agenda[t]), target[t], resources', k)
    BY <2>2, <2>3, <2>4 DEF Reached
  <2>6. Plan(<<>>, k) /\ Planned(<<>>, target[t])
    BY NoPlan DEF Planned
  <2> QED BY <1>0, <1>1, <2>1, <2>2, <2>5, <2>6, ActsFollow
<1> QED BY <1>2, <1>3

LEMMA UpdateFollows ==
  ASSUME OrganizationConstants, IndexInv, ReconcileInv, NEW t \in Threads, UpdateStep(t)
  PROVE  ReconcileInv'
<1>0. PICK k, v : k = agenda[t][1].key /\ v = agenda[t][1].value
  OBVIOUS
<1>1. /\ agenda[t] # <<>> /\ agenda[t][1].do = "update" /\ Current(t) = agenda[t][1]
      /\ k \in Keys /\ v \in Resource /\ 1 \in DOMAIN agenda[t]
      /\ resources \in [Keys -> Resource \cup {Absent}]
  BY <1>0, CurrentIs DEF UpdateStep, Ready, IndexInv, OrganizationTypes, OrganizationOK
<1>2. CASE resources[k] = Absent
  <2>1. Fails(t, {})
    BY <1>0, <1>1, <1>2 DEF UpdateStep
  <2> QED BY <1>0, <1>1, <1>2, <2>1, FailsFollow
<1>3. CASE resources[k] # Absent
  <2>1. /\ resources' = [resources EXCEPT ![k] = Updated(resources[k], v)]
        /\ Continue(t, <<>>)
    BY <1>0, <1>1, <1>3 DEF UpdateStep
  <2>2. /\ resources'[k] = Updated(resources[k], v)
        /\ \A q \in Keys \ {k} : resources'[q] = resources[q]
    BY <1>1, <2>1
  <2>3. ASSUME target[t] # <<>>
        PROVE  Reached(<<>> \o Tail(agenda[t]), target[t], resources', k)
    <3>1. PICK A, T, R : A = agenda[t] /\ T = target[t] /\ R = resources
      OBVIOUS
    <3>2. /\ Reached(A, T, R, k) /\ T[k] = v /\ ~NotValid(T[k])
          /\ A \in Seq(Todos) /\ A # <<>> /\ A[1].do = "update" /\ <<>> \in Seq(Todos)
      BY <1>0, <1>1, <2>3, <3>1
         DEF ReconcileInv, Follows, Planned, IndexInv, OrganizationTypes
    <3>3. CASE Doing(A, k, {"upsert", "insert"})
      <4>1. Doing(<<>> \o Tail(A), k, {"upsert", "insert"})
        BY <3>2, <3>3, DoingSpliced
      <4> QED BY <3>1, <3>2, <4>1 DEF Reached
    <3>4. CASE R[k].type = v.type
      <4>1. Exact(Updated(R[k], v), v)
        BY <3>1, <3>4, <1>1, <1>3, ExactUpdated
      <4> QED BY <4>1, <3>1, <3>2, <2>2 DEF Reached
    <3>5. CASE Exact(R[k], v)
      <4>1. R[k].type = v.type
        BY <3>5, <1>1 DEF Exact, Resource
      <4> QED BY <4>1, <3>4
    <3> QED BY <3>2, <3>3, <3>4, <3>5 DEF Reached
  <2>4. Plan(<<>>, k) /\ Planned(<<>>, target[t])
    BY NoPlan DEF Planned
  <2> QED BY <1>0, <1>1, <2>1, <2>2, <2>3, <2>4, ActsFollow
<1> QED BY <1>2, <1>3

\* A step that changes an entry, and no resource.
LEMMA EntryFollows ==
  ASSUME IndexInv, ReconcileInv, NEW t \in Threads, agenda[t] # <<>>,
         agenda[t][1].do \in {"categorize", "uncategorize"}, Continue(t, <<>>),
         resources' = resources
  PROVE  ReconcileInv'
<1>0. PICK k : k = agenda[t][1].key
  OBVIOUS
<1>1. ASSUME target[t] # <<>>
      PROVE  Reached(<<>> \o Tail(agenda[t]), target[t], resources', k)
  <2>1. PICK A, B, T, R : /\ A = agenda[t] /\ B = <<>> \o Tail(A) /\ T = target[t]
                          /\ R = resources
    OBVIOUS
  <2>2. /\ Reached(A, T, R, k) /\ A \in Seq(Todos) /\ A # <<>> /\ <<>> \in Seq(Todos)
        /\ A[1].do \in {"categorize", "uncategorize"}
    BY <1>0, <1>1, <2>1, CurrentIs DEF ReconcileInv, Follows, IndexInv, OrganizationTypes
  <2>3. ASSUME NEW what \in SUBSET {"upsert", "insert", "update", "unregister"},
               Doing(A, k, what)
        PROVE  Doing(B, k, what)
    <3>1. A[1].do \notin what
      BY <2>2
    <3> QED BY <2>1, <2>2, <2>3, <3>1, DoingSpliced
  <2>4. Reached(B, T, R, k)
    BY <2>2, <2>3 DEF Reached
  <2> QED BY <2>1, <2>4
<1>2. Plan(<<>>, k) /\ Planned(<<>>, target[t])
  BY NoPlan DEF Planned
<1> QED BY <1>0, <1>1, <1>2, ActsFollow

LEMMA CategorizeFollows ==
  ASSUME OrganizationConstants, IndexInv, ReconcileInv, NEW t \in Threads,
         CategorizeStep(t) \/ UncategorizeStep(t)
  PROVE  ReconcileInv'
<1>1. CASE UncategorizeStep(t)
  BY <1>1, EntryFollows, CurrentIs DEF UncategorizeStep, Ready
<1>2. CASE CategorizeStep(t)
  <2>1. /\ agenda[t] # <<>> /\ agenda[t][1].do = "categorize" /\ resources' = resources
    BY <1>2, CurrentIs DEF CategorizeStep, Ready
  <2>2. CASE Continue(t, <<>>)
    BY <2>1, <2>2, EntryFollows
  <2>3. CASE Fails(t, {Current(t).key})
    BY <2>1, <2>3, FailsFollow
  <2> QED BY <1>2, <2>2, <2>3 DEF CategorizeStep
<1> QED BY <1>1, <1>2

\* What is removed has no valid record, or is about to be registered again.
LEMMA UnregisterFollows ==
  ASSUME OrganizationConstants, IndexInv, ReconcileInv, NEW t \in Threads,
         UnregisterStep(t)
  PROVE  ReconcileInv'
<1>0. PICK k, todo : /\ k = agenda[t][1].key
                     /\ todo = <<Do("uncategorize", k, Absent, FALSE)>>
  OBVIOUS
<1>1. /\ agenda[t] # <<>> /\ agenda[t][1].do = "unregister" /\ Current(t) = agenda[t][1]
      /\ k \in Keys /\ resources \in [Keys -> Resource \cup {Absent}]
  BY <1>0, CurrentIs DEF UnregisterStep, Ready, IndexInv, OrganizationTypes, OrganizationOK
<1>2. CASE resources[k] = Absent
  <2>1. Fails(t, {})
    BY <1>0, <1>1, <1>2 DEF UnregisterStep
  <2> QED BY <1>0, <1>1, <1>2, <2>1, FailsFollow
<1>3. CASE resources[k] # Absent
  <2>1. resources' = [resources EXCEPT ![k] = Absent] /\ Continue(t, todo)
    BY <1>0, <1>1, <1>3 DEF UnregisterStep
  <2>2. resources'[k] = Absent /\ \A q \in Keys \ {k} : resources'[q] = resources[q]
    BY <1>1, <2>1
  <2>3. Do("uncategorize", k, Absent, FALSE) \in Todos
        /\ Do("uncategorize", k, Absent, FALSE).key = k
        /\ Do("uncategorize", k, Absent, FALSE).do = "uncategorize"
    BY <1>1 DEF Do, Todos
  <2>4. Plan(todo, k) /\ DOMAIN todo = {1} /\ todo[1].do = "uncategorize"
    BY <1>0, <2>3, OnePlan
  <2>5. Planned(todo, target[t])
    BY <2>4 DEF Planned
  <2>6. ASSUME target[t] # <<>>
        PROVE  Reached(todo \o Tail(agenda[t]), target[t], resources', k)
    <3>1. PICK A, B, T : A = agenda[t] /\ B = todo \o Tail(A) /\ T = target[t]
      OBVIOUS
    <3>2. /\ A \in Seq(Todos) /\ A # <<>> /\ 1 \in DOMAIN A /\ todo \in Seq(Todos)
          /\ Planned(A, T) /\ k = A[1].key /\ A[1].do = "unregister"
      BY <1>0, <1>1, <2>4, <2>6, <3>1, CurrentIs
         DEF ReconcileInv, Follows, IndexInv, OrganizationTypes, Plan
    <3>3. CASE NotValid(T[k])
      BY <2>2, <3>1, <3>3 DEF Reached
    <3>4. CASE ~NotValid(T[k])
      <4>1. 1 + 1 = 2 /\ 2 \in DOMAIN A /\ A[2].do = "insert" /\ A[2].key = k
        BY <3>2, <3>4 DEF Planned
      <4>2. Doing(A, k, {"upsert", "insert"}) /\ A[1].do \notin {"upsert", "insert"}
        BY <4>1, <3>2 DEF Doing
      <4>3. Doing(B, k, {"upsert", "insert"})
        BY <4>2, <3>1, <3>2, DoingSpliced
      <4> QED BY <3>1, <3>4, <4>3 DEF Reached
    <3> QED BY <3>3, <3>4
  <2> QED BY <1>0, <1>1, <2>1, <2>2, <2>4, <2>5, <2>6, ActsFollow
<1> QED BY <1>2, <1>3

\* A step of a call that does not reconcile.
LEMMA OtherFollows ==
  ASSUME IndexInv, ReconcileInv, NEW t \in Threads, NEW todo, Continue(t, todo),
         target[t] = <<>>
  PROVE  ReconcileInv'
<1>1. /\ \A u \in Threads \ {t} : agenda'[u] = agenda[u]
      /\ \A u \in Threads : target'[u] =
           IF u # t /\ resources' # resources THEN <<>> ELSE target[u]
  BY DEF Continue, IndexInv, OrganizationTypes
<1>2. \A u \in Threads : target'[u] # <<>> =>
        u # t /\ target'[u] = target[u] /\ resources' = resources
  BY <1>1
<1> QED BY <1>1, <1>2 DEF ReconcileInv

LEMMA ForeignFollows ==
  ASSUME OrganizationConstants, IndexInv, ReconcileInv, NEW t \in Threads,
         FetchStep(t) \/ MirrorStep(t)
  PROVE  ReconcileInv'
<1>1. /\ agenda[t] # <<>> /\ agenda[t][1].do \in {"fetch", "mirror"}
      /\ 1 \in DOMAIN agenda[t]
  BY CurrentIs DEF FetchStep, MirrorStep, Ready
<1>2. target[t] = <<>>
  BY <1>1 DEF ReconcileInv, Follows, Planned
<1>3. CASE MirrorStep(t)
  BY <1>2, <1>3, OtherFollows DEF MirrorStep
<1>4. CASE FetchStep(t)
  <2>1. CASE Fails(t, {})
    <3>1. agenda[t][1].do = "fetch"
      BY <1>4, CurrentIs DEF FetchStep, Ready
    <3> QED BY <1>1, <2>1, <3>1, FailsFollow
  <2>2. CASE \E todo : Continue(t, todo)
    BY <1>2, <2>2, OtherFollows
  <2> QED BY <1>4, <2>1, <2>2 DEF FetchStep
<1> QED BY <1>3, <1>4

-----------------------------------------------------------------------------
\* A reconciliation that begins has everything to do that is not as the table says.
LEMMA ReconcileBegins ==
  ASSUME OrganizationConstants, NEW table \in Tables,
         resources \in [Keys -> Resource \cup {Absent}]
  PROVE  Follows(Reconcile(table), table, resources)
<1>1. PICK s, R : s = Reconcile(table) /\ R = resources
  OBVIOUS
<1>2. Reconciles(s, table)
  BY <1>1, ReconcilePlan
<1>3. Planned(s, table)
  BY <1>2 DEF Reconciles, Planned, NotValid
<1>4. ASSUME NEW k \in Keys PROVE Reached(s, table, R, k)
  <2>1. CASE NotValid(table[k])
    <3>1. R[k] # Absent => Doing(s, k, {"unregister"})
      BY <1>1, <1>2, <2>1 DEF Reconciles, Doing, NotValid
    <3> QED BY <2>1, <3>1 DEF Reached
  <2>2. CASE ~NotValid(table[k])
    <3>1. R[k] # table[k] => Doing(s, k, {"upsert", "insert"})
      BY <1>1, <1>2, <2>2 DEF Reconciles, Doing, NotValid
    <3>2. table[k] \in Resource
      BY <2>2 DEF NotValid, Tables, OrganizationConstants
    <3>3. Exact(table[k], table[k])
      BY <3>2, SomeOwner
    <3> QED BY <2>2, <3>1, <3>3 DEF Reached
  <2> QED BY <2>1, <2>2
<1> QED BY <1>1, <1>3, <1>4 DEF Follows

LEMMA CallsFollow ==
  ASSUME IndexInv, ReconcileInv, NEW t \in Threads, NEW todo, NEW table,
         Calls(t, todo, table), table # <<>> => Follows(todo, table, resources)
  PROVE  ReconcileInv'
<1>1. /\ \A u \in Threads \ {t} : agenda'[u] = agenda[u] /\ target'[u] = target[u]
      /\ agenda'[t] = todo /\ target'[t] = table /\ resources' = resources
  BY DEF Calls, IndexInv, OrganizationTypes
<1> QED BY <1>1 DEF ReconcileInv

LEMMA ReconcileStep ==
  ASSUME OrganizationConstants, RemoteInv, IndexInv, ReconcileInv, OrganizationNext
  PROVE  ReconcileInv'
<1>1. CASE ClearAll
  BY <1>1 DEF ClearAll, ReconcileInv
<1>2. ASSUME NEW t \in Threads, Step(t) PROVE ReconcileInv'
  BY <1>2, UpsertFollows, InsertFollows, UpdateFollows, CategorizeFollows,
     UnregisterFollows, ForeignFollows DEF Step
<1>3. ASSUME NEW t \in Threads, ReconcileCalled(t) PROVE ReconcileInv'
  <2>1. PICK table \in Listed : Calls(t, Reconcile(table), table)
    BY <1>3 DEF ReconcileCalled
  <2>2. table \in Tables /\ resources \in [Keys -> Resource \cup {Absent}]
    BY <2>1 DEF Listed, RemoteInv, RemoteOK, IndexInv, OrganizationTypes, OrganizationOK
  <2>3. Follows(Reconcile(table), table, resources)
    BY <2>2, ReconcileBegins
  <2> QED BY <2>1, <2>3, CallsFollow
<1>4. ASSUME NEW t \in Threads, NEW todo, Calls(t, todo, <<>>) PROVE ReconcileInv'
  BY <1>4, CallsFollow
<1>5. ASSUME NEW t \in Threads, IngestAllCalled(t) PROVE ReconcileInv'
  BY <1>4, <1>5 DEF IngestAllCalled
<1>6. ASSUME NEW t \in Threads, NEW k \in Keys,
             \/ IngestCalled(t, k) \/ RemoveCalled(t, k) \/ MirrorCalled(t, k)
             \/ \E value \in Values \ {Malformed} : RegisterCalled(t, k, value)
      PROVE  ReconcileInv'
  BY <1>4, <1>6 DEF IngestCalled, RemoveCalled, MirrorCalled, RegisterCalled
<1> QED BY <1>1, <1>2, <1>3, <1>5, <1>6 DEF OrganizationNext

\* When a reconciliation that no other thread has disturbed ends, the registry has the
\* valid records it was given, but for the owners they leave open, and nothing that was
\* absent from the store. For any records, keys and threads, although the registry is
\* read once, before the steps.
THEOREM ReconcileExactHolds ==
  ASSUME OrganizationConstants PROVE IngestionSpec => []ReconcileExact
<1>1. ASSUME IndexInv, ReconcileInv PROVE ReconcileExact
  <2> SUFFICES ASSUME NEW t \in Threads, NEW k \in Keys, target[t] # <<>>,
                      agenda[t] = <<>>
               PROVE  /\ target[t][k] = Absent => resources[k] = Absent
                      /\ ~NotValid(target[t][k]) => Exact(resources[k], target[t][k])
    BY DEF ReconcileExact, Exact, NotValid
  <2>1. Reached(<<>>, target[t], resources, k)
    BY <1>1 DEF ReconcileInv, Follows
  <2>2. \A what : ~Doing(<<>>, k, what)
    BY DEF Doing
  <2> QED BY <2>1, <2>2 DEF Reached, NotValid
<1>2. ReconcileInv /\ UNCHANGED organizationVars => ReconcileInv'
  BY DEF ReconcileInv, organizationVars
<1>3. ASSUME RemoteInv, IndexInv, ReconcileInv,
             [OrganizationNext \/ (RemoteNext /\ UNCHANGED organizationVars)]_ingestionVars
      PROVE  ReconcileInv'
  BY <1>2, <1>3, ReconcileStep DEF ingestionVars
<1>4. OrganizationInit => ReconcileInv
  BY DEF OrganizationInit, ReconcileInv
<1> QED BY <1>1, <1>3, <1>4, IngestionInvariant, PTL DEF IngestionSpec
-----------------------------------------------------------------------------
(* The requests of devices.                                                *)

Steps == {"done", "invalid", "authorize", "destination", "retrieve", "package", "deliver"}

Answers == [kind : {"data", "error"}, to : Devices, items : SUBSET Items]

DataTypes ==
  /\ DataOK
  /\ at \in [Requests -> Steps]
  /\ admitted \in [Requests -> SUBSET Devices]
  /\ reply \in [Requests -> Seq(Answers)]

\* What an adapter gives is a record of that owner; nothing is known of the rest.
OfOwner(items, owner) ==
  ~overHttp => \A item \in items : item \in Records /\ Owner[item] = owner

\* What is known of one request: it has no answer while it is handled; from its
\* authorization on the owner it asks for is admitted; what an adapter has found
\* for it, and what it was answered with, belongs to that owner.
Proper(r) ==
  /\ at[r] # "done" => reply[r] = <<>>
  /\ Len(reply[r]) <= 1
  /\ at[r] \in {"destination", "retrieve", "package", "deliver"} =>
       OwnerAsked(r) \in admitted[r]
  /\ at[r] \in {"package", "deliver"} =>
       OfOwner(found[r], OwnerAsked(r))
  /\ \A i \in DOMAIN reply[r] :
       /\ reply[r][i].to =
            IF reply[r][i].kind = "data" THEN Target(r) ELSE request[r].sender
       /\ reply[r][i].kind = "data" =>
            OwnerAsked(r) \in admitted[r] /\ OfOwner(reply[r][i].items, OwnerAsked(r))

\* The requests that are being handled, and those that have arrived.
Open == {r \in Requests : at[r] \notin {"done", "deliver"}}
Started == {r \in Requests : at[r] # "done" \/ reply[r] # <<>>}

\* However many requests there may be, finitely many have arrived.
Counted ==
  /\ IsFiniteSet(Started)
  /\ counts["requests"] = counts["successful"] + counts["failed"] + Cardinality(Open)
  /\ counts["denied"] + counts["source"] + counts["large"] <= counts["failed"]
  /\ counts["requests"] <= Cardinality(Started)

DataInv == DataTypes /\ (\A r \in Requests : Proper(r)) /\ Counted

LEMMA NoRequestType ==
  ASSUME DataConstants PROVE NoRequest \in Asked
<1>1. PICK d \in Devices : TRUE
  BY DEF DataConstants
<1>2. [sender |-> d, type |-> "file", owner |-> NoDevice, target |-> NoDevice, about |-> {}]
        \in Asked
  BY DEF Asked, RecordTypes, FileTypes
<1> QED BY <1>2 DEF NoRequest

LEMMA DataInitial ==
  ASSUME DataConstants, DataInit PROVE DataInv
<1>1. DataTypes
  BY NoRequestType DEF DataInit, DataTypes, DataOK, Steps, Counters
<1>2. \A r \in Requests : Proper(r)
  BY DEF DataInit, Proper
<1>3. Started = {} /\ Open = {}
  BY DEF DataInit, Started, Open
<1>4. Counted
  BY <1>3, FS_EmptySet DEF DataInit, Counted, Counters
<1> QED BY <1>1, <1>2, <1>4 DEF DataInv

\* What changes nothing of the requests keeps what is known of them.
LEMMA OtherProper ==
  ASSUME NEW r, Proper(r), request'[r] = request[r], at'[r] = at[r],
         found'[r] = found[r], admitted'[r] = admitted[r], reply'[r] = reply[r],
         overHttp' = overHttp
  PROVE  Proper(r)'
BY DEF Proper, OwnerAsked, Target, OfOwner

LEMMA WorldStep ==
  ASSUME DataInv, DeviceChanges \/ PermissionsChange \/ StoreChanges
  PROVE  DataInv'
<1>1. UNCHANGED <<requestVars, counts, overHttp>>
  BY DEF DeviceChanges, PermissionsChange, StoreChanges
<1>2. DataTypes'
  BY <1>1 DEF DataInv, DataTypes, DataOK, requestVars, DeviceChanges,
              PermissionsChange, StoreChanges
<1>3. \A r \in Requests : Proper(r)'
  BY <1>1, OtherProper DEF DataInv, requestVars
<1>4. Counted'
  BY <1>1 DEF DataInv, Counted, Open, Started, requestVars
<1> QED BY <1>2, <1>3, <1>4 DEF DataInv

\* One request is handled: it has arrived already, and nothing that has arrived
\* is forgotten.
LEMMA StartedKept ==
  ASSUME DataTypes, NEW r \in Requests, NEW next \in Steps, at[r] # "done",
         at' = [at EXCEPT ![r] = next],
         next = "done" => reply'[r] # <<>>,
         \A other \in Requests \ {r} : reply'[other] = reply[other]
  PROVE  Started' = Started
BY DEF Started, DataTypes

LEMMA OpenMoves ==
  ASSUME DataTypes, IsFiniteSet(Started), NEW r \in Requests, NEW next \in Steps,
         at' = [at EXCEPT ![r] = next]
  PROVE  /\ Cardinality(Open) \in Nat
         /\ Cardinality(Open') =
              Cardinality(Open) + (IF next \in {"done", "deliver"} THEN 0 ELSE 1)
                                - (IF at[r] \in {"done", "deliver"} THEN 0 ELSE 1)
<1>1. Open \subseteq Started
  BY DEF Open, Started
<1>2. IsFiniteSet(Open) /\ Cardinality(Open) \in Nat
  BY <1>1, FS_Subset, FS_CardinalityType
<1>3. Open' = IF next \in {"done", "deliver"} THEN Open \ {r} ELSE Open \cup {r}
  BY DEF Open, DataTypes
<1>4. r \in Open <=> at[r] \notin {"done", "deliver"}
  BY DEF Open
<1>5. CASE next \in {"done", "deliver"} /\ at[r] \in {"done", "deliver"}
  <2>1. Open' = Open
    BY <1>3, <1>4, <1>5
  <2> QED BY <2>1, <1>2, <1>5
<1>6. CASE next \notin {"done", "deliver"} /\ at[r] \notin {"done", "deliver"}
  <2>1. Open' = Open
    BY <1>3, <1>4, <1>6
  <2> QED BY <2>1, <1>2, <1>6
<1>7. CASE next \in {"done", "deliver"} /\ at[r] \notin {"done", "deliver"}
  <2>1. Cardinality(Open \ {r}) = Cardinality(Open) - 1
    BY <1>2, <1>4, <1>7, FS_RemoveElement
  <2> QED BY <2>1, <1>2, <1>3, <1>7
<1>8. CASE next \notin {"done", "deliver"} /\ at[r] \in {"done", "deliver"}
  <2>1. Cardinality(Open \cup {r}) = Cardinality(Open) + 1
    BY <1>2, <1>4, <1>8, FS_AddElement
  <2> QED BY <2>1, <1>2, <1>3, <1>8
<1> QED BY <1>5, <1>6, <1>7, <1>8

\* What one step of a request counts, and where it goes then: it stays open,
\* succeeds, fails for one cause, or is delivered.
Tallies(from, next, counted) ==
  \/ counted = {} /\ (from \in {"done", "deliver"} <=> next \in {"done", "deliver"})
  \/ counted = {"successful"} /\ from \notin {"done", "deliver"} /\ next = "deliver"
  \/ /\ \E cause \in {{}, {"denied"}, {"source"}, {"large"}} : counted = {"failed"} \cup cause
     /\ from \notin {"done", "deliver"} /\ next = "done"

LEMMA CountsType ==
  ASSUME DataTypes, NEW r, NEW next, NEW counted, Goto(r, next, counted)
  PROVE  counts' \in [Counters -> Nat]
BY DEF DataTypes, DataOK, Goto

LEMMA HandledCounted ==
  ASSUME DataInv, NEW r \in Requests, NEW next \in Steps, NEW counted,
         at[r] # "done", Goto(r, next, counted), Tallies(at[r], next, counted),
         next = "done" => reply'[r] # <<>>,
         \A other \in Requests \ {r} : reply'[other] = reply[other]
  PROVE  Counted'
<1>1. at' = [at EXCEPT ![r] = next] /\ DataTypes /\ IsFiniteSet(Started)
  BY DEF Goto, DataInv, Counted
<1>2. Started' = Started
  BY <1>1, StartedKept
<1>3. /\ Cardinality(Open) \in Nat
      /\ Cardinality(Open') =
              Cardinality(Open) + (IF next \in {"done", "deliver"} THEN 0 ELSE 1)
                                - (IF at[r] \in {"done", "deliver"} THEN 0 ELSE 1)
  BY <1>1, OpenMoves
<1>4. \A c \in {"requests", "successful", "failed", "denied", "source", "large"} :
        /\ counts[c] \in Nat
        /\ counts'[c] = counts[c] + IF c \in counted THEN 1 ELSE 0
  BY DEF Goto, DataInv, DataTypes, DataOK, Counters
<1>5. /\ counts["requests"] = counts["successful"] + counts["failed"] + Cardinality(Open)
      /\ counts["denied"] + counts["source"] + counts["large"] <= counts["failed"]
      /\ counts["requests"] <= Cardinality(Started)
  BY DEF DataInv, Counted
<1>8. \A c \in {"requests", "successful", "failed", "denied", "source", "large"} :
        counts[c] \in Nat /\ counts'[c] \in Nat
  BY CountsType, <1>1 DEF DataTypes, DataOK, Counters
<1>6. /\ counts'["requests"] =
           counts'["successful"] + counts'["failed"] + Cardinality(Open')
      /\ counts'["denied"] + counts'["source"] + counts'["large"] <= counts'["failed"]
      /\ counts'["requests"] = counts["requests"]
  <2>1. CASE counted = {} /\ (at[r] \in {"done", "deliver"} <=> next \in {"done", "deliver"})
    <3>1. Cardinality(Open') = Cardinality(Open)
      BY <2>1, <1>3
    <3>2. \A c \in {"requests", "successful", "failed", "denied", "source", "large"} :
            counts'[c] = counts[c]
      BY <2>1, <1>4
    <3> QED BY <3>1, <3>2, <1>5
  <2>2. CASE /\ counted = {"successful"} /\ at[r] \notin {"done", "deliver"}
             /\ next = "deliver"
    BY <2>2, <1>3, <1>4, <1>5
  <2>3. ASSUME NEW cause \in {{}, {"denied"}, {"source"}, {"large"}},
               counted = {"failed"} \cup cause,
               at[r] \notin {"done", "deliver"}, next = "done"
        PROVE  <1>6
    <3>1. Cardinality(Open') = Cardinality(Open) - 1
      BY <2>3, <1>3
    <3>2. /\ counts'["requests"] = counts["requests"]
          /\ counts'["successful"] = counts["successful"]
          /\ counts'["failed"] = counts["failed"] + 1
      <4>1. "requests" \notin counted /\ "successful" \notin counted /\ "failed" \in counted
        BY <2>3
      <4> QED BY <4>1, <1>4
    <3>3. counts'["denied"] + counts'["source"] + counts'["large"]
            <= counts["denied"] + counts["source"] + counts["large"] + 1
      <4>1. /\ counts["denied"] \in Nat /\ counts["source"] \in Nat
            /\ counts["large"] \in Nat
            /\ counts'["denied"] = counts["denied"] + IF "denied" \in cause THEN 1 ELSE 0
            /\ counts'["source"] = counts["source"] + IF "source" \in cause THEN 1 ELSE 0
            /\ counts'["large"] = counts["large"] + IF "large" \in cause THEN 1 ELSE 0
        BY <2>3, <1>4
      <4>2. CASE cause = {}
        BY <4>1, <4>2
      <4>3. CASE cause = {"denied"}
        BY <4>1, <4>3
      <4>4. CASE cause = {"source"}
        BY <4>1, <4>4
      <4>5. CASE cause = {"large"}
        BY <4>1, <4>5
      <4> QED BY <4>2, <4>3, <4>4, <4>5
    <3>4. /\ counts'["requests"] =
               counts'["successful"] + counts'["failed"] + Cardinality(Open')
          /\ counts'["denied"] + counts'["source"] + counts'["large"] \in Int
      <4>1. /\ counts'["denied"] \in Nat
            /\ counts'["source"] \in Nat
            /\ counts'["large"] \in Nat
        BY <1>8
      <4>2. counts["requests"] =
              (counts["successful"] + (counts["failed"] + 1)) + (Cardinality(Open) - 1)
        <5>1. \A s, f, n \in Nat : s + f + n = (s + (f + 1)) + (n - 1)
          OBVIOUS
        <5>2. counts["successful"] \in Nat /\ counts["failed"] \in Nat
          BY <1>8
        <5> QED BY <5>1, <5>2, <1>3, <1>5
      <4>3. counts'["denied"] + counts'["source"] + counts'["large"] \in Int
        BY <4>1
      <4> QED BY <4>2, <4>3, <3>1, <3>2
    <3>5. counts'["denied"] + counts'["source"] + counts'["large"] <= counts'["failed"]
      <4> DEFINE before == counts["denied"] + counts["source"] + counts["large"]
                 after == counts'["denied"] + counts'["source"] + counts'["large"]
                 failures == counts["failed"]
      <4>1. before \in Nat /\ after \in Int /\ failures \in Nat
        <5>1. /\ counts["denied"] \in Nat /\ counts["source"] \in Nat
              /\ counts["large"] \in Nat
          BY <1>8
        <5>2. before \in Nat
          BY <5>1
        <5>3. failures \in Nat
          BY <1>8
        <5> QED BY <5>2, <5>3, <3>4
      <4>2. after <= before + 1 /\ before <= failures
        BY <3>3, <1>5
      <4>3. counts'["failed"] = failures + 1
        BY <3>2
      <4> HIDE DEF before, after, failures
      <4>4. after <= failures + 1
        BY <4>1, <4>2
      <4> QED BY <4>3, <4>4 DEF after
    <3> QED BY <3>2, <3>4, <3>5
  <2> QED BY <2>1, <2>2, <2>3 DEF Tallies
<1> QED BY <1>1, <1>2, <1>5, <1>6 DEF Counted

\* The answer to the sender, and what is known then.
LEMMA Told ==
  ASSUME DataTypes, NEW r \in Requests, NEW m \in Answers, Send(r, m),
         Proper(r), at[r] # "done"
  PROVE  /\ reply' \in [Requests -> Seq(Answers)]
         /\ reply'[r] = <<m>>
         /\ \A other \in Requests \ {r} : reply'[other] = reply[other]
BY DEF DataTypes, Proper, Send

LEMMA RefuseTold ==
  ASSUME DataTypes, NEW r \in Requests, Refuse(r), Proper(r), at[r] # "done"
  PROVE  /\ reply' \in [Requests -> Seq(Answers)]
         /\ reply'[r] = <<[kind |-> "error", to |-> request[r].sender, items |-> {}]>>
         /\ \A other \in Requests \ {r} : reply'[other] = reply[other]
<1>1. request[r].sender \in Devices
  BY DEF DataTypes, DataOK, Asked
<1>2. Message("error", request[r].sender, {}) \in Answers
  BY <1>1 DEF Answers, Message
<1> QED BY <1>2, Told DEF Refuse, Message

\* A refusal ends the request, for one cause.
LEMMA RefusedStep ==
  ASSUME DataInv, NEW r \in Requests, NEW counted, NEW may \in SUBSET Devices,
         Goto(r, "done", counted), Refuse(r),
         at[r] # "done", Tallies(at[r], "done", counted),
         admitted' = [admitted EXCEPT ![r] = may],
         UNCHANGED <<registered, online, bound, stored, overHttp, request, found>>
  PROVE  DataInv'
<1>1. DataTypes /\ Proper(r)
  BY DEF DataInv
<1>2. /\ reply' \in [Requests -> Seq(Answers)]
      /\ reply'[r] = <<[kind |-> "error", to |-> request[r].sender, items |-> {}]>>
      /\ \A other \in Requests \ {r} : reply'[other] = reply[other]
  BY <1>1, RefuseTold
<1>3. at' = [at EXCEPT ![r] = "done"]
  BY DEF Goto
<1>4. DataTypes'
  BY <1>1, <1>2, <1>3, CountsType DEF DataTypes, DataOK, Steps
<1>5. \A other \in Requests \ {r} : Proper(other)'
  BY <1>1, <1>2, <1>3, OtherProper DEF DataInv, DataTypes
<1>6. Proper(r)'
  <2>1. at'[r] = "done" /\ request' = request
    BY <1>1, <1>3 DEF DataTypes
  <2>2. /\ Len(reply'[r]) = 1 /\ DOMAIN reply'[r] = {1}
        /\ reply'[r][1].to = request[r].sender
        /\ reply'[r][1].kind = "error" /\ reply'[r][1].items = {}
    BY <1>2
  <2> QED BY <2>1, <2>2 DEF Proper
<1>7. Counted'
  <2>1. "done" \in Steps
    BY DEF Steps
  <2>2. reply'[r] # <<>>
    BY <1>2
  <2> QED BY <2>1, <2>2, <1>2, HandledCounted
<1> QED BY <1>4, <1>5, <1>6, <1>7 DEF DataInv

LEMMA FailStep ==
  ASSUME DataInv, NEW r \in Requests, NEW cause \in {{}, {"source"}, {"large"}},
         at[r] \notin {"done", "deliver"}, Fail(r, cause)
  PROVE  DataInv'
<1>1. Tallies(at[r], "done", cause \cup {"failed"})
  BY DEF Tallies
<1>2. admitted[r] \in SUBSET Devices /\ admitted' = [admitted EXCEPT ![r] = admitted[r]]
  BY DEF Fail, DataInv, DataTypes
<1> QED BY <1>1, <1>2, RefusedStep DEF Fail, worldVars

\* A step that sends nothing and stays with the request.
LEMMA QuietStep ==
  ASSUME DataInv, NEW r \in Requests, NEW next \in Steps \ {"done"}, NEW counted,
         NEW may \in SUBSET Devices, NEW items \in SUBSET Items,
         Goto(r, next, counted), at[r] # "done", Tallies(at[r], next, counted),
         admitted' = [admitted EXCEPT ![r] = may],
         found' = [found EXCEPT ![r] = items],
         next \in {"destination", "retrieve", "package", "deliver"} =>
           OwnerAsked(r) \in may,
         next \in {"package", "deliver"} => OfOwner(items, OwnerAsked(r)),
         UNCHANGED <<registered, online, bound, stored, overHttp, request, reply>>
  PROVE  DataInv'
<1>1. DataTypes /\ Proper(r) /\ at' = [at EXCEPT ![r] = next]
  BY DEF DataInv, Goto
<1>2. DataTypes'
  BY <1>1, CountsType DEF DataTypes, DataOK
<1>3. \A other \in Requests \ {r} : Proper(other)'
  BY <1>1, OtherProper DEF DataInv, DataTypes, DataOK
<1>4. Proper(r)'
  <2>1. reply[r] = <<>> /\ reply'[r] = <<>> /\ at'[r] = next /\ request' = request
    BY <1>1 DEF Proper, DataTypes
  <2>2. found'[r] = items /\ admitted'[r] = may
    BY <1>1 DEF DataTypes, DataOK
  <2>3. OwnerAsked(r)' = OwnerAsked(r)
    BY <2>1 DEF OwnerAsked
  <2>4. OfOwner(items, OwnerAsked(r)) => OfOwner(items, OwnerAsked(r))'
    BY <2>3 DEF OfOwner
  <2> QED BY <2>1, <2>2, <2>3, <2>4 DEF Proper
<1>5. Counted'
  BY <1>1, HandledCounted
<1> QED BY <1>2, <1>3, <1>4, <1>5 DEF DataInv

\* Both checks of the authorization are of one reading of the permissions.
LEMMA AuthorizeStep ==
  ASSUME DataInv, NEW r \in Requests, Authorize(r) PROVE DataInv'
<1> DEFINE may == MaySee(request[r].sender)
<1>1. request[r].sender \in Devices
  BY DEF DataInv, DataTypes, DataOK, Asked
<1>2. may \in SUBSET Devices
  BY <1>1 DEF MaySee
<1>3. admitted' = [admitted EXCEPT ![r] = may] /\ at[r] = "authorize"
  BY DEF Authorize
<1>4. CASE OwnerAsked(r) \in may
  <2>1. /\ Goto(r, "destination", {})
        /\ UNCHANGED <<registered, online, bound, stored, overHttp, request, reply, found>>
    BY <1>4 DEF Authorize, worldVars
  <2>2. found[r] \in SUBSET Items /\ found' = [found EXCEPT ![r] = found[r]]
    BY <2>1 DEF DataInv, DataTypes, DataOK
  <2>3. Tallies(at[r], "destination", {}) /\ "destination" \in Steps \ {"done"}
    BY <1>3 DEF Tallies, Steps
  <2> HIDE DEF may
  <2> QED BY <1>2, <1>3, <1>4, <2>1, <2>2, <2>3, QuietStep
<1>5. CASE OwnerAsked(r) \notin may
  <2>1. /\ Goto(r, "done", {"failed", "denied"}) /\ Refuse(r)
        /\ UNCHANGED <<registered, online, bound, stored, overHttp, request, found>>
    BY <1>5 DEF Authorize, worldVars
  <2>2. Tallies(at[r], "done", {"failed", "denied"})
    BY <1>3 DEF Tallies
  <2> HIDE DEF may
  <2> QED BY <1>2, <1>3, <2>1, <2>2, RefusedStep
<1> QED BY <1>4, <1>5

LEMMA SelfUpdate ==
  ASSUME NEW S, NEW T, NEW f \in [S -> T], NEW s \in S
  PROVE  f[s] \in T /\ f = [f EXCEPT ![s] = f[s]]
OBVIOUS

\* The other steps between the arrival and the answer.
LEMMA OnwardStep ==
  ASSUME DataInv, NEW r \in Requests,
         Destination(r) \/ Retrieve(r) \/ Package(r)
  PROVE  DataInv'
<1>1. Proper(r) /\ admitted[r] \in SUBSET Devices /\ found[r] \in SUBSET Items
  BY DEF DataInv, DataTypes, DataOK
<1>2. /\ admitted = [admitted EXCEPT ![r] = admitted[r]]
      /\ found = [found EXCEPT ![r] = found[r]]
  BY SelfUpdate DEF DataInv, DataTypes, DataOK
<1>3. CASE Destination(r)
  <2>1. /\ at[r] = "destination" /\ Goto(r, "retrieve", {})
        /\ UNCHANGED <<registered, online, bound, stored, overHttp, request, reply, found, admitted>>
    BY <1>3 DEF Destination, worldVars
  <2>2. /\ Tallies(at[r], "retrieve", {}) /\ "retrieve" \in Steps \ {"done"}
        /\ OwnerAsked(r) \in admitted[r]
    BY <1>1, <2>1 DEF Tallies, Steps, Proper
  <2> QED BY <1>1, <1>2, <2>1, <2>2, QuietStep
<1>4. CASE Package(r)
  <2>1. /\ at[r] = "package" /\ Goto(r, "deliver", {"successful"})
        /\ UNCHANGED <<registered, online, bound, stored, overHttp, request, reply, found, admitted>>
    BY <1>4 DEF Package, worldVars
  <2>2. /\ Tallies(at[r], "deliver", {"successful"}) /\ "deliver" \in Steps \ {"done"}
        /\ OwnerAsked(r) \in admitted[r]
        /\ OfOwner(found[r], OwnerAsked(r))
    BY <1>1, <2>1 DEF Tallies, Steps, Proper
  <2> QED BY <1>1, <1>2, <2>1, <2>2, QuietStep
<1>5. CASE Retrieve(r)
  <2>1. /\ at[r] = "retrieve" /\ Goto(r, "package", {})
        /\ UNCHANGED <<registered, online, bound, stored, overHttp, request, reply, admitted>>
    BY <1>5 DEF Retrieve, worldVars
  <2>2. PICK items \in Results(r) : found' = [found EXCEPT ![r] = items]
    BY <1>5 DEF Retrieve
  <2>3. items \in SUBSET Items /\ OfOwner(items, OwnerAsked(r))
    <3>1. Matching(r) \subseteq Records /\ \A item \in Matching(r) : Owner[item] = OwnerAsked(r)
      BY DEF Matching
    <3>2. CASE request[r].type = "search"
      BY <3>1, <3>2 DEF Results, OfOwner, Items
    <3>3. CASE request[r].type = "get"
      BY <3>1, <3>3 DEF Results, OfOwner, Items
    <3>4. CASE request[r].type \notin {"search", "get"}
      BY <3>4 DEF Results, OfOwner, Items
    <3> QED BY <3>2, <3>3, <3>4
  <2>4. /\ Tallies(at[r], "package", {}) /\ "package" \in Steps \ {"done"}
        /\ OwnerAsked(r) \in admitted[r]
    BY <1>1, <2>1 DEF Tallies, Steps, Proper
  <2> QED BY <1>1, <1>2, <2>1, <2>2, <2>3, <2>4, QuietStep
<1> QED BY <1>3, <1>4, <1>5

\* A device other than the sender is sent the answer, or the sender is told.
LEMMA DeliverStep ==
  ASSUME DataInv, NEW r \in Requests, Deliver(r) \/ NotDelivered(r)
  PROVE  DataInv'
<1>1. DataTypes /\ Proper(r)
  BY DEF DataInv
<1>2. CASE NotDelivered(r)
  <2>1. /\ at[r] = "deliver" /\ Goto(r, "done", {}) /\ Refuse(r)
        /\ UNCHANGED <<registered, online, bound, stored, overHttp, request, found, admitted>>
    BY <1>2 DEF NotDelivered, worldVars
  <2>2. /\ admitted[r] \in SUBSET Devices
        /\ admitted = [admitted EXCEPT ![r] = admitted[r]]
    BY <1>1, SelfUpdate DEF DataTypes
  <2>3. Tallies(at[r], "done", {})
    BY <2>1 DEF Tallies
  <2> QED BY <2>1, <2>2, <2>3, RefusedStep
<1>3. CASE Deliver(r)
  <2> DEFINE m == Message("data", Target(r), found[r])
  <2>1. /\ at[r] = "deliver" /\ Goto(r, "done", {}) /\ Send(r, m)
        /\ UNCHANGED <<registered, online, bound, stored, overHttp, request, found, admitted>>
    BY <1>3 DEF Deliver, worldVars
  <2>2. /\ request[r].sender \in Devices
        /\ request[r].target \in Devices \cup {NoDevice}
        /\ found[r] \in SUBSET Items
    BY <1>1 DEF DataTypes, DataOK, Asked
  <2>3. m \in Answers
    BY <2>2 DEF Answers, Message, Target
  <2>4. /\ reply' \in [Requests -> Seq(Answers)] /\ reply'[r] = <<m>>
        /\ \A other \in Requests \ {r} : reply'[other] = reply[other]
    <3> HIDE DEF m
    <3> QED BY <1>1, <2>1, <2>3, Told
  <2>5. at' = [at EXCEPT ![r] = "done"]
    BY <2>1 DEF Goto
  <2>6. DataTypes'
    BY <1>1, <2>1, <2>4, <2>5, CountsType DEF DataTypes, DataOK, Steps
  <2>7. \A other \in Requests \ {r} : Proper(other)'
    BY <1>1, <2>1, <2>4, <2>5, OtherProper DEF DataInv, DataTypes
  <2>8. Proper(r)'
    <3>1. at'[r] = "done" /\ Target(r)' = Target(r)
      BY <1>1, <2>1, <2>5 DEF DataTypes, Target
    <3>2. OwnerAsked(r)' = OwnerAsked(r) /\ admitted' = admitted
      BY <2>1 DEF OwnerAsked
    <3>3. /\ Len(reply'[r]) = 1 /\ DOMAIN reply'[r] = {1}
          /\ reply'[r][1].to = Target(r)
          /\ reply'[r][1].kind = "data" /\ reply'[r][1].items = found[r]
      BY <2>4 DEF Message
    <3>4. OwnerAsked(r) \in admitted[r] /\ OfOwner(found[r], OwnerAsked(r))
      BY <1>1, <2>1 DEF Proper
    <3>5. OfOwner(found[r], OwnerAsked(r))'
      BY <3>2, <3>4, <2>1 DEF OfOwner
    <3> QED BY <3>1, <3>2, <3>3, <3>4, <3>5, <2>1 DEF Proper, OfOwner
  <2>9. Counted'
    <3>1. Tallies(at[r], "done", {}) /\ "done" \in Steps /\ reply'[r] # <<>>
      BY <2>1, <2>4 DEF Tallies, Steps
    <3> QED BY <3>1, <2>1, <2>4, HandledCounted
  <2> QED BY <2>6, <2>7, <2>8, <2>9 DEF DataInv
<1> QED BY <1>2, <1>3

\* A request arrives and is counted, or is refused at once and is not.
LEMMA ArrivesStep ==
  ASSUME DataInv, NEW r \in Requests, NEW asked \in Asked, Arrives(r, asked)
  PROVE  DataInv'
<1>1. DataTypes /\ Proper(r) /\ at[r] = "done" /\ reply[r] = <<>>
  BY DEF DataInv, Arrives
<1>2. /\ request' = [request EXCEPT ![r] = asked]
      /\ UNCHANGED <<registered, online, bound, stored, overHttp, found, admitted>>
  BY DEF Arrives, worldVars
<1>3. /\ asked.sender \in Devices
      /\ IsFiniteSet(Started) /\ r \notin Started /\ r \notin Open
  BY <1>1 DEF Asked, DataInv, Counted, Started, Open
<1>4. Cardinality(Started) \in Nat /\ Cardinality(Started \cup {r}) = Cardinality(Started) + 1
      /\ IsFiniteSet(Started \cup {r})
  BY <1>3, FS_AddElement, FS_CardinalityType
<1>5. /\ counts["requests"] = counts["successful"] + counts["failed"] + Cardinality(Open)
      /\ counts["denied"] + counts["source"] + counts["large"] <= counts["failed"]
      /\ counts["requests"] <= Cardinality(Started)
      /\ counts \in [Counters -> Nat]
  BY DEF DataInv, Counted, DataTypes, DataOK
<1>6. CASE asked.sender \in registered
  <2> DEFINE next == IF asked.type = "invalid" THEN "invalid" ELSE "authorize"
  <2>1. Goto(r, next, {"requests"}) /\ reply' = reply
    BY <1>6 DEF Arrives
  <2>2. next \in {"invalid", "authorize"}
    OBVIOUS
  <2> HIDE DEF next
  <2>3. at' = [at EXCEPT ![r] = next] /\ next \in Steps
    BY <2>1, <2>2 DEF Goto, Steps
  <2>4. DataTypes'
    BY <1>1, <1>2, <2>1, <2>3, CountsType DEF DataTypes, DataOK
  <2>5. \A other \in Requests \ {r} : Proper(other)'
    BY <1>1, <1>2, <2>1, <2>3, OtherProper DEF DataInv, DataTypes, DataOK
  <2>6. Proper(r)'
    <3>1. at'[r] = next /\ reply'[r] = <<>>
      BY <1>1, <2>1, <2>3 DEF DataTypes
    <3> QED BY <3>1, <2>2 DEF Proper
  <2>7. Started' = Started \cup {r}
    BY <1>1, <2>1, <2>2, <2>3 DEF Started, DataTypes
  <2>8. Cardinality(Open) \in Nat /\ Cardinality(Open') = Cardinality(Open) + 1
    <3>1. /\ Cardinality(Open) \in Nat
          /\ Cardinality(Open') =
              Cardinality(Open) + (IF next \in {"done", "deliver"} THEN 0 ELSE 1)
                                - (IF at[r] \in {"done", "deliver"} THEN 0 ELSE 1)
      BY <1>1, <1>3, <2>3, OpenMoves
    <3>2. Cardinality(Open') = Cardinality(Open) + 1 - 0
      BY <1>1, <2>2, <3>1
    <3> QED BY <3>1, <3>2
  <2>9. /\ counts'["requests"] = counts["requests"] + 1
        /\ \A c \in {"successful", "failed", "denied", "source", "large"} :
             counts'[c] = counts[c] + 0
    BY <2>1 DEF Goto, Counters
  <2>10. \A c \in {"requests", "successful", "failed", "denied", "source", "large"} :
           counts[c] \in Nat
    BY <1>5 DEF Counters
  <2>11. \A c \in {"successful", "failed", "denied", "source", "large"} :
           counts'[c] = counts[c]
    BY <2>9, <2>10
  <2>12. counts'["requests"] =
           counts'["successful"] + counts'["failed"] + Cardinality(Open')
    BY <1>5, <2>8, <2>9, <2>10, <2>11
  <2>13. counts'["requests"] <= Cardinality(Started')
    BY <1>4, <1>5, <2>7, <2>9, <2>10
  <2>14. Counted'
    BY <1>4, <1>5, <2>7, <2>11, <2>12, <2>13 DEF Counted
  <2> QED BY <2>4, <2>5, <2>6, <2>14 DEF DataInv
<1>7. CASE asked.sender \notin registered
  <2> DEFINE m == Message("error", asked.sender, {})
  <2>1. reply' = [reply EXCEPT ![r] = <<m>>] /\ at' = at /\ counts' = counts
    BY <1>7 DEF Arrives
  <2>2. m \in Answers
    BY <1>3 DEF Answers, Message
  <2>3. reply' \in [Requests -> Seq(Answers)] /\ reply'[r] = <<m>>
    BY <1>1, <2>1, <2>2 DEF DataTypes
  <2>4. DataTypes'
    BY <1>1, <1>2, <2>1, <2>3 DEF DataTypes, DataOK
  <2>5. \A other \in Requests \ {r} : Proper(other)'
    BY <1>1, <1>2, <2>1, OtherProper DEF DataInv, DataTypes, DataOK
  <2>6. Proper(r)'
    <3>1. at'[r] = "done" /\ request'[r] = asked
      BY <1>1, <1>2, <2>1 DEF DataTypes, DataOK
    <3>2. /\ Len(reply'[r]) = 1 /\ DOMAIN reply'[r] = {1}
          /\ reply'[r][1].to = asked.sender
          /\ reply'[r][1].kind = "error" /\ reply'[r][1].items = {}
      BY <2>3 DEF Message
    <3> QED BY <3>1, <3>2 DEF Proper
  <2>7. Started' = Started \cup {r} /\ Open' = Open
    BY <1>1, <2>1, <2>3 DEF Started, Open, DataTypes
  <2>8. counts["requests"] <= Cardinality(Started) + 1
    <3>1. counts["requests"] \in Nat
      BY <1>5 DEF Counters
    <3> QED BY <3>1, <1>4, <1>5
  <2>9. Counted'
    BY <1>4, <1>5, <2>1, <2>7, <2>8 DEF Counted
  <2> QED BY <2>4, <2>5, <2>6, <2>9 DEF DataInv
<1> QED BY <1>6, <1>7

LEMMA DataStep ==
  ASSUME DataInv, [DataNext]_dataVars PROVE DataInv'
<1>1. CASE UNCHANGED dataVars
  <2>1. UNCHANGED <<requestVars, counts, registered, online, bound, stored, overHttp>>
    BY <1>1 DEF dataVars, worldVars
  <2>2. DataTypes'
    BY <2>1 DEF DataInv, DataTypes, DataOK, requestVars
  <2>3. \A r \in Requests : Proper(r)'
    BY <2>1, OtherProper DEF DataInv, requestVars
  <2>4. Counted'
    BY <2>1 DEF DataInv, Counted, Open, Started, requestVars
  <2> QED BY <2>2, <2>3, <2>4 DEF DataInv
<1>2. ASSUME NEW r \in Requests, Handle(r) PROVE DataInv'
  <2>1. CASE Invalid(r)
    BY <2>1, FailStep DEF Invalid
  <2>2. CASE Authorize(r)
    BY <2>2, AuthorizeStep
  <2>3. CASE Destination(r) \/ Retrieve(r) \/ Package(r)
    BY <2>3, OnwardStep
  <2>4. CASE DestinationRefused(r)
    BY <2>4, FailStep DEF DestinationRefused
  <2>5. CASE NotRetrieved(r)
    BY <2>5, FailStep DEF NotRetrieved
  <2>6. CASE SourceFails(r)
    BY <2>6, FailStep DEF SourceFails
  <2>7. CASE TooLarge(r)
    BY <2>7, FailStep DEF TooLarge
  <2>8. CASE Deliver(r) \/ NotDelivered(r)
    BY <2>8, DeliverStep
  <2> QED BY <1>2, <2>1, <2>2, <2>3, <2>4, <2>5, <2>6, <2>7, <2>8 DEF Handle
<1> QED BY <1>1, <1>2, ArrivesStep, WorldStep DEF DataNext

\* A device is answered with data that was retrieved in the name of one owner, itself
\* or the one it asked for and was allowed to see when it was authorized, and an adapter
\* gives records of that owner only, whatever permissions, devices and records do
\* meanwhile; for any requests, devices, records and owners. Nothing is said of what a
\* store answers over HTTP.
THEOREM OwnerScopedHolds ==
  ASSUME DataConstants PROVE DataSpec => []OwnerScoped
<1>1. DataInv => OwnerScoped
  BY DEF DataInv, DataTypes, Proper, OwnerScoped, OfOwner
<1>2. DataInv /\ [DataNext]_dataVars => DataInv'
  BY DataStep
<1> QED BY <1>1, <1>2, DataInitial, PTL DEF DataSpec

\* The handlers answer every request they finish exactly once and count it exactly
\* once, whichever of their error paths it takes; for any requests and devices.
THEOREM AnsweredOnceHolds ==
  ASSUME DataConstants PROVE DataSpec => []AnsweredOnce
<1>1. DataInv => AnsweredOnce
  <2> SUFFICES ASSUME DataInv PROVE AnsweredOnce
    OBVIOUS
  <2>1. \A r \in Requests :
         /\ at[r] # "done" => reply[r] = <<>>
         /\ Len(reply[r]) <= 1
         /\ \A i \in DOMAIN reply[r] : reply[r][i].to =
              IF reply[r][i].kind = "data" THEN Target(r) ELSE request[r].sender
    BY DEF DataInv, Proper
  <2>2. Counted
    BY DEF DataInv
  <2>3. /\ Open = {r \in Requests : at[r] \notin {"done", "deliver"}}
        /\ Started = {r \in Requests : at[r] # "done" \/ reply[r] # <<>>}
    BY DEF Open, Started
  <2>4. /\ counts["requests"] = counts["successful"] + counts["failed"]
              + Cardinality({r \in Requests : at[r] \notin {"done", "deliver"}})
        /\ counts["denied"] + counts["source"] + counts["large"] <= counts["failed"]
        /\ counts["requests"] <=
              Cardinality({r \in Requests : at[r] # "done" \/ reply[r] # <<>>})
    BY <2>2, <2>3, Zenon DEF Counted
  <2> QED BY <2>1, <2>4, Zenon DEF AnsweredOnce
<1>2. DataInv /\ [DataNext]_dataVars => DataInv'
  BY DataStep
<1> QED BY <1>1, <1>2, DataInitial, PTL DEF DataSpec

-----------------------------------------------------------------------------
(* The pages of records.                                                   *)

\* Of any two elements of K one comes before the other.
Orders(before, K) ==
  /\ \A i \in K : <<i, i>> \notin before
  /\ \A i, j, k \in K :
       <<i, j>> \in before /\ <<j, k>> \in before => <<i, k>> \in before
  /\ \A i, j \in K : i # j => <<i, j>> \in before \/ <<j, i>> \in before

\* The place of an element is the number of those before it, so each place has one.
LEMMA OrderExists ==
  ASSUME NEW K, IsFiniteSet(K), NEW before, Orders(before, K)
  PROVE  \E s \in [1 .. Cardinality(K) -> K] :
           \A m, n \in DOMAIN s : m < n => <<s[m], s[n]>> \in before
<1> DEFINE N == Cardinality(K)
           Ahead(i) == {j \in K : <<j, i>> \in before}
           place == [i \in K |-> Cardinality(Ahead(i)) + 1]
           s == [m \in 1 .. N |-> CHOOSE i \in K : place[i] = m]
<1>1. /\ N \in Nat /\ IsFiniteSet(1 .. N) /\ Cardinality(1 .. N) = N
  BY FS_CardinalityType, FS_Interval
<1>2. ASSUME NEW T, NEW U, IsFiniteSet(U), T \subseteq U, NEW x \in U \ T
      PROVE  Cardinality(T) \in Nat /\ Cardinality(T) < Cardinality(U)
  <2>1. /\ Cardinality(U) \in Nat /\ IsFiniteSet(T) /\ Cardinality(T) <= Cardinality(U)
        /\ Cardinality(U) # Cardinality(T)
    BY <1>2, FS_CardinalityType, FS_Subset
  <2>2. Cardinality(T) \in Nat
    BY <2>1, FS_CardinalityType
  <2> QED BY <2>1, <2>2
<1>3. \A i \in K : place[i] \in 1 .. N /\ IsFiniteSet(Ahead(i))
  <2> SUFFICES ASSUME NEW i \in K PROVE place[i] \in 1 .. N /\ IsFiniteSet(Ahead(i))
    OBVIOUS
  <2>1. Ahead(i) \subseteq K /\ i \in K \ Ahead(i)
    BY DEF Orders
  <2>2. Cardinality(Ahead(i)) \in Nat /\ Cardinality(Ahead(i)) < N
    BY <2>1, <1>2
  <2>3. IsFiniteSet(Ahead(i))
    BY <2>1, FS_Subset
  <2> QED BY <2>2, <2>3, <1>1
<1>4. \A i, j \in K : <<i, j>> \in before => place[i] < place[j]
  <2> SUFFICES ASSUME NEW i \in K, NEW j \in K, <<i, j>> \in before
               PROVE  place[i] < place[j]
    OBVIOUS
  <2>1. Ahead(i) \subseteq Ahead(j) /\ i \in Ahead(j) \ Ahead(i)
    BY DEF Orders
  <2>2. Cardinality(Ahead(i)) \in Nat /\ Cardinality(Ahead(i)) < Cardinality(Ahead(j))
    BY <2>1, <1>2, <1>3
  <2>3. Cardinality(Ahead(j)) \in Nat
    BY <1>3, FS_CardinalityType
  <2> QED BY <2>2, <2>3
<1>5. place \in [K -> 1 .. N]
  BY <1>3
<1> HIDE DEF place, N
<1>6. \A i, j \in K : place[i] = place[j] => i = j
  <2> SUFFICES ASSUME NEW i \in K, NEW j \in K, i # j PROVE place[i] # place[j]
    OBVIOUS
  <2>1. place[i] < place[j] \/ place[j] < place[i]
    BY <1>4 DEF Orders
  <2> QED BY <2>1, <1>5, <1>1
<1>7. \A m \in 1 .. N : \E i \in K : place[i] = m
  <2>1. place \in Injection(K, 1 .. N)
    BY <1>5, <1>6 DEF Injection, IsInjective
  <2>2. place \in Surjection(K, 1 .. N)
    BY <2>1, <1>1, FS_Injection DEF N
  <2> QED BY <2>2 DEF Surjection
<1>8. \A m \in 1 .. N : s[m] \in K /\ place[s[m]] = m
  BY <1>7
<1>9. s \in [1 .. N -> K]
  BY <1>8
<1> HIDE DEF s
<1>10. \A m, n \in 1 .. N : m < n => <<s[m], s[n]>> \in before
  <2> SUFFICES ASSUME NEW m \in 1 .. N, NEW n \in 1 .. N, m < n
               PROVE  <<s[m], s[n]>> \in before
    OBVIOUS
  <2>1. s[m] \in K /\ s[n] \in K /\ place[s[m]] = m /\ place[s[n]] = n
    BY <1>8
  <2>2. s[m] # s[n] /\ <<s[n], s[m]>> \notin before
    BY <2>1, <1>4, <1>1
  <2> QED BY <2>1, <2>2 DEF Orders
<1> QED BY <1>9, <1>10 DEF N

LEMMA InOrderFacts ==
  ASSUME NEW K, IsFiniteSet(K), NEW before, Orders(before, K)
  PROVE  /\ Cardinality(K) \in Nat
         /\ InOrder(K, before) \in [1 .. Cardinality(K) -> K]
         /\ \A m, n \in 1 .. Cardinality(K) :
              m < n => <<InOrder(K, before)[m], InOrder(K, before)[n]>> \in before
         /\ \A i \in K : \E m \in 1 .. Cardinality(K) : InOrder(K, before)[m] = i
<1> DEFINE N == Cardinality(K)
           s == InOrder(K, before)
<1>1. /\ N \in Nat /\ IsFiniteSet(1 .. N) /\ Cardinality(1 .. N) = N
  BY FS_CardinalityType, FS_Interval
<1>2. /\ s \in [1 .. N -> K]
      /\ \A m, n \in DOMAIN s : m < n => <<s[m], s[n]>> \in before
  BY OrderExists DEF InOrder
<1> HIDE DEF s, N
<1>3. \A m, n \in 1 .. N : s[m] = s[n] => m = n
  <2> SUFFICES ASSUME NEW m \in 1 .. N, NEW n \in 1 .. N, m < n PROVE s[m] # s[n]
    BY <1>1
  <2> QED BY <1>2 DEF Orders
<1>4. s \in Injection(1 .. N, K)
  BY <1>2, <1>3 DEF Injection, IsInjective
<1>5. s \in Surjection(1 .. N, K)
  BY <1>4, <1>1, FS_Injection DEF N
<1> QED BY <1>1, <1>2, <1>5 DEF Surjection, s, N

LEMMA Members ==
  ASSUME NEW S, NEW s \in Seq(S)
  PROVE  /\ Len(s) \in Nat
         /\ \A x : x \in ToSet(s) <=> \E i \in 1 .. Len(s) : x = s[i]
BY DEF ToSet

LEMMA KeptFacts ==
  ASSUME NEW S, NEW s \in Seq(S), NEW K \in SUBSET (DOMAIN s)
  PROVE  /\ Kept(s, K) \in Seq(S) /\ Len(Kept(s, K)) = Cardinality(K)
         /\ Cardinality(K) \in Nat
         /\ \A i \in K : \E m \in 1 .. Cardinality(K) : Kept(s, K)[m] = s[i]
         /\ \A m, n \in 1 .. Cardinality(K) : m < n =>
              \E i, j \in K : i < j /\ Kept(s, K)[m] = s[i] /\ Kept(s, K)[n] = s[j]
         /\ \A m \in 1 .. Cardinality(K) : \E i \in K : Kept(s, K)[m] = s[i]
<1> DEFINE before == {p \in K \X K : p[1] < p[2]}
           N == Cardinality(K)
           places == InOrder(K, before)
<1>1. IsFiniteSet(K) /\ K \subseteq Nat
  <2>1. DOMAIN s = 1 .. Len(s) /\ Len(s) \in Nat
    OBVIOUS
  <2>2. IsFiniteSet(DOMAIN s)
    BY <2>1, FS_Interval
  <2> QED BY <2>1, <2>2, FS_Subset
<1>2. \A i, j \in K : <<i, j>> \in before <=> i < j
  OBVIOUS
<1> HIDE DEF before
<1>3. Orders(before, K)
  BY <1>1, <1>2 DEF Orders
<1>4. /\ N \in Nat /\ places \in [1 .. N -> K]
      /\ \A m, n \in 1 .. N : m < n => <<places[m], places[n]>> \in before
      /\ \A i \in K : \E m \in 1 .. N : places[m] = i
  BY <1>1, <1>3, InOrderFacts
<1>5. Kept(s, K) = [m \in DOMAIN places |-> s[places[m]]]
  BY DEF Kept, Elements, before
<1> HIDE DEF places, N
<1>6. Kept(s, K) = [m \in 1 .. N |-> s[places[m]]]
  BY <1>5, <1>4
<1>7. \A m \in 1 .. N : s[places[m]] \in S
  BY <1>4
<1>8. Kept(s, K) \in [1 .. N -> S]
  BY <1>6, <1>7
<1>9. Kept(s, K) \in Seq(S) /\ Len(Kept(s, K)) = N
  BY <1>8, <1>4
<1>10. \A m \in 1 .. N : places[m] \in K /\ Kept(s, K)[m] = s[places[m]]
  BY <1>6, <1>4
<1>11. \A m, n \in 1 .. N : m < n => places[m] < places[n]
  BY <1>10, <1>4, <1>2
<1>12. \A i \in K : \E m \in 1 .. N : Kept(s, K)[m] = s[i]
  BY <1>4, <1>10
<1> QED BY <1>4, <1>9, <1>10, <1>11, <1>12 DEF N

\* Two elements, one before the other, and what the key says of them.
SortOf(t, s, key) ==
  \A m, n \in 1 .. Len(s) : m < n =>
    \E i, j \in 1 .. Len(s) :
      /\ i # j /\ t[m] = s[i] /\ t[n] = s[j]
      /\ key[s[i]] < key[s[j]] \/ (key[s[i]] = key[s[j]] /\ i < j)

\* list.sort(key = ...): of two elements the one with the smaller key is first, and
\* of two with the same key the one that was first.
LEMMA SortFacts ==
  ASSUME NEW S, NEW s \in Seq(S), NEW key \in [S -> Int]
  PROVE  /\ StableSort(s, key) \in Seq(S) /\ Len(StableSort(s, key)) = Len(s)
         /\ ToSet(StableSort(s, key)) = ToSet(s) /\ SortOf(StableSort(s, key), s, key)
<1> DEFINE before == {p \in (DOMAIN s) \X (DOMAIN s) :
                        \/ key[s[p[1]]] < key[s[p[2]]]
                        \/ key[s[p[1]]] = key[s[p[2]]] /\ p[1] < p[2]}
           N == Len(s)
           K == 1 .. N
           t == StableSort(s, key)
           places == InOrder(K, before)
<1>1. /\ N \in Nat /\ DOMAIN s = K /\ IsFiniteSet(K) /\ Cardinality(K) = N
      /\ \A i \in K : s[i] \in S /\ key[s[i]] \in Int
  <2>1. N \in Nat /\ DOMAIN s = K /\ \A i \in K : s[i] \in S
    OBVIOUS
  <2>2. IsFiniteSet(K) /\ Cardinality(K) = N
    BY <2>1, FS_Interval
  <2> QED BY <2>1, <2>2
<1>2. \A i, j \in K : <<i, j>> \in before <=>
        key[s[i]] < key[s[j]] \/ (key[s[i]] = key[s[j]] /\ i < j)
  BY <1>1
<1>3. t = [m \in DOMAIN places |-> s[places[m]]]
  BY <1>1 DEF StableSort, Elements
<1> HIDE DEF before, t, N
<1>4. Orders(before, K)
  <2>1. \A i \in K : <<i, i>> \notin before
    BY <1>1, <1>2
  <2>2. \A i, j, k \in K :
          <<i, j>> \in before /\ <<j, k>> \in before => <<i, k>> \in before
    BY <1>1, <1>2
  <2>3. \A i, j \in K : i # j => <<i, j>> \in before \/ <<j, i>> \in before
    BY <1>1, <1>2
  <2> QED BY <2>1, <2>2, <2>3 DEF Orders
<1>5. /\ places \in [1 .. N -> K]
      /\ \A m, n \in 1 .. N : m < n => <<places[m], places[n]>> \in before
      /\ \A i \in K : \E m \in 1 .. N : places[m] = i
  <2>1. Cardinality(K) = N /\ IsFiniteSet(K)
    BY <1>1
  <2> HIDE DEF K
  <2> QED BY <2>1, <1>4, InOrderFacts
<1> HIDE DEF places
<1>6. t = [m \in 1 .. N |-> s[places[m]]]
  BY <1>3, <1>5
<1>7. t \in [1 .. N -> S]
  BY <1>6, <1>5, <1>1
<1>8. t \in Seq(S) /\ Len(t) = N
  BY <1>7, <1>1
<1>9. \A m \in K : places[m] \in K /\ t[m] = s[places[m]]
  BY <1>6, <1>5
<1>10. \A i \in K : \E m \in K : t[m] = s[i]
  <2> SUFFICES ASSUME NEW i \in K PROVE \E m \in K : t[m] = s[i]
    OBVIOUS
  <2>1. PICK m \in K : places[m] = i
    BY <1>5
  <2> QED BY <2>1, <1>9
<1>11. ASSUME NEW m \in K, NEW n \in K, m < n
       PROVE  \E i, j \in K :
                /\ i # j /\ t[m] = s[i] /\ t[n] = s[j]
                /\ key[s[i]] < key[s[j]] \/ (key[s[i]] = key[s[j]] /\ i < j)
  <2>1. <<places[m], places[n]>> \in before
    BY <1>5, <1>11
  <2>2. places[m] # places[n]
    BY <2>1, <1>9, <1>4 DEF Orders
  <2> QED BY <2>1, <2>2, <1>9, <1>2
<1>12. SortOf(t, s, key)
  BY <1>11 DEF SortOf, N
<1>13. ToSet(t) = ToSet(s)
  <2>1. \A x : x \in ToSet(t) <=> \E m \in K : x = t[m]
    BY <1>8, Members
  <2>2. \A x : x \in ToSet(s) <=> \E i \in K : x = s[i]
    BY Members DEF N
  <2>3. ASSUME NEW x \in ToSet(t) PROVE x \in ToSet(s)
    BY <2>1, <2>2, <1>9
  <2>4. ASSUME NEW x \in ToSet(s) PROVE x \in ToSet(t)
    <3>1. PICK i \in K : x = s[i]
      BY <2>2
    <3>2. PICK m \in K : t[m] = s[i]
      BY <1>10
    <3> QED BY <3>1, <3>2, <2>1
  <2> QED BY <2>3, <2>4
<1> QED BY <1>8, <1>12, <1>13 DEF N, t

\* The ids of a listing are unique.
Listing(s) ==
  s \in Seq(Record) /\ \A i, j \in 1 .. Len(s) : s[i].id = s[j].id => i = j

Sorted(s) == \A m, n \in 1 .. Len(s) : m < n => Sooner(s[m], s[n])

LEMMA KeyTypes ==
  ASSUME PagesConstants
  PROVE  /\ IdOf \in [Record -> Int] /\ AgeOf \in [Record -> Int]
         /\ \A r \in Record : /\ IdOf[r] = r.id /\ AgeOf[r] = MaxStamp - r.stamp
                             /\ r.id \in Nat /\ r.stamp \in Nat
<1>1. \A r \in Record : r.id \in Nat /\ r.stamp \in Nat
  BY DEF Record, PagesConstants
<1>2. MaxStamp \in Nat
  BY DEF PagesConstants
<1> QED BY <1>1, <1>2 DEF IdOf, AgeOf

LEMMA KeptListing ==
  ASSUME NEW s, Listing(s), NEW K \in SUBSET (1 .. Len(s))
  PROVE  /\ Listing(Kept(s, K)) /\ Len(Kept(s, K)) = Cardinality(K)
         /\ \A i \in K : \E m \in 1 .. Len(Kept(s, K)) : Kept(s, K)[m] = s[i]
         /\ \A m \in 1 .. Len(Kept(s, K)) : \E i \in K : Kept(s, K)[m] = s[i]
<1> DEFINE t == Kept(s, K)
<1>1. s \in Seq(Record) /\ K \in SUBSET (DOMAIN s) /\ Len(s) \in Nat
  BY DEF Listing
<1>2. /\ t \in Seq(Record) /\ Len(t) = Cardinality(K) /\ Len(t) \in Nat
      /\ \A i \in K : \E m \in 1 .. Len(t) : t[m] = s[i]
      /\ \A m, n \in 1 .. Len(t) : m < n =>
           \E i, j \in K : i < j /\ t[m] = s[i] /\ t[n] = s[j]
      /\ \A m \in 1 .. Len(t) : \E i \in K : t[m] = s[i]
  BY <1>1, KeptFacts
<1> HIDE DEF t
<1>3. ASSUME NEW m \in 1 .. Len(t), NEW n \in 1 .. Len(t), m < n
      PROVE  t[m].id # t[n].id
  <2>1. PICK i \in K, j \in K : i < j /\ t[m] = s[i] /\ t[n] = s[j]
    BY <1>2, <1>3
  <2> QED BY <2>1, <1>1 DEF Listing
<1>4. \A m, n \in 1 .. Len(t) : t[m].id = t[n].id => m = n
  BY <1>3, <1>2
<1> QED BY <1>2, <1>4 DEF Listing, t

\* Sorted by id, a listing has one order.
LEMMA SortedById ==
  ASSUME PagesConstants, NEW s, Listing(s)
  PROVE  /\ Listing(StableSort(s, IdOf)) /\ Len(StableSort(s, IdOf)) = Len(s)
         /\ ToSet(StableSort(s, IdOf)) = ToSet(s)
         /\ \A m, n \in 1 .. Len(s) :
              m < n => StableSort(s, IdOf)[m].id < StableSort(s, IdOf)[n].id
<1> DEFINE t == StableSort(s, IdOf)
<1>1. s \in Seq(Record) /\ Len(s) \in Nat /\ \A i \in 1 .. Len(s) : s[i] \in Record
  BY DEF Listing
<1>2. /\ t \in Seq(Record) /\ Len(t) = Len(s) /\ ToSet(t) = ToSet(s)
      /\ SortOf(t, s, IdOf)
  <2>1. IdOf \in [Record -> Int] /\ AgeOf \in [Record -> Int]
    BY KeyTypes
  <2> QED BY <1>1, <2>1, SortFacts
<1> HIDE DEF t
<1>3. ASSUME NEW m \in 1 .. Len(s), NEW n \in 1 .. Len(s), m < n
      PROVE  t[m].id < t[n].id
  <2>1. PICK i \in 1 .. Len(s), j \in 1 .. Len(s) :
          /\ i # j /\ t[m] = s[i] /\ t[n] = s[j]
          /\ IdOf[s[i]] < IdOf[s[j]] \/ (IdOf[s[i]] = IdOf[s[j]] /\ i < j)
    <3>1. SortOf(t, s, IdOf)
      BY <1>2
    <3> QED BY <3>1, <1>3 DEF SortOf
  <2>2. IdOf[s[i]] = s[i].id /\ IdOf[s[j]] = s[j].id /\ s[i].id # s[j].id
    BY <2>1, <1>1, KeyTypes DEF Listing
  <2> QED BY <2>1, <2>2
<1>4. \A m \in 1 .. Len(s) : t[m].id \in Nat
  BY <1>2, KeyTypes
<1>5. Listing(t)
  <2>1. \A m, n \in 1 .. Len(s) : m # n => t[m].id # t[n].id
    BY <1>1, <1>3, <1>4
  <2> QED BY <2>1, <1>2 DEF Listing
<1> QED BY <1>2, <1>3, <1>5 DEF t

\* The second sort puts the ages in order and keeps the ids of each age in order.
LEMMA SortedByAge ==
  ASSUME PagesConstants, NEW s, Listing(s),
         \A m, n \in 1 .. Len(s) : m < n => s[m].id < s[n].id
  PROVE  /\ StableSort(s, AgeOf) \in Seq(Record) /\ Len(StableSort(s, AgeOf)) = Len(s)
         /\ ToSet(StableSort(s, AgeOf)) = ToSet(s)
         /\ Sorted(StableSort(s, AgeOf))
<1> DEFINE t == StableSort(s, AgeOf)
<1>1. s \in Seq(Record) /\ Len(s) \in Nat /\ \A i \in 1 .. Len(s) : s[i] \in Record
  BY DEF Listing
<1>2. /\ t \in Seq(Record) /\ Len(t) = Len(s) /\ ToSet(t) = ToSet(s)
      /\ SortOf(t, s, AgeOf)
  <2>1. IdOf \in [Record -> Int] /\ AgeOf \in [Record -> Int]
    BY KeyTypes
  <2> QED BY <1>1, <2>1, SortFacts
<1> HIDE DEF t
<1>3. ASSUME NEW m \in 1 .. Len(s), NEW n \in 1 .. Len(s), m < n
      PROVE  Sooner(t[m], t[n])
  <2>1. PICK i \in 1 .. Len(s), j \in 1 .. Len(s) :
          /\ i # j /\ t[m] = s[i] /\ t[n] = s[j]
          /\ AgeOf[s[i]] < AgeOf[s[j]] \/ (AgeOf[s[i]] = AgeOf[s[j]] /\ i < j)
    <3>1. SortOf(t, s, AgeOf)
      BY <1>2
    <3> QED BY <3>1, <1>3 DEF SortOf
  <2>2. /\ AgeOf[s[i]] = MaxStamp - s[i].stamp /\ AgeOf[s[j]] = MaxStamp - s[j].stamp
        /\ s[i].stamp \in Nat /\ s[j].stamp \in Nat /\ MaxStamp \in Nat
    BY <1>1, KeyTypes DEF PagesConstants
  <2>3. s[i].stamp > s[j].stamp \/ (s[i].stamp = s[j].stamp /\ i < j)
    <3>1. /\ MaxStamp - s[i].stamp < MaxStamp - s[j].stamp => s[i].stamp > s[j].stamp
          /\ MaxStamp - s[i].stamp = MaxStamp - s[j].stamp => s[i].stamp = s[j].stamp
      <4>1. \A x, y, z \in Nat :
              (x - y < x - z => y > z) /\ (x - y = x - z => y = z)
        OBVIOUS
      <4> QED BY <4>1, <2>2
    <3>2. CASE AgeOf[s[i]] < AgeOf[s[j]]
      BY <3>1, <3>2, <2>2
    <3>3. CASE AgeOf[s[i]] = AgeOf[s[j]] /\ i < j
      BY <3>1, <3>3, <2>2
    <3> QED BY <2>1, <3>2, <3>3
  <2>4. i < j => s[i].id < s[j].id
    OBVIOUS
  <2> QED BY <2>1, <2>3, <2>4 DEF Sooner
<1>4. Sorted(t)
  BY <1>2, <1>3 DEF Sorted
<1> QED BY <1>2, <1>4 DEF t

LEMMA OrderedRecords ==
  ASSUME PagesConstants, NEW s, Listing(s)
  PROVE  /\ OrderRecords(s) \in Seq(Record) /\ Len(OrderRecords(s)) = Len(s)
         /\ ToSet(OrderRecords(s)) = ToSet(s) /\ Sorted(OrderRecords(s))
<1> DEFINE new == {i \in DOMAIN s : s[i].stamp # 0}
           old == {i \in DOMAIN s : s[i].stamp = 0}
           a == Kept(s, new)
           b == Kept(s, old)
           c == StableSort(StableSort(a, IdOf), AgeOf)
           d == StableSort(b, IdOf)
<1>1. /\ s \in Seq(Record) /\ Len(s) \in Nat /\ DOMAIN s = 1 .. Len(s)
      /\ new \in SUBSET (1 .. Len(s)) /\ old \in SUBSET (1 .. Len(s))
  BY DEF Listing
<1>2. Cardinality(new) + Cardinality(old) = Len(s)
  <2>1. new \cap old = {} /\ new \cup old = 1 .. Len(s)
    BY <1>1
  <2>2. IsFiniteSet(1 .. Len(s)) /\ Cardinality(1 .. Len(s)) = Len(s)
    BY <1>1, FS_Interval
  <2>3. IsFiniteSet(new) /\ IsFiniteSet(old)
    BY <2>2, <1>1, FS_Subset
  <2>4. Cardinality(new) \in Nat /\ Cardinality(old) \in Nat
    BY <2>3, FS_CardinalityType
  <2>5. Cardinality(new \cup old) =
          Cardinality(new) + Cardinality(old) - Cardinality(new \cap old)
    BY <2>3, FS_Union
  <2>6. Cardinality(new \cap old) = 0
    BY <2>1, FS_EmptySet
  <2>7. Cardinality(new \cup old) = Len(s)
    BY <2>1, <2>2
  <2> HIDE DEF new, old
  <2> QED BY <2>4, <2>5, <2>6, <2>7
<1>3. /\ Listing(a) /\ Len(a) = Cardinality(new)
      /\ \A i \in new : \E m \in 1 .. Len(a) : a[m] = s[i]
      /\ \A m \in 1 .. Len(a) : \E i \in new : a[m] = s[i]
  BY <1>1, KeptListing
<1>4. /\ Listing(b) /\ Len(b) = Cardinality(old)
      /\ \A i \in old : \E m \in 1 .. Len(b) : b[m] = s[i]
      /\ \A m \in 1 .. Len(b) : \E i \in old : b[m] = s[i]
  BY <1>1, KeptListing
<1>5. OrderRecords(s) = c \o d
  BY DEF OrderRecords, Stamped, Unstamped
<1> HIDE DEF a, b
<1>6. a \in Seq(Record) /\ b \in Seq(Record) /\ Len(a) \in Nat /\ Len(b) \in Nat
  BY <1>3, <1>4 DEF Listing
<1>7. /\ c \in Seq(Record) /\ Len(c) = Len(a) /\ ToSet(c) = ToSet(a) /\ Sorted(c)
  <2> DEFINE e == StableSort(a, IdOf)
  <2>1. /\ Listing(e) /\ Len(e) = Len(a) /\ ToSet(e) = ToSet(a)
        /\ \A m, n \in 1 .. Len(e) : m < n => e[m].id < e[n].id
    BY <1>3, SortedById
  <2> HIDE DEF e
  <2>2. /\ StableSort(e, AgeOf) \in Seq(Record) /\ Len(StableSort(e, AgeOf)) = Len(e)
        /\ ToSet(StableSort(e, AgeOf)) = ToSet(e) /\ Sorted(StableSort(e, AgeOf))
    BY <2>1, SortedByAge
  <2> QED BY <2>1, <2>2 DEF e
<1>8. /\ d \in Seq(Record) /\ Len(d) = Len(b) /\ ToSet(d) = ToSet(b)
      /\ \A m, n \in 1 .. Len(d) : m < n => d[m].id < d[n].id
  BY <1>4, SortedById DEF Listing
<1> HIDE DEF c, d
<1>9. \A m \in 1 .. Len(c) : \E i \in new : c[m] = s[i]
  <2> SUFFICES ASSUME NEW m \in 1 .. Len(c) PROVE \E i \in new : c[m] = s[i]
    OBVIOUS
  <2>1. c[m] \in ToSet(c)
    BY <1>7 DEF ToSet
  <2>2. PICK n \in 1 .. Len(a) : c[m] = a[n]
    BY <2>1, <1>6, <1>7, Members
  <2> QED BY <2>2, <1>3
<1>10. \A m \in 1 .. Len(d) : \E i \in old : d[m] = s[i]
  <2> SUFFICES ASSUME NEW m \in 1 .. Len(d) PROVE \E i \in old : d[m] = s[i]
    OBVIOUS
  <2>1. d[m] \in ToSet(d)
    BY <1>8 DEF ToSet
  <2>2. PICK n \in 1 .. Len(b) : d[m] = b[n]
    BY <2>1, <1>6, <1>8, Members
  <2> QED BY <2>2, <1>4
<1>11. /\ c \o d \in Seq(Record) /\ Len(c \o d) = Len(c) + Len(d)
       /\ \A i \in 1 .. Len(c) + Len(d) :
            (c \o d)[i] = IF i <= Len(c) THEN c[i] ELSE d[i - Len(c)]
  BY <1>7, <1>8, ConcatProperties
<1>12. Len(c \o d) = Len(s)
  BY <1>2, <1>3, <1>4, <1>7, <1>8, <1>11
<1>13. ToSet(c \o d) = ToSet(s)
  <2>1. ASSUME NEW r \in ToSet(c \o d) PROVE r \in ToSet(s)
    <3>1. PICK i \in 1 .. Len(c) + Len(d) : r = (c \o d)[i]
      <4>1. \A x : x \in ToSet(c \o d) <=> \E i \in 1 .. Len(c \o d) : x = (c \o d)[i]
        BY <1>11, Members
      <4> QED BY <4>1, <2>1, <1>11
    <3>2. CASE i <= Len(c)
      <4>1. i \in 1 .. Len(c) /\ r = c[i]
        BY <3>1, <3>2, <1>11, <1>6, <1>7
      <4> QED BY <4>1, <1>9, <1>1 DEF ToSet
    <3>3. CASE i > Len(c)
      <4>1. i - Len(c) \in 1 .. Len(d) /\ r = d[i - Len(c)]
        BY <3>1, <3>3, <1>11, <1>6, <1>7, <1>8
      <4> QED BY <4>1, <1>10, <1>1 DEF ToSet
    <3> QED BY <3>2, <3>3, <1>6, <1>7
  <2>2. ASSUME NEW i \in 1 .. Len(s) PROVE s[i] \in ToSet(c \o d)
    <3>1. CASE i \in new
      <4>1. PICK m \in 1 .. Len(a) : a[m] = s[i]
        BY <3>1, <1>3
      <4>2. s[i] \in ToSet(c)
        BY <4>1, <1>6, <1>7, Members
      <4>3. PICK n \in 1 .. Len(c) : c[n] = s[i]
        BY <4>2, <1>7 DEF ToSet
      <4>4. n \in 1 .. Len(c) + Len(d) /\ (c \o d)[n] = s[i]
        BY <4>3, <1>6, <1>7, <1>8, <1>11
      <4> QED BY <4>4, <1>11, Members
    <3>2. CASE i \in old
      <4>1. PICK m \in 1 .. Len(b) : b[m] = s[i]
        BY <3>2, <1>4
      <4>2. s[i] \in ToSet(d)
        BY <4>1, <1>6, <1>8, Members
      <4>3. PICK n \in 1 .. Len(d) : d[n] = s[i]
        BY <4>2, <1>8 DEF ToSet
      <4>4. n + Len(c) \in 1 .. Len(c) + Len(d) /\ (c \o d)[n + Len(c)] = s[i]
        BY <4>3, <1>6, <1>7, <1>8, <1>11
      <4> QED BY <4>4, <1>11, Members
    <3> QED BY <3>1, <3>2, <1>1
  <2> QED BY <2>1, <2>2, <1>1 DEF ToSet
<1>14. Sorted(c \o d)
  <2> SUFFICES ASSUME NEW m \in 1 .. Len(c) + Len(d), NEW n \in 1 .. Len(c) + Len(d),
                      m < n
               PROVE  Sooner((c \o d)[m], (c \o d)[n])
    BY <1>11 DEF Sorted
  <2>1. CASE n <= Len(c)
    <3>1. /\ m \in 1 .. Len(c) /\ n \in 1 .. Len(c)
          /\ (c \o d)[m] = c[m] /\ (c \o d)[n] = c[n]
      BY <2>1, <1>6, <1>7, <1>11
    <3> QED BY <3>1, <1>7 DEF Sorted
  <2>2. CASE m > Len(c)
    <3>1. /\ m - Len(c) \in 1 .. Len(d) /\ n - Len(c) \in 1 .. Len(d)
          /\ m - Len(c) < n - Len(c)
          /\ (c \o d)[m] = d[m - Len(c)] /\ (c \o d)[n] = d[n - Len(c)]
      BY <2>2, <1>6, <1>7, <1>8, <1>11
    <3>2. d[m - Len(c)].stamp = 0 /\ d[n - Len(c)].stamp = 0
      BY <3>1, <1>10
    <3>3. d[m - Len(c)].id < d[n - Len(c)].id
      BY <3>1, <1>8
    <3> QED BY <3>1, <3>2, <3>3 DEF Sooner
  <2>3. CASE m <= Len(c) /\ n > Len(c)
    <3>1. /\ m \in 1 .. Len(c) /\ n - Len(c) \in 1 .. Len(d)
          /\ (c \o d)[m] = c[m] /\ (c \o d)[n] = d[n - Len(c)]
      BY <2>3, <1>6, <1>7, <1>8, <1>11
    <3>2. d[n - Len(c)].stamp = 0 /\ c[m].stamp # 0
      BY <3>1, <1>9, <1>10
    <3>3. c[m].stamp \in Nat
      BY <3>1, <1>7, KeyTypes
    <3> QED BY <3>1, <3>2, <3>3 DEF Sooner
  <2> QED BY <2>1, <2>2, <2>3, <1>6, <1>7
<1> QED BY <1>5, <1>11, <1>12, <1>13, <1>14

\* A set of natural numbers has a least member.
LEMMA LeastNatural ==
  ASSUME NEW T \in SUBSET Nat, T # {}
  PROVE  \E n \in T : \A m \in T : ~(m < n)
<1>1. PICK n \in T : \A m \in T : ~(<<m, n>> \in OpToRel(<, Nat))
  BY NatLessThanWellFounded, WFMin
<1>2. \A m \in T : m < n => <<m, n>> \in OpToRel(<, Nat)
  BY DEF OpToRel
<1> QED BY <1>1, <1>2

\* The same elements have one order: at the first place where two orders differ,
\* each would have to have the element of the other later on.
LEMMA OneOrder ==
  ASSUME PagesConstants, NEW s \in Seq(Record), NEW t \in Seq(Record), Len(s) = Len(t),
         ToSet(s) = ToSet(t), Sorted(s), Sorted(t)
  PROVE  s = t
<1> DEFINE differ == {i \in 1 .. Len(s) : s[i] # t[i]}
<1>1. /\ Len(s) \in Nat /\ Len(t) = Len(s)
      /\ \A i \in 1 .. Len(s) : s[i] \in Record /\ t[i] \in Record
  OBVIOUS
<1>2. \A q, r \in Record : Sooner(q, r) => ~Sooner(r, q) /\ q # r
  <2> SUFFICES ASSUME NEW q \in Record, NEW r \in Record, Sooner(q, r)
               PROVE  ~Sooner(r, q) /\ q # r
    OBVIOUS
  <2>1. q.id \in Nat /\ q.stamp \in Nat /\ r.id \in Nat /\ r.stamp \in Nat
    BY KeyTypes
  <2> QED BY <2>1 DEF Sooner
<1>3. \A m, n \in 1 .. Len(s) : m < n => Sooner(s[m], s[n]) /\ Sooner(t[m], t[n])
  BY DEF Sorted
\* What stands at the first differing place of one is later in the other.
<1>4. ASSUME NEW u \in Seq(Record), NEW v \in Seq(Record),
             Len(u) = Len(s), Len(v) = Len(s), ToSet(u) = ToSet(v),
             \A m, n \in 1 .. Len(s) : m < n => Sooner(u[m], u[n]) /\ Sooner(v[m], v[n]),
             NEW i \in 1 .. Len(s), u[i] # v[i],
             \A j \in 1 .. Len(s) : j < i => u[j] = v[j]
      PROVE  Sooner(v[i], u[i])
  <2>1. u[i] \in ToSet(v)
    BY <1>4, Members
  <2>2. PICK j \in 1 .. Len(s) : v[j] = u[i]
    BY <2>1, <1>4, Members
  <2>3. u[i] \in Record /\ u[j] \in Record
    BY <1>4
  <2>4. ~(j < i)
    <3>1. SUFFICES ASSUME j < i PROVE FALSE
      OBVIOUS
    <3>2. u[j] = v[j] /\ Sooner(u[j], u[i])
      BY <3>1, <1>4
    <3> QED BY <3>2, <2>2, <2>3, <1>2
  <2>5. j # i
    BY <2>2, <1>4
  <2>6. i < j
    BY <2>4, <2>5, <1>1
  <2> QED BY <2>6, <2>2, <1>4
<1>5. differ = {}
  <2>1. SUFFICES ASSUME differ # {} PROVE FALSE
    OBVIOUS
  <2>2. differ \in SUBSET Nat
    BY <1>1
  <2>3. PICK i \in differ : \A j \in differ : ~(j < i)
    BY <2>1, <2>2, LeastNatural
  <2>4. /\ i \in 1 .. Len(s) /\ s[i] # t[i]
        /\ \A j \in 1 .. Len(s) : j < i => s[j] = t[j]
    BY <2>3
  <2>5. Sooner(t[i], s[i])
    BY <2>4, <1>1, <1>3, <1>4
  <2>6. Sooner(s[i], t[i])
    <3>1. \A j \in 1 .. Len(s) : j < i => t[j] = s[j]
      BY <2>4
    <3>2. \A m, n \in 1 .. Len(s) : m < n => Sooner(t[m], t[n]) /\ Sooner(s[m], s[n])
      BY <1>3
    <3> QED BY <2>4, <3>1, <3>2, <1>1, <1>4
  <2> QED BY <2>4, <2>5, <2>6, <1>1, <1>2
<1>6. \A i \in 1 .. Len(s) : s[i] = t[i]
  BY <1>5
<1> QED BY <1>1, <1>6

\* The pages are the beginning of the ordered listing, whichever listing it was.
UpTo(first, s) == IF first < Len(s) THEN first ELSE Len(s)

PagesInv ==
  /\ Listing(listing) /\ offset \in Nat
  /\ received = SubSeq(OrderRecords(listing), 1, UpTo(offset, listing))

LEMMA PagesInitial == PagesConstants /\ PagesInit => PagesInv
<1> SUFFICES ASSUME PagesConstants, PagesInit PROVE PagesInv
  OBVIOUS
<1>1. Listing(listing)
  BY DEF PagesInit, SeqOf, Listing, PagesConstants
<1>2. UpTo(0, listing) = 0
  BY <1>1 DEF UpTo, Listing
<1>3. SubSeq(OrderRecords(listing), 1, 0) = <<>>
  BY <1>1, OrderedRecords
<1> QED BY <1>1, <1>2, <1>3 DEF PagesInit, PagesInv

LEMMA RelistKeeps ==
  ASSUME PagesConstants, PagesInv, Relist
  PROVE  PagesInv'
<1>1. PICK i \in DOMAIN listing, j \in DOMAIN listing :
        /\ i < j /\ listing' = [listing EXCEPT ![i] = listing[j], ![j] = listing[i]]
  BY DEF Relist
<1>2. /\ listing \in Seq(Record) /\ Len(listing) \in Nat
      /\ DOMAIN listing = 1 .. Len(listing)
      /\ \A m, n \in 1 .. Len(listing) : listing[m].id = listing[n].id => m = n
  BY DEF PagesInv, Listing
<1>3. listing' \in Seq(Record) /\ Len(listing') = Len(listing)
  BY <1>1, <1>2
<1> DEFINE swapped(m) == IF m = i THEN j ELSE IF m = j THEN i ELSE m
<1>4. \A m \in 1 .. Len(listing) :
        /\ swapped(m) \in 1 .. Len(listing) /\ listing'[m] = listing[swapped(m)]
        /\ swapped(swapped(m)) = m
  BY <1>1, <1>2
<1> HIDE DEF swapped
<1>5. Listing(listing')
  <2> SUFFICES ASSUME NEW m \in 1 .. Len(listing), NEW n \in 1 .. Len(listing),
                      listing'[m].id = listing'[n].id
               PROVE  m = n
    BY <1>3 DEF Listing
  <2>1. swapped(m) = swapped(n)
    BY <1>2, <1>4
  <2>2. m = swapped(swapped(m)) /\ n = swapped(swapped(n))
    BY <1>4
  <2> QED BY <2>1, <2>2
<1>6. ToSet(listing') = ToSet(listing)
  <2>1. \A x : x \in ToSet(listing') <=> \E m \in 1 .. Len(listing) : x = listing'[m]
    BY <1>3, Members
  <2>2. \A x : x \in ToSet(listing) <=> \E m \in 1 .. Len(listing) : x = listing[m]
    BY <1>2, Members
  <2>3. ASSUME NEW x \in ToSet(listing') PROVE x \in ToSet(listing)
    BY <2>1, <2>2, <1>4
  <2>4. ASSUME NEW x \in ToSet(listing) PROVE x \in ToSet(listing')
    <3>1. PICK m \in 1 .. Len(listing) : x = listing[m]
      BY <2>2
    <3>2. swapped(m) \in 1 .. Len(listing) /\ listing'[swapped(m)] = x
      BY <3>1, <1>4
    <3> QED BY <3>2, <2>1
  <2> QED BY <2>3, <2>4
<1>7. OrderRecords(listing') = OrderRecords(listing)
  <2>1. /\ OrderRecords(listing) \in Seq(Record) /\ Sorted(OrderRecords(listing))
        /\ Len(OrderRecords(listing)) = Len(listing)
        /\ ToSet(OrderRecords(listing)) = ToSet(listing)
    BY OrderedRecords DEF PagesInv
  <2>2. /\ OrderRecords(listing') \in Seq(Record) /\ Sorted(OrderRecords(listing'))
        /\ Len(OrderRecords(listing')) = Len(listing)
        /\ ToSet(OrderRecords(listing')) = ToSet(listing)
    BY <1>3, <1>5, <1>6, OrderedRecords
  <2> QED BY <2>1, <2>2, OneOrder
<1> QED BY <1>3, <1>5, <1>7 DEF PagesInv, Relist, UpTo

LEMMA AskKeeps ==
  ASSUME PagesConstants, PagesInv, NEW limit \in 1 .. MaxLimit, AskPage(limit)
  PROVE  PagesInv'
<1> DEFINE o == OrderRecords(listing)
           N == Len(listing)
           last == IF offset + limit < N THEN offset + limit ELSE N
<1>1. /\ N \in Nat /\ offset \in Nat /\ limit \in Nat /\ 1 <= limit /\ offset <= N
      /\ o \in Seq(Record) /\ Len(o) = N
  <2>1. o \in Seq(Record) /\ Len(o) = N
    BY OrderedRecords DEF PagesInv
  <2>2. N \in Nat /\ offset \in Nat /\ offset <= N
    BY DEF PagesInv, Listing, AskPage
  <2>3. limit \in Nat /\ 1 <= limit
    BY DEF PagesConstants
  <2> QED BY <2>1, <2>2, <2>3
<1>2. /\ received' = received \o SubSeq(o, offset + 1, last)
      /\ offset' = offset + limit /\ listing' = listing
  BY <1>1 DEF AskPage, Paginate
<1>3. received = SubSeq(o, 1, offset)
  BY <1>1 DEF PagesInv, UpTo
<1> HIDE DEF o, N
<1>4. last \in Nat /\ offset <= last /\ last <= N
  BY <1>1
<1> HIDE DEF last
<1>5. received' = SubSeq(o, 1, last)
  <2>1. /\ 1 \in 1 .. Len(o) + 1 /\ offset \in 1 - 1 .. Len(o)
        /\ last \in offset .. Len(o)
    BY <1>1, <1>4
  <2>2. SubSeq(o, 1, offset) \o SubSeq(o, offset + 1, last) = SubSeq(o, 1, last)
    BY <2>1, <1>1, ConcatAdjacentSubSeq
  <2> QED BY <2>2, <1>2, <1>3
<1>6. UpTo(offset', listing') = last
  BY <1>2 DEF UpTo, last, N
<1>7. Listing(listing') /\ offset' \in Nat
  BY <1>1, <1>2 DEF PagesInv
<1> QED BY <1>2, <1>5, <1>6, <1>7 DEF PagesInv, o

LEMMA PagesKeep ==
  ASSUME PagesConstants
  PROVE  PagesInv /\ [PagesNext]_pagesVars => PagesInv'
<1> SUFFICES ASSUME PagesInv, [PagesNext]_pagesVars PROVE PagesInv'
  OBVIOUS
<1>1. CASE Relist
  BY <1>1, RelistKeeps
<1>2. CASE \E limit \in 1 .. MaxLimit : AskPage(limit)
  BY <1>2, AskKeeps
<1>3. CASE UNCHANGED pagesVars
  BY <1>3 DEF pagesVars, PagesInv
<1> QED BY <1>1, <1>2, <1>3 DEF PagesNext

LEMMA PagesInvComplete ==
  ASSUME PagesConstants, PagesInv
  PROVE  PagesComplete
<1> DEFINE o == OrderRecords(listing)
           N == Len(listing)
           k == UpTo(offset, listing)
<1>1. /\ o \in Seq(Record) /\ Len(o) = N /\ ToSet(o) = ToSet(listing) /\ Sorted(o)
      /\ received = SubSeq(o, 1, k)
  BY OrderedRecords DEF PagesInv
<1>2. /\ N \in Nat /\ k \in Nat /\ k <= N /\ offset \in Nat /\ (k = offset \/ k = N)
  BY DEF PagesInv, Listing, UpTo
<1> HIDE DEF o, N, k
<1>3. /\ received \in Seq(Record) /\ Len(received) = k
      /\ \A i \in 1 .. k : received[i] = o[i]
  BY <1>1, <1>2
<1>4. \A m, n \in DOMAIN received : m < n => Sooner(received[m], received[n])
  BY <1>1, <1>2, <1>3 DEF Sorted
<1>5. ToSet(received) \subseteq ToSet(listing)
  <2> SUFFICES ASSUME NEW x \in ToSet(received) PROVE x \in ToSet(o)
    BY <1>1
  <2>1. PICK i \in 1 .. k : x = received[i]
    BY <1>3, Members
  <2>2. i \in 1 .. N /\ x = o[i]
    BY <2>1, <1>2, <1>3
  <2> QED BY <2>2, <1>1, Members
<1>6. ASSUME NEW r \in ToSet(listing) \ ToSet(received)
      PROVE  Len(received) = offset /\ \A q \in ToSet(received) : Sooner(q, r)
  <2>1. PICK i \in 1 .. N : r = o[i]
    BY <1>1, Members
  <2>2. ~(i <= k)
    <3> SUFFICES ASSUME i <= k PROVE FALSE
      OBVIOUS
    <3>1. i \in 1 .. k /\ r = received[i]
      BY <2>1, <1>2, <1>3
    <3> QED BY <3>1, <1>3, Members
  <2>3. k = offset
    BY <2>1, <2>2, <1>2
  <2>4. ASSUME NEW q \in ToSet(received) PROVE Sooner(q, r)
    <3>1. PICK j \in 1 .. k : q = received[j]
      BY <1>3, Members
    <3>2. j \in 1 .. N /\ j < i /\ q = o[j]
      BY <3>1, <2>1, <2>2, <1>2, <1>3
    <3> QED BY <3>2, <2>1, <1>1 DEF Sorted
  <2> QED BY <2>3, <2>4, <1>3
<1> QED BY <1>4, <1>5, <1>6 DEF PagesComplete

\* Whatever order the records are listed in before each of the requests, and
\* whatever size the pages have, the pages received so far are the first records of
\* the one order, each once, up to the offset (order_records, paginate).
THEOREM PagesCompleteHolds ==
  ASSUME PagesConstants PROVE PagesSpec => []PagesComplete
<1>1. PagesInv /\ [PagesNext]_pagesVars => PagesInv'
  BY PagesKeep
<1> QED BY <1>1, PagesInitial, PagesInvComplete, PTL DEF PagesSpec
=============================================================================
