----------------------------- MODULE RecordPages ------------------------------
(***************************************************************************)
(* The order in which records are returned to a device, and their pages    *)
(* (order_records and paginate in core/data/normalize.py, the limits of    *)
(* core/data/requests.py). R.E.S.C.S. lists records in no particular       *)
(* order, and each page is a request of its own that lists them anew.      *)
(*                                                                         *)
(* A record is its id and its updated_at. Stamp 0 stands for none, and a   *)
(* stamp that cannot be parsed sorts before all that can: it is a high     *)
(* number. Ids are unique and compared as the numbers they are here.       *)
(***************************************************************************)
EXTENDS Naturals, FiniteSets, Sequences, SequencesExt

CONSTANTS
  MaxRecords, MaxStamp,
  MaxLimit      \* MAX_LIMIT; MIN_LIMIT is 1, and the offset any natural number

PagesConstants ==
  MaxRecords \in Nat /\ MaxStamp \in Nat /\ MaxLimit \in Nat \ {0}

VARIABLES
  listing,      \* the records as R.E.S.C.S. lists them
  offset,       \* the first record that the device has not asked for yet
  received      \* the records of the pages that it received

pagesVars == <<listing, offset, received>>

Record == [id : 1 .. MaxRecords, stamp : 0 .. MaxStamp]

IdOf == [r \in Record |-> r.id]
AgeOf == [r \in Record |-> MaxStamp - r.stamp]

\* The elements of K, each before those that it comes before.
InOrder(K, before) ==
  CHOOSE s \in [1 .. Cardinality(K) -> K] :
    \A m, n \in DOMAIN s : m < n => <<s[m], s[n]>> \in before

Elements(s, places) == [n \in DOMAIN places |-> s[places[n]]]

Kept(s, places) ==
  Elements(s, InOrder(places, {p \in places \X places : p[1] < p[2]}))

\* list.sort: elements with the same key stay in the order they had.
StableSort(s, key) ==
  Elements(s, InOrder(DOMAIN s, {p \in (DOMAIN s) \X (DOMAIN s) :
    \/ key[s[p[1]]] < key[s[p[2]]]
    \/ key[s[p[1]]] = key[s[p[2]]] /\ p[1] < p[2]}))

Stamped(records) == Kept(records, {i \in DOMAIN records : records[i].stamp # 0})
Unstamped(records) == Kept(records, {i \in DOMAIN records : records[i].stamp = 0})

\* Faulty: records of the same time are returned as they were listed.
OrderByStamp(records) ==
  StableSort(Stamped(records), AgeOf) \o StableSort(Unstamped(records), IdOf)

OrderRecords(records) ==
  StableSort(StableSort(Stamped(records), IdOf), AgeOf)
    \o StableSort(Unstamped(records), IdOf)

\* A slice of a list ends with the list.
Paginate(records, limit, first) ==
  SubSeq(records, first + 1, IF first + limit < Len(records) THEN first + limit
                                                             ELSE Len(records))

-----------------------------------------------------------------------------
PagesInit ==
  /\ listing \in {s \in SeqOf(Record, MaxRecords) :
                    \A i, j \in DOMAIN s : s[i].id = s[j].id => i = j}
  /\ offset = 0 /\ received = <<>>

\* The same records are listed in another order.
Relist ==
  /\ \E i, j \in DOMAIN listing :
       i < j /\ listing' = [listing EXCEPT ![i] = listing[j], ![j] = listing[i]]
  /\ UNCHANGED <<offset, received>>

\* The device asks for the next page, of any size, until it is past the last record.
AskPage(limit) ==
  /\ offset <= Len(listing)
  /\ received' = received \o Paginate(OrderRecords(listing), limit, offset)
  /\ offset' = offset + limit
  /\ UNCHANGED listing

PagesNext == Relist \/ \E limit \in 1 .. MaxLimit : AskPage(limit)

PagesSpec == PagesInit /\ [][PagesNext]_pagesVars

-----------------------------------------------------------------------------
Sooner(q, r) == q.stamp > r.stamp \/ (q.stamp = r.stamp /\ q.id < r.id)

\* "Deterministic order: updated_at DESC, then id ASC", records without at the end
\* (normalize.py): whatever order they are listed in, before each of the requests,
\* the pages contain no record twice and, up to the offset, skip none.
PagesComplete ==
  /\ \A m, n \in DOMAIN received : m < n => Sooner(received[m], received[n])
  /\ ToSet(received) \subseteq ToSet(listing)
  /\ \A r \in ToSet(listing) \ ToSet(received) :
       Len(received) = offset /\ \A q \in ToSet(received) : Sooner(q, r)
=============================================================================
