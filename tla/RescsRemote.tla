----------------------------- MODULE RescsRemote ------------------------------
(***************************************************************************)
(* The R.E.S.C.S. HTTP adapter (core/rescs/adapter.py, HttpRescsAdapter):  *)
(* a client of a remote store that keeps a copy of what it wrote and       *)
(* answers from it when the store does not.                                *)
(*                                                                         *)
(* A call holds the lock of the adapter until it ends, so that calls do    *)
(* not overlap. A request that ends in a time-out may have reached the     *)
(* store, may be lost, or may reach it later, after other requests. What a *)
(* call notes of the health of the store is read by health() only, and is  *)
(* left out.                                                               *)
(***************************************************************************)
EXTENDS RescsTables

CONSTANTS
  Kinds,       \* the keys of resources, of runtimes and of devices
  Fallback     \* _fallback_enabled

\* What the constants are meant to be.
RemoteConstants ==
  /\ Fallback \in BOOLEAN /\ Absent \notin Values
  /\ DOMAIN Kinds = {"resources", "runtimes", "devices"}
  /\ Keys = UNION {Kinds[kind] : kind \in DOMAIN Kinds}

VARIABLES
  remote,      \* the records of the store
  local,       \* _fallback
  late,        \* requests that have timed out and are still on their way
  acked,       \* the value of each key in the last write that succeeded
  unsure       \* keys with a failed write since

remoteVars == <<remote, local, late, acked, unsure>>

RemoteInit ==
  /\ remote = Empty /\ local = Empty
  /\ late = {} /\ acked = Empty /\ unsure = {}

\* A request overwrites or deletes some keys of the store.
Set(table, request) ==
  [k \in Keys |-> IF k \in request.keys THEN request.value ELSE table[k]]

Request(keys, v) == [keys |-> keys, value |-> v]

Late(k) == \E request \in late : k \in request.keys

\* A key is certain again once a write of it succeeds that no other can overtake.
Acknowledge(keys, v) ==
  /\ acked' = Set(acked, Request(keys, v))
  /\ unsure' = unsure \ {k \in keys : ~Late(k)}

-----------------------------------------------------------------------------
(* persist_* and delete_*: POST and DELETE.                                *)

\* Faulty: the copy is written only if the store cannot be.
WriteThrough(k, v) ==
  /\ remote' = Set(remote, Request({k}, v))
  /\ Acknowledge({k}, v)
  /\ UNCHANGED <<local, late>>

WriteSucceeds(k, v) ==
  /\ local' = [local EXCEPT ![k] = v]
  /\ remote' = Set(remote, Request({k}, v))
  /\ Acknowledge({k}, v)
  /\ UNCHANGED late

\* The caller is told only if there is no fallback.
WriteFails(k, v) ==
  /\ local' = [local EXCEPT ![k] = v]
  /\ unsure' = unsure \cup {k} /\ UNCHANGED acked
  /\ \/ UNCHANGED <<remote, late>>
     \/ remote' = Set(remote, Request({k}, v)) /\ UNCHANGED late
     \/ late' = late \cup {Request({k}, v)} /\ UNCHANGED remote

LateArrives ==
  \E request \in late :
    /\ remote' = Set(remote, request)
    /\ late' = late \ {request}
    /\ UNCHANGED <<local, acked, unsure>>

\* What happens at the store without this adapter.
RemoteChanges(k, v) ==
  /\ remote' = [remote EXCEPT ![k] = v] /\ unsure' = unsure \cup {k}
  /\ UNCHANGED <<local, late, acked>>

-----------------------------------------------------------------------------
(* clear: POST /clear, or else one DELETE for each kind, of which the last *)
(* may fail unnoticed.                                                     *)

ClearSucceeds ==
  /\ local' = Empty /\ remote' = Empty
  /\ Acknowledge(Keys, Absent)
  /\ UNCHANGED late

KeysOf(kinds) == UNION {Kinds[kind] : kind \in kinds}

\* In the order of the requests.
Progress == {{}, {"resources"}, {"resources", "runtimes"}, DOMAIN Kinds}

\* The request that fails may be carried out, as may the POST: at once or later.
ClearByKind(deleted, done) ==
  /\ deleted \subseteq done
  /\ local' = Empty
  /\ remote' = Set(remote, Request(KeysOf(done), Absent))
  /\ late' \in {late, late \cup {Request(Keys, Absent)}}
  /\ acked' = Set(acked, Request(KeysOf(deleted), Absent))
  /\ unsure' = (Keys \ KeysOf(deleted)) \cup {k \in Keys : Late(k)'}

-----------------------------------------------------------------------------
(* fetch_* and list_* change nothing.                                      *)

\* What a fetch can return if the store answers, and if it does not: without a
\* fallback it raises.
Found(k) == IF remote[k] = Absent /\ Fallback THEN local[k] ELSE remote[k]
NotReached(k) == IF Fallback THEN {local[k]} ELSE {}

Fetched(k) == {Found(k)} \cup NotReached(k)

\* A list is answered from the copy if the store does not, with or without a
\* fallback.
Listed == {remote, local}

RemoteNext ==
  \/ \E k \in Keys, v \in Values \cup {Absent} :
       WriteSucceeds(k, v) \/ WriteFails(k, v) \/ RemoteChanges(k, v)
  \/ LateArrives
  \/ ClearSucceeds \/ \E deleted, done \in Progress : ClearByKind(deleted, done)

RemoteSpec == RemoteInit /\ [][RemoteNext]_remoteVars

-----------------------------------------------------------------------------
RemoteOK ==
  /\ {remote, local, acked} \subseteq Tables
  /\ unsure \subseteq Keys
  /\ late \subseteq [keys : SUBSET Keys, value : Values \cup {Absent}]

\* "When the endpoint is unreachable the adapter falls back to an in-memory cache
\* so local operation is undisturbed" (the adapter's docstring): whether the store
\* answers or not, a record that was written, or deleted, by a call that succeeded
\* is read as it was written, by a fetch and in a list. Only a later failure, or
\* somebody else's change of the same record, makes the two copies differ.
ReadYourWrites ==
  /\ RemoteOK
  /\ \A k \in Keys \ unsure :
       Fetched(k) \cup {table[k] : table \in Listed} = {acked[k]}
=============================================================================
