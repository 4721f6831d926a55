------------------------------ MODULE CacheAside ------------------------------
(***************************************************************************)
(* What CacheService keeps in Redis of rows of the database, and the       *)
(* routes that read through it and that change the rows.  A key stands for *)
(* one cached query: the webhooks or the tags of an organization, the      *)
(* settings of a tenant, the profile of a user, a WhatsApp account.        *)
(*                                                                         *)
(* Readers store what they fetched, with a time to live; writers change    *)
(* the row and then delete the key, or leave it to its time to live.  A    *)
(* step is one call of one request.  A call of the database may fail and   *)
(* ends the request; a call of Redis may fail, or is not made while the    *)
(* connection is down, and the request goes on: CacheService catches it.   *)
(***************************************************************************)
EXTENDS Naturals, FiniteSets

CONSTANTS
    Key,
    Dropped,      \* keys that every writer of the rows deletes
    Kept,         \* keys that no writer deletes
    Single,       \* keys of one row, which there may not be; the others are lists
                  \* of rows, or rows that are always there
    Request,      \* requests handled at a time
    MaxWrites,    \* bound on writes
    MaxFailures,  \* bound on failing calls and lost connections
    None

ASSUME CacheAssumption ==
    /\ Dropped \subseteq Key /\ Kept \subseteq Key /\ Dropped \intersect Kept = {}
    /\ Single \subseteq Key
    /\ MaxWrites \in Nat /\ MaxFailures \in Nat
    /\ None \notin Key \union Nat

VARIABLES
    row,        \* version of what the database holds for a key
    writes,     \* versions so far
    cached,     \* the version stored in Redis, or None
    connected,  \* CacheService.isConnected
    request,    \* progress of every request
    failures,   \* failed calls and lost connections so far
    excused     \* observed: keys whose stale value has a cause (see Put, Drop)

cacheVars == <<row, writes, cached, connected, request, failures, excused>>

Version == 0 .. MaxWrites
Pcs == {"idle", "fetch", "put", "drop", "others", "account"}
\* A request keeps its key, the version it fetched, and of an account (module
\* Accounts) whether it is to be the default one.
RequestType == [pc: Pcs, key: Key \union {None}, value: Version, default: BOOLEAN]
NoRequest == [pc |-> "idle", key |-> None, value |-> 0, default |-> FALSE]

CacheInit ==
    /\ row = [k \in Key |-> 0]
    /\ writes = 0
    /\ cached = [k \in Key |-> None]
    /\ connected = FALSE
    /\ request = [q \in Request |-> NoRequest]
    /\ failures = 0
    /\ excused = {}

At(q, pc) == request[q].pc = pc
Become(q, r) == request' = [request EXCEPT ![q] = r]
Respond(q) == Become(q, NoRequest)
CanFail == failures < MaxFailures
Fails == CanFail /\ failures' = failures + 1
Absent(k) == k \in Single /\ row[k] = 0
Stale(k) == cached[k] # None /\ cached[k] # row[k]

-----------------------------------------------------------------------------
(* Reading through the cache.                                              *)

\* Mutant of Hit: what was found is stored again, for another time to live.
HitRenews(q, k) ==
    /\ At(q, "idle")
    /\ connected /\ cached[k] # None
    /\ Become(q, [NoRequest EXCEPT !.pc = "put", !.key = k, !.value = cached[k]])
    /\ UNCHANGED <<row, writes, cached, connected, failures, excused>>

Hit(q, k) ==
    /\ At(q, "idle")
    /\ connected /\ cached[k] # None
    /\ UNCHANGED cacheVars

\* Nothing stored, no connection, or an error that was caught.
Miss(q, k) ==
    /\ At(q, "idle")
    /\ Become(q, [NoRequest EXCEPT !.pc = "fetch", !.key = k])
    /\ \/ (~connected \/ cached[k] = None) /\ UNCHANGED failures
       \/ connected /\ cached[k] # None /\ Fails
    /\ UNCHANGED <<row, writes, cached, connected, excused>>

\* What is not found is not stored.
Fetch(q) ==
    /\ At(q, "fetch")
    /\ LET k == request[q].key IN
       IF Absent(k) THEN Respond(q)
       ELSE Become(q, [request[q] EXCEPT !.pc = "put", !.value = row[k]])
    /\ UNCHANGED <<row, writes, cached, connected, failures, excused>>

\* What was fetched before a write is stored, also after the write has deleted
\* the key; then nothing will delete it but its time to live.
Put(q) ==
    /\ At(q, "put")
    /\ LET k == request[q].key  v == request[q].value IN
       \/ /\ connected
          /\ cached' = [cached EXCEPT ![k] = v]
          /\ excused' = IF v = row[k] THEN excused \ {k} ELSE excused \union {k}
          /\ UNCHANGED failures
       \/ /\ ~connected /\ UNCHANGED <<cached, failures, excused>>
       \/ /\ connected /\ Fails /\ UNCHANGED <<cached, excused>>
    /\ Respond(q)
    /\ UNCHANGED <<row, writes, connected>>

-----------------------------------------------------------------------------
(* Writing.                                                                *)

\* A write of the rows behind key k, which deletes the key next or not at all.
WriteRow(q, k, version, drops) ==
    /\ row' = [row EXCEPT ![k] = version]
    /\ excused' = IF drops \/ cached[k] = None THEN excused ELSE excused \union {k}
    /\ IF drops THEN Become(q, [NoRequest EXCEPT !.pc = "drop", !.key = k]) ELSE Respond(q)

\* A version not seen before, or no row (0) where there was one.
NewVersion(k, v) ==
    /\ v = writes + 1 \/ (v = 0 /\ k \in Single /\ row[k] # 0)
    /\ writes < MaxWrites
    /\ writes' = writes + 1

\* Mutant of Write: the route forgets the key.
WriteOnly(q, k, version, drops) ==
    /\ At(q, "idle")
    /\ drops => k \notin Kept
    /\ ~drops => k \notin Dropped
    /\ NewVersion(k, version)
    /\ row' = [row EXCEPT ![k] = version]
    /\ Respond(q)
    /\ UNCHANGED <<cached, connected, failures, excused>>

Write(q, k, version, drops) ==
    /\ At(q, "idle")
    /\ drops => k \notin Kept
    /\ ~drops => k \notin Dropped
    /\ NewVersion(k, version)
    /\ WriteRow(q, k, version, drops)
    /\ UNCHANGED <<cached, connected, failures>>

\* Without a connection, or after an error, the key stays, and nobody knows.
Drop(q) ==
    /\ At(q, "drop")
    /\ LET k == request[q].key IN
       \/ /\ connected
          /\ cached' = [cached EXCEPT ![k] = None]
          /\ excused' = excused \ {k}
          /\ UNCHANGED failures
       \/ /\ ~connected
          /\ excused' = excused \union {k}
          /\ UNCHANGED <<cached, failures>>
       \/ /\ connected /\ Fails
          /\ excused' = excused \union {k}
          /\ UNCHANGED cached
    /\ Respond(q)
    /\ UNCHANGED <<row, writes, connected>>

-----------------------------------------------------------------------------
(* Redis.                                                                  *)

Expire(k) ==
    /\ cached[k] # None
    /\ cached' = [cached EXCEPT ![k] = None]
    /\ excused' = excused \ {k}
    /\ UNCHANGED <<row, writes, connected, request, failures>>

Connect ==
    /\ ~connected
    /\ connected' = TRUE
    /\ UNCHANGED <<row, writes, cached, request, failures, excused>>

Disconnect ==
    /\ connected /\ Fails
    /\ connected' = FALSE
    /\ UNCHANGED <<row, writes, cached, request, excused>>

\* An error of the database, or the server stops, ends a request; a row that
\* was written without its key being deleted stays so.
RequestFails(q) ==
    /\ ~At(q, "idle") /\ Fails
    /\ excused' = IF At(q, "drop") THEN excused \union {request[q].key} ELSE excused
    /\ Respond(q)
    /\ UNCHANGED <<row, writes, cached, connected>>

\* The steps of requests, of any key that is not in `except`, and of Redis.
CacheNext(except) ==
    \/ \E q \in Request, k \in Key : Hit(q, k) \/ Miss(q, k)
    \/ \E q \in Request, k \in Key \ except, version \in Version, drops \in BOOLEAN :
          Write(q, k, version, drops)
    \/ \E q \in Request : Fetch(q) \/ Put(q) \/ Drop(q) \/ RequestFails(q)
    \/ \E k \in Key : Expire(k)
    \/ Connect \/ Disconnect
-----------------------------------------------------------------------------
CacheTypes ==
    /\ row \in [Key -> Version]
    /\ writes \in Version
    /\ cached \in [Key -> Version \union {None}]
    /\ connected \in BOOLEAN
    /\ request \in [Request -> RequestType]
    /\ failures \in 0 .. MaxFailures
    /\ excused \subseteq Key

\* What Redis holds is what the database holds, unless a writer has yet to
\* delete the key, its delete was lost, it does not delete it, or a reader
\* stored what it had fetched before.
StaleHasCause ==
    \A k \in Key : Stale(k) =>
        k \in excused \/ \E q \in Request : At(q, "drop") /\ request[q].key = k

\* However writes, reads and lost deletes fell together, once the rows no longer
\* change the time to live makes the cache true, and it stays true.
EventuallyFresh == <>[](\A k \in Key : ~Stale(k))
=============================================================================
