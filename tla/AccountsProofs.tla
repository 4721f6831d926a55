---------------------------- MODULE AccountsProofs ----------------------------
(***************************************************************************)
(* Proofs about Accounts and the cache it is read through, for any keys,   *)
(* requests, writes and failures: a stale value has a cause, and two       *)
(* default accounts take two requests at a time.                           *)
(***************************************************************************)
EXTENDS Accounts, FiniteSetTheorems, TLAPS

-----------------------------------------------------------------------------
(* The inductive invariant.                                                *)

\* A request that is handled has a key, and one that changes an account has that
\* of an account.
Sound(r) ==
    /\ r \in RequestType
    /\ r.pc # "idle" => r.key \in Key
    /\ r.pc \in {"others", "account"} => r.key \in Account

\* One of a reader or of a writer that does not touch accounts.
Plain(r) == Sound(r) /\ r.pc \notin {"others", "account"}

RequestsSound == \A q \in Request : Sound(request[q])

\* One request at a time makes an account the default, and no other account is
\* the default then.
OneAtATime ==
    /\ \A a, b \in default : a = b
    /\ \A q \in Request : MakesDefault(q) => default \subseteq {request[q].key}
    /\ \A p, q \in Request : MakesDefault(p) /\ MakesDefault(q) => p = q

Inv == TypeOK /\ RequestsSound /\ StaleHasCause /\ (crowded \/ OneAtATime)

\* Nothing is kept of a request that has been answered.
LEMMA IdlePlain == Plain(NoRequest) /\ NoRequest.pc = "idle"
  BY CacheAssumption DEF NoRequest, RequestType, Pcs, Version, Plain, Sound

\* Initially nothing is stored and no request is handled.
LEMMA InitInv == Init => Inv
<1> SUFFICES ASSUME Init PROVE Inv
  OBVIOUS
<1> USE CacheAssumption, AccountsAssumption DEF Init, CacheInit
<1>1. RequestsSound /\ request \in [Request -> RequestType]
  BY IdlePlain DEF Plain, Sound, RequestsSound
<1>2. TypeOK
  <2>1. /\ row \in [Key -> Version] /\ writes \in Version /\ failures \in 0 .. MaxFailures
        /\ cached \in [Key -> Version \union {None}]
    BY DEF Version
  <2>2. /\ connected \in BOOLEAN /\ crowded \in BOOLEAN
        /\ excused \subseteq Key /\ default \subseteq Account
    OBVIOUS
  <2> QED
    BY <1>1, <2>1, <2>2 DEF TypeOK, CacheTypes
<1>3. StaleHasCause /\ OneAtATime
  BY DEF StaleHasCause, Stale, OneAtATime, MakesDefault, At, NoRequest
<1> QED
  BY <1>1, <1>2, <1>3 DEF Inv

-----------------------------------------------------------------------------
(* What the steps do to requests.                                          *)

\* The request of a reader or a writer of key k.
LEMMA BegunPlain ==
  ASSUME NEW k \in Key, NEW pc \in {"fetch", "put", "drop"}
  PROVE  LET r == [NoRequest EXCEPT !.pc = pc, !.key = k] IN Plain(r) /\ r.pc = pc /\ r.key = k
<1> DEFINE r == [NoRequest EXCEPT !.pc = pc, !.key = k]
<1>1. NoRequest \in RequestType
  BY IdlePlain DEF Plain, Sound
<1>2. r \in RequestType /\ r.pc = pc /\ r.key = k
  BY <1>1 DEF RequestType, Pcs
<1> QED
  BY <1>2 DEF Plain, Sound

\* A write moves its request to an answer, or to the delete of the key.
LEMMA WriteRowPlain ==
  ASSUME NEW q \in Request, NEW k \in Key, NEW version, NEW drops \in BOOLEAN,
         WriteRow(q, k, version, drops)
  PROVE  \E r : Plain(r) /\ Become(q, r)
<1>1. CASE drops
  BY <1>1, BegunPlain DEF WriteRow
<1>2. CASE ~drops
  BY <1>2, IdlePlain DEF WriteRow, Respond
<1> QED
  BY <1>1, <1>2

\* A write stores a version of the type.
LEMMA NewVersionTyped ==
  ASSUME TypeOK, NEW k \in Key, NEW v, NewVersion(k, v)
  PROVE  v \in Version /\ writes' \in Version
  BY CacheAssumption DEF NewVersion, TypeOK, CacheTypes, Version

\* A reader that has found a row goes on to store it.
LEMMA FetchPlain ==
  ASSUME TypeOK, RequestsSound, NEW q \in Request, Fetch(q)
  PROVE  \E r : Plain(r) /\ Become(q, r)
<1> DEFINE k == request[q].key
           r == [request[q] EXCEPT !.pc = "put", !.value = row[k]]
<1>1. CASE Absent(k)
  BY <1>1, IdlePlain DEF Fetch, Respond
<1>2. CASE ~Absent(k)
  <2>1. request[q] \in RequestType /\ k \in Key
    BY DEF RequestsSound, Sound, Fetch, At
  <2>2. row[k] \in Version
    BY <2>1 DEF TypeOK, CacheTypes
  <2>3. r \in RequestType /\ r.pc = "put" /\ r.key = k
    BY <2>1, <2>2 DEF RequestType, Pcs
  <2>4. Plain(r)
    BY <2>1, <2>3 DEF Plain, Sound
  <2> QED
    BY <1>2, <2>4 DEF Fetch
<1> QED
  BY <1>1, <1>2

\* A step of the cache leaves the requests alone, or moves one to a plain state.
LEMMA CacheMoves ==
  ASSUME TypeOK, RequestsSound, CacheNext(Account)
  PROVE  UNCHANGED request \/ \E q \in Request : \E r : Plain(r) /\ Become(q, r)
<1>1. ASSUME NEW q \in Request, NEW k \in Key, Hit(q, k) PROVE UNCHANGED request
  BY <1>1 DEF Hit, cacheVars
<1>2. ASSUME NEW q \in Request, NEW k \in Key, Miss(q, k) PROVE \E r : Plain(r) /\ Become(q, r)
  BY <1>2, BegunPlain DEF Miss
<1>3. ASSUME NEW q \in Request, NEW k \in Key \ Account, NEW version \in Version,
             NEW drops \in BOOLEAN, Write(q, k, version, drops)
      PROVE  \E r : Plain(r) /\ Become(q, r)
  BY <1>3, WriteRowPlain DEF Write
<1>4. ASSUME NEW q \in Request, Put(q) \/ Drop(q) \/ RequestFails(q)
      PROVE  \E r : Plain(r) /\ Become(q, r)
  BY <1>4, IdlePlain DEF Put, Drop, RequestFails, Respond
<1>5. ASSUME (\E k \in Key : Expire(k)) \/ Connect \/ Disconnect PROVE UNCHANGED request
  BY <1>5 DEF Expire, Connect, Disconnect
<1> QED
  BY <1>1, <1>2, <1>3, <1>4, <1>5, FetchPlain DEF CacheNext

\* The steps of Accounts move a request to a sound state.
LEMMA AccountMoves ==
  ASSUME TypeOK, RequestsSound, NEW q \in Request,
         \/ \E a \in Account, makeDefault \in BOOLEAN : Submit(q, a, makeDefault)
         \/ ClearOthers(q) \/ Refused(q)
         \/ \E version \in Version : StoreAccount(q, version)
         \/ \E a \in Account : DeleteAccount(q, a)
  PROVE  \E r : Sound(r) /\ Become(q, r)
<1> USE CacheAssumption, AccountsAssumption
<1>1. ASSUME NEW a \in Account, NEW makeDefault \in BOOLEAN, Submit(q, a, makeDefault)
      PROVE  \E r : Sound(r) /\ Become(q, r)
  <2> DEFINE r == [NoRequest EXCEPT !.key = a, !.value = row[a], !.default = makeDefault,
                       !.pc = IF makeDefault THEN "others" ELSE "account"]
  <2>1. row[a] \in Version /\ a \in Key
    BY DEF TypeOK, CacheTypes
  <2>2. r \in RequestType /\ r.key = a
    BY <2>1 DEF RequestType, NoRequest, Pcs
  <2>3. Sound(r)
    BY <2>1, <2>2 DEF Sound
  <2> QED
    BY <1>1, <2>3 DEF Submit
<1>2. ASSUME ClearOthers(q) PROVE \E r : Sound(r) /\ Become(q, r)
  <2> DEFINE r == [request[q] EXCEPT !.pc = "account"]
  <2>1. Sound(request[q]) /\ request[q].pc = "others"
    BY <1>2 DEF RequestsSound, ClearOthers, At
  <2>2. r \in RequestType /\ r.key = request[q].key
    BY <2>1 DEF Sound, RequestType, Pcs
  <2>3. Sound(r)
    BY <2>1, <2>2 DEF Sound
  <2> QED
    BY <1>2, <2>3 DEF ClearOthers
<1>3. ASSUME Refused(q) PROVE \E r : Sound(r) /\ Become(q, r)
  BY <1>3, IdlePlain DEF Refused, Respond, Plain
<1>4. ASSUME NEW version \in Version, StoreAccount(q, version)
      PROVE  \E r : Sound(r) /\ Become(q, r)
  BY <1>4, IdlePlain DEF StoreAccount, WriteRow, Respond, Plain
<1>5. ASSUME NEW a \in Account, DeleteAccount(q, a) PROVE \E r : Sound(r) /\ Become(q, r)
  BY <1>5, IdlePlain DEF DeleteAccount, WriteRow, Respond, Plain
<1> QED
  BY <1>1, <1>2, <1>3, <1>4, <1>5

\* Requests stay sound.
LEMMA RequestsStep ==
  TypeOK /\ RequestsSound /\ [Next]_vars => RequestsSound' /\ request' \in [Request -> RequestType]
<1> SUFFICES ASSUME TypeOK, RequestsSound, [Next]_vars
             PROVE  RequestsSound' /\ request' \in [Request -> RequestType]
  OBVIOUS
<1>1. UNCHANGED request \/ \E q \in Request : \E r : Sound(r) /\ Become(q, r)
  BY CacheMoves, AccountMoves DEF Next, Plain, vars, cacheVars
<1>2. request \in [Request -> RequestType]
  BY DEF TypeOK, CacheTypes
<1>3. ASSUME NEW q \in Request, NEW r, Sound(r), Become(q, r)
      PROVE  RequestsSound' /\ request' \in [Request -> RequestType]
  BY <1>2, <1>3 DEF RequestsSound, Sound, Become
<1> QED
  BY <1>1, <1>2, <1>3 DEF RequestsSound
-----------------------------------------------------------------------------
(* The invariant is kept.                                                  *)

\* Every step keeps the types.
LEMMA TypeStep == TypeOK /\ RequestsSound /\ [Next]_vars => TypeOK'
<1> SUFFICES ASSUME TypeOK, RequestsSound, [Next]_vars PROVE TypeOK'
  OBVIOUS
<1> USE CacheAssumption, AccountsAssumption
<1>r. request' \in [Request -> RequestType]
  BY RequestsStep
<1>t. /\ row \in [Key -> Version] /\ writes \in Version
      /\ cached \in [Key -> Version \union {None}]
      /\ connected \in BOOLEAN /\ failures \in 0 .. MaxFailures
      /\ excused \subseteq Key /\ default \subseteq Account /\ crowded \in BOOLEAN
  BY DEF TypeOK, CacheTypes
<1>f. Fails => failures' \in 0 .. MaxFailures
  BY <1>t DEF Fails, CanFail
<1>q. ASSUME NEW q \in Request
      PROVE  /\ request[q].pc # "idle" => request[q].key \in Key
             /\ request[q].pc = "account" => request[q].key \in Account
             /\ request[q].value \in Version
  BY DEF RequestsSound, Sound, RequestType
<1>1. ASSUME NEW q \in Request, NEW k \in Key, Hit(q, k) \/ Miss(q, k),
             UNCHANGED <<default, crowded>>
      PROVE  TypeOK'
  BY <1>1, <1>r, <1>t, <1>f DEF Hit, Miss, TypeOK, CacheTypes, cacheVars
<1>2. ASSUME NEW q \in Request, NEW k \in Key, NEW v \in Version, NEW drops \in BOOLEAN,
             NewVersion(k, v), WriteRow(q, k, v, drops),
             UNCHANGED <<cached, connected, failures>>, default' \subseteq Account,
             crowded' \in BOOLEAN
      PROVE  TypeOK'
  <2>1. writes' \in Version
    BY <1>2, NewVersionTyped
  <2>2. row' \in [Key -> Version] /\ excused' \subseteq Key
    BY <1>2, <1>t DEF WriteRow
  <2> QED
    BY <1>2, <1>r, <1>t, <2>1, <2>2 DEF TypeOK, CacheTypes
<1>3. ASSUME NEW q \in Request, Put(q) \/ Drop(q), UNCHANGED <<default, crowded>>
      PROVE  TypeOK'
  <2>1. request[q].key \in Key /\ request[q].value \in Version
    BY <1>3, <1>q DEF Put, Drop, At
  <2>2. cached' \in [Key -> Version \union {None}] /\ excused' \subseteq Key
    BY <1>3, <1>t, <2>1 DEF Put, Drop
  <2>3. failures' \in 0 .. MaxFailures
    BY <1>3, <1>t, <1>f DEF Put, Drop
  <2> QED
    BY <1>3, <1>r, <1>t, <2>2, <2>3 DEF Put, Drop, TypeOK, CacheTypes
<1>4. ASSUME NEW q \in Request, Fetch(q) \/ RequestFails(q), UNCHANGED <<default, crowded>>
      PROVE  TypeOK'
  <2>1. excused' \subseteq Key
    BY <1>4, <1>t, <1>q DEF Fetch, RequestFails, At
  <2> QED
    BY <1>4, <1>r, <1>t, <1>f, <2>1 DEF Fetch, RequestFails, TypeOK, CacheTypes
<1>5. ASSUME (\E k \in Key : Expire(k)) \/ Connect \/ Disconnect, UNCHANGED <<default, crowded>>
      PROVE  TypeOK'
  <2>1. CASE \E k \in Key : Expire(k)
    BY <1>5, <2>1, <1>r, <1>t DEF Expire, TypeOK, CacheTypes
  <2>2. CASE Connect
    BY <1>5, <2>2, <1>r, <1>t DEF Connect, TypeOK, CacheTypes
  <2>3. CASE Disconnect
    BY <1>5, <2>3, <1>r, <1>t, <1>f DEF Disconnect, TypeOK, CacheTypes
  <2> QED
    BY <1>5, <2>1, <2>2, <2>3
<1>6. ASSUME CacheNext(Account), UNCHANGED <<default, crowded>> PROVE TypeOK'
  <2>1. ASSUME NEW q \in Request, NEW k \in Key \ Account, NEW v \in Version,
               NEW drops \in BOOLEAN, Write(q, k, v, drops)
        PROVE  TypeOK'
    BY <2>1, <1>2, <1>6, <1>t DEF Write
  <2> QED
    BY <1>1, <1>3, <1>4, <1>5, <1>6, <2>1 DEF CacheNext
<1>7. ASSUME NEW q \in Request, NEW a \in Account, NEW makeDefault \in BOOLEAN,
             Submit(q, a, makeDefault)
      PROVE  TypeOK'
  BY <1>7, <1>r, <1>t DEF Submit, TypeOK, CacheTypes
<1>8. ASSUME NEW q \in Request, ClearOthers(q) \/ Refused(q) PROVE TypeOK'
  <2>1. crowded' \in BOOLEAN /\ default' \subseteq Account
    BY <1>8, <1>t DEF ClearOthers, Refused
  <2> QED
    BY <1>8, <1>r, <1>t, <2>1 DEF ClearOthers, Refused, TypeOK, CacheTypes
<1>9. ASSUME NEW q \in Request, NEW v \in Version, StoreAccount(q, v) PROVE TypeOK'
  <2>1. request[q].key \in Account
    BY <1>9, <1>q DEF StoreAccount, At
  <2>2. default' \subseteq Account
    BY <1>9, <1>t, <2>1 DEF StoreAccount
  <2>3. crowded' \in BOOLEAN
    BY <1>9, <1>t DEF StoreAccount
  <2> QED
    BY <1>2, <1>9, <2>1, <2>2, <2>3 DEF StoreAccount
<1>10. ASSUME NEW q \in Request, NEW a \in Account, DeleteAccount(q, a) PROVE TypeOK'
  <2>1. 0 \in Version /\ a \in Key
    BY DEF Version
  <2>2. default' \subseteq Account /\ crowded' \in BOOLEAN
    BY <1>10, <1>t DEF DeleteAccount
  <2> QED
    BY <1>2, <1>10, <2>1, <2>2 DEF DeleteAccount
<1>11. CASE UNCHANGED vars
  BY <1>11, <1>r, <1>t DEF vars, cacheVars, TypeOK, CacheTypes
<1> QED
  BY <1>6, <1>7, <1>8, <1>9, <1>10, <1>11 DEF Next

\* What holds of the keys of a write: the key that changes is stale with a cause,
\* and the others are as they were.
LEMMA WriteStale ==
  ASSUME TypeOK, StaleHasCause, NEW q \in Request, NEW k \in Key, NEW v, NEW drops \in BOOLEAN,
         request[q].pc # "drop", WriteRow(q, k, v, drops), UNCHANGED cached
  PROVE  StaleHasCause'
<1>t. row \in [Key -> Version] /\ request \in [Request -> RequestType]
  BY DEF TypeOK, CacheTypes
<1> SUFFICES ASSUME NEW l \in Key, Stale(l)', l \notin excused'
             PROVE  \E p \in Request : request'[p].pc = "drop" /\ request'[p].key = l
  BY DEF StaleHasCause, At
<1>1. excused \subseteq excused'
  BY DEF WriteRow
<1>2. CASE l = k
  <2>1. drops
    BY <1>2 DEF WriteRow, Stale
  <2>2. request'[q] = [NoRequest EXCEPT !.pc = "drop", !.key = k]
    BY <1>t, <2>1 DEF WriteRow, Become
  <2> QED
    BY <1>2, <2>2 DEF NoRequest
<1>3. CASE l # k
  <2>1. Stale(l)
    BY <1>3, <1>t DEF WriteRow, Stale
  <2>2. PICK p \in Request : request[p].pc = "drop" /\ request[p].key = l
    BY <1>1, <2>1 DEF StaleHasCause, At
  <2>3. request'[p] = request[p]
    BY <1>t, <2>2 DEF WriteRow, Respond, Become
  <2> QED
    BY <2>2, <2>3
<1> QED
  BY <1>2, <1>3

\* A step that changes no row and stores nothing keeps the causes, if the request
\* it moves was not about to delete a key.
LEMMA QuietStale ==
  ASSUME TypeOK, StaleHasCause, NEW q \in Request, request[q].pc # "drop",
         UNCHANGED request \/ \E r : Become(q, r),
         UNCHANGED <<row, cached, excused>>
  PROVE  StaleHasCause'
<1> SUFFICES ASSUME NEW l \in Key, Stale(l)', l \notin excused'
             PROVE  \E p \in Request : request'[p].pc = "drop" /\ request'[p].key = l
  BY DEF StaleHasCause, At
<1>1. PICK p \in Request : request[p].pc = "drop" /\ request[p].key = l
  BY DEF StaleHasCause, At, Stale
<1>2. request'[p] = request[p]
  BY <1>1 DEF Become, TypeOK, CacheTypes
<1> QED
  BY <1>1, <1>2

\* A step that ends a request, whose key it leaves in order or excused, keeps
\* the causes of the other keys.
LEMMA EndStale ==
  ASSUME TypeOK, StaleHasCause, NEW q \in Request, Respond(q), UNCHANGED row,
         NEW k, k = request[q].key,
         \A l \in Key : l # k => cached'[l] = cached[l] /\ (l \in excused => l \in excused'),
         \/ request[q].pc # "drop" /\ cached' = cached /\ excused' = excused
         \/ k \in excused' \/ ~Stale(k)'
  PROVE  StaleHasCause'
<1> SUFFICES ASSUME NEW l \in Key, Stale(l)', l \notin excused'
             PROVE  \E p \in Request : request'[p].pc = "drop" /\ request'[p].key = l
  BY DEF StaleHasCause, At
<1>1. CASE request[q].pc # "drop" /\ cached' = cached /\ excused' = excused
  <2>1. StaleHasCause'
    BY <1>1, QuietStale DEF Respond
  <2> QED
    BY <2>1 DEF StaleHasCause, At
<1>2. CASE k \in excused' \/ ~Stale(k)'
  <2>1. l # k
    BY <1>2
  <2>2. Stale(l) /\ l \notin excused
    BY <2>1 DEF Stale
  <2>3. PICK p \in Request : request[p].pc = "drop" /\ request[p].key = l
    BY <2>2 DEF StaleHasCause, At
  <2>4. request'[p] = request[p]
    BY <2>1, <2>3 DEF Respond, Become, TypeOK, CacheTypes
  <2> QED
    BY <2>3, <2>4
<1> QED
  BY <1>1, <1>2

\* Every step keeps the causes of stale values.
LEMMA StaleStep == TypeOK /\ RequestsSound /\ StaleHasCause /\ [Next]_vars => StaleHasCause'
<1> SUFFICES ASSUME TypeOK, RequestsSound, StaleHasCause, [Next]_vars PROVE StaleHasCause'
  OBVIOUS
<1> USE CacheAssumption, AccountsAssumption
<1>t. /\ row \in [Key -> Version] /\ cached \in [Key -> Version \union {None}]
      /\ request \in [Request -> RequestType]
  BY DEF TypeOK, CacheTypes
<1>u. ASSUME UNCHANGED <<row, cached, excused, request>> PROVE StaleHasCause'
  BY <1>u DEF StaleHasCause, Stale, At
<1>1. ASSUME NEW q \in Request, NEW k \in Key, Hit(q, k) \/ Miss(q, k) PROVE StaleHasCause'
  <2>1. CASE Hit(q, k)
    BY <2>1, <1>u DEF Hit, cacheVars
  <2>2. CASE Miss(q, k)
    BY <2>2, QuietStale DEF Miss, At
  <2> QED
    BY <1>1, <2>1, <2>2
<1>2. ASSUME NEW q \in Request, NEW k \in Key \ Account, NEW v \in Version,
             NEW drops \in BOOLEAN, Write(q, k, v, drops)
      PROVE  StaleHasCause'
  BY <1>2, WriteStale DEF Write, At
<1>3. ASSUME NEW q \in Request, Fetch(q) PROVE StaleHasCause'
  <2>1. request[q].pc # "drop" /\ \E r : Become(q, r)
    BY <1>3 DEF Fetch, At, Respond
  <2> QED
    BY <1>3, <2>1, QuietStale DEF Fetch
<1>4. ASSUME NEW q \in Request, Put(q) PROVE StaleHasCause'
  <2>0. PICK k, v : k = request[q].key /\ v = request[q].value
    OBVIOUS
  <2>1. k \in Key /\ request[q].pc = "put"
    BY <1>4, <2>0 DEF Put, At, RequestsSound, Sound
  <2>2. CASE UNCHANGED <<cached, excused>>
    BY <1>4, <2>0, <2>1, <2>2, EndStale DEF Put
  <2>3. CASE /\ cached' = [cached EXCEPT ![k] = v]
             /\ excused' = IF v = row[k] THEN excused \ {k} ELSE excused \union {k}
    <3>1. k \in excused' \/ ~Stale(k)'
      BY <1>4, <1>t, <2>1, <2>3 DEF Put, Stale
    <3>2. \A l \in Key : l # k => cached'[l] = cached[l] /\ (l \in excused => l \in excused')
      BY <1>t, <2>3
    <3> QED
      BY <1>4, <2>0, <3>1, <3>2, EndStale DEF Put
  <2> QED
    BY <1>4, <2>0, <2>2, <2>3 DEF Put
<1>5. ASSUME NEW q \in Request, Drop(q) PROVE StaleHasCause'
  <2>0. PICK k : k = request[q].key
    OBVIOUS
  <2>1. k \in Key
    BY <1>5, <2>0 DEF Drop, At, RequestsSound, Sound
  <2>2. k \in excused' \/ ~Stale(k)'
    BY <1>5, <1>t, <2>0, <2>1 DEF Drop, Stale
  <2>3. \A l \in Key : l # k => cached'[l] = cached[l] /\ (l \in excused => l \in excused')
    BY <1>5, <1>t, <2>0 DEF Drop
  <2> QED
    BY <1>5, <2>0, <2>2, <2>3, EndStale DEF Drop
<1>6. ASSUME NEW q \in Request, RequestFails(q) PROVE StaleHasCause'
  BY <1>6, EndStale DEF RequestFails, At
<1>7. ASSUME NEW k \in Key, Expire(k) PROVE StaleHasCause'
  <2>1. ASSUME NEW l \in Key, Stale(l)' PROVE Stale(l) /\ l # k
    BY <1>7, <1>t, <2>1 DEF Expire, Stale
  <2> QED
    BY <1>7, <2>1 DEF Expire, StaleHasCause, At
<1>8. ASSUME Connect \/ Disconnect PROVE StaleHasCause'
  BY <1>8, <1>u DEF Connect, Disconnect
<1>9. ASSUME NEW q \in Request, NEW a \in Account, NEW makeDefault \in BOOLEAN,
             Submit(q, a, makeDefault)
      PROVE  StaleHasCause'
  BY <1>9, QuietStale DEF Submit, At
<1>10. ASSUME NEW q \in Request, ClearOthers(q) \/ Refused(q) PROVE StaleHasCause'
  <2>1. request[q].pc # "drop" /\ UNCHANGED <<row, cached, excused>> /\ \E r : Become(q, r)
    BY <1>10 DEF ClearOthers, Refused, Respond, At
  <2> QED
    BY <2>1, QuietStale
<1>11. ASSUME NEW q \in Request, NEW v \in Version, StoreAccount(q, v) PROVE StaleHasCause'
  <2>1. request[q].key \in Key /\ request[q].pc # "drop"
    BY <1>11 DEF StoreAccount, At, RequestsSound, Sound
  <2> QED
    BY <1>11, <2>1, WriteStale DEF StoreAccount
<1>12. ASSUME NEW q \in Request, NEW a \in Account, DeleteAccount(q, a) PROVE StaleHasCause'
  BY <1>12, WriteStale DEF DeleteAccount, At
<1>13. CASE UNCHANGED vars
  BY <1>13, <1>u DEF vars, cacheVars
<1> QED
  BY <1>1, <1>2, <1>3, <1>4, <1>5, <1>6, <1>7, <1>8, <1>9, <1>10, <1>11, <1>12, <1>13
     DEF Next, CacheNext

\* A step that makes no account the default, adds no flag and moves one request
\* to a state that makes none either, keeps OneAtATime.
LEMMA OneKept ==
  ASSUME TypeOK, OneAtATime, default' \subseteq default,
         \A q \in Request : MakesDefault(q)' => request'[q] = request[q]
  PROVE  OneAtATime'
<1>1. \A q \in Request : MakesDefault(q)' => MakesDefault(q) /\ request'[q].key = request[q].key
  BY DEF MakesDefault, At
<1> QED
  BY <1>1 DEF OneAtATime

\* Every step keeps a single default account, unless two requests make one at a
\* time.
LEMMA OneStep ==
  /\ TypeOK /\ RequestsSound /\ (crowded \/ OneAtATime) /\ [Next]_vars
  => (crowded \/ OneAtATime)'
<1> SUFFICES ASSUME TypeOK, RequestsSound, crowded \/ OneAtATime, [Next]_vars, ~crowded'
             PROVE  OneAtATime'
  OBVIOUS
<1>t. request \in [Request -> RequestType]
  BY DEF TypeOK, CacheTypes
<1>o. OneAtATime
  <2>1. crowded => crowded'
    BY DEF Next, Submit, ClearOthers, Refused, StoreAccount, DeleteAccount, vars
  <2> QED
    BY <2>1
<1>n. NoRequest.pc # "account"
  BY DEF NoRequest
<1>1. ASSUME CacheNext(Account), UNCHANGED <<default, crowded>> PROVE OneAtATime'
  <2>1. \A p \in Request : MakesDefault(p)' => request'[p] = request[p]
    BY <1>1, <1>t, CacheMoves DEF Plain, MakesDefault, At, Become
  <2> QED
    BY <1>1, <1>o, <2>1, OneKept
<1>2. ASSUME NEW q \in Request, NEW a \in Account, NEW makeDefault \in BOOLEAN,
             Submit(q, a, makeDefault)
      PROVE  OneAtATime'
  <2>1. ~MakesDefault(q)'
    BY <1>2, <1>t DEF Submit, Become, MakesDefault, At, NoRequest
  <2>2. \A p \in Request : MakesDefault(p)' => request'[p] = request[p]
    BY <1>2, <1>t, <2>1 DEF Submit, Become
  <2> QED
    BY <1>2, <1>o, <2>2, OneKept DEF Submit
<1>3. ASSUME NEW q \in Request, ClearOthers(q) PROVE OneAtATime'
  <2>1. \A p \in Request : p # q => ~MakesDefault(p)'
    BY <1>3, <1>t DEF ClearOthers, Become, MakesDefault, At
  <2>2. request'[q].key = request[q].key
    BY <1>3, <1>t DEF ClearOthers, Become
  <2>3. default' \subseteq {request[q].key}
    BY <1>3 DEF ClearOthers
  <2> QED
    BY <2>1, <2>2, <2>3 DEF OneAtATime
<1>4. ASSUME NEW q \in Request, Refused(q) PROVE OneAtATime'
  <2>1. \A p \in Request : MakesDefault(p)' => request'[p] = request[p]
    BY <1>4, <1>t, <1>n DEF Refused, Respond, Become, MakesDefault, At
  <2> QED
    BY <1>4, <1>o, <2>1, OneKept DEF Refused
<1>5. ASSUME NEW q \in Request, NEW v \in Version, StoreAccount(q, v) PROVE OneAtATime'
  <2>1. request' = [request EXCEPT ![q] = NoRequest]
    BY <1>5 DEF StoreAccount, WriteRow, Respond, Become
  <2>2. \A p \in Request : MakesDefault(p)' => p # q /\ request'[p] = request[p]
    BY <1>t, <1>n, <2>1 DEF MakesDefault, At
  <2>3. CASE request[q].default
    <3>1. MakesDefault(q)
      BY <1>5, <2>3 DEF StoreAccount, MakesDefault
    <3>2. \A p \in Request : ~MakesDefault(p)'
      BY <1>o, <2>2, <3>1 DEF OneAtATime, MakesDefault, At
    <3>3. default' \subseteq {request[q].key}
      BY <1>5, <1>o, <2>3, <3>1 DEF StoreAccount, OneAtATime
    <3> QED
      BY <3>2, <3>3 DEF OneAtATime
  <2>4. CASE ~request[q].default
    <3>1. default' \subseteq default
      BY <1>5, <2>4 DEF StoreAccount
    <3> QED
      BY <1>o, <2>2, <3>1, OneKept
  <2> QED
    BY <2>3, <2>4
<1>6. ASSUME NEW q \in Request, NEW a \in Account, DeleteAccount(q, a) PROVE OneAtATime'
  <2>1. request' = [request EXCEPT ![q] = NoRequest]
    BY <1>6 DEF DeleteAccount, WriteRow, Respond, Become
  <2>2. \A p \in Request : MakesDefault(p)' => request'[p] = request[p]
    BY <1>t, <1>n, <2>1 DEF MakesDefault, At
  <2> QED
    BY <1>6, <1>o, <2>2, OneKept DEF DeleteAccount
<1>7. CASE UNCHANGED vars
  BY <1>7, <1>o, OneKept DEF vars, cacheVars
<1> QED
  BY <1>1, <1>2, <1>3, <1>4, <1>5, <1>6, <1>7 DEF Next

\* The invariant is inductive.
LEMMA InvStep == Inv /\ [Next]_vars => Inv'
  BY TypeStep, RequestsStep, StaleStep, OneStep DEF Inv

\* The invariant holds in every state.
LEMMA InvAlways == Spec => []Inv
  BY InitInv, InvStep, PTL DEF Spec

-----------------------------------------------------------------------------
(* The theorems.                                                           *)

\* Requests, rows and cached values have the types of the code's records.
THEOREM TypesHold == Spec => []TypeOK
<1>1. Inv => TypeOK
  BY DEF Inv
<1> QED
  BY <1>1, InvAlways, PTL

\* CacheService never keeps an old value without a cause: a writer that has yet
\* to delete the key, one that does not, a lost delete, or a late store.
THEOREM NoStaleWithoutCause == Spec => []StaleHasCause
<1>1. Inv => StaleHasCause
  BY DEF Inv
<1> QED
  BY <1>1, InvAlways, PTL

\* An organization gets two default accounts only from two requests at a time.
THEOREM OneDefaultAccount == Spec => []OneDefault
<1>1. Inv => OneDefault
  <2> SUFFICES ASSUME Inv, ~crowded PROVE Cardinality(default) <= 1
    BY DEF OneDefault
  <2>1. \A a, b \in default : a = b
    BY DEF Inv, OneAtATime
  <2>2. CASE default = {}
    BY <2>2, FS_EmptySet
  <2>3. CASE default # {}
    <3>1. PICK a \in default : TRUE
      BY <2>3
    <3>2. default = {a}
      BY <2>1, <3>1
    <3> QED
      BY <3>2, FS_Singleton
  <2> QED
    BY <2>2, <2>3
<1> QED
  BY <1>1, InvAlways, PTL
=============================================================================
