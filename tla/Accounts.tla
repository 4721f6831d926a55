------------------------------- MODULE Accounts -------------------------------
(***************************************************************************)
(* WhatsApp accounts of an organization: the routes that create, change    *)
(* and delete them, and the flag of the default one (isDefaultIncoming;    *)
(* isDefaultOutgoing is handled alike).  Callbacks look an account up by   *)
(* its phone id through the cache of module CacheAside, and none of these  *)
(* routes deletes the key.                                                 *)
(***************************************************************************)
EXTENDS CacheAside

CONSTANT Account   \* keys that are WhatsApp accounts

ASSUME AccountsAssumption == Account \subseteq Kept /\ Account \subseteq Single

VARIABLES
    default,   \* accounts with isDefaultIncoming
    crowded    \* observed: two requests made an account the default at a time

vars == <<cacheVars, default, crowded>>

Init == CacheInit /\ default = {} /\ crowded = FALSE

MakesDefault(q) == At(q, "account") /\ request[q].default

\* A create, or an update of an account that was found (`value` is not 0),
\* once its body is checked.
Submit(q, a, makeDefault) ==
    /\ At(q, "idle")
    /\ writes < MaxWrites
    /\ Become(q, [NoRequest EXCEPT !.key = a, !.value = row[a], !.default = makeDefault,
                      !.pc = IF makeDefault THEN "others" ELSE "account"])
    /\ UNCHANGED <<row, writes, cached, connected, failures, excused, default, crowded>>

\* Mutant of ClearOthers: the old default keeps the flag.
ClearNothing(q) ==
    /\ At(q, "others")
    /\ crowded' = (crowded \/ \E p \in Request : MakesDefault(p))
    /\ Become(q, [request[q] EXCEPT !.pc = "account"])
    /\ UNCHANGED <<row, writes, cached, connected, failures, excused, default>>

ClearOthers(q) ==
    /\ At(q, "others")
    /\ default' = default \intersect {request[q].key}
    /\ crowded' = (crowded \/ \E p \in Request : MakesDefault(p))
    /\ Become(q, [request[q] EXCEPT !.pc = "account"])
    /\ UNCHANGED <<row, writes, cached, connected, failures, excused>>

\* The row of an update is still there, that of a create still is not.
AsFound(q) == (request[q].value = 0) <=> Absent(request[q].key)

\* The call is refused: the account was deleted, or its name taken, meanwhile.
\* The others have lost their flag all the same.
Refused(q) ==
    /\ At(q, "account") /\ ~AsFound(q)
    /\ Respond(q)
    /\ UNCHANGED <<row, writes, cached, connected, failures, excused, default, crowded>>

\* An update may also take the flag away, or say nothing of it.
StoreAccount(q, version) ==
    /\ At(q, "account") /\ AsFound(q)
    /\ LET a == request[q].key IN
       /\ version # 0 /\ NewVersion(a, version)
       /\ WriteRow(q, a, version, FALSE)
       /\ IF request[q].default THEN default' = default \union {a}
          ELSE default' \in {default, default \ {a}}
    /\ UNCHANGED <<cached, connected, failures, crowded>>

DeleteAccount(q, a) ==
    /\ At(q, "idle")
    /\ NewVersion(a, 0)
    /\ WriteRow(q, a, 0, FALSE)
    /\ default' = default \ {a}
    /\ UNCHANGED <<cached, connected, failures, crowded>>

RequestStep(q) == Fetch(q) \/ Put(q) \/ Drop(q)

Next ==
    \/ CacheNext(Account) /\ UNCHANGED <<default, crowded>>
    \/ \E q \in Request :
          \/ \E a \in Account, makeDefault \in BOOLEAN : Submit(q, a, makeDefault)
          \/ ClearOthers(q) \/ Refused(q)
          \/ \E version \in Version : StoreAccount(q, version)
          \/ \E a \in Account : DeleteAccount(q, a)

Spec == Init /\ [][Next]_vars

\* The event loop goes on with every request, and Redis drops what has lived
\* its time; nothing says that a connection comes back.
FairSpec ==
    /\ Spec
    /\ \A q \in Request : WF_vars(RequestStep(q) /\ UNCHANGED <<default, crowded>>)
    /\ \A k \in Key : WF_vars(Expire(k) /\ UNCHANGED <<default, crowded>>)
-----------------------------------------------------------------------------
TypeOK ==
    /\ CacheTypes
    /\ default \subseteq Account
    /\ crowded \in BOOLEAN

\* The flags of the others are cleared and this one's is set in two calls: an
\* organization has two default accounts only if two requests did so at a time.
OneDefault == Cardinality(default) <= 1 \/ crowded
=============================================================================
