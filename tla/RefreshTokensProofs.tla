------------------------- MODULE RefreshTokensProofs -------------------------
(***************************************************************************)
(* Proofs about RefreshTokens, for any logins, rows, requests and failures: *)
(* a session is never forked, and it implements LoginSession.              *)
(***************************************************************************)
EXTENDS RefreshTokens, FiniteSetTheorems, TLAPS

-----------------------------------------------------------------------------
(* The inductive invariant.                                                *)

\* A row has the login that began its session.
RowsSound == \A i \in Row : row[i].state # "free" => row[i].login \in begun

\* A refresh holds the login of the row it has read, and it or a login the one
\* of the row it is about to create.
HoldsRow(q) ==
    /\ request[q].row \in Row
    /\ row[request[q].row].state # "free"
    /\ row[request[q].row].login = request[q].login

RequestsSound == \A q \in Request :
    /\ At(q, "create") => request[q].login \in begun
    /\ request[q].pc \in {"user", "rotate", "revoke"} => HoldsRow(q)

\* No two rows, no two requests and no row and request carry the same session on.
Unforked ==
    /\ \A i, j \in Stored : row[i].login = row[j].login => i = j
    /\ \A q, r \in Request : At(q, "create") /\ At(r, "create")
           /\ request[q].login = request[r].login => q = r
    /\ \A i \in Stored, q \in Request : At(q, "create") => row[i].login # request[q].login

Inv == TypeOK /\ RowsSound /\ RequestsSound /\ Unforked

\* Initially there is no row and no request.
LEMMA InitInv == Init => Inv
<1> SUFFICES ASSUME Init PROVE Inv
  OBVIOUS
<1> USE TokenAssumption DEF Init
<1>1. NoToken \in Token
  BY DEF NoToken, Token
<1>2. NoRequest \in RequestType
  BY <1>1 DEF NoRequest, RequestType, Pcs
<1>3. [state |-> "free", token |-> NoToken, login |-> None] \in RowType
  BY <1>1 DEF RowType
<1>4. TypeOK
  BY <1>2, <1>3 DEF TypeOK
<1>5. RowsSound
  BY DEF RowsSound
<1>6. RequestsSound /\ Unforked
  BY DEF RequestsSound, Unforked, At, Stored, NoRequest, HoldsRow
<1> QED
  BY <1>4, <1>5, <1>6 DEF Inv

-----------------------------------------------------------------------------
(* Types.                                                                  *)

\* A request that ends keeps the type.
LEMMA RespondTyped ==
  ASSUME TypeOK, NEW q \in Request, Respond(q)
  PROVE  request' \in [Request -> RequestType]
<1>1. NoRequest \in RequestType
  BY TokenAssumption DEF NoRequest, NoToken, RequestType, Pcs, Token
<1> QED
  BY <1>1 DEF TypeOK, Respond

\* Deleting rows keeps the type.
LEMMA DeleteTyped ==
  ASSUME TypeOK, NEW rows, Delete(rows)
  PROVE  row' \in [Row -> RowType]
<1>1. ASSUME NEW i \in Row PROVE [row[i] EXCEPT !.state = "deleted"] \in RowType
  BY DEF TypeOK, RowType
<1> QED
  BY <1>1 DEF TypeOK, Delete

\* A request that goes on to another call keeps the type.
LEMMA PcTyped ==
  ASSUME TypeOK, NEW q \in Request, NEW pc \in Pcs,
         request' = [request EXCEPT ![q] = [@ EXCEPT !.pc = pc]]
  PROVE  request' \in [Request -> RequestType]
<1>1. [request[q] EXCEPT !.pc = pc] \in RequestType
  BY DEF TypeOK, RequestType
<1> QED
  BY <1>1 DEF TypeOK

\* Every step keeps the types; that a logout ends sessions that have begun is due
\* to RowsSound.
LEMMA TypeStep == TypeOK /\ RowsSound /\ [Next]_vars => TypeOK'
<1> SUFFICES ASSUME TypeOK, RowsSound, [Next]_vars PROVE TypeOK'
  OBVIOUS
<1> USE TokenAssumption
<1>t. /\ row \in [Row -> RowType] /\ request \in [Request -> RequestType]
      /\ isActive \in BOOLEAN /\ now \in 0 .. MaxSecond
      /\ begun \subseteq Login /\ loggedOut \subseteq Login
      /\ failures \in 0 .. MaxFailures
  BY DEF TypeOK
<1>1. ASSUME NEW q \in Request, NEW s \in Login, NEW claims \in Claims, SignIn(q, s, claims)
      PROVE  TypeOK'
  <2> DEFINE tok == [second |-> now, claims |-> claims, jti |-> None]
  <2>1. tok \in Token
    BY <1>t DEF Token
  <2>2. [pc |-> "create", row |-> None, login |-> s, token |-> tok] \in RequestType
    BY <2>1 DEF RequestType, Pcs
  <2> QED
    BY <1>1, <1>t, <2>2 DEF SignIn, TypeOK
<1>2. ASSUME NEW s \in Login, NEW i \in Row, NEW claims \in Claims, SignInWithJti(s, i, claims)
      PROVE  TypeOK'
  <2> DEFINE tok == [second |-> now, claims |-> claims, jti |-> i]
  <2>1. tok \in Token
    BY <1>t DEF Token
  <2>2. [state |-> "stored", login |-> s, token |-> tok] \in RowType
    BY <2>1 DEF RowType
  <2> QED
    BY <1>2, <1>t, <2>2 DEF SignInWithJti, TypeOK
<1>3. ASSUME NEW q \in Request, NEW i \in Row, NEW expired \in BOOLEAN, Find(q, i, expired)
      PROVE  TypeOK'
  <2>1. row[i] \in RowType
    BY <1>t
  <2>2. row[i].token \in Token /\ row[i].login \in Login \union {None}
    BY <2>1 DEF RowType
  <2>3. [pc |-> IF expired THEN "revoke" ELSE "user", row |-> i,
         token |-> row[i].token, login |-> row[i].login] \in RequestType
    BY <2>2 DEF RequestType, Pcs
  <2> QED
    BY <1>3, <1>t, <2>3 DEF Find, TypeOK
<1>4. ASSUME NEW q \in Request, NEW given \in SUBSET Stored, NEW bearer \in BOOLEAN,
             Logout(q, given, bearer)
      PROVE  TypeOK'
  <2>1. row' \in [Row -> RowType]
    BY <1>4, DeleteTyped DEF Logout
  <2>2. CASE bearer
    <3>1. request' = [request EXCEPT ![q] = [@ EXCEPT !.pc = "all"]]
      BY <1>4, <2>2 DEF Logout
    <3>2. request' \in [Request -> RequestType]
      <4>1. "all" \in Pcs
        BY DEF Pcs
      <4> QED
        BY <3>1, <4>1, PcTyped
    <3> QED
      BY <1>4, <1>t, <2>1, <3>2 DEF Logout, TypeOK
  <2>3. CASE ~bearer
    BY <1>4, <1>t, <2>1, <2>3 DEF Logout, TypeOK
  <2> QED
    BY <2>2, <2>3
<1>5. ASSUME NEW q \in Request, ReadUser(q)
      PROVE  TypeOK'
  <2>1. request[q] \in RequestType /\ request[q].token \in Token
    BY <1>t DEF RequestType
  <2>2. Signed(q) \in Token
    BY <2>1, <1>t DEF Signed, Token
  <2>3. [request[q] EXCEPT !.pc = "rotate", !.token = Signed(q)] \in RequestType
    BY <2>1, <2>2 DEF RequestType, Pcs
  <2>4. [request[q] EXCEPT !.pc = "revoke"] \in RequestType
    BY <2>1 DEF RequestType, Pcs
  <2>5. request' \in [Request -> RequestType]
    BY <1>5, <1>t, <2>3, <2>4 DEF ReadUser
  <2> QED
    BY <1>5, <1>t, <2>5 DEF ReadUser, TypeOK
<1>6. ASSUME NEW q \in Request, Rotate(q)
      PROVE  TypeOK'
  <2>1. row' \in [Row -> RowType]
    BY <1>6, <1>t, DeleteTyped DEF Rotate
  <2>2. request' \in [Request -> RequestType]
    BY <1>6, PcTyped, RespondTyped DEF Rotate, Pcs
  <2> QED
    BY <1>6, <1>t, <2>1, <2>2 DEF Rotate, TypeOK
<1>7. ASSUME NEW q \in Request, Revoke(q)
      PROVE  TypeOK'
  BY <1>7, <1>t, DeleteTyped, RespondTyped DEF Revoke, TypeOK
<1>8. ASSUME NEW q \in Request, Create(q)
      PROVE  TypeOK'
  <2>1. request[q].token \in Token /\ request[q].login \in Login \union {None}
    BY <1>t DEF RequestType
  <2>2. [state |-> "stored", token |-> request[q].token, login |-> request[q].login] \in RowType
    BY <2>1 DEF RowType
  <2>3. row' \in [Row -> RowType]
    BY <1>8, <1>t, <2>2 DEF Create
  <2> QED
    BY <1>8, <1>t, <2>3, RespondTyped DEF Create, TypeOK
<1>9. ASSUME NEW q \in Request, LogoutAll(q)
      PROVE  TypeOK'
  <2>1. ASSUME NEW i \in Row, row[i].state # "free" PROVE row[i].login \in Login
    BY <2>1, <1>t DEF RowsSound
  <2> QED
    BY <1>9, <1>t, <2>1, DeleteTyped, RespondTyped DEF LogoutAll, TypeOK
<1>10. ASSUME NEW q \in Request, CallFails(q)
       PROVE  TypeOK'
  BY <1>10, <1>t, RespondTyped DEF CallFails, TypeOK
<1>11. ASSUME NEW active \in BOOLEAN, SetActive(active)
       PROVE  TypeOK'
  BY <1>11, <1>t DEF SetActive, TypeOK
<1>12. CASE Tick
  BY <1>12, <1>t DEF Tick, TypeOK
<1>13. CASE UNCHANGED vars
  BY <1>13, <1>t DEF vars, TypeOK
<1> QED
  BY <1>1, <1>2, <1>3, <1>4, <1>5, <1>6, <1>7, <1>8, <1>9, <1>10, <1>11, <1>12, <1>13 DEF Next

-----------------------------------------------------------------------------
(* Steps that carry no session on.                                         *)

\* Steps after which no row is stored and no request creates one that did not
\* before: refreshes up to the delete, logouts, failures.
Shrinks ==
    /\ begun' = begun
    /\ \A i \in Row :
          /\ row'[i].login = row[i].login
          /\ row[i].state # "free" <=> row'[i].state # "free"
          /\ row'[i].state = "stored" => row[i].state = "stored"
    /\ \A q \in Request :
          \/ request'[q] = request[q]
          \/ request'[q].pc \in {"idle", "all"}
          \/ request'[q].pc \in {"user", "rotate", "revoke"} /\ HoldsRow(q)'

\* The deletes of a call shrink the rows.
LEMMA DeleteShrinks ==
  ASSUME TypeOK, NEW rows, rows \subseteq Stored, Delete(rows), NEW i \in Row
  PROVE  /\ row'[i].login = row[i].login
         /\ row[i].state # "free" <=> row'[i].state # "free"
         /\ row'[i].state = "stored" => row[i].state = "stored"
<1>1. row[i] \in RowType
  BY DEF TypeOK
<1>2. row'[i] = IF i \in rows THEN [row[i] EXCEPT !.state = "deleted"] ELSE row[i]
  BY DEF Delete
<1> QED
  BY <1>1, <1>2 DEF RowType, Stored

\* A step that shrinks keeps the invariant, and no session is taken up by it.
LEMMA ShrinkStep ==
  ASSUME Inv, TypeOK', Shrinks
  PROVE  Inv' /\ Going' \subseteq Going
<1> USE DEF At
<1>1. ASSUME NEW q \in Request, request'[q].pc = "create"
      PROVE  request'[q] = request[q]
  BY <1>1 DEF Shrinks
<1>2. ASSUME NEW i \in Stored'
      PROVE  i \in Stored /\ row'[i].login = row[i].login
  BY <1>2 DEF Shrinks, Stored
<1>3. RowsSound'
  BY DEF Inv, RowsSound, Shrinks
<1>4. ASSUME NEW q \in Request, request'[q] = request[q], HoldsRow(q)
      PROVE  HoldsRow(q)'
  BY <1>4 DEF HoldsRow, Shrinks
<1>5. RequestsSound'
  BY <1>1, <1>4 DEF Inv, RequestsSound, Shrinks
<1>6. Unforked'
  BY <1>1, <1>2 DEF Inv, Unforked
<1>7. Going' \subseteq Going
  BY <1>1, <1>2 DEF Going, Carriers, Creators
<1> QED
  BY <1>3, <1>5, <1>6, <1>7 DEF Inv

\* A request that ends goes idle and leaves the others alone.
LEMMA RespondEffect ==
  ASSUME TypeOK, NEW q \in Request, Respond(q)
  PROVE  /\ request'[q].pc = "idle"
         /\ \A r \in Request \ {q} : request'[r] = request[r]
BY DEF TypeOK, Respond, NoRequest

\* The steps that shrink.
LEMMA ShrinkingActions ==
  ASSUME Inv,
         \/ \E q \in Request, i \in Row, expired \in BOOLEAN : Find(q, i, expired)
         \/ \E q \in Request, given \in SUBSET Stored, bearer \in BOOLEAN : Logout(q, given, bearer)
         \/ \E q \in Request : ReadUser(q) \/ Revoke(q) \/ LogoutAll(q) \/ CallFails(q)
         \/ \E active \in BOOLEAN : SetActive(active)
         \/ Tick
         \/ UNCHANGED vars
  PROVE  Shrinks
<1>t. row \in [Row -> RowType] /\ request \in [Request -> RequestType]
  BY DEF Inv, TypeOK
<1>i. TypeOK
  BY DEF Inv
<1>1. ASSUME NEW q \in Request, NEW i \in Row, NEW expired \in BOOLEAN, Find(q, i, expired)
      PROVE  Shrinks
  <2>1. request'[q].row = i /\ request'[q].login = row[i].login
        /\ request'[q].pc \in {"user", "revoke"}
    BY <1>1, <1>t DEF Find
  <2>2. row' = row /\ row[i].state = "stored"
    BY <1>1 DEF Find, Stored
  <2>3. HoldsRow(q)'
    BY <2>1, <2>2 DEF HoldsRow
  <2> QED
    BY <1>1, <1>t, <2>1, <2>3 DEF Find, Shrinks
<1>2. ASSUME NEW q \in Request, NEW given \in SUBSET Stored, NEW bearer \in BOOLEAN,
             Logout(q, given, bearer)
      PROVE  Shrinks
  <2>1. ASSUME NEW r \in Request
        PROVE  request'[r] = request[r] \/ request'[r].pc = "all"
    BY <1>2, <1>t DEF Logout, RequestType
  <2>2. Delete(given) /\ begun' = begun
    BY <1>2 DEF Logout
  <2> QED
    BY <1>i, <2>1, <2>2, DeleteShrinks DEF Shrinks
<1>3. ASSUME NEW q \in Request, ReadUser(q)
      PROVE  Shrinks
  <2>1. request[q] \in RequestType /\ HoldsRow(q)
    BY <1>3, <1>t DEF ReadUser, At, Inv, RequestsSound
  <2>2. /\ request'[q].row = request[q].row /\ request'[q].login = request[q].login
        /\ request'[q].pc \in {"rotate", "revoke"}
        /\ \A r \in Request \ {q} : request'[r] = request[r]
    BY <1>3, <1>t, <2>1 DEF ReadUser, RequestType
  <2>3. row' = row
    BY <1>3 DEF ReadUser
  <2>4. HoldsRow(q)'
    BY <2>1, <2>2, <2>3 DEF HoldsRow
  <2> QED
    BY <1>3, <2>2, <2>4 DEF ReadUser, Shrinks
<1>4. ASSUME NEW q \in Request, Revoke(q)
      PROVE  Shrinks
  <2>1. Delete({request[q].row} \intersect Stored) /\ begun' = begun /\ Respond(q)
    BY <1>4 DEF Revoke
  <2> QED
    BY <1>i, <2>1, DeleteShrinks, RespondEffect DEF Shrinks
<1>5. ASSUME NEW q \in Request, LogoutAll(q)
      PROVE  Shrinks
  <2>1. Delete(Stored) /\ begun' = begun /\ Respond(q)
    BY <1>5 DEF LogoutAll
  <2> QED
    BY <1>i, <2>1, DeleteShrinks, RespondEffect DEF Shrinks
<1>6. ASSUME NEW q \in Request, CallFails(q)
      PROVE  Shrinks
  BY <1>6, <1>i, RespondEffect DEF CallFails, Shrinks
<1>7. ASSUME NEW active \in BOOLEAN, SetActive(active)
      PROVE  Shrinks
  BY <1>7 DEF SetActive, Shrinks
<1>8. CASE Tick
  BY <1>8 DEF Tick, Shrinks
<1>9. CASE UNCHANGED vars
  BY <1>9 DEF vars, Shrinks
<1> QED
  BY <1>1, <1>2, <1>3, <1>4, <1>5, <1>6, <1>7, <1>8, <1>9

-----------------------------------------------------------------------------
(* Steps that carry a session on.                                          *)

\* A login's request begins a session no row and no request has.
LEMMA SignInStep ==
  ASSUME Inv, TypeOK', NEW q \in Request, NEW s \in Login, NEW claims \in Claims,
         SignIn(q, s, claims)
  PROVE  Inv' /\ Going' = Going \union {s}
<1> USE DEF At
<1>1. /\ request'[q].pc = "create" /\ request'[q].login = s
      /\ \A r \in Request \ {q} : request'[r] = request[r]
  BY DEF SignIn, Inv, TypeOK
<1>2. row' = row /\ begun' = begun \union {s} /\ s \notin begun /\ request[q].pc = "idle"
  BY DEF SignIn, Idle
<1>3. \A i \in Stored : row[i].login # s
  BY <1>2 DEF Inv, RowsSound, Stored
<1>4. \A r \in Request : request[r].pc = "create" => request[r].login # s
  BY <1>2 DEF Inv, RequestsSound
<1>5. Stored' = Stored
  BY <1>2 DEF Stored
<1>6. RowsSound'
  BY <1>2 DEF Inv, RowsSound
<1>7. ASSUME NEW r \in Request, request'[r].pc \in {"user", "rotate", "revoke"}
      PROVE  HoldsRow(r)'
  <2>1. request'[r] = request[r] /\ HoldsRow(r)
    BY <1>1, <1>7 DEF Inv, RequestsSound
  <2> QED
    BY <1>2, <2>1 DEF HoldsRow
<1>8. RequestsSound'
  BY <1>1, <1>2, <1>7 DEF Inv, RequestsSound
<1>9. Unforked'
  BY <1>1, <1>2, <1>3, <1>4, <1>5 DEF Inv, Unforked
<1>10. Going' = Going \union {s}
  BY <1>1, <1>2, <1>5 DEF Going, Carriers, Creators
<1> QED
  BY <1>6, <1>8, <1>9, <1>10 DEF Inv

\* The SSO callback and switch-org begin one with its row.
LEMMA SignInWithJtiStep ==
  ASSUME Inv, TypeOK', NEW s \in Login, NEW i \in Row, NEW claims \in Claims,
         SignInWithJti(s, i, claims)
  PROVE  Inv' /\ Going' = Going \union {s}
<1> USE DEF At
<1>1. /\ row'[i].state = "stored" /\ row'[i].login = s
      /\ \A k \in Row \ {i} : row'[k] = row[k]
  BY DEF SignInWithJti, Inv, TypeOK
<1>2. request' = request /\ begun' = begun \union {s} /\ s \notin begun /\ row[i].state = "free"
  BY DEF SignInWithJti
<1>3. \A k \in Stored : row[k].login # s
  BY <1>2 DEF Inv, RowsSound, Stored
<1>4. \A r \in Request : request[r].pc = "create" => request[r].login # s
  BY <1>2 DEF Inv, RequestsSound
<1>5. Stored' = Stored \union {i} /\ i \notin Stored
  BY <1>1, <1>2 DEF Stored
<1>6. RowsSound'
  BY <1>1, <1>2 DEF Inv, RowsSound
<1>7. ASSUME NEW r \in Request, request[r].pc \in {"user", "rotate", "revoke"}
      PROVE  HoldsRow(r)'
  <2>1. HoldsRow(r)
    BY <1>7 DEF Inv, RequestsSound
  <2>2. request[r].row # i
    BY <1>2, <2>1 DEF HoldsRow
  <2> QED
    BY <1>1, <1>2, <2>1, <2>2 DEF HoldsRow
<1>8. RequestsSound'
  BY <1>2, <1>7 DEF Inv, RequestsSound
<1>9. Unforked'
  BY <1>1, <1>2, <1>3, <1>4, <1>5 DEF Inv, Unforked, Stored
<1>10. Going' = Going \union {s}
  BY <1>1, <1>2, <1>5 DEF Going, Carriers, Creators, Stored
<1> QED
  BY <1>6, <1>8, <1>9, <1>10 DEF Inv

\* A rotation puts the request in the place of the row; it does so once, for the
\* delete of a row that is gone throws.
LEMMA RotateStep ==
  ASSUME Inv, TypeOK', NEW q \in Request, Rotate(q)
  PROVE  Inv' /\ Going' \subseteq Going /\ begun' = begun
<1>t. TypeOK
  BY DEF Inv
<1>1. CASE request[q].row \in Stored
  <2> DEFINE i == request[q].row
  <2> USE DEF At
  <2>1. Delete({i}) /\ begun' = begun /\ i \in Stored /\ i \in Row /\ request[q].pc = "rotate"
    BY <1>1 DEF Rotate, Stored
  <2>2. /\ request'[q].pc = "create" /\ request'[q].login = request[q].login
        /\ \A r \in Request \ {q} : request'[r] = request[r]
    BY <1>1, <1>t DEF Rotate, TypeOK, RequestType
  <2>3. HoldsRow(q)
    BY <2>1 DEF Inv, RequestsSound
  <2>4. row[i].login = request[q].login /\ request[q].login \in begun
    BY <2>1, <2>3 DEF HoldsRow, Inv, RowsSound
  <2>5. ASSUME NEW k \in Row
        PROVE  /\ row'[k].login = row[k].login
               /\ row[k].state # "free" <=> row'[k].state # "free"
               /\ row'[k].state = "stored" <=> k \in Stored \ {i}
    <3>1. row[k] \in RowType
      BY <1>t DEF TypeOK
    <3>2. row'[k] = IF k \in {i} THEN [row[k] EXCEPT !.state = "deleted"] ELSE row[k]
      BY <2>1 DEF Delete
    <3>3. i \in Stored
      BY <2>1
    <3> HIDE DEF i
    <3>4. CASE k = i
      BY <3>1, <3>2, <3>3, <3>4 DEF RowType, Stored
    <3>5. CASE k # i
      BY <3>2, <3>5 DEF Stored
    <3> QED
      BY <3>4, <3>5
  <2>6. Stored' = Stored \ {i}
    BY <2>5 DEF Stored
  <2> HIDE DEF i
  <2>7. RowsSound'
    BY <2>1, <2>5 DEF Inv, RowsSound
  <2>8. ASSUME NEW r \in Request, request'[r].pc \in {"user", "rotate", "revoke"}
        PROVE  HoldsRow(r)'
    <3>1. request'[r] = request[r] /\ HoldsRow(r)
      BY <2>2, <2>8 DEF Inv, RequestsSound
    <3> QED
      BY <2>5, <3>1 DEF HoldsRow
  <2>9. RequestsSound'
    BY <2>1, <2>2, <2>4, <2>8 DEF Inv, RequestsSound
  <2>10. ASSUME NEW k \in Stored'
         PROVE  k \in Stored /\ row'[k].login = row[k].login /\ row[k].login # request[q].login
    <3>1. k \in Stored /\ k # i /\ k \in Row
      BY <2>6 DEF Stored
    <3> QED
      BY <2>1, <2>4, <2>5, <3>1 DEF Inv, Unforked
  <2>11. ASSUME NEW r \in Request, request[r].pc = "create"
         PROVE  request[r].login # request[q].login
    BY <2>1, <2>4, <2>11 DEF Inv, Unforked
  <2>12. Unforked'
    BY <2>2, <2>10, <2>11 DEF Inv, Unforked
  <2>13. Going' \subseteq Going
    BY <2>1, <2>2, <2>4, <2>10 DEF Going, Carriers, Creators
  <2> QED
    BY <2>1, <2>7, <2>9, <2>12, <2>13 DEF Inv
<1>2. CASE request[q].row \notin Stored
  <2>1. Respond(q) /\ row' = row /\ begun' = begun
    BY <1>2 DEF Rotate
  <2>2. Shrinks
    BY <1>t, <2>1, RespondEffect DEF Shrinks
  <2> QED
    BY <2>1, <2>2, ShrinkStep
<1> QED
  BY <1>1, <1>2

\* A create puts the row in the place of the request, unless the string is taken.
LEMMA CreateStep ==
  ASSUME Inv, TypeOK', NEW q \in Request, Create(q)
  PROVE  Inv' /\ Going' \subseteq Going /\ begun' = begun
<1>t. TypeOK
  BY DEF Inv
<1>1. ASSUME NEW i \in Row, row[i].state = "free",
             row' = [row EXCEPT ![i] = [state |-> "stored", token |-> request[q].token,
                                        login |-> request[q].login]]
      PROVE  Inv' /\ Going' \subseteq Going
  <2> USE DEF At
  <2>1. /\ row'[i].state = "stored" /\ row'[i].login = request[q].login
        /\ \A k \in Row \ {i} : row'[k] = row[k]
    BY <1>1, <1>t DEF TypeOK
  <2>2. /\ request[q].pc = "create" /\ begun' = begun /\ request'[q].pc = "idle"
        /\ \A r \in Request \ {q} : request'[r] = request[r]
    BY <1>t, RespondEffect DEF Create
  <2>3. Stored' = Stored \union {i} /\ i \notin Stored
    BY <1>1, <2>1 DEF Stored
  <2>4. RowsSound'
    BY <2>1, <2>2 DEF Inv, RowsSound, RequestsSound
  <2>5. ASSUME NEW r \in Request, request'[r].pc \in {"user", "rotate", "revoke"}
        PROVE  HoldsRow(r)'
    <3>1. request'[r] = request[r] /\ HoldsRow(r)
      BY <2>2, <2>5 DEF Inv, RequestsSound
    <3>2. request[r].row # i
      BY <1>1, <3>1 DEF HoldsRow
    <3> QED
      BY <2>1, <3>1, <3>2 DEF HoldsRow
  <2>6. RequestsSound'
    BY <2>2, <2>5 DEF Inv, RequestsSound
  <2>7. \A k \in Stored : row[k].login # request[q].login
    BY <2>2 DEF Inv, Unforked
  <2>8. ASSUME NEW r \in Request, request'[r].pc = "create"
        PROVE  request'[r] = request[r] /\ request[r].login # request[q].login
    BY <2>2, <2>8 DEF Inv, Unforked
  <2>9. Unforked'
    BY <2>1, <2>2, <2>3, <2>7, <2>8 DEF Inv, Unforked, Stored
  <2>10. Going' \subseteq Going
    BY <2>1, <2>2, <2>3, <2>8 DEF Going, Carriers, Creators, Stored
  <2> QED
    BY <2>4, <2>6, <2>9, <2>10 DEF Inv
<1>2. CASE row' = row
  <2>1. Shrinks
    BY <1>2, <1>t, RespondEffect DEF Create, Shrinks
  <2> QED
    BY <2>1, ShrinkStep DEF Shrinks
<1>3. begun' = begun
  BY DEF Create
<1>4. \/ row' = row
      \/ \E i \in Row :
           /\ row[i].state = "free"
           /\ row' = [row EXCEPT ![i] = [state |-> "stored", token |-> request[q].token,
                                         login |-> request[q].login]]
  BY DEF Create
<1>5. CASE row' # row
  <2>1. PICK i \in Row :
          /\ row[i].state = "free"
          /\ row' = [row EXCEPT ![i] = [state |-> "stored", token |-> request[q].token,
                                        login |-> request[q].login]]
    BY <1>4, <1>5
  <2> QED
    BY <1>1, <1>3, <2>1
<1> QED
  BY <1>2, <1>5

-----------------------------------------------------------------------------
(* The theorems.                                                           *)

\* What a step does to the sessions: it keeps the invariant, and either begins
\* a login and its session or takes none up.
Opens(s) == s \notin begun /\ begun' = begun \union {s} /\ Going' = Going \union {s}

LEMMA InvStep ==
  ASSUME Inv, [Next]_vars
  PROVE  /\ Inv'
         /\ \/ \E s \in Login : Opens(s)
            \/ begun' = begun /\ Going' \subseteq Going
<1>t. TypeOK'
  BY TypeStep DEF Inv
<1>1. CASE \E q \in Request, s \in Login, claims \in Claims : SignIn(q, s, claims)
  BY <1>1, <1>t, SignInStep DEF SignIn, Opens
<1>2. CASE \E s \in Login, i \in Row, claims \in Claims : SignInWithJti(s, i, claims)
  BY <1>2, <1>t, SignInWithJtiStep DEF SignInWithJti, Opens
<1>3. CASE \E q \in Request : Rotate(q)
  BY <1>3, <1>t, RotateStep
<1>4. CASE \E q \in Request : Create(q)
  BY <1>4, <1>t, CreateStep
<1>5. CASE Shrinks
  BY <1>5, <1>t, ShrinkStep DEF Shrinks
<1> QED
  BY <1>1, <1>2, <1>3, <1>4, <1>5, ShrinkingActions DEF Next

\* Inv holds in every reachable state.
LEMMA InvAlways == Spec => []Inv
<1>1. Inv /\ [Next]_vars => Inv'
  BY InvStep
<1> QED
  BY InitInv, <1>1, PTL DEF Spec

\* The rows and requests keep their types (the token routes, for any number of
\* logins, rows and requests).
THEOREM TokenTypes == Spec => []TypeOK
<1>1. Inv => TypeOK
  BY DEF Inv
<1> QED
  BY InvAlways, <1>1, PTL

\* A set whose elements are all equal has at most one.
LEMMA AtMostOne ==
  ASSUME NEW S, \A x, y \in S : x = y
  PROVE  Cardinality(S) \in {0, 1} /\ (S = {} => Cardinality(S) = 0)
<1>1. CASE S = {}
  BY <1>1, FS_EmptySet
<1>2. CASE S # {}
  <2>1. PICK x \in S : TRUE
    BY <1>2
  <2>2. S = {x}
    BY <2>1
  <2> QED
    BY <2>2, FS_Singleton
<1> QED
  BY <1>1, <1>2

\* Refreshes that present the same token never fork its session (the delete by
\* id of auth/refresh): it has one row, or one request about to create one.
THEOREM OneTokenCorrect == Spec => []OneTokenPerSession
<1>1. Inv => OneTokenPerSession
  <2> SUFFICES ASSUME Inv, NEW s \in Login
               PROVE  Cardinality(Carriers(s)) + Cardinality(Creators(s)) <= 1
    BY DEF OneTokenPerSession
  <2>1. \A i, j \in Carriers(s) : i = j
    BY DEF Inv, Unforked, Carriers
  <2>2. \A q, r \in Creators(s) : q = r
    BY DEF Inv, Unforked, Creators
  <2>3. Carriers(s) = {} \/ Creators(s) = {}
    BY DEF Inv, Unforked, Carriers, Creators
  <2> QED
    BY <2>1, <2>2, <2>3, AtMostOne
<1> QED
  BY InvAlways, <1>1, PTL

\* The sessions that go on have begun.
LEMMA GoingBegun == Inv => Going \subseteq begun
BY DEF Inv, Going, Carriers, Creators, RowsSound, RequestsSound, Stored

\* The token routes implement LoginSession: a session is opened by its login
\* alone, and once its last token is gone it is never taken up again.
THEOREM SessionsCorrect == Spec => SessionSpec
<1>1. Init => Sessions!Init
  BY DEF Init, Sessions!Init, Going, Carriers, Creators, Stored, At, NoRequest
<1>2. Inv /\ Inv' /\ [Next]_vars => [Sessions!Next]_(Sessions!sessionVars)
  <2> SUFFICES ASSUME Inv, [Next]_vars
               PROVE  [Sessions!Next]_(Sessions!sessionVars)
    OBVIOUS
  <2>1. Going \subseteq begun /\ Going \subseteq Login
    BY GoingBegun DEF Going
  <2>2. ASSUME NEW s \in Login, Opens(s)
        PROVE  Sessions!Open(s)
    BY <2>1, <2>2 DEF Opens, Sessions!Open
  <2>3. ASSUME begun' = begun, Going' \subseteq Going
        PROVE  Sessions!Close(Going \ Going')
    BY <2>1, <2>3 DEF Sessions!Close
  <2>4. CASE \E s \in Login : Opens(s)
    BY <2>2, <2>4 DEF Sessions!Next
  <2>5. CASE begun' = begun /\ Going' \subseteq Going
    <3>1. Sessions!Close(Going \ Going')
      BY <2>3, <2>5
    <3> QED
      BY <3>1 DEF Sessions!Next
  <2> QED
    BY <2>4, <2>5, InvStep
<1> QED
  BY <1>1, <1>2, InvAlways, PTL DEF Spec, SessionSpec, Sessions!Spec
=============================================================================
