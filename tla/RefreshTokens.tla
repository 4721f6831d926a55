---------------------------- MODULE RefreshTokens ----------------------------
(***************************************************************************)
(* The refresh tokens of one user (api/auth: login, sso callback,          *)
(* switch-org, refresh, logout; packages/auth jwt.ts).                     *)
(*                                                                         *)
(* A token of a login or of a refresh is a JWT of the user, of the role and *)
(* organization it is for, and of the second it was signed in: two that     *)
(* agree in these are the same string, which the column's UNIQUE constraint *)
(* refuses.  A token of the SSO callback or of switch-org carries a jti of   *)
(* its own.                                                                *)
(*                                                                         *)
(* A step is one database call of one request.  Which session a row belongs *)
(* to is a history variable: the login that began the chain of refreshes.   *)
(***************************************************************************)
EXTENDS Naturals, FiniteSets

CONSTANTS
    Login,         \* logins, SSO logins and switches of organization
    Claims,        \* the roles and organizations a token may be for
    Row,           \* rows of RefreshToken that may be created
    Request,       \* requests handled at a time
    MaxSecond,     \* bound on the clock
    MaxFailures,   \* bound on database calls that fail
    None           \* no row, no login

ASSUME TokenAssumption ==
    /\ IsFiniteSet(Request) /\ IsFiniteSet(Row)
    /\ MaxSecond \in Nat /\ MaxFailures \in Nat
    /\ None \notin Login \union Row \union Claims

VARIABLES
    row,           \* rows of RefreshToken
    request,       \* progress of every request
    isActive,      \* User.isActive
    now,           \* the second on the clock of the server
    begun,         \* history: logins that have begun
    loggedOut,     \* history: sessions a row of which preceded a full logout
    failures       \* database calls that failed so far

vars == <<row, request, isActive, now, begun, loggedOut, failures>>

\* `jti` is the row itself for a token with a jti of its own, else None.
Token == [second: 0 .. MaxSecond, claims: Claims \union {None}, jti: Row \union {None}]
RowType == [state: {"free", "stored", "deleted"}, token: Token, login: Login \union {None}]
Pcs == {"idle", "user", "rotate", "revoke", "create", "all"}
RequestType == [pc: Pcs, row: Row \union {None}, token: Token, login: Login \union {None}]

NoToken == [second |-> 0, claims |-> None, jti |-> None]
NoRequest == [pc |-> "idle", row |-> None, token |-> NoToken, login |-> None]

Init ==
    /\ row = [i \in Row |-> [state |-> "free", token |-> NoToken, login |-> None]]
    /\ request = [q \in Request |-> NoRequest]
    /\ isActive = TRUE
    /\ now = 0
    /\ begun = {} /\ loggedOut = {}
    /\ failures = 0

Stored == {i \in Row : row[i].state = "stored"}
Idle(q) == request[q].pc = "idle"
At(q, pc) == request[q].pc = pc
Respond(q) == request' = [request EXCEPT ![q] = NoRequest]

\* The rows of these ids or tokens go, in one call.
Delete(rows) == row' = [i \in Row |-> IF i \in rows THEN [row[i] EXCEPT !.state = "deleted"]
                                      ELSE row[i]]

-----------------------------------------------------------------------------
(* Logins.                                                                 *)

\* POST login of an active user signs a token of this second; what it then
\* updates of the user, nothing reads.
SignIn(q, s, claims) ==
    /\ Idle(q)
    /\ s \notin begun
    /\ isActive
    /\ request' = [request EXCEPT ![q] =
           [pc |-> "create", row |-> None, login |-> s,
            token |-> [second |-> now, claims |-> claims, jti |-> None]]]
    /\ begun' = begun \union {s}
    /\ UNCHANGED <<row, isActive, now, loggedOut, failures>>

\* The SSO callback and switch-org create a row whose token is unlike any other.
\* The callback may have read that the user is active any time before, and
\* switch-org does not ask.
SignInWithJti(s, i, claims) ==
    /\ s \notin begun
    /\ row[i].state = "free"
    /\ row' = [row EXCEPT ![i] =
           [state |-> "stored", login |-> s,
            token |-> [second |-> now, claims |-> claims, jti |-> i]]]
    /\ begun' = begun \union {s}
    /\ UNCHANGED <<request, isActive, now, loggedOut, failures>>

-----------------------------------------------------------------------------
(* Refreshes.                                                              *)

\* The client presents a token and its row is read; a row that has expired is
\* to be deleted.
Find(q, i, expired) ==
    /\ Idle(q)
    /\ i \in Stored
    /\ request' = [request EXCEPT ![q] =
           [pc |-> IF expired THEN "revoke" ELSE "user", row |-> i, token |-> row[i].token, login |-> row[i].login]]
    /\ UNCHANGED <<row, isActive, now, begun, loggedOut, failures>>

\* A token of this second, for the role and organization of the presented one.
Signed(q) == [request[q].token EXCEPT !.second = now, !.jti = None]

\* The user is read: an active one is signed a token to replace the presented
\* one; a deactivated one loses it.
ReadUser(q) ==
    /\ At(q, "user")
    /\ request' = IF isActive
           THEN [request EXCEPT ![q] = [@ EXCEPT !.pc = "rotate", !.token = Signed(q)]]
           ELSE [request EXCEPT ![q] = [@ EXCEPT !.pc = "revoke"]]
    /\ UNCHANGED <<row, isActive, now, begun, loggedOut, failures>>

\* Mutant of Rotate: the presented row is left to expire.
RotateKeeps(q) ==
    /\ At(q, "rotate")
    /\ IF request[q].row \in Stored
       THEN request' = [request EXCEPT ![q] = [@ EXCEPT !.pc = "create"]]
       ELSE Respond(q)
    /\ UNCHANGED <<row, isActive, now, begun, loggedOut, failures>>

\* Mutant of Rotate: deleteMany does not mind a row that is gone.
RotateMany(q) ==
    /\ At(q, "rotate")
    /\ Delete({request[q].row})
    /\ request' = [request EXCEPT ![q] = [@ EXCEPT !.pc = "create"]]
    /\ UNCHANGED <<isActive, now, begun, loggedOut, failures>>

\* The delete by id throws when the row is gone, and the request ends with 500:
\* of two refreshes of one token, one alone goes on.
Rotate(q) ==
    /\ At(q, "rotate")
    /\ IF request[q].row \in Stored
       THEN Delete({request[q].row}) /\ request' = [request EXCEPT ![q] = [@ EXCEPT !.pc = "create"]]
       ELSE Respond(q) /\ UNCHANGED row
    /\ UNCHANGED <<isActive, now, begun, loggedOut, failures>>

\* The same delete for an expired row or a deactivated user; no token follows.
Revoke(q) ==
    /\ At(q, "revoke")
    /\ Delete({request[q].row} \intersect Stored)
    /\ Respond(q)
    /\ UNCHANGED <<isActive, now, begun, loggedOut, failures>>

\* The new row of a login or a refresh, unless its string is taken: then the
\* create fails, and of a refresh the old row is already gone.
Create(q) ==
    /\ At(q, "create")
    /\ \/ /\ \A i \in Stored : row[i].token # request[q].token
          /\ \E i \in Row :
               /\ row[i].state = "free"
               /\ row' = [row EXCEPT ![i] = [state |-> "stored", token |-> request[q].token,
                                             login |-> request[q].login]]
       \/ /\ \E i \in Stored : row[i].token = request[q].token
          /\ UNCHANGED row
    /\ Respond(q)
    /\ UNCHANGED <<isActive, now, begun, loggedOut, failures>>

-----------------------------------------------------------------------------
(* Logouts, the administrator, the clock, failures.                        *)

\* POST logout deletes the row of the token it is given, if it is there, and
\* goes on to the other rows when an access token comes with it.
Logout(q, given, bearer) ==
    /\ Idle(q)
    /\ given \subseteq Stored /\ Cardinality(given) <= 1
    /\ Delete(given)
    /\ IF bearer THEN request' = [request EXCEPT ![q] = [@ EXCEPT !.pc = "all"]] ELSE UNCHANGED request
    /\ UNCHANGED <<isActive, now, begun, loggedOut, failures>>

\* With an access token every row of the user goes.
LogoutAll(q) ==
    /\ At(q, "all")
    /\ Delete(Stored)
    /\ Respond(q)
    /\ loggedOut' = loggedOut \union {row[i].login : i \in {k \in Row : row[k].state # "free"}}
    /\ UNCHANGED <<isActive, now, begun, failures>>

SetActive(active) ==
    /\ isActive' = active
    /\ UNCHANGED <<row, request, now, begun, loggedOut, failures>>

Tick ==
    /\ now < MaxSecond
    /\ now' = now + 1
    /\ UNCHANGED <<row, request, isActive, begun, loggedOut, failures>>

\* A database call fails and its request answers 500; a create fails also when
\* another row was given its jti, the user and the millisecond.
CallFails(q) ==
    /\ ~Idle(q)
    /\ failures < MaxFailures
    /\ failures' = failures + 1
    /\ Respond(q)
    /\ UNCHANGED <<row, isActive, now, begun, loggedOut>>

Next ==
    \/ \E q \in Request, s \in Login, claims \in Claims : SignIn(q, s, claims)
    \/ \E s \in Login, i \in Row, claims \in Claims : SignInWithJti(s, i, claims)
    \/ \E q \in Request, i \in Row, expired \in BOOLEAN : Find(q, i, expired)
    \/ \E q \in Request, given \in SUBSET Stored, bearer \in BOOLEAN : Logout(q, given, bearer)
    \/ \E q \in Request :
          \/ ReadUser(q) \/ Rotate(q) \/ Revoke(q) \/ Create(q) \/ LogoutAll(q) \/ CallFails(q)
    \/ \E active \in BOOLEAN : SetActive(active)
    \/ Tick

Spec == Init /\ [][Next]_vars

-----------------------------------------------------------------------------
(* Properties.                                                             *)

\* The rows and requests keep their types.
TypeOK ==
    /\ row \in [Row -> RowType]
    /\ request \in [Request -> RequestType]
    /\ isActive \in BOOLEAN
    /\ now \in 0 .. MaxSecond
    /\ begun \subseteq Login /\ loggedOut \subseteq Login
    /\ failures \in 0 .. MaxFailures

\* What carries session s on: its rows, and the requests about to create one.
Carriers(s) == {i \in Stored : row[i].login = s}
Creators(s) == {q \in Request : At(q, "create") /\ request[q].login = s}

\* A session has one way to go on at a time, a stored row or a request about to
\* store its successor: refreshes that present the same token never fork it.
OneTokenPerSession ==
    \A s \in Login :
        Cardinality(Carriers(s)) + Cardinality(Creators(s)) <= 1

\* Sessions as LoginSession has them: a session that lost its last token, by a
\* logout, a refusal, a clash or a failure, is never taken up again.
Going == {s \in Login : Carriers(s) # {} \/ Creators(s) # {}}
Sessions == INSTANCE LoginSession WITH open <- Going, over <- begun \ Going

SessionSpec == Sessions!Spec

\* docs/api/paths/auth.yaml says of logout that it ends the current session: no
\* row that was refreshed before a logout with an access token has a successor
\* once that logout has deleted the user's rows.
LogoutEndsSession ==
    \A i \in Stored : row[i].login \notin loggedOut
=============================================================================
