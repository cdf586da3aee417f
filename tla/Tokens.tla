--------------------------------- MODULE Tokens ---------------------------------
(***************************************************************************)
(* app/api/v1/endpoints/auth.py: registration, login, and the refresh      *)
(* tokens: issued, rotated on use, revoked by logout, deleted by the daily *)
(* task of cleanup_tasks.py once they have expired.  A token is known by   *)
(* its id (the jti that makes its hash unique); its signature is taken as  *)
(* valid.  Each SQL statement is a step, the flush at the end and its      *)
(* commit are one, as in Database.                                         *)
(***************************************************************************)
EXTENDS Naturals, FiniteSets

CONSTANTS
    Requests,       \* request slots
    Emails,         \* the users' email addresses
    TokenIds,       \* bound: the refresh tokens there can be
    None

ASSUME TokensAssumption == None \notin Requests \cup Emails \cup TokenIds

VARIABLES
    users, carts,   \* tables users and carts, by email
    disabled,       \* the users with is_active = False
    row,            \* table refresh_tokens: the rows that exist
    revoked,        \* ... those of them with revoked = True
    expired,        \* the tokens whose expires_at (and exp claim) has passed
    holder,         \* the user of each issued token
    parent, login,  \* history: the token it was rotated from; the token its
                    \* login issued
    contended,      \* history: the logins two requests worked on at a time
    pc, ses         \* progress and local variables of each request

accounts == <<users, carts, disabled>>
tokens   == <<row, revoked, expired, holder>>
history  == <<parent, login, contended>>
vars     == <<accounts, tokens, history, pc, ses>>

Labels == {"idle", "register", "issue", "refresh_user", "rotate", "logout"}

EmptySession == [user |-> None, token |-> None, new |-> None, revoked |-> FALSE]

Session ==
    [user : Emails \cup {None}, token : TokenIds \cup {None},
     new : TokenIds \cup {None}, revoked : BOOLEAN]

Goto(r, label, s) ==
    /\ pc'  = [pc EXCEPT ![r] = label]
    /\ ses' = [ses EXCEPT ![r] = s]

\* The response is sent, or the error: the transaction is over.
Done(r) == Goto(r, "idle", EmptySession)

Reject(r) == Done(r) /\ UNCHANGED <<accounts, tokens, history>>

Issued == {t \in TokenIds : holder[t] # None}

\* A token that refresh_token_endpoint would accept.
Usable(t) == t \in row /\ t \notin revoked /\ t \notin expired

\* The requests at work on the tokens of one login.
WorkingOn(l) == {r \in Requests : ses[r].token # None /\ login[ses[r].token] = l}

\* A request that loads t is counted on t's login, with those there already.
Contend(t) ==
    contended' = IF WorkingOn(login[t]) = {} THEN contended
                                             ELSE contended \cup {login[t]}

Init ==
    /\ users     = {}
    /\ carts     = {}
    /\ disabled  = {}
    /\ row       = {}
    /\ revoked   = {}
    /\ expired   = {}
    /\ holder    = [t \in TokenIds |-> None]
    /\ parent    = [t \in TokenIds |-> None]
    /\ login     = [t \in TokenIds |-> None]
    /\ contended = {}
    /\ pc        = [r \in Requests |-> "idle"]
    /\ ses       = [r \in Requests |-> EmptySession]

-------------------------------------------------------------------------------
(***************************************************************************)
(* register: the user and the cart are inserted in one transaction.        *)
(***************************************************************************)
RegisterRead(r, u) ==
    /\ pc[r] = "idle"
    /\ u \notin users                           \* else 409
    /\ Goto(r, "register", [EmptySession EXCEPT !.user = u])
    /\ UNCHANGED <<accounts, tokens, history>>

\* Mutant of RegisterCommit: the cart is left to the first cart request.
RegisterWithoutCart(r) ==
    /\ pc[r] = "register"
    /\ ses[r].user \notin users
    /\ users' = users \cup {ses[r].user}
    /\ Done(r)
    /\ UNCHANGED <<carts, disabled, tokens, history>>

RegisterCommit(r) ==
    /\ pc[r] = "register"
    /\ ses[r].user \notin users
    /\ users' = users \cup {ses[r].user}
    /\ carts' = carts \cup {ses[r].user}
    /\ Done(r)
    /\ UNCHANGED <<disabled, tokens, history>>

RegisterConflict(r) ==                          \* IntegrityError: users.email
    /\ pc[r] = "register"
    /\ ses[r].user \in users
    /\ Reject(r)

-------------------------------------------------------------------------------
(***************************************************************************)
(* login, and the rotation of a refresh token: both end by inserting a new *)
(* token (_issue_token_pair), whose id is drawn when the request starts.   *)
(***************************************************************************)
Fresh(t) == t \notin Issued /\ \A r \in Requests : ses[r].new # t

Login(r, u, t) ==
    /\ pc[r] = "idle"
    /\ u \in users                              \* else 401
    /\ u \notin disabled                        \* else 403
    /\ Fresh(t)
    /\ Goto(r, "issue", [EmptySession EXCEPT !.user = u, !.new = t])
    /\ UNCHANGED <<accounts, tokens, history>>

Insert(t, u, from) ==
    /\ row'    = row \cup {t}
    /\ holder' = [holder EXCEPT ![t] = u]
    /\ parent' = [parent EXCEPT ![t] = from]
    /\ login'  = [login EXCEPT ![t] = IF from = None THEN t ELSE login[from]]

IssueCommit(r) ==
    /\ pc[r] = "issue"
    /\ Insert(ses[r].new, ses[r].user, None)
    /\ Done(r)
    /\ UNCHANGED <<accounts, revoked, expired, contended>>

RefreshRead(r, t, new) ==
    /\ pc[r] = "idle"
    /\ Usable(t)                                \* else 401
    /\ Fresh(new)
    /\ Contend(t)
    /\ Goto(r, "refresh_user",
            [EmptySession EXCEPT !.user = holder[t], !.token = t, !.new = new])
    /\ UNCHANGED <<accounts, tokens, parent, login>>

RefreshUser(r) ==
    /\ pc[r] = "refresh_user"
    /\ ses[r].user \notin disabled
    /\ Goto(r, "rotate", ses[r])
    /\ UNCHANGED <<accounts, tokens, history>>

\* Mutant of RefreshDisabled: a revocation committed early is taken back.
RefreshUndone(r) ==
    /\ pc[r] = "refresh_user"
    /\ ses[r].user \in disabled
    /\ revoked' = revoked \ {ses[r].token}
    /\ Done(r)
    /\ UNCHANGED <<accounts, row, expired, holder, history>>

RefreshDisabled(r) ==                           \* 401: nothing is revoked
    /\ pc[r] = "refresh_user"
    /\ ses[r].user \in disabled
    /\ Reject(r)

\* Mutant of RotateCommit: the old token is not revoked.
RotateKeeping(r) ==
    /\ pc[r] = "rotate"
    /\ ses[r].token \in row
    /\ Insert(ses[r].new, ses[r].user, ses[r].token)
    /\ Done(r)
    /\ UNCHANGED <<accounts, revoked, expired, contended>>

\* The old token is revoked and the new one inserted by one flush.
RotateCommit(r) ==
    LET s == ses[r]
    IN  /\ pc[r] = "rotate"
        /\ s.token \in row
        /\ revoked' = revoked \cup {s.token}
        /\ Insert(s.new, s.user, s.token)
        /\ Done(r)
        /\ UNCHANGED <<accounts, expired, contended>>

\* The row the UPDATE is for has been deleted meanwhile (StaleDataError).
RotateConflict(r) ==
    /\ pc[r] = "rotate"
    /\ ses[r].token \notin row
    /\ Reject(r)

-------------------------------------------------------------------------------
(***************************************************************************)
(* logout, with an access token of the user who holds the refresh token.   *)
(* Access tokens are not stored: they stay good until they expire.         *)
(***************************************************************************)
LogoutRead(r, t) ==
    /\ pc[r] = "idle"
    /\ t \in row                                \* else nothing to revoke
    /\ holder[t] \notin disabled                \* else 401
    /\ Contend(t)
    /\ Goto(r, "logout", [EmptySession EXCEPT !.token   = t,
                                              !.revoked = t \in revoked])
    /\ UNCHANGED <<accounts, tokens, parent, login>>

\* Revoking a token that was loaded as revoked is no change.
LogoutCommit(r) ==
    /\ pc[r] = "logout"
    /\ ses[r].revoked \/ ses[r].token \in row
    /\ revoked' = IF ses[r].revoked THEN revoked
                                    ELSE revoked \cup {ses[r].token}
    /\ Done(r)
    /\ UNCHANGED <<accounts, row, expired, holder, history>>

LogoutConflict(r) ==                            \* StaleDataError
    /\ pc[r] = "logout"
    /\ ~ses[r].revoked
    /\ ses[r].token \notin row
    /\ Reject(r)

-------------------------------------------------------------------------------
\* Mutant of CleanupTokens: only revoked rows are deleted.
CleanupRevoked ==
    /\ revoked \cap expired # {}
    /\ row'     = row \ (revoked \cap expired)
    /\ revoked' = revoked \ expired
    /\ UNCHANGED <<accounts, expired, holder, history, pc, ses>>

\* cleanup_expired_refresh_tokens: one DELETE statement.
CleanupTokens ==
    /\ row \cap expired # {}
    /\ row'     = row \ expired
    /\ revoked' = revoked \ expired
    /\ UNCHANGED <<accounts, expired, holder, history, pc, ses>>

\* Time passes.
TokenExpires(t) ==
    /\ t \in Issued \ expired
    /\ expired' = expired \cup {t}
    /\ UNCHANGED <<accounts, row, revoked, holder, history, pc, ses>>

\* An operator disables an account: no endpoint does.
Disable(u) ==
    /\ u \in users \ disabled
    /\ disabled' = disabled \cup {u}
    /\ UNCHANGED <<users, carts, tokens, history, pc, ses>>

\* The worker dies, or the client goes away: the session is rolled back.
Crash(r) == pc[r] # "idle" /\ Reject(r)

Next ==
    \/ \E r \in Requests :
        \/ \E u \in Emails : RegisterRead(r, u)
        \/ \E u \in Emails, t \in TokenIds : Login(r, u, t)
        \/ \E t, new \in TokenIds : RefreshRead(r, t, new)
        \/ \E t \in TokenIds : LogoutRead(r, t)
        \/ RegisterCommit(r) \/ RegisterConflict(r) \/ IssueCommit(r)
        \/ RefreshUser(r) \/ RefreshDisabled(r)
        \/ RotateCommit(r) \/ RotateConflict(r)
        \/ LogoutCommit(r) \/ LogoutConflict(r)
        \/ Crash(r)
    \/ CleanupTokens
    \/ \E t \in TokenIds : TokenExpires(t)
    \/ \E u \in Emails : Disable(u)

Spec == Init /\ [][Next]_vars

\* Celery beat runs the cleanup every day, and tokens have an end.
FairSpec ==
    /\ Spec
    /\ WF_vars(CleanupTokens)
    /\ \A t \in TokenIds : WF_vars(TokenExpires(t))

-------------------------------------------------------------------------------
\* Tables, histories and sessions keep their types; every user has a cart,
\* which the cart endpoints and the checkout count on.
TypeOK ==
    /\ users \subseteq Emails /\ carts = users /\ disabled \subseteq users
    /\ row \subseteq Issued /\ revoked \subseteq row /\ expired \subseteq Issued
    /\ holder \in [TokenIds -> Emails \cup {None}]
    /\ parent \in [TokenIds -> TokenIds \cup {None}]
    /\ login  \in [TokenIds -> TokenIds \cup {None}]
    /\ contended \subseteq TokenIds
    /\ pc  \in [Requests -> Labels]
    /\ ses \in [Requests -> Session]

\* Whatever races, a token that was rotated is of no further use, and what was
\* issued in its place belongs to the same user.
RotatedIsDead ==
    \A t \in Issued : parent[t] # None =>
        /\ ~Usable(parent[t])
        /\ holder[t] = holder[parent[t]]

\* A login has one usable token at most, unless two requests worked on its
\* tokens at the same time.
OneTokenPerLogin ==
    \A t, x \in Issued :
        /\ Usable(t) /\ Usable(x)
        /\ login[t] = login[x] /\ login[t] \notin contended
        => t = x

\* No write of a session that loaded the token before brings it back.
NeverUsableAgain ==
    [][\A t \in Issued : ~Usable(t) => ~Usable(t)']_vars

\* Every row is deleted in the end: the table does not grow forever.
RowsAreDeleted == \A t \in TokenIds : t \in row ~> t \notin row

===============================================================================
