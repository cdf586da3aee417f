------------------------------ MODULE TokensProofs ------------------------------
(***************************************************************************)
(* Theorems about refresh tokens, for any number of requests, users and    *)
(* tokens.                                                                 *)
(***************************************************************************)
EXTENDS Tokens, TLAPS

\* What a request in flight knows: the token it loaded was issued, to the user
\* it goes on with, and the id it drew has not been issued.
SessionOK(r) ==
    LET s == ses[r]
    IN  /\ pc[r] \in {"register", "issue"} => s.user \in Emails
        /\ pc[r] \in {"issue", "refresh_user", "rotate"} =>
              s.new \in TokenIds /\ s.new \notin Issued
        /\ pc[r] \in {"refresh_user", "rotate"} =>
              /\ s.token \in Issued
              /\ s.user = holder[s.token]
        /\ pc[r] = "logout" => s.token \in Issued

\* No two requests drew the same id.
DistinctNew ==
    \A r, x \in Requests : ses[r].new # None /\ ses[r].new = ses[x].new => r = x

\* A token that was rotated is revoked, or its row is gone.
RotatedRevoked ==
    \A t \in Issued : parent[t] # None =>
        /\ parent[t] \in Issued
        /\ parent[t] \notin row \/ parent[t] \in revoked
        /\ holder[t] = holder[parent[t]]

\* Every issued token descends from a login.
LoginKnown == \A t \in Issued : login[t] \in TokenIds

IInv == /\ TypeOK
        /\ \A r \in Requests : SessionOK(r)
        /\ DistinctNew
        /\ RotatedRevoked
        /\ LoginKnown

-------------------------------------------------------------------------------
\* The values of a request that has loaded nothing.
LEMMA FreshSession ==
    /\ EmptySession \in Session
    /\ EmptySession.user = None /\ EmptySession.token = None
    /\ EmptySession.new = None /\ EmptySession.revoked = FALSE
BY DEF EmptySession, Session

\* The initial state.
LEMMA InitIInv == Init => IInv
<1> SUFFICES ASSUME Init PROVE IInv
  OBVIOUS
<1>1. Issued = {}
  BY DEF Init, Issued
<1>2. TypeOK
  BY <1>1, FreshSession DEF Init, TypeOK, Labels
<1>3. \A r \in Requests : SessionOK(r)
  BY DEF Init, SessionOK
<1>4. DistinctNew
  BY FreshSession DEF Init, DistinctNew
<1>5. RotatedRevoked
  BY <1>1 DEF RotatedRevoked
<1>6. LoginKnown
  BY <1>1 DEF LoginKnown
<1> QED
  BY <1>2, <1>3, <1>4, <1>5, <1>6 DEF IInv

\* A step that ends a request and leaves what was issued alone keeps what the
\* other requests know.
LEMMA DoneOK ==
    ASSUME IInv, NEW r \in Requests, Done(r), UNCHANGED holder
    PROVE  /\ \A x \in Requests : SessionOK(x)'
           /\ DistinctNew'
           /\ pc' \in [Requests -> Labels] /\ ses' \in [Requests -> Session]
           /\ Issued' = Issued
<1>1. /\ pc \in [Requests -> Labels] /\ ses \in [Requests -> Session]
      /\ \A x \in Requests : SessionOK(x)
      /\ DistinctNew
  BY DEF IInv, TypeOK
<1>2. /\ pc' = [pc EXCEPT ![r] = "idle"] /\ ses' = [ses EXCEPT ![r] = EmptySession]
      /\ holder' = holder
  BY DEF Done, Goto
<1>3. Issued' = Issued
  BY <1>2 DEF Issued
<1>4. pc' \in [Requests -> Labels] /\ ses' \in [Requests -> Session]
  BY <1>1, <1>2, FreshSession DEF Labels
<1>5. ASSUME NEW x \in Requests PROVE SessionOK(x)'
  BY <1>1, <1>2, <1>3 DEF SessionOK
<1>6. DistinctNew'
  BY <1>1, <1>2, FreshSession DEF DistinctNew
<1> QED
  BY <1>3, <1>4, <1>5, <1>6

\* A rollback changes no table.
LEMMA RejectOK ==
    ASSUME IInv, NEW r \in Requests, Reject(r)
    PROVE  IInv'
<1>1. Done(r) /\ UNCHANGED <<accounts, tokens, history>>
  BY DEF Reject
<1>2. UNCHANGED <<users, carts, disabled, row, revoked, expired, holder,
                  parent, login, contended>>
  BY <1>1 DEF accounts, tokens, history
<1>3. /\ \A x \in Requests : SessionOK(x)' /\ DistinctNew' /\ Issued' = Issued
      /\ pc' \in [Requests -> Labels] /\ ses' \in [Requests -> Session]
  BY <1>1, <1>2, DoneOK
<1>4. TypeOK'
  BY <1>2, <1>3 DEF IInv, TypeOK
<1>5. RotatedRevoked' /\ LoginKnown'
  BY <1>2, <1>3 DEF IInv, RotatedRevoked, LoginKnown
<1> QED
  BY <1>3, <1>4, <1>5 DEF IInv

\* A request that starts, or goes on, knows s and has written nothing.
LEMMA GotoOK ==
    ASSUME IInv, NEW r \in Requests, NEW label \in Labels, NEW s \in Session,
           Goto(r, label, s),
           UNCHANGED <<accounts, tokens, parent, login>>,
           contended' \subseteq TokenIds,
           label \in {"register", "issue"} => s.user \in Emails,
           label \in {"issue", "refresh_user", "rotate"} =>
              s.new \in TokenIds /\ s.new \notin Issued,
           label \in {"refresh_user", "rotate"} =>
              s.token \in Issued /\ s.user = holder[s.token],
           label = "logout" => s.token \in Issued,
           s.new = None \/ \A x \in Requests \ {r} : ses[x].new # s.new
    PROVE  IInv'
<1>1. /\ pc' = [pc EXCEPT ![r] = label] /\ ses' = [ses EXCEPT ![r] = s]
      /\ UNCHANGED <<users, carts, disabled, row, revoked, expired, holder,
                     parent, login>>
  BY DEF Goto, accounts, tokens
<1>2. Issued' = Issued
  BY <1>1 DEF Issued
<1>3. TypeOK'
  BY <1>1, <1>2 DEF IInv, TypeOK
<1>4. pc \in [Requests -> Labels] /\ ses \in [Requests -> Session]
  BY DEF IInv, TypeOK
<1>5. ASSUME NEW x \in Requests PROVE SessionOK(x)'
  <2>1. CASE x = r
    BY <1>1, <1>2, <1>4, <2>1 DEF SessionOK
  <2>2. CASE x # r
    BY <1>1, <1>2, <1>4, <2>2 DEF SessionOK, IInv
  <2> QED
    BY <2>1, <2>2
<1>6. DistinctNew'
  BY <1>1, <1>4 DEF DistinctNew, IInv
<1>7. RotatedRevoked' /\ LoginKnown'
  BY <1>1, <1>2 DEF IInv, RotatedRevoked, LoginKnown
<1> QED
  BY <1>3, <1>5, <1>6, <1>7 DEF IInv

\* Inserting a token that was not issued: nothing becomes of the older ones.
LEMMA InsertOK ==
    ASSUME IInv, NEW r \in Requests, pc[r] \in {"issue", "rotate"},
           NEW t \in TokenIds, t = ses[r].new, NEW u \in Emails,
           NEW from \in TokenIds \cup {None},
           from # None => from \in Issued /\ u = holder[from],
           Insert(t, u, from), Done(r),
           revoked \subseteq revoked', revoked' \subseteq row,
           from # None => from \in revoked',
           UNCHANGED <<accounts, expired, contended>>
    PROVE  IInv'
<1>1. /\ row' = row \cup {t} /\ holder' = [holder EXCEPT ![t] = u]
      /\ parent' = [parent EXCEPT ![t] = from]
      /\ login' = [login EXCEPT ![t] = IF from = None THEN t ELSE login[from]]
  BY DEF Insert
<1>2. /\ pc' = [pc EXCEPT ![r] = "idle"] /\ ses' = [ses EXCEPT ![r] = EmptySession]
      /\ UNCHANGED <<users, carts, disabled, expired, contended>>
  BY DEF Done, Goto, accounts
<1>3. TypeOK
  BY DEF IInv
<1>4. t \notin Issued
  BY DEF IInv, SessionOK
<1>5. u # None
  BY TokensAssumption
<1>6. Issued' = Issued \cup {t}
  BY <1>1, <1>3, <1>5 DEF Issued, TypeOK
<1>7. Issued \subseteq TokenIds
  BY DEF Issued
<1>8. TypeOK'
  <2>1. row' \subseteq Issued' /\ revoked' \subseteq row' /\ expired' \subseteq Issued'
    BY <1>1, <1>2, <1>3, <1>6 DEF TypeOK
  <2>2. /\ holder' \in [TokenIds -> Emails \cup {None}]
        /\ parent' \in [TokenIds -> TokenIds \cup {None}]
        /\ login'  \in [TokenIds -> TokenIds \cup {None}]
    BY <1>1, <1>3, <1>7 DEF TypeOK
  <2>3. pc' \in [Requests -> Labels] /\ ses' \in [Requests -> Session]
    BY <1>2, <1>3, FreshSession DEF TypeOK, Labels
  <2> QED
    BY <2>1, <2>2, <2>3, <1>2, <1>3 DEF TypeOK
<1>9. ASSUME NEW x \in Requests PROVE SessionOK(x)'
  <2>1. CASE x = r
    BY <1>2, <1>3, <2>1 DEF SessionOK, TypeOK
  <2>2. CASE x # r
    <3>1. pc'[x] = pc[x] /\ ses'[x] = ses[x]
      BY <1>2, <1>3, <2>2 DEF TypeOK
    <3>2. ses[x].new # t
      BY <2>2, TokensAssumption DEF IInv, DistinctNew
    <3>3. \A y \in Issued : holder'[y] = holder[y]
      BY <1>1, <1>3, <1>4, <1>7 DEF TypeOK
    <3> QED
      BY <1>6, <3>1, <3>2, <3>3 DEF IInv, SessionOK
  <2> QED
    BY <2>1, <2>2
<1>10. DistinctNew'
  BY <1>2, <1>3, FreshSession DEF DistinctNew, IInv, TypeOK
<1>11. RotatedRevoked'
  <2> SUFFICES ASSUME NEW y \in Issued', parent'[y] # None
               PROVE  /\ parent'[y] \in Issued'
                      /\ parent'[y] \notin row' \/ parent'[y] \in revoked'
                      /\ holder'[y] = holder'[parent'[y]]
    BY DEF RotatedRevoked
  <2>1. CASE y = t
    <3>1. parent'[y] = from /\ holder'[y] = u
      BY <1>1, <1>3, <2>1 DEF TypeOK
    <3>2. from \in Issued /\ from # t /\ holder'[from] = holder[from]
      BY <1>1, <1>3, <1>4, <1>7, <3>1 DEF TypeOK
    <3> QED
      BY <1>6, <3>1, <3>2
  <2>2. CASE y # t
    <3>1. y \in Issued /\ parent'[y] = parent[y] /\ holder'[y] = holder[y]
      BY <1>1, <1>3, <1>6, <1>7, <2>2 DEF TypeOK
    <3>2. /\ parent[y] \in Issued
          /\ parent[y] \notin row \/ parent[y] \in revoked
          /\ holder[y] = holder[parent[y]]
      BY <3>1 DEF IInv, RotatedRevoked
    <3>3. parent[y] # t /\ holder'[parent[y]] = holder[parent[y]]
      BY <1>1, <1>3, <1>4, <1>7, <3>2 DEF TypeOK
    <3> QED
      BY <1>1, <1>6, <3>1, <3>2, <3>3
  <2> QED
    BY <2>1, <2>2
<1>12. LoginKnown'
  BY <1>1, <1>3, <1>6, <1>7 DEF IInv, TypeOK, LoginKnown
<1> QED
  BY <1>8, <1>9, <1>10, <1>11, <1>12 DEF IInv

-------------------------------------------------------------------------------
\* Registration.
LEMMA RegisterOK ==
    ASSUME IInv, NEW r \in Requests,
           \/ \E u \in Emails : RegisterRead(r, u)
           \/ RegisterCommit(r) \/ RegisterConflict(r)
    PROVE  IInv'
<1>1. ASSUME NEW u \in Emails, RegisterRead(r, u) PROVE IInv'
  <2> DEFINE s == [EmptySession EXCEPT !.user = u]
  <2>1. s \in Session /\ s.user = u /\ s.new = None
    BY FreshSession DEF EmptySession, Session
  <2>2. Goto(r, "register", s) /\ UNCHANGED <<accounts, tokens, parent, login>>
    BY <1>1 DEF RegisterRead, history
  <2>3. contended' \subseteq TokenIds
    BY <1>1 DEF RegisterRead, history, IInv, TypeOK
  <2> HIDE DEF s
  <2> QED
    BY <2>1, <2>2, <2>3, GotoOK DEF Labels
<1>2. ASSUME RegisterCommit(r) PROVE IInv'
  <2>1. /\ Done(r) /\ users' = users \cup {ses[r].user}
        /\ carts' = carts \cup {ses[r].user}
        /\ UNCHANGED <<disabled, row, revoked, expired, holder, parent, login,
                       contended>>
    BY <1>2 DEF RegisterCommit, tokens, history
  <2>2. ses[r].user \in Emails
    BY <1>2 DEF RegisterCommit, IInv, SessionOK
  <2>3. /\ \A x \in Requests : SessionOK(x)' /\ DistinctNew' /\ Issued' = Issued
        /\ pc' \in [Requests -> Labels] /\ ses' \in [Requests -> Session]
    BY <2>1, DoneOK
  <2>4. TypeOK'
    BY <2>1, <2>2, <2>3 DEF IInv, TypeOK
  <2>5. RotatedRevoked' /\ LoginKnown'
    BY <2>1, <2>3 DEF IInv, RotatedRevoked, LoginKnown
  <2> QED
    BY <2>3, <2>4, <2>5 DEF IInv
<1>3. ASSUME RegisterConflict(r) PROVE IInv'
  BY <1>3, RejectOK DEF RegisterConflict
<1> QED
  BY <1>1, <1>2, <1>3

\* Login.
LEMMA LoginOK ==
    ASSUME IInv, NEW r \in Requests,
           \/ \E u \in Emails, t \in TokenIds : Login(r, u, t)
           \/ IssueCommit(r)
    PROVE  IInv'
<1>1. ASSUME NEW u \in Emails, NEW t \in TokenIds, Login(r, u, t) PROVE IInv'
  <2> DEFINE s == [EmptySession EXCEPT !.user = u, !.new = t]
  <2>1. s \in Session /\ s.user = u /\ s.new = t
    BY FreshSession DEF EmptySession, Session
  <2>2. /\ Goto(r, "issue", s) /\ UNCHANGED <<accounts, tokens, parent, login>>
        /\ t \notin Issued /\ \A x \in Requests : ses[x].new # t
    BY <1>1 DEF Login, history, Fresh
  <2>3. contended' \subseteq TokenIds
    BY <1>1 DEF Login, history, IInv, TypeOK
  <2> HIDE DEF s
  <2> QED
    BY <2>1, <2>2, <2>3, GotoOK DEF Labels
<1>2. ASSUME IssueCommit(r) PROVE IInv'
  <2>1. pc[r] = "issue" /\ ses[r].new \in TokenIds /\ ses[r].user \in Emails
    BY <1>2 DEF IssueCommit, IInv, SessionOK
  <2>2. /\ Insert(ses[r].new, ses[r].user, None) /\ Done(r)
        /\ UNCHANGED <<accounts, revoked, expired, contended>>
    BY <1>2 DEF IssueCommit
  <2>3. /\ revoked \subseteq revoked' /\ revoked' \subseteq row
        /\ UNCHANGED <<accounts, expired, contended>>
    BY <2>2 DEF Insert, IInv, TypeOK
  <2>4. pc[r] \in {"issue", "rotate"} /\ None \in TokenIds \cup {None}
    BY <2>1
  <2>5. PICK t \in TokenIds, u \in Emails, f \in TokenIds \cup {None} :
        /\ t = ses[r].new /\ Insert(t, u, f)
        /\ f # None => f \in Issued /\ u = holder[f]
        /\ f # None => f \in revoked'
    BY <2>1, <2>2, <2>4
  <2> QED
    BY <2>2, <2>3, <2>4, <2>5, InsertOK
<1> QED
  BY <1>1, <1>2

\* Contending for a token is noted under its login.
LEMMA ContendTyped ==
    ASSUME IInv, NEW t \in Issued, Contend(t)
    PROVE  contended' \subseteq TokenIds
BY DEF IInv, TypeOK, LoginKnown, Contend

\* Rotation.
LEMMA RefreshOK ==
    ASSUME IInv, NEW r \in Requests,
           \/ \E t, new \in TokenIds : RefreshRead(r, t, new)
           \/ RefreshUser(r) \/ RefreshDisabled(r)
           \/ RotateCommit(r) \/ RotateConflict(r)
    PROVE  IInv'
<1>1. ASSUME NEW t \in TokenIds, NEW new \in TokenIds, RefreshRead(r, t, new)
      PROVE  IInv'
  <2> DEFINE s == [EmptySession EXCEPT !.user = holder[t], !.token = t, !.new = new]
  <2>1. t \in Issued /\ holder[t] \in Emails
    BY <1>1 DEF RefreshRead, Usable, IInv, TypeOK, Issued
  <2>2. s \in Session /\ s.user = holder[t] /\ s.token = t /\ s.new = new
    BY <2>1, FreshSession DEF EmptySession, Session
  <2>3. /\ Goto(r, "refresh_user", s)
        /\ UNCHANGED <<accounts, tokens, parent, login>>
        /\ new \notin Issued /\ \A x \in Requests : ses[x].new # new
    BY <1>1 DEF RefreshRead, Fresh
  <2>4. contended' \subseteq TokenIds
    BY <1>1, <2>1, ContendTyped DEF RefreshRead
  <2> HIDE DEF s
  <2> QED
    BY <2>1, <2>2, <2>3, <2>4, GotoOK DEF Labels
<1>2. ASSUME RefreshUser(r) PROVE IInv'
  <2> DEFINE s == ses[r]
  <2>1. /\ s \in Session /\ s.new \in TokenIds /\ s.new \notin Issued
        /\ s.token \in Issued /\ s.user = holder[s.token]
    BY <1>2 DEF RefreshUser, IInv, TypeOK, SessionOK
  <2>2. /\ Goto(r, "rotate", s) /\ UNCHANGED <<accounts, tokens, parent, login>>
        /\ contended' = contended
    BY <1>2 DEF RefreshUser, history
  <2>3. contended' \subseteq TokenIds
    BY <2>2 DEF IInv, TypeOK
  <2>4. \A x \in Requests \ {r} : ses[x].new # s.new
    BY <2>1, TokensAssumption DEF IInv, DistinctNew
  <2> HIDE DEF s
  <2> QED
    BY <2>1, <2>2, <2>3, <2>4, GotoOK DEF Labels
<1>3. ASSUME RefreshDisabled(r) PROVE IInv'
  BY <1>3, RejectOK DEF RefreshDisabled
<1>4. ASSUME RotateCommit(r) PROVE IInv'
  <2> DEFINE s == ses[r]
  <2>1. /\ s.new \in TokenIds /\ s.token \in Issued /\ s.user = holder[s.token]
        /\ pc[r] \in {"issue", "rotate"}
    BY <1>4 DEF RotateCommit, IInv, SessionOK
  <2>2. s.user \in Emails
    BY <2>1 DEF IInv, TypeOK, Issued
  <2>3. /\ Insert(s.new, s.user, s.token) /\ Done(r)
        /\ UNCHANGED <<accounts, expired, contended>>
        /\ s.token \in row /\ revoked' = revoked \cup {s.token}
    BY <1>4 DEF RotateCommit
  <2>4. /\ revoked \subseteq revoked' /\ revoked' \subseteq row
        /\ s.token \in revoked'
    BY <2>3 DEF Insert, IInv, TypeOK
  <2>5. PICK t \in TokenIds, u \in Emails, f \in TokenIds \cup {None} :
        /\ t = ses[r].new /\ Insert(t, u, f)
        /\ f # None => f \in Issued /\ u = holder[f]
        /\ f # None => f \in revoked'
    BY <2>1, <2>2, <2>3, <2>4 DEF Issued
  <2> QED
    BY <2>1, <2>3, <2>4, <2>5, InsertOK
<1>5. ASSUME RotateConflict(r) PROVE IInv'
  BY <1>5, RejectOK DEF RotateConflict
<1> QED
  BY <1>1, <1>2, <1>3, <1>4, <1>5

\* Logout.
LEMMA LogoutOK ==
    ASSUME IInv, NEW r \in Requests,
           \/ \E t \in TokenIds : LogoutRead(r, t)
           \/ LogoutCommit(r) \/ LogoutConflict(r)
    PROVE  IInv'
<1>1. ASSUME NEW t \in TokenIds, LogoutRead(r, t) PROVE IInv'
  <2> DEFINE s == [EmptySession EXCEPT !.token = t, !.revoked = t \in revoked]
  <2>1. t \in Issued
    BY <1>1 DEF LogoutRead, IInv, TypeOK
  <2>2. s \in Session /\ s.token = t /\ s.new = None
    <3> DEFINE loaded(b) == [EmptySession EXCEPT !.token = t, !.revoked = b]
    <3>1. ASSUME NEW b \in BOOLEAN
          PROVE  loaded(b) \in Session /\ loaded(b).token = t /\ loaded(b).new = None
      BY FreshSession DEF EmptySession, Session
    <3>2. (t \in revoked) \in BOOLEAN
      OBVIOUS
    <3>3. s = loaded(t \in revoked)
      OBVIOUS
    <3> HIDE DEF s, loaded
    <3> QED
      BY <3>1, <3>2, <3>3, Zenon
  <2>3. Goto(r, "logout", s) /\ UNCHANGED <<accounts, tokens, parent, login>>
    BY <1>1 DEF LogoutRead
  <2>4. contended' \subseteq TokenIds
    BY <1>1, <2>1, ContendTyped DEF LogoutRead
  <2> HIDE DEF s
  <2> QED
    BY <2>1, <2>2, <2>3, <2>4, GotoOK DEF Labels
<1>2. ASSUME LogoutCommit(r) PROVE IInv'
  <2>1. /\ Done(r) /\ revoked \subseteq revoked' /\ revoked' \subseteq row
        /\ UNCHANGED <<users, carts, disabled, row, expired, holder, parent,
                       login, contended>>
    BY <1>2 DEF LogoutCommit, accounts, history, IInv, TypeOK
  <2>2. /\ \A x \in Requests : SessionOK(x)' /\ DistinctNew' /\ Issued' = Issued
        /\ pc' \in [Requests -> Labels] /\ ses' \in [Requests -> Session]
    BY <2>1, DoneOK
  <2>3. TypeOK'
    BY <2>1, <2>2 DEF IInv, TypeOK
  <2>4. RotatedRevoked' /\ LoginKnown'
    BY <2>1, <2>2 DEF IInv, RotatedRevoked, LoginKnown
  <2> QED
    BY <2>2, <2>3, <2>4 DEF IInv
<1>3. ASSUME LogoutConflict(r) PROVE IInv'
  BY <1>3, RejectOK DEF LogoutConflict
<1> QED
  BY <1>1, <1>2, <1>3

\* The daily task, the clock and the operator: no request is involved.
LEMMA EnvironmentOK ==
    ASSUME IInv,
           \/ CleanupTokens
           \/ \E t \in TokenIds : TokenExpires(t)
           \/ \E u \in Emails : Disable(u)
    PROVE  IInv'
<1>1. /\ UNCHANGED <<users, carts, holder, parent, login, contended, pc, ses>>
      /\ disabled' \subseteq users /\ row' \subseteq row
      /\ expired \subseteq expired' /\ expired' \subseteq Issued
      /\ revoked' = revoked \cap row'
  BY DEF CleanupTokens, TokenExpires, Disable, accounts, tokens, history,
         IInv, TypeOK
<1>2. Issued' = Issued
  BY <1>1 DEF Issued
<1>3. TypeOK'
  BY <1>1, <1>2 DEF IInv, TypeOK
<1>4. \A r \in Requests : SessionOK(r)'
  BY <1>1, <1>2 DEF IInv, SessionOK
<1>5. DistinctNew'
  BY <1>1 DEF IInv, DistinctNew
<1>6. RotatedRevoked' /\ LoginKnown'
  BY <1>1, <1>2 DEF IInv, RotatedRevoked, LoginKnown
<1> QED
  BY <1>3, <1>4, <1>5, <1>6 DEF IInv

-------------------------------------------------------------------------------
\* Every step preserves the invariant.
LEMMA NextIInv == IInv /\ [Next]_vars => IInv'
<1> SUFFICES ASSUME IInv, [Next]_vars PROVE IInv'
  OBVIOUS
<1>1. CASE UNCHANGED vars
  <2>1. UNCHANGED <<users, carts, disabled, row, revoked, expired, holder,
                    parent, login, contended, pc, ses>>
    BY <1>1 DEF vars, accounts, tokens, history
  <2>2. Issued' = Issued
    BY <2>1 DEF Issued
  <2> QED
    BY <2>1, <2>2 DEF IInv, TypeOK, SessionOK, DistinctNew, RotatedRevoked,
                      LoginKnown
<1>2. ASSUME NEW r \in Requests, Crash(r) PROVE IInv'
  BY <1>2, RejectOK DEF Crash
<1> QED
  BY <1>1, <1>2, RegisterOK, LoginOK, RefreshOK, LogoutOK, EnvironmentOK DEF Next

\* The invariant holds throughout.
LEMMA Invariance == Spec => []IInv
BY InitIInv, NextIInv, PTL DEF Spec

\* Accounts, tokens and sessions keep their types, and every user has a cart.
THEOREM TypeCorrect == Spec => []TypeOK
<1>1. IInv => TypeOK
  BY DEF IInv
<1> QED
  BY <1>1, Invariance, PTL

\* refresh_token_endpoint: a token that was rotated is never accepted again,
\* however the requests interleave, and its successor has the same holder.
THEOREM RotationSafe == Spec => []RotatedIsDead
<1>1. IInv => RotatedIsDead
  BY DEF IInv, RotatedRevoked, RotatedIsDead, Usable
<1> QED
  BY <1>1, Invariance, PTL

\* No request, task or passage of time makes an unusable token usable.
THEOREM NeverRevived == Spec => NeverUsableAgain
<1>1. IInv /\ [Next]_vars =>
        [\A t \in Issued : ~Usable(t) => ~Usable(t)']_vars
  <2> SUFFICES ASSUME IInv, Next, NEW t \in Issued, ~Usable(t)
               PROVE  ~Usable(t)'
    BY DEF Usable
  <2>1. /\ \A r \in Requests : pc[r] \in {"issue", "rotate"} => ses[r].new # t
        /\ revoked \subseteq row
    BY DEF IInv, TypeOK, SessionOK
  <2>2. CASE UNCHANGED <<row, revoked, expired>>
    BY <2>2 DEF Usable
  <2>3. ASSUME NEW r \in Requests, IssueCommit(r) \/ RotateCommit(r)
        PROVE  ~Usable(t)'
    BY <2>1, <2>3 DEF IssueCommit, RotateCommit, Insert, Usable
  <2>4. ASSUME NEW r \in Requests, LogoutCommit(r) PROVE ~Usable(t)'
    BY <2>4 DEF LogoutCommit, Usable
  <2>5. CASE CleanupTokens
    BY <2>5 DEF CleanupTokens, Usable
  <2>6. ASSUME NEW x \in TokenIds, TokenExpires(x) PROVE ~Usable(t)'
    BY <2>6 DEF TokenExpires, Usable
  <2>7. ASSUME NEW r \in Requests,
               \/ \E u \in Emails : RegisterRead(r, u)
               \/ \E u \in Emails, x \in TokenIds : Login(r, u, x)
               \/ \E x, new \in TokenIds : RefreshRead(r, x, new)
               \/ \E x \in TokenIds : LogoutRead(r, x)
               \/ RegisterCommit(r) \/ RegisterConflict(r)
               \/ RefreshUser(r) \/ RefreshDisabled(r) \/ RotateConflict(r)
               \/ LogoutConflict(r) \/ Crash(r)
        PROVE  UNCHANGED <<row, revoked, expired>>
    BY <2>7 DEF RegisterRead, Login, RefreshRead, LogoutRead, RegisterCommit,
                RegisterConflict, RefreshUser, RefreshDisabled, RotateConflict,
                LogoutConflict, Crash, Reject, tokens
  <2>8. ASSUME NEW u \in Emails, Disable(u) PROVE UNCHANGED <<row, revoked, expired>>
    BY <2>8 DEF Disable, tokens
  <2> QED
    BY <2>2, <2>3, <2>4, <2>5, <2>6, <2>7, <2>8 DEF Next
<1> QED
  BY <1>1, Invariance, PTL DEF Spec, NeverUsableAgain

-------------------------------------------------------------------------------
(***************************************************************************)
(* One usable token per login, unless two requests raced on its tokens.    *)
(* A token that was neither revoked nor deleted is live, expired or not: a *)
(* rotation that read it before it expired still goes through.             *)
(***************************************************************************)
Live == row \ revoked

\* A login that nobody contended for has one live token.
OneLive ==
    \A t, x \in Live : login[t] = login[x] /\ login[t] \notin contended => t = x

\* The token that a rotation read is not revoked by anyone else, nor has the
\* login got another one.
StillLive ==
    \A r \in Requests :
        /\ pc[r] \in {"refresh_user", "rotate"}
        /\ login[ses[r].token] \notin contended
        => ses[r].token \notin revoked

\* Two requests that loaded tokens of one login have contended for it.
Exclusive ==
    \A r, x \in Requests :
        /\ r # x
        /\ ses[r].token # None /\ ses[x].token # None
        /\ login[ses[r].token] = login[ses[x].token]
        => login[ses[r].token] \in contended

OneInv ==
    /\ \A t \in Issued : login[t] \in Issued
    /\ \A r \in Requests : ses[r].token # None => ses[r].token \in Issued
    /\ OneLive /\ StillLive /\ Exclusive

\* A step that ends a request, which at most revoked the token it had loaded.
LEMMA OneDone ==
    ASSUME IInv, OneInv, NEW r \in Requests, Done(r),
           UNCHANGED <<holder, login, contended>>,
           Live' \subseteq Live,
           \A t \in revoked' : t \in revoked \/ t = ses[r].token
    PROVE  OneInv'
<1>1. /\ pc' = [pc EXCEPT ![r] = "idle"] /\ ses' = [ses EXCEPT ![r] = EmptySession]
      /\ UNCHANGED <<holder, login, contended>>
      /\ pc \in [Requests -> Labels] /\ ses \in [Requests -> Session]
  BY DEF Done, Goto, IInv, TypeOK
<1>2. ses'[r].token = None /\ pc'[r] = "idle"
  BY <1>1, FreshSession
<1>3. \A x \in Requests \ {r} : pc'[x] = pc[x] /\ ses'[x] = ses[x]
  BY <1>1
<1>4. Issued' = Issued
  BY <1>1 DEF Issued
<1>5. /\ \A t \in Issued' : login'[t] \in Issued'
      /\ \A x \in Requests : ses'[x].token # None => ses'[x].token \in Issued'
  BY <1>1, <1>2, <1>3, <1>4 DEF OneInv
<1>6. OneLive'
  BY <1>1 DEF OneInv, OneLive
<1>7. StillLive'
  <2> SUFFICES ASSUME NEW x \in Requests, pc'[x] \in {"refresh_user", "rotate"},
                      login'[ses'[x].token] \notin contended'
               PROVE  ses'[x].token \notin revoked'
    BY DEF StillLive
  <2>1. x # r /\ pc'[x] = pc[x] /\ ses'[x] = ses[x]
    BY <1>2, <1>3
  <2>2. ses[x].token \notin revoked
    BY <1>1, <2>1 DEF OneInv, StillLive
  <2>3. ses[x].token # None
    BY <2>1, TokensAssumption DEF IInv, SessionOK, Issued
  <2>4. ses[x].token # ses[r].token
    BY <1>1, <2>1, <2>3 DEF OneInv, Exclusive
  <2> QED
    BY <2>1, <2>2, <2>4
<1>8. Exclusive'
  BY <1>1, <1>2, <1>3 DEF OneInv, Exclusive
<1> QED
  BY <1>5, <1>6, <1>7, <1>8 DEF OneInv

\* A step that loads s, or goes on with it, and writes nothing: contention is
\* noted.
LEMMA OneGoto ==
    ASSUME IInv, OneInv, NEW r \in Requests, NEW label, NEW s,
           Goto(r, label, s),
           UNCHANGED <<row, revoked, holder, login>>,
           contended \subseteq contended',
           s.token # None => s.token \in Issued,
           \A x \in Requests \ {r} :
              s.token # None /\ ses[x].token # None
              /\ login[ses[x].token] = login[s.token]
              => login[s.token] \in contended',
           label \in {"refresh_user", "rotate"}
              /\ login[s.token] \notin contended' => s.token \notin revoked
    PROVE  OneInv'
<1>1. /\ pc' = [pc EXCEPT ![r] = label] /\ ses' = [ses EXCEPT ![r] = s]
      /\ pc \in [Requests -> Labels] /\ ses \in [Requests -> Session]
      /\ UNCHANGED <<row, revoked, holder, login>>
  BY DEF Goto, IInv, TypeOK
<1>2. ses'[r] = s /\ pc'[r] = label
  BY <1>1
<1>3. \A x \in Requests \ {r} : pc'[x] = pc[x] /\ ses'[x] = ses[x]
  BY <1>1
<1>4. Issued' = Issued /\ Live' = Live
  BY <1>1 DEF Issued, Live
<1>5. /\ \A t \in Issued' : login'[t] \in Issued'
      /\ \A x \in Requests : ses'[x].token # None => ses'[x].token \in Issued'
  BY <1>1, <1>2, <1>3, <1>4 DEF OneInv
<1>6. OneLive'
  BY <1>1, <1>4 DEF OneInv, OneLive
<1>7. ASSUME NEW x \in Requests, pc'[x] \in {"refresh_user", "rotate"},
             login'[ses'[x].token] \notin contended'
      PROVE  ses'[x].token \notin revoked'
  <2>1. CASE x = r
    BY <1>1, <1>2, <1>7, <2>1
  <2>2. CASE x # r
    BY <1>1, <1>3, <1>7, <2>2 DEF OneInv, StillLive
  <2> QED
    BY <2>1, <2>2
<1>8. ASSUME NEW a \in Requests, NEW b \in Requests, a # b,
             ses'[a].token # None, ses'[b].token # None,
             login'[ses'[a].token] = login'[ses'[b].token]
      PROVE  login'[ses'[a].token] \in contended'
  <2>1. CASE a = r
    BY <1>1, <1>2, <1>3, <1>8, <2>1
  <2>2. CASE b = r
    BY <1>1, <1>2, <1>3, <1>8, <2>2
  <2>3. CASE a # r /\ b # r
    BY <1>1, <1>3, <1>8, <2>3 DEF OneInv, Exclusive
  <2> QED
    BY <2>1, <2>2, <2>3
<1> QED
  BY <1>5, <1>6, <1>7, <1>8 DEF OneInv, StillLive, Exclusive

\* The first token of a login is the only one it has.
LEMMA OneIssued ==
    ASSUME IInv, OneInv, NEW r \in Requests, IssueCommit(r) \/ RotateCommit(r)
    PROVE  OneInv'
<1> DEFINE t == ses[r].new
           from == ses[r].token
<1>1. /\ pc' = [pc EXCEPT ![r] = "idle"] /\ ses' = [ses EXCEPT ![r] = EmptySession]
      /\ pc \in [Requests -> Labels] /\ ses \in [Requests -> Session]
      /\ contended' = contended /\ revoked \subseteq row /\ row \subseteq Issued
      /\ row' = row \cup {t}
  BY DEF IssueCommit, RotateCommit, Insert, Done, Goto, IInv, TypeOK
<1>2. t \in TokenIds /\ t \notin Issued
  BY DEF IssueCommit, RotateCommit, IInv, SessionOK
<1>3. \/ /\ login' = [login EXCEPT ![t] = t] /\ revoked' = revoked
      \/ /\ login' = [login EXCEPT ![t] = login[from]]
         /\ revoked' = revoked \cup {from}
         /\ from \in row
         /\ login[from] \notin contended => from \in Live
         /\ from # None
  <2>1. CASE IssueCommit(r)
    BY <2>1 DEF IssueCommit, Insert
  <2>2. CASE RotateCommit(r)
    <3>1. /\ pc[r] = "rotate" /\ from \in row
          /\ login' = [login EXCEPT ![t] = IF from = None THEN t ELSE login[from]]
          /\ revoked' = revoked \cup {from}
      BY <2>2 DEF RotateCommit, Insert
    <3>2. from # None
      BY <3>1, TokensAssumption DEF IInv, SessionOK, Issued
    <3>3. login[from] \notin contended => from \in Live
      BY <3>1 DEF OneInv, StillLive, Live
    <3> QED
      BY <3>1, <3>2, <3>3
  <2> QED
    BY <2>1, <2>2
<1>4. /\ login \in [TokenIds -> TokenIds \cup {None}]
      /\ holder \in [TokenIds -> Emails \cup {None}] /\ Issued \subseteq TokenIds
  BY DEF IInv, TypeOK, Issued
<1>5. Issued' = Issued \cup {t}
  <2>1. \E u \in Emails : holder' = [holder EXCEPT ![t] = u]
    BY DEF IssueCommit, RotateCommit, Insert, IInv, SessionOK, TypeOK, Issued
  <2> QED
    BY <1>2, <1>4, <2>1, TokensAssumption DEF Issued
<1>6. /\ ses'[r].token = None /\ pc'[r] = "idle"
      /\ \A x \in Requests \ {r} : pc'[x] = pc[x] /\ ses'[x] = ses[x]
  BY <1>1, FreshSession
<1> HIDE DEF t, from
<1>7. \A x \in Issued : login'[x] = login[x] /\ login[x] \in Issued /\ x # t
  BY <1>2, <1>3, <1>4 DEF OneInv
<1>8. \A x \in Issued' : login'[x] \in Issued'
  <2>1. login'[t] = t \/ (from \in row /\ login'[t] = login[from])
    BY <1>2, <1>3, <1>4
  <2> QED
    BY <1>1, <1>5, <1>7, <2>1
<1>9. \A x \in Requests : ses'[x].token # None => ses'[x].token \in Issued'
  BY <1>5, <1>6 DEF OneInv
<1>10. OneLive'
  <2> SUFFICES ASSUME NEW x \in Live', NEW y \in Live', x # y,
                      login'[x] = login'[y], login'[x] \notin contended'
               PROVE  FALSE
    BY DEF OneLive
  <2>1. Live \subseteq Issued /\ Live' \subseteq Live \cup {t}
    BY <1>1, <1>3 DEF Live
  <2>2. CASE x # t /\ y # t
    BY <1>1, <1>7, <2>1, <2>2 DEF OneInv, OneLive
  <2>3. ASSUME NEW z \in Live', z # t, login'[z] = login'[t],
               login'[t] \notin contended'
        PROVE  FALSE
    <3>1. z \in Live /\ z \in Issued /\ login[z] \in Issued /\ login'[z] = login[z]
      BY <1>7, <2>1, <2>3
    <3>2. login'[t] # t
      BY <1>2, <2>3, <3>1
    <3>3. /\ login'[t] = login[from] /\ from \in revoked'
          /\ login[from] \notin contended => from \in Live
      BY <1>2, <1>3, <1>4, <3>2
    <3>4. z = from
      BY <1>1, <2>3, <3>1, <3>3 DEF OneInv, OneLive
    <3> QED
      BY <2>3, <3>3, <3>4 DEF Live
  <2> QED
    BY <2>2, <2>3
<1>11. StillLive'
  <2> SUFFICES ASSUME NEW x \in Requests, pc'[x] \in {"refresh_user", "rotate"},
                      login'[ses'[x].token] \notin contended'
               PROVE  ses'[x].token \notin revoked'
    BY DEF StillLive
  <2>1. x # r /\ pc'[x] = pc[x] /\ ses'[x] = ses[x]
    BY <1>6
  <2>2. ses[x].token \in Issued /\ ses[x].token # None
    BY <2>1, TokensAssumption DEF IInv, SessionOK, Issued
  <2>3. login'[ses[x].token] = login[ses[x].token]
    BY <1>7, <2>2
  <2>4. ses[x].token \notin revoked
    BY <1>1, <2>1, <2>3 DEF OneInv, StillLive
  <2>5. from # None => ses[x].token # from
    BY <1>1, <2>1, <2>2, <2>3 DEF OneInv, Exclusive, from
  <2> QED
    BY <1>3, <2>1, <2>4, <2>5
<1>12. Exclusive'
  <2> SUFFICES ASSUME NEW a \in Requests, NEW b \in Requests, a # b,
                      ses'[a].token # None, ses'[b].token # None,
                      login'[ses'[a].token] = login'[ses'[b].token]
               PROVE  login'[ses'[a].token] \in contended'
    BY DEF Exclusive
  <2>1. ses'[a] = ses[a] /\ ses'[b] = ses[b]
    BY <1>6
  <2>2. ses[a].token \in Issued /\ ses[b].token \in Issued
    BY <2>1 DEF OneInv
  <2>3. /\ login'[ses[a].token] = login[ses[a].token]
        /\ login'[ses[b].token] = login[ses[b].token]
    BY <1>7, <2>2
  <2> QED
    BY <1>1, <2>1, <2>3 DEF OneInv, Exclusive
<1> QED
  BY <1>8, <1>9, <1>10, <1>11, <1>12 DEF OneInv

\* The steps that load a token note who else works on its login.
LEMMA OneLoaded ==
    ASSUME IInv, OneInv, NEW r \in Requests, NEW t \in Issued, Contend(t),
           NEW label \in {"refresh_user", "logout"},
           label = "refresh_user" => t \notin revoked,
           NEW s, s.token = t, Goto(r, label, s), pc[r] = "idle",
           UNCHANGED <<row, revoked, holder, login>>
    PROVE  OneInv'
<1>1. contended \subseteq contended'
  BY DEF Contend
<1>2. ASSUME NEW x \in Requests \ {r}, ses[x].token # None,
             login[ses[x].token] = login[s.token]
      PROVE  login[s.token] \in contended'
  BY <1>2 DEF Contend, WorkingOn
<1> QED
  BY <1>1, <1>2, OneGoto

\* Every step preserves it.
LEMMA OneNext == IInv /\ OneInv /\ [Next]_vars => OneInv'
<1> SUFFICES ASSUME IInv, OneInv, [Next]_vars PROVE OneInv'
  OBVIOUS
<1>1. ASSUME UNCHANGED <<holder, login, contended, pc, ses>>,
             Live' \subseteq Live, revoked' \subseteq revoked
      PROVE  OneInv'
  <2>1. Issued' = Issued
    BY <1>1 DEF Issued
  <2> QED
    BY <1>1, <2>1 DEF OneInv, OneLive, StillLive, Exclusive
<1>2. CASE UNCHANGED vars
  BY <1>1, <1>2 DEF vars, tokens, history, Live
<1>3. CASE CleanupTokens
  BY <1>1, <1>3 DEF CleanupTokens, history, Live
<1>4. ASSUME NEW t \in TokenIds, TokenExpires(t) PROVE OneInv'
  BY <1>1, <1>4 DEF TokenExpires, history, Live
<1>5. ASSUME NEW u \in Emails, Disable(u) PROVE OneInv'
  BY <1>1, <1>5 DEF Disable, tokens, history, Live
<1>6. ASSUME NEW r \in Requests, Reject(r) \/ RegisterCommit(r) \/ LogoutCommit(r)
      PROVE  OneInv'
  <2>1. Done(r) /\ UNCHANGED <<holder, login, contended>>
    BY <1>6 DEF Reject, RegisterCommit, LogoutCommit, tokens, history
  <2>2. Live' \subseteq Live /\ \A t \in revoked' : t \in revoked \/ t = ses[r].token
    BY <1>6 DEF Reject, RegisterCommit, LogoutCommit, tokens, Live
  <2> QED
    BY <2>1, <2>2, OneDone
<1>7. ASSUME NEW r \in Requests, NEW label \in {"register", "issue"},
             NEW s, s.token = None, Goto(r, label, s), UNCHANGED <<tokens, history>>
      PROVE  OneInv'
  <2>1. UNCHANGED <<row, revoked, holder, login>> /\ contended \subseteq contended'
    BY <1>7 DEF tokens, history
  <2> QED
    BY <1>7, <2>1, OneGoto
<1>8. ASSUME NEW r \in Requests, NEW u \in Emails, RegisterRead(r, u) PROVE OneInv'
  <2> DEFINE s == [EmptySession EXCEPT !.user = u]
  <2>1. s.token = None
    BY FreshSession DEF EmptySession
  <2>2. Goto(r, "register", s) /\ UNCHANGED <<tokens, history>>
    BY <1>8 DEF RegisterRead
  <2> HIDE DEF s
  <2> QED
    BY <1>7, <2>1, <2>2
<1>9. ASSUME NEW r \in Requests, NEW u \in Emails, NEW t \in TokenIds, Login(r, u, t)
      PROVE  OneInv'
  <2> DEFINE s == [EmptySession EXCEPT !.user = u, !.new = t]
  <2>1. s.token = None
    BY FreshSession DEF EmptySession
  <2>2. Goto(r, "issue", s) /\ UNCHANGED <<tokens, history>>
    BY <1>9 DEF Login
  <2> HIDE DEF s
  <2> QED
    BY <1>7, <2>1, <2>2
<1>10. ASSUME NEW r \in Requests, NEW t \in TokenIds, NEW new \in TokenIds,
              RefreshRead(r, t, new)
       PROVE  OneInv'
  <2> DEFINE s == [EmptySession EXCEPT !.user = holder[t], !.token = t, !.new = new]
  <2>1. s.token = t
    BY FreshSession DEF EmptySession
  <2>2. /\ t \in Issued /\ t \notin revoked /\ Contend(t) /\ pc[r] = "idle"
        /\ Goto(r, "refresh_user", s) /\ UNCHANGED <<row, revoked, holder, login>>
    BY <1>10 DEF RefreshRead, Usable, tokens, IInv, TypeOK
  <2> HIDE DEF s
  <2> QED
    BY <2>1, <2>2, OneLoaded
<1>11. ASSUME NEW r \in Requests, NEW t \in TokenIds, LogoutRead(r, t) PROVE OneInv'
  <2> DEFINE s == [EmptySession EXCEPT !.token = t, !.revoked = t \in revoked]
  <2>1. s.token = t
    BY FreshSession DEF EmptySession
  <2>2. /\ t \in Issued /\ Contend(t) /\ pc[r] = "idle"
        /\ Goto(r, "logout", s) /\ UNCHANGED <<row, revoked, holder, login>>
    BY <1>11 DEF LogoutRead, tokens, IInv, TypeOK
  <2> HIDE DEF s
  <2> QED
    BY <2>1, <2>2, OneLoaded
<1>12. ASSUME NEW r \in Requests, RefreshUser(r) PROVE OneInv'
  <2> DEFINE s == ses[r]
  <2>1. /\ Goto(r, "rotate", s) /\ UNCHANGED <<row, revoked, holder, login>>
        /\ contended' = contended /\ pc[r] = "refresh_user"
    BY <1>12 DEF RefreshUser, tokens, history
  <2>2. /\ s.token # None => s.token \in Issued
        /\ login[s.token] \notin contended => s.token \notin revoked
        /\ \A x \in Requests \ {r} :
              s.token # None /\ ses[x].token # None
              /\ login[ses[x].token] = login[s.token]
              => login[s.token] \in contended
    BY <2>1 DEF OneInv, StillLive, Exclusive
  <2> HIDE DEF s
  <2> QED
    BY <2>1, <2>2, OneGoto
<1>13. ASSUME NEW r \in Requests,
              \/ RegisterConflict(r) \/ RefreshDisabled(r) \/ RotateConflict(r)
              \/ LogoutConflict(r) \/ Crash(r)
       PROVE  OneInv'
  BY <1>6, <1>13
  DEF RegisterConflict, RefreshDisabled, RotateConflict, LogoutConflict, Crash
<1> QED
  BY <1>2, <1>3, <1>4, <1>5, <1>6, <1>8, <1>9, <1>10, <1>11, <1>12, <1>13, OneIssued
  DEF Next

\* Rotation leaves a login with one usable token: only two requests that work
\* on its tokens at a time, both past the check, can leave it with two.
THEOREM OneTokenEach == Spec => []OneTokenPerLogin
<1>1. Init => OneInv
  <2> SUFFICES ASSUME Init PROVE OneInv
    OBVIOUS
  <2>1. Issued = {} /\ Live = {}
    BY DEF Init, Issued, Live
  <2>2. \A r \in Requests : ses[r].token = None /\ pc[r] = "idle"
    BY FreshSession DEF Init
  <2> QED
    BY <2>1, <2>2 DEF OneInv, OneLive, StillLive, Exclusive
<1>2. OneInv => OneTokenPerLogin
  BY DEF OneInv, OneLive, Live, OneTokenPerLogin, Usable
<1> QED
  BY <1>1, <1>2, Invariance, OneNext, PTL DEF Spec

===============================================================================
