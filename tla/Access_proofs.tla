---------------------------- MODULE Access_proofs ----------------------------
(***************************************************************************)
(* Proofs about who is let in: the refresh tokens of an account, and the   *)
(* clients the broker knows for the plugs.                                 *)
(***************************************************************************)
EXTENDS Tokens, Provisioning, TLAPS

----------------------------------------------------------------------------
(***************************************************************************)
(* The rotation of refresh tokens keeps one way in per sign-in, for any    *)
(* numbers of accounts, tokens and requests.  A sign-in is named by its    *)
(* first token; the invariant adds that whatever mentions a sign-in does   *)
(* so after that token was issued, so that a new sign-in starts alone, and *)
(* that nobody refreshes or signs out with a token that was never issued.  *)
(***************************************************************************)

Rows == [st : {"valid", "revoked", "expired"}, login : Tokens, email : Emails]
Registering == [pc : {"register"}, email : Emails]
Issuing     == [pc : {"issue"}, login : Tokens \cup {NoToken}, email : Emails]
Presenting  == [pc : {"refresh", "logout"}, t : Tokens]
RequestKinds == {NoRequest} \cup Registering \cup Issuing \cup Presenting

TokensTypeOK ==
    /\ token \in [Tokens -> {Unused} \cup Rows]
    /\ cookie \in [Emails -> Tokens \cup {NoToken}]
    /\ auth \in [Requests -> RequestKinds]
    /\ users \subseteq Emails

Used(t) == token[t] # Unused

LoginsAreUsed ==
    /\ \A t \in Tokens : Used(t) => Used(token[t].login)
    /\ \A q \in Requests : auth[q] \in Issuing /\ auth[q].login # NoToken =>
                               Used(auth[q].login)
    /\ \A q \in Requests : auth[q] \in Presenting => Used(auth[q].t)

\* OneTokenPerLogin for one sign-in, without its sets.
IsValid(t, login) == token[t].st = "valid" /\ token[t].login = login
IsIssue(q, login) == At(q, "issue") /\ auth[q].login = login
OneWayIn(login) ==
    /\ \A t, u \in Tokens : IsValid(t, login) /\ IsValid(u, login) => t = u
    /\ \A q, r \in Requests : IsIssue(q, login) /\ IsIssue(r, login) => q = r
    /\ \A t \in Tokens, q \in Requests : ~(IsValid(t, login) /\ IsIssue(q, login))
OneWayInEach == \A login \in Tokens \ shared : OneWayIn(login)

TokensInv == TokensTypeOK /\ LoginsAreUsed /\ OneWayInEach

----------------------------------------------------------------------------
LEMMA WaysIn == OneWayInEach => OneTokenPerLogin
BY DEF OneWayInEach, OneWayIn, IsValid, IsIssue, OneTokenPerLogin

LEMMA RequestKind ==
    /\ \A r \in Rows : r # Unused /\ r.st # "unused" /\ r.login \in Tokens /\ r.email \in Emails
    /\ Unused.st = "unused"
    /\ \A o \in Registering : o.pc = "register" /\ o \notin Issuing /\ o \notin Presenting
    /\ \A o \in Issuing : o.pc = "issue" /\ o \notin Presenting
    /\ \A o \in Presenting : o.pc \in {"refresh", "logout"} /\ o \notin Issuing /\ o.t \in Tokens
    /\ NoRequest.pc = "none" /\ NoRequest \notin Issuing /\ NoRequest \notin Presenting
BY DEF Rows, Unused, Registering, Issuing, Presenting, NoRequest

LEMMA AuthMoves ==
    ASSUME TokensTypeOK, NEW q \in Requests, NEW o \in RequestKinds, Goto(q, o)
    PROVE  /\ auth' \in [Requests -> RequestKinds]
           /\ auth'[q] = o
           /\ \A r \in Requests : r # q => auth'[r] = auth[r]
BY DEF TokensTypeOK, Goto

LEMMA TokenMoves ==
    ASSUME TokensTypeOK, NEW t \in Tokens, NEW r \in Rows, token' = [token EXCEPT ![t] = r]
    PROVE  /\ token' \in [Tokens -> {Unused} \cup Rows]
           /\ token'[t] = r
           /\ \A u \in Tokens : u # t => token'[u] = token[u]
           /\ \A u \in Tokens : Used(u) => Used(u)'
BY RequestKind DEF TokensTypeOK, Used

\* Fewer ways in are no more than one.
LEMMA WaysInLost ==
    ASSUME OneWayInEach, shared \subseteq shared',
           \A t \in Tokens, l \in Tokens : IsValid(t, l)' => IsValid(t, l),
           \A q \in Requests, l \in Tokens : IsIssue(q, l)' => IsIssue(q, l)
    PROVE  OneWayInEach'
BY DEF OneWayInEach, OneWayIn

\* A request that ends, or begins with anything but an issue, takes no way in.
LEMMA RequestMoves ==
    ASSUME TokensInv, NEW q \in Requests, NEW o \in RequestKinds, Goto(q, o),
           o \in Issuing => o.login = NoToken, o \in Presenting => Used(o.t),
           UNCHANGED <<token, shared>>,
           cookie' \in [Emails -> Tokens \cup {NoToken}], users' \subseteq Emails
    PROVE  TokensInv'
<1> USE DEF TokensInv
<1>1. TokensTypeOK'
  BY AuthMoves DEF TokensTypeOK
<1>2. LoginsAreUsed'
  BY AuthMoves DEF LoginsAreUsed, Used
<1>3. OneWayInEach'
  <2>1. \A t \in Tokens, l \in Tokens : IsValid(t, l)' => IsValid(t, l)
    BY DEF IsValid
  <2>2. o.pc = "issue" => o \in Issuing
    BY RequestKind DEF RequestKinds
  <2>3. \A r \in Requests, l \in Tokens : IsIssue(r, l)' => IsIssue(r, l)
    BY <2>2, AuthMoves, TokensAssumption DEF IsIssue, At
  <2> QED  BY <2>1, <2>3, WaysInLost
<1> QED  BY <1>1, <1>2, <1>3

\* A token that is no longer valid is no way in.
LEMMA Ends ==
    ASSUME TokensTypeOK, NEW t \in Tokens, Used(t), NEW st \in {"revoked", "expired"},
           token' = [token EXCEPT ![t].st = st]
    PROVE  /\ token' \in [Tokens -> {Unused} \cup Rows]
           /\ token'[t].st = st /\ token'[t].login = token[t].login
           /\ token'[t].email = token[t].email
           /\ \A u \in Tokens : u # t => token'[u] = token[u]
           /\ \A u \in Tokens : Used(u) => Used(u)'
<1> DEFINE r == [token[t] EXCEPT !.st = st]
<1>1. /\ r \in Rows /\ r.st = st /\ r.login = token[t].login /\ r.email = token[t].email
  BY DEF TokensTypeOK, Rows, Used
<1>2. token' = [token EXCEPT ![t] = r]
  OBVIOUS
<1> HIDE DEF r
<1> QED  BY <1>1, <1>2, TokenMoves

LEMMA TokensInitInv == TokensInit => TokensInv
<1> SUFFICES ASSUME TokensInit PROVE TokensInv
  OBVIOUS
<1>1. TokensTypeOK
  BY DEF TokensInit, TokensTypeOK, RequestKinds
<1>2. LoginsAreUsed
  BY RequestKind DEF TokensInit, LoginsAreUsed, Used
<1>3. OneWayInEach
  BY RequestKind DEF TokensInit, OneWayInEach, OneWayIn, IsValid, IsIssue, At
<1> QED  BY <1>1, <1>2, <1>3 DEF TokensInv

----------------------------------------------------------------------------
\* The pair of a sign-in starts alone; that of a refresh takes the place of
\* the request that issues it.
LEMMA IssueStep ==
    ASSUME TokensInv, NEW q \in Requests, NEW t \in Tokens, Issue(q, t)
    PROVE  TokensInv'
<1> DEFINE o     == auth[q]
           login == IF o.login = NoToken THEN t ELSE o.login
           row   == Token(login, o.email)
<1>1. o \in Issuing
  BY RequestKind DEF Issue, At, TokensInv, TokensTypeOK, RequestKinds
<1>2. /\ login \in Tokens /\ o.email \in Emails
      /\ o.login = login \/ (o.login = NoToken /\ login = t)
  BY <1>1 DEF Issuing
<1>3. row \in Rows /\ row.st = "valid" /\ row.login = login /\ row.email = o.email
  BY <1>2 DEF Rows, Token
<1>4. /\ token' = [token EXCEPT ![t] = row] /\ Goto(q, NoRequest)
      /\ cookie' \in {cookie, [cookie EXCEPT ![o.email] = t]}
      /\ UNCHANGED <<users, shared>> /\ ~Used(t)
  BY DEF Issue, Done, Used
<1>5. IsIssue(q, o.login)
  BY DEF Issue, IsIssue
<1> HIDE DEF o, login, row
<1>6. /\ token' \in [Tokens -> {Unused} \cup Rows] /\ token'[t] = row
      /\ \A u \in Tokens : u # t => token'[u] = token[u]
      /\ \A u \in Tokens : Used(u) => Used(u)'
  BY <1>3, <1>4, TokenMoves DEF TokensInv
<1>7. /\ auth' \in [Requests -> RequestKinds] /\ auth'[q] = NoRequest
      /\ \A r \in Requests : r # q => auth'[r] = auth[r]
  BY <1>4, AuthMoves DEF TokensInv, RequestKinds
<1>8. TokensTypeOK'
  BY <1>2, <1>4, <1>6, <1>7 DEF TokensInv, TokensTypeOK
<1>9. token'[t] # Unused /\ token'[login] # Unused
  <2>1. token'[t] # Unused
    BY <1>3, <1>6, RequestKind DEF Used
  <2>2. o.login # NoToken => Used(o.login)
    BY <1>1 DEF TokensInv, LoginsAreUsed, o
  <2> QED  BY <1>2, <1>6, <2>1, <2>2, TokensAssumption DEF Used
<1>10. LoginsAreUsed'
  <2>1. \A u \in Tokens : Used(u)' => token'[token[u].login] # Unused \/ u = t
    BY <1>6, RequestKind DEF TokensInv, TokensTypeOK, LoginsAreUsed, Used
  <2>2. \A u \in Tokens : Used(u)' => token'[token'[u].login] # Unused
    <3> SUFFICES ASSUME NEW u \in Tokens, Used(u)' PROVE token'[token'[u].login] # Unused
      OBVIOUS
    <3>1. CASE u = t
      BY <1>3, <1>6, <1>9, <3>1
    <3>2. CASE u # t
      BY <1>6, <2>1, <3>2
    <3> QED  BY <3>1, <3>2
  <2>3. \A r \in Requests : auth'[r] \in Issuing /\ auth'[r].login # NoToken =>
                                token'[auth'[r].login] # Unused
    BY <1>6, <1>7, RequestKind DEF TokensInv, LoginsAreUsed, Issuing, Used
  <2>4. \A r \in Requests : auth'[r] \in Presenting => token'[auth'[r].t] # Unused
    BY <1>6, <1>7, RequestKind DEF TokensInv, LoginsAreUsed, Used
  <2> QED  BY <2>2, <2>3, <2>4 DEF LoginsAreUsed, Used
<1>11. OneWayInEach'
  <2> SUFFICES ASSUME NEW l \in Tokens, l \notin shared PROVE OneWayIn(l)'
    BY <1>4 DEF OneWayInEach
  <2>1. OneWayIn(l)
    BY DEF TokensInv, OneWayInEach
  <2>2. \A u \in Tokens : u # t => (IsValid(u, l)' <=> IsValid(u, l))
    BY <1>6 DEF IsValid
  <2>3. IsValid(t, l)' <=> l = login
    BY <1>3, <1>6 DEF IsValid
  <2>4. \A r \in Requests : IsIssue(r, l)' <=> r # q /\ IsIssue(r, l)
    BY <1>7, RequestKind DEF IsIssue, At
  <2>5. CASE l # login
    <3>1. \A u \in Tokens : IsValid(u, l)' => IsValid(u, l)
      BY <2>2, <2>3, <2>5
    <3> QED  BY <2>1, <2>4, <3>1 DEF OneWayIn
  <2>6. CASE l = login
    <3>1. \A u \in Tokens : u # t => ~IsValid(u, l)
      <4>1. CASE o.login = login
        BY <1>5, <2>1, <2>6, <4>1 DEF OneWayIn
      <4>2. CASE login = t
        BY <1>4, <2>6, <4>2, RequestKind DEF TokensInv, LoginsAreUsed, IsValid, Used
      <4> QED  BY <1>2, <4>1, <4>2
    <3>2. \A r \in Requests : r # q => ~IsIssue(r, l)
      <4>1. CASE o.login = login
        BY <1>5, <2>1, <2>6, <4>1 DEF OneWayIn
      <4>2. CASE login = t
        <5> SUFFICES ASSUME NEW r \in Requests, IsIssue(r, l) PROVE FALSE
          OBVIOUS
        <5>1. auth[r] \in Issuing /\ auth[r].login = t
          BY <2>6, <4>2, RequestKind DEF IsIssue, At, TokensInv, TokensTypeOK, RequestKinds
        <5> QED  BY <1>4, <5>1, TokensAssumption DEF TokensInv, LoginsAreUsed
      <4> QED  BY <1>2, <4>1, <4>2
    <3> QED  BY <2>2, <2>4, <3>1, <3>2 DEF OneWayIn
  <2> QED  BY <2>5, <2>6
<1> QED  BY <1>8, <1>10, <1>11 DEF TokensInv

\* A refresh trades its token for the right to issue one, or marks its sign-in
\* as one whose token was presented twice.
LEMMA RefreshStep ==
    ASSUME TokensInv, NEW q \in Requests, RefreshRevoke(q)
    PROVE  TokensInv'
<1> DEFINE t == auth[q].t
           o == [pc |-> "issue", login |-> token[t].login, email |-> token[t].email]
<1>1. auth[q] \in Presenting /\ t \in Tokens
  BY RequestKind DEF RefreshRevoke, At, TokensInv, TokensTypeOK, RequestKinds
<1>2. Used(t) /\ token[t] \in Rows /\ Used(token[t].login)
  BY <1>1 DEF TokensInv, TokensTypeOK, LoginsAreUsed, Used
<1>3. /\ o \in Issuing /\ o.login = token[t].login /\ token[t].login \in Tokens
  BY <1>2 DEF Rows, Issuing
<1>4. /\ token' = [token EXCEPT ![t].st = "revoked"] /\ Goto(q, o) /\ NoteShared(t)
      /\ UNCHANGED <<users, cookie>>
  BY DEF RefreshRevoke, Revoke
<1>5. ~IsIssue(q, token[t].login)
  BY DEF RefreshRevoke, At, IsIssue
<1> HIDE DEF t, o
<1>6. /\ token' \in [Tokens -> {Unused} \cup Rows]
      /\ token'[t].st = "revoked" /\ token'[t].login = token[t].login
      /\ \A u \in Tokens : u # t => token'[u] = token[u]
      /\ \A u \in Tokens : Used(u) => Used(u)'
  BY <1>1, <1>2, <1>4, Ends DEF TokensInv
<1>7. /\ auth' \in [Requests -> RequestKinds] /\ auth'[q] = o
      /\ \A r \in Requests : r # q => auth'[r] = auth[r]
  BY <1>3, <1>4, AuthMoves DEF TokensInv, RequestKinds
<1>8. TokensTypeOK'
  BY <1>4, <1>6, <1>7 DEF TokensInv, TokensTypeOK
<1>9. LoginsAreUsed'
  <2>1. \A u \in Tokens : Used(u)' => token'[token'[u].login] # Unused
    <3> SUFFICES ASSUME NEW u \in Tokens, Used(u)' PROVE token'[token'[u].login] # Unused
      OBVIOUS
    <3>1. token'[u].login = token[u].login /\ Used(u)
      BY <1>2, <1>6 DEF Used
    <3>2. Used(token[u].login) /\ token[u].login \in Tokens
      BY <3>1, RequestKind DEF TokensInv, TokensTypeOK, LoginsAreUsed, Used
    <3> QED  BY <1>6, <3>1, <3>2 DEF Used
  <2>2. \A r \in Requests : auth'[r] \in Issuing /\ auth'[r].login # NoToken =>
                                token'[auth'[r].login] # Unused
    <3> SUFFICES ASSUME NEW r \in Requests, auth'[r] \in Issuing, auth'[r].login # NoToken
                 PROVE  token'[auth'[r].login] # Unused
      OBVIOUS
    <3>1. CASE r = q
      BY <1>2, <1>3, <1>6, <1>7, <3>1 DEF Used
    <3>2. CASE r # q
      BY <1>6, <1>7, <3>2 DEF TokensInv, LoginsAreUsed, Issuing, Used
    <3> QED  BY <3>1, <3>2
  <2>3. \A r \in Requests : auth'[r] \in Presenting => token'[auth'[r].t] # Unused
    BY <1>3, <1>6, <1>7, RequestKind DEF TokensInv, LoginsAreUsed, Used
  <2> QED  BY <2>1, <2>2, <2>3 DEF LoginsAreUsed, Used
<1>10. OneWayInEach'
  <2> SUFFICES ASSUME NEW l \in Tokens, l \notin shared' PROVE OneWayIn(l)'
    BY DEF OneWayInEach
  <2>1. OneWayIn(l)
    BY <1>4 DEF NoteShared, TokensInv, OneWayInEach
  <2>2. \A u \in Tokens : IsValid(u, l)' <=> u # t /\ IsValid(u, l)
    BY <1>6 DEF IsValid
  <2>3. \A r \in Requests : r # q => (IsIssue(r, l)' <=> IsIssue(r, l))
    BY <1>7 DEF IsIssue, At
  <2>4. IsIssue(q, l)' => l = token[t].login
    BY <1>3, <1>7 DEF IsIssue
  <2>5. CASE l # token[t].login
    <3>1. \A r \in Requests : IsIssue(r, l)' => IsIssue(r, l)
      BY <2>3, <2>4, <2>5
    <3> QED  BY <2>1, <2>2, <3>1 DEF OneWayIn
  <2>6. CASE l = token[t].login
    <3>1. IsValid(t, l)
      BY <1>4, <2>6 DEF NoteShared, Valid, IsValid
    <3> QED  BY <1>1, <2>1, <2>2, <2>3, <3>1 DEF OneWayIn
  <2> QED  BY <2>5, <2>6
<1> QED  BY <1>8, <1>9, <1>10 DEF TokensInv

\* A token that ends, with its request or by itself.
LEMMA EndStep ==
    ASSUME TokensInv, NEW t \in Tokens, Used(t), NEW st \in {"revoked", "expired"},
           token' = [token EXCEPT ![t].st = st], shared \subseteq shared',
           UNCHANGED users, cookie' \in [Emails -> Tokens \cup {NoToken}],
           auth' \in [Requests -> RequestKinds],
           \A q \in Requests : auth'[q] \in {auth[q], NoRequest}
    PROVE  TokensInv'
<1>1. /\ token' \in [Tokens -> {Unused} \cup Rows]
      /\ token'[t].st = st /\ token'[t].login = token[t].login
      /\ \A u \in Tokens : u # t => token'[u] = token[u]
      /\ \A u \in Tokens : Used(u) => Used(u)'
  BY Ends DEF TokensInv
<1>2. TokensTypeOK'
  BY <1>1 DEF TokensInv, TokensTypeOK
<1>3. LoginsAreUsed'
  <2>1. \A u \in Tokens : Used(u)' => token'[token'[u].login] # Unused
    <3> SUFFICES ASSUME NEW u \in Tokens, Used(u)' PROVE token'[token'[u].login] # Unused
      OBVIOUS
    <3>1. token'[u].login = token[u].login /\ Used(u)
      BY <1>1 DEF Used
    <3>2. Used(token[u].login) /\ token[u].login \in Tokens
      BY <3>1, RequestKind DEF TokensInv, TokensTypeOK, LoginsAreUsed, Used
    <3> QED  BY <1>1, <3>1, <3>2 DEF Used
  <2>2. \A r \in Requests : auth'[r] \in Issuing /\ auth'[r].login # NoToken =>
                                token'[auth'[r].login] # Unused
    BY <1>1, RequestKind DEF TokensInv, LoginsAreUsed, Issuing, Used
  <2>3. \A r \in Requests : auth'[r] \in Presenting => token'[auth'[r].t] # Unused
    BY <1>1, RequestKind DEF TokensInv, LoginsAreUsed, Used
  <2> QED  BY <2>1, <2>2, <2>3 DEF LoginsAreUsed, Used
<1>4. \A u \in Tokens, l \in Tokens : IsValid(u, l)' => IsValid(u, l)
  BY <1>1 DEF IsValid
<1>5. \A q \in Requests, l \in Tokens : IsIssue(q, l)' => IsIssue(q, l)
  BY RequestKind DEF IsIssue, At
<1>6. OneWayInEach'
  BY <1>4, <1>5, WaysInLost DEF TokensInv
<1> QED  BY <1>2, <1>3, <1>6 DEF TokensInv

LEMMA TokensStep == TokensInv /\ [TokensNext]_tokensVars => TokensInv'
<1> SUFFICES ASSUME TokensInv, [TokensNext]_tokensVars PROVE TokensInv'
  OBVIOUS
<1>1. ASSUME NEW q \in Requests, NEW m \in Emails, Register(q, m) \/ Login(q, m)
      PROVE TokensInv'
  <2> DEFINE a == [pc |-> "register", email |-> m]
             b == [pc |-> "issue", login |-> NoToken, email |-> m]
  <2>1. a \in Registering /\ b \in Issuing /\ b.login = NoToken
    BY DEF Registering, Issuing
  <2>2. (Goto(q, a) \/ Goto(q, b)) /\ UNCHANGED <<users, token, cookie, shared>>
    BY <1>1 DEF Register, Login
  <2> HIDE DEF a, b
  <2> QED
    BY <2>1, <2>2, RequestKind, RequestMoves DEF RequestKinds, TokensInv, TokensTypeOK
<1>2. ASSUME NEW q \in Requests, NEW m \in Emails, Refresh(q, m) \/ Logout(q, m)
      PROVE TokensInv'
  <2> DEFINE a == [pc |-> "refresh", t |-> cookie[m]]
             b == [pc |-> "logout", t |-> cookie[m]]
  <2>1. /\ (Goto(q, a) \/ Goto(q, b)) /\ UNCHANGED <<users, token, cookie, shared>>
        /\ Valid(cookie[m])
    BY <1>2 DEF Refresh, Logout, Present
  <2>2. cookie[m] \in Tokens /\ Used(cookie[m])
    BY <2>1, RequestKind DEF TokensInv, TokensTypeOK, Valid, Used
  <2>3. a \in Presenting /\ b \in Presenting /\ a.t = cookie[m] /\ b.t = cookie[m]
    BY <2>2 DEF Presenting
  <2> HIDE DEF a, b
  <2> QED
    BY <2>1, <2>2, <2>3, RequestKind, RequestMoves DEF RequestKinds, TokensInv, TokensTypeOK
<1>3. ASSUME NEW q \in Requests, RegisterCreate(q) PROVE TokensInv'
  <2>1. auth[q] \in Registering
    BY <1>3, RequestKind DEF RegisterCreate, At, TokensInv, TokensTypeOK, RequestKinds
  <2>2. users' \subseteq Emails
    BY <1>3, <2>1 DEF RegisterCreate, Registering, TokensInv, TokensTypeOK
  <2>3. Goto(q, NoRequest) /\ NoRequest \in RequestKinds /\ UNCHANGED <<token, cookie, shared>>
    BY <1>3 DEF RegisterCreate, Done, RequestKinds
  <2> QED  BY <2>2, <2>3, RequestKind, RequestMoves DEF TokensInv, TokensTypeOK
<1>4. ASSUME NEW q \in Requests, Abandon(q) PROVE TokensInv'
  <2>1. /\ Goto(q, NoRequest) /\ NoRequest \in RequestKinds
        /\ UNCHANGED <<users, token, cookie, shared>>
    BY <1>4 DEF Abandon, Done, RequestKinds
  <2> QED  BY <2>1, RequestKind, RequestMoves DEF TokensInv, TokensTypeOK
<1>5. ASSUME NEW q \in Requests, LogoutRevoke(q) PROVE TokensInv'
  <2> DEFINE t == auth[q].t
  <2>1. auth[q] \in Presenting /\ t \in Tokens
    BY <1>5, RequestKind DEF LogoutRevoke, At, TokensInv, TokensTypeOK, RequestKinds
  <2>2. Used(t)
    BY <2>1 DEF TokensInv, LoginsAreUsed
  <2>3. /\ token' = [token EXCEPT ![t].st = "revoked"] /\ NoteShared(t)
        /\ Goto(q, NoRequest) /\ UNCHANGED users
        /\ cookie' \in {cookie, [cookie EXCEPT ![token[t].email] = NoToken]}
    BY <1>5 DEF LogoutRevoke, Revoke, Done
  <2> HIDE DEF t
  <2>4. shared \subseteq shared'
    BY <2>3 DEF NoteShared
  <2>5. cookie' \in [Emails -> Tokens \cup {NoToken}]
    BY <2>3 DEF TokensInv, TokensTypeOK
  <2>6. /\ auth' \in [Requests -> RequestKinds]
        /\ \A r \in Requests : auth'[r] \in {auth[r], NoRequest}
    BY <2>3, AuthMoves DEF TokensInv, RequestKinds
  <2> QED  BY <2>1, <2>2, <2>3, <2>4, <2>5, <2>6, EndStep
<1>6. ASSUME NEW t \in Tokens, Expire(t) PROVE TokensInv'
  <2>1. Used(t)
    BY <1>6, RequestKind DEF Expire, Valid, Used
  <2>2. /\ token' = [token EXCEPT ![t].st = "expired"]
        /\ UNCHANGED <<users, cookie, auth, shared>>
    BY <1>6 DEF Expire
  <2>3. /\ cookie' \in [Emails -> Tokens \cup {NoToken}]
        /\ auth' \in [Requests -> RequestKinds]
    BY <2>2 DEF TokensInv, TokensTypeOK
  <2> QED  BY <2>1, <2>2, <2>3, EndStep
<1>7. ASSUME NEW q \in Requests, NEW t \in Tokens, RefreshRevoke(q) \/ Issue(q, t)
      PROVE TokensInv'
  BY <1>7, RefreshStep, IssueStep
<1>8. CASE UNCHANGED tokensVars
  BY <1>8 DEF tokensVars, TokensInv, TokensTypeOK, LoginsAreUsed, Used, OneWayInEach,
              OneWayIn, IsValid, IsIssue, At
<1>9. ASSUME NEW q \in Requests, RefreshRevoke(q) PROVE TokensInv'
  BY <1>9, RefreshStep
<1> QED  BY <1>1, <1>2, <1>3, <1>4, <1>5, <1>6, <1>7, <1>8, <1>9 DEF TokensNext

\* The rotation keeps one way in per sign-in, unless two requests presented
\* one token, for any numbers of accounts, tokens and requests
\* (auth_service.go:81-101).
THEOREM RotationKeepsOneToken == TokensSpec => []OneTokenPerLogin
BY TokensInitInv, TokensStep, WaysIn, PTL DEF TokensSpec, TokensInv

----------------------------------------------------------------------------
(***************************************************************************)
(* No client is left in the broker without its plug, for any number of     *)
(* requests, failures of devices, callers that hang up and restarts, as    *)
(* long as one request is under way at a time, the broker acknowledges and *)
(* no plug is deleted without MQTT.  The invariant says what a request     *)
(* under way may rely on: the row it read is still there, and when it is   *)
(* about to delete the row of a plug with MQTT the client is gone.         *)
(***************************************************************************)

Configuring == [pc : {"provision", "push", "restart"}, pw : Nat, push : BOOLEAN]
Removing    == [pc : {"remove", "drop"}]
AdminKinds  == {NoAdmin} \cup Configuring \cup Removing

ProvisioningTypeOK ==
    /\ admin \in [Admins -> AdminKinds]
    /\ passwords \in Nat

Undisturbed == ~overlapped /\ ~publishFailed /\ ~deletedOffline

OneRequest ==
    ~overlapped => \A q, r \in Admins : ~Asks(q, "none") /\ ~Asks(r, "none") => q = r

\* What is left to do needs the row; to delete it, the client must be gone.
RowIsThere ==
    Undisturbed => /\ client # NoPassword => listed
                   /\ \A q \in Admins : ~Asks(q, "none") => listed
                   /\ \A q \in Admins : dynsec /\ Asks(q, "drop") => client = NoPassword

ProvisioningInv == ProvisioningTypeOK /\ OneRequest /\ RowIsThere

----------------------------------------------------------------------------
LEMMA AdminKind ==
    /\ NoAdmin.pc = "none"
    /\ \A o \in Configuring : o.pc \in {"provision", "push", "restart"}
    /\ \A o \in Removing : o.pc \in {"remove", "drop"}
BY DEF NoAdmin, Configuring, Removing

LEMMA AdminMoves ==
    ASSUME ProvisioningTypeOK, NEW q \in Admins, NEW o \in AdminKinds, Proceed(q, o)
    PROVE  /\ admin' \in [Admins -> AdminKinds]
           /\ admin'[q] = o
           /\ \A r \in Admins : r # q => admin'[r] = admin[r]
BY DEF ProvisioningTypeOK, Proceed

\* A request that goes on, or ends, is the only one there was.
LEMMA OneGoesOn ==
    ASSUME ProvisioningInv, NEW q \in Admins, ~Asks(q, "none"),
           NEW o \in AdminKinds, Proceed(q, o), UNCHANGED overlapped
    PROVE  OneRequest'
<1>1. \A r \in Admins : ~Asks(r, "none")' => ~Asks(r, "none")
  BY AdminMoves DEF ProvisioningInv, Asks
<1> QED  BY <1>1 DEF ProvisioningInv, OneRequest

LEMMA OneBegins ==
    ASSUME ProvisioningInv, NEW q \in Admins, Asks(q, "none"),
           NEW o \in AdminKinds, Proceed(q, o), NoteOverlap(q)
    PROVE  OneRequest' /\ (~overlapped' => \A r \in Admins \ {q} : Asks(r, "none"))
<1> SUFFICES ASSUME ~overlapped'
             PROVE  OneRequest' /\ \A r \in Admins \ {q} : Asks(r, "none")
  BY DEF OneRequest
<1>1. \A r \in Admins \ {q} : Asks(r, "none")
  BY DEF NoteOverlap
<1>2. \A r \in Admins : ~Asks(r, "none")' => r = q
  BY <1>1, AdminMoves DEF ProvisioningInv, Asks
<1> QED  BY <1>1, <1>2 DEF OneRequest

\* The request at work finds what it relies on, and is alone.
LEMMA AtWork ==
    ASSUME ProvisioningInv, NEW q \in Admins, ~Asks(q, "none"), Undisturbed
    PROVE  /\ listed /\ (client # NoPassword => listed)
           /\ dynsec /\ Asks(q, "drop") => client = NoPassword
           /\ \A r \in Admins \ {q} : Asks(r, "none")
BY DEF ProvisioningInv, OneRequest, RowIsThere, Undisturbed

LEMMA ProvisioningInitInv == ProvisioningInit => ProvisioningInv
<1> SUFFICES ASSUME ProvisioningInit PROVE ProvisioningInv
  OBVIOUS
<1>1. \A q \in Admins : Asks(q, "none")
  BY AdminKind DEF ProvisioningInit, Asks
<1>2. ProvisioningTypeOK
  BY DEF ProvisioningInit, ProvisioningTypeOK, AdminKinds
<1>3. OneRequest
  BY <1>1 DEF OneRequest
<1>4. RowIsThere
  BY <1>1 DEF RowIsThere, ProvisioningInit, Asks
<1> QED  BY <1>2, <1>3, <1>4 DEF ProvisioningInv

----------------------------------------------------------------------------
\* A step of a request that is alone: whether its row is still there, and what
\* it is about to do, decide.
LEMMA AloneStep ==
    ASSUME ProvisioningInv, NEW q \in Admins, ~Asks(q, "none"),
           NEW o \in AdminKinds, Proceed(q, o), UNCHANGED <<dynsec, passwords, overlapped>>,
           Undisturbed' => /\ Undisturbed
                           /\ client' # NoPassword => listed'
                           /\ o.pc # "none" => listed'
                           /\ dynsec /\ o.pc = "drop" => client' = NoPassword
    PROVE  ProvisioningInv'
<1>1. ProvisioningTypeOK'
  BY AdminMoves DEF ProvisioningInv, ProvisioningTypeOK
<1>2. OneRequest'
  BY OneGoesOn
<1>3. RowIsThere'
  <2> SUFFICES ASSUME Undisturbed'
               PROVE  /\ client' # NoPassword => listed'
                      /\ \A r \in Admins : ~Asks(r, "none")' => listed'
                      /\ \A r \in Admins : dynsec /\ Asks(r, "drop")' => client' = NoPassword
    BY DEF RowIsThere
  <2>1. \A r \in Admins \ {q} : Asks(r, "none")'
    BY AtWork, AdminMoves DEF ProvisioningInv, Asks
  <2>2. admin'[q] = o
    BY AdminMoves DEF ProvisioningInv
  <2> QED  BY <2>1, <2>2 DEF Asks
<1> QED  BY <1>1, <1>2, <1>3 DEF ProvisioningInv

\* A request that begins has read the row.
LEMMA BeginStep ==
    ASSUME ProvisioningInv, NEW q \in Admins, Asks(q, "none"), listed,
           NEW o \in AdminKinds, o.pc # "drop", Proceed(q, o), NoteOverlap(q),
           passwords' \in Nat,
           UNCHANGED <<listed, client, dynsec, publishFailed, deletedOffline>>
    PROVE  ProvisioningInv'
<1>1. ProvisioningTypeOK'
  BY AdminMoves DEF ProvisioningInv, ProvisioningTypeOK
<1>2. OneRequest'
  BY OneBegins
<1>3. RowIsThere'
  <2> SUFFICES ASSUME Undisturbed', NEW r \in Admins, Asks(r, "drop")' PROVE FALSE
    BY DEF RowIsThere
  <2>1. \A s \in Admins \ {q} : Asks(s, "none")
    BY OneBegins DEF Undisturbed
  <2>2. admin'[q] = o /\ \A s \in Admins \ {q} : admin'[s] = admin[s]
    BY AdminMoves DEF ProvisioningInv
  <2> QED  BY <2>1, <2>2 DEF Asks
<1> QED  BY <1>1, <1>2, <1>3 DEF ProvisioningInv

LEMMA CreateStep == ProvisioningInv /\ CreatePlug => ProvisioningInv'
<1> SUFFICES ASSUME ProvisioningInv, CreatePlug PROVE ProvisioningInv'
  OBVIOUS
<1>1. ProvisioningTypeOK' /\ OneRequest'
  BY DEF CreatePlug, histories, ProvisioningInv, ProvisioningTypeOK, OneRequest, Asks
<1>2. RowIsThere'
  BY DEF CreatePlug, histories, ProvisioningInv, RowIsThere, Undisturbed, Asks
<1> QED  BY <1>1, <1>2 DEF ProvisioningInv

\* A process that starts has no request under way.
LEMMA StartApiStep == ProvisioningInv /\ StartApi => ProvisioningInv'
<1> SUFFICES ASSUME ProvisioningInv, StartApi PROVE ProvisioningInv'
  OBVIOUS
<1>1. \A q \in Admins : Asks(q, "none")'
  BY AdminKind DEF StartApi, Asks
<1>2. ProvisioningTypeOK'
  BY DEF StartApi, ProvisioningInv, ProvisioningTypeOK, AdminKinds
<1>3. OneRequest'
  BY <1>1 DEF OneRequest
<1>4. RowIsThere'
  BY <1>1 DEF StartApi, histories, ProvisioningInv, RowIsThere, Undisturbed, Asks
<1> QED  BY <1>2, <1>3, <1>4 DEF ProvisioningInv

\* Whatever a request reads of itself is of one of the kinds.
LEMMA KindOf ==
    ASSUME ProvisioningInv, NEW q \in Admins
    PROVE  /\ Asks(q, "provision") \/ Asks(q, "push") \/ Asks(q, "restart") =>
                  /\ ~Asks(q, "none") /\ admin[q] \in Configuring
                  /\ [admin[q] EXCEPT !.pc = "push"] \in Configuring
                  /\ [admin[q] EXCEPT !.pc = "restart"] \in Configuring
           /\ Asks(q, "remove") \/ Asks(q, "drop") => ~Asks(q, "none")
<1>1. Asks(q, "provision") \/ Asks(q, "push") \/ Asks(q, "restart") =>
          ~Asks(q, "none") /\ admin[q] \in Configuring
  BY AdminKind DEF ProvisioningInv, ProvisioningTypeOK, AdminKinds, Asks
<1>2. \A o \in Configuring : /\ [o EXCEPT !.pc = "push"] \in Configuring
                             /\ [o EXCEPT !.pc = "restart"] \in Configuring
  BY DEF Configuring
<1> QED  BY <1>1, <1>2 DEF Asks

LEMMA RemoveKinds ==
    /\ [pc |-> "remove"] \in AdminKinds /\ [pc |-> "drop"] \in AdminKinds
    /\ NoAdmin \in AdminKinds
BY DEF AdminKinds, Removing

LEMMA ProvisioningStep ==
    ProvisioningInv /\ [ProvisioningNext]_provisioningVars => ProvisioningInv'
<1> SUFFICES ASSUME ProvisioningInv, [ProvisioningNext]_provisioningVars
             PROVE  ProvisioningInv'
  OBVIOUS
<1>1. ASSUME NEW q \in Admins, NEW push \in BOOLEAN, ConfigureTasmotaDevice(q, push)
      PROVE ProvisioningInv'
  <2> DEFINE o == [pc |-> "provision", pw |-> passwords', push |-> push]
  <2>1. passwords' \in Nat
    BY <1>1 DEF ConfigureTasmotaDevice, ProvisioningInv, ProvisioningTypeOK
  <2>2. o \in AdminKinds /\ o.pc = "provision"
    BY <2>1 DEF AdminKinds, Configuring
  <2>3. /\ Asks(q, "none") /\ listed /\ Proceed(q, o) /\ NoteOverlap(q)
        /\ UNCHANGED <<listed, client, dynsec, publishFailed, deletedOffline>>
    BY <1>1 DEF ConfigureTasmotaDevice
  <2> HIDE DEF o
  <2> QED  BY <2>1, <2>2, <2>3, BeginStep
<1>2. ASSUME NEW q \in Admins, DeletePlug(q) PROVE ProvisioningInv'
  <2>1. /\ Asks(q, "none") /\ listed /\ Proceed(q, [pc |-> "remove"]) /\ NoteOverlap(q)
        /\ UNCHANGED <<listed, client, dynsec, publishFailed, deletedOffline>>
        /\ passwords' \in Nat
    BY <1>2 DEF DeletePlug, ProvisioningInv, ProvisioningTypeOK
  <2> QED  BY <2>1, RemoveKinds, BeginStep
<1>3. ASSUME NEW q \in Admins, Provision(q) PROVE ProvisioningInv'
  <2>1. ~Asks(q, "none") /\ UNCHANGED <<listed, dynsec, passwords, histories>>
    BY <1>3, KindOf DEF Provision
  <2>2. \E o \in AdminKinds : Proceed(q, o) /\ o.pc # "drop"
    <3>1. Proceed(q, [admin[q] EXCEPT !.pc = "push"]) \/ Proceed(q, NoAdmin)
      BY <1>3 DEF Provision, Finish
    <3>2. [admin[q] EXCEPT !.pc = "push"] \in Configuring
      BY <1>3, KindOf DEF Provision
    <3> QED  BY <3>1, <3>2, AdminKind, RemoveKinds DEF AdminKinds
  <2> QED  BY <2>1, <2>2, AtWork, AloneStep DEF Undisturbed, histories
<1>4. ASSUME NEW q \in Admins, ProvisionFails(q) \/ RemoveFails(q) PROVE ProvisioningInv'
  <2>1. /\ ~Asks(q, "none") /\ UNCHANGED <<dynsec, passwords, overlapped>>
        /\ publishFailed' = TRUE /\ Proceed(q, NoAdmin)
    BY <1>4, KindOf DEF ProvisionFails, RemoveFails, Finish
  <2> QED  BY <2>1, RemoveKinds, AloneStep DEF Undisturbed
<1>5. ASSUME NEW q \in Admins, Push(q) PROVE ProvisioningInv'
  <2> DEFINE o == [admin[q] EXCEPT !.pc = "restart"]
  <2>1. o \in Configuring /\ ~Asks(q, "none")
    BY <1>5, KindOf DEF Push
  <2>2. /\ UNCHANGED <<listed, client, dynsec, passwords, histories>>
        /\ Proceed(q, o)
    BY <1>5 DEF Push
  <2> HIDE DEF o
  <2>3. o \in AdminKinds /\ o.pc # "drop"
    BY <2>1, AdminKind DEF AdminKinds
  <2> QED  BY <2>1, <2>2, <2>3, AtWork, AloneStep DEF Undisturbed, histories
<1>6. ASSUME NEW q \in Admins, PushRestart(q) \/ HangUpAdmin(q) PROVE ProvisioningInv'
  <2>1. /\ ~Asks(q, "none") /\ Proceed(q, NoAdmin)
        /\ UNCHANGED <<listed, client, dynsec, passwords, histories>>
    BY <1>6, KindOf DEF PushRestart, HangUpAdmin, Finish
  <2> QED  BY <2>1, RemoveKinds, AdminKind, AtWork, AloneStep DEF Undisturbed, histories
<1>7. ASSUME NEW q \in Admins, PushFails(q) PROVE ProvisioningInv'
  <2>1. /\ ~Asks(q, "none")
        /\ UNCHANGED <<listed, client, dynsec, passwords, histories>>
        /\ Proceed(q, [pc |-> "remove"]) \/ Proceed(q, NoAdmin)
    BY <1>7, KindOf DEF PushFails, Finish
  <2> QED  BY <2>1, RemoveKinds, AdminKind, AtWork, AloneStep DEF Undisturbed, histories
<1>8. ASSUME NEW q \in Admins, RemovePlug(q) PROVE ProvisioningInv'
  <2>1. /\ ~Asks(q, "none") /\ Proceed(q, [pc |-> "drop"])
        /\ client' = (IF dynsec THEN NoPassword ELSE client)
        /\ UNCHANGED <<listed, dynsec, passwords, histories>>
    BY <1>8, KindOf DEF RemovePlug
  <2> QED  BY <2>1, RemoveKinds, AtWork, AloneStep DEF Undisturbed, histories
<1>9. ASSUME NEW q \in Admins, DeleteRow(q) PROVE ProvisioningInv'
  <2>1. /\ ~Asks(q, "none") /\ Asks(q, "drop") /\ Proceed(q, NoAdmin)
        /\ UNCHANGED <<client, dynsec, passwords, overlapped, publishFailed>>
        /\ deletedOffline' = (deletedOffline \/ ~dynsec)
    BY <1>9, KindOf DEF DeleteRow, Finish
  <2> QED  BY <2>1, RemoveKinds, AdminKind, AtWork, AloneStep DEF Undisturbed, histories
<1>10. CASE UNCHANGED provisioningVars
  BY <1>10 DEF provisioningVars, histories, ProvisioningInv, ProvisioningTypeOK, OneRequest,
               RowIsThere, Undisturbed, Asks
<1> QED
  BY <1>1, <1>2, <1>3, <1>4, <1>5, <1>6, <1>7, <1>8, <1>9, <1>10, CreateStep, StartApiStep
  DEF ProvisioningNext

\* No client is left in the broker when its plug is gone, for any number of
\* requests and passwords; overlapping requests, a broker that does not
\* acknowledge and a plug deleted by a process without MQTT are the exception
\* (mqtt_provisioning_service.go).
THEOREM NoClientWithoutPlug == ProvisioningSpec => []CredentialsHaveAPlug
<1>1. ProvisioningInv => CredentialsHaveAPlug
  BY DEF ProvisioningInv, RowIsThere, Undisturbed, CredentialsHaveAPlug
<1> QED  BY ProvisioningInitInv, ProvisioningStep, <1>1, PTL DEF ProvisioningSpec

=============================================================================
