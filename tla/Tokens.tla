-------------------------------- MODULE Tokens --------------------------------
(***************************************************************************)
(* auth_service.go over the tables users and refresh_tokens: sign-up,      *)
(* sign-in, the rotation of refresh tokens and sign-out, a statement at a  *)
(* time, for browsers that send several requests at once and may miss the  *)
(* answer.  Access tokens are checked without the tables and live an hour, *)
(* whatever becomes of the refresh token; passwords are left out.          *)
(***************************************************************************)
EXTENDS Integers, FiniteSets

CONSTANTS
    Emails,
    Tokens,     \* rows of refresh_tokens, each used once
    Requests,   \* requests to /api/auth under way
    NoToken

ASSUME TokensAssumption == NoToken \notin Tokens

VARIABLES
    users,      \* emails with an account
    token,      \* refresh_tokens
    cookie,     \* the refresh_token cookie of each account's browser
    auth,       \* what each request is about to do
    shared      \* history: sign-ins of which two requests used one token
tokensVars == <<users, token, cookie, auth, shared>>

NoRequest == [pc |-> "none"]
Unused == [st |-> "unused"]
\* A row; login is the token its sign-in began with.
Token(login, email) == [st |-> "valid", login |-> login, email |-> email]

TokensInit ==
    /\ users = {}
    /\ token = [t \in Tokens |-> Unused]
    /\ cookie = [m \in Emails |-> NoToken]
    /\ auth = [q \in Requests |-> NoRequest]
    /\ shared = {}

At(q, pc) == auth[q].pc = pc
Goto(q, o) == auth' = [auth EXCEPT ![q] = o]
Done(q) == Goto(q, NoRequest)

\* Register: the email is looked up, the password hashed, the row inserted;
\* emails are unique in the table, so that the later of two inserts fails.
Register(q, m) ==
    /\ At(q, "none") /\ m \notin users
    /\ Goto(q, [pc |-> "register", email |-> m])
    /\ UNCHANGED <<users, token, cookie, shared>>

RegisterCreate(q) ==
    /\ At(q, "register")
    /\ users' = users \cup {auth[q].email}
    /\ Done(q)
    /\ UNCHANGED <<token, cookie, shared>>

Login(q, m) ==
    /\ At(q, "none") /\ m \in users
    /\ Goto(q, [pc |-> "issue", login |-> NoToken, email |-> m])
    /\ UNCHANGED <<users, token, cookie, shared>>

\* issueTokenPair; the answer may not reach the browser.
Issue(q, t) ==
    /\ At(q, "issue") /\ token[t] = Unused
    /\ LET o     == auth[q]
           login == IF o.login = NoToken THEN t ELSE o.login
       IN  /\ token' = [token EXCEPT ![t] = Token(login, o.email)]
           /\ cookie' \in {cookie, [cookie EXCEPT ![o.email] = t]}
    /\ Done(q)
    /\ UNCHANGED <<users, shared>>

\* The request dies with its client, or with the process.
Abandon(q) ==
    /\ ~At(q, "none")
    /\ Done(q)
    /\ UNCHANGED <<users, token, cookie, shared>>

Valid(t) == t # NoToken /\ token[t].st = "valid"

\* FindByHash with the cookie; a token that is revoked or expired is refused.
Present(q, m, what) ==
    /\ At(q, "none") /\ Valid(cookie[m])
    /\ Goto(q, [pc |-> what, t |-> cookie[m]])
    /\ UNCHANGED <<users, token, cookie, shared>>

Refresh(q, m) == Present(q, m, "refresh")
Logout(q, m)  == Present(q, m, "logout")

\* Revoke matches the id alone: a token revoked meanwhile is revoked again.
Revoke(t) == token' = [token EXCEPT ![t].st = "revoked"]
NoteShared(t) ==
    shared' = IF Valid(t) THEN shared ELSE shared \cup {token[t].login}

\* Mutant: the old token stays valid.
RefreshWithoutRevoke(q) ==
    /\ At(q, "refresh")
    /\ LET t == auth[q].t
       IN  /\ NoteShared(t)
           /\ Goto(q, [pc |-> "issue", login |-> token[t].login, email |-> token[t].email])
    /\ UNCHANGED <<users, token, cookie>>

RefreshRevoke(q) ==
    /\ At(q, "refresh")
    /\ LET t == auth[q].t
       IN  /\ Revoke(t)
           /\ NoteShared(t)
           /\ Goto(q, [pc |-> "issue", login |-> token[t].login, email |-> token[t].email])
    /\ UNCHANGED <<users, cookie>>

LogoutRevoke(q) ==
    /\ At(q, "logout")
    /\ Revoke(auth[q].t)
    /\ NoteShared(auth[q].t)
    /\ cookie' \in {cookie, [cookie EXCEPT ![token[auth[q].t].email] = NoToken]}
    /\ Done(q)
    /\ UNCHANGED users

\* Thirty days later.
Expire(t) ==
    /\ Valid(t)
    /\ token' = [token EXCEPT ![t].st = "expired"]
    /\ UNCHANGED <<users, cookie, auth, shared>>

TokensNext ==
    \/ \E q \in Requests :
        \/ RegisterCreate(q) \/ RefreshRevoke(q) \/ LogoutRevoke(q) \/ Abandon(q)
        \/ \E m \in Emails : Register(q, m) \/ Login(q, m) \/ Refresh(q, m) \/ Logout(q, m)
        \/ \E t \in Tokens : Issue(q, t)
    \/ \E t \in Tokens : Expire(t)

TokensSpec == TokensInit /\ [][TokensNext]_tokensVars

----------------------------------------------------------------------------
\* Rotation keeps one way in per sign-in: its tokens that are valid and the
\* requests about to issue one are at most one together, unless two requests
\* presented the same token at once (auth_service.go:90-101, no statement
\* asks whether the token is still valid when it revokes it).  A sign-in whose
\* token was revoked by signing out is thus over.
OneTokenPerLogin ==
    \A login \in Tokens \ shared :
        LET valid  == {t \in Tokens : token[t].st = "valid" /\ token[t].login = login}
            issues == {q \in Requests : At(q, "issue") /\ auth[q].login = login}
        IN  /\ \A t, u \in valid : t = u
            /\ \A q, r \in issues : q = r
            /\ valid = {} \/ issues = {}
=============================================================================
