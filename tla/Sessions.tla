------------------------------ MODULE Sessions ------------------------------
(***************************************************************************)
(* The refresh tokens of one user: login, refresh and logout                *)
(* (app/modules/auth/service.py, its repository and endpoints) and the      *)
(* account's status.  A request reads its rows without a lock and writes    *)
(* them at its commit; the second of two requests that write one row waits  *)
(* for the first and then writes all the same.  A refused request changes   *)
(* nothing: the exception ends the transaction.  Passwords, codes and       *)
(* signatures are library code: a request brings right ones or is refused.  *)
(***************************************************************************)
EXTENDS Integers

CONSTANTS
    Requests,   \* HTTP requests that may be in flight together
    Tokens      \* row ids of refresh_tokens

ASSUME SessionsAssumption == "none" \notin Tokens

VARIABLES
    token,      \* refresh_tokens
    active,     \* whether the user's status is ACTIVE
    req,        \* the requests' sessions
    forked      \* history: logins whose token two refreshes have held together

vars == <<token, active, req, forked>>

\* A row: its state, the token that replaced it, and, as history, the token it
\* was exchanged for and the first token of its login.
TokenRow == [state : {"none", "live", "revoked", "expired"}, replaced_by : Tokens \cup {"none"},
             parent : Tokens \cup {"none"}, login : Tokens \cup {"none"}]
NoToken == [state |-> "none", replaced_by |-> "none", parent |-> "none", login |-> "none"]

\* A session: what it does and the token it presented.
Session == [pc : {"idle", "held", "checked"}, op : {"none", "login", "refresh", "logout"},
            t : Tokens \cup {"none"}]
Idle == [pc |-> "idle", op |-> "none", t |-> "none"]

Init ==
    /\ token = [t \in Tokens |-> NoToken]
    /\ active = TRUE
    /\ req = [r \in Requests |-> Idle]
    /\ forked = {}

-----------------------------------------------------------------------------
\* login: the user is active; the password and, with MFA, the code are right.
Login(r) ==
    /\ req[r].pc = "idle"
    /\ active
    /\ req' = [req EXCEPT ![r] = [pc |-> "checked", op |-> "login", t |-> "none"]]
    /\ UNCHANGED <<token, active, forked>>

UsableUntilExpiry(t) == token[t].state \in {"live", "revoked"}

\* The stored token has neither been revoked nor run out.
Usable(t) == token[t].state = "live"

Held(t) == \E q \in Requests : req[q].op = "refresh" /\ req[q].t = t

\* refresh: the stored token is looked up,
HoldToken(r, t) ==
    /\ req[r].pc = "idle"
    /\ Usable(t)
    /\ req' = [req EXCEPT ![r] = [pc |-> "held", op |-> "refresh", t |-> t]]
    /\ forked' = IF Held(t) THEN forked \cup {token[t].login} ELSE forked
    /\ UNCHANGED <<token, active>>

\* then its user,
CheckUser(r) ==
    /\ req[r].pc = "held"
    /\ active
    /\ req' = [req EXCEPT ![r].pc = "checked"]
    /\ UNCHANGED <<token, active, forked>>

\* _issue_tokens
Issued(parent, login) == [state |-> "live", replaced_by |-> "none", parent |-> parent, login |-> login]

CommitLogin(r, n) ==
    /\ req[r].pc = "checked"
    /\ req[r].op = "login"
    /\ token[n] = NoToken
    /\ token' = [token EXCEPT ![n] = Issued("none", n)]
    /\ req' = [req EXCEPT ![r] = Idle]
    /\ UNCHANGED <<active, forked>>

ExchangedUnrevoked(row, new) == [row EXCEPT !.replaced_by = new]

\* and the token is revoked in favour of a new one.
Exchanged(row, new) == [row EXCEPT !.state = "revoked", !.replaced_by = new]

CommitRefresh(r, n) ==
    LET t == req[r].t
    IN  /\ req[r].pc = "checked"
        /\ req[r].op = "refresh"
        /\ token[n] = NoToken
        /\ token' = [token EXCEPT ![t] = Exchanged(@, n), ![n] = Issued(t, token[t].login)]
        /\ req' = [req EXCEPT ![r] = Idle]
        /\ UNCHANGED <<active, forked>>

\* logout looks a token up and revokes it unless it is revoked already.
LoadLogout(r, t) ==
    /\ req[r].pc = "idle"
    /\ token[t].state \in {"live", "expired"}
    /\ req' = [req EXCEPT ![r] = [pc |-> "checked", op |-> "logout", t |-> t]]
    /\ UNCHANGED <<token, active, forked>>

CommitLogout(r) ==
    /\ req[r].pc = "checked"
    /\ req[r].op = "logout"
    /\ token' = [token EXCEPT ![req[r].t].state = "revoked"]
    /\ req' = [req EXCEPT ![r] = Idle]
    /\ UNCHANGED <<active, forked>>

\* expires_at passes.
Expire(t) ==
    /\ token[t].state = "live"
    /\ token' = [token EXCEPT ![t].state = "expired"]
    /\ UNCHANGED <<active, req, forked>>

\* update_user
SetStatus ==
    /\ active' = ~active
    /\ UNCHANGED <<token, req, forked>>

\* A refused request, a lost connection.
Rollback(r) ==
    /\ req[r].pc # "idle"
    /\ req' = [req EXCEPT ![r] = Idle]
    /\ UNCHANGED <<token, active, forked>>

Next ==
    \/ \E r \in Requests :
          \/ Login(r) \/ CheckUser(r) \/ CommitLogout(r) \/ Rollback(r)
          \/ \E t \in Tokens : HoldToken(r, t) \/ CommitLogin(r, t) \/ CommitRefresh(r, t) \/ LoadLogout(r, t)
    \/ \E t \in Tokens : Expire(t)
    \/ SetStatus

Spec == Init /\ [][Next]_vars

-----------------------------------------------------------------------------
(* Properties                                                              *)

\* Rows and sessions have their types.
TypeOK ==
    /\ token \in [Tokens -> TokenRow]
    /\ active \in BOOLEAN
    /\ req \in [Requests -> Session]
    /\ forked \subseteq Tokens

\* "refresh tokens (7-day expiry, rotating)": the tokens of one login form a
\* line.  At most one of them can still be used, and each one that has been
\* exchanged is revoked and names the token it was exchanged for.  Logouts,
\* expiries and lost requests do not break the line; only two refreshes that
\* hold one token together do.
TokensFormALine ==
    \A t, u \in Tokens :
        /\ /\ token[t].state = "live" /\ token[u].state = "live"
           /\ token[t].login = token[u].login /\ token[t].login \notin forked
           => t = u
        /\ token[u].parent = t /\ token[u].login \notin forked
           => token[t].state = "revoked" /\ token[t].replaced_by = u

\* A login with tokens none of which can be used or is being exchanged.
Over(l) ==
    /\ \E t \in Tokens : token[t].login = l
    /\ \A t \in Tokens : token[t].login = l => token[t].state # "live" /\ ~Held(t)

\* logout revokes one token.  That ends its login, whichever tokens the login has
\* had, unless a refresh holds the token at that moment or the login has forked;
\* and a login that is over stays over, whatever old tokens are presented.
LogoutEndsLogin ==
    [][\A l \in Tokens :
          /\ \A t \in Tokens :
               /\ token[t].login = l /\ l \notin forked /\ ~Held(t)
               /\ token[t].state = "live" /\ token'[t].state = "revoked" /\ token'[t].replaced_by = "none"
               => Over(l)'
          /\ Over(l) => Over(l)']_vars
=============================================================================
