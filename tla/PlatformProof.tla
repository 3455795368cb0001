---------------------------- MODULE PlatformProof ----------------------------
(***************************************************************************)
(* Proofs about the platform services: refresh tokens and MFA (Sessions),   *)
(* the Idempotency-Key middleware (Idempotency) and the transactional       *)
(* outbox (Outbox), for any number of requests, tokens, events and workers. *)
(***************************************************************************)
EXTENDS Sessions, Idempotency, Outbox, FiniteSetTheorems, TLAPS

-----------------------------------------------------------------------------
(* Sessions.  TokensFormALine is not inductive: it says nothing of what     *)
(* requests in flight hold.  The invariant adds that a token held by a      *)
(* refresh has not been exchanged yet, that two refreshes holding one token *)
(* have forked its login, and that a login that has not forked has one      *)
(* token at its end.                                                        *)

\* What sessions look like: nothing is left over in an idle one, and the others
\* name a stored token unless they log in.
SessionsAreSound ==
    \A r \in Requests :
        /\ req[r].pc = "idle" => req[r].op = "none"
        /\ req[r].op \in {"refresh", "logout"} => req[r].t \in Tokens /\ token[req[r].t].state # "none"
        /\ req[r].op = "login" => req[r].t = "none"

\* A stored token belongs to a login whose first token is stored, and so is
\* the token it was exchanged for.
RowsAreSound ==
    \A t \in Tokens :
        /\ token[t].state = "none" => token[t] = NoToken
        /\ token[t].state # "none" => token[t].login \in Tokens /\ token[token[t].login].state # "none"
        /\ token[t].parent \in Tokens =>
             /\ token[t].state # "none"
             /\ token[token[t].parent].state # "none"
             /\ token[token[t].parent].login = token[t].login

Unforked(t) == token[t].state # "none" /\ token[t].login \notin forked
Childless(t) == \A u \in Tokens : token[u].parent # t

\* A token that has been exchanged is revoked and names its one successor.
ExchangedOnce ==
    \A t, u \in Tokens : Unforked(u) /\ token[u].parent = t
        => token[t].state = "revoked" /\ token[t].replaced_by = u

\* The line of tokens has one end.
OneEnd ==
    \A t, u \in Tokens : /\ Unforked(t) /\ Unforked(u) /\ token[t].login = token[u].login
                         /\ Childless(t) /\ Childless(u)
                         => t = u

\* Refreshes in flight hold the end of a line, each another one.
HoldersAreAlone ==
    \A r \in Requests : req[r].op = "refresh" /\ Unforked(req[r].t) =>
        /\ Childless(req[r].t)
        /\ \A q \in Requests : req[q].op = "refresh" /\ req[q].t = req[r].t => q = r

Inv == TypeOK /\ SessionsAreSound /\ RowsAreSound /\ ExchangedOnce /\ OneEnd /\ HoldersAreAlone

LEMMA InitInv == Init => Inv
  BY SessionsAssumption DEF Init, Inv, TypeOK, SessionsAreSound, RowsAreSound, ExchangedOnce, OneEnd, HoldersAreAlone,
     Unforked, Childless, TokenRow, NoToken, Session, Idle

LEMMA NextType == Inv /\ [Next]_vars => TypeOK'
<1> SUFFICES ASSUME Inv, [Next]_vars PROVE TypeOK'
  OBVIOUS
<1> USE DEF Inv, TypeOK, TokenRow, Session
<1>1. CASE UNCHANGED vars
  BY <1>1 DEF vars
<1>2. ASSUME NEW r \in Requests, Login(r) PROVE TypeOK'
  BY <1>2 DEF Login
<1>3. ASSUME NEW r \in Requests, NEW t \in Tokens, HoldToken(r, t) PROVE TypeOK'
  <2>1. token[t].login \in Tokens
    BY <1>3 DEF HoldToken, Usable, RowsAreSound
  <2> QED BY <1>3, <2>1 DEF HoldToken
<1>4. ASSUME NEW r \in Requests, CheckUser(r) PROVE TypeOK'
  BY <1>4 DEF CheckUser
<1>5. ASSUME NEW r \in Requests, NEW n \in Tokens, CommitLogin(r, n) PROVE TypeOK'
  BY <1>5 DEF CommitLogin, Issued, Idle
<1>11. ASSUME NEW r \in Requests, NEW n \in Tokens, CommitRefresh(r, n) PROVE TypeOK'
  <2>1. req[r].t \in Tokens /\ token[req[r].t].login \in Tokens
    BY <1>11 DEF CommitRefresh, SessionsAreSound, RowsAreSound
  <2>2. token[req[r].t] \in TokenRow
    BY <2>1
  <2>3. Exchanged(token[req[r].t], n) \in TokenRow
    BY <2>2 DEF Exchanged
  <2>4. Issued(req[r].t, token[req[r].t].login) \in TokenRow
    BY <2>1 DEF Issued
  <2> QED BY <1>11, <2>1, <2>3, <2>4 DEF CommitRefresh, Idle
<1>6. ASSUME NEW r \in Requests, NEW t \in Tokens, LoadLogout(r, t) PROVE TypeOK'
  BY <1>6 DEF LoadLogout
<1>7. ASSUME NEW r \in Requests, CommitLogout(r) PROVE TypeOK'
  BY <1>7 DEF CommitLogout, Idle
<1>8. ASSUME NEW t \in Tokens, Expire(t) PROVE TypeOK'
  BY <1>8 DEF Expire
<1>9. CASE SetStatus
  BY <1>9 DEF SetStatus
<1>10. ASSUME NEW r \in Requests, Rollback(r) PROVE TypeOK'
  BY <1>10 DEF Rollback, Idle
<1> QED BY <1>1, <1>2, <1>3, <1>4, <1>5, <1>6, <1>7, <1>8, <1>9, <1>10, <1>11 DEF Next

\* Steps that leave the tokens alone and at most drop a session or change one
\* that does not refresh.
LEMMA QuietStep ==
    ASSUME Inv, NEW r \in Requests, NEW s,
           token' = token, forked' = forked, req' = [req EXCEPT ![r] = s],
           s.op = "refresh" => req[r].op = "refresh" /\ s.t = req[r].t,
           s.pc = "idle" => s.op = "none",
           s.op = "logout" => s.t \in Tokens /\ token[s.t].state # "none",
           s.op = "login" => s.t = "none"
    PROVE  /\ SessionsAreSound' /\ RowsAreSound' /\ ExchangedOnce' /\ OneEnd' /\ HoldersAreAlone'
<1> USE DEF Inv
<1>1. \A q \in Requests : req'[q] = IF q = r THEN s ELSE req[q]
  BY DEF TypeOK
<1>2. SessionsAreSound'
  BY <1>1 DEF SessionsAreSound
<1>3. RowsAreSound' /\ ExchangedOnce' /\ OneEnd'
  BY DEF RowsAreSound, ExchangedOnce, OneEnd, Unforked, Childless
<1>4. \A q \in Requests : req'[q].op = "refresh" => req[q].op = "refresh" /\ req'[q].t = req[q].t
  BY <1>1
<1>5. HoldersAreAlone'
  BY <1>4 DEF HoldersAreAlone, Unforked, Childless
<1> QED BY <1>2, <1>3, <1>5

\* What the commit of a refresh does to every column.
LEMMA RefreshEffect ==
    ASSUME Inv, NEW r \in Requests, NEW n \in Tokens, CommitRefresh(r, n)
    PROVE  LET t == req[r].t
           IN  /\ t \in Tokens /\ t # n /\ token[n] = NoToken /\ token[t].state # "none"
               /\ \A u \in Tokens :
                    /\ token'[u].parent = IF u = n THEN t ELSE token[u].parent
                    /\ token'[u].login = IF u = n THEN token[t].login ELSE token[u].login
                    /\ token'[u].state = IF u = n THEN "live" ELSE IF u = t THEN "revoked" ELSE token[u].state
                    /\ token'[u].replaced_by =
                         IF u = n THEN "none" ELSE IF u = t THEN n ELSE token[u].replaced_by
<1> DEFINE t == req[r].t
<1>1. t \in Tokens /\ token[t].state # "none" /\ token[n] = NoToken
  BY DEF Inv, SessionsAreSound, CommitRefresh
<1>2. t # n
  BY <1>1 DEF NoToken
<1>3. \A u \in Tokens : token[u] \in TokenRow
  BY DEF Inv, TypeOK
<1>4. \A u \in Tokens : token'[u] = IF u = n THEN Issued(t, token[t].login)
                                    ELSE IF u = t THEN Exchanged(token[t], n) ELSE token[u]
  BY <1>1, <1>2 DEF Inv, TypeOK, CommitRefresh
<1>5. ASSUME NEW u \in Tokens
      PROVE  /\ token'[u].parent = IF u = n THEN t ELSE token[u].parent
             /\ token'[u].login = IF u = n THEN token[t].login ELSE token[u].login
             /\ token'[u].state = IF u = n THEN "live" ELSE IF u = t THEN "revoked" ELSE token[u].state
             /\ token'[u].replaced_by = IF u = n THEN "none" ELSE IF u = t THEN n ELSE token[u].replaced_by
  <2>1. CASE u = n
    BY <1>4, <2>1 DEF Issued
  <2>2. CASE u = t
    BY <1>1, <1>2, <1>3, <1>4, <2>2 DEF Exchanged, TokenRow
  <2>3. CASE u # n /\ u # t
    BY <1>4, <2>3
  <2> QED BY <2>1, <2>2, <2>3
<1> HIDE DEF t
<1> QED BY <1>1, <1>2, <1>5 DEF t

LEMMA RefreshInv ==
    ASSUME Inv, NEW r \in Requests, NEW n \in Tokens, CommitRefresh(r, n)
    PROVE  /\ SessionsAreSound' /\ RowsAreSound' /\ ExchangedOnce' /\ OneEnd' /\ HoldersAreAlone'
<1> DEFINE t == req[r].t
<1>1. /\ t \in Tokens /\ t # n /\ token[n] = NoToken /\ token[t].state # "none"
      /\ \A u \in Tokens :
           /\ token'[u].parent = IF u = n THEN t ELSE token[u].parent
           /\ token'[u].login = IF u = n THEN token[t].login ELSE token[u].login
           /\ token'[u].state = IF u = n THEN "live" ELSE IF u = t THEN "revoked" ELSE token[u].state
           /\ token'[u].replaced_by = IF u = n THEN "none" ELSE IF u = t THEN n ELSE token[u].replaced_by
  BY RefreshEffect
<1>2. /\ token[n].parent = "none" /\ token[n].state = "none"
      /\ \A q \in Requests : req'[q] = IF q = r THEN Idle ELSE req[q]
      /\ Idle.op = "none" /\ req[r].op = "refresh" /\ forked' = forked
  BY <1>1 DEF Inv, TypeOK, CommitRefresh, NoToken, Idle
<1>3. \A u \in Tokens : u # n /\ u # t => token'[u] = token[u]
  BY <1>1 DEF CommitRefresh, Inv, TypeOK
<1>4. \A u \in Tokens : token[u].parent # n
  BY <1>1, <1>2 DEF Inv, RowsAreSound
<1> HIDE DEF t
<1>5. SessionsAreSound'
  BY <1>1, <1>2 DEF Inv, SessionsAreSound, t
<1>6. RowsAreSound'
  BY <1>1, <1>2, <1>3, <1>4 DEF Inv, RowsAreSound
<1>7. Unforked(t) => /\ Childless(t)
                     /\ \A q \in Requests : req[q].op = "refresh" /\ req[q].t = t => q = r
  BY <1>2 DEF Inv, HoldersAreAlone, t
<1>8. \A u \in Tokens : u # n => (Unforked(u)' <=> Unforked(u))
  BY <1>1, <1>2 DEF Unforked
<1>9. Unforked(n)' <=> Unforked(t)
  BY <1>1, <1>2 DEF Unforked
<1>10. ExchangedOnce'
  <2> SUFFICES ASSUME NEW a \in Tokens, NEW u \in Tokens, Unforked(u)', token'[u].parent = a
               PROVE  token'[a].state = "revoked" /\ token'[a].replaced_by = u
    BY DEF ExchangedOnce
  <2>1. CASE u = n
    BY <1>1, <2>1
  <2>2. CASE u # n
    <3>1. token[u].parent = a /\ Unforked(u) /\ a # n
      BY <1>1, <1>4, <1>8, <2>2
    <3>2. token[a].state = "revoked" /\ token[a].replaced_by = u
      BY <3>1 DEF Inv, ExchangedOnce
    <3>3. a # t
      <4>1. a = t => Unforked(t)
        BY <1>1, <3>1 DEF Inv, RowsAreSound, Unforked
      <4> QED BY <1>7, <3>1, <4>1 DEF Childless
    <3> QED BY <1>1, <3>1, <3>2, <3>3
  <2> QED BY <2>1, <2>2
<1>11. /\ \A u \in Tokens : u # n /\ Childless(u)' => Childless(u) /\ u # t
       /\ Unforked(t) => Childless(t)
  <2>1. ASSUME NEW u \in Tokens, u # n, Childless(u)' PROVE Childless(u) /\ u # t
    <3>1. \A w \in Tokens : token'[w].parent # u
      BY <2>1 DEF Childless
    <3>2. u # t
      BY <1>1, <3>1
    <3>3. ASSUME NEW w \in Tokens PROVE token[w].parent # u
      BY <1>1, <1>2, <3>1, SessionsAssumption
    <3> QED BY <3>2, <3>3 DEF Childless
  <2> QED BY <1>7, <2>1
<1>12. OneEnd'
  <2> SUFFICES ASSUME NEW a \in Tokens, NEW u \in Tokens, Unforked(a)', Unforked(u)',
                      token'[a].login = token'[u].login, Childless(a)', Childless(u)'
               PROVE  a = u
    BY DEF OneEnd
  <2>1. CASE a # n /\ u # n
    BY <1>1, <1>8, <1>11, <2>1 DEF Inv, OneEnd
  <2>2. ASSUME NEW x \in Tokens, x # n, Unforked(x)', Childless(x)', token'[x].login = token'[n].login, Unforked(n)'
        PROVE  FALSE
    <3>1. Unforked(x) /\ Childless(x) /\ x # t /\ Unforked(t) /\ Childless(t)
      BY <1>8, <1>9, <1>11, <2>2
    <3>2. token[x].login = token[t].login
      BY <1>1, <2>2
    <3> QED BY <1>1, <3>1, <3>2 DEF Inv, OneEnd
  <2> QED BY <2>1, <2>2
<1>13. HoldersAreAlone'
  <2>1. ASSUME NEW q \in Requests, req'[q].op = "refresh", Unforked(req[q].t)'
        PROVE  /\ Childless(req[q].t)'
               /\ \A p \in Requests : req'[p].op = "refresh" /\ req'[p].t = req'[q].t => p = q
    <3>1. q # r /\ req'[q] = req[q] /\ req[q].op = "refresh"
      BY <1>2, <2>1
    <3> DEFINE x == req[q].t
    <3>2. x \in Tokens /\ token[x].state # "none" /\ x # n /\ req'[q].t = x
      BY <1>2, <3>1 DEF Inv, SessionsAreSound
    <3>3. Unforked(x)
      BY <1>1, <1>2, <2>1, <3>2 DEF Unforked
    <3>4. Childless(x) /\ \A p \in Requests : req[p].op = "refresh" /\ req[p].t = x => p = q
      BY <3>1, <3>3 DEF Inv, HoldersAreAlone
    <3> HIDE DEF x
    <3>5. x # t
      BY <1>2, <3>1, <3>4 DEF t
    <3>6. \A u \in Tokens : token'[u].parent # x
      BY <1>1, <3>4, <3>5 DEF Childless
    <3>7. Childless(req[q].t)'
      BY <3>2, <3>6 DEF Childless
    <3>8. \A p \in Requests : req'[p].op = "refresh" /\ req'[p].t = x => p = q
      BY <1>2, <3>4
    <3> QED BY <3>2, <3>7, <3>8
  <2> QED BY <2>1 DEF HoldersAreAlone
<1> QED BY <1>5, <1>6, <1>10, <1>12, <1>13

\* A login begins a line of its own.
LEMMA LoginInv ==
    ASSUME Inv, NEW r \in Requests, NEW n \in Tokens, CommitLogin(r, n)
    PROVE  /\ SessionsAreSound' /\ RowsAreSound' /\ ExchangedOnce' /\ OneEnd' /\ HoldersAreAlone'
<1>1. /\ token[n].parent = "none" /\ token[n].state = "none"
      /\ \A u \in Tokens : token'[u] = IF u = n THEN Issued("none", n) ELSE token[u]
      /\ \A q \in Requests : req'[q] = IF q = r THEN Idle ELSE req[q]
      /\ Idle.op = "none" /\ forked' = forked
  BY DEF Inv, TypeOK, CommitLogin, NoToken, Idle
<1>2. /\ Issued("none", n).parent = "none" /\ Issued("none", n).login = n /\ Issued("none", n).state = "live"
  BY DEF Issued
<1>3. \A u \in Tokens : token[u].parent # n /\ (token[u].state # "none" => token[u].login # n)
  BY <1>1 DEF Inv, RowsAreSound
<1>4. \A u \in Tokens : u # n => (Unforked(u)' <=> Unforked(u)) /\ (Childless(u)' <=> Childless(u))
  BY <1>1, <1>2, SessionsAssumption DEF Unforked, Childless
<1>5. SessionsAreSound'
  BY <1>1, <1>2 DEF Inv, SessionsAreSound
<1>6. RowsAreSound'
  BY <1>1, <1>2, <1>3, SessionsAssumption DEF Inv, RowsAreSound
<1>7. ExchangedOnce'
  BY <1>1, <1>2, <1>3, <1>4, SessionsAssumption DEF Inv, ExchangedOnce
<1>8. OneEnd'
  BY <1>1, <1>2, <1>3, <1>4 DEF Inv, OneEnd, Unforked
<1>9. HoldersAreAlone'
  <2>1. ASSUME NEW q \in Requests, req'[q].op = "refresh", Unforked(req[q].t)'
        PROVE  /\ Childless(req[q].t)'
               /\ \A p \in Requests : req'[p].op = "refresh" /\ req'[p].t = req'[q].t => p = q
    <3>1. req'[q] = req[q] /\ req[q].op = "refresh"
      BY <1>1, <2>1
    <3>2. req[q].t \in Tokens /\ req[q].t # n
      BY <1>1, <3>1 DEF Inv, SessionsAreSound
    <3>3. Unforked(req[q].t)
      BY <1>1, <2>1, <3>1, <3>2 DEF Unforked
    <3>4. Childless(req[q].t) /\ \A p \in Requests : req[p].op = "refresh" /\ req[p].t = req[q].t => p = q
      BY <3>1, <3>3 DEF Inv, HoldersAreAlone
    <3>5. Childless(req[q].t)'
      BY <1>1, <1>2, <3>1, <3>2, <3>4, SessionsAssumption DEF Childless
    <3> QED BY <1>1, <3>1, <3>4, <3>5
  <2> QED BY <2>1 DEF HoldersAreAlone
<1> QED BY <1>5, <1>6, <1>7, <1>8, <1>9

\* Logout and expiry change only states, and only of tokens that were in use.
LEMMA StateStep ==
    ASSUME Inv, NEW t \in Tokens, NEW to \in {"revoked", "expired"},
           token[t].state # "none", to = "expired" => token[t].state = "live",
           token' = [token EXCEPT ![t].state = to], forked' = forked,
           \A q \in Requests : req'[q] = req[q] \/ req'[q] = Idle
    PROVE  /\ SessionsAreSound' /\ RowsAreSound' /\ ExchangedOnce' /\ OneEnd' /\ HoldersAreAlone'
<1>1. \A u \in Tokens : /\ token'[u].parent = token[u].parent /\ token'[u].login = token[u].login
                        /\ token'[u].replaced_by = token[u].replaced_by
                        /\ token'[u].state = IF u = t THEN to ELSE token[u].state
  BY DEF Inv, TypeOK, TokenRow
<1>2. to # "none" /\ to # "live"
  OBVIOUS
<1>3. \A u \in Tokens : (Unforked(u)' <=> Unforked(u)) /\ (Childless(u)' <=> Childless(u))
  BY <1>1, <1>2 DEF Unforked, Childless
<1>4. \A q \in Requests : req'[q].op # "none" => req'[q] = req[q]
  BY DEF Idle
<1>5. SessionsAreSound'
  BY <1>1, <1>2, <1>4 DEF Inv, SessionsAreSound, Idle
<1>6. RowsAreSound'
  <2>1. \A u \in Tokens : u # t => token'[u] = token[u]
    BY DEF Inv, TypeOK
  <2> QED BY <1>1, <1>2, <2>1 DEF Inv, RowsAreSound
<1>7. ExchangedOnce'
  <2>1. \A u \in Tokens : token[t].state = "live" /\ Unforked(u) => token[u].parent # t
    BY DEF Inv, ExchangedOnce
  <2> QED BY <1>1, <1>3, <2>1 DEF Inv, ExchangedOnce
<1>8. OneEnd'
  BY <1>1, <1>3 DEF Inv, OneEnd
<1>9. HoldersAreAlone'
  <2>1. ASSUME NEW q \in Requests, req'[q].op = "refresh", Unforked(req[q].t)'
        PROVE  /\ Childless(req[q].t)'
               /\ \A p \in Requests : req'[p].op = "refresh" /\ req'[p].t = req'[q].t => p = q
    <3>1. req'[q] = req[q] /\ req[q].op = "refresh"
      BY <1>4, <2>1
    <3>2. req[q].t \in Tokens /\ token[req[q].t].state # "none"
      BY <3>1 DEF Inv, SessionsAreSound
    <3>3. Unforked(req[q].t)
      BY <1>1, <2>1, <3>1, <3>2 DEF Unforked
    <3>4. Childless(req[q].t) /\ \A p \in Requests : req[p].op = "refresh" /\ req[p].t = req[q].t => p = q
      BY <3>1, <3>3 DEF Inv, HoldersAreAlone
    <3>5. Childless(req[q].t)'
      BY <1>1, <3>1, <3>4 DEF Childless
    <3> QED BY <1>4, <3>1, <3>4, <3>5
  <2> QED BY <2>1 DEF HoldersAreAlone
<1> QED BY <1>5, <1>6, <1>7, <1>8, <1>9

\* A refresh begins: either it is alone with its token or the login has forked.
LEMMA HoldInv ==
    ASSUME Inv, NEW r \in Requests, NEW t \in Tokens, HoldToken(r, t)
    PROVE  /\ SessionsAreSound' /\ RowsAreSound' /\ ExchangedOnce' /\ OneEnd' /\ HoldersAreAlone'
<1>1. /\ token[t].state = "live" /\ token' = token /\ forked \subseteq forked'
      /\ Held(t) => token[t].login \in forked'
      /\ req[r].op = "none"
  BY DEF HoldToken, Usable, Inv, SessionsAreSound
<1>2. \A q \in Requests : req'[q] = IF q = r THEN [pc |-> "held", op |-> "refresh", t |-> t] ELSE req[q]
  BY DEF HoldToken, Inv, TypeOK
<1>3. \A u : (Unforked(u)' => Unforked(u)) /\ (Childless(u)' <=> Childless(u))
  BY <1>1 DEF Unforked, Childless
<1>4. SessionsAreSound'
  BY <1>1, <1>2 DEF Inv, SessionsAreSound
<1>5. RowsAreSound' /\ ExchangedOnce' /\ OneEnd'
  <2>1. RowsAreSound'
    BY <1>1 DEF Inv, RowsAreSound
  <2>2. ExchangedOnce'
    BY <1>1, <1>3 DEF Inv, ExchangedOnce
  <2>3. OneEnd'
    BY <1>1, <1>3 DEF Inv, OneEnd
  <2> QED BY <2>1, <2>2, <2>3
<1>6. HoldersAreAlone'
  <2>1. ASSUME NEW q \in Requests, req'[q].op = "refresh", Unforked(req[q].t)'
        PROVE  /\ Childless(req[q].t)'
               /\ \A p \in Requests : req'[p].op = "refresh" /\ req'[p].t = req'[q].t => p = q
    <3> DEFINE x == req'[q].t
    <3>1. x \in Tokens /\ token[x].state # "none" /\ token[x].login \notin forked'
      BY <1>1, <2>1, <1>4 DEF Unforked, SessionsAreSound
    <3>2. Unforked(x)
      BY <1>1, <3>1 DEF Unforked
    <3> HIDE DEF x
    <3>3. CASE x = t
      <4>1. ~Held(t)
        BY <1>1, <3>1, <3>3
      <4>2. \A u \in Tokens : token[u].parent # t
        <5>1. ASSUME NEW u \in Tokens, token[u].parent = t PROVE FALSE
          <6>1. Unforked(u)
            BY <3>2, <3>3, <5>1 DEF Inv, RowsAreSound, Unforked
          <6> QED BY <1>1, <5>1, <6>1 DEF Inv, ExchangedOnce
        <5> QED BY <5>1
      <4>3. \A p \in Requests : req'[p].op = "refresh" /\ req'[p].t = t => p = r
        BY <1>2, <4>1 DEF Held
      <4>4. q = r
        BY <2>1, <3>3, <4>3 DEF x
      <4>5. Childless(req[q].t)'
        BY <1>1, <3>3, <4>2 DEF Childless, x
      <4> QED BY <3>3, <4>3, <4>4, <4>5 DEF x
    <3>4. CASE x # t
      <4>1. q # r /\ req'[q] = req[q] /\ req[q].op = "refresh" /\ req[q].t = x
        BY <1>2, <2>1, <3>4 DEF x
      <4>2. Childless(x) /\ \A p \in Requests : req[p].op = "refresh" /\ req[p].t = x => p = q
        BY <3>2, <4>1 DEF Inv, HoldersAreAlone
      <4>3. Childless(req[q].t)'
        BY <1>1, <4>1, <4>2 DEF Childless
      <4>4. \A p \in Requests : req'[p].op = "refresh" /\ req'[p].t = x => p = q
        BY <1>2, <3>4, <4>2
      <4> QED BY <4>3, <4>4 DEF x
    <3> QED BY <3>3, <3>4
  <2> QED BY <2>1 DEF HoldersAreAlone
<1> QED BY <1>4, <1>5, <1>6

LEMMA NextInv == Inv /\ [Next]_vars => Inv'
<1> SUFFICES ASSUME Inv, [Next]_vars PROVE Inv'
  OBVIOUS
<1> DEFINE Rest == SessionsAreSound /\ RowsAreSound /\ ExchangedOnce /\ OneEnd /\ HoldersAreAlone
<1>1. TypeOK'
  BY NextType
<1>2. Rest'
  <2>1. CASE UNCHANGED vars
    BY <2>1 DEF vars, Inv, SessionsAreSound, RowsAreSound, ExchangedOnce, OneEnd, HoldersAreAlone, Unforked, Childless
  <2>2. ASSUME NEW r \in Requests, Login(r) PROVE Rest'
    BY <2>2, QuietStep DEF Login
  <2>3. ASSUME NEW r \in Requests, NEW t \in Tokens, HoldToken(r, t) PROVE Rest'
    BY <2>3, HoldInv
  <2>4. ASSUME NEW r \in Requests, CheckUser(r) PROVE Rest'
    <3> DEFINE s == [req[r] EXCEPT !.pc = "checked"]
    <3>1. /\ req[r] \in Session /\ s.op = req[r].op /\ s.t = req[r].t /\ s.pc = "checked"
          /\ req' = [req EXCEPT ![r] = s]
      BY <2>4 DEF CheckUser, Inv, TypeOK, Session
    <3>2. token' = token /\ forked' = forked
      BY <2>4 DEF CheckUser
    <3>3. /\ s.op = "logout" => s.t \in Tokens /\ token[s.t].state # "none"
          /\ s.op = "login" => s.t = "none"
      BY <3>1 DEF Inv, SessionsAreSound
    <3> HIDE DEF s
    <3> QED BY <3>1, <3>2, <3>3, QuietStep
  <2>5. ASSUME NEW r \in Requests, NEW n \in Tokens, CommitLogin(r, n) PROVE Rest'
    BY <2>5, LoginInv
  <2>6. ASSUME NEW r \in Requests, NEW n \in Tokens, CommitRefresh(r, n) PROVE Rest'
    BY <2>6, RefreshInv
  <2>7. ASSUME NEW r \in Requests, NEW t \in Tokens, LoadLogout(r, t) PROVE Rest'
    BY <2>7, QuietStep DEF LoadLogout
  <2>8. ASSUME NEW r \in Requests, CommitLogout(r) PROVE Rest'
    <3>1. req[r].t \in Tokens /\ token[req[r].t].state # "none"
      BY <2>8 DEF CommitLogout, Inv, SessionsAreSound
    <3>2. \A q \in Requests : req'[q] = req[q] \/ req'[q] = Idle
      BY <2>8 DEF CommitLogout, Inv, TypeOK
    <3>3. token' = [token EXCEPT ![req[r].t].state = "revoked"] /\ forked' = forked
      BY <2>8 DEF CommitLogout
    <3> QED BY <3>1, <3>2, <3>3, StateStep
  <2>9. ASSUME NEW t \in Tokens, Expire(t) PROVE Rest'
    <3>1. /\ token[t].state = "live" /\ token' = [token EXCEPT ![t].state = "expired"]
          /\ forked' = forked /\ req' = req
      BY <2>9 DEF Expire
    <3> QED BY <3>1, StateStep
  <2>10. CASE SetStatus
    BY <2>10 DEF SetStatus, Inv, SessionsAreSound, RowsAreSound, ExchangedOnce, OneEnd, HoldersAreAlone, Unforked, Childless
  <2>11. ASSUME NEW r \in Requests, Rollback(r) PROVE Rest'
    BY <2>11, QuietStep DEF Rollback, Idle
  <2> QED BY <2>1, <2>2, <2>3, <2>4, <2>5, <2>6, <2>7, <2>8, <2>9, <2>10, <2>11 DEF Next
<1> QED BY <1>1, <1>2 DEF Inv

\* A token of a login that has not forked is at its end while it can be used.
LEMMA LiveIsLast ==
    ASSUME Inv, NEW x \in Tokens, token[x].state = "live", Unforked(x)
    PROVE  Childless(x)
<1> SUFFICES ASSUME NEW c \in Tokens, token[c].parent = x PROVE FALSE
  BY DEF Childless
<1>1. Unforked(c)
  BY DEF Inv, RowsAreSound, Unforked
<1> QED BY <1>1 DEF Inv, ExchangedOnce

\* refresh_tokens and the sessions keep their types for every set of tokens and
\* requests.
THEOREM SessionsTypeCorrect == Spec => []TypeOK
<1>1. Inv => TypeOK
  BY DEF Inv
<1> QED BY InitInv, NextInv, <1>1, PTL DEF Spec

\* However logins, refreshes, logouts and expiries interleave: the tokens of a
\* login form a line with at most one usable token, unless two refreshes have
\* held one of them together.
THEOREM TokensStayALine == Spec => []TokensFormALine
<1>1. Inv => TokensFormALine
  <2> SUFFICES ASSUME Inv, NEW t \in Tokens, NEW u \in Tokens
               PROVE  /\ /\ token[t].state = "live" /\ token[u].state = "live"
                         /\ token[t].login = token[u].login /\ token[t].login \notin forked
                         => t = u
                      /\ token[u].parent = t /\ token[u].login \notin forked
                         => token[t].state = "revoked" /\ token[t].replaced_by = u
    BY DEF TokensFormALine
  <2>1. \A x \in Tokens : token[x].state = "live" /\ Unforked(x) => Childless(x)
    BY LiveIsLast
  <2>2. /\ token[t].state = "live" /\ token[u].state = "live"
        /\ token[t].login = token[u].login /\ token[t].login \notin forked
        => t = u
    BY <2>1 DEF Inv, OneEnd, Unforked
  <2>3. token[u].parent = t /\ token[u].login \notin forked
        => token[t].state = "revoked" /\ token[t].replaced_by = u
    BY DEF Inv, ExchangedOnce, RowsAreSound, Unforked
  <2> QED BY <2>2, <2>3
<1> QED BY InitInv, NextInv, <1>1, PTL DEF Spec

\* What the refreshes in flight hold after a step that starts none of them.
LEMMA HeldBefore ==
    ASSUME \A q \in Requests : req'[q].op = "refresh" => req[q].op = "refresh" /\ req'[q].t = req[q].t
    PROVE  \A u : Held(u)' => Held(u)
  BY DEF Held

\* A login that is over: every step leaves it so.
LEMMA OverStays ==
    ASSUME Inv, Next, NEW l \in Tokens, Over(l)
    PROVE  Over(l)'
<1>1. /\ \E t \in Tokens : token[t].login = l
      /\ \A t \in Tokens : token[t].login = l => token[t].state # "live" /\ ~Held(t)
  BY DEF Over
<1>2. token[l].state # "none"
  <2>1. PICK t \in Tokens : token[t].login = l
    BY <1>1
  <2>2. token[t].state # "none"
    BY <2>1, SessionsAssumption DEF Inv, RowsAreSound, NoToken
  <2> QED BY <2>1, <2>2 DEF Inv, RowsAreSound
\* Steps after which no more tokens of the login are usable or held.
<1>3. ASSUME \A t \in Tokens : /\ token'[t].login = l <=> token[t].login = l
                               /\ token[t].login = l => /\ token'[t].state = "live" => token[t].state = "live"
                                                        /\ Held(t)' => Held(t)
      PROVE  Over(l)'
  BY <1>1, <1>3 DEF Over
<1>4. ASSUME NEW r \in Requests, Login(r) PROVE Over(l)'
  <2>1. token' = token /\ \A q \in Requests : req'[q].op = "refresh" => req[q].op = "refresh" /\ req'[q].t = req[q].t
    BY <1>4 DEF Login, Inv, TypeOK
  <2> QED BY <1>3, <2>1, HeldBefore
<1>5. ASSUME NEW r \in Requests, CheckUser(r) PROVE Over(l)'
  <2>1. token' = token /\ \A q \in Requests : req'[q].op = req[q].op /\ req'[q].t = req[q].t
    BY <1>5 DEF CheckUser, Inv, TypeOK, Session
  <2> QED BY <1>3, <2>1, HeldBefore
<1>6. ASSUME NEW r \in Requests, CommitLogout(r) PROVE Over(l)'
  <2>1. \A q \in Requests : req'[q].op = "refresh" => req[q].op = "refresh" /\ req'[q].t = req[q].t
    BY <1>6 DEF CommitLogout, Inv, TypeOK, Idle
  <2>2. \A t \in Tokens : token'[t].login = token[t].login /\ (token'[t].state = "live" => token[t].state = "live")
    BY <1>6 DEF CommitLogout, Inv, TypeOK, TokenRow
  <2> QED BY <1>3, <2>1, <2>2, HeldBefore
<1>7. ASSUME NEW r \in Requests, Rollback(r) PROVE Over(l)'
  <2>1. token' = token /\ \A q \in Requests : req'[q].op = "refresh" => req[q].op = "refresh" /\ req'[q].t = req[q].t
    BY <1>7 DEF Rollback, Inv, TypeOK, Idle
  <2> QED BY <1>3, <2>1, HeldBefore
<1>8. ASSUME NEW r \in Requests, NEW t \in Tokens, LoadLogout(r, t) PROVE Over(l)'
  <2>1. token' = token /\ \A q \in Requests : req'[q].op = "refresh" => req[q].op = "refresh" /\ req'[q].t = req[q].t
    BY <1>8 DEF LoadLogout, Inv, TypeOK
  <2> QED BY <1>3, <2>1, HeldBefore
<1>9. ASSUME NEW t \in Tokens, Expire(t) PROVE Over(l)'
  <2>1. \A q \in Requests : req'[q].op = "refresh" => req[q].op = "refresh" /\ req'[q].t = req[q].t
    BY <1>9 DEF Expire
  <2>2. \A u \in Tokens : token'[u].login = token[u].login /\ (token'[u].state = "live" => token[u].state = "live")
    BY <1>9 DEF Expire, Inv, TypeOK, TokenRow
  <2> QED BY <1>3, <2>1, <2>2, HeldBefore
<1>10. CASE SetStatus
  <2>1. token' = token /\ req' = req
    BY <1>10 DEF SetStatus
  <2> QED BY <1>3, <2>1 DEF Held
<1>11. ASSUME NEW r \in Requests, NEW t \in Tokens, HoldToken(r, t) PROVE Over(l)'
  <2>1. token' = token /\ token[t].login # l
    BY <1>1, <1>11 DEF HoldToken, Usable
  <2>2. \A q \in Requests : req'[q] = IF q = r THEN [pc |-> "held", op |-> "refresh", t |-> t] ELSE req[q]
    BY <1>11 DEF HoldToken, Inv, TypeOK
  <2>3. \A u \in Tokens : u # t /\ Held(u)' => Held(u)
    BY <2>2 DEF Held
  <2> QED BY <1>3, <2>1, <2>3
<1>12. ASSUME NEW r \in Requests, NEW n \in Tokens, CommitLogin(r, n) PROVE Over(l)'
  <2>1. /\ \A q \in Requests : req'[q].op = "refresh" => req[q].op = "refresh" /\ req'[q].t = req[q].t
        /\ \A u \in Tokens : token'[u] = IF u = n THEN Issued("none", n) ELSE token[u]
        /\ token[n] = NoToken
    BY <1>12 DEF CommitLogin, Inv, TypeOK, Idle
  <2>2. n # l /\ token[n].login # l /\ token'[n].login = n
    BY <1>2, <2>1, SessionsAssumption DEF NoToken, Issued
  <2> QED BY <1>3, <2>1, <2>2, HeldBefore
<1>13. ASSUME NEW r \in Requests, NEW n \in Tokens, CommitRefresh(r, n) PROVE Over(l)'
  <2> DEFINE t == req[r].t
  <2>1. /\ t \in Tokens /\ token[n] = NoToken
        /\ \A u \in Tokens :
             /\ token'[u].login = IF u = n THEN token[t].login ELSE token[u].login
             /\ token'[u].state = IF u = n THEN "live" ELSE IF u = t THEN "revoked" ELSE token[u].state
    BY <1>13, RefreshEffect
  <2>2. Held(t)
    BY <1>13 DEF CommitRefresh, Held
  <2>3. token[t].login # l /\ token[n].login # l
    BY <1>1, <2>1, <2>2, SessionsAssumption DEF NoToken
  <2>4. \A q \in Requests : req'[q].op = "refresh" => req[q].op = "refresh" /\ req'[q].t = req[q].t
    BY <1>13 DEF CommitRefresh, Inv, TypeOK, Idle
  <2> HIDE DEF t
  <2> QED BY <1>3, <2>1, <2>3, <2>4, HeldBefore
<1> QED BY <1>4, <1>5, <1>6, <1>7, <1>8, <1>9, <1>10, <1>11, <1>12, <1>13 DEF Next

\* The step that revokes a token for nothing in return is a logout.
LEMMA RevokedByLogout ==
    ASSUME Inv, Next, NEW t \in Tokens, token[t].state = "live",
           token'[t].state = "revoked", token'[t].replaced_by = "none"
    PROVE  \E r \in Requests : CommitLogout(r) /\ req[r].t = t
<1>1. ASSUME NEW r \in Requests, NEW n \in Tokens, CommitRefresh(r, n) PROVE FALSE
  BY <1>1, RefreshEffect, SessionsAssumption DEF NoToken
<1>2. ASSUME NEW r \in Requests, NEW n \in Tokens, CommitLogin(r, n) PROVE FALSE
  <2>1. \A u \in Tokens : token'[u] = IF u = n THEN Issued("none", n) ELSE token[u]
    BY <1>2 DEF CommitLogin, Inv, TypeOK
  <2> QED BY <2>1 DEF Issued
<1>3. ASSUME NEW u \in Tokens, Expire(u) PROVE FALSE
  BY <1>3 DEF Expire, Inv, TypeOK, TokenRow
<1>4. ASSUME token' = token PROVE FALSE
  BY <1>4
<1>5. ASSUME NEW r \in Requests, CommitLogout(r) PROVE req[r].t = t
  BY <1>5 DEF CommitLogout, Inv, TypeOK, TokenRow
<1> QED BY <1>1, <1>2, <1>3, <1>4, <1>5 DEF Next, Login, CheckUser, Rollback, HoldToken, LoadLogout, SetStatus

\* A logout that no refresh is racing ends its login.
LEMMA LogoutEnds ==
    ASSUME Inv, Next, NEW l \in Tokens, NEW t \in Tokens, token[t].login = l, l \notin forked, ~Held(t),
           token[t].state = "live", token'[t].state = "revoked", token'[t].replaced_by = "none"
    PROVE  Over(l)'
<1>1. PICK r \in Requests : CommitLogout(r) /\ req[r].t = t
  BY RevokedByLogout
<1>2. \A q \in Requests : req'[q].op = "refresh" => req[q].op = "refresh" /\ req'[q].t = req[q].t
  BY <1>1 DEF CommitLogout, Inv, TypeOK, Idle
<1>3. \A u \in Tokens : token'[u].login = token[u].login /\ (u # t => token'[u].state = token[u].state)
  BY <1>1 DEF CommitLogout, Inv, TypeOK, TokenRow
<1>4. Unforked(t) /\ Childless(t)
  BY LiveIsLast DEF Unforked
<1>5. ASSUME NEW u \in Tokens, token[u].login = l, u # t PROVE token[u].state # "live" /\ ~Held(u)
  <2>1. token[u].state # "none"
    BY <1>5, SessionsAssumption DEF Inv, RowsAreSound, NoToken
  <2>2. Unforked(u) /\ ~Childless(u)
    BY <1>4, <1>5, <2>1 DEF Unforked, Inv, OneEnd
  <2>3. token[u].state # "live"
    BY <2>2, LiveIsLast
  <2>4. ~Held(u)
    BY <2>2 DEF Held, Inv, HoldersAreAlone
  <2> QED BY <2>3, <2>4
<1>6. \A u \in Tokens : ~Held(u) => ~Held(u)'
  BY <1>2, HeldBefore
<1> QED BY <1>3, <1>5, <1>6 DEF Over

\* A logout that no refresh of the token is racing ends the login for good, however
\* many tokens the login has had, unless it has forked.
THEOREM LogoutsEndLogins == Spec => LogoutEndsLogin
<1> DEFINE Ends ==
        \A l \in Tokens :
          /\ \A t \in Tokens :
               /\ token[t].login = l /\ l \notin forked /\ ~Held(t)
               /\ token[t].state = "live" /\ token'[t].state = "revoked" /\ token'[t].replaced_by = "none"
               => Over(l)'
          /\ Over(l) => Over(l)'
<1>1. Inv /\ [Next]_vars => [Ends]_vars
  <2> SUFFICES ASSUME Inv, Next PROVE Ends
    OBVIOUS
  <2> QED BY LogoutEnds, OverStays
<1> QED BY InitInv, NextInv, <1>1, PTL DEF Spec, LogoutEndsLogin

-----------------------------------------------------------------------------
(* Idempotency.                                                             *)

KeyTypeOK ==
    /\ store \in Entry
    /\ post \in [Posts -> PostState]
    /\ expiries \in Nat /\ slips \in Nat
    /\ done \subseteq Posts

\* An operation on body f was committed.
DoneFor(f) == \E x \in done : Body[x] = f

\* A result, stored or on its way to a client, is that of a committed operation
\* on the same body.
ResultInv ==
    /\ store.response = "result" => DoneFor(store.fingerprint)
    /\ \A r \in Posts : post[r].answer = "result" => DoneFor(Body[r])

\* The requests that may have an operation of their own: those that committed
\* one and those that are past the key.
Holders == done \cup {r \in Posts : post[r].pc \in {"missed", "reserved"}}

SomeoneMissed == \E r \in Posts : post[r].pc = "missed"

\* The allowance of one operation is free while the key is unset and nobody is
\* about to set it; an expiry and a request that slips by each grant another.
HolderInv ==
    /\ IsFiniteSet(Holders)
    /\ Cardinality(Holders) <= 1 + expiries + slips
    /\ store = NoKey /\ ~SomeoneMissed => Cardinality(Holders) <= expiries + slips

\* A step that takes request r to another point of its course and leaves the rest.
LEMMA GoTyped ==
    ASSUME KeyTypeOK, NEW r \in Posts, NEW pc, NEW answer, Go(r, pc, answer),
           [pc |-> pc, answer |-> answer] \in PostState
    PROVE  /\ post' \in [Posts -> PostState]
           /\ post'[r].pc = pc /\ post'[r].answer = answer
           /\ \A x \in Posts \ {r} : post'[x] = post[x]
  BY DEF KeyTypeOK, Go

\* What each step of a request does, in the terms of the two invariants.
LEMMA KeySteps ==
    ASSUME KeyTypeOK, NEW r \in Posts, Arrive(r) \/ Handle(r)
    PROVE  /\ post' \in [Posts -> PostState]
           /\ \A x \in Posts \ {r} : post'[x] = post[x]
           /\ expiries' = expiries
           /\ \/ /\ Arrive(r) \/ Refuse(r) \/ Fail(r)
                 /\ post'[r].pc \notin {"missed", "reserved"} /\ post[r].pc # "missed"
                 /\ post'[r].answer # "result"
                 /\ store' = store /\ done' = done /\ slips' = slips
              \/ /\ GetFirst(r) /\ store = NoKey /\ post[r].pc = "arrived"
                 /\ post'[r].pc = "missed" /\ post'[r].answer = "none"
                 /\ store' = store /\ done' = done
                 /\ slips' = IF SomeoneMissed THEN slips + 1 ELSE slips
              \/ /\ GetFirst(r) /\ store # NoKey /\ post[r].pc = "arrived"
                 /\ post'[r].pc = "answered"
                 /\ post'[r].answer = "result" => store.response = "result" /\ store.fingerprint = Body[r]
                 /\ store' = store /\ done' = done /\ slips' = slips
              \/ /\ SetFirst(r) /\ post[r].pc = "missed"
                 /\ post'[r].pc = "reserved" /\ post'[r].answer = "none"
                 /\ store' = [fingerprint |-> Body[r], response |-> "placeholder"]
                 /\ done' = done /\ slips' = slips
              \/ /\ FailOpen(r) /\ post[r].pc \in {"arrived", "missed"}
                 /\ post'[r].pc = "reserved" /\ post'[r].answer = "none"
                 /\ store' = store /\ done' = done /\ slips' = slips + 1
              \/ /\ Succeed(r) /\ post[r].pc = "reserved" /\ post'[r].pc = "executed"
                 /\ store' = store /\ done' = done \cup {r} /\ slips' = slips
              \/ /\ GetLast(r) \/ AnswerUnstored(r)
                 /\ post[r].pc \in {"executed", "storing"} /\ post'[r].pc \in {"storing", "answered"}
                 /\ post'[r].answer \in {post[r].answer, "conflict"}
                 /\ store' = store /\ done' = done /\ slips' = slips
              \/ /\ SetLast(r) /\ post[r].pc = "storing" /\ post'[r].pc = "answered"
                 /\ post'[r].answer = post[r].answer
                 /\ store' = [fingerprint |-> Body[r], response |-> post[r].answer]
                 /\ done' = done /\ slips' = slips
<1> USE DEF PostState, Response
<1>0. post[r] \in PostState /\ store \in Entry
  BY DEF KeyTypeOK
<1>1. CASE Arrive(r)
  BY <1>1, GoTyped DEF Arrive, redis
<1>2. CASE Refuse(r)
  BY <1>2, GoTyped DEF Refuse, redis
<1>3. CASE Fail(r)
  BY <1>3, GoTyped DEF Fail, redis
<1>4. CASE GetFirst(r) /\ store = NoKey
  BY <1>4, GoTyped DEF GetFirst, redis, Slips, SomeoneMissed
<1>5. CASE GetFirst(r) /\ store # NoKey
  <2>1. CASE store.fingerprint = Body[r]
    <3>1. Go(r, "answered", store.response)
      BY <1>5, <2>1 DEF GetFirst, Matches
    <3>2. [pc |-> "answered", answer |-> store.response] \in PostState
      BY <1>0 DEF Entry
    <3> QED
      BY <1>5, <2>1, <3>1, <3>2, GoTyped DEF GetFirst, redis, Slips
  <2>2. CASE store.fingerprint # Body[r]
    <3>1. Go(r, "answered", "conflict")
      BY <1>5, <2>2 DEF GetFirst, Matches
    <3> QED
      BY <1>5, <3>1, GoTyped DEF GetFirst, redis, Slips
  <2> QED
    BY <2>1, <2>2
<1>6. CASE SetFirst(r)
  BY <1>6, GoTyped DEF SetFirst, Reservation
<1>7. CASE FailOpen(r)
  BY <1>7, GoTyped DEF FailOpen, redis, FailsOpenAt
<1>8. CASE Succeed(r)
  BY <1>8, GoTyped DEF Succeed, redis
<1>9. CASE GetLast(r)
  <2>1. PICK pc \in {"storing", "answered"}, answer \in {post[r].answer, "conflict"} : Go(r, pc, answer)
    BY <1>9 DEF GetLast
  <2>2. [pc |-> pc, answer |-> answer] \in PostState
    BY <1>0
  <2> QED
    BY <1>9, <2>1, <2>2, GoTyped DEF GetLast, redis
<1>10. CASE AnswerUnstored(r)
  BY <1>0, <1>10, GoTyped DEF AnswerUnstored, redis
<1>11. CASE SetLast(r)
  BY <1>0, <1>11, GoTyped DEF SetLast
<1> QED
  BY <1>1, <1>2, <1>3, <1>4, <1>5, <1>6, <1>7, <1>8, <1>9, <1>10, <1>11 DEF Handle

KeyInv == KeyTypeOK /\ ResultInv /\ HolderInv

LEMMA InitKey == KeyInit => KeyInv
<1> SUFFICES ASSUME KeyInit PROVE KeyInv
  OBVIOUS
<1>1. KeyTypeOK
  BY DEF KeyInit, KeyTypeOK, Entry, NoKey, Response, PostState
<1>2. \A r \in Posts : post[r].pc = "idle" /\ post[r].answer = "none"
  BY DEF KeyInit
<1>3. ResultInv
  BY <1>2 DEF KeyInit, ResultInv, NoKey
<1>4. Holders = {}
  BY <1>2 DEF Holders, KeyInit
<1>5. HolderInv
  BY <1>4, FS_EmptySet DEF HolderInv, KeyInit
<1> QED
  BY <1>1, <1>3, <1>5 DEF KeyInv

\* What a request may hold as its answer or leave in the store, step by step.
LEMMA StepResult ==
    ASSUME KeyInv, NEW r \in Posts, Arrive(r) \/ Handle(r)
    PROVE  KeyTypeOK' /\ ResultInv'
<1>0. KeyTypeOK /\ ResultInv /\ Body[r] \in Bodies /\ post[r] \in PostState
  BY IdempotencyAssumption DEF KeyInv, KeyTypeOK
<1>1. /\ post' \in [Posts -> PostState] /\ expiries' \in Nat
      /\ \A x \in Posts \ {r} : post'[x] = post[x]
  BY <1>0, KeySteps DEF KeyTypeOK
<1>2. slips' \in Nat /\ done \subseteq done' /\ done' \subseteq Posts
  BY <1>0, KeySteps DEF KeyTypeOK
<1>3. store' = store \/ (store'.fingerprint = Body[r] /\ store'.response \in {"placeholder", post[r].answer}
                         /\ store' \in Entry)
  <2>1. ASSUME NEW answer \in Response
        PROVE  [fingerprint |-> Body[r], response |-> answer] \in Entry
    BY <1>0 DEF Entry
  <2>2. post[r].answer \in Response /\ "placeholder" \in Response
    BY <1>0 DEF PostState, Response
  <2> QED
    BY <1>0, <2>1, <2>2, KeySteps
<1>4. KeyTypeOK'
  BY <1>0, <1>1, <1>2, <1>3 DEF KeyTypeOK
<1>5. \A f : DoneFor(f) => \E x \in done' : Body[x] = f
  BY <1>2 DEF DoneFor
<1>6. post'[r].answer = "result" => \E x \in done' : Body[x] = Body[r]
  <2>1. CASE Succeed(r)
    BY <1>0, <2>1 DEF Succeed
  <2>2. CASE ~Succeed(r) /\ post'[r].answer = "result"
    <3>1. \/ post[r].answer = "result"
          \/ store.response = "result" /\ store.fingerprint = Body[r]
      BY <1>0, <2>2, KeySteps
    <3> QED
      BY <1>0, <1>5, <3>1 DEF ResultInv
  <2> QED
    BY <2>1, <2>2
<1>7. store'.response = "result" => \E x \in done' : Body[x] = store'.fingerprint
  BY <1>0, <1>3, <1>5 DEF ResultInv
<1>8. \A x \in Posts : post'[x].answer = "result" => \E y \in done' : Body[y] = Body[x]
  BY <1>0, <1>1, <1>5, <1>6 DEF ResultInv
<1> QED
  BY <1>4, <1>7, <1>8 DEF ResultInv, DoneFor

\* How the requests past the key grow and shrink.
LEMMA StepHolders ==
    ASSUME KeyInv, NEW r \in Posts, Arrive(r) \/ Handle(r)
    PROVE  HolderInv'
<1>0. /\ KeyTypeOK /\ IsFiniteSet(Holders) /\ Cardinality(Holders) \in Nat
      /\ Cardinality(Holders) <= 1 + expiries + slips
      /\ store = NoKey /\ ~SomeoneMissed => Cardinality(Holders) <= expiries + slips
      /\ expiries \in Nat /\ slips \in Nat
  BY FS_CardinalityType DEF KeyInv, HolderInv, KeyTypeOK
<1>1. \A x \in Posts \ {r} : post'[x] = post[x]
  BY <1>0, KeySteps
<1>2. expiries' = expiries
  BY <1>0, KeySteps
<1>3. ASSUME Holders' \subseteq Holders
      PROVE  /\ IsFiniteSet(Holders') /\ Cardinality(Holders') \in Nat
             /\ Cardinality(Holders') <= Cardinality(Holders)
  BY <1>0, <1>3, FS_Subset, FS_CardinalityType
<1>4. ASSUME Holders' \subseteq Holders \cup {r}
      PROVE  /\ IsFiniteSet(Holders') /\ Cardinality(Holders') \in Nat
             /\ Cardinality(Holders') <= Cardinality(Holders) + 1
  <2>1. IsFiniteSet(Holders \cup {r}) /\ Cardinality(Holders \cup {r}) <= Cardinality(Holders) + 1
    BY <1>0, FS_AddElement
  <2>2. IsFiniteSet(Holders') /\ Cardinality(Holders') <= Cardinality(Holders \cup {r})
    BY <1>4, <2>1, FS_Subset
  <2>3. Cardinality(Holders') \in Nat /\ Cardinality(Holders \cup {r}) \in Nat
    BY <2>1, <2>2, FS_CardinalityType
  <2> QED
    BY <1>0, <2>1, <2>2, <2>3
<1>5. ASSUME \/ Arrive(r) \/ Refuse(r) \/ Fail(r) \/ GetLast(r) \/ AnswerUnstored(r)
             \/ GetFirst(r) /\ store # NoKey
      PROVE  HolderInv'
  <2>1. /\ post'[r].pc \notin {"missed", "reserved"} /\ post[r].pc # "missed"
        /\ store' = store /\ done' = done /\ slips' = slips
    <3>1. CASE Refuse(r) \/ Fail(r)
      BY <1>0, <3>1 DEF Refuse, Fail, Go, redis, KeyTypeOK
    <3>2. CASE Arrive(r) \/ GetLast(r) \/ AnswerUnstored(r)
      BY <1>0, <3>2 DEF Arrive, GetLast, AnswerUnstored, Go, redis, KeyTypeOK
    <3>3. CASE GetFirst(r) /\ store # NoKey
      BY <1>0, <3>3 DEF GetFirst, Go, redis, Slips, KeyTypeOK
    <3> QED
      BY <1>5, <3>1, <3>2, <3>3
  <2>2. Holders' \subseteq Holders
    BY <1>1, <2>1 DEF Holders
  <2>3. SomeoneMissed => SomeoneMissed'
    BY <1>1, <2>1 DEF SomeoneMissed
  <2> QED
    BY <1>0, <1>2, <1>3, <2>1, <2>2, <2>3 DEF HolderInv, NoKey
<1>6. CASE GetFirst(r) /\ store = NoKey
  <2>1. /\ post'[r].pc = "missed" /\ done' = done
        /\ slips' = IF SomeoneMissed THEN slips + 1 ELSE slips
    BY <1>0, <1>6 DEF GetFirst, Go, redis, Slips, SomeoneMissed, KeyTypeOK
  <2>2. Holders' \subseteq Holders \cup {r} /\ SomeoneMissed'
    BY <1>1, <2>1 DEF Holders, SomeoneMissed
  <2> QED
    BY <1>0, <1>2, <1>4, <1>6, <2>1, <2>2 DEF HolderInv
<1>7. CASE SetFirst(r)
  <2>1. /\ post[r].pc = "missed" /\ post'[r].pc = "reserved" /\ done' = done /\ slips' = slips
        /\ store'.response = "placeholder"
    BY <1>0, <1>7 DEF SetFirst, Go, Reservation, KeyTypeOK
  <2>2. Holders' \subseteq Holders /\ store' # NoKey
    BY <1>1, <2>1 DEF Holders, NoKey
  <2> QED
    BY <1>0, <1>2, <1>3, <2>1, <2>2 DEF HolderInv, NoKey
<1>8. CASE FailOpen(r)
  <2>1. /\ post[r].pc \in {"arrived", "missed"} /\ post'[r].pc = "reserved" /\ done' = done
        /\ slips' = slips + 1 /\ store' = store
    BY <1>0, <1>8 DEF FailOpen, FailsOpenAt, Go, redis, KeyTypeOK
  <2>2. Holders' \subseteq Holders \cup {r}
    BY <1>1, <2>1 DEF Holders
  <2>3. CASE post[r].pc = "missed"
    <3>1. Holders' \subseteq Holders
      BY <1>1, <2>1, <2>3 DEF Holders
    <3> QED
      BY <1>0, <1>2, <1>3, <2>1, <3>1 DEF HolderInv
  <2>4. CASE post[r].pc # "missed"
    <3>1. SomeoneMissed => SomeoneMissed'
      BY <1>1, <2>4 DEF SomeoneMissed
    <3> QED
      BY <1>0, <1>2, <1>4, <2>1, <2>2, <3>1 DEF HolderInv, NoKey
  <2> QED
    BY <2>3, <2>4
<1>9. CASE Succeed(r)
  <2>1. /\ post[r].pc = "reserved" /\ post'[r].pc = "executed" /\ done' = done \cup {r}
        /\ slips' = slips /\ store' = store
    BY <1>0, <1>9 DEF Succeed, Go, redis, KeyTypeOK
  <2>2. Holders' \subseteq Holders /\ (SomeoneMissed => SomeoneMissed')
    BY <1>1, <2>1 DEF Holders, SomeoneMissed
  <2> QED
    BY <1>0, <1>2, <1>3, <2>1, <2>2 DEF HolderInv, NoKey
<1>10. CASE SetLast(r)
  <2>1. /\ post[r].pc = "storing" /\ post'[r].pc = "answered" /\ done' = done
        /\ slips' = slips /\ store'.fingerprint = Body[r]
    BY <1>0, <1>10 DEF SetLast, Go, KeyTypeOK
  <2>2. Holders' \subseteq Holders
    BY <1>1, <2>1 DEF Holders
  <2>3. store' # NoKey
    BY <2>1, IdempotencyAssumption DEF NoKey
  <2> QED
    BY <1>0, <1>2, <1>3, <2>1, <2>2, <2>3 DEF HolderInv, NoKey
<1> QED
  BY <1>5, <1>6, <1>7, <1>8, <1>9, <1>10 DEF Handle

LEMMA StepKey == KeyInv /\ [KeyNext]_keyVars => KeyInv'
<1>1. ASSUME KeyInv, NEW r \in Posts, Arrive(r) \/ Handle(r) PROVE KeyInv'
  BY <1>1, StepResult, StepHolders DEF KeyInv
<1>2. ASSUME KeyInv, UNCHANGED <<store, expiries, post, done, slips>> PROVE KeyInv'
  <2>1. KeyTypeOK' /\ ResultInv'
    BY <1>2 DEF KeyInv, KeyTypeOK, ResultInv, DoneFor
  <2>2. Holders' = Holders /\ SomeoneMissed' = SomeoneMissed
    BY <1>2 DEF Holders, SomeoneMissed
  <2> QED
    BY <1>2, <2>1, <2>2 DEF KeyInv, HolderInv, NoKey
<1>3. ASSUME KeyInv, ExpireKey PROVE KeyInv'
  <2>1. store' = NoKey /\ expiries' = expiries + 1 /\ UNCHANGED <<post, done, slips>>
    BY <1>3 DEF ExpireKey
  <2>2. KeyTypeOK'
    BY <1>3, <2>1 DEF KeyInv, KeyTypeOK, Entry, NoKey, Response
  <2>3. ResultInv'
    BY <1>3, <2>1 DEF KeyInv, ResultInv, DoneFor, NoKey
  <2>4. Holders' = Holders /\ IsFiniteSet(Holders)
    BY <1>3, <2>1 DEF Holders, KeyInv, HolderInv
  <2>5. Cardinality(Holders) \in Nat
    BY <2>4, FS_CardinalityType
  <2>6. HolderInv'
    BY <1>3, <2>1, <2>4, <2>5 DEF KeyInv, KeyTypeOK, HolderInv
  <2> QED
    BY <2>2, <2>3, <2>6 DEF KeyInv
<1> QED
  BY <1>1, <1>2, <1>3 DEF KeyNext, keyVars, GoDown, ComeBack

LEMMA AlwaysKey == KeySpec => []KeyInv
  BY InitKey, StepKey, PTL DEF KeySpec

\* Whatever requests, expiries and outages interleave, IdempotencyMiddleware
\* gives out a result only for a body an operation was committed for.
THEOREM ResultsAreOfCommitted == KeySpec => []ResultMeansDone
<1>1. KeyInv => ResultMeansDone
  BY DEF KeyInv, ResultInv, DoneFor, ResultMeansDone
<1> QED
  BY <1>1, AlwaysKey, PTL

\* The requests with one key commit one operation between them, and one more at
\* most for each expiry of the key and each request that passed it unseen.
THEOREM DuplicatesHaveACause == KeySpec => []OncePerKey
<1>1. ASSUME KeyInv PROVE OncePerKey
  <2>1. IsFiniteSet(Holders) /\ done \subseteq Holders
    BY <1>1 DEF KeyInv, HolderInv, Holders
  <2>2. IsFiniteSet(done) /\ Cardinality(done) <= Cardinality(Holders)
    BY <2>1, FS_Subset
  <2>3. Cardinality(done) \in Nat /\ Cardinality(Holders) \in Nat
    BY <2>1, <2>2, FS_CardinalityType
  <2> QED
    BY <1>1, <2>2, <2>3 DEF KeyInv, KeyTypeOK, HolderInv, OncePerKey
<1> QED
  BY <1>1, AlwaysKey, PTL

-----------------------------------------------------------------------------
(* Outbox.  A run marks what it selected before; it needs to know that rows *)
(* stay, and that the events of two operations are apart.                   *)

WorkerState == [pc : {"idle", "polled"}, batch : SUBSET Events]

\* Rows, transactions and runs have their types.
OutboxTypeOK ==
    /\ row \in [Events -> {"NONE", "PENDING", "PUBLISHED"}]
    /\ tx \in [Operations -> {"open", "committed", "rolledback"}]
    /\ queued \in [Operations -> SUBSET Events]
    /\ worker \in [Workers -> WorkerState]

Recorded == {e \in Events : row[e] # "NONE"}
Published == {e \in Events : row[e] = "PUBLISHED"}

\* A row is an event of a committed operation, which has all of its rows; a
\* run holds rows only; what a session holds is of its operation.
RelayInv ==
    /\ \A o \in Operations : tx[o] = "committed" => EventsOf[o] \subseteq Recorded
    /\ \A e \in Recorded : \E o \in Operations : tx[o] = "committed" /\ e \in EventsOf[o]
    /\ \A w \in Workers : worker[w].batch \subseteq Recorded
    /\ \A o \in Operations : queued[o] \subseteq EventsOf[o]

OutboxInv == OutboxTypeOK /\ RelayInv

LEMMA IdleWorkerTyped == IdleWorker \in WorkerState /\ IdleWorker.batch = {}
  BY DEF IdleWorker, WorkerState

LEMMA InitOutbox == OutboxInit => OutboxInv
  BY IdleWorkerTyped DEF OutboxInit, OutboxInv, OutboxTypeOK, RelayInv, Recorded

\* A business transaction adds the events of its operation when it commits, all
\* of them new.
LEMMA OperationKeeps ==
    ASSUME OutboxInv, NEW o \in Operations,
           (\E e \in Events : Enqueue(o, e)) \/ CommitOperation(o) \/ RollbackOperation(o)
    PROVE  /\ OutboxInv' /\ Published' = Published
           /\ \/ Recorded' = Recorded
              \/ Recorded' = Recorded \cup EventsOf[o] /\ EventsOf[o] \cap Recorded = {}
<1>0. EventsOf[o] \subseteq Events
  BY OutboxAssumption
<1>1. ASSUME NEW e \in Events, Enqueue(o, e)
      PROVE  OutboxInv' /\ Published' = Published /\ Recorded' = Recorded
  <2>1. /\ UNCHANGED <<row, tx, worker>> /\ queued' = [queued EXCEPT ![o] = queued[o] \cup {e}] /\ e \in EventsOf[o]
    BY <1>1 DEF Enqueue
  <2>2. Recorded' = Recorded /\ Published' = Published
    BY <2>1 DEF Recorded, Published
  <2>3. OutboxTypeOK'
    BY <2>1 DEF OutboxInv, OutboxTypeOK
  <2>4. RelayInv'
    BY <2>1, <2>2 DEF OutboxInv, OutboxTypeOK, RelayInv
  <2> QED
    BY <2>2, <2>3, <2>4 DEF OutboxInv
<1>2. ASSUME RollbackOperation(o)
      PROVE  OutboxInv' /\ Published' = Published /\ Recorded' = Recorded
  <2>1. /\ UNCHANGED <<row, queued, worker>> /\ tx' = [tx EXCEPT ![o] = "rolledback"] /\ tx[o] = "open"
    BY <1>2 DEF RollbackOperation
  <2>2. Recorded' = Recorded /\ Published' = Published
    BY <2>1 DEF Recorded, Published
  <2>3. OutboxTypeOK'
    BY <2>1 DEF OutboxInv, OutboxTypeOK
  <2>4. \A p \in Operations : tx'[p] = "committed" <=> tx[p] = "committed"
    BY <2>1 DEF OutboxInv, OutboxTypeOK
  <2>5. RelayInv'
    BY <2>1, <2>2, <2>4 DEF OutboxInv, RelayInv
  <2> QED
    BY <2>2, <2>3, <2>5 DEF OutboxInv
<1>3. ASSUME CommitOperation(o)
      PROVE  /\ OutboxInv' /\ Published' = Published
             /\ Recorded' = Recorded \cup EventsOf[o] /\ EventsOf[o] \cap Recorded = {}
  <2>1. /\ UNCHANGED <<queued, worker>> /\ tx' = [tx EXCEPT ![o] = "committed"] /\ tx[o] = "open"
        /\ row' = [e \in Events |-> IF e \in EventsOf[o] THEN "PENDING" ELSE row[e]]
    BY <1>3 DEF CommitOperation
  <2>2. EventsOf[o] \cap Recorded = {}
    <3> SUFFICES ASSUME NEW e \in EventsOf[o], e \in Recorded PROVE FALSE
      OBVIOUS
    <3>1. PICK p \in Operations : tx[p] = "committed" /\ e \in EventsOf[p]
      BY DEF OutboxInv, RelayInv
    <3>2. p # o
      BY <2>1, <3>1
    <3> QED
      BY <3>1, <3>2, OutboxAssumption
  <2>3. Recorded' = Recorded \cup EventsOf[o]
    BY <1>0, <2>1 DEF Recorded
  <2>4. Published' = Published
    BY <1>0, <2>1, <2>2 DEF Published, Recorded
  <2>5. OutboxTypeOK'
    BY <2>1 DEF OutboxInv, OutboxTypeOK
  <2>6. tx'[o] = "committed" /\ \A p \in Operations : p # o => tx'[p] = tx[p]
    BY <2>1 DEF OutboxInv, OutboxTypeOK
  <2>7. RelayInv'
    BY <2>1, <2>3, <2>6 DEF OutboxInv, RelayInv
  <2> QED
    BY <2>2, <2>3, <2>4, <2>5, <2>7 DEF OutboxInv
<1> QED
  BY <1>1, <1>2, <1>3

\* A run takes a batch of rows, marks it or dies, and leaves the rest.
LEMMA RunKeeps ==
    ASSUME OutboxInv, NEW w \in Workers, RunTask(w) \/ Crash(w)
    PROVE  /\ OutboxInv' /\ Recorded' = Recorded
           /\ \E E \in SUBSET Events : E \subseteq Recorded /\ Published' = Published \cup E
<1>0. worker[w] \in WorkerState /\ worker[w].batch \subseteq Recorded
  BY DEF OutboxInv, OutboxTypeOK, RelayInv
<1>1. ASSUME NEW s \in WorkerState, worker' = [worker EXCEPT ![w] = s], s.batch \subseteq Recorded,
             UNCHANGED <<tx, queued>>, Recorded' = Recorded,
             row' \in [Events -> {"NONE", "PENDING", "PUBLISHED"}]
      PROVE  OutboxInv'
  <2>1. worker'[w] = s /\ \A v \in Workers \ {w} : worker'[v] = worker[v]
    BY <1>1 DEF OutboxInv, OutboxTypeOK
  <2>2. OutboxTypeOK'
    BY <1>1 DEF OutboxInv, OutboxTypeOK
  <2>3. RelayInv'
    BY <1>1, <2>1 DEF OutboxInv, RelayInv
  <2> QED
    BY <2>2, <2>3 DEF OutboxInv
<1>2. CASE Poll(w) \/ Crash(w)
  <2>1. UNCHANGED <<row, tx, queued>>
    BY <1>2 DEF Poll, Crash
  <2>2. Recorded' = Recorded /\ Published' = Published
    BY <2>1 DEF Recorded, Published
  <2>3. PICK s \in WorkerState : worker' = [worker EXCEPT ![w] = s] /\ s.batch \subseteq Recorded
    <3>1. CASE Crash(w)
      BY <3>1, IdleWorkerTyped DEF Crash
    <3>2. CASE Poll(w)
      <4>1. PICK batch \in SUBSET Pending : worker' = [worker EXCEPT ![w] = [pc |-> "polled", batch |-> batch]]
        BY <3>2 DEF Poll
      <4>2. batch \subseteq Events /\ batch \subseteq Recorded
        BY DEF Pending, Recorded
      <4>3. [pc |-> "polled", batch |-> batch] \in WorkerState
        BY <4>2 DEF WorkerState
      <4> QED
        BY <4>1, <4>2, <4>3
    <3> QED
      BY <1>2, <3>1, <3>2
  <2>4. OutboxInv'
    BY <1>1, <2>1, <2>2, <2>3 DEF OutboxInv, OutboxTypeOK
  <2>5. {} \in SUBSET Events /\ {} \subseteq Recorded /\ Published' = Published \cup {}
    BY <2>2
  <2> QED
    BY <2>2, <2>4, <2>5
<1>3. CASE CommitBatch(w)
  <2>1. /\ row' = [e \in Events |-> IF e \in worker[w].batch THEN "PUBLISHED" ELSE row[e]]
        /\ worker' = [worker EXCEPT ![w] = IdleWorker] /\ UNCHANGED <<tx, queued>>
    BY <1>3 DEF CommitBatch
  <2>2. Recorded' = Recorded
    BY <1>0, <2>1 DEF Recorded
  <2>3. Published' = Published \cup worker[w].batch /\ worker[w].batch \in SUBSET Events
    BY <1>0, <2>1 DEF Published, Recorded
  <2>4. row' \in [Events -> {"NONE", "PENDING", "PUBLISHED"}]
    BY <2>1 DEF OutboxInv, OutboxTypeOK
  <2>5. OutboxInv'
    BY <1>1, <2>1, <2>2, <2>4, IdleWorkerTyped
  <2> QED
    BY <1>0, <2>2, <2>3, <2>5
<1> QED
  BY <1>2, <1>3 DEF RunTask

LEMMA StutterOutbox == OutboxInv /\ UNCHANGED outboxVars => OutboxInv' /\ Recorded' = Recorded /\ Published' = Published
  BY DEF outboxVars, OutboxInv, OutboxTypeOK, RelayInv, Recorded, Published

LEMMA NextOutbox == OutboxInv /\ [OutboxNext]_outboxVars => OutboxInv'
<1> SUFFICES ASSUME OutboxInv, [OutboxNext]_outboxVars PROVE OutboxInv'
  OBVIOUS
<1>1. ASSUME NEW o \in Operations,
             (\E e \in Events : Enqueue(o, e)) \/ CommitOperation(o) \/ RollbackOperation(o)
      PROVE  OutboxInv'
  BY <1>1, OperationKeeps
<1>2. ASSUME NEW w \in Workers, RunTask(w) \/ Crash(w) PROVE OutboxInv'
  BY <1>2, RunKeeps
<1> QED
  BY <1>1, <1>2, StutterOutbox DEF OutboxNext

LEMMA AlwaysOutbox == OutboxSpec => []OutboxInv
  BY InitOutbox, NextOutbox, PTL DEF OutboxSpec

\* Rows, transactions and runs of the outbox keep their types.
THEOREM OutboxTypeCorrect == OutboxSpec => []OutboxTypeOK
<1>1. OutboxInv => OutboxTypeOK
  BY DEF OutboxInv
<1> QED
  BY <1>1, AlwaysOutbox, PTL

\* The events of an operation are on record exactly when its transaction
\* committed, and the relay never holds any other (EventsFollowCommits).
THEOREM OutboxFollowsCommits == OutboxSpec => []EventsFollowCommits
<1>1. ASSUME OutboxInv PROVE EventsFollowCommits
  <2>1. \A w \in Workers : \A e \in worker[w].batch :
          \E o \in Operations : tx[o] = "committed" /\ e \in EventsOf[o]
    BY <1>1 DEF OutboxInv, RelayInv
  <2>2. ASSUME NEW o \in Operations, NEW e \in EventsOf[o]
        PROVE  row[e] # "NONE" <=> tx[o] = "committed"
    <3>1. e \in Events
      BY OutboxAssumption
    <3>2. tx[o] = "committed" => e \in Recorded
      BY <1>1 DEF OutboxInv, RelayInv
    <3>3. ASSUME e \in Recorded PROVE tx[o] = "committed"
      <4>1. PICK p \in Operations : tx[p] = "committed" /\ e \in EventsOf[p]
        BY <1>1, <3>3 DEF OutboxInv, RelayInv
      <4>2. p = o
        BY <4>1, OutboxAssumption
      <4> QED
        BY <4>1, <4>2
    <3> QED
      BY <3>1, <3>2, <3>3 DEF Recorded
  <2> QED
    BY <2>1, <2>2 DEF EventsFollowCommits
<1> QED
  BY <1>1, AlwaysOutbox, PTL

\* Every step of the outbox records new events together, marks events on record
\* or changes nothing a reader of the table sees: the safety half of Implements.
THEOREM OutboxImplementsLog == OutboxSpec => Abstract!Safety
<1>1. OutboxInit => Abstract!Init
  BY DEF OutboxInit, Abstract!Init
<1>2. ASSUME OutboxInv, [OutboxNext]_outboxVars
      PROVE  [Abstract!Next]_<<Recorded, Published>>
  <2>1. ASSUME NEW o \in Operations,
               (\E e \in Events : Enqueue(o, e)) \/ CommitOperation(o) \/ RollbackOperation(o)
        PROVE  [Abstract!Next]_<<Recorded, Published>>
    <3>1. EventsOf[o] \in SUBSET Events /\ EventsOf[o] # {}
      BY OutboxAssumption
    <3>2. /\ Published' = Published
          /\ \/ Recorded' = Recorded
             \/ Recorded' = Recorded \cup EventsOf[o] /\ EventsOf[o] \cap Recorded = {}
      BY <1>2, <2>1, OperationKeeps
    <3>3. CASE Recorded' = Recorded
      BY <3>2, <3>3
    <3>4. CASE Recorded' = Recorded \cup EventsOf[o] /\ EventsOf[o] \cap Recorded = {}
      <4>1. Abstract!Record(EventsOf[o])
        BY <3>1, <3>2, <3>4 DEF Abstract!Record, Recorded, Published
      <4> QED
        BY <3>1, <4>1 DEF Abstract!Next
    <3> QED
      BY <3>2, <3>3, <3>4
  <2>2. ASSUME NEW w \in Workers, RunTask(w) \/ Crash(w)
        PROVE  [Abstract!Next]_<<Recorded, Published>>
    <3>1. /\ Recorded' = Recorded
          /\ \E E \in SUBSET Events : E \subseteq Recorded /\ Published' = Published \cup E
      BY <1>2, <2>2, RunKeeps
    <3>2. PICK E \in SUBSET Events : E \subseteq Recorded /\ Published' = Published \cup E
      BY <3>1
    <3>3. Abstract!Publish(E)
      BY <3>1, <3>2 DEF Abstract!Publish, Recorded, Published
    <3> QED
      BY <3>2, <3>3 DEF Abstract!Next
  <2>3. CASE UNCHANGED outboxVars
    BY <1>2, <2>3, StutterOutbox
  <2> QED
    BY <1>2, <2>1, <2>2, <2>3 DEF OutboxNext
<1> QED
  BY <1>1, <1>2, AlwaysOutbox, PTL DEF OutboxSpec, Abstract!Safety, Recorded, Published
=============================================================================
