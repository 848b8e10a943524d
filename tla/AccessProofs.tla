---------------------------- MODULE AccessProofs ----------------------------
(***************************************************************************)
(* Nonces, tokens, sessions and published links for any number of devices, *)
(* developers, requests and restarts, and any lifetimes.                   *)
(***************************************************************************)
EXTENDS Visibility, TLAPS

USE TtlAssumption, AccessNullAssumption, HoldersAssumption

-----------------------------------------------------------------------------
(* Types.                                                                  *)

\* Only a key of the table can have a nonce pending (device_challenge looks it up
\* first), so device_login finds a row for the key it has verified.
PendingKnown == \A k \in Keys : nonces[k].nonce # Null => k \in known

\* Lifetimes are times, whoever holds what is minted.
LEMMA TtlType == \A h : Ttl(h) \in Nat
BY DEF Ttl

\* An expired nonce leaves an entry of the same type.
LEMMA RetainedType ==
    ASSUME LoginTypeOK, NEW k \in Keys
    PROVE  Retained(nonces[k]) \in [nonce : Nonces \cup {Null}, at : Nat]
BY DEF LoginTypeOK, Retained, NoNonce

\* The DELETE empties rows and changes no other.
LEMMA DeleteType ==
    ASSUME LoginTypeOK, NEW H, DeleteFrom(H)
    PROVE  ticket' \in [Secrets -> [holder : known \cup {Null}, expires : Nat]]
BY DEF LoginTypeOK, DeleteFrom, NoTicket

LEMMA LoginTyped ==
    ASSUME LoginTypeOK, PendingKnown, LoginStep \/ Restart
    PROVE  LoginTypeOK'
<1>1. CASE Tick
    <2>1. cleanup' \in [pc : {"idle", "sessions", "tokens"}, now : 0 .. clock']
        BY <1>1 DEF Tick, LoginTypeOK
    <2> QED
        BY <1>1, <2>1 DEF Tick, LoginTypeOK, server, history
<1>2. ASSUME NEW h \in Keys \cup Users, Register(h) PROVE LoginTypeOK'
    <2>1. known' \subseteq Keys \cup Users /\ known \subseteq known'
        BY <1>2 DEF Register, LoginTypeOK
    <2>2. login' \in [Logins -> [by : known' \cup {Null}, nonce : Nonces \cup {Null}]]
        BY <1>2, <2>1 DEF Register, LoginTypeOK, server
    <2>3. ticket' \in [Secrets -> [holder : known' \cup {Null}, expires : Nat]]
        BY <1>2, <2>1 DEF Register, LoginTypeOK
    <2> QED
        BY <1>2, <2>1, <2>2, <2>3 DEF Register, LoginTypeOK, server, history
<1>3. ASSUME NEW k \in Keys, Challenge(k) PROVE LoginTypeOK'
    <2>1. PICK n \in Nonces \ {g.nonce : g \in given} :
              /\ nonces' = [[j \in Keys |-> Retained(nonces[j])]
                            EXCEPT ![k] = [nonce |-> n, at |-> clock]]
              /\ given' = given \cup {[key |-> k, nonce |-> n, at |-> clock]}
        BY <1>3 DEF Challenge
    <2>2. clock \in Nat
        BY DEF LoginTypeOK
    <2>3. nonces' \in [Keys -> [nonce : Nonces \cup {Null}, at : Nat]]
        BY <2>1, <2>2, RetainedType
    <2>4. given' \subseteq [key : Keys, nonce : Nonces, at : Nat]
        BY <2>1, <2>2 DEF LoginTypeOK
    <2> QED
        BY <1>3, <2>3, <2>4 DEF Challenge, LoginTypeOK
<1>4. ASSUME NEW k \in Keys, TakeNonce(k)
      PROVE  nonces' \in [Keys -> [nonce : Nonces \cup {Null}, at : Nat]]
    BY <1>4 DEF TakeNonce, NoNonce, LoginTypeOK
<1>5. ASSUME NEW k \in Keys, LoginRefused(k) PROVE LoginTypeOK'
    BY <1>4, <1>5 DEF LoginRefused, LoginTypeOK
<1>6. ASSUME NEW k \in Keys, NEW l \in Logins, LoginVerified(l, k)
      PROVE  LoginTypeOK'
    <2>1. k \in known /\ nonces[k].nonce \in Nonces
        BY <1>6 DEF LoginVerified, Live, PendingKnown, LoginTypeOK
    <2>2. login' \in [Logins -> [by : known \cup {Null}, nonce : Nonces \cup {Null}]]
        BY <1>6, <2>1 DEF LoginVerified, LoginTypeOK
    <2> QED
        BY <1>4, <1>6, <2>2 DEF LoginVerified, LoginTypeOK
<1>7. ASSUME NEW l \in Logins, NEW u \in Users, PasswordVerified(l, u)
      PROVE  LoginTypeOK'
    BY <1>7 DEF PasswordVerified, LoginTypeOK, history
<1>8. ASSUME NEW l \in Logins, InsertTicket(l) PROVE LoginTypeOK'
    <2>1. PICK s \in Secrets :
              /\ Insert(s, login[l].by, login[l].nonce)
              /\ minted' = minted \cup {<<s, login[l].nonce>>}
        BY <1>8 DEF InsertTicket, Unused
    <2>2. /\ login[l].by \in known \cup {Null}
          /\ login[l].nonce \in Nonces \cup {Null}
        BY DEF LoginTypeOK
    <2>3. clock + Ttl(login[l].by) \in Nat
        BY TtlType DEF LoginTypeOK
    <2>4. ticket' \in [Secrets -> [holder : known \cup {Null}, expires : Nat]]
        BY <2>1, <2>2, <2>3 DEF Insert, LoginTypeOK
    <2>5. minted' \subseteq Secrets \X (Nonces \cup {Null})
        BY <2>1, <2>2 DEF LoginTypeOK
    <2>6. login' \in [Logins -> [by : known \cup {Null}, nonce : Nonces \cup {Null}]]
        BY <1>8 DEF InsertTicket, NoLogin, LoginTypeOK
    <2> QED
        BY <1>8, <2>4, <2>5, <2>6 DEF InsertTicket, LoginTypeOK
<1>9. ASSUME NEW l \in Logins, LoginAborted(l) PROVE LoginTypeOK'
    BY <1>9 DEF LoginAborted, NoLogin, LoginTypeOK, history
<1>10. ASSUME NEW s \in Secrets, Logout(s) PROVE LoginTypeOK'
    <2>1. ticket' \in [Secrets -> [holder : known \cup {Null}, expires : Nat]]
        BY <1>10 DEF Logout, NoTicket, LoginTypeOK
    <2> QED
        BY <1>10, <2>1 DEF Logout, LoginTypeOK, server, history
<1>11. CASE CleanupTick
    BY <1>11 DEF CleanupTick, LoginTypeOK, server, history
<1>12. CASE DeleteSessions
    BY <1>12, DeleteType DEF DeleteSessions, LoginTypeOK, server, history
<1>13. CASE DeleteTokens
    <2>1. cleanup' \in [pc : {"idle", "sessions", "tokens"}, now : 0 .. clock']
        BY <1>13 DEF DeleteTokens, NoTick, LoginTypeOK
    <2> QED
        BY <1>13, <2>1, DeleteType DEF DeleteTokens, LoginTypeOK, server, history
<1>14. CASE DeleteFails
    BY <1>14 DEF DeleteFails, NoTick, LoginTypeOK, server, history
<1>15. CASE Restart
    BY <1>15 DEF Restart, NoNonce, NoLogin, NoTick, LoginTypeOK, history
<1> QED
    BY <1>1, <1>2, <1>3, <1>5, <1>6, <1>7, <1>8, <1>9, <1>10, <1>11, <1>12,
       <1>13, <1>14, <1>15 DEF LoginStep, Cleanup

LEMMA PendingStaysKnown ==
    ASSUME LoginTypeOK, PendingKnown, LoginStep \/ Restart
    PROVE  PendingKnown'
<1>1. ASSUME NEW k \in Keys, Challenge(k) PROVE PendingKnown'
    <2>1. \A j \in Keys \ {k} : nonces'[j] \in {nonces[j], NoNonce}
        BY <1>1 DEF Challenge, Retained
    <2> QED
        BY <1>1, <2>1 DEF Challenge, PendingKnown, NoNonce
<1>2. ASSUME NEW k \in Keys, TakeNonce(k), known' = known PROVE PendingKnown'
    BY <1>2 DEF TakeNonce, PendingKnown, NoNonce, LoginTypeOK
<1>3. CASE Restart
    BY <1>3 DEF Restart, PendingKnown, NoNonce
<1>4. ASSUME known \subseteq known', UNCHANGED nonces PROVE PendingKnown'
    BY <1>4 DEF PendingKnown
<1>5. ASSUME NEW h, Register(h) PROVE PendingKnown'
    BY <1>4, <1>5 DEF Register, server
<1>6. ASSUME NEW k \in Keys, NEW l, LoginRefused(k) \/ LoginVerified(l, k)
      PROVE  PendingKnown'
    BY <1>2, <1>6 DEF LoginRefused, LoginVerified
<1>7. ASSUME NEW l, \/ InsertTicket(l) \/ LoginAborted(l)
                    \/ \E u \in Users : PasswordVerified(l, u)
      PROVE  PendingKnown'
    BY <1>4, <1>7 DEF InsertTicket, LoginAborted, PasswordVerified
<1>8. ASSUME Tick \/ Cleanup \/ \E s \in Secrets : Logout(s)
      PROVE  PendingKnown'
    BY <1>4, <1>8 DEF Tick, Cleanup, Logout, server,
        CleanupTick, DeleteSessions, DeleteTokens, DeleteFails
<1> QED
    BY <1>1, <1>3, <1>5, <1>6, <1>7, <1>8 DEF LoginStep

-----------------------------------------------------------------------------
(* Nonces.                                                                 *)

GivenOnce == \A g, h \in given : g.nonce = h.nonce => g = h

\* What is pending was handed out to that key, at that time.
PendingGiven ==
    \A k \in Keys :
        nonces[k].nonce # Null =>
            [key |-> k, nonce |-> nonces[k].nonce, at |-> nonces[k].at] \in given

\* What a login or a secret answers was handed out, and is not pending any more.
AnsweredGiven ==
    /\ \A l \in Logins :
          login[l].nonce # Null =>
              /\ login[l].by # Null
              /\ \E g \in given : g.nonce = login[l].nonce
              /\ \A k \in Keys : nonces[k].nonce # login[l].nonce
    /\ \A m \in minted :
          m[2] # Null =>
              /\ \E g \in given : g.nonce = m[2]
              /\ \A k \in Keys : nonces[k].nonce # m[2]

NonceInv ==
    /\ LoginTypeOK /\ PendingKnown
    /\ GivenOnce /\ PendingGiven /\ AnsweredGiven
    /\ TokenPerNonce

\* Dropping entries of the map, and dropping logins, disturbs nothing.
LEMMA NonceFrame ==
    ASSUME NonceInv, LoginTypeOK', PendingKnown', UNCHANGED <<given, minted>>,
           \A k \in Keys : nonces'[k] \in {nonces[k], NoNonce},
           \A l \in Logins : login'[l].nonce \in {login[l].nonce, Null},
           \A l \in Logins :
              login'[l].nonce # Null => login'[l].by = login[l].by
    PROVE  NonceInv'
<1>1. PendingGiven'
    BY DEF NonceInv, PendingGiven, NoNonce
<1>2. AnsweredGiven'
    BY DEF NonceInv, AnsweredGiven, NoNonce
<1>3. TokenPerNonce'
    BY DEF NonceInv, TokenPerNonce
<1> QED
    BY <1>1, <1>2, <1>3 DEF NonceInv, GivenOnce

LEMMA NonceStep ==
    ASSUME NonceInv, LoginStep \/ Restart
    PROVE  NonceInv'
<1>t. LoginTypeOK /\ LoginTypeOK' /\ PendingKnown'
    BY LoginTyped, PendingStaysKnown DEF NonceInv
<1>1. ASSUME UNCHANGED <<nonces, login, given, minted>> PROVE NonceInv'
    BY <1>t, <1>1, NonceFrame
<1>2. ASSUME NEW k \in Keys, Challenge(k) PROVE NonceInv'
    <2>1. PICK n \in Nonces \ {g.nonce : g \in given} :
              /\ nonces' = [[j \in Keys |-> Retained(nonces[j])]
                            EXCEPT ![k] = [nonce |-> n, at |-> clock]]
              /\ given' = given \cup {[key |-> k, nonce |-> n, at |-> clock]}
        BY <1>2 DEF Challenge
    <2>2. \A g \in given : g.nonce # n
        BY <2>1
    <2>3. /\ nonces'[k] = [nonce |-> n, at |-> clock]
          /\ \A j \in Keys \ {k} : nonces'[j] \in {nonces[j], NoNonce}
        BY <2>1 DEF Retained
    <2>4. UNCHANGED <<login, minted>> /\ given \subseteq given'
        BY <1>2, <2>1 DEF Challenge
    <2>5. GivenOnce'
        BY <2>1, <2>2 DEF NonceInv, GivenOnce
    <2>6. PendingGiven'
        BY <2>1, <2>3, <2>4 DEF NonceInv, PendingGiven, NoNonce
    <2>7. ASSUME NEW x, x # Null, x # n,
                 \A j \in Keys : nonces[j].nonce # x
          PROVE  \A j \in Keys : nonces'[j].nonce # x
        BY <2>3, <2>7 DEF NoNonce
    <2>8. AnsweredGiven'
        <3>1. ASSUME NEW l \in Logins, login[l].nonce # Null
              PROVE  /\ login[l].by # Null
                     /\ \E g \in given' : g.nonce = login[l].nonce
                     /\ \A j \in Keys : nonces'[j].nonce # login[l].nonce
            BY <2>2, <2>4, <2>7, <3>1 DEF NonceInv, AnsweredGiven
        <3>2. ASSUME NEW m \in minted, m[2] # Null
              PROVE  /\ \E g \in given' : g.nonce = m[2]
                     /\ \A j \in Keys : nonces'[j].nonce # m[2]
            BY <2>2, <2>4, <2>7, <3>2 DEF NonceInv, AnsweredGiven
        <3> QED
            BY <2>4, <3>1, <3>2 DEF AnsweredGiven
    <2>9. TokenPerNonce'
        BY <2>4 DEF NonceInv, TokenPerNonce
    <2> QED
        BY <1>t, <2>5, <2>6, <2>8, <2>9 DEF NonceInv
<1>3. ASSUME NEW k \in Keys, TakeNonce(k)
      PROVE  /\ nonces'[k] = NoNonce
             /\ \A j \in Keys \ {k} : nonces'[j] = nonces[j]
    BY <1>t, <1>3 DEF TakeNonce, LoginTypeOK
<1>4. ASSUME NEW k \in Keys, LoginRefused(k) PROVE NonceInv'
    BY <1>t, <1>3, <1>4, NonceFrame DEF LoginRefused
<1>5. ASSUME NEW k \in Keys, NEW l \in Logins, LoginVerified(l, k)
      PROVE  NonceInv'
    <2> DEFINE n == nonces[k].nonce
    <2>1. /\ n # Null
          /\ login'[l] = [by |-> k, nonce |-> n]
          /\ \A h \in Logins \ {l} : login'[h] = login[h]
          /\ UNCHANGED <<given, minted>>
        BY <1>t, <1>5 DEF LoginVerified, Live, LoginTypeOK
    <2>2. /\ nonces'[k] = NoNonce
          /\ \A j \in Keys \ {k} : nonces'[j] = nonces[j]
        BY <1>3, <1>5 DEF LoginVerified
    <2>3. [key |-> k, nonce |-> n, at |-> nonces[k].at] \in given
        BY <2>1 DEF NonceInv, PendingGiven
    <2>4. \A j \in Keys \ {k} : nonces[j].nonce # n
        BY <2>1, <2>3 DEF NonceInv, PendingGiven, GivenOnce
    <2>5. GivenOnce' /\ PendingGiven'
        BY <2>1, <2>2 DEF NonceInv, GivenOnce, PendingGiven, NoNonce
    <2>6. \A j \in Keys : nonces'[j].nonce # n
        BY <2>1, <2>2, <2>4 DEF NoNonce
    <2>7. \E g \in given : g.nonce = n
        BY <2>3
    <2>8. AnsweredGiven'
        BY <2>1, <2>2, <2>6, <2>7 DEF NonceInv, AnsweredGiven, NoNonce
    <2>9. /\ \A h \in Logins : login[h].nonce # n
          /\ \A m \in minted : m[2] # n
        BY <2>1 DEF NonceInv, AnsweredGiven
    <2>10. TokenPerNonce'
        BY <2>1, <2>9 DEF NonceInv, TokenPerNonce
    <2> QED
        BY <1>t, <2>5, <2>8, <2>10 DEF NonceInv
<1>6. ASSUME NEW l \in Logins, NEW u \in Users, PasswordVerified(l, u)
      PROVE  NonceInv'
    <2>1. \A h \in Logins : login'[h].nonce = login[h].nonce
        BY <1>t, <1>6 DEF PasswordVerified, LoginTypeOK
    <2>2. \A h \in Logins : login[h].nonce # Null => login'[h].by = login[h].by
        BY <1>t, <1>6 DEF PasswordVerified, LoginTypeOK, NoLogin
    <2> QED
        BY <1>t, <1>6, <2>1, <2>2, NonceFrame DEF PasswordVerified, history
<1>7. ASSUME NEW l \in Logins, login' = [login EXCEPT ![l] = NoLogin]
      PROVE  /\ login'[l].nonce = Null
             /\ \A h \in Logins \ {l} : login'[h] = login[h]
    BY <1>t, <1>7 DEF LoginTypeOK, NoLogin
<1>8. ASSUME NEW l \in Logins, InsertTicket(l) PROVE NonceInv'
    <2> DEFINE n == login[l].nonce
    <2>1. PICK s \in Unused : minted' = minted \cup {<<s, n>>}
        BY <1>8 DEF InsertTicket
    <2>2. /\ login'[l].nonce = Null
          /\ \A h \in Logins \ {l} : login'[h] = login[h]
          /\ UNCHANGED <<nonces, given>>
        BY <1>7, <1>8 DEF InsertTicket
    <2>3. GivenOnce' /\ PendingGiven'
        BY <2>2 DEF NonceInv, GivenOnce, PendingGiven
    <2>4. AnsweredGiven'
        BY <2>1, <2>2 DEF NonceInv, AnsweredGiven
    <2>5. n # Null =>
              /\ \A m \in minted : m[2] # n
              /\ \A h \in Logins \ {l} : login[h].nonce # n
        BY DEF NonceInv, TokenPerNonce
    <2>6. TokenPerNonce'
        BY <2>1, <2>2, <2>5 DEF NonceInv, TokenPerNonce
    <2> QED
        BY <1>t, <2>3, <2>4, <2>6 DEF NonceInv
<1>9. ASSUME NEW l \in Logins, LoginAborted(l) PROVE NonceInv'
    BY <1>t, <1>7, <1>9, NonceFrame DEF LoginAborted, history
<1>10. CASE Restart
    BY <1>t, <1>10, NonceFrame DEF Restart, history, NoLogin
<1>11. \/ UNCHANGED <<nonces, login, given, minted>> \/ Restart
       \/ \E k \in Keys : Challenge(k) \/ LoginRefused(k)
                          \/ \E l \in Logins : LoginVerified(l, k)
       \/ \E l \in Logins : InsertTicket(l) \/ LoginAborted(l)
                            \/ \E u \in Users : PasswordVerified(l, u)
    BY DEF LoginStep, Cleanup, server, history, Tick, Register, Logout,
           CleanupTick, DeleteSessions, DeleteTokens, DeleteFails
<1> QED
    BY <1>1, <1>2, <1>4, <1>5, <1>6, <1>8, <1>9, <1>10, <1>11

-----------------------------------------------------------------------------
(* What a step may not do.                                                 *)

LEMMA LateLogin ==
    ASSUME NonceInv, LoginStep \/ Restart
    PROVE  LateLoginStep
<1> SUFFICES ASSUME NEW l \in Logins,
                    login[l] = NoLogin, login'[l] # NoLogin,
                    login'[l].by \in Keys
             PROVE  \E g \in given : /\ g.key = login'[l].by
                                     /\ g.nonce = login'[l].nonce
                                     /\ clock < g.at + NONCE_TTL
    BY DEF LateLoginStep
<1>t. LoginTypeOK
    BY DEF NonceInv
<1>1. ~ UNCHANGED login /\ login'[l] \notin {NoLogin, login[l]}
    OBVIOUS
<1>2. ASSUME NEW h \in Logins, login' = [login EXCEPT ![h] = NoLogin] PROVE FALSE
    BY <1>t, <1>1, <1>2 DEF LoginTypeOK
<1>3. ASSUME NEW h \in Logins, NEW u \in Users, PasswordVerified(h, u) PROVE FALSE
    BY <1>t, <1>1, <1>3 DEF PasswordVerified, LoginTypeOK
<1>4. ~Restart
    BY <1>1 DEF Restart
<1>5. PICK k \in Keys, h \in Logins : LoginVerified(h, k)
    BY <1>1, <1>2, <1>3, <1>4
    DEF LoginStep, Cleanup, server, history, Tick, Register, Challenge,
        LoginRefused, InsertTicket, LoginAborted, Logout, CleanupTick,
        DeleteSessions, DeleteTokens, DeleteFails
<1>6. login'[l] = [by |-> k, nonce |-> nonces[k].nonce]
    BY <1>t, <1>1, <1>5 DEF LoginVerified, LoginTypeOK
<1> DEFINE g == [key |-> k, nonce |-> nonces[k].nonce, at |-> nonces[k].at]
<1>7. nonces[k].nonce # Null /\ clock - nonces[k].at < NONCE_TTL
    BY <1>5 DEF LoginVerified, Live, Elapsed
<1>8. g \in given
    BY <1>7 DEF NonceInv, PendingGiven
<1>9. clock \in Nat /\ nonces[k].at \in Nat
    BY <1>t DEF LoginTypeOK
<1>10. clock < g.at + NONCE_TTL
    BY <1>7, <1>9
<1> QED
    BY <1>6, <1>8, <1>10

LEMMA LiveNonce ==
    ASSUME LoginTypeOK, LoginStep \/ Restart
    PROVE  LiveNonceStep
<1> SUFFICES ASSUME NEW k \in Keys, Live(k), nonces'[k] # nonces[k]
             PROVE  \/ Challenge(k) \/ LoginRefused(k) \/ Restart
                    \/ \E l \in Logins : LoginVerified(l, k)
    BY DEF LiveNonceStep
<1>1. ASSUME NEW j \in Keys \ {k}, Challenge(j) PROVE FALSE
    BY <1>1 DEF Challenge, Retained, Live
<1>2. ASSUME NEW j \in Keys \ {k}, TakeNonce(j) PROVE FALSE
    BY <1>2 DEF TakeNonce, LoginTypeOK
<1>3. ~ UNCHANGED nonces
    OBVIOUS
<1> QED
    BY <1>1, <1>2, <1>3
    DEF LoginStep, Cleanup, server, history, Tick, Register, LoginRefused,
        LoginVerified, PasswordVerified, InsertTicket, LoginAborted, Logout,
        CleanupTick, DeleteSessions, DeleteTokens, DeleteFails

\* A login past its check knows its holder, so no INSERT makes an empty row.
LoginHasHolder == \A l \in Logins : login[l] # NoLogin => login[l].by # Null

LEMMA HolderKept ==
    ASSUME LoginTypeOK, LoginHasHolder, LoginStep \/ Restart
    PROVE  LoginHasHolder'
<1>1. ASSUME UNCHANGED login PROVE LoginHasHolder'
    BY <1>1 DEF LoginHasHolder
<1>2. ASSUME NEW l \in Logins, login' = [login EXCEPT ![l] = NoLogin]
      PROVE  LoginHasHolder'
    BY <1>2 DEF LoginHasHolder, LoginTypeOK
<1>3. ASSUME NEW l \in Logins, NEW h \in Keys \cup Users, NEW n,
             login' = [login EXCEPT ![l] = [by |-> h, nonce |-> n]]
      PROVE  LoginHasHolder'
    BY <1>3 DEF LoginHasHolder, LoginTypeOK
<1>4. ASSUME NEW l \in Logins, NEW u \in Users, PasswordVerified(l, u)
      PROVE  LoginHasHolder'
    BY <1>4 DEF PasswordVerified, LoginHasHolder, LoginTypeOK
<1>5. ASSUME NEW l \in Logins, NEW k \in Keys, LoginVerified(l, k)
      PROVE  LoginHasHolder'
    BY <1>3, <1>5 DEF LoginVerified
<1>6. CASE Restart
    BY <1>6 DEF Restart, LoginHasHolder
<1> QED
    BY <1>1, <1>2, <1>4, <1>5, <1>6
    DEF LoginStep, Cleanup, server, history, Tick, Register, Challenge,
        LoginRefused, InsertTicket, LoginAborted, Logout, CleanupTick,
        DeleteSessions, DeleteTokens, DeleteFails

LEMMA LiveTicket ==
    ASSUME LoginTypeOK, LoginHasHolder, LoginStep \/ Restart
    PROVE  LiveTicketStep
<1> SUFFICES ASSUME NEW s \in Secrets, Valid(s), ticket'[s] = NoTicket
             PROVE  Logout(s)
    BY DEF LiveTicketStep
<1>1. ticket'[s] # ticket[s]
    BY DEF Valid, NoTicket
<1>2. ASSUME NEW l \in Logins, InsertTicket(l) PROVE FALSE
    <2>1. PICK t \in Secrets : Insert(t, login[l].by, login[l].nonce)
        BY <1>2 DEF InsertTicket, Unused
    <2>2. login[l].by # Null
        BY <1>2 DEF InsertTicket, LoginHasHolder
    <2> QED
        BY <1>1, <2>1, <2>2 DEF Insert, NoTicket, LoginTypeOK
<1>3. ASSUME NEW t \in Secrets, Logout(t) PROVE t = s
    BY <1>1, <1>3 DEF Logout, LoginTypeOK
<1>4. ASSUME NEW H, DeleteFrom(H) PROVE FALSE
    <2>1. ticket[s].expires < cleanup.now
        BY <1>1, <1>4 DEF DeleteFrom, Outdated
    <2>2. cleanup.now <= clock /\ clock < ticket[s].expires
        BY DEF Valid, LoginTypeOK
    <2>3. cleanup.now \in Nat /\ clock \in Nat /\ ticket[s].expires \in Nat
        BY DEF LoginTypeOK
    <2> QED
        BY <2>1, <2>2, <2>3
<1>5. ~ UNCHANGED ticket
    BY <1>1
<1>6. ~ DeleteSessions /\ ~ DeleteTokens
    BY <1>4 DEF DeleteSessions, DeleteTokens
<1> QED
    BY <1>2, <1>3, <1>5, <1>6
    DEF LoginStep, Cleanup, server, history, Tick, Register, Challenge,
        LoginRefused, LoginVerified, PasswordVerified, LoginAborted,
        CleanupTick, DeleteFails, Restart

-----------------------------------------------------------------------------
(* Published links.                                                        *)

USE OwnerAssumption, SlugsAssumption

RowsOK  == row \in [Reports -> [public : BOOLEAN, slug : Slugs \cup {Null}]]
DrawnOK == drawn \subseteq Slugs /\ links \subseteq Reports \X Slugs
ChangeRecord ==
    [pc : {"idle", "select", "update", "answer"},
     report : Reports \cup {Null}, public : BOOLEAN,
     slug : Slugs \cup {Null}, by : Keys \cup Users \cup {Null}]

\* Request c is about one report, of a holder that may change it, and carries a
\* slug from its SELECT on if it publishes.
ChangeShape(c) ==
    /\ change[c].pc = "idle" => change[c] = NoChange
    /\ change[c].pc # "idle" =>
          /\ change[c].report \in Reports
          /\ change[c].by # Null
          /\ MayChange(change[c].by, change[c].report)
    /\ change[c].pc = "select" => change[c].slug = Null
    /\ change[c].pc \in {"update", "answer"} =>
          (change[c].public <=> change[c].slug # Null)

ChangesOK ==
    /\ change \in [Changes -> ChangeRecord]
    /\ \A c \in Changes : ChangeShape(c)

\* Slug s is report i's: in its row, on its way there, or in somebody's hands.
Holds(i, s) ==
    \/ row[i].slug = s
    \/ \E c \in Changes : change[c].report = i /\ change[c].slug = s
    \/ <<i, s>> \in links

\* What holds a slug got it from new_secret, and a slug is of one report only.
SlugsApart ==
    /\ \A i \in Reports, s \in Slugs : Holds(i, s) => s \in drawn
    /\ \A i, j \in Reports, s \in Slugs : Holds(i, s) /\ Holds(j, s) => i = j

RowsAgree == \A i \in Reports : row[i].public <=> row[i].slug # Null

LinkInv == RowsOK /\ DrawnOK /\ ChangesOK /\ RowsAgree /\ SlugsApart

\* Requests that come, go on and end without a draw take no slug elsewhere.
LEMMA SlugsFrame ==
    ASSUME SlugsApart, UNCHANGED drawn,
           \A i \in Reports, s \in Slugs : Holds(i, s)' => Holds(i, s)
    PROVE  SlugsApart'
<1> DEFINE H(i, s) == Holds(i, s)
<1>1. \A i \in Reports, s \in Slugs : Holds(i, s)' => s \in drawn'
    BY DEF SlugsApart
<1>2. \A i, j \in Reports, s \in Slugs : Holds(i, s)' /\ Holds(j, s)' => i = j
    BY DEF SlugsApart
<1> QED
    BY <1>1, <1>2 DEF SlugsApart

\* One request of set_visibility changes: its record, and those of no others.
LEMMA OneChange ==
    ASSUME ChangesOK, NEW c \in Changes, NEW r \in ChangeRecord,
           change' = [change EXCEPT ![c] = r]
    PROVE  /\ change' \in [Changes -> ChangeRecord]
           /\ change'[c] = r
           /\ \A d \in Changes \ {c} :
                 change'[d] = change[d] /\ ChangeShape(d)'
BY DEF ChangesOK, ChangeShape, NoChange

LEMMA NoChangeType == NoChange \in ChangeRecord
BY DEF NoChange, ChangeRecord

LEMMA BeginLinks ==
    ASSUME LinkInv, LoginTypeOK, NEW c \in Changes, Begin(c)
    PROVE  LinkInv'
<1>1. PICK s \in Secrets, i \in Reports, public \in BOOLEAN :
          /\ Valid(s)
          /\ MayChange(ticket[s].holder, i)
          /\ change' = [change EXCEPT ![c] =
                 [pc |-> "select", report |-> i, public |-> public,
                  slug |-> Null, by |-> ticket[s].holder]]
    BY DEF Begin
<1> DEFINE h == ticket[s].holder
           r == [pc |-> "select", report |-> i, public |-> public,
                 slug |-> Null, by |-> h]
<1>2. h \in Keys \cup Users
    BY <1>1 DEF Valid, LoginTypeOK
<1>3. h # Null /\ MayChange(h, i)
    BY <1>1, <1>2
<1>4. r \in ChangeRecord
    BY <1>2 DEF ChangeRecord
<1>5. change' = [change EXCEPT ![c] = r]
    BY <1>1
<1>6. /\ r.pc = "select" /\ r.report = i /\ r.by = h
      /\ r.slug = Null
    OBVIOUS
<1> HIDE DEF r, h
<1>7. /\ change' \in [Changes -> ChangeRecord]
      /\ change'[c] = r
      /\ \A d \in Changes \ {c} : change'[d] = change[d] /\ ChangeShape(d)'
    BY <1>4, <1>5, OneChange DEF LinkInv
<1>8. change'[c] = r
    BY <1>7
<1>9. ChangeShape(c)'
    BY <1>3, <1>6, <1>8 DEF ChangeShape, MayChange
<1>10. UNCHANGED <<row, drawn, links>>
    BY DEF Begin
<1>11. \A d \in Changes : change'[d] = change[d] \/ change'[d].slug = Null
    BY <1>6, <1>7
<1>12. \A k \in Reports, t \in Slugs : Holds(k, t)' => Holds(k, t)
    BY <1>10, <1>11 DEF Holds
<1>13. SlugsApart'
    BY <1>10, <1>12, SlugsFrame DEF LinkInv
<1> QED
    BY <1>7, <1>9, <1>10, <1>13
    DEF LinkInv, RowsOK, DrawnOK, ChangesOK, RowsAgree

\* A slug that is drawn has been nobody's; one that is kept was the report's.
LEMMA SelectLinks ==
    ASSUME LinkInv, NEW c \in Changes, Select(c)
    PROVE  LinkInv'
<1> DEFINE i == change[c].report
<1>1. /\ i \in Reports /\ MayChange(change[c].by, i) /\ change[c].by # Null
      /\ change[c].pc = "select"
      /\ change[c] \in ChangeRecord
    BY DEF LinkInv, ChangesOK, ChangeShape, Select
<1>2. PICK s \in IF ~change[c].public THEN {Null}
                 ELSE IF KeptSlug(i) # Null THEN {KeptSlug(i)}
                 ELSE Slugs \ drawn :
          /\ change' = [change EXCEPT ![c].pc = "update", ![c].slug = s]
          /\ drawn' = drawn \cup ({s} \ {Null})
    BY DEF Select
<1> DEFINE r == [change[c] EXCEPT !.pc = "update", !.slug = s]
<1>3. /\ s \in Slugs \cup {Null}
      /\ change[c].public <=> s # Null
      /\ s = Null \/ s = row[i].slug \/ s \notin drawn
    BY <1>1, <1>2 DEF KeptSlug, LinkInv, RowsOK
<1>4. /\ r \in ChangeRecord
      /\ r.report = i /\ r.slug = s /\ r.pc = "update"
      /\ r.public = change[c].public /\ r.by = change[c].by
    BY <1>1, <1>3 DEF ChangeRecord
<1>5. change' = [change EXCEPT ![c] = r]
    BY <1>2 DEF LinkInv, ChangesOK
<1> HIDE DEF r
<1>6. /\ change' \in [Changes -> ChangeRecord]
      /\ change'[c] = r
      /\ \A d \in Changes \ {c} : change'[d] = change[d] /\ ChangeShape(d)'
    BY <1>4, <1>5, OneChange DEF LinkInv
<1>c. change'[c] = r
    BY <1>6
<1>7. ChangeShape(c)'
    BY <1>1, <1>3, <1>4, <1>c DEF ChangeShape, MayChange
<1>8. UNCHANGED <<row, links>>
    BY DEF Select
<1>d. \A d \in Changes :
          \/ change'[d] = change[d]
          \/ change'[d].report = i /\ change'[d].slug = s
    BY <1>4, <1>6
<1>9. \A k \in Reports, t \in Slugs :
          Holds(k, t)' => Holds(k, t) \/ (k = i /\ t = s)
    BY <1>8, <1>d DEF Holds
<1>10. \A k \in Reports : Holds(k, s) /\ s \in Slugs => k = i
    BY <1>1, <1>3 DEF LinkInv, SlugsApart, Holds
<1>11. \A k \in Reports, t \in Slugs : Holds(k, t)' => t \in drawn'
    BY <1>2, <1>9 DEF LinkInv, SlugsApart
<1>12. \A k, m \in Reports, t \in Slugs : Holds(k, t)' /\ Holds(m, t)' => k = m
    BY <1>9, <1>10 DEF LinkInv, SlugsApart
<1>13. DrawnOK'
    BY <1>2, <1>3, <1>8 DEF LinkInv, DrawnOK
<1> QED
    BY <1>6, <1>7, <1>8, <1>11, <1>12, <1>13
    DEF LinkInv, RowsOK, ChangesOK, RowsAgree, SlugsApart

LEMMA UpdateLinks ==
    ASSUME LinkInv, NEW c \in Changes, Update(c)
    PROVE  LinkInv'
<1> DEFINE i == change[c].report
           r == [change[c] EXCEPT !.pc = "answer"]
<1>1. /\ i \in Reports /\ MayChange(change[c].by, i) /\ change[c].by # Null
      /\ change[c].public <=> change[c].slug # Null
      /\ change[c] \in ChangeRecord
    BY DEF LinkInv, ChangesOK, ChangeShape, Update
<1>2. change' = [change EXCEPT ![c] = r] /\ UNCHANGED <<drawn, links>>
    BY DEF Update, LinkInv, ChangesOK
<1>3. /\ r \in ChangeRecord
      /\ r.report = i /\ r.slug = change[c].slug /\ r.pc = "answer"
      /\ r.public = change[c].public /\ r.by = change[c].by
    BY <1>1 DEF ChangeRecord
<1> HIDE DEF r
<1>4. /\ change' \in [Changes -> ChangeRecord]
      /\ change'[c] = r
      /\ \A d \in Changes \ {c} : change'[d] = change[d] /\ ChangeShape(d)'
    BY <1>2, <1>3, OneChange DEF LinkInv
<1>5. change'[c] = r
    BY <1>4
<1>6. ChangeShape(c)'
    BY <1>1, <1>3, <1>5 DEF ChangeShape, MayChange
<1>7. /\ row'[i] = [public |-> change[c].public, slug |-> change[c].slug]
      /\ \A k \in Reports \ {i} : row'[k] = row[k]
      /\ RowsOK'
    BY <1>1 DEF Update, NewRow, LinkInv, RowsOK, ChangeRecord
<1>8. RowsAgree'
    BY <1>1, <1>7 DEF LinkInv, RowsAgree
<1>9. \A d \in Changes :
          change'[d].report = change[d].report /\ change'[d].slug = change[d].slug
    BY <1>3, <1>4
<1>10. \A k \in Reports, t \in Slugs : Holds(k, t)' => Holds(k, t)
    BY <1>2, <1>7, <1>9 DEF Holds
<1>11. SlugsApart'
    BY <1>2, <1>10, SlugsFrame DEF LinkInv
<1> QED
    BY <1>2, <1>4, <1>6, <1>7, <1>8, <1>11 DEF LinkInv, DrawnOK, ChangesOK

\* Requests end, one by one or all with the server, and answer what they hold.
LEMMA RequestsEnd ==
    ASSUME LinkInv, UNCHANGED <<row, drawn>>,
           DOMAIN change' = Changes, change' = [c \in Changes |-> change'[c]],
           \A c \in Changes : change'[c] \in {change[c], NoChange},
           links \subseteq links',
           \A l \in links' : l \in links \/ \E c \in Changes :
               /\ change[c].pc = "answer" /\ change[c].slug # Null
               /\ l = <<change[c].report, change[c].slug>>
    PROVE  LinkInv'
<1>1. change' \in [Changes -> ChangeRecord]
    BY NoChangeType DEF LinkInv, ChangesOK
<1>2. ASSUME NEW c \in Changes PROVE ChangeShape(c)'
    <2>1. CASE change'[c] = change[c]
        BY <2>1 DEF LinkInv, ChangesOK, ChangeShape
    <2>2. CASE change'[c] = NoChange
        BY <2>2 DEF ChangeShape, NoChange
    <2> QED
        BY <2>1, <2>2
<1>3. ASSUME NEW l \in links', l \notin links
      PROVE  \E c \in Changes :
                 /\ change[c].report \in Reports /\ change[c].slug \in Slugs
                 /\ l = <<change[c].report, change[c].slug>>
    <2>1. PICK c \in Changes :
              /\ change[c].pc = "answer" /\ change[c].slug # Null
              /\ l = <<change[c].report, change[c].slug>>
        BY <1>3
    <2>2. change[c] \in ChangeRecord /\ change[c].report \in Reports
        BY <2>1 DEF LinkInv, ChangesOK, ChangeShape
    <2> QED
        BY <2>1, <2>2 DEF ChangeRecord
<1>4. DrawnOK'
    BY <1>3 DEF LinkInv, DrawnOK
<1>5. \A c \in Changes : change'[c] = change[c] \/ change'[c].slug = Null
    BY DEF NoChange
<1>6. \A k \in Reports, t \in Slugs : Holds(k, t)' => Holds(k, t)
    BY <1>3, <1>5 DEF Holds
<1>7. SlugsApart'
    BY <1>6, SlugsFrame DEF LinkInv
<1> QED
    BY <1>1, <1>2, <1>4, <1>7 DEF LinkInv, RowsOK, RowsAgree, ChangesOK

LEMMA LinkStep ==
    ASSUME LinkInv, LoginTypeOK, Next
    PROVE  LinkInv'
<1>1. CASE UNCHANGED visVars
    BY <1>1 DEF visVars, LinkInv, RowsOK, DrawnOK, ChangesOK, ChangeShape,
                RowsAgree, SlugsApart, Holds
<1>2. ASSUME NEW c \in Changes, change' = [change EXCEPT ![c] = NoChange]
      PROVE  /\ DOMAIN change' = Changes /\ change' = [d \in Changes |-> change'[d]]
             /\ \A d \in Changes : change'[d] \in {change[d], NoChange}
    BY <1>2 DEF LinkInv, ChangesOK
<1>3. ASSUME NEW c \in Changes, Answer(c) PROVE LinkInv'
    <2>1. change[c].public => change[c].slug # Null
        BY <1>3 DEF Answer, LinkInv, ChangesOK, ChangeShape
    <2>2. /\ links \subseteq links'
          /\ \A l \in links' : l \in links \/ \E d \in Changes :
                 /\ change[d].pc = "answer" /\ change[d].slug # Null
                 /\ l = <<change[d].report, change[d].slug>>
        BY <1>3, <2>1 DEF Answer
    <2> QED
        BY <1>2, <1>3, <2>2, RequestsEnd DEF Answer
<1>4. ASSUME NEW c \in Changes, ChangeAborted(c) PROVE LinkInv'
    BY <1>2, <1>4, RequestsEnd DEF ChangeAborted
<1>5. CASE ServerRestart
    BY <1>5, RequestsEnd DEF ServerRestart
<1> QED
    BY <1>1, <1>3, <1>4, <1>5, BeginLinks, SelectLinks, UpdateLinks
    DEF Next, Visibility

LEMMA OwnersOnly ==
    ASSUME LinkInv, Next
    PROVE  ChangeStep
<1> SUFFICES ASSUME NEW i \in Reports, row'[i] # row[i]
             PROVE  \E c \in Changes :
                        /\ change[c].report = i
                        /\ change[c].by \in Users \cup ({OwnerOf[i]} \ {Null})
    BY DEF ChangeStep
<1>1. PICK c \in Changes : Update(c)
    BY DEF Next, Visibility, visVars, ServerRestart, Begin, Select, Answer,
           ChangeAborted
<1>2. change[c].report = i
    BY <1>1 DEF Update, LinkInv, RowsOK
<1>3. change[c].by # Null /\ MayChange(change[c].by, i)
    BY <1>1, <1>2 DEF Update, LinkInv, ChangesOK, ChangeShape
<1> QED
    BY <1>2, <1>3 DEF MayChange

\* A link that was answered is in its report's hands, so no other row serves it.
LEMMA HomeLinks == LinkInv => LinksLeadHome
<1> SUFFICES ASSUME LinkInv, NEW l \in links, NEW i \in Reports, Serves(l[2], i)
             PROVE  i = l[1]
    BY DEF LinksLeadHome, LinkInv, RowsAgree
<1>1. PICK k \in Reports, s \in Slugs : l = <<k, s>>
    BY DEF LinkInv, DrawnOK
<1>2. Holds(k, s) /\ Holds(i, s)
    BY <1>1 DEF Holds, Serves
<1>3. k = i
    BY <1>2 DEF LinkInv, SlugsApart
<1> QED
    BY <1>1, <1>3

-----------------------------------------------------------------------------
(* The theorems.                                                           *)

AccessInv == NonceInv /\ LoginHasHolder /\ LinkInv

LEMMA AccessInitially == Init => AccessInv
<1> SUFFICES ASSUME Init PROVE AccessInv
    OBVIOUS
<1>1. LoginTypeOK
    BY DEF Init, LoginInit, LoginTypeOK, NoNonce, NoLogin, NoTicket, NoTick
<1>2. NonceInv
    BY <1>1 DEF Init, LoginInit, NoNonce, NoLogin, NonceInv, PendingKnown,
                GivenOnce, PendingGiven, AnsweredGiven, TokenPerNonce
<1>3. LoginHasHolder
    BY DEF Init, LoginInit, LoginHasHolder
<1>4. RowsOK /\ DrawnOK /\ RowsAgree
    BY DEF Init, RowsOK, DrawnOK, RowsAgree
<1>5. ChangesOK
    BY NoChangeType DEF Init, ChangesOK, ChangeShape, NoChange
<1>6. SlugsApart
    BY DEF Init, SlugsApart, Holds, NoChange
<1> QED
    BY <1>2, <1>3, <1>4, <1>5, <1>6 DEF AccessInv, LinkInv

\* A step of the login, the server's end, or neither.
LEMMA NextParts ==
    ASSUME Next
    PROVE  LoginStep \/ Restart \/ UNCHANGED loginVars
BY DEF Next, ServerRestart, Visibility, Begin, Select, Update, Answer, ChangeAborted

LEMMA AccessStep ==
    ASSUME AccessInv, Next
    PROVE  /\ AccessInv'
           /\ [LateLoginStep]_loginVars
           /\ [LiveNonceStep]_loginVars
           /\ [LiveTicketStep]_loginVars
           /\ ChangeStep
<1>1. LinkInv' /\ ChangeStep
    BY LinkStep, OwnersOnly DEF AccessInv, NonceInv
<1>2. CASE LoginStep \/ Restart
    <2>1. LoginTypeOK
        BY DEF AccessInv, NonceInv
    <2>2. NonceInv' /\ LoginHasHolder'
        BY <1>2, <2>1, NonceStep, HolderKept DEF AccessInv
    <2>3. LateLoginStep /\ LiveNonceStep /\ LiveTicketStep
        BY <1>2, <2>1, LateLogin, LiveNonce, LiveTicket DEF AccessInv
    <2> QED
        BY <1>1, <2>2, <2>3 DEF AccessInv
<1>3. CASE UNCHANGED loginVars
    <2>1. UNCHANGED <<clock, known, nonces, login, ticket, cleanup, given, minted>>
        BY <1>3 DEF loginVars, server, history
    <2>2. NonceInv'
        BY <2>1 DEF AccessInv, NonceInv, LoginTypeOK, PendingKnown, GivenOnce,
                    PendingGiven, AnsweredGiven, TokenPerNonce
    <2>3. LoginHasHolder'
        BY <2>1 DEF AccessInv, LoginHasHolder
    <2> QED
        BY <1>1, <1>3, <2>2, <2>3 DEF AccessInv
<1> QED
    BY <1>2, <1>3, NextParts

LEMMA AccessStutter ==
    ASSUME AccessInv, UNCHANGED accessVars
    PROVE  AccessInv' /\ UNCHANGED loginVars
<1>1. /\ UNCHANGED <<clock, known, nonces, login, ticket, cleanup, given, minted>>
      /\ UNCHANGED <<row, change, drawn, links>>
    BY DEF accessVars, loginVars, visVars, server, history
<1>2. NonceInv'
    BY <1>1 DEF AccessInv, NonceInv, LoginTypeOK, PendingKnown, GivenOnce,
                PendingGiven, AnsweredGiven, TokenPerNonce
<1>3. LoginHasHolder'
    BY <1>1 DEF AccessInv, LoginHasHolder
<1>4. LinkInv'
    BY <1>1 DEF AccessInv, LinkInv, RowsOK, DrawnOK, ChangesOK, ChangeShape,
                RowsAgree, SlugsApart, Holds
<1>5. UNCHANGED loginVars
    BY DEF accessVars
<1> QED
    BY <1>2, <1>3, <1>4, <1>5 DEF AccessInv

LEMMA AccessCorrect == Spec => []AccessInv
<1>1. AccessInv /\ [Next]_accessVars => AccessInv'
    BY AccessStep, AccessStutter
<1> QED
    BY <1>1, AccessInitially, PTL DEF Spec

\* Tables, nonces, requests and links keep their types, whatever logs in, ends,
\* expires or restarts (api.rs, auth.rs, web.rs, main.rs).
THEOREM AccessTypeCorrect == Spec => []VisibilityTypeOK
<1>1. AccessInv => VisibilityTypeOK
    BY DEF AccessInv, NonceInv, LinkInv, RowsOK, DrawnOK, ChangesOK, ChangeRecord,
           VisibilityTypeOK
<1> QED
    BY <1>1, AccessCorrect, PTL

\* device_login takes the nonce out of the map before it checks anything: no two
\* logins, and no two tokens, ever answer the same challenge.
THEOREM NonceSingleUse == Spec => []TokenPerNonce
<1>1. AccessInv => TokenPerNonce
    BY DEF AccessInv, NonceInv
<1> QED
    BY <1>1, AccessCorrect, PTL

\* device_login lets nobody in with a nonce past NONCE_TTL, whether the cleanup in
\* device_challenge has come by or not.
THEOREM NoLateLogin == Spec => LateLoginRefused
<1>1. AccessInv /\ [Next]_accessVars => [LateLoginStep]_loginVars
    BY AccessStep, AccessStutter
<1> QED
    BY <1>1, AccessCorrect, PTL DEF Spec, LateLoginRefused

\* retain() in device_challenge, and logins of other keys, leave a nonce alone that
\* its device may still answer.
THEOREM PendingLoginsKept == Spec => LiveNonceKept
<1>1. AccessInv /\ [Next]_accessVars => [LiveNonceStep]_loginVars
    BY AccessStep, AccessStutter
<1> QED
    BY <1>1, AccessCorrect, PTL DEF Spec, LiveNonceKept

\* The cleanup of main.rs deletes no token or session that auth.rs still accepts.
THEOREM LiveTicketsKept == Spec => LiveTicketKept
<1>1. AccessInv /\ [Next]_accessVars => [LiveTicketStep]_loginVars
    BY AccessStep, AccessStutter
<1> QED
    BY <1>1, AccessCorrect, PTL DEF Spec, LiveTicketKept

\* set_visibility's SELECT and UPDATE, interleaved in any way, leave no report
\* public without a slug, and lead no link to another report.
THEOREM LinksCorrect == Spec => []LinksLeadHome
<1>1. AccessInv => LinksLeadHome
    BY HomeLinks DEF AccessInv
<1> QED
    BY <1>1, AccessCorrect, PTL

\* owned_report and the Dev extractor stand before every set_visibility.
THEOREM OwnersChange == Spec => ChangedByOwner
<1>1. AccessInv /\ [Next]_accessVars => [ChangeStep]_accessVars
    BY AccessStep
<1> QED
    BY <1>1, AccessCorrect, PTL DEF Spec, ChangedByOwner
=============================================================================
