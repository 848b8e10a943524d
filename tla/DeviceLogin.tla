---------------------------- MODULE DeviceLogin ----------------------------
(***************************************************************************)
(* Who may do what in ucrs-server (api.rs, auth.rs): the challenge and     *)
(* login of a device by its signing key, the accounts and sessions of      *)
(* developers, and the hourly cleanup of both (main.rs).  Nonces live in   *)
(* the memory of the server, tokens and sessions in the database, as       *)
(* hashes of secrets.                                                      *)
(***************************************************************************)
EXTENDS Naturals, FiniteSets

CONSTANTS
    Keys,           \* the signing keys of devices
    Users,          \* the login names of developers (adduser)
    Nonces,         \* random nonces still to be handed out (a bound)
    Secrets,        \* random tokens still to be handed out (a bound)
    Logins,         \* requests past their check, at one time (a bound)
    NONCE_TTL, TOKEN_TTL, SESSION_TTL,
    MaxTime,        \* the clock stops here (a bound)
    Null

ASSUME TtlAssumption ==
    {NONCE_TTL, TOKEN_TTL, SESSION_TTL} \subseteq Nat \ {0} /\ MaxTime \in Nat
ASSUME AccessNullAssumption == Null \notin Keys \cup Users \cup Nonces \cup Secrets
ASSUME HoldersAssumption == Keys \cap Users = {}

VARIABLES
    clock,
    known,          \* the keys in table device, the names in dev_user
    nonces,         \* AppState.nonces: pending login nonces by pubkey
    login,          \* device_login and auth::login, past their check
    ticket,         \* device_token and dev_session: holder and expiry
    cleanup,        \* the cleanup task: its next DELETE, and its now
    given,          \* history: the nonces handed out, with key and time
    minted          \* history: the secrets made, with the nonce they answer

server == <<nonces, login>>
history == <<given, minted>>
loginVars == <<clock, known, server, ticket, cleanup, history>>

NoNonce  == [nonce |-> Null, at |-> 0]
NoLogin  == [by |-> Null, nonce |-> Null]
NoTicket == [holder |-> Null, expires |-> 0]
NoTick   == [pc |-> "idle", now |-> 0]

LoginTypeOK ==
    /\ clock \in 0 .. MaxTime
    /\ known \subseteq Keys \cup Users
    /\ nonces \in [Keys -> [nonce : Nonces \cup {Null}, at : Nat]]
    /\ login \in [Logins -> [by : known \cup {Null}, nonce : Nonces \cup {Null}]]
    /\ ticket \in [Secrets -> [holder : known \cup {Null}, expires : Nat]]
    /\ cleanup \in [pc : {"idle", "sessions", "tokens"}, now : 0 .. clock]
    /\ given \subseteq [key : Keys, nonce : Nonces, at : Nat]
    /\ minted \subseteq Secrets \X (Nonces \cup {Null})

LoginInit ==
    /\ clock = 0
    /\ known = {}
    /\ nonces = [k \in Keys |-> NoNonce]
    /\ login = [l \in Logins |-> NoLogin]
    /\ ticket = [s \in Secrets |-> NoTicket]
    /\ cleanup = NoTick
    /\ given = {} /\ minted = {}

Tick ==
    /\ clock < MaxTime
    /\ clock' = clock + 1
    /\ UNCHANGED <<known, server, ticket, cleanup, history>>

\* A signed upload registers its key (authenticate_device); adduser makes an
\* account.  Both columns are UNIQUE, and no row is ever deleted.
Register(h) ==
    /\ known' = known \cup {h}
    /\ UNCHANGED <<clock, server, ticket, cleanup, history>>

Elapsed(entry) == clock - entry.at

\* Mutation: retain() with the comparison the wrong way round.
RetainedExpired(entry) == IF Elapsed(entry) < NONCE_TTL THEN NoNonce ELSE entry
Retained(entry) == IF Elapsed(entry) < NONCE_TTL THEN entry ELSE NoNonce

\* The map keeps one nonce per key: a new challenge takes the old one's place.
\* Expired ones are dropped on the way.
Challenge(k) ==
    /\ k \in known
    /\ \E n \in Nonces \ {g.nonce : g \in given} :
          /\ nonces' = [[j \in Keys |-> Retained(nonces[j])]
                        EXCEPT ![k] = [nonce |-> n, at |-> clock]]
          /\ given' = given \cup {[key |-> k, nonce |-> n, at |-> clock]}
    /\ UNCHANGED <<clock, known, login, ticket, cleanup, minted>>

\* Mutations: the nonce is only looked up; its age is left to the cleanup.
TakeNonceKept(k) == UNCHANGED nonces
TakeNonce(k) == nonces' = [nonces EXCEPT ![k] = NoNonce]
LiveAlways(k) == nonces[k].nonce # Null
Live(k) == nonces[k].nonce # Null /\ Elapsed(nonces[k]) < NONCE_TTL

\* The nonce leaves the map first; then its age and the signature are checked.
\* The device that asked for it has signed it, and may send that twice.
LoginVerified(l, k) ==
    /\ login[l] = NoLogin
    /\ Live(k)
    /\ TakeNonce(k)
    /\ login' = [login EXCEPT ![l] = [by |-> k, nonce |-> nonces[k].nonce]]
    /\ UNCHANGED <<clock, known, ticket, cleanup, given, minted>>

\* Too late, or signed by another key, or over another nonce: a 401.
LoginRefused(k) ==
    /\ nonces[k].nonce # Null
    /\ TakeNonce(k)
    /\ UNCHANGED <<clock, known, login, ticket, cleanup, given, minted>>

\* auth::login with the right password; nothing changes with a wrong one, or a
\* name that has no account.
PasswordVerified(l, u) ==
    /\ login[l] = NoLogin
    /\ u \in known
    /\ login' = [login EXCEPT ![l].by = u]
    /\ UNCHANGED <<clock, known, nonces, ticket, cleanup, history>>

Unused == {s \in Secrets : \A m \in minted : m[1] # s}
Ttl(holder) == IF holder \in Users THEN SESSION_TTL ELSE TOKEN_TTL

\* Mutation: the INSERT binds the wrong value for device_id.
InsertSwapped(s, by, nonce) ==
    ticket' = [ticket EXCEPT ![s] = [holder |-> nonce, expires |-> clock + Ttl(by)]]
Insert(s, by, nonce) ==
    ticket' = [ticket EXCEPT ![s] = [holder |-> by, expires |-> clock + Ttl(by)]]

InsertTicket(l) ==
    /\ login[l] # NoLogin
    /\ \E s \in Unused :
          /\ Insert(s, login[l].by, login[l].nonce)
          /\ minted' = minted \cup {<<s, login[l].nonce>>}
    /\ login' = [login EXCEPT ![l] = NoLogin]
    /\ UNCHANGED <<clock, known, nonces, cleanup, given>>

\* The request ends between two statements, or the INSERT fails.
LoginAborted(l) ==
    /\ login[l] # NoLogin
    /\ login' = [login EXCEPT ![l] = NoLogin]
    /\ UNCHANGED <<clock, known, nonces, ticket, cleanup, history>>

\* The error of the DELETE is ignored; the browser's cookie is gone anyway.
Logout(s) ==
    /\ ticket[s].holder \in Users
    /\ ticket' \in {[ticket EXCEPT ![s] = NoTicket], ticket}
    /\ UNCHANGED <<clock, known, server, cleanup, history>>

-----------------------------------------------------------------------------
(* The hourly cleanup: one time for both DELETEs, their errors ignored.    *)

CleanupTick ==
    /\ cleanup.pc = "idle"
    /\ cleanup' = [pc |-> "sessions", now |-> clock]
    /\ UNCHANGED <<clock, known, server, ticket, history>>

\* Mutations: the cleanup takes what expires from now on; it never matches.
OutdatedSoon(s) == ticket[s].expires <= cleanup.now + 1
OutdatedNever(s) == ticket[s].expires < 0
Outdated(s) == ticket[s].expires < cleanup.now

DeleteFrom(holders) ==
    ticket' = [s \in Secrets |->
                 IF ticket[s].holder \in holders /\ Outdated(s)
                 THEN NoTicket ELSE ticket[s]]

DeleteSessions ==
    /\ cleanup.pc = "sessions"
    /\ DeleteFrom(Users)
    /\ cleanup' = [cleanup EXCEPT !.pc = "tokens"]
    /\ UNCHANGED <<clock, known, server, history>>

DeleteTokens ==
    /\ cleanup.pc = "tokens"
    /\ DeleteFrom(Keys)
    /\ cleanup' = NoTick
    /\ UNCHANGED <<clock, known, server, history>>

DeleteFails ==
    /\ cleanup.pc # "idle"
    /\ cleanup' = IF cleanup.pc = "sessions"
                  THEN [cleanup EXCEPT !.pc = "tokens"] ELSE NoTick
    /\ UNCHANGED <<clock, known, server, ticket, history>>

Cleanup == CleanupTick \/ DeleteSessions \/ DeleteTokens \/ DeleteFails

\* The server stops and starts again: its memory and its requests are gone.
Restart ==
    /\ nonces' = [k \in Keys |-> NoNonce]
    /\ login' = [l \in Logins |-> NoLogin]
    /\ cleanup' = NoTick
    /\ UNCHANGED <<clock, known, ticket, history>>

\* device_from_bearer and the Dev extractor.
Valid(s) == ticket[s].holder # Null /\ ticket[s].expires > clock

LoginStep ==
    \/ Tick
    \/ \E h \in Keys \cup Users : Register(h)
    \/ \E k \in Keys :
          Challenge(k) \/ LoginRefused(k) \/ \E l \in Logins : LoginVerified(l, k)
    \/ \E l \in Logins :
          \/ InsertTicket(l) \/ LoginAborted(l)
          \/ \E u \in Users : PasswordVerified(l, u)
    \/ \E s \in Secrets : Logout(s)
    \/ Cleanup

-----------------------------------------------------------------------------
\* A nonce answers for one token at most, also with logins at the same time
\* (protocol.md 4, "single-use"); and it was its key's, not yet expired.
TokenPerNonce ==
    /\ \A m, n \in minted : m[2] = n[2] /\ m[2] # Null => m = n
    /\ \A l, h \in Logins :
          login[l].nonce = login[h].nonce /\ login[l].nonce # Null => l = h
    /\ \A l \in Logins, m \in minted :
          login[l].nonce # Null => m[2] # login[l].nonce

\* No login gets through with a nonce older than its 60 seconds.
LateLoginStep ==
    \A l \in Logins :
        login[l] = NoLogin /\ login'[l] # NoLogin /\ login'[l].by \in Keys =>
            \E g \in given : /\ g.key = login'[l].by
                             /\ g.nonce = login'[l].nonce
                             /\ clock < g.at + NONCE_TTL
LateLoginRefused == [][LateLoginStep]_loginVars

\* What other devices do, and what the map drops on the way, leaves a login that
\* is under way alone: a live nonce goes when its own key is used for a login or
\* another challenge, or with the memory of the server.
LiveNonceStep ==
    \A k \in Keys :
        Live(k) /\ nonces'[k] # nonces[k] =>
            \/ Challenge(k) \/ LoginRefused(k) \/ Restart
            \/ \E l \in Logins : LoginVerified(l, k)
LiveNonceKept == [][LiveNonceStep]_loginVars

\* The cleanup never takes a token or a session that still opens something: the
\* DELETE and the two SELECTs compare the same column in opposite ways.
LiveTicketStep ==
    \A s \in Secrets : Valid(s) /\ ticket'[s] = NoTicket => Logout(s)
LiveTicketKept == [][LiveTicketStep]_loginVars

\* What has expired is taken in the end, also if a DELETE fails now and then, and
\* the server restarts between the two.
ExpiredTicketGoes ==
    \A s \in Secrets :
        ticket[s] # NoTicket /\ ticket[s].expires < clock ~> ticket[s] = NoTicket
=============================================================================
