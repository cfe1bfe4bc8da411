------------------------------ MODULE DriverAuth ------------------------------
(***************************************************************************)
(* One driver's sessions: the mobile app (ApiClient, AuthSession) and the  *)
(* auth service (driver_auth_router over the refresh token store).         *)
(*                                                                         *)
(* Screens fire API calls in parallel.  Each call that meets a 401 runs    *)
(* _refresh on its own with the refresh token it finds at that moment;     *)
(* the store retires a token when it is redeemed, and revokes the whole    *)
(* family when a retired one is presented.  Writes to the phone's token    *)
(* storage are carried out in the order they were issued.  A token is      *)
(* <<family, generation>>; the access token issued with it has its name.   *)
(***************************************************************************)
EXTENDS Naturals, Sequences, FiniteSets

CONSTANTS Calls,       \* API calls, logins and restores in flight
          Families,    \* refresh token families, one per login
          MaxGen,      \* bound: access tokens up to this generation expire
          MayRestart   \* the app may be killed and started again

ASSUME AuthAssumption == MaxGen \in Nat \ {0} /\ MayRestart \in BOOLEAN

VARIABLES
    account,   \* the driver has an account in the account store
    current,   \* _current_by_family: generation, 0 before the login
    known,     \* families the store remembers
    revoked,   \* _revoked_families
    valid,     \* access tokens that have not expired
    reused,    \* families of which a retired token has been presented
    redeemed,  \* <<token, successor>> for every successful rotation
    access,    \* ApiClient.accessToken
    refresh,   \* AuthSession._refreshToken
    driver,    \* AuthSession._driver is set
    stored,    \* TokenStorage
    writes,    \* storage writes under way: [token, by]
    call,      \* what each call is doing
    overlapped \* a call was started, or the app killed, with another call or write under way

vars == <<account, current, known, revoked, valid, reused, redeemed, access, refresh, driver,
          stored, writes, call, overlapped>>
storeVars  == <<account, current, known, revoked, valid, reused, redeemed>>
memoryVars == <<access, refresh, driver>>

NoToken == <<>>
Idle == [pc |-> "idle", token |-> NoToken, last |-> FALSE]
NoCall == "ui"

Quiet == writes = <<>> /\ \A c \in Calls : call[c] = Idle

Init ==
    /\ account = FALSE
    /\ current = [f \in Families |-> 0]
    /\ known = {} /\ revoked = {} /\ valid = {} /\ reused = {}
    /\ redeemed = {}
    /\ access = NoToken /\ refresh = NoToken /\ driver = FALSE
    /\ stored = NoToken /\ writes = <<>>
    /\ call = [c \in Calls |-> Idle]
    /\ overlapped = FALSE

-----------------------------------------------------------------------------
(* The auth service *)

Screens == {"signup", "login"}

\* create refuses an e-mail address that has an account, login one that has none.
Admitted(screen) == account = (screen = "login")

\* create_access_token and refresh_store.issue: a new family, and an access token.
Issue(c, f) ==
    /\ call[c].pc \in Screens /\ Admitted(call[c].pc)
    /\ current[f] = 0
    /\ account' = TRUE
    /\ current' = [current EXCEPT ![f] = 1]
    /\ known' = known \cup {f}
    /\ valid' = valid \cup {<<f, 1>>}
    /\ call' = [call EXCEPT ![c].pc = "session", ![c].token = <<f, 1>>]
    /\ UNCHANGED <<revoked, reused, redeemed, memoryVars, stored, writes, overlapped>>

\* 409 to a sign-up; 401 to a login, also when the password is wrong.
IssueRefused(c) ==
    /\ call[c].pc \in Screens
    /\ call[c].pc = "login" \/ ~Admitted(call[c].pc)
    /\ call' = [call EXCEPT ![c] = Idle]
    /\ UNCHANGED <<storeVars, memoryVars, stored, writes, overlapped>>

IsCurrent(t) == t[1] \in known /\ current[t[1]] = t[2]

\* rotate, accepted, and the new access token of /auth/refresh.
Rotate(c) ==
    LET f == call[c].token[1]
        g == current[f] + 1 IN
    /\ call[c].pc = "refresh"
    /\ f \notin revoked /\ IsCurrent(call[c].token)
    /\ current' = [current EXCEPT ![f] = g]
    /\ redeemed' = redeemed \cup {<<call[c].token, <<f, g>>>>}
    /\ valid' = valid \cup {<<f, g>>}
    /\ call' = [call EXCEPT ![c].pc = "session", ![c].token = <<f, g>>]
    /\ UNCHANGED <<account, known, revoked, reused, memoryVars, stored, writes, overlapped>>

Revoke(f) == revoked \cup {f}

\* rotate raises RefreshTokenError: unknown token, revoked family, or a token
\* that was retired, which revokes the family.
RotateRefused(c) ==
    LET f == call[c].token[1] IN
    /\ call[c].pc = "refresh"
    /\ f \in revoked \/ ~IsCurrent(call[c].token)
    /\ revoked' = IF f \in known THEN Revoke(f) ELSE revoked
    /\ reused' = IF f \in known /\ ~IsCurrent(call[c].token) THEN reused \cup {f} ELSE reused
    /\ call' = [call EXCEPT ![c].pc = "refused"]
    /\ UNCHANGED <<account, current, known, valid, redeemed, memoryVars, stored, writes, overlapped>>

\* decode_access_token fails once exp has passed.
ExpireAccess(t) ==
    /\ t \in valid /\ t[2] <= MaxGen
    /\ valid' = valid \ {t}
    /\ UNCHANGED <<account, current, known, revoked, reused, redeemed, memoryVars, stored, writes,
                   call, overlapped>>

\* The service restarts: its in-memory stores start empty.
ServiceRestarts ==
    /\ account
    /\ account' = FALSE /\ known' = {} /\ revoked' = {} /\ reused' = {}
    /\ UNCHANGED <<current, valid, redeemed, memoryVars, stored, writes, call, overlapped>>

-----------------------------------------------------------------------------
(* ApiClient._send *)

StartCall(c) ==
    /\ call[c] = Idle /\ driver
    /\ call' = [call EXCEPT ![c] = [pc |-> "sent", token |-> access, last |-> FALSE]]
    /\ overlapped' = (overlapped \/ ~Quiet)
    /\ UNCHANGED <<storeVars, memoryVars, stored, writes>>

\* The call is answered with anything but a 401.
CallReturns(c) ==
    /\ call[c].pc = "sent"
    /\ call[c].token \in valid
    /\ call' = [call EXCEPT ![c] = Idle]
    /\ UNCHANGED <<storeVars, memoryVars, stored, writes, overlapped>>

\* A 401 to the retried call is thrown.
RetryUnauthorized(c) ==
    /\ call[c].pc = "sent" /\ call[c].last
    /\ call[c].token \notin valid
    /\ call' = [call EXCEPT ![c] = Idle]
    /\ UNCHANGED <<storeVars, memoryVars, stored, writes, overlapped>>

Write(t, by) == writes' = Append(writes, [token |-> t, by |-> by])

\* Variant: a failed refresh leaves the session as it is.
ClearNothing == UNCHANGED memoryVars

\* _clearSessionAfterRefreshFailure, in memory.
Clear == access' = NoToken /\ refresh' = NoToken /\ driver' = FALSE

\* A 401: _refresh takes the refresh token of this moment.
Unauthorized(c) ==
    /\ call[c].pc = "sent" /\ ~call[c].last
    /\ call[c].token \notin valid
    /\ \/ /\ refresh # NoToken
          /\ call' = [call EXCEPT ![c].pc = "refresh", ![c].token = refresh]
          /\ UNCHANGED <<memoryVars, writes>>
       \/ /\ refresh = NoToken
          /\ Clear /\ Write(NoToken, c)
          /\ call' = [call EXCEPT ![c].pc = "clearing"]
    /\ UNCHANGED <<storeVars, stored, overlapped>>

-----------------------------------------------------------------------------
(* AuthSession *)

\* The network fails: the request, or the answer of a request that was
\* carried out, is lost.  Only a refresh that fails touches the session.
AnswerLost(c) ==
    /\ call[c].pc \in {"sent", "refresh", "session"} \cup Screens
    /\ call' = IF call[c].pc = "refresh" \/ (call[c].pc = "session" /\ call[c].token[2] > 1)
               THEN [call EXCEPT ![c].pc = "refused"] ELSE [call EXCEPT ![c] = Idle]
    /\ UNCHANGED <<storeVars, memoryVars, stored, writes, overlapped>>

\* _applySession, whatever happened to the session since the request was sent.
ApplySession(c) ==
    /\ call[c].pc = "session"
    /\ access' = call[c].token /\ refresh' = call[c].token /\ driver' = TRUE
    /\ Write(call[c].token, c)
    /\ call' = [call EXCEPT ![c].pc = "saving"]
    /\ UNCHANGED <<storeVars, stored, overlapped>>

\* Any exception of the refresh request.
RefreshFails(c) ==
    /\ call[c].pc = "refused"
    /\ Clear /\ Write(NoToken, c)
    /\ call' = [call EXCEPT ![c].pc = "clearing"]
    /\ UNCHANGED <<storeVars, stored, overlapped>>

\* A storage write is done.  The call that awaited it goes on: it is retried
\* once with the access token of this moment, or ends.
StorageWrite ==
    /\ writes # <<>>
    /\ stored' = Head(writes).token
    /\ writes' = Tail(writes)
    /\ LET c == Head(writes).by IN
       call' = IF c = NoCall THEN call
               ELSE IF call[c].pc = "saving" /\ ~call[c].last /\ access # NoToken
               THEN [call EXCEPT ![c] = [pc |-> "sent", token |-> access, last |-> TRUE]]
               ELSE [call EXCEPT ![c] = Idle]
    /\ UNCHANGED <<storeVars, memoryVars, overlapped>>

\* The sign-up or the login screen; last: nothing is retried afterwards.
StartLogin(c, screen) ==
    /\ call[c] = Idle /\ ~driver
    /\ \A d \in Calls : call[d].pc \notin Screens
    /\ \E f \in Families : current[f] = 0
    /\ call' = [call EXCEPT ![c] = [pc |-> screen, token |-> NoToken, last |-> TRUE]]
    /\ overlapped' = (overlapped \/ ~Quiet)
    /\ UNCHANGED <<storeVars, memoryVars, stored, writes>>

Logout ==
    /\ driver
    /\ Clear /\ Write(NoToken, NoCall)
    /\ UNCHANGED <<storeVars, stored, call, overlapped>>

\* The app is killed and started again: restoreSession refreshes with the
\* stored token.  Writes under way are lost.
AppRestarts(c) ==
    /\ MayRestart
    /\ stored # NoToken => stored[2] <= MaxGen
    /\ access' = NoToken /\ driver' = FALSE /\ refresh' = stored
    /\ writes' = <<>>
    /\ call' = [d \in Calls |-> IF d = c /\ stored # NoToken
                                THEN [pc |-> "refresh", token |-> stored, last |-> TRUE]
                                ELSE Idle]
    /\ overlapped' = (overlapped \/ ~Quiet)
    /\ UNCHANGED <<storeVars, stored>>

Next ==
    \/ \E c \in Calls :
        \/ \E f \in Families : Issue(c, f)
        \/ IssueRefused(c) \/ \E screen \in Screens : StartLogin(c, screen)
        \/ Rotate(c) \/ RotateRefused(c)
        \/ StartCall(c) \/ CallReturns(c) \/ Unauthorized(c) \/ RetryUnauthorized(c)
        \/ AnswerLost(c) \/ ApplySession(c) \/ RefreshFails(c)
        \/ AppRestarts(c)
    \/ \E t \in valid : ExpireAccess(t)
    \/ ServiceRestarts \/ StorageWrite \/ Logout

Spec == Init /\ [][Next]_vars

-----------------------------------------------------------------------------
Tokens == Families \X (Nat \ {0})

\* Every variable has the shape the code gives it, on the phone and in the store.
TypeOK ==
    /\ account \in BOOLEAN
    /\ current \in [Families -> Nat] /\ redeemed \subseteq Tokens \X Tokens
    /\ known \subseteq Families /\ revoked \subseteq Families /\ reused \subseteq Families
    /\ valid \subseteq Tokens
    /\ {access, refresh, stored} \subseteq Tokens \cup {NoToken}
    /\ {driver, overlapped} \subseteq BOOLEAN
    /\ writes \in Seq([token : Tokens \cup {NoToken}, by : Calls \cup {NoCall}])
    /\ call \in [Calls -> [pc : {"idle", "signup", "login", "sent", "refresh", "session", "refused",
                                 "saving", "clearing"},
                           token : Tokens \cup {NoToken}, last : BOOLEAN]]

\* Refresh tokens are single-use: however many calls present one at the same
\* time, before or after a reply was lost, it has at most one successor.
SingleUse == \A r, q \in redeemed : r[1] = q[1] => r = q

\* An app that follows the protocol is never taken for a thief: it presents
\* no token that it has been given a successor for.
HonestClientNotRevoked == reused = {}

\* The token in memory is the one in storage, and the store will accept it next.
HoldsCurrentToken ==
    /\ stored = refresh
    /\ refresh # NoToken /\ refresh[1] \in known => IsCurrent(refresh) /\ refresh[1] \notin revoked

\* So it is as long as the app does one thing at a time and is not killed in
\* the middle of it, whichever answers get lost (auth_session.dart:105): between
\* calls it holds the token the store will accept, so that the next 401 or the
\* next start is silent.  A token is redeemed once whatever the app does.
CarefulClientNotRevoked ==
    /\ SingleUse
    /\ ~overlapped => HonestClientNotRevoked /\ (Quiet => HoldsCurrentToken)
=============================================================================
