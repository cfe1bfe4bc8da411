---------------------------- MODULE RoamingTokens ----------------------------
(* The whitelist of foreign tokens, cached in Redis with an expiry that every  *)
(* successful Authorize pushes back (TokenWhitelistService,                    *)
(* OcpiRoamingTokenChecker, RedisTokenWhitelistCache).  A check is two round   *)
(* trips, get and expire, and the partner's word may come between them.  One   *)
(* token: the cache keeps them apart by key.                                   *)
EXTENDS Naturals

CONSTANTS
    TokenTtl,       \* default_ttl_seconds, in ticks
    TokenChecks,    \* Authorize requests that may be under way at once
    MaxTokenClock   \* bound: ticks

ASSUME RoamingTokensAssumption == TokenTtl \in Nat \ {0} /\ MaxTokenClock \in Nat

VARIABLES
    tclock,       \* time
    cached,       \* ocpi:token:{uid}: "whitelisted", "blacklisted" or "none"
    expiresAt,    \* when the key expires
    lookup,       \* the checks: "idle", or the status read and being acted on, or the verdict
    blocked,      \* the partner's last word was a blacklisting
    sinceBlock    \* checks that began after it

rtVars == <<tclock, cached, expiresAt, lookup, blocked, sinceBlock>>

Verdicts == {"accepted", "invalid", "blocked"}

RtTypeOK ==
    /\ tclock \in 0..MaxTokenClock
    /\ cached \in {"whitelisted", "blacklisted", "none"}
    /\ expiresAt \in 0..(MaxTokenClock + TokenTtl)
    /\ lookup \in [TokenChecks -> {"idle", "refreshing"} \cup Verdicts]
    /\ blocked \in BOOLEAN /\ sinceBlock \subseteq TokenChecks

RtInit ==
    /\ tclock = 0 /\ cached = "none" /\ expiresAt = 0
    /\ lookup = [k \in TokenChecks |-> "idle"]
    /\ blocked = FALSE /\ sinceBlock = {}

\* whitelist_token and blacklist_token: SET with an expiry.
SetStatus(status) ==
    /\ cached' = status
    /\ expiresAt' = tclock + TokenTtl
    /\ blocked' = (status = "blacklisted")
    /\ sinceBlock' = {}
    /\ UNCHANGED <<tclock, lookup>>

WhitelistToken == SetStatus("whitelisted")
BlacklistToken == SetStatus("blacklisted")

\* get_status; a blacklisted or unknown token is answered at once.
CheckToken(k) ==
    /\ lookup[k] = "idle"
    /\ lookup' = [lookup EXCEPT ![k] = CASE cached = "none" -> "invalid"
                                         [] cached = "blacklisted" -> "blocked"
                                         [] OTHER -> "refreshing"]
    /\ sinceBlock' = IF blocked THEN sinceBlock \cup {k} ELSE sinceBlock
    /\ UNCHANGED <<tclock, cached, expiresAt, blocked>>

\* Variant: the refresh writes back the status that was read.
StatusRewritten == "whitelisted"

\* EXPIRE changes no value, and nothing of a key that is gone.
StatusAfterRefresh == cached

\* refresh_ttl, and the verdict.
RefreshTtl(k) ==
    /\ lookup[k] = "refreshing"
    /\ cached' = StatusAfterRefresh
    /\ expiresAt' = IF cached = "none" THEN expiresAt ELSE tclock + TokenTtl
    /\ lookup' = [lookup EXCEPT ![k] = "accepted"]
    /\ UNCHANGED <<tclock, blocked, sinceBlock>>

\* The verdict is used and the socket may ask again.
CheckReturns(k) ==
    /\ lookup[k] \in Verdicts
    /\ lookup' = [lookup EXCEPT ![k] = "idle"]
    /\ sinceBlock' = sinceBlock \ {k}
    /\ UNCHANGED <<tclock, cached, expiresAt, blocked>>

\* Time passes; Redis drops the key when it expires.
TokenTick ==
    /\ tclock < MaxTokenClock
    /\ tclock' = tclock + 1
    /\ cached' = IF cached # "none" /\ tclock + 1 >= expiresAt THEN "none" ELSE cached
    /\ UNCHANGED <<expiresAt, lookup, blocked, sinceBlock>>

RtNext ==
    \/ WhitelistToken \/ BlacklistToken \/ TokenTick
    \/ \E k \in TokenChecks : CheckToken(k) \/ RefreshTtl(k) \/ CheckReturns(k)

RtSpec == RtInit /\ [][RtNext]_rtVars

------------------------------------------------------------------------------
(* BlacklistHolds: a check reads the status and refreshes the expiry in two     *)
(* round trips (tokens.py:105-111).  Whatever checks are between the two when   *)
(* the partner blacklists the token, and even when the entry expires, no check  *)
(* that begins afterwards is accepted until the partner whitelists it again.    *)
BlacklistHolds ==
    /\ \A k \in sinceBlock : lookup[k] \notin {"refreshing", "accepted"}
    /\ blocked => cached # "whitelisted"
==============================================================================
