--------------------------- MODULE CarbonIntensity ---------------------------
(* GET /internal/carbon-intensity for one mapped zone: CarbonIntensityService  *)
(* over RedisCarbonCache and ElectricityMapsClient.  A request suspends in the *)
(* cache, in every attempt at the provider and in the back-off between them,   *)
(* and the clock it goes by was read before the fetch.  A value is the time    *)
(* the provider (external) sampled it.                                         *)
EXTENDS Naturals

CONSTANTS
    CarbonRequests,  \* requests under way at once
    CarbonTtl,       \* ttl_seconds, in ticks
    MaxTries,        \* max_attempts of the client
    MaxCarbonClock   \* bound: ticks

ASSUME CarbonIntensityAssumption == {CarbonTtl, MaxTries} \subseteq Nat \ {0} /\ MaxCarbonClock \in Nat

VARIABLES
    cclock,   \* time
    entry,    \* carbon:{country_code}:{zone}: [value, fetched_at], or NoEntry
    ask       \* the requests

ciVars == <<cclock, entry, ask>>

Instant == 0..MaxCarbonClock
NoEntry == [value |-> 0, fetchedAt |-> 0, present |-> FALSE]
NoAsk == [pc |-> "idle", now |-> 0, cached |-> NoEntry, tries |-> 0, value |-> 0, stale |-> FALSE]
Entries == [value: Instant, fetchedAt: Instant, present: BOOLEAN]

CiTypeOK ==
    /\ cclock \in Instant /\ entry \in Entries
    /\ ask \in [CarbonRequests -> [pc: {"idle", "cache", "fetching", "storing", "answered", "failed"},
                                   now: Instant, cached: Entries, tries: 0..MaxTries, value: Instant, stale: BOOLEAN]]

CiInit == cclock = 0 /\ entry = NoEntry /\ ask = [r \in CarbonRequests |-> NoAsk]

------------------------------------------------------------------------------
\* The zone is mapped: the request goes to the cache.
GetIntensity(r) ==
    /\ ask[r].pc = "idle"
    /\ ask' = [ask EXCEPT ![r].pc = "cache"]
    /\ UNCHANGED <<cclock, entry>>

Fresh(e) == e.present /\ cclock - e.fetchedAt < CarbonTtl

\* The cache answers, and now is the clock from here on.
CacheAnswers(r) ==
    /\ ask[r].pc = "cache"
    /\ ask' = [ask EXCEPT ![r] = IF Fresh(entry)
                                 THEN [@ EXCEPT !.pc = "answered", !.now = cclock, !.value = entry.value]
                                 ELSE [@ EXCEPT !.pc = "fetching", !.now = cclock, !.cached = entry]]
    /\ UNCHANGED <<cclock, entry>>

FetchSucceeds(r) ==
    /\ ask[r].pc = "fetching"
    /\ ask' = [ask EXCEPT ![r].pc = "storing", ![r].value = cclock]
    /\ UNCHANGED <<cclock, entry>>

\* An attempt fails; after the last, the value cached before is served as stale,
\* and without one the request fails.
FetchFails(r) ==
    /\ ask[r].pc = "fetching"
    /\ ask' = [ask EXCEPT ![r] =
                 IF @.tries + 1 < MaxTries THEN [@ EXCEPT !.tries = ask[r].tries + 1]
                 ELSE IF @.cached.present THEN [@ EXCEPT !.pc = "answered", !.value = ask[r].cached.value, !.stale = TRUE]
                 ELSE [@ EXCEPT !.pc = "failed"]]
    /\ UNCHANGED <<cclock, entry>>

\* Variant: the entry is stamped when it is written.
StampedWhenStored(r) == cclock

\* fetched_at is the clock read before the fetch.
StampOf(r) == ask[r].now

StoreValue(r) ==
    /\ ask[r].pc = "storing"
    /\ entry' = [value |-> ask[r].value, fetchedAt |-> StampOf(r), present |-> TRUE]
    /\ ask' = [ask EXCEPT ![r].pc = "answered"]
    /\ UNCHANGED cclock

RequestEnds(r) ==
    /\ ask[r].pc \in {"answered", "failed"}
    /\ ask' = [ask EXCEPT ![r] = NoAsk]
    /\ UNCHANGED <<cclock, entry>>

\* Redis drops an entry that nobody asked for.
Backstop ==
    /\ entry.present /\ entry' = NoEntry
    /\ UNCHANGED <<cclock, ask>>

CarbonTick == cclock < MaxCarbonClock /\ cclock' = cclock + 1 /\ UNCHANGED <<entry, ask>>

CiNext ==
    \/ CarbonTick \/ Backstop
    \/ \E r \in CarbonRequests :
          GetIntensity(r) \/ CacheAnswers(r) \/ FetchSucceeds(r) \/ FetchFails(r) \/ StoreValue(r) \/ RequestEnds(r)

CiSpec == CiInit /\ [][CiNext]_ciVars

------------------------------------------------------------------------------
(* FreshIsRecent: fetches take time, retry, overlap and overwrite one another's *)
(* entries (carbon/service.py:46-65).  A value answered as not stale was        *)
(* sampled less than the TTL before the request's clock, or since.              *)
FreshIsRecent ==
    \A r \in CarbonRequests :
        ask[r].pc = "answered" /\ ~ask[r].stale => ask[r].value + CarbonTtl > ask[r].now
==============================================================================
