----------------------------- MODULE FleetTeams -----------------------------
(* Drivers redeem a team's invite code (TeamJoinService, TeamInviteStore,     *)
(* MembershipStore) and see the team's chargers (MapChargerQueryService).     *)
(* try_increment_used_count suspends inside its lock; everything else runs    *)
(* without suspending.  A driver may redeem again.                            *)
EXTENDS Naturals, FiniteSets, FiniteSetsExt

CONSTANTS
    Joiners,        \* requests to /teams/join under way at once
    TeamDrivers,    \* who sends them
    MaxUses,        \* max_uses of the invite
    JoinLimit,      \* max_attempts_per_window of a requester
    MaxAttempts     \* bound: attempts of a driver

ASSUME FleetTeamsAssumption == {MaxUses, JoinLimit, MaxAttempts} \subseteq Nat /\ IsFiniteSet(TeamDrivers)

VARIABLES
    attempts,    \* the rate limiter's count of each requester
    expired,     \* the invite's expires_at has passed
    usedCount,   \* TeamInvite.used_count
    seatLock,    \* the request inside the lock, "free" if none
    join,        \* the requests: [pc, driver]
    members      \* _memberships: how often each driver is in the team

ftVars == <<attempts, expired, usedCount, seatLock, join, members>>

NoJoin == [pc |-> "idle", driver |-> "none"]

FtTypeOK ==
    /\ attempts \in [TeamDrivers -> 0..MaxAttempts] /\ expired \in BOOLEAN
    /\ usedCount \in Nat /\ members \in [TeamDrivers -> Nat]
    /\ seatLock \in Joiners \cup {"free"}
    /\ \A j \in Joiners : join[j].pc \in {"idle", "waiting", "holding"}

FtInit ==
    /\ attempts = [d \in TeamDrivers |-> 0] /\ expired = FALSE
    /\ usedCount = 0 /\ seatLock = "free"
    /\ join = [j \in Joiners |-> NoJoin]
    /\ members = [d \in TeamDrivers |-> 0]

-----------------------------------------------------------------------------
\* redeem, up to the lock: attempts over the limit and an expired code are refused.
Redeem(j, d) ==
    /\ join[j] = NoJoin /\ attempts[d] < MaxAttempts
    /\ attempts' = [attempts EXCEPT ![d] = @ + 1]
    /\ join' = IF attempts[d] + 1 > JoinLimit \/ expired THEN join
               ELSE [join EXCEPT ![j] = [pc |-> "waiting", driver |-> d]]
    /\ UNCHANGED <<expired, usedCount, seatLock, members>>

\* async with lock, up to the yield inside it.
EnterLock(j) ==
    /\ join[j].pc = "waiting" /\ seatLock = "free"
    /\ seatLock' = j
    /\ join' = [join EXCEPT ![j].pc = "holding"]
    /\ UNCHANGED <<attempts, expired, usedCount, members>>

\* try_increment_used_count finds a use left.
SeatLeft == usedCount < MaxUses

\* Variant: redeem does not look at whether it won a slot.
AlwaysWon == TRUE

WonSlot == SeatLeft

\* After the yield: the count, the lock's release and the membership, at once.
TakeSeat(j) ==
    /\ join[j].pc = "holding"
    /\ usedCount' = IF SeatLeft THEN usedCount + 1 ELSE usedCount
    /\ members' = IF WonSlot THEN [members EXCEPT ![join[j].driver] = @ + 1] ELSE members
    /\ seatLock' = "free"
    /\ join' = [join EXCEPT ![j] = NoJoin]
    /\ UNCHANGED <<attempts, expired>>

InviteExpires == ~expired /\ expired' = TRUE /\ UNCHANGED <<attempts, usedCount, seatLock, join, members>>

\* The requester's window ends.
JoinWindowEnds(d) ==
    /\ attempts[d] > JoinLimit /\ attempts' = [attempts EXCEPT ![d] = 0]
    /\ UNCHANGED <<expired, usedCount, seatLock, join, members>>

\* query_visible_chargers: a team_only charger of the team is shown to its members.
SeesTeamCharger(d) == members[d] > 0

FtNext ==
    \/ InviteExpires
    \/ \E j \in Joiners : EnterLock(j) \/ TakeSeat(j) \/ \E d \in TeamDrivers : Redeem(j, d)
    \/ \E d \in TeamDrivers : JoinWindowEnds(d)

FtSpec == FtInit /\ [][FtNext]_ftVars

-----------------------------------------------------------------------------
(* SeatsAddUp: redeemers race for the last use of a code across the yield in    *)
(* try_increment_used_count (team_invites.py:55-71).  The memberships are       *)
(* exactly the uses counted, never more than max_uses, and so at most max_uses  *)
(* drivers see the team's chargers.                                             *)
SeatsAddUp ==
    /\ MapThenSumSet(LAMBDA d : members[d], TeamDrivers) = usedCount
    /\ usedCount <= MaxUses
    /\ Cardinality({d \in TeamDrivers : SeesTeamCharger(d)}) <= MaxUses
=============================================================================
