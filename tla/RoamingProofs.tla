---------------------------- MODULE RoamingProofs ----------------------------
(* What holds of the services for roaming partners, and of reservations, for    *)
(* any number of partners, sessions, chargers and requests under way.  Each     *)
(* part states its inductive invariant, shows that every action keeps it, and   *)
(* ends with the theorem.                                                       *)
EXTENDS SmartCharging, Reservations, RoamingTokens, RoamingPartners, CdrExchange, FiniteSetTheorems, TLAPS

(***************************************************************************)
(* RoamingTokens                                                           *)
(***************************************************************************)

\* Only while the token is blocked is there a check that began after the blocking:
\* without this a check that starts again once the token is whitelisted could still
\* be counted among them.
SinceIsBlocked == ~blocked => sinceBlock = {}

RtInv == RtTypeOK /\ BlacklistHolds /\ SinceIsBlocked

LEMMA RtInvInit == RtInit => RtInv
  <1> SUFFICES ASSUME RtInit PROVE RtInv
    OBVIOUS
  <1> USE RoamingTokensAssumption DEF RtInit
  <1>1. tclock \in 0..MaxTokenClock /\ expiresAt \in 0..(MaxTokenClock + TokenTtl)
    OBVIOUS
  <1>2. blocked \in BOOLEAN /\ sinceBlock \subseteq TokenChecks /\ cached \in {"whitelisted", "blacklisted", "none"}
    OBVIOUS
  <1> QED
    BY <1>1, <1>2 DEF RtInv, RtTypeOK, BlacklistHolds, SinceIsBlocked

LEMMA RtInvNext == RtInv /\ [RtNext]_rtVars => RtInv'
  <1> SUFFICES ASSUME RtInv, [RtNext]_rtVars PROVE RtInv'
    OBVIOUS
  <1> USE RoamingTokensAssumption DEF RtInv, RtTypeOK, BlacklistHolds, SinceIsBlocked, Verdicts
  <1>1. CASE WhitelistToken
    <2>1. blocked' = FALSE
      BY <1>1 DEF WhitelistToken, SetStatus
    <2> QED
      BY <1>1, <2>1 DEF WhitelistToken, SetStatus
  <1>2. CASE BlacklistToken
    <2>1. blocked' \in BOOLEAN /\ sinceBlock' \subseteq TokenChecks
      BY <1>2 DEF BlacklistToken, SetStatus
    <2> QED
      BY <1>2, <2>1 DEF BlacklistToken, SetStatus
  <1>3. CASE TokenTick
    BY <1>3 DEF TokenTick
  <1>4. ASSUME NEW k \in TokenChecks, CheckToken(k) PROVE RtInv'
    <2>1. CASE blocked
      <3>1. lookup[k] = "idle" /\ lookup' = [lookup EXCEPT ![k] = lookup'[k]] /\ lookup'[k] \in {"invalid", "blocked"}
        BY <1>4, <2>1 DEF CheckToken
      <3>2. sinceBlock' = sinceBlock \cup {k}
        BY <1>4, <2>1 DEF CheckToken
      <3> QED
        BY <1>4, <2>1, <3>1, <3>2 DEF CheckToken
    <2>2. CASE ~blocked
      <3>1. lookup' = [lookup EXCEPT ![k] = lookup'[k]] /\ lookup'[k] \in {"invalid", "blocked", "refreshing"}
        BY <1>4 DEF CheckToken
      <3>2. UNCHANGED sinceBlock /\ sinceBlock = {}
        BY <1>4, <2>2 DEF CheckToken
      <3> QED
        BY <1>4, <2>2, <3>1, <3>2 DEF CheckToken
    <2> QED
      BY <2>1, <2>2
  <1>5. ASSUME NEW k \in TokenChecks, RefreshTtl(k) PROVE RtInv'
    BY <1>5 DEF RefreshTtl, StatusAfterRefresh
  <1>6. ASSUME NEW k \in TokenChecks, CheckReturns(k) PROVE RtInv'
    BY <1>6 DEF CheckReturns
  <1>7. CASE UNCHANGED rtVars
    BY <1>7 DEF rtVars
  <1> QED
    BY <1>1, <1>2, <1>3, <1>4, <1>5, <1>6, <1>7 DEF RtNext

(* BlacklistedStaysOut: however many checks are between reading the status    *)
(* and refreshing its expiry when a partner blacklists a token, none that     *)
(* begins afterwards is accepted until it is whitelisted again                *)
(* (TokenWhitelistService, OcpiRoamingTokenChecker).                          *)
THEOREM BlacklistedStaysOut == RtSpec => []BlacklistHolds
  <1>1. RtInv => BlacklistHolds
    BY DEF RtInv
  <1> QED
    BY RtInvInit, RtInvNext, <1>1, PTL DEF RtSpec

(***************************************************************************)
(* RoamingPartners                                                         *)
(***************************************************************************)

Rows == [status: {"absent", "pending", "connected"}, tokenA: 0..MaxSecrets,
         tokenC: 0..MaxSecrets, version: SupportedVersions \cup {"none"}]
Shakes == [pc: {"idle", "sent", "served", "refused"}, party: Parties \cup {"none"}, tokenA: 0..MaxSecrets,
           version: AskedVersions \cup {"none"}, tokenC: 0..MaxSecrets, alone: BOOLEAN]

\* A handshake is some partner's or it is idle.
ShakesOK ==
    /\ shake \in [Handshakes -> Shakes]
    /\ \A h \in Handshakes : shake[h].pc # "idle" => shake[h].party \in Parties
    /\ \A h \in Handshakes : shake[h].pc = "idle" => shake[h] = NoShake
    /\ \A h \in Handshakes : shake[h].pc = "served" => shake[h].version \in SupportedVersions

\* No token is newer than the last one made.
NoneNewer ==
    /\ \A p \in Parties : /\ registered[p].tokenA <= secrets /\ registered[p].tokenC <= secrets
                          /\ handed[p] <= secrets /\ held[p].tokenC <= secrets
    /\ \A h \in Handshakes : shake[h].tokenA <= secrets /\ shake[h].tokenC <= secrets

\* A token_a is one partner's, in the registry, in its hands and on its way.
OneOwnerA ==
    /\ \A p \in Parties : registered[p].status # "absent" => registered[p].tokenA # 0
    /\ \A p, r \in Parties : registered[p].tokenA # 0 /\ registered[p].tokenA = registered[r].tokenA => p = r
    /\ \A p, r \in Parties : handed[p] # 0 /\ handed[p] = registered[r].tokenA => p = r
    /\ \A h \in Handshakes, r \in Parties :
          shake[h].pc = "sent" => shake[h].tokenA # 0 /\ (shake[h].tokenA = registered[r].tokenA => shake[h].party = r)

\* So is a token_c.
OneOwnerC ==
    /\ \A p, r \in Parties : registered[p].tokenC # 0 /\ registered[p].tokenC = registered[r].tokenC => p = r
    /\ \A p, r \in Parties : held[p].tokenC # 0 /\ held[p].tokenC = registered[r].tokenC => p = r
    /\ \A h \in Handshakes, r \in Parties :
          shake[h].pc = "served" => shake[h].tokenC # 0 /\ (shake[h].tokenC = registered[r].tokenC => shake[h].party = r)

\* A handshake that is alone is the only one of its partner.
AloneOK ==
    \A h, k \in Handshakes : shake[h].pc # "idle" /\ shake[h].alone /\ shake[k].party = shake[h].party => k = h

\* What a handshake that is alone was served is what the registry has.
ServedIsRegistered ==
    \A h \in Handshakes : shake[h].pc = "served" /\ shake[h].alone =>
        LET row == registered[shake[h].party]
        IN  row.status # "absent" /\ row.tokenC = shake[h].tokenC /\ row.version = shake[h].version

\* While none of a partner's answers is out, what it holds is what the registry has.
HeldIsRegistered ==
    \A p \in Parties \ astray :
        /\ held[p].tokenC # 0
        /\ \A h \in Handshakes : shake[h].party = p => shake[h].alone /\ shake[h].pc # "served"
        => /\ registered[p].status # "absent"
           /\ registered[p].tokenC = held[p].tokenC
           /\ registered[p].version = held[p].version

RpInv ==
    /\ RpTypeOK /\ ShakesOK /\ NoneNewer
    /\ OneOwnerA /\ OneOwnerC
    /\ AloneOK /\ ServedIsRegistered /\ HeldIsRegistered

LEMMA RpInvInit == RpInit => RpInv
  <1> SUFFICES ASSUME RpInit PROVE RpInv
    OBVIOUS
  <1> USE RoamingPartnersAssumption DEF RpInit, NotOnboarded, NoShake, NothingHeld
  <1>1. RpTypeOK
    BY DEF RpTypeOK
  <1>2. ShakesOK
    BY DEF ShakesOK, Shakes
  <1>3. NoneNewer /\ OneOwnerA /\ OneOwnerC
    BY DEF NoneNewer, OneOwnerA, OneOwnerC
  <1>4. AloneOK /\ ServedIsRegistered /\ HeldIsRegistered
    BY DEF AloneOK, ServedIsRegistered, HeldIsRegistered
  <1> QED
    BY <1>1, <1>2, <1>3, <1>4 DEF RpInv

LEMMA NoShakeType == NoShake \in Shakes
  BY RoamingPartnersAssumption DEF Shakes, NoShake

LEMMA NotOnboardedType == NotOnboarded \in Rows
  BY RoamingPartnersAssumption DEF Rows, NotOnboarded

LEMMA NoShakeFields ==
    /\ NoShake.pc = "idle" /\ NoShake.party = "none"
    /\ NoShake.tokenA = 0 /\ NoShake.tokenC = 0
  BY DEF NoShake

LEMMA ShakeCrossed ==
    ASSUME NEW r \in Shakes, NEW c, c = [r EXCEPT !.alone = FALSE]
    PROVE  /\ c \in Shakes
           /\ c.pc = r.pc /\ c.party = r.party /\ c.tokenA = r.tokenA /\ c.version = r.version
           /\ c.tokenC = r.tokenC /\ ~c.alone
  BY DEF Shakes

LEMMA ShakeSent ==
    ASSUME NEW p \in Parties, NEW t \in 0..MaxSecrets, NEW v \in AskedVersions, NEW b \in BOOLEAN
    PROVE  [NoShake EXCEPT !.pc = "sent", !.party = p, !.tokenA = t, !.version = v, !.alone = b] \in Shakes
  BY NoShakeType DEF Shakes

\* A handshake that ends leaves its slot free and the others alone.
LEMMA ShakeEnds ==
    ASSUME RpInv, NEW h \in Handshakes, shake' = [shake EXCEPT ![h] = NoShake]
    PROVE  /\ shake' \in [Handshakes -> Shakes]
           /\ shake'[h] = NoShake
           /\ \A k \in Handshakes \ {h} : shake'[k] = shake[k]
  BY NoShakeType DEF RpInv, ShakesOK

LEMMA RpCreate ==
    ASSUME RpInv, NEW p \in Parties, CreatePartner(p)
    PROVE  RpInv'
  <1> USE RoamingPartnersAssumption DEF RpInv, CreatePartner
  <1>a. /\ registered' \in [Parties -> Rows]
        /\ registered'[p].status = "pending" /\ registered'[p].tokenA = secrets + 1
        /\ registered'[p].tokenC = 0 /\ registered'[p].version = "none"
        /\ \A r \in Parties \ {p} : registered'[r] = registered[r]
    <2>0. secrets' \in 0..MaxSecrets
      BY DEF RpTypeOK
    <2>1. [NotOnboarded EXCEPT !.status = "pending", !.tokenA = secrets'] \in Rows
      BY <2>0, NotOnboardedType DEF Rows
    <2>2. registered \in [Parties -> Rows]
      BY DEF RpTypeOK, Rows
    <2> QED
      BY <2>1, <2>2 DEF NotOnboarded
  <1>1. RpTypeOK'
    BY <1>a DEF RpTypeOK, Rows, ShakesOK, Shakes
  <1>2. ShakesOK'
    BY <1>a DEF RpTypeOK, ShakesOK, Shakes
  <1>3. NoneNewer'
    BY <1>a DEF RpTypeOK, ShakesOK, Shakes, NoneNewer
  <1>4. OneOwnerA'
    BY <1>a DEF RpTypeOK, ShakesOK, Shakes, NoneNewer, OneOwnerA
  <1>5. OneOwnerC'
    BY <1>a DEF RpTypeOK, ShakesOK, Shakes, NoneNewer, OneOwnerC
  <1>6. AloneOK'
    BY <1>a DEF RpTypeOK, ShakesOK, Shakes, NoneNewer, AloneOK
  <1>7. ServedIsRegistered'
    BY <1>a DEF RpTypeOK, ShakesOK, Shakes, NoneNewer, ServedIsRegistered, OneOwnerA, AloneOK
  <1>8. HeldIsRegistered'
    BY <1>a DEF RpTypeOK, ShakesOK, Shakes, NoneNewer, HeldIsRegistered, OneOwnerA, AloneOK, ServedIsRegistered
  <1> QED
    BY <1>1, <1>2, <1>3, <1>4, <1>5, <1>6, <1>7, <1>8

LEMMA RpRotate ==
    ASSUME RpInv, NEW p \in Parties, RotateToken(p)
    PROVE  RpInv'
  <1> USE RoamingPartnersAssumption DEF RpInv, RotateToken, AfterRotation
  <1>1. RpTypeOK'
    BY DEF RpTypeOK, ShakesOK, Shakes
  <1>2. ShakesOK'
    BY DEF RpTypeOK, ShakesOK, Shakes
  <1>3. NoneNewer'
    BY DEF RpTypeOK, ShakesOK, Shakes, NoneNewer
  <1>4. OneOwnerA'
    BY DEF RpTypeOK, ShakesOK, Shakes, NoneNewer, OneOwnerA
  <1>5. OneOwnerC'
    BY DEF RpTypeOK, ShakesOK, Shakes, NoneNewer, OneOwnerC
  <1>6. AloneOK'
    BY DEF RpTypeOK, ShakesOK, Shakes, NoneNewer, AloneOK
  <1>7. ServedIsRegistered'
    BY DEF RpTypeOK, ShakesOK, Shakes, NoneNewer, ServedIsRegistered, OneOwnerA, AloneOK
  <1>8. HeldIsRegistered'
    BY DEF RpTypeOK, ShakesOK, Shakes, NoneNewer, HeldIsRegistered, OneOwnerA, AloneOK, ServedIsRegistered
  <1> QED
    BY <1>1, <1>2, <1>3, <1>4, <1>5, <1>6, <1>7, <1>8

LEMMA RpHandOver ==
    ASSUME RpInv, NEW p \in Parties, HandOver(p)
    PROVE  RpInv'
  <1> USE RoamingPartnersAssumption DEF RpInv, HandOver
  <1>1. RpTypeOK'
    BY DEF RpTypeOK, ShakesOK, Shakes
  <1>2. ShakesOK'
    BY DEF RpTypeOK, ShakesOK, Shakes
  <1>3. NoneNewer'
    BY DEF RpTypeOK, ShakesOK, Shakes, NoneNewer
  <1>4. OneOwnerA'
    BY DEF RpTypeOK, ShakesOK, Shakes, NoneNewer, OneOwnerA
  <1>5. OneOwnerC'
    BY DEF RpTypeOK, ShakesOK, Shakes, NoneNewer, OneOwnerC
  <1>6. AloneOK'
    BY DEF RpTypeOK, ShakesOK, Shakes, NoneNewer, AloneOK
  <1>7. ServedIsRegistered'
    BY DEF RpTypeOK, ShakesOK, Shakes, NoneNewer, ServedIsRegistered, OneOwnerA, AloneOK
  <1>8. HeldIsRegistered'
    BY DEF RpTypeOK, ShakesOK, Shakes, NoneNewer, HeldIsRegistered, OneOwnerA, AloneOK, ServedIsRegistered
  <1> QED
    BY <1>1, <1>2, <1>3, <1>4, <1>5, <1>6, <1>7, <1>8

LEMMA RpAsk ==
    ASSUME RpInv, NEW h \in Handshakes, NEW p \in Parties, NEW v \in AskedVersions, Ask(h, p, v)
    PROVE  RpInv'
  <1> USE RoamingPartnersAssumption DEF RpInv
  <1>a. UNCHANGED <<registered, secrets, handed, held, astray>> /\ shake[h] = NoShake /\ handed[p] # 0
    BY DEF Ask
  <1>b. /\ shake'[h].pc = "sent" /\ shake'[h].party = p /\ shake'[h].tokenA = handed[p]
        /\ shake'[h].version = v /\ shake'[h].tokenC = 0
        /\ shake'[h].alone => \A k \in Handshakes : shake[k].party # p
    BY DEF Ask, NoShake, Under
  <1>c. \A k \in Handshakes \ {h} :
           /\ shake'[k].pc = shake[k].pc /\ shake'[k].party = shake[k].party /\ shake'[k].tokenA = shake[k].tokenA
           /\ shake'[k].version = shake[k].version /\ shake'[k].tokenC = shake[k].tokenC
           /\ shake'[k].alone => shake[k].alone /\ shake[k].party # p
           /\ shake[k].party # p => shake'[k] = shake[k]
    <2> SUFFICES ASSUME NEW k \in Handshakes \ {h}
                 PROVE  /\ shake'[k].pc = shake[k].pc /\ shake'[k].party = shake[k].party
                        /\ shake'[k].tokenA = shake[k].tokenA /\ shake'[k].version = shake[k].version
                        /\ shake'[k].tokenC = shake[k].tokenC
                        /\ shake'[k].alone => shake[k].alone /\ shake[k].party # p
                        /\ shake[k].party # p => shake'[k] = shake[k]
      OBVIOUS
    <2>1. CASE shake[k].party = p
      <3>1. shake'[k] = [shake[k] EXCEPT !.alone = FALSE] /\ shake[k] \in Shakes
        BY <2>1 DEF Ask, ShakesOK, Under
      <3> QED
        BY <2>1, <3>1, ShakeCrossed
    <2>2. CASE shake[k].party # p
      BY <2>2 DEF Ask, Under
    <2> QED
      BY <2>1, <2>2
  <1>d. shake' \in [Handshakes -> Shakes]
    <2>1. (Under(p) = {}) \in BOOLEAN
      OBVIOUS
    <2>2. [NoShake EXCEPT !.pc = "sent", !.party = p, !.tokenA = handed[p], !.version = v, !.alone = Under(p) = {}] \in Shakes
      BY <2>1, ShakeSent DEF RpTypeOK
    <2>3. \A k \in Handshakes : [shake[k] EXCEPT !.alone = FALSE] \in Shakes
      BY ShakeCrossed DEF ShakesOK
    <2> QED
      BY <2>2, <2>3 DEF Ask, ShakesOK
  <1>1. RpTypeOK'
    BY <1>a, <1>b, <1>c, <1>d, NoShakeFields DEF RpTypeOK, ShakesOK, Shakes
  <1>2. ShakesOK'
    <2>1. ASSUME NEW k \in Handshakes, shake'[k].pc = "idle" PROVE shake'[k] = NoShake
      <3>1. k # h /\ shake[k].pc = "idle"
        BY <2>1, <1>b, <1>c
      <3>2. shake[k] = NoShake /\ shake[k].party # p
        BY <3>1, NoShakeFields DEF ShakesOK
      <3> QED
        BY <3>1, <3>2, <1>c
    <2> QED
      BY <2>1, <1>a, <1>b, <1>c, <1>d DEF ShakesOK
  <1>3. NoneNewer'
    BY <1>a, <1>b, <1>c, <1>d, NoShakeFields DEF RpTypeOK, ShakesOK, Shakes, NoneNewer
  <1>4. OneOwnerA'
    BY <1>a, <1>b, <1>c, <1>d, NoShakeFields DEF RpTypeOK, ShakesOK, Shakes, NoneNewer, OneOwnerA
  <1>5. OneOwnerC'
    BY <1>a, <1>b, <1>c, <1>d, NoShakeFields DEF RpTypeOK, ShakesOK, Shakes, NoneNewer, OneOwnerC
  <1>6. AloneOK'
    BY <1>a, <1>b, <1>c, <1>d, NoShakeFields DEF RpTypeOK, ShakesOK, Shakes, NoneNewer, AloneOK
  <1>7. ServedIsRegistered'
    BY <1>a, <1>b, <1>c, <1>d, NoShakeFields DEF RpTypeOK, ShakesOK, Shakes, NoneNewer, ServedIsRegistered, OneOwnerA, AloneOK
  <1>8. HeldIsRegistered'
    <2> SUFFICES ASSUME NEW r \in Parties \ astray, held[r].tokenC # 0,
                        \A k \in Handshakes : shake'[k].party = r => shake'[k].alone /\ shake'[k].pc # "served"
                 PROVE  /\ registered[r].status # "absent"
                        /\ registered[r].tokenC = held[r].tokenC /\ registered[r].version = held[r].version
      BY <1>a DEF HeldIsRegistered
    <2>1. \A k \in Handshakes : shake[k].party = r => k # h /\ shake[k].alone /\ shake[k].pc # "served"
      BY <1>a, <1>b, <1>c, NoShakeFields
    <2> QED
      BY <2>1 DEF HeldIsRegistered
  <1> QED
    BY <1>1, <1>2, <1>3, <1>4, <1>5, <1>6, <1>7, <1>8

LEMMA RpHear ==
    ASSUME RpInv, NEW h \in Handshakes, Hear(h)
    PROVE  RpInv'
  <1> USE RoamingPartnersAssumption DEF RpInv, Hear
  <1>a. shake[h].party \in Parties
    BY DEF ShakesOK
  <1>b. /\ shake' \in [Handshakes -> Shakes]
        /\ shake'[h] = NoShake /\ shake'[h].pc = "idle" /\ shake'[h].party = "none"
        /\ shake'[h].tokenA = 0 /\ shake'[h].tokenC = 0
        /\ \A k \in Handshakes \ {h} : shake'[k] = shake[k]
    BY ShakeEnds, NoShakeFields
  <1>1. RpTypeOK'
    BY <1>a, <1>b DEF RpTypeOK, ShakesOK, Shakes
  <1>2. ShakesOK'
    BY <1>a, <1>b DEF RpTypeOK, ShakesOK, Shakes
  <1>3. NoneNewer'
    BY <1>a, <1>b DEF RpTypeOK, ShakesOK, Shakes, NoneNewer
  <1>4. OneOwnerA'
    BY <1>a, <1>b DEF RpTypeOK, ShakesOK, Shakes, NoneNewer, OneOwnerA
  <1>5. OneOwnerC'
    BY <1>a, <1>b DEF RpTypeOK, ShakesOK, Shakes, NoneNewer, OneOwnerC
  <1>6. AloneOK'
    BY <1>a, <1>b DEF RpTypeOK, ShakesOK, Shakes, NoneNewer, AloneOK
  <1>7. ServedIsRegistered'
    BY <1>a, <1>b DEF RpTypeOK, ShakesOK, Shakes, NoneNewer, ServedIsRegistered, OneOwnerA, AloneOK
  <1>8. HeldIsRegistered'
    BY SMTT(40), <1>a, <1>b DEF RpTypeOK, ShakesOK, Shakes, NoneNewer, HeldIsRegistered, OneOwnerA, AloneOK, ServedIsRegistered
  <1> QED
    BY <1>1, <1>2, <1>3, <1>4, <1>5, <1>6, <1>7, <1>8

LEMMA RpLose ==
    ASSUME RpInv, NEW h \in Handshakes, Lose(h)
    PROVE  RpInv'
  <1> USE RoamingPartnersAssumption DEF RpInv, Lose
  <1>a. shake[h].party \in Parties
    BY DEF ShakesOK
  <1>b. /\ shake' \in [Handshakes -> Shakes]
        /\ shake'[h] = NoShake /\ shake'[h].pc = "idle" /\ shake'[h].party = "none"
        /\ shake'[h].tokenA = 0 /\ shake'[h].tokenC = 0
        /\ \A k \in Handshakes \ {h} : shake'[k] = shake[k]
    BY ShakeEnds, NoShakeFields
  <1>1. RpTypeOK'
    BY <1>a, <1>b DEF RpTypeOK, ShakesOK, Shakes
  <1>2. ShakesOK'
    BY <1>a, <1>b DEF RpTypeOK, ShakesOK, Shakes
  <1>3. NoneNewer'
    BY <1>a, <1>b DEF RpTypeOK, ShakesOK, Shakes, NoneNewer
  <1>4. OneOwnerA'
    BY <1>a, <1>b DEF RpTypeOK, ShakesOK, Shakes, NoneNewer, OneOwnerA
  <1>5. OneOwnerC'
    BY <1>a, <1>b DEF RpTypeOK, ShakesOK, Shakes, NoneNewer, OneOwnerC
  <1>6. AloneOK'
    BY <1>a, <1>b DEF RpTypeOK, ShakesOK, Shakes, NoneNewer, AloneOK
  <1>7. ServedIsRegistered'
    BY <1>a, <1>b DEF RpTypeOK, ShakesOK, Shakes, NoneNewer, ServedIsRegistered, OneOwnerA, AloneOK
  <1>8. HeldIsRegistered'
    BY SMTT(40), <1>a, <1>b DEF RpTypeOK, ShakesOK, Shakes, NoneNewer, HeldIsRegistered, OneOwnerA, AloneOK, ServedIsRegistered
  <1> QED
    BY <1>1, <1>2, <1>3, <1>4, <1>5, <1>6, <1>7, <1>8

LEMMA RpRestart ==
    ASSUME RpInv, EdgeRestarts
    PROVE  RpInv'
  <1> USE RoamingPartnersAssumption DEF RpInv, EdgeRestarts, NotOnboarded
  <1>a. /\ shake' \in [Handshakes -> Shakes]
        /\ \A h \in Handshakes : /\ shake'[h] = NoShake /\ shake'[h].pc = "idle" /\ shake'[h].party = "none"
                                   /\ shake'[h].tokenA = 0 /\ shake'[h].tokenC = 0
    BY DEF NoShake, Shakes
  <1>1. RpTypeOK'
    BY <1>a DEF RpTypeOK, ShakesOK, Shakes
  <1>2. ShakesOK'
    BY <1>a DEF RpTypeOK, ShakesOK, Shakes
  <1>3. NoneNewer'
    BY <1>a DEF RpTypeOK, ShakesOK, Shakes, NoneNewer
  <1>4. OneOwnerA'
    BY <1>a DEF RpTypeOK, ShakesOK, Shakes, NoneNewer, OneOwnerA
  <1>5. OneOwnerC'
    BY <1>a DEF RpTypeOK, ShakesOK, Shakes, NoneNewer, OneOwnerC
  <1>6. AloneOK'
    BY <1>a DEF RpTypeOK, ShakesOK, Shakes, NoneNewer, AloneOK
  <1>7. ServedIsRegistered'
    BY <1>a DEF RpTypeOK, ShakesOK, Shakes, NoneNewer, ServedIsRegistered, OneOwnerA, AloneOK
  <1>8. HeldIsRegistered'
    BY <1>a DEF RpTypeOK, ShakesOK, Shakes, NoneNewer, HeldIsRegistered, OneOwnerA, AloneOK, ServedIsRegistered
  <1> QED
    BY <1>1, <1>2, <1>3, <1>4, <1>5, <1>6, <1>7, <1>8

\* An unknown version or token_a: nothing but the handshake changes.
LEMMA RpRefuse ==
    ASSUME RpInv, NEW h \in Handshakes, shake[h].pc = "sent",
           shake' = [shake EXCEPT ![h].pc = "refused", ![h].tokenA = 0, ![h].version = "none"],
           UNCHANGED <<registered, secrets, handed, held, astray>>
    PROVE  RpInv'
  <1> USE RoamingPartnersAssumption DEF RpInv
  <1>a. /\ shake' \in [Handshakes -> Shakes]
        /\ \A k \in Handshakes \ {h} : shake'[k] = shake[k]
    <2>1. 0 \in 0..MaxSecrets /\ shake[h] \in Shakes
      BY DEF ShakesOK
    <2>2. [shake[h] EXCEPT !.pc = "refused", !.tokenA = 0, !.version = "none"] \in Shakes
      BY <2>1 DEF Shakes
    <2>3. shake' = [shake EXCEPT ![h] = [shake[h] EXCEPT !.pc = "refused", !.tokenA = 0, !.version = "none"]]
      OBVIOUS
    <2> QED
      BY <2>2, <2>3 DEF ShakesOK
  <1>b. /\ shake'[h].pc = "refused" /\ shake'[h].party = shake[h].party
        /\ shake'[h].tokenA = 0 /\ shake'[h].tokenC = shake[h].tokenC /\ shake'[h].alone = shake[h].alone
    BY DEF ShakesOK, Shakes
  <1>1. RpTypeOK'
    BY <1>a, <1>b DEF RpTypeOK, ShakesOK, Shakes
  <1>2. ShakesOK'
    BY <1>a, <1>b DEF RpTypeOK, ShakesOK, Shakes
  <1>3. NoneNewer'
    BY <1>a, <1>b DEF RpTypeOK, ShakesOK, Shakes, NoneNewer
  <1>4. OneOwnerA'
    BY <1>a, <1>b DEF RpTypeOK, ShakesOK, Shakes, NoneNewer, OneOwnerA
  <1>5. OneOwnerC'
    BY <1>a, <1>b DEF RpTypeOK, ShakesOK, Shakes, NoneNewer, OneOwnerC
  <1>6. AloneOK'
    BY <1>a, <1>b DEF RpTypeOK, ShakesOK, Shakes, NoneNewer, AloneOK
  <1>7. ServedIsRegistered'
    BY <1>a, <1>b DEF RpTypeOK, ShakesOK, Shakes, NoneNewer, ServedIsRegistered, OneOwnerA, AloneOK
  <1>8. HeldIsRegistered'
    BY <1>a, <1>b DEF RpTypeOK, ShakesOK, Shakes, NoneNewer, HeldIsRegistered, OneOwnerA, AloneOK, ServedIsRegistered
  <1> QED
    BY <1>1, <1>2, <1>3, <1>4, <1>5, <1>6, <1>7, <1>8

\* The partner whose token_a it is gets a token_c nobody had before.
LEMMA RpServe ==
    ASSUME RpInv, NEW h \in Handshakes, NEW p \in ByTokenA(shake[h].tokenA),
           shake[h].pc = "sent", shake[h].version \in SupportedVersions,
           secrets < MaxSecrets, secrets' = secrets + 1,
           registered' = Connected(p, shake[h].version, secrets'),
           shake' = [shake EXCEPT ![h].pc = "served", ![h].tokenA = 0, ![h].tokenC = secrets'],
           UNCHANGED <<handed, held, astray>>
    PROVE  RpInv'
  <1> USE RoamingPartnersAssumption DEF RpInv
  <1>a. p \in Parties /\ shake[h].party = p /\ registered[p].status # "absent"
    BY DEF ByTokenA, OneOwnerA
  <1>b. secrets' \in 0..MaxSecrets /\ secrets \in 0..MaxSecrets /\ secrets' = secrets + 1
    BY DEF RpTypeOK
  <1>c. /\ shake' \in [Handshakes -> Shakes]
        /\ \A k \in Handshakes \ {h} : shake'[k] = shake[k]
    <2>1. 0 \in 0..MaxSecrets /\ shake[h] \in Shakes
      BY DEF ShakesOK
    <2>2. [shake[h] EXCEPT !.pc = "served", !.tokenA = 0, !.tokenC = secrets'] \in Shakes
      BY <1>b, <2>1 DEF Shakes
    <2>3. shake' = [shake EXCEPT ![h] = [shake[h] EXCEPT !.pc = "served", !.tokenA = 0, !.tokenC = secrets']]
      OBVIOUS
    <2> QED
      BY <2>2, <2>3 DEF ShakesOK
  <1>d. /\ shake'[h].pc = "served" /\ shake'[h].party = p /\ shake'[h].version = shake[h].version
        /\ shake'[h].tokenA = 0 /\ shake'[h].tokenC = secrets' /\ shake'[h].alone = shake[h].alone
    BY <1>a DEF ShakesOK, Shakes
  <1>e. registered' \in [Parties -> Rows]
    <2> DEFINE row == [registered[p] EXCEPT !.status = "connected", !.tokenC = secrets', !.version = shake[h].version]
    <2>1. registered \in [Parties -> Rows]
      BY DEF RpTypeOK, Rows
    <2>2. registered[p] \in Rows
      BY <1>a, <2>1
    <2>3. row \in Rows
      BY <1>b, <2>2 DEF Rows
    <2>4. registered' = [registered EXCEPT ![p] = row]
      BY DEF Connected
    <2> QED
      BY <2>1, <2>3, <2>4
  <1>f. /\ \A r \in Parties \ {p} : registered'[r] = registered[r]
        /\ registered'[p].status = "connected" /\ registered'[p].tokenA = registered[p].tokenA
        /\ registered'[p].tokenC = secrets' /\ registered'[p].version = shake[h].version
    BY <1>a DEF RpTypeOK, Connected
  <1>1. RpTypeOK'
    BY <1>a, <1>b, <1>c, <1>d, <1>e, <1>f DEF RpTypeOK, Rows, ShakesOK, Shakes
  <1>2. ShakesOK'
    BY SMTT(40), <1>a, <1>b, <1>c, <1>d, <1>e, <1>f DEF RpTypeOK, ShakesOK, Shakes
  <1>3. NoneNewer'
    BY SMTT(40), <1>a, <1>b, <1>c, <1>d, <1>e, <1>f DEF RpTypeOK, ShakesOK, Shakes, NoneNewer
  <1>4. OneOwnerA'
    BY SMTT(40), <1>a, <1>b, <1>c, <1>d, <1>e, <1>f DEF RpTypeOK, ShakesOK, Shakes, NoneNewer, OneOwnerA
  <1>5. OneOwnerC'
    BY SMTT(40), <1>a, <1>b, <1>c, <1>d, <1>e, <1>f DEF RpTypeOK, ShakesOK, Shakes, NoneNewer, OneOwnerC
  <1>6. AloneOK'
    BY <1>a, <1>b, <1>c, <1>d, <1>e, <1>f DEF RpTypeOK, ShakesOK, Shakes, NoneNewer, AloneOK
  <1>7. ServedIsRegistered'
    BY SMTT(40), <1>a, <1>b, <1>c, <1>d, <1>e, <1>f DEF RpTypeOK, ShakesOK, Shakes, NoneNewer, ServedIsRegistered, OneOwnerA, AloneOK
  <1>8. HeldIsRegistered'
    BY SMTT(40), <1>a, <1>b, <1>c, <1>d, <1>e, <1>f DEF RpTypeOK, ShakesOK, Shakes, NoneNewer, HeldIsRegistered, OneOwnerA, AloneOK, ServedIsRegistered
  <1> QED
    BY <1>1, <1>2, <1>3, <1>4, <1>5, <1>6, <1>7, <1>8

LEMMA RpInvNext == RpInv /\ [RpNext]_rpVars => RpInv'
  <1> SUFFICES ASSUME RpInv, [RpNext]_rpVars PROVE RpInv'
    OBVIOUS
  <1>1. ASSUME NEW h \in Handshakes, NegotiateCredentials(h) PROVE RpInv'
    <2>1. CASE shake[h].version \notin SupportedVersions \/ ByTokenA(shake[h].tokenA) = {}
      BY <1>1, <2>1, RpRefuse DEF NegotiateCredentials
    <2>2. CASE ~(shake[h].version \notin SupportedVersions \/ ByTokenA(shake[h].tokenA) = {})
      BY <1>1, <2>2, RpServe DEF NegotiateCredentials
    <2> QED
      BY <2>1, <2>2
  <1>2. CASE UNCHANGED rpVars
    BY <1>2 DEF rpVars, RpInv, RpTypeOK, ShakesOK, NoneNewer, OneOwnerA, OneOwnerC, AloneOK,
                ServedIsRegistered, HeldIsRegistered
  <1> QED
    BY <1>1, <1>2, RpCreate, RpRotate, RpHandOver, RpAsk, RpHear, RpLose, RpRestart DEF RpNext

(* PartnersKnowTheirTokens: the token a partner holds is never taken for       *)
(* another partner's, and if no answer to it was lost or overtaken, it is      *)
(* known by that token at the version it asked for, whatever rotations of      *)
(* token_a and refused handshakes came since (negotiate_credentials,           *)
(* rotate_token_a, authenticate_partner).                                      *)
THEOREM PartnersKnowTheirTokens == RpSpec => []HeldTokenWorks
  <1>1. RpInv => HeldTokenWorks
    <2> SUFFICES ASSUME RpInv, NEW p \in Parties, held[p].tokenC # 0
                 PROVE  /\ AuthenticatePartner(held[p].tokenC) \subseteq {p}
                        /\ p \notin astray /\ Under(p) = {} =>
                              /\ AuthenticatePartner(held[p].tokenC) = {p}
                              /\ registered[p].version = held[p].version
      BY DEF HeldTokenWorks
    <2>1. AuthenticatePartner(held[p].tokenC) \subseteq {p}
      BY DEF RpInv, OneOwnerC, AuthenticatePartner, ByTokenC
    <2>2. ASSUME p \notin astray, Under(p) = {}
          PROVE  /\ AuthenticatePartner(held[p].tokenC) = {p}
                 /\ registered[p].version = held[p].version
      <3>1. /\ registered[p].status # "absent" /\ registered[p].tokenC = held[p].tokenC
            /\ registered[p].version = held[p].version
        BY <2>2 DEF RpInv, HeldIsRegistered, Under
      <3> QED
        BY <2>1, <3>1 DEF AuthenticatePartner, ByTokenC
    <2> QED
      BY <2>1, <2>2
  <1> QED
    BY RpInvInit, RpInvNext, <1>1, PTL DEF RpSpec

(***************************************************************************)
(* Reservations                                                            *)
(***************************************************************************)

Requested == [cmd: {"none", "ReserveNow", "CancelReservation", "UnlockConnector"},
              id: Ids \cup {Nobody}, by: Drivers \cup {Nobody},
              at: Places \cup {Nobody}, answer: {"none", "accepted", "refused"}]

ReservesFor(q, r) == rcall[q].cmd = "ReserveNow" /\ rcall[q].id = r
CancelsFor(q, r) == rcall[q].cmd = "CancelReservation" /\ rcall[q].id = r

\* A request is for a charger, and for a driver exactly if its id is a driver's.
CallsOK ==
    \A q \in ReservationCalls :
        /\ rcall[q].cmd = "none" => rcall[q].id = Nobody
        /\ rcall[q].cmd # "none" => rcall[q].at \in Places
        /\ rcall[q].cmd \in {"ReserveNow", "CancelReservation"} => rcall[q].id \in minted
        /\ rcall[q].cmd = "UnlockConnector" => rcall[q].id = Nobody
        /\ rcall[q].id \in ReservationIds <=> rcall[q].by # Nobody

\* A reservation is kept at one charger, listed there if it is listed, and nowhere
\* before it is asked for.
OnePlace(r) ==
    /\ place[r] # Nobody <=> owner[r] # Nobody
    /\ \A c \in Places : kept[c] = r => place[r] \in {Nobody, c}
    /\ \A c, d \in Places : kept[c] = r /\ kept[d] = r => c = d
    /\ r \notin minted => \A c \in Places : kept[c] # r

\* A reservation is asked for once, and not listed before it is answered.
Reserving(q, r) ==
    /\ \A p \in ReservationCalls : rcall[p].id = r => p = q
    /\ place[r] = Nobody
    /\ \A c \in Places : kept[c] = r <=> rcall[q].answer = "accepted" /\ c = rcall[q].at

\* A cancel is for the charger of the reservation, which carries out one of them at most.
Cancelling(q, r) ==
    /\ place[r] \in {Nobody, rcall[q].at}
    /\ \A c \in Places : kept[c] = r => c = rcall[q].at /\ place[r] = c
    /\ rcall[q].answer = "accepted" =>
          /\ place[r] = rcall[q].at /\ kept[rcall[q].at] # r
          /\ \A p \in ReservationCalls : CancelsFor(p, r) /\ rcall[p].answer = "accepted" => p = q

\* Listed is kept, but for what is about to be listed or taken off the list.
ListedIsKept(r) ==
    (\A q \in ReservationCalls : /\ ~ReservesFor(q, r)
                                 /\ CancelsFor(q, r) => rcall[q].answer # "accepted")
    => \A c \in Places : place[r] = c <=> kept[c] = r

\* What holds of a reservation nothing went wrong with.
Sound(r) ==
    /\ OnePlace(r) /\ ListedIsKept(r)
    /\ \A q \in ReservationCalls : /\ ReservesFor(q, r) => Reserving(q, r)
                                   /\ CancelsFor(q, r) => Cancelling(q, r)

\* Only what was asked for is listed.
ListedWasAsked == \A r \in ReservationIds : place[r] # Nobody => r \in minted

RvInv ==
    /\ RvTypeOK /\ CallsOK /\ ListedWasAsked
    /\ \A x \in straying : x[2] \in unsure
    /\ keyErrors \subseteq unsure
    /\ \A r \in ReservationIds \ unsure : Sound(r)

LEMMA RvInvInit == RvInit => RvInv
  <1> SUFFICES ASSUME RvInit PROVE RvInv
    OBVIOUS
  <1> USE ReservationsAssumption DEF RvInit, NoRcall, Ids
  <1>1. RvTypeOK
    BY DEF RvTypeOK
  <1>2. CallsOK /\ ListedWasAsked
    BY DEF CallsOK, ListedWasAsked
  <1>3. ASSUME NEW r \in ReservationIds PROVE Sound(r)
    BY DEF Sound, OnePlace, ListedIsKept, ReservesFor, CancelsFor
  <1> QED
    BY <1>1, <1>2, <1>3 DEF RvInv

LEMMA NoRcallFields ==
    /\ NoRcall \in Requested
    /\ NoRcall.cmd = "none" /\ NoRcall.id = Nobody /\ NoRcall.by = Nobody /\ NoRcall.answer = "none"
  BY DEF NoRcall, Requested

\* What a step leaves alone about a reservation that is not its own.
Untouched(s) ==
    /\ place'[s] = place[s] /\ owner'[s] = owner[s]
    /\ s \in minted' <=> s \in minted
    /\ \A c \in Places : kept'[c] = s <=> kept[c] = s
    /\ \A p \in ReservationCalls : rcall[p].id = s \/ rcall'[p].id = s => rcall'[p] = rcall[p]

LEMMA UntouchedSound ==
    ASSUME RvInv, NEW s \in ReservationIds \ unsure, Untouched(s)
    PROVE  Sound(s)'
  <1> USE ReservationsAssumption DEF Untouched
  <1>0. Sound(s)
    BY DEF RvInv
  <1>1. OnePlace(s)'
    BY <1>0 DEF Sound, OnePlace
  <1>2. \A q \in ReservationCalls :
           /\ ReservesFor(q, s)' <=> ReservesFor(q, s)
           /\ CancelsFor(q, s)' <=> CancelsFor(q, s)
           /\ ReservesFor(q, s) \/ CancelsFor(q, s) => rcall'[q] = rcall[q]
    BY DEF ReservesFor, CancelsFor
  <1>3. ListedIsKept(s)'
    BY <1>0, <1>2 DEF Sound, ListedIsKept
  <1>4. ASSUME NEW q \in ReservationCalls, ReservesFor(q, s)' PROVE Reserving(q, s)'
    <2>1. Reserving(q, s) /\ rcall'[q] = rcall[q]
      BY <1>0, <1>2, <1>4 DEF Sound
    <2> QED
      BY <2>1 DEF Reserving
  <1>5. ASSUME NEW q \in ReservationCalls, CancelsFor(q, s)' PROVE Cancelling(q, s)'
    <2>1. Cancelling(q, s) /\ rcall'[q] = rcall[q]
      BY <1>0, <1>2, <1>5 DEF Sound
    <2>2. ASSUME NEW p \in ReservationCalls, CancelsFor(p, s)', rcall'[p].answer = "accepted"
          PROVE  CancelsFor(p, s) /\ rcall[p].answer = "accepted"
      BY <1>2, <2>2
    <2>3. \A c \in Places : kept'[c] = s <=> kept[c] = s
      OBVIOUS
    <2>4. rcall'[q].answer = "accepted" => kept'[rcall'[q].at] # s
      <3>1. rcall[q].at \in Places
        BY <1>5, <2>1 DEF RvInv, CallsOK, CancelsFor
      <3> QED
        BY <2>1, <2>3, <3>1 DEF Cancelling
    <2> QED
      BY <2>1, <2>2, <2>3, <2>4 DEF Cancelling
  <1> QED
    BY <1>1, <1>3, <1>4, <1>5 DEF Sound

\* A step that concerns reservation r: the others are sound if they were.
LEMMA RvStep ==
    ASSUME RvInv, NEW r, RvTypeOK', CallsOK', ListedWasAsked', \A x \in straying' : x[2] \in unsure', keyErrors' \subseteq unsure',
           unsure \subseteq unsure',
           \A s \in ReservationIds \ {r} : Untouched(s),
           r \in ReservationIds /\ r \notin unsure' => Sound(r)'
    PROVE  RvInv'
  <1>1. ASSUME NEW s \in ReservationIds, s \notin unsure' PROVE Sound(s)'
    <2>1. CASE s = r
      BY <1>1, <2>1
    <2>2. CASE s # r
      BY <1>1, <2>2, UntouchedSound
    <2> QED
      BY <2>1, <2>2
  <1> QED
    BY <1>1 DEF RvInv

\* What a command that goes out changes.
LEMMA Dispatched ==
    ASSUME RvInv, NEW q \in ReservationCalls, NEW cmd \in {"ReserveNow", "CancelReservation", "UnlockConnector"},
           NEW r \in Ids \cup {Nobody}, NEW d \in Drivers \cup {Nobody}, NEW c \in Places,
           DispatchCommand(q, cmd, r, d, c), minted \subseteq minted', minted' \subseteq minted \cup ({r} \ {Nobody}),
           cmd # "UnlockConnector" => r \in minted', cmd = "UnlockConnector" => r = Nobody,
           r \in ReservationIds <=> d # Nobody
    PROVE  /\ RvTypeOK' /\ CallsOK' /\ ListedWasAsked'
           /\ rcall[q].cmd = "none" /\ rcall[q].id = Nobody
           /\ \A p \in ReservationCalls \ {q} : rcall'[p] = rcall[p]
           /\ rcall'[q].cmd = cmd /\ rcall'[q].id = r
           /\ rcall'[q].at = c /\ rcall'[q].answer \in {"none", "refused"}
           /\ UNCHANGED <<owner, place, kept, straying, unsure, keyErrors>>
           /\ \A s \in ReservationIds \ {r} : Untouched(s)
  <1> USE ReservationsAssumption DEF Ids
  <1>1. PICK a \in {"none", "refused"} :
           rcall' = [rcall EXCEPT ![q] = [cmd |-> cmd, id |-> r, by |-> d, at |-> c, answer |-> a]]
    BY DEF DispatchCommand
  <1>2. [cmd |-> cmd, id |-> r, by |-> d, at |-> c, answer |-> a] \in Requested
    BY DEF Requested
  <1>3. rcall \in [ReservationCalls -> Requested] /\ RvTypeOK /\ CallsOK
    BY DEF RvInv, RvTypeOK, Requested
  <1>4. /\ rcall' \in [ReservationCalls -> Requested]
        /\ rcall[q].cmd = "none" /\ rcall[q].id = Nobody
        /\ \A p \in ReservationCalls \ {q} : rcall'[p] = rcall[p]
        /\ rcall'[q].cmd = cmd /\ rcall'[q].id = r /\ rcall'[q].by = d
        /\ rcall'[q].at = c /\ rcall'[q].answer \in {"none", "refused"}
        /\ UNCHANGED <<owner, place, kept, straying, unsure, keyErrors>>
    BY <1>1, <1>2, <1>3, NoRcallFields DEF DispatchCommand
  <1>5. RvTypeOK'
    BY <1>3, <1>4 DEF RvTypeOK, Requested
  <1>6. CallsOK' /\ ListedWasAsked'
    BY <1>3, <1>4 DEF RvInv, CallsOK, ListedWasAsked
  <1>7. \A s \in ReservationIds \ {r} : Untouched(s)
    BY <1>3, <1>4 DEF Untouched
  <1> QED
    BY <1>4, <1>5, <1>6, <1>7

LEMMA RvReserve ==
    ASSUME RvInv, NEW q \in ReservationCalls, NEW r \in ReservationIds, NEW d \in Drivers, NEW c \in Places, Reserve(q, r, d, c)
    PROVE  RvInv'
  <1> USE ReservationsAssumption DEF Ids
  <1>1. /\ RvTypeOK' /\ CallsOK' /\ ListedWasAsked'
        /\ rcall[q].cmd = "none" /\ rcall[q].id = Nobody
        /\ \A p \in ReservationCalls \ {q} : rcall'[p] = rcall[p]
        /\ rcall'[q].cmd = "ReserveNow" /\ rcall'[q].id = r
        /\ rcall'[q].at = c /\ rcall'[q].answer \in {"none", "refused"}
        /\ UNCHANGED <<owner, place, kept, straying, unsure, keyErrors>>
        /\ \A s \in ReservationIds \ {r} : Untouched(s)
    BY Dispatched DEF Reserve
  <1>2. r \notin minted /\ minted' = minted \cup {r}
    BY DEF Reserve
  <1>3. ASSUME r \notin unsure PROVE Sound(r)'
    <2>1. place[r] = Nobody /\ owner[r] = Nobody /\ \A e \in Places : kept[e] # r
      BY <1>2, <1>3 DEF RvInv, ListedWasAsked, Sound, OnePlace
    <2>2. \A p \in ReservationCalls : rcall'[p].id = r => p = q
      BY <1>1, <1>2 DEF RvInv, CallsOK, RvTypeOK
    <2>3. \A p \in ReservationCalls : ~CancelsFor(p, r)' /\ (ReservesFor(p, r)' => p = q)
      BY <1>1, <2>2 DEF CancelsFor, ReservesFor
    <2>4. Reserving(q, r)' /\ OnePlace(r)'
      BY <1>1, <1>2, <2>1, <2>2 DEF Reserving, OnePlace
    <2>5. ListedIsKept(r)'
      BY <1>1 DEF ListedIsKept, ReservesFor
    <2> QED
      BY <2>3, <2>4, <2>5 DEF Sound
  <1> QED
    BY <1>1, <1>3, RvStep DEF RvInv

LEMMA RvCancel ==
    ASSUME RvInv, NEW q \in ReservationCalls, NEW r \in ReservationIds, NEW d \in Drivers, Cancel(q, r, d)
    PROVE  RvInv'
  <1> USE ReservationsAssumption DEF Ids
  <1>0. place[r] \in Places /\ place[r] # Nobody /\ UNCHANGED minted /\ r \in minted
    BY DEF Cancel, MayCancel, RvInv, RvTypeOK, ListedWasAsked
  <1>1. /\ RvTypeOK' /\ CallsOK' /\ ListedWasAsked'
        /\ rcall[q].cmd = "none" /\ rcall[q].id = Nobody
        /\ \A p \in ReservationCalls \ {q} : rcall'[p] = rcall[p]
        /\ rcall'[q].cmd = "CancelReservation" /\ rcall'[q].id = r
        /\ rcall'[q].at = place[r] /\ rcall'[q].answer \in {"none", "refused"}
        /\ UNCHANGED <<owner, place, kept, straying, unsure, keyErrors>>
        /\ \A s \in ReservationIds \ {r} : Untouched(s)
    BY <1>0, Dispatched DEF Cancel
  <1>3. ASSUME r \notin unsure PROVE Sound(r)'
    <2>1. Sound(r)
      BY <1>3 DEF RvInv
    <2>2. \A p \in ReservationCalls : ~ReservesFor(p, r)
      BY <1>0, <2>1 DEF Sound, Reserving
    <2>3. \A p \in ReservationCalls : ~ReservesFor(p, r)' /\ (CancelsFor(p, r)' /\ p # q => CancelsFor(p, r))
      BY <1>1, <2>2 DEF CancelsFor, ReservesFor
    <2>4. OnePlace(r)'
      BY <1>0, <1>1, <2>1 DEF Sound, OnePlace
    <2>5. ListedIsKept(r)'
      BY <1>1, <2>1, <2>2 DEF Sound, ListedIsKept, ReservesFor, CancelsFor
    <2>6. ASSUME NEW p \in ReservationCalls \ {q}, CancelsFor(p, r)' PROVE Cancelling(p, r)'
      <3>1. Cancelling(p, r) /\ rcall'[p] = rcall[p]
        BY <1>1, <2>1, <2>3, <2>6 DEF Sound
      <3> QED
        BY <1>1, <3>1 DEF Cancelling, CancelsFor
    <2>7. Cancelling(q, r)'
      BY <1>0, <1>1, <2>1 DEF Sound, OnePlace, Cancelling
    <2> QED
      BY <2>3, <2>4, <2>5, <2>6, <2>7 DEF Sound
  <1> QED
    BY <1>1, <1>3, RvStep DEF RvInv

LEMMA RvPartner ==
    ASSUME RvInv, NEW q \in ReservationCalls, NEW c \in Places,
           \/ \E r \in PartnerIds : PartnerReserves(q, r, c) \/ PartnerCancels(q, r, c)
           \/ PartnerUnlocks(q, c)
    PROVE  RvInv'
  <1> USE ReservationsAssumption DEF Ids
  <1>1. ASSUME NEW r \in PartnerIds, PartnerReserves(q, r, c) PROVE RvInv'
    <2>1. /\ RvTypeOK' /\ CallsOK' /\ ListedWasAsked' /\ UNCHANGED <<straying, unsure, keyErrors>>
          /\ \A s \in ReservationIds \ {r} : Untouched(s)
      BY <1>1, Dispatched DEF PartnerReserves
    <2> QED
      BY <2>1, RvStep DEF RvInv
  <1>2. ASSUME NEW r \in PartnerIds, PartnerCancels(q, r, c) PROVE RvInv'
    <2>1. /\ RvTypeOK' /\ CallsOK' /\ ListedWasAsked' /\ UNCHANGED <<straying, unsure, keyErrors>>
          /\ \A s \in ReservationIds \ {r} : Untouched(s)
      BY <1>2, Dispatched DEF PartnerCancels
    <2> QED
      BY <2>1, RvStep DEF RvInv
  <1>3. CASE PartnerUnlocks(q, c)
    <2>1. /\ RvTypeOK' /\ CallsOK' /\ ListedWasAsked' /\ UNCHANGED <<straying, unsure, keyErrors>>
          /\ \A s \in ReservationIds \ {Nobody} : Untouched(s)
      BY <1>3, Dispatched DEF PartnerUnlocks
    <2> QED
      BY <2>1, RvStep DEF RvInv
  <1> QED
    BY <1>1, <1>2, <1>3

\* What an answer to a request changes.
LEMMA AnswerSet ==
    ASSUME RvInv, NEW q \in ReservationCalls, NEW a \in {"none", "accepted", "refused"},
           rcall[q].cmd # "none", rcall' = [rcall EXCEPT ![q].answer = a],
           UNCHANGED <<owner, place, minted>>
    PROVE  /\ rcall' \in [ReservationCalls -> Requested] /\ CallsOK' /\ ListedWasAsked'
           /\ \A p \in ReservationCalls \ {q} : rcall'[p] = rcall[p]
           /\ rcall'[q].cmd = rcall[q].cmd /\ rcall'[q].id = rcall[q].id
           /\ rcall'[q].at = rcall[q].at /\ rcall'[q].answer = a
           /\ rcall[q].at \in Places /\ rcall[q].id \in Ids \cup {Nobody}
  <1>1. rcall \in [ReservationCalls -> Requested] /\ CallsOK
    BY DEF RvInv, RvTypeOK, Requested
  <1>2. /\ rcall' \in [ReservationCalls -> Requested]
        /\ \A p \in ReservationCalls \ {q} : rcall'[p] = rcall[p]
        /\ rcall'[q].cmd = rcall[q].cmd /\ rcall'[q].id = rcall[q].id /\ rcall'[q].by = rcall[q].by
        /\ rcall'[q].at = rcall[q].at /\ rcall'[q].answer = a
    BY <1>1 DEF Requested
  <1>3. CallsOK' /\ ListedWasAsked'
    BY <1>1, <1>2 DEF RvInv, CallsOK, ListedWasAsked
  <1> QED
    BY <1>1, <1>2, <1>3 DEF CallsOK, Requested

\* A charger that carries a command out disturbs no other reservation.
LEMMA KeptByOthers ==
    ASSUME RvInv, NEW cmd \in {"ReserveNow", "CancelReservation", "UnlockConnector"}, NEW r \in Ids \cup {Nobody},
           NEW c \in Places, cmd # "UnlockConnector" => r \in Ids, CarriesOut(cmd, r, c), kept' = KeptAfter(cmd, r, c)
    PROVE  /\ kept' \in [Places -> Ids \cup {Nobody}]
           /\ \A s \in Ids \ {r}, e \in Places : kept'[e] = s <=> kept[e] = s
  BY ReservationsAssumption DEF CarriesOut, KeptAfter, RvInv, RvTypeOK, Ids

LEMMA RvCarriedOut ==
    ASSUME RvInv, NEW q \in ReservationCalls, rcall[q].cmd # "none", rcall[q].answer = "none",
           CarriesOut(rcall[q].cmd, rcall[q].id, rcall[q].at),
           kept' = KeptAfter(rcall[q].cmd, rcall[q].id, rcall[q].at),
           rcall' = [rcall EXCEPT ![q].answer = "accepted"],
           UNCHANGED <<owner, place, minted, straying, unsure, keyErrors>>
    PROVE  RvInv'
  <1> USE ReservationsAssumption DEF Ids
  <1>1. /\ rcall' \in [ReservationCalls -> Requested] /\ CallsOK' /\ ListedWasAsked'
        /\ \A p \in ReservationCalls \ {q} : rcall'[p] = rcall[p]
        /\ rcall'[q].cmd = rcall[q].cmd /\ rcall'[q].id = rcall[q].id
        /\ rcall'[q].at = rcall[q].at /\ rcall'[q].answer = "accepted"
        /\ rcall[q].at \in Places /\ rcall[q].id \in Ids \cup {Nobody}
    BY AnswerSet
  <1>2. /\ rcall[q].cmd \in {"ReserveNow", "CancelReservation", "UnlockConnector"}
        /\ rcall[q].cmd # "UnlockConnector" => rcall[q].id \in Ids
        /\ rcall[q].cmd = "UnlockConnector" => rcall[q].id = Nobody
        /\ rcall[q].id \in ReservationIds => rcall[q].id \in minted
    BY DEF RvInv, RvTypeOK, CallsOK
  <1>3. /\ kept' \in [Places -> Ids \cup {Nobody}]
        /\ \A s \in Ids \ {rcall[q].id}, e \in Places : kept'[e] = s <=> kept[e] = s
    BY <1>1, <1>2, KeptByOthers
  <1>4. RvTypeOK'
    BY <1>1, <1>3 DEF RvInv, RvTypeOK, Requested
  <1>5. \A s \in ReservationIds \ {rcall[q].id} : Untouched(s)
    BY <1>1, <1>3 DEF Untouched
  <1>6. ASSUME NEW r \in ReservationIds, r = rcall[q].id, r \notin unsure PROVE Sound(r)'
    <2>0. Sound(r) /\ r \in minted /\ r \in Ids /\ r # Nobody /\ kept \in [Places -> Ids \cup {Nobody}]
      BY <1>2, <1>6 DEF RvInv, RvTypeOK
    <2>1. CASE rcall[q].cmd = "ReserveNow"
      <3>1. /\ ReservesFor(q, r) /\ Reserving(q, r) /\ ReservesFor(q, r)'
            /\ kept' = [kept EXCEPT ![rcall[q].at] = r]
        BY <1>1, <1>6, <2>0, <2>1 DEF Sound, ReservesFor, KeptAfter
      <3>2. \A e \in Places : kept'[e] = r <=> e = rcall[q].at
        BY <1>1, <2>0, <3>1 DEF Reserving
      <3>3. \A p \in ReservationCalls : rcall'[p].id = r => p = q
        BY <1>1, <3>1 DEF Reserving
      <3>4. Reserving(q, r)' /\ OnePlace(r)'
        BY <1>1, <2>0, <3>1, <3>2, <3>3 DEF Reserving, OnePlace, Sound
      <3>5. ListedIsKept(r)'
        BY <3>1 DEF ListedIsKept
      <3>6. \A p \in ReservationCalls : ~CancelsFor(p, r)' /\ (ReservesFor(p, r)' => p = q)
        BY <1>1, <2>1, <3>3 DEF CancelsFor, ReservesFor
      <3> QED
        BY <3>4, <3>5, <3>6 DEF Sound
    <2>2. CASE rcall[q].cmd = "CancelReservation"
      <3>1. /\ CancelsFor(q, r) /\ Cancelling(q, r) /\ CancelsFor(q, r)'
            /\ kept[rcall[q].at] = r /\ kept' = [kept EXCEPT ![rcall[q].at] = Nobody]
        BY <1>1, <1>6, <2>0, <2>2 DEF Sound, CancelsFor, KeptAfter, CarriesOut
      <3>2. (\A e \in Places : kept'[e] # r) /\ place[r] = rcall[q].at
        BY <1>1, <2>0, <3>1 DEF Cancelling
      <3>3. \A p \in ReservationCalls : CancelsFor(p, r) => rcall[p].answer # "accepted" /\ rcall[p].at = rcall[q].at
        <4> SUFFICES ASSUME NEW p \in ReservationCalls, CancelsFor(p, r)
                     PROVE  rcall[p].answer # "accepted" /\ rcall[p].at = rcall[q].at
          OBVIOUS
        <4>1. Cancelling(p, r)
          BY <2>0 DEF Sound
        <4> QED
          BY <1>1, <3>1, <3>2, <4>1 DEF Cancelling
      <3>4. \A p \in ReservationCalls :
               /\ CancelsFor(p, r)' <=> CancelsFor(p, r)
               /\ ReservesFor(p, r)' <=> ReservesFor(p, r)
               /\ CancelsFor(p, r) /\ p # q => rcall'[p].answer # "accepted"
               /\ CancelsFor(p, r) => rcall'[p].at = rcall[q].at
        BY <1>1, <3>3 DEF CancelsFor, ReservesFor
      <3>5. \A p \in ReservationCalls : ~ReservesFor(p, r)'
        BY <1>1, <2>0, <3>1, <3>2, <3>4 DEF Sound, Reserving, RvInv, RvTypeOK
      <3>6. OnePlace(r)'
        BY <2>0, <3>2 DEF Sound, OnePlace
      <3>7. ListedIsKept(r)'
        BY <1>1, <3>1 DEF ListedIsKept
      <3>8. ASSUME NEW p \in ReservationCalls, CancelsFor(p, r)' PROVE Cancelling(p, r)'
        BY <1>1, <3>2, <3>4, <3>8 DEF Cancelling
      <3> QED
        BY <3>5, <3>6, <3>7, <3>8 DEF Sound
    <2> QED
      BY <1>2, <1>6, <2>1, <2>2
  <1> QED
    BY <1>1, <1>4, <1>5, <1>6, RvStep DEF RvInv

LEMMA RvRefused ==
    ASSUME RvInv, NEW q \in ReservationCalls, rcall[q].cmd # "none", rcall[q].answer = "none",
           rcall' = [rcall EXCEPT ![q].answer = "refused"],
           UNCHANGED <<kept, owner, place, minted, straying, unsure, keyErrors>>
    PROVE  RvInv'
  <1> USE ReservationsAssumption DEF Ids
  <1>1. /\ rcall' \in [ReservationCalls -> Requested] /\ CallsOK' /\ ListedWasAsked'
        /\ \A p \in ReservationCalls \ {q} : rcall'[p] = rcall[p]
        /\ rcall'[q].cmd = rcall[q].cmd /\ rcall'[q].id = rcall[q].id
        /\ rcall'[q].at = rcall[q].at /\ rcall'[q].answer = "refused"
        /\ rcall[q].at \in Places /\ rcall[q].id \in Ids \cup {Nobody}
    BY AnswerSet
  <1>2. RvTypeOK'
    BY <1>1 DEF RvInv, RvTypeOK, Requested
  <1>3. \A s \in ReservationIds \ {rcall[q].id} : Untouched(s)
    BY <1>1 DEF Untouched
  <1>4. ASSUME NEW r \in ReservationIds, r \notin unsure PROVE Sound(r)'
    <2>1. Sound(r)
      BY <1>4 DEF RvInv
    <2>2. \A p \in ReservationCalls :
             /\ CancelsFor(p, r)' <=> CancelsFor(p, r)
             /\ ReservesFor(p, r)' <=> ReservesFor(p, r)
             /\ rcall'[p].id = rcall[p].id /\ rcall'[p].at = rcall[p].at
             /\ rcall'[p].answer = "accepted" <=> rcall[p].answer = "accepted"
      BY <1>1 DEF CancelsFor, ReservesFor
    <2>3. OnePlace(r)' /\ ListedIsKept(r)'
      BY <2>1, <2>2 DEF Sound, OnePlace, ListedIsKept
    <2>4. ASSUME NEW p \in ReservationCalls, ReservesFor(p, r)' PROVE Reserving(p, r)'
      BY <2>1, <2>2, <2>4 DEF Sound, Reserving
    <2>5. ASSUME NEW p \in ReservationCalls, CancelsFor(p, r)' PROVE Cancelling(p, r)'
      BY <2>1, <2>2, <2>5 DEF Sound, Cancelling
    <2> QED
      BY <2>3, <2>4, <2>5 DEF Sound
  <1> QED
    BY <1>1, <1>2, <1>3, <1>4, RvStep DEF RvInv

LEMMA RvDeclined ==
    ASSUME RvInv, NEW q \in ReservationCalls, rcall[q].cmd # "none",
           rcall' = [rcall EXCEPT ![q].answer = "accepted"],
           unsure' = unsure \cup ({rcall[q].id} \ {Nobody}),
           UNCHANGED <<kept, owner, place, minted, straying, keyErrors>>
    PROVE  RvInv'
  <1> USE ReservationsAssumption DEF Ids
  <1>1. /\ rcall' \in [ReservationCalls -> Requested] /\ CallsOK' /\ ListedWasAsked'
        /\ \A p \in ReservationCalls \ {q} : rcall'[p] = rcall[p]
        /\ rcall'[q].id = rcall[q].id /\ rcall[q].id \in Ids \cup {Nobody}
    BY AnswerSet
  <1>2. RvTypeOK'
    BY <1>1 DEF RvInv, RvTypeOK, Requested
  <1>3. \A s \in ReservationIds \ {rcall[q].id} : Untouched(s)
    BY <1>1 DEF Untouched
  <1>4. rcall[q].id \in ReservationIds => rcall[q].id \in unsure'
    OBVIOUS
  <1> QED
    BY <1>1, <1>2, <1>3, <1>4, RvStep DEF RvInv

LEMMA RvTimesOut ==
    ASSUME RvInv, NEW q \in ReservationCalls, ReservationTimesOut(q)
    PROVE  RvInv'
  <1> USE ReservationsAssumption DEF Ids
  <1>1. /\ rcall' \in [ReservationCalls -> Requested] /\ CallsOK' /\ ListedWasAsked'
        /\ \A p \in ReservationCalls \ {q} : rcall'[p] = rcall[p]
        /\ rcall'[q].id = rcall[q].id /\ rcall[q].id \in Ids \cup {Nobody} /\ rcall[q].at \in Places
    BY AnswerSet DEF ReservationTimesOut
  <1>2. /\ unsure' = unsure \cup ({rcall[q].id} \ {Nobody})
        /\ UNCHANGED <<owner, place, minted, kept, keyErrors>>
        /\ \/ UNCHANGED straying
           \/ /\ rcall[q].cmd \in {"ReserveNow", "CancelReservation"} /\ rcall[q].id \in Ids
              /\ straying' = straying \cup {<<rcall[q].cmd, rcall[q].id, rcall[q].at>>}
    BY DEF ReservationTimesOut, RvInv, RvTypeOK, CallsOK
  <1>3. RvTypeOK'
    BY <1>1, <1>2 DEF RvInv, RvTypeOK, Requested
  <1>4. \A s \in ReservationIds \ {rcall[q].id} : Untouched(s)
    BY <1>1, <1>2 DEF Untouched
  <1>5. (\A x \in straying' : x[2] \in unsure') /\ keyErrors' \subseteq unsure' /\ unsure \subseteq unsure'
    BY <1>2 DEF RvInv
  <1>6. rcall[q].id \in ReservationIds => rcall[q].id \in unsure'
    BY <1>2
  <1> QED
    BY <1>1, <1>3, <1>4, <1>5, <1>6, RvStep

LEMMA RvLate ==
    ASSUME RvInv, NEW cmd \in {"ReserveNow", "CancelReservation"}, NEW r \in Ids, NEW c \in Places,
           CarriedOutLate(cmd, r, c)
    PROVE  RvInv'
  <1> USE ReservationsAssumption DEF Ids
  <1>1. /\ straying' \subseteq straying /\ r \in unsure /\ CarriesOut(cmd, r, c) /\ kept' = KeptAfter(cmd, r, c)
        /\ UNCHANGED <<owner, place, minted, rcall, unsure, keyErrors>>
    <2>1. <<cmd, r, c>> \in straying => <<cmd, r, c>>[2] \in unsure
      BY DEF RvInv
    <2> QED
      BY <2>1 DEF CarriedOutLate
  <1>2. /\ kept' \in [Places -> Ids \cup {Nobody}]
        /\ \A s \in Ids \ {r}, e \in Places : kept'[e] = s <=> kept[e] = s
    BY <1>1, KeptByOthers
  <1>3. RvTypeOK' /\ CallsOK' /\ ListedWasAsked'
    BY <1>1, <1>2 DEF RvInv, RvTypeOK, CallsOK, ListedWasAsked
  <1>4. \A s \in ReservationIds \ {r} : Untouched(s)
    BY <1>1, <1>2 DEF Untouched
  <1> QED
    BY <1>1, <1>3, <1>4, RvStep DEF RvInv

LEMMA RvExpires ==
    ASSUME RvInv, NEW c \in Places, Expires(c)
    PROVE  RvInv'
  <1> USE ReservationsAssumption DEF Ids
  <1>1. /\ kept[c] # Nobody /\ kept[c] \in Ids
        /\ unsure' = unsure \cup {kept[c]} /\ kept' = [kept EXCEPT ![c] = Nobody]
        /\ UNCHANGED <<owner, place, minted, rcall, straying, keyErrors>>
    BY DEF Expires, RvInv, RvTypeOK
  <1>2. RvTypeOK' /\ CallsOK' /\ ListedWasAsked'
    BY <1>1 DEF RvInv, RvTypeOK, CallsOK, ListedWasAsked
  <1>3. \A s \in ReservationIds \ {kept[c]} : Untouched(s)
    BY <1>1 DEF Untouched, RvInv, RvTypeOK
  <1> QED
    BY <1>1, <1>2, <1>3, RvStep DEF RvInv

LEMMA RequestEnds ==
    ASSUME RvInv, NEW q \in ReservationCalls, rcall' = [rcall EXCEPT ![q] = NoRcall], UNCHANGED minted
    PROVE  /\ rcall' \in [ReservationCalls -> Requested] /\ CallsOK'
           /\ \A p \in ReservationCalls \ {q} : rcall'[p] = rcall[p]
           /\ rcall'[q].cmd = "none" /\ rcall'[q].id = Nobody
  <1>1. rcall \in [ReservationCalls -> Requested] /\ CallsOK
    BY DEF RvInv, RvTypeOK, Requested
  <1>2. /\ rcall' \in [ReservationCalls -> Requested]
        /\ \A p \in ReservationCalls \ {q} : rcall'[p] = rcall[p]
        /\ rcall'[q].cmd = "none" /\ rcall'[q].id = Nobody /\ rcall'[q].by = Nobody
    BY <1>1, NoRcallFields
  <1>3. CallsOK'
    BY ReservationsAssumption, <1>1, <1>2 DEF CallsOK
  <1> QED
    BY <1>2, <1>3

LEMMA RvQuiet ==
    ASSUME RvInv, NEW q \in ReservationCalls, rcall' = [rcall EXCEPT ![q] = NoRcall],
           rcall[q].id \notin ReservationIds \/ rcall[q].answer = "refused",
           UNCHANGED <<owner, place, minted, kept, straying, unsure, keyErrors>>
    PROVE  RvInv'
  <1> USE ReservationsAssumption DEF Ids
  <1>1. /\ rcall' \in [ReservationCalls -> Requested] /\ CallsOK'
        /\ \A p \in ReservationCalls \ {q} : rcall'[p] = rcall[p]
        /\ rcall'[q].cmd = "none" /\ rcall'[q].id = Nobody
    BY RequestEnds
  <1>2. RvTypeOK' /\ ListedWasAsked'
    BY <1>1 DEF RvInv, RvTypeOK, Requested, ListedWasAsked
  <1>3. \A s \in ReservationIds \ {rcall[q].id} : Untouched(s)
    BY <1>1 DEF Untouched
  <1>4. ASSUME NEW r \in ReservationIds, r = rcall[q].id, r \notin unsure PROVE Sound(r)'
    <2>1. Sound(r) /\ rcall[q].answer = "refused" /\ r # Nobody
      BY <1>4 DEF RvInv
    <2>2. \A p \in ReservationCalls :
             /\ CancelsFor(p, r)' => p # q /\ CancelsFor(p, r)
             /\ ReservesFor(p, r)' => p # q /\ ReservesFor(p, r)
             /\ rcall'[p].id = r => p # q /\ rcall[p].id = r
             /\ p # q => rcall'[p] = rcall[p]
      BY <1>1, <2>1 DEF CancelsFor, ReservesFor
    <2>3. \A p \in ReservationCalls : ~ReservesFor(p, r)'
      BY <1>4, <2>1, <2>2 DEF Sound, Reserving
    <2>4. OnePlace(r)'
      BY <2>1 DEF Sound, OnePlace
    <2>5. ListedIsKept(r)'
      <3> SUFFICES ASSUME \A p \in ReservationCalls : CancelsFor(p, r)' => rcall'[p].answer # "accepted",
                          NEW c \in Places
                   PROVE  place[r] = c <=> kept[c] = r
        BY DEF ListedIsKept
      <3>1. CASE ReservesFor(q, r)
        <4>1. Reserving(q, r)
          BY <2>1, <3>1 DEF Sound
        <4> QED
          BY <2>1, <4>1 DEF Reserving
      <3>2. CASE ~ReservesFor(q, r)
        <4>1. \A p \in ReservationCalls : ~ReservesFor(p, r) /\ (CancelsFor(p, r) => rcall[p].answer # "accepted")
          BY <1>1, <2>1, <2>2, <2>3, <3>2 DEF ReservesFor, CancelsFor
        <4> QED
          BY <2>1, <4>1 DEF Sound, ListedIsKept
      <3> QED
        BY <3>1, <3>2
    <2>6. ASSUME NEW p \in ReservationCalls, CancelsFor(p, r)' PROVE Cancelling(p, r)'
      <3>1. Cancelling(p, r) /\ p # q
        BY <2>1, <2>2, <2>6 DEF Sound
      <3> QED
        BY <2>2, <3>1 DEF Cancelling
    <2> QED
      BY <2>3, <2>4, <2>5, <2>6 DEF Sound
  <1> QED
    BY <1>1, <1>2, <1>3, <1>4, RvStep DEF RvInv

LEMMA RvListed ==
    ASSUME RvInv, NEW q \in ReservationCalls, FinishReserve(q), Confirmed(q)
    PROVE  RvInv'
  <1> USE ReservationsAssumption DEF Ids
  <1>0. /\ rcall[q].id \in ReservationIds \cap minted /\ ReservesFor(q, rcall[q].id)
        /\ rcall[q].at \in Places /\ rcall[q].by \in Drivers /\ rcall[q].answer = "accepted"
        /\ owner' = [owner EXCEPT ![rcall[q].id] = rcall[q].by]
        /\ place' = [place EXCEPT ![rcall[q].id] = rcall[q].at]
        /\ UNCHANGED <<minted, kept, straying, unsure, keyErrors>>
    BY DEF FinishReserve, Confirmed, RvInv, CallsOK, ReservesFor, RvTypeOK
  <1>1. /\ rcall' \in [ReservationCalls -> Requested] /\ CallsOK'
        /\ \A p \in ReservationCalls \ {q} : rcall'[p] = rcall[p]
        /\ rcall'[q].cmd = "none" /\ rcall'[q].id = Nobody
    BY RequestEnds DEF FinishReserve
  <1>2. RvTypeOK' /\ ListedWasAsked'
    BY <1>0, <1>1 DEF RvInv, RvTypeOK, Requested, ListedWasAsked
  <1>3. \A s \in ReservationIds \ {rcall[q].id} : Untouched(s)
    BY <1>0, <1>1 DEF Untouched, RvInv, RvTypeOK
  <1>4. ASSUME NEW r \in ReservationIds, r = rcall[q].id, r \notin unsure PROVE Sound(r)'
    <2>1. Sound(r) /\ Reserving(q, r) /\ place'[r] = rcall[q].at /\ owner'[r] # Nobody /\ r # Nobody
      BY <1>0, <1>4 DEF RvInv, RvTypeOK, Sound
    <2>2. \A p \in ReservationCalls : rcall'[p].id # r
      BY <1>1, <2>1 DEF Reserving
    <2>3. \A c \in Places : kept'[c] = r <=> place'[r] = c
      BY <1>0, <2>1 DEF Reserving
    <2>4. OnePlace(r)' /\ ListedIsKept(r)'
      BY <1>0, <1>4, <2>1, <2>3 DEF OnePlace, ListedIsKept
    <2> QED
      BY <2>2, <2>4 DEF Sound, ReservesFor, CancelsFor
  <1> QED
    BY <1>0, <1>1, <1>2, <1>3, <1>4, RvStep DEF RvInv

LEMMA RvUnlisted ==
    ASSUME RvInv, NEW q \in ReservationCalls, FinishCancel(q), Cancelled(q)
    PROVE  RvInv'
  <1> USE ReservationsAssumption DEF Ids
  <1>0. /\ rcall[q].id \in ReservationIds \cap minted /\ CancelsFor(q, rcall[q].id)
        /\ rcall[q].at \in Places /\ rcall[q].answer = "accepted"
        /\ owner' = [owner EXCEPT ![rcall[q].id] = Nobody]
        /\ place' = [place EXCEPT ![rcall[q].id] = Nobody]
        /\ keyErrors' = IF place[rcall[q].id] = Nobody THEN keyErrors \cup {rcall[q].id} ELSE keyErrors
        /\ UNCHANGED <<minted, kept, straying, unsure>>
    BY DEF FinishCancel, Cancelled, RvInv, CallsOK, CancelsFor, RvTypeOK
  <1>1. /\ rcall' \in [ReservationCalls -> Requested] /\ CallsOK'
        /\ \A p \in ReservationCalls \ {q} : rcall'[p] = rcall[p]
        /\ rcall'[q].cmd = "none" /\ rcall'[q].id = Nobody
    BY RequestEnds DEF FinishCancel
  <1>2. RvTypeOK' /\ ListedWasAsked'
    BY <1>0, <1>1 DEF RvInv, RvTypeOK, Requested, ListedWasAsked
  <1>3. \A s \in ReservationIds \ {rcall[q].id} : Untouched(s)
    BY <1>0, <1>1 DEF Untouched, RvInv, RvTypeOK
  <1>4. ASSUME NEW r \in ReservationIds, r = rcall[q].id, r \notin unsure
        PROVE  Sound(r)' /\ place[r] = rcall[q].at
    <2>1. Sound(r) /\ Cancelling(q, r) /\ place'[r] = Nobody /\ owner'[r] = Nobody /\ r # Nobody
      BY <1>0, <1>4 DEF RvInv, RvTypeOK, Sound
    <2>2. place[r] = rcall[q].at /\ \A c \in Places : kept'[c] # r
      BY <1>0, <2>1 DEF Cancelling
    <2>3. \A p \in ReservationCalls :
             /\ ~ReservesFor(p, r)'
             /\ CancelsFor(p, r)' => rcall'[p].answer # "accepted"
      <3> SUFFICES ASSUME NEW p \in ReservationCalls
                   PROVE  ~ReservesFor(p, r)' /\ (CancelsFor(p, r)' => rcall'[p].answer # "accepted")
        OBVIOUS
      <3>1. CASE p = q
        BY <1>1, <3>1 DEF ReservesFor, CancelsFor
      <3>2. CASE p # q
        <4>1. rcall'[p] = rcall[p]
          BY <1>1, <3>2
        <4>2. ~ReservesFor(p, r)
          BY <1>0, <1>4, <2>1, <3>2 DEF Sound, Reserving
        <4>3. CancelsFor(p, r) => rcall[p].answer # "accepted"
          BY <1>0, <2>1, <3>2 DEF Cancelling
        <4> QED
          BY <4>1, <4>2, <4>3 DEF ReservesFor, CancelsFor
      <3> QED
        BY <3>1, <3>2
    <2>4. OnePlace(r)' /\ ListedIsKept(r)'
      BY <2>1, <2>2 DEF OnePlace, ListedIsKept
    <2>5. ASSUME NEW p \in ReservationCalls, CancelsFor(p, r)' PROVE Cancelling(p, r)'
      BY <2>1, <2>2, <2>3, <2>5 DEF Cancelling
    <2> QED
      BY <2>2, <2>3, <2>4, <2>5 DEF Sound
  <1>5. keyErrors' \subseteq unsure'
    BY <1>0, <1>4 DEF RvInv
  <1> QED
    BY <1>0, <1>1, <1>2, <1>3, <1>4, <1>5, RvStep DEF RvInv

LEMMA RvInvNext == RvInv /\ [RvNext]_rvVars => RvInv'
  <1> SUFFICES ASSUME RvInv, [RvNext]_rvVars PROVE RvInv'
    OBVIOUS
  <1>1. ASSUME NEW q \in ReservationCalls, ReservationAnswered(q) PROVE RvInv'
    BY <1>1, RvCarriedOut, RvDeclined, RvRefused DEF ReservationAnswered
  <1>2. ASSUME NEW q \in ReservationCalls, FinishReserve(q) \/ FinishCancel(q) \/ FinishPartner(q)
        PROVE  RvInv'
    <2>1. CASE rcall[q].answer = "accepted" /\ FinishReserve(q)
      BY <2>1, RvListed DEF Confirmed
    <2>2. CASE rcall[q].answer = "accepted" /\ FinishCancel(q)
      BY <2>2, RvUnlisted DEF Cancelled
    <2>3. CASE rcall[q].answer = "refused" /\ (FinishReserve(q) \/ FinishCancel(q))
      <3>1. rcall' = [rcall EXCEPT ![q] = NoRcall] /\ UNCHANGED <<owner, place, minted, kept, straying, unsure, keyErrors>>
        BY <2>3 DEF FinishReserve, FinishCancel, Confirmed, Cancelled
      <3> QED
        BY <2>3, <3>1, RvQuiet
    <2>4. CASE FinishPartner(q)
      BY <2>4, RvQuiet DEF FinishPartner, RvInv, CallsOK
    <2>5. rcall[q].answer \in {"none", "accepted", "refused"}
      BY DEF RvInv, RvTypeOK
    <2> QED
      BY <1>2, <2>1, <2>2, <2>3, <2>4, <2>5 DEF FinishReserve, FinishCancel
  <1>3. CASE UNCHANGED rvVars
    BY <1>3 DEF rvVars, RvInv, RvTypeOK, CallsOK, ListedWasAsked, Sound, OnePlace, Reserving,
                Cancelling, ListedIsKept, ReservesFor, CancelsFor
  <1> QED
    BY <1>1, <1>2, <1>3, RvReserve, RvCancel, RvPartner, RvTimesOut, RvLate, RvExpires DEF RvNext

(* ListAgreesWithChargers: whatever requests of drivers and partners overlap,  *)
(* a reservation that is not being worked on, and that no charger declined, let *)
(* expire or answered too late for, is listed exactly if its charger keeps it;  *)
(* and only for the others can a cancel delete a key that is gone               *)
(* (DriverReservationService.reserve and cancel).                               *)
THEOREM ListAgreesWithChargers == RvSpec => []ReservationsAgree
  <1>1. RvInv => ReservationsAgree
    <2> SUFFICES ASSUME RvInv, NEW r \in ReservationIds \ unsure, \A q \in ReservationCalls : rcall[q].id # r
                 PROVE  /\ place[r] # Nobody <=> owner[r] # Nobody
                        /\ \A c \in Places : place[r] = c <=> kept[c] = r
      BY DEF RvInv, ReservationsAgree
    <2> QED
      BY DEF RvInv, Sound, OnePlace, ListedIsKept, ReservesFor, CancelsFor
  <1> QED
    BY RvInvInit, RvInvNext, <1>1, PTL DEF RvSpec

(***************************************************************************)
(* SmartCharging                                                           *)
(***************************************************************************)

ProfileCallRecords ==
    [cmd: {"none", "start", "stop", "profile"}, charger: Locations \cup {NoOne},
     session: RoamingSessions \cup {NoOne}, limit: Watts \cup {NoOne},
     answer: {"none", "accepted", "refused"}, crossed: BOOLEAN]

\* A call goes to a charger, and a profile is for a session that is bound.
PcallsOK ==
    \A q \in ProfileCalls :
        /\ pcall[q].cmd # "none" => pcall[q].charger \in Locations
        /\ pcall[q].cmd = "profile" => /\ pcall[q].session \in RoamingSessions /\ Bound(pcall[q].session)
                                       /\ pcall[q].limit \in Watts

\* A request that nothing crossed is the only one at its charger, which applies what
\* it accepted.
UncrossedOK ==
    \A q \in ProfileCalls : pcall[q].cmd = "profile" /\ ~pcall[q].crossed =>
        /\ ProfileRequests(pcall[q].charger) = {q}
        /\ pcall[q].answer = "accepted" => applied[pcall[q].charger] = pcall[q].limit

\* Until a further request is accepted, the charger applies what is stored for the
\* session that was set last.
StoredIsApplied ==
    \A c \in Locations :
        /\ lastSet[c] # NoOne
        /\ \A q \in ProfileRequests(c) : pcall[q].answer # "accepted"
        => Bound(lastSet[c]) /\ active[lastSet[c]] = applied[c]

\* A preference on record is a session's that is bound, and can be planned for.
PreferencesOK ==
    \A s \in RoamingSessions : preferred[s] # NoOne =>
        /\ Bound(s)
        /\ preferred[s].departure \/ preferred[s].type = "FAST"
        /\ preferred[s].type = "CHEAP" => preferred[s].energy

ScInv == ScTypeOK /\ PcallsOK /\ UncrossedOK /\ StoredIsApplied /\ PreferencesOK

LEMMA ScInvInit == ScInit => ScInv
  <1> SUFFICES ASSUME ScInit PROVE ScInv
    OBVIOUS
  <1> USE SmartChargingAssumption DEF ScInit, NoPcall
  <1>1. ScTypeOK
    BY DEF ScTypeOK
  <1>2. PcallsOK /\ UncrossedOK /\ StoredIsApplied /\ PreferencesOK
    BY DEF PcallsOK, UncrossedOK, StoredIsApplied, PreferencesOK
  <1> QED
    BY <1>1, <1>2 DEF ScInv

LEMMA NoPcallFields ==
    NoPcall \in ProfileCallRecords /\ NoPcall.cmd = "none"
  BY DEF NoPcall, ProfileCallRecords

LEMMA PcallCrossed ==
    ASSUME NEW r \in ProfileCallRecords
    PROVE  /\ [r EXCEPT !.crossed = TRUE] \in ProfileCallRecords
           /\ [r EXCEPT !.crossed = TRUE].cmd = r.cmd /\ [r EXCEPT !.crossed = TRUE].charger = r.charger
           /\ [r EXCEPT !.crossed = TRUE].session = r.session /\ [r EXCEPT !.crossed = TRUE].limit = r.limit
           /\ [r EXCEPT !.crossed = TRUE].answer = r.answer /\ [r EXCEPT !.crossed = TRUE].crossed
  BY DEF ProfileCallRecords

\* A command on its way to charger c: nothing moves but the calls, and of those a
\* profile request crosses the ones its charger has not finished with.
Sent(q, cmd, c, s, w) ==
    /\ pcall' \in [ProfileCalls -> ProfileCallRecords]
    /\ pcall[q].cmd = "none"
    /\ pcall'[q].cmd = cmd /\ pcall'[q].charger = c /\ pcall'[q].session = s /\ pcall'[q].limit = w
    /\ pcall'[q].answer # "accepted"
    /\ cmd = "profile" /\ ~pcall'[q].crossed => ProfileRequests(c) = {}
    /\ \A k \in ProfileCalls \ {q} :
          /\ pcall'[k].cmd = pcall[k].cmd /\ pcall'[k].charger = pcall[k].charger
          /\ pcall'[k].session = pcall[k].session /\ pcall'[k].limit = pcall[k].limit
          /\ pcall'[k].answer = pcall[k].answer
          /\ ~pcall'[k].crossed => ~pcall[k].crossed /\ (cmd = "profile" => k \notin ProfileRequests(c))
    /\ UNCHANGED <<binding, active, preferred, charging, applied, overdue, lastSet>>

LEMMA CallSends ==
    ASSUME ScInv, NEW q \in ProfileCalls, NEW cmd \in {"start", "stop", "profile"}, NEW c \in Locations,
           NEW s \in RoamingSessions \cup {NoOne}, NEW w \in Watts \cup {NoOne}, Call(q, cmd, c, s, w)
    PROVE  Sent(q, cmd, c, s, w)
  <1>1. PICK a \in {"none", "refused"} :
           pcall' = Crossed([pcall EXCEPT ![q] =
                       [cmd |-> cmd, charger |-> c, session |-> s, limit |-> w, answer |-> a,
                        crossed |-> cmd = "profile" /\ ProfileRequests(c) # {}]],
                       IF cmd = "profile" THEN c ELSE NoOne)
    BY DEF Call
  <1> DEFINE new == [cmd |-> cmd, charger |-> c, session |-> s, limit |-> w, answer |-> a,
                     crossed |-> cmd = "profile" /\ ProfileRequests(c) # {}]
             at == IF cmd = "profile" THEN c ELSE NoOne
  <1>2. pcall \in [ProfileCalls -> ProfileCallRecords] /\ pcall[q].cmd = "none"
    BY NoPcallFields DEF ScInv, ScTypeOK, ProfileCallRecords, Call
  <1>3. (cmd = "profile" /\ ProfileRequests(c) # {}) \in BOOLEAN
    OBVIOUS
  <1>4. new \in ProfileCallRecords
    BY <1>3 DEF ProfileCallRecords
  <1>5. q \notin ProfileRequests(at)
    BY <1>2 DEF ProfileRequests
  <1>6. pcall'[q] = new
    BY <1>1, <1>2, <1>5 DEF Crossed
  <1>7. \A k \in ProfileCalls \ {q} :
           pcall'[k] = IF k \in ProfileRequests(at) THEN [pcall[k] EXCEPT !.crossed = TRUE] ELSE pcall[k]
    BY <1>1, <1>2 DEF Crossed
  <1>8. pcall' \in [ProfileCalls -> ProfileCallRecords]
    <2>1. \A k \in ProfileCalls : pcall'[k] \in ProfileCallRecords
      <3> SUFFICES ASSUME NEW k \in ProfileCalls PROVE pcall'[k] \in ProfileCallRecords
        OBVIOUS
      <3>1. CASE k = q
        BY <1>4, <1>6, <3>1
      <3>2. CASE k # q
        BY <1>2, <1>7, <3>2, PcallCrossed
      <3> QED
        BY <3>1, <3>2
    <2>2. pcall' = [k \in ProfileCalls |-> pcall'[k]]
      BY <1>1 DEF Crossed
    <2> QED
      BY <2>1, <2>2
  <1>9. \A k \in ProfileCalls \ {q} :
          /\ pcall'[k].cmd = pcall[k].cmd /\ pcall'[k].charger = pcall[k].charger
          /\ pcall'[k].session = pcall[k].session /\ pcall'[k].limit = pcall[k].limit
          /\ pcall'[k].answer = pcall[k].answer
          /\ ~pcall'[k].crossed => ~pcall[k].crossed /\ (cmd = "profile" => k \notin ProfileRequests(c))
    <2> SUFFICES ASSUME NEW k \in ProfileCalls \ {q}
                 PROVE  /\ pcall'[k].cmd = pcall[k].cmd /\ pcall'[k].charger = pcall[k].charger
                        /\ pcall'[k].session = pcall[k].session /\ pcall'[k].limit = pcall[k].limit
                        /\ pcall'[k].answer = pcall[k].answer
                        /\ ~pcall'[k].crossed => ~pcall[k].crossed /\ (cmd = "profile" => k \notin ProfileRequests(c))
      OBVIOUS
    <2>1. CASE k \in ProfileRequests(at)
      <3>1. pcall'[k] = [pcall[k] EXCEPT !.crossed = TRUE] /\ pcall[k] \in ProfileCallRecords
        BY <1>2, <1>7, <2>1
      <3> QED
        BY <3>1, PcallCrossed
    <2>2. CASE k \notin ProfileRequests(at)
      BY <1>7, <2>2
    <2> QED
      BY <2>1, <2>2
  <1>10. /\ pcall'[q].cmd = cmd /\ pcall'[q].charger = c /\ pcall'[q].session = s /\ pcall'[q].limit = w
         /\ pcall'[q].answer # "accepted"
         /\ cmd = "profile" /\ ~pcall'[q].crossed => ProfileRequests(c) = {}
    <2>1. pcall'[q].crossed = (cmd = "profile" /\ ProfileRequests(c) # {})
      BY <1>6
    <2>2. cmd = "profile" /\ ~pcall'[q].crossed => ProfileRequests(c) = {}
      BY <2>1
    <2>3. /\ pcall'[q].cmd = cmd /\ pcall'[q].charger = c /\ pcall'[q].session = s /\ pcall'[q].limit = w
          /\ pcall'[q].answer # "accepted"
      BY <1>6
    <2> QED
      BY <2>2, <2>3
  <1> QED
    BY <1>2, <1>8, <1>9, <1>10 DEF Sent, Call

LEMMA ScStart ==
    ASSUME ScInv, NEW q \in ProfileCalls, NEW c \in Locations, StartSession(q, c)
    PROVE  ScInv'
  <1> USE SmartChargingAssumption DEF ScInv
  <1>a. Sent(q, "start", c, NoOne, NoOne)
    BY CallSends DEF StartSession, ScTypeOK
  <1>1. ScTypeOK'
    BY <1>a DEF Sent, ScTypeOK, ProfileCallRecords
  <1>2. PcallsOK'
    BY <1>a DEF Sent, ScTypeOK, ProfileCallRecords, PcallsOK, Bound
  <1>3. UncrossedOK'
    <2>1. \A k \in ProfileCalls : pcall'[k].cmd = "profile" =>
             /\ k # q /\ pcall[k].cmd = "profile" /\ pcall'[k].charger = pcall[k].charger
             /\ pcall'[k].limit = pcall[k].limit /\ pcall'[k].answer = pcall[k].answer
             /\ ~pcall'[k].crossed => ~pcall[k].crossed
      BY <1>a DEF Sent
    <2>2. \A d : ProfileRequests(d)' = ProfileRequests(d)
      BY <1>a DEF Sent, ProfileRequests
    <2> QED
      BY <1>a, <2>1, <2>2 DEF Sent, UncrossedOK
  <1>4. StoredIsApplied'
    <2> SUFFICES ASSUME NEW d \in Locations, lastSet[d] # NoOne,
                        \A k \in ProfileRequests(d)' : pcall'[k].answer # "accepted"
                 PROVE  Bound(lastSet[d]) /\ active[lastSet[d]] = applied[d]
      BY <1>a DEF Sent, StoredIsApplied, Bound, Sent
    <2>1. \A k \in ProfileRequests(d) : k # q /\ k \in ProfileRequests(d)' /\ pcall[k].answer = pcall'[k].answer
      BY <1>a DEF Sent, ProfileRequests, Sent
    <2> QED
      BY <2>1 DEF StoredIsApplied
  <1>5. PreferencesOK'
    BY <1>a DEF Sent, ScTypeOK, ProfileCallRecords, PreferencesOK, Bound
  <1> QED
    BY <1>1, <1>2, <1>3, <1>4, <1>5 DEF ScInv

LEMMA ScStop ==
    ASSUME ScInv, NEW q \in ProfileCalls, NEW s \in RoamingSessions, StopSession(q, s)
    PROVE  ScInv'
  <1> USE SmartChargingAssumption DEF ScInv
  <1>b. binding[s] \in Locations /\ Bound(s)
    BY DEF StopSession, Bound, ScTypeOK
  <1>a. Sent(q, "stop", binding[s], s, NoOne)
    BY <1>b, CallSends DEF StopSession, ScTypeOK
  <1>1. ScTypeOK'
    BY <1>b, <1>a DEF Sent, ScTypeOK, ProfileCallRecords
  <1>2. PcallsOK'
    BY <1>b, <1>a DEF Sent, ScTypeOK, ProfileCallRecords, PcallsOK, Bound
  <1>3. UncrossedOK'
    <2>1. \A k \in ProfileCalls : pcall'[k].cmd = "profile" =>
             /\ k # q /\ pcall[k].cmd = "profile" /\ pcall'[k].charger = pcall[k].charger
             /\ pcall'[k].limit = pcall[k].limit /\ pcall'[k].answer = pcall[k].answer
             /\ ~pcall'[k].crossed => ~pcall[k].crossed
      BY <1>a DEF Sent
    <2>2. \A d : ProfileRequests(d)' = ProfileRequests(d)
      BY <1>a DEF Sent, ProfileRequests
    <2> QED
      BY <1>a, <2>1, <2>2 DEF Sent, UncrossedOK
  <1>4. StoredIsApplied'
    <2> SUFFICES ASSUME NEW d \in Locations, lastSet[d] # NoOne,
                        \A k \in ProfileRequests(d)' : pcall'[k].answer # "accepted"
                 PROVE  Bound(lastSet[d]) /\ active[lastSet[d]] = applied[d]
      BY <1>a DEF StoredIsApplied, Bound, Sent
    <2>1. \A k \in ProfileRequests(d) : k # q /\ k \in ProfileRequests(d)' /\ pcall[k].answer = pcall'[k].answer
      BY <1>a DEF ProfileRequests, Sent
    <2> QED
      BY <2>1 DEF StoredIsApplied
  <1>5. PreferencesOK'
    BY <1>b, <1>a DEF Sent, ScTypeOK, ProfileCallRecords, PreferencesOK, Bound
  <1> QED
    BY <1>1, <1>2, <1>3, <1>4, <1>5 DEF ScInv

LEMMA ScSetProfile ==
    ASSUME ScInv, NEW q \in ProfileCalls, NEW s \in RoamingSessions, NEW w \in Watts, SetChargingProfile(q, s, w)
    PROVE  ScInv'
  <1> USE SmartChargingAssumption DEF ScInv
  <1>b. binding[s] \in Locations /\ Bound(s)
    BY DEF SetChargingProfile, Bound, ScTypeOK
  <1>a. Sent(q, "profile", binding[s], s, w)
    BY <1>b, CallSends DEF SetChargingProfile, ScTypeOK
  <1>1. ScTypeOK'
    BY <1>b, <1>a DEF Sent, ScTypeOK, ProfileCallRecords
  <1>2. PcallsOK'
    BY <1>b, <1>a DEF Sent, ScTypeOK, ProfileCallRecords, PcallsOK, Bound
  <1>3. UncrossedOK'
    <2> SUFFICES ASSUME NEW k \in ProfileCalls, pcall'[k].cmd = "profile", ~pcall'[k].crossed
                 PROVE  /\ ProfileRequests(pcall[k].charger)' = {k}
                        /\ pcall'[k].answer = "accepted" => applied[pcall'[k].charger] = pcall'[k].limit
      BY <1>a DEF UncrossedOK, Sent
    <2>1. CASE k = q
      BY <2>1, <1>a DEF Sent, ProfileRequests
    <2>2. CASE k # q
      <3>1. /\ pcall[k].cmd = "profile" /\ ~pcall[k].crossed /\ pcall'[k].charger = pcall[k].charger
            /\ pcall[k].charger # binding[s]
        BY <1>a, <2>2 DEF Sent, ProfileRequests
      <3>2. ProfileRequests(pcall[k].charger) = {k}
        BY <3>1 DEF UncrossedOK
      <3>3. ProfileRequests(pcall[k].charger)' = {k}
        BY <1>a, <2>2, <3>1, <3>2 DEF Sent, ProfileRequests
      <3> QED
        BY <1>a, <2>2, <3>1, <3>3 DEF Sent, UncrossedOK
    <2> QED
      BY <2>1, <2>2
  <1>4. StoredIsApplied'
    <2> SUFFICES ASSUME NEW d \in Locations, lastSet[d] # NoOne,
                        \A k \in ProfileRequests(d)' : pcall'[k].answer # "accepted"
                 PROVE  Bound(lastSet[d]) /\ active[lastSet[d]] = applied[d]
      BY <1>a DEF StoredIsApplied, Bound, Sent
    <2>1. \A k \in ProfileRequests(d) : k # q /\ k \in ProfileRequests(d)' /\ pcall[k].answer = pcall'[k].answer
      BY <1>a DEF ProfileRequests, Sent
    <2> QED
      BY <2>1 DEF StoredIsApplied
  <1>5. PreferencesOK'
    BY <1>b, <1>a DEF Sent, ScTypeOK, ProfileCallRecords, PreferencesOK, Bound
  <1> QED
    BY <1>1, <1>2, <1>3, <1>4, <1>5 DEF ScInv

LEMMA PcallAnswered ==
    ASSUME ScInv, NEW q \in ProfileCalls, NEW a \in {"none", "accepted", "refused"},
           pcall' = [pcall EXCEPT ![q].answer = a]
    PROVE  /\ pcall' \in [ProfileCalls -> ProfileCallRecords]
           /\ \A k \in ProfileCalls \ {q} : pcall'[k] = pcall[k]
           /\ pcall'[q].cmd = pcall[q].cmd /\ pcall'[q].charger = pcall[q].charger
           /\ pcall'[q].session = pcall[q].session /\ pcall'[q].limit = pcall[q].limit
           /\ pcall'[q].answer = a /\ pcall'[q].crossed = pcall[q].crossed
  BY DEF ScInv, ScTypeOK, ProfileCallRecords

LEMMA PcallEnds ==
    ASSUME ScInv, NEW q \in ProfileCalls, pcall' = [pcall EXCEPT ![q] = NoPcall]
    PROVE  /\ pcall' \in [ProfileCalls -> ProfileCallRecords]
           /\ \A k \in ProfileCalls \ {q} : pcall'[k] = pcall[k]
           /\ pcall'[q].cmd = "none"
  <1>1. pcall \in [ProfileCalls -> ProfileCallRecords]
    BY DEF ScInv, ScTypeOK, ProfileCallRecords
  <1> QED
    BY <1>1, NoPcallFields

LEMMA ScAccepted ==
    ASSUME ScInv, NEW q \in ProfileCalls, pcall[q].cmd # "none", pcall[q].answer = "none",
           pcall' = [pcall EXCEPT ![q].answer = "accepted"],
           applied' = IF pcall[q].cmd = "profile"
                      THEN TxProfile(applied, pcall[q].charger, pcall[q].limit) ELSE applied,
           UNCHANGED <<binding, active, preferred, charging, overdue, lastSet>>
    PROVE  ScInv'
  <1> USE SmartChargingAssumption DEF ScInv
  <1>a. /\ pcall' \in [ProfileCalls -> ProfileCallRecords]
        /\ \A k \in ProfileCalls \ {q} : pcall'[k] = pcall[k]
        /\ pcall'[q].cmd = pcall[q].cmd /\ pcall'[q].charger = pcall[q].charger
        /\ pcall'[q].session = pcall[q].session /\ pcall'[q].limit = pcall[q].limit
        /\ pcall'[q].answer = "accepted" /\ pcall'[q].crossed = pcall[q].crossed
    BY PcallAnswered DEF ScInv
  <1>b. \A c \in Locations : ProfileRequests(c)' = ProfileRequests(c)
    BY <1>a DEF ProfileRequests
  <1>c. pcall[q].cmd # "profile" => UNCHANGED applied
    OBVIOUS
  <1>d. pcall[q].cmd = "profile" => /\ applied' = [applied EXCEPT ![pcall[q].charger] = pcall[q].limit]
                                    /\ pcall[q].charger \in Locations /\ pcall[q].limit \in Watts
                                    /\ q \in ProfileRequests(pcall[q].charger)
    BY DEF TxProfile, PcallsOK, ProfileRequests
  <1>1. ScTypeOK'
    BY <1>a, <1>b, <1>c, <1>d DEF ScTypeOK, ProfileCallRecords
  <1>2. PcallsOK'
    BY <1>a, <1>b, <1>c, <1>d DEF ScTypeOK, ProfileCallRecords, PcallsOK, Bound
  <1>3. UncrossedOK'
    <2> SUFFICES ASSUME NEW k \in ProfileCalls, pcall'[k].cmd = "profile", ~pcall'[k].crossed
                 PROVE  /\ ProfileRequests(pcall[k].charger)' = {k}
                        /\ pcall'[k].answer = "accepted" => applied'[pcall'[k].charger] = pcall'[k].limit
      BY DEF UncrossedOK
    <2>1. /\ pcall[k].cmd = "profile" /\ ~pcall[k].crossed /\ pcall'[k].charger = pcall[k].charger
          /\ pcall'[k].limit = pcall[k].limit /\ pcall[k].charger \in Locations
      BY <1>a DEF PcallsOK
    <2>2. ProfileRequests(pcall[k].charger) = {k}
      BY <2>1 DEF UncrossedOK
    <2>3. ProfileRequests(pcall[k].charger)' = {k}
      BY <1>b, <2>1, <2>2
    <2>4. CASE k = q
      BY ZenonT(40), <1>a, <1>d, <2>1, <2>3, <2>4 DEF ScTypeOK
    <2>5. CASE k # q
      <3>1. pcall[q].cmd = "profile" => pcall[q].charger # pcall[k].charger
        BY <1>d, <2>2, <2>5
      <3>2. applied'[pcall[k].charger] = applied[pcall[k].charger]
        BY <1>c, <1>d, <2>1, <3>1 DEF ScTypeOK
      <3> QED
        BY <1>a, <2>1, <2>3, <2>5, <3>2 DEF UncrossedOK
    <2> QED
      BY <2>4, <2>5
  <1>4. StoredIsApplied'
    <2> SUFFICES ASSUME NEW d \in Locations, lastSet'[d] # NoOne,
                        \A k \in ProfileRequests(d)' : pcall'[k].answer # "accepted"
                 PROVE  Bound(lastSet[d])' /\ active'[lastSet'[d]] = applied'[d]
      BY DEF StoredIsApplied
    <2>1. applied'[d] = applied[d] /\ UNCHANGED <<lastSet, active, binding>>
      <3>1. pcall[q].cmd = "profile" => pcall[q].charger # d
        BY <1>a, <1>b, <1>d
      <3> QED
        BY <1>c, <1>d, <3>1 DEF ScTypeOK
    <2>2. \A k \in ProfileRequests(d) : pcall[k].answer # "accepted"
      BY <1>a, <1>b
    <2> QED
      BY <2>1, <2>2, <1>c, <1>d DEF StoredIsApplied, Bound, ScTypeOK
  <1>5. PreferencesOK'
    BY <1>a, <1>b, <1>c, <1>d DEF ScTypeOK, ProfileCallRecords, PreferencesOK, Bound
  <1> QED
    BY <1>1, <1>2, <1>3, <1>4, <1>5 DEF ScInv

LEMMA ScDeclined ==
    ASSUME ScInv, NEW q \in ProfileCalls, pcall[q].cmd # "none", pcall[q].answer = "none",
           pcall' = [pcall EXCEPT ![q].answer = "accepted", ![q].crossed = (pcall[q].cmd = "profile")],
           UNCHANGED <<applied, binding, active, preferred, charging, overdue, lastSet>>
    PROVE  ScInv'
  <1> USE SmartChargingAssumption DEF ScInv
  <1>a. /\ pcall' \in [ProfileCalls -> ProfileCallRecords]
        /\ \A k \in ProfileCalls \ {q} : pcall'[k] = pcall[k]
        /\ pcall'[q].cmd = pcall[q].cmd /\ pcall'[q].charger = pcall[q].charger
        /\ pcall'[q].session = pcall[q].session /\ pcall'[q].limit = pcall[q].limit
        /\ pcall'[q].answer = "accepted" /\ (pcall[q].cmd = "profile" => pcall'[q].crossed)
    <2>1. pcall \in [ProfileCalls -> ProfileCallRecords] /\ (pcall[q].cmd = "profile") \in BOOLEAN
      BY DEF ScTypeOK, ProfileCallRecords
    <2> QED
      BY ZenonT(40), <2>1 DEF ProfileCallRecords
  <1>b. \A c \in Locations : ProfileRequests(c)' = ProfileRequests(c)
    BY <1>a DEF ProfileRequests
  <1>1. ScTypeOK'
    BY <1>a, <1>b DEF ScTypeOK, ProfileCallRecords
  <1>2. PcallsOK'
    BY <1>a, <1>b DEF ScTypeOK, ProfileCallRecords, PcallsOK, Bound
  <1>3. UncrossedOK'
    BY <1>a, <1>b DEF ScTypeOK, ProfileCallRecords, PcallsOK, UncrossedOK, ProfileRequests
  <1>4. StoredIsApplied'
    BY <1>a, <1>b DEF ScTypeOK, ProfileCallRecords, PcallsOK, UncrossedOK, StoredIsApplied, ProfileRequests, Bound
  <1>5. PreferencesOK'
    BY <1>a, <1>b DEF ScTypeOK, ProfileCallRecords, PreferencesOK, Bound
  <1> QED
    BY <1>1, <1>2, <1>3, <1>4, <1>5 DEF ScInv

LEMMA ScRefused ==
    ASSUME ScInv, NEW q \in ProfileCalls, pcall[q].cmd # "none", pcall[q].answer = "none",
           pcall' = [pcall EXCEPT ![q].answer = "refused"],
           UNCHANGED <<applied, binding, active, preferred, charging, overdue, lastSet>>
    PROVE  ScInv'
  <1> USE SmartChargingAssumption DEF ScInv
  <1>a. /\ pcall' \in [ProfileCalls -> ProfileCallRecords]
        /\ \A k \in ProfileCalls \ {q} : pcall'[k] = pcall[k]
        /\ pcall'[q].cmd = pcall[q].cmd /\ pcall'[q].charger = pcall[q].charger
        /\ pcall'[q].session = pcall[q].session /\ pcall'[q].limit = pcall[q].limit
        /\ pcall'[q].answer = "refused" /\ pcall'[q].crossed = pcall[q].crossed
    BY PcallAnswered DEF ScInv
  <1>b. \A c \in Locations : ProfileRequests(c)' = ProfileRequests(c)
    BY <1>a DEF ProfileRequests
  <1>1. ScTypeOK'
    BY <1>a, <1>b DEF ScTypeOK, ProfileCallRecords
  <1>2. PcallsOK'
    BY <1>a, <1>b DEF ScTypeOK, ProfileCallRecords, PcallsOK, Bound
  <1>3. UncrossedOK'
    BY <1>a, <1>b DEF ScTypeOK, ProfileCallRecords, PcallsOK, UncrossedOK, ProfileRequests
  <1>4. StoredIsApplied'
    BY <1>a, <1>b DEF ScTypeOK, ProfileCallRecords, PcallsOK, UncrossedOK, StoredIsApplied, ProfileRequests, Bound
  <1>5. PreferencesOK'
    BY <1>a, <1>b DEF ScTypeOK, ProfileCallRecords, PreferencesOK, Bound
  <1> QED
    BY <1>1, <1>2, <1>3, <1>4, <1>5 DEF ScInv

LEMMA ScTimesOut ==
    ASSUME ScInv, NEW q \in ProfileCalls, TimesOut(q)
    PROVE  ScInv'
  <1> USE SmartChargingAssumption DEF ScInv
  <1>a. /\ pcall' \in [ProfileCalls -> ProfileCallRecords]
        /\ \A k \in ProfileCalls \ {q} : pcall'[k] = pcall[k]
        /\ pcall'[q].cmd = pcall[q].cmd /\ pcall'[q].charger = pcall[q].charger
        /\ pcall'[q].session = pcall[q].session /\ pcall'[q].limit = pcall[q].limit
        /\ pcall'[q].answer = "refused" /\ pcall'[q].crossed = pcall[q].crossed
    BY PcallAnswered DEF ScInv, TimesOut
  <1>b. \A c \in Locations : ProfileRequests(c)' = ProfileRequests(c)
    BY <1>a DEF ProfileRequests
  <1>c. UNCHANGED <<binding, active, preferred, charging, applied>> /\ (pcall[q].cmd # "profile" => UNCHANGED lastSet)
    BY DEF TimesOut
  <1>d. pcall[q].cmd = "profile" => /\ lastSet' = [lastSet EXCEPT ![pcall[q].charger] = NoOne]
                                    /\ pcall[q].charger \in Locations
    BY DEF TimesOut, PcallsOK
  <1>e. overdue' \subseteq Locations \X Watts
    BY <1>d DEF TimesOut, ScTypeOK, PcallsOK
  <1>1. ScTypeOK'
    BY <1>a, <1>b, <1>c, <1>d, <1>e DEF ScTypeOK, ProfileCallRecords
  <1>2. PcallsOK'
    BY <1>a, <1>b, <1>c, <1>d DEF ScTypeOK, ProfileCallRecords, PcallsOK, Bound
  <1>3. UncrossedOK'
    BY <1>a, <1>b, <1>c, <1>d DEF ScTypeOK, ProfileCallRecords, PcallsOK, UncrossedOK, ProfileRequests
  <1>4. StoredIsApplied'
    <2> SUFFICES ASSUME NEW d \in Locations, lastSet'[d] # NoOne,
                        \A k \in ProfileRequests(d)' : pcall'[k].answer # "accepted"
                 PROVE  Bound(lastSet[d])' /\ active'[lastSet'[d]] = applied'[d]
      BY DEF StoredIsApplied
    <2>1. lastSet'[d] = lastSet[d] /\ q \notin ProfileRequests(d) /\ UNCHANGED <<applied, active, binding>>
      BY <1>c, <1>d DEF ScTypeOK, ProfileRequests
    <2>2. \A k \in ProfileRequests(d) : k \in ProfileCalls /\ pcall[k].answer # "accepted"
      BY <1>a, <1>b, <2>1 DEF ProfileRequests
    <2> QED
      BY <2>1, <2>2, <1>c, <1>d DEF StoredIsApplied, Bound, ScTypeOK
  <1>5. PreferencesOK'
    BY <1>a, <1>b, <1>c, <1>d DEF ScTypeOK, ProfileCallRecords, PreferencesOK, Bound
  <1> QED
    BY <1>1, <1>2, <1>3, <1>4, <1>5 DEF ScInv

LEMMA ScFinishOther ==
    ASSUME ScInv, NEW q \in ProfileCalls, FinishStart(q) \/ FinishStop(q)
    PROVE  ScInv'
  <1> USE SmartChargingAssumption DEF ScInv
  <1>a. /\ pcall' \in [ProfileCalls -> ProfileCallRecords]
        /\ \A k \in ProfileCalls \ {q} : pcall'[k] = pcall[k]
        /\ pcall'[q].cmd = "none"
    BY PcallEnds DEF ScInv, FinishStart, FinishStop
  <1>b. \A c \in Locations : ProfileRequests(c)' = ProfileRequests(c) \ {q}
    BY <1>a DEF ProfileRequests
  <1>c. /\ pcall[q].cmd \in {"start", "stop"}
        /\ UNCHANGED <<active, preferred, charging, applied, overdue, lastSet>>
    BY DEF FinishStart, FinishStop
  <1>d. \/ UNCHANGED binding
        \/ \E s \in RoamingSessions : binding' = [binding EXCEPT ![s] = pcall[q].charger] /\ pcall[q].charger \in Locations
    BY DEF FinishStart, FinishStop, PcallsOK
  <1>1. ScTypeOK'
    BY <1>a, <1>b, <1>c, <1>d DEF ScTypeOK, ProfileCallRecords
  <1>2. PcallsOK'
    BY <1>a, <1>b, <1>c, <1>d DEF ScTypeOK, ProfileCallRecords, PcallsOK, Bound
  <1>3. UncrossedOK'
    BY <1>a, <1>b, <1>c, <1>d DEF ScTypeOK, ProfileCallRecords, PcallsOK, UncrossedOK, ProfileRequests
  <1>4. StoredIsApplied'
    <2> SUFFICES ASSUME NEW d \in Locations, lastSet'[d] # NoOne,
                        \A k \in ProfileRequests(d)' : pcall'[k].answer # "accepted"
                 PROVE  Bound(lastSet[d])' /\ active'[lastSet'[d]] = applied'[d]
      BY DEF StoredIsApplied
    <2>1. UNCHANGED <<lastSet, active, applied>> /\ lastSet[d] \in RoamingSessions
      BY <1>c DEF ScTypeOK
    <2>2. \A k \in ProfileRequests(d) : pcall[k].answer # "accepted"
      BY <1>a, <1>b, <1>c DEF ProfileRequests
    <2>3. Bound(lastSet[d]) => Bound(lastSet[d])'
      BY <1>d, <2>1 DEF Bound, ScTypeOK
    <2> QED
      BY <2>1, <2>2, <2>3 DEF StoredIsApplied
  <1>5. PreferencesOK'
    BY <1>a, <1>b, <1>c, <1>d DEF ScTypeOK, ProfileCallRecords, PreferencesOK, Bound
  <1> QED
    BY <1>1, <1>2, <1>3, <1>4, <1>5 DEF ScInv

LEMMA ScFinishProfile ==
    ASSUME ScInv, NEW q \in ProfileCalls, FinishProfile(q)
    PROVE  ScInv'
  <1> USE SmartChargingAssumption DEF ScInv
  <1>a. /\ pcall' \in [ProfileCalls -> ProfileCallRecords]
        /\ \A k \in ProfileCalls \ {q} : pcall'[k] = pcall[k]
        /\ pcall'[q].cmd = "none"
    BY PcallEnds DEF ScInv, FinishProfile
  <1>b. \A c \in Locations : ProfileRequests(c)' = ProfileRequests(c) \ {q}
    BY <1>a DEF ProfileRequests
  <1>c. /\ pcall[q].cmd = "profile" /\ pcall[q].charger \in Locations /\ pcall[q].session \in RoamingSessions
        /\ pcall[q].limit \in Watts /\ Bound(pcall[q].session) /\ q \in ProfileRequests(pcall[q].charger)
        /\ UNCHANGED <<binding, preferred, charging, applied, overdue>>
    BY DEF FinishProfile, PcallsOK, ProfileRequests
  <1>d. pcall[q].answer # "accepted" => UNCHANGED <<active, lastSet>>
    BY DEF FinishProfile, StoredProfile
  <1>e. pcall[q].answer = "accepted" =>
           /\ active' = [active EXCEPT ![pcall[q].session] = pcall[q].limit]
           /\ lastSet' \in [Locations -> RoamingSessions \cup {NoOne}]
           /\ lastSet'[pcall[q].charger] # NoOne => ~pcall[q].crossed /\ lastSet'[pcall[q].charger] = pcall[q].session
           /\ \A d \in Locations \ {pcall[q].charger} :
                 lastSet'[d] # NoOne => lastSet'[d] = lastSet[d] /\ lastSet[d] # pcall[q].session
    BY <1>c DEF FinishProfile, StoredProfile, ScTypeOK
  <1>1. ScTypeOK'
    BY <1>a, <1>c, <1>d, <1>e DEF ScTypeOK, ProfileCallRecords
  <1>2. PcallsOK'
    BY <1>a, <1>b, <1>c DEF ScTypeOK, ProfileCallRecords, PcallsOK, Bound
  <1>3. UncrossedOK'
    BY <1>a, <1>b, <1>c DEF ScTypeOK, ProfileCallRecords, PcallsOK, UncrossedOK, ProfileRequests
  <1>4. StoredIsApplied'
    <2> SUFFICES ASSUME NEW d \in Locations, lastSet'[d] # NoOne,
                        \A k \in ProfileRequests(d)' : pcall'[k].answer # "accepted"
                 PROVE  Bound(lastSet'[d]) /\ active'[lastSet'[d]] = applied[d]
      BY <1>c DEF StoredIsApplied, Bound
    <2>1. CASE pcall[q].answer # "accepted"
      <3>1. \A k \in ProfileRequests(d) : pcall[k].answer # "accepted"
        BY <1>a, <1>b, <2>1 DEF ProfileRequests
      <3> QED
        BY <1>d, <2>1, <3>1 DEF StoredIsApplied
    <2>2. CASE pcall[q].answer = "accepted" /\ d = pcall[q].charger
      <3>1. applied[d] = pcall[q].limit
        BY <1>c, <1>e, <2>2 DEF UncrossedOK
      <3> QED
        BY <1>c, <1>e, <2>2, <3>1 DEF ScTypeOK
    <2>3. CASE pcall[q].answer = "accepted" /\ d # pcall[q].charger
      <3>1. lastSet'[d] = lastSet[d] /\ lastSet[d] # pcall[q].session
        BY <1>e, <2>3
      <3>2. \A k \in ProfileRequests(d) : pcall[k].answer # "accepted"
        BY <1>a, <1>b, <2>3 DEF ProfileRequests
      <3>3. Bound(lastSet[d]) /\ active[lastSet[d]] = applied[d]
        BY <3>1, <3>2 DEF StoredIsApplied
      <3> QED
        BY <1>c, <1>e, <2>3, <3>1, <3>3 DEF ScTypeOK
    <2> QED
      BY <2>1, <2>2, <2>3
  <1>5. PreferencesOK'
    BY <1>a, <1>b, <1>c DEF ScTypeOK, ProfileCallRecords, PreferencesOK, Bound
  <1> QED
    BY <1>1, <1>2, <1>3, <1>4, <1>5 DEF ScInv

LEMMA ScBind ==
    ASSUME ScInv, NEW s \in RoamingSessions, NEW c \in Locations, BindSessionToCharger(s, c)
    PROVE  ScInv'
  <1> USE SmartChargingAssumption DEF ScInv
  <1>a. /\ binding' = [binding EXCEPT ![s] = c]
        /\ UNCHANGED <<active, preferred, charging, applied, pcall, overdue, lastSet>>
    BY DEF BindSessionToCharger
  <1>1. ScTypeOK'
    BY <1>a DEF ScTypeOK, ProfileCallRecords
  <1>2. PcallsOK'
    BY <1>a DEF ScTypeOK, ProfileCallRecords, PcallsOK, Bound
  <1>3. UncrossedOK'
    BY <1>a DEF ScTypeOK, ProfileCallRecords, PcallsOK, UncrossedOK, ProfileRequests
  <1>4. StoredIsApplied'
    BY <1>a DEF ScTypeOK, ProfileCallRecords, PcallsOK, UncrossedOK, StoredIsApplied, ProfileRequests, Bound
  <1>5. PreferencesOK'
    BY <1>a DEF ScTypeOK, ProfileCallRecords, PreferencesOK, Bound
  <1> QED
    BY <1>1, <1>2, <1>3, <1>4, <1>5 DEF ScInv

LEMMA ScPrefer ==
    ASSUME ScInv, NEW s \in RoamingSessions, NEW p \in Preferences, SetChargingPreferences(s, p)
    PROVE  ScInv'
  <1> USE SmartChargingAssumption DEF ScInv
  <1>a. /\ Bound(s) /\ preferred' = [preferred EXCEPT ![s] = p]
        /\ (p.departure \/ p.type = "FAST") /\ (p.type = "CHEAP" => p.energy)
        /\ UNCHANGED <<binding, active, charging, applied, pcall, overdue, lastSet>>
    BY DEF SetChargingPreferences, Plannable
  <1>1. ScTypeOK'
    BY <1>a DEF ScTypeOK, ProfileCallRecords
  <1>2. PcallsOK'
    BY <1>a DEF ScTypeOK, ProfileCallRecords, PcallsOK, Bound
  <1>3. UncrossedOK'
    BY <1>a DEF ScTypeOK, ProfileCallRecords, PcallsOK, UncrossedOK, ProfileRequests
  <1>4. StoredIsApplied'
    BY <1>a DEF ScTypeOK, ProfileCallRecords, PcallsOK, UncrossedOK, StoredIsApplied, ProfileRequests, Bound
  <1>5. PreferencesOK'
    BY <1>a DEF ScTypeOK, ProfileCallRecords, PreferencesOK, Bound
  <1> QED
    BY <1>1, <1>2, <1>3, <1>4, <1>5 DEF ScInv

LEMMA ScToggle ==
    ASSUME ScInv, NEW c \in Locations, TransactionToggles(c)
    PROVE  ScInv'
  <1> USE SmartChargingAssumption DEF ScInv
  <1>a. /\ charging' \in [Locations -> BOOLEAN]
        /\ applied' = [applied EXCEPT ![c] = NoOne] /\ lastSet' = [lastSet EXCEPT ![c] = NoOne]
        /\ UNCHANGED <<binding, active, preferred, overdue>>
    BY DEF TransactionToggles, ScTypeOK
  <1>b. /\ pcall' \in [ProfileCalls -> ProfileCallRecords]
        /\ \A k \in ProfileCalls :
              /\ pcall'[k].cmd = pcall[k].cmd /\ pcall'[k].charger = pcall[k].charger
              /\ pcall'[k].session = pcall[k].session /\ pcall'[k].limit = pcall[k].limit
              /\ pcall'[k].answer = pcall[k].answer
              /\ ~pcall'[k].crossed => ~pcall[k].crossed /\ k \notin ProfileRequests(c)
    <2>1. pcall \in [ProfileCalls -> ProfileCallRecords]
      BY DEF ScTypeOK, ProfileCallRecords
    <2>2. pcall' = [k \in ProfileCalls |-> IF k \in ProfileRequests(c) THEN [pcall[k] EXCEPT !.crossed = TRUE] ELSE pcall[k]]
      BY DEF TransactionToggles, Crossed
    <2>3. ASSUME NEW k \in ProfileCalls
          PROVE  /\ pcall'[k] \in ProfileCallRecords
                 /\ pcall'[k].cmd = pcall[k].cmd /\ pcall'[k].charger = pcall[k].charger
                 /\ pcall'[k].session = pcall[k].session /\ pcall'[k].limit = pcall[k].limit
                 /\ pcall'[k].answer = pcall[k].answer
                 /\ ~pcall'[k].crossed => ~pcall[k].crossed /\ k \notin ProfileRequests(c)
      <3>1. CASE k \in ProfileRequests(c)
        <4>1. pcall'[k] = [pcall[k] EXCEPT !.crossed = TRUE] /\ pcall[k] \in ProfileCallRecords
          BY <2>1, <2>2, <3>1
        <4> QED
          BY <4>1, PcallCrossed
      <3>2. CASE k \notin ProfileRequests(c)
        BY <2>1, <2>2, <3>2
      <3> QED
        BY <3>1, <3>2
    <2> QED
      BY <2>2, <2>3
  <1>c. \A d \in Locations : ProfileRequests(d)' = ProfileRequests(d)
    BY <1>b DEF ProfileRequests
  <1>1. ScTypeOK'
    BY <1>a, <1>b, <1>c DEF ScTypeOK, ProfileCallRecords
  <1>2. PcallsOK'
    BY <1>a, <1>b, <1>c DEF ScTypeOK, ProfileCallRecords, PcallsOK, Bound
  <1>3. UncrossedOK'
    BY <1>a, <1>b, <1>c DEF ScTypeOK, ProfileCallRecords, PcallsOK, UncrossedOK, ProfileRequests
  <1>4. StoredIsApplied'
    BY <1>a, <1>b, <1>c DEF ScTypeOK, ProfileCallRecords, PcallsOK, UncrossedOK, StoredIsApplied, ProfileRequests, Bound
  <1>5. PreferencesOK'
    BY <1>a, <1>b, <1>c DEF ScTypeOK, ProfileCallRecords, PreferencesOK, Bound
  <1> QED
    BY <1>1, <1>2, <1>3, <1>4, <1>5 DEF ScInv

LEMMA ScLate ==
    ASSUME ScInv, NEW c \in Locations, NEW w \in Watts, AppliesLate(c, w)
    PROVE  ScInv'
  <1> USE SmartChargingAssumption DEF ScInv
  <1>a. /\ overdue' \subseteq overdue
        /\ applied' = [applied EXCEPT ![c] = w] /\ lastSet' = [lastSet EXCEPT ![c] = NoOne]
        /\ UNCHANGED <<binding, active, preferred, charging>>
    BY DEF AppliesLate, TxProfile
  <1>b. /\ pcall' \in [ProfileCalls -> ProfileCallRecords]
        /\ \A k \in ProfileCalls :
              /\ pcall'[k].cmd = pcall[k].cmd /\ pcall'[k].charger = pcall[k].charger
              /\ pcall'[k].session = pcall[k].session /\ pcall'[k].limit = pcall[k].limit
              /\ pcall'[k].answer = pcall[k].answer
              /\ ~pcall'[k].crossed => ~pcall[k].crossed /\ k \notin ProfileRequests(c)
    <2>1. pcall \in [ProfileCalls -> ProfileCallRecords]
      BY DEF ScTypeOK, ProfileCallRecords
    <2>2. pcall' = [k \in ProfileCalls |-> IF k \in ProfileRequests(c) THEN [pcall[k] EXCEPT !.crossed = TRUE] ELSE pcall[k]]
      BY DEF AppliesLate, Crossed
    <2>3. ASSUME NEW k \in ProfileCalls
          PROVE  /\ pcall'[k] \in ProfileCallRecords
                 /\ pcall'[k].cmd = pcall[k].cmd /\ pcall'[k].charger = pcall[k].charger
                 /\ pcall'[k].session = pcall[k].session /\ pcall'[k].limit = pcall[k].limit
                 /\ pcall'[k].answer = pcall[k].answer
                 /\ ~pcall'[k].crossed => ~pcall[k].crossed /\ k \notin ProfileRequests(c)
      <3>1. CASE k \in ProfileRequests(c)
        <4>1. pcall'[k] = [pcall[k] EXCEPT !.crossed = TRUE] /\ pcall[k] \in ProfileCallRecords
          BY <2>1, <2>2, <3>1
        <4> QED
          BY <4>1, PcallCrossed
      <3>2. CASE k \notin ProfileRequests(c)
        BY <2>1, <2>2, <3>2
      <3> QED
        BY <3>1, <3>2
    <2> QED
      BY <2>2, <2>3
  <1>c. \A d \in Locations : ProfileRequests(d)' = ProfileRequests(d)
    BY <1>b DEF ProfileRequests
  <1>1. ScTypeOK'
    BY <1>a, <1>b, <1>c DEF ScTypeOK, ProfileCallRecords
  <1>2. PcallsOK'
    BY <1>a, <1>b, <1>c DEF ScTypeOK, ProfileCallRecords, PcallsOK, Bound
  <1>3. UncrossedOK'
    BY <1>a, <1>b, <1>c DEF ScTypeOK, ProfileCallRecords, PcallsOK, UncrossedOK, ProfileRequests
  <1>4. StoredIsApplied'
    BY <1>a, <1>b, <1>c DEF ScTypeOK, ProfileCallRecords, PcallsOK, UncrossedOK, StoredIsApplied, ProfileRequests, Bound
  <1>5. PreferencesOK'
    BY <1>a, <1>b, <1>c DEF ScTypeOK, ProfileCallRecords, PreferencesOK, Bound
  <1> QED
    BY <1>1, <1>2, <1>3, <1>4, <1>5 DEF ScInv

LEMMA ScInvNext == ScInv /\ [ScNext]_scVars => ScInv'
  <1> SUFFICES ASSUME ScInv, [ScNext]_scVars PROVE ScInv'
    OBVIOUS
  <1>1. ASSUME NEW q \in ProfileCalls, ProfileAnswered(q) PROVE ScInv'
    BY <1>1, ScAccepted, ScDeclined, ScRefused DEF ProfileAnswered
  <1>2. CASE UNCHANGED scVars
    BY <1>2 DEF scVars, ScInv, ScTypeOK, PcallsOK, UncrossedOK, StoredIsApplied, PreferencesOK, ProfileRequests, Bound
  <1> QED
    BY <1>1, <1>2, ScStart, ScStop, ScSetProfile, ScTimesOut, ScFinishOther, ScFinishProfile,
       ScBind, ScPrefer, ScToggle, ScLate DEF ScNext

(* ShownProfileIsApplied: what get_active_profile shows for the session whose  *)
(* profile was set last is what the charger applies, unless the charger had    *)
(* declined it, a request crossed another, timed out or was applied late, or    *)
(* the transaction ended (ChargingProfileService.set_charging_profile); and     *)
(* every preference on record can be planned for.                               *)
THEOREM ShownProfileIsApplied == ScSpec => []ProfileShownIsApplied
  <1>1. ScInv => ProfileShownIsApplied
    <2> SUFFICES ASSUME ScInv PROVE ProfileShownIsApplied
      OBVIOUS
    <2>1. ASSUME NEW c \in Locations, lastSet[c] # NoOne, ProfileRequests(c) = {}
          PROVE  ActiveProfile(lastSet[c]) = applied[c]
      BY <2>1 DEF ScInv, StoredIsApplied, ActiveProfile
    <2> QED
      BY <2>1 DEF ScInv, PreferencesOK, ProfileShownIsApplied
  <1> QED
    BY ScInvInit, ScInvNext, <1>1, PTL DEF ScSpec

(***************************************************************************)
(* CdrExchange                                                             *)
(***************************************************************************)

Deliveries == [pc: {"idle", "generated", "pushing"}, session: CdrSessions \cup {"none"},
               cdr: 0..MaxCdrs, partner: CdrPartners \cup {"none"}]

\* The deliveries that are pushing a record to a partner.
Pushing(x) == {d \in CdrTasks : delivery[d].pc = "pushing" /\ <<delivery[d].partner, delivery[d].cdr>> = x}

\* A delivery works on the record the store keeps for its session.
DeliveriesOK ==
    /\ delivery \in [CdrTasks -> Deliveries]
    /\ \A d \in CdrTasks : delivery[d].pc # "idle" =>
          delivery[d].session \in CdrSessions /\ delivery[d].cdr \in CdrIds /\ delivery[d].cdr = cdrOf[delivery[d].session]
    /\ \A d \in CdrTasks : delivery[d].pc = "pushing" => delivery[d].partner \in CdrPartners

\* Every receipt, and every push that may become one, is the first, or for a push
\* that raised, or for one that overlapped another.
Accounted(x) ==
    receipts[x] + Cardinality(Pushing(x)) <=
        raises[x] + overlaps[x] + IF x \in pushedCdr \/ Pushing(x) # {} THEN 1 ELSE 0

\* What was received is the record of a session, and what was pushed was received.
Received(x) ==
    /\ receipts[x] > 0 => \E s \in CdrSessions : cdrOf[s] = x[2]
    /\ x \in pushedCdr => receipts[x] >= 1

CeInv ==
    /\ CeTypeOK /\ DeliveriesOK
    /\ \A x \in Pairs : Accounted(x)
    /\ \A x \in Pairs : Received(x)

LEMMA CeInvInit == CeInit => CeInv
  <1> SUFFICES ASSUME CeInit PROVE CeInv
    OBVIOUS
  <1> USE CdrExchangeAssumption DEF CeInit, NoDelivery, CdrIds
  <1>1. CeTypeOK
    BY DEF CeTypeOK
  <1>2. DeliveriesOK
    BY DEF DeliveriesOK, Deliveries
  <1>3. ASSUME NEW x \in Pairs PROVE Accounted(x) /\ Received(x)
    <2>1. Pushing(x) = {}
      BY DEF Pushing
    <2> QED
      BY <2>1, FS_EmptySet DEF Accounted, Received
  <1> QED
    BY <1>1, <1>2, <1>3 DEF CeInv

LEMMA PushingFinite ==
    ASSUME NEW x PROVE IsFiniteSet(Pushing(x)) /\ Cardinality(Pushing(x)) \in Nat
  <1>1. Pushing(x) \in SUBSET CdrTasks
    BY DEF Pushing
  <1> QED
    BY <1>1, CdrExchangeAssumption, FS_Subset, FS_CardinalityType

LEMMA NoDeliveryFields == NoDelivery \in Deliveries /\ NoDelivery.pc = "idle"
  BY CdrExchangeAssumption DEF NoDelivery, Deliveries

\* A delivery that is between pushes before and after a step counts for no pair.
LEMMA PushingSame ==
    ASSUME NEW d \in CdrTasks, delivery[d].pc # "pushing", delivery'[d].pc # "pushing",
           \A e \in CdrTasks \ {d} : delivery'[e] = delivery[e], NEW x
    PROVE  Pushing(x)' = Pushing(x)
  BY DEF Pushing

LEMMA PushingLess ==
    ASSUME NEW d \in CdrTasks, delivery[d].pc = "pushing", delivery'[d].pc # "pushing",
           \A e \in CdrTasks \ {d} : delivery'[e] = delivery[e], NEW x
    PROVE  Pushing(x)' = IF x = <<delivery[d].partner, delivery[d].cdr>> THEN Pushing(x) \ {d} ELSE Pushing(x)
  BY DEF Pushing

LEMMA CeGenerate ==
    ASSUME CeInv, NEW d \in CdrTasks, NEW s \in CdrSessions, GenerateCdr(d, s)
    PROVE  CeInv'
  <1> USE CdrExchangeAssumption DEF CeInv, CdrIds
  <1>1. /\ cdrOf' \in [CdrSessions -> 0..MaxCdrs] /\ nextCdr' \in 1..(MaxCdrs + 1)
        /\ cdrOf'[s] \in CdrIds
        /\ \A t \in CdrSessions : cdrOf[t] # 0 => cdrOf'[t] = cdrOf[t]
    BY DEF GenerateCdr, MustMint, CeTypeOK
  <1>2. [NoDelivery EXCEPT !.pc = "generated", !.session = s, !.cdr = cdrOf'[s]] \in Deliveries
    <2>1. cdrOf'[s] \in 0..MaxCdrs
      BY <1>1
    <2> QED
      BY <2>1, NoDeliveryFields DEF Deliveries
  <1>3. /\ delivery' \in [CdrTasks -> Deliveries] /\ delivery[d].pc = "idle"
        /\ \A e \in CdrTasks \ {d} : delivery'[e] = delivery[e]
        /\ UNCHANGED <<pushedCdr, receipts, raises, overlaps>>
    BY <1>2 DEF GenerateCdr, DeliveriesOK
  <1>4. delivery'[d].pc = "generated" /\ delivery'[d].session = s /\ delivery'[d].cdr = cdrOf'[s]
    BY NoDeliveryFields DEF GenerateCdr, DeliveriesOK, Deliveries
  <1>5. CeTypeOK'
    BY <1>1, <1>3 DEF CeTypeOK, Deliveries
  <1>6. DeliveriesOK'
    BY <1>1, <1>3, <1>4 DEF DeliveriesOK
  <1>7. ASSUME NEW x \in Pairs PROVE Accounted(x)'
    <2>1. Pushing(x)' = Pushing(x)
      BY <1>3, <1>4, PushingSame
    <2> QED
      BY <1>3, <2>1 DEF Accounted
  <1>8. ASSUME NEW x \in Pairs PROVE Received(x)'
    BY <1>1, <1>3 DEF Received, Pairs
  <1> QED
    BY <1>5, <1>6, <1>7, <1>8

LEMMA CePush ==
    ASSUME CeInv, NEW d \in CdrTasks, NEW p \in CdrPartners, PushCdr(d, p)
    PROVE  CeInv'
  <1> USE CdrExchangeAssumption DEF CeInv, CdrIds
  <1>0. PICK x \in Pairs : x = <<p, delivery[d].cdr>>
    BY DEF PushCdr, DeliveriesOK, Pairs
  <1>1. /\ x \notin pushedCdr /\ delivery[d].pc = "generated"
        /\ UNCHANGED <<cdrOf, nextCdr, pushedCdr, receipts, raises>>
    BY <1>0 DEF PushCdr
  <1>2. /\ delivery' \in [CdrTasks -> Deliveries]
        /\ \A e \in CdrTasks \ {d} : delivery'[e] = delivery[e]
        /\ delivery'[d].pc = "pushing" /\ delivery'[d].session = delivery[d].session
        /\ delivery'[d].cdr = delivery[d].cdr /\ delivery'[d].partner = p
    BY DEF PushCdr, DeliveriesOK, Deliveries
  <1>3. d \notin Pushing(x) /\ Pushing(x)' = Pushing(x) \cup {d}
    BY <1>0, <1>1, <1>2 DEF Pushing
  <1>4. \A y \in Pairs \ {x} : Pushing(y)' = Pushing(y)
    BY <1>0, <1>1, <1>2 DEF Pushing
  <1>5. overlaps' = IF Pushing(x) # {} THEN [overlaps EXCEPT ![x] = @ + 1] ELSE overlaps
    BY <1>0 DEF PushCdr, Pushing
  <1>6. CeTypeOK'
    BY <1>1, <1>2, <1>5 DEF CeTypeOK, Deliveries
  <1>7. DeliveriesOK'
    BY <1>1, <1>2 DEF DeliveriesOK
  <1>8. Accounted(x)'
    <2>1. Cardinality(Pushing(x)') = Cardinality(Pushing(x)) + 1 /\ Cardinality(Pushing(x)) \in Nat
      BY <1>3, PushingFinite, FS_AddElement
    <2>2. Pushing(x) = {} => Cardinality(Pushing(x)) = 0
      BY FS_EmptySet
    <2>3. /\ receipts[x] + Cardinality(Pushing(x)) <=
                raises[x] + overlaps[x] + IF Pushing(x) # {} THEN 1 ELSE 0
          /\ receipts[x] \in Nat /\ raises[x] \in Nat /\ overlaps[x] \in Nat
      BY <1>1 DEF Accounted, CeTypeOK
    <2>4. /\ Pushing(x) # {} => overlaps'[x] = overlaps[x] + 1
          /\ Pushing(x) = {} => overlaps'[x] = overlaps[x]
      BY <1>1, <1>5 DEF CeTypeOK
    <2>5. receipts[x] + (Cardinality(Pushing(x)) + 1) <= raises[x] + overlaps'[x] + 1
      <3>1. CASE Pushing(x) = {}
        BY <2>2, <2>3, <2>4, <3>1
      <3>2. CASE Pushing(x) # {}
        BY <2>1, <2>3, <2>4, <3>2
      <3> QED
        BY <3>1, <3>2
    <2> QED
      BY <1>1, <1>3, <2>1, <2>5 DEF Accounted
  <1>9. ASSUME NEW y \in Pairs \ {x} PROVE Accounted(y)'
    <2>1. overlaps'[y] = overlaps[y]
      BY <1>5 DEF CeTypeOK
    <2> QED
      BY <1>1, <1>4, <2>1 DEF Accounted
  <1>10. ASSUME NEW y \in Pairs PROVE Received(y)'
    BY <1>1 DEF Received
  <1>11. ASSUME NEW y \in Pairs PROVE Accounted(y)'
    BY <1>8, <1>9
  <1> QED
    BY <1>6, <1>7, <1>10, <1>11

\* A push that ends, with n more receipts and r more raises, remembered or not.
LEMMA CePushEnds ==
    ASSUME CeInv, NEW d \in CdrTasks, delivery[d].pc = "pushing", NEW x \in Pairs,
           x = <<delivery[d].partner, delivery[d].cdr>>,
           delivery' \in [CdrTasks -> Deliveries], delivery'[d].pc # "pushing",
           \A e \in CdrTasks \ {d} : delivery'[e] = delivery[e],
           NEW n \in {0, 1}, NEW r \in {0, 1},
           receipts' = [receipts EXCEPT ![x] = @ + n], raises' = [raises EXCEPT ![x] = @ + r],
           \/ n = 1 /\ r = 0 /\ pushedCdr' = pushedCdr \cup {x}
           \/ r = 1 /\ pushedCdr' = pushedCdr,
           UNCHANGED <<cdrOf, nextCdr, overlaps>>
    PROVE  CeTypeOK' /\ \A y \in Pairs : Accounted(y)' /\ Received(y)'
  <1> USE CdrExchangeAssumption DEF CeInv, CdrIds
  <1>1. CeTypeOK'
    <2>1. receipts' \in [Pairs -> Nat] /\ raises' \in [Pairs -> Nat] /\ pushedCdr' \subseteq Pairs
      BY DEF CeTypeOK
    <2> QED
      BY <2>1 DEF CeTypeOK, Deliveries
  <1>2. ASSUME NEW y \in Pairs PROVE Received(y)'
    <2>1. CASE y = x
      <3>1. \E s \in CdrSessions : cdrOf[s] = x[2]
        BY DEF DeliveriesOK
      <3> QED
        BY <2>1, <3>1 DEF Received, CeTypeOK
    <2>2. CASE y # x
      BY <2>2 DEF Received, CeTypeOK
    <2> QED
      BY <2>1, <2>2
  <1>3. ASSUME NEW y \in Pairs \ {x} PROVE Accounted(y)'
    <2>1. Pushing(y)' = Pushing(y)
      BY PushingLess
    <2>2. receipts'[y] = receipts[y] /\ raises'[y] = raises[y] /\ (y \in pushedCdr' <=> y \in pushedCdr)
      BY DEF CeTypeOK
    <2> QED
      BY <2>1, <2>2 DEF Accounted
  <1>4. Accounted(x)'
    <2>1. d \in Pushing(x) /\ Pushing(x)' = Pushing(x) \ {d}
      BY PushingLess DEF Pushing
    <2>2. Cardinality(Pushing(x)') = Cardinality(Pushing(x)) - 1 /\ Cardinality(Pushing(x)) \in Nat
      BY <2>1, PushingFinite, FS_RemoveElement
    <2>3. /\ receipts[x] + Cardinality(Pushing(x)) <= raises[x] + overlaps[x] + 1
          /\ receipts[x] \in Nat /\ raises[x] \in Nat /\ overlaps[x] \in Nat
      BY <2>1 DEF Accounted, CeTypeOK
    <2>4. receipts'[x] = receipts[x] + n /\ raises'[x] = raises[x] + r
      BY DEF CeTypeOK
    <2>5. receipts'[x] + Cardinality(Pushing(x)') <= raises'[x] + overlaps[x] + IF x \in pushedCdr' THEN 1 ELSE 0
      <3>1. CASE n = 1 /\ r = 0 /\ pushedCdr' = pushedCdr \cup {x}
        BY <2>2, <2>3, <2>4, <3>1
      <3>2. CASE r = 1
        BY <2>2, <2>3, <2>4, <3>2
      <3> QED
        BY <3>1, <3>2
    <2>6. Cardinality(Pushing(x)') \in Nat
      BY <2>1, PushingFinite, FS_RemoveElement, FS_CardinalityType
    <2> QED
      BY <2>2, <2>3, <2>4, <2>5, <2>6 DEF Accounted
  <1> QED
    BY <1>1, <1>2, <1>3, <1>4

LEMMA CeReturns ==
    ASSUME CeInv, NEW d \in CdrTasks, PushReturns(d)
    PROVE  CeInv'
  <1> USE CdrExchangeAssumption DEF CdrIds
  <1> DEFINE x == <<delivery[d].partner, delivery[d].cdr>>
  <1>1. /\ delivery[d].pc = "pushing" /\ x \in Pairs
        /\ receipts' = [receipts EXCEPT ![x] = @ + 1] /\ pushedCdr' = pushedCdr \cup {x}
        /\ UNCHANGED <<cdrOf, nextCdr, raises, overlaps>>
    BY DEF PushReturns, CeInv, DeliveriesOK, Pairs
  <1>2. /\ delivery' \in [CdrTasks -> Deliveries]
        /\ \A e \in CdrTasks \ {d} : delivery'[e] = delivery[e]
        /\ delivery'[d].pc = "generated" /\ delivery'[d].session = delivery[d].session
        /\ delivery'[d].cdr = delivery[d].cdr
    BY ZenonT(40) DEF PushReturns, CeInv, DeliveriesOK, Deliveries
  <1>3. raises' = [raises EXCEPT ![x] = @ + 0]
    BY <1>1 DEF CeInv, CeTypeOK
  <1>4. CeTypeOK' /\ \A y \in Pairs : Accounted(y)' /\ Received(y)'
    BY <1>1, <1>2, <1>3, CePushEnds
  <1>5. DeliveriesOK'
    BY <1>1, <1>2 DEF CeInv, DeliveriesOK
  <1> QED
    BY <1>4, <1>5 DEF CeInv

LEMMA CeRaises ==
    ASSUME CeInv, NEW d \in CdrTasks, PushRaises(d)
    PROVE  CeInv'
  <1> USE CdrExchangeAssumption DEF CdrIds
  <1> DEFINE x == <<delivery[d].partner, delivery[d].cdr>>
  <1>1. /\ delivery[d].pc = "pushing" /\ x \in Pairs
        /\ raises' = [raises EXCEPT ![x] = @ + 1] /\ pushedCdr' = pushedCdr
        /\ UNCHANGED <<cdrOf, nextCdr, overlaps>>
    BY DEF PushRaises, RememberedAfterRaise, CeInv, DeliveriesOK, Pairs
  <1>2. PICK got \in {0, 1} : receipts' = [receipts EXCEPT ![x] = @ + got]
    BY DEF PushRaises
  <1>3. /\ delivery' \in [CdrTasks -> Deliveries]
        /\ \A e \in CdrTasks \ {d} : delivery'[e] = delivery[e]
        /\ delivery'[d].pc = "idle"
    BY NoDeliveryFields DEF PushRaises, CeInv, DeliveriesOK
  <1>4. CeTypeOK' /\ \A y \in Pairs : Accounted(y)' /\ Received(y)'
    BY <1>1, <1>2, <1>3, CePushEnds
  <1>5. DeliveriesOK'
    BY <1>1, <1>3 DEF CeInv, DeliveriesOK
  <1> QED
    BY <1>4, <1>5 DEF CeInv

LEMMA CeEnds ==
    ASSUME CeInv, NEW d \in CdrTasks, DeliveryEnds(d)
    PROVE  CeInv'
  <1> USE CdrExchangeAssumption DEF CeInv, CdrIds
  <1>1. /\ delivery' \in [CdrTasks -> Deliveries] /\ delivery[d].pc = "generated" /\ delivery'[d].pc = "idle"
        /\ \A e \in CdrTasks \ {d} : delivery'[e] = delivery[e]
        /\ UNCHANGED <<cdrOf, nextCdr, pushedCdr, receipts, raises, overlaps>>
    BY NoDeliveryFields DEF DeliveryEnds, DeliveriesOK
  <1>2. CeTypeOK' /\ DeliveriesOK'
    BY SMTT(40), <1>1 DEF CeTypeOK, DeliveriesOK, Deliveries
  <1>3. ASSUME NEW x \in Pairs PROVE Accounted(x)' /\ Received(x)'
    <2>1. Pushing(x)' = Pushing(x)
      BY <1>1, PushingSame
    <2> QED
      BY <1>1, <2>1 DEF Accounted, Received
  <1> QED
    BY <1>2, <1>3

LEMMA CeInvNext == CeInv /\ [CeNext]_ceVars => CeInv'
  <1> SUFFICES ASSUME CeInv, [CeNext]_ceVars PROVE CeInv'
    OBVIOUS
  <1>1. CASE UNCHANGED ceVars
    BY <1>1 DEF ceVars, CeInv, CeTypeOK, DeliveriesOK, Accounted, Received, Pushing
  <1> QED
    BY <1>1, CeGenerate, CePush, CeReturns, CeRaises, CeEnds DEF CeNext

\* reconcile_incoming_cdr takes a total for matched exactly within 2% of the local one.
LEMMA ReconcileExact ==
    ASSUME NEW l \in Nat, NEW t \in Nat
    PROVE  ReconcileIncoming(l, t) = IF 98 * l <= 100 * t /\ 100 * t <= 102 * l THEN "matched" ELSE "mismatched"
  <1>1. CASE t > l
    BY <1>1 DEF ReconcileIncoming
  <1>2. CASE t <= l
    BY <1>2 DEF ReconcileIncoming
  <1> QED
    BY <1>1, <1>2

(* CdrsNeitherLostNorRepeated: a record remembered as pushed was received; it  *)
(* is received again only for a push that raised or one that overlapped        *)
(* another; and a partner's report of it is reconciled against a record the    *)
(* store still has, at exactly 2% (CdrService.push_cdr_idempotent,             *)
(* generate_cdr_on_stop_transaction, reconcile_cdr_batch).                     *)
THEOREM CdrsNeitherLostNorRepeated == CeSpec => []CdrNeitherLostNorRepeated
  <1>1. CeInv => CdrNeitherLostNorRepeated
    <2> SUFFICES ASSUME CeInv, NEW x \in Pairs
                 PROVE  /\ x \in pushedCdr => receipts[x] >= 1
                        /\ receipts[x] <= 1 + raises[x] + overlaps[x]
                        /\ receipts[x] > 0 => \A l \in LocalTotals : \A t \in 0..(2 * l + 1) :
                              ReconcileReport(x[2], l, t) =
                                  IF 98 * l <= 100 * t /\ 100 * t <= 102 * l THEN "matched" ELSE "mismatched"
      BY DEF CdrNeitherLostNorRepeated
    <2>1. x \in pushedCdr => receipts[x] >= 1
      BY DEF CeInv, Received
    <2>2. receipts[x] <= 1 + raises[x] + overlaps[x]
      <3>1. Cardinality(Pushing(x)) \in Nat
        BY PushingFinite
      <3> QED
        BY <3>1 DEF CeInv, Accounted, CeTypeOK
    <2>3. ASSUME receipts[x] > 0, NEW l \in LocalTotals, NEW t \in 0..(2 * l + 1)
          PROVE  ReconcileReport(x[2], l, t) =
                     IF 98 * l <= 100 * t /\ 100 * t <= 102 * l THEN "matched" ELSE "mismatched"
      <3>1. ReconcileReport(x[2], l, t) = ReconcileIncoming(l, t)
        BY <2>3 DEF CeInv, Received, ReconcileReport
      <3>2. l \in Nat /\ t \in Nat
        BY CdrExchangeAssumption
      <3> QED
        BY <3>1, <3>2, ReconcileExact
    <2> QED
      BY <2>1, <2>2, <2>3
  <1> QED
    BY CeInvInit, CeInvNext, <1>1, PTL DEF CeSpec
==============================================================================
