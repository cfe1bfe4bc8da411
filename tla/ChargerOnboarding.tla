-------------------------- MODULE ChargerOnboarding --------------------------
(* One charger's registration and firmware: the handshake's credential, the    *)
(* upsert at boot, the operator's approval, and firmware updates, whose status *)
(* notifications carry no version and are booked on the update started last    *)
(* (InMemoryFirmwareUpdateStore).                                              *)
(* In memory the credential and the record are apart and an upsert is one      *)
(* step.  With Supabase the credential is a column of the charger's row: the   *)
(* row is there before the charger can connect, so that upsert_on_boot, a      *)
(* SELECT and a write, always finds it and its INSERT is never reached.        *)
(* The charger may be connected twice while it reconnects.                     *)
EXTENDS Naturals

CONSTANTS
    Sockets,       \* connections of the charger
    Versions,      \* firmware versions
    MaxUpdates,    \* bound: updates started
    NoVersion,
    Registries     \* the stores considered: "memory", "supabase"

ASSUME OnboardingAssumption == MaxUpdates \in Nat /\ NoVersion \notin Versions /\ Registries \subseteq {"memory", "supabase"}

VARIABLES
    registry,     \* which stores the process was built with
    credential,   \* ws_credential_hash matches the secret the charger has
    rowStatus,    \* charger.status: "none" before the row exists
    rowVersion,   \* charger.firmware_version
    boot,         \* upsert_on_boot on each socket: [pc, seen, version]
    approved,     \* the operator has approved the charger
    running,      \* the version the charger runs
    job,          \* the update the charger is at: [version, stage]
    update,       \* FirmwareUpdateRecord.status by version
    latest,       \* _latest_version_by_charger
    notice,       \* the firmware status each socket's handler is at: [version, stage]
    started,      \* updates started
    crossed,      \* versions started while another update, or its last report, was under way
    installed     \* versions the charger has installed

obVars == <<registry, credential, rowStatus, rowVersion, boot, approved, running, job, update, latest, notice, started, crossed, installed>>
firmwareVars == <<running, job, update, latest, notice, started, crossed, installed>>
registryVars == <<registry, credential, rowStatus, rowVersion, boot, approved>>

NoBoot == [pc |-> "closed", seen |-> "none", version |-> NoVersion]
NoJob == [version |-> NoVersion, stage |-> "none"]
Stages == {"downloading", "installing", "installed", "failed"}

ObTypeOK ==
    /\ registry \in Registries /\ credential \in BOOLEAN /\ approved \in BOOLEAN
    /\ rowStatus \in {"none", "pending", "approved"}
    /\ rowVersion \in Versions \cup {NoVersion} /\ running \in Versions
    /\ boot \in [Sockets -> [pc: {"closed", "open", "selected", "booted"}, seen: {"none", "pending", "approved"},
                             version: Versions \cup {NoVersion}]]
    /\ job \in [version: Versions \cup {NoVersion}, stage: Stages \cup {"none"}]
    /\ update \in [Versions -> {"none", "pending"} \cup Stages]
    /\ latest \in Versions \cup {NoVersion}
    /\ notice \in [Sockets -> [version: Versions \cup {NoVersion}, stage: Stages \cup {"none"}]]
    /\ started \in 0..MaxUpdates /\ crossed \subseteq Versions /\ installed \subseteq Versions

ObInit ==
    /\ registry \in Registries
    /\ credential = FALSE /\ rowStatus = "none" /\ rowVersion = NoVersion /\ approved = FALSE
    /\ boot = [k \in Sockets |-> NoBoot]
    /\ running \in Versions
    /\ job = NoJob /\ notice = [k \in Sockets |-> NoJob] /\ latest = NoVersion
    /\ update = [v \in Versions |-> "none"]
    /\ started = 0 /\ crossed = {} /\ installed = {}

------------------------------------------------------------------------------
\* The operator's SQL puts the charger's row there (external).
SeedCharger ==
    /\ registry = "supabase" /\ rowStatus = "none"
    /\ rowStatus' = "pending"
    /\ UNCHANGED <<registry, credential, rowVersion, boot, approved, firmwareVars>>

\* set_credential gives the charger's secret, or another; Supabase updates no row
\* when there is none.
SetCredential(right) ==
    /\ credential' = IF registry = "memory" \/ rowStatus # "none" THEN right ELSE credential
    /\ UNCHANGED <<registry, rowStatus, rowVersion, boot, approved, firmwareVars>>

\* The handshake verifies the secret; otherwise the socket is refused.
Connect(k) ==
    /\ boot[k].pc = "closed" /\ credential
    /\ boot' = [boot EXCEPT ![k].pc = "open"]
    /\ UNCHANGED <<registry, credential, rowStatus, rowVersion, approved, firmwareVars>>

Disconnect(k) ==
    /\ boot[k].pc # "closed"
    /\ boot' = [boot EXCEPT ![k] = NoBoot]
    /\ UNCHANGED <<registry, credential, rowStatus, rowVersion, approved, firmwareVars>>

\* A socket's loop is at its next frame.
AtFrame(k) == boot[k].pc \in {"open", "booted"} /\ notice[k] = NoJob

\* BootNotification, in memory: the record is made, or all of it but the status replaced.
UpsertOnBoot(k) ==
    /\ registry = "memory" /\ AtFrame(k)
    /\ rowStatus' = IF rowStatus = "none" THEN "pending" ELSE rowStatus
    /\ rowVersion' = running
    /\ boot' = [boot EXCEPT ![k] = [pc |-> "booted", seen |-> rowStatus', version |-> running]]
    /\ UNCHANGED <<registry, credential, approved, firmwareVars>>

\* BootNotification, with Supabase: the SELECT of upsert_on_boot.
BootNotification(k) ==
    /\ registry = "supabase" /\ AtFrame(k)
    /\ boot' = [boot EXCEPT ![k] = [pc |-> "selected", seen |-> rowStatus, version |-> running]]
    /\ UNCHANGED <<registry, credential, rowStatus, rowVersion, approved, firmwareVars>>

\* Variant: the row is written back with the status that was read.
StatusWrittenBack(k) == boot[k].seen

\* The UPDATE leaves the status alone.
StatusAfterBoot(k) == rowStatus

UpdateCharger(k) ==
    /\ boot[k].pc = "selected"
    /\ rowStatus' = StatusAfterBoot(k)
    /\ rowVersion' = boot[k].version
    /\ boot' = [boot EXCEPT ![k].pc = "booted"]
    /\ UNCHANGED <<registry, credential, approved, firmwareVars>>

\* The operator approves the pending charger.
Approve ==
    /\ rowStatus = "pending"
    /\ rowStatus' = "approved" /\ approved' = TRUE
    /\ UNCHANGED <<registry, credential, rowVersion, boot, firmwareVars>>

------------------------------------------------------------------------------
UpdateUnderWay == job # NoJob \/ \E k \in Sockets : notice[k] # NoJob

\* Variant: an update of the charger that is known already stays the latest.
FirstVersion(v) == IF latest = NoVersion THEN v ELSE latest

\* start_update: whichever update is started last.
LatestVersion(v) == v

\* start_firmware_update: recorded before the command is sent, which may not
\* reach the charger or be refused.
StartFirmwareUpdate(v) ==
    /\ started < MaxUpdates
    /\ started' = started + 1
    /\ update' = [update EXCEPT ![v] = "pending"]
    /\ latest' = LatestVersion(v)
    /\ crossed' = IF UpdateUnderWay THEN crossed \cup {v} ELSE crossed \ {v}
    /\ \/ job' = [version |-> v, stage |-> "downloading"]
       \/ UNCHANGED job
    /\ UNCHANGED <<registryVars, running, notice, installed>>

\* What the charger reports next.
NextStage(stage) ==
    CASE stage = "downloading" -> {"installing", "failed"}
      [] stage = "installing" -> {"installed", "failed"}
      [] OTHER -> {}

\* FirmwareStatusNotification on any open socket, booted or not, up to the
\* publishing of its event.
FirmwareStatus(k) ==
    /\ job # NoJob /\ AtFrame(k)
    /\ notice' = [notice EXCEPT ![k] = job]
    /\ job' \in [version: {job.version}, stage: NextStage(job.stage)] \cup {NoJob}
    /\ job' = NoJob <=> NextStage(job.stage) = {}
    /\ IF job.stage = "installed"
       THEN running' = job.version /\ installed' = installed \cup {job.version}
       ELSE UNCHANGED <<running, installed>>
    /\ UNCHANGED <<registryVars, update, latest, started, crossed>>

\* Then get_latest_for_charger and update_status.
FirmwareStatusBooked(k) ==
    /\ notice[k] # NoJob
    /\ update' = IF latest = NoVersion THEN update ELSE [update EXCEPT ![latest] = notice[k].stage]
    /\ notice' = [notice EXCEPT ![k] = NoJob]
    /\ UNCHANGED <<registryVars, running, job, latest, started, crossed, installed>>

\* Or the publishing raises and the socket ends.
FirmwareStatusLost(k) ==
    /\ notice[k] # NoJob
    /\ notice' = [notice EXCEPT ![k] = NoJob]
    /\ boot' = [boot EXCEPT ![k] = NoBoot]
    /\ UNCHANGED <<registry, credential, rowStatus, rowVersion, approved>>
    /\ UNCHANGED <<running, job, update, latest, started, crossed, installed>>

ObNext ==
    \/ \E right \in BOOLEAN : SetCredential(right)
    \/ \E k \in Sockets :
          \/ Connect(k) \/ Disconnect(k) \/ UpsertOnBoot(k) \/ BootNotification(k) \/ UpdateCharger(k)
          \/ FirmwareStatus(k) \/ FirmwareStatusBooked(k) \/ FirmwareStatusLost(k)
    \/ SeedCharger \/ Approve
    \/ \E v \in Versions : StartFirmwareUpdate(v)

ObSpec == ObInit /\ [][ObNext]_obVars

------------------------------------------------------------------------------
(* ApprovalSurvives: boots on two sockets and the operator's approval           *)
(* interleave between the SELECT and the write of upsert_on_boot                *)
(* (supabase_ocpp.py:44-70).  A charger once approved stays approved.           *)
ApprovalSurvives == approved => rowStatus = "approved"

(* FirmwareStatusIsItsOwn: a status names no version and is booked, after its   *)
(* event was published and perhaps behind one of the other socket, on the       *)
(* update started last (message_handlers.py:172-177).                           *)
(* An update is shown as installed only if the charger has installed it, unless *)
(* it was started while another was under way.                                  *)
FirmwareStatusIsItsOwn ==
    \A v \in Versions : update[v] = "installed" => v \in installed \cup crossed
==============================================================================
