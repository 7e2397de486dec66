----------------------------- MODULE ScanLaunch -----------------------------
(***************************************************************************)
(* From the operator's confirmation to a scanner that trusts its source:   *)
(* the scan routes of api/app.py, the request check of hostd/protocol.py,  *)
(* kernel read-only preparation (hostd/read_only.py), the audited launch   *)
(* (hostd/scanner_sandbox.py) and the scanner's own check                  *)
(* (scanner/source_validation.py), while media are exchanged and other     *)
(* processes write to the audit log.  A route of the API has no await, so  *)
(* routes do not interleave with each other; kernel, hostd's other         *)
(* clients and running scanners do.  The dispatcher that joins hostd's     *)
(* functions is not in the repository: the order of the calls is the       *)
(* API's, their arguments are what the functions require.                  *)
(***************************************************************************)
EXTENDS AuditLog, MediumIdentity

CONSTANTS HostD, Other,   \* the two processes that write to the audit log
          Conditions,     \* blocking facts the wizard is shown
          MaxScanners     \* bound: scanners ever launched

ASSUME LaunchAssumption ==
    /\ Appenders = {HostD, Other} /\ HostD # Other
    /\ {"scanner_sandbox_profile", "device_resolution"} \subseteq AuditEvents

Targets(s) == <<<<s, "disk">>, <<s, "partition">>>>     \* a source, then its children

VARIABLES
    kro,            \* nodes the kernel holds read-only
    confirmations,  \* app.state.source_confirmations, with the facts confirmed
    request,        \* the start_scan request under way
    scanners,       \* scanners launched, oldest first
    cases,          \* scan_cases rows
    wizard          \* the wizard's confirmation and what it let start

launchVars == <<kro, confirmations, request, scanners, cases, wizard>>
hostVars == <<auditVars, slotVars, launchVars>>

NoRequest == [at |-> "idle", confirmation |-> None, todo |-> <<>>, verified |-> {}]
NoWizard == [confirmed |-> None, started |-> None]

HostInit ==
    /\ AuditInit /\ SlotInit
    /\ kro = {} /\ confirmations = {} /\ request = NoRequest
    /\ scanners = <<>> /\ cases = {} /\ wizard = NoWizard

\* validate_request: the source is listed with the generation the caller saw.
Current(c) ==
    /\ c.generation = generation[c.slot]
    /\ c.facts.capacity = Len(medium[c.slot])

-----------------------------------------------------------------------------
(* Media, and what the kernel does when they change *)

\* A new medium may come up writable; a scanner that holds the old one is unsettled.
HostSwap(s) ==
    /\ Swap(s)
    /\ kro' \in {kro, kro \ Range(Targets(s))}
    /\ scanners' = [k \in DOMAIN scanners |->
            IF scanners[k].slot = s THEN [scanners[k] EXCEPT !.steady = FALSE]
            ELSE scanners[k]]
    /\ UNCHANGED <<auditVars, confirmations, request, cases, wizard>>

-----------------------------------------------------------------------------
(* The API's routes *)

\* scan_preview after inspect_safety found the source safe; the listing failed
\* altogether when two devices shared an identity.
Preview(s, readable) ==
    LET d == Facts(s, readable) IN
    /\ request.at = "idle" /\ d.capacity > 0
    /\ ~Collision({Facts(r, readable) : r \in Slots})
    /\ confirmations' =
            {c \in confirmations : c.source # SourceId(d)}
              \cup {[source |-> SourceId(d), slot |-> s, generation |-> d.generation,
                     facts |-> d, fresh |-> TRUE]}
    /\ UNCHANGED <<auditVars, slotVars, kro, request, scanners, cases, wizard>>

\* CONFIRMATION_TOKEN_TTL_SECONDS go by.
ConfirmationExpires(c) ==
    /\ c \in confirmations /\ c.fresh
    /\ confirmations' = (confirmations \ {c}) \cup {[c EXCEPT !.fresh = FALSE]}
    /\ UNCHANGED <<auditVars, slotVars, kro, request, scanners, cases, wizard>>

\* start_scan: _require_confirmation, _ensure_no_active_case, and the call of
\* prepare_read_only, refused when the generation is stale.
StartScan(c) ==
    /\ request.at = "idle" /\ Len(scanners) < MaxScanners
    /\ c \in confirmations /\ c.fresh
    /\ ~\E case \in cases : case.source = c.source
    /\ Current(c)
    /\ request' = [at |-> "set", confirmation |-> c,
                   todo |-> Targets(c.slot), verified |-> {}]
    /\ UNCHANGED <<auditVars, slotVars, kro, confirmations, scanners, cases, wizard>>

RequestFails ==
    /\ request' = NoRequest
    /\ UNCHANGED <<slotVars, kro, confirmations, scanners, cases, wizard>>

\* _create_scan_case
CreateCase ==
    /\ request.at = "insert"
    /\ cases' = cases \cup {[source |-> request.confirmation.source, state |-> "running",
                             session |-> Len(scanners)]}
    /\ request' = NoRequest
    /\ UNCHANGED <<auditVars, slotVars, kro, confirmations, scanners, wizard>>

\* pause and safe-stop: the session is stopped, whatever state the case is in.
PauseScan(case) ==
    /\ request.at = "idle" /\ case \in cases
    /\ scanners' = [scanners EXCEPT ![case.session].at = "stopped"]
    /\ cases' = (cases \ {case}) \cup {[case EXCEPT !.state = "paused"]}
    /\ UNCHANGED <<auditVars, slotVars, kro, confirmations, request, wizard>>

\* resume: hostd reconnects, and the case is running, whatever state it was in.
ResumeScan(case) ==
    /\ request.at = "idle" /\ case \in cases /\ case.state # "running"
    /\ cases' = (cases \ {case}) \cup {[case EXCEPT !.state = "running"]}
    /\ UNCHANGED <<auditVars, slotVars, kro, confirmations, request, scanners, wizard>>

\* The API dies; its confirmations were in memory only.
ApiCrash ==
    /\ request.at # "idle"
    /\ request' = NoRequest /\ confirmations' = {}
    /\ UNCHANGED <<auditVars, slotVars, kro, scanners, cases, wizard>>

-----------------------------------------------------------------------------
(* hostd: read-only preparation and launch *)

\* prepare_read_only: BLKROSET on the next target.
SetReadOnly ==
    /\ request.at = "set"
    /\ kro' = kro \cup {Head(request.todo)}
    /\ request' = [request EXCEPT !.at = "verify"]
    /\ UNCHANGED <<auditVars, slotVars, confirmations, scanners, cases, wizard>>

\* BLKROGET on the target that was set.
VerifyReadOnly ==
    /\ request.at = "verify" /\ Head(request.todo) \in kro
    /\ request' = [request EXCEPT
            !.todo = Tail(@), !.verified = @ \cup {Head(request.todo)},
            !.at = IF Len(request.todo) = 1 THEN "launch" ELSE "set"]
    /\ UNCHANGED <<auditVars, slotVars, kro, confirmations, scanners, cases, wizard>>

\* A failed ioctl, or a target found writable: the others are still prepared.
TargetFails ==
    /\ request.at \in {"set", "verify"}
    /\ request' = [request EXCEPT
            !.todo = Tail(@), !.at = IF Len(request.todo) = 1 THEN "launch" ELSE "set"]
    /\ UNCHANGED <<auditVars, slotVars, kro, confirmations, scanners, cases, wizard>>

\* build_scanner_launch wants every target verified; a removable source needs an
\* approval too; the device must still open under its name and number.
MayLaunch ==
    LET c == request.confirmation IN
    /\ Current(c)
    /\ request.verified = Range(Targets(c.slot))
    /\ IsRemovable(c.facts) => Approved(c.facts, TRUE)
    /\ medium[c.slot] # <<>>

\* launch_scanner: the profile is appended to the audit log before the run.
LaunchAudits ==
    /\ request.at = "launch" /\ MayLaunch
    /\ AuditBegin(HostD, "scanner_sandbox_profile")
    /\ request' = [request EXCEPT !.at = "audit"]
    /\ UNCHANGED <<slotVars, kro, confirmations, scanners, cases, wizard>>

LaunchRefused ==
    /\ request.at = "launch" /\ ~MayLaunch
    /\ RequestFails /\ UNCHANGED auditVars

NewScanner(c, record) ==
    [at |-> "started", slot |-> c.slot, expected |-> c.facts,
     samples |-> <<>>, steady |-> TRUE, audited |-> record]

(* Mutant: the launch goes ahead whatever the append came to. *)
RunsUnaudited == auditor[HostD].at \in {"returned", "raised"}
RunsAudited == auditor[HostD].at = "returned"

RunScanner ==
    /\ request.at = "audit" /\ RunsAudited
    /\ scanners' = Append(scanners, NewScanner(request.confirmation, auditor[HostD].last))
    /\ request' = [request EXCEPT !.at = "insert"]
    /\ AuditReturn(HostD)
    /\ UNCHANGED <<slotVars, kro, confirmations, cases, wizard>>

\* The append raised, or the runtime did not start.
RunFails ==
    /\ request.at = "audit" /\ AuditReturn(HostD)
    /\ RequestFails

\* A dead API leaves hostd to finish its append alone.
AuditAbandoned ==
    /\ request.at # "audit" /\ AuditReturn(HostD)
    /\ UNCHANGED <<slotVars, launchVars>>

\* hostd goes on with the append; another process appends, rotates or dies.
AuditActivity ==
    /\ \/ \E p \in Appenders : AuditStep(p)
       \/ AuditCrash(Other)
       \/ \E e \in {"device_resolution", "continuation"} : AuditBegin(Other, e)
       \/ AuditReturn(Other)
    /\ UNCHANGED <<slotVars, launchVars>>

-----------------------------------------------------------------------------
(* scanner: validate_source *)

Sampled(k) == Len(scanners[k].samples)
\* The sectors to sample, in ascending order.
PlanOf(k) ==
    LET plan == SamplePlan(scanners[k].expected.capacity) IN
    [i \in 1..Cardinality(plan) |->
        CHOOSE x \in plan : Cardinality({y \in plan : y <= x}) = i]

\* lstat, open and fstat of the node: it is the same node throughout.
ScannerOpens(k) ==
    /\ scanners[k].at = "started" /\ medium[scanners[k].slot] # <<>>
    /\ scanners' = [scanners EXCEPT ![k].at = "sampling", ![k].steady = TRUE]
    /\ UNCHANGED <<auditVars, slotVars, kro, confirmations, request, cases, wizard>>

ScannerSamples(k) ==
    /\ scanners[k].at = "sampling" /\ Sampled(k) < Len(PlanOf(k))
    /\ scanners' = [scanners EXCEPT ![k].samples =
            Append(@, Sample(medium[scanners[k].slot], PlanOf(k)[Sampled(k) + 1]))]
    /\ UNCHANGED <<auditVars, slotVars, kro, confirmations, request, cases, wizard>>

(* Mutant: any fingerprint will do. *)
MatchesAnything(actual, expected) == actual # None /\ expected # None
MatchesExpected(actual, expected) == actual # None /\ actual = expected

ScannerCompares(k) ==
    LET actual == Fingerprint(scanners[k].expected.capacity,
                    [i \in SamplePlan(scanners[k].expected.capacity) |->
                        scanners[k].samples[CHOOSE j \in DOMAIN PlanOf(k) : PlanOf(k)[j] = i]])
    IN
    /\ scanners[k].at = "sampling" /\ Sampled(k) = Len(PlanOf(k))
    /\ scanners' = [scanners EXCEPT ![k].at =
            IF MatchesExpected(actual, scanners[k].expected.fingerprint)
            THEN "validated" ELSE "stopped"]
    /\ UNCHANGED <<auditVars, slotVars, kro, confirmations, request, cases, wizard>>

ScannerEnds(k) ==
    /\ scanners[k].at \in {"started", "sampling", "validated"}
    /\ scanners' = [scanners EXCEPT ![k].at = "stopped"]
    /\ UNCHANGED <<auditVars, slotVars, kro, confirmations, request, cases, wizard>>

-----------------------------------------------------------------------------
(* The wizard: the operator confirms a card, and starts from a later listing *)

WizardConfirm(s, readable) ==
    LET d == Facts(s, readable) IN
    /\ wizard' = [wizard EXCEPT !.confirmed =
            [source |-> SourceId(d), generation |-> d.generation, facts |-> d]]
    /\ UNCHANGED <<auditVars, slotVars, kro, confirmations, request, scanners, cases>>

WizardStart(s, readable, conditions) ==
    LET d == Facts(s, readable) IN
    /\ wizard.confirmed # None
    /\ CanStart({d}, [r \in {s} |-> wizard.confirmed],
                [r \in {s} |-> IF wizard.confirmed.source = SourceId(d)
                               THEN IdentityRecord(wizard.confirmed.facts) ELSE None],
                conditions)
    /\ wizard' = [wizard EXCEPT !.started = [confirmed |-> wizard.confirmed.facts, now |-> d]]
    /\ UNCHANGED <<auditVars, slotVars, kro, confirmations, request, scanners, cases>>

-----------------------------------------------------------------------------
\* The wizard at work on slot s.
WizardNext(s) ==
    \/ HostSwap(s)
    \/ \E readable \in BOOLEAN :
            \/ WizardConfirm(s, readable)
            \/ \E conditions \in SUBSET Conditions : WizardStart(s, readable, conditions)

\* A scan of slot s, from its preview to its scanner.
LaunchNext(s) ==
    \/ HostSwap(s)
    \/ \E readable \in BOOLEAN : Preview(s, readable)
    \/ \E c \in confirmations : ConfirmationExpires(c) \/ StartScan(c)
    \/ SetReadOnly \/ VerifyReadOnly \/ TargetFails \/ LaunchAudits \/ LaunchRefused
    \/ RunScanner \/ RunFails \/ AuditAbandoned \/ AuditActivity
    \/ CreateCase \/ ApiCrash
    \/ \E case \in cases : PauseScan(case) \/ ResumeScan(case)
    \/ \E k \in DOMAIN scanners :
            ScannerOpens(k) \/ ScannerSamples(k) \/ ScannerCompares(k) \/ ScannerEnds(k)

WizardSpec(s) == HostInit /\ [][WizardNext(s)]_hostVars
LaunchSpec == HostInit /\ [][\E s \in Slots : LaunchNext(s)]_hostVars

-----------------------------------------------------------------------------
(* Properties *)

\* hostd/scanner_sandbox.py launch_scanner: no scanner has ever been started
\* without a record of its own in the audit trail, however the log was rotated,
\* torn or shared in the meantime.
LaunchedIsAudited ==
    /\ \A k \in DOMAIN scanners : \E f \in Files : \E i \in DOMAIN File(f) :
          /\ File(f)[i].hash = scanners[k].audited
          /\ File(f)[i].event = "scanner_sandbox_profile"
    /\ \A j, k \in DOMAIN scanners : j # k => scanners[j].audited # scanners[k].audited

\* scanner/source_validation.py: a scanner that goes on to its parsers reads a
\* medium with the sampled sectors the operator confirmed, whatever was
\* exchanged between listing, preparation, launch and opening.
ValidatedIsConfirmed ==
    \A k \in DOMAIN scanners :
        scanners[k].at = "validated" /\ scanners[k].steady =>
            SamplesOf(medium[scanners[k].slot], scanners[k].expected.capacity)
                = scanners[k].expected.fingerprint.samples

\* worker/device_wizard.py: what the wizard lets start is the medium that was
\* confirmed, also after it left the reader and another one was in there.
WizardStartsConfirmed ==
    wizard.started # None =>
        /\ wizard.started.now.fingerprint # None
        /\ wizard.started.now = wizard.started.confirmed

\* hostd/removable_sources.py: "Prepares flash/card, optical, and floppy readers
\* for a scan": with a fingerprinted medium and every node verified read-only,
\* nothing refuses the launch.
RemovableIsApproved ==
    request.at = "launch" /\ IsRemovable(request.confirmation.facts)
            /\ request.confirmation.facts.fingerprint # None
            /\ request.verified = Range(Targets(request.confirmation.slot))
            /\ Current(request.confirmation)
        => MayLaunch

=============================================================================
