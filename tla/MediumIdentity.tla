--------------------------- MODULE MediumIdentity ---------------------------
(***************************************************************************)
(* Which device, and which medium in it: the facts hostd lists             *)
(* (hostd/block_devices.py), the sampled fingerprint                       *)
(* (hostd/fingerprint.py), stable identities (hostd/identity.py,           *)
(* shared/media_identity.py), the proof a removable source needs           *)
(* (hostd/removable_sources.py) and the wizard that lets the operator      *)
(* start a scan (worker/device_wizard.py).                                 *)
(* A digest is the record that is hashed.  Sizes count sectors.            *)
(***************************************************************************)
EXTENDS Naturals, Sequences, FiniteSets

CONSTANTS Slots,        \* where a device can sit; a slot has one kernel name and number
          Reader,       \* per slot: [type, removable, hardware, byid]; "" is a missing name
          Media,        \* what can sit there: sequences of sectors
          MaxGeneration,\* bound: media changes of a slot
          None          \* Python's None

ASSUME MediaAssumption ==
    \A m \in Media : m \in Seq({m[i] : i \in DOMAIN m})

VARIABLES medium,       \* per slot: its medium, <<>> without one
          generation    \* per slot: media_change_generation

slotVars == <<medium, generation>>

SlotInit ==
    /\ medium \in [Slots -> Media \cup {<<>>}]
    /\ generation = [s \in Slots |-> 0]

\* The medium, or with a fixed disk the whole device, is exchanged or removed.
Swap(s) ==
    /\ generation[s] < MaxGeneration
    /\ \E m \in (Media \cup {<<>>}) \ {medium[s]} : medium' = [medium EXCEPT ![s] = m]
    /\ generation' = [generation EXCEPT ![s] = @ + 1]

-----------------------------------------------------------------------------
(* Sampled fingerprint *)

\* sample_plan: first, middle and last sector, as long as a sector is left over.
SamplePlan(n) ==
    LET wanted == {0, n \div 2, n - 1} \cap 0..(n - 1) IN
    {i \in wanted : Cardinality({j \in wanted : j <= i}) < n}

\* fingerprint_from_reader: no hash without a sample, or when one is short.
Fingerprint(size, samples) ==
    IF samples = <<>> \/ \E i \in DOMAIN samples : samples[i] = None
    THEN None
    ELSE [size |-> size, samples |-> samples]

\* _read_sample at sector i, with None for a read beyond the end of the medium.
Sample(m, i) == IF i < Len(m) THEN m[i + 1] ELSE None

SamplesOf(m, n) == [i \in SamplePlan(n) |-> Sample(m, i)]

-----------------------------------------------------------------------------
(* Listing and identity *)

\* One device of the listing; the medium may have no readable fingerprint.
Facts(s, readable) ==
    [slot |-> s, type |-> Reader[s].type, removable |-> Reader[s].removable,
     hardware |-> Reader[s].hardware, byid |-> Reader[s].byid,
     capacity |-> Len(medium[s]), generation |-> generation[s],
     fingerprint |-> IF readable
                     THEN Fingerprint(Len(medium[s]), SamplesOf(medium[s], Len(medium[s])))
                     ELSE None]

source_kind_for_device(d) ==
    CASE d.type = "optical" -> "optical_disc"
      [] d.type = "floppy" -> "floppy_media"
      [] d.type = "sd_card" -> "memory_card"
      [] d.type = "usb_storage" /\ d.removable -> "usb_flash"
      [] d.type \notin {"optical", "floppy", "sd_card", "usb_storage"} /\ d.removable
            -> "legacy_medium"
      [] OTHER -> "fixed_disk"

IsRemovable(d) == source_kind_for_device(d) # "fixed_disk"

\* normalize_medium_signals, is_plausible_medium
Signals(d) == [capacity |-> d.capacity, fingerprint |-> d.fingerprint,
               generation |-> d.generation]
Plausible(signals) == signals.capacity > 0 \/ signals.fingerprint # None

\* _with_identity: the hardware's name, else the by-id link, else weak facts; a
\* fixed disk's size belongs to it, a reader's does not.
ReaderIdentity(d) ==
    [prefix |-> "source",
     basis |-> CASE d.hardware # "" -> <<"hardware-facts", d.hardware>>
                 [] d.hardware = "" /\ d.byid # "" -> <<"by-id", d.byid>>
                 [] OTHER -> <<"weak-facts", d.type, d.removable>>,
     size |-> IF d.removable THEN 0 ELSE d.capacity]

\* _with_media_identity: the source is the reader together with its medium.
MediumIdentity(d) ==
    [prefix |-> "medium", reader |-> ReaderIdentity(d), signals |-> Signals(d)]

SourceId(d) == IF IsRemovable(d) THEN MediumIdentity(d) ELSE ReaderIdentity(d)

\* medium_identity_record; a fixed disk has none.
IdentityRecord(d) ==
    [reader |-> ReaderIdentity(d), signals |-> Signals(d),
     strength |-> IF d.fingerprint # None THEN "reader-plus-medium" ELSE "reader-facts",
     has_medium |-> Plausible(Signals(d))]

\* attach_stable_identities raises when two devices share an identity.
Collision(listing) ==
    \E d, e \in listing : d # e /\ SourceId(d) = SourceId(e)

-----------------------------------------------------------------------------
(* Removable sources *)

\* validate_media_identity
ReaderPrefix == "reader"
ValidRecord(r) ==
    /\ r.reader.prefix = ReaderPrefix
    /\ r.strength \in {"reader-plus-medium", "reader-facts"}

\* _prove_medium_identity
IdentityBlockers(d) ==
    LET r == IdentityRecord(d) IN
    CASE ~ValidRecord(r) -> {"medium_identity_invalid"}
      [] ValidRecord(r) /\ ~r.has_medium -> {"no_medium_present"}
      [] ValidRecord(r) /\ r.has_medium /\ r.signals.fingerprint = None
            -> {"medium_identity_weak_no_fingerprint"}
      [] OTHER -> {}

\* prepare_removable_source and require_scan_launch_approval
Approved(d, readOnlyVerified) ==
    /\ source_kind_for_device(d) \notin {"fixed_disk", "legacy_medium"}
    /\ IdentityBlockers(d) = {}
    /\ readOnlyVerified

-----------------------------------------------------------------------------
(* The device wizard *)

\* A card that has no identity record is a fixed disk's.
MediumPresent(d) == IsRemovable(d) /\ Plausible(Signals(d))
IdentityProven(d) == IsRemovable(d) /\ IdentityRecord(d).strength # "reader-facts"

\* media_change_status against the record kept for the same source
MediaChange(d, previous) ==
    CASE previous = None -> "new"
      [] previous # None /\ (previous.strength = "reader-facts" \/ ~IdentityProven(d))
            -> "unproven"
      [] OTHER ->
            IF d.fingerprint # previous.signals.fingerprint THEN "replaced_medium"
            ELSE IF d.capacity # previous.signals.capacity THEN "changed_signals"
            ELSE "same_medium"

(* Mutant: the confirmation is compared by source only. *)
ConfirmationForReader(d, confirmation) ==
    confirmation # None /\ confirmation.source.reader = MediumIdentity(d).reader
\* _confirmation_matches
ConfirmationMatches(d, confirmation) ==
    /\ confirmation # None
    /\ confirmation.source = SourceId(d)
    /\ confirmation.generation = d.generation

\* confirm_source; "conditions" are the blocking facts hostd reports of the source.
CardState(d, confirmation, previous, conditions) ==
    CASE ~MediumPresent(d) -> "empty"
      [] MediumPresent(d) /\ ~IdentityProven(d) -> "ambiguous"
      [] OTHER ->
            IF \/ MediaChange(d, previous) \in {"replaced_medium", "changed_signals"}
               \/ ~ConfirmationMatches(d, confirmation)
               \/ conditions # {}
            THEN "blocked"
            ELSE "ready"

\* wizard_state: one card, and that one ready.
CanStart(listing, confirmations, previous, conditions) ==
    /\ Cardinality(listing) = 1
    /\ \A d \in listing :
          CardState(d, confirmations[d.slot], previous[d.slot], conditions) = "ready"

=============================================================================
