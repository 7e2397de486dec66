------------------------------- MODULE MCHost -------------------------------
(***************************************************************************)
(* The host's safety daemon and what relies on it.  A behaviour is about   *)
(* one part: the launch of a scan (with the audit log and the exchange of  *)
(* media), the wizard, the audit log with two busy writers, or the         *)
(* inspection of storage; the state of the others stays as it is.          *)
(***************************************************************************)
EXTENDS ScanLaunch, StorageTopology

CONSTANT LaunchSlot     \* the slot whose scan is launched

VARIABLE part           \* the part this behaviour is about

MCSlots == {"disk", "card"}
MCReader ==
    [s \in MCSlots |->
        IF s = "disk" THEN [type |-> "disk", removable |-> FALSE, hardware |-> "", byid |-> ""]
        ELSE [type |-> "sd_card", removable |-> TRUE, hardware |-> "w1", byid |-> ""]]

\* Two media that differ in a sampled sector only.
MCMedia == {<<1, 1, 1, 1>>, <<1, 1, 1, 2>>}

\* The source with a partition, a stack of two devices that spans another disk,
\* and a device of a kind that hostd does not know.
MCNodes == {"sda", "sda1", "dm0", "dm1", "sdb", "lo"}
MCStackable == {<<"sda1", "dm0">>, <<"dm0", "dm1">>, <<"sdb", "dm1">>, <<"sda", "lo">>}
MCMounts ==
    {[dev |-> "dm1", point |-> "/export", rw |-> TRUE, network |-> FALSE],
     [dev |-> "sdb", point |-> "/export", rw |-> TRUE, network |-> FALSE],
     [dev |-> "dm1", point |-> "/", rw |-> FALSE, network |-> FALSE],
     [dev |-> "sdb", point |-> "/", rw |-> TRUE, network |-> TRUE]}

MaxLaunchRecords == 2   \* bound: records built in a behaviour about a launch

MCInit ==
    /\ HostInit /\ TopologyInit
    /\ part \in {"launch", "wizard", "audit", "topology"}
    /\ part = "launch" => \A s \in Slots \ {LaunchSlot} : medium[s] = <<>>
    /\ part = "wizard" => medium["disk"] = <<>>
    /\ part \in {"audit", "topology"} => \A s \in Slots : medium[s] = <<>>
    /\ part # "topology" => mounts = <<>> /\ holders = {}

MCNext ==
    /\ UNCHANGED part
    /\ \/ part = "launch" /\ LaunchNext(LaunchSlot) /\ built' <= MaxLaunchRecords
            /\ UNCHANGED topologyVars
       \/ part = "wizard" /\ WizardNext("card") /\ UNCHANGED topologyVars
       \/ part = "audit" /\ AuditNext /\ UNCHANGED <<slotVars, launchVars, topologyVars>>
       \/ part = "topology" /\ TopologyNext /\ UNCHANGED hostVars

MCSpec == MCInit /\ [][MCNext]_<<hostVars, topologyVars, part>>
=============================================================================
