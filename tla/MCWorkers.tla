------------------------------ MODULE MCWorkers ------------------------------
(***************************************************************************)
(* What the workers and the catalog do beside the scan.  The components    *)
(* share no state, so a behaviour is about one of them, and the state of   *)
(* the others stays as it began, in one state of theirs.                   *)
(***************************************************************************)
EXTENDS Checkpoints, Vault, Enrichment, Notifications, Review, Migrations,
        Fat12, DuplicateGroups, ParserJobs, StateBackup, DiskLayout, EntryRecovery,
        ScannerMessages, ExportPaths, SecretUse, FindingViews

VARIABLE part           \* the component this behaviour is about

Parts == {"checkpoints", "vault", "audit", "enrichment", "notifications", "review",
          "migrations", "floppy", "splits", "groups", "parsers", "backup", "layout", "entries",
          "messages", "exports", "reveals", "trials", "views"}

\* A local endpoint with a name of the local network, and a remote one.
MCMode == [lan |-> "local", far |-> "remote"]
MCWeight == [lan |-> 1, far |-> 1]
MCHostOf == [lan |-> "box.lan", far |-> "10.0.0.1"]
MCHostKind == [h \in {"box.lan", "10.0.0.1"} |-> IF h = "box.lan" THEN "lan" ELSE "private"]

\* Counted and plain events; quiet hours across midnight, within a day, and empty.
\* Every enabled rule is throttled or notifies once, or a behaviour would not end.
Rule(threshold, once, throttle, quiet) ==
    [enabled |-> TRUE, threshold |-> threshold, once |-> once, throttle |-> throttle,
     quiet |-> quiet]
MCRuleSets ==
    {[counted |-> Rule(1, TRUE, 0, <<3, 1>>), plain |-> Rule(-1, FALSE, 2, <<>>)],
     [counted |-> Rule(-1, TRUE, 2, <<2, 3>>),
      plain |-> [Rule(-1, FALSE, 0, <<2, 2>>) EXCEPT !.enabled = FALSE]]}

\* Two findings of one second, and one of the next.
MCCreatedAt == <<1, 1, 2>>

\* Two processes of one release, and one of the release before.
MCTargetOf == [a |-> 3, b |-> 3, c |-> 2]

MCBadSectors == {{}, {7}}

\* Exact and near groups are of interest one at a time.
MCCandidateSets ==
    LET exact == [digest : [Candidates -> Digests], size : [Candidates -> {1, 2}],
                  alike : {{}}, previewless : {{}}, pathless : {{}}]
        near == [digest : {[f \in Candidates |-> NoDigest]},
                 size : {[f \in Candidates |-> IF f = 3 THEN 2 ELSE 1]},
                 alike : SUBSET {s \in SUBSET Candidates : Cardinality(s) = 2} \ {{}},
                 previewless : SUBSET {1, 2}, pathless : SUBSET {2, 3}]
    IN exact \cup near

\* Rows of mmls that are marked or described, with their own length or none; sectors
\* with a signature, an old signature, or none.
MCTableRows == {r \in Rows : r.count \in {0, r.end - r.start + 1} /\ (r.meta \/ r.free)}
MCSectorMarks ==
    {[signature |-> "none", stale |-> FALSE], [signature |-> "ntfs", stale |-> FALSE],
     [signature |-> "fat", stale |-> TRUE]}

\* Contents of every kind, with names that fit and do not; what the tools print of them.
Content(id, kind, markers, extension) ==
    [id |-> id, kind |-> kind, markers |-> markers, extension |-> extension]
MCContents ==
    {Content("a", "jpeg", 1, NoKind), Content("b", "jpeg", 1, "jpeg"),
     Content("c", "jpeg", 2, "jpeg"), Content("d", "pdf", 1, "jpeg"),
     Content("f", "pdf", 1, "pdf"),
     Content("g", "video", 0, "video"), Content("h", "zip", 1, NoKind),
     Content("i", "pe", 1, NoKind), Content("j", "plain", 0, "plain")}
ToolLine ==
    [status |-> "complete", kind |-> "small", mime |-> "safe", uri |-> "scratch", size |-> 1,
     dim |-> 1, seconds |-> 0, derived |-> TRUE, original |-> "a", of |-> "none",
     parts |-> <<>>, locked |-> FALSE]
MCToolLines ==
    {ToolLine, [ToolLine EXCEPT !.kind = "large"], [ToolLine EXCEPT !.mime = "unsafe"],
     [ToolLine EXCEPT !.uri = "else"],
     [ToolLine EXCEPT !.dim = 3, !.size = 3, !.derived = FALSE],
     [ToolLine EXCEPT !.kind = "clip", !.original = "g"],
     [ToolLine EXCEPT !.status = "failed"]}
LinePart == [number |-> 1, mime |-> "safe", uri |-> "scratch", size |-> 1, dim |-> 1,
             harm |-> "none"]
LineParts ==
    {LinePart, [LinePart EXCEPT !.number = 0, !.harm = "link"],
     [LinePart EXCEPT !.uri = "else", !.harm = "bomb"], [LinePart EXCEPT !.dim = 0],
     [LinePart EXCEPT !.size = 3]}
MCPartedLines ==
    {[ToolLine EXCEPT !.parts = s] : s \in BoundedSeq(LineParts, 3)}
    \cup {[ToolLine EXCEPT !.status = "corrupt"], [ToolLine EXCEPT !.size = 3],
          [ToolLine EXCEPT !.locked = TRUE, !.parts = <<LinePart>>],
          [ToolLine EXCEPT !.dim = 3, !.parts = <<LinePart>>]}

\* A file and a directory of one name, two places of one name, and a stream.
MCPaths == {<<"a">>, <<"a", "b">>, <<"c", "b">>, <<"a", "b", "a">>, <<"a", "b:s">>}
MCObjectIds == {<<5, 1>>, <<5, 2>>, <<6, 1>>}

\* Two stages, a batch, and a message about nothing.
MCMessageKinds == {<<"progress", "s">>, <<"pause_ack", "s">>, <<"finding_batch", "b">>,
                   <<"hello", "">>}

\* Names that become one, in one directory and below each other.
MCSourcePaths ==
    {<<Plain("a")>>, <<Plain("A")>>, <<Plain("a.")>>, <<Ending(Plain("a"), 1)>>,
     <<Plain(".."), Plain("a")>>, <<>>, <<Plain("blank")>>, <<Plain("CON"), Plain("a")>>,
     <<Plain("a"), Plain("..a"), Plain("a")>>}

MCPolicies ==
    [mode : {"authenticated", "unauthenticated_lan", "denied"}, hide : {1}, clear : {1},
     ackRequired : BOOLEAN]
MCSecretSets == {<<>>, <<<<1>>>>, <<<<1, 1>>, <<1>>>>, <<<<1>>, <<2, 1>>, <<1>>>>}

\* Rows of one sort value and of others, with and without each field a filter reads.
Row(value, category, date, size, interest, corrupt, hidden) ==
    [value |-> value, category |-> category, date |-> date, size |-> size,
     interest |-> interest, corrupt |-> corrupt, hidden |-> hidden]
MCEntryRows ==
    {Row(0, 1, 0, 1, 1, FALSE, {}), Row(1, 1, 2, -1, -1, FALSE, {}),
     Row(1, 2, 2, 2, 1, TRUE, {"noise"}), Row(2, 0, 1, 1, 0, FALSE, {})}
OpenFilter == [categories |-> {}, from |-> -1, to |-> -1, min_size |-> -1, max_size |-> -1,
               corrupt |-> BOOLEAN, min_interest |-> -1, include |-> {}]
MCRawFilters ==
    {OpenFilter, [OpenFilter EXCEPT !.categories = {0, 1, 2}, !.include = {"noise", "dismissed"}],
     [OpenFilter EXCEPT !.from = 1, !.to = 2, !.min_size = 0, !.max_size = 1],
     [OpenFilter EXCEPT !.min_interest = 0, !.corrupt = {FALSE}]}

MCInit ==
    /\ part \in Parts
    /\ CkptInit /\ VaultInit /\ AuditInit
    /\ EnrichInit /\ (part # "enrichment" => \A n \in Names : resolves[n] = "none")
    /\ NotifyInit /\ (part # "notifications" => \A r \in RuleSets : rules = r \/ ~r.plain.enabled)
    /\ ReviewInit /\ (part # "review" => findings = <<>>)
    /\ MigrateInit /\ (part # "migrations" => history = <<>>)
    /\ IF part = "floppy" THEN FatInit ELSE floppy = NotScanned /\ scan = NotScanned
    /\ IF part = "splits" THEN SplitInit ELSE work = Uncut /\ split = Uncut
    /\ IF part = "groups" THEN GroupInit ELSE media = Ungrouped /\ grouping = Ungrouped
    /\ ParserInit /\ BackupInit
    /\ IF part = "layout" THEN LayoutInit ELSE medium = NotLooked /\ layout = NotLooked
    /\ IF part = "entries" THEN EntryInit
       ELSE listing = NotAsked /\ listed = NotAsked /\ deleted = NotAsked /\ recovered = NotAsked
    /\ MessagesInit
    /\ IF part = "exports" THEN ExportPathsInit ELSE export = NoExport /\ plan = NoPlan
    /\ IF part = "views" THEN ViewInit ELSE catalog = <<>> /\ viewer = Unopened /\ moves = 0
    /\ SecretInit /\ (part # "reveals" => policy = CHOOSE p \in Policies : TRUE)

MCNext ==
    /\ UNCHANGED part
    /\ IF part = "checkpoints" THEN CkptNext ELSE UNCHANGED ckptVars
    /\ IF part = "vault" THEN VaultNext ELSE UNCHANGED vaultVars
    /\ IF part = "audit" THEN AuditNext ELSE UNCHANGED auditVars
    /\ IF part = "enrichment" THEN EnrichNext ELSE UNCHANGED enrichVars
    /\ IF part = "notifications" THEN NotifyNext ELSE UNCHANGED notifyVars
    /\ IF part = "review" THEN ReviewNext ELSE UNCHANGED reviewVars
    /\ IF part = "migrations" THEN MigrateNext ELSE UNCHANGED migrateVars
    /\ IF part = "floppy" THEN FatNext ELSE UNCHANGED fatVars
    /\ IF part = "splits" THEN SplitNext ELSE UNCHANGED splitVars
    /\ IF part = "groups" THEN GroupNext ELSE UNCHANGED groupVars
    /\ IF part = "parsers" THEN ParserNext ELSE UNCHANGED parserVars
    /\ IF part = "backup" THEN BackupNext ELSE UNCHANGED backupVars
    /\ IF part = "layout" THEN LookAtMedium ELSE UNCHANGED layoutVars
    /\ IF part = "entries" THEN EntryNext ELSE UNCHANGED entryVars
    /\ IF part = "messages" THEN MessagesNext ELSE UNCHANGED messageVars
    /\ IF part = "exports" THEN PlanExport ELSE UNCHANGED exportVars
    /\ IF part = "views" THEN ViewNext ELSE UNCHANGED viewVars
    /\ CASE part = "reveals" -> RevealNext
         [] part = "trials" -> TrialNext
         [] OTHER -> UNCHANGED secretVars

workerVars == <<ckptVars, vaultVars, auditVars, enrichVars, notifyVars, reviewVars,
                migrateVars, fatVars, splitVars, groupVars, parserVars, backupVars, layoutVars,
                entryVars, messageVars, exportVars, viewVars, secretVars, part>>

MCSpec == MCInit /\ [][MCNext]_workerVars
=============================================================================
