----------------------------- MODULE ParserJobs -----------------------------
(***************************************************************************)
(* The adapters that run an untrusted tool on a copy of a recovered file   *)
(* (worker/parser_sandbox.py, content_signature.py and the adapters of     *)
(* documents, media, archives, repair and the legacy web cache).  Every    *)
(* adapter decides from the signature of the copy whether the tool may run,*)
(* runs it in the sandbox, and keeps of what the tool prints only what is  *)
(* within its limits.                                                      *)
(*                                                                         *)
(* A content is its id (for its hash), the kind its first bytes tell, how  *)
(* many of the five polyglot markers its sample holds, and the kind its    *)
(* name's extension tells.  The tool's output is a sequence of lines; a    *)
(* page, a region, a segment or an archive member is a part of a line.     *)
(* Sizes, dimensions, page numbers and seconds are small numbers, 0 being  *)
(* what the adapters take for missing or invalid.  Of the items an adapter *)
(* keeps, the order is left out.                                           *)
(***************************************************************************)
EXTENDS Integers, Sequences, SequencesExt

CONSTANTS Contents,     \* [id, kind, markers, extension]
          ToolLines,    \* lines a tool prints that prints one line per item
          PartedLines,  \* lines a tool prints that prints one line with parts
          NoKind,       \* the name has no known extension
          LineLimit,    \* records an adapter looks at
          PartLimit,    \* max_pages, MAX_REGIONS, MAX_SEGMENTS, max_members
          SizeLimit,    \* output_limit_mib, and max_text_chars
          DimLimit,     \* max_dimension and max_duration_seconds
          DepthLimit,   \* max_nested_depth
          MaxParses     \* bound: calls

ASSUME ParserAssumption ==
    /\ LineLimit \in Nat /\ PartLimit \in Nat /\ SizeLimit \in Nat /\ DimLimit \in Nat
    /\ \A c \in Contents : c.markers \in Nat
    /\ \A r \in ToolLines : {"kind", "of", "mime", "uri", "size"} \subseteq DOMAIN r

VARIABLES parse,        \* the call under way, and its result
          thumbs,       \* cached thumbnails, kept by the caller
          parses        \* calls made

parserVars == <<parse, thumbs, parses>>

Adapters == {"text", "metadata", "thumbnails", "derivatives", "render", "ocr",
             "transcribe", "archive", "repair", "webcache"}
LineAdapters == {"thumbnails", "derivatives", "repair", "webcache"}
Tiers == {"small", "large"}
Images == {"jpeg", "gif"}

\* detect_content_signature: from the head of the copy, the extension being
\* evidence only.
IsPolyglot(c) == c.markers > 1
ParserSafe(c) ==
    /\ c.kind \notin {"pe", "unknown", "empty"} /\ ~IsPolyglot(c)
    /\ c.extension \in {NoKind, c.kind}

\* Executables and polyglots, kinds that are not supported and other unsafe
\* contents are skipped, in this order, with different warnings.
Passes(c, kinds) == ParserSafe(c) /\ c.kind \in kinds

(* Mutant: a thumbnail is found by its tier alone. *)
CacheHitsByTier(c, tiers) == {t \in thumbs : t.tier \in tiers}

\* _cache_key: the hash of the content and the tier.
CacheHits(c, tiers) == {t \in thumbs : t.hash = c.id /\ t.tier \in tiers}

GenerateImageThumbnails(p) ==
    IF ~Passes(p.content, Images) THEN "skipped"
    ELSE IF {t.tier : t \in CacheHits(p.content, p.tiers)} = p.tiers THEN "cache-hit"
    ELSE "run"
ExtractOcrText(p) ==
    IF ~Passes(p.content, Images \cup {"pdf"}) THEN "skipped"
    ELSE IF p.flag THEN "skipped-existing-text" ELSE "run"
TranscribeMedia(p) ==
    IF p.flag THEN "disabled" ELSE IF Passes(p.content, {"video"}) THEN "run" ELSE "skipped"
GenerateMediaDerivatives(p) ==
    IF Passes(p.content, Images \cup {"video"}) THEN "run" ELSE "skipped"
ExtractMediaMetadata(p) == IF Passes(p.content, {"jpeg", "video"}) THEN "run" ELSE "skipped"
RenderDocumentPages(p) == IF Passes(p.content, {"pdf", "plain"}) THEN "run" ELSE "skipped"
ExtractDocumentText(p) == IF Passes(p.content, {"pdf", "plain"}) THEN "run" ELSE "skipped"
InspectArchive(p) == IF Passes(p.content, {"zip"}) THEN "run" ELSE "skipped"
AttemptBoundedRepair(p) ==
    IF Passes(p.content, Images \cup {"video", "zip", "pdf"}) THEN "run" ELSE "skipped"
\* No signature is read: whatever was copied goes to the tool, if anything was.
ParseLegacyWebcache(p) == IF p.flag THEN "missing" ELSE "run"

Decision(p) ==
    CASE p.adapter = "thumbnails" -> GenerateImageThumbnails(p)
      [] p.adapter = "ocr" -> ExtractOcrText(p)
      [] p.adapter = "transcribe" -> TranscribeMedia(p)
      [] p.adapter = "derivatives" -> GenerateMediaDerivatives(p)
      [] p.adapter = "metadata" -> ExtractMediaMetadata(p)
      [] p.adapter = "render" -> RenderDocumentPages(p)
      [] p.adapter = "text" -> ExtractDocumentText(p)
      [] p.adapter = "archive" -> InspectArchive(p)
      [] p.adapter = "repair" -> AttemptBoundedRepair(p)
      [] OTHER -> ParseLegacyWebcache(p)

-----------------------------------------------------------------------------
\* What each adapter keeps of the tool's lines: the items within its limits, the
\* length of the text and, for an archive, whether its members may be extracted.
Kept(status, items) == [status |-> status, items |-> items, text |-> 0, extract |-> FALSE]
Found(items) == Kept(IF items = {} THEN "failed" ELSE "complete", items)
Read(line, items) == [Kept("complete", items) EXCEPT
                         !.text = IF line.size > SizeLimit THEN SizeLimit ELSE line.size]
Ended(line) == line.status # "complete"
\* The places in s that an adapter looks at.
FirstOf(s, n) == {i \in DOMAIN s : i <= n}

Stored(r) == r.mime = "safe" /\ r.uri = "scratch" /\ r.size \in 1 .. SizeLimit

\* _normalize_derivatives, _derivative of image_thumbnails: for each requested tier
\* the first record that fits it.
KeptThumbnails(p, lines) ==
    LET fits == {i \in FirstOf(lines, LineLimit) :
                    /\ lines[i].kind \in p.tiers /\ Stored(lines[i])
                    /\ lines[i].dim \in 1 .. DimLimit}
        firsts == {i \in fits : \A j \in fits : j < i => lines[j].kind # lines[i].kind}
    IN Found({lines[i] : i \in firsts})

\* _normalize, _derivative of media_derivatives: no dimension is looked at.
KindsOfMedia(c) == IF c.kind = "video" THEN {"clip"} ELSE {"small"}
KeptDerivatives(p, lines) ==
    Found({r \in {lines[i] : i \in FirstOf(lines, LineLimit)} :
              r.kind \in KindsOfMedia(p.content) /\ Stored(r) /\ r.seconds <= DimLimit})

\* The parts of a line that an adapter looks at.
PartsOf(line) == {line.parts[i] : i \in FirstOf(line.parts, PartLimit)}

\* _normalize_record, _page of document_rendering
KeptPages(line) ==
    IF Ended(line) THEN Kept(line.status, {})
    ELSE Found({r \in PartsOf(line) : r.number > 0 /\ Stored(r) /\ r.dim \in 1 .. DimLimit})

\* _normalize_record, _regions of ocr
KeptRegions(line) ==
    IF Ended(line) THEN Kept(line.status, {})
    ELSE Read(line, {r \in PartsOf(line) : r.number > 0 /\ r.dim > 0 /\ r.size > 0})

\* _normalize_record, _segments of transcription: from r.number to r.dim seconds
KeptSegments(line) ==
    IF Ended(line) THEN Kept(line.status, {})
    ELSE Read(line, {r \in PartsOf(line) : r.dim >= r.number /\ r.size > 0})

\* document_text_extraction; and _normalize_record of media_metadata, which hands on
\* the tool's status and fields together.
KeptText(line) == IF Ended(line) THEN Kept(line.status, {}) ELSE Read(line, {})
KeptMetadata(line) == Kept(line.status, {})

\* _member: one with no valid path, kind or size is dropped.
Members(line) == {m \in PartsOf(line) : m.number > 0}

\* _extraction_plan: requested, no password, not nested too deep, and every listed
\* member harmless.
ExtractionPlan(p, line) ==
    /\ p.flag /\ ~line.locked /\ line.dim <= DepthLimit
    /\ \A m \in Members(line) : m.harm = "none"

\* _normalize_record of archive_inspection
KeptMembers(p, line) ==
    IF Ended(line) THEN Kept(line.status, {})
    ELSE [Kept("complete", Members(line)) EXCEPT !.extract = ExtractionPlan(p, line)]

\* _repair_kind, _normalize, _artifact of repair: the first acceptable record of the
\* right kind, unless one that failed comes before it.
RepairKind(c) == IF c.kind \in Images THEN "small" ELSE "clip"
Acceptable(p, r) == Stored(r) /\ r.derived /\ r.original = p.content.id
KeptRepair(p, lines) ==
    LET tried == {i \in FirstOf(lines, LineLimit) :
                    /\ lines[i].kind = RepairKind(p.content)
                    /\ Ended(lines[i]) \/ Acceptable(p, lines[i])}
        first == {i \in tried : \A j \in tried : i <= j}
    IN Found({lines[i] : i \in {k \in first : ~Ended(lines[k])}})

\* parse_legacy_webcache, _normalize_record: the valid records of known kinds.
KeptRecords(lines) ==
    Kept("complete", {r \in {lines[i] : i \in DOMAIN lines} : r.kind = "small" /\ r.size > 0})

Normalised(p, lines) ==
    CASE p.adapter = "thumbnails" -> KeptThumbnails(p, lines)
      [] p.adapter = "derivatives" -> KeptDerivatives(p, lines)
      [] p.adapter = "repair" -> KeptRepair(p, lines)
      [] p.adapter = "webcache" -> KeptRecords(lines)
      [] p.adapter \notin LineAdapters /\ lines = <<>> -> Kept("failed", {})
      [] p.adapter = "render" /\ lines # <<>> -> KeptPages(lines[1])
      [] p.adapter = "ocr" /\ lines # <<>> -> KeptRegions(lines[1])
      [] p.adapter = "transcribe" /\ lines # <<>> -> KeptSegments(lines[1])
      [] p.adapter = "text" /\ lines # <<>> -> KeptText(lines[1])
      [] p.adapter = "metadata" /\ lines # <<>> -> KeptMetadata(lines[1])
      [] p.adapter = "archive" /\ lines # <<>> -> KeptMembers(p, lines[1])

-----------------------------------------------------------------------------
\* What the tool may print: lines, or one line with parts.
ToolOutputs(adapter) ==
    IF adapter \in LineAdapters THEN BoundedSeq(ToolLines, LineLimit + 1)
    ELSE {<<>>} \cup {<<line>> : line \in PartedLines}

Finish(result) == parse' = [phase |-> "done", call |-> parse.call, result |-> result]

\* Every adapter, and build_parser_sandbox again, asks that the input lies in the job's
\* scratch directory, and raises otherwise.
Admitted(call) == IF call.copied THEN Decision(call) ELSE "error"

\* A call of an adapter: it ends at once, or the tool is started.  The flag is the adapter's own option: text exists already,
\* transcription disabled, extraction requested, no copy there.
StartParse(adapter, content, tiers, flag, copied) ==
    /\ parse.phase # "run" /\ parses < MaxParses
    /\ adapter = "thumbnails" \/ tiers = Tiers
    /\ LET call == [adapter |-> adapter, content |-> content, tiers |-> tiers, flag |-> flag,
                   copied |-> copied]
           decision == Admitted(call)
       IN parse' = IF decision = "run" THEN [phase |-> "run", call |-> call]
                   ELSE [phase |-> "done", call |-> call,
                         result |-> Kept(decision, IF decision # "cache-hit" THEN {}
                             ELSE {t.item : t \in CacheHits(content, tiers)})]
    /\ parses' = parses + 1
    /\ UNCHANGED thumbs

\* run_parser_sandbox: the tool is stopped for time, prints too much, ends with an
\* error, or prints what is not JSON lines, which the adapter does not catch.
SandboxFails(status) ==
    /\ parse.phase = "run"
    /\ Finish(Kept(status, {}))
    /\ UNCHANGED <<thumbs, parses>>

\* The caller keeps the thumbnails under the keys they come with, in place of those
\* it had under these keys.
Cached(call, items) ==
    LET new == {[hash |-> call.content.id, tier |-> r.kind,
                 item |-> [r EXCEPT !.of = call.content.id]] : r \in items}
    IN {t \in thumbs : \A n \in new : t.hash # n.hash \/ t.tier # n.tier} \cup new

\* The lines are kept as far as the adapter accepts them.
SandboxCompletes(lines) ==
    /\ parse.phase = "run"
    /\ LET result == Normalised(parse.call, lines)
       IN /\ Finish(result)
          /\ thumbs' = IF parse.call.adapter # "thumbnails" THEN thumbs
                       ELSE Cached(parse.call, result.items)
    /\ UNCHANGED parses

ParserInit == parse = [phase |-> "idle"] /\ thumbs = {} /\ parses = 0

ParserNext ==
    \/ \E adapter \in Adapters, content \in Contents, tiers \in (SUBSET Tiers) \ {{}},
          flag, copied \in BOOLEAN : StartParse(adapter, content, tiers, flag, copied)
    \/ \E status \in {"timeout", "failed", "error"} : SandboxFails(status)
    \/ parse.phase = "run"
       /\ \E lines \in ToolOutputs(parse.call.adapter) : SandboxCompletes(lines)

ParserSpec == ParserInit /\ [][ParserNext]_parserVars

-----------------------------------------------------------------------------
\* What an adapter accepts can be shown to the user (worker/parser_sandbox.py,
\* content_signature.py).  No tool runs on anything but a copy, and none but the web
\* cache's on a program, a polyglot or a file whose name lies about its kind; every
\* derived file is a passive one, in the scratch store and within the size limit; a
\* cached thumbnail is of the content asked for, in every tier asked for; members
\* are extracted only when each one listed is harmless and no password is in the
\* way; a repaired file is linked to the very content that was repaired.
AcceptedIsSafe ==
    /\ parse.phase = "run" => parse.call.copied
    /\ parse.phase = "run" /\ parse.call.adapter # "webcache" =>
           /\ parse.call.content.kind # "pe" /\ parse.call.content.markers < 2
           /\ parse.call.content.extension \in {NoKind, parse.call.content.kind}
    /\ parse.phase = "done" /\ parse.result.status \in {"complete", "cache-hit"} =>
        LET call == parse.call
            items == parse.result.items
        IN /\ call.adapter \in {"thumbnails", "derivatives", "render", "repair"} =>
                  \A r \in items : r.mime = "safe" /\ r.uri = "scratch" /\ r.size <= SizeLimit
           /\ call.adapter = "thumbnails" /\ parse.result.status = "cache-hit" =>
                  /\ {r.kind : r \in items} = call.tiers
                  /\ \A r \in items : r.of = call.content.id
           /\ call.adapter = "thumbnails" =>
                  \A r, s \in items : r.kind = s.kind => r = s
           /\ parse.result.extract =>
                  call.flag /\ \A r \in items : r.harm = "none"
           /\ call.adapter = "repair" =>
                  \A r \in items : r.original = call.content.id /\ r.derived

(* What makes it inductive: one thumbnail is cached for a content and a tier, *)
(* under its own key, and it was stored.                                      *)
ThumbsHold ==
    /\ \A t \in thumbs :
        /\ t.item.kind = t.tier /\ t.item.of = t.hash
        /\ t.item.mime = "safe" /\ t.item.uri = "scratch" /\ t.item.size <= SizeLimit
    /\ \A t, u \in thumbs : t.hash = u.hash /\ t.tier = u.tier => t.item = u.item

ParserInv ==
    /\ parse.phase = "run" => parse.call.adapter \in Adapters
    /\ ThumbsHold /\ AcceptedIsSafe
=============================================================================
