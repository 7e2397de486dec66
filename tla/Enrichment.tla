----------------------------- MODULE Enrichment -----------------------------
(***************************************************************************)
(* Calls to AI providers: the ordered profiles and their routing           *)
(* (worker/provider_settings.py), the privacy gate (worker/privacy_gate.py),*)
(* the two adapters (worker/openai_compatible.py, worker/ollama_adapter.py),*)
(* the check of an answer (worker/provider_contract.py) and the cache      *)
(* (worker/ai_budget.py).  The driver that calls these in turn, for one    *)
(* item at a time, is not under src/; the order of its calls is the one    *)
(* their documentation asks for.  Names resolve as the network has it at   *)
(* the moment, and the operator may change the settings at any time.       *)
(***************************************************************************)
EXTENDS Integers, Sequences, FiniteSets, SequencesExt

CONSTANTS Profiles,     \* names of the provider profiles
          Mode,         \* "local" or "remote" for each profile
          Weight,       \* the routing weight of each profile
          HostOf,       \* the host of each profile's endpoint
          HostKind,     \* host |-> "localhost", "private", "metadata", "public", "lan" or "name"
          Items,        \* content to be enriched
          DeniedItems,  \* items of a category the policy denies, or above its size limit
          RetryBudget,  \* RETRY_BUDGET
          MaxChanges,   \* bound: changes of names, settings and acknowledgments
          Unset

VARIABLES settings,     \* the order and the enabled ones of the profiles, and remote_acknowledged
          ack,          \* the operator's acknowledgment of a remote endpoint
          resolves,     \* what each name resolves to
          call,         \* the call in hand
          token,        \* the cancellation token is set
          cache,        \* answers by item and profile
          persisted,    \* the cache as last stored
          sent,         \* what was handed to the transport
          changes

enrichVars == <<settings, ack, resolves, call, token, cache, persisted, sent, changes>>

Hosts == DOMAIN HostKind
Names == {h \in Hosts : HostKind[h] \in {"lan", "name"}}

ASSUME EndpointsAssumption ==
    /\ HostOf \in [Profiles -> Hosts]
    /\ \A h \in Hosts : HostKind[h] \in {"localhost", "private", "metadata", "public", "lan", "name"}

CacheKeys == Items \X Profiles
NoCall == [at |-> "idle"]

-----------------------------------------------------------------------------
(* Settings and routing.                                                   *)

\* Every profile in some order, none of them acknowledged.
InitialOrder == CHOOSE s \in SetToSeqs(Profiles) : TRUE

\* route_profiles: enabled profiles by descending weight, in the configured
\* order where the weights are equal.
Routed ==
    LET enabled == SelectSeq(settings.order, LAMBDA p : p \in settings.enabled)
    IN SortSeq([i \in DOMAIN enabled |-> <<enabled[i], i>>],
               LAMBDA a, b : \/ Weight[a[1]] > Weight[b[1]]
                             \/ Weight[a[1]] = Weight[b[1]] /\ a[2] < b[2])

\* select_primary_secondary_tertiary
Opinions == {Routed[i][1] : i \in 1 .. IF Len(Routed) < 3 THEN Len(Routed) ELSE 3}

\* ensure_remote_gate raises unless this holds.
RemoteGateOpen ==
    settings.acked \/ \A p \in settings.enabled : Mode[p] # "remote"

-----------------------------------------------------------------------------
(* The privacy gate.                                                       *)

\* Where a connection to the host goes at this moment.
Network(h) ==
    CASE HostKind[h] = "localhost" -> "loopback"
      [] HostKind[h] \in {"private", "metadata"} -> "private"
      [] HostKind[h] = "public" -> "public"
      [] OTHER -> resolves[h]

(* Mutant: a name is taken for what it says, without resolving it. *)
ClassifyByName(h) ==
    CASE HostKind[h] = "localhost" -> "local"
      [] HostKind[h] \in {"private", "lan"} -> "lan"
      [] OTHER -> "remote"

\* classify_endpoint: a name that does not resolve counts as remote.
ClassifyEndpoint(h) ==
    CASE Network(h) = "loopback" -> "local"
      [] Network(h) = "private" /\ HostKind[h] # "metadata" -> "lan"
      [] OTHER -> "remote"

\* gate_decision: an acknowledgment is for one endpoint, and for the class it
\* had when it was given.
Acknowledged(p) ==
    /\ ack # Unset
    /\ ack.state = "acknowledged" /\ ack.class = "remote" /\ ack.provider = p

GateDecision(p, item, class) ==
    /\ item \notin DeniedItems
    /\ class = "remote" => Acknowledged(p)

\* validate_endpoint: the adapters accept a host that is loopback or private,
\* and any name that ends in .local or .lan.
AdapterAccepts(h) == HostKind[h] \in {"localhost", "private", "metadata", "lan"}

\* validate_redirect: a redirect stays on the host of the endpoint.
RedirectAccepted(h, to) == AdapterAccepts(h) /\ to = h

-----------------------------------------------------------------------------
(* The operator and the network.                                           *)

EnrichInit ==
    /\ settings = [order |-> InitialOrder, enabled |-> Profiles, acked |-> FALSE]
    /\ ack = Unset
    /\ resolves \in [Names -> {"private", "public", "none"}]
    /\ call = NoCall
    /\ token = FALSE
    /\ cache = [k \in CacheKeys |-> Unset]
    /\ persisted = cache
    /\ sent = {}
    /\ changes = 0

Change ==
    /\ changes < MaxChanges
    /\ changes' = changes + 1
    /\ UNCHANGED <<call, cache, persisted, sent>>

Resolve(h, to) ==
    /\ Change
    /\ resolves' = [resolves EXCEPT ![h] = to]
    /\ UNCHANGED <<settings, ack, token>>

SetEnabled(p) ==
    /\ Change
    /\ settings' = [settings EXCEPT !.enabled =
                       IF p \in settings.enabled THEN @ \ {p} ELSE @ \cup {p}]
    /\ UNCHANGED <<ack, resolves, token>>

ReorderProfiles(order) ==
    /\ Change
    /\ order \in SetToSeqs(Profiles)
    /\ settings' = [settings EXCEPT !.order = order]
    /\ UNCHANGED <<ack, resolves, token>>

AcknowledgeRemote ==
    /\ Change
    /\ settings' = [settings EXCEPT !.acked = ~@]
    /\ UNCHANGED <<ack, resolves, token>>

Acknowledge(p) ==
    /\ Change
    /\ ack' = [provider |-> p, class |-> ClassifyEndpoint(HostOf[p]), state |-> "acknowledged"]
    /\ UNCHANGED <<settings, resolves, token>>

Revoke ==
    /\ Change
    /\ ack # Unset /\ ack' = [ack EXCEPT !.state = "revoked"]
    /\ UNCHANGED <<settings, resolves, token>>

Cancel ==
    /\ Change
    /\ token' = TRUE
    /\ UNCHANGED <<settings, ack, resolves>>

-----------------------------------------------------------------------------
(* One call.                                                               *)

others == <<settings, ack, resolves, token, changes>>

\* An item is sent to a routed profile unless its answer is in the cache, the
\* remote gate is shut or the privacy gate refuses.
Decide(item, p) ==
    /\ call = NoCall
    /\ RemoteGateOpen
    /\ p \in Opinions
    /\ cache[<<item, p>>] = Unset
    /\ GateDecision(p, item, ClassifyEndpoint(HostOf[p]))
    /\ call' = [at |-> "ready", item |-> item, profile |-> p, attempt |-> 1,
                network |-> Network(HostOf[p]), acked |-> Acknowledged(p)]
    /\ UNCHANGED <<cache, persisted, sent, others>>

\* call_adapter and call_with_cancel, up to the transport.
Transport ==
    /\ call.at = "ready"
    /\ IF token \/ ~AdapterAccepts(HostOf[call.profile])
       THEN call' = NoCall /\ UNCHANGED sent
       ELSE /\ call' = [call EXCEPT !.at = "waiting"]
            /\ sent' = sent \cup
                  {[item |-> call.item, profile |-> call.profile, acked |-> call.acked,
                    moved |-> Network(HostOf[call.profile]) # call.network,
                    to |-> Network(HostOf[call.profile]),
                    again |-> persisted[<<call.item, call.profile>>] # Unset]}
    /\ UNCHANGED <<cache, persisted, others>>

\* should_retry; a retry goes straight back to the transport.
ShouldRetry(code) == call.attempt < RetryBudget /\ code = "timeout"

Failed(code) ==
    /\ call.at = "waiting"
    /\ call' = IF ~token /\ ShouldRetry(code)
               THEN [call EXCEPT !.at = "ready", !.attempt = @ + 1] ELSE NoCall
    /\ UNCHANGED <<cache, persisted, sent, others>>

Redirected(to) ==
    /\ call.at = "waiting"
    /\ ~RedirectAccepted(HostOf[call.profile], to)
    /\ call' = NoCall
    /\ UNCHANGED <<cache, persisted, sent, others>>

\* An answer that names the request's provider is kept; one that was cancelled
\* in the meantime, names another, asks for access or carries no evidence is not.
Answered(from) ==
    /\ call.at = "waiting"
    /\ cache' = IF ~token /\ from = call.profile
                THEN [cache EXCEPT ![<<call.item, call.profile>>] = from] ELSE cache
    /\ call' = NoCall
    /\ UNCHANGED <<persisted, sent, others>>

Persist ==
    /\ persisted' = cache
    /\ UNCHANGED <<call, cache, sent, others>>

\* cache_merge into an empty cache.
Restored == persisted

RestartDriver ==
    /\ call' = NoCall
    /\ token' = FALSE
    /\ cache' = Restored
    /\ UNCHANGED <<settings, ack, resolves, persisted, sent, changes>>

EnrichNext ==
    \/ \E h \in Names, to \in {"private", "public", "none"} : Resolve(h, to)
    \/ \E p \in Profiles : SetEnabled(p) \/ Acknowledge(p)
    \/ \E order \in SetToSeqs(Profiles) : ReorderProfiles(order)
    \/ AcknowledgeRemote \/ Revoke \/ Cancel
    \/ \E item \in Items, p \in Profiles : Decide(item, p)
    \/ Transport \/ Persist \/ RestartDriver
    \/ \E code \in {"timeout", "malformed_json"} : Failed(code)
    \/ \E h \in Hosts : Redirected(h)
    \/ \E p \in Profiles : Answered(p)

EnrichSpec == EnrichInit /\ [][EnrichNext]_enrichVars

-----------------------------------------------------------------------------
\* Content reaches a public network only after the operator acknowledged that
\* very endpoint as remote, whatever the mode of the profile says, except when
\* the name moved there after the privacy gate had looked (the gate and the
\* connection each resolve it).  Content the policy denies reaches no provider.
NothingLeavesUnseen ==
    \A s \in sent : /\ s.item \notin DeniedItems
                    /\ s.to = "public" => s.acked \/ s.moved

\* A rescan never sends again what a stored answer covers, restarts included, and
\* a cached answer is its own profile's.
StoredIsNotResent ==
    /\ \A s \in sent : ~s.again
    /\ \A k \in CacheKeys : cache[k] \in {Unset, k[2]}

\* What leaves the host was to leave it, and had to (privacy_gate.py:60-180,
\* ai_budget.py:136-205, provider_contract.py:260-320).
EgressHolds == NothingLeavesUnseen /\ StoredIsNotResent

(* What an induction over the steps needs beside the property.             *)

CallType ==
    [at : {"ready", "waiting"}, item : Items, profile : Profiles, attempt : Nat,
     network : {"loopback", "private", "public", "none"}, acked : BOOLEAN]

EnrichTypeOK ==
    /\ resolves \in [Names -> {"private", "public", "none"}]
    /\ call \in CallType \cup {NoCall}
    /\ cache \in [CacheKeys -> Profiles \cup {Unset}]
    /\ persisted \in [CacheKeys -> Profiles \cup {Unset}]

\* What the gate found still holds of the call in hand: it may go where it would
\* have gone then, and no answer to it is known, in memory or stored.
CallIsCleared ==
    call.at # "idle" =>
        /\ call.item \notin DeniedItems
        /\ call.network = "public" => call.acked
        /\ cache[<<call.item, call.profile>>] = Unset

\* The cache in memory knows all that is stored.
StoredIsKnown == \A k \in CacheKeys : persisted[k] # Unset => cache[k] = persisted[k]

EnrichInv == EnrichTypeOK /\ EgressHolds /\ CallIsCleared /\ StoredIsKnown

-----------------------------------------------------------------------------
(* How the work is cut up (worker/ai_budget.py): items into batches, by    *)
(* number and by size, a text into overlapping chunks, and a batch into the*)
(* items that the retry budget allows.  A behaviour is one call, and a step*)
(* one turn of its loop.  An item is its size and a text its length; a     *)
(* batch or a chunk is the half-open interval of what it holds.            *)

CONSTANTS MaxItems,     \* bound: items of a call
          MaxItemBytes, \* bound: bytes of an item
          BatchSizes,   \* values of max_batch_size
          BatchBytes,   \* values of max_batch_bytes
          MaxText,      \* bound: the length of a text and of a chunk
          MaxBudget     \* bound: the retry budget of a batch

ASSUME SplitAssumption ==
    /\ BatchSizes \subseteq Nat \ {0} /\ BatchBytes \subseteq Nat \ {0}
    /\ MaxItems \in Nat /\ MaxItemBytes \in Nat /\ MaxText \in Nat /\ MaxBudget \in Nat

VARIABLES work,         \* the call and its arguments
          split         \* what its loop has made of them

splitVars == <<work, split>>

Uncut == [call |-> "none"]
Going(name) == work.call = name /\ split.status = "going"

(* Mutant: the bytes of a batch are not counted. *)
BatchFullByCount(item) == split.next - split.from >= work.batch

\* The item does not go into the batch in hand.
BatchFull(item) ==
    split.next - split.from >= work.batch \/ split.bytes + item > work.bytes

\* batch_items: an item larger than a batch is refused, and with it the call; a
\* batch is closed when the next item does not fit it.
BatchItem ==
    /\ Going("batch_items") /\ split.next <= Len(work.items)
    /\ LET item == work.items[split.next]
       IN split' = IF item > work.bytes
                   THEN [status |-> "refused", batches |-> <<>>, from |-> split.from,
                         next |-> split.next, bytes |-> split.bytes]
                   ELSE IF split.from < split.next /\ BatchFull(item)
                   THEN [status |-> "going", from |-> split.next, next |-> split.next + 1,
                         batches |-> Append(split.batches, <<split.from, split.next>>),
                         bytes |-> item]
                   ELSE [status |-> "going", from |-> split.from, next |-> split.next + 1,
                         batches |-> split.batches, bytes |-> split.bytes + item]
    /\ UNCHANGED work

BatchItems ==
    /\ Going("batch_items") /\ split.next > Len(work.items)
    /\ split' = [status |-> "done", from |-> split.next, next |-> split.next, bytes |-> 0,
                 batches |-> IF split.from < split.next
                             THEN Append(split.batches, <<split.from, split.next>>)
                             ELSE split.batches]
    /\ UNCHANGED work

\* chunk_text: the next chunk starts inside this one, but always further on.
NextStart(start, end) == IF end - work.overlap > start + 1 THEN end - work.overlap ELSE start + 1

ChunkText ==
    /\ Going("chunk_text")
    /\ LET start == split.start
           end == IF start + work.chunk < work.text THEN start + work.chunk ELSE work.text
       IN split' = IF start >= work.text
                   THEN [status |-> "done", chunks |-> split.chunks, start |-> start]
                   ELSE [status |-> IF end >= work.text THEN "done" ELSE "going",
                         chunks |-> Append(split.chunks, <<start, end>>),
                         start |-> IF end >= work.text THEN start ELSE NextStart(start, end)]
    /\ UNCHANGED work

\* run_batch, within_budget: the items count against the retry budget, the first as
\* attempt 1; the token is looked at before each, and if it is set all is given up.
RunBatch ==
    /\ Going("run_batch")
    /\ LET attempt == Len(split.outcomes) + 1
       IN split' = IF attempt > work.count
                   THEN [status |-> "done", outcomes |-> split.outcomes, token |-> split.token]
                   ELSE IF split.token
                   THEN [status |-> "cancelled", outcomes |-> <<>>, token |-> TRUE]
                   ELSE [status |-> "going", token |-> split.token,
                         outcomes |-> Append(split.outcomes, IF attempt < work.budget
                                                             THEN "completed" ELSE "failed")]
    /\ UNCHANGED work

CancelBatch ==
    /\ Going("run_batch") /\ ~split.token
    /\ split' = [status |-> "going", outcomes |-> split.outcomes, token |-> TRUE]
    /\ UNCHANGED work

SplitInit ==
    \/ /\ \E n \in 0 .. MaxItems, batch \in BatchSizes, bytes \in BatchBytes :
             \E items \in [1 .. n -> 1 .. MaxItemBytes] :
                work = [call |-> "batch_items", items |-> items, batch |-> batch, bytes |-> bytes]
       /\ split = [status |-> "going", batches |-> <<>>, from |-> 1, next |-> 1, bytes |-> 0]
    \/ /\ \E text \in 0 .. MaxText, chunk \in 1 .. MaxText, overlap \in 0 .. MaxText :
             /\ overlap < chunk
             /\ work = [call |-> "chunk_text", text |-> text, chunk |-> chunk, overlap |-> overlap]
       /\ split = [status |-> "going", chunks |-> <<>>, start |-> 0]
    \/ /\ \E count \in 0 .. MaxItems, budget \in 0 .. MaxBudget :
             work = [call |-> "run_batch", count |-> count, budget |-> budget]
       /\ split = [status |-> "going", outcomes |-> <<>>, token |-> FALSE]

SplitNext == BatchItem \/ BatchItems \/ ChunkText \/ RunBatch \/ CancelBatch

SplitSpec == SplitInit /\ [][SplitNext]_splitVars

-----------------------------------------------------------------------------
\* Pieces that follow each other from one place to another, none empty, each reaching
\* back into the one before by the overlap.
Joined(pieces, from, to, overlap) ==
    /\ \A i \in DOMAIN pieces : pieces[i][1] < pieces[i][2]
    /\ \A i \in DOMAIN pieces : i > 1 => pieces[i][1] = pieces[i - 1][2] - overlap
    /\ IF pieces = <<>> THEN from = to ELSE pieces[1][1] = from /\ pieces[Len(pieces)][2] = to

\* The bytes of the items of a batch.
BytesIn(items, piece) ==
    Cardinality(UNION {{i} \X (1 .. items[i]) : i \in piece[1] .. piece[2] - 1})

\* No batch is over its limits, and one is closed only when the next item does not fit.
BatchFits(w, piece) ==
    LET count == piece[2] - piece[1]
    IN /\ count <= w.batch /\ BytesIn(w.items, piece) <= w.bytes
       /\ piece[2] <= Len(w.items) =>
             count = w.batch \/ BytesIn(w.items, piece) + w.items[piece[2]] > w.bytes

BatchesKept(w, s) ==
    /\ s.status = "done" => /\ Joined(s.batches, 1, Len(w.items) + 1, 0)
                            /\ \A i \in DOMAIN s.batches : BatchFits(w, s.batches[i])
    /\ s.status = "refused" => \E i \in DOMAIN w.items : w.items[i] > w.bytes

\* No chunk is too long, and only the last one is shorter.
ChunksKept(w, s) ==
    s.status = "done" =>
        /\ Joined(s.chunks, 0, w.text, w.overlap)
        /\ \A i \in DOMAIN s.chunks : LET length == s.chunks[i][2] - s.chunks[i][1]
                                      IN length <= w.chunk /\ (length = w.chunk \/ i = Len(s.chunks))

\* There is an outcome of every item, and the failed ones come last.
OutcomesKept(w, s) ==
    s.status = "done" =>
        /\ Len(s.outcomes) = w.count
        /\ \A i, j \in 1 .. w.count : s.outcomes[i] = "failed" /\ i < j => s.outcomes[j] = "failed"

\* Nothing is lost, repeated or reordered between the pieces, and no piece is over its
\* limits (ai_budget.py:82-133): the batches together are the items, or nothing at all
\* when one item is too large, and the chunks together are the text.  A batch that is
\* not cancelled has an outcome for every item, the failed ones last (230-273).
SplitsLoseNothing ==
    /\ work.call = "batch_items" => BatchesKept(work, split)
    /\ work.call = "chunk_text" => ChunksKept(work, split)
    /\ work.call = "run_batch" => OutcomesKept(work, split)

(* What makes it inductive: the arguments, and how far each loop has come. *)

BatchesSoFar(w, s) ==
    /\ w.items \in Seq(Nat) /\ w.batch \in Nat \ {0} /\ w.bytes \in Nat
    /\ s.batches \in Seq(Nat \X Nat) /\ s.bytes \in Nat
    /\ s.from \in 1 .. s.next /\ s.next \in 1 .. Len(w.items) + 1
    /\ s.status = "going" =>
          /\ Joined(s.batches, 1, s.from, 0)
          /\ \A i \in DOMAIN s.batches : BatchFits(w, s.batches[i])
          /\ s.from = s.next => s.next = 1
          /\ s.next - s.from <= w.batch
          /\ s.bytes = BytesIn(w.items, <<s.from, s.next>>) /\ s.bytes <= w.bytes

ChunksSoFar(w, s) ==
    /\ w.text \in Nat /\ w.chunk \in Nat \ {0} /\ w.overlap \in 0 .. w.chunk - 1
    /\ s.chunks \in Seq(Nat \X Nat) /\ s.start \in Nat
    /\ s.status = "going" =>
          IF s.chunks = <<>> THEN s.start = 0
          ELSE /\ Joined(s.chunks, 0, s.start + w.overlap, w.overlap)
               /\ \A i \in DOMAIN s.chunks : s.chunks[i][2] - s.chunks[i][1] = w.chunk
               /\ s.start + w.overlap < w.text

OutcomesSoFar(w, s) ==
    /\ w.count \in Nat /\ w.budget \in Nat
    /\ s.outcomes \in Seq({"completed", "failed"}) /\ Len(s.outcomes) <= w.count
    /\ \A i \in DOMAIN s.outcomes : s.outcomes[i] = "failed" <=> i >= w.budget

SplitInv ==
    /\ work.call = "batch_items" => BatchesSoFar(work, split)
    /\ work.call = "chunk_text" => ChunksSoFar(work, split)
    /\ work.call = "run_batch" => OutcomesSoFar(work, split)
    /\ SplitsLoseNothing
=============================================================================
