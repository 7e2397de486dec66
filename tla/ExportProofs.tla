----------------------------- MODULE ExportProofs -----------------------------
(***************************************************************************)
(* The safety of the export engine and of the queue above it, for every    *)
(* number of items, exporters, calls and faults.                           *)
(***************************************************************************)
EXTENDS ExportQueue, TLAPS

FileType == [data : Seq(Chunks \union {Damaged}), synced : BOOLEAN]
CallType == [op : {"copy", "verify", "sync", "replace", "syncdir"}, item : Items,
             token : Tokens, read : Seq(Chunks)]

EngineType ==
    /\ source \in [Items -> Seq(Chunks) \union {NoFile}]
    /\ partials \in [Tokens -> FileType \union {NoFile}]
    /\ final \in [Items -> FileType \union {NoFile}]
    /\ stable \in [Items -> FileType \union {NoFile}]
    /\ call \in [Exporters -> CallType \union {Idle}]
    /\ calls \in Nat
    /\ results \in [Items -> {NoResult, "failed", "completed", "unverified"}]
    /\ dirOpens \in BOOLEAN
    /\ faults \in Nat

(* Every call writes a partial file of its own, and names not yet handed out  *)
(* are free.                                                                  *)
TokensOwned ==
    /\ \A e \in Exporters : call[e] # Idle => call[e].token <= calls
    /\ \A e, f \in Exporters :
          call[e] # Idle /\ call[f] # Idle /\ e # f => call[e].token # call[f].token
    /\ \A t \in Tokens : calls < t => partials[t] = NoFile

(* The partial file is no longer than what was read, and as long only if it   *)
(* holds what was read, damaged chunks apart.                                 *)
Faithful(data, read) ==
    /\ Len(data) <= Len(read)
    /\ Len(data) = Len(read) => \A k \in 1..Len(read) : data[k] \in {read[k], Damaged}

(* What holds of a call c whose partial file is p. *)
CallOK(c, p) ==
    /\ c.op \in {"copy", "verify"} /\ p # NoFile => Faithful(p.data, c.read)
    /\ c.op = "verify" => Len(c.read) = Len(Original[c.item])
    /\ c.op \in {"sync", "replace", "syncdir"} => c.read = Original[c.item]
    /\ c.op \in {"sync", "replace"} /\ p # NoFile => p.data = Original[c.item]
    /\ c.op = "replace" /\ p # NoFile => p.synced = TRUE
    /\ c.op = "syncdir" => final[c.item] # NoFile

CallsOK == \A e \in Exporters : call[e] # Idle => CallOK(call[e], partials[call[e].token])

GoodFile(f, i) == f # NoFile => f.data = Original[i] /\ f.synced = TRUE

(* Files under final names are good and durable in content, and a durable     *)
(* entry has not been removed.                                                *)
FinalsGood ==
    \A i \in Items : /\ GoodFile(final[i], i)
                     /\ GoodFile(stable[i], i)
                     /\ stable[i] # NoFile => final[i] # NoFile

ResultsTruthful ==
    \A i \in Items :
        /\ results[i] # "unverified"
        /\ results[i] = "completed" => final[i] # NoFile /\ (dirOpens => stable[i] # NoFile)

EngineInv == EngineType /\ TokensOwned /\ CallsOK /\ FinalsGood /\ ResultsTruthful

-----------------------------------------------------------------------------
(* A file opened for appending and extended by one chunk is a file again. *)
LEMMA AppendType ==
    ASSUME NEW p \in FileType \union {NoFile}, NEW x \in Chunks \union {Damaged}
    PROVE  File(Append(DataOf(p), x), FALSE) \in FileType
<1>1. DataOf(p) \in Seq(Chunks \union {Damaged})
  BY DEF DataOf, FileType
<1>2. Append(DataOf(p), x) \in Seq(Chunks \union {Damaged})
  BY <1>1
<1> QED BY <1>2 DEF File, FileType

(* Only an exporter in a call takes a step. *)
LEMMA StepLive ==
    ASSUME NEW e \in Exporters, EngineStep(e)
    PROVE  call[e] # Idle
<1>1. call[e] = Idle => call[e].op = "idle"
  BY DEF Idle
<1>2. \/ call[e].op \in {"copy", "verify", "sync", "replace", "syncdir"}
      \/ call[e] # Idle
  BY DEF EngineStep, CopyChunk, CopyEnd, Verify, Sync, Replace, SyncDir, IoError,
         CleanupError, ExporterDies
<1> QED BY <1>1, <1>2

(* Types of the steps of an exporter, of the starts of calls and of the environment. *)
LEMMA StepType ==
    ASSUME EngineType, NEW e \in Exporters, EngineStep(e)
    PROVE  EngineType'
<1> USE DEF EngineType, Tokens
<1>live. call[e] # Idle
  BY StepLive
<1>0. /\ call[e] \in CallType
      /\ call[e].token \in Tokens
      /\ call[e].item \in Items
      /\ call[e].read \in Seq(Chunks)
  BY <1>live DEF CallType
<1>fault. Fault => faults' \in Nat
  BY DEF Fault
<1>fail. Fail(e) => /\ partials' \in [Tokens -> FileType \union {NoFile}]
                    /\ results' \in [Items -> {NoResult, "failed", "completed", "unverified"}]
                    /\ call' \in [Exporters -> CallType \union {Idle}]
  BY <1>0 DEF Fail
<1>goto. ASSUME NEW o \in {"copy", "verify", "sync", "replace", "syncdir"}, GoTo(e, o)
         PROVE  call' \in [Exporters -> CallType \union {Idle}]
  BY <1>0, <1>goto DEF GoTo, Call, CallType
<1>1. CASE CopyChunk(e)
  <2> DEFINE c == source[call[e].item][Len(call[e].read) + 1]
  <2>1. c \in Chunks
    <3>1. source[call[e].item] \in Seq(Chunks)
      BY <1>0, <1>1 DEF CopyChunk, HasChunk
    <3>2. Len(call[e].read) + 1 \in 1..Len(source[call[e].item])
      BY <1>0, <1>1, <3>1 DEF CopyChunk, HasChunk
    <3> QED BY <3>1, <3>2
  <2>2. call' = [call EXCEPT ![e] = Call("copy", call[e].item, call[e].token,
                                        Append(call[e].read, c))]
    BY <1>1 DEF CopyChunk
  <2>3. Append(call[e].read, c) \in Seq(Chunks)
    BY <1>0, <2>1
  <2>4. call' \in [Exporters -> CallType \union {Idle}]
    BY <1>0, <2>2, <2>3 DEF Call, CallType
  <2>5. \E x \in {c, Damaged} :
           partials' = [partials EXCEPT ![call[e].token] = File(Append(DataOf(@), x), FALSE)]
    BY <1>1 DEF CopyChunk
  <2>6. partials' \in [Tokens -> FileType \union {NoFile}]
    <3>1. PICK x \in {c, Damaged} :
             partials' = [partials EXCEPT ![call[e].token] = File(Append(DataOf(@), x), FALSE)]
      BY <2>5
    <3>2. File(Append(DataOf(partials[call[e].token]), x), FALSE) \in FileType
      BY <1>0, <2>1, AppendType
    <3> QED BY <1>0, <3>1, <3>2
  <2> QED BY <1>1, <1>fault, <2>4, <2>6 DEF CopyChunk
<1>2. CASE CopyEnd(e)
  BY <1>2, <1>fail, <1>goto DEF CopyEnd
<1>3. CASE Verify(e)
  BY <1>3, <1>fail, <1>goto DEF Verify
<1>4. CASE Sync(e)
  <2>1. CASE partials[call[e].token] # NoFile
    <3>1. Synced(partials[call[e].token]) \in FileType
      BY <1>0, <2>1 DEF Synced, File, FileType
    <3>2. partials' \in [Tokens -> FileType \union {NoFile}]
      BY <1>0, <1>4, <2>1, <3>1 DEF Sync
    <3> QED BY <1>4, <1>goto, <2>1, <3>2 DEF Sync
  <2>2. CASE partials[call[e].token] = NoFile
    BY <1>4, <1>fail, <2>2 DEF Sync
  <2> QED BY <2>1, <2>2
<1>5. CASE Replace(e)
  BY <1>0, <1>5, <1>fail, <1>goto DEF Replace
<1>6. CASE SyncDir(e)
  BY <1>0, <1>6 DEF SyncDir, DirSynced, Outcome
<1>7. CASE IoError(e)
  BY <1>7, <1>fail, <1>fault DEF IoError
<1>8. CASE CleanupError(e)
  BY <1>0, <1>8, <1>fault DEF CleanupError
<1>9. CASE ExporterDies(e)
  BY <1>9, <1>fault DEF ExporterDies
<1> QED BY <1>1, <1>2, <1>3, <1>4, <1>5, <1>6, <1>7, <1>8, <1>9 DEF EngineStep

LEMMA StartType ==
    ASSUME EngineType, NEW e \in Exporters, NEW i \in Items, EngineStart(e, i)
    PROVE  EngineType'
<1> USE DEF EngineType, Tokens
<1>1. CASE Refuse(e, i)
  BY <1>1 DEF Refuse
<1>2. CASE DestinationMissing(e, i)
  BY <1>2 DEF DestinationMissing, Fault
<1>3. ASSUME NEW replace \in BOOLEAN, Prepare(e, i, replace)
      PROVE  EngineType'
  <2>1. calls + 1 \in 1..MaxCalls
    BY <1>3, BoundsAssumption DEF Prepare
  <2>2. <<>> \in Seq(Chunks)
    OBVIOUS
  <2>3. Call("copy", i, calls + 1, <<>>) \in CallType
    BY <2>1, <2>2 DEF Call, CallType
  <2> QED BY <1>3, <2>1, <2>3 DEF Prepare
<1> QED BY <1>1, <1>2, <1>3 DEF EngineStart

LEMMA EnvType ==
    ASSUME EngineType, EngineEnv
    PROVE  EngineType'
<1> USE DEF EngineType
<1>1. CASE prune_partials
  BY <1>1 DEF prune_partials
<1>2. ASSUME NEW i \in Items, Extract(i)
      PROVE  EngineType'
  BY <1>2, ContentAssumption DEF Extract
<1>3. ASSUME NEW i \in Items, SourceChanges(i)
      PROVE  EngineType'
  BY <1>3, ContentAssumption DEF SourceChanges, Fault
<1>4. CASE PowerLoss
  <2>1. ASSUME NEW f \in FileType \union {NoFile}
        PROVE  Torn(f) \in FileType \union {NoFile}
    <3>1. <<Damaged>> \in Seq(Chunks \union {Damaged})
      OBVIOUS
    <3> QED BY <2>1, <3>1 DEF Torn, FileType, File
  <2>2. PICK reached \in SUBSET Items :
           final' = [i \in Items |-> Torn(IF i \in reached THEN final[i] ELSE stable[i])]
    BY <1>4 DEF PowerLoss
  <2>3. final' \in [Items -> FileType \union {NoFile}]
    BY <2>1, <2>2
  <2>4. partials' \in [Tokens -> FileType \union {NoFile}]
    BY <1>4, <2>1 DEF PowerLoss
  <2> QED BY <1>4, <2>3, <2>4 DEF PowerLoss, Fault
<1> QED BY <1>1, <1>2, <1>3, <1>4 DEF EngineEnv

-----------------------------------------------------------------------------
(* A step of one exporter that touches no partial file but its own and        *)
(* removes no final file leaves every other call as it was.                   *)
LEMMA MoveCall ==
    ASSUME EngineType, EngineType', TokensOwned, CallsOK, NEW e \in Exporters,
           call[e] # Idle,
           call'[e] # Idle => /\ call'[e].token = call[e].token
                              /\ CallOK(call[e], partials[call[e].token])',
           \A f \in Exporters \ {e} : call'[f] = call[f],
           \A t \in Tokens \ {call[e].token} : partials'[t] = partials[t],
           calls' = calls,
           \A i \in Items : final[i] # NoFile => final'[i] # NoFile
    PROVE  TokensOwned' /\ CallsOK'
<1>1. \A f \in Exporters : call[f] # Idle => call[f].token \in Tokens /\ call[f].item \in Items
  BY DEF EngineType, CallType
<1>2. \A f \in Exporters : call'[f] # Idle => call[f] # Idle /\ call'[f].token = call[f].token
  OBVIOUS
<1>3. TokensOwned'
  <2>1. \A f \in Exporters : call'[f] # Idle => call'[f].token <= calls'
    BY <1>2 DEF TokensOwned
  <2>2. \A f, g \in Exporters :
           call'[f] # Idle /\ call'[g] # Idle /\ f # g => call'[f].token # call'[g].token
    BY <1>2 DEF TokensOwned
  <2>3. \A t \in Tokens : calls' < t => partials'[t] = NoFile
    <3>1. call[e].token <= calls /\ call[e].token \in Nat /\ calls \in Nat
      BY <1>1 DEF TokensOwned, Tokens, EngineType
    <3>2. \A t \in Tokens : calls < t => t # call[e].token
      BY <3>1 DEF Tokens
    <3> QED BY <3>2 DEF TokensOwned
  <2> QED BY <2>1, <2>2, <2>3 DEF TokensOwned
<1>4. ASSUME NEW f \in Exporters, call'[f] # Idle, f # e
      PROVE  CallOK(call[f], partials[call[f].token])'
  <2>1. call'[f] = call[f] /\ call[f] # Idle
    BY <1>4
  <2>2. call[f].token \in Tokens \ {call[e].token}
    BY <1>1, <1>4, <2>1 DEF TokensOwned
  <2>3. partials'[call'[f].token] = partials[call[f].token]
    BY <2>1, <2>2
  <2>4. CallOK(call[f], partials[call[f].token])
    BY <2>1 DEF CallsOK
  <2>5. final[call[f].item] # NoFile => final'[call[f].item] # NoFile
    BY <1>1, <2>1
  <2> QED BY <2>1, <2>3, <2>4, <2>5 DEF CallOK
<1> QED BY <1>3, <1>4 DEF CallsOK

(* A call that returns: cleanup_partial may or may not have removed its file. *)
LEMMA DropCall ==
    ASSUME EngineType, EngineType', TokensOwned, CallsOK, NEW e \in Exporters,
           call[e] # Idle,
           call' = [call EXCEPT ![e] = Idle],
           \/ UNCHANGED partials
           \/ partials' = [partials EXCEPT ![call[e].token] = NoFile],
           calls' = calls, UNCHANGED final
    PROVE  TokensOwned' /\ CallsOK'
<1>1. call'[e] = Idle /\ \A f \in Exporters \ {e} : call'[f] = call[f]
  BY DEF EngineType
<1>2. \A t \in Tokens \ {call[e].token} : partials'[t] = partials[t]
  BY DEF EngineType
<1> QED BY <1>1, <1>2, MoveCall

(* A result that does not claim completion, with the finished copies unchanged. *)
LEMMA NoClaim ==
    ASSUME EngineType, ResultsTruthful, FinalsGood, NEW i \in Items,
           results' = [results EXCEPT ![i] = "failed"],
           UNCHANGED <<final, stable, dirOpens>>
    PROVE  ResultsTruthful' /\ FinalsGood'
<1>1. \A j \in Items : results'[j] \in {results[j], "failed"}
  BY DEF EngineType
<1>2. ResultsTruthful'
  BY <1>1 DEF ResultsTruthful
<1> QED BY <1>2 DEF FinalsGood, GoodFile

(* What was read is the recorded content when the file verifies. *)
LEMMA VerifiedRead ==
    ASSUME NEW data \in Seq(Chunks \union {Damaged}), NEW read \in Seq(Chunks),
           NEW i \in Items, Faithful(data, read), Len(read) = Len(Original[i]),
           data = Original[i]
    PROVE  read = Original[i]
<1>1. Original[i] \in Seq(Chunks)
  BY ContentAssumption
<1>2. \A k \in 1..Len(read) : data[k] \in {read[k], Damaged}
  BY DEF Faithful
<1>3. \A k \in 1..Len(read) : data[k] \in Chunks
  BY <1>1
<1>4. \A k \in 1..Len(read) : read[k] = Original[i][k]
  BY <1>2, <1>3, DamagedAssumption
<1> QED BY <1>1, <1>4

(* One more chunk keeps the partial file faithful to what was read. *)
LEMMA FaithfulAppend ==
    ASSUME NEW data \in Seq(Chunks \union {Damaged}), NEW read \in Seq(Chunks),
           NEW c \in Chunks, NEW x \in {c, Damaged}, Faithful(data, read)
    PROVE  Faithful(Append(data, x), Append(read, c))
<1>1. /\ Len(Append(data, x)) = Len(data) + 1
      /\ Len(Append(read, c)) = Len(read) + 1
      /\ Len(data) \in Nat /\ Len(read) \in Nat
  OBVIOUS
<1>2. ASSUME Len(data) = Len(read), NEW k \in 1..Len(read) + 1
      PROVE  Append(data, x)[k] \in {Append(read, c)[k], Damaged}
  <2>1. CASE k = Len(read) + 1
    BY <1>2, <2>1
  <2>2. CASE k \in 1..Len(read)
    BY <1>2, <2>2 DEF Faithful
  <2>3. k = Len(read) + 1 \/ k \in 1..Len(read)
    BY <1>1, <1>2
  <2> QED BY <2>1, <2>2, <2>3
<1> QED BY <1>1, <1>2 DEF Faithful

-----------------------------------------------------------------------------
(* EngineInv is inductive. *)
LEMMA EngineInit_Inv == EngineInit => EngineInv
<1> SUFFICES ASSUME EngineInit PROVE EngineInv
  OBVIOUS
<1>1. EngineType
  BY DEF EngineInit, EngineType
<1>2. TokensOwned /\ CallsOK
  BY DEF EngineInit, TokensOwned, CallsOK
<1>3. FinalsGood
  BY DEF EngineInit, FinalsGood, GoodFile
<1>4. ResultsTruthful
  BY DEF EngineInit, ResultsTruthful, NoResult
<1> QED BY <1>1, <1>2, <1>3, <1>4 DEF EngineInv

(* Each step of an exporter keeps EngineInv. *)
LEMMA StepInv ==
    ASSUME EngineInv, NEW e \in Exporters, EngineStep(e)
    PROVE  EngineInv'
<1> DEFINE c == call[e]
           p == partials[call[e].token]
<1>live. c # Idle
  BY StepLive
<1>type. EngineType /\ EngineType'
  BY StepType DEF EngineInv
<1>inv. TokensOwned /\ CallsOK /\ FinalsGood /\ ResultsTruthful
  BY DEF EngineInv
<1>0. /\ c \in CallType /\ c.token \in Tokens /\ c.item \in Items /\ c.read \in Seq(Chunks)
      /\ p \in FileType \union {NoFile}
  BY <1>live, <1>type DEF EngineType, CallType
<1>ok. CallOK(c, p)
  BY <1>live, <1>inv DEF CallsOK
<1>fail. ASSUME Fail(e), UNCHANGED <<final, stable, calls, dirOpens>>
         PROVE  EngineInv'
  <2>1. TokensOwned' /\ CallsOK'
    BY <1>fail, <1>live, <1>type, <1>inv, DropCall DEF Fail
  <2>2. ResultsTruthful' /\ FinalsGood'
    BY <1>fail, <1>0, <1>type, <1>inv, NoClaim DEF Fail
  <2> QED BY <1>type, <2>1, <2>2 DEF EngineInv
<1>quiet. ASSUME UNCHANGED <<final, stable, dirOpens, results>>
          PROVE  FinalsGood' /\ ResultsTruthful'
  BY <1>quiet, <1>inv DEF FinalsGood, GoodFile, ResultsTruthful
<1>goto. ASSUME NEW o \in {"copy", "verify", "sync", "replace", "syncdir"}, GoTo(e, o)
         PROVE  /\ call'[e] = Call(o, c.item, c.token, c.read)
                /\ call'[e].op = o /\ call'[e].item = c.item
                /\ call'[e].token = c.token /\ call'[e].read = c.read
                /\ \A f \in Exporters \ {e} : call'[f] = call[f]
  BY <1>goto, <1>type DEF GoTo, Call, EngineType
<1>1. CASE CopyChunk(e)
  <2> DEFINE i == c.item
             chunk == source[i][Len(c.read) + 1]
  <2>1. chunk \in Chunks
    <3>1. source[i] \in Seq(Chunks)
      BY <1>0, <1>1, <1>type DEF CopyChunk, HasChunk, EngineType
    <3>2. Len(c.read) + 1 \in 1..Len(source[i])
      BY <1>0, <1>1, <3>1 DEF CopyChunk, HasChunk
    <3> QED BY <3>1, <3>2
  <2>2. PICK x \in {chunk, Damaged} :
           partials' = [partials EXCEPT ![c.token] = File(Append(DataOf(@), x), FALSE)]
    BY <1>1 DEF CopyChunk
  <2>3. call' = [call EXCEPT ![e] = Call("copy", i, c.token, Append(c.read, chunk))]
    BY <1>1 DEF CopyChunk
  <2>4. /\ call'[e].op = "copy" /\ call'[e].item = i /\ call'[e].token = c.token
        /\ call'[e].read = Append(c.read, chunk)
        /\ \A f \in Exporters \ {e} : call'[f] = call[f]
    BY <2>3, <1>type DEF Call, EngineType
  <2>5. partials'[c.token].data = Append(DataOf(p), x)
    BY <2>2, <1>0, <1>type DEF File, EngineType
  <2>6. DataOf(p) \in Seq(Chunks \union {Damaged}) /\ Faithful(DataOf(p), c.read)
    <3>1. CASE p = NoFile
      BY <3>1, <1>0 DEF DataOf, Faithful
    <3>2. CASE p # NoFile
      BY <3>2, <1>0, <1>1, <1>ok DEF DataOf, CallOK, CopyChunk, FileType
    <3> QED BY <3>1, <3>2
  <2>7. Faithful(Append(DataOf(p), x), Append(c.read, chunk))
    BY <1>0, <2>1, <2>6, FaithfulAppend
  <2>8. CallOK(call[e], partials[call[e].token])'
    BY <2>4, <2>5, <2>7 DEF CallOK
  <2>9. \A t \in Tokens \ {c.token} : partials'[t] = partials[t]
    BY <2>2, <1>type DEF EngineType
  <2>10. TokensOwned' /\ CallsOK'
    BY <1>1, <1>live, <1>type, <1>inv, <2>4, <2>8, <2>9, MoveCall DEF CopyChunk
  <2> QED BY <1>1, <1>type, <1>quiet, <2>10 DEF CopyChunk, EngineInv
<1>2. CASE CopyEnd(e)
  <2>1. CASE AtExpectedEnd(e)
    <3>1. GoTo(e, "verify") /\ UNCHANGED <<partials, results>>
      BY <1>2, <2>1 DEF CopyEnd
    <3>2. Len(c.read) = Len(Original[c.item]) /\ c.op = "copy"
      BY <1>2, <2>1 DEF CopyEnd, AtExpectedEnd
    <3>3. CallOK(call[e], partials[call[e].token])'
      BY <3>1, <3>2, <1>goto, <1>ok DEF CallOK
    <3>4. TokensOwned' /\ CallsOK'
      BY <1>2, <1>live, <1>type, <1>inv, <1>goto, <3>1, <3>3, MoveCall DEF CopyEnd
    <3> QED BY <1>2, <1>type, <1>quiet, <3>1, <3>4 DEF CopyEnd, EngineInv
  <2>2. CASE ~AtExpectedEnd(e)
    BY <1>2, <2>2, <1>fail DEF CopyEnd
  <2> QED BY <2>1, <2>2
<1>3. CASE Verify(e)
  <2>1. CASE Verifies(p, c.item)
    <3>1. GoTo(e, "sync") /\ UNCHANGED <<partials, results>>
      BY <1>3, <2>1 DEF Verify
    <3>2. p # NoFile /\ p.data = Original[c.item] /\ c.op = "verify"
      BY <1>3, <2>1 DEF Verify, Verifies
    <3>3. Faithful(p.data, c.read) /\ Len(c.read) = Len(Original[c.item])
      BY <3>2, <1>ok DEF CallOK
    <3>4. c.read = Original[c.item]
      <4>1. p.data \in Seq(Chunks \union {Damaged})
        BY <3>2, <1>0 DEF FileType
      <4> QED BY <4>1, <3>2, <3>3, <1>0, VerifiedRead
    <3>5. CallOK(call[e], partials[call[e].token])'
      BY <3>1, <3>2, <3>4, <1>goto DEF CallOK
    <3>6. TokensOwned' /\ CallsOK'
      BY <1>3, <1>live, <1>type, <1>inv, <1>goto, <3>1, <3>5, MoveCall DEF Verify
    <3> QED BY <1>3, <1>type, <1>quiet, <3>1, <3>6 DEF Verify, EngineInv
  <2>2. CASE ~Verifies(p, c.item)
    BY <1>3, <2>2, <1>fail DEF Verify
  <2> QED BY <2>1, <2>2
<1>4. CASE Sync(e)
  <2>1. CASE p # NoFile
    <3>1. /\ GoTo(e, "replace") /\ UNCHANGED results
          /\ partials' = [partials EXCEPT ![c.token] = Synced(@)]
      BY <1>4, <2>1 DEF Sync
    <3>2. partials'[c.token].data = p.data /\ partials'[c.token].synced = TRUE
      BY <3>1, <1>0, <1>type DEF Synced, File, EngineType
    <3>3. CallOK(call[e], partials[call[e].token])'
      BY <1>4, <2>1, <3>1, <3>2, <1>goto, <1>ok DEF CallOK, Sync
    <3>4. \A t \in Tokens \ {c.token} : partials'[t] = partials[t]
      BY <3>1, <1>type DEF EngineType
    <3>5. TokensOwned' /\ CallsOK'
      BY <1>4, <1>live, <1>type, <1>inv, <1>goto, <3>1, <3>3, <3>4, MoveCall DEF Sync
    <3> QED BY <1>4, <1>type, <1>quiet, <3>1, <3>5 DEF Sync, EngineInv
  <2>2. CASE p = NoFile
    BY <1>4, <2>2, <1>fail DEF Sync
  <2> QED BY <2>1, <2>2
<1>5. CASE Replace(e)
  <2>1. CASE p # NoFile
    <3>1. /\ GoTo(e, "syncdir") /\ UNCHANGED <<results, stable, dirOpens>>
          /\ partials' = [partials EXCEPT ![c.token] = NoFile]
          /\ final' = [final EXCEPT ![c.item] = p]
      BY <1>5, <2>1 DEF Replace
    <3>2. \A i \in Items : final'[i] \in {final[i], p} /\ (i # c.item => final'[i] = final[i])
      BY <3>1, <1>type DEF EngineType
    <3>3. final'[c.item] = p
      BY <3>1, <1>0, <1>type DEF EngineType
    <3>4. p.data = Original[c.item] /\ p.synced = TRUE /\ c.read = Original[c.item]
      BY <1>5, <2>1, <1>ok DEF Replace, CallOK
    <3>5. CallOK(call[e], partials[call[e].token])'
      BY <2>1, <3>1, <3>3, <3>4, <1>goto DEF CallOK
    <3>6. \A t \in Tokens \ {c.token} : partials'[t] = partials[t]
      BY <3>1, <1>type DEF EngineType
    <3>7. \A i \in Items : final[i] # NoFile => final'[i] # NoFile
      BY <2>1, <3>2
    <3>8. TokensOwned' /\ CallsOK'
      BY <1>5, <1>live, <1>type, <1>inv, <1>goto, <3>1, <3>5, <3>6, <3>7, MoveCall DEF Replace
    <3>9. FinalsGood'
      BY <3>1, <3>2, <3>3, <3>4, <3>7, <1>inv DEF FinalsGood, GoodFile
    <3>10. ResultsTruthful'
      BY <3>1, <3>7, <1>inv DEF ResultsTruthful
    <3> QED BY <1>type, <3>8, <3>9, <3>10 DEF EngineInv
  <2>2. CASE p = NoFile
    BY <1>5, <2>2, <1>fail DEF Replace
  <2> QED BY <2>1, <2>2
<1>6. CASE SyncDir(e)
  <2>1. c.read = Original[c.item] /\ final[c.item] # NoFile
    BY <1>6, <1>ok DEF SyncDir, CallOK
  <2>2. /\ results' = [results EXCEPT ![c.item] = "completed"]
        /\ stable' = DirSynced
        /\ call' = [call EXCEPT ![e] = Idle]
        /\ UNCHANGED <<final, partials, calls, dirOpens>>
    BY <1>6, <2>1 DEF SyncDir, Outcome
  <2>3. TokensOwned' /\ CallsOK'
    BY <1>live, <1>type, <1>inv, <2>2, DropCall
  <2>4. \A i \in Items : stable'[i] = IF dirOpens THEN final[i] ELSE stable[i]
    BY <2>2 DEF DirSynced
  <2>5. FinalsGood'
    BY <2>2, <2>4, <1>inv DEF FinalsGood, GoodFile
  <2>6. \A i \in Items : results'[i] = IF i = c.item THEN "completed" ELSE results[i]
    BY <2>2, <1>type DEF EngineType
  <2>7. ResultsTruthful'
    BY <2>1, <2>2, <2>4, <2>6, <1>inv DEF ResultsTruthful
  <2> QED BY <1>type, <2>3, <2>5, <2>7 DEF EngineInv
<1>7. CASE IoError(e)
  BY <1>7, <1>fail DEF IoError
<1>8. CASE CleanupError(e)
  <2>1. TokensOwned' /\ CallsOK'
    BY <1>8, <1>live, <1>type, <1>inv, DropCall DEF CleanupError
  <2>2. ResultsTruthful' /\ FinalsGood'
    BY <1>8, <1>0, <1>type, <1>inv, NoClaim DEF CleanupError
  <2> QED BY <1>type, <2>1, <2>2 DEF EngineInv
<1>9. CASE ExporterDies(e)
  <2>1. TokensOwned' /\ CallsOK'
    BY <1>9, <1>live, <1>type, <1>inv, DropCall DEF ExporterDies
  <2> QED BY <1>9, <1>type, <1>quiet, <2>1 DEF ExporterDies, EngineInv
<1> QED BY <1>1, <1>2, <1>3, <1>4, <1>5, <1>6, <1>7, <1>8, <1>9 DEF EngineStep

(* The start of a call keeps EngineInv. *)
LEMMA StartInv ==
    ASSUME EngineInv, NEW e \in Exporters, NEW i \in Items, EngineStart(e, i)
    PROVE  EngineInv'
<1>type. EngineType /\ EngineType'
  BY StartType DEF EngineInv
<1>inv. TokensOwned /\ CallsOK /\ FinalsGood /\ ResultsTruthful
  BY DEF EngineInv
<1>1. CASE Refuse(e, i) \/ DestinationMissing(e, i)
  <2>1. /\ results' = [results EXCEPT ![i] = "failed"]
        /\ UNCHANGED <<partials, final, stable, call, calls, dirOpens>>
    BY <1>1 DEF Refuse, DestinationMissing
  <2>2. TokensOwned' /\ CallsOK'
    BY <2>1, <1>inv DEF TokensOwned, CallsOK, CallOK
  <2>3. ResultsTruthful' /\ FinalsGood'
    BY <2>1, <1>type, <1>inv, NoClaim
  <2> QED BY <1>type, <2>2, <2>3 DEF EngineInv
<1>2. ASSUME NEW replace \in BOOLEAN, Prepare(e, i, replace)
      PROVE  EngineInv'
  <2>1. /\ call[e] = Idle /\ calls < MaxCalls /\ calls' = calls + 1
        /\ call' = [call EXCEPT ![e] = Call("copy", i, calls + 1, <<>>)]
        /\ UNCHANGED <<partials, final, stable, results, dirOpens>>
    BY <1>2 DEF Prepare
  <2>2. /\ call'[e].op = "copy" /\ call'[e].token = calls + 1 /\ call'[e].read = <<>>
        /\ \A f \in Exporters \ {e} : call'[f] = call[f]
    BY <2>1, <1>type DEF Call, EngineType
  <2>3. calls \in Nat /\ calls + 1 \in Tokens
    BY <2>1, <1>type, BoundsAssumption DEF Tokens, EngineType
  <2>4. partials'[calls + 1] = NoFile
    BY <2>1, <2>3, <1>inv DEF TokensOwned
  <2>5. \A f \in Exporters : call[f] # Idle => call[f].token \in Nat /\ call[f].token <= calls
    BY <1>type, <1>inv DEF EngineType, CallType, Tokens, TokensOwned
  <2>6. TokensOwned'
    <3>1. \A f \in Exporters : call'[f] # Idle => call'[f].token <= calls'
      BY <2>1, <2>2, <2>3, <2>5
    <3>2. \A f, g \in Exporters :
             call'[f] # Idle /\ call'[g] # Idle /\ f # g => call'[f].token # call'[g].token
      BY <2>2, <2>3, <2>5, <1>inv DEF TokensOwned
    <3>3. \A t \in Tokens : calls' < t => partials'[t] = NoFile
      BY <2>1, <2>3, <1>inv DEF TokensOwned, Tokens
    <3> QED BY <3>1, <3>2, <3>3 DEF TokensOwned
  <2>7. CallOK(call[e], partials[call[e].token])'
    BY <2>2, <2>4 DEF CallOK
  <2>8. CallsOK'
    BY <2>1, <2>2, <2>7, <1>inv DEF CallsOK, CallOK
  <2>9. FinalsGood' /\ ResultsTruthful'
    BY <2>1, <1>inv DEF FinalsGood, GoodFile, ResultsTruthful
  <2> QED BY <1>type, <2>6, <2>8, <2>9 DEF EngineInv
<1> QED BY <1>1, <1>2 DEF EngineStart

(* So does everything that happens beside the exporters. *)
LEMMA EnvInv ==
    ASSUME EngineInv, EngineEnv
    PROVE  EngineInv'
<1>type. EngineType /\ EngineType'
  BY EnvType DEF EngineInv
<1>inv. TokensOwned /\ CallsOK /\ FinalsGood /\ ResultsTruthful
  BY DEF EngineInv
<1>1. CASE prune_partials
  <2>1. \A t \in Tokens : partials'[t] = NoFile
    BY <1>1 DEF prune_partials
  <2>2. UNCHANGED <<final, stable, call, calls, results, dirOpens>>
    BY <1>1 DEF prune_partials
  <2>3. TokensOwned'
    BY <2>1, <2>2, <1>inv DEF TokensOwned
  <2>4. \A f \in Exporters : call[f] # Idle => call[f].token \in Tokens
    BY <1>type DEF EngineType, CallType
  <2>5. CallsOK'
    BY <2>1, <2>2, <2>4, <1>inv DEF CallsOK, CallOK
  <2>6. FinalsGood' /\ ResultsTruthful'
    BY <2>2, <1>inv DEF FinalsGood, GoodFile, ResultsTruthful
  <2> QED BY <1>type, <2>3, <2>5, <2>6 DEF EngineInv
<1>2. CASE \E i \in Items : Extract(i) \/ SourceChanges(i)
  <2>1. UNCHANGED <<partials, final, stable, call, calls, results, dirOpens>>
    BY <1>2 DEF Extract, SourceChanges
  <2>2. TokensOwned' /\ CallsOK'
    BY <2>1, <1>inv DEF TokensOwned, CallsOK, CallOK
  <2>3. FinalsGood' /\ ResultsTruthful'
    BY <2>1, <1>inv DEF FinalsGood, GoodFile, ResultsTruthful
  <2> QED BY <1>type, <2>2, <2>3 DEF EngineInv
<1>3. CASE PowerLoss
  <2>1. PICK reached \in SUBSET Items :
           final' = [i \in Items |-> Torn(IF i \in reached THEN final[i] ELSE stable[i])]
    BY <1>3 DEF PowerLoss
  <2>2. \A i \in Items : Torn(final[i]) = final[i] /\ Torn(stable[i]) = stable[i]
    BY <1>inv DEF Torn, FinalsGood, GoodFile
  <2>3. \A i \in Items : final'[i] = IF i \in reached THEN final[i] ELSE stable[i]
    BY <2>1, <2>2
  <2>4. /\ stable' = final' /\ calls' = calls
        /\ \A f \in Exporters : call'[f] = Idle
        /\ \A i \in Items : results'[i] = NoResult
        /\ \A t \in Tokens : partials'[t] = Torn(partials[t])
    BY <1>3 DEF PowerLoss
  <2>5. FinalsGood'
    BY <2>3, <2>4, <1>inv DEF FinalsGood, GoodFile
  <2>6. TokensOwned' /\ CallsOK'
    BY <2>4, <1>inv DEF TokensOwned, CallsOK, Torn
  <2>7. ResultsTruthful'
    BY <2>4 DEF ResultsTruthful, NoResult
  <2> QED BY <1>type, <2>5, <2>6, <2>7 DEF EngineInv
<1> QED BY <1>1, <1>2, <1>3 DEF EngineEnv

LEMMA EngineNext_Inv == EngineInv /\ [EngineNext]_engineVars => EngineInv'
<1> SUFFICES ASSUME EngineInv, [EngineNext]_engineVars PROVE EngineInv'
  OBVIOUS
<1>1. CASE UNCHANGED engineVars
  BY <1>1 DEF engineVars, EngineInv, EngineType, TokensOwned, CallsOK, CallOK, FinalsGood,
              GoodFile, ResultsTruthful
<1>2. CASE EngineNext
  BY <1>2, StepInv, StartInv, EnvInv DEF EngineNext
<1> QED BY <1>1, <1>2

(* The invariant holds throughout every run of the engine. *)
THEOREM EngineSafe == EngineSpec => []EngineInv
<1> QED BY EngineInit_Inv, EngineNext_Inv, PTL DEF EngineSpec

(* A file under a final name holds the recorded content: the interleavings of *)
(* copy_stream, verify_copy, finalize_copy and prune_partials, for any number *)
(* of exporters and faults.                                                   *)
THEOREM FinalsVerifiedAlways == EngineSpec => []FinalsVerified
<1>1. EngineInv => FinalsVerified
  BY DEF EngineInv, FinalsGood, GoodFile, FinalsVerified
<1> QED BY <1>1, EngineSafe, PTL

(* A completed ExportResult is verified and its copy is in place. *)
THEOREM CompletedIsVerifiedAlways == EngineSpec => []CompletedIsVerified
<1>1. EngineInv => CompletedIsVerified
  BY DEF EngineInv, ResultsTruthful, CompletedIsVerified
<1> QED BY <1>1, EngineSafe, PTL

(* Files with the same data and durability are the same file. *)
LEMMA GoodFilesEqual ==
    ASSUME NEW f \in FileType, NEW g \in FileType,
           f.data = g.data, f.synced = g.synced
    PROVE  f = g
BY DEF FileType

LEMMA CopyKeptStep ==
    ASSUME EngineInv, EngineNext, NEW i \in Items, stable[i] # NoFile
    PROVE  final'[i] = final[i]
<1>type. final[i] \in FileType \union {NoFile} /\ stable[i] \in FileType
  BY DEF EngineInv, EngineType
<1>good. /\ final[i] # NoFile
         /\ final[i].data = Original[i] /\ final[i].synced = TRUE
         /\ stable[i].data = Original[i] /\ stable[i].synced = TRUE
  BY DEF EngineInv, FinalsGood, GoodFile
<1>same. final[i] = stable[i]
  BY <1>type, <1>good, GoodFilesEqual
<1>1. ASSUME NEW e \in Exporters, Replace(e), call[e].item = i
      PROVE  final'[i] = final[i]
  <2> DEFINE p == partials[call[e].token]
  <2>1. CASE p = NoFile
    BY <1>1, <2>1 DEF Replace
  <2>2. CASE p # NoFile
    <3>1. call[e] # Idle
      BY <1>1, StepLive DEF EngineStep
    <3>2. call[e].token \in Tokens
      BY <3>1 DEF EngineInv, EngineType, CallType
    <3>3. p \in FileType
      BY <2>2, <3>2 DEF EngineInv, EngineType
    <3>4. CallOK(call[e], p)
      BY <3>1 DEF EngineInv, CallsOK
    <3>5. p.data = Original[i] /\ p.synced = TRUE
      BY <1>1, <2>2, <3>4 DEF Replace, CallOK
    <3>6. p = final[i]
      BY <1>type, <1>good, <3>3, <3>5, GoodFilesEqual
    <3>7. final' = [final EXCEPT ![i] = p]
      BY <1>1, <2>2 DEF Replace
    <3> QED BY <3>6, <3>7 DEF EngineInv, EngineType
  <2> QED BY <2>1, <2>2
<1>2. ASSUME NEW e \in Exporters, EngineStep(e), ~(Replace(e) /\ call[e].item = i)
      PROVE  final'[i] = final[i]
  <2>1. CASE Replace(e)
    BY <1>2, <2>1 DEF Replace, EngineInv, EngineType
  <2>2. CASE ~Replace(e)
    BY <1>2, <2>2 DEF EngineStep, CopyChunk, CopyEnd, Verify, Sync, SyncDir, IoError,
                      CleanupError, ExporterDies
  <2> QED BY <2>1, <2>2
<1>3. ASSUME NEW e \in Exporters, NEW j \in Items, EngineStart(e, j)
      PROVE  final'[i] = final[i]
  BY <1>3 DEF EngineStart, Refuse, DestinationMissing, Prepare
<1>4. CASE PowerLoss
  <2>1. PICK reached \in SUBSET Items :
           final' = [j \in Items |-> Torn(IF j \in reached THEN final[j] ELSE stable[j])]
    BY <1>4 DEF PowerLoss
  <2> QED BY <2>1, <1>same, <1>good DEF Torn
<1>5. CASE EngineEnv /\ ~PowerLoss
  BY <1>5 DEF EngineEnv, prune_partials, Extract, SourceChanges
<1> QED BY <1>1, <1>2, <1>3, <1>4, <1>5 DEF EngineNext

(* A durable finished copy is never removed nor changed (cleanup_partial,     *)
(* prune_partials, finalize_copy over an existing copy, power loss).          *)
THEOREM CompletedCopyKeptAlways == EngineSpec => CompletedCopyKept
<1>1. EngineInv /\ [EngineNext]_engineVars
         => [\A i \in Items : stable[i] # NoFile => final'[i] = final[i]]_engineVars
  BY CopyKeptStep
<1> QED BY <1>1, EngineSafe, PTL DEF EngineSpec, CompletedCopyKept

-----------------------------------------------------------------------------
(* The queue *)

QueueInv ==
    /\ EngineInv
    /\ queue \in [Items -> [state : QUEUE_STATES \union {"absent"}, attempts : Nat]]
    /\ dirOpens => \A i \in Items : queue[i].state = "exported" => stable[i] # NoFile

(* The queue drives the engine through steps of its own specification. *)
THEOREM QueueImplementsEngine == Spec => EngineSpec
<1>1. Init => EngineInit
  BY DEF Init
<1>2. [Next]_vars => [EngineNext]_engineVars
  BY DEF Next, vars, EngineNext, Export, Enqueue, Dismiss, step_queue
<1> QED BY <1>1, <1>2, PTL DEF Spec, EngineSpec

(* No step of the engine takes back a durable entry, so what is exported stays so. *)
LEMMA StableKept ==
    ASSUME EngineInv, EngineNext, NEW i \in Items, stable[i] # NoFile
    PROVE  stable'[i] # NoFile
<1>1. final[i] # NoFile /\ final'[i] = final[i]
  BY CopyKeptStep DEF EngineInv, FinalsGood
<1>2. stable' = stable \/ stable' = final \/ stable' = final'
  <2>1. ASSUME NEW e \in Exporters, EngineStep(e)
        PROVE  stable' = stable \/ stable' = final
    BY <2>1 DEF EngineStep, CopyChunk, CopyEnd, Verify, Sync, Replace, SyncDir, IoError,
                CleanupError, ExporterDies, DirSynced
  <2>2. ASSUME NEW e \in Exporters, NEW j \in Items, EngineStart(e, j)
        PROVE  stable' = stable
    BY <2>2 DEF EngineStart, Refuse, DestinationMissing, Prepare
  <2>3. ASSUME EngineEnv
        PROVE  stable' = stable \/ stable' = final'
    BY <2>3 DEF EngineEnv, prune_partials, Extract, SourceChanges, PowerLoss
  <2> QED BY <2>1, <2>2, <2>3 DEF EngineNext
<1> QED BY <1>1, <1>2

(* The results that step_queue takes for copies have a durable copy. *)
LEMMA SteppedInv ==
    ASSUME QueueInv, step_queue
    PROVE  QueueInv'
<1>1. PICK ready \in SUBSET Ready, gone \in SUBSET dismissed :
         queue' = [i \in Items |->
                     IF i \in Unsettled
                     THEN Stepped(queue[i], i \in gone, i \in ready, i \in Succeeded)
                     ELSE queue[i]]
  BY DEF step_queue
<1>2. UNCHANGED engineVars
  BY DEF step_queue
<1>3. EngineInv'
  BY <1>2, EngineNext_Inv DEF QueueInv
<1>4. ASSUME NEW i \in Items
      PROVE  /\ queue'[i] \in [state : QUEUE_STATES \union {"absent"}, attempts : Nat]
             /\ queue'[i].state = "exported" => queue[i].state = "exported" \/ i \in Succeeded
  <2> DEFINE q == queue[i]
  <2>0. q \in [state : QUEUE_STATES \union {"absent"}, attempts : Nat]
    BY DEF QueueInv
  <2>1. CASE i \notin Unsettled
    BY <1>1, <2>0, <2>1
  <2>2. CASE i \in Unsettled
    <3>1. queue'[i] = Stepped(q, i \in gone, i \in ready, i \in Succeeded)
      BY <1>1, <2>2
    <3>2. q.attempts \in Nat /\ q.attempts + 1 \in Nat
      BY <2>0
    <3>3. CASE i \in gone
      BY <2>0, <3>1, <3>3 DEF Stepped, QUEUE_STATES, QueueTerminal
    <3>4. CASE i \notin gone /\ q.state = "waiting"
      BY <3>1, <3>2, <3>4 DEF Stepped, SteppedWaiting, QueueItem, QUEUE_STATES, QueueTerminal
    <3>5. CASE i \notin gone /\ q.state # "waiting"
      BY <2>0, <2>2, <3>1, <3>2, <3>5
         DEF Stepped, SteppedReady, Unsettled, QUEUE_STATES, QueueTerminal
    <3> QED BY <3>3, <3>4, <3>5
  <2> QED BY <2>1, <2>2
<1>5. queue' \in [Items -> [state : QUEUE_STATES \union {"absent"}, attempts : Nat]]
  BY <1>1, <1>4
<1>6. ASSUME dirOpens, NEW i \in Items, i \in Succeeded
      PROVE  stable[i] # NoFile
  BY <1>6 DEF Succeeded, QueueInv, EngineInv, ResultsTruthful
<1>7. dirOpens' => \A i \in Items : queue'[i].state = "exported" => stable'[i] # NoFile
  BY <1>2, <1>4, <1>6 DEF QueueInv, engineVars
<1> QED BY <1>3, <1>5, <1>7 DEF QueueInv

LEMMA QueueNext_Inv == QueueInv /\ [Next]_vars => QueueInv'
<1> SUFFICES ASSUME QueueInv, [Next]_vars PROVE QueueInv'
  OBVIOUS
<1>1. CASE EngineNext /\ UNCHANGED queue
  <2>1. EngineInv /\ EngineInv'
    BY <1>1, EngineNext_Inv DEF QueueInv
  <2>2. dirOpens' = dirOpens
    BY <1>1 DEF EngineNext, EngineStep, EngineStart, EngineEnv, CopyChunk, CopyEnd, Verify,
                Sync, Replace, SyncDir, IoError, CleanupError, ExporterDies, Refuse,
                DestinationMissing, Prepare, prune_partials, Extract, SourceChanges, PowerLoss
  <2> QED BY <1>1, <2>1, <2>2, StableKept DEF QueueInv
<1>2. CASE step_queue
  BY <1>2, SteppedInv
<1>3. ASSUME NEW i \in Items, Enqueue(i)
      PROVE  QueueInv'
  <2>1. UNCHANGED engineVars
    BY <1>3 DEF Enqueue
  <2>2. EngineInv'
    BY <2>1, EngineNext_Inv DEF QueueInv
  <2>3. PICK s \in {"skipped", "ready", "waiting"} :
           queue' = [queue EXCEPT ![i] = QueueItem(s, 0)]
    BY <1>3 DEF Enqueue, classify_readiness
  <2>4. QueueItem(s, 0) \in [state : QUEUE_STATES \union {"absent"}, attempts : Nat]
    BY DEF QueueItem, QUEUE_STATES, QueueTerminal
  <2>5. QueueItem(s, 0).state # "exported"
    BY DEF QueueItem
  <2> QED BY <2>1, <2>2, <2>3, <2>4, <2>5 DEF QueueInv, engineVars
<1>4. CASE UNCHANGED <<engineVars, queue>>
  <2>1. EngineInv'
    BY <1>4, EngineNext_Inv DEF QueueInv
  <2> QED BY <1>4, <2>1 DEF QueueInv, engineVars
<1>5. ASSUME NEW i \in Items, Dismiss(i)
      PROVE  QueueInv'
  BY <1>4, <1>5 DEF Dismiss
<1>6. CASE UNCHANGED vars
  BY <1>4, <1>6 DEF vars, queueVars
<1> QED BY <1>1, <1>2, <1>3, <1>5, <1>6 DEF Next, EngineNext, Export, queueVars

(* What the queue reports exported is under its final name for good, through  *)
(* deaths of exporters, power losses, prunes and dismissals.                  *)
THEOREM ExportedSurvivesAlways == Spec => []ExportedSurvives
<1>1. Init => QueueInv
  BY EngineInit_Inv DEF Init, QueueInv, NotQueued, QueueItem, QUEUE_STATES
<1>2. QueueInv => ExportedSurvives
  BY DEF QueueInv, EngineInv, FinalsGood, ExportedSurvives
<1> QED BY <1>1, <1>2, QueueNext_Inv, PTL DEF Spec

(* However the queue drives the engine (export_queue.py, local_export.py),   *)
(* what it calls complete is verified and in place.                          *)
THEOREM CopiesAreVerified == Spec => []CopiesVerified
BY FinalsVerifiedAlways, CompletedIsVerifiedAlways, QueueImplementsEngine, PTL DEF CopiesVerified
=============================================================================
