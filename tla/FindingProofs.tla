---------------------------- MODULE FindingProofs ----------------------------
(***************************************************************************)
(* What is found and what becomes of it: secrets are shown for a bounded   *)
(* time (SecretUse), what an adapter accepts is safe (ParserJobs),         *)
(* exported files have places of their own (ExportPaths), near duplicates  *)
(* are the components of likeness (DuplicateGroups), no volume is passed   *)
(* over (DiskLayout), entries are in their places and whole when they are  *)
(* called intact (EntryRecovery), and a floppy is read right (Fat12); for  *)
(* any policies, contents, tool output, paths, findings, tables, listings  *)
(* and FATs.                                                               *)
(***************************************************************************)
EXTENDS SecretUse, ParserJobs, ExportPaths, DuplicateGroups, DiskLayout, EntryRecovery, Fat12,
        FiniteSetTheorems, SequenceTheorems, WellFoundedInduction, NaturalsInduction, TLAPS

(* A non-empty set of natural numbers has a least element. *)
LEMMA LeastNumber ==
    ASSUME NEW T \in SUBSET Nat, T # {}
    PROVE  \E x \in T : \A y \in T : x <= y
<1> DEFINE R == OpToRel(<, Nat)
<1>1. \A x, y \in Nat : x < y => <<x, y>> \in R
  BY Zenon DEF OpToRel
<1>2. IsWellFoundedOn(R, Nat)
  BY NatLessThanWellFounded
<1> HIDE DEF R
<1>3. PICK x \in T : \A y \in T : ~(<<y, x>> \in R)
  BY <1>2, WFMin
<1>4. \A y \in T : ~(y < x)
  BY <1>1, <1>3, Zenon
<1> QED
  BY <1>4

(* What is paired off one by one with a finite set is finite and has as many. *)
LEMMA SameNumber ==
    ASSUME NEW S, NEW T, IsFiniteSet(S), NEW f \in [S -> T],
           \A x, y \in S : f[x] = f[y] => x = y, \A z \in T : \E x \in S : f[x] = z
    PROVE  IsFiniteSet(T) /\ Cardinality(T) = Cardinality(S)
<1>1. f \in Injection(S, T)
  BY DEF Injection, IsInjective
<1>2. f \in Surjection(S, T)
  BY DEF Surjection
<1> QED
  BY <1>1, <1>2, FS_Surjection

(* The numbers of a finite set are counted off in ascending order. *)
UpTo(S, x) == {y \in S : y <= x}

LEMMA CountedOff ==
    ASSUME NEW S \in SUBSET Nat, IsFiniteSet(S)
    PROVE  /\ Cardinality(S) \in Nat
           /\ \A x \in S : Cardinality(UpTo(S, x)) \in 1 .. Cardinality(S)
           /\ \A x, y \in S : x < y => Cardinality(UpTo(S, x)) < Cardinality(UpTo(S, y))
           /\ \A k \in 1 .. Cardinality(S) : \E x \in S : Cardinality(UpTo(S, x)) = k
<1> DEFINE n == Cardinality(S)
           count == [x \in S |-> Cardinality(UpTo(S, x))]
<1>1. n \in Nat
  BY FS_CardinalityType
<1>2. ASSUME NEW x \in S
      PROVE  IsFiniteSet(UpTo(S, x)) /\ Cardinality(UpTo(S, x)) \in 1 .. n
  <2>1. UpTo(S, x) \in SUBSET S /\ x \in UpTo(S, x)
    BY DEF UpTo
  <2>2. IsFiniteSet(UpTo(S, x)) /\ Cardinality(UpTo(S, x)) <= n
    BY <2>1, FS_Subset
  <2>3. Cardinality(UpTo(S, x)) \in Nat /\ Cardinality(UpTo(S, x)) # 0
    BY <2>1, <2>2, FS_CardinalityType, FS_EmptySet
  <2> QED
    BY <1>1, <2>2, <2>3
<1>3. ASSUME NEW x \in S, NEW y \in S, x < y
      PROVE  Cardinality(UpTo(S, x)) < Cardinality(UpTo(S, y))
  <2>1. UpTo(S, x) \in SUBSET UpTo(S, y) /\ y \in UpTo(S, y) /\ y \notin UpTo(S, x)
    <3>1. x \in Nat /\ y \in Nat /\ \A z \in S : z \in Nat
      OBVIOUS
    <3>2. \A z \in S : z <= x => z <= y
      BY <1>3, <3>1
    <3>3. y <= y /\ ~(y <= x)
      BY <1>3, <3>1
    <3> QED
      BY <3>2, <3>3, Zenon DEF UpTo
  <2>2. /\ Cardinality(UpTo(S, x)) <= Cardinality(UpTo(S, y))
        /\ Cardinality(UpTo(S, x)) # Cardinality(UpTo(S, y))
    BY <1>2, <2>1, FS_Subset
  <2> QED
    BY <1>2, <2>2
<1>4. \A k \in 1 .. n : \E x \in S : Cardinality(UpTo(S, x)) = k
  <2>1. count \in [S -> 1 .. n]
    BY <1>2
  <2>2. \A x, y \in S : count[x] = count[y] => x = y
    <3> SUFFICES ASSUME NEW x \in S, NEW y \in S, x # y PROVE count[x] # count[y]
      OBVIOUS
    <3>1. x < y \/ y < x
      OBVIOUS
    <3> QED
      BY <1>2, <1>3, <3>1
  <2> HIDE DEF count
  <2>3. count \in Injection(S, 1 .. n)
    BY <2>1, <2>2 DEF Injection, IsInjective
  <2>4. IsFiniteSet(1 .. n) /\ Cardinality(1 .. n) = n
    BY <1>1, FS_Interval
  <2>5. count \in Surjection(S, 1 .. n)
    BY <2>3, <2>4, FS_Injection
  <2>6. \A k \in 1 .. n : \E x \in S : count[x] = k
    BY <2>5 DEF Surjection
  <2> QED
    BY <2>6 DEF count
<1> QED
  BY <1>1, <1>2, <1>3, <1>4

-----------------------------------------------------------------------------
(* Secrets: worker/secret_reveal.py and worker/secret_sets.py               *)

(* A value whose characters take one byte each has as many bytes as characters. *)
LEMMA BytesAreCharacters ==
    ASSUME NEW value \in Seq(Nat), \A c \in DOMAIN value : value[c] = 1
    PROVE  ByteLength(value) = Characters(value)
<1> DEFINE bytes == UNION {{c} \X (1 .. value[c]) : c \in DOMAIN value}
           pair == [c \in DOMAIN value |-> <<c, 1>>]
<1>1. 1 .. 1 = {1}
  OBVIOUS
<1>2. bytes = {<<c, 1>> : c \in DOMAIN value}
  BY <1>1
<1>3. DOMAIN value = 1 .. Len(value) /\ Len(value) \in Nat
  BY LenProperties
<1>4. IsFiniteSet(DOMAIN value) /\ Cardinality(DOMAIN value) = Len(value)
  BY <1>3, FS_Interval
<1>5. /\ pair \in [DOMAIN value -> bytes]
      /\ \A x, y \in DOMAIN value : pair[x] = pair[y] => x = y
      /\ \A z \in bytes : \E x \in DOMAIN value : pair[x] = z
  BY <1>2
<1> HIDE DEF bytes, pair
<1>6. Cardinality(bytes) = Len(value)
  BY <1>4, <1>5, SameNumber
<1> QED
  BY <1>6 DEF ByteLength, Characters, bytes

(* What the tool reads of a set, and what a search through the sets comes to. *)
LEMMA TrialIsSound ==
    ASSUME NEW sets \in BoundedSeq(SecretSets, MaxSets),
           NEW outcomes \in BoundedSeq(Outcomes, MaxSets)
    PROVE  LET result == TrySecretSets(outcomes) IN
           /\ result.set # 0 =>
               /\ outcomes[result.set] = "matched"
               /\ \A i \in 1 .. result.set - 1 : outcomes[i] = "rejected"
           /\ \A i \in DOMAIN sets :
               (\A k \in DOMAIN sets[i] : \A c \in DOMAIN sets[i][k] : sets[i][k][c] = 1)
                   => ReadBack(FdPayload(sets[i])) = Len(sets[i])
<1>1. PICK m \in 0 .. MaxSets : outcomes \in [1 .. m -> Outcomes]
  BY SecretAssumption DEF BoundedSeq, SeqOf
<1>2. PICK n \in 0 .. MaxSets : sets \in [1 .. n -> SecretSets]
  BY SecretAssumption DEF BoundedSeq, SeqOf
<1>3. m \in Nat /\ n \in Nat
  BY SecretAssumption
<1> DEFINE ends == {i \in DOMAIN outcomes : StopsTrying(outcomes[i])}
           first == CHOOSE i \in ends : \A j \in ends : i <= j
<1>4. ASSUME TrySecretSets(outcomes).set # 0
      PROVE  /\ outcomes[TrySecretSets(outcomes).set] = "matched"
             /\ \A i \in 1 .. TrySecretSets(outcomes).set - 1 : outcomes[i] = "rejected"
  <2>1. ends # {}
    BY <1>4 DEF TrySecretSets
  <2>2. ends \in SUBSET Nat
    BY <1>1, <1>3
  <2>3. first \in ends /\ \A j \in ends : first <= j
    BY <2>1, <2>2, LeastNumber
  <2>4. TrySecretSets(outcomes) = [status |-> outcomes[first],
          set |-> IF outcomes[first] = "matched" THEN first ELSE 0]
    BY <2>1 DEF TrySecretSets
  <2> HIDE DEF first
  <2>5. outcomes[first] = "matched" /\ TrySecretSets(outcomes).set = first
    BY <1>4, <2>4
  <2>6. ASSUME NEW i \in 1 .. first - 1 PROVE outcomes[i] = "rejected"
    <3>1. first \in 1 .. m
      BY <1>1, <2>3
    <3>2. i \in DOMAIN outcomes /\ i < first /\ outcomes[i] \in Outcomes
      BY <1>1, <1>3, <2>6, <3>1
    <3>3. i \notin ends
      BY <1>3, <2>3, <3>1, <3>2
    <3> QED
      BY <3>2, <3>3 DEF StopsTrying, Outcomes
  <2> QED
    BY <2>5, <2>6
<1>5. ASSUME NEW i \in DOMAIN sets,
             \A k \in DOMAIN sets[i] : \A c \in DOMAIN sets[i][k] : sets[i][k][c] = 1
      PROVE  ReadBack(FdPayload(sets[i])) = Len(sets[i])
  <2> DEFINE payload == FdPayload(sets[i])
  <2>1. sets[i] \in Seq(Seq(Nat))
    BY <1>2, SecretAssumption
  <2>2. DOMAIN sets[i] = 1 .. Len(sets[i]) /\ Len(sets[i]) \in Nat
    BY <2>1, LenProperties
  <2>3. \A k \in DOMAIN sets[i] : sets[i][k] \in Seq(Nat)
    BY <2>1, <2>2, ElementOfSeq
  <2>4. \A k \in DOMAIN sets[i] : ByteLength(sets[i][k]) = Characters(sets[i][k])
    BY <1>5, <2>3, BytesAreCharacters
  <2>5. DOMAIN payload = 1 .. Len(sets[i])
    BY <2>2 DEF FdPayload
  <2>6. \A k \in DOMAIN payload : payload[k].length = payload[k].bytes
    BY <2>4 DEF FdPayload
  <2>7. payload \in Seq(Nat \cup {payload[k] : k \in 1 .. Len(sets[i])})
    BY <2>2 DEF FdPayload
  <2>8. Len(payload) = Len(sets[i])
    BY <2>2, <2>5, <2>7, LenProperties
  <2> HIDE DEF payload
  <2>9. ReadBack(payload) = Len(payload)
    BY <2>6 DEF ReadBack
  <2> QED
    BY <2>8, <2>9 DEF payload
<1> QED
  BY <1>4, <1>5

(* Every operation on reveals keeps what is shown within its time. *)
LEMMA RevealNextInv ==
    ASSUME RevealInv, RevealNext
    PROVE  RevealInv'
<1> USE DEF RevealInv, RevealsBounded
<1>1. policy.hide \in Nat /\ policy.clear \in Nat
  BY SecretAssumption
<1>2. /\ session = [shown |-> session.shown, until |-> session.until, since |-> session.since]
      /\ session.shown \in BOOLEAN /\ session.until \in Nat /\ session.since \in 0 .. seconds
      /\ clipboard = [shown |-> clipboard.shown, until |-> clipboard.until]
      /\ clipboard.shown \in BOOLEAN /\ clipboard.until \in Nat
  OBVIOUS
<1>3. ASSUME NEW acknowledged \in BOOLEAN, Reveal(acknowledged) PROVE RevealInv'
  BY <1>1, <1>2, <1>3 DEF Reveal, RevealPermission
<1>4. CASE CopySecret
  BY <1>1, <1>2, <1>4 DEF CopySecret, Copyable
<1>5. CASE HideByHand
  BY <1>1, <1>2, <1>5 DEF HideByHand
<1>6. CASE LookAtTimes
  <2>1. /\ session' = [shown |-> session.shown /\ ~Due(session), until |-> session.until,
                       since |-> session.since]
        /\ clipboard' = [shown |-> clipboard.shown /\ ~Due(clipboard),
                         until |-> clipboard.until]
        /\ looked' = TRUE /\ UNCHANGED <<policy, seconds>>
    BY <1>2, <1>6 DEF LookAtTimes
  <2> QED
    BY <1>1, <1>2, <2>1 DEF Due
<1>7. CASE SecondPasses
  <2>1. /\ session.shown => seconds <= session.until
        /\ clipboard.shown => seconds <= clipboard.until
    BY <1>1, <1>2, <1>7 DEF SecondPasses
  <2>2. /\ seconds' = seconds + 1 /\ looked' = FALSE /\ seconds' \in Nat
        /\ session' = session /\ clipboard' = clipboard /\ policy' = policy
    BY <1>7 DEF SecondPasses
  <2>3. /\ session.shown => seconds' <= session.until + 1
        /\ clipboard.shown => seconds' <= clipboard.until + 1
    BY <1>2, <2>1, <2>2
  <2>4. session' \in [shown : BOOLEAN, until : Nat, since : 0 .. seconds']
    BY <1>2, <2>2
  <2>5. RevealsBounded'
    BY <1>1, <1>2, <2>2, <2>3
  <2> QED
    BY <1>1, <1>2, <2>2, <2>3, <2>4, <2>5
<1> QED
  BY <1>3, <1>4, <1>5, <1>6, <1>7 DEF RevealNext

(* Every operation on reveals and trials keeps the invariant. *)
LEMMA SecretNextInv == SecretInv /\ [RevealNext \/ TrialNext]_secretVars => SecretInv'
<1> SUFFICES ASSUME SecretInv, [RevealNext \/ TrialNext]_secretVars PROVE SecretInv'
  OBVIOUS
<1>1. CASE UNCHANGED secretVars
  <2>1. RevealInv'
    BY <1>1 DEF SecretInv, RevealInv, RevealsBounded, secretVars
  <2>2. TrialSound'
    BY <1>1 DEF SecretInv, TrialSound, secretVars
  <2> QED
    BY <2>1, <2>2 DEF SecretInv
<1>2. CASE RevealNext
  <2>1. trial' = trial
    BY <1>2 DEF RevealNext, Reveal, CopySecret, HideByHand, LookAtTimes, SecondPasses
  <2> QED
    BY <1>2, <2>1, RevealNextInv DEF SecretInv, TrialSound
<1>3. CASE TrialNext
  <2>1. PICK sets \in BoundedSeq(SecretSets, MaxSets),
             outcomes \in BoundedSeq(Outcomes, MaxSets) : TrySets(sets, outcomes)
    BY <1>3 DEF TrialNext
  <2>2. /\ trial'.sets = sets /\ trial'.outcomes = outcomes
        /\ trial'.result = TrySecretSets(outcomes)
        /\ trial'.read = [i \in DOMAIN sets |-> ReadBack(FdPayload(sets[i]))]
        /\ UNCHANGED <<policy, seconds, session, clipboard, looked>>
    BY <2>1 DEF TrySets, revealVars
  <2>3. TrialSound'
    BY <2>2, TrialIsSound DEF TrialSound
  <2>4. RevealInv'
    BY <2>2, Zenon DEF SecretInv, RevealInv, RevealsBounded
  <2> QED
    BY <2>3, <2>4 DEF SecretInv
<1> QED
  BY <1>1, <1>2, <1>3

(* worker/secret_reveal.py and worker/secret_sets.py, for any policies, however  *)
(* late a secret is copied, however often it is revealed again and whatever sets *)
(* are tried: a secret is shown or on the clipboard only if the policy allows it *)
(* and for no longer than the two times and the two looks, no set is said to     *)
(* match after one that crashed, and plain values reach the tool whole.          *)
THEOREM SecretsAlwaysBounded == SecretSpec => []SecretsAreBounded
<1>1. SecretInit => SecretInv
  <2> SUFFICES ASSUME SecretInit PROVE SecretInv
    OBVIOUS
  <2>1. /\ session = NoReveal /\ clipboard = NoClip /\ seconds = 0 /\ looked = FALSE
        /\ ~session.shown /\ ~clipboard.shown /\ policy \in Policies
    BY DEF SecretInit, NoReveal, NoClip
  <2>2. /\ session \in [shown : BOOLEAN, until : Nat, since : 0 .. seconds]
        /\ clipboard \in [shown : BOOLEAN, until : Nat]
    BY <2>1 DEF NoReveal, NoClip
  <2>3. looked \in BOOLEAN /\ seconds \in Nat
    BY <2>1
  <2>4. RevealInv
    BY <2>1, <2>2, <2>3, Zenon DEF RevealInv, RevealsBounded
  <2>5. TrialSound
    BY DEF SecretInit, TrialSound
  <2> QED
    BY <2>4, <2>5 DEF SecretInv
<1>2. SecretInv => SecretsAreBounded
  BY DEF SecretInv, RevealInv, SecretsAreBounded
<1> QED
  BY <1>1, <1>2, SecretNextInv, PTL DEF SecretSpec

-----------------------------------------------------------------------------
(* Parsers: worker/parser_sandbox.py and the adapters                        *)

(* A derived file that can be shown: a passive one, in the scratch store, within limits. *)
Shown(r) == r.mime = "safe" /\ r.uri = "scratch" /\ r.size <= SizeLimit

LEMMA StoredIsShown ==
    ASSUME NEW r, Stored(r)
    PROVE  Shown(r)
BY ParserAssumption DEF Stored, Shown

(* What is kept of the tool's output is within the adapter's limits. *)
KeptHolds(p, result) ==
    /\ p.adapter \in {"thumbnails", "derivatives", "render", "repair"} =>
           \A r \in result.items : Shown(r)
    /\ p.adapter = "thumbnails" =>
           /\ result.status # "cache-hit"
           /\ \A r, s \in result.items : r.kind = s.kind => r = s
    /\ p.adapter = "repair" => \A r \in result.items : r.original = p.content.id /\ r.derived
    /\ result.extract => p.flag /\ \A r \in result.items : r.harm = "none"

LEMMA KeptIsSafe ==
    ASSUME NEW p, p.adapter \in Adapters, NEW lines, DOMAIN lines \in SUBSET Nat
    PROVE  KeptHolds(p, Normalised(p, lines))
<1> DEFINE result == Normalised(p, lines)
<1>1. CASE p.adapter = "thumbnails"
  <2> DEFINE fits == {i \in FirstOf(lines, LineLimit) :
                        /\ lines[i].kind \in p.tiers /\ Stored(lines[i])
                        /\ lines[i].dim \in 1 .. DimLimit}
             firsts == {i \in fits : \A j \in fits : j < i => lines[j].kind # lines[i].kind}
  <2>1. result = Found({lines[i] : i \in firsts})
    <3>1. result = KeptThumbnails(p, lines)
      BY <1>1 DEF Normalised, LineAdapters
    <3> QED
      BY <3>1 DEF KeptThumbnails
  <2>2. result.items = {lines[i] : i \in firsts} /\ ~result.extract /\ result.status # "cache-hit"
    BY <2>1 DEF Found, Kept
  <2>3. fits \in SUBSET Nat /\ \A i \in fits : Stored(lines[i])
    BY DEF FirstOf
  <2>4. \A i, j \in firsts : lines[i].kind = lines[j].kind => i = j
    BY <2>3
  <2>5. \A r \in result.items : Shown(r)
    BY <2>2, <2>3, StoredIsShown
  <2> HIDE DEF fits, firsts, result
  <2>6. \A r, s \in result.items : r.kind = s.kind => r = s
    BY <2>2, <2>4
  <2> QED
    BY <1>1, <2>2, <2>5, <2>6 DEF KeptHolds, result
<1>2. CASE p.adapter = "derivatives"
  <2>1. result = KeptDerivatives(p, lines)
    BY <1>2 DEF Normalised, LineAdapters
  <2>2. ~result.extract /\ \A r \in result.items : Stored(r)
    BY <2>1 DEF KeptDerivatives, Found, Kept
  <2> QED
    BY <1>2, <2>2, StoredIsShown DEF KeptHolds
<1>3. CASE p.adapter = "repair"
  <2> DEFINE tried == {i \in FirstOf(lines, LineLimit) :
                         /\ lines[i].kind = RepairKind(p.content)
                         /\ Ended(lines[i]) \/ Acceptable(p, lines[i])}
             first == {i \in tried : \A j \in tried : i <= j}
             taken == {k \in first : ~Ended(lines[k])}
  <2>1. result = Found({lines[i] : i \in taken})
    <3>1. result = KeptRepair(p, lines)
      BY <1>3 DEF Normalised, LineAdapters
    <3> QED
      BY <3>1 DEF KeptRepair
  <2>2. result.items = {lines[i] : i \in taken} /\ ~result.extract
    BY <2>1 DEF Found, Kept
  <2>3. \A i \in taken : Acceptable(p, lines[i])
    OBVIOUS
  <2> HIDE DEF taken, result
  <2>4. \A r \in result.items : Acceptable(p, r)
    BY <2>2, <2>3
  <2>5. \A r \in result.items : Shown(r) /\ r.original = p.content.id /\ r.derived
    BY <2>4, StoredIsShown DEF Acceptable
  <2> QED
    BY <1>3, <2>2, <2>5 DEF KeptHolds, result
<1>4. CASE p.adapter = "webcache"
  <2>1. result = KeptRecords(lines)
    BY <1>4 DEF Normalised, LineAdapters
  <2> QED
    BY <1>4, <2>1 DEF KeptRecords, Kept, KeptHolds
<1>5. CASE p.adapter \notin LineAdapters /\ lines = <<>>
  <2>1. result = Kept("failed", {})
    BY <1>5 DEF Normalised, LineAdapters
  <2> QED
    BY <1>5, <2>1 DEF Kept, KeptHolds, LineAdapters
<1>6. CASE p.adapter = "render" /\ lines # <<>>
  <2>1. result = KeptPages(lines[1])
    BY <1>6 DEF Normalised, LineAdapters
  <2>2. ~result.extract /\ \A r \in result.items : Stored(r)
    BY <2>1 DEF KeptPages, Found, Kept
  <2> QED
    BY <1>6, <2>2, StoredIsShown DEF KeptHolds
<1>7. CASE p.adapter \in {"ocr", "transcribe", "text", "metadata"} /\ lines # <<>>
  <2>1. result \in {KeptRegions(lines[1]), KeptSegments(lines[1]), KeptText(lines[1]),
                    KeptMetadata(lines[1])}
    <3>1. CASE p.adapter = "ocr"
      BY <1>7, <3>1 DEF Normalised, LineAdapters
    <3>2. CASE p.adapter = "transcribe"
      BY <1>7, <3>2 DEF Normalised, LineAdapters
    <3>3. CASE p.adapter = "text"
      BY <1>7, <3>3 DEF Normalised, LineAdapters
    <3>4. CASE p.adapter = "metadata"
      BY <1>7, <3>4 DEF Normalised, LineAdapters
    <3> QED
      BY <1>7, <3>1, <3>2, <3>3, <3>4
  <2>2. \A status, items : ~Kept(status, items).extract
    BY DEF Kept
  <2>3. \A line, items : ~Read(line, items).extract
    BY DEF Read, Kept
  <2>4. ~result.extract
    BY <2>1, <2>2, <2>3, Zenon DEF KeptRegions, KeptSegments, KeptText, KeptMetadata
  <2> QED
    BY <1>7, <2>4 DEF KeptHolds
<1>8. CASE p.adapter = "archive" /\ lines # <<>>
  <2>1. result = KeptMembers(p, lines[1])
    BY <1>8 DEF Normalised, LineAdapters
  <2>2. result.extract =>
          ExtractionPlan(p, lines[1]) /\ result.items = Members(lines[1])
    BY <2>1 DEF KeptMembers, Kept
  <2> QED
    BY <1>8, <2>2 DEF KeptHolds, ExtractionPlan
<1> QED
  BY <1>1, <1>2, <1>3, <1>4, <1>5, <1>6, <1>7, <1>8 DEF Adapters, LineAdapters

(* A tool that runs was let to: on a copy, and on a content it is safe with. *)
CallHolds(call) ==
    /\ call.adapter \in Adapters /\ call.copied
    /\ call.adapter # "webcache" => ParserSafe(call.content)

LEMMA DecisionHolds ==
    ASSUME NEW call, call.adapter \in Adapters
    PROVE  /\ Admitted(call) = "run" => CallHolds(call)
           /\ Admitted(call) = "cache-hit" =>
                 /\ call.adapter = "thumbnails"
                 /\ {t.tier : t \in CacheHits(call.content, call.tiers)} = call.tiers
           /\ Admitted(call) # "complete"
<1> USE DEF Adapters, CallHolds, Admitted, Passes
<1>1. CASE ~call.copied
  BY <1>1
<1>2. CASE call.copied /\ call.adapter = "thumbnails"
  BY <1>2 DEF Decision, GenerateImageThumbnails
<1>3. CASE call.copied /\ call.adapter \in {"ocr", "transcribe", "webcache"}
  <2>1. Decision(call) \in {ExtractOcrText(call), TranscribeMedia(call), ParseLegacyWebcache(call)}
          /\ (call.adapter = "ocr" => Decision(call) = ExtractOcrText(call))
          /\ (call.adapter = "transcribe" => Decision(call) = TranscribeMedia(call))
    BY <1>3 DEF Decision
  <2> QED
    BY <1>3, <2>1 DEF ExtractOcrText, TranscribeMedia, ParseLegacyWebcache
<1>4. CASE call.copied /\ call.adapter \in {"derivatives", "metadata", "render", "text", "archive",
                                            "repair"}
  <2>1. Decision(call) \in {GenerateMediaDerivatives(call), ExtractMediaMetadata(call),
          RenderDocumentPages(call), ExtractDocumentText(call), InspectArchive(call),
          AttemptBoundedRepair(call)}
    BY <1>4 DEF Decision
  <2>2. Decision(call) = "skipped" \/ (Decision(call) = "run" /\ ParserSafe(call.content))
    BY <2>1 DEF GenerateMediaDerivatives, ExtractMediaMetadata, RenderDocumentPages,
      ExtractDocumentText, InspectArchive, AttemptBoundedRepair
  <2> QED
    BY <1>4, <2>2
<1> QED
  BY <1>1, <1>2, <1>3, <1>4

(* The call of an adapter keeps the invariant. *)
LEMMA StartParseInv ==
    ASSUME ParserInv, NEW adapter \in Adapters, NEW content \in Contents, NEW tiers, NEW flag, NEW copied,
           StartParse(adapter, content, tiers, flag, copied)
    PROVE  ParserInv'
<1> DEFINE call == [adapter |-> adapter, content |-> content, tiers |-> tiers, flag |-> flag,
                    copied |-> copied]
           hits == CacheHits(content, tiers)
           result == Kept(Admitted(call), IF Admitted(call) # "cache-hit" THEN {}
                                          ELSE {t.item : t \in hits})
<1>1. /\ parse' = IF Admitted(call) = "run" THEN [phase |-> "run", call |-> call]
                  ELSE [phase |-> "done", call |-> call, result |-> result]
      /\ thumbs' = thumbs
  BY DEF StartParse
<1>2. call.adapter \in Adapters /\ call.content = content /\ call.tiers = tiers
  OBVIOUS
<1>3. ThumbsHold'
  BY <1>1 DEF ParserInv, ThumbsHold
<1> HIDE DEF call
<1>4. CASE Admitted(call) = "run"
  <2>1. parse'.phase = "run" /\ parse'.call = call
    BY <1>1, <1>4
  <2>2. CallHolds(call)
    BY <1>2, <1>4, DecisionHolds
  <2>3. AcceptedIsSafe'
    <3>1. call.content.markers \in Nat
      BY <1>2, ParserAssumption
    <3>2. call.adapter # "webcache" =>
            /\ call.content.kind # "pe" /\ call.content.markers < 2
            /\ call.content.extension \in {NoKind, call.content.kind}
      BY <2>2, <3>1 DEF CallHolds, ParserSafe, IsPolyglot
    <3> QED
      BY <2>1, <2>2, <3>2 DEF AcceptedIsSafe, CallHolds
  <2> QED
    BY <1>2, <1>3, <2>1, <2>3 DEF ParserInv
<1>5. CASE Admitted(call) = "cache-hit"
  <2>1. parse' = [phase |-> "done", call |-> call, result |-> result]
    BY <1>1, <1>5
  <2>2. /\ parse'.phase = "done" /\ parse'.call = call /\ parse'.result.status = "cache-hit"
        /\ parse'.result.items = {t.item : t \in hits} /\ ~parse'.result.extract
    BY <1>5, <2>1 DEF Kept
  <2>3. call.adapter = "thumbnails" /\ {t.tier : t \in hits} = call.tiers
    BY <1>2, <1>5, DecisionHolds
  <2>4. \A t \in hits : t \in thumbs /\ t.hash = call.content.id
    BY <1>2 DEF CacheHits
  <2> HIDE DEF hits
  <2>5. \A t \in hits : /\ t.item.kind = t.tier /\ t.item.of = call.content.id
                        /\ Shown(t.item)
    BY <2>4 DEF ParserInv, ThumbsHold, Shown
  <2>6. \A t, u \in hits : t.item.kind = u.item.kind => t.item = u.item
    BY <2>4, <2>5 DEF ParserInv, ThumbsHold
  <2>7. {r.kind : r \in parse'.result.items} = call.tiers
    BY <2>2, <2>3, <2>5
  <2>8. \A r \in parse'.result.items : r.of = call.content.id /\ Shown(r)
    BY <2>2, <2>5
  <2>9. \A r, s \in parse'.result.items : r.kind = s.kind => r = s
    BY <2>2, <2>6
  <2>10. AcceptedIsSafe'
    BY <2>2, <2>3, <2>7, <2>8, <2>9 DEF AcceptedIsSafe, Shown
  <2> QED
    BY <1>3, <2>2, <2>10 DEF ParserInv
<1>6. CASE Admitted(call) \notin {"run", "cache-hit"}
  <2>1. parse' = [phase |-> "done", call |-> call, result |-> result]
    BY <1>1, <1>6
  <2>2. parse'.phase = "done" /\ parse'.result.status = Admitted(call)
    BY <2>1 DEF Kept
  <2>3. Admitted(call) # "complete"
    BY <1>2, DecisionHolds
  <2>4. AcceptedIsSafe'
    BY <1>6, <2>2, <2>3 DEF AcceptedIsSafe
  <2> QED
    BY <1>3, <2>2, <2>4 DEF ParserInv
<1> QED
  BY <1>4, <1>5, <1>6

(* The end of the tool's run keeps the invariant, whatever it printed. *)
LEMMA SandboxCompletesInv ==
    ASSUME ParserInv, parse.phase = "run", NEW lines \in ToolOutputs(parse.call.adapter),
           SandboxCompletes(lines)
    PROVE  ParserInv'
<1> DEFINE call == parse.call
           result == Normalised(call, lines)
<1>1. /\ parse.phase = "run"
      /\ parse' = [phase |-> "done", call |-> call, result |-> result]
      /\ thumbs' = IF call.adapter # "thumbnails" THEN thumbs ELSE Cached(call, result.items)
  BY DEF SandboxCompletes, Finish
<1>2. call.adapter \in Adapters
  BY <1>1 DEF ParserInv
<1>a. /\ DOMAIN lines \in SUBSET Nat
      /\ call.adapter \in LineAdapters => \A i \in DOMAIN lines : lines[i] \in ToolLines
  <2>1. CASE call.adapter \in LineAdapters
    <3>1. PICK m \in 0 .. LineLimit + 1 : lines \in [1 .. m -> ToolLines]
      BY <2>1, ParserAssumption DEF ToolOutputs, BoundedSeq, SeqOf
    <3>2. m \in Nat
      BY ParserAssumption
    <3> QED
      BY <2>1, <3>1, <3>2
  <2>2. CASE call.adapter \notin LineAdapters
    <3>1. lines = <<>> \/ \E line : lines = <<line>>
      BY <2>2 DEF ToolOutputs
    <3>2. DOMAIN lines \in SUBSET Nat
      BY <3>1
    <3> QED
      BY <2>2, <3>2
  <2> QED
    BY <2>1, <2>2
<1>3. KeptHolds(call, result)
  BY <1>2, <1>a, KeptIsSafe
<1>b. call.adapter = "thumbnails" => result.items \subseteq {lines[i] : i \in DOMAIN lines}
  BY DEF Normalised, KeptThumbnails, Found, Kept, FirstOf, LineAdapters
<1>4. parse'.phase = "done" /\ parse'.call = call /\ parse'.result = result
  BY <1>1
<1> HIDE DEF call, result
<1>5. AcceptedIsSafe'
  BY <1>3, <1>4 DEF AcceptedIsSafe, KeptHolds, Shown
<1>6. ThumbsHold'
  <2>1. CASE call.adapter # "thumbnails"
    BY <1>1, <2>1 DEF ParserInv, ThumbsHold
  <2>2. CASE call.adapter = "thumbnails"
    <3> DEFINE item(r) == [r EXCEPT !.of = call.content.id]
               entry(r) == [hash |-> call.content.id, tier |-> r.kind, item |-> item(r)]
               new == {entry(r) : r \in result.items}
               old == {t \in thumbs : \A n \in new : t.hash # n.hash \/ t.tier # n.tier}
    <3>1. thumbs' = old \cup new
      BY <1>1, <2>2 DEF Cached
    <3>2. \A r \in result.items : Shown(r)
      BY <1>3, <2>2 DEF KeptHolds
    <3>3. \A r, s \in result.items : r.kind = s.kind => r = s
      BY <1>3, <2>2 DEF KeptHolds
    <3>4. \A r \in result.items : r \in ToolLines
      BY <1>a, <1>b, <2>2 DEF LineAdapters
    <3>5. ASSUME NEW r \in result.items
          PROVE  /\ item(r).kind = r.kind /\ item(r).of = call.content.id
                 /\ Shown(item(r))
      BY <3>2, <3>4, ParserAssumption DEF Shown
    <3> HIDE DEF item
    <3>6. /\ \A t \in new : /\ t.item.kind = t.tier /\ t.item.of = t.hash /\ Shown(t.item)
                             /\ t.hash = call.content.id
          /\ \A t, u \in new : t.tier = u.tier => t.item = u.item
      BY <3>3, <3>5
    <3>7. /\ \A t \in old : t.item.kind = t.tier /\ t.item.of = t.hash /\ Shown(t.item)
          /\ \A t, u \in old : t.hash = u.hash /\ t.tier = u.tier => t.item = u.item
          /\ \A t \in old, n \in new : t.hash # n.hash \/ t.tier # n.tier
      BY DEF ParserInv, ThumbsHold, Shown
    <3> HIDE DEF new, old
    <3>8. \A t \in thumbs' : t.item.kind = t.tier /\ t.item.of = t.hash /\ Shown(t.item)
      BY <3>1, <3>6, <3>7
    <3>9. \A t, u \in thumbs' : t.hash = u.hash /\ t.tier = u.tier => t.item = u.item
      BY <3>1, <3>6, <3>7
    <3> QED
      BY <3>8, <3>9 DEF ThumbsHold, Shown
  <2> QED
    BY <2>1, <2>2
<1> QED
  BY <1>4, <1>5, <1>6 DEF ParserInv

(* worker/parser_sandbox.py, content_signature.py and the adapters, for any contents, *)
(* limits, tool output and number of calls: no tool runs on anything but a copy of a  *)
(* content that is safe with it, and what an adapter accepts can be shown to the user *)
(* under the content it is of, also from the cache and after any other call.          *)
THEOREM AcceptedIsAlwaysSafe == ParserSpec => []AcceptedIsSafe
<1>1. ParserInit => ParserInv
  BY DEF ParserInit, ParserInv, ThumbsHold, AcceptedIsSafe
<1>2. ParserInv /\ [ParserNext]_parserVars => ParserInv'
  <2> SUFFICES ASSUME ParserInv, [ParserNext]_parserVars PROVE ParserInv'
    OBVIOUS
  <2>1. CASE UNCHANGED parserVars
    <3>1. parse' = parse /\ thumbs' = thumbs
      BY <2>1 DEF parserVars
    <3> QED
      BY <3>1 DEF ParserInv, ThumbsHold, AcceptedIsSafe
  <2>2. ASSUME NEW status \in {"timeout", "failed", "error"}, SandboxFails(status)
        PROVE  ParserInv'
    <3>1. /\ parse'.phase = "done" /\ parse'.result.status = status /\ thumbs' = thumbs
      BY <2>2 DEF SandboxFails, Finish, Kept
    <3>2. AcceptedIsSafe'
      BY <3>1 DEF AcceptedIsSafe
    <3> QED
      BY <3>1, <3>2 DEF ParserInv, ThumbsHold
  <2> QED
    BY <2>1, <2>2, StartParseInv, SandboxCompletesInv DEF ParserNext
<1>3. ParserInv => AcceptedIsSafe
  BY DEF ParserInv
<1> QED
  BY <1>1, <1>2, <1>3, PTL DEF ParserSpec

-----------------------------------------------------------------------------
(* Destinations: worker/export_manifest.py                                   *)

LEMMA PlainIsName ==
    ASSUME NEW stem \in {"unnamed", "_CON", "a", "A", "", ".", "..", "cut", "carved"}
    PROVE  Plain(stem) \in PathNames
<1>1. stem \in Stems
  BY ExportPathsAssumption
<1>2. <<>> \in Seq(Nat)
  BY EmptySeq
<1> QED
  BY <1>1, <1>2, Zenon DEF Plain, PathNames

(* The path of a source, cleaned: names, none of which leads upwards. *)
LEMMA CleanedHasNoUp ==
    ASSUME NEW path \in Seq(PathNames)
    PROVE  /\ Cleaned(path) \in Seq(PathNames)
           /\ \A k \in DOMAIN Cleaned(path) : Cleaned(path)[k] # Plain("..")
<1> DEFINE kept == KeptParts(path)
           n == Cardinality(kept)
<1>1. DOMAIN path = 1 .. Len(path) /\ Len(path) \in Nat
  BY LenProperties
<1>2. kept \in SUBSET Nat /\ kept \in SUBSET (1 .. Len(path))
  BY <1>1 DEF KeptParts
<1>3. IsFiniteSet(kept)
  <2>1. IsFiniteSet(1 .. Len(path))
    BY <1>1, FS_Interval
  <2> HIDE DEF kept
  <2> QED
    BY <1>2, <2>1, FS_Subset
<1>4. n \in Nat /\ \A k \in 1 .. n : \E i \in kept : Cardinality(UpTo(kept, i)) = k
  <2> HIDE DEF kept
  <2> QED
    BY <1>2, <1>3, CountedOff
<1>5. ASSUME NEW k \in 1 .. n PROVE KeptPart(path, k) \in kept
  <2>1. \E i \in kept : Cardinality({j \in kept : j <= i}) = k
    BY <1>4 DEF UpTo
  <2> QED
    BY <2>1 DEF KeptPart
<1>6. ASSUME NEW name \in PathNames, name # Plain("..")
      PROVE  SanitizeComponent(name) \in PathNames /\ SanitizeComponent(name) # Plain("..")
  <2>1. /\ Plain("unnamed") \in PathNames /\ Plain("_CON") \in PathNames
        /\ Plain("a") \in PathNames
    BY PlainIsName
  <2>2. /\ Plain("unnamed") # Plain("..") /\ Plain("_CON") # Plain("..")
        /\ Plain("a") # Plain("..")
    BY DEF Plain
  <2>3. SanitizeComponent(name) \in {Plain("unnamed"), Plain("_CON"), Plain("a"), name}
    BY DEF SanitizeComponent
  <2> QED
    BY <1>6, <2>1, <2>2, <2>3
<1>7. ASSUME NEW k \in 1 .. n
      PROVE  /\ SanitizeComponent(path[KeptPart(path, k)]) \in PathNames
             /\ SanitizeComponent(path[KeptPart(path, k)]) # Plain("..")
  <2>1. KeptPart(path, k) \in kept
    BY <1>5
  <2>2. path[KeptPart(path, k)] \in PathNames /\ path[KeptPart(path, k)] # Plain("..")
    BY <1>1, <2>1, ElementOfSeq DEF KeptParts
  <2> QED
    BY <1>6, <2>2
<1>8. Cleaned(path) = [k \in 1 .. n |-> SanitizeComponent(path[KeptPart(path, k)])]
  BY DEF Cleaned
<1>9. Cleaned(path) \in [1 .. n -> PathNames]
  BY <1>7, <1>8
<1> HIDE DEF n, kept
<1>10. Cleaned(path) \in Seq(PathNames)
  BY <1>4, <1>9
<1>11. DOMAIN Cleaned(path) = 1 .. n
  BY <1>9
<1> QED
  BY <1>7, <1>8, <1>10, <1>11

(* ... and cut, only its last name may lead upwards. *)
LEMMA CutHasNoUp ==
    ASSUME NEW path \in Seq(PathNames), NEW limit \in Nat,
           \A k \in DOMAIN path : path[k] # Plain("..")
    PROVE  LET cut == TruncateToBytes(path, limit) IN
           /\ cut \in Seq(PathNames)
           /\ \A k \in DOMAIN cut : cut[k] = Plain("..") => k = Len(cut) /\ Bytes(path) > limit
<1> DEFINE whole == limit \div 4
           rest == limit % 4
           front == SubSeq(path, 1, whole)
           cut == TruncateToBytes(path, limit)
<1>1. CASE Bytes(path) <= limit
  BY <1>1 DEF TruncateToBytes
<1>2. CASE ~(Bytes(path) <= limit)
  <2>1. Len(path) \in Nat /\ DOMAIN path = 1 .. Len(path)
    BY LenProperties
  <2>2. Bytes(path) \in Int /\ Bytes(path) > limit
    BY <1>2, <2>1 DEF Bytes
  <2>3. 4 * Len(path) - 1 > limit
    BY <2>1, <2>2 DEF Bytes
  <2>4. whole \in Nat /\ rest \in 0 .. 3 /\ limit = 4 * whole + rest
    OBVIOUS
  <2>5. whole <= Len(path) /\ (rest # 0 => whole + 1 <= Len(path))
    BY <2>1, <2>3, <2>4
  <2>6. /\ front \in Seq(PathNames) /\ Len(front) = whole
        /\ \A k \in 1 .. whole : front[k] = path[k]
    BY <2>1, <2>4, <2>5, SubSeqProperties
  <2>7. \A k \in 1 .. whole : front[k] # Plain("..")
    BY <2>1, <2>4, <2>5, <2>6
  <2> HIDE DEF whole, rest, front
  <2>8. CASE rest = 0
    <3>1. cut = front
      BY <1>2, <2>8 DEF TruncateToBytes, whole, rest, front
    <3>2. DOMAIN front = 1 .. whole
      BY <2>6, LenProperties
    <3> QED
      BY <2>6, <2>7, <3>1, <3>2
  <2>9. CASE rest # 0
    <3> DEFINE last == FirstBytes(path[whole + 1], rest - 1)
    <3>1. cut = Append(front, last)
      BY <1>2, <2>9 DEF TruncateToBytes, whole, rest, front
    <3>2. last \in PathNames
      <4>1. last \in {Plain(""), Plain("."), Plain(".."), Plain("cut")}
        BY <2>4 DEF FirstBytes
      <4>2. /\ Plain("") \in PathNames /\ Plain(".") \in PathNames
            /\ Plain("..") \in PathNames /\ Plain("cut") \in PathNames
        BY PlainIsName
      <4> QED
        BY <4>1, <4>2
    <3> HIDE DEF last
    <3>3. /\ cut \in Seq(PathNames) /\ Len(cut) = whole + 1
          /\ \A k \in 1 .. whole : cut[k] = front[k]
      <4> HIDE DEF cut
      <4> QED
        BY <2>4, <2>6, <3>1, <3>2, AppendProperties
    <3>4. DOMAIN cut = 1 .. whole + 1
      BY <3>3, LenProperties
    <3> QED
      BY <2>2, <2>4, <2>7, <3>3, <3>4
  <2> QED
    BY <2>8, <2>9
<1> QED
  BY <1>1, <1>2

(* The destination of an item before it is told apart. *)
RelativeHolds(path, cut) ==
    /\ path \in Seq(PathNames)
    /\ \A k \in DOMAIN path : path[k] = Plain("..") => k = Len(path) /\ cut

LEMMA EndingIsName ==
    ASSUME NEW name \in PathNames, NEW k \in Nat
    PROVE  /\ Ending(name, k) \in PathNames /\ Ending(name, k) # Plain("..")
           /\ Ending(name, k).stem = name.stem
           /\ Ending(name, k).endings = Append(name.endings, k)
<1>1. name.stem \in Stems /\ name.endings \in Seq(Nat)
  BY DEF PathNames
<1>0. name = [stem |-> name.stem, endings |-> name.endings]
  BY DEF PathNames
<1>2. Ending(name, k) = [stem |-> name.stem, endings |-> Append(name.endings, k)]
  BY <1>0 DEF Ending
<1>3. Append(name.endings, k) \in Seq(Nat) /\ Append(name.endings, k) # <<>>
  BY <1>1, AppendProperties
<1>4. Ending(name, k) # Plain("..")
  BY <1>2, <1>3 DEF Plain
<1> QED
  BY <1>1, <1>2, <1>3, <1>4 DEF PathNames

(* An ending makes a path of names, and takes away a name that leads upwards. *)
LEMMA WithEndingHolds ==
    ASSUME NEW path \in Seq(PathNames), NEW cut, RelativeHolds(path, cut), NEW k \in Nat
    PROVE  RelativeHolds(WithEnding(path, k), cut)
<1>1. CASE k = 0
  BY <1>1 DEF WithEnding
<1>2. CASE k # 0 /\ path = <<>>
  <2> DEFINE name == Ending(Plain(""), k)
  <2>1. name \in PathNames /\ name # Plain("..")
    BY PlainIsName, EndingIsName
  <2>2. WithEnding(path, k) = <<name>>
    BY <1>2 DEF WithEnding
  <2> HIDE DEF name
  <2> QED
    BY <2>1, <2>2 DEF RelativeHolds
<1>3. CASE k # 0 /\ path # <<>>
  <2> DEFINE n == Len(path)
             name == Ending(path[n], k)
  <2>1. n \in Nat /\ DOMAIN path = 1 .. n /\ path \in [1 .. n -> PathNames]
    BY LenProperties
  <2>2. n \in 1 .. n
    BY <1>3, <2>1, EmptySeq
  <2>3. name \in PathNames /\ name # Plain("..")
    BY <2>1, <2>2, EndingIsName
  <2>4. WithEnding(path, k) = [path EXCEPT ![n] = name]
    BY <1>3 DEF WithEnding
  <2> HIDE DEF name, n
  <2>5. WithEnding(path, k) \in [1 .. n -> PathNames]
    BY <2>1, <2>3, <2>4
  <2>6. WithEnding(path, k) \in Seq(PathNames) /\ Len(WithEnding(path, k)) = n
    BY <2>1, <2>5, LenProperties
  <2>7. \A j \in 1 .. n : WithEnding(path, k)[j] = Plain("..") => path[j] = Plain("..")
    BY <2>1, <2>3, <2>4
  <2> QED
    BY <2>1, <2>5, <2>6, <2>7 DEF RelativeHolds, n
<1> QED
  BY <1>1, <1>2, <1>3

(* Two endings of a path give two keys. *)
LEMMA EndingsDiffer ==
    ASSUME NEW path \in Seq(PathNames), NEW insensitive \in BOOLEAN,
           NEW j \in Nat, NEW k \in Nat, j < k
    PROVE  Key(WithEnding(path, j), insensitive) # Key(WithEnding(path, k), insensitive)
<1> DEFINE n == Len(path)
           endings(p) == p[n].endings
<1>1. k # 0
  OBVIOUS
<1>2. ASSUME NEW p \in Seq(PathNames), NEW i \in DOMAIN p
      PROVE  /\ DOMAIN Key(p, insensitive) = DOMAIN p
             /\ Key(p, insensitive)[i].endings = p[i].endings
  <2>1. p[i] \in PathNames
    BY ElementOfSeq, LenProperties
  <2>2. Upper(p[i]).endings = p[i].endings
    BY <2>1 DEF Upper, PathNames
  <2> QED
    BY <2>2 DEF Key
<1>3. CASE path = <<>>
  <2>1. WithEnding(path, k) = <<Ending(Plain(""), k)>>
    BY <1>1, <1>3 DEF WithEnding
  <2>2. Plain("") \in PathNames /\ Plain("").endings = <<>>
    BY PlainIsName DEF Plain
  <2>3. ASSUME NEW m \in Nat
        PROVE  /\ Ending(Plain(""), m) \in PathNames
               /\ Ending(Plain(""), m).endings = Append(<<>>, m)
    BY <2>2, EndingIsName
  <2>4. CASE j = 0
    <3>1. WithEnding(path, j) = <<>>
      BY <1>3, <2>4 DEF WithEnding
    <3>2. DOMAIN Key(<<>>, insensitive) = {}
      <4>1. DOMAIN (<<>>) = {}
        OBVIOUS
      <4>2. CASE insensitive
        <5>1. Key(<<>>, insensitive) = [i \in DOMAIN (<<>>) |-> Upper((<<>>)[i])]
          BY <4>2, Zenon DEF Key
        <5> QED
          BY <4>1, <5>1
      <4>3. CASE ~insensitive
        <5>1. Key(<<>>, insensitive) = <<>>
          BY <4>3, Zenon DEF Key
        <5> QED
          BY <4>1, <5>1
      <4> QED
        BY <4>2, <4>3
    <3>3. WithEnding(path, k) \in Seq(PathNames) /\ 1 \in DOMAIN WithEnding(path, k)
      <4> DEFINE name == Ending(Plain(""), k)
      <4>1. WithEnding(path, k) = <<name>> /\ name \in PathNames
        BY <2>1, <2>3
      <4> HIDE DEF name
      <4> QED
        BY <4>1
    <3>4. 1 \in DOMAIN Key(WithEnding(path, k), insensitive)
      BY <1>2, <3>3
    <3> QED
      BY <3>1, <3>2, <3>4
  <2>5. CASE j # 0
    <3>1. WithEnding(path, j) = <<Ending(Plain(""), j)>>
      BY <1>3, <2>5 DEF WithEnding
    <3>3. ASSUME NEW m \in Nat
          PROVE  Key(<<Ending(Plain(""), m)>>, insensitive)[1].endings = Append(<<>>, m)
      <4> DEFINE name == Ending(Plain(""), m)
      <4>1. name \in PathNames /\ name.endings = Append(<<>>, m)
        BY <2>3
      <4> HIDE DEF name
      <4>2. <<name>> \in Seq(PathNames) /\ 1 \in DOMAIN <<name>> /\ <<name>>[1] = name
        BY <4>1
      <4>3. Key(<<name>>, insensitive)[1].endings = name.endings
        BY <1>2, <4>2
      <4> QED
        BY <4>1, <4>3 DEF name
    <3>4. Append(<<>>, j) # Append(<<>>, k)
      <4>1. <<>> \in Seq(Nat) /\ Len(<<>>) = 0
        BY EmptySeq
      <4>2. Append(<<>>, k)[0 + 1] = k /\ Append(<<>>, j)[0 + 1] = j
        BY <4>1, AppendProperties
      <4> QED
        BY <4>2
    <3> QED
      BY <2>1, <3>1, <3>3, <3>4
  <2> QED
    BY <2>4, <2>5
<1>4. CASE path # <<>>
  <2>1. n \in Nat /\ DOMAIN path = 1 .. n /\ path \in [1 .. n -> PathNames]
    BY LenProperties
  <2>2. n \in 1 .. n /\ path[n] \in PathNames
    BY <1>4, <2>1, EmptySeq
  <2> DEFINE e == path[n].endings
  <2>3. e \in Seq(Nat)
    BY <2>2 DEF PathNames
  <2>4. ASSUME NEW m \in Nat
        PROVE  /\ WithEnding(path, m) \in Seq(PathNames) /\ n \in DOMAIN WithEnding(path, m)
               /\ WithEnding(path, m)[n].endings = IF m = 0 THEN e ELSE Append(e, m)
    <3>1. CASE m = 0
      BY <2>1, <2>2, <3>1 DEF WithEnding
    <3>2. CASE m # 0
      <4>1. WithEnding(path, m) = [path EXCEPT ![n] = Ending(path[n], m)]
        BY <1>4, <3>2 DEF WithEnding
      <4>2. Ending(path[n], m) \in PathNames /\ Ending(path[n], m).endings = Append(e, m)
        BY <2>2, EndingIsName
      <4> HIDE DEF n, e
      <4>3. WithEnding(path, m) \in [1 .. n -> PathNames]
        BY <2>1, <4>1, <4>2
      <4>4. WithEnding(path, m)[n] = Ending(path[n], m)
        BY <2>1, <2>2, <4>1
      <4>5. WithEnding(path, m) \in Seq(PathNames)
        BY <2>1, <4>3
      <4> QED
        BY <2>2, <3>2, <4>2, <4>3, <4>4, <4>5
    <3> QED
      BY <3>1, <3>2
  <2>5. Key(WithEnding(path, j), insensitive)[n].endings = IF j = 0 THEN e ELSE Append(e, j)
    BY <1>2, <2>4
  <2>6. Key(WithEnding(path, k), insensitive)[n].endings = Append(e, k)
    BY <1>1, <1>2, <2>4
  <2>7. Append(e, k) # e /\ (j # 0 => Append(e, k) # Append(e, j))
    <3> HIDE DEF e
    <3>1. Len(Append(e, k)) = Len(e) + 1 /\ Len(e) \in Nat
      BY <2>3, AppendProperties, LenProperties
    <3>2. Append(e, k)[Len(e) + 1] = k /\ Append(e, j)[Len(e) + 1] = j
      BY <2>3, AppendProperties
    <3> QED
      BY <3>1, <3>2
  <2> HIDE DEF e, n
  <2> QED
    BY <2>5, <2>6, <2>7
<1> QED
  BY <1>3, <1>4

(* Of one ending more than there are keys in use, one is free. *)
LEMMA UniqueIsFree ==
    ASSUME NEW relative \in Seq(PathNames), NEW used, IsFiniteSet(used),
           NEW insensitive \in BOOLEAN
    PROVE  \E k \in Nat : /\ Unique(relative, used, insensitive) = WithEnding(relative, k)
                          /\ Key(WithEnding(relative, k), insensitive) \notin used
<1> DEFINE n == Cardinality(used)
           key == [k \in 0 .. n |-> Key(WithEnding(relative, k), insensitive)]
           free == {k \in 0 .. n : key[k] \notin used}
<1>1. n \in Nat
  BY FS_CardinalityType
<1>2. free # {}
  <2> SUFFICES ASSUME free = {} PROVE FALSE
    OBVIOUS
  <2>1. key \in [0 .. n -> used]
    OBVIOUS
  <2>2. IsFiniteSet(0 .. n) /\ Cardinality(0 .. n) = n + 1
    BY <1>1, FS_Interval
  <2>3. ASSUME NEW x \in 0 .. n, NEW y \in 0 .. n, x # y PROVE key[x] # key[y]
    <3>1. x \in Nat /\ y \in Nat /\ (x < y \/ y < x)
      BY <1>1, <2>3
    <3>2. Key(WithEnding(relative, x), insensitive) # Key(WithEnding(relative, y), insensitive)
      BY <3>1, EndingsDiffer
    <3> QED
      BY <3>2
  <2> HIDE DEF key
  <2>4. Cardinality(used) < Cardinality(0 .. n)
    BY <1>1, <2>2
  <2>5. \E x, y \in 0 .. n : x # y /\ key[x] = key[y]
    <3> DEFINE S == 0 .. n
    <3>1. key \in [S -> used] /\ IsFiniteSet(S) /\ Cardinality(used) < Cardinality(S)
      BY <2>1, <2>2, <2>4
    <3> HIDE DEF S
    <3>2. \E x, y \in S : x # y /\ key[x] = key[y]
      BY ONLY IsFiniteSet(used), <3>1, FS_PigeonHole
    <3> QED
      BY <3>2 DEF S
  <2> QED
    BY <2>3, <2>5
<1>3. PICK k \in free : \A j \in free : k <= j
  <2>1. free \in SUBSET Nat
    BY <1>1
  <2> HIDE DEF free
  <2> QED
    BY <1>2, <2>1, LeastNumber
<1> DEFINE first(m) == /\ Key(WithEnding(relative, m), insensitive) \notin used
                       /\ \A j \in 0 .. m - 1 : Key(WithEnding(relative, j), insensitive) \in used
<1>4. k \in 0 .. n /\ first(k)
  <2>1. k \in 0 .. n /\ Key(WithEnding(relative, k), insensitive) \notin used
    BY <1>3
  <2>2. ASSUME NEW j \in 0 .. k - 1 PROVE Key(WithEnding(relative, j), insensitive) \in used
    <3>1. j \in 0 .. n /\ ~(k <= j)
      BY <1>1, <2>1
    <3> QED
      BY <1>3, <3>1
  <2> QED
    BY <2>1, <2>2
<1>5. PICK m \in 0 .. n : first(m) /\ Unique(relative, used, insensitive) = WithEnding(relative, m)
  BY <1>4 DEF Unique
<1> QED
  BY <1>1, <1>5

(* Where an item goes, before it is told apart: names that do not lead upwards, but *)
(* for the last one of a path that was cut.                                         *)
LEMMA RelativeLeadsDown ==
    ASSUME ExportPathsInv, NEW i \in DOMAIN export.paths
    PROVE  RelativeHolds(Relative(i), ~export.carved[i]
                                      /\ Bytes(Cleaned(export.paths[i])) > export.limit)
<1> DEFINE path == export.paths[i]
<1>1. path \in Seq(PathNames)
  BY LenProperties, ElementOfSeq DEF ExportPathsInv
<1> HIDE DEF path
<1>2. CASE export.carved[i]
  <2> DEFINE a == Plain("carved")
             b == Ending(IF path = <<>> THEN Plain("carved") ELSE path[Len(path)], CarvedSize)
  <2>1. a \in PathNames /\ a # Plain("..")
    BY PlainIsName DEF Plain
  <2>2. (IF path = <<>> THEN Plain("carved") ELSE path[Len(path)]) \in PathNames
    BY <1>1, <2>1, LenProperties, EmptySeq
  <2>3. b \in PathNames /\ b # Plain("..")
    BY <2>2, EndingIsName DEF CarvedSize
  <2>4. Relative(i) = <<a, b>>
    BY <1>2 DEF Relative, CarvedDestinationName, path
  <2> HIDE DEF a, b
  <2> QED
    BY <2>1, <2>3, <2>4 DEF RelativeHolds
<1>3. CASE ~export.carved[i]
  <2>1. Relative(i) = TruncateToBytes(Cleaned(path), export.limit)
    BY <1>3 DEF Relative, SafeRelativePath, path
  <2>2. /\ Cleaned(path) \in Seq(PathNames)
        /\ \A k \in DOMAIN Cleaned(path) : Cleaned(path)[k] # Plain("..")
    BY <1>1, CleanedHasNoUp
  <2>3. export.limit \in Nat
    BY DEF ExportPathsInv
  <2> QED
    BY <1>3, <2>1, <2>2, <2>3, CutHasNoUp DEF RelativeHolds, path
<1> QED
  BY <1>2, <1>3

LEMMA PlanExportInv == ExportPathsInv /\ PlanExport => ExportPathsInv'
<1> SUFFICES ASSUME ExportPathsInv, PlanExport PROVE ExportPathsInv'
  OBVIOUS
<1> DEFINE n == Len(plan)
           dest == Unique(Relative(n + 1), Used, export.insensitive)
           cut(i) == ~export.carved[i] /\ Bytes(Cleaned(export.paths[i])) > export.limit
           key(p) == Key(p, export.insensitive)
<1>1. /\ export.paths \in Seq(Seq(PathNames)) /\ export.limit \in Nat
      /\ export.insensitive \in BOOLEAN /\ plan \in Seq(Seq(PathNames))
  BY DEF ExportPathsInv
<1>2. /\ n \in Nat /\ DOMAIN plan = 1 .. n /\ Len(export.paths) \in Nat
      /\ DOMAIN export.paths = 1 .. Len(export.paths) /\ n < Len(export.paths)
  BY <1>1, LenProperties DEF PlanExport
<1>3. export' = export /\ plan' = Append(plan, dest)
  BY DEF PlanExport
<1>4. RelativeHolds(Relative(n + 1), cut(n + 1))
  BY <1>2, RelativeLeadsDown
<1>5. IsFiniteSet(Used)
  <2>1. IsFiniteSet(DOMAIN plan)
    BY <1>2, FS_Interval
  <2> DEFINE f == [j \in DOMAIN plan |-> key(plan[j])]
  <2>2. f \in Surjection(DOMAIN plan, Used)
    BY DEF Used, Surjection
  <2> HIDE DEF f
  <2> QED
    BY <2>1, <2>2, FS_Surjection
<1>6. PICK k \in Nat : /\ dest = WithEnding(Relative(n + 1), k)
                       /\ key(WithEnding(Relative(n + 1), k)) \notin Used
  BY <1>1, <1>4, <1>5, UniqueIsFree DEF RelativeHolds
<1>7. RelativeHolds(dest, cut(n + 1)) /\ key(dest) \notin Used
  BY <1>4, <1>6, WithEndingHolds DEF RelativeHolds
<1>8. \A j \in 1 .. n : key(plan[j]) # key(dest)
  BY <1>2, <1>7 DEF Used
<1>9. dest \in Seq(PathNames)
  BY <1>7 DEF RelativeHolds
<1> HIDE DEF dest, n
<1>10. /\ plan' \in Seq(Seq(PathNames)) /\ Len(plan') = n + 1
       /\ plan'[n + 1] = dest /\ \A j \in 1 .. n : plan'[j] = plan[j]
  BY <1>1, <1>3, <1>9, AppendProperties DEF n
<1>11. DOMAIN plan' = 1 .. n + 1
  BY <1>10, LenProperties
<1>12. \A i \in 1 .. n + 1 : i \in 1 .. n \/ i = n + 1
  BY <1>2
<1>13. \A i, j \in DOMAIN plan' : i # j => key(plan'[i]) # key(plan'[j])
  <2>1. \A i, j \in 1 .. n : i # j => key(plan[i]) # key(plan[j])
    BY <1>2 DEF ExportPathsInv, DestinationsApart
  <2> HIDE DEF key
  <2> QED
    BY <1>8, <1>10, <1>11, <1>12, <2>1
<1>14. \A i \in DOMAIN plan' : \A m \in DOMAIN plan'[i] : plan'[i][m] = Plain("..") =>
           m = Len(plan'[i]) /\ cut(i)
  <2>1. \A i \in 1 .. n : \A m \in DOMAIN plan[i] : plan[i][m] = Plain("..") =>
           m = Len(plan[i]) /\ cut(i)
    BY <1>2 DEF ExportPathsInv, DestinationsApart
  <2>2. \A m \in DOMAIN dest : dest[m] = Plain("..") => m = Len(dest) /\ cut(n + 1)
    BY <1>7 DEF RelativeHolds
  <2> HIDE DEF cut
  <2> QED
    BY <1>10, <1>11, <1>12, <2>1, <2>2
<1>15. DestinationsApart'
  BY <1>3, <1>13, <1>14 DEF DestinationsApart
<1> QED
  BY <1>1, <1>2, <1>3, <1>10, <1>15 DEF ExportPathsInv

(* However many items an export has, no two go to one place, on a destination that tells *)
(* cases apart or one that does not, and no name of a destination leads upwards but for   *)
(* the last one of a path that was cut (plan_export_paths, _unique).                      *)
THEOREM DestinationsAlwaysApart == ExportPathsSpec => []DestinationsApart
<1>1. ExportPathsInit => ExportPathsInv
  <2> SUFFICES ASSUME ExportPathsInit PROVE ExportPathsInv
    OBVIOUS
  <2>1. PICK n \in 1 .. MaxExports :
            export \in [paths : [1 .. n -> SourcePaths], carved : [1 .. n -> BOOLEAN],
                        limit : PathLimits, insensitive : BOOLEAN]
    BY DEF ExportPathsInit
  <2>2. n \in Nat
    <3>1. MaxExports \in Nat
      BY ExportPathsAssumption
    <3> QED
      BY <3>1
  <2>3. export.paths \in [1 .. n -> SourcePaths] /\ export.limit \in PathLimits
    BY <2>1
  <2>4. export.insensitive \in BOOLEAN
    BY <2>1
  <2>5. export.paths \in [1 .. n -> Seq(PathNames)] /\ export.limit \in Nat
    BY <2>3, ExportPathsAssumption
  <2>6. export.paths \in Seq(Seq(PathNames)) /\ Len(export.paths) \in Nat
    BY <2>2, <2>5, LenProperties
  <2>7. plan = <<>>
    BY DEF ExportPathsInit, NoPlan
  <2>8. plan \in Seq(Seq(PathNames)) /\ Len(plan) = 0 /\ DOMAIN plan = {}
    BY <2>7, EmptySeq
  <2>9. DestinationsApart
    BY <2>8 DEF DestinationsApart
  <2> QED
    BY <2>4, <2>5, <2>6, <2>8, <2>9 DEF ExportPathsInv
<1>2. ExportPathsInv /\ [PlanExport]_exportVars => ExportPathsInv'
  <2>1. ExportPathsInv /\ UNCHANGED exportVars => ExportPathsInv'
    BY DEF ExportPathsInv, DestinationsApart, exportVars
  <2> QED
    BY <2>1, PlanExportInv
<1>3. ExportPathsInv => DestinationsApart
  BY DEF ExportPathsInv
<1> QED
  BY <1>1, <1>2, <1>3, PTL DEF ExportPathsSpec

-----------------------------------------------------------------------------
(* Near duplicates: worker/duplicate_groups.py                              *)

(* Parents come before their children. *)
IsForest(parent) ==
    parent \in [Candidates -> Candidates] /\ \A f \in Candidates : parent[f] <= f

(* Following its parents, every finding comes to a root. *)
LEMMA RootsExist ==
    ASSUME NEW parent, IsForest(parent)
    PROVE  Roots(parent) \in [Candidates -> Candidates] /\ IsRoots(Roots(parent), parent)
<1> DEFINE has(n) == \E root \in [1 .. n -> Candidates] :
               \A f \in 1 .. n : root[f] = IF parent[f] = f THEN f ELSE root[parent[f]]
           lacking == {n \in 0 .. CandidateCount : ~has(n)}
<1>1. CandidateCount \in Nat
  BY GroupAssumption
<1>2. ASSUME NEW n \in 1 .. CandidateCount, has(n - 1) PROVE has(n)
  <2>1. PICK root \in [1 .. n - 1 -> Candidates] :
            \A f \in 1 .. n - 1 : root[f] = IF parent[f] = f THEN f ELSE root[parent[f]]
    BY <1>2
  <2> DEFINE top == IF parent[n] = n THEN n ELSE root[parent[n]]
             more == [f \in 1 .. n |-> IF f = n THEN top ELSE root[f]]
  <2>2. ASSUME NEW f \in 1 .. n PROVE parent[f] \in 1 .. f
    BY <1>1 DEF IsForest, Candidates
  <2>3. top \in Candidates
    <3>1. CASE parent[n] = n
      BY <3>1 DEF Candidates
    <3>2. CASE parent[n] # n
      <4>1. parent[n] \in 1 .. n - 1
        BY <1>1, <2>2, <3>2
      <4> QED
        BY <3>2, <4>1
    <3> QED
      BY <3>1, <3>2
  <2> HIDE DEF top
  <2>4. \A f \in 1 .. n : f # n => f \in 1 .. n - 1
    BY <1>1
  <2>5. more \in [1 .. n -> Candidates]
    BY <2>3, <2>4
  <2>6. ASSUME NEW f \in 1 .. n
        PROVE  more[f] = IF parent[f] = f THEN f ELSE more[parent[f]]
    <3>1. parent[f] \in 1 .. f /\ parent[f] \in 1 .. n /\ (parent[f] # f => parent[f] # n)
      BY <1>1, <2>2
    <3>2. CASE f = n
      <4>1. more[f] = top
        BY <3>2
      <4>2. parent[f] # f => more[parent[f]] = root[parent[f]]
        BY <3>1
      <4> QED
        BY <3>2, <4>1, <4>2 DEF top
    <3>3. CASE f # n
      <4>1. f \in 1 .. n - 1
        BY <2>4, <3>3
      <4>2. more[f] = root[f] /\ (parent[f] # f => more[parent[f]] = root[parent[f]])
        BY <3>1, <3>3
      <4> HIDE DEF more
      <4> QED
        BY <2>1, <4>1, <4>2
    <3> QED
      BY <3>2, <3>3
  <2> HIDE DEF more
  <2> QED
    BY <2>5, <2>6
<1>3. has(0)
  <2>1. [f \in 1 .. 0 |-> f] \in [1 .. 0 -> Candidates]
    OBVIOUS
  <2>2. \A f \in 1 .. 0 : FALSE
    OBVIOUS
  <2> QED
    BY <2>1, <2>2
<1> HIDE DEF has
<1>4. lacking = {}
  <2> SUFFICES ASSUME lacking # {} PROVE FALSE
    OBVIOUS
  <2>1. PICK n \in lacking : \A m \in lacking : n <= m
    <3>1. lacking \in SUBSET Nat
      BY <1>1
    <3> HIDE DEF lacking
    <3> QED
      BY <3>1, LeastNumber
  <2>2. n \in 0 .. CandidateCount /\ ~has(n)
    BY <2>1
  <2>3. n # 0
    BY <1>3, <2>2
  <2>4. n \in 1 .. CandidateCount /\ n - 1 \in 0 .. CandidateCount /\ ~(n <= n - 1)
    BY <1>1, <2>2, <2>3
  <2>5. has(n - 1)
    BY <2>1, <2>4
  <2> QED
    BY <1>2, <2>2, <2>4, <2>5
<1>5. has(CandidateCount)
  BY <1>1, <1>4
<1>6. \E root \in [Candidates -> Candidates] : IsRoots(root, parent)
  BY <1>5 DEF has, IsRoots, Candidates
<1> QED
  BY <1>6 DEF Roots

(* Where a finding comes to is a root. *)
LEMMA RootIsRoot ==
    ASSUME NEW parent, IsForest(parent), NEW f \in Candidates
    PROVE  parent[Roots(parent)[f]] = Roots(parent)[f]
<1> DEFINE r == Roots(parent)
           wrong == {g \in Candidates : parent[r[g]] # r[g]}
<1>1. r \in [Candidates -> Candidates] /\ IsRoots(r, parent)
  BY RootsExist
<1> HIDE DEF r
<1>2. wrong = {}
  <2> SUFFICES ASSUME wrong # {} PROVE FALSE
    OBVIOUS
  <2>1. PICK g \in wrong : \A h \in wrong : g <= h
    <3>1. wrong \in SUBSET Nat
      BY GroupAssumption DEF Candidates
    <3> HIDE DEF wrong
    <3> QED
      BY <3>1, LeastNumber
  <2>2. g \in Candidates /\ parent[r[g]] # r[g]
    BY <2>1
  <2>3. r[g] = IF parent[g] = g THEN g ELSE r[parent[g]]
    BY <1>1, <2>2 DEF IsRoots
  <2>4. parent[g] # g
    BY <2>2, <2>3
  <2>5. parent[g] \in wrong
    BY <2>2, <2>3, <2>4 DEF IsForest
  <2>6. parent[g] <= g /\ g \in Int /\ parent[g] \in Int
    BY <2>2, GroupAssumption DEF IsForest, Candidates
  <2> QED
    BY <2>1, <2>4, <2>5, <2>6
<1> QED
  BY <1>2 DEF r

(* Joining two roots moves the findings of the larger to the smaller. *)
AreRoots(parent, hi, lo) ==
    /\ IsForest(parent) /\ hi \in Candidates /\ lo \in Candidates
    /\ lo < hi /\ parent[hi] = hi /\ parent[lo] = lo
Joined(parent, hi, lo) == [parent EXCEPT ![hi] = lo]

LEMMA JoinedRoots ==
    ASSUME NEW parent, NEW hi, NEW lo, AreRoots(parent, hi, lo)
    PROVE  /\ IsForest(Joined(parent, hi, lo))
           /\ \A f \in Candidates : Roots(Joined(parent, hi, lo))[f]
                = IF Roots(parent)[f] = hi THEN lo ELSE Roots(parent)[f]
<1> DEFINE joined == Joined(parent, hi, lo)
           r == Roots(parent)
           q == Roots(joined)
           moved(f) == IF r[f] = hi THEN lo ELSE r[f]
           wrong == {f \in Candidates : q[f] # moved(f)}
<1>0. /\ IsForest(parent) /\ hi \in Candidates /\ lo \in Candidates
      /\ lo < hi /\ parent[hi] = hi /\ parent[lo] = lo
  BY DEF AreRoots
<1>1. \A f \in Candidates : f \in Int
  BY GroupAssumption DEF Candidates
<1>2. /\ joined \in [Candidates -> Candidates]
      /\ \A f \in Candidates : joined[f] = IF f = hi THEN lo ELSE parent[f]
  BY <1>0 DEF IsForest, Joined
<1>3. IsForest(joined)
  <2> HIDE DEF joined
  <2> QED
    BY <1>0, <1>1, <1>2 DEF IsForest
<1> HIDE DEF joined
<1>4. /\ r \in [Candidates -> Candidates] /\ IsRoots(r, parent)
      /\ q \in [Candidates -> Candidates] /\ IsRoots(q, joined)
  BY <1>0, <1>3, RootsExist
<1> HIDE DEF r, q
<1>5. wrong = {}
  <2> SUFFICES ASSUME wrong # {} PROVE FALSE
    OBVIOUS
  <2>1. PICK f \in wrong : \A g \in wrong : f <= g
    <3>1. wrong \in SUBSET Nat
      BY GroupAssumption DEF Candidates
    <3> HIDE DEF wrong
    <3> QED
      BY <3>1, LeastNumber
  <2>2. f \in Candidates /\ q[f] # moved(f)
    BY <2>1
  <2>3. \A g \in Candidates : g < f => q[g] = moved(g)
    BY <1>1, <2>1, <2>2
  <2>4. /\ r[f] = IF parent[f] = f THEN f ELSE r[parent[f]]
        /\ q[f] = IF joined[f] = f THEN f ELSE q[joined[f]]
        /\ r[lo] = lo /\ r[hi] = hi
    BY <1>0, <1>4, <2>2 DEF IsRoots
  <2>5. CASE f = hi
    <3>1. joined[f] = lo /\ lo # f /\ lo # hi
      BY <1>0, <1>1, <1>2, <2>5
    <3>2. q[f] = q[lo]
      BY <2>4, <3>1
    <3>3. q[lo] = lo
      BY <1>0, <2>3, <2>4, <2>5, <3>1
    <3> QED
      BY <2>2, <2>4, <2>5, <3>2, <3>3
  <2>6. CASE f # hi
    <3>1. joined[f] = parent[f]
      BY <1>2, <2>2, <2>6
    <3>2. CASE parent[f] = f
      BY <2>2, <2>4, <2>6, <3>1, <3>2
    <3>3. CASE parent[f] # f
      <4>1. parent[f] \in Candidates /\ parent[f] < f
        <5>1. parent[f] \in Candidates /\ parent[f] <= f
          BY <1>0, <2>2 DEF IsForest
        <5> QED
          BY <1>1, <2>2, <3>3, <5>1
      <4>2. q[parent[f]] = moved(parent[f])
        BY <2>3, <4>1
      <4> QED
        BY <2>2, <2>4, <3>1, <3>3, <4>2
    <3> QED
      BY <3>2, <3>3
  <2> QED
    BY <2>5, <2>6
<1>6. \A f \in Candidates : q[f] = moved(f)
  BY <1>5
<1> QED
  BY <1>3, <1>6 DEF joined, r, q

(* A chain leads both ways, chains can be joined, and like findings are a chain. *)
LEMMA LinkedBack ==
    ASSUME NEW f \in Candidates, NEW g \in Candidates, Linked(f, g)
    PROVE  Linked(g, f)
<1> SUFFICES ASSUME NEW set \in SUBSET Candidates, g \in set, ClosedUnderLikeness(set), f \notin set
             PROVE  FALSE
  BY DEF Linked
<1> DEFINE others == Candidates \ set
<1>1. \A x, y : Alike(x, y) => Alike(y, x)
  <2>1. \A x, y : {x, y} = {y, x}
    OBVIOUS
  <2> QED
    BY <2>1, Zenon DEF Alike
<1>2. ClosedUnderLikeness(others)
  <2> SUFFICES ASSUME NEW x \in others, NEW y \in Candidates, Alike(x, y), y \in set PROVE FALSE
    BY DEF ClosedUnderLikeness
  <2> QED
    BY <1>1 DEF ClosedUnderLikeness
<1>3. others \in SUBSET Candidates /\ f \in others
  OBVIOUS
<1> HIDE DEF others
<1>4. g \in others
  BY <1>2, <1>3 DEF Linked
<1> QED
  BY <1>4 DEF others

LEMMA LinkedOn ==
    ASSUME NEW f \in Candidates, NEW g \in Candidates, NEW h \in Candidates,
           Linked(f, g), Linked(g, h)
    PROVE  Linked(f, h)
BY DEF Linked

LEMMA AlikeLinked ==
    ASSUME NEW f \in Candidates, NEW g \in Candidates, Alike(f, g)
    PROVE  Linked(f, g)
BY DEF Linked, ClosedUnderLikeness

(* The parts of the invariant about the forest. *)
ForestHolds(parent) ==
    /\ IsForest(parent)
    /\ \A f, g \in Candidates : Roots(parent)[f] = Roots(parent)[g] => Linked(f, g)

(* A union keeps findings of one root together and linked, and joins the two. *)
LEMMA UnionHolds ==
    ASSUME NEW parent, ForestHolds(parent), NEW f \in Candidates, NEW g \in Candidates,
           Alike(f, g)
    PROVE  /\ ForestHolds(Union(parent, f, g))
           /\ \A x, y \in Candidates : Roots(parent)[x] = Roots(parent)[y] =>
                  Roots(Union(parent, f, g))[x] = Roots(Union(parent, f, g))[y]
           /\ Roots(Union(parent, f, g))[f] = Roots(Union(parent, f, g))[g]
<1> DEFINE r == Roots(parent)
           a == r[f]
           b == r[g]
           hi == IF a > b THEN a ELSE b
           lo == IF a > b THEN b ELSE a
           joined == Joined(parent, hi, lo)
           q == Roots(joined)
<1>1. IsForest(parent) /\ \A x, y \in Candidates : r[x] = r[y] => Linked(x, y)
  BY DEF ForestHolds
<1>2. a \in Candidates /\ b \in Candidates /\ parent[a] = a /\ parent[b] = b
  <2>1. r \in [Candidates -> Candidates]
    BY <1>1, RootsExist
  <2>2. parent[r[f]] = r[f] /\ parent[r[g]] = r[g]
    BY <1>1, RootIsRoot
  <2> QED
    BY <2>1, <2>2
<1>3. Linked(f, g) /\ Linked(g, f)
  BY AlikeLinked, LinkedBack
<1>4. CASE a = b
  <2>1. Union(parent, f, g) = parent
    BY <1>4 DEF Union
  <2> QED
    BY <1>4, <2>1
<1>5. CASE a # b
  <2>1. Union(parent, f, g) = joined
    BY <1>5 DEF Union, Joined
  <2>2. a \in Int /\ b \in Int
    BY <1>2, GroupAssumption DEF Candidates
  <2>3. /\ hi \in Candidates /\ lo \in Candidates /\ lo < hi
        /\ parent[hi] = hi /\ parent[lo] = lo
    BY <1>2, <1>5, <2>2
  <2>4. (hi = a /\ lo = b) \/ (hi = b /\ lo = a)
    OBVIOUS
  <2> HIDE DEF hi, lo
  <2>5. IsForest(joined) /\ \A x \in Candidates : q[x] = IF r[x] = hi THEN lo ELSE r[x]
    <3>1. AreRoots(parent, hi, lo)
      BY <1>1, <2>3 DEF AreRoots
    <3> QED
      BY <3>1, JoinedRoots
  <2> HIDE DEF joined, q
  <2>6. \A x, y \in Candidates : r[x] = r[y] => q[x] = q[y]
    BY <2>5
  <2>7. q[f] = q[g]
    BY <2>4, <2>5
  <2>8. ASSUME NEW x \in Candidates, NEW y \in Candidates, q[x] = q[y] PROVE Linked(x, y)
    <3>1. \/ r[x] = r[y]
          \/ r[x] = a /\ r[y] = b
          \/ r[x] = b /\ r[y] = a
      BY <2>4, <2>5, <2>8
    <3>2. CASE r[x] = r[y]
      BY <1>1, <3>2
    <3>3. CASE r[x] = a /\ r[y] = b
      <4>1. Linked(x, f) /\ Linked(g, y)
        BY <1>1, <3>3
      <4> QED
        BY <1>3, <4>1, LinkedOn
    <3>4. CASE r[x] = b /\ r[y] = a
      <4>1. Linked(x, g) /\ Linked(f, y)
        BY <1>1, <3>4
      <4> QED
        BY <1>3, <4>1, LinkedOn
    <3> QED
      BY <3>1, <3>2, <3>3, <3>4
  <2> QED
    BY <2>1, <2>5, <2>6, <2>7, <2>8 DEF ForestHolds, q
<1> QED
  BY <1>4, <1>5

(* The two loops come to every pair. *)
LEMMA FollowingMeets ==
    ASSUME GroupInv, PairLeft
    PROVE  LET next == Following(grouping.pair) IN
           /\ grouping.pair[1] \in Candidates /\ grouping.pair[2] \in Candidates
           /\ next \in Nat \X Nat /\ next[1] < next[2]
           /\ next[2] <= CandidateCount \/ next[1] >= CandidateCount
           /\ \A f, g \in Candidates :
                  f < g /\ (f < next[1] \/ (f = next[1] /\ g < next[2])) =>
                      Met(f, g) \/ (f = grouping.pair[1] /\ g = grouping.pair[2])
<1> DEFINE a == grouping.pair[1]
           b == grouping.pair[2]
<1>1. a \in Nat /\ b \in Nat /\ a < b /\ b <= CandidateCount /\ CandidateCount \in Nat
  BY GroupAssumption DEF GroupInv, PairLeft
<1>0. a >= 1
  BY DEF GroupInv
<1>2. a \in Candidates /\ b \in Candidates
  BY <1>0, <1>1 DEF Candidates
<1>3. CASE b < CandidateCount
  <2>1. Following(grouping.pair) = <<a, b + 1>>
    BY <1>3 DEF Following
  <2> HIDE DEF a, b
  <2>2. \A f, g \in Candidates :
            f < g /\ (f < a \/ (f = a /\ g < b + 1)) => f < a \/ (f = a /\ g < b) \/ (f = a /\ g = b)
    BY <1>1 DEF Candidates
  <2> QED
    BY <1>1, <1>2, <1>3, <2>1, <2>2 DEF Met, a, b
<1>4. CASE ~(b < CandidateCount)
  <2>1. Following(grouping.pair) = <<a + 1, a + 2>>
    BY <1>4 DEF Following
  <2> HIDE DEF a, b
  <2>2. \A f, g \in Candidates :
            f < g /\ (f < a + 1 \/ (f = a + 1 /\ g < a + 2)) =>
                f < a \/ (f = a /\ g < b) \/ (f = a /\ g = b)
    BY <1>1, <1>4 DEF Candidates
  <2> QED
    BY <1>1, <1>2, <1>4, <2>1, <2>2 DEF Met, a, b
<1> QED
  BY <1>3, <1>4

LEMMA MeetPairInv == GroupInv /\ MeetPair => GroupInv'
<1> SUFFICES ASSUME GroupInv, MeetPair PROVE GroupInv'
  OBVIOUS
<1> DEFINE a == grouping.pair[1]
           b == grouping.pair[2]
           parent == grouping.parent
           grown == IF Alike(a, b) THEN Union(parent, a, b) ELSE parent
           next == Following(grouping.pair)
<1>1. /\ PairLeft /\ media' = media /\ {"done", "parent", "pair"} \subseteq DOMAIN grouping
      /\ grouping' = [grouping EXCEPT !.pair = next, !.parent = grown]
  BY DEF MeetPair, GroupInv
<1>2. /\ a \in Candidates /\ b \in Candidates
      /\ next \in Nat \X Nat /\ next[1] < next[2]
      /\ next[2] <= CandidateCount \/ next[1] >= CandidateCount
      /\ \A f, g \in Candidates :
             f < g /\ (f < next[1] \/ (f = next[1] /\ g < next[2])) =>
                 Met(f, g) \/ (f = a /\ g = b)
  BY <1>1, FollowingMeets
<1>3. next[1] >= 1
  <2>1. a >= 1 /\ a \in Nat
    BY DEF GroupInv
  <2>2. next[1] = a \/ next[1] = a + 1
    BY DEF Following
  <2> QED
    BY <2>1, <2>2
<1>4. ~grouping.done
  BY <1>1 DEF GroupInv
<1> HIDE DEF next, grown
<1>5. /\ grouping'.pair = next /\ grouping'.parent = grown /\ grouping'.done = grouping.done
      /\ DOMAIN grouping' = DOMAIN grouping
  BY <1>1
<1>6. ForestHolds(parent)
  BY DEF GroupInv, ForestHolds, IsForest
<1>7. /\ ForestHolds(grown)
      /\ \A x, y \in Candidates : Roots(parent)[x] = Roots(parent)[y] =>
             Roots(grown)[x] = Roots(grown)[y]
      /\ Alike(a, b) => Roots(grown)[a] = Roots(grown)[b]
  <2>1. CASE Alike(a, b)
    <3>1. grown = Union(parent, a, b)
      BY <2>1 DEF grown
    <3> QED
      BY <1>2, <1>6, <2>1, <3>1, UnionHolds
  <2>2. CASE ~Alike(a, b)
    <3>1. grown = parent
      BY <2>2 DEF grown
    <3> QED
      BY <1>6, <2>2, <3>1
  <2> QED
    BY <2>1, <2>2
<1>8. \A f, g \in Candidates :
        f < g /\ Met(f, g) /\ Alike(f, g) => Roots(parent)[f] = Roots(parent)[g]
  BY DEF GroupInv
<1>9. \A f, g \in Candidates : f < g /\ Met(f, g)' /\ Alike(f, g) => Roots(grown)[f] = Roots(grown)[g]
  <2> SUFFICES ASSUME NEW f \in Candidates, NEW g \in Candidates, f < g, Met(f, g)', Alike(f, g)
               PROVE  Roots(grown)[f] = Roots(grown)[g]
    OBVIOUS
  <2>1. Met(f, g) \/ (f = a /\ g = b)
    BY <1>2, <1>5 DEF Met
  <2> QED
    BY <1>7, <1>8, <2>1
<1>10. \A f, g \in Candidates : Linked(f, g)' <=> Linked(f, g)
  BY <1>1 DEF Linked, ClosedUnderLikeness, Alike
<1>11. \A f, g : Alike(f, g)' <=> Alike(f, g)
  BY <1>1 DEF Alike
<1>12. ~grouping'.done
  BY <1>4, <1>5
<1>13. PairLeft' \/ grouping'.pair[1] >= CandidateCount
  BY <1>2, <1>5 DEF PairLeft
<1>14. /\ grown \in [Candidates -> Candidates] /\ \A f \in Candidates : grown[f] <= f
       /\ \A f, g \in Candidates : Roots(grown)[f] = Roots(grown)[g] => Linked(f, g)
  BY <1>7 DEF ForestHolds, IsForest
<1>15. GroupsAreComponents'
  BY <1>12 DEF GroupsAreComponents
<1> QED
  BY <1>1, <1>2, <1>3, <1>5, <1>9, <1>10, <1>11, <1>12, <1>13, <1>14, <1>15 DEF GroupInv

(* Which finding is the best of a group depends on who in the group lacks something, *)
(* and on nobody else.                                                               *)
LEMMA BestOfTheGroup ==
    ASSUME NEW members, NEW one, NEW other, one \cap members = other \cap members
    PROVE  Best(members, one) = Best(members, other)
<1>1. ASSUME NEW f \in members, NEW g \in members
      PROVE  Precedes(f, g, one) <=> Precedes(f, g, other)
  <2>1. (f \in one <=> f \in other) /\ (g \in one <=> g \in other)
    OBVIOUS
  <2> DEFINE lack(h, l) == IF h \in l THEN 1 ELSE 0
             key(h, l) == <<lack(h, l), 0 - media.size[h],
                            IF h \in media.pathless THEN 0 ELSE CandidateCount + 1 - h, h>>
  <2>2. lack(f, one) = lack(f, other) /\ lack(g, one) = lack(g, other)
    BY <2>1
  <2> HIDE DEF lack
  <2>3. key(f, one) = key(f, other) /\ key(g, one) = key(g, other)
    BY <2>2
  <2>4. \A l : Precedes(f, g, l) <=>
            \E k \in 1 .. 4 : /\ key(f, l)[k] < key(g, l)[k]
                              /\ \A j \in 1 .. k - 1 : key(f, l)[j] = key(g, l)[j]
    BY Zenon DEF Precedes, lack
  <2> HIDE DEF key
  <2> QED
    BY <2>3, <2>4
<1>2. Foremost(members, one) = Foremost(members, other)
  BY <1>1 DEF Foremost
<1> QED
  BY <1>2 DEF Best

(* When every pair was met, findings have one root exactly if they are linked. *)
LEMMA RootsAreComponents ==
    ASSUME GroupInv, ~PairLeft, NEW f \in Candidates, NEW g \in Candidates
    PROVE  Roots(grouping.parent)[f] = Roots(grouping.parent)[g] <=> Linked(f, g)
<1> DEFINE r == Roots(grouping.parent)
           class == {x \in Candidates : r[x] = r[f]}
<1>1. \A x \in Candidates : x \in Int /\ x <= CandidateCount
  BY GroupAssumption DEF Candidates
<1>2. grouping.pair[1] >= CandidateCount /\ grouping.pair[1] \in Nat /\ CandidateCount \in Nat
  BY GroupAssumption DEF GroupInv
<1>3. ASSUME NEW x \in Candidates, NEW y \in Candidates, x < y, Alike(x, y)
      PROVE  r[x] = r[y]
  <2>1. Met(x, y)
    BY <1>1, <1>2, <1>3 DEF Met
  <2> QED
    BY <1>3, <2>1 DEF GroupInv
<1>4. ASSUME NEW x \in Candidates, NEW y \in Candidates, Alike(x, y)
      PROVE  r[x] = r[y]
  <2>1. Alike(y, x)
    <3>1. {x, y} = {y, x}
      OBVIOUS
    <3> QED
      BY <1>4, <3>1, Zenon DEF Alike
  <2>2. x < y \/ y < x \/ x = y
    BY <1>1
  <2> QED
    BY <1>3, <1>4, <2>1, <2>2
<1>5. r[f] = r[g] => Linked(f, g)
  BY DEF GroupInv
<1> HIDE DEF r
<1>6. class \in SUBSET Candidates /\ f \in class /\ ClosedUnderLikeness(class)
  BY <1>4 DEF ClosedUnderLikeness
<1> HIDE DEF class
<1>7. Linked(f, g) => g \in class
  BY <1>6 DEF Linked
<1>8. g \in class => r[f] = r[g]
  BY DEF class
<1> QED
  BY <1>5, <1>7, <1>8 DEF r

LEMMA BuildDuplicateGroupsInv == GroupInv /\ BuildDuplicateGroups => GroupInv'
<1> SUFFICES ASSUME GroupInv, BuildDuplicateGroups PROVE GroupInv'
  OBVIOUS
<1> DEFINE r == Roots(grouping.parent)
           class(x) == {f \in Candidates : r[f] = x}
<1>1. ~PairLeft /\ media' = media
  BY DEF BuildDuplicateGroups
<1>2. /\ {"done", "parent", "pair"} \subseteq DOMAIN grouping'
      /\ grouping'.done /\ grouping'.parent = grouping.parent /\ grouping'.pair = grouping.pair
  BY DEF BuildDuplicateGroups
<1>3. /\ grouping'.exact = ExactGroups /\ grouping'.near = NearGroups
      /\ grouping'.reported = [m \in NearGroups |-> CanonicalMember(m)]
      /\ grouping'.measured = [m \in NearGroups |-> Canonical(m)]
  BY DEF BuildDuplicateGroups
<1>4. r \in [Candidates -> Candidates]
  <2>1. IsForest(grouping.parent)
    BY DEF GroupInv, IsForest
  <2> QED
    BY <2>1, RootsExist
<1> HIDE DEF r
<1>5. \A m : m \in NearGroups <=>
          (\E x \in Candidates : m = class(x)) /\ Cardinality(m) > 1
  BY DEF NearGroups, r
<1>6. ASSUME NEW f \in Candidates, NEW g \in Candidates, f # g
      PROVE  (\E m \in NearGroups : {f, g} \subseteq m) <=> Linked(f, g)
  <2>1. r[f] = r[g] <=> Linked(f, g)
    BY <1>1, RootsAreComponents DEF r
  <2>2. ASSUME NEW m \in NearGroups, {f, g} \subseteq m PROVE r[f] = r[g]
    BY <1>5, <2>2
  <2>3. ASSUME r[f] = r[g] PROVE \E m \in NearGroups : {f, g} \subseteq m
    <3> DEFINE m == class(r[f])
    <3>1. r[f] \in Candidates /\ {f, g} \in SUBSET m /\ m \in SUBSET Candidates
      BY <1>4, <2>3
    <3>2. m = class(r[f])
      OBVIOUS
    <3>3. IsFiniteSet(Candidates)
      BY FS_Interval, GroupAssumption DEF Candidates
    <3> HIDE DEF m
    <3>4. IsFiniteSet(m)
      BY <3>1, <3>3, FS_Subset
    <3>5. Cardinality({f, g}) = 2
      <4>1. IsFiniteSet({f}) /\ Cardinality({f}) = 1 /\ g \notin {f}
        BY <1>6, FS_Singleton
      <4>2. Cardinality({f} \cup {g}) = Cardinality({f}) + 1
        BY <4>1, FS_AddElement
      <4>3. {f} \cup {g} = {f, g}
        OBVIOUS
      <4> QED
        BY <4>1, <4>2, <4>3
    <3>6. Cardinality({f, g}) <= Cardinality(m) /\ Cardinality(m) \in Nat
      BY <3>1, <3>4, FS_Subset, FS_CardinalityType
    <3>7. m \in NearGroups
      BY <1>5, <3>1, <3>2, <3>5, <3>6
    <3> QED
      BY <3>1, <3>7
  <2> QED
    BY <2>1, <2>2, <2>3
<1>7. ASSUME NEW m \in NearGroups, NEW n \in NearGroups, m \cap n # {} PROVE m = n
  <2>1. PICK x \in Candidates : m = class(x)
    BY <1>5
  <2>2. PICK y \in Candidates : n = class(y)
    BY <1>5
  <2>3. PICK f : f \in m /\ f \in n
    BY <1>7
  <2>4. r[f] = x /\ r[f] = y
    BY <2>1, <2>2, <2>3
  <2> QED
    BY <2>1, <2>2, <2>4
<1>8. ASSUME NEW m \in ExactGroups, NEW f \in m, NEW g \in Candidates,
             media.digest[f] = media.digest[g]
      PROVE  g \in m
  BY <1>8 DEF ExactGroups
<1>9. ASSUME NEW m \in NearGroups, media.previewless \cap m = media.pathless \cap m
      PROVE  CanonicalMember(m) = Canonical(m)
  BY <1>9, BestOfTheGroup DEF CanonicalMember, Canonical
<1>10. \A f, g \in Candidates : Linked(f, g)' <=> Linked(f, g)
  BY <1>1 DEF Linked, ClosedUnderLikeness, Alike
<1>11. \A f, g : Alike(f, g)' <=> Alike(f, g)
  BY <1>1 DEF Alike
<1>12. GroupsAreComponents'
  BY <1>1, <1>3, <1>6, <1>7, <1>8, <1>9, <1>10 DEF GroupsAreComponents
<1>13. (PairLeft' <=> PairLeft) /\ \A f, g : Met(f, g)' <=> Met(f, g)
  BY <1>2 DEF PairLeft, Met
<1> QED
  BY <1>1, <1>2, <1>10, <1>11, <1>12, <1>13 DEF GroupInv

(* However many candidates there are and whichever are alike, the near groups are the *)
(* components of likeness, an exact group is complete, and the finding reported for a  *)
(* near group is the one distances are measured from when previews and paths agree     *)
(* (build_duplicate_groups, _clusters, _canonical, _canonical_member).                 *)
THEOREM GroupsAlwaysComponents == GroupSpec => []GroupsAreComponents
<1>1. GroupInit => GroupInv
  <2> SUFFICES ASSUME GroupInit PROVE GroupInv
    OBVIOUS
  <2> DEFINE parent == [f \in Candidates |-> f]
  <2>1. /\ DOMAIN grouping = {"done", "parent", "pair"}
        /\ ~grouping.done /\ grouping.parent = parent /\ grouping.pair = <<1, 2>>
    BY DEF GroupInit, Ungrouped
  <2>2. CandidateCount \in Nat /\ \A f \in Candidates : f \in Nat
    BY GroupAssumption DEF Candidates
  <2>3. /\ parent \in [Candidates -> Candidates] /\ \A f \in Candidates : parent[f] = f
    OBVIOUS
  <2> HIDE DEF parent
  <2>4. IsForest(parent)
    BY <2>2, <2>3 DEF IsForest
  <2>5. \A f \in Candidates : Roots(parent)[f] = f
    BY <2>3, <2>4, RootsExist DEF IsRoots
  <2>6. \A f, g \in Candidates : Roots(parent)[f] = Roots(parent)[g] => Linked(f, g)
    BY <2>5 DEF Linked
  <2>7. \A f, g \in Candidates : f < g => ~Met(f, g)
    BY <2>1, <2>2 DEF Met, Candidates
  <2>8. PairLeft \/ grouping.pair[1] >= CandidateCount
    BY <2>1, <2>2 DEF PairLeft
  <2>9. GroupsAreComponents
    BY <2>1 DEF GroupsAreComponents
  <2>10. /\ grouping.pair \in Nat \X Nat
         /\ 1 <= grouping.pair[1] /\ grouping.pair[1] < grouping.pair[2]
    BY <2>1
  <2> QED
    BY <2>1, <2>4, <2>6, <2>7, <2>8, <2>9, <2>10 DEF GroupInv, IsForest
<1>2. GroupInv /\ [GroupNext]_groupVars => GroupInv'
  <2>1. GroupInv /\ UNCHANGED groupVars => GroupInv'
    <3> SUFFICES ASSUME GroupInv, UNCHANGED groupVars PROVE GroupInv'
      OBVIOUS
    <3>1. media' = media /\ grouping' = grouping
      BY DEF groupVars
    <3>2. \A f, g \in Candidates : Linked(f, g)' <=> Linked(f, g)
      BY <3>1 DEF Linked, ClosedUnderLikeness, Alike
    <3>3. \A f, g : (Alike(f, g)' <=> Alike(f, g)) /\ (Met(f, g)' <=> Met(f, g))
      BY <3>1 DEF Alike, Met
    <3>4. GroupsAreComponents' <=> GroupsAreComponents
      BY <3>1, <3>2 DEF GroupsAreComponents
    <3>5. PairLeft' <=> PairLeft
      BY <3>1 DEF PairLeft
    <3> QED
      BY <3>1, <3>2, <3>3, <3>4, <3>5 DEF GroupInv
  <2> QED
    BY <2>1, MeetPairInv, BuildDuplicateGroupsInv DEF GroupNext
<1>3. GroupInv => GroupsAreComponents
  BY DEF GroupInv
<1> QED
  BY <1>1, <1>2, <1>3, PTL DEF GroupSpec

-----------------------------------------------------------------------------
(* Partitions and lost volumes: scanner/partition_discovery.py and          *)
(* scanner/lost_volume_candidates.py                                        *)

(* Entries as parse_mmls_output makes them: an allocated one has sectors. *)
AreEntries(entries) ==
    \A i \in DOMAIN entries :
        /\ i \in Nat /\ entries[i].start \in 0 .. LastSector /\ entries[i].end \in 0 .. LastSector
        /\ entries[i].allocated => entries[i].start <= entries[i].end

(* The allocated entry that follows another is there, if any comes after it. *)
LEMMA FollowerExists ==
    ASSUME NEW entries, AreEntries(entries), NEW a \in Allocated(entries),
           NEW b \in Allocated(entries), Precede(entries, a, b)
    PROVE  \E c \in Allocated(entries) :
               Follows(entries, a, c) /\ entries[c].start <= entries[b].start
<1> DEFINE S == {k \in Allocated(entries) : Precede(entries, a, k)}
           starts == {entries[k].start : k \in S}
<1>1. \A k \in Allocated(entries) :
          k \in Nat /\ entries[k].start \in Nat /\ entries[k].end \in Nat
  BY LayoutAssumption DEF AreEntries, Allocated, LastSector
<1>2. b \in S /\ S \in SUBSET Allocated(entries)
  OBVIOUS
<1>3. PICK s \in starts : \A x \in starts : s <= x
  <2>1. starts \in SUBSET Nat /\ starts # {}
    BY <1>1, <1>2
  <2> HIDE DEF starts
  <2> QED
    BY <2>1, LeastNumber
<1> DEFINE first == {k \in S : entries[k].start = s}
           ends == {entries[k].end : k \in first}
<1>4. PICK e \in ends : \A x \in ends : e <= x
  <2>1. ends \in SUBSET Nat /\ ends # {}
    BY <1>1, <1>2, <1>3
  <2> HIDE DEF ends
  <2> QED
    BY <2>1, LeastNumber
<1> DEFINE shortest == {k \in first : entries[k].end = e}
<1>5. PICK c \in shortest : \A x \in shortest : c <= x
  <2>1. shortest \in SUBSET Nat /\ shortest # {}
    BY <1>1, <1>2, <1>4
  <2> HIDE DEF shortest
  <2> QED
    BY <2>1, LeastNumber
<1>6. c \in Allocated(entries) /\ Precede(entries, a, c)
  BY <1>5
<1>7. entries[c].start = s /\ entries[c].end = e
  BY <1>5
<1>8. ASSUME NEW k \in Allocated(entries), Precede(entries, a, k), Precede(entries, k, c)
      PROVE  FALSE
  <2>1. k \in S
    BY <1>8
  <2>2. s <= entries[k].start
    BY <1>3, <2>1
  <2>3. entries[k].start = s => e <= entries[k].end
    BY <1>4, <2>1
  <2>4. entries[k].start = s /\ entries[k].end = e => c <= k
    BY <1>5, <2>1
  <2>5. /\ s \in Nat /\ e \in Nat /\ c \in Nat /\ k \in Nat
        /\ entries[k].start \in Nat /\ entries[k].end \in Nat
    BY <1>1, <1>6, <1>7
  <2>6. \/ entries[k].start < s
        \/ entries[k].start = s /\ entries[k].end < e
        \/ entries[k].start = s /\ entries[k].end = e /\ k < c
    BY <1>7, <1>8 DEF Precede
  <2> HIDE DEF S, starts, first, ends, shortest
  <2> QED
    BY <2>2, <2>3, <2>4, <2>5, <2>6
<1>9. s <= entries[b].start
  BY <1>2, <1>3
<1>10. Follows(entries, a, c)
  BY <1>6, <1>8 DEF Follows
<1> QED
  BY <1>6, <1>7, <1>9, <1>10

(* Though only neighbours are compared, no overlap is missed and none is made up. *)
LEMMA OverlapIsSharedSector ==
    ASSUME NEW entries, AreEntries(entries)
    PROVE  HasOverlap(entries) <=>
               \E i, j \in DOMAIN entries : \E s \in 0 .. LastSector :
                   /\ i < j /\ entries[i].allocated /\ entries[j].allocated
                   /\ entries[i].start <= s /\ s <= entries[i].end
                   /\ entries[j].start <= s /\ s <= entries[j].end
<1> DEFINE within(i, s) == entries[i].start <= s /\ s <= entries[i].end
           shared(i, j) == \E s \in 0 .. LastSector : within(i, s) /\ within(j, s)
<1>1. /\ LastSector \in Nat
      /\ \A k \in Allocated(entries) :
             /\ k \in Nat /\ k \in DOMAIN entries /\ entries[k].allocated
             /\ entries[k].start \in 0 .. LastSector /\ entries[k].end \in 0 .. LastSector
             /\ entries[k].start <= entries[k].end
  BY LayoutAssumption DEF AreEntries, Allocated, LastSector
<1>2. ASSUME HasOverlap(entries)
      PROVE  \E i, j \in Allocated(entries) : i < j /\ shared(i, j)
  <2>1. PICK i, j \in Allocated(entries) :
            Follows(entries, i, j) /\ Touches(entries[j].start, entries[i].end)
    BY <1>2 DEF HasOverlap
  <2>2. i # j /\ entries[i].start <= entries[j].start
    BY <1>1, <2>1 DEF Follows, Precede
  <2>3. within(i, entries[j].start) /\ within(j, entries[j].start)
    BY <1>1, <2>1, <2>2 DEF Touches
  <2>4. shared(i, j) /\ shared(j, i)
    BY <1>1, <2>3
  <2>5. i < j \/ j < i
    BY <1>1, <2>2
  <2> HIDE DEF shared
  <2> QED
    BY <2>4, <2>5
<1>3. ASSUME NEW a \in Allocated(entries), NEW b \in Allocated(entries),
             shared(a, b), Precede(entries, a, b)
      PROVE  HasOverlap(entries)
  <2>1. PICK c \in Allocated(entries) :
            Follows(entries, a, c) /\ entries[c].start <= entries[b].start
    BY <1>3, FollowerExists
  <2>2. entries[b].start <= entries[a].end
    BY <1>1, <1>3
  <2>3. entries[c].start <= entries[a].end
    BY <1>1, <2>1, <2>2
  <2> QED
    BY <2>1, <2>3 DEF HasOverlap, Touches
<1>4. ASSUME NEW i \in Allocated(entries), NEW j \in Allocated(entries), i < j, shared(i, j)
      PROVE  HasOverlap(entries)
  <2>1. Precede(entries, i, j) \/ Precede(entries, j, i)
    BY <1>1, <1>4 DEF Precede
  <2>2. shared(j, i)
    BY <1>4
  <2> HIDE DEF shared
  <2> QED
    BY <1>3, <1>4, <2>1, <2>2
<1>5. \A i : i \in Allocated(entries) <=> i \in DOMAIN entries /\ entries[i].allocated
  BY Zenon DEF Allocated
<1> QED
  BY <1>2, <1>4, <1>5

(* A signature that is not among the candidates comes after as many as the limit allows. *)
Marked == {s \in 0 .. LastSector : medium.marks[s].signature # "none"}

LEMMA LimitIsReached ==
    ASSUME NEW s \in Marked, s \notin CandidateSectors
    PROVE  /\ \A t \in CandidateSectors : t < s
           /\ IsFiniteSet(CandidateSectors) /\ Cardinality(CandidateSectors) = MaxCandidates
<1> DEFINE before(t) == {u \in Marked : u < t}
           rank(t) == Cardinality(UpTo(Marked, t))
<1>1. LastSector \in Nat /\ MaxCandidates \in Nat
  BY LayoutAssumption DEF LastSector
<1>2. Marked \in SUBSET Nat /\ Marked \in SUBSET (0 .. LastSector)
  BY DEF Marked
<1>3. IsFiniteSet(Marked)
  <2>1. IsFiniteSet(0 .. LastSector)
    BY <1>1, FS_Interval
  <2> QED
    BY <1>2, <2>1, FS_Subset
<1>4. CandidateSectors = {t \in Marked : Cardinality(before(t)) < MaxCandidates}
  BY Zenon DEF CandidateSectors, Marked
<1>5. /\ Cardinality(Marked) \in Nat
      /\ \A t \in Marked : rank(t) \in 1 .. Cardinality(Marked)
      /\ \A t, u \in Marked : t < u => rank(t) < rank(u)
      /\ \A k \in 1 .. Cardinality(Marked) : \E t \in Marked : rank(t) = k
  BY <1>2, <1>3, CountedOff
<1>6. ASSUME NEW t \in Marked PROVE rank(t) = Cardinality(before(t)) + 1
  <2>1. before(t) \in SUBSET Marked /\ t \notin before(t)
    BY <1>2
  <2>2. UpTo(Marked, t) = before(t) \cup {t}
    <3>1. t \in Int /\ \A u \in Marked : u \in Int
      BY <1>2
    <3>2. \A u \in Marked : u <= t <=> u < t \/ u = t
      BY <3>1
    <3> QED
      BY <3>2 DEF UpTo
  <2> HIDE DEF before
  <2>3. IsFiniteSet(before(t))
    BY <1>3, <2>1, FS_Subset
  <2> QED
    BY <2>1, <2>2, <2>3, FS_AddElement
<1>7. \A t \in Marked : Cardinality(before(t)) \in Int
  <2> SUFFICES ASSUME NEW t \in Marked PROVE Cardinality(before(t)) \in Int
    OBVIOUS
  <2>1. before(t) \in SUBSET Marked
    OBVIOUS
  <2> HIDE DEF before
  <2>2. IsFiniteSet(before(t))
    BY <1>3, <2>1, FS_Subset
  <2>3. Cardinality(before(t)) \in Nat
    BY <2>2, FS_CardinalityType
  <2> QED
    BY <2>3
<1> HIDE DEF before
<1>8. \A t : t \in CandidateSectors <=> t \in Marked /\ rank(t) <= MaxCandidates
  BY <1>1, <1>4, <1>6, <1>7
<1> HIDE DEF rank
<1>9. rank(s) > MaxCandidates /\ rank(s) \in 1 .. Cardinality(Marked)
  BY <1>1, <1>5, <1>8
<1>10. ASSUME NEW t \in CandidateSectors PROVE t < s
  <2>1. t \in Marked /\ rank(t) <= MaxCandidates /\ rank(t) \in 1 .. Cardinality(Marked)
    BY <1>5, <1>8
  <2>2. ~(s < t) /\ s # t
    BY <1>1, <1>5, <1>9, <2>1
  <2> QED
    BY <1>2, <2>1, <2>2
<1>11. IsFiniteSet(CandidateSectors)
  <2>1. CandidateSectors \in SUBSET Marked
    BY <1>8
  <2> QED
    BY <1>3, <2>1, FS_Subset
<1>12. Cardinality(CandidateSectors) = MaxCandidates
  <2> DEFINE f == [t \in CandidateSectors |-> rank(t)]
             upto == 1 .. MaxCandidates
  <2>1. f \in [CandidateSectors -> upto]
    BY <1>1, <1>5, <1>8
  <2>2. \A t, u \in CandidateSectors : f[t] = f[u] => t = u
    <3> SUFFICES ASSUME NEW t \in CandidateSectors, NEW u \in CandidateSectors, t # u
                 PROVE  rank(t) # rank(u)
      OBVIOUS
    <3>0. t \in Marked /\ u \in Marked
      BY <1>8
    <3>1. t < u \/ u < t
      <4>1. t \in Nat /\ u \in Nat
        BY <1>2, <3>0
      <4> QED
        BY <4>1
    <3> QED
      BY <1>5, <3>0, <3>1
  <2>3. \A k \in upto : \E t \in CandidateSectors : f[t] = k
    <3> SUFFICES ASSUME NEW k \in upto PROVE \E t \in CandidateSectors : f[t] = k
      OBVIOUS
    <3>1. k \in 1 .. Cardinality(Marked) /\ k <= MaxCandidates
      BY <1>1, <1>5, <1>9
    <3>2. PICK t \in Marked : rank(t) = k
      BY <1>5, <3>1
    <3> QED
      BY <1>8, <3>1, <3>2
  <2>4. Cardinality(upto) = MaxCandidates
    BY <1>1, FS_Interval
  <2> HIDE DEF f, upto
  <2>5. Cardinality(upto) = Cardinality(CandidateSectors)
    BY <1>11, <2>1, <2>2, <2>3, SameNumber
  <2> QED
    BY <2>4, <2>5
<1> QED
  BY <1>10, <1>11, <1>12

(* A lost volume is carved within the medium, and one that lies in no known partition *)
(* is carved in full up to the span.                                                  *)
LEMMA CandidateSchedule ==
    ASSUME NEW s \in 0 .. LastSector, NEW known
    PROVE  LET schedule == Candidate(s, known).schedule IN
           /\ Candidate(s, known).sector = s
           /\ schedule \subseteq {<<s, Smaller(s + CandidateSpan, SectorCount)>>}
           /\ ~OverlapsPartition(s, known) =>
                  schedule = {<<s, Smaller(s + CandidateSpan, SectorCount)>>}
<1> DEFINE length == Smaller(SectorCount - s, CandidateSpan)
           schedule == Candidate(s, known).schedule
<1>1. s + length = Smaller(s + CandidateSpan, SectorCount)
  BY LayoutAssumption DEF Smaller, LastSector
<1>2. \/ schedule = {}
      \/ schedule = {<<s, s + length>>}
  BY DEF Candidate
<1>3. ~OverlapsPartition(s, known) => schedule = {<<s, s + length>>}
  BY DEF Candidate
<1>4. Candidate(s, known).sector = s
  BY DEF Candidate
<1> HIDE DEF length, schedule
<1> QED
  BY <1>1, <1>2, <1>3, <1>4 DEF schedule

LEMMA SpanIsWithin ==
    ASSUME NEW s \in 0 .. LastSector
    PROVE  LET r == <<s, Smaller(s + CandidateSpan, SectorCount)>> IN
           0 <= r[1] /\ r[1] < r[2] /\ r[2] <= SectorCount
BY LayoutAssumption DEF Smaller, LastSector

LEMMA EntriesAreEntries ==
    ASSUME LayoutInv
    PROVE  LET entries == ParseMmlsOutput.entries IN
           /\ AreEntries(entries) /\ DOMAIN entries = DOMAIN medium.rows
           /\ ParseMmlsOutput.overlap = HasOverlap(entries)
<1> DEFINE rows == medium.rows
           entries == ParseMmlsOutput.entries
<1>1. rows \in Seq(Rows)
  BY DEF LayoutInv
<1>2. DOMAIN rows = 1 .. Len(rows) /\ Len(rows) \in Nat
  BY <1>1, LenProperties
<1>3. entries = [i \in DOMAIN rows |-> Entry(rows[i])]
  BY DEF ParseMmlsOutput
<1>4. ParseMmlsOutput.overlap = HasOverlap(entries)
  BY DEF ParseMmlsOutput
<1>5. ASSUME NEW i \in DOMAIN rows
      PROVE  /\ i \in Nat /\ rows[i].start \in 0 .. LastSector /\ rows[i].end \in 0 .. LastSector
             /\ entries[i].start = rows[i].start /\ entries[i].end = rows[i].end
             /\ entries[i].allocated => rows[i].start <= rows[i].end
  <2> DEFINE row == rows[i]
  <2>1. i \in Nat /\ row \in Rows
    BY <1>1, <1>2, ElementOfSeq
  <2>2. row.start \in 0 .. LastSector /\ row.end \in 0 .. LastSector
    BY <2>1 DEF Rows
  <2>3. entries[i] = Entry(row)
    BY <1>3
  <2> HIDE DEF row, entries
  <2>4. Entry(row).start = row.start /\ Entry(row).end = row.end
    BY DEF Entry
  <2>5. Entry(row).allocated = (row.meta /\ ~(row.end < row.start \/ row.count <= 0) /\ ~row.free)
    BY DEF Entry
  <2>6. Entry(row).allocated => row.start <= row.end
    <3>1. Entry(row).allocated => ~(row.end < row.start)
      BY <2>5, Zenon
    <3>2. row.start \in Int /\ row.end \in Int
      BY <2>2
    <3> QED
      BY <3>1, <3>2
  <2> QED
    BY <2>1, <2>2, <2>3, <2>4, <2>6 DEF row
<1>6. DOMAIN entries = DOMAIN rows
  BY <1>3
<1> HIDE DEF entries, rows
<1>7. AreEntries(entries)
  BY <1>5, <1>6 DEF AreEntries
<1> QED
  BY <1>4, <1>6, <1>7 DEF entries, rows

(* A volume in no known partition is scheduled, or the limit was reached before it. *)
LEMMA LostVolumesHold ==
    ASSUME LayoutInv, NEW known
    PROVE  LET lost == LostVolumes(known)
               scheduled == UNION {c.schedule : c \in lost}
           IN /\ \A s \in Marked : ~OverlapsPartition(s, known) =>
                     \/ <<s, Smaller(s + CandidateSpan, SectorCount)>> \in scheduled
                     \/ Cardinality({c \in lost : c.sector < s}) = MaxCandidates
              /\ \A r \in scheduled : 0 <= r[1] /\ r[1] < r[2] /\ r[2] <= SectorCount
<1> DEFINE lost == LostVolumes(known)
           scheduled == UNION {c.schedule : c \in lost}
           span(s) == <<s, Smaller(s + CandidateSpan, SectorCount)>>
           candidates == {Candidate(s, known) : s \in CandidateSectors}
<1>1. CandidateSectors \in SUBSET (0 .. LastSector) /\ Marked \in SUBSET (0 .. LastSector)
  BY DEF CandidateSectors, Marked
<1>2. CASE CandidateSectors = {} /\ medium.encrypted
  <2>1. lost = {EncryptedMedium}
    BY <1>2 DEF LostVolumes
  <2>2. EncryptedMedium.schedule = {<<0, Smaller(SectorCount, CandidateSpan)>>}
    BY DEF EncryptedMedium
  <2>3. scheduled = {<<0, Smaller(SectorCount, CandidateSpan)>>}
    BY <2>1, <2>2
  <2>4. Marked = {}
    BY <1>2 DEF LayoutInv, Marked
  <2>5. 0 < Smaller(SectorCount, CandidateSpan) /\ Smaller(SectorCount, CandidateSpan) <= SectorCount
    BY LayoutAssumption DEF Smaller
  <2> HIDE DEF lost, scheduled
  <2> QED
    BY <2>3, <2>4, <2>5 DEF lost, scheduled
<1>3. CASE ~(CandidateSectors = {} /\ medium.encrypted)
  <2>1. lost = candidates
    BY <1>3, Zenon DEF LostVolumes
  <2>2. ASSUME NEW s \in CandidateSectors
        PROVE  /\ Candidate(s, known).sector = s
               /\ Candidate(s, known).schedule \subseteq {span(s)}
               /\ ~OverlapsPartition(s, known) => Candidate(s, known).schedule = {span(s)}
    BY <1>1, CandidateSchedule
  <2> HIDE DEF lost, span
  <2>3. ASSUME NEW s \in Marked, ~OverlapsPartition(s, known)
        PROVE  span(s) \in scheduled \/ Cardinality({c \in lost : c.sector < s}) = MaxCandidates
    <3>1. CASE s \in CandidateSectors
      <4>1. Candidate(s, known) \in lost /\ span(s) \in Candidate(s, known).schedule
        BY <2>1, <2>2, <2>3, <3>1
      <4> QED
        BY <4>1
    <3>2. CASE s \notin CandidateSectors
      <4>1. /\ \A t \in CandidateSectors : t < s
            /\ IsFiniteSet(CandidateSectors) /\ Cardinality(CandidateSectors) = MaxCandidates
        BY <3>2, LimitIsReached
      <4> DEFINE f == [t \in CandidateSectors |-> Candidate(t, known)]
      <4>2. f \in [CandidateSectors -> lost]
        BY <2>1
      <4>3. \A t, u \in CandidateSectors : f[t] = f[u] => t = u
        BY <2>2
      <4>4. \A c \in lost : \E t \in CandidateSectors : f[t] = c
        BY <2>1
      <4>5. \A c \in lost : c.sector < s
        BY <2>1, <2>2, <4>1
      <4>6. {c \in lost : c.sector < s} = lost
        BY <4>5
      <4> HIDE DEF f
      <4>7. Cardinality(lost) = Cardinality(CandidateSectors)
        BY <4>1, <4>2, <4>3, <4>4, SameNumber
      <4> QED
        BY <4>1, <4>6, <4>7
    <3> QED
      BY <3>1, <3>2
  <2>4. ASSUME NEW r \in scheduled
        PROVE  0 <= r[1] /\ r[1] < r[2] /\ r[2] <= SectorCount
    <3>1. PICK s \in CandidateSectors : r \in Candidate(s, known).schedule
      BY <2>1
    <3>2. r = span(s) /\ s \in 0 .. LastSector
      BY <1>1, <2>2, <3>1
    <3>3. 0 <= span(s)[1] /\ span(s)[1] < span(s)[2] /\ span(s)[2] <= SectorCount
      BY <3>2, SpanIsWithin DEF span
    <3> QED
      BY <3>2, <3>3
  <2> HIDE DEF scheduled
  <2> QED
    BY <2>3, <2>4 DEF lost, scheduled, span
<1> QED
  BY <1>2, <1>3

LEMMA LookAtMediumInv == LayoutInv /\ LookAtMedium => LayoutInv'
<1> SUFFICES ASSUME LayoutInv, LookAtMedium PROVE LayoutInv'
  OBVIOUS
<1> DEFINE table == ParseMmlsOutput
           entries == table.entries
           known == {entries[i] : i \in IF medium.every THEN DOMAIN entries
                                        ELSE Allocated(entries)}
           lost == LostVolumes(known)
           scheduled == UNION {c.schedule : c \in lost}
<1>1. medium' = medium
  BY DEF LookAtMedium
<1>2. /\ layout'.table = table /\ layout'.lost = lost /\ layout'.known = known
      /\ layout'.mode = PartitioningMode(table, lost)
  BY DEF LookAtMedium
<1>3. AreEntries(entries) /\ table.overlap = HasOverlap(entries)
  BY EntriesAreEntries
<1>4. /\ \A s \in Marked : ~OverlapsPartition(s, known) =>
             \/ <<s, Smaller(s + CandidateSpan, SectorCount)>> \in scheduled
             \/ Cardinality({c \in lost : c.sector < s}) = MaxCandidates
      /\ \A r \in scheduled : 0 <= r[1] /\ r[1] < r[2] /\ r[2] <= SectorCount
  BY LostVolumesHold
<1> HIDE DEF table, known, lost
<1>5. table.overlap <=>
          \E i, j \in DOMAIN entries : \E s \in 0 .. LastSector :
              /\ i < j /\ entries[i].allocated /\ entries[j].allocated
              /\ entries[i].start <= s /\ s <= entries[i].end
              /\ entries[j].start <= s /\ s <= entries[j].end
  BY <1>3, OverlapIsSharedSector
<1>6. \A s \in 0 .. LastSector :
          /\ medium.marks[s].signature # "none"
          /\ ~\E e \in known : e.start <= s /\ s < e.start + e.count
          => \/ <<s, Smaller(s + CandidateSpan, SectorCount)>> \in scheduled
             \/ Cardinality({c \in lost : c.sector < s}) = MaxCandidates
  BY <1>4 DEF Marked, OverlapsPartition
<1>7. PartitioningMode(table, lost) = "partitioned" =>
          \E i \in DOMAIN entries : \E s \in 0 .. LastSector :
              entries[i].start <= s /\ s <= entries[i].end
  <2> SUFFICES ASSUME PartitioningMode(table, lost) = "partitioned"
               PROVE  \E i \in DOMAIN entries : \E s \in 0 .. LastSector :
                          entries[i].start <= s /\ s <= entries[i].end
    OBVIOUS
  <2>1. Allocated(entries) # {}
    BY DEF PartitioningMode
  <2>2. PICK i \in DOMAIN entries : entries[i].allocated
    BY <2>1 DEF Allocated
  <2>3. /\ entries[i].start \in 0 .. LastSector /\ entries[i].start <= entries[i].end
    BY <1>3, <2>2 DEF AreEntries
  <2>4. entries[i].start <= entries[i].start
    BY <2>3, LayoutAssumption DEF LastSector
  <2> QED
    BY <2>3, <2>4
<1>8. PartitioningMode(table, lost) \in {"partitionless_superfloppy", "lost_partition"}
          => lost # {}
  BY DEF PartitioningMode
<1>9. VolumesFound'
  BY <1>1, <1>2, <1>4, <1>5, <1>6, <1>7, <1>8 DEF VolumesFound
<1> QED
  BY <1>1, <1>9 DEF LayoutInv

(* For any partition table and any signatures on a medium of any size: an overlap is  *)
(* reported exactly when two partitions share a sector, a volume outside the known     *)
(* partitions is carved unless the limit was reached before it, within the medium, and *)
(* the layout is not called partitioned without a partition (parse_mmls_output,        *)
(* detect_lost_volume_candidates, determine_partitioning_mode).                        *)
THEOREM VolumesAlwaysFound == LayoutSpec => []VolumesFound
<1>1. LayoutInit => LayoutInv
  <2> SUFFICES ASSUME LayoutInit PROVE LayoutInv
    OBVIOUS
  <2>1. PICK n \in 0 .. MaxRows, table \in BOOLEAN, every \in BOOLEAN, encrypted \in BOOLEAN :
        \E rows \in [1 .. n -> TableRows], marks \in [0 .. LastSector -> SectorMarks] :
           /\ n > 0 => table
           /\ encrypted => \A k \in DOMAIN marks : marks[k].signature = "none"
           /\ medium = [table |-> table, every |-> every, encrypted |-> encrypted,
                        rows |-> rows, marks |-> marks]
    BY DEF LayoutInit
  <2>2. PICK rows \in [1 .. n -> TableRows], marks \in [0 .. LastSector -> SectorMarks] :
           /\ encrypted => \A k \in DOMAIN marks : marks[k].signature = "none"
           /\ medium = [table |-> table, every |-> every, encrypted |-> encrypted,
                        rows |-> rows, marks |-> marks]
    BY <2>1
  <2>3. n \in Nat
    BY LayoutAssumption
  <2>4. \A m \in SectorMarks : m.signature \in {"none", "ntfs", "fat"}
    BY LayoutAssumption
  <2>5. rows \in Seq(Rows)
    <3>1. rows \in [1 .. n -> Rows]
      BY LayoutAssumption
    <3> QED
      BY <2>3, <3>1
  <2>6. medium.rows = rows /\ medium.marks = marks /\ medium.encrypted = encrypted
    BY <2>2
  <2>7. \A s \in 0 .. LastSector : medium.marks[s].signature \in {"none", "ntfs", "fat"}
    BY <2>4, <2>6
  <2>8. medium.encrypted => \A s \in 0 .. LastSector : medium.marks[s].signature = "none"
    BY <2>2, <2>6
  <2>9. VolumesFound
    <3>1. ~layout.done
      BY DEF LayoutInit, NotLooked
    <3> QED
      BY <3>1 DEF VolumesFound
  <2> QED
    BY <2>5, <2>6, <2>7, <2>8, <2>9 DEF LayoutInv
<1>2. LayoutInv /\ [LookAtMedium]_layoutVars => LayoutInv'
  <2>1. LayoutInv /\ UNCHANGED layoutVars => LayoutInv'
    BY DEF LayoutInv, VolumesFound, layoutVars
  <2> QED
    BY <2>1, LookAtMediumInv
<1>3. LayoutInv => VolumesFound
  BY DEF LayoutInv
<1> QED
  BY <1>1, <1>2, <1>3, PTL DEF LayoutSpec

-----------------------------------------------------------------------------
(* Entries of a volume: scanner/filesystem_enumeration.py,                  *)
(* entry_normalization.py and ntfs_entries.py                               *)

LEMMA MinIn ==
    ASSUME NEW S \in SUBSET Nat, S # {}
    PROVE  Min(S) \in S /\ \A j \in S : Min(S) <= j
<1>1. \E x \in S : \A y \in S : x <= y
  BY LeastNumber
<1> QED
  BY <1>1 DEF Min

LEMMA MaxIn ==
    ASSUME NEW n \in Nat, NEW S \in SUBSET (1 .. n), S # {}
    PROVE  Max(S) \in S /\ \A j \in S : j <= Max(S)
<1> DEFINE T == {n - x : x \in S}
<1>0. \A x \in S : x \in Nat /\ n - x \in Nat
  <2> SUFFICES ASSUME NEW x \in S PROVE x \in Nat /\ n - x \in Nat
    OBVIOUS
  <2>1. x \in 1 .. n
    OBVIOUS
  <2> QED
    BY <2>1
<1>1. T \in SUBSET Nat /\ T # {}
  BY <1>0
<1>2. PICK t \in T : \A u \in T : t <= u
  <2> HIDE DEF T
  <2> QED
    BY <1>1, LeastNumber
<1>3. PICK x \in S : t = n - x
  BY <1>2
<1>4. \A y \in S : x >= y
  <2> SUFFICES ASSUME NEW y \in S PROVE x >= y
    OBVIOUS
  <2>1. n - x <= n - y
    BY <1>2, <1>3
  <2>2. x \in Nat /\ y \in Nat
    BY <1>0
  <2> QED
    BY <2>1, <2>2
<1>5. Max(S) \in S /\ \A y \in S : Max(S) >= y
  BY <1>3, <1>4 DEF Max
<1> QED
  BY <1>0, <1>5

(* What parse_fls_output makes of the lines: entries with object ids, all of them *)
(* unless it warns, below the entries listed before them.                         *)
AreListed(entries, n) ==
    /\ n \in Nat /\ DOMAIN entries = 1 .. n
    /\ \A i \in 1 .. n : /\ entries[i].oid \in ObjectIds
                         /\ entries[i].parent = ParentId(entries, i)

LEMMA FlsIsListed ==
    ASSUME NEW lines \in Seq(FlsLines)
    PROVE  \E n \in Nat :
               /\ AreListed(ParseFlsOutput(lines).entries, n)
               /\ \/ n = Cardinality(Filled(lines))
                  \/ ParseFlsOutput(lines).unparsed \/ ParseFlsOutput(lines).truncated
<1> DEFINE filled == Filled(lines)
           bounded == BoundedLines(lines)
           parsed == {i \in bounded : lines[i].kind = "entry"}
           n == Cardinality(parsed)
           named == [k \in 1 .. n |-> lines[Nth(parsed, k)]]
           entries == [i \in DOMAIN named |-> [path |-> named[i].path, oid |-> named[i].oid,
                                               parent |-> ParentId(named, i)]]
<1>1. Len(lines) \in Nat /\ DOMAIN lines = 1 .. Len(lines)
  BY LenProperties
<1>2. \A i \in DOMAIN lines : lines[i] \in FlsLines
  BY <1>1, ElementOfSeq
<1>3. filled \in SUBSET (1 .. Len(lines)) /\ bounded \in SUBSET filled /\ parsed \in SUBSET bounded
  BY <1>1 DEF Filled, BoundedLines
<1>4. IsFiniteSet(1 .. Len(lines)) /\ Cardinality(1 .. Len(lines)) = Len(lines)
  BY <1>1, FS_Interval
<1>5. IsFiniteSet(filled) /\ Cardinality(filled) <= Len(lines) /\ Cardinality(filled) \in Nat
  BY <1>3, <1>4, FS_Subset, FS_CardinalityType
<1>6. parsed \in SUBSET filled /\ parsed \in SUBSET Nat
  BY <1>3
<1>7. IsFiniteSet(parsed) /\ n \in Nat
  <2> HIDE DEF filled, parsed
  <2> QED
    BY <1>5, <1>6, FS_Subset, FS_CardinalityType
<1>8. ASSUME NEW k \in 1 .. n PROVE Nth(parsed, k) \in parsed
  <2> HIDE DEF parsed
  <2>1. \E i \in parsed : Cardinality(UpTo(parsed, i)) = k
    BY <1>6, <1>7, CountedOff
  <2>2. \E i \in parsed : RankIn(parsed, i) = k
    BY <2>1, Zenon DEF UpTo, RankIn
  <2> QED
    BY <2>2 DEF Nth
<1>9. ASSUME NEW k \in 1 .. n PROVE named[k].oid \in ObjectIds
  <2>1. Nth(parsed, k) \in parsed
    BY <1>8
  <2>2. lines[Nth(parsed, k)] \in FlsLines /\ lines[Nth(parsed, k)].kind = "entry"
    BY <1>2, <1>3, <2>1, <1>1
  <2>3. lines[Nth(parsed, k)].oid \in ObjectIds
    BY <2>2 DEF FlsLines
  <2> QED
    BY <2>3
<1>10. ASSUME NEW i \in 1 .. n
       PROVE  /\ entries[i].oid = named[i].oid /\ entries[i].path = named[i].path
              /\ entries[i].parent = ParentId(named, i)
  <2> HIDE DEF n
  <2>1. i \in DOMAIN named
    OBVIOUS
  <2> HIDE DEF named
  <2> QED
    BY <2>1
<1>11. DOMAIN entries = 1 .. n
  OBVIOUS
<1> HIDE DEF named, entries
<1>12. ASSUME NEW i \in 1 .. n PROVE ParentId(entries, i) = ParentId(named, i)
  <2> DEFINE above(s) == {j \in 1 .. i - 1 : /\ Len(s[i].path) > 1
                                             /\ s[j].path = Front(s[i].path)}
  <2>1. \A j \in 1 .. i - 1 : j \in 1 .. n
    BY <1>7
  <2>2. above(entries) = above(named)
    BY <1>10, <2>1
  <2>3. above(named) # {} => Max(above(named)) \in 1 .. n
    <3> SUFFICES ASSUME above(named) # {} PROVE Max(above(named)) \in 1 .. n
      OBVIOUS
    <3>1. i - 1 \in Nat /\ above(named) \in SUBSET (1 .. i - 1)
      BY <1>7
    <3> HIDE DEF above
    <3>2. Max(above(named)) \in above(named)
      BY <3>1, MaxIn
    <3> QED
      BY <2>1, <3>1, <3>2
  <2>4. \A s : ParentId(s, i) = IF above(s) = {} THEN NoEntry ELSE s[Max(above(s))].oid
    BY Zenon DEF ParentId
  <2> HIDE DEF above
  <2> QED
    BY <1>10, <2>2, <2>3, <2>4
<1>13. AreListed(entries, n)
  BY <1>7, <1>9, <1>10, <1>11, <1>12 DEF AreListed
<1>14. /\ ParseFlsOutput(lines).entries = entries
       /\ ParseFlsOutput(lines).truncated = (Len(lines) > LinesLimit)
       /\ ParseFlsOutput(lines).unparsed = \E i \in bounded : lines[i].kind = "noise"
  BY DEF ParseFlsOutput, entries, named
<1>15. ASSUME ~ParseFlsOutput(lines).unparsed, ~ParseFlsOutput(lines).truncated
       PROVE  n = Cardinality(filled)
  <2>1. Len(lines) <= LinesLimit /\ LinesLimit \in Nat
    <3>1. ~(Len(lines) > LinesLimit)
      BY <1>14, <1>15, Zenon
    <3>2. LinesLimit \in Nat
      BY EntryAssumption
    <3> QED
      BY <1>1, <3>1, <3>2
  <2>2. ASSUME NEW i \in filled PROVE i \in bounded
    <3>1. {j \in filled : j <= i} \in SUBSET filled
      OBVIOUS
    <3> HIDE DEF filled
    <3>2. RankIn(filled, i) <= Cardinality(filled) /\ RankIn(filled, i) \in Nat
      BY <1>5, <3>1, FS_Subset, FS_CardinalityType DEF RankIn
    <3>3. RankIn(filled, i) <= LinesLimit
      BY <1>1, <1>5, <2>1, <3>2
    <3> QED
      BY <3>3 DEF BoundedLines, filled
  <2>3. ASSUME NEW i \in bounded PROVE i \in parsed
    <3>1. lines[i].kind # "blank"
      BY DEF BoundedLines, Filled
    <3>2. lines[i].kind # "noise"
      BY <1>14, <1>15
    <3>3. lines[i] \in FlsLines
      BY <1>1, <1>2, <1>3
    <3>4. lines[i].kind \in {"blank", "noise", "entry"}
      BY <3>3 DEF FlsLines
    <3> QED
      BY <3>1, <3>2, <3>4
  <2>4. parsed = filled
    BY <1>6, <2>2, <2>3
  <2> QED
    BY <2>4
<1> HIDE DEF n
<1> QED
  BY <1>7, <1>13, <1>14, <1>15

(* The entries listed before at the path of an entry's directory. *)
Above(entries, i) ==
    {j \in 1 .. i - 1 : Len(entries[i].path) > 1 /\ entries[j].path = Front(entries[i].path)}

(* An entry hangs below the last one at its directory's path, and is never an orphan. *)
LEMMA NormalizedIsPlaced ==
    ASSUME NEW entries, NEW n \in Nat, AreListed(entries, n), NEW i \in 1 .. n
    PROVE  LET e == NormalizeEntries(entries)[i] IN
           /\ e.path = entries[i].path /\ e.oid = entries[i].oid /\ e.oid \in ObjectIds
           /\ e.parentEntry = NoEntry <=> Above(entries, i) = {}
           /\ Above(entries, i) # {} => e.parentEntry = entries[Max(Above(entries, i))].oid
           /\ ~e.orphan
<1> DEFINE e == NormalizeEntries(entries)[i]
           above == Above(entries, i)
           parent == entries[i].parent
           known == {j \in 1 .. i - 1 : entries[j].oid = parent}
<1>1. /\ DOMAIN entries = 1 .. n /\ parent = ParentId(entries, i)
      /\ \A j \in 1 .. n : entries[j].oid \in ObjectIds
  BY DEF AreListed
<1>2. /\ e.path = entries[i].path /\ e.oid = entries[i].oid
      /\ e.parentEntry = IF known = {} THEN NoEntry ELSE entries[Max(known)].oid
  BY <1>1 DEF NormalizeEntries
<1>3. e.orphan = (parent # NoEntry /\ known = {})
  BY <1>1 DEF NormalizeEntries
<1>4. parent = IF above = {} THEN NoEntry ELSE entries[Max(above)].oid
  BY <1>1, Zenon DEF ParentId, Above
<1>5. NoEntry \notin ObjectIds
  BY EntryAssumption
<1>6. i - 1 \in Nat /\ \A j \in 1 .. i - 1 : j \in 1 .. n
  OBVIOUS
<1>7. above \in SUBSET (1 .. i - 1) /\ known \in SUBSET (1 .. i - 1)
  BY DEF Above
<1>8. \A j \in known : entries[j].oid = parent
  OBVIOUS
<1>9. \A j \in 1 .. i - 1 : entries[j].oid = parent => j \in known
  OBVIOUS
<1> HIDE DEF e, above, known, parent
<1>10. CASE above = {}
  <2>1. parent = NoEntry
    BY <1>4, <1>10
  <2>2. known = {}
    BY <1>1, <1>5, <1>6, <1>7, <1>8, <2>1
  <2>3. e.parentEntry = NoEntry /\ ~e.orphan
    BY <1>2, <1>3, <2>1, <2>2
  <2> QED
    BY <1>1, <1>2, <1>10, <2>3 DEF e, above
<1>11. CASE above # {}
  <2>1. Max(above) \in above
    BY <1>6, <1>7, <1>11, MaxIn
  <2>2. parent = entries[Max(above)].oid
    BY <1>4, <1>11
  <2>3. Max(above) \in known
    BY <1>7, <1>9, <2>1, <2>2
  <2>4. Max(known) \in known
    BY <1>6, <1>7, <2>3, MaxIn
  <2>5. e.parentEntry = parent
    BY <1>2, <1>8, <2>3, <2>4
  <2>6. parent \in ObjectIds
    BY <1>1, <1>6, <1>7, <2>1, <2>2
  <2>7. ~e.orphan
    BY <1>3, <2>3
  <2> QED
    BY <1>1, <1>2, <1>5, <1>11, <2>2, <2>5, <2>6, <2>7 DEF e, above
<1> QED
  BY <1>10, <1>11

(* A stream belongs to another entry of its file, which is no stream. *)
LEMMA StreamIsOfItsFile ==
    ASSUME NEW entries, NEW n \in Nat, DOMAIN entries = 1 .. n, NEW i \in 1 .. n,
           StreamParent(entries, entries[i]) # NoEntry
    PROVE  \E j \in 1 .. n : /\ ~entries[j].stream /\ i # j
                             /\ entries[j].oid = StreamParent(entries, entries[i])
                             /\ entries[j].oid[1] = entries[i].oid[1]
<1> DEFINE primary == {j \in DOMAIN entries : /\ ~entries[j].stream
                                              /\ MftReference(entries[j]) = MftReference(entries[i])}
<1>1. /\ entries[i].stream /\ primary # {}
      /\ StreamParent(entries, entries[i]) = entries[Min(primary)].oid
  BY Zenon DEF StreamParent
<1>2. primary \in SUBSET Nat
  OBVIOUS
<1>3. \A j \in primary : /\ j \in 1 .. n /\ ~entries[j].stream
                         /\ entries[j].oid[1] = entries[i].oid[1]
  BY DEF MftReference
<1> HIDE DEF primary
<1>4. Min(primary) \in primary
  BY <1>1, <1>2, MinIn
<1> QED
  BY <1>1, <1>3, <1>4

LEMMA EnumerateInv == EntryInv /\ EnumerateFilesystem => EntryInv'
<1> SUFFICES ASSUME EntryInv, EnumerateFilesystem PROVE EntryInv'
  OBVIOUS
<1>1. /\ listing' = listing /\ deleted' = deleted /\ recovered' = recovered
      /\ listing # NotAsked
  BY DEF EnumerateFilesystem
<1>2. IntactIsWhole'
  <2>1. IntactIsWhole
    BY DEF EntryInv, EntriesHold
  <2> QED
    BY <1>1, <2>1 DEF IntactIsWhole
<1>3. EntriesPlaced'
  <2> SUFFICES ASSUME listing.supported PROVE EntriesPlaced'
    BY <1>1 DEF EntriesPlaced
  <2> DEFINE lines == listing.lines
             fls == ParseFlsOutput(lines)
             found == fls.entries
             placed == NormalizeEntries(found)
             seen == listed'
             entries == seen.entries
  <2>1. lines \in Seq(FlsLines)
    BY <1>1 DEF EntryInv
  <2>2. /\ entries = EnrichNtfsEntries(placed)
        /\ seen.unparsed = fls.unparsed /\ seen.truncated = fls.truncated
    BY DEF EnumerateFilesystem
  <2>3. PICK n \in Nat :
            /\ AreListed(found, n)
            /\ n = Cardinality(Filled(lines)) \/ fls.unparsed \/ fls.truncated
    BY <2>1, FlsIsListed
  <2>4. DOMAIN found = 1 .. n
    BY <2>3 DEF AreListed
  <2>5. ASSUME NEW i \in 1 .. n
        PROVE  /\ placed[i].path = found[i].path /\ placed[i].oid = found[i].oid
               /\ placed[i].parentEntry = NoEntry <=> Above(found, i) = {}
               /\ Above(found, i) # {} => placed[i].parentEntry = found[Max(Above(found, i))].oid
               /\ ~placed[i].orphan
    BY <2>3, NormalizedIsPlaced
  <2>6. DOMAIN placed = 1 .. n
    BY <2>4 DEF NormalizeEntries
  <2> HIDE DEF placed, entries, seen
  <2>7. DOMAIN entries = 1 .. n /\ \A i \in 1 .. n :
            entries[i].entry = placed[i] /\ entries[i].streamOf = StreamParent(placed, placed[i])
    BY <2>2, <2>6 DEF EnrichNtfsEntries
  <2>8. Len(entries) = n
    <3>1. entries = [i \in 1 .. n |-> entries[i]]
      <4>1. entries = [i \in DOMAIN placed |-> entries[i]]
        BY <2>2 DEF EnrichNtfsEntries
      <4> QED
        BY <2>6, <4>1
    <3> DEFINE V == {entries[i] : i \in 1 .. n}
    <3>2. entries \in [1 .. n -> V]
      BY <3>1
    <3> HIDE DEF V
    <3>3. entries \in Seq(V)
      BY <2>3, <3>2
    <3>4. Len(entries) \in Nat /\ DOMAIN entries = 1 .. Len(entries)
      BY <3>3, LenProperties
    <3> QED
      BY <2>3, <2>7, <3>4
  <2> HIDE DEF found, fls
  <2>9. \A i \in 1 .. n : \A j \in 1 .. i - 1 : j \in 1 .. n
    BY <2>3
  <2>10. ASSUME NEW i \in 1 .. n
         PROVE  {j \in 1 .. i - 1 : /\ Len(entries[i].entry.path) > 1
                                    /\ entries[j].entry.path = Front(entries[i].entry.path)}
                   = Above(found, i)
    <3>1. \A j \in 1 .. n : entries[j].entry.path = found[j].path
      BY <2>5, <2>7
    <3>2. \A j \in 1 .. i - 1 : entries[j].entry.path = found[j].path
      BY <2>9, <3>1
    <3>3. entries[i].entry.path = found[i].path
      BY <3>1
    <3> QED
      BY <3>2, <3>3 DEF Above
  <2>11. ASSUME NEW i \in 1 .. n, NEW j \in Above(found, i),
                \A k \in Above(found, i) : k <= j
         PROVE  entries[i].entry.parentEntry = entries[j].entry.oid
    <3>1. i - 1 \in Nat /\ Above(found, i) \in SUBSET (1 .. i - 1)
      BY <2>3 DEF Above
    <3>2. Max(Above(found, i)) \in Above(found, i) /\ j <= Max(Above(found, i))
      BY <3>1, MaxIn
    <3>3. j = Max(Above(found, i)) /\ j \in 1 .. n
      <4>1. Max(Above(found, i)) <= j
        BY <2>11, <3>2
      <4>2. Max(Above(found, i)) \in 1 .. i - 1 /\ j \in 1 .. i - 1
        BY <3>1, <3>2
      <4> QED
        BY <2>9, <3>1, <3>2, <4>1, <4>2
    <3> QED
      BY <2>5, <2>7, <3>3
  <2>12. ASSUME NEW i \in 1 .. n, entries[i].streamOf # NoEntry
         PROVE  \E j \in 1 .. n : /\ ~entries[j].entry.stream /\ i # j
                                  /\ entries[j].entry.oid = entries[i].streamOf
                                  /\ entries[i].streamOf[1] = entries[i].entry.oid[1]
    <3>1. PICK j \in 1 .. n : /\ ~placed[j].stream /\ i # j
                              /\ placed[j].oid = StreamParent(placed, placed[i])
                              /\ placed[j].oid[1] = placed[i].oid[1]
      BY <2>6, <2>7, <2>12, StreamIsOfItsFile
    <3> QED
      BY <2>7, <3>1
  <2>13. {i \in DOMAIN lines : lines[i].kind # "blank"} = Filled(lines)
    BY DEF Filled
  <2>14. ASSUME NEW i \in 1 .. n
         PROVE  ~entries[i].entry.orphan
                /\ (entries[i].entry.parentEntry = NoEntry <=> Above(found, i) = {})
    BY <2>5, <2>7
  <2>15. Len(entries) = Cardinality(Filled(lines)) \/ fls.unparsed \/ fls.truncated
    BY <2>3, <2>8
  <2> HIDE DEF lines
  <2>16. lines = listing'.lines
    BY <1>1 DEF lines
  <2> DEFINE above(i) == {j \in 1 .. i - 1 : /\ Len(entries[i].entry.path) > 1
                                            /\ entries[j].entry.path = Front(entries[i].entry.path)}
  <2>17. \A i \in DOMAIN entries :
             /\ entries[i].entry.parentEntry = NoEntry <=> above(i) = {}
             /\ \A j \in above(i) : (\A k \in above(i) : k <= j)
                    => entries[i].entry.parentEntry = entries[j].entry.oid
             /\ ~entries[i].entry.orphan
    <3> SUFFICES ASSUME NEW i \in DOMAIN entries
                 PROVE  /\ entries[i].entry.parentEntry = NoEntry <=> above(i) = {}
                        /\ \A j \in above(i) : (\A k \in above(i) : k <= j)
                               => entries[i].entry.parentEntry = entries[j].entry.oid
                        /\ ~entries[i].entry.orphan
      OBVIOUS
    <3>1. i \in 1 .. n
      BY <2>7
    <3>2. above(i) = Above(found, i)
      BY <2>10, <3>1
    <3> HIDE DEF above
    <3> QED
      BY <2>11, <2>14, <3>1, <3>2
  <2>18. \A i \in DOMAIN entries : entries[i].streamOf # NoEntry =>
             \E j \in DOMAIN entries : /\ ~entries[j].entry.stream /\ i # j
                                       /\ entries[j].entry.oid = entries[i].streamOf
                                       /\ entries[i].streamOf[1] = entries[i].entry.oid[1]
    BY <2>7, <2>12
  <2>19. ArePlaced(lines, seen)
    <3>1. Len(entries) = Cardinality(Filled(lines)) \/ seen.unparsed \/ seen.truncated
      BY <2>2, <2>15
    <3> QED
      BY <2>17, <2>18, <3>1, Zenon DEF ArePlaced, Filled, entries
  <2> QED
    BY <2>16, <2>19 DEF EntriesPlaced, seen
<1> QED
  BY <1>1, <1>2, <1>3 DEF EntryInv, EntriesHold

LEMMA ProductGrows ==
    ASSUME NEW i \in Nat, NEW j \in Nat, NEW c \in Nat, i <= j
    PROVE  /\ i * c \in Nat /\ j * c \in Nat /\ i * c <= j * c
           /\ (i - 1) * c = i * c - c
<1>1. PICK d \in Nat : j = i + d
  <2>1. j - i \in Nat /\ j = i + (j - i)
    OBVIOUS
  <2> QED
    BY <2>1
<1>2. i * c \in Nat /\ d * c \in Nat
  OBVIOUS
<1>3. (i + d) * c = i * c + d * c
  OBVIOUS
<1>4. (i - 1) * c = i * c - c
  OBVIOUS
<1> QED
  BY <1>1, <1>2, <1>3, <1>4

LEMMA ProductStrict ==
    ASSUME NEW c \in Nat \ {0}, NEW k \in Nat, NEW l \in Nat, k < l
    PROVE  k * c \in Nat /\ l * c \in Nat /\ k * c + c <= l * c
<1>1. c \in Nat /\ k + 1 \in Nat /\ k + 1 <= l
  OBVIOUS
<1>2. (k + 1) * c <= l * c /\ (k + 1) * c \in Nat /\ l * c \in Nat
  BY ONLY <1>1, ProductGrows, l \in Nat
<1>3. (k + 1) * c = k * c + c /\ k * c \in Nat
  OBVIOUS
<1> QED
  BY <1>2, <1>3

(* Every multiple of a unit up to a bound comes before a number or reaches it. *)
LEMMA UnitOf ==
    ASSUME NEW c \in Nat \ {0}, NEW m \in Nat, NEW x \in Nat, 1 <= x, x <= m * c
    PROVE  \E i \in 1 .. m : (i - 1) * c < x /\ x <= i * c
<1> DEFINE T == {i \in 0 .. m : x <= i * c}
<1>1. T \in SUBSET Nat /\ m \in T
  OBVIOUS
<1>2. PICK i \in T : \A j \in T : i <= j
  <2> HIDE DEF T
  <2> QED
    BY <1>1, LeastNumber
<1>3. i \in Nat /\ i <= m /\ x <= i * c
  BY <1>2
<1>4. i # 0
  <2>1. 0 * c = 0
    OBVIOUS
  <2> QED
    BY <1>3, <2>1
<1>5. i - 1 \in 0 .. m /\ i - 1 \notin T
  BY <1>2, <1>3, <1>4
<1>6. ~(x <= (i - 1) * c) /\ (i - 1) * c \in Int
  BY <1>3, <1>5
<1>7. (i - 1) * c < x
  BY <1>6
<1>8. i \in 1 .. m
  BY <1>3, <1>4
<1> QED
  BY <1>3, <1>7, <1>8

(* The extents of the clusters of a file hold the bytes of its size that there are  *)
(* clusters for: byte b of cluster i is byte (i - 1) * ClusterBytes + b of the file. *)
LEMMA ExtentBytes ==
    ASSUME NEW clusters, NEW m \in Nat, DOMAIN clusters = 1 .. m, NEW size \in Nat
    PROVE  SumExtentLengths(ClusterExtents(clusters, size)) = LowerOf(size, m * ClusterBytes)
<1> DEFINE c == ClusterBytes
           extents == ClusterExtents(clusters, size)
           T == BytesOf(extents)
           t == LowerOf(size, m * c)
           S == 1 .. t
           at(p) == (p[1] - 1) * c + p[2]
<1>1. c \in Nat \ {0} /\ NoEntry \notin Int
  BY EntryAssumption
<1>2. /\ DOMAIN extents = {k \in 1 .. m : size - (k - 1) * c > 0}
      /\ \A i \in DOMAIN extents : extents[i].length = LowerOf(c, size - (i - 1) * c)
  <2>1. size # NoEntry
    BY <1>1
  <2> QED
    BY <2>1 DEF ClusterExtents, Remaining
<1> HIDE DEF extents, c
<1>3. ASSUME NEW i \in Nat, NEW j \in Nat, i <= j
      PROVE  i * c \in Nat /\ j * c \in Nat /\ i * c <= j * c /\ (i - 1) * c = i * c - c
  <2>1. c \in Nat
    BY <1>1
  <2> QED
    BY <1>3, <2>1, ProductGrows
<1>4. m * c \in Nat
  BY <1>3
<1>5. t \in Nat /\ t <= size /\ t <= m * c /\ (t = size \/ t = m * c)
  BY <1>4 DEF LowerOf
<1>6. \A p : p \in T <=> \E i \in DOMAIN extents : p \in {i} \X (1 .. extents[i].length)
  BY Zenon DEF BytesOf
<1> HIDE DEF T, t
<1>7. ASSUME NEW p \in T
      PROVE  \E i \in 1 .. m, b \in Nat :
                 /\ p = <<i, b>> /\ 1 <= b /\ b <= c
                 /\ (i - 1) * c = i * c - c /\ i * c \in Nat
                 /\ (i - 1) * c + b \in 1 .. t
  <2>1. PICK i \in DOMAIN extents : p \in {i} \X (1 .. extents[i].length)
    BY <1>6
  <2>2. i \in 1 .. m /\ size - (i - 1) * c > 0
        /\ extents[i].length = LowerOf(c, size - (i - 1) * c)
    BY <1>2
  <2>3. i * c \in Nat /\ (i - 1) * c = i * c - c /\ i * c <= m * c
    BY <1>3, <2>2
  <2>4. 1 * c <= i * c
    BY <1>3, <2>2
  <2>5. 1 * c = c
    BY <1>1
  <2> DEFINE d == (i - 1) * c
  <2>6. d \in Nat /\ d = i * c - c /\ size - d > 0 /\ extents[i].length = LowerOf(c, size - d)
    BY <1>1, <2>2, <2>3, <2>4, <2>5
  <2> HIDE DEF d
  <2>7. /\ extents[i].length \in Nat /\ extents[i].length <= c
        /\ extents[i].length <= size - d
    BY <1>1, <2>6 DEF LowerOf
  <2>8. PICK b \in 1 .. extents[i].length : p = <<i, b>>
    BY <2>1
  <2>9. b \in Nat /\ 1 <= b /\ b <= c /\ b <= size - d
    BY <1>1, <2>6, <2>7, <2>8
  <2>10. d + b \in Nat /\ d + b <= size /\ d + b <= m * c /\ 1 <= d + b
    BY <1>1, <1>4, <2>3, <2>6, <2>9
  <2>11. d + b \in 1 .. t
    BY <1>5, <2>10
  <2> QED
    BY <2>2, <2>3, <2>8, <2>9, <2>11 DEF d
<1>8. ASSUME NEW x \in S
      PROVE  \E p \in T : at(p) = x
  <2>1. x \in Nat /\ 1 <= x /\ x <= size /\ x <= m * c
    BY <1>4, <1>5
  <2>2. PICK i \in 1 .. m : (i - 1) * c < x /\ x <= i * c
    BY <1>1, <2>1, UnitOf
  <2>3. i * c \in Nat /\ (i - 1) * c = i * c - c /\ 1 * c <= i * c
    BY <1>3, <2>2
  <2>4. 1 * c = c
    BY <1>1
  <2> DEFINE d == (i - 1) * c
             b == x - d
  <2>5. d \in Nat /\ d = i * c - c /\ d < x /\ x <= i * c
    BY <1>1, <2>2, <2>3, <2>4
  <2>6. size - d > 0
    BY <2>1, <2>5
  <2>7. i \in DOMAIN extents /\ extents[i].length = LowerOf(c, size - d)
    BY <1>2, <2>6
  <2> HIDE DEF d
  <2>8. b \in 1 .. extents[i].length
    BY <1>1, <2>1, <2>3, <2>5, <2>6, <2>7 DEF LowerOf
  <2> HIDE DEF b
  <2>9. <<i, b>> \in {i} \X (1 .. extents[i].length)
    BY <2>8
  <2>10. <<i, b>> \in T
    BY <1>6, <2>7, <2>9
  <2>11. at(<<i, b>>) = x
    BY <2>1, <2>5 DEF b, d
  <2> QED
    BY <2>10, <2>11
<1>9. ASSUME NEW p \in T, NEW q \in T, at(p) = at(q)
      PROVE  p = q
  <2>1. PICK i \in 1 .. m, b \in Nat : /\ p = <<i, b>> /\ 1 <= b /\ b <= c
                                       /\ (i - 1) * c = i * c - c /\ i * c \in Nat
    BY <1>7
  <2>2. PICK j \in 1 .. m, d \in Nat : /\ q = <<j, d>> /\ 1 <= d /\ d <= c
                                       /\ (j - 1) * c = j * c - c /\ j * c \in Nat
    BY <1>7
  <2>3. at(p) = i * c - c + b /\ at(q) = j * c - c + d
    BY <2>1, <2>2
  <2>4. i * c + b = j * c + d
    BY <1>1, <1>9, <2>1, <2>2, <2>3
  <2>5. ASSUME NEW k \in Nat, NEW l \in Nat, k < l PROVE k * c + c <= l * c
    BY <1>1, <2>5, ProductStrict
  <2>6. ~(i < j)
    BY <1>1, <2>1, <2>2, <2>4, <2>5
  <2>7. ~(j < i)
    BY <1>1, <2>1, <2>2, <2>4, <2>5
  <2>8. i = j
    BY <2>6, <2>7
  <2>9. b = d
    BY <2>1, <2>2, <2>4, <2>8
  <2> QED
    BY <2>1, <2>2, <2>8, <2>9
<1>10. ASSUME NEW p \in T PROVE at(p) \in S
  BY <1>7
<1> DEFINE f == [x \in S |-> CHOOSE p \in T : at(p) = x]
<1> HIDE DEF at, S
<1>11. f \in [S -> T] /\ \A x \in S : at(f[x]) = x
  BY <1>8
<1>12. \A x, y \in S : f[x] = f[y] => x = y
  BY <1>11
<1>13. \A p \in T : \E x \in S : f[x] = p
  BY <1>9, <1>10, <1>11
<1> HIDE DEF f
<1>14. IsFiniteSet(S) /\ Cardinality(S) = t
  BY <1>5, FS_Interval DEF S
<1>15. Cardinality(T) = t
  BY <1>11, <1>12, <1>13, <1>14, SameNumber
<1> QED
  BY <1>15, Zenon DEF SumExtentLengths, T, extents, t, c

(* The clusters of a chain are its first numbers up to one that is no cluster, comes *)
(* again or is one too many.                                                         *)
IsCluster(chain, i) == /\ InData(chain[i]) /\ i <= MaxChain
                       /\ \A j \in 1 .. i - 1 : chain[i] # chain[j]

LEMMA ChainStops ==
    ASSUME NEW chain \in Seq(Links)
    PROVE  \E m \in 0 .. Len(chain) :
               /\ NormalizeClusterChain(chain).clusters = SubSeq(chain, 1, m)
               /\ \A i \in 1 .. m : IsCluster(chain, i)
               /\ m < Len(chain) => ~IsCluster(chain, m + 1)
<1> DEFINE n == Len(chain)
           stops == {i \in DOMAIN chain : \/ chain[i] \in EndOfChain \cup BadClusters
                                          \/ chain[i] < 2 \/ StopsAt(chain, i)}
           all == stops \cup {n + 1}
           stop == Min(all)
           m == stop - 1
<1>1. n \in Nat /\ DOMAIN chain = 1 .. n
  BY LenProperties
<1>2. MaxChain \in Nat /\ \A k \in Links : k \in Nat /\ k <= 4095
  BY EntryAssumption
<1>3. \A i \in 1 .. n : chain[i] \in Nat /\ chain[i] <= 4095
  <2>1. \A i \in 1 .. n : chain[i] \in Links
    BY <1>1, ElementOfSeq
  <2> QED
    BY <1>2, <2>1
<1>4. ASSUME NEW i \in 1 .. n PROVE i \in stops <=> ~IsCluster(chain, i)
  <2>1. InData(chain[i]) <=> ~(chain[i] \in EndOfChain \cup BadClusters \/ chain[i] < 2)
    <3>1. chain[i] \in Nat /\ chain[i] <= 4095
      BY <1>3
    <3> QED
      BY <3>1 DEF EndOfChain, BadClusters, InData
  <2>2. StopsAt(chain, i) <=> ~(i <= MaxChain /\ \A j \in 1 .. i - 1 : chain[i] # chain[j])
    BY <1>1, <1>2 DEF StopsAt
  <2> HIDE DEF n
  <2> QED
    BY <1>1, <2>1, <2>2 DEF IsCluster
<1>5. all \in SUBSET Nat /\ all # {} /\ all \subseteq 1 .. n + 1
  BY <1>1
<1>6. NormalizeClusterChain(chain).clusters = SubSeq(chain, 1, m)
  BY DEF NormalizeClusterChain
<1>7. stops \subseteq all /\ \A x \in all : x \in stops \/ x = n + 1
  OBVIOUS
<1> HIDE DEF stops, all
<1>8. stop \in all /\ \A j \in all : stop <= j
  BY <1>5, MinIn
<1>9. stop \in 1 .. n + 1
  BY <1>5, <1>8
<1> HIDE DEF stop, n
<1>10. m \in 0 .. n
  BY <1>1, <1>9
<1>11. \A i \in 1 .. m : IsCluster(chain, i)
  <2> SUFFICES ASSUME NEW i \in 1 .. m PROVE IsCluster(chain, i)
    OBVIOUS
  <2>1. i \in 1 .. n /\ ~(stop <= i)
    BY <1>1, <1>9
  <2>2. i \notin stops
    BY <1>7, <1>8, <2>1
  <2> QED
    BY <1>4, <2>1, <2>2
<1>12. m < n => ~IsCluster(chain, m + 1)
  <2> SUFFICES ASSUME m < n PROVE ~IsCluster(chain, m + 1)
    OBVIOUS
  <2>1. m + 1 = stop /\ stop \in 1 .. n /\ stop # n + 1
    BY <1>1, <1>9
  <2>2. stop \in stops
    BY <1>7, <1>8, <2>1
  <2> QED
    BY <1>4, <2>1, <2>2
<1> QED
  BY <1>6, <1>10, <1>11, <1>12 DEF n

(* What is recovered is whole when it is called intact. *)
LEMMA RecoveredIsWhole ==
    ASSUME NEW entry, entry.chain \in Seq(Links), entry.size \in Nat \cup {NoEntry},
           NEW found,
           found.extents = ClusterExtents(NormalizeClusterChain(entry.chain).clusters, entry.size),
           found.state = RecoveryState(entry, found.extents)
    PROVE  IsWhole(entry, found)
<1> DEFINE chain == entry.chain
           size == entry.size
           extents == found.extents
           c == ClusterBytes
           clusters == NormalizeClusterChain(chain).clusters
           sum == SumExtentLengths(extents)
           sound == \E n \in 0 .. MaxChain :
                       /\ n <= Len(chain) /\ size <= n * c
                       /\ \A i \in 1 .. n : /\ InData(chain[i])
                                            /\ \A j \in 1 .. i - 1 : chain[i] # chain[j]
<1>1. /\ c \in Nat \ {0} /\ NoEntry \notin Int /\ MaxChain \in Nat /\ MaxRecover \in Nat
      /\ \A k \in Links : k \in Nat /\ k <= 4095
  BY EntryAssumption
<1>2. Len(chain) \in Nat /\ DOMAIN chain = 1 .. Len(chain)
  BY LenProperties
<1>3. PICK m \in 0 .. Len(chain) : /\ clusters = SubSeq(chain, 1, m)
                                   /\ \A i \in 1 .. m : IsCluster(chain, i)
                                   /\ m < Len(chain) => ~IsCluster(chain, m + 1)
  BY ChainStops
<1>4. m \in Nat /\ m <= MaxChain
  <2>1. m \in Nat
    BY <1>2
  <2>2. m # 0 => IsCluster(chain, m)
    BY <1>3, <2>1
  <2> QED
    BY <1>1, <2>1, <2>2 DEF IsCluster
<1> HIDE DEF c, clusters, sum, extents
<1>5. DOMAIN clusters = 1 .. m /\ \A i \in 1 .. m : clusters[i] = chain[i]
  <2>1. m <= Len(chain)
    BY <1>2
  <2> HIDE DEF chain
  <2> QED
    BY <1>2, <1>3, <1>4, <2>1, SubSeqProperties
<1>6. ASSUME NEW i \in Nat, NEW j \in Nat, i <= j
      PROVE  i * c \in Nat /\ j * c \in Nat /\ i * c <= j * c /\ (i - 1) * c = i * c - c
  <2>1. c \in Nat
    BY <1>1
  <2> QED
    BY <1>6, <2>1, ProductGrows
<1>7. ASSUME size \in Nat PROVE sum = LowerOf(size, m * c)
  BY <1>4, <1>5, <1>7, ExtentBytes DEF sum, extents, clusters, c
<1>8. size \in Nat => (sum = size <=> size <= m * c)
  <2>1. m * c \in Nat
    BY <1>4, <1>6
  <2> QED
    BY <1>7, <2>1 DEF LowerOf
<1>9. ASSUME size \in Nat PROVE sound <=> size <= m * c
  <2>1. ASSUME NEW n \in 0 .. MaxChain, n <= Len(chain), size <= n * c,
               \A i \in 1 .. n : /\ InData(chain[i])
                                 /\ \A j \in 1 .. i - 1 : chain[i] # chain[j]
        PROVE  size <= m * c
    <3>1. n \in Nat /\ n <= MaxChain
      BY <1>1
    <3>2. n <= m
      <4> SUFFICES ASSUME m < n PROVE FALSE
        BY <1>4, <3>1
      <4>1. m + 1 \in 1 .. n /\ m < Len(chain) /\ m + 1 <= MaxChain
        BY <1>1, <1>2, <1>4, <2>1, <3>1
      <4>2. ~IsCluster(chain, m + 1)
        BY <1>3, <4>1
      <4>3. /\ InData(chain[m + 1])
            /\ \A j \in 1 .. (m + 1) - 1 : chain[m + 1] # chain[j]
        BY <2>1, <4>1
      <4> QED
        BY <4>1, <4>2, <4>3, Zenon DEF IsCluster
    <3>3. n * c \in Nat /\ m * c \in Nat /\ n * c <= m * c
      BY ONLY <1>4, <1>6, <3>1, <3>2
    <3> QED
      BY <1>9, <2>1, <3>3
  <2>2. ASSUME size <= m * c PROVE sound
    <3>1. m \in 0 .. MaxChain /\ m <= Len(chain)
      BY <1>1, <1>2, <1>4
    <3>2. \A i \in 1 .. m : /\ InData(chain[i])
                            /\ \A j \in 1 .. i - 1 : chain[i] # chain[j]
      <4>1. \A i \in 1 .. m : IsCluster(chain, i)
        BY <1>3
      <4> HIDE DEF chain
      <4> QED
        BY <4>1, Zenon DEF IsCluster
    <3> HIDE DEF chain
    <3> QED
      BY <2>2, <3>1, <3>2
  <2> QED
    BY <2>1, <2>2
<1>10. DOMAIN extents = {k \in 1 .. m : size = NoEntry \/ size - (k - 1) * c > 0}
       /\ \A i \in DOMAIN extents : extents[i].offset = (clusters[i] - 2) * c
  <2>1. extents = ClusterExtents(clusters, size)
    BY DEF extents, clusters
  <2> QED
    BY <1>5, <2>1 DEF ClusterExtents, Remaining, c
<1>11. size = 0 => sum = size
  <2>1. m * c \in Nat
    BY <1>4, <1>6
  <2> QED
    BY <1>8, <2>1
<1>12. ASSUME size \in Nat, size # 0, size <= m * c PROVE extents # <<>>
  <2>1. m # 0
    <3>1. 0 * c = 0
      BY <1>1
    <3> QED
      BY <1>12, <3>1
  <2>2. 1 \in 1 .. m /\ (1 - 1) * c = 0
    BY <1>1, <1>4, <2>1
  <2>3. 1 \in DOMAIN extents
    BY <1>10, <1>12, <2>2
  <2> QED
    BY <2>3
<1>13. found.state = "intact" => /\ size # NoEntry /\ sum = size
  <2>1. size = 0 => size # NoEntry
    BY <1>1
  <2>2. found.state = "intact" => size = 0 \/ (sum = size /\ size # NoEntry)
    BY DEF RecoveryState, sum, extents
  <2> QED
    BY <1>11, <2>1, <2>2
<1>14. \A i \in 1 .. m : chain[i] \in Nat
  <2>1. \A i \in 1 .. m : chain[i] \in Links
    BY <1>2, ElementOfSeq
  <2> QED
    BY <1>1, <2>1
<1>15. ASSUME found.state = "intact", NEW i \in DOMAIN extents
       PROVE  /\ extents[i].offset = (chain[i] - 2) * c
              /\ \A j \in 1 .. i - 1 : extents[j].offset # extents[i].offset
  <2>1. size \in Nat
    BY <1>13, <1>15
  <2>2. i \in 1 .. m /\ size - (i - 1) * c > 0
    BY <1>1, <1>10, <2>1
  <2>3. ASSUME NEW k \in 1 .. m, k \in DOMAIN extents
        PROVE  extents[k].offset = (chain[k] - 2) * c
    BY <1>5, <1>10, <2>3
  <2>4. ASSUME NEW j \in 1 .. i - 1 PROVE extents[j].offset # extents[i].offset
    <3>1. j \in 1 .. m /\ j \in Nat /\ i \in Nat /\ j <= i
      BY <1>4, <2>2
    <3>2. j \in DOMAIN extents
      <4>1. /\ j * c \in Nat /\ i * c \in Nat /\ j * c <= i * c
            /\ (j - 1) * c = j * c - c
        BY ONLY <1>6, <3>1
      <4>2. (i - 1) * c = i * c - c
        BY ONLY <1>6, <3>1, i <= i
      <4>3. size - (j - 1) * c > 0
        <5> DEFINE x == j * c
                   y == i * c
        <5>1. (j - 1) * c = x - c /\ (i - 1) * c = y - c /\ x \in Nat /\ y \in Nat /\ x <= y
          BY <4>1, <4>2
        <5> HIDE DEF x, y
        <5>2. size - (y - c) > 0
          BY <2>2, <5>1
        <5>3. size - (x - c) > 0
          BY <1>1, <2>1, <5>1, <5>2
        <5> QED
          BY <5>1, <5>3
      <4> QED
        BY <1>10, <3>1, <4>3
    <3>3. chain[i] # chain[j] /\ InData(chain[i]) /\ InData(chain[j])
      <4>1. IsCluster(chain, i) /\ IsCluster(chain, j)
        BY <1>3, <2>2, <3>1
      <4> QED
        BY <4>1, Zenon DEF IsCluster
    <3>4. (chain[j] - 2) * c # (chain[i] - 2) * c
      <4> DEFINE a == chain[j] - 2
                 b == chain[i] - 2
      <4>1. a \in Nat /\ b \in Nat /\ a # b
        <5> DEFINE u == chain[j]
                   v == chain[i]
        <5>1. InData(u) /\ InData(v) /\ u \in Nat /\ v \in Nat /\ u # v
          BY <1>14, <2>2, <3>1, <3>3
        <5> HIDE DEF u, v
        <5>2. u - 2 \in Nat /\ v - 2 \in Nat /\ u - 2 # v - 2
          BY <5>1 DEF InData
        <5> QED
          BY <5>2 DEF u, v
      <4> HIDE DEF a, b
      <4>2. ASSUME NEW k \in Nat, NEW l \in Nat, k < l PROVE k * c # l * c
        <5>1. k * c \in Nat /\ l * c \in Nat /\ k * c + c <= l * c
          BY <1>1, <4>2, ProductStrict
        <5> QED
          BY <1>1, <5>1
      <4>3. a < b \/ b < a
        BY <4>1
      <4>4. a * c # b * c
        BY <4>1, <4>2, <4>3
      <4> QED
        BY <4>4 DEF a, b
    <3> QED
      BY <2>2, <2>3, <3>1, <3>2, <3>4
  <2> QED
    BY <2>2, <2>3, <2>4
<1>16. ASSUME ~entry.allocated, entry.file, entry.readable, size # NoEntry
       PROVE  sound /\ size <= MaxRecover <=> found.state = "intact"
  <2>1. size \in Nat
    BY <1>16
  <2>2. sound <=> sum = size
    <3>1. sound <=> size <= m * c
      BY <1>9, <2>1
    <3>2. sum = size <=> size <= m * c
      BY <1>8, <2>1
    <3> HIDE DEF sound
    <3> QED
      BY <3>1, <3>2
  <2>3. size # 0 /\ sum = size => extents # <<>>
    <3>1. sum = size <=> size <= m * c
      BY <1>8, <2>1
    <3> QED
      BY <1>12, <2>1, <3>1
  <2>4. CASE size = 0
    <3>1. found.state = "intact"
      BY <1>16, <2>4 DEF RecoveryState
    <3>2. sound /\ size <= MaxRecover
      <4>1. sound
        BY <1>11, <2>2, <2>4
      <4>2. size <= MaxRecover
        BY <1>1, <2>4
      <4> QED
        BY <4>1, <4>2
    <3> HIDE DEF sound
    <3> QED
      BY <3>1, <3>2
  <2>5. CASE size # 0
    <3>1. found.state = IF extents = <<>> THEN "unrecoverable"
                        ELSE IF size # sum THEN "partial"
                        ELSE IF size > MaxRecover THEN "deferred_size_limit"
                        ELSE "intact"
      BY <1>16, <2>5 DEF RecoveryState, sum, extents
    <3> HIDE DEF sound
    <3> QED
      BY <1>1, <2>1, <2>2, <2>3, <2>5, <3>1
  <2> QED
    BY <2>4, <2>5
<1> QED
  BY <1>13, <1>15, <1>16, Zenon DEF IsWhole, sum, extents, c

LEMMA RecoverInv == EntryInv /\ RecoverDeletedEntry => EntryInv'
<1> SUFFICES ASSUME EntryInv, RecoverDeletedEntry PROVE EntryInv'
  OBVIOUS
<1>1. /\ listing' = listing /\ listed' = listed /\ deleted' = deleted
      /\ deleted # NotAsked
  BY DEF RecoverDeletedEntry
<1>2. deleted.chain \in Seq(Links) /\ deleted.size \in Nat \cup {NoEntry}
  BY <1>1 DEF EntryInv
<1>3. /\ recovered'.extents
             = ClusterExtents(NormalizeClusterChain(deleted.chain).clusters, deleted.size)
      /\ recovered'.state = RecoveryState(deleted, recovered'.extents)
  BY DEF RecoverDeletedEntry
<1>4. IsWhole(deleted, recovered')
  BY <1>2, <1>3, RecoveredIsWhole
<1>5. IntactIsWhole'
  BY <1>1, <1>4 DEF IntactIsWhole
<1>6. EntriesPlaced'
  <2>1. EntriesPlaced
    BY DEF EntryInv, EntriesHold
  <2> QED
    BY <1>1, <2>1 DEF EntriesPlaced
<1> QED
  BY <1>1, <1>5, <1>6 DEF EntryInv, EntriesHold

(* The entries of a volume are always in their places and a deleted file called      *)
(* intact is whole, whatever the lines of fls and the numbers of the cluster chain:  *)
(* parse_fls_output, normalize_entries and enrich_ntfs_entries lose no parent, and   *)
(* normalize_cluster_chain with cluster_extents no byte of a sound chain.            *)
THEOREM EntriesAlwaysHold == EntrySpec => []EntriesHold
<1>1. EntryInit => EntryInv
  <2> SUFFICES ASSUME EntryInit PROVE EntryInv
    OBVIOUS
  <2>1. EntriesHold
    <3>1. ~listed.done /\ ~recovered.done
      BY DEF EntryInit, NotAsked
    <3> QED
      BY <3>1 DEF EntriesHold, EntriesPlaced, IntactIsWhole
  <2>2. CASE /\ \E lines \in BoundedSeq(FlsLines, MaxLines), supported \in BOOLEAN :
                    /\ ~supported => lines = <<>>
                    /\ listing = [lines |-> lines, supported |-> supported]
             /\ deleted = NotAsked
    <3>1. PICK lines \in BoundedSeq(FlsLines, MaxLines), supported \in BOOLEAN :
              listing = [lines |-> lines, supported |-> supported]
      BY <2>2
    <3>2. lines \in Seq(FlsLines)
      <4>1. PICK k \in 0 .. MaxLines : lines \in [1 .. k -> FlsLines]
        BY Zenon DEF BoundedSeq, SeqOf
      <4>2. k \in Nat
        BY <4>1
      <4> QED
        BY <4>1, <4>2
    <3>3. listing.lines \in Seq(FlsLines)
      BY <3>1, <3>2
    <3> QED
      BY <2>1, <2>2, <3>3 DEF EntryInv
  <2>3. CASE /\ \E chain \in BoundedSeq(Links, MaxLinks),
                   file, readable, allocated \in BOOLEAN,
                   size \in {NoEntry} \cup 0 .. MaxRecover + 1 :
                    deleted = [chain |-> chain, size |-> size, file |-> file,
                               readable |-> readable, allocated |-> allocated]
             /\ listing = NotAsked
    <3>1. PICK chain \in BoundedSeq(Links, MaxLinks),
               file, readable, allocated \in BOOLEAN,
               size \in {NoEntry} \cup 0 .. MaxRecover + 1 :
              deleted = [chain |-> chain, size |-> size, file |-> file,
                         readable |-> readable, allocated |-> allocated]
      BY <2>3
    <3>2. chain \in Seq(Links)
      <4>1. PICK k \in 0 .. MaxLinks : chain \in [1 .. k -> Links]
        BY Zenon DEF BoundedSeq, SeqOf
      <4>2. k \in Nat
        BY <4>1
      <4> QED
        BY <4>1, <4>2
    <3>3. deleted.chain = chain /\ deleted.size = size
      BY <3>1
    <3> QED
      BY <2>1, <2>3, <3>2, <3>3 DEF EntryInv
  <2> QED
    BY <2>2, <2>3 DEF EntryInit
<1>2. EntryInv /\ [EntryNext]_entryVars => EntryInv'
  <2>1. EntryInv /\ UNCHANGED entryVars => EntryInv'
    BY DEF EntryInv, EntriesHold, EntriesPlaced, IntactIsWhole, entryVars
  <2> QED
    BY <2>1, EnumerateInv, RecoverInv DEF EntryNext
<1>3. EntryInv => EntriesHold
  BY DEF EntryInv
<1> QED
  BY <1>1, <1>2, <1>3, PTL DEF EntrySpec

-----------------------------------------------------------------------------
(* The scan of a FAT12 floppy: scanner/fat12_parser.py                      *)

(* Twelve bits come back from the bytes they are packed in. *)
LEMMA EvenEntry ==
    ASSUME NEW a \in Nat, NEW b \in Nat, a < 4096
    PROVE  ((a % 256) + 256 * (a \div 256 + 16 * (b % 16))) % 4096 = a
<1>1. (a % 256) + 256 * (a \div 256 + 16 * (b % 16)) = a + 4096 * (b % 16)
  OBVIOUS
<1>2. b % 16 \in Nat
  OBVIOUS
<1>3. (a + 4096 * (b % 16)) % 4096 = a
  BY <1>2
<1> QED
  BY <1>1, <1>3

LEMMA OddEntry ==
    ASSUME NEW a \in Nat, NEW b \in Nat, a < 4096, b < 4096
    PROVE  (((a \div 256 + 16 * (b % 16)) + 256 * (b \div 16)) \div 16) % 4096 = b
<1>1. (a \div 256 + 16 * (b % 16)) + 256 * (b \div 16) = a \div 256 + 16 * b
  OBVIOUS
<1>2. a \div 256 \in Nat /\ a \div 256 < 16
  OBVIOUS
<1>3. (a \div 256 + 16 * b) \div 16 = b
  BY <1>2
<1>4. b % 4096 = b
  OBVIOUS
<1> QED
  BY <1>1, <1>3, <1>4

LEMMA Unpacks ==
    ASSUME NEW fat \in [0 .. ClusterCount + 1 -> Nat],
           \A i \in 0 .. ClusterCount + 1 : fat[i] < 4096
    PROVE  DecodeFat(Packed(fat)) = fat
<1> DEFINE n == ClusterCount + 2
           byte(k) == LET a == fat[2 * (k \div 3)]
                          b == IF 2 * (k \div 3) + 1 < n THEN fat[2 * (k \div 3) + 1] ELSE 0
                      IN CASE k % 3 = 0 -> a % 256
                           [] k % 3 = 1 -> a \div 256 + 16 * (b % 16)
                           [] OTHER -> b \div 16
           raw == Packed(fat)
<1>1. ClusterCount \in Nat /\ n \in Nat /\ n - 1 = ClusterCount + 1
  BY FatAssumption
<1>2. raw = [k \in 0 .. (3 * n + 1) \div 2 - 1 |-> byte(k)]
  BY DEF Packed
<1>3. ASSUME NEW p \in Nat, 2 * p < n
      PROVE  /\ 3 * p + 1 \in DOMAIN raw
             /\ raw[3 * p] = fat[2 * p] % 256
             /\ raw[3 * p + 1] = fat[2 * p] \div 256
                    + 16 * ((IF 2 * p + 1 < n THEN fat[2 * p + 1] ELSE 0) % 16)
  <2>1. 3 * p \in 0 .. (3 * n + 1) \div 2 - 1 /\ 3 * p + 1 \in 0 .. (3 * n + 1) \div 2 - 1
    BY <1>1, <1>3
  <2>2. (3 * p) \div 3 = p /\ (3 * p) % 3 = 0 /\ (3 * p + 1) \div 3 = p /\ (3 * p + 1) % 3 = 1
    OBVIOUS
  <2>3. byte(3 * p) = fat[2 * p] % 256
    BY <2>2
  <2>4. byte(3 * p + 1) = fat[2 * p] \div 256
                    + 16 * ((IF 2 * p + 1 < n THEN fat[2 * p + 1] ELSE 0) % 16)
    BY <2>2
  <2> HIDE DEF byte, raw
  <2> QED
    BY <1>2, <2>1, <2>3, <2>4
<1>4. ASSUME NEW p \in Nat, 2 * p + 1 < n
      PROVE  /\ 3 * p + 2 \in DOMAIN raw /\ raw[3 * p + 2] = fat[2 * p + 1] \div 16
  <2>1. 3 * p + 2 \in 0 .. (3 * n + 1) \div 2 - 1
    BY <1>1, <1>4
  <2>2. (3 * p + 2) \div 3 = p /\ (3 * p + 2) % 3 = 2
    OBVIOUS
  <2>3. byte(3 * p + 2) = fat[2 * p + 1] \div 16
    BY <1>4, <2>2, SMTT(30)
  <2> HIDE DEF byte, raw
  <2> QED
    BY <1>2, <2>1, <2>3
<1> HIDE DEF raw
<1>5. ASSUME NEW i \in 0 .. ClusterCount + 1
      PROVE  DecodeFat(raw)[i] = fat[i]
  <2> DEFINE offset == i + i \div 2
             word == raw[offset] + 256 * raw[offset + 1]
  <2>1. DecodeFat(raw)[i] = IF offset + 1 \notin DOMAIN raw THEN 0
                            ELSE IF i % 2 = 1 THEN (word \div 16) % 4096 ELSE word % 4096
    BY DEF DecodeFat
  <2>2. i \in Nat /\ i < n
    BY <1>1
  <2>3. PICK p \in Nat : i = 2 * p \/ i = 2 * p + 1
    <3>1. i \div 2 \in Nat /\ (i = 2 * (i \div 2) \/ i = 2 * (i \div 2) + 1)
      BY <2>2
    <3> QED
      BY <3>1
  <2>4. 2 * p < n /\ 2 * p \in 0 .. ClusterCount + 1
    BY <1>1, <2>2, <2>3
  <2> DEFINE a == fat[2 * p]
             b == IF 2 * p + 1 < n THEN fat[2 * p + 1] ELSE 0
  <2>5. a \in Nat /\ a < 4096 /\ b \in Nat /\ b < 4096
    <3>1. 2 * p + 1 < n => 2 * p + 1 \in 0 .. ClusterCount + 1
      BY <1>1
    <3> QED
      BY <2>4, <3>1
  <2>6. /\ 3 * p + 1 \in DOMAIN raw /\ raw[3 * p] = a % 256
        /\ raw[3 * p + 1] = a \div 256 + 16 * (b % 16)
    BY <1>3, <2>4
  <2>7. CASE i = 2 * p
    <3>1. offset = 3 * p /\ i % 2 = 0
      BY <2>7
    <3>2. offset + 1 = 3 * p + 1
      BY <3>1
    <3>3. fat[i] = a
      BY <2>7
    <3> HIDE DEF a, b, offset
    <3>4. word = (a % 256) + 256 * (a \div 256 + 16 * (b % 16))
      BY <2>6, <3>1, <3>2
    <3>5. word % 4096 = a
      BY <2>5, <3>4, EvenEntry
    <3> HIDE DEF word
    <3> QED
      BY <2>1, <2>6, <3>1, <3>2, <3>3, <3>5
  <2>8. CASE i = 2 * p + 1
    <3>1. offset = 3 * p + 1 /\ i % 2 = 1 /\ 2 * p + 1 < n
      BY <2>2, <2>8
    <3>2. offset + 1 = 3 * p + 2
      BY <3>1
    <3>3. fat[i] = b
      BY <2>8, <3>1
    <3>4. 3 * p + 2 \in DOMAIN raw /\ raw[3 * p + 2] = b \div 16
      BY <1>4, <3>1
    <3> HIDE DEF a, b, offset
    <3>5. word = (a \div 256 + 16 * (b % 16)) + 256 * (b \div 16)
      BY <2>6, <3>1, <3>2, <3>4
    <3>6. (word \div 16) % 4096 = b
      BY <2>5, <3>5, OddEntry
    <3> HIDE DEF word
    <3> QED
      BY <2>1, <3>1, <3>2, <3>3, <3>4, <3>6
  <2> QED
    BY <2>3, <2>7, <2>8
<1>6. DecodeFat(raw) = [i \in 0 .. ClusterCount + 1 |-> DecodeFat(raw)[i]]
  BY DEF DecodeFat
<1>7. DecodeFat(raw) = fat
  BY <1>5, <1>6
<1> QED
  BY <1>7 DEF raw

(* The FAT that is used is the medium's, when a copy of it is good. *)
LEMMA FatIsRead ==
    ASSUME NEW values \in [Clusters -> FatValues], NEW good \in SUBSET {1, 2}, NEW copies,
           copies = [c \in {1, 2} |->
                        Packed(FatOf(values, IF c \in good THEN MediaHeader ELSE 0))]
    PROVE  /\ SelectFat(copies) \in [0 .. ClusterCount + 1 -> Nat]
           /\ good # {} => \A c \in Clusters : SelectFat(copies)[c] = values[c]
<1> DEFINE header(c) == IF c \in good THEN MediaHeader ELSE 0
           valid == {c \in DOMAIN copies : FatHeaderValid(DecodeFat(copies[c]))}
<1>1. ClusterCount \in Nat /\ \A v \in FatValues : v \in Nat /\ v < 4096
  BY FatAssumption
<1>2. ASSUME NEW h \in Nat, h < 4096
      PROVE  /\ FatOf(values, h) \in [0 .. ClusterCount + 1 -> Nat]
             /\ \A i \in 0 .. ClusterCount + 1 : FatOf(values, h)[i] < 4096
             /\ FatOf(values, h)[0] = h /\ FatOf(values, h)[1] = 4095
             /\ \A c \in Clusters : FatOf(values, h)[c] = values[c]
  <2> DEFINE at(i) == CASE i = 0 -> h [] i = 1 -> 4095 [] OTHER -> values[i]
             fat == FatOf(values, h)
  <2>1. fat = [i \in 0 .. ClusterCount + 1 |-> at(i)]
    BY DEF FatOf
  <2>2. ASSUME NEW i \in 0 .. ClusterCount + 1
        PROVE  fat[i] = at(i) /\ at(i) \in Nat /\ at(i) < 4096
    <3>1. i = 0 \/ i = 1 \/ i \in Clusters
      BY <1>1 DEF Clusters
    <3>2. i \in Clusters => i # 0 /\ i # 1
      BY <1>1 DEF Clusters
    <3>3. at(i) \in Nat /\ at(i) < 4096
      BY <1>1, <1>2, <3>1, <3>2
    <3> HIDE DEF at
    <3> QED
      BY <2>1, <3>3
  <2>3. 0 \in 0 .. ClusterCount + 1 /\ 1 \in 0 .. ClusterCount + 1
    BY <1>1
  <2>4. \A c \in Clusters : c \in 0 .. ClusterCount + 1 /\ c # 0 /\ c # 1
    BY <1>1 DEF Clusters
  <2>5. fat[0] = h /\ fat[1] = 4095
    BY <2>2, <2>3
  <2>6. \A c \in Clusters : fat[c] = values[c]
    BY <2>2, <2>4
  <2>7. fat \in [0 .. ClusterCount + 1 -> Nat] /\ \A i \in 0 .. ClusterCount + 1 : fat[i] < 4096
    <3> HIDE DEF at, fat
    <3> QED
      BY <2>1, <2>2
  <2> QED
    BY <2>5, <2>6, <2>7
<1>3. ASSUME NEW c \in {1, 2}
      PROVE  DecodeFat(copies[c]) = FatOf(values, header(c)) /\ header(c) \in Nat /\ header(c) < 4096
  <2>1. header(c) \in Nat /\ header(c) < 4096
    BY DEF MediaHeader
  <2>2. copies[c] = Packed(FatOf(values, header(c)))
    OBVIOUS
  <2> HIDE DEF header
  <2> QED
    BY <1>2, <2>1, <2>2, Unpacks
<1>4. valid = good
  <2>1. \A c \in {1, 2} : FatHeaderValid(DecodeFat(copies[c])) <=> c \in good
    <3> SUFFICES ASSUME NEW c \in {1, 2}
                 PROVE  FatHeaderValid(DecodeFat(copies[c])) <=> c \in good
      OBVIOUS
    <3>1. DecodeFat(copies[c])[0] = header(c) /\ DecodeFat(copies[c])[1] = 4095
      <4> HIDE DEF header
      <4> QED
        BY <1>2, <1>3
    <3>2. header(c) = 4080 <=> c \in good
      BY DEF MediaHeader
    <3> HIDE DEF header
    <3> QED
      BY <3>1, <3>2 DEF FatHeaderValid, MediaHeader, EocMin
  <2>2. DOMAIN copies = {1, 2} /\ good \subseteq {1, 2}
    OBVIOUS
  <2> QED
    BY <2>1, <2>2
<1> HIDE DEF valid
<1>5. SelectFat(copies) = IF valid = {} THEN [i \in 0 .. ClusterCount + 1 |-> 0]
                          ELSE DecodeFat(copies[Min(valid)])
  BY DEF SelectFat, valid
<1>6. CASE good = {}
  BY <1>4, <1>5, <1>6
<1>7. CASE good # {}
  <2>1. valid \in SUBSET Nat /\ valid \subseteq {1, 2} /\ valid # {}
    BY <1>4, <1>7
  <2>2. Min(valid) \in {1, 2}
    BY <2>1, MinIn
  <2> DEFINE m == Min(valid)
  <2> HIDE DEF m
  <2>3. m \in {1, 2} /\ SelectFat(copies) = DecodeFat(copies[m])
    BY <1>5, <2>1, <2>2 DEF m
  <2> HIDE DEF header
  <2>4. SelectFat(copies) = FatOf(values, header(m)) /\ header(m) \in Nat /\ header(m) < 4096
    BY <1>3, <2>3
  <2> DEFINE h == header(m)
  <2>5. /\ FatOf(values, h) \in [0 .. ClusterCount + 1 -> Nat]
        /\ \A c \in Clusters : FatOf(values, h)[c] = values[c]
    <3> HIDE DEF h
    <3> QED
      BY <1>2, <2>4 DEF h
  <2> DEFINE fat == SelectFat(copies)
             read == FatOf(values, h)
  <2>6. fat = read
    BY <2>4
  <2>7. read \in [0 .. ClusterCount + 1 -> Nat] /\ \A c \in Clusters : read[c] = values[c]
    BY <2>5
  <2> HIDE DEF fat, read, h
  <2>8. fat \in [0 .. ClusterCount + 1 -> Nat] /\ \A c \in Clusters : fat[c] = values[c]
    BY ONLY <2>6, <2>7
  <2> QED
    BY <2>8 DEF fat
<1> QED
  BY <1>6, <1>7

(* The sectors of different clusters are different ones. *)
LEMMA SectorsApart ==
    /\ \A c \in Clusters : \A s \in SectorsOf(c) :
          s \in Nat /\ s <= FirstDataSector + ClusterCount * SectorsPerCluster
    /\ \A c, d \in Clusters : c # d => SectorsOf(c) \cap SectorsOf(d) = {}
<1> DEFINE S == SectorsPerCluster
<1>1. S \in Nat \ {0} /\ S \in Nat /\ FirstDataSector \in Nat /\ ClusterCount \in Nat
  BY FatAssumption
<1>2. \A c \in Clusters : c - 2 \in Nat /\ c - 2 < ClusterCount /\ c \in Nat
  BY <1>1 DEF Clusters
<1>3. \A c \in Clusters : \A s : s \in SectorsOf(c) <=>
          s \in Int /\ FirstDataSector + (c - 2) * S <= s /\ s <= FirstDataSector + (c - 2) * S + S - 1
  <2> SUFFICES ASSUME NEW c \in Clusters
               PROVE  \A s : s \in SectorsOf(c) <=>
                   s \in Int /\ FirstDataSector + (c - 2) * S <= s
                             /\ s <= FirstDataSector + (c - 2) * S + S - 1
    OBVIOUS
  <2> DEFINE first == FirstDataSector + (c - 2) * S
  <2>1. first \in Int
    BY <1>1, <1>2
  <2>2. SectorsOf(c) = first .. first + S - 1
    BY DEF SectorsOf
  <2> HIDE DEF first
  <2>3. \A s : s \in SectorsOf(c) <=> s \in Int /\ first <= s /\ s <= first + S - 1
    BY <1>1, <2>1, <2>2
  <2> QED
    BY <2>3 DEF first
<1>4. ASSUME NEW k \in Nat, NEW l \in Nat, k < l
      PROVE  k * S \in Nat /\ l * S \in Nat /\ k * S + S <= l * S
  BY ONLY <1>1, <1>4, ProductStrict, k \in Nat, l \in Nat
<1>5. ASSUME NEW c \in Clusters, NEW s \in SectorsOf(c)
      PROVE  s \in Nat /\ s <= FirstDataSector + ClusterCount * S
  <2>1. (c - 2) * S \in Nat /\ (c - 2) * S + S <= ClusterCount * S /\ ClusterCount * S \in Nat
    BY <1>1, <1>2, <1>4
  <2> QED
    BY <1>1, <1>3, <2>1
<1>6. ASSUME NEW c \in Clusters, NEW d \in Clusters, c < d
      PROVE  SectorsOf(c) \cap SectorsOf(d) = {}
  <2>1. (c - 2) * S \in Nat /\ (c - 2) * S + S <= (d - 2) * S /\ (d - 2) * S \in Nat
    <3>1. c - 2 < d - 2
      BY <1>2, <1>6
    <3> QED
      BY <1>2, <1>4, <3>1
  <2> SUFFICES ASSUME NEW s \in SectorsOf(c), s \in SectorsOf(d)
               PROVE  FALSE
    OBVIOUS
  <2> QED
    BY <1>1, <1>3, <2>1
<1>7. \A c, d \in Clusters : c # d => c < d \/ d < c
  BY <1>2
<1> QED
  BY <1>5, <1>6, <1>7

(* The runs of a bounded set of numbers are what it consists of, and there is a gap *)
(* between any two.                                                                 *)
LEMMA RunsCover ==
    ASSUME NEW F \in SUBSET Nat, NEW B \in Nat, \A x \in F : x <= B
    PROVE  /\ UNION {r[1] .. r[1] + r[2] - 1 : r \in Runs(F)} = F
           /\ \A r, q \in Runs(F) : r # q => r[1] + r[2] < q[1] \/ q[1] + q[2] < r[1]
<1> DEFINE starts == {x \in F : x - 1 \notin F}
<1>1. ASSUME NEW s \in F
      PROVE  /\ RunEnd(F, s) \in Nat /\ s <= RunEnd(F, s) /\ RunEnd(F, s) + 1 \notin F
             /\ \A x \in Nat : s <= x /\ x <= RunEnd(F, s) => x \in F
  <2> DEFINE T == {z \in Nat : z > s /\ z \notin F}
             E == {e \in F : e >= s /\ e + 1 \notin F}
  <2>1. B + 1 \in T /\ T \in SUBSET Nat
    <3>1. B + 1 \in Nat /\ B + 1 > s /\ B + 1 \notin F
      <4>1. s \in Nat /\ s <= B
        OBVIOUS
      <4> QED
        BY <4>1
    <3> QED
      BY <3>1
  <2>2. PICK z \in T : \A y \in T : z <= y
    <3> HIDE DEF T
    <3> QED
      BY <2>1, LeastNumber
  <2>3. s \in Nat /\ z \in Nat /\ z > s /\ z \notin F
    BY <2>2
  <2>4. \A x \in Nat : s <= x /\ x < z => x \in F
    <3> SUFFICES ASSUME NEW x \in Nat, s <= x, x < z, x \notin F PROVE FALSE
      OBVIOUS
    <3>1. x # s
      OBVIOUS
    <3>2. x \in T
      BY <2>3, <3>1
    <3>3. z <= x
      BY <2>2, <3>2
    <3> QED
      BY <2>3, <3>3
  <2>5. z - 1 \in E
    <3>1. z - 1 \in Nat /\ s <= z - 1 /\ z - 1 < z /\ (z - 1) + 1 = z
      BY <2>3
    <3>2. z - 1 \in F
      BY <2>4, <3>1
    <3> QED
      BY <2>3, <3>1, <3>2
  <2>6. E \in SUBSET Nat /\ E # {}
    BY <2>5
  <2>7. RunEnd(F, s) = Min(E)
    BY DEF RunEnd
  <2>8. Min(E) \in E /\ Min(E) <= z - 1
    <3> HIDE DEF E
    <3> QED
      BY <2>5, <2>6, MinIn
  <2>9. Min(E) \in Nat /\ s <= Min(E) /\ Min(E) + 1 \notin F
    BY <2>6, <2>8
  <2> HIDE DEF E
  <2>10. \A x \in Nat : s <= x /\ x <= Min(E) => x \in F
    BY <2>3, <2>4, <2>8, <2>9
  <2> QED
    BY <2>7, <2>9, <2>10
<1>2. ASSUME NEW x \in F
      PROVE  \E s \in starts : s <= x /\ x <= RunEnd(F, s)
  <2> DEFINE T == {y \in Nat : y <= x /\ \A w \in Nat : y <= w /\ w <= x => w \in F}
  <2>1. x \in T /\ T \in SUBSET Nat
    <3>1. x \in Nat /\ \A w \in Nat : x <= w /\ w <= x => w = x
      OBVIOUS
    <3> QED
      BY <3>1
  <2>2. PICK s \in T : \A y \in T : s <= y
    <3> HIDE DEF T
    <3> QED
      BY <2>1, LeastNumber
  <2>3. s \in Nat /\ s <= x /\ x \in Nat /\ \A w \in Nat : s <= w /\ w <= x => w \in F
    BY <2>2
  <2>4. s \in F
    BY <2>3
  <2>5. s - 1 \notin F
    <3> SUFFICES ASSUME s - 1 \in F PROVE FALSE
      OBVIOUS
    <3>1. s - 1 \in Nat
      OBVIOUS
    <3>2. \A w \in Nat : s - 1 <= w /\ w <= x => w = s - 1 \/ (s <= w /\ w <= x)
      BY <2>3
    <3>3. s - 1 \in T
      BY <2>3, <3>1, <3>2
    <3>4. s <= s - 1
      BY <2>2, <3>3
    <3> QED
      BY <2>3, <3>4
  <2>6. RunEnd(F, s) \in Nat /\ s <= RunEnd(F, s) /\ RunEnd(F, s) + 1 \notin F
    BY <1>1, <2>4
  <2> DEFINE e == RunEnd(F, s)
  <2> HIDE DEF e
  <2>7. x <= e
    <3> SUFFICES ASSUME ~(x <= e) PROVE FALSE
      OBVIOUS
    <3>1. e + 1 \in Nat /\ s <= e + 1 /\ e + 1 <= x /\ e + 1 \notin F
      BY <2>3, <2>6 DEF e
    <3> QED
      BY <2>3, <3>1
  <2> QED
    BY <2>3, <2>4, <2>5, <2>7 DEF e
<1>3. \A r : r \in Runs(F) <=> \E s \in starts : r = <<s, RunEnd(F, s) - s + 1>>
  BY DEF Runs
<1>4. \A s \in starts : s \in F /\ s \in Nat /\ s - 1 \notin F
  OBVIOUS
<1> HIDE DEF starts
<1>5. ASSUME NEW s \in starts
      PROVE  /\ s + (RunEnd(F, s) - s + 1) - 1 = RunEnd(F, s)
             /\ s + (RunEnd(F, s) - s + 1) = RunEnd(F, s) + 1
  <2>1. RunEnd(F, s) \in Nat /\ s \in Nat
    BY <1>1, <1>4
  <2> QED
    BY <2>1
<1>6. ASSUME NEW x \in F
      PROVE  \E r \in Runs(F) : x \in r[1] .. r[1] + r[2] - 1
  <2>1. PICK s \in starts : s <= x /\ x <= RunEnd(F, s)
    BY <1>2
  <2> DEFINE r == <<s, RunEnd(F, s) - s + 1>>
  <2>2. r \in Runs(F) /\ r[1] = s /\ r[1] + r[2] - 1 = RunEnd(F, s)
    BY <1>3, <1>5
  <2>3. s \in Nat /\ x \in Nat /\ RunEnd(F, s) \in Nat
    BY <1>1, <1>4
  <2>4. x \in r[1] .. r[1] + r[2] - 1
    <3> HIDE DEF r
    <3> QED
      BY <2>1, <2>2, <2>3
  <2> QED
    BY <2>2, <2>4
<1>7. ASSUME NEW r \in Runs(F), NEW x \in r[1] .. r[1] + r[2] - 1
      PROVE  x \in F
  <2>1. PICK s \in starts : r = <<s, RunEnd(F, s) - s + 1>>
    BY <1>3
  <2>2. r[1] = s /\ r[1] + r[2] - 1 = RunEnd(F, s)
    BY <1>5, <2>1
  <2>3. s \in Nat /\ RunEnd(F, s) \in Nat /\ s \in F
    BY <1>1, <1>4
  <2>4. x \in Nat /\ s <= x /\ x <= RunEnd(F, s)
    BY <2>2, <2>3
  <2> QED
    BY <1>1, <2>3, <2>4
<1>8. ASSUME NEW s \in starts, NEW t \in starts, s < t
      PROVE  RunEnd(F, s) + 1 < t
  <2> DEFINE e == RunEnd(F, s)
  <2>1. /\ e \in Nat /\ s <= e /\ s \in Nat /\ t \in Nat /\ t - 1 \notin F
        /\ \A x \in Nat : s <= x /\ x <= e => x \in F
    BY <1>1, <1>4
  <2> HIDE DEF e
  <2>2. ~(t <= e + 1)
    <3> SUFFICES ASSUME t <= e + 1 PROVE FALSE
      OBVIOUS
    <3>1. t - 1 \in Nat /\ s <= t - 1 /\ t - 1 <= e
      BY <1>8, <2>1
    <3> QED
      BY <2>1, <3>1
  <2>3. e + 1 < t
    BY <2>1, <2>2
  <2> QED
    BY <2>3 DEF e
<1>9. ASSUME NEW r \in Runs(F), NEW q \in Runs(F), r # q
      PROVE  r[1] + r[2] < q[1] \/ q[1] + q[2] < r[1]
  <2>1. PICK s \in starts : r = <<s, RunEnd(F, s) - s + 1>>
    BY <1>3
  <2>2. PICK t \in starts : q = <<t, RunEnd(F, t) - t + 1>>
    BY <1>3
  <2>3. r[1] + r[2] = RunEnd(F, s) + 1 /\ q[1] + q[2] = RunEnd(F, t) + 1 /\ r[1] = s /\ q[1] = t
    BY <1>5, <2>1, <2>2
  <2>4. s # t
    BY <1>9, <2>1, <2>2
  <2>5. s < t \/ t < s
    BY <1>4, <2>4
  <2> QED
    BY <1>8, <2>3, <2>5
<1>10. UNION {r[1] .. r[1] + r[2] - 1 : r \in Runs(F)} = F
  <2>1. \A x : x \in UNION {r[1] .. r[1] + r[2] - 1 : r \in Runs(F)}
               <=> \E r \in Runs(F) : x \in r[1] .. r[1] + r[2] - 1
    OBVIOUS
  <2> QED
    BY <1>6, <1>7, <2>1
<1> QED
  BY <1>9, <1>10

(* A file of some bytes asks for some clusters. *)
LEMMA ClustersAsked ==
    ASSUME NEW size \in Nat
    PROVE  ClustersForSize(size) \in Nat /\ (ClustersForSize(size) = 0 => size = 0)
<1> DEFINE S == SectorsPerCluster
           d == (size + S - 1) \div S
           m == (size + S - 1) % S
<1>1. S \in Nat /\ S > 0
  BY FatAssumption
<1>2. d \in Nat /\ m \in Nat /\ m < S /\ size + S - 1 = S * d + m
  BY <1>1
<1>3. d = 0 => size = 0
  <2> SUFFICES ASSUME d = 0 PROVE size = 0
    OBVIOUS
  <2>1. S * d = 0
    BY <1>1
  <2> HIDE DEF d, m
  <2> QED
    BY <1>1, <1>2, <2>1
<1> QED
  BY <1>2, <1>3 DEF ClustersForSize

(* What is reported of an allocated file, and of a deleted one. *)
LEMMA AllocatedIsSound ==
    ASSUME NEW disk, NEW walk, IsSoundWalk(disk, walk), NEW first \in Nat, NEW size \in Nat
    PROVE  LET e == AllocatedChain(first, size, walk)
           IN /\ e.clusters \in Seq(Clusters) /\ IsInjective(e.clusters)
              /\ e.confidence \in {"certain", "high", "medium"} =>
                    /\ Len(e.clusters) = ClustersForSize(size) \/ size = 0
                    /\ \A i \in DOMAIN e.clusters : walk.fat[e.clusters[i]] # 0
<1> DEFINE e == AllocatedChain(first, size, walk)
           expected == ClustersForSize(size)
           long == Len(walk.chain) > expected /\ expected > 0
           chain == IF long THEN SubSeq(walk.chain, 1, expected) ELSE walk.chain
           state == IF Len(walk.chain) < expected THEN "partial" ELSE walk.state
           broken == \E i \in 1 .. Len(chain) - 1 : chain[i + 1] # chain[i] + 1
<1>1. expected \in Nat /\ (expected = 0 => size = 0)
  BY ClustersAsked
<1>2. walk.chain \in Seq(Clusters) /\ IsInjective(walk.chain) /\ Len(walk.chain) \in Nat
  BY DEF IsSoundWalk
<1> HIDE DEF expected
<1>3. chain \in Seq(Clusters) /\ \A i \in DOMAIN chain : i \in DOMAIN walk.chain /\ chain[i] = walk.chain[i]
  <2>1. CASE long
    <3>1. 1 \in 1 .. Len(walk.chain) + 1 /\ expected \in 0 .. Len(walk.chain)
      BY <1>1, <1>2, <2>1
    <3>2. /\ SubSeq(walk.chain, 1, expected) \in Seq(Clusters)
          /\ Len(SubSeq(walk.chain, 1, expected)) = expected
          /\ \A i \in 1 .. expected : SubSeq(walk.chain, 1, expected)[i] = walk.chain[i]
      BY <1>1, <1>2, <2>1, SubSeqProperties
    <3> QED
      BY <1>1, <1>2, <2>1, <3>2
  <2>2. CASE ~long
    BY <1>2, <2>2
  <2> QED
    BY <2>1, <2>2
<1>4. long => Len(chain) = expected
  BY <1>1, <1>2
<1>5. ~long /\ expected # 0 /\ ~(Len(walk.chain) < expected) => Len(chain) = expected
  BY <1>1, <1>2
<1>6. IsInjective(chain)
  <2> HIDE DEF chain
  <2> QED
    BY <1>2, <1>3 DEF IsInjective
<1>7. state = "allocated_intact" => \A i \in DOMAIN chain : walk.fat[chain[i]] # 0
  <2> HIDE DEF chain
  <2> QED
    BY <1>3 DEF IsSoundWalk
<1>8. state = "allocated_intact" => Len(chain) = expected \/ size = 0
  BY <1>1, <1>4, <1>5
<1>9. <<>> \in Seq(Clusters) /\ IsInjective(<<>>) /\ \A i \in DOMAIN <<>> : walk.fat[<<>>[i]] # 0
  BY DEF IsInjective
<1>10. e = IF size = 0 /\ first < 2 THEN Chain(<<>>, "allocated_intact", "certain")
           ELSE IF first \notin Clusters THEN Chain(<<>>, "partial", "low")
           ELSE IF state # "allocated_intact" THEN Chain(chain, state, "low")
           ELSE IF broken THEN Chain(chain, "allocated_fragmented", "high")
           ELSE Chain(chain, state, IF long THEN "high" ELSE "certain")
  BY DEF AllocatedChain, expected
<1> HIDE DEF e, chain, state, long, broken
<1>11. \/ e = Chain(<<>>, "allocated_intact", "certain") /\ size = 0
       \/ e = Chain(<<>>, "partial", "low")
       \/ e = Chain(chain, state, "low")
       \/ state = "allocated_intact" /\ \E s : \E c \in {"certain", "high"} : e = Chain(chain, s, c)
  BY <1>10
<1>12. CASE e = Chain(<<>>, "allocated_intact", "certain") /\ size = 0
  <2>1. e.clusters = <<>>
    BY <1>12 DEF Chain
  <2> QED
    BY <1>9, <1>12, <2>1 DEF e
<1>13. CASE e = Chain(<<>>, "partial", "low")
  <2>1. e.clusters = <<>> /\ e.confidence = "low"
    BY <1>13 DEF Chain
  <2> QED
    BY <1>9, <2>1 DEF e
<1>14. CASE e = Chain(chain, state, "low")
  <2>1. e.clusters = chain /\ e.confidence = "low"
    BY <1>14 DEF Chain
  <2> QED
    BY <1>3, <1>6, <2>1 DEF e
<1>15. CASE state = "allocated_intact" /\ \E s : \E c \in {"certain", "high"} : e = Chain(chain, s, c)
  <2>1. e.clusters = chain
    BY <1>15 DEF Chain
  <2> QED
    BY <1>3, <1>6, <1>7, <1>8, <1>15, <2>1 DEF e, expected
<1> QED
  BY <1>11, <1>12, <1>13, <1>14, <1>15

LEMMA DeletedIsSound ==
    ASSUME NEW fat, NEW first \in Nat, NEW size \in Nat
    PROVE  LET e == DeletedChain(first, size, fat)
           IN /\ e.clusters \in Seq(Clusters) /\ IsInjective(e.clusters)
              /\ e.confidence \in {"certain", "high", "medium"} =>
                    /\ Len(e.clusters) = ClustersForSize(size)
                    /\ \A i \in DOMAIN e.clusters : fat[e.clusters[i]] = 0
<1> DEFINE e == DeletedChain(first, size, fat)
           count == ClustersForSize(size)
           candidate == [i \in 1 .. count |-> first + i - 1]
<1>1. count \in Nat /\ ClusterCount \in Nat
  BY ClustersAsked, FatAssumption
<1> HIDE DEF count
<1>2. e = IF first < 2 \/ count = 0 THEN Chain(<<>>, "deleted_metadata_only", "unknown")
          ELSE IF first + count - 1 > ClusterCount + 1 THEN Chain(<<>>, "deleted_partial", "low")
          ELSE IF \E i \in DOMAIN candidate : fat[candidate[i]] # 0
               THEN Chain(<<>>, "deleted_reused", "low")
          ELSE Chain(candidate, "deleted_contiguous_candidate", "medium")
  BY DEF DeletedChain, count
<1>3. CASE \E s : \E c \in {"unknown", "low"} : e = Chain(<<>>, s, c)
  <2>1. e.clusters = <<>> /\ e.confidence \in {"unknown", "low"}
    BY <1>3 DEF Chain
  <2>2. <<>> \in Seq(Clusters) /\ IsInjective(<<>>)
    BY DEF IsInjective
  <2> HIDE DEF e
  <2> QED
    BY <2>1, <2>2 DEF e
<1>4. CASE /\ e = Chain(candidate, "deleted_contiguous_candidate", "medium")
           /\ first >= 2 /\ first + count - 1 <= ClusterCount + 1
           /\ \A i \in DOMAIN candidate : fat[candidate[i]] = 0
  <2>1. \A i \in 1 .. count : i \in Nat /\ candidate[i] = first + i - 1 /\ candidate[i] \in Clusters
    <3> SUFFICES ASSUME NEW i \in 1 .. count
                 PROVE  i \in Nat /\ first + i - 1 \in Clusters
      OBVIOUS
    <3>1. i \in Nat /\ 1 <= i /\ i <= count
      BY <1>1
    <3> QED
      BY <1>1, <1>4, <3>1 DEF Clusters
  <2>2. candidate = [i \in 1 .. count |-> candidate[i]] /\ DOMAIN candidate = 1 .. count
    OBVIOUS
  <2> HIDE DEF candidate
  <2>3. candidate \in Seq(Clusters) /\ Len(candidate) = count
    <3>1. candidate \in [1 .. count -> Clusters]
      BY <2>1, <2>2
    <3>2. candidate \in Seq(Clusters)
      BY ONLY <1>1, <3>1, SeqDef
    <3> QED
      BY <1>1, <2>2, <3>2
  <2>4. IsInjective(candidate)
    BY <1>1, <2>1, <2>2 DEF IsInjective
  <2>5. e.clusters = candidate
    BY <1>4 DEF Chain
  <2> HIDE DEF e
  <2> QED
    BY <1>4, <2>3, <2>4, <2>5 DEF e, count
<1>5. \/ \E s : \E c \in {"unknown", "low"} : e = Chain(<<>>, s, c)
      \/ /\ e = Chain(candidate, "deleted_contiguous_candidate", "medium")
         /\ first >= 2 /\ first + count - 1 <= ClusterCount + 1
         /\ \A i \in DOMAIN candidate : fat[candidate[i]] = 0
  <2>1. first >= 2 \/ first < 2
    OBVIOUS
  <2>2. first + count - 1 <= ClusterCount + 1 \/ first + count - 1 > ClusterCount + 1
    BY <1>1
  <2> HIDE DEF e, candidate
  <2> QED
    BY <1>2, <2>1, <2>2
<1> QED
  BY <1>3, <1>4, <1>5

(* What a scan reports of a medium from a sound walk along its FAT. *)
LEMMA ScanHolds ==
    ASSUME NEW disk, IsFloppy(disk), disk.good # {}, NEW walk, IsSoundWalk(disk, walk), NEW found,
           found = [at |-> "done", entry |-> ParseEntry(disk.entry, walk, disk.bad),
                    ranges |-> FreeClusterRanges(walk.fat, disk.bad)]
    PROVE  IsSoundScan(disk, found)
<1> DEFINE bad == disk.bad
           fat == walk.fat
           free == FreeSectors(fat, bad)
           carved == UNION {r[1] .. r[1] + r[2] - 1 : r \in found.ranges}
           first == disk.entry.first
           size == disk.entry.size
           gone == disk.entry.deleted
           chain == IF gone THEN DeletedChain(first, size, fat)
                    ELSE AllocatedChain(first, size, walk)
           e == found.entry
           content == SectorsOfChain(e.clusters)
           sure == {"certain", "high", "medium"}
<1>1. first \in Nat /\ size \in Nat /\ gone \in BOOLEAN
  BY DEF IsFloppy
<1>2. found.ranges = Runs(free) /\ e = ParseEntry(disk.entry, walk, bad)
  BY DEF FreeClusterRanges
<1>3. \A s : s \in free <=> s \notin bad /\ \E c \in Clusters : fat[c] = 0 /\ s \in SectorsOf(c)
  <2>1. free = (UNION {SectorsOf(c) : c \in {k \in Clusters : fat[k] = 0}}) \ bad
    BY DEF FreeSectors
  <2> HIDE DEF free, fat, bad
  <2> DEFINE unused == {k \in Clusters : fat[k] = 0}
             sectors == {SectorsOf(c) : c \in unused}
  <2>2. \A s : s \in free <=> s \notin bad /\ \E z \in sectors : s \in z
    BY <2>1, Zenon
  <2>3. \A z : z \in sectors <=> \E c \in unused : z = SectorsOf(c)
    OBVIOUS
  <2>4. \A c : c \in unused <=> c \in Clusters /\ fat[c] = 0
    OBVIOUS
  <2> HIDE DEF sectors, unused
  <2> QED
    BY <2>2, <2>3, <2>4
<1>4. carved = free /\ \A r, q \in found.ranges : r # q => r[1] + r[2] < q[1] \/ q[1] + q[2] < r[1]
  <2> DEFINE B == FirstDataSector + ClusterCount * SectorsPerCluster
  <2>1. B \in Nat
    BY FatAssumption
  <2>2. free \in SUBSET Nat /\ \A s \in free : s <= B
    <3> HIDE DEF free
    <3> QED
      BY <1>3, SectorsApart
  <2> HIDE DEF free, B
  <2>3. /\ UNION {r[1] .. r[1] + r[2] - 1 : r \in Runs(free)} = free
        /\ \A r, q \in Runs(free) : r # q => r[1] + r[2] < q[1] \/ q[1] + q[2] < r[1]
    BY ONLY <2>1, <2>2, RunsCover
  <2> QED
    BY <1>2, <2>3
<1>5. \A c \in Clusters : fat[c] = disk.values[c]
  BY DEF IsSoundWalk
<1> HIDE DEF free
<1>6. carved = {s \in UNION {SectorsOf(c) : c \in Clusters} :
                   s \notin bad /\ \E c \in Clusters : disk.values[c] = 0 /\ s \in SectorsOf(c)}
  <2> HIDE DEF carved, bad, fat
  <2>1. \A s : s \in carved <=>
            s \notin bad /\ \E c \in Clusters : disk.values[c] = 0 /\ s \in SectorsOf(c)
    BY <1>3, <1>4, <1>5
  <2> QED
    BY <2>1
<1>7. /\ chain.clusters \in Seq(Clusters) /\ IsInjective(chain.clusters)
      /\ chain.confidence \in sure =>
            /\ Len(chain.clusters) = ClustersForSize(size) \/ size = 0
            /\ \A i \in DOMAIN chain.clusters : gone <=> fat[chain.clusters[i]] = 0
  <2>1. CASE gone
    <3>1. chain = DeletedChain(first, size, fat)
      BY <2>1
    <3> HIDE DEF chain, fat, first, size
    <3> QED
      BY <1>1, <2>1, <3>1, DeletedIsSound
  <2>2. CASE ~gone
    <3>1. chain = AllocatedChain(first, size, walk)
      BY <2>2
    <3> HIDE DEF chain, first, size
    <3> QED
      BY <1>1, <2>2, <3>1, AllocatedIsSound
  <2> QED
    BY <1>1, <2>1, <2>2
<1>8. e = IF SectorsOfChain(chain.clusters) \cap bad # {}
          THEN Chain(chain.clusters, "partial_bad_sector", "low") ELSE chain
  BY <1>2, Zenon DEF ParseEntry
<1> HIDE DEF chain, e, bad
<1>9. e.clusters = chain.clusters
  BY <1>8 DEF Chain
<1>10. e.confidence \in sure => e.confidence = chain.confidence /\ content \cap bad = {}
  <2>1. CASE SectorsOfChain(chain.clusters) \cap bad # {}
    <3>1. e.confidence = "low"
      BY <1>8, <2>1 DEF Chain
    <3> QED
      BY <3>1
  <2>2. CASE SectorsOfChain(chain.clusters) \cap bad = {}
    <3>1. e = chain
      BY <1>8, <2>2
    <3> QED
      BY <2>2, <3>1
  <2> QED
    BY <2>1, <2>2
<1>11. \A c : c \in ToSet(e.clusters) <=> \E i \in DOMAIN e.clusters : c = e.clusters[i]
  BY DEF ToSet
<1>12. \A i \in DOMAIN e.clusters : e.clusters[i] \in Clusters
  BY <1>7, <1>9, ElementOfSeq
<1>13. ToSet(e.clusters) \subseteq Clusters
  BY <1>11, <1>12
<1>14. \A s : s \in content <=> \E c \in ToSet(e.clusters) : s \in SectorsOf(c)
  BY DEF SectorsOfChain
<1> HIDE DEF content, carved, fat, gone, size, sure
<1>15. ASSUME e.confidence \in sure
       PROVE  /\ Len(e.clusters) = ClustersForSize(size) \/ size = 0
              /\ content \cap bad = {}
              /\ IF gone THEN content \subseteq carved ELSE content \cap carved = {}
  <2>1. /\ Len(e.clusters) = ClustersForSize(size) \/ size = 0
        /\ \A c \in ToSet(e.clusters) : gone <=> fat[c] = 0
    BY <1>7, <1>9, <1>10, <1>11, <1>15
  <2>2. content \cap bad = {}
    BY <1>10, <1>15
  <2>3. CASE gone
    <3>1. ASSUME NEW s \in content PROVE s \in carved
      <4>1. PICK c \in ToSet(e.clusters) : s \in SectorsOf(c)
        BY <1>14
      <4>2. fat[c] = 0 /\ c \in Clusters /\ s \notin bad
        BY <1>13, <2>1, <2>2, <2>3
      <4> QED
        BY <1>3, <1>4, <4>1, <4>2
    <3> QED
      BY <2>1, <2>2, <2>3, <3>1
  <2>4. CASE ~gone
    <3>1. ASSUME NEW s \in content, s \in carved PROVE FALSE
      <4>1. PICK c \in ToSet(e.clusters) : s \in SectorsOf(c)
        BY <1>14
      <4>2. fat[c] # 0 /\ c \in Clusters
        BY <1>13, <2>1, <2>4
      <4>3. PICK d \in Clusters : fat[d] = 0 /\ s \in SectorsOf(d)
        BY <1>3, <1>4, <3>1
      <4>4. c # d
        BY <4>2, <4>3
      <4> QED
        BY <4>1, <4>2, <4>3, <4>4, SectorsApart
    <3> QED
      BY <2>1, <2>2, <2>4, <3>1
  <2> QED
    BY <2>3, <2>4
<1>16. IsInjective(e.clusters)
  BY <1>7, <1>9
<1> QED
  BY <1>4, <1>6, <1>13, <1>15, <1>16
     DEF IsSoundScan, content, carved, e, gone, size, sure, bad

LEMMA ReadFatInv == FatInv /\ ReadFat => FatInv'
<1> SUFFICES ASSUME FatInv, ReadFat PROVE FatInv'
  OBVIOUS
<1> DEFINE walk == [at |-> "walking", fat |-> SelectFat(floppy.copies), chain |-> <<>>,
                    cursor |-> floppy.entry.first, state |-> "allocated_intact"]
<1>1. floppy' = floppy /\ scan' = walk /\ IsFloppy(floppy)
  BY DEF ReadFat, FatInv
<1>2. /\ SelectFat(floppy.copies) \in [0 .. ClusterCount + 1 -> Nat]
      /\ floppy.good # {} => \A c \in Clusters : SelectFat(floppy.copies)[c] = floppy.values[c]
  BY <1>1, FatIsRead DEF IsFloppy
<1>3. IsSoundWalk(floppy, walk)
  <2>1. <<>> \in Seq(Clusters) /\ IsInjective(<<>>) /\ DOMAIN <<>> = {}
    BY DEF IsInjective
  <2>2. floppy.entry.first \in Nat
    BY <1>1 DEF IsFloppy
  <2> QED
    BY <1>2, <2>1, <2>2 DEF IsSoundWalk
<1>4. walk.at = "walking"
  OBVIOUS
<1> HIDE DEF walk
<1> QED
  BY <1>1, <1>3, <1>4 DEF FatInv, ScanIsSound

LEMMA FollowFatInv == FatInv /\ FollowFat => FatInv'
<1> SUFFICES ASSUME FatInv, FollowFat PROVE FatInv'
  OBVIOUS
<1> DEFINE cursor == scan.cursor
           next == scan.fat[cursor]
           longer == Append(scan.chain, cursor)
<1>1. floppy' = floppy /\ IsFloppy(floppy) /\ IsSoundWalk(floppy, scan) /\ scan.at = "walking"
  BY DEF FollowFat, FatInv
<1>2. \/ \E s \in {scan.state, "partial"} : scan' = Walked(scan.chain, s)
      \/ /\ cursor \in Clusters /\ cursor \notin ToSet(scan.chain)
         /\ \/ next >= EocMin /\ scan' = Walked(longer, scan.state)
            \/ \E s \in {"partial", "partial_bad_sector"} : scan' = Walked(longer, s)
            \/ /\ ~(next < 2)
               /\ scan' = [at |-> "walking", fat |-> scan.fat, chain |-> longer, cursor |-> next,
                           state |-> scan.state]
  <2> DEFINE stops == \/ cursor \notin Clusters \/ Len(scan.chain) > ClusterCount
                      \/ floppy.entry.deleted
  <2> HIDE DEF stops
  <2>1. scan' = IF stops THEN Walked(scan.chain, scan.state)
                ELSE IF cursor \in ToSet(scan.chain) THEN Walked(scan.chain, "partial")
                ELSE IF next >= EocMin THEN Walked(longer, scan.state)
                ELSE IF next = BadCluster THEN Walked(longer, "partial_bad_sector")
                ELSE IF next < 2 \/ next >= ReservedMin THEN Walked(longer, "partial")
                ELSE [at |-> "walking", fat |-> scan.fat, chain |-> longer, cursor |-> next,
                      state |-> scan.state]
    BY DEF FollowFat, stops
  <2>2. ~stops => cursor \in Clusters
    BY DEF stops
  <2> DEFINE on == [at |-> "walking", fat |-> scan.fat, chain |-> longer, cursor |-> next,
                    state |-> scan.state]
  <2> HIDE DEF cursor, next, longer, on
  <2>3. /\ scan.state \in {scan.state, "partial"} /\ "partial" \in {scan.state, "partial"}
        /\ "partial" \in {"partial", "partial_bad_sector"}
        /\ "partial_bad_sector" \in {"partial", "partial_bad_sector"}
    OBVIOUS
  <2> QED
    BY <2>1, <2>2, <2>3
<1>3. ASSUME NEW chain, NEW state, scan' = Walked(chain, state)
      PROVE  /\ scan'.at = "walked" /\ scan'.chain = chain /\ scan'.state = state
             /\ scan'.fat = scan.fat /\ scan'.cursor = scan.cursor
  BY <1>3 DEF Walked
<1>4. /\ scan.chain \in Seq(Clusters) /\ IsInjective(scan.chain) /\ cursor \in Nat
      /\ scan.fat \in [0 .. ClusterCount + 1 -> Nat]
      /\ scan.state \in {"allocated_intact", "partial", "partial_bad_sector"}
      /\ scan.state = "allocated_intact" => \A i \in DOMAIN scan.chain : scan.fat[scan.chain[i]] # 0
      /\ floppy.good # {} => \A c \in Clusters : scan.fat[c] = floppy.values[c]
  BY <1>1 DEF IsSoundWalk
<1>5. ASSUME cursor \in Clusters, cursor \notin ToSet(scan.chain)
      PROVE  /\ longer \in Seq(Clusters) /\ IsInjective(longer) /\ next \in Nat
             /\ scan.state = "allocated_intact" /\ next # 0 =>
                    \A i \in DOMAIN longer : scan.fat[longer[i]] # 0
  <2> DEFINE n == Len(scan.chain)
  <2>1. /\ n \in Nat /\ DOMAIN scan.chain = 1 .. n /\ longer \in Seq(Clusters)
        /\ DOMAIN longer = 1 .. n + 1 /\ longer[n + 1] = cursor
        /\ \A i \in 1 .. n : longer[i] = scan.chain[i]
    BY <1>4, <1>5
  <2>2. \A i \in 1 .. n : longer[i] # cursor
    BY <1>5, <2>1 DEF ToSet
  <2>3. \A i \in 1 .. n + 1 : i \in 1 .. n \/ i = n + 1
    BY <2>1
  <2>4. \A i, j \in 1 .. n : longer[i] = longer[j] => i = j
    BY <1>4, <2>1 DEF IsInjective
  <2>5. next \in Nat
    <3>1. cursor \in 0 .. ClusterCount + 1
      BY <1>5, FatAssumption DEF Clusters
    <3> QED
      BY <1>4, <3>1
  <2> HIDE DEF longer, n, next
  <2>6. IsInjective(longer)
    BY <2>1, <2>2, <2>3, <2>4 DEF IsInjective
  <2>7. scan.state = "allocated_intact" /\ next # 0 =>
            \A i \in DOMAIN longer : scan.fat[longer[i]] # 0
    BY <1>4, <2>1, <2>3 DEF next
  <2> QED
    BY <2>1, <2>5, <2>6, <2>7
<1> HIDE DEF longer
<1>6. CASE \E s \in {scan.state, "partial"} : scan' = Walked(scan.chain, s)
  <2>1. PICK s \in {scan.state, "partial"} : scan' = Walked(scan.chain, s)
    BY <1>6
  <2>2. /\ scan'.at = "walked" /\ scan'.chain = scan.chain /\ scan'.state = s
        /\ scan'.fat = scan.fat /\ scan'.cursor = scan.cursor
    BY <1>3, <2>1
  <2>3. IsSoundWalk(floppy, scan')
    BY <1>4, <2>1, <2>2 DEF IsSoundWalk
  <2> QED
    BY <1>1, <2>2, <2>3 DEF FatInv, ScanIsSound
<1>7. CASE cursor \in Clusters /\ cursor \notin ToSet(scan.chain) /\ next >= EocMin
           /\ scan' = Walked(longer, scan.state)
  <2>1. /\ scan'.at = "walked" /\ scan'.chain = longer /\ scan'.state = scan.state
        /\ scan'.fat = scan.fat /\ scan'.cursor = scan.cursor
    BY <1>3, <1>7
  <2>2. next # 0
    BY <1>5, <1>7 DEF EocMin
  <2> HIDE DEF next
  <2>3. IsSoundWalk(floppy, scan')
    BY <1>4, <1>5, <1>7, <2>1, <2>2 DEF IsSoundWalk
  <2> QED
    BY <1>1, <2>1, <2>3 DEF FatInv, ScanIsSound
<1>8. CASE cursor \in Clusters /\ cursor \notin ToSet(scan.chain)
           /\ \E s \in {"partial", "partial_bad_sector"} : scan' = Walked(longer, s)
  <2>1. PICK s \in {"partial", "partial_bad_sector"} : scan' = Walked(longer, s)
    BY <1>8
  <2>2. /\ scan'.at = "walked" /\ scan'.chain = longer /\ scan'.state = s
        /\ scan'.fat = scan.fat /\ scan'.cursor = scan.cursor
    BY <1>3, <2>1
  <2> HIDE DEF next
  <2>3. s # "allocated_intact"
    BY <2>1
  <2>4. IsSoundWalk(floppy, scan')
    BY <1>4, <1>5, <1>8, <2>1, <2>2, <2>3 DEF IsSoundWalk
  <2> QED
    BY <1>1, <2>2, <2>4 DEF FatInv, ScanIsSound
<1>9. CASE cursor \in Clusters /\ cursor \notin ToSet(scan.chain) /\ ~(next < 2)
           /\ scan' = [at |-> "walking", fat |-> scan.fat, chain |-> longer, cursor |-> next,
                       state |-> scan.state]
  <2>1. next \in Nat /\ next # 0
    BY <1>5, <1>9
  <2> HIDE DEF next
  <2>2. /\ scan'.at = "walking" /\ scan'.chain = longer /\ scan'.state = scan.state
        /\ scan'.fat = scan.fat /\ scan'.cursor = next
    BY <1>9
  <2>3. IsSoundWalk(floppy, scan')
    BY <1>4, <1>5, <1>9, <2>1, <2>2 DEF IsSoundWalk
  <2> QED
    BY <1>1, <2>2, <2>3 DEF FatInv, ScanIsSound
<1> QED
  BY <1>2, <1>6, <1>7, <1>8, <1>9

LEMMA ScanFatInv == FatInv /\ ScanFat12 => FatInv'
<1> SUFFICES ASSUME FatInv, ScanFat12 PROVE FatInv'
  OBVIOUS
<1> DEFINE found == [at |-> "done", entry |-> ParseEntry(floppy.entry, scan, floppy.bad),
                     ranges |-> FreeClusterRanges(scan.fat, floppy.bad)]
<1>1. /\ floppy' = floppy /\ scan' = found /\ IsFloppy(floppy) /\ IsSoundWalk(floppy, scan)
  BY DEF ScanFat12, FatInv
<1>2. floppy.good # {} => IsSoundScan(floppy, found)
  <2> SUFFICES ASSUME floppy.good # {} PROVE IsSoundScan(floppy, found)
    OBVIOUS
  <2> QED
    BY <1>1, ScanHolds, Zenon
<1>3. found.at = "done"
  OBVIOUS
<1> HIDE DEF found
<1> QED
  BY <1>1, <1>2, <1>3 DEF FatInv, ScanIsSound

(* scan_fat12 reports a medium as it is, whatever its FAT holds, however many copies of  *)
(* it are good and whichever sectors cannot be read (ScanIsSound): no cluster twice in a *)
(* file, no file with more than low confidence that is not whole, and what is left to    *)
(* carve is the readable free space, all of it and nothing else.                         *)
THEOREM ScansAreSound == FatSpec => []ScanIsSound
<1>1. FatInit => FatInv
  <2> SUFFICES ASSUME FatInit PROVE FatInv
    OBVIOUS
  <2>1. PICK values \in [Clusters -> FatValues], first \in 0 .. ClusterCount + 2,
             size \in 0 .. MaxSize, gone \in BOOLEAN, bad \in BadSectorSets,
             good \in SUBSET {1, 2} :
          floppy = [values |-> values,
                    copies |-> [c \in {1, 2} |->
                        Packed(FatOf(values, IF c \in good THEN MediaHeader ELSE 0))],
                    good |-> good, bad |-> bad,
                    entry |-> [first |-> first, size |-> size, deleted |-> gone]]
    BY DEF FatInit
  <2>2. first \in Nat /\ size \in Nat
    OBVIOUS
  <2>3. IsFloppy(floppy)
    BY <2>1, <2>2 DEF IsFloppy
  <2>4. scan.at = "new"
    BY DEF FatInit, NotScanned
  <2> QED
    BY <2>3, <2>4 DEF FatInv, ScanIsSound
<1>2. FatInv /\ [FatNext]_fatVars => FatInv'
  <2> SUFFICES ASSUME FatInv, [FatNext]_fatVars PROVE FatInv'
    OBVIOUS
  <2>1. CASE UNCHANGED fatVars
    BY <2>1 DEF fatVars, FatInv, ScanIsSound
  <2> QED
    BY <2>1, ReadFatInv, FollowFatInv, ScanFatInv DEF FatNext
<1>3. FatInv => ScanIsSound
  BY DEF FatInv
<1> QED
  BY <1>1, <1>2, <1>3, PTL DEF FatSpec

=============================================================================
