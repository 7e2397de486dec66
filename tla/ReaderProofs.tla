---------------------------- MODULE ReaderProofs ----------------------------
(***************************************************************************)
(* Proofs about those who read what others write, in order and in pieces:  *)
(* the event log of a case tells the truth and its readers are served      *)
(* (EventOutbox), what a scanner sends is decoded once and in order        *)
(* (ScannerMessages), and a list of findings (Review), a table or a        *)
(* gallery (FindingViews) read page by page is complete, whatever the      *)
(* number of writers, readers, lines, findings and pages.                  *)
(***************************************************************************)
EXTENDS EventOutbox, ScannerMessages, Review, FindingViews, FiniteSetTheorems, SequenceTheorems,
        TLAPS

(* How many elements of a set have no greater number than this one. *)
Rank(S, key, x) == Cardinality({y \in S : key[y] <= key[x]})

(* The elements of a finite set that a number tells apart are counted off by *)
(* their ranks.                                                              *)
LEMMA Ranked ==
    ASSUME NEW S, IsFiniteSet(S), NEW key \in [S -> Nat],
           \A x, y \in S : key[x] = key[y] => x = y
    PROVE  /\ \A x \in S : Rank(S, key, x) \in 1 .. Cardinality(S)
           /\ \A x, y \in S : key[x] < key[y] => Rank(S, key, x) < Rank(S, key, y)
           /\ \A i \in 1 .. Cardinality(S) : \E x \in S : Rank(S, key, x) = i
<1> DEFINE below(x) == {y \in S : key[y] <= key[x]}
           rank(x) == Cardinality(below(x))
           n == Cardinality(S)
           R == [x \in S |-> rank(x)]
<1>1. ASSUME NEW x \in S PROVE IsFiniteSet(below(x)) /\ rank(x) \in 1 .. n
  <2>1. below(x) \in SUBSET S
    OBVIOUS
  <2>2. IsFiniteSet(below(x)) /\ rank(x) <= n
    BY <2>1, FS_Subset
  <2>3. rank(x) \in Nat /\ n \in Nat
    BY <2>2, FS_CardinalityType
  <2>4. x \in below(x)
    OBVIOUS
  <2>5. rank(x) # 0
    BY <2>2, <2>4, FS_EmptySet
  <2> QED
    BY <2>2, <2>3, <2>5
<1>2. ASSUME NEW x \in S, NEW y \in S, key[x] < key[y] PROVE rank(x) < rank(y)
  <2>1. below(x) \in SUBSET below(y)
    BY <1>2
  <2>2. y \in below(y) /\ y \notin below(x)
    BY <1>2
  <2>3. IsFiniteSet(below(y))
    BY <1>1
  <2>4. rank(x) <= rank(y) /\ rank(x) # rank(y)
    BY <2>1, <2>2, <2>3, FS_Subset
  <2>5. rank(x) \in Nat /\ rank(y) \in Nat
    BY <1>1
  <2> QED
    BY <2>4, <2>5
<1>3. n \in Nat
  BY FS_CardinalityType
<1>4. \A i \in 1 .. n : \E x \in S : rank(x) = i
  <2>1. R \in [S -> 1 .. n]
    BY <1>1
  <2>2. \A x, y \in S : R[x] = R[y] => x = y
    <3> SUFFICES ASSUME NEW x \in S, NEW y \in S, x # y PROVE rank(x) # rank(y)
      OBVIOUS
    <3>1. key[x] < key[y] \/ key[y] < key[x]
      OBVIOUS
    <3>2. rank(x) < rank(y) \/ rank(y) < rank(x)
      BY <3>1, <1>2
    <3>3. rank(x) \in Nat /\ rank(y) \in Nat
      BY <1>1
    <3> HIDE DEF rank
    <3> QED
      BY <3>2, <3>3
  <2>3. R \in Injection(S, 1 .. n)
    <3> HIDE DEF R, n
    <3> QED
      BY <2>1, <2>2 DEF Injection, IsInjective
  <2>4. IsFiniteSet(1 .. n) /\ Cardinality(1 .. n) = n
    BY <1>3, FS_Interval
  <2>5. R \in Surjection(S, 1 .. n)
    BY <2>3, <2>4, FS_Injection
  <2>6. \A i \in 1 .. n : \E x \in S : R[x] = i
    BY <2>5 DEF Surjection
  <2> QED
    BY <2>6
<1> QED
  BY <1>1, <1>2, <1>4 DEF Rank

(* A finite set of numbers that is not empty has a greatest one. *)
LEMMA MaxOf ==
    ASSUME NEW S \in SUBSET Nat, IsFiniteSet(S), S # {}
    PROVE  Max(S) \in S /\ \A y \in S : y <= Max(S)
<1> DEFINE key == [x \in S |-> x]
           below(x) == {y \in S : key[y] <= key[x]}
<1>1. Cardinality(S) \in 1 .. Cardinality(S)
  BY FS_CardinalityType, FS_EmptySet
<1>2. key \in [S -> Nat] /\ \A x, y \in S : key[x] = key[y] => x = y
  OBVIOUS
<1>3. PICK x \in S : Cardinality(below(x)) = Cardinality(S)
  <2>1. \A i \in 1 .. Cardinality(S) : \E x \in S : Rank(S, key, x) = i
    <3> HIDE DEF key
    <3> QED
      BY <1>2, Ranked
  <2> QED
    BY <1>1, <2>1 DEF Rank
<1>4. below(x) = S
  <2>1. below(x) \in SUBSET S
    OBVIOUS
  <2> HIDE DEF below
  <2> QED
    BY <1>3, <2>1, FS_Subset
<1>5. \A y \in S : x >= y
  BY <1>4
<1>6. \E m \in S : \A y \in S : m >= y
  BY <1>5
<1>7. Max(S) \in S /\ \A y \in S : Max(S) >= y
  BY <1>6 DEF Max
<1> QED
  BY <1>7

(* Rows behind a cursor, in order, and no row that lies between them is left *)
(* out.                                                                      *)
FirstRows(page, after) ==
    /\ page \in Seq(EventType)
    /\ \A i \in DOMAIN page : page[i] \in events /\ after < page[i].seq
    /\ \A i, k \in DOMAIN page : k < i => page[k].seq < page[i].seq
    /\ \A i \in DOMAIN page : \A e \in events :
          after < e.seq /\ e.seq <= page[i].seq => \E k \in 1 .. i : page[k] = e

(* list_events returns the first rows behind the cursor. *)
LEMMA PageIsFirst ==
    ASSUME OutboxTypeOK, RowsApart, NEW after \in Nat
    PROVE  FirstRows(list_events(after), after)
<1> DEFINE page == list_events(after)
<1> DEFINE L == Later(after)
           key == [e \in L |-> e.seq]
           n == PageSize(after)
<1>1. L \in SUBSET events /\ events \subseteq EventType
  BY DEF OutboxTypeOK, Later
<1>2. IsFiniteSet(L)
  BY <1>1, FS_Subset DEF OutboxTypeOK
<1>3. \A e \in L : e.seq \in Nat /\ e.seq > after
  BY <1>1 DEF Later, EventType
<1>4. key \in [L -> Nat] /\ \A x, y \in L : key[x] = key[y] => x = y
  BY <1>1, <1>3 DEF RowsApart
<1>5. \A e \in L : Place(e, after) = Rank(L, key, e)
  BY DEF Place, Rank
<1>6. /\ \A x \in L : Place(x, after) \in 1 .. Cardinality(L)
      /\ \A x, y \in L : x.seq < y.seq => Place(x, after) < Place(y, after)
      /\ \A i \in 1 .. Cardinality(L) : \E x \in L : Place(x, after) = i
  <2>1. /\ \A x \in L : Rank(L, key, x) \in 1 .. Cardinality(L)
        /\ \A x, y \in L : key[x] < key[y] => Rank(L, key, x) < Rank(L, key, y)
        /\ \A i \in 1 .. Cardinality(L) : \E x \in L : Rank(L, key, x) = i
    <3> HIDE DEF L, key
    <3> QED
      BY <1>2, <1>4, Ranked
  <2>2. \A x \in L : key[x] = x.seq
    OBVIOUS
  <2> HIDE DEF L, key
  <2> QED
    BY <2>1, <2>2, <1>5
<1>7. Cardinality(L) \in Nat
  BY <1>2, FS_CardinalityType
<1>8. n \in Nat /\ n <= Cardinality(L)
  BY <1>7, LimitAssumption DEF PageSize
<1>9. \A x, y \in L : Place(x, after) = Place(y, after) => x = y
  <2> SUFFICES ASSUME NEW x \in L, NEW y \in L, x # y PROVE Place(x, after) # Place(y, after)
    OBVIOUS
  <2>1. x.seq < y.seq \/ y.seq < x.seq
    BY <1>1, <1>3 DEF RowsApart
  <2>2. Place(x, after) \in Nat /\ Place(y, after) \in Nat
    BY <1>6
  <2> HIDE DEF L
  <2> QED
    BY <2>1, <2>2, <1>6
<1>10. DOMAIN page = 1 .. n /\ \A i \in 1 .. n : page[i] = CHOOSE e \in L : Place(e, after) = i
  BY DEF list_events
<1>15. page = [i \in 1 .. n |-> page[i]]
  BY DEF list_events
<1> HIDE DEF page
<1>11. \A i \in 1 .. n : page[i] \in L /\ Place(page[i], after) = i
  <2> SUFFICES ASSUME NEW i \in 1 .. n PROVE page[i] \in L /\ Place(page[i], after) = i
    OBVIOUS
  <2>1. \E e \in L : Place(e, after) = i
    BY <1>6, <1>7, <1>8
  <2>2. page[i] = CHOOSE e \in L : Place(e, after) = i
    BY <1>10
  <2> HIDE DEF L
  <2> QED
    BY <2>1, <2>2, Zenon
<1>12. page \in Seq(EventType)
  <2>2. page \in [1 .. n -> EventType]
    BY <1>15, <1>10, <1>11, <1>1
  <2> QED
    BY <2>2, <1>8, SeqDef
<1>13. \A i, k \in 1 .. n : k < i => page[k].seq < page[i].seq
  <2> SUFFICES ASSUME NEW i \in 1 .. n, NEW k \in 1 .. n, k < i PROVE page[k].seq < page[i].seq
    OBVIOUS
  <2>1. page[k] \in L /\ page[i] \in L /\ Place(page[k], after) = k /\ Place(page[i], after) = i
    BY <1>11
  <2>2. page[k].seq \in Nat /\ page[i].seq \in Nat /\ page[k] # page[i]
    BY <2>1, <1>3
  <2>3. ~(page[i].seq < page[k].seq)
    <3> HIDE DEF L
    <3> QED
      BY <2>1, <1>6, <1>8
  <2>4. page[i].seq # page[k].seq
    BY <2>1, <2>2, <1>1 DEF RowsApart
  <2> QED
    BY <2>2, <2>3, <2>4
<1>14. ASSUME NEW i \in 1 .. n, NEW e \in events, after < e.seq, e.seq <= page[i].seq
       PROVE  \E k \in 1 .. i : page[k] = e
  <2>1. e \in L /\ e.seq \in Nat
    BY <1>14, <1>1 DEF Later, EventType
  <2>2. page[i] \in L /\ Place(page[i], after) = i /\ page[i].seq \in Nat
    BY <1>11, <1>3
  <2> DEFINE k == Place(e, after)
  <2>3. k \in 1 .. Cardinality(L)
    BY <2>1, <1>6
  <2>4. k <= i
    <3>1. CASE e = page[i]
      BY <3>1, <2>2
    <3>2. CASE e.seq < page[i].seq
      <4>1. k < i
        <5> HIDE DEF L
        <5> QED
          BY <3>2, <2>1, <2>2, <1>6
      <4> QED
        BY <4>1, <2>3, <1>7
    <3>3. e.seq = page[i].seq => e = page[i]
      BY <2>2, <1>1 DEF RowsApart
    <3> QED
      BY <3>1, <3>2, <3>3, <2>1, <2>2, <1>14
  <2>5. k \in 1 .. i /\ k \in 1 .. n
    BY <2>3, <2>4, <1>7, <1>8
  <2>6. page[k] = e
    BY <2>1, <2>5, <1>9, <1>11
  <2> QED
    BY <2>5, <2>6
<1> QED
  BY <1>10, <1>11, <1>12, <1>13, <1>14, <1>1, <1>3 DEF FirstRows, page

-----------------------------------------------------------------------------

(* What a writer remembers, by the statement it is at. *)
LEMMA CallKinds ==
    ASSUME OutboxTypeOK, NEW w \in Writers
    PROVE  /\ call[w].op = "transition" =>
                 call[w].job \in Jobs /\ call[w].from \in STATES /\ call[w].to \in STATES
           /\ call[w].op \in {"append", "insert"} =>
                 call[w].job \in Jobs \cup {NoJob} /\ call[w].to \in STATES \cup {"none"}
           /\ call[w].op = "insert" => call[w].seq \in Nat \ {0}
           /\ call[w] = Idle => call[w].op = "idle"
<1>1. call[w] \in CallType
  BY DEF OutboxTypeOK
<1> QED
  BY <1>1 DEF CallType, Idle

(* The sets that CommitsAccounted counts are finite. *)
LEMMA CountsAreNumbers ==
    ASSUME OutboxTypeOK, NEW j \in Jobs, NEW s
    PROVE  /\ IsFiniteSet(Reports(j, s)) /\ Cardinality(Reports(j, s)) \in Nat
           /\ IsFiniteSet(Pending(j, s)) /\ Cardinality(Pending(j, s)) \in Nat
           /\ IsFiniteSet(Entered(j, s)) /\ Cardinality(Entered(j, s)) \in Nat
<1>1. Reports(j, s) \in SUBSET events /\ IsFiniteSet(events)
  BY DEF Reports, OutboxTypeOK
<1>2. Pending(j, s) \in SUBSET Writers
  BY DEF Pending
<1>3. Entered(j, s) \in SUBSET (1 .. Len(history[j])) /\ Len(history[j]) \in Nat
  BY DEF Entered, OutboxTypeOK
<1>4. IsFiniteSet(1 .. Len(history[j]))
  BY <1>3, FS_Interval
<1> QED
  BY <1>1, <1>2, <1>3, <1>4, WritersAssumption, FS_Subset, FS_CardinalityType

(* A step that only changes what writer w remembers, so that it has no less  *)
(* to report than before of the states of the jobs, keeps the count.         *)
LEMMA CountKept ==
    ASSUME OutboxTypeOK, CommitsAccounted, UNCHANGED <<events, history>>,
           \A j \in Jobs : \A s \in STATES : Pending(j, s)' \subseteq Pending(j, s)
    PROVE  CommitsAccounted'
<1> SUFFICES ASSUME NEW j \in Jobs, NEW s \in STATES
             PROVE  Cardinality(Reports(j, s)') + Cardinality(Pending(j, s)')
                      <= Cardinality(Entered(j, s)')
  BY DEF CommitsAccounted
<1>1. Reports(j, s)' = Reports(j, s) /\ Entered(j, s)' = Entered(j, s)
  BY DEF Reports, Entered
<1>2. Pending(j, s)' \in SUBSET Pending(j, s)
  OBVIOUS
<1>3. IsFiniteSet(Pending(j, s)') /\ Cardinality(Pending(j, s)') <= Cardinality(Pending(j, s))
  BY <1>2, CountsAreNumbers, FS_Subset
<1>4. Cardinality(Pending(j, s)') \in Nat
  BY <1>3, FS_CardinalityType
<1>5. Cardinality(Reports(j, s)) + Cardinality(Pending(j, s)) <= Cardinality(Entered(j, s))
  BY DEF CommitsAccounted
<1> QED
  BY <1>1, <1>3, <1>4, <1>5, CountsAreNumbers

(* The steps of a writer between its statements: its readers and the log see *)
(* nothing of them.                                                          *)
OnlyWriter == UNCHANGED <<events, appended, compacted, readerVars>>

\* A writer that moves leaves the calls of the others as they are.
LEMMA WriterAlone ==
    ASSUME OutboxInv, OnlyWriter, OutboxTypeOK', \A j \in Jobs : history'[j] # <<>>,
           CommitsAccounted',
           \A w \in Writers :
               call'[w].op = "insert" => \A n \in 1 .. call'[w].seq - 1 : n \in Given
    PROVE  OutboxInv'
<1>1. Given' = Given
  BY DEF Given, Seqs, OnlyWriter
<1>2. NumbersDense'
  BY <1>1 DEF NumbersDense, OutboxInv, OnlyWriter, readerVars
<1>3. RowsApart' /\ BatchInOrder' /\ BatchIsComplete' /\ SentIsBehind'
  BY DEF RowsApart, BatchInOrder, BatchIsComplete, SentIsBehind, OutboxInv, OnlyWriter, readerVars
<1>4. SequenceFollowsCommits' /\ MissesOnlyReusedNumbers' /\ SentOnce'
  BY DEF SequenceFollowsCommits, MissesOnlyReusedNumbers, SentOnce, OutboxInv, OnlyWriter, readerVars
<1> QED
  BY <1>2, <1>3, <1>4 DEF OutboxInv

(* The last element of a sequence is one of its elements. *)
LEMMA LastInSeq ==
    ASSUME NEW S, NEW q \in Seq(S), q # <<>>
    PROVE  Last(q) \in S /\ Len(q) \in 1 .. Len(q) /\ Last(q) = q[Len(q)]
<1>1. Len(q) \in Nat \ {0}
  BY EmptySeq
<1>2. q[Len(q)] \in S
  BY <1>1, ElementOfSeq
<1> QED
  BY <1>1, <1>2 DEF Last

\* Reading a job changes nothing but the call (transition_job_and_append_event).
LEMMA TransitionReadKeeps ==
    ASSUME OutboxInv, NEW w \in Writers, NEW j \in Jobs, NEW to \in Targets,
           TransitionRead(w, j, to)
    PROVE  OutboxInv'
<1>1. OutboxTypeOK /\ OnlyWriter /\ history' = history
  BY DEF OutboxInv, TransitionRead, OnlyWriter
<1>2. State(j) \in STATES
  <2>1. history[j] \in Seq(STATES) /\ history[j] # <<>>
    BY <1>1 DEF OutboxInv, OutboxTypeOK
  <2> QED
    BY <2>1, LastInSeq DEF State
<1>3. call' = [call EXCEPT ![w] = [op |-> "transition", job |-> j, from |-> State(j), to |-> to]]
  BY DEF TransitionRead
<1>4. call'[w] \in CallType
  BY <1>2, <1>3, <1>1, TargetsAssumption DEF CallType, OutboxTypeOK
<1>5. OutboxTypeOK'
  BY <1>1, <1>3, <1>4 DEF OutboxTypeOK, OnlyWriter, readerVars
<1>6. call'[w].op = "transition" /\ \A v \in Writers : v # w => call'[v] = call[v]
  BY <1>1, <1>3 DEF OutboxTypeOK
<1>7. \A i \in Jobs : \A s \in STATES : Pending(i, s)' \subseteq Pending(i, s)
  BY <1>6 DEF Pending
<1>8. CommitsAccounted'
  BY <1>1, <1>7, CountKept DEF OutboxInv, OnlyWriter
<1>9. \A v \in Writers : call'[v].op = "insert" => \A n \in 1 .. call'[v].seq - 1 : n \in Given
  BY <1>6 DEF OutboxInv, NumbersDense
<1> QED
  BY <1>1, <1>5, <1>8, <1>9, WriterAlone DEF OutboxInv

(* record_medium_event and a crash give a writer no commit to report. *)
LEMMA MediumAndCrashKeep ==
    ASSUME OutboxInv, NEW w \in Writers, record_medium_event(w) \/ Crash(w)
    PROVE  OutboxInv'
<1> DEFINE medium == [op |-> "append", job |-> NoJob, to |-> "none"]
<1>1. OutboxTypeOK /\ OnlyWriter /\ history' = history
  BY DEF OutboxInv, record_medium_event, Crash, OnlyWriter
<1>2. PICK c \in {Idle, medium} : call' = [call EXCEPT ![w] = c]
  BY DEF record_medium_event, Crash
<1>3. c \in CallType
  BY DEF CallType
<1>4. OutboxTypeOK'
  BY <1>1, <1>2, <1>3 DEF OutboxTypeOK, OnlyWriter, readerVars
<1>5. call'[w] = c /\ \A v \in Writers : v # w => call'[v] = call[v]
  BY <1>1, <1>2 DEF OutboxTypeOK
<1>6. c.op # "insert" /\ (c.op = "append" => c.job = NoJob)
  BY DEF Idle
<1>7. \A i \in Jobs : \A s \in STATES : Pending(i, s)' \subseteq Pending(i, s)
  BY <1>5, <1>6, NoJobAssumption DEF Pending
<1>8. CommitsAccounted'
  BY <1>1, <1>7, CountKept DEF OutboxInv, OnlyWriter
<1>9. \A v \in Writers : call'[v].op = "insert" => \A n \in 1 .. call'[v].seq - 1 : n \in Given
  BY <1>5, <1>6 DEF OutboxInv, NumbersDense
<1> QED
  BY <1>1, <1>4, <1>8, <1>9, WriterAlone DEF OutboxInv

(* _next_sequence answers with a number that nothing in the log has, below   *)
(* which every number has been given out.                                    *)
LEMMA NextSequenceIsDense ==
    ASSUME OutboxTypeOK, NumbersDense
    PROVE  next_sequence \in Nat \ {0} /\ \A n \in 1 .. next_sequence - 1 : n \in Given
<1> DEFINE S == Seqs \cup {0}
           f == [e \in events |-> e.seq]
<1>1. \A e \in events : e.seq \in Nat
  BY DEF OutboxTypeOK, EventType
<1>2. Seqs \subseteq Nat
  BY <1>1 DEF Seqs
<1>3. IsFiniteSet(Seqs)
  <2>1. f \in Surjection(events, Seqs)
    BY DEF Surjection, Seqs
  <2> QED
    BY <2>1, FS_Surjection DEF OutboxTypeOK
<1>4. IsFiniteSet(S) /\ S \in SUBSET Nat /\ S # {}
  BY <1>2, <1>3, FS_AddElement
<1>5. Max(S) \in S
  <2> HIDE DEF S
  <2> QED
    BY <1>4, MaxOf
<1>6. next_sequence = Max(S) + 1 /\ Max(S) \in Nat
  BY <1>4, <1>5 DEF next_sequence
<1>7. CASE Max(S) = 0
  BY <1>6, <1>7
<1>8. CASE Max(S) \in Seqs
  <2>1. PICK e \in events : e.seq = Max(S)
    BY <1>8 DEF Seqs
  <2>2. \A n \in 1 .. e.seq : n \in Given
    BY DEF NumbersDense
  <2> HIDE DEF S
  <2> QED
    BY <2>1, <2>2, <1>6
<1> QED
  BY <1>5, <1>7, <1>8

\* append_event takes its number from what it reads.
LEMMA AppendSelectKeeps ==
    ASSUME OutboxInv, NEW w \in Writers, AppendSelect(w)
    PROVE  OutboxInv'
<1>1. OutboxTypeOK /\ OnlyWriter /\ history' = history /\ call[w].op = "append"
  BY DEF OutboxInv, AppendSelect, OnlyWriter
<1>2. PICK h : h = next_sequence
  OBVIOUS
<1>3. h \in Nat \ {0} /\ \A n \in 1 .. h - 1 : n \in Given
  BY <1>1, <1>2, NextSequenceIsDense DEF OutboxInv
<1>4. PICK c : c = [op |-> "insert", job |-> call[w].job, to |-> call[w].to, seq |-> h]
  OBVIOUS
<1>5. call' = [call EXCEPT ![w] = c]
  BY <1>2, <1>4 DEF AppendSelect
<1>6. c \in CallType
  BY <1>1, <1>3, <1>4, CallKinds DEF CallType
<1>7. OutboxTypeOK'
  BY <1>1, <1>5, <1>6 DEF OutboxTypeOK, OnlyWriter, readerVars
<1>8. call'[w] = c /\ \A v \in Writers : v # w => call'[v] = call[v]
  BY <1>1, <1>5 DEF OutboxTypeOK
<1>9. c.job = call[w].job /\ c.to = call[w].to /\ c.seq = h
  BY <1>4
<1>10. \A i \in Jobs : \A s \in STATES : Pending(i, s)' \subseteq Pending(i, s)
  BY <1>1, <1>8, <1>9 DEF Pending
<1>11. CommitsAccounted'
  BY <1>1, <1>10, CountKept DEF OutboxInv, OnlyWriter
<1>12. \A v \in Writers : call'[v].op = "insert" => \A n \in 1 .. call'[v].seq - 1 : n \in Given
  <2> SUFFICES ASSUME NEW v \in Writers, call'[v].op = "insert"
               PROVE  \A n \in 1 .. call'[v].seq - 1 : n \in Given
    OBVIOUS
  <2>1. CASE v = w
    BY <2>1, <1>3, <1>8, <1>9
  <2>2. CASE v # w
    BY <2>2, <1>8 DEF OutboxInv, NumbersDense
  <2> QED
    BY <2>1, <2>2
<1> QED
  BY <1>1, <1>7, <1>11, <1>12, WriterAlone DEF OutboxInv

(* The compare-and-swap: the state that a writer commits is one more entry   *)
(* of the job's history, and one more event to append.                       *)
LEMMA TransitionUpdateKeeps ==
    ASSUME OutboxInv, NEW w \in Writers, TransitionUpdate(w)
    PROVE  OutboxInv'
<1> DEFINE m == call[w]
           swapped == State(m.job) = m.from
<1>1. OutboxTypeOK /\ OnlyWriter /\ m.op = "transition"
  BY DEF OutboxInv, TransitionUpdate, OnlyWriter
<1>2. m.job \in Jobs /\ m.to \in STATES
  BY <1>1, CallKinds
<1>3. history[m.job] \in Seq(STATES) /\ history[m.job] # <<>>
  BY <1>1, <1>2 DEF OutboxInv, OutboxTypeOK
<1>4. PICK c : c = AfterTransition(m, swapped)
  OBVIOUS
<1>5. call' = [call EXCEPT ![w] = c]
  BY <1>4 DEF TransitionUpdate
<1>6. c \in CallType /\ c.op \in {"append", "idle"}
  BY <1>2, <1>4 DEF AfterTransition, CallType, Idle
<1>7. call'[w] = c /\ \A v \in Writers : v # w => call'[v] = call[v]
  BY <1>1, <1>5 DEF OutboxTypeOK
<1>8. call' \in [Writers -> CallType]
  BY <1>1, <1>5, <1>6 DEF OutboxTypeOK
<1>9. \A v \in Writers : call'[v].op = "insert" => \A n \in 1 .. call'[v].seq - 1 : n \in Given
  BY <1>6, <1>7 DEF OutboxInv, NumbersDense
<1>10. CASE ~swapped
  <2>1. history' = history /\ c.op = "idle"
    BY <1>4, <1>10 DEF TransitionUpdate, AfterTransition, Idle
  <2>2. \A i \in Jobs : \A s \in STATES : Pending(i, s)' \subseteq Pending(i, s)
    BY <1>7, <2>1 DEF Pending
  <2>3. CommitsAccounted'
    BY <1>1, <2>1, <2>2, CountKept DEF OutboxInv, OnlyWriter
  <2>4. OutboxTypeOK'
    BY <1>1, <1>8, <2>1 DEF OutboxTypeOK, OnlyWriter, readerVars
  <2> QED
    BY <1>1, <1>9, <2>1, <2>3, <2>4, WriterAlone DEF OutboxInv
<1>11. CASE swapped
  <2> DEFINE q == history[m.job]
             to == m.to
  <2>1. history' = [history EXCEPT ![m.job] = Append(q, to)]
    BY <1>11 DEF TransitionUpdate
  <2>2. c.op = "append" /\ c.job = m.job /\ c.to = to
    BY <1>4, <1>11 DEF AfterTransition
  <2>3. /\ Append(q, to) \in Seq(STATES) /\ Append(q, to) # <<>>
        /\ Len(Append(q, to)) = Len(q) + 1
        /\ \A i \in 1 .. Len(q) : Append(q, to)[i] = q[i]
        /\ Append(q, to)[Len(q) + 1] = to
    BY <1>2, <1>3, AppendProperties
  <2>4. history' \in [Jobs -> Seq(STATES)]
    BY <1>1, <1>2, <2>1, <2>3 DEF OutboxTypeOK
  <2>5. OutboxTypeOK'
    BY <1>1, <1>8, <2>4 DEF OutboxTypeOK, OnlyWriter, readerVars
  <2>6. \A j \in Jobs : history'[j] # <<>>
    BY <1>1, <1>2, <2>1, <2>3 DEF OutboxTypeOK, OutboxInv
  <2>7. CommitsAccounted'
    <3> SUFFICES ASSUME NEW j \in Jobs, NEW s \in STATES
                 PROVE  Cardinality(Reports(j, s)') + Cardinality(Pending(j, s)')
                          <= Cardinality(Entered(j, s)')
      BY DEF CommitsAccounted
    <3>1. Cardinality(Reports(j, s)) + Cardinality(Pending(j, s)) <= Cardinality(Entered(j, s))
      BY DEF OutboxInv, CommitsAccounted
    <3>2. Reports(j, s)' = Reports(j, s)
      BY <1>1 DEF Reports, OnlyWriter
    <3>3. CASE j = m.job /\ s = to
      <4>1. Pending(j, s)' = Pending(j, s) \cup {w} /\ w \notin Pending(j, s)
        BY <1>1, <1>7, <2>2, <3>3 DEF Pending
      <4>2. Cardinality(Pending(j, s)') = Cardinality(Pending(j, s)) + 1
        BY <4>1, <1>1, CountsAreNumbers, FS_AddElement
      <4>3. history'[j] = Append(q, to) /\ DOMAIN Append(q, to) = 1 .. Len(q) + 1
            /\ DOMAIN q = 1 .. Len(q) /\ Len(q) \in Nat /\ q = history[j]
        BY <1>1, <1>2, <1>3, <2>1, <2>3, <3>3 DEF OutboxTypeOK
      <4>4. Entered(j, s)' = Entered(j, s) \cup {Len(q) + 1} /\ Len(q) + 1 \notin Entered(j, s)
        <5>1. Entered(j, s)' = {i \in 1 .. Len(q) + 1 : Append(q, to)[i] = s}
          BY <4>3 DEF Entered
        <5>2. Entered(j, s) = {i \in 1 .. Len(q) : q[i] = s}
          BY <4>3 DEF Entered
        <5> HIDE DEF q, to
        <5> QED
          BY <5>1, <5>2, <4>3, <2>3, <3>3
      <4>5. Cardinality(Entered(j, s)') = Cardinality(Entered(j, s)) + 1
        BY <4>4, <1>1, CountsAreNumbers, FS_AddElement
      <4> QED
        BY <3>1, <3>2, <4>2, <4>5, <1>1, CountsAreNumbers
    <3>4. CASE ~(j = m.job /\ s = to)
      <4>1. Pending(j, s)' = Pending(j, s)
        BY <1>1, <1>7, <2>2, <3>4 DEF Pending
      <4>2. Entered(j, s)' = Entered(j, s)
        <5>1. CASE j # m.job
          <6>1. history'[j] = history[j]
            BY <5>1, <2>1, <1>1 DEF OutboxTypeOK
          <6> QED
            BY <6>1 DEF Entered
        <5>2. CASE j = m.job /\ s # to
          <6>1. history'[j] = Append(q, to) /\ DOMAIN Append(q, to) = 1 .. Len(q) + 1
                /\ DOMAIN q = 1 .. Len(q) /\ Len(q) \in Nat /\ q = history[j]
            BY <1>1, <1>2, <1>3, <2>1, <2>3, <5>2 DEF OutboxTypeOK
          <6>2. Entered(j, s)' = {i \in 1 .. Len(q) + 1 : Append(q, to)[i] = s}
            BY <6>1 DEF Entered
          <6>3. Entered(j, s) = {i \in 1 .. Len(q) : q[i] = s}
            BY <6>1 DEF Entered
          <6> HIDE DEF q, to
          <6> QED
            BY <6>2, <6>3, <6>1, <2>3, <5>2
        <5> QED
          BY <5>1, <5>2, <3>4
      <4> QED
        BY <3>1, <3>2, <4>1, <4>2
    <3> QED
      BY <3>3, <3>4
  <2> QED
    BY <1>1, <1>9, <2>5, <2>6, <2>7, WriterAlone
<1> QED
  BY <1>10, <1>11

(* The INSERT.  A number that the log has passed was given out before, so    *)
(* that a row which comes late takes a compacted number or is refused.       *)
LEMMA AppendInsertKeeps ==
    ASSUME OutboxInv, NEW w \in Writers, AppendInsert(w)
    PROVE  OutboxInv'
<1>1. OutboxTypeOK /\ call[w].op = "insert" /\ UNCHANGED <<history, compacted, readerVars>>
      /\ call' = [call EXCEPT ![w] = Idle]
  BY DEF OutboxInv, AppendInsert
<1>2. PICK m : m = call[w]
  OBVIOUS
<1>3. m.seq \in Nat \ {0} /\ m.job \in Jobs \cup {NoJob} /\ m.to \in STATES \cup {"none"}
  BY <1>1, <1>2, CallKinds
<1>4. call' \in [Writers -> CallType] /\ call'[w] = Idle
      /\ \A v \in Writers : v # w => call'[v] = call[v]
  BY <1>1 DEF OutboxTypeOK, CallType
<1>5. Idle.op = "idle"
  BY DEF Idle
<1>6. \A j \in Jobs : \A s \in STATES : Pending(j, s)' = Pending(j, s) \ {w}
  BY <1>4, <1>5 DEF Pending
<1>7. CASE ~InsertAllowed(m.seq)
  <2>1. OnlyWriter /\ history' = history
    BY <1>1, <1>2, <1>7 DEF AppendInsert, OnlyWriter
  <2>2. OutboxTypeOK'
    BY <1>1, <1>4, <2>1 DEF OutboxTypeOK, OnlyWriter, readerVars
  <2>3. CommitsAccounted'
    BY <1>1, <1>6, <2>1, CountKept DEF OutboxInv, OnlyWriter
  <2>4. \A v \in Writers : call'[v].op = "insert" => \A n \in 1 .. call'[v].seq - 1 : n \in Given
    BY <1>4, <1>5 DEF OutboxInv, NumbersDense
  <2> QED
    BY <1>1, <2>1, <2>2, <2>3, <2>4, WriterAlone DEF OutboxInv
<1>8. CASE InsertAllowed(m.seq)
  <2>1. PICK n : n = [seq |-> m.seq, id |-> appended + 1, job |-> m.job, state |-> m.to,
                      published |-> FALSE]
    OBVIOUS
  <2>2. events' = events \cup {n} /\ appended' = appended + 1 /\ m.seq \notin Seqs
    BY <1>1, <1>2, <1>8, <2>1 DEF AppendInsert, InsertAllowed
  <2>3. n.seq = m.seq /\ n.id = appended + 1 /\ n.job = m.job /\ n.state = m.to /\ n \in EventType
    <3>1. FALSE \in BOOLEAN /\ appended + 1 \in Nat \ {0}
      BY <1>1 DEF OutboxTypeOK
    <3> QED
      BY <2>1, <1>3, <3>1 DEF EventType
  <2>4. IsFiniteSet(events')
    BY <2>2, <1>1, FS_AddElement DEF OutboxTypeOK
  <2>5. OutboxTypeOK'
    BY <1>1, <1>4, <2>2, <2>3, <2>4 DEF OutboxTypeOK, readerVars
  <2>6. cursor' = cursor /\ batch' = batch /\ received' = received /\ compacted' = compacted
        /\ history' = history
    BY <1>1 DEF readerVars
  <2>7. Seqs' = Seqs \cup {m.seq} /\ Given' = Given \cup {m.seq}
    BY <2>2, <2>3, <2>6 DEF Seqs, Given
  <2>8. \A e \in events : e.seq # m.seq /\ e.seq \in Nat /\ e.id \in Nat /\ e.id <= appended
    BY <1>1, <2>2 DEF Seqs, OutboxInv, RowsApart, OutboxTypeOK, EventType
  <2>9. m.seq \in Given => m.seq \in compacted
    BY <2>2 DEF Given
  <2>10. appended \in Nat
    BY <1>1 DEF OutboxTypeOK
  <2>11. \A n1 \in 1 .. m.seq - 1 : n1 \in Given
    BY <1>1, <1>2 DEF OutboxInv, NumbersDense
  <2>12. NumbersDense'
    <3>1. \A e \in events' : \A n1 \in 1 .. e.seq : n1 \in Given'
      <4> SUFFICES ASSUME NEW e \in events', NEW n1 \in 1 .. e.seq PROVE n1 \in Given'
        OBVIOUS
      <4>1. CASE e \in events
        BY <4>1, <2>7 DEF OutboxInv, NumbersDense
      <4>2. CASE e = n
        BY <4>2, <2>3, <2>7, <2>11, <1>3
      <4> QED
        BY <4>1, <4>2, <2>2
    <3>2. \A v \in Writers : call'[v].op = "insert" => \A n1 \in 1 .. call'[v].seq - 1 : n1 \in Given'
      BY <1>4, <1>5, <2>7 DEF OutboxInv, NumbersDense
    <3>3. /\ \A r \in Readers : \A n1 \in 1 .. cursor'[r] : n1 \in Given'
          /\ \A r \in Readers : \A i \in DOMAIN batch'[r] : \A n1 \in 1 .. batch'[r][i].seq : n1 \in Given'
      BY <2>6, <2>7 DEF OutboxInv, NumbersDense
    <3> QED
      BY <3>1, <3>2, <3>3 DEF NumbersDense
  <2>13. RowsApart'
    <3>1. \A e, f \in events' : e.seq = f.seq \/ e.id = f.id => e = f
      BY <2>2, <2>3, <2>8, <2>10 DEF OutboxInv, RowsApart
    <3>2. \A e \in events' : e.id <= appended'
      BY <2>2, <2>3, <2>8, <2>10
    <3>3. ASSUME NEW r \in Readers, NEW i \in DOMAIN batch[r] PROVE batch[r][i].id <= appended'
      <4>1. batch[r][i].id <= appended /\ batch[r][i] \in EventType
        BY <1>1 DEF OutboxInv, RowsApart, OutboxTypeOK
      <4>2. batch[r][i].id \in Nat
        BY <4>1 DEF EventType
      <4> QED
        BY <4>1, <4>2, <2>2, <2>10
    <3>4. ASSUME NEW r \in Readers, NEW i \in DOMAIN received[r] PROVE received[r][i] <= appended'
      <4>1. received[r][i] <= appended /\ received[r][i] \in Nat
        BY <1>1 DEF OutboxInv, RowsApart, OutboxTypeOK
      <4> QED
        BY <4>1, <2>2, <2>10
    <3> QED
      BY <3>1, <3>2, <3>3, <3>4, <2>6 DEF RowsApart
  <2>14. BatchInOrder' /\ SentOnce'
    BY <2>6 DEF OutboxInv, BatchInOrder, SentOnce
  <2>15. BatchIsComplete'
    <3> SUFFICES ASSUME NEW r \in Readers, NEW i \in DOMAIN batch[r], NEW e \in events'
                 PROVE  /\ e.id = batch[r][i].id => e.seq = batch[r][i].seq
                        /\ cursor[r] < e.seq /\ e.seq <= batch[r][i].seq =>
                              (\E k \in 1 .. i : batch[r][k].id = e.id) \/ e.seq \in compacted
      BY <2>6 DEF BatchIsComplete
    <3>1. CASE e \in events
      BY <3>1 DEF OutboxInv, BatchIsComplete
    <3>2. CASE e = n
      <4>1. batch[r][i].id <= appended /\ batch[r][i] \in EventType
        BY <1>1 DEF OutboxInv, RowsApart, OutboxTypeOK
      <4>2. batch[r][i].id \in Nat /\ batch[r][i].seq \in Nat
        BY <4>1 DEF EventType
      <4>3. e.seq <= batch[r][i].seq => m.seq \in Given
        BY <3>2, <2>3, <1>3, <4>2 DEF OutboxInv, NumbersDense
      <4> QED
        BY <3>2, <2>3, <2>9, <2>10, <4>1, <4>2, <4>3
    <3> QED
      BY <3>1, <3>2, <2>2
  <2>16. SentIsBehind' /\ MissesOnlyReusedNumbers'
    <3> SUFFICES ASSUME NEW r \in Readers, NEW e \in events'
                 PROVE  /\ (\E i \in DOMAIN received[r] : received[r][i] = e.id) => e.seq <= cursor[r]
                        /\ e.seq <= cursor[r] /\ e.id \notin Range(received[r]) => e.seq \in compacted
      BY <2>6 DEF SentIsBehind, MissesOnlyReusedNumbers
    <3>1. CASE e \in events
      BY <3>1 DEF OutboxInv, SentIsBehind, MissesOnlyReusedNumbers
    <3>2. CASE e = n
      <4>1. \A i \in DOMAIN received[r] : received[r][i] <= appended /\ received[r][i] \in Nat
        BY <1>1 DEF OutboxInv, RowsApart, OutboxTypeOK
      <4>2. cursor[r] \in Nat
        BY <1>1 DEF OutboxTypeOK
      <4>3. e.seq <= cursor[r] => m.seq \in Given
        BY <3>2, <2>3, <1>3, <4>2 DEF OutboxInv, NumbersDense
      <4> QED
        BY <3>2, <2>3, <2>9, <2>10, <4>1, <4>3
    <3> QED
      BY <3>1, <3>2, <2>2
  <2>17. SequenceFollowsCommits'
    <3> SUFFICES ASSUME NEW e \in events', NEW f \in events', e.id < f.id
                 PROVE  e.seq < f.seq \/ (f.seq \in compacted /\ e.seq # f.seq)
      BY <2>6 DEF SequenceFollowsCommits
    <3>1. CASE e \in events /\ f \in events
      BY <3>1 DEF OutboxInv, SequenceFollowsCommits
    <3>2. CASE e \in events /\ f = n
      <4>1. m.seq < e.seq => m.seq \in Given
        BY <3>2, <1>3, <2>8 DEF OutboxInv, NumbersDense
      <4> QED
        BY <3>2, <4>1, <2>3, <2>8, <2>9, <1>3
    <3>3. e # n
      BY <2>2, <2>3, <2>8, <2>10
    <3> QED
      BY <3>1, <3>2, <3>3, <2>2
  <2>18. CommitsAccounted'
    <3> SUFFICES ASSUME NEW j \in Jobs, NEW s \in STATES
                 PROVE  Cardinality(Reports(j, s)') + Cardinality(Pending(j, s)')
                          <= Cardinality(Entered(j, s)')
      BY DEF CommitsAccounted
    <3>1. Cardinality(Reports(j, s)) + Cardinality(Pending(j, s)) <= Cardinality(Entered(j, s))
      BY DEF OutboxInv, CommitsAccounted
    <3>2. Entered(j, s)' = Entered(j, s)
      BY <2>6 DEF Entered
    <3>3. Pending(j, s)' = Pending(j, s) \ {w}
      BY <1>6
    <3>4. CASE m.job = j /\ m.to = s
      <4>1. w \in Pending(j, s)
        BY <3>4, <1>1, <1>2 DEF Pending
      <4>2. Cardinality(Pending(j, s)') = Cardinality(Pending(j, s)) - 1
        BY <3>3, <4>1, <1>1, CountsAreNumbers, FS_RemoveElement
      <4>3. Reports(j, s)' = Reports(j, s) \cup {n} /\ n \notin Reports(j, s)
        BY <2>2, <2>3, <2>8, <3>4 DEF Reports
      <4>4. Cardinality(Reports(j, s)') = Cardinality(Reports(j, s)) + 1
        BY <4>3, <1>1, CountsAreNumbers, FS_AddElement
      <4> QED
        BY <3>1, <3>2, <4>2, <4>4, <1>1, CountsAreNumbers
    <3>5. CASE ~(m.job = j /\ m.to = s)
      <4>1. w \notin Pending(j, s)
        BY <3>5, <1>1, <1>2 DEF Pending
      <4>2. Reports(j, s)' = Reports(j, s)
        BY <2>2, <2>3, <3>5 DEF Reports
      <4> QED
        BY <3>1, <3>2, <3>3, <4>1, <4>2
    <3> QED
      BY <3>4, <3>5
  <2> QED
    BY <2>5, <2>6, <2>12, <2>13, <2>14, <2>15, <2>16, <2>17, <2>18 DEF OutboxInv
<1> QED
  BY <1>7, <1>8

(* Retention neither adds a row nor renumbers one. *)
LEMMA RetentionKeeps ==
    ASSUME OutboxInv, UNCHANGED <<history, appended, call, readerVars>>,
           events' \subseteq EventType, compacted' \subseteq Nat,
           compacted \subseteq compacted', Given \subseteq Given',
           \A e \in events' : \E f \in events :
               e.seq = f.seq /\ e.id = f.id /\ e.job = f.job /\ e.state = f.state,
           \A e, f \in events' : e.seq = f.seq => e = f,
           NEW image \in [events -> EventType], events' \subseteq {image[e] : e \in events},
           \A e \in events : image[e].job = e.job /\ image[e].state = e.state
    PROVE  OutboxInv'
<1>1. OutboxTypeOK /\ history' = history /\ appended' = appended /\ call' = call
      /\ cursor' = cursor /\ batch' = batch /\ received' = received
  BY DEF OutboxInv, readerVars
<1>2. \A e \in events : e.seq \in Nat /\ e.id \in Nat
  BY <1>1 DEF OutboxTypeOK, EventType
<1>3. ASSUME NEW T \in SUBSET events, NEW U, U \subseteq {image[e] : e \in T}
      PROVE  IsFiniteSet(U) /\ Cardinality(U) \in Nat /\ Cardinality(U) <= Cardinality(T)
  <2> DEFINE V == {image[e] : e \in T}
             g == [e \in T |-> image[e]]
  <2>1. IsFiniteSet(T)
    BY <1>1, FS_Subset DEF OutboxTypeOK
  <2>2. g \in Surjection(T, V)
    BY DEF Surjection
  <2>3. IsFiniteSet(V) /\ Cardinality(V) <= Cardinality(T)
    <3> HIDE DEF V, g
    <3> QED
      BY <2>1, <2>2, FS_Surjection
  <2>4. U \in SUBSET V
    BY <1>3
  <2>5. IsFiniteSet(U) /\ Cardinality(U) <= Cardinality(V)
    <3> HIDE DEF V
    <3> QED
      BY <2>3, <2>4, FS_Subset
  <2>6. Cardinality(U) \in Nat /\ Cardinality(V) \in Nat /\ Cardinality(T) \in Nat
    <3> HIDE DEF V
    <3> QED
      BY <2>1, <2>3, <2>5, FS_CardinalityType
  <2> QED
    BY <2>3, <2>5, <2>6
<1>4. OutboxTypeOK'
  <2>1. IsFiniteSet(events')
    BY <1>3
  <2> QED
    BY <1>1, <2>1 DEF OutboxTypeOK
<1>5. NumbersDense'
  <2>1. \A e \in events' : \A n \in 1 .. e.seq : n \in Given'
    BY DEF OutboxInv, NumbersDense
  <2> QED
    BY <1>1, <2>1 DEF OutboxInv, NumbersDense
<1>6. RowsApart'
  <2>1. \A e, f \in events' : e.seq = f.seq \/ e.id = f.id => e = f
    BY DEF OutboxInv, RowsApart
  <2>2. \A e \in events' : e.id <= appended'
    BY <1>1 DEF OutboxInv, RowsApart
  <2> QED
    BY <1>1, <2>1, <2>2 DEF OutboxInv, RowsApart
<1>7. BatchInOrder' /\ SentOnce'
  BY <1>1 DEF OutboxInv, BatchInOrder, SentOnce
<1>8. BatchIsComplete'
  <2> SUFFICES ASSUME NEW r \in Readers, NEW i \in DOMAIN batch[r], NEW e \in events'
               PROVE  /\ e.id = batch[r][i].id => e.seq = batch[r][i].seq
                      /\ cursor[r] < e.seq /\ e.seq <= batch[r][i].seq =>
                            (\E k \in 1 .. i : batch[r][k].id = e.id) \/ e.seq \in compacted'
    BY <1>1 DEF BatchIsComplete
  <2>1. PICK f \in events : e.seq = f.seq /\ e.id = f.id
    OBVIOUS
  <2>2. /\ f.id = batch[r][i].id => f.seq = batch[r][i].seq
        /\ cursor[r] < f.seq /\ f.seq <= batch[r][i].seq =>
              (\E k \in 1 .. i : batch[r][k].id = f.id) \/ f.seq \in compacted
    BY DEF OutboxInv, BatchIsComplete
  <2> QED
    BY <2>1, <2>2
<1>9. SentIsBehind' /\ MissesOnlyReusedNumbers'
  <2> SUFFICES ASSUME NEW r \in Readers, NEW e \in events'
               PROVE  /\ (\E i \in DOMAIN received[r] : received[r][i] = e.id) => e.seq <= cursor[r]
                      /\ e.seq <= cursor[r] /\ e.id \notin Range(received[r]) => e.seq \in compacted'
    BY <1>1 DEF SentIsBehind, MissesOnlyReusedNumbers
  <2>1. PICK f \in events : e.seq = f.seq /\ e.id = f.id
    OBVIOUS
  <2>2. /\ (\E i \in DOMAIN received[r] : received[r][i] = f.id) => f.seq <= cursor[r]
        /\ f.seq <= cursor[r] /\ f.id \notin Range(received[r]) => f.seq \in compacted
    BY DEF OutboxInv, SentIsBehind, MissesOnlyReusedNumbers
  <2> QED
    BY <2>1, <2>2
<1>10. SequenceFollowsCommits'
  BY DEF OutboxInv, SequenceFollowsCommits
<1>11. CommitsAccounted'
  <2> SUFFICES ASSUME NEW j \in Jobs, NEW s \in STATES
               PROVE  Cardinality(Reports(j, s)') + Cardinality(Pending(j, s)')
                        <= Cardinality(Entered(j, s)')
    BY DEF CommitsAccounted
  <2>1. Cardinality(Reports(j, s)) + Cardinality(Pending(j, s)) <= Cardinality(Entered(j, s))
    BY DEF OutboxInv, CommitsAccounted
  <2>2. Entered(j, s)' = Entered(j, s) /\ Pending(j, s)' = Pending(j, s)
    BY <1>1 DEF Entered, Pending
  <2>3. Reports(j, s) \in SUBSET events /\ Reports(j, s)' \subseteq {image[e] : e \in Reports(j, s)}
    BY DEF Reports
  <2>4. Cardinality(Reports(j, s)') \in Nat
        /\ Cardinality(Reports(j, s)') <= Cardinality(Reports(j, s))
    BY <1>3, <2>3
  <2> QED
    BY <2>1, <2>2, <2>4, <1>1, CountsAreNumbers
<1> QED
  BY <1>1, <1>4, <1>5, <1>6, <1>7, <1>8, <1>9, <1>10, <1>11 DEF OutboxInv

\* mark_published leaves the order alone.
LEMMA MarkPublishedKeeps == ASSUME OutboxInv, mark_published PROVE OutboxInv'
<1>1. OutboxTypeOK /\ UNCHANGED <<history, appended, call, compacted, readerVars>>
  BY DEF OutboxInv, mark_published
<1>2. PICK sent \in SUBSET events :
          events' = (events \ sent) \cup {[e EXCEPT !.published = TRUE] : e \in sent}
  BY DEF mark_published
<1> DEFINE image == [e \in events |-> IF e \in sent THEN [e EXCEPT !.published = TRUE] ELSE e]
<1>3. ASSUME NEW e \in events
      PROVE  /\ image[e] \in EventType
             /\ image[e].seq = e.seq /\ image[e].id = e.id
             /\ image[e].job = e.job /\ image[e].state = e.state
  <2>1. e \in EventType /\ TRUE \in BOOLEAN
    BY <1>1 DEF OutboxTypeOK
  <2> QED
    BY <2>1 DEF EventType
<1>4. events' = {image[e] : e \in events}
  BY <1>2
<1>5. image \in [events -> EventType]
  BY <1>3
<1> HIDE DEF image
<1>6. events' \subseteq EventType
  BY <1>3, <1>4
<1>7. \A e \in events' : \E f \in events :
          e.seq = f.seq /\ e.id = f.id /\ e.job = f.job /\ e.state = f.state
  BY <1>3, <1>4
<1>8. \A e, f \in events' : e.seq = f.seq => e = f
  BY <1>3, <1>4 DEF OutboxInv, RowsApart
<1>9. Seqs' = Seqs
  BY <1>3, <1>4 DEF Seqs
<1>10. compacted' \subseteq Nat /\ compacted \subseteq compacted' /\ Given \subseteq Given'
  BY <1>1, <1>9 DEF Given, OutboxTypeOK
<1> QED
  BY <1>1, <1>3, <1>4, <1>5, <1>6, <1>7, <1>8, <1>10, RetentionKeeps

\* compact_published_events frees numbers and remembers them.
LEMMA CompactKeeps == ASSUME OutboxInv, compact_published_events PROVE OutboxInv'
<1>1. OutboxTypeOK /\ UNCHANGED <<history, appended, call, readerVars>>
  BY DEF OutboxInv, compact_published_events
<1>2. PICK old \in SUBSET events :
          events' = events \ old /\ compacted' = compacted \cup {e.seq : e \in old}
  BY DEF compact_published_events
<1> DEFINE image == [e \in events |-> e]
<1>3. events \subseteq EventType /\ \A e \in events : e.seq \in Nat
  BY <1>1 DEF OutboxTypeOK, EventType
<1>4. events' \subseteq events /\ events' \subseteq EventType
  BY <1>2, <1>3
<1>5. image \in [events -> EventType] /\ \A e \in events : image[e] = e
  BY <1>3
<1>6. events' \subseteq {image[e] : e \in events}
  BY <1>4, <1>5
<1>7. compacted' \subseteq Nat /\ compacted \subseteq compacted'
  BY <1>1, <1>2, <1>3 DEF OutboxTypeOK
<1>8. Given \subseteq Given'
  BY <1>2 DEF Given, Seqs
<1>9. \A e, f \in events' : e.seq = f.seq => e = f
  BY <1>4 DEF OutboxInv, RowsApart
<1>10. \A e \in events' : \E f \in events :
          e.seq = f.seq /\ e.id = f.id /\ e.job = f.job /\ e.state = f.state
  BY <1>4
<1> HIDE DEF image
<1> QED
  BY <1>1, <1>4, <1>5, <1>6, <1>7, <1>8, <1>9, <1>10, RetentionKeeps

-----------------------------------------------------------------------------

(* What OutboxInv says of one reader, with cursor c, rows b still to send    *)
(* and ids v received.                                                       *)
RowsHold(c, b, v) ==
    \A i \in DOMAIN b :
        /\ \A n \in 1 .. b[i].seq : n \in Given
        /\ b[i].id <= appended /\ c < b[i].seq
        /\ \A k \in DOMAIN b :
              (k < i => b[k].seq < b[i].seq) /\ (b[k].id = b[i].id => k = i)
        /\ \A k \in DOMAIN v : v[k] # b[i].id
        /\ \A e \in events :
              /\ e.id = b[i].id => e.seq = b[i].seq
              /\ c < e.seq /\ e.seq <= b[i].seq => (\E k \in 1 .. i : b[k].id = e.id) \/ e.seq \in compacted

\* What a reader has behind its cursor c, with the events v it was sent.
SentHolds(c, v) ==
    /\ \A n \in 1 .. c : n \in Given
    /\ \A k \in DOMAIN v : v[k] <= appended
    /\ \A e \in events :
          /\ (\E i \in DOMAIN v : v[i] = e.id) => e.seq <= c
          /\ e.seq <= c /\ e.id \notin Range(v) => e.seq \in compacted
    /\ IsInjective(v)

\* The parts of the invariant that speak of one reader.
LEMMA ReaderOf ==
    ASSUME OutboxInv, NEW r \in Readers
    PROVE  RowsHold(cursor[r], batch[r], received[r]) /\ SentHolds(cursor[r], received[r])
<1>1. SentHolds(cursor[r], received[r])
  BY DEF OutboxInv, NumbersDense, RowsApart, SentIsBehind, MissesOnlyReusedNumbers, SentOnce, SentHolds
<1>2. RowsHold(cursor[r], batch[r], received[r])
  BY DEF OutboxInv, NumbersDense, RowsApart, BatchInOrder, BatchIsComplete, RowsHold
<1> QED
  BY <1>1, <1>2

\* A step of one reader is right when its own parts of the invariant are.
LEMMA ReaderStep ==
    ASSUME OutboxInv, UNCHANGED writerVars,
           NEW r \in Readers, NEW c \in Nat, NEW b \in Seq(EventType), NEW v \in Seq(Nat),
           cursor' = [cursor EXCEPT ![r] = c], batch' = [batch EXCEPT ![r] = b],
           received' = [received EXCEPT ![r] = v],
           RowsHold(c, b, v), SentHolds(c, v)
    PROVE  OutboxInv'
<1>1. OutboxTypeOK /\ history' = history /\ events' = events /\ appended' = appended
      /\ call' = call /\ compacted' = compacted
  BY DEF OutboxInv, writerVars
<1>2. /\ cursor'[r] = c /\ batch'[r] = b /\ received'[r] = v
      /\ \A q \in Readers : q # r =>
            cursor'[q] = cursor[q] /\ batch'[q] = batch[q] /\ received'[q] = received[q]
  BY <1>1 DEF OutboxTypeOK
<1>3. OutboxTypeOK'
  BY <1>1 DEF OutboxTypeOK
<1>4. Given' = Given
  BY <1>1 DEF Given, Seqs
<1>5. CommitsAccounted' /\ SequenceFollowsCommits'
  <2>1. \A j \in Jobs : \A s \in STATES : Pending(j, s)' \subseteq Pending(j, s)
    BY <1>1 DEF Pending
  <2>2. CommitsAccounted'
    BY <1>1, <2>1, CountKept DEF OutboxInv
  <2> QED
    BY <1>1, <2>2 DEF OutboxInv, SequenceFollowsCommits
<1>6. \A q \in Readers : RowsHold(cursor'[q], batch'[q], received'[q])
                         /\ SentHolds(cursor'[q], received'[q])
  BY <1>2, ReaderOf
<1>7. NumbersDense'
  BY <1>1, <1>4, <1>6 DEF OutboxInv, NumbersDense, RowsHold, SentHolds
<1>8. RowsApart'
  BY <1>1, <1>6 DEF OutboxInv, RowsApart, RowsHold, SentHolds
<1>9. BatchInOrder'
  BY <1>6 DEF BatchInOrder, RowsHold
<1>10. BatchIsComplete'
  BY <1>1, <1>6 DEF BatchIsComplete, RowsHold
<1>11. SentIsBehind' /\ MissesOnlyReusedNumbers' /\ SentOnce'
  BY <1>1, <1>6 DEF SentIsBehind, MissesOnlyReusedNumbers, SentOnce, SentHolds
<1> QED
  BY <1>1, <1>3, <1>5, <1>7, <1>8, <1>9, <1>10, <1>11 DEF OutboxInv

(* A reader that goes away keeps its cursor. *)
LEMMA DisconnectKeeps ==
    ASSUME OutboxInv, NEW r \in Readers, Disconnect(r)
    PROVE  OutboxInv'
<1>1. OutboxTypeOK
  BY DEF OutboxInv
<1>2. cursor[r] \in Nat /\ received[r] \in Seq(Nat)
  BY <1>1 DEF OutboxTypeOK
<1>3. <<>> \in Seq(EventType)
  OBVIOUS
<1>4. /\ cursor' = [cursor EXCEPT ![r] = cursor[r]]
      /\ received' = [received EXCEPT ![r] = received[r]]
      /\ batch' = [batch EXCEPT ![r] = <<>>] /\ UNCHANGED writerVars
  BY <1>1 DEF Disconnect, OutboxTypeOK
<1>5. RowsHold(cursor[r], <<>>, received[r]) /\ SentHolds(cursor[r], received[r])
  <2>1. RowsHold(cursor[r], <<>>, received[r])
    BY DEF RowsHold
  <2> QED
    BY <2>1, ReaderOf
<1> QED
  BY <1>2, <1>3, <1>4, <1>5, ReaderStep

(* A stream opens on a page behind its reader's cursor. *)
LEMMA StreamOpenKeeps ==
    ASSUME OutboxInv, NEW r \in Readers, StreamOpen(r)
    PROVE  OutboxInv'
<1>1. OutboxTypeOK /\ RowsApart
  BY DEF OutboxInv
<1>2. cursor[r] \in Nat /\ received[r] \in Seq(Nat)
  BY <1>1 DEF OutboxTypeOK
<1>3. PICK page : page = list_events(cursor[r])
  OBVIOUS
<1>4. /\ page \in Seq(EventType)
      /\ \A i \in DOMAIN page : page[i] \in events /\ cursor[r] < page[i].seq
      /\ \A i, k \in DOMAIN page : k < i => page[k].seq < page[i].seq
      /\ \A i \in DOMAIN page : \A e \in events :
            cursor[r] < e.seq /\ e.seq <= page[i].seq => \E k \in 1 .. i : page[k] = e
  <2>1. FirstRows(page, cursor[r])
    BY <1>1, <1>2, <1>3, PageIsFirst
  <2> QED
    BY <2>1 DEF FirstRows
<1>5. /\ cursor' = [cursor EXCEPT ![r] = cursor[r]]
      /\ received' = [received EXCEPT ![r] = received[r]]
      /\ batch' = [batch EXCEPT ![r] = page] /\ UNCHANGED writerVars
  BY <1>1, <1>3 DEF StreamOpen, OutboxTypeOK
<1>6. SentHolds(cursor[r], received[r])
  BY ReaderOf
<1>7. RowsHold(cursor[r], page, received[r])
  <2> SUFFICES ASSUME NEW i \in DOMAIN page
               PROVE  /\ \A n \in 1 .. page[i].seq : n \in Given
                      /\ page[i].id <= appended /\ cursor[r] < page[i].seq
                      /\ \A k \in DOMAIN page :
                            /\ k < i => page[k].seq < page[i].seq
                            /\ page[k].id = page[i].id => k = i
                      /\ \A k \in DOMAIN received[r] : received[r][k] # page[i].id
                      /\ \A e \in events :
                            /\ e.id = page[i].id => e.seq = page[i].seq
                            /\ cursor[r] < e.seq /\ e.seq <= page[i].seq =>
                                  (\E k \in 1 .. i : page[k].id = e.id) \/ e.seq \in compacted
    BY DEF RowsHold
  <2>1. page[i] \in events /\ cursor[r] < page[i].seq
    BY <1>4
  <2>2. \A n \in 1 .. page[i].seq : n \in Given
    BY <2>1 DEF OutboxInv, NumbersDense
  <2>3. page[i].id <= appended /\ \A e \in events : e.id = page[i].id => e.seq = page[i].seq
    BY <1>1, <2>1 DEF RowsApart
  <2>4. \A k \in DOMAIN received[r] : received[r][k] # page[i].id
    <3>1. page[i].seq \in Nat
      BY <2>1, <1>1 DEF OutboxTypeOK, EventType
    <3> QED
      BY <1>2, <1>6, <2>1, <3>1 DEF SentHolds
  <2>5. ASSUME NEW k \in DOMAIN page, page[k].id = page[i].id PROVE k = i
    <3>1. page[k] \in events /\ page[k] = page[i]
      BY <1>1, <1>4, <2>1, <2>5 DEF RowsApart
    <3>2. k \in Int /\ i \in Int /\ page[i].seq \in Nat
      BY <1>1, <1>4, <2>1, LenProperties DEF OutboxTypeOK, EventType
    <3>3. ~(k < i) /\ ~(i < k)
      BY <1>4, <3>1, <3>2
    <3> QED
      BY <3>2, <3>3
  <2> QED
    BY <1>4, <2>1, <2>2, <2>3, <2>4, <2>5
<1> QED
  BY <1>2, <1>4, <1>5, <1>6, <1>7, ReaderStep

(* A poll moves the cursor to the last row of its page, and everything up to *)
(* there has been sent, or came late with a reused number.                   *)
LEMMA PollKeeps ==
    ASSUME OutboxInv, NEW r \in Readers, poll_case_events(r)
    PROVE  OutboxInv'
<1>1. OutboxTypeOK /\ RowsApart /\ appended \in Nat
  BY DEF OutboxInv, OutboxTypeOK
<1>2. PICK page : page = list_events(cursor[r])
  OBVIOUS
<1>3. PICK c \in Nat : c = cursor[r]
  BY <1>1 DEF OutboxTypeOK
<1>4. PICK v \in Seq(Nat) : v = received[r]
  BY <1>1 DEF OutboxTypeOK
<1>5. FirstRows(page, c)
  BY <1>1, <1>2, <1>3, PageIsFirst
<1>6. page # <<>> /\ page \in Seq(EventType)
  BY <1>2, <1>5 DEF poll_case_events, FirstRows
<1>7. PICK n : n = Len(page)
  OBVIOUS
<1>8. n \in Nat \ {0} /\ DOMAIN page = 1 .. n
  BY <1>6, <1>7, EmptySeq, LenProperties
<1>9. \A i \in 1 .. n : page[i] \in events /\ page[i].seq \in Nat /\ page[i].id \in Nat
                        /\ c < page[i].seq
  <2>1. \A i \in 1 .. n : page[i] \in events /\ c < page[i].seq
    BY <1>5, <1>8 DEF FirstRows
  <2>2. \A e \in events : e.seq \in Nat /\ e.id \in Nat
    BY <1>1 DEF OutboxTypeOK, EventType
  <2> QED
    BY <2>1, <2>2
<1>10. next_after(page, c) = page[n].seq
  BY <1>6, <1>7 DEF next_after, Last
<1>11. PICK d \in Nat : d = page[n].seq
  BY <1>8, <1>9
<1>12. PICK u : u = Ids(page)
  OBVIOUS
<1>13. DOMAIN u = 1 .. n /\ u \in Seq(Nat) /\ Len(u) = n /\ \A i \in 1 .. n : u[i] = page[i].id
  <2>1. u = [i \in 1 .. n |-> page[i].id]
    BY <1>8, <1>12 DEF Ids
  <2>2. u \in [1 .. n -> Nat]
    BY <2>1, <1>9
  <2>3. u \in Seq(Nat)
    BY <2>2, <1>8, SeqDef
  <2> QED
    BY <2>1, <2>2, <2>3, <1>8, LenProperties
<1>14. PICK x : x = v \o u
  OBVIOUS
<1>15. PICK l \in Nat : l = Len(v)
  BY LenProperties
<1>16. /\ x \in Seq(Nat) /\ Len(x) = l + n
       /\ \A i \in 1 .. l + n : x[i] = IF i <= l THEN v[i] ELSE u[i - l]
  BY <1>13, <1>14, <1>15, ConcatProperties
<1>17. DOMAIN x = 1 .. l + n /\ DOMAIN v = 1 .. l
  BY <1>15, <1>16, LenProperties
<1>18. \A i \in 1 .. l : x[i] = v[i]
  BY <1>8, <1>15, <1>16
<1>19. \A k \in 1 .. n : l + k \in 1 .. l + n /\ x[l + k] = page[k].id
  <2> SUFFICES ASSUME NEW k \in 1 .. n PROVE l + k \in 1 .. l + n /\ x[l + k] = page[k].id
    OBVIOUS
  <2>1. l + k \in 1 .. l + n /\ ~(l + k <= l) /\ (l + k) - l = k
    BY <1>8, <1>15
  <2> QED
    BY <2>1, <1>13, <1>16
<1>20. \A i \in 1 .. l + n : i \in 1 .. l \/ (i - l \in 1 .. n /\ x[i] = page[i - l].id)
  BY <1>8, <1>13, <1>15, <1>16
<1>21. /\ cursor' = [cursor EXCEPT ![r] = d] /\ received' = [received EXCEPT ![r] = x]
       /\ UNCHANGED writerVars
  BY <1>2, <1>3, <1>4, <1>10, <1>11, <1>12, <1>14 DEF poll_case_events
<1>22. batch' = [batch EXCEPT ![r] = <<>>] /\ <<>> \in Seq(EventType)
  BY <1>1 DEF poll_case_events, OutboxTypeOK
<1>23. SentHolds(c, v)
  BY <1>3, <1>4, ReaderOf
<1>24. c < d /\ \A i \in 1 .. n : page[i].seq <= d
  <2>1. \A i \in 1 .. n : i < n => page[i].seq < page[n].seq
    BY <1>5, <1>8 DEF FirstRows
  <2> QED
    BY <1>8, <1>9, <1>11, <2>1
<1>25. SentHolds(d, x)
  <2>1. \A m \in 1 .. d : m \in Given
    BY <1>8, <1>9, <1>11 DEF OutboxInv, NumbersDense
  <2>2. \A k \in DOMAIN x : x[k] <= appended
    <3> SUFFICES ASSUME NEW k \in 1 .. l + n PROVE x[k] <= appended
      BY <1>17
    <3>1. CASE k \in 1 .. l
      BY <3>1, <1>17, <1>18, <1>23 DEF SentHolds
    <3>2. CASE k - l \in 1 .. n /\ x[k] = page[k - l].id
      BY <3>2, <1>9, <1>1 DEF RowsApart
    <3> QED
      BY <3>1, <3>2, <1>20
  <2>3. ASSUME NEW e \in events, NEW i \in DOMAIN x, x[i] = e.id PROVE e.seq <= d
    <3>0. e.seq \in Nat
      BY <1>1 DEF OutboxTypeOK, EventType
    <3>1. CASE i \in 1 .. l
      <4>1. e.seq <= c
        BY <3>1, <2>3, <1>17, <1>18, <1>23 DEF SentHolds
      <4> QED
        BY <4>1, <3>0, <1>24
    <3>2. CASE i - l \in 1 .. n /\ x[i] = page[i - l].id
      <4>1. e = page[i - l]
        BY <3>2, <2>3, <1>9, <1>1 DEF RowsApart
      <4> QED
        BY <4>1, <3>2, <1>24
    <3> QED
      BY <3>1, <3>2, <1>17, <1>20
  <2>4. ASSUME NEW e \in events, e.seq <= d, e.id \notin Range(x) PROVE e.seq \in compacted
    <3>0. e.seq \in Nat
      BY <1>1 DEF OutboxTypeOK, EventType
    <3>1. CASE c < e.seq
      <4>1. n \in DOMAIN page /\ e.seq <= page[n].seq
        BY <1>8, <1>11, <2>4
      <4>2. PICK k \in 1 .. n : page[k] = e
        BY <4>1, <3>1, <1>5 DEF FirstRows
      <4>3. l + k \in DOMAIN x /\ x[l + k] = e.id
        BY <4>2, <1>17, <1>19
      <4> QED
        BY <4>3, <2>4 DEF Range
    <3>2. CASE e.seq <= c
      <4>1. e.id \notin Range(v)
        <5> SUFFICES ASSUME NEW i \in DOMAIN v PROVE v[i] # e.id
          BY DEF Range
        <5>1. i \in DOMAIN x /\ x[i] = v[i]
          BY <1>8, <1>17, <1>18
        <5> QED
          BY <5>1, <2>4 DEF Range
      <4> QED
        BY <4>1, <3>2, <1>23 DEF SentHolds
    <3> QED
      BY <3>0, <3>1, <3>2
  <2>5. IsInjective(x)
    <3>1. ASSUME NEW i \in 1 .. l, NEW k \in 1 .. n PROVE v[i] # page[k].id
      <4>1. ~(page[k].seq <= c) /\ page[k] \in events
        BY <1>9
      <4> QED
        BY <4>1, <1>17, <1>23 DEF SentHolds
    <3>2. ASSUME NEW i \in 1 .. n, NEW k \in 1 .. n, page[i].id = page[k].id PROVE i = k
      <4>1. page[i] = page[k]
        BY <3>2, <1>9, <1>1 DEF RowsApart
      <4>2. ~(i < k) /\ ~(k < i)
        <5>1. (i < k => page[i].seq < page[k].seq) /\ (k < i => page[k].seq < page[i].seq)
          BY <1>5, <1>8 DEF FirstRows
        <5>2. page[i].seq \in Nat
          BY <1>9
        <5> QED
          BY <4>1, <5>1, <5>2
      <4> QED
        BY <4>2, <1>8
    <3>3. \A i, k \in 1 .. l : v[i] = v[k] => i = k
      BY <1>17, <1>23 DEF SentHolds, IsInjective
    <3> SUFFICES ASSUME NEW i \in 1 .. l + n, NEW k \in 1 .. l + n, x[i] = x[k] PROVE i = k
      BY <1>17 DEF IsInjective
    <3>4. CASE i \in 1 .. l /\ k \in 1 .. l
      BY <3>3, <3>4, <1>18
    <3>5. CASE i \notin 1 .. l /\ k \notin 1 .. l
      <4>1. i - l \in 1 .. n /\ k - l \in 1 .. n /\ page[i - l].id = page[k - l].id
        BY <3>5, <1>20
      <4>2. i - l = k - l
        BY <4>1, <3>2
      <4> QED
        BY <4>2, <1>8, <1>15
    <3>6. CASE i \in 1 .. l /\ k \notin 1 .. l
      <4>1. k - l \in 1 .. n /\ v[i] = page[k - l].id
        BY <3>6, <1>18, <1>20
      <4> QED
        BY <3>6, <4>1, <3>1
    <3>7. CASE k \in 1 .. l /\ i \notin 1 .. l
      <4>1. i - l \in 1 .. n /\ v[k] = page[i - l].id
        BY <3>7, <1>18, <1>20
      <4> QED
        BY <3>7, <4>1, <3>1
    <3> QED
      BY <3>4, <3>5, <3>6, <3>7
  <2> QED
    BY <2>1, <2>2, <2>3, <2>4, <2>5 DEF SentHolds
<1>26. RowsHold(d, <<>>, x)
  BY DEF RowsHold
<1> QED
  BY <1>16, <1>21, <1>22, <1>25, <1>26, ReaderStep

(* A stream sends the first of its rows; the next time its reader resumes,   *)
(* it does so from that row.                                                 *)
LEMMA SendKeeps ==
    ASSUME OutboxInv, NEW r \in Readers, StreamSend(r)
    PROVE  OutboxInv'
<1>1. OutboxTypeOK /\ RowsApart /\ appended \in Nat
  BY DEF OutboxInv, OutboxTypeOK
<1>2. PICK b \in Seq(EventType) : b = batch[r]
  BY <1>1 DEF OutboxTypeOK
<1>3. PICK c \in Nat : c = cursor[r]
  BY <1>1 DEF OutboxTypeOK
<1>4. PICK v \in Seq(Nat) : v = received[r]
  BY <1>1 DEF OutboxTypeOK
<1>5. b # <<>>
  BY <1>2 DEF StreamSend
<1>6. PICK n \in Nat \ {0} : n = Len(b)
  BY <1>5, EmptySeq
<1>7. DOMAIN b = 1 .. n /\ Head(b) = b[1] /\ 1 \in 1 .. n
  BY <1>5, <1>6, LenProperties, HeadTailProperties
<1>8. \A i \in 1 .. n : b[i].seq \in Nat /\ b[i].id \in Nat
  <2>1. \A i \in 1 .. n : b[i] \in EventType
    BY <1>6, ElementOfSeq
  <2> QED
    BY <2>1 DEF EventType
<1>9. PICK t : t = Tail(b)
  OBVIOUS
<1>10. t \in Seq(EventType) /\ Len(t) = n - 1 /\ \A i \in 1 .. n - 1 : t[i] = b[i + 1]
  BY <1>5, <1>6, <1>9, HeadTailProperties
<1>11. DOMAIN t = 1 .. n - 1
  BY <1>6, <1>10, LenProperties
<1>12. next_after(<<Head(b)>>, c) = b[1].seq
  BY <1>7 DEF next_after, Last
<1>13. PICK d \in Nat : d = b[1].seq
  BY <1>7, <1>8
<1>14. PICK h \in Nat : h = b[1].id
  BY <1>7, <1>8
<1>15. PICK x : x = Append(v, h)
  OBVIOUS
<1>16. PICK l \in Nat : l = Len(v)
  BY LenProperties
<1>17. /\ x \in Seq(Nat) /\ Len(x) = l + 1
       /\ \A i \in 1 .. l : x[i] = v[i]
       /\ x[l + 1] = h
  BY <1>15, <1>16, AppendProperties
<1>18. DOMAIN x = 1 .. l + 1 /\ DOMAIN v = 1 .. l
  BY <1>16, <1>17, LenProperties
<1>19. /\ cursor' = [cursor EXCEPT ![r] = d] /\ received' = [received EXCEPT ![r] = x]
       /\ batch' = [batch EXCEPT ![r] = t] /\ UNCHANGED writerVars
  BY <1>2, <1>3, <1>4, <1>7, <1>9, <1>12, <1>13, <1>14, <1>15 DEF StreamSend
<1>20. RowsHold(c, b, v) /\ SentHolds(c, v)
  BY <1>2, <1>3, <1>4, ReaderOf
<1>21. c < d /\ h <= appended /\ (\A m \in 1 .. d : m \in Given) /\ \A k \in 1 .. l : v[k] # h
  BY <1>7, <1>13, <1>14, <1>18, <1>20 DEF RowsHold
<1>22. \A e \in events : /\ e.id = h => e.seq = d
                         /\ c < e.seq /\ e.seq <= d => e.id = h \/ e.seq \in compacted
  <2> SUFFICES ASSUME NEW e \in events
               PROVE  /\ e.id = h => e.seq = d
                      /\ c < e.seq /\ e.seq <= d => e.id = h \/ e.seq \in compacted
    OBVIOUS
  <2>1. /\ e.id = b[1].id => e.seq = b[1].seq
        /\ c < e.seq /\ e.seq <= b[1].seq => (\E k \in 1 .. 1 : b[k].id = e.id) \/ e.seq \in compacted
    BY <1>7, <1>20 DEF RowsHold
  <2> QED
    BY <2>1, <1>13, <1>14
<1>26. \A k \in 1 .. l + 1 : k \in 1 .. l \/ k = l + 1
  BY <1>16
<1>23. \A e \in events : e.seq \in Nat
  BY <1>1 DEF OutboxTypeOK, EventType
<1>24. SentHolds(d, x)
  <2>1. \A k \in DOMAIN x : x[k] <= appended
    <3>1. \A k \in 1 .. l : v[k] <= appended
      BY <1>18, <1>20 DEF SentHolds
    <3> QED
      BY <3>1, <1>17, <1>18, <1>21, <1>26
  <2>2. ASSUME NEW e \in events, NEW i \in DOMAIN x, x[i] = e.id PROVE e.seq <= d
    <3>1. CASE i \in 1 .. l
      <4>1. e.seq <= c
        BY <3>1, <2>2, <1>17, <1>18, <1>20 DEF SentHolds
      <4> QED
        BY <4>1, <1>21, <1>23
    <3>2. CASE i = l + 1
      BY <3>2, <2>2, <1>17, <1>22
    <3> QED
      BY <3>1, <3>2, <1>16, <1>18
  <2>3. ASSUME NEW e \in events, e.seq <= d, e.id \notin Range(x) PROVE e.seq \in compacted
    <3>1. l + 1 \in DOMAIN x /\ \A i \in 1 .. l : i \in DOMAIN x
      BY <1>16, <1>18
    <3>2. e.id # h /\ e.id \notin Range(v)
      BY <3>1, <2>3, <1>17, <1>18 DEF Range
    <3>3. CASE c < e.seq
      BY <3>2, <3>3, <2>3, <1>22
    <3>4. CASE e.seq <= c
      BY <3>2, <3>4, <1>20 DEF SentHolds
    <3> QED
      BY <3>3, <3>4, <1>23
  <2>4. IsInjective(x)
    <3>1. \A i, k \in 1 .. l : v[i] = v[k] => i = k
      BY <1>18, <1>20 DEF SentHolds, IsInjective
    <3> SUFFICES ASSUME NEW i \in 1 .. l + 1, NEW k \in 1 .. l + 1, x[i] = x[k] PROVE i = k
      BY <1>18 DEF IsInjective
    <3> QED
      <4>1. CASE i \in 1 .. l /\ k \in 1 .. l
        BY <4>1, <3>1, <1>17
      <4>2. CASE i = l + 1 /\ k \in 1 .. l
        BY <4>2, <1>17, <1>21
      <4>3. CASE i \in 1 .. l /\ k = l + 1
        BY <4>3, <1>17, <1>21
      <4> QED
        BY <4>1, <4>2, <4>3, <1>26
  <2> QED
    BY <2>1, <2>2, <2>3, <2>4, <1>21 DEF SentHolds
<1>25. RowsHold(d, t, x)
  <2> SUFFICES ASSUME NEW i \in 1 .. n - 1
               PROVE  /\ \A m \in 1 .. t[i].seq : m \in Given
                      /\ t[i].id <= appended /\ d < t[i].seq
                      /\ \A k \in DOMAIN t :
                            (k < i => t[k].seq < t[i].seq) /\ (t[k].id = t[i].id => k = i)
                      /\ \A k \in DOMAIN x : x[k] # t[i].id
                      /\ \A e \in events :
                            /\ e.id = t[i].id => e.seq = t[i].seq
                            /\ d < e.seq /\ e.seq <= t[i].seq =>
                                  (\E k \in 1 .. i : t[k].id = e.id) \/ e.seq \in compacted
    BY <1>11 DEF RowsHold
  <2>1. i + 1 \in 1 .. n /\ t[i] = b[i + 1] /\ 1 < i + 1 /\ i + 1 # 1
    BY <1>6, <1>10
  <2>2. /\ \A m \in 1 .. b[i + 1].seq : m \in Given
        /\ b[i + 1].id <= appended
        /\ \A k \in 1 .. n : /\ k < i + 1 => b[k].seq < b[i + 1].seq
                             /\ b[k].id = b[i + 1].id => k = i + 1
        /\ \A k \in 1 .. l : v[k] # b[i + 1].id
    BY <2>1, <1>7, <1>18, <1>20 DEF RowsHold
  <2>3. d < t[i].seq /\ h # t[i].id
    BY <2>1, <2>2, <1>7, <1>13, <1>14
  <2>4. ASSUME NEW k \in DOMAIN t
        PROVE  (k < i => t[k].seq < t[i].seq) /\ (t[k].id = t[i].id => k = i)
    <3>1. k + 1 \in 1 .. n /\ t[k] = b[k + 1] /\ k \in Int
      BY <1>6, <1>10, <1>11
    <3>2. (k + 1 < i + 1 => b[k + 1].seq < b[i + 1].seq)
          /\ (b[k + 1].id = b[i + 1].id => k + 1 = i + 1)
      BY <2>2, <3>1
    <3> QED
      BY <3>1, <3>2, <2>1
  <2>5. \A k \in DOMAIN x : x[k] # t[i].id
    <3>1. \A k \in 1 .. l : x[k] # t[i].id
      BY <2>1, <2>2, <1>17
    <3> QED
      BY <3>1, <2>3, <1>17, <1>18, <1>26
  <2>6. ASSUME NEW e \in events
        PROVE  /\ e.id = t[i].id => e.seq = t[i].seq
               /\ d < e.seq /\ e.seq <= t[i].seq =>
                     (\E k \in 1 .. i : t[k].id = e.id) \/ e.seq \in compacted
    <3>1. /\ e.id = b[i + 1].id => e.seq = b[i + 1].seq
          /\ c < e.seq /\ e.seq <= b[i + 1].seq =>
                (\E k \in 1 .. i + 1 : b[k].id = e.id) \/ e.seq \in compacted
      BY <2>1, <1>7, <1>20 DEF RowsHold
    <3>2. ASSUME d < e.seq, e.seq <= t[i].seq, e.seq \notin compacted
          PROVE  \E k \in 1 .. i : t[k].id = e.id
      <4>1. c < e.seq
        BY <3>2, <1>21, <1>23
      <4>2. PICK k \in 1 .. i + 1 : b[k].id = e.id
        BY <3>1, <3>2, <4>1, <2>1
      <4>3. k # 1
        BY <4>2, <3>2, <1>14, <1>22, <1>23
      <4>4. k - 1 \in 1 .. i /\ k - 1 \in 1 .. n - 1 /\ (k - 1) + 1 = k
        BY <4>2, <4>3, <1>6
      <4>5. t[k - 1].id = e.id
        BY <4>2, <4>4, <1>10
      <4> QED
        BY <4>4, <4>5
    <3> QED
      BY <3>1, <3>2, <2>1
  <2> QED
    BY <2>1, <2>2, <2>3, <2>4, <2>5, <2>6
<1> QED
  BY <1>10, <1>17, <1>19, <1>24, <1>25, ReaderStep

-----------------------------------------------------------------------------

\* An empty log satisfies the invariant.
LEMMA OutboxInitInv == Init => OutboxInv
<1> SUFFICES ASSUME Init PROVE OutboxInv
  OBVIOUS
<1>1. /\ history = [j \in Jobs |-> <<"leased">>]
      /\ events = {} /\ appended = 0 /\ compacted = {}
      /\ call = [w \in Writers |-> Idle]
      /\ cursor = [r \in Readers |-> 0]
      /\ batch = [r \in Readers |-> <<>>]
      /\ received = [r \in Readers |-> <<>>]
  BY DEF Init
<1>2. <<"leased">> \in Seq(STATES) /\ <<"leased">> # <<>>
  BY DEF STATES
<1>3. <<>> \in Seq(EventType) /\ <<>> \in Seq(Nat)
  OBVIOUS
<1>4. IsFiniteSet({}) /\ Cardinality({}) = 0
  BY FS_EmptySet
<1>5. OutboxTypeOK
  BY <1>1, <1>2, <1>3, <1>4 DEF OutboxTypeOK, CallType
<1>6. \A w \in Writers : call[w].op = "idle"
  BY <1>1 DEF Idle
<1>7. \A r \in Readers : DOMAIN batch[r] = {} /\ DOMAIN received[r] = {} /\ cursor[r] = 0
  BY <1>1
<1>8. NumbersDense /\ RowsApart /\ BatchInOrder /\ BatchIsComplete /\ SentIsBehind
  BY <1>1, <1>6, <1>7 DEF NumbersDense, RowsApart, BatchInOrder, BatchIsComplete, SentIsBehind
<1>9. SequenceFollowsCommits /\ MissesOnlyReusedNumbers /\ SentOnce
  BY <1>1, <1>7 DEF SequenceFollowsCommits, MissesOnlyReusedNumbers, SentOnce, IsInjective
<1>10. CommitsAccounted
  <2> SUFFICES ASSUME NEW j \in Jobs, NEW s \in STATES
               PROVE  Cardinality(Reports(j, s)) + Cardinality(Pending(j, s))
                        <= Cardinality(Entered(j, s))
    BY DEF CommitsAccounted
  <2>1. Reports(j, s) = {} /\ Pending(j, s) = {}
    BY <1>1, <1>6 DEF Reports, Pending
  <2> QED
    BY <1>4, <1>5, <2>1, CountsAreNumbers
<1> QED
  BY <1>1, <1>2, <1>5, <1>8, <1>9, <1>10 DEF OutboxInv

\* Every step of a writer, a compaction or a reader keeps the invariant.
LEMMA OutboxStep == ASSUME OutboxInv, [Next]_vars PROVE OutboxInv'
<1>1. CASE UNCHANGED vars
  <2>1. OnlyWriter /\ history' = history /\ call' = call
    BY <1>1 DEF vars, OnlyWriter, readerVars
  <2>2. OutboxTypeOK'
    BY <2>1 DEF OutboxInv, OutboxTypeOK, OnlyWriter, readerVars
  <2>3. CommitsAccounted'
    BY <2>1 DEF OutboxInv, CommitsAccounted, Reports, Pending, Entered, OnlyWriter
  <2>4. \A w \in Writers : call'[w].op = "insert" => \A n \in 1 .. call'[w].seq - 1 : n \in Given
    BY <2>1 DEF OutboxInv, NumbersDense
  <2> QED
    BY <2>1, <2>2, <2>3, <2>4, WriterAlone DEF OutboxInv
<1>2. CASE Next
  BY <1>2, MarkPublishedKeeps, CompactKeeps, TransitionReadKeeps, TransitionUpdateKeeps,
     MediumAndCrashKeep, AppendSelectKeeps, AppendInsertKeeps, PollKeeps, StreamOpenKeeps,
     SendKeeps, DisconnectKeeps DEF Next
<1> QED
  BY <1>1, <1>2

\* The inductive invariant of the event log and its readers.
LEMMA OutboxInvariant == Spec => []OutboxInv
<1>1. OutboxInv /\ [Next]_vars => OutboxInv'
  BY OutboxStep
<1> QED
  BY <1>1, OutboxInitInv, PTL DEF Spec

(* event_outbox.py:20-80: the log of a case tells the truth in order.  Two   *)
(* live events never share a sequence number, the later commit has the       *)
(* larger one unless it takes a number that compaction had freed, and no     *)
(* event reports a change of state that did not commit, whatever writers     *)
(* race, die between their statements or are refused by the unique index.    *)
THEOREM LogIsTruthful == Spec => []LogTruthful
<1>1. OutboxInv => LogTruthful
  <2> SUFFICES ASSUME OutboxInv PROVE NoPhantomEvents
    BY DEF LogTruthful, OutboxInv
  <2>1. OutboxTypeOK
    BY DEF OutboxInv
  <2> SUFFICES ASSUME NEW j \in Jobs, NEW s \in STATES
               PROVE  Cardinality(Reports(j, s)) <= Cardinality(Entered(j, s))
    BY DEF NoPhantomEvents, Reports, Entered
  <2>2. Cardinality(Reports(j, s)) + Cardinality(Pending(j, s)) <= Cardinality(Entered(j, s))
    BY DEF OutboxInv, CommitsAccounted
  <2> QED
    BY <2>1, <2>2, CountsAreNumbers
<1> QED
  BY <1>1, OutboxInvariant, PTL

(* event_outbox.py:96-135 and app.py:370-420: a reader that polls, streams,  *)
(* is cut off and resumes is sent no event twice, and misses no live event   *)
(* behind its cursor but one that came late with a reused number.            *)
THEOREM ReadersAreServed == Spec => []ReadersServed
<1>1. OutboxInv => ReadersServed
  BY DEF OutboxInv, ReadersServed
<1> QED
  BY <1>1, OutboxInvariant, PTL

-----------------------------------------------------------------------------
(* The stream of a scanner (scanner/messages.py).                            *)

\* A finite set of numbers that is not empty has a least one.
LEMMA LeastOf ==
  ASSUME NEW S \in SUBSET Nat, IsFiniteSet(S), S # {}
  PROVE  \E x \in S : \A y \in S : x <= y
<1> DEFINE key == [x \in S |-> x]
<1>1. 1 \in 1 .. Cardinality(S)
  BY FS_CardinalityType, FS_EmptySet
<1>2. key \in [S -> Nat] /\ \A x, y \in S : key[x] = key[y] => x = y
  OBVIOUS
<1>3. \A x \in S : key[x] = x
  OBVIOUS
<1> HIDE DEF key
<1>4. /\ \A x \in S : Rank(S, key, x) \in 1 .. Cardinality(S)
      /\ \A x, y \in S : key[x] < key[y] => Rank(S, key, x) < Rank(S, key, y)
      /\ \A i \in 1 .. Cardinality(S) : \E x \in S : Rank(S, key, x) = i
  BY <1>2, Ranked
<1>5. PICK x \in S : Rank(S, key, x) = 1
  BY <1>1, <1>4
<1>6. ASSUME NEW y \in S, y < x PROVE FALSE
  <2>1. Rank(S, key, y) < Rank(S, key, x) /\ Rank(S, key, y) \in 1 .. Cardinality(S)
    BY <1>3, <1>4, <1>6
  <2> QED
    BY <2>1, <1>5, FS_CardinalityType
<1> QED
  BY <1>6

\* A message is never taken for a line that was cut off.
LEMMA MessageIsNotTorn == ASSUME NEW m \in Message PROVE m # TornLine
<1>1. "id" \in DOMAIN m /\ "id" \notin DOMAIN TornLine
  BY DEF Message, TornLine
<1> QED
  BY <1>1

\* What decode_stream keeps of a stream that it can decode: a message for every key,
\* the first one, in the order of the lines.
LEMMA KeptAreFirsts ==
  ASSUME NEW lines, NEW n \in Nat, DOMAIN lines = 1 .. n,
         DecodeStream(lines).status = "decoded"
  PROVE  LET kept == DecodeStream(lines).messages
         IN /\ \A k \in DOMAIN kept : \E i \in Firsts(lines) :
                  kept[k] = lines[i] /\ Turn(lines, i) = k
            /\ \A i \in Firsts(lines) : \E k \in DOMAIN kept : kept[k] = lines[i]
            /\ \A i, j \in Firsts(lines) : Turn(lines, i) < Turn(lines, j) => i < j
<1> DEFINE F == Firsts(lines)
           key == [i \in F |-> i]
           c == Cardinality(F)
<1>1. F \in SUBSET (1 .. n) /\ IsFiniteSet(1 .. n)
  BY FS_Interval DEF Firsts
<1>2. IsFiniteSet(F) /\ F \in SUBSET Nat
  BY <1>1, FS_Subset
<1>3. key \in [F -> Nat] /\ \A x, y \in F : key[x] = key[y] => x = y
  <2> HIDE DEF F
  <2> QED
    BY <1>2
<1>4. /\ \A x \in F : Rank(F, key, x) \in 1 .. c
      /\ \A x, y \in F : key[x] < key[y] => Rank(F, key, x) < Rank(F, key, y)
      /\ \A i \in 1 .. c : \E x \in F : Rank(F, key, x) = i
  <2> HIDE DEF F, key
  <2> QED
    BY <1>2, <1>3, Ranked
<1>5. \A x \in F : Turn(lines, x) = Rank(F, key, x)
  <2> SUFFICES ASSUME NEW x \in F
               PROVE  {j \in F : j <= x} = {j \in F : key[j] <= key[x]}
    BY DEF Turn, Rank
  <2> QED
    OBVIOUS
<1>6. /\ \A x \in F : Turn(lines, x) \in 1 .. c
      /\ \A x, y \in F : x < y => Turn(lines, x) < Turn(lines, y)
      /\ \A i \in 1 .. c : \E x \in F : Turn(lines, x) = i
  <2>1. \A x \in F : key[x] = x
    OBVIOUS
  <2> HIDE DEF F, key, c
  <2> QED
    BY <1>4, <1>5, <2>1
<1>7. \A x, y \in F : Turn(lines, x) < Turn(lines, y) => x < y
  <2> SUFFICES ASSUME NEW x \in F, NEW y \in F, ~(x < y)
               PROVE  ~(Turn(lines, x) < Turn(lines, y))
    OBVIOUS
  <2>1. Turn(lines, x) \in Nat /\ Turn(lines, y) \in Nat /\ x \in Nat /\ y \in Nat
    <3>1. c \in Nat
      BY <1>2, FS_CardinalityType
    <3> HIDE DEF F, c
    <3> QED
      BY <3>1, <1>2, <1>6
  <2>2. x = y \/ y < x
    BY <2>1
  <2>3. CASE y < x
    <3>1. Turn(lines, y) < Turn(lines, x)
      BY <2>3, <1>6
    <3> QED
      BY <3>1, <2>1
  <2>4. CASE x = y
    BY <2>1, <2>4
  <2> QED
    BY <2>2, <2>3, <2>4
<1>8. \A x, y \in F : Turn(lines, x) = Turn(lines, y) => x = y
  <2> SUFFICES ASSUME NEW x \in F, NEW y \in F, x # y
               PROVE  Turn(lines, x) # Turn(lines, y)
    OBVIOUS
  <2>1. x \in Nat /\ y \in Nat /\ c \in Nat
    BY <1>2, FS_CardinalityType
  <2>2. Turn(lines, x) < Turn(lines, y) \/ Turn(lines, y) < Turn(lines, x)
    <3> HIDE DEF F
    <3> QED
      BY <2>1, <1>6
  <2>3. Turn(lines, x) \in Nat /\ Turn(lines, y) \in Nat
    <3> HIDE DEF F, c
    <3> QED
      BY <2>1, <1>6
  <2> QED
    BY <2>2, <2>3
<1> DEFINE kept == DecodeStream(lines).messages
<1>9. kept = [k \in 1 .. c |-> lines[CHOOSE i \in F : Turn(lines, i) = k]]
  BY DEF DecodeStream
<1>10. ASSUME NEW k \in 1 .. c
       PROVE  \E i \in F : Turn(lines, i) = k /\ kept[k] = lines[i]
  <2>1. \E i \in F : Turn(lines, i) = k
    BY <1>6
  <2>2. kept[k] = lines[CHOOSE i \in F : Turn(lines, i) = k]
    <3> HIDE DEF kept, F, c
    <3> QED
      BY <1>9
  <2> HIDE DEF kept, F
  <2> QED
    BY <2>1, <2>2, Zenon
<1>11. DOMAIN kept = 1 .. c
  <2> HIDE DEF kept, F, c
  <2> QED
    BY <1>9
<1>12. ASSUME NEW i \in F PROVE \E k \in DOMAIN kept : kept[k] = lines[i]
  <2>1. Turn(lines, i) \in 1 .. c
    BY <1>6
  <2>2. PICK x \in F : Turn(lines, x) = Turn(lines, i) /\ kept[Turn(lines, i)] = lines[x]
    BY <2>1, <1>10
  <2>3. x = i
    BY <2>2, <1>8
  <2> HIDE DEF kept, F, c
  <2> QED
    BY <2>1, <2>2, <2>3, <1>11
<1>13. \A k \in DOMAIN kept : \E i \in F : kept[k] = lines[i] /\ Turn(lines, i) = k
  <2> HIDE DEF kept, F, c
  <2> QED
    BY <1>10, <1>11
<1> HIDE DEF kept
<1> QED
  BY <1>7, <1>12, <1>13 DEF kept

\* What can stand in a stream.
Line == Message \cup {TornLine}

\* The lines of the stream, by their places.
LEMMA StreamLines ==
  ASSUME MessagesTypeOK
  PROVE  /\ Len(stream) \in Nat /\ DOMAIN stream = 1 .. Len(stream)
         /\ \A i \in 1 .. Len(stream) : stream[i] \in Line
         /\ \A i \in 1 .. Len(stream) :
               stream[i] # TornLine => stream[i] \in Message /\ stream[i].id \in Nat
<1>1. stream \in Seq(Line)
  BY DEF MessagesTypeOK, Line
<1>2. /\ Len(stream) \in Nat /\ DOMAIN stream = 1 .. Len(stream)
      /\ \A i \in 1 .. Len(stream) : stream[i] \in Line
  BY <1>1
<1>3. \A m \in Message : m.id \in Nat
  BY DEF Message
<1> QED
  BY <1>2, <1>3 DEF Line

\* What encode_message lets out decode_line accepts, so a stream is decoded unless a
\* line of it was cut off.
LEMMA DecodedUnlessTorn ==
  ASSUME MessagesTypeOK
  PROVE  /\ DecodeStream(stream).status \in {"decoded", "failed"}
         /\ DecodeStream(stream).status = "failed" =>
                /\ DecodeStream(stream).messages = <<>>
                /\ \E i \in DOMAIN stream : stream[i] = TornLine
         /\ DecodeStream(stream).status = "decoded" =>
                \A i \in DOMAIN stream : stream[i] # TornLine
<1>1. \A i \in DOMAIN stream : Decodable(stream[i]) <=> stream[i] # TornLine
  <2> SUFFICES ASSUME NEW i \in DOMAIN stream, stream[i] # TornLine PROVE Decodable(stream[i])
    BY DEF Decodable
  <2>1. stream[i] \in Message
    BY StreamLines
  <2>2. stream[i].flaw = "none"
    BY <2>1 DEF Message
  <2> QED
    BY <2>2 DEF Decodable, ValidObject, ValidLength
<1> DEFINE bad == \E i \in DOMAIN stream : ~Decodable(stream[i])
<1>2. CASE bad
  <2>1. DecodeStream(stream) = [status |-> "failed", messages |-> <<>>]
    BY <1>2 DEF DecodeStream
  <2> QED
    BY <2>1, <1>1, <1>2
<1>3. CASE ~bad
  <2>1. DecodeStream(stream).status = "decoded"
    BY <1>3 DEF DecodeStream
  <2> QED
    BY <2>1, <1>1, <1>3
<1> QED
  BY <1>2, <1>3

\* The first line with a key was fresh when it was written.
LEMMA FirstsAreFresh ==
  ASSUME MessagesTypeOK, LinesHaveOrigins, NEW i \in Firsts(stream), stream[i] # TornLine
  PROVE  Fresh(i)
<1>1. i \in DOMAIN stream
  BY DEF Firsts
<1>2. PICK k \in 1 .. i : stream[k] = stream[i] /\ Fresh(k)
  BY <1>1 DEF LinesHaveOrigins
<1>3. k = i
  <2>1. i \in Nat
    BY <1>1, StreamLines
  <2>2. CASE k \in 1 .. i - 1
    BY <2>2, <1>2 DEF Firsts
  <2> QED
    BY <2>1, <2>2
<1> QED
  BY <1>2, <1>3

\* The messages of a stream are decoded in the order they were sent in.
LEMMA DecodedInOrder ==
  ASSUME MessagesTypeOK, LinesHaveOrigins, DecodeStream(stream).status = "decoded"
  PROVE  \A k, l \in DOMAIN DecodeStream(stream).messages :
             k < l => DecodeStream(stream).messages[k].id < DecodeStream(stream).messages[l].id
<1> DEFINE kept == DecodeStream(stream).messages
<1>1. /\ \A k \in DOMAIN kept : \E i \in Firsts(stream) :
            kept[k] = stream[i] /\ Turn(stream, i) = k
      /\ \A i, j \in Firsts(stream) : Turn(stream, i) < Turn(stream, j) => i < j
  BY StreamLines, KeptAreFirsts
<1>2. \A i \in DOMAIN stream : stream[i] # TornLine
  BY DecodedUnlessTorn
<1> HIDE DEF kept
<1> SUFFICES ASSUME NEW k \in DOMAIN kept, NEW l \in DOMAIN kept, k < l
             PROVE  kept[k].id < kept[l].id
  BY DEF kept
<1>3. PICK i \in Firsts(stream) : kept[k] = stream[i] /\ Turn(stream, i) = k
  BY <1>1
<1>4. PICK j \in Firsts(stream) : kept[l] = stream[j] /\ Turn(stream, j) = l
  BY <1>1
<1>5. i < j
  BY <1>1, <1>3, <1>4
<1>6. i \in DOMAIN stream /\ j \in DOMAIN stream
  BY DEF Firsts
<1>7. Fresh(j)
  BY <1>2, <1>6, FirstsAreFresh
<1>8. i \in 1 .. j - 1
  BY <1>5, <1>6, StreamLines
<1> QED
  BY <1>2, <1>3, <1>4, <1>6, <1>7, <1>8 DEF Fresh

\* A message of the stream that is not decoded gives way to an earlier one of its key.
LEMMA NoKeyIsMissing ==
  ASSUME MessagesTypeOK, LinesHaveOrigins, DecodeStream(stream).status = "decoded",
         NEW p \in DOMAIN stream
  PROVE  \E k \in DOMAIN DecodeStream(stream).messages :
            /\ DecodeStream(stream).messages[k].id <= stream[p].id
            /\ ReplayKey(DecodeStream(stream).messages[k]) = ReplayKey(stream[p])
<1>1. \A i \in DOMAIN stream : stream[i] # TornLine
  BY DecodedUnlessTorn
<1>2. PICK o \in 1 .. p : stream[o] = stream[p] /\ Fresh(o)
  BY <1>1 DEF LinesHaveOrigins
<1> DEFINE S == {i \in 1 .. Len(stream) : ReplayKey(stream[i]) = ReplayKey(stream[p])}
<1>l. Len(stream) \in Nat /\ DOMAIN stream = 1 .. Len(stream)
  BY StreamLines
<1>3. S \in SUBSET (1 .. Len(stream)) /\ o \in S
  BY <1>2, <1>l
<1>4. IsFiniteSet(S) /\ S \in SUBSET Nat
  <2>1. IsFiniteSet(1 .. Len(stream))
    BY <1>l, FS_Interval
  <2> HIDE DEF S
  <2>2. S \in SUBSET Nat
    BY <1>3
  <2>3. IsFiniteSet(S)
    BY <2>1, <1>3, FS_Subset, Zenon
  <2> QED
    BY <2>2, <2>3
<1>5. PICK q \in S : \A y \in S : q <= y
  BY <1>3, <1>4, LeastOf
<1>6. q \in Firsts(stream)
  <2>1. q \in DOMAIN stream /\ q \in Nat /\ ReplayKey(stream[q]) = ReplayKey(stream[p])
    BY <1>l
  <2>2. ASSUME NEW j \in 1 .. q - 1 PROVE ReplayKey(stream[j]) # ReplayKey(stream[q])
    <3>1. j \in 1 .. Len(stream) /\ ~(q <= j)
      BY <2>1, <1>l
    <3>2. j \notin S
      BY <3>1, <1>5
    <3> QED
      BY <3>1, <3>2, <2>1
  <2> QED
    BY <2>1, <2>2 DEF Firsts
<1>7. q \in DOMAIN stream /\ o \in DOMAIN stream /\ q <= o /\ q \in Nat /\ o \in Nat
  BY <1>3, <1>4, <1>5, <1>l
<1>8. stream[q].id <= stream[p].id
  <2>1. stream[q].id \in Nat /\ stream[p].id \in Nat
    BY <1>1, <1>7, StreamLines
  <2>2. CASE q = o
    BY <2>1, <2>2, <1>2
  <2>3. CASE q # o
    <3>1. q \in 1 .. o - 1
      BY <2>3, <1>7, <1>l
    <3>2. stream[q].id < stream[o].id
      BY <3>1, <1>1, <1>2, <1>7 DEF Fresh
    <3> QED
      BY <2>1, <3>2, <1>2
  <2> QED
    BY <2>2, <2>3
<1>9. PICK k \in DOMAIN DecodeStream(stream).messages :
         DecodeStream(stream).messages[k] = stream[q]
  BY <1>6, <1>l, KeptAreFirsts
<1>10. ReplayKey(stream[q]) = ReplayKey(stream[p])
  OBVIOUS
<1> QED
  BY <1>8, <1>9, <1>10

-----------------------------------------------------------------------------
\* A line is written at the end: a fresh one, a copy, or the start of one.
LEMMA AppendKeeps ==
  ASSUME MessagesInv, NEW line \in Line, stream' = Append(stream, line),
         nextNumber' \in Nat, emitted' \in Nat, emitted <= emitted', UNCHANGED decoding,
         line # TornLine =>
             /\ line.id <= emitted'
             /\ \/ line.id = emitted + 1
                \/ \E i \in DOMAIN stream : stream[i] = line
  PROVE  MessagesInv'
<1> DEFINE n == Len(stream)
<1>t. MessagesTypeOK /\ LinesHaveOrigins /\ stream \in Seq(Line) /\ emitted \in Nat
  BY DEF MessagesInv, MessagesTypeOK, Line
<1>l. /\ n \in Nat /\ DOMAIN stream = 1 .. n
      /\ \A i \in 1 .. n : stream[i] # TornLine => stream[i].id \in Nat
  BY <1>t, StreamLines
<1>1. /\ stream' \in Seq(Line) /\ DOMAIN stream' = 1 .. n + 1
      /\ \A i \in 1 .. n : stream'[i] = stream[i]
      /\ stream'[n + 1] = line
  BY <1>t, <1>l
<1>i. line # TornLine => line.id \in Nat
  BY DEF Line, Message
<1> HIDE DEF n
<1>c. \A i \in 1 .. n + 1 : i \in 1 .. n \/ i = n + 1
  BY <1>l
<1>s. \A i \in 1 .. n : stream[i] # TornLine => stream[i].id <= emitted
  BY <1>t, <1>l DEF MessagesTypeOK
<1>2. MessagesTypeOK'
  <2>1. ASSUME NEW i \in 1 .. n + 1, stream'[i] # TornLine PROVE stream'[i].id <= emitted'
    <3>1. CASE i \in 1 .. n
      BY <2>1, <3>1, <1>1, <1>s, <1>l, <1>t
    <3>2. CASE i = n + 1
      BY <2>1, <3>2, <1>1
    <3> QED
      BY <3>1, <3>2, <1>c
  <2> QED
    BY <2>1, <1>1 DEF MessagesTypeOK, Line
<1>3. ASSUME NEW i \in 1 .. n PROVE Fresh(i)' <=> Fresh(i)
  <2>1. \A j \in 1 .. i - 1 : j \in 1 .. n
    BY <1>l
  <2> QED
    BY <2>1, <1>1, Zenon DEF Fresh
<1>4. LinesHaveOrigins'
  <2> SUFFICES ASSUME NEW i \in 1 .. n + 1, stream'[i] # TornLine
               PROVE  \E k \in 1 .. i : stream'[k] = stream'[i] /\ Fresh(k)'
    BY <1>1 DEF LinesHaveOrigins
  <2>1. ASSUME NEW j \in 1 .. n, stream[j] # TornLine
        PROVE  \E k \in 1 .. n : k \in 1 .. j /\ stream'[k] = stream[j] /\ Fresh(k)'
    <3>1. PICK k \in 1 .. j : stream[k] = stream[j] /\ Fresh(k)
      BY <2>1, <1>t, <1>l DEF LinesHaveOrigins
    <3>2. k \in 1 .. n
      BY <1>l
    <3> QED
      BY <3>1, <3>2, <1>1, <1>3
  <2>2. CASE i \in 1 .. n
    <3>1. stream'[i] = stream[i] /\ stream[i] # TornLine
      BY <2>2, <1>1
    <3> QED
      BY <2>1, <2>2, <3>1
  <2>3. CASE i = n + 1
    <3>1. stream'[i] = line /\ line # TornLine
      BY <2>3, <1>1
    <3>2. CASE line.id = emitted + 1
      <4>1. ASSUME NEW j \in 1 .. i - 1, stream'[j] # TornLine
            PROVE  stream'[j].id < stream'[i].id
        <5>1. j \in 1 .. n
          BY <2>3, <1>l
        <5> QED
          BY <4>1, <5>1, <3>1, <3>2, <1>1, <1>s, <1>l, <1>t
      <4>2. Fresh(i)'
        BY <4>1 DEF Fresh
      <4>3. i \in 1 .. i
        BY <1>l
      <4> QED
        BY <4>2, <4>3
    <3>3. CASE \E j \in DOMAIN stream : stream[j] = line
      <4>1. PICK j \in 1 .. n : stream[j] = line
        BY <3>3, <1>l
      <4>2. PICK k \in 1 .. n : stream'[k] = line /\ Fresh(k)'
        BY <4>1, <3>1, <2>1
      <4>3. k \in 1 .. i
        BY <2>3, <1>l
      <4> QED
        BY <4>2, <4>3, <3>1
    <3> QED
      BY <3>1, <3>2, <3>3
  <2> QED
    BY <2>2, <2>3, <1>c
<1>5. KeptInOrder'
  BY DEF MessagesInv, KeptInOrder
<1>6. decoding'.status = "failed" => \E i \in DOMAIN stream' : stream'[i] = TornLine
  <2>1. \A i \in 1 .. n : i \in 1 .. n + 1
    BY <1>l
  <2> QED
    BY <2>1, <1>1, <1>l DEF MessagesInv
<1> QED
  BY <1>2, <1>4, <1>5, <1>6 DEF MessagesInv

\* Nothing is sent and nothing decoded at first.
LEMMA MessagesInitInv == MessagesInit => MessagesInv
<1> SUFFICES ASSUME MessagesInit PROVE MessagesInv
  OBVIOUS
<1> USE DEF MessagesInit
<1>1. <<>> \in Seq(Message \cup {TornLine})
  OBVIOUS
<1>2. MessagesTypeOK
  BY <1>1 DEF MessagesTypeOK
<1>3. LinesHaveOrigins /\ KeptInOrder /\ decoding.status = "none"
  BY DEF LinesHaveOrigins, KeptInOrder, NotDecoded
<1> QED
  BY <1>2, <1>3 DEF MessagesInv

\* MessagesInv is inductive.
LEMMA MessagesNextInv == MessagesInv /\ [MessagesNext]_messageVars => MessagesInv'
<1> SUFFICES ASSUME MessagesInv, [MessagesNext]_messageVars PROVE MessagesInv'
  OBVIOUS
<1>t. MessagesTypeOK /\ LinesHaveOrigins /\ nextNumber \in Nat /\ emitted \in Nat
  BY DEF MessagesInv, MessagesTypeOK
<1>l. /\ Len(stream) \in Nat /\ DOMAIN stream = 1 .. Len(stream)
      /\ \A i \in 1 .. Len(stream) : stream[i] \in Line
  BY <1>t, StreamLines
<1>1. ASSUME NEW kind \in MessageKinds, NEW numbered \in BOOLEAN, NEW flaw \in Flaws,
             SendMessage(kind, numbered, flaw)
      PROVE  MessagesInv'
  <2>1. flaw = "none"
    BY <1>1 DEF SendMessage, Encodable, ValidObject, ValidLength, Flaws
  <2>2. PICK number \in Nat : number = IF numbered THEN nextNumber ELSE 0
    BY <1>t
  <2>3. PICK line : line = [type |-> kind[1], scope |-> kind[2], flaw |-> flaw,
                            number |-> number, id |-> emitted + 1]
    OBVIOUS
  <2>4. line \in Message /\ line.id = emitted + 1
    BY <2>1, <2>3, <1>t DEF Message
  <2>5. stream' = Append(stream, line)
    BY <1>1, <2>2, <2>3 DEF SendMessage
  <2>6. /\ nextNumber' \in Nat /\ emitted' = emitted + 1 /\ emitted' \in Nat
        /\ emitted <= emitted' /\ UNCHANGED decoding
    BY <1>1, <1>t DEF SendMessage
  <2> QED
    BY <2>4, <2>5, <2>6, <1>t, AppendKeeps DEF Line
<1>2. ASSUME NEW i \in DOMAIN stream, Replay(i) PROVE MessagesInv'
  <2>1. stream[i] \in Line /\ (stream[i] # TornLine => stream[i].id <= emitted)
    BY <1>t, <1>l DEF MessagesTypeOK
  <2>2. PICK line \in Line : line = stream[i]
    BY <2>1
  <2>3. /\ stream' = Append(stream, line) /\ UNCHANGED <<nextNumber, emitted, decoding>>
    BY <1>2, <2>2 DEF Replay
  <2>4. emitted <= emitted'
    BY <2>3, <1>t
  <2>5. line # TornLine => line.id <= emitted' /\ \E j \in DOMAIN stream : stream[j] = line
    BY <2>1, <2>2, <2>3
  <2> QED
    BY <2>2, <2>3, <2>4, <2>5, <1>t, AppendKeeps
<1>3. ASSUME NEW torn \in BOOLEAN, ScannerDies(torn) PROVE MessagesInv'
  <2>1. nextNumber' = 0 /\ UNCHANGED <<emitted, decoding>>
    BY <1>3 DEF ScannerDies
  <2>2. CASE torn
    <3>1. stream' = Append(stream, TornLine) /\ TornLine \in Line /\ emitted <= emitted'
      BY <1>3, <2>1, <2>2, <1>t DEF ScannerDies, Line
    <3> QED
      BY <3>1, <2>1, <1>t, AppendKeeps
  <2>3. CASE ~torn
    <3>1. stream' = stream
      BY <1>3, <2>3 DEF ScannerDies
    <3> QED
      BY <3>1, <2>1 DEF MessagesInv, MessagesTypeOK, LinesHaveOrigins, Fresh, KeptInOrder
  <2> QED
    BY <2>2, <2>3
<1>4. CASE Decode
  <2>1. decoding' = DecodeStream(stream) /\ UNCHANGED <<stream, nextNumber, emitted>>
    BY <1>4 DEF Decode
  <2>2. MessagesTypeOK' /\ LinesHaveOrigins'
    BY <2>1, <1>t DEF MessagesTypeOK, LinesHaveOrigins, Fresh
  <2>3. PICK d : d = DecodeStream(stream)
    OBVIOUS
  <2>4. \A k, l \in DOMAIN d.messages : k < l => d.messages[k].id < d.messages[l].id
    <3>1. CASE d.status = "decoded"
      BY <3>1, <2>3, <1>t, DecodedInOrder
    <3>2. CASE d.status = "failed"
      <4>1. d.messages = <<>>
        BY <3>2, <2>3, <1>t, DecodedUnlessTorn
      <4> QED
        BY <4>1
    <3> QED
      BY <3>1, <3>2, <2>3, <1>t, DecodedUnlessTorn
  <2>5. d.status = "failed" => \E i \in DOMAIN stream : stream[i] = TornLine
    BY <2>3, <1>t, DecodedUnlessTorn
  <2>6. decoding' = d
    BY <2>1, <2>3
  <2> QED
    BY <2>1, <2>2, <2>4, <2>5, <2>6 DEF MessagesInv, KeptInOrder
<1>5. CASE UNCHANGED messageVars
  BY <1>5 DEF messageVars, MessagesInv, MessagesTypeOK, LinesHaveOrigins, Fresh, KeptInOrder
<1> QED
  BY <1>1, <1>2, <1>3, <1>4, <1>5 DEF MessagesNext

(* Whatever a scanner sends, sends again and leaves half written, what      *)
(* decode_stream returns is in the order sent and without repetition, what  *)
(* it drops has the replay key of an earlier message, and only a line that  *)
(* was cut off makes it fail (scanner/messages.py:121-133).                 *)
THEOREM DecodingKeepsOrder == MessagesSpec => []DecodedOnceInOrder
<1>1. MessagesInv => DecodedOnceInOrder
  <2> SUFFICES ASSUME MessagesInv PROVE DecodedOnceInOrder
    OBVIOUS
  <2> DEFINE kept == decoding.messages
             sent == {stream[i] : i \in DOMAIN stream} \ {TornLine}
  <2>1. \A i, j \in DOMAIN kept : i < j => kept[i].id < kept[j].id
    BY DEF MessagesInv, KeptInOrder
  <2>2. ASSUME decoding = DecodeStream(stream), decoding.status = "decoded", NEW s \in sent
        PROVE  \E i \in DOMAIN kept :
                  /\ kept[i].id <= s.id
                  /\ kept[i].id = s.id \/ <<kept[i].type, kept[i].number, kept[i].scope>>
                                            = <<s.type, s.number, s.scope>>
    <3>1. PICK p \in DOMAIN stream : s = stream[p]
      OBVIOUS
    <3>2. PICK k \in DOMAIN kept : kept[k].id <= s.id /\ ReplayKey(kept[k]) = ReplayKey(s)
      BY <2>2, <3>1, NoKeyIsMissing DEF MessagesInv
    <3> QED
      BY <3>2 DEF ReplayKey
  <2>3. decoding.status = "failed" => TornLine \in ToSet(stream)
    BY DEF MessagesInv, ToSet
  <2> QED
    BY <2>1, <2>2, <2>3 DEF DecodedOnceInOrder
<1> QED
  BY MessagesInitInv, MessagesNextInv, <1>1, PTL DEF MessagesSpec

-----------------------------------------------------------------------------
(* Review over the API (api/app.py).                                         *)

\* Those before x in S along R, x included.
Before(R, S, x) == {y \in S : y = x \/ <<y, x>> \in R}

\* R orders S strictly and totally.
StrictOrder(R, S) ==
    /\ \A x \in S : <<x, x>> \notin R
    /\ \A x, y, z \in S : <<x, y>> \in R /\ <<y, z>> \in R => <<x, z>> \in R
    /\ \A x, y \in S : x = y \/ <<x, y>> \in R \/ <<y, x>> \in R

\* R counts off the elements of S, up to a last one.
RankedBy(R, S) ==
    /\ \A x \in S : Cardinality(Before(R, S, x)) \in 1 .. Cardinality(S)
    /\ \A x, y \in S : <<x, y>> \in R =>
          Cardinality(Before(R, S, x)) < Cardinality(Before(R, S, y))
    /\ S # {} => \E x \in S : \A y \in S : y = x \/ <<y, x>> \in R

\* Along a strict order the count of those before goes up, and a finite set that is
\* not empty has a last element.
LEMMA OrderedFinitely ==
  ASSUME NEW S, IsFiniteSet(S), NEW R, StrictOrder(R, S)
  PROVE  RankedBy(R, S)
<1> DEFINE count(x) == Cardinality(Before(R, S, x))
           n == Cardinality(S)
           C == [x \in S |-> count(x)]
<1>n. n \in Nat
  BY FS_CardinalityType
<1>1. ASSUME NEW x \in S PROVE IsFiniteSet(Before(R, S, x)) /\ count(x) \in 1 .. n
  <2>1. Before(R, S, x) \in SUBSET S /\ x \in Before(R, S, x)
    BY DEF Before
  <2>2. IsFiniteSet(Before(R, S, x)) /\ count(x) <= n
    BY <2>1, FS_Subset
  <2>3. count(x) \in Nat
    BY <2>2, FS_CardinalityType
  <2>5. count(x) # 0
    BY <2>1, <2>2, FS_EmptySet
  <2> QED
    BY <2>2, <2>3, <2>5, <1>n
<1>2. ASSUME NEW x \in S, NEW y \in S, <<x, y>> \in R PROVE count(x) < count(y)
  <2>1. Before(R, S, x) \in SUBSET Before(R, S, y)
    BY <1>2 DEF Before, StrictOrder
  <2>2. y \in Before(R, S, y) /\ y \notin Before(R, S, x)
    BY <1>2 DEF Before, StrictOrder
  <2>3. IsFiniteSet(Before(R, S, y))
    BY <1>1
  <2>4. count(x) <= count(y) /\ count(x) # count(y)
    BY <2>1, <2>2, <2>3, FS_Subset
  <2>5. count(x) \in Nat /\ count(y) \in Nat
    BY <1>1
  <2> QED
    BY <2>4, <2>5
<1>3. ASSUME S # {} PROVE \E x \in S : \A y \in S : y = x \/ <<y, x>> \in R
  <2>1. C \in [S -> 1 .. n]
    BY <1>1
  <2>2. \A x, y \in S : C[x] = C[y] => x = y
    <3> SUFFICES ASSUME NEW x \in S, NEW y \in S, x # y PROVE count(x) # count(y)
      OBVIOUS
    <3>1. count(x) < count(y) \/ count(y) < count(x)
      BY <1>2 DEF StrictOrder
    <3>2. count(x) \in Nat /\ count(y) \in Nat
      BY <1>1
    <3> HIDE DEF count
    <3> QED
      BY <3>1, <3>2
  <2>3. C \in Injection(S, 1 .. n)
    <3> HIDE DEF C, n
    <3> QED
      BY <2>1, <2>2 DEF Injection, IsInjective
  <2>4. IsFiniteSet(1 .. n) /\ Cardinality(1 .. n) = n
    BY <1>n, FS_Interval
  <2>5. C \in Surjection(S, 1 .. n)
    BY <2>3, <2>4, FS_Injection
  <2>6. n \in 1 .. n
    BY <1>3, <1>n, FS_EmptySet
  <2>7. PICK x \in S : count(x) = n
    <3>1. \E x \in S : C[x] = n
      BY <2>5, <2>6 DEF Surjection
    <3> QED
      BY <3>1
  <2>8. Before(R, S, x) \in SUBSET S
    BY DEF Before
  <2>9. Before(R, S, x) = S
    BY <2>7, <2>8, FS_Subset
  <2> QED
    BY <2>9 DEF Before
<1> QED
  BY <1>1, <1>2, <1>3 DEF RankedBy

\* A page is a first part of the rows: what is not on it comes after its last row,
\* and nothing is missing when the rows are within the limit.
LEMMA PageIsFirstPart ==
  ASSUME NEW rows \in SUBSET Findings
  PROVE  /\ PageOf(rows) \subseteq rows
         /\ PageOf(rows) # {} =>
               /\ LastRow(PageOf(rows)) \in PageOf(rows)
               /\ \A g \in PageOf(rows) :
                     g = LastRow(PageOf(rows)) \/ RowBefore(g, LastRow(PageOf(rows)))
               /\ \A g \in rows \ PageOf(rows) : RowBefore(LastRow(PageOf(rows)), g)
         /\ ~(Cardinality(rows) > PageLimit) => PageOf(rows) = rows
<1> USE ReviewAssumption
<1>f. \A f \in Findings : f \in Nat /\ CreatedAt[f] \in Nat
  OBVIOUS
<1>o. /\ \A x \in Findings : ~RowBefore(x, x)
      /\ \A x, y, z \in Findings : RowBefore(x, y) /\ RowBefore(y, z) => RowBefore(x, z)
      /\ \A x, y \in Findings : x = y \/ RowBefore(x, y) \/ RowBefore(y, x)
  BY <1>f DEF RowBefore
<1>1. ASSUME NEW S \in SUBSET Findings
      PROVE  /\ IsFiniteSet(S) /\ Cardinality(S) \in Nat
             /\ \A x \in S : RowNumber(x, S) \in 1 .. Cardinality(S)
             /\ \A x, y \in S : RowBefore(x, y) => RowNumber(x, S) < RowNumber(y, S)
             /\ S # {} => \E x \in S : \A y \in S : y = x \/ RowBefore(y, x)
  <2> DEFINE R == {p \in S \X S : RowBefore(p[1], p[2])}
  <2>1. IsFiniteSet(S)
    BY FS_Subset
  <2>2. \A x, y \in S : <<x, y>> \in R <=> RowBefore(x, y)
    OBVIOUS
  <2>3. \A x \in S : Before(R, S, x) = {y \in S : y = x \/ RowBefore(y, x)}
    <3> HIDE DEF R
    <3> QED
      BY <2>2 DEF Before
  <2>4. \A x \in S : RowNumber(x, S) = Cardinality(Before(R, S, x))
    BY <2>3 DEF RowNumber
  <2> HIDE DEF R
  <2>5. StrictOrder(R, S)
    BY <2>2, <1>o DEF StrictOrder
  <2>6. RankedBy(R, S)
    BY <2>1, <2>5, OrderedFinitely
  <2>7. Cardinality(S) \in Nat
    BY <2>1, FS_CardinalityType
  <2> QED
    BY <2>1, <2>2, <2>4, <2>6, <2>7 DEF RankedBy
<1>2. PICK page : page = PageOf(rows)
  OBVIOUS
<1>3. page \in SUBSET Findings /\ page \subseteq rows
  BY <1>2 DEF PageOf
<1>4. ASSUME page # {}
      PROVE  /\ LastRow(page) \in page
             /\ \A g \in page : g = LastRow(page) \/ RowBefore(g, LastRow(page))
             /\ \A g \in rows \ page : RowBefore(LastRow(page), g)
  <2>1. \E x \in page : \A y \in page : y = x \/ RowBefore(y, x)
    BY <1>1, <1>3, <1>4
  <2>2. PICK l : l = LastRow(page)
    OBVIOUS
  <2>3. l \in page /\ \A g \in page : g = l \/ RowBefore(g, l)
    BY <2>1, <2>2, Zenon DEF LastRow
  <2>4. ASSUME NEW g \in rows, g \notin page PROVE RowBefore(l, g)
    <3>1. l \in rows /\ l \in Findings /\ g \in Findings
      BY <2>3, <1>3
    <3>2. RowNumber(l, rows) <= PageLimit /\ ~(RowNumber(g, rows) <= PageLimit)
      BY <2>3, <2>4, <1>2 DEF PageOf
    <3>3. ASSUME RowBefore(g, l) PROVE FALSE
      <4>1. RowNumber(g, rows) < RowNumber(l, rows)
        BY <3>1, <3>3, <1>1
      <4>2. RowNumber(g, rows) \in Nat /\ RowNumber(l, rows) \in Nat
        <5>1. /\ Cardinality(rows) \in Nat /\ RowNumber(g, rows) \in 1 .. Cardinality(rows)
              /\ RowNumber(l, rows) \in 1 .. Cardinality(rows)
          BY <3>1, <1>1
        <5> QED
          BY <5>1
      <4> QED
        BY <3>2, <4>1, <4>2
    <3>4. g # l
      BY <2>3, <2>4
    <3> QED
      BY <3>1, <3>3, <3>4, <1>o
  <2> QED
    BY <2>2, <2>3, <2>4
<1>5. ASSUME ~(Cardinality(rows) > PageLimit) PROVE page = rows
  <2>1. ASSUME NEW f \in rows PROVE f \in page
    <3>1. Cardinality(rows) \in Nat /\ RowNumber(f, rows) \in 1 .. Cardinality(rows)
      BY <1>1
    <3>2. RowNumber(f, rows) <= PageLimit
      BY <3>1, <1>5
    <3> QED
      BY <3>2, <1>2 DEF PageOf
  <2> QED
    BY <2>1, <1>3
<1> QED
  BY <1>2, <1>3, <1>4, <1>5

\* A request's next finding is one of those it has left, and the first of them.
LEMMA FirstTodoIsLeft ==
  ASSUME ReviewTypeOK, request.todo # {}
  PROVE  FirstTodo \in request.todo /\ FirstTodo \in TodoRow /\ FirstTodo.finding \in Existing
<1> DEFINE F == {row.finding : row \in request.todo}
<1>1. request.todo \subseteq TodoRow /\ \A row \in request.todo : row.finding \in Existing
  BY DEF ReviewTypeOK
<1>2. F \in SUBSET Findings /\ F \in SUBSET Nat /\ F # {}
  BY <1>1, ReviewAssumption DEF TodoRow
<1>6. IsFiniteSet(F)
  <2> HIDE DEF F
  <2> QED
    BY <1>2, ReviewAssumption, FS_Subset, Zenon
<1>3. PICK least \in F : \A x \in F : least <= x
  <2> HIDE DEF F
  <2> QED
    BY <1>2, <1>6, LeastOf, Zenon
<1>4. \E row \in request.todo : \A other \in request.todo : row.finding <= other.finding
  BY <1>3
<1>5. FirstTodo \in request.todo
  BY <1>4, Zenon DEF FirstTodo
<1> QED
  BY <1>1, <1>5

\* The client's steps: the cursor moves to the last row of the page, so that what was
\* listed stays behind it and what is still to be listed stays ahead.
LEMMA OpenListKeeps ==
  ASSUME ReviewInv, NEW status \in Statuses, OpenList(status)
  PROVE  ReviewInv'
<1> USE DEF ReviewInv
<1>1. pager' = [at |-> "open", status |-> status, cursor |-> NoCursor, listed |-> {},
                repeated |-> {}, steady |-> {f \in Existing : findings[f] = status}]
  BY DEF OpenList
<1>u. /\ findings' = findings /\ actions' = actions /\ groups' = groups
      /\ request' = request /\ orphans' = orphans /\ Existing' = Existing
  BY DEF OpenList, Existing
<1>2. Existing \subseteq Findings
  BY DEF ReviewTypeOK
<1>3. ReviewTypeOK'
  <2>1. pager' \in [at : {"closed", "open", "done"}, status : Statuses, cursor : Nat \X Nat,
                    listed : SUBSET Findings, repeated : SUBSET Findings,
                    steady : SUBSET Findings]
    BY <1>1, <1>2 DEF NoCursor
  <2> QED
    BY <2>1, <1>u DEF ReviewTypeOK
<1>4. \A f \in Findings : AfterCursor(f, NoCursor)
  BY ReviewAssumption DEF AfterCursor, NoCursor
<1>5. PagerInStep'
  BY <1>1, <1>u, <1>2, <1>4 DEF PagerInStep
<1>6. ListedOnce'
  BY <1>1 DEF ListedOnce
<1>7. StatusAccounted'
  BY <1>u DEF StatusAccounted
<1>8. FirstTodo' = FirstTodo
  BY <1>u DEF FirstTodo
<1>9. TodoIsCurrent'
  BY <1>u, <1>8 DEF TodoIsCurrent
<1> QED
  BY <1>3, <1>5, <1>6, <1>7, <1>9

\* The next page (_query_findings).
LEMMA NextPageKeeps ==
  ASSUME ReviewInv, NextPage
  PROVE  ReviewInv'
<1> USE DEF ReviewInv
<1>1. PICK rows : rows = Matching(pager.status, pager.cursor)
  OBVIOUS
<1>2. PICK page : page = PageOf(rows)
  OBVIOUS
<1>3. PICK at : at = IF Cardinality(rows) > PageLimit THEN "open" ELSE "done"
  OBVIOUS
<1>4. PICK moved : moved = IF page = {} THEN pager.cursor ELSE PositionOf(LastRow(page))
  OBVIOUS
<1>5. /\ pager' = [at |-> at, status |-> pager.status, cursor |-> moved,
                   listed |-> pager.listed \cup page,
                   repeated |-> pager.repeated \cup (pager.listed \cap page),
                   steady |-> pager.steady]
      /\ pager.at = "open"
  BY <1>1, <1>2, <1>3, <1>4, Zenon DEF NextPage
<1>u. /\ findings' = findings /\ actions' = actions /\ groups' = groups
      /\ request' = request /\ orphans' = orphans /\ Existing' = Existing
  BY DEF NextPage, Existing
<1>6. /\ Existing \subseteq Findings /\ pager.cursor \in Nat \X Nat
      /\ pager.listed \subseteq Findings /\ pager.repeated \subseteq Findings
      /\ pager.steady \subseteq Findings /\ pager.status \in Statuses
  BY DEF ReviewTypeOK
<1>7. /\ rows \in SUBSET Findings
      /\ \A f \in rows : AfterCursor(f, pager.cursor)
      /\ \A f \in Existing : findings[f] = pager.status /\ AfterCursor(f, pager.cursor)
            => f \in rows
  BY <1>1, <1>6 DEF Matching
<1>8. /\ page \subseteq rows
      /\ page # {} =>
            /\ LastRow(page) \in page
            /\ \A g \in page : g = LastRow(page) \/ RowBefore(g, LastRow(page))
            /\ \A g \in rows \ page : RowBefore(LastRow(page), g)
      /\ ~(Cardinality(rows) > PageLimit) => page = rows
  BY <1>2, <1>7, PageIsFirstPart
<1>f. \A f \in Findings : f \in Nat /\ CreatedAt[f] \in Nat
  BY ReviewAssumption
<1>9. moved \in Nat \X Nat
  BY <1>4, <1>6, <1>7, <1>8, <1>f DEF PositionOf
<1>10. pager.repeated = {} /\ pager.listed \cap page = {}
  BY <1>7, <1>8 DEF PagerInStep, ListedOnce
<1>11. ASSUME NEW f \in pager.listed \cup page PROVE ~AfterCursor(f, moved)
  <2>1. CASE page = {}
    BY <2>1, <1>4, <1>11 DEF PagerInStep
  <2>2. CASE page # {}
    <3>1. PICK l \in page : moved = <<CreatedAt[l], l>> /\ l = LastRow(page)
      BY <2>2, <1>4, <1>8 DEF PositionOf
    <3>2. f \in Findings /\ l \in Findings
      BY <1>6, <1>7, <1>8
    <3>3. CASE f \in page
      <4>1. f = l \/ RowBefore(f, l)
        BY <3>1, <3>3, <1>8, <2>2
      <4> QED
        BY <4>1, <3>1, <3>2, <1>f DEF RowBefore, AfterCursor
    <3>4. CASE f \in pager.listed
      <4>1. ~AfterCursor(f, pager.cursor) /\ AfterCursor(l, pager.cursor)
        BY <3>4, <1>7, <1>8 DEF PagerInStep
      <4>2. PICK c \in Nat, d \in Nat : pager.cursor = <<c, d>>
        BY <1>6
      <4> QED
        BY <4>1, <4>2, <3>1, <3>2, <1>f DEF AfterCursor
    <3> QED
      BY <3>3, <3>4, <1>11
  <2> QED
    BY <2>1, <2>2
<1>12. ASSUME NEW f \in pager.steady
       PROVE  /\ f \in Existing /\ findings[f] = pager.status
              /\ f \in pager.listed \cup page \/ (at = "open" /\ AfterCursor(f, moved))
  <2>1. /\ f \in Existing /\ findings[f] = pager.status
        /\ f \in pager.listed \/ AfterCursor(f, pager.cursor)
    BY <1>12 DEF PagerInStep
  <2>2. ASSUME f \notin pager.listed, f \notin page PROVE at = "open" /\ AfterCursor(f, moved)
    <3>1. f \in rows \ page /\ AfterCursor(f, pager.cursor)
      BY <2>1, <2>2, <1>7
    <3>2. at = "open"
      BY <3>1, <1>3, <1>8
    <3>3. CASE page = {}
      BY <3>1, <3>2, <3>3, <1>4
    <3>4. CASE page # {}
      <4>1. PICK l \in page : moved = <<CreatedAt[l], l>> /\ l = LastRow(page)
        BY <3>4, <1>4, <1>8 DEF PositionOf
      <4>2. RowBefore(l, f) /\ f \in Findings /\ l \in Findings
        BY <3>1, <3>4, <4>1, <1>7, <1>8
      <4> QED
        BY <3>2, <4>1, <4>2, <1>f DEF RowBefore, AfterCursor
    <3> QED
      BY <3>3, <3>4
  <2> QED
    BY <2>1, <2>2
<1>13. ReviewTypeOK'
  <2>1. pager' \in [at : {"closed", "open", "done"}, status : Statuses, cursor : Nat \X Nat,
                    listed : SUBSET Findings, repeated : SUBSET Findings,
                    steady : SUBSET Findings]
    <3>1. at \in {"closed", "open", "done"}
      BY <1>3
    <3>2. page \subseteq Findings
      BY <1>7, <1>8
    <3> QED
      BY <3>1, <3>2, <1>5, <1>6, <1>9
  <2> QED
    BY <2>1, <1>u DEF ReviewTypeOK
<1>14. PagerInStep'
  <2>1. /\ pager'.listed = pager.listed \cup page /\ pager'.steady = pager.steady
        /\ pager'.cursor = moved /\ pager'.at = at /\ pager'.status = pager.status
    BY <1>5
  <2> QED
    BY <2>1, <1>u, <1>11, <1>12 DEF PagerInStep
<1>15. ListedOnce'
  <2>1. /\ pager'.listed = pager.listed \cup page /\ pager'.steady = pager.steady
        /\ pager'.at = at /\ pager'.repeated = {}
    BY <1>5, <1>10
  <2>2. at = "done" => pager.steady \subseteq pager.listed \cup page
    BY <1>12
  <2> QED
    BY <2>1, <2>2 DEF ListedOnce
<1>16. StatusAccounted'
  BY <1>u DEF StatusAccounted
<1>17. FirstTodo' = FirstTodo
  BY <1>u DEF FirstTodo
<1>18. TodoIsCurrent'
  BY <1>u, <1>17 DEF TodoIsCurrent
<1> QED
  BY <1>13, <1>14, <1>15, <1>16, <1>18

\* The scanner's step adds a row that no request and no record knows yet.
LEMMA RecordFindingKeeps ==
  ASSUME ReviewInv, NEW n \in Findings, RecordFinding(n)
  PROVE  ReviewInv'
<1> USE DEF ReviewInv
<1>1. /\ n \notin Existing
      /\ findings' = [g \in Existing \cup {n} |-> IF g = n THEN "new" ELSE findings[g]]
      /\ actions' = actions /\ groups' = groups /\ request' = request /\ orphans' = orphans
      /\ pager' = pager
  BY DEF RecordFinding
<1>2. Existing' = Existing \cup {n}
  BY <1>1 DEF Existing
<1>3. findings'[n] = "new" /\ \A g \in Existing : findings'[g] = findings[g]
  BY <1>1
<1>4. /\ Existing \subseteq Findings /\ findings \in [Existing -> Statuses]
      /\ \A r \in actions : r.finding \in Existing
      /\ \A row \in request.todo : row.finding \in Existing /\ orphans \subseteq Existing
  BY DEF ReviewTypeOK
<1>5. ReviewTypeOK'
  <2>1. findings' \in [Existing' -> Statuses] /\ Existing' \subseteq Findings
    BY <1>1, <1>2, <1>4 DEF Statuses
  <2> QED
    BY <2>1, <1>1, <1>2 DEF ReviewTypeOK
<1>6. ListedOnce'
  BY <1>1 DEF ListedOnce
<1>7. PagerInStep'
  BY <1>1, <1>2, <1>3 DEF PagerInStep
<1>8. StatusAccounted'
  <2> SUFFICES ASSUME NEW f \in Existing' \ orphans'
               PROVE  \/ findings'[f] = "new" /\ \A r \in actions : r.finding # f
                      \/ \E r \in actions :
                            /\ r.finding = f
                            /\ findings'[f] = IF r.undone THEN r.previous ELSE r.target
    BY <1>1 DEF StatusAccounted
  <2>1. CASE f = n
    BY <2>1, <1>1, <1>3, <1>4
  <2>2. CASE f # n
    <3>1. f \in Existing \ orphans /\ findings'[f] = findings[f]
      BY <2>2, <1>1, <1>2, <1>3
    <3> QED
      BY <3>1 DEF StatusAccounted
  <2> QED
    BY <2>1, <2>2
<1>9. TodoIsCurrent'
  <2>1. FirstTodo' = FirstTodo
    BY <1>1 DEF FirstTodo
  <2>2. request.half => FirstTodo.finding \in Existing
    BY FirstTodoIsLeft DEF TodoIsCurrent
  <2> QED
    BY <2>1, <2>2, <1>1, <1>3, <1>4 DEF TodoIsCurrent
<1> QED
  BY <1>5, <1>6, <1>7, <1>8, <1>9

\* A request begins by reading what it will act on.
LEMMA BeginKeeps ==
  ASSUME ReviewInv, request.todo = {},
         NEW kind \in {"apply", "undo"}, NEW group \in Nat, NEW todo \in SUBSET TodoRow,
         \A row \in todo : row.finding \in Existing,
         request' = [kind |-> kind, group |-> group, half |-> FALSE, todo |-> todo],
         kind = "apply" => /\ \A row, other \in todo : row.finding = other.finding => row = other
                           /\ \A row \in todo : findings[row.finding] = row.previous,
         kind = "undo" => \A row \in todo : row.set = row.previous /\ \E r \in actions :
              r.group = group /\ r.finding = row.finding /\ r.previous = row.previous,
         groups' \in Nat, UNCHANGED <<findings, actions, orphans, pager>>
  PROVE  ReviewInv'
<1> USE DEF ReviewInv
<1>1. /\ findings' = findings /\ actions' = actions /\ orphans' = orphans /\ pager' = pager
      /\ Existing' = Existing
  BY DEF Existing
<1>2. ReviewTypeOK'
  <2>1. request' \in [kind : {"none", "apply", "undo"}, group : Nat, todo : SUBSET TodoRow,
                      half : BOOLEAN]
    OBVIOUS
  <2>2. \A row \in request'.todo : row.finding \in Existing
    OBVIOUS
  <2> QED
    BY <2>1, <2>2, <1>1 DEF ReviewTypeOK
<1>3. ListedOnce' /\ PagerInStep' /\ StatusAccounted'
  BY <1>1 DEF ListedOnce, PagerInStep, StatusAccounted
<1>4. TodoIsCurrent'
  <2>1. /\ request'.kind = kind /\ request'.group = group /\ request'.todo = todo
        /\ request'.half = FALSE
    OBVIOUS
  <2> QED
    BY <2>1, <1>1 DEF TodoIsCurrent
<1> QED
  BY <1>2, <1>3, <1>4

\* _apply_review_action reads the statuses of its targets.
LEMMA BeginApplyKeeps ==
  ASSUME ReviewInv, NEW ids \in SUBSET Existing, NEW target \in Statuses, BeginApply(ids, target)
  PROVE  ReviewInv'
<1>1. PICK todo : todo = {[finding |-> f, previous |-> findings[f], set |-> target] : f \in ids}
  OBVIOUS
<1>2. /\ Existing \subseteq Findings /\ findings \in [Existing -> Statuses] /\ groups \in Nat
  BY DEF ReviewInv, ReviewTypeOK
<1>3. /\ request.todo = {} /\ groups' = groups + 1
      /\ request' = [kind |-> "apply", group |-> groups + 1, half |-> FALSE, todo |-> todo]
      /\ UNCHANGED <<findings, actions, orphans, pager>>
  BY <1>1 DEF BeginApply, NoRequest
<1>4. todo \in SUBSET TodoRow
  BY <1>1, <1>2 DEF TodoRow
<1>5. /\ \A row \in todo : row.finding \in Existing
      /\ \A row, other \in todo : row.finding = other.finding => row = other
      /\ \A row \in todo : findings[row.finding] = row.previous
  BY <1>1
<1>6. groups + 1 \in Nat /\ groups' \in Nat
  BY <1>2, <1>3
<1> QED
  BY <1>3, <1>4, <1>5, <1>6, BeginKeeps

\* _undo_review_action reads the rows of a group.
LEMMA BeginUndoKeeps ==
  ASSUME ReviewInv, NEW g \in Nat, BeginUndo(g)
  PROVE  ReviewInv'
<1>1. PICK todo : todo = {[finding |-> r.finding, previous |-> r.previous, set |-> r.previous]
                          : r \in RowsOf(g)}
  OBVIOUS
<1>2. /\ actions \subseteq ActionRow /\ \A r \in actions : r.finding \in Existing
      /\ groups \in Nat
  BY DEF ReviewInv, ReviewTypeOK
<1>3. /\ request.todo = {} /\ groups' = groups
      /\ request' = [kind |-> "undo", group |-> g, half |-> FALSE, todo |-> todo]
      /\ UNCHANGED <<findings, actions, orphans, pager>>
  BY <1>1 DEF BeginUndo, NoRequest
<1>4. todo \in SUBSET TodoRow
  BY <1>1, <1>2 DEF TodoRow, ActionRow, RowsOf
<1>5. \A row \in todo : row.finding \in Existing
  BY <1>1, <1>2 DEF RowsOf
<1>6. \A row \in todo : row.set = row.previous /\ \E r \in actions :
          r.group = g /\ r.finding = row.finding /\ r.previous = row.previous
  BY <1>1 DEF RowsOf
<1> QED
  BY <1>2, <1>3, <1>4, <1>5, <1>6, BeginKeeps

\* Between its UPDATE and its record a finding counts as an orphan, and the finding in hand
\* has the status that the request gives it.
LEMMA UpdateStatusKeeps ==
  ASSUME ReviewInv, UpdateStatus
  PROVE  ReviewInv'
<1> USE DEF ReviewInv
<1>1. PICK t : t = FirstTodo
  OBVIOUS
<1>2. /\ t \in request.todo /\ t \in TodoRow /\ t.finding \in Existing
  BY <1>1, FirstTodoIsLeft DEF UpdateStatus
<1>3. /\ ~request.half
      /\ findings' = [findings EXCEPT ![t.finding] = t.set]
      /\ orphans' = orphans \cup {t.finding}
      /\ pager' = IF t.set = pager.status THEN pager
                  ELSE [pager EXCEPT !.steady = @ \ {t.finding}]
      /\ request' = [request EXCEPT !.half = TRUE]
      /\ actions' = actions /\ groups' = groups
  BY <1>1 DEF UpdateStatus, SetStatus
<1>4. /\ Existing \subseteq Findings /\ findings \in [Existing -> Statuses]
      /\ request \in [kind : {"none", "apply", "undo"}, group : Nat, todo : SUBSET TodoRow,
                      half : BOOLEAN]
      /\ pager \in [at : {"closed", "open", "done"}, status : Statuses, cursor : Nat \X Nat,
                    listed : SUBSET Findings, repeated : SUBSET Findings,
                    steady : SUBSET Findings]
      /\ orphans \subseteq Existing /\ t.set \in Statuses
  BY <1>2 DEF ReviewTypeOK, TodoRow
<1>5. /\ Existing' = Existing /\ findings' \in [Existing -> Statuses]
      /\ findings'[t.finding] = t.set
      /\ \A f \in Existing : f # t.finding => findings'[f] = findings[f]
  BY <1>2, <1>3, <1>4 DEF Existing
<1>6. /\ request'.kind = request.kind /\ request'.group = request.group
      /\ request'.todo = request.todo /\ request'.half = TRUE
      /\ request' \in [kind : {"none", "apply", "undo"}, group : Nat, todo : SUBSET TodoRow,
                       half : BOOLEAN]
  BY <1>3, <1>4
<1>7. /\ pager'.at = pager.at /\ pager'.status = pager.status /\ pager'.cursor = pager.cursor
      /\ pager'.listed = pager.listed /\ pager'.repeated = pager.repeated
      /\ pager'.steady \subseteq pager.steady
      /\ t.finding \in pager'.steady => t.set = pager.status
      /\ pager' \in [at : {"closed", "open", "done"}, status : Statuses, cursor : Nat \X Nat,
                     listed : SUBSET Findings, repeated : SUBSET Findings,
                     steady : SUBSET Findings]
  BY <1>3, <1>4
<1>8. ReviewTypeOK'
  BY <1>2, <1>3, <1>4, <1>5, <1>6, <1>7 DEF ReviewTypeOK
<1>9. ListedOnce'
  BY <1>7 DEF ListedOnce
<1>10. PagerInStep'
  <2>1. \A f \in pager'.listed : ~AfterCursor(f, pager'.cursor)
    BY <1>7 DEF PagerInStep
  <2>2. ASSUME NEW f \in pager'.steady
        PROVE  /\ f \in Existing /\ findings'[f] = pager'.status
               /\ f \in pager'.listed \/ (pager'.at = "open" /\ AfterCursor(f, pager'.cursor))
    <3>1. /\ f \in Existing /\ findings[f] = pager.status
          /\ f \in pager.listed \/ (pager.at = "open" /\ AfterCursor(f, pager.cursor))
      BY <2>2, <1>7 DEF PagerInStep
    <3>2. findings'[f] = pager.status
      BY <3>1, <2>2, <1>5, <1>7
    <3> QED
      BY <3>1, <3>2, <1>7
  <2> QED
    BY <2>1, <2>2, <1>5 DEF PagerInStep
<1>11. StatusAccounted'
  BY <1>3, <1>5 DEF StatusAccounted
<1>12. TodoIsCurrent'
  <2>1. FirstTodo' = t
    BY <1>1, <1>6 DEF FirstTodo
  <2>2. request.kind # "none" /\ request.todo # {}
    BY <1>2 DEF TodoIsCurrent
  <2>3. ASSUME request.kind = "apply", NEW row \in request.todo, row # t
        PROVE  findings'[row.finding] = row.previous
    <3>1. row.finding # t.finding /\ findings[row.finding] = row.previous
      BY <2>3, <1>2, <1>3 DEF TodoIsCurrent
    <3>2. row.finding \in Existing
      BY <2>3 DEF ReviewTypeOK
    <3> QED
      BY <3>1, <3>2, <1>5
  <2>4. request'.half => request'.todo # {} /\ findings'[FirstTodo'.finding] = FirstTodo'.set
    BY <2>1, <2>2, <1>5, <1>6
  <2>5. request'.kind = "apply" =>
          /\ \A row, other \in request'.todo : row.finding = other.finding => row = other
          /\ \A row \in request'.todo : (request'.half => row # FirstTodo') =>
                findings'[row.finding] = row.previous
    BY <2>1, <2>3, <1>6 DEF TodoIsCurrent
  <2>6. request'.kind = "undo" =>
          \A row \in request'.todo : row.set = row.previous /\ \E r \in actions' :
              r.group = request'.group /\ r.finding = row.finding /\ r.previous = row.previous
    BY <1>3, <1>6 DEF TodoIsCurrent
  <2> QED
    BY <2>2, <2>4, <2>5, <2>6, <1>6 DEF TodoIsCurrent
<1> QED
  BY <1>8, <1>9, <1>10, <1>11, <1>12

\* A record written keeps the rows there are, but for their undone marks.
LEMMA RecordKeepsRows ==
  ASSUME actions \subseteq ActionRow, NEW t,
         actions' = Recorded(t)
  PROVE  /\ \A r \in actions : \E s \in actions' :
               /\ s.group = r.group /\ s.finding = r.finding /\ s.previous = r.previous
               /\ s.target = r.target
               /\ r.finding # t.finding => s.undone = r.undone
         /\ request.kind # "apply" =>
               /\ actions' \subseteq ActionRow
               /\ \A s \in actions' : \E r \in actions : s.finding = r.finding
               /\ \A r \in actions : r.group = request.group /\ r.finding = t.finding =>
                     \E s \in actions' : /\ s.finding = r.finding /\ s.undone
                                         /\ s.previous = r.previous
<1>1. CASE request.kind = "apply"
  <2>1. actions \subseteq actions'
    BY <1>1 DEF Recorded
  <2> QED
    BY <2>1, <1>1
<1>2. CASE request.kind # "apply"
  <2> DEFINE Mark(r) == IF r.group = request.group /\ r.finding = t.finding
                        THEN [r EXCEPT !.undone = TRUE] ELSE r
  <2>1. actions' = {Mark(r) : r \in actions}
    BY <1>2, Zenon DEF Recorded
  <2>2. ASSUME NEW r \in actions
        PROVE  /\ Mark(r) \in ActionRow
               /\ Mark(r).group = r.group /\ Mark(r).finding = r.finding
               /\ Mark(r).previous = r.previous /\ Mark(r).target = r.target
               /\ r.finding # t.finding => Mark(r).undone = r.undone
               /\ r.group = request.group /\ r.finding = t.finding => Mark(r).undone
    BY <2>2 DEF ActionRow
  <2>3. \A r \in actions : Mark(r) \in actions'
    BY <2>1, Zenon
  <2>4. \A s \in actions' : \E r \in actions : s = Mark(r)
    BY <2>1, Zenon
  <2> HIDE DEF Mark
  <2> QED
    BY <1>2, <2>2, <2>3, <2>4
<1> QED
  BY <1>1, <1>2

\* The record makes the status of the finding in hand accounted for: by the row inserted, or
\* by the row of the group that is marked undone.
LEMMA RecordActionKeeps ==
  ASSUME ReviewInv, RecordAction
  PROVE  ReviewInv'
<1> USE DEF ReviewInv
<1>1. PICK t : t = FirstTodo
  OBVIOUS
<1>2. /\ t \in request.todo /\ t \in TodoRow /\ t.finding \in Existing
  BY <1>1, FirstTodoIsLeft DEF RecordAction
<1>3. /\ request.half \/ (request.kind = "apply" /\ t.previous = t.set)
      /\ actions' = Recorded(t)
      /\ orphans' = IF request.half THEN orphans \ {t.finding} ELSE orphans
      /\ request' = IF request.todo = {t} THEN NoRequest
                    ELSE [request EXCEPT !.todo = @ \ {t}, !.half = FALSE]
      /\ findings' = findings /\ groups' = groups /\ pager' = pager /\ Existing' = Existing
  BY <1>1 DEF RecordAction, UpdateSkipped, Existing
<1>4. /\ Existing \subseteq Findings /\ actions \subseteq ActionRow /\ orphans \subseteq Existing
      /\ request \in [kind : {"none", "apply", "undo"}, group : Nat, todo : SUBSET TodoRow,
                      half : BOOLEAN]
      /\ \A r \in actions : r.finding \in Existing
      /\ \A row \in request.todo : row.finding \in Existing
  BY DEF ReviewTypeOK
<1>5. findings[t.finding] = t.set
  BY <1>1, <1>2, <1>3 DEF TodoIsCurrent
<1>6. request.kind = "apply" \/ (request.kind = "undo" /\ request.half)
  BY <1>2, <1>3, <1>4 DEF TodoIsCurrent
<1>7. PICK new : new = [group |-> request.group, finding |-> t.finding,
                        previous |-> t.previous, target |-> t.set, undone |-> FALSE]
  OBVIOUS
<1>8. new \in ActionRow /\ new.finding = t.finding /\ new.target = t.set /\ new.undone = FALSE
  BY <1>2, <1>4, <1>7 DEF ActionRow, TodoRow
<1>9. request.kind = "apply" => actions' = actions \cup {new}
  BY <1>3, <1>7 DEF Recorded
<1>10. /\ \A r \in actions : \E s \in actions' :
             /\ s.group = r.group /\ s.finding = r.finding /\ s.previous = r.previous
             /\ s.target = r.target
             /\ r.finding # t.finding => s.undone = r.undone
       /\ request.kind # "apply" =>
             /\ actions' \subseteq ActionRow
             /\ \A s \in actions' : \E r \in actions : s.finding = r.finding
             /\ \A r \in actions : r.group = request.group /\ r.finding = t.finding =>
                   \E s \in actions' : /\ s.finding = r.finding /\ s.undone
                                       /\ s.previous = r.previous
  BY <1>3, <1>4, RecordKeepsRows
<1>11. /\ actions' \subseteq ActionRow
       /\ \A s \in actions' : s.finding = t.finding \/ \E r \in actions : s.finding = r.finding
  <2>1. CASE request.kind = "apply"
    BY <2>1, <1>4, <1>8, <1>9
  <2>2. CASE request.kind # "apply"
    BY <2>2, <1>10
  <2> QED
    BY <2>1, <2>2
<1>12. /\ request' \in [kind : {"none", "apply", "undo"}, group : Nat, todo : SUBSET TodoRow,
                        half : BOOLEAN]
       /\ request'.todo = request.todo \ {t} /\ request'.half = FALSE
       /\ request'.kind = "none" => request'.todo = {}
       /\ request'.kind # "none" => /\ request'.kind = request.kind
                                    /\ request'.group = request.group
  <2>1. CASE request.todo = {t}
    <3>1. request' = NoRequest
      BY <2>1, <1>3
    <3> QED
      BY <2>1, <3>1 DEF NoRequest
  <2>2. CASE request.todo # {t}
    <3>1. request' = [request EXCEPT !.todo = @ \ {t}, !.half = FALSE]
      BY <2>2, <1>3
    <3> QED
      BY <3>1, <1>4, <1>6
  <2> QED
    BY <2>1, <2>2
<1>13. ReviewTypeOK'
  <2>1. \A s \in actions' : s.finding \in Existing
    BY <1>2, <1>4, <1>11
  <2>2. \A row \in request'.todo : row.finding \in Existing
    BY <1>4, <1>12
  <2>3. orphans' \subseteq Existing
    BY <1>3, <1>4
  <2> QED
    BY <2>1, <2>2, <2>3, <1>3, <1>11, <1>12 DEF ReviewTypeOK
<1>14. ListedOnce' /\ PagerInStep'
  BY <1>3 DEF ListedOnce, PagerInStep
<1>15. StatusAccounted'
  <2> SUFFICES ASSUME NEW f \in Existing \ orphans'
               PROVE  \/ findings[f] = "new" /\ \A r \in actions' : r.finding # f
                      \/ \E r \in actions' :
                            /\ r.finding = f
                            /\ findings[f] = IF r.undone THEN r.previous ELSE r.target
    BY <1>3 DEF StatusAccounted
  <2>1. CASE f = t.finding /\ request.kind = "apply"
    <3>1. new \in actions'
      BY <2>1, <1>9
    <3> QED
      BY <3>1, <2>1, <1>5, <1>8
  <2>2. CASE f = t.finding /\ request.kind # "apply"
    <3>1. PICK r \in actions : /\ r.group = request.group /\ r.finding = t.finding
                               /\ r.previous = t.previous /\ t.set = t.previous
      BY <2>2, <1>2, <1>6 DEF TodoIsCurrent
    <3>2. PICK s \in actions' : s.finding = r.finding /\ s.undone /\ s.previous = r.previous
      BY <3>1, <2>2, <1>10
    <3> QED
      BY <3>1, <3>2, <2>2, <1>5
  <2>3. CASE f # t.finding
    <3>1. f \in Existing \ orphans
      BY <2>3, <1>3
    <3>2. CASE findings[f] = "new" /\ \A r \in actions : r.finding # f
      BY <3>2, <2>3, <1>11
    <3>3. CASE \E r \in actions : /\ r.finding = f
                                  /\ findings[f] = IF r.undone THEN r.previous ELSE r.target
      <4>1. PICK r \in actions : /\ r.finding = f
                                 /\ findings[f] = IF r.undone THEN r.previous ELSE r.target
        BY <3>3
      <4>2. PICK s \in actions' : /\ s.finding = r.finding /\ s.previous = r.previous
                                  /\ s.target = r.target /\ s.undone = r.undone
        BY <4>1, <2>3, <1>10
      <4> QED
        BY <4>1, <4>2
    <3> QED
      BY <3>1, <3>2, <3>3 DEF StatusAccounted
  <2> QED
    BY <2>1, <2>2, <2>3
<1>16. TodoIsCurrent'
  <2>1. ASSUME request'.kind = "apply"
        PROVE  /\ \A row, other \in request'.todo : row.finding = other.finding => row = other
               /\ \A row \in request'.todo : findings[row.finding] = row.previous
    BY <2>1, <1>1, <1>12 DEF TodoIsCurrent
  <2>2. ASSUME request'.kind = "undo", NEW row \in request'.todo
        PROVE  row.set = row.previous /\ \E s \in actions' :
                  s.group = request'.group /\ s.finding = row.finding /\ s.previous = row.previous
    <3>1. row.set = row.previous
      BY <2>2, <1>12 DEF TodoIsCurrent
    <3>2. PICK r \in actions : /\ r.group = request.group /\ r.finding = row.finding
                               /\ r.previous = row.previous
      BY <2>2, <1>12 DEF TodoIsCurrent
    <3>3. PICK s \in actions' : /\ s.group = r.group /\ s.finding = r.finding
                                /\ s.previous = r.previous
      BY <1>10
    <3> QED
      BY <3>1, <3>2, <3>3, <2>2, <1>12
  <2> QED
    BY <2>1, <2>2, <1>3, <1>12 DEF TodoIsCurrent
<1> QED
  BY <1>13, <1>14, <1>15, <1>16

\* A death leaves the findings and the record as they are, and no request.
LEMMA ApiDiesKeeps ==
  ASSUME ReviewInv, ApiDies
  PROVE  ReviewInv'
<1> USE DEF ReviewInv
<1>1. /\ request' = NoRequest /\ findings' = findings /\ actions' = actions /\ groups' = groups
      /\ orphans' = orphans /\ pager' = pager /\ Existing' = Existing
  BY DEF ApiDies, Existing
<1>2. /\ request'.kind = "none" /\ request'.todo = {} /\ request'.half = FALSE
      /\ request' \in [kind : {"none", "apply", "undo"}, group : Nat, todo : SUBSET TodoRow,
                       half : BOOLEAN]
  BY <1>1 DEF NoRequest
<1>3. ReviewTypeOK'
  BY <1>1, <1>2 DEF ReviewTypeOK
<1>4. ListedOnce' /\ PagerInStep' /\ StatusAccounted'
  BY <1>1 DEF ListedOnce, PagerInStep, StatusAccounted
<1>5. TodoIsCurrent'
  BY <1>2 DEF TodoIsCurrent
<1> QED
  BY <1>3, <1>4, <1>5

\* At the start there are new findings and no record.
LEMMA ReviewInitInv == ReviewInit => ReviewInv
<1> SUFFICES ASSUME ReviewInit PROVE ReviewInv
  OBVIOUS
<1>1. PICK present \in SUBSET Findings : findings = [f \in present |-> "new"]
  BY DEF ReviewInit
<1>2. /\ actions = {} /\ groups = 0 /\ request = NoRequest /\ orphans = {}
      /\ pager = [at |-> "closed", status |-> "new", cursor |-> NoCursor, listed |-> {},
                  repeated |-> {}, steady |-> {}]
  BY DEF ReviewInit
<1>3. Existing = present /\ findings \in [Existing -> Statuses] /\ \A f \in Existing : findings[f] = "new"
  BY <1>1 DEF Existing, Statuses
<1>4. request.kind = "none" /\ request.todo = {} /\ request.half = FALSE
  BY <1>2 DEF NoRequest
<1>5. ReviewTypeOK
  <2>1. request \in [kind : {"none", "apply", "undo"}, group : Nat, todo : SUBSET TodoRow,
                     half : BOOLEAN]
    BY <1>2 DEF NoRequest
  <2>2. pager \in [at : {"closed", "open", "done"}, status : Statuses, cursor : Nat \X Nat,
                   listed : SUBSET Findings, repeated : SUBSET Findings,
                   steady : SUBSET Findings]
    BY <1>2 DEF NoCursor, Statuses
  <2> QED
    BY <2>1, <2>2, <1>2, <1>3, <1>4 DEF ReviewTypeOK
<1>6. ListedOnce /\ PagerInStep
  BY <1>2 DEF ListedOnce, PagerInStep
<1>7. StatusAccounted
  BY <1>2, <1>3 DEF StatusAccounted
<1>8. TodoIsCurrent
  BY <1>4 DEF TodoIsCurrent
<1> QED
  BY <1>5, <1>6, <1>7, <1>8 DEF ReviewInv

\* Every step keeps the invariant of the review.
LEMMA ReviewNextInv == ReviewInv /\ [ReviewNext]_reviewVars => ReviewInv'
<1> SUFFICES ASSUME ReviewInv, [ReviewNext]_reviewVars PROVE ReviewInv'
  OBVIOUS
<1>1. ASSUME NEW status \in Statuses, OpenList(status) PROVE ReviewInv'
  BY <1>1, OpenListKeeps
<1>2. CASE NextPage
  BY <1>2, NextPageKeeps
<1>3. ASSUME NEW f \in Findings, RecordFinding(f) PROVE ReviewInv'
  BY <1>3, RecordFindingKeeps
<1>4. ASSUME NEW ids \in SUBSET Existing, NEW target \in Statuses, BeginApply(ids, target)
      PROVE  ReviewInv'
  BY <1>4, BeginApplyKeeps
<1>5. ASSUME NEW g \in 1 .. groups, BeginUndo(g) PROVE ReviewInv'
  <2>1. g \in Nat
    BY <1>5
  <2> QED
    BY <2>1, <1>5, BeginUndoKeeps
<1>6. CASE UpdateStatus
  BY <1>6, UpdateStatusKeeps
<1>7. CASE RecordAction
  BY <1>7, RecordActionKeeps
<1>8. CASE ApiDies
  BY <1>8, ApiDiesKeeps
<1>9. CASE UNCHANGED reviewVars
  <2>1. /\ findings' = findings /\ actions' = actions /\ groups' = groups /\ request' = request
        /\ orphans' = orphans /\ pager' = pager /\ Existing' = Existing
        /\ FirstTodo' = FirstTodo
    BY <1>9 DEF reviewVars, Existing, FirstTodo
  <2>2. ReviewTypeOK' /\ ListedOnce'
    BY <2>1 DEF ReviewInv, ReviewTypeOK, ListedOnce
  <2>3. PagerInStep' /\ StatusAccounted'
    BY <2>1 DEF ReviewInv, PagerInStep, StatusAccounted
  <2>4. TodoIsCurrent'
    BY <2>1 DEF ReviewInv, TodoIsCurrent
  <2> QED
    BY <2>2, <2>3, <2>4 DEF ReviewInv
<1> QED
  BY <1>1, <1>2, <1>3, <1>4, <1>5, <1>6, <1>7, <1>8, <1>9 DEF ReviewNext

\* What a client of the review API sees can be relied on (_query_findings,
\* _apply_review_action, _undo_review_action): a list read page by page repeats nothing and
\* misses nothing that had its status throughout, however many findings there are and
\* whatever the limit, and every status is explained by the record unless the API died
\* between an UPDATE and its record.
THEOREM ReviewCanBeReliedOn == ReviewSpec => []ReviewHolds
<1>1. ReviewInv => ReviewHolds
  BY DEF ReviewInv, ReviewHolds
<1> QED
  BY ReviewInitInv, ReviewNextInv, <1>1, PTL DEF ReviewSpec

-----------------------------------------------------------------------------
(* The findings table and the gallery (worker/findings_table.py).            *)

\* Rows of a catalog, in the order of their sort keys.
IsCatalog(cat) == cat \in [DOMAIN cat -> EntryRows] /\ DOMAIN cat \subseteq Entries
InOrder(cat, rows) ==
    /\ rows \in Seq(DOMAIN cat)
    /\ \A i, j \in DOMAIN rows : i < j => SortsBefore(cat, rows[i], rows[j])

\* The sort keys order the rows, and what sorts after a row after the cursor is after it.
LEMMA SortKeys ==
  ASSUME NEW cat, IsCatalog(cat)
  PROVE  /\ \A e \in DOMAIN cat : e \in Nat /\ cat[e].value \in Int
         /\ \A e \in DOMAIN cat : ~SortsBefore(cat, e, e)
         /\ \A e, f, g \in DOMAIN cat :
               SortsBefore(cat, e, f) /\ SortsBefore(cat, f, g) => SortsBefore(cat, e, g)
         /\ \A e, f \in DOMAIN cat : e = f \/ SortsBefore(cat, e, f) \/ SortsBefore(cat, f, e)
         /\ \A mark \in Int \X Nat : \A e, f \in DOMAIN cat :
               after_cursor(cat, e, mark) /\ SortsBefore(cat, e, f) => after_cursor(cat, f, mark)
         /\ \A e, f \in DOMAIN cat :
               after_cursor(cat, f, encode_cursor(cat, e)) <=> SortsBefore(cat, e, f)
<1>1. \A e \in DOMAIN cat : e \in Nat /\ cat[e].value \in Int
  BY ViewAssumption DEF IsCatalog
<1>2. \A e \in DOMAIN cat : ~SortsBefore(cat, e, e)
  BY <1>1 DEF SortsBefore
<1>3. \A e, f, g \in DOMAIN cat :
          SortsBefore(cat, e, f) /\ SortsBefore(cat, f, g) => SortsBefore(cat, e, g)
  BY <1>1 DEF SortsBefore
<1>4. \A e, f \in DOMAIN cat : e = f \/ SortsBefore(cat, e, f) \/ SortsBefore(cat, f, e)
  BY <1>1 DEF SortsBefore
<1>5. \A mark \in Int \X Nat : \A e, f \in DOMAIN cat :
          after_cursor(cat, e, mark) /\ SortsBefore(cat, e, f) => after_cursor(cat, f, mark)
  <2> SUFFICES ASSUME NEW mark \in Int \X Nat, NEW e \in DOMAIN cat, NEW f \in DOMAIN cat,
                      after_cursor(cat, e, mark), SortsBefore(cat, e, f)
               PROVE  after_cursor(cat, f, mark)
    OBVIOUS
  <2>1. mark[1] \in Int /\ mark[2] \in Nat
    OBVIOUS
  <2> QED
    BY <1>1, <2>1 DEF after_cursor, SortsBefore
<1>6. \A e, f \in DOMAIN cat :
          after_cursor(cat, f, encode_cursor(cat, e)) <=> SortsBefore(cat, e, f)
  BY <1>1 DEF after_cursor, encode_cursor, SortsBefore
<1> QED
  BY <1>1, <1>2, <1>3, <1>4, <1>5, <1>6

\* The rows that are paged are the ones the filter lets through, in order.
LEMMA SortedRowsAre ==
  ASSUME NEW cat, IsCatalog(cat), NEW state
  PROVE  /\ InOrder(cat, SortedRows(cat, state))
         /\ ToSet(SortedRows(cat, state)) = apply_filters(cat, state)
<1> DEFINE S == apply_filters(cat, state)
           R == {p \in S \X S : SortsBefore(cat, p[1], p[2])}
           n == Cardinality(S)
           count(e) == Cardinality({f \in S : f = e \/ SortsBefore(cat, f, e)})
           q == SortedRows(cat, state)
<1>1. S \subseteq DOMAIN cat /\ IsFiniteSet(S) /\ n \in Nat
  <2>1. S \subseteq DOMAIN cat /\ S \subseteq Entries /\ IsFiniteSet(Entries)
    BY ViewAssumption DEF apply_filters, IsCatalog
  <2> HIDE DEF S
  <2> QED
    BY <2>1, FS_Subset, FS_CardinalityType
<1>2. q = [k \in 1 .. n |-> CHOOSE e \in S : count(e) = k]
  BY DEF SortedRows
<1> HIDE DEF S
<1>3. \A x, y \in S : <<x, y>> \in R <=> SortsBefore(cat, x, y)
  OBVIOUS
<1>4. \A x \in S : Before(R, S, x) = {f \in S : f = x \/ SortsBefore(cat, f, x)}
  <2> HIDE DEF R
  <2> QED
    BY <1>3 DEF Before
<1> HIDE DEF R
<1>5. StrictOrder(R, S)
  BY <1>1, <1>3, SortKeys DEF StrictOrder
<1>6. RankedBy(R, S)
  BY <1>1, <1>5, OrderedFinitely
<1>7. /\ \A x \in S : count(x) \in 1 .. n
      /\ \A x, y \in S : SortsBefore(cat, x, y) => count(x) < count(y)
  BY <1>3, <1>4, <1>6 DEF RankedBy
<1> DEFINE key == [x \in S |-> count(x)]
<1>8. key \in [S -> Nat] /\ \A x, y \in S : key[x] = key[y] => x = y
  <2>1. \A x \in S : key[x] = count(x) /\ count(x) \in Nat
    BY <1>1, <1>7
  <2>2. key \in [S -> Nat]
    BY <2>1
  <2> HIDE DEF key, count
  <2>3. \A x, y \in S : x = y \/ SortsBefore(cat, x, y) \/ SortsBefore(cat, y, x)
    BY <1>1, SortKeys
  <2> QED
    BY <1>7, <2>1, <2>2, <2>3
<1>9. \A x \in S : Rank(S, key, x) = count(x)
  <2> SUFFICES ASSUME NEW x \in S PROVE Rank(S, key, x) = count(x)
    OBVIOUS
  <2>1. \A y \in S : key[y] <= key[x] <=> (y = x \/ SortsBefore(cat, y, x))
    <3> SUFFICES ASSUME NEW y \in S
                 PROVE  key[y] <= key[x] <=> (y = x \/ SortsBefore(cat, y, x))
      OBVIOUS
    <3>1. key[x] \in Nat /\ key[y] \in Nat /\ key[x] = count(x) /\ key[y] = count(y)
      BY <1>8
    <3>2. x = y \/ SortsBefore(cat, x, y) \/ SortsBefore(cat, y, x)
      BY <1>1, SortKeys
    <3> HIDE DEF key, count
    <3> QED
      BY <1>7, <3>1, <3>2
  <2>2. {y \in S : key[y] <= key[x]} = {f \in S : f = x \/ SortsBefore(cat, f, x)}
    <3> HIDE DEF key
    <3> QED
      BY <2>1
  <2> QED
    BY <2>2 DEF Rank
<1>10. \A i \in 1 .. n : \E x \in S : count(x) = i
  <2>1. \A i \in 1 .. n : \E x \in S : Rank(S, key, x) = i
    <3> HIDE DEF key
    <3> QED
      BY <1>1, <1>8, Ranked
  <2> QED
    BY <1>9, <2>1
<1> HIDE DEF count
<1>11. \A k \in 1 .. n : q[k] \in S /\ count(q[k]) = k
  <2> SUFFICES ASSUME NEW k \in 1 .. n PROVE q[k] \in S /\ count(q[k]) = k
    OBVIOUS
  <2>1. q[k] = CHOOSE e \in S : count(e) = k
    BY <1>2
  <2>2. \E e \in S : count(e) = k
    BY <1>10
  <2> QED
    BY <2>1, <2>2, Zenon
<1>12. DOMAIN q = 1 .. n /\ q \in Seq(DOMAIN cat)
  <2>1. q \in [1 .. n -> S]
    BY <1>2, <1>11
  <2>2. q \in Seq(S)
    BY ONLY <1>1, <2>1, SeqDef
  <2> QED
    BY <1>1, <2>1, <2>2
<1> HIDE DEF q
<1>13. \A i, j \in 1 .. n : i < j => SortsBefore(cat, q[i], q[j])
  <2> SUFFICES ASSUME NEW i \in 1 .. n, NEW j \in 1 .. n, i < j
               PROVE  SortsBefore(cat, q[i], q[j])
    OBVIOUS
  <2>1. q[i] \in S /\ q[j] \in S /\ count(q[i]) = i /\ count(q[j]) = j
    BY <1>11
  <2>2. q[i] # q[j]
    BY <1>1, <2>1
  <2>3. ~SortsBefore(cat, q[j], q[i])
    BY <1>1, <1>7, <2>1
  <2> QED
    BY <1>1, <2>1, <2>2, <2>3, SortKeys
<1>14. \A e \in S : \E i \in 1 .. n : q[i] = e
  <2> SUFFICES ASSUME NEW e \in S PROVE \E i \in 1 .. n : q[i] = e
    OBVIOUS
  <2>1. count(e) \in 1 .. n
    BY <1>7
  <2>2. q[count(e)] \in S /\ count(q[count(e)]) = count(e)
    BY <1>11, <2>1
  <2>3. q[count(e)] = e
    BY <1>8, <2>2
  <2> QED
    BY <2>1, <2>3
<1> QED
  BY <1>11, <1>12, <1>13, <1>14 DEF InOrder, ToSet, q, S

LEMMA MinOfTwo ==
  ASSUME NEW a \in Nat, NEW b \in Nat
  PROVE  Min({a, b}) = IF a <= b THEN a ELSE b
<1>1. \E x \in {a, b} : \A y \in {a, b} : x <= y
  OBVIOUS
<1>2. Min({a, b}) \in {a, b} /\ \A y \in {a, b} : Min({a, b}) <= y
  BY <1>1 DEF Min
<1> QED
  BY <1>2

\* The rows behind the first place after the cursor are the ones after the cursor.
IsMark(mark) == mark = <<>> \/ mark \in Int \X Nat
IsAfter(cat, e, mark) == mark = <<>> \/ after_cursor(cat, e, mark)

LEMMA FirstAfter ==
  ASSUME NEW cat, IsCatalog(cat), NEW rows, InOrder(cat, rows), NEW mark, IsMark(mark)
  PROVE  /\ first_index_after(cat, rows, mark) \in Nat
         /\ first_index_after(cat, rows, mark) <= Len(rows)
         /\ \A i \in DOMAIN rows :
               i > first_index_after(cat, rows, mark) <=> IsAfter(cat, rows[i], mark)
<1> DEFINE n == Len(rows)
           start == first_index_after(cat, rows, mark)
           after == {i \in 1 .. n : after_cursor(cat, rows[i], mark)}
<1>1. n \in Nat /\ DOMAIN rows = 1 .. n /\ \A i \in 1 .. n : i \in Nat /\ rows[i] \in DOMAIN cat
  BY DEF InOrder
<1>2. start = IF mark = <<>> THEN 0 ELSE IF after = {} THEN n ELSE Min(after) - 1
  BY DEF first_index_after
<1>3. CASE mark = <<>>
  BY <1>1, <1>2, <1>3 DEF IsAfter
<1>4. CASE mark # <<>> /\ after = {}
  <2>1. start = n
    BY <1>2, <1>4
  <2>2. \A i \in 1 .. n : ~(i > n) /\ ~after_cursor(cat, rows[i], mark)
    BY <1>1, <1>4
  <2> HIDE DEF start, n
  <2>3. \A i \in DOMAIN rows : i > start <=> IsAfter(cat, rows[i], mark)
    BY <1>1, <1>4, <2>1, <2>2 DEF IsAfter
  <2> QED
    BY <1>1, <2>1, <2>3 DEF start, n
<1>5. CASE mark # <<>> /\ after # {}
  <2>1. after \in SUBSET Nat /\ IsFiniteSet(after)
    <3>1. after \in SUBSET (1 .. n) /\ IsFiniteSet(1 .. n)
      BY <1>1, FS_Interval
    <3>2. IsFiniteSet(after)
      <4> HIDE DEF after
      <4> QED
        BY <3>1, FS_Subset
    <3> QED
      BY <1>1, <3>2
  <2>2. PICK m \in after : \A y \in after : m <= y
    <3> HIDE DEF after
    <3> QED
      BY <1>5, <2>1, LeastOf
  <2>3. Min(after) = m
    <3>1. after \subseteq Nat
      BY <2>1
    <3> HIDE DEF after
    <3>2. Min(after) \in after /\ \A y \in after : Min(after) <= y
      BY <2>2 DEF Min
    <3>3. m <= Min(after) /\ Min(after) <= m
      BY <2>2, <3>2
    <3>4. m \in Nat /\ Min(after) \in Nat
      BY <3>1, <3>2
    <3> QED
      BY <3>3, <3>4
  <2>4. m \in 1 .. n /\ m \in Nat /\ after_cursor(cat, rows[m], mark) /\ start = m - 1
    BY <1>1, <1>2, <1>5, <2>2, <2>3
  <2>5. mark \in Int \X Nat
    BY <1>5 DEF IsMark
  <2>6. ASSUME NEW i \in 1 .. n
        PROVE  i > start <=> IsAfter(cat, rows[i], mark)
    <3>1. i < m => ~after_cursor(cat, rows[i], mark)
      <4> SUFFICES ASSUME i < m, after_cursor(cat, rows[i], mark) PROVE FALSE
        OBVIOUS
      <4>1. i \in after
        OBVIOUS
      <4>2. m <= i
        BY <2>2, <4>1
      <4> QED
        BY <1>1, <2>4, <4>2
    <3>2. m < i => after_cursor(cat, rows[i], mark)
      <4> SUFFICES ASSUME m < i PROVE after_cursor(cat, rows[i], mark)
        OBVIOUS
      <4>1. SortsBefore(cat, rows[m], rows[i])
        BY <1>1, <2>4 DEF InOrder
      <4> QED
        BY <1>1, <2>4, <2>5, <4>1, SortKeys
    <3>3. i \in Nat /\ m \in Nat
      BY <1>1, <2>4
    <3>4. i < m \/ i = m \/ m < i
      BY <3>3
    <3>5. i > start <=> ~(i < m)
      <4> HIDE DEF start
      <4> QED
        BY <2>4, <3>3
    <3> HIDE DEF start
    <3> QED
      BY <1>5, <2>4, <3>1, <3>2, <3>3, <3>4, <3>5 DEF IsAfter
  <2> HIDE DEF start
  <2>7. start \in Nat /\ start <= n
    BY <1>1, <2>4
  <2> QED
    BY <1>1, <2>6, <2>7 DEF start
<1> QED
  BY <1>3, <1>4, <1>5

\* A slice of rows in order.
Slice(rows, start, k) == SubSeq(rows, start + 1, Min({start + k, Len(rows)}))

LEMMA SliceIs ==
  ASSUME NEW cat, NEW rows, InOrder(cat, rows), NEW start \in Nat, start <= Len(rows), NEW k \in Nat
  PROVE  /\ InOrder(cat, Slice(rows, start, k))
         /\ Len(Slice(rows, start, k)) = IF start + k <= Len(rows) THEN k ELSE Len(rows) - start
         /\ \A i \in DOMAIN Slice(rows, start, k) :
               start + i \in DOMAIN rows /\ Slice(rows, start, k)[i] = rows[start + i]
<1> DEFINE n == Len(rows)
           end == Min({start + k, n})
           s == Slice(rows, start, k)
           l == IF start + k <= n THEN k ELSE n - start
<1>1. n \in Nat /\ DOMAIN rows = 1 .. n /\ \A i \in 1 .. n : rows[i] \in DOMAIN cat
  BY DEF InOrder
<1>2. start + k \in Nat /\ start + 1 \in Int
  OBVIOUS
<1>3. end = IF start + k <= n THEN start + k ELSE n
  <2> HIDE DEF n
  <2> QED
    BY <1>1, <1>2, MinOfTwo
<1>4. s = SubSeq(rows, start + 1, end)
  BY DEF Slice
<1> HIDE DEF end, s, n
<1>5. end \in Nat /\ start <= end /\ end <= n /\ l = end - start /\ l \in Nat
  <2>1. n \in Nat /\ start <= n
    BY <1>1 DEF n
  <2>2. CASE start + k <= n
    BY ONLY <1>3, <2>1, <2>2, start \in Nat, k \in Nat
  <2>3. CASE ~(start + k <= n)
    BY ONLY <1>3, <2>1, <2>3, start \in Nat, k \in Nat
  <2> QED
    BY <2>2, <2>3
<1>6. \A i \in start + 1 .. end : rows[i] \in DOMAIN cat
  <2>1. \A i \in start + 1 .. end : i \in 1 .. n
    BY <1>1, <1>5
  <2> QED
    BY <1>1, <2>1
<1>7. /\ s \in Seq(DOMAIN cat) /\ Len(s) = IF start + 1 <= end THEN end - (start + 1) + 1 ELSE 0
      /\ \A i \in 1 .. end - (start + 1) + 1 : s[i] = rows[start + 1 + i - 1]
  BY <1>2, <1>4, <1>5, <1>6, SubSeqProperties, SMTT(30)
<1> HIDE DEF l
<1>8. Len(s) = l /\ end - (start + 1) + 1 = l /\ DOMAIN s = 1 .. l
  BY <1>5, <1>7
<1>9. \A i \in 1 .. l : i \in Nat /\ start + i \in 1 .. n /\ s[i] = rows[start + i]
  <2> SUFFICES ASSUME NEW i \in 1 .. l
               PROVE  i \in Nat /\ start + i \in 1 .. n /\ s[i] = rows[start + i]
    OBVIOUS
  <2>1. i \in Nat /\ 1 <= i /\ i <= l
    BY <1>5
  <2>2. start + 1 + i - 1 = start + i /\ start + i \in 1 .. n
    BY <1>1, <1>5, <2>1
  <2> QED
    BY <1>7, <1>8, <2>1, <2>2
<1>10. \A i, j \in 1 .. l : i < j => SortsBefore(cat, s[i], s[j])
  <2> SUFFICES ASSUME NEW i \in 1 .. l, NEW j \in 1 .. l, i < j
               PROVE  SortsBefore(cat, s[i], s[j])
    OBVIOUS
  <2>1. start + i < start + j
    BY <1>9
  <2>2. SortsBefore(cat, rows[start + i], rows[start + j])
    BY <1>1, <1>9, <2>1 DEF InOrder
  <2> QED
    BY <1>9, <2>2
<1>11. InOrder(cat, s)
  BY <1>7, <1>8, <1>10 DEF InOrder
<1> QED
  BY <1>1, <1>8, <1>9, <1>11 DEF s, l, n

\* A page of rows that are counted: the ones after the cursor, and if there are more,
\* its last row is the new cursor.
LEMMA PageIs ==
  ASSUME NEW cat, IsCatalog(cat), NEW rows, InOrder(cat, rows), NEW mark, IsMark(mark), NEW total
  PROVE  LET page == fetch_page(cat, rows, mark, total)
             start == first_index_after(cat, rows, mark)
         IN /\ page.items \in Seq(DOMAIN cat) /\ ToSet(page.items) \subseteq ToSet(rows)
            /\ IsMark(page.next_cursor) /\ page.fails \in BOOLEAN /\ page.has_more \in BOOLEAN
            /\ total \in {NoTotal, Len(rows)} =>
                  /\ page.fails = FALSE /\ page.items = Slice(rows, start, ViewLimit)
                  /\ page.has_more <=> start + ViewLimit < Len(rows)
                  /\ page.has_more => page.next_cursor = encode_cursor(cat, rows[start + ViewLimit])
<1> DEFINE start == first_index_after(cat, rows, mark)
           n == Len(rows)
           items == Slice(rows, start, ViewLimit)
           known == IF total = NoTotal THEN n ELSE total
           more == items # <<>> /\ start + ViewLimit < known
           fails == more /\ start + ViewLimit > n
           next == IF more /\ ~fails THEN encode_cursor(cat, rows[start + ViewLimit]) ELSE <<>>
           page == fetch_page(cat, rows, mark, total)
<1>1. /\ n \in Nat /\ DOMAIN rows = 1 .. n /\ \A i \in 1 .. n : rows[i] \in DOMAIN cat
      /\ ViewLimit \in Nat /\ ViewLimit # 0
  BY ViewAssumption DEF InOrder
<1>2. start \in Nat /\ start <= n
  BY FirstAfter
<1>3. page = [items |-> IF fails THEN <<>> ELSE items, has_more |-> more, fails |-> fails,
              next_cursor |-> next]
  BY DEF fetch_page, Slice
<1> HIDE DEF start
<1>4. /\ items \in Seq(DOMAIN cat) /\ Len(items) = IF start + ViewLimit <= n THEN ViewLimit ELSE n - start
      /\ \A i \in DOMAIN items : start + i \in DOMAIN rows /\ items[i] = rows[start + i]
  BY <1>1, <1>2, SliceIs DEF InOrder
<1> HIDE DEF items, n
<1>5. ToSet(items) \subseteq ToSet(rows) /\ ToSet(<<>>) = {}
  BY <1>4 DEF ToSet
<1>6. IsMark(next)
  <2>1. CASE more /\ ~fails
    <3>0. ~(start + ViewLimit > n)
      BY <2>1
    <3>1. start + ViewLimit \in 1 .. n
      BY ONLY <1>1, <1>2, <3>0
    <3>2. rows[start + ViewLimit] \in DOMAIN cat
      BY <1>1, <3>1
    <3> DEFINE e == rows[start + ViewLimit]
    <3>3. next = encode_cursor(cat, e) /\ e \in DOMAIN cat
      BY <2>1, <3>2
    <3> HIDE DEF e, next
    <3>4. encode_cursor(cat, e) \in Int \X Nat
      BY <3>3, SortKeys DEF encode_cursor
    <3> QED
      BY <3>3, <3>4 DEF IsMark
  <2>2. CASE ~(more /\ ~fails)
    BY <2>2 DEF IsMark
  <2> QED
    BY <2>1, <2>2
<1>7. ASSUME total \in {NoTotal, n}
      PROVE  /\ fails = FALSE
             /\ more <=> start + ViewLimit < n
             /\ more => next = encode_cursor(cat, rows[start + ViewLimit])
  <2>1. known = n
    BY <1>7
  <2> HIDE DEF known
  <2>2. fails = FALSE
    <3>1. start + ViewLimit < n => ~(start + ViewLimit > n)
      BY ONLY <1>1, <1>2
    <3> QED
      BY <2>1, <3>1
  <2>3. start + ViewLimit < n => items # <<>>
    <3> SUFFICES ASSUME start + ViewLimit < n PROVE items # <<>>
      OBVIOUS
    <3>1. Len(items) = ViewLimit
      BY <1>1, <1>2, <1>4
    <3> QED
      BY <1>1, <3>1
  <2>4. more <=> start + ViewLimit < n
    BY <2>1, <2>3
  <2>5. more => next = encode_cursor(cat, rows[start + ViewLimit])
    BY <2>2
  <2> QED
    BY <2>1, <2>2, <2>4, <2>5
<1>8. more \in BOOLEAN /\ fails \in BOOLEAN
  OBVIOUS
<1> HIDE DEF more, fails, next, page
<1>9. /\ page.items = IF fails THEN <<>> ELSE items
      /\ page.has_more = more /\ page.fails = fails /\ page.next_cursor = next
  BY <1>3
<1>10. page.items \in Seq(DOMAIN cat) /\ ToSet(page.items) \subseteq ToSet(rows)
  <2>1. CASE fails
    BY <1>5, <1>9, <2>1
  <2>2. CASE ~fails
    BY <1>4, <1>5, <1>9, <2>2
  <2> QED
    BY <2>1, <2>2
<1>11. total \in {NoTotal, n} =>
          /\ page.fails = FALSE /\ page.items = items
          /\ page.has_more <=> start + ViewLimit < n
          /\ page.has_more => page.next_cursor = encode_cursor(cat, rows[start + ViewLimit])
  BY <1>7, <1>8, <1>9
<1> QED
  BY <1>6, <1>8, <1>9, <1>10, <1>11, Zenon DEF page, start, items, n

\* What the provider passes are rows of the filter in order; what of them is after the
\* cursor and is not passed comes after a page and one more.
LEMMA PassedIs ==
  ASSUME NEW cat, IsCatalog(cat), NEW state, NEW mark, IsMark(mark),
         NEW rows \in Passed(cat, state, mark)
  PROVE  /\ InOrder(cat, rows) /\ ToSet(rows) \subseteq apply_filters(cat, state)
         /\ \A e \in apply_filters(cat, state) : IsAfter(cat, e, mark) =>
               \/ e \in ToSet(rows)
               \/ /\ first_index_after(cat, rows, mark) + ViewLimit < Len(rows)
                  /\ \A i \in DOMAIN rows : SortsBefore(cat, rows[i], e)
<1> DEFINE all == SortedRows(cat, state)
           S == apply_filters(cat, state)
           first == first_index_after(cat, all, mark)
           n == Len(all)
           slice == Slice(all, first, ViewLimit + 1)
           l == Len(slice)
<1>1. InOrder(cat, all) /\ ToSet(all) = S
  BY SortedRowsAre
<1>2. rows = all \/ rows = SubSeq(all, first + 1, Min({first + ViewLimit + 1, n}))
  BY DEF Passed
<1> HIDE DEF all
<1>3. /\ n \in Nat /\ DOMAIN all = 1 .. n /\ ViewLimit \in Nat /\ ViewLimit + 1 \in Nat
      /\ \A i \in 1 .. n : i \in Nat
  BY <1>1, ViewAssumption DEF InOrder
<1>4. /\ first \in Nat /\ first <= n
      /\ \A i \in DOMAIN all : i > first <=> IsAfter(cat, all[i], mark)
  BY <1>1, FirstAfter
<1> HIDE DEF first
<1>0. rows = all \/ rows = slice
  <2>1. first + ViewLimit + 1 = first + (ViewLimit + 1)
    BY <1>3, <1>4
  <2> QED
    BY <1>2, <2>1 DEF Slice
<1>5. /\ InOrder(cat, slice) /\ l = IF first + (ViewLimit + 1) <= n THEN ViewLimit + 1 ELSE n - first
      /\ \A i \in DOMAIN slice : first + i \in DOMAIN all /\ slice[i] = all[first + i]
  BY <1>1, <1>3, <1>4, SliceIs
<1> HIDE DEF slice
<1>6. l \in Nat /\ DOMAIN slice = 1 .. l /\ \A i \in 1 .. l : i \in Nat
  BY <1>5 DEF InOrder
<1> HIDE DEF n, l
<1>7. first_index_after(cat, slice, mark) = 0
  <2> DEFINE x == first_index_after(cat, slice, mark)
  <2>1. x \in Nat /\ x <= l /\ \A i \in DOMAIN slice : i > x <=> IsAfter(cat, slice[i], mark)
    BY <1>5, FirstAfter DEF l
  <2> HIDE DEF x
  <2>2. \A i \in DOMAIN slice : IsAfter(cat, slice[i], mark)
    <3> SUFFICES ASSUME NEW i \in DOMAIN slice PROVE IsAfter(cat, slice[i], mark)
      OBVIOUS
    <3>1. first + i > first
      BY <1>4, <1>6
    <3> QED
      BY <1>4, <1>5, <3>1
  <2>3. CASE l = 0
    BY <2>1, <2>3 DEF x
  <2>4. CASE l # 0
    <3>1. 1 \in 1 .. l
      BY <1>6, <2>4
    <3>2. 1 > x
      BY <1>6, <2>1, <2>2, <3>1
    <3> QED
      BY <2>1, <3>2 DEF x
  <2> QED
    BY <2>3, <2>4
<1>8. ToSet(slice) \subseteq S
  <2>1. ToSet(slice) \subseteq ToSet(all)
    BY <1>5 DEF ToSet
  <2> QED
    BY <1>1, <2>1
<1>9. ASSUME NEW e \in S, IsAfter(cat, e, mark)
      PROVE  /\ e \in ToSet(all)
             /\ \/ e \in ToSet(slice)
                \/ 0 + ViewLimit < l /\ \A i \in DOMAIN slice : SortsBefore(cat, slice[i], e)
  <2>1. PICK i \in 1 .. n : all[i] = e
    BY <1>1, <1>3 DEF ToSet
  <2>2. i \in Nat /\ i > first /\ i <= n
    BY <1>3, <1>4, <1>9, <2>1
  <2>3. CASE i <= first + (ViewLimit + 1)
    <3>1. i - first \in 1 .. l
      BY <1>3, <1>4, <1>5, <1>6, <2>2, <2>3
    <3>2. first + (i - first) = i
      BY <1>4, <2>2
    <3>3. slice[i - first] = e
      BY <1>5, <1>6, <2>1, <3>1, <3>2
    <3>4. e \in ToSet(slice)
      BY <1>6, <3>1, <3>3 DEF ToSet
    <3> QED
      BY <1>1, <3>4
  <2>4. CASE ~(i <= first + (ViewLimit + 1))
    <3>1. l = ViewLimit + 1
      BY <1>3, <1>4, <1>5, <2>2, <2>4
    <3>2. 0 + ViewLimit < l
      BY <1>3, <3>1
    <3>3. ASSUME NEW j \in DOMAIN slice PROVE SortsBefore(cat, slice[j], e)
      <4>1. j \in Nat /\ j <= l
        BY <1>6
      <4>2. first + j < i
        BY <1>3, <1>4, <2>2, <2>4, <3>1, <4>1
      <4>3. first + j \in DOMAIN all /\ slice[j] = all[first + j]
        BY <1>5
      <4> QED
        BY <1>1, <1>3, <2>1, <4>2, <4>3 DEF InOrder
    <3> QED
      BY <1>1, <3>2, <3>3
  <2> QED
    BY <2>3, <2>4
<1>10. CASE rows = all
  BY <1>1, <1>9, <1>10
<1>11. CASE rows = slice
  BY <1>5, <1>7, <1>8, <1>9, <1>11 DEF l
<1> QED
  BY <1>0, <1>10, <1>11

\* What a counted page does: it shows rows after the cursor, each once, and leaves none
\* of them behind the next cursor; when there is no next one, it leaves none.
LEMMA ReadingGoesOn ==
  ASSUME NEW cat, IsCatalog(cat), NEW state, NEW mark, IsMark(mark),
         NEW rows \in Passed(cat, state, mark), NEW total \in {NoTotal, Len(rows)},
         NEW page, page = fetch_page(cat, rows, mark, total)
  PROVE  /\ \A i, j \in DOMAIN page.items : page.items[i] = page.items[j] => i = j
         /\ \A e \in ToSet(page.items) : IsAfter(cat, e, mark)
         /\ page.has_more =>
               /\ page.next_cursor # <<>>
               /\ \A e \in ToSet(page.items) : ~after_cursor(cat, e, page.next_cursor)
               /\ \A e \in DOMAIN cat :
                     after_cursor(cat, e, page.next_cursor) => IsAfter(cat, e, mark)
               /\ \A e \in apply_filters(cat, state) : IsAfter(cat, e, mark) =>
                     e \in ToSet(page.items) \/ after_cursor(cat, e, page.next_cursor)
         /\ ~page.has_more =>
               \A e \in apply_filters(cat, state) : IsAfter(cat, e, mark) => e \in ToSet(page.items)
<1> DEFINE start == first_index_after(cat, rows, mark)
           n == Len(rows)
           items == page.items
           m == Len(items)
           last == rows[start + ViewLimit]
<1>1. /\ InOrder(cat, rows)
      /\ \A e \in apply_filters(cat, state) : IsAfter(cat, e, mark) =>
            \/ e \in ToSet(rows)
            \/ start + ViewLimit < n /\ \A i \in DOMAIN rows : SortsBefore(cat, rows[i], e)
  BY PassedIs
<1>2. /\ n \in Nat /\ DOMAIN rows = 1 .. n /\ \A i \in 1 .. n : i \in Nat /\ rows[i] \in DOMAIN cat
      /\ ViewLimit \in Nat /\ ViewLimit >= 1
  BY <1>1, ViewAssumption DEF InOrder
<1>3. start \in Nat /\ start <= n /\ \A i \in 1 .. n : i > start <=> IsAfter(cat, rows[i], mark)
  BY <1>1, <1>2, FirstAfter
<1>4. /\ items = Slice(rows, start, ViewLimit)
      /\ page.has_more <=> start + ViewLimit < n
      /\ page.has_more => page.next_cursor = encode_cursor(cat, last)
  BY <1>1, PageIs
<1> HIDE DEF start, items
<1>5. /\ InOrder(cat, items) /\ m = IF start + ViewLimit <= n THEN ViewLimit ELSE n - start
      /\ \A i \in DOMAIN items : start + i \in 1 .. n /\ items[i] = rows[start + i]
  BY <1>1, <1>2, <1>3, <1>4, SliceIs
<1>6. m \in Nat /\ DOMAIN items = 1 .. m /\ \A i \in 1 .. m : i \in Nat /\ items[i] \in DOMAIN cat
  BY <1>5 DEF InOrder
<1> HIDE DEF n, m
<1>7. \A i, j \in 1 .. m : items[i] = items[j] => i = j
  <2> SUFFICES ASSUME NEW i \in 1 .. m, NEW j \in 1 .. m, items[i] = items[j], i # j PROVE FALSE
    OBVIOUS
  <2>1. i < j \/ j < i
    BY <1>6
  <2>2. SortsBefore(cat, items[i], items[j]) \/ SortsBefore(cat, items[j], items[i])
    BY <1>5, <1>6, <2>1 DEF InOrder
  <2> QED
    BY <1>6, <2>2, SortKeys
<1>8. \A e \in ToSet(items) : \E i \in 1 .. m : e = items[i]
  BY <1>6 DEF ToSet
<1>9. \A e \in ToSet(items) : IsAfter(cat, e, mark)
  <2> SUFFICES ASSUME NEW i \in 1 .. m PROVE IsAfter(cat, items[i], mark)
    BY <1>8
  <2>1. start + i \in 1 .. n /\ items[i] = rows[start + i]
    BY <1>5, <1>6
  <2>2. i \in Nat /\ i >= 1
    BY <1>6
  <2>3. start + i > start
    BY <1>3, <2>2
  <2> QED
    BY <1>3, <2>1, <2>3
<1>10. ASSUME NEW i \in 1 .. n, i > start, i <= start + ViewLimit
       PROVE  rows[i] \in ToSet(items)
  <2>1. i - start \in 1 .. m
    BY <1>2, <1>3, <1>5, <1>6, <1>10
  <2>2. start + (i - start) = i
    BY <1>2, <1>3
  <2>3. items[i - start] = rows[i]
    BY <1>5, <1>6, <2>1, <2>2
  <2> QED
    BY <1>6, <2>1, <2>3 DEF ToSet
<1>11. ASSUME page.has_more
       PROVE  /\ page.next_cursor # <<>>
              /\ \A e \in ToSet(items) : ~after_cursor(cat, e, page.next_cursor)
              /\ \A e \in DOMAIN cat :
                    after_cursor(cat, e, page.next_cursor) => IsAfter(cat, e, mark)
              /\ \A e \in apply_filters(cat, state) : IsAfter(cat, e, mark) =>
                    e \in ToSet(items) \/ after_cursor(cat, e, page.next_cursor)
  <2> DEFINE k == start + ViewLimit
  <2>1. k < n /\ page.next_cursor = encode_cursor(cat, last)
    BY <1>4, <1>11
  <2>2. k \in 1 .. n /\ k > start /\ last \in DOMAIN cat /\ last = rows[k]
    <3>1. k \in 1 .. n /\ k > start
      BY <1>2, <1>3, <2>1
    <3> QED
      BY <1>2, <3>1
  <2>3. \A e \in DOMAIN cat : after_cursor(cat, e, page.next_cursor) <=> SortsBefore(cat, last, e)
    <3> HIDE DEF last
    <3> QED
      BY <2>1, <2>2, SortKeys
  <2>4. page.next_cursor # <<>>
    <3>1. encode_cursor(cat, last) # <<>>
      <4> HIDE DEF last
      <4> QED
        BY DEF encode_cursor
    <3> QED
      BY <2>1, <3>1
  <2>5. IsAfter(cat, last, mark)
    BY <1>3, <2>2
  <2>6. ASSUME NEW i \in 1 .. n, i <= k PROVE ~SortsBefore(cat, last, rows[i])
    <3>1. i = k \/ i < k
      BY <1>2, <1>3, <2>6
    <3>2. i < k => SortsBefore(cat, rows[i], last)
      BY <1>1, <1>2, <2>2 DEF InOrder
    <3>3. rows[i] \in DOMAIN cat /\ last \in DOMAIN cat
      BY <1>2, <2>2
    <3>4. i = k => rows[i] = last
      OBVIOUS
    <3> HIDE DEF last, k
    <3> QED
      BY <3>1, <3>2, <3>3, <3>4, SortKeys
  <2>7. ASSUME NEW i \in 1 .. n, i > k PROVE SortsBefore(cat, last, rows[i])
    BY <1>1, <1>2, <2>2, <2>7 DEF InOrder
  <2> HIDE DEF last
  <2>8. ASSUME NEW e \in ToSet(items) PROVE ~after_cursor(cat, e, page.next_cursor)
    <3>1. PICK i \in 1 .. m : e = items[i]
      BY <1>8
    <3>2. start + i \in 1 .. n /\ e = rows[start + i] /\ e \in DOMAIN cat /\ i \in Nat
      BY <1>5, <1>6, <3>1
    <3>3. i <= ViewLimit
      BY <1>2, <1>3, <1>5, <1>6, <2>1
    <3>4. start + i <= k
      BY <1>2, <1>3, <3>2, <3>3
    <3> QED
      BY <2>3, <2>6, <3>2, <3>4
  <2>9. ASSUME NEW e \in DOMAIN cat, after_cursor(cat, e, page.next_cursor)
        PROVE  IsAfter(cat, e, mark)
    <3>1. SortsBefore(cat, last, e)
      BY <2>3, <2>9
    <3>2. CASE mark = <<>>
      BY <3>2 DEF IsAfter
    <3>3. CASE mark # <<>>
      <4>1. mark \in Int \X Nat /\ after_cursor(cat, last, mark)
        BY <2>5, <3>3 DEF IsMark, IsAfter
      <4>2. after_cursor(cat, e, mark)
        BY <2>2, <3>1, <4>1, SortKeys
      <4> QED
        BY <4>2 DEF IsAfter
    <3> QED
      BY <3>2, <3>3
  <2>10. ASSUME NEW e \in apply_filters(cat, state), IsAfter(cat, e, mark)
         PROVE  e \in ToSet(items) \/ after_cursor(cat, e, page.next_cursor)
    <3>1. e \in DOMAIN cat
      BY DEF apply_filters
    <3>2. CASE e \in ToSet(rows)
      <4>1. PICK i \in 1 .. n : e = rows[i]
        BY <1>2, <3>2 DEF ToSet
      <4>2. i > start
        BY <1>3, <2>10, <4>1
      <4>3. i <= k \/ i > k
        BY <1>2, <1>3
      <4> QED
        BY <1>10, <2>3, <2>7, <3>1, <4>1, <4>2, <4>3
    <3>3. CASE \A i \in DOMAIN rows : SortsBefore(cat, rows[i], e)
      BY <1>2, <2>2, <2>3, <3>1, <3>3
    <3> QED
      BY <1>1, <2>10, <3>2, <3>3
  <2> QED
    BY <2>4, <2>8, <2>9, <2>10
<1>12. ASSUME ~page.has_more, NEW e \in apply_filters(cat, state), IsAfter(cat, e, mark)
       PROVE  e \in ToSet(items)
  <2>1. ~(start + ViewLimit < n)
    BY <1>4, <1>12
  <2>2. e \in ToSet(rows)
    BY <1>1, <1>12, <2>1 DEF n
  <2>3. PICK i \in 1 .. n : e = rows[i]
    BY <1>2, <2>2 DEF ToSet
  <2>4. i > start /\ i <= start + ViewLimit
    BY <1>2, <1>3, <1>12, <2>1, <2>3
  <2> QED
    BY <1>10, <2>3, <2>4
<1> QED
  BY <1>6, <1>7, <1>9, <1>11, <1>12 DEF items

\* Rows that are shown once each are as many of a category as the facets count.
LEMMA FacetsCounted ==
  ASSUME NEW cat, IsCatalog(cat), NEW state, NEW listed \in Seq(DOMAIN cat),
         \A i, j \in DOMAIN listed : listed[i] = listed[j] => i = j,
         ToSet(listed) = apply_filters(cat, state), NEW c
  PROVE  Cardinality({i \in DOMAIN listed : cat[listed[i]].category = c})
            = facet_counts(cat, state, c)
<1> DEFINE I == {i \in DOMAIN listed : cat[listed[i]].category = c}
           T == {e \in apply_filters(cat, state) : cat[e].category = c}
           f == [i \in I |-> listed[i]]
<1>1. IsFiniteSet(I)
  <2>1. DOMAIN listed = 1 .. Len(listed) /\ Len(listed) \in Nat /\ I \in SUBSET (1 .. Len(listed))
    OBVIOUS
  <2>2. IsFiniteSet(1 .. Len(listed))
    BY <2>1, FS_Interval
  <2> HIDE DEF I
  <2> QED
    BY <2>1, <2>2, FS_Subset
<1>2. \A i \in I : listed[i] \in T
  BY DEF ToSet
<1>3. \A e \in T : \E i \in I : listed[i] = e
  BY DEF ToSet
<1>4. \A i, j \in I : f[i] = f[j] => i = j
  OBVIOUS
<1>5. facet_counts(cat, state, c) = Cardinality(T)
  BY DEF facet_counts
<1> HIDE DEF I, T
<1>6. f \in [I -> T] /\ \A e \in T : \E i \in I : f[i] = e
  BY <1>2, <1>3
<1> HIDE DEF f
<1>7. f \in Injection(I, T) /\ f \in Surjection(I, T)
  BY <1>4, <1>6 DEF Injection, IsInjective, Surjection
<1>8. Cardinality(T) = Cardinality(I)
  BY <1>1, <1>7, FS_Surjection
<1> QED
  BY <1>5, <1>8 DEF I

IsJoined(new, D, old, items) ==
    /\ new \in Seq(D) /\ Len(new) = Len(old) + Len(items)
    /\ \A i \in DOMAIN new : \/ i \in DOMAIN old /\ new[i] = old[i]
                             \/ i - Len(old) \in DOMAIN items /\ new[i] = items[i - Len(old)]
    /\ \A i \in DOMAIN old : i \in DOMAIN new /\ new[i] = old[i]
    /\ \A i \in DOMAIN items : i + Len(old) \in DOMAIN new /\ new[i + Len(old)] = items[i]
    /\ ToSet(new) = ToSet(old) \cup ToSet(items)

LEMMA Appended ==
  ASSUME NEW D, NEW old \in Seq(D), NEW items \in Seq(D)
  PROVE  IsJoined(old \o items, D, old, items)
<1> DEFINE new == old \o items
<1> DEFINE l == Len(old)
           m == Len(items)
<1>1. l \in Nat /\ m \in Nat /\ DOMAIN old = 1 .. l /\ DOMAIN items = 1 .. m
  OBVIOUS
<1>2. /\ new \in Seq(D) /\ Len(new) = l + m
      /\ \A i \in 1 .. l + m : new[i] = IF i <= l THEN old[i] ELSE items[i - l]
  BY ConcatProperties
<1>3. DOMAIN new = 1 .. l + m
  BY <1>2
<1> HIDE DEF l, m, new
<1>4. ASSUME NEW i \in 1 .. l + m
      PROVE  \/ i \in 1 .. l /\ new[i] = old[i]
             \/ i - l \in 1 .. m /\ new[i] = items[i - l]
  BY <1>1, <1>2
<1>5. ASSUME NEW i \in 1 .. l PROVE i \in 1 .. l + m /\ new[i] = old[i]
  BY <1>1, <1>2
<1>6. ASSUME NEW i \in 1 .. m PROVE i + l \in 1 .. l + m /\ new[i + l] = items[i]
  <2>1. i + l \in 1 .. l + m /\ ~(i + l <= l) /\ (i + l) - l = i
    BY <1>1
  <2> QED
    BY <1>2, <2>1
<1>7. /\ \A x : x \in ToSet(new) <=> \E i \in 1 .. l + m : x = new[i]
      /\ \A x : x \in ToSet(old) <=> \E i \in 1 .. l : x = old[i]
      /\ \A x : x \in ToSet(items) <=> \E i \in 1 .. m : x = items[i]
  BY <1>1, <1>3 DEF ToSet
<1>8. ASSUME NEW x \in ToSet(new) PROVE x \in ToSet(old) \cup ToSet(items)
  BY ONLY <1>4, <1>7, <1>8
<1>9. ASSUME NEW x \in ToSet(old) PROVE x \in ToSet(new)
  BY ONLY <1>5, <1>7, <1>9
<1>10. ASSUME NEW x \in ToSet(items) PROVE x \in ToSet(new)
  BY ONLY <1>6, <1>7, <1>10
<1>11. ToSet(new) = ToSet(old) \cup ToSet(items)
  BY <1>8, <1>9, <1>10
<1> QED
  <2>1. IsJoined(new, D, old, items)
    BY <1>1, <1>2, <1>3, <1>4, <1>5, <1>6, <1>11 DEF IsJoined, l, m
  <2> QED
    BY ONLY <2>1 DEF new

\* The next page is shown (v before it, w after it).
Fields == {"at", "kind", "state", "cursor", "total", "page", "listed", "selected", "anchor",
           "steady", "moved", "quiet", "miscounted"}

LEMMA ShowHolds ==
  ASSUME NEW cat, NEW v, IsView(cat, v), v.at = "open",
         NEW rows \in Passed(cat, v.state, v.cursor), NEW total, NEW counted \in BOOLEAN,
         counted => total \in {NoTotal, Len(rows)},
         NEW page, page = fetch_page(cat, rows, v.cursor, total),
         NEW w, DOMAIN w = DOMAIN v,
         w.at = (CASE page.fails -> "failed" [] page.has_more /\ ~page.fails -> "open"
                   [] OTHER -> "done"),
         w.page = page.items, w.listed = v.listed \o page.items, w.cursor = page.next_cursor,
         w.miscounted = (v.miscounted \/ ~counted),
         w.state = v.state, w.selected = v.selected, w.steady = v.steady, w.moved = v.moved,
         w.quiet = v.quiet
  PROVE  IsView(cat, w)
<1> DEFINE items == page.items
           old == v.listed
           new == w.listed
           S == apply_filters(cat, v.state)
<1>1. /\ ViewTypeOK(cat, v) /\ IsCatalog(cat) /\ IsMark(v.cursor) /\ DOMAIN v = Fields
      /\ old \in Seq(DOMAIN cat) /\ v.miscounted \in BOOLEAN /\ v.quiet \in BOOLEAN
      /\ v.selected \subseteq ToSet(old)
  BY DEF IsView, ViewTypeOK, IsCatalog, IsMark, Fields
<1>2. InOrder(cat, rows) /\ ToSet(rows) \subseteq S
  BY <1>1, PassedIs
<1>3. /\ items \in Seq(DOMAIN cat) /\ ToSet(items) \subseteq ToSet(rows)
      /\ IsMark(page.next_cursor) /\ page.fails \in BOOLEAN /\ page.has_more \in BOOLEAN
  BY <1>1, <1>2, PageIs
<1> DEFINE D == DOMAIN cat
<1>a. old \in Seq(D)
  BY <1>1
<1>b. items \in Seq(D)
  BY <1>3
<1>c. new = old \o items
  OBVIOUS
<1> HIDE DEF items, old, new, S, D
<1>4. /\ new \in Seq(D) /\ Len(new) = Len(old) + Len(items)
      /\ \A i \in DOMAIN new : \/ i \in DOMAIN old /\ new[i] = old[i]
                               \/ i - Len(old) \in DOMAIN items /\ new[i] = items[i - Len(old)]
      /\ \A i \in DOMAIN old : i \in DOMAIN new /\ new[i] = old[i]
      /\ \A i \in DOMAIN items : i + Len(old) \in DOMAIN new /\ new[i + Len(old)] = items[i]
      /\ ToSet(new) = ToSet(old) \cup ToSet(items)
  <2>1. IsJoined(old \o items, D, old, items)
    BY ONLY <1>a, <1>b, Appended, Zenon
  <2>2. IsJoined(new, D, old, items)
    BY ONLY <1>c, <2>1, Zenon
  <2> QED
    BY ONLY <2>2, Zenon DEF IsJoined
<1>5. new \in Seq(DOMAIN cat) /\ ToSet(new) = ToSet(old) \cup ToSet(items)
  BY <1>4 DEF D
<1>6. /\ page.fails => w.at = "failed"
      /\ ~page.fails /\ page.has_more => w.at = "open"
      /\ ~page.fails /\ ~page.has_more => w.at = "done"
  BY <1>3
<1>7. ViewTypeOK(cat, w)
  <2>1. w.at \in {"closed", "open", "done", "failed"} /\ w.at # "closed"
    BY <1>3, <1>6
  <2>2. w.miscounted \in BOOLEAN
    OBVIOUS
  <2>3. ToSet(w.page) \subseteq ToSet(w.listed) /\ w.page \in Seq(DOMAIN cat)
    BY <1>3, <1>5 DEF items, new
  <2>4. w.listed \in Seq(DOMAIN cat)
    BY <1>5 DEF new
  <2> QED
    BY <1>1, <1>3, <2>1, <2>2, <2>3, <2>4 DEF ViewTypeOK, IsCatalog, IsMark, Fields
<1>8. w.quiet => Undisturbed(cat, w)
  <2> SUFFICES ASSUME w.quiet PROVE Undisturbed(cat, w)
    OBVIOUS
  <2>1. v.moved = {} /\ v.steady = S /\ ToSet(old) \subseteq S
    BY DEF IsView, Undisturbed, S, old
  <2>2. ToSet(new) \subseteq S
    BY <1>2, <1>3, <1>5, <2>1
  <2> QED
    BY <2>1, <2>2 DEF Undisturbed, S, new
<1>9. ASSUME ~w.miscounted
      PROVE  IsSoundReading(cat, w) /\ (w.at = "open" => CursorBetween(cat, w))
  <2>1. ~v.miscounted /\ total \in {NoTotal, Len(rows)}
    BY <1>9
  <2>2. CursorBetween(cat, v) /\ IsSoundReading(cat, v)
    BY <2>1 DEF IsView
  <2>3. /\ \A i, j \in DOMAIN items : items[i] = items[j] => i = j
        /\ \A e \in ToSet(items) : IsAfter(cat, e, v.cursor)
        /\ page.has_more =>
              /\ page.next_cursor # <<>>
              /\ \A e \in ToSet(items) : ~after_cursor(cat, e, page.next_cursor)
              /\ \A e \in DOMAIN cat :
                    after_cursor(cat, e, page.next_cursor) => IsAfter(cat, e, v.cursor)
              /\ \A e \in S : IsAfter(cat, e, v.cursor) =>
                    e \in ToSet(items) \/ after_cursor(cat, e, page.next_cursor)
        /\ ~page.has_more => \A e \in S : IsAfter(cat, e, v.cursor) => e \in ToSet(items)
    <3> DEFINE state == v.state
               mark == v.cursor
    <3>1. /\ IsCatalog(cat) /\ IsMark(mark) /\ rows \in Passed(cat, state, mark)
          /\ total \in {NoTotal, Len(rows)} /\ page = fetch_page(cat, rows, mark, total)
      BY <1>1, <2>1
    <3> HIDE DEF state, mark
    <3>2. /\ \A i, j \in DOMAIN page.items : page.items[i] = page.items[j] => i = j
          /\ \A e \in ToSet(page.items) : IsAfter(cat, e, mark)
          /\ page.has_more =>
                /\ page.next_cursor # <<>>
                /\ \A e \in ToSet(page.items) : ~after_cursor(cat, e, page.next_cursor)
                /\ \A e \in DOMAIN cat :
                      after_cursor(cat, e, page.next_cursor) => IsAfter(cat, e, mark)
                /\ \A e \in apply_filters(cat, state) : IsAfter(cat, e, mark) =>
                      e \in ToSet(page.items) \/ after_cursor(cat, e, page.next_cursor)
          /\ ~page.has_more =>
                \A e \in apply_filters(cat, state) : IsAfter(cat, e, mark) => e \in ToSet(page.items)
      BY ONLY <3>1, ReadingGoesOn, SMTT(30)
    <3> QED
      BY <3>2 DEF items, S, state, mark
  <2>4. page.fails = FALSE
    BY <1>1, <1>2, <2>1, PageIs
  <2>5. \A e \in ToSet(old) : e \in v.moved \/ ~IsAfter(cat, e, v.cursor)
    <3>1. ToSet(<<>>) = {}
      BY DEF ToSet
    <3>2. CASE v.cursor = <<>>
      BY <2>2, <3>1, <3>2 DEF CursorBetween, old
    <3>3. CASE v.cursor # <<>>
      BY <2>2, <3>3 DEF CursorBetween, old, IsAfter
    <3> QED
      BY <3>2, <3>3
  <2>6. \A e \in v.steady \ v.moved : e \in S /\ (e \in ToSet(old) \/ IsAfter(cat, e, v.cursor))
    BY <2>2 DEF CursorBetween, S, old, IsAfter
  <2>7. \A e \in ToSet(old) : e \in DOMAIN cat
    BY <1>1 DEF ToSet
  <2>8. \A i, j \in DOMAIN new : i # j /\ new[i] = new[j] => new[i] \in v.moved
    <3> SUFFICES ASSUME NEW i \in DOMAIN new, NEW j \in DOMAIN new, i # j, new[i] = new[j]
                 PROVE  new[i] \in v.moved
      OBVIOUS
    <3> DEFINE l == Len(old)
    <3>0. /\ i \in Int /\ j \in Int /\ l \in Int
          /\ \/ i \in DOMAIN old /\ new[i] = old[i]
             \/ i - l \in DOMAIN items /\ new[i] = items[i - l]
          /\ \/ j \in DOMAIN old /\ new[j] = old[j]
             \/ j - l \in DOMAIN items /\ new[j] = items[j - l]
      <4>1. DOMAIN new = 1 .. Len(new) /\ Len(new) \in Nat /\ l \in Nat
        BY <1>1, <1>4
      <4>2. i \in Int /\ j \in Int /\ l \in Int
        BY <4>1
      <4> QED
        BY <1>4, <4>2
    <3> HIDE DEF l
    <3>1. CASE i \in DOMAIN old /\ new[i] = old[i] /\ j \in DOMAIN old /\ new[j] = old[j]
      BY <2>2, <3>1 DEF IsSoundReading, old
    <3>2. CASE /\ i - l \in DOMAIN items /\ new[i] = items[i - l]
               /\ j - l \in DOMAIN items /\ new[j] = items[j - l]
      <4>1. i - l # j - l
        BY <3>0
      <4> QED
        BY <2>3, <3>2, <4>1
    <3>3. CASE i \in DOMAIN old /\ new[i] = old[i] /\ j - l \in DOMAIN items /\ new[j] = items[j - l]
      <4>1. new[i] \in ToSet(old) /\ new[i] \in ToSet(items)
        BY <3>3 DEF ToSet
      <4> QED
        BY <2>3, <2>5, <4>1
    <3>4. CASE j \in DOMAIN old /\ new[j] = old[j] /\ i - l \in DOMAIN items /\ new[i] = items[i - l]
      <4>1. new[i] \in ToSet(old) /\ new[i] \in ToSet(items)
        BY <3>4 DEF ToSet
      <4> QED
        BY <2>3, <2>5, <4>1
    <3> QED
      BY <3>0, <3>1, <3>2, <3>3, <3>4
  <2>9. CASE page.has_more
    <3>1. w.at = "open" /\ w.cursor # <<>>
      BY <1>6, <2>3, <2>4, <2>9
    <3>2. \A e \in ToSet(new) : e \in v.moved \/ ~after_cursor(cat, e, w.cursor)
      BY <1>5, <2>3, <2>5, <2>7, <2>9
    <3>3. \A e \in v.steady \ v.moved : e \in ToSet(new) \/ after_cursor(cat, e, w.cursor)
      BY <1>5, <2>3, <2>6, <2>9
    <3>4. CursorBetween(cat, w)
      BY <2>2, <3>1, <3>2, <3>3 DEF CursorBetween, new
    <3>5. IsSoundReading(cat, w)
      BY <2>8, <3>1 DEF IsSoundReading, new
    <3> QED
      BY <3>4, <3>5
  <2>10. CASE ~page.has_more
    <3>1. w.at = "done"
      BY <1>6, <2>4, <2>10
    <3>2. v.steady \ v.moved \subseteq ToSet(new)
      BY <1>5, <2>3, <2>6, <2>10
    <3>3. ASSUME w.quiet, NEW c
          PROVE  Cardinality({i \in DOMAIN new : cat[new[i]].category = c})
                    = facet_counts(cat, v.state, c)
      <4>1. v.moved = {} /\ v.steady = S /\ ToSet(new) \subseteq S
        BY <1>8, <3>3 DEF Undisturbed, S, new
      <4>2. ToSet(new) = S
        BY <3>2, <4>1
      <4>3. \A i, j \in DOMAIN new : new[i] = new[j] => i = j
        BY <2>8, <4>1
      <4> QED
        <5> DEFINE state == v.state
        <5>1. IsCatalog(cat) /\ new \in Seq(DOMAIN cat) /\ ToSet(new) = apply_filters(cat, state)
          BY <1>1, <1>5, <4>2 DEF S
        <5> HIDE DEF state
        <5>2. Cardinality({i \in DOMAIN new : cat[new[i]].category = c})
                 = facet_counts(cat, state, c)
          BY ONLY <4>3, <5>1, FacetsCounted
        <5> QED
          BY <5>2 DEF state
    <3>4. IsSoundReading(cat, w)
      BY <2>8, <3>1, <3>2, <3>3 DEF IsSoundReading, new
    <3> QED
      BY <3>1, <3>4
  <2> QED
    BY <1>3, <2>9, <2>10
<1>10. w.selected \subseteq ToSet(w.listed)
  BY <1>1, <1>5 DEF new
<1> QED
  BY <1>7, <1>8, <1>9, <1>10 DEF IsView

\* A selection among the rows that were shown changes nothing else.
LEMMA SelectHolds ==
  ASSUME NEW cat, NEW v, IsView(cat, v), v.at # "closed",
         NEW w, DOMAIN w = DOMAIN v, w.at = v.at, w.state = v.state, w.cursor = v.cursor,
         w.page = v.page, w.listed = v.listed, w.steady = v.steady, w.moved = v.moved,
         w.quiet = v.quiet, w.miscounted = v.miscounted,
         w.selected \subseteq ToSet(v.listed)
  PROVE  IsView(cat, w)
<1>1. ViewTypeOK(cat, w)
  BY DEF IsView, ViewTypeOK
<1>2. ~w.miscounted /\ w.at = "open" => CursorBetween(cat, w)
  BY DEF IsView, CursorBetween
<1>3. w.quiet /\ w.at # "closed" => Undisturbed(cat, w)
  BY DEF IsView, Undisturbed
<1>4. ~w.miscounted => IsSoundReading(cat, w)
  BY DEF IsView, IsSoundReading
<1> QED
  BY <1>1, <1>2, <1>3, <1>4 DEF IsView

\* A row is written (cat and v before it, new and w after it) while the reading is open.
IsWritten(cat, new, e, row) ==
    /\ new \in [DOMAIN cat \cup {e} -> EntryRows] /\ new[e] = row
    /\ \A f \in DOMAIN cat : f # e => new[f] = cat[f]
IsTold(v, w, cat, e, row) ==
    /\ DOMAIN w = DOMAIN v /\ w.at = v.at /\ w.state = v.state /\ w.cursor = v.cursor
    /\ w.page = v.page /\ w.listed = v.listed /\ w.miscounted = v.miscounted
    /\ w.selected = v.selected /\ w.quiet = FALSE
    /\ w.steady = IF filter_matches(row, v.state) THEN v.steady ELSE v.steady \ {e}
    /\ w.moved = IF e \in DOMAIN cat /\ cat[e].value # row.value THEN v.moved \cup {e}
                 ELSE v.moved

LEMMA WriteHolds ==
  ASSUME NEW cat, NEW v, IsView(cat, v), v.at = "open",
         NEW e \in Entries, NEW row \in EntryRows,
         NEW new, IsWritten(cat, new, e, row), NEW w, IsTold(v, w, cat, e, row)
  PROVE  IsView(new, w)
<1> USE DEF IsWritten, IsTold
<1>1. /\ DOMAIN new = DOMAIN cat \cup {e} /\ new[e] = row
      /\ \A f \in DOMAIN cat : f # e => new[f] = cat[f]
  OBVIOUS
<1>2. /\ cat \in [DOMAIN cat -> EntryRows] /\ DOMAIN cat \subseteq Entries
      /\ v.listed \in Seq(DOMAIN cat) /\ v.page \in Seq(DOMAIN cat)
      /\ ToSet(v.listed) \subseteq DOMAIN cat
  BY DEF IsView, ViewTypeOK, ToSet
<1>3. new \in [DOMAIN new -> EntryRows] /\ DOMAIN new \subseteq Entries
  BY <1>1, <1>2
<1>4. w.listed \in Seq(DOMAIN new) /\ w.page \in Seq(DOMAIN new)
  <2>1. \A s \in Seq(DOMAIN cat) : s \in Seq(DOMAIN cat \cup {e})
    OBVIOUS
  <2> QED
    BY <1>1, <1>2, <2>1
<1>5. ViewTypeOK(new, w)
  BY <1>3, <1>4 DEF IsView, ViewTypeOK
<1>6. \A f \in DOMAIN cat : f \in w.moved \/ new[f].value = cat[f].value
  BY <1>1
<1>7. \A f \in DOMAIN cat : \/ f \in w.moved
                            \/ after_cursor(new, f, v.cursor) <=> after_cursor(cat, f, v.cursor)
  BY <1>6, Zenon DEF after_cursor
<1>8. v.moved \subseteq w.moved /\ w.steady \subseteq v.steady
  OBVIOUS
<1>9. ASSUME ~w.miscounted PROVE CursorBetween(new, w) /\ IsSoundReading(new, w)
  <2>1. CursorBetween(cat, v) /\ IsSoundReading(cat, v)
    BY <1>9 DEF IsView
  <2>2. v.steady \subseteq apply_filters(cat, v.state)
    BY <2>1 DEF CursorBetween
  <2>3. ASSUME NEW f \in w.steady PROVE f \in DOMAIN new /\ filter_matches(new[f], v.state)
    <3>1. f \in DOMAIN cat /\ filter_matches(cat[f], v.state)
      BY <1>8, <2>2 DEF apply_filters
    <3>2. CASE f = e
      BY <1>1, <3>2
    <3>3. CASE f # e
      BY <1>1, <3>1, <3>3
    <3> QED
      BY <3>2, <3>3
  <2>4. w.steady \subseteq apply_filters(new, w.state)
    BY <2>3 DEF apply_filters
  <2>5. \A f \in v.steady : f \in DOMAIN cat
    BY <2>2 DEF apply_filters
  <2>6. CursorBetween(new, w)
    <3>1. ASSUME w.cursor # <<>>, NEW f \in ToSet(w.listed)
          PROVE  f \in w.moved \/ ~after_cursor(new, f, w.cursor)
      <4>1. f \in DOMAIN cat /\ (f \in v.moved \/ ~after_cursor(cat, f, v.cursor))
        BY <1>2, <2>1, <3>1 DEF CursorBetween
      <4> QED
        BY <1>7, <1>8, <4>1
    <3>2. ASSUME w.cursor # <<>>, NEW f \in w.steady \ w.moved
          PROVE  f \in ToSet(w.listed) \/ after_cursor(new, f, w.cursor)
      <4>1. f \in DOMAIN cat /\ (f \in ToSet(v.listed) \/ after_cursor(cat, f, v.cursor))
        BY <1>8, <2>1, <2>5, <3>2 DEF CursorBetween
      <4> QED
        BY <1>7, <3>2, <4>1
    <3>3. w.cursor = <<>> => w.listed = <<>>
      BY <2>1 DEF CursorBetween
    <3> QED
      BY <2>4, <3>1, <3>2, <3>3 DEF CursorBetween
  <2>7. IsSoundReading(new, w)
    BY <1>8, <2>1 DEF IsSoundReading
  <2> QED
    BY <2>6, <2>7
<1>10. w.selected \subseteq ToSet(w.listed)
  BY DEF IsView
<1> QED
  BY <1>5, <1>9, <1>10 DEF IsView

\* What lies between two items is among the items.
LEMMA PlaceIs ==
  ASSUME NEW ids, NEW D, ids \in Seq(D), NEW e \in ToSet(ids)
  PROVE  PlaceOf(e, ids) \in 1 .. Len(ids)
<1> DEFINE places == {i \in DOMAIN ids : ids[i] = e}
<1>1. DOMAIN ids = 1 .. Len(ids) /\ Len(ids) \in Nat
  OBVIOUS
<1>2. places # {}
  BY DEF ToSet
<1>3. places \in SUBSET (1 .. Len(ids))
  BY <1>1
<1>4. IsFiniteSet(1 .. Len(ids))
  BY <1>1, FS_Interval
<1>5. IsFiniteSet(places)
  BY <1>3, <1>4, FS_Subset
<1>6. places \in SUBSET Nat
  BY <1>1, <1>3
<1> HIDE DEF places
<1>7. \E x \in places : \A y \in places : x <= y
  BY <1>2, <1>5, <1>6, LeastOf
<1>8. Min(places) \in places
  BY <1>7 DEF Min
<1> QED
  BY <1>3, <1>8 DEF PlaceOf, places

LEMMA BetweenIs ==
  ASSUME NEW ids, NEW D, ids \in Seq(D), NEW anchor, NEW e \in ToSet(ids)
  PROVE  Between(ids, anchor, e) \subseteq ToSet(ids)
<1> DEFINE from == IF anchor \in ToSet(ids) THEN PlaceOf(anchor, ids) ELSE 1
           to == PlaceOf(e, ids)
<1>1. DOMAIN ids = 1 .. Len(ids) /\ Len(ids) \in Nat
  OBVIOUS
<1>2. to \in 1 .. Len(ids)
  BY PlaceIs
<1>3. from \in 1 .. Len(ids)
  <2>1. CASE anchor \in ToSet(ids)
    BY <2>1, PlaceIs
  <2>2. CASE anchor \notin ToSet(ids)
    BY <1>1, <1>2, <2>2
  <2> QED
    BY <2>1, <2>2
<1>4. Between(ids, anchor, e) = {ids[i] : i \in Min({from, to}) .. Max({from, to})}
  BY DEF Between
<1> HIDE DEF from, to
<1>5. from \in Nat /\ to \in Nat
  BY <1>1, <1>2, <1>3
<1>6. /\ \E x \in {from, to} : \A y \in {from, to} : x <= y
      /\ \E x \in {from, to} : \A y \in {from, to} : x >= y
  BY <1>5
<1>7. Min({from, to}) \in {from, to} /\ Max({from, to}) \in {from, to}
  BY <1>6 DEF Min, Max
<1>8. Min({from, to}) .. Max({from, to}) \subseteq DOMAIN ids
  <2> DEFINE a == Min({from, to})
             b == Max({from, to})
  <2>1. a \in 1 .. Len(ids) /\ b \in 1 .. Len(ids)
    BY <1>2, <1>3, <1>7
  <2> HIDE DEF a, b
  <2>2. a .. b \subseteq 1 .. Len(ids)
    BY ONLY <1>1, <2>1
  <2> QED
    BY <1>1, <2>2 DEF a, b
<1> QED
  BY <1>4, <1>8 DEF ToSet

\* Every step keeps the invariant.
LEMMA SelectKeeps ==
  ASSUME ViewInv, NEW selected, NEW anchor, Select(selected, anchor),
         selected \subseteq ToSet(viewer.listed)
  PROVE  ViewInv'
<1> DEFINE w == viewer'
<1>1. DOMAIN viewer = Fields
  BY DEF ViewInv, IsView, ViewTypeOK, Fields
<1>2. /\ DOMAIN w = DOMAIN viewer /\ w.at = viewer.at /\ w.state = viewer.state
      /\ w.cursor = viewer.cursor /\ w.page = viewer.page /\ w.listed = viewer.listed
      /\ w.steady = viewer.steady /\ w.moved = viewer.moved /\ w.quiet = viewer.quiet
      /\ w.miscounted = viewer.miscounted /\ w.selected = selected
  BY <1>1 DEF Select, Fields
<1>3. viewer.at # "closed" /\ catalog' = catalog
  BY DEF Select
<1> HIDE DEF w
<1>4. IsView(catalog, viewer)
  BY DEF ViewInv
<1>5. w.selected \subseteq ToSet(viewer.listed)
  BY <1>2
<1>6. IsView(catalog, w)
  BY <1>2, <1>3, <1>4, <1>5, SelectHolds
<1> QED
  BY <1>3, <1>6 DEF ViewInv, w

LEMMA SelectionsKeep ==
  ASSUME ViewInv,
         \/ SelectRows
         \/ \E e \in ToSet(viewer.listed) : Activate(e)
         \/ \E e \in ToSet(viewer.listed), ids \in {viewer.page, viewer.listed} : Toggle(e, ids)
  PROVE  ViewInv'
<1> DEFINE all == ToSet(viewer.listed)
<1>1. /\ viewer.selected \subseteq all /\ ToSet(viewer.page) \subseteq all
      /\ viewer.page \in Seq(DOMAIN catalog) /\ viewer.listed \in Seq(DOMAIN catalog)
  BY DEF ViewInv, IsView, ViewTypeOK
<1>2. CASE SelectRows
  <2>1. PICK selected \in {Flip(viewer.selected, {e}) : e \in all} \cup {ToSet(viewer.page), {}} :
           Select(selected, 0)
    BY <1>2 DEF SelectRows
  <2>2. selected \subseteq all
    BY <1>1, <2>1 DEF Flip
  <2> QED
    BY <2>1, <2>2, SelectKeeps
<1>3. ASSUME NEW e \in all, Activate(e) PROVE ViewInv'
  <2>1. viewer.selected \cup {e} \subseteq all
    BY <1>1
  <2> QED
    BY <1>3, <2>1, SelectKeeps DEF Activate
<1>4. ASSUME NEW e \in all, NEW ids \in {viewer.page, viewer.listed}, Toggle(e, ids) PROVE ViewInv'
  <2>1. ids \in Seq(DOMAIN catalog) /\ ToSet(ids) \subseteq all
    BY <1>1
  <2>2. CASE viewer.anchor # 0 /\ e \in ToSet(ids)
    <3>1. Select(Flip(viewer.selected, Between(ids, viewer.anchor, e)), viewer.anchor)
      BY <1>4, <2>2 DEF Toggle
    <3>2. Between(ids, viewer.anchor, e) \subseteq ToSet(ids)
      BY <2>1, <2>2, BetweenIs
    <3>3. Flip(viewer.selected, Between(ids, viewer.anchor, e)) \subseteq all
      BY <1>1, <2>1, <3>2 DEF Flip
    <3> QED
      BY <3>1, <3>3, SelectKeeps
  <2>3. CASE ~(viewer.anchor # 0 /\ e \in ToSet(ids))
    <3>1. \E anchor : Select(Flip(viewer.selected, {e}), anchor)
      BY <1>4, <2>3 DEF Toggle
    <3>2. Flip(viewer.selected, {e}) \subseteq all
      BY <1>1 DEF Flip
    <3> QED
      BY <3>1, <3>2, SelectKeeps
  <2> QED
    BY <2>2, <2>3
<1> QED
  BY <1>2, <1>3, <1>4

LEMMA ShowKeeps ==
  ASSUME ViewInv, viewer.at = "open", NEW rows \in Passed(catalog, viewer.state, viewer.cursor),
         NEW total, NEW counted \in BOOLEAN, counted => total \in {NoTotal, Len(rows)},
         Show(fetch_page(catalog, rows, viewer.cursor, total), counted)
  PROVE  ViewInv'
<1> DEFINE w == viewer'
           page == fetch_page(catalog, rows, viewer.cursor, total)
<1>1. DOMAIN viewer = Fields
  BY DEF ViewInv, IsView, ViewTypeOK, Fields
<1>2. Show(page, counted)
  OBVIOUS
<1> HIDE DEF page
<1>3. /\ DOMAIN w = DOMAIN viewer
      /\ w.at = (CASE page.fails -> "failed" [] page.has_more /\ ~page.fails -> "open"
                   [] OTHER -> "done")
      /\ w.page = page.items /\ w.listed = viewer.listed \o page.items
      /\ w.cursor = page.next_cursor /\ w.miscounted = (viewer.miscounted \/ ~counted)
      /\ w.state = viewer.state /\ w.selected = viewer.selected /\ w.steady = viewer.steady
      /\ w.moved = viewer.moved /\ w.quiet = viewer.quiet
  BY <1>1, <1>2 DEF Show, Fields
<1>4. catalog' = catalog
  BY DEF Show
<1>5. IsView(catalog, viewer) /\ page = fetch_page(catalog, rows, viewer.cursor, total)
  BY DEF ViewInv, page
<1> HIDE DEF w
<1>6. IsView(catalog, w)
  BY <1>3, <1>5, ShowHolds
<1> QED
  BY <1>4, <1>6 DEF ViewInv, w

LEMMA PagesKeep ==
  ASSUME ViewInv, TablePage \/ GalleryPage
  PROVE  ViewInv'
<1>1. CASE TablePage
  <2>1. PICK rows \in Passed(catalog, viewer.state, viewer.cursor),
             total \in {NoTotal, Cardinality(apply_filters(catalog, viewer.state)), viewer.total} :
           Show(fetch_page(catalog, rows, viewer.cursor, total), total \in {NoTotal, Len(rows)})
    BY <1>1 DEF TablePage
  <2>2. viewer.at = "open" /\ (total \in {NoTotal, Len(rows)}) \in BOOLEAN
    BY <1>1 DEF TablePage
  <2> QED
    BY <2>1, <2>2, ShowKeeps
<1>2. CASE GalleryPage
  <2>1. PICK rows \in Passed(catalog, viewer.state, viewer.cursor) :
           Show(fetch_page(catalog, rows, viewer.cursor, NoTotal), TRUE)
    BY <1>2 DEF GalleryPage, gallery_page
  <2>2. viewer.at = "open"
    BY <1>2 DEF GalleryPage
  <2> QED
    BY <2>1, <2>2, ShowKeeps
<1> QED
  BY <1>1, <1>2

LEMMA OpenKeeps ==
  ASSUME ViewInv, NEW kind, NEW raw, Open(kind, raw)
  PROVE  ViewInv'
<1> DEFINE w == viewer'
           state == normalize_filter_state(raw)
<1>1. /\ viewer = Unopened /\ catalog' = catalog
      /\ catalog \in [DOMAIN catalog -> EntryRows] /\ DOMAIN catalog \subseteq Entries
  BY DEF Open, ViewInv, IsView, ViewTypeOK
<1> HIDE DEF state
<1>2. /\ DOMAIN w = Fields /\ w.at = "open" /\ w.state = state /\ w.cursor = <<>>
      /\ w.page = <<>> /\ w.listed = <<>> /\ w.selected = {} /\ w.moved = {}
      /\ w.steady = apply_filters(catalog, state) /\ w.quiet = TRUE /\ w.miscounted = FALSE
  BY <1>1 DEF Open, Unopened, Fields, state
<1> HIDE DEF w
<1>3. ToSet(<<>>) = {} /\ <<>> \in Seq(DOMAIN catalog) /\ DOMAIN <<>> = {}
  BY DEF ToSet
<1>4. ViewTypeOK(catalog, w)
  BY <1>1, <1>2, <1>3 DEF ViewTypeOK, Fields
<1>5. CursorBetween(catalog, w)
  BY <1>2, <1>3 DEF CursorBetween
<1>6. Undisturbed(catalog, w)
  BY <1>2, <1>3 DEF Undisturbed
<1>7. IsSoundReading(catalog, w)
  BY <1>2, <1>3 DEF IsSoundReading
<1>8. IsView(catalog, w)
  BY <1>2, <1>3, <1>4, <1>5, <1>6, <1>7 DEF IsView
<1> QED
  BY <1>1, <1>8 DEF ViewInv, w

LEMMA WriteKeeps ==
  ASSUME ViewInv, NEW e \in Entries, NEW row \in EntryRows, Write(e, row)
  PROVE  ViewInv'
<1> DEFINE w == viewer'
           new == catalog'
<1>1. DOMAIN viewer = Fields
  BY DEF ViewInv, IsView, ViewTypeOK, Fields
<1>2. IsTold(viewer, w, catalog, e, row)
  BY <1>1 DEF Write, Fields, Cataloged, IsTold
<1>3. /\ viewer.at = "open" /\ IsView(catalog, viewer)
      /\ new = [f \in DOMAIN catalog \cup {e} |-> IF f = e THEN row ELSE catalog[f]]
  BY DEF Write, Cataloged, ViewInv
<1> HIDE DEF w, new
<1>4. IsWritten(catalog, new, e, row)
  <2>1. \A f \in DOMAIN catalog : catalog[f] \in EntryRows
    BY <1>3 DEF IsView, ViewTypeOK
  <2> QED
    BY <1>3, <2>1 DEF IsWritten
<1>5. viewer.at = "open" /\ IsView(catalog, viewer)
  BY <1>3
<1>6. IsView(new, w)
  BY ONLY e \in Entries, row \in EntryRows, <1>2, <1>4, <1>5, WriteHolds
<1> QED
  BY <1>6 DEF ViewInv, w, new

LEMMA ViewInitInv == ViewInit => ViewInv
<1> SUFFICES ASSUME ViewInit PROVE IsView(catalog, viewer)
  BY DEF ViewInv
<1>1. catalog \in [DOMAIN catalog -> EntryRows] /\ DOMAIN catalog \subseteq Entries
  BY DEF ViewInit
<1>2. viewer = Unopened
  BY DEF ViewInit
<1>3. ToSet(<<>>) = {} /\ <<>> \in Seq(DOMAIN catalog) /\ DOMAIN <<>> = {}
  BY DEF ToSet
<1>4. /\ DOMAIN viewer = Fields /\ viewer.at = "closed" /\ viewer.cursor = <<>>
      /\ viewer.page = <<>> /\ viewer.listed = <<>> /\ viewer.selected = {}
      /\ viewer.quiet = TRUE /\ viewer.miscounted = FALSE
  BY <1>2 DEF Unopened, Fields
<1>5. ViewTypeOK(catalog, viewer)
  BY <1>1, <1>2, <1>3, <1>4 DEF ViewTypeOK, Fields
<1>6. IsSoundReading(catalog, viewer)
  BY <1>3, <1>4 DEF IsSoundReading
<1> QED
  BY <1>3, <1>4, <1>5, <1>6 DEF IsView

LEMMA ViewNextInv == ViewInv /\ [ViewNext]_viewVars => ViewInv'
<1> SUFFICES ASSUME ViewInv, [ViewNext]_viewVars PROVE ViewInv'
  OBVIOUS
<1>1. CASE UNCHANGED viewVars
  BY <1>1 DEF viewVars, ViewInv
<1>2. ASSUME NEW kind \in {"table", "gallery"}, NEW raw \in RawFilters, Open(kind, raw)
      PROVE  ViewInv'
  BY <1>2, OpenKeeps
<1>3. CASE TablePage \/ GalleryPage
  BY <1>3, PagesKeep
<1>4. CASE \/ SelectRows
           \/ \E e \in ToSet(viewer.listed) : Activate(e)
           \/ \E e \in ToSet(viewer.listed), ids \in {viewer.page, viewer.listed} : Toggle(e, ids)
  BY <1>4, SelectionsKeep
<1>5. ASSUME NEW e \in Entries, NEW row \in EntryRows, Write(e, row) PROVE ViewInv'
  BY <1>5, WriteKeeps
<1> QED
  BY <1>1, <1>2, <1>3, <1>4, <1>5 DEF ViewNext

\* The table and the gallery can be read page by page while the workers write (fetch_page,
\* table_state, gallery_state): as long as the totals that are passed count the rows that
\* are passed, no page fails, no row is shown twice and none is missed that the filter let
\* through all the time, rows moved in the order aside; an undisturbed reading agrees with
\* the facet counts; nothing is selected that was never shown.  It holds for every number
\* of entries, every page limit and every filter.
THEOREM ViewsAlwaysHold == ViewSpec => []ViewsHold
<1>1. ViewInv => ViewsHold
  BY DEF ViewInv, IsView, ViewsHold
<1> QED
  BY ViewInitInv, ViewNextInv, <1>1, PTL DEF ViewSpec

=============================================================================
