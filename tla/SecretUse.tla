------------------------------ MODULE SecretUse ------------------------------
(***************************************************************************)
(* How recovered secrets are shown and how supplied ones are tried         *)
(* (worker/secret_reveal.py, worker/secret_sets.py).  A reveal is asked    *)
(* for, allowed by the policy, and hidden when its time is over; a copy on *)
(* the clipboard has a time of its own.  The page that shows them is not   *)
(* in the repository: it asks before it reveals and looks at the two due   *)
(* times once per tick of the clock.  A supplied value is its characters   *)
(* and the bytes each takes; a tool reads the values from a descriptor.    *)
(***************************************************************************)
EXTENDS Integers, FiniteSets, Sequences, SequencesExt

CONSTANTS Policies,         \* [mode, hide, clear, ackRequired]
          SecretSets,       \* values of a set: sequences of the bytes per character
          RevealTime,       \* bound: the clock
          MaxSets           \* bound: secret sets tried

ASSUME SecretAssumption ==
    /\ \A p \in Policies : p.hide \in Nat /\ p.clear \in Nat
    /\ SecretSets \subseteq Seq(Seq(Nat))
    /\ RevealTime \in Nat /\ MaxSets \in Nat

VARIABLES policy,           \* the RevealPolicy
          seconds,          \* the clock
          session,          \* the RevealSession: hidden, when it ends, when it began
          clipboard,        \* the ClipboardCopy: there, when it is cleared
          looked,           \* the due times were looked at in this second
          trial             \* the secret sets tried, and what came of it

revealVars == <<policy, seconds, session, clipboard, looked>>
secretVars == <<policy, seconds, session, clipboard, looked, trial>>

NoReveal == [shown |-> FALSE, until |-> 0, since |-> 0]
NoClip == [shown |-> FALSE, until |-> 0]
NotTried == [status |-> "none"]

\* reveal_permission: the mode asked for only has to be one there is.
RevealPermission(acknowledged) ==
    /\ policy.mode # "denied"
    /\ policy.mode = "unauthenticated_lan" /\ policy.ackRequired => acknowledged

\* auto_hide_due, clipboard_due: strictly after.
Due(what) == what.shown /\ seconds > what.until

\* reveal_permission and create_reveal_session
Reveal(acknowledged) ==
    /\ ~session.shown /\ RevealPermission(acknowledged)
    /\ session' = [shown |-> TRUE, until |-> seconds + policy.hide, since |-> seconds]
    /\ UNCHANGED <<policy, seconds, clipboard, looked, trial>>

\* clipboard_prepare: what is hidden cannot be copied; the time is not looked at.
Copyable == session.shown
CopySecret ==
    /\ Copyable
    /\ clipboard' = [shown |-> TRUE, until |-> seconds + policy.clear]
    /\ UNCHANGED <<policy, seconds, session, looked, trial>>

\* RevealSession.hide, by hand
HideByHand ==
    /\ session.shown /\ session' = [session EXCEPT !.shown = FALSE]
    /\ UNCHANGED <<policy, seconds, clipboard, looked, trial>>

\* The page hides and clears what is due.
LookAtTimes ==
    /\ ~looked /\ looked' = TRUE
    /\ session' = [session EXCEPT !.shown = @ /\ ~Due(session)]
    /\ clipboard' = [clipboard EXCEPT !.shown = @ /\ ~Due(clipboard)]
    /\ UNCHANGED <<policy, seconds, trial>>

SecondPasses ==
    /\ looked /\ seconds < RevealTime
    /\ seconds' = seconds + 1 /\ looked' = FALSE
    /\ UNCHANGED <<policy, session, clipboard, trial>>

-----------------------------------------------------------------------------
(* Secret sets *)

\* fd_payload: each value after the number of its characters.
Characters(value) == Len(value)
ByteLength(value) == Cardinality(UNION {{c} \X (1 .. value[c]) : c \in DOMAIN value})
FdPayload(values) ==
    [i \in DOMAIN values |-> [length |-> Characters(values[i]), bytes |-> ByteLength(values[i])]]

\* What the tool at the descriptor reads: value by value while lengths fit the bytes.
ReadBack(payload) ==
    LET wrong == {i \in DOMAIN payload : payload[i].length # payload[i].bytes}
    IN IF wrong = {} THEN Len(payload)
       ELSE (CHOOSE i \in wrong : \A j \in wrong : i <= j) - 1

\* What verify_password returns of one set.
Outcomes == {"matched", "rejected", "crashed"}

(* Mutant: a crash is taken for a rejection. *)
StopsAtMatch(outcome) == outcome = "matched"
\* try_secret_sets, verify_password: a match ends the search, and so does a crash.
StopsTrying(outcome) == outcome \in {"matched", "crashed"}
TrySecretSets(outcomes) ==
    LET ends == {i \in DOMAIN outcomes : StopsTrying(outcomes[i])}
        first == CHOOSE i \in ends : \A j \in ends : i <= j
    IN IF ends = {} THEN [status |-> "no_match", set |-> 0]
       ELSE [status |-> outcomes[first],
             set |-> IF outcomes[first] = "matched" THEN first ELSE 0]

\* define_secret_set, build_verification_plan and the runs of the tool.
TrySets(sets, outcomes) ==
    /\ trial = NotTried
    /\ \A i \in DOMAIN sets : sets[i] # <<>>
    /\ Len(outcomes) = Len(sets)
    /\ trial' = [status |-> "tried", sets |-> sets, outcomes |-> outcomes,
                 result |-> TrySecretSets(outcomes),
                 read |-> [i \in DOMAIN sets |-> ReadBack(FdPayload(sets[i]))]]
    /\ UNCHANGED revealVars

SecretInit ==
    /\ policy \in Policies /\ seconds = 0
    /\ session = NoReveal /\ clipboard = NoClip /\ looked = FALSE
    /\ trial = NotTried

RevealNext ==
    \/ \E acknowledged \in BOOLEAN : Reveal(acknowledged)
    \/ CopySecret \/ HideByHand \/ LookAtTimes \/ SecondPasses

TrialNext ==
    \E sets \in BoundedSeq(SecretSets, MaxSets),
       outcomes \in BoundedSeq(Outcomes, MaxSets) : TrySets(sets, outcomes)

SecretSpec == SecretInit /\ [][RevealNext \/ TrialNext]_secretVars

-----------------------------------------------------------------------------
\* What is shown, or lies on the clipboard, is allowed and recent.
RevealsBounded ==
    /\ session.shown \/ clipboard.shown => policy.mode # "denied"
    /\ session.shown => seconds <= session.since + policy.hide + 1
    /\ clipboard.shown => seconds <= session.since + policy.hide + policy.clear + 2

\* No set is tried after the one the search ends at, and the tool reads plain values.
TrialSound ==
    trial # NotTried =>
        /\ trial.result.set # 0 =>
            /\ trial.outcomes[trial.result.set] = "matched"
            /\ \A i \in 1 .. trial.result.set - 1 : trial.outcomes[i] = "rejected"
        /\ \A i \in DOMAIN trial.sets :
            (\A k \in DOMAIN trial.sets[i] : \A c \in DOMAIN trial.sets[i][k] :
                trial.sets[i][k][c] = 1) => trial.read[i] = Len(trial.sets[i])

\* worker/secret_reveal.py:96, :113, :143: a secret is shown, or lies on the
\* clipboard, only if the policy does not deny it, and for no longer than the two
\* times together (and a second for each to be noticed) after it was revealed,
\* however late it was copied.  worker/secret_sets.py:113: no set is said to match
\* after one that crashed, and the tool reads all the values of a set whose
\* characters take one byte each.
SecretsAreBounded == RevealsBounded /\ TrialSound

(* What makes it inductive: what is shown was noticed in time up to now.     *)
RevealInv ==
    /\ policy \in Policies /\ seconds \in Nat /\ looked \in BOOLEAN
    /\ session \in [shown : BOOLEAN, until : Nat, since : 0 .. seconds]
    /\ clipboard \in [shown : BOOLEAN, until : Nat]
    /\ session.shown =>
        /\ session.until = session.since + policy.hide
        /\ seconds <= session.until + (IF looked THEN 0 ELSE 1)
    /\ clipboard.shown =>
        /\ clipboard.until <= session.since + policy.hide + policy.clear + 1
        /\ seconds <= clipboard.until + (IF looked THEN 0 ELSE 1)
    /\ RevealsBounded

SecretInv == RevealInv /\ TrialSound
=============================================================================
