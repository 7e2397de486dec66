------------------------------- MODULE Vault -------------------------------
(***************************************************************************)
(* The encrypted secret store (shared/secret_store.py), opened by several  *)
(* processes.  A file is written by truncating it and then writing its     *)
(* bytes, so a process can die with the file empty.  A key is known by its *)
(* number, a secret by its reference, and the record of a secret by the    *)
(* key it is encrypted under: no other key opens it.  The audit of a       *)
(* protected target looks up one of the references.                        *)
(***************************************************************************)
EXTENDS Naturals, FiniteSets

CONSTANTS Holders,      \* processes that open the store
          Refs,         \* opaque references a put can draw
          MaxKeys       \* bound: master keys ever drawn

ASSUME VaultAssumption == MaxKeys \in Nat

VARIABLES keyFile,      \* master.key: NoKey, Short or the number of a key
          records,      \* the secret files: NoFile, Torn or the key of the record
          held,         \* the key each process has in memory
          vpc,          \* where each process is
          rewriting,    \* references a rotation of the process has still to write
          drawn,        \* keys drawn so far
          kept,         \* references stored and not deleted since
          disturbed     \* a key was written by a process that died or was not alone

keyVars == <<keyFile, held, drawn>>
vaultVars == <<keyFile, records, held, vpc, rewriting, drawn, kept, disturbed>>

NoKey == 0
Short == MaxKeys + 1    \* a key file of the wrong length
Keys == 1 .. MaxKeys
NoFile == NoKey
Torn == Short           \* a record that is not JSON

VaultInit ==
    /\ keyFile = NoKey
    /\ records = [r \in Refs |-> NoFile]
    /\ held = [p \in Holders |-> NoKey]
    /\ vpc = [p \in Holders |-> "closed"]
    /\ rewriting = [p \in Holders |-> {}]
    /\ drawn = 0
    /\ kept = {}
    /\ disturbed = FALSE

Readable(r, k) == k \in Keys /\ records[r] = k

At(p, here) == vpc[p] = here
Goto(p, there) == vpc' = [vpc EXCEPT ![p] = there]
Others(p) == Holders \ {p}
Alone(p) == \A q \in Others(p) : At(q, "closed")

(* Mutant: a constructor always writes a new key. *)
KeyNeverThere == FALSE
KeyIsThere == keyFile # NoKey

\* The constructor, up to the creation of a key where there is none: a key of
\* the wrong length is refused, and the store stays closed.
LoadKey(p) ==
    /\ At(p, "closed")
    /\ \/ /\ KeyIsThere /\ keyFile # Short
          /\ held' = [held EXCEPT ![p] = keyFile]
          /\ Goto(p, "open")
       \/ /\ ~KeyIsThere
          /\ Goto(p, "creating")
          /\ UNCHANGED held
    /\ disturbed' = (disturbed \/ \E q \in Others(p) : ~At(q, "closed") /\ ~At(q, "open"))
    /\ UNCHANGED <<keyFile, records, rewriting, drawn, kept>>

\* The key file is truncated for a key just drawn, by the constructor or by a
\* rotation that has decrypted every secret in the directory.
TruncateKey(p) ==
    /\ drawn < MaxKeys
    /\ drawn' = drawn + 1
    /\ held' = [held EXCEPT ![p] = drawn + 1]
    /\ keyFile' = Short
    /\ disturbed' = (disturbed \/ ~Alone(p))

CreateKey(p) ==
    /\ At(p, "creating")
    /\ TruncateKey(p)
    /\ Goto(p, "keying")
    /\ UNCHANGED <<records, rewriting, kept>>

Rotate(p) ==
    /\ At(p, "open")
    /\ \A r \in Refs : records[r] # NoFile => Readable(r, held[p])
    /\ TruncateKey(p)
    /\ rewriting' = [rewriting EXCEPT ![p] = {r \in Refs : records[r] # NoFile}]
    /\ Goto(p, "keying")
    /\ UNCHANGED <<records, kept>>

WriteKey(p) ==
    /\ At(p, "keying")
    /\ keyFile' = held[p]
    /\ Goto(p, IF rewriting[p] = {} THEN "open" ELSE "rewriting")
    /\ UNCHANGED <<records, held, rewriting, drawn, kept, disturbed>>

EncryptAgain(p) == held[p]

\* A secret is encrypted again under the new key, unless the process dies with
\* the file truncated.
Rewrite(p, r) ==
    /\ At(p, "rewriting") /\ r \in rewriting[p]
    /\ \/ /\ records' = [records EXCEPT ![r] = EncryptAgain(p)]
          /\ rewriting' = [rewriting EXCEPT ![p] = @ \ {r}]
          /\ Goto(p, IF rewriting[p] = {r} THEN "open" ELSE "rewriting")
          /\ UNCHANGED disturbed
       \/ /\ records' = [records EXCEPT ![r] = Torn]
          /\ rewriting' = [rewriting EXCEPT ![p] = {}]
          /\ Goto(p, "dying")
          /\ disturbed' = TRUE
    /\ UNCHANGED <<keyFile, held, drawn, kept>>

\* A put truncates the file of a new reference, and then writes it, unless the
\* process dies in between.
Put(p, r) ==
    /\ At(p, "open") /\ records[r] = NoFile
    /\ \/ /\ records' = [records EXCEPT ![r] = held[p]]
          /\ kept' = kept \cup {r}
          /\ UNCHANGED vpc
       \/ /\ records' = [records EXCEPT ![r] = Torn]
          /\ Goto(p, "dying")
          /\ UNCHANGED kept
    /\ UNCHANGED <<keyVars, rewriting, disturbed>>

Delete(p, r) ==
    /\ At(p, "open")
    /\ records' = [records EXCEPT ![r] = NoFile]
    /\ kept' = kept \ {r}
    /\ UNCHANGED <<keyVars, vpc, rewriting, disturbed>>

Die(p) ==
    /\ ~At(p, "closed")
    /\ Goto(p, "closed")
    /\ held' = [held EXCEPT ![p] = NoKey]
    /\ rewriting' = [rewriting EXCEPT ![p] = {}]
    /\ disturbed' = (disturbed \/ vpc[p] \in {"keying", "rewriting"})
    /\ UNCHANGED <<keyFile, records, drawn, kept>>

VaultNext ==
    \E p \in Holders :
        \/ LoadKey(p) \/ CreateKey(p) \/ Rotate(p) \/ WriteKey(p) \/ Die(p)
        \/ \E r \in Refs : Put(p, r) \/ Delete(p, r) \/ Rewrite(p, r)

VaultSpec == VaultInit /\ [][VaultNext]_vaultVars

-----------------------------------------------------------------------------
(* The audit of one protected target (worker/protected_audit.py), which refers  *)
(* to a set of secrets by its reference in the store.  Each action is one of    *)
(* the module's operations, called on the target as it stands; a call that      *)
(* raises leaves the target as it was.                                          *)

CONSTANTS SetRef,       \* the reference of the target's secret set
          MaxAttempts,  \* the attempt budget
          MaxCost,      \* the resource budget, one number for CPU and memory
          None

VARIABLES target,       \* the audit target
          verdict       \* what the last check of the secret set came to

auditVars == <<target, verdict>>

AuditStates == {"pending", "queued", "running", "verifying", "completed",
                "failed", "blocked", "cancelled"}

AllowedTransitions ==
    [pending |-> {"queued", "cancelled", "failed"},
     queued |-> {"running", "cancelled", "failed"},
     running |-> {"verifying", "failed", "cancelled"},
     verifying |-> {"completed", "failed"},
     completed |-> {},
     failed |-> {"queued"},
     blocked |-> {"queued"},
     cancelled |-> {}]

\* normalize_target: a new target has made no attempt and has no checkpoint.
AuditInit ==
    /\ target = [state |-> "pending", attempts |-> 0, error |-> None, spent |-> 0]
    /\ verdict = None

TransitionAudit(to) ==
    /\ to \in AllowedTransitions[target.state]
    /\ target' = [target EXCEPT !.state = to]

FailAudit ==
    /\ target.state \in {"pending", "queued", "running", "verifying"}
    /\ target' = [target EXCEPT !.state = "failed", !.error = "failed"]

RestartAudit ==
    /\ target.state \in {"failed", "blocked"}
    /\ target.attempts < MaxAttempts
    /\ target' = [target EXCEPT !.state = "queued", !.attempts = @ + 1, !.error = None]

UpdateCheckpoint(cost) ==
    /\ target.state \in {"running", "verifying"}
    /\ cost <= MaxCost
    /\ target' = [target EXCEPT !.spent = cost]

\* block_audit, on a target that may block.
Blocked == [target EXCEPT !.state = "blocked", !.error = "secret_set_missing"]

\* verify_secret_reference: SecretStore.metadata raises SecretStoreError for a
\* record that is missing or cannot be read, and that is neither a KeyError nor
\* an IndexError: the error reaches the caller and the target does not block.
MetadataRaises == IF records[SetRef] \in Keys THEN None ELSE "SecretStoreError"

VerifySecretReference ==
    /\ target' = IF MetadataRaises \in {"KeyError", "IndexError"}
                    /\ target.state \in {"pending", "queued"}
                 THEN Blocked ELSE target
    /\ verdict' = [missing |-> MetadataRaises # None, before |-> target.state,
                   after |-> target'.state]

AuditNext ==
    \/ /\ \/ FailAudit \/ RestartAudit
          \/ \E to \in AuditStates : TransitionAudit(to)
          \/ \E cost \in 0 .. MaxCost : UpdateCheckpoint(cost)
       /\ UNCHANGED verdict
    \/ VerifySecretReference

ProtectedAuditSpec ==
    /\ VaultInit /\ AuditInit
    /\ [][\/ VaultNext /\ UNCHANGED auditVars
          \/ AuditNext /\ UNCHANGED vaultVars]_<<vaultVars, auditVars>>


-----------------------------------------------------------------------------
(* What the store promises.                                                *)

\* While every key is written by a process that is alone with the store and
\* lives to finish, each secret that was stored and not deleted can be read
\* with the key on disk, and nothing else can: neither a death in a put, nor any
\* number of rotations and restarts, loses a secret or brings back a deleted one.
SecretsSurvive ==
    (~disturbed /\ \A p \in Holders : vpc[p] \notin {"keying", "rewriting"})
        => \A r \in Refs : Readable(r, keyFile) <=> r \in kept

(* What makes it inductive.                                                 *)
VaultTypeOK ==
    /\ keyFile \in 0 .. MaxKeys + 1 /\ drawn \in 0 .. MaxKeys
    /\ records \in [Refs -> 0 .. MaxKeys + 1]
    /\ held \in [Holders -> 0 .. MaxKeys]
    /\ vpc \in [Holders -> {"closed", "creating", "keying", "rewriting", "open", "dying"}]
    /\ rewriting \in [Holders -> SUBSET Refs]
    /\ kept \subseteq Refs /\ disturbed \in BOOLEAN

\* The references that have a file.
Filed == {r \in Refs : records[r] # NoFile}

\* A process that writes a key has the store to itself, an open one has the key on
\* disk, and without a key there is nothing.
KeysHeld ==
    /\ keyFile = NoKey => kept = {} /\ Filed = {}
    /\ \A p \in Holders :
        /\ vpc[p] \in {"creating", "keying", "rewriting"} => Alone(p)
        /\ At(p, "creating") => keyFile = NoKey
        /\ At(p, "open") => held[p] = keyFile /\ keyFile \in Keys
        /\ At(p, "keying") => held[p] \in Keys /\ kept = Filed /\ rewriting[p] = Filed
        /\ At(p, "rewriting") =>
            /\ held[p] = keyFile /\ keyFile \in Keys
            /\ kept = Filed /\ rewriting[p] \subseteq Filed
            /\ \A r \in Filed \ rewriting[p] : records[r] = keyFile
        /\ vpc[p] \notin {"keying", "rewriting"} => rewriting[p] = {}

VaultInv == VaultTypeOK /\ SecretsSurvive /\ (~disturbed => KeysHeld)
=============================================================================
