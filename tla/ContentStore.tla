---------------------------- MODULE ContentStore ----------------------------
(***************************************************************************)
(* What the scratch store promises, seen from outside: content is adopted  *)
(* whole, a reference is only ever added to content that is there, and     *)
(* neither is ever taken back.                                             *)
(***************************************************************************)
EXTENDS Naturals

CONSTANTS Contents,     \* the contents that may be stored
          Refs          \* the references (provenance records) to content

VARIABLES stored,       \* the contents held
          refs          \* the references recorded for each content

storeVars == <<stored, refs>>

StoreInit == stored = {} /\ refs = [c \in Contents |-> {}]

Adopt(c) == stored' = stored \cup {c} /\ UNCHANGED refs

Refer(c, r) ==
    /\ c \in stored
    /\ refs' = [refs EXCEPT ![c] = @ \cup {r}]
    /\ UNCHANGED stored

StoreNext == \E c \in Contents : Adopt(c) \/ \E r \in Refs : Refer(c, r)

StoreSpec == StoreInit /\ [][StoreNext]_storeVars
=============================================================================
