------------------------------- MODULE Ledger -------------------------------
(***************************************************************************)
(* What facade.Ledger promises its callers: a register per key whose every *)
(* write is atomic and compare-and-swap against the version the caller got *)
(* from its last Get.  Versions are the number of writes the key has had,  *)
(* so a version once passed never becomes current again.                   *)
(***************************************************************************)
EXTENDS LedgerEntries, Naturals

CONSTANT Procs      \* the callers

VARIABLES
    entry,          \* entry[k]: the record at key k, Gone when there is none
    epoch,          \* epoch[k]: how many writes key k has had
    held            \* held[p][k]: the version p got from its last Get, 0 = none

vars == <<entry, epoch, held>>

Init == /\ entry = [k \in Keys |-> Gone]
        /\ epoch = [k \in Keys |-> 0]
        /\ held = [p \in Procs |-> [k \in Keys |-> 0]]

Get(p, k) ==
    /\ held' = [held EXCEPT ![p][k] = IF Found(entry[k]) THEN epoch[k] ELSE 0]
    /\ UNCHANGED <<entry, epoch>>

Write(p, c) ==
    /\ Admits(held[p][c.key], entry[c.key], epoch[c.key])
    /\ Applicable(c, entry[c.key])
    /\ entry' = [entry EXCEPT ![c.key] = Outcome(c, @)]
    /\ epoch' = [epoch EXCEPT ![c.key] = @ + 1]
    /\ UNCHANGED held

\* A caller dies; its successor holds no version.
Crash(p) == /\ held' = [held EXCEPT ![p] = [k \in Keys |-> 0]]
            /\ UNCHANGED <<entry, epoch>>

Next == \E p \in Procs : \/ \E k \in Keys : Get(p, k)
                         \/ \E c \in Calls : Write(p, c)
                         \/ Crash(p)

Spec == Init /\ [][Next]_vars
============================================================================
