------------------------------ MODULE HashChain -------------------------------
(***************************************************************************)
(* What the ledger of support access promises to whoever reads it: rows    *)
(* are only ever added, one at a time, each numbered after all there are   *)
(* and naming the hash of the one before it.  Nothing is changed, removed  *)
(* or put in between, and there is no fork.                                *)
(*                                                                         *)
(* AuditLedger implements it with a lock, an insert and a commit that may  *)
(* each fail, and a process that may end in between.                       *)
(***************************************************************************)
EXTENDS Naturals

CONSTANT NoHash  \* what the first row names

VARIABLES
    chain,  \* the rows on record
    tip     \* the hash of the last of them

vars == <<chain, tip>>

Init ==
    /\ chain = {}
    /\ tip = NoHash

\* The row names the tip, and becomes it.
Extend(row) ==
    /\ row.prev = tip
    /\ \A e \in chain : e.seq < row.seq
    /\ chain' = chain \cup {row}
    /\ tip' = row.hash

Next == \E row \in chain' \ chain : Extend(row)

Spec == Init /\ [][Next]_vars
=============================================================================
