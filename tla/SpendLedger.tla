---------------------------- MODULE SpendLedger ----------------------------
(***************************************************************************)
(* What the anti-rollback protocol promises the owner of a treasury, with  *)
(* no enclave, blob, relay or crash in sight.  Commits are numbered        *)
(* without gaps, a request_id commits once, the recorded spend respects    *)
(* the budget, and each commit pays at most once, exactly what it was      *)
(* debited for.                                                            *)
(***************************************************************************)
EXTENDS Integers

CONSTANTS Rids, Budget

VARIABLES
    height,     \* commits so far
    log,        \* one entry per commit: request_id, number, spend after it
    paid        \* the commits whose signature was released

vars == <<height, log, paid>>

\* The recorded spend after commit e, and before the first one.
SpentAt(e) == IF e = 0 THEN 0 ELSE (CHOOSE l \in log : l.epoch = e).spent

Init ==
    /\ height = 0
    /\ log = {}
    /\ paid = {}

Commit(rid, spent) ==
    /\ \A l \in log : l.rid # rid
    /\ height' = height + 1
    /\ log' = log \cup {[rid |-> rid, epoch |-> height + 1, spent |-> spent]}
    /\ UNCHANGED paid

Pay(l, debit) ==
    /\ \A p \in paid : p.epoch # l.epoch
    /\ debit > 0 => l.spent = SpentAt(l.epoch - 1) + debit
    /\ paid' = paid \cup {[rid |-> l.rid, epoch |-> l.epoch, debit |-> debit]}
    /\ UNCHANGED <<height, log>>

Next ==
    \/ \E rid \in Rids, spent \in 0 .. Budget : Commit(rid, spent)
    \/ \E l \in log, debit \in 0 .. Budget : Pay(l, debit)

Spec == Init /\ [][Next]_vars
=============================================================================
