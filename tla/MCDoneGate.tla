----------------------------- MODULE MCDoneGate -----------------------------
(* A small instance of DoneGate for TLC.                                   *)
EXTENDS DoneGate, TLC

CONSTANTS t1, t2, f1, s1

\* With two tasks, t2 depends on t1.
MCDeps == [t \in Tasks |-> IF t = t2 THEN {t1} ELSE {}]
\* Version 0 carries something the tree scan reports; in the later ones only
\* the reviewers find something.
MCScan == [v \in Versions |-> IF v = 0 THEN {f1} ELSE {}]
NoScan == [v \in Versions |-> {}]
=============================================================================
