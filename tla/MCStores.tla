------------------------------- MODULE MCStores -------------------------------
(***************************************************************************)
(* Small instances of what is kept in files: the primitives that write     *)
(* them, and change packets.  They share no file, so a behaviour is of one *)
(* of them, `part`, while the other stays as it is.                        *)
(***************************************************************************)
EXTENDS ChangePackets, SafeIO, TLC

CONSTANTS r1, a1, b1, srcA, srcB, o1, o2, o3, none

\* SafeIO: which three operations run against each other.
MCOps  == {o1, o2, o3}
Trio(a, b, c) == (o1 :> a) @@ (o2 :> b) @@ (o3 :> c)
MCWork == {Trio("replace", "replace", "create"), Trio("replace", "create", "create"),
           Trio("bundle", "bundle", "bundle"), Trio("append", "append", "append")}

\* ChangePackets: the changed files of srcB have no owner until the root Plan is
\* changed.
MCUnowned == {<<srcB, 0>>}

VARIABLE part

\* The part that stands still begins in one of its initial states.
StoresInit ==
  /\ part \in {"packets", "files"}
  /\ Init /\ (part = "packets" \/ drift = srcA)
  /\ IOInit /\ (part = "files" \/ ioKind[o1] = "append")

StoresNext ==
  /\ UNCHANGED part
  /\ \/ part = "packets" /\ Next /\ UNCHANGED ioVars
     \/ part = "files" /\ IONext /\ UNCHANGED vars
==============================================================================
