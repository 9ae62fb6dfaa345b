------------------------------ MODULE MCReviews ------------------------------
(***************************************************************************)
(* Small instances of the reviews that `done` waits for, and of how the    *)
(* Blueprint's review policy says which roles these are.  A behaviour is   *)
(* of one of the two, `part`, while the other stays as it is: the roles    *)
(* that `done` asks for are fixed when it starts (DoneGate's Roles).       *)
(***************************************************************************)
EXTENDS MCDoneGate, ReviewPolicy

\* ReviewPolicy: a user interface task and a build task.
MCGroup  == [ui |-> "ui", auth |-> "security", coupling |-> "architecture", latency |-> "performance"]
MCProof  == [shell |-> {"browser"}, build |-> {"package"}]
MCVerify == [shell |-> TRUE, build |-> FALSE]
MCOwned  == [shell |-> {"app.ts", "notes.md"}, build |-> {"build.md"}]

VARIABLE part

\* The part that stands still begins in one of its initial states.
ReviewsInit ==
  /\ part \in {"done", "policy"}
  /\ Init
  /\ RPInit /\ (part = "policy" \/ (~rpHeading /\ rpProfile = "standard"))

ReviewsNext ==
  /\ UNCHANGED part
  /\ \/ part = "done" /\ Next /\ UNCHANGED rpVars
     \/ part = "policy" /\ RPNext /\ UNCHANGED vars
=============================================================================
