----------------------------- MODULE MCJudgements -----------------------------
(***************************************************************************)
(* Small instances of what is judged later than it was seen: evidence and  *)
(* previews and their proofs, the profile a project was given, and the     *)
(* learnings of other projects.  They share no state, so a behaviour is of *)
(* one of them, `part`, while the others stay as they are.                 *)
(***************************************************************************)
EXTENDS LiveProof, PreviewFetch, ProfileLock, Learnings, TLC

CONSTANTS c1, c2

\* LiveProof: the two collectors are alike.
Symmetry == Permutations({c1, c2})

\* PreviewFetch: what is asked of a preview; the hash 2 stands for none, the commit 0, too.
Ask(status, checks, hash, commit) ==
  [status |-> status, checks |-> checks, hash |-> hash, commit |-> commit]
MCAsks ==
  {Ask("200", {"contains", "url-contains"}, 0, 1), Ask("200", {"not-contains"}, 2, 1),
   Ask("200", {"not-contains"}, 2, 2), Ask("302", {"not-contains"}, 0, 0),
   Ask("200", {"contains", "not-contains"}, 1, 2), Ask("200", {"not-contains"}, 0, 2),
   Ask("200", {"url-contains"}, 2, 0)}

VARIABLE part

\* The parts that stand still begin in one of their initial states.  Proofs begin
\* with a lease, as the only lease command is kept for its release or renewal.
JudgementsInit ==
  /\ part \in {"proof", "preview", "profile", "learnings"}
  /\ LPInit /\ (part = "proof" <=> lpLease.file # NoLease)
  /\ PFInit /\ (part = "preview" \/ pfAsked = Ask("200", {"url-contains"}, 2, 0))
  /\ PLInit /\ (part = "profile" \/ plGates)
  /\ LNInit

JudgementsNext ==
  /\ UNCHANGED part
  /\ \/ part = "proof" /\ LPNext /\ UNCHANGED <<pfVars, plVars, lnVars>>
     \/ part = "preview" /\ PFNext /\ UNCHANGED <<lpVars, plVars, lnVars>>
     \/ part = "profile" /\ PLNext /\ UNCHANGED <<lpVars, pfVars, lnVars>>
     \/ part = "learnings" /\ LNNext /\ UNCHANGED <<lpVars, pfVars, plVars>>
==============================================================================
