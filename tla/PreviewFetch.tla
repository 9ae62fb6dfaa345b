----------------------------- MODULE PreviewFetch -----------------------------
(***************************************************************************)
(* What the preview collector sees (preview.py): it fetches the preview    *)
(* over redirects, each hop connected to an address the URL was resolved   *)
(* to and vetted, runs smoke checks on the answer, and binds the deployed  *)
(* identity to the source; `preview-proof` judges the record later         *)
(* (runtime_preview.py).  Names resolve anew at any time, the server       *)
(* answers as it likes, and the source and its commits go on.              *)
(*                                                                         *)
(* Which files carry the result, and who else writes them, is LiveProof.   *)
(***************************************************************************)
EXTENDS Naturals, Sequences, FiniteSets, FiniteSetsExt

CONSTANTS
  Urls,          \* the addresses of pages
  Landing,       \* the one asked for
  Asks,          \* what may be asked of it: status, smoke checks, deployed hash and commit
  Https,         \* those that need https
  Wanted,        \* those that hold what the url-contains check looks for
  Addresses,     \* IP addresses, as numbers
  Allowed,       \* those of them one may connect to
  MaxRedirects,  \* --max-redirects
  MaxResolved,   \* bound: changes of name resolution
  MaxEdits       \* bound: edits, and commits, of the source

Checks   == {"contains", "not-contains", "url-contains"}
Unnamed  == MaxEdits + 1    \* no hash given

ASSUME PreviewAssumption ==
  /\ Landing \in Urls /\ Https \subseteq Urls /\ Wanted \subseteq Urls
  /\ Allowed \subseteq Addresses /\ Addresses \subseteq Nat
  /\ Asks \subseteq [status : {"200", "302"}, checks : SUBSET Checks, hash : 0 .. Unnamed, commit : Nat]
  /\ MaxRedirects \in Nat /\ MaxResolved \in Nat /\ MaxEdits \in Nat

VARIABLES
  pfAsked,     \* what was asked for
  pfNames,     \* pfNames[u]: what the host of u resolves to now
  pfChanges,   \* changes of it so far
  pfTree,      \* the source: its content, the committed contents, a dirty path out of reach
  pfPc,        \* of the collector, "start", "bind", "vet", "connect", "smoke", "end",
               \* "collected", and of the proof, "manifest", "deployment", "judged"
  pfUrl,       \* the current URL
  pfVetted,    \* validated_ips
  pfLeft,      \* iterations of the loop that are left
  pfAnswer,    \* the last answer
  pfChain,     \* the redirects
  pfProblem,   \* a blocking problem so far
  pfSmoke,     \* the smoke checks that were passed
  pfSources,   \* the source before and after the collection
  pfRead,      \* what the proof has read
  pfVerdict,   \* of the last proof
  pfSeen,      \* ghost: pfSeen[u]: what u was resolved to when it was last vetted
  pfTrail      \* ghost: every connection, with what its URL had been resolved to

pfVars == <<pfAsked, pfNames, pfChanges, pfTree, pfPc, pfUrl, pfVetted, pfLeft, pfAnswer, pfChain,
            pfProblem, pfSmoke, pfSources, pfRead, pfVerdict, pfSeen, pfTrail>>
pfWorld  == <<pfAsked, pfNames, pfChanges, pfTree>>
pfFetch  == <<pfUrl, pfVetted, pfLeft, pfAnswer, pfChain, pfSeen, pfTrail>>
pfProof  == <<pfRead, pfVerdict>>
pfResult == <<pfSmoke, pfSources, pfProof>>

NoAnswer == [status |-> "none", text |-> FALSE, cut |-> FALSE]
\* cut: the text is only in the part of the body beyond the size limit.
Answers  == [status : {"200", "500"}, text : BOOLEAN, cut : {FALSE}]
              \cup {[status |-> "200", text |-> FALSE, cut |-> TRUE]}
\* Whether what was read stands, and the source that the deployment is compared with.
NothingRead == [stands |-> FALSE, source |-> 0]
HeadCommit  == Len(pfTree.log)

PFInit ==
  /\ pfAsked \in Asks
  /\ pfNames = [u \in Urls |-> Allowed] /\ pfChanges = 0
  /\ pfTree = [now |-> 0, log |-> <<0>>, missing |-> FALSE]
  /\ pfPc = "start" /\ pfUrl = Landing /\ pfVetted = {} /\ pfLeft = MaxRedirects + 1
  /\ pfAnswer = NoAnswer /\ pfChain = <<>> /\ pfProblem = FALSE /\ pfSmoke = {}
  /\ pfSources = [before |-> 0, after |-> 0] /\ pfRead = NothingRead /\ pfVerdict = "none"
  /\ pfSeen = [u \in Urls |-> {}] /\ pfTrail = {}

------------------------------------------------------------------------------
(* The world: names, and the source tree.                                   *)

ResolveAnew ==
  /\ pfChanges < MaxResolved /\ pfChanges' = pfChanges + 1
  /\ \E u \in Urls, as \in {{}, Addresses \ Allowed, Allowed, Addresses} :
        pfNames' = [pfNames EXCEPT ![u] = as]
  /\ UNCHANGED <<pfAsked, pfTree, pfPc, pfFetch, pfProblem, pfResult>>

EditTree ==
  /\ \E c \in 0 .. MaxEdits, m \in BOOLEAN :
        /\ c <= pfTree.now + 1 /\ <<c, m>> # <<pfTree.now, pfTree.missing>>
        /\ pfTree' = [pfTree EXCEPT !.now = c, !.missing = m]
  /\ UNCHANGED <<pfAsked, pfNames, pfChanges, pfPc, pfFetch, pfProblem, pfResult>>

CommitSource ==
  /\ HeadCommit <= MaxEdits
  /\ pfTree' = [pfTree EXCEPT !.log = Append(@, pfTree.now), !.missing = FALSE]
  /\ UNCHANGED <<pfAsked, pfNames, pfChanges, pfPc, pfFetch, pfProblem, pfResult>>

CleanAtHead == pfTree.now = pfTree.log[HeadCommit] /\ ~pfTree.missing

------------------------------------------------------------------------------
(* The collector.                                                           *)

HashBound(source)  == pfAsked.hash = source /\ ~pfTree.missing
CommitBound        == pfAsked.commit = HeadCommit /\ CleanAtHead
HashGiven          == pfAsked.hash # Unnamed
CommitGiven        == pfAsked.commit # 0

\* The source is hashed first.
StartPreview ==
  /\ pfPc = "start" /\ pfPc' = "bind"
  /\ pfSources' = [pfSources EXCEPT !.before = pfTree.now]
  /\ UNCHANGED <<pfWorld, pfFetch, pfProblem, pfSmoke, pfProof>>

\* Mutant: one identity that is current is enough.
DeploymentBoundByOne(source) == HashBound(source) \/ (CommitGiven /\ CommitBound)
\* build_deployment_payload: an identity is given, and each one given is current.
DeploymentBound(source) ==
  /\ HashGiven \/ CommitGiven
  /\ HashGiven => HashBound(source)
  /\ CommitGiven => CommitBound

BindDeployment ==
  /\ pfPc = "bind" /\ pfPc' = "vet"
  /\ pfProblem' = (pfProblem \/ ~DeploymentBound(pfSources.before))
  /\ UNCHANGED <<pfWorld, pfFetch, pfResult>>

\* validate_url_safety_with_ips: the problems and the addresses come from one resolution.
Unsafe(u) == pfNames[u] = {} \/ ~(pfNames[u] \subseteq Allowed)
Vet(u)    == pfVetted' = pfNames[u] /\ pfSeen' = [pfSeen EXCEPT ![u] = pfNames[u]]

\* An unsafe first URL is not fetched at all.
VetLanding ==
  /\ pfPc = "vet" /\ Vet(Landing)
  /\ IF Unsafe(Landing) THEN pfPc' = "smoke" /\ pfProblem' = TRUE
                        ELSE pfPc' = "connect" /\ UNCHANGED pfProblem
  /\ UNCHANGED <<pfWorld, pfUrl, pfLeft, pfAnswer, pfChain, pfTrail, pfResult>>

\* pinned_http_get: https is refused, and the least vetted address is connected to.
Pinned == Min(pfVetted)
Connects ==
  /\ pfPc = "connect" /\ pfLeft > 0 /\ pfUrl \notin Https
  /\ pfTrail' = pfTrail \cup {[url |-> pfUrl, to |-> Pinned, seen |-> pfSeen[pfUrl]]}

\* The request is refused or fails, or the redirects have used the loop up.
ConnectFails ==
  /\ \/ Connects
     \/ pfPc = "connect" /\ (pfLeft = 0 \/ pfUrl \in Https) /\ UNCHANGED pfTrail
  /\ pfPc' = "smoke" /\ pfProblem' = TRUE
  /\ pfAnswer' = IF pfLeft = 0 THEN pfAnswer ELSE NoAnswer
  /\ UNCHANGED <<pfWorld, pfUrl, pfVetted, pfLeft, pfChain, pfSeen, pfResult>>

\* Mutant: a redirect is followed with the addresses of the page before it.
RedirectUnvetted(u) ==
  /\ pfUrl' = u /\ pfSeen' = [pfSeen EXCEPT ![u] = pfNames[u]]
  /\ UNCHANGED <<pfPc, pfProblem, pfVetted>>
\* A redirect is vetted before it is followed; an unsafe one ends the fetch where it is.
Redirect(u) ==
  /\ Vet(u)
  /\ IF Unsafe(u) THEN pfPc' = "smoke" /\ pfProblem' = TRUE /\ UNCHANGED pfUrl
                  ELSE pfUrl' = u /\ UNCHANGED <<pfPc, pfProblem>>

Redirected ==
  /\ Connects
  /\ \E u \in Urls : Redirect(u) /\ pfChain' = Append(pfChain, u)
  /\ pfAnswer' = [NoAnswer EXCEPT !.status = "302"] /\ pfLeft' = pfLeft - 1
  /\ UNCHANGED <<pfWorld, pfResult>>

Answered ==
  /\ Connects /\ pfPc' = "smoke"
  /\ \E a \in Answers \cup {[NoAnswer EXCEPT !.status = "302"]} : pfAnswer' = a
  /\ UNCHANGED <<pfWorld, pfUrl, pfVetted, pfLeft, pfChain, pfProblem, pfSeen, pfResult>>

\* run_smoke_checks, on the part of the body that was read.
Holds(check) ==
  CASE check = "contains"     -> pfAnswer.text
    [] check = "not-contains" -> ~pfAnswer.text
    [] OTHER                  -> pfUrl \in Wanted
\* Mutant: one check that holds is enough.
SmokePassedOnce == pfSmoke # {}
SmokePassed == pfSmoke = pfAsked.checks

\* Every check is run, whatever the fetch came to; a status not asked for is a problem.
RunSmoke ==
  /\ pfPc = "smoke" /\ pfPc' = "end"
  /\ pfSmoke' = {c \in pfAsked.checks : Holds(c)}
  /\ pfProblem' = (pfProblem \/ pfAnswer.status # pfAsked.status)
  /\ UNCHANGED <<pfWorld, pfFetch, pfSources, pfProof>>

\* A failed smoke check is a problem; the source is hashed again, and the manifest written.
EndPreview ==
  /\ pfPc = "end" /\ pfPc' = "collected"
  /\ pfProblem' = (pfProblem \/ ~SmokePassed)
  /\ pfSources' = [pfSources EXCEPT !.after = pfTree.now]
  /\ UNCHANGED <<pfWorld, pfFetch, pfSmoke, pfProof>>

------------------------------------------------------------------------------
(* preview-proof, on a manifest that lies where the collector wrote it.     *)

\* deployment_bound_to_current: the hash decides if it is that of the source, else a
\* clean HEAD does.
BoundNow(source) ==
  IF HashGiven /\ pfAsked.hash = source THEN ~pfTree.missing ELSE CommitGiven /\ CommitBound

\* Every address connected to must be allowed, and every URL be safe as it resolves now.
FetchStands ==
  /\ pfTrail # {} /\ \A c \in pfTrail : c.to \in Allowed
  /\ \A u \in {Landing, pfUrl} \cup {pfChain[i] : i \in DOMAIN pfChain} : ~Unsafe(u)
  /\ pfAnswer.status = pfAsked.status /\ Landing \notin Https

\* load_and_validate_live_manifest: not degraded, and of the source as it is.
ManifestStands == ~pfProblem /\ pfSources.before = pfSources.after /\ pfSources.after = pfTree.now

\* The source is read for the manifest, again for the deployment, and git last; each
\* may have changed in between.
ProveManifest ==
  /\ pfPc \in {"collected", "judged"} /\ pfPc' = "manifest"
  /\ pfRead' = [NothingRead EXCEPT !.stands = ManifestStands]
  /\ UNCHANGED <<pfWorld, pfFetch, pfProblem, pfSmoke, pfSources, pfVerdict>>

ProveFetch ==
  /\ pfPc = "manifest" /\ pfPc' = "deployment"
  /\ pfRead' = [stands |-> pfRead.stands /\ FetchStands, source |-> pfTree.now]
  /\ UNCHANGED <<pfWorld, pfFetch, pfProblem, pfSmoke, pfSources, pfVerdict>>

ProveDeployment ==
  /\ pfPc = "deployment" /\ pfPc' = "judged"
  /\ pfVerdict' = IF pfRead.stands /\ BoundNow(pfRead.source) /\ SmokePassed
                  THEN "accepted" ELSE "blocked"
  /\ pfRead' = NothingRead
  /\ UNCHANGED <<pfWorld, pfFetch, pfProblem, pfSmoke, pfSources>>

PFNext ==
  \/ ResolveAnew \/ EditTree \/ CommitSource
  \/ StartPreview \/ BindDeployment \/ VetLanding
  \/ ConnectFails \/ Redirected \/ Answered \/ RunSmoke \/ EndPreview
  \/ ProveManifest \/ ProveFetch \/ ProveDeployment

PFSpec == PFInit /\ [][PFNext]_pfVars

------------------------------------------------------------------------------
(* Each connection went to an allowed address, and one its own URL had been *)
(* resolved to when it was vetted: neither a redirect nor a name that       *)
(* resolves anew moves the collector elsewhere (preview.py 169-208 and      *)
(* 304-329).                                                                *)
PinnedToVetted == \A c \in pfTrail : c.to \in c.seen \cap Allowed

(* An accepted preview was answered with the status asked for, over at most *)
(* as many redirects as allowed, and every smoke check holds of the whole   *)
(* page at the final URL -- but for a not-contains on a page that was cut.  *)
TrulyHolds(check) == Holds(check) /\ (check = "not-contains" => ~pfAnswer.cut)
AnswerJudged ==
  pfVerdict = "accepted" =>
    /\ pfAnswer.status = pfAsked.status /\ Len(pfChain) <= MaxRedirects
    /\ \A c \in pfAsked.checks : TrulyHolds(c) \/ (c = "not-contains" /\ pfAnswer.cut)
    /\ [url |-> pfUrl, to |-> Pinned, seen |-> pfVetted] \in pfTrail

(* When a preview is accepted, the deployed hash that was given is that of  *)
(* the source it was collected from, and without one the commit given is a  *)
(* HEAD that holds the source as it is now (build_deployment_payload,       *)
(* deployment_bound_to_current), whatever was edited and committed during   *)
(* the collection and the proof.                                            *)
DeploymentIsCurrent ==
  [][ProveDeployment /\ pfVerdict' = "accepted" =>
       IF HashGiven THEN pfAsked.hash = pfSources.before /\ pfAsked.hash = pfSources.after
       ELSE CommitGiven /\ pfTree.log[pfAsked.commit] = pfTree.now]_pfVars
=============================================================================
