------------------------------ MODULE Learnings ------------------------------
(***************************************************************************)
(* The learnings store (learnings.py): one directory that all projects of  *)
(* a user share.  `learn` writes a record at <category>/<slug>.md, never   *)
(* over another; a digest scans a bounded number of files, keeps those it  *)
(* can trust, and offers the ones that match the project best.  Commands   *)
(* of several projects run at once, time passes, and the user's other      *)
(* tools may damage, remove or copy files.  Redaction is not modelled.     *)
(***************************************************************************)
EXTENDS Naturals, FiniteSets, FiniteSetsExt

CONSTANTS
  Learners,     \* `learn` commands, each of a project
  Files,        \* paths of the store, numbered in their sorted order
  Laid,         \* those of the form <category>/<slug>.md
  Words,        \* triggers
  Topics,       \* the sets of triggers given with a record
  Keywords,     \* the terms of the project that asks for a digest
  DigestLimit,  \* --limit
  MaxScanned,   \* MAX_RECORDS_SCANNED
  MaxAge,       \* MAX_AGE_DAYS
  MaxDay,       \* bound: days that pass
  MaxDamage     \* bound: what other tools do to the files

ASSUME LearningsAssumption ==
  /\ Laid \subseteq Files /\ Files \subseteq Nat
  /\ Keywords \subseteq Words /\ IsFiniteSet(Keywords)
  /\ Topics \subseteq SUBSET Words \ {{}}
  /\ {DigestLimit, MaxScanned, MaxAge, MaxDay, MaxDamage} \subseteq Nat

VARIABLES
  lnDay,      \* today
  lnStore,    \* lnStore[p]: the record in file p, or NoRecord
  lnLearner,  \* lnLearner[w]: how far its command is, and the record it writes
  lnDigest,   \* the digest being made, or the last one
  lnDamage,   \* how often other tools touched the store
  lnWritten,  \* ghost: the records written by commands
  lnSteady    \* ghost: the files the digest must see, not touched since it began

lnVars == <<lnDay, lnStore, lnLearner, lnDigest, lnDamage, lnWritten, lnSteady>>

NoRecord == [title |-> 0, by |-> "none", day |-> 0, words |-> {}, whole |-> FALSE, lines |-> FALSE]
\* whole: the hash in it is that of its content.  lines: no line separator that splitlines
\* knows and the check of a scalar does not (U+2028) is in it.
Record(w, p, ws, ls) ==
  [title |-> p, by |-> w, day |-> lnDay, words |-> ws, whole |-> TRUE, lines |-> ls]
Idle     == [pc |-> "idle", record |-> NoRecord]
Learned  == [pc |-> "ended", record |-> NoRecord]
NoDigest == [pc |-> "none", now |-> 0, left |-> {}, scored |-> {}, items |-> {}]
Filled  == {p \in Files : lnStore[p] # NoRecord}

LNInit ==
  /\ lnDay = 0 /\ lnStore = [p \in Files |-> NoRecord] /\ lnLearner = [w \in Learners |-> Idle]
  /\ lnDigest = NoDigest /\ lnDamage = 0 /\ lnWritten = {} /\ lnSteady = {}

------------------------------------------------------------------------------
(* `learn`.                                                                 *)

\* The record is built, with the time, before the store is looked at.
BeginLearn(w) ==
  /\ lnLearner[w] = Idle
  /\ \E p \in Laid, ws \in Topics, ls \in BOOLEAN :
        lnLearner' = [lnLearner EXCEPT ![w] = [pc |-> "read", record |-> Record(w, p, ws, ls)]]
  /\ UNCHANGED <<lnDay, lnStore, lnDigest, lnDamage, lnWritten, lnSteady>>

SlugOf(w) == lnLearner[w].record.title

\* Where there is a file, the command ends: the same record is there, or "learning id collision".
FindSlug(w) ==
  /\ lnLearner[w].pc = "read"
  /\ lnLearner' = [lnLearner EXCEPT ![w] = IF SlugOf(w) \in Filled THEN Learned ELSE [@ EXCEPT !.pc = "create"]]
  /\ UNCHANGED <<lnDay, lnStore, lnDigest, lnDamage, lnWritten, lnSteady>>

\* Mutant: the file is put in place whether or not one is there.
ReplaceRecord(p, r) == lnStore' = [lnStore EXCEPT ![p] = r] /\ lnWritten' = lnWritten \cup {r}
\* create_text_exclusive: of two that found no file only one creates it, the other fails.
CreateRecord(p, r) ==
  IF p \in Filled THEN UNCHANGED <<lnStore, lnWritten>>
  ELSE lnStore' = [lnStore EXCEPT ![p] = r] /\ lnWritten' = lnWritten \cup {r}

EndLearn(w) ==
  /\ lnLearner[w].pc = "create"
  /\ CreateRecord(SlugOf(w), lnLearner[w].record)
  /\ lnLearner' = [lnLearner EXCEPT ![w] = Learned]
  /\ lnSteady' = lnSteady \ {SlugOf(w)}
  /\ UNCHANGED <<lnDay, lnDigest, lnDamage>>

------------------------------------------------------------------------------
(* The digest.                                                              *)

\* Mutant: the hash of a record is not compared with its content.
TrustsAnyHash(p, r, now) == p \in Laid /\ r.lines /\ r.day <= now /\ now - r.day <= MaxAge
\* _record_relative, _parse_record: the place, the hash, the fields and the age of a record.
Trusted(p, r, now) == p \in Laid /\ r.whole /\ r.lines /\ r.day <= now /\ now - r.day <= MaxAge

Matched(r) == r.words \cap Keywords
Score(r)   == Cardinality(Matched(r))
Fits(p, r, now) == r # NoRecord /\ Trusted(p, r, now) /\ Matched(r) # {}

\* The .md files that are first in the order, as many as are scanned.
Candidates == {p \in Filled : Cardinality({q \in Filled : q < p}) < MaxScanned}

\* The store is listed, and the time taken, once.
BeginDigest ==
  /\ lnDigest.pc \in {"none", "made"}
  /\ lnDigest' = [NoDigest EXCEPT !.pc = "scan", !.now = lnDay, !.left = Candidates]
  /\ lnSteady' = Candidates
  /\ UNCHANGED <<lnDay, lnStore, lnLearner, lnDamage, lnWritten>>

\* Each file is read when its turn comes, in that order; what is gone or cannot be trusted is only counted.
ScanFile ==
  /\ lnDigest.pc = "scan" /\ lnDigest.left # {}
  /\ LET p == Min(lnDigest.left)
         r == lnStore[p]
     IN  lnDigest' = [lnDigest EXCEPT !.left = @ \ {p},
           !.scored = @ \cup IF Fits(p, r, lnDigest.now) THEN {[at |-> p, record |-> r]} ELSE {}]
  /\ UNCHANGED <<lnDay, lnStore, lnLearner, lnDamage, lnWritten, lnSteady>>

\* The order of the items: the score, then the title, then the id, then the file.
Key(x) == <<Cardinality(Keywords) - Score(x.record), x.record.title, x.at>>
Outranks(x, y) ==
  \E i \in 1 .. 3 : Key(x)[i] < Key(y)[i] /\ \A j \in 1 .. i - 1 : Key(x)[j] = Key(y)[j]

\* Mutant: the limit is applied to the files as they come.
FirstOf(xs) == {x \in xs : Cardinality({y \in xs : y.at < x.at}) < DigestLimit}
BestOf(xs) == {x \in xs : Cardinality({y \in xs : Outranks(y, x)}) < DigestLimit}

EndDigest ==
  /\ lnDigest.pc = "scan" /\ lnDigest.left = {}
  /\ lnDigest' = [lnDigest EXCEPT !.pc = "made", !.items = BestOf(lnDigest.scored), !.scored = {}]
  /\ UNCHANGED <<lnDay, lnStore, lnLearner, lnDamage, lnWritten, lnSteady>>

------------------------------------------------------------------------------
(* Time, and other tools.                                                   *)

DayPasses ==
  /\ lnDay < MaxDay /\ lnDay' = lnDay + 1
  /\ UNCHANGED <<lnStore, lnLearner, lnDigest, lnDamage, lnWritten, lnSteady>>

\* A file is edited, removed, or copied to another name; no one computes hashes by hand.
Damaged(p) == {NoRecord} \cup {lnStore[q] : q \in Filled}
                \cup (IF p \in Filled THEN {[lnStore[p] EXCEPT !.whole = FALSE, !.words = Words]} ELSE {})
OtherTool ==
  /\ lnDamage < MaxDamage /\ lnDamage' = lnDamage + 1
  /\ \E p \in Files : /\ \E r \in Damaged(p) : lnStore' = [lnStore EXCEPT ![p] = r]
                      /\ lnSteady' = lnSteady \ {p}
  /\ UNCHANGED <<lnDay, lnLearner, lnDigest, lnWritten>>

LNNext ==
  \/ \E w \in Learners : BeginLearn(w) \/ FindSlug(w) \/ EndLearn(w)
  \/ BeginDigest \/ ScanFile \/ EndDigest
  \/ DayPasses \/ OtherTool

LNSpec == LNInit /\ [][LNNext]_lnVars

------------------------------------------------------------------------------
(* Every item of a digest is a record as a `learn` command wrote it, not    *)
(* older than the limit when the digest was begun, whatever was written or  *)
(* damaged while the store was scanned.                                     *)
DigestTrusted ==
  lnDigest.pc = "made" => \A x \in lnDigest.items :
    x.record \in lnWritten /\ lnDigest.now <= x.record.day + MaxAge /\ Matched(x.record) # {}

(* A record that lay among the files to be scanned, was not touched while   *)
(* the digest was made, and fits, is in the digest -- unless the digest is  *)
(* full of items that outrank it.                                           *)
NothingLeftOut ==
  lnDigest.pc = "made" => \A p \in lnSteady :
    LET x == [at |-> p, record |-> lnStore[p]]
    IN  Fits(p, x.record, lnDigest.now) /\ x \notin lnDigest.items =>
          Cardinality({y \in lnDigest.items : Outranks(y, x)}) >= DigestLimit

(* No command changes or removes a record that lies in the store: projects  *)
(* that learn at the same time under one title do not overwrite each other. *)
RecordsStand ==
  [][~OtherTool => \A p \in Filled : lnStore'[p] = lnStore[p]]_lnVars
=============================================================================
